----------------------------- MODULE SyncTimer -----------------------------
(***************************************************************************)
(* The timer of the SMI rendezvous, PiSmmCpuDxeSmm/SyncTimer.c: a free       *)
(* running performance counter that rolls over, read when a wait starts and  *)
(* at each iteration of the wait.                                            *)
(***************************************************************************)
EXTENDS Integers

CONSTANTS
  Period,          \* the number of values of the performance counter
  TimeoutTicker    \* mTimeoutTicker, PcdCpuSmmApSyncTimeout in ticks

ASSUME PeriodAssumption == Period \in Nat /\ Period > 1
ASSUME TickerAssumption == TimeoutTicker \in 1 .. Period - 1

VARIABLES
  countDown,       \* mCountDown: EndValue < StartValue
  now,             \* what GetPerformanceCounter returns
  timer,           \* what StartSyncTimer returned
  elapsed,         \* ticks since then
  running          \* has StartSyncTimer been called?

vars == <<countDown, now, timer, elapsed, running>>

Values == 0 .. Period - 1
cycle  == Period - 1              \* mCycle: Start - End, or End - Start

\* The ticks IsSyncTimerTimeout believes to have passed since StartSyncTimer.
\* (Two slips: no roll-over; its operands swapped.)
DeltaWithoutRollOver ==
  IF countDown THEN timer - now ELSE now - timer

DeltaRollOverSwapped ==
  IF countDown
  THEN IF now < timer THEN timer - now ELSE cycle - timer + now
  ELSE IF now > timer THEN now - timer ELSE cycle - now + timer

Delta ==
  IF countDown
  THEN IF now < timer THEN timer - now ELSE cycle - (now - timer)
  ELSE IF now > timer THEN now - timer ELSE cycle - (timer - now)

IsSyncTimerTimeout == Delta >= TimeoutTicker

\* InitializeSmmTimer, on a counter of either direction.
Init ==
  /\ countDown \in BOOLEAN
  /\ now \in Values /\ timer = 0 /\ elapsed = 0 /\ running = FALSE

StartSyncTimer ==
  /\ timer' = now /\ elapsed' = 0 /\ running' = TRUE
  /\ UNCHANGED <<countDown, now>>

\* The hardware counts; a wait is over before the counter is back where the
\* wait started ("Handle one roll-over").
Tick ==
  /\ running => elapsed < Period - 1
  /\ now' = IF countDown THEN IF now = 0 THEN Period - 1 ELSE now - 1
            ELSE IF now = Period - 1 THEN 0 ELSE now + 1
  /\ elapsed' = IF running THEN elapsed + 1 ELSE 0
  /\ UNCHANGED <<countDown, timer, running>>

Next == StartSyncTimer \/ Tick
Spec == Init /\ [][Next]_vars

-----------------------------------------------------------------------------
\* Once the counter has moved, IsSyncTimerTimeout never answers TRUE before
\* TimeoutTicker ticks, roll over or not.
NeverEarly ==
  running /\ elapsed > 0 /\ IsSyncTimerTimeout => elapsed >= TimeoutTicker

\* It answers TRUE one tick after the timeout at the latest (a roll over costs
\* a tick, as mCycle is one less than the number of values).
AtMostOneTickLate ==
  running /\ elapsed > TimeoutTicker => IsSyncTimerTimeout

\* The counter and the ticks: the invariant behind the two properties.
Distance == IF countDown THEN timer - now ELSE now - timer
TimerInv ==
  /\ countDown \in BOOLEAN /\ running \in BOOLEAN
  /\ now \in Values /\ timer \in Values
  /\ elapsed \in Values
  /\ running => elapsed = Distance \/ elapsed = Distance + Period
=============================================================================
