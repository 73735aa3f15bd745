-------------------------- MODULE SyncTimerProofs --------------------------
(***************************************************************************)
(* SyncTimer for every period, timeout and direction of the counter.        *)
(***************************************************************************)
EXTENDS SyncTimer, TLAPS

\* The counter value and the true number of ticks stay a period apart at most.
LEMMA TimerInvariant == Spec => []TimerInv
<1> USE PeriodAssumption, TickerAssumption
<1>1. Init => TimerInv
  <2> SUFFICES ASSUME Init PROVE TimerInv
    OBVIOUS
  <2>1. countDown \in BOOLEAN /\ running \in BOOLEAN /\ ~running
    BY Zenon DEF Init
  <2>2. now \in Values /\ timer \in Values /\ elapsed \in Values
    BY DEF Init, Values
  <2> QED
    BY <2>1, <2>2 DEF TimerInv
<1>2. TimerInv /\ [Next]_vars => TimerInv'
  <2> SUFFICES ASSUME TimerInv, [Next]_vars PROVE TimerInv'
    OBVIOUS
  <2> USE DEF TimerInv, Values, Distance
  <2>1. CASE StartSyncTimer
    BY <2>1 DEF StartSyncTimer
  <2>2. CASE Tick
    BY <2>2 DEF Tick
  <2>3. CASE UNCHANGED vars
    BY <2>3 DEF vars
  <2> QED
    BY <2>1, <2>2, <2>3 DEF Next
<1> QED
  BY <1>1, <1>2, PTL DEF Spec

\* IsSyncTimerTimeout is never early once the counter has moved.
THEOREM NeverEarlyHolds == Spec => []NeverEarly
<1>1. TimerInv => NeverEarly
  BY PeriodAssumption, TickerAssumption
  DEF TimerInv, Values, Distance, NeverEarly, IsSyncTimerTimeout, Delta, cycle
<1> QED
  BY <1>1, TimerInvariant, PTL

\* IsSyncTimerTimeout is late by one tick at most.
THEOREM AtMostOneTickLateHolds == Spec => []AtMostOneTickLate
<1>1. TimerInv => AtMostOneTickLate
  BY PeriodAssumption, TickerAssumption
  DEF TimerInv, Values, Distance, AtMostOneTickLate, IsSyncTimerTimeout, Delta, cycle
<1> QED
  BY <1>1, TimerInvariant, PTL
=============================================================================
