---------------------------- MODULE SmmRunProofs ----------------------------
(***************************************************************************)
(* What the run invariant gives: the safety properties of SmmRendezvous,    *)
(* for every number of processors, sync mode, MTRR configuration and        *)
(* bound.                                                                   *)
(*                                                                         *)
(* Four invariants are added to RunInv, each inductive relative to it:      *)
(*   ProcedureInv  a scheduled procedure is owned by one AP until it ran;   *)
(*   MtrrInv       who has replaced the MTRRs of a core;                    *)
(*   SyncInv, HeldInv  AllCpusInSync is up, and every processor is in SMM   *)
(*                 or has an SMI latched, once the BSP has gathered;        *)
(*   CasInv        a candidate is still one at the compare-exchange.        *)
(***************************************************************************)
EXTENDS SmmRunSteps

-----------------------------------------------------------------------------
(***************************************************************************)
(* The procedures that SmmStartupThisAp schedules.                          *)
(***************************************************************************)

\* The AP has been given a procedure and holds Busy for it.
Running(c) == In(c, ApLabels) /\ busy[c] /\ \A b \in Cpu : ~Starting(b, c)

\* Only the calls so far have started one; it has run at most once.
StartedInv == /\ started \subseteq 1 .. calls
              /\ \A p \in 1 .. MaxCalls : executions[p] = 1 \/ executions[p] = 0
              /\ \A p \in 1 .. MaxCalls : p \notin started => executions[p] = 0

\* An AP that has one has not run it, or has just run it; no other AP has it;
\* one that has not been run has its AP.
RunningInv == \A c \in Cpu : Running(c) =>
  /\ procedure[c] \in started
  /\ executions[procedure[c]] = IF In(c, {"ap_release"}) THEN 1 ELSE 0
OwnerInv == \A c, d \in Cpu :
  Running(c) /\ Running(d) /\ procedure[c] = procedure[d] => c = d
WaitingInv == \A p \in started :
  executions[p] = 0 => \E c \in Cpu : Running(c) /\ procedure[c] = p

\* The call that is being made has started none; the one that blocks waits
\* for a procedure that has run when Busy is free.
CallInv == \A b \in Cpu :
  /\ In(b, {"b_start", "b_start_block"}) => calls \in 1 .. MaxCalls /\ calls \notin started
  /\ In(b, {"b_block"}) =>
       /\ index[b] \in Cpu /\ In(index[b], ApLabels) /\ procedure[index[b]] \in started
       /\ ~busy[index[b]] => executions[procedure[index[b]]] = 1

ProcedureInv == StartedInv /\ RunningInv /\ OwnerInv /\ WaitingInv /\ CallInv

(***************************************************************************)
(* The MTRRs.                                                               *)
(***************************************************************************)

\* The processor has replaced its core's MTRRs and not restored them.
ReplacedLabels ==
  {"ap_work", "ap_check", "ap_procedure", "ap_release", "ap_rdy_restore",
   "ap_wait_restore", "ap_ready", "b_wait_program", "b_busy", "b_drain",
   "b_outside", "b_rel_exit", "b_wait_exit", "b_mode", "b_rel_restore",
   "b_restore"} \cup BspCoreLabels
Replaced(c) == NeedConfigureMtrrs /\ (In(c, ReplacedLabels) \/ inWorker[c])

\* What was saved are the OS settings; a core has others only while one of
\* its processors has replaced them, and has them then until the restoring.
MtrrInv ==
  /\ \A c \in Cpu : mtrrs[c] = "os"
  /\ \A x \in Cpu : mtrr[x] = "os" \/ \E c \in Cpu : CoreOf[c] = x /\ Replaced(c)
  /\ (\A b \in Cpu : ~Restoring(b)) => \A c \in Cpu : Replaced(c) => mtrr[CoreOf[c]] = "smm"

(***************************************************************************)
(* Closing the run, when no BSP is elected (~BspElection).                  *)
(***************************************************************************)

\* Processor 0 is the BSP; AllCpusInSync is up from the lock-down to the end.
BeforeSync == {"b_inside", "b_present", "b_clear", "b_arrive1", "b_missing", "b_ipi",
               "b_arrive2", "b_sync"}
SyncInv ==
  /\ bspIndex = 0
  /\ \A c \in Cpu : In(c, BspLabels \cup {"b_unsync"}) => c = 0
  /\ \A b \in Cpu : Gathers(b) /\ (In(b, BspLabels \ BeforeSync) \/ inWorker[b]) => allCpusInSync

\* The BSP has made sure of processor c: the loop that sends SMI IPIs has
\* passed it, or was not needed.
SealedLabels == {"b_arrive2", "b_sync", "b_lock", "b_wait_arrive", "b_rel_backup", "b_backup",
                 "b_wait_backup", "b_rel_program", "b_program", "b_wait_program", "b_busy",
                 "b_drain", "b_outside"} \cup BspCoreLabels
Sealed(b, c) ==
  Gathers(b) /\ (In(b, SealedLabels) \/ inWorker[b] \/ (In(b, {"b_ipi"}) /\ c >= index[b]))

\* Processor c executes no normal mode code: it has an SMI latched, is in SMM
\* and will check in, takes part, or is excluded and waits.
HeldLabels == {"sample", "progress", "checkin"} \cup CountedLabels
Held(b, c) == \/ smiPending[c] \/ In(c, HeldLabels)
              \/ In(c, {"excluded"}) /\ LockedBsp(b)
HeldInv == \A b, c \in Cpu : Sealed(b, c) => Held(b, c)

\* Who passed the test of SwitchBsp would still pass it.
CasInv == \A c \in Cpu : In(c, {"cas"}) => ~switchBsp \/ candidateBsp[c]

-----------------------------------------------------------------------------
(***************************************************************************)
(* What RunInv says by itself.                                              *)
(***************************************************************************)

\* While Counter is not locked it counts (CounterInv).
LEMMA RunCounterCounts ==
  ASSUME RunInv
  PROVE  CounterCounts
<1>1. Number(pc, CountedLabels) = Cardinality(Counted)
  BY DEF Number, Counted, CountedLabels, In
<1> QED
  BY <1>1 DEF RunInv, CounterInv, CounterCounts, Locked

\* The flags agree with ApCount: in a closed run nobody is left who has not
\* set Present, and until the APs are released for the last time nobody has
\* cleared it.
LEMMA RunPresentAreCounted ==
  ASSUME OneBsp, RunInv
  PROVE  PresentAreCounted
<1> USE DEF RunInv
<1> SUFFICES ASSUME NEW b \in Cpu,
                    \/ In(b, BspExitLabels \cup {"b_outside"})
                    \/ Gathers(b) /\ In(b, BspCoreLabels \cup {"b_busy", "b_drain"})
             PROVE  Cardinality({c \in Cpu \ {b} : present[c]}) = apCount[b]
  BY DEF PresentAreCounted
<1> DEFINE Aps == CountedLabels \ BspLabels
<1>1. LockedBsp(b) /\ Closed(b) /\ ~In(b, BspResetLabels) /\ In(b, BspLabels)
  <2>1. In(b, BspLabels) /\ ~In(b, BspResetLabels) /\ ~In(b, {"b_wait_arrive"})
    BY DEF In, BspExitLabels, BspCoreLabels, BspResetLabels, BspLabels, BspGatherLabels
  <2>2. LockedBsp(b)
    BY DEF LockedBsp, In
  <2> QED
    BY <2>1, <2>2 DEF Closed, In
<1>2. Serving(b) \/ Exiting(b) \/ Restoring(b) \/ (In(b, {"b_mode"}) /\ Resetting(b))
  BY DEF Serving, Exiting, Restoring, Resetting, In, BspExitLabels, BspCoreLabels
<1>3. ASSUME NEW c \in Cpu \ {b}, pc[c] \in CountedLabels PROVE pc[c] \in PresentLabels \cap Aps
  <2>1. pc[c] \notin BspLabels /\ pc[c] \notin DueArrive
    BY <1>1, OnlyOneBsp DEF In, NoJoiners
  <2>2. pc[c] # "ap_bye"
    <3>1. pc[c] \in DueServe \/ pc[c] \in DueExit \cup PaidExit
          \/ pc[c] \in DueRestore \cup PaidRestore
          \/ (In(b, {"b_mode"}) /\ Resetting(b))
      BY <1>2, <1>3, AccountMember DEF ServeInv, ExitInv, RestoreInv
    <3>2. In(b, {"b_mode"}) => ~Woken(b, c)
      BY DEF In, Woken, RelLabels, ReleasedLabels
    <3>3. Resetting(b) /\ pc[c] = "ap_bye" => Woken(b, c)
      BY <1>1 DEF TokenInv, Past, In, ApLabels
    <3> QED
      BY <3>1, <3>2, <3>3
         DEF DueServe, DueArrive, DueExit, PaidExit, DueRestore, PaidRestore, JoiningLabels
  <2> QED
    BY <1>3, <2>1, <2>2 DEF CountedLabels, DueArrive, PresentLabels
<1>4. \A c \in Cpu \ {b} : present[c] <=> pc[c] \in Aps
  <2>1. PresentLabels \subseteq CountedLabels
    BY DEF PresentLabels, CountedLabels
  <2> QED
    BY <1>3, <2>1 DEF PresentInv, In
<1>5. {c \in Cpu \ {b} : present[c]} = {c \in Cpu : pc[c] \in Aps}
  BY <1>1, <1>4 DEF In
<1>6. Number(pc, Aps) = Number(pc, CountedLabels) - 1
  <2>1. pc[b] \in CountedLabels /\ pc[b] \notin Aps
    BY <1>1 DEF In, CountedLabels
  <2> QED
    BY <1>3, <2>1, NumberOfOthers
<1> QED
  BY <1>1, <1>5, <1>6 DEF CountInv, Number

\* The account of the last stage has settled when Counter is reopened.
LEMMA RunReopenedEmpty ==
  ASSUME RunInv
  PROVE  ReopenedEmpty
BY DEF RunInv, LeaveInv, Leaving, ReopenedEmpty, Counted, CountedLabels, In, BspLabels,
       BspResetLabels

\* A processor that takes no part has an empty semaphore.
LEMMA RunNoSignalLeftOver ==
  ASSUME RunInv
  PROVE  NoSignalLeftOver
BY DEF RunInv, IdleInv, NoSignalLeftOver, In, ApLabels, BspLabels, BspGatherLabels,
       BspCoreLabels, BspExitLabels, BspResetLabels

-----------------------------------------------------------------------------
(***************************************************************************)
(* Procedures.                                                              *)
(***************************************************************************)

\* A step that runs, starts and releases no procedure keeps ProcedureInv; an
\* AP may come in without one and leave without one.
LEMMA ProcedureStays ==
  ASSUME TypeOK, ProcedureInv, NEW m \in Cpu, OnlyMoves(m),
         \A b \in Cpu \ {m} : index'[b] = index[b],
         pc[m] \notin {"b_start", "b_start_block"},
         pc'[m] \notin {"b_start", "b_start_block", "b_block"},
         UNCHANGED <<procedure, started, executions>>, calls' \in calls .. MaxCalls,
         calls' = calls \/ \A b \in Cpu : ~In(b, {"b_start", "b_start_block"}),
         \A c \in Cpu \ {m} : busy'[c] = busy[c],
         \/ pc[m] \notin ApLabels /\ pc'[m] \notin ApLabels
         \/ /\ pc[m] \in ApLabels \ {"ap_release"} /\ pc'[m] \in ApLabels \ {"ap_release"}
            /\ busy'[m] = busy[m]
         \/ pc[m] \notin ApLabels /\ pc'[m] \in ApLabels \ {"ap_release"} /\ ~busy'[m]
         \/ /\ pc[m] \in ApLabels /\ pc'[m] \notin ApLabels /\ ~busy[m]
            /\ \A b \in Cpu : ~In(b, {"b_block"})
  PROVE  ProcedureInv'
<1> USE DEF ProcedureInv
<1>1. \A b, c \in Cpu : Starting(b, c)' <=> Starting(b, c)
  BY DEF Starting, In, OnlyMoves
<1>2. \A c \in Cpu : /\ Running(c)' <=> Running(c)
                     /\ Running(c) => pc'[c] = pc[c] \/ (c = m /\ ~In(c, {"ap_release"})
                        /\ ~In(c, {"ap_release"})')
  BY <1>1 DEF Running, In, OnlyMoves, TypeOK, CpuDataType
<1>3. StartedInv'
  BY DEF StartedInv, TypeOK, HistoryType
<1>4. RunningInv'
  BY <1>2 DEF RunningInv, In
<1>5. OwnerInv' /\ WaitingInv'
  BY <1>2 DEF OwnerInv, WaitingInv
<1>6. CallInv'
  BY DEF CallInv, In, OnlyMoves
<1> QED
  BY <1>3, <1>4, <1>5, <1>6

\* While an AP says goodbye its BSP is past the handlers.
LEMMA ByeIsResetting ==
  ASSUME OneBsp, RunInv, NEW c \in Cpu, In(c, {"ap_bye"}), NEW b \in Cpu, In(b, BspLabels)
  PROVE  Resetting(b) /\ ~In(b, BspCoreLabels)
<1> USE DEF RunInv
<1>1. c # b /\ pc[c] \in CountedLabels /\ pc[c] \notin DueServe
  BY DEF In, CountedLabels, ApLabels, BspLabels, BspGatherLabels, BspCoreLabels, BspExitLabels,
         BspResetLabels,
     DueServe, DueArrive, JoiningLabels
<1>2. /\ pc[c] \notin DueArrive \cup PaidArrive /\ pc[c] \notin DueBackup \cup PaidBackup
      /\ pc[c] \notin DueProgram \cup PaidProgram /\ pc[c] \notin DueExit \cup PaidExit
      /\ pc[c] \notin DueRestore \cup PaidRestore
  BY DEF In, DueArrive, PaidArrive, DueBackup, PaidBackup, DueProgram, PaidProgram, DueExit,
         PaidExit,
     DueRestore, PaidRestore, JoiningLabels
<1>3. Resetting(b)
  BY <1>1, <1>2, EveryStage, AccountMember
     DEF ArriveInv, BackupInv, ProgramInv, ServeInv, ExitInv, RestoreInv,
     LeaveInv, In
<1> QED
  BY <1>3 DEF Resetting, In, BspCoreLabels

\* Nothing that ProcedureInv speaks of changes.
LEMMA SameProcedures ==
  ASSUME ProcedureInv, UNCHANGED <<pc, busy, index, procedure, started, executions, calls>>
  PROVE  ProcedureInv'
BY DEF ProcedureInv, StartedInv, RunningInv, OwnerInv, WaitingInv, CallInv, Running, Starting, In

\* The AP runs its procedure: no other AP has it, so it is run once.
LEMMA RunProcedureStep ==
  ASSUME TypeOK, OneBsp, RunInv, ProcedureInv, NEW c \in Cpu, ApRunProcedure(c)
  PROVE  ProcedureInv'
<1> USE DEF ProcedureInv
<1>1. /\ pc[c] = "ap_procedure" /\ pc'[c] = "ap_release" /\ \A d \in Cpu \ {c} : pc'[d] = pc[d]
      /\ UNCHANGED <<busy, procedure, started, calls, index>>
      /\ executions' = [p \in 1 .. MaxCalls |-> executions[p] + IF p = procedure[c] THEN 1 ELSE 0]
  BY DEF ApRunProcedure, Step, At, Goto, stackVars, bspVars, TypeOK, PcType, HistoryType
<1>2. Running(c)
  BY <1>1 DEF Running, RunInv, TaskInv, BusyInv, In, ApLabels
<1>s. \A p \in started : p \in 1 .. MaxCalls
  BY DEF StartedInv, TypeOK, HistoryType
<1>3. procedure[c] \in started /\ procedure[c] \in 1 .. MaxCalls /\ executions[procedure[c]] = 0
  BY <1>1, <1>2, <1>s DEF RunningInv, In
<1>4. \A p \in 1 .. MaxCalls : executions'[p] = IF p = procedure[c] THEN 1 ELSE executions[p]
  BY <1>1, <1>3 DEF TypeOK, HistoryType
<1>5. \A d \in Cpu : Running(d)' <=> Running(d)
  BY <1>1 DEF Running, Starting, In, ApLabels
<1>6. StartedInv'
  BY <1>1, <1>3, <1>4 DEF StartedInv
<1>7. RunningInv'
  <2> SUFFICES ASSUME NEW d \in Cpu, Running(d)
               PROVE  /\ procedure[d] \in started
                      /\ executions'[procedure[d]] = IF In(d, {"ap_release"})' THEN 1 ELSE 0
    BY <1>1, <1>5 DEF RunningInv
  <2>1. procedure[d] \in started /\ procedure[d] \in 1 .. MaxCalls
    BY <1>s DEF RunningInv
  <2>2. CASE d = c
    BY <1>1, <1>3, <1>4, <2>2 DEF In
  <2>3. CASE d # c
    <3>1. procedure[d] # procedure[c]
      BY <1>2, <2>3 DEF OwnerInv
    <3> QED
      BY <1>1, <1>4, <2>1, <2>3, <3>1 DEF RunningInv, In
  <2> QED
    BY <2>2, <2>3
<1>8. OwnerInv'
  BY <1>1, <1>5 DEF OwnerInv
<1>9. WaitingInv'
  BY <1>1, <1>3, <1>4, <1>5 DEF WaitingInv, StartedInv, TypeOK, HistoryType
<1>10. CallInv'
  BY <1>1, <1>3, <1>4, <1>s DEF CallInv, In, ApLabels
<1> QED
  BY <1>6, <1>7, <1>8, <1>9, <1>10

\* The AP releases Busy: its procedure has run.
LEMMA ReleaseBusyStep ==
  ASSUME TypeOK, OneBsp, RunInv, ProcedureInv, NEW c \in Cpu, ApReleaseBusy(c)
  PROVE  ProcedureInv'
<1> USE DEF ProcedureInv
<1>1. /\ pc[c] = "ap_release" /\ pc'[c] = "ap_work" /\ \A d \in Cpu \ {c} : pc'[d] = pc[d]
         /\ busy'[d] = busy[d]
      /\ ~busy'[c] /\ UNCHANGED <<executions, procedure, started, calls, index>>
  BY DEF ApReleaseBusy, Step, At, Goto, stackVars, bspVars, TypeOK, PcType, CpuDataType
<1>2. Running(c)
  BY <1>1 DEF Running, RunInv, TaskInv, BusyInv, In, ApLabels
<1>3. executions[procedure[c]] = 1
  BY <1>1, <1>2 DEF RunningInv, In
<1>4. /\ ~Running(c)'
      /\ \A d \in Cpu \ {c} : (Running(d)' <=> Running(d)) /\ (In(d,
         {"ap_release"})' <=> In(d, {"ap_release"}))
  BY <1>1 DEF Running, Starting, In
<1>5. StartedInv' /\ RunningInv' /\ OwnerInv'
  BY <1>1, <1>4 DEF StartedInv, RunningInv, OwnerInv
<1>6. WaitingInv'
  BY <1>1, <1>3, <1>4 DEF WaitingInv
<1>7. CallInv'
  BY <1>1, <1>3 DEF CallInv, In, ApLabels
<1> QED
  BY <1>5, <1>6, <1>7

\* SmmStartupThisAp acquires Busy of an AP that has no procedure.
LEMMA StartStep ==
  ASSUME TypeOK, OneBsp, RunInv, ProcedureInv, NEW c \in Cpu, NEW i \in Cpu,
         SmmStartupThisAp(c, i)
  PROVE  ProcedureInv'
<1> USE DEF ProcedureInv
<1>1. /\ pc[c] = "b_core" /\ pc'[c] \in {"b_start", "b_start_block"}
         /\ \A d \in Cpu \ {c} : pc'[d] = pc[d] /\ index'[d] = index[d]
      /\ i # c /\ ~busy[i] /\ \A d \in Cpu \ {i} : busy'[d] = busy[d]
      /\ index'[c] = i /\ calls' = calls + 1 /\ calls' \in 1 .. MaxCalls
      /\ UNCHANGED <<executions, procedure, started>>
  <2>1. calls' = calls + 1 /\ calls' \in 1 .. MaxCalls
    BY BoundAssumption DEF SmmStartupThisAp, Call, TypeOK, HistoryType
  <2> QED
    BY <2>1
       DEF SmmStartupThisAp, Call, MayStart, At, Goto, TypeOK, PcType, CpuDataType, StackType
<1>2. \A b \in Cpu \ {c} : ~In(b, {"b_start", "b_start_block", "b_block"})
  BY <1>1, OnlyOneBsp DEF RunInv, In, BspLabels, BspCoreLabels
<1>3. Starting(c, i)' /\ ~Running(i)' /\ ~Running(i)
  BY <1>1 DEF Starting, Running, In
<1>4. \A d \in Cpu : (Running(d)' <=> Running(d)) /\ (In(d, {"ap_release"})' <=> In(d,
      {"ap_release"}))
  BY <1>1, <1>2, <1>3 DEF Running, Starting, In, ApLabels
<1>5. StartedInv' /\ RunningInv' /\ OwnerInv' /\ WaitingInv'
  BY <1>1, <1>4 DEF StartedInv, RunningInv, OwnerInv, WaitingInv, TypeOK, HistoryType
<1>6. CallInv'
  BY <1>1, <1>2 DEF CallInv, StartedInv, In, TypeOK, HistoryType
<1> QED
  BY <1>5, <1>6

\* SmmStartupThisAp hands the procedure over: it becomes that AP's alone.
LEMMA ScheduleStep ==
  ASSUME TypeOK, OneBsp, RunInv, ProcedureInv, NEW c \in Cpu, ScheduleProcedure(c)
  PROVE  ProcedureInv'
<1> USE DEF ProcedureInv
<1>1. PICK i \in Cpu \ {c} : /\ i = index[c] /\ In(i, {"ap_work"}) /\ busy[i] /\ Starting(c, i)
                            /\ pc[c] \in {"b_start", "b_start_block"}
  BY DEF ScheduleProcedure, Step, At, RunInv, TaskInv, In, Starting
<1>2. /\ pc'[c] \in {"b_core", "b_block"} /\ (pc'[c] = "b_block" => index'[c] = i)
      /\ \A d \in Cpu \ {c} : pc'[d] = pc[d] /\ index'[d] = index[d]
      /\ procedure'[i] = calls /\ \A d \in Cpu \ {i} : procedure'[d] = procedure[d]
      /\ started' = started \cup {calls} /\ UNCHANGED <<executions, calls, busy>>
  BY <1>1
     DEF ScheduleProcedure, Step, At, Goto, TypeOK, PcType, CpuDataType, StackType, HistoryType
<1>3. calls \in 1 .. MaxCalls /\ calls \notin started /\ executions[calls] = 0
  BY <1>1 DEF CallInv, StartedInv, In
<1>4. \A b \in Cpu \ {c} : ~In(b, {"b_start", "b_start_block", "b_block"})
  BY <1>1, OnlyOneBsp DEF RunInv, In, BspLabels, BspCoreLabels
<1>a. ~Running(i) /\ pc'[i] = "ap_work" /\ ~In(i, {"ap_release"})'
  BY <1>1, <1>2 DEF Running, In
<1>b. \A b, d \in Cpu : ~Starting(b, d)' /\ (b # c => ~Starting(b, d)) /\ (d # i =>
      ~Starting(c, d))
  BY <1>1, <1>2, <1>4 DEF Starting, In
<1>5. /\ ~Running(i) /\ Running(i)' /\ pc'[i] = "ap_work" /\ ~In(i, {"ap_release"})'
      /\ \A d \in Cpu \ {i} : (Running(d)' <=> Running(d)) /\ (In(d,
         {"ap_release"})' <=> In(d, {"ap_release"}))
  BY <1>1, <1>2, <1>a, <1>b DEF Running, In, ApLabels
<1>6. StartedInv'
  <2>1. started' \subseteq 1 .. calls'
    BY <1>2, <1>3 DEF StartedInv
  <2> QED
    BY <1>2, <2>1 DEF StartedInv
<1>7. RunningInv'
  BY <1>1, <1>2, <1>3, <1>5 DEF RunningInv
<1>8. OwnerInv'
  BY <1>1, <1>2, <1>3, <1>5 DEF OwnerInv, RunningInv
<1>9. WaitingInv'
  <2> SUFFICES ASSUME NEW p \in started', executions'[p] = 0
               PROVE  \E d \in Cpu : Running(d)' /\ procedure'[d] = p
    BY DEF WaitingInv
  <2>1. CASE p = calls
    BY <1>1, <1>2, <1>5, <2>1
  <2>2. CASE p # calls
    <3>1. PICK d \in Cpu : Running(d) /\ procedure[d] = p
      BY <1>2, <2>2 DEF WaitingInv
    <3> QED
      BY <1>2, <1>5, <3>1
  <2> QED
    BY <2>1, <2>2
<1>10. CallInv'
  BY <1>1, <1>2, <1>4, <1>5 DEF CallInv, In, ApLabels
<1> QED
  BY <1>6, <1>7, <1>8, <1>9, <1>10

\* A step of SmiRendezvous keeps ProcedureInv.
LEMMA SmiRendezvousKeepsProcedures ==
  ASSUME TypeOK, ProcedureInv, NEW c \in Cpu, EnterSmi(c) \/ SmiRendezvous(c)
  PROVE  ProcedureInv'
<1>1. OnlyMoves(c) /\ \A b \in Cpu \ {c} : SameStack(b)
  BY OneMoves
<1>2. /\ pc[c] \notin ApLabels /\ pc'[c] \notin ApLabels
      /\ pc[c] \notin {"b_start", "b_start_block"} /\ pc'[c] \notin {"b_start",
         "b_start_block", "b_block"}
  BY DEF EnterSmi, SmiRendezvous, SampleValidSmi, SampleBspInProgress, CheckIn, WaitForEndOfRun,
         LeaveSmm, InitializeBusy, Stand, ElectBsp, BecomeBsp, BecomeAp, ReadSyncMode, Step, At,
         Goto, TypeOK, PcType, ApLabels
<1>3. /\ UNCHANGED <<procedure, started, executions, calls>>
      /\ \A b \in Cpu \ {c} : busy'[b] = busy[b]
  BY DEF EnterSmi, SmiRendezvous, SampleValidSmi, SampleBspInProgress, CheckIn, WaitForEndOfRun,
         LeaveSmm, InitializeBusy, Stand, ElectBsp, BecomeBsp, BecomeAp, ReadSyncMode, syncVars,
         electVars, modeVars, mtrrVars, platVars, dataVars, taskVars, hwVars, entryVars, bspVars,
         stackVars, memory, notSync, notStack, notData, TypeOK, CpuDataType
<1>4. calls' \in calls .. MaxCalls
  BY <1>3 DEF TypeOK, HistoryType
<1> QED
  BY <1>1, <1>2, <1>3, <1>4, ProcedureStays DEF SameStack

\* A step of APHandler keeps ProcedureInv.
LEMMA APHandlerKeepsProcedures ==
  ASSUME TypeOK, OneBsp, RunInv, ProcedureInv, NEW c \in Cpu, APHandler(c)
  PROVE  ProcedureInv'
<1>1. CASE ApRunProcedure(c)
  BY <1>1, RunProcedureStep
<1>2. CASE ApReleaseBusy(c)
  BY <1>2, ReleaseBusyStep
<1>3. CASE ~ApRunProcedure(c) /\ ~ApReleaseBusy(c)
  <2>1. OnlyMoves(c) /\ \A b \in Cpu \ {c} : SameStack(b)
    BY OneMoves
  <2>2. UNCHANGED <<procedure, started, executions, calls,
                    busy>> /\ calls' \in calls .. MaxCalls
    BY <1>3
       DEF APHandler, ApMarkPresent, ApPresent, ApTimeout1, ApCallBsp, ApNobodyToCall,
           ApTimeout2, ApGiveUp, ApSignal, ApWait, ApBackupMtrrs, ApReplaceOSMtrrs, ApCheckExit,
           ApRunProcedure, ApReleaseBusy, ApReady, ApAbsent, DecideToGiveUp, GiveUp, syncVars,
           electVars, modeVars, mtrrVars, platVars, dataVars, taskVars, hwVars, entryVars,
           bspVars, stackVars, memory, notSync, notStack, notData, TypeOK, HistoryType
  <2>3. /\ \/ pc[c] \notin ApLabels /\ pc'[c] \notin ApLabels
           \/ pc[c] \in ApLabels \ {"ap_release"} /\ pc'[c] \in ApLabels \ {"ap_release"}
           \/ In(c, {"ap_timer1", "ap_timer2"}) /\ pc'[c] \in ApLabels \ {"ap_release"}
           \/ In(c, {"ap_bye"}) /\ pc'[c] \notin ApLabels
        /\ pc[c] \notin {"b_start", "b_start_block"} /\ pc'[c] \notin {"b_start",
           "b_start_block", "b_block"}
    BY <1>3
       DEF APHandler, ApMarkPresent, ApPresent, ApTimeout1, ApCallBsp, ApNobodyToCall,
           ApTimeout2, ApGiveUp, ApSignal, ApWait, ApBackupMtrrs, ApReplaceOSMtrrs, ApCheckExit,
           ApRunProcedure, ApReleaseBusy, ApReady, ApAbsent, DecideToGiveUp, GiveUp, Step, At,
           Goto, TypeOK, PcType, ApLabels, In
  <2>4. /\ In(c, {"ap_timer1", "ap_timer2"}) => ~busy[c] /\ pc[c] \notin ApLabels
        /\ In(c, {"ap_bye"}) => ~busy[c] /\ pc[c] \in ApLabels
    BY DEF RunInv, BusyInv, In, JoiningLabels, ApLabels
  <2>5. In(c, {"ap_bye"}) => \A b \in Cpu : ~In(b, {"b_block"})
    BY ByeIsResetting DEF In, BspLabels, BspCoreLabels
  <2> QED
    BY <2>1, <2>2, <2>3, <2>4, <2>5, ProcedureStays DEF SameStack
<1> QED
  BY <1>1, <1>2, <1>3

\* A step of BSPHandler keeps ProcedureInv.
LEMMA BSPHandlerKeepsProcedures ==
  ASSUME TypeOK, OneBsp, RunInv, ProcedureInv, NEW c \in Cpu, BSPHandler(c)
  PROVE  ProcedureInv'
<1>1. CASE ScheduleProcedure(c)
  BY <1>1, ScheduleStep
<1>2. CASE ~ScheduleProcedure(c)
  <2>1. OnlyMoves(c) /\ \A b \in Cpu \ {c} : SameStack(b)
    BY OneMoves
  <2>2. /\ UNCHANGED <<procedure, started, executions, calls>>
        /\ \A b \in Cpu \ {c} : busy'[b] = busy[b]
    BY <1>2
       DEF BSPHandler, BspFlagInside, BspPresent, BspClearSmiStatus, BspAllArrived,
           BspArrivalTimeout, BspLookForMissing, BspSendSmiIpis, BspRaiseSync, BspLockCounter,
           BspWaitForAp, BspAllSignalled, BspReleaseAp, BspMtrrs, BspAcquireOwnBusy,
           SmmCoreReturns, ScheduleProcedure, ProcedureReturned, BspDrain, BspAllPresent,
           BspFlagOutside, BspSetEffectiveMode, SmmCpuUpdate, BspAbsent, BspResign,
           BspOpenCounter, BspDropSync, ArrivalDone, BspArrivalLoopEnds, Loop, StartLoop,
           WaitForAllAPs, WaitLabels, syncVars, electVars, modeVars, mtrrVars, platVars,
           dataVars, taskVars, hwVars, entryVars, bspVars, stackVars, memory, notSync, notStack,
           notData, TypeOK, CpuDataType
  <2>3. /\ pc[c] \notin ApLabels /\ pc'[c] \notin ApLabels
        /\ pc[c] \notin {"b_start", "b_start_block"} /\ pc'[c] \notin {"b_start",
           "b_start_block", "b_block"}
    BY <1>2
       DEF BSPHandler, BspFlagInside, BspPresent, BspClearSmiStatus, BspAllArrived,
           BspArrivalTimeout, BspLookForMissing, BspSendSmiIpis, BspRaiseSync, BspLockCounter,
           BspWaitForAp, BspAllSignalled, BspReleaseAp, BspMtrrs, BspAcquireOwnBusy,
           SmmCoreReturns, ScheduleProcedure, ProcedureReturned, BspDrain, BspAllPresent,
           BspFlagOutside, BspSetEffectiveMode, SmmCpuUpdate, BspAbsent, BspResign,
           BspOpenCounter, BspDropSync, ArrivalDone, BspArrivalLoopEnds, Loop, StartLoop,
           WaitForAllAPs, WaitLabels, Step, At, Goto, TypeOK, PcType, ApLabels
  <2>4. calls' \in calls .. MaxCalls
    BY <2>2 DEF TypeOK, HistoryType
  <2> QED
    BY <2>1, <2>2, <2>3, <2>4, ProcedureStays DEF SameStack
<1> QED
  BY <1>1, <1>2

\* A call of an SMI handler keeps ProcedureInv.
LEMMA SmiHandlersKeepProcedures ==
  ASSUME TypeOK, OneBsp, RunInv, ProcedureInv, NEW c \in Cpu, SmiHandlers(c)
  PROVE  ProcedureInv'
<1>1. ASSUME NEW i \in Cpu, SmmStartupThisAp(c, i) PROVE ProcedureInv'
  BY <1>1, StartStep
<1>2. CASE ~ \E i \in Cpu : SmmStartupThisAp(c, i)
  <2>1. OnlyMoves(c) /\ \A b \in Cpu \ {c} : SameStack(b)
    BY OneMoves
  <2>2. UNCHANGED <<procedure, started, executions, busy>> /\ calls' \in calls .. MaxCalls
    BY <1>2, BoundAssumption
       DEF SmiHandlers, SmmStartupThisAp, SmmSwitchBsp, SmmCpuSync2SendSmi, SmmSyncSetMode,
           SmmCpuSyncCheckApArrival, SmmCpuSync2SendSmiAllExcludingSelf, Call, syncVars,
           electVars, modeVars, mtrrVars, platVars, dataVars, taskVars, hwVars, entryVars,
           bspVars, stackVars, memory, notSync, notStack, notData, TypeOK, HistoryType
  <2>3. pc[c] = "b_core" /\ pc'[c] \in {"b_core", "b_arrive1"}
    BY <1>2
       DEF SmiHandlers, SmmStartupThisAp, SmmSwitchBsp, SmmCpuSync2SendSmi, SmmSyncSetMode,
           SmmCpuSyncCheckApArrival, SmmCpuSync2SendSmiAllExcludingSelf, Call, Step, At, Goto,
           TypeOK, PcType
  <2>4. /\ pc[c] \notin ApLabels /\ pc'[c] \notin ApLabels
        /\ pc[c] \notin {"b_start", "b_start_block"} /\ pc'[c] \notin {"b_start",
           "b_start_block", "b_block"}
    BY <2>3 DEF ApLabels
  <2>5. \A b \in Cpu : ~In(b, {"b_start", "b_start_block"})
    BY <2>3, OnlyOneBsp DEF RunInv, In, BspLabels, BspCoreLabels
  <2> QED
    BY <2>1, <2>2, <2>4, <2>5, ProcedureStays DEF SameStack
<1> QED
  BY <1>1, <1>2

\* ProcedureInv is an invariant of the rendezvous.
THEOREM ProcedureInvariant ==
  ASSUME ~GiveUpRace
  PROVE  Spec => []ProcedureInv
<1>1. Init => ProcedureInv
  BY DEF Init, ProcedureInv, StartedInv, RunningInv, OwnerInv, WaitingInv, CallInv, Running, In,
         ApLabels
<1>2. ASSUME TypeOK, OneBsp, RunInv, ProcedureInv, [Next]_vars PROVE ProcedureInv'
  <2>1. CASE RaiseSmi \/ Idle \/ UNCHANGED vars
    BY <1>2, <2>1, SameProcedures DEF RaiseSmi, Idle, vars, memory, taskVars, stackVars, bspVars
  <2> QED
    BY <1>2, <2>1, SmiRendezvousKeepsProcedures, APHandlerKeepsProcedures,
       BSPHandlerKeepsProcedures,
       SmiHandlersKeepProcedures DEF Next
<1> QED
  BY <1>1, <1>2, RunInvariant, TypeCorrect, OneBspHolds, PTL DEF Spec

\* A procedure runs once, with Busy held, and before the BSP lets the APs go:
\* whoever has one that has not run keeps the BSP in its drain loop.
LEMMA ProcedureFacts ==
  ASSUME TypeOK, OneBsp, RunInv, ProcedureInv
  PROVE  ScheduledOnce /\ BusyGuardsProcedure
<1> USE DEF RunInv, ProcedureInv
<1>1. \A p \in started : p \in 1 .. MaxCalls
  BY DEF StartedInv, TypeOK, HistoryType
<1>2. ASSUME NEW b \in Cpu, In(b,
      BspExitLabels \cup {"b_outside"}) PROVE \A c \in Cpu : ~Running(c)
  <2>1. In(b, BspLabels) /\ ~In(b, BspCoreLabels) /\ ~In(b, {"b_drain"}) /\ ~inWorker[b]
    BY <1>2
       DEF In, StageInv, ArrivalLabels, BspLabels, BspGatherLabels, BspCoreLabels, BspExitLabels,
           BspResetLabels
  <2> QED
    BY <2>1 DEF TaskInv, Running
<1>3. ScheduledOnce
  BY <1>1, <1>2 DEF ScheduledOnce, StartedInv, WaitingInv
<1>4. \A c \in Cpu : In(c, {"ap_procedure", "ap_release"}) => Running(c)
  BY DEF Running, TaskInv, BusyInv, In, ApLabels
<1>5. BusyGuardsProcedure
  BY <1>4 DEF BusyGuardsProcedure, RunningInv, Running, In
<1> QED
  BY <1>3, <1>5

\* The step that ends SmmBlockingStartupThisAp finds Busy free, hence the
\* procedure run.
LEMMA ReturnsAfter ==
  ASSUME TypeOK, OneBsp, RunInv, ProcedureInv, [Next]_vars, NEW b \in Cpu, In(b, {"b_block"}),
         pc'[b] = "b_core"
  PROVE  executions[procedure[index[b]]] = 1
<1>1. CASE UNCHANGED pc
  BY <1>1 DEF In
<1>2. ASSUME NEW c \in Cpu, c # b, EnterSmi(c) \/ SmiRendezvous(c) \/ APHandler(c)
      \/ BSPHandler(c) \/ SmiHandlers(c)
      PROVE  FALSE
  BY <1>2, OneMoves DEF OnlyMoves, In
<1>3. ASSUME EnterSmi(b) \/ SmiRendezvous(b) \/ APHandler(b) PROVE FALSE
  <2>1. ~BecomeBsp(b)
    BY DEF BecomeBsp, At, In
  <2> QED
    BY <1>3, <2>1, AsideSteps DEF Aside, In, BspLabels, BspCoreLabels
<1>4. CASE BSPHandler(b)
  <2>1. ProcedureReturned(b)
    BY <1>4
       DEF BSPHandler, BspFlagInside, BspPresent, BspClearSmiStatus, BspAllArrived,
           BspArrivalTimeout, BspLookForMissing, BspSendSmiIpis, BspRaiseSync, BspLockCounter,
           BspWaitForAp, BspAllSignalled, BspReleaseAp, BspMtrrs, BspAcquireOwnBusy,
           SmmCoreReturns, ScheduleProcedure, ProcedureReturned, BspDrain, BspAllPresent,
           BspFlagOutside, BspSetEffectiveMode, SmmCpuUpdate, BspAbsent, BspResign,
           BspOpenCounter, BspDropSync, ArrivalDone, BspArrivalLoopEnds, Loop, StartLoop,
           WaitForAllAPs, WaitLabels, Step, At, Goto, In, TypeOK, PcType
  <2> QED
    BY <2>1 DEF ProcedureReturned, TaskDone, ProcedureInv, CallInv
<1>5. ASSUME SmiHandlers(b) PROVE FALSE
  BY <1>5
     DEF SmiHandlers, SmmStartupThisAp, SmmSwitchBsp, SmmCpuSync2SendSmi, SmmSyncSetMode,
         SmmCpuSyncCheckApArrival, SmmCpuSync2SendSmiAllExcludingSelf, Call, At, In
<1>6. CASE RaiseSmi \/ Idle \/ UNCHANGED vars
  BY <1>1, <1>6 DEF RaiseSmi, Idle, vars
<1> QED
  BY <1>2, <1>3, <1>4, <1>5, <1>6 DEF Next

-----------------------------------------------------------------------------
(***************************************************************************)
(* MTRRs.                                                                   *)
(***************************************************************************)

\* A step that neither replaces nor restores MTRRs, and saves only OS
\* settings, keeps MtrrInv.
LEMMA MtrrsStay ==
  ASSUME TypeOK, MtrrInv, NEW m \in Cpu, OnlyMoves(m), \A b \in Cpu \ {m} : SameStack(b),
         UNCHANGED mtrr, mtrrs' = mtrrs \/ mtrrs' = [mtrrs EXCEPT ![m] = "os"],
         Replaced(m)' <=> Replaced(m), Restoring(m) => Restoring(m)'
  PROVE  MtrrInv'
<1>1. \A c \in Cpu : Replaced(c)' <=> Replaced(c)
  BY DEF Replaced, SameStack, In
<1>2. \A b \in Cpu : Restoring(b) => Restoring(b)'
  BY StagesStay
<1> QED
  BY <1>1, <1>2 DEF MtrrInv, TypeOK, HardwareType

\* An AP that saves, replaces or restores its MTRRs does so in the BSP's
\* stage.
LEMMA StageOfAp ==
  ASSUME OneBsp, RunInv, NEW c \in Cpu, In(c, ApLabels)
  PROVE  \E b \in Cpu \ {c} : /\ In(b, BspLabels)
           /\ (In(c, {"ap_backup"}) => BackingUp(b))
           /\ (In(c, {"ap_program"}) => NeedConfigureMtrrs)
           /\ (In(c, {"ap_ready"}) /\ NeedConfigureMtrrs => Restoring(b))
<1> USE DEF RunInv
<1>1. PICK b \in Cpu \ {c} : In(b, BspLabels)
  BY BspOfAp
<1>2. Arriving(b) \/ BackingUp(b) \/ Programming(b) \/ Serving(b) \/ Exiting(b)
      \/ Restoring(b) \/ Resetting(b)
      \/ Leaving(b)
  BY <1>1, EveryStage
<1>3. pc[c] \in CountedLabels
  BY DEF In, CountedLabels
<1>4. /\ Arriving(b) => pc[c] \in DueArrive \cup PaidArrive
      /\ BackingUp(b) => pc[c] \in DueBackup \cup PaidBackup
      /\ Programming(b) => pc[c] \in DueProgram \cup PaidProgram
      /\ Serving(b) => pc[c] \in DueServe
      /\ Exiting(b) => pc[c] \in DueExit \cup PaidExit
      /\ Restoring(b) => pc[c] \in DueRestore \cup PaidRestore
      /\ Resetting(b) => pc[c] \in DueReset
      /\ ~Leaving(b)
  BY <1>1, <1>3, AccountMember
     DEF ArriveInv, BackupInv, ProgramInv, ServeInv, ExitInv, RestoreInv, ResetInv,
     LeaveInv, In
<1>5. Programming(b) => NeedConfigureMtrrs
  BY DEF Programming, StageInv, In, MtrrLabels
<1>6. In(c, {"ap_backup"}) => BackingUp(b)
  BY <1>2, <1>4
     DEF In, DueArrive, PaidArrive, DueProgram, PaidProgram, DueServe, DueExit, PaidExit,
         DueRestore,
     PaidRestore, DueReset, JoiningLabels
<1>7. In(c, {"ap_program"}) => Programming(b)
  BY <1>2, <1>4
     DEF In, DueArrive, PaidArrive, DueBackup, PaidBackup, DueServe, DueExit, PaidExit,
         DueRestore,
     PaidRestore, DueReset, JoiningLabels
<1>8. In(c, {"ap_ready"}) /\ NeedConfigureMtrrs => Restoring(b)
  BY <1>2, <1>4
     DEF In, DueArrive, PaidArrive, DueBackup, PaidBackup, DueProgram, PaidProgram, DueServe,
         DueExit,
     PaidExit, DueReset, JoiningLabels
<1> QED
  BY <1>1, <1>5, <1>6, <1>7, <1>8

\* While the settings are saved, and after all is restored, nobody has them
\* replaced.
LEMMA NobodyReplaced ==
  ASSUME OneBsp, RunInv, NEW b \in Cpu, BackingUp(b) \/ In(b, BspResetLabels), NEW c \in Cpu
  PROVE  ~Replaced(c)
<1> USE DEF RunInv
<1>1. In(b, BspLabels) /\ ~inWorker[b] /\ pc[b] \notin ReplacedLabels
  BY DEF BackingUp, StageInv, In, ArrivalLabels, ReplacedLabels, BspLabels, BspGatherLabels,
         BspCoreLabels, BspExitLabels, BspResetLabels
<1>2. ~inWorker[c] \/ c = b
  BY <1>1, OnlyOneBsp DEF StageInv, In, ArrivalLabels, BspLabels, BspGatherLabels
<1>3. CASE c = b
  BY <1>1, <1>3 DEF Replaced, In
<1>4. CASE c # b /\ pc[c] \in CountedLabels
  <2>1. BackingUp(b) \/ Resetting(b) \/ Leaving(b)
    BY DEF Resetting, Leaving, In, BspResetLabels
  <2>2. pc[c] \in DueBackup \cup PaidBackup \/ pc[c] \in DueReset
    BY <1>4, <2>1, AccountMember DEF BackupInv, ResetInv, LeaveInv, In
  <2> QED
    BY <1>2, <1>4, <2>2
       DEF Replaced, In, ReplacedLabels, DueBackup, PaidBackup, DueReset, BspCoreLabels
<1>5. CASE c # b /\ pc[c] \notin CountedLabels
  BY <1>2, <1>5
     DEF Replaced, In, ReplacedLabels, CountedLabels, ApLabels, BspLabels, BspGatherLabels,
         BspCoreLabels, BspExitLabels, BspResetLabels
<1> QED
  BY <1>3, <1>4, <1>5

\* Every core then has the OS settings.
LEMMA NobodySaved ==
  ASSUME TypeOK, OneBsp, RunInv, MtrrInv, NEW b \in Cpu, BackingUp(b) \/ In(b, BspResetLabels)
  PROVE  \A x \in Cpu : mtrr[x] = "os"
BY NobodyReplaced DEF MtrrInv

\* A processor saves its settings.
LEMMA MtrrsSaved ==
  ASSUME TypeOK, OneBsp, RunInv, MtrrInv, NEW m \in Cpu, OnlyMoves(m),
         \A b \in Cpu \ {m} : SameStack(b),
         NEW d \in Cpu, BackingUp(d), UNCHANGED mtrr,
         mtrrs' = [mtrrs EXCEPT ![m] = mtrr[CoreOf[m]]],
         Replaced(m)' <=> Replaced(m), Restoring(m) => Restoring(m)'
  PROVE  MtrrInv'
<1>1. mtrr[CoreOf[m]] = "os"
  BY NobodySaved, CoreAssumption
<1> QED
  BY <1>1, MtrrsStay

\* A processor replaces its core's settings.
LEMMA MtrrsReplaced ==
  ASSUME TypeOK, MtrrInv, NEW m \in Cpu, OnlyMoves(m), \A b \in Cpu \ {m} : SameStack(b),
         mtrr' = [mtrr EXCEPT ![CoreOf[m]] = "smm"], UNCHANGED mtrrs,
         Replaced(m)', Restoring(m) => Restoring(m)'
  PROVE  MtrrInv'
<1>1. \A c \in Cpu \ {m} : Replaced(c)' <=> Replaced(c)
  BY DEF Replaced, SameStack, In
<1>2. \A b \in Cpu : Restoring(b) => Restoring(b)'
  BY StagesStay
<1>3. /\ mtrr'[CoreOf[m]] = "smm" /\ CoreOf[m] \in Cpu
      /\ \A x \in Cpu : x # CoreOf[m] => mtrr'[x] = mtrr[x]
  BY CoreAssumption DEF TypeOK, HardwareType
<1> QED
  BY <1>1, <1>2, <1>3, CoreAssumption DEF MtrrInv

\* A processor restores its core's settings.
LEMMA MtrrsRestored ==
  ASSUME TypeOK, MtrrInv, NEW m \in Cpu, OnlyMoves(m), \A b \in Cpu \ {m} : SameStack(b),
         mtrr' = [mtrr EXCEPT ![CoreOf[m]] = mtrrs[m]], UNCHANGED mtrrs,
         NEW b \in Cpu, Restoring(b)'
  PROVE  MtrrInv'
<1>1. \A c \in Cpu \ {m} : Replaced(c)' <=> Replaced(c)
  BY DEF Replaced, SameStack, In
<1>2. /\ mtrr'[CoreOf[m]] = "os" /\ CoreOf[m] \in Cpu
      /\ \A x \in Cpu : x # CoreOf[m] => mtrr'[x] = mtrr[x]
  BY CoreAssumption DEF MtrrInv, TypeOK, HardwareType
<1> QED
  BY <1>1, <1>2 DEF MtrrInv

\* A step of SmiRendezvous keeps MtrrInv.
LEMMA SmiRendezvousKeepsMtrrs ==
  ASSUME TypeOK, RunInv, MtrrInv, NEW c \in Cpu, EnterSmi(c) \/ SmiRendezvous(c)
  PROVE  MtrrInv'
<1>1. OnlyMoves(c) /\ \A b \in Cpu \ {c} : SameStack(b)
  BY OneMoves
<1>2. UNCHANGED mtrr /\ (mtrrs' = mtrrs \/ mtrrs' = [mtrrs EXCEPT ![c] = "os"])
      /\ UNCHANGED inWorker
  BY DEF EnterSmi, SmiRendezvous, SampleValidSmi, SampleBspInProgress, CheckIn, WaitForEndOfRun,
         LeaveSmm, InitializeBusy, Stand, ElectBsp, BecomeBsp, BecomeAp, ReadSyncMode, syncVars,
         electVars, modeVars, mtrrVars, platVars, dataVars, taskVars, hwVars, entryVars, bspVars,
         stackVars, memory, notSync, notStack, notData
<1>3. pc[c] \notin ReplacedLabels /\ pc'[c] \notin ReplacedLabels /\ ~Restoring(c)
  BY DEF EnterSmi, SmiRendezvous, SampleValidSmi, SampleBspInProgress, CheckIn, WaitForEndOfRun,
         LeaveSmm, InitializeBusy, Stand, ElectBsp, BecomeBsp, BecomeAp, ReadSyncMode, Step, At,
         Goto, TypeOK, PcType, Restoring, In, ReplacedLabels, BspCoreLabels
<1> QED
  BY <1>1, <1>2, <1>3, MtrrsStay DEF Replaced, In

\* A step of APHandler keeps MtrrInv.
LEMMA APHandlerKeepsMtrrs ==
  ASSUME TypeOK, OneBsp, RunInv, MtrrInv, NEW c \in Cpu, APHandler(c)
  PROVE  MtrrInv'
<1>1. OnlyMoves(c) /\ \A b \in Cpu \ {c} : SameStack(b)
  BY OneMoves
<1>2. ~Restoring(c) /\ UNCHANGED inWorker
  BY DEF APHandler, ApMarkPresent, ApPresent, ApTimeout1, ApCallBsp, ApNobodyToCall, ApTimeout2,
         ApGiveUp, ApSignal, ApWait, ApBackupMtrrs, ApReplaceOSMtrrs, ApCheckExit,
         ApRunProcedure, ApReleaseBusy, ApReady, ApAbsent, DecideToGiveUp, GiveUp, Step, At,
         Goto, syncVars, electVars, modeVars, mtrrVars, platVars, dataVars, taskVars, hwVars,
         entryVars, bspVars, stackVars, memory, notSync, notStack, notData, Restoring, In
<1>3. CASE ApBackupMtrrs(c)
  <2>1. pc[c] = "ap_backup" /\ pc'[c] = "ap_wait_program"
    BY <1>3 DEF ApBackupMtrrs, Step, At, Goto, TypeOK, PcType
  <2>2. \E b \in Cpu : BackingUp(b)
    BY <2>1, StageOfAp DEF In, ApLabels
  <2>3. Replaced(c)' <=> Replaced(c)
    BY <1>2, <2>1 DEF Replaced, In, ReplacedLabels, BspCoreLabels
  <2> QED
    BY <1>1, <1>2, <1>3, <2>2, <2>3, MtrrsSaved DEF ApBackupMtrrs
<1>4. CASE ApReplaceOSMtrrs(c)
  <2>1. pc[c] = "ap_program" /\ pc'[c] = "ap_work"
    BY <1>4 DEF ApReplaceOSMtrrs, Step, At, Goto, TypeOK, PcType
  <2>2. NeedConfigureMtrrs
    BY <2>1, StageOfAp DEF In, ApLabels
  <2>3. Replaced(c)'
    BY <2>1, <2>2 DEF Replaced, In, ReplacedLabels
  <2> QED
    BY <1>1, <1>2, <1>4, <2>3, MtrrsReplaced DEF ApReplaceOSMtrrs
<1>5. CASE ApReady(c) /\ NeedConfigureMtrrs
  <2>1. PICK b \in Cpu \ {c} : Restoring(b)
    BY <1>5, StageOfAp DEF ApReady, Step, At, In, ApLabels
  <2>2. Restoring(b)'
    BY <1>1, <2>1, StagesStay
  <2> QED
    BY <1>1, <1>5, <2>2, MtrrsRestored DEF ApReady
<1>6. CASE ~ApBackupMtrrs(c) /\ ~ApReplaceOSMtrrs(c) /\ ~(ApReady(c) /\ NeedConfigureMtrrs)
  <2>1. UNCHANGED <<mtrr, mtrrs>>
    BY <1>6
       DEF APHandler, ApMarkPresent, ApPresent, ApTimeout1, ApCallBsp, ApNobodyToCall,
           ApTimeout2, ApGiveUp, ApSignal, ApWait, ApBackupMtrrs, ApReplaceOSMtrrs, ApCheckExit,
           ApRunProcedure, ApReleaseBusy, ApReady, ApAbsent, DecideToGiveUp, GiveUp, syncVars,
           electVars, modeVars, mtrrVars, platVars, dataVars, taskVars, hwVars, entryVars,
           bspVars, stackVars, memory, notSync, notStack, notData
  <2>2. NeedConfigureMtrrs => (pc[c] \in ReplacedLabels <=> pc'[c] \in ReplacedLabels)
    BY <1>6
       DEF APHandler, ApMarkPresent, ApPresent, ApTimeout1, ApCallBsp, ApNobodyToCall,
           ApTimeout2, ApGiveUp, ApSignal, ApWait, ApBackupMtrrs, ApReplaceOSMtrrs, ApCheckExit,
           ApRunProcedure, ApReleaseBusy, ApReady, ApAbsent, DecideToGiveUp, GiveUp, Step, At,
           Goto, TypeOK, PcType, Gathers, ReplacedLabels, BspCoreLabels
  <2>3. Replaced(c)' <=> Replaced(c)
    BY <1>2, <2>2 DEF Replaced, In
  <2> QED
    BY <1>1, <1>2, <2>1, <2>3, MtrrsStay
<1> QED
  BY <1>3, <1>4, <1>5, <1>6

\* A step of BSPHandler keeps MtrrInv; the last one of the restoring stage
\* finds that every AP has restored.
LEMMA BSPHandlerKeepsMtrrs ==
  ASSUME TypeOK, OneBsp, RunInv, MtrrInv, NEW c \in Cpu, BSPHandler(c)
  PROVE  MtrrInv'
<1>1. OnlyMoves(c) /\ \A b \in Cpu \ {c} : SameStack(b)
  BY OneMoves
<1>2. CASE BspMtrrs(c)
  <2>1. UNCHANGED inWorker
    BY <1>2 DEF BspMtrrs
  <2>2. CASE pc[c] = "b_backup"
    <3>1. pc'[c] = "b_wait_backup" /\ UNCHANGED mtrr
          /\ mtrrs' = [mtrrs EXCEPT ![c] = mtrr[CoreOf[c]]]
      BY <1>2, <2>2 DEF BspMtrrs, Step, At, Goto, TypeOK, PcType
    <3>2. BackingUp(c) /\ ~Restoring(c) /\ (Replaced(c)' <=> Replaced(c))
      BY <2>1, <2>2, <3>1
         DEF BackingUp, Replaced, ReplacedLabels, Restoring, In, Gathers, BspCoreLabels
    <3> QED
      BY <1>1, <3>1, <3>2, MtrrsSaved
  <2>3. CASE pc[c] = "b_program"
    <3>1. pc'[c] = "b_wait_program" /\ UNCHANGED mtrrs
          /\ mtrr' = [mtrr EXCEPT ![CoreOf[c]] = "smm"]
      BY <1>2, <2>3 DEF BspMtrrs, Step, At, Goto, TypeOK, PcType
    <3>2. NeedConfigureMtrrs
      BY <2>3 DEF RunInv, StageInv, In, MtrrLabels
    <3>3. Replaced(c)' /\ ~Restoring(c)
      BY <2>3, <3>1, <3>2 DEF Replaced, ReplacedLabels, Restoring, In, Gathers, BspCoreLabels
    <3> QED
      BY <1>1, <3>1, <3>3, MtrrsReplaced
  <2>4. CASE pc[c] = "b_restore"
    <3>1. pc'[c] = "b_wait_restore" /\ UNCHANGED mtrrs
          /\ mtrr' = [mtrr EXCEPT ![CoreOf[c]] = mtrrs[c]]
      BY <1>2, <2>4 DEF BspMtrrs, Step, At, Goto, TypeOK, PcType
    <3>2. Restoring(c)'
      BY <3>1 DEF Restoring, In
    <3> QED
      BY <1>1, <3>1, <3>2, MtrrsRestored
  <2> QED
    BY <1>2, <2>2, <2>3, <2>4 DEF BspMtrrs, Step, At
<1>3. CASE BspAllSignalled(c) /\ pc[c] = "b_wait_restore"
  <2>1. pc'[c] = "b_rel_reset" /\ left[c] = 0 /\ UNCHANGED <<mtrr, mtrrs, inWorker>>
    BY <1>3
       DEF BspAllSignalled, Step, At, Goto, syncVars, electVars, modeVars, mtrrVars, platVars,
           dataVars, taskVars, hwVars, entryVars, bspVars, stackVars, memory, notSync, notStack,
           notData, TypeOK, PcType
  <2>2. Restoring(c) /\ Expected(c) = 0 /\ In(c, BspLabels)
    BY <1>3, <2>1 DEF Restoring, Expected, In, WaitLabels, BspLabels, BspExitLabels
  <2>3. \A d \in Cpu \ {c} : pc[d] \in CountedLabels => pc[d] \in PaidRestore
    BY <2>2, AccountSettled DEF RunInv, RestoreInv, IdleInv
  <2>4. \A d \in Cpu \ {c} : ~inWorker[d]
    BY <2>2, OnlyOneBsp DEF RunInv, StageInv, In, ArrivalLabels, BspLabels, BspGatherLabels
  <2>5. \A d \in Cpu \ {c} : ~Replaced(d)
    BY <2>3, <2>4
       DEF Replaced, In, ReplacedLabels, PaidRestore, CountedLabels, ApLabels, BspLabels,
           BspGatherLabels, BspCoreLabels, BspExitLabels, BspResetLabels
  <2>6. ~inWorker[c]
    BY <1>3 DEF RunInv, StageInv, In, ArrivalLabels
  <2>7. \A d \in Cpu : ~Replaced(d) /\ ~Replaced(d)'
    BY <1>1, <1>3, <2>1, <2>5, <2>6 DEF Replaced, In, ReplacedLabels, BspCoreLabels, SameStack
  <2> QED
    BY <2>1, <2>7 DEF MtrrInv
<1>4. CASE ~BspMtrrs(c) /\ ~(BspAllSignalled(c) /\ pc[c] = "b_wait_restore")
  <2>1. UNCHANGED <<mtrr, mtrrs>>
    BY <1>4
       DEF BSPHandler, BspFlagInside, BspPresent, BspClearSmiStatus, BspAllArrived,
           BspArrivalTimeout, BspLookForMissing, BspSendSmiIpis, BspRaiseSync, BspLockCounter,
           BspWaitForAp, BspAllSignalled, BspReleaseAp, BspMtrrs, BspAcquireOwnBusy,
           SmmCoreReturns, ScheduleProcedure, ProcedureReturned, BspDrain, BspAllPresent,
           BspFlagOutside, BspSetEffectiveMode, SmmCpuUpdate, BspAbsent, BspResign,
           BspOpenCounter, BspDropSync, ArrivalDone, BspArrivalLoopEnds, Loop, StartLoop,
           WaitForAllAPs, WaitLabels, syncVars, electVars, modeVars, mtrrVars, platVars,
           dataVars, taskVars, hwVars, entryVars, bspVars, stackVars, memory, notSync, notStack,
           notData
  <2>2. Restoring(c) => Restoring(c)'
    BY <1>4
       DEF Restoring, In, BSPHandler, BspFlagInside, BspPresent, BspClearSmiStatus,
           BspAllArrived, BspArrivalTimeout, BspLookForMissing, BspSendSmiIpis, BspRaiseSync,
           BspLockCounter, BspWaitForAp, BspAllSignalled, BspReleaseAp, BspMtrrs,
           BspAcquireOwnBusy, SmmCoreReturns, ScheduleProcedure, ProcedureReturned, BspDrain,
           BspAllPresent, BspFlagOutside, BspSetEffectiveMode, SmmCpuUpdate, BspAbsent,
           BspResign, BspOpenCounter, BspDropSync, ArrivalDone, BspArrivalLoopEnds, Loop,
           StartLoop, WaitForAllAPs, WaitLabels, Step, At, Goto, TypeOK, PcType
  <2>3. NeedConfigureMtrrs => (pc[c] \in ReplacedLabels
        \/ inWorker[c] <=> pc'[c] \in ReplacedLabels \/ inWorker'[c])
    BY <1>4
       DEF BSPHandler, BspFlagInside, BspPresent, BspClearSmiStatus, BspAllArrived,
           BspArrivalTimeout, BspLookForMissing, BspSendSmiIpis, BspRaiseSync, BspLockCounter,
           BspWaitForAp, BspAllSignalled, BspReleaseAp, BspMtrrs, BspAcquireOwnBusy,
           SmmCoreReturns, ScheduleProcedure, ProcedureReturned, BspDrain, BspAllPresent,
           BspFlagOutside, BspSetEffectiveMode, SmmCpuUpdate, BspAbsent, BspResign,
           BspOpenCounter, BspDropSync, ArrivalDone, BspArrivalLoopEnds, Loop, StartLoop,
           WaitForAllAPs, WaitLabels, Step, At, Goto, syncVars, electVars, modeVars, mtrrVars,
           platVars, dataVars, taskVars, hwVars, entryVars, bspVars, stackVars, memory, notSync,
           notStack, notData, TypeOK, PcType, StackType, Gathers, ReplacedLabels, BspCoreLabels,
           RunInv, StageInv, In, ArrivalLabels
  <2> QED
    BY <1>1, <2>1, <2>2, <2>3, MtrrsStay DEF Replaced, In
<1> QED
  BY <1>2, <1>3, <1>4

\* A call of an SMI handler keeps MtrrInv.
LEMMA SmiHandlersKeepMtrrs ==
  ASSUME TypeOK, RunInv, MtrrInv, NEW c \in Cpu, SmiHandlers(c)
  PROVE  MtrrInv'
<1>1. OnlyMoves(c) /\ \A b \in Cpu \ {c} : SameStack(b)
  BY OneMoves
<1>2. UNCHANGED <<mtrr, mtrrs>>
  BY DEF SmiHandlers, SmmStartupThisAp, SmmSwitchBsp, SmmCpuSync2SendSmi, SmmSyncSetMode,
         SmmCpuSyncCheckApArrival, SmmCpuSync2SendSmiAllExcludingSelf, Call, syncVars, electVars,
         modeVars, mtrrVars, platVars, dataVars, taskVars, hwVars, entryVars, bspVars, stackVars,
         memory, notSync, notStack, notData
<1>3. pc[c] = "b_core" /\ (pc'[c] \in BspCoreLabels \/ inWorker'[c])
  BY DEF SmiHandlers, SmmStartupThisAp, SmmSwitchBsp, SmmCpuSync2SendSmi, SmmSyncSetMode,
         SmmCpuSyncCheckApArrival, SmmCpuSync2SendSmiAllExcludingSelf, Call, Step, At, Goto,
         syncVars, electVars, modeVars, mtrrVars, platVars, dataVars, taskVars, hwVars,
         entryVars, bspVars, stackVars, memory, notSync, notStack, notData, TypeOK, PcType,
         StackType, BspCoreLabels
<1> QED
  BY <1>1, <1>2, <1>3, MtrrsStay
     DEF Replaced, ReplacedLabels, Restoring, In, Gathers, BspCoreLabels

\* MtrrInv is an invariant of the rendezvous.
THEOREM MtrrInvariant ==
  ASSUME ~GiveUpRace
  PROVE  Spec => []MtrrInv
<1>1. Init => MtrrInv
  BY CoreAssumption DEF Init, MtrrInv, Replaced, In, ReplacedLabels, BspCoreLabels
<1>2. ASSUME TypeOK, OneBsp, RunInv, MtrrInv, [Next]_vars PROVE MtrrInv'
  <2>1. CASE RaiseSmi \/ Idle \/ UNCHANGED vars
    <3>1. UNCHANGED <<pc, mtrr, mtrrs, inWorker>>
      BY <2>1 DEF RaiseSmi, Idle, vars, memory, stackVars, bspVars, platVars, mtrrVars
    <3> QED
      BY <1>2, <3>1 DEF MtrrInv, Replaced, Restoring, In
  <2> QED
    BY <1>2, <2>1, SmiRendezvousKeepsMtrrs, APHandlerKeepsMtrrs, BSPHandlerKeepsMtrrs,
       SmiHandlersKeepMtrrs
       DEF Next
<1> QED
  BY <1>1, <1>2, RunInvariant, TypeCorrect, OneBspHolds, PTL DEF Spec

\* The handlers run with the SMM settings on every core of a present
\* processor, and the APs go with the OS settings.
LEMMA MtrrFacts ==
  ASSUME TypeOK, OneBsp, RunInv, MtrrInv
  PROVE  MtrrPhases
<1> USE DEF RunInv
<1>1. ASSUME NEW b \in Cpu, In(b, BspCoreLabels), NEW c \in Cpu, present[c], NeedConfigureMtrrs
      PROVE  mtrr[CoreOf[c]] = "smm"
  <2>1. In(b, BspLabels) /\ Serving(b) /\ Closed(b)
    BY <1>1
       DEF In, Serving, Closed, LockedBsp, Gathers, BspLabels, BspGatherLabels, BspCoreLabels,
           BspExitLabels, BspResetLabels
  <2>2. \A d \in Cpu : ~Restoring(d)
    <3>1. \A d \in Cpu : Restoring(d) => d = b
      BY <2>1, OnlyOneBsp, StagesAreBsp
    <3> QED
      BY <1>1, <3>1 DEF Restoring, In, BspCoreLabels
  <2>3. Replaced(c)
    <3>1. CASE c = b
      BY <1>1, <3>1 DEF Replaced, In, ReplacedLabels
    <3>2. CASE c # b
      <4>1. pc[c] \in CountedLabels
        BY <1>1 DEF PresentInv, In, PresentLabels, CountedLabels
      <4>2. pc[c] \in DueServe /\ pc[c] \notin DueArrive
        BY <2>1, <3>2, <4>1, AccountMember DEF ServeInv, NoJoiners, In
      <4> QED
        BY <1>1, <4>2 DEF DueServe, Replaced, ReplacedLabels, In
    <3> QED
      BY <3>1, <3>2
  <2> QED
    BY <2>2, <2>3 DEF MtrrInv
<1>2. \A b \in Cpu : In(b, BspResetLabels) => \A c \in Cpu : mtrr[c] = "os"
  BY NobodySaved
<1> QED
  BY <1>1, <1>2 DEF MtrrInv, MtrrPhases

-----------------------------------------------------------------------------
(***************************************************************************)
(* Closing the run.                                                         *)
(***************************************************************************)

\* A step that leaves AllCpusInSync and BspIndex alone, makes no BSP and does
\* not bring one past the lock-down keeps SyncInv.
LEMMA SyncStays ==
  ASSUME SyncInv, NEW m \in Cpu, OnlyMoves(m), \A b \in Cpu \ {m} : SameStack(b),
         UNCHANGED <<bspIndex, allCpusInSync>>,
         pc'[m] \in BspLabels \cup {"b_unsync"} => pc[m] \in BspLabels \cup {"b_unsync"},
         pc'[m] \in BspLabels \ BeforeSync \/ inWorker'[m] =>
           /\ pc[m] \in BspLabels \ BeforeSync \/ inWorker[m] \/ ~Gathers(m)
           /\ syncMode'[m] = syncMode[m]
  PROVE  SyncInv'
BY DEF SyncInv, In, Gathers, SameStack

\* Only a BSP with InsideSmm set has made sure of anybody.
LEMMA SealedIsBsp ==
  ASSUME StageInv, NEW b \in Cpu, NEW c \in Cpu, Sealed(b, c)
  PROVE  In(b, BspLabels) /\ In(b, InsideLabels)
BY DEF Sealed, StageInv, In, SealedLabels, ArrivalLabels, InsideLabels, BspLabels,
       BspGatherLabels,
   BspCoreLabels, BspExitLabels, BspResetLabels

\* A step aside of the BSP keeps HeldInv if the processor stays in SMM, or
\* goes where the lock-down holds it.
LEMMA HeldAside ==
  ASSUME StageInv, StageInv', HeldInv, NEW m \in Cpu, Aside(m),
         \A c \in Cpu \ {m} : smiPending[c] => smiPending'[c],
         \/ pc'[m] \in HeldLabels
         \/ /\ smiPending[m] => smiPending'[m]
            /\ \A b \in Cpu \ {m} : Sealed(b, m) =>
                 /\ pc[m] \in HeldLabels => In(m, {"excluded"})' /\ LockedBsp(b)
                 /\ In(m, {"excluded"}) => ~LockedBsp(b)
  PROVE  HeldInv'
<1> SUFFICES ASSUME NEW b \in Cpu, NEW c \in Cpu, Sealed(b, c)' PROVE Held(b, c)'
  BY DEF HeldInv
<1>1. b # m
  BY DEF Aside, Sealed, StageInv, In, SealedLabels, ArrivalLabels, BspLabels, BspGatherLabels,
     BspCoreLabels
<1>2. Sealed(b, c) /\ (LockedBsp(b)' <=> LockedBsp(b))
  BY <1>1, StagesStay DEF Sealed, Aside, SameStack, In
<1>3. Held(b, c)
  BY <1>2 DEF HeldInv
<1>4. CASE c # m
  BY <1>2, <1>3, <1>4 DEF Held, HeldLabels, Aside, OnlyMoves, In
<1>5. CASE c = m
  BY <1>1, <1>2, <1>3, <1>5 DEF Held, HeldLabels, In
<1> QED
  BY <1>4, <1>5

\* A step of the BSP keeps HeldInv if it makes sure of nobody new.
LEMMA HeldLeads ==
  ASSUME OneBsp, LeaveInv, StageInv, StageInv', HeldInv, NEW m \in Cpu, Leads(m),
         \A c \in Cpu \ {m} : smiPending[c] => smiPending'[c],
         \A c \in Cpu : Sealed(m, c)' => /\ Sealed(m, c) /\ (LockedBsp(m) => LockedBsp(m)')
                                         /\ pc'[m] \in CountedLabels
  PROVE  HeldInv'
<1> SUFFICES ASSUME NEW b \in Cpu, NEW c \in Cpu, Sealed(b, c)' PROVE Held(b, c)'
  BY DEF HeldInv
<1>1. b = m
  <2>1. In(b, BspLabels)'
    BY DEF Sealed, StageInv, In, SealedLabels, ArrivalLabels, BspLabels, BspGatherLabels,
     BspCoreLabels
  <2> QED
    BY <2>1, OthersAreNoBsp
<1>2. Held(b, c)
  BY <1>1 DEF HeldInv
<1> QED
  BY <1>1, <1>2 DEF Held, HeldLabels, Leads, OnlyMoves, In

\* A step of SmiRendezvous keeps SyncInv.
LEMMA SmiRendezvousKeepsSync ==
  ASSUME TypeOK, RunInv, SyncInv, NEW c \in Cpu, EnterSmi(c) \/ SmiRendezvous(c)
  PROVE  SyncInv'
<1>1. OnlyMoves(c) /\ \A b \in Cpu \ {c} : SameStack(b)
  BY OneMoves
<1>2. ~inWorker[c] /\ UNCHANGED <<inWorker, allCpusInSync>>
  <2>1. UNCHANGED <<inWorker, allCpusInSync>>
    BY DEF EnterSmi, SmiRendezvous, SampleValidSmi, SampleBspInProgress, CheckIn,
           WaitForEndOfRun, LeaveSmm, InitializeBusy, Stand, ElectBsp, BecomeBsp, BecomeAp,
           ReadSyncMode, syncVars, electVars, modeVars, mtrrVars, platVars, dataVars, taskVars,
           hwVars, entryVars, bspVars, stackVars, memory, notSync, notStack, notData
  <2>2. pc[c] \notin ArrivalLabels
    BY DEF EnterSmi, SmiRendezvous, SampleValidSmi, SampleBspInProgress, CheckIn,
           WaitForEndOfRun, LeaveSmm, InitializeBusy, Stand, ElectBsp, BecomeBsp, BecomeAp,
           ReadSyncMode, Step, At, ArrivalLabels
  <2> QED
    BY <2>1, <2>2 DEF RunInv, StageInv, In
<1>3. UNCHANGED bspIndex
  BY DEF SyncInv, NoBsp, FirstCandidateWins, EnterSmi, SmiRendezvous, SampleValidSmi,
         SampleBspInProgress, CheckIn, WaitForEndOfRun, LeaveSmm, InitializeBusy, Stand,
         ElectBsp, BecomeBsp, BecomeAp, ReadSyncMode, syncVars, electVars, modeVars, mtrrVars,
         platVars, dataVars, taskVars, hwVars, entryVars, bspVars, stackVars, memory, notSync,
         notStack, notData
<1>4. pc'[c] \in BspLabels \cup {"b_unsync"} => BecomeBsp(c)
  BY DEF EnterSmi, SmiRendezvous, SampleValidSmi, SampleBspInProgress, CheckIn, WaitForEndOfRun,
         LeaveSmm, InitializeBusy, Stand, ElectBsp, BecomeBsp, BecomeAp, ReadSyncMode, Step, At,
         Goto, TypeOK, PcType, BspLabels, BspGatherLabels, BspCoreLabels, BspExitLabels,
         BspResetLabels
<1>5. CASE BecomeBsp(c)
  <2>1. c = 0 /\ pc'[c] = "b_inside"
    BY <1>5 DEF BecomeBsp, At, Goto, SyncInv, TypeOK, PcType
  <2> QED
    BY <1>1, <1>2, <1>3, <2>1 DEF SyncInv, In, Gathers, SameStack, BeforeSync
<1>6. CASE ~BecomeBsp(c)
  BY <1>1, <1>2, <1>3, <1>4, <1>6, SyncStays
<1> QED
  BY <1>5, <1>6

\* A step of APHandler keeps SyncInv.
LEMMA APHandlerKeepsSync ==
  ASSUME TypeOK, RunInv, SyncInv, NEW c \in Cpu, APHandler(c)
  PROVE  SyncInv'
<1>1. OnlyMoves(c) /\ \A b \in Cpu \ {c} : SameStack(b)
  BY OneMoves
<1>2. ~inWorker[c] /\ UNCHANGED <<inWorker, allCpusInSync, bspIndex>>
  <2>1. UNCHANGED <<inWorker, allCpusInSync, bspIndex>>
    BY DEF APHandler, ApMarkPresent, ApPresent, ApTimeout1, ApCallBsp, ApNobodyToCall,
           ApTimeout2, ApGiveUp, ApSignal, ApWait, ApBackupMtrrs, ApReplaceOSMtrrs, ApCheckExit,
           ApRunProcedure, ApReleaseBusy, ApReady, ApAbsent, DecideToGiveUp, GiveUp, syncVars,
           electVars, modeVars, mtrrVars, platVars, dataVars, taskVars, hwVars, entryVars,
           bspVars, stackVars, memory, notSync, notStack, notData
  <2>2. pc[c] \notin ArrivalLabels
    BY DEF APHandler, ApMarkPresent, ApPresent, ApTimeout1, ApCallBsp, ApNobodyToCall,
           ApTimeout2, ApGiveUp, ApSignal, ApWait, ApBackupMtrrs, ApReplaceOSMtrrs, ApCheckExit,
           ApRunProcedure, ApReleaseBusy, ApReady, ApAbsent, DecideToGiveUp, GiveUp, Step, At,
           ArrivalLabels
  <2> QED
    BY <2>1, <2>2 DEF RunInv, StageInv, In
<1>3. pc'[c] \notin BspLabels \cup {"b_unsync"}
  BY DEF APHandler, ApMarkPresent, ApPresent, ApTimeout1, ApCallBsp, ApNobodyToCall, ApTimeout2,
         ApGiveUp, ApSignal, ApWait, ApBackupMtrrs, ApReplaceOSMtrrs, ApCheckExit,
         ApRunProcedure, ApReleaseBusy, ApReady, ApAbsent, DecideToGiveUp, GiveUp, Step, At,
         Goto, TypeOK, PcType, BspLabels, BspGatherLabels, BspCoreLabels, BspExitLabels,
         BspResetLabels
<1> QED
  BY <1>1, <1>2, <1>3, SyncStays

\* A step of BSPHandler keeps SyncInv: processor 0 drops AllCpusInSync and
\* cannot yet have become the BSP again.
LEMMA BSPHandlerKeepsSync ==
  ASSUME ~BspElection, TypeOK, RunInv, RunInv', SyncInv, NEW c \in Cpu, BSPHandler(c)
  PROVE  SyncInv'
<1>1. OnlyMoves(c) /\ \A b \in Cpu \ {c} : SameStack(b)
  BY OneMoves
<1>2. UNCHANGED <<bspIndex, syncMode>>
  BY DEF BSPHandler, BspFlagInside, BspPresent, BspClearSmiStatus, BspAllArrived,
         BspArrivalTimeout, BspLookForMissing, BspSendSmiIpis, BspRaiseSync, BspLockCounter,
         BspWaitForAp, BspAllSignalled, BspReleaseAp, BspMtrrs, BspAcquireOwnBusy,
         SmmCoreReturns, ScheduleProcedure, ProcedureReturned, BspDrain, BspAllPresent,
         BspFlagOutside, BspSetEffectiveMode, SmmCpuUpdate, BspAbsent, BspResign, BspOpenCounter,
         BspDropSync, ArrivalDone, BspArrivalLoopEnds, Loop, StartLoop, WaitForAllAPs,
         WaitLabels, syncVars, electVars, modeVars, mtrrVars, platVars, dataVars, taskVars,
         hwVars, entryVars, bspVars, stackVars, memory, notSync, notStack, notData
<1>3. pc[c] \in BspLabels \cup {"b_unsync"}
  BY DEF BSPHandler, BspFlagInside, BspPresent, BspClearSmiStatus, BspAllArrived,
         BspArrivalTimeout, BspLookForMissing, BspSendSmiIpis, BspRaiseSync, BspLockCounter,
         BspWaitForAp, BspAllSignalled, BspReleaseAp, BspMtrrs, BspAcquireOwnBusy,
         SmmCoreReturns, ScheduleProcedure, ProcedureReturned, BspDrain, BspAllPresent,
         BspFlagOutside, BspSetEffectiveMode, SmmCpuUpdate, BspAbsent, BspResign, BspOpenCounter,
         BspDropSync, ArrivalDone, BspArrivalLoopEnds, Loop, StartLoop, WaitForAllAPs,
         WaitLabels, Step, At, Goto, BspLabels, BspGatherLabels, BspCoreLabels, BspExitLabels,
         BspResetLabels
<1>4. CASE BspRaiseSync(c)
  BY <1>1, <1>2, <1>3, <1>4 DEF BspRaiseSync, SyncInv, In, OnlyMoves
<1>5. CASE BspDropSync(c)
  <2>1. pc'[c] = "finished" /\ c = 0
    BY <1>3, <1>5 DEF BspDropSync, Step, At, Goto, SyncInv, In, TypeOK, PcType
  <2>2. \A b \in Cpu : pc'[b] \notin BspLabels \cup {"b_unsync"}
    BY <1>1, <2>1
       DEF SyncInv, In, OnlyMoves, BspLabels, BspGatherLabels, BspCoreLabels, BspExitLabels,
           BspResetLabels
  <2>3. \A b \in Cpu : ~inWorker'[b]
    BY <2>2 DEF RunInv, StageInv, In, ArrivalLabels, BspLabels, BspGatherLabels
  <2> QED
    BY <1>2, <2>2, <2>3 DEF SyncInv, In
<1>6. CASE ~BspRaiseSync(c) /\ ~BspDropSync(c)
  <2>1. UNCHANGED allCpusInSync
    BY <1>6
       DEF BSPHandler, BspFlagInside, BspPresent, BspClearSmiStatus, BspAllArrived,
           BspArrivalTimeout, BspLookForMissing, BspSendSmiIpis, BspRaiseSync, BspLockCounter,
           BspWaitForAp, BspAllSignalled, BspReleaseAp, BspMtrrs, BspAcquireOwnBusy,
           SmmCoreReturns, ScheduleProcedure, ProcedureReturned, BspDrain, BspAllPresent,
           BspFlagOutside, BspSetEffectiveMode, SmmCpuUpdate, BspAbsent, BspResign,
           BspOpenCounter, BspDropSync, ArrivalDone, BspArrivalLoopEnds, Loop, StartLoop,
           WaitForAllAPs, WaitLabels, syncVars, electVars, modeVars, mtrrVars, platVars,
           dataVars, taskVars, hwVars, entryVars, bspVars, stackVars, memory, notSync, notStack,
           notData
  <2>2. pc'[c] \in BspLabels \ BeforeSync \/ inWorker'[c] =>
          pc[c] \in BspLabels \ BeforeSync \/ inWorker[c] \/ ~Gathers(c)
    BY <1>6
       DEF BSPHandler, BspFlagInside, BspPresent, BspClearSmiStatus, BspAllArrived,
           BspArrivalTimeout, BspLookForMissing, BspSendSmiIpis, BspRaiseSync, BspLockCounter,
           BspWaitForAp, BspAllSignalled, BspReleaseAp, BspMtrrs, BspAcquireOwnBusy,
           SmmCoreReturns, ScheduleProcedure, ProcedureReturned, BspDrain, BspAllPresent,
           BspFlagOutside, BspSetEffectiveMode, SmmCpuUpdate, BspAbsent, BspResign,
           BspOpenCounter, BspDropSync, ArrivalDone, BspArrivalLoopEnds, Loop, StartLoop,
           WaitForAllAPs, WaitLabels, Step, At, Goto, syncVars, electVars, modeVars, mtrrVars,
           platVars, dataVars, taskVars, hwVars, entryVars, bspVars, stackVars, memory, notSync,
           notStack, notData, TypeOK, PcType, StackType, BspLabels, BspGatherLabels,
           BspCoreLabels, BspExitLabels, BspResetLabels, BeforeSync, RunInv, StageInv, In
  <2> QED
    BY <1>1, <1>2, <1>3, <2>1, <2>2, SyncStays
<1> QED
  BY <1>4, <1>5, <1>6

\* A call of an SMI handler keeps SyncInv.
LEMMA SmiHandlersKeepSync ==
  ASSUME TypeOK, SyncInv, NEW c \in Cpu, SmiHandlers(c)
  PROVE  SyncInv'
<1>1. OnlyMoves(c) /\ \A b \in Cpu \ {c} : SameStack(b)
  BY OneMoves
<1>2. UNCHANGED <<bspIndex, allCpusInSync, syncMode>>
  BY DEF SmiHandlers, SmmStartupThisAp, SmmSwitchBsp, SmmCpuSync2SendSmi, SmmSyncSetMode,
         SmmCpuSyncCheckApArrival, SmmCpuSync2SendSmiAllExcludingSelf, Call, syncVars, electVars,
         modeVars, mtrrVars, platVars, dataVars, taskVars, hwVars, entryVars, bspVars, stackVars,
         memory, notSync, notStack, notData
<1>3. pc[c] \in BspLabels \ BeforeSync
  BY DEF SmiHandlers, SmmStartupThisAp, SmmSwitchBsp, SmmCpuSync2SendSmi, SmmSyncSetMode,
         SmmCpuSyncCheckApArrival, SmmCpuSync2SendSmiAllExcludingSelf, Call, At, BspLabels,
         BspGatherLabels, BspCoreLabels, BspExitLabels, BspResetLabels, BeforeSync
<1> QED
  BY <1>1, <1>2, <1>3, SyncStays

\* When Counter reaches mNumberOfCpus everybody is counted.
LEMMA EverybodyCounted ==
  ASSUME NEW p, NEW D, Number(p, D) >= NumberOfCpus, NEW c \in Cpu
  PROVE  p[c] \in D
<1> DEFINE S == {i \in Cpu : p[i] \in D}
<1>1. IsFiniteSet(Cpu) /\ Cardinality(Cpu) = NumberOfCpus
  BY CpuAssumption, FS_Interval DEF Cpu
<1>2. SUFFICES ASSUME p[c] \notin D PROVE FALSE
  OBVIOUS
<1>3. IsFiniteSet(Cpu \ {c}) /\ Cardinality(Cpu \ {c}) = NumberOfCpus - 1
  BY <1>1, FS_RemoveElement
<1>4. S \subseteq Cpu \ {c}
  BY <1>2
<1>5. Cardinality(S) <= NumberOfCpus - 1 /\ Cardinality(S) \in Nat
  BY <1>3, <1>4, FS_Subset, FS_CardinalityType
<1> QED
  BY <1>5, CpuAssumption DEF Number

\* A step of SmiRendezvous keeps HeldInv: a spurious SMI is not left while
\* the BSP is inside, and AllCpusInSync holds an excluded processor.
LEMMA SmiRendezvousKeepsHeld ==
  ASSUME TypeOK, OneBsp, RunInv, RunInv', SyncInv, HeldInv, NEW c \in Cpu, EnterSmi(c)
         \/ SmiRendezvous(c)
  PROVE  HeldInv'
<1> USE DEF RunInv
<1>1. \A b \in Cpu : Sealed(b, c) => In(b, BspLabels) /\ insideSmm /\ Gathers(b)
  BY SealedIsBsp DEF InsideInv, Sealed
<1>2. CASE BecomeBsp(c)
  <2>1. c = 0 /\ pc[c] = "role" /\ pc'[c] = "b_inside"
    BY <1>2 DEF BecomeBsp, At, Goto, SyncInv, TypeOK, PcType
  <2>2. OnlyMoves(c)
    BY OneMoves
  <2>3. \A b \in Cpu : ~In(b, SealedLabels \cup {"b_ipi"})'
    BY <2>1, <2>2
       DEF SyncInv, OnlyMoves, In, SealedLabels, BspLabels, BspGatherLabels, BspCoreLabels,
           BspExitLabels, BspResetLabels
  <2>4. \A b \in Cpu : ~In(b, ArrivalLabels)'
    BY <2>1, <2>2
       DEF SyncInv, OnlyMoves, In, ArrivalLabels, BspLabels, BspGatherLabels, BspCoreLabels,
           BspExitLabels, BspResetLabels
  <2> QED
    BY <2>3, <2>4 DEF HeldInv, Sealed, StageInv, In
<1>3. CASE ~BecomeBsp(c)
  <2>1. Aside(c)
    BY <1>3, AsideSteps
  <2>2. /\ \A b \in Cpu \ {c} : smiPending[b] => smiPending'[b]
        /\ EnterSmi(c) \/ UNCHANGED smiPending
    BY DEF EnterSmi, SmiRendezvous, SampleValidSmi, SampleBspInProgress, CheckIn,
           WaitForEndOfRun, LeaveSmm, InitializeBusy, Stand, ElectBsp, BecomeBsp, BecomeAp,
           ReadSyncMode, syncVars, electVars, modeVars, mtrrVars, platVars, dataVars, taskVars,
           hwVars, entryVars, bspVars, stackVars, memory, notSync, notStack, notData, TypeOK,
           HardwareType
  <2>3. EnterSmi(c) => pc'[c] \in HeldLabels
    BY DEF EnterSmi, Step, At, Goto, TypeOK, PcType, HeldLabels
  <2>4. /\ pc[c] \in HeldLabels => \/ pc'[c] \in HeldLabels
                                   \/ ~insideSmm
                                   \/ pc'[c] = "excluded" /\ counter = Locked
        /\ pc[c] = "excluded" => ~allCpusInSync
    BY <1>3
       DEF EnterSmi, SmiRendezvous, SampleValidSmi, SampleBspInProgress, CheckIn,
           WaitForEndOfRun, LeaveSmm, InitializeBusy, Stand, ElectBsp, BecomeBsp, BecomeAp,
           ReadSyncMode, Step, At, Goto, EndOfRun, TypeOK, SyncType, PcType, HeldLabels,
           CountedLabels, Locked,
       JoiningLabels, ApLabels, BspLabels, BspGatherLabels, BspCoreLabels, BspExitLabels,
       BspResetLabels
  <2>5. counter = Locked => \A b \in Cpu : In(b, BspLabels) => LockedBsp(b)
    BY OnlyOneBsp, StagesAreBsp DEF LockInv
  <2>6. \A b \in Cpu : LockedBsp(b) /\ Gathers(b) => allCpusInSync
    BY DEF LockedBsp, SyncInv, In, BspLabels, BspGatherLabels, BspCoreLabels, BspExitLabels,
           BspResetLabels, BeforeSync, MtrrLabels
  <2> QED
    BY <1>1, <2>1, <2>2, <2>3, <2>4, <2>5, <2>6, HeldAside DEF In
<1> QED
  BY <1>2, <1>3

\* A step of APHandler keeps HeldInv: nobody gives up while the BSP is
\* inside, and the last signal comes when the handlers are over.
LEMMA APHandlerKeepsHeld ==
  ASSUME TypeOK, OneBsp, RunInv, RunInv', SyncInv, HeldInv, NEW c \in Cpu, APHandler(c)
  PROVE  HeldInv'
<1> USE DEF RunInv
<1>1. \A b \in Cpu : Sealed(b, c) => In(b, BspLabels) /\ insideSmm
  BY SealedIsBsp DEF InsideInv
<1>2. Aside(c)
  BY AsideSteps
     DEF BecomeBsp, APHandler, ApMarkPresent, ApPresent, ApTimeout1, ApCallBsp, ApNobodyToCall,
         ApTimeout2, ApGiveUp, ApSignal, ApWait, ApBackupMtrrs, ApReplaceOSMtrrs, ApCheckExit,
         ApRunProcedure, ApReleaseBusy, ApReady, ApAbsent, DecideToGiveUp, GiveUp, Step, At
<1>3. \A b \in Cpu : smiPending[b] => smiPending'[b]
  BY DEF APHandler, ApMarkPresent, ApPresent, ApTimeout1, ApCallBsp, ApNobodyToCall, ApTimeout2,
         ApGiveUp, ApSignal, ApWait, ApBackupMtrrs, ApReplaceOSMtrrs, ApCheckExit,
         ApRunProcedure, ApReleaseBusy, ApReady, ApAbsent, DecideToGiveUp, GiveUp, SendSmiIpi,
         syncVars, electVars, modeVars, mtrrVars, platVars, dataVars, taskVars, hwVars,
         entryVars, bspVars, stackVars, memory, notSync, notStack, notData, TypeOK, HardwareType,
         SyncType
<1>4. /\ pc'[c] \in HeldLabels \/ ~insideSmm \/ pc[c] = "ap_bye"
      /\ pc[c] # "excluded"
  BY DEF APHandler, ApMarkPresent, ApPresent, ApTimeout1, ApCallBsp, ApNobodyToCall, ApTimeout2,
         ApGiveUp, ApSignal, ApWait, ApBackupMtrrs, ApReplaceOSMtrrs, ApCheckExit,
         ApRunProcedure, ApReleaseBusy, ApReady, ApAbsent, DecideToGiveUp, GiveUp, Step, At,
         Goto, TypeOK, PcType, HeldLabels, CountedLabels, StageInv, In, SyncInv, NoBsp,
       JoiningLabels, ApLabels
<1>5. pc[c] = "ap_bye" => \A b \in Cpu : ~Sealed(b, c)
  BY <1>1, ByeIsResetting
     DEF In, Resetting, Sealed, SealedLabels, BspCoreLabels, StageInv, ArrivalLabels
<1> QED
  BY <1>1, <1>2, <1>3, <1>4, <1>5, HeldAside DEF In

\* The BSP looks for missing processors: none are missing only if all are
\* counted.
LEMMA LookForMissingHolds ==
  ASSUME TypeOK, OneBsp, RunInv, RunInv', HeldInv, NEW c \in Cpu, BspLookForMissing(c)
  PROVE  HeldInv'
<1> USE DEF RunInv
<1>1. Leads(c)
  BY LeadSteps DEF BSPHandler, BspLookForMissing, BspDropSync, Step, At
<1>2. UNCHANGED smiPending /\ pc[c] = "b_missing" /\ In(c, BspLabels)
  BY DEF BspLookForMissing, At, In, syncVars, electVars, modeVars, mtrrVars, platVars, dataVars,
         taskVars, hwVars, entryVars, bspVars, stackVars, memory, notSync, notStack, notData,
         BspLabels, BspGatherLabels
<1>3. CASE counter \in 0 .. NumberOfCpus - 1 \/ inWorker[c]
  <2>1. \A i \in Cpu : Sealed(c, i)' => /\ Sealed(c, i) /\ (LockedBsp(c) => LockedBsp(c)')
                                        /\ pc'[c] \in CountedLabels
    BY <1>2, <1>3, CpuBound
       DEF BspLookForMissing, StartLoop, ArrivalDone, Step, At, Goto, syncVars, electVars,
           modeVars, mtrrVars, platVars, dataVars, taskVars, hwVars, entryVars, bspVars,
           stackVars, memory, notSync, notStack, notData, Sealed, SealedLabels, LockedBsp,
       MtrrLabels, In, Gathers, TypeOK, PcType, StackType, CountedLabels, BspLabels,
       BspGatherLabels, BspCoreLabels, BspExitLabels, BspResetLabels
  <2> QED
    BY <1>1, <1>2, <2>1, HeldLeads
<1>4. CASE counter \notin 0 .. NumberOfCpus - 1 /\ ~inWorker[c]
  <2>1. counter # Locked
    <3>1. ~LockedBsp(c)
      BY <1>2, <1>4
         DEF LockedBsp, In, MtrrLabels, BspLabels, BspGatherLabels, BspCoreLabels, BspExitLabels,
             BspResetLabels
    <3> QED
      BY <1>2, <3>1, OnlyOneBsp, StagesAreBsp DEF LockInv
  <2>2. counter >= NumberOfCpus /\ counter = Number(pc, CountedLabels)
    BY <1>4, <2>1, CpuAssumption DEF LockInv, Locked, CounterInv, TypeOK, SyncType
  <2>3. \A i \in Cpu : pc[i] \in CountedLabels
    BY <2>2, EverybodyCounted
  <2>4. pc'[c] \in CountedLabels
    BY <1>4
       DEF BspLookForMissing, ArrivalDone, Step, At, Goto, TypeOK, PcType, CountedLabels,
           BspLabels, BspGatherLabels, BspCoreLabels, BspExitLabels, BspResetLabels
  <2> QED
    BY <1>1, <2>3, <2>4 DEF HeldInv, Held, HeldLabels, In, Leads, OnlyMoves
<1> QED
  BY <1>3, <1>4

\* The BSP sends an SMI IPI to a processor that is not present.
LEMMA SendSmiIpisHolds ==
  ASSUME TypeOK, OneBsp, RunInv, RunInv', HeldInv, NEW c \in Cpu, BspSendSmiIpis(c)
  PROVE  HeldInv'
<1> USE DEF RunInv
<1>1. Leads(c)
  BY LeadSteps DEF BSPHandler, BspSendSmiIpis, Loop, BspDropSync, Step, At
<1>2. PICK i \in Cpu : /\ Loop(c, "b_ipi", i, "b_arrive2")
                       /\ IF present[i] THEN UNCHANGED smiPending ELSE SendSmiIpi(i)
  BY DEF BspSendSmiIpis
<1>3. /\ pc[c] = "b_ipi" /\ index[c] = i + 1 /\ index'[c] = i /\ UNCHANGED <<inWorker,
                                                                             syncMode>>
      /\ (pc'[c] = "b_ipi" \/ (pc'[c] = "b_arrive2" /\ i = 0))
      /\ (\A b \in Cpu : smiPending[b] => smiPending'[b])
      /\ (present[i] \/ smiPending'[i])
  <2>1. pc[c] = "b_ipi" /\ index[c] = i + 1 /\ index'[c] = i /\ UNCHANGED <<inWorker, syncMode>>
    BY <1>2
       DEF BspSendSmiIpis, Loop, At, syncVars, electVars, modeVars, mtrrVars, platVars, dataVars,
           taskVars, hwVars, entryVars, bspVars, stackVars, memory, notSync, notStack, notData,
           TypeOK, StackType
  <2>2. pc'[c] = "b_ipi" \/ (pc'[c] = "b_arrive2" /\ i = 0)
    BY <1>2 DEF Loop, Goto, TypeOK, PcType
  <2>3. (\A b \in Cpu : smiPending[b] => smiPending'[b]) /\ (present[i] \/ smiPending'[i])
    BY <1>2 DEF SendSmiIpi, TypeOK, HardwareType
  <2> QED
    BY <2>1, <2>2, <2>3
<1>4. SUFFICES ASSUME NEW b \in Cpu, NEW d \in Cpu, Sealed(b, d)' PROVE Held(b, d)'
  BY DEF HeldInv
<1>5. b = c
  <2>1. In(b, BspLabels)'
    BY <1>4
       DEF Sealed, StageInv, In, SealedLabels, ArrivalLabels, BspLabels, BspGatherLabels,
           BspCoreLabels, BspExitLabels, BspResetLabels
  <2> QED
    BY <1>1, <2>1, OthersAreNoBsp
<1>6. pc'[c] \in CountedLabels /\ pc[c] \in CountedLabels
  BY <1>3 DEF CountedLabels, BspLabels, BspGatherLabels
<1>7. CASE d = i
  <2>1. present[i] => pc[i] \in CountedLabels
    BY DEF PresentInv, In, PresentLabels, CountedLabels
  <2> QED
    BY <1>1, <1>3, <1>6, <1>7, <2>1 DEF Held, HeldLabels, In, Leads, OnlyMoves
<1>8. CASE d # i
  <2>1. d >= i => d >= i + 1
    BY <1>8, CpuAssumption DEF Cpu
  <2>2. d >= 0
    BY CpuBound
  <2>3. Sealed(c, d)
    BY <1>3, <1>4, <1>5, <2>1, <2>2 DEF Sealed, Gathers, In, SealedLabels, BspCoreLabels
  <2>4. Held(c, d) /\ (LockedBsp(c) => LockedBsp(c)')
    BY <1>3, <2>3
       DEF HeldInv, LockedBsp, In, Gathers, MtrrLabels, BspLabels, BspGatherLabels,
           BspCoreLabels, BspExitLabels, BspResetLabels
  <2> QED
    BY <1>1, <1>3, <1>5, <1>6, <2>4 DEF Held, HeldLabels, In, Leads, OnlyMoves
<1> QED
  BY <1>7, <1>8

\* A step of BSPHandler keeps HeldInv.
LEMMA BSPHandlerKeepsHeld ==
  ASSUME TypeOK, OneBsp, RunInv, RunInv', HeldInv, NEW c \in Cpu, BSPHandler(c)
  PROVE  HeldInv'
<1> USE DEF RunInv
<1>1. CASE BspLookForMissing(c)
  BY <1>1, LookForMissingHolds
<1>2. CASE BspSendSmiIpis(c)
  BY <1>2, SendSmiIpisHolds
<1>3. CASE BspDropSync(c)
  <2>1. Aside(c)
    BY <1>3, AsideSteps DEF BecomeBsp, BspDropSync, Step, At
  <2>2. pc[c] \notin HeldLabels /\ pc[c] # "excluded" /\ UNCHANGED smiPending
    BY <1>3
       DEF BspDropSync, Step, At, Goto, syncVars, electVars, modeVars, mtrrVars, platVars,
           dataVars, taskVars, hwVars, entryVars, bspVars, stackVars, memory, notSync, notStack,
           notData, HeldLabels, CountedLabels, JoiningLabels, ApLabels, BspLabels,
           BspGatherLabels, BspCoreLabels, BspExitLabels, BspResetLabels
  <2> QED
    BY <2>1, <2>2, HeldAside DEF In
<1>4. CASE ~BspLookForMissing(c) /\ ~BspSendSmiIpis(c) /\ ~BspDropSync(c)
  <2>1. Leads(c)
    BY <1>4, LeadSteps
  <2>2. UNCHANGED <<smiPending, syncMode>>
    BY <1>4
       DEF BSPHandler, BspFlagInside, BspPresent, BspClearSmiStatus, BspAllArrived,
           BspArrivalTimeout, BspLookForMissing, BspSendSmiIpis, BspRaiseSync, BspLockCounter,
           BspWaitForAp, BspAllSignalled, BspReleaseAp, BspMtrrs, BspAcquireOwnBusy,
           SmmCoreReturns, ScheduleProcedure, ProcedureReturned, BspDrain, BspAllPresent,
           BspFlagOutside, BspSetEffectiveMode, SmmCpuUpdate, BspAbsent, BspResign,
           BspOpenCounter, BspDropSync, ArrivalDone, BspArrivalLoopEnds, Loop, StartLoop,
           WaitForAllAPs, WaitLabels, syncVars, electVars, modeVars, mtrrVars, platVars,
           dataVars, taskVars, hwVars, entryVars, bspVars, stackVars, memory, notSync, notStack,
           notData
  <2>3. In(c, SealedLabels)' \/ inWorker'[c] =>
          In(c, SealedLabels) \/ inWorker[c] \/ ~Gathers(c)
    BY <1>4
       DEF BSPHandler, BspFlagInside, BspPresent, BspClearSmiStatus, BspAllArrived,
           BspArrivalTimeout, BspLookForMissing, BspSendSmiIpis, BspRaiseSync, BspLockCounter,
           BspWaitForAp, BspAllSignalled, BspReleaseAp, BspMtrrs, BspAcquireOwnBusy,
           SmmCoreReturns, ScheduleProcedure, ProcedureReturned, BspDrain, BspAllPresent,
           BspFlagOutside, BspSetEffectiveMode, SmmCpuUpdate, BspAbsent, BspResign,
           BspOpenCounter, BspDropSync, ArrivalDone, BspArrivalLoopEnds, Loop, StartLoop,
           WaitForAllAPs, WaitLabels, Step, At, Goto, syncVars, electVars, modeVars, mtrrVars,
           platVars, dataVars, taskVars, hwVars, entryVars, bspVars, stackVars, memory, notSync,
           notStack, notData, TypeOK, PcType, StackType, SealedLabels, BspCoreLabels, StageInv,
           In
  <2>4. ~In(c, {"b_ipi"})'
    BY <1>4
       DEF BSPHandler, BspFlagInside, BspPresent, BspClearSmiStatus, BspAllArrived,
           BspArrivalTimeout, BspLookForMissing, BspSendSmiIpis, BspRaiseSync, BspLockCounter,
           BspWaitForAp, BspAllSignalled, BspReleaseAp, BspMtrrs, BspAcquireOwnBusy,
           SmmCoreReturns, ScheduleProcedure, ProcedureReturned, BspDrain, BspAllPresent,
           BspFlagOutside, BspSetEffectiveMode, SmmCpuUpdate, BspAbsent, BspResign,
           BspOpenCounter, BspDropSync, ArrivalDone, BspArrivalLoopEnds, Loop, StartLoop,
           WaitForAllAPs, WaitLabels, Step, At, Goto, TypeOK, PcType, In
  <2>5. pc'[c] \in CountedLabels \/ pc'[c] = "b_unsync"
    BY <1>4
       DEF BSPHandler, BspFlagInside, BspPresent, BspClearSmiStatus, BspAllArrived,
           BspArrivalTimeout, BspLookForMissing, BspSendSmiIpis, BspRaiseSync, BspLockCounter,
           BspWaitForAp, BspAllSignalled, BspReleaseAp, BspMtrrs, BspAcquireOwnBusy,
           SmmCoreReturns, ScheduleProcedure, ProcedureReturned, BspDrain, BspAllPresent,
           BspFlagOutside, BspSetEffectiveMode, SmmCpuUpdate, BspAbsent, BspResign,
           BspOpenCounter, BspDropSync, ArrivalDone, BspArrivalLoopEnds, Loop, StartLoop,
           WaitForAllAPs, WaitLabels, Step, At, Goto, TypeOK, PcType, CountedLabels, BspLabels,
           BspGatherLabels, BspCoreLabels, BspExitLabels, BspResetLabels
  <2>6. In(c, SealedLabels)' \/ inWorker'[c] =>
          (Gathers(c) /\ LockedBsp(c) => LockedBsp(c)')
    BY <1>4, <2>2
       DEF BSPHandler, BspFlagInside, BspPresent, BspClearSmiStatus, BspAllArrived,
           BspArrivalTimeout, BspLookForMissing, BspSendSmiIpis, BspRaiseSync, BspLockCounter,
           BspWaitForAp, BspAllSignalled, BspReleaseAp, BspMtrrs, BspAcquireOwnBusy,
           SmmCoreReturns, ScheduleProcedure, ProcedureReturned, BspDrain, BspAllPresent,
           BspFlagOutside, BspSetEffectiveMode, SmmCpuUpdate, BspAbsent, BspResign,
           BspOpenCounter, BspDropSync, ArrivalDone, BspArrivalLoopEnds, Loop, StartLoop,
           WaitForAllAPs, WaitLabels, Step, At, Goto, syncVars, electVars, modeVars, mtrrVars,
           platVars, dataVars, taskVars, hwVars, entryVars, bspVars, stackVars, memory, notSync,
           notStack, notData, TypeOK, PcType, StackType, SealedLabels, LockedBsp, MtrrLabels,
           Gathers, BspLabels, BspGatherLabels, BspCoreLabels, BspExitLabels, BspResetLabels, In
  <2> QED
    BY <2>1, <2>2, <2>3, <2>4, <2>5, <2>6, HeldLeads
       DEF Sealed, Gathers, In, SealedLabels, BspCoreLabels, StageInv, ArrivalLabels
<1> QED
  BY <1>1, <1>2, <1>3, <1>4

\* A call of an SMI handler keeps HeldInv.
LEMMA SmiHandlersKeepHeld ==
  ASSUME TypeOK, OneBsp, RunInv, RunInv', HeldInv, NEW c \in Cpu, SmiHandlers(c)
  PROVE  HeldInv'
<1> USE DEF RunInv
<1>1. Leads(c)
  BY LeadSteps
     DEF SmiHandlers, SmmStartupThisAp, SmmSwitchBsp, SmmCpuSync2SendSmi, SmmSyncSetMode,
         SmmCpuSyncCheckApArrival, SmmCpuSync2SendSmiAllExcludingSelf, Call, BspDropSync, Step,
         At
<1>2. UNCHANGED syncMode /\ \A b \in Cpu : smiPending[b] => smiPending'[b]
  BY DEF SmiHandlers, SmmStartupThisAp, SmmSwitchBsp, SmmCpuSync2SendSmi, SmmSyncSetMode,
         SmmCpuSyncCheckApArrival, SmmCpuSync2SendSmiAllExcludingSelf, Call, SendSmiIpi,
         syncVars, electVars, modeVars, mtrrVars, platVars, dataVars, taskVars, hwVars,
         entryVars, bspVars, stackVars, memory, notSync, notStack, notData, TypeOK, HardwareType
<1>3. pc[c] = "b_core" /\ (pc'[c] \in BspCoreLabels \/ (pc'[c] = "b_arrive1" /\ inWorker'[c]))
  BY DEF SmiHandlers, SmmStartupThisAp, SmmSwitchBsp, SmmCpuSync2SendSmi, SmmSyncSetMode,
         SmmCpuSyncCheckApArrival, SmmCpuSync2SendSmiAllExcludingSelf, Call, Step, At, Goto,
         syncVars, electVars, modeVars, mtrrVars, platVars, dataVars, taskVars, hwVars,
         entryVars, bspVars, stackVars, memory, notSync, notStack, notData, TypeOK, PcType,
         StackType, BspCoreLabels
<1> QED
  BY <1>1, <1>2, <1>3, HeldLeads
     DEF Sealed, SealedLabels, LockedBsp, CountedLabels, Gathers, In, BspLabels, BspGatherLabels,
         BspCoreLabels, BspExitLabels, BspResetLabels

\* SyncInv and HeldInv are invariants of the rendezvous without BSP election.
THEOREM SyncInvariant ==
  ASSUME ~GiveUpRace, ~BspElection
  PROVE  Spec => [](SyncInv /\ HeldInv)
<1>1. Init => SyncInv /\ HeldInv
  BY DEF Init, SyncInv, HeldInv, Sealed, In, SealedLabels, BspLabels, BspGatherLabels,
         BspCoreLabels, BspExitLabels, BspResetLabels
<1>2. ASSUME TypeOK, OneBsp, RunInv, RunInv', SyncInv, HeldInv, [Next]_vars PROVE SyncInv'
      /\ HeldInv'
  <2>1. CASE RaiseSmi \/ Idle \/ UNCHANGED vars
    <3>1. UNCHANGED <<pc, allCpusInSync, bspIndex, inWorker, syncMode,
                      index>> /\ \A c \in Cpu : smiPending[c] => smiPending'[c]
      BY <2>1
         DEF RaiseSmi, Idle, vars, syncVars, electVars, modeVars, mtrrVars, platVars, dataVars,
             taskVars, hwVars, entryVars, bspVars, stackVars, memory, notSync, notStack, notData
    <3> QED
      BY <1>2, <3>1 DEF SyncInv, HeldInv, Sealed, Held, HeldLabels, Gathers, LockedBsp, In
  <2> QED
    BY <1>2, <2>1, SmiRendezvousKeepsSync, APHandlerKeepsSync, BSPHandlerKeepsSync,
       SmiHandlersKeepSync,
       SmiRendezvousKeepsHeld, APHandlerKeepsHeld, BSPHandlerKeepsHeld,
       SmiHandlersKeepHeld DEF Next
<1> QED
  BY <1>1, <1>2, RunInvariant, TypeCorrect, OneBspHolds, PTL DEF Spec

\* A processor that is held is not in normal mode without an SMI latched.
LEMMA HeldFacts ==
  ASSUME TypeOK, RunInv, HeldInv
  PROVE  NoNormalModeCode
<1> USE DEF RunInv
<1>1. SUFFICES ASSUME NEW b \in Cpu, NEW c \in Cpu, In(c, {"os", "exit"}), ~smiPending[c],
                      \/ /\ Gathers(b)
                         /\ In(b, BspCoreLabels \cup {"b_sync", "b_lock", "b_wait_arrive",
                                    "b_busy", "b_drain", "b_outside"})
                      \/ In(b, {"b_core"}) /\ AllCpusInSmmWithExceptions
               PROVE  FALSE
  BY DEF NoNormalModeCode
<1>2. ~In(c, CountedLabels) /\ ~Held(b, c)
  BY <1>1
     DEF In, Held, HeldLabels, CountedLabels, JoiningLabels, ApLabels, BspLabels,
         BspGatherLabels, BspCoreLabels, BspExitLabels, BspResetLabels
<1>3. ~Sealed(b, c)
  BY <1>2 DEF HeldInv
<1>4. AllCpusInSmmWithExceptions
  BY <1>1, <1>3 DEF Sealed, In, SealedLabels
<1>5. CASE counter = NumberOfCpus
  <2>1. Number(pc, CountedLabels) = NumberOfCpus
    BY <1>5, CpuAssumption DEF CounterInv, Locked
  <2> QED
    BY <1>2, <2>1, EverybodyCounted, CpuAssumption DEF In
<1>6. CASE present[c]
  BY <1>2, <1>6 DEF PresentInv, In, PresentLabels, CountedLabels
<1> QED
  BY <1>4, <1>5, <1>6 DEF AllCpusInSmmWithExceptions

\* Who waits for AllCpusInSync to fall leaves when no gathered run is closed.
LEMMA LeavesOpenRun ==
  ASSUME TypeOK, SyncInv, [Next]_vars, NEW b \in Cpu, NEW c \in Cpu,
         In(c, {"excluded", "finished"}), pc'[c] = "exit"
  PROVE  ~In(b, BspLabels) \/ In(b, BeforeSync) \/ ~Gathers(b)
<1>1. ~UNCHANGED pc
  BY DEF In
<1>2. PICK m \in Cpu : EnterSmi(m) \/ SmiRendezvous(m) \/ APHandler(m) \/ BSPHandler(m)
      \/ SmiHandlers(m)
  BY <1>1 DEF Next, RaiseSmi, Idle, vars
<1>3. m = c
  BY <1>2, OneMoves DEF OnlyMoves, In
<1>4. EnterSmi(c) \/ SmiRendezvous(c)
  <2>1. APHandler(c) => ~In(c, {"excluded", "finished"})
    BY DEF APHandler, ApMarkPresent, ApPresent, ApTimeout1, ApCallBsp, ApNobodyToCall,
           ApTimeout2, ApGiveUp, ApSignal, ApWait, ApBackupMtrrs, ApReplaceOSMtrrs, ApCheckExit,
           ApRunProcedure, ApReleaseBusy, ApReady, ApAbsent, DecideToGiveUp, GiveUp, Step, At, In
  <2>2. BSPHandler(c) => ~In(c, {"excluded", "finished"})
    BY DEF BSPHandler, BspFlagInside, BspPresent, BspClearSmiStatus, BspAllArrived,
           BspArrivalTimeout, BspLookForMissing, BspSendSmiIpis, BspRaiseSync, BspLockCounter,
           BspWaitForAp, BspAllSignalled, BspReleaseAp, BspMtrrs, BspAcquireOwnBusy,
           SmmCoreReturns, ScheduleProcedure, ProcedureReturned, BspDrain, BspAllPresent,
           BspFlagOutside, BspSetEffectiveMode, SmmCpuUpdate, BspAbsent, BspResign,
           BspOpenCounter, BspDropSync, ArrivalDone, BspArrivalLoopEnds, Loop, StartLoop,
           WaitForAllAPs, WaitLabels, Step, At, In
  <2>3. SmiHandlers(c) => ~In(c, {"excluded", "finished"})
    BY DEF SmiHandlers, SmmStartupThisAp, SmmSwitchBsp, SmmCpuSync2SendSmi, SmmSyncSetMode,
           SmmCpuSyncCheckApArrival, SmmCpuSync2SendSmiAllExcludingSelf, Call, Step, At, In
  <2> QED
    BY <1>2, <1>3, <2>1, <2>2, <2>3
<1>5. ~allCpusInSync
  BY <1>4
     DEF EnterSmi, SmiRendezvous, SampleValidSmi, SampleBspInProgress, CheckIn, WaitForEndOfRun,
         LeaveSmm, InitializeBusy, Stand, ElectBsp, BecomeBsp, BecomeAp, ReadSyncMode, Step, At,
         Goto, EndOfRun, In
<1> QED
  BY <1>5 DEF SyncInv, In

-----------------------------------------------------------------------------
(***************************************************************************)
(* Switching the BSP.                                                       *)
(***************************************************************************)

\* SwitchBsp and the candidates change when nobody can be between the test
\* and the compare-exchange, or the test cannot fail any more.
LEMMA CasSteps ==
  ASSUME TypeOK, RunInv, CasInv, [Next]_vars
  PROVE  CasInv'
<1> DEFINE Switch == (switchBsp' = switchBsp /\ candidateBsp' = candidateBsp) \/ ~switchBsp'
<1> DEFINE Candidates == \A c \in Cpu : pc'[c] = "cas" => pc[c] = "cas" \/ ~switchBsp
    \/ candidateBsp[c]
<1>1. CASE \E c \in Cpu : SmmCpuUpdate(c)
  <2>1. PICK b \in Cpu : SmmCpuUpdate(b)
    BY <1>1
  <2>2. Closed(b) /\ pc' = [pc EXCEPT ![b] = "b_absent"]
    BY <2>1 DEF SmmCpuUpdate, Step, At, Goto, Closed, In, BspResetLabels
  <2>3. \A c \in Cpu : pc'[c] # "cas"
    BY <2>2 DEF RunInv, NoJoiners, In, DueArrive, JoiningLabels, TypeOK, PcType
  <2> QED
    BY <2>3 DEF CasInv, In
<1>2. CASE \A c \in Cpu : ~SmmCpuUpdate(c)
  <2>1. Switch
    <3>1. CASE RaiseSmi \/ Idle \/ UNCHANGED vars
      BY <3>1
         DEF RaiseSmi, Idle, vars, syncVars, electVars, modeVars, mtrrVars, platVars, dataVars,
             taskVars, hwVars, entryVars, bspVars, stackVars, memory, notSync, notStack, notData
    <3>2. ASSUME NEW c \in Cpu, EnterSmi(c) \/ SmiRendezvous(c) PROVE Switch
      BY <3>2
         DEF EnterSmi, SmiRendezvous, SampleValidSmi, SampleBspInProgress, CheckIn,
             WaitForEndOfRun, LeaveSmm, InitializeBusy, Stand, ElectBsp, BecomeBsp, BecomeAp,
             ReadSyncMode, syncVars, electVars, modeVars, mtrrVars, platVars, dataVars, taskVars,
             hwVars, entryVars, bspVars, stackVars, memory, notSync, notStack, notData
    <3>3. ASSUME NEW c \in Cpu, APHandler(c) PROVE Switch
      BY <3>3
         DEF APHandler, ApMarkPresent, ApPresent, ApTimeout1, ApCallBsp, ApNobodyToCall,
             ApTimeout2, ApGiveUp, ApSignal, ApWait, ApBackupMtrrs, ApReplaceOSMtrrs,
             ApCheckExit, ApRunProcedure, ApReleaseBusy, ApReady, ApAbsent, DecideToGiveUp,
             GiveUp, syncVars, electVars, modeVars, mtrrVars, platVars, dataVars, taskVars,
             hwVars, entryVars, bspVars, stackVars, memory, notSync, notStack, notData
    <3>4. ASSUME NEW c \in Cpu, BSPHandler(c) PROVE Switch
      BY <1>2, <3>4
         DEF BSPHandler, BspFlagInside, BspPresent, BspClearSmiStatus, BspAllArrived,
             BspArrivalTimeout, BspLookForMissing, BspSendSmiIpis, BspRaiseSync, BspLockCounter,
             BspWaitForAp, BspAllSignalled, BspReleaseAp, BspMtrrs, BspAcquireOwnBusy,
             SmmCoreReturns, ScheduleProcedure, ProcedureReturned, BspDrain, BspAllPresent,
             BspFlagOutside, BspSetEffectiveMode, SmmCpuUpdate, BspAbsent, BspResign,
             BspOpenCounter, BspDropSync, ArrivalDone, BspArrivalLoopEnds, Loop, StartLoop,
             WaitForAllAPs, WaitLabels, syncVars, electVars, modeVars, mtrrVars, platVars,
             dataVars, taskVars, hwVars, entryVars, bspVars, stackVars, memory, notSync,
             notStack, notData
    <3>5. ASSUME NEW c \in Cpu, SmiHandlers(c) PROVE Switch
      BY <3>5
         DEF SmiHandlers, SmmStartupThisAp, SmmSwitchBsp, SmmCpuSync2SendSmi, SmmSyncSetMode,
             SmmCpuSyncCheckApArrival, SmmCpuSync2SendSmiAllExcludingSelf, Call, syncVars,
             electVars, modeVars, mtrrVars, platVars, dataVars, taskVars, hwVars, entryVars,
             bspVars, stackVars, memory, notSync, notStack, notData
    <3> QED
      BY <3>1, <3>2, <3>3, <3>4, <3>5 DEF Next
  <2>2. Candidates
    <3>1. CASE RaiseSmi \/ Idle \/ UNCHANGED vars
      BY <3>1 DEF RaiseSmi, Idle, vars
    <3>2. ASSUME NEW m \in Cpu, EnterSmi(m) \/ SmiRendezvous(m) PROVE Candidates
      BY <3>2
         DEF EnterSmi, SmiRendezvous, SampleValidSmi, SampleBspInProgress, CheckIn,
             WaitForEndOfRun, LeaveSmm, InitializeBusy, Stand, ElectBsp, BecomeBsp, BecomeAp,
             ReadSyncMode, Step, At, Goto, MayStand, TypeOK, PcType
    <3>3. ASSUME NEW m \in Cpu, APHandler(m) PROVE Candidates
      BY <3>3
         DEF APHandler, ApMarkPresent, ApPresent, ApTimeout1, ApCallBsp, ApNobodyToCall,
             ApTimeout2, ApGiveUp, ApSignal, ApWait, ApBackupMtrrs, ApReplaceOSMtrrs,
             ApCheckExit, ApRunProcedure, ApReleaseBusy, ApReady, ApAbsent, DecideToGiveUp,
             GiveUp, Step, At, Goto, TypeOK, PcType
    <3>4. ASSUME NEW m \in Cpu, BSPHandler(m) PROVE Candidates
      BY <3>4
         DEF BSPHandler, BspFlagInside, BspPresent, BspClearSmiStatus, BspAllArrived,
             BspArrivalTimeout, BspLookForMissing, BspSendSmiIpis, BspRaiseSync, BspLockCounter,
             BspWaitForAp, BspAllSignalled, BspReleaseAp, BspMtrrs, BspAcquireOwnBusy,
             SmmCoreReturns, ScheduleProcedure, ProcedureReturned, BspDrain, BspAllPresent,
             BspFlagOutside, BspSetEffectiveMode, SmmCpuUpdate, BspAbsent, BspResign,
             BspOpenCounter, BspDropSync, ArrivalDone, BspArrivalLoopEnds, Loop, StartLoop,
             WaitForAllAPs, WaitLabels, Step, At, Goto, TypeOK, PcType
    <3>5. ASSUME NEW m \in Cpu, SmiHandlers(m) PROVE Candidates
      BY <3>5
         DEF SmiHandlers, SmmStartupThisAp, SmmSwitchBsp, SmmCpuSync2SendSmi, SmmSyncSetMode,
             SmmCpuSyncCheckApArrival, SmmCpuSync2SendSmiAllExcludingSelf, Call, Step, At, Goto,
             TypeOK, PcType
    <3> QED
      BY <3>1, <3>2, <3>3, <3>4, <3>5 DEF Next
  <2> QED
    BY <2>1, <2>2 DEF CasInv, In
<1> QED
  BY <1>1, <1>2

\* Only the compare-exchange of the election sets BspIndex.
LEMMA ElectsCandidate ==
  ASSUME TypeOK, CasInv, [Next]_vars, NEW c \in Cpu, bspIndex = NoBsp, bspIndex' = c, switchBsp
  PROVE  candidateBsp[c]
<1>1. bspIndex' # bspIndex /\ bspIndex' # NoBsp
  BY CpuAssumption DEF Cpu, NoBsp
<1>2. CASE RaiseSmi \/ Idle \/ UNCHANGED vars
  BY <1>1, <1>2
     DEF RaiseSmi, Idle, vars, syncVars, electVars, modeVars, mtrrVars, platVars, dataVars,
         taskVars, hwVars, entryVars, bspVars, stackVars, memory, notSync, notStack, notData
<1>3. ASSUME NEW m \in Cpu, EnterSmi(m) \/ SmiRendezvous(m) PROVE candidateBsp[c]
  <2>1. ElectBsp(m)
    BY <1>1, <1>3
       DEF EnterSmi, SmiRendezvous, SampleValidSmi, SampleBspInProgress, CheckIn,
           WaitForEndOfRun, LeaveSmm, InitializeBusy, Stand, BecomeBsp, BecomeAp, ReadSyncMode,
           syncVars, electVars, modeVars, mtrrVars, platVars, dataVars, taskVars, hwVars,
           entryVars, bspVars, stackVars, memory, notSync, notStack, notData
  <2> QED
    BY <2>1 DEF ElectBsp, FirstCandidateWins, Step, At, CasInv, In
<1>4. ASSUME NEW m \in Cpu, APHandler(m) PROVE FALSE
  BY <1>1, <1>4
     DEF APHandler, ApMarkPresent, ApPresent, ApTimeout1, ApCallBsp, ApNobodyToCall, ApTimeout2,
         ApGiveUp, ApSignal, ApWait, ApBackupMtrrs, ApReplaceOSMtrrs, ApCheckExit,
         ApRunProcedure, ApReleaseBusy, ApReady, ApAbsent, DecideToGiveUp, GiveUp, syncVars,
         electVars, modeVars, mtrrVars, platVars, dataVars, taskVars, hwVars, entryVars, bspVars,
         stackVars, memory, notSync, notStack, notData
<1>5. ASSUME NEW m \in Cpu, BSPHandler(m) PROVE FALSE
  BY <1>1, <1>5
     DEF BSPHandler, BspFlagInside, BspPresent, BspClearSmiStatus, BspAllArrived,
         BspArrivalTimeout, BspLookForMissing, BspSendSmiIpis, BspRaiseSync, BspLockCounter,
         BspWaitForAp, BspAllSignalled, BspReleaseAp, BspMtrrs, BspAcquireOwnBusy,
         SmmCoreReturns, ScheduleProcedure, ProcedureReturned, BspDrain, BspAllPresent,
         BspFlagOutside, BspSetEffectiveMode, SmmCpuUpdate, BspAbsent, BspResign, BspOpenCounter,
         BspDropSync, ArrivalDone, BspArrivalLoopEnds, Loop, StartLoop, WaitForAllAPs,
         WaitLabels, syncVars, electVars, modeVars, mtrrVars, platVars, dataVars, taskVars,
         hwVars, entryVars, bspVars, stackVars, memory, notSync, notStack, notData
<1>6. ASSUME NEW m \in Cpu, SmiHandlers(m) PROVE FALSE
  BY <1>1, <1>6
     DEF SmiHandlers, SmmStartupThisAp, SmmSwitchBsp, SmmCpuSync2SendSmi, SmmSyncSetMode,
         SmmCpuSyncCheckApArrival, SmmCpuSync2SendSmiAllExcludingSelf, Call, syncVars, electVars,
         modeVars, mtrrVars, platVars, dataVars, taskVars, hwVars, entryVars, bspVars, stackVars,
         memory, notSync, notStack, notData
<1> QED
  BY <1>2, <1>3, <1>4, <1>5, <1>6 DEF Next

-----------------------------------------------------------------------------
(***************************************************************************)
(* The theorems.                                                            *)
(***************************************************************************)

\* Until the BSP locks it Counter is the number of processors that have
\* checked in and neither given up nor finished, whatever their number and
\* order (SmiRendezvous, APHandler).
THEOREM CounterCountsHolds ==
  ASSUME ~GiveUpRace
  PROVE  Spec => []CounterCounts
BY RunInvariant, RunCounterCounts, PTL

\* ReleaseAllAPs, which goes by Present, and WaitForAllAPs, which goes by
\* ApCount, are about the same processors.
THEOREM PresentAreCountedHolds ==
  ASSUME ~GiveUpRace
  PROVE  Spec => []PresentAreCounted
BY RunInvariant, OneBspHolds, RunPresentAreCounted, PTL

\* When BSPHandler resets Counter every AP of the run has left it.
THEOREM ReopenedEmptyHolds ==
  ASSUME ~GiveUpRace
  PROVE  Spec => []ReopenedEmpty
BY RunInvariant, RunReopenedEmpty, PTL

\* ASSERT (CpuData[CpuIndex].Run == 0) at the end of SmiRendezvous holds:
\* every signal of a run is taken in that run.
THEOREM NoSignalLeftOverHolds ==
  ASSUME ~GiveUpRace
  PROVE  Spec => []NoSignalLeftOver
BY RunInvariant, RunNoSignalLeftOver, PTL

\* An AP runs with the sync mode of the BSP it serves, although each reads
\* EffectiveSyncMode by itself.
THEOREM ModesAgreeHolds ==
  ASSUME ~GiveUpRace
  PROVE  Spec => []ModesAgree
<1>1. RunInv => ModesAgree
  BY DEF RunInv
<1> QED
  BY <1>1, RunInvariant, PTL

\* A procedure that SmmStartupThisAp schedules is run once, and before the
\* BSP lets the APs go.
THEOREM ScheduledOnceHolds ==
  ASSUME ~GiveUpRace
  PROVE  Spec => []ScheduledOnce
BY RunInvariant, ProcedureInvariant, TypeCorrect, OneBspHolds, ProcedureFacts, PTL

\* The ASSERT of APHandler holds: Busy is acquired while the AP runs its
\* procedure, one it has not run before.
THEOREM BusyGuardsProcedureHolds ==
  ASSUME ~GiveUpRace
  PROVE  Spec => []BusyGuardsProcedure
BY RunInvariant, ProcedureInvariant, TypeCorrect, OneBspHolds, ProcedureFacts, PTL

\* SmmBlockingStartupThisAp returns after the procedure has run.
THEOREM BlockingCallReturnsAfterHolds ==
  ASSUME ~GiveUpRace
  PROVE  Spec => BlockingCallReturnsAfter
<1> DEFINE Returns == \A b \in Cpu : In(b, {"b_block"}) /\ pc'[b] = "b_core" =>
                                       executions[procedure[index[b]]] = 1
<1>1. ASSUME TypeOK, OneBsp, RunInv, ProcedureInv, [Next]_vars PROVE [Returns]_vars
  BY <1>1, ReturnsAfter
<1> QED
  BY <1>1, RunInvariant, ProcedureInvariant, TypeCorrect, OneBspHolds, PTL
     DEF Spec, BlockingCallReturnsAfter

\* Whatever processors share a core, the OS settings are the ones saved, the
\* handlers run with the SMM settings, and no AP is released before all are
\* restored.
THEOREM MtrrPhasesHolds ==
  ASSUME ~GiveUpRace
  PROVE  Spec => []MtrrPhases
BY RunInvariant, MtrrInvariant, TypeCorrect, OneBspHolds, MtrrFacts, PTL

\* "No AP will execute normal mode code" (SmmWaitForApArrival) while the
\* handlers run, with a fixed BSP.
THEOREM NoNormalModeCodeHolds ==
  ASSUME ~GiveUpRace, ~BspElection
  PROVE  Spec => []NoNormalModeCode
BY RunInvariant, SyncInvariant, TypeCorrect, HeldFacts, PTL

\* A processor that waits for AllCpusInSync does not leave SMM in a closed
\* run, with a fixed BSP.
THEOREM NobodyLeavesClosedRunHolds ==
  ASSUME ~GiveUpRace, ~BspElection
  PROVE  Spec => NobodyLeavesClosedRun
<1> DEFINE Leaves == \A b, c \in Cpu :
       In(c, {"excluded", "finished"}) /\ pc'[c] = "exit" =>
         ~In(b, BspLabels) \/ In(b, {"b_inside", "b_present", "b_clear",
           "b_arrive1", "b_missing", "b_ipi", "b_arrive2", "b_sync"})
           \/ ~Gathers(b)
<1>1. ASSUME TypeOK, SyncInv, [Next]_vars PROVE [Leaves]_vars
  BY <1>1, LeavesOpenRun DEF BeforeSync
<1> QED
  BY <1>1, SyncInvariant, TypeCorrect, PTL DEF Spec, NobodyLeavesClosedRun

\* While a switch of the BSP is pending only a candidate is elected.
THEOREM SwitchHonouredHolds ==
  ASSUME ~GiveUpRace
  PROVE  Spec => SwitchHonoured
<1> DEFINE Honours == \A c \in Cpu : bspIndex = NoBsp /\ bspIndex' = c /\ switchBsp =>
                                       candidateBsp[c]
<1>1. Init => CasInv
  BY DEF Init, CasInv
<1>2. ASSUME TypeOK, CasInv, [Next]_vars PROVE [Honours]_vars
  BY <1>2, ElectsCandidate
<1> QED
  BY <1>1, <1>2, RunInvariant, TypeCorrect, CasSteps, PTL DEF Spec, SwitchHonoured
=============================================================================
