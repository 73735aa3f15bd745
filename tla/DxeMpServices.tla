--------------------------- MODULE DxeMpServices ---------------------------
(***************************************************************************)
(* The MP services of the DXE phase, CpuInit/MpService.c: the BSP hands     *)
(* procedures to halted application processors with INIT-SIPI-SIPI and      *)
(* polls their State; a call that runs out of time leaves a periodic timer  *)
(* behind whose callback goes on polling and signals the caller's event.    *)
(*                                                                         *)
(* The BSP runs two contexts: the mainline, and the callback (TPL_CALLBACK) *)
(* that interrupts it anywhere and runs to its end first.  The APs run at   *)
(* the same time as both.  A section under StateLock is one step, as is the *)
(* BSP's section under ProcedureLock; an AP's section under ProcedureLock   *)
(* is two steps, since an INIT may hit the AP inside it.                     *)
(***************************************************************************)
EXTENDS Integers, FiniteSets

CONSTANTS
  NumberOfCpus,    \* processor 0 is the BSP (SwitchBSP is not modelled)
  Timely,          \* an AP that is woken needs more time than the pass of the
                   \* loop that wakes it, and less than a polling interval
  Overlap,         \* callers may call while the timer of a call is armed
  MaxCalls         \* bound: calls in a behaviour

ASSUME CpuAssumption == NumberOfCpus \in Nat /\ NumberOfCpus > 1
ASSUME CallerAssumption == Timely \in BOOLEAN /\ Overlap \in BOOLEAN
ASSUME BoundAssumption == MaxCalls \in Nat

AP  == 1 .. NumberOfCpus - 1
Ctx == {"main", "callback"}

VARIABLES
  (* mMPSystemData *)
  state,             \* CpuData[].State
  procedure,         \* CpuData[].Procedure: the number of a call, 0 is NULL
  procedureLock,     \* CpuData[].ProcedureLock, held by its AP
  startCount, finishCount,
  savedProcedure, savedSingle,     \* Procedure, SingleThread
  startedCpu,        \* StartedCpuNumber
  waitEvent,         \* WaitEvent: the call whose caller waits for it
  checkAll, checkThis,             \* the two timers are armed
  (* the APs *)
  ap,                \* where each AP is
  apProcedure,       \* its local Procedure
  (* the BSP *)
  pc,                \* where each context is
  cpu,               \* CpuNumber in each context
  next,              \* NextCpuNumber in the callback
  single, timed,     \* the mainline call's SingleThread and finite timeout
  (* history *)
  calls, targets,    \* calls made, the APs each one has started
  ran,               \* how often an AP has run the procedure of a call
  completed          \* calls that returned EFI_SUCCESS or had their event signalled

dataVars  == <<state, procedure, procedureLock>>
countVars == <<startCount, finishCount>>
savedVars == <<savedProcedure, savedSingle, startedCpu, waitEvent, checkAll, checkThis>>
apVars    == <<ap, apProcedure, ran>>
ctxVars   == <<pc, cpu, next>>
callVars  == <<single, timed, calls, targets>>
vars == <<dataVars, countVars, savedVars, apVars, ctxVars, callVars, completed>>

Init ==
  /\ state = [a \in AP |-> "IDLE"]
  /\ procedure = [a \in AP |-> 0]
  /\ procedureLock = [a \in AP |-> FALSE]
  /\ startCount = 0 /\ finishCount = 0
  /\ savedProcedure = 0 /\ savedSingle = FALSE
  /\ startedCpu = 1 /\ waitEvent = 0
  /\ checkAll = FALSE /\ checkThis = FALSE
  /\ ap = [a \in AP |-> "halt"] /\ apProcedure = [a \in AP |-> 0]
  /\ pc = [x \in Ctx |-> "off"] /\ cpu = [x \in Ctx |-> 1] /\ next = 1
  /\ single = FALSE /\ timed = FALSE
  /\ calls = 0 /\ targets = [p \in 1 .. MaxCalls |-> {}]
  /\ ran = [p \in 1 .. MaxCalls |-> [a \in AP |-> 0]]
  /\ completed = {}

\* The mainline runs only while the callback does not.
At(x, label) == pc[x] = label /\ (x = "main" => pc["callback"] = "off")
Goto(x, label) == pc' = [pc EXCEPT ![x] = label]
Step(x, from, to) == At(x, from) /\ Goto(x, to)

\* CpuNumber++ in a loop over the APs, which goes on at "again" or "end".
NextCpuUnchecked(x, again, end) ==
  cpu' = [cpu EXCEPT ![x] = @ + 1] /\ Goto(x, again)
NextCpu(x, again, end) ==
  IF cpu[x] = NumberOfCpus - 1
  THEN cpu' = [cpu EXCEPT ![x] = 1] /\ Goto(x, end)
  ELSE cpu' = [cpu EXCEPT ![x] = @ + 1] /\ Goto(x, again)

SetState(a, s) == state' = [state EXCEPT ![a] = s]

\* A State that stays FINISHED is counted twice.
StaysFinished(a) == UNCHANGED state
BackToIdle(a)    == SetState(a, "IDLE")

NotBusy(a)  == state[a] # "BUSY"
Finished(a) == state[a] = "FINISHED"

(***************************************************************************)
(* Timing.  APs on their way from INIT to BUSY, the loops' passes.          *)
(***************************************************************************)
Waking == {a \in AP : ap[a] \in {"boot", "fetch", "setbusy"}}
InPass == \E x \in Ctx : pc[x] \notin {"off", "t_poll", "a_end"}
MayStartPass == Timely => Waking = {}

(***************************************************************************)
(* ApProcWrapper, and the halt loop of the start-up code around it.         *)
(***************************************************************************)
ApAcquire(a) ==
  /\ ~procedureLock[a]
  /\ procedureLock' = [procedureLock EXCEPT ![a] = TRUE]
  /\ \/ ap[a] = "boot" /\ (Timely => ~InPass) /\ ap' = [ap EXCEPT ![a] = "fetch"]
     \/ ap[a] = "clear" /\ ap' = [ap EXCEPT ![a] = "clearing"]
  /\ UNCHANGED <<state, procedure, apProcedure, ran, countVars, savedVars,
                 ctxVars, callVars, completed>>

ApFetchProcedure(a) ==
  /\ ap[a] = "fetch"
  /\ procedureLock' = [procedureLock EXCEPT ![a] = FALSE]
  /\ apProcedure' = [apProcedure EXCEPT ![a] = procedure[a]]
  /\ ap' = [ap EXCEPT ![a] = IF procedure[a] = 0 THEN "halt" ELSE "setbusy"]
  /\ UNCHANGED <<state, procedure, ran, countVars, savedVars, ctxVars,
                 callVars, completed>>

ApSetState(a) ==
  /\ \/ /\ ap[a] = "setbusy"
        /\ SetState(a, "BUSY") /\ ap' = [ap EXCEPT ![a] = "run"]
     \/ /\ ap[a] = "setfinished"
        /\ SetState(a, "FINISHED") /\ ap' = [ap EXCEPT ![a] = "halt"]
  /\ UNCHANGED <<procedure, procedureLock, apProcedure, ran, countVars,
                 savedVars, ctxVars, callVars, completed>>

\* Procedure (Parameter) returns.
ApProcedure(a) ==
  /\ ap[a] = "run"
  /\ ap' = [ap EXCEPT ![a] = "clear"]
  /\ ran' = [ran EXCEPT ![apProcedure[a]][a] = @ + 1]
  /\ UNCHANGED <<dataVars, apProcedure, countVars, savedVars, ctxVars,
                 callVars, completed>>

ApClearProcedure(a) ==
  /\ ap[a] = "clearing"
  /\ procedure' = [procedure EXCEPT ![a] = 0]
  /\ procedureLock' = [procedureLock EXCEPT ![a] = FALSE]
  /\ ap' = [ap EXCEPT ![a] = "setfinished"]
  /\ UNCHANGED <<state, apProcedure, ran, countVars, savedVars, ctxVars,
                 callVars, completed>>

(***************************************************************************)
(* WakeUpAp: the procedure is written, then INIT and SIPI are sent.  They   *)
(* restart the AP wherever it is, with ProcedureLock as it left it.         *)
(***************************************************************************)
WriteProcedure(a, p) ==
  /\ ~procedureLock[a]
  /\ procedure' = [procedure EXCEPT ![a] = p]

InitSipi(a) ==
  /\ ap' = [ap EXCEPT ![a] = "boot"]
  /\ apProcedure' = [apProcedure EXCEPT ![a] = 0]

WakeUpAp(x) ==
  \/ /\ \/ /\ Step(x, "t_wake", "t_init") /\ WriteProcedure(cpu[x], calls)
        \/ /\ Step(x, "a_wake", "a_init") /\ WriteProcedure(cpu[x], calls)
        \/ /\ Step(x, "c_wake", "c_init") /\ WriteProcedure(cpu[x], savedProcedure)
        \/ /\ Step(x, "n_wake", "n_init") /\ WriteProcedure(next, savedProcedure)
     /\ UNCHANGED <<cpu, next, state, procedureLock, countVars, savedVars,
                    apVars, callVars, completed>>
  \/ /\ \/ Step(x, "t_init", "t_poll") /\ InitSipi(cpu[x]) /\ UNCHANGED cpu
        \/ At(x, "a_init") /\ InitSipi(cpu[x]) /\ NextCpu(x, "a_look", "a_end")
        \/ At(x, "c_init") /\ InitSipi(cpu[x]) /\ NextCpu(x, "c_look", "c_end")
        \/ Step(x, "n_init", "c_idle") /\ InitSipi(next) /\ UNCHANGED cpu
     /\ UNCHANGED <<next, ran, dataVars, countVars, savedVars, callVars, completed>>

(***************************************************************************)
(* The calls.  Between calls nothing is left to do when callers wait for    *)
(* the event of a call that timed out (Overlap = FALSE).                    *)
(***************************************************************************)
Quiet == pc["main"] = "off" /\ pc["callback"] = "off" /\ ~checkAll /\ ~checkThis

MayCall == At("main", "off") /\ (Overlap \/ Quiet)

\* Zero means infinity; a finite time may be up at any look at the clock.
CalculateTimeout == timed' \in BOOLEAN
CheckTimeout     == timed

NewCall(aps) ==
  /\ MayCall /\ calls < MaxCalls
  /\ calls' = calls + 1
  /\ targets' = [targets EXCEPT ![calls + 1] = aps]
  /\ CalculateTimeout

\* The call returns EFI_SUCCESS.
Succeed == completed' = completed \cup {calls} /\ Goto("main", "off")

StartupThisAP(a) ==
  /\ NewCall({a})
  /\ state[a] = "IDLE"
  /\ startCount' = 1 /\ finishCount' = 0
  /\ cpu' = [cpu EXCEPT !["main"] = a]
  /\ Goto("main", "t_wake")
  /\ UNCHANGED <<next, single, dataVars, savedVars, apVars, completed>>

ThisApFinished ==
  /\ At("main", "t_poll")
  /\ Finished(cpu["main"])
  /\ BackToIdle(cpu["main"])
  /\ cpu' = [cpu EXCEPT !["main"] = 1]
  /\ Succeed
  /\ UNCHANGED <<next, procedure, procedureLock, countVars, savedVars, apVars,
                 callVars>>

\* EFI_TIMEOUT: the callback takes over.  The AP may have finished since the
\* mainline has last looked.
ThisApTimeout ==
  /\ At("main", "t_poll") /\ CheckTimeout
  /\ startedCpu' = cpu["main"] /\ waitEvent' = calls /\ checkThis' = TRUE
  /\ cpu' = [cpu EXCEPT !["main"] = 1]
  /\ Goto("main", "off")
  /\ UNCHANGED <<next, savedProcedure, savedSingle, checkAll, dataVars,
                 countVars, apVars, callVars, completed>>

\* The loop that prepares the APs, idle ones only, starts.
StartupAllAPs ==
  /\ NewCall({})
  /\ single' \in BOOLEAN
  /\ startCount' = 0 /\ finishCount' = 0
  /\ Goto("main", "a_prepare")
  /\ UNCHANGED <<cpu, next, dataVars, savedVars, apVars, completed>>

\* APInitialState: one AP is made ready first when SingleThread.
AlwaysReady    == "READY"
APInitialState == IF single /\ startCount > 0 THEN "BLOCKED" ELSE "READY"

PrepareAp ==
  LET a == cpu["main"] IN
  /\ At("main", "a_prepare")
  /\ \/ /\ state[a] = "IDLE"
        /\ SetState(a, APInitialState)
        /\ startCount' = startCount + 1
        /\ targets' = [targets EXCEPT ![calls] = @ \cup {a}]
     \/ /\ state[a] # "IDLE"
        /\ UNCHANGED <<state, startCount, targets>>
  /\ NextCpu("main", "a_prepare", "a_look")
  /\ UNCHANGED <<next, single, timed, calls, finishCount, procedure,
                 procedureLock, savedVars, apVars, completed>>

\* The polling loop of StartupAllAPs looks at an AP.
LookAtAp ==
  LET a == cpu["main"] IN
  /\ \/ Step("main", "a_look", "a_wake") /\ state[a] = "READY" /\ UNCHANGED cpu
     \/ Step("main", "a_look", "a_finished") /\ Finished(a) /\ UNCHANGED cpu
     \/ /\ At("main", "a_look") /\ state[a] # "READY" /\ ~Finished(a)
        /\ NextCpu("main", "a_look", "a_end")
  /\ UNCHANGED <<next, dataVars, countVars, savedVars, apVars, callVars, completed>>

\* GetNextBlockedCpuNumber: n is the first AP that is blocked.
BlockedButLast == {a \in 1 .. NumberOfCpus - 2 : state[a] = "BLOCKED"}
Blocked == {a \in AP : state[a] = "BLOCKED"}
GetNextBlockedCpuNumber(n) == n \in Blocked /\ \A b \in Blocked : n <= b

ApFinished ==
  LET a == cpu["main"] IN
  /\ At("main", "a_finished")
  /\ finishCount' = finishCount + 1
  /\ \/ /\ single
        /\ \E n \in AP : GetNextBlockedCpuNumber(n) /\ SetState(n, "READY")
        /\ Goto("main", "a_idle") /\ UNCHANGED cpu
     \/ /\ ~single \/ Blocked = {}
        /\ BackToIdle(a)
        /\ NextCpu("main", "a_look", "a_end")
  /\ UNCHANGED <<next, startCount, procedure, procedureLock, savedVars,
                 apVars, callVars, completed>>

ApIdle ==
  /\ At("main", "a_idle")
  /\ BackToIdle(cpu["main"])
  /\ NextCpu("main", "a_look", "a_end")
  /\ UNCHANGED <<next, procedure, procedureLock, countVars, savedVars, apVars,
                 callVars, completed>>

AllApsFinished ==
  /\ At("main", "a_end") /\ finishCount = startCount
  /\ Succeed
  /\ UNCHANGED <<cpu, next, dataVars, countVars, savedVars, apVars, callVars>>

PollAgain ==
  /\ Step("main", "a_end", "a_look") /\ finishCount # startCount
  /\ MayStartPass
  /\ UNCHANGED <<cpu, next, dataVars, countVars, savedVars, apVars, callVars,
                 completed>>

AllApsTimeout ==
  /\ Step("main", "a_end", "off") /\ finishCount # startCount
  /\ CheckTimeout
  /\ savedProcedure' = calls /\ savedSingle' = single
  /\ waitEvent' = calls /\ checkAll' = TRUE
  /\ UNCHANGED <<cpu, next, startedCpu, checkThis, dataVars, countVars, apVars,
                 callVars, completed>>

\* No State is refused.
ChangeCpuState(a, newState) == SetState(a, IF newState THEN "IDLE" ELSE "DISABLED")

EnableDisableAP(a, newState) ==
  /\ MayCall
  /\ ChangeCpuState(a, newState)
  /\ UNCHANGED <<procedure, procedureLock, countVars, savedVars, apVars,
                 ctxVars, callVars, completed>>

(***************************************************************************)
(* The timer callbacks.                                                     *)
(***************************************************************************)
\* The caller sees its event when the callback has returned.
CheckThisAPStatus ==
  /\ checkThis /\ pc["callback"] = "off"
  /\ Finished(startedCpu)
  /\ checkThis' = FALSE
  /\ completed' = completed \cup {waitEvent}
  /\ BackToIdle(startedCpu)
  /\ UNCHANGED <<procedure, procedureLock, savedProcedure, savedSingle,
                 startedCpu, waitEvent, checkAll, countVars, apVars, ctxVars,
                 callVars>>

CheckAllAPsStatus ==
  /\ checkAll /\ Step("callback", "off", "c_look")
  /\ MayStartPass
  /\ UNCHANGED <<cpu, next, dataVars, countVars, savedVars, apVars, callVars,
                 completed>>

CheckAp ==
  LET a == cpu["callback"] IN
  /\ \/ /\ Step("callback", "c_look", "c_wake") /\ state[a] = "READY"
        /\ UNCHANGED <<state, cpu, next>>
     \/ /\ Step("callback", "c_look", "n_wake")
        /\ Finished(a) /\ savedSingle
        /\ \E n \in AP : /\ GetNextBlockedCpuNumber(n) /\ ~procedureLock[n]
                         /\ SetState(n, "READY")
                         /\ next' = n
        /\ UNCHANGED cpu
     \/ /\ Step("callback", "c_look", "c_idle")
        /\ Finished(a) /\ (~savedSingle \/ Blocked = {})
        /\ UNCHANGED <<state, cpu, next>>
     \/ /\ At("callback", "c_look") /\ state[a] # "READY" /\ ~Finished(a)
        /\ NextCpu("callback", "c_look", "c_end")
        /\ UNCHANGED <<state, next>>
  /\ UNCHANGED <<procedure, procedureLock, countVars, savedVars, apVars,
                 callVars, completed>>

CheckedApFinished ==
  /\ At("callback", "c_idle")
  /\ BackToIdle(cpu["callback"])
  /\ finishCount' = finishCount + 1
  /\ NextCpu("callback", "c_look", "c_end")
  /\ UNCHANGED <<next, startCount, procedure, procedureLock, savedVars, apVars,
                 callVars, completed>>

CheckAllDone ==
  /\ Step("callback", "c_end", "off")
  /\ \/ /\ finishCount = startCount
        /\ checkAll' = FALSE
        /\ completed' = completed \cup {waitEvent}
     \/ finishCount # startCount /\ UNCHANGED <<checkAll, completed>>
  /\ UNCHANGED <<savedProcedure, savedSingle, startedCpu, waitEvent, checkThis,
                 cpu, next, dataVars, countVars, apVars, callVars>>

(***************************************************************************)
(* The specification.                                                       *)
(***************************************************************************)
ApProcWrapper(a) ==
  \/ ApAcquire(a) \/ ApFetchProcedure(a) \/ ApSetState(a) \/ ApProcedure(a)
  \/ ApClearProcedure(a)

Mainline ==
  \/ WakeUpAp("main") \/ ThisApFinished
  \/ PrepareAp \/ LookAtAp \/ ApFinished \/ ApIdle \/ AllApsFinished \/ PollAgain

Callback ==
  \/ CheckThisAPStatus \/ CheckAllAPsStatus \/ CheckAp \/ WakeUpAp("callback")
  \/ CheckedApFinished \/ CheckAllDone

Next ==
  \/ Mainline \/ ThisApTimeout \/ AllApsTimeout \/ Callback
  \/ \E a \in AP : \/ ApProcWrapper(a) \/ StartupThisAP(a)
                   \/ \E newState \in BOOLEAN : EnableDisableAP(a, newState)
  \/ StartupAllAPs

Spec == Init /\ [][Next]_vars

\* The BSP and the APs keep executing, procedures return, timers fire; nothing
\* forces a call to be made or to time out.
Fairness ==
  /\ WF_vars(Mainline) /\ WF_vars(Callback)
  /\ \A a \in AP : WF_vars(ApProcWrapper(a))

FairSpec == Spec /\ Fairness
-----------------------------------------------------------------------------
States == {"IDLE", "READY", "BLOCKED", "BUSY", "FINISHED", "DISABLED"}
ApLabels == {"halt", "boot", "fetch", "setbusy", "run", "clear", "clearing",
             "setfinished"}
MainLabels == {"off", "t_wake", "t_init", "t_poll", "a_prepare", "a_look",
               "a_wake", "a_init", "a_finished", "a_idle", "a_end"}
CallbackLabels == {"off", "c_look", "c_wake", "c_init", "n_wake", "n_init",
                   "c_idle", "c_end"}

\* Every variable has its type; in particular CpuNumber stays below
\* NumberOfCpus and an AP never runs a NULL procedure.
TypeOK ==
  /\ state \in [AP -> States]
  /\ procedure \in [AP -> 0 .. MaxCalls] /\ procedureLock \in [AP -> BOOLEAN]
  /\ startCount \in Nat /\ finishCount \in Nat
  /\ savedProcedure \in 0 .. MaxCalls /\ savedSingle \in BOOLEAN
  /\ startedCpu \in AP /\ waitEvent \in 0 .. MaxCalls
  /\ checkAll \in BOOLEAN /\ checkThis \in BOOLEAN
  /\ ap \in [AP -> ApLabels] /\ apProcedure \in [AP -> 0 .. MaxCalls]
  /\ \A a \in AP : ap[a] \in {"setbusy", "run"} => apProcedure[a] # 0
  /\ pc \in [Ctx -> MainLabels \cup CallbackLabels]
  /\ cpu \in [Ctx -> AP] /\ next \in AP
  /\ single \in BOOLEAN /\ timed \in BOOLEAN
  /\ calls \in 0 .. MaxCalls /\ targets \in [1 .. MaxCalls -> SUBSET AP]
  /\ completed \subseteq 0 .. MaxCalls

Working(a, p) == ap[a] \in {"setbusy", "run"} /\ apProcedure[a] = p

\* EFI_SUCCESS means "All APs have finished" and WaitEvent is "triggered after
\* all APs finish": each AP of the call has run the procedure once, and none
\* runs it, now or later.
CompletedMeansFinished ==
  \A p \in completed \ {0} : \A a \in targets[p] :
    ran[p][a] = 1 /\ ~Working(a, p)

\* With SingleThread the APs run the procedure one after another, also when
\* the callback takes over in the middle.
OneAfterAnother ==
  (pc["main"] \notin {"off", "t_wake", "t_init", "t_poll"} /\ single)
    \/ (checkAll /\ savedSingle)
  => Cardinality({a \in AP : ap[a] \in {"boot", "fetch", "setbusy", "run"}}) <= 1

\* When every call is over each AP is halted and can be started again, unless
\* a caller has disabled it; nothing is left for it to run.
NothingLeftBehind ==
  Quiet => \A a \in AP : /\ state[a] \in {"IDLE", "DISABLED"}
                         /\ ap[a] = "halt" /\ procedure[a] = 0

\* Every call completes: it returns EFI_SUCCESS or its event is signalled.
CallCompletes == \A p \in 1 .. MaxCalls : calls = p ~> p \in completed
=============================================================================
