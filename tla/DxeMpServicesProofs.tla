------------------------ MODULE DxeMpServicesProofs ------------------------
(***************************************************************************)
(* Proofs about the MP services of the DXE phase, for any number of         *)
(* processors and of calls.                                                 *)
(*                                                                         *)
(* Type correctness holds whatever callers do and however slow an AP is.    *)
(* What a call promises, that EFI_SUCCESS or the event means every AP of    *)
(* the call has run the procedure once, that SingleThread runs them one     *)
(* after another and that nothing is left behind, needs a caller that waits *)
(* for the event of a call that timed out (~Overlap) and an AP that does    *)
(* not need longer than a polling interval to become BUSY (Timely).         *)
(*                                                                         *)
(* One call is in hand at a time then, first in the mainline and, when its  *)
(* time is up, in the callback.  The invariant says what each AP of the     *)
(* call is doing, by its State and by where it is in ApProcWrapper, and     *)
(* that FinishCount counts the APs that are IDLE again.                     *)
(***************************************************************************)
EXTENDS DxeMpServices, FiniteSetTheorems, TLAPS

\* Where the mainline is in each of the two calls.
ThisLabels == {"t_wake", "t_init", "t_poll"}
AllLabels == {"a_prepare", "a_look", "a_wake", "a_init", "a_finished", "a_idle", "a_end"}

\* StartupThisAP, StartupAllAPs is in hand, in the mainline or in the callback.
ThisOn == pc["main"] \in ThisLabels \/ checkThis
AllOn == pc["main"] \in AllLabels \/ checkAll

\* The AP of StartupThisAP.
ThisAp == IF checkThis THEN startedCpu ELSE cpu["main"]

\* The BSP is between the two halves of WakeUpAp for this AP.
BeingWoken(a) ==
  \/ pc["main"] \in {"t_init", "a_init"} /\ cpu["main"] = a
  \/ pc["callback"] = "c_init" /\ cpu["callback"] = a
  \/ pc["callback"] = "n_init" /\ next = a

\* StartupThisAP has not woken its AP yet.
Opening == pc["main"] \in {"t_wake", "t_init"}

\* The AP belongs to the call in hand.
Called(a) == ~Quiet /\ a \in targets[calls]

\* Where an AP is: woken, with State BUSY, past the procedure, with the
\* procedure still in CpuData.
WakingLabels == {"boot", "fetch", "setbusy"}
BusyLabels == {"run", "clear", "clearing", "setfinished"}
RanLabels == {"clear", "clearing", "setfinished"}
HoldsLabels == WakingLabels \cup {"run", "clear", "clearing"}

-----------------------------------------------------------------------------
(***************************************************************************)
(* The invariant.                                                           *)
(***************************************************************************)

\* One call at a time: the callback works for the last call, which the
\* mainline has given up.
SessionInv ==
  /\ pc["main"] \in MainLabels /\ pc["callback"] \in CallbackLabels
  /\ checkThis => pc["main"] = "off" /\ ~checkAll /\ waitEvent = calls
  /\ checkAll => pc["main"] = "off" /\ waitEvent = calls /\ savedProcedure = calls
  /\ pc["callback"] # "off" => checkAll
  /\ ~Quiet => calls > 0

\* Where an AP is says what its Procedure and its lock are, and its State
\* while it is BUSY; past the procedure it has run it once.
WrapperInv(a) ==
  /\ procedureLock[a] <=> ap[a] \in {"fetch", "clearing"}
  /\ ap[a] \in HoldsLabels => procedure[a] = calls
  /\ ap[a] = "setfinished" => procedure[a] = 0
  /\ ap[a] = "halt" => procedure[a] = IF BeingWoken(a) THEN calls ELSE 0
  /\ ap[a] \in {"setbusy", "run"} => apProcedure[a] = calls
  /\ ap[a] \in BusyLabels <=> state[a] = "BUSY"
  /\ ap[a] = "run" => ran[calls][a] = 0
  /\ ap[a] \in RanLabels => ran[calls][a] = 1

\* Nobody is past the start-up code while a loop of the BSP is in a pass.
PassInv(a) == InPass => ap[a] \notin {"fetch", "setbusy"}

\* An AP the call does not use.
OtherInv(a) == ~Called(a) => state[a] \in {"IDLE", "DISABLED"} /\ ap[a] = "halt"

\* The AP of StartupThisAP is IDLE until it becomes BUSY.
ThisApInv(a) ==
  Called(a) /\ ~AllOn =>
    /\ state[a] \in {"IDLE", "BUSY", "FINISHED"}
    /\ state[a] = "IDLE" => ap[a] \in WakingLabels \cup {"halt"} /\ ran[calls][a] = 0
    /\ state[a] = "IDLE" => (ap[a] = "halt" <=> Opening)
    /\ state[a] = "FINISHED" => ap[a] = "halt" /\ ran[calls][a] = 1
    /\ Opening => state[a] = "IDLE"

\* An AP of StartupAllAPs is READY or BLOCKED, becomes BUSY, FINISHED, IDLE.
AllApInv(a) ==
  Called(a) /\ AllOn =>
    /\ state[a] # "DISABLED"
    /\ state[a] = "READY" => ap[a] \in WakingLabels \cup {"halt"} /\ ran[calls][a] = 0
    /\ state[a] = "BLOCKED" => ap[a] = "halt" /\ ran[calls][a] = 0
    /\ state[a] \in {"FINISHED", "IDLE"} => ap[a] = "halt" /\ ran[calls][a] = 1

\* All of that for one AP.
ApInv(a) ==
  WrapperInv(a) /\ PassInv(a) /\ OtherInv(a) /\ ThisApInv(a) /\ AllApInv(a)

\* StartupThisAP has one AP.
ThisInv == ThisOn => targets[calls] = {ThisAp}

\* The AP at which a loop is: the loop has seen its State, and nobody has
\* changed it since.
LoopInv ==
  /\ pc["main"] = "a_prepare" =>
       /\ \A a \in targets[calls] : a < cpu["main"] /\ state[a] \in {"READY", "BLOCKED"}
       /\ \A a \in AP \ targets[calls] : ran[calls][a] = 0
  /\ pc["main"] \in {"a_wake", "a_init"} => state[cpu["main"]] = "READY"
  /\ pc["main"] \in {"a_finished", "a_idle"} => state[cpu["main"]] = "FINISHED"
  /\ pc["callback"] \in {"c_wake", "c_init"} => state[cpu["callback"]] = "READY"
  /\ pc["callback"] \in {"n_wake", "n_init"} => state[next] = "READY"
  /\ pc["callback"] \in {"n_wake", "n_init", "c_idle"} => state[cpu["callback"]] = "FINISHED"

\* StartCount and FinishCount.
Done == {a \in targets[calls] : state[a] = "IDLE"}
CountInv ==
  AllOn => /\ startCount = Cardinality(targets[calls])
           /\ finishCount = Cardinality(Done) + IF pc["main"] = "a_idle" THEN 1 ELSE 0

\* The AP that has finished and whose successor has been made READY.
Relieved(a) ==
  \/ pc["main"] = "a_idle" /\ cpu["main"] = a
  \/ pc["callback"] \in {"n_wake", "n_init", "c_idle"} /\ cpu["callback"] = a

\* SingleThread: one AP has the turn.
SingleOn == AllOn /\ IF checkAll THEN savedSingle ELSE single
HasTurn(a) == state[a] \in {"READY", "BUSY", "FINISHED"} /\ ~Relieved(a)
SingleInv == SingleOn => \A a, b \in AP : HasTurn(a) /\ HasTurn(b) => a = b

\* What is over stays over, and what has not been called has not run.
RanType == ran \in [1 .. MaxCalls -> [AP -> Nat]]
HistoryInv ==
  /\ RanType
  /\ \A p \in 1 .. MaxCalls : p > calls => \A a \in AP : ran[p][a] = 0
  /\ \A p \in completed \ {0} : p <= calls /\ \A a \in targets[p] : ran[p][a] = 1
  /\ ~Quiet => calls \notin completed

\* The inductive invariant of a call.
CallInv ==
  /\ SessionInv /\ (\A a \in AP : ApInv(a)) /\ ThisInv /\ LoopInv /\ CountInv
  /\ SingleInv /\ HistoryInv

-----------------------------------------------------------------------------
(***************************************************************************)
(* Type correctness.                                                        *)
(***************************************************************************)

\* The BSP is no AP, and the step of a loop stays among them.
LEMMA ApFacts ==
  /\ \A a \in AP : a \in Nat /\ a > 0
  /\ 1 \in AP
  /\ \A a \in AP : a # NumberOfCpus - 1 => a + 1 \in AP
BY CpuAssumption DEF AP

\* An action of an AP keeps the types.
LEMMA ApKeepsType ==
  ASSUME TypeOK, NEW a \in AP, ApProcWrapper(a)
  PROVE  TypeOK'
<1> USE DEF TypeOK, dataVars, countVars, savedVars, apVars, ctxVars, callVars
<1>1. CASE ApAcquire(a)
  <2>1. procedureLock' \in [AP -> BOOLEAN]
    BY <1>1 DEF ApAcquire
  <2>2. /\ ap' \in [AP -> ApLabels]
        /\ \A b \in AP : ap'[b] \in {"setbusy", "run"} => apProcedure'[b] # 0
    <3>1. PICK l \in {"fetch", "clearing"} : ap' = [ap EXCEPT ![a] = l]
      BY <1>1 DEF ApAcquire
    <3> QED
      BY <1>1, <3>1 DEF ApAcquire, ApLabels
  <2> QED
    BY <1>1, <2>1, <2>2 DEF ApAcquire
<1>2. CASE ApFetchProcedure(a)
  BY <1>2 DEF ApFetchProcedure, ApLabels
<1>3. CASE ApSetState(a)
  <2>1. state' \in [AP -> States]
    BY <1>3 DEF ApSetState, SetState, States
  <2>2. /\ ap' \in [AP -> ApLabels]
        /\ \A b \in AP : ap'[b] \in {"setbusy", "run"} => apProcedure'[b] # 0
    <3>1. PICK l \in {"run", "halt"} : ap' = [ap EXCEPT ![a] = l] /\ (l = "run" =>
          ap[a] = "setbusy")
      BY <1>3 DEF ApSetState
    <3> QED
      BY <1>3, <3>1 DEF ApSetState, ApLabels
  <2> QED
    BY <1>3, <2>1, <2>2 DEF ApSetState
<1>4. CASE ApProcedure(a)
  BY <1>4 DEF ApProcedure, ApLabels
<1>5. CASE ApClearProcedure(a)
  <2>1. procedureLock' \in [AP -> BOOLEAN] /\ procedure' \in [AP -> 0 .. MaxCalls]
    BY <1>5, BoundAssumption DEF ApClearProcedure
  <2>2. /\ ap' \in [AP -> ApLabels]
        /\ \A b \in AP : ap'[b] \in {"setbusy", "run"} => apProcedure'[b] # 0
    BY <1>5 DEF ApClearProcedure, ApLabels
  <2> QED
    BY <1>5, <2>1, <2>2 DEF ApClearProcedure
<1> QED
  BY <1>1, <1>2, <1>3, <1>4, <1>5 DEF ApProcWrapper

\* The step of a loop over the APs keeps CpuNumber among them.
LEMMA LoopKeepsType ==
  ASSUME cpu \in [Ctx -> AP], pc \in [Ctx -> MainLabels \cup CallbackLabels],
         NEW x \in Ctx,
         NEW again \in MainLabels \cup CallbackLabels,
         NEW end \in MainLabels \cup CallbackLabels,
         NextCpu(x, again, end)
  PROVE  cpu' \in [Ctx -> AP] /\ pc' \in [Ctx -> MainLabels \cup CallbackLabels]
BY ApFacts DEF NextCpu, Goto

\* WakeUpAp keeps the types, in both contexts.
LEMMA WakeUpKeepsType ==
  ASSUME TypeOK, NEW x \in Ctx, WakeUpAp(x)
  PROVE  TypeOK'
<1> USE DEF TypeOK, dataVars, countVars, savedVars, apVars, ctxVars, callVars
<1>1. CASE /\ \/ /\ Step(x, "t_wake", "t_init") /\ WriteProcedure(cpu[x], calls)
              \/ /\ Step(x, "a_wake", "a_init") /\ WriteProcedure(cpu[x], calls)
              \/ /\ Step(x, "c_wake", "c_init") /\ WriteProcedure(cpu[x], savedProcedure)
              \/ /\ Step(x, "n_wake", "n_init") /\ WriteProcedure(next, savedProcedure)
           /\ UNCHANGED <<cpu, next, state, procedureLock, countVars, savedVars,
                          apVars, callVars, completed>>
  <2>1. pc' \in [Ctx -> MainLabels \cup CallbackLabels]
    BY <1>1 DEF Step, Goto, MainLabels, CallbackLabels
  <2>2. procedure' \in [AP -> 0 .. MaxCalls]
    BY <1>1 DEF WriteProcedure
  <2> QED
    BY <1>1, <2>1, <2>2
<1>2. CASE /\ \/ Step(x, "t_init", "t_poll") /\ InitSipi(cpu[x]) /\ UNCHANGED cpu
              \/ At(x, "a_init") /\ InitSipi(cpu[x]) /\ NextCpu(x, "a_look", "a_end")
              \/ At(x, "c_init") /\ InitSipi(cpu[x]) /\ NextCpu(x, "c_look", "c_end")
              \/ Step(x, "n_init", "c_idle") /\ InitSipi(next) /\ UNCHANGED cpu
           /\ UNCHANGED <<next, ran, dataVars, countVars, savedVars, callVars, completed>>
  <2>1. cpu' \in [Ctx -> AP] /\ pc' \in [Ctx -> MainLabels \cup CallbackLabels]
    BY <1>2, LoopKeepsType DEF Step, Goto, MainLabels, CallbackLabels
  <2>2. PICK a \in AP : InitSipi(a)
    BY <1>2
  <2>3. /\ ap' \in [AP -> ApLabels] /\ apProcedure' \in [AP -> 0 .. MaxCalls]
        /\ \A b \in AP : ap'[b] \in {"setbusy", "run"} => apProcedure'[b] # 0
    BY <2>2, BoundAssumption DEF InitSipi, ApLabels
  <2> QED
    BY <1>2, <2>1, <2>3
<1> QED
  BY <1>1, <1>2 DEF WakeUpAp

\* The other actions of the mainline keep the types.
LEMMA MainlineKeepsType ==
  ASSUME TypeOK, Mainline
  PROVE  TypeOK'
<1> USE DEF TypeOK, dataVars, countVars, savedVars, apVars, ctxVars, callVars
<1>0. "main" \in Ctx /\ cpu["main"] \in AP /\ {"off", "a_prepare", "a_look",
      "a_end"} \subseteq MainLabels
  BY DEF Ctx, MainLabels
<1>1. CASE WakeUpAp("main")
  BY <1>0, <1>1, WakeUpKeepsType
<1>2. CASE ThisApFinished
  BY <1>0, <1>2, ApFacts DEF ThisApFinished, BackToIdle, SetState, Succeed, Goto, States
<1>3. CASE PrepareAp
  <2>1. cpu' \in [Ctx -> AP] /\ pc' \in [Ctx -> MainLabels \cup CallbackLabels]
    BY <1>0, <1>3, LoopKeepsType DEF PrepareAp
  <2>2. targets' \in [1 .. MaxCalls -> SUBSET AP]
    BY <1>0, <1>3 DEF PrepareAp
  <2>3. state' \in [AP -> States]
    BY <1>0, <1>3 DEF PrepareAp, SetState, APInitialState, States
  <2>4. startCount' \in Nat
    BY <1>3 DEF PrepareAp
  <2> QED
    BY <1>3, <2>1, <2>2, <2>3, <2>4 DEF PrepareAp
<1>4. CASE LookAtAp
  <2>1. cpu' \in [Ctx -> AP] /\ pc' \in [Ctx -> MainLabels \cup CallbackLabels]
    BY <1>0, <1>4, LoopKeepsType DEF LookAtAp, Step, Goto, MainLabels
  <2> QED
    BY <1>4, <2>1 DEF LookAtAp
<1>5. CASE ApFinished
  <2>1. cpu' \in [Ctx -> AP] /\ pc' \in [Ctx -> MainLabels \cup CallbackLabels]
    BY <1>0, <1>5, LoopKeepsType DEF ApFinished, Goto, MainLabels
  <2>2. state' \in [AP -> States]
    BY <1>0, <1>5 DEF ApFinished, BackToIdle, SetState, States
  <2>3. finishCount' \in Nat
    BY <1>5 DEF ApFinished
  <2> QED
    BY <1>5, <2>1, <2>2, <2>3 DEF ApFinished
<1>6. CASE ApIdle
  <2>1. cpu' \in [Ctx -> AP] /\ pc' \in [Ctx -> MainLabels \cup CallbackLabels]
    BY <1>0, <1>6, LoopKeepsType DEF ApIdle
  <2> QED
    BY <1>0, <1>6, <2>1 DEF ApIdle, BackToIdle, SetState, States
<1>7. CASE AllApsFinished
  BY <1>0, <1>7 DEF AllApsFinished, Succeed, Goto
<1>8. CASE PollAgain
  BY <1>0, <1>8 DEF PollAgain, Step, Goto
<1> QED
  BY <1>1, <1>2, <1>3, <1>4, <1>5, <1>6, <1>7, <1>8 DEF Mainline

\* The callbacks keep the types.
LEMMA CallbackKeepsType ==
  ASSUME TypeOK, Callback
  PROVE  TypeOK'
<1> USE DEF TypeOK, dataVars, countVars, savedVars, apVars, ctxVars, callVars
<1>0. /\ "callback" \in Ctx /\ cpu["callback"] \in AP
      /\ {"off", "c_look", "c_wake", "n_wake", "c_idle", "c_end"} \subseteq CallbackLabels
  BY DEF Ctx, CallbackLabels
<1>1. CASE CheckThisAPStatus
  BY <1>1 DEF CheckThisAPStatus, BackToIdle, SetState, States
<1>2. CASE CheckAllAPsStatus
  BY <1>0, <1>2 DEF CheckAllAPsStatus, Step, Goto
<1>3. CASE CheckAp
  <2>1. cpu' \in [Ctx -> AP] /\ pc' \in [Ctx -> MainLabels \cup CallbackLabels]
    <3>1. \A l \in CallbackLabels : Goto("callback", l) =>
          pc' \in [Ctx -> MainLabels \cup CallbackLabels]
      BY DEF Goto
    <3>2. NextCpu("callback", "c_look", "c_end") =>
            cpu' \in [Ctx -> AP] /\ pc' \in [Ctx -> MainLabels \cup CallbackLabels]
      BY <1>0, LoopKeepsType
    <3> QED
      BY <1>0, <1>3, <3>1, <3>2 DEF CheckAp, Step
  <2>2. state' \in [AP -> States] /\ next' \in AP
    BY <1>0, <1>3 DEF CheckAp, SetState, States
  <2> QED
    BY <1>3, <2>1, <2>2 DEF CheckAp
<1>4. CASE WakeUpAp("callback")
  BY <1>0, <1>4, WakeUpKeepsType
<1>5. CASE CheckedApFinished
  <2>1. cpu' \in [Ctx -> AP] /\ pc' \in [Ctx -> MainLabels \cup CallbackLabels]
    BY <1>0, <1>5, LoopKeepsType DEF CheckedApFinished
  <2> QED
    BY <1>0, <1>5, <2>1 DEF CheckedApFinished, BackToIdle, SetState, States
<1>6. CASE CheckAllDone
  BY <1>0, <1>6 DEF CheckAllDone, Step, Goto
<1> QED
  BY <1>1, <1>2, <1>3, <1>4, <1>5, <1>6 DEF Callback

\* A new call, a call that times out, EnableDisableAP.
LEMMA CallsKeepType ==
  ASSUME TypeOK,
         \/ ThisApTimeout \/ AllApsTimeout \/ StartupAllAPs
         \/ \E a \in AP : \/ StartupThisAP(a)
                          \/ \E newState \in BOOLEAN : EnableDisableAP(a, newState)
  PROVE  TypeOK'
<1> USE DEF TypeOK, dataVars, countVars, savedVars, apVars, ctxVars, callVars
<1>0. "main" \in Ctx /\ cpu["main"] \in AP /\ {"off", "a_prepare",
      "t_wake"} \subseteq MainLabels
  BY DEF Ctx, MainLabels
<1>1. CASE ThisApTimeout
  BY <1>0, <1>1, ApFacts DEF ThisApTimeout, Goto
<1>2. CASE AllApsTimeout
  BY <1>0, <1>2 DEF AllApsTimeout, Step, Goto
<1>3. CASE StartupAllAPs
  BY <1>0, <1>3, BoundAssumption DEF StartupAllAPs, NewCall, CalculateTimeout, Goto
<1>4. ASSUME NEW a \in AP, StartupThisAP(a) PROVE TypeOK'
  BY <1>0, <1>4, BoundAssumption DEF StartupThisAP, NewCall, CalculateTimeout, Goto
<1>5. ASSUME NEW a \in AP, NEW newState \in BOOLEAN, EnableDisableAP(a, newState) PROVE TypeOK'
  BY <1>5 DEF EnableDisableAP, ChangeCpuState, SetState, States
<1> QED
  BY <1>1, <1>2, <1>3, <1>4, <1>5

\* Every variable of the MP services keeps its type; in particular CpuNumber
\* stays below NumberOfCpus in both contexts, and an AP that was restarted in
\* the middle of ApProcWrapper never runs a NULL procedure.
THEOREM TypeCorrect == Spec => []TypeOK
<1>1. Init => TypeOK
  <2> SUFFICES ASSUME Init PROVE TypeOK
    OBVIOUS
  <2>1. /\ state \in [AP -> States] /\ ap \in [AP -> ApLabels]
        /\ pc \in [Ctx -> MainLabels \cup CallbackLabels] /\ cpu \in [Ctx -> AP]
    BY ApFacts DEF Init, States, ApLabels, MainLabels
  <2>2. /\ procedureLock \in [AP -> BOOLEAN]
        /\ \A a \in AP : ap[a] \in {"setbusy", "run"} => apProcedure[a] # 0
    BY DEF Init
  <2>3. /\ procedure \in [AP -> 0 .. MaxCalls] /\ apProcedure \in [AP -> 0 .. MaxCalls]
        /\ startedCpu \in AP /\ next \in AP /\ targets \in [1 .. MaxCalls -> SUBSET AP]
        /\ startCount \in Nat /\ finishCount \in Nat
    BY ApFacts, BoundAssumption DEF Init
  <2>4. /\ savedProcedure \in 0 .. MaxCalls /\ waitEvent \in 0 .. MaxCalls
        /\ calls \in 0 .. MaxCalls /\ completed \subseteq 0 .. MaxCalls
    BY BoundAssumption DEF Init
  <2>5. /\ savedSingle \in BOOLEAN /\ checkAll \in BOOLEAN /\ checkThis \in BOOLEAN
        /\ single \in BOOLEAN /\ timed \in BOOLEAN
    BY DEF Init
  <2> QED
    BY <2>1, <2>2, <2>3, <2>4, <2>5 DEF TypeOK
<1>2. TypeOK /\ [Next]_vars => TypeOK'
  <2> SUFFICES ASSUME TypeOK, [Next]_vars PROVE TypeOK'
    OBVIOUS
  <2>1. CASE UNCHANGED vars
    BY <2>1 DEF TypeOK, vars, dataVars, countVars, savedVars, apVars, ctxVars, callVars
  <2> QED
    BY <2>1, ApKeepsType, MainlineKeepsType, CallbackKeepsType, CallsKeepType DEF Next
<1> QED
  BY <1>1, <1>2, PTL DEF Spec

-----------------------------------------------------------------------------
(***************************************************************************)
(* What a step leaves alone.                                                *)
(***************************************************************************)

\* Nothing of this AP changes.
SameAp(a) ==
  /\ state'[a] = state[a] /\ procedure'[a] = procedure[a]
  /\ procedureLock'[a] = procedureLock[a]
  /\ ap'[a] = ap[a] /\ apProcedure'[a] = apProcedure[a]
  /\ ran'[calls][a] = ran[calls][a]

\* Nor does what the BSP is doing, as far as the AP is concerned.
SameCall(a) ==
  /\ calls' = calls /\ (Called(a)' <=> Called(a)) /\ (AllOn' <=> AllOn)
  /\ BeingWoken(a)' <=> BeingWoken(a)
  /\ InPass' => InPass
  /\ Opening' <=> Opening

\* The variables of the BSP.
BspStays ==
  UNCHANGED <<countVars, savedVars, ctxVars, callVars, completed>>

\* An AP nobody touches keeps its part of the invariant.
LEMMA ApStays ==
  ASSUME NEW a \in AP, ApInv(a), SameAp(a), SameCall(a)
  PROVE  ApInv(a)'
<1> USE DEF SameAp, SameCall
<1>1. WrapperInv(a)'
  BY DEF ApInv, WrapperInv
<1>2. PassInv(a)' /\ OtherInv(a)'
  BY DEF ApInv, PassInv, OtherInv
<1>3. ThisApInv(a)' /\ AllApInv(a)'
  BY DEF ApInv, ThisApInv, AllApInv
<1> QED
  BY <1>1, <1>2, <1>3 DEF ApInv

\* The mainline, the callback, or nobody has a call in hand.
LEMMA CallInHand ==
  ASSUME SessionInv
  PROVE  /\ ThisOn \/ AllOn <=> ~Quiet
         /\ ~(ThisOn /\ AllOn)
BY DEF SessionInv, ThisOn, AllOn, Quiet, MainLabels, ThisLabels, AllLabels

\* Who is not halted is an AP of the call.
LEMMA WhoRuns ==
  ASSUME NEW a \in AP, ApInv(a), ap[a] # "halt" \/ state[a] \in {"READY", "BLOCKED", "BUSY",
         "FINISHED"}
  PROVE  Called(a)
BY DEF ApInv, OtherInv

\* A call that is over is not the one in hand.
LEMMA OverIsOver ==
  ASSUME TypeOK, HistoryInv, ~Quiet
  PROVE  \A p \in completed \ {0} : p \in 1 .. MaxCalls /\ p # calls /\ targets[p] \subseteq AP
<1>1. \A p \in completed \ {0} : p \in 1 .. MaxCalls
  BY BoundAssumption DEF TypeOK
<1> QED
  BY <1>1 DEF HistoryInv, TypeOK

\* A step of one AP keeps the invariant when it keeps the AP's own part.
LEMMA ApMoves ==
  ASSUME TypeOK, CallInv, NEW a \in AP, BspStays,
         ap[a] # "halt",
         \A b \in AP \ {a} : SameAp(b),
         ApInv(a)',
         \/ state'[a] = state[a]
         \/ ap[a] = "setbusy" /\ state'[a] = "BUSY"
         \/ ap[a] = "setfinished" /\ state'[a] = "FINISHED",
         RanType',
         \A p \in 1 .. MaxCalls, b \in AP : p # calls => ran'[p][b] = ran[p][b]
  PROVE  CallInv'
<1> USE DEF CallInv, BspStays, countVars, savedVars, ctxVars, callVars
<1>0. /\ Quiet' = Quiet /\ AllOn' = AllOn /\ InPass' = InPass /\ Opening' = Opening
         /\ ThisOn' = ThisOn
      /\ \A b \in AP : Called(b)' = Called(b) /\ BeingWoken(b)' = BeingWoken(b)
  BY DEF Quiet, AllOn, InPass, Opening, ThisOn, Called, BeingWoken
<1>1. Called(a) /\ calls \in 1 .. MaxCalls
  BY WhoRuns DEF Called, SessionInv, TypeOK
<1>2. SessionInv' /\ ThisInv'
  BY <1>0 DEF SessionInv, ThisInv, ThisAp
<1>3. \A b \in AP : ApInv(b)'
  BY <1>0, ApStays DEF SameCall
<1>4. \/ state'[a] = state[a]
      \/ state[a] \in {"READY", "IDLE"} /\ state'[a] = "BUSY" /\ ~InPass
      \/ state[a] = "BUSY" /\ state'[a] = "FINISHED"
  BY <1>1
     DEF ApInv, PassInv, WrapperInv, ThisApInv, AllApInv, WakingLabels, BusyLabels, TypeOK,
         States
<1>5. \A b \in AP : b # a => state'[b] = state[b]
  BY DEF SameAp
<1>6. LoopInv'
  <2>1. /\ pc["main"] \in {"a_prepare", "a_wake", "a_init", "a_finished", "a_idle"} => InPass
        /\ pc["callback"] \in {"c_wake", "c_init", "n_wake", "n_init", "c_idle"} => InPass
    BY DEF InPass, Ctx
  <2>2. \A b \in AP : /\ InPass /\ state[b] = "READY" => state'[b] = "READY"
                      /\ state[b] \in {"BLOCKED", "FINISHED"} => state'[b] = state[b]
    BY <1>4, <1>5
  <2>3. cpu["main"] \in AP /\ cpu["callback"] \in AP /\ next \in AP
        /\ targets[calls] \subseteq AP
    BY <1>1 DEF TypeOK, Ctx
  <2>4. \A b \in AP \ targets[calls] : ran'[calls][b] = ran[calls][b]
    BY <1>1 DEF SameAp, Called
  <2> QED
    BY <2>1, <2>2, <2>3, <2>4 DEF LoopInv
<1>7. CountInv'
  <2>1. AllOn => \A b \in AP : state'[b] = "IDLE" <=> state[b] = "IDLE"
    BY <1>1, <1>4, <1>5 DEF ApInv, AllApInv
  <2>2. AllOn => Done' = Done
    BY <1>1, <2>1 DEF Done, TypeOK
  <2> QED
    BY <1>0, <2>2 DEF CountInv
<1>8. SingleInv'
  BY <1>0, <1>1, <1>4, <1>5 DEF SingleInv, SingleOn, HasTurn, Relieved, ApInv, AllApInv
<1>9. HistoryInv'
  BY <1>0, <1>1, OverIsOver DEF HistoryInv, Called
<1> QED
  BY <1>2, <1>3, <1>6, <1>7, <1>8, <1>9

-----------------------------------------------------------------------------
(***************************************************************************)
(* The actions of an AP.                                                    *)
(***************************************************************************)

\* The AP takes its ProcedureLock, past the start-up code or after the
\* procedure.
LEMMA ApAcquireKeeps ==
  ASSUME Timely, TypeOK, CallInv, NEW a \in AP, ApAcquire(a)
  PROVE  CallInv'
<1> USE DEF ApAcquire
<1>1. BspStays /\ RanType' /\ UNCHANGED <<state, procedure, apProcedure, ran>>
  BY DEF BspStays, CallInv, HistoryInv, RanType
<1>2. \A b \in AP \ {a} : SameAp(b)
  BY DEF SameAp, TypeOK
<1>3. \/ ap[a] = "boot" /\ ap'[a] = "fetch" /\ ~InPass
      \/ ap[a] = "clear" /\ ap'[a] = "clearing"
  BY DEF TypeOK
<1>4. procedureLock'[a]
  BY DEF TypeOK
<1>5. ApInv(a)'
  <2>1. Called(a)' = Called(a) /\ AllOn' = AllOn /\ InPass' = InPass /\ Opening' = Opening
        /\ calls' = calls
    BY <1>1 DEF BspStays, Called, Quiet, AllOn, InPass, Opening, savedVars, ctxVars, callVars
  <2>2. ApInv(a)
    BY DEF CallInv
  <2> QED
    BY <1>1, <1>3, <1>4, <2>1, <2>2
       DEF ApInv, WrapperInv, PassInv, OtherInv, ThisApInv, AllApInv, HoldsLabels,
       WakingLabels, BusyLabels, RanLabels
<1> QED
  BY <1>1, <1>2, <1>3, <1>5, ApMoves

\* The AP reads the procedure of the call.
LEMMA ApFetchProcedureKeeps ==
  ASSUME TypeOK, CallInv, NEW a \in AP, ApFetchProcedure(a)
  PROVE  CallInv'
<1> USE DEF ApFetchProcedure
<1>1. BspStays /\ RanType' /\ UNCHANGED <<state, procedure, ran>>
  BY DEF BspStays, CallInv, HistoryInv, RanType
<1>2. \A b \in AP \ {a} : SameAp(b)
  BY DEF SameAp, TypeOK
<1>3. Called(a) /\ calls > 0 /\ procedure[a] = calls
  BY WhoRuns DEF CallInv, SessionInv, Called, ApInv, WrapperInv, HoldsLabels, WakingLabels
<1>4. ap[a] = "fetch" /\ ap'[a] = "setbusy" /\ apProcedure'[a] = calls /\ ~procedureLock'[a]
  BY <1>3 DEF TypeOK
<1>5. ApInv(a)'
  <2>1. Called(a)' = Called(a) /\ AllOn' = AllOn /\ InPass' = InPass /\ Opening' = Opening
        /\ calls' = calls
    BY <1>1 DEF BspStays, Called, Quiet, AllOn, InPass, Opening, savedVars, ctxVars, callVars
  <2>2. ApInv(a)
    BY DEF CallInv
  <2> QED
    BY <1>1, <1>3, <1>4, <2>1, <2>2
       DEF ApInv, WrapperInv, PassInv, OtherInv, ThisApInv, AllApInv, HoldsLabels,
       WakingLabels, BusyLabels, RanLabels
<1> QED
  BY <1>1, <1>2, <1>4, <1>5, ApMoves

\* The AP sets its State to BUSY, which no loop in a pass sees, or to
\* FINISHED.
LEMMA ApSetStateKeeps ==
  ASSUME TypeOK, CallInv, NEW a \in AP, ApSetState(a)
  PROVE  CallInv'
<1> USE DEF ApSetState, SetState
<1>1. BspStays /\ RanType' /\ UNCHANGED <<procedure, procedureLock, apProcedure, ran>>
  BY DEF BspStays, CallInv, HistoryInv, RanType
<1>2. \A b \in AP \ {a} : SameAp(b)
  BY DEF SameAp, TypeOK
<1>3. \/ ap[a] = "setbusy" /\ ap'[a] = "run" /\ state'[a] = "BUSY"
      \/ ap[a] = "setfinished" /\ ap'[a] = "halt" /\ state'[a] = "FINISHED"
  BY DEF TypeOK
<1>4. Called(a)
  BY <1>3, WhoRuns DEF CallInv
<1>5. ApInv(a)'
  <2>1. /\ Called(a)' = Called(a) /\ AllOn' = AllOn /\ InPass' = InPass
           /\ Opening' = Opening /\ calls' = calls
        /\ BeingWoken(a)' = BeingWoken(a)
    BY <1>1
       DEF BspStays, Called, Quiet, AllOn, InPass, Opening, BeingWoken, savedVars, ctxVars,
           callVars
  <2>2. ApInv(a)
    BY DEF CallInv
  <2>3. state[a] \in States
    BY DEF TypeOK
  <2>4. BeingWoken(a) => ap[a] \notin {"setbusy", "setfinished"}
    <3>1. BeingWoken(a) => InPass
      BY DEF BeingWoken, InPass, Ctx
    <3>2. BeingWoken(a) => state[a] = IF AllOn THEN "READY" ELSE "IDLE"
      BY <1>4, <2>2, CallInHand
         DEF BeingWoken, CallInv, LoopInv, SessionInv, AllOn, AllLabels, ApInv, ThisApInv,
             Opening
    <3> QED
      BY <2>2, <3>1, <3>2 DEF ApInv, PassInv, WrapperInv, BusyLabels
  <2> QED
    BY <1>1, <1>3, <1>4, <2>1, <2>2, <2>3, <2>4
       DEF ApInv, WrapperInv, PassInv, OtherInv, ThisApInv, AllApInv, HoldsLabels,
       WakingLabels, BusyLabels, RanLabels, States
<1> QED
  BY <1>1, <1>2, <1>3, <1>5, ApMoves

\* The procedure returns: it has run once on this AP.
LEMMA ApProcedureKeeps ==
  ASSUME TypeOK, CallInv, NEW a \in AP, ApProcedure(a)
  PROVE  CallInv'
<1> USE DEF ApProcedure
<1>1. BspStays /\ UNCHANGED <<state, procedure, procedureLock, apProcedure>>
  BY DEF BspStays, dataVars
<1>2. ap[a] = "run" /\ ap'[a] = "clear"
  BY DEF TypeOK
<1>3. Called(a) /\ calls \in 1 .. MaxCalls /\ apProcedure[a] = calls /\ ran[calls][a] = 0
  BY <1>2, WhoRuns DEF CallInv, SessionInv, Called, ApInv, WrapperInv, TypeOK
<1>4. /\ RanType' /\ ran'[calls][a] = 1
      /\ \A p \in 1 .. MaxCalls, b \in AP : p # calls \/ b # a => ran'[p][b] = ran[p][b]
  BY <1>3 DEF CallInv, HistoryInv, RanType
<1>5. \A b \in AP \ {a} : SameAp(b)
  BY <1>1, <1>3, <1>4 DEF SameAp, TypeOK
<1>6. ApInv(a)'
  <2>1. Called(a)' = Called(a) /\ AllOn' = AllOn /\ InPass' = InPass /\ Opening' = Opening
        /\ calls' = calls
    BY <1>1 DEF BspStays, Called, Quiet, AllOn, InPass, Opening, savedVars, ctxVars, callVars
  <2>2. ApInv(a)
    BY DEF CallInv
  <2> QED
    BY <1>1, <1>2, <1>3, <1>4, <2>1, <2>2
       DEF ApInv, WrapperInv, PassInv, OtherInv, ThisApInv, AllApInv, HoldsLabels,
       WakingLabels, BusyLabels, RanLabels
<1> QED
  BY <1>1, <1>2, <1>4, <1>5, <1>6, ApMoves

\* The AP clears its Procedure.
LEMMA ApClearProcedureKeeps ==
  ASSUME TypeOK, CallInv, NEW a \in AP, ApClearProcedure(a)
  PROVE  CallInv'
<1> USE DEF ApClearProcedure
<1>1. BspStays /\ RanType' /\ UNCHANGED <<state, apProcedure, ran>>
  BY DEF BspStays, CallInv, HistoryInv, RanType
<1>2. \A b \in AP \ {a} : SameAp(b)
  BY DEF SameAp, TypeOK
<1>3. ap[a] = "clearing" /\ ap'[a] = "setfinished" /\ procedure'[a] = 0 /\ ~procedureLock'[a]
  BY DEF TypeOK
<1>4. ApInv(a)'
  <2>1. Called(a)' = Called(a) /\ AllOn' = AllOn /\ InPass' = InPass /\ Opening' = Opening
        /\ calls' = calls
    BY <1>1 DEF BspStays, Called, Quiet, AllOn, InPass, Opening, savedVars, ctxVars, callVars
  <2>2. ApInv(a)
    BY DEF CallInv
  <2> QED
    BY <1>1, <1>3, <2>1, <2>2
       DEF ApInv, WrapperInv, PassInv, OtherInv, ThisApInv, AllApInv, HoldsLabels,
       WakingLabels, BusyLabels, RanLabels
<1> QED
  BY <1>1, <1>2, <1>3, <1>4, ApMoves

\* Every action of an AP keeps the invariant.
LEMMA ApProcWrapperKeeps ==
  ASSUME Timely, TypeOK, CallInv, NEW a \in AP, ApProcWrapper(a)
  PROVE  CallInv'
BY ApAcquireKeeps, ApFetchProcedureKeeps, ApSetStateKeeps, ApProcedureKeeps,
   ApClearProcedureKeeps
   DEF ApProcWrapper

-----------------------------------------------------------------------------
(***************************************************************************)
(* The steps of the BSP.                                                    *)
(***************************************************************************)

\* A step inside StartupAllAPs, or of its callback.
LEMMA AllStep ==
  ASSUME TypeOK, CallInv, SessionInv', AllOn, AllOn',
         UNCHANGED <<calls, ran, completed>>,
         \A p \in 1 .. MaxCalls : p # calls => targets'[p] = targets[p]
  PROVE  /\ ~Quiet /\ ~Quiet' /\ ~Opening /\ ~Opening' /\ calls \in 1 .. MaxCalls
         /\ ThisInv' /\ HistoryInv'
<1>1. /\ ~Quiet /\ ~Opening /\ ~ThisOn /\ calls \in 1 .. MaxCalls
  BY DEF CallInv, SessionInv, AllOn, AllLabels, Quiet, Opening, ThisOn, ThisLabels, TypeOK
<1>2. /\ ~Quiet' /\ ~Opening' /\ ~ThisOn'
  BY DEF SessionInv, AllOn, AllLabels, Quiet, Opening, ThisOn, ThisLabels
<1>3. ThisInv'
  BY <1>2 DEF ThisInv
<1>4. \A p \in completed \ {0} : p \in 1 .. MaxCalls /\ p # calls
  BY <1>1, OverIsOver DEF CallInv
<1>5. HistoryInv'
  BY <1>1, <1>2, <1>4 DEF CallInv, HistoryInv, RanType
<1> QED
  BY <1>1, <1>2, <1>3, <1>5

\* A step inside StartupThisAP: nothing is asked of loops and counters.
LEMMA ThisStep ==
  ASSUME TypeOK, CallInv, SessionInv', ThisOn, ThisOn',
         UNCHANGED <<calls, ran, completed, targets, state>>,
         ThisAp' = ThisAp
  PROVE  /\ ~Quiet /\ ~Quiet' /\ ~AllOn /\ ~AllOn' /\ calls \in 1 .. MaxCalls
         /\ ThisInv' /\ LoopInv' /\ CountInv' /\ SingleInv' /\ HistoryInv'
<1>1. /\ ~Quiet /\ ~AllOn /\ calls \in 1 .. MaxCalls
  BY DEF CallInv, SessionInv, AllOn, AllLabels, Quiet, ThisOn, ThisLabels, TypeOK
<1>2. /\ ~Quiet' /\ ~AllOn'
  BY DEF SessionInv, AllOn, AllLabels, Quiet, ThisOn, ThisLabels
<1>3. ThisInv'
  BY DEF CallInv, ThisInv
<1>4. LoopInv' /\ CountInv' /\ SingleInv'
  BY <1>2 DEF SessionInv, LoopInv, CountInv, SingleInv, SingleOn, AllOn, AllLabels
<1>5. HistoryInv'
  BY <1>1, <1>2 DEF CallInv, HistoryInv, RanType
<1> QED
  BY <1>1, <1>2, <1>3, <1>4, <1>5

\* The last step of a call: every AP of it has run the procedure and is at
\* rest.
LEMMA CallEnds ==
  ASSUME TypeOK, CallInv, SessionInv', ~Quiet, Quiet',
         UNCHANGED <<calls, ran, targets, procedure, procedureLock, ap, apProcedure>>,
         completed' = completed \cup {calls},
         \A a \in targets[calls] : ap[a] = "halt" /\ state'[a] = "IDLE" /\ ran[calls][a] = 1,
         \A a \in AP : a \notin targets[calls] => state'[a] = state[a],
         \A a \in AP : ~BeingWoken(a)
  PROVE  CallInv'
<1>1. /\ ~AllOn' /\ ~ThisOn' /\ ~Opening' /\ (\A a \in AP : ~Called(a)' /\ ~BeingWoken(a)')
      /\ calls \in 1 .. MaxCalls
  BY DEF CallInv, SessionInv, AllOn, AllLabels, Quiet, Opening, ThisOn, ThisLabels, Called,
         BeingWoken, TypeOK
<1>2. \A a \in AP : ApInv(a)'
  <2> SUFFICES ASSUME NEW a \in AP PROVE ApInv(a)'
    OBVIOUS
  <2>1. ap[a] = "halt" /\ state'[a] \in {"IDLE", "DISABLED"}
    BY DEF CallInv, ApInv, OtherInv, Called
  <2>2. procedure[a] = 0 /\ ~procedureLock[a]
    BY <2>1 DEF CallInv, ApInv, WrapperInv
  <2> QED
    BY <1>1, <2>1, <2>2
       DEF ApInv, WrapperInv, PassInv, OtherInv, ThisApInv, AllApInv, HoldsLabels,
       WakingLabels, BusyLabels, RanLabels
<1>3. LoopInv' /\ ThisInv' /\ CountInv' /\ SingleInv'
  BY <1>1 DEF LoopInv, ThisInv, CountInv, SingleInv, SingleOn, Quiet
<1>4. HistoryInv'
  BY <1>1 DEF CallInv, HistoryInv, RanType
<1> QED
  BY <1>2, <1>3, <1>4 DEF CallInv

\* What NextCpu does to the context that runs the loop.
LEMMA NextCpuFacts ==
  ASSUME TypeOK, NEW x \in Ctx, NEW again, NEW end, NextCpu(x, again, end)
  PROVE  /\ pc'[x] \in {again, end} /\ cpu'[x] \in AP
         /\ \A y \in Ctx : y # x => pc'[y] = pc[y] /\ cpu'[y] = cpu[y]
         /\ cpu'[x] = cpu[x] + 1 \/ pc'[x] = end
<1>1. cpu[x] \in AP /\ (cpu[x] # NumberOfCpus - 1 => cpu[x] + 1 \in AP) /\ 1 \in AP
  BY ApFacts DEF TypeOK
<1> QED
  BY <1>1 DEF TypeOK, NextCpu, Goto

\* The APs of a call are finitely many, and so are those that are done.
LEMMA DoneIsFinite ==
  ASSUME TypeOK, calls \in 1 .. MaxCalls
  PROVE  /\ targets[calls] \subseteq AP /\ IsFiniteSet(targets[calls]) /\ IsFiniteSet(Done)
         /\ Cardinality(targets[calls]) \in Nat /\ Cardinality(Done) \in Nat
<1>1. IsFiniteSet(AP)
  BY CpuAssumption, FS_Interval DEF AP
<1>2. targets[calls] \subseteq AP /\ Done \subseteq targets[calls]
  BY DEF TypeOK, Done
<1>3. IsFiniteSet(targets[calls])
  BY <1>1, <1>2, FS_Subset
<1>4. IsFiniteSet(Done)
  BY <1>2, <1>3, FS_Subset
<1> QED
  BY <1>2, <1>3, <1>4, FS_CardinalityType

\* Done grows by the AP that becomes IDLE.
LEMMA DoneGrows ==
  ASSUME TypeOK, calls \in 1 .. MaxCalls, UNCHANGED <<calls, targets>>,
         NEW a \in targets[calls], state[a] # "IDLE", state'[a] = "IDLE",
         \A b \in AP \ {a} : state'[b] = state[b]
  PROVE  Cardinality(Done') = Cardinality(Done) + 1
<1>1. a \notin Done /\ Done' = Done \cup {a}
  BY DoneIsFinite DEF Done
<1> QED
  BY <1>1, DoneIsFinite, FS_AddElement

\* Done stays when nobody becomes IDLE.
LEMMA DoneStays ==
  ASSUME TypeOK, calls \in 1 .. MaxCalls, UNCHANGED <<calls, targets>>,
         \A b \in AP : state'[b] = "IDLE" <=> state[b] = "IDLE"
  PROVE  Done' = Done
BY DoneIsFinite DEF Done

\* The BSP writes the procedure of an AP that waits for it: the AP is halted
\* or, when the pass has already woken it, has not got past the start-up code.
LEMMA ApWritten ==
  ASSUME TypeOK, NEW a \in AP, ApInv(a), Called(a), Called(a)', AllOn' <=> AllOn,
         Opening' <=> Opening,
         InPass, state[a] = IF AllOn THEN "READY" ELSE "IDLE", BeingWoken(a)',
         UNCHANGED <<calls, state, procedureLock, ap, apProcedure, ran>>,
         procedure'[a] = calls
  PROVE  ApInv(a)'
<1>1. ap[a] \in {"halt", "boot"}
  BY DEF ApInv, PassInv, ThisApInv, AllApInv, WakingLabels
<1> QED
  BY <1>1
     DEF ApInv, WrapperInv, PassInv, OtherInv, ThisApInv, AllApInv, HoldsLabels, WakingLabels,
         BusyLabels, RanLabels

\* INIT and SIPI restart such an AP in the start-up code.
LEMMA ApWoken ==
  ASSUME TypeOK, NEW a \in AP, ApInv(a), Called(a), Called(a)', AllOn' <=> AllOn, ~Opening',
         InPass, state[a] = IF AllOn THEN "READY" ELSE "IDLE", BeingWoken(a),
         UNCHANGED <<calls, state, procedure, procedureLock, ran>>,
         ap'[a] = "boot"
  PROVE  ApInv(a)'
<1>1. ap[a] \in {"halt", "boot"}
  BY DEF ApInv, PassInv, ThisApInv, AllApInv, WakingLabels
<1>2. procedure[a] = calls /\ ~procedureLock[a] /\ ran[calls][a] = 0
  BY <1>1 DEF ApInv, WrapperInv, ThisApInv, AllApInv, HoldsLabels, WakingLabels
<1> QED
  BY <1>1, <1>2
     DEF ApInv, WrapperInv, PassInv, OtherInv, ThisApInv, AllApInv, HoldsLabels, WakingLabels,
         BusyLabels, RanLabels

\* WakeUpAp in the mainline.
LEMMA WakeUpMainKeeps ==
  ASSUME TypeOK, CallInv, WakeUpAp("main")
  PROVE  CallInv'
<1>a. PICK a \in AP : a = cpu["main"]
  BY DEF TypeOK, Ctx
<1>0. /\ a = cpu["main"] /\ pc["main"] \in MainLabels /\ pc["callback"] = "off"
         /\ pc["main"] # "off"
      /\ "main" \in Ctx /\ "callback" \in Ctx
  BY <1>a DEF Ctx, CallInv, SessionInv, WakeUpAp, Step, At
<1>1. ~checkAll /\ ~checkThis /\ UNCHANGED <<savedVars, countVars, callVars, completed, next,
                                             state, procedureLock, ran>>
  BY <1>0 DEF CallInv, SessionInv, WakeUpAp, dataVars, apVars
<1>2. InPass
  BY <1>0 DEF InPass, WakeUpAp, Step, At
<1> USE DEF savedVars, countVars, callVars
<1>3. CASE Step("main", "t_wake", "t_init") /\ WriteProcedure(a, calls) /\ UNCHANGED <<cpu,
                                                                                       apVars>>
  <2>1. pc["main"] = "t_wake" /\ pc'["main"] = "t_init" /\ pc'["callback"] = "off"
    BY <1>0, <1>3 DEF Step, At, Goto, TypeOK, Ctx
  <2>2. SessionInv' /\ ThisOn /\ ThisOn' /\ ThisAp = a /\ ThisAp' = a
    BY <1>0, <1>1, <1>3, <2>1
       DEF CallInv, SessionInv, ThisOn, ThisLabels, ThisAp, Quiet, MainLabels, CallbackLabels
  <2>3. /\ ~Quiet /\ ~Quiet' /\ ~AllOn /\ ~AllOn' /\ ThisInv' /\ LoopInv' /\ CountInv'
           /\ SingleInv' /\ HistoryInv'
    BY <1>1, <2>2, ThisStep
  <2>4. targets[calls] = {a} /\ Opening /\ Opening' /\ BeingWoken(a)'
    BY <1>0, <1>3, <2>1, <2>2 DEF CallInv, ThisInv, Opening, BeingWoken
  <2>5. \A b \in AP : (Called(b)' <=> Called(b)) /\ (b # a => ~BeingWoken(b) /\ ~BeingWoken(b)')
    BY <1>0, <1>1, <1>3, <2>1, <2>3 DEF Called, BeingWoken
  <2>6. ApInv(a)'
    <3>1. Called(a) /\ state[a] = "IDLE"
      BY <1>0, <2>3, <2>4 DEF Called, CallInv, ApInv, ThisApInv
    <3>2. procedure'[a] = calls
      BY <1>0, <1>3 DEF WriteProcedure, TypeOK
    <3> QED
      BY <1>0, <1>1, <1>2, <1>3, <2>3, <2>4, <2>5, <3>1, <3>2, ApWritten DEF CallInv, apVars
  <2>7. \A b \in AP : b # a => ApInv(b)'
    BY <1>0, <1>1, <1>2, <1>3, <2>3, <2>4, <2>5, ApStays
       DEF CallInv, SameAp, SameCall, WriteProcedure, apVars, TypeOK
  <2> QED
    BY <2>2, <2>3, <2>6, <2>7 DEF CallInv
<1>4. CASE Step("main", "a_wake", "a_init") /\ WriteProcedure(a, calls) /\ UNCHANGED <<cpu,
                                                                                       apVars>>
  <2>1. pc["main"] = "a_wake" /\ pc'["main"] = "a_init" /\ pc'["callback"] = "off"
    BY <1>0, <1>4 DEF Step, At, Goto, TypeOK, Ctx
  <2>2. SessionInv' /\ AllOn /\ AllOn'
    BY <1>0, <1>1, <1>4, <2>1
       DEF CallInv, SessionInv, AllOn, AllLabels, Quiet, MainLabels, CallbackLabels
  <2>3. ~Quiet /\ ~Quiet' /\ ~Opening /\ ~Opening' /\ ThisInv' /\ HistoryInv'
    BY <1>1, <2>2, AllStep
  <2>4. state[a] = "READY" /\ Called(a) /\ BeingWoken(a)'
    BY <1>0, <1>4, <2>1, WhoRuns DEF CallInv, LoopInv, BeingWoken
  <2>5. \A b \in AP : (Called(b)' <=> Called(b)) /\ (b # a => ~BeingWoken(b) /\ ~BeingWoken(b)')
    BY <1>0, <1>1, <1>4, <2>1, <2>3 DEF Called, BeingWoken
  <2>6. ApInv(a)'
    <3>1. procedure'[a] = calls
      BY <1>0, <1>4 DEF WriteProcedure, TypeOK
    <3> QED
      BY <1>0, <1>1, <1>2, <1>4, <2>2, <2>3, <2>4, <2>5, <3>1, ApWritten DEF CallInv, apVars
  <2>7. \A b \in AP : b # a => ApInv(b)'
    BY <1>0, <1>1, <1>2, <1>4, <2>2, <2>3, <2>4, <2>5, ApStays
       DEF CallInv, SameAp, SameCall, WriteProcedure, apVars, TypeOK
  <2>8. LoopInv' /\ CountInv'
    BY <1>0, <1>1, <1>4, <2>1, <2>2, <2>4 DEF CallInv, LoopInv, CountInv, Done
  <2>9. SingleInv'
    BY <1>0, <1>1, <1>4, <2>1, <2>2 DEF CallInv, SingleInv, SingleOn, HasTurn, Relieved
  <2> QED
    BY <2>2, <2>3, <2>6, <2>7, <2>8, <2>9 DEF CallInv
<1>5. CASE Step("main", "t_init", "t_poll") /\ InitSipi(a) /\ UNCHANGED <<cpu, procedure>>
  <2>1. pc["main"] = "t_init" /\ pc'["main"] = "t_poll" /\ pc'["callback"] = "off"
    BY <1>0, <1>5 DEF Step, At, Goto, TypeOK, Ctx
  <2>2. SessionInv' /\ ThisOn /\ ThisOn' /\ ThisAp = a /\ ThisAp' = a
    BY <1>0, <1>1, <1>5, <2>1
       DEF CallInv, SessionInv, ThisOn, ThisLabels, ThisAp, Quiet, MainLabels, CallbackLabels
  <2>3. /\ ~Quiet /\ ~Quiet' /\ ~AllOn /\ ~AllOn' /\ ThisInv' /\ LoopInv' /\ CountInv'
           /\ SingleInv' /\ HistoryInv'
    BY <1>1, <2>2, ThisStep
  <2>4. targets[calls] = {a} /\ Opening /\ ~Opening' /\ BeingWoken(a)
    BY <1>0, <1>5, <2>1, <2>2 DEF CallInv, ThisInv, Opening, BeingWoken
  <2>5. \A b \in AP : (Called(b)' <=> Called(b)) /\ (b # a => ~BeingWoken(b)
        /\ ~BeingWoken(b)' /\ ~Called(b))
    BY <1>0, <1>1, <1>5, <2>1, <2>3, <2>4 DEF Called, BeingWoken
  <2>6. ApInv(a)'
    <3>1. Called(a) /\ state[a] = "IDLE"
      BY <1>0, <2>3, <2>4 DEF Called, CallInv, ApInv, ThisApInv
    <3>2. ap'[a] = "boot"
      BY <1>0, <1>5 DEF InitSipi, TypeOK
    <3> QED
      BY <1>0, <1>1, <1>2, <1>5, <2>3, <2>4, <2>5, <3>1, <3>2, ApWoken DEF CallInv
  <2>7. \A b \in AP : b # a => ApInv(b)'
    <3> SUFFICES ASSUME NEW b \in AP, b # a PROVE ApInv(b)'
      OBVIOUS
    <3>1. ap'[b] = "halt" /\ ap[b] = "halt" /\ state[b] \in {"IDLE", "DISABLED"}
          /\ procedure[b] = 0 /\ ~procedureLock[b]
      BY <1>0, <1>5, <2>5 DEF CallInv, ApInv, OtherInv, WrapperInv, InitSipi, TypeOK
    <3> QED
      BY <1>1, <1>5, <2>3, <2>5, <3>1
         DEF ApInv, WrapperInv, PassInv, OtherInv, ThisApInv, AllApInv, HoldsLabels,
             WakingLabels, BusyLabels, RanLabels
  <2> QED
    BY <2>2, <2>3, <2>6, <2>7 DEF CallInv
<1>6. CASE At("main", "a_init") /\ InitSipi(a) /\ NextCpu("main", "a_look", "a_end")
      /\ UNCHANGED procedure
  <2>1. pc["main"] = "a_init" /\ pc'["main"] \in {"a_look", "a_end"} /\ pc'["callback"] = "off"
    BY <1>0, <1>6, NextCpuFacts DEF At
  <2>2. SessionInv' /\ AllOn /\ AllOn'
    BY <1>0, <1>1, <2>1
       DEF CallInv, SessionInv, AllOn, AllLabels, Quiet, MainLabels, CallbackLabels
  <2>3. ~Quiet /\ ~Quiet' /\ ~Opening /\ ~Opening' /\ ThisInv' /\ HistoryInv'
    BY <1>1, <2>2, AllStep
  <2>4. state[a] = "READY" /\ Called(a) /\ BeingWoken(a)
    BY <1>0, <2>1, WhoRuns DEF CallInv, LoopInv, BeingWoken
  <2>5. \A b \in AP : (Called(b)' <=> Called(b)) /\ (b # a => ~BeingWoken(b) /\ ~BeingWoken(b)')
    BY <1>0, <1>1, <2>1, <2>3 DEF Called, BeingWoken
  <2>6. ApInv(a)'
    <3>1. ap'[a] = "boot"
      BY <1>0, <1>6 DEF InitSipi, TypeOK
    <3> QED
      BY <1>0, <1>1, <1>2, <1>6, <2>2, <2>3, <2>4, <2>5, <3>1, ApWoken DEF CallInv
  <2>7. \A b \in AP : b # a => ApInv(b)'
    BY <1>0, <1>1, <1>2, <1>6, <2>2, <2>3, <2>4, <2>5, ApStays
       DEF CallInv, SameAp, SameCall, InitSipi, TypeOK
  <2>8. LoopInv' /\ CountInv'
    BY <1>0, <1>1, <2>1, <2>2 DEF CallInv, LoopInv, CountInv, Done
  <2>9. SingleInv'
    BY <1>0, <1>1, <2>1, <2>2 DEF CallInv, SingleInv, SingleOn, HasTurn, Relieved
  <2> QED
    BY <2>2, <2>3, <2>6, <2>7, <2>8, <2>9 DEF CallInv
<1> QED
  BY <1>0, <1>3, <1>4, <1>5, <1>6 DEF WakeUpAp, Step, At, MainLabels, dataVars, apVars

\* WakeUpAp in the callback: of the AP the loop is at, or of the next one
\* that was blocked.
LEMMA WakeUpCallbackKeeps ==
  ASSUME TypeOK, CallInv, WakeUpAp("callback")
  PROVE  CallInv'
<1>0. /\ pc["callback"] \in {"c_wake", "c_init", "n_wake", "n_init"} /\ pc["main"] = "off"
         /\ checkAll
      /\ savedProcedure = calls /\ "main" \in Ctx /\ "callback" \in Ctx
      /\ cpu["callback"] \in AP /\ next \in AP
  BY DEF TypeOK, Ctx, CallInv, SessionInv, WakeUpAp, Step, At, CallbackLabels
<1>1. UNCHANGED <<savedVars, countVars, callVars, completed, next, state, procedureLock, ran>>
  BY DEF WakeUpAp, dataVars, apVars
<1>2. InPass
  BY <1>0 DEF InPass
<1> USE DEF savedVars, countVars, callVars
<1>3. /\ pc'["main"] = "off"
      /\ pc["callback"] = "c_wake" => pc'["callback"] = "c_init"
      /\ pc["callback"] = "n_wake" => pc'["callback"] = "n_init"
      /\ pc["callback"] = "c_init" => pc'["callback"] \in {"c_look", "c_end"}
      /\ pc["callback"] = "n_init" => pc'["callback"] = "c_idle"
      /\ pc["callback"] # "c_init" => cpu' = cpu
  BY <1>0, NextCpuFacts DEF WakeUpAp, Step, At, Goto, TypeOK, Ctx
<1>4. SessionInv' /\ AllOn /\ AllOn'
  BY <1>0, <1>1, <1>3
     DEF CallInv, SessionInv, AllOn, AllLabels, Quiet, MainLabels, CallbackLabels
<1>5. ~Quiet /\ ~Quiet' /\ ~Opening /\ ~Opening' /\ ThisInv' /\ HistoryInv'
  BY <1>1, <1>4, AllStep
<1>6. LoopInv' /\ CountInv'
  BY <1>0, <1>1, <1>3, <1>4 DEF CallInv, LoopInv, CountInv, Done
<1>7. SingleInv'
  BY <1>0, <1>1, <1>3, <1>4 DEF CallInv, SingleInv, SingleOn, HasTurn, Relieved
<1>8. PICK a \in AP : a = IF pc["callback"] \in {"c_wake",
      "c_init"} THEN cpu["callback"] ELSE next
  BY <1>0
<1>9. state[a] = "READY" /\ Called(a)
  BY <1>0, <1>8, WhoRuns DEF CallInv, LoopInv
<1>10. \A b \in AP : (Called(b)' <=> Called(b)) /\ (b # a => ~BeingWoken(b) /\ ~BeingWoken(b)')
  BY <1>0, <1>1, <1>3, <1>5, <1>8 DEF Called, BeingWoken
<1>11. CASE pc["callback"] \in {"c_wake", "n_wake"}
  <2>1. WriteProcedure(a, calls) /\ UNCHANGED apVars
    BY <1>0, <1>8, <1>11 DEF WakeUpAp, Step, At
  <2>2. ApInv(a)'
    <3>1. procedure'[a] = calls /\ BeingWoken(a)'
      BY <1>1, <1>3, <1>8, <1>11, <2>1 DEF WriteProcedure, TypeOK, BeingWoken
    <3> QED
      BY <1>1, <1>2, <1>4, <1>5, <1>9, <1>10, <2>1, <3>1, ApWritten DEF CallInv, apVars
  <2>3. \A b \in AP : b # a => ApInv(b)'
    BY <1>1, <1>2, <1>4, <1>5, <1>10, <2>1, ApStays
       DEF CallInv, SameAp, SameCall, WriteProcedure, apVars, TypeOK
  <2> QED
    BY <1>4, <1>5, <1>6, <1>7, <2>2, <2>3 DEF CallInv
<1>12. CASE pc["callback"] \in {"c_init", "n_init"}
  <2>1. InitSipi(a) /\ UNCHANGED procedure
    BY <1>0, <1>8, <1>12 DEF WakeUpAp, Step, At, dataVars
  <2>2. ApInv(a)'
    <3>1. ap'[a] = "boot" /\ BeingWoken(a)
      BY <1>8, <1>12, <2>1 DEF InitSipi, TypeOK, BeingWoken
    <3> QED
      BY <1>1, <1>2, <1>4, <1>5, <1>9, <1>10, <2>1, <3>1, ApWoken DEF CallInv
  <2>3. \A b \in AP : b # a => ApInv(b)'
    BY <1>1, <1>2, <1>4, <1>5, <1>10, <2>1, ApStays
       DEF CallInv, SameAp, SameCall, InitSipi, TypeOK
  <2> QED
    BY <1>4, <1>5, <1>6, <1>7, <2>2, <2>3 DEF CallInv
<1> QED
  BY <1>0, <1>11, <1>12

\* StartupThisAP sees its AP FINISHED and returns EFI_SUCCESS.
LEMMA ThisApFinishedKeeps ==
  ASSUME TypeOK, CallInv, ThisApFinished
  PROVE  CallInv'
<1> USE DEF ThisApFinished, savedVars, countVars, callVars, apVars
<1>0. PICK a \in AP : a = cpu["main"]
  BY DEF TypeOK, Ctx
<1>1. /\ pc["main"] = "t_poll" /\ pc["callback"] = "off" /\ pc'["main"] = "off"
         /\ pc'["callback"] = "off"
      /\ completed' = completed \cup {calls} /\ ~checkAll /\ ~checkThis
  BY DEF At, Goto, Succeed, TypeOK, Ctx, CallInv, SessionInv
<1>2. ~Quiet /\ Quiet' /\ SessionInv' /\ targets[calls] = {a} /\ ~AllOn
  BY <1>0, <1>1
     DEF Quiet, CallInv, SessionInv, ThisInv, ThisOn, ThisLabels, ThisAp, AllOn, AllLabels,
         MainLabels, CallbackLabels
<1>3. state[a] = "FINISHED" /\ state'[a] = "IDLE" /\ \A b \in AP : b # a => state'[b] = state[b]
  BY <1>0 DEF Finished, BackToIdle, SetState, TypeOK
<1>4. ap[a] = "halt" /\ ran[calls][a] = 1
  BY <1>2, <1>3 DEF CallInv, ApInv, ThisApInv, Called
<1>5. \A b \in AP : ~BeingWoken(b)
  BY <1>1 DEF BeingWoken
<1> QED
  BY <1>1, <1>2, <1>3, <1>4, <1>5, CallEnds

\* StartupThisAP leaves its AP to the callback.
LEMMA ThisApTimeoutKeeps ==
  ASSUME TypeOK, CallInv, ThisApTimeout
  PROVE  CallInv'
<1> USE DEF ThisApTimeout, countVars, callVars, apVars, dataVars
<1>1. /\ pc["main"] = "t_poll" /\ pc["callback"] = "off" /\ pc'["main"] = "off"
         /\ pc'["callback"] = "off"
      /\ ~checkAll /\ ~checkThis
  BY DEF At, Goto, TypeOK, Ctx, CallInv, SessionInv
<1>2. SessionInv' /\ ThisOn /\ ThisOn' /\ ThisAp' = ThisAp
  BY <1>1 DEF Quiet, CallInv, SessionInv, ThisOn, ThisLabels, ThisAp, MainLabels, CallbackLabels
<1>3. ~Quiet /\ ~Quiet' /\ ~AllOn /\ ~AllOn' /\ ThisInv' /\ LoopInv' /\ CountInv'
      /\ SingleInv' /\ HistoryInv'
  BY <1>2, ThisStep
<1>4. ~InPass' /\ \A b \in AP : (Called(b)' <=> Called(b)) /\ ~BeingWoken(b) /\ ~BeingWoken(b)'
  BY <1>1, <1>3 DEF Called, BeingWoken, InPass, Ctx
<1>5. \A b \in AP : ApInv(b)'
  BY <1>1, <1>3, <1>4, ApStays DEF CallInv, SameAp, SameCall, Opening
<1> QED
  BY <1>2, <1>3, <1>5 DEF CallInv

\* CheckThisAPStatus sees the AP FINISHED and signals the caller's event.
LEMMA CheckThisAPStatusKeeps ==
  ASSUME TypeOK, CallInv, CheckThisAPStatus
  PROVE  CallInv'
<1> USE DEF CheckThisAPStatus, countVars, callVars, apVars, ctxVars
<1>0. PICK a \in AP : a = startedCpu
  BY DEF TypeOK
<1>1. /\ pc["main"] = "off" /\ pc["callback"] = "off" /\ ~checkAll /\ checkThis
         /\ waitEvent = calls
      /\ pc'["main"] = "off" /\ pc'["callback"] = "off" /\ ~checkAll' /\ ~checkThis'
  BY DEF CallInv, SessionInv
<1>2. ~Quiet /\ Quiet' /\ SessionInv' /\ targets[calls] = {a} /\ ~AllOn
  BY <1>0, <1>1
     DEF Quiet, CallInv, SessionInv, ThisInv, ThisOn, ThisLabels, ThisAp, AllOn, AllLabels,
         MainLabels, CallbackLabels
<1>3. state[a] = "FINISHED" /\ state'[a] = "IDLE" /\ \A b \in AP : b # a => state'[b] = state[b]
  BY <1>0 DEF Finished, BackToIdle, SetState, TypeOK
<1>4. ap[a] = "halt" /\ ran[calls][a] = 1
  BY <1>2, <1>3 DEF CallInv, ApInv, ThisApInv, Called
<1>5. \A b \in AP : ~BeingWoken(b)
  BY <1>1 DEF BeingWoken
<1> QED
  BY <1>1, <1>2, <1>3, <1>4, <1>5, CallEnds

\* A step of the polling loop of StartupAllAPs in the mainline.
LEMMA MainLoop ==
  ASSUME TypeOK, CallInv, pc["main"] \in AllLabels, pc["callback"] = "off",
         pc'["main"] \in AllLabels, pc'["callback"] = "off",
         UNCHANGED <<calls, ran, completed, savedVars>>,
         \A p \in 1 .. MaxCalls : p # calls => targets'[p] = targets[p]
  PROVE  /\ SessionInv' /\ ThisInv' /\ HistoryInv'
         /\ AllOn /\ AllOn' /\ ~Quiet /\ ~Quiet' /\ ~Opening /\ ~Opening'
         /\ ~checkAll /\ ~checkAll' /\ calls \in 1 .. MaxCalls
<1>1. SessionInv' /\ AllOn /\ AllOn' /\ ~checkAll /\ ~checkAll'
  BY DEF CallInv, SessionInv, AllOn, AllLabels, MainLabels, CallbackLabels, Quiet, savedVars
<1> QED
  BY <1>1, AllStep

\* It makes the next idle AP READY, or BLOCKED behind the first.
LEMMA PrepareApKeeps ==
  ASSUME TypeOK, CallInv, PrepareAp
  PROVE  CallInv'
<1> USE DEF PrepareAp, apVars
<1>0. PICK a \in AP : a = cpu["main"]
  BY DEF TypeOK, Ctx
<1>1. /\ pc["main"] = "a_prepare" /\ pc["callback"] = "off"
      /\ pc'["main"] \in {"a_prepare", "a_look"} /\ pc'["callback"] = "off"
      /\ pc'["main"] = "a_prepare" => cpu'["main"] = a + 1
  BY <1>0, NextCpuFacts DEF At, Ctx
<1>2. \A p \in 1 .. MaxCalls : p # calls => targets'[p] = targets[p]
  BY DEF TypeOK
<1>3. /\ SessionInv' /\ ThisInv' /\ HistoryInv'
      /\ AllOn /\ AllOn' /\ ~Quiet /\ ~Quiet' /\ ~Opening /\ ~Opening'
      /\ ~checkAll /\ ~checkAll' /\ calls \in 1 .. MaxCalls
  BY <1>1, <1>2, MainLoop DEF AllLabels
<1>4. /\ InPass /\ \A b \in AP : ~BeingWoken(b) /\ ~BeingWoken(b)'
  BY <1>1 DEF InPass, BeingWoken, Ctx
<1>5. /\ \A b \in targets[calls] : b < a /\ b < a + 1 /\ b \in AP /\ state[b] \in {"READY",
         "BLOCKED"}
      /\ a < a + 1 /\ a \notin targets[calls]
      /\ \A b \in AP \ targets[calls] : ran[calls][b] = 0
  <2>1. /\ \A b \in targets[calls] : b \in AP /\ b < a /\ state[b] \in {"READY", "BLOCKED"}
        /\ \A b \in AP \ targets[calls] : ran[calls][b] = 0
    BY <1>0, <1>1, <1>3 DEF CallInv, LoopInv, TypeOK
  <2>2. \A b \in AP : b \in Nat
    BY ApFacts
  <2> QED
    BY <2>1, <2>2
<1>6. Done = {} /\ Cardinality(Done) = 0
  BY <1>5, FS_EmptySet DEF Done
<1>7. CASE state[a] = "IDLE"
  <2>1. /\ state'[a] = (IF single /\ startCount > 0 THEN "BLOCKED" ELSE "READY")
        /\ \A b \in AP : b # a => state'[b] = state[b]
        /\ startCount' = startCount + 1 /\ targets'[calls] = targets[calls] \cup {a}
    BY <1>0, <1>3, <1>7 DEF SetState, APInitialState, TypeOK
  <2>2. ApInv(a)'
    <3>1. ~Called(a) /\ Called(a)'
      BY <1>3, <1>5, <2>1 DEF Called
    <3>2. ap[a] = "halt" /\ procedure[a] = 0 /\ ~procedureLock[a]
      BY <1>4, <3>1 DEF CallInv, ApInv, OtherInv, WrapperInv
    <3>3. ran[calls][a] = 0
      BY <1>1, <1>5 DEF CallInv, LoopInv
    <3> QED
      BY <1>3, <1>4, <2>1, <3>1, <3>2, <3>3
         DEF ApInv, WrapperInv, PassInv, OtherInv, ThisApInv, AllApInv, HoldsLabels,
         WakingLabels, BusyLabels, RanLabels
  <2>3. \A b \in AP : b # a => ApInv(b)'
    <3>1. \A b \in AP : b # a => (Called(b)' <=> Called(b))
      BY <1>3, <2>1 DEF Called
    <3> QED
      BY <1>3, <1>4, <2>1, <3>1, ApStays DEF CallInv, SameAp, SameCall
  <2>4. LoopInv'
    BY <1>1, <1>5, <2>1 DEF LoopInv
  <2>5. CountInv'
    <3>1. Done' = {}
      BY <1>5, <2>1 DEF Done
    <3>2. Cardinality(targets'[calls]) = Cardinality(targets[calls]) + 1
      <4>1. IsFiniteSet(targets[calls])
        BY <1>3, DoneIsFinite
      <4>2. Cardinality(targets[calls] \cup {a}) = Cardinality(targets[calls]) + 1
        BY <1>5, <4>1, FS_AddElement
      <4> QED
        BY <2>1, <4>2
    <3> QED
      BY <1>1, <1>3, <1>6, <2>1, <3>1, <3>2 DEF CallInv, CountInv
  <2>6. SingleInv'
    <3>1. startCount = 0 => targets[calls] = {}
      BY <1>3, DoneIsFinite, FS_EmptySet DEF CallInv, CountInv
    <3>2. \A b \in AP : b \notin targets[calls] => state[b] \in {"IDLE", "DISABLED"}
      BY <1>3 DEF CallInv, ApInv, OtherInv, Called
    <3>3. startCount \in Nat
      BY DEF TypeOK
    <3> QED
      BY <1>1, <1>3, <2>1, <3>1, <3>2, <3>3 DEF CallInv, SingleInv, SingleOn, HasTurn, Relieved
  <2> QED
    BY <1>3, <2>2, <2>3, <2>4, <2>5, <2>6 DEF CallInv
<1>8. CASE state[a] # "IDLE"
  <2>1. UNCHANGED <<state, startCount, targets>>
    BY <1>0, <1>8
  <2>2. \A b \in AP : ApInv(b)'
    <3>1. \A b \in AP : (Called(b)' <=> Called(b))
      BY <1>3, <2>1 DEF Called
    <3> QED
      BY <1>3, <1>4, <2>1, <3>1, ApStays DEF CallInv, SameAp, SameCall
  <2>3. LoopInv'
    BY <1>1, <1>5, <2>1 DEF LoopInv
  <2>4. CountInv' /\ SingleInv'
    BY <1>1, <1>3, <2>1 DEF CallInv, CountInv, Done, SingleInv, SingleOn, HasTurn, Relieved
  <2> QED
    BY <1>3, <2>2, <2>3, <2>4 DEF CallInv
<1> QED
  BY <1>7, <1>8

\* It looks at an AP.
LEMMA LookAtApKeeps ==
  ASSUME TypeOK, CallInv, LookAtAp
  PROVE  CallInv'
<1> USE DEF LookAtAp, apVars, dataVars, countVars, callVars
<1>1. /\ pc["main"] = "a_look" /\ pc["callback"] = "off" /\ pc'["callback"] = "off"
      /\ pc'["main"] \in {"a_wake", "a_finished", "a_look", "a_end"}
      /\ pc'["main"] = "a_wake" => state[cpu["main"]] = "READY" /\ cpu' = cpu
      /\ pc'["main"] = "a_finished" => state[cpu["main"]] = "FINISHED" /\ cpu' = cpu
  BY NextCpuFacts DEF Step, At, Goto, Finished, Ctx, TypeOK
<1>2. /\ SessionInv' /\ ThisInv' /\ HistoryInv'
      /\ AllOn /\ AllOn' /\ ~Quiet /\ ~Quiet' /\ ~Opening /\ ~Opening'
      /\ ~checkAll /\ ~checkAll' /\ calls \in 1 .. MaxCalls
  BY <1>1, MainLoop DEF AllLabels
<1>3. /\ InPass /\ \A b \in AP : ~BeingWoken(b) /\ ~BeingWoken(b)' /\ (Called(b)' <=> Called(b))
  BY <1>1, <1>2 DEF InPass, BeingWoken, Called, Ctx
<1>4. \A b \in AP : ApInv(b)'
  BY <1>2, <1>3, ApStays DEF CallInv, SameAp, SameCall
<1>5. LoopInv' /\ CountInv' /\ SingleInv'
  BY <1>1, <1>2 DEF CallInv, LoopInv, CountInv, Done, SingleInv, SingleOn, HasTurn, Relieved
<1> QED
  BY <1>2, <1>4, <1>5 DEF CallInv

\* An AP that is done goes back to IDLE.
LEMMA ApBackToIdle ==
  ASSUME NEW a \in AP, ApInv(a), Called(a), Called(a)', AllOn, AllOn', ~Opening',
         state[a] = "FINISHED", state'[a] = "IDLE", ~BeingWoken(a), ~BeingWoken(a)',
         UNCHANGED <<calls, procedure, procedureLock, ap, apProcedure, ran>>
  PROVE  ApInv(a)'
<1>1. ap[a] = "halt" /\ ran[calls][a] = 1
  BY DEF ApInv, AllApInv
<1> QED
  BY <1>1
     DEF ApInv, WrapperInv, PassInv, OtherInv, ThisApInv, AllApInv, HoldsLabels, WakingLabels,
         BusyLabels, RanLabels

\* The first blocked AP becomes READY.
LEMMA ApUnblocked ==
  ASSUME NEW a \in AP, ApInv(a), Called(a), Called(a)', AllOn, AllOn', ~Opening',
         state[a] = "BLOCKED", state'[a] = "READY", ~BeingWoken(a), ~BeingWoken(a)',
         UNCHANGED <<calls, procedure, procedureLock, ap, apProcedure, ran>>
  PROVE  ApInv(a)'
<1>1. ap[a] = "halt" /\ ran[calls][a] = 0
  BY DEF ApInv, AllApInv
<1> QED
  BY <1>1
     DEF ApInv, WrapperInv, PassInv, OtherInv, ThisApInv, AllApInv, HoldsLabels, WakingLabels,
         BusyLabels, RanLabels

\* The loop counts an AP that has FINISHED; with SingleThread it makes the
\* next one READY first.
LEMMA ApFinishedKeeps ==
  ASSUME TypeOK, CallInv, ApFinished
  PROVE  CallInv'
<1> USE DEF ApFinished, apVars, callVars
<1>0. PICK a \in AP : a = cpu["main"]
  BY DEF TypeOK, Ctx
<1>1. /\ pc["main"] = "a_finished" /\ pc["callback"] = "off" /\ pc'["callback"] = "off"
      /\ pc'["main"] \in {"a_idle", "a_look", "a_end"} /\ finishCount' = finishCount + 1
  BY NextCpuFacts DEF At, Goto, Ctx, TypeOK
<1>2. /\ SessionInv' /\ ThisInv' /\ HistoryInv'
      /\ AllOn /\ AllOn' /\ ~Quiet /\ ~Quiet' /\ ~Opening /\ ~Opening'
      /\ ~checkAll /\ ~checkAll' /\ calls \in 1 .. MaxCalls
  BY <1>1, MainLoop DEF AllLabels
<1>3. /\ InPass /\ \A b \in AP : ~BeingWoken(b) /\ ~BeingWoken(b)' /\ (Called(b)' <=> Called(b))
  BY <1>1, <1>2 DEF InPass, BeingWoken, Called, Ctx
<1>4. state[a] = "FINISHED" /\ Called(a) /\ a \in targets[calls]
  BY <1>0, <1>1, WhoRuns DEF CallInv, LoopInv, Called
<1>5. finishCount = Cardinality(Done) /\ Cardinality(Done) \in Nat
      /\ startCount = Cardinality(targets[calls])
  BY <1>1, <1>2, DoneIsFinite DEF CallInv, CountInv
<1>6. CASE single /\ \E n \in AP : GetNextBlockedCpuNumber(n) /\ SetState(n, "READY")
      /\ Goto("main", "a_idle") /\ UNCHANGED cpu
  <2>1. PICK n \in AP : state[n] = "BLOCKED" /\ SetState(n, "READY")
        /\ pc'["main"] = "a_idle" /\ UNCHANGED cpu
    BY <1>6 DEF GetNextBlockedCpuNumber, Blocked, Goto, TypeOK, Ctx
  <2>2. state'[n] = "READY" /\ \A b \in AP : b # n => state'[b] = state[b]
    BY <2>1 DEF SetState, TypeOK
  <2>3. ApInv(n)'
    <3>1. Called(n)
      BY <2>1, WhoRuns DEF CallInv
    <3> QED
      BY <1>2, <1>3, <2>1, <2>2, <3>1, ApUnblocked DEF CallInv
  <2>4. \A b \in AP : b # n => ApInv(b)'
    BY <1>2, <1>3, <2>2, ApStays DEF CallInv, SameAp, SameCall
  <2>5. LoopInv'
    BY <1>0, <1>1, <1>4, <2>1, <2>2 DEF LoopInv
  <2>6. CountInv'
    <3>1. Done' = Done
      BY <1>2, <2>1, <2>2, DoneStays
    <3> QED
      BY <1>1, <1>5, <2>1, <3>1 DEF CountInv
  <2>7. SingleInv'
    BY <1>0, <1>1, <1>2, <1>4, <2>1, <2>2 DEF CallInv, SingleInv, SingleOn, HasTurn, Relieved
  <2> QED
    BY <1>2, <2>3, <2>4, <2>5, <2>6, <2>7 DEF CallInv
<1>7. CASE BackToIdle(a) /\ NextCpu("main", "a_look", "a_end")
  <2>1. state'[a] = "IDLE" /\ (\A b \in AP : b # a => state'[b] = state[b])
        /\ pc'["main"] \in {"a_look", "a_end"}
    BY <1>7, NextCpuFacts DEF BackToIdle, SetState, TypeOK, Ctx
  <2>2. ApInv(a)'
    BY <1>2, <1>3, <1>4, <2>1, ApBackToIdle DEF CallInv
  <2>3. \A b \in AP : b # a => ApInv(b)'
    BY <1>2, <1>3, <2>1, ApStays DEF CallInv, SameAp, SameCall
  <2>4. LoopInv'
    BY <1>1, <2>1 DEF LoopInv
  <2>5. CountInv'
    <3>1. Cardinality(Done') = Cardinality(Done) + 1
      BY <1>2, <1>4, <2>1, DoneGrows
    <3> QED
      BY <1>1, <1>5, <2>1, <3>1 DEF CountInv
  <2>6. SingleInv'
    BY <1>1, <1>2, <2>1 DEF CallInv, SingleInv, SingleOn, HasTurn, Relieved
  <2> QED
    BY <1>2, <2>2, <2>3, <2>4, <2>5, <2>6 DEF CallInv
<1> QED
  BY <1>0, <1>6, <1>7

\* It lets an AP that was counted go back to IDLE.
LEMMA ApIdleKeeps ==
  ASSUME TypeOK, CallInv, ApIdle
  PROVE  CallInv'
<1> USE DEF ApIdle, apVars, callVars, countVars
<1>0. PICK a \in AP : a = cpu["main"]
  BY DEF TypeOK, Ctx
<1>1. /\ pc["main"] = "a_idle" /\ pc["callback"] = "off" /\ pc'["callback"] = "off"
      /\ pc'["main"] \in {"a_look", "a_end"}
  BY NextCpuFacts DEF At, Goto, Ctx, TypeOK
<1>2. /\ SessionInv' /\ ThisInv' /\ HistoryInv'
      /\ AllOn /\ AllOn' /\ ~Quiet /\ ~Quiet' /\ ~Opening /\ ~Opening'
      /\ ~checkAll /\ ~checkAll' /\ calls \in 1 .. MaxCalls
  BY <1>1, MainLoop DEF AllLabels
<1>3. /\ InPass /\ \A b \in AP : ~BeingWoken(b) /\ ~BeingWoken(b)' /\ (Called(b)' <=> Called(b))
  BY <1>1, <1>2 DEF InPass, BeingWoken, Called, Ctx
<1>4. state[a] = "FINISHED" /\ Called(a) /\ a \in targets[calls]
  BY <1>0, <1>1, WhoRuns DEF CallInv, LoopInv, Called
<1>5. state'[a] = "IDLE" /\ \A b \in AP : b # a => state'[b] = state[b]
  BY <1>0 DEF BackToIdle, SetState, TypeOK
<1>6. ApInv(a)'
  BY <1>2, <1>3, <1>4, <1>5, ApBackToIdle DEF CallInv
<1>7. \A b \in AP : b # a => ApInv(b)'
  BY <1>2, <1>3, <1>5, ApStays DEF CallInv, SameAp, SameCall
<1>8. LoopInv'
  BY <1>1, <1>5 DEF LoopInv
<1>9. CountInv'
  <2>1. finishCount = Cardinality(Done) + 1 /\ Cardinality(Done) \in Nat
        /\ startCount = Cardinality(targets[calls])
    BY <1>1, <1>2, DoneIsFinite DEF CallInv, CountInv
  <2>2. Cardinality(Done') = Cardinality(Done) + 1
    BY <1>2, <1>4, <1>5, DoneGrows
  <2> QED
    BY <1>1, <2>1, <2>2 DEF CountInv
<1>10. SingleInv'
  BY <1>0, <1>1, <1>2, <1>5 DEF CallInv, SingleInv, SingleOn, HasTurn, Relieved
<1> QED
  BY <1>2, <1>6, <1>7, <1>8, <1>9, <1>10 DEF CallInv

\* A call whose FinishCount has reached StartCount has all its APs IDLE again.
LEMMA AllCounted ==
  ASSUME TypeOK, CallInv, AllOn, pc["main"] # "a_idle", finishCount = startCount
  PROVE  \A a \in targets[calls] : a \in AP /\ state[a] = "IDLE" /\ ap[a] = "halt"
            /\ ran[calls][a] = 1
<1>1. ~Quiet /\ calls \in 1 .. MaxCalls
  BY DEF CallInv, SessionInv, AllOn, AllLabels, Quiet, TypeOK
<1>2. Cardinality(Done) = Cardinality(targets[calls])
  BY <1>1, DoneIsFinite DEF CallInv, CountInv
<1>3. Done \in SUBSET targets[calls] /\ IsFiniteSet(targets[calls])
      /\ targets[calls] \subseteq AP
  BY <1>1, DoneIsFinite DEF Done
<1>4. Done = targets[calls]
  BY <1>2, <1>3, FS_Subset
<1> QED
  BY <1>1, <1>3, <1>4 DEF Done, CallInv, ApInv, AllApInv, Called

\* StartupAllAPs returns EFI_SUCCESS.
LEMMA AllApsFinishedKeeps ==
  ASSUME TypeOK, CallInv, AllApsFinished
  PROVE  CallInv'
<1> USE DEF AllApsFinished, apVars, callVars, countVars, dataVars, savedVars
<1>1. /\ pc["main"] = "a_end" /\ pc["callback"] = "off" /\ pc'["main"] = "off"
         /\ pc'["callback"] = "off"
      /\ completed' = completed \cup {calls} /\ ~checkAll /\ ~checkThis
  BY DEF At, Goto, Succeed, TypeOK, Ctx, CallInv, SessionInv
<1>2. ~Quiet /\ Quiet' /\ SessionInv' /\ AllOn
  BY <1>1 DEF Quiet, CallInv, SessionInv, AllOn, AllLabels, MainLabels, CallbackLabels
<1>3. \A b \in AP : ~BeingWoken(b)
  BY <1>1 DEF BeingWoken
<1>4. \A a \in targets[calls] : state'[a] = "IDLE" /\ ap[a] = "halt" /\ ran[calls][a] = 1
  BY <1>1, <1>2, AllCounted
<1> QED
  BY <1>1, <1>2, <1>3, <1>4, CallEnds

\* The loop starts another pass once every AP it has woken is BUSY.
LEMMA PollAgainKeeps ==
  ASSUME Timely, TypeOK, CallInv, PollAgain
  PROVE  CallInv'
<1> USE DEF PollAgain, apVars, dataVars, countVars, callVars
<1>1. /\ pc["main"] = "a_end" /\ pc["callback"] = "off" /\ pc'["callback"] = "off"
         /\ pc'["main"] = "a_look"
  BY DEF Step, At, Goto, Ctx, TypeOK
<1>2. /\ SessionInv' /\ ThisInv' /\ HistoryInv'
      /\ AllOn /\ AllOn' /\ ~Quiet /\ ~Quiet' /\ ~Opening /\ ~Opening'
      /\ ~checkAll /\ ~checkAll' /\ calls \in 1 .. MaxCalls
  BY <1>1, MainLoop DEF AllLabels
<1>3. /\ \A b \in AP : /\ ap[b] \notin {"boot", "fetch", "setbusy"}
                       /\ ~BeingWoken(b) /\ ~BeingWoken(b)' /\ (Called(b)' <=> Called(b))
  BY <1>1, <1>2 DEF BeingWoken, Called, MayStartPass, Waking
<1>4. \A b \in AP : ApInv(b)'
  BY <1>2, <1>3 DEF CallInv, ApInv, WrapperInv, PassInv, OtherInv, ThisApInv, AllApInv
<1>5. LoopInv' /\ CountInv' /\ SingleInv'
  BY <1>1, <1>2 DEF CallInv, LoopInv, CountInv, Done, SingleInv, SingleOn, HasTurn, Relieved
<1> QED
  BY <1>2, <1>4, <1>5 DEF CallInv

\* StartupAllAPs leaves the rest to the callback.
LEMMA AllApsTimeoutKeeps ==
  ASSUME TypeOK, CallInv, AllApsTimeout
  PROVE  CallInv'
<1> USE DEF AllApsTimeout, apVars, dataVars, countVars, callVars
<1>1. /\ pc["main"] = "a_end" /\ pc["callback"] = "off" /\ pc'["callback"] = "off"
         /\ pc'["main"] = "off"
      /\ ~checkAll /\ ~checkThis
  BY DEF Step, At, Goto, Ctx, TypeOK, CallInv, SessionInv
<1>2. SessionInv' /\ AllOn /\ AllOn'
  BY <1>1 DEF CallInv, SessionInv, AllOn, AllLabels, MainLabels, CallbackLabels, Quiet
<1>3. /\ ThisInv' /\ HistoryInv' /\ ~Quiet /\ ~Quiet' /\ ~Opening /\ ~Opening'
  BY <1>2, AllStep
<1>4. /\ ~InPass' /\ \A b \in AP : ~BeingWoken(b) /\ ~BeingWoken(b)'
         /\ (Called(b)' <=> Called(b))
  BY <1>1, <1>3 DEF BeingWoken, Called, InPass, Ctx
<1>5. \A b \in AP : ApInv(b)'
  BY <1>2, <1>3, <1>4, ApStays DEF CallInv, SameAp, SameCall
<1>6. LoopInv' /\ CountInv' /\ SingleInv'
  BY <1>1, <1>2 DEF CallInv, LoopInv, CountInv, Done, SingleInv, SingleOn, HasTurn, Relieved
<1> QED
  BY <1>2, <1>3, <1>5, <1>6 DEF CallInv

\* A step of CheckAllAPsStatus.
LEMMA CallbackLoop ==
  ASSUME TypeOK, CallInv, checkAll, checkAll',
         pc'["main"] = pc["main"], pc'["callback"] \in CallbackLabels,
         UNCHANGED <<calls, ran, completed, targets, savedProcedure, waitEvent, checkThis>>
  PROVE  /\ SessionInv' /\ ThisInv' /\ HistoryInv' /\ pc["main"] = "off" /\ pc'["main"] = "off"
         /\ AllOn /\ AllOn' /\ ~Quiet /\ ~Quiet' /\ ~Opening /\ ~Opening'
         /\ calls \in 1 .. MaxCalls /\ \A b \in AP : (Called(b)' <=> Called(b))
<1>1. SessionInv' /\ AllOn /\ AllOn' /\ pc["main"] = "off"
  BY DEF CallInv, SessionInv, AllOn, Quiet
<1>2. /\ ThisInv' /\ HistoryInv' /\ ~Quiet /\ ~Quiet' /\ ~Opening /\ ~Opening'
         /\ calls \in 1 .. MaxCalls
  BY <1>1, AllStep
<1> QED
  BY <1>1, <1>2 DEF Called

\* The timer fires, and the callback starts a pass.
LEMMA CheckAllAPsStatusKeeps ==
  ASSUME Timely, TypeOK, CallInv, CheckAllAPsStatus
  PROVE  CallInv'
<1> USE DEF CheckAllAPsStatus, apVars, dataVars, countVars, callVars, savedVars
<1>1. /\ checkAll /\ checkAll' /\ pc["callback"] = "off" /\ pc'["callback"] = "c_look"
         /\ pc'["main"] = pc["main"]
  BY DEF Step, At, Goto, Ctx, TypeOK
<1>2. /\ SessionInv' /\ ThisInv' /\ HistoryInv' /\ pc["main"] = "off" /\ pc'["main"] = "off"
      /\ AllOn /\ AllOn' /\ ~Quiet /\ ~Quiet' /\ ~Opening /\ ~Opening'
      /\ calls \in 1 .. MaxCalls /\ \A b \in AP : (Called(b)' <=> Called(b))
  BY <1>1, CallbackLoop DEF CallbackLabels
<1>3. /\ \A b \in AP : /\ ap[b] \notin {"boot", "fetch", "setbusy"}
                       /\ ~BeingWoken(b) /\ ~BeingWoken(b)'
  BY <1>1, <1>2 DEF BeingWoken, MayStartPass, Waking
<1>4. \A b \in AP : ApInv(b)'
  BY <1>2, <1>3 DEF CallInv, ApInv, WrapperInv, PassInv, OtherInv, ThisApInv, AllApInv
<1>5. LoopInv' /\ CountInv' /\ SingleInv'
  BY <1>1, <1>2 DEF CallInv, LoopInv, CountInv, Done, SingleInv, SingleOn, HasTurn, Relieved
<1> QED
  BY <1>2, <1>4, <1>5 DEF CallInv

\* The callback looks at an AP; with SingleThread it makes the next one READY
\* when this one has FINISHED.
LEMMA CheckApKeeps ==
  ASSUME TypeOK, CallInv, CheckAp
  PROVE  CallInv'
<1> USE DEF CheckAp, apVars, countVars, callVars, savedVars
<1>0. PICK a \in AP : a = cpu["callback"]
  BY DEF TypeOK, Ctx
<1>b. /\ \A l : Goto("callback", l) => pc'["callback"] = l
      /\ NextCpu("callback", "c_look", "c_end") => pc'["callback"] \in {"c_look", "c_end"}
  BY NextCpuFacts DEF Goto, Ctx, TypeOK
<1>1. /\ pc["callback"] = "c_look" /\ pc'["main"] = pc["main"] /\ "callback" \in Ctx
         /\ "main" \in Ctx
      /\ pc'["callback"] \in {"c_wake", "n_wake", "c_idle", "c_look", "c_end"}
  BY NextCpuFacts DEF Step, At, Goto, Ctx, TypeOK
<1>2. checkAll /\ checkAll'
  BY <1>1 DEF CallInv, SessionInv
<1>3. /\ SessionInv' /\ ThisInv' /\ HistoryInv' /\ pc["main"] = "off" /\ pc'["main"] = "off"
      /\ AllOn /\ AllOn' /\ ~Quiet /\ ~Quiet' /\ ~Opening /\ ~Opening'
      /\ calls \in 1 .. MaxCalls /\ \A b \in AP : (Called(b)' <=> Called(b))
  BY <1>1, <1>2, CallbackLoop DEF CallbackLabels
<1>4. InPass /\ \A b \in AP : ~BeingWoken(b) /\ ~BeingWoken(b)'
  BY <1>1, <1>3 DEF InPass, BeingWoken
<1>5. CASE pc'["callback"] = "n_wake"
  <2>0. /\ Finished(a) /\ savedSingle /\ UNCHANGED cpu
        /\ \E n \in AP : GetNextBlockedCpuNumber(n) /\ SetState(n, "READY") /\ next' = n
    BY <1>0, <1>b, <1>5 DEF Step
  <2>1. PICK n \in AP : /\ state[n] = "BLOCKED" /\ SetState(n, "READY") /\ next' = n
                        /\ Finished(a) /\ savedSingle /\ UNCHANGED cpu
    BY <2>0 DEF GetNextBlockedCpuNumber, Blocked
  <2>2. state'[n] = "READY" /\ (\A b \in AP : b # n => state'[b] = state[b])
        /\ state[a] = "FINISHED" /\ state'[a] = "FINISHED"
    BY <2>1 DEF SetState, TypeOK, Finished
  <2>3. ApInv(n)'
    <3>1. Called(n)
      BY <2>1, WhoRuns DEF CallInv
    <3> QED
      BY <1>3, <1>4, <2>1, <2>2, <3>1, ApUnblocked DEF CallInv
  <2>4. \A b \in AP : b # n => ApInv(b)'
    BY <1>3, <1>4, <2>2, ApStays DEF CallInv, SameAp, SameCall
  <2>5. LoopInv'
    BY <1>0, <1>3, <1>5, <2>1, <2>2 DEF LoopInv
  <2>6. CountInv'
    <3>1. Done' = Done
      BY <1>3, <2>1, <2>2, DoneStays
    <3> QED
      BY <1>3, <3>1 DEF CallInv, CountInv
  <2>7. SingleInv'
    BY <1>0, <1>1, <1>2, <1>3, <1>5, <2>1, <2>2
       DEF CallInv, SingleInv, SingleOn, HasTurn, Relieved
  <2> QED
    BY <1>3, <2>3, <2>4, <2>5, <2>6, <2>7 DEF CallInv
<1>6. CASE pc'["callback"] # "n_wake"
  <2>1. /\ UNCHANGED <<state, next>>
        /\ pc'["callback"] = "c_wake" => state[a] = "READY" /\ UNCHANGED cpu
        /\ pc'["callback"] = "c_idle" => state[a] = "FINISHED" /\ UNCHANGED cpu
    BY <1>0, <1>b, <1>6 DEF Step, Finished
  <2>2. \A b \in AP : ApInv(b)'
    BY <1>3, <1>4, <2>1, ApStays DEF CallInv, SameAp, SameCall
  <2>3. LoopInv'
    BY <1>0, <1>1, <1>3, <1>6, <2>1 DEF LoopInv
  <2>4. CountInv' /\ SingleInv'
    BY <1>1, <1>2, <1>3, <2>1
       DEF CallInv, CountInv, Done, SingleInv, SingleOn, HasTurn, Relieved
  <2> QED
    BY <1>3, <2>2, <2>3, <2>4 DEF CallInv
<1> QED
  BY <1>5, <1>6

\* The callback counts an AP that has FINISHED.
LEMMA CheckedApFinishedKeeps ==
  ASSUME TypeOK, CallInv, CheckedApFinished
  PROVE  CallInv'
<1> USE DEF CheckedApFinished, apVars, callVars, savedVars
<1>0. PICK a \in AP : a = cpu["callback"]
  BY DEF TypeOK, Ctx
<1>1. /\ pc["callback"] = "c_idle" /\ pc'["main"] = pc["main"] /\ "callback" \in Ctx
         /\ "main" \in Ctx
      /\ pc'["callback"] \in {"c_look", "c_end"} /\ finishCount' = finishCount + 1
  BY NextCpuFacts DEF At, Ctx, TypeOK
<1>2. checkAll /\ checkAll'
  BY <1>1 DEF CallInv, SessionInv
<1>3. /\ SessionInv' /\ ThisInv' /\ HistoryInv' /\ pc["main"] = "off" /\ pc'["main"] = "off"
      /\ AllOn /\ AllOn' /\ ~Quiet /\ ~Quiet' /\ ~Opening /\ ~Opening'
      /\ calls \in 1 .. MaxCalls /\ \A b \in AP : (Called(b)' <=> Called(b))
  BY <1>1, <1>2, CallbackLoop DEF CallbackLabels
<1>4. InPass /\ \A b \in AP : ~BeingWoken(b) /\ ~BeingWoken(b)'
  BY <1>1, <1>3 DEF InPass, BeingWoken
<1>5. state[a] = "FINISHED" /\ Called(a) /\ a \in targets[calls]
  BY <1>0, <1>1, WhoRuns DEF CallInv, LoopInv, Called
<1>6. state'[a] = "IDLE" /\ \A b \in AP : b # a => state'[b] = state[b]
  BY <1>0 DEF BackToIdle, SetState, TypeOK
<1>7. ApInv(a)'
  BY <1>3, <1>4, <1>5, <1>6, ApBackToIdle DEF CallInv
<1>8. \A b \in AP : b # a => ApInv(b)'
  BY <1>3, <1>4, <1>6, ApStays DEF CallInv, SameAp, SameCall
<1>9. LoopInv'
  BY <1>1, <1>3, <1>6 DEF LoopInv
<1>10. CountInv'
  <2>1. finishCount = Cardinality(Done) /\ Cardinality(Done) \in Nat
        /\ startCount = Cardinality(targets[calls])
    BY <1>3, DoneIsFinite DEF CallInv, CountInv
  <2>2. Cardinality(Done') = Cardinality(Done) + 1
    BY <1>3, <1>5, <1>6, DoneGrows
  <2> QED
    BY <1>1, <1>3, <2>1, <2>2 DEF CountInv
<1>11. SingleInv'
  BY <1>0, <1>1, <1>2, <1>3, <1>6 DEF CallInv, SingleInv, SingleOn, HasTurn, Relieved
<1> QED
  BY <1>3, <1>7, <1>8, <1>9, <1>10, <1>11 DEF CallInv

\* The callback returns; the event is signalled when all APs are counted.
LEMMA CheckAllDoneKeeps ==
  ASSUME TypeOK, CallInv, CheckAllDone
  PROVE  CallInv'
<1> USE DEF CheckAllDone, apVars, callVars, dataVars, countVars
<1>1. /\ pc["callback"] = "c_end" /\ pc'["main"] = pc["main"] /\ pc'["callback"] = "off"
  BY DEF Step, At, Goto, Ctx, TypeOK
<1>2. checkAll /\ pc["main"] = "off" /\ waitEvent = calls /\ ~checkThis
  BY <1>1 DEF CallInv, SessionInv
<1>3. \A b \in AP : ~BeingWoken(b) /\ ~BeingWoken(b)'
  BY <1>1, <1>2 DEF BeingWoken
<1>4. CASE finishCount = startCount
  <2>1. ~checkAll' /\ completed' = completed \cup {calls}
    BY <1>2, <1>4
  <2>2. ~Quiet /\ Quiet' /\ SessionInv' /\ AllOn
    BY <1>1, <1>2, <2>1
       DEF Quiet, CallInv, SessionInv, AllOn, AllLabels, MainLabels, CallbackLabels
  <2>3. \A a \in targets[calls] : state'[a] = "IDLE" /\ ap[a] = "halt" /\ ran[calls][a] = 1
    BY <1>2, <1>4, <2>2, AllCounted
  <2> QED
    BY <1>3, <2>1, <2>2, <2>3, CallEnds
<1>5. CASE finishCount # startCount
  <2>1. checkAll' /\ UNCHANGED completed
    BY <1>2, <1>5
  <2>2. /\ SessionInv' /\ ThisInv' /\ HistoryInv' /\ pc'["main"] = "off"
        /\ AllOn /\ AllOn' /\ ~Quiet /\ ~Quiet' /\ ~Opening /\ ~Opening'
        /\ calls \in 1 .. MaxCalls /\ \A b \in AP : (Called(b)' <=> Called(b))
    BY <1>1, <1>2, <2>1, CallbackLoop DEF CallbackLabels
  <2>3. ~InPass'
    BY <1>1, <2>2 DEF InPass, Ctx
  <2>4. \A b \in AP : ApInv(b)'
    BY <1>3, <2>2, <2>3, ApStays DEF CallInv, SameAp, SameCall
  <2>5. LoopInv' /\ CountInv' /\ SingleInv'
    BY <1>1, <1>2, <2>1, <2>2
       DEF CallInv, LoopInv, CountInv, Done, SingleInv, SingleOn, HasTurn, Relieved
  <2> QED
    BY <2>2, <2>4, <2>5 DEF CallInv
<1> QED
  BY <1>4, <1>5

-----------------------------------------------------------------------------
(***************************************************************************)
(* The calls.                                                               *)
(***************************************************************************)

\* Between calls every AP is at rest.
LEMMA AllAtRest ==
  ASSUME CallInv, Quiet, NEW a \in AP
  PROVE  /\ state[a] \in {"IDLE", "DISABLED"} /\ ap[a] = "halt" /\ procedure[a] = 0
         /\ ~procedureLock[a] /\ ~BeingWoken(a)
<1>1. ~BeingWoken(a) /\ ~Called(a)
  BY DEF Quiet, BeingWoken, Called
<1> QED
  BY <1>1 DEF CallInv, ApInv, OtherInv, WrapperInv

\* StartupThisAP starts a call for one AP that is IDLE.
LEMMA StartupThisAPKeeps ==
  ASSUME ~Overlap, TypeOK, CallInv, NEW a \in AP, StartupThisAP(a)
  PROVE  CallInv'
<1> USE DEF StartupThisAP, NewCall, apVars, dataVars, savedVars
<1>1. /\ Quiet /\ pc["main"] = "off" /\ pc["callback"] = "off" /\ ~checkAll /\ ~checkThis
      /\ pc'["main"] = "t_wake" /\ pc'["callback"] = "off" /\ cpu'["main"] = a
  BY DEF MayCall, Quiet, Goto, TypeOK, Ctx
<1>2. /\ calls' = calls + 1 /\ calls + 1 \in 1 .. MaxCalls /\ calls \in Nat
         /\ targets'[calls + 1] = {a}
      /\ \A p \in 1 .. MaxCalls : p # calls + 1 => targets'[p] = targets[p]
  BY BoundAssumption DEF TypeOK
<1>3. SessionInv' /\ ~Quiet' /\ ~AllOn' /\ ThisOn' /\ Opening' /\ ThisAp' = a /\ ThisInv'
  BY <1>1, <1>2
     DEF SessionInv, Quiet, AllOn, AllLabels, ThisOn, ThisLabels, Opening, ThisAp, MainLabels,
         CallbackLabels, ThisInv
<1>4. \A b \in AP : ApInv(b)'
  <2> SUFFICES ASSUME NEW b \in AP PROVE ApInv(b)'
    OBVIOUS
  <2>1. /\ state[b] \in {"IDLE", "DISABLED"} /\ ap[b] = "halt" /\ procedure[b] = 0
           /\ ~procedureLock[b]
    BY <1>1, AllAtRest
  <2>2. ~BeingWoken(b)' /\ (Called(b)' <=> b = a) /\ ran[calls'][b] = 0
    BY <1>1, <1>2, <1>3 DEF BeingWoken, Called, CallInv, HistoryInv
  <2> QED
    BY <1>3, <2>1, <2>2
       DEF ApInv, WrapperInv, PassInv, OtherInv, ThisApInv, AllApInv, HoldsLabels,
       WakingLabels, BusyLabels, RanLabels
<1>5. LoopInv' /\ CountInv' /\ SingleInv'
  BY <1>1, <1>3 DEF LoopInv, CountInv, SingleInv, SingleOn
<1>6. HistoryInv'
  <2>1. \A p \in completed \ {0} : p \in 1 .. MaxCalls /\ p <= calls /\ p <= calls + 1
        /\ p # calls + 1
    BY <1>2 DEF CallInv, HistoryInv, TypeOK
  <2>2. \A p \in 1 .. MaxCalls : p > calls + 1 => p > calls
    BY <1>2
  <2>3. calls + 1 # 0
    BY <1>2
  <2> QED
    BY <1>2, <2>1, <2>2, <2>3 DEF CallInv, HistoryInv, RanType
<1> QED
  BY <1>3, <1>4, <1>5, <1>6 DEF CallInv

\* StartupAllAPs starts a call that has no AP yet.
LEMMA StartupAllAPsKeeps ==
  ASSUME ~Overlap, TypeOK, CallInv, StartupAllAPs
  PROVE  CallInv'
<1> USE DEF StartupAllAPs, NewCall, apVars, dataVars, savedVars
<1>1. /\ Quiet /\ pc["main"] = "off" /\ pc["callback"] = "off" /\ ~checkAll /\ ~checkThis
      /\ pc'["main"] = "a_prepare" /\ pc'["callback"] = "off"
  BY DEF MayCall, Quiet, Goto, TypeOK, Ctx
<1>2. /\ calls' = calls + 1 /\ calls + 1 \in 1 .. MaxCalls /\ calls \in Nat
         /\ targets'[calls + 1] = {}
      /\ \A p \in 1 .. MaxCalls : p # calls + 1 => targets'[p] = targets[p]
  BY BoundAssumption DEF TypeOK
<1>3. SessionInv' /\ ~Quiet' /\ AllOn' /\ ~ThisOn' /\ ~Opening' /\ ThisInv'
  BY <1>1, <1>2
     DEF SessionInv, Quiet, AllOn, AllLabels, ThisOn, ThisLabels, Opening, MainLabels,
         CallbackLabels, ThisInv
<1>4. \A b \in AP : ApInv(b)' /\ ran[calls'][b] = 0 /\ state[b] \in {"IDLE", "DISABLED"}
  <2> SUFFICES ASSUME NEW b \in AP PROVE ApInv(b)' /\ ran[calls'][b] = 0
      /\ state[b] \in {"IDLE", "DISABLED"}
    OBVIOUS
  <2>1. /\ state[b] \in {"IDLE", "DISABLED"} /\ ap[b] = "halt" /\ procedure[b] = 0
           /\ ~procedureLock[b]
    BY <1>1, AllAtRest
  <2>2. ~BeingWoken(b)' /\ ~Called(b)' /\ ran[calls'][b] = 0
    BY <1>1, <1>2, <1>3 DEF BeingWoken, Called, CallInv, HistoryInv
  <2> QED
    BY <1>3, <2>1, <2>2
       DEF ApInv, WrapperInv, PassInv, OtherInv, ThisApInv, AllApInv, HoldsLabels,
       WakingLabels, BusyLabels, RanLabels
<1>5. LoopInv'
  BY <1>1, <1>2, <1>4 DEF LoopInv
<1>6. CountInv'
  <2>1. targets'[calls'] = {} /\ Done' = {}
    BY <1>2 DEF Done
  <2> QED
    BY <1>1, <2>1, FS_EmptySet DEF CountInv
<1>7. SingleInv'
  BY <1>4 DEF SingleInv, HasTurn
<1>8. HistoryInv'
  <2>1. \A p \in completed \ {0} : p \in 1 .. MaxCalls /\ p <= calls /\ p <= calls + 1
        /\ p # calls + 1
    BY <1>2 DEF CallInv, HistoryInv, TypeOK
  <2>2. \A p \in 1 .. MaxCalls : p > calls + 1 => p > calls
    BY <1>2
  <2> QED
    BY <1>2, <2>1, <2>2 DEF CallInv, HistoryInv, RanType
<1> QED
  BY <1>3, <1>4, <1>5, <1>6, <1>7, <1>8 DEF CallInv

\* EnableDisableAP writes a State between calls.
LEMMA EnableDisableAPKeeps ==
  ASSUME ~Overlap, TypeOK, CallInv, NEW a \in AP, NEW newState \in BOOLEAN, EnableDisableAP(a,
         newState)
  PROVE  CallInv'
<1> USE DEF EnableDisableAP, apVars, countVars, savedVars, ctxVars, callVars
<1>1. Quiet /\ Quiet' /\ (\A b \in AP : ~Called(b)' /\ ~BeingWoken(b)')
  BY DEF MayCall, Quiet, Called, BeingWoken
<1>2. \A b \in AP : state'[b] \in {"IDLE", "DISABLED"}
  BY <1>1, AllAtRest DEF ChangeCpuState, SetState, TypeOK
<1>3. \A b \in AP : ApInv(b)'
  <2> SUFFICES ASSUME NEW b \in AP PROVE ApInv(b)'
    OBVIOUS
  <2>1. ap[b] = "halt" /\ procedure[b] = 0 /\ ~procedureLock[b]
    BY <1>1, AllAtRest
  <2> QED
    BY <1>1, <1>2, <2>1
       DEF ApInv, WrapperInv, PassInv, OtherInv, ThisApInv, AllApInv, HoldsLabels,
       WakingLabels, BusyLabels, RanLabels
<1>4. SessionInv' /\ ThisInv' /\ HistoryInv'
  BY DEF CallInv, SessionInv, ThisInv, ThisOn, ThisAp, HistoryInv, RanType, Quiet
<1>5. LoopInv' /\ CountInv' /\ SingleInv'
  BY <1>1 DEF LoopInv, CountInv, SingleInv, SingleOn, AllOn, AllLabels, Quiet
<1> QED
  BY <1>3, <1>4, <1>5 DEF CallInv

-----------------------------------------------------------------------------
(***************************************************************************)
(* What a call promises.                                                    *)
(***************************************************************************)

\* The invariant holds before the first call.
LEMMA InitCall == Init => CallInv
<1> SUFFICES ASSUME Init PROVE CallInv
  OBVIOUS
<1>1. /\ pc["main"] = "off" /\ pc["callback"] = "off" /\ ~checkAll /\ ~checkThis /\ Quiet
      /\ ~AllOn /\ ~ThisOn /\ \A a \in AP : ~Called(a) /\ ~BeingWoken(a)
  BY DEF Init, Quiet, AllOn, AllLabels, ThisOn, ThisLabels, Called, BeingWoken, Ctx
<1>2. SessionInv
  BY <1>1 DEF SessionInv, MainLabels, CallbackLabels
<1>3. \A a \in AP : ApInv(a)
  BY <1>1
     DEF Init, ApInv, WrapperInv, PassInv, OtherInv, ThisApInv, AllApInv, HoldsLabels,
         WakingLabels,
              BusyLabels, RanLabels
<1>4. ThisInv /\ LoopInv /\ CountInv /\ SingleInv
  BY <1>1 DEF ThisInv, LoopInv, CountInv, SingleInv, SingleOn
<1>5. HistoryInv
  BY <1>1 DEF Init, HistoryInv, RanType
<1> QED
  BY <1>2, <1>3, <1>4, <1>5 DEF CallInv

\* A step that changes nothing keeps the invariant.
LEMMA StutterKeeps ==
  ASSUME CallInv, UNCHANGED vars
  PROVE  CallInv'
<1> USE DEF vars, dataVars, countVars, savedVars, apVars, ctxVars, callVars
<1>1. /\ Quiet' = Quiet /\ AllOn' = AllOn /\ InPass' = InPass /\ Opening' = Opening
         /\ ThisOn' = ThisOn
      /\ \A b \in AP : Called(b)' = Called(b) /\ BeingWoken(b)' = BeingWoken(b)
  BY DEF Quiet, AllOn, InPass, Opening, ThisOn, Called, BeingWoken
<1>2. \A a \in AP : ApInv(a)'
  BY <1>1, ApStays DEF CallInv, SameAp, SameCall
<1>3. SessionInv' /\ ThisInv' /\ HistoryInv'
  BY <1>1 DEF CallInv, SessionInv, ThisInv, ThisAp, HistoryInv, RanType
<1>4. LoopInv' /\ CountInv' /\ SingleInv'
  BY <1>1 DEF CallInv, LoopInv, CountInv, Done, SingleInv, SingleOn, HasTurn, Relieved
<1> QED
  BY <1>2, <1>3, <1>4 DEF CallInv

\* At every step of a behaviour the State of each AP, its place in
\* ApProcWrapper and the two counters agree with the call in hand.
THEOREM CallInvariant ==
  ASSUME Timely, ~Overlap
  PROVE  Spec => []CallInv
<1>1. ASSUME TypeOK, CallInv, [Next]_vars PROVE CallInv'
  <2> USE <1>1
  <2>1. CASE Mainline
    BY <2>1, WakeUpMainKeeps, ThisApFinishedKeeps, PrepareApKeeps, LookAtApKeeps,
       ApFinishedKeeps,
       ApIdleKeeps, AllApsFinishedKeeps, PollAgainKeeps DEF Mainline
  <2>2. CASE Callback
    BY <2>2, CheckThisAPStatusKeeps, CheckAllAPsStatusKeeps, CheckApKeeps, WakeUpCallbackKeeps,
       CheckedApFinishedKeeps, CheckAllDoneKeeps DEF Callback
  <2>3. CASE ThisApTimeout \/ AllApsTimeout \/ StartupAllAPs
    BY <2>3, ThisApTimeoutKeeps, AllApsTimeoutKeeps, StartupAllAPsKeeps
  <2>4. CASE \E a \in AP : \/ ApProcWrapper(a) \/ StartupThisAP(a)
                           \/ \E newState \in BOOLEAN : EnableDisableAP(a, newState)
    BY <2>4, ApProcWrapperKeeps, StartupThisAPKeeps, EnableDisableAPKeeps
  <2> QED
    BY <2>1, <2>2, <2>3, <2>4, StutterKeeps DEF Next
<1> QED
  BY <1>1, InitCall, TypeCorrect, PTL DEF Spec

\* EFI_SUCCESS and the caller's event mean that every AP of the call has run
\* the procedure exactly once and none is still to run it, also when the
\* callback has taken the call over.
THEOREM CompletedMeansFinishedHolds ==
  ASSUME Timely, ~Overlap
  PROVE  Spec => []CompletedMeansFinished
<1>1. ASSUME TypeOK, CallInv PROVE CompletedMeansFinished
  <2> SUFFICES ASSUME NEW p \in completed \ {0}, NEW a \in targets[p]
               PROVE  ran[p][a] = 1 /\ ~Working(a, p)
    BY DEF CompletedMeansFinished
  <2>1. ran[p][a] = 1
    BY <1>1 DEF CallInv, HistoryInv
  <2>2. p \in 1 .. MaxCalls
    BY <1>1, BoundAssumption DEF TypeOK
  <2>3. a \in AP
    BY <1>1, <2>2 DEF TypeOK
  <2>4. ap[a] \in {"setbusy", "run"} => ~Quiet /\ apProcedure[a] = calls
    BY <1>1, <2>3, WhoRuns DEF CallInv, Called, ApInv, WrapperInv
  <2>5. ~Quiet => p # calls
    BY <1>1 DEF CallInv, HistoryInv
  <2> QED
    BY <2>1, <2>4, <2>5 DEF Working
<1> QED
  BY <1>1, CallInvariant, TypeCorrect, PTL

\* With SingleThread one AP at most is between its wake-up and the end of the
\* procedure, whether the mainline or the callback hands on the turn.
THEOREM OneAfterAnotherHolds ==
  ASSUME Timely, ~Overlap
  PROVE  Spec => []OneAfterAnother
<1>1. ASSUME TypeOK, CallInv PROVE OneAfterAnother
  <2> DEFINE Active == {a \in AP : ap[a] \in {"boot", "fetch", "setbusy", "run"}}
  <2> SUFFICES ASSUME \/ pc["main"] \notin {"off", "t_wake", "t_init", "t_poll"} /\ single
                      \/ checkAll /\ savedSingle
               PROVE  Cardinality(Active) <= 1
    BY DEF OneAfterAnother
  <2>1. SingleOn /\ AllOn
    BY <1>1 DEF CallInv, SessionInv, SingleOn, AllOn, AllLabels, MainLabels
  <2>2. \A a \in Active : HasTurn(a)
    <3> SUFFICES ASSUME NEW a \in Active PROVE HasTurn(a)
      OBVIOUS
    <3>1. Called(a) /\ ApInv(a) /\ state[a] \in States
      BY <1>1, WhoRuns DEF CallInv, TypeOK
    <3>2. state[a] \in {"READY", "BUSY"}
      BY <2>1, <3>1 DEF ApInv, WrapperInv, AllApInv, BusyLabels, States
    <3>3. ~Relieved(a)
      BY <1>1, <3>2 DEF Relieved, CallInv, LoopInv
    <3> QED
      BY <3>2, <3>3 DEF HasTurn
  <2>3. \A a, b \in Active : a = b
    BY <1>1, <2>1, <2>2 DEF CallInv, SingleInv
  <2>4. Active = {} \/ \E x : Active = {x}
    BY <2>3
  <2>5. CASE Active = {}
    BY <2>5, FS_EmptySet
  <2>6. ASSUME NEW x, Active = {x} PROVE Cardinality(Active) <= 1
    <3>1. Cardinality({x}) = 1
      BY FS_Singleton
    <3> QED
      BY <2>6, <3>1
  <2> QED
    BY <2>4, <2>5, <2>6
<1> QED
  BY <1>1, CallInvariant, TypeCorrect, PTL

\* When no call is in hand each AP is halted, holds no procedure and can be
\* started again unless a caller has disabled it.
THEOREM NothingLeftBehindHolds ==
  ASSUME Timely, ~Overlap
  PROVE  Spec => []NothingLeftBehind
<1>1. CallInv => NothingLeftBehind
  BY AllAtRest DEF NothingLeftBehind
<1> QED
  BY <1>1, CallInvariant, PTL
=============================================================================
