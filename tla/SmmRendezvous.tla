--------------------------- MODULE SmmRendezvous ---------------------------
(***************************************************************************)
(* The SMI rendezvous of PiSmmCpuDxeSmm/MpService.c.                        *)
(*                                                                         *)
(* Every logical processor that takes a System Management Interrupt runs    *)
(* SmiRendezvous.  One of them, the BSP, runs BSPHandler: it gathers the    *)
(* others, calls the SMM foundation, and lets everybody go.  The others run *)
(* APHandler: they serve procedures that the BSP schedules with             *)
(* SmmStartupThisAp and leave when told to.                                 *)
(*                                                                         *)
(* A step of a processor is at most one access to memory that another       *)
(* processor writes at the same time.  Timers are not modelled as numbers:  *)
(* a timed loop ends when its condition holds or, at any moment, because    *)
(* the time is up (PcdCpuSmmApSyncTimeout says nothing about how long a     *)
(* processor may be blocked, see also SyncTimer).                           *)
(***************************************************************************)
EXTENDS Integers, FiniteSets

CONSTANTS
  NumberOfCpus,          \* mNumberOfCpus = mMaxNumberOfCpus (no hot plug)
  BspElection,           \* PcdCpuSmmEnableBspElection
  BlockStartupThisAp,    \* PcdCpuSmmBlockStartupThisAp
  NeedConfigureMtrrs,    \* NeedConfigureMtrrs (), FALSE on CherryView
  SmiStatusHook,         \* does the platform hook library know the SMI status?
  GiveUpRace,            \* may the BSP come in between an AP's last look at
                         \* InsideSmm and its giving up?
  CoreOf,                \* the core, hence the set of MTRRs, of each processor
  MaxSmi,                \* bound: hardware SMIs in a behaviour
  MaxCalls               \* bound: calls the SMI handlers make in a behaviour

Cpu == 0 .. NumberOfCpus - 1

ASSUME CpuAssumption == NumberOfCpus \in Nat \ {0}
ASSUME SwitchAssumption ==
  /\ BspElection \in BOOLEAN
  /\ BlockStartupThisAp \in BOOLEAN
  /\ NeedConfigureMtrrs \in BOOLEAN
  /\ SmiStatusHook \in BOOLEAN
  /\ GiveUpRace \in BOOLEAN
ASSUME CoreAssumption == CoreOf \in [Cpu -> Cpu]
ASSUME BoundAssumption == MaxSmi \in Nat /\ MaxCalls \in Nat

VARIABLES
  (* mSmmMpSyncData *)
  counter,           \* UINT32 Counter, in two's complement: -1 is 0xFFFFFFFF
  insideSmm,         \* InsideSmm: the BSP is in its handler
  allCpusInSync,     \* AllCpusInSync: processors that are done wait on it
  bspIndex,          \* BspIndex
  switchBsp, candidateBsp,
  syncModeToBeSet, effectiveSyncMode,
  (* mSmmMpSyncData->CpuData[] *)
  run,               \* UINT32 Run: the semaphore its owner waits on
  present,           \* Present
  busy,              \* the spin lock Busy: TRUE when acquired
  procedure,         \* Procedure and Parameter: the number of a scheduled call
  operation,         \* gSmmCpuPrivate->Operation[]
  (* the hardware *)
  smiStatus,         \* the platform's top level SMI status bit
  smiPending,        \* SMIs latched by each processor (one at most)
  mtrr,              \* the MTRR settings of each core
  (* the stack of each processor *)
  pc, validSmi, bspInProgress, syncMode,
  bsp,               \* APHandler's copy of BspIndex
  index,             \* a loop's Index; the target of SmmStartupThisAp
  apCount,           \* ApCount
  left,              \* NumberOfAPs in WaitForAllAPs
  inWorker,          \* SmmWaitForApArrival is called by the CheckApArrival worker
  mtrrs,             \* Mtrrs, the settings saved at entry
  (* history *)
  smis, calls,       \* SMIs raised and service calls made
  started,           \* the calls that have scheduled a procedure
  executions         \* how often the procedure of each call was run

syncVars  == <<counter, insideSmm, allCpusInSync, bspIndex>>
electVars == <<switchBsp, candidateBsp, operation>>
modeVars  == <<syncModeToBeSet, effectiveSyncMode>>
mtrrVars  == <<mtrr, mtrrs>>
platVars  == <<electVars, modeVars, mtrrVars>>
dataVars  == <<run, present>>
taskVars  == <<busy, procedure, started, executions, calls>>
hwVars    == <<smiStatus, smiPending, smis>>
entryVars == <<validSmi, bspInProgress, syncMode, bsp>>
bspVars   == <<index, apCount, left, inWorker>>
stackVars == <<entryVars, bspVars>>
memory    == <<syncVars, platVars, dataVars, taskVars, hwVars, stackVars>>
notSync   == <<platVars, dataVars, taskVars, hwVars, stackVars>>
notStack  == <<syncVars, platVars, dataVars, taskVars, hwVars>>
notData   == <<syncVars, platVars, taskVars, hwVars, stackVars>>

vars == <<memory, pc>>

Locked == -1                      \* LockdownSemaphore: (UINT32)-1
NoBsp  == -1                      \* BspIndex = (UINT32)-1
SyncModes == {"Tradition", "RelaxedAp"}
Settings  == {"os", "smm"}        \* MTRRs of the interrupted system, of SMM

(***************************************************************************)
(* The semaphores.  Each is one locked compare-exchange that succeeds.      *)
(***************************************************************************)
WaitForSemaphore(sem) == sem - 1           \* enabled when sem # 0
ReleaseSemaphore(sem) == IF sem = Locked THEN sem ELSE sem + 1

Up(i)   == run' = [run EXCEPT ![i] = ReleaseSemaphore(@)]
Down(i) == run[i] # 0 /\ run' = [run EXCEPT ![i] = WaitForSemaphore(@)]

At(c, label)   == pc[c] = label
Goto(c, label) == pc' = [pc EXCEPT ![c] = label]
Step(c, from, to) == At(c, from) /\ Goto(c, to)

\* A loop over the processors starts: for (Index = mMaxNumberOfCpus; ...).
StartLoopTooHigh(c) == index' = [index EXCEPT ![c] = NumberOfCpus + 1]
StartLoop(c) == index' = [index EXCEPT ![c] = NumberOfCpus]

\* WaitForAllAPs (n) is called; its loop is BspWaitForAp.
WaitForOneFewer(c, n) == left' = [left EXCEPT ![c] = IF n > 0 THEN n - 1 ELSE 0]
WaitForOneMore(c, n)  == left' = [left EXCEPT ![c] = n + 1]
WaitForAllAPs(c, n)   == left' = [left EXCEPT ![c] = n]

\* Traditional mode, or MTRRs to configure: the APs are gathered first.
Gathers(c) == syncMode[c] = "Tradition" \/ NeedConfigureMtrrs

(***************************************************************************)
(* InitializeMpSyncData, on a system whose processors run the OS.           *)
(***************************************************************************)
Init ==
  /\ counter = 0 /\ insideSmm = FALSE /\ allCpusInSync = FALSE
  /\ bspIndex = IF BspElection THEN NoBsp ELSE 0
  /\ switchBsp = FALSE /\ candidateBsp = [c \in Cpu |-> FALSE]
  /\ syncModeToBeSet = "Tradition" /\ effectiveSyncMode = "Tradition"
  /\ run = [c \in Cpu |-> 0]
  /\ present = [c \in Cpu |-> FALSE]
  /\ busy = [c \in Cpu |-> FALSE]
  /\ procedure = [c \in Cpu |-> 0]
  /\ operation = [c \in Cpu |-> "None"]
  /\ smiStatus = FALSE /\ smiPending = [c \in Cpu |-> FALSE]
  /\ mtrr = [c \in Cpu |-> "os"]
  /\ pc = [c \in Cpu |-> "os"]
  /\ validSmi = [c \in Cpu |-> FALSE]
  /\ bspInProgress = [c \in Cpu |-> FALSE]
  /\ syncMode = [c \in Cpu |-> "Tradition"]
  /\ bsp = [c \in Cpu |-> 0]
  /\ index = [c \in Cpu |-> 0]
  /\ apCount = [c \in Cpu |-> 0]
  /\ left = [c \in Cpu |-> 0]
  /\ inWorker = [c \in Cpu |-> FALSE]
  /\ mtrrs = [c \in Cpu |-> "os"]
  /\ smis = 0 /\ calls = 0
  /\ started = {} /\ executions = [p \in 1 .. MaxCalls |-> 0]

(***************************************************************************)
(* Hardware.                                                                *)
(***************************************************************************)

\* The chipset asserts SMI# to every processor and sets its status bit.
RaiseSmi ==
  /\ smis < MaxSmi
  /\ smis' = smis + 1
  /\ smiStatus' = TRUE
  /\ smiPending' = [c \in Cpu |-> TRUE]
  /\ UNCHANGED <<pc, stackVars, platVars, syncVars, taskVars, dataVars>>

\* A processor that runs the OS takes the SMI it has latched.
EnterSmi(c) ==
  /\ Step(c, "os", "sample")
  /\ smiPending[c]
  /\ smiPending' = [smiPending EXCEPT ![c] = FALSE]
  /\ UNCHANGED <<smiStatus, smis, stackVars, platVars, syncVars, taskVars,
                 dataVars>>

(***************************************************************************)
(* SmiRendezvous.                                                           *)
(***************************************************************************)

ValidSmiInverted == ~smiStatus
PlatformValidSmi == IF SmiStatusHook THEN smiStatus ELSE TRUE

SampleValidSmi(c) ==
  /\ Step(c, "sample", "progress")
  /\ validSmi' = [validSmi EXCEPT ![c] = PlatformValidSmi]
  /\ UNCHANGED <<bspInProgress, syncMode, bsp, notStack, bspVars>>

SampleBspInProgress(c) ==
  /\ At(c, "progress")
  /\ bspInProgress' = [bspInProgress EXCEPT ![c] = insideSmm]
  /\ Goto(c, IF ~insideSmm /\ ~validSmi[c] THEN "exit" ELSE "checkin")
  /\ UNCHANGED <<validSmi, syncMode, bsp, notStack, bspVars>>

\* ReleaseSemaphore (&Counter): 0 means the BSP has closed this run.
CheckIn(c) ==
  /\ At(c, "checkin")
  /\ counter' = ReleaseSemaphore(counter)
  /\ Goto(c, IF counter + 1 = 0 THEN "excluded" ELSE "initbusy")
  /\ UNCHANGED <<insideSmm, allCpusInSync, bspIndex, notSync>>

\* The two loops that wait for AllCpusInSync to fall.
EndOfHandlers == ~insideSmm
EndOfRun      == ~allCpusInSync

WaitForEndOfRun(c) ==
  /\ pc[c] \in {"excluded", "finished"}
  /\ EndOfRun
  /\ Goto(c, "exit")
  /\ UNCHANGED memory

\* SmmRendezvousExit and RSM; the processor's stack is gone.
LeaveSmm(c) ==
  /\ Step(c, "exit", "os")
  /\ validSmi' = [validSmi EXCEPT ![c] = FALSE]
  /\ bspInProgress' = [bspInProgress EXCEPT ![c] = FALSE]
  /\ syncMode' = [syncMode EXCEPT ![c] = "Tradition"]
  /\ bsp' = [bsp EXCEPT ![c] = 0]
  /\ apCount' = [apCount EXCEPT ![c] = 0]
  /\ mtrrs' = [mtrrs EXCEPT ![c] = "os"]
  /\ UNCHANGED <<mtrr, index, left, inWorker, syncVars, taskVars, hwVars,
                 electVars, modeVars, dataVars>>

InitializeBusy(c) ==
  /\ At(c, "initbusy")
  /\ busy' = [busy EXCEPT ![c] = FALSE]
  /\ Goto(c, IF bspInProgress[c] THEN "ap_mode"
             ELSE IF BspElection THEN "elect" ELSE "role")
  /\ UNCHANGED <<procedure, started, executions, calls, stackVars, platVars,
                 syncVars, hwVars, dataVars>>

\* May this processor stand for election?
AnybodyMayStand(c) == TRUE
MayStand(c)        == ~switchBsp \/ candidateBsp[c]

Stand(c) ==
  /\ At(c, "elect")
  /\ Goto(c, IF MayStand(c) THEN "cas" ELSE "role")
  /\ UNCHANGED memory

\* PlatformSmmBspElection answers EFI_NOT_READY: the default election.
LastCandidateWins(c)  == c
FirstCandidateWins(c) == IF bspIndex = NoBsp THEN c ELSE bspIndex

ElectBsp(c) ==
  /\ Step(c, "cas", "role")
  /\ bspIndex' = FirstCandidateWins(c)
  /\ UNCHANGED <<counter, insideSmm, allCpusInSync, notSync>>

BecomeBsp(c) ==
  /\ At(c, "role") /\ bspIndex = c
  /\ switchBsp' = FALSE
  /\ candidateBsp' = IF switchBsp THEN [i \in Cpu |-> FALSE] ELSE candidateBsp
  /\ syncMode' = [syncMode EXCEPT ![c] = effectiveSyncMode]
  /\ Goto(c, "b_inside")
  /\ UNCHANGED <<operation, validSmi, bspInProgress, bsp, syncVars, bspVars,
                 taskVars, hwVars, modeVars, mtrrVars, dataVars>>

BecomeAp(c) ==
  /\ Step(c, "role", "ap_mode") /\ bspIndex # c
  /\ UNCHANGED memory

\* EffectiveSyncMode is read as APHandler's argument.
ReadSyncMode(c) ==
  /\ Step(c, "ap_mode", "ap_timer1")
  /\ syncMode' = [syncMode EXCEPT ![c] = effectiveSyncMode]
  /\ UNCHANGED <<validSmi, bspInProgress, bsp, notStack, bspVars>>

(***************************************************************************)
(* APHandler.                                                               *)
(***************************************************************************)
NoSmiIpi(i)   == UNCHANGED smiPending
SendSmiIpi(i) == smiPending' = [smiPending EXCEPT ![i] = TRUE]

\* Either timed loop ends with the BSP inside: mark this processor present.
ApMarkPresent(c) ==
  /\ pc[c] \in {"ap_timer1", "ap_timer2"}
  /\ insideSmm
  /\ bsp' = [bsp EXCEPT ![c] = bspIndex]
  /\ Goto(c, "ap_present")
  /\ UNCHANGED <<validSmi, bspInProgress, syncMode, notStack, bspVars>>

ApPresent(c) ==
  /\ At(c, "ap_present")
  /\ present' = [present EXCEPT ![c] = TRUE]
  /\ Goto(c, IF Gathers(c) THEN "ap_arrive" ELSE "ap_work")
  /\ UNCHANGED <<run, notData>>

\* The AP takes its presence back: WaitForSemaphore (&Counter).
GiveUpButStayCounted(c) == Goto(c, "finished") /\ UNCHANGED syncVars
GiveUp(c) ==
  /\ counter # 0
  /\ counter' = WaitForSemaphore(counter)
  /\ Goto(c, "finished")
  /\ UNCHANGED <<insideSmm, allCpusInSync, bspIndex>>

\* Time is up and the BSP is not inside: leave at once, or after a moment.
StartOver(c) == Goto(c, "ap_timer1") /\ UNCHANGED syncVars
DecideToGiveUp(c) ==
  IF GiveUpRace THEN Goto(c, "ap_giveup") /\ UNCHANGED syncVars ELSE GiveUp(c)

ApTimeout1(c) ==
  /\ Step(c, "ap_timer1", "ap_known") /\ ~insideSmm
  /\ UNCHANGED memory

\* "BSP Index is known": an SMI IPI may bring the BSP in.
ApCallBsp(c) ==
  /\ Step(c, "ap_known", "ap_timer2") /\ bspIndex # NoBsp
  /\ SendSmiIpi(bspIndex)
  /\ UNCHANGED <<smiStatus, smis, stackVars, platVars, syncVars, taskVars,
                 dataVars>>

ApNobodyToCall(c) ==
  /\ At(c, "ap_known") /\ bspIndex = NoBsp
  /\ DecideToGiveUp(c)
  /\ UNCHANGED notSync

ApTimeout2(c) ==
  /\ At(c, "ap_timer2") /\ ~insideSmm
  /\ DecideToGiveUp(c)
  /\ UNCHANGED notSync

ApGiveUp(c) ==
  /\ At(c, "ap_giveup")
  /\ GiveUp(c)
  /\ UNCHANGED notSync

\* ReleaseSemaphore (&CpuData[BspIndex].Run): a word to the BSP that changes
\* nothing else.
ApSignal(c) ==
  /\ Up(bsp[c])
  /\ \/ Step(c, "ap_arrive", IF NeedConfigureMtrrs THEN "ap_wait_backup" ELSE "ap_work")
     \/ Step(c, "ap_rdy_restore", "ap_wait_restore")
     \/ Step(c, "ap_bye", "finished")
  /\ UNCHANGED <<present, notData>>

\* WaitForSemaphore (&CpuData[CpuIndex].Run).
ApWait(c) ==
  /\ Down(c)
  /\ \/ Step(c, "ap_wait_backup", "ap_backup")
     \/ Step(c, "ap_wait_program", "ap_program")
     \/ Step(c, "ap_work", "ap_check")
     \/ Step(c, "ap_wait_restore", "ap_ready")
     \/ Step(c, "ap_wait_reset", "ap_absent")
  /\ UNCHANGED <<present, notData>>

ApBackupMtrrs(c) ==
  /\ Step(c, "ap_backup", "ap_wait_program")
  /\ mtrrs' = [mtrrs EXCEPT ![c] = mtrr[CoreOf[c]]]
  /\ Up(bsp[c])
  /\ UNCHANGED <<present, mtrr, stackVars, syncVars, taskVars, hwVars,
                 electVars, modeVars>>

ApReplaceOSMtrrs(c) ==
  /\ Step(c, "ap_program", "ap_work")
  /\ mtrr' = [mtrr EXCEPT ![CoreOf[c]] = "smm"]
  /\ Up(bsp[c])
  /\ UNCHANGED <<present, mtrrs, stackVars, syncVars, taskVars, hwVars,
                 electVars, modeVars>>

\* Woken: is there work, or does the BSP want to exit SMM?
ApCheckExit(c) ==
  /\ At(c, "ap_check")
  /\ Goto(c, IF insideSmm THEN "ap_procedure"
             ELSE IF NeedConfigureMtrrs THEN "ap_rdy_restore" ELSE "ap_ready")
  /\ UNCHANGED memory

ApRunProcedure(c) ==
  /\ Step(c, "ap_procedure", "ap_release")
  /\ executions' = [p \in DOMAIN executions |->
                      executions[p] + IF p = procedure[c] THEN 1 ELSE 0]
  /\ UNCHANGED <<busy, procedure, started, calls, stackVars, platVars,
                 syncVars, hwVars, dataVars>>

ApReleaseBusy(c) ==
  /\ Step(c, "ap_release", "ap_work")
  /\ busy' = [busy EXCEPT ![c] = FALSE]
  /\ UNCHANGED <<procedure, started, executions, calls, stackVars, platVars,
                 syncVars, hwVars, dataVars>>

\* Restore the OS MTRRs if they were replaced, then tell the BSP.
ApReady(c) ==
  /\ Step(c, "ap_ready", "ap_wait_reset")
  /\ mtrr' = IF NeedConfigureMtrrs THEN [mtrr EXCEPT ![CoreOf[c]] = mtrrs[c]]
             ELSE mtrr
  /\ Up(bsp[c])
  /\ UNCHANGED <<present, mtrrs, stackVars, syncVars, taskVars, hwVars,
                 electVars, modeVars>>

ApAbsent(c) ==
  /\ Step(c, "ap_absent", "ap_bye")
  /\ present' = [present EXCEPT ![c] = FALSE]
  /\ UNCHANGED <<run, notData>>

(***************************************************************************)
(* BSPHandler.                                                              *)
(***************************************************************************)
BspFlagInside(c) ==
  /\ Step(c, "b_inside", "b_present")
  /\ insideSmm' = TRUE
  /\ UNCHANGED <<counter, allCpusInSync, bspIndex, notSync>>

BspPresent(c) ==
  /\ Step(c, "b_present", "b_clear")
  /\ present' = [present EXCEPT ![c] = TRUE]
  /\ UNCHANGED <<run, notData>>

\* ClearTopLevelSmiStatus, before the handlers look for SMI sources.
BspClearSmiStatus(c) ==
  /\ At(c, "b_clear")
  /\ smiStatus' = FALSE
  /\ Goto(c, IF Gathers(c) THEN "b_arrive1" ELSE "b_busy")
  /\ UNCHANGED <<smiPending, smis, stackVars, platVars, syncVars, taskVars,
                 dataVars>>

(* SmmWaitForApArrival *)
AllCpusInSmmWithExceptions ==
  counter = NumberOfCpus \/ \A i \in Cpu : present[i]

ArrivalDone(c) ==
  /\ inWorker' = [inWorker EXCEPT ![c] = FALSE]
  /\ Goto(c, IF inWorker[c] THEN "b_core" ELSE "b_sync")

BspArrivalLoopEnds(c) ==
  /\ \/ Step(c, "b_arrive1", "b_missing") /\ UNCHANGED inWorker
     \/ At(c, "b_arrive2") /\ ArrivalDone(c)
  /\ UNCHANGED <<index, apCount, left, notStack, entryVars>>

BspAllArrived(c)     == AllCpusInSmmWithExceptions /\ BspArrivalLoopEnds(c)
BspArrivalTimeout(c) == ~AllCpusInSmmWithExceptions /\ BspArrivalLoopEnds(c)

\* Counter < mNumberOfCpus, unsigned: a locked counter is not below anything.
BspLookForMissing(c) ==
  /\ At(c, "b_missing")
  /\ \/ /\ counter \in 0 .. NumberOfCpus - 1
        /\ StartLoop(c)
        /\ Goto(c, "b_ipi")
        /\ UNCHANGED inWorker
     \/ /\ counter \notin 0 .. NumberOfCpus - 1
        /\ ArrivalDone(c)
        /\ UNCHANGED index
  /\ UNCHANGED <<apCount, left, notStack, entryVars>>

\* A loop over the processors, from the last to the first: its body for
\* processor i, and where to go after the first.
Loop(c, label, i, next) ==
  /\ At(c, label)
  /\ index[c] = i + 1
  /\ index' = [index EXCEPT ![c] = i]
  /\ Goto(c, IF i = 0 THEN next ELSE label)

BspSendSmiIpis(c) ==
  /\ \E i \in Cpu : /\ Loop(c, "b_ipi", i, "b_arrive2")
                    /\ IF present[i] THEN UNCHANGED smiPending ELSE SendSmiIpi(i)
  /\ UNCHANGED <<smiStatus, smis, apCount, left, inWorker, platVars, syncVars,
                 entryVars, taskVars, dataVars>>

(* Closing the run to late processors. *)
BspRaiseSync(c) ==
  /\ Step(c, "b_sync", "b_lock")
  /\ allCpusInSync' = TRUE
  /\ UNCHANGED <<counter, insideSmm, bspIndex, notSync>>

\* LockdownSemaphore; the run now has ApCount APs.
BspLockCounter(c) ==
  /\ At(c, "b_lock")
  /\ counter' = Locked
  /\ apCount' = [apCount EXCEPT ![c] = counter - 1]
  /\ \/ /\ Gathers(c)
        /\ WaitForAllAPs(c, counter - 1)
        /\ Goto(c, "b_wait_arrive")
     \/ /\ ~Gathers(c)
        /\ Goto(c, "b_count")
        /\ UNCHANGED left
  /\ UNCHANGED <<insideSmm, allCpusInSync, bspIndex, index, inWorker,
                 platVars, entryVars, taskVars, hwVars, dataVars>>

WaitLabels == {"b_wait_arrive", "b_wait_backup", "b_wait_program",
               "b_wait_exit", "b_wait_restore", "b_wait_reset"}

\* One iteration of WaitForAllAPs.
BspWaitForAp(c) ==
  /\ pc[c] \in WaitLabels /\ left[c] > 0
  /\ Down(c)
  /\ left' = [left EXCEPT ![c] = @ - 1]
  /\ UNCHANGED <<present, pc, index, apCount, inWorker, platVars, syncVars,
                 entryVars, taskVars, hwVars>>

\* WaitForAllAPs returns.
BspAllSignalled(c) ==
  /\ left[c] = 0
  /\ \/ /\ At(c, "b_wait_arrive")
        /\ Goto(c, IF NeedConfigureMtrrs THEN "b_rel_backup" ELSE "b_busy")
     \/ Step(c, "b_wait_backup", "b_rel_program")
     \/ Step(c, "b_wait_program", "b_busy")
     \/ Step(c, "b_wait_exit", "b_mode")
     \/ Step(c, "b_wait_restore", "b_rel_reset")
     \/ Step(c, "b_wait_reset", "b_nobsp")
  /\ IF pc'[c] \in {"b_rel_backup", "b_rel_program", "b_rel_reset"}
     THEN StartLoop(c) ELSE UNCHANGED index
  /\ UNCHANGED <<apCount, left, inWorker, notStack, entryVars>>

\* One iteration of ReleaseAllAPs.
ReleasesPresent(i) == present[i]
Releases(i)        == i # bspIndex /\ present[i]

BspReleaseAp(c) ==
  /\ \E i \in Cpu :
       /\ \/ Loop(c, "b_rel_backup", i, "b_backup")
          \/ Loop(c, "b_rel_program", i, "b_program")
          \/ Loop(c, "b_rel_exit", i, "b_wait_exit")
          \/ Loop(c, "b_rel_restore", i, "b_restore")
          \/ Loop(c, "b_rel_reset", i, "b_update")
       /\ IF Releases(i) THEN Up(i) ELSE UNCHANGED run
  /\ IF pc'[c] = "b_wait_exit" THEN WaitForAllAPs(c, apCount[c]) ELSE UNCHANGED left
  /\ UNCHANGED <<present, apCount, inWorker, platVars, syncVars, entryVars,
                 taskVars, hwVars>>

\* The BSP's own share of the MTRR phases, then WaitForAllAPs is called.
BspMtrrs(c) ==
  /\ \/ /\ Step(c, "b_backup", "b_wait_backup")
        /\ mtrrs' = [mtrrs EXCEPT ![c] = mtrr[CoreOf[c]]]
        /\ UNCHANGED mtrr
     \/ /\ Step(c, "b_program", "b_wait_program")
        /\ mtrr' = [mtrr EXCEPT ![CoreOf[c]] = "smm"]
        /\ UNCHANGED mtrrs
     \/ /\ Step(c, "b_restore", "b_wait_restore")
        /\ mtrr' = [mtrr EXCEPT ![CoreOf[c]] = mtrrs[c]]
        /\ UNCHANGED mtrrs
  /\ WaitForAllAPs(c, apCount[c])
  /\ UNCHANGED <<index, apCount, inWorker, syncVars, entryVars, taskVars,
                 hwVars, electVars, modeVars, dataVars>>

BspAcquireOwnBusy(c) ==
  /\ Step(c, "b_busy", "b_core")
  /\ busy' = [busy EXCEPT ![c] = TRUE]
  /\ UNCHANGED <<procedure, started, executions, calls, stackVars, platVars,
                 syncVars, hwVars, dataVars>>

(***************************************************************************)
(* What the SMM foundation and the SMI handlers may call.                   *)
(***************************************************************************)
Call(c) == At(c, "b_core") /\ calls < MaxCalls /\ calls' = calls + 1

\* SmmStartupThisAp and SmmBlockingStartupThisAp: the checks, the last of
\* which acquires Busy.  When one fails the call returns and changes nothing.
MayStartBusy(c, i) == i # c /\ present[i]
MayStart(c, i)     == i # c /\ present[i] /\ ~busy[i]

SmmStartupThisAp(c, i) ==
  /\ Call(c)
  /\ MayStart(c, i)
  /\ busy' = [busy EXCEPT ![i] = TRUE]
  /\ index' = [index EXCEPT ![c] = i]
  /\ \/ Goto(c, "b_start_block")
     \/ ~BlockStartupThisAp /\ Goto(c, "b_start")
  /\ UNCHANGED <<procedure, started, executions, apCount, left, inWorker,
                 platVars, syncVars, entryVars, hwVars, dataVars>>

ScheduleProcedure(c) ==
  /\ \/ Step(c, "b_start_block", "b_block") /\ UNCHANGED index
     \/ Step(c, "b_start", "b_core") /\ index' = [index EXCEPT ![c] = 0]
  /\ procedure' = [procedure EXCEPT ![index[c]] = calls]
  /\ started' = started \cup {calls}
  /\ Up(index[c])
  /\ UNCHANGED <<present, busy, executions, apCount, left, inWorker, calls,
                 platVars, syncVars, entryVars, hwVars>>

\* AcquireSpinLock and ReleaseSpinLock: wait until the AP has released Busy.
TaskStarted(i) == TRUE
TaskDone(i)    == ~busy[i]

ProcedureReturned(c) ==
  /\ Step(c, "b_block", "b_core")
  /\ TaskDone(index[c])
  /\ index' = [index EXCEPT ![c] = 0]
  /\ UNCHANGED <<apCount, left, inWorker, notStack, entryVars>>

SmmSyncSetMode(c, m) ==
  /\ Call(c)
  /\ syncModeToBeSet' = m
  /\ UNCHANGED <<effectiveSyncMode, busy, procedure, started, executions, pc,
                 stackVars, syncVars, hwVars, electVars, mtrrVars, dataVars>>

\* The worker's early return when everybody has checked in changes nothing.
SmmCpuSyncCheckApArrival(c) ==
  /\ Call(c)
  /\ counter # NumberOfCpus
  /\ inWorker' = [inWorker EXCEPT ![c] = TRUE]
  /\ Goto(c, "b_arrive1")
  /\ UNCHANGED <<busy, procedure, started, executions, index, apCount, left,
                 platVars, syncVars, entryVars, hwVars, dataVars>>

SmmSwitchBsp(c, i) ==
  /\ Call(c)
  /\ i # c /\ operation[i] = "None"
  /\ operation' = [operation EXCEPT ![i] = "SwitchBsp"]
  /\ UNCHANGED <<switchBsp, candidateBsp, busy, procedure, started,
                 executions, pc, stackVars, syncVars, hwVars, modeVars,
                 mtrrVars, dataVars>>

\* SMI IPIs that a handler sends through the SMM_CPU_SYNC2 protocol.
SmmCpuSync2SendSmi(c, i) ==
  /\ Call(c)
  /\ SendSmiIpi(i)
  /\ UNCHANGED <<smiStatus, smis, busy, procedure, started, executions, pc,
                 stackVars, platVars, syncVars, dataVars>>

SmmCpuSync2SendSmiAllExcludingSelf(c) ==
  /\ Call(c)
  /\ smiPending' = [i \in Cpu |-> smiPending[i] \/ i # c]
  /\ UNCHANGED <<smiStatus, smis, busy, procedure, started, executions, pc,
                 stackVars, platVars, syncVars, dataVars>>

SmmCoreReturns(c) ==
  /\ Step(c, "b_core", "b_drain")
  /\ StartLoop(c)
  /\ UNCHANGED <<apCount, left, inWorker, notStack, entryVars>>

(***************************************************************************)
(* BSPHandler, on the way out.                                              *)
(***************************************************************************)

\* Wait for the pending task of each AP that is present. ClearSmi, which is
\* called next (line 447), writes chipset registers only (APM_STS and EOS):
\* it is part of Return of SmiDispatcher. smiStatus is the bit that
\* PlatformValidSmi reads and ClearTopLevelSmiStatus clears, a different one.
BspDrain(c) ==
  /\ \E i \in Cpu :
       /\ Loop(c, "b_drain", i, IF Gathers(c) THEN "b_outside" ELSE "b_sync")
       /\ i # c /\ present[i] => TaskDone(i)
  /\ UNCHANGED <<apCount, left, inWorker, notStack, entryVars>>

\* Relaxed mode: every AP that is counted has its Present flag set.
PresentCount == Cardinality({i \in Cpu : present[i]})
OneStillMissing(c)  == PresentCount >= apCount[c]
NobodyMissing(c)    == PresentCount > apCount[c]

BspAllPresent(c) ==
  /\ Step(c, "b_count", "b_outside")
  /\ NobodyMissing(c)
  /\ UNCHANGED memory

BspFlagOutside(c) ==
  /\ Step(c, "b_outside", "b_rel_exit")
  /\ insideSmm' = FALSE
  /\ StartLoop(c)
  /\ UNCHANGED <<counter, allCpusInSync, bspIndex, apCount, left, inWorker,
                 platVars, entryVars, taskVars, hwVars, dataVars>>

BspSetEffectiveMode(c) ==
  /\ Step(c, "b_mode", IF NeedConfigureMtrrs THEN "b_rel_restore" ELSE "b_rel_reset")
  /\ effectiveSyncMode' = syncModeToBeSet
  /\ StartLoop(c)
  /\ UNCHANGED <<syncModeToBeSet, apCount, left, inWorker, syncVars,
                 entryVars, taskVars, hwVars, electVars, mtrrVars, dataVars>>

\* SmmCpuUpdate without hot plug: the pending BSP switches take effect.
SmmCpuUpdate(c) ==
  /\ Step(c, "b_update", "b_absent")
  /\ LET asked == {i \in Cpu : operation[i] = "SwitchBsp"} IN
       /\ switchBsp' = (switchBsp \/ asked # {})
       /\ candidateBsp' = [i \in Cpu |-> candidateBsp[i] \/ i \in asked]
       /\ operation' = [i \in Cpu |-> IF i \in asked THEN "None" ELSE operation[i]]
  /\ UNCHANGED <<stackVars, syncVars, taskVars, hwVars, modeVars, mtrrVars,
                 dataVars>>

BspAbsent(c) ==
  /\ Step(c, "b_absent", "b_wait_reset")
  /\ present' = [present EXCEPT ![c] = FALSE]
  /\ WaitForAllAPs(c, apCount[c])
  /\ UNCHANGED <<run, index, apCount, inWorker, platVars, syncVars, entryVars,
                 taskVars, hwVars>>

BspResign(c) ==
  /\ Step(c, "b_nobsp", "b_open")
  /\ bspIndex' = IF BspElection THEN NoBsp ELSE bspIndex
  /\ UNCHANGED <<counter, insideSmm, allCpusInSync, notSync>>

BspOpenCounter(c) ==
  /\ Step(c, "b_open", "b_unsync")
  /\ counter' = 0
  /\ UNCHANGED <<insideSmm, allCpusInSync, bspIndex, notSync>>

BspDropSync(c) ==
  /\ Step(c, "b_unsync", "finished")
  /\ allCpusInSync' = FALSE
  /\ UNCHANGED <<counter, insideSmm, bspIndex, notSync>>

(***************************************************************************)
(* The specification.                                                       *)
(***************************************************************************)
SmiRendezvous(c) ==
  \/ SampleValidSmi(c) \/ SampleBspInProgress(c) \/ CheckIn(c)
  \/ WaitForEndOfRun(c) \/ LeaveSmm(c) \/ InitializeBusy(c)
  \/ Stand(c) \/ ElectBsp(c) \/ BecomeBsp(c) \/ BecomeAp(c) \/ ReadSyncMode(c)

APHandler(c) ==
  \/ ApMarkPresent(c) \/ ApPresent(c)
  \/ ApTimeout1(c) \/ ApCallBsp(c) \/ ApNobodyToCall(c)
  \/ ApTimeout2(c) \/ ApGiveUp(c)
  \/ ApSignal(c) \/ ApWait(c) \/ ApBackupMtrrs(c) \/ ApReplaceOSMtrrs(c)
  \/ ApCheckExit(c) \/ ApRunProcedure(c) \/ ApReleaseBusy(c)
  \/ ApReady(c) \/ ApAbsent(c)

BSPHandler(c) ==
  \/ BspFlagInside(c) \/ BspPresent(c) \/ BspClearSmiStatus(c)
  \/ BspAllArrived(c) \/ BspArrivalTimeout(c) \/ BspLookForMissing(c)
  \/ BspSendSmiIpis(c) \/ BspRaiseSync(c) \/ BspLockCounter(c)
  \/ BspWaitForAp(c) \/ BspAllSignalled(c) \/ BspReleaseAp(c) \/ BspMtrrs(c)
  \/ BspAcquireOwnBusy(c) \/ SmmCoreReturns(c)
  \/ ScheduleProcedure(c) \/ ProcedureReturned(c)
  \/ BspDrain(c) \/ BspAllPresent(c) \/ BspFlagOutside(c)
  \/ BspSetEffectiveMode(c) \/ SmmCpuUpdate(c) \/ BspAbsent(c)
  \/ BspResign(c) \/ BspOpenCounter(c) \/ BspDropSync(c)

SmiHandlers(c) ==
  \/ \E i \in Cpu : \/ SmmStartupThisAp(c, i) \/ SmmSwitchBsp(c, i)
                     \/ SmmCpuSync2SendSmi(c, i)
  \/ \E m \in SyncModes : SmmSyncSetMode(c, m)
  \/ SmmCpuSyncCheckApArrival(c) \/ SmmCpuSync2SendSmiAllExcludingSelf(c)

\* The bound on SMIs is spent and every processor runs the OS for good.
Idle ==
  /\ smis = MaxSmi
  /\ \A c \in Cpu : pc[c] = "os" /\ ~smiPending[c]
  /\ UNCHANGED vars

Next ==
  \/ RaiseSmi \/ Idle
  \/ \E c \in Cpu : \/ EnterSmi(c) \/ SmiRendezvous(c) \/ APHandler(c)
                    \/ BSPHandler(c) \/ SmiHandlers(c)

Spec == Init /\ [][Next]_vars

\* Every processor keeps executing; an SMI it has latched is taken; a timer
\* expires in the end; an SMI handler returns in the end.
Fairness ==
  \A c \in Cpu : /\ WF_vars(EnterSmi(c))
                 /\ WF_vars(SmiRendezvous(c) \/ APHandler(c) \/ BSPHandler(c))

FairSpec == Spec /\ Fairness
-----------------------------------------------------------------------------
(***************************************************************************)
(* Where a processor is.                                                    *)
(***************************************************************************)

\* Past CheckIn, with its share of Counter, and not yet bound to this run.
JoiningLabels == {"initbusy", "elect", "cas", "role", "ap_mode", "ap_timer1",
                  "ap_known", "ap_timer2", "ap_giveup"}

\* In APHandler with the BSP known to be inside.
ApLabels == {"ap_present", "ap_arrive", "ap_wait_backup", "ap_backup",
             "ap_wait_program", "ap_program", "ap_work", "ap_check",
             "ap_procedure", "ap_release", "ap_rdy_restore", "ap_wait_restore",
             "ap_ready", "ap_wait_reset", "ap_absent", "ap_bye"}

\* In the part of BSPHandler that comes before the handlers, that runs them,
\* that drains their tasks, and that lets the APs go.
BspGatherLabels == {"b_inside", "b_present", "b_clear", "b_arrive1", "b_missing",
                    "b_ipi", "b_arrive2", "b_sync", "b_lock", "b_wait_arrive",
                    "b_rel_backup", "b_backup", "b_wait_backup",
                    "b_rel_program", "b_program", "b_wait_program", "b_busy"}
BspCoreLabels == {"b_core", "b_start", "b_start_block", "b_block"}
BspExitLabels == {"b_rel_exit", "b_wait_exit", "b_mode", "b_rel_restore",
                  "b_restore", "b_wait_restore"}
BspResetLabels == {"b_rel_reset", "b_update", "b_absent", "b_wait_reset",
                   "b_nobsp", "b_open"}
BspLabels == BspGatherLabels \cup BspCoreLabels \cup BspExitLabels
             \cup BspResetLabels \cup {"b_drain", "b_count", "b_outside"}

Labels == {"os", "sample", "progress", "checkin", "excluded", "finished", "exit",
           "b_unsync"} \cup JoiningLabels \cup ApLabels \cup BspLabels

In(c, labels) == pc[c] \in labels

\* Every variable has its type: the shared memory, the hardware, where each
\* processor is, its stack, the history.
SyncType ==
  /\ counter \in Int
  /\ insideSmm \in BOOLEAN /\ allCpusInSync \in BOOLEAN
  /\ bspIndex \in Cpu \cup {NoBsp}
  /\ switchBsp \in BOOLEAN /\ candidateBsp \in [Cpu -> BOOLEAN]
  /\ operation \in [Cpu -> {"None", "SwitchBsp"}]
  /\ syncModeToBeSet \in SyncModes /\ effectiveSyncMode \in SyncModes
CpuDataType ==
  /\ run \in [Cpu -> Int]
  /\ present \in [Cpu -> BOOLEAN]
  /\ busy \in [Cpu -> BOOLEAN]
  /\ procedure \in [Cpu -> 0 .. MaxCalls]
HardwareType ==
  /\ smiStatus \in BOOLEAN /\ smiPending \in [Cpu -> BOOLEAN]
  /\ mtrr \in [Cpu -> Settings] /\ mtrrs \in [Cpu -> Settings]
PcType == pc \in [Cpu -> Labels]
StackType ==
  /\ validSmi \in [Cpu -> BOOLEAN] /\ bspInProgress \in [Cpu -> BOOLEAN]
  /\ syncMode \in [Cpu -> SyncModes]
  /\ bsp \in [Cpu -> Cpu \cup {NoBsp}]
  /\ index \in [Cpu -> 0 .. NumberOfCpus]
  /\ apCount \in [Cpu -> Int] /\ left \in [Cpu -> Int]
  /\ inWorker \in [Cpu -> BOOLEAN]
HistoryType ==
  /\ smis \in 0 .. MaxSmi /\ calls \in 0 .. MaxCalls
  /\ started \subseteq 0 .. MaxCalls
  /\ executions \in [1 .. MaxCalls -> Nat]

TypeOK == SyncType /\ CpuDataType /\ HardwareType /\ PcType /\ StackType /\ HistoryType

\* One BSP at a time: from its election until it resigns (BSPHandler resets
\* BspIndex) BspIndex names it, and no other processor runs BSPHandler.
ActingLabels == BspLabels \ {"b_open"}
OneBsp ==
  \A b \in Cpu : In(b, ActingLabels) =>
    /\ bspIndex = b
    /\ \A c \in Cpu \ {b} : ~In(c, ActingLabels)

\* Until the BSP locks it, Counter is the number of processors that have
\* checked in and neither given up nor finished (SmiRendezvous, APHandler).
Counted == {c \in Cpu : In(c, JoiningLabels \cup ApLabels \cup BspLabels)}
CounterCounts == counter >= 0 => counter = Cardinality(Counted)

\* ReleaseAllAPs goes by Present and WaitForAllAPs by ApCount: from the moment
\* the APs are gathered until the first may clear its flag the two agree.
PresentAreCounted ==
  \A b \in Cpu :
    \/ In(b, BspExitLabels \cup {"b_outside"})
    \/ Gathers(b) /\ In(b, BspCoreLabels \cup {"b_busy", "b_drain"})
    => Cardinality({c \in Cpu \ {b} : present[c]}) = apCount[b]

\* ASSERT (CpuData[CpuIndex].Run == 0) at the end of SmiRendezvous: no signal
\* is left over for the next run.
NoSignalLeftOver == \A c \in Cpu : In(c, {"finished", "os"}) => run[c] = 0

\* "No AP will execute normal mode code" (SmmWaitForApArrival, CheckApArrival):
\* while the handlers run in traditional mode, and in any mode when
\* AllCpusInSmmWithExceptions answers TRUE, a processor that is out of SMM, or
\* on its way out, has an SMI latched and is back before its next instruction.
NoNormalModeCode ==
  \A b \in Cpu :
    \/ /\ Gathers(b)
       /\ In(b, BspCoreLabels \cup {"b_sync", "b_lock", "b_wait_arrive",
                                    "b_busy", "b_drain", "b_outside"})
    \/ In(b, {"b_core"}) /\ AllCpusInSmmWithExceptions
    => \A c \in Cpu : In(c, {"os", "exit"}) => smiPending[c]

\* An AP runs with the sync mode of the BSP it serves: EffectiveSyncMode is
\* written in the window where no AP can check in.
ModesAgree ==
  \A b, c \in Cpu :
    In(b, BspLabels) /\ In(c, ApLabels) => syncMode[c] = syncMode[b]

\* A scheduled procedure is run once, and before the BSP lets the APs go.
ScheduledOnce ==
  /\ \A p \in 1 .. MaxCalls : executions[p] <= 1
  /\ \A b \in Cpu : In(b, BspExitLabels \cup {"b_outside"}) =>
       \A p \in started : executions[p] = 1

\* ASSERT in APHandler: Busy is held while the AP runs a procedure, and the
\* procedure it runs is one it has not run yet.
BusyGuardsProcedure ==
  \A c \in Cpu :
    /\ In(c, {"ap_procedure", "ap_release"}) => busy[c]
    /\ In(c, {"ap_procedure"}) => procedure[c] \in started
                                  /\ executions[procedure[c]] = 0

\* The MTRR phases: what is saved are the OS settings, even when another
\* thread of the core has arrived; the handlers run with the SMM settings on
\* every processor that takes part; no AP is released before all is restored.
MtrrPhases ==
  /\ \A c \in Cpu : mtrrs[c] = "os"
  /\ NeedConfigureMtrrs => \A b \in Cpu :
       /\ In(b, BspCoreLabels) =>
            \A c \in Cpu : present[c] => mtrr[CoreOf[c]] = "smm"
       /\ In(b, BspResetLabels) => \A c \in Cpu : mtrr[c] = "os"

\* When the BSP resets Counter nobody is left who was counted in this run.
ReopenedEmpty ==
  \A b \in Cpu : In(b, {"b_open"}) => Counted = {b}

\* A processor that waits for AllCpusInSync does not leave SMM between the
\* moment the BSP has closed the run and the moment it reopens the counter.
NobodyLeavesClosedRun ==
  [][\A b, c \in Cpu :
       In(c, {"excluded", "finished"}) /\ pc'[c] = "exit" =>
         ~In(b, BspLabels) \/ In(b, {"b_inside", "b_present", "b_clear",
           "b_arrive1", "b_missing", "b_ipi", "b_arrive2", "b_sync"})
           \/ ~Gathers(b)]_vars

\* SmmSwitchBsp is honoured: while a switch is pending only a candidate is
\* elected, although SwitchBsp is read some steps before the compare-exchange.
SwitchHonoured ==
  [][\A c \in Cpu : bspIndex = NoBsp /\ bspIndex' = c /\ switchBsp =>
       candidateBsp[c]]_vars

\* SmmBlockingStartupThisAp returns only after the AP has run the procedure.
BlockingCallReturnsAfter ==
  [][\A b \in Cpu : In(b, {"b_block"}) /\ pc'[b] = "b_core" =>
       executions[procedure[index[b]]] = 1]_vars

\* The BSP's handler ends.
RunEnds == insideSmm ~> ~insideSmm

\* A processor that takes an SMI gets back to the OS.
EverybodyLeaves == \A c \in Cpu : pc[c] # "os" ~> pc[c] = "os"

\* An SMI the chipset reports is served: its status is cleared by a BSP.
SmiServed == smiStatus ~> ~smiStatus
=============================================================================
