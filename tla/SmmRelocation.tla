---------------------------- MODULE SmmRelocation ----------------------------
(***************************************************************************)
(* How the processors get an SMBASE of their own, on the first boot and on *)
(* every resume from S3.  On S3 the PEIM MpS3.c first brings the APs up:   *)
(* INIT-SIPI to all of them, the funnel of HtFuncs.asm that hands out the  *)
(* stacks, MPRendezvousProcedure and the FinishedCount the BSP waits for.  *)
(* Then, on both paths, SmmRelocateBases of PiSmmCpuDxeSmm.c sends every   *)
(* processor through its first SMI.  All of these SMIs run at the default  *)
(* SMBASE, with one handler, one stack and one save state area, so they    *)
(* have to come one at a time; the AP tells the BSP that it has left SMM   *)
(* from SmmRelocationSemaphoreComplete, a piece of code that SemaphoreHook *)
(* makes RSM return to.                                                    *)
(*                                                                         *)
(* SMRAM survives S3, so mRebased, mIsBsp, mRebasedFlag and                *)
(* mSmmRelocationOriginalAddress start a resume with what the last boot    *)
(* left in them; processors and PEI memory start from reset.               *)
(***************************************************************************)
EXTENDS Naturals, FiniteSets

CONSTANTS
    NumberOfCpus,   \* mNumberOfCpus, and NumberOfCpus of the PEI data
    Bsp,            \* the index of the boot processor in ProcessorInfo
    ParkedOn,       \* paths on which the APs have time to halt before SMM
    LoadsFirst,     \* X64/SmmInit.S (TRUE) or X64/SmmInit.asm (FALSE)
    MaxResumes      \* bound on the number of S3 cycles

Cpus == 0 .. NumberOfCpus - 1
APs == Cpus \ {Bsp}
Paths == {"boot", "s3"}

ASSUME RelocationAssumption ==
    /\ NumberOfCpus \in Nat
    /\ Bsp \in Cpus
    /\ ParkedOn \subseteq Paths
    /\ LoadsFirst \in BOOLEAN
    /\ MaxResumes \in Nat

VARIABLES
    path,       \* which boot path this is
    resumes,    \* S3 cycles so far
    pc,         \* where each processor is in normal mode
    smm,        \* where it is in the relocation handler, "no" outside SMM
    smi,        \* an SMI IPI has been accepted and not yet taken
    smbase,     \* the internal SMBASE register
    eax, esp,   \* registers of the APs: a value on its way, the stack
    mtrr,       \* the AP has copied the BSP's MTRRs
    target,     \* the return address SmmRelocationSemaphoreComplete loaded
    from,       \* history: where the processor's last SMI interrupted it
    ex,         \* MP_CPU_EXCHANGE_INFO of MpS3.c
    mem,        \* what is at 0x38000 (handler) and 0x3FC00 (save)
    bak,        \* BakBuf and BakBuf2
    index,      \* Index of the loop of SmmRelocateBases
    mIsBsp, mRebased, mRebasedFlag, mSmmRelocationOriginalAddress,
    sync        \* mSmmMpSyncData: not allocated, stale or initialised

peiVars == <<ex, eax, esp, mtrr>>
smmVars == <<mIsBsp, mRebased, mRebasedFlag, mSmmRelocationOriginalAddress, sync>>
loopVars == <<mem, bak, index>>
cpuVars == <<pc, smm, smi, smbase, target, from>>
vars == <<path, resumes, cpuVars, peiVars, loopVars, smmVars>>

\* A processor's own SMBASE is named by its index; the default one, and the
\* absence of a processor, by the first number that is no index.
Default == NumberOfCpus
NoCpu == NumberOfCpus
None == "none"

Funnel == {"sipi", "lock", "stack", "stackset", "unlock", "body", "acquire",
           "count", "countset", "release"}
Parking == {"tail", "loop", "hlt"}
Semaphore == {"load", "flag", "jump"}
BspCode == {"wake", "wait", "enter", "next", "send", "poll", "self",
            "restore", "done"}
Places == Funnel \cup Parking \cup Semaphore \cup BspCode
Contents == [handler : {None, "template"},
             save : [rip : Places \cup {None}, halted : BOOLEAN, smbase : 0 .. NumberOfCpus]]

\* What was at the default SMBASE before, which is nobody's handler or state.
Previous == [handler |-> None, save |-> [rip |-> None, halted |-> FALSE, smbase |-> Default]]

(***************************************************************************)
(* PEI on S3: WakeUpAPs on the BSP, the funnel and MPRendezvousProcedure   *)
(* on the APs.                                                             *)
(***************************************************************************)
Move(c, a, b) == pc[c] = a /\ smm[c] = "no" /\ pc' = [pc EXCEPT ![c] = b]

\* Mutant: the exchange area of the last resume is kept but for the count.
StackNotRewound ==
    /\ Move(Bsp, "wake", "wait")
    /\ ex' = [ex EXCEPT !.FinishedCount = 0]
    /\ UNCHANGED <<path, resumes, smm, smi, smbase, target, from, eax, esp, mtrr,
                   loopVars, smmVars>>

\* WakeUpAPs: the exchange area is written afresh, then INIT-SIPI.
WakeUpAPs ==
    /\ Move(Bsp, "wake", "wait")
    /\ ex' = [Lock |-> 0, StackStart |-> 0, FinishedCount |-> 0, SerializeLock |-> 0]
    /\ UNCHANGED <<path, resumes, smm, smi, smbase, target, from, eax, esp, mtrr,
                   loopVars, smmVars>>

\* The last loop of WakeUpAPs; SmmRestoreCpu is entered much later.
AllFinished ==
    /\ ex.FinishedCount >= NumberOfCpus - 1
    /\ Move(Bsp, "wait", "enter")
    /\ UNCHANGED <<path, resumes, smm, smi, smbase, target, from, peiVars,
                   loopVars, smmVars>>

ApUnchanged == UNCHANGED <<path, resumes, smm, smi, smbase, target, from,
                           loopVars, smmVars>>

\* The SIPI arrives and the AP runs the real-mode part of the funnel.
ApStart(a) ==
    /\ pc[Bsp] = "wait"
    /\ Move(a, "sipi", "lock")
    /\ UNCHANGED peiVars /\ ApUnchanged

\* Mutant: the exchange of the lock is not looked at.
LockNotTested(a) ==
    /\ Move(a, "lock", "stack")
    /\ ex' = [ex EXCEPT !.Lock = 1]
    /\ UNCHANGED <<eax, esp, mtrr>> /\ ApUnchanged

TestLock(a) ==
    /\ ex.Lock = 0
    /\ Move(a, "lock", "stack")
    /\ ex' = [ex EXCEPT !.Lock = 1]
    /\ UNCHANGED <<eax, esp, mtrr>> /\ ApUnchanged

\* One stack is one unit: esp becomes StackStart + StackSize, and so does
\* StackStart.
ProgramStack(a) ==
    /\ \/ /\ Move(a, "stack", "stackset")
          /\ eax' = [eax EXCEPT ![a] = ex.StackStart + 1]
          /\ UNCHANGED <<ex, esp>>
       \/ /\ Move(a, "stackset", "unlock")
          /\ esp' = [esp EXCEPT ![a] = eax[a]]
          /\ ex' = [ex EXCEPT !.StackStart = eax[a]]
          /\ UNCHANGED eax
    /\ UNCHANGED mtrr /\ ApUnchanged

Releaselock(a) ==
    /\ Move(a, "unlock", "body")
    /\ ex' = [ex EXCEPT !.Lock = 0]
    /\ UNCHANGED <<eax, esp, mtrr>> /\ ApUnchanged

\* MPRendezvousProcedure: virtual wire mode, microcode and MTRRs, which
\* touch this processor only, then FinishedCount++ under SerializeLock.
MPRendezvousProcedure(a) ==
    /\ \/ /\ Move(a, "body", "acquire")
          /\ mtrr' = [mtrr EXCEPT ![a] = TRUE]
          /\ UNCHANGED <<ex, eax>>
       \/ /\ ex.SerializeLock = 0
          /\ Move(a, "acquire", "count")
          /\ ex' = [ex EXCEPT !.SerializeLock = 1]
          /\ UNCHANGED <<eax, mtrr>>
       \/ /\ Move(a, "count", "countset")
          /\ eax' = [eax EXCEPT ![a] = ex.FinishedCount]
          /\ UNCHANGED <<ex, mtrr>>
       \/ /\ Move(a, "countset", "release")
          /\ ex' = [ex EXCEPT !.FinishedCount = eax[a] + 1]
          /\ UNCHANGED <<eax, mtrr>>
       \/ /\ Move(a, "release", "tail")
          /\ ex' = [ex EXCEPT !.SerializeLock = 0]
          /\ UNCHANGED <<eax, mtrr>>
    /\ UNCHANGED esp /\ ApUnchanged

\* cli; hlt; jmp $-2.  "loop" is the jump, where an SMI wakes the AP up.
Halt(a) ==
    /\ Move(a, "tail", "hlt") \/ Move(a, "loop", "hlt")
    /\ UNCHANGED peiVars /\ ApUnchanged

(***************************************************************************)
(* SmmRelocateBases on the BSP.                                            *)
(***************************************************************************)
BspUnchanged == UNCHANGED <<path, resumes, smm, smbase, target, from, peiVars, mRebasedFlag,
                            mSmmRelocationOriginalAddress, sync>>

\* Mutant: the template is copied in before the backup is made.
BackupTooLate ==
    /\ path \in ParkedOn => \A a \in APs : pc[a] = "hlt"
    /\ Move(Bsp, "enter", "next")
    /\ mem' = [mem EXCEPT !.handler = "template"]
    /\ bak' = mem'
    /\ mIsBsp' = FALSE
    /\ index' = 0
    /\ UNCHANGED <<smi, mRebased>> /\ BspUnchanged

\* Back up 0x38000 and the save state area, install the template.
InstallTemplate ==
    /\ path \in ParkedOn => \A a \in APs : pc[a] = "hlt"
    /\ Move(Bsp, "enter", "next")
    /\ bak' = mem
    /\ mem' = [mem EXCEPT !.handler = "template"]
    /\ mIsBsp' = FALSE
    /\ index' = 0
    /\ UNCHANGED <<smi, mRebased>> /\ BspUnchanged

\* Mutant: mRebased keeps what the last boot left in it.
FlagNotCleared ==
    /\ \/ index \in APs /\ Move(Bsp, "next", "send") /\ UNCHANGED <<index, mIsBsp>>
       \/ /\ index = Bsp
          /\ Move(Bsp, "next", "next")
          /\ index' = index + 1
          /\ UNCHANGED mIsBsp
       \/ /\ index = NumberOfCpus
          /\ Move(Bsp, "next", "self")
          /\ mIsBsp' = TRUE
          /\ UNCHANGED index
    /\ UNCHANGED <<mRebased, smi, mem, bak>> /\ BspUnchanged

\* Head of the loop over the processors.
NextCpu ==
    /\ \/ /\ index \in APs
          /\ Move(Bsp, "next", "send")
          /\ mRebased' = [mRebased EXCEPT ![index] = FALSE]
          /\ UNCHANGED <<index, mIsBsp>>
       \/ /\ index = Bsp
          /\ Move(Bsp, "next", "next")
          /\ index' = index + 1
          /\ UNCHANGED <<mRebased, mIsBsp>>
       \/ /\ index = NumberOfCpus
          /\ Move(Bsp, "next", "self")
          /\ mIsBsp' = TRUE
          /\ UNCHANGED <<index, mRebased>>
    /\ UNCHANGED <<smi, mem, bak>> /\ BspUnchanged

\* SendSmiIpi: to the AP of this turn, or at the end to the BSP itself.
SendSmiIpi ==
    /\ \/ Move(Bsp, "send", "poll") /\ smi' = [smi EXCEPT ![index] = TRUE]
       \/ Move(Bsp, "self", "restore") /\ smi' = [smi EXCEPT ![Bsp] = TRUE]
    /\ UNCHANGED <<loopVars, mIsBsp, mRebased>> /\ BspUnchanged

\* while (!mRebased[Index]);
Rebased ==
    /\ Move(Bsp, "poll", "next")
    /\ mRebased[index]
    /\ index' = index + 1
    /\ UNCHANGED <<smi, mem, bak, mIsBsp, mRebased>> /\ BspUnchanged

\* The SMI to self is taken before SendIpi sees DeliveryStatus clear.
RestoreContents ==
    /\ ~ smi[Bsp]
    /\ Move(Bsp, "restore", "done")
    /\ mem' = bak
    /\ UNCHANGED <<smi, bak, index, mIsBsp, mRebased>> /\ BspUnchanged

(***************************************************************************)
(* The first SMI of a processor, at the default SMBASE.                    *)
(***************************************************************************)
InSmm(c) == smm[c] # "no"

\* SMI entry: the processor saves its state below SMBASE + 0x10000.
TakeSmi(c) ==
    /\ smi[c] /\ ~ InSmm(c) /\ smbase[c] = Default
    /\ smi' = [smi EXCEPT ![c] = FALSE]
    /\ smm' = [smm EXCEPT ![c] = "entered"]
    /\ LET rip == IF pc[c] = "hlt" THEN "loop" ELSE pc[c]
       IN /\ mem' = [mem EXCEPT !.save =
                        [rip |-> rip, halted |-> pc[c] = "hlt", smbase |-> smbase[c]]]
          /\ from' = [from EXCEPT ![c] = rip]
    /\ UNCHANGED <<path, resumes, pc, smbase, target, peiVars, bak, index, smmVars>>

\* SmmInitHandler up to SmmInitiFeatures, which for this processor family
\* writes the new SMBASE into the save state at the default SMBASE.
SmmInitHandler(c) ==
    /\ smm[c] = "entered"
    /\ smm' = [smm EXCEPT ![c] = IF mIsBsp THEN "initsync" ELSE "hook"]
    /\ mem' = [mem EXCEPT !.save.smbase = c]
    /\ UNCHANGED <<path, resumes, pc, smi, smbase, target, from, peiVars, bak, index, smmVars>>

\* Mutant: the auto HALT restart flag of the save state is left set.
AutoHaltKept(c) ==
    /\ smm[c] = "hook"
    /\ smm' = [smm EXCEPT ![c] = "rsm"]
    /\ mRebasedFlag' = c
    /\ mSmmRelocationOriginalAddress' = mem.save.rip
    /\ mem' = [mem EXCEPT !.save.rip =
                  IF path = "boot" /\ LoadsFirst THEN "load" ELSE "flag"]
    /\ UNCHANGED <<path, resumes, pc, smi, smbase, target, from, peiVars, bak, index,
                   mIsBsp, mRebased, sync>>

\* SemaphoreHook: RSM shall go to the semaphore code and not back to HLT.
\* The 32-bit semaphore code is used for the APs of the S3 path.
SemaphoreHook(c) ==
    /\ smm[c] = "hook"
    /\ smm' = [smm EXCEPT ![c] = "rsm"]
    /\ mRebasedFlag' = c
    /\ mSmmRelocationOriginalAddress' = mem.save.rip
    /\ mem' = [mem EXCEPT !.save.rip =
                  IF path = "boot" /\ LoadsFirst THEN "load" ELSE "flag",
                          !.save.halted = FALSE]
    /\ UNCHANGED <<path, resumes, pc, smi, smbase, target, from, peiVars, bak, index,
                   mIsBsp, mRebased, sync>>

\* InitializeMpSyncData, from the BSP's relocation SMI: nothing to do while
\* mSmmMpSyncData is NULL.
InitializeMpSyncData(c) ==
    /\ smm[c] = "initsync"
    /\ smm' = [smm EXCEPT ![c] = "rsm"]
    /\ sync' = IF sync = None THEN None ELSE "initialised"
    /\ UNCHANGED <<path, resumes, pc, smi, smbase, target, from, peiVars, loopVars,
                   mIsBsp, mRebased, mRebasedFlag, mSmmRelocationOriginalAddress>>

\* RSM reloads the processor from whatever is in the save state area now.
Rsm(c) ==
    /\ smm[c] = "rsm"
    /\ smm' = [smm EXCEPT ![c] = "no"]
    /\ smbase' = [smbase EXCEPT ![c] = mem.save.smbase]
    /\ pc' = [pc EXCEPT ![c] = IF mem.save.halted THEN "hlt" ELSE mem.save.rip]
    /\ UNCHANGED <<path, resumes, smi, target, from, peiVars, loopVars, smmVars>>

\* Mutant: the flag is set before the original address has been read.
FlagBeforeLoad(a) ==
    /\ \/ /\ Move(a, "load", "flag")
          /\ mRebased' = [mRebased EXCEPT ![mRebasedFlag] = TRUE]
          /\ UNCHANGED target
       \/ /\ Move(a, "flag", "jump")
          /\ target' = [target EXCEPT ![a] = mSmmRelocationOriginalAddress]
          /\ mRebased' = [mRebased EXCEPT ![mRebasedFlag] = TRUE]
       \/ /\ Move(a, "jump", target[a])
          /\ target' = [target EXCEPT ![a] = None]
          /\ UNCHANGED mRebased
    /\ UNCHANGED <<path, resumes, smm, smi, smbase, from, peiVars, loopVars, mIsBsp,
                   mRebasedFlag, mSmmRelocationOriginalAddress, sync>>

\* SmmRelocationSemaphoreComplete, back in normal mode.  SmmInit.S reads the
\* original address before it sets the flag; SmmInit.asm and the 32-bit
\* code of both read it afterwards.
SmmRelocationSemaphoreComplete(a) ==
    /\ \/ /\ Move(a, "load", "flag")
          /\ target' = [target EXCEPT ![a] = mSmmRelocationOriginalAddress]
          /\ UNCHANGED mRebased
       \/ /\ Move(a, "flag", "jump")
          /\ mRebased' = [mRebased EXCEPT ![mRebasedFlag] = TRUE]
          /\ UNCHANGED target
       \/ /\ Move(a, "jump", IF target[a] # None THEN target[a]
                                                 ELSE mSmmRelocationOriginalAddress)
          /\ target' = [target EXCEPT ![a] = None]
          /\ UNCHANGED mRebased
    /\ UNCHANGED <<path, resumes, smm, smi, smbase, from, peiVars, loopVars, mIsBsp,
                   mRebasedFlag, mSmmRelocationOriginalAddress, sync>>

(***************************************************************************)
(* S3: the system has run (so the synchronisation data is in use), then    *)
(* every processor is reset.                                               *)
(***************************************************************************)
ResetCpus ==
    /\ pc' = [c \in Cpus |-> IF c = Bsp THEN "wake" ELSE "sipi"]
    /\ smm' = [c \in Cpus |-> "no"]
    /\ smi' = [c \in Cpus |-> FALSE]
    /\ smbase' = [c \in Cpus |-> Default]
    /\ target' = [c \in Cpus |-> None]
    /\ from' = [c \in Cpus |-> None]
    /\ esp' = [c \in Cpus |-> 0]
    /\ mtrr' = [c \in Cpus |-> FALSE]

Suspend ==
    /\ pc[Bsp] = "done" /\ \A a \in APs : pc[a] = "hlt"
    /\ resumes < MaxResumes
    /\ resumes' = resumes + 1
    /\ path' = "s3"
    /\ ResetCpus
    /\ sync' = "stale"
    /\ UNCHANGED <<eax, ex, loopVars, mIsBsp, mRebased, mRebasedFlag,
                   mSmmRelocationOriginalAddress>>

(***************************************************************************)
(* The first boot: the MP services have left the APs on their way to HLT.  *)
(***************************************************************************)
Init ==
    /\ path = "boot" /\ resumes = 0
    /\ pc = [c \in Cpus |-> IF c = Bsp THEN "enter" ELSE "tail"]
    /\ smm = [c \in Cpus |-> "no"]
    /\ smi = [c \in Cpus |-> FALSE]
    /\ smbase = [c \in Cpus |-> Default]
    /\ eax = [c \in Cpus |-> 0] /\ esp = [c \in Cpus |-> 0]
    /\ mtrr = [c \in Cpus |-> FALSE]
    /\ target = [c \in Cpus |-> None] /\ from = [c \in Cpus |-> None]
    /\ ex = [Lock |-> 0, StackStart |-> 0, FinishedCount |-> 0, SerializeLock |-> 0]
    /\ mem = Previous
    /\ bak = mem
    /\ index = 0
    /\ mIsBsp = FALSE
    /\ mRebased = [c \in Cpus |-> FALSE]
    /\ mRebasedFlag = NoCpu
    /\ mSmmRelocationOriginalAddress = None
    /\ sync = None

ApStep(a) ==
    \/ ApStart(a) \/ TestLock(a) \/ ProgramStack(a) \/ Releaselock(a)
    \/ MPRendezvousProcedure(a) \/ Halt(a) \/ SmmRelocationSemaphoreComplete(a)

SmmStep(c) ==
    \/ TakeSmi(c) \/ SmmInitHandler(c) \/ SemaphoreHook(c)
    \/ InitializeMpSyncData(c) \/ Rsm(c)

BspStep ==
    \/ WakeUpAPs \/ AllFinished \/ InstallTemplate \/ NextCpu \/ SendSmiIpi
    \/ Rebased \/ RestoreContents

Next ==
    \/ \E a \in APs : ApStep(a)
    \/ \E c \in Cpus : SmmStep(c)
    \/ BspStep
    \/ Suspend

\* Every processor runs on its own; nothing obliges the user to suspend.
Fairness ==
    /\ \A a \in APs : WF_vars(ApStep(a))
    /\ \A c \in Cpus : WF_vars(SmmStep(c))
    /\ WF_vars(BspStep)

Spec == Init /\ [][Next]_vars /\ Fairness
------------------------------------------------------------------------------
\* Registers, exchange area, save state and flags keep their types: in
\* particular no stack beyond those WakeUpAPs provides is handed out, and no
\* AP is counted twice in FinishedCount.
TypeOK ==
    /\ path \in Paths /\ resumes \in 0 .. MaxResumes
    /\ pc \in [Cpus -> Places]
    /\ smm \in [Cpus -> {"no", "entered", "hook", "initsync", "rsm"}]
    /\ smi \in [Cpus -> BOOLEAN]
    /\ smbase \in [Cpus -> 0 .. NumberOfCpus]
    /\ eax \in [Cpus -> 0 .. NumberOfCpus] /\ esp \in [Cpus -> 0 .. NumberOfCpus]
    /\ mtrr \in [Cpus -> BOOLEAN]
    /\ target \in [Cpus -> Places \cup {None}]
    /\ from \in [Cpus -> Places \cup {None}]
    /\ ex \in [Lock : 0 .. 1, StackStart : 0 .. NumberOfCpus,
               FinishedCount : 0 .. NumberOfCpus, SerializeLock : 0 .. 1]
    /\ mem \in Contents /\ bak \in Contents
    /\ index \in 0 .. NumberOfCpus
    /\ mIsBsp \in BOOLEAN /\ mRebased \in [Cpus -> BOOLEAN]
    /\ mRebasedFlag \in 0 .. NumberOfCpus
    /\ mSmmRelocationOriginalAddress \in Places \cup {None}
    /\ sync \in {None, "stale", "initialised"}

\* The SMIs of SmmRelocateBases come one at a time: at most one processor is
\* in SMM at the default SMBASE, where all share the handler's stack
\* (gSmmInitStack) and the save state area, and it finds the template there.
\* This is what the wait for mRebased after RSM is for.
OneAtDefault ==
    /\ \A c, d \in Cpus : InSmm(c) /\ InSmm(d) => c = d
    /\ \A c \in Cpus : InSmm(c) => mem.handler = "template"

\* When SmmRelocateBases returns, every processor has left SMM with the
\* SMBASE allocated to it, no SMI is on its way to the default SMBASE, the
\* memory there is what it was, and after a resume the synchronisation data
\* the SMI handler will use has been initialised again.
AllRelocated ==
    pc[Bsp] = "done" =>
        /\ \A c \in Cpus : smbase[c] = c /\ ~ InSmm(c) /\ ~ smi[c]
        /\ mem = Previous
        /\ path = "s3" => sync = "initialised"

\* In the S3 funnel no two APs get the same stack, none gets one beyond the
\* stacks of the APs, and the BSP does not go on (to reuse the memory, and to
\* send SMIs) before every AP has copied its MTRRs.
FunnelServesAll ==
    /\ \A a, b \in APs : esp[a] = esp[b] /\ esp[a] # 0 => a = b
    /\ \A a \in APs : esp[a] < NumberOfCpus
    /\ path = "s3" /\ pc[Bsp] \notin {"wake", "wait"} => \A a \in APs : mtrr[a]

\* After its relocation SMI an AP goes on where the SMI interrupted it,
\* although the address went through a variable that all APs share.
ReturnsHome ==
    [][\A a \in APs : pc[a] = "jump" /\ pc'[a] # "jump" => pc'[a] = from[a]]_vars

\* Every boot and every resume gets through: no AP stays in the funnel, no
\* FinishedCount is lost, no AP goes back to HLT without setting its flag.
Resumes == []<>(pc[Bsp] = "done" /\ \A a \in APs : pc[a] = "hlt")
=============================================================================
