------------------------- MODULE SmmRelocationProofs -------------------------
(***************************************************************************)
(* For any number of processors, on the boot path and over any number of   *)
(* S3 resumes: the first SMIs come one at a time (OneAtDefault), when      *)
(* SmmRelocateBases returns everybody has its own SMBASE (AllRelocated),   *)
(* an AP goes back to where its SMI interrupted it (ReturnsHome), and the  *)
(* funnel of the S3 path serves every AP once (FunnelServesAll, TypeOK).   *)
(*                                                                         *)
(* The argument follows the loop of SmmRelocateBases.  An AP is in its     *)
(* turn from the SMI IPI until it sets its flag in the semaphore code; in  *)
(* that time the BSP waits for exactly this AP.  The flag was cleared when *)
(* the turn began and only an AP in its turn sets one, so the BSP goes on  *)
(* after the AP has left SMM, and has executed RSM with its own SMBASE in  *)
(* the save state.                                                         *)
(*                                                                         *)
(* In the funnel StackStart counts the stacks handed out and FinishedCount *)
(* the APs that are through; an AP that an SMI interrupts later never goes *)
(* back to a place where it would take a stack or be counted again.        *)
(***************************************************************************)
EXTENDS SmmRelocation, FiniteSetTheorems, TLAPS

\* The loop of SmmRelocateBases, where the template is in place, and the BSP's
\* own SMI at its end.
Loop == {"next", "send", "poll", "self", "restore"}

\* From the SMI IPI to the flag.
Turn(a) == smi[a] \/ InSmm(a) \/ pc[a] \in {"load", "flag"}

Addresses == Places \cup {None}
SaveType == [rip : Addresses, halted : BOOLEAN, smbase : 0 .. NumberOfCpus]
MemType == [handler : {None, "template"}, save : SaveType]

RelType ==
    /\ path \in Paths
    /\ pc \in [Cpus -> Addresses]
    /\ smm \in [Cpus -> {"no", "entered", "hook", "initsync", "rsm"}]
    /\ smi \in [Cpus -> BOOLEAN]
    /\ smbase \in [Cpus -> 0 .. NumberOfCpus]
    /\ target \in [Cpus -> Addresses]
    /\ mem \in MemType /\ bak \in MemType
    /\ index \in 0 .. NumberOfCpus
    /\ mIsBsp \in BOOLEAN /\ mRebased \in [Cpus -> BOOLEAN]
    /\ mRebasedFlag \in 0 .. NumberOfCpus
    /\ mSmmRelocationOriginalAddress \in Addresses
    /\ sync \in {None, "stale", "initialised"}

\* Where the BSP is, and what the loop has left behind it.
BspInv ==
    /\ pc[Bsp] \in BspCode
    /\ pc[Bsp] \in {"send", "poll"} => index \in APs
    /\ pc[Bsp] = "send" => ~ mRebased[index]
    /\ pc[Bsp] \in {"self", "restore", "done"} => index = NumberOfCpus
    /\ pc[Bsp] \in {"self", "restore"} => mIsBsp
    /\ pc[Bsp] \in Loop => mem.handler = "template" /\ bak = Previous
    /\ pc[Bsp] \notin Loop => mem = Previous
    /\ path = "s3" => sync # None

\* The BSP's SMI to itself.
SelfInv ==
    /\ smi[Bsp] \/ InSmm(Bsp) => pc[Bsp] = "restore"
    /\ smm[Bsp] # "hook"
    /\ InSmm(Bsp) => mem.save.rip = "restore" /\ ~ mem.save.halted
    /\ smm[Bsp] \in {"initsync", "rsm"} => mem.save.smbase = Bsp
    /\ smm[Bsp] = "rsm" /\ path = "s3" => sync = "initialised"
    /\ \/ pc[Bsp] = "restore" /\ ~ smi[Bsp] /\ ~ InSmm(Bsp)
       \/ pc[Bsp] = "done"
       => smbase[Bsp] = Bsp /\ (path = "s3" => sync = "initialised")

\* Only the AP the BSP waits for is in its turn.
TurnInv ==
    \A a \in APs :
        /\ Turn(a) => pc[Bsp] = "poll" /\ index = a /\ ~ mRebased[a]
        /\ smi[a] \/ InSmm(a) => pc[a] \notin Semaphore
        /\ InSmm(a) => ~ smi[a]
        /\ pc[a] \in Semaphore =>
             /\ pc[Bsp] \in Loop \cup {"done"}
             /\ a < index \/ (a = index /\ pc[Bsp] = "poll")

\* No AP goes back into the semaphore code.
ReturnInv ==
    /\ mSmmRelocationOriginalAddress \notin Semaphore
    /\ \A a \in APs : target[a] \notin Semaphore
    /\ \A a \in APs : smm[a] \in {"entered", "hook"} => mem.save.rip \notin Semaphore

\* Who has been through its first SMI.
BaseInv ==
    \A a \in APs :
        /\ smm[a] \in {"hook", "initsync", "rsm"} => mem.save.smbase = a
        /\ pc[a] \in {"load", "flag"} => smbase[a] = a
        /\ pc[Bsp] \in Loop \cup {"done"} /\ a < index => smbase[a] = a
        /\ pc[Bsp] = "poll" /\ index = a /\ mRebased[a] => smbase[a] = a

RelInv == RelType /\ BspInv /\ SelfInv /\ TurnInv /\ ReturnInv /\ BaseInv

-----------------------------------------------------------------------------
\* A step of an AP in the funnel, in MPRendezvousProcedure or to HLT.
FunnelMove(a) ==
    /\ \/ \E here \in Funnel, there \in Funnel \cup {"tail"} : Move(a, here, there)
       \/ Move(a, "tail", "hlt") \/ Move(a, "loop", "hlt")
    /\ ApUnchanged

\* A step of the BSP in PEI.
PeiMove ==
    /\ Move(Bsp, "wake", "wait") \/ Move(Bsp, "wait", "enter")
    /\ UNCHANGED <<path, resumes, smm, smi, smbase, target, from, loopVars, smmVars>>

\* WakeUpAPs and its last loop.
LEMMA PeiPreserves ==
    ASSUME RelInv, PeiMove
    PROVE  RelInv'
<1>1. RelType'
  BY DEF PeiMove, Move, loopVars, smmVars, RelType, RelInv, Addresses, Places, BspCode
<1>2. BspInv'
  BY DEF PeiMove, Move, loopVars, smmVars, RelType, BspInv, BspCode, Loop, RelInv
<1>3. SelfInv'
  BY DEF PeiMove, Move, RelType, SelfInv, InSmm, RelInv
<1>4. TurnInv'
  BY DEF PeiMove, Move, RelType, Loop, InSmm, TurnInv, Turn, RelInv, APs
<1>5. ReturnInv'
  BY DEF PeiMove, loopVars, smmVars, ReturnInv, RelInv
<1>6. BaseInv'
  BY DEF PeiMove, Move, RelType, Loop, InSmm, TurnInv, Turn, BaseInv, RelInv, APs
<1> QED BY <1>1, <1>2, <1>3, <1>4, <1>5, <1>6 DEF RelInv

\* A step in the funnel moves one AP, outside the semaphore code, and an AP that
\* has parked stays parked.
LEMMA FunnelStays ==
    ASSUME RelInv, NEW a \in APs, FunnelMove(a)
    PROVE  /\ a \in Cpus /\ Bsp \in Cpus /\ a # Bsp
           /\ \A c \in Cpus \ {a} : pc'[c] = pc[c]
           /\ pc[a] \notin Semaphore /\ pc'[a] \notin Semaphore
           /\ pc'[a] \in Addresses \ {None}
           /\ pc[a] \in {"hlt", "loop"} => pc'[a] = "hlt"
BY RelocationAssumption
   DEF FunnelMove, Move, RelType, RelInv, Cpus, APs, Funnel, Parking, Semaphore, Addresses,
       Places, None

\* The APs in the funnel are outside SMM and the semaphore code.
LEMMA FunnelPreserves ==
    ASSUME RelInv, NEW a \in APs, FunnelMove(a)
    PROVE  RelInv'
<1>1. RelType'
  BY FunnelStays DEF FunnelMove, ApUnchanged, Move, loopVars, smmVars, RelType, RelInv
<1>2. BspInv'
  BY FunnelStays DEF FunnelMove, ApUnchanged, loopVars, smmVars, BspInv, RelInv
<1>3. SelfInv'
  BY FunnelStays DEF FunnelMove, ApUnchanged, loopVars, smmVars, SelfInv, InSmm, RelInv
<1>4. TurnInv'
  BY FunnelStays DEF FunnelMove, ApUnchanged, loopVars, smmVars, InSmm, TurnInv, Turn,
     Semaphore, RelInv, APs
<1>5. ReturnInv'
  BY DEF FunnelMove, ApUnchanged, loopVars, smmVars, ReturnInv, RelInv
<1>6. BaseInv'
  BY FunnelStays DEF FunnelMove, ApUnchanged, loopVars, smmVars, BaseInv, Semaphore, RelInv, APs
<1> QED BY <1>1, <1>2, <1>3, <1>4, <1>5, <1>6 DEF RelInv

\* The backup is made of what was there before.
LEMMA InstallPreserves ==
    ASSUME RelInv, InstallTemplate
    PROVE  RelInv'
<1>1. RelType'
  <2>1. mem' \in MemType /\ bak' \in MemType
    BY DEF InstallTemplate, RelType, MemType, RelInv
  <2>2. pc' \in [Cpus -> Addresses]
    BY DEF InstallTemplate, Move, RelType, RelInv, Addresses, Places, BspCode
  <2>3. index' \in 0 .. NumberOfCpus
    BY RelocationAssumption DEF InstallTemplate
  <2> QED BY <2>1, <2>2, <2>3 DEF InstallTemplate, BspUnchanged, Move, loopVars, smmVars,
             peiVars, cpuVars, RelType, RelInv
<1>2. BspInv'
  BY RelocationAssumption DEF InstallTemplate, BspUnchanged, Move, RelType, BspInv, BspCode,
     Loop, RelInv
<1>3. SelfInv'
  BY DEF InstallTemplate, BspUnchanged, Move, SelfInv, InSmm, RelInv
<1>4. TurnInv'
  BY DEF InstallTemplate, BspUnchanged, Move, Loop, InSmm, TurnInv, Turn, RelInv, APs
<1>5. ReturnInv'
  BY DEF InstallTemplate, BspUnchanged, ReturnInv, RelInv
<1>6. BaseInv'
  BY DEF InstallTemplate, BspUnchanged, Move, BaseInv, RelInv, Cpus, APs
<1> QED BY <1>1, <1>2, <1>3, <1>4, <1>5, <1>6 DEF RelInv

\* A turn begins with a cleared flag.
LEMMA NextPreserves ==
    ASSUME RelInv, NextCpu
    PROVE  RelInv'
<1>1. RelType'
  <2>1. pc' \in [Cpus -> Addresses]
    BY DEF NextCpu, Move, RelType, RelInv, Addresses, Places, BspCode
  <2>2. index' \in 0 .. NumberOfCpus
    BY RelocationAssumption DEF NextCpu, RelType, RelInv, Cpus
  <2>3. mRebased' \in [Cpus -> BOOLEAN]
    BY DEF NextCpu, RelType, RelInv
  <2> QED BY <2>1, <2>2, <2>3 DEF NextCpu, BspUnchanged, Move, loopVars, smmVars, peiVars,
             cpuVars, RelType, RelInv
<1>2. BspInv'
  BY DEF NextCpu, BspUnchanged, Move, RelType, BspInv, BspCode, Loop, RelInv, APs
<1>3. SelfInv'
  BY DEF NextCpu, BspUnchanged, Move, RelType, SelfInv, InSmm, RelInv
<1>4. TurnInv'
  BY RelocationAssumption DEF NextCpu, BspUnchanged, Move, RelType, Loop, InSmm, TurnInv, Turn,
     RelInv, Cpus, APs
<1>5. ReturnInv'
  BY DEF NextCpu, BspUnchanged, ReturnInv, RelInv
<1>6. BaseInv'
  BY RelocationAssumption DEF NextCpu, BspUnchanged, Move, RelType, Loop, BaseInv, RelInv, Cpus,
     APs
<1> QED BY <1>1, <1>2, <1>3, <1>4, <1>5, <1>6 DEF RelInv

\* The AP that is sent an SMI has not been in the semaphore code.
LEMMA SendPreserves ==
    ASSUME RelInv, SendSmiIpi
    PROVE  RelInv'
<1>1. RelType'
  BY DEF SendSmiIpi, BspUnchanged, Move, loopVars, RelType, RelInv, Addresses, Places, BspCode
<1>2. BspInv'
  BY DEF SendSmiIpi, BspUnchanged, Move, loopVars, RelType, BspInv, BspCode, Loop, RelInv
<1>3. SelfInv'
  BY RelocationAssumption DEF SendSmiIpi, BspUnchanged, Move, RelType, BspInv, SelfInv, InSmm,
     RelInv, APs
<1>4. TurnInv'
  BY RelocationAssumption DEF SendSmiIpi, BspUnchanged, Move, loopVars, RelType, BspInv, Loop,
     InSmm, TurnInv, Turn, RelInv, APs
<1>5. ReturnInv'
  BY DEF SendSmiIpi, BspUnchanged, loopVars, ReturnInv, RelInv
<1>6. BaseInv'
  BY DEF SendSmiIpi, BspUnchanged, Move, loopVars, RelType, BspInv, Loop, BaseInv, RelInv, APs
<1> QED BY <1>1, <1>2, <1>3, <1>4, <1>5, <1>6 DEF RelInv

\* The flag is set, so the turn is over.
LEMMA RebasedPreserves ==
    ASSUME RelInv, Rebased
    PROVE  RelInv'
<1>1. RelType'
  <2>1. pc' \in [Cpus -> Addresses]
    BY DEF Rebased, Move, RelType, RelInv, Addresses, Places, BspCode
  <2>2. index' \in 0 .. NumberOfCpus
    BY RelocationAssumption DEF Rebased, Move, RelInv, BspInv, Cpus, APs
  <2> QED BY <2>1, <2>2 DEF Rebased, BspUnchanged, Move, loopVars, smmVars, peiVars, cpuVars,
             RelType, RelInv
<1>2. BspInv'
  BY RelocationAssumption DEF Rebased, BspUnchanged, Move, RelType, BspInv, BspCode, Loop, RelInv
<1>3. SelfInv'
  BY DEF Rebased, BspUnchanged, Move, SelfInv, InSmm, RelInv
<1>4. TurnInv'
  BY DEF Rebased, BspUnchanged, Move, RelType, Loop, InSmm, TurnInv, Turn, RelInv, Cpus, APs
<1>5. ReturnInv'
  BY DEF Rebased, BspUnchanged, ReturnInv, RelInv
<1>6. BaseInv'
  BY RelocationAssumption DEF Rebased, BspUnchanged, Move, RelType, BspInv, Loop, BaseInv,
     RelInv, Cpus, APs
<1> QED BY <1>1, <1>2, <1>3, <1>4, <1>5, <1>6 DEF RelInv

\* The BSP's own SMI is over.
LEMMA RestorePreserves ==
    ASSUME RelInv, RestoreContents
    PROVE  RelInv'
<1>1. RelType'
  BY DEF RestoreContents, BspUnchanged, Move, RelType, RelInv, Addresses, Places, BspCode
<1>2. BspInv'
  BY RelocationAssumption DEF RestoreContents, BspUnchanged, Move, RelType, BspInv, BspCode,
     Loop, RelInv
<1>3. SelfInv'
  BY DEF RestoreContents, BspUnchanged, Move, SelfInv, InSmm, RelInv
<1>4. TurnInv'
  BY DEF RestoreContents, BspUnchanged, Move, InSmm, TurnInv, Turn, RelInv, APs
<1>5. ReturnInv'
  BY DEF RestoreContents, BspUnchanged, Move, InSmm, TurnInv, Turn, ReturnInv, RelInv
<1>6. BaseInv'
  BY DEF RestoreContents, BspUnchanged, Move, Loop, InSmm, TurnInv, Turn, BaseInv, RelInv
<1> QED BY <1>1, <1>2, <1>3, <1>4, <1>5, <1>6 DEF RelInv

\* The AP in its turn sets its flag after RSM.
LEMMA SemaphorePreserves ==
    ASSUME RelInv, NEW a \in APs, SmmRelocationSemaphoreComplete(a)
    PROVE  RelInv'
<1>1. RelType'
  <2>1. pc' \in [Cpus -> Addresses]
    BY DEF SmmRelocationSemaphoreComplete, Move, RelType, RelInv, Addresses, Places, Semaphore
  <2>2. target' \in [Cpus -> Addresses]
    BY DEF SmmRelocationSemaphoreComplete, RelType, RelInv, Addresses
  <2>3. mRebased' \in [Cpus -> BOOLEAN]
    BY DEF SmmRelocationSemaphoreComplete, RelType, RelInv
  <2> QED BY <2>1, <2>2, <2>3 DEF SmmRelocationSemaphoreComplete, Move, loopVars, smmVars,
             peiVars, cpuVars, RelType, RelInv
<1>2. BspInv'
  BY RelocationAssumption DEF SmmRelocationSemaphoreComplete, Move, loopVars, RelType, BspInv,
     TurnInv, Turn, RelInv, APs
<1>3. SelfInv'
  BY RelocationAssumption DEF SmmRelocationSemaphoreComplete, Move, loopVars, RelType, SelfInv,
     InSmm, RelInv, APs
<1>4. TurnInv'
  BY RelocationAssumption DEF SmmRelocationSemaphoreComplete, Move, loopVars, RelType, InSmm,
     TurnInv, Turn, ReturnInv, Semaphore, RelInv, APs
<1>5. ReturnInv'
  BY DEF SmmRelocationSemaphoreComplete, loopVars, RelType, ReturnInv, Semaphore, RelInv, None,
     APs
<1>6. BaseInv'
  BY RelocationAssumption DEF SmmRelocationSemaphoreComplete, Move, loopVars, RelType, Loop,
     TurnInv, Turn, ReturnInv, Semaphore, BaseInv, RelInv, APs
<1> QED BY <1>1, <1>2, <1>3, <1>4, <1>5, <1>6 DEF RelInv

\* SMI entry.
LEMMA TakePreserves ==
    ASSUME RelInv, NEW c \in Cpus, TakeSmi(c)
    PROVE  RelInv'
<1>1. RelType'
  <2>1. mem' \in MemType
    BY DEF TakeSmi, RelType, SaveType, MemType, RelInv, Addresses, Places, Parking
  <2> QED BY <2>1 DEF TakeSmi, Move, loopVars, smmVars, peiVars, cpuVars, RelType, RelInv
<1>2. BspInv'
  BY DEF TakeSmi, smmVars, BspInv, Loop, SelfInv, TurnInv, Turn, RelInv, APs
<1>3. SelfInv'
  BY RelocationAssumption DEF TakeSmi, RelType, MemType, SelfInv, InSmm, TurnInv, Turn, RelInv,
     APs
<1>4. TurnInv'
  BY DEF TakeSmi, smmVars, RelType, InSmm, TurnInv, Turn, RelInv
<1>5. ReturnInv'
  BY DEF TakeSmi, smmVars, InSmm, TurnInv, Turn, ReturnInv, Semaphore, RelInv, APs
<1>6. BaseInv'
  BY DEF TakeSmi, smmVars, SelfInv, InSmm, TurnInv, Turn, BaseInv, RelInv, APs
<1> QED BY <1>1, <1>2, <1>3, <1>4, <1>5, <1>6 DEF RelInv

\* SmmInitHandler.
LEMMA HandlerPreserves ==
    ASSUME RelInv, NEW c \in Cpus, SmmInitHandler(c)
    PROVE  RelInv'
<1>1. RelType'
  <2>1. c \in 0 .. NumberOfCpus
    BY RelocationAssumption DEF SmmInitHandler, Cpus
  <2>2. mem' \in MemType
    BY <2>1 DEF SmmInitHandler, RelType, SaveType, MemType, RelInv
  <2> QED BY <2>1, <2>2 DEF SmmInitHandler, Move, loopVars, smmVars, peiVars, cpuVars, RelType,
             RelInv
<1>2. BspInv'
  BY DEF SmmInitHandler, smmVars, BspInv, Loop, SelfInv, InSmm, TurnInv, Turn, RelInv, APs
<1>3. SelfInv'
  BY DEF SmmInitHandler, RelType, SaveType, MemType, BspInv, SelfInv, InSmm, TurnInv, Turn,
     RelInv, APs
<1>4. TurnInv'
  BY DEF SmmInitHandler, smmVars, InSmm, TurnInv, Turn, RelInv
<1>5. ReturnInv'
  BY DEF SmmInitHandler, smmVars, RelType, SaveType, MemType, ReturnInv, RelInv
<1>6. BaseInv'
  BY DEF SmmInitHandler, smmVars, RelType, SaveType, MemType, BspInv, Previous, SelfInv, InSmm,
     TurnInv, Turn, ReturnInv, BaseInv, RelInv, APs
<1> QED BY <1>1, <1>2, <1>3, <1>4, <1>5, <1>6 DEF RelInv

\* SemaphoreHook.
LEMMA HookPreserves ==
    ASSUME RelInv, NEW c \in Cpus, SemaphoreHook(c)
    PROVE  RelInv'
<1>1. RelType'
  <2>1. mem' \in MemType
    BY DEF SemaphoreHook, RelType, SaveType, MemType, RelInv, Addresses, Places, Semaphore
  <2>2. mRebasedFlag' \in 0 .. NumberOfCpus
    BY RelocationAssumption DEF SemaphoreHook, Cpus
  <2>3. mSmmRelocationOriginalAddress' \in Addresses
    BY DEF SemaphoreHook, RelType, SaveType, MemType, RelInv
  <2> QED BY <2>1, <2>2, <2>3 DEF SemaphoreHook, Move, loopVars, smmVars, peiVars, cpuVars,
             RelType, RelInv
<1>2. BspInv'
  BY DEF SemaphoreHook, BspInv, Loop, SelfInv, InSmm, TurnInv, Turn, RelInv, APs
<1>3. SelfInv'
  BY DEF SemaphoreHook, SelfInv, InSmm, TurnInv, Turn, RelInv, APs
<1>4. TurnInv'
  BY DEF SemaphoreHook, InSmm, TurnInv, Turn, RelInv
<1>5. ReturnInv'
  BY DEF SemaphoreHook, RelType, SelfInv, InSmm, TurnInv, Turn, ReturnInv, RelInv, APs
<1>6. BaseInv'
  BY DEF SemaphoreHook, RelType, SaveType, MemType, BaseInv, RelInv, APs
<1> QED BY <1>1, <1>2, <1>3, <1>4, <1>5, <1>6 DEF RelInv

\* InitializeMpSyncData.
LEMMA SyncPreserves ==
    ASSUME RelInv, NEW c \in Cpus, InitializeMpSyncData(c)
    PROVE  RelInv'
<1>1. RelType'
  BY DEF InitializeMpSyncData, loopVars, RelType, RelInv
<1>2. BspInv'
  BY DEF InitializeMpSyncData, loopVars, BspInv, RelInv, None
<1>3. SelfInv'
  BY DEF InitializeMpSyncData, loopVars, BspInv, SelfInv, InSmm, RelInv
<1>4. TurnInv'
  BY DEF InitializeMpSyncData, loopVars, InSmm, TurnInv, Turn, RelInv
<1>5. ReturnInv'
  BY DEF InitializeMpSyncData, SelfInv, InSmm, TurnInv, Turn, ReturnInv, RelInv, APs
<1>6. BaseInv'
  BY DEF InitializeMpSyncData, loopVars, BaseInv, RelInv
<1> QED BY <1>1, <1>2, <1>3, <1>4, <1>5, <1>6 DEF RelInv

\* RSM.
LEMMA RsmPreserves ==
    ASSUME RelInv, NEW c \in Cpus, Rsm(c)
    PROVE  RelInv'
<1>1. RelType'
  <2>1. pc' \in [Cpus -> Addresses]
    BY DEF Rsm, RelType, SaveType, MemType, RelInv, Addresses, Places, Parking
  <2>2. smbase' \in [Cpus -> 0 .. NumberOfCpus]
    BY DEF Rsm, RelType, SaveType, MemType, RelInv
  <2> QED BY <2>1, <2>2 DEF Rsm, Move, loopVars, smmVars, peiVars, cpuVars, RelType, RelInv
<1>2. BspInv'
  BY DEF Rsm, loopVars, smmVars, BspInv, SelfInv, InSmm, RelInv
<1>3. SelfInv'
  BY DEF Rsm, smmVars, RelType, SelfInv, InSmm, TurnInv, Turn, RelInv, APs
<1>4. TurnInv'
  <2>1. CASE c = Bsp
    BY <2>1 DEF Rsm, loopVars, SelfInv, InSmm, 
       TurnInv, Turn, Semaphore, Loop, RelInv, Cpus, APs
  <2>2. CASE c \in APs
    <3>1. pc[Bsp] = "poll" /\ index = c /\ ~ mRebased[c]
      BY <2>2 DEF Rsm, InSmm, TurnInv, Turn, RelInv
    <3>2. pc'[Bsp] = pc[Bsp] /\ UNCHANGED <<smi, index, mRebased>>
      BY <2>2 DEF Rsm, RelInv, APs, loopVars, smmVars
    <3>3. ~ smi[c] /\ smm'[c] = "no"
      BY <2>2 DEF Rsm, InSmm, TurnInv, RelType, RelInv
    <3>4. \A a \in APs \ {c} : pc'[a] = pc[a] /\ smm'[a] = smm[a]
      BY <2>2 DEF Rsm, RelInv
    <3> QED BY <2>2, <3>1, <3>2, <3>3, <3>4 DEF RelInv, TurnInv, Turn, InSmm, Loop
  <2> QED BY <2>1, <2>2 DEF APs
<1>5. ReturnInv'
  BY DEF Rsm, smmVars, SelfInv, InSmm, TurnInv, Turn, ReturnInv, RelInv, APs
<1>6. BaseInv'
  BY DEF Rsm, loopVars, RelType, SelfInv, InSmm, TurnInv, Turn, BaseInv, RelInv, APs
<1> QED BY <1>1, <1>2, <1>3, <1>4, <1>5, <1>6 DEF RelInv

\* S3.
LEMMA SuspendPreserves ==
    ASSUME RelInv, Suspend
    PROVE  RelInv'
<1>1. RelType'
  BY RelocationAssumption DEF Suspend, ResetCpus, loopVars, RelType, RelInv, Addresses, Places,
     Funnel, BspCode, Paths, Default
<1>2. BspInv'
  BY RelocationAssumption DEF Suspend, ResetCpus, loopVars, BspInv, BspCode, Loop, RelInv, None
<1>3. SelfInv'
  BY RelocationAssumption DEF Suspend, ResetCpus, SelfInv, InSmm, RelInv
<1>4. TurnInv'
  BY DEF Suspend, ResetCpus, InSmm, TurnInv, Turn, Semaphore, RelInv, APs
<1>5. ReturnInv'
  BY DEF Suspend, ResetCpus, ReturnInv, Semaphore, RelInv, None, APs
<1>6. BaseInv'
  BY RelocationAssumption DEF Suspend, ResetCpus, Loop, BaseInv, RelInv, APs
<1> QED BY <1>1, <1>2, <1>3, <1>4, <1>5, <1>6 DEF RelInv

\* Stuttering.
LEMMA StutterPreserves ==
    ASSUME RelInv, UNCHANGED vars
    PROVE  RelInv'
<1>1. RelType'
  BY DEF vars, loopVars, smmVars, cpuVars, RelType, RelInv
<1>2. BspInv'
  BY DEF vars, loopVars, smmVars, cpuVars, BspInv, RelInv
<1>3. SelfInv'
  BY DEF vars, loopVars, smmVars, cpuVars, SelfInv, InSmm, RelInv
<1>4. TurnInv'
  BY DEF vars, loopVars, smmVars, cpuVars, InSmm, TurnInv, Turn, RelInv
<1>5. ReturnInv'
  BY DEF vars, loopVars, smmVars, cpuVars, ReturnInv, RelInv
<1>6. BaseInv'
  BY DEF vars, loopVars, smmVars, cpuVars, BaseInv, RelInv
<1> QED BY <1>1, <1>2, <1>3, <1>4, <1>5, <1>6 DEF RelInv

-----------------------------------------------------------------------------
\* Nobody is in SMM before the first boot enters SmmRelocateBases.
LEMMA InitRelInv == Init => RelInv
<1> SUFFICES ASSUME Init PROVE RelInv
  OBVIOUS
<1>1. RelType
  <2>1. mem \in MemType /\ bak \in MemType
    BY RelocationAssumption DEF Init, SaveType, MemType, Previous, Addresses, Default, None
  <2>2. pc \in [Cpus -> Addresses] /\ target \in [Cpus -> Addresses]
    BY DEF Init, Addresses, Places, Parking, BspCode
  <2>3. /\ smbase \in [Cpus -> 0 .. NumberOfCpus] /\ index \in 0 .. NumberOfCpus
        /\ mRebasedFlag \in 0 .. NumberOfCpus
    BY RelocationAssumption DEF Init, Default, NoCpu
  <2>4. /\ path \in Paths /\ mIsBsp \in BOOLEAN /\ sync \in {None, "stale", "initialised"}
        /\ mSmmRelocationOriginalAddress \in Addresses
    BY DEF Init, Addresses, Paths
  <2>5. /\ smm \in [Cpus -> {"no", "entered", "hook", "initsync", "rsm"}]
        /\ smi \in [Cpus -> BOOLEAN] /\ mRebased \in [Cpus -> BOOLEAN]
    BY DEF Init
  <2> QED BY <2>1, <2>2, <2>3, <2>4, <2>5 DEF RelType
<1>2. BspInv /\ SelfInv
  BY RelocationAssumption DEF Init, BspInv, SelfInv, BspCode, Loop, InSmm, Cpus, APs
<1>3. TurnInv /\ ReturnInv /\ BaseInv
  BY RelocationAssumption DEF Init, TurnInv, Turn, ReturnInv, BaseInv, InSmm, Semaphore, Loop,
     None, Cpus, APs
<1> QED BY <1>1, <1>2, <1>3 DEF RelInv

\* The invariant is inductive: one step for each action of the processors.
LEMMA StepRelInv == RelInv /\ [Next]_vars => RelInv'
<1> SUFFICES ASSUME RelInv, [Next]_vars PROVE RelInv'
  OBVIOUS
<1>1. CASE BspStep
  <2>1. CASE WakeUpAPs \/ AllFinished
    <3>1. PeiMove
      BY <2>1 DEF WakeUpAPs, AllFinished, PeiMove
    <3> QED BY <3>1, PeiPreserves
  <2> QED BY <1>1, <2>1, InstallPreserves, NextPreserves, SendPreserves, RebasedPreserves,
             RestorePreserves DEF BspStep
<1>2. ASSUME NEW a \in APs, ApStep(a) PROVE RelInv'
  <2>1. CASE \/ ApStart(a) \/ TestLock(a) \/ ProgramStack(a) \/ Releaselock(a)
             \/ MPRendezvousProcedure(a) \/ Halt(a)
    <3>1. FunnelMove(a)
      BY <2>1 DEF ApStart, TestLock, ProgramStack, Releaselock, MPRendezvousProcedure, Halt,
         FunnelMove, Funnel, Parking
    <3> QED BY <3>1, FunnelPreserves
  <2> QED BY <1>2, <2>1, SemaphorePreserves DEF ApStep
<1>3. ASSUME NEW c \in Cpus, SmmStep(c) PROVE RelInv'
  BY <1>3, TakePreserves, HandlerPreserves, HookPreserves, SyncPreserves, RsmPreserves
     DEF SmmStep
<1> QED BY <1>1, <1>2, <1>3, SuspendPreserves, StutterPreserves DEF Next

\* The invariant holds for every number of processors and every boot path.
LEMMA RelInvHolds == Spec => []RelInv
BY InitRelInv, StepRelInv, PTL DEF Spec

\* SmmRelocateBases sends the processors through the default SMBASE one at a
\* time, and each finds the template there.
THEOREM OneAtDefaultHolds == Spec => []OneAtDefault
<1>1. RelInv => OneAtDefault
  <2> SUFFICES ASSUME RelInv PROVE OneAtDefault
    OBVIOUS
  <2>1. \A a \in APs : InSmm(a) => pc[Bsp] = "poll" /\ index = a
    BY DEF RelInv, TurnInv, Turn
  <2>2. InSmm(Bsp) => pc[Bsp] = "restore"
    BY DEF RelInv, SelfInv
  <2>3. \A c \in Cpus : c \in APs \/ c = Bsp
    BY DEF APs
  <2>4. pc[Bsp] \in {"poll", "restore"} => mem.handler = "template"
    BY DEF RelInv, BspInv, Loop
  <2> QED BY <2>1, <2>2, <2>3, <2>4 DEF OneAtDefault
<1> QED BY RelInvHolds, <1>1, PTL

\* When SmmRelocateBases returns, on the first boot and on every resume, every
\* processor has its own SMBASE and nothing is left at the default one.
THEOREM AllRelocatedHolds == Spec => []AllRelocated
<1>1. RelInv => AllRelocated
  <2> SUFFICES ASSUME RelInv, pc[Bsp] = "done" PROVE AllRelocated
    BY DEF AllRelocated
  <2>1. mem = Previous /\ index = NumberOfCpus
    BY DEF RelInv, BspInv, Loop
  <2>2. smbase[Bsp] = Bsp /\ ~ InSmm(Bsp) /\ ~ smi[Bsp] /\ (path = "s3" => sync = "initialised")
    BY DEF RelInv, SelfInv
  <2>3. \A a \in APs : a < index
    BY <2>1, RelocationAssumption DEF APs, Cpus
  <2>4. \A a \in APs : smbase[a] = a /\ ~ InSmm(a) /\ ~ smi[a]
    BY <2>3 DEF RelInv, BaseInv, TurnInv, Turn
  <2> QED BY <2>1, <2>2, <2>4 DEF AllRelocated, APs
<1> QED BY RelInvHolds, <1>1, PTL

-----------------------------------------------------------------------------
(* The way back: the address of every AP goes through one variable.          *)

\* What the code relies on: the boot path reads the address before it sets the
\* flag; on S3, where it reads it afterwards, all APs wait in the same loop.
Ordered == LoadsFirst /\ "s3" \in ParkedOn

HomeType ==
    /\ from \in [Cpus -> Addresses]
    /\ pc[Bsp] \in {"next", "send", "poll"} => ~ mIsBsp

\* The address of the AP in SMM and in the semaphore code.
AddressInv ==
    \A a \in APs :
        /\ pc[a] # None /\ smm[a] # "initsync"
        /\ InSmm(a) => from[a] # None /\ target[a] = None
        /\ smm[a] \in {"entered", "hook"} => mem.save.rip = from[a]
        /\ smm[a] = "rsm" => /\ mSmmRelocationOriginalAddress = from[a]
                             /\ mem.save.rip = IF path = "boot" THEN "load" ELSE "flag"
                             /\ ~ mem.save.halted
        /\ pc[a] = "load" => /\ from[a] # None /\ target[a] = None
                             /\ mSmmRelocationOriginalAddress = from[a]
        /\ target[a] # None => pc[a] \in {"flag", "jump"} /\ target[a] = from[a]
        /\ pc[a] \in {"flag", "jump"} /\ target[a] = None => path = "s3"

\* On S3 every AP comes from the same place and goes back to it.
ParkedInv ==
    path = "s3" => \A a \in APs :
        /\ pc[Bsp] \in Loop \cup {"done"} => pc[a] \in {"hlt", "loop"} \cup Semaphore
        /\ InSmm(a) => from[a] = "loop"
        /\ pc[a] \in Semaphore => from[a] = "loop" /\ mSmmRelocationOriginalAddress = "loop"

HomeInv == HomeType /\ AddressInv /\ ParkedInv

\* WakeUpAPs and its last loop move no AP.
LEMMA PeiComesHome ==
    ASSUME Ordered, RelInv, HomeInv, PeiMove
    PROVE  HomeInv'
<1>1. HomeType'
  BY DEF PeiMove, Move, HomeType, HomeInv, RelInv, RelType
<1>2. AddressInv'
  BY DEF PeiMove, Move, AddressInv, HomeInv, RelInv, RelType, TurnInv, Turn, InSmm, APs
<1>3. ParkedInv'
  BY DEF PeiMove, Move, ParkedInv, HomeInv, RelInv, RelType, TurnInv, InSmm, Loop, APs
<1> QED BY <1>1, <1>2, <1>3 DEF HomeInv

\* On S3 the funnel is behind the APs when the loop begins.
LEMMA FunnelComesHome ==
    ASSUME Ordered, RelInv, HomeInv, NEW a \in APs, FunnelMove(a)
    PROVE  HomeInv'
<1>1. HomeType'
  BY FunnelStays DEF FunnelMove, ApUnchanged, smmVars, HomeType, HomeInv
<1>2. AddressInv'
  BY FunnelStays DEF FunnelMove, ApUnchanged, loopVars, smmVars, AddressInv, InSmm, Semaphore,
     HomeInv, APs
<1>3. ParkedInv'
  BY FunnelStays DEF FunnelMove, ApUnchanged, smmVars, ParkedInv, InSmm, HomeInv, APs
<1> QED BY <1>1, <1>2, <1>3 DEF HomeInv

\* On S3 every AP waits in HLT.
LEMMA InstallComesHome ==
    ASSUME Ordered, RelInv, HomeInv, InstallTemplate
    PROVE  HomeInv'
<1>1. HomeType'
  BY DEF InstallTemplate, BspUnchanged, HomeType, HomeInv
<1>2. AddressInv'
  BY DEF InstallTemplate, BspUnchanged, Move, AddressInv, HomeInv, InSmm, APs
<1>3. ParkedInv'
  BY DEF Ordered, InstallTemplate, BspUnchanged, Move, ParkedInv, HomeInv, InSmm
<1> QED BY <1>1, <1>2, <1>3 DEF HomeInv

\* The BSP says that the next SMI is an AP's, or its own.
LEMMA NextComesHome ==
    ASSUME Ordered, RelInv, HomeInv, NextCpu
    PROVE  HomeInv'
<1>1. HomeType'
  BY RelocationAssumption DEF NextCpu, BspUnchanged, Move, HomeType, HomeInv, RelInv, RelType
<1>2. AddressInv'
  BY DEF NextCpu, BspUnchanged, Move, AddressInv, HomeInv, RelInv, RelType, InSmm, APs
<1>3. ParkedInv'
  BY DEF NextCpu, BspUnchanged, Move, ParkedInv, HomeInv, RelInv, RelType, InSmm, Loop, APs
<1> QED BY <1>1, <1>2, <1>3 DEF HomeInv

\* The IPI moves nobody.
LEMMA SendComesHome ==
    ASSUME Ordered, RelInv, HomeInv, SendSmiIpi
    PROVE  HomeInv'
<1>1. HomeType'
  BY DEF SendSmiIpi, BspUnchanged, Move, HomeType, HomeInv, RelInv, RelType
<1>2. AddressInv'
  BY DEF SendSmiIpi, BspUnchanged, Move, AddressInv, HomeInv, RelInv, RelType, TurnInv, Turn,
     InSmm, APs
<1>3. ParkedInv'
  BY DEF SendSmiIpi, BspUnchanged, Move, ParkedInv, HomeInv, RelInv, RelType, InSmm, Loop, APs
<1> QED BY <1>1, <1>2, <1>3 DEF HomeInv

\* The wait moves nobody.
LEMMA RebasedComesHome ==
    ASSUME Ordered, RelInv, HomeInv, Rebased
    PROVE  HomeInv'
<1>1. HomeType'
  BY DEF Rebased, BspUnchanged, Move, HomeType, HomeInv
<1>2. AddressInv'
  BY DEF Rebased, BspUnchanged, Move, AddressInv, HomeInv, InSmm, APs
<1>3. ParkedInv'
  BY DEF Rebased, BspUnchanged, Move, ParkedInv, HomeInv, InSmm, Loop, APs
<1> QED BY <1>1, <1>2, <1>3 DEF HomeInv

\* No AP is in SMM any more.
LEMMA RestoreComesHome ==
    ASSUME Ordered, RelInv, HomeInv, RestoreContents
    PROVE  HomeInv'
<1>1. HomeType'
  BY DEF RestoreContents, BspUnchanged, Move, HomeType, HomeInv
<1>2. AddressInv'
  BY DEF RestoreContents, BspUnchanged, Move, AddressInv, HomeInv, RelInv, TurnInv, Turn, InSmm,
     APs
<1>3. ParkedInv'
  BY DEF RestoreContents, BspUnchanged, Move, ParkedInv, HomeInv, InSmm, Loop, APs
<1> QED BY <1>1, <1>2, <1>3 DEF HomeInv

\* The AP takes its own address, read in time or the same for all.
LEMMA SemaphoreComesHome ==
    ASSUME Ordered, RelInv, HomeInv, NEW a \in APs, SmmRelocationSemaphoreComplete(a)
    PROVE  HomeInv'
<1>1. HomeType'
  BY RelocationAssumption DEF SmmRelocationSemaphoreComplete, Move, HomeType, HomeInv, RelInv,
     RelType, APs
<1>2. AddressInv'
  BY DEF SmmRelocationSemaphoreComplete, Move, loopVars, AddressInv, ParkedInv, HomeInv, RelInv,
     RelType, SelfInv, InSmm, Semaphore, None, APs, ReturnInv
<1>3. ParkedInv'
  BY DEF SmmRelocationSemaphoreComplete, Move, HomeType, AddressInv, ParkedInv, HomeInv, RelInv,
     RelType, TurnInv, InSmm, Semaphore, APs
<1> QED BY <1>1, <1>2, <1>3 DEF HomeInv

\* The address is saved where the SMI interrupts the AP.
LEMMA TakeComesHome ==
    ASSUME Ordered, RelInv, HomeInv, NEW c \in Cpus, TakeSmi(c)
    PROVE  HomeInv'
<1>1. HomeType'
  BY DEF TakeSmi, smmVars, HomeType, HomeInv, RelInv, RelType, Addresses, Places, Parking
<1>2. AddressInv'
  BY DEF TakeSmi, HomeType, AddressInv, HomeInv, RelInv, SelfInv, TurnInv, Turn, InSmm,
     Semaphore, None, APs
<1>3. ParkedInv'
  BY DEF TakeSmi, smmVars, HomeType, ParkedInv, HomeInv, RelInv, TurnInv, Turn, InSmm, Loop
<1> QED BY <1>1, <1>2, <1>3 DEF HomeInv

\* mIsBsp is FALSE for an AP.
LEMMA HandlerComesHome ==
    ASSUME Ordered, RelInv, HomeInv, NEW c \in Cpus, SmmInitHandler(c)
    PROVE  HomeInv'
<1>1. HomeType'
  BY DEF SmmInitHandler, smmVars, HomeType, HomeInv
<1>2. AddressInv'
  BY DEF SmmInitHandler, MemType, SaveType, HomeType, AddressInv, HomeInv, RelInv, RelType,
     SelfInv, TurnInv, Turn, InSmm, Semaphore, APs
<1>3. ParkedInv'
  BY DEF SmmInitHandler, smmVars, ParkedInv, HomeInv, InSmm
<1> QED BY <1>1, <1>2, <1>3 DEF HomeInv

\* The address is put into the shared variable, while nobody else needs it.
LEMMA HookComesHome ==
    ASSUME Ordered, RelInv, HomeInv, NEW c \in Cpus, SemaphoreHook(c)
    PROVE  HomeInv'
<1>1. HomeType'
  BY DEF SemaphoreHook, HomeType, HomeInv
<1>2. AddressInv'
  <2>1. CASE c = Bsp
    BY <2>1 DEF SemaphoreHook, RelInv, SelfInv
  <2>2. CASE c \in APs
    <3>1. \A a \in APs \ {c} : ~ InSmm(a) /\ pc[a] \notin {"load", "flag"}
      BY <2>2 DEF SemaphoreHook, RelInv, TurnInv, Turn, InSmm
    <3>2. /\ mem'.save.rip = IF path = "boot" THEN "load" ELSE "flag"
          /\ ~ mem'.save.halted
      BY DEF Ordered, SemaphoreHook, RelInv, RelType, MemType, SaveType
    <3>3. /\ smm' = [smm EXCEPT ![c] = "rsm"]
          /\ UNCHANGED <<path, pc, target, from>>
      BY DEF SemaphoreHook
    <3>4. mSmmRelocationOriginalAddress' = from[c]
      BY <2>2 DEF SemaphoreHook, HomeInv, AddressInv
    <3>5. InSmm(c) /\ pc[c] # "load"
      BY <2>2 DEF SemaphoreHook, InSmm, RelInv, TurnInv, Semaphore
    <3> QED
      BY <2>2, <3>1, <3>2, <3>3, <3>4, <3>5 DEF HomeInv, AddressInv, InSmm, RelInv, RelType
  <2> QED BY <2>1, <2>2 DEF APs
<1>3. ParkedInv'
  BY DEF SemaphoreHook, AddressInv, ParkedInv, HomeInv, RelInv, SelfInv, Turn, InSmm, APs
<1> QED BY <1>1, <1>2, <1>3 DEF HomeInv

\* Only the BSP initialises the synchronisation data.
LEMMA SyncComesHome ==
    ASSUME Ordered, RelInv, HomeInv, NEW c \in Cpus, InitializeMpSyncData(c)
    PROVE  HomeInv'
<1>1. HomeType'
  BY DEF InitializeMpSyncData, HomeType, HomeInv
<1>2. AddressInv'
  BY DEF InitializeMpSyncData, AddressInv, HomeInv, RelInv, SelfInv, TurnInv, Turn, InSmm, APs
<1>3. ParkedInv'
  BY DEF InitializeMpSyncData, ParkedInv, HomeInv, InSmm
<1> QED BY <1>1, <1>2, <1>3 DEF HomeInv

\* RSM goes to the semaphore code.
LEMMA RsmComesHome ==
    ASSUME Ordered, RelInv, HomeInv, NEW c \in Cpus, Rsm(c)
    PROVE  HomeInv'
<1>1. HomeType'
  BY DEF Rsm, smmVars, HomeType, HomeInv, RelInv, SelfInv, InSmm
<1>2. AddressInv'
  BY DEF Rsm, loopVars, smmVars, Paths, AddressInv, HomeInv, RelInv, RelType, InSmm, None
<1>3. ParkedInv'
  BY DEF Rsm, smmVars, AddressInv, ParkedInv, HomeInv, RelInv, SelfInv, InSmm, Semaphore
<1> QED BY <1>1, <1>2, <1>3 DEF HomeInv

\* A reset forgets the addresses.
LEMMA SuspendComesHome ==
    ASSUME Ordered, RelInv, HomeInv, Suspend
    PROVE  HomeInv'
<1>1. HomeType'
  BY RelocationAssumption DEF Suspend, ResetCpus, HomeType, Addresses
<1>2. AddressInv'
  BY DEF Suspend, ResetCpus, AddressInv, InSmm, None, APs
<1>3. ParkedInv'
  BY RelocationAssumption DEF Suspend, ResetCpus, ParkedInv, InSmm, Loop, Semaphore, APs
<1> QED BY <1>1, <1>2, <1>3 DEF HomeInv

\* Stuttering.
LEMMA StutterComesHome ==
    ASSUME Ordered, RelInv, HomeInv, UNCHANGED vars
    PROVE  HomeInv'
<1>1. HomeType'
  BY DEF vars, cpuVars, smmVars, HomeType, HomeInv
<1>2. AddressInv'
  BY DEF vars, cpuVars, loopVars, smmVars, AddressInv, HomeInv, InSmm
<1>3. ParkedInv'
  BY DEF vars, cpuVars, smmVars, ParkedInv, HomeInv, InSmm
<1> QED BY <1>1, <1>2, <1>3 DEF HomeInv

\* Before the first boot no AP has been interrupted.
LEMMA InitHomeInv == Init => HomeInv
BY RelocationAssumption DEF Init, HomeInv, HomeType, AddressInv, ParkedInv, InSmm, Addresses,
   None, Cpus, APs

\* One step for each action of the processors.
LEMMA StepHomeInv == Ordered /\ RelInv /\ HomeInv /\ [Next]_vars => HomeInv'
<1> SUFFICES ASSUME Ordered, RelInv, HomeInv, [Next]_vars PROVE HomeInv'
  OBVIOUS
<1>1. CASE BspStep
  <2>1. CASE WakeUpAPs \/ AllFinished
    <3>1. PeiMove
      BY <2>1 DEF WakeUpAPs, AllFinished, PeiMove
    <3> QED BY <3>1, PeiComesHome
  <2> QED BY <1>1, <2>1, InstallComesHome, NextComesHome, SendComesHome, RebasedComesHome,
             RestoreComesHome DEF BspStep
<1>2. ASSUME NEW a \in APs, ApStep(a) PROVE HomeInv'
  <2>1. CASE \/ ApStart(a) \/ TestLock(a) \/ ProgramStack(a) \/ Releaselock(a)
             \/ MPRendezvousProcedure(a) \/ Halt(a)
    <3>1. FunnelMove(a)
      BY <2>1 DEF ApStart, TestLock, ProgramStack, Releaselock, MPRendezvousProcedure, Halt,
         FunnelMove, Funnel, Parking
    <3> QED BY <3>1, FunnelComesHome
  <2> QED BY <1>2, <2>1, SemaphoreComesHome DEF ApStep
<1>3. ASSUME NEW c \in Cpus, SmmStep(c) PROVE HomeInv'
  BY <1>3, TakeComesHome, HandlerComesHome, HookComesHome, SyncComesHome, RsmComesHome
     DEF SmmStep
<1> QED BY <1>1, <1>2, <1>3, SuspendComesHome, StutterComesHome DEF Next

\* An AP leaves the semaphore code for the place where its SMI interrupted it,
\* although SemaphoreHook keeps the addresses of all APs in one variable.
THEOREM ReturnsHomeHolds ==
    ASSUME Ordered
    PROVE  Spec => ReturnsHome
<1> DEFINE Home == \A a \in APs : pc[a] = "jump" /\ pc'[a] # "jump" => pc'[a] = from[a]
<1>1. ASSUME RelInv, HomeInv, Next PROVE Home
  <2> SUFFICES ASSUME NEW a \in APs, pc[a] = "jump", pc'[a] # "jump" PROVE pc'[a] = from[a]
    OBVIOUS
  <2>1. CASE BspStep
    BY <2>1, <1>1 DEF BspStep, WakeUpAPs, AllFinished, InstallTemplate, NextCpu, SendSmiIpi,
       Rebased,
       RestoreContents, Move, APs, RelInv, RelType
  <2>2. ASSUME NEW b \in APs, ApStep(b) PROVE pc'[a] = from[a]
    <3>1. b = a
      BY <2>2, <1>1 DEF ApStep, ApStart, TestLock, ProgramStack, Releaselock,
         MPRendezvousProcedure,
         Halt, SmmRelocationSemaphoreComplete, Move, APs, RelInv, RelType
    <3>2. SmmRelocationSemaphoreComplete(a)
      BY <2>2, <3>1 DEF ApStep, ApStart, TestLock, ProgramStack, Releaselock,
         MPRendezvousProcedure, Halt, Move
    <3>3. pc'[a] = IF target[a] # None THEN target[a] ELSE mSmmRelocationOriginalAddress
      BY <3>2, <1>1 DEF SmmRelocationSemaphoreComplete, Move, APs, RelInv, RelType
    <3> QED BY <3>3, <1>1 DEF HomeInv, AddressInv, ParkedInv, Semaphore
  <2>3. ASSUME NEW c \in Cpus, SmmStep(c) PROVE FALSE
    <3>1. c = a /\ InSmm(a)
      BY <2>3, <1>1 DEF SmmStep, TakeSmi, SmmInitHandler, SemaphoreHook, InitializeMpSyncData,
         Rsm,
         InSmm, APs, RelInv, RelType
    <3> QED BY <3>1, <1>1 DEF RelInv, TurnInv, Semaphore
  <2>4. CASE Suspend
    BY <2>4 DEF Suspend
  <2> QED BY <1>1, <2>1, <2>2, <2>3, <2>4 DEF Next
<1> QED BY <1>1, InitHomeInv, StepHomeInv, RelInvHolds, PTL DEF Spec, ReturnsHome

-----------------------------------------------------------------------------
(* The funnel of the S3 path: stacks, FinishedCount and the two locks.       *)

\* An AP that is through the funnel has been counted in FinishedCount.
Late == {"release"} \cup Parking
Early == {"sipi", "lock", "stack", "stackset"}
Stacked == {a \in APs : esp[a] # 0}
Counted == {a \in APs : pc[a] \in Late}

ServeType ==
    /\ resumes \in 0 .. MaxResumes
    /\ eax \in [Cpus -> 0 .. NumberOfCpus] /\ esp \in [Cpus -> 0 .. NumberOfCpus]
    /\ mtrr \in [Cpus -> BOOLEAN]
    /\ from \in [Cpus -> Addresses]
    /\ ex \in [Lock : 0 .. 1, StackStart : 0 .. NumberOfCpus,
               FinishedCount : 0 .. NumberOfCpus, SerializeLock : 0 .. 1]

\* No AP is interrupted, or goes back, to a place in the funnel from which it
\* could take a second stack or be counted a second time.
PlaceInv ==
    /\ mSmmRelocationOriginalAddress \in Late \cup {None}
    /\ \A a \in APs :
         /\ target[a] \in Late \cup {None}
         /\ pc[a] \in Semaphore => mSmmRelocationOriginalAddress # None
         /\ InSmm(a) => mem.save.rip \in Late \cup Semaphore
         /\ InSmm(a) /\ mem.save.rip \in Semaphore => mSmmRelocationOriginalAddress # None
         /\ pc[Bsp] = "wake" => pc[a] = "sipi"
         /\ pc[Bsp] = "wait" => pc[a] \in Funnel \cup Parking
         /\ pc[Bsp] \notin {"wake", "wait"} => pc[a] \in Late \cup Semaphore

\* StackStart counts the stacks handed out.
StackInv ==
    /\ pc[Bsp] = "wake" => \A a \in APs : esp[a] = 0
    /\ pc[Bsp] # "wake" =>
         /\ ex.StackStart = Cardinality(Stacked)
         /\ \A a \in APs : esp[a] <= ex.StackStart
         /\ \A a, b \in APs : esp[a] = esp[b] /\ esp[a] # 0 => a = b
    /\ pc[Bsp] = "wait" =>
         /\ \A a \in APs : pc[a] \in Early => esp[a] = 0
         /\ \A a \in APs : pc[a] = "stackset" => eax[a] = ex.StackStart + 1
         /\ \A a \in APs : pc[a] \in {"stack", "stackset", "unlock"} => ex.Lock = 1
         /\ \A a, b \in APs : {pc[a], pc[b]} \subseteq {"stack", "stackset", "unlock"} => a = b

\* FinishedCount counts the APs that have their MTRRs.
FinishInv ==
    /\ pc[Bsp] = "wait" =>
         /\ ex.FinishedCount = Cardinality(Counted)
         /\ \A a \in APs : pc[a] \in Late \cup {"acquire", "count", "countset"} => mtrr[a]
         /\ \A a \in APs : pc[a] = "countset" => eax[a] = ex.FinishedCount
         /\ \A a \in APs : pc[a] \in {"count", "countset", "release"} => ex.SerializeLock = 1
         /\ \A a, b \in APs : {pc[a], pc[b]} \subseteq {"count", "countset", "release"} => a = b
    /\ path = "s3" /\ pc[Bsp] \notin {"wake", "wait"} => \A a \in APs : mtrr[a]

ServeInv == ServeType /\ PlaceInv /\ StackInv /\ FinishInv

\* The APs are all processors but one.
LEMMA ApCount ==
    /\ NumberOfCpus \in Nat \ {0} /\ Bsp \in Cpus /\ Bsp \notin APs /\ APs \subseteq Cpus
    /\ IsFiniteSet(APs) /\ Cardinality(APs) = NumberOfCpus - 1
    /\ \A S \in SUBSET APs :
         /\ IsFiniteSet(S) /\ Cardinality(S) \in 0 .. NumberOfCpus - 1
         /\ Cardinality(S) = NumberOfCpus - 1 => S = APs
<1>1. NumberOfCpus \in Nat \ {0} /\ Bsp \in Cpus /\ Bsp \notin APs /\ APs \subseteq Cpus
  BY RelocationAssumption DEF Cpus, APs
<1>2. IsFiniteSet(Cpus) /\ Cardinality(Cpus) = NumberOfCpus
  BY <1>1, FS_Interval, 0 \in Int, NumberOfCpus - 1 \in Int DEF Cpus
<1>3. IsFiniteSet(APs) /\ Cardinality(APs) = NumberOfCpus - 1
  BY <1>1, <1>2, FS_RemoveElement DEF APs
<1>4. ASSUME NEW S \in SUBSET APs
      PROVE  /\ IsFiniteSet(S) /\ Cardinality(S) \in 0 .. NumberOfCpus - 1
             /\ Cardinality(S) = NumberOfCpus - 1 => S = APs
  <2>1. IsFiniteSet(S) /\ Cardinality(S) <= Cardinality(APs)
        /\ (Cardinality(APs) = Cardinality(S) => APs = S)
    BY <1>3, FS_Subset
  <2>2. Cardinality(S) \in Nat
    BY <2>1, FS_CardinalityType
  <2> QED BY <1>1, <1>3, <2>1, <2>2
<1> QED BY <1>1, <1>3, <1>4

\* Behind the funnel nobody touches the exchange area.
LEMMA BehindTheFunnel ==
    ASSUME ServeInv, UNCHANGED <<peiVars, path>>,
           pc[Bsp] \notin {"wake", "wait"}, pc'[Bsp] \notin {"wake", "wait"}
    PROVE  StackInv' /\ FinishInv'
BY DEF ServeInv, StackInv, FinishInv, peiVars, Stacked

\* SmmRelocateBases touches no AP but by the SMIs it sends.
LEMMA LoopServes ==
    ASSUME RelInv, ServeInv,
           InstallTemplate \/ NextCpu \/ SendSmiIpi \/ Rebased \/ RestoreContents
    PROVE  ServeInv'
<1>1. BspUnchanged /\ pc[Bsp] \notin {"wake", "wait"} /\ pc'[Bsp] \notin {"wake", "wait"}
  BY ApCount DEF InstallTemplate, NextCpu, SendSmiIpi, Rebased, RestoreContents, Move, RelInv,
     RelType
<1>2. \A a \in APs : pc'[a] = pc[a]
  BY ApCount DEF InstallTemplate, NextCpu, SendSmiIpi, Rebased, RestoreContents, Move, RelInv,
     RelType
<1>3. ServeType'
  BY <1>1 DEF BspUnchanged, peiVars, ServeType, ServeInv
<1>4. StackInv' /\ FinishInv'
  BY <1>1, BehindTheFunnel DEF BspUnchanged
<1>5. \A a \in APs : InSmm(a) => mem' = mem
  BY ApCount DEF InstallTemplate, NextCpu, SendSmiIpi, Rebased, RestoreContents, Move, RelInv,
     TurnInv, Turn
<1>6. PlaceInv'
  BY <1>1, <1>2, <1>5 DEF BspUnchanged, PlaceInv, ServeInv, InSmm
<1> QED BY <1>3, <1>4, <1>6 DEF ServeInv

\* A relocation SMI interrupts an AP that is through the funnel, and lets it go
\* to the semaphore code or back.
LEMMA SmiServes ==
    ASSUME RelInv, ServeInv, NEW c \in Cpus, SmmStep(c)
    PROVE  ServeInv'
<1>1. InSmm(c) \/ smi[c]
  BY DEF SmmStep, TakeSmi, SmmInitHandler, SemaphoreHook, InitializeMpSyncData, Rsm, InSmm
<1>2. pc[Bsp] \in {"poll", "restore"} /\ (c # Bsp => c \in APs /\ index = c /\ pc[Bsp] = "poll")
  BY <1>1 DEF RelInv, TurnInv, Turn, SelfInv, APs
<1>3. pc'[Bsp] = pc[Bsp] /\ \A a \in APs \ {c} : pc'[a] = pc[a] /\ smm'[a] = smm[a] /\ ~ InSmm(a)
  <2>1. CASE c = Bsp
    BY <1>1, <2>1, ApCount DEF SmmStep, TakeSmi, SmmInitHandler, SemaphoreHook,
       InitializeMpSyncData, Rsm, InSmm, RelInv, RelType, SelfInv, TurnInv, Turn
  <2>2. CASE c \in APs
    BY <1>2, <2>2, ApCount DEF SmmStep, TakeSmi, SmmInitHandler, SemaphoreHook,
       InitializeMpSyncData, Rsm, InSmm, RelInv, RelType, TurnInv, Turn
  <2> QED BY <2>1, <2>2 DEF APs
<1>4. UNCHANGED <<peiVars, path, resumes, target>>
  BY DEF SmmStep, TakeSmi, SmmInitHandler, SemaphoreHook, InitializeMpSyncData, Rsm
<1>5. StackInv' /\ FinishInv'
  BY <1>2, <1>3, <1>4, BehindTheFunnel
<1>6. ServeType'
  <2>1. from' \in [Cpus -> Addresses]
    BY DEF SmmStep, TakeSmi, SmmInitHandler, SemaphoreHook, InitializeMpSyncData, Rsm, ServeInv,
       ServeType, RelInv, RelType, Addresses, Places, Parking
  <2> QED BY <1>4, <2>1 DEF ServeInv, ServeType, peiVars
<1>7. PlaceInv'
  <2> DEFINE orig == mSmmRelocationOriginalAddress
  <2>1. ASSUME c \in APs
        PROVE  /\ orig' \in Late \cup {None} /\ (orig' = orig \/ orig' # None)
               /\ pc'[c] \in Late \cup Semaphore
               /\ pc'[c] \in Semaphore => orig' # None
               /\ InSmm(c)' => mem'.save.rip \in Late \cup Semaphore
               /\ InSmm(c)' /\ mem'.save.rip \in Semaphore => orig' # None
    <3> USE <2>1
    <3>0. /\ pc[c] \in Late /\ orig \in Late \cup {None} /\ c \in Cpus
          /\ InSmm(c) => mem.save.rip \in Late \cup Semaphore
          /\ InSmm(c) /\ mem.save.rip \in Semaphore => orig # None
      BY <1>1, <1>2, ApCount DEF RelInv, TurnInv, ServeInv, PlaceInv
    <3>1. CASE TakeSmi(c)
      BY <3>0, <3>1 DEF TakeSmi, smmVars, RelInv, RelType, MemType, SaveType, Late, Parking,
         Semaphore
    <3>2. CASE SmmInitHandler(c)
      BY <3>0, <3>2 DEF SmmInitHandler, smmVars, InSmm, RelInv, RelType, MemType, SaveType, Late,
         Parking, Semaphore
    <3>3. CASE SemaphoreHook(c)
      <4>1. mem.save.rip \in Late
        BY <3>0, <3>3 DEF SemaphoreHook, InSmm, RelInv, ReturnInv
      <4>2. mem'.save.rip \in Semaphore
        BY <3>3 DEF SemaphoreHook, RelInv, RelType, MemType, SaveType, Semaphore
      <4> QED BY <3>0, <3>3, <4>1, <4>2 DEF SemaphoreHook, Late, Parking, None, Semaphore
    <3>4. CASE InitializeMpSyncData(c)
      BY <3>0, <3>4 DEF InitializeMpSyncData, loopVars, InSmm, Late, Parking, Semaphore
    <3>5. CASE Rsm(c)
      BY <3>0, <3>5 DEF Rsm, smmVars, loopVars, InSmm, RelInv, RelType, Late, Parking, Semaphore
    <3> QED BY <3>1, <3>2, <3>3, <3>4, <3>5 DEF SmmStep
  <2>2. CASE c = Bsp
    <3>1. orig' = orig /\ \A a \in APs : ~ InSmm(a)'
      BY <1>3, <2>2, ApCount DEF SmmStep, TakeSmi, SmmInitHandler, SemaphoreHook,
         InitializeMpSyncData, Rsm, smmVars, InSmm, RelInv, SelfInv
    <3> QED BY <1>2, <1>3, <1>4, <2>2, <3>1, ApCount DEF ServeInv, PlaceInv
  <2>3. CASE c \in APs
    <3>1. \A a \in APs \ {c} : ~ InSmm(a)' /\ (pc[a] \in Semaphore => orig' # None)
      BY <1>3, <2>1, <2>3 DEF InSmm, ServeInv, PlaceInv
    <3> QED BY <1>2, <1>3, <1>4, <2>1, <2>3, <3>1, ApCount DEF ServeInv, PlaceInv
  <2> QED BY <2>2, <2>3 DEF APs
<1> QED BY <1>5, <1>6, <1>7 DEF ServeInv

\* The semaphore code leads back to where an SMI has interrupted some AP.
LEMMA SemaphoreServes ==
    ASSUME RelInv, ServeInv, NEW a \in APs, SmmRelocationSemaphoreComplete(a)
    PROVE  ServeInv'
<1>1. /\ pc[a] \in Semaphore /\ pc[Bsp] \notin {"wake", "wait"} /\ pc'[Bsp] = pc[Bsp]
      /\ \A b \in APs \ {a} : pc'[b] = pc[b] /\ target'[b] = target[b]
      /\ ~ InSmm(a)
  BY ApCount DEF SmmRelocationSemaphoreComplete, Move, Semaphore, RelInv, RelType, TurnInv, Loop,
     InSmm
<1>2. UNCHANGED <<peiVars, path, resumes, from, smm, mem, mSmmRelocationOriginalAddress>>
  BY DEF SmmRelocationSemaphoreComplete, loopVars
<1>3. StackInv' /\ FinishInv'
  BY <1>1, <1>2, BehindTheFunnel
<1>4. ServeType'
  BY <1>2 DEF ServeInv, ServeType, peiVars
<1>5. target'[a] \in Late \cup {None} /\ pc'[a] \in Late \cup Semaphore
  BY <1>1, ApCount DEF SmmRelocationSemaphoreComplete, Move, Semaphore, RelInv, RelType, ServeInv,
     PlaceInv
<1>6. PlaceInv'
  BY <1>1, <1>2, <1>5 DEF ServeInv, PlaceInv, InSmm
<1> QED BY <1>3, <1>4, <1>6 DEF ServeInv

\* WakeUpAPs begins with no stack handed out and nobody counted.
LEMMA WakeServes ==
    ASSUME RelInv, ServeInv, WakeUpAPs
    PROVE  ServeInv'
<1>1. /\ pc[Bsp] = "wake" /\ pc'[Bsp] = "wait"
      /\ \A a \in APs : pc'[a] = "sipi" /\ ~ InSmm(a) /\ esp[a] = 0
  BY ApCount DEF WakeUpAPs, Move, RelInv, RelType, TurnInv, Turn, ServeInv, PlaceInv, StackInv
<1>2. /\ ex' = [Lock |-> 0, StackStart |-> 0, FinishedCount |-> 0, SerializeLock |-> 0]
      /\ UNCHANGED <<path, resumes, smm, target, from, eax, esp, mtrr, mem,
                     mSmmRelocationOriginalAddress>>
  BY DEF WakeUpAPs, loopVars, smmVars
<1>3. ServeType'
  BY <1>2, ApCount DEF ServeInv, ServeType
<1>4. PlaceInv'
  BY <1>1, <1>2 DEF ServeInv, PlaceInv, InSmm, Funnel, Semaphore
<1>5. Stacked' = {} /\ Counted' = {} /\ Cardinality({}) = 0
  BY <1>1, <1>2, FS_EmptySet DEF Stacked, Counted, Late, Parking
<1>6. StackInv' /\ FinishInv'
  BY <1>1, <1>2, <1>5 DEF StackInv, FinishInv, Late, Parking
<1> QED BY <1>3, <1>4, <1>6 DEF ServeInv

\* The BSP goes on when everybody has been counted.
LEMMA FinishedServes ==
    ASSUME RelInv, ServeInv, AllFinished
    PROVE  ServeInv'
<1>1. /\ pc[Bsp] = "wait" /\ pc'[Bsp] = "enter" /\ ex.FinishedCount >= NumberOfCpus - 1
      /\ \A a \in APs : pc'[a] = pc[a] /\ ~ InSmm(a)
  BY ApCount DEF AllFinished, Move, RelInv, RelType, TurnInv, Turn
<1>2. UNCHANGED <<path, resumes, smm, target, from, ex, eax, esp, mtrr, mem,
                  mSmmRelocationOriginalAddress>>
  BY DEF AllFinished, peiVars, loopVars, smmVars
<1>3. Counted = APs
  <2>1. Counted \in SUBSET APs /\ ex.FinishedCount = Cardinality(Counted)
    BY <1>1 DEF Counted, ServeInv, FinishInv
  <2> QED BY <1>1, <2>1, ApCount
<1>4. \A a \in APs : pc[a] \in Late /\ mtrr[a]
  BY <1>1, <1>3 DEF Counted, ServeInv, FinishInv
<1>5. ServeType'
  BY <1>2 DEF ServeInv, ServeType
<1>6. PlaceInv'
  BY <1>1, <1>2, <1>4 DEF ServeInv, PlaceInv, InSmm
<1>7. StackInv' /\ FinishInv'
  BY <1>1, <1>2, <1>4 DEF ServeInv, StackInv, FinishInv, Stacked
<1> QED BY <1>5, <1>6, <1>7 DEF ServeInv

\* A step of one AP in the funnel, which the BSP waits for.
LEMMA FunnelPlaces ==
    ASSUME RelInv, ServeInv, NEW a \in APs, NEW here \in Funnel \cup Parking,
           NEW there \in Funnel \cup Parking, Move(a, here, there), ApUnchanged,
           pc[Bsp] # "wake", here \in Late => there \in Late
    PROVE  /\ PlaceInv'
           /\ pc[a] = here /\ pc'[a] = there /\ pc'[Bsp] = pc[Bsp]
           /\ \A b \in APs \ {a} : pc'[b] = pc[b]
           /\ here \notin Late => pc[Bsp] = "wait"
<1>1. /\ pc[a] = here /\ pc'[a] = there /\ pc'[Bsp] = pc[Bsp] /\ ~ InSmm(a)
      /\ \A b \in APs \ {a} : pc'[b] = pc[b]
  BY ApCount DEF Move, RelInv, RelType, InSmm
<1>2. UNCHANGED <<smm, target, mem, mSmmRelocationOriginalAddress>>
  BY DEF ApUnchanged, loopVars, smmVars
<1>3. Semaphore \cap (Funnel \cup Parking) = {}
  BY DEF Semaphore, Funnel, Parking
<1>4. here \notin Late => pc[Bsp] = "wait"
  BY <1>1, <1>3 DEF ServeInv, PlaceInv
<1>5. PlaceInv'
  BY <1>1, <1>2, <1>3, <1>4 DEF ServeInv, PlaceInv, InSmm
<1> QED BY <1>1, <1>4, <1>5

\* The funnel hands out one stack at a time, under Lock.
LEMMA StackServes ==
    ASSUME RelInv, ServeInv, NEW a \in APs,
           ApStart(a) \/ TestLock(a) \/ ProgramStack(a) \/ Releaselock(a)
    PROVE  ServeInv'
<1>0. /\ pc[Bsp] = "wait" /\ ApUnchanged /\ mtrr' = mtrr
      /\ \E here \in {"sipi", "lock", "stack", "stackset", "unlock"},
            there \in {"lock", "stack", "stackset", "unlock", "body"} : Move(a, here, there)
  <2>1. /\ ApUnchanged /\ mtrr' = mtrr
        /\ \E here \in {"sipi", "lock", "stack", "stackset", "unlock"},
              there \in {"lock", "stack", "stackset", "unlock", "body"} : Move(a, here, there)
    BY DEF ApStart, TestLock, ProgramStack, Releaselock, peiVars
  <2>2. pc[a] = "sipi" => pc[Bsp] = "wait"
    BY DEF ApStart, TestLock, ProgramStack, Releaselock, Move
  <2> QED BY <2>1, <2>2 DEF Move, ServeInv, PlaceInv, Late, Parking, Semaphore
<1>1. /\ PlaceInv' /\ pc'[Bsp] = "wait"
      /\ \A b \in APs \ {a} : pc'[b] = pc[b]
  <2>1. PICK here \in {"sipi", "lock", "stack", "stackset", "unlock"},
             there \in {"lock", "stack", "stackset", "unlock", "body"} : Move(a, here, there)
    BY <1>0
  <2>2. here \in Funnel /\ there \in Funnel /\ here \notin Late
    BY DEF Funnel, Late, Parking
  <2> QED BY <1>0, <2>1, <2>2, FunnelPlaces
<1>2. /\ UNCHANGED <<path, resumes, from>>
      /\ ex'.FinishedCount = ex.FinishedCount /\ ex'.SerializeLock = ex.SerializeLock
      /\ \A b \in APs \ {a} : eax'[b] = eax[b] /\ esp'[b] = esp[b]
      /\ pc[a] \notin Late \cup {"acquire", "count", "countset"}
      /\ pc'[a] \notin Late \cup {"acquire", "count", "countset"}
  BY ApCount DEF ApStart, TestLock, ProgramStack, Releaselock, ApUnchanged, Move, ServeInv,
     ServeType, RelInv, RelType, peiVars, Late, Parking
<1>3. FinishInv'
  <2>1. Counted' = Counted
    BY <1>1, <1>2 DEF Counted
  <2> QED BY <1>0, <1>1, <1>2, <2>1, ApCount DEF ServeInv, FinishInv, Late
<1>4. Stacked \in SUBSET APs /\ ex.StackStart = Cardinality(Stacked)
  BY <1>0 DEF Stacked, ServeInv, StackInv
<1>5. ServeType' /\ StackInv'
  <2>1. CASE ApStart(a) \/ TestLock(a)
    <3>1. UNCHANGED <<eax, esp, mtrr>> /\ ex'.StackStart = ex.StackStart /\ Stacked' = Stacked
      BY <2>1 DEF ApStart, TestLock, peiVars, Stacked, ServeInv, ServeType
    <3>2. ServeType'
      BY <1>2, <2>1, <3>1 DEF ServeInv, ServeType, ApStart, TestLock, peiVars
    <3>3. \/ pc[a] = "sipi" /\ pc'[a] = "lock" /\ ex'.Lock = ex.Lock
          \/ pc[a] = "lock" /\ pc'[a] = "stack" /\ ex'.Lock = 1 /\ ex.Lock = 0
      BY <2>1, ApCount DEF ApStart, TestLock, peiVars, Move, ServeInv, ServeType, RelInv, RelType
    <3> QED BY <1>0, <1>1, <3>1, <3>2, <3>3 DEF ServeInv, StackInv, Early
  <2>2. CASE Releaselock(a)
    <3>1. UNCHANGED <<eax, esp, mtrr>> /\ ex'.StackStart = ex.StackStart /\ Stacked' = Stacked
      BY <2>2 DEF Releaselock, Stacked, ServeInv, ServeType
    <3>2. ServeType'
      BY <1>2, <2>2, <3>1 DEF ServeInv, ServeType, Releaselock
    <3>3. pc[a] = "unlock" /\ pc'[a] = "body"
      BY <2>2, ApCount DEF Releaselock, Move, RelInv, RelType
    <3> QED BY <1>0, <1>1, <3>1, <3>2, <3>3 DEF ServeInv, StackInv, Early
  <2>3. CASE ProgramStack(a) /\ pc[a] = "stack"
    <3>1. /\ pc'[a] = "stackset" /\ UNCHANGED <<ex, esp>> /\ Stacked' = Stacked
          /\ eax' = [eax EXCEPT ![a] = ex.StackStart + 1]
      BY <2>3, ApCount DEF ProgramStack, Move, RelInv, RelType, Stacked
    <3>2. ex.StackStart + 1 \in 0 .. NumberOfCpus
      BY <1>4, ApCount
    <3>3. ServeType'
      BY <1>0, <1>2, <3>1, <3>2 DEF ServeInv, ServeType
    <3>4. eax'[a] = ex.StackStart + 1
      BY <3>1, ApCount DEF ServeInv, ServeType
    <3> QED BY <1>0, <1>1, <1>2, <2>3, <3>1, <3>3, <3>4 DEF ServeInv, StackInv, Early
  <2>4. CASE ProgramStack(a) /\ pc[a] = "stackset"
    <3>1. /\ pc'[a] = "unlock" /\ eax' = eax
          /\ esp' = [esp EXCEPT ![a] = eax[a]] /\ ex' = [ex EXCEPT !.StackStart = eax[a]]
      BY <2>4, ApCount DEF ProgramStack, Move, RelInv, RelType
    <3>2. eax[a] = ex.StackStart + 1 /\ esp[a] = 0
      BY <1>0, <2>4 DEF ServeInv, StackInv, Early
    <3>3. ServeType'
      BY <1>0, <1>2, <3>1, ApCount DEF ServeInv, ServeType
    <3>4. ex'.StackStart = ex.StackStart + 1 /\ esp'[a] = ex.StackStart + 1 /\ ex'.Lock = ex.Lock
      BY <3>1, <3>2, ApCount DEF ServeInv, ServeType
    <3>5. Stacked' = Stacked \cup {a} /\ a \notin Stacked
      BY <1>2, <1>4, <3>2, <3>4, ApCount DEF Stacked
    <3>6. ex'.StackStart = Cardinality(Stacked')
      <4>1. IsFiniteSet(Stacked)
        BY <1>4, ApCount
      <4>2. Cardinality(Stacked \cup {a}) = Cardinality(Stacked) + 1
        BY <3>5, <4>1, FS_AddElement
      <4> QED BY <1>4, <3>4, <3>5, <4>2
    <3>7. \A b \in APs \ {a} : esp'[b] = esp[b] /\ esp[b] \in Nat /\ esp[b] <= ex.StackStart
      BY <1>0, <1>2, ApCount DEF ServeInv, ServeType, StackInv
    <3>8. ex.StackStart \in Nat
      BY DEF ServeInv, ServeType
    <3>9. /\ \A b \in APs : esp'[b] <= ex'.StackStart
          /\ \A b, c \in APs : esp'[b] = esp'[c] /\ esp'[b] # 0 => b = c
      BY <1>0, <3>4, <3>7, <3>8 DEF ServeInv, StackInv
    <3>10. \A b \in APs \ {a} : pc[b] \notin {"stack", "stackset", "unlock"}
      BY <1>0, <2>4 DEF ServeInv, StackInv
    <3>11. ex'.Lock = 1
      BY <1>0, <2>4, <3>4 DEF ServeInv, StackInv
    <3> QED BY <1>0, <1>1, <1>2, <3>1, <3>3, <3>6, <3>9, <3>10, <3>11
               DEF ServeInv, StackInv, Early
  <2>5. ProgramStack(a) => pc[a] \in {"stack", "stackset"}
    BY DEF ProgramStack, Move
  <2> QED BY <2>1, <2>2, <2>3, <2>4, <2>5
<1> QED BY <1>1, <1>3, <1>5 DEF ServeInv

\* MPRendezvousProcedure counts an AP once, under SerializeLock, with its MTRRs.
LEMMA CountServes ==
    ASSUME RelInv, ServeInv, NEW a \in APs, MPRendezvousProcedure(a), pc[a] # "release"
    PROVE  ServeInv'
<1>0. /\ pc[Bsp] = "wait" /\ ApUnchanged /\ esp' = esp
      /\ \E here \in {"body", "acquire", "count", "countset"},
            there \in {"acquire", "count", "countset", "release"} : Move(a, here, there)
  <2>1. /\ ApUnchanged /\ esp' = esp
        /\ \E here \in {"body", "acquire", "count", "countset"},
              there \in {"acquire", "count", "countset", "release"} : Move(a, here, there)
    BY DEF MPRendezvousProcedure, Move
  <2> QED BY <2>1 DEF Move, ServeInv, PlaceInv, Late, Parking, Semaphore
<1>1. /\ PlaceInv' /\ pc'[Bsp] = "wait"
      /\ \A b \in APs \ {a} : pc'[b] = pc[b]
  <2>1. PICK here \in {"body", "acquire", "count", "countset"},
             there \in {"acquire", "count", "countset", "release"} : Move(a, here, there)
    BY <1>0
  <2>2. here \in Funnel /\ there \in Funnel /\ here \notin Late
    BY DEF Funnel, Late, Parking
  <2> QED BY <1>0, <2>1, <2>2, FunnelPlaces
<1>2. /\ UNCHANGED <<path, resumes, from>>
      /\ ex'.StackStart = ex.StackStart /\ ex'.Lock = ex.Lock /\ Stacked' = Stacked
      /\ \A b \in APs \ {a} : eax'[b] = eax[b] /\ mtrr'[b] = mtrr[b]
      /\ pc[a] \notin Early \cup {"unlock"} /\ pc'[a] \notin Early \cup {"unlock"}
  BY <1>0, ApCount DEF MPRendezvousProcedure, ApUnchanged, Move, ServeInv, ServeType, RelInv,
     RelType, Early, Stacked
<1>3. StackInv'
  BY <1>0, <1>1, <1>2 DEF ServeInv, StackInv, Early
<1>4. Counted \in SUBSET APs /\ ex.FinishedCount = Cardinality(Counted) /\ a \notin Counted
  BY <1>0 DEF Counted, ServeInv, FinishInv, Move, Late, Parking
<1>5. ServeType' /\ FinishInv'
  <2>1. CASE pc[a] = "body"
    <3>1. pc'[a] = "acquire" /\ mtrr' = [mtrr EXCEPT ![a] = TRUE] /\ UNCHANGED <<ex, eax>>
      BY <2>1, ApCount DEF MPRendezvousProcedure, Move, RelInv, RelType
    <3>2. ServeType'
      BY <1>0, <1>2, <3>1 DEF ServeInv, ServeType
    <3>3. mtrr'[a] /\ \A b \in APs : mtrr[b] => mtrr'[b]
      BY <1>2, <3>1, ApCount DEF ServeInv, ServeType
    <3>4. Counted' = Counted
      BY <1>1, <2>1, <3>1 DEF Counted, Late, Parking
    <3> QED BY <1>0, <1>1, <2>1, <3>1, <3>2, <3>3, <3>4 DEF ServeInv, FinishInv, Late, Parking
  <2>2. CASE pc[a] = "acquire"
    <3>1. /\ pc'[a] = "count" /\ UNCHANGED <<eax, mtrr>>
          /\ ex.SerializeLock = 0 /\ ex' = [ex EXCEPT !.SerializeLock = 1]
      BY <2>2, ApCount DEF MPRendezvousProcedure, Move, RelInv, RelType
    <3>2. ServeType'
      BY <1>0, <1>2, <3>1 DEF ServeInv, ServeType
    <3>3. ex'.SerializeLock = 1 /\ ex'.FinishedCount = ex.FinishedCount
      BY <3>1 DEF ServeInv, ServeType
    <3>4. Counted' = Counted
      BY <1>1, <2>2, <3>1 DEF Counted, Late, Parking
    <3> QED BY <1>0, <1>1, <2>2, <3>1, <3>2, <3>3, <3>4 DEF ServeInv, FinishInv, Late, Parking
  <2>3. CASE pc[a] = "count"
    <3>1. /\ pc'[a] = "countset" /\ UNCHANGED <<ex, mtrr>>
          /\ eax' = [eax EXCEPT ![a] = ex.FinishedCount]
      BY <2>3, ApCount DEF MPRendezvousProcedure, Move, RelInv, RelType
    <3>2. ServeType'
      BY <1>0, <1>2, <3>1 DEF ServeInv, ServeType
    <3>3. eax'[a] = ex.FinishedCount
      BY <3>1, ApCount DEF ServeInv, ServeType
    <3>4. Counted' = Counted
      BY <1>1, <2>3, <3>1 DEF Counted, Late, Parking
    <3> QED BY <1>0, <1>1, <1>2, <2>3, <3>1, <3>2, <3>3, <3>4
               DEF ServeInv, FinishInv, Late, Parking
  <2>4. CASE pc[a] = "countset"
    <3>1. /\ pc'[a] = "release" /\ UNCHANGED <<eax, mtrr>>
          /\ ex' = [ex EXCEPT !.FinishedCount = eax[a] + 1]
      BY <2>4, ApCount DEF MPRendezvousProcedure, Move, RelInv, RelType
    <3>2. eax[a] = ex.FinishedCount
      BY <1>0, <2>4 DEF ServeInv, FinishInv
    <3>3. ex'.SerializeLock = ex.SerializeLock /\ ex'.FinishedCount = ex.FinishedCount + 1
      BY <3>1, <3>2 DEF ServeInv, ServeType
    <3>4. Counted' = Counted \cup {a}
      BY <1>1, <1>4, <3>1 DEF Counted, Late
    <3>5. Cardinality(Counted \cup {a}) = Cardinality(Counted) + 1
      <4>1. IsFiniteSet(Counted)
        BY <1>4, ApCount
      <4> QED BY <1>4, <4>1, FS_AddElement
    <3>6. eax[a] + 1 \in 0 .. NumberOfCpus
      BY <1>4, <3>2, ApCount
    <3>7. ServeType'
      BY <1>0, <1>2, <3>1, <3>6 DEF ServeInv, ServeType
    <3>8. \A b \in APs \ {a} : pc[b] \notin {"count", "countset", "release"}
      BY <1>0, <2>4 DEF ServeInv, FinishInv
    <3>9. ex'.SerializeLock = 1 /\ mtrr[a]
      BY <1>0, <2>4, <3>3 DEF ServeInv, FinishInv
    <3> QED BY <1>0, <1>1, <1>4, <3>1, <3>3, <3>4, <3>5, <3>7, <3>8, <3>9
               DEF ServeInv, FinishInv, Late, Parking
  <2> QED BY <1>0, <2>1, <2>2, <2>3, <2>4 DEF Move
<1> QED BY <1>1, <1>3, <1>5 DEF ServeInv

\* The end of MPRendezvousProcedure and the way to HLT, before and after the BSP
\* has gone on.
LEMMA ParkServes ==
    ASSUME RelInv, ServeInv, NEW a \in APs,
           (MPRendezvousProcedure(a) /\ pc[a] = "release") \/ Halt(a)
    PROVE  ServeInv'
<1>0. /\ ApUnchanged /\ UNCHANGED <<eax, esp, mtrr>>
      /\ \E here \in {"release", "tail", "loop"}, there \in {"tail", "hlt"} : Move(a, here, there)
      /\ \/ ex' = ex /\ pc[a] \in {"tail", "loop"}
         \/ ex' = [ex EXCEPT !.SerializeLock = 0] /\ pc[a] = "release"
  BY DEF MPRendezvousProcedure, Halt, Move, peiVars
<1>1. /\ PlaceInv' /\ pc'[Bsp] = pc[Bsp] /\ pc[Bsp] # "wake"
      /\ \A b \in APs \ {a} : pc'[b] = pc[b]
      /\ pc[a] \in Late /\ pc'[a] \in Parking
  <2>1. PICK here \in {"release", "tail", "loop"}, there \in {"tail", "hlt"} : Move(a, here, there)
    BY <1>0
  <2>2. /\ here \in Funnel \cup Parking /\ there \in Parking /\ here \in Late /\ there \in Late
        /\ pc[Bsp] # "wake"
    BY <2>1 DEF Funnel, Late, Parking, Move, ServeInv, PlaceInv
  <2> QED BY <1>0, <2>1, <2>2, FunnelPlaces
<1>2. /\ ex'.StackStart = ex.StackStart /\ ex'.Lock = ex.Lock /\ Stacked' = Stacked
      /\ ex'.FinishedCount = ex.FinishedCount /\ Counted' = Counted
      /\ pc[a] # "release" => ex'.SerializeLock = ex.SerializeLock
  BY <1>0, <1>1 DEF ServeInv, ServeType, Stacked, Counted, Late
<1>3. ServeType'
  BY <1>0 DEF ServeInv, ServeType, ApUnchanged
<1>4. StackInv'
  BY <1>0, <1>1, <1>2 DEF ServeInv, StackInv, Early, Parking, Late
<1>5. FinishInv'
  BY <1>0, <1>1, <1>2 DEF ServeInv, FinishInv, Parking, Late, ApUnchanged
<1> QED BY <1>1, <1>3, <1>4, <1>5 DEF ServeInv

\* A reset takes every stack back.
LEMMA SuspendServes ==
    ASSUME RelInv, ServeInv, Suspend
    PROVE  ServeInv'
<1>1. /\ pc'[Bsp] = "wake"
      /\ \A a \in APs : pc'[a] = "sipi" /\ ~ InSmm(a)' /\ esp'[a] = 0 /\ target'[a] = None
      /\ UNCHANGED <<eax, ex, mSmmRelocationOriginalAddress>>
  BY ApCount DEF Suspend, ResetCpus, InSmm, APs
<1>2. ServeType'
  <2>1. resumes' \in 0 .. MaxResumes
    BY RelocationAssumption DEF Suspend, ServeInv, ServeType
  <2>2. /\ esp' \in [Cpus -> 0 .. NumberOfCpus] /\ mtrr' \in [Cpus -> BOOLEAN]
        /\ from' \in [Cpus -> Addresses]
    BY ApCount DEF Suspend, ResetCpus, Addresses
  <2> QED BY <1>1, <2>1, <2>2 DEF ServeInv, ServeType
<1>3. PlaceInv'
  BY <1>1 DEF ServeInv, PlaceInv, Semaphore
<1>4. StackInv' /\ FinishInv'
  BY <1>1 DEF StackInv, FinishInv
<1> QED BY <1>2, <1>3, <1>4 DEF ServeInv

\* Before the first boot the APs are parked and the exchange area is unused.
LEMMA InitServeInv == Init => ServeInv
<1> SUFFICES ASSUME Init PROVE ServeInv
  OBVIOUS
<1>1. pc[Bsp] = "enter" /\ \A a \in APs : pc[a] = "tail" /\ ~ InSmm(a) /\ esp[a] = 0
  BY ApCount DEF Init, InSmm, APs
<1>2. ServeType
  BY RelocationAssumption, ApCount DEF Init, ServeType, Addresses
<1>3. PlaceInv
  BY <1>1 DEF Init, PlaceInv, Late, Parking, Semaphore, APs
<1>4. Stacked = {} /\ Cardinality({}) = 0
  BY <1>1, FS_EmptySet DEF Stacked
<1>5. StackInv
  <2>1. ex.StackStart = 0
    BY DEF Init
  <2>2. ex.StackStart = Cardinality(Stacked)
    BY <1>4, <2>1
  <2> QED
    BY <1>1, <2>1, <2>2 DEF StackInv
<1>6. FinishInv
  BY <1>1 DEF Init, FinishInv
<1> QED BY <1>2, <1>3, <1>5, <1>6 DEF ServeInv

\* One step for each action of the processors.
LEMMA StepServeInv == RelInv /\ ServeInv /\ [Next]_vars => ServeInv'
<1> SUFFICES ASSUME RelInv, ServeInv, [Next]_vars PROVE ServeInv'
  OBVIOUS
<1>1. CASE BspStep
  BY <1>1, WakeServes, FinishedServes, LoopServes DEF BspStep
<1>2. ASSUME NEW a \in APs, ApStep(a) PROVE ServeInv'
  BY <1>2, StackServes, CountServes, ParkServes, SemaphoreServes DEF ApStep
<1>3. ASSUME NEW c \in Cpus, SmmStep(c) PROVE ServeInv'
  BY <1>3, SmiServes
<1>4. CASE UNCHANGED vars
  <2>1. ServeType' /\ PlaceInv'
    BY <1>4 DEF vars, cpuVars, peiVars, loopVars, smmVars, ServeInv, ServeType, PlaceInv, InSmm
  <2>2. StackInv' /\ FinishInv'
    BY <1>4 DEF vars, cpuVars, peiVars, ServeInv, StackInv, FinishInv, Stacked, Counted
  <2> QED BY <2>1, <2>2 DEF ServeInv
<1> QED BY <1>1, <1>2, <1>3, <1>4, SuspendServes DEF Next

\* The invariant of the funnel holds for every number of processors.
LEMMA ServeInvHolds == Spec => []ServeInv
BY InitServeInv, StepServeInv, RelInvHolds, PTL DEF Spec

\* Registers, exchange area and save state keep their types: StackStart and
\* FinishedCount stay within the number of processors over any number of resumes,
\* and no AP leaves SmmRelocationSemaphoreComplete for an address never written.
THEOREM RelocationTypes == Spec => []TypeOK
<1>1. RelInv /\ ServeInv => TypeOK
  <2> SUFFICES ASSUME RelInv, ServeInv PROVE TypeOK
    OBVIOUS
  <2>1. \A c \in Cpus : pc[c] \in Places
    <3>1. pc[Bsp] \in Places
      BY DEF RelInv, BspInv, Places
    <3>2. \A a \in APs : pc[a] \in Places
      BY DEF ServeInv, PlaceInv, Late, Places, Funnel, Parking, Semaphore
    <3> QED BY <3>1, <3>2 DEF APs
  <2>2. mem \in Contents /\ bak \in Contents
    BY DEF RelInv, RelType, MemType, SaveType, Addresses, Contents
  <2> QED BY <2>1, <2>2 DEF TypeOK, RelInv, RelType, ServeInv, ServeType, Addresses
<1> QED BY <1>1, RelInvHolds, ServeInvHolds, PTL

\* The S3 funnel gives every AP a stack of its own among those WakeUpAPs provides,
\* and the BSP does not go on before every AP has copied the MTRRs.
THEOREM FunnelServesAllHolds == Spec => []FunnelServesAll
<1>1. ServeInv => FunnelServesAll
  <2> SUFFICES ASSUME ServeInv PROVE FunnelServesAll
    OBVIOUS
  <2>1. pc[Bsp] # "wake" => ex.StackStart \in 0 .. NumberOfCpus - 1
    <3>1. Stacked \in SUBSET APs
      BY DEF Stacked
    <3> QED BY <3>1, ApCount DEF ServeInv, StackInv
  <2>2. \A a \in APs : esp[a] \in Nat /\ esp[a] < NumberOfCpus
    BY <2>1, ApCount DEF ServeInv, ServeType, StackInv
  <2>3. \A a, b \in APs : esp[a] = esp[b] /\ esp[a] # 0 => a = b
    BY DEF ServeInv, StackInv
  <2> QED BY <2>2, <2>3 DEF ServeInv, FinishInv, FunnelServesAll
<1> QED BY <1>1, ServeInvHolds, PTL
=============================================================================
