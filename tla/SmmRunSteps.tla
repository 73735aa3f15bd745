---------------------------- MODULE SmmRunSteps ----------------------------
(***************************************************************************)
(* The inductive invariant of one run through SMM, from the moment a        *)
(* processor checks in until the BSP reopens Counter (MpService.c), and     *)
(* that every step of the machine keeps it.                                 *)
(*                                                                         *)
(* The semaphores of a run carry numbers, not names: the BSP waits for as   *)
(* many signals on its Run as there are APs.  The heart of the invariant is *)
(* therefore an account.  In each stage of the run an AP either still owes  *)
(* the BSP a signal or has sent it, and                                     *)
(*                                                                         *)
(*   signals the BSP expects                                                *)
(*     = signals waiting in its Run + APs that owe one.                     *)
(*                                                                         *)
(* It holds as long as an AP that gives up does so in one step with its     *)
(* last look at InsideSmm (~GiveUpRace).                                    *)
(*                                                                         *)
(* There is a lemma for each way a processor moves through SmiRendezvous,   *)
(* APHandler and BSPHandler, stated on what the step does to the state of   *)
(* the run, and then a lemma for each of the three routines that finds the  *)
(* step of every action.  In a step lemma <1>m says which sets of labels    *)
(* the processor stays in, avoids, enters or quits; the steps after it take *)
(* the parts of RunInv in turn.                                             *)
(***************************************************************************)
EXTENDS SmmRendezvousProofs, FiniteSetTheorems

-----------------------------------------------------------------------------
(***************************************************************************)
(* Where a processor is in the run.                                         *)
(***************************************************************************)

\* It has its share of Counter.
CountedLabels == JoiningLabels \cup ApLabels \cup BspLabels

\* The BSP is in SmmWaitForApArrival; sees InsideSmm set; runs an MTRR phase.
ArrivalLabels == {"b_arrive1", "b_missing", "b_ipi", "b_arrive2"}
InsideLabels == BspLabels \ ({"b_inside"} \cup BspExitLabels \cup BspResetLabels)
MtrrLabels == {"b_rel_backup", "b_backup", "b_wait_backup", "b_rel_program",
               "b_program", "b_wait_program", "b_rel_restore", "b_restore",
               "b_wait_restore"}

\* How many processors are at one of these labels.
Number(p, labels) == Cardinality({c \in Cpu : p[c] \in labels})

\* The AP owes the BSP its signal of a stage.
DueArrive == JoiningLabels \cup {"ap_present", "ap_arrive"}
DueServe == DueArrive \cup {"ap_work", "ap_check", "ap_procedure", "ap_release"}
DueExit == {"ap_work", "ap_check", "ap_procedure", "ap_release"}
           \cup IF NeedConfigureMtrrs THEN {"ap_rdy_restore"} ELSE {"ap_ready"}
DueBackup == {"ap_wait_backup", "ap_backup"}
DueProgram == {"ap_wait_program", "ap_program"}
DueRestore == {"ap_wait_restore", "ap_ready"}
DueReset == {"ap_wait_reset", "ap_absent", "ap_bye"}

\* The AP has sent it.
PaidBackup == {"ap_wait_program"}
PaidProgram == {"ap_work"}
PaidRestore == {"ap_wait_reset"}
PaidArrive == IF NeedConfigureMtrrs THEN {"ap_wait_backup"} ELSE {"ap_work"}
PaidExit == IF NeedConfigureMtrrs THEN {"ap_wait_restore"} ELSE {"ap_wait_reset"}

\* The stages of a run, by where its BSP is.  The arrival loop belongs to
\* the handlers when CheckApArrival runs it.
Arriving(b) == /\ Gathers(b) /\ ~inWorker[b]
               /\ In(b, {"b_inside", "b_present", "b_clear", "b_sync", "b_lock",
                         "b_wait_arrive"} \cup ArrivalLabels)
BackingUp(b) == In(b, {"b_rel_backup", "b_backup", "b_wait_backup"})
Programming(b) == In(b, {"b_rel_program", "b_program", "b_wait_program"})
Serving(b) == \/ In(b, BspCoreLabels \cup {"b_busy", "b_drain", "b_count", "b_outside"})
              \/ inWorker[b]
              \/ /\ ~Gathers(b)
                 /\ In(b, {"b_inside", "b_present", "b_clear", "b_sync", "b_lock"})
Exiting(b) == In(b, {"b_rel_exit", "b_wait_exit"})
Restoring(b) == \/ In(b, {"b_rel_restore", "b_restore", "b_wait_restore"})
                \/ In(b, {"b_mode"}) /\ NeedConfigureMtrrs
Resetting(b) == \/ In(b, {"b_rel_reset", "b_update", "b_absent", "b_wait_reset"})
                \/ In(b, {"b_mode"}) /\ ~NeedConfigureMtrrs
Leaving(b) == In(b, {"b_nobsp", "b_open"})

\* Its BSP has locked Counter; and no processor is left that may still join.
LockedBsp(b) ==
  \/ In(b, {"b_wait_arrive", "b_count", "b_outside"}
           \cup MtrrLabels \cup BspExitLabels \cup BspResetLabels)
  \/ Gathers(b) /\ (In(b, BspCoreLabels \cup {"b_busy", "b_drain"}) \/ inWorker[b])
Closed(b) == \/ LockedBsp(b) /\ Gathers(b) /\ ~In(b, {"b_wait_arrive"})
             \/ In(b, {"b_outside"} \cup BspExitLabels \cup BspResetLabels)

-----------------------------------------------------------------------------
(***************************************************************************)
(* The account of the BSP.                                                  *)
(***************************************************************************)

\* The signals it waits for, or will wait for when it gets to WaitForAllAPs.
Expected(b) == IF In(b, WaitLabels) THEN left[b]
               ELSE IF LockedBsp(b) THEN apCount[b] ELSE counter - 1

\* Every AP of the run is one that owes a signal or has sent it.
Account(b, due, paid) ==
  /\ \A c \in Cpu \ {b} : In(c, CountedLabels) => In(c, due) \/ In(c, paid)
  /\ Expected(b) = run[b] + Number(pc, due)

\* The account balances in each stage; in the end the BSP is alone.
ArriveInv  == \A b \in Cpu : Arriving(b) => Account(b, DueArrive, PaidArrive)
BackupInv  == \A b \in Cpu : BackingUp(b) => Account(b, DueBackup, PaidBackup)
ProgramInv == \A b \in Cpu : Programming(b) => Account(b, DueProgram, PaidProgram)
ServeInv   == \A b \in Cpu : Serving(b) => Account(b, DueServe, {})
ExitInv    == \A b \in Cpu : Exiting(b) => Account(b, DueExit, PaidExit)
RestoreInv == \A b \in Cpu : Restoring(b) => Account(b, DueRestore, PaidRestore)
ResetInv   == \A b \in Cpu : Resetting(b) => Account(b, DueReset, {})
LeaveInv   == \A b \in Cpu : Leaving(b) =>
                run[b] = 0 /\ \A c \in Cpu \ {b} : ~In(c, CountedLabels)

-----------------------------------------------------------------------------
(***************************************************************************)
(* What the shared memory says about the processors.                        *)
(***************************************************************************)

\* Which stages a sync mode and an MTRR configuration have.
StageInv == \A c \in Cpu :
  /\ inWorker[c] => In(c, ArrivalLabels)
  /\ In(c, ArrivalLabels) => Gathers(c) \/ inWorker[c]
  /\ In(c, {"b_wait_arrive", "ap_arrive"}) => Gathers(c)
  /\ In(c, {"b_count"}) => ~Gathers(c)
  /\ In(c, MtrrLabels) => NeedConfigureMtrrs
  /\ ~In(c, {"ap_giveup"})

\* InsideSmm is set exactly while the processor BspIndex names is inside.
InsideInv ==
  /\ \A b \in Cpu : In(b, InsideLabels) => insideSmm
  /\ insideSmm => bspIndex \in Cpu /\ In(bspIndex, InsideLabels)

\* The copy of BspIndex an AP signals through names the BSP of its run.
PointerInv == \A c \in Cpu :
  In(c, ApLabels) => bsp[c] \in Cpu /\ In(bsp[c], BspLabels \ {"b_inside"})

\* Counter is locked while a BSP has locked it, and counts otherwise; ApCount
\* is what it counted, while the APs of the run stay in it.
LockInv ==
  /\ counter >= Locked
  /\ \A b \in Cpu : LockedBsp(b) => counter = Locked
  /\ counter = Locked => \E b \in Cpu : LockedBsp(b)
CounterInv == counter # Locked => counter = Number(pc, CountedLabels)
CountInv == \A b \in Cpu :
  LockedBsp(b) /\ ~In(b, BspResetLabels) => apCount[b] = Number(pc, CountedLabels) - 1

\* Nobody is on its way into a run that is closed.
NoJoiners == \A b, c \in Cpu : Closed(b) => ~In(c, DueArrive)

\* Who has read EffectiveSyncMode read what it is until the BSP writes it.
ModeKnownLabels == CountedLabels \ {"initbusy", "elect", "cas", "role", "ap_mode"}
PastMode == {"b_rel_restore", "b_restore", "b_wait_restore"} \cup BspResetLabels
ModeInv ==
  (\A b \in Cpu : ~In(b, PastMode)) =>
       \A c \in Cpu : In(c, ModeKnownLabels) => syncMode[c] = effectiveSyncMode

\* Present is set exactly on the processors between the two writes of it.
PresentLabels ==
  (ApLabels \ {"ap_present", "ap_bye"}) \cup
  (BspLabels \ {"b_inside", "b_present", "b_wait_reset", "b_nobsp", "b_open"})
PresentInv == \A c \in Cpu : present[c] <=> In(c, PresentLabels)

-----------------------------------------------------------------------------
(***************************************************************************)
(* The semaphores the APs wait on, and the tasks they are given.            *)
(***************************************************************************)

\* ReleaseAllAPs is in its loop, which has come down to index[b]; or is done.
RelLabels == {"b_rel_backup", "b_rel_program", "b_rel_exit", "b_rel_restore",
              "b_rel_reset"}
ReleasedLabels == {"b_backup", "b_wait_backup", "b_program", "b_wait_program",
                   "b_wait_exit", "b_restore", "b_wait_restore", "b_update",
                   "b_absent", "b_wait_reset"}
Woken(b, c) == In(b, ReleasedLabels) \/ (In(b, RelLabels) /\ c >= index[b])

\* The AP waits to be released in this stage; or has been.
Waits(b, c) == \/ BackingUp(b) /\ In(c, {"ap_wait_backup"})
               \/ Programming(b) /\ In(c, {"ap_wait_program"})
               \/ Exiting(b) /\ In(c, {"ap_work"})
               \/ Restoring(b) /\ In(c, {"ap_wait_restore"})
               \/ Resetting(b) /\ In(c, {"ap_wait_reset"})
Past(b, c) == \/ BackingUp(b) /\ In(c, {"ap_backup", "ap_wait_program"})
              \/ Programming(b) /\ In(c, {"ap_program", "ap_work"})
              \/ Exiting(b) /\ In(c, {"ap_check", "ap_rdy_restore", "ap_ready"} \cup PaidExit)
              \/ Restoring(b) /\ In(c, {"ap_ready", "ap_wait_reset"})
              \/ Resetting(b) /\ In(c, {"ap_absent", "ap_bye"})

\* SmmStartupThisAp has acquired c's Busy and not yet released its Run.
Starting(b, c) == In(b, {"b_start", "b_start_block"}) /\ index[b] = c
Signalled(b, c) == \/ Woken(b, c) /\ Waits(b, c)
                   \/ In(c, {"ap_work"}) /\ busy[c] /\ ~Starting(b, c)

\* No signal waits for a processor that takes no part in a run, and an AP has
\* one exactly when it was released and has not noticed.
IdleInv ==
  /\ run \in [Cpu -> Nat]
  /\ \A c \in Cpu : ~In(c, ApLabels \cup BspLabels) => run[c] = 0
TokenInv == \A b, c \in Cpu : In(b, BspLabels) /\ In(c, ApLabels) =>
       /\ run[c] = IF Signalled(b, c) THEN 1 ELSE 0
       /\ Past(b, c) => Woken(b, c)

\* An AP's Busy is held only while it has a task, and only while the BSP runs
\* the handlers or has not come to the AP in draining the tasks.
BusyInv ==
  /\ \A c \in Cpu : In(c, JoiningLabels \ {"initbusy"}) => ~busy[c]
  /\ \A c \in Cpu : In(c, ApLabels) /\ busy[c] =>
       In(c, {"ap_work", "ap_check", "ap_procedure", "ap_release"})
  /\ \A c \in Cpu : In(c, {"ap_procedure", "ap_release"}) => busy[c]
TaskInv ==
  /\ \A b, c \in Cpu : In(b, BspLabels) /\ In(c, ApLabels) =>
       /\ In(c, {"ap_check"}) => busy[c] \/ Exiting(b)
       /\ busy[c] => \/ In(b, BspCoreLabels) \/ inWorker[b]
                     \/ In(b, {"b_drain"}) /\ c < index[b]
  /\ \A b, c \in Cpu : Starting(b, c) => In(c, {"ap_work"}) /\ busy[c]
  /\ \A b \in Cpu : In(b, {"b_start", "b_start_block", "b_block"}) =>
       index[b] \in Cpu \ {b}

\* The inductive invariant.
RunInv ==
  /\ ArriveInv /\ BackupInv /\ ProgramInv /\ ServeInv
  /\ ExitInv /\ RestoreInv /\ ResetInv /\ LeaveInv
  /\ StageInv /\ InsideInv /\ PointerInv /\ LockInv /\ CounterInv /\ CountInv
  /\ NoJoiners /\ ModeInv /\ ModesAgree /\ PresentInv
  /\ IdleInv /\ TokenInv /\ BusyInv /\ TaskInv

\* No processor but m moves; m is in both, none, or one of the two sets of
\* labels it comes from and goes to.
OnlyMoves(m) == pc \in [Cpu -> Labels] /\ \A c \in Cpu \ {m} : pc'[c] = pc[c]
Stays(m, D)   == pc[m] \in D /\ pc'[m] \in D
Avoids(m, D)  == pc[m] \notin D /\ pc'[m] \notin D
Enters(m, D)  == pc[m] \notin D /\ pc'[m] \in D
Quits(m, D)   == pc[m] \in D /\ pc'[m] \notin D
-----------------------------------------------------------------------------
(* Counting. *)

\* There are finitely many processors.
LEMMA CpuIsFinite == IsFiniteSet(Cpu)
BY CpuAssumption, FS_Interval DEF Cpu

\* A number of processors is a natural number.
LEMMA NumberIsNat ==
  ASSUME NEW p, NEW D
  PROVE  Number(p, D) \in Nat
<1> DEFINE S == {c \in Cpu : p[c] \in D}
<1>1. IsFiniteSet(Cpu)
  BY CpuIsFinite
<1>2. S \subseteq Cpu
  OBVIOUS
<1> QED
  BY <1>1, <1>2, FS_Subset, FS_CardinalityType DEF Number

\* A number of processors does not change when the one that moves stays in
\* the set of labels, or out of it.
LEMMA NumberStays ==
  ASSUME NEW m \in Cpu, NEW D, OnlyMoves(m), pc'[m] \in D <=> pc[m] \in D
  PROVE  Number(pc', D) = Number(pc, D)
BY DEF OnlyMoves, Number

\* It grows by one when the processor that moves enters the set of labels.
LEMMA NumberGrows ==
  ASSUME NEW m \in Cpu, NEW D, OnlyMoves(m), pc'[m] \in D, pc[m] \notin D
  PROVE  Number(pc', D) = Number(pc, D) + 1
<1> DEFINE S == {c \in Cpu : pc[c] \in D}
<1>1. IsFiniteSet(Cpu)
  BY CpuIsFinite
<1>2. S \subseteq Cpu /\ m \notin S
  OBVIOUS
<1>3. IsFiniteSet(S)
  BY <1>1, <1>2, FS_Subset
<1>4. {c \in Cpu : pc'[c] \in D} = S \cup {m}
  BY DEF OnlyMoves
<1>5. Cardinality(S \cup {m}) = Cardinality(S) + 1
  BY <1>2, <1>3, FS_AddElement
<1> QED
  BY <1>4, <1>5 DEF Number

\* It shrinks by one when the processor that moves quits the set of labels.
LEMMA NumberShrinks ==
  ASSUME NEW m \in Cpu, NEW D, OnlyMoves(m), pc'[m] \notin D, pc[m] \in D
  PROVE  Number(pc', D) = Number(pc, D) - 1
<1> DEFINE S == {c \in Cpu : pc[c] \in D}
<1>1. IsFiniteSet(Cpu)
  BY CpuIsFinite
<1>2. S \subseteq Cpu /\ m \in S
  OBVIOUS
<1>3. IsFiniteSet(S)
  BY <1>1, <1>2, FS_Subset
<1>4. {c \in Cpu : pc'[c] \in D} = S \ {m}
  BY DEF OnlyMoves
<1>5. Cardinality(S \ {m}) = Cardinality(S) - 1
  BY <1>2, <1>3, FS_RemoveElement
<1> QED
  BY <1>4, <1>5 DEF Number

\* It is zero when nobody is at one of the labels.
LEMMA NumberOfNone ==
  ASSUME NEW D, NEW p
  PROVE  Number(p, D) = 0 <=> \A c \in Cpu : p[c] \notin D
<1> DEFINE S == {c \in Cpu : p[c] \in D}
<1>1. IsFiniteSet(Cpu)
  BY CpuIsFinite
<1>2. S \subseteq Cpu
  OBVIOUS
<1>3. IsFiniteSet(S)
  BY <1>1, <1>2, FS_Subset
<1>4. Cardinality(S) = 0 <=> S = {}
  BY <1>3, FS_EmptySet
<1> QED
  BY <1>4 DEF Number

\* A set of labels that leaves out one processor, and no other, of another
\* set has one processor fewer.
LEMMA NumberOfOthers ==
  ASSUME NEW p, NEW b \in Cpu, NEW D, NEW E,
         p[b] \in E, p[b] \notin D, \A c \in Cpu \ {b} : p[c] \in E <=> p[c] \in D
  PROVE  Number(p, D) = Number(p, E) - 1
<1> DEFINE S == {c \in Cpu : p[c] \in E}
<1>1. IsFiniteSet(Cpu)
  BY CpuIsFinite
<1>2. S \subseteq Cpu /\ b \in S
  OBVIOUS
<1>3. IsFiniteSet(S)
  BY <1>1, <1>2, FS_Subset
<1>4. {c \in Cpu : p[c] \in D} = S \ {b}
  OBVIOUS
<1>5. Cardinality(S \ {b}) = Cardinality(S) - 1
  BY <1>2, <1>3, FS_RemoveElement
<1> QED
  BY <1>4, <1>5 DEF Number

\* One processor at most runs BSPHandler, up to and including the step that
\* reopens Counter.
LEMMA OnlyOneBsp ==
  ASSUME OneBsp, LeaveInv, NEW b \in Cpu, NEW c \in Cpu, In(b, BspLabels), In(c, BspLabels)
  PROVE  b = c
BY DEF OneBsp, LeaveInv, Leaving, ActingLabels, In, CountedLabels

-----------------------------------------------------------------------------
(* What a step of another processor leaves alone. *)

\* The stack of processor b is what it was.
SameStack(b) ==
  /\ pc'[b] = pc[b] /\ syncMode'[b] = syncMode[b] /\ inWorker'[b] = inWorker[b]
  /\ index'[b] = index[b] /\ apCount'[b] = apCount[b] /\ left'[b] = left[b]

\* A step of a processor that is not the BSP and does not become it.
Aside(m) == OnlyMoves(m) /\ pc[m] \notin BspLabels /\ pc'[m] \notin BspLabels
            /\ \A b \in Cpu \ {m} : SameStack(b)

\* The stage of a run is a function of the BSP's stack.
LEMMA StagesStay ==
  ASSUME NEW b \in Cpu, SameStack(b)
  PROVE  /\ Arriving(b)' <=> Arriving(b)
         /\ BackingUp(b)' <=> BackingUp(b)
         /\ Programming(b)' <=> Programming(b)
         /\ Serving(b)' <=> Serving(b)
         /\ Exiting(b)' <=> Exiting(b)
         /\ Restoring(b)' <=> Restoring(b)
         /\ Resetting(b)' <=> Resetting(b)
         /\ Leaving(b)' <=> Leaving(b)
         /\ LockedBsp(b)' <=> LockedBsp(b)
         /\ Closed(b)' <=> Closed(b)
         /\ Gathers(b)' <=> Gathers(b)
BY DEF SameStack, Arriving, BackingUp, Programming, Serving, Exiting, Restoring, Resetting,
       Leaving, LockedBsp, Closed, Gathers, In

\* Only a processor in BSPHandler is in a stage of a run.
LEMMA StagesAreBsp ==
  ASSUME StageInv, NEW b \in Cpu,
    Arriving(b) \/ BackingUp(b) \/ Programming(b) \/ Serving(b) \/ Exiting(b) \/ Restoring(b)
    \/ Resetting(b) \/ Leaving(b) \/ LockedBsp(b) \/ Closed(b)
  PROVE  In(b, BspLabels)
BY DEF Arriving, BackingUp, Programming, Serving, Exiting, Restoring, Resetting,
       Leaving, LockedBsp, Closed, In, StageInv, ArrivalLabels, MtrrLabels, BspLabels,
       BspGatherLabels, BspCoreLabels,
       BspExitLabels, BspResetLabels

\* A processor that steps aside of the BSP is in no stage.
LEMMA StagesOfAside ==
  ASSUME NEW m \in Cpu, StageInv, StageInv', Aside(m)
  PROVE  /\ ~Arriving(m)' /\ ~BackingUp(m)' /\ ~Programming(m)' /\ ~Serving(m)' /\ ~Exiting(m)'
         /\ ~Restoring(m)' /\ ~Resetting(m)' /\ ~Leaving(m)' /\ ~LockedBsp(m)' /\ ~Closed(m)'
         /\ ~Arriving(m) /\ ~BackingUp(m) /\ ~Programming(m) /\ ~Serving(m) /\ ~Exiting(m)
         /\ ~Restoring(m) /\ ~Resetting(m) /\ ~Leaving(m) /\ ~LockedBsp(m) /\ ~Closed(m)
BY DEF Aside, Arriving, BackingUp, Programming, Serving, Exiting, Restoring, Resetting,
       Leaving, LockedBsp, Closed, In, StageInv, ArrivalLabels, MtrrLabels, BspLabels,
       BspGatherLabels, BspCoreLabels,
       BspExitLabels, BspResetLabels

\* Nothing is signalled and nobody's debt changes.
LEMMA AccountStays ==
  ASSUME NEW b \in Cpu, NEW m \in Cpu \ {b}, NEW D, NEW P, Account(b, D, P), Aside(m),
         counter' = counter, run'[b] = run[b],
         pc'[m] \in D <=> pc[m] \in D, pc'[m] \in CountedLabels => pc'[m] \in D \/ pc'[m] \in P
  PROVE  Account(b, D, P)'
<1>1. Expected(b)' = Expected(b)
  BY StagesStay DEF Expected, Aside, In, SameStack
<1>2. Number(pc', D) = Number(pc, D)
  BY NumberStays DEF Aside
<1>3. \A c \in Cpu \ {b} : pc'[c] \in CountedLabels => pc'[c] \in D \/ pc'[c] \in P
  BY DEF Account, Aside, OnlyMoves, In
<1> QED
  BY <1>1, <1>2, <1>3 DEF Account, In

\* An AP that owes a signal signals.
LEMMA AccountPaid ==
  ASSUME NEW b \in Cpu, NEW m \in Cpu \ {b}, NEW D, NEW P, Account(b, D, P), Aside(m),
         counter' = counter, run[b] \in Nat, run'[b] = run[b] + 1,
         pc[m] \in D, pc'[m] \notin D, pc'[m] \in CountedLabels => pc'[m] \in P
  PROVE  Account(b, D, P)'
<1>1. Expected(b)' = Expected(b)
  BY StagesStay DEF Expected, Aside, In, SameStack
<1>2. Number(pc', D) = Number(pc, D) - 1
  BY NumberShrinks DEF Aside
<1>3. \A c \in Cpu \ {b} : pc'[c] \in CountedLabels => pc'[c] \in D \/ pc'[c] \in P
  BY DEF Account, Aside, OnlyMoves, In
<1> QED
  BY <1>1, <1>2, <1>3, NumberIsNat DEF Account, In

\* A processor checks in.
LEMMA AccountJoins ==
  ASSUME NEW b \in Cpu, NEW m \in Cpu \ {b}, NEW D, NEW P, Account(b, D, P), Aside(m),
         ~LockedBsp(b), ~In(b, WaitLabels), counter \in Int, counter' = counter + 1,
         run[b] \in Nat, run'[b] = run[b], pc[m] \notin D, pc'[m] \in D
  PROVE  Account(b, D, P)'
<1>1. Expected(b)' = Expected(b) + 1
  BY StagesStay DEF Expected, Aside, In, SameStack
<1>2. Number(pc', D) = Number(pc, D) + 1
  BY NumberGrows DEF Aside
<1>3. \A c \in Cpu \ {b} : pc'[c] \in CountedLabels => pc'[c] \in D \/ pc'[c] \in P
  BY DEF Account, Aside, OnlyMoves, In
<1> QED
  BY <1>1, <1>2, <1>3, NumberIsNat DEF Account, In

\* A processor gives up.
LEMMA AccountLeaves ==
  ASSUME NEW b \in Cpu, NEW m \in Cpu \ {b}, NEW D, NEW P, Account(b, D, P), Aside(m),
         ~LockedBsp(b), ~In(b, WaitLabels), counter \in Int, counter' = counter - 1,
         run[b] \in Nat, run'[b] = run[b], pc[m] \in D, pc'[m] \notin CountedLabels,
         pc'[m] \notin D
  PROVE  Account(b, D, P)'
<1>1. Expected(b)' = Expected(b) - 1
  BY StagesStay DEF Expected, Aside, In, SameStack
<1>2. Number(pc', D) = Number(pc, D) - 1
  BY NumberShrinks DEF Aside
<1>3. \A c \in Cpu \ {b} : pc'[c] \in CountedLabels => pc'[c] \in D \/ pc'[c] \in P
  BY DEF Account, Aside, OnlyMoves, In
<1> QED
  BY <1>1, <1>2, <1>3, NumberIsNat DEF Account, In

\* An AP of the run owes the signal or has sent it.
LEMMA AccountMember ==
  ASSUME NEW b \in Cpu, NEW c \in Cpu \ {b}, NEW D, NEW P, Account(b, D, P),
         pc[c] \in CountedLabels
  PROVE  pc[c] \in D \/ pc[c] \in P
BY DEF Account, In

\* In every stage after the arrival Counter is locked, except while relaxed
\* handlers run.
LEMMA StagesLocked ==
  ASSUME NEW b \in Cpu, BackingUp(b) \/ Programming(b) \/ Exiting(b) \/ Restoring(b)
    \/ Resetting(b) \/ Leaving(b) \/ Closed(b) \/ In(b, WaitLabels)
  PROVE  LockedBsp(b)
BY DEF BackingUp, Programming, Exiting, Restoring, Resetting,
       Leaving, LockedBsp, Closed, In, MtrrLabels, BspExitLabels, BspResetLabels, WaitLabels

\* Handlers that gather the APs first run in a closed run.
LEMMA ServingClosed ==
  ASSUME StageInv, NEW b \in Cpu, Serving(b), Gathers(b)
  PROVE  Closed(b)
BY DEF Serving, Closed, LockedBsp, StageInv, In, ArrivalLabels, BspCoreLabels

\* The BSP has read EffectiveSyncMode.
LEMMA BspModeKnown ==
  ASSUME NEW b \in Cpu, In(b, BspLabels)
  PROVE  In(b, ModeKnownLabels)
BY DEF In, ModeKnownLabels, CountedLabels, BspLabels, BspGatherLabels, BspCoreLabels,
       BspExitLabels, BspResetLabels

\* A processor in BSPHandler is in a stage of its run.
LEMMA EveryStage ==
  ASSUME StageInv, NEW b \in Cpu, In(b, BspLabels)
  PROVE  Arriving(b) \/ BackingUp(b) \/ Programming(b) \/ Serving(b) \/ Exiting(b)
            \/ Restoring(b)
         \/ Resetting(b) \/ Leaving(b)
BY DEF Arriving, BackingUp, Programming, Serving, Exiting, Restoring, Resetting,
       Leaving, In, StageInv, ArrivalLabels, MtrrLabels, BspLabels, BspGatherLabels,
       BspCoreLabels,
       BspExitLabels, BspResetLabels

\* The stages exclude each other.
LEMMA OneStage ==
  ASSUME StageInv, NEW b \in Cpu
  PROVE  /\ Arriving(b) => ~Serving(b)
         /\ BackingUp(b) => ~Arriving(b) /\ ~Serving(b)
         /\ Programming(b) => ~Arriving(b) /\ ~Serving(b) /\ ~BackingUp(b)
         /\ Exiting(b) => ~Arriving(b) /\ ~Serving(b) /\ ~BackingUp(b) /\ ~Programming(b)
         /\ Restoring(b) => ~Arriving(b) /\ ~Serving(b) /\ ~BackingUp(b) /\ ~Programming(b)
            /\ ~Exiting(b)
         /\ Resetting(b) => ~Arriving(b) /\ ~Serving(b) /\ ~BackingUp(b) /\ ~Programming(b)
            /\ ~Exiting(b)
                            /\ ~Restoring(b)
         /\ Leaving(b) => ~Arriving(b) /\ ~Serving(b) /\ ~BackingUp(b) /\ ~Programming(b)
            /\ ~Exiting(b)
                          /\ ~Restoring(b) /\ ~Resetting(b)
BY DEF Arriving, BackingUp, Programming, Serving, Exiting, Restoring, Resetting,
       Leaving, In, StageInv, ArrivalLabels, BspCoreLabels

\* The BSP that has an AP left in its run.
LEMMA BspOfAp ==
  ASSUME OneBsp, LeaveInv, PointerInv, NEW m \in Cpu, In(m, ApLabels)
  PROVE  /\ bsp[m] \in Cpu \ {m} /\ In(bsp[m], BspLabels)
         /\ \A b \in Cpu : In(b, BspLabels) => b = bsp[m]
BY OnlyOneBsp
   DEF PointerInv, In, BspLabels, BspGatherLabels, BspCoreLabels, BspExitLabels, BspResetLabels,
       ApLabels

-----------------------------------------------------------------------------
(* Steps of the BSP. *)

\* A step of the BSP.
Leads(m) == OnlyMoves(m) /\ pc[m] \in BspLabels
            /\ \A b \in Cpu \ {m} : SameStack(b)

\* When the BSP steps the others are in no stage.
LEMMA OthersAreNoBsp ==
  ASSUME OneBsp, LeaveInv, StageInv, NEW m \in Cpu, Leads(m), NEW b \in Cpu \ {m}
  PROVE  /\ ~In(b, BspLabels) /\ ~In(b, BspLabels)'
         /\ ~Arriving(b)' /\ ~BackingUp(b)' /\ ~Programming(b)' /\ ~Serving(b)' /\ ~Exiting(b)'
         /\ ~Restoring(b)' /\ ~Resetting(b)' /\ ~Leaving(b)' /\ ~LockedBsp(b)' /\ ~Closed(b)'
         /\ ~LockedBsp(b)
<1>1. ~In(b, BspLabels) /\ SameStack(b)
  BY OnlyOneBsp DEF Leads, In
<1>2. ~In(b, BspLabels)'
  BY <1>1 DEF SameStack, In
<1> QED
  BY <1>1, <1>2, StagesAreBsp, StagesStay

\* The BSP neither takes a signal nor turns to another stage.
LEMMA AccountKept ==
  ASSUME NEW m \in Cpu, NEW D, NEW P, Account(m, D, P), Leads(m),
         Expected(m)' = Expected(m), run'[m] = run[m], pc[m] \notin D, pc'[m] \notin D
  PROVE  Account(m, D, P)'
<1>1. Number(pc', D) = Number(pc, D)
  BY NumberStays DEF Leads
<1>2. \A c \in Cpu \ {m} : pc'[c] = pc[c]
  BY DEF Leads, OnlyMoves
<1> QED
  BY <1>1, <1>2 DEF Account, In

\* The BSP takes a signal.
LEMMA AccountReceived ==
  ASSUME NEW m \in Cpu, NEW D, NEW P, Account(m, D, P), Leads(m),
         Expected(m) \in Int, Expected(m)' = Expected(m) - 1, run[m] \in Nat,
         run'[m] = run[m] - 1,
         pc[m] \notin D, pc'[m] \notin D
  PROVE  Account(m, D, P)'
<1>1. Number(pc', D) = Number(pc, D)
  BY NumberStays DEF Leads
<1>2. \A c \in Cpu \ {m} : pc'[c] = pc[c]
  BY DEF Leads, OnlyMoves
<1> QED
  BY <1>1, <1>2, NumberIsNat DEF Account, In

\* Everybody is accounted for: no signal is outstanding and nobody owes one.
LEMMA AccountSettled ==
  ASSUME NEW m \in Cpu, NEW D, NEW P, Account(m, D, P), run[m] \in Nat, Expected(m) = 0
  PROVE  /\ run[m] = 0
         /\ \A c \in Cpu \ {m} : pc[c] \in CountedLabels => pc[c] \in P
<1>1. Number(pc, D) = 0 /\ run[m] = 0
  BY NumberIsNat DEF Account
<1>2. \A c \in Cpu : pc[c] \notin D
  BY <1>1, NumberOfNone
<1> QED
  BY <1>1, <1>2 DEF Account, In

\* The BSP turns to a stage in which everybody owes a signal.
LEMMA AccountTurned ==
  ASSUME NEW m \in Cpu, NEW D, NEW P, Leads(m), run'[m] = 0,
         pc'[m] \in CountedLabels, pc'[m] \notin D, D \subseteq CountedLabels,
         \A c \in Cpu \ {m} : pc[c] \in CountedLabels => pc[c] \in D,
         Expected(m)' = Number(pc, CountedLabels) - 1, pc[m] \in CountedLabels
  PROVE  Account(m, D, P)'
<1>1. \A c \in Cpu \ {m} : pc'[c] = pc[c]
  BY DEF Leads, OnlyMoves
<1>2. Number(pc', D) = Number(pc', CountedLabels) - 1
  BY <1>1, NumberOfOthers
<1>3. Number(pc', CountedLabels) = Number(pc, CountedLabels)
  BY NumberStays DEF Leads
<1> QED
  BY <1>1, <1>2, <1>3, NumberIsNat DEF Account, In

\* The processors are numbered from zero.
LEMMA CpuBound == \A c \in Cpu : c < NumberOfCpus /\ ~(c >= NumberOfCpus) /\ ~(c < 0) /\ c >= 0
BY CpuAssumption DEF Cpu

\* While the BSP releases the APs each of them waits for it or has been released.
LEMMA WaitsOrPast ==
  ASSUME RunInv, NEW m \in Cpu, In(m, RelLabels), NEW c \in Cpu \ {m}, In(c, ApLabels)
  PROVE  ~busy[c] /\ (Waits(m, c) \/ Past(m, c)) /\ (Waits(m, c) => present[c])
<1>1. ~busy[c] /\ (In(c, {"ap_check"}) => Exiting(m)) /\ ~In(c, {"ap_procedure", "ap_release"})
  <2>1. In(m, BspLabels) /\ ~In(m, BspCoreLabels) /\ ~inWorker[m] /\ ~In(m, {"b_drain"})
    BY DEF RunInv, StageInv, In, ArrivalLabels, RelLabels, BspCoreLabels, BspLabels,
           BspGatherLabels, BspExitLabels, BspResetLabels
  <2> QED
    BY <2>1 DEF RunInv, TaskInv, BusyInv
<1>2. BackingUp(m) \/ Programming(m) \/ Exiting(m) \/ Restoring(m) \/ Resetting(m)
  BY DEF In, RelLabels, BackingUp, Programming, Exiting, Restoring, Resetting
<1>3. pc[c] \in CountedLabels
  BY DEF In, CountedLabels
<1>4. Waits(m, c) \/ Past(m, c)
  <2>1. CASE BackingUp(m)
    <3>1. pc[c] \in DueBackup \/ pc[c] \in PaidBackup
      BY <2>1, <1>3, AccountMember DEF RunInv, BackupInv
    <3> QED
      BY <2>1, <3>1 DEF DueBackup, PaidBackup, Waits, Past, In
  <2>2. CASE Programming(m)
    <3>1. pc[c] \in DueProgram \/ pc[c] \in PaidProgram
      BY <2>2, <1>3, AccountMember DEF RunInv, ProgramInv
    <3> QED
      BY <2>2, <3>1 DEF DueProgram, PaidProgram, Waits, Past, In
  <2>3. CASE Exiting(m)
    <3>1. pc[c] \in DueExit \/ pc[c] \in PaidExit
      BY <2>3, <1>3, AccountMember DEF RunInv, ExitInv
    <3> QED
      BY <2>3, <3>1, <1>1 DEF DueExit, PaidExit, Waits, Past, In
  <2>4. CASE Restoring(m)
    <3>1. pc[c] \in DueRestore \/ pc[c] \in PaidRestore
      BY <2>4, <1>3, AccountMember DEF RunInv, RestoreInv
    <3> QED
      BY <2>4, <3>1 DEF DueRestore, PaidRestore, Waits, Past, In
  <2>5. CASE Resetting(m)
    <3>1. pc[c] \in DueReset \/ pc[c] \in {}
      BY <2>5, <1>3, AccountMember DEF RunInv, ResetInv
    <3> QED
      BY <2>5, <3>1 DEF DueReset, Waits, Past, In
  <2> QED
    BY <1>2, <2>1, <2>2, <2>3, <2>4, <2>5
<1>5. Waits(m, c) => In(c, PresentLabels)
  BY DEF Waits, In, PresentLabels, ApLabels
<1> QED
  BY <1>1, <1>4, <1>5 DEF RunInv, PresentInv

-----------------------------------------------------------------------------
(* Which processor a step moves. *)

\* Every action of a processor moves that processor and leaves the stacks of
\* the others alone.
LEMMA OneMoves ==
  ASSUME TypeOK, NEW c \in Cpu,
         EnterSmi(c) \/ SmiRendezvous(c) \/ APHandler(c) \/ BSPHandler(c) \/ SmiHandlers(c)
  PROVE  OnlyMoves(c) /\ \A b \in Cpu \ {c} : SameStack(b)
<1>1. CASE EnterSmi(c)
  <2>1. OnlyMoves(c)
    BY <1>1 DEF OnlyMoves, EnterSmi, Step, At, Goto, TypeOK, PcType
  <2> QED
    BY <1>1, <2>1
       DEF SameStack, OnlyMoves, EnterSmi, syncVars, electVars, modeVars, mtrrVars, platVars,
           dataVars, taskVars, hwVars, entryVars, bspVars, stackVars, memory, notSync, notStack,
           notData, TypeOK, StackType
<1>2. CASE SmiRendezvous(c)
  <2>1. OnlyMoves(c)
    BY <1>2
       DEF OnlyMoves, SmiRendezvous, SampleValidSmi, SampleBspInProgress, CheckIn,
           WaitForEndOfRun, LeaveSmm, InitializeBusy, Stand, ElectBsp, BecomeBsp, BecomeAp,
           ReadSyncMode, Step, At, Goto, TypeOK, PcType
  <2> QED
    BY <1>2, <2>1
       DEF SameStack, OnlyMoves, SmiRendezvous, SampleValidSmi, SampleBspInProgress, CheckIn,
           WaitForEndOfRun, LeaveSmm, InitializeBusy, Stand, ElectBsp, BecomeBsp, BecomeAp,
           ReadSyncMode, syncVars, electVars, modeVars, mtrrVars, platVars, dataVars, taskVars,
           hwVars, entryVars, bspVars, stackVars, memory, notSync, notStack, notData, TypeOK,
           StackType
<1>3. CASE APHandler(c)
  <2>1. OnlyMoves(c)
    BY <1>3
       DEF OnlyMoves, APHandler, ApMarkPresent, ApPresent, ApTimeout1, ApCallBsp, ApNobodyToCall,
           ApTimeout2, ApGiveUp, ApSignal, ApWait, ApBackupMtrrs, ApReplaceOSMtrrs, ApCheckExit,
           ApRunProcedure, ApReleaseBusy, ApReady, ApAbsent, DecideToGiveUp, GiveUp, Step, At,
           Goto, TypeOK, PcType
  <2> QED
    BY <1>3, <2>1
       DEF SameStack, OnlyMoves, APHandler, ApMarkPresent, ApPresent, ApTimeout1, ApCallBsp,
           ApNobodyToCall, ApTimeout2, ApGiveUp, ApSignal, ApWait, ApBackupMtrrs,
           ApReplaceOSMtrrs, ApCheckExit, ApRunProcedure, ApReleaseBusy, ApReady, ApAbsent,
           DecideToGiveUp, GiveUp, syncVars, electVars, modeVars, mtrrVars, platVars, dataVars,
           taskVars, hwVars, entryVars, bspVars, stackVars, memory, notSync, notStack, notData,
           TypeOK, StackType
<1>4. CASE BSPHandler(c)
  <2>1. OnlyMoves(c)
    BY <1>4
       DEF OnlyMoves, BSPHandler, BspFlagInside, BspPresent, BspClearSmiStatus, BspAllArrived,
           BspArrivalTimeout, BspLookForMissing, BspSendSmiIpis, BspRaiseSync, BspLockCounter,
           BspWaitForAp, BspAllSignalled, BspReleaseAp, BspMtrrs, BspAcquireOwnBusy,
           SmmCoreReturns, ScheduleProcedure, ProcedureReturned, BspDrain, BspAllPresent,
           BspFlagOutside, BspSetEffectiveMode, SmmCpuUpdate, BspAbsent, BspResign,
           BspOpenCounter, BspDropSync, ArrivalDone, BspArrivalLoopEnds, Loop, StartLoop,
           WaitForAllAPs, WaitLabels, Step, At, Goto, TypeOK, PcType
  <2> QED
    BY <1>4, <2>1
       DEF SameStack, OnlyMoves, BSPHandler, BspFlagInside, BspPresent, BspClearSmiStatus,
           BspAllArrived, BspArrivalTimeout, BspLookForMissing, BspSendSmiIpis, BspRaiseSync,
           BspLockCounter, BspWaitForAp, BspAllSignalled, BspReleaseAp, BspMtrrs,
           BspAcquireOwnBusy, SmmCoreReturns, ScheduleProcedure, ProcedureReturned, BspDrain,
           BspAllPresent, BspFlagOutside, BspSetEffectiveMode, SmmCpuUpdate, BspAbsent,
           BspResign, BspOpenCounter, BspDropSync, ArrivalDone, BspArrivalLoopEnds, Loop,
           StartLoop, WaitForAllAPs, WaitLabels, syncVars, electVars, modeVars, mtrrVars,
           platVars, dataVars, taskVars, hwVars, entryVars, bspVars, stackVars, memory, notSync,
           notStack, notData, TypeOK, StackType
<1>5. CASE SmiHandlers(c)
  <2>1. OnlyMoves(c)
    BY <1>5
       DEF OnlyMoves, SmiHandlers, SmmStartupThisAp, SmmSwitchBsp, SmmCpuSync2SendSmi,
           SmmSyncSetMode, SmmCpuSyncCheckApArrival, SmmCpuSync2SendSmiAllExcludingSelf, Call,
           Step, At, Goto, TypeOK, PcType
  <2> QED
    BY <1>5, <2>1
       DEF SameStack, OnlyMoves, SmiHandlers, SmmStartupThisAp, SmmSwitchBsp, SmmCpuSync2SendSmi,
           SmmSyncSetMode, SmmCpuSyncCheckApArrival, SmmCpuSync2SendSmiAllExcludingSelf, Call,
           syncVars, electVars, modeVars, mtrrVars, platVars, dataVars, taskVars, hwVars,
           entryVars, bspVars, stackVars, memory, notSync, notStack, notData, TypeOK, StackType
<1> QED
  BY <1>1, <1>2, <1>3, <1>4, <1>5

\* The actions of SmiRendezvous and APHandler, and the last one of
\* BSPHandler, are steps aside of the BSP, except the one that makes a BSP.
LEMMA AsideSteps ==
  ASSUME TypeOK, NEW c \in Cpu,
         EnterSmi(c) \/ SmiRendezvous(c) \/ APHandler(c) \/ BspDropSync(c), ~BecomeBsp(c)
  PROVE  Aside(c)
<1>1. OnlyMoves(c) /\ \A b \in Cpu \ {c} : SameStack(b)
  BY OneMoves DEF BSPHandler
<1>2. CASE EnterSmi(c) \/ BspDropSync(c)
  BY <1>1, <1>2
     DEF Aside, EnterSmi, BspDropSync, Step, At, Goto, TypeOK, PcType, BspLabels,
         BspGatherLabels, BspCoreLabels, BspExitLabels, BspResetLabels
<1>3. CASE SmiRendezvous(c)
  BY <1>1, <1>3
     DEF Aside, SmiRendezvous, SampleValidSmi, SampleBspInProgress, CheckIn, WaitForEndOfRun,
         LeaveSmm, InitializeBusy, Stand, ElectBsp, BecomeBsp, BecomeAp, ReadSyncMode, Step, At,
         Goto, TypeOK, PcType, BspLabels, BspGatherLabels, BspCoreLabels, BspExitLabels,
         BspResetLabels
<1>4. CASE APHandler(c)
  BY <1>1, <1>4
     DEF Aside, APHandler, ApMarkPresent, ApPresent, ApTimeout1, ApCallBsp, ApNobodyToCall,
         ApTimeout2, ApGiveUp, ApSignal, ApWait, ApBackupMtrrs, ApReplaceOSMtrrs, ApCheckExit,
         ApRunProcedure, ApReleaseBusy, ApReady, ApAbsent, DecideToGiveUp, GiveUp, Step, At,
         Goto, TypeOK, PcType, BspLabels, BspGatherLabels, BspCoreLabels, BspExitLabels,
         BspResetLabels
<1> QED
  BY <1>2, <1>3, <1>4

\* The other actions of BSPHandler and of the SMI handlers are steps of the
\* BSP.
LEMMA LeadSteps ==
  ASSUME TypeOK, NEW c \in Cpu, BSPHandler(c) \/ SmiHandlers(c), ~BspDropSync(c)
  PROVE  Leads(c)
<1>1. OnlyMoves(c) /\ \A b \in Cpu \ {c} : SameStack(b)
  BY OneMoves
<1>2. CASE BSPHandler(c)
  BY <1>1, <1>2
     DEF Leads, BSPHandler, BspFlagInside, BspPresent, BspClearSmiStatus, BspAllArrived,
         BspArrivalTimeout, BspLookForMissing, BspSendSmiIpis, BspRaiseSync, BspLockCounter,
         BspWaitForAp, BspAllSignalled, BspReleaseAp, BspMtrrs, BspAcquireOwnBusy,
         SmmCoreReturns, ScheduleProcedure, ProcedureReturned, BspDrain, BspAllPresent,
         BspFlagOutside, BspSetEffectiveMode, SmmCpuUpdate, BspAbsent, BspResign, BspOpenCounter,
         BspDropSync, ArrivalDone, BspArrivalLoopEnds, Loop, StartLoop, WaitForAllAPs,
         WaitLabels, Step, At, Goto, TypeOK, PcType, BspLabels, BspGatherLabels, BspCoreLabels,
         BspExitLabels, BspResetLabels
<1>3. CASE SmiHandlers(c)
  BY <1>1, <1>3
     DEF Leads, SmiHandlers, SmmStartupThisAp, SmmSwitchBsp, SmmCpuSync2SendSmi, SmmSyncSetMode,
         SmmCpuSyncCheckApArrival, SmmCpuSync2SendSmiAllExcludingSelf, Call, Step, At, Goto,
         TypeOK, PcType, BspLabels, BspGatherLabels, BspCoreLabels, BspExitLabels, BspResetLabels
<1> QED
  BY <1>2, <1>3

-----------------------------------------------------------------------------
(***************************************************************************)
(* The steps of a processor that is not the BSP.                           *)
(***************************************************************************)

\* A processor that has no share of Counter before or after its step disturbs
\* nothing of the run.
LEMMA OutsideStep ==
  ASSUME ~GiveUpRace, TypeOK, OneBsp, RunInv,
         NEW m \in Cpu,
         Aside(m),
         pc[m] \notin CountedLabels,
         pc'[m] \notin CountedLabels,
         UNCHANGED <<counter, insideSmm, bspIndex, run, present, busy, effectiveSyncMode>>,
         inWorker'[m] = inWorker[m],
         \A c \in Cpu \ {m} : bsp'[c] = bsp[c]
  PROVE  RunInv'
<1> USE DEF RunInv, Avoids
<1>m. /\ Avoids(m, JoiningLabels) /\ Avoids(m, ApLabels)
      /\ Avoids(m, BspLabels) /\ Avoids(m, ArrivalLabels)
      /\ Avoids(m, MtrrLabels) /\ Avoids(m, InsideLabels)
      /\ Avoids(m, DueArrive) /\ Avoids(m, DueServe) /\ Avoids(m, DueExit)
      /\ Avoids(m, DueBackup) /\ Avoids(m, DueProgram)
      /\ Avoids(m, DueRestore) /\ Avoids(m, DueReset) /\ Avoids(m, PaidArrive)
      /\ Avoids(m, PaidBackup) /\ Avoids(m, PaidProgram)
      /\ Avoids(m, PaidRestore) /\ Avoids(m, PaidExit)
      /\ Avoids(m, ModeKnownLabels) /\ Avoids(m, PastMode)
      /\ Avoids(m, PresentLabels) /\ Avoids(m, JoiningLabels \ {"initbusy"})
      /\ Avoids(m, ApLabels \cup BspLabels)
  BY DEF CountedLabels, ArrivalLabels, InsideLabels, MtrrLabels, DueArrive, DueServe, DueExit,
         DueBackup, DueProgram, DueRestore, DueReset, PaidArrive, PaidBackup, PaidProgram,
         PaidRestore, PaidExit, ModeKnownLabels, PastMode, PresentLabels, RelLabels,
         ReleasedLabels, JoiningLabels, ApLabels, BspLabels, BspGatherLabels, BspCoreLabels,
         BspExitLabels, BspResetLabels, WaitLabels
<1>1. StageInv'
  BY <1>m
     DEF StageInv, In, Gathers, Aside, SameStack, JoiningLabels, ApLabels, BspLabels,
         BspGatherLabels
<1>2. ArriveInv' /\ BackupInv' /\ ProgramInv' /\ ServeInv' /\ ExitInv' /\ RestoreInv'
      /\ ResetInv'
  BY <1>m, <1>1, StagesStay, StagesOfAside, AccountStays
     DEF ArriveInv, Aside, BackupInv, ProgramInv, ServeInv, ExitInv, RestoreInv, ResetInv
<1>3. LeaveInv' /\ NoJoiners' /\ LockInv' /\ CountInv' /\ CounterInv'
  BY <1>m, <1>1, StagesStay, StagesOfAside, NumberStays
     DEF LeaveInv, In, Aside, SameStack, NoJoiners, LockInv, CountInv, CounterInv
<1>4. InsideInv' /\ PointerInv' /\ ModeInv' /\ ModesAgree' /\ PresentInv' /\ IdleInv'
      /\ BusyInv'
  BY <1>m
     DEF InsideInv, In, Aside, SameStack, PointerInv, ModeInv, ModesAgree, PresentInv, IdleInv,
         BusyInv, ApLabels
<1>5. TokenInv' /\ TaskInv'
  BY <1>m, StagesStay
     DEF TokenInv, In, Woken, Waits, Past, Starting, Signalled, Aside, SameStack, TaskInv,
         ApLabels, BspLabels, BspCoreLabels
<1> QED
  BY <1>1, <1>2, <1>3, <1>4, <1>5

\* ReleaseSemaphore on Counter succeeds: the processor is counted, and owes
\* the arrival signal if the BSP gathers.
LEMMA CheckInStep ==
  ASSUME ~GiveUpRace, TypeOK, OneBsp, RunInv,
         NEW m \in Cpu,
         Aside(m),
         pc[m] = "checkin",
         pc'[m] = "initbusy",
         UNCHANGED <<insideSmm, bspIndex, run, present, busy, syncMode, effectiveSyncMode, bsp,
                     index, apCount, left, inWorker>>,
         counter # Locked,
         counter' = counter + 1
  PROVE  RunInv'
<1> USE DEF RunInv, Avoids, Enters
<1>k. \A b \in Cpu : ~LockedBsp(b) /\ ~In(b, WaitLabels)
  BY StagesLocked DEF LockInv
<1>m. /\ Avoids(m, ApLabels) /\ Avoids(m, BspLabels)
      /\ Avoids(m, ArrivalLabels) /\ Avoids(m, MtrrLabels)
      /\ Avoids(m, InsideLabels) /\ Avoids(m, DueExit) /\ Avoids(m, DueBackup)
      /\ Avoids(m, DueProgram) /\ Avoids(m, DueRestore) /\ Avoids(m, DueReset)
      /\ Avoids(m, PaidArrive) /\ Avoids(m, PaidBackup)
      /\ Avoids(m, PaidProgram) /\ Avoids(m, PaidRestore)
      /\ Avoids(m, PaidExit) /\ Avoids(m, ModeKnownLabels)
      /\ Avoids(m, PastMode) /\ Avoids(m, PresentLabels)
      /\ Enters(m, CountedLabels) /\ Enters(m, JoiningLabels)
      /\ Enters(m, DueArrive) /\ Enters(m, DueServe)
  BY DEF CountedLabels, ArrivalLabels, InsideLabels, MtrrLabels, DueArrive, DueServe, DueExit,
         DueBackup, DueProgram, DueRestore, DueReset, PaidArrive, PaidBackup, PaidProgram,
         PaidRestore, PaidExit, ModeKnownLabels, PastMode, PresentLabels, RelLabels,
         ReleasedLabels, JoiningLabels, ApLabels, BspLabels, BspGatherLabels, BspCoreLabels,
         BspExitLabels, BspResetLabels, WaitLabels
<1>1. StageInv'
  BY <1>m DEF StageInv, In, Gathers, Aside, SameStack
<1>2. ArriveInv' /\ BackupInv' /\ ProgramInv' /\ ServeInv' /\ ExitInv' /\ RestoreInv'
      /\ ResetInv'
  BY <1>m, <1>1, StagesStay, StagesOfAside, <1>k, StagesLocked, AccountJoins
     DEF ArriveInv, Aside, TypeOK, SyncType, IdleInv, BackupInv, ProgramInv, ServeInv, ExitInv,
         RestoreInv, ResetInv
<1>3. LeaveInv' /\ NoJoiners' /\ LockInv' /\ CountInv' /\ CounterInv'
  BY <1>m, <1>1, StagesStay, StagesOfAside, StagesLocked, NumberIsNat, NumberGrows
     DEF LeaveInv, In, Aside, NoJoiners, LockInv, Locked, CountInv, CounterInv
<1>4. InsideInv' /\ PointerInv' /\ ModeInv' /\ ModesAgree' /\ PresentInv' /\ IdleInv'
      /\ BusyInv'
  BY <1>m
     DEF InsideInv, In, Aside, SameStack, PointerInv, ModeInv, ModesAgree, PresentInv, IdleInv,
         BusyInv
<1>5. TokenInv' /\ TaskInv'
  BY <1>m, StagesStay, <1>k, StagesLocked
     DEF TokenInv, In, Waits, Past, Starting, Signalled, Aside, SameStack, TaskInv
<1> QED
  BY <1>1, <1>2, <1>3, <1>4, <1>5

\* A counted processor moves on towards its role: InitializeBusy, the
\* election, becoming an AP and reading the mode.
LEMMA JoinStep ==
  ASSUME ~GiveUpRace, TypeOK, OneBsp, RunInv,
         NEW m \in Cpu,
         Aside(m),
         pc[m] \in JoiningLabels,
         pc'[m] \in JoiningLabels \ {"initbusy", "ap_giveup"},
         UNCHANGED <<counter, insideSmm, run, present, effectiveSyncMode, bsp, index, apCount,
                     left, inWorker>>,
         \A c \in Cpu \ {m} : busy'[c] = busy[c],
         busy'[m] = FALSE,
         insideSmm => bspIndex' = bspIndex,
         pc'[m] \in ModeKnownLabels => syncMode'[m] = effectiveSyncMode
         \/ (pc[m] \in ModeKnownLabels /\ syncMode'[m] = syncMode[m])
  PROVE  RunInv'
<1> USE DEF RunInv, Stays, Avoids
<1>m. /\ Stays(m, CountedLabels) /\ Stays(m, DueArrive) /\ Stays(m, DueServe)
      /\ Avoids(m, ApLabels) /\ Avoids(m, BspLabels)
      /\ Avoids(m, ArrivalLabels) /\ Avoids(m, MtrrLabels)
      /\ Avoids(m, InsideLabels) /\ Avoids(m, DueExit) /\ Avoids(m, DueBackup)
      /\ Avoids(m, DueProgram) /\ Avoids(m, DueRestore) /\ Avoids(m, DueReset)
      /\ Avoids(m, PaidArrive) /\ Avoids(m, PaidBackup)
      /\ Avoids(m, PaidProgram) /\ Avoids(m, PaidRestore)
      /\ Avoids(m, PaidExit) /\ Avoids(m, PastMode)
      /\ Avoids(m, PresentLabels)
      /\ pc'[m] # "ap_giveup"
  BY DEF CountedLabels, ArrivalLabels, InsideLabels, MtrrLabels, DueArrive, DueServe, DueExit,
         DueBackup, DueProgram, DueRestore, DueReset, PaidArrive, PaidBackup, PaidProgram,
         PaidRestore, PaidExit, ModeKnownLabels, PastMode, PresentLabels, RelLabels,
         ReleasedLabels, JoiningLabels, ApLabels, BspLabels, BspGatherLabels, BspCoreLabels,
         BspExitLabels, BspResetLabels, WaitLabels
<1>1. StageInv'
  BY <1>m DEF StageInv, In, Gathers, Aside, SameStack, ApLabels, BspLabels, BspGatherLabels
<1>2. ArriveInv' /\ BackupInv' /\ ProgramInv' /\ ServeInv' /\ ExitInv' /\ RestoreInv'
      /\ ResetInv'
  BY <1>m, <1>1, StagesStay, StagesOfAside, AccountStays, AccountMember
     DEF ArriveInv, Aside, BackupInv, ProgramInv, ServeInv, ExitInv, RestoreInv, ResetInv
<1>3. LeaveInv' /\ NoJoiners' /\ LockInv' /\ CountInv' /\ CounterInv'
  BY <1>m, <1>1, StagesStay, StagesOfAside, NumberStays
     DEF LeaveInv, In, Aside, SameStack, NoJoiners, LockInv, CountInv, CounterInv
<1>4. InsideInv' /\ PointerInv' /\ ModeInv' /\ ModesAgree' /\ PresentInv' /\ IdleInv'
      /\ BusyInv'
  BY <1>m
     DEF InsideInv, In, Aside, SameStack, PointerInv, ModeInv, ModesAgree, PresentInv, IdleInv,
         BusyInv, ApLabels
<1>5. TokenInv' /\ TaskInv'
  BY <1>m, StagesStay
     DEF TokenInv, In, Woken, Waits, Past, Starting, Signalled, Aside, SameStack, TaskInv,
         ApLabels, BspLabels, BspCoreLabels
<1> QED
  BY <1>1, <1>2, <1>3, <1>4, <1>5

\* The AP sees InsideSmm and takes the BSP's index from BspIndex.
LEMMA MarkPresentStep ==
  ASSUME ~GiveUpRace, TypeOK, OneBsp, RunInv,
         NEW m \in Cpu,
         Aside(m),
         pc[m] \in {"ap_timer1", "ap_timer2"},
         pc'[m] = "ap_present",
         insideSmm,
         bsp' = [bsp EXCEPT ![m] = bspIndex],
         UNCHANGED <<counter, insideSmm, bspIndex, run, present, busy, syncMode,
                     effectiveSyncMode, index, apCount, left, inWorker>>
  PROVE  RunInv'
<1> USE DEF RunInv, Stays, Avoids, Enters, Quits
<1>m. /\ Stays(m, CountedLabels) /\ Stays(m, DueArrive) /\ Stays(m, DueServe)
      /\ Stays(m, ModeKnownLabels)
      /\ Avoids(m, BspLabels) /\ Avoids(m, ArrivalLabels)
      /\ Avoids(m, MtrrLabels) /\ Avoids(m, InsideLabels)
      /\ Avoids(m, DueExit) /\ Avoids(m, DueBackup) /\ Avoids(m, DueProgram)
      /\ Avoids(m, DueRestore) /\ Avoids(m, DueReset) /\ Avoids(m, PaidArrive)
      /\ Avoids(m, PaidBackup) /\ Avoids(m, PaidProgram)
      /\ Avoids(m, PaidRestore) /\ Avoids(m, PaidExit) /\ Avoids(m, PastMode)
      /\ Avoids(m, PresentLabels)
      /\ Enters(m, ApLabels)
      /\ Quits(m, JoiningLabels)
  BY DEF CountedLabels, ArrivalLabels, InsideLabels, MtrrLabels, DueArrive, DueServe, DueExit,
         DueBackup, DueProgram, DueRestore, DueReset, PaidArrive, PaidBackup, PaidProgram,
         PaidRestore, PaidExit, ModeKnownLabels, PastMode, PresentLabels, RelLabels,
         ReleasedLabels, JoiningLabels, ApLabels, BspLabels, BspGatherLabels, BspCoreLabels,
         BspExitLabels, BspResetLabels, WaitLabels
<1>s. \A b \in Cpu \ {m} : ~BackingUp(b) /\ ~Programming(b) /\ ~Exiting(b) /\ ~Restoring(b)
      /\ ~Resetting(b) /\ ~Leaving(b)
  BY <1>m, AccountMember DEF In, BackupInv, ProgramInv, ExitInv, RestoreInv, ResetInv, LeaveInv
<1>p. \A b \in Cpu : ~In(b, PastMode)
  BY OnlyOneBsp DEF InsideInv, PastMode, In, InsideLabels, BspLabels, BspExitLabels
<1>1. StageInv'
  BY <1>m DEF StageInv, In, Gathers, Aside, SameStack
<1>2. ArriveInv' /\ BackupInv' /\ ProgramInv' /\ ServeInv' /\ ExitInv' /\ RestoreInv'
      /\ ResetInv'
  BY <1>m, <1>1, StagesStay, StagesOfAside, AccountStays, AccountMember
     DEF ArriveInv, Aside, BackupInv, ProgramInv, ServeInv, ExitInv, RestoreInv, ResetInv
<1>3. LeaveInv' /\ NoJoiners' /\ LockInv' /\ CountInv' /\ CounterInv'
  BY <1>m, <1>1, StagesStay, StagesOfAside, NumberStays
     DEF LeaveInv, In, Aside, SameStack, NoJoiners, LockInv, CountInv, CounterInv
<1>4. InsideInv' /\ PointerInv' /\ ModeInv' /\ ModesAgree' /\ PresentInv' /\ IdleInv'
      /\ BusyInv'
  BY <1>m, <1>s, <1>p, BspModeKnown
     DEF InsideInv, In, Aside, OnlyMoves, SameStack, PointerInv, InsideLabels, TypeOK, StackType,
         CountedLabels, JoiningLabels, ApLabels, BspLabels, BspGatherLabels, BspCoreLabels,
         BspExitLabels, BspResetLabels, ModeInv, ModesAgree, PresentInv, CpuDataType, IdleInv,
         BusyInv
<1>5. TokenInv' /\ TaskInv'
  BY <1>m, StagesStay, <1>s
     DEF TokenInv, In, Waits, Past, Starting, Signalled, Aside, SameStack, IdleInv, BusyInv,
         TaskInv
<1> QED
  BY <1>1, <1>2, <1>3, <1>4, <1>5

\* The AP backs its MTRRs up and signals the BSP.
LEMMA BackupSignal ==
  ASSUME ~GiveUpRace, TypeOK, OneBsp, RunInv,
         NEW m \in Cpu,
         Aside(m),
         pc[m] = "ap_backup",
         pc'[m] = "ap_wait_program",
         Up(bsp[m]),
         UNCHANGED <<counter, insideSmm, bspIndex, present, busy, syncMode, effectiveSyncMode,
                     bsp, index, apCount, left, inWorker>>
  PROVE  RunInv'
<1> USE DEF RunInv, Stays, Avoids, Enters, Quits
<1>m. /\ Stays(m, CountedLabels) /\ Stays(m, ApLabels)
      /\ Stays(m, ModeKnownLabels) /\ Stays(m, PresentLabels)
      /\ Avoids(m, JoiningLabels) /\ Avoids(m, BspLabels)
      /\ Avoids(m, ArrivalLabels) /\ Avoids(m, MtrrLabels)
      /\ Avoids(m, InsideLabels) /\ Avoids(m, DueArrive)
      /\ Avoids(m, DueServe) /\ Avoids(m, DueExit) /\ Avoids(m, DueRestore)
      /\ Avoids(m, DueReset) /\ Avoids(m, PaidArrive)
      /\ Avoids(m, PaidProgram) /\ Avoids(m, PaidRestore)
      /\ Avoids(m, PaidExit) /\ Avoids(m, PastMode)
      /\ Enters(m, DueProgram) /\ Enters(m, PaidBackup)
      /\ Quits(m, DueBackup)
  BY DEF CountedLabels, ArrivalLabels, InsideLabels, MtrrLabels, DueArrive, DueServe, DueExit,
         DueBackup, DueProgram, DueRestore, DueReset, PaidArrive, PaidBackup, PaidProgram,
         PaidRestore, PaidExit, ModeKnownLabels, PastMode, PresentLabels, RelLabels,
         ReleasedLabels, JoiningLabels, ApLabels, BspLabels, BspGatherLabels, BspCoreLabels,
         BspExitLabels, BspResetLabels, WaitLabels
<1>s. \A b \in Cpu \ {m} : ~Arriving(b) /\ ~Programming(b) /\ ~Serving(b) /\ ~Exiting(b)
      /\ ~Restoring(b) /\ ~Resetting(b) /\ ~Leaving(b)
  BY <1>m, AccountMember
     DEF In, ArriveInv, ProgramInv, ServeInv, ExitInv, RestoreInv, ResetInv, LeaveInv
<1>r. /\ bsp[m] \in Cpu \ {m} /\ run[bsp[m]] \in Nat /\ run'[bsp[m]] = run[bsp[m]] + 1
      /\ \A c \in Cpu \ {bsp[m]} : run'[c] = run[c]
      /\ \A b \in Cpu : In(b, BspLabels) => b = bsp[m]
      /\ run' \in [Cpu -> Nat]
      /\ In(bsp[m], BspLabels) /\ ~In(bsp[m], ApLabels)
  BY <1>m, OnlyOneBsp
     DEF Up, ReleaseSemaphore, Locked, PointerInv, IdleInv, In, BspLabels, BspGatherLabels,
         BspCoreLabels, BspExitLabels, BspResetLabels, ApLabels
<1>1. StageInv'
  BY <1>m DEF StageInv, In, Gathers, Aside, SameStack
<1>2. ArriveInv' /\ BackupInv' /\ ProgramInv' /\ ServeInv' /\ ExitInv' /\ RestoreInv'
      /\ ResetInv'
  BY <1>m, <1>1, StagesStay, StagesOfAside, AccountMember, <1>r, AccountPaid, StagesAreBsp
     DEF ArriveInv, Aside, BackupInv, ProgramInv, ServeInv, ExitInv, RestoreInv, ResetInv
<1>3. LeaveInv' /\ NoJoiners' /\ LockInv' /\ CountInv' /\ CounterInv'
  BY <1>m, <1>1, StagesStay, StagesOfAside, NumberStays
     DEF LeaveInv, In, Aside, SameStack, NoJoiners, LockInv, CountInv, CounterInv
<1>4. InsideInv' /\ PointerInv' /\ ModeInv' /\ ModesAgree' /\ PresentInv' /\ IdleInv'
      /\ BusyInv'
  BY <1>m, <1>r
     DEF InsideInv, In, Aside, SameStack, PointerInv, ModeInv, ModesAgree, PresentInv, IdleInv,
         BusyInv
<1>5. TokenInv' /\ TaskInv'
  BY <1>m, StagesStay, <1>s, <1>r
     DEF TokenInv, In, Woken, Waits, Past, Starting, Signalled, Aside, SameStack, BusyInv,
         TaskInv
<1> QED
  BY <1>1, <1>2, <1>3, <1>4, <1>5

\* The AP programs its MTRRs and signals the BSP.
LEMMA ProgramSignal ==
  ASSUME ~GiveUpRace, TypeOK, OneBsp, RunInv,
         NEW m \in Cpu,
         Aside(m),
         pc[m] = "ap_program",
         pc'[m] = "ap_work",
         Up(bsp[m]),
         UNCHANGED <<counter, insideSmm, bspIndex, present, busy, syncMode, effectiveSyncMode,
                     bsp, index, apCount, left, inWorker>>
  PROVE  RunInv'
<1> USE DEF RunInv, Stays, Avoids, Enters, Quits
<1>m. /\ Stays(m, CountedLabels) /\ Stays(m, ApLabels)
      /\ Stays(m, ModeKnownLabels) /\ Stays(m, PresentLabels)
      /\ Avoids(m, JoiningLabels) /\ Avoids(m, BspLabels)
      /\ Avoids(m, ArrivalLabels) /\ Avoids(m, MtrrLabels)
      /\ Avoids(m, InsideLabels) /\ Avoids(m, DueArrive)
      /\ Avoids(m, DueBackup) /\ Avoids(m, DueRestore) /\ Avoids(m, DueReset)
      /\ Avoids(m, PaidBackup) /\ Avoids(m, PaidRestore)
      /\ Avoids(m, PaidExit) /\ Avoids(m, PastMode)
      /\ Enters(m, DueServe) /\ Enters(m, DueExit) /\ Enters(m, PaidProgram)
      /\ Quits(m, DueProgram)
      /\ pc[m] \notin PaidArrive
      /\ (pc'[m] \in PaidArrive <=> ~NeedConfigureMtrrs)
  BY DEF CountedLabels, ArrivalLabels, InsideLabels, MtrrLabels, DueArrive, DueServe, DueExit,
         DueBackup, DueProgram, DueRestore, DueReset, PaidArrive, PaidBackup, PaidProgram,
         PaidRestore, PaidExit, ModeKnownLabels, PastMode, PresentLabels, RelLabels,
         ReleasedLabels, JoiningLabels, ApLabels, BspLabels, BspGatherLabels, BspCoreLabels,
         BspExitLabels, BspResetLabels, WaitLabels
<1>s. \A b \in Cpu \ {m} : ~Arriving(b) /\ ~BackingUp(b) /\ ~Serving(b) /\ ~Exiting(b)
      /\ ~Restoring(b) /\ ~Resetting(b) /\ ~Leaving(b)
  BY <1>m, AccountMember
     DEF In, ArriveInv, BackupInv, ServeInv, ExitInv, RestoreInv, ResetInv, LeaveInv
<1>r. /\ bsp[m] \in Cpu \ {m} /\ run[bsp[m]] \in Nat /\ run'[bsp[m]] = run[bsp[m]] + 1
      /\ \A c \in Cpu \ {bsp[m]} : run'[c] = run[c]
      /\ \A b \in Cpu : In(b, BspLabels) => b = bsp[m]
      /\ run' \in [Cpu -> Nat]
      /\ In(bsp[m], BspLabels) /\ ~In(bsp[m], ApLabels)
  BY <1>m, OnlyOneBsp
     DEF Up, ReleaseSemaphore, Locked, PointerInv, IdleInv, In, BspLabels, BspGatherLabels,
         BspCoreLabels, BspExitLabels, BspResetLabels, ApLabels
<1>1. StageInv'
  BY <1>m DEF StageInv, In, Gathers, Aside, SameStack
<1>2. ArriveInv' /\ BackupInv' /\ ProgramInv' /\ ServeInv' /\ ExitInv' /\ RestoreInv'
      /\ ResetInv'
  BY <1>m, <1>1, StagesStay, StagesOfAside, AccountMember, <1>r, AccountPaid, StagesAreBsp
     DEF ArriveInv, Aside, BackupInv, ProgramInv, ServeInv, ExitInv, RestoreInv, ResetInv
<1>3. LeaveInv' /\ NoJoiners' /\ LockInv' /\ CountInv' /\ CounterInv'
  BY <1>m, <1>1, StagesStay, StagesOfAside, NumberStays
     DEF LeaveInv, In, Aside, SameStack, NoJoiners, LockInv, CountInv, CounterInv
<1>4. InsideInv' /\ PointerInv' /\ ModeInv' /\ ModesAgree' /\ PresentInv' /\ IdleInv'
      /\ BusyInv'
  BY <1>m, <1>r
     DEF InsideInv, In, Aside, SameStack, PointerInv, ModeInv, ModesAgree, PresentInv, IdleInv,
         BusyInv
<1>5. TokenInv' /\ TaskInv'
  BY <1>m, StagesStay, <1>s, <1>r
     DEF TokenInv, In, Woken, Waits, Past, Starting, Signalled, Aside, SameStack, BusyInv,
         TaskInv
<1> QED
  BY <1>1, <1>2, <1>3, <1>4, <1>5

\* The AP signals that it is ready to restore its MTRRs.
LEMMA RdySignal ==
  ASSUME ~GiveUpRace, TypeOK, OneBsp, RunInv,
         NEW m \in Cpu,
         Aside(m),
         pc[m] = "ap_rdy_restore",
         pc'[m] = "ap_wait_restore",
         Up(bsp[m]),
         UNCHANGED <<counter, insideSmm, bspIndex, present, busy, syncMode, effectiveSyncMode,
                     bsp, index, apCount, left, inWorker>>
  PROVE  RunInv'
<1> USE DEF RunInv, Stays, Avoids, Enters
<1>m. /\ Stays(m, CountedLabels) /\ Stays(m, ApLabels)
      /\ Stays(m, ModeKnownLabels) /\ Stays(m, PresentLabels)
      /\ Avoids(m, JoiningLabels) /\ Avoids(m, BspLabels)
      /\ Avoids(m, ArrivalLabels) /\ Avoids(m, MtrrLabels)
      /\ Avoids(m, InsideLabels) /\ Avoids(m, DueArrive)
      /\ Avoids(m, DueServe) /\ Avoids(m, DueBackup) /\ Avoids(m, DueProgram)
      /\ Avoids(m, DueReset) /\ Avoids(m, PaidArrive) /\ Avoids(m, PaidBackup)
      /\ Avoids(m, PaidProgram) /\ Avoids(m, PaidRestore)
      /\ Avoids(m, PastMode)
      /\ Enters(m, DueRestore)
      /\ (pc[m] \in DueExit <=> NeedConfigureMtrrs)
      /\ pc'[m] \notin DueExit
      /\ pc[m] \notin PaidExit
      /\ (pc'[m] \in PaidExit <=> NeedConfigureMtrrs)
  BY DEF CountedLabels, ArrivalLabels, InsideLabels, MtrrLabels, DueArrive, DueServe, DueExit,
         DueBackup, DueProgram, DueRestore, DueReset, PaidArrive, PaidBackup, PaidProgram,
         PaidRestore, PaidExit, ModeKnownLabels, PastMode, PresentLabels, RelLabels,
         ReleasedLabels, JoiningLabels, ApLabels, BspLabels, BspGatherLabels, BspCoreLabels,
         BspExitLabels, BspResetLabels, WaitLabels
<1>s. \A b \in Cpu \ {m} : ~Arriving(b) /\ ~BackingUp(b) /\ ~Programming(b) /\ ~Serving(b)
      /\ (Exiting(b) => NeedConfigureMtrrs) /\ ~Restoring(b) /\ ~Resetting(b) /\ ~Leaving(b)
  BY <1>m, AccountMember
     DEF In, ArriveInv, BackupInv, ProgramInv, ServeInv, ExitInv, RestoreInv, ResetInv, LeaveInv
<1>r. /\ bsp[m] \in Cpu \ {m} /\ run[bsp[m]] \in Nat /\ run'[bsp[m]] = run[bsp[m]] + 1
      /\ \A c \in Cpu \ {bsp[m]} : run'[c] = run[c]
      /\ \A b \in Cpu : In(b, BspLabels) => b = bsp[m]
      /\ run' \in [Cpu -> Nat]
      /\ In(bsp[m], BspLabels) /\ ~In(bsp[m], ApLabels)
  BY <1>m, OnlyOneBsp
     DEF Up, ReleaseSemaphore, Locked, PointerInv, IdleInv, In, BspLabels, BspGatherLabels,
         BspCoreLabels, BspExitLabels, BspResetLabels, ApLabels
<1>1. StageInv'
  BY <1>m DEF StageInv, In, Gathers, Aside, SameStack
<1>2. ArriveInv' /\ BackupInv' /\ ProgramInv' /\ ServeInv' /\ ExitInv' /\ RestoreInv'
      /\ ResetInv'
  BY <1>m, <1>1, StagesStay, StagesOfAside, AccountMember, <1>r, AccountPaid, StagesAreBsp
     DEF ArriveInv, Aside, BackupInv, ProgramInv, ServeInv, ExitInv, RestoreInv, ResetInv
<1>3. LeaveInv' /\ NoJoiners' /\ LockInv' /\ CountInv' /\ CounterInv'
  BY <1>m, <1>1, StagesStay, StagesOfAside, NumberStays
     DEF LeaveInv, In, Aside, SameStack, NoJoiners, LockInv, CountInv, CounterInv
<1>4. InsideInv' /\ PointerInv' /\ ModeInv' /\ ModesAgree' /\ PresentInv' /\ IdleInv'
      /\ BusyInv'
  BY <1>m, <1>r
     DEF InsideInv, In, Aside, SameStack, PointerInv, ModeInv, ModesAgree, PresentInv, IdleInv,
         BusyInv
<1>5. TokenInv' /\ TaskInv'
  BY <1>m, StagesStay, <1>s, <1>r
     DEF TokenInv, In, Woken, Waits, Past, Starting, Signalled, Aside, SameStack, BusyInv,
         TaskInv
<1> QED
  BY <1>1, <1>2, <1>3, <1>4, <1>5

\* The AP signals that it is ready for the reset of the run's state.
LEMMA ReadySignal ==
  ASSUME ~GiveUpRace, TypeOK, OneBsp, RunInv,
         NEW m \in Cpu,
         Aside(m),
         pc[m] = "ap_ready",
         pc'[m] = "ap_wait_reset",
         Up(bsp[m]),
         UNCHANGED <<counter, insideSmm, bspIndex, present, busy, syncMode, effectiveSyncMode,
                     bsp, index, apCount, left, inWorker>>
  PROVE  RunInv'
<1> USE DEF RunInv, Stays, Avoids, Enters, Quits
<1>m. /\ Stays(m, CountedLabels) /\ Stays(m, ApLabels)
      /\ Stays(m, ModeKnownLabels) /\ Stays(m, PresentLabels)
      /\ Avoids(m, JoiningLabels) /\ Avoids(m, BspLabels)
      /\ Avoids(m, ArrivalLabels) /\ Avoids(m, MtrrLabels)
      /\ Avoids(m, InsideLabels) /\ Avoids(m, DueArrive)
      /\ Avoids(m, DueServe) /\ Avoids(m, DueBackup) /\ Avoids(m, DueProgram)
      /\ Avoids(m, PaidArrive) /\ Avoids(m, PaidBackup)
      /\ Avoids(m, PaidProgram) /\ Avoids(m, PastMode)
      /\ Enters(m, DueReset) /\ Enters(m, PaidRestore)
      /\ Quits(m, DueRestore)
      /\ (pc[m] \in DueExit <=> ~NeedConfigureMtrrs)
      /\ pc'[m] \notin DueExit
      /\ pc[m] \notin PaidExit
      /\ (pc'[m] \in PaidExit <=> ~NeedConfigureMtrrs)
  BY DEF CountedLabels, ArrivalLabels, InsideLabels, MtrrLabels, DueArrive, DueServe, DueExit,
         DueBackup, DueProgram, DueRestore, DueReset, PaidArrive, PaidBackup, PaidProgram,
         PaidRestore, PaidExit, ModeKnownLabels, PastMode, PresentLabels, RelLabels,
         ReleasedLabels, JoiningLabels, ApLabels, BspLabels, BspGatherLabels, BspCoreLabels,
         BspExitLabels, BspResetLabels, WaitLabels
<1>s. \A b \in Cpu \ {m} : ~Arriving(b) /\ ~BackingUp(b) /\ ~Programming(b) /\ ~Serving(b)
      /\ (Exiting(b) => ~NeedConfigureMtrrs) /\ ~Resetting(b) /\ ~Leaving(b)
  BY <1>m, AccountMember
     DEF In, ArriveInv, BackupInv, ProgramInv, ServeInv, ExitInv, ResetInv, LeaveInv
<1>r. /\ bsp[m] \in Cpu \ {m} /\ run[bsp[m]] \in Nat /\ run'[bsp[m]] = run[bsp[m]] + 1
      /\ \A c \in Cpu \ {bsp[m]} : run'[c] = run[c]
      /\ \A b \in Cpu : In(b, BspLabels) => b = bsp[m]
      /\ run' \in [Cpu -> Nat]
      /\ In(bsp[m], BspLabels) /\ ~In(bsp[m], ApLabels)
  BY <1>m, OnlyOneBsp
     DEF Up, ReleaseSemaphore, Locked, PointerInv, IdleInv, In, BspLabels, BspGatherLabels,
         BspCoreLabels, BspExitLabels, BspResetLabels, ApLabels
<1>1. StageInv'
  BY <1>m DEF StageInv, In, Gathers, Aside, SameStack
<1>2. ArriveInv' /\ BackupInv' /\ ProgramInv' /\ ServeInv' /\ ExitInv' /\ RestoreInv'
      /\ ResetInv'
  BY <1>m, <1>1, StagesStay, StagesOfAside, AccountMember, <1>r, AccountPaid, StagesAreBsp
     DEF ArriveInv, Aside, BackupInv, ProgramInv, ServeInv, ExitInv, RestoreInv, ResetInv
<1>3. LeaveInv' /\ NoJoiners' /\ LockInv' /\ CountInv' /\ CounterInv'
  BY <1>m, <1>1, StagesStay, StagesOfAside, NumberStays
     DEF LeaveInv, In, Aside, SameStack, NoJoiners, LockInv, CountInv, CounterInv
<1>4. InsideInv' /\ PointerInv' /\ ModeInv' /\ ModesAgree' /\ PresentInv' /\ IdleInv'
      /\ BusyInv'
  BY <1>m, <1>r
     DEF InsideInv, In, Aside, SameStack, PointerInv, ModeInv, ModesAgree, PresentInv, IdleInv,
         BusyInv
<1>5. TokenInv' /\ TaskInv'
  BY <1>m, StagesStay, <1>s, <1>r
     DEF TokenInv, In, Woken, Waits, Past, Starting, Signalled, Aside, SameStack, BusyInv,
         TaskInv
<1> QED
  BY <1>1, <1>2, <1>3, <1>4, <1>5

\* The AP signals for the last time and is no longer counted.
LEMMA ByeSignal ==
  ASSUME ~GiveUpRace, TypeOK, OneBsp, RunInv,
         NEW m \in Cpu,
         Aside(m),
         pc[m] = "ap_bye",
         pc'[m] = "finished",
         Up(bsp[m]),
         UNCHANGED <<counter, insideSmm, bspIndex, present, busy, syncMode, effectiveSyncMode,
                     bsp, index, apCount, left, inWorker>>
  PROVE  RunInv'
<1> USE DEF RunInv, Avoids, Quits
<1>m. /\ Avoids(m, JoiningLabels) /\ Avoids(m, BspLabels)
      /\ Avoids(m, ArrivalLabels) /\ Avoids(m, MtrrLabels)
      /\ Avoids(m, InsideLabels) /\ Avoids(m, DueArrive)
      /\ Avoids(m, DueServe) /\ Avoids(m, DueExit) /\ Avoids(m, DueBackup)
      /\ Avoids(m, DueProgram) /\ Avoids(m, DueRestore)
      /\ Avoids(m, PaidArrive) /\ Avoids(m, PaidBackup)
      /\ Avoids(m, PaidProgram) /\ Avoids(m, PaidRestore)
      /\ Avoids(m, PaidExit) /\ Avoids(m, PastMode)
      /\ Avoids(m, PresentLabels)
      /\ Quits(m, CountedLabels) /\ Quits(m, ApLabels) /\ Quits(m, DueReset)
      /\ Quits(m, ModeKnownLabels)
  BY DEF CountedLabels, ArrivalLabels, InsideLabels, MtrrLabels, DueArrive, DueServe, DueExit,
         DueBackup, DueProgram, DueRestore, DueReset, PaidArrive, PaidBackup, PaidProgram,
         PaidRestore, PaidExit, ModeKnownLabels, PastMode, PresentLabels, RelLabels,
         ReleasedLabels, JoiningLabels, ApLabels, BspLabels, BspGatherLabels, BspCoreLabels,
         BspExitLabels, BspResetLabels, WaitLabels
<1>s. \A b \in Cpu \ {m} : ~Arriving(b) /\ ~BackingUp(b) /\ ~Programming(b) /\ ~Serving(b)
      /\ ~Exiting(b) /\ ~Restoring(b) /\ ~Leaving(b)
  BY <1>m, AccountMember
     DEF In, ArriveInv, BackupInv, ProgramInv, ServeInv, ExitInv, RestoreInv, LeaveInv
<1>r. /\ bsp[m] \in Cpu \ {m} /\ run[bsp[m]] \in Nat /\ run'[bsp[m]] = run[bsp[m]] + 1
      /\ \A c \in Cpu \ {bsp[m]} : run'[c] = run[c]
      /\ \A b \in Cpu : In(b, BspLabels) => b = bsp[m]
      /\ run' \in [Cpu -> Nat]
      /\ In(bsp[m], BspLabels) /\ ~In(bsp[m], ApLabels)
  BY <1>m, OnlyOneBsp
     DEF Up, ReleaseSemaphore, Locked, PointerInv, IdleInv, In, BspLabels, BspGatherLabels,
         BspCoreLabels, BspExitLabels, BspResetLabels, ApLabels
<1>g. /\ run[m] = 0
      /\ \A b \in Cpu : LockedBsp(b) => b = bsp[m]
      /\ Resetting(bsp[m]) /\ In(bsp[m], BspResetLabels) /\ counter = Locked
  <2>1. /\ run[m] = 0 /\ \A b \in Cpu : LockedBsp(b) => b = bsp[m]
    BY <1>m, <1>r, StagesAreBsp DEF TokenInv, In, Waits, Signalled
  <2>2. Resetting(bsp[m])
    BY <1>r, <1>s, EveryStage
  <2>3. LockedBsp(bsp[m]) /\ counter = Locked
    BY <1>r, <2>2, StagesLocked DEF LockInv
  <2>4. Woken(bsp[m], m)
    BY <1>m, <1>r, <2>2 DEF TokenInv, Past, In
  <2>5. In(bsp[m], BspResetLabels)
    BY <2>2, <2>4 DEF Resetting, Woken, In, BspResetLabels, RelLabels, ReleasedLabels
  <2> QED
    BY <2>1, <2>2, <2>3, <2>5
<1>1. StageInv'
  BY <1>m DEF StageInv, In, Gathers, Aside, SameStack
<1>2. ArriveInv' /\ BackupInv' /\ ProgramInv' /\ ServeInv' /\ ExitInv' /\ RestoreInv'
      /\ ResetInv'
  BY <1>m, <1>1, StagesStay, StagesOfAside, AccountMember, <1>r, AccountPaid, StagesAreBsp
     DEF ArriveInv, Aside, BackupInv, ProgramInv, ServeInv, ExitInv, RestoreInv, ResetInv
<1>3. LeaveInv' /\ NoJoiners' /\ LockInv' /\ CountInv' /\ CounterInv'
  BY <1>m, <1>1, StagesStay, StagesOfAside, <1>g
     DEF LeaveInv, In, Aside, SameStack, NoJoiners, LockInv, CountInv, CounterInv
<1>4. InsideInv' /\ PointerInv' /\ ModeInv' /\ ModesAgree' /\ PresentInv' /\ IdleInv'
      /\ BusyInv'
  BY <1>m, <1>r, <1>g
     DEF InsideInv, In, Aside, SameStack, PointerInv, ModeInv, ModesAgree, PresentInv, IdleInv,
         BusyInv
<1>5. TokenInv' /\ TaskInv'
  BY <1>m, StagesStay, <1>r
     DEF TokenInv, In, Woken, Waits, Past, Starting, Signalled, Aside, SameStack, BusyInv,
         TaskInv
<1> QED
  BY <1>1, <1>2, <1>3, <1>4, <1>5

\* The AP sets Present and goes on to its arrival signal.
LEMMA PresentGathered ==
  ASSUME ~GiveUpRace, TypeOK, OneBsp, RunInv,
         NEW m \in Cpu,
         Aside(m),
         pc[m] = "ap_present",
         pc'[m] = "ap_arrive",
         Gathers(m),
         present' = [present EXCEPT ![m] = TRUE],
         UNCHANGED <<counter, insideSmm, bspIndex, run, busy, syncMode, effectiveSyncMode, bsp,
                     index, apCount, left, inWorker>>
  PROVE  RunInv'
<1> USE DEF RunInv, Stays, Avoids, Enters
<1>m. /\ Stays(m, CountedLabels) /\ Stays(m, ApLabels) /\ Stays(m, DueArrive)
      /\ Stays(m, DueServe) /\ Stays(m, ModeKnownLabels)
      /\ Avoids(m, JoiningLabels) /\ Avoids(m, BspLabels)
      /\ Avoids(m, ArrivalLabels) /\ Avoids(m, MtrrLabels)
      /\ Avoids(m, InsideLabels) /\ Avoids(m, DueExit) /\ Avoids(m, DueBackup)
      /\ Avoids(m, DueProgram) /\ Avoids(m, DueRestore) /\ Avoids(m, DueReset)
      /\ Avoids(m, PaidArrive) /\ Avoids(m, PaidBackup)
      /\ Avoids(m, PaidProgram) /\ Avoids(m, PaidRestore)
      /\ Avoids(m, PaidExit) /\ Avoids(m, PastMode)
      /\ Enters(m, PresentLabels)
  BY DEF CountedLabels, ArrivalLabels, InsideLabels, MtrrLabels, DueArrive, DueServe, DueExit,
         DueBackup, DueProgram, DueRestore, DueReset, PaidArrive, PaidBackup, PaidProgram,
         PaidRestore, PaidExit, ModeKnownLabels, PastMode, PresentLabels, RelLabels,
         ReleasedLabels, JoiningLabels, ApLabels, BspLabels, BspGatherLabels, BspCoreLabels,
         BspExitLabels, BspResetLabels, WaitLabels
<1>s. \A b \in Cpu \ {m} : ~BackingUp(b) /\ ~Programming(b) /\ ~Exiting(b) /\ ~Restoring(b)
      /\ ~Resetting(b) /\ ~Leaving(b)
  BY <1>m, AccountMember DEF In, BackupInv, ProgramInv, ExitInv, RestoreInv, ResetInv, LeaveInv
<1>g. \A b \in Cpu : Arriving(b) => (Gathers(b) <=> Gathers(m)) /\ Gathers(b)
  BY <1>m DEF ModesAgree, In, Arriving
<1>1. StageInv'
  BY <1>m DEF StageInv, In, Gathers, Aside, SameStack
<1>2. ArriveInv' /\ BackupInv' /\ ProgramInv' /\ ServeInv' /\ ExitInv' /\ RestoreInv'
      /\ ResetInv'
  BY <1>m, <1>1, StagesStay, StagesOfAside, AccountStays, AccountMember
     DEF ArriveInv, Aside, BackupInv, ProgramInv, ServeInv, ExitInv, RestoreInv, ResetInv
<1>3. LeaveInv' /\ NoJoiners' /\ LockInv' /\ CountInv' /\ CounterInv'
  BY <1>m, <1>1, StagesStay, StagesOfAside, NumberStays
     DEF LeaveInv, In, Aside, SameStack, NoJoiners, LockInv, CountInv, CounterInv
<1>4. InsideInv' /\ PointerInv' /\ ModeInv' /\ ModesAgree' /\ PresentInv' /\ IdleInv'
      /\ BusyInv'
  BY <1>m
     DEF InsideInv, In, Aside, SameStack, PointerInv, ModeInv, ModesAgree, PresentInv, TypeOK,
         CpuDataType, IdleInv, BusyInv
<1>5. TokenInv' /\ TaskInv'
  BY <1>m, StagesStay, <1>s
     DEF TokenInv, In, Waits, Past, Starting, Signalled, Aside, SameStack, BusyInv, TaskInv
<1> QED
  BY <1>1, <1>2, <1>3, <1>4, <1>5

\* The AP of a relaxed run sets Present and goes straight to the wait for
\* work.
LEMMA PresentRelaxed ==
  ASSUME ~GiveUpRace, TypeOK, OneBsp, RunInv,
         NEW m \in Cpu,
         Aside(m),
         pc[m] = "ap_present",
         pc'[m] = "ap_work",
         ~Gathers(m),
         present' = [present EXCEPT ![m] = TRUE],
         UNCHANGED <<counter, insideSmm, bspIndex, run, busy, syncMode, effectiveSyncMode, bsp,
                     index, apCount, left, inWorker>>
  PROVE  RunInv'
<1> USE DEF RunInv, Stays, Avoids, Enters, Quits
<1>m. /\ Stays(m, CountedLabels) /\ Stays(m, ApLabels) /\ Stays(m, DueServe)
      /\ Stays(m, ModeKnownLabels)
      /\ Avoids(m, JoiningLabels) /\ Avoids(m, BspLabels)
      /\ Avoids(m, ArrivalLabels) /\ Avoids(m, MtrrLabels)
      /\ Avoids(m, InsideLabels) /\ Avoids(m, DueBackup)
      /\ Avoids(m, DueProgram) /\ Avoids(m, DueRestore) /\ Avoids(m, DueReset)
      /\ Avoids(m, PaidBackup) /\ Avoids(m, PaidRestore)
      /\ Avoids(m, PaidExit) /\ Avoids(m, PastMode)
      /\ Enters(m, DueExit) /\ Enters(m, PaidProgram)
      /\ Enters(m, PresentLabels)
      /\ Quits(m, DueArrive)
      /\ pc[m] \notin PaidArrive
      /\ (pc'[m] \in PaidArrive <=> ~NeedConfigureMtrrs)
  BY DEF CountedLabels, ArrivalLabels, InsideLabels, MtrrLabels, DueArrive, DueServe, DueExit,
         DueBackup, DueProgram, DueRestore, DueReset, PaidArrive, PaidBackup, PaidProgram,
         PaidRestore, PaidExit, ModeKnownLabels, PastMode, PresentLabels, RelLabels,
         ReleasedLabels, JoiningLabels, ApLabels, BspLabels, BspGatherLabels, BspCoreLabels,
         BspExitLabels, BspResetLabels, WaitLabels
<1>s. \A b \in Cpu \ {m} : ~BackingUp(b) /\ ~Programming(b) /\ ~Exiting(b) /\ ~Restoring(b)
      /\ ~Resetting(b) /\ ~Leaving(b)
  BY <1>m, AccountMember DEF In, BackupInv, ProgramInv, ExitInv, RestoreInv, ResetInv, LeaveInv
<1>g. \A b \in Cpu : Arriving(b) => (Gathers(b) <=> Gathers(m)) /\ Gathers(b)
  BY <1>m, StagesAreBsp DEF ModesAgree, In, Gathers, Arriving
<1>1. StageInv'
  BY <1>m DEF StageInv, In, Gathers, Aside, SameStack
<1>2. ArriveInv' /\ BackupInv' /\ ProgramInv' /\ ServeInv' /\ ExitInv' /\ RestoreInv'
      /\ ResetInv'
  BY <1>m, <1>1, StagesStay, StagesOfAside, AccountStays, AccountMember, <1>g
     DEF ArriveInv, Aside, BackupInv, ProgramInv, ServeInv, ExitInv, RestoreInv, ResetInv
<1>3. LeaveInv' /\ NoJoiners' /\ LockInv' /\ CountInv' /\ CounterInv'
  BY <1>m, <1>1, StagesStay, StagesOfAside, NumberStays
     DEF LeaveInv, In, Aside, SameStack, NoJoiners, LockInv, CountInv, CounterInv
<1>4. InsideInv' /\ PointerInv' /\ ModeInv' /\ ModesAgree' /\ PresentInv' /\ IdleInv'
      /\ BusyInv'
  BY <1>m
     DEF InsideInv, In, Aside, SameStack, PointerInv, ModeInv, ModesAgree, PresentInv, TypeOK,
         CpuDataType, IdleInv, BusyInv
<1>5. TokenInv' /\ TaskInv'
  BY <1>m, StagesStay, <1>s
     DEF TokenInv, In, Waits, Past, Starting, Signalled, Aside, SameStack, BusyInv, TaskInv
<1> QED
  BY <1>1, <1>2, <1>3, <1>4, <1>5

\* The arrival signal, when the MTRRs are to be programmed.
LEMMA ArriveSignalMtrrs ==
  ASSUME ~GiveUpRace, TypeOK, OneBsp, RunInv,
         NEW m \in Cpu,
         Aside(m),
         pc[m] = "ap_arrive",
         pc'[m] = "ap_wait_backup",
         Up(bsp[m]),
         UNCHANGED <<counter, insideSmm, bspIndex, present, busy, syncMode, effectiveSyncMode,
                     bsp, index, apCount, left, inWorker>>,
         NeedConfigureMtrrs
  PROVE  RunInv'
<1> USE DEF RunInv, Stays, Avoids, Enters, Quits
<1>m. /\ Stays(m, CountedLabels) /\ Stays(m, ApLabels)
      /\ Stays(m, ModeKnownLabels) /\ Stays(m, PresentLabels)
      /\ Avoids(m, JoiningLabels) /\ Avoids(m, BspLabels)
      /\ Avoids(m, ArrivalLabels) /\ Avoids(m, MtrrLabels)
      /\ Avoids(m, InsideLabels) /\ Avoids(m, DueExit)
      /\ Avoids(m, DueProgram) /\ Avoids(m, DueRestore) /\ Avoids(m, DueReset)
      /\ Avoids(m, PaidBackup) /\ Avoids(m, PaidProgram)
      /\ Avoids(m, PaidRestore) /\ Avoids(m, PaidExit) /\ Avoids(m, PastMode)
      /\ Enters(m, DueBackup)
      /\ Quits(m, DueArrive) /\ Quits(m, DueServe)
      /\ pc[m] \notin PaidArrive
      /\ (pc'[m] \in PaidArrive <=> NeedConfigureMtrrs)
  BY DEF CountedLabels, ArrivalLabels, InsideLabels, MtrrLabels, DueArrive, DueServe, DueExit,
         DueBackup, DueProgram, DueRestore, DueReset, PaidArrive, PaidBackup, PaidProgram,
         PaidRestore, PaidExit, ModeKnownLabels, PastMode, PresentLabels, RelLabels,
         ReleasedLabels, JoiningLabels, ApLabels, BspLabels, BspGatherLabels, BspCoreLabels,
         BspExitLabels, BspResetLabels, WaitLabels
<1>s. \A b \in Cpu \ {m} : ~BackingUp(b) /\ ~Programming(b) /\ ~Exiting(b) /\ ~Restoring(b)
      /\ ~Resetting(b) /\ ~Leaving(b)
  BY <1>m, AccountMember DEF In, BackupInv, ProgramInv, ExitInv, RestoreInv, ResetInv, LeaveInv
<1>r. /\ bsp[m] \in Cpu \ {m} /\ run[bsp[m]] \in Nat /\ run'[bsp[m]] = run[bsp[m]] + 1
      /\ \A c \in Cpu \ {bsp[m]} : run'[c] = run[c]
      /\ \A b \in Cpu : In(b, BspLabels) => b = bsp[m]
      /\ run' \in [Cpu -> Nat]
      /\ In(bsp[m], BspLabels) /\ ~In(bsp[m], ApLabels)
  BY <1>m, OnlyOneBsp
     DEF Up, ReleaseSemaphore, Locked, PointerInv, IdleInv, In, BspLabels, BspGatherLabels,
         BspCoreLabels, BspExitLabels, BspResetLabels, ApLabels
<1>g. \A b \in Cpu : ~Serving(b)
  BY <1>m, ServingClosed DEF ModesAgree, In, Gathers, StageInv, NoJoiners
<1>1. StageInv'
  BY <1>m DEF StageInv, In, Gathers, Aside, SameStack
<1>2. ArriveInv' /\ BackupInv' /\ ProgramInv' /\ ServeInv' /\ ExitInv' /\ RestoreInv'
      /\ ResetInv'
  BY <1>m, <1>1, StagesStay, StagesOfAside, AccountMember, <1>r, AccountPaid, StagesAreBsp, <1>g
     DEF ArriveInv, Aside, BackupInv, ProgramInv, ServeInv, ExitInv, RestoreInv, ResetInv
<1>3. LeaveInv' /\ NoJoiners' /\ LockInv' /\ CountInv' /\ CounterInv'
  BY <1>m, <1>1, StagesStay, StagesOfAside, NumberStays
     DEF LeaveInv, In, Aside, SameStack, NoJoiners, LockInv, CountInv, CounterInv
<1>4. InsideInv' /\ PointerInv' /\ ModeInv' /\ ModesAgree' /\ PresentInv' /\ IdleInv'
      /\ BusyInv'
  BY <1>m, <1>r
     DEF InsideInv, In, Aside, SameStack, PointerInv, ModeInv, ModesAgree, PresentInv, IdleInv,
         BusyInv
<1>5. TokenInv' /\ TaskInv'
  BY <1>m, StagesStay, <1>s, <1>r
     DEF TokenInv, In, Waits, Past, Starting, Signalled, Aside, SameStack, BusyInv, TaskInv
<1> QED
  BY <1>1, <1>2, <1>3, <1>4, <1>5

\* The arrival signal, when the MTRRs are left alone.
LEMMA ArriveSignal ==
  ASSUME ~GiveUpRace, TypeOK, OneBsp, RunInv,
         NEW m \in Cpu,
         Aside(m),
         pc[m] = "ap_arrive",
         pc'[m] = "ap_work",
         Up(bsp[m]),
         UNCHANGED <<counter, insideSmm, bspIndex, present, busy, syncMode, effectiveSyncMode,
                     bsp, index, apCount, left, inWorker>>,
         ~NeedConfigureMtrrs
  PROVE  RunInv'
<1> USE DEF RunInv, Stays, Avoids, Enters, Quits
<1>m. /\ Stays(m, CountedLabels) /\ Stays(m, ApLabels) /\ Stays(m, DueServe)
      /\ Stays(m, ModeKnownLabels) /\ Stays(m, PresentLabels)
      /\ Avoids(m, JoiningLabels) /\ Avoids(m, BspLabels)
      /\ Avoids(m, ArrivalLabels) /\ Avoids(m, MtrrLabels)
      /\ Avoids(m, InsideLabels) /\ Avoids(m, DueBackup)
      /\ Avoids(m, DueProgram) /\ Avoids(m, DueRestore) /\ Avoids(m, DueReset)
      /\ Avoids(m, PaidBackup) /\ Avoids(m, PaidRestore)
      /\ Avoids(m, PaidExit) /\ Avoids(m, PastMode)
      /\ Enters(m, DueExit) /\ Enters(m, PaidProgram)
      /\ Quits(m, DueArrive)
      /\ pc[m] \notin PaidArrive
      /\ (pc'[m] \in PaidArrive <=> ~NeedConfigureMtrrs)
  BY DEF CountedLabels, ArrivalLabels, InsideLabels, MtrrLabels, DueArrive, DueServe, DueExit,
         DueBackup, DueProgram, DueRestore, DueReset, PaidArrive, PaidBackup, PaidProgram,
         PaidRestore, PaidExit, ModeKnownLabels, PastMode, PresentLabels, RelLabels,
         ReleasedLabels, JoiningLabels, ApLabels, BspLabels, BspGatherLabels, BspCoreLabels,
         BspExitLabels, BspResetLabels, WaitLabels
<1>s. \A b \in Cpu \ {m} : ~BackingUp(b) /\ ~Programming(b) /\ ~Exiting(b) /\ ~Restoring(b)
      /\ ~Resetting(b) /\ ~Leaving(b)
  BY <1>m, AccountMember DEF In, BackupInv, ProgramInv, ExitInv, RestoreInv, ResetInv, LeaveInv
<1>r. /\ bsp[m] \in Cpu \ {m} /\ run[bsp[m]] \in Nat /\ run'[bsp[m]] = run[bsp[m]] + 1
      /\ \A c \in Cpu \ {bsp[m]} : run'[c] = run[c]
      /\ \A b \in Cpu : In(b, BspLabels) => b = bsp[m]
      /\ run' \in [Cpu -> Nat]
      /\ In(bsp[m], BspLabels) /\ ~In(bsp[m], ApLabels)
  BY <1>m, OnlyOneBsp
     DEF Up, ReleaseSemaphore, Locked, PointerInv, IdleInv, In, BspLabels, BspGatherLabels,
         BspCoreLabels, BspExitLabels, BspResetLabels, ApLabels
<1>g. \A b \in Cpu : ~Serving(b)
  BY <1>m, StagesAreBsp, ServingClosed DEF ModesAgree, In, Gathers, StageInv, NoJoiners
<1>1. StageInv'
  BY <1>m DEF StageInv, In, Gathers, Aside, SameStack
<1>2. ArriveInv' /\ BackupInv' /\ ProgramInv' /\ ServeInv' /\ ExitInv' /\ RestoreInv'
      /\ ResetInv'
  BY <1>m, <1>1, StagesStay, StagesOfAside, AccountMember, <1>r, AccountPaid, StagesAreBsp, <1>g
     DEF ArriveInv, Aside, BackupInv, ProgramInv, ServeInv, ExitInv, RestoreInv, ResetInv
<1>3. LeaveInv' /\ NoJoiners' /\ LockInv' /\ CountInv' /\ CounterInv'
  BY <1>m, <1>1, StagesStay, StagesOfAside, NumberStays
     DEF LeaveInv, In, Aside, SameStack, NoJoiners, LockInv, CountInv, CounterInv
<1>4. InsideInv' /\ PointerInv' /\ ModeInv' /\ ModesAgree' /\ PresentInv' /\ IdleInv'
      /\ BusyInv'
  BY <1>m, <1>r
     DEF InsideInv, In, Aside, SameStack, PointerInv, ModeInv, ModesAgree, PresentInv, IdleInv,
         BusyInv
<1>5. TokenInv' /\ TaskInv'
  BY <1>m, StagesStay, <1>s, <1>r
     DEF TokenInv, In, Waits, Past, Starting, Signalled, Aside, SameStack, BusyInv, TaskInv
<1> QED
  BY <1>1, <1>2, <1>3, <1>4, <1>5

\* The AP takes the release to back its MTRRs up.
LEMMA BackupWait ==
  ASSUME ~GiveUpRace, TypeOK, OneBsp, RunInv,
         NEW m \in Cpu,
         Aside(m),
         pc[m] = "ap_wait_backup",
         pc'[m] = "ap_backup",
         Down(m),
         UNCHANGED <<counter, insideSmm, bspIndex, present, busy, syncMode, effectiveSyncMode,
                     bsp, index, apCount, left, inWorker>>
  PROVE  RunInv'
<1> USE DEF RunInv, Stays, Avoids
<1>m. /\ Stays(m, CountedLabels) /\ Stays(m, ApLabels) /\ Stays(m, DueBackup)
      /\ Stays(m, ModeKnownLabels) /\ Stays(m, PresentLabels)
      /\ Avoids(m, JoiningLabels) /\ Avoids(m, BspLabels)
      /\ Avoids(m, ArrivalLabels) /\ Avoids(m, MtrrLabels)
      /\ Avoids(m, InsideLabels) /\ Avoids(m, DueArrive)
      /\ Avoids(m, DueServe) /\ Avoids(m, DueExit) /\ Avoids(m, DueProgram)
      /\ Avoids(m, DueRestore) /\ Avoids(m, DueReset) /\ Avoids(m, PaidBackup)
      /\ Avoids(m, PaidProgram) /\ Avoids(m, PaidRestore)
      /\ Avoids(m, PaidExit) /\ Avoids(m, PastMode)
      /\ (pc[m] \in PaidArrive <=> NeedConfigureMtrrs)
      /\ pc'[m] \notin PaidArrive
  BY DEF CountedLabels, ArrivalLabels, InsideLabels, MtrrLabels, DueArrive, DueServe, DueExit,
         DueBackup, DueProgram, DueRestore, DueReset, PaidArrive, PaidBackup, PaidProgram,
         PaidRestore, PaidExit, ModeKnownLabels, PastMode, PresentLabels, RelLabels,
         ReleasedLabels, JoiningLabels, ApLabels, BspLabels, BspGatherLabels, BspCoreLabels,
         BspExitLabels, BspResetLabels, WaitLabels
<1>s. \A b \in Cpu \ {m} : (Arriving(b) => NeedConfigureMtrrs) /\ ~Programming(b)
      /\ ~Serving(b) /\ ~Exiting(b) /\ ~Restoring(b) /\ ~Resetting(b) /\ ~Leaving(b)
  BY <1>m, AccountMember
     DEF In, ArriveInv, ProgramInv, ServeInv, ExitInv, RestoreInv, ResetInv, LeaveInv
<1>b. /\ bsp[m] \in Cpu \ {m} /\ In(bsp[m], BspLabels)
      /\ \A b \in Cpu : In(b, BspLabels) => b = bsp[m]
  BY <1>m, BspOfAp DEF In
<1>r. /\ run[m] = 1 /\ run'[m] = 0 /\ run' \in [Cpu -> Nat]
      /\ \A c \in Cpu \ {m} : run'[c] = run[c]
      /\ \A b \in Cpu : In(b, BspLabels) => Signalled(b, m)
  BY <1>m, <1>b DEF Down, WaitForSemaphore, TokenInv, IdleInv, In
<1>w. BackingUp(bsp[m]) /\ Woken(bsp[m], m)
  BY <1>m, <1>b, <1>r DEF Signalled, Waits, In
<1>1. StageInv'
  BY <1>m DEF StageInv, In, Gathers, Aside, SameStack
<1>2. ArriveInv' /\ BackupInv' /\ ProgramInv' /\ ServeInv' /\ ExitInv' /\ RestoreInv'
      /\ ResetInv'
  BY <1>m, <1>1, StagesStay, StagesOfAside, AccountStays, <1>r, <1>b, <1>w, OneStage,
     StagesAreBsp
     DEF ArriveInv, Aside, BackupInv, ProgramInv, ServeInv, ExitInv, RestoreInv, ResetInv
<1>3. LeaveInv' /\ NoJoiners' /\ LockInv' /\ CountInv' /\ CounterInv'
  BY <1>m, <1>1, StagesStay, StagesOfAside, NumberStays
     DEF LeaveInv, In, Aside, SameStack, NoJoiners, LockInv, CountInv, CounterInv
<1>4. InsideInv' /\ PointerInv' /\ ModeInv' /\ ModesAgree' /\ PresentInv' /\ IdleInv'
      /\ BusyInv'
  BY <1>m, <1>r
     DEF InsideInv, In, Aside, SameStack, PointerInv, ModeInv, ModesAgree, PresentInv, IdleInv,
         BusyInv
<1>5. TokenInv' /\ TaskInv'
  BY <1>m, StagesStay, <1>r
     DEF TokenInv, In, Woken, Waits, Past, Starting, Signalled, Aside, SameStack, BusyInv,
         TaskInv
<1> QED
  BY <1>1, <1>2, <1>3, <1>4, <1>5

\* The AP takes the release to program its MTRRs.
LEMMA ProgramWait ==
  ASSUME ~GiveUpRace, TypeOK, OneBsp, RunInv,
         NEW m \in Cpu,
         Aside(m),
         pc[m] = "ap_wait_program",
         pc'[m] = "ap_program",
         Down(m),
         UNCHANGED <<counter, insideSmm, bspIndex, present, busy, syncMode, effectiveSyncMode,
                     bsp, index, apCount, left, inWorker>>
  PROVE  RunInv'
<1> USE DEF RunInv, Stays, Avoids, Quits
<1>m. /\ Stays(m, CountedLabels) /\ Stays(m, ApLabels) /\ Stays(m, DueProgram)
      /\ Stays(m, ModeKnownLabels) /\ Stays(m, PresentLabels)
      /\ Avoids(m, JoiningLabels) /\ Avoids(m, BspLabels)
      /\ Avoids(m, ArrivalLabels) /\ Avoids(m, MtrrLabels)
      /\ Avoids(m, InsideLabels) /\ Avoids(m, DueArrive)
      /\ Avoids(m, DueServe) /\ Avoids(m, DueExit) /\ Avoids(m, DueBackup)
      /\ Avoids(m, DueRestore) /\ Avoids(m, DueReset) /\ Avoids(m, PaidArrive)
      /\ Avoids(m, PaidProgram) /\ Avoids(m, PaidRestore)
      /\ Avoids(m, PaidExit) /\ Avoids(m, PastMode)
      /\ Quits(m, PaidBackup)
  BY DEF CountedLabels, ArrivalLabels, InsideLabels, MtrrLabels, DueArrive, DueServe, DueExit,
         DueBackup, DueProgram, DueRestore, DueReset, PaidArrive, PaidBackup, PaidProgram,
         PaidRestore, PaidExit, ModeKnownLabels, PastMode, PresentLabels, RelLabels,
         ReleasedLabels, JoiningLabels, ApLabels, BspLabels, BspGatherLabels, BspCoreLabels,
         BspExitLabels, BspResetLabels, WaitLabels
<1>s. \A b \in Cpu \ {m} : ~Arriving(b) /\ ~Serving(b) /\ ~Exiting(b) /\ ~Restoring(b)
      /\ ~Resetting(b) /\ ~Leaving(b)
  BY <1>m, AccountMember DEF In, ArriveInv, ServeInv, ExitInv, RestoreInv, ResetInv, LeaveInv
<1>b. /\ bsp[m] \in Cpu \ {m} /\ In(bsp[m], BspLabels)
      /\ \A b \in Cpu : In(b, BspLabels) => b = bsp[m]
  BY <1>m, BspOfAp DEF In
<1>r. /\ run[m] = 1 /\ run'[m] = 0 /\ run' \in [Cpu -> Nat]
      /\ \A c \in Cpu \ {m} : run'[c] = run[c]
      /\ \A b \in Cpu : In(b, BspLabels) => Signalled(b, m)
  BY <1>m, <1>b DEF Down, WaitForSemaphore, TokenInv, IdleInv, In
<1>w. Programming(bsp[m]) /\ Woken(bsp[m], m)
  BY <1>m, <1>b, <1>r DEF Signalled, Waits, In
<1>1. StageInv'
  BY <1>m DEF StageInv, In, Gathers, Aside, SameStack
<1>2. ArriveInv' /\ BackupInv' /\ ProgramInv' /\ ServeInv' /\ ExitInv' /\ RestoreInv'
      /\ ResetInv'
  BY <1>m, <1>1, StagesStay, StagesOfAside, AccountStays, <1>r, <1>b, <1>w, OneStage,
     StagesAreBsp
     DEF ArriveInv, Aside, BackupInv, ProgramInv, ServeInv, ExitInv, RestoreInv, ResetInv
<1>3. LeaveInv' /\ NoJoiners' /\ LockInv' /\ CountInv' /\ CounterInv'
  BY <1>m, <1>1, StagesStay, StagesOfAside, NumberStays
     DEF LeaveInv, In, Aside, SameStack, NoJoiners, LockInv, CountInv, CounterInv
<1>4. InsideInv' /\ PointerInv' /\ ModeInv' /\ ModesAgree' /\ PresentInv' /\ IdleInv'
      /\ BusyInv'
  BY <1>m, <1>r
     DEF InsideInv, In, Aside, SameStack, PointerInv, ModeInv, ModesAgree, PresentInv, IdleInv,
         BusyInv
<1>5. TokenInv' /\ TaskInv'
  BY <1>m, StagesStay, <1>r
     DEF TokenInv, In, Woken, Waits, Past, Starting, Signalled, Aside, SameStack, BusyInv,
         TaskInv
<1> QED
  BY <1>1, <1>2, <1>3, <1>4, <1>5

\* The AP takes the release to restore its MTRRs.
LEMMA RestoreWait ==
  ASSUME ~GiveUpRace, TypeOK, OneBsp, RunInv,
         NEW m \in Cpu,
         Aside(m),
         pc[m] = "ap_wait_restore",
         pc'[m] = "ap_ready",
         Down(m),
         UNCHANGED <<counter, insideSmm, bspIndex, present, busy, syncMode, effectiveSyncMode,
                     bsp, index, apCount, left, inWorker>>
  PROVE  RunInv'
<1> USE DEF RunInv, Stays, Avoids
<1>m. /\ Stays(m, CountedLabels) /\ Stays(m, ApLabels) /\ Stays(m, DueRestore)
      /\ Stays(m, ModeKnownLabels) /\ Stays(m, PresentLabels)
      /\ Avoids(m, JoiningLabels) /\ Avoids(m, BspLabels)
      /\ Avoids(m, ArrivalLabels) /\ Avoids(m, MtrrLabels)
      /\ Avoids(m, InsideLabels) /\ Avoids(m, DueArrive)
      /\ Avoids(m, DueServe) /\ Avoids(m, DueBackup) /\ Avoids(m, DueProgram)
      /\ Avoids(m, DueReset) /\ Avoids(m, PaidArrive) /\ Avoids(m, PaidBackup)
      /\ Avoids(m, PaidProgram) /\ Avoids(m, PaidRestore)
      /\ Avoids(m, PastMode)
      /\ pc[m] \notin DueExit
      /\ (pc'[m] \in DueExit <=> ~NeedConfigureMtrrs)
      /\ (pc[m] \in PaidExit <=> NeedConfigureMtrrs)
      /\ pc'[m] \notin PaidExit
  BY DEF CountedLabels, ArrivalLabels, InsideLabels, MtrrLabels, DueArrive, DueServe, DueExit,
         DueBackup, DueProgram, DueRestore, DueReset, PaidArrive, PaidBackup, PaidProgram,
         PaidRestore, PaidExit, ModeKnownLabels, PastMode, PresentLabels, RelLabels,
         ReleasedLabels, JoiningLabels, ApLabels, BspLabels, BspGatherLabels, BspCoreLabels,
         BspExitLabels, BspResetLabels, WaitLabels
<1>s. \A b \in Cpu \ {m} : ~Arriving(b) /\ ~BackingUp(b) /\ ~Programming(b) /\ ~Serving(b)
      /\ (Exiting(b) => NeedConfigureMtrrs) /\ ~Resetting(b) /\ ~Leaving(b)
  BY <1>m, AccountMember
     DEF In, ArriveInv, BackupInv, ProgramInv, ServeInv, ExitInv, ResetInv, LeaveInv
<1>b. /\ bsp[m] \in Cpu \ {m} /\ In(bsp[m], BspLabels)
      /\ \A b \in Cpu : In(b, BspLabels) => b = bsp[m]
  BY <1>m, BspOfAp DEF In
<1>r. /\ run[m] = 1 /\ run'[m] = 0 /\ run' \in [Cpu -> Nat]
      /\ \A c \in Cpu \ {m} : run'[c] = run[c]
      /\ \A b \in Cpu : In(b, BspLabels) => Signalled(b, m)
  BY <1>m, <1>b DEF Down, WaitForSemaphore, TokenInv, IdleInv, In
<1>w. Restoring(bsp[m]) /\ Woken(bsp[m], m)
  BY <1>m, <1>b, <1>r DEF Signalled, Waits, In
<1>1. StageInv'
  BY <1>m DEF StageInv, In, Gathers, Aside, SameStack
<1>2. ArriveInv' /\ BackupInv' /\ ProgramInv' /\ ServeInv' /\ ExitInv' /\ RestoreInv'
      /\ ResetInv'
  BY <1>m, <1>1, StagesStay, StagesOfAside, AccountStays, <1>r, <1>b, <1>w, OneStage,
     StagesAreBsp
     DEF ArriveInv, Aside, BackupInv, ProgramInv, ServeInv, ExitInv, RestoreInv, ResetInv
<1>3. LeaveInv' /\ NoJoiners' /\ LockInv' /\ CountInv' /\ CounterInv'
  BY <1>m, <1>1, StagesStay, StagesOfAside, NumberStays
     DEF LeaveInv, In, Aside, SameStack, NoJoiners, LockInv, CountInv, CounterInv
<1>4. InsideInv' /\ PointerInv' /\ ModeInv' /\ ModesAgree' /\ PresentInv' /\ IdleInv'
      /\ BusyInv'
  BY <1>m, <1>r
     DEF InsideInv, In, Aside, SameStack, PointerInv, ModeInv, ModesAgree, PresentInv, IdleInv,
         BusyInv
<1>5. TokenInv' /\ TaskInv'
  BY <1>m, StagesStay, <1>r
     DEF TokenInv, In, Woken, Waits, Past, Starting, Signalled, Aside, SameStack, BusyInv,
         TaskInv
<1> QED
  BY <1>1, <1>2, <1>3, <1>4, <1>5

\* The AP takes the release to reset its state.
LEMMA ResetWait ==
  ASSUME ~GiveUpRace, TypeOK, OneBsp, RunInv,
         NEW m \in Cpu,
         Aside(m),
         pc[m] = "ap_wait_reset",
         pc'[m] = "ap_absent",
         Down(m),
         UNCHANGED <<counter, insideSmm, bspIndex, present, busy, syncMode, effectiveSyncMode,
                     bsp, index, apCount, left, inWorker>>
  PROVE  RunInv'
<1> USE DEF RunInv, Stays, Avoids, Quits
<1>m. /\ Stays(m, CountedLabels) /\ Stays(m, ApLabels) /\ Stays(m, DueReset)
      /\ Stays(m, ModeKnownLabels) /\ Stays(m, PresentLabels)
      /\ Avoids(m, JoiningLabels) /\ Avoids(m, BspLabels)
      /\ Avoids(m, ArrivalLabels) /\ Avoids(m, MtrrLabels)
      /\ Avoids(m, InsideLabels) /\ Avoids(m, DueArrive)
      /\ Avoids(m, DueServe) /\ Avoids(m, DueExit) /\ Avoids(m, DueBackup)
      /\ Avoids(m, DueProgram) /\ Avoids(m, DueRestore)
      /\ Avoids(m, PaidArrive) /\ Avoids(m, PaidBackup)
      /\ Avoids(m, PaidProgram) /\ Avoids(m, PastMode)
      /\ Quits(m, PaidRestore)
      /\ (pc[m] \in PaidExit <=> ~NeedConfigureMtrrs)
      /\ pc'[m] \notin PaidExit
  BY DEF CountedLabels, ArrivalLabels, InsideLabels, MtrrLabels, DueArrive, DueServe, DueExit,
         DueBackup, DueProgram, DueRestore, DueReset, PaidArrive, PaidBackup, PaidProgram,
         PaidRestore, PaidExit, ModeKnownLabels, PastMode, PresentLabels, RelLabels,
         ReleasedLabels, JoiningLabels, ApLabels, BspLabels, BspGatherLabels, BspCoreLabels,
         BspExitLabels, BspResetLabels, WaitLabels
<1>s. \A b \in Cpu \ {m} : ~Arriving(b) /\ ~BackingUp(b) /\ ~Programming(b) /\ ~Serving(b)
      /\ (Exiting(b) => ~NeedConfigureMtrrs) /\ ~Leaving(b)
  BY <1>m, AccountMember DEF In, ArriveInv, BackupInv, ProgramInv, ServeInv, ExitInv, LeaveInv
<1>b. /\ bsp[m] \in Cpu \ {m} /\ In(bsp[m], BspLabels)
      /\ \A b \in Cpu : In(b, BspLabels) => b = bsp[m]
  BY <1>m, BspOfAp DEF In
<1>r. /\ run[m] = 1 /\ run'[m] = 0 /\ run' \in [Cpu -> Nat]
      /\ \A c \in Cpu \ {m} : run'[c] = run[c]
      /\ \A b \in Cpu : In(b, BspLabels) => Signalled(b, m)
  BY <1>m, <1>b DEF Down, WaitForSemaphore, TokenInv, IdleInv, In
<1>w. Resetting(bsp[m]) /\ Woken(bsp[m], m)
  BY <1>m, <1>b, <1>r DEF Signalled, Waits, In
<1>1. StageInv'
  BY <1>m DEF StageInv, In, Gathers, Aside, SameStack
<1>2. ArriveInv' /\ BackupInv' /\ ProgramInv' /\ ServeInv' /\ ExitInv' /\ RestoreInv'
      /\ ResetInv'
  BY <1>m, <1>1, StagesStay, StagesOfAside, AccountStays, <1>r, <1>b, <1>w, OneStage,
     StagesAreBsp
     DEF ArriveInv, Aside, BackupInv, ProgramInv, ServeInv, ExitInv, RestoreInv, ResetInv
<1>3. LeaveInv' /\ NoJoiners' /\ LockInv' /\ CountInv' /\ CounterInv'
  BY <1>m, <1>1, StagesStay, StagesOfAside, NumberStays
     DEF LeaveInv, In, Aside, SameStack, NoJoiners, LockInv, CountInv, CounterInv
<1>4. InsideInv' /\ PointerInv' /\ ModeInv' /\ ModesAgree' /\ PresentInv' /\ IdleInv'
      /\ BusyInv'
  BY <1>m, <1>r
     DEF InsideInv, In, Aside, SameStack, PointerInv, ModeInv, ModesAgree, PresentInv, IdleInv,
         BusyInv
<1>5. TokenInv' /\ TaskInv'
  BY <1>m, StagesStay, <1>r
     DEF TokenInv, In, Woken, Waits, Past, Starting, Signalled, Aside, SameStack, BusyInv,
         TaskInv
<1> QED
  BY <1>1, <1>2, <1>3, <1>4, <1>5

\* The AP takes a semaphore of the wait for work: a procedure or the end of
\* the run.
LEMMA WorkWait ==
  ASSUME ~GiveUpRace, TypeOK, OneBsp, RunInv,
         NEW m \in Cpu,
         Aside(m),
         pc[m] = "ap_work",
         pc'[m] = "ap_check",
         Down(m),
         UNCHANGED <<counter, insideSmm, bspIndex, present, busy, syncMode, effectiveSyncMode,
                     bsp, index, apCount, left, inWorker>>
  PROVE  RunInv'
<1> USE DEF RunInv, Stays, Avoids, Quits
<1>m. /\ Stays(m, CountedLabels) /\ Stays(m, ApLabels) /\ Stays(m, DueServe)
      /\ Stays(m, DueExit) /\ Stays(m, ModeKnownLabels)
      /\ Stays(m, PresentLabels)
      /\ Avoids(m, JoiningLabels) /\ Avoids(m, BspLabels)
      /\ Avoids(m, ArrivalLabels) /\ Avoids(m, MtrrLabels)
      /\ Avoids(m, InsideLabels) /\ Avoids(m, DueArrive)
      /\ Avoids(m, DueBackup) /\ Avoids(m, DueProgram)
      /\ Avoids(m, DueRestore) /\ Avoids(m, DueReset) /\ Avoids(m, PaidBackup)
      /\ Avoids(m, PaidRestore) /\ Avoids(m, PaidExit) /\ Avoids(m, PastMode)
      /\ Quits(m, PaidProgram)
      /\ (pc[m] \in PaidArrive <=> ~NeedConfigureMtrrs)
      /\ pc'[m] \notin PaidArrive
  BY DEF CountedLabels, ArrivalLabels, InsideLabels, MtrrLabels, DueArrive, DueServe, DueExit,
         DueBackup, DueProgram, DueRestore, DueReset, PaidArrive, PaidBackup, PaidProgram,
         PaidRestore, PaidExit, ModeKnownLabels, PastMode, PresentLabels, RelLabels,
         ReleasedLabels, JoiningLabels, ApLabels, BspLabels, BspGatherLabels, BspCoreLabels,
         BspExitLabels, BspResetLabels, WaitLabels
<1>s. \A b \in Cpu \ {m} : (Arriving(b) => ~NeedConfigureMtrrs) /\ ~BackingUp(b)
      /\ ~Restoring(b) /\ ~Resetting(b) /\ ~Leaving(b)
  BY <1>m, AccountMember DEF In, ArriveInv, BackupInv, RestoreInv, ResetInv, LeaveInv
<1>b. /\ bsp[m] \in Cpu \ {m} /\ In(bsp[m], BspLabels)
      /\ \A b \in Cpu : In(b, BspLabels) => b = bsp[m]
  BY <1>m, BspOfAp DEF In
<1>r. /\ run[m] = 1 /\ run'[m] = 0 /\ run' \in [Cpu -> Nat]
      /\ \A c \in Cpu \ {m} : run'[c] = run[c]
      /\ \A b \in Cpu : In(b, BspLabels) => Signalled(b, m)
  BY <1>m, <1>b DEF Down, WaitForSemaphore, TokenInv, IdleInv, In
<1>v. busy[m] => Serving(bsp[m])
  BY <1>b, <1>m DEF TaskInv, In, Serving
<1>w. /\ ~Starting(bsp[m], m)
      /\ \/ busy[m] /\ Serving(bsp[m])
         \/ Exiting(bsp[m]) /\ Woken(bsp[m], m)
  BY <1>m, <1>b, <1>r, <1>v DEF Signalled, Waits, In, Starting, Exiting
<1>1. StageInv'
  BY <1>m DEF StageInv, In, Gathers, Aside, SameStack
<1>2. ArriveInv' /\ BackupInv' /\ ProgramInv' /\ ServeInv' /\ ExitInv' /\ RestoreInv'
      /\ ResetInv'
  BY <1>m, <1>1, StagesStay, StagesOfAside, AccountStays, <1>r, <1>b, <1>w, OneStage,
     StagesAreBsp
     DEF ArriveInv, Aside, BackupInv, ProgramInv, ServeInv, ExitInv, RestoreInv, ResetInv
<1>3. LeaveInv' /\ NoJoiners' /\ LockInv' /\ CountInv' /\ CounterInv'
  BY <1>m, <1>1, StagesStay, StagesOfAside, NumberStays
     DEF LeaveInv, In, Aside, SameStack, NoJoiners, LockInv, CountInv, CounterInv
<1>4. InsideInv' /\ PointerInv' /\ ModeInv' /\ ModesAgree' /\ PresentInv' /\ IdleInv'
      /\ BusyInv'
  BY <1>m, <1>r
     DEF InsideInv, In, Aside, SameStack, PointerInv, ModeInv, ModesAgree, PresentInv, IdleInv,
         BusyInv
<1>5. TokenInv' /\ TaskInv'
  BY <1>m, StagesStay, <1>r, <1>b, <1>w, OneStage
     DEF TokenInv, In, Woken, Waits, Past, Starting, Signalled, Aside, SameStack, TaskInv,
         BspLabels, BspCoreLabels
<1> QED
  BY <1>1, <1>2, <1>3, <1>4, <1>5

\* InsideSmm is set, so what woke the AP is a procedure.
LEMMA CheckWork ==
  ASSUME ~GiveUpRace, TypeOK, OneBsp, RunInv,
         NEW m \in Cpu,
         Aside(m),
         pc[m] = "ap_check",
         pc'[m] = "ap_procedure",
         insideSmm,
         UNCHANGED <<counter, insideSmm, bspIndex, run, present, busy, syncMode,
                     effectiveSyncMode, bsp, index, apCount, left, inWorker>>
  PROVE  RunInv'
<1> USE DEF RunInv, Stays, Avoids
<1>m. /\ Stays(m, CountedLabels) /\ Stays(m, ApLabels) /\ Stays(m, DueServe)
      /\ Stays(m, DueExit) /\ Stays(m, ModeKnownLabels)
      /\ Stays(m, PresentLabels)
      /\ Avoids(m, JoiningLabels) /\ Avoids(m, BspLabels)
      /\ Avoids(m, ArrivalLabels) /\ Avoids(m, MtrrLabels)
      /\ Avoids(m, InsideLabels) /\ Avoids(m, DueArrive)
      /\ Avoids(m, DueBackup) /\ Avoids(m, DueProgram)
      /\ Avoids(m, DueRestore) /\ Avoids(m, DueReset) /\ Avoids(m, PaidArrive)
      /\ Avoids(m, PaidBackup) /\ Avoids(m, PaidProgram)
      /\ Avoids(m, PaidRestore) /\ Avoids(m, PaidExit) /\ Avoids(m, PastMode)
  BY DEF CountedLabels, ArrivalLabels, InsideLabels, MtrrLabels, DueArrive, DueServe, DueExit,
         DueBackup, DueProgram, DueRestore, DueReset, PaidArrive, PaidBackup, PaidProgram,
         PaidRestore, PaidExit, ModeKnownLabels, PastMode, PresentLabels, RelLabels,
         ReleasedLabels, JoiningLabels, ApLabels, BspLabels, BspGatherLabels, BspCoreLabels,
         BspExitLabels, BspResetLabels, WaitLabels
<1>s. \A b \in Cpu \ {m} : ~Arriving(b) /\ ~BackingUp(b) /\ ~Programming(b)
      /\ ~Restoring(b) /\ ~Resetting(b) /\ ~Leaving(b)
  BY <1>m, AccountMember
     DEF In, ArriveInv, BackupInv, ProgramInv, RestoreInv, ResetInv, LeaveInv
<1>b. /\ bsp[m] \in Cpu \ {m} /\ In(bsp[m], BspLabels)
      /\ \A b \in Cpu : In(b, BspLabels) => b = bsp[m]
  BY <1>m, BspOfAp DEF In
<1>i. insideSmm => busy[m] /\ ~Exiting(bsp[m])
  BY <1>b, <1>m DEF InsideInv, TaskInv, In, Exiting, InsideLabels, BspExitLabels
<1>j. ~insideSmm => ~busy[m] /\ Exiting(bsp[m])
  BY <1>m DEF InsideInv, TaskInv, In, StageInv
<1>1. StageInv'
  BY <1>m DEF StageInv, In, Gathers, Aside, SameStack
<1>2. ArriveInv' /\ BackupInv' /\ ProgramInv' /\ ServeInv' /\ ExitInv' /\ RestoreInv'
      /\ ResetInv'
  BY <1>m, <1>1, StagesStay, StagesOfAside, AccountStays, AccountMember
     DEF ArriveInv, Aside, BackupInv, ProgramInv, ServeInv, ExitInv, RestoreInv, ResetInv
<1>3. LeaveInv' /\ NoJoiners' /\ LockInv' /\ CountInv' /\ CounterInv'
  BY <1>m, <1>1, StagesStay, StagesOfAside, NumberStays
     DEF LeaveInv, In, Aside, SameStack, NoJoiners, LockInv, CountInv, CounterInv
<1>4. InsideInv' /\ PointerInv' /\ ModeInv' /\ ModesAgree' /\ PresentInv' /\ IdleInv'
      /\ BusyInv'
  BY <1>m, <1>i
     DEF InsideInv, In, Aside, SameStack, PointerInv, ModeInv, ModesAgree, PresentInv, IdleInv,
         BusyInv
<1>5. TokenInv' /\ TaskInv'
  BY <1>m, StagesStay, <1>s, <1>i, <1>b
     DEF TokenInv, In, Waits, Past, Starting, Signalled, Aside, SameStack, BusyInv, TaskInv
<1> QED
  BY <1>1, <1>2, <1>3, <1>4, <1>5

\* InsideSmm is clear: the AP leaves its loop, with MTRRs to restore.
LEMMA CheckExitMtrrs ==
  ASSUME ~GiveUpRace, TypeOK, OneBsp, RunInv,
         NEW m \in Cpu,
         Aside(m),
         pc[m] = "ap_check",
         pc'[m] = "ap_rdy_restore",
         ~insideSmm,
         NeedConfigureMtrrs,
         UNCHANGED <<counter, insideSmm, bspIndex, run, present, busy, syncMode,
                     effectiveSyncMode, bsp, index, apCount, left, inWorker>>
  PROVE  RunInv'
<1> USE DEF RunInv, Stays, Avoids, Quits
<1>m. /\ Stays(m, CountedLabels) /\ Stays(m, ApLabels)
      /\ Stays(m, ModeKnownLabels) /\ Stays(m, PresentLabels)
      /\ Avoids(m, JoiningLabels) /\ Avoids(m, BspLabels)
      /\ Avoids(m, ArrivalLabels) /\ Avoids(m, MtrrLabels)
      /\ Avoids(m, InsideLabels) /\ Avoids(m, DueArrive)
      /\ Avoids(m, DueBackup) /\ Avoids(m, DueProgram)
      /\ Avoids(m, DueRestore) /\ Avoids(m, DueReset) /\ Avoids(m, PaidArrive)
      /\ Avoids(m, PaidBackup) /\ Avoids(m, PaidProgram)
      /\ Avoids(m, PaidRestore) /\ Avoids(m, PaidExit) /\ Avoids(m, PastMode)
      /\ Quits(m, DueServe)
      /\ pc[m] \in DueExit
      /\ (pc'[m] \in DueExit <=> NeedConfigureMtrrs)
  BY DEF CountedLabels, ArrivalLabels, InsideLabels, MtrrLabels, DueArrive, DueServe, DueExit,
         DueBackup, DueProgram, DueRestore, DueReset, PaidArrive, PaidBackup, PaidProgram,
         PaidRestore, PaidExit, ModeKnownLabels, PastMode, PresentLabels, RelLabels,
         ReleasedLabels, JoiningLabels, ApLabels, BspLabels, BspGatherLabels, BspCoreLabels,
         BspExitLabels, BspResetLabels, WaitLabels
<1>s. \A b \in Cpu \ {m} : ~Arriving(b) /\ ~BackingUp(b) /\ ~Programming(b)
      /\ ~Restoring(b) /\ ~Resetting(b) /\ ~Leaving(b)
  BY <1>m, AccountMember
     DEF In, ArriveInv, BackupInv, ProgramInv, RestoreInv, ResetInv, LeaveInv
<1>b. /\ bsp[m] \in Cpu \ {m} /\ In(bsp[m], BspLabels)
      /\ \A b \in Cpu : In(b, BspLabels) => b = bsp[m]
  BY <1>m, BspOfAp DEF In
<1>i. insideSmm => busy[m] /\ ~Exiting(bsp[m])
  BY <1>m DEF InsideInv, TaskInv, In
<1>j. ~insideSmm => ~busy[m] /\ Exiting(bsp[m])
  BY <1>b, <1>m
     DEF InsideInv, TaskInv, In, StageInv, ArrivalLabels, InsideLabels, BspCoreLabels,
         BspExitLabels, BspResetLabels
<1>1. StageInv'
  BY <1>m DEF StageInv, In, Gathers, Aside, SameStack
<1>2. ArriveInv' /\ BackupInv' /\ ProgramInv' /\ ServeInv' /\ ExitInv' /\ RestoreInv'
      /\ ResetInv'
  BY <1>m, <1>1, StagesStay, StagesOfAside, AccountStays, <1>j, <1>b, OneStage, StagesAreBsp
     DEF ArriveInv, Aside, BackupInv, ProgramInv, ServeInv, ExitInv, RestoreInv, ResetInv
<1>3. LeaveInv' /\ NoJoiners' /\ LockInv' /\ CountInv' /\ CounterInv'
  BY <1>m, <1>1, StagesStay, StagesOfAside, NumberStays
     DEF LeaveInv, In, Aside, SameStack, NoJoiners, LockInv, CountInv, CounterInv
<1>4. InsideInv' /\ PointerInv' /\ ModeInv' /\ ModesAgree' /\ PresentInv' /\ IdleInv'
      /\ BusyInv'
  BY <1>m, <1>j
     DEF InsideInv, In, Aside, SameStack, PointerInv, ModeInv, ModesAgree, PresentInv, IdleInv,
         BusyInv
<1>5. TokenInv' /\ TaskInv'
  BY <1>m, StagesStay
     DEF TokenInv, In, Woken, Waits, Past, Starting, Signalled, Aside, SameStack, BusyInv,
         TaskInv
<1> QED
  BY <1>1, <1>2, <1>3, <1>4, <1>5

\* InsideSmm is clear: the AP leaves its loop, and the signal it owes next is
\* the one to reset.
LEMMA CheckExit ==
  ASSUME ~GiveUpRace, TypeOK, OneBsp, RunInv,
         NEW m \in Cpu,
         Aside(m),
         pc[m] = "ap_check",
         pc'[m] = "ap_ready",
         ~insideSmm,
         ~NeedConfigureMtrrs,
         UNCHANGED <<counter, insideSmm, bspIndex, run, present, busy, syncMode,
                     effectiveSyncMode, bsp, index, apCount, left, inWorker>>
  PROVE  RunInv'
<1> USE DEF RunInv, Stays, Avoids, Enters, Quits
<1>m. /\ Stays(m, CountedLabels) /\ Stays(m, ApLabels)
      /\ Stays(m, ModeKnownLabels) /\ Stays(m, PresentLabels)
      /\ Avoids(m, JoiningLabels) /\ Avoids(m, BspLabels)
      /\ Avoids(m, ArrivalLabels) /\ Avoids(m, MtrrLabels)
      /\ Avoids(m, InsideLabels) /\ Avoids(m, DueArrive)
      /\ Avoids(m, DueBackup) /\ Avoids(m, DueProgram) /\ Avoids(m, DueReset)
      /\ Avoids(m, PaidArrive) /\ Avoids(m, PaidBackup)
      /\ Avoids(m, PaidProgram) /\ Avoids(m, PaidRestore)
      /\ Avoids(m, PaidExit) /\ Avoids(m, PastMode)
      /\ Enters(m, DueRestore)
      /\ Quits(m, DueServe)
      /\ pc[m] \in DueExit
      /\ (pc'[m] \in DueExit <=> ~NeedConfigureMtrrs)
  BY DEF CountedLabels, ArrivalLabels, InsideLabels, MtrrLabels, DueArrive, DueServe, DueExit,
         DueBackup, DueProgram, DueRestore, DueReset, PaidArrive, PaidBackup, PaidProgram,
         PaidRestore, PaidExit, ModeKnownLabels, PastMode, PresentLabels, RelLabels,
         ReleasedLabels, JoiningLabels, ApLabels, BspLabels, BspGatherLabels, BspCoreLabels,
         BspExitLabels, BspResetLabels, WaitLabels
<1>s. \A b \in Cpu \ {m} : ~Arriving(b) /\ ~BackingUp(b) /\ ~Programming(b)
      /\ ~Restoring(b) /\ ~Resetting(b) /\ ~Leaving(b)
  BY <1>m, AccountMember
     DEF In, ArriveInv, BackupInv, ProgramInv, RestoreInv, ResetInv, LeaveInv
<1>b. /\ bsp[m] \in Cpu \ {m} /\ In(bsp[m], BspLabels)
      /\ \A b \in Cpu : In(b, BspLabels) => b = bsp[m]
  BY <1>m, BspOfAp DEF In
<1>i. insideSmm => busy[m] /\ ~Exiting(bsp[m])
  BY <1>m DEF InsideInv, TaskInv, In
<1>j. ~insideSmm => ~busy[m] /\ Exiting(bsp[m])
  BY <1>b, <1>m
     DEF InsideInv, TaskInv, In, StageInv, ArrivalLabels, InsideLabels, BspCoreLabels,
         BspExitLabels, BspResetLabels
<1>1. StageInv'
  BY <1>m DEF StageInv, In, Gathers, Aside, SameStack
<1>2. ArriveInv' /\ BackupInv' /\ ProgramInv' /\ ServeInv' /\ ExitInv' /\ RestoreInv'
      /\ ResetInv'
  BY <1>m, <1>1, StagesStay, StagesOfAside, AccountStays, <1>j, <1>b, OneStage, StagesAreBsp
     DEF ArriveInv, Aside, BackupInv, ProgramInv, ServeInv, ExitInv, RestoreInv, ResetInv
<1>3. LeaveInv' /\ NoJoiners' /\ LockInv' /\ CountInv' /\ CounterInv'
  BY <1>m, <1>1, StagesStay, StagesOfAside, NumberStays
     DEF LeaveInv, In, Aside, SameStack, NoJoiners, LockInv, CountInv, CounterInv
<1>4. InsideInv' /\ PointerInv' /\ ModeInv' /\ ModesAgree' /\ PresentInv' /\ IdleInv'
      /\ BusyInv'
  BY <1>m, <1>j
     DEF InsideInv, In, Aside, SameStack, PointerInv, ModeInv, ModesAgree, PresentInv, IdleInv,
         BusyInv
<1>5. TokenInv' /\ TaskInv'
  BY <1>m, StagesStay, <1>j
     DEF TokenInv, In, Woken, Waits, Past, Starting, Signalled, Aside, SameStack, BusyInv,
         TaskInv
<1> QED
  BY <1>1, <1>2, <1>3, <1>4, <1>5

\* The AP has run the procedure and still holds its Busy lock.
LEMMA ProcedureStep ==
  ASSUME ~GiveUpRace, TypeOK, OneBsp, RunInv,
         NEW m \in Cpu,
         Aside(m),
         pc[m] = "ap_procedure",
         pc'[m] = "ap_release",
         UNCHANGED <<counter, insideSmm, bspIndex, run, present, busy, syncMode,
                     effectiveSyncMode, bsp, index, apCount, left, inWorker>>
  PROVE  RunInv'
<1> USE DEF RunInv, Stays, Avoids
<1>m. /\ Stays(m, CountedLabels) /\ Stays(m, ApLabels) /\ Stays(m, DueServe)
      /\ Stays(m, DueExit) /\ Stays(m, ModeKnownLabels)
      /\ Stays(m, PresentLabels)
      /\ Avoids(m, JoiningLabels) /\ Avoids(m, BspLabels)
      /\ Avoids(m, ArrivalLabels) /\ Avoids(m, MtrrLabels)
      /\ Avoids(m, InsideLabels) /\ Avoids(m, DueArrive)
      /\ Avoids(m, DueBackup) /\ Avoids(m, DueProgram)
      /\ Avoids(m, DueRestore) /\ Avoids(m, DueReset) /\ Avoids(m, PaidArrive)
      /\ Avoids(m, PaidBackup) /\ Avoids(m, PaidProgram)
      /\ Avoids(m, PaidRestore) /\ Avoids(m, PaidExit) /\ Avoids(m, PastMode)
  BY DEF CountedLabels, ArrivalLabels, InsideLabels, MtrrLabels, DueArrive, DueServe, DueExit,
         DueBackup, DueProgram, DueRestore, DueReset, PaidArrive, PaidBackup, PaidProgram,
         PaidRestore, PaidExit, ModeKnownLabels, PastMode, PresentLabels, RelLabels,
         ReleasedLabels, JoiningLabels, ApLabels, BspLabels, BspGatherLabels, BspCoreLabels,
         BspExitLabels, BspResetLabels, WaitLabels
<1>s. \A b \in Cpu \ {m} : ~Arriving(b) /\ ~BackingUp(b) /\ ~Programming(b)
      /\ ~Restoring(b) /\ ~Resetting(b) /\ ~Leaving(b)
  BY <1>m, AccountMember
     DEF In, ArriveInv, BackupInv, ProgramInv, RestoreInv, ResetInv, LeaveInv
<1>b. /\ bsp[m] \in Cpu \ {m} /\ In(bsp[m], BspLabels)
      /\ \A b \in Cpu : In(b, BspLabels) => b = bsp[m]
  BY <1>m, BspOfAp DEF In
<1>1. StageInv'
  BY <1>m DEF StageInv, In, Gathers, Aside, SameStack
<1>2. ArriveInv' /\ BackupInv' /\ ProgramInv' /\ ServeInv' /\ ExitInv' /\ RestoreInv'
      /\ ResetInv'
  BY <1>m, <1>1, StagesStay, StagesOfAside, AccountStays, AccountMember
     DEF ArriveInv, Aside, BackupInv, ProgramInv, ServeInv, ExitInv, RestoreInv, ResetInv
<1>3. LeaveInv' /\ NoJoiners' /\ LockInv' /\ CountInv' /\ CounterInv'
  BY <1>m, <1>1, StagesStay, StagesOfAside, NumberStays
     DEF LeaveInv, In, Aside, SameStack, NoJoiners, LockInv, CountInv, CounterInv
<1>4. InsideInv' /\ PointerInv' /\ ModeInv' /\ ModesAgree' /\ PresentInv' /\ IdleInv'
      /\ BusyInv'
  BY <1>m
     DEF InsideInv, In, Aside, SameStack, PointerInv, ModeInv, ModesAgree, PresentInv, IdleInv,
         BusyInv
<1>5. TokenInv' /\ TaskInv'
  BY <1>m, StagesStay
     DEF TokenInv, In, Woken, Waits, Past, Starting, Signalled, Aside, SameStack, BusyInv,
         TaskInv
<1> QED
  BY <1>1, <1>2, <1>3, <1>4, <1>5

\* The AP releases Busy and goes back to wait for work.
LEMMA ReleaseStep ==
  ASSUME ~GiveUpRace, TypeOK, OneBsp, RunInv,
         NEW m \in Cpu,
         Aside(m),
         pc[m] = "ap_release",
         pc'[m] = "ap_work",
         busy' = [busy EXCEPT ![m] = FALSE],
         UNCHANGED <<counter, insideSmm, bspIndex, run, present, syncMode, effectiveSyncMode,
                     bsp, index, apCount, left, inWorker>>
  PROVE  RunInv'
<1> USE DEF RunInv, Stays, Avoids, Enters
<1>m. /\ Stays(m, CountedLabels) /\ Stays(m, ApLabels) /\ Stays(m, DueServe)
      /\ Stays(m, DueExit) /\ Stays(m, ModeKnownLabels)
      /\ Stays(m, PresentLabels)
      /\ Avoids(m, JoiningLabels) /\ Avoids(m, BspLabels)
      /\ Avoids(m, ArrivalLabels) /\ Avoids(m, MtrrLabels)
      /\ Avoids(m, InsideLabels) /\ Avoids(m, DueArrive)
      /\ Avoids(m, DueBackup) /\ Avoids(m, DueProgram)
      /\ Avoids(m, DueRestore) /\ Avoids(m, DueReset) /\ Avoids(m, PaidBackup)
      /\ Avoids(m, PaidRestore) /\ Avoids(m, PaidExit) /\ Avoids(m, PastMode)
      /\ Enters(m, PaidProgram)
      /\ pc[m] \notin PaidArrive
      /\ (pc'[m] \in PaidArrive <=> ~NeedConfigureMtrrs)
  BY DEF CountedLabels, ArrivalLabels, InsideLabels, MtrrLabels, DueArrive, DueServe, DueExit,
         DueBackup, DueProgram, DueRestore, DueReset, PaidArrive, PaidBackup, PaidProgram,
         PaidRestore, PaidExit, ModeKnownLabels, PastMode, PresentLabels, RelLabels,
         ReleasedLabels, JoiningLabels, ApLabels, BspLabels, BspGatherLabels, BspCoreLabels,
         BspExitLabels, BspResetLabels, WaitLabels
<1>s. \A b \in Cpu \ {m} : ~Arriving(b) /\ ~BackingUp(b) /\ ~Programming(b)
      /\ ~Restoring(b) /\ ~Resetting(b) /\ ~Leaving(b)
  BY <1>m, AccountMember
     DEF In, ArriveInv, BackupInv, ProgramInv, RestoreInv, ResetInv, LeaveInv
<1>b. /\ bsp[m] \in Cpu \ {m} /\ In(bsp[m], BspLabels)
      /\ \A b \in Cpu : In(b, BspLabels) => b = bsp[m]
  BY <1>m, BspOfAp DEF In
<1>i. ~Exiting(bsp[m]) /\ ~Programming(bsp[m])
  BY <1>b, <1>m
     DEF TaskInv, BusyInv, In, Exiting, Programming, StageInv, ArrivalLabels, BspCoreLabels
<1>1. StageInv'
  BY <1>m DEF StageInv, In, Gathers, Aside, SameStack
<1>2. ArriveInv' /\ BackupInv' /\ ProgramInv' /\ ServeInv' /\ ExitInv' /\ RestoreInv'
      /\ ResetInv'
  BY <1>m, <1>1, StagesStay, StagesOfAside, AccountStays, AccountMember
     DEF ArriveInv, Aside, BackupInv, ProgramInv, ServeInv, ExitInv, RestoreInv, ResetInv
<1>3. LeaveInv' /\ NoJoiners' /\ LockInv' /\ CountInv' /\ CounterInv'
  BY <1>m, <1>1, StagesStay, StagesOfAside, NumberStays
     DEF LeaveInv, In, Aside, SameStack, NoJoiners, LockInv, CountInv, CounterInv
<1>4. InsideInv' /\ PointerInv' /\ ModeInv' /\ ModesAgree' /\ PresentInv' /\ IdleInv'
      /\ BusyInv'
  BY <1>m
     DEF InsideInv, In, Aside, SameStack, PointerInv, ModeInv, ModesAgree, PresentInv, IdleInv,
         BusyInv
<1>5. TokenInv' /\ TaskInv'
  BY <1>m, StagesStay, <1>s, <1>i, <1>b
     DEF TokenInv, In, Waits, Past, Starting, Signalled, Aside, SameStack, TypeOK, CpuDataType,
         TaskInv, BusyInv
<1> QED
  BY <1>1, <1>2, <1>3, <1>4, <1>5

\* The AP clears Present.
LEMMA AbsentStep ==
  ASSUME ~GiveUpRace, TypeOK, OneBsp, RunInv,
         NEW m \in Cpu,
         Aside(m),
         pc[m] = "ap_absent",
         pc'[m] = "ap_bye",
         present' = [present EXCEPT ![m] = FALSE],
         UNCHANGED <<counter, insideSmm, bspIndex, run, busy, syncMode, effectiveSyncMode, bsp,
                     index, apCount, left, inWorker>>
  PROVE  RunInv'
<1> USE DEF RunInv, Stays, Avoids, Quits
<1>m. /\ Stays(m, CountedLabels) /\ Stays(m, ApLabels) /\ Stays(m, DueReset)
      /\ Stays(m, ModeKnownLabels)
      /\ Avoids(m, JoiningLabels) /\ Avoids(m, BspLabels)
      /\ Avoids(m, ArrivalLabels) /\ Avoids(m, MtrrLabels)
      /\ Avoids(m, InsideLabels) /\ Avoids(m, DueArrive)
      /\ Avoids(m, DueServe) /\ Avoids(m, DueExit) /\ Avoids(m, DueBackup)
      /\ Avoids(m, DueProgram) /\ Avoids(m, DueRestore)
      /\ Avoids(m, PaidArrive) /\ Avoids(m, PaidBackup)
      /\ Avoids(m, PaidProgram) /\ Avoids(m, PaidRestore)
      /\ Avoids(m, PaidExit) /\ Avoids(m, PastMode)
      /\ Quits(m, PresentLabels)
  BY DEF CountedLabels, ArrivalLabels, InsideLabels, MtrrLabels, DueArrive, DueServe, DueExit,
         DueBackup, DueProgram, DueRestore, DueReset, PaidArrive, PaidBackup, PaidProgram,
         PaidRestore, PaidExit, ModeKnownLabels, PastMode, PresentLabels, RelLabels,
         ReleasedLabels, JoiningLabels, ApLabels, BspLabels, BspGatherLabels, BspCoreLabels,
         BspExitLabels, BspResetLabels, WaitLabels
<1>s. \A b \in Cpu \ {m} : ~Arriving(b) /\ ~BackingUp(b) /\ ~Programming(b) /\ ~Serving(b)
      /\ ~Exiting(b) /\ ~Restoring(b) /\ ~Leaving(b)
  BY <1>m, AccountMember
     DEF In, ArriveInv, BackupInv, ProgramInv, ServeInv, ExitInv, RestoreInv, LeaveInv
<1>b. /\ bsp[m] \in Cpu \ {m} /\ In(bsp[m], BspLabels)
      /\ \A b \in Cpu : In(b, BspLabels) => b = bsp[m]
  BY <1>m, BspOfAp DEF In
<1>1. StageInv'
  BY <1>m DEF StageInv, In, Gathers, Aside, SameStack
<1>2. ArriveInv' /\ BackupInv' /\ ProgramInv' /\ ServeInv' /\ ExitInv' /\ RestoreInv'
      /\ ResetInv'
  BY <1>m, <1>1, StagesStay, StagesOfAside, AccountStays, AccountMember
     DEF ArriveInv, Aside, BackupInv, ProgramInv, ServeInv, ExitInv, RestoreInv, ResetInv
<1>3. LeaveInv' /\ NoJoiners' /\ LockInv' /\ CountInv' /\ CounterInv'
  BY <1>m, <1>1, StagesStay, StagesOfAside, NumberStays
     DEF LeaveInv, In, Aside, SameStack, NoJoiners, LockInv, CountInv, CounterInv
<1>4. InsideInv' /\ PointerInv' /\ ModeInv' /\ ModesAgree' /\ PresentInv' /\ IdleInv'
      /\ BusyInv'
  BY <1>m
     DEF InsideInv, In, Aside, SameStack, PointerInv, ModeInv, ModesAgree, PresentInv, TypeOK,
         CpuDataType, IdleInv, BusyInv
<1>5. TokenInv' /\ TaskInv'
  BY <1>m, StagesStay
     DEF TokenInv, In, Woken, Waits, Past, Starting, Signalled, Aside, SameStack, BusyInv,
         TaskInv
<1> QED
  BY <1>1, <1>2, <1>3, <1>4, <1>5

\* The AP takes its share of Counter back in one step with its last look at
\* InsideSmm, so the BSP has not locked Counter.
LEMMA GiveUpStep ==
  ASSUME ~GiveUpRace, TypeOK, OneBsp, RunInv,
         NEW m \in Cpu,
         Aside(m),
         pc[m] \in {"ap_known", "ap_timer2"},
         pc'[m] = "finished",
         ~insideSmm,
         counter' = counter - 1,
         UNCHANGED <<insideSmm, bspIndex, run, present, busy, syncMode, effectiveSyncMode, bsp,
                     index, apCount, left, inWorker>>
  PROVE  RunInv'
<1> USE DEF RunInv, Avoids, Quits
<1>m. /\ Avoids(m, ApLabels) /\ Avoids(m, BspLabels)
      /\ Avoids(m, ArrivalLabels) /\ Avoids(m, MtrrLabels)
      /\ Avoids(m, InsideLabels) /\ Avoids(m, DueExit) /\ Avoids(m, DueBackup)
      /\ Avoids(m, DueProgram) /\ Avoids(m, DueRestore) /\ Avoids(m, DueReset)
      /\ Avoids(m, PaidArrive) /\ Avoids(m, PaidBackup)
      /\ Avoids(m, PaidProgram) /\ Avoids(m, PaidRestore)
      /\ Avoids(m, PaidExit) /\ Avoids(m, PastMode)
      /\ Avoids(m, PresentLabels)
      /\ Quits(m, CountedLabels) /\ Quits(m, JoiningLabels)
      /\ Quits(m, DueArrive) /\ Quits(m, DueServe)
      /\ Quits(m, ModeKnownLabels)
  BY DEF CountedLabels, ArrivalLabels, InsideLabels, MtrrLabels, DueArrive, DueServe, DueExit,
         DueBackup, DueProgram, DueRestore, DueReset, PaidArrive, PaidBackup, PaidProgram,
         PaidRestore, PaidExit, ModeKnownLabels, PastMode, PresentLabels, RelLabels,
         ReleasedLabels, JoiningLabels, ApLabels, BspLabels, BspGatherLabels, BspCoreLabels,
         BspExitLabels, BspResetLabels, WaitLabels
<1>s. \A b \in Cpu \ {m} : ~BackingUp(b) /\ ~Programming(b) /\ ~Exiting(b) /\ ~Restoring(b)
      /\ ~Resetting(b) /\ ~Leaving(b)
  BY <1>m, AccountMember DEF In, BackupInv, ProgramInv, ExitInv, RestoreInv, ResetInv, LeaveInv
<1>k. /\ counter # Locked /\ counter \in Int
      /\ \A b \in Cpu : ~LockedBsp(b) /\ ~In(b, WaitLabels)
  <2>1. ASSUME NEW b \in Cpu, LockedBsp(b) PROVE FALSE
    <3>1. In(b, InsideLabels) \/ Closed(b)
      BY <2>1
         DEF LockedBsp, Closed, In, InsideLabels, StageInv, MtrrLabels, BspLabels,
             BspGatherLabels, BspExitLabels
    <3> QED
      BY <1>m, <3>1 DEF InsideInv, NoJoiners, In
  <2> QED
    BY <2>1, StagesLocked DEF LockInv, TypeOK, SyncType
<1>1. StageInv'
  BY <1>m DEF StageInv, In, Gathers, Aside, SameStack
<1>2. ArriveInv' /\ BackupInv' /\ ProgramInv' /\ ServeInv' /\ ExitInv' /\ RestoreInv'
      /\ ResetInv'
  BY <1>m, <1>1, StagesStay, StagesOfAside, <1>k, AccountLeaves, StagesLocked
     DEF ArriveInv, Aside, IdleInv, BackupInv, ProgramInv, ServeInv, ExitInv, RestoreInv,
         ResetInv
<1>3. LeaveInv' /\ NoJoiners' /\ LockInv' /\ CountInv' /\ CounterInv'
  BY <1>m, <1>1, StagesStay, StagesOfAside, <1>k, NumberIsNat, NumberShrinks
     DEF LeaveInv, In, Aside, NoJoiners, LockInv, Locked, CounterInv, CountInv
<1>4. InsideInv' /\ PointerInv' /\ ModeInv' /\ ModesAgree' /\ PresentInv' /\ IdleInv'
      /\ BusyInv'
  BY <1>m
     DEF InsideInv, In, Aside, SameStack, PointerInv, ModeInv, ModesAgree, PresentInv, IdleInv,
         BusyInv
<1>5. TokenInv' /\ TaskInv'
  BY <1>m, StagesStay, <1>s
     DEF TokenInv, In, Waits, Past, Starting, Signalled, Aside, SameStack, TaskInv
<1> QED
  BY <1>1, <1>2, <1>3, <1>4, <1>5

-----------------------------------------------------------------------------
(***************************************************************************)
(* The steps of the BSP.                                                   *)
(***************************************************************************)

\* The BSP sets InsideSmm.
LEMMA FlagInside ==
  ASSUME ~GiveUpRace, TypeOK, OneBsp, RunInv,
         NEW m \in Cpu,
         Leads(m),
         pc[m] = "b_inside",
         pc'[m] = "b_present",
         insideSmm' = TRUE,
         UNCHANGED <<counter, bspIndex, run, present, busy, syncMode, effectiveSyncMode, bsp,
                     index, apCount, left, inWorker>>
  PROVE  RunInv'
<1> USE DEF RunInv, Stays, Avoids, Enters
<1>m. /\ Stays(m, CountedLabels) /\ Stays(m, BspLabels)
      /\ Stays(m, ModeKnownLabels)
      /\ Avoids(m, ApLabels) /\ Avoids(m, JoiningLabels)
      /\ Avoids(m, ArrivalLabels) /\ Avoids(m, MtrrLabels)
      /\ Avoids(m, DueArrive) /\ Avoids(m, DueServe) /\ Avoids(m, DueExit)
      /\ Avoids(m, DueBackup) /\ Avoids(m, DueProgram)
      /\ Avoids(m, DueRestore) /\ Avoids(m, DueReset) /\ Avoids(m, PastMode)
      /\ Avoids(m, PresentLabels) /\ Avoids(m, RelLabels)
      /\ Avoids(m, ReleasedLabels) /\ Avoids(m, BspCoreLabels)
      /\ Avoids(m, BspResetLabels) /\ Avoids(m, WaitLabels)
      /\ Enters(m, InsideLabels)
  BY DEF CountedLabels, ArrivalLabels, InsideLabels, MtrrLabels, DueArrive, DueServe, DueExit,
         DueBackup, DueProgram, DueRestore, DueReset, PaidArrive, PaidBackup, PaidProgram,
         PaidRestore, PaidExit, ModeKnownLabels, PastMode, PresentLabels, RelLabels,
         ReleasedLabels, JoiningLabels, ApLabels, BspLabels, BspGatherLabels, BspCoreLabels,
         BspExitLabels, BspResetLabels, WaitLabels
<1>t. /\ (Arriving(m)' <=> Arriving(m)) /\ ~BackingUp(m) /\ ~BackingUp(m)'
         /\ ~Programming(m) /\ ~Programming(m)' /\ (Serving(m)' <=> Serving(m))
         /\ ~Exiting(m) /\ ~Exiting(m)' /\ ~Restoring(m) /\ ~Restoring(m)' /\ ~Resetting(m)
         /\ ~Resetting(m)' /\ ~Leaving(m) /\ ~Leaving(m)'
      /\ (LockedBsp(m)' <=> LockedBsp(m)) /\ (Closed(m)' <=> Closed(m))
  BY <1>m
     DEF StageInv, Arriving, BackingUp, Programming, Serving, Exiting, Restoring, Resetting,
         Leaving, LockedBsp, Closed, Gathers, In, BspExitLabels
<1>e. Expected(m)' = Expected(m)
  BY <1>m, <1>t DEF Expected, In
<1>1. StageInv'
  BY <1>m DEF StageInv, In, Gathers, Leads, SameStack
<1>2. ArriveInv' /\ BackupInv' /\ ProgramInv' /\ ServeInv' /\ ExitInv' /\ RestoreInv'
      /\ ResetInv'
  BY <1>m, OthersAreNoBsp, <1>t, <1>e, AccountKept
     DEF ArriveInv, BackupInv, ProgramInv, ServeInv, ExitInv, RestoreInv, ResetInv
<1>3. LeaveInv' /\ NoJoiners' /\ LockInv' /\ CountInv' /\ CounterInv'
  BY <1>m, OthersAreNoBsp, <1>t, NumberStays
     DEF LeaveInv, In, Leads, NoJoiners, SameStack, LockInv, CountInv, CounterInv
<1>4. InsideInv' /\ PointerInv' /\ ModeInv' /\ ModesAgree' /\ PresentInv' /\ IdleInv'
      /\ BusyInv'
  BY <1>m
     DEF InsideInv, In, Leads, SameStack, OneBsp, ActingLabels, PointerInv, ModeInv, ModesAgree,
         PresentInv, IdleInv, BusyInv
<1>5. TokenInv' /\ TaskInv'
  BY <1>m, OthersAreNoBsp, <1>t
     DEF TokenInv, In, Waits, Past, Starting, Signalled, Leads, SameStack, TaskInv
<1> QED
  BY <1>1, <1>2, <1>3, <1>4, <1>5

\* The BSP sets its own Present.
LEMMA MarkPresent ==
  ASSUME ~GiveUpRace, TypeOK, OneBsp, RunInv,
         NEW m \in Cpu,
         Leads(m),
         pc[m] = "b_present",
         pc'[m] = "b_clear",
         present' = [present EXCEPT ![m] = TRUE],
         UNCHANGED <<counter, insideSmm, bspIndex, run, busy, syncMode, effectiveSyncMode, bsp,
                     index, apCount, left, inWorker>>
  PROVE  RunInv'
<1> USE DEF RunInv, Stays, Avoids, Enters
<1>m. /\ Stays(m, CountedLabels) /\ Stays(m, BspLabels)
      /\ Stays(m, InsideLabels) /\ Stays(m, ModeKnownLabels)
      /\ Avoids(m, ApLabels) /\ Avoids(m, JoiningLabels)
      /\ Avoids(m, ArrivalLabels) /\ Avoids(m, MtrrLabels)
      /\ Avoids(m, DueArrive) /\ Avoids(m, DueServe) /\ Avoids(m, DueExit)
      /\ Avoids(m, DueBackup) /\ Avoids(m, DueProgram)
      /\ Avoids(m, DueRestore) /\ Avoids(m, DueReset) /\ Avoids(m, PastMode)
      /\ Avoids(m, RelLabels) /\ Avoids(m, ReleasedLabels)
      /\ Avoids(m, BspCoreLabels) /\ Avoids(m, BspResetLabels)
      /\ Avoids(m, WaitLabels)
      /\ Enters(m, PresentLabels)
  BY DEF CountedLabels, ArrivalLabels, InsideLabels, MtrrLabels, DueArrive, DueServe, DueExit,
         DueBackup, DueProgram, DueRestore, DueReset, PaidArrive, PaidBackup, PaidProgram,
         PaidRestore, PaidExit, ModeKnownLabels, PastMode, PresentLabels, RelLabels,
         ReleasedLabels, JoiningLabels, ApLabels, BspLabels, BspGatherLabels, BspCoreLabels,
         BspExitLabels, BspResetLabels, WaitLabels
<1>t. /\ (Arriving(m)' <=> Arriving(m)) /\ ~BackingUp(m) /\ ~BackingUp(m)'
         /\ ~Programming(m) /\ ~Programming(m)' /\ (Serving(m)' <=> Serving(m))
         /\ ~Exiting(m) /\ ~Exiting(m)' /\ ~Restoring(m) /\ ~Restoring(m)' /\ ~Resetting(m)
         /\ ~Resetting(m)' /\ ~Leaving(m) /\ ~Leaving(m)'
      /\ (LockedBsp(m)' <=> LockedBsp(m)) /\ (Closed(m)' <=> Closed(m))
  BY <1>m
     DEF StageInv, Arriving, BackingUp, Programming, Serving, Exiting, Restoring, Resetting,
         Leaving, LockedBsp, Closed, Gathers, In, BspExitLabels
<1>e. Expected(m)' = Expected(m)
  BY <1>m, <1>t DEF Expected, In
<1>1. StageInv'
  BY <1>m DEF StageInv, In, Gathers, Leads, SameStack
<1>2. ArriveInv' /\ BackupInv' /\ ProgramInv' /\ ServeInv' /\ ExitInv' /\ RestoreInv'
      /\ ResetInv'
  BY <1>m, OthersAreNoBsp, <1>t, <1>e, AccountKept
     DEF ArriveInv, BackupInv, ProgramInv, ServeInv, ExitInv, RestoreInv, ResetInv
<1>3. LeaveInv' /\ NoJoiners' /\ LockInv' /\ CountInv' /\ CounterInv'
  BY <1>m, OthersAreNoBsp, <1>t, NumberStays
     DEF LeaveInv, In, Leads, NoJoiners, SameStack, LockInv, CountInv, CounterInv
<1>4. InsideInv' /\ PointerInv' /\ ModeInv' /\ ModesAgree' /\ PresentInv' /\ IdleInv'
      /\ BusyInv'
  BY <1>m
     DEF InsideInv, In, Leads, SameStack, PointerInv, ModeInv, ModesAgree, PresentInv, TypeOK,
         CpuDataType, IdleInv, BusyInv
<1>5. TokenInv' /\ TaskInv'
  BY <1>m, OthersAreNoBsp, <1>t
     DEF TokenInv, In, Waits, Past, Starting, Signalled, Leads, SameStack, TaskInv
<1> QED
  BY <1>1, <1>2, <1>3, <1>4, <1>5

\* The BSP of a traditional run, or of one with MTRRs to program, goes to
\* wait for the APs.
LEMMA ClearGathered ==
  ASSUME ~GiveUpRace, TypeOK, OneBsp, RunInv,
         NEW m \in Cpu,
         Leads(m),
         pc[m] = "b_clear",
         pc'[m] = "b_arrive1",
         Gathers(m),
         UNCHANGED <<counter, insideSmm, bspIndex, run, present, busy, syncMode,
                     effectiveSyncMode, bsp, index, apCount, left, inWorker>>
  PROVE  RunInv'
<1> USE DEF RunInv, Stays, Avoids, Enters
<1>m. /\ Stays(m, CountedLabels) /\ Stays(m, BspLabels)
      /\ Stays(m, InsideLabels) /\ Stays(m, ModeKnownLabels)
      /\ Stays(m, PresentLabels)
      /\ Avoids(m, ApLabels) /\ Avoids(m, JoiningLabels)
      /\ Avoids(m, MtrrLabels) /\ Avoids(m, DueArrive) /\ Avoids(m, DueServe)
      /\ Avoids(m, DueExit) /\ Avoids(m, DueBackup) /\ Avoids(m, DueProgram)
      /\ Avoids(m, DueRestore) /\ Avoids(m, DueReset) /\ Avoids(m, PastMode)
      /\ Avoids(m, RelLabels) /\ Avoids(m, ReleasedLabels)
      /\ Avoids(m, BspCoreLabels) /\ Avoids(m, BspResetLabels)
      /\ Avoids(m, WaitLabels)
      /\ Enters(m, ArrivalLabels)
  BY DEF CountedLabels, ArrivalLabels, InsideLabels, MtrrLabels, DueArrive, DueServe, DueExit,
         DueBackup, DueProgram, DueRestore, DueReset, PaidArrive, PaidBackup, PaidProgram,
         PaidRestore, PaidExit, ModeKnownLabels, PastMode, PresentLabels, RelLabels,
         ReleasedLabels, JoiningLabels, ApLabels, BspLabels, BspGatherLabels, BspCoreLabels,
         BspExitLabels, BspResetLabels, WaitLabels
<1>t. /\ Arriving(m) /\ ~BackingUp(m) /\ ~Programming(m) /\ ~Serving(m) /\ ~Exiting(m)
         /\ ~Restoring(m) /\ ~Resetting(m) /\ ~Leaving(m)
      /\ Arriving(m)' /\ ~BackingUp(m)' /\ ~Programming(m)' /\ ~Serving(m)' /\ ~Exiting(m)'
         /\ ~Restoring(m)' /\ ~Resetting(m)' /\ ~Leaving(m)'
      /\ (LockedBsp(m)' <=> LockedBsp(m)) /\ (Closed(m)' <=> Closed(m))
  BY <1>m
     DEF StageInv, Arriving, BackingUp, Programming, Serving, Exiting, Restoring, Resetting,
         Leaving, LockedBsp, Closed, Gathers, In, BspExitLabels
<1>e. Expected(m)' = Expected(m)
  BY <1>m, <1>t DEF Expected, In
<1>1. StageInv'
  BY <1>m DEF StageInv, In, Gathers, Leads, SameStack
<1>2. ArriveInv' /\ BackupInv' /\ ProgramInv' /\ ServeInv' /\ ExitInv' /\ RestoreInv'
      /\ ResetInv'
  BY <1>m, OthersAreNoBsp, <1>t, <1>e, AccountKept
     DEF ArriveInv, BackupInv, ProgramInv, ServeInv, ExitInv, RestoreInv, ResetInv
<1>3. LeaveInv' /\ NoJoiners' /\ LockInv' /\ CountInv' /\ CounterInv'
  BY <1>m, OthersAreNoBsp, <1>t, NumberStays
     DEF LeaveInv, In, Leads, NoJoiners, SameStack, LockInv, CountInv, CounterInv
<1>4. InsideInv' /\ PointerInv' /\ ModeInv' /\ ModesAgree' /\ PresentInv' /\ IdleInv'
      /\ BusyInv'
  BY <1>m
     DEF InsideInv, In, Leads, SameStack, PointerInv, ModeInv, ModesAgree, PresentInv, IdleInv,
         BusyInv
<1>5. TokenInv' /\ TaskInv'
  BY <1>m, OthersAreNoBsp, <1>t
     DEF TokenInv, In, Waits, Past, Starting, Signalled, Leads, SameStack, TaskInv
<1> QED
  BY <1>1, <1>2, <1>3, <1>4, <1>5

\* The BSP of a relaxed run goes straight to the handlers.
LEMMA ClearRelaxed ==
  ASSUME ~GiveUpRace, TypeOK, OneBsp, RunInv,
         NEW m \in Cpu,
         Leads(m),
         pc[m] = "b_clear",
         pc'[m] = "b_busy",
         ~Gathers(m),
         UNCHANGED <<counter, insideSmm, bspIndex, run, present, busy, syncMode,
                     effectiveSyncMode, bsp, index, apCount, left, inWorker>>
  PROVE  RunInv'
<1> USE DEF RunInv, Stays, Avoids
<1>m. /\ Stays(m, CountedLabels) /\ Stays(m, BspLabels)
      /\ Stays(m, InsideLabels) /\ Stays(m, ModeKnownLabels)
      /\ Stays(m, PresentLabels)
      /\ Avoids(m, ApLabels) /\ Avoids(m, JoiningLabels)
      /\ Avoids(m, ArrivalLabels) /\ Avoids(m, MtrrLabels)
      /\ Avoids(m, DueArrive) /\ Avoids(m, DueServe) /\ Avoids(m, DueExit)
      /\ Avoids(m, DueBackup) /\ Avoids(m, DueProgram)
      /\ Avoids(m, DueRestore) /\ Avoids(m, DueReset) /\ Avoids(m, PastMode)
      /\ Avoids(m, RelLabels) /\ Avoids(m, ReleasedLabels)
      /\ Avoids(m, BspCoreLabels) /\ Avoids(m, BspResetLabels)
      /\ Avoids(m, WaitLabels)
  BY DEF CountedLabels, ArrivalLabels, InsideLabels, MtrrLabels, DueArrive, DueServe, DueExit,
         DueBackup, DueProgram, DueRestore, DueReset, PaidArrive, PaidBackup, PaidProgram,
         PaidRestore, PaidExit, ModeKnownLabels, PastMode, PresentLabels, RelLabels,
         ReleasedLabels, JoiningLabels, ApLabels, BspLabels, BspGatherLabels, BspCoreLabels,
         BspExitLabels, BspResetLabels, WaitLabels
<1>t. /\ ~Arriving(m) /\ ~BackingUp(m) /\ ~Programming(m) /\ Serving(m) /\ ~Exiting(m)
         /\ ~Restoring(m) /\ ~Resetting(m) /\ ~Leaving(m)
      /\ ~Arriving(m)' /\ ~BackingUp(m)' /\ ~Programming(m)' /\ Serving(m)' /\ ~Exiting(m)'
         /\ ~Restoring(m)' /\ ~Resetting(m)' /\ ~Leaving(m)'
      /\ (LockedBsp(m)' <=> LockedBsp(m)) /\ (Closed(m)' <=> Closed(m))
  BY <1>m
     DEF StageInv, Arriving, BackingUp, Programming, Serving, Exiting, Restoring, Resetting,
         Leaving, LockedBsp, Closed, Gathers, In, BspExitLabels
<1>e. Expected(m)' = Expected(m)
  BY <1>m, <1>t DEF Expected, In
<1>1. StageInv'
  BY <1>m DEF StageInv, In, Gathers, Leads, SameStack
<1>2. ArriveInv' /\ BackupInv' /\ ProgramInv' /\ ServeInv' /\ ExitInv' /\ RestoreInv'
      /\ ResetInv'
  BY <1>m, OthersAreNoBsp, <1>t, <1>e, AccountKept
     DEF ArriveInv, BackupInv, ProgramInv, ServeInv, ExitInv, RestoreInv, ResetInv
<1>3. LeaveInv' /\ NoJoiners' /\ LockInv' /\ CountInv' /\ CounterInv'
  BY <1>m, OthersAreNoBsp, <1>t, NumberStays
     DEF LeaveInv, In, Leads, NoJoiners, SameStack, LockInv, CountInv, CounterInv
<1>4. InsideInv' /\ PointerInv' /\ ModeInv' /\ ModesAgree' /\ PresentInv' /\ IdleInv'
      /\ BusyInv'
  BY <1>m
     DEF InsideInv, In, Leads, SameStack, PointerInv, ModeInv, ModesAgree, PresentInv, IdleInv,
         BusyInv
<1>5. TokenInv' /\ TaskInv'
  BY <1>m, OthersAreNoBsp, <1>t
     DEF TokenInv, In, Waits, Past, Starting, Signalled, Leads, SameStack, TaskInv
<1> QED
  BY <1>1, <1>2, <1>3, <1>4, <1>5

\* AllCpusInSync is raised before Counter is locked.
LEMMA RaiseSync ==
  ASSUME ~GiveUpRace, TypeOK, OneBsp, RunInv,
         NEW m \in Cpu,
         Leads(m),
         pc[m] = "b_sync",
         pc'[m] = "b_lock",
         UNCHANGED <<counter, insideSmm, bspIndex, run, present, busy, syncMode,
                     effectiveSyncMode, bsp, index, apCount, left, inWorker>>
  PROVE  RunInv'
<1> USE DEF RunInv, Stays, Avoids
<1>m. /\ Stays(m, CountedLabels) /\ Stays(m, BspLabels)
      /\ Stays(m, InsideLabels) /\ Stays(m, ModeKnownLabels)
      /\ Stays(m, PresentLabels)
      /\ Avoids(m, ApLabels) /\ Avoids(m, JoiningLabels)
      /\ Avoids(m, ArrivalLabels) /\ Avoids(m, MtrrLabels)
      /\ Avoids(m, DueArrive) /\ Avoids(m, DueServe) /\ Avoids(m, DueExit)
      /\ Avoids(m, DueBackup) /\ Avoids(m, DueProgram)
      /\ Avoids(m, DueRestore) /\ Avoids(m, DueReset) /\ Avoids(m, PastMode)
      /\ Avoids(m, RelLabels) /\ Avoids(m, ReleasedLabels)
      /\ Avoids(m, BspCoreLabels) /\ Avoids(m, BspResetLabels)
      /\ Avoids(m, WaitLabels)
  BY DEF CountedLabels, ArrivalLabels, InsideLabels, MtrrLabels, DueArrive, DueServe, DueExit,
         DueBackup, DueProgram, DueRestore, DueReset, PaidArrive, PaidBackup, PaidProgram,
         PaidRestore, PaidExit, ModeKnownLabels, PastMode, PresentLabels, RelLabels,
         ReleasedLabels, JoiningLabels, ApLabels, BspLabels, BspGatherLabels, BspCoreLabels,
         BspExitLabels, BspResetLabels, WaitLabels
<1>t. /\ (Arriving(m)' <=> Arriving(m)) /\ ~BackingUp(m) /\ ~BackingUp(m)'
         /\ ~Programming(m) /\ ~Programming(m)' /\ (Serving(m)' <=> Serving(m))
         /\ ~Exiting(m) /\ ~Exiting(m)' /\ ~Restoring(m) /\ ~Restoring(m)' /\ ~Resetting(m)
         /\ ~Resetting(m)' /\ ~Leaving(m) /\ ~Leaving(m)'
      /\ (LockedBsp(m)' <=> LockedBsp(m)) /\ (Closed(m)' <=> Closed(m))
  BY <1>m
     DEF StageInv, Arriving, BackingUp, Programming, Serving, Exiting, Restoring, Resetting,
         Leaving, LockedBsp, Closed, Gathers, In, BspExitLabels
<1>e. Expected(m)' = Expected(m)
  BY <1>m, <1>t DEF Expected, In
<1>1. StageInv'
  BY <1>m DEF StageInv, In, Gathers, Leads, SameStack
<1>2. ArriveInv' /\ BackupInv' /\ ProgramInv' /\ ServeInv' /\ ExitInv' /\ RestoreInv'
      /\ ResetInv'
  BY <1>m, OthersAreNoBsp, <1>t, <1>e, AccountKept
     DEF ArriveInv, BackupInv, ProgramInv, ServeInv, ExitInv, RestoreInv, ResetInv
<1>3. LeaveInv' /\ NoJoiners' /\ LockInv' /\ CountInv' /\ CounterInv'
  BY <1>m, OthersAreNoBsp, <1>t, NumberStays
     DEF LeaveInv, In, Leads, NoJoiners, SameStack, LockInv, CountInv, CounterInv
<1>4. InsideInv' /\ PointerInv' /\ ModeInv' /\ ModesAgree' /\ PresentInv' /\ IdleInv'
      /\ BusyInv'
  BY <1>m
     DEF InsideInv, In, Leads, SameStack, PointerInv, ModeInv, ModesAgree, PresentInv, IdleInv,
         BusyInv
<1>5. TokenInv' /\ TaskInv'
  BY <1>m, OthersAreNoBsp, <1>t
     DEF TokenInv, In, Waits, Past, Starting, Signalled, Leads, SameStack, TaskInv
<1> QED
  BY <1>1, <1>2, <1>3, <1>4, <1>5

\* The BSP updates the SMM debug and profile state: nothing of the run.
LEMMA Update ==
  ASSUME ~GiveUpRace, TypeOK, OneBsp, RunInv,
         NEW m \in Cpu,
         Leads(m),
         pc[m] = "b_update",
         pc'[m] = "b_absent",
         UNCHANGED <<counter, insideSmm, bspIndex, run, present, busy, syncMode,
                     effectiveSyncMode, bsp, index, apCount, left, inWorker>>
  PROVE  RunInv'
<1> USE DEF RunInv, Stays, Avoids
<1>m. /\ Stays(m, CountedLabels) /\ Stays(m, BspLabels)
      /\ Stays(m, ModeKnownLabels) /\ Stays(m, PastMode)
      /\ Stays(m, PresentLabels) /\ Stays(m, ReleasedLabels)
      /\ Stays(m, BspResetLabels)
      /\ Avoids(m, ApLabels) /\ Avoids(m, JoiningLabels)
      /\ Avoids(m, ArrivalLabels) /\ Avoids(m, MtrrLabels)
      /\ Avoids(m, InsideLabels) /\ Avoids(m, DueArrive)
      /\ Avoids(m, DueServe) /\ Avoids(m, DueExit) /\ Avoids(m, DueBackup)
      /\ Avoids(m, DueProgram) /\ Avoids(m, DueRestore) /\ Avoids(m, DueReset)
      /\ Avoids(m, RelLabels) /\ Avoids(m, BspCoreLabels)
      /\ Avoids(m, WaitLabels)
  BY DEF CountedLabels, ArrivalLabels, InsideLabels, MtrrLabels, DueArrive, DueServe, DueExit,
         DueBackup, DueProgram, DueRestore, DueReset, PaidArrive, PaidBackup, PaidProgram,
         PaidRestore, PaidExit, ModeKnownLabels, PastMode, PresentLabels, RelLabels,
         ReleasedLabels, JoiningLabels, ApLabels, BspLabels, BspGatherLabels, BspCoreLabels,
         BspExitLabels, BspResetLabels, WaitLabels
<1>t. /\ ~Arriving(m) /\ ~BackingUp(m) /\ ~Programming(m) /\ ~Serving(m) /\ ~Exiting(m)
         /\ ~Restoring(m) /\ Resetting(m) /\ ~Leaving(m)
      /\ ~Arriving(m)' /\ ~BackingUp(m)' /\ ~Programming(m)' /\ ~Serving(m)'
         /\ ~Exiting(m)' /\ ~Restoring(m)' /\ Resetting(m)' /\ ~Leaving(m)'
      /\ (LockedBsp(m)' <=> LockedBsp(m)) /\ (Closed(m)' <=> Closed(m))
  BY <1>m
     DEF StageInv, Arriving, BackingUp, Programming, Serving, Exiting, Restoring, Resetting,
         Leaving, LockedBsp, Closed, In
<1>e. Expected(m)' = Expected(m)
  BY <1>m, <1>t DEF Expected, In
<1>1. StageInv'
  BY <1>m DEF StageInv, In, Gathers, Leads, SameStack
<1>2. ArriveInv' /\ BackupInv' /\ ProgramInv' /\ ServeInv' /\ ExitInv' /\ RestoreInv'
      /\ ResetInv'
  BY <1>m, OthersAreNoBsp, <1>t, <1>e, AccountKept
     DEF ArriveInv, BackupInv, ProgramInv, ServeInv, ExitInv, RestoreInv, ResetInv
<1>3. LeaveInv' /\ NoJoiners' /\ LockInv' /\ CountInv' /\ CounterInv'
  BY <1>m, OthersAreNoBsp, <1>t, NumberStays
     DEF LeaveInv, In, Leads, NoJoiners, SameStack, LockInv, CountInv, CounterInv
<1>4. InsideInv' /\ PointerInv' /\ ModeInv' /\ ModesAgree' /\ PresentInv' /\ IdleInv'
      /\ BusyInv'
  BY <1>m
     DEF InsideInv, In, Leads, SameStack, PointerInv, ModeInv, ModesAgree, PresentInv, IdleInv,
         BusyInv
<1>5. TokenInv' /\ TaskInv'
  BY <1>m, OthersAreNoBsp, <1>t
     DEF TokenInv, In, Woken, Waits, Starting, Signalled, Leads, SameStack, TaskInv
<1> QED
  BY <1>1, <1>2, <1>3, <1>4, <1>5

\* The BSP moves inside SmmWaitForApArrival.
LEMMA ArrivalMove ==
  ASSUME ~GiveUpRace, TypeOK, OneBsp, RunInv,
         NEW m \in Cpu,
         Leads(m),
         pc[m] \in ArrivalLabels,
         pc'[m] \in ArrivalLabels,
         UNCHANGED <<counter, insideSmm, bspIndex, run, present, busy, syncMode,
                     effectiveSyncMode, bsp, apCount, left, inWorker>>
  PROVE  RunInv'
<1> USE DEF RunInv, Stays, Avoids
<1>m. /\ Stays(m, CountedLabels) /\ Stays(m, BspLabels)
      /\ Stays(m, InsideLabels) /\ Stays(m, ModeKnownLabels)
      /\ Stays(m, PresentLabels)
      /\ Avoids(m, ApLabels) /\ Avoids(m, JoiningLabels)
      /\ Avoids(m, MtrrLabels) /\ Avoids(m, DueArrive) /\ Avoids(m, DueServe)
      /\ Avoids(m, DueBackup) /\ Avoids(m, DueProgram)
      /\ Avoids(m, DueRestore) /\ Avoids(m, DueReset) /\ Avoids(m, PastMode)
      /\ Avoids(m, RelLabels) /\ Avoids(m, ReleasedLabels)
      /\ Avoids(m, BspCoreLabels) /\ Avoids(m, BspResetLabels)
      /\ Avoids(m, WaitLabels) /\ Avoids(m, DueExit)
  BY DEF CountedLabels, ArrivalLabels, InsideLabels, MtrrLabels, DueArrive, DueServe, DueExit,
         DueBackup, DueProgram, DueRestore, DueReset, PaidArrive, PaidBackup, PaidProgram,
         PaidRestore, PaidExit, ModeKnownLabels, PastMode, PresentLabels, RelLabels,
         ReleasedLabels, JoiningLabels, ApLabels, BspLabels, BspGatherLabels, BspCoreLabels,
         BspExitLabels, BspResetLabels, WaitLabels
<1>t. /\ (Arriving(m)' <=> Arriving(m)) /\ ~BackingUp(m) /\ ~BackingUp(m)'
         /\ ~Programming(m) /\ ~Programming(m)' /\ (Serving(m)' <=> Serving(m))
         /\ ~Exiting(m) /\ ~Exiting(m)' /\ ~Restoring(m) /\ ~Restoring(m)' /\ ~Resetting(m)
         /\ ~Resetting(m)' /\ ~Leaving(m) /\ ~Leaving(m)'
      /\ (LockedBsp(m)' <=> LockedBsp(m)) /\ (Closed(m)' <=> Closed(m))
  BY <1>m
     DEF StageInv, Arriving, BackingUp, Programming, Serving, Exiting, Restoring, Resetting,
         Leaving, LockedBsp, Closed, Gathers, In, ArrivalLabels, BspExitLabels
<1>e. Expected(m)' = Expected(m)
  BY <1>m, <1>t DEF Expected, In
<1>1. StageInv'
  BY <1>m DEF StageInv, In, Gathers, Leads, SameStack, ArrivalLabels
<1>2. ArriveInv' /\ BackupInv' /\ ProgramInv' /\ ServeInv' /\ ExitInv' /\ RestoreInv'
      /\ ResetInv'
  BY <1>m, OthersAreNoBsp, <1>t, <1>e, AccountKept
     DEF ArriveInv, BackupInv, ProgramInv, ServeInv, ExitInv, RestoreInv, ResetInv
<1>3. LeaveInv' /\ NoJoiners' /\ LockInv' /\ CountInv' /\ CounterInv'
  BY <1>m, OthersAreNoBsp, <1>t, NumberStays
     DEF LeaveInv, In, Leads, NoJoiners, SameStack, LockInv, CountInv, CounterInv
<1>4. InsideInv' /\ PointerInv' /\ ModeInv' /\ ModesAgree' /\ PresentInv' /\ IdleInv'
      /\ BusyInv'
  BY <1>m
     DEF InsideInv, In, Leads, SameStack, PointerInv, ArrivalLabels, ModeInv, ModesAgree,
         PresentInv, IdleInv, BusyInv
<1>5. TokenInv' /\ TaskInv'
  BY <1>m, OthersAreNoBsp, <1>t
     DEF TokenInv, In, Waits, Past, Starting, Signalled, Leads, SameStack, ArrivalLabels, TaskInv
<1> QED
  BY <1>1, <1>2, <1>3, <1>4, <1>5

\* SmmWaitForApArrival, called by a handler, returns to it.
LEMMA WorkerDone ==
  ASSUME ~GiveUpRace, TypeOK, OneBsp, RunInv,
         NEW m \in Cpu,
         Leads(m),
         pc[m] \in {"b_missing", "b_arrive2"},
         pc'[m] = "b_core",
         inWorker[m],
         inWorker' = [inWorker EXCEPT ![m] = FALSE],
         UNCHANGED <<counter, insideSmm, bspIndex, run, present, busy, syncMode,
                     effectiveSyncMode, bsp, index, apCount, left>>
  PROVE  RunInv'
<1> USE DEF RunInv, Stays, Avoids, Enters, Quits
<1>m. /\ Stays(m, CountedLabels) /\ Stays(m, BspLabels)
      /\ Stays(m, InsideLabels) /\ Stays(m, ModeKnownLabels)
      /\ Stays(m, PresentLabels)
      /\ Avoids(m, ApLabels) /\ Avoids(m, JoiningLabels)
      /\ Avoids(m, MtrrLabels) /\ Avoids(m, DueArrive) /\ Avoids(m, DueServe)
      /\ Avoids(m, DueExit) /\ Avoids(m, DueBackup) /\ Avoids(m, DueProgram)
      /\ Avoids(m, DueRestore) /\ Avoids(m, DueReset) /\ Avoids(m, PastMode)
      /\ Avoids(m, RelLabels) /\ Avoids(m, ReleasedLabels)
      /\ Avoids(m, BspResetLabels) /\ Avoids(m, WaitLabels)
      /\ Enters(m, BspCoreLabels)
      /\ Quits(m, ArrivalLabels)
  BY DEF CountedLabels, ArrivalLabels, InsideLabels, MtrrLabels, DueArrive, DueServe, DueExit,
         DueBackup, DueProgram, DueRestore, DueReset, PaidArrive, PaidBackup, PaidProgram,
         PaidRestore, PaidExit, ModeKnownLabels, PastMode, PresentLabels, RelLabels,
         ReleasedLabels, JoiningLabels, ApLabels, BspLabels, BspGatherLabels, BspCoreLabels,
         BspExitLabels, BspResetLabels, WaitLabels
<1>t. /\ ~Arriving(m) /\ ~BackingUp(m) /\ ~Programming(m) /\ Serving(m) /\ ~Exiting(m)
         /\ ~Restoring(m) /\ ~Resetting(m) /\ ~Leaving(m)
      /\ ~Arriving(m)' /\ ~BackingUp(m)' /\ ~Programming(m)' /\ Serving(m)' /\ ~Exiting(m)'
         /\ ~Restoring(m)' /\ ~Resetting(m)' /\ ~Leaving(m)'
      /\ (LockedBsp(m)' <=> LockedBsp(m)) /\ (Closed(m)' <=> Closed(m))
  BY <1>m
     DEF StageInv, Arriving, BackingUp, Programming, Serving, Exiting, Restoring, Resetting,
         Leaving, LockedBsp, Closed, Gathers, In, BspExitLabels
<1>e. Expected(m)' = Expected(m)
  BY <1>m, <1>t DEF Expected, In
<1>1. StageInv'
  BY <1>m DEF StageInv, In, Gathers, Leads, SameStack, TypeOK, StackType
<1>2. ArriveInv' /\ BackupInv' /\ ProgramInv' /\ ServeInv' /\ ExitInv' /\ RestoreInv'
      /\ ResetInv'
  BY <1>m, OthersAreNoBsp, <1>t, <1>e, AccountKept
     DEF ArriveInv, BackupInv, ProgramInv, ServeInv, ExitInv, RestoreInv, ResetInv
<1>3. LeaveInv'
  BY <1>m, OthersAreNoBsp, <1>t DEF LeaveInv, In
<1>4. InsideInv' /\ PointerInv' /\ ModeInv' /\ ModesAgree' /\ PresentInv' /\ IdleInv'
      /\ BusyInv'
  BY <1>m
     DEF InsideInv, In, Leads, SameStack, PointerInv, ModeInv, ModesAgree, PresentInv, IdleInv,
         BusyInv
<1>5. LockInv' /\ CountInv' /\ CounterInv'
  BY <1>m, OthersAreNoBsp, <1>t, NumberStays DEF LockInv, CountInv, In, Leads, CounterInv
<1>6. NoJoiners'
  BY <1>m, OthersAreNoBsp, <1>t DEF NoJoiners, In, Leads, OnlyMoves, SameStack
<1>7. TokenInv'
  BY <1>m, OthersAreNoBsp, <1>t
     DEF TokenInv, In, Waits, Past, Starting, Signalled, Leads, OnlyMoves
<1>8. TaskInv'
  BY <1>m, <1>t DEF TaskInv, In, Starting, Leads, SameStack
<1> QED
  BY <1>1, <1>2, <1>3, <1>4, <1>5, <1>6, <1>7, <1>8

\* SmmWaitForApArrival, called by BSPHandler, returns.
LEMMA GatheringDone ==
  ASSUME ~GiveUpRace, TypeOK, OneBsp, RunInv,
         NEW m \in Cpu,
         Leads(m),
         pc[m] \in {"b_missing", "b_arrive2"},
         pc'[m] = "b_sync",
         ~inWorker[m],
         inWorker' = [inWorker EXCEPT ![m] = FALSE],
         UNCHANGED <<counter, insideSmm, bspIndex, run, present, busy, syncMode,
                     effectiveSyncMode, bsp, index, apCount, left>>
  PROVE  RunInv'
<1> USE DEF RunInv, Stays, Avoids, Quits
<1>m. /\ Stays(m, CountedLabels) /\ Stays(m, BspLabels)
      /\ Stays(m, InsideLabels) /\ Stays(m, ModeKnownLabels)
      /\ Stays(m, PresentLabels)
      /\ Avoids(m, ApLabels) /\ Avoids(m, JoiningLabels)
      /\ Avoids(m, MtrrLabels) /\ Avoids(m, DueArrive) /\ Avoids(m, DueServe)
      /\ Avoids(m, DueExit) /\ Avoids(m, DueBackup) /\ Avoids(m, DueProgram)
      /\ Avoids(m, DueRestore) /\ Avoids(m, DueReset) /\ Avoids(m, PastMode)
      /\ Avoids(m, RelLabels) /\ Avoids(m, ReleasedLabels)
      /\ Avoids(m, BspCoreLabels) /\ Avoids(m, BspResetLabels)
      /\ Avoids(m, WaitLabels)
      /\ Quits(m, ArrivalLabels)
  BY DEF CountedLabels, ArrivalLabels, InsideLabels, MtrrLabels, DueArrive, DueServe, DueExit,
         DueBackup, DueProgram, DueRestore, DueReset, PaidArrive, PaidBackup, PaidProgram,
         PaidRestore, PaidExit, ModeKnownLabels, PastMode, PresentLabels, RelLabels,
         ReleasedLabels, JoiningLabels, ApLabels, BspLabels, BspGatherLabels, BspCoreLabels,
         BspExitLabels, BspResetLabels, WaitLabels
<1>t. /\ Arriving(m) /\ ~BackingUp(m) /\ ~Programming(m) /\ ~Serving(m) /\ ~Exiting(m)
         /\ ~Restoring(m) /\ ~Resetting(m) /\ ~Leaving(m)
      /\ Arriving(m)' /\ ~BackingUp(m)' /\ ~Programming(m)' /\ ~Serving(m)' /\ ~Exiting(m)'
         /\ ~Restoring(m)' /\ ~Resetting(m)' /\ ~Leaving(m)'
      /\ (LockedBsp(m)' <=> LockedBsp(m)) /\ (Closed(m)' <=> Closed(m))
  BY <1>m
     DEF StageInv, Arriving, BackingUp, Programming, Serving, Exiting, Restoring, Resetting,
         Leaving, LockedBsp, Closed, Gathers, In, BspExitLabels
<1>e. Expected(m)' = Expected(m)
  BY <1>m, <1>t DEF Expected, In
<1>1. StageInv'
  BY <1>m DEF StageInv, In, Gathers, Leads, SameStack
<1>2. ArriveInv' /\ BackupInv' /\ ProgramInv' /\ ServeInv' /\ ExitInv' /\ RestoreInv'
      /\ ResetInv'
  BY <1>m, OthersAreNoBsp, <1>t, <1>e, AccountKept
     DEF ArriveInv, BackupInv, ProgramInv, ServeInv, ExitInv, RestoreInv, ResetInv
<1>3. LeaveInv'
  BY <1>m, OthersAreNoBsp, <1>t DEF LeaveInv, In
<1>4. InsideInv' /\ PointerInv' /\ ModeInv' /\ ModesAgree' /\ PresentInv' /\ IdleInv'
      /\ BusyInv'
  BY <1>m
     DEF InsideInv, In, Leads, SameStack, PointerInv, ModeInv, ModesAgree, PresentInv, IdleInv,
         BusyInv
<1>5. LockInv' /\ CountInv' /\ CounterInv'
  BY <1>m, OthersAreNoBsp, <1>t, NumberStays DEF LockInv, CountInv, In, Leads, CounterInv
<1>6. NoJoiners'
  BY <1>m, OthersAreNoBsp, <1>t DEF NoJoiners, In, Leads, OnlyMoves, SameStack
<1>7. TokenInv'
  BY <1>m, OthersAreNoBsp, <1>t
     DEF TokenInv, In, Waits, Past, Starting, Signalled, Leads, OnlyMoves
<1>8. TaskInv'
  BY <1>m, <1>t DEF TaskInv, In, Starting, Leads, SameStack
<1> QED
  BY <1>1, <1>2, <1>3, <1>4, <1>5, <1>6, <1>7, <1>8

\* The BSP locks Counter and learns how many APs there are, before any
\* handler runs.
LEMMA LockGathered ==
  ASSUME ~GiveUpRace, TypeOK, OneBsp, RunInv,
         NEW m \in Cpu,
         Leads(m),
         pc[m] = "b_lock",
         pc'[m] = "b_wait_arrive",
         Gathers(m),
         counter' = Locked,
         apCount' = [apCount EXCEPT ![m] = counter - 1],
         left' = [left EXCEPT ![m] = counter - 1],
         UNCHANGED <<insideSmm, bspIndex, run, present, busy, syncMode, effectiveSyncMode, bsp,
                     index, inWorker>>
  PROVE  RunInv'
<1> USE DEF RunInv, Stays, Avoids, Enters
<1>m. /\ Stays(m, CountedLabels) /\ Stays(m, BspLabels)
      /\ Stays(m, InsideLabels) /\ Stays(m, ModeKnownLabels)
      /\ Stays(m, PresentLabels)
      /\ Avoids(m, ApLabels) /\ Avoids(m, JoiningLabels)
      /\ Avoids(m, ArrivalLabels) /\ Avoids(m, MtrrLabels)
      /\ Avoids(m, DueArrive) /\ Avoids(m, DueServe) /\ Avoids(m, DueExit)
      /\ Avoids(m, DueBackup) /\ Avoids(m, DueProgram)
      /\ Avoids(m, DueRestore) /\ Avoids(m, DueReset) /\ Avoids(m, PastMode)
      /\ Avoids(m, RelLabels) /\ Avoids(m, ReleasedLabels)
      /\ Avoids(m, BspCoreLabels) /\ Avoids(m, BspResetLabels)
      /\ Enters(m, WaitLabels)
  BY DEF CountedLabels, ArrivalLabels, InsideLabels, MtrrLabels, DueArrive, DueServe, DueExit,
         DueBackup, DueProgram, DueRestore, DueReset, PaidArrive, PaidBackup, PaidProgram,
         PaidRestore, PaidExit, ModeKnownLabels, PastMode, PresentLabels, RelLabels,
         ReleasedLabels, JoiningLabels, ApLabels, BspLabels, BspGatherLabels, BspCoreLabels,
         BspExitLabels, BspResetLabels, WaitLabels
<1>t. /\ Arriving(m) /\ ~BackingUp(m) /\ ~Programming(m) /\ ~Serving(m) /\ ~Exiting(m)
         /\ ~Restoring(m) /\ ~Resetting(m) /\ ~Leaving(m)
      /\ Arriving(m)' /\ ~BackingUp(m)' /\ ~Programming(m)' /\ ~Serving(m)' /\ ~Exiting(m)'
         /\ ~Restoring(m)' /\ ~Resetting(m)' /\ ~Leaving(m)'
      /\ ~LockedBsp(m) /\ LockedBsp(m)' /\ ~Closed(m)'
  BY <1>m
     DEF StageInv, Arriving, BackingUp, Programming, Serving, Exiting, Restoring, Resetting,
         Leaving, LockedBsp, Closed, Gathers, In, BspExitLabels
<1>e. Expected(m)' = Expected(m)
  BY <1>m, <1>t DEF Expected, In, TypeOK, StackType
<1>k. counter # Locked /\ counter = Number(pc, CountedLabels)
  BY <1>t, OthersAreNoBsp DEF LockInv, CounterInv
<1>1. StageInv'
  BY <1>m DEF StageInv, In, Gathers, Leads, SameStack
<1>2. ArriveInv' /\ BackupInv' /\ ProgramInv' /\ ServeInv' /\ ExitInv' /\ RestoreInv'
      /\ ResetInv'
  BY <1>m, OthersAreNoBsp, <1>t, <1>e, AccountKept
     DEF ArriveInv, BackupInv, ProgramInv, ServeInv, ExitInv, RestoreInv, ResetInv
<1>3. LeaveInv' /\ NoJoiners' /\ LockInv' /\ CountInv' /\ CounterInv'
  BY <1>m, OthersAreNoBsp, <1>t, NumberStays
     DEF LeaveInv, In, Leads, NoJoiners, LockInv, Locked, CountInv, TypeOK, StackType, CounterInv
<1>4. InsideInv' /\ PointerInv' /\ ModeInv' /\ ModesAgree' /\ PresentInv' /\ IdleInv'
      /\ BusyInv'
  BY <1>m
     DEF InsideInv, In, Leads, SameStack, PointerInv, ModeInv, ModesAgree, PresentInv, IdleInv,
         BusyInv
<1>5. TokenInv' /\ TaskInv'
  BY <1>m, OthersAreNoBsp, <1>t
     DEF TokenInv, In, Waits, Past, Starting, Signalled, Leads, SameStack, TaskInv
<1> QED
  BY <1>1, <1>2, <1>3, <1>4, <1>5

\* The BSP locks Counter after the handlers and learns how many APs there
\* are.
LEMMA LockRelaxed ==
  ASSUME ~GiveUpRace, TypeOK, OneBsp, RunInv,
         NEW m \in Cpu,
         Leads(m),
         pc[m] = "b_lock",
         pc'[m] = "b_count",
         ~Gathers(m),
         counter' = Locked,
         apCount' = [apCount EXCEPT ![m] = counter - 1],
         UNCHANGED <<insideSmm, bspIndex, run, present, busy, syncMode, effectiveSyncMode, bsp,
                     index, left, inWorker>>
  PROVE  RunInv'
<1> USE DEF RunInv, Stays, Avoids
<1>m. /\ Stays(m, CountedLabels) /\ Stays(m, BspLabels)
      /\ Stays(m, InsideLabels) /\ Stays(m, ModeKnownLabels)
      /\ Stays(m, PresentLabels)
      /\ Avoids(m, ApLabels) /\ Avoids(m, JoiningLabels)
      /\ Avoids(m, ArrivalLabels) /\ Avoids(m, MtrrLabels)
      /\ Avoids(m, DueArrive) /\ Avoids(m, DueServe) /\ Avoids(m, DueExit)
      /\ Avoids(m, DueBackup) /\ Avoids(m, DueProgram)
      /\ Avoids(m, DueRestore) /\ Avoids(m, DueReset) /\ Avoids(m, PastMode)
      /\ Avoids(m, RelLabels) /\ Avoids(m, ReleasedLabels)
      /\ Avoids(m, BspCoreLabels) /\ Avoids(m, BspResetLabels)
      /\ Avoids(m, WaitLabels)
  BY DEF CountedLabels, ArrivalLabels, InsideLabels, MtrrLabels, DueArrive, DueServe, DueExit,
         DueBackup, DueProgram, DueRestore, DueReset, PaidArrive, PaidBackup, PaidProgram,
         PaidRestore, PaidExit, ModeKnownLabels, PastMode, PresentLabels, RelLabels,
         ReleasedLabels, JoiningLabels, ApLabels, BspLabels, BspGatherLabels, BspCoreLabels,
         BspExitLabels, BspResetLabels, WaitLabels
<1>t. /\ ~Arriving(m) /\ ~BackingUp(m) /\ ~Programming(m) /\ Serving(m) /\ ~Exiting(m)
         /\ ~Restoring(m) /\ ~Resetting(m) /\ ~Leaving(m)
      /\ ~Arriving(m)' /\ ~BackingUp(m)' /\ ~Programming(m)' /\ Serving(m)' /\ ~Exiting(m)'
         /\ ~Restoring(m)' /\ ~Resetting(m)' /\ ~Leaving(m)'
      /\ ~LockedBsp(m) /\ LockedBsp(m)' /\ ~Closed(m)'
  BY <1>m
     DEF StageInv, Arriving, BackingUp, Programming, Serving, Exiting, Restoring, Resetting,
         Leaving, LockedBsp, Closed, Gathers, In, BspExitLabels
<1>e. Expected(m)' = Expected(m)
  BY <1>m, <1>t DEF Expected, In, TypeOK, StackType
<1>k. counter # Locked /\ counter = Number(pc, CountedLabels)
  BY <1>t, OthersAreNoBsp DEF LockInv, CounterInv
<1>1. StageInv'
  BY <1>m DEF StageInv, In, Gathers, Leads, SameStack
<1>2. ArriveInv' /\ BackupInv' /\ ProgramInv' /\ ServeInv' /\ ExitInv' /\ RestoreInv'
      /\ ResetInv'
  BY <1>m, OthersAreNoBsp, <1>t, <1>e, AccountKept
     DEF ArriveInv, BackupInv, ProgramInv, ServeInv, ExitInv, RestoreInv, ResetInv
<1>3. LeaveInv' /\ NoJoiners' /\ LockInv' /\ CountInv' /\ CounterInv'
  BY <1>m, OthersAreNoBsp, <1>t, NumberStays
     DEF LeaveInv, In, Leads, NoJoiners, LockInv, Locked, CountInv, TypeOK, StackType, CounterInv
<1>4. InsideInv' /\ PointerInv' /\ ModeInv' /\ ModesAgree' /\ PresentInv' /\ IdleInv'
      /\ BusyInv'
  BY <1>m
     DEF InsideInv, In, Leads, SameStack, PointerInv, ModeInv, ModesAgree, PresentInv, IdleInv,
         BusyInv
<1>5. TokenInv' /\ TaskInv'
  BY <1>m, OthersAreNoBsp, <1>t
     DEF TokenInv, In, Waits, Past, Starting, Signalled, Leads, SameStack, TaskInv
<1> QED
  BY <1>1, <1>2, <1>3, <1>4, <1>5

\* The BSP has backed its own MTRRs up and starts to wait for all APs.
LEMMA BackupBsp ==
  ASSUME ~GiveUpRace, TypeOK, OneBsp, RunInv,
         NEW m \in Cpu,
         Leads(m),
         pc[m] = "b_backup",
         pc'[m] = "b_wait_backup",
         left' = [left EXCEPT ![m] = apCount[m]],
         UNCHANGED <<counter, insideSmm, bspIndex, run, present, busy, syncMode,
                     effectiveSyncMode, bsp, index, apCount, inWorker>>
  PROVE  RunInv'
<1> USE DEF RunInv, Stays, Avoids, Enters
<1>m. /\ Stays(m, CountedLabels) /\ Stays(m, BspLabels)
      /\ Stays(m, MtrrLabels) /\ Stays(m, InsideLabels)
      /\ Stays(m, ModeKnownLabels) /\ Stays(m, PresentLabels)
      /\ Stays(m, ReleasedLabels)
      /\ Avoids(m, ApLabels) /\ Avoids(m, JoiningLabels)
      /\ Avoids(m, ArrivalLabels) /\ Avoids(m, DueArrive)
      /\ Avoids(m, DueServe) /\ Avoids(m, DueExit) /\ Avoids(m, DueBackup)
      /\ Avoids(m, DueProgram) /\ Avoids(m, DueRestore) /\ Avoids(m, DueReset)
      /\ Avoids(m, PastMode) /\ Avoids(m, RelLabels)
      /\ Avoids(m, BspCoreLabels) /\ Avoids(m, BspResetLabels)
      /\ Enters(m, WaitLabels)
  BY DEF CountedLabels, ArrivalLabels, InsideLabels, MtrrLabels, DueArrive, DueServe, DueExit,
         DueBackup, DueProgram, DueRestore, DueReset, PaidArrive, PaidBackup, PaidProgram,
         PaidRestore, PaidExit, ModeKnownLabels, PastMode, PresentLabels, RelLabels,
         ReleasedLabels, JoiningLabels, ApLabels, BspLabels, BspGatherLabels, BspCoreLabels,
         BspExitLabels, BspResetLabels, WaitLabels
<1>t. /\ ~Arriving(m) /\ BackingUp(m) /\ ~Programming(m) /\ ~Serving(m) /\ ~Exiting(m)
         /\ ~Restoring(m) /\ ~Resetting(m) /\ ~Leaving(m)
      /\ ~Arriving(m)' /\ BackingUp(m)' /\ ~Programming(m)' /\ ~Serving(m)' /\ ~Exiting(m)'
         /\ ~Restoring(m)' /\ ~Resetting(m)' /\ ~Leaving(m)'
      /\ LockedBsp(m) /\ LockedBsp(m)' /\ (Closed(m)' <=> Closed(m))
  BY <1>m
     DEF StageInv, Arriving, BackingUp, Programming, Serving, Exiting, Restoring, Resetting,
         Leaving, LockedBsp, Closed, Gathers, In
<1>e. Expected(m)' = Expected(m)
  BY <1>m, <1>t DEF Expected, In, TypeOK, StackType
<1>1. StageInv'
  BY <1>m DEF StageInv, In, Gathers, Leads, SameStack
<1>2. ArriveInv' /\ BackupInv' /\ ProgramInv' /\ ServeInv' /\ ExitInv' /\ RestoreInv'
      /\ ResetInv'
  BY <1>m, OthersAreNoBsp, <1>t, <1>e, AccountKept
     DEF ArriveInv, BackupInv, ProgramInv, ServeInv, ExitInv, RestoreInv, ResetInv
<1>3. LeaveInv' /\ NoJoiners' /\ LockInv' /\ CountInv' /\ CounterInv'
  BY <1>m, OthersAreNoBsp, <1>t, NumberStays
     DEF LeaveInv, In, Leads, NoJoiners, SameStack, LockInv, CountInv, CounterInv
<1>4. InsideInv' /\ PointerInv' /\ ModeInv' /\ ModesAgree' /\ PresentInv' /\ IdleInv'
      /\ BusyInv'
  BY <1>m
     DEF InsideInv, In, Leads, SameStack, PointerInv, ModeInv, ModesAgree, PresentInv, IdleInv,
         BusyInv
<1>5. TokenInv' /\ TaskInv'
  BY <1>m, OthersAreNoBsp, <1>t
     DEF TokenInv, In, Woken, Waits, Starting, Signalled, Leads, SameStack, TaskInv
<1> QED
  BY <1>1, <1>2, <1>3, <1>4, <1>5

\* The BSP has programmed its own MTRRs and starts to wait for all APs.
LEMMA ProgramBsp ==
  ASSUME ~GiveUpRace, TypeOK, OneBsp, RunInv,
         NEW m \in Cpu,
         Leads(m),
         pc[m] = "b_program",
         pc'[m] = "b_wait_program",
         left' = [left EXCEPT ![m] = apCount[m]],
         UNCHANGED <<counter, insideSmm, bspIndex, run, present, busy, syncMode,
                     effectiveSyncMode, bsp, index, apCount, inWorker>>
  PROVE  RunInv'
<1> USE DEF RunInv, Stays, Avoids, Enters
<1>m. /\ Stays(m, CountedLabels) /\ Stays(m, BspLabels)
      /\ Stays(m, MtrrLabels) /\ Stays(m, InsideLabels)
      /\ Stays(m, ModeKnownLabels) /\ Stays(m, PresentLabels)
      /\ Stays(m, ReleasedLabels)
      /\ Avoids(m, ApLabels) /\ Avoids(m, JoiningLabels)
      /\ Avoids(m, ArrivalLabels) /\ Avoids(m, DueArrive)
      /\ Avoids(m, DueServe) /\ Avoids(m, DueExit) /\ Avoids(m, DueBackup)
      /\ Avoids(m, DueProgram) /\ Avoids(m, DueRestore) /\ Avoids(m, DueReset)
      /\ Avoids(m, PastMode) /\ Avoids(m, RelLabels)
      /\ Avoids(m, BspCoreLabels) /\ Avoids(m, BspResetLabels)
      /\ Enters(m, WaitLabels)
  BY DEF CountedLabels, ArrivalLabels, InsideLabels, MtrrLabels, DueArrive, DueServe, DueExit,
         DueBackup, DueProgram, DueRestore, DueReset, PaidArrive, PaidBackup, PaidProgram,
         PaidRestore, PaidExit, ModeKnownLabels, PastMode, PresentLabels, RelLabels,
         ReleasedLabels, JoiningLabels, ApLabels, BspLabels, BspGatherLabels, BspCoreLabels,
         BspExitLabels, BspResetLabels, WaitLabels
<1>t. /\ ~Arriving(m) /\ ~BackingUp(m) /\ Programming(m) /\ ~Serving(m) /\ ~Exiting(m)
         /\ ~Restoring(m) /\ ~Resetting(m) /\ ~Leaving(m)
      /\ ~Arriving(m)' /\ ~BackingUp(m)' /\ Programming(m)' /\ ~Serving(m)' /\ ~Exiting(m)'
         /\ ~Restoring(m)' /\ ~Resetting(m)' /\ ~Leaving(m)'
      /\ LockedBsp(m) /\ LockedBsp(m)' /\ (Closed(m)' <=> Closed(m))
  BY <1>m
     DEF StageInv, Arriving, BackingUp, Programming, Serving, Exiting, Restoring, Resetting,
         Leaving, LockedBsp, Closed, Gathers, In
<1>e. Expected(m)' = Expected(m)
  BY <1>m, <1>t DEF Expected, In, TypeOK, StackType
<1>1. StageInv'
  BY <1>m DEF StageInv, In, Gathers, Leads, SameStack
<1>2. ArriveInv' /\ BackupInv' /\ ProgramInv' /\ ServeInv' /\ ExitInv' /\ RestoreInv'
      /\ ResetInv'
  BY <1>m, OthersAreNoBsp, <1>t, <1>e, AccountKept
     DEF ArriveInv, BackupInv, ProgramInv, ServeInv, ExitInv, RestoreInv, ResetInv
<1>3. LeaveInv' /\ NoJoiners' /\ LockInv' /\ CountInv' /\ CounterInv'
  BY <1>m, OthersAreNoBsp, <1>t, NumberStays
     DEF LeaveInv, In, Leads, NoJoiners, SameStack, LockInv, CountInv, CounterInv
<1>4. InsideInv' /\ PointerInv' /\ ModeInv' /\ ModesAgree' /\ PresentInv' /\ IdleInv'
      /\ BusyInv'
  BY <1>m
     DEF InsideInv, In, Leads, SameStack, PointerInv, ModeInv, ModesAgree, PresentInv, IdleInv,
         BusyInv
<1>5. TokenInv' /\ TaskInv'
  BY <1>m, OthersAreNoBsp, <1>t
     DEF TokenInv, In, Woken, Waits, Starting, Signalled, Leads, SameStack, TaskInv
<1> QED
  BY <1>1, <1>2, <1>3, <1>4, <1>5

\* The BSP has restored its own MTRRs and starts to wait for all APs.
LEMMA RestoreBsp ==
  ASSUME ~GiveUpRace, TypeOK, OneBsp, RunInv,
         NEW m \in Cpu,
         Leads(m),
         pc[m] = "b_restore",
         pc'[m] = "b_wait_restore",
         left' = [left EXCEPT ![m] = apCount[m]],
         UNCHANGED <<counter, insideSmm, bspIndex, run, present, busy, syncMode,
                     effectiveSyncMode, bsp, index, apCount, inWorker>>
  PROVE  RunInv'
<1> USE DEF RunInv, Stays, Avoids, Enters
<1>m. /\ Stays(m, CountedLabels) /\ Stays(m, BspLabels)
      /\ Stays(m, MtrrLabels) /\ Stays(m, ModeKnownLabels)
      /\ Stays(m, PastMode) /\ Stays(m, PresentLabels)
      /\ Stays(m, ReleasedLabels)
      /\ Avoids(m, ApLabels) /\ Avoids(m, JoiningLabels)
      /\ Avoids(m, ArrivalLabels) /\ Avoids(m, InsideLabels)
      /\ Avoids(m, DueArrive) /\ Avoids(m, DueServe) /\ Avoids(m, DueExit)
      /\ Avoids(m, DueBackup) /\ Avoids(m, DueProgram)
      /\ Avoids(m, DueRestore) /\ Avoids(m, DueReset) /\ Avoids(m, RelLabels)
      /\ Avoids(m, BspCoreLabels) /\ Avoids(m, BspResetLabels)
      /\ Enters(m, WaitLabels)
  BY DEF CountedLabels, ArrivalLabels, InsideLabels, MtrrLabels, DueArrive, DueServe, DueExit,
         DueBackup, DueProgram, DueRestore, DueReset, PaidArrive, PaidBackup, PaidProgram,
         PaidRestore, PaidExit, ModeKnownLabels, PastMode, PresentLabels, RelLabels,
         ReleasedLabels, JoiningLabels, ApLabels, BspLabels, BspGatherLabels, BspCoreLabels,
         BspExitLabels, BspResetLabels, WaitLabels
<1>t. /\ ~Arriving(m) /\ ~BackingUp(m) /\ ~Programming(m) /\ ~Serving(m) /\ ~Exiting(m)
         /\ Restoring(m) /\ ~Resetting(m) /\ ~Leaving(m)
      /\ ~Arriving(m)' /\ ~BackingUp(m)' /\ ~Programming(m)' /\ ~Serving(m)'
         /\ ~Exiting(m)' /\ Restoring(m)' /\ ~Resetting(m)' /\ ~Leaving(m)'
      /\ LockedBsp(m) /\ LockedBsp(m)' /\ (Closed(m)' <=> Closed(m))
  BY <1>m
     DEF StageInv, Arriving, BackingUp, Programming, Serving, Exiting, Restoring, Resetting,
         Leaving, LockedBsp, Closed, In, BspExitLabels
<1>e. Expected(m)' = Expected(m)
  BY <1>m, <1>t DEF Expected, In, TypeOK, StackType
<1>1. StageInv'
  BY <1>m DEF StageInv, In, Gathers, Leads, SameStack
<1>2. ArriveInv' /\ BackupInv' /\ ProgramInv' /\ ServeInv' /\ ExitInv' /\ RestoreInv'
      /\ ResetInv'
  BY <1>m, OthersAreNoBsp, <1>t, <1>e, AccountKept
     DEF ArriveInv, BackupInv, ProgramInv, ServeInv, ExitInv, RestoreInv, ResetInv
<1>3. LeaveInv' /\ NoJoiners' /\ LockInv' /\ CountInv' /\ CounterInv'
  BY <1>m, OthersAreNoBsp, <1>t, NumberStays
     DEF LeaveInv, In, Leads, NoJoiners, SameStack, LockInv, CountInv, CounterInv
<1>4. InsideInv' /\ PointerInv' /\ ModeInv' /\ ModesAgree' /\ PresentInv' /\ IdleInv'
      /\ BusyInv'
  BY <1>m
     DEF InsideInv, In, Leads, SameStack, PointerInv, ModeInv, ModesAgree, PresentInv, IdleInv,
         BusyInv
<1>5. TokenInv' /\ TaskInv'
  BY <1>m, OthersAreNoBsp, <1>t
     DEF TokenInv, In, Woken, Waits, Starting, Signalled, Leads, SameStack, TaskInv
<1> QED
  BY <1>1, <1>2, <1>3, <1>4, <1>5

\* The BSP takes its own Busy lock before the handlers.
LEMMA BusyBsp ==
  ASSUME ~GiveUpRace, TypeOK, OneBsp, RunInv,
         NEW m \in Cpu,
         Leads(m),
         pc[m] = "b_busy",
         pc'[m] = "b_core",
         busy' = [busy EXCEPT ![m] = TRUE],
         UNCHANGED <<counter, insideSmm, bspIndex, run, present, syncMode, effectiveSyncMode,
                     bsp, index, apCount, left, inWorker>>
  PROVE  RunInv'
<1> USE DEF RunInv, Stays, Avoids, Enters
<1>m. /\ Stays(m, CountedLabels) /\ Stays(m, BspLabels)
      /\ Stays(m, InsideLabels) /\ Stays(m, ModeKnownLabels)
      /\ Stays(m, PresentLabels)
      /\ Avoids(m, ApLabels) /\ Avoids(m, JoiningLabels)
      /\ Avoids(m, ArrivalLabels) /\ Avoids(m, MtrrLabels)
      /\ Avoids(m, DueArrive) /\ Avoids(m, DueServe) /\ Avoids(m, DueExit)
      /\ Avoids(m, DueBackup) /\ Avoids(m, DueProgram)
      /\ Avoids(m, DueRestore) /\ Avoids(m, DueReset) /\ Avoids(m, PastMode)
      /\ Avoids(m, RelLabels) /\ Avoids(m, ReleasedLabels)
      /\ Avoids(m, BspResetLabels) /\ Avoids(m, WaitLabels)
      /\ Enters(m, BspCoreLabels)
  BY DEF CountedLabels, ArrivalLabels, InsideLabels, MtrrLabels, DueArrive, DueServe, DueExit,
         DueBackup, DueProgram, DueRestore, DueReset, PaidArrive, PaidBackup, PaidProgram,
         PaidRestore, PaidExit, ModeKnownLabels, PastMode, PresentLabels, RelLabels,
         ReleasedLabels, JoiningLabels, ApLabels, BspLabels, BspGatherLabels, BspCoreLabels,
         BspExitLabels, BspResetLabels, WaitLabels
<1>t. /\ ~Arriving(m) /\ ~BackingUp(m) /\ ~Programming(m) /\ Serving(m) /\ ~Exiting(m)
         /\ ~Restoring(m) /\ ~Resetting(m) /\ ~Leaving(m)
      /\ ~Arriving(m)' /\ ~BackingUp(m)' /\ ~Programming(m)' /\ Serving(m)' /\ ~Exiting(m)'
         /\ ~Restoring(m)' /\ ~Resetting(m)' /\ ~Leaving(m)'
      /\ (LockedBsp(m)' <=> LockedBsp(m)) /\ (Closed(m)' <=> Closed(m))
  BY <1>m
     DEF StageInv, Arriving, BackingUp, Programming, Serving, Exiting, Restoring, Resetting,
         Leaving, LockedBsp, Closed, Gathers, In, BspExitLabels
<1>e. Expected(m)' = Expected(m)
  BY <1>m, <1>t DEF Expected, In
<1>1. StageInv'
  BY <1>m DEF StageInv, In, Gathers, Leads, SameStack
<1>2. ArriveInv' /\ BackupInv' /\ ProgramInv' /\ ServeInv' /\ ExitInv' /\ RestoreInv'
      /\ ResetInv'
  BY <1>m, OthersAreNoBsp, <1>t, <1>e, AccountKept
     DEF ArriveInv, BackupInv, ProgramInv, ServeInv, ExitInv, RestoreInv, ResetInv
<1>3. LeaveInv' /\ NoJoiners' /\ LockInv' /\ CountInv' /\ CounterInv'
  BY <1>m, OthersAreNoBsp, <1>t, NumberStays
     DEF LeaveInv, In, Leads, NoJoiners, SameStack, LockInv, CountInv, CounterInv
<1>4. InsideInv' /\ PointerInv' /\ ModeInv' /\ ModesAgree' /\ PresentInv' /\ IdleInv'
      /\ BusyInv'
  BY <1>m
     DEF InsideInv, In, Leads, SameStack, PointerInv, ModeInv, ModesAgree, PresentInv, IdleInv,
         BusyInv
<1>5. TokenInv' /\ TaskInv'
  BY <1>m, OthersAreNoBsp, <1>t
     DEF TokenInv, In, Waits, Past, Starting, Signalled, Leads, SameStack, TaskInv
<1> QED
  BY <1>1, <1>2, <1>3, <1>4, <1>5

\* The handlers are done and the BSP goes to wait for the procedures still
\* running.
LEMMA CoreReturns ==
  ASSUME ~GiveUpRace, TypeOK, OneBsp, RunInv,
         NEW m \in Cpu,
         Leads(m),
         pc[m] = "b_core",
         pc'[m] = "b_drain",
         index' = [index EXCEPT ![m] = NumberOfCpus],
         UNCHANGED <<counter, insideSmm, bspIndex, run, present, busy, syncMode,
                     effectiveSyncMode, bsp, apCount, left, inWorker>>
  PROVE  RunInv'
<1> USE DEF RunInv, Stays, Avoids, Quits
<1>m. /\ Stays(m, CountedLabels) /\ Stays(m, BspLabels)
      /\ Stays(m, InsideLabels) /\ Stays(m, ModeKnownLabels)
      /\ Stays(m, PresentLabels)
      /\ Avoids(m, ApLabels) /\ Avoids(m, JoiningLabels)
      /\ Avoids(m, ArrivalLabels) /\ Avoids(m, MtrrLabels)
      /\ Avoids(m, DueArrive) /\ Avoids(m, DueServe) /\ Avoids(m, DueExit)
      /\ Avoids(m, DueBackup) /\ Avoids(m, DueProgram)
      /\ Avoids(m, DueRestore) /\ Avoids(m, DueReset) /\ Avoids(m, PastMode)
      /\ Avoids(m, RelLabels) /\ Avoids(m, ReleasedLabels)
      /\ Avoids(m, BspResetLabels) /\ Avoids(m, WaitLabels)
      /\ Quits(m, BspCoreLabels)
  BY DEF CountedLabels, ArrivalLabels, InsideLabels, MtrrLabels, DueArrive, DueServe, DueExit,
         DueBackup, DueProgram, DueRestore, DueReset, PaidArrive, PaidBackup, PaidProgram,
         PaidRestore, PaidExit, ModeKnownLabels, PastMode, PresentLabels, RelLabels,
         ReleasedLabels, JoiningLabels, ApLabels, BspLabels, BspGatherLabels, BspCoreLabels,
         BspExitLabels, BspResetLabels, WaitLabels
<1>t. /\ ~Arriving(m) /\ ~BackingUp(m) /\ ~Programming(m) /\ Serving(m) /\ ~Exiting(m)
         /\ ~Restoring(m) /\ ~Resetting(m) /\ ~Leaving(m)
      /\ ~Arriving(m)' /\ ~BackingUp(m)' /\ ~Programming(m)' /\ Serving(m)' /\ ~Exiting(m)'
         /\ ~Restoring(m)' /\ ~Resetting(m)' /\ ~Leaving(m)'
      /\ (LockedBsp(m)' <=> LockedBsp(m)) /\ (Closed(m)' <=> Closed(m))
  BY <1>m
     DEF StageInv, Arriving, BackingUp, Programming, Serving, Exiting, Restoring, Resetting,
         Leaving, LockedBsp, Closed, Gathers, In, BspExitLabels
<1>e. Expected(m)' = Expected(m)
  BY <1>m, <1>t DEF Expected, In
<1>1. StageInv'
  BY <1>m DEF StageInv, In, Gathers, Leads, SameStack
<1>2. ArriveInv' /\ BackupInv' /\ ProgramInv' /\ ServeInv' /\ ExitInv' /\ RestoreInv'
      /\ ResetInv'
  BY <1>m, OthersAreNoBsp, <1>t, <1>e, AccountKept
     DEF ArriveInv, BackupInv, ProgramInv, ServeInv, ExitInv, RestoreInv, ResetInv
<1>3. LeaveInv' /\ NoJoiners' /\ LockInv' /\ CountInv' /\ CounterInv'
  BY <1>m, OthersAreNoBsp, <1>t, NumberStays
     DEF LeaveInv, In, Leads, NoJoiners, SameStack, LockInv, CountInv, CounterInv
<1>4. InsideInv' /\ PointerInv' /\ ModeInv' /\ ModesAgree' /\ PresentInv' /\ IdleInv'
      /\ BusyInv'
  BY <1>m
     DEF InsideInv, In, Leads, SameStack, PointerInv, ModeInv, ModesAgree, PresentInv, IdleInv,
         BusyInv
<1>5. TokenInv' /\ TaskInv'
  BY <1>m, OthersAreNoBsp, <1>t, CpuBound
     DEF TokenInv, In, Waits, Past, Starting, Signalled, Leads, SameStack, TaskInv, TypeOK,
         StackType
<1> QED
  BY <1>1, <1>2, <1>3, <1>4, <1>5

\* A blocking call returns.
LEMMA CallReturns ==
  ASSUME ~GiveUpRace, TypeOK, OneBsp, RunInv,
         NEW m \in Cpu,
         Leads(m),
         pc[m] = "b_block",
         pc'[m] = "b_core",
         index' = [index EXCEPT ![m] = 0],
         UNCHANGED <<counter, insideSmm, bspIndex, run, present, busy, syncMode,
                     effectiveSyncMode, bsp, apCount, left, inWorker>>
  PROVE  RunInv'
<1> USE DEF RunInv, Stays, Avoids
<1>m. /\ Stays(m, CountedLabels) /\ Stays(m, BspLabels)
      /\ Stays(m, InsideLabels) /\ Stays(m, ModeKnownLabels)
      /\ Stays(m, PresentLabels) /\ Stays(m, BspCoreLabels)
      /\ Avoids(m, ApLabels) /\ Avoids(m, JoiningLabels)
      /\ Avoids(m, ArrivalLabels) /\ Avoids(m, MtrrLabels)
      /\ Avoids(m, DueArrive) /\ Avoids(m, DueServe) /\ Avoids(m, DueExit)
      /\ Avoids(m, DueBackup) /\ Avoids(m, DueProgram)
      /\ Avoids(m, DueRestore) /\ Avoids(m, DueReset) /\ Avoids(m, PastMode)
      /\ Avoids(m, RelLabels) /\ Avoids(m, ReleasedLabels)
      /\ Avoids(m, BspResetLabels) /\ Avoids(m, WaitLabels)
  BY DEF CountedLabels, ArrivalLabels, InsideLabels, MtrrLabels, DueArrive, DueServe, DueExit,
         DueBackup, DueProgram, DueRestore, DueReset, PaidArrive, PaidBackup, PaidProgram,
         PaidRestore, PaidExit, ModeKnownLabels, PastMode, PresentLabels, RelLabels,
         ReleasedLabels, JoiningLabels, ApLabels, BspLabels, BspGatherLabels, BspCoreLabels,
         BspExitLabels, BspResetLabels, WaitLabels
<1>t. /\ ~Arriving(m) /\ ~BackingUp(m) /\ ~Programming(m) /\ Serving(m) /\ ~Exiting(m)
         /\ ~Restoring(m) /\ ~Resetting(m) /\ ~Leaving(m)
      /\ ~Arriving(m)' /\ ~BackingUp(m)' /\ ~Programming(m)' /\ Serving(m)' /\ ~Exiting(m)'
         /\ ~Restoring(m)' /\ ~Resetting(m)' /\ ~Leaving(m)'
      /\ (LockedBsp(m)' <=> LockedBsp(m)) /\ (Closed(m)' <=> Closed(m))
  BY <1>m
     DEF StageInv, Arriving, BackingUp, Programming, Serving, Exiting, Restoring, Resetting,
         Leaving, LockedBsp, Closed, Gathers, In, BspExitLabels
<1>e. Expected(m)' = Expected(m)
  BY <1>m, <1>t DEF Expected, In
<1>1. StageInv'
  BY <1>m DEF StageInv, In, Gathers, Leads, SameStack
<1>2. ArriveInv' /\ BackupInv' /\ ProgramInv' /\ ServeInv' /\ ExitInv' /\ RestoreInv'
      /\ ResetInv'
  BY <1>m, OthersAreNoBsp, <1>t, <1>e, AccountKept
     DEF ArriveInv, BackupInv, ProgramInv, ServeInv, ExitInv, RestoreInv, ResetInv
<1>3. LeaveInv' /\ NoJoiners' /\ LockInv' /\ CountInv' /\ CounterInv'
  BY <1>m, OthersAreNoBsp, <1>t, NumberStays
     DEF LeaveInv, In, Leads, NoJoiners, SameStack, LockInv, CountInv, CounterInv
<1>4. InsideInv' /\ PointerInv' /\ ModeInv' /\ ModesAgree' /\ PresentInv' /\ IdleInv'
      /\ BusyInv'
  BY <1>m
     DEF InsideInv, In, Leads, SameStack, PointerInv, ModeInv, ModesAgree, PresentInv, IdleInv,
         BusyInv
<1>5. TokenInv' /\ TaskInv'
  BY <1>m, OthersAreNoBsp, <1>t
     DEF TokenInv, In, Waits, Past, Starting, Signalled, Leads, SameStack, TaskInv
<1> QED
  BY <1>1, <1>2, <1>3, <1>4, <1>5

\* A handler calls SmmWaitForApArrival.
LEMMA CallArrival ==
  ASSUME ~GiveUpRace, TypeOK, OneBsp, RunInv,
         NEW m \in Cpu,
         Leads(m),
         pc[m] = "b_core",
         pc'[m] = "b_arrive1",
         inWorker' = [inWorker EXCEPT ![m] = TRUE],
         UNCHANGED <<counter, insideSmm, bspIndex, run, present, busy, syncMode,
                     effectiveSyncMode, bsp, index, apCount, left>>
  PROVE  RunInv'
<1> USE DEF RunInv, Stays, Avoids, Enters, Quits
<1>m. /\ Stays(m, CountedLabels) /\ Stays(m, BspLabels)
      /\ Stays(m, InsideLabels) /\ Stays(m, ModeKnownLabels)
      /\ Stays(m, PresentLabels)
      /\ Avoids(m, ApLabels) /\ Avoids(m, JoiningLabels)
      /\ Avoids(m, MtrrLabels) /\ Avoids(m, DueArrive) /\ Avoids(m, DueServe)
      /\ Avoids(m, DueExit) /\ Avoids(m, DueBackup) /\ Avoids(m, DueProgram)
      /\ Avoids(m, DueRestore) /\ Avoids(m, DueReset) /\ Avoids(m, PastMode)
      /\ Avoids(m, RelLabels) /\ Avoids(m, ReleasedLabels)
      /\ Avoids(m, BspResetLabels) /\ Avoids(m, WaitLabels)
      /\ Enters(m, ArrivalLabels)
      /\ Quits(m, BspCoreLabels)
  BY DEF CountedLabels, ArrivalLabels, InsideLabels, MtrrLabels, DueArrive, DueServe, DueExit,
         DueBackup, DueProgram, DueRestore, DueReset, PaidArrive, PaidBackup, PaidProgram,
         PaidRestore, PaidExit, ModeKnownLabels, PastMode, PresentLabels, RelLabels,
         ReleasedLabels, JoiningLabels, ApLabels, BspLabels, BspGatherLabels, BspCoreLabels,
         BspExitLabels, BspResetLabels, WaitLabels
<1>t. /\ ~Arriving(m) /\ ~BackingUp(m) /\ ~Programming(m) /\ Serving(m) /\ ~Exiting(m)
         /\ ~Restoring(m) /\ ~Resetting(m) /\ ~Leaving(m)
      /\ ~Arriving(m)' /\ ~BackingUp(m)' /\ ~Programming(m)' /\ Serving(m)' /\ ~Exiting(m)'
         /\ ~Restoring(m)' /\ ~Resetting(m)' /\ ~Leaving(m)'
      /\ (LockedBsp(m)' <=> LockedBsp(m)) /\ (Closed(m)' <=> Closed(m))
  BY <1>m
     DEF StageInv, Arriving, BackingUp, Programming, Serving, Exiting, Restoring, Resetting,
         Leaving, LockedBsp, Closed, Gathers, In, BspExitLabels, TypeOK, StackType
<1>e. Expected(m)' = Expected(m)
  BY <1>m, <1>t DEF Expected, In
<1>1. StageInv'
  BY <1>m DEF StageInv, In, Gathers, Leads, SameStack, TypeOK, StackType
<1>2. ArriveInv' /\ BackupInv' /\ ProgramInv' /\ ServeInv' /\ ExitInv' /\ RestoreInv'
      /\ ResetInv'
  BY <1>m, OthersAreNoBsp, <1>t, <1>e, AccountKept
     DEF ArriveInv, BackupInv, ProgramInv, ServeInv, ExitInv, RestoreInv, ResetInv
<1>3. LeaveInv'
  BY <1>m, OthersAreNoBsp, <1>t DEF LeaveInv, In
<1>4. InsideInv' /\ PointerInv' /\ ModeInv' /\ ModesAgree' /\ PresentInv' /\ IdleInv'
      /\ BusyInv'
  BY <1>m
     DEF InsideInv, In, Leads, SameStack, PointerInv, ModeInv, ModesAgree, PresentInv, IdleInv,
         BusyInv
<1>5. LockInv' /\ CountInv' /\ CounterInv'
  BY <1>m, OthersAreNoBsp, <1>t, NumberStays DEF LockInv, CountInv, In, Leads, CounterInv
<1>6. NoJoiners'
  BY <1>m, OthersAreNoBsp, <1>t DEF NoJoiners, In, Leads, OnlyMoves, SameStack
<1>7. TokenInv'
  BY <1>m, OthersAreNoBsp, <1>t
     DEF TokenInv, In, Waits, Past, Starting, Signalled, Leads, OnlyMoves
<1>8. TaskInv'
  BY <1>m, <1>t DEF TaskInv, In, Starting, Leads, SameStack, TypeOK, StackType
<1> QED
  BY <1>1, <1>2, <1>3, <1>4, <1>5, <1>6, <1>7, <1>8

\* The BSP clears its own Present and starts the last wait for all APs.
LEMMA AbsentBsp ==
  ASSUME ~GiveUpRace, TypeOK, OneBsp, RunInv,
         NEW m \in Cpu,
         Leads(m),
         pc[m] = "b_absent",
         pc'[m] = "b_wait_reset",
         present' = [present EXCEPT ![m] = FALSE],
         left' = [left EXCEPT ![m] = apCount[m]],
         UNCHANGED <<counter, insideSmm, bspIndex, run, busy, syncMode, effectiveSyncMode, bsp,
                     index, apCount, inWorker>>
  PROVE  RunInv'
<1> USE DEF RunInv, Stays, Avoids, Enters, Quits
<1>m. /\ Stays(m, CountedLabels) /\ Stays(m, BspLabels)
      /\ Stays(m, ModeKnownLabels) /\ Stays(m, PastMode)
      /\ Stays(m, ReleasedLabels) /\ Stays(m, BspResetLabels)
      /\ Avoids(m, ApLabels) /\ Avoids(m, JoiningLabels)
      /\ Avoids(m, ArrivalLabels) /\ Avoids(m, MtrrLabels)
      /\ Avoids(m, InsideLabels) /\ Avoids(m, DueArrive)
      /\ Avoids(m, DueServe) /\ Avoids(m, DueExit) /\ Avoids(m, DueBackup)
      /\ Avoids(m, DueProgram) /\ Avoids(m, DueRestore) /\ Avoids(m, DueReset)
      /\ Avoids(m, RelLabels) /\ Avoids(m, BspCoreLabels)
      /\ Enters(m, WaitLabels)
      /\ Quits(m, PresentLabels)
  BY DEF CountedLabels, ArrivalLabels, InsideLabels, MtrrLabels, DueArrive, DueServe, DueExit,
         DueBackup, DueProgram, DueRestore, DueReset, PaidArrive, PaidBackup, PaidProgram,
         PaidRestore, PaidExit, ModeKnownLabels, PastMode, PresentLabels, RelLabels,
         ReleasedLabels, JoiningLabels, ApLabels, BspLabels, BspGatherLabels, BspCoreLabels,
         BspExitLabels, BspResetLabels, WaitLabels
<1>t. /\ ~Arriving(m) /\ ~BackingUp(m) /\ ~Programming(m) /\ ~Serving(m) /\ ~Exiting(m)
         /\ ~Restoring(m) /\ Resetting(m) /\ ~Leaving(m)
      /\ ~Arriving(m)' /\ ~BackingUp(m)' /\ ~Programming(m)' /\ ~Serving(m)'
         /\ ~Exiting(m)' /\ ~Restoring(m)' /\ Resetting(m)' /\ ~Leaving(m)'
      /\ LockedBsp(m) /\ LockedBsp(m)' /\ (Closed(m)' <=> Closed(m))
  BY <1>m
     DEF StageInv, Arriving, BackingUp, Programming, Serving, Exiting, Restoring, Resetting,
         Leaving, LockedBsp, Closed, In
<1>e. Expected(m)' = Expected(m)
  BY <1>m, <1>t DEF Expected, In, TypeOK, StackType
<1>1. StageInv'
  BY <1>m DEF StageInv, In, Gathers, Leads, SameStack
<1>2. ArriveInv' /\ BackupInv' /\ ProgramInv' /\ ServeInv' /\ ExitInv' /\ RestoreInv'
      /\ ResetInv'
  BY <1>m, OthersAreNoBsp, <1>t, <1>e, AccountKept
     DEF ArriveInv, BackupInv, ProgramInv, ServeInv, ExitInv, RestoreInv, ResetInv
<1>3. LeaveInv' /\ NoJoiners' /\ LockInv' /\ CountInv' /\ CounterInv'
  BY <1>m, OthersAreNoBsp, <1>t
     DEF LeaveInv, In, Leads, NoJoiners, SameStack, LockInv, CountInv, CounterInv
<1>4. InsideInv' /\ PointerInv' /\ ModeInv' /\ ModesAgree' /\ PresentInv' /\ IdleInv'
      /\ BusyInv'
  BY <1>m
     DEF InsideInv, In, Leads, SameStack, PointerInv, ModeInv, ModesAgree, PresentInv, TypeOK,
         CpuDataType, IdleInv, BusyInv
<1>5. TokenInv' /\ TaskInv'
  BY <1>m, OthersAreNoBsp, <1>t
     DEF TokenInv, In, Woken, Waits, Starting, Signalled, Leads, SameStack, TaskInv
<1> QED
  BY <1>1, <1>2, <1>3, <1>4, <1>5

\* The BSP takes one signal in WaitForAllAPs.
LEMMA ReceiveStep ==
  ASSUME ~GiveUpRace, TypeOK, OneBsp, RunInv,
         NEW m \in Cpu,
         Leads(m),
         pc[m] \in WaitLabels,
         pc'[m] = pc[m],
         left[m] > 0,
         Down(m),
         left' = [left EXCEPT ![m] = @ - 1],
         UNCHANGED <<counter, insideSmm, bspIndex, present, busy, syncMode, effectiveSyncMode,
                     bsp, index, apCount, inWorker>>
  PROVE  RunInv'
<1> USE DEF RunInv
<1>m. /\ pc[m] \in CountedLabels
      /\ pc[m] \in BspLabels
      /\ pc[m] \notin ApLabels
      /\ pc[m] \notin JoiningLabels
      /\ pc[m] \notin ArrivalLabels
      /\ pc[m] \notin DueArrive
      /\ pc[m] \notin DueServe
      /\ pc[m] \notin DueExit
      /\ pc[m] \notin DueBackup
      /\ pc[m] \notin DueProgram
      /\ pc[m] \notin DueRestore
      /\ pc[m] \notin DueReset
      /\ pc[m] \notin RelLabels
      /\ pc[m] \notin BspCoreLabels
  BY DEF CountedLabels, ArrivalLabels, InsideLabels, MtrrLabels, DueArrive, DueServe, DueExit,
         DueBackup, DueProgram, DueRestore, DueReset, PaidArrive, PaidBackup, PaidProgram,
         PaidRestore, PaidExit, ModeKnownLabels, PastMode, PresentLabels, RelLabels,
         ReleasedLabels, JoiningLabels, ApLabels, BspLabels, BspGatherLabels, BspCoreLabels,
         BspExitLabels, BspResetLabels, WaitLabels
<1>t. /\ (Arriving(m)' <=> Arriving(m)) /\ (BackingUp(m)' <=> BackingUp(m))
         /\ (Programming(m)' <=> Programming(m)) /\ (Serving(m)' <=> Serving(m))
         /\ (Exiting(m)' <=> Exiting(m)) /\ (Restoring(m)' <=> Restoring(m))
         /\ (Resetting(m)' <=> Resetting(m)) /\ (Leaving(m)' <=> Leaving(m))
      /\ (LockedBsp(m)' <=> LockedBsp(m)) /\ (Closed(m)' <=> Closed(m))
  BY <1>m
     DEF StageInv, Arriving, BackingUp, Programming, Serving, Exiting, Restoring, Resetting,
         Leaving, LockedBsp, Closed, Gathers, In
<1>e. /\ Expected(m)' = Expected(m) - 1 /\ Expected(m) \in Int
      /\ run[m] \in Nat /\ run'[m] = run[m] - 1 /\ run' \in [Cpu -> Nat]
      /\ \A c \in Cpu \ {m} : run'[c] = run[c]
  BY <1>m DEF Expected, In, TypeOK, StackType, IdleInv, Down, WaitForSemaphore
<1>1. StageInv'
  BY <1>m DEF StageInv, In, Gathers, Leads, SameStack
<1>2. ArriveInv' /\ BackupInv' /\ ProgramInv' /\ ServeInv' /\ ExitInv' /\ RestoreInv'
      /\ ResetInv'
  BY <1>m, OthersAreNoBsp, <1>t, <1>e, AccountReceived
     DEF ArriveInv, BackupInv, ProgramInv, ServeInv, ExitInv, RestoreInv, ResetInv
<1>3. LeaveInv' /\ NoJoiners' /\ LockInv' /\ CountInv' /\ CounterInv'
  BY <1>m, OthersAreNoBsp, <1>t, NumberStays
     DEF LeaveInv, In, Leads, Leaving, WaitLabels, NoJoiners, SameStack, LockInv, CountInv,
         CounterInv
<1>4. InsideInv' /\ PointerInv' /\ ModeInv' /\ ModesAgree' /\ PresentInv' /\ IdleInv'
      /\ BusyInv'
  BY <1>m, <1>e
     DEF InsideInv, In, Leads, SameStack, PointerInv, ModeInv, ModesAgree, PresentInv, IdleInv,
         BusyInv
<1>5. TokenInv' /\ TaskInv'
  BY <1>m, OthersAreNoBsp, <1>t, <1>e
     DEF TokenInv, In, Woken, Waits, Past, Starting, Signalled, Leads, TaskInv, SameStack
<1> QED
  BY <1>1, <1>2, <1>3, <1>4, <1>5

\* All APs have arrived, and the MTRRs are to be programmed.
LEMMA ArrivedMtrrs ==
  ASSUME ~GiveUpRace, TypeOK, OneBsp, RunInv,
         NEW m \in Cpu,
         Leads(m),
         pc[m] = "b_wait_arrive",
         pc'[m] = "b_rel_backup",
         NeedConfigureMtrrs,
         left[m] = 0,
         index' = [index EXCEPT ![m] = NumberOfCpus],
         UNCHANGED <<counter, insideSmm, bspIndex, run, present, busy, syncMode,
                     effectiveSyncMode, bsp, apCount, left, inWorker>>
  PROVE  RunInv'
<1> USE DEF RunInv, Stays, Avoids, Enters, Quits
<1>m. /\ Stays(m, CountedLabels) /\ Stays(m, BspLabels)
      /\ Stays(m, InsideLabels) /\ Stays(m, ModeKnownLabels)
      /\ Stays(m, PresentLabels)
      /\ Avoids(m, ApLabels) /\ Avoids(m, JoiningLabels)
      /\ Avoids(m, ArrivalLabels) /\ Avoids(m, DueArrive)
      /\ Avoids(m, DueServe) /\ Avoids(m, DueExit) /\ Avoids(m, DueBackup)
      /\ Avoids(m, DueProgram) /\ Avoids(m, DueRestore) /\ Avoids(m, DueReset)
      /\ Avoids(m, PastMode) /\ Avoids(m, ReleasedLabels)
      /\ Avoids(m, BspCoreLabels) /\ Avoids(m, BspResetLabels)
      /\ Enters(m, MtrrLabels) /\ Enters(m, RelLabels)
      /\ Quits(m, WaitLabels)
  BY DEF CountedLabels, ArrivalLabels, InsideLabels, MtrrLabels, DueArrive, DueServe, DueExit,
         DueBackup, DueProgram, DueRestore, DueReset, PaidArrive, PaidBackup, PaidProgram,
         PaidRestore, PaidExit, ModeKnownLabels, PastMode, PresentLabels, RelLabels,
         ReleasedLabels, JoiningLabels, ApLabels, BspLabels, BspGatherLabels, BspCoreLabels,
         BspExitLabels, BspResetLabels, WaitLabels
<1>t. /\ Arriving(m) /\ ~BackingUp(m) /\ ~Programming(m) /\ ~Serving(m) /\ ~Exiting(m)
         /\ ~Restoring(m) /\ ~Resetting(m) /\ ~Leaving(m)
      /\ ~Arriving(m)' /\ BackingUp(m)' /\ ~Programming(m)' /\ ~Serving(m)' /\ ~Exiting(m)'
         /\ ~Restoring(m)' /\ ~Resetting(m)' /\ ~Leaving(m)'
      /\ LockedBsp(m) /\ LockedBsp(m)'
  BY <1>m
     DEF StageInv, Arriving, BackingUp, Programming, Serving, Exiting, Restoring, Resetting,
         Leaving, LockedBsp, In
<1>e. Expected(m)' = Number(pc, CountedLabels) - 1
  BY <1>m, <1>t DEF Expected, In, CountInv
<1>q. run[m] = 0 /\ \A c \in Cpu \ {m} : pc[c] \in CountedLabels => pc[c] \in PaidArrive
  BY <1>t, <1>m, AccountSettled DEF ArriveInv, Expected, In, IdleInv
<1>d. DueBackup \subseteq CountedLabels /\ \A c \in Cpu \ {m} : pc[c] \in CountedLabels =>
      pc[c] \in DueBackup
  BY <1>q DEF CountedLabels, DueBackup, PaidArrive, ApLabels
<1>a. \A c \in Cpu \ {m} : pc[c] \in ApLabels => pc[c] \in PaidArrive
  BY <1>q DEF CountedLabels
<1>1. StageInv'
  BY <1>m DEF StageInv, In, Gathers, Leads, SameStack
<1>2. ArriveInv' /\ BackupInv' /\ ProgramInv' /\ ServeInv' /\ ExitInv' /\ RestoreInv'
      /\ ResetInv'
  BY <1>m, OthersAreNoBsp, <1>t, <1>e, <1>q, <1>d, AccountTurned
     DEF ArriveInv, BackupInv, ProgramInv, ServeInv, ExitInv, RestoreInv, ResetInv
<1>3. LeaveInv' /\ NoJoiners' /\ LockInv' /\ CountInv' /\ CounterInv'
  <2>1. LeaveInv'
    BY OthersAreNoBsp, <1>t
       DEF LeaveInv, In
  <2>2. NoJoiners'
    BY <1>q
       DEF In, Leads, NoJoiners, SameStack, CountedLabels, DueArrive, PaidArrive, JoiningLabels,
           ApLabels
  <2>3. LockInv'
    BY <1>t
       DEF LockInv
  <2>4. CountInv'
    <3>1. Number(pc', CountedLabels) = Number(pc, CountedLabels)
      BY <1>m, NumberStays DEF Leads
    <3> QED
      BY <1>m, <1>t, <3>1, OthersAreNoBsp DEF CountInv, In
  <2>5. CounterInv'
    BY <1>m, NumberStays
       DEF Leads, CounterInv
  <2> QED
    BY <2>1, <2>2, <2>3, <2>4, <2>5
<1>4. InsideInv' /\ PointerInv' /\ ModeInv' /\ ModesAgree' /\ PresentInv' /\ IdleInv'
      /\ BusyInv'
  BY <1>m
     DEF InsideInv, In, Leads, SameStack, PointerInv, ModeInv, ModesAgree, PresentInv, IdleInv,
         BusyInv
<1>5. TokenInv' /\ TaskInv'
  BY <1>m, OthersAreNoBsp, <1>t, <1>a, CpuBound
     DEF TokenInv, In, Woken, Past, Starting, Signalled, Leads, OnlyMoves, PaidArrive, TypeOK,
         StackType, TaskInv
<1> QED
  BY <1>1, <1>2, <1>3, <1>4, <1>5

\* All APs have arrived, and the MTRRs are left alone.
LEMMA Arrived ==
  ASSUME ~GiveUpRace, TypeOK, OneBsp, RunInv,
         NEW m \in Cpu,
         Leads(m),
         pc[m] = "b_wait_arrive",
         pc'[m] = "b_busy",
         ~NeedConfigureMtrrs,
         left[m] = 0,
         UNCHANGED <<counter, insideSmm, bspIndex, run, present, busy, syncMode,
                     effectiveSyncMode, bsp, index, apCount, left, inWorker>>
  PROVE  RunInv'
<1> USE DEF RunInv, Stays, Avoids, Quits
<1>m. /\ Stays(m, CountedLabels) /\ Stays(m, BspLabels)
      /\ Stays(m, InsideLabels) /\ Stays(m, ModeKnownLabels)
      /\ Stays(m, PresentLabels)
      /\ Avoids(m, ApLabels) /\ Avoids(m, JoiningLabels)
      /\ Avoids(m, ArrivalLabels) /\ Avoids(m, MtrrLabels)
      /\ Avoids(m, DueArrive) /\ Avoids(m, DueServe) /\ Avoids(m, DueExit)
      /\ Avoids(m, DueBackup) /\ Avoids(m, DueProgram)
      /\ Avoids(m, DueRestore) /\ Avoids(m, DueReset) /\ Avoids(m, PastMode)
      /\ Avoids(m, RelLabels) /\ Avoids(m, ReleasedLabels)
      /\ Avoids(m, BspCoreLabels) /\ Avoids(m, BspResetLabels)
      /\ Quits(m, WaitLabels)
  BY DEF CountedLabels, ArrivalLabels, InsideLabels, MtrrLabels, DueArrive, DueServe, DueExit,
         DueBackup, DueProgram, DueRestore, DueReset, PaidArrive, PaidBackup, PaidProgram,
         PaidRestore, PaidExit, ModeKnownLabels, PastMode, PresentLabels, RelLabels,
         ReleasedLabels, JoiningLabels, ApLabels, BspLabels, BspGatherLabels, BspCoreLabels,
         BspExitLabels, BspResetLabels, WaitLabels
<1>t. /\ Arriving(m) /\ ~BackingUp(m) /\ ~Programming(m) /\ ~Serving(m) /\ ~Exiting(m)
         /\ ~Restoring(m) /\ ~Resetting(m) /\ ~Leaving(m)
      /\ ~Arriving(m)' /\ ~BackingUp(m)' /\ ~Programming(m)' /\ Serving(m)' /\ ~Exiting(m)'
         /\ ~Restoring(m)' /\ ~Resetting(m)' /\ ~Leaving(m)'
      /\ LockedBsp(m) /\ LockedBsp(m)'
  BY <1>m
     DEF StageInv, Arriving, BackingUp, Programming, Serving, Exiting, Restoring, Resetting,
         Leaving, LockedBsp, Gathers, In
<1>e. Expected(m)' = Number(pc, CountedLabels) - 1
  BY <1>m, <1>t DEF Expected, In, CountInv
<1>q. run[m] = 0 /\ \A c \in Cpu \ {m} : pc[c] \in CountedLabels => pc[c] \in PaidArrive
  BY <1>t, <1>m, AccountSettled DEF ArriveInv, Expected, In, IdleInv
<1>d. DueServe \subseteq CountedLabels /\ \A c \in Cpu \ {m} : pc[c] \in CountedLabels =>
      pc[c] \in DueServe
  BY <1>q DEF CountedLabels, DueArrive, DueServe, PaidArrive, ApLabels
<1>a. \A c \in Cpu \ {m} : pc[c] \in ApLabels => pc[c] \in PaidArrive
  BY <1>q DEF CountedLabels
<1>1. StageInv'
  BY <1>m DEF StageInv, In, Gathers, Leads, SameStack
<1>2. ArriveInv' /\ BackupInv' /\ ProgramInv' /\ ServeInv' /\ ExitInv' /\ RestoreInv'
      /\ ResetInv'
  BY <1>m, OthersAreNoBsp, <1>t, <1>e, <1>q, <1>d, AccountTurned
     DEF ArriveInv, BackupInv, ProgramInv, ServeInv, ExitInv, RestoreInv, ResetInv
<1>3. LeaveInv' /\ NoJoiners' /\ LockInv' /\ CountInv' /\ CounterInv'
  <2>1. LeaveInv'
    BY OthersAreNoBsp, <1>t
       DEF LeaveInv, In
  <2>2. NoJoiners'
    BY <1>q
       DEF In, Leads, NoJoiners, SameStack, CountedLabels, DueArrive, PaidArrive, JoiningLabels,
           ApLabels
  <2>3. LockInv'
    BY <1>t
       DEF LockInv
  <2>4. CountInv'
    <3>1. Number(pc', CountedLabels) = Number(pc, CountedLabels)
      BY <1>m, NumberStays DEF Leads
    <3> QED
      BY <1>m, <1>t, <3>1, OthersAreNoBsp DEF CountInv, In
  <2>5. CounterInv'
    BY <1>m, NumberStays
       DEF Leads, CounterInv
  <2> QED
    BY <2>1, <2>2, <2>3, <2>4, <2>5
<1>4. InsideInv' /\ PointerInv' /\ ModeInv' /\ ModesAgree' /\ PresentInv' /\ IdleInv'
      /\ BusyInv'
  BY <1>m
     DEF InsideInv, In, Leads, SameStack, PointerInv, ModeInv, ModesAgree, PresentInv, IdleInv,
         BusyInv
<1>5. TokenInv' /\ TaskInv'
  BY <1>m, OthersAreNoBsp, <1>t
     DEF TokenInv, In, Woken, Waits, Past, Starting, Signalled, Leads, OnlyMoves, TaskInv
<1> QED
  BY <1>1, <1>2, <1>3, <1>4, <1>5

\* All APs have backed their MTRRs up.
LEMMA BackedUp ==
  ASSUME ~GiveUpRace, TypeOK, OneBsp, RunInv,
         NEW m \in Cpu,
         Leads(m),
         pc[m] = "b_wait_backup",
         pc'[m] = "b_rel_program",
         left[m] = 0,
         index' = [index EXCEPT ![m] = NumberOfCpus],
         UNCHANGED <<counter, insideSmm, bspIndex, run, present, busy, syncMode,
                     effectiveSyncMode, bsp, apCount, left, inWorker>>
  PROVE  RunInv'
<1> USE DEF RunInv, Stays, Avoids, Enters, Quits
<1>m. /\ Stays(m, CountedLabels) /\ Stays(m, BspLabels)
      /\ Stays(m, MtrrLabels) /\ Stays(m, InsideLabels)
      /\ Stays(m, ModeKnownLabels) /\ Stays(m, PresentLabels)
      /\ Avoids(m, ApLabels) /\ Avoids(m, JoiningLabels)
      /\ Avoids(m, ArrivalLabels) /\ Avoids(m, DueArrive)
      /\ Avoids(m, DueServe) /\ Avoids(m, DueExit) /\ Avoids(m, DueBackup)
      /\ Avoids(m, DueProgram) /\ Avoids(m, DueRestore) /\ Avoids(m, DueReset)
      /\ Avoids(m, PastMode) /\ Avoids(m, BspCoreLabels)
      /\ Avoids(m, BspResetLabels)
      /\ Enters(m, RelLabels)
      /\ Quits(m, ReleasedLabels) /\ Quits(m, WaitLabels)
  BY DEF CountedLabels, ArrivalLabels, InsideLabels, MtrrLabels, DueArrive, DueServe, DueExit,
         DueBackup, DueProgram, DueRestore, DueReset, PaidArrive, PaidBackup, PaidProgram,
         PaidRestore, PaidExit, ModeKnownLabels, PastMode, PresentLabels, RelLabels,
         ReleasedLabels, JoiningLabels, ApLabels, BspLabels, BspGatherLabels, BspCoreLabels,
         BspExitLabels, BspResetLabels, WaitLabels
<1>t. /\ ~Arriving(m) /\ BackingUp(m) /\ ~Programming(m) /\ ~Serving(m) /\ ~Exiting(m)
         /\ ~Restoring(m) /\ ~Resetting(m) /\ ~Leaving(m)
      /\ ~Arriving(m)' /\ ~BackingUp(m)' /\ Programming(m)' /\ ~Serving(m)' /\ ~Exiting(m)'
         /\ ~Restoring(m)' /\ ~Resetting(m)' /\ ~Leaving(m)'
      /\ LockedBsp(m) /\ LockedBsp(m)'
  BY <1>m
     DEF StageInv, Arriving, BackingUp, Programming, Serving, Exiting, Restoring, Resetting,
         Leaving, LockedBsp, In
<1>e. Expected(m)' = Number(pc, CountedLabels) - 1
  BY <1>m, <1>t DEF Expected, In, CountInv
<1>q. run[m] = 0 /\ \A c \in Cpu \ {m} : pc[c] \in CountedLabels => pc[c] \in PaidBackup
  BY <1>t, <1>m, AccountSettled DEF BackupInv, Expected, In, IdleInv
<1>d. DueProgram \subseteq CountedLabels /\ \A c \in Cpu \ {m} : pc[c] \in CountedLabels =>
      pc[c] \in DueProgram
  BY <1>q DEF CountedLabels, DueProgram, PaidBackup, ApLabels
<1>a. \A c \in Cpu \ {m} : pc[c] \in ApLabels => pc[c] \in PaidBackup
  BY <1>q DEF CountedLabels
<1>1. StageInv'
  BY <1>m DEF StageInv, In, Gathers, Leads, SameStack
<1>2. ArriveInv' /\ BackupInv' /\ ProgramInv' /\ ServeInv' /\ ExitInv' /\ RestoreInv'
      /\ ResetInv'
  BY <1>m, OthersAreNoBsp, <1>t, <1>e, <1>q, <1>d, AccountTurned
     DEF ArriveInv, BackupInv, ProgramInv, ServeInv, ExitInv, RestoreInv, ResetInv
<1>3. LeaveInv' /\ NoJoiners' /\ LockInv' /\ CountInv' /\ CounterInv'
  BY <1>m, OthersAreNoBsp, <1>t, <1>q, NumberStays
     DEF LeaveInv, In, Leads, NoJoiners, SameStack, CountedLabels, DueArrive, PaidBackup,
         JoiningLabels, ApLabels, BspCoreLabels, BspResetLabels, WaitLabels, LockInv, CountInv,
         CounterInv
<1>4. InsideInv' /\ PointerInv' /\ ModeInv' /\ ModesAgree' /\ PresentInv' /\ IdleInv'
      /\ BusyInv'
  BY <1>m
     DEF InsideInv, In, Leads, SameStack, PointerInv, ModeInv, ModesAgree, PresentInv, IdleInv,
         BusyInv
<1>5. TokenInv' /\ TaskInv'
  BY <1>m, OthersAreNoBsp, <1>t, <1>a, CpuBound
     DEF TokenInv, In, Woken, Waits, Past, Starting, Signalled, Leads, OnlyMoves, PaidBackup,
         TypeOK, StackType, TaskInv
<1> QED
  BY <1>1, <1>2, <1>3, <1>4, <1>5

\* All APs have programmed their MTRRs.
LEMMA Programmed ==
  ASSUME ~GiveUpRace, TypeOK, OneBsp, RunInv,
         NEW m \in Cpu,
         Leads(m),
         pc[m] = "b_wait_program",
         pc'[m] = "b_busy",
         left[m] = 0,
         UNCHANGED <<counter, insideSmm, bspIndex, run, present, busy, syncMode,
                     effectiveSyncMode, bsp, index, apCount, left, inWorker>>
  PROVE  RunInv'
<1> USE DEF RunInv, Stays, Avoids, Quits
<1>m. /\ Stays(m, CountedLabels) /\ Stays(m, BspLabels)
      /\ Stays(m, InsideLabels) /\ Stays(m, ModeKnownLabels)
      /\ Stays(m, PresentLabels)
      /\ Avoids(m, ApLabels) /\ Avoids(m, JoiningLabels)
      /\ Avoids(m, ArrivalLabels) /\ Avoids(m, DueArrive)
      /\ Avoids(m, DueServe) /\ Avoids(m, DueExit) /\ Avoids(m, DueBackup)
      /\ Avoids(m, DueProgram) /\ Avoids(m, DueRestore) /\ Avoids(m, DueReset)
      /\ Avoids(m, PastMode) /\ Avoids(m, RelLabels)
      /\ Avoids(m, BspCoreLabels) /\ Avoids(m, BspResetLabels)
      /\ Quits(m, MtrrLabels) /\ Quits(m, ReleasedLabels)
      /\ Quits(m, WaitLabels)
  BY DEF CountedLabels, ArrivalLabels, InsideLabels, MtrrLabels, DueArrive, DueServe, DueExit,
         DueBackup, DueProgram, DueRestore, DueReset, PaidArrive, PaidBackup, PaidProgram,
         PaidRestore, PaidExit, ModeKnownLabels, PastMode, PresentLabels, RelLabels,
         ReleasedLabels, JoiningLabels, ApLabels, BspLabels, BspGatherLabels, BspCoreLabels,
         BspExitLabels, BspResetLabels, WaitLabels
<1>t. /\ ~Arriving(m) /\ ~BackingUp(m) /\ Programming(m) /\ ~Serving(m) /\ ~Exiting(m)
         /\ ~Restoring(m) /\ ~Resetting(m) /\ ~Leaving(m)
      /\ ~Arriving(m)' /\ ~BackingUp(m)' /\ ~Programming(m)' /\ Serving(m)' /\ ~Exiting(m)'
         /\ ~Restoring(m)' /\ ~Resetting(m)' /\ ~Leaving(m)'
      /\ LockedBsp(m) /\ LockedBsp(m)'
  BY <1>m
     DEF StageInv, Arriving, BackingUp, Programming, Serving, Exiting, Restoring, Resetting,
         Leaving, LockedBsp, Gathers, In
<1>e. Expected(m)' = Number(pc, CountedLabels) - 1
  BY <1>m, <1>t DEF Expected, In, CountInv
<1>q. run[m] = 0 /\ \A c \in Cpu \ {m} : pc[c] \in CountedLabels => pc[c] \in PaidProgram
  BY <1>t, <1>m, AccountSettled DEF ProgramInv, Expected, In, IdleInv
<1>d. DueServe \subseteq CountedLabels /\ \A c \in Cpu \ {m} : pc[c] \in CountedLabels =>
      pc[c] \in DueServe
  BY <1>q DEF CountedLabels, DueArrive, DueServe, PaidProgram, ApLabels
<1>a. \A c \in Cpu \ {m} : pc[c] \in ApLabels => pc[c] \in PaidProgram
  BY <1>q DEF CountedLabels
<1>1. StageInv'
  BY <1>m DEF StageInv, In, Gathers, Leads, SameStack
<1>2. ArriveInv' /\ BackupInv' /\ ProgramInv' /\ ServeInv' /\ ExitInv' /\ RestoreInv'
      /\ ResetInv'
  BY <1>m, OthersAreNoBsp, <1>t, <1>e, <1>q, <1>d, AccountTurned
     DEF ArriveInv, BackupInv, ProgramInv, ServeInv, ExitInv, RestoreInv, ResetInv
<1>3. LeaveInv' /\ NoJoiners' /\ LockInv' /\ CountInv' /\ CounterInv'
  <2>1. LeaveInv'
    BY OthersAreNoBsp, <1>t
       DEF LeaveInv
  <2>2. NoJoiners'
    BY <1>q
       DEF In, Leads, NoJoiners, SameStack, CountedLabels, DueArrive, PaidProgram,
           JoiningLabels, ApLabels
  <2>3. LockInv'
    BY <1>t
       DEF LockInv
  <2>4. CountInv'
    <3>1. Number(pc', CountedLabels) = Number(pc, CountedLabels)
      BY <1>m, NumberStays DEF Leads
    <3> QED
      BY <1>m, <1>t, <3>1, OthersAreNoBsp DEF CountInv, In
  <2>5. CounterInv'
    BY <1>m, NumberStays
       DEF Leads, CounterInv
  <2> QED
    BY <2>1, <2>2, <2>3, <2>4, <2>5
<1>4. InsideInv' /\ PointerInv' /\ ModeInv' /\ ModesAgree' /\ PresentInv' /\ IdleInv'
      /\ BusyInv'
  BY <1>m
     DEF InsideInv, In, Leads, SameStack, PointerInv, ModeInv, ModesAgree, PresentInv, IdleInv,
         BusyInv
<1>5. TokenInv' /\ TaskInv'
  <2>1. TokenInv'
    BY <1>m, OthersAreNoBsp, <1>t, <1>a
       DEF TokenInv, In, Waits, Past, Starting, Signalled, Leads, OnlyMoves, PaidProgram
  <2>2. TaskInv'
    BY <1>m, <1>t
       DEF In, Starting, Leads, OnlyMoves, TaskInv
  <2> QED
    BY <2>1, <2>2
<1> QED
  BY <1>1, <1>2, <1>3, <1>4, <1>5

\* All APs are ready to restore their MTRRs.
LEMMA ExitedMtrrs ==
  ASSUME ~GiveUpRace, TypeOK, OneBsp, RunInv,
         NEW m \in Cpu,
         Leads(m),
         pc[m] = "b_wait_exit",
         pc'[m] = "b_mode",
         NeedConfigureMtrrs,
         left[m] = 0,
         UNCHANGED <<counter, insideSmm, bspIndex, run, present, busy, syncMode,
                     effectiveSyncMode, bsp, index, apCount, left, inWorker>>
  PROVE  RunInv'
<1> USE DEF RunInv, Stays, Avoids, Quits
<1>m. /\ Stays(m, CountedLabels) /\ Stays(m, BspLabels)
      /\ Stays(m, ModeKnownLabels) /\ Stays(m, PresentLabels)
      /\ Avoids(m, ApLabels) /\ Avoids(m, JoiningLabels)
      /\ Avoids(m, ArrivalLabels) /\ Avoids(m, MtrrLabels)
      /\ Avoids(m, InsideLabels) /\ Avoids(m, DueArrive)
      /\ Avoids(m, DueServe) /\ Avoids(m, DueExit) /\ Avoids(m, DueBackup)
      /\ Avoids(m, DueProgram) /\ Avoids(m, DueRestore) /\ Avoids(m, DueReset)
      /\ Avoids(m, PastMode) /\ Avoids(m, RelLabels)
      /\ Avoids(m, BspCoreLabels) /\ Avoids(m, BspResetLabels)
      /\ Quits(m, ReleasedLabels) /\ Quits(m, WaitLabels)
  BY DEF CountedLabels, ArrivalLabels, InsideLabels, MtrrLabels, DueArrive, DueServe, DueExit,
         DueBackup, DueProgram, DueRestore, DueReset, PaidArrive, PaidBackup, PaidProgram,
         PaidRestore, PaidExit, ModeKnownLabels, PastMode, PresentLabels, RelLabels,
         ReleasedLabels, JoiningLabels, ApLabels, BspLabels, BspGatherLabels, BspCoreLabels,
         BspExitLabels, BspResetLabels, WaitLabels
<1>t. /\ ~Arriving(m) /\ ~BackingUp(m) /\ ~Programming(m) /\ ~Serving(m) /\ Exiting(m)
         /\ ~Restoring(m) /\ ~Resetting(m) /\ ~Leaving(m)
      /\ ~Arriving(m)' /\ ~BackingUp(m)' /\ ~Programming(m)' /\ ~Serving(m)'
         /\ ~Exiting(m)' /\ Restoring(m)' /\ ~Resetting(m)' /\ ~Leaving(m)'
      /\ LockedBsp(m) /\ LockedBsp(m)'
  BY <1>m
     DEF StageInv, Arriving, BackingUp, Programming, Serving, Exiting, Restoring, Resetting,
         Leaving, LockedBsp, In, BspExitLabels
<1>e. Expected(m)' = Number(pc, CountedLabels) - 1
  BY <1>m, <1>t DEF Expected, In, CountInv
<1>q. run[m] = 0 /\ \A c \in Cpu \ {m} : pc[c] \in CountedLabels => pc[c] \in PaidExit
  BY <1>t, <1>m, AccountSettled DEF ExitInv, Expected, In, IdleInv
<1>d. DueRestore \subseteq CountedLabels /\ \A c \in Cpu \ {m} : pc[c] \in CountedLabels =>
      pc[c] \in DueRestore
  BY <1>q DEF CountedLabels, DueRestore, PaidExit, ApLabels
<1>a. \A c \in Cpu \ {m} : pc[c] \in ApLabels => pc[c] \in PaidExit
  BY <1>q DEF CountedLabels
<1>1. StageInv'
  BY <1>m DEF StageInv, In, Gathers, Leads, SameStack
<1>2. ArriveInv' /\ BackupInv' /\ ProgramInv' /\ ServeInv' /\ ExitInv' /\ RestoreInv'
      /\ ResetInv'
  BY <1>m, OthersAreNoBsp, <1>t, <1>e, <1>q, <1>d, AccountTurned
     DEF ArriveInv, BackupInv, ProgramInv, ServeInv, ExitInv, RestoreInv, ResetInv
<1>3. LeaveInv' /\ NoJoiners' /\ LockInv' /\ CountInv' /\ CounterInv'
  <2>1. LeaveInv'
    BY OthersAreNoBsp, <1>t
       DEF LeaveInv, In
  <2>2. NoJoiners'
    BY <1>q
       DEF In, Leads, NoJoiners, SameStack, CountedLabels, DueArrive, PaidExit, JoiningLabels,
           ApLabels
  <2>3. LockInv'
    BY <1>t
       DEF LockInv
  <2>4. CountInv'
    <3>1. Number(pc', CountedLabels) = Number(pc, CountedLabels)
      BY <1>m, NumberStays DEF Leads
    <3> QED
      BY <1>m, <1>t, <3>1, OthersAreNoBsp DEF CountInv, In
  <2>5. CounterInv'
    BY <1>m, NumberStays
       DEF Leads, CounterInv
  <2> QED
    BY <2>1, <2>2, <2>3, <2>4, <2>5
<1>4. InsideInv' /\ PointerInv' /\ ModeInv' /\ ModesAgree' /\ PresentInv' /\ IdleInv'
      /\ BusyInv'
  BY <1>m
     DEF InsideInv, In, Leads, SameStack, PointerInv, ModeInv, ModesAgree, PresentInv, IdleInv,
         BusyInv
<1>5. TokenInv' /\ TaskInv'
  BY <1>m, OthersAreNoBsp, <1>t, <1>a
     DEF TokenInv, In, Woken, Waits, Past, Starting, Signalled, Leads, OnlyMoves, PaidExit,
         TaskInv
<1> QED
  BY <1>1, <1>2, <1>3, <1>4, <1>5

\* All APs have left the wait for work and are ready for the reset.
LEMMA Exited ==
  ASSUME ~GiveUpRace, TypeOK, OneBsp, RunInv,
         NEW m \in Cpu,
         Leads(m),
         pc[m] = "b_wait_exit",
         pc'[m] = "b_mode",
         ~NeedConfigureMtrrs,
         left[m] = 0,
         UNCHANGED <<counter, insideSmm, bspIndex, run, present, busy, syncMode,
                     effectiveSyncMode, bsp, index, apCount, left, inWorker>>
  PROVE  RunInv'
<1> USE DEF RunInv, Stays, Avoids, Quits
<1>m. /\ Stays(m, CountedLabels) /\ Stays(m, BspLabels)
      /\ Stays(m, ModeKnownLabels) /\ Stays(m, PresentLabels)
      /\ Avoids(m, ApLabels) /\ Avoids(m, JoiningLabels)
      /\ Avoids(m, ArrivalLabels) /\ Avoids(m, MtrrLabels)
      /\ Avoids(m, InsideLabels) /\ Avoids(m, DueArrive)
      /\ Avoids(m, DueServe) /\ Avoids(m, DueExit) /\ Avoids(m, DueBackup)
      /\ Avoids(m, DueProgram) /\ Avoids(m, DueRestore) /\ Avoids(m, DueReset)
      /\ Avoids(m, PastMode) /\ Avoids(m, RelLabels)
      /\ Avoids(m, BspCoreLabels) /\ Avoids(m, BspResetLabels)
      /\ Quits(m, ReleasedLabels) /\ Quits(m, WaitLabels)
  BY DEF CountedLabels, ArrivalLabels, InsideLabels, MtrrLabels, DueArrive, DueServe, DueExit,
         DueBackup, DueProgram, DueRestore, DueReset, PaidArrive, PaidBackup, PaidProgram,
         PaidRestore, PaidExit, ModeKnownLabels, PastMode, PresentLabels, RelLabels,
         ReleasedLabels, JoiningLabels, ApLabels, BspLabels, BspGatherLabels, BspCoreLabels,
         BspExitLabels, BspResetLabels, WaitLabels
<1>t. /\ ~Arriving(m) /\ ~BackingUp(m) /\ ~Programming(m) /\ ~Serving(m) /\ Exiting(m)
         /\ ~Restoring(m) /\ ~Resetting(m) /\ ~Leaving(m)
      /\ ~Arriving(m)' /\ ~BackingUp(m)' /\ ~Programming(m)' /\ ~Serving(m)'
         /\ ~Exiting(m)' /\ ~Restoring(m)' /\ Resetting(m)' /\ ~Leaving(m)'
      /\ LockedBsp(m) /\ LockedBsp(m)'
  BY <1>m
     DEF StageInv, Arriving, BackingUp, Programming, Serving, Exiting, Restoring, Resetting,
         Leaving, LockedBsp, In, BspExitLabels
<1>e. Expected(m)' = Number(pc, CountedLabels) - 1
  BY <1>m, <1>t DEF Expected, In, CountInv
<1>q. run[m] = 0 /\ \A c \in Cpu \ {m} : pc[c] \in CountedLabels => pc[c] \in PaidExit
  BY <1>t, <1>m, AccountSettled DEF ExitInv, Expected, In, IdleInv
<1>d. DueReset \subseteq CountedLabels /\ \A c \in Cpu \ {m} : pc[c] \in CountedLabels =>
      pc[c] \in DueReset
  BY <1>q DEF CountedLabels, DueReset, PaidExit, ApLabels
<1>a. \A c \in Cpu \ {m} : pc[c] \in ApLabels => pc[c] \in PaidExit
  BY <1>q DEF CountedLabels
<1>1. StageInv'
  BY <1>m DEF StageInv, In, Gathers, Leads, SameStack
<1>2. ArriveInv' /\ BackupInv' /\ ProgramInv' /\ ServeInv' /\ ExitInv' /\ RestoreInv'
      /\ ResetInv'
  BY <1>m, OthersAreNoBsp, <1>t, <1>e, <1>q, <1>d, AccountTurned
     DEF ArriveInv, BackupInv, ProgramInv, ServeInv, ExitInv, RestoreInv, ResetInv
<1>3. LeaveInv' /\ NoJoiners' /\ LockInv' /\ CountInv' /\ CounterInv'
  <2>1. LeaveInv'
    BY OthersAreNoBsp, <1>t
       DEF LeaveInv, In
  <2>2. NoJoiners'
    BY <1>q
       DEF In, Leads, NoJoiners, SameStack, CountedLabels, DueArrive, PaidExit, JoiningLabels,
           ApLabels
  <2>3. LockInv'
    BY <1>t
       DEF LockInv
  <2>4. CountInv'
    <3>1. Number(pc', CountedLabels) = Number(pc, CountedLabels)
      BY <1>m, NumberStays DEF Leads
    <3> QED
      BY <1>m, <1>t, <3>1, OthersAreNoBsp DEF CountInv, In
  <2>5. CounterInv'
    BY <1>m, NumberStays
       DEF Leads, CounterInv
  <2> QED
    BY <2>1, <2>2, <2>3, <2>4, <2>5
<1>4. InsideInv' /\ PointerInv' /\ ModeInv' /\ ModesAgree' /\ PresentInv' /\ IdleInv'
      /\ BusyInv'
  BY <1>m
     DEF InsideInv, In, Leads, SameStack, PointerInv, ModeInv, ModesAgree, PresentInv, IdleInv,
         BusyInv
<1>5. TokenInv' /\ TaskInv'
  BY <1>m, OthersAreNoBsp, <1>t, <1>a
     DEF TokenInv, In, Woken, Waits, Past, Starting, Signalled, Leads, OnlyMoves, PaidExit,
         TaskInv
<1> QED
  BY <1>1, <1>2, <1>3, <1>4, <1>5

\* All APs have restored their MTRRs.
LEMMA Restored ==
  ASSUME ~GiveUpRace, TypeOK, OneBsp, RunInv,
         NEW m \in Cpu,
         Leads(m),
         pc[m] = "b_wait_restore",
         pc'[m] = "b_rel_reset",
         left[m] = 0,
         index' = [index EXCEPT ![m] = NumberOfCpus],
         UNCHANGED <<counter, insideSmm, bspIndex, run, present, busy, syncMode,
                     effectiveSyncMode, bsp, apCount, left, inWorker>>
  PROVE  RunInv'
<1> USE DEF RunInv, Stays, Avoids, Enters, Quits
<1>m. /\ Stays(m, CountedLabels) /\ Stays(m, BspLabels)
      /\ Stays(m, ModeKnownLabels) /\ Stays(m, PastMode)
      /\ Stays(m, PresentLabels)
      /\ Avoids(m, ApLabels) /\ Avoids(m, JoiningLabels)
      /\ Avoids(m, ArrivalLabels) /\ Avoids(m, InsideLabels)
      /\ Avoids(m, DueArrive) /\ Avoids(m, DueServe) /\ Avoids(m, DueExit)
      /\ Avoids(m, DueBackup) /\ Avoids(m, DueProgram)
      /\ Avoids(m, DueRestore) /\ Avoids(m, DueReset)
      /\ Avoids(m, BspCoreLabels)
      /\ Enters(m, RelLabels) /\ Enters(m, BspResetLabels)
      /\ Quits(m, MtrrLabels) /\ Quits(m, ReleasedLabels)
      /\ Quits(m, WaitLabels)
  BY DEF CountedLabels, ArrivalLabels, InsideLabels, MtrrLabels, DueArrive, DueServe, DueExit,
         DueBackup, DueProgram, DueRestore, DueReset, PaidArrive, PaidBackup, PaidProgram,
         PaidRestore, PaidExit, ModeKnownLabels, PastMode, PresentLabels, RelLabels,
         ReleasedLabels, JoiningLabels, ApLabels, BspLabels, BspGatherLabels, BspCoreLabels,
         BspExitLabels, BspResetLabels, WaitLabels
<1>t. /\ ~Arriving(m) /\ ~BackingUp(m) /\ ~Programming(m) /\ ~Serving(m) /\ ~Exiting(m)
         /\ Restoring(m) /\ ~Resetting(m) /\ ~Leaving(m)
      /\ ~Arriving(m)' /\ ~BackingUp(m)' /\ ~Programming(m)' /\ ~Serving(m)'
         /\ ~Exiting(m)' /\ ~Restoring(m)' /\ Resetting(m)' /\ ~Leaving(m)'
      /\ LockedBsp(m) /\ LockedBsp(m)'
  BY <1>m
     DEF StageInv, Arriving, BackingUp, Programming, Serving, Exiting, Restoring, Resetting,
         Leaving, LockedBsp, In
<1>e. Expected(m)' = Number(pc, CountedLabels) - 1
  BY <1>m, <1>t DEF Expected, In, CountInv
<1>q. run[m] = 0 /\ \A c \in Cpu \ {m} : pc[c] \in CountedLabels => pc[c] \in PaidRestore
  BY <1>t, <1>m, AccountSettled DEF RestoreInv, Expected, In, IdleInv
<1>d. DueReset \subseteq CountedLabels /\ \A c \in Cpu \ {m} : pc[c] \in CountedLabels =>
      pc[c] \in DueReset
  BY <1>q DEF CountedLabels, DueReset, PaidRestore, ApLabels
<1>a. \A c \in Cpu \ {m} : pc[c] \in ApLabels => pc[c] \in PaidRestore
  BY <1>q DEF CountedLabels
<1>1. StageInv'
  BY <1>m DEF StageInv, In, Gathers, Leads, SameStack
<1>2. ArriveInv' /\ BackupInv' /\ ProgramInv' /\ ServeInv' /\ ExitInv' /\ RestoreInv'
      /\ ResetInv'
  BY <1>m, OthersAreNoBsp, <1>t, <1>e, <1>q, <1>d, AccountTurned
     DEF ArriveInv, BackupInv, ProgramInv, ServeInv, ExitInv, RestoreInv, ResetInv
<1>3. LeaveInv' /\ NoJoiners' /\ LockInv' /\ CountInv' /\ CounterInv'
  BY <1>m, OthersAreNoBsp, <1>t, <1>q
     DEF LeaveInv, In, Leads, NoJoiners, SameStack, CountedLabels, DueArrive, PaidRestore,
         JoiningLabels, ApLabels, LockInv, CountInv, CounterInv
<1>4. InsideInv' /\ PointerInv' /\ ModeInv' /\ ModesAgree' /\ PresentInv' /\ IdleInv'
      /\ BusyInv'
  BY <1>m
     DEF InsideInv, In, Leads, SameStack, PointerInv, ModeInv, ModesAgree, PresentInv, IdleInv,
         BusyInv
<1>5. TokenInv' /\ TaskInv'
  BY <1>m, OthersAreNoBsp, <1>t, <1>a, CpuBound
     DEF TokenInv, In, Woken, Waits, Past, Starting, Signalled, Leads, OnlyMoves, PaidRestore,
         TypeOK, StackType, TaskInv
<1> QED
  BY <1>1, <1>2, <1>3, <1>4, <1>5

\* All APs have said goodbye: only the BSP is counted.
LEMMA ResetDone ==
  ASSUME ~GiveUpRace, TypeOK, OneBsp, RunInv,
         NEW m \in Cpu,
         Leads(m),
         pc[m] = "b_wait_reset",
         pc'[m] = "b_nobsp",
         left[m] = 0,
         UNCHANGED <<counter, insideSmm, bspIndex, run, present, busy, syncMode,
                     effectiveSyncMode, bsp, index, apCount, left, inWorker>>
  PROVE  RunInv'
<1> USE DEF RunInv, Stays, Avoids, Quits
<1>m. /\ Stays(m, CountedLabels) /\ Stays(m, BspLabels)
      /\ Stays(m, ModeKnownLabels) /\ Stays(m, PastMode)
      /\ Stays(m, BspResetLabels)
      /\ Avoids(m, ApLabels) /\ Avoids(m, JoiningLabels)
      /\ Avoids(m, ArrivalLabels) /\ Avoids(m, MtrrLabels)
      /\ Avoids(m, InsideLabels) /\ Avoids(m, DueArrive)
      /\ Avoids(m, DueServe) /\ Avoids(m, DueExit) /\ Avoids(m, DueBackup)
      /\ Avoids(m, DueProgram) /\ Avoids(m, DueRestore) /\ Avoids(m, DueReset)
      /\ Avoids(m, PresentLabels) /\ Avoids(m, RelLabels)
      /\ Avoids(m, BspCoreLabels)
      /\ Quits(m, ReleasedLabels) /\ Quits(m, WaitLabels)
  BY DEF CountedLabels, ArrivalLabels, InsideLabels, MtrrLabels, DueArrive, DueServe, DueExit,
         DueBackup, DueProgram, DueRestore, DueReset, PaidArrive, PaidBackup, PaidProgram,
         PaidRestore, PaidExit, ModeKnownLabels, PastMode, PresentLabels, RelLabels,
         ReleasedLabels, JoiningLabels, ApLabels, BspLabels, BspGatherLabels, BspCoreLabels,
         BspExitLabels, BspResetLabels, WaitLabels
<1>t. /\ ~Arriving(m) /\ ~BackingUp(m) /\ ~Programming(m) /\ ~Serving(m) /\ ~Exiting(m)
         /\ ~Restoring(m) /\ Resetting(m) /\ ~Leaving(m)
      /\ ~Arriving(m)' /\ ~BackingUp(m)' /\ ~Programming(m)' /\ ~Serving(m)'
         /\ ~Exiting(m)' /\ ~Restoring(m)' /\ ~Resetting(m)' /\ Leaving(m)'
      /\ LockedBsp(m) /\ LockedBsp(m)'
  BY <1>m
     DEF StageInv, Arriving, BackingUp, Programming, Serving, Exiting, Restoring, Resetting,
         Leaving, LockedBsp, In
<1>q. run[m] = 0 /\ \A c \in Cpu \ {m} : pc[c] \in CountedLabels => pc[c] \in {}
  BY <1>t, <1>m, AccountSettled DEF ResetInv, Expected, In, IdleInv
<1>a. \A c \in Cpu \ {m} : pc[c] \in ApLabels => pc[c] \in {}
  BY <1>q DEF CountedLabels
<1>1. StageInv'
  BY <1>m DEF StageInv, In, Gathers, Leads, SameStack
<1>2. ArriveInv' /\ BackupInv' /\ ProgramInv' /\ ServeInv' /\ ExitInv' /\ RestoreInv'
      /\ ResetInv'
  BY <1>m, OthersAreNoBsp, <1>t
     DEF ArriveInv, BackupInv, ProgramInv, ServeInv, ExitInv, RestoreInv, ResetInv
<1>3. LeaveInv' /\ NoJoiners' /\ LockInv' /\ CountInv' /\ CounterInv'
  BY <1>m, OthersAreNoBsp, <1>t, <1>q
     DEF LeaveInv, In, Leads, NoJoiners, SameStack, CountedLabels, DueArrive, ApLabels, LockInv,
         CountInv, CounterInv
<1>4. InsideInv' /\ PointerInv' /\ ModeInv' /\ ModesAgree' /\ PresentInv' /\ IdleInv'
      /\ BusyInv'
  BY <1>m
     DEF InsideInv, In, Leads, SameStack, PointerInv, ModeInv, ModesAgree, PresentInv, IdleInv,
         BusyInv
<1>5. TokenInv' /\ TaskInv'
  BY <1>m, <1>a DEF TokenInv, In, Starting, Leads, OnlyMoves, TaskInv
<1> QED
  BY <1>1, <1>2, <1>3, <1>4, <1>5

\* The BSP clears InsideSmm: every AP it will release is present and idle.
LEMMA FlagOutside ==
  ASSUME ~GiveUpRace, TypeOK, OneBsp, RunInv,
         NEW m \in Cpu,
         Leads(m),
         pc[m] = "b_outside",
         pc'[m] = "b_rel_exit",
         insideSmm' = FALSE,
         index' = [index EXCEPT ![m] = NumberOfCpus],
         UNCHANGED <<counter, bspIndex, run, present, busy, syncMode, effectiveSyncMode, bsp,
                     apCount, left, inWorker>>
  PROVE  RunInv'
<1> USE DEF RunInv, Stays, Avoids, Enters, Quits
<1>m. /\ Stays(m, CountedLabels) /\ Stays(m, BspLabels)
      /\ Stays(m, ModeKnownLabels) /\ Stays(m, PresentLabels)
      /\ Avoids(m, ApLabels) /\ Avoids(m, JoiningLabels)
      /\ Avoids(m, ArrivalLabels) /\ Avoids(m, MtrrLabels)
      /\ Avoids(m, DueArrive) /\ Avoids(m, DueServe) /\ Avoids(m, DueExit)
      /\ Avoids(m, DueBackup) /\ Avoids(m, DueProgram)
      /\ Avoids(m, DueRestore) /\ Avoids(m, DueReset) /\ Avoids(m, PastMode)
      /\ Avoids(m, ReleasedLabels) /\ Avoids(m, BspCoreLabels)
      /\ Avoids(m, BspResetLabels) /\ Avoids(m, WaitLabels)
      /\ Enters(m, RelLabels)
      /\ Quits(m, InsideLabels)
  BY DEF CountedLabels, ArrivalLabels, InsideLabels, MtrrLabels, DueArrive, DueServe, DueExit,
         DueBackup, DueProgram, DueRestore, DueReset, PaidArrive, PaidBackup, PaidProgram,
         PaidRestore, PaidExit, ModeKnownLabels, PastMode, PresentLabels, RelLabels,
         ReleasedLabels, JoiningLabels, ApLabels, BspLabels, BspGatherLabels, BspCoreLabels,
         BspExitLabels, BspResetLabels, WaitLabels
<1>t. /\ ~Arriving(m) /\ ~BackingUp(m) /\ ~Programming(m) /\ Serving(m) /\ ~Exiting(m)
         /\ ~Restoring(m) /\ ~Resetting(m) /\ ~Leaving(m)
      /\ ~Arriving(m)' /\ ~BackingUp(m)' /\ ~Programming(m)' /\ ~Serving(m)' /\ Exiting(m)'
         /\ ~Restoring(m)' /\ ~Resetting(m)' /\ ~Leaving(m)'
      /\ LockedBsp(m) /\ LockedBsp(m)'
  BY <1>m
     DEF StageInv, Arriving, BackingUp, Programming, Serving, Exiting, Restoring, Resetting,
         Leaving, LockedBsp, In, BspExitLabels
<1>e. Expected(m)' = Number(pc, CountedLabels) - 1
  BY <1>m, <1>t DEF Expected, In, CountInv
<1>q. run[m] = 0 /\ \A c \in Cpu \ {m} : pc[c] \in CountedLabels => pc[c] \in PaidProgram
  <2>1. Account(m, DueServe, {}) /\ Closed(m)
    BY <1>m, <1>t DEF ServeInv, Closed, In
  <2>2. \A c \in Cpu \ {m} : pc[c] \in CountedLabels => pc[c] \in DueServe
        /\ pc[c] \notin DueArrive
    BY <2>1 DEF Account, NoJoiners, In
  <2>3. Number(pc, DueServe) = Number(pc, CountedLabels) - 1
    <3>1. DueServe \subseteq CountedLabels
      BY DEF DueServe, DueArrive, CountedLabels, ApLabels
    <3> QED
      BY <1>m, <2>2, <3>1, NumberOfOthers
  <2>4. Expected(m) = Number(pc, CountedLabels) - 1
    BY <1>m, <1>t DEF Expected, In, CountInv
  <2>5. run[m] = 0
    BY <2>1, <2>3, <2>4, NumberIsNat DEF Account, IdleInv
  <2>6. \A c \in Cpu \ {m} : pc[c] \in CountedLabels => pc[c] \in ApLabels
    BY <2>2 DEF DueServe, ApLabels
  <2>7. \A c \in Cpu \ {m} : pc[c] \in CountedLabels => ~busy[c] /\ pc[c] # "ap_check"
    BY <1>m, <1>t, <2>6 DEF TaskInv, In, StageInv
  <2> QED
    BY <2>2, <2>5, <2>7 DEF DueServe, PaidProgram, BusyInv, In
<1>d. DueExit \subseteq CountedLabels /\ \A c \in Cpu \ {m} : pc[c] \in CountedLabels =>
      pc[c] \in DueExit
  BY <1>q DEF CountedLabels, DueExit, PaidProgram, ApLabels
<1>a. \A c \in Cpu \ {m} : pc[c] \in ApLabels => pc[c] \in PaidProgram
  BY <1>q DEF CountedLabels
<1>1. StageInv'
  BY <1>m DEF StageInv, In, Gathers, Leads, SameStack
<1>2. ArriveInv' /\ BackupInv' /\ ProgramInv' /\ ServeInv' /\ ExitInv' /\ RestoreInv'
      /\ ResetInv'
  BY <1>m, OthersAreNoBsp, <1>t, <1>e, <1>q, <1>d, AccountTurned
     DEF ArriveInv, BackupInv, ProgramInv, ServeInv, ExitInv, RestoreInv, ResetInv
<1>3. LeaveInv' /\ NoJoiners' /\ LockInv' /\ CountInv' /\ CounterInv'
  <2>1. LeaveInv'
    BY OthersAreNoBsp, <1>t
       DEF LeaveInv, Leads
  <2>2. NoJoiners'
    BY <1>q
       DEF In, Leads, NoJoiners, SameStack, CountedLabels, DueArrive, PaidProgram,
           JoiningLabels, ApLabels
  <2>3. LockInv'
    BY <1>t
       DEF LockInv
  <2>4. CountInv'
    <3>1. Number(pc', CountedLabels) = Number(pc, CountedLabels)
      BY <1>m, NumberStays DEF Leads
    <3> QED
      BY <1>m, <1>t, <3>1, OthersAreNoBsp DEF CountInv, In
  <2>5. CounterInv'
    BY <1>m, NumberStays
       DEF Leads, CounterInv
  <2> QED
    BY <2>1, <2>2, <2>3, <2>4, <2>5
<1>4. InsideInv' /\ PointerInv' /\ ModeInv' /\ ModesAgree' /\ PresentInv' /\ IdleInv'
      /\ BusyInv'
  BY <1>m, OthersAreNoBsp
     DEF InsideInv, In, Leads, SameStack, InsideLabels, PointerInv, ModeInv, ModesAgree,
         PresentInv, IdleInv, BusyInv
<1>5. TokenInv' /\ TaskInv'
  BY <1>m, OthersAreNoBsp, <1>t, <1>a, CpuBound
     DEF TokenInv, In, Woken, Waits, Past, Starting, Signalled, Leads, OnlyMoves, PaidProgram,
         TypeOK, StackType, PaidExit, TaskInv
<1> QED
  BY <1>1, <1>2, <1>3, <1>4, <1>5

\* The BSP comes to one AP in ReleaseAllAPs and signals it if it is present;
\* after the last it moves on.
LEMMA ReleaseApStep ==
  ASSUME ~GiveUpRace, TypeOK, OneBsp, RunInv,
         NEW m \in Cpu,
         Leads(m),
         NEW i \in Cpu,
         index[m] = i + 1,
         index' = [index EXCEPT ![m] = i],
         \/ i # 0 /\ pc[m] \in RelLabels /\ pc'[m] = pc[m]
         \/ i = 0 /\ \/ pc[m] = "b_rel_backup" /\ pc'[m] = "b_backup"
                     \/ pc[m] = "b_rel_program" /\ pc'[m] = "b_program"
                     \/ pc[m] = "b_rel_exit" /\ pc'[m] = "b_wait_exit"
                     \/ pc[m] = "b_rel_restore" /\ pc'[m] = "b_restore"
                     \/ pc[m] = "b_rel_reset" /\ pc'[m] = "b_update",
         IF Releases(i) THEN Up(i) ELSE UNCHANGED run,
         pc'[m] = "b_wait_exit" => left'[m] = apCount[m],
         UNCHANGED <<counter, insideSmm, bspIndex, present, busy, syncMode, effectiveSyncMode,
                     bsp, apCount, inWorker>>
  PROVE  RunInv'
<1> USE DEF RunInv, Stays, Avoids
<1>m. /\ Stays(m, CountedLabels) /\ Stays(m, BspLabels)
      /\ Stays(m, ModeKnownLabels) /\ Stays(m, PresentLabels)
      /\ Avoids(m, ApLabels) /\ Avoids(m, JoiningLabels)
      /\ Avoids(m, ArrivalLabels) /\ Avoids(m, DueArrive)
      /\ Avoids(m, DueServe) /\ Avoids(m, DueExit) /\ Avoids(m, DueBackup)
      /\ Avoids(m, DueProgram) /\ Avoids(m, DueRestore) /\ Avoids(m, DueReset)
      /\ Avoids(m, BspCoreLabels)
      /\ pc[m] \in RelLabels
      /\ pc[m] \notin ReleasedLabels
      /\ pc[m] \notin WaitLabels
      /\ (pc'[m] \in WaitLabels <=> pc'[m] = "b_wait_exit")
      /\ (pc[m] \in MtrrLabels <=> pc'[m] \in MtrrLabels)
      /\ (pc[m] \in PastMode <=> pc'[m] \in PastMode)
      /\ (pc[m] \in BspResetLabels <=> pc'[m] \in BspResetLabels)
      /\ ((i # 0 /\ pc'[m] \in RelLabels) \/ (i = 0 /\ pc'[m] \in ReleasedLabels
         /\ pc'[m] \notin RelLabels))
      /\ (pc[m] \in InsideLabels <=> pc'[m] \in InsideLabels)
  <2>0. \/ pc[m] = "b_rel_backup" /\ ((i # 0 /\ pc'[m] = "b_rel_backup") \/ (i = 0
           /\ pc'[m] = "b_backup"))
        \/ pc[m] = "b_rel_program" /\ ((i # 0 /\ pc'[m] = "b_rel_program") \/ (i = 0
           /\ pc'[m] = "b_program"))
        \/ pc[m] = "b_rel_exit" /\ ((i # 0 /\ pc'[m] = "b_rel_exit") \/ (i = 0
           /\ pc'[m] = "b_wait_exit"))
        \/ pc[m] = "b_rel_restore" /\ ((i # 0 /\ pc'[m] = "b_rel_restore") \/ (i = 0
           /\ pc'[m] = "b_restore"))
        \/ pc[m] = "b_rel_reset" /\ ((i # 0 /\ pc'[m] = "b_rel_reset") \/ (i = 0
           /\ pc'[m] = "b_update"))
    BY DEF RelLabels
  <2>1. CASE pc[m] = "b_rel_backup" /\ ((i # 0 /\ pc'[m] = "b_rel_backup") \/ (i = 0
        /\ pc'[m] = "b_backup"))
    BY <2>1
       DEF CountedLabels, ArrivalLabels, InsideLabels, MtrrLabels, DueArrive, DueServe, DueExit,
           DueBackup, DueProgram, DueRestore, DueReset, PaidArrive, PaidBackup, PaidProgram,
           PaidRestore, PaidExit, ModeKnownLabels, PastMode, PresentLabels, RelLabels,
           ReleasedLabels, JoiningLabels, ApLabels, BspLabels, BspGatherLabels, BspCoreLabels,
           BspExitLabels, BspResetLabels, WaitLabels
  <2>2. CASE pc[m] = "b_rel_program" /\ ((i # 0 /\ pc'[m] = "b_rel_program") \/ (i = 0
        /\ pc'[m] = "b_program"))
    BY <2>2
       DEF CountedLabels, ArrivalLabels, InsideLabels, MtrrLabels, DueArrive, DueServe, DueExit,
           DueBackup, DueProgram, DueRestore, DueReset, PaidArrive, PaidBackup, PaidProgram,
           PaidRestore, PaidExit, ModeKnownLabels, PastMode, PresentLabels, RelLabels,
           ReleasedLabels, JoiningLabels, ApLabels, BspLabels, BspGatherLabels, BspCoreLabels,
           BspExitLabels, BspResetLabels, WaitLabels
  <2>3. CASE pc[m] = "b_rel_exit" /\ ((i # 0 /\ pc'[m] = "b_rel_exit") \/ (i = 0
        /\ pc'[m] = "b_wait_exit"))
    BY <2>3
       DEF CountedLabels, ArrivalLabels, InsideLabels, MtrrLabels, DueArrive, DueServe, DueExit,
           DueBackup, DueProgram, DueRestore, DueReset, PaidArrive, PaidBackup, PaidProgram,
           PaidRestore, PaidExit, ModeKnownLabels, PastMode, PresentLabels, RelLabels,
           ReleasedLabels, JoiningLabels, ApLabels, BspLabels, BspGatherLabels, BspCoreLabels,
           BspExitLabels, BspResetLabels, WaitLabels
  <2>4. CASE pc[m] = "b_rel_restore" /\ ((i # 0 /\ pc'[m] = "b_rel_restore") \/ (i = 0
        /\ pc'[m] = "b_restore"))
    BY <2>4
       DEF CountedLabels, ArrivalLabels, InsideLabels, MtrrLabels, DueArrive, DueServe, DueExit,
           DueBackup, DueProgram, DueRestore, DueReset, PaidArrive, PaidBackup, PaidProgram,
           PaidRestore, PaidExit, ModeKnownLabels, PastMode, PresentLabels, RelLabels,
           ReleasedLabels, JoiningLabels, ApLabels, BspLabels, BspGatherLabels, BspCoreLabels,
           BspExitLabels, BspResetLabels, WaitLabels
  <2>5. CASE pc[m] = "b_rel_reset" /\ ((i # 0 /\ pc'[m] = "b_rel_reset") \/ (i = 0
        /\ pc'[m] = "b_update"))
    BY <2>5
       DEF CountedLabels, ArrivalLabels, InsideLabels, MtrrLabels, DueArrive, DueServe, DueExit,
           DueBackup, DueProgram, DueRestore, DueReset, PaidArrive, PaidBackup, PaidProgram,
           PaidRestore, PaidExit, ModeKnownLabels, PastMode, PresentLabels, RelLabels,
           ReleasedLabels, JoiningLabels, ApLabels, BspLabels, BspGatherLabels, BspCoreLabels,
           BspExitLabels, BspResetLabels, WaitLabels
  <2> QED
    BY <2>0, <2>1, <2>2, <2>3, <2>4, <2>5
<1>t. /\ ~Arriving(m) /\ ~Arriving(m)' /\ (BackingUp(m)' <=> BackingUp(m))
         /\ (Programming(m)' <=> Programming(m)) /\ ~Serving(m) /\ ~Serving(m)'
         /\ (Exiting(m)' <=> Exiting(m)) /\ (Restoring(m)' <=> Restoring(m))
         /\ (Resetting(m)' <=> Resetting(m)) /\ ~Leaving(m) /\ ~Leaving(m)'
      /\ LockedBsp(m) /\ LockedBsp(m)' /\ (Closed(m)' <=> Closed(m))
  BY <1>m
     DEF StageInv, Arriving, BackingUp, Programming, Serving, Exiting, Restoring, Resetting,
         Leaving, LockedBsp, Closed, Gathers, In, MtrrLabels, RelLabels, BspExitLabels,
         BspResetLabels
<1>e. Expected(m)' = Expected(m)
  BY <1>m, <1>t DEF Expected, In
<1>r. /\ run' \in [Cpu -> Nat] /\ \A c \in Cpu \ {i} : run'[c] = run[c]
      /\ run'[i] = IF i # m /\ present[i] THEN run[i] + 1 ELSE run[i]
  <2>1. bspIndex = m
    BY <1>m, <1>t DEF OneBsp, ActingLabels, In, Leaving
  <2> QED
    BY <2>1 DEF IdleInv, Releases, Up, ReleaseSemaphore, Locked
<1>p. i # m /\ present[i] => In(i, ApLabels)
  BY OthersAreNoBsp DEF PresentInv, In, PresentLabels
<1>w. \A c \in Cpu \ {m} : In(c, ApLabels) => ~busy[c] /\ (Waits(m, c) \/ Past(m, c))
      /\ (Waits(m, c) => present[c])
  BY <1>m, WaitsOrPast DEF In
<1>v. \A c \in Cpu \ {m} : /\ c # i => (Woken(m, c)' <=> Woken(m, c))
                           /\ c = i => Woken(m, c)' /\ ~Woken(m, c)
  <2>1. i \in Int /\ \A c \in Cpu : c \in Int /\ c >= 0
    BY DEF Cpu
  <2>2. \A c \in Cpu : Woken(m, c) <=> c >= i + 1
    BY <1>m DEF Woken, In
  <2>3. index'[m] = i
    BY DEF TypeOK, StackType
  <2>4. \A c \in Cpu : Woken(m, c)' <=> c >= i
    BY <1>m, <2>1, <2>3 DEF Woken, In
  <2> QED
    BY <2>1, <2>2, <2>4
<1>u. \A c \in Cpu \ {m} : In(c, ApLabels) =>
        /\ Waits(m, c)' <=> Waits(m, c)
        /\ Past(m, c)' <=> Past(m, c)
        /\ Signalled(m, c) <=> Woken(m, c) /\ Waits(m, c)
        /\ Signalled(m, c)' <=> Woken(m, c)' /\ Waits(m, c)'
  BY <1>t, <1>w DEF Waits, Past, Signalled, In, Leads, OnlyMoves
<1>1. StageInv'
  BY <1>m DEF StageInv, In, Gathers, Leads, SameStack
<1>2. ArriveInv' /\ BackupInv' /\ ProgramInv' /\ ServeInv' /\ ExitInv' /\ RestoreInv'
      /\ ResetInv'
  BY <1>m, OthersAreNoBsp, <1>t, <1>e, AccountKept, <1>r
     DEF ArriveInv, BackupInv, ProgramInv, ServeInv, ExitInv, RestoreInv, ResetInv
<1>3. LeaveInv' /\ NoJoiners' /\ LockInv' /\ CountInv' /\ CounterInv'
  BY <1>m, OthersAreNoBsp, <1>t, NumberStays
     DEF LeaveInv, In, Leads, NoJoiners, SameStack, LockInv, CountInv, CounterInv
<1>4. InsideInv' /\ PointerInv' /\ ModeInv' /\ ModesAgree' /\ PresentInv' /\ IdleInv'
      /\ BusyInv'
  BY <1>m, <1>r, <1>p
     DEF InsideInv, In, Leads, SameStack, PointerInv, ModeInv, ModesAgree, PresentInv, IdleInv,
         BusyInv
<1>5. TokenInv'
  BY <1>m, <1>r, <1>w, <1>v, <1>u, OthersAreNoBsp DEF TokenInv, In, Leads, OnlyMoves
<1>6. TaskInv'
  BY <1>m, OthersAreNoBsp, <1>t DEF TaskInv, In, Starting, Leads, OnlyMoves, RelLabels
<1> QED
  BY <1>1, <1>2, <1>3, <1>4, <1>5, <1>6

\* SmmStartupThisAp takes the Busy lock of a present AP.
LEMMA StartCall ==
  ASSUME ~GiveUpRace, TypeOK, OneBsp, RunInv,
         NEW m \in Cpu,
         Leads(m),
         pc[m] = "b_core",
         pc'[m] \in {"b_start", "b_start_block"},
         NEW i \in Cpu \ {m},
         present[i],
         ~busy[i],
         busy' = [busy EXCEPT ![i] = TRUE],
         index' = [index EXCEPT ![m] = i],
         UNCHANGED <<counter, insideSmm, bspIndex, run, present, syncMode, effectiveSyncMode,
                     bsp, apCount, left, inWorker>>
  PROVE  RunInv'
<1> USE DEF RunInv, Stays, Avoids
<1>m. /\ Stays(m, CountedLabels) /\ Stays(m, BspLabels)
      /\ Stays(m, InsideLabels) /\ Stays(m, ModeKnownLabels)
      /\ Stays(m, PresentLabels) /\ Stays(m, BspCoreLabels)
      /\ Avoids(m, ApLabels) /\ Avoids(m, JoiningLabels)
      /\ Avoids(m, ArrivalLabels) /\ Avoids(m, MtrrLabels)
      /\ Avoids(m, DueArrive) /\ Avoids(m, DueServe) /\ Avoids(m, DueExit)
      /\ Avoids(m, DueBackup) /\ Avoids(m, DueProgram)
      /\ Avoids(m, DueRestore) /\ Avoids(m, DueReset) /\ Avoids(m, PastMode)
      /\ Avoids(m, RelLabels) /\ Avoids(m, ReleasedLabels)
      /\ Avoids(m, BspResetLabels) /\ Avoids(m, WaitLabels)
  BY DEF CountedLabels, ArrivalLabels, InsideLabels, MtrrLabels, DueArrive, DueServe, DueExit,
         DueBackup, DueProgram, DueRestore, DueReset, PaidArrive, PaidBackup, PaidProgram,
         PaidRestore, PaidExit, ModeKnownLabels, PastMode, PresentLabels, RelLabels,
         ReleasedLabels, JoiningLabels, ApLabels, BspLabels, BspGatherLabels, BspCoreLabels,
         BspExitLabels, BspResetLabels, WaitLabels
<1>t. /\ ~Arriving(m) /\ ~BackingUp(m) /\ ~Programming(m) /\ Serving(m) /\ ~Exiting(m)
         /\ ~Restoring(m) /\ ~Resetting(m) /\ ~Leaving(m)
      /\ ~Arriving(m)' /\ ~BackingUp(m)' /\ ~Programming(m)' /\ Serving(m)' /\ ~Exiting(m)'
         /\ ~Restoring(m)' /\ ~Resetting(m)' /\ ~Leaving(m)'
      /\ (LockedBsp(m)' <=> LockedBsp(m)) /\ (Closed(m)' <=> Closed(m))
  BY <1>m
     DEF StageInv, Arriving, BackingUp, Programming, Serving, Exiting, Restoring, Resetting,
         Leaving, LockedBsp, Closed, Gathers, In, BspExitLabels
<1>e. Expected(m)' = Expected(m)
  BY <1>m, <1>t DEF Expected, In
<1>i. pc[i] = "ap_work"
  <2>1. In(i, ApLabels) /\ pc[i] # "ap_present" /\ pc[i] \in CountedLabels
    BY OthersAreNoBsp DEF PresentInv, PresentLabels, CountedLabels, In
  <2>2. pc[i] \in DueServe
    BY <1>t, <2>1, AccountMember DEF ServeInv
  <2>3. ~Gathers(m) \/ pc[i] \notin DueArrive
    BY <1>t, ServingClosed DEF NoJoiners, In
  <2>4. pc[i] # "ap_arrive"
    BY <1>m, <2>1, <2>3 DEF StageInv, ModesAgree, Gathers, In, DueArrive
  <2>5. pc[i] \notin {"ap_check", "ap_procedure", "ap_release"}
    BY <1>m, <1>t, <2>1 DEF TaskInv, BusyInv, In
  <2> QED
    BY <2>1, <2>2, <2>4, <2>5 DEF In, DueServe, DueArrive, ApLabels, JoiningLabels
<1>j. ~Starting(m, i) /\ Starting(m, i)' /\ \A c \in Cpu \ {i} : ~Starting(m, c)'
  BY DEF Starting, In, TypeOK, StackType
<1>1. StageInv'
  BY <1>m DEF StageInv, In, Gathers, Leads, SameStack
<1>2. ArriveInv' /\ BackupInv' /\ ProgramInv' /\ ServeInv' /\ ExitInv' /\ RestoreInv'
      /\ ResetInv'
  BY <1>m, OthersAreNoBsp, <1>t, <1>e, AccountKept
     DEF ArriveInv, BackupInv, ProgramInv, ServeInv, ExitInv, RestoreInv, ResetInv
<1>3. LeaveInv' /\ NoJoiners' /\ LockInv' /\ CountInv' /\ CounterInv'
  BY <1>m, OthersAreNoBsp, <1>t, NumberStays
     DEF LeaveInv, In, Leads, NoJoiners, SameStack, LockInv, CountInv, CounterInv
<1>4. InsideInv' /\ PointerInv' /\ ModeInv' /\ ModesAgree' /\ PresentInv' /\ IdleInv'
      /\ BusyInv'
  BY <1>m, <1>i
     DEF InsideInv, In, Leads, SameStack, PointerInv, ModeInv, ModesAgree, PresentInv, IdleInv,
         BusyInv, JoiningLabels
<1>5. TokenInv'
  BY <1>m, OthersAreNoBsp, <1>t, <1>j
     DEF TokenInv, In, Waits, Past, Starting, Signalled, Leads, OnlyMoves
<1>6. TaskInv'
  BY <1>m, OthersAreNoBsp, <1>t, <1>i, <1>j
     DEF TaskInv, In, Starting, Leads, OnlyMoves, TypeOK, CpuDataType
<1> QED
  BY <1>1, <1>2, <1>3, <1>4, <1>5, <1>6

\* The BSP signals the AP of a blocking call.
LEMMA ScheduleBlocking ==
  ASSUME ~GiveUpRace, TypeOK, OneBsp, RunInv,
         NEW m \in Cpu,
         Leads(m),
         pc[m] = "b_start_block",
         pc'[m] = "b_block",
         Up(index[m]),
         UNCHANGED <<counter, insideSmm, bspIndex, present, busy, syncMode, effectiveSyncMode,
                     bsp, index, apCount, left, inWorker>>
  PROVE  RunInv'
<1> USE DEF RunInv, Stays, Avoids
<1>m. /\ Stays(m, CountedLabels) /\ Stays(m, BspLabels)
      /\ Stays(m, InsideLabels) /\ Stays(m, ModeKnownLabels)
      /\ Stays(m, PresentLabels) /\ Stays(m, BspCoreLabels)
      /\ Avoids(m, ApLabels) /\ Avoids(m, JoiningLabels)
      /\ Avoids(m, ArrivalLabels) /\ Avoids(m, MtrrLabels)
      /\ Avoids(m, DueArrive) /\ Avoids(m, DueServe) /\ Avoids(m, DueExit)
      /\ Avoids(m, DueBackup) /\ Avoids(m, DueProgram)
      /\ Avoids(m, DueRestore) /\ Avoids(m, DueReset) /\ Avoids(m, PastMode)
      /\ Avoids(m, RelLabels) /\ Avoids(m, ReleasedLabels)
      /\ Avoids(m, BspResetLabels) /\ Avoids(m, WaitLabels)
  BY DEF CountedLabels, ArrivalLabels, InsideLabels, MtrrLabels, DueArrive, DueServe, DueExit,
         DueBackup, DueProgram, DueRestore, DueReset, PaidArrive, PaidBackup, PaidProgram,
         PaidRestore, PaidExit, ModeKnownLabels, PastMode, PresentLabels, RelLabels,
         ReleasedLabels, JoiningLabels, ApLabels, BspLabels, BspGatherLabels, BspCoreLabels,
         BspExitLabels, BspResetLabels, WaitLabels
<1>t. /\ ~Arriving(m) /\ ~BackingUp(m) /\ ~Programming(m) /\ Serving(m) /\ ~Exiting(m)
         /\ ~Restoring(m) /\ ~Resetting(m) /\ ~Leaving(m)
      /\ ~Arriving(m)' /\ ~BackingUp(m)' /\ ~Programming(m)' /\ Serving(m)' /\ ~Exiting(m)'
         /\ ~Restoring(m)' /\ ~Resetting(m)' /\ ~Leaving(m)'
      /\ (LockedBsp(m)' <=> LockedBsp(m)) /\ (Closed(m)' <=> Closed(m))
  BY <1>m
     DEF StageInv, Arriving, BackingUp, Programming, Serving, Exiting, Restoring, Resetting,
         Leaving, LockedBsp, Closed, Gathers, In, BspExitLabels
<1>e. Expected(m)' = Expected(m)
  BY <1>m, <1>t DEF Expected, In
<1>i. /\ index[m] \in Cpu \ {m} /\ pc[index[m]] = "ap_work" /\ busy[index[m]]
      /\ run'[index[m]] = 1 /\ run' \in [Cpu -> Nat]
         /\ \A c \in Cpu \ {index[m]} : run'[c] = run[c]
  <2>1. Starting(m, index[m])
    BY DEF Starting, In
  <2>2. index[m] \in Cpu
    BY <1>m DEF TaskInv, In
  <2>3. pc[index[m]] = "ap_work" /\ busy[index[m]]
    BY <2>1 DEF TaskInv, In
  <2>4. run[index[m]] = 0
    BY <1>m, <1>t, <2>1, <2>2, <2>3 DEF TokenInv, Signalled, Waits, In, ApLabels
  <2> QED
    BY <2>2, <2>3, <2>4 DEF Up, IdleInv, ReleaseSemaphore, Locked
<1>1. StageInv'
  BY <1>m DEF StageInv, In, Gathers, Leads, SameStack
<1>2. ArriveInv' /\ BackupInv' /\ ProgramInv' /\ ServeInv' /\ ExitInv' /\ RestoreInv'
      /\ ResetInv'
  BY <1>m, OthersAreNoBsp, <1>t, <1>e, AccountKept, <1>i
     DEF ArriveInv, BackupInv, ProgramInv, ServeInv, ExitInv, RestoreInv, ResetInv
<1>3. LeaveInv' /\ NoJoiners' /\ LockInv' /\ CountInv' /\ CounterInv'
  BY <1>m, OthersAreNoBsp, <1>t, NumberStays
     DEF LeaveInv, In, Leads, NoJoiners, SameStack, LockInv, CountInv, CounterInv
<1>4. InsideInv' /\ PointerInv' /\ ModeInv' /\ ModesAgree' /\ PresentInv' /\ IdleInv'
      /\ BusyInv'
  BY <1>m, <1>i
     DEF InsideInv, In, Leads, SameStack, PointerInv, ModeInv, ModesAgree, PresentInv, IdleInv,
         ApLabels, BusyInv
<1>5. TokenInv' /\ TaskInv'
  <2>1. TokenInv'
    BY <1>m, OthersAreNoBsp, <1>t, <1>i
       DEF TokenInv, In, Waits, Past, Starting, Signalled, Leads, OnlyMoves
  <2>2. TaskInv'
    BY <1>m, <1>t
       DEF In, Starting, Leads, OnlyMoves, TaskInv
  <2> QED
    BY <2>1, <2>2
<1> QED
  BY <1>1, <1>2, <1>3, <1>4, <1>5

\* The BSP signals the AP of a call that does not block.
LEMMA ScheduleCall ==
  ASSUME ~GiveUpRace, TypeOK, OneBsp, RunInv,
         NEW m \in Cpu,
         Leads(m),
         pc[m] = "b_start",
         pc'[m] = "b_core",
         Up(index[m]),
         index' = [index EXCEPT ![m] = 0],
         UNCHANGED <<counter, insideSmm, bspIndex, present, busy, syncMode, effectiveSyncMode,
                     bsp, apCount, left, inWorker>>
  PROVE  RunInv'
<1> USE DEF RunInv, Stays, Avoids
<1>m. /\ Stays(m, CountedLabels) /\ Stays(m, BspLabels)
      /\ Stays(m, InsideLabels) /\ Stays(m, ModeKnownLabels)
      /\ Stays(m, PresentLabels) /\ Stays(m, BspCoreLabels)
      /\ Avoids(m, ApLabels) /\ Avoids(m, JoiningLabels)
      /\ Avoids(m, ArrivalLabels) /\ Avoids(m, MtrrLabels)
      /\ Avoids(m, DueArrive) /\ Avoids(m, DueServe) /\ Avoids(m, DueExit)
      /\ Avoids(m, DueBackup) /\ Avoids(m, DueProgram)
      /\ Avoids(m, DueRestore) /\ Avoids(m, DueReset) /\ Avoids(m, PastMode)
      /\ Avoids(m, RelLabels) /\ Avoids(m, ReleasedLabels)
      /\ Avoids(m, BspResetLabels) /\ Avoids(m, WaitLabels)
  BY DEF CountedLabels, ArrivalLabels, InsideLabels, MtrrLabels, DueArrive, DueServe, DueExit,
         DueBackup, DueProgram, DueRestore, DueReset, PaidArrive, PaidBackup, PaidProgram,
         PaidRestore, PaidExit, ModeKnownLabels, PastMode, PresentLabels, RelLabels,
         ReleasedLabels, JoiningLabels, ApLabels, BspLabels, BspGatherLabels, BspCoreLabels,
         BspExitLabels, BspResetLabels, WaitLabels
<1>t. /\ ~Arriving(m) /\ ~BackingUp(m) /\ ~Programming(m) /\ Serving(m) /\ ~Exiting(m)
         /\ ~Restoring(m) /\ ~Resetting(m) /\ ~Leaving(m)
      /\ ~Arriving(m)' /\ ~BackingUp(m)' /\ ~Programming(m)' /\ Serving(m)' /\ ~Exiting(m)'
         /\ ~Restoring(m)' /\ ~Resetting(m)' /\ ~Leaving(m)'
      /\ (LockedBsp(m)' <=> LockedBsp(m)) /\ (Closed(m)' <=> Closed(m))
  BY <1>m
     DEF StageInv, Arriving, BackingUp, Programming, Serving, Exiting, Restoring, Resetting,
         Leaving, LockedBsp, Closed, Gathers, In, BspExitLabels
<1>e. Expected(m)' = Expected(m)
  BY <1>m, <1>t DEF Expected, In
<1>i. /\ index[m] \in Cpu \ {m} /\ pc[index[m]] = "ap_work" /\ busy[index[m]]
      /\ run'[index[m]] = 1 /\ run' \in [Cpu -> Nat]
         /\ \A c \in Cpu \ {index[m]} : run'[c] = run[c]
  <2>1. Starting(m, index[m])
    BY DEF Starting, In
  <2>2. index[m] \in Cpu
    BY <1>m DEF TaskInv, In
  <2>3. pc[index[m]] = "ap_work" /\ busy[index[m]]
    BY <2>1 DEF TaskInv, In
  <2>4. run[index[m]] = 0
    BY <1>m, <1>t, <2>1, <2>2, <2>3 DEF TokenInv, Signalled, Waits, In, ApLabels
  <2> QED
    BY <2>2, <2>3, <2>4 DEF Up, IdleInv, ReleaseSemaphore, Locked
<1>1. StageInv'
  BY <1>m DEF StageInv, In, Gathers, Leads, SameStack
<1>2. ArriveInv' /\ BackupInv' /\ ProgramInv' /\ ServeInv' /\ ExitInv' /\ RestoreInv'
      /\ ResetInv'
  BY <1>m, OthersAreNoBsp, <1>t, <1>e, AccountKept, <1>i
     DEF ArriveInv, BackupInv, ProgramInv, ServeInv, ExitInv, RestoreInv, ResetInv
<1>3. LeaveInv' /\ NoJoiners' /\ LockInv' /\ CountInv' /\ CounterInv'
  BY <1>m, OthersAreNoBsp, <1>t, NumberStays
     DEF LeaveInv, In, Leads, NoJoiners, SameStack, LockInv, CountInv, CounterInv
<1>4. InsideInv' /\ PointerInv' /\ ModeInv' /\ ModesAgree' /\ PresentInv' /\ IdleInv'
      /\ BusyInv'
  BY <1>m, <1>i
     DEF InsideInv, In, Leads, SameStack, PointerInv, ModeInv, ModesAgree, PresentInv, IdleInv,
         ApLabels, BusyInv
<1>5. TokenInv'
  BY <1>m, OthersAreNoBsp, <1>t, <1>i
     DEF TokenInv, In, Waits, Past, Starting, Signalled, Leads, OnlyMoves
<1>6. TaskInv'
  BY <1>m, <1>t DEF TaskInv, In, Starting, Leads, OnlyMoves
<1> QED
  BY <1>1, <1>2, <1>3, <1>4, <1>5, <1>6

\* The BSP has seen one AP's Busy free.
LEMMA DrainStep ==
  ASSUME ~GiveUpRace, TypeOK, OneBsp, RunInv,
         NEW m \in Cpu,
         Leads(m),
         pc[m] = "b_drain",
         pc'[m] = "b_drain",
         NEW i \in Cpu,
         index[m] = i + 1,
         index' = [index EXCEPT ![m] = i],
         i # m /\ present[i] => ~busy[i],
         i # 0,
         UNCHANGED <<counter, insideSmm, bspIndex, run, present, busy, syncMode,
                     effectiveSyncMode, bsp, apCount, left, inWorker>>
  PROVE  RunInv'
<1> USE DEF RunInv, Stays, Avoids
<1>m. /\ Stays(m, CountedLabels) /\ Stays(m, BspLabels)
      /\ Stays(m, InsideLabels) /\ Stays(m, ModeKnownLabels)
      /\ Stays(m, PresentLabels)
      /\ Avoids(m, ApLabels) /\ Avoids(m, JoiningLabels)
      /\ Avoids(m, ArrivalLabels) /\ Avoids(m, MtrrLabels)
      /\ Avoids(m, DueArrive) /\ Avoids(m, DueServe) /\ Avoids(m, DueExit)
      /\ Avoids(m, DueBackup) /\ Avoids(m, DueProgram)
      /\ Avoids(m, DueRestore) /\ Avoids(m, DueReset) /\ Avoids(m, PastMode)
      /\ Avoids(m, RelLabels) /\ Avoids(m, ReleasedLabels)
      /\ Avoids(m, BspCoreLabels) /\ Avoids(m, BspResetLabels)
      /\ Avoids(m, WaitLabels)
  BY DEF CountedLabels, ArrivalLabels, InsideLabels, MtrrLabels, DueArrive, DueServe, DueExit,
         DueBackup, DueProgram, DueRestore, DueReset, PaidArrive, PaidBackup, PaidProgram,
         PaidRestore, PaidExit, ModeKnownLabels, PastMode, PresentLabels, RelLabels,
         ReleasedLabels, JoiningLabels, ApLabels, BspLabels, BspGatherLabels, BspCoreLabels,
         BspExitLabels, BspResetLabels, WaitLabels
<1>t. /\ ~Arriving(m) /\ ~BackingUp(m) /\ ~Programming(m) /\ Serving(m) /\ ~Exiting(m)
         /\ ~Restoring(m) /\ ~Resetting(m) /\ ~Leaving(m)
      /\ ~Arriving(m)' /\ ~BackingUp(m)' /\ ~Programming(m)' /\ Serving(m)' /\ ~Exiting(m)'
         /\ ~Restoring(m)' /\ ~Resetting(m)' /\ ~Leaving(m)'
      /\ (LockedBsp(m)' <=> LockedBsp(m)) /\ (Closed(m)' <=> Closed(m))
  BY <1>m
     DEF StageInv, Arriving, BackingUp, Programming, Serving, Exiting, Restoring, Resetting,
         Leaving, LockedBsp, Closed, Gathers, In
<1>e. Expected(m)' = Expected(m)
  BY <1>m, <1>t DEF Expected, In
<1>d. \A c \in Cpu \ {m} : In(c, ApLabels) /\ busy[c] => c < i
  <2>1. \A c \in Cpu \ {m} : In(c, ApLabels) /\ busy[c] => c < i + 1 /\ present[c]
    <3>1. \A c \in Cpu \ {m} : In(c, ApLabels) /\ busy[c] => c < i + 1
      BY <1>m DEF TaskInv, StageInv, In
    <3>2. \A c \in Cpu \ {m} : In(c, ApLabels) /\ busy[c] => present[c]
      BY DEF BusyInv, PresentInv, PresentLabels, In
    <3> QED
      BY <3>1, <3>2
  <2> QED
    BY <2>1 DEF Cpu
<1>1. StageInv'
  BY <1>m DEF StageInv, In, Gathers, Leads, SameStack
<1>2. ArriveInv' /\ BackupInv' /\ ProgramInv' /\ ServeInv' /\ ExitInv' /\ RestoreInv'
      /\ ResetInv'
  BY <1>m, OthersAreNoBsp, <1>t, <1>e, AccountKept
     DEF ArriveInv, BackupInv, ProgramInv, ServeInv, ExitInv, RestoreInv, ResetInv
<1>3. LeaveInv' /\ NoJoiners' /\ LockInv' /\ CountInv' /\ CounterInv'
  BY <1>m, OthersAreNoBsp, <1>t, NumberStays
     DEF LeaveInv, In, Leads, NoJoiners, SameStack, LockInv, CountInv, CounterInv
<1>4. InsideInv' /\ PointerInv' /\ ModeInv' /\ ModesAgree' /\ PresentInv' /\ IdleInv'
      /\ BusyInv'
  BY <1>m
     DEF InsideInv, In, Leads, SameStack, PointerInv, ModeInv, ModesAgree, PresentInv, IdleInv,
         BusyInv
<1>5. TokenInv' /\ TaskInv'
  <2>1. TokenInv'
    BY OthersAreNoBsp, <1>t
       DEF TokenInv, In, Waits, Past, Starting, Signalled, Leads, SameStack
  <2>2. TaskInv'
    BY <1>m, <1>t, <1>d
       DEF In, Starting, Leads, SameStack, TaskInv
  <2> QED
    BY <2>1, <2>2
<1> QED
  BY <1>1, <1>2, <1>3, <1>4, <1>5

\* It was the last one, and Counter is locked.
LEMMA DrainedGathered ==
  ASSUME ~GiveUpRace, TypeOK, OneBsp, RunInv,
         NEW m \in Cpu,
         Leads(m),
         pc[m] = "b_drain",
         pc'[m] = "b_outside",
         NEW i \in Cpu,
         index[m] = i + 1,
         index' = [index EXCEPT ![m] = i],
         i # m /\ present[i] => ~busy[i],
         i = 0,
         Gathers(m),
         UNCHANGED <<counter, insideSmm, bspIndex, run, present, busy, syncMode,
                     effectiveSyncMode, bsp, apCount, left, inWorker>>
  PROVE  RunInv'
<1> USE DEF RunInv, Stays, Avoids
<1>m. /\ Stays(m, CountedLabels) /\ Stays(m, BspLabels)
      /\ Stays(m, InsideLabels) /\ Stays(m, ModeKnownLabels)
      /\ Stays(m, PresentLabels)
      /\ Avoids(m, ApLabels) /\ Avoids(m, JoiningLabels)
      /\ Avoids(m, ArrivalLabels) /\ Avoids(m, MtrrLabels)
      /\ Avoids(m, DueArrive) /\ Avoids(m, DueServe) /\ Avoids(m, DueExit)
      /\ Avoids(m, DueBackup) /\ Avoids(m, DueProgram)
      /\ Avoids(m, DueRestore) /\ Avoids(m, DueReset) /\ Avoids(m, PastMode)
      /\ Avoids(m, RelLabels) /\ Avoids(m, ReleasedLabels)
      /\ Avoids(m, BspCoreLabels) /\ Avoids(m, BspResetLabels)
      /\ Avoids(m, WaitLabels)
  BY DEF CountedLabels, ArrivalLabels, InsideLabels, MtrrLabels, DueArrive, DueServe, DueExit,
         DueBackup, DueProgram, DueRestore, DueReset, PaidArrive, PaidBackup, PaidProgram,
         PaidRestore, PaidExit, ModeKnownLabels, PastMode, PresentLabels, RelLabels,
         ReleasedLabels, JoiningLabels, ApLabels, BspLabels, BspGatherLabels, BspCoreLabels,
         BspExitLabels, BspResetLabels, WaitLabels
<1>t. /\ ~Arriving(m) /\ ~BackingUp(m) /\ ~Programming(m) /\ Serving(m) /\ ~Exiting(m)
         /\ ~Restoring(m) /\ ~Resetting(m) /\ ~Leaving(m)
      /\ ~Arriving(m)' /\ ~BackingUp(m)' /\ ~Programming(m)' /\ Serving(m)' /\ ~Exiting(m)'
         /\ ~Restoring(m)' /\ ~Resetting(m)' /\ ~Leaving(m)'
      /\ (LockedBsp(m)' <=> LockedBsp(m)) /\ (Closed(m)' <=> Closed(m))
  BY <1>m
     DEF StageInv, Arriving, BackingUp, Programming, Serving, Exiting, Restoring, Resetting,
         Leaving, LockedBsp, Closed, In
<1>e. Expected(m)' = Expected(m)
  BY <1>m, <1>t DEF Expected, In
<1>d. \A c \in Cpu \ {m} : In(c, ApLabels) /\ busy[c] => c < i
  <2>1. \A c \in Cpu \ {m} : In(c, ApLabels) /\ busy[c] => c < i + 1 /\ present[c]
    <3>1. \A c \in Cpu \ {m} : In(c, ApLabels) /\ busy[c] => c < i + 1
      BY <1>m DEF TaskInv, StageInv, In
    <3>2. \A c \in Cpu \ {m} : In(c, ApLabels) /\ busy[c] => present[c]
      BY DEF BusyInv, PresentInv, PresentLabels, In
    <3> QED
      BY <3>1, <3>2
  <2> QED
    BY <2>1
<1>1. StageInv'
  BY <1>m DEF StageInv, In, Gathers, Leads, SameStack
<1>2. ArriveInv' /\ BackupInv' /\ ProgramInv' /\ ServeInv' /\ ExitInv' /\ RestoreInv'
      /\ ResetInv'
  BY <1>m, OthersAreNoBsp, <1>t, <1>e, AccountKept
     DEF ArriveInv, BackupInv, ProgramInv, ServeInv, ExitInv, RestoreInv, ResetInv
<1>3. LeaveInv' /\ NoJoiners' /\ LockInv' /\ CountInv' /\ CounterInv'
  <2>1. LeaveInv'
    BY OthersAreNoBsp, <1>t
       DEF LeaveInv
  <2>2. NoJoiners'
    BY <1>m, OthersAreNoBsp, <1>t
       DEF In, Leads, NoJoiners, SameStack
  <2>3. LockInv'
    BY OthersAreNoBsp, <1>t
       DEF LockInv
  <2>4. CountInv'
    <3>1. Number(pc', CountedLabels) = Number(pc, CountedLabels)
      BY <1>m, NumberStays DEF Leads
    <3> QED
      BY <1>m, <1>t, <3>1, OthersAreNoBsp DEF CountInv, In
  <2>5. CounterInv'
    BY <1>m, NumberStays
       DEF Leads, CounterInv
  <2> QED
    BY <2>1, <2>2, <2>3, <2>4, <2>5
<1>4. InsideInv'
  BY <1>m, OthersAreNoBsp DEF InsideInv, In, Leads, OnlyMoves, SameStack
<1>5. PointerInv'
  BY <1>m, OthersAreNoBsp DEF PointerInv, In, Leads, OnlyMoves, SameStack
<1>6. ModeInv'
  BY <1>m DEF ModeInv, In, Leads, SameStack
<1>7. ModesAgree' /\ PresentInv' /\ IdleInv' /\ BusyInv'
  BY <1>m DEF ModesAgree, In, Leads, SameStack, PresentInv, IdleInv, BusyInv
<1>8. TokenInv' /\ TaskInv'
  BY <1>m, OthersAreNoBsp, <1>t, <1>d, CpuBound
     DEF TokenInv, In, Waits, Past, Starting, Signalled, Leads, SameStack, TaskInv
<1> QED
  BY <1>1, <1>2, <1>3, <1>4, <1>5, <1>6, <1>7, <1>8

\* It was the last one, and Counter is still to be locked.
LEMMA DrainedRelaxed ==
  ASSUME ~GiveUpRace, TypeOK, OneBsp, RunInv,
         NEW m \in Cpu,
         Leads(m),
         pc[m] = "b_drain",
         pc'[m] = "b_sync",
         NEW i \in Cpu,
         index[m] = i + 1,
         index' = [index EXCEPT ![m] = i],
         i # m /\ present[i] => ~busy[i],
         i = 0,
         ~Gathers(m),
         UNCHANGED <<counter, insideSmm, bspIndex, run, present, busy, syncMode,
                     effectiveSyncMode, bsp, apCount, left, inWorker>>
  PROVE  RunInv'
<1> USE DEF RunInv, Stays, Avoids
<1>m. /\ Stays(m, CountedLabels) /\ Stays(m, BspLabels)
      /\ Stays(m, InsideLabels) /\ Stays(m, ModeKnownLabels)
      /\ Stays(m, PresentLabels)
      /\ Avoids(m, ApLabels) /\ Avoids(m, JoiningLabels)
      /\ Avoids(m, ArrivalLabels) /\ Avoids(m, MtrrLabels)
      /\ Avoids(m, DueArrive) /\ Avoids(m, DueServe) /\ Avoids(m, DueExit)
      /\ Avoids(m, DueBackup) /\ Avoids(m, DueProgram)
      /\ Avoids(m, DueRestore) /\ Avoids(m, DueReset) /\ Avoids(m, PastMode)
      /\ Avoids(m, RelLabels) /\ Avoids(m, ReleasedLabels)
      /\ Avoids(m, BspCoreLabels) /\ Avoids(m, BspResetLabels)
      /\ Avoids(m, WaitLabels)
  BY DEF CountedLabels, ArrivalLabels, InsideLabels, MtrrLabels, DueArrive, DueServe, DueExit,
         DueBackup, DueProgram, DueRestore, DueReset, PaidArrive, PaidBackup, PaidProgram,
         PaidRestore, PaidExit, ModeKnownLabels, PastMode, PresentLabels, RelLabels,
         ReleasedLabels, JoiningLabels, ApLabels, BspLabels, BspGatherLabels, BspCoreLabels,
         BspExitLabels, BspResetLabels, WaitLabels
<1>t. /\ ~Arriving(m) /\ ~BackingUp(m) /\ ~Programming(m) /\ Serving(m) /\ ~Exiting(m)
         /\ ~Restoring(m) /\ ~Resetting(m) /\ ~Leaving(m)
      /\ ~Arriving(m)' /\ ~BackingUp(m)' /\ ~Programming(m)' /\ Serving(m)' /\ ~Exiting(m)'
         /\ ~Restoring(m)' /\ ~Resetting(m)' /\ ~Leaving(m)'
      /\ (LockedBsp(m)' <=> LockedBsp(m)) /\ (Closed(m)' <=> Closed(m))
  BY <1>m
     DEF StageInv, Arriving, BackingUp, Programming, Serving, Exiting, Restoring, Resetting,
         Leaving, LockedBsp, Closed, Gathers, In, BspExitLabels
<1>e. Expected(m)' = Expected(m)
  BY <1>m, <1>t DEF Expected, In
<1>d. \A c \in Cpu \ {m} : In(c, ApLabels) /\ busy[c] => c < i
  <2>1. \A c \in Cpu \ {m} : In(c, ApLabels) /\ busy[c] => c < i + 1 /\ present[c]
    <3>1. \A c \in Cpu \ {m} : In(c, ApLabels) /\ busy[c] => c < i + 1
      BY <1>m DEF TaskInv, StageInv, In
    <3>2. \A c \in Cpu \ {m} : In(c, ApLabels) /\ busy[c] => present[c]
      BY DEF BusyInv, PresentInv, PresentLabels, In
    <3> QED
      BY <3>1, <3>2
  <2> QED
    BY <2>1
<1>1. StageInv'
  BY <1>m DEF StageInv, In, Gathers, Leads, SameStack
<1>2. ArriveInv' /\ BackupInv' /\ ProgramInv' /\ ServeInv' /\ ExitInv' /\ RestoreInv'
      /\ ResetInv'
  BY <1>m, OthersAreNoBsp, <1>t, <1>e, AccountKept
     DEF ArriveInv, BackupInv, ProgramInv, ServeInv, ExitInv, RestoreInv, ResetInv
<1>3. LeaveInv' /\ NoJoiners' /\ LockInv' /\ CountInv' /\ CounterInv'
  <2>1. LeaveInv'
    BY OthersAreNoBsp, <1>t
       DEF LeaveInv
  <2>2. NoJoiners'
    BY <1>m, OthersAreNoBsp, <1>t
       DEF In, Leads, NoJoiners, SameStack
  <2>3. LockInv'
    BY OthersAreNoBsp, <1>t
       DEF LockInv
  <2>4. CountInv'
    <3>1. Number(pc', CountedLabels) = Number(pc, CountedLabels)
      BY <1>m, NumberStays DEF Leads
    <3> QED
      BY <1>m, <1>t, <3>1, OthersAreNoBsp DEF CountInv, In
  <2>5. CounterInv'
    BY <1>m, NumberStays
       DEF Leads, CounterInv
  <2> QED
    BY <2>1, <2>2, <2>3, <2>4, <2>5
<1>4. InsideInv'
  BY <1>m, OthersAreNoBsp DEF InsideInv, In, Leads, OnlyMoves, SameStack
<1>5. PointerInv'
  BY <1>m, OthersAreNoBsp DEF PointerInv, In, Leads, OnlyMoves, SameStack
<1>6. ModeInv'
  BY <1>m DEF ModeInv, In, Leads, SameStack
<1>7. ModesAgree' /\ PresentInv' /\ IdleInv' /\ BusyInv'
  BY <1>m DEF ModesAgree, In, Leads, SameStack, PresentInv, IdleInv, BusyInv
<1>8. TokenInv' /\ TaskInv'
  BY <1>m, OthersAreNoBsp, <1>t, <1>d, CpuBound
     DEF TokenInv, In, Waits, Past, Starting, Signalled, Leads, SameStack, TaskInv
<1> QED
  BY <1>1, <1>2, <1>3, <1>4, <1>5, <1>6, <1>7, <1>8

\* The BSP sets the mode of the next run and goes to release the APs to
\* restore.
LEMMA SetModeMtrrs ==
  ASSUME ~GiveUpRace, TypeOK, OneBsp, RunInv,
         NEW m \in Cpu,
         Leads(m),
         pc[m] = "b_mode",
         pc'[m] = "b_rel_restore",
         NeedConfigureMtrrs,
         index' = [index EXCEPT ![m] = NumberOfCpus],
         UNCHANGED <<counter, insideSmm, bspIndex, run, present, busy, syncMode, bsp, apCount,
                     left, inWorker>>
  PROVE  RunInv'
<1> USE DEF RunInv, Stays, Avoids, Enters
<1>m. /\ Stays(m, CountedLabels) /\ Stays(m, BspLabels)
      /\ Stays(m, ModeKnownLabels) /\ Stays(m, PresentLabels)
      /\ Avoids(m, ApLabels) /\ Avoids(m, JoiningLabels)
      /\ Avoids(m, ArrivalLabels) /\ Avoids(m, InsideLabels)
      /\ Avoids(m, DueArrive) /\ Avoids(m, DueServe) /\ Avoids(m, DueExit)
      /\ Avoids(m, DueBackup) /\ Avoids(m, DueProgram)
      /\ Avoids(m, DueRestore) /\ Avoids(m, DueReset)
      /\ Avoids(m, ReleasedLabels) /\ Avoids(m, BspCoreLabels)
      /\ Avoids(m, BspResetLabels) /\ Avoids(m, WaitLabels)
      /\ Enters(m, MtrrLabels) /\ Enters(m, PastMode) /\ Enters(m, RelLabels)
  BY DEF CountedLabels, ArrivalLabels, InsideLabels, MtrrLabels, DueArrive, DueServe, DueExit,
         DueBackup, DueProgram, DueRestore, DueReset, PaidArrive, PaidBackup, PaidProgram,
         PaidRestore, PaidExit, ModeKnownLabels, PastMode, PresentLabels, RelLabels,
         ReleasedLabels, JoiningLabels, ApLabels, BspLabels, BspGatherLabels, BspCoreLabels,
         BspExitLabels, BspResetLabels, WaitLabels
<1>t. /\ ~Arriving(m) /\ ~BackingUp(m) /\ ~Programming(m) /\ ~Serving(m) /\ ~Exiting(m)
         /\ Restoring(m) /\ ~Resetting(m) /\ ~Leaving(m)
      /\ ~Arriving(m)' /\ ~BackingUp(m)' /\ ~Programming(m)' /\ ~Serving(m)'
         /\ ~Exiting(m)' /\ Restoring(m)' /\ ~Resetting(m)' /\ ~Leaving(m)'
      /\ (LockedBsp(m)' <=> LockedBsp(m)) /\ (Closed(m)' <=> Closed(m))
  BY <1>m
     DEF StageInv, Arriving, BackingUp, Programming, Serving, Exiting, Restoring, Resetting,
         Leaving, LockedBsp, Closed, In, BspExitLabels
<1>e. Expected(m)' = Expected(m)
  BY <1>m, <1>t DEF Expected, In
<1>1. StageInv'
  BY <1>m DEF StageInv, In, Gathers, Leads, SameStack
<1>2. ArriveInv' /\ BackupInv' /\ ProgramInv' /\ ServeInv' /\ ExitInv' /\ RestoreInv'
      /\ ResetInv'
  BY <1>m, OthersAreNoBsp, <1>t, <1>e, AccountKept
     DEF ArriveInv, BackupInv, ProgramInv, ServeInv, ExitInv, RestoreInv, ResetInv
<1>3. LeaveInv' /\ NoJoiners' /\ LockInv' /\ CountInv' /\ CounterInv'
  BY <1>m, OthersAreNoBsp, <1>t, NumberStays
     DEF LeaveInv, In, Leads, NoJoiners, SameStack, LockInv, CountInv, CounterInv
<1>4. InsideInv' /\ PointerInv' /\ ModeInv' /\ ModesAgree' /\ PresentInv' /\ IdleInv'
      /\ BusyInv'
  BY <1>m
     DEF InsideInv, In, Leads, SameStack, PointerInv, ModeInv, ModesAgree, PresentInv, IdleInv,
         BusyInv
<1>5. TokenInv' /\ TaskInv'
  BY <1>m, OthersAreNoBsp, <1>t, CpuBound
     DEF TokenInv, In, Woken, Past, Starting, Signalled, Leads, OnlyMoves, TypeOK, StackType,
         TaskInv, SameStack
<1> QED
  BY <1>1, <1>2, <1>3, <1>4, <1>5

\* The BSP sets the mode of the next run and goes to release the APs to
\* reset.
LEMMA SetMode ==
  ASSUME ~GiveUpRace, TypeOK, OneBsp, RunInv,
         NEW m \in Cpu,
         Leads(m),
         pc[m] = "b_mode",
         pc'[m] = "b_rel_reset",
         ~NeedConfigureMtrrs,
         index' = [index EXCEPT ![m] = NumberOfCpus],
         UNCHANGED <<counter, insideSmm, bspIndex, run, present, busy, syncMode, bsp, apCount,
                     left, inWorker>>
  PROVE  RunInv'
<1> USE DEF RunInv, Stays, Avoids, Enters
<1>m. /\ Stays(m, CountedLabels) /\ Stays(m, BspLabels)
      /\ Stays(m, ModeKnownLabels) /\ Stays(m, PresentLabels)
      /\ Avoids(m, ApLabels) /\ Avoids(m, JoiningLabels)
      /\ Avoids(m, ArrivalLabels) /\ Avoids(m, MtrrLabels)
      /\ Avoids(m, InsideLabels) /\ Avoids(m, DueArrive)
      /\ Avoids(m, DueServe) /\ Avoids(m, DueExit) /\ Avoids(m, DueBackup)
      /\ Avoids(m, DueProgram) /\ Avoids(m, DueRestore) /\ Avoids(m, DueReset)
      /\ Avoids(m, ReleasedLabels) /\ Avoids(m, BspCoreLabels)
      /\ Avoids(m, WaitLabels)
      /\ Enters(m, PastMode) /\ Enters(m, RelLabels)
      /\ Enters(m, BspResetLabels)
  BY DEF CountedLabels, ArrivalLabels, InsideLabels, MtrrLabels, DueArrive, DueServe, DueExit,
         DueBackup, DueProgram, DueRestore, DueReset, PaidArrive, PaidBackup, PaidProgram,
         PaidRestore, PaidExit, ModeKnownLabels, PastMode, PresentLabels, RelLabels,
         ReleasedLabels, JoiningLabels, ApLabels, BspLabels, BspGatherLabels, BspCoreLabels,
         BspExitLabels, BspResetLabels, WaitLabels
<1>t. /\ ~Arriving(m) /\ ~BackingUp(m) /\ ~Programming(m) /\ ~Serving(m) /\ ~Exiting(m)
         /\ ~Restoring(m) /\ Resetting(m) /\ ~Leaving(m)
      /\ ~Arriving(m)' /\ ~BackingUp(m)' /\ ~Programming(m)' /\ ~Serving(m)'
         /\ ~Exiting(m)' /\ ~Restoring(m)' /\ Resetting(m)' /\ ~Leaving(m)'
      /\ (LockedBsp(m)' <=> LockedBsp(m)) /\ (Closed(m)' <=> Closed(m))
  BY <1>m
     DEF StageInv, Arriving, BackingUp, Programming, Serving, Exiting, Restoring, Resetting,
         Leaving, LockedBsp, Closed, In, BspExitLabels
<1>e. Expected(m)' = Expected(m)
  BY <1>m, <1>t DEF Expected, In
<1>1. StageInv'
  BY <1>m DEF StageInv, In, Gathers, Leads, SameStack
<1>2. ArriveInv' /\ BackupInv' /\ ProgramInv' /\ ServeInv' /\ ExitInv' /\ RestoreInv'
      /\ ResetInv'
  BY <1>m, OthersAreNoBsp, <1>t, <1>e, AccountKept
     DEF ArriveInv, BackupInv, ProgramInv, ServeInv, ExitInv, RestoreInv, ResetInv
<1>3. LeaveInv' /\ NoJoiners' /\ LockInv' /\ CountInv' /\ CounterInv'
  BY <1>m, OthersAreNoBsp, <1>t, NumberStays
     DEF LeaveInv, In, Leads, NoJoiners, SameStack, LockInv, CountInv, CounterInv
<1>4. InsideInv' /\ PointerInv' /\ ModeInv' /\ ModesAgree' /\ PresentInv' /\ IdleInv'
      /\ BusyInv'
  BY <1>m
     DEF InsideInv, In, Leads, SameStack, PointerInv, ModeInv, ModesAgree, PresentInv, IdleInv,
         BusyInv
<1>5. TokenInv' /\ TaskInv'
  BY <1>m, OthersAreNoBsp, <1>t, CpuBound
     DEF TokenInv, In, Woken, Past, Starting, Signalled, Leads, OnlyMoves, TypeOK, StackType,
         TaskInv, SameStack
<1> QED
  BY <1>1, <1>2, <1>3, <1>4, <1>5

\* The BSP takes its index out of BspIndex.
LEMMA ResignStep ==
  ASSUME ~GiveUpRace, TypeOK, OneBsp, RunInv,
         NEW m \in Cpu,
         Leads(m),
         pc[m] = "b_nobsp",
         pc'[m] = "b_open",
         bspIndex' = bspIndex \/ bspIndex' = NoBsp,
         UNCHANGED <<counter, insideSmm, run, present, busy, syncMode, effectiveSyncMode, bsp,
                     index, apCount, left, inWorker>>
  PROVE  RunInv'
<1> USE DEF RunInv, Stays, Avoids
<1>m. /\ Stays(m, CountedLabels) /\ Stays(m, BspLabels)
      /\ Stays(m, ModeKnownLabels) /\ Stays(m, PastMode)
      /\ Stays(m, BspResetLabels)
      /\ Avoids(m, ApLabels) /\ Avoids(m, JoiningLabels)
      /\ Avoids(m, ArrivalLabels) /\ Avoids(m, MtrrLabels)
      /\ Avoids(m, InsideLabels) /\ Avoids(m, DueArrive)
      /\ Avoids(m, DueServe) /\ Avoids(m, DueExit) /\ Avoids(m, DueBackup)
      /\ Avoids(m, DueProgram) /\ Avoids(m, DueRestore) /\ Avoids(m, DueReset)
      /\ Avoids(m, PresentLabels) /\ Avoids(m, RelLabels)
      /\ Avoids(m, ReleasedLabels) /\ Avoids(m, BspCoreLabels)
      /\ Avoids(m, WaitLabels)
  BY DEF CountedLabels, ArrivalLabels, InsideLabels, MtrrLabels, DueArrive, DueServe, DueExit,
         DueBackup, DueProgram, DueRestore, DueReset, PaidArrive, PaidBackup, PaidProgram,
         PaidRestore, PaidExit, ModeKnownLabels, PastMode, PresentLabels, RelLabels,
         ReleasedLabels, JoiningLabels, ApLabels, BspLabels, BspGatherLabels, BspCoreLabels,
         BspExitLabels, BspResetLabels, WaitLabels
<1>t. /\ ~Arriving(m) /\ ~BackingUp(m) /\ ~Programming(m) /\ ~Serving(m) /\ ~Exiting(m)
         /\ ~Restoring(m) /\ ~Resetting(m) /\ Leaving(m)
      /\ ~Arriving(m)' /\ ~BackingUp(m)' /\ ~Programming(m)' /\ ~Serving(m)'
         /\ ~Exiting(m)' /\ ~Restoring(m)' /\ ~Resetting(m)' /\ Leaving(m)'
      /\ (LockedBsp(m)' <=> LockedBsp(m)) /\ (Closed(m)' <=> Closed(m))
  BY <1>m
     DEF StageInv, Arriving, BackingUp, Programming, Serving, Exiting, Restoring, Resetting,
         Leaving, LockedBsp, Closed, In
<1>e. Expected(m)' = Expected(m)
  BY <1>m, <1>t DEF Expected, In
<1>1. StageInv'
  BY <1>m DEF StageInv, In, Gathers, Leads, SameStack
<1>2. ArriveInv' /\ BackupInv' /\ ProgramInv' /\ ServeInv' /\ ExitInv' /\ RestoreInv'
      /\ ResetInv'
  BY <1>m, OthersAreNoBsp, <1>t
     DEF ArriveInv, BackupInv, ProgramInv, ServeInv, ExitInv, RestoreInv, ResetInv
<1>3. LeaveInv' /\ NoJoiners' /\ LockInv' /\ CountInv' /\ CounterInv'
  BY <1>m, OthersAreNoBsp, <1>t, NumberStays
     DEF LeaveInv, In, Leads, NoJoiners, SameStack, LockInv, CountInv, CounterInv
<1>4. InsideInv' /\ PointerInv' /\ ModeInv' /\ ModesAgree' /\ PresentInv' /\ IdleInv'
      /\ BusyInv'
  BY <1>m, OthersAreNoBsp
     DEF InsideInv, In, Leads, SameStack, InsideLabels, PointerInv, ModeInv, ModesAgree,
         PresentInv, IdleInv, BusyInv
<1>5. TokenInv' /\ TaskInv'
  BY <1>m, OthersAreNoBsp, <1>t
     DEF TokenInv, In, Waits, Past, Starting, Signalled, Leads, SameStack, TaskInv
<1> QED
  BY <1>1, <1>2, <1>3, <1>4, <1>5

\* As many processors are present as Counter counted.
LEMMA AllPresentStep ==
  ASSUME ~GiveUpRace, TypeOK, OneBsp, RunInv,
         NEW m \in Cpu,
         Leads(m),
         pc[m] = "b_count",
         pc'[m] = "b_outside",
         PresentCount > apCount[m],
         UNCHANGED <<counter, insideSmm, bspIndex, run, present, busy, syncMode,
                     effectiveSyncMode, bsp, index, apCount, left, inWorker>>
  PROVE  RunInv'
<1> USE DEF RunInv, Stays, Avoids
<1>m. /\ Stays(m, CountedLabels) /\ Stays(m, BspLabels)
      /\ Stays(m, InsideLabels) /\ Stays(m, ModeKnownLabels)
      /\ Stays(m, PresentLabels)
      /\ Avoids(m, ApLabels) /\ Avoids(m, JoiningLabels)
      /\ Avoids(m, ArrivalLabels) /\ Avoids(m, MtrrLabels)
      /\ Avoids(m, DueArrive) /\ Avoids(m, DueServe) /\ Avoids(m, DueExit)
      /\ Avoids(m, DueBackup) /\ Avoids(m, DueProgram)
      /\ Avoids(m, DueRestore) /\ Avoids(m, DueReset) /\ Avoids(m, PastMode)
      /\ Avoids(m, RelLabels) /\ Avoids(m, ReleasedLabels)
      /\ Avoids(m, BspCoreLabels) /\ Avoids(m, BspResetLabels)
      /\ Avoids(m, WaitLabels)
  BY DEF CountedLabels, ArrivalLabels, InsideLabels, MtrrLabels, DueArrive, DueServe, DueExit,
         DueBackup, DueProgram, DueRestore, DueReset, PaidArrive, PaidBackup, PaidProgram,
         PaidRestore, PaidExit, ModeKnownLabels, PastMode, PresentLabels, RelLabels,
         ReleasedLabels, JoiningLabels, ApLabels, BspLabels, BspGatherLabels, BspCoreLabels,
         BspExitLabels, BspResetLabels, WaitLabels
<1>t. /\ ~Arriving(m) /\ ~BackingUp(m) /\ ~Programming(m) /\ Serving(m) /\ ~Exiting(m)
         /\ ~Restoring(m) /\ ~Resetting(m) /\ ~Leaving(m)
      /\ ~Arriving(m)' /\ ~BackingUp(m)' /\ ~Programming(m)' /\ Serving(m)' /\ ~Exiting(m)'
         /\ ~Restoring(m)' /\ ~Resetting(m)' /\ ~Leaving(m)'
      /\ LockedBsp(m) /\ LockedBsp(m)'
  BY <1>m
     DEF StageInv, Arriving, BackingUp, Programming, Serving, Exiting, Restoring, Resetting,
         Leaving, LockedBsp, In
<1>e. Expected(m)' = Expected(m)
  BY <1>m, <1>t DEF Expected, In
<1>p. \A c \in Cpu : ~In(c, DueArrive)
  <2> DEFINE P == {c \in Cpu : present[c]}
             S == {c \in Cpu : pc[c] \in CountedLabels}
  <2>1. P \subseteq S /\ S \subseteq Cpu
    BY DEF PresentInv, PresentLabels, CountedLabels, In
  <2>2. IsFiniteSet(S)
    BY CpuIsFinite, FS_Subset
  <2>3. Cardinality(P) > Cardinality(S) - 1
    BY <1>m, <1>t DEF CountInv, PresentCount, Number, In
  <2>4. P = S
    <3>1. Cardinality(P) <= Cardinality(S) /\ (Cardinality(S) = Cardinality(P) => P = S)
      BY <2>1, <2>2, FS_Subset
    <3>2. IsFiniteSet(P) /\ Cardinality(P) \in Nat /\ Cardinality(S) \in Nat
      BY <2>1, <2>2, FS_Subset, FS_CardinalityType
    <3> HIDE DEF P, S
    <3> QED
      BY <2>3, <3>1, <3>2
  <2>5. SUFFICES ASSUME NEW c \in Cpu, In(c, DueArrive) PROVE FALSE
    OBVIOUS
  <2>6. present[c]
    BY <2>4, <2>5 DEF DueArrive, CountedLabels, ApLabels, In
  <2>7. pc[c] = "ap_arrive"
    BY <2>5, <2>6
       DEF PresentInv, PresentLabels, DueArrive, JoiningLabels, ApLabels, BspLabels,
           BspGatherLabels, BspCoreLabels, BspExitLabels, BspResetLabels, In
  <2>8. Gathers(c) /\ ~Gathers(m) /\ syncMode[c] = syncMode[m]
    BY <1>m, <2>7 DEF StageInv, ModesAgree, ApLabels, In
  <2> QED
    BY <2>8 DEF Gathers
<1>1. StageInv'
  BY <1>m DEF StageInv, In, Gathers, Leads, SameStack
<1>2. ArriveInv' /\ BackupInv' /\ ProgramInv' /\ ServeInv' /\ ExitInv' /\ RestoreInv'
      /\ ResetInv'
  BY <1>m, OthersAreNoBsp, <1>t, <1>e, AccountKept
     DEF ArriveInv, BackupInv, ProgramInv, ServeInv, ExitInv, RestoreInv, ResetInv
<1>3. LeaveInv' /\ LockInv' /\ CountInv' /\ CounterInv'
  BY <1>m, OthersAreNoBsp, <1>t, NumberStays
     DEF LeaveInv, In, Leads, LockInv, CountInv, CounterInv
<1>4. InsideInv' /\ PointerInv' /\ ModeInv' /\ ModesAgree' /\ PresentInv' /\ IdleInv'
      /\ BusyInv'
  BY <1>m
     DEF InsideInv, In, Leads, SameStack, PointerInv, ModeInv, ModesAgree, PresentInv, IdleInv,
         BusyInv
<1>5. NoJoiners'
  BY <1>m, <1>p DEF NoJoiners, In, Leads, OnlyMoves
<1>6. TokenInv' /\ TaskInv'
  BY <1>m, OthersAreNoBsp, <1>t
     DEF TokenInv, In, Waits, Past, Starting, Signalled, Leads, SameStack, TaskInv
<1> QED
  BY <1>1, <1>2, <1>3, <1>4, <1>5, <1>6

\* The BSP stores zero in Counter when nobody else is counted.
LEMMA OpenStep ==
  ASSUME ~GiveUpRace, TypeOK, OneBsp, RunInv,
         NEW m \in Cpu,
         Leads(m),
         pc[m] = "b_open",
         pc'[m] = "b_unsync",
         counter' = 0,
         UNCHANGED <<insideSmm, bspIndex, run, present, busy, syncMode, effectiveSyncMode, bsp,
                     index, apCount, left, inWorker>>
  PROVE  RunInv'
<1> USE DEF RunInv, Avoids, Quits
<1>m. /\ Avoids(m, ApLabels) /\ Avoids(m, JoiningLabels)
      /\ Avoids(m, ArrivalLabels) /\ Avoids(m, MtrrLabels)
      /\ Avoids(m, InsideLabels) /\ Avoids(m, DueArrive)
      /\ Avoids(m, DueServe) /\ Avoids(m, DueExit) /\ Avoids(m, DueBackup)
      /\ Avoids(m, DueProgram) /\ Avoids(m, DueRestore) /\ Avoids(m, DueReset)
      /\ Avoids(m, PresentLabels) /\ Avoids(m, RelLabels)
      /\ Avoids(m, ReleasedLabels) /\ Avoids(m, BspCoreLabels)
      /\ Avoids(m, WaitLabels)
      /\ Quits(m, CountedLabels) /\ Quits(m, BspLabels)
      /\ Quits(m, ModeKnownLabels) /\ Quits(m, PastMode)
      /\ Quits(m, BspResetLabels)
  BY DEF CountedLabels, ArrivalLabels, InsideLabels, MtrrLabels, DueArrive, DueServe, DueExit,
         DueBackup, DueProgram, DueRestore, DueReset, PaidArrive, PaidBackup, PaidProgram,
         PaidRestore, PaidExit, ModeKnownLabels, PastMode, PresentLabels, RelLabels,
         ReleasedLabels, JoiningLabels, ApLabels, BspLabels, BspGatherLabels, BspCoreLabels,
         BspExitLabels, BspResetLabels, WaitLabels
<1>t. /\ ~Arriving(m) /\ ~BackingUp(m) /\ ~Programming(m) /\ ~Serving(m) /\ ~Exiting(m)
         /\ ~Restoring(m) /\ ~Resetting(m) /\ Leaving(m)
      /\ ~Arriving(m)' /\ ~BackingUp(m)' /\ ~Programming(m)' /\ ~Serving(m)'
         /\ ~Exiting(m)' /\ ~Restoring(m)' /\ ~Resetting(m)' /\ ~Leaving(m)'
      /\ LockedBsp(m) /\ ~LockedBsp(m)' /\ ~Closed(m)'
  BY <1>m
     DEF StageInv, Arriving, BackingUp, Programming, Serving, Exiting, Restoring, Resetting,
         Leaving, LockedBsp, Closed, In, BspExitLabels
<1>n. run[m] = 0 /\ \A c \in Cpu : ~In(c, CountedLabels)'
  BY <1>m, <1>t DEF LeaveInv, Leads, OnlyMoves, In
<1>o. \A c \in Cpu : ~In(c, BspLabels)' /\ ~In(c, ApLabels)' /\ ~In(c, JoiningLabels)'
      /\ ~In(c, ModeKnownLabels)'
  BY <1>n DEF CountedLabels, ModeKnownLabels, In
<1>c. Number(pc', CountedLabels) = 0
  BY <1>n, NumberOfNone DEF In
<1>1. StageInv'
  BY <1>m DEF StageInv, In, Gathers, Leads, SameStack
<1>2. ArriveInv' /\ BackupInv' /\ ProgramInv' /\ ServeInv' /\ ExitInv' /\ RestoreInv'
      /\ ResetInv'
  BY <1>m, OthersAreNoBsp, <1>t
     DEF ArriveInv, BackupInv, ProgramInv, ServeInv, ExitInv, RestoreInv, ResetInv
<1>3. LeaveInv' /\ NoJoiners' /\ LockInv' /\ CountInv' /\ CounterInv'
  BY <1>m, OthersAreNoBsp, <1>t, <1>c
     DEF LeaveInv, In, NoJoiners, LockInv, Locked, CountInv, CounterInv
<1>4. InsideInv' /\ PointerInv' /\ ModeInv' /\ ModesAgree' /\ PresentInv' /\ IdleInv'
      /\ BusyInv'
  BY <1>m, <1>o, <1>n
     DEF InsideInv, In, Leads, SameStack, PointerInv, ModeInv, ModesAgree, PresentInv, IdleInv,
         BusyInv
<1>5. TokenInv' /\ TaskInv'
  BY <1>m, <1>o DEF TokenInv, In, Starting, Leads, SameStack, TaskInv
<1> QED
  BY <1>1, <1>2, <1>3, <1>4, <1>5

\* The elected processor becomes the BSP and reads the mode of the run.
LEMMA BecomeBspStep ==
  ASSUME ~GiveUpRace, TypeOK, OneBsp, RunInv,
         NEW m \in Cpu,
         \A b \in Cpu \ {m} : SameStack(b),
         pc[m] = "role",
         pc'[m] = "b_inside",
         OnlyMoves(m),
         bspIndex = m,
         syncMode' = [syncMode EXCEPT ![m] = effectiveSyncMode],
         UNCHANGED <<counter, insideSmm, bspIndex, run, present, busy, effectiveSyncMode, bsp,
                     index, apCount, left, inWorker>>
  PROVE  RunInv'
<1> USE DEF RunInv, Stays, Avoids, Enters, Quits
<1>m. /\ Stays(m, CountedLabels)
      /\ Avoids(m, ApLabels) /\ Avoids(m, ArrivalLabels)
      /\ Avoids(m, MtrrLabels) /\ Avoids(m, InsideLabels)
      /\ Avoids(m, DueExit) /\ Avoids(m, DueBackup) /\ Avoids(m, DueProgram)
      /\ Avoids(m, DueRestore) /\ Avoids(m, DueReset) /\ Avoids(m, PastMode)
      /\ Avoids(m, PresentLabels) /\ Avoids(m, RelLabels)
      /\ Avoids(m, ReleasedLabels) /\ Avoids(m, BspCoreLabels)
      /\ Avoids(m, BspResetLabels) /\ Avoids(m, WaitLabels)
      /\ Enters(m, BspLabels) /\ Enters(m, ModeKnownLabels)
      /\ Quits(m, JoiningLabels) /\ Quits(m, DueArrive) /\ Quits(m, DueServe)
  BY DEF CountedLabels, ArrivalLabels, InsideLabels, MtrrLabels, DueArrive, DueServe, DueExit,
         DueBackup, DueProgram, DueRestore, DueReset, PaidArrive, PaidBackup, PaidProgram,
         PaidRestore, PaidExit, ModeKnownLabels, PastMode, PresentLabels, RelLabels,
         ReleasedLabels, JoiningLabels, ApLabels, BspLabels, BspGatherLabels, BspCoreLabels,
         BspExitLabels, BspResetLabels, WaitLabels
<1>b. \A b \in Cpu : ~In(b, BspLabels)
  BY <1>m DEF OneBsp, LeaveInv, Leaving, ActingLabels, In
<1>a. \A c \in Cpu : ~In(c, ApLabels)
  BY <1>b DEF PointerInv, In
<1>l. \A b \in Cpu : ~LockedBsp(b)
  BY <1>b, StagesAreBsp
<1>k. counter # Locked /\ counter = Number(pc, CountedLabels) /\ run[m] = 0
  BY <1>m, <1>l DEF LockInv, CounterInv, IdleInv, In
<1>o. \A b \in Cpu \ {m} : /\ ~In(b, BspLabels)' /\ ~In(b, ApLabels)'
          /\ ~Arriving(b)' /\ ~BackingUp(b)' /\ ~Programming(b)' /\ ~Serving(b)' /\ ~Exiting(b)'
          /\ ~Restoring(b)' /\ ~Resetting(b)' /\ ~Leaving(b)' /\ ~LockedBsp(b)' /\ ~Closed(b)'
  BY <1>a, <1>b, StagesStay, StagesAreBsp DEF SameStack, In
<1>t. /\ ~BackingUp(m)' /\ ~Programming(m)' /\ ~Exiting(m)'
      /\ ~Restoring(m)' /\ ~Resetting(m)' /\ ~Leaving(m)' /\ ~LockedBsp(m)' /\ ~Closed(m)'
  BY <1>m
     DEF StageInv, BackingUp, Programming, Exiting, Restoring, Resetting, Leaving, LockedBsp,
         Closed, In, BspExitLabels
<1>c. Number(pc', CountedLabels) = Number(pc, CountedLabels)
  BY <1>m, NumberStays
<1>d. \A c \in Cpu \ {m} : pc'[c] = pc[c] /\ (pc[c] \in CountedLabels =>
      pc[c] \in DueArrive /\ pc[c] \in DueServe)
  BY <1>a, <1>b DEF OnlyMoves, CountedLabels, DueServe, DueArrive, In
<1>e. Account(m, DueArrive, PaidArrive)' /\ Account(m, DueServe, {})'
  <2>1. Expected(m)' = Number(pc', CountedLabels) - 1
    BY <1>m, <1>t, <1>k, <1>c DEF Expected, In
  <2>2. DueArrive \subseteq CountedLabels /\ DueServe \subseteq CountedLabels
    BY DEF DueArrive, DueServe, CountedLabels, ApLabels
  <2>3. Number(pc', DueArrive) = Number(pc', CountedLabels) - 1
    BY <1>m, <1>d, <2>2, NumberOfOthers
  <2>4. Number(pc', DueServe) = Number(pc', CountedLabels) - 1
    BY <1>m, <1>d, <2>2, NumberOfOthers
  <2> QED
    BY <1>d, <1>k, <2>1, <2>3, <2>4, NumberIsNat DEF Account, In
<1>1. StageInv'
  BY <1>m DEF StageInv, In, Gathers, SameStack
<1>2. ArriveInv'
  BY <1>o, <1>e DEF ArriveInv
<1>3. BackupInv'
  BY <1>o, <1>t DEF BackupInv
<1>4. ProgramInv'
  BY <1>o, <1>t DEF ProgramInv
<1>5. ServeInv'
  BY <1>o, <1>e DEF ServeInv
<1>6. ExitInv'
  BY <1>o, <1>t DEF ExitInv
<1>7. RestoreInv'
  BY <1>o, <1>t DEF RestoreInv
<1>8. ResetInv'
  BY <1>o, <1>t DEF ResetInv
<1>9. LeaveInv'
  BY <1>o, <1>t DEF LeaveInv
<1>10. InsideInv'
  BY <1>m DEF InsideInv, In, OnlyMoves
<1>11. PointerInv'
  BY <1>o, <1>m DEF PointerInv, In
<1>12. LockInv'
  BY <1>o, <1>t, <1>k DEF LockInv
<1>13. CounterInv'
  BY <1>c DEF CounterInv
<1>14. CountInv'
  BY <1>o, <1>t DEF CountInv
<1>15. NoJoiners'
  BY <1>o, <1>t DEF NoJoiners
<1>16. ModeInv'
  BY <1>m DEF ModeInv, In, SameStack, TypeOK, StackType
<1>17. ModesAgree'
  BY <1>o, <1>m DEF ModesAgree, In
<1>18. PresentInv' /\ IdleInv' /\ BusyInv'
  BY <1>m DEF PresentInv, In, SameStack, IdleInv, BusyInv
<1>19. TokenInv'
  BY <1>o, <1>m DEF TokenInv, In
<1>20. TaskInv'
  BY <1>o, <1>m DEF TaskInv, Starting, In, BspLabels, BspCoreLabels
<1> QED
  BY <1>1, <1>2, <1>3, <1>4, <1>5, <1>6, <1>7, <1>8, <1>9, <1>10, <1>11, <1>12, <1>13, <1>14,
     <1>15, <1>16, <1>17, <1>18, <1>19, <1>20

-----------------------------------------------------------------------------
(***************************************************************************)
(* The actions.                                                            *)
(***************************************************************************)

\* Every action of SmiRendezvous keeps the invariant.
LEMMA SmiRendezvousKeepsRun ==
  ASSUME ~GiveUpRace, TypeOK, OneBsp, RunInv, NEW c \in Cpu, SmiRendezvous(c)
  PROVE  RunInv'
<1>a. BecomeBsp(c) \/ Aside(c)
  BY AsideSteps
<1>1. CASE SampleValidSmi(c)
  BY <1>a, <1>1, OutsideStep
     DEF SampleValidSmi, Step, At, Goto, syncVars, electVars, modeVars, mtrrVars, platVars,
         dataVars, taskVars, hwVars, entryVars, bspVars, stackVars, memory, notSync, notStack,
         notData, TypeOK, PcType, CpuDataType, StackType, BecomeBsp, CountedLabels,
         JoiningLabels, ApLabels, BspLabels, BspGatherLabels, BspCoreLabels, BspExitLabels,
         BspResetLabels
<1>2. CASE SampleBspInProgress(c)
  BY <1>a, <1>2, OutsideStep
     DEF SampleBspInProgress, Step, At, Goto, syncVars, electVars, modeVars, mtrrVars, platVars,
         dataVars, taskVars, hwVars, entryVars, bspVars, stackVars, memory, notSync, notStack,
         notData, TypeOK, PcType, CpuDataType, StackType, BecomeBsp, CountedLabels,
         JoiningLabels, ApLabels, BspLabels, BspGatherLabels, BspCoreLabels, BspExitLabels,
         BspResetLabels
<1>3. CASE CheckIn(c)
  <2>1. CASE counter # Locked
    BY <1>a, <1>3, <2>1, CheckInStep
       DEF CheckIn, Step, At, Goto, syncVars, electVars, modeVars, mtrrVars, platVars, dataVars,
           taskVars, hwVars, entryVars, bspVars, stackVars, memory, notSync, notStack, notData,
           TypeOK, PcType, CpuDataType, StackType, BecomeBsp, ReleaseSemaphore, Locked, SyncType
  <2>2. CASE counter = Locked
    BY <1>a, <1>3, <2>2, OutsideStep
       DEF CheckIn, Step, At, Goto, syncVars, electVars, modeVars, mtrrVars, platVars, dataVars,
           taskVars, hwVars, entryVars, bspVars, stackVars, memory, notSync, notStack, notData,
           TypeOK, PcType, CpuDataType, StackType, BecomeBsp, ReleaseSemaphore, Locked,
           CountedLabels, JoiningLabels, ApLabels, BspLabels, BspGatherLabels, BspCoreLabels,
           BspExitLabels, BspResetLabels
  <2> QED
    BY <1>3, <2>1, <2>2 DEF CheckIn, Step, At
<1>4. CASE WaitForEndOfRun(c)
  BY <1>a, <1>4, OutsideStep
     DEF WaitForEndOfRun, Step, At, Goto, syncVars, electVars, modeVars, mtrrVars, platVars,
         dataVars, taskVars, hwVars, entryVars, bspVars, stackVars, memory, notSync, notStack,
         notData, TypeOK, PcType, CpuDataType, StackType, BecomeBsp, CountedLabels,
         JoiningLabels, ApLabels, BspLabels, BspGatherLabels, BspCoreLabels, BspExitLabels,
         BspResetLabels
<1>5. CASE LeaveSmm(c)
  BY <1>a, <1>5, OutsideStep
     DEF LeaveSmm, Step, At, Goto, syncVars, electVars, modeVars, mtrrVars, platVars, dataVars,
         taskVars, hwVars, entryVars, bspVars, stackVars, memory, notSync, notStack, notData,
         TypeOK, PcType, CpuDataType, StackType, BecomeBsp, CountedLabels, JoiningLabels,
         ApLabels, BspLabels, BspGatherLabels, BspCoreLabels, BspExitLabels, BspResetLabels
<1>6. CASE InitializeBusy(c)
  BY <1>a, <1>6, JoinStep, NoBspIsNoCpu
     DEF InitializeBusy, Step, At, Goto, syncVars, electVars, modeVars, mtrrVars, platVars,
         dataVars, taskVars, hwVars, entryVars, bspVars, stackVars, memory, notSync, notStack,
         notData, TypeOK, PcType, CpuDataType, StackType, BecomeBsp, ModeKnownLabels,
         CountedLabels, JoiningLabels, ApLabels, BspLabels, BspGatherLabels, BspCoreLabels,
         BspExitLabels, BspResetLabels, RunInv, InsideInv, BusyInv, In
<1>7. CASE Stand(c)
  BY <1>a, <1>7, JoinStep, NoBspIsNoCpu
     DEF Stand, Step, At, Goto, syncVars, electVars, modeVars, mtrrVars, platVars, dataVars,
         taskVars, hwVars, entryVars, bspVars, stackVars, memory, notSync, notStack, notData,
         TypeOK, PcType, CpuDataType, StackType, BecomeBsp, ModeKnownLabels, CountedLabels,
         JoiningLabels, ApLabels, BspLabels, BspGatherLabels, BspCoreLabels, BspExitLabels,
         BspResetLabels, RunInv, InsideInv, BusyInv, In
<1>8. CASE ElectBsp(c)
  BY <1>a, <1>8, JoinStep, NoBspIsNoCpu
     DEF ElectBsp, Step, At, Goto, syncVars, electVars, modeVars, mtrrVars, platVars, dataVars,
         taskVars, hwVars, entryVars, bspVars, stackVars, memory, notSync, notStack, notData,
         TypeOK, PcType, CpuDataType, StackType, BecomeBsp, ModeKnownLabels, FirstCandidateWins,
         CountedLabels, JoiningLabels, ApLabels, BspLabels, BspGatherLabels, BspCoreLabels,
         BspExitLabels, BspResetLabels, RunInv, InsideInv, BusyInv, In
<1>9. CASE BecomeBsp(c)
  <2>1. pc[c] = "role" /\ pc'[c] = "b_inside"
    BY <1>9 DEF BecomeBsp, At, Goto, TypeOK, PcType
  <2> QED
    BY <1>9, <2>1, OneMoves, BecomeBspStep
       DEF SmiRendezvous, BecomeBsp, syncVars, electVars, modeVars, mtrrVars, platVars, dataVars,
           taskVars, hwVars, entryVars, bspVars, stackVars, memory, notSync, notStack, notData
<1>10. CASE BecomeAp(c)
  BY <1>a, <1>10, JoinStep, NoBspIsNoCpu
     DEF BecomeAp, Step, At, Goto, syncVars, electVars, modeVars, mtrrVars, platVars, dataVars,
         taskVars, hwVars, entryVars, bspVars, stackVars, memory, notSync, notStack, notData,
         TypeOK, PcType, CpuDataType, StackType, BecomeBsp, ModeKnownLabels, CountedLabels,
         JoiningLabels, ApLabels, BspLabels, BspGatherLabels, BspCoreLabels, BspExitLabels,
         BspResetLabels, RunInv, InsideInv, BusyInv, In
<1>11. CASE ReadSyncMode(c)
  BY <1>a, <1>11, JoinStep, NoBspIsNoCpu
     DEF ReadSyncMode, Step, At, Goto, syncVars, electVars, modeVars, mtrrVars, platVars,
         dataVars, taskVars, hwVars, entryVars, bspVars, stackVars, memory, notSync, notStack,
         notData, TypeOK, PcType, CpuDataType, StackType, BecomeBsp, ModeKnownLabels,
         CountedLabels, JoiningLabels, ApLabels, BspLabels, BspGatherLabels, BspCoreLabels,
         BspExitLabels, BspResetLabels, RunInv, InsideInv, BusyInv, In
<1> QED
  BY <1>1, <1>2, <1>3, <1>4, <1>5, <1>6, <1>7, <1>8, <1>9, <1>10, <1>11 DEF SmiRendezvous

\* Every action of APHandler keeps the invariant.
LEMMA APHandlerKeepsRun ==
  ASSUME ~GiveUpRace, TypeOK, OneBsp, RunInv, NEW c \in Cpu, APHandler(c)
  PROVE  RunInv'
<1>a. Aside(c)
  BY AsideSteps
     DEF BecomeBsp, APHandler, ApMarkPresent, ApPresent, ApTimeout1, ApCallBsp, ApNobodyToCall,
         ApTimeout2, ApGiveUp, ApSignal, ApWait, ApBackupMtrrs, ApReplaceOSMtrrs, ApCheckExit,
         ApRunProcedure, ApReleaseBusy, ApReady, ApAbsent, Step, At
<1>1. CASE ApMarkPresent(c)
  BY <1>a, <1>1, MarkPresentStep
     DEF ApMarkPresent, Step, At, Goto, syncVars, electVars, modeVars, mtrrVars, platVars,
         dataVars, taskVars, hwVars, entryVars, bspVars, stackVars, memory, notSync, notStack,
         notData, TypeOK, PcType, CpuDataType, StackType
<1>2. CASE ApPresent(c)
  <2>1. CASE Gathers(c)
    BY <1>a, <1>2, <2>1, PresentGathered
       DEF ApPresent, Step, At, Goto, syncVars, electVars, modeVars, mtrrVars, platVars,
           dataVars, taskVars, hwVars, entryVars, bspVars, stackVars, memory, notSync, notStack,
           notData, TypeOK, PcType, CpuDataType, StackType
  <2>2. CASE ~Gathers(c)
    BY <1>a, <1>2, <2>2, PresentRelaxed
       DEF ApPresent, Step, At, Goto, syncVars, electVars, modeVars, mtrrVars, platVars,
           dataVars, taskVars, hwVars, entryVars, bspVars, stackVars, memory, notSync, notStack,
           notData, TypeOK, PcType, CpuDataType, StackType
  <2> QED
    BY <1>2, <2>1, <2>2 DEF ApPresent, Step, At
<1>3. CASE ApTimeout1(c)
  BY <1>a, <1>3, JoinStep, NoBspIsNoCpu
     DEF ApTimeout1, Step, At, Goto, syncVars, electVars, modeVars, mtrrVars, platVars, dataVars,
         taskVars, hwVars, entryVars, bspVars, stackVars, memory, notSync, notStack, notData,
         TypeOK, PcType, CpuDataType, StackType, ModeKnownLabels, CountedLabels, JoiningLabels,
         ApLabels, BspLabels, BspGatherLabels, BspCoreLabels, BspExitLabels, BspResetLabels,
         RunInv, InsideInv, BusyInv, In
<1>4. CASE ApCallBsp(c)
  BY <1>a, <1>4, JoinStep, NoBspIsNoCpu
     DEF ApCallBsp, Step, At, Goto, syncVars, electVars, modeVars, mtrrVars, platVars, dataVars,
         taskVars, hwVars, entryVars, bspVars, stackVars, memory, notSync, notStack, notData,
         TypeOK, PcType, CpuDataType, StackType, ModeKnownLabels, CountedLabels, JoiningLabels,
         ApLabels, BspLabels, BspGatherLabels, BspCoreLabels, BspExitLabels, BspResetLabels,
         RunInv, InsideInv, BusyInv, In
<1>5. CASE ApNobodyToCall(c)
  BY <1>a, <1>5, GiveUpStep, NoBspIsNoCpu
     DEF ApNobodyToCall, Step, At, Goto, syncVars, electVars, modeVars, mtrrVars, platVars,
         dataVars, taskVars, hwVars, entryVars, bspVars, stackVars, memory, notSync, notStack,
         notData, TypeOK, PcType, CpuDataType, StackType, DecideToGiveUp, GiveUp,
         WaitForSemaphore, RunInv, InsideInv
<1>6. CASE ApTimeout2(c)
  BY <1>a, <1>6, GiveUpStep, NoBspIsNoCpu
     DEF ApTimeout2, Step, At, Goto, syncVars, electVars, modeVars, mtrrVars, platVars, dataVars,
         taskVars, hwVars, entryVars, bspVars, stackVars, memory, notSync, notStack, notData,
         TypeOK, PcType, CpuDataType, StackType, DecideToGiveUp, GiveUp, WaitForSemaphore,
         RunInv, InsideInv
<1>7. CASE ApGiveUp(c)
  BY <1>7 DEF ApGiveUp, At, RunInv, StageInv, In
<1>8. CASE ApSignal(c)
  <2>1. CASE pc[c] = "ap_arrive" /\ NeedConfigureMtrrs
    BY <1>a, <1>8, <2>1, ArriveSignalMtrrs
       DEF ApSignal, Step, At, Goto, syncVars, electVars, modeVars, mtrrVars, platVars, dataVars,
           taskVars, hwVars, entryVars, bspVars, stackVars, memory, notSync, notStack, notData,
           TypeOK, PcType, CpuDataType, StackType
  <2>2. CASE pc[c] = "ap_arrive" /\ ~NeedConfigureMtrrs
    BY <1>a, <1>8, <2>2, ArriveSignal
       DEF ApSignal, Step, At, Goto, syncVars, electVars, modeVars, mtrrVars, platVars, dataVars,
           taskVars, hwVars, entryVars, bspVars, stackVars, memory, notSync, notStack, notData,
           TypeOK, PcType, CpuDataType, StackType
  <2>3. CASE pc[c] = "ap_rdy_restore"
    BY <1>a, <1>8, <2>3, RdySignal
       DEF ApSignal, Step, At, Goto, syncVars, electVars, modeVars, mtrrVars, platVars, dataVars,
           taskVars, hwVars, entryVars, bspVars, stackVars, memory, notSync, notStack, notData,
           TypeOK, PcType, CpuDataType, StackType
  <2>4. CASE pc[c] = "ap_bye"
    BY <1>a, <1>8, <2>4, ByeSignal
       DEF ApSignal, Step, At, Goto, syncVars, electVars, modeVars, mtrrVars, platVars, dataVars,
           taskVars, hwVars, entryVars, bspVars, stackVars, memory, notSync, notStack, notData,
           TypeOK, PcType, CpuDataType, StackType
  <2> QED
    BY <1>8, <2>1, <2>2, <2>3, <2>4 DEF ApSignal, Step, At
<1>9. CASE ApWait(c)
  <2>1. CASE pc[c] = "ap_wait_backup"
    BY <1>a, <1>9, <2>1, BackupWait
       DEF ApWait, Step, At, Goto, syncVars, electVars, modeVars, mtrrVars, platVars, dataVars,
           taskVars, hwVars, entryVars, bspVars, stackVars, memory, notSync, notStack, notData,
           TypeOK, PcType, CpuDataType, StackType
  <2>2. CASE pc[c] = "ap_wait_program"
    BY <1>a, <1>9, <2>2, ProgramWait
       DEF ApWait, Step, At, Goto, syncVars, electVars, modeVars, mtrrVars, platVars, dataVars,
           taskVars, hwVars, entryVars, bspVars, stackVars, memory, notSync, notStack, notData,
           TypeOK, PcType, CpuDataType, StackType
  <2>3. CASE pc[c] = "ap_work"
    BY <1>a, <1>9, <2>3, WorkWait
       DEF ApWait, Step, At, Goto, syncVars, electVars, modeVars, mtrrVars, platVars, dataVars,
           taskVars, hwVars, entryVars, bspVars, stackVars, memory, notSync, notStack, notData,
           TypeOK, PcType, CpuDataType, StackType
  <2>4. CASE pc[c] = "ap_wait_restore"
    BY <1>a, <1>9, <2>4, RestoreWait
       DEF ApWait, Step, At, Goto, syncVars, electVars, modeVars, mtrrVars, platVars, dataVars,
           taskVars, hwVars, entryVars, bspVars, stackVars, memory, notSync, notStack, notData,
           TypeOK, PcType, CpuDataType, StackType
  <2>5. CASE pc[c] = "ap_wait_reset"
    BY <1>a, <1>9, <2>5, ResetWait
       DEF ApWait, Step, At, Goto, syncVars, electVars, modeVars, mtrrVars, platVars, dataVars,
           taskVars, hwVars, entryVars, bspVars, stackVars, memory, notSync, notStack, notData,
           TypeOK, PcType, CpuDataType, StackType
  <2> QED
    BY <1>9, <2>1, <2>2, <2>3, <2>4, <2>5 DEF ApWait, Step, At
<1>10. CASE ApBackupMtrrs(c)
  BY <1>a, <1>10, BackupSignal
     DEF ApBackupMtrrs, Step, At, Goto, syncVars, electVars, modeVars, mtrrVars, platVars,
         dataVars, taskVars, hwVars, entryVars, bspVars, stackVars, memory, notSync, notStack,
         notData, TypeOK, PcType, CpuDataType, StackType
<1>11. CASE ApReplaceOSMtrrs(c)
  BY <1>a, <1>11, ProgramSignal
     DEF ApReplaceOSMtrrs, Step, At, Goto, syncVars, electVars, modeVars, mtrrVars, platVars,
         dataVars, taskVars, hwVars, entryVars, bspVars, stackVars, memory, notSync, notStack,
         notData, TypeOK, PcType, CpuDataType, StackType
<1>12. CASE ApCheckExit(c)
  <2>1. CASE insideSmm
    BY <1>a, <1>12, <2>1, CheckWork
       DEF ApCheckExit, Step, At, Goto, syncVars, electVars, modeVars, mtrrVars, platVars,
           dataVars, taskVars, hwVars, entryVars, bspVars, stackVars, memory, notSync, notStack,
           notData, TypeOK, PcType, CpuDataType, StackType
  <2>2. CASE ~insideSmm /\ NeedConfigureMtrrs
    BY <1>a, <1>12, <2>2, CheckExitMtrrs
       DEF ApCheckExit, Step, At, Goto, syncVars, electVars, modeVars, mtrrVars, platVars,
           dataVars, taskVars, hwVars, entryVars, bspVars, stackVars, memory, notSync, notStack,
           notData, TypeOK, PcType, CpuDataType, StackType
  <2>3. CASE ~insideSmm /\ ~NeedConfigureMtrrs
    BY <1>a, <1>12, <2>3, CheckExit
       DEF ApCheckExit, Step, At, Goto, syncVars, electVars, modeVars, mtrrVars, platVars,
           dataVars, taskVars, hwVars, entryVars, bspVars, stackVars, memory, notSync, notStack,
           notData, TypeOK, PcType, CpuDataType, StackType
  <2> QED
    BY <1>12, <2>1, <2>2, <2>3 DEF ApCheckExit, Step, At
<1>13. CASE ApRunProcedure(c)
  BY <1>a, <1>13, ProcedureStep
     DEF ApRunProcedure, Step, At, Goto, syncVars, electVars, modeVars, mtrrVars, platVars,
         dataVars, taskVars, hwVars, entryVars, bspVars, stackVars, memory, notSync, notStack,
         notData, TypeOK, PcType, CpuDataType, StackType
<1>14. CASE ApReleaseBusy(c)
  BY <1>a, <1>14, ReleaseStep
     DEF ApReleaseBusy, Step, At, Goto, syncVars, electVars, modeVars, mtrrVars, platVars,
         dataVars, taskVars, hwVars, entryVars, bspVars, stackVars, memory, notSync, notStack,
         notData, TypeOK, PcType, CpuDataType, StackType
<1>15. CASE ApReady(c)
  BY <1>a, <1>15, ReadySignal
     DEF ApReady, Step, At, Goto, syncVars, electVars, modeVars, mtrrVars, platVars, dataVars,
         taskVars, hwVars, entryVars, bspVars, stackVars, memory, notSync, notStack, notData,
         TypeOK, PcType, CpuDataType, StackType
<1>16. CASE ApAbsent(c)
  BY <1>a, <1>16, AbsentStep
     DEF ApAbsent, Step, At, Goto, syncVars, electVars, modeVars, mtrrVars, platVars, dataVars,
         taskVars, hwVars, entryVars, bspVars, stackVars, memory, notSync, notStack, notData,
         TypeOK, PcType, CpuDataType, StackType
<1> QED
  BY <1>1, <1>2, <1>3, <1>4, <1>5, <1>6, <1>7, <1>8, <1>9, <1>10, <1>11, <1>12, <1>13, <1>14,
     <1>15, <1>16
     DEF APHandler

\* Every action of BSPHandler keeps the invariant.
LEMMA BSPHandlerKeepsRun ==
  ASSUME ~GiveUpRace, TypeOK, OneBsp, RunInv, NEW c \in Cpu, BSPHandler(c)
  PROVE  RunInv'
<1>a. BspDropSync(c) \/ Leads(c)
  BY LeadSteps
<1>1. CASE BspFlagInside(c)
  BY <1>a, <1>1, FlagInside
     DEF BspFlagInside, Step, At, Goto, syncVars, electVars, modeVars, mtrrVars, platVars,
         dataVars, taskVars, hwVars, entryVars, bspVars, stackVars, memory, notSync, notStack,
         notData, TypeOK, PcType, CpuDataType, StackType, BspDropSync
<1>2. CASE BspPresent(c)
  BY <1>a, <1>2, MarkPresent
     DEF BspPresent, Step, At, Goto, syncVars, electVars, modeVars, mtrrVars, platVars, dataVars,
         taskVars, hwVars, entryVars, bspVars, stackVars, memory, notSync, notStack, notData,
         TypeOK, PcType, CpuDataType, StackType, BspDropSync
<1>3. CASE BspClearSmiStatus(c)
  <2>1. CASE Gathers(c)
    BY <1>a, <1>3, <2>1, ClearGathered
       DEF BspClearSmiStatus, Step, At, Goto, syncVars, electVars, modeVars, mtrrVars, platVars,
           dataVars, taskVars, hwVars, entryVars, bspVars, stackVars, memory, notSync, notStack,
           notData, TypeOK, PcType, CpuDataType, StackType, BspDropSync
  <2>2. CASE ~Gathers(c)
    BY <1>a, <1>3, <2>2, ClearRelaxed
       DEF BspClearSmiStatus, Step, At, Goto, syncVars, electVars, modeVars, mtrrVars, platVars,
           dataVars, taskVars, hwVars, entryVars, bspVars, stackVars, memory, notSync, notStack,
           notData, TypeOK, PcType, CpuDataType, StackType, BspDropSync
  <2> QED
    BY <1>3, <2>1, <2>2 DEF BspClearSmiStatus, Step, At
<1>4. CASE BspAllArrived(c) \/ BspArrivalTimeout(c)
  <2>1. CASE pc[c] = "b_arrive1"
    BY <1>a, <1>4, <2>1, ArrivalMove
       DEF BspAllArrived, BspArrivalTimeout, BspArrivalLoopEnds, ArrivalDone, Step, At, Goto,
           syncVars, electVars, modeVars, mtrrVars, platVars, dataVars, taskVars, hwVars,
           entryVars, bspVars, stackVars, memory, notSync, notStack, notData, TypeOK, PcType,
           CpuDataType, StackType, BspDropSync, ArrivalLabels
  <2>2. CASE pc[c] = "b_arrive2" /\ inWorker[c]
    BY <1>a, <1>4, <2>2, WorkerDone
       DEF BspAllArrived, BspArrivalTimeout, BspArrivalLoopEnds, ArrivalDone, Step, At, Goto,
           syncVars, electVars, modeVars, mtrrVars, platVars, dataVars, taskVars, hwVars,
           entryVars, bspVars, stackVars, memory, notSync, notStack, notData, TypeOK, PcType,
           CpuDataType, StackType, BspDropSync, ArrivalDone
  <2>3. CASE pc[c] = "b_arrive2" /\ ~inWorker[c]
    BY <1>a, <1>4, <2>3, GatheringDone
       DEF BspAllArrived, BspArrivalTimeout, BspArrivalLoopEnds, ArrivalDone, Step, At, Goto,
           syncVars, electVars, modeVars, mtrrVars, platVars, dataVars, taskVars, hwVars,
           entryVars, bspVars, stackVars, memory, notSync, notStack, notData, TypeOK, PcType,
           CpuDataType, StackType, BspDropSync, ArrivalDone
  <2> QED
    BY <1>4, <2>1, <2>2, <2>3
       DEF BspAllArrived, BspArrivalTimeout, BspArrivalLoopEnds, ArrivalDone, Step, At
<1>5. CASE BspLookForMissing(c)
  <2>1. CASE counter \in 0 .. NumberOfCpus - 1
    BY <1>a, <1>5, <2>1, ArrivalMove
       DEF BspLookForMissing, StartLoop, ArrivalDone, Step, At, Goto, syncVars, electVars,
           modeVars, mtrrVars, platVars, dataVars, taskVars, hwVars, entryVars, bspVars,
           stackVars, memory, notSync, notStack, notData, TypeOK, PcType, CpuDataType, StackType,
           BspDropSync, ArrivalLabels
  <2>2. CASE counter \notin 0 .. NumberOfCpus - 1 /\ inWorker[c]
    BY <1>a, <1>5, <2>2, WorkerDone
       DEF BspLookForMissing, StartLoop, ArrivalDone, Step, At, Goto, syncVars, electVars,
           modeVars, mtrrVars, platVars, dataVars, taskVars, hwVars, entryVars, bspVars,
           stackVars, memory, notSync, notStack, notData, TypeOK, PcType, CpuDataType, StackType,
           BspDropSync, ArrivalDone
  <2>3. CASE counter \notin 0 .. NumberOfCpus - 1 /\ ~inWorker[c]
    BY <1>a, <1>5, <2>3, GatheringDone
       DEF BspLookForMissing, StartLoop, ArrivalDone, Step, At, Goto, syncVars, electVars,
           modeVars, mtrrVars, platVars, dataVars, taskVars, hwVars, entryVars, bspVars,
           stackVars, memory, notSync, notStack, notData, TypeOK, PcType, CpuDataType, StackType,
           BspDropSync, ArrivalDone
  <2> QED
    BY <1>5, <2>1, <2>2, <2>3 DEF BspLookForMissing, StartLoop, ArrivalDone, Step, At
<1>6. CASE BspSendSmiIpis(c)
  BY <1>a, <1>6, ArrivalMove
     DEF BspSendSmiIpis, Loop, Step, At, Goto, syncVars, electVars, modeVars, mtrrVars, platVars,
         dataVars, taskVars, hwVars, entryVars, bspVars, stackVars, memory, notSync, notStack,
         notData, TypeOK, PcType, CpuDataType, StackType, BspDropSync, ArrivalLabels
<1>7. CASE BspRaiseSync(c)
  BY <1>a, <1>7, RaiseSync
     DEF BspRaiseSync, Step, At, Goto, syncVars, electVars, modeVars, mtrrVars, platVars,
         dataVars, taskVars, hwVars, entryVars, bspVars, stackVars, memory, notSync, notStack,
         notData, TypeOK, PcType, CpuDataType, StackType, BspDropSync
<1>8. CASE BspLockCounter(c)
  <2>1. CASE Gathers(c)
    BY <1>a, <1>8, <2>1, LockGathered
       DEF BspLockCounter, WaitForAllAPs, Step, At, Goto, syncVars, electVars, modeVars,
           mtrrVars, platVars, dataVars, taskVars, hwVars, entryVars, bspVars, stackVars, memory,
           notSync, notStack, notData, TypeOK, PcType, CpuDataType, StackType, BspDropSync
  <2>2. CASE ~Gathers(c)
    BY <1>a, <1>8, <2>2, LockRelaxed
       DEF BspLockCounter, WaitForAllAPs, Step, At, Goto, syncVars, electVars, modeVars,
           mtrrVars, platVars, dataVars, taskVars, hwVars, entryVars, bspVars, stackVars, memory,
           notSync, notStack, notData, TypeOK, PcType, CpuDataType, StackType, BspDropSync
  <2> QED
    BY <1>8, <2>1, <2>2 DEF BspLockCounter, WaitForAllAPs, Step, At
<1>9. CASE BspWaitForAp(c)
  BY <1>a, <1>9, ReceiveStep
     DEF BspWaitForAp, WaitLabels, Step, At, Goto, syncVars, electVars, modeVars, mtrrVars,
         platVars, dataVars, taskVars, hwVars, entryVars, bspVars, stackVars, memory, notSync,
         notStack, notData, TypeOK, PcType, CpuDataType, StackType, BspDropSync
<1>10. CASE BspAllSignalled(c)
  <2>1. CASE pc[c] = "b_wait_arrive" /\ NeedConfigureMtrrs
    BY <1>a, <1>10, <2>1, ArrivedMtrrs
       DEF BspAllSignalled, StartLoop, Step, At, Goto, syncVars, electVars, modeVars, mtrrVars,
           platVars, dataVars, taskVars, hwVars, entryVars, bspVars, stackVars, memory, notSync,
           notStack, notData, TypeOK, PcType, CpuDataType, StackType, BspDropSync
  <2>2. CASE pc[c] = "b_wait_arrive" /\ ~NeedConfigureMtrrs
    BY <1>a, <1>10, <2>2, Arrived
       DEF BspAllSignalled, StartLoop, Step, At, Goto, syncVars, electVars, modeVars, mtrrVars,
           platVars, dataVars, taskVars, hwVars, entryVars, bspVars, stackVars, memory, notSync,
           notStack, notData, TypeOK, PcType, CpuDataType, StackType, BspDropSync
  <2>3. CASE pc[c] = "b_wait_backup"
    BY <1>a, <1>10, <2>3, BackedUp
       DEF BspAllSignalled, StartLoop, Step, At, Goto, syncVars, electVars, modeVars, mtrrVars,
           platVars, dataVars, taskVars, hwVars, entryVars, bspVars, stackVars, memory, notSync,
           notStack, notData, TypeOK, PcType, CpuDataType, StackType, BspDropSync
  <2>4. CASE pc[c] = "b_wait_program"
    BY <1>a, <1>10, <2>4, Programmed
       DEF BspAllSignalled, StartLoop, Step, At, Goto, syncVars, electVars, modeVars, mtrrVars,
           platVars, dataVars, taskVars, hwVars, entryVars, bspVars, stackVars, memory, notSync,
           notStack, notData, TypeOK, PcType, CpuDataType, StackType, BspDropSync
  <2>5. CASE pc[c] = "b_wait_exit" /\ NeedConfigureMtrrs
    BY <1>a, <1>10, <2>5, ExitedMtrrs
       DEF BspAllSignalled, StartLoop, Step, At, Goto, syncVars, electVars, modeVars, mtrrVars,
           platVars, dataVars, taskVars, hwVars, entryVars, bspVars, stackVars, memory, notSync,
           notStack, notData, TypeOK, PcType, CpuDataType, StackType, BspDropSync
  <2>6. CASE pc[c] = "b_wait_exit" /\ ~NeedConfigureMtrrs
    BY <1>a, <1>10, <2>6, Exited
       DEF BspAllSignalled, StartLoop, Step, At, Goto, syncVars, electVars, modeVars, mtrrVars,
           platVars, dataVars, taskVars, hwVars, entryVars, bspVars, stackVars, memory, notSync,
           notStack, notData, TypeOK, PcType, CpuDataType, StackType, BspDropSync
  <2>7. CASE pc[c] = "b_wait_restore"
    BY <1>a, <1>10, <2>7, Restored
       DEF BspAllSignalled, StartLoop, Step, At, Goto, syncVars, electVars, modeVars, mtrrVars,
           platVars, dataVars, taskVars, hwVars, entryVars, bspVars, stackVars, memory, notSync,
           notStack, notData, TypeOK, PcType, CpuDataType, StackType, BspDropSync
  <2>8. CASE pc[c] = "b_wait_reset"
    BY <1>a, <1>10, <2>8, ResetDone
       DEF BspAllSignalled, StartLoop, Step, At, Goto, syncVars, electVars, modeVars, mtrrVars,
           platVars, dataVars, taskVars, hwVars, entryVars, bspVars, stackVars, memory, notSync,
           notStack, notData, TypeOK, PcType, CpuDataType, StackType, BspDropSync
  <2> QED
    BY <1>10, <2>1, <2>2, <2>3, <2>4, <2>5, <2>6, <2>7, <2>8
       DEF BspAllSignalled, StartLoop, Step, At
<1>11. CASE BspReleaseAp(c)
  <2>1. PICK i \in Cpu :
          /\ index[c] = i + 1 /\ index' = [index EXCEPT ![c] = i]
          /\ IF Releases(i) THEN Up(i) ELSE UNCHANGED run
          /\ \/ i # 0 /\ pc[c] \in RelLabels /\ pc'[c] = pc[c]
             \/ i = 0 /\ \/ pc[c] = "b_rel_backup" /\ pc'[c] = "b_backup"
                         \/ pc[c] = "b_rel_program" /\ pc'[c] = "b_program"
                         \/ pc[c] = "b_rel_exit" /\ pc'[c] = "b_wait_exit"
                         \/ pc[c] = "b_rel_restore" /\ pc'[c] = "b_restore"
                         \/ pc[c] = "b_rel_reset" /\ pc'[c] = "b_update"
    BY <1>11 DEF BspReleaseAp, Loop, At, Goto, TypeOK, PcType, RelLabels
  <2>2. pc'[c] = "b_wait_exit" => left'[c] = apCount[c]
    BY <1>11 DEF BspReleaseAp, WaitForAllAPs, TypeOK, StackType
  <2>3. UNCHANGED <<counter, insideSmm, bspIndex, present, busy, syncMode, effectiveSyncMode,
                    bsp, apCount, inWorker>>
    BY <1>11
       DEF BspReleaseAp, syncVars, electVars, modeVars, mtrrVars, platVars, dataVars, taskVars,
           hwVars, entryVars, bspVars, stackVars, memory, notSync, notStack, notData
  <2>4. Leads(c)
    BY <1>a, <1>11 DEF BspReleaseAp, Loop, BspDropSync, Step, At
  <2> QED
    BY <2>1, <2>2, <2>3, <2>4, ReleaseApStep
<1>12. CASE BspMtrrs(c)
  <2>1. CASE pc[c] = "b_backup"
    BY <1>a, <1>12, <2>1, BackupBsp
       DEF BspMtrrs, WaitForAllAPs, Step, At, Goto, syncVars, electVars, modeVars, mtrrVars,
           platVars, dataVars, taskVars, hwVars, entryVars, bspVars, stackVars, memory, notSync,
           notStack, notData, TypeOK, PcType, CpuDataType, StackType, BspDropSync
  <2>2. CASE pc[c] = "b_program"
    BY <1>a, <1>12, <2>2, ProgramBsp
       DEF BspMtrrs, WaitForAllAPs, Step, At, Goto, syncVars, electVars, modeVars, mtrrVars,
           platVars, dataVars, taskVars, hwVars, entryVars, bspVars, stackVars, memory, notSync,
           notStack, notData, TypeOK, PcType, CpuDataType, StackType, BspDropSync
  <2>3. CASE pc[c] = "b_restore"
    BY <1>a, <1>12, <2>3, RestoreBsp
       DEF BspMtrrs, WaitForAllAPs, Step, At, Goto, syncVars, electVars, modeVars, mtrrVars,
           platVars, dataVars, taskVars, hwVars, entryVars, bspVars, stackVars, memory, notSync,
           notStack, notData, TypeOK, PcType, CpuDataType, StackType, BspDropSync
  <2> QED
    BY <1>12, <2>1, <2>2, <2>3 DEF BspMtrrs, WaitForAllAPs, Step, At
<1>13. CASE BspAcquireOwnBusy(c)
  BY <1>a, <1>13, BusyBsp
     DEF BspAcquireOwnBusy, Step, At, Goto, syncVars, electVars, modeVars, mtrrVars, platVars,
         dataVars, taskVars, hwVars, entryVars, bspVars, stackVars, memory, notSync, notStack,
         notData, TypeOK, PcType, CpuDataType, StackType, BspDropSync
<1>14. CASE SmmCoreReturns(c)
  BY <1>a, <1>14, CoreReturns
     DEF SmmCoreReturns, StartLoop, Step, At, Goto, syncVars, electVars, modeVars, mtrrVars,
         platVars, dataVars, taskVars, hwVars, entryVars, bspVars, stackVars, memory, notSync,
         notStack, notData, TypeOK, PcType, CpuDataType, StackType, BspDropSync
<1>15. CASE ScheduleProcedure(c)
  <2>1. CASE pc[c] = "b_start_block"
    BY <1>a, <1>15, <2>1, ScheduleBlocking
       DEF ScheduleProcedure, Step, At, Goto, syncVars, electVars, modeVars, mtrrVars, platVars,
           dataVars, taskVars, hwVars, entryVars, bspVars, stackVars, memory, notSync, notStack,
           notData, TypeOK, PcType, CpuDataType, StackType, BspDropSync
  <2>2. CASE pc[c] = "b_start"
    BY <1>a, <1>15, <2>2, ScheduleCall
       DEF ScheduleProcedure, Step, At, Goto, syncVars, electVars, modeVars, mtrrVars, platVars,
           dataVars, taskVars, hwVars, entryVars, bspVars, stackVars, memory, notSync, notStack,
           notData, TypeOK, PcType, CpuDataType, StackType, BspDropSync
  <2> QED
    BY <1>15, <2>1, <2>2 DEF ScheduleProcedure, Step, At
<1>16. CASE ProcedureReturned(c)
  BY <1>a, <1>16, CallReturns
     DEF ProcedureReturned, Step, At, Goto, syncVars, electVars, modeVars, mtrrVars, platVars,
         dataVars, taskVars, hwVars, entryVars, bspVars, stackVars, memory, notSync, notStack,
         notData, TypeOK, PcType, CpuDataType, StackType, BspDropSync
<1>17. CASE BspDrain(c)
  <2>1. PICK i \in Cpu :
          /\ pc[c] = "b_drain" /\ index[c] = i + 1 /\ index' = [index EXCEPT ![c] = i]
          /\ i # c /\ present[i] => ~busy[i]
          /\ pc'[c] = IF i = 0 THEN IF Gathers(c) THEN "b_outside" ELSE "b_sync" ELSE "b_drain"
    BY <1>17 DEF BspDrain, Loop, At, Goto, TaskDone, TypeOK, PcType
  <2>2. UNCHANGED <<counter, insideSmm, bspIndex, run, present, busy, syncMode,
                    effectiveSyncMode, bsp, apCount, left, inWorker>>
    BY <1>17
       DEF BspDrain, syncVars, electVars, modeVars, mtrrVars, platVars, dataVars, taskVars,
           hwVars, entryVars, bspVars, stackVars, memory, notSync, notStack, notData
  <2>3. Leads(c)
    BY <1>a, <2>1 DEF BspDropSync, Step, At
  <2>4. CASE i # 0
    BY <2>1, <2>2, <2>3, <2>4, DrainStep
  <2>5. CASE i = 0 /\ Gathers(c)
    BY <2>1, <2>2, <2>3, <2>5, DrainedGathered
  <2>6. CASE i = 0 /\ ~Gathers(c)
    BY <2>1, <2>2, <2>3, <2>6, DrainedRelaxed
  <2> QED
    BY <2>4, <2>5, <2>6
<1>18. CASE BspAllPresent(c)
  BY <1>a, <1>18, AllPresentStep
     DEF BspAllPresent, Step, At, Goto, syncVars, electVars, modeVars, mtrrVars, platVars,
         dataVars, taskVars, hwVars, entryVars, bspVars, stackVars, memory, notSync, notStack,
         notData, TypeOK, PcType, CpuDataType, StackType, BspDropSync, NobodyMissing
<1>19. CASE BspFlagOutside(c)
  BY <1>a, <1>19, FlagOutside
     DEF BspFlagOutside, StartLoop, Step, At, Goto, syncVars, electVars, modeVars, mtrrVars,
         platVars, dataVars, taskVars, hwVars, entryVars, bspVars, stackVars, memory, notSync,
         notStack, notData, TypeOK, PcType, CpuDataType, StackType, BspDropSync
<1>20. CASE BspSetEffectiveMode(c)
  <2>1. CASE NeedConfigureMtrrs
    BY <1>a, <1>20, <2>1, SetModeMtrrs
       DEF BspSetEffectiveMode, StartLoop, Step, At, Goto, syncVars, electVars, modeVars,
           mtrrVars, platVars, dataVars, taskVars, hwVars, entryVars, bspVars, stackVars, memory,
           notSync, notStack, notData, TypeOK, PcType, CpuDataType, StackType, BspDropSync
  <2>2. CASE ~NeedConfigureMtrrs
    BY <1>a, <1>20, <2>2, SetMode
       DEF BspSetEffectiveMode, StartLoop, Step, At, Goto, syncVars, electVars, modeVars,
           mtrrVars, platVars, dataVars, taskVars, hwVars, entryVars, bspVars, stackVars, memory,
           notSync, notStack, notData, TypeOK, PcType, CpuDataType, StackType, BspDropSync
  <2> QED
    BY <1>20, <2>1, <2>2 DEF BspSetEffectiveMode, StartLoop, Step, At
<1>21. CASE SmmCpuUpdate(c)
  BY <1>a, <1>21, Update
     DEF SmmCpuUpdate, Step, At, Goto, syncVars, electVars, modeVars, mtrrVars, platVars,
         dataVars, taskVars, hwVars, entryVars, bspVars, stackVars, memory, notSync, notStack,
         notData, TypeOK, PcType, CpuDataType, StackType, BspDropSync
<1>22. CASE BspAbsent(c)
  BY <1>a, <1>22, AbsentBsp
     DEF BspAbsent, WaitForAllAPs, Step, At, Goto, syncVars, electVars, modeVars, mtrrVars,
         platVars, dataVars, taskVars, hwVars, entryVars, bspVars, stackVars, memory, notSync,
         notStack, notData, TypeOK, PcType, CpuDataType, StackType, BspDropSync
<1>23. CASE BspResign(c)
  BY <1>a, <1>23, ResignStep
     DEF BspResign, Step, At, Goto, syncVars, electVars, modeVars, mtrrVars, platVars, dataVars,
         taskVars, hwVars, entryVars, bspVars, stackVars, memory, notSync, notStack, notData,
         TypeOK, PcType, CpuDataType, StackType, BspDropSync
<1>24. CASE BspOpenCounter(c)
  BY <1>a, <1>24, OpenStep
     DEF BspOpenCounter, Step, At, Goto, syncVars, electVars, modeVars, mtrrVars, platVars,
         dataVars, taskVars, hwVars, entryVars, bspVars, stackVars, memory, notSync, notStack,
         notData, TypeOK, PcType, CpuDataType, StackType, BspDropSync
<1>25. CASE BspDropSync(c)
  BY AsideSteps, <1>25, OutsideStep
     DEF BspDropSync, Step, At, Goto, syncVars, electVars, modeVars, mtrrVars, platVars,
         dataVars, taskVars, hwVars, entryVars, bspVars, stackVars, memory, notSync, notStack,
         notData, TypeOK, PcType, CpuDataType, StackType, BecomeBsp, CountedLabels,
         JoiningLabels, ApLabels, BspLabels, BspGatherLabels, BspCoreLabels, BspExitLabels,
         BspResetLabels
<1> QED
  BY <1>1, <1>2, <1>3, <1>4, <1>5, <1>6, <1>7, <1>8, <1>9, <1>10, <1>11, <1>12, <1>13, <1>14,
     <1>15, <1>16, <1>17, <1>18, <1>19, <1>20, <1>21, <1>22, <1>23, <1>24, <1>25
     DEF BSPHandler

\* A step that leaves the run's state alone keeps the invariant.
LEMMA SameRun ==
  ASSUME RunInv, UNCHANGED <<pc, counter, insideSmm, bspIndex, run, present, busy, syncMode,
                             effectiveSyncMode, bsp, index, apCount, left, inWorker>>
  PROVE  RunInv'
<1>1. \A b \in Cpu : SameStack(b)
  BY DEF SameStack
<1>2. \A b \in Cpu : Expected(b)' = Expected(b)
  BY DEF Expected, LockedBsp, Gathers, In
<1>3. ArriveInv' /\ BackupInv' /\ ProgramInv' /\ ServeInv' /\ ExitInv' /\ RestoreInv'
      /\ ResetInv' /\ LeaveInv'
  BY <1>1, <1>2, StagesStay
     DEF RunInv, ArriveInv, BackupInv, ProgramInv, ServeInv, ExitInv, RestoreInv, ResetInv,
         LeaveInv, Account, In
<1>4. StageInv' /\ InsideInv' /\ PointerInv' /\ CounterInv' /\ ModeInv' /\ ModesAgree'
      /\ PresentInv' /\ IdleInv' /\ BusyInv'
  BY DEF RunInv, StageInv, InsideInv, PointerInv, CounterInv, ModeInv, ModesAgree, PresentInv,
         IdleInv, BusyInv, In, Gathers
<1>5. LockInv' /\ CountInv' /\ NoJoiners'
  BY <1>1, StagesStay DEF RunInv, LockInv, CountInv, NoJoiners, In
<1>6. TokenInv' /\ TaskInv'
  BY <1>1, StagesStay DEF RunInv, TokenInv, TaskInv, In, Woken, Waits, Past, Starting, Signalled
<1> QED
  BY <1>3, <1>4, <1>5, <1>6 DEF RunInv

\* Everything an SMI handler may call keeps the invariant.
LEMMA SmiHandlersKeepRun ==
  ASSUME ~GiveUpRace, TypeOK, OneBsp, RunInv, NEW c \in Cpu, SmiHandlers(c)
  PROVE  RunInv'
<1>1. ASSUME NEW i \in Cpu, SmmStartupThisAp(c, i) PROVE RunInv'
  <2>1. Leads(c)
    BY <1>1
       DEF Leads, OnlyMoves, SameStack, SmmStartupThisAp, Call, Step, At, Goto, syncVars,
           electVars, modeVars, mtrrVars, platVars, dataVars, taskVars, hwVars, entryVars,
           bspVars, stackVars, memory, notSync, notStack, notData, TypeOK, PcType, StackType,
           CountedLabels, JoiningLabels, ApLabels, BspLabels, BspGatherLabels, BspCoreLabels,
           BspExitLabels, BspResetLabels
  <2> QED
    BY <1>1, <2>1, StartCall
       DEF SmmStartupThisAp, Call, MayStart, Step, At, Goto, syncVars, electVars, modeVars,
           mtrrVars, platVars, dataVars, taskVars, hwVars, entryVars, bspVars, stackVars, memory,
           notSync, notStack, notData, TypeOK, PcType
<1>2. CASE SmmCpuSyncCheckApArrival(c)
  <2>1. Leads(c)
    BY <1>2
       DEF Leads, OnlyMoves, SameStack, SmmCpuSyncCheckApArrival, Call, Step, At, Goto, syncVars,
           electVars, modeVars, mtrrVars, platVars, dataVars, taskVars, hwVars, entryVars,
           bspVars, stackVars, memory, notSync, notStack, notData, TypeOK, PcType, StackType,
           CountedLabels, JoiningLabels, ApLabels, BspLabels, BspGatherLabels, BspCoreLabels,
           BspExitLabels, BspResetLabels
  <2> QED
    BY <1>2, <2>1, CallArrival
       DEF SmmCpuSyncCheckApArrival, Call, Step, At, Goto, syncVars, electVars, modeVars,
           mtrrVars, platVars, dataVars, taskVars, hwVars, entryVars, bspVars, stackVars, memory,
           notSync, notStack, notData, TypeOK, PcType
<1>3. ASSUME NEW i \in Cpu, SmmSwitchBsp(c, i) \/ SmmCpuSync2SendSmi(c, i) PROVE RunInv'
  BY <1>3, SameRun
     DEF SmmSwitchBsp, SmmCpuSync2SendSmi, syncVars, electVars, modeVars, mtrrVars, platVars,
         dataVars, taskVars, hwVars, entryVars, bspVars, stackVars, memory, notSync, notStack,
         notData
<1>4. CASE SmmCpuSync2SendSmiAllExcludingSelf(c) \/ \E mode \in SyncModes : SmmSyncSetMode(c,
      mode)
  BY <1>4, SameRun
     DEF SmmSyncSetMode, SmmCpuSync2SendSmiAllExcludingSelf, syncVars, electVars, modeVars,
         mtrrVars, platVars, dataVars, taskVars, hwVars, entryVars, bspVars, stackVars, memory,
         notSync, notStack, notData
<1> QED
  BY <1>1, <1>2, <1>3, <1>4 DEF SmiHandlers

\* So does everything outside SMM.
LEMMA HardwareKeepsRun ==
  ASSUME ~GiveUpRace, TypeOK, OneBsp, RunInv, RaiseSmi \/ Idle \/ UNCHANGED vars
         \/ \E c \in Cpu : EnterSmi(c)
  PROVE  RunInv'
<1>1. CASE RaiseSmi \/ Idle \/ UNCHANGED vars
  BY <1>1, SameRun
     DEF RaiseSmi, Idle, vars, syncVars, electVars, modeVars, mtrrVars, platVars, dataVars,
         taskVars, hwVars, entryVars, bspVars, stackVars, memory, notSync, notStack, notData
<1>2. ASSUME NEW c \in Cpu, EnterSmi(c) PROVE RunInv'
  <2>1. Aside(c)
    BY <1>2
       DEF Aside, OnlyMoves, SameStack, EnterSmi, Step, At, Goto, syncVars, electVars, modeVars,
           mtrrVars, platVars, dataVars, taskVars, hwVars, entryVars, bspVars, stackVars, memory,
           notSync, notStack, notData, TypeOK, PcType, StackType, CountedLabels, JoiningLabels,
           ApLabels, BspLabels, BspGatherLabels, BspCoreLabels, BspExitLabels, BspResetLabels
  <2> QED
    BY <1>2, <2>1, OutsideStep
       DEF EnterSmi, Step, At, Goto, syncVars, electVars, modeVars, mtrrVars, platVars, dataVars,
           taskVars, hwVars, entryVars, bspVars, stackVars, memory, notSync, notStack, notData,
           TypeOK, PcType, CountedLabels, JoiningLabels, ApLabels, BspLabels, BspGatherLabels,
           BspCoreLabels, BspExitLabels, BspResetLabels
<1> QED
  BY <1>1, <1>2

\* The invariant holds when the machine starts.
LEMMA InitRun == Init => RunInv
<1> SUFFICES ASSUME Init PROVE RunInv
  OBVIOUS
<1>1. \A c \in Cpu : pc[c] = "os" /\ run[c] = 0 /\ ~inWorker[c] /\ ~present[c]
  BY DEF Init
<1>2. \A c \in Cpu : ~In(c, CountedLabels) /\ ~In(c, BspLabels) /\ ~In(c, ApLabels) /\ ~In(c,
      JoiningLabels)
                     /\ ~In(c, InsideLabels) /\ ~In(c, ModeKnownLabels) /\ ~In(c, PresentLabels)
  BY <1>1
     DEF In, CountedLabels, InsideLabels, ModeKnownLabels, PresentLabels, CountedLabels,
         JoiningLabels, ApLabels, BspLabels, BspGatherLabels, BspCoreLabels, BspExitLabels,
         BspResetLabels
<1>3. StageInv
  BY <1>1 DEF StageInv, In, ArrivalLabels, MtrrLabels
<1>4. \A b \in Cpu : /\ ~Arriving(b) /\ ~BackingUp(b) /\ ~Programming(b) /\ ~Serving(b)
      /\ ~Exiting(b)
                     /\ ~Restoring(b) /\ ~Resetting(b) /\ ~Leaving(b) /\ ~LockedBsp(b)
                        /\ ~Closed(b)
  BY <1>2, <1>3, StagesAreBsp
<1>5. ArriveInv /\ BackupInv /\ ProgramInv /\ ServeInv /\ ExitInv /\ RestoreInv /\ ResetInv
      /\ LeaveInv
  BY <1>4
     DEF ArriveInv, BackupInv, ProgramInv, ServeInv, ExitInv, RestoreInv, ResetInv, LeaveInv
<1>6. InsideInv /\ PointerInv /\ ModeInv /\ ModesAgree /\ PresentInv
  BY <1>1, <1>2 DEF Init, InsideInv, PointerInv, ModeInv, ModesAgree, PresentInv
<1>7. CounterInv
  <2>1. Number(pc, CountedLabels) = 0
    BY <1>2, NumberOfNone DEF In
  <2> QED
    BY <2>1 DEF Init, CounterInv
<1>8. LockInv /\ CountInv /\ NoJoiners
  BY <1>4 DEF Init, LockInv, CountInv, NoJoiners, Locked
<1>9. IdleInv
  BY <1>1 DEF Init, IdleInv
<1>10. TokenInv
  BY <1>2 DEF TokenInv
<1>12. BusyInv
  BY <1>1, <1>2 DEF BusyInv, In, JoiningLabels
<1>11. TaskInv
  BY <1>1, <1>2 DEF TaskInv, Starting, In
<1> QED
  BY <1>3, <1>5, <1>6, <1>7, <1>8, <1>9, <1>10, <1>11, <1>12 DEF RunInv

\* Every state of every run satisfies the invariant: the signals the BSP
\* expects are those waiting in its Run and those the APs still owe.
THEOREM RunInvariant ==
  ASSUME ~GiveUpRace
  PROVE  Spec => []RunInv
<1>1. ASSUME TypeOK, OneBsp, RunInv, [Next]_vars PROVE RunInv'
  BY <1>1, SmiRendezvousKeepsRun, APHandlerKeepsRun, BSPHandlerKeepsRun, SmiHandlersKeepRun,
     HardwareKeepsRun
     DEF Next
<1> QED
  BY <1>1, InitRun, TypeCorrect, OneBspHolds, PTL DEF Spec
=============================================================================
