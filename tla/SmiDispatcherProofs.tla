------------------------ MODULE SmiDispatcherProofs ------------------------
(***************************************************************************)
(* Proofs about the PCH SMI dispatcher, for any set of records and any      *)
(* dispatch contexts, with clients that keep to MayRegister and             *)
(* MayUnRegister: the linked list stays a list while callbacks change it    *)
(* (ListInvariant), only registered children are called                     *)
(* (CallsOnlyRegistered), SMM is left with EOS set (ReturnsWithEos), and    *)
(* no timer child is called before its period is over (PeriodKept).        *)
(*                                                                         *)
(* The list has a doubly linked shape that each link operation keeps; that  *)
(* it has no cycle besides the one through the head is stated by numbering  *)
(* its entries.                                                             *)
(***************************************************************************)
EXTENDS SmiDispatcher, TLAPS

\* The life of a record, and where the dispatcher can be.
States == {"new", "in", "refused", "out"}
DispatcherPlaces == {"idle", "entered", "return", "loop", "scan", "exhaust", "call", "eos"}

\* The entries of the list: its head and the records that are registered.
Members == {r \in Records : In(r)} \cup {Head}

\* Types of the list.
LinkType ==
  /\ fwd \in [Links -> Links] /\ bck \in [Links -> Links]
  /\ state \in [Records -> States]

\* ForwardLink and BackLink lead from one entry to another and back.
LinkInv ==
  \A l \in Members : /\ fwd[l] \in Members /\ bck[l] \in Members
                     /\ bck[fwd[l]] = l /\ fwd[bck[l]] = l

\* A walk along ForwardLink meets every entry once before it is back at the head:
\* the entries are numbered in the order of the list.
Numbered(rank, n) ==
  /\ \A r \in Members \ {Head} :
       /\ rank[r] < n /\ (fwd[r] # Head => rank[r] < rank[fwd[r]])
       /\ fwd[Head] # Head /\ rank[fwd[Head]] <= rank[r]
  /\ \A r, q \in Members \ {Head} :
       /\ rank[r] = rank[q] => r = q
       /\ rank[r] < rank[q] => fwd[r] # Head /\ rank[fwd[r]] <= rank[q]
\* There is such a numbering.
OrderInv == \E rank \in [Records -> Nat], n \in Nat : Numbered(rank, n)

\* A source that has children keeps one but for the timers, and the software
\* SMI child comes first.
SwInv == Members # {Head} => \E q \in Records : In(q) /\ SrcDesc(q) = "sw"

\* Where the dispatcher is in the list, although its callbacks change it.
WalkInv ==
  /\ pc \in DispatcherPlaces
  /\ pc \notin {"idle", "entered", "return"} => Members # {Head}
  /\ pc = "scan" => linkInDb \in Members \ {Head}
  /\ pc \in {"exhaust", "call", "eos"} => linkInDb \in Records
  /\ pc \in {"exhaust", "call"} => linkToExhaust \in Members
  /\ pc = "call" => recordToExhaust # linkToExhaust /\ recordToExhaust \in Records

\* The inductive invariant of the list.
ListInv == LinkType /\ LinkInv /\ OrderInv /\ SwInv /\ WalkInv

\* The assumption in the form in which the proofs use it.
LEMMA HeadIsNoRecord ==
  Head \notin Records /\ Head \in Links /\ Records \subseteq Links
BY DispatcherAssumption DEF Links

\* An entry of a list without cycles is not its own successor.
LEMMA NextIsAnother ==
  ASSUME LinkType, LinkInv, OrderInv, NEW r \in Members \ {Head}
  PROVE  fwd[r] # r
<1>1. PICK rank \in [Records -> Nat], n \in Nat : Numbered(rank, n)
  BY DEF OrderInv
<1>2. r \in Records /\ rank[r] \in Nat
  BY <1>1 DEF Members
<1> QED BY <1>1, <1>2, HeadIsNoRecord DEF Members, Numbered

\* InsertTailList: the new entry is numbered last.
LEMMA InsertNumbers ==
  ASSUME LinkType, LinkInv, NEW rank \in [Records -> Nat], NEW n \in Nat, Numbered(rank, n),
         NEW r \in Records, state[r] = "new",
         state' = [state EXCEPT ![r] = "in"], InsertTailList(r)
  PROVE  Numbered([rank EXCEPT ![r] = n], n + 1)'
<1>0. r # Head /\ r \notin Members /\ Members \subseteq Links /\ Head \in Members /\ r \in Links
  BY HeadIsNoRecord DEF Members, In, LinkType, Links
<1>1. Members' = Members \cup {r}
  BY DEF Members, In, LinkType
<1> DEFINE last == bck[Head]
<1>3. last \in Members /\ fwd[last] = Head
  BY <1>0 DEF LinkInv
<1>4. /\ fwd'[last] = r /\ fwd'[r] = Head /\ \A l \in Members \ {last} : fwd'[l] = fwd[l]
      /\ bck'[Head] = r /\ bck'[r] = last /\ \A l \in Members \ {Head} : bck'[l] = bck[l]
  BY <1>0, <1>3 DEF InsertTailList, LinkType
<1>5. PICK new \in [Records -> Nat] : new = [rank EXCEPT ![r] = n]
  OBVIOUS
<1>6. new[r] = n /\ \A q \in Members \ {Head} : new[q] = rank[q] /\ q \in Records
  BY <1>0, <1>5 DEF Members
<1>7. \A q \in Members \ {Head} : rank[q] \in Nat /\ rank[q] < n
  BY <1>6 DEF Numbered
<1>8. \A q \in Members \ {Head} :
        /\ new[q] < n + 1
        /\ fwd'[q] = IF q = last THEN r ELSE fwd[q]
        /\ q # last => fwd[q] \in Members \ {Head}
  BY <1>3, <1>4, <1>6, <1>7 DEF LinkInv
<1>9. fwd'[Head] = IF last = Head THEN r ELSE fwd[Head]
  BY <1>0, <1>4
<1>10. last = Head => Members = {Head}
  BY <1>0, <1>3 DEF Numbered
<1>11. last # Head => \A q \in Members \ {Head} : rank[q] <= rank[last]
  BY <1>3, <1>7 DEF Numbered
<1>12. /\ last # Head => fwd[Head] \in Members \ {Head}
      /\ \A q \in Members \ {Head} : fwd[Head] # Head /\ rank[fwd[Head]] <= rank[q]
  BY <1>0 DEF Numbered, LinkInv
<1>13. \A q \in Members' \ {Head} :
         /\ new[q] < n + 1 /\ (fwd'[q] # Head => new[q] < new[fwd'[q]])
         /\ fwd'[Head] # Head /\ new[fwd'[Head]] <= new[q]
  <2> SUFFICES ASSUME NEW q \in Members' \ {Head}
               PROVE  /\ new[q] < n + 1 /\ (fwd'[q] # Head => new[q] < new[fwd'[q]])
                      /\ fwd'[Head] # Head /\ new[fwd'[Head]] <= new[q]
    OBVIOUS
  <2>1. new[q] < n + 1 /\ (fwd'[q] # Head => new[q] < new[fwd'[q]])
    BY <1>1, <1>4, <1>6, <1>7, <1>8 DEF Numbered
  <2>2. fwd'[Head] # Head /\ new[fwd'[Head]] <= new[q]
    BY <1>0, <1>1, <1>6, <1>7, <1>9, <1>10, <1>12
  <2> QED BY <2>1, <2>2
<1>14. \A p, q \in Members' \ {Head} :
         /\ new[p] = new[q] => p = q
         /\ new[p] < new[q] => fwd'[p] # Head /\ new[fwd'[p]] <= new[q]
  <2> SUFFICES ASSUME NEW p \in Members' \ {Head}, NEW q \in Members' \ {Head}
               PROVE  /\ new[p] = new[q] => p = q
                      /\ new[p] < new[q] => fwd'[p] # Head /\ new[fwd'[p]] <= new[q]
    OBVIOUS
  <2>1. CASE p = r
    BY <1>1, <1>6, <1>7, <2>1
  <2>2. CASE p # r /\ q = r
    BY <1>0, <1>1, <1>6, <1>7, <1>8, <2>2
  <2>3. CASE p # r /\ q # r
    BY <1>1, <1>6, <1>7, <1>8, <1>11, <2>3 DEF Numbered
  <2> QED BY <2>1, <2>2, <2>3
<1>15. Numbered(new, n + 1)'
  BY <1>13, <1>14 DEF Numbered
<1> QED BY <1>5, <1>15

\* InsertTailList.
LEMMA InsertKeepsList ==
  ASSUME LinkType, LinkInv, OrderInv, NEW r \in Records, state[r] = "new",
         state' = [state EXCEPT ![r] = "in"], InsertTailList(r)
  PROVE  LinkType' /\ LinkInv' /\ OrderInv' /\ Members' = Members \cup {r}
<1>0. r # Head /\ r \notin Members /\ Members \subseteq Links /\ Head \in Members /\ r \in Links
  BY HeadIsNoRecord DEF Members, In, LinkType, Links
<1>1. Members' = Members \cup {r}
  BY DEF Members, In, LinkType
<1>2. LinkType'
  BY <1>0, HeadIsNoRecord DEF InsertTailList, LinkType, States
<1> DEFINE last == bck[Head]
<1>3. last \in Members /\ fwd[last] = Head
  BY <1>0 DEF LinkInv
<1>4. /\ fwd'[last] = r /\ fwd'[r] = Head /\ \A l \in Members \ {last} : fwd'[l] = fwd[l]
      /\ bck'[Head] = r /\ bck'[r] = last /\ \A l \in Members \ {Head} : bck'[l] = bck[l]
  BY <1>0, <1>3 DEF InsertTailList, LinkType
<1>5. LinkInv'
  BY <1>0, <1>1, <1>3, <1>4 DEF LinkInv
<1>6. OrderInv'
  <2>1. PICK rank \in [Records -> Nat], n \in Nat : Numbered(rank, n)
    BY DEF OrderInv
  <2>2. Numbered([rank EXCEPT ![r] = n], n + 1)'
    BY <2>1, InsertNumbers
  <2>3. [rank EXCEPT ![r] = n] \in [Records -> Nat] /\ n + 1 \in Nat
    OBVIOUS
  <2> QED BY <2>2, <2>3 DEF OrderInv
<1> QED BY <1>1, <1>2, <1>5, <1>6

\* RemoveEntryList: the other entries keep their numbers.
LEMMA RemoveNumbers ==
  ASSUME LinkType, LinkInv, OrderInv, NEW rank \in [Records -> Nat], NEW n \in Nat,
         Numbered(rank, n), NEW r \in Records, In(r),
         state' = [state EXCEPT ![r] = "out"], RemoveEntryList(r)
  PROVE  Numbered(rank, n)'
<1>0. r # Head /\ r \in Members /\ Members \subseteq Links /\ Head \in Members /\ r \in Links
  BY HeadIsNoRecord DEF Members, In, LinkType, Links
<1>1. Members' = Members \ {r}
  BY <1>0 DEF Members, In, LinkType
<1>2. fwd[r] # r
  BY <1>0, NextIsAnother
<1>3. /\ fwd[r] \in Members \ {r} /\ bck[r] \in Members \ {r}
      /\ bck[fwd[r]] = r /\ fwd[bck[r]] = r
  BY <1>0, <1>2 DEF LinkInv
<1>4. /\ fwd'[bck[r]] = fwd[r] /\ \A l \in Members \ {bck[r]} : fwd'[l] = fwd[l]
      /\ bck'[fwd[r]] = bck[r] /\ \A l \in Members \ {fwd[r]} : bck'[l] = bck[l]
  BY <1>0, <1>3 DEF RemoveEntryList, LinkType
<1>5. \A q \in Members \ {Head} : rank[q] \in Nat
  BY DEF Members
<1>6. \A q \in Members \ {Head, r} : rank[q] # rank[r]
  BY <1>0 DEF Numbered
<1>7. ASSUME NEW q \in Members' \ {Head}
      PROVE  /\ rank[q] < n /\ (fwd'[q] # Head => rank[q] < rank[fwd'[q]])
             /\ fwd'[Head] # Head /\ rank[fwd'[Head]] <= rank[q]
  BY <1>0, <1>1, <1>3, <1>4, <1>5, <1>6, <1>7 DEF Numbered, LinkInv
<1>8. ASSUME NEW p \in Members' \ {Head}, NEW q \in Members' \ {Head}
      PROVE  /\ rank[p] = rank[q] => p = q
             /\ rank[p] < rank[q] => fwd'[p] # Head /\ rank[fwd'[p]] <= rank[q]
  BY <1>0, <1>1, <1>3, <1>4, <1>5, <1>6, <1>8 DEF Numbered, LinkInv
<1> QED BY <1>7, <1>8 DEF Numbered

\* RemoveEntryList.
LEMMA RemoveKeepsList ==
  ASSUME LinkType, LinkInv, OrderInv, NEW r \in Records, In(r),
         state' = [state EXCEPT ![r] = "out"], RemoveEntryList(r)
  PROVE  LinkType' /\ LinkInv' /\ OrderInv' /\ Members' = Members \ {r}
<1>0. r # Head /\ r \in Members /\ Members \subseteq Links /\ Head \in Members /\ r \in Links
  BY HeadIsNoRecord DEF Members, In, LinkType, Links
<1>1. Members' = Members \ {r}
  BY <1>0 DEF Members, In, LinkType
<1>2. LinkType'
  BY <1>0, HeadIsNoRecord DEF RemoveEntryList, LinkType, States
<1>3. fwd[r] # r
  BY <1>0, NextIsAnother
<1>4. /\ fwd[r] \in Members \ {r} /\ bck[r] \in Members \ {r}
      /\ bck[fwd[r]] = r /\ fwd[bck[r]] = r
  BY <1>0, <1>3 DEF LinkInv
<1>5. /\ fwd'[bck[r]] = fwd[r] /\ \A l \in Members \ {bck[r]} : fwd'[l] = fwd[l]
      /\ bck'[fwd[r]] = bck[r] /\ \A l \in Members \ {fwd[r]} : bck'[l] = bck[l]
  BY <1>0, <1>4 DEF RemoveEntryList, LinkType
<1>6. LinkInv'
  BY <1>0, <1>1, <1>4, <1>5 DEF LinkInv
<1>7. OrderInv'
  <2>1. PICK rank \in [Records -> Nat], n \in Nat : Numbered(rank, n)
    BY DEF OrderInv
  <2> QED BY <2>1, RemoveNumbers DEF OrderInv
<1> QED BY <1>1, <1>2, <1>6, <1>7

\* A callback that is let in before the dispatcher, or from it, registers a child.
LEMMA RegisterKeepsList ==
  ASSUME CarefulClients, ListInv, NEW r \in Records, PchSmmCoreRegister(r)
  PROVE  ListInv'
<1>1. LinkType' /\ LinkInv' /\ OrderInv' /\ Members' = Members \cup {r}
  BY InsertKeepsList DEF ListInv, PchSmmCoreRegister
<1>2. SwInv'
  <2>1. state'[r] = "in" /\ \A q \in Records : In(q) => state'[q] = "in"
    BY DEF PchSmmCoreRegister, ListInv, LinkType, In
  <2> QED BY <2>1 DEF PchSmmCoreRegister, MayRegister, SwInv, In
<1>3. WalkInv'
  <2>1. Members' # {Head} /\ UNCHANGED <<pc, walk>>
    BY <1>1, HeadIsNoRecord DEF PchSmmCoreRegister
  <2> QED BY <1>1, <2>1 DEF ListInv, WalkInv, walk
<1> QED BY <1>1, <1>2, <1>3 DEF ListInv

\* A callback takes nobody out but itself.
LEMMA UnRegisterKeepsList ==
  ASSUME CarefulClients, ListInv, NEW r \in Records, PchSmmCoreUnRegister(r)
  PROVE  ListInv'
<1>1. LinkType' /\ LinkInv' /\ OrderInv' /\ Members' = Members \ {r}
  BY RemoveKeepsList DEF ListInv, PchSmmCoreUnRegister
<1>2. \E q \in Records \ {r} : In(q) /\ SrcDesc(q) = "sw"
  <2>1. PICK q \in Records : In(q) /\ SrcDesc(q) = "sw"
    BY HeadIsNoRecord DEF PchSmmCoreUnRegister, ListInv, SwInv, Members
  <2>2. CASE q = r
    BY <2>1, <2>2 DEF PchSmmCoreUnRegister, MayUnRegister, SiblingOf, Timers
  <2> QED BY <2>1, <2>2
<1>3. \A q \in Records \ {r} : In(q) => state'[q] = "in"
  BY DEF PchSmmCoreUnRegister, ListInv, LinkType, In
<1>4. SwInv' /\ Members' # {Head}
  BY <1>1, <1>2, <1>3, HeadIsNoRecord DEF SwInv, In, Members
<1>5. WalkInv'
  BY <1>1, <1>4 DEF PchSmmCoreUnRegister, Clients, MayUnRegister, ListInv, WalkInv, walk,
     DispatcherPlaces
<1> QED BY <1>1, <1>4, <1>5 DEF ListInv

\* What does not touch the list leaves it as it is.
LEMMA ListUntouched ==
  ASSUME LinkType, LinkInv, OrderInv, SwInv, UNCHANGED <<fwd, bck, state>>
  PROVE  LinkType' /\ LinkInv' /\ OrderInv' /\ SwInv' /\ Members' = Members
<1>1. LinkType' /\ Members' = Members /\ SwInv' /\ LinkInv'
  BY DEF LinkType, Members, In, SwInv, LinkInv
<1>2. OrderInv'
  BY <1>1 DEF OrderInv, Numbered
<1> QED BY <1>1, <1>2

\* A registration that is refused leaves no record in the list.
LEMMA RefusalKeepsList ==
  ASSUME ListInv, NEW r \in Records, RegistrationFails(r)
  PROVE  ListInv'
<1>1. Members' = Members /\ LinkType' /\ UNCHANGED <<fwd, bck, pc, walk>>
  BY DEF RegistrationFails, ListInv, LinkType, Members, In, States
<1>2. \A q \in Records : In(q) <=> In(q)'
  BY DEF RegistrationFails, ListInv, LinkType, In
<1>3. LinkInv' /\ OrderInv' /\ SwInv'
  BY <1>1, <1>2 DEF ListInv, LinkInv, OrderInv, Numbered, SwInv
<1>4. WalkInv'
  BY <1>1 DEF ListInv, WalkInv, walk
<1> QED BY <1>1, <1>3, <1>4 DEF ListInv

\* The dispatcher walks from entry to entry.
LEMMA DispatcherKeepsList ==
  ASSUME ListInv, Dispatcher
  PROVE  ListInv'
<1>1. UNCHANGED <<fwd, bck, state>>
  BY DEF Dispatcher, DispatcherEntry, Iterate, LoopEnds, ScanNext, ScanFinds, ExhaustCalls,
     ExhaustSkips, CallbackReturns, QueueExhausted, SourceHandled, Return, list
<1>2. LinkType' /\ LinkInv' /\ OrderInv' /\ SwInv' /\ Members' = Members
  BY <1>1, ListUntouched DEF ListInv
<1>3. fwd[Head] \in Members /\ \A l \in Members : fwd[l] \in Members
  BY DEF ListInv, LinkInv, Members
<1>4. Members # {Head} => fwd[Head] # Head
  BY DEF ListInv, OrderInv, Numbered, Members
<1>5. WalkInv'
  <2> USE DEF WalkInv, DispatcherPlaces
  <2>1. CASE DispatcherEntry
    <3>1. Members = {Head} => fwd[Head] = Head
      BY <1>3
    <3> QED BY <1>2, <2>1, <3>1 DEF ListInv, DispatcherEntry
  <2>2. CASE Iterate
    BY <1>2, <1>3, <1>4, <2>2 DEF ListInv, Iterate
  <2>3. CASE LoopEnds
    BY <1>2, <2>3 DEF ListInv, LoopEnds, walk
  <2>4. CASE ScanNext
    BY <1>2, <1>3, <2>4 DEF ListInv, ScanNext
  <2>5. CASE ScanFinds
    BY <1>2, <1>3, <2>5 DEF ListInv, ScanFinds, Members
  <2>6. CASE ExhaustCalls
    BY <1>2, <1>3, <2>6, NextIsAnother DEF ListInv, ExhaustCalls, Members, NextLink
  <2>7. CASE ExhaustSkips
    BY <1>2, <1>3, <2>7 DEF ListInv, ExhaustSkips, NextLink
  <2>8. CASE CallbackReturns
    BY <1>2, <2>8 DEF ListInv, CallbackReturns
  <2>9. CASE QueueExhausted
    BY <1>2, <2>9 DEF ListInv, QueueExhausted, walk
  <2>10. CASE SourceHandled
    BY <1>2, <2>10 DEF ListInv, SourceHandled
  <2>11. CASE Return
    BY <1>2, <2>11 DEF ListInv, Return
  <2> QED BY <2>1, <2>2, <2>3, <2>4, <2>5, <2>6, <2>7, <2>8, <2>9, <2>10, <2>11 DEF Dispatcher
<1> QED BY <1>2, <1>5 DEF ListInv

\* The chipset, the callers of SwSmi and Activate, and SMI entry do not touch the
\* list or the dispatcher's place in it.
LEMMA OutsideKeepsList ==
  ASSUME ListInv,
         Chipset \/ SmiEntry \/ Activate \/ (\E v \in 1 .. MaxSwi : SwSmi(v)) \/ UNCHANGED vars
  PROVE  ListInv'
<1>1. UNCHANGED <<fwd, bck, state, walk>> /\ (pc' = pc \/ (pc = "idle" /\ pc' = "entered"))
  BY DEF Chipset, RaiseSmi, UsbEvent, Tick, SmiEntry, Activate, SwSmi, vars, list
<1>2. LinkType' /\ LinkInv' /\ OrderInv' /\ SwInv' /\ Members' = Members
  BY <1>1, ListUntouched DEF ListInv
<1>3. WalkInv'
  BY <1>1, <1>2 DEF ListInv, WalkInv, walk, DispatcherPlaces
<1> QED BY <1>2, <1>3 DEF ListInv

\* The list is empty before the first registration.
LEMMA InitListInv == Init => ListInv
<1> SUFFICES ASSUME Init PROVE ListInv
  OBVIOUS
<1>1. Members = {Head} /\ fwd[Head] = Head /\ bck[Head] = Head
  BY HeadIsNoRecord DEF Init, Members, In
<1>2. LinkType /\ LinkInv /\ SwInv
  BY <1>1, HeadIsNoRecord DEF Init, LinkType, States, LinkInv, SwInv
<1>3. OrderInv
  <2>1. [r \in Records |-> 0] \in [Records -> Nat] /\ 0 \in Nat
    OBVIOUS
  <2>2. Numbered([r \in Records |-> 0], 0)
    BY <1>1 DEF Numbered
  <2> QED BY <2>1, <2>2 DEF OrderInv
<1>4. WalkInv
  BY <1>1 DEF Init, WalkInv, DispatcherPlaces
<1> QED BY <1>2, <1>3, <1>4 DEF ListInv

\* One step for each action.
LEMMA StepListInv ==
  ASSUME CarefulClients, ListInv, [Next]_vars
  PROVE  ListInv'
BY OutsideKeepsList, DispatcherKeepsList, RegisterKeepsList, RefusalKeepsList,
   UnRegisterKeepsList DEF Next, Client

\* The list of callbacks is well formed whatever callbacks do while the dispatcher
\* walks it, and the dispatcher stands on an entry of it.
THEOREM ListInvariant ==
  ASSUME CarefulClients
  PROVE  Spec => []ListInv
<1>1. Init => ListInv
  BY InitListInv
<1>2. ListInv /\ [Next]_vars => ListInv'
  BY StepListInv
<1> QED BY <1>1, <1>2, PTL DEF Spec

\* PchSmmCoreDispatcher calls only children that are registered, for any number of
\* records, although a callback registers others and unregisters itself.
THEOREM CallsOnlyRegisteredHolds ==
  ASSUME CarefulClients
  PROVE  Spec => CallsOnlyRegistered
<1>1. ASSUME ListInv, [Next]_vars, pc # "call", pc' = "call" PROVE In(recordToExhaust')
  <2>1. ExhaustCalls
    <3>1. ~ Chipset /\ ~ SmiEntry /\ ~ Client /\ ~ UNCHANGED vars
      BY <1>1 DEF Chipset, RaiseSmi, UsbEvent, Tick, SmiEntry, Client, Activate, SwSmi,
         PchSmmCoreRegister, RegistrationFails, PchSmmCoreUnRegister, vars
    <3> QED BY <1>1, <3>1 DEF Next, Dispatcher, DispatcherEntry, Iterate, LoopEnds, ScanNext,
               ScanFinds, ExhaustSkips, CallbackReturns, QueueExhausted, SourceHandled, Return
  <2>2. recordToExhaust' = linkToExhaust /\ linkToExhaust \in Members \ {Head}
    BY <1>1, <2>1 DEF ExhaustCalls, ListInv, WalkInv, list
  <2> QED BY <2>2 DEF Members, In
<1> QED BY <1>1, ListInvariant, PTL DEF Spec, CallsOnlyRegistered
-----------------------------------------------------------------------------
(***************************************************************************)
(* Why EscapeCount is enough.  A pass of the dispatcher serves an active    *)
(* source, or finds none on its way and then cannot set EOS only because an *)
(* event has arrived behind it.  So each pass uses up an active source or   *)
(* an arrival, an arrival counting twice: once for the pass it spoils and   *)
(* once for the source it makes active.                                     *)
(***************************************************************************)

\* The escape count covers the sources and twice the events that arrive in one SMI.
EscapeSuffices == Escape >= 4 + 2 * MaxArrivals

\* The passes that are needed at most.
Act(s) == IF SourceIsActive(s) THEN 1 ELSE 0
Load == Act("periodic") + Act("swsmi") + Act("sw") + Act("usb") + 2 * (MaxArrivals - arrivals)

\* Types of what the proof counts.
SourceType ==
  /\ en \in [Sources -> BOOLEAN] /\ sts \in [Sources -> BOOLEAN]
  /\ eos \in BOOLEAN /\ line \in BOOLEAN /\ eosSet \in BOOLEAN
  /\ escape \in Nat /\ arrivals \in 0 .. MaxArrivals

\* The source has a registered child.
Child(s) == \E q \in Records : In(q) /\ SrcDesc(q) = s

\* A source that can raise an SMI has a child, whose record the dispatcher finds.  A
\* timer may lose its last child to that child's callback, and is switched off then.
ChildInv ==
  /\ Members = {Head} => \A s \in Sources \ {"sw"} : ~en[s]
  /\ Members # {Head} => \A s \in Sources :
       en[s] => \/ Child(s)
                \/ pc \in {"exhaust", "call"} /\ s \in Timers /\ SrcDesc(linkInDb) = s
  /\ pc = "call" => SrcDesc(recordToExhaust) = SrcDesc(linkInDb)

\* Every active source has a child that the scan has not passed yet.
Ahead ==
  \E rank \in [Records -> Nat], n \in Nat :
    /\ Numbered(rank, n)
    /\ \A s \in Sources : SourceIsActive(s) =>
         \E q \in Members \ {Head} : SrcDesc(q) = s /\ rank[linkInDb] <= rank[q]

\* What is left of EscapeCount covers the load; a pass has been paid for already.
EscapeInv ==
  /\ pc = "loop" /\ ~eosSet => escape >= Load /\ escape > 0
  /\ pc = "scan" => escape + 1 >= Load /\ (escape >= Load \/ Ahead)
  /\ pc \in {"exhaust", "call"} => escape + Act(SrcDesc(linkInDb)) >= Load
  /\ pc = "eos" => escape >= Load

\* EOS is set, or has been and the next SMI is on its way.
EosInv ==
  /\ pc = "idle" /\ Members # {Head} => eos \/ line
  /\ pc = "return" /\ Members # {Head} => eos \/ line
  /\ pc \notin {"idle", "entered"} /\ eosSet => eos \/ line

\* The inductive invariant of the dispatcher.
ServedInv == SourceType /\ ChildInv /\ EscapeInv /\ EosInv

\* Every record has one of the four sources.
LEMMA SourceOfRecord ==
  /\ \A r \in Records : SrcDesc(r) \in Sources
  /\ Sources = {"periodic", "swsmi", "sw", "usb"} /\ Timers \subseteq Sources
  /\ MaxArrivals \in Nat /\ Escape \in Nat
<1>1. \A r \in Records : Context[r].type \in {"sw", "usb", "timer"}
  BY DispatcherAssumption
<1>2. Sources = {"periodic", "swsmi", "sw", "usb"} /\ Timers \subseteq Sources
  BY DEF Sources, Timers
<1> QED BY <1>1, <1>2, DispatcherAssumption DEF SrcDesc, Timer

\* A walk along the links of a well formed list meets entries of it only.
LEMMA VisitedAreMembers ==
  ASSUME NEW f, NEW M \in SUBSET Links, Head \in M, \A l \in M : f[l] \in M
  PROVE  Visited(f) \subseteq M \ {Head}
BY HeadIsNoRecord DEF Visited

\* PchSmmPeriodicTimerProgramTimers leaves no timer active, and enables none that has
\* no child.
LEMMA ProgrammedTimers ==
  ASSUME SourceType, NEW f
  PROVE  /\ ProgrammedStatus(f) \in [Sources -> BOOLEAN]
         /\ ProgrammedEnable(f) \in [Sources -> BOOLEAN]
         /\ \A t \in Timers : ~(ProgrammedStatus(f)[t] /\ ProgrammedEnable(f)[t])
         /\ \A t \in Timers : ProgrammedEnable(f)[t] => \E r \in Visited(f) : SrcDesc(r) = t
         /\ \A s \in Sources \ Timers : /\ ProgrammedStatus(f)[s] = sts[s]
                                        /\ ProgrammedEnable(f)[s] = en[s]
<1>1. InUse(f) \subseteq Timers /\ \A t \in InUse(f) : \E r \in Visited(f) : SrcDesc(r) = t
  BY DEF InUse, TimerChildren
<1>2. \A s \in Sources : (sts[s] /\ s \notin InUse(f)) \in BOOLEAN
  BY DEF SourceType
<1>3. \A s \in Sources :
        (IF s \in Timers THEN s \in InUse(f) /\ (s = "swsmi" \/ en[s]) ELSE en[s]) \in BOOLEAN
  BY DEF SourceType
<1>4. /\ \A s \in Sources : ProgrammedStatus(f)[s] = (sts[s] /\ s \notin InUse(f))
      /\ \A s \in Sources : ProgrammedEnable(f)[s] =
           IF s \in Timers THEN s \in InUse(f) /\ (s = "swsmi" \/ en[s]) ELSE en[s]
  BY DEF ProgrammedStatus, ProgrammedEnable
<1>5. ProgrammedStatus(f) \in [Sources -> BOOLEAN] /\ ProgrammedEnable(f) \in [Sources -> BOOLEAN]
  BY <1>2, <1>3 DEF ProgrammedStatus, ProgrammedEnable
<1>6. \A s \in Sources \ Timers : ProgrammedStatus(f)[s] = sts[s]
  BY <1>1, <1>4 DEF SourceType
<1> QED BY <1>1, <1>4, <1>5, <1>6, SourceOfRecord

\* What deactivates sources only takes load off the dispatcher.
LEMMA LessLoad ==
  ASSUME SourceType, arrivals' = arrivals,
         \A s \in Sources : SourceIsActive(s)' => SourceIsActive(s)
  PROVE  /\ Load \in Int /\ Load' \in Int /\ Load' <= Load
         /\ \A s \in Sources : Load' - Act(s)' <= Load - Act(s)
         /\ \A s \in Sources : ~SourceIsActive(s)' => Load' <= Load - Act(s)
<1>1. arrivals \in Int /\ MaxArrivals \in Int
  BY SourceOfRecord DEF SourceType
<1>2. \A s \in Sources : /\ Act(s) \in {0, 1} /\ Act(s)' \in {0, 1} /\ Act(s)' <= Act(s)
                         /\ ~SourceIsActive(s)' => Act(s)' = 0
  BY DEF Act
<1> HIDE DEF Act
<1> QED BY <1>1, <1>2, SourceOfRecord DEF Load

\* An event that is latched uses up an arrival.
LEMMA LatchedLoad ==
  ASSUME SourceType, pc # "idle", en' = en, NEW s \in Sources, NEW for, Latch(s, for)
  PROVE  /\ Load \in Int /\ Load' \in Int /\ Load' < Load
         /\ \A x \in Sources : Load' - Act(x)' <= Load - Act(x)
         /\ \A x \in Sources : SourceIsActive(x) => SourceIsActive(x)'
<1>1. arrivals \in Int /\ MaxArrivals \in Int /\ arrivals' = arrivals + 1
  BY SourceOfRecord DEF SourceType, Latch
<1>2. /\ \A x \in Sources \ {s} : SourceIsActive(x)' <=> SourceIsActive(x)
      /\ \A x \in Sources : SourceIsActive(x) => SourceIsActive(x)'
  BY DEF Latch, SourceType, SourceIsActive
<1>3. /\ \A x \in Sources : Act(x) \in {0, 1} /\ Act(x)' \in {0, 1}
      /\ \A x \in Sources \ {s} : Act(x)' = Act(x)
  BY <1>2 DEF Act
<1> HIDE DEF Act
<1> QED BY <1>1, <1>2, <1>3, SourceOfRecord DEF Load

\* The load is what is active and what can still arrive.
LEMMA LoadBounds ==
  ASSUME SourceType
  PROVE  /\ Load \in Nat /\ Load <= 4 + 2 * MaxArrivals
         /\ ~EosCanBeSet => Load >= 1
         /\ \A s \in Sources : Act(s) \in {0, 1} /\ (SourceIsActive(s) <=> Act(s) = 1)
<1>1. arrivals \in Nat /\ MaxArrivals \in Nat /\ arrivals <= MaxArrivals
  BY SourceOfRecord DEF SourceType
<1>2. \A s \in Sources : Act(s) \in {0, 1} /\ (SourceIsActive(s) <=> Act(s) = 1)
  BY DEF Act
<1>3. ~EosCanBeSet =>
        Act("periodic") = 1 \/ Act("swsmi") = 1 \/ Act("sw") = 1 \/ Act("usb") = 1
  BY <1>2, SourceOfRecord DEF EosCanBeSet
<1>4. /\ Act("periodic") \in {0, 1} /\ Act("swsmi") \in {0, 1}
      /\ Act("sw") \in {0, 1} /\ Act("usb") \in {0, 1}
  BY <1>2, SourceOfRecord
<1> HIDE DEF Act
<1>5. Load \in Nat /\ Load <= 4 + 2 * MaxArrivals /\ (~EosCanBeSet => Load >= 1)
  BY <1>1, <1>3, <1>4 DEF Load
<1> QED BY <1>2, <1>5

\* The chipset.
LEMMA ChipsetServes ==
  ASSUME ListInv, ServedInv, Chipset
  PROVE  ServedInv'
<1>0. UNCHANGED <<fwd, bck, state, pc, walk, en>>
  BY DEF Chipset, RaiseSmi, UsbEvent, Tick, list
<1>1. Members' = Members /\ \A s : Child(s)' <=> Child(s)
  BY <1>0 DEF Members, In, Child
<1>2. ChildInv'
  BY <1>0, <1>1 DEF ServedInv, ChildInv, walk
<1>3. CASE RaiseSmi
  <2>1. UNCHANGED <<sts, arrivals>> /\ line' = TRUE /\ eos' = FALSE
    BY <1>3 DEF RaiseSmi
  <2>2. SourceType'
    BY <1>0, <2>1 DEF ServedInv, SourceType, walk
  <2>3. Load' = Load /\ (Ahead' <=> Ahead) /\ \A s : Act(s)' = Act(s)
    BY <1>0, <1>1, <2>1 DEF Load, Act, SourceIsActive, Ahead, Numbered, walk
  <2>4. EscapeInv'
    BY <1>0, <2>3 DEF ServedInv, EscapeInv, walk
  <2>5. EosInv'
    BY <2>1 DEF EosInv
  <2> QED BY <1>2, <2>2, <2>4, <2>5 DEF ServedInv
<1>4. CASE UsbEvent \/ \E t \in Timers : Tick(t)
  <2>1. PICK s \in Sources, for \in SUBSET Records : Latch(s, for)
    BY <1>4, SourceOfRecord DEF UsbEvent, Tick
  <2>2. UNCHANGED <<eos, line>>
    BY <1>4 DEF UsbEvent, Tick
  <2>3. SourceType'
    <3>1. sts' \in [Sources -> BOOLEAN] /\ arrivals' \in 0 .. MaxArrivals
      BY <2>1, SourceOfRecord DEF Latch, ServedInv, SourceType
    <3> QED BY <1>0, <2>2, <3>1 DEF ServedInv, SourceType, walk
  <2>4. EscapeInv'
    <3>1. CASE pc = "idle"
      BY <1>0, <3>1 DEF EscapeInv
    <3>2. CASE pc # "idle"
      <4>1. /\ Load \in Int /\ Load' \in Int /\ Load' < Load
            /\ \A x \in Sources : Load' - Act(x)' <= Load - Act(x)
        BY <1>0, <2>1, <3>2, LatchedLoad DEF ServedInv
      <4>2. escape \in Nat /\ \A x \in Sources : Act(x) \in {0, 1} /\ Act(x)' \in {0, 1}
        BY <2>3 DEF ServedInv, SourceType, Act
      <4>3. pc \in {"exhaust", "call"} => SrcDesc(linkInDb) \in Sources
        BY SourceOfRecord DEF ListInv, WalkInv
      <4>4. UNCHANGED <<pc, escape, eosSet, linkInDb>>
        BY <1>0 DEF walk
      <4>5. pc' \in {"exhaust", "call"} => (escape + Act(SrcDesc(linkInDb)) >= Load)'
        <5>1. ASSUME pc \in {"exhaust", "call"}, NEW x \in Sources, x = SrcDesc(linkInDb)
              PROVE  escape + Act(x)' >= Load'
          BY <4>1, <4>2, <5>1 DEF ServedInv, EscapeInv
        <5> QED BY <4>3, <4>4, <5>1
      <4>6. pc' = "scan" => (escape + 1 >= Load /\ escape >= Load)'
        BY <4>1, <4>2, <4>4 DEF ServedInv, EscapeInv
      <4>7. /\ pc' = "loop" /\ ~eosSet' => (escape >= Load /\ escape > 0)'
            /\ pc' = "eos" => (escape >= Load)'
        BY <4>1, <4>2, <4>4 DEF ServedInv, EscapeInv
      <4> QED BY <4>5, <4>6, <4>7 DEF EscapeInv
    <3> QED BY <3>1, <3>2
  <2>5. EosInv'
    BY <1>0, <1>1, <2>2 DEF ServedInv, EosInv, walk
  <2> QED BY <1>2, <2>3, <2>4, <2>5 DEF ServedInv
<1> QED BY <1>3, <1>4 DEF Chipset

\* Software SMIs from outside, and SMI entry.
LEMMA OutsideServes ==
  ASSUME ListInv, ServedInv, Activate \/ (\E v \in 1 .. MaxSwi : SwSmi(v)) \/ SmiEntry
  PROVE  ServedInv'
<1>0. UNCHANGED <<fwd, bck, state, walk>> /\ pc = "idle" /\ pc' \in {"idle", "entered"}
  BY DEF Activate, SwSmi, SmiEntry, list
<1>1. Members' = Members /\ \A s : Child(s)' <=> Child(s)
  BY <1>0 DEF Members, In, Child
<1>2. SourceType'
  <2>1. arrivals' \in 0 .. MaxArrivals
    BY <1>0, SourceOfRecord DEF Activate, SwSmi, SmiEntry, Latch, ServedInv, SourceType
  <2>3. sts' \in [Sources -> BOOLEAN] /\ en' \in [Sources -> BOOLEAN]
    BY DEF Activate, SwSmi, SmiEntry, Latch, ServedInv, SourceType
  <2>2. eos' \in BOOLEAN /\ line' \in BOOLEAN
    BY DEF Activate, SwSmi, SmiEntry, EosAfterClear, ServedInv, SourceType
  <2> QED BY <1>0, <2>1, <2>2, <2>3 DEF ServedInv, SourceType, walk
<1>3. \A s \in Sources : en'[s] => en[s] \/ s = "sw"
  BY DEF Activate, SwSmi, SmiEntry, ServedInv, SourceType
<1>4. ChildInv'
  BY <1>0, <1>1, <1>3 DEF ServedInv, ChildInv, ListInv, SwInv, Child
<1>5. EscapeInv'
  BY <1>0 DEF EscapeInv
<1>6. EosInv'
  BY <1>0, <1>1 DEF Activate, SwSmi, SmiEntry, EosAfterClear, ServedInv, EosInv
<1> QED BY <1>2, <1>4, <1>5, <1>6 DEF ServedInv

\* Registration deactivates the sources it programs, and enables a source that has a
\* child then.
LEMMA RegisterServes ==
  ASSUME CarefulClients, ListInv, ServedInv, NEW r \in Records, PchSmmCoreRegister(r)
  PROVE  ServedInv'
<1>0. /\ UNCHANGED <<pc, walk, eos, line, arrivals>> /\ pc \in {"entered", "call"}
      /\ SrcDesc(r) \in Sources /\ EnableSource(r)
  BY SourceOfRecord DEF PchSmmCoreRegister, Clients
<1>1. /\ Members' = Members \cup {r} /\ LinkInv' /\ Members' \in SUBSET Links /\ Head \in Members'
      /\ Members' # {Head}
  <2>1. Members' = Members \cup {r} /\ LinkInv'
    BY InsertKeepsList DEF ListInv, PchSmmCoreRegister
  <2> QED BY <2>1, HeadIsNoRecord DEF Members
<1>2. state'[r] = "in" /\ \A q \in Records : In(q) => state'[q] = "in"
  BY DEF PchSmmCoreRegister, ListInv, LinkType, In
<1>3. Child(SrcDesc(r))' /\ \A s : Child(s) => Child(s)'
  BY <1>2 DEF Child, In
<1>4. Visited(fwd') \subseteq Members' \ {Head}
  BY <1>1, VisitedAreMembers DEF LinkInv
<1>5. \A q \in Visited(fwd') : Child(SrcDesc(q))'
  BY <1>4 DEF Members, Child, In
<1>6. /\ en' \in [Sources -> BOOLEAN] /\ sts' \in [Sources -> BOOLEAN]
      /\ \A s \in Sources : SourceIsActive(s)' => SourceIsActive(s)
      /\ \A s \in Sources : en'[s] => Child(s)' \/ (en[s] /\ s \notin Timers)
                                   \/ (en[s] /\ SrcDesc(r) \notin Timers)
  <2>1. CASE SrcDesc(r) \in Timers
    <3> DEFINE E == ProgrammedEnable(fwd')
               S == ProgrammedStatus(fwd')
    <3>1. /\ S \in [Sources -> BOOLEAN] /\ E \in [Sources -> BOOLEAN]
          /\ \A t \in Timers : ~(S[t] /\ E[t])
          /\ \A t \in Timers : E[t] => \E q \in Visited(fwd') : SrcDesc(q) = t
          /\ \A s \in Sources \ Timers : S[s] = sts[s] /\ E[s] = en[s]
      BY ProgrammedTimers DEF ServedInv
    <3>2. sts' = [S EXCEPT ![SrcDesc(r)] = FALSE] /\ en' = [E EXCEPT ![SrcDesc(r)] = TRUE]
      BY <1>0, <2>1 DEF EnableSource
    <3> HIDE DEF E, S
    <3>3. en' \in [Sources -> BOOLEAN] /\ sts' \in [Sources -> BOOLEAN]
      BY <3>1, <3>2
    <3>4. /\ ~sts'[SrcDesc(r)] /\ \A s \in Sources \ {SrcDesc(r)} : sts'[s] = S[s] /\ en'[s] = E[s]
      BY <1>0, <3>1, <3>2
    <3> QED BY <1>0, <1>3, <1>5, <2>1, <3>1, <3>3, <3>4 DEF SourceIsActive
  <2>2. CASE SrcDesc(r) \notin Timers
    <3>1. sts' = [sts EXCEPT ![SrcDesc(r)] = FALSE] /\ en' = [en EXCEPT ![SrcDesc(r)] = TRUE]
      BY <1>0, <2>2 DEF EnableSource
    <3> QED BY <1>0, <1>3, <2>2, <3>1 DEF ServedInv, SourceType, SourceIsActive
  <2> QED BY <2>1, <2>2
<1>7. SourceType'
  BY <1>0, <1>6 DEF ServedInv, SourceType, walk
<1>8. ChildInv'
  <2>1. ASSUME NEW s \in Sources, en[s] /\ (s \notin Timers \/ SrcDesc(r) \notin Timers)
        PROVE  Child(s)' \/ (pc \in {"exhaust", "call"} /\ s \in Timers /\ SrcDesc(linkInDb) = s)
    <3>1. CASE Members = {Head}
      <4>1. s = "sw" /\ SrcDesc(r) = "sw"
        BY <2>1, <3>1, HeadIsNoRecord
           DEF ServedInv, ChildInv, PchSmmCoreRegister, MayRegister, Members
      <4> QED BY <1>3, <4>1
    <3>2. CASE Members # {Head}
      BY <1>3, <2>1, <3>2 DEF ServedInv, ChildInv
    <3> QED BY <3>1, <3>2
  <2> QED BY <1>0, <1>1, <1>6, <2>1 DEF ServedInv, ChildInv, walk
<1>9. EscapeInv'
  <2>1. CASE pc = "entered"
    BY <1>0, <2>1 DEF EscapeInv
  <2>2. CASE pc = "call"
    <3>1. /\ Load \in Int /\ Load' \in Int
          /\ \A s \in Sources : Load' - Act(s)' <= Load - Act(s)
      BY <1>0, <1>6, LessLoad DEF ServedInv
    <3>2. escape \in Nat /\ \A s \in Sources : Act(s) \in {0, 1} /\ Act(s)' \in {0, 1}
      BY DEF ServedInv, SourceType, Act
    <3>3. SrcDesc(linkInDb) \in Sources
      BY <2>2, SourceOfRecord DEF ListInv, WalkInv
    <3>4. ASSUME NEW s \in Sources, s = SrcDesc(linkInDb) PROVE escape + Act(s)' >= Load'
      BY <2>2, <3>1, <3>2, <3>4 DEF ServedInv, EscapeInv
    <3>5. UNCHANGED <<pc, escape, linkInDb>>
      BY <1>0 DEF walk
    <3>6. (escape + Act(SrcDesc(linkInDb)) >= Load)'
      BY <3>3, <3>4, <3>5
    <3> QED BY <2>2, <3>5, <3>6 DEF EscapeInv
  <2> QED BY <1>0, <2>1, <2>2
<1>10. EosInv'
  BY <1>0, <1>1 DEF ServedInv, EosInv, walk
<1> QED BY <1>7, <1>8, <1>9, <1>10 DEF ServedInv

\* A child that goes leaves a sibling, or its timer to the dispatcher, which programs
\* the timers at the end of the queue.
LEMMA UnRegisterServes ==
  ASSUME CarefulClients, ListInv, ServedInv, NEW r \in Records, PchSmmCoreUnRegister(r)
  PROVE  ServedInv'
<1>0. UNCHANGED <<pc, walk, en, sts, eos, line, arrivals>> /\ pc \in {"entered", "call"}
  BY DEF PchSmmCoreUnRegister, Clients, chipset
<1>1. Members # {Head} /\ Members' # {Head}
  <2>1. Members # {Head}
    BY HeadIsNoRecord DEF PchSmmCoreUnRegister, Members
  <2>2. \E q \in Records : In(q)'
    <3>1. PICK q \in Records \ {r} : In(q)
      <4>1. CASE SiblingOf(r)
        BY <4>1 DEF SiblingOf
      <4>2. CASE SrcDesc(r) \in Timers
        BY <2>1, <4>2 DEF ListInv, SwInv, Timers
      <4> QED BY <4>1, <4>2 DEF PchSmmCoreUnRegister, MayUnRegister
    <3>2. In(q)'
      BY <3>1 DEF PchSmmCoreUnRegister, ListInv, LinkType, In
    <3> QED BY <3>2
  <2> QED BY <2>1, <2>2, HeadIsNoRecord DEF Members
<1>2. \A q \in Records \ {r} : In(q) => In(q)'
  BY DEF PchSmmCoreUnRegister, ListInv, LinkType, In
<1>3. ChildInv'
  <2>1. ASSUME NEW s \in Sources, en[s]
        PROVE  Child(s)' \/ (pc \in {"exhaust", "call"} /\ s \in Timers /\ SrcDesc(linkInDb) = s)
    <3>1. CASE Child(s)
      <4>1. CASE SrcDesc(r) # s \/ SiblingOf(r)
        BY <1>2, <3>1, <4>1 DEF Child, SiblingOf
      <4>2. CASE SrcDesc(r) = s /\ ~SiblingOf(r)
        BY <4>2 DEF PchSmmCoreUnRegister, MayUnRegister, ServedInv, ChildInv
      <4> QED BY <4>1, <4>2
    <3> QED BY <1>1, <2>1, <3>1 DEF ServedInv, ChildInv
  <2> QED BY <1>0, <1>1, <2>1 DEF ServedInv, ChildInv, walk
<1>4. SourceType'
  BY <1>0 DEF ServedInv, SourceType, walk
<1>5. EscapeInv'
  <2>1. Load' = Load /\ \A s : Act(s)' = Act(s)
    BY <1>0 DEF Load, Act, SourceIsActive
  <2> QED BY <1>0, <2>1 DEF ServedInv, EscapeInv, walk
<1>6. EosInv'
  BY <1>0, <1>1 DEF ServedInv, EosInv, walk
<1> QED BY <1>3, <1>4, <1>5, <1>6 DEF ServedInv

\* A refusal and a stuttering step change nothing here.
LEMMA RefusalServes ==
  ASSUME ListInv, ServedInv, (\E r \in Records : RegistrationFails(r)) \/ UNCHANGED vars
  PROVE  ServedInv'
<1>0. UNCHANGED <<fwd, bck, pc, walk, en, sts, eos, line, arrivals>>
  BY DEF RegistrationFails, chipset, vars, list
<1>1. \A q \in Records : In(q)' <=> In(q)
  BY DEF RegistrationFails, vars, list, ListInv, LinkType, In
<1>2. Members' = Members /\ \A s : Child(s)' <=> Child(s)
  BY <1>1 DEF Members, Child
<1>3. SourceType' /\ ChildInv' /\ EosInv'
  BY <1>0, <1>2 DEF ServedInv, SourceType, ChildInv, EosInv, walk
<1>4. EscapeInv'
  <2>1. Load' = Load /\ \A s : Act(s)' = Act(s)
    BY <1>0 DEF Load, Act, SourceIsActive
  <2>2. Ahead' <=> Ahead
    BY <1>0, <1>2 DEF Ahead, Numbered, SourceIsActive, walk
  <2> QED BY <1>0, <2>1, <2>2 DEF ServedInv, EscapeInv, walk
<1> QED BY <1>3, <1>4 DEF ServedInv

\* SetAndCheckEos sets EOS unless a source is active.
LEMMA EosChecked ==
  ASSUME ServedInv, SetAndCheckEos
  PROVE  /\ eos' \in BOOLEAN /\ eosSet' \in BOOLEAN /\ (eosSet' => eos')
         /\ EosCanBeSet => eosSet'
         /\ eos => eos'
BY DEF SetAndCheckEos, ServedInv, SourceType

\* The dispatcher starts with an escape count for all that can happen.
LEMMA EntryServes ==
  ASSUME EscapeSuffices, ListInv, ServedInv, DispatcherEntry
  PROVE  ServedInv'
<1>0. UNCHANGED <<fwd, state, en, sts, eos, line, arrivals>> /\ escape' = Escape /\ ~eosSet'
      /\ eosSet' = FALSE /\ pc' = IF fwd[Head] = Head THEN "return" ELSE "loop"
  BY DEF DispatcherEntry, list, chipset
<1>1. Members' = Members /\ \A s : Child(s)' <=> Child(s)
  BY <1>0 DEF Members, In, Child
<1>2. fwd[Head] = Head => Members = {Head}
  BY DEF ListInv, OrderInv, Numbered, Members
<1>3. SourceType'
  BY <1>0, SourceOfRecord DEF ServedInv, SourceType
<1>4. ChildInv'
  BY <1>0, <1>1 DEF DispatcherEntry, ServedInv, ChildInv
<1>5. EscapeInv'
  <2>1. Load' = Load
    BY <1>0 DEF Load, Act, SourceIsActive
  <2>2. escape' >= Load' /\ escape' > 0
    BY <1>0, <2>1, LoadBounds, SourceOfRecord DEF EscapeSuffices, ServedInv
  <2> QED BY <1>0, <2>2 DEF EscapeInv
<1>6. EosInv'
  BY <1>0, <1>1, <1>2 DEF EosInv
<1> QED BY <1>3, <1>4, <1>5, <1>6 DEF ServedInv

\* A pass of the dispatcher begins with every active source ahead of it.
LEMMA IterateServes ==
  ASSUME ListInv, ServedInv, Iterate
  PROVE  ServedInv'
<1>0. /\ UNCHANGED <<fwd, state, en, sts, eos, line, arrivals, eosSet>>
      /\ pc = "loop" /\ pc' = "scan" /\ ~eosSet /\ escape > 0
      /\ escape' = escape - 1 /\ linkInDb' = fwd[Head]
  <2>1. pc = "loop"
    BY DEF Iterate
  <2>2. PICK q \in Members : q # Head
    BY <2>1 DEF ListInv, WalkInv, Members
  <2>3. fwd[Head] # Head
    BY <2>2 DEF ListInv, OrderInv, Numbered
  <2> QED BY <2>3 DEF Iterate, KeepLooping, list, chipset
<1>1. Members' = Members /\ \A s : Child(s)' <=> Child(s)
  BY <1>0 DEF Members, In, Child
<1>2. SourceType'
  BY <1>0 DEF ServedInv, SourceType
<1>3. ChildInv'
  BY <1>0, <1>1 DEF ServedInv, ChildInv
<1>4. Load' = Load /\ Load \in Nat /\ \A s : SourceIsActive(s)' <=> SourceIsActive(s)
  BY <1>0, LoadBounds DEF Load, Act, SourceIsActive, ServedInv
<1>5. Ahead'
  <2>1. PICK rank \in [Records -> Nat], n \in Nat : Numbered(rank, n)
    BY DEF ListInv, OrderInv
  <2>2. Numbered(rank, n)'
    BY <1>0, <1>1, <2>1 DEF Numbered
  <2>3. ASSUME NEW s \in Sources, SourceIsActive(s)
        PROVE  \E q \in Members \ {Head} : SrcDesc(q) = s /\ rank[fwd[Head]] <= rank[q]
    <3>1. Child(s)
      BY <1>0, <2>3 DEF ServedInv, ChildInv, SourceIsActive, ListInv, WalkInv
    <3>2. PICK q \in Members \ {Head} : SrcDesc(q) = s
      BY <3>1, HeadIsNoRecord DEF Child, Members
    <3> QED BY <2>1, <3>2 DEF Numbered
  <2> QED BY <1>0, <1>1, <1>4, <2>2, <2>3 DEF Ahead
<1>6. EscapeInv'
  <2>1. escape' + 1 >= Load'
    BY <1>0, <1>4 DEF ServedInv, EscapeInv, SourceType
  <2> QED BY <1>0, <1>5, <2>1 DEF EscapeInv
<1>7. EosInv'
  BY <1>0, <1>1 DEF ServedInv, EosInv
<1> QED BY <1>2, <1>3, <1>6, <1>7 DEF ServedInv

\* The loop ends with EOS set.
LEMMA EndServes ==
  ASSUME ListInv, ServedInv, LoopEnds
  PROVE  ServedInv'
<1>0. /\ UNCHANGED <<fwd, state, en, sts, eos, line, arrivals, eosSet, escape>>
      /\ pc = "loop" /\ pc' = "return" /\ (eosSet \/ ~(escape > 0))
  BY DEF LoopEnds, KeepLooping, list, chipset, walk
<1>1. Members' = Members /\ \A s : Child(s)' <=> Child(s)
  BY <1>0 DEF Members, In, Child
<1>2. SourceType' /\ ChildInv' /\ EscapeInv'
  BY <1>0, <1>1 DEF ServedInv, SourceType, ChildInv, EscapeInv
<1>3. eosSet
  BY <1>0 DEF ServedInv, EscapeInv
<1>4. EosInv'
  BY <1>0, <1>3 DEF ServedInv, EosInv
<1> QED BY <1>2, <1>4 DEF ServedInv

\* The scan passes a record whose source is not active; when it ends and EOS cannot be
\* set, an event has arrived behind it.
LEMMA ScanServes ==
  ASSUME ListInv, ServedInv, ScanNext
  PROVE  ServedInv'
<1>0. /\ UNCHANGED <<fwd, state, en, sts, line, arrivals, escape>>
      /\ pc = "scan" /\ ~SourceIsActive(SrcDesc(linkInDb)) /\ linkInDb' = fwd[linkInDb]
      /\ IF linkInDb' = Head THEN pc' = "loop" /\ SetAndCheckEos ELSE UNCHANGED <<pc, eos, eosSet>>
  BY DEF ScanNext, list
<1>1. Members' = Members /\ \A s : Child(s)' <=> Child(s)
  BY <1>0 DEF Members, In, Child
<1>2. /\ eos' \in BOOLEAN /\ eosSet' \in BOOLEAN /\ (eos => eos')
      /\ linkInDb' = Head => (eosSet' => eos') /\ (EosCanBeSet => eosSet')
  BY <1>0, EosChecked DEF ServedInv, SourceType
<1>3. SourceType'
  BY <1>0, <1>2 DEF ServedInv, SourceType
<1>4. ChildInv'
  BY <1>0, <1>1 DEF ServedInv, ChildInv
<1>5. Load' = Load /\ Load \in Nat /\ \A s : SourceIsActive(s)' <=> SourceIsActive(s)
  BY <1>0, LoadBounds DEF Load, Act, SourceIsActive, ServedInv
<1>6. linkInDb \in Members \ {Head} /\ linkInDb \in Records
  BY <1>0 DEF ListInv, WalkInv, Members
<1>7. CASE escape >= Load
  <2>1. escape' >= Load' /\ escape' + 1 >= Load' /\ (~EosCanBeSet => escape' > 0)
    BY <1>0, <1>5, <1>7, LoadBounds DEF ServedInv, SourceType
  <2>2. EscapeInv'
    BY <1>0, <1>2, <2>1 DEF EscapeInv
  <2>3. EosInv'
    BY <1>0, <1>1, <1>2 DEF ServedInv, EosInv
  <2> QED BY <1>3, <1>4, <2>2, <2>3 DEF ServedInv
<1>8. CASE Ahead
  <2>1. PICK rank \in [Records -> Nat], n \in Nat :
          /\ Numbered(rank, n)
          /\ \A s \in Sources : SourceIsActive(s) =>
               \E q \in Members \ {Head} : SrcDesc(q) = s /\ rank[linkInDb] <= rank[q]
    BY <1>8 DEF Ahead
  <2>2. ASSUME NEW s \in Sources, SourceIsActive(s)
        PROVE  /\ fwd[linkInDb] # Head
               /\ \E q \in Members \ {Head} : SrcDesc(q) = s /\ rank[fwd[linkInDb]] <= rank[q]
    <3>1. PICK q \in Members \ {Head} : SrcDesc(q) = s /\ rank[linkInDb] <= rank[q]
      BY <2>1, <2>2
    <3>2. q # linkInDb /\ rank[q] \in Nat /\ rank[linkInDb] \in Nat
      BY <1>0, <1>6, <2>2, <3>1 DEF Members
    <3>3. rank[linkInDb] < rank[q]
      BY <1>6, <2>1, <3>1, <3>2 DEF Numbered
    <3> QED BY <1>6, <2>1, <3>1, <3>3 DEF Numbered
  <2>3. linkInDb' = Head => EosCanBeSet
    BY <1>0, <2>2 DEF EosCanBeSet
  <2>4. Ahead'
    <3>1. Numbered(rank, n)'
      BY <1>0, <1>1, <2>1 DEF Numbered
    <3> QED BY <1>0, <1>1, <1>5, <2>2, <3>1 DEF Ahead
  <2>5. escape' + 1 >= Load'
    BY <1>0, <1>5 DEF ServedInv, EscapeInv
  <2>6. EscapeInv'
    BY <1>0, <1>2, <2>3, <2>4, <2>5 DEF EscapeInv
  <2>7. EosInv'
    BY <1>0, <1>1, <1>2 DEF ServedInv, EosInv
  <2> QED BY <1>3, <1>4, <2>6, <2>7 DEF ServedInv
<1> QED BY <1>0, <1>7, <1>8 DEF ServedInv, EscapeInv

\* The queue of an active source.
LEMMA QueueServes ==
  ASSUME ListInv, ServedInv, ScanFinds \/ ExhaustCalls \/ ExhaustSkips \/ CallbackReturns
  PROVE  ServedInv'
<1>0. /\ UNCHANGED <<fwd, state, en, sts, eos, line, arrivals, eosSet, escape, linkInDb>>
      /\ pc \in {"scan", "exhaust", "call"} /\ pc' \in {"exhaust", "call"}
      /\ pc = "scan" => SourceIsActive(SrcDesc(linkInDb))
      /\ pc' = "call" => SrcDesc(recordToExhaust') = SrcDesc(linkInDb)
  BY DEF ScanFinds, ExhaustCalls, ExhaustSkips, CallbackReturns, list, chipset
<1>1. Members' = Members /\ \A s : Child(s)' <=> Child(s)
  BY <1>0 DEF Members, In, Child
<1>2. SourceType'
  BY <1>0 DEF ServedInv, SourceType
<1>3. ChildInv'
  BY <1>0, <1>1 DEF ServedInv, ChildInv
<1>4. Load' = Load /\ \A s : Act(s)' = Act(s)
  BY <1>0 DEF Load, Act, SourceIsActive
<1>5. escape + Act(SrcDesc(linkInDb)) >= Load
  BY <1>0 DEF ServedInv, EscapeInv, Act
<1>6. EscapeInv'
  BY <1>0, <1>4, <1>5 DEF EscapeInv
<1>7. EosInv'
  BY <1>0, <1>1 DEF ServedInv, EosInv
<1> QED BY <1>2, <1>3, <1>6, <1>7 DEF ServedInv

\* At the end of the queue the source is not active any more.
LEMMA ClearServes ==
  ASSUME ListInv, ServedInv, QueueExhausted
  PROVE  ServedInv'
<1> DEFINE s0 == SrcDesc(linkInDb)
<1>0. /\ UNCHANGED <<fwd, state, eos, line, arrivals, eosSet, escape, linkInDb>>
      /\ pc = "exhaust" /\ pc' = "eos" /\ ClearSource(s0) /\ s0 \in Sources
  BY SourceOfRecord DEF QueueExhausted, list, walk, ListInv, WalkInv
<1>1. Members' = Members /\ (\A s : Child(s)' <=> Child(s)) /\ Members # {Head}
  BY <1>0 DEF Members, In, Child, ListInv, WalkInv
<1>2. \A q \in Visited(fwd) : Child(SrcDesc(q))
  <2>1. Members \in SUBSET Links /\ Head \in Members /\ \A l \in Members : fwd[l] \in Members
    BY HeadIsNoRecord DEF Members, ListInv, LinkInv
  <2>2. Visited(fwd) \subseteq Members \ {Head}
    BY <2>1, VisitedAreMembers
  <2> QED BY <2>2 DEF Members, Child
<1>3. /\ en' \in [Sources -> BOOLEAN] /\ sts' \in [Sources -> BOOLEAN]
      /\ \A s \in Sources : SourceIsActive(s)' => SourceIsActive(s)
      /\ ~SourceIsActive(s0)'
      /\ \A s \in Sources : en'[s] => Child(s)
  <2>1. CASE s0 \in Timers
    <3> DEFINE E == ProgrammedEnable(fwd)
               S == ProgrammedStatus(fwd)
    <3>1. /\ S \in [Sources -> BOOLEAN] /\ E \in [Sources -> BOOLEAN]
          /\ \A t \in Timers : ~(S[t] /\ E[t])
          /\ \A t \in Timers : E[t] => \E q \in Visited(fwd) : SrcDesc(q) = t
          /\ \A s \in Sources \ Timers : S[s] = sts[s] /\ E[s] = en[s]
      BY ProgrammedTimers DEF ServedInv
    <3>2. sts' = S /\ en' = E
      BY <1>0, <2>1 DEF ClearSource
    <3> HIDE DEF E, S
    <3>3. \A s \in Sources \ Timers : en[s] => Child(s)
      BY <1>1 DEF ServedInv, ChildInv
    <3>4. \A s \in Timers : ~SourceIsActive(s)'
      BY <3>1, <3>2 DEF SourceIsActive
    <3>5. \A s \in Sources \ Timers : SourceIsActive(s)' <=> SourceIsActive(s)
      BY <3>1, <3>2 DEF SourceIsActive
    <3>6. \A s \in Sources : en'[s] => Child(s)
      BY <1>2, <3>1, <3>2, <3>3
    <3> QED BY <1>0, <2>1, <3>1, <3>2, <3>4, <3>5, <3>6
  <2>2. CASE s0 \notin Timers
    <3>1. sts' = [sts EXCEPT ![s0] = FALSE] /\ en' = en
      BY <1>0, <2>2 DEF ClearSource
    <3>2. \A s \in Sources : en[s] => Child(s)
      BY <1>1, <2>2 DEF ServedInv, ChildInv
    <3> QED BY <1>0, <3>1, <3>2 DEF ServedInv, SourceType, SourceIsActive
  <2> QED BY <2>1, <2>2
<1>4. SourceType'
  BY <1>0, <1>3 DEF ServedInv, SourceType
<1>5. ChildInv'
  BY <1>0, <1>1, <1>3 DEF ChildInv
<1>6. EscapeInv'
  <2>1. Load \in Int /\ Load' \in Int /\ Load' <= Load - Act(s0)
    BY <1>0, <1>3, LessLoad DEF ServedInv
  <2>2. escape \in Nat /\ Act(s0) \in {0, 1} /\ escape + Act(s0) >= Load
    BY <1>0 DEF ServedInv, SourceType, EscapeInv, Act
  <2>3. escape' >= Load'
    BY <1>0, <2>1, <2>2
  <2> QED BY <1>0, <2>3 DEF EscapeInv
<1>7. EosInv'
  BY <1>0, <1>1 DEF ServedInv, EosInv
<1> QED BY <1>4, <1>5, <1>6, <1>7 DEF ServedInv

\* EOS cannot be set only while another source is active, for which a pass is left.
LEMMA HandledServes ==
  ASSUME ListInv, ServedInv, SourceHandled
  PROVE  ServedInv'
<1>0. /\ UNCHANGED <<fwd, state, en, sts, line, arrivals, escape>>
      /\ pc = "eos" /\ pc' = "loop" /\ SetAndCheckEos
  BY DEF SourceHandled, list
<1>1. Members' = Members /\ \A s : Child(s)' <=> Child(s)
  BY <1>0 DEF Members, In, Child
<1>2. eos' \in BOOLEAN /\ eosSet' \in BOOLEAN /\ (eosSet' => eos') /\ (EosCanBeSet => eosSet')
  BY <1>0, EosChecked
<1>3. SourceType'
  BY <1>0, <1>2 DEF ServedInv, SourceType
<1>4. ChildInv'
  BY <1>0, <1>1 DEF ServedInv, ChildInv
<1>5. EscapeInv'
  <2>1. Load' = Load
    BY <1>0 DEF Load, Act, SourceIsActive
  <2>2. escape >= Load /\ (~EosCanBeSet => escape > 0)
    BY <1>0, LoadBounds DEF ServedInv, EscapeInv, SourceType
  <2> QED BY <1>0, <1>2, <2>1, <2>2 DEF EscapeInv
<1>6. EosInv'
  BY <1>0, <1>2 DEF EosInv
<1> QED BY <1>3, <1>4, <1>5, <1>6 DEF ServedInv

\* SMM is left.
LEMMA ReturnServes ==
  ASSUME ListInv, ServedInv, Return
  PROVE  ServedInv'
<1>0. /\ UNCHANGED <<fwd, state, en, line>> /\ arrivals' = 0 /\ escape' = 0
      /\ eosSet' = FALSE /\ pc = "return" /\ pc' = "idle"
  BY DEF Return, list
<1>5. sts' = [sts EXCEPT !["sw"] = FALSE] /\ eos' \in BOOLEAN /\ (eos => eos')
  BY DEF Return, ClearSmi, SwStatusCleared, EosAfterClear, ServedInv, SourceType
<1>1. Members' = Members /\ \A s : Child(s)' <=> Child(s)
  BY <1>0 DEF Members, In, Child
<1>2. SourceType'
  <2>1. 0 \in Nat /\ 0 \in 0 .. MaxArrivals
    BY SourceOfRecord
  <2>2. sts' \in [Sources -> BOOLEAN]
    BY <1>5 DEF ServedInv, SourceType
  <2> QED BY <1>0, <1>5, <2>1, <2>2 DEF ServedInv, SourceType
<1>3. EscapeInv' /\ EosInv'
  BY <1>0, <1>1, <1>5 DEF ServedInv, EscapeInv, EosInv
<1>4. ChildInv'
  BY <1>0, <1>1 DEF ServedInv, ChildInv
<1> QED BY <1>2, <1>3, <1>4 DEF ServedInv

\* Before the first registration only the software SMI source is enabled.
LEMMA InitServedInv == Init => ServedInv
<1> SUFFICES ASSUME Init PROVE ServedInv
  OBVIOUS
<1>1. Members = {Head} /\ pc = "idle"
  BY DEF Init, Members, In
<1>2. SourceType
  <2>1. 0 \in Nat /\ 0 \in 0 .. MaxArrivals
    BY SourceOfRecord
  <2>2. en \in [Sources -> BOOLEAN] /\ sts \in [Sources -> BOOLEAN]
    BY DEF Init
  <2> QED BY <2>1, <2>2 DEF Init, SourceType
<1>3. ChildInv /\ EscapeInv /\ EosInv
  BY <1>1 DEF Init, ChildInv, EscapeInv, EosInv
<1> QED BY <1>2, <1>3 DEF ServedInv

\* One step for each action.
LEMMA StepServedInv ==
  ASSUME CarefulClients, EscapeSuffices, ListInv, ServedInv, [Next]_vars
  PROVE  ServedInv'
<1>1. CASE Dispatcher
  BY <1>1, EntryServes, IterateServes, EndServes, ScanServes, QueueServes, ClearServes,
     HandledServes, ReturnServes DEF Dispatcher
<1>2. CASE Client
  BY <1>2, OutsideServes, RegisterServes, UnRegisterServes, RefusalServes DEF Client
<1> QED BY <1>1, <1>2, ChipsetServes, OutsideServes, RefusalServes DEF Next

\* Whatever children are registered, whenever SMM is left with one of them registered EOS
\* is set or the next SMI has been raised: PchSmmCoreDispatcher does not run out of its
\* EscapeCount as long as that covers every source and twice the arrivals of one SMI.
THEOREM ReturnsWithEosHolds ==
  ASSUME CarefulClients, EscapeSuffices
  PROVE  Spec => []ReturnsWithEos
<1>1. Init => ServedInv
  BY InitServedInv
<1>2. ListInv /\ ServedInv /\ [Next]_vars => ServedInv'
  BY StepServedInv
<1>3. ListInv /\ ServedInv => ReturnsWithEos
  <2>1. ListInv /\ fwd[Head] # Head => Members # {Head}
    BY DEF ListInv, LinkInv, Members
  <2> QED BY <2>1 DEF ServedInv, EosInv, ReturnsWithEos
<1> QED BY <1>1, <1>2, <1>3, ListInvariant, PTL DEF Spec

-----------------------------------------------------------------------------
(***************************************************************************)
(* Why a timer child is not called early.  The dispatcher has no clock: it  *)
(* adds the child's tick interval each time it finds the timer active.  It  *)
(* never counts a tick twice, because the walk over the queue meets a       *)
(* record once and the status is cleared before the next walk.             *)
(***************************************************************************)

\* Children of one timer ask for the same tick interval.
EqualTicks ==
  \A r, q \in Records :
    SrcDesc(r) \in Timers /\ SrcDesc(q) = SrcDesc(r) => Context[q].tick = Context[r].tick

\* Types of what is counted; a child has not waited longer than its history says.
CountType ==
  /\ elapsed \in [Records -> Nat] /\ since \in [Records -> Nat]
  /\ setting \in [Timers -> Nat] /\ sts \in [Sources -> BOOLEAN] /\ en \in [Sources -> BOOLEAN]
  /\ \A r \in Records : since[r] <= Context[r].period
  /\ \A r \in Records : state[r] = "new" => since[r] = Context[r].period

\* GetNextNode comes to every entry.
VisitInv == \A r \in Members \ {Head} : r \in Visited(fwd)

\* The time has passed that would be counted with e more.
Passed(r, e) == since[r] >= elapsed[r] + e \/ since[r] = Context[r].period

\* The walk over the queue is at the children of timer t.
Walking(t) == pc \in {"exhaust", "call"} /\ SrcDesc(linkInDb) = t

\* The timers run at their children's interval; no more time is counted than has passed,
\* and while a tick waits to be counted, its interval has passed as well.
TimerInv ==
  \A r \in Members \ {Head} :
    SrcDesc(r) \in Timers =>
      /\ setting[SrcDesc(r)] = Context[r].tick
      /\ Passed(r, 0)
      /\ SourceIsActive(SrcDesc(r)) /\ ~Walking(SrcDesc(r)) => Passed(r, Context[r].tick)

\* A tick waits to be counted for the children that the walk has still to meet.
AheadDue ==
  \E rank \in [Records -> Nat], n \in Nat :
    /\ Numbered(rank, n)
    /\ \A r \in Members \ {Head} :
         /\ SrcDesc(r) = SrcDesc(linkInDb) /\ SrcDesc(r) \in Timers
         /\ linkToExhaust # Head /\ rank[linkToExhaust] <= rank[r]
         => Passed(r, Context[r].tick)

\* The inductive invariant of the timers.
PeriodInv ==
  CountType /\ VisitInv /\ TimerInv /\ (pc \in {"exhaust", "call"} => AheadDue)

\* The contexts are those of the children's types.
LEMMA ContextTypes ==
  ASSUME NEW r \in Records
  PROVE  /\ Context[r].tick \in Nat /\ Context[r].period \in Nat
         /\ SrcDesc(r) \in Timers <=> Context[r].type = "timer"
         /\ SrcDesc(r) \in Sources
<1>1. Context[r] \in [type : {"sw", "usb", "timer"}, value : 0 .. AnyValue,
                      tick : Intervals, period : Nat]
  BY DispatcherAssumption
<1>2. Context[r].tick \in Nat /\ Context[r].period \in Nat
  BY <1>1 DEF Intervals
<1>3. Context[r].type \in {"sw", "usb", "timer"}
  BY <1>1
<1>4. SrcDesc(r) \in Timers <=> Context[r].type = "timer"
  BY <1>3 DEF SrcDesc, Timers, Timer
<1> QED BY <1>2, <1>4, SourceOfRecord

\* InsertTailList: a walk comes to the new entry, after all the others.
LEMMA InsertVisits ==
  ASSUME LinkType, LinkInv, VisitInv, NEW r \in Records, state[r] = "new",
         state' = [state EXCEPT ![r] = "in"], InsertTailList(r)
  PROVE  VisitInv'
<1>0. r # Head /\ r \notin Members /\ Members \subseteq Links /\ Head \in Members /\ r \in Links
  BY HeadIsNoRecord DEF Members, In, LinkType, Links
<1>1. Members' = Members \cup {r}
  BY DEF Members, In, LinkType
<1> DEFINE last == bck[Head]
<1>2. last \in Members /\ fwd[last] = Head /\ fwd[Head] \in Members
  BY <1>0 DEF LinkInv
<1>3. fwd'[last] = r /\ \A l \in Members \ {last} : fwd'[l] = fwd[l]
  BY <1>0, <1>2 DEF InsertTailList, LinkType
<1>4. \A l \in Members : fwd[l] \in Members
  BY DEF LinkInv
<1> HIDE DEF last
<1>5. ASSUME NEW S \in SUBSET Links, fwd'[Head] \in S, \A l \in S \ {Head} : fwd'[l] \in S,
             NEW q \in Members \ {Head}
      PROVE  q \in S
  <2> DEFINE T == (S \intersect Members) \cup {Head}
  <2>1. T \in SUBSET Links
    BY <1>0
  <2>2. \A l \in T \ {Head} : fwd[l] \in T
    <3> SUFFICES ASSUME NEW l \in T \ {Head} PROVE fwd[l] \in T
      OBVIOUS
    <3>1. CASE l = last
      BY <1>2, <3>1
    <3>2. CASE l # last
      BY <1>3, <1>4, <1>5, <3>2
    <3> QED BY <3>1, <3>2
  <2>3. fwd[Head] \in T
    BY <1>0, <1>2, <1>3, <1>5
  <2>4. q \in T
    BY <2>1, <2>2, <2>3 DEF VisitInv, Visited
  <2> QED BY <2>4
<1>6. ASSUME NEW S \in SUBSET Links, fwd'[Head] \in S, \A l \in S \ {Head} : fwd'[l] \in S
      PROVE  r \in S
  BY <1>2, <1>3, <1>5, <1>6
<1>7. \A q \in Members' \ {Head} : q \in Records
  BY DEF Members
<1> QED BY <1>1, <1>5, <1>6, <1>7 DEF VisitInv, Visited

\* RemoveEntryList: a walk still comes to the other entries.
LEMMA RemoveVisits ==
  ASSUME LinkType, LinkInv, OrderInv, VisitInv, NEW r \in Records, In(r),
         state' = [state EXCEPT ![r] = "out"], RemoveEntryList(r)
  PROVE  VisitInv'
<1>0. r # Head /\ r \in Members /\ Members \subseteq Links /\ Head \in Members /\ r \in Links
  BY HeadIsNoRecord DEF Members, In, LinkType, Links
<1>1. Members' = Members \ {r}
  BY <1>0 DEF Members, In, LinkType
<1>2. fwd[r] # r
  BY <1>0, NextIsAnother
<1> DEFINE prev == bck[r]
<1>3. fwd[prev] = r /\ prev \in Links /\ prev # r
  BY <1>0, <1>2 DEF LinkInv
<1>4. fwd'[prev] = fwd[r] /\ \A l \in Links \ {prev} : fwd'[l] = fwd[l]
  BY <1>0, <1>3 DEF RemoveEntryList, LinkType
<1> HIDE DEF prev
<1>5. ASSUME NEW S \in SUBSET Links, fwd'[Head] \in S, \A l \in S \ {Head} : fwd'[l] \in S,
             NEW q \in Members \ {Head, r}
      PROVE  q \in S
  <2>1. CASE prev \in S \cup {Head}
    <3> DEFINE T == S \cup {r}
    <3>1. T \in SUBSET Links
      BY <1>0
    <3>2. \A l \in T \ {Head} : fwd[l] \in T
      BY <1>3, <1>4, <1>5, <2>1
    <3>3. fwd[Head] \in T
      BY <1>0, <1>3, <1>4, <1>5
    <3>4. q \in T
      BY <3>1, <3>2, <3>3 DEF VisitInv, Visited
    <3> QED BY <3>4
  <2>2. CASE prev \notin S \cup {Head}
    <3>1. \A l \in S \ {Head} : fwd[l] \in S
      BY <1>4, <1>5, <2>2
    <3>2. fwd[Head] \in S
      BY <1>0, <1>4, <1>5, <2>2
    <3> QED BY <3>1, <3>2 DEF VisitInv, Visited
  <2> QED BY <2>1, <2>2
<1>6. \A q \in Members' \ {Head} : q \in Records
  BY DEF Members
<1> QED BY <1>1, <1>5, <1>6 DEF VisitInv, Visited

\* PchSmmPeriodicTimerProgramTimers gives a timer with children their interval and clears
\* its status.
LEMMA ProgrammedPeriod ==
  ASSUME EqualTicks, CountType, NEW f, NEW r \in Visited(f), SrcDesc(r) \in Timers
  PROVE  /\ ProgrammedInterval(f)[SrcDesc(r)] = Context[r].tick
         /\ ProgrammedStatus(f)[SrcDesc(r)] = FALSE
<1>0. r \in Records
  BY DEF Visited
<1>1. r \in TimerChildren(SrcDesc(r), f)
  BY <1>0, ContextTypes DEF TimerChildren
<1>2. SrcDesc(r) \in InUse(f)
  BY <1>1 DEF InUse
<1> DEFINE T == {Context[q].tick : q \in TimerChildren(SrcDesc(r), f)}
<1>3. T = {Context[r].tick}
  BY <1>0, <1>1 DEF TimerChildren, Visited, EqualTicks
<1>4. Min(T) = Context[r].tick
  <2> HIDE DEF T
  <2>1. Min({Context[r].tick}) = Context[r].tick
    BY <1>0, ContextTypes DEF Min
  <2> QED BY <1>3, <2>1
<1>5. ProgrammedInterval(f)[SrcDesc(r)] = Min(T)
  BY <1>2 DEF ProgrammedInterval
<1>6. ProgrammedStatus(f)[SrcDesc(r)] = FALSE
  BY <1>0, <1>2, ContextTypes DEF ProgrammedStatus
<1> QED BY <1>4, <1>5, <1>6

\* The history counts up to the period.
LEMMA MinOfTwo ==
  ASSUME NEW a \in Nat, NEW b \in Nat
  PROVE  Min({a, b}) = IF a <= b THEN a ELSE b
BY DEF Min

\* Nothing is counted, no time passes and no timer becomes active.
LEMMA PeriodFrame ==
  ASSUME PeriodInv, UNCHANGED <<fwd, elapsed, since, setting>>,
         Members' = Members, \A r \in Records : state'[r] = "new" => state[r] = "new",
         sts' \in [Sources -> BOOLEAN], en' \in [Sources -> BOOLEAN],
         \A t \in Timers : SourceIsActive(t)' /\ ~Walking(t)' => SourceIsActive(t) /\ ~Walking(t),
         \/ pc' \notin {"exhaust", "call"}
         \/ /\ pc \in {"exhaust", "call"}
            /\ linkInDb' = linkInDb /\ linkToExhaust' = linkToExhaust
  PROVE  PeriodInv'
<1>1. CountType'
  BY DEF PeriodInv, CountType
<1>2. VisitInv'
  BY DEF PeriodInv, VisitInv, Visited
<1>3. TimerInv'
  BY DEF PeriodInv, TimerInv, Passed
<1>4. pc' \in {"exhaust", "call"} => AheadDue'
  <2> HAVE pc' \in {"exhaust", "call"}
  <2>1. PICK rank \in [Records -> Nat], n \in Nat :
          /\ Numbered(rank, n)
          /\ \A r \in Members \ {Head} :
               /\ SrcDesc(r) = SrcDesc(linkInDb) /\ SrcDesc(r) \in Timers
               /\ linkToExhaust # Head /\ rank[linkToExhaust] <= rank[r]
               => Passed(r, Context[r].tick)
    BY DEF PeriodInv, AheadDue
  <2>2. Numbered(rank, n)'
    BY <2>1 DEF Numbered
  <2>3. \A r, e : Passed(r, e)' <=> Passed(r, e)
    BY DEF Passed
  <2> QED BY <2>1, <2>2, <2>3 DEF AheadDue
<1> QED BY <1>1, <1>2, <1>3, <1>4 DEF PeriodInv

\* A tick: the interval has passed for the children of the timer.
LEMMA TickCounts ==
  ASSUME PeriodInv, NEW t \in Timers, Tick(t)
  PROVE  PeriodInv'
<1>1. /\ UNCHANGED <<fwd, state, elapsed, en, setting, pc, linkInDb, linkToExhaust>>
      /\ sts' = [sts EXCEPT ![t] = TRUE] /\ t \in Sources
      /\ since' = [r \in Records |->
                     IF SrcDesc(r) = t THEN Min({since[r] + setting[t], Context[r].period})
                     ELSE since[r]]
  BY DEF Tick, Latch, list, walk, Sources
<1>2. ASSUME NEW r \in Records
      PROVE  /\ since[r] \in Nat /\ setting[t] \in Nat /\ Context[r].period \in Nat
             /\ elapsed[r] \in Nat /\ Context[r].tick \in Nat /\ since[r] <= Context[r].period
  BY ContextTypes DEF PeriodInv, CountType
<1>3. ASSUME NEW r \in Records
      PROVE  /\ since'[r] \in Nat /\ since'[r] >= since[r] /\ since'[r] <= Context[r].period
             /\ SrcDesc(r) = t => \/ since'[r] >= since[r] + setting[t]
                                  \/ since'[r] = Context[r].period
  <2>1. CASE SrcDesc(r) = t
    <3>1. since'[r] = Min({since[r] + setting[t], Context[r].period})
      BY <1>1, <2>1
    <3>2. since[r] + setting[t] \in Nat
      BY <1>2
    <3>3. since'[r] = IF since[r] + setting[t] <= Context[r].period THEN since[r] + setting[t]
                      ELSE Context[r].period
      BY <1>2, <3>1, <3>2, MinOfTwo
    <3> QED BY <1>2, <3>3
  <2>2. CASE SrcDesc(r) # t
    BY <1>1, <1>2, <2>2
  <2> QED BY <2>1, <2>2
<1>4. Members' = Members
  BY <1>1 DEF Members, In
<1>5. CountType'
  <2>1. since' \in [Records -> Nat]
    <3>1. since' = [r \in Records |-> since'[r]]
      BY <1>1
    <3> QED BY <1>3, <3>1
  <2>2. sts' \in [Sources -> BOOLEAN]
    BY <1>1 DEF PeriodInv, CountType
  <2>3. ASSUME NEW r \in Records, state'[r] = "new" PROVE since'[r] = Context[r].period
    BY <1>1, <1>2, <1>3, <2>3 DEF PeriodInv, CountType
  <2> QED BY <1>1, <1>3, <2>1, <2>2, <2>3 DEF PeriodInv, CountType
<1>6. ASSUME NEW r \in Records, NEW e \in Nat, Passed(r, e) PROVE Passed(r, e)'
  BY <1>1, <1>2, <1>3, <1>6 DEF Passed
<1>7. VisitInv'
  BY <1>1, <1>4 DEF PeriodInv, VisitInv, Visited
<1>8. TimerInv'
  <2> SUFFICES ASSUME NEW r \in Members \ {Head}, SrcDesc(r) \in Timers
               PROVE  /\ setting'[SrcDesc(r)] = Context[r].tick
                      /\ Passed(r, 0)'
                      /\ SourceIsActive(SrcDesc(r))' /\ ~Walking(SrcDesc(r))'
                           => Passed(r, Context[r].tick)'
    BY <1>4 DEF TimerInv
  <2>0. r \in Records
    BY DEF Members
  <2>1. setting'[SrcDesc(r)] = Context[r].tick /\ Passed(r, 0)
    BY <1>1 DEF PeriodInv, TimerInv
  <2>2. Passed(r, 0)'
    BY <1>6, <2>0, <2>1
  <2>3. CASE SrcDesc(r) = t
    <3>1. Passed(r, Context[r].tick)'
      BY <1>1, <1>2, <1>3, <2>0, <2>1, <2>3 DEF Passed
    <3> QED BY <2>1, <2>2, <3>1
  <2>4. CASE SrcDesc(r) # t
    <3>1. SourceIsActive(SrcDesc(r))' /\ ~Walking(SrcDesc(r))'
            => SourceIsActive(SrcDesc(r)) /\ ~Walking(SrcDesc(r))
      BY <1>1, <2>0, <2>4, ContextTypes DEF SourceIsActive, Walking, PeriodInv, CountType
    <3>2. SourceIsActive(SrcDesc(r)) /\ ~Walking(SrcDesc(r)) => Passed(r, Context[r].tick)
      BY DEF PeriodInv, TimerInv
    <3> QED BY <1>2, <1>6, <2>0, <2>1, <2>2, <3>1, <3>2
  <2> QED BY <2>3, <2>4
<1>9. pc' \in {"exhaust", "call"} => AheadDue'
  <2> HAVE pc' \in {"exhaust", "call"}
  <2>1. PICK rank \in [Records -> Nat], n \in Nat :
          /\ Numbered(rank, n)
          /\ \A r \in Members \ {Head} :
               /\ SrcDesc(r) = SrcDesc(linkInDb) /\ SrcDesc(r) \in Timers
               /\ linkToExhaust # Head /\ rank[linkToExhaust] <= rank[r]
               => Passed(r, Context[r].tick)
    BY <1>1 DEF PeriodInv, AheadDue
  <2>2. Numbered(rank, n)'
    BY <1>1, <1>4, <2>1 DEF Numbered
  <2>3. ASSUME NEW r \in Members \ {Head}, Passed(r, Context[r].tick)
        PROVE  Passed(r, Context[r].tick)'
    BY <1>2, <1>6, <2>3 DEF Members
  <2> QED BY <1>1, <1>4, <2>1, <2>2, <2>3 DEF AheadDue
<1> QED BY <1>5, <1>7, <1>8, <1>9 DEF PeriodInv

\* Steps of the chipset, of SMI entry and of the dispatcher outside a walk over the queue
\* count nothing.
LEMMA OutsidePeriod ==
  ASSUME ListInv, PeriodInv,
         RaiseSmi \/ UsbEvent \/ SmiEntry \/ Activate \/ (\E v \in 1 .. MaxSwi : SwSmi(v))
  PROVE  PeriodInv'
<1>1. /\ UNCHANGED <<fwd, state, elapsed, since, setting, linkInDb, linkToExhaust>>
      /\ pc' = pc \/ (pc = "idle" /\ pc' = "entered")
  BY DEF RaiseSmi, UsbEvent, SmiEntry, Activate, SwSmi, list, walk, history
<1>2. Members' = Members
  BY <1>1 DEF Members, In
<1>3. "usb" \in Sources /\ "sw" \in Sources /\ "usb" \notin Timers /\ "sw" \notin Timers
      /\ Timers \subseteq Sources
  BY DEF Sources, Timers
<1>4. en \in [Sources -> BOOLEAN] /\ sts \in [Sources -> BOOLEAN]
  BY DEF PeriodInv, CountType
<1>5. /\ sts' \in [Sources -> BOOLEAN] /\ en' \in [Sources -> BOOLEAN]
      /\ \A t \in Timers : sts'[t] = sts[t] /\ en'[t] = en[t]
  <2>1. \/ sts' = sts \/ sts' = [sts EXCEPT !["usb"] = TRUE] \/ sts' = [sts EXCEPT !["sw"] = TRUE]
    BY DEF RaiseSmi, UsbEvent, SmiEntry, Activate, SwSmi, Latch
  <2>2. en' = en \/ en' = [en EXCEPT !["sw"] = TRUE]
    BY DEF RaiseSmi, UsbEvent, SmiEntry, Activate, SwSmi
  <2>3. sts' \in [Sources -> BOOLEAN] /\ \A t \in Timers : sts'[t] = sts[t]
    BY <1>3, <1>4, <2>1
  <2>4. en' \in [Sources -> BOOLEAN] /\ \A t \in Timers : en'[t] = en[t]
    BY <1>3, <1>4, <2>2
  <2> QED BY <2>3, <2>4
<1>6. \A t \in Timers : SourceIsActive(t)' /\ ~Walking(t)' => SourceIsActive(t) /\ ~Walking(t)
  BY <1>1, <1>5 DEF SourceIsActive, Walking
<1> QED BY <1>1, <1>2, <1>5, <1>6, PeriodFrame

\* The dispatcher outside the walk over the queue, a refusal and a stuttering step.
LEMMA QuietPeriod ==
  ASSUME ListInv, PeriodInv,
         \/ DispatcherEntry \/ Iterate \/ LoopEnds \/ ScanNext \/ CallbackReturns
         \/ SourceHandled \/ Return \/ (\E r \in Records : RegistrationFails(r))
         \/ UNCHANGED vars
  PROVE  PeriodInv'
<1>0. /\ sts' = sts \/ sts' = [sts EXCEPT !["sw"] = FALSE]
      /\ en \in [Sources -> BOOLEAN] /\ sts \in [Sources -> BOOLEAN]
  BY DEF DispatcherEntry, Iterate, LoopEnds, ScanNext, CallbackReturns, SourceHandled, Return,
     ClearSmi, SwStatusCleared, RegistrationFails, vars, chipset, PeriodInv, CountType
<1>1. /\ UNCHANGED <<fwd, elapsed, since, setting, en, linkToExhaust>>
      /\ \/ pc \notin {"exhaust", "call"} /\ pc' \notin {"exhaust", "call"}
         \/ /\ pc \in {"exhaust", "call"} /\ pc' \in {"exhaust", "call"}
            /\ linkInDb' = linkInDb
  BY DEF DispatcherEntry, Iterate, LoopEnds, ScanNext, CallbackReturns, SourceHandled, Return,
     RegistrationFails, Clients, vars, list, walk, chipset, history
<1>2. Members' = Members /\ \A r \in Records : state'[r] = "new" => state[r] = "new"
  <2>1. CASE state' = state
    BY <2>1 DEF Members, In
  <2>2. CASE state' # state
    <3>1. PICK r \in Records : RegistrationFails(r)
      BY <2>2 DEF DispatcherEntry, Iterate, LoopEnds, ScanNext, CallbackReturns,
         SourceHandled, Return, vars, list
    <3>2. state[r] = "new" /\ state' = [state EXCEPT ![r] = "refused"]
          /\ state \in [Records -> States]
      BY <3>1 DEF RegistrationFails, ListInv, LinkType
    <3> QED BY <3>2 DEF Members, In
  <2> QED BY <2>1, <2>2
<1>5. \A t \in Timers : sts'[t] = sts[t]
  BY <1>0 DEF Sources, Timers
<1>3. \A t \in Timers : SourceIsActive(t)' /\ ~Walking(t)' => SourceIsActive(t) /\ ~Walking(t)
  BY <1>1, <1>5 DEF SourceIsActive, Walking
<1>4. sts' \in [Sources -> BOOLEAN] /\ en' \in [Sources -> BOOLEAN]
  BY <1>0, <1>1
<1> QED BY <1>1, <1>2, <1>3, <1>4, PeriodFrame

\* The walk over the queue begins: a tick of the active timer waits for each of its children.
LEMMA FindPeriod ==
  ASSUME ListInv, PeriodInv, ScanFinds
  PROVE  PeriodInv'
<1>1. /\ UNCHANGED <<fwd, state, elapsed, since, setting, sts, en, linkInDb>>
      /\ pc = "scan" /\ pc' = "exhaust" /\ SourceIsActive(SrcDesc(linkInDb))
  BY DEF ScanFinds, list, chipset, history
<1>2. Members' = Members
  BY <1>1 DEF Members, In
<1>3. CountType' /\ VisitInv'
  BY <1>1, <1>2 DEF PeriodInv, CountType, VisitInv, Visited
<1>4. \A r, e : Passed(r, e)' <=> Passed(r, e)
  BY <1>1 DEF Passed
<1>5. TimerInv'
  BY <1>1, <1>2, <1>4 DEF PeriodInv, TimerInv, Walking, SourceIsActive
<1>6. PICK rank \in [Records -> Nat], n \in Nat : Numbered(rank, n)
  BY DEF ListInv, OrderInv
<1>7. Numbered(rank, n)'
  BY <1>1, <1>2, <1>6 DEF Numbered
<1>8. \A r \in Members \ {Head} :
        SrcDesc(r) = SrcDesc(linkInDb) /\ SrcDesc(r) \in Timers => Passed(r, Context[r].tick)
  BY <1>1 DEF PeriodInv, TimerInv, Walking
<1>9. AheadDue'
  BY <1>1, <1>2, <1>4, <1>7, <1>8 DEF AheadDue
<1> QED BY <1>3, <1>5, <1>9 DEF PeriodInv

\* The entries behind the one that the walk meets.
LEMMA StepAhead ==
  ASSUME ListInv, PeriodInv, pc = "exhaust", linkToExhaust # Head,
         linkToExhaust' = fwd[linkToExhaust], UNCHANGED <<fwd, state, linkInDb>>,
         \A q \in Records \ {linkToExhaust} : elapsed'[q] = elapsed[q] /\ since'[q] = since[q]
  PROVE  AheadDue'
<1> DEFINE r == linkToExhaust
<1>1. r \in Members \ {Head} /\ r \in Records /\ fwd[r] \in Members
  BY DEF ListInv, WalkInv, LinkInv, Members
<1>2. Members' = Members
  BY DEF Members, In
<1>3. PICK rank \in [Records -> Nat], n \in Nat :
        /\ Numbered(rank, n)
        /\ \A q \in Members \ {Head} :
             /\ SrcDesc(q) = SrcDesc(linkInDb) /\ SrcDesc(q) \in Timers
             /\ linkToExhaust # Head /\ rank[linkToExhaust] <= rank[q]
             => Passed(q, Context[q].tick)
  BY DEF PeriodInv, AheadDue
<1>4. Numbered(rank, n)'
  BY <1>2, <1>3 DEF Numbered
<1>5. ASSUME NEW q \in Members \ {Head}, SrcDesc(q) = SrcDesc(linkInDb), SrcDesc(q) \in Timers,
             fwd[r] # Head, rank[fwd[r]] <= rank[q]
      PROVE  Passed(q, Context[q].tick)'
  <2>1. q \in Records /\ fwd[r] \in Records
    BY <1>1, <1>5 DEF Members
  <2>2. rank[r] \in Nat /\ rank[q] \in Nat /\ rank[fwd[r]] \in Nat
    BY <1>1, <1>3, <2>1
  <2>3. rank[r] < rank[fwd[r]]
    BY <1>1, <1>3, <1>5 DEF Numbered
  <2>4. q # r /\ rank[r] <= rank[q]
    BY <1>5, <2>2, <2>3
  <2>5. Passed(q, Context[q].tick)
    BY <1>1, <1>3, <1>5, <2>4
  <2> QED BY <2>1, <2>4, <2>5 DEF Passed
<1> QED BY <1>2, <1>4, <1>5 DEF AheadDue

\* A child that the walk meets: its tick is counted or starts its period again, once.
LEMMA QueuePeriod ==
  ASSUME ListInv, PeriodInv, ExhaustCalls \/ ExhaustSkips
  PROVE  PeriodInv'
<1> DEFINE r == linkToExhaust
<1>1. /\ UNCHANGED <<fwd, state, setting, sts, en, linkInDb>> /\ r # Head
      /\ pc = "exhaust" /\ pc' \in {"exhaust", "call"} /\ linkToExhaust' = fwd[r]
  BY DEF ExhaustCalls, ExhaustSkips, list, chipset, NextLink
<1>2. r \in Members \ {Head} /\ r \in Records
  BY <1>1 DEF ListInv, WalkInv, Members
<1>3. Members' = Members
  BY <1>1 DEF Members, In
<1>4. /\ elapsed \in [Records -> Nat] /\ since \in [Records -> Nat]
      /\ Context[r].tick \in Nat /\ Context[r].period \in Nat
  BY <1>2, ContextTypes DEF PeriodInv, CountType
<1>5. /\ \A q \in Records \ {r} : elapsed'[q] = elapsed[q] /\ since'[q] = since[q]
      /\ elapsed' \in [Records -> Nat] /\ since' \in [Records -> Nat]
      /\ since'[r] \in {0, since[r]}
      /\ \/ elapsed'[r] = elapsed[r] /\ since'[r] = since[r]
         \/ elapsed'[r] = 0 /\ since'[r] = 0 /\ SrcDesc(r) = SrcDesc(linkInDb)
         \/ /\ elapsed'[r] = elapsed[r] + Context[r].tick /\ since'[r] = since[r]
            /\ SrcDesc(r) = SrcDesc(linkInDb) /\ SrcDesc(r) \in Timers
  <2>1. CASE ExhaustCalls
    <3> DEFINE e == IF SrcDesc(r) \in Timers THEN 0 ELSE elapsed[r]
               s == IF SrcDesc(r) \in Timers THEN 0 ELSE since[r]
    <3>1. /\ elapsed' = [elapsed EXCEPT ![r] = e]
          /\ since' = [since EXCEPT ![r] = s]
          /\ SrcDesc(r) = SrcDesc(linkInDb)
      BY <2>1 DEF ExhaustCalls, ElapsedAtCall
    <3>2. e \in Nat /\ s \in Nat /\ ((e = 0 /\ s = 0) \/ (e = elapsed[r] /\ s = since[r]))
      BY <1>2, <1>4
    <3> HIDE DEF e, s
    <3> QED BY <1>2, <1>4, <3>1, <3>2
  <2>2. CASE ExhaustSkips
    <3> DEFINE e == IF SrcDesc(r) \in Timers /\ SrcDesc(r) = SrcDesc(linkInDb)
                    THEN elapsed[r] + Context[r].tick ELSE elapsed[r]
    <3>1. elapsed' = [elapsed EXCEPT ![r] = e] /\ since' = since
      BY <2>2 DEF ExhaustSkips, ElapsedAtTick, history
    <3>2. /\ e \in Nat
          /\ \/ e = elapsed[r]
             \/ /\ e = elapsed[r] + Context[r].tick
                /\ SrcDesc(r) \in Timers /\ SrcDesc(r) = SrcDesc(linkInDb)
      BY <1>2, <1>4
    <3> HIDE DEF e
    <3> QED BY <1>2, <1>4, <3>1, <3>2
  <2> QED BY <2>1, <2>2
<1>6. CountType'
  <2>1. since'[r] <= Context[r].period
    BY <1>2, <1>4, <1>5 DEF PeriodInv, CountType
  <2>2. state[r] # "new"
    BY <1>2, HeadIsNoRecord DEF Members, In
  <2> QED BY <1>1, <1>5, <2>1, <2>2 DEF PeriodInv, CountType
<1>7. VisitInv'
  BY <1>1, <1>3 DEF PeriodInv, VisitInv, Visited
<1>8. AheadDue'
  BY <1>1, <1>5, StepAhead
<1>9. TimerInv'
  <2> SUFFICES ASSUME NEW q \in Members \ {Head}, SrcDesc(q) \in Timers
               PROVE  /\ setting'[SrcDesc(q)] = Context[q].tick
                      /\ Passed(q, 0)'
                      /\ SourceIsActive(SrcDesc(q))' /\ ~Walking(SrcDesc(q))'
                           => Passed(q, Context[q].tick)'
    BY <1>3 DEF TimerInv
  <2>1. q \in Records
    BY DEF Members
  <2>2. /\ setting[SrcDesc(q)] = Context[q].tick /\ Passed(q, 0)
        /\ SourceIsActive(SrcDesc(q)) /\ ~Walking(SrcDesc(q)) => Passed(q, Context[q].tick)
    BY DEF PeriodInv, TimerInv
  <2>3. SourceIsActive(SrcDesc(q))' /\ ~Walking(SrcDesc(q))'
          => SourceIsActive(SrcDesc(q)) /\ ~Walking(SrcDesc(q))
    BY <1>1 DEF SourceIsActive, Walking
  <2>4. CASE elapsed'[q] = elapsed[q] /\ since'[q] = since[q]
    BY <1>1, <2>2, <2>3, <2>4 DEF Passed
  <2>5. CASE ~(elapsed'[q] = elapsed[q] /\ since'[q] = since[q])
    <3>1. q = r /\ SrcDesc(q) = SrcDesc(linkInDb)
      BY <1>5, <2>1, <2>5
    <3>2. Walking(SrcDesc(q))'
      BY <1>1, <3>1 DEF Walking
    <3>3. Passed(q, Context[q].tick)
      <4>1. PICK rank \in [Records -> Nat], n \in Nat :
              \A p \in Members \ {Head} :
                /\ SrcDesc(p) = SrcDesc(linkInDb) /\ SrcDesc(p) \in Timers
                /\ linkToExhaust # Head /\ rank[linkToExhaust] <= rank[p]
                => Passed(p, Context[p].tick)
        BY <1>1 DEF PeriodInv, AheadDue
      <4>2. rank[q] <= rank[q]
        BY <2>1, <4>1
      <4> QED BY <1>1, <3>1, <4>1, <4>2
    <3>4. Passed(q, 0)'
      <4>1. CASE elapsed'[q] = 0 /\ since'[q] = 0
        BY <4>1 DEF Passed
      <4>2. CASE elapsed'[q] = elapsed[q] + Context[q].tick /\ since'[q] = since[q]
        BY <1>4, <2>1, <3>1, <3>3, <4>2 DEF Passed
      <4> QED BY <1>5, <2>5, <3>1, <4>1, <4>2
    <3> QED BY <1>1, <2>2, <3>2, <3>4
  <2> QED BY <2>4, <2>5
<1> QED BY <1>6, <1>7, <1>8, <1>9 DEF PeriodInv

\* Programming the timers leaves intervals.
LEMMA ProgrammedTypes ==
  ASSUME EqualTicks, CountType, NEW f
  PROVE  /\ ProgrammedInterval(f) \in [Timers -> Nat]
         /\ ProgrammedStatus(f) \in [Sources -> BOOLEAN]
         /\ ProgrammedEnable(f) \in [Sources -> BOOLEAN]
<1>1. ASSUME NEW t \in Timers PROVE ProgrammedInterval(f)[t] \in Nat
  <2>1. CASE t \in InUse(f)
    <3>1. PICK r \in TimerChildren(t, f) : TRUE
      BY <2>1 DEF InUse
    <3>2. r \in Visited(f) /\ r \in Records /\ SrcDesc(r) = t
      BY <3>1 DEF TimerChildren, Visited
    <3>3. ProgrammedInterval(f)[t] = Context[r].tick
      BY <3>2, ProgrammedPeriod
    <3> QED BY <3>2, <3>3, ContextTypes
  <2>2. CASE t \notin InUse(f)
    BY <2>2 DEF ProgrammedInterval, CountType
  <2> QED BY <2>1, <2>2
<1>2. ProgrammedInterval(f) = [t \in Timers |-> ProgrammedInterval(f)[t]]
  BY DEF ProgrammedInterval
<1>3. ProgrammedInterval(f) \in [Timers -> Nat]
  BY <1>1, <1>2
<1>4. ProgrammedStatus(f) \in [Sources -> BOOLEAN]
  BY DEF ProgrammedStatus, CountType
<1>5. ProgrammedEnable(f) \in [Sources -> BOOLEAN]
  BY DEF ProgrammedEnable, CountType
<1> QED BY <1>3, <1>4, <1>5

\* The queue has been walked: no tick waits at a timer that has children.
LEMMA ClearPeriod ==
  ASSUME EqualTicks, ListInv, PeriodInv, QueueExhausted
  PROVE  PeriodInv'
<1>1. /\ UNCHANGED <<fwd, state, elapsed, since, linkInDb, linkToExhaust>>
      /\ pc = "exhaust" /\ pc' = "eos" /\ ClearSource(SrcDesc(linkInDb))
      /\ SrcDesc(linkInDb) \in Sources
  BY SourceOfRecord DEF QueueExhausted, list, walk, history, ListInv, WalkInv
<1>2. Members' = Members
  BY <1>1 DEF Members, In
<1>3. CASE SrcDesc(linkInDb) \in Timers
  <2>1. /\ setting' = ProgrammedInterval(fwd) /\ sts' = ProgrammedStatus(fwd)
        /\ en' = ProgrammedEnable(fwd)
    BY <1>1, <1>3 DEF ClearSource
  <2>2. /\ setting' \in [Timers -> Nat] /\ sts' \in [Sources -> BOOLEAN]
        /\ en' \in [Sources -> BOOLEAN]
    BY <2>1, ProgrammedTypes DEF PeriodInv
  <2>3. CountType'
    BY <1>1, <2>2 DEF PeriodInv, CountType
  <2>4. VisitInv'
    BY <1>1, <1>2 DEF PeriodInv, VisitInv, Visited
  <2>5. TimerInv'
    <3>1. ASSUME NEW r \in Members \ {Head}, SrcDesc(r) \in Timers
          PROVE  /\ setting'[SrcDesc(r)] = Context[r].tick /\ Passed(r, 0)'
                 /\ ~SourceIsActive(SrcDesc(r))'
      <4>1. r \in Visited(fwd)
        BY DEF PeriodInv, VisitInv
      <4>2. setting'[SrcDesc(r)] = Context[r].tick /\ sts'[SrcDesc(r)] = FALSE
        BY <2>1, <3>1, <4>1, ProgrammedPeriod DEF PeriodInv
      <4>3. Passed(r, 0)
        BY <3>1 DEF PeriodInv, TimerInv
      <4> QED BY <1>1, <4>2, <4>3 DEF Passed, SourceIsActive
    <3> QED BY <1>2, <3>1 DEF TimerInv
  <2> QED BY <1>1, <2>3, <2>4, <2>5 DEF PeriodInv
<1>4. CASE SrcDesc(linkInDb) \notin Timers
  <2>1. sts' = [sts EXCEPT ![SrcDesc(linkInDb)] = FALSE] /\ UNCHANGED <<en, setting>>
    BY <1>1, <1>4 DEF ClearSource
  <2>2. sts' \in [Sources -> BOOLEAN] /\ en' \in [Sources -> BOOLEAN]
    BY <2>1 DEF PeriodInv, CountType
  <2>3. \A t \in Timers : SourceIsActive(t)' /\ ~Walking(t)' => SourceIsActive(t) /\ ~Walking(t)
    <3>1. \A t \in Timers : sts'[t] = sts[t] /\ en'[t] = en[t]
      BY <1>4, <2>1 DEF PeriodInv, CountType, Sources
    <3> QED BY <1>4, <3>1 DEF SourceIsActive, Walking
  <2> QED BY <1>1, <1>2, <2>1, <2>2, <2>3, PeriodFrame
<1> QED BY <1>3, <1>4

\* A new child: the timers are programmed again, and the child has waited for ever.
LEMMA RegisterPeriod ==
  ASSUME EqualTicks, ListInv, PeriodInv, NEW r \in Records, PchSmmCoreRegister(r)
  PROVE  PeriodInv'
<1>1. /\ state[r] = "new" /\ state' = [state EXCEPT ![r] = "in"] /\ InsertTailList(r)
      /\ EnableSource(r) /\ UNCHANGED <<pc, linkInDb, linkToExhaust, since>>
      /\ \E e \in 0 .. Context[r].period : elapsed' = [elapsed EXCEPT ![r] = e]
  BY DEF PchSmmCoreRegister, walk
<1>2. LinkType /\ LinkInv /\ OrderInv
  BY DEF ListInv
<1>3. Members' = Members \cup {r} /\ r \notin Members /\ r # Head
  BY <1>1, HeadIsNoRecord, <1>2 DEF Members, In, LinkType
<1>4. /\ Context[r].tick \in Nat /\ Context[r].period \in Nat /\ SrcDesc(r) \in Sources
      /\ since[r] = Context[r].period
  BY <1>1, ContextTypes DEF PeriodInv, CountType
<1>5. elapsed' \in [Records -> Nat] /\ \A q \in Records \ {r} : elapsed'[q] = elapsed[q]
  BY <1>1, <1>4 DEF PeriodInv, CountType
<1>6. VisitInv'
  BY <1>1, <1>2, InsertVisits DEF PeriodInv
<1>7. \A q \in Records : state'[q] = "new" => state[q] = "new"
  BY <1>1, <1>2 DEF LinkType
<1>8. \A e : Passed(r, e)'
  BY <1>1, <1>4 DEF Passed
<1>9. \A q \in Records \ {r} : \A e : Passed(q, e)' <=> Passed(q, e)
  BY <1>1, <1>5 DEF Passed
<1>10. \A q \in Members' \ {Head} : q \in Records
  BY DEF Members
<1>11. pc' \in {"exhaust", "call"} => AheadDue'
  <2> HAVE pc' \in {"exhaust", "call"}
  <2>1. PICK rank \in [Records -> Nat], n \in Nat :
          /\ Numbered(rank, n)
          /\ \A q \in Members \ {Head} :
               /\ SrcDesc(q) = SrcDesc(linkInDb) /\ SrcDesc(q) \in Timers
               /\ linkToExhaust # Head /\ rank[linkToExhaust] <= rank[q]
               => Passed(q, Context[q].tick)
    BY <1>1 DEF PeriodInv, AheadDue
  <2>2. PICK new \in [Records -> Nat] : new = [rank EXCEPT ![r] = n]
    OBVIOUS
  <2>3. n + 1 \in Nat /\ Numbered(new, n + 1)'
    <3>1. Numbered([rank EXCEPT ![r] = n], n + 1)'
      BY <1>1, <1>2, <2>1, InsertNumbers
    <3> QED BY <2>2, <3>1 DEF Numbered
  <2>4. linkToExhaust \in Members
    BY <1>1 DEF ListInv, WalkInv
  <2>5. ASSUME NEW q \in Members' \ {Head}, SrcDesc(q) = SrcDesc(linkInDb),
               SrcDesc(q) \in Timers, linkToExhaust # Head, new[linkToExhaust] <= new[q]
        PROVE  Passed(q, Context[q].tick)'
    <3>1. CASE q = r
      BY <1>8, <3>1
    <3>2. CASE q # r
      <4>1. q \in Members \ {Head} /\ q \in Records /\ linkToExhaust \in Records \ {r}
        BY <1>3, <1>10, <2>4, <2>5, <3>2 DEF Members
      <4>2. rank[linkToExhaust] <= rank[q]
        BY <2>2, <2>5, <3>2, <4>1
      <4>3. Passed(q, Context[q].tick)
        BY <2>1, <2>5, <4>1, <4>2
      <4> QED BY <1>9, <3>2, <4>1, <4>3
    <3> QED BY <3>1, <3>2
  <2> QED BY <1>1, <2>3, <2>5 DEF AheadDue
<1>12. CASE SrcDesc(r) \in Timers
  <2>1. /\ setting' = ProgrammedInterval(fwd')
        /\ sts' = [ProgrammedStatus(fwd') EXCEPT ![SrcDesc(r)] = FALSE]
        /\ en' = [ProgrammedEnable(fwd') EXCEPT ![SrcDesc(r)] = TRUE]
    BY <1>1, <1>12 DEF EnableSource
  <2> DEFINE S == ProgrammedStatus(fwd')
             E == ProgrammedEnable(fwd')
  <2>2. /\ setting' \in [Timers -> Nat] /\ S \in [Sources -> BOOLEAN]
        /\ E \in [Sources -> BOOLEAN]
    BY <2>1, ProgrammedTypes DEF PeriodInv
  <2>3. ASSUME NEW q \in Members' \ {Head}, SrcDesc(q) \in Timers
        PROVE  setting'[SrcDesc(q)] = Context[q].tick /\ S[SrcDesc(q)] = FALSE
    <3>1. q \in Visited(fwd')
      BY <1>6 DEF VisitInv
    <3> QED BY <2>1, <2>3, <3>1, ProgrammedPeriod DEF PeriodInv
  <2> HIDE DEF S, E
  <2>4. sts' = [S EXCEPT ![SrcDesc(r)] = FALSE] /\ en' = [E EXCEPT ![SrcDesc(r)] = TRUE]
    BY <2>1 DEF S, E
  <2>5. sts' \in [Sources -> BOOLEAN] /\ en' \in [Sources -> BOOLEAN]
    BY <2>2, <2>4
  <2>6. CountType'
    BY <1>1, <1>5, <1>7, <2>2, <2>5 DEF PeriodInv, CountType
  <2>7. ASSUME NEW q \in Members' \ {Head}, SrcDesc(q) \in Timers
        PROVE  /\ setting'[SrcDesc(q)] = Context[q].tick /\ Passed(q, 0)'
               /\ ~SourceIsActive(SrcDesc(q))'
    <3>1. setting'[SrcDesc(q)] = Context[q].tick /\ S[SrcDesc(q)] = FALSE
      BY <2>3, <2>7
    <3>2. sts'[SrcDesc(q)] = FALSE
      BY <1>4, <2>2, <2>4, <2>7, <3>1 DEF Sources
    <3>3. Passed(q, 0)'
      <4>1. CASE q = r
        BY <1>8, <4>1
      <4>2. CASE q # r
        <5>1. q \in Members \ {Head} /\ q \in Records
          BY <1>3, <1>10, <4>2
        <5> QED BY <1>9, <2>7, <4>2, <5>1 DEF PeriodInv, TimerInv
      <4> QED BY <4>1, <4>2
    <3> QED BY <3>1, <3>2, <3>3 DEF SourceIsActive
  <2>8. TimerInv'
    BY <2>7 DEF TimerInv
  <2> QED BY <1>6, <1>11, <2>6, <2>8 DEF PeriodInv
<1>13. CASE SrcDesc(r) \notin Timers
  <2>1. /\ sts' = [sts EXCEPT ![SrcDesc(r)] = FALSE] /\ en' = [en EXCEPT ![SrcDesc(r)] = TRUE]
        /\ setting' = setting
    BY <1>1, <1>13 DEF EnableSource
  <2>2. CountType'
    BY <1>1, <1>5, <1>7, <2>1 DEF PeriodInv, CountType
  <2>3. \A t \in Timers : sts'[t] = sts[t] /\ en'[t] = en[t]
    BY <1>4, <1>13, <2>1 DEF PeriodInv, CountType, Sources
  <2>4. ASSUME NEW q \in Members' \ {Head}, SrcDesc(q) \in Timers
        PROVE  /\ setting'[SrcDesc(q)] = Context[q].tick /\ Passed(q, 0)'
               /\ SourceIsActive(SrcDesc(q))' /\ ~Walking(SrcDesc(q))'
                    => Passed(q, Context[q].tick)'
    <3>1. q \in Members \ {Head} /\ q \in Records \ {r}
      BY <1>3, <1>10, <1>13, <2>4
    <3>2. /\ setting[SrcDesc(q)] = Context[q].tick /\ Passed(q, 0)
          /\ SourceIsActive(SrcDesc(q)) /\ ~Walking(SrcDesc(q)) => Passed(q, Context[q].tick)
      BY <2>4, <3>1 DEF PeriodInv, TimerInv
    <3>3. SourceIsActive(SrcDesc(q))' /\ ~Walking(SrcDesc(q))'
            => SourceIsActive(SrcDesc(q)) /\ ~Walking(SrcDesc(q))
      BY <1>1, <2>3, <2>4 DEF SourceIsActive, Walking
    <3> QED BY <1>9, <2>1, <3>1, <3>2, <3>3
  <2>5. TimerInv'
    BY <2>4 DEF TimerInv
  <2> QED BY <1>6, <1>11, <2>2, <2>5 DEF PeriodInv
<1> QED BY <1>12, <1>13

\* A child leaves: the others' time and the order of the queue stay.
LEMMA UnRegisterPeriod ==
  ASSUME ListInv, PeriodInv, NEW r \in Records, PchSmmCoreUnRegister(r)
  PROVE  PeriodInv'
<1>1. /\ In(r) /\ state' = [state EXCEPT ![r] = "out"] /\ RemoveEntryList(r)
      /\ UNCHANGED <<elapsed, since, setting, sts, en, pc, linkInDb, linkToExhaust>>
  BY DEF PchSmmCoreUnRegister, chipset, walk
<1>2. LinkType /\ LinkInv /\ OrderInv
  BY DEF ListInv
<1>3. Members' \subseteq Members
  BY <1>1, <1>2, RemoveKeepsList
<1>4. CountType'
  BY <1>1, <1>2 DEF PeriodInv, CountType, LinkType
<1>5. VisitInv'
  BY <1>1, <1>2, RemoveVisits DEF PeriodInv
<1>6. \A q, e : Passed(q, e)' <=> Passed(q, e)
  BY <1>1 DEF Passed
<1>7. TimerInv'
  <2>1. \A t : /\ SourceIsActive(t)' <=> SourceIsActive(t)
               /\ Walking(t)' <=> Walking(t)
    BY <1>1 DEF SourceIsActive, Walking
  <2> QED BY <1>1, <1>3, <1>6, <2>1 DEF PeriodInv, TimerInv
<1>8. pc' \in {"exhaust", "call"} => AheadDue'
  <2> HAVE pc' \in {"exhaust", "call"}
  <2>1. PICK rank \in [Records -> Nat], n \in Nat :
          /\ Numbered(rank, n)
          /\ \A q \in Members \ {Head} :
               /\ SrcDesc(q) = SrcDesc(linkInDb) /\ SrcDesc(q) \in Timers
               /\ linkToExhaust # Head /\ rank[linkToExhaust] <= rank[q]
               => Passed(q, Context[q].tick)
    BY <1>1 DEF PeriodInv, AheadDue
  <2>2. Numbered(rank, n)'
    BY <1>1, <1>2, <2>1, RemoveNumbers
  <2> QED BY <1>1, <1>3, <1>6, <2>1, <2>2 DEF AheadDue
<1> QED BY <1>4, <1>5, <1>7, <1>8 DEF PeriodInv

\* Before the first registration nobody waits.
LEMMA InitPeriodInv == Init => PeriodInv
<1> SUFFICES ASSUME Init PROVE PeriodInv
  OBVIOUS
<1>1. Members = {Head} /\ pc = "idle"
  BY DEF Init, Members, In
<1>2. \A r \in Records : Context[r].period \in Nat
  BY ContextTypes
<1>3. /\ elapsed \in [Records -> Nat] /\ since \in [Records -> Nat]
      /\ setting \in [Timers -> Nat]
      /\ \A r \in Records : since[r] = Context[r].period /\ since[r] <= Context[r].period
  BY <1>2 DEF Init
<1>4. sts \in [Sources -> BOOLEAN] /\ en \in [Sources -> BOOLEAN]
  BY DEF Init
<1>5. CountType
  BY <1>3, <1>4 DEF CountType
<1> QED BY <1>1, <1>5 DEF PeriodInv, VisitInv, TimerInv

\* One step for each action.
LEMMA StepPeriodInv ==
  ASSUME EqualTicks, ListInv, PeriodInv, [Next]_vars
  PROVE  PeriodInv'
BY OutsidePeriod, TickCounts, QuietPeriod, FindPeriod, QueuePeriod, ClearPeriod,
   RegisterPeriod, UnRegisterPeriod DEF Next, Chipset, Dispatcher, Client

\* Between two callbacks of a periodic timer child at least its Period has passed, for any
\* children, contexts and arrivals, as long as the children of one timer ask for the same
\* tick interval: PeriodicTimerGetContext never counts a tick twice for a child.
THEOREM PeriodKeptHolds ==
  ASSUME CarefulClients, EqualTicks
  PROVE  Spec => PeriodKept
<1>1. Init => PeriodInv
  BY InitPeriodInv
<1>2. ListInv /\ PeriodInv /\ [Next]_vars => PeriodInv'
  BY StepPeriodInv
<1> DEFINE Kept == \A r \in Records : pc # "call" /\ pc' = "call" /\ recordToExhaust' = r
                      => since[r] >= Context[r].period \/ SrcDesc(r) \notin Timers
<1>3. ListInv /\ PeriodInv /\ [Next]_vars => [Kept]_vars
  <2> SUFFICES ASSUME ListInv, PeriodInv, Next, NEW r \in Records, pc # "call", pc' = "call",
                      recordToExhaust' = r, SrcDesc(r) \in Timers
               PROVE  since[r] >= Context[r].period
    OBVIOUS
  <2>1. ExhaustCalls
    BY DEF Next, Chipset, RaiseSmi, UsbEvent, Tick, SmiEntry, Dispatcher, DispatcherEntry,
       Iterate, LoopEnds, ScanNext, ScanFinds, ExhaustSkips, CallbackReturns, QueueExhausted,
       SourceHandled, Return, Client, Activate, SwSmi, PchSmmCoreRegister,
       RegistrationFails, PchSmmCoreUnRegister
  <2>2. /\ r = linkToExhaust /\ r # Head /\ pc = "exhaust"
        /\ SrcDesc(r) = SrcDesc(linkInDb) /\ ContextsMatch(r)
    BY <2>1 DEF ExhaustCalls
  <2>3. r \in Members \ {Head}
    BY <2>2 DEF ListInv, WalkInv
  <2>4. /\ Context[r].tick \in Nat /\ Context[r].period \in Nat /\ Context[r].type = "timer"
        /\ elapsed[r] \in Nat /\ since[r] \in Nat
    BY ContextTypes DEF PeriodInv, CountType
  <2>5. elapsed[r] + Context[r].tick >= Context[r].period
    BY <2>2, <2>4 DEF ContextsMatch, ElapsedAtTick
  <2>6. Passed(r, Context[r].tick)
    <3>1. PICK rank \in [Records -> Nat], n \in Nat :
            \A p \in Members \ {Head} :
              /\ SrcDesc(p) = SrcDesc(linkInDb) /\ SrcDesc(p) \in Timers
              /\ linkToExhaust # Head /\ rank[linkToExhaust] <= rank[p]
              => Passed(p, Context[p].tick)
      BY <2>2 DEF PeriodInv, AheadDue
    <3>2. rank[r] <= rank[r]
      BY <3>1
    <3> QED BY <2>2, <2>3, <3>1, <3>2
  <2> QED BY <2>4, <2>5, <2>6 DEF Passed
<1> QED BY <1>1, <1>2, <1>3, ListInvariant, PTL DEF Spec, PeriodKept
=============================================================================
