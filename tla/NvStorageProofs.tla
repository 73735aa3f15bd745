-------------------------- MODULE NvStorageProofs --------------------------
(***************************************************************************)
(* Proofs about NvStorage: over resets at any flash operation and failing  *)
(* operations the flash always holds whole contents of the variable store, *)
(* the recovery finds those PEI has read, and the storage implements       *)
(* NvStore.                                                                *)
(*                                                                         *)
(* The queue of the work space has one of five stages at its last header   *)
(* (Shape); the flash is Quiet, with the contents in the store, or         *)
(* Waiting, with the contents in the spare area.  What is still to be done *)
(* to the flash is Safe: every operation, wherever it is cut short, leaves *)
(* a Quiet or Waiting flash with the old or the requested contents, and    *)
(* the last one leaves what the next step expects.  Safe speaks of the     *)
(* whole list of operations without induction: there is a set of pairs of  *)
(* a flash and a list that is closed under doing the first operation.      *)
(***************************************************************************)
EXTENDS NvStorage, SequenceTheorems, TLAPS

-----------------------------------------------------------------------------
(* The walk over the headers of the write queue                              *)

Units  == [b : SUBSET (0..2), n : -1..WsSize]
Queues == [1..WsSize -> Units]

\* next leads from every member of S that is not the last of the walk to a member of S.
Closed(next, S) == S \subseteq 1..WsSize /\ 1 \in S /\ \A q \in S : next[q] \in S \union {0}

\* The headers the walk meets: those in every closed set.
Walk(next) == {p \in 1..WsSize : \A S \in SUBSET (1..WsSize) : Closed(next, S) => p \in S}

\* The walk over the queue u comes to its end at p.
EndsAt(u, p) ==
  /\ p \in Walk(NextHeader(u)) /\ NextHeader(u)[p] = 0
  /\ \A q \in Walk(NextHeader(u)) :
       q <= p /\ (q # p => NextHeader(u)[q] # 0 /\ NextHeader(u)[q] # 1)

\* The walk's set of headers is closed itself.
LEMMA WalkClosed ==
  ASSUME NEW next, \A q \in 1..WsSize : next[q] \in 0..WsSize
  PROVE  Closed(next, Walk(next))
<1>0. 1 \in 1..WsSize
  BY WsSizeAssumption
<1>1. 1 \in Walk(next)
  BY <1>0 DEF Walk, Closed
<1>2. ASSUME NEW q \in Walk(next), next[q] # 0 PROVE next[q] \in Walk(next)
  <2>1. next[q] \in 1..WsSize
    BY <1>2, WsSizeAssumption DEF Walk
  <2>2. ASSUME NEW S \in SUBSET (1..WsSize), Closed(next, S) PROVE next[q] \in S
    BY <1>2, <2>2 DEF Walk, Closed
  <2> QED BY <2>1, <2>2 DEF Walk
<1> QED BY <1>1, <1>2 DEF Walk, Closed

\* The offsets stay in the work space.
LEMMA NextType ==
  ASSUME NEW u \in Queues
  PROVE  \A q \in 1..WsSize : NextHeader(u)[q] \in 0..WsSize
<1> TAKE q \in 1..WsSize
<1>1. u[q] \in Units
  BY DEF Queues
<1>2. u[q].n \in Int /\ u[q].n >= -1
  BY <1>1, WsSizeAssumption DEF Units
<1> QED BY <1>2, WsSizeAssumption DEF NextHeader

\* FtwGetLastWriteHeader returns the end of the walk.
LEMMA LastHeader ==
  ASSUME NEW u \in Queues, NEW p, EndsAt(u, p)
  PROVE  FtwGetLastWriteHeader(u) = p /\ p \in 1..WsSize
<1> DEFINE next == NextHeader(u)
<1>p. p \in 1..WsSize
  BY DEF EndsAt, Walk
<1>t. \A q \in 1..WsSize : next[q] \in 0..WsSize
  BY NextType
<1>c. Closed(next, Walk(next))
  BY <1>t, WalkClosed
<1>1. WalkReaches(next, p)
  <2>1. CASE p = 1
    BY <2>1 DEF WalkReaches
  <2>2. CASE p # 1
    <3> DEFINE H == Walk(next) \ {1, p}
    <3>1. H \in SUBSET (2..(p - 1))
      BY <1>p, WsSizeAssumption DEF EndsAt, Walk
    <3>2. \A q \in H \union {1} : next[q] \in H \union {p}
      BY <1>c, <2>2 DEF EndsAt, Closed
    <3> QED BY <3>1, <3>2 DEF WalkReaches
  <2> QED BY <2>1, <2>2
<1>2. ASSUME NEW k \in 1..WsSize, next[k] = 0, WalkReaches(next, k) PROVE k = p
  <2>1. CASE k = 1
    BY <1>2, <1>c, <2>1 DEF EndsAt, Closed
  <2>2. CASE k # 1
    <3>1. PICK H \in SUBSET (2..(k - 1)) : \A q \in H \union {1} : next[q] \in H \union {k}
      BY <1>2, <2>2 DEF WalkReaches
    <3>2. H \union {1, k} \subseteq 1..WsSize
      BY <3>1, WsSizeAssumption
    <3>3. Closed(next, H \union {1, k})
      BY <3>1, <3>2, <1>2 DEF Closed
    <3>4. p \in H \union {1, k}
      BY <3>2, <3>3 DEF EndsAt, Walk
    <3>5. 0 \notin H \union {k}
      BY <3>1
    <3> QED BY <3>1, <3>4, <3>5 DEF EndsAt
  <2> QED BY <2>1, <2>2
<1>3. next[p] = 0
  BY DEF EndsAt
<1>4. FtwGetLastWriteHeader(u) = CHOOSE k \in 1..WsSize : next[k] = 0 /\ WalkReaches(next, k)
  BY DEF FtwGetLastWriteHeader
<1> HIDE DEF next
<1> QED BY <1>p, <1>1, <1>2, <1>3, <1>4

\* The walk is the same when the headers it meets lead where they led.
LEMMA WalkFrame ==
  ASSUME NEW next, NEW new, \A q \in 1..WsSize : next[q] \in 0..WsSize,
         \A q \in 1..WsSize : new[q] \in 0..WsSize,
         \A q \in Walk(next) : new[q] = next[q]
  PROVE  Walk(new) = Walk(next)
<1>1. Closed(next, Walk(next)) /\ Walk(next) \subseteq 1..WsSize
  BY WalkClosed DEF Walk
<1>2. Closed(new, Walk(next))
  BY <1>1 DEF Closed
<1>3. Walk(new) \subseteq Walk(next)
  BY <1>1, <1>2 DEF Walk
<1>4. ASSUME NEW S \in SUBSET (1..WsSize), Closed(new, S) PROVE Walk(next) \subseteq S
  <2>1. Closed(next, S \intersect Walk(next))
    BY <1>1, <1>4 DEF Closed
  <2> QED BY <2>1 DEF Walk
<1>5. Walk(next) \subseteq Walk(new)
  BY <1>1, <1>4 DEF Walk
<1> QED BY <1>3, <1>5

\* The walk goes on to the next header when its last becomes complete.
LEMMA WalkLonger ==
  ASSUME NEW next, NEW new, NEW p \in Walk(next), NEW k \in 1..WsSize,
         \A q \in 1..WsSize : next[q] \in 0..WsSize,
         \A q \in 1..WsSize : new[q] \in 0..WsSize,
         \A q \in Walk(next) : q # p => new[q] = next[q],
         next[p] = 0, new[p] = k, new[k] = 0
  PROVE  Walk(new) = Walk(next) \union {k}
<1>1. Closed(next, Walk(next)) /\ Walk(next) \subseteq 1..WsSize
  BY WalkClosed DEF Walk
<1>2. Closed(new, Walk(next) \union {k})
  BY <1>1 DEF Closed
<1>3. Walk(new) \subseteq Walk(next) \union {k}
  BY <1>1, <1>2 DEF Walk
<1>4. ASSUME NEW S \in SUBSET (1..WsSize), Closed(new, S) PROVE Walk(next) \union {k} \subseteq S
  <2>1. Closed(next, S \intersect Walk(next))
    <3>1. ASSUME NEW q \in S \intersect Walk(next)
          PROVE  next[q] \in (S \intersect Walk(next)) \union {0}
      BY <1>1, <1>4 DEF Closed
    <3> QED BY <1>1, <1>4, <3>1 DEF Closed
  <2>2. Walk(next) \subseteq S
    BY <2>1 DEF Walk
  <2>3. p \in S
    BY <2>2
  <2>4. new[p] \in S \union {0}
    BY <1>4, <2>3 DEF Closed
  <2>5. k # 0
    OBVIOUS
  <2> QED BY <2>2, <2>4, <2>5
<1>5. Walk(next) \union {k} \subseteq Walk(new)
  BY <1>1, <1>4 DEF Walk
<1> QED BY <1>3, <1>5

-----------------------------------------------------------------------------
Fresh == [b |-> {}, n |-> 0]

\* Stages of the last header p and of its record.
Free(u, p)     == u[p] = NoUnit /\ (p < WsSize => u[p + 1] = NoUnit)
Full(u, p)     == WRITES_COMPLETED \in u[p].b /\ u[p].n = 1 /\ p + 2 > WsSize
Open(u, p)     == p < WsSize /\ u[p].n = 1 /\ 0 \in u[p].b /\ 2 \notin u[p].b
Unspared(u, p) == Open(u, p) /\ u[p + 1] \in {NoUnit, Fresh}
Spared(u, p)   == Open(u, p) /\ u[p + 1] = [b |-> {1}, n |-> 0]
Written(u, p)  == Open(u, p) /\ u[p + 1] = [b |-> {1, 2}, n |-> 0]

\* The queue u with its last header at p.
Shape(u, p) ==
  /\ u \in Queues /\ p \in 1..WsSize
  /\ EndsAt(u, p)
  /\ \A q \in 1..WsSize : q > p + 1 => u[q] = NoUnit
  /\ Free(u, p) \/ Full(u, p) \/ Unspared(u, p) \/ Spared(u, p) \/ Written(u, p)

USE DEF HEADER_ALLOCATED, WRITES_ALLOCATED, WRITES_COMPLETED, BOOT_BLOCK_UPDATE,
        SPARE_COMPLETED, DEST_COMPLETED

\* Units of the queue are units.
LEMMA UnitTypes ==
  /\ NoUnit \in Units /\ Fresh \in Units
  /\ \A B \in SUBSET (0..2), n \in {0, 1} : [b |-> B, n |-> n] \in Units
<1>1. -1 \in -1..WsSize /\ 0 \in -1..WsSize /\ 1 \in -1..WsSize
  BY WsSizeAssumption
<1> QED BY <1>1 DEF NoUnit, Fresh, Units

\* An empty queue has its last header at 1, free.
LEMMA NoUnitsShape == NoUnits \in Queues /\ Shape(NoUnits, 1) /\ Free(NoUnits, 1)
<1>1. NoUnits \in Queues
  BY UnitTypes DEF NoUnits, Queues
<1>2. 1 \in 1..WsSize /\ 1 < WsSize
  BY WsSizeAssumption
<1>3. \A q \in 1..WsSize : NextHeader(NoUnits)[q] = 0
  BY DEF NextHeader, NoUnits, NoUnit
<1>4. Closed(NextHeader(NoUnits), {1})
  BY <1>2, <1>3 DEF Closed
<1>5. Walk(NextHeader(NoUnits)) = {1}
  <2>1. Walk(NextHeader(NoUnits)) \subseteq {1}
    BY <1>2, <1>4 DEF Walk
  <2>2. 1 \in Walk(NextHeader(NoUnits))
    BY <1>2 DEF Walk, Closed
  <2> QED BY <2>1, <2>2
<1>6. EndsAt(NoUnits, 1)
  BY <1>2, <1>3, <1>5 DEF EndsAt
<1>7. Free(NoUnits, 1)
  BY <1>2, WsSizeAssumption DEF Free, NoUnits
<1>8. \A q \in 1..WsSize : NoUnits[q] = NoUnit
  BY DEF NoUnits
<1> QED BY <1>1, <1>2, <1>6, <1>7, <1>8 DEF Shape

\* A unit written at the last header or at its record leaves the walk as it is, when the
\* header stays open.
LEMMA ShapeStep ==
  ASSUME NEW u, NEW p, Shape(u, p), NEW v \in Queues, 2 \notin v[p].b,
         \A q \in 1..WsSize : q \notin {p, p + 1} => v[q] = u[q],
         NextHeader(u)[p] = 0,
         Free(v, p) \/ Unspared(v, p) \/ Spared(v, p) \/ Written(v, p)
  PROVE  Shape(v, p)
<1> DEFINE next == NextHeader(u)
           new  == NextHeader(v)
<1>0. u \in Queues /\ p \in 1..WsSize
  BY DEF Shape
<1>1. /\ \A q \in 1..WsSize : next[q] \in 0..WsSize
      /\ \A q \in 1..WsSize : new[q] \in 0..WsSize
  BY <1>0, NextType
<1>2. \A q \in 1..WsSize : q \notin {p, p + 1} => new[q] = next[q]
  BY DEF NextHeader
<1>3. new[p] = 0 /\ next[p] = 0
  BY <1>0 DEF NextHeader
<1>4. \A q \in Walk(next) : q \in 1..WsSize /\ q # p + 1
  BY <1>0 DEF Shape, EndsAt, Walk
<1>5. Walk(new) = Walk(next)
  <2>1. \A q \in Walk(next) : new[q] = next[q]
    BY <1>2, <1>3, <1>4
  <2> HIDE DEF next, new
  <2> QED BY <1>1, <2>1, WalkFrame
<1>6. EndsAt(v, p)
  BY <1>2, <1>3, <1>4, <1>5 DEF Shape, EndsAt
<1>7. \A q \in 1..WsSize : q > p + 1 => v[q] = NoUnit
  BY <1>0 DEF Shape
<1> QED BY <1>0, <1>6, <1>7 DEF Shape

\* A header that becomes complete ends the walk at the next one, or fills the queue.
LEMMA ShapeComplete ==
  ASSUME NEW u, NEW p, Shape(u, p), Open(u, p), NEW v \in Queues,
         2 \in v[p].b, v[p].n = 1, \A q \in 1..WsSize : q # p => v[q] = u[q]
  PROVE  \E k : Shape(v, k) /\ (Free(v, k) \/ Full(v, k))
<1> DEFINE next == NextHeader(u)
           new  == NextHeader(v)
<1>0. u \in Queues /\ p \in 1..WsSize
  BY DEF Shape
<1>1. /\ \A q \in 1..WsSize : next[q] \in 0..WsSize
      /\ \A q \in 1..WsSize : new[q] \in 0..WsSize
  BY <1>0, NextType
<1>2. \A q \in 1..WsSize : q # p => new[q] = next[q]
  BY DEF NextHeader
<1>3. next[p] = 0 /\ p \in Walk(next)
  BY DEF Shape, EndsAt
<1>4. \A q \in Walk(next) : q \in 1..WsSize /\ q <= p
  BY DEF Shape, EndsAt, Walk
<1>5. CASE p + 2 > WsSize
  <2>1. new[p] = 0
    BY <1>0, <1>5, WsSizeAssumption DEF NextHeader
  <2>2. Walk(new) = Walk(next)
    <3>1. \A q \in Walk(next) : new[q] = next[q]
      BY <1>2, <1>3, <1>4, <2>1
    <3> HIDE DEF next, new
    <3> QED BY <1>1, <3>1, WalkFrame
  <2>3. EndsAt(v, p)
    BY <1>2, <1>3, <1>4, <2>1, <2>2 DEF Shape, EndsAt
  <2>4. Full(v, p)
    BY <1>5 DEF Full
  <2>5. \A q \in 1..WsSize : q > p + 1 => v[q] = NoUnit
    BY <1>0 DEF Shape
  <2> QED BY <1>0, <2>3, <2>4, <2>5 DEF Shape
<1>6. CASE p + 2 <= WsSize
  <2>0. p + 2 \in 1..WsSize /\ p + 2 # p
    BY <1>0, <1>6, WsSizeAssumption
  <2>1. new[p] = p + 2
    BY <1>0, <1>6, WsSizeAssumption DEF NextHeader
  <2>2. v[p + 2] = NoUnit
    BY <1>0, <2>0 DEF Shape
  <2>3. new[p + 2] = 0
    BY <2>0, <2>2 DEF NextHeader, NoUnit
  <2>4. Walk(new) = Walk(next) \union {p + 2}
    <3>1. \A q \in Walk(next) : q # p => new[q] = next[q]
      BY <1>2, <1>4
    <3> DEFINE k == p + 2
    <3>2. k \in 1..WsSize /\ new[p] = k /\ new[k] = 0
      BY <2>0, <2>1, <2>3
    <3> HIDE DEF next, new, k
    <3>3. Walk(new) = Walk(next) \union {k}
      BY <1>1, <1>3, <3>1, <3>2, WalkLonger
    <3> QED BY <3>3 DEF k
  <2>5. EndsAt(v, p + 2)
    <3>1. \A q \in Walk(next) : q # p => new[q] # 0 /\ new[q] # 1
      BY <1>2, <1>4 DEF Shape, EndsAt
    <3>2. \A q \in Walk(next) : q <= p + 2
      BY <1>0, <1>4
    <3>3. p + 2 # 0 /\ p + 2 # 1
      BY <1>0
    <3> QED BY <1>0, <2>1, <2>3, <2>4, <3>1, <3>2, <3>3 DEF EndsAt
  <2>6. Free(v, p + 2)
    BY <1>0, <2>0, <2>2, WsSizeAssumption DEF Shape, Free
  <2>7. \A q \in 1..WsSize : q > p + 3 => v[q] = NoUnit
    BY <1>0 DEF Shape
  <2> QED BY <2>0, <2>5, <2>6, <2>7 DEF Shape
<1> QED BY <1>0, <1>5, <1>6, WsSizeAssumption

\* The record FtwGetLastWriteRecord finds.
LEMMA LastRecord ==
  ASSUME NEW u, NEW p, Shape(u, p), ~Full(u, p)
  PROVE  FtwGetLastWriteRecord(u, p) = IF p < WsSize THEN p + 1 ELSE p
<1>0. p \in 1..WsSize /\ u \in Queues
  BY DEF Shape
<1>1. Unit(u, p) = u[p]
  BY <1>0 DEF Unit
<1> DEFINE last == IF Unit(u, p).n = -1 THEN WsSize ELSE p + Unit(u, p).n
           open == {r \in (p + 1)..last : DEST_COMPLETED \notin Bits(u, r)}
<1>2. FtwGetLastWriteRecord(u, p)
        = IF open = {} THEN last ELSE CHOOSE r \in open : \A s \in open : r <= s
  BY DEF FtwGetLastWriteRecord
<1>3. CASE u[p] = NoUnit /\ p = WsSize
  <2>1. last = WsSize
    BY <1>1, <1>3 DEF NoUnit
  <2>2. open = {}
    BY <2>1, <1>3, WsSizeAssumption
  <2> HIDE DEF last, open
  <2> QED BY <1>2, <1>3, <2>1, <2>2, WsSizeAssumption
<1>4. CASE u[p] = NoUnit /\ p < WsSize
  <2>1. last = WsSize
    BY <1>1, <1>4 DEF NoUnit
  <2>2. u[p + 1] = NoUnit
    BY <1>4, <1>0 DEF Shape, Free, Unspared, Open, Spared, Written, Full, NoUnit
  <2>3. p + 1 \in open
    BY <2>1, <2>2, <1>0, <1>4, WsSizeAssumption DEF Bits, Unit, NoUnit
  <2>4. \A s \in open : s \in Int /\ p + 1 <= s
    BY <2>1, <1>0, WsSizeAssumption
  <2> HIDE DEF last, open
  <2>5. \A r \in open : (\A s \in open : r <= s) => r = p + 1
    BY <2>3, <2>4, <1>0
  <2> QED BY <1>2, <1>4, <2>3, <2>4, <2>5
<1>5. CASE Open(u, p)
  <2>1. last = p + 1 /\ p < WsSize
    BY <1>1, <1>5 DEF Open
  <2>2. open \subseteq {p + 1}
    BY <2>1, <1>0
  <2> HIDE DEF last, open
  <2>3. CASE open = {}
    BY <1>2, <2>1, <2>3
  <2>4. CASE open = {p + 1}
    BY <1>2, <1>0, <2>1, <2>4
  <2> QED BY <2>2, <2>3, <2>4
<1> QED BY <1>0, <1>3, <1>4, <1>5, WsSizeAssumption
        DEF Shape, Free, Unspared, Spared, Written

\* What the last header of a queue decides.
LEMMA QueueFacts ==
  ASSUME NEW u, NEW p, Shape(u, p)
  PROVE  /\ u \in Queues /\ p \in 1..WsSize /\ NextHeader(u)[p] = 0
         /\ FtwGetLastWriteHeader(u) = p /\ Unit(u, p) = u[p] /\ Bits(u, p) = u[p].b
         /\ NeedsReclaim(u) <=> Full(u, p) \/ p = WsSize
         /\ NeedsReclaim(u) => Preserved(u) = NoUnits /\ Refreshed(u) = NoUnits
         /\ Pending(u) <=> Spared(u, p)
         /\ ~NeedsReclaim(u) => /\ Refreshed(u) = u /\ p < WsSize
                                /\ FtwGetLastWriteRecord(u, p) = p + 1
                                /\ Unit(u, p + 1) = u[p + 1] /\ Bits(u, p + 1) = u[p + 1].b
<1>1. u \in Queues /\ p \in 1..WsSize /\ NextHeader(u)[p] = 0
  BY DEF Shape, EndsAt
<1>2. FtwGetLastWriteHeader(u) = p
  BY <1>1, LastHeader DEF Shape
<1>3. Unit(u, p) = u[p] /\ Bits(u, p) = u[p].b
  BY <1>1 DEF Unit, Bits
<1>4. NeedsReclaim(u) <=> Full(u, p) \/ p = WsSize
  <2>1. WalkFailed(u) <=> 2 \in u[p].b
    BY <1>2, <1>3 DEF WalkFailed
  <2>2. 2 \in u[p].b <=> Full(u, p)
    BY <1>1 DEF Shape, Full, Free, Unspared, Spared, Written, Open, NoUnit
  <2>3. WsSize - p + 1 < 2 <=> p = WsSize
    BY <1>1, WsSizeAssumption
  <2> QED BY <1>2, <2>1, <2>2, <2>3 DEF NeedsReclaim
<1>5. NeedsReclaim(u) => Preserved(u) = NoUnits /\ Refreshed(u) = NoUnits
  <2> HAVE NeedsReclaim(u)
  <2>1. ~(2 \notin u[p].b /\ 0 \in u[p].b)
    BY <1>1, <1>4 DEF Shape, Full, Free, Unspared, Spared, Written, Open, NoUnit
  <2> QED BY <1>2, <1>3, <2>1 DEF Preserved, Refreshed
<1>6. Pending(u) <=> Spared(u, p)
  <2>1. CASE Full(u, p)
    BY <1>2, <1>3, <2>1 DEF Pending, Full, Spared, Open
  <2>2. CASE ~Full(u, p) /\ p < WsSize
    <3>1. FtwGetLastWriteRecord(u, p) = p + 1
      BY <2>2, LastRecord
    <3>2. Bits(u, p + 1) = u[p + 1].b
      BY <1>1, <2>2, WsSizeAssumption DEF Bits, Unit
    <3>3. Pending(u) <=> 2 \notin u[p].b /\ 1 \in u[p + 1].b /\ 2 \notin u[p + 1].b
      BY <1>2, <1>3, <3>1, <3>2 DEF Pending
    <3> QED BY <2>2, <3>3
            DEF Shape, Free, Unspared, Spared, Written, Open, NoUnit, Fresh
  <2>3. CASE ~Full(u, p) /\ p = WsSize
    <3>1. FtwGetLastWriteRecord(u, p) = p
      BY <1>1, <2>3, LastRecord, WsSizeAssumption
    <3>2. u[p] = NoUnit
      BY <2>3, WsSizeAssumption DEF Shape, Free, Unspared, Spared, Written, Open
    <3> QED BY <1>2, <1>3, <2>3, <3>1, <3>2, WsSizeAssumption DEF Pending, Spared, Open, NoUnit
  <2> QED BY <1>1, <2>1, <2>2, <2>3, WsSizeAssumption
<1>7. ASSUME ~NeedsReclaim(u)
      PROVE  /\ Refreshed(u) = u /\ p < WsSize /\ FtwGetLastWriteRecord(u, p) = p + 1
             /\ Unit(u, p + 1) = u[p + 1] /\ Bits(u, p + 1) = u[p + 1].b
  <2>1. p < WsSize /\ ~Full(u, p)
    BY <1>1, <1>4, <1>7, WsSizeAssumption
  <2>2. FtwGetLastWriteRecord(u, p) = p + 1
    BY <2>1, LastRecord
  <2>3. p + 1 \in 1..WsSize
    BY <1>1, <2>1, WsSizeAssumption
  <2> QED BY <1>7, <2>1, <2>2, <2>3 DEF Refreshed, Unit, Bits
<1> QED BY <1>1, <1>2, <1>3, <1>4, <1>5, <1>6, <1>7

-----------------------------------------------------------------------------
Cells == {"A", "B", "W", "SA", "SB", "SW"}

Cell == [fv : {None, "matching", "rewritten"}, v : Values \union {Blank, Torn},
         h : {None, "fresh", "valid", "invalid"}, u : Queues]

Flash == [Cells -> Cell]

Ops == [k : {"erase", "valid", "invalid"}, c : Cells]
         \union [k : {"put"}, c : Cells, b : Cell]
         \union [k : {"copy"}, c : Cells, from : Cells]
         \union [k : {"data"}, c : Cells, from : Cells, v : Values]
         \union [k : {"queue"}, c : Cells, u : Queues, new : BOOLEAN]
         \union [k : {"bit"}, c : Cells, p : Nat, bit : Nat]
         \union [k : {"unit"}, c : Cells, p : Nat, unit : Units]

BlockOps == {"erase", "put", "copy", "data", "queue"}

After(F, o) == [F EXCEPT ![o.c] = Effect(F, o)]

\* The flash operations of the driver are operations.
LEMMA OpTypes ==
  ASSUME NEW c \in Cells
  PROVE  /\ Erase(c) \in Ops /\ SetValid(c) \in Ops /\ SetInvalid(c) \in Ops
         /\ \A b \in Cell : Put(c, b) \in Ops
         /\ \A d \in Cells : Copy(c, d) \in Ops
         /\ \A d \in Cells, v \in Values : Data(c, d, v) \in Ops
         /\ \A u \in Queues, new \in BOOLEAN : Queue(c, u, new) \in Ops
         /\ \A p \in Nat, bit \in Nat : FtwUpdateFvState(c, p, bit) \in Ops
         /\ \A p \in Nat, unit \in Units : WriteWorkSpaceData(p, unit) \in Ops
BY DEF Ops, Erase, SetValid, SetInvalid, Put, Copy, Data, Queue, FtwUpdateFvState,
       WriteWorkSpaceData, Cells

\* Every operation names a cell.
LEMMA OpCell == \A o \in Ops : o.c \in Cells
BY DEF Ops

\* What the operations on a block leave.
LEMMA EffectBlock ==
  ASSUME NEW F, NEW c
  PROVE  /\ Effect(F, Erase(c)) = Erased
         /\ \A b : Effect(F, Put(c, b)) = b
         /\ c # "W" => \A d : Effect(F, Copy(c, d)) = F[d]
         /\ \A d, v : Effect(F, Data(c, d, v)) = [F[d] EXCEPT !.v = v]
         /\ \A d : Effect(F, Copy("W", d)) = [F[d] EXCEPT !.h = "fresh"]
<1>1. Effect(F, Erase(c)) = Erased
  BY DEF Effect, Erase
<1>2. ASSUME NEW b PROVE Effect(F, Put(c, b)) = b
  BY DEF Effect, Put
<1>3. ASSUME NEW d, c # "W" PROVE Effect(F, Copy(c, d)) = F[d]
  BY <1>3 DEF Effect, Copy
<1>4. ASSUME NEW d, NEW v PROVE Effect(F, Data(c, d, v)) = [F[d] EXCEPT !.v = v]
  BY DEF Effect, Data
<1>5. ASSUME NEW d PROVE Effect(F, Copy("W", d)) = [F[d] EXCEPT !.h = "fresh"]
  BY DEF Effect, Copy
<1> QED BY <1>1, <1>2, <1>3, <1>4, <1>5

\* What setting a state bit of a work space header leaves.
LEMMA EffectState ==
  ASSUME NEW F, NEW c
  PROVE  /\ Effect(F, SetValid(c))
              = [F[c] EXCEPT !.h = IF F[c].h = "fresh" THEN "valid" ELSE F[c].h]
         /\ Effect(F, SetInvalid(c))
              = [F[c] EXCEPT !.h = IF F[c].h = None THEN F[c].h ELSE "invalid"]
BY DEF Effect, SetValid, SetInvalid

\* What programming a state bit of a unit, or a whole unit, leaves.
LEMMA EffectUnit ==
  ASSUME NEW F \in Flash, NEW p \in 1..WsSize, NEW bit, NEW unit
  PROVE  /\ Effect(F, FtwUpdateFvState("W", p, bit))
              = [F["W"] EXCEPT !.u = [F["W"].u EXCEPT
                   ![p] = [F["W"].u[p] EXCEPT !.b = F["W"].u[p].b \union {bit}]]]
         /\ Effect(F, WriteWorkSpaceData(p, unit))
              = [F["W"] EXCEPT !.u = [F["W"].u EXCEPT ![p] = unit]]
<1>1. ~(p > WsSize)
  BY WsSizeAssumption
<1>2. Effect(F, FtwUpdateFvState("W", p, bit))
              = [F["W"] EXCEPT !.u = [F["W"].u EXCEPT
                   ![p] = [F["W"].u[p] EXCEPT !.b = F["W"].u[p].b \union {bit}]]]
  BY <1>1 DEF Effect, FtwUpdateFvState
<1>3. Effect(F, WriteWorkSpaceData(p, unit))
              = [F["W"] EXCEPT !.u = [F["W"].u EXCEPT ![p] = unit]]
  BY <1>1 DEF Effect, WriteWorkSpaceData
<1> QED BY <1>2, <1>3

\* b is old, or what remains when a change of old into new is cut short.
Remainder(old, new, torn, b) ==
  \/ b = old
  \/ b = [old EXCEPT !.fv = None, !.h = None, !.v = torn]
  \/ b = [Erased EXCEPT !.v = torn]
  \/ b = [new EXCEPT !.v = torn, !.u = NoUnits]

\* What a cut short operation on a block leaves.
LEMMA PartialBlock ==
  ASSUME NEW F, NEW o, o.k \in BlockOps, NEW b \in Partial(F, o)
  PROVE  \E torn \in {Blank, Torn} :
           /\ F[o.c].v = Blank /\ Effect(F, o).v = Blank => torn = Blank
           /\ Remainder(F[o.c], Effect(F, o), torn, b)
<1> DEFINE torn == IF F[o.c].v = Blank /\ Effect(F, o).v = Blank THEN Blank ELSE Torn
<1>1. CASE o.k = "erase"
  BY <1>1 DEF Partial, Remainder
<1>2. CASE o.k \in {"put", "copy", "data", "queue"}
  BY <1>2 DEF Partial, Remainder
<1> QED BY <1>1, <1>2 DEF BlockOps

\* Bytes change at once.
LEMMA PartialBytes ==
  ASSUME NEW F, NEW o, o.k \in {"valid", "invalid", "bit", "unit"}, NEW b \in Partial(F, o)
  PROVE  b \in {F[o.c], Effect(F, o)}
BY DEF Partial

-----------------------------------------------------------------------------
\* The two blocks of a store with the contents x, and a work space.
StoreA(x)   == [fv |-> "matching", v |-> x, h |-> None, u |-> NoUnits]
StoreB(x)   == [fv |-> None, v |-> x, h |-> None, u |-> NoUnits]
Space(h, u) == [fv |-> None, v |-> Blank, h |-> h, u |-> u]

\* What the first block of the spare area may hold: a part of a store, or a work space.
SpareCell == {b \in Cell : b.u = NoUnits /\ (b.h # None => b.fv = None /\ b.v = Blank)}

\* The store holds x; no write waits in the spare area.  h and u are the header and the
\* queue of the work space.
Quiet(F, x, h, u) ==
  /\ x \in Values /\ F \in Flash /\ F["SW"] = Erased /\ F["SA"] \in SpareCell
  /\ F["W"] = Space(h, u) /\ (\E p : Shape(u, p)) /\ ~(h = "valid" /\ Pending(u))
  /\ F["A"] = StoreA(x) /\ F["B"] = StoreB(x)

\* x waits in the spare area to be written over whatever the store holds.
Waiting(F, x, u) ==
  /\ x \in Values /\ F \in Flash /\ F["SW"] = Erased
  /\ F["W"] = Space("valid", u) /\ (\E p : Shape(u, p)) /\ Pending(u)
  /\ F["SA"] = StoreA(x) /\ F["SB"] = StoreB(x)

\* A recovery from the flash F ends with the contents x.
Holds(F, x) == \E u : Waiting(F, x, u) \/ \E h : Quiet(F, x, h, u)

\* Flash can do the operation: what it programs is erased, bits are only added.
CanDo(F, o) ==
  /\ o.k \in {"put", "copy", "data", "queue"} => F[o.c] = Erased
  /\ o.k = "unit" => \/ F[o.c].u[o.p] = NoUnit
                     \/ /\ F[o.c].u[o.p].n = Effect(F, o).u[o.p].n
                        /\ F[o.c].u[o.p].b \subseteq Effect(F, o).u[o.p].b

\* The blocks the cell of the operation o may hold once o has begun.
Leaves(F, o) == Partial(F, o) \union {Effect(F, o)}

\* The first operation of s, wherever it is cut short, keeps the contents or changes them
\* to the requested r; a work space that is not being replaced stays valid.
Allowed(F, s, r, rep) ==
  LET o == Head(s)
  IN  /\ s \in Seq(Ops)
      /\ CanDo(F, o) \/ (rep = "refresh" /\ o.k # "unit")
      /\ F["W"].h = "valid" /\ o.c = "W" /\ o.k \notin {"bit", "unit"}
           => \E i \in DOMAIN s : s[i] = Erase("W")
      /\ \E x \in Values :
           /\ Holds(F, x)
           /\ \A b \in Leaves(F, o) :
                \/ Holds([F EXCEPT ![o.c] = b], x)
                \/ r \in Values /\ Holds([F EXCEPT ![o.c] = b], r)

\* The operations s are allowed one after the other and end in a member of E.
Safe(F, s, r, E, rep) ==
  \E R : /\ <<F, s>> \in R
         /\ \A G, t : <<G, t>> \in R =>
              IF t = <<>> THEN G \in E
              ELSE Allowed(G, t, r, rep) /\ <<After(G, Head(t)), Tail(t)>> \in R

\* With nothing to be done the flash must be where it is expected to end.
LEMMA SafeEmpty ==
  ASSUME NEW F, NEW r, NEW E, NEW rep, F \in E
  PROVE  Safe(F, <<>>, r, E, rep)
<1> DEFINE R == {<<F, <<>>>>}
<1>1. <<F, <<>>>> \in R
  OBVIOUS
<1>2. \A G, t : <<G, t>> \in R => t = <<>> /\ G \in E
  OBVIOUS
<1> QED BY <1>1, <1>2 DEF Safe

\* With nothing left to be done a safe list has ended where it is expected.
LEMMA SafeEnd ==
  ASSUME NEW F, NEW r, NEW E, NEW rep, Safe(F, <<>>, r, E, rep)
  PROVE  F \in E
BY DEF Safe

\* Doing the first operation of a safe list leaves a safe list.
LEMMA SafeStep ==
  ASSUME NEW F, NEW s, NEW r, NEW E, NEW rep, Safe(F, s, r, E, rep), s # <<>>
  PROVE  Allowed(F, s, r, rep) /\ Safe(After(F, Head(s)), Tail(s), r, E, rep)
BY DEF Safe

\* The first operation of a list and the rest.
LEMMA HeadTail ==
  ASSUME NEW o \in Ops, NEW s \in Seq(Ops)
  PROVE  /\ <<o>> \o s \in Seq(Ops) /\ <<o>> \o s # <<>>
         /\ Head(<<o>> \o s) = o /\ Tail(<<o>> \o s) = s
OBVIOUS

\* An allowed operation in front of a safe list makes a safe list.
LEMMA SafeCons ==
  ASSUME NEW F, NEW o \in Ops, NEW s \in Seq(Ops), NEW r, NEW E, NEW rep,
         Allowed(F, <<o>> \o s, r, rep), Safe(After(F, o), s, r, E, rep)
  PROVE  Safe(F, <<o>> \o s, r, E, rep)
<1> DEFINE c == <<o>> \o s
<1>1. c # <<>> /\ Head(c) = o /\ Tail(c) = s
  BY HeadTail
<1> HIDE DEF c
<1>2. PICK R : /\ <<After(F, o), s>> \in R
               /\ \A G, t : <<G, t>> \in R =>
                    IF t = <<>> THEN G \in E
                    ELSE Allowed(G, t, r, rep) /\ <<After(G, Head(t)), Tail(t)>> \in R
  BY DEF Safe
<1> DEFINE Q == R \union {<<F, c>>}
<1>3. <<F, c>> \in Q
  OBVIOUS
<1>4. ASSUME NEW G, NEW t, <<G, t>> \in Q
      PROVE  IF t = <<>> THEN G \in E
             ELSE Allowed(G, t, r, rep) /\ <<After(G, Head(t)), Tail(t)>> \in Q
  <2>1. CASE <<G, t>> \in R
    BY <1>2, <2>1
  <2>2. CASE G = F /\ t = c
    BY <1>1, <1>2, <2>2 DEF c
  <2> QED BY <1>4, <2>1, <2>2
<1>5. Safe(F, c, r, E, rep)
  BY <1>3, <1>4 DEF Safe
<1> QED BY <1>5 DEF c

\* The blocks the driver programs are blocks.
LEMMA CellTypes ==
  /\ Erased \in Cell
  /\ \A x \in Values : StoreA(x) \in Cell /\ StoreB(x) \in Cell
  /\ \A h \in {None, "fresh", "valid", "invalid"}, u \in Queues : Space(h, u) \in Cell
BY NoUnitsShape DEF Erased, Cell, StoreA, StoreB, Space

\* Blocks the first block of the spare area may hold.
LEMMA SpareTypes ==
  /\ Erased \in SpareCell
  /\ \A x \in Values : StoreA(x) \in SpareCell
  /\ \A h \in {None, "fresh", "valid", "invalid"} : Space(h, NoUnits) \in SpareCell
BY CellTypes, NoUnitsShape DEF Erased, SpareCell, StoreA, Space

\* Programming a queue leaves a work space with that queue, not yet valid.
LEMMA EffectQueue ==
  ASSUME NEW F, NEW c, NEW h, NEW u, NEW v, F["W"] = Space(h, u), NEW new \in BOOLEAN
  PROVE  \E k \in {None, "fresh"} : Effect(F, Queue(c, v, new)) = Space(k, v)
<1>1. [Space(h, u) EXCEPT !.u = v] = Space(h, v)
  BY DEF Space
<1>2. \A k : [Space(h, v) EXCEPT !.h = k] = Space(k, v)
  BY DEF Space
<1>3. CASE new = TRUE
  <2>1. Effect(F, Queue(c, v, new)) = [[F["W"] EXCEPT !.u = v] EXCEPT !.h = "fresh"]
    BY <1>3 DEF Effect, Queue
  <2> QED BY <1>1, <1>2, <2>1
<1>4. CASE new = FALSE
  <2>1. Effect(F, Queue(c, v, new))
          = [[F["W"] EXCEPT !.u = v] EXCEPT !.h = IF F["W"].h = None THEN None ELSE "fresh"]
    BY <1>4 DEF Effect, Queue
  <2> QED BY <1>1, <1>2, <2>1
<1> QED BY <1>3, <1>4

\* An operation on the spare area while nothing waits there.
LEMMA SpareStep ==
  ASSUME NEW F, NEW x, NEW h, NEW u, Quiet(F, x, h, u),
         NEW o \in Ops, o.c \in {"SA", "SB", "SW"}, Effect(F, o) \in Cell,
         o.c = "SA" => Effect(F, o) \in SpareCell, o.c = "SW" => Effect(F, o) = Erased,
         F[o.c] = Erased \/ Effect(F, o) = Erased \/ o.k \in {"valid", "invalid"},
         o.k \in BlockOps \union {"valid", "invalid"},
         NEW b \in Leaves(F, o)
  PROVE  Quiet([F EXCEPT ![o.c] = b], x, h, u)
<1>0. F \in Flash /\ F[o.c] \in Cell /\ NoUnits \in Queues
  BY NoUnitsShape DEF Quiet, Flash, Cells
<1>1. /\ b \in Cell
      /\ o.c = "SA" => b \in SpareCell
      /\ o.c = "SW" => b = Erased
  <2>1. CASE b = Effect(F, o)
    BY <2>1
  <2>2. CASE b \in Partial(F, o) /\ o.k \in {"valid", "invalid"}
    BY <1>0, <2>2, PartialBytes DEF Quiet
  <2>3. CASE b \in Partial(F, o) /\ o.k \in BlockOps
    <3>1. PICK torn \in {Blank, Torn} :
           /\ F[o.c].v = Blank /\ Effect(F, o).v = Blank => torn = Blank
           /\ Remainder(F[o.c], Effect(F, o), torn, b)
      BY <2>3, PartialBlock
    <3>2. b \in Cell
      BY <1>0, <3>1 DEF Cell, Erased, Remainder
    <3>3. F[o.c] = Erased \/ Effect(F, o) = Erased
      BY <2>3 DEF BlockOps
    <3>4. o.c = "SA" => b \in SpareCell
      <4> HAVE o.c = "SA"
      <4>1. F[o.c] \in SpareCell /\ Effect(F, o) \in SpareCell
        BY DEF Quiet
      <4>2. CASE b = F[o.c]
        BY <4>1, <4>2
      <4>3. CASE b = [F[o.c] EXCEPT !.fv = None, !.h = None, !.v = torn]
        <5>1. b.u = F[o.c].u /\ b.h = None
          BY <1>0, <4>3 DEF Cell
        <5> QED BY <3>2, <4>1, <5>1 DEF SpareCell
      <4>4. CASE b = [Erased EXCEPT !.v = torn]
        <5>1. b.u = NoUnits /\ b.h = None
          BY <4>4 DEF Erased
        <5> QED BY <3>2, <5>1 DEF SpareCell
      <4>5. CASE b = [Effect(F, o) EXCEPT !.v = torn, !.u = NoUnits]
        <5>1. b.u = NoUnits /\ b.h = Effect(F, o).h /\ b.fv = Effect(F, o).fv /\ b.v = torn
          BY <4>5 DEF Cell
        <5>2. CASE Effect(F, o) = Erased
          BY <3>2, <5>1, <5>2 DEF SpareCell, Erased
        <5>3. CASE F[o.c] = Erased
          <6>1. b.h # None => torn = Blank /\ b.fv = None
            BY <3>1, <4>1, <5>1, <5>3 DEF SpareCell, Erased
          <6> QED BY <3>2, <5>1, <6>1 DEF SpareCell
        <5> QED BY <3>3, <5>2, <5>3
      <4> QED BY <3>1, <4>2, <4>3, <4>4, <4>5 DEF Remainder
    <3>5. o.c = "SW" => b = Erased
      <4> HAVE o.c = "SW"
      <4>1. F[o.c] = Erased /\ Effect(F, o) = Erased
        BY DEF Quiet
      <4>2. torn = Blank
        BY <3>1, <4>1 DEF Erased
      <4>3. Remainder(Erased, Erased, Blank, b)
        BY <3>1, <4>1, <4>2
      <4> QED BY <4>3 DEF Erased, Remainder
    <3> QED BY <3>2, <3>4, <3>5
  <2> QED BY <2>1, <2>2, <2>3 DEF Leaves
<1>2. [F EXCEPT ![o.c] = b] \in Flash
  BY <1>0, <1>1 DEF Flash
<1> QED BY <1>0, <1>1, <1>2 DEF Quiet, Flash, Cells

\* An operation on the store while x waits in the spare area.
LEMMA TargetStep ==
  ASSUME NEW F, NEW x, NEW u, Waiting(F, x, u),
         NEW o \in Ops, o.c \in {"A", "B"}, Effect(F, o) \in Cell, o.k \in BlockOps,
         NEW b \in Leaves(F, o)
  PROVE  Waiting([F EXCEPT ![o.c] = b], x, u)
<1>0. F \in Flash /\ F[o.c] \in Cell /\ NoUnits \in Queues
  BY NoUnitsShape DEF Waiting, Flash, Cells
<1>1. b \in Cell
  <2>1. CASE b = Effect(F, o)
    BY <2>1
  <2>3. CASE b \in Partial(F, o)
    <3>1. PICK torn \in {Blank, Torn} :
              Remainder(F[o.c], Effect(F, o), torn, b)
      BY <2>3, PartialBlock
    <3> QED BY <1>0, <3>1 DEF Cell, Erased, Remainder
  <2> QED BY <2>1, <2>3 DEF Leaves
<1>2. [F EXCEPT ![o.c] = b] \in Flash
  BY <1>0, <1>1 DEF Flash
<1> QED BY <1>0, <1>1, <1>2 DEF Waiting, Flash, Cells

\* The work space changes while nothing waits.
LEMMA WorkStep ==
  ASSUME NEW F, NEW x, NEW h, NEW u, Quiet(F, x, h, u),
         NEW k \in {None, "fresh", "valid", "invalid"}, NEW v \in Queues,
         \E p : Shape(v, p), ~(k = "valid" /\ Pending(v))
  PROVE  Quiet([F EXCEPT !["W"] = Space(k, v)], x, k, v)
<1>0. F \in Flash /\ Space(k, v) \in Cell
  BY CellTypes DEF Quiet
<1>1. [F EXCEPT !["W"] = Space(k, v)] \in Flash
  BY <1>0 DEF Flash
<1> QED BY <1>0, <1>1 DEF Quiet, Flash, Cells

\* Allowed steps in front of a safe list.
LEMMA SpareSafe ==
  ASSUME NEW F, NEW x, NEW h, NEW u, Quiet(F, x, h, u),
         NEW o \in Ops, o.c \in {"SA", "SB", "SW"}, Effect(F, o) \in Cell,
         o.c = "SA" => Effect(F, o) \in SpareCell, o.c = "SW" => Effect(F, o) = Erased,
         F[o.c] = Erased \/ Effect(F, o) = Erased \/ o.k \in {"valid", "invalid"},
         o.k \in BlockOps \union {"valid", "invalid"},
         CanDo(F, o), NEW s \in Seq(Ops), NEW r, NEW E, NEW rep,
         Quiet(After(F, o), x, h, u) => Safe(After(F, o), s, r, E, rep)
  PROVE  Safe(F, <<o>> \o s, r, E, rep)
<1>1. Head(<<o>> \o s) = o /\ <<o>> \o s \in Seq(Ops)
  BY HeadTail
<1>2. \A b \in Leaves(F, o) : Quiet([F EXCEPT ![o.c] = b], x, h, u)
  BY SpareStep
<1>3. \A b \in Leaves(F, o) : Holds([F EXCEPT ![o.c] = b], x)
  BY <1>2 DEF Holds
<1>4. Holds(F, x) /\ x \in Values
  BY DEF Holds, Quiet
<1>5. o.c # "W"
  OBVIOUS
<1>6. Allowed(F, <<o>> \o s, r, rep)
  BY <1>1, <1>3, <1>4, <1>5 DEF Allowed
<1>7. Quiet(After(F, o), x, h, u)
  BY <1>2 DEF After, Leaves
<1> QED BY <1>6, <1>7, SafeCons

\* An operation on the store, while the contents wait in the spare area, in front of a
\* safe list.
LEMMA TargetSafe ==
  ASSUME NEW F, NEW x, NEW u, Waiting(F, x, u),
         NEW o \in Ops, o.c \in {"A", "B"}, Effect(F, o) \in Cell, o.k \in BlockOps,
         NEW s \in Seq(Ops), NEW r, NEW E, NEW rep, rep = "refresh" \/ CanDo(F, o),
         Waiting(After(F, o), x, u) => Safe(After(F, o), s, r, E, rep)
  PROVE  Safe(F, <<o>> \o s, r, E, rep)
<1>1. Head(<<o>> \o s) = o /\ <<o>> \o s \in Seq(Ops)
  BY HeadTail
<1>2. \A b \in Leaves(F, o) : Waiting([F EXCEPT ![o.c] = b], x, u)
  BY TargetStep
<1>3. \A b \in Leaves(F, o) : Holds([F EXCEPT ![o.c] = b], x)
  BY <1>2 DEF Holds
<1>4. Holds(F, x) /\ x \in Values
  BY DEF Holds, Waiting
<1>5. o.c # "W" /\ o.k # "unit"
  BY DEF BlockOps
<1>6. Allowed(F, <<o>> \o s, r, rep)
  BY <1>1, <1>3, <1>4, <1>5 DEF Allowed
<1>7. Waiting(After(F, o), x, u)
  BY <1>2 DEF After, Leaves
<1> QED BY <1>6, <1>7, SafeCons

\* An operation on the work space in front of a safe list.
LEMMA WorkSafe ==
  ASSUME NEW F, NEW x \in Values, Holds(F, x),
         NEW o \in Ops, o.c = "W", CanDo(F, o), NEW s \in Seq(Ops), NEW r, NEW E, NEW rep,
         \/ o.k \in {"bit", "unit"}
         \/ F["W"].h # "valid"
         \/ \E i \in DOMAIN (<<o>> \o s) : (<<o>> \o s)[i] = Erase("W"),
         \A b \in Leaves(F, o) : \/ Holds([F EXCEPT !["W"] = b], x)
                                 \/ r \in Values /\ Holds([F EXCEPT !["W"] = b], r),
         Safe(After(F, o), s, r, E, rep)
  PROVE  Safe(F, <<o>> \o s, r, E, rep)
<1>1. Head(<<o>> \o s) = o /\ <<o>> \o s \in Seq(Ops)
  BY HeadTail
<1>2. Allowed(F, <<o>> \o s, r, rep)
  BY <1>1 DEF Allowed
<1> QED BY <1>2, SafeCons

-----------------------------------------------------------------------------
(* Lists of operations                                                       *)

\* Two operations, one after the other.
LEMMA Pair ==
  ASSUME NEW a \in Ops, NEW b \in Ops
  PROVE  <<a, b>> = <<a>> \o <<b>>
<1>1. <<a>> \in Seq(Ops) /\ <<b>> \in Seq(Ops) /\ Len(<<a>>) = 1 /\ Len(<<b>>) = 1
  OBVIOUS
<1>2. <<a, b>> \in Seq(Ops) /\ Len(<<a, b>>) = 2
  OBVIOUS
<1> DEFINE t == <<a>> \o <<b>>
<1>3. /\ t \in Seq(Ops) /\ Len(t) = 2
      /\ \A i \in 1..2 : t[i] = IF i <= 1 THEN <<a>>[i] ELSE <<b>>[i - 1]
  BY <1>1, ConcatProperties
<1>4. t[1] = a /\ t[2] = b
  BY <1>3
<1> HIDE DEF t
<1>5. \A i \in 1..2 : <<a, b>>[i] = t[i]
  BY <1>4
<1>6. <<a, b>> = t
  BY <1>2, <1>3, <1>5, SeqEqual
<1> QED BY <1>6 DEF t

\* Two operations in front of a list.
LEMMA List2 ==
  ASSUME NEW a \in Ops, NEW b \in Ops, NEW s \in Seq(Ops)
  PROVE  <<a, b>> \o s = <<a>> \o (<<b>> \o s)
<1>1. <<a>> \in Seq(Ops) /\ <<b>> \in Seq(Ops)
  OBVIOUS
<1>2. (<<a>> \o <<b>>) \o s = <<a>> \o (<<b>> \o s)
  BY <1>1, ConcatAssociative
<1>3. <<a, b>> = <<a>> \o <<b>>
  BY Pair
<1> QED BY <1>2, <1>3, Zenon

\* Three operations in front of a list.
LEMMA List3 ==
  ASSUME NEW a \in Ops, NEW b \in Ops, NEW c \in Ops, NEW s \in Seq(Ops)
  PROVE  <<a, b, c>> \o s = <<a>> \o (<<b>> \o (<<c>> \o s))
<1>1. <<a>> \in Seq(Ops) /\ <<b, c>> \in Seq(Ops)
  OBVIOUS
<1>2. (<<a>> \o <<b, c>>) \o s = <<a>> \o (<<b, c>> \o s)
  BY <1>1, ConcatAssociative
<1>3. <<a, b, c>> = <<a>> \o <<b, c>>
  OBVIOUS
<1>4. <<b, c>> \o s = <<b>> \o (<<c>> \o s)
  BY List2
<1> QED BY <1>2, <1>3, <1>4, Zenon

\* FtwEraseSpareBlock while nothing waits in the spare area.
LEMMA EraseSpareSafe ==
  ASSUME NEW F, NEW x, NEW h, NEW u, Quiet(F, x, h, u),
         NEW s \in Seq(Ops), NEW r, NEW E, NEW rep,
         \A G : Quiet(G, x, h, u) /\ G["SA"] = Erased /\ G["SB"] = Erased
                  => Safe(G, s, r, E, rep)
  PROVE  FtwEraseSpareBlock \o s \in Seq(Ops) /\ Safe(F, FtwEraseSpareBlock \o s, r, E, rep)
<1>1. FtwEraseSpareBlock = <<Erase("SA"), Erase("SB"), Erase("SW")>>
  BY DEF FtwEraseSpareBlock, FtwEraseBlock, SpareCells
<1>2. Erase("SA") \in Ops /\ Erase("SB") \in Ops /\ Erase("SW") \in Ops
  BY OpTypes DEF Cells
<1> DEFINE s1 == <<Erase("SW")>> \o s
           s2 == <<Erase("SB")>> \o s1
           s3 == <<Erase("SA")>> \o s2
<1>3. s1 \in Seq(Ops) /\ s2 \in Seq(Ops) /\ s3 \in Seq(Ops)
  BY <1>2, HeadTail
<1>4. FtwEraseSpareBlock \o s = s3
  <2>1. <<Erase("SA"), Erase("SB"), Erase("SW")>> \o s
          = <<Erase("SA")>> \o (<<Erase("SB")>> \o (<<Erase("SW")>> \o s))
    BY <1>2, List3, Zenon
  <2> QED BY <1>1, <2>1, Zenon
<1>e. \A G, c : Effect(G, Erase(c)) = Erased /\ CanDo(G, Erase(c))
  BY EffectBlock DEF CanDo, Erase
<1>k. \A c : Erase(c).k \in BlockOps /\ Erase(c).c = c
  BY DEF Erase, BlockOps
<1>5. ASSUME NEW G, Quiet(G, x, h, u), G["SA"] = Erased, G["SB"] = Erased
      PROVE  Safe(G, s1, r, E, rep)
  <2>1. After(G, Erase("SW")) = G
    BY <1>5, <1>e, <1>k DEF After, Quiet, Flash, Cells
  <2>2. Safe(After(G, Erase("SW")), s, r, E, rep)
    BY <1>5, <2>1
  <2> QED BY <1>2, <1>5, <1>e, <1>k, <2>2, SpareSafe, SpareTypes, CellTypes
<1>6. ASSUME NEW G, Quiet(G, x, h, u), G["SA"] = Erased
      PROVE  Safe(G, s2, r, E, rep)
  <2>1. After(G, Erase("SB"))["SA"] = Erased /\ After(G, Erase("SB"))["SB"] = Erased
    BY <1>6, <1>e, <1>k DEF After, Quiet, Flash, Cells
  <2>2. Quiet(After(G, Erase("SB")), x, h, u) => Safe(After(G, Erase("SB")), s1, r, E, rep)
    BY <1>5, <2>1
  <2> HIDE DEF s1
  <2> QED BY <1>2, <1>3, <1>6, <1>e, <1>k, <2>2, SpareSafe, SpareTypes, CellTypes
<1>7. Safe(F, s3, r, E, rep)
  <2>1. After(F, Erase("SA"))["SA"] = Erased
    BY <1>e, <1>k DEF After, Quiet, Flash, Cells
  <2>2. Quiet(After(F, Erase("SA")), x, h, u) => Safe(After(F, Erase("SA")), s2, r, E, rep)
    BY <1>6, <2>1
  <2> HIDE DEF s2
  <2> QED BY <1>2, <1>3, <1>e, <1>k, <2>2, SpareSafe, SpareTypes, CellTypes
<1> QED BY <1>3, <1>4, <1>7

\* A block programmed into an erased cell of the spare area.
LEMMA ProgramSpare ==
  ASSUME NEW F, NEW x, NEW h, NEW u, Quiet(F, x, h, u),
         NEW o \in Ops, o.c \in {"SA", "SB"}, F[o.c] = Erased, o.k \in BlockOps,
         NEW e \in Cell, Effect(F, o) = e, o.c = "SA" => e \in SpareCell,
         NEW s \in Seq(Ops), NEW r, NEW E, NEW rep,
         Quiet([F EXCEPT ![o.c] = e], x, h, u) => Safe([F EXCEPT ![o.c] = e], s, r, E, rep)
  PROVE  Safe(F, <<o>> \o s, r, E, rep)
<1>1. CanDo(F, o)
  BY DEF CanDo, BlockOps
<1>2. After(F, o) = [F EXCEPT ![o.c] = e]
  BY DEF After
<1>3. Quiet(After(F, o), x, h, u) => Safe(After(F, o), s, r, E, rep)
  BY <1>2
<1>4. /\ Effect(F, o) \in Cell /\ o.c # "SW" /\ o.c \in {"SA", "SB", "SW"}
      /\ o.c = "SA" => Effect(F, o) \in SpareCell
      /\ o.k \in BlockOps \union {"valid", "invalid"}
  OBVIOUS
<1> QED BY <1>1, <1>3, <1>4, SpareSafe

\* The contents of the spare area put back, while nothing waits there.
LEMMA RestoreSafe ==
  ASSUME NEW F, NEW x, NEW h, NEW u, Quiet(F, x, h, u), NEW a \in SpareCell, NEW b \in Cell,
         NEW s \in Seq(Ops), NEW r, NEW E, NEW rep,
         \A G : Quiet(G, x, h, u) => Safe(G, s, r, E, rep)
  PROVE  Safe(F, FtwEraseSpareBlock \o
                   (<<Put("SA", a)>> \o (<<Put("SB", b)>> \o (<<Put("SW", Erased)>> \o s))),
              r, E, rep)
<1>1. a \in Cell /\ Erased \in Cell
  BY CellTypes DEF SpareCell
<1>2. Put("SA", a) \in Ops /\ Put("SB", b) \in Ops /\ Put("SW", Erased) \in Ops
  BY <1>1, OpTypes DEF Cells
<1> DEFINE s1 == <<Put("SW", Erased)>> \o s
           s2 == <<Put("SB", b)>> \o s1
           s3 == <<Put("SA", a)>> \o s2
<1>3. s1 \in Seq(Ops) /\ s2 \in Seq(Ops) /\ s3 \in Seq(Ops)
  BY <1>2, HeadTail
<1>e. \A G, c, d : Effect(G, Put(c, d)) = d
  BY DEF Effect, Put
<1>k. \A c, d : Put(c, d).k = "put" /\ Put(c, d).c = c
  BY DEF Put
<1>b. "put" \in BlockOps
  BY DEF BlockOps
<1>4. ASSUME NEW G, Quiet(G, x, h, u) PROVE Safe(G, s1, r, E, rep)
  <2> DEFINE o == Put("SW", Erased)
  <2>1. CanDo(G, o)
    BY <1>4, <1>k DEF CanDo, Quiet
  <2>2. o.c = "SW" /\ o.k \in BlockOps /\ Effect(G, o) = Erased /\ o \in Ops
    BY <1>2, <1>e, <1>k, <1>b
  <2> HIDE DEF o
  <2>3. Safe(G, <<o>> \o s, r, E, rep)
    BY <1>1, <1>4, <2>1, <2>2, SpareSafe
  <2> QED BY <2>3 DEF o
<1>5. ASSUME NEW G, Quiet(G, x, h, u), G["SB"] = Erased PROVE Safe(G, s2, r, E, rep)
  <2> DEFINE o == Put("SB", b)
  <2>1. o \in Ops /\ o.c = "SB" /\ o.k \in BlockOps /\ Effect(G, o) = b
    BY <1>2, <1>e, <1>k, <1>b
  <2> HIDE DEF s1, o
  <2>2. Safe(G, <<o>> \o s1, r, E, rep)
    BY <1>3, <1>4, <1>5, <2>1, ProgramSpare
  <2> QED BY <2>2 DEF o
<1>6. ASSUME NEW G, Quiet(G, x, h, u), G["SA"] = Erased, G["SB"] = Erased
      PROVE  Safe(G, s3, r, E, rep)
  <2>1. [G EXCEPT !["SA"] = a]["SB"] = Erased
    BY <1>6 DEF Quiet, Flash, Cells
  <2>2. Quiet([G EXCEPT !["SA"] = a], x, h, u) => Safe([G EXCEPT !["SA"] = a], s2, r, E, rep)
    BY <1>5, <2>1
  <2> DEFINE o == Put("SA", a)
  <2>3. o \in Ops /\ o.c = "SA" /\ o.k \in BlockOps /\ Effect(G, o) = a
    BY <1>2, <1>e, <1>k, <1>b
  <2> HIDE DEF s2, o
  <2>4. Safe(G, <<o>> \o s2, r, E, rep)
    BY <1>1, <1>3, <1>6, <2>2, <2>3, ProgramSpare
  <2> QED BY <2>4 DEF o
<1> HIDE DEF s3
<1>7. Safe(F, FtwEraseSpareBlock \o s3, r, E, rep)
  BY <1>3, <1>6, EraseSpareSafe
<1> QED BY <1>7 DEF s3

Replaces(s) == \E i \in DOMAIN s : s[i] = Erase("W")

\* A list that erases the work space still does with an operation in front.
LEMMA ReplacesLater ==
  ASSUME NEW s \in Seq(Ops), NEW o \in Ops
  PROVE  /\ Replaces(<<Erase("W")>> \o s)
         /\ Replaces(s) => Replaces(<<o>> \o s)
<1>0. Erase("W") \in Ops
  BY OpTypes DEF Cells
<1>1. \A e \in Ops : /\ <<e>> \in Seq(Ops) /\ Len(<<e>>) = 1 /\ <<e>>[1] = e
  OBVIOUS
<1>2. Replaces(<<Erase("W")>> \o s)
  <2> DEFINE t == <<Erase("W")>> \o s
  <2>1. /\ t \in Seq(Ops) /\ Len(t) = 1 + Len(s)
        /\ \A i \in 1..(1 + Len(s)) : t[i] = IF i <= 1 THEN <<Erase("W")>>[i] ELSE s[i - 1]
    BY <1>0, <1>1, ConcatProperties
  <2>2. 1 \in 1..(1 + Len(s))
    OBVIOUS
  <2>3. t[1] = Erase("W") /\ 1 \in DOMAIN t
    BY <2>1, <2>2
  <2> HIDE DEF t
  <2>4. Replaces(t)
    BY <2>3 DEF Replaces
  <2> QED BY <2>4 DEF t
<1>3. ASSUME Replaces(s) PROVE Replaces(<<o>> \o s)
  <2>1. PICK i \in DOMAIN s : s[i] = Erase("W")
    BY <1>3 DEF Replaces
  <2> DEFINE t == <<o>> \o s
  <2>2. /\ t \in Seq(Ops) /\ Len(t) = 1 + Len(s)
        /\ \A j \in 1..(1 + Len(s)) : t[j] = IF j <= 1 THEN <<o>>[j] ELSE s[j - 1]
    BY <1>1, ConcatProperties
  <2>3. i \in 1..Len(s) /\ i + 1 \in 1..(1 + Len(s)) /\ ~(i + 1 <= 1) /\ i + 1 - 1 = i
    OBVIOUS
  <2>4. t[i + 1] = Erase("W") /\ i + 1 \in DOMAIN t
    BY <2>1, <2>2, <2>3
  <2> HIDE DEF t
  <2>5. Replaces(t)
    BY <2>4 DEF Replaces
  <2> QED BY <2>5 DEF t
<1> QED BY <1>2, <1>3

\* The work space marked invalid before it is erased.
LEMMA InvalidateSafe ==
  ASSUME NEW F, NEW x, NEW h \in {None, "fresh", "valid", "invalid"}, NEW u, Quiet(F, x, h, u),
         NEW s \in Seq(Ops), Replaces(s), NEW r, NEW E, NEW rep,
         \A G : /\ Quiet(G, x, IF h = None THEN None ELSE "invalid", u)
                /\ G["SA"] = F["SA"]
                => Safe(G, s, r, E, rep)
  PROVE  Safe(F, <<SetInvalid("W")>> \o s, r, E, rep)
<1> DEFINE o == SetInvalid("W")
           j == IF h = None THEN None ELSE "invalid"
<1>0. o \in Ops
  BY OpTypes DEF Cells
<1>1. Effect(F, o) = Space(j, u) /\ o.c = "W" /\ o.k = "invalid"
  <2>1. Effect(F, o) = [F["W"] EXCEPT !.h = IF F["W"].h = None THEN F["W"].h ELSE "invalid"]
    BY EffectState
  <2>2. F["W"] = Space(h, u)
    BY DEF Quiet
  <2>3. Effect(F, o) = Space(j, u)
    BY <2>1, <2>2 DEF Space
  <2> QED BY <2>3 DEF SetInvalid
<1>2. F["W"] = Space(h, u) /\ u \in Queues /\ \E p : Shape(u, p)
  BY DEF Quiet, Shape
<1>3. \A b \in Leaves(F, o) : b \in {Space(h, u), Space(j, u)}
  BY <1>1, <1>2, PartialBytes DEF Leaves
<1>4. Quiet([F EXCEPT !["W"] = Space(j, u)], x, j, u)
  BY <1>2, WorkStep DEF None
<1>5. Quiet([F EXCEPT !["W"] = Space(h, u)], x, h, u)
  <2>1. ~(h = "valid" /\ Pending(u))
    BY DEF Quiet
  <2> QED BY <1>2, <2>1, WorkStep
<1>6. CanDo(F, o)
  BY <1>1 DEF CanDo
<1>7. Safe(After(F, o), s, r, E, rep)
  <2>1. After(F, o) = [F EXCEPT !["W"] = Space(j, u)]
    BY <1>1 DEF After
  <2>2. [F EXCEPT !["W"] = Space(j, u)]["SA"] = F["SA"]
    BY DEF Quiet, Flash, Cells
  <2> HIDE DEF o
  <2> QED BY <1>4, <2>1, <2>2
<1>8. Holds(F, x) /\ x \in Values
  BY DEF Holds, Quiet
<1>9. \A b \in Leaves(F, o) : Holds([F EXCEPT !["W"] = b], x)
  BY <1>3, <1>4, <1>5 DEF Holds
<1>10. Replaces(<<o>> \o s)
  BY <1>0, ReplacesLater
<1> HIDE DEF o
<1>11. Safe(F, <<o>> \o s, r, E, rep)
  BY <1>0, <1>1, <1>6, <1>7, <1>8, <1>9, <1>10, WorkSafe DEF Replaces
<1> QED BY <1>11 DEF o

\* The work space in the spare area marked valid.
LEMMA ValidateSpareSafe ==
  ASSUME NEW F, NEW x, NEW h, NEW u, Quiet(F, x, h, u),
         NEW k \in {None, "fresh", "valid", "invalid"}, F["SA"] = Space(k, NoUnits),
         NEW s \in Seq(Ops), NEW r, NEW E, NEW rep,
         \A G : /\ Quiet(G, x, h, u)
                /\ \E j \in {None, "fresh", "valid", "invalid"} : G["SA"] = Space(j, NoUnits)
                => Safe(G, s, r, E, rep)
  PROVE  Safe(F, <<SetValid("SA")>> \o s, r, E, rep)
<1> DEFINE o == SetValid("SA")
           e == Space(IF k = "fresh" THEN "valid" ELSE k, NoUnits)
<1>0. o \in Ops
  BY OpTypes DEF Cells
<1>1. Effect(F, o) = e /\ o.c = "SA" /\ o.k = "valid"
  <2>1. Effect(F, o)
          = [F["SA"] EXCEPT !.h = IF F["SA"].h = "fresh" THEN "valid" ELSE F["SA"].h]
    BY EffectState
  <2>2. Effect(F, o) = e
    BY <2>1 DEF Space
  <2> QED BY <2>2 DEF SetValid
<1>2. e \in SpareCell /\ e \in Cell
  BY SpareTypes DEF SpareCell
<1>3. CanDo(F, o)
  BY <1>1 DEF CanDo
<1>4. \E j \in {None, "fresh", "valid", "invalid"} : After(F, o)["SA"] = Space(j, NoUnits)
  BY <1>1 DEF After, Quiet, Flash, Cells
<1>5. Quiet(After(F, o), x, h, u) => Safe(After(F, o), s, r, E, rep)
  BY <1>4
<1> HIDE DEF o, e
<1>6. Safe(F, <<o>> \o s, r, E, rep)
  BY <1>0, <1>1, <1>2, <1>3, <1>5, SpareSafe
<1> QED BY <1>6 DEF o

\* The work space in the first block of the spare area flushed over the one in the work
\* block.
LEMMA FlushSafe ==
  ASSUME NEW F, NEW x, NEW h \in {None, "fresh", "valid", "invalid"}, NEW u, Quiet(F, x, h, u),
         NEW k \in {None, "fresh", "valid", "invalid"}, F["SA"] = Space(k, NoUnits),
         NEW s \in Seq(Ops), NEW r, NEW E, NEW rep,
         \A G : Quiet(G, x, "valid", NoUnits) => Safe(G, s, r, E, rep)
  PROVE  Safe(F, <<SetValid("SA")>> \o (<<SetInvalid("W")>> \o (<<Erase("W")>>
                   \o (<<Copy("W", "SA")>> \o (<<SetValid("W")>> \o s)))), r, E, rep)
<1>1. /\ SetValid("SA") \in Ops /\ SetInvalid("W") \in Ops /\ Erase("W") \in Ops
      /\ Copy("W", "SA") \in Ops /\ SetValid("W") \in Ops
  BY OpTypes DEF Cells
<1> DEFINE s1 == <<SetValid("W")>> \o s
           s2 == <<Copy("W", "SA")>> \o s1
           s3 == <<Erase("W")>> \o s2
           s4 == <<SetInvalid("W")>> \o s3
           Spaced(G) == \E j \in {None, "fresh", "valid", "invalid"} : G["SA"] = Space(j, NoUnits)
<1>2. s1 \in Seq(Ops) /\ s2 \in Seq(Ops) /\ s3 \in Seq(Ops) /\ s4 \in Seq(Ops)
  BY <1>1, HeadTail
<1>n. NoUnits \in Queues /\ (\E p : Shape(NoUnits, p)) /\ ~Pending(NoUnits)
  <2>1. ~Spared(NoUnits, 1)
    BY WsSizeAssumption DEF Spared, Open, NoUnits, NoUnit
  <2> QED BY NoUnitsShape, QueueFacts, <2>1
<1>m. Erased = Space(None, NoUnits)
  BY DEF Erased, Space
<1>3. ASSUME NEW G, Quiet(G, x, "fresh", NoUnits) PROVE Safe(G, s1, r, E, rep)
  <2> DEFINE o == SetValid("W")
  <2>1. Effect(G, o) = Space("valid", NoUnits) /\ o.c = "W" /\ o.k = "valid"
    BY <1>3, EffectState DEF SetValid, Quiet, Space
  <2>2. G["W"] = Space("fresh", NoUnits) /\ G["W"].h # "valid"
    BY <1>3 DEF Quiet, Space
  <2>3. \A b \in Leaves(G, o) : b \in {Space("fresh", NoUnits), Space("valid", NoUnits)}
    BY <2>1, <2>2, PartialBytes DEF Leaves
  <2>4. Quiet([G EXCEPT !["W"] = Space("valid", NoUnits)], x, "valid", NoUnits)
    BY <1>3, <1>n, WorkStep
  <2>5. Quiet([G EXCEPT !["W"] = Space("fresh", NoUnits)], x, "fresh", NoUnits)
    BY <1>3, <1>n, WorkStep
  <2>6. CanDo(G, o)
    BY <2>1 DEF CanDo
  <2>7. Safe(After(G, o), s, r, E, rep)
    BY <2>1, <2>4 DEF After
  <2>8. Holds(G, x) /\ x \in Values
    BY <1>3 DEF Holds, Quiet
  <2>9. \A b \in Leaves(G, o) : Holds([G EXCEPT !["W"] = b], x)
    BY <2>3, <2>4, <2>5 DEF Holds
  <2> HIDE DEF o
  <2>10. Safe(G, <<o>> \o s, r, E, rep)
    BY <1>1, <2>1, <2>2, <2>6, <2>7, <2>8, <2>9, WorkSafe DEF o
  <2> QED BY <2>10 DEF o
<1>4. ASSUME NEW G, Quiet(G, x, None, NoUnits), Spaced(G) PROVE Safe(G, s2, r, E, rep)
  <2> DEFINE o == Copy("W", "SA")
  <2>1. Effect(G, o) = Space("fresh", NoUnits) /\ o.c = "W" /\ o.k = "copy"
    <3>1. Effect(G, o) = [G["SA"] EXCEPT !.h = "fresh"]
      BY EffectBlock
    <3>2. Effect(G, o) = Space("fresh", NoUnits)
      BY <1>4, <3>1 DEF Space
    <3> QED BY <3>2 DEF Copy
  <2>2. G["W"] = Erased /\ G["W"].h # "valid"
    BY <1>4, <1>m DEF Quiet, Space, None
  <2>3. \A b \in Leaves(G, o) : b \in {Space(None, NoUnits), Space("fresh", NoUnits)}
    <3> SUFFICES ASSUME NEW b \in Partial(G, o) PROVE b \in {Erased, Space("fresh", NoUnits)}
      BY <1>m, <2>1 DEF Leaves
    <3>1. PICK torn \in {Blank, Torn} :
           /\ G[o.c].v = Blank /\ Effect(G, o).v = Blank => torn = Blank
           /\ Remainder(G[o.c], Effect(G, o), torn, b)
      BY <2>1, PartialBlock DEF BlockOps
    <3>2. torn = Blank
      BY <2>1, <2>2, <3>1 DEF Erased, Space
    <3>3. Remainder(Erased, Space("fresh", NoUnits), Blank, b)
      BY <2>1, <2>2, <3>1, <3>2
    <3> QED BY <3>3 DEF Remainder, Erased, Space
  <2>4. Quiet([G EXCEPT !["W"] = Space("fresh", NoUnits)], x, "fresh", NoUnits)
    BY <1>4, <1>n, WorkStep
  <2>5. Quiet([G EXCEPT !["W"] = Space(None, NoUnits)], x, None, NoUnits)
    BY <1>4, <1>n, WorkStep DEF None
  <2>6. CanDo(G, o)
    BY <2>1, <2>2 DEF CanDo
  <2>7. Safe(After(G, o), s1, r, E, rep)
    BY <1>3, <2>1, <2>4 DEF After
  <2>8. Holds(G, x) /\ x \in Values
    BY <1>4 DEF Holds, Quiet
  <2>9. \A b \in Leaves(G, o) : Holds([G EXCEPT !["W"] = b], x)
    BY <2>3, <2>4, <2>5 DEF Holds
  <2> HIDE DEF o, s1
  <2>10. Safe(G, <<o>> \o s1, r, E, rep)
    BY <1>1, <1>2, <2>1, <2>2, <2>6, <2>7, <2>8, <2>9, WorkSafe DEF o
  <2> QED BY <2>10 DEF o
<1>5. ASSUME NEW G, NEW j \in {None, "fresh", "invalid"}, Quiet(G, x, j, u), Spaced(G)
      PROVE  Safe(G, s3, r, E, rep)
  <2> DEFINE o == Erase("W")
  <2>1. Effect(G, o) = Erased /\ o.c = "W" /\ o.k = "erase"
    BY EffectBlock DEF Erase
  <2>2. G["W"] = Space(j, u) /\ G["W"].h # "valid" /\ u \in Queues /\ \E p : Shape(u, p)
    BY <1>5 DEF Quiet, Space, None, Shape
  <2>3. \A b \in Leaves(G, o) : b \in {Space(None, NoUnits), Space(None, u), Space(j, u)}
    <3> SUFFICES ASSUME NEW b \in Partial(G, o)
                 PROVE  b \in {Erased, Space(None, u), Space(j, u)}
      BY <1>m, <2>1 DEF Leaves
    <3>1. PICK torn \in {Blank, Torn} :
           /\ G[o.c].v = Blank /\ Effect(G, o).v = Blank => torn = Blank
           /\ Remainder(G[o.c], Effect(G, o), torn, b)
      BY <2>1, PartialBlock DEF BlockOps
    <3>2. torn = Blank
      BY <2>1, <2>2, <3>1 DEF Erased, Space
    <3>3. Remainder(Space(j, u), Erased, Blank, b)
      BY <2>1, <2>2, <3>1, <3>2
    <3> QED BY <3>3 DEF Remainder, Erased, Space
  <2>4. Quiet([G EXCEPT !["W"] = Space(None, NoUnits)], x, None, NoUnits)
    BY <1>5, <1>n, WorkStep DEF None
  <2>5. Quiet([G EXCEPT !["W"] = Space(None, u)], x, None, u)
    BY <1>5, <2>2, WorkStep DEF None
  <2>a. Quiet([G EXCEPT !["W"] = Space(j, u)], x, j, u)
    BY <1>5, <2>2, WorkStep DEF None
  <2>6. CanDo(G, o)
    BY <2>1, <2>2 DEF CanDo
  <2>7. Safe(After(G, o), s2, r, E, rep)
    <3>1. After(G, o) = [G EXCEPT !["W"] = Space(None, NoUnits)]
      BY <1>m, <2>1 DEF After
    <3>2. Spaced([G EXCEPT !["W"] = Space(None, NoUnits)])
      BY <1>5 DEF Quiet, Flash, Cells
    <3> QED BY <1>4, <2>4, <3>1, <3>2
  <2>8. Holds(G, x) /\ x \in Values
    BY <1>5 DEF Holds, Quiet
  <2>9. \A b \in Leaves(G, o) : Holds([G EXCEPT !["W"] = b], x)
    BY <2>3, <2>4, <2>5, <2>a DEF Holds
  <2> HIDE DEF o, s2
  <2>10. Safe(G, <<o>> \o s2, r, E, rep)
    BY <1>1, <1>2, <2>1, <2>2, <2>6, <2>7, <2>8, <2>9, WorkSafe DEF o
  <2> QED BY <2>10 DEF o
<1>6. ASSUME NEW G, Quiet(G, x, h, u), Spaced(G) PROVE Safe(G, s4, r, E, rep)
  <2>1. Replaces(s3)
    BY <1>1, <1>2, ReplacesLater
  <2> DEFINE j == IF h = None THEN None ELSE "invalid"
  <2>2. j \in {None, "fresh", "invalid"}
    OBVIOUS
  <2>3. \A H : Quiet(H, x, j, u) /\ H["SA"] = G["SA"] => Safe(H, s3, r, E, rep)
    BY <1>5, <1>6, <2>2
  <2> HIDE DEF s3
  <2> QED BY <1>2, <1>6, <2>1, <2>3, InvalidateSafe
<1>7. Safe(F, <<SetValid("SA")>> \o s4, r, E, rep)
  <2> HIDE DEF s4
  <2> QED BY <1>2, <1>6, ValidateSpareSafe
<1> QED BY <1>7

\* Lists are put together in any grouping.
LEMMA Assoc ==
  ASSUME NEW a \in Seq(Ops), NEW b \in Seq(Ops), NEW s \in Seq(Ops)
  PROVE  (a \o b) \o s = a \o (b \o s) /\ a \o b \in Seq(Ops)
<1>1. a \o b \in Seq(Ops)
  BY ConcatProperties
<1>2. (a \o b) \o s = a \o (b \o s)
  BY ConcatAssociative
<1> QED BY <1>1, <1>2

Cat(a, b) == a \o b

\* The same of the lists as Cat puts them together.
LEMMA CatFacts ==
  /\ \A a, b \in Seq(Ops) : Cat(a, b) \in Seq(Ops)
  /\ \A a, b, c \in Seq(Ops) : Cat(Cat(a, b), c) = Cat(a, Cat(b, c))
BY ConcatProperties, ConcatAssociative DEF Cat

\* Four lists in front of a fifth.
LEMMA Cat4 ==
  ASSUME NEW a \in Seq(Ops), NEW b \in Seq(Ops), NEW c \in Seq(Ops), NEW d \in Seq(Ops),
         NEW s \in Seq(Ops)
  PROVE  /\ Cat(Cat(Cat(Cat(a, b), c), d), s) = Cat(a, Cat(b, Cat(c, Cat(d, s))))
         /\ Cat(Cat(Cat(a, b), c), d) \in Seq(Ops)
<1>1. /\ Cat(a, b) \in Seq(Ops) /\ Cat(Cat(a, b), c) \in Seq(Ops)
      /\ Cat(Cat(Cat(a, b), c), d) \in Seq(Ops)
  BY CatFacts
<1>2. Cat(d, s) \in Seq(Ops) /\ Cat(c, Cat(d, s)) \in Seq(Ops)
  BY CatFacts
<1>3. Cat(Cat(Cat(Cat(a, b), c), d), s) = Cat(Cat(Cat(a, b), c), Cat(d, s))
  BY <1>1, CatFacts
<1>4. Cat(Cat(Cat(a, b), c), Cat(d, s)) = Cat(Cat(a, b), Cat(c, Cat(d, s)))
  BY <1>1, <1>2, CatFacts
<1>5. Cat(Cat(a, b), Cat(c, Cat(d, s))) = Cat(a, Cat(b, Cat(c, Cat(d, s))))
  BY <1>2, CatFacts
<1> QED BY <1>1, <1>3, <1>4, <1>5

\* Five lists in front of a sixth.
LEMMA Cat5 ==
  ASSUME NEW a \in Seq(Ops), NEW b \in Seq(Ops), NEW c \in Seq(Ops), NEW d \in Seq(Ops),
         NEW e \in Seq(Ops), NEW s \in Seq(Ops)
  PROVE  /\ Cat(Cat(Cat(Cat(Cat(a, b), c), d), e), s)
              = Cat(a, Cat(b, Cat(c, Cat(d, Cat(e, s)))))
         /\ Cat(Cat(Cat(Cat(a, b), c), d), e) \in Seq(Ops)
<1>1. Cat(Cat(Cat(a, b), c), d) \in Seq(Ops)
  BY Cat4
<1>2. Cat(Cat(Cat(Cat(a, b), c), d), e) \in Seq(Ops) /\ Cat(e, s) \in Seq(Ops)
  BY <1>1, CatFacts
<1>3. Cat(Cat(Cat(Cat(Cat(a, b), c), d), e), s) = Cat(Cat(Cat(Cat(a, b), c), d), Cat(e, s))
  BY <1>1, CatFacts
<1>4. Cat(Cat(Cat(Cat(a, b), c), d), Cat(e, s))
        = Cat(a, Cat(b, Cat(c, Cat(d, Cat(e, s)))))
  BY <1>2, Cat4
<1> QED BY <1>2, <1>3, <1>4

\* Four lists in front of a fifth, without Cat.
LEMMA Assoc4 ==
  ASSUME NEW a \in Seq(Ops), NEW b \in Seq(Ops), NEW c \in Seq(Ops), NEW d \in Seq(Ops),
         NEW s \in Seq(Ops)
  PROVE  /\ (((a \o b) \o c) \o d) \o s = a \o (b \o (c \o (d \o s)))
         /\ ((a \o b) \o c) \o d \in Seq(Ops)
BY Cat4, Zenon DEF Cat

\* Five lists in front of a sixth, without Cat.
LEMMA Assoc5 ==
  ASSUME NEW a \in Seq(Ops), NEW b \in Seq(Ops), NEW c \in Seq(Ops), NEW d \in Seq(Ops),
         NEW e \in Seq(Ops), NEW s \in Seq(Ops)
  PROVE  /\ ((((a \o b) \o c) \o d) \o e) \o s = a \o (b \o (c \o (d \o (e \o s))))
         /\ (((a \o b) \o c) \o d) \o e \in Seq(Ops)
<1>1. /\ Cat(Cat(Cat(Cat(Cat(a, b), c), d), e), s)
              = Cat(a, Cat(b, Cat(c, Cat(d, Cat(e, s)))))
      /\ Cat(Cat(Cat(Cat(a, b), c), d), e) \in Seq(Ops)
  BY Cat5
<1> QED BY <1>1, Zenon DEF Cat

\* FlushSpareBlockToWorkingBlock in front of s.
LEMMA FlushList ==
  ASSUME shared = FALSE, NEW s \in Seq(Ops)
  PROVE  /\ FlushSpareBlockToWorkingBlock \in Seq(Ops)
         /\ FlushSpareBlockToWorkingBlock \o s
              = <<SetValid("SA")>> \o (<<SetInvalid("W")>> \o (<<Erase("W")>>
                   \o (<<Copy("W", "SA")>> \o (<<SetValid("W")>> \o s))))
<1> DEFINE a == <<SetValid("SA"), SetInvalid("W")>>
           b == <<Erase("W")>>
           c == <<Copy("W", "SA")>>
           d == <<SetValid("W")>>
<1>1. /\ SetValid("SA") \in Ops /\ SetInvalid("W") \in Ops /\ Erase("W") \in Ops
      /\ Copy("W", "SA") \in Ops /\ SetValid("W") \in Ops
  BY OpTypes DEF Cells
<1>2. a \in Seq(Ops) /\ b \in Seq(Ops) /\ c \in Seq(Ops) /\ d \in Seq(Ops)
  BY <1>1
<1>3. WorkBlocks = <<"W">> /\ WorkSpaceInSpare = "SA"
  BY DEF WorkBlocks, WorkSpaceInSpare
<1>4. FtwEraseBlock(WorkBlocks) = b
  BY <1>3 DEF FtwEraseBlock
<1>5. [i \in DOMAIN WorkBlocks |-> Copy(WorkBlocks[i], SpareCells[i])] = c
  BY <1>3 DEF SpareCells
<1>6. FlushSpareBlockToWorkingBlock = ((a \o b) \o c) \o d
  BY <1>3, <1>4, <1>5 DEF FlushSpareBlockToWorkingBlock
<1>7. b \o (c \o (d \o s)) \in Seq(Ops)
  BY <1>2, ConcatProperties
<1>8. a \o (b \o (c \o (d \o s)))
        = <<SetValid("SA")>> \o (<<SetInvalid("W")>> \o (b \o (c \o (d \o s))))
  <2> HIDE DEF b, c, d
  <2> QED BY <1>1, <1>7, List2, Zenon
<1>9. /\ (((a \o b) \o c) \o d) \o s = a \o (b \o (c \o (d \o s)))
      /\ ((a \o b) \o c) \o d \in Seq(Ops)
  <2> HIDE DEF a, b, c, d
  <2> QED BY <1>2, Assoc4
<1> HIDE DEF a
<1> QED BY <1>6, <1>8, <1>9, Zenon

\* RestoreSpare in front of s.
LEMMA RestoreList ==
  ASSUME NEW s \in Seq(Ops), flash \in Flash
  PROVE  /\ RestoreSpare \in Seq(Ops)
         /\ RestoreSpare \o s
              = FtwEraseSpareBlock \o (<<Put("SA", flash["SA"])>> \o
                  (<<Put("SB", flash["SB"])>> \o (<<Put("SW", flash["SW"])>> \o s)))
<1> DEFINE a == FtwEraseSpareBlock
           b == <<Put("SA", flash["SA"]), Put("SB", flash["SB"]), Put("SW", flash["SW"])>>
<1>1. /\ Put("SA", flash["SA"]) \in Ops /\ Put("SB", flash["SB"]) \in Ops
      /\ Put("SW", flash["SW"]) \in Ops
      /\ Erase("SA") \in Ops /\ Erase("SB") \in Ops /\ Erase("SW") \in Ops
  BY OpTypes DEF Flash, Cells
<1>2. a = <<Erase("SA"), Erase("SB"), Erase("SW")>>
  BY DEF FtwEraseSpareBlock, FtwEraseBlock, SpareCells
<1>3. a \in Seq(Ops) /\ b \in Seq(Ops)
  BY <1>1, <1>2
<1>4. RestoreSpare = a \o b
  BY DEF RestoreSpare, SpareCells
<1>5. b \o s = <<Put("SA", flash["SA"])>> \o
                 (<<Put("SB", flash["SB"])>> \o (<<Put("SW", flash["SW"])>> \o s))
  <2> DEFINE p1 == Put("SA", flash["SA"])
             p2 == Put("SB", flash["SB"])
             p3 == Put("SW", flash["SW"])
  <2>1. p1 \in Ops /\ p2 \in Ops /\ p3 \in Ops
    BY <1>1
  <2>2. b = <<p1, p2, p3>>
    OBVIOUS
  <2> HIDE DEF p1, p2, p3, b
  <2>3. <<p1, p2, p3>> \o s = <<p1>> \o (<<p2>> \o (<<p3>> \o s))
    BY <2>1, List3, Zenon
  <2>4. b \o s = <<p1>> \o (<<p2>> \o (<<p3>> \o s))
    BY <2>2, <2>3, Zenon
  <2> QED BY <2>4 DEF p1, p2, p3
<1> HIDE DEF a, b
<1>6. (a \o b) \o s = a \o (b \o s) /\ a \o b \in Seq(Ops)
  BY <1>3, Assoc
<1> QED BY <1>4, <1>5, <1>6, Zenon DEF a

\* FtwReclaimWorkSpace with an empty queue, called when nothing waits.
LEMMA ReclaimSafe ==
  ASSUME shared = FALSE, NEW x, NEW h \in {None, "fresh", "valid", "invalid"}, NEW u,
         Quiet(flash, x, h, u), NEW new \in BOOLEAN,
         NEW s \in Seq(Ops), NEW r, NEW E, NEW rep,
         \A G : Quiet(G, x, "valid", NoUnits) => Safe(G, s, r, E, rep)
  PROVE  /\ FtwReclaimWorkSpace(NoUnits, new) \in Seq(Ops)
         /\ Safe(flash, FtwReclaimWorkSpace(NoUnits, new) \o s, r, E, rep)
<1> DEFINE a == FtwEraseSpareBlock
           b == <<Queue("SA", NoUnits, new)>>
           c == <<SetValid("SA"), SetInvalid("W")>>
           d == FlushSpareBlockToWorkingBlock
           e == RestoreSpare
<1>1. /\ Queue("SA", NoUnits, new) \in Ops /\ SetValid("SA") \in Ops /\ SetInvalid("W") \in Ops
      /\ Erase("SA") \in Ops /\ Erase("SB") \in Ops /\ Erase("SW") \in Ops
  BY OpTypes, NoUnitsShape DEF Cells
<1>f. /\ flash \in Flash /\ flash["SA"] \in SpareCell /\ flash["SB"] \in Cell
      /\ flash["SW"] = Erased
  BY DEF Quiet, Flash, Cells
<1>2. /\ a \in Seq(Ops) /\ b \in Seq(Ops) /\ c \in Seq(Ops) /\ d \in Seq(Ops)
      /\ e \in Seq(Ops)
  <2>1. a = <<Erase("SA"), Erase("SB"), Erase("SW")>>
    BY DEF FtwEraseSpareBlock, FtwEraseBlock, SpareCells
  <2>2. a \in Seq(Ops) /\ b \in Seq(Ops) /\ c \in Seq(Ops)
    BY <1>1, <2>1
  <2> QED BY <1>f, <2>2, FlushList, RestoreList
<1>3. WorkBlocks = <<"W">> /\ WorkSpaceInSpare = "SA"
  BY DEF WorkBlocks, WorkSpaceInSpare
<1>4. [i \in DOMAIN WorkBlocks |->
         IF WorkBlocks[i] = "W" THEN Queue(SpareCells[i], NoUnits, new)
                                ELSE Copy(SpareCells[i], WorkBlocks[i])] = b
  BY <1>3 DEF SpareCells
<1>5. FtwReclaimWorkSpace(NoUnits, new) = (((a \o b) \o c) \o d) \o e
  BY <1>3, <1>4 DEF FtwReclaimWorkSpace
<1> DEFINE s1 == e \o s
           s2 == d \o s1
           s3 == <<SetInvalid("W")>> \o s2
           s4 == <<SetValid("SA")>> \o s3
           s5 == b \o s4
<1>6. /\ s1 \in Seq(Ops) /\ s2 \in Seq(Ops) /\ s3 \in Seq(Ops) /\ s4 \in Seq(Ops)
      /\ s5 \in Seq(Ops)
  BY <1>1, <1>2, ConcatProperties
<1>7. /\ FtwReclaimWorkSpace(NoUnits, new) \o s = a \o s5
      /\ FtwReclaimWorkSpace(NoUnits, new) \in Seq(Ops)
  <2>1. c \o s2 = s4
    <3> DEFINE p1 == SetValid("SA")
               p2 == SetInvalid("W")
    <3>1. p1 \in Ops /\ p2 \in Ops
      BY <1>1
    <3>2. s2 \in Seq(Ops)
      BY <1>6
    <3> HIDE DEF p1, p2, s2
    <3>3. <<p1, p2>> \o s2 = <<p1>> \o (<<p2>> \o s2)
      BY <3>1, <3>2, List2
    <3> QED BY <3>3 DEF p1, p2
  <2> HIDE DEF a, b, c, d, e
  <2>2. /\ ((((a \o b) \o c) \o d) \o e) \o s = a \o (b \o (c \o (d \o (e \o s))))
        /\ (((a \o b) \o c) \o d) \o e \in Seq(Ops)
    BY <1>2, Assoc5
  <2> QED BY <1>5, <2>1, <2>2, Zenon
<1>8. ASSUME NEW G, Quiet(G, x, "valid", NoUnits) PROVE Safe(G, s1, r, E, rep)
  <2> DEFINE t == FtwEraseSpareBlock \o (<<Put("SA", flash["SA"])>> \o
                    (<<Put("SB", flash["SB"])>> \o (<<Put("SW", Erased)>> \o s)))
  <2>1. s1 = t
    BY <1>f, RestoreList
  <2>2. Safe(G, t, r, E, rep)
    BY <1>8, <1>f, RestoreSafe
  <2> QED BY <2>1, <2>2
<1> HIDE DEF s1
<1>9. ASSUME NEW G, NEW j \in {None, "fresh", "valid", "invalid"}, NEW v, Quiet(G, x, j, v),
             NEW k \in {None, "fresh", "valid", "invalid"}, G["SA"] = Space(k, NoUnits)
      PROVE  Safe(G, s2, r, E, rep)
  BY <1>6, <1>8, <1>9, FlushList, FlushSafe
<1>r. Replaces(s2) /\ Replaces(s3)
  <2> DEFINE t == <<Copy("W", "SA")>> \o (<<SetValid("W")>> \o s1)
             t1 == <<Erase("W")>> \o t
             t2 == <<SetInvalid("W")>> \o t1
  <2>1. Copy("W", "SA") \in Ops /\ SetValid("W") \in Ops /\ Erase("W") \in Ops
    BY OpTypes DEF Cells
  <2>2. t \in Seq(Ops) /\ t1 \in Seq(Ops) /\ t2 \in Seq(Ops)
    BY <1>1, <1>6, <2>1, HeadTail
  <2>3. s2 = <<SetValid("SA")>> \o t2
    BY <1>6, FlushList
  <2> HIDE DEF t
  <2>4. Replaces(t1)
    BY <2>1, <2>2, ReplacesLater
  <2> HIDE DEF t1
  <2>5. Replaces(t2)
    BY <1>1, <2>2, <2>4, ReplacesLater
  <2> HIDE DEF t2, s2
  <2>6. Replaces(s2)
    BY <1>1, <2>2, <2>3, <2>5, ReplacesLater
  <2> QED BY <1>1, <1>6, <2>6, ReplacesLater
<1> HIDE DEF s2
<1>10. ASSUME NEW G, NEW k \in {None, "fresh", "valid", "invalid"}, Quiet(G, x, h, u),
              G["SA"] = Space(k, NoUnits)
       PROVE  Safe(G, s3, r, E, rep)
  <2> DEFINE j == IF h = None THEN None ELSE "invalid"
  <2>1. j \in {None, "fresh", "valid", "invalid"}
    OBVIOUS
  <2>2. \A H : Quiet(H, x, j, u) /\ H["SA"] = G["SA"] => Safe(H, s2, r, E, rep)
    BY <1>9, <1>10, <2>1
  <2> QED BY <1>6, <1>10, <1>r, <2>2, InvalidateSafe
<1> HIDE DEF s3
<1>11. ASSUME NEW G, NEW k \in {None, "fresh", "valid", "invalid"}, Quiet(G, x, h, u),
              G["SA"] = Space(k, NoUnits)
       PROVE  Safe(G, s4, r, E, rep)
  BY <1>6, <1>10, <1>11, ValidateSpareSafe
<1> HIDE DEF s4
<1>12. ASSUME NEW G, Quiet(G, x, h, u), G["SA"] = Erased PROVE Safe(G, s5, r, E, rep)
  <2> DEFINE o == Queue("SA", NoUnits, new)
  <2>0. G["W"] = Space(h, u)
    BY <1>12 DEF Quiet
  <2>1. PICK k \in {None, "fresh"} : Effect(G, o) = Space(k, NoUnits)
    BY <2>0, EffectQueue
  <2> DEFINE f == Space(k, NoUnits)
  <2>2. o.c = "SA" /\ o.k \in BlockOps /\ o \in Ops
    BY <1>1 DEF Queue, BlockOps
  <2>3. k \in {None, "fresh", "valid", "invalid"}
    OBVIOUS
  <2>4. f \in SpareCell /\ f \in Cell
    BY <2>3, SpareTypes DEF SpareCell
  <2>5. [G EXCEPT !["SA"] = f]["SA"] = f
    BY <1>12 DEF Quiet, Flash, Cells
  <2>a. Effect(G, o) = f
    BY <2>1
  <2> HIDE DEF o
  <2>6. Quiet([G EXCEPT !["SA"] = f], x, h, u) => Safe([G EXCEPT !["SA"] = f], s4, r, E, rep)
    BY <1>11, <2>3, <2>5
  <2> HIDE DEF f
  <2>7. Safe(G, <<o>> \o s4, r, E, rep)
    BY <1>6, <1>12, <2>2, <2>4, <2>6, <2>a, ProgramSpare
  <2> QED BY <2>7 DEF o
<1> HIDE DEF s5
<1>13. Safe(flash, a \o s5, r, E, rep)
  BY <1>6, <1>12, EraseSpareSafe
<1> HIDE DEF a
<1> QED BY <1>7, <1>13

-----------------------------------------------------------------------------
(* Headers and records                                                       *)

\* A state bit of a unit set in the work space (h, u) of F.
LEMMA EffectBit ==
  ASSUME NEW F \in Flash, NEW h, NEW u \in Queues, F["W"] = Space(h, u),
         NEW p, p \in 1..WsSize, NEW bit, bit \in 0..2
  PROVE  /\ \E v \in Queues :
              /\ Effect(F, FtwUpdateFvState("W", p, bit)) = Space(h, v)
              /\ v[p] = [b |-> u[p].b \union {bit}, n |-> u[p].n]
              /\ \A q \in 1..WsSize : q # p => v[q] = u[q]
         /\ FtwUpdateFvState("W", p, bit) \in Ops
         /\ FtwUpdateFvState("W", p, bit).c = "W" /\ FtwUpdateFvState("W", p, bit).k = "bit"
<1>1. F["W"].u = u
  BY DEF Space
<1>2. \A v : [Space(h, u) EXCEPT !.u = v] = Space(h, v)
  BY DEF Space
<1>5. u[p] \in Units
  BY DEF Queues
<1> DEFINE t == [u[p] EXCEPT !.b = u[p].b \union {bit}]
           v == [u EXCEPT ![p] = t]
<1>3. Effect(F, FtwUpdateFvState("W", p, bit)) = Space(h, v)
  <2>1. Effect(F, FtwUpdateFvState("W", p, bit)) = [F["W"] EXCEPT !.u = v]
    BY <1>1, EffectUnit
  <2> QED BY <1>2, <2>1
<1>6. t = [b |-> u[p].b \union {bit}, n |-> u[p].n]
  <2>1. PICK B \in SUBSET (0..2), m \in -1..WsSize : u[p] = [b |-> B, n |-> m]
    BY <1>5 DEF Units
  <2> QED BY <2>1
<1>7. t \in Units
  BY <1>5, <1>6 DEF Units
<1> HIDE DEF t
<1>8. v \in Queues /\ v[p] = t /\ \A q \in 1..WsSize : q # p => v[q] = u[q]
  BY <1>7 DEF Queues
<1>9. FtwUpdateFvState("W", p, bit) \in Ops
  BY OpTypes, WsSizeAssumption DEF Cells
<1> QED BY <1>3, <1>6, <1>8, <1>9 DEF FtwUpdateFvState

\* A unit written in the work space (h, u) of F.
LEMMA EffectWrite ==
  ASSUME NEW F \in Flash, NEW h, NEW u \in Queues, F["W"] = Space(h, u),
         NEW p, p \in 1..WsSize, NEW unit, unit \in Units
  PROVE  /\ \E v \in Queues :
              /\ Effect(F, WriteWorkSpaceData(p, unit)) = Space(h, v)
              /\ v[p] = unit
              /\ \A q \in 1..WsSize : q # p => v[q] = u[q]
         /\ WriteWorkSpaceData(p, unit) \in Ops
         /\ WriteWorkSpaceData(p, unit).c = "W" /\ WriteWorkSpaceData(p, unit).k = "unit"
         /\ WriteWorkSpaceData(p, unit).p = p
<1>1. F["W"].u = u
  BY DEF Space
<1>2. \A v : [Space(h, u) EXCEPT !.u = v] = Space(h, v)
  BY DEF Space
<1> DEFINE v == [u EXCEPT ![p] = unit]
<1>3. Effect(F, WriteWorkSpaceData(p, unit)) = Space(h, v)
  <2>1. Effect(F, WriteWorkSpaceData(p, unit)) = [F["W"] EXCEPT !.u = v]
    BY <1>1, EffectUnit
  <2> QED BY <1>2, <2>1
<1>8. v \in Queues /\ v[p] = unit /\ \A q \in 1..WsSize : q # p => v[q] = u[q]
  BY DEF Queues
<1>9. WriteWorkSpaceData(p, unit) \in Ops
  BY OpTypes, WsSizeAssumption DEF Cells
<1> QED BY <1>3, <1>8, <1>9 DEF WriteWorkSpaceData

\* A byte of the queue changes while nothing waits.
LEMMA QueueSafe ==
  ASSUME NEW F, NEW x, NEW u, Quiet(F, x, "valid", u), NEW v \in Queues,
         NEW o \in Ops, o.c = "W", o.k \in {"bit", "unit"}, Effect(F, o) = Space("valid", v),
         CanDo(F, o), \E p : Shape(v, p), ~Pending(v),
         NEW s \in Seq(Ops), NEW r, NEW E, NEW rep,
         \A G : Quiet(G, x, "valid", v) /\ G["SA"] = F["SA"] /\ G["SB"] = F["SB"]
                  => Safe(G, s, r, E, rep)
  PROVE  Safe(F, <<o>> \o s, r, E, rep)
<1>1. F["W"] = Space("valid", u) /\ F \in Flash /\ x \in Values
  BY DEF Quiet
<1>2. \A b \in Leaves(F, o) : b \in {F["W"], Space("valid", v)}
  BY PartialBytes DEF Leaves
<1>3. Quiet([F EXCEPT !["W"] = Space("valid", v)], x, "valid", v)
  BY WorkStep
<1>4. [F EXCEPT !["W"] = F["W"]] = F
  BY <1>1 DEF Flash
<1>5. \A b \in Leaves(F, o) : Holds([F EXCEPT !["W"] = b], x)
  BY <1>2, <1>3, <1>4 DEF Holds
<1>6. Holds(F, x)
  BY DEF Holds
<1>7. After(F, o) = [F EXCEPT !["W"] = Space("valid", v)]
  BY DEF After
<1>8. /\ [F EXCEPT !["W"] = Space("valid", v)]["SA"] = F["SA"]
      /\ [F EXCEPT !["W"] = Space("valid", v)]["SB"] = F["SB"]
  BY <1>1 DEF Flash, Cells
<1>9. Safe(After(F, o), s, r, E, rep)
  BY <1>3, <1>7, <1>8
<1> QED BY <1>1, <1>5, <1>6, <1>9, WorkSafe

\* The two steps of FtwAllocate that take a header.
LEMMA AllocateSafe ==
  ASSUME NEW F, NEW x, NEW u, Quiet(F, x, "valid", u), NEW p, Shape(u, p), Free(u, p),
         p < WsSize, NEW s \in Seq(Ops), NEW r, NEW E, NEW rep,
         \A G, v : Quiet(G, x, "valid", v) /\ Shape(v, p) /\ Unspared(v, p)
                     => Safe(G, s, r, E, rep)
  PROVE  Safe(F, <<WriteWorkSpaceData(p, [b |-> {HEADER_ALLOCATED}, n |-> 1])>>
                   \o (<<FtwUpdateFvState("W", p, WRITES_ALLOCATED)>> \o s), r, E, rep)
<1> DEFINE unit == [b |-> {0}, n |-> 1]
           o == WriteWorkSpaceData(p, unit)
           m == FtwUpdateFvState("W", p, 1)
           t == <<m>> \o s
<1>0. /\ u \in Queues /\ p \in 1..WsSize /\ p + 1 \in 1..WsSize /\ p # p + 1
      /\ NextHeader(u)[p] = 0 /\ u[p] = NoUnit /\ u[p + 1] = NoUnit
  BY QueueFacts, WsSizeAssumption DEF Free
<1>1. F \in Flash /\ F["W"] = Space("valid", u)
  BY DEF Quiet
<1>a. unit \in Units /\ unit.b = {0} /\ unit.n = 1
  <2>1. {0} \in SUBSET (0..2)
    OBVIOUS
  <2> QED BY <2>1, UnitTypes
<1> HIDE DEF unit
<1>2. /\ \E v \in Queues :
           /\ Effect(F, o) = Space("valid", v)
           /\ v[p] = unit
           /\ \A q \in 1..WsSize : q # p => v[q] = u[q]
      /\ o \in Ops /\ o.c = "W" /\ o.k = "unit" /\ o.p = p
  BY <1>0, <1>1, <1>a, EffectWrite
<1>b. PICK v \in Queues : /\ Effect(F, o) = Space("valid", v)
                          /\ v[p] = unit
                          /\ \A q \in 1..WsSize : q # p => v[q] = u[q]
  BY <1>2
<1>3. Unspared(v, p) /\ Shape(v, p) /\ ~Pending(v)
  <2>1. Unspared(v, p)
    BY <1>0, <1>a, <1>b DEF Unspared, Open
  <2>2. Shape(v, p)
    <3>1. 2 \notin v[p].b /\ \A q \in 1..WsSize : q \notin {p, p + 1} => v[q] = u[q]
      BY <1>a, <1>b
    <3> QED BY <1>0, <2>1, <3>1, ShapeStep
  <2>3. ~Spared(v, p)
    BY <1>0, <1>b DEF Spared, NoUnit
  <2> QED BY <2>1, <2>2, <2>3, QueueFacts
<1>4. ASSUME NEW G, Quiet(G, x, "valid", v) PROVE Safe(G, t, r, E, rep)
  <2>1. G \in Flash /\ G["W"] = Space("valid", v)
    BY <1>4 DEF Quiet
  <2>2. /\ \E w \in Queues :
             /\ Effect(G, m) = Space("valid", w)
             /\ w[p] = [b |-> v[p].b \union {1}, n |-> v[p].n]
             /\ \A q \in 1..WsSize : q # p => w[q] = v[q]
        /\ m \in Ops /\ m.c = "W" /\ m.k = "bit"
    <3>1. 1 \in 0..2
      OBVIOUS
    <3> QED BY <1>0, <2>1, <3>1, EffectBit
  <2>b. PICK w \in Queues : /\ Effect(G, m) = Space("valid", w)
                            /\ w[p] = [b |-> v[p].b \union {1}, n |-> v[p].n]
                            /\ \A q \in 1..WsSize : q # p => w[q] = v[q]
    BY <2>2
  <2>3. Unspared(w, p) /\ Shape(w, p) /\ ~Pending(w)
    <3>0. w[p].b = {0, 1} /\ w[p].n = 1
      BY <1>a, <1>b, <2>b
    <3>1. Unspared(w, p)
      BY <1>0, <1>b, <2>b, <3>0 DEF Unspared, Open
    <3>2. Shape(w, p)
      <4>1. 2 \notin w[p].b /\ \A q \in 1..WsSize : q \notin {p, p + 1} => w[q] = v[q]
        BY <2>b, <3>0
      <4>2. NextHeader(v)[p] = 0
        BY <1>3, QueueFacts
      <4> QED BY <1>3, <3>1, <4>1, <4>2, ShapeStep
    <3>3. ~Spared(w, p)
      BY <1>0, <1>b, <2>b DEF Spared, NoUnit
    <3> QED BY <3>1, <3>2, <3>3, QueueFacts
  <2>4. CanDo(G, m)
    BY <2>2 DEF CanDo
  <2> HIDE DEF m
  <2> QED BY <1>4, <2>2, <2>b, <2>3, <2>4, QueueSafe
<1>6. CanDo(F, o)
  BY <1>0, <1>1, <1>2 DEF CanDo, Space
<1>7. t \in Seq(Ops)
  BY <1>0, OpTypes, HeadTail, WsSizeAssumption DEF Cells
<1>8. Safe(F, <<o>> \o t, r, E, rep)
  <2> HIDE DEF o, t
  <2> QED BY <1>2, <1>b, <1>3, <1>4, <1>6, <1>7, QueueSafe
<1> QED BY <1>8 DEF unit

\* A header becomes complete: by FtwAbort, or by the last step of a write.
LEMMA CompleteSafe ==
  ASSUME NEW F, NEW x, NEW u, Quiet(F, x, "valid", u), NEW p, Shape(u, p), Open(u, p),
         NEW s \in Seq(Ops), NEW r, NEW E, NEW rep,
         \A G, v, k : Quiet(G, x, "valid", v) /\ Shape(v, k) /\ (Free(v, k) \/ Full(v, k))
                        => Safe(G, s, r, E, rep)
  PROVE  /\ <<FtwUpdateFvState("W", p, WRITES_COMPLETED)>> \o s \in Seq(Ops)
         /\ Safe(F, <<FtwUpdateFvState("W", p, WRITES_COMPLETED)>> \o s, r, E, rep)
<1> DEFINE o == FtwUpdateFvState("W", p, 2)
<1>0. u \in Queues /\ p \in 1..WsSize /\ u[p].n = 1
  BY QueueFacts DEF Open
<1>1. F \in Flash /\ F["W"] = Space("valid", u)
  BY DEF Quiet
<1>2. /\ \E v \in Queues :
           /\ Effect(F, o) = Space("valid", v)
           /\ v[p] = [b |-> u[p].b \union {2}, n |-> u[p].n]
           /\ \A q \in 1..WsSize : q # p => v[q] = u[q]
      /\ o \in Ops /\ o.c = "W" /\ o.k = "bit"
  <2>1. 2 \in 0..2
    OBVIOUS
  <2> QED BY <1>0, <1>1, <2>1, EffectBit
<1>b. PICK v \in Queues : /\ Effect(F, o) = Space("valid", v)
                          /\ v[p] = [b |-> u[p].b \union {2}, n |-> u[p].n]
                          /\ \A q \in 1..WsSize : q # p => v[q] = u[q]
  BY <1>2
<1>3. PICK k : Shape(v, k) /\ (Free(v, k) \/ Full(v, k))
  <2>1. 2 \in v[p].b /\ v[p].n = 1
    BY <1>0, <1>b
  <2> QED BY <1>b, <2>1, ShapeComplete
<1>4. ~Pending(v)
  <2>1. ~Spared(v, k)
    BY <1>3 DEF Spared, Open, Free, Full, NoUnit
  <2> QED BY <1>3, <2>1, QueueFacts
<1>5. CanDo(F, o)
  BY <1>2 DEF CanDo
<1> HIDE DEF o
<1>6. Safe(F, <<o>> \o s, r, E, rep)
  BY <1>2, <1>b, <1>3, <1>4, <1>5, QueueSafe
<1>7. <<o>> \o s \in Seq(Ops)
  BY <1>2, HeadTail
<1> QED BY <1>6, <1>7 DEF o

\* Written, the record no longer makes the write wait.
LEMMA WrittenSafe ==
  ASSUME NEW F, NEW x, NEW u, Waiting(F, x, u), NEW p, Shape(u, p), Spared(u, p),
         F["A"] = StoreA(x), F["B"] = StoreB(x),
         NEW s \in Seq(Ops), NEW r, NEW E, NEW rep,
         \A G, v : Quiet(G, x, "valid", v) /\ Shape(v, p) /\ Open(v, p) => Safe(G, s, r, E, rep)
  PROVE  /\ <<FtwUpdateFvState("W", p + 1, DEST_COMPLETED)>> \o s \in Seq(Ops)
         /\ Safe(F, <<FtwUpdateFvState("W", p + 1, DEST_COMPLETED)>> \o s, r, E, rep)
<1> DEFINE o == FtwUpdateFvState("W", p + 1, 2)
<1>0. /\ u \in Queues /\ p \in 1..WsSize /\ NextHeader(u)[p] = 0
      /\ p + 1 \in 1..WsSize /\ p # p + 1
      /\ Open(u, p) /\ u[p + 1] = [b |-> {1}, n |-> 0]
  BY QueueFacts, WsSizeAssumption DEF Spared, Open
<1>1. F \in Flash /\ F["W"] = Space("valid", u) /\ x \in Values /\ F["SW"] = Erased
  BY DEF Waiting
<1>2. /\ \E v \in Queues :
           /\ Effect(F, o) = Space("valid", v)
           /\ v[p + 1] = [b |-> u[p + 1].b \union {2}, n |-> u[p + 1].n]
           /\ \A q \in 1..WsSize : q # p + 1 => v[q] = u[q]
      /\ o \in Ops /\ o.c = "W" /\ o.k = "bit"
  <2>1. 2 \in 0..2
    OBVIOUS
  <2> DEFINE k == p + 1
  <2>2. k \in 1..WsSize
    BY <1>0
  <2> HIDE DEF k
  <2>3. /\ \E v \in Queues :
             /\ Effect(F, FtwUpdateFvState("W", k, 2)) = Space("valid", v)
             /\ v[k] = [b |-> u[k].b \union {2}, n |-> u[k].n]
             /\ \A q \in 1..WsSize : q # k => v[q] = u[q]
        /\ FtwUpdateFvState("W", k, 2) \in Ops
        /\ FtwUpdateFvState("W", k, 2).c = "W" /\ FtwUpdateFvState("W", k, 2).k = "bit"
    BY <1>0, <1>1, <2>1, <2>2, EffectBit
  <2> QED BY <2>3 DEF k
<1>b. PICK v \in Queues : /\ Effect(F, o) = Space("valid", v)
                          /\ v[p + 1] = [b |-> u[p + 1].b \union {2}, n |-> u[p + 1].n]
                          /\ \A q \in 1..WsSize : q # p + 1 => v[q] = u[q]
  BY <1>2
<1>3. Written(v, p) /\ Open(v, p) /\ Shape(v, p) /\ ~Pending(v)
  <2>a. u[p + 1].b = {1} /\ u[p + 1].n = 0 /\ {1} \union {2} = {1, 2}
    BY <1>0
  <2>1. v[p] = u[p] /\ v[p + 1] = [b |-> {1, 2}, n |-> 0]
    BY <1>0, <1>b, <2>a
  <2>2. Open(v, p)
    BY <1>0, <2>1 DEF Open
  <2>3. Written(v, p)
    BY <2>1, <2>2 DEF Written
  <2>4. Shape(v, p)
    <3>1. 2 \notin v[p].b /\ \A q \in 1..WsSize : q \notin {p, p + 1} => v[q] = u[q]
      BY <1>b, <2>2 DEF Open
    <3> QED BY <1>0, <2>3, <3>1, ShapeStep
  <2>5. ~Spared(v, p)
    <3>1. v[p + 1].b = {1, 2} /\ [b |-> {1}, n |-> 0].b = {1} /\ 2 \notin {1}
      BY <2>1
    <3>2. v[p + 1] # [b |-> {1}, n |-> 0]
      BY <3>1
    <3> QED BY <3>2 DEF Spared
  <2> QED BY <2>2, <2>3, <2>4, <2>5, QueueFacts
<1> DEFINE G == [F EXCEPT !["W"] = Space("valid", v)]
<1>4. Quiet(G, x, "valid", v)
  <2>1. Space("valid", v) \in Cell
    BY CellTypes
  <2>2. G \in Flash
    BY <1>1, <2>1 DEF Flash
  <2>3. /\ G["W"] = Space("valid", v) /\ G["SA"] = F["SA"] /\ G["SW"] = F["SW"]
        /\ G["A"] = F["A"] /\ G["B"] = F["B"]
    BY <1>1 DEF Flash, Cells
  <2>4. G["SA"] \in SpareCell
    BY <1>1, <2>3, SpareTypes DEF Waiting
  <2> HIDE DEF G
  <2> QED BY <1>1, <1>3, <2>2, <2>3, <2>4 DEF Quiet
<1>5. Holds(F, x) /\ [F EXCEPT !["W"] = F["W"]] = F
  BY <1>1 DEF Holds, Flash
<1>6. \A b \in Leaves(F, o) : b \in {F["W"], Space("valid", v)}
  BY <1>2, <1>b, PartialBytes DEF Leaves
<1>7. \A b \in Leaves(F, o) : Holds([F EXCEPT !["W"] = b], x)
  BY <1>4, <1>5, <1>6 DEF Holds
<1>8. CanDo(F, o)
  BY <1>2 DEF CanDo
<1>9. After(F, o) = G
  BY <1>2, <1>b DEF After
<1>10. Safe(After(F, o), s, r, E, rep)
  BY <1>3, <1>4, <1>9
<1> HIDE DEF o, G
<1>11. Safe(F, <<o>> \o s, r, E, rep)
  BY <1>1, <1>2, <1>5, <1>7, <1>8, <1>10, WorkSafe
<1>12. <<o>> \o s \in Seq(Ops)
  BY <1>2, HeadTail
<1> QED BY <1>11, <1>12 DEF o

\* FtwWriteRecord of a write whose image is complete in the spare area, as a list in front
\* of s.
RecordList(p, s) ==
  <<Erase("A")>> \o (<<Erase("B")>> \o (<<Copy("A", "SA")>> \o (<<Copy("B", "SB")>>
    \o (<<FtwUpdateFvState("W", p + 1, DEST_COMPLETED)>>
    \o (<<FtwUpdateFvState("W", p, WRITES_COMPLETED)>> \o s)))))

\* FtwWriteRecord's operations while the image waits: the store is written over, the
\* record and then the header are marked.
LEMMA RecordSafe ==
  ASSUME NEW F, NEW x, NEW u, Waiting(F, x, u), NEW p, Shape(u, p), Spared(u, p),
         NEW s \in Seq(Ops), NEW r, NEW E, NEW rep,
         \A G, v, k : Quiet(G, x, "valid", v) /\ Shape(v, k) /\ (Free(v, k) \/ Full(v, k))
                        => Safe(G, s, r, E, rep)
  PROVE  RecordList(p, s) \in Seq(Ops) /\ Safe(F, RecordList(p, s), r, E, rep)
<1> DEFINE s1 == <<FtwUpdateFvState("W", p, 2)>> \o s
           s2 == <<FtwUpdateFvState("W", p + 1, 2)>> \o s1
           s3 == <<Copy("B", "SB")>> \o s2
           s4 == <<Copy("A", "SA")>> \o s3
           s5 == <<Erase("B")>> \o s4
           s6 == <<Erase("A")>> \o s5
<1>0. p \in 1..WsSize /\ p \in Nat /\ p + 1 \in Nat
  BY QueueFacts, WsSizeAssumption
<1>1. /\ FtwUpdateFvState("W", p, 2) \in Ops /\ FtwUpdateFvState("W", p + 1, 2) \in Ops
      /\ Copy("B", "SB") \in Ops /\ Copy("A", "SA") \in Ops
      /\ Erase("A") \in Ops /\ Erase("B") \in Ops
  BY <1>0, OpTypes DEF Cells
<1>2. /\ s1 \in Seq(Ops) /\ s2 \in Seq(Ops) /\ s3 \in Seq(Ops) /\ s4 \in Seq(Ops)
      /\ s5 \in Seq(Ops) /\ s6 \in Seq(Ops)
  BY <1>1, HeadTail
<1>a. x \in Values /\ StoreA(x) \in Cell /\ StoreB(x) \in Cell /\ Erased \in Cell
  BY CellTypes DEF Waiting
<1>3. ASSUME NEW G, NEW v, Quiet(G, x, "valid", v), Shape(v, p), Open(v, p)
      PROVE  Safe(G, s1, r, E, rep)
  BY <1>3, CompleteSafe
<1> HIDE DEF s1
<1>4. ASSUME NEW G, Waiting(G, x, u), G["A"] = StoreA(x), G["B"] = StoreB(x)
      PROVE  Safe(G, s2, r, E, rep)
  BY <1>2, <1>3, <1>4, WrittenSafe
<1> HIDE DEF s2
<1>5. ASSUME NEW G, Waiting(G, x, u), G["A"] = StoreA(x), G["B"] = Erased
      PROVE  Safe(G, s3, r, E, rep)
  <2> DEFINE o == Copy("B", "SB")
  <2>1. Effect(G, o) = StoreB(x) /\ o.c = "B" /\ o.k = "copy" /\ o \in Ops /\ o.k \in BlockOps
    <3>1. Effect(G, o) = G["SB"]
      BY DEF Effect, Copy
    <3>2. Effect(G, o) = StoreB(x)
      BY <1>5, <3>1 DEF Waiting
    <3> QED BY <1>1, <3>2 DEF Copy, BlockOps
  <2>2. CanDo(G, o)
    BY <1>5, <2>1 DEF CanDo
  <2>3. After(G, o)["A"] = StoreA(x) /\ After(G, o)["B"] = StoreB(x)
    BY <1>5, <2>1 DEF After, Waiting, Flash, Cells
  <2>4. Waiting(After(G, o), x, u) => Safe(After(G, o), s2, r, E, rep)
    BY <1>4, <2>3
  <2> HIDE DEF o
  <2>5. Safe(G, <<o>> \o s2, r, E, rep)
    BY <1>a, <1>2, <1>5, <2>1, <2>2, <2>4, TargetSafe
  <2> QED BY <2>5 DEF o
<1> HIDE DEF s3
<1>6. ASSUME NEW G, Waiting(G, x, u), G["A"] = Erased, G["B"] = Erased
      PROVE  Safe(G, s4, r, E, rep)
  <2> DEFINE o == Copy("A", "SA")
  <2>1. Effect(G, o) = StoreA(x) /\ o.c = "A" /\ o.k = "copy" /\ o \in Ops /\ o.k \in BlockOps
    <3>1. Effect(G, o) = G["SA"]
      BY DEF Effect, Copy
    <3>2. Effect(G, o) = StoreA(x)
      BY <1>6, <3>1 DEF Waiting
    <3> QED BY <1>1, <3>2 DEF Copy, BlockOps
  <2>2. CanDo(G, o)
    BY <1>6, <2>1 DEF CanDo
  <2>3. After(G, o)["A"] = StoreA(x) /\ After(G, o)["B"] = Erased
    BY <1>6, <2>1 DEF After, Waiting, Flash, Cells
  <2>4. Waiting(After(G, o), x, u) => Safe(After(G, o), s3, r, E, rep)
    BY <1>5, <2>3
  <2> HIDE DEF o
  <2>5. Safe(G, <<o>> \o s3, r, E, rep)
    BY <1>a, <1>2, <1>6, <2>1, <2>2, <2>4, TargetSafe
  <2> QED BY <2>5 DEF o
<1> HIDE DEF s4
<1>7. ASSUME NEW G, Waiting(G, x, u), G["A"] = Erased PROVE Safe(G, s5, r, E, rep)
  <2> DEFINE o == Erase("B")
  <2>1. Effect(G, o) = Erased /\ o.c = "B" /\ o.k = "erase" /\ o \in Ops /\ o.k \in BlockOps
    BY <1>1, EffectBlock DEF Erase, BlockOps
  <2>2. CanDo(G, o)
    BY <2>1 DEF CanDo
  <2>3. After(G, o)["A"] = Erased /\ After(G, o)["B"] = Erased
    BY <1>7, <2>1 DEF After, Waiting, Flash, Cells
  <2>4. Waiting(After(G, o), x, u) => Safe(After(G, o), s4, r, E, rep)
    BY <1>6, <2>3
  <2> HIDE DEF o
  <2>5. Safe(G, <<o>> \o s4, r, E, rep)
    BY <1>a, <1>2, <1>7, <2>1, <2>2, <2>4, TargetSafe
  <2> QED BY <2>5 DEF o
<1> HIDE DEF s5
<1>8. Safe(F, s6, r, E, rep)
  <2> DEFINE o == Erase("A")
  <2>1. Effect(F, o) = Erased /\ o.c = "A" /\ o.k = "erase" /\ o \in Ops /\ o.k \in BlockOps
    BY <1>1, EffectBlock DEF Erase, BlockOps
  <2>2. CanDo(F, o)
    BY <2>1 DEF CanDo
  <2>3. After(F, o)["A"] = Erased
    BY <2>1 DEF After, Waiting, Flash, Cells
  <2>4. Waiting(After(F, o), x, u) => Safe(After(F, o), s5, r, E, rep)
    BY <1>7, <2>3
  <2> HIDE DEF o
  <2>5. Safe(F, <<o>> \o s5, r, E, rep)
    BY <1>a, <1>2, <2>1, <2>2, <2>4, TargetSafe
  <2> QED BY <2>5 DEF o
<1>9. RecordList(p, s) = s6
  BY DEF RecordList, s5, s4, s3, s2, s1
<1> HIDE DEF s6
<1> QED BY <1>2, <1>8, <1>9

\* The image of y complete in the spare area, marking the record makes the write wait: the
\* contents change from x to y.
LEMMA SparedSafe ==
  ASSUME NEW F, NEW x, NEW u, Quiet(F, x, "valid", u), NEW p, Shape(u, p), Open(u, p),
         u[p + 1] = Fresh, NEW y \in Values, F["SA"] = StoreA(y), F["SB"] = StoreB(y),
         NEW s \in Seq(Ops), NEW E, NEW rep,
         \A G, v : Waiting(G, y, v) /\ Shape(v, p) /\ Spared(v, p) => Safe(G, s, y, E, rep)
  PROVE  Safe(F, <<FtwUpdateFvState("W", p + 1, SPARE_COMPLETED)>> \o s, y, E, rep)
<1> DEFINE o == FtwUpdateFvState("W", p + 1, 1)
<1>0. /\ u \in Queues /\ p \in 1..WsSize /\ NextHeader(u)[p] = 0
      /\ p + 1 \in 1..WsSize /\ p # p + 1
  BY QueueFacts, WsSizeAssumption DEF Open
<1>1. F \in Flash /\ F["W"] = Space("valid", u) /\ x \in Values /\ F["SW"] = Erased
  BY DEF Quiet
<1>2. /\ \E v \in Queues :
           /\ Effect(F, o) = Space("valid", v)
           /\ v[p + 1] = [b |-> u[p + 1].b \union {1}, n |-> u[p + 1].n]
           /\ \A q \in 1..WsSize : q # p + 1 => v[q] = u[q]
      /\ o \in Ops /\ o.c = "W" /\ o.k = "bit"
  <2>1. 1 \in 0..2
    OBVIOUS
  <2> DEFINE k == p + 1
  <2>2. k \in 1..WsSize
    BY <1>0
  <2> HIDE DEF k
  <2>3. /\ \E v \in Queues :
             /\ Effect(F, FtwUpdateFvState("W", k, 1)) = Space("valid", v)
             /\ v[k] = [b |-> u[k].b \union {1}, n |-> u[k].n]
             /\ \A q \in 1..WsSize : q # k => v[q] = u[q]
        /\ FtwUpdateFvState("W", k, 1) \in Ops
        /\ FtwUpdateFvState("W", k, 1).c = "W" /\ FtwUpdateFvState("W", k, 1).k = "bit"
    BY <1>0, <1>1, <2>1, <2>2, EffectBit
  <2> QED BY <2>3 DEF k
<1>b. PICK v \in Queues : /\ Effect(F, o) = Space("valid", v)
                          /\ v[p + 1] = [b |-> u[p + 1].b \union {1}, n |-> u[p + 1].n]
                          /\ \A q \in 1..WsSize : q # p + 1 => v[q] = u[q]
  BY <1>2
<1>3. Spared(v, p) /\ Shape(v, p) /\ Pending(v)
  <2>a. u[p + 1].b = {} /\ u[p + 1].n = 0 /\ {} \union {1} = {1}
    BY DEF Fresh
  <2>1. v[p] = u[p] /\ v[p + 1] = [b |-> {1}, n |-> 0]
    BY <1>0, <1>b, <2>a
  <2>2. Open(v, p)
    BY <1>0, <2>1 DEF Open
  <2>3. Spared(v, p)
    BY <2>1, <2>2 DEF Spared
  <2>4. Shape(v, p)
    <3>1. 2 \notin v[p].b /\ \A q \in 1..WsSize : q \notin {p, p + 1} => v[q] = u[q]
      BY <1>b, <2>2 DEF Open
    <3> QED BY <1>0, <2>3, <3>1, ShapeStep
  <2> QED BY <2>3, <2>4, QueueFacts
<1> DEFINE G == [F EXCEPT !["W"] = Space("valid", v)]
<1>4. Waiting(G, y, v)
  <2>1. Space("valid", v) \in Cell
    BY CellTypes
  <2>2. G \in Flash
    BY <1>1, <2>1 DEF Flash
  <2>3. /\ G["W"] = Space("valid", v) /\ G["SA"] = F["SA"] /\ G["SW"] = F["SW"]
        /\ G["SB"] = F["SB"]
    BY <1>1 DEF Flash, Cells
  <2> HIDE DEF G
  <2> QED BY <1>1, <1>3, <2>2, <2>3 DEF Waiting
<1>5. Holds(F, x) /\ [F EXCEPT !["W"] = F["W"]] = F
  BY <1>1 DEF Holds, Flash
<1>6. \A b \in Leaves(F, o) : b \in {F["W"], Space("valid", v)}
  BY <1>2, <1>b, PartialBytes DEF Leaves
<1>7. \A b \in Leaves(F, o) : \/ Holds([F EXCEPT !["W"] = b], x)
                              \/ y \in Values /\ Holds([F EXCEPT !["W"] = b], y)
  <2>1. Holds(G, y)
    BY <1>4 DEF Holds
  <2> QED BY <1>5, <1>6, <2>1
<1>8. CanDo(F, o)
  BY <1>2 DEF CanDo
<1>9. After(F, o) = G
  BY <1>2, <1>b DEF After
<1>10. Safe(After(F, o), s, y, E, rep)
  BY <1>3, <1>4, <1>9
<1> HIDE DEF o, G
<1>11. Safe(F, <<o>> \o s, y, E, rep)
  BY <1>1, <1>2, <1>5, <1>7, <1>8, <1>10, WorkSafe
<1> QED BY <1>11 DEF o

\* WriteBody in front of s; a and b are what the spare area held.
BodyList(p, y, a, b, s) ==
  <<WriteWorkSpaceData(p + 1, Fresh)>> \o (FtwEraseSpareBlock
    \o (<<Data("SA", "A", y)>> \o (<<Data("SB", "B", y)>>
    \o (<<FtwUpdateFvState("W", p + 1, SPARE_COMPLETED)>>
    \o RecordList(p, FtwEraseSpareBlock
         \o (<<Put("SA", a)>> \o (<<Put("SB", b)>> \o (<<Put("SW", Erased)>> \o s))))))))

\* The operations of FtwWrite after its checks: until the record says that the image is
\* complete the store keeps x, from then on y is found.
LEMMA BodySafe ==
  ASSUME NEW F, NEW x, NEW u, Quiet(F, x, "valid", u), NEW p, Shape(u, p), Unspared(u, p),
         NEW y \in Values, NEW a \in SpareCell, NEW b \in Cell,
         NEW s \in Seq(Ops), NEW E, NEW rep,
         \A G, v, k : Quiet(G, y, "valid", v) /\ Shape(v, k) /\ (Free(v, k) \/ Full(v, k))
                        => Safe(G, s, y, E, rep)
  PROVE  Safe(F, BodyList(p, y, a, b, s), y, E, rep)
<1> DEFINE t1 == <<Put("SA", a)>> \o (<<Put("SB", b)>> \o (<<Put("SW", Erased)>> \o s))
           t2 == FtwEraseSpareBlock \o t1
           t3 == RecordList(p, t2)
           t4 == <<FtwUpdateFvState("W", p + 1, 1)>> \o t3
           t5 == <<Data("SB", "B", y)>> \o t4
           t6 == <<Data("SA", "A", y)>> \o t5
           t7 == FtwEraseSpareBlock \o t6
           o  == WriteWorkSpaceData(p + 1, Fresh)
<1>0. /\ u \in Queues /\ p \in 1..WsSize /\ NextHeader(u)[p] = 0
      /\ p + 1 \in 1..WsSize /\ p + 1 \in Nat /\ p \in Nat /\ p # p + 1
      /\ Open(u, p) /\ u[p + 1] \in {NoUnit, Fresh}
  BY QueueFacts, WsSizeAssumption DEF Unspared, Open
<1>a. a \in Cell /\ Erased \in Cell /\ StoreB(y) \in Cell /\ StoreA(y) \in Cell
      /\ StoreA(y) \in SpareCell
  BY CellTypes, SpareTypes DEF SpareCell
<1>1. /\ Put("SA", a) \in Ops /\ Put("SB", b) \in Ops /\ Put("SW", Erased) \in Ops
      /\ FtwUpdateFvState("W", p + 1, 1) \in Ops /\ FtwUpdateFvState("W", p + 1, 2) \in Ops
      /\ FtwUpdateFvState("W", p, 2) \in Ops
      /\ Data("SB", "B", y) \in Ops /\ Data("SA", "A", y) \in Ops
      /\ Erase("SA") \in Ops /\ Erase("SB") \in Ops /\ Erase("SW") \in Ops
      /\ Erase("A") \in Ops /\ Erase("B") \in Ops /\ Copy("A", "SA") \in Ops
      /\ Copy("B", "SB") \in Ops
  BY <1>0, <1>a, OpTypes DEF Cells
<1>e. FtwEraseSpareBlock \in Seq(Ops)
  <2>1. FtwEraseSpareBlock = <<Erase("SA"), Erase("SB"), Erase("SW")>>
    BY DEF FtwEraseSpareBlock, FtwEraseBlock, SpareCells
  <2> QED BY <1>1, <2>1
<1>2. t1 \in Seq(Ops) /\ t2 \in Seq(Ops)
  BY <1>1, <1>e, HeadTail, ConcatProperties
<1>3. ASSUME NEW G, NEW v, NEW k, Quiet(G, y, "valid", v), Shape(v, k), Free(v, k) \/ Full(v, k)
      PROVE  Safe(G, t2, y, E, rep)
  <2>1. \A H : Quiet(H, y, "valid", v) => Safe(H, s, y, E, rep)
    BY <1>3
  <2> QED BY <1>3, <2>1, RestoreSafe
<1> HIDE DEF t2
<1>4. t3 \in Seq(Ops)
  BY <1>1, <1>2, HeadTail DEF RecordList
<1>5. ASSUME NEW G, NEW v, Waiting(G, y, v), Shape(v, p), Spared(v, p)
      PROVE  Safe(G, t3, y, E, rep)
  BY <1>2, <1>3, <1>5, RecordSafe
<1> HIDE DEF t3
<1>6. t4 \in Seq(Ops) /\ t5 \in Seq(Ops) /\ t6 \in Seq(Ops) /\ t7 \in Seq(Ops)
  BY <1>1, <1>4, <1>e, HeadTail, ConcatProperties
<1>7. ASSUME NEW G, NEW v, Quiet(G, x, "valid", v), Shape(v, p), Open(v, p), v[p + 1] = Fresh,
             G["SA"] = StoreA(y), G["SB"] = StoreB(y)
      PROVE  Safe(G, t4, y, E, rep)
  BY <1>4, <1>5, <1>7, SparedSafe
<1> HIDE DEF t4
<1>8. ASSUME NEW G, NEW v, Quiet(G, x, "valid", v), Shape(v, p), Open(v, p), v[p + 1] = Fresh,
             G["SA"] = StoreA(y), G["SB"] = Erased
      PROVE  Safe(G, t5, y, E, rep)
  <2> DEFINE m == Data("SB", "B", y)
  <2>1. Effect(G, m) = StoreB(y)
    <3>1. Effect(G, m) = [G["B"] EXCEPT !.v = y]
      BY DEF Effect, Data
    <3> QED BY <1>8, <3>1 DEF Quiet, StoreB
  <2>2. m \in Ops /\ m.c = "SB" /\ m.k \in BlockOps
    BY <1>1 DEF Data, BlockOps
  <2> DEFINE H == [G EXCEPT !["SB"] = StoreB(y)]
  <2>3. H["SA"] = StoreA(y) /\ H["SB"] = StoreB(y)
    BY <1>8 DEF Quiet, Flash, Cells
  <2> HIDE DEF H
  <2>4. Quiet(H, x, "valid", v) => Safe(H, t4, y, E, rep)
    BY <1>7, <1>8, <2>3
  <2> HIDE DEF m
  <2>5. Safe(G, <<m>> \o t4, y, E, rep)
    BY <1>a, <1>6, <1>8, <2>1, <2>2, <2>4, ProgramSpare DEF H
  <2> QED BY <2>5 DEF m
<1> HIDE DEF t5
<1>9. ASSUME NEW G, NEW v, Quiet(G, x, "valid", v), Shape(v, p), Open(v, p), v[p + 1] = Fresh,
             G["SA"] = Erased, G["SB"] = Erased
      PROVE  Safe(G, t6, y, E, rep)
  <2> DEFINE m == Data("SA", "A", y)
  <2>1. Effect(G, m) = StoreA(y)
    <3>1. Effect(G, m) = [G["A"] EXCEPT !.v = y]
      BY DEF Effect, Data
    <3> QED BY <1>9, <3>1 DEF Quiet, StoreA
  <2>2. m \in Ops /\ m.c = "SA" /\ m.k \in BlockOps
    BY <1>1 DEF Data, BlockOps
  <2> DEFINE H == [G EXCEPT !["SA"] = StoreA(y)]
  <2>3. H["SA"] = StoreA(y) /\ H["SB"] = Erased
    BY <1>9 DEF Quiet, Flash, Cells
  <2> HIDE DEF H
  <2>4. Quiet(H, x, "valid", v) => Safe(H, t5, y, E, rep)
    BY <1>8, <1>9, <2>3
  <2> HIDE DEF m
  <2>5. Safe(G, <<m>> \o t5, y, E, rep)
    BY <1>a, <1>6, <1>9, <2>1, <2>2, <2>4, ProgramSpare DEF H
  <2> QED BY <2>5 DEF m
<1> HIDE DEF t6
<1>10. ASSUME NEW G, NEW v, Quiet(G, x, "valid", v), Shape(v, p), Open(v, p), v[p + 1] = Fresh
       PROVE  Safe(G, t7, y, E, rep)
  BY <1>6, <1>9, <1>10, EraseSpareSafe
<1> HIDE DEF t7
<1>11. Safe(F, <<o>> \o t7, y, E, rep)
  <2>1. F \in Flash /\ F["W"] = Space("valid", u)
    BY DEF Quiet
  <2>2. /\ \E v \in Queues :
             /\ Effect(F, o) = Space("valid", v)
             /\ v[p + 1] = Fresh
             /\ \A q \in 1..WsSize : q # p + 1 => v[q] = u[q]
        /\ o \in Ops /\ o.c = "W" /\ o.k = "unit" /\ o.p = p + 1
    <3> DEFINE k == p + 1
    <3>2. k \in 1..WsSize
      BY <1>0
    <3> HIDE DEF k
    <3>3. /\ \E v \in Queues :
               /\ Effect(F, WriteWorkSpaceData(k, Fresh)) = Space("valid", v)
               /\ v[k] = Fresh
               /\ \A q \in 1..WsSize : q # k => v[q] = u[q]
          /\ WriteWorkSpaceData(k, Fresh) \in Ops
          /\ WriteWorkSpaceData(k, Fresh).c = "W" /\ WriteWorkSpaceData(k, Fresh).k = "unit"
          /\ WriteWorkSpaceData(k, Fresh).p = k
      BY <1>0, <2>1, <3>2, EffectWrite, UnitTypes
    <3> QED BY <3>3 DEF k
  <2>b. PICK v \in Queues : /\ Effect(F, o) = Space("valid", v)
                            /\ v[p + 1] = Fresh
                            /\ \A q \in 1..WsSize : q # p + 1 => v[q] = u[q]
    BY <2>2
  <2>3. Open(v, p) /\ Shape(v, p) /\ ~Pending(v)
    <3>1. v[p] = u[p]
      BY <1>0, <2>b
    <3>2. Open(v, p)
      BY <1>0, <3>1 DEF Open
    <3>3. Unspared(v, p)
      BY <2>b, <3>2 DEF Unspared
    <3>4. Shape(v, p)
      <4>1. 2 \notin v[p].b /\ \A q \in 1..WsSize : q \notin {p, p + 1} => v[q] = u[q]
        BY <2>b, <3>2 DEF Open
      <4> QED BY <1>0, <3>3, <4>1, ShapeStep
    <3>5. ~Spared(v, p)
      <4>1. v[p + 1].b = {} /\ [b |-> {1}, n |-> 0].b = {1} /\ 1 \notin {}
        BY <2>b DEF Fresh
      <4>2. v[p + 1] # [b |-> {1}, n |-> 0]
        BY <4>1
      <4> QED BY <4>2 DEF Spared
    <3> QED BY <3>2, <3>4, <3>5, QueueFacts
  <2>4. CanDo(F, o)
    <3>1. F["W"].u = u /\ Effect(F, o).u = v
      BY <2>1, <2>b DEF Space
    <3> QED BY <1>0, <2>2, <2>b, <3>1 DEF CanDo
  <2>5. \A G : Quiet(G, x, "valid", v) => Safe(G, t7, y, E, rep)
    BY <1>10, <2>b, <2>3
  <2> HIDE DEF o
  <2> QED BY <1>6, <2>2, <2>b, <2>3, <2>4, <2>5, QueueSafe
<1>12. BodyList(p, y, a, b, s) = <<o>> \o t7
  BY DEF BodyList, t7, t6, t5, t4, t3, t2
<1> HIDE DEF o
<1> QED BY <1>11, <1>12

-----------------------------------------------------------------------------
(* The driver's lists of operations                                          *)

\* FtwWriteRecord in front of s.
LEMMA RecordForm ==
  ASSUME shared = FALSE, NEW u, NEW p \in 1..WsSize, Unit(u, p).n = 1, NEW s \in Seq(Ops)
  PROVE  /\ FtwWriteRecord(u, p, p + 1) \in Seq(Ops)
         /\ FtwWriteRecord(u, p, p + 1) \o s = RecordList(p, s)
<1> DEFINE a == <<Erase("A"), Erase("B")>>
           b == <<Copy("A", "SA"), Copy("B", "SB")>>
           c == <<FtwUpdateFvState("W", p + 1, 2)>>
           d == <<FtwUpdateFvState("W", p, 2)>>
<1>1. /\ FtwUpdateFvState("W", p, 2) \in Ops /\ FtwUpdateFvState("W", p + 1, 2) \in Ops
      /\ Copy("B", "SB") \in Ops /\ Copy("A", "SA") \in Ops
      /\ Erase("A") \in Ops /\ Erase("B") \in Ops
  BY OpTypes, WsSizeAssumption DEF Cells
<1>2. a \in Seq(Ops) /\ b \in Seq(Ops) /\ c \in Seq(Ops) /\ d \in Seq(Ops)
  BY <1>1
<1>3. FlushSpareBlockToTargetBlock = a \o b
  <2>1. FtwEraseBlock(StoreCells) = a
    BY DEF FtwEraseBlock, StoreCells
  <2>2. [i \in DOMAIN StoreCells |-> Copy(StoreCells[i], SpareCells[i])] = b
    BY DEF StoreCells, SpareCells
  <2> QED BY <2>1, <2>2 DEF FlushSpareBlockToTargetBlock
<1>4. IsLastRecordOfWrites(u, p, p + 1)
  BY DEF IsLastRecordOfWrites
<1>5. FtwWriteRecord(u, p, p + 1) = ((a \o b) \o c) \o d
  BY <1>3, <1>4 DEF FtwWriteRecord
<1> DEFINE t == c \o (d \o s)
           w == <<Copy("A", "SA")>> \o (<<Copy("B", "SB")>> \o t)
<1>6. t \in Seq(Ops) /\ w \in Seq(Ops)
  BY <1>1, <1>2, HeadTail, ConcatProperties
<1>7. b \o t = w
  <2> HIDE DEF t
  <2> QED BY <1>1, <1>6, List2, Zenon
<1>8. a \o w = <<Erase("A")>> \o (<<Erase("B")>> \o w)
  <2> HIDE DEF w
  <2> QED BY <1>1, <1>6, List2, Zenon
<1>9. RecordList(p, s) = <<Erase("A")>> \o (<<Erase("B")>> \o w)
  BY DEF RecordList
<1>10. /\ (((a \o b) \o c) \o d) \o s = a \o (b \o (c \o (d \o s)))
       /\ ((a \o b) \o c) \o d \in Seq(Ops)
  <2> HIDE DEF a, b, c, d
  <2> QED BY <1>2, Assoc4
<1> HIDE DEF a, b, w
<1> QED BY <1>5, <1>7, <1>8, <1>9, <1>10, Zenon DEF t

\* WriteBody in front of s.
LEMMA BodyForm ==
  ASSUME shared = FALSE, flash \in Flash, flash["SW"] = Erased,
         NEW u, NEW p \in 1..WsSize, Unit(u, p).n = 1, Unit(u, p + 1) \in {NoUnit, Fresh},
         NEW y \in Values, NEW s \in Seq(Ops)
  PROVE  /\ WriteBody(u, p, p + 1, y) \in Seq(Ops)
         /\ WriteBody(u, p, p + 1, y) \o s
              = BodyList(p, y, flash["SA"], flash["SB"], s)
<1> DEFINE o == WriteWorkSpaceData(p + 1, Fresh)
           a == <<o>>
           b == FtwEraseSpareBlock
           c == <<Data("SA", "A", y), Data("SB", "B", y)>>
           d == <<FtwUpdateFvState("W", p + 1, 1)>>
           e == FtwWriteRecord(u, p, p + 1)
           f == RestoreSpare
<1>1. /\ o \in Ops /\ FtwUpdateFvState("W", p + 1, 1) \in Ops
      /\ Data("SA", "A", y) \in Ops /\ Data("SB", "B", y) \in Ops
      /\ Erase("SA") \in Ops /\ Erase("SB") \in Ops /\ Erase("SW") \in Ops
      /\ Put("SA", flash["SA"]) \in Ops /\ Put("SB", flash["SB"]) \in Ops
      /\ Put("SW", flash["SW"]) \in Ops
  BY OpTypes, UnitTypes, WsSizeAssumption DEF Cells, Flash
<1>2. /\ a \in Seq(Ops) /\ b \in Seq(Ops) /\ c \in Seq(Ops) /\ d \in Seq(Ops)
      /\ e \in Seq(Ops) /\ f \in Seq(Ops)
  <2>1. b = <<Erase("SA"), Erase("SB"), Erase("SW")>>
    BY DEF FtwEraseSpareBlock, FtwEraseBlock, SpareCells
  <2>2. a \in Seq(Ops) /\ b \in Seq(Ops) /\ c \in Seq(Ops) /\ d \in Seq(Ops)
    BY <1>1, <2>1
  <2>3. e \in Seq(Ops)
    BY RecordForm
  <2> QED BY <2>2, <2>3, RestoreList
<1>a. ASSUME NEW k \in Seq(Ops)
      PROVE  /\ ((((a \o b) \o c) \o d) \o e) \o k = a \o (b \o (c \o (d \o (e \o k))))
             /\ (((a \o b) \o c) \o d) \o e \in Seq(Ops)
  <2>1. /\ a \in Seq(Ops) /\ b \in Seq(Ops) /\ c \in Seq(Ops) /\ d \in Seq(Ops)
        /\ e \in Seq(Ops)
    BY <1>2
  <2> HIDE DEF a, b, c, d, e
  <2>2. Cat(Cat(Cat(Cat(a, b), c), d), e) \in Seq(Ops)
    BY <2>1, Cat5
  <2>3. Cat(Cat(Cat(Cat(Cat(a, b), c), d), e), k) = Cat(a, Cat(b, Cat(c, Cat(d, Cat(e, k)))))
    BY <2>1, Cat5
  <2> QED BY <2>2, <2>3, Zenon DEF Cat
<1>3. [Unit(u, p + 1) EXCEPT !.n = 0] = Fresh
  <2>1. CASE Unit(u, p + 1) = NoUnit
    <3> DEFINE w == [NoUnit EXCEPT !.n = 0]
    <3>1. 0 \in -1..WsSize
      BY WsSizeAssumption
    <3>2. w \in Units /\ w.b = {} /\ w.n = 0
      BY <3>1, UnitTypes DEF Units, NoUnit
    <3> HIDE DEF w
    <3>3. w = [b |-> w.b, n |-> w.n]
      BY <3>2 DEF Units
    <3> QED BY <2>1, <3>2, <3>3 DEF w, Fresh
  <2>2. CASE Unit(u, p + 1) = Fresh
    BY <2>2 DEF Fresh
  <2> QED BY <2>1, <2>2
<1>4. [i \in DOMAIN TargetBlocks |->
          IF TargetBlocks[i] = "W" THEN Copy(SpareCells[i], "W")
                                   ELSE Data(SpareCells[i], TargetBlocks[i], y)] = c
  <2>1. TargetBlocks = <<"A", "B">>
    BY DEF TargetBlocks, StoreCells
  <2> QED BY <2>1 DEF SpareCells
<1>5. WriteBody(u, p, p + 1, y) = ((((a \o b) \o c) \o d) \o e) \o f
  BY <1>3, <1>4 DEF WriteBody
<1> DEFINE g == (((a \o b) \o c) \o d) \o e
           t1 == f \o s
           t2 == RecordList(p, t1)
           t3 == d \o t2
           t4 == <<Data("SA", "A", y)>> \o (<<Data("SB", "B", y)>> \o t3)
<1>6. t1 \in Seq(Ops) /\ e \o t1 = t2 /\ e \o t1 \in Seq(Ops) /\ t3 \in Seq(Ops)
  <2>1. t1 \in Seq(Ops)
    BY <1>2, ConcatProperties
  <2> HIDE DEF t1
  <2>2. e \o t1 = t2
    BY <2>1, RecordForm
  <2>3. e \o t1 \in Seq(Ops)
    BY <1>2, <2>1, ConcatProperties
  <2>4. t2 \in Seq(Ops)
    BY <2>2, <2>3
  <2> HIDE DEF t2
  <2> QED BY <1>2, <2>1, <2>2, <2>3, <2>4, ConcatProperties DEF t1
<1>7. c \o t3 = t4
  <2> DEFINE p1 == Data("SA", "A", y)
             p2 == Data("SB", "B", y)
  <2>1. p1 \in Ops /\ p2 \in Ops /\ t3 \in Seq(Ops)
    BY <1>1, <1>6
  <2> HIDE DEF t3, p1, p2
  <2>2. <<p1, p2>> \o t3 = <<p1>> \o (<<p2>> \o t3)
    BY <2>1, List2
  <2> QED BY <2>2, Zenon DEF p1, p2
<1>8. t1 = FtwEraseSpareBlock \o (<<Put("SA", flash["SA"])>> \o
             (<<Put("SB", flash["SB"])>> \o (<<Put("SW", Erased)>> \o s)))
  BY RestoreList
<1>9. BodyList(p, y, flash["SA"], flash["SB"], s) = a \o (b \o t4)
  <2>1. BodyList(p, y, flash["SA"], flash["SB"], s)
          = a \o (b \o (<<Data("SA", "A", y)>> \o (<<Data("SB", "B", y)>> \o
             (d \o RecordList(p, FtwEraseSpareBlock \o (<<Put("SA", flash["SA"])>> \o
             (<<Put("SB", flash["SB"])>> \o (<<Put("SW", Erased)>> \o s))))))))
    BY DEF BodyList
  <2> HIDE DEF a, b, d
  <2> QED BY <1>8, <2>1, Zenon
<1> HIDE DEF a, b, c, d, e, f
<1>10. g \o t1 = a \o (b \o (c \o (d \o (e \o t1)))) /\ g \in Seq(Ops)
  <2>1. t1 \in Seq(Ops)
    BY <1>6
  <2> HIDE DEF t1
  <2> QED BY <1>a, <2>1
<1> HIDE DEF g, t4
<1>11. (g \o f) \o s = g \o (f \o s) /\ g \o f \in Seq(Ops)
  <2>1. g \in Seq(Ops) /\ f \in Seq(Ops)
    BY <1>2, <1>10
  <2> QED BY <2>1, Assoc
<1>12. WriteBody(u, p, p + 1, y) = g \o f
  BY <1>5 DEF g
<1>13. c \o (d \o (e \o t1)) = t4
  <2>1. e \o t1 = t2
    BY <1>6
  <2> QED BY <1>7, <2>1, Zenon DEF t3
<1>14. g \o (f \o s) = a \o (b \o t4)
  BY <1>10, <1>13, Zenon DEF t1
<1> QED BY <1>9, <1>11, <1>12, <1>14, Zenon

-----------------------------------------------------------------------------
(* The services                                                              *)

\* The work space is valid and a recovery ends with the contents x.
Sound(F, x, u) == Quiet(F, x, "valid", u) \/ Waiting(F, x, u)

\* Every sound flash that holds x, with no write further than the one of (u, p), is in E.
Keeps(E, x, u, p) ==
  \A G, v, k : /\ Sound(G, x, v) /\ Shape(v, k)
               /\ Spared(v, k) => Spared(u, p)
               /\ Written(v, k) => Written(u, p)
               => G \in E

\* Every flash that holds x and has no write under way is in E.
Settles(E, x) ==
  \A G, v, k : Quiet(G, x, "valid", v) /\ Shape(v, k) /\ (Free(v, k) \/ Full(v, k)) => G \in E

\* A queue is at one stage.
LEMMA Stages ==
  ASSUME NEW u, NEW p, Shape(u, p)
  PROVE  /\ Free(u, p) \/ Full(u, p) => ~Open(u, p)
         /\ Free(u, p) => ~Full(u, p)
         /\ Unspared(u, p) => Open(u, p) /\ ~Spared(u, p) /\ ~Written(u, p)
         /\ Spared(u, p) => Open(u, p) /\ ~Written(u, p)
         /\ Written(u, p) => Open(u, p)
         /\ Free(u, p) \/ Full(u, p) \/ Unspared(u, p) \/ Spared(u, p) \/ Written(u, p)
<1>1. Free(u, p) \/ Full(u, p) => ~Open(u, p)
  BY DEF Free, Full, Open, NoUnit
<1>2. Free(u, p) => ~Full(u, p)
  BY DEF Free, Full, NoUnit
<1>3. /\ [b |-> {1}, n |-> 0].b = {1} /\ [b |-> {1, 2}, n |-> 0].b = {1, 2}
      /\ NoUnit.b = {} /\ Fresh.b = {} /\ 1 \in {1} /\ 1 \in {1, 2} /\ 2 \in {1, 2} /\ 2 \notin {1}
  BY DEF NoUnit, Fresh
<1>4. Unspared(u, p) => Open(u, p) /\ ~Spared(u, p) /\ ~Written(u, p)
  <2> HAVE Unspared(u, p)
  <2>1. u[p + 1].b = {} /\ Open(u, p)
    BY <1>3 DEF Unspared
  <2> QED BY <1>3, <2>1 DEF Spared, Written
<1>5. Spared(u, p) => Open(u, p) /\ ~Written(u, p)
  <2> HAVE Spared(u, p)
  <2>1. u[p + 1].b = {1} /\ Open(u, p)
    BY <1>3 DEF Spared
  <2> QED BY <1>3, <2>1 DEF Written
<1>6. Written(u, p) => Open(u, p)
  BY DEF Written
<1> QED BY <1>1, <1>2, <1>4, <1>5, <1>6 DEF Shape

\* A sound flash has a valid work space; a pending record tells where its contents are.
LEMMA SoundFacts ==
  ASSUME NEW F, NEW x, NEW u, Sound(F, x, u)
  PROVE  /\ F \in Flash /\ F["W"] = Space("valid", u) /\ F["W"].u = u /\ x \in Values
         /\ F["W"].h = "valid" /\ Holds(F, x) /\ F["SW"] = Erased
         /\ Pending(u) <=> Waiting(F, x, u)
         /\ ~Pending(u) <=> Quiet(F, x, "valid", u)
         /\ Quiet(F, x, "valid", u) => F["SA"] \in SpareCell
<1>1. /\ F \in Flash /\ F["W"] = Space("valid", u) /\ x \in Values /\ F["SW"] = Erased
      /\ Quiet(F, x, "valid", u) => F["SA"] \in SpareCell
  BY DEF Sound, Quiet, Waiting
<1>2. F["W"].u = u /\ F["W"].h = "valid"
  BY <1>1 DEF Space
<1>3. Pending(u) <=> Waiting(F, x, u)
  BY DEF Sound, Quiet, Waiting
<1>4. ~Pending(u) <=> Quiet(F, x, "valid", u)
  BY DEF Sound, Quiet, Waiting
<1>5. Holds(F, x)
  BY DEF Sound, Holds
<1> QED BY <1>1, <1>2, <1>3, <1>4, <1>5

\* An empty queue needs no reclaim and has no pending record.
LEMMA NoUnitsFacts ==
  /\ Shape(NoUnits, 1) /\ Free(NoUnits, 1) /\ ~NeedsReclaim(NoUnits) /\ ~Pending(NoUnits)
  /\ Refreshed(NoUnits) = NoUnits
<1>1. Shape(NoUnits, 1) /\ Free(NoUnits, 1)
  BY NoUnitsShape
<1>2. ~Full(NoUnits, 1) /\ ~Spared(NoUnits, 1)
  BY <1>1, Stages
<1>3. 1 # WsSize
  BY WsSizeAssumption
<1> QED BY <1>1, <1>2, <1>3, QueueFacts

\* The queue the driver goes on with after WorkSpaceRefresh.
LEMMA RefreshedFacts ==
  ASSUME NEW u, NEW p, Shape(u, p)
  PROVE  \/ /\ ~NeedsReclaim(u) /\ Refreshed(u) = u /\ WorkSpaceRefresh(u) = <<>>
            /\ p < WsSize /\ ~Full(u, p)
         \/ /\ NeedsReclaim(u) /\ Refreshed(u) = NoUnits /\ ~Pending(u)
            /\ WorkSpaceRefresh(u) = FtwReclaimWorkSpace(NoUnits, FALSE)
            /\ Free(u, p) \/ Full(u, p)
<1>1. CASE ~NeedsReclaim(u)
  BY <1>1, QueueFacts DEF WorkSpaceRefresh
<1>2. CASE NeedsReclaim(u)
  <2>1. Preserved(u) = NoUnits /\ Refreshed(u) = NoUnits /\ (Full(u, p) \/ p = WsSize)
    BY <1>2, QueueFacts
  <2>2. ~Open(u, p)
    BY <2>1, Stages, WsSizeAssumption DEF Open
  <2>3. ~Spared(u, p) /\ (Free(u, p) \/ Full(u, p))
    BY <2>2, Stages
  <2>4. ~Pending(u)
    BY <2>3, QueueFacts
  <2> QED BY <1>2, <2>1, <2>3, <2>4 DEF WorkSpaceRefresh
<1> QED BY <1>1, <1>2

\* WorkSpaceRefresh in front of t.
LEMMA RefreshSafe ==
  ASSUME shared = FALSE, NEW x, NEW h \in {None, "fresh", "valid", "invalid"}, NEW u,
         Quiet(flash, x, h, u), NEW p, Shape(u, p), NeedsReclaim(u),
         NEW t \in Seq(Ops), NEW r, NEW E, NEW rep,
         \A G : Quiet(G, x, "valid", NoUnits) => Safe(G, t, r, E, rep)
  PROVE  /\ WorkSpaceRefresh(u) \in Seq(Ops)
         /\ Safe(flash, WorkSpaceRefresh(u) \o t, r, E, rep)
<1>1. WorkSpaceRefresh(u) = FtwReclaimWorkSpace(NoUnits, FALSE)
  BY RefreshedFacts
<1>2. /\ FtwReclaimWorkSpace(NoUnits, FALSE) \in Seq(Ops)
      /\ Safe(flash, FtwReclaimWorkSpace(NoUnits, FALSE) \o t, r, E, rep)
  BY ReclaimSafe
<1> QED BY <1>1, <1>2

\* The empty list adds nothing.
LEMMA CatEmpty ==
  ASSUME NEW s \in Seq(Ops)
  PROVE  s \o <<>> = s /\ <<>> \o s = s /\ <<>> \in Seq(Ops)
BY ConcatEmptySeq

\* WorkSpaceRefresh alone.
LEMMA RefreshAlone ==
  ASSUME shared = FALSE, NEW x, NEW u, Sound(flash, x, u), NEW p, Shape(u, p),
         NEW r, NEW E, NEW rep, Keeps(E, x, u, p)
  PROVE  Safe(flash, WorkSpaceRefresh(u), r, E, rep)
<1>1. CASE NeedsReclaim(u)
  <2>1. Quiet(flash, x, "valid", u)
    BY <1>1, RefreshedFacts, SoundFacts
  <2>2. ASSUME NEW G, Quiet(G, x, "valid", NoUnits) PROVE Safe(G, <<>>, r, E, rep)
    <3>1. Sound(G, x, NoUnits)
      BY <2>2 DEF Sound
    <3>2. ~Spared(NoUnits, 1) /\ ~Written(NoUnits, 1)
      BY NoUnitsFacts, Stages
    <3>3. G \in E
      BY <3>1, <3>2, NoUnitsFacts DEF Keeps
    <3> QED BY <3>3, SafeEmpty
  <2>3. <<>> \in Seq(Ops)
    OBVIOUS
  <2>4. /\ WorkSpaceRefresh(u) \in Seq(Ops)
        /\ Safe(flash, WorkSpaceRefresh(u) \o <<>>, r, E, rep)
    BY <1>1, <2>1, <2>2, <2>3, RefreshSafe
  <2>5. WorkSpaceRefresh(u) \o <<>> = WorkSpaceRefresh(u)
    BY <2>4, CatEmpty
  <2> QED BY <2>4, <2>5
<1>2. CASE ~NeedsReclaim(u)
  <2>1. WorkSpaceRefresh(u) = <<>>
    BY <1>2, RefreshedFacts
  <2>2. flash \in E
    BY DEF Keeps
  <2> QED BY <2>1, <2>2, SafeEmpty
<1> QED BY <1>1, <1>2

\* FtwAbort, not called while a write waits.
LEMMA AbortSafe ==
  ASSUME shared = FALSE, NEW x, NEW u, Sound(flash, x, u), NEW p, Shape(u, p), ~Pending(u),
         NEW r, NEW E, NEW rep, Keeps(E, x, u, p)
  PROVE  Safe(flash, FtwAbort(u).ops, r, E, rep)
<1>1. CASE NeedsReclaim(u)
  <2>1. Refreshed(u) = NoUnits
    BY <1>1, RefreshedFacts
  <2>2. FtwGetLastWriteHeader(NoUnits) = 1 /\ Bits(NoUnits, 1) = NoUnits[1].b
    BY NoUnitsFacts, QueueFacts
  <2>3. 0 \notin NoUnits[1].b
    BY NoUnitsFacts DEF Free, NoUnit
  <2>4. FtwAbort(u).ops = WorkSpaceRefresh(u)
    BY <2>1, <2>2, <2>3 DEF FtwAbort, Result
  <2> QED BY <2>4, RefreshAlone
<1>2. CASE ~NeedsReclaim(u)
  <2>1. Refreshed(u) = u /\ WorkSpaceRefresh(u) = <<>> /\ ~Full(u, p) /\ p < WsSize
    BY <1>2, RefreshedFacts
  <2>2. FtwGetLastWriteHeader(u) = p /\ Bits(u, p) = u[p].b
    BY QueueFacts
  <2>3. CASE 0 \notin u[p].b \/ 2 \in u[p].b
    <3>1. FtwAbort(u).ops = WorkSpaceRefresh(u)
      BY <2>1, <2>2, <2>3 DEF FtwAbort, Result
    <3> QED BY <3>1, RefreshAlone
  <2>4. CASE 0 \in u[p].b /\ 2 \notin u[p].b
    <3> DEFINE o == FtwUpdateFvState("W", p, 2)
    <3>1. FtwAbort(u).ops = Append(<<>>, o)
      BY <2>1, <2>2, <2>4 DEF FtwAbort, Result
    <3>2. Open(u, p)
      BY <2>4, Stages DEF Free, Full, NoUnit
    <3>3. Quiet(flash, x, "valid", u)
      BY SoundFacts
    <3>4. ASSUME NEW G, NEW v, NEW k, Quiet(G, x, "valid", v), Shape(v, k),
                 Free(v, k) \/ Full(v, k)
          PROVE  Safe(G, <<>>, r, E, rep)
      <4>1. Sound(G, x, v) /\ ~Spared(v, k) /\ ~Written(v, k)
        BY <3>4, Stages DEF Sound
      <4>2. G \in E
        BY <3>4, <4>1 DEF Keeps
      <4> QED BY <4>2, SafeEmpty
    <3>5. <<>> \in Seq(Ops)
      OBVIOUS
    <3>6. <<o>> \o <<>> \in Seq(Ops) /\ Safe(flash, <<o>> \o <<>>, r, E, rep)
      BY <3>2, <3>3, <3>4, <3>5, CompleteSafe
    <3>7. o \in Ops
      BY QueueFacts, OpTypes, WsSizeAssumption DEF Cells
    <3> HIDE DEF o
    <3>8. <<o>> \o <<>> = <<o>> /\ Append(<<>>, o) = <<o>>
      BY <3>7, CatEmpty
    <3> QED BY <3>1, <3>6, <3>8
  <2> QED BY <2>3, <2>4
<1> QED BY <1>1, <1>2

\* What the driver reads at the last header and its record once the queue is refreshed.
LEMMA ReadFacts ==
  ASSUME NEW u, NEW p, Shape(u, p), ~NeedsReclaim(u)
  PROVE  /\ FtwGetLastWriteHeader(u) = p /\ FtwGetLastWriteRecord(u, p) = p + 1
         /\ Unit(u, p) = u[p] /\ Unit(u, p + 1) = u[p + 1]
         /\ 2 \notin Bits(u, p)
         /\ (0 \in Bits(u, p)) <=> Open(u, p)
         /\ Open(u, p) => u[p].n = 1
         /\ Free(u, p) => u[p] = NoUnit /\ u[p + 1] = NoUnit /\ Bits(u, p) = {}
         /\ (1 \in Bits(u, p + 1)) <=> Spared(u, p) \/ Written(u, p)
         /\ (2 \in Bits(u, p + 1)) <=> Written(u, p)
         /\ (0 \notin Bits(u, p + 1))
         /\ p < WsSize /\ p \in 1..WsSize /\ p + 1 \in 1..WsSize
         /\ (Free(u, p) \/ Open(u, p))
<1>1. /\ FtwGetLastWriteHeader(u) = p /\ FtwGetLastWriteRecord(u, p) = p + 1
      /\ Unit(u, p) = u[p] /\ Unit(u, p + 1) = u[p + 1] /\ p < WsSize /\ p \in 1..WsSize
      /\ Bits(u, p) = u[p].b /\ Bits(u, p + 1) = u[p + 1].b
      /\ ~Full(u, p)
  BY QueueFacts
<1>2. p + 1 \in 1..WsSize
  BY <1>1, WsSizeAssumption
<1>3. Free(u, p) \/ Open(u, p)
  BY <1>1, Stages
<1>a. NoUnit.b = {} /\ NoUnit.n = -1
  BY DEF NoUnit
<1>4. 2 \notin u[p].b /\ (0 \in u[p].b <=> Open(u, p)) /\ (Open(u, p) => u[p].n = 1)
  BY <1>3, <1>a DEF Free, Open
<1>5. Free(u, p) => u[p] = NoUnit /\ u[p + 1] = NoUnit /\ u[p].b = {}
  BY <1>1, <1>a DEF Free
<1>6. /\ [b |-> {1}, n |-> 0].b = {1} /\ [b |-> {1, 2}, n |-> 0].b = {1, 2} /\ Fresh.b = {}
  BY DEF Fresh
<1>7. /\ (1 \in u[p + 1].b) <=> Spared(u, p) \/ Written(u, p)
      /\ (2 \in u[p + 1].b) <=> Written(u, p)
      /\ 0 \notin u[p + 1].b
  <2>1. CASE Free(u, p)
    <3>1. u[p + 1].b = {} /\ ~Spared(u, p) /\ ~Written(u, p)
      BY <1>5, <1>a, <2>1, Stages
    <3> QED BY <3>1
  <2>2. CASE Unspared(u, p)
    <3>1. u[p + 1].b = {} /\ ~Spared(u, p) /\ ~Written(u, p)
      BY <1>6, <1>a, <2>2, Stages DEF Unspared
    <3> QED BY <3>1
  <2>3. CASE Spared(u, p)
    <3>1. u[p + 1].b = {1} /\ ~Written(u, p)
      BY <1>6, <2>3, Stages DEF Spared
    <3> QED BY <2>3, <3>1
  <2>4. CASE Written(u, p)
    <3>1. u[p + 1].b = {1, 2}
      BY <1>6, <2>4 DEF Written
    <3> QED BY <2>4, <3>1
  <2> QED BY <1>1, <2>1, <2>2, <2>3, <2>4, Stages
<1> QED BY <1>1, <1>2, <1>3, <1>4, <1>5, <1>7

\* FtwRestart of a write that waits.
LEMMA RestartWaiting ==
  ASSUME shared = FALSE, NEW x, NEW u, Waiting(flash, x, u), NEW p, Shape(u, p),
         NEW r, NEW E, NEW rep, Settles(E, x)
  PROVE  Safe(flash, FtwRestart(u).ops, r, E, rep)
<1>0. Spared(u, p)
  BY QueueFacts DEF Waiting
<1>a. ~NeedsReclaim(u)
  <2>1. Pending(u)
    BY DEF Waiting
  <2> QED BY <2>1, RefreshedFacts
<1>1. Refreshed(u) = u /\ WorkSpaceRefresh(u) = <<>>
  BY <1>a, RefreshedFacts
<1>2. /\ FtwGetLastWriteHeader(u) = p /\ FtwGetLastWriteRecord(u, p) = p + 1
      /\ 2 \notin Bits(u, p) /\ 2 \notin Bits(u, p + 1) /\ 1 \in Bits(u, p + 1)
      /\ Unit(u, p).n = 1 /\ p \in 1..WsSize
  BY <1>0, <1>a, ReadFacts, Stages
<1> DEFINE a == FtwWriteRecord(u, p, p + 1)
           b == FtwEraseSpareBlock
<1>3. FtwRestart(u).ops = (<<>> \o a) \o b
  BY <1>1, <1>2 DEF FtwRestart, Result
<1>4. b \in Seq(Ops)
  <2>1. b = <<Erase("SA"), Erase("SB"), Erase("SW")>>
    BY DEF FtwEraseSpareBlock, FtwEraseBlock, SpareCells
  <2>2. Erase("SA") \in Ops /\ Erase("SB") \in Ops /\ Erase("SW") \in Ops
    BY OpTypes DEF Cells
  <2> QED BY <2>1, <2>2
<1>5. a \in Seq(Ops) /\ a \o b = RecordList(p, b)
  <2> HIDE DEF b
  <2> QED BY <1>2, <1>4, RecordForm
<1>6. ASSUME NEW G, NEW v, NEW k, Quiet(G, x, "valid", v), Shape(v, k), Free(v, k) \/ Full(v, k)
      PROVE  Safe(G, b, r, E, rep)
  <2>1. \A H : Quiet(H, x, "valid", v) => Safe(H, <<>>, r, E, rep)
    BY <1>6, SafeEmpty DEF Settles
  <2>2. <<>> \in Seq(Ops)
    OBVIOUS
  <2>3. Safe(G, b \o <<>>, r, E, rep)
    BY <1>6, <2>1, <2>2, EraseSpareSafe
  <2>4. b \o <<>> = b
    <3> HIDE DEF b
    <3> QED BY <1>4, CatEmpty
  <2> QED BY <2>3, <2>4
<1> HIDE DEF a, b
<1>7. Safe(flash, RecordList(p, b), r, E, rep)
  BY <1>0, <1>4, <1>6, RecordSafe
<1>8. <<>> \o a = a
  BY <1>5, CatEmpty
<1> QED BY <1>3, <1>5, <1>7, <1>8

\* FtwRestart is safe: it finishes a write that waits, or keeps the contents.
LEMMA RestartSafe ==
  ASSUME shared = FALSE, NEW x, NEW u, Sound(flash, x, u), NEW p, Shape(u, p),
         NEW r, NEW E, NEW rep, Keeps(E, x, u, p)
  PROVE  Safe(flash, FtwRestart(u).ops, r, E, rep)
<1>1. CASE Pending(u)
  <2>1. Waiting(flash, x, u)
    BY <1>1, SoundFacts
  <2>2. Settles(E, x)
    <3> SUFFICES ASSUME NEW G, NEW v, NEW k, Quiet(G, x, "valid", v), Shape(v, k),
                        Free(v, k) \/ Full(v, k)
                 PROVE  G \in E
      BY DEF Settles
    <3>1. Sound(G, x, v) /\ ~Spared(v, k) /\ ~Written(v, k)
      BY Stages DEF Sound
    <3> QED BY <3>1 DEF Keeps
  <2> QED BY <2>1, <2>2, RestartWaiting
<1>2. CASE ~Pending(u)
  <2>1. PICK q, k : q = Refreshed(u) /\ Shape(q, k) /\ ~NeedsReclaim(q) /\ ~Spared(q, k)
    <3>1. ~Spared(u, p)
      BY <1>2, QueueFacts
    <3>2. ~Spared(NoUnits, 1)
      BY NoUnitsFacts, Stages
    <3> QED BY <3>1, <3>2, RefreshedFacts, NoUnitsFacts
  <2>2. /\ FtwGetLastWriteHeader(q) = k /\ FtwGetLastWriteRecord(q, k) = k + 1
        /\ (1 \in Bits(q, k + 1)) <=> Spared(q, k) \/ Written(q, k)
        /\ (2 \in Bits(q, k + 1)) <=> Written(q, k)
    BY <2>1, ReadFacts
  <2>3. 2 \in Bits(q, k + 1) \/ 1 \notin Bits(q, k + 1)
    BY <2>1, <2>2
  <2>4. FtwRestart(u).ops = WorkSpaceRefresh(u)
    BY <2>1, <2>2, <2>3 DEF FtwRestart, Result
  <2> QED BY <2>4, RefreshAlone
<1> QED BY <1>1, <1>2

\* FtwGetLastWrite is safe: it aborts nothing that waits.
LEMMA LastWriteSafe ==
  ASSUME shared = FALSE, NEW x, NEW u, Sound(flash, x, u), NEW p, Shape(u, p),
         NEW r, NEW E, NEW rep, Keeps(E, x, u, p)
  PROVE  Safe(flash, FtwGetLastWrite(u).ops, r, E, rep)
<1>1. PICK q, k : /\ q = Refreshed(u) /\ Shape(q, k) /\ ~NeedsReclaim(q)
                  /\ \/ q = u /\ k = p /\ WorkSpaceRefresh(u) = <<>>
                     \/ Free(q, k)
  BY RefreshedFacts, NoUnitsFacts
<1>2. /\ FtwGetLastWriteHeader(q) = k /\ FtwGetLastWriteRecord(q, k) = k + 1
      /\ (0 \in Bits(q, k)) <=> Open(q, k)
      /\ (1 \in Bits(q, k + 1)) <=> Spared(q, k) \/ Written(q, k)
      /\ (2 \in Bits(q, k + 1)) <=> Written(q, k)
      /\ Free(q, k) \/ Open(q, k)
  BY <1>1, ReadFacts
<1>3. \/ FtwGetLastWrite(u).ops = WorkSpaceRefresh(u)
      \/ FtwGetLastWrite(u).ops = WorkSpaceRefresh(u) \o FtwAbort(q).ops
  BY <1>1 DEF FtwGetLastWrite, Result
<1>4. CASE Open(q, k) /\ ~Spared(q, k)
  <2>1. q = u /\ k = p /\ WorkSpaceRefresh(u) = <<>>
    BY <1>1, <1>4, Stages
  <2>2. ~Pending(u)
    BY <1>4, <2>1, QueueFacts
  <2>3. Safe(flash, FtwAbort(u).ops, r, E, rep)
    BY <2>2, AbortSafe
  <2>4. <<>> \o FtwAbort(u).ops = FtwAbort(u).ops
    <3>1. FtwAbort(u).ops = Append(<<>>, FtwUpdateFvState("W", p, 2))
      <4>1. 0 \in Bits(u, p) /\ 2 \notin Bits(u, p)
        BY <1>1, <1>2, <1>4, <2>1, ReadFacts
      <4> QED BY <1>1, <1>2, <2>1, <4>1 DEF FtwAbort, Result
    <3>2. Append(<<>>, FtwUpdateFvState("W", p, 2)) = <<FtwUpdateFvState("W", p, 2)>>
      OBVIOUS
    <3>3. FtwUpdateFvState("W", p, 2) \in Ops
      BY QueueFacts, OpTypes, WsSizeAssumption DEF Cells
    <3>4. <<FtwUpdateFvState("W", p, 2)>> \in Seq(Ops)
      BY <3>3
    <3> QED BY <3>1, <3>2, <3>4, CatEmpty
  <2>5. FtwGetLastWrite(u).ops = WorkSpaceRefresh(u)
          => Safe(flash, FtwGetLastWrite(u).ops, r, E, rep)
    BY RefreshAlone
  <2> QED BY <1>3, <2>1, <2>3, <2>4, <2>5
<1>5. CASE ~(Open(q, k) /\ ~Spared(q, k))
  <2>1. ~Written(q, k) /\ (Open(q, k) => 1 \in Bits(q, k + 1))
    BY <1>1, <1>2, <1>5, Stages
  <2>2. FtwGetLastWrite(u).ops = WorkSpaceRefresh(u)
    BY <1>1, <1>2, <2>1 DEF FtwGetLastWrite, Result
  <2> QED BY <2>2, RefreshAlone
<1> QED BY <1>4, <1>5

\* The header FtwAllocate writes at k.
Header(k) == <<WriteWorkSpaceData(k, [b |-> {HEADER_ALLOCATED}, n |-> 1]),
               FtwUpdateFvState("W", k, WRITES_ALLOCATED)>>

\* What FtwAllocate does, of a queue that is q with last header k once refreshed.
LEMMA AllocateForm ==
  ASSUME NEW u, NEW q, q = Refreshed(u), NEW k, Shape(q, k), ~NeedsReclaim(q)
  PROVE  FtwAllocate(u, 1)
           = IF Free(q, k) THEN Result((WorkSpaceRefresh(u) \o <<>>) \o Header(k), "SUCCESS")
             ELSE Result(WorkSpaceRefresh(u), "ACCESS_DENIED")
<1>1. /\ FtwGetLastWriteHeader(q) = k /\ k < WsSize /\ k \in 1..WsSize
      /\ (0 \in Bits(q, k)) <=> Open(q, k)
      /\ Free(q, k) => Bits(q, k) = {}
      /\ Free(q, k) \/ Open(q, k)
  BY ReadFacts
<1>2. ~(1 + 1 > WsSize) /\ ~(k + 1 > WsSize)
  BY <1>1, WsSizeAssumption
<1>3. CASE Free(q, k)
  <2>1. ~(Bits(q, k) \cap {0, 1} # {})
    BY <1>1, <1>3
  <2> QED BY <1>1, <1>2, <1>3, <2>1 DEF FtwAllocate, Header
<1>4. CASE ~Free(q, k)
  <2>1. Bits(q, k) \cap {0, 1} # {}
    BY <1>1, <1>4
  <2> QED BY <1>1, <1>2, <1>4, <2>1 DEF FtwAllocate
<1> QED BY <1>3, <1>4

\* A refreshed queue without a header, and the header written into it.
LEMMA NewHeaderSafe ==
  ASSUME shared = FALSE, NEW x, NEW u, Sound(flash, x, u), NEW p, Shape(u, p),
         NEW q, q = Refreshed(u), NEW k, Shape(q, k), ~NeedsReclaim(q), Free(q, k),
         NEW s \in Seq(Ops), NEW r, NEW E, NEW rep,
         \A G, v : Quiet(G, x, "valid", v) /\ Shape(v, k) /\ Unspared(v, k)
                     => Safe(G, s, r, E, rep)
  PROVE  /\ WorkSpaceRefresh(u) \in Seq(Ops) /\ Header(k) \in Seq(Ops)
         /\ Safe(flash, WorkSpaceRefresh(u) \o (Header(k) \o s), r, E, rep)
<1> DEFINE o == WriteWorkSpaceData(k, [b |-> {0}, n |-> 1])
           m == FtwUpdateFvState("W", k, 1)
           t == <<o>> \o (<<m>> \o s)
<1>0. k < WsSize /\ k \in 1..WsSize /\ k \in Nat
  BY ReadFacts, WsSizeAssumption
<1>1. o \in Ops /\ m \in Ops
  <2>1. {0} \in SUBSET (0..2)
    OBVIOUS
  <2>2. [b |-> {0}, n |-> 1] \in Units
    BY <2>1, UnitTypes
  <2> QED BY <1>0, <2>2, OpTypes DEF Cells
<1>2. Header(k) \in Seq(Ops) /\ t \in Seq(Ops)
  BY <1>1, HeadTail DEF Header
<1>3. Header(k) \o s = t
  <2>1. Header(k) = <<o, m>>
    BY DEF Header
  <2> HIDE DEF o, m
  <2>2. <<o, m>> \o s = <<o>> \o (<<m>> \o s)
    BY <1>1, List2
  <2> QED BY <2>1, <2>2
<1>4. ASSUME NEW G, Quiet(G, x, "valid", q) PROVE Safe(G, t, r, E, rep)
  BY <1>0, <1>4, AllocateSafe
<1> HIDE DEF t
<1>5. CASE NeedsReclaim(u)
  <2>1. Refreshed(u) = NoUnits /\ ~Pending(u)
    BY <1>5, RefreshedFacts
  <2>2. Quiet(flash, x, "valid", u)
    BY <2>1, SoundFacts
  <2>3. \A G : Quiet(G, x, "valid", NoUnits) => Safe(G, t, r, E, rep)
    BY <1>4, <2>1
  <2>4. WorkSpaceRefresh(u) \in Seq(Ops) /\ Safe(flash, WorkSpaceRefresh(u) \o t, r, E, rep)
    BY <1>2, <1>5, <2>2, <2>3, RefreshSafe
  <2> QED BY <1>2, <1>3, <2>4
<1>6. CASE ~NeedsReclaim(u)
  <2>1. q = u /\ WorkSpaceRefresh(u) = <<>>
    BY <1>6, RefreshedFacts
  <2>2. ~Spared(q, k)
    BY Stages
  <2>3. Quiet(flash, x, "valid", u)
    BY <2>1, <2>2, QueueFacts, SoundFacts
  <2>4. Safe(flash, t, r, E, rep)
    BY <1>4, <2>1, <2>3
  <2>5. <<>> \o t = t /\ <<>> \in Seq(Ops)
    BY <1>2, CatEmpty
  <2> QED BY <1>2, <1>3, <2>1, <2>4, <2>5
<1> QED BY <1>5, <1>6

\* The queue after WorkSpaceRefresh, with its last header.
LEMMA RefreshedShape ==
  ASSUME NEW u, NEW p, Shape(u, p)
  PROVE  \E q, k : /\ q = Refreshed(u) /\ Shape(q, k) /\ ~NeedsReclaim(q)
                   /\ Refreshed(q) = q /\ WorkSpaceRefresh(q) = <<>>
                   /\ \/ q = u /\ k = p /\ WorkSpaceRefresh(u) = <<>>
                      \/ Free(q, k)
<1>1. WorkSpaceRefresh(NoUnits) = <<>>
  BY NoUnitsFacts DEF WorkSpaceRefresh
<1> QED BY <1>1, RefreshedFacts, NoUnitsFacts

\* FtwAllocate of one write is safe, with or without a reclaim.
LEMMA AllocateServiceSafe ==
  ASSUME shared = FALSE, NEW x, NEW u, Sound(flash, x, u), NEW p, Shape(u, p),
         NEW r, NEW E, NEW rep, Keeps(E, x, u, p)
  PROVE  Safe(flash, FtwAllocate(u, 1).ops, r, E, rep)
<1>1. PICK q, k : /\ q = Refreshed(u) /\ Shape(q, k) /\ ~NeedsReclaim(q)
  BY RefreshedShape
<1>2. CASE Free(q, k)
  <2>1. FtwAllocate(u, 1).ops = (WorkSpaceRefresh(u) \o <<>>) \o Header(k)
    BY <1>1, <1>2, AllocateForm DEF Result
  <2>2. ASSUME NEW G, NEW v, Quiet(G, x, "valid", v), Shape(v, k), Unspared(v, k)
        PROVE  Safe(G, <<>>, r, E, rep)
    <3>1. Sound(G, x, v) /\ ~Spared(v, k) /\ ~Written(v, k)
      BY <2>2, Stages DEF Sound
    <3>2. G \in E
      BY <2>2, <3>1 DEF Keeps
    <3> QED BY <3>2, SafeEmpty
  <2>3. <<>> \in Seq(Ops)
    OBVIOUS
  <2>4. /\ WorkSpaceRefresh(u) \in Seq(Ops) /\ Header(k) \in Seq(Ops)
        /\ Safe(flash, WorkSpaceRefresh(u) \o (Header(k) \o <<>>), r, E, rep)
    BY <1>1, <1>2, <2>2, <2>3, NewHeaderSafe
  <2>5. WorkSpaceRefresh(u) \o <<>> = WorkSpaceRefresh(u) /\ Header(k) \o <<>> = Header(k)
    BY <2>4, CatEmpty
  <2> QED BY <2>1, <2>4, <2>5
<1>3. CASE ~Free(q, k)
  <2>1. FtwAllocate(u, 1).ops = WorkSpaceRefresh(u)
    BY <1>1, <1>3, AllocateForm DEF Result
  <2> QED BY <2>1, RefreshAlone
<1> QED BY <1>2, <1>3

\* What FtwWrite comes to, w, when R refreshes the queue, which is then q with last header k.
WriteCases(w, R, q, k, y, private) ==
  \/ /\ w.st # "SUCCESS" /\ w.ops = R
     /\ Free(q, k) /\ private = TRUE
  \/ /\ w.st # "SUCCESS" /\ w.ops = R \o <<>>
     /\ Spared(q, k) \/ Written(q, k)
  \/ /\ w.st = "SUCCESS" /\ Free(q, k)
     /\ w.ops = (R \o ((<<>> \o <<>>) \o Header(k)))
                  \o WriteBody([q EXCEPT ![k].n = 1], k, k + 1, y)
  \/ /\ w.st = "SUCCESS" /\ Unspared(q, k)
     /\ w.ops = (R \o <<>>) \o WriteBody([q EXCEPT ![k].n = 1], k, k + 1, y)

\* The cases of FtwWrite, by the stage of the queue it goes on with.
LEMMA WriteForm ==
  ASSUME NEW u, NEW p, Shape(u, p), NEW y, NEW private \in BOOLEAN,
         NEW q, q = Refreshed(u), NEW k, Shape(q, k), ~NeedsReclaim(q),
         Refreshed(q) = q, WorkSpaceRefresh(q) = <<>>
  PROVE  WriteCases(FtwWrite(u, y, private), WorkSpaceRefresh(u), q, k, y, private)
<1>1. /\ FtwGetLastWriteHeader(q) = k /\ FtwGetLastWriteRecord(q, k) = k + 1
      /\ Unit(q, k) = q[k] /\ Unit(q, k + 1) = q[k + 1]
      /\ 2 \notin Bits(q, k)
      /\ Open(q, k) => q[k].n = 1
      /\ Free(q, k) => q[k] = NoUnit /\ q[k + 1] = NoUnit
      /\ (1 \in Bits(q, k + 1)) <=> Spared(q, k) \/ Written(q, k)
      /\ (2 \in Bits(q, k + 1)) <=> Written(q, k)
      /\ k \in 1..WsSize
      /\ Free(q, k) \/ Open(q, k)
  BY ReadFacts
<1>2. ~(k + 1 > k + 1)
  BY <1>1
<1>3. CASE Free(q, k)
  <2>1. FtwAllocate(q, 1) = Result((<<>> \o <<>>) \o Header(k), "SUCCESS")
    BY <1>3, AllocateForm
  <2>2. Unit(q, k) = NoUnit /\ 1 \notin Bits(q, k + 1) /\ 2 \notin Bits(q, k + 1)
    BY <1>1, <1>3, Stages
  <2>3. CASE private = TRUE
    <3>1. FtwWrite(u, y, private) = Result(WorkSpaceRefresh(u), "NOT_READY")
      BY <1>1, <2>2, <2>3 DEF FtwWrite
    <3> QED BY <1>3, <2>3, <3>1 DEF Result, WriteCases
  <2>4. CASE private = FALSE
    <3>1. FtwWrite(u, y, private)
            = Result((WorkSpaceRefresh(u) \o ((<<>> \o <<>>) \o Header(k)))
                       \o WriteBody([q EXCEPT ![k].n = 1], k, k + 1, y), "SUCCESS")
      <4>1. FtwAllocate(q, 1).st = "SUCCESS" /\ FtwAllocate(q, 1).ops = (<<>> \o <<>>) \o Header(k)
        BY <2>1 DEF Result
      <4>2. FtwWrite(u, y, private)
              = Result((WorkSpaceRefresh(u) \o FtwAllocate(q, 1).ops)
                         \o WriteBody([q EXCEPT ![k].n = 1], k, k + 1, y), "SUCCESS")
        BY <1>1, <1>2, <2>2, <2>4, <4>1 DEF FtwWrite
      <4> QED BY <4>1, <4>2
    <3> QED BY <1>3, <3>1 DEF Result, WriteCases
  <2> QED BY <2>3, <2>4
<1>4. CASE Open(q, k)
  <2>1. q[k].n = 1 /\ Unit(q, k) # NoUnit /\ Unit(q, k).n = 1
    BY <1>1, <1>4 DEF NoUnit
  <2>2. CASE Written(q, k)
    <3>1. 2 \in Bits(q, k + 1)
      BY <1>1, <2>2
    <3>2. FtwWrite(u, y, private) = Result(WorkSpaceRefresh(u) \o <<>>, "ACCESS_DENIED")
      BY <1>1, <1>2, <2>1, <3>1 DEF FtwWrite, Result
    <3> QED BY <2>2, <3>2 DEF Result, WriteCases
  <2>3. CASE Spared(q, k)
    <3>1. 2 \notin Bits(q, k + 1) /\ 1 \in Bits(q, k + 1)
      BY <1>1, <2>3, Stages
    <3>2. FtwWrite(u, y, private) = Result(WorkSpaceRefresh(u) \o <<>>, "NOT_READY")
      BY <1>1, <1>2, <2>1, <3>1 DEF FtwWrite, Result
    <3> QED BY <2>3, <3>2 DEF Result, WriteCases
  <2>4. CASE Unspared(q, k)
    <3>1. 2 \notin Bits(q, k + 1) /\ 1 \notin Bits(q, k + 1)
      BY <1>1, <2>4, Stages
    <3>2. FtwWrite(u, y, private)
            = Result((WorkSpaceRefresh(u) \o <<>>)
                       \o WriteBody([q EXCEPT ![k].n = 1], k, k + 1, y), "SUCCESS")
      BY <1>1, <1>2, <2>1, <3>1 DEF FtwWrite, Result
    <3> QED BY <2>4, <3>2 DEF Result, WriteCases
  <2> QED BY <1>4, <2>2, <2>3, <2>4, Stages
<1> QED BY <1>1, <1>3, <1>4

\* FtwWrite.
LEMMA WriteSafe ==
  ASSUME shared = FALSE, NEW x, NEW u, Sound(flash, x, u), NEW p, Shape(u, p),
         NEW y \in Values, NEW private \in BOOLEAN, NEW E, NEW rep,
         FtwWrite(u, y, private).st = "SUCCESS" => Settles(E, y),
         FtwWrite(u, y, private).st # "SUCCESS" => Keeps(E, x, u, p)
  PROVE  /\ Safe(flash, FtwWrite(u, y, private).ops, y, E, rep)
         /\ private = FALSE /\ ~Spared(u, p) /\ ~Written(u, p)
              => FtwWrite(u, y, private).st = "SUCCESS"
<1> DEFINE w == FtwWrite(u, y, private)
           R == WorkSpaceRefresh(u)
<1>1. PICK q, k : /\ q = Refreshed(u) /\ Shape(q, k) /\ ~NeedsReclaim(q)
                  /\ Refreshed(q) = q /\ WorkSpaceRefresh(q) = <<>>
                  /\ \/ q = u /\ k = p /\ WorkSpaceRefresh(u) = <<>>
                     \/ Free(q, k)
  BY RefreshedShape
<1>2. \/ /\ w.st # "SUCCESS" /\ w.ops = R
         /\ Free(q, k) /\ private = TRUE
      \/ /\ w.st # "SUCCESS" /\ w.ops = R \o <<>>
         /\ Spared(q, k) \/ Written(q, k)
      \/ /\ w.st = "SUCCESS" /\ Free(q, k)
         /\ w.ops = (R \o ((<<>> \o <<>>) \o Header(k)))
                      \o WriteBody([q EXCEPT ![k].n = 1], k, k + 1, y)
      \/ /\ w.st = "SUCCESS" /\ Unspared(q, k)
         /\ w.ops = (R \o <<>>) \o WriteBody([q EXCEPT ![k].n = 1], k, k + 1, y)
  <2>1. WriteCases(FtwWrite(u, y, private), WorkSpaceRefresh(u), q, k, y, private)
    BY <1>1, WriteForm
  <2> QED BY <2>1 DEF WriteCases
<1> DEFINE B == WriteBody([q EXCEPT ![k].n = 1], k, k + 1, y)
<1>3. ASSUME Free(q, k) \/ Unspared(q, k), Settles(E, y)
      PROVE  /\ B \in Seq(Ops)
             /\ \A G, v : Quiet(G, x, "valid", v) /\ Shape(v, k) /\ Unspared(v, k)
                            => Safe(G, B, y, E, rep)
  <2> DEFINE qq == [q EXCEPT ![k].n = 1]
  <2>1. /\ k \in 1..WsSize /\ k + 1 \in 1..WsSize /\ k # k + 1 /\ q \in Queues
        /\ q[k + 1] \in {NoUnit, Fresh}
    BY <1>1, <1>3, ReadFacts, QueueFacts DEF Unspared
  <2>2. Unit(qq, k).n = 1 /\ Unit(qq, k + 1) = q[k + 1]
    <3>1. q[k] \in Units
      BY <2>1 DEF Queues
    <3>2. qq[k].n = 1 /\ qq[k + 1] = q[k + 1]
      BY <2>1, <3>1 DEF Queues, Units
    <3> QED BY <2>1, <3>2 DEF Unit
  <2>3. ~Pending(u)
    <3>1. ~Spared(q, k)
      BY <1>1, <1>3, Stages
    <3> QED BY <1>1, <3>1, QueueFacts, RefreshedFacts
  <2>4. /\ flash \in Flash /\ flash["SW"] = Erased /\ flash["SA"] \in SpareCell
        /\ flash["SB"] \in Cell
    BY <2>3, SoundFacts DEF Flash, Cells
  <2>5. <<>> \in Seq(Ops)
    OBVIOUS
  <2> HIDE DEF qq
  <2>6. /\ WriteBody(qq, k, k + 1, y) \in Seq(Ops)
        /\ WriteBody(qq, k, k + 1, y) \o <<>> = BodyList(k, y, flash["SA"], flash["SB"], <<>>)
    BY <2>1, <2>2, <2>4, <2>5, BodyForm
  <2>7. WriteBody(qq, k, k + 1, y) \o <<>> = WriteBody(qq, k, k + 1, y)
    BY <2>6, CatEmpty
  <2>8. \A G, v, j : Quiet(G, y, "valid", v) /\ Shape(v, j) /\ (Free(v, j) \/ Full(v, j))
                        => Safe(G, <<>>, y, E, rep)
    BY <1>3, SafeEmpty DEF Settles
  <2>9. ASSUME NEW G, NEW v, Quiet(G, x, "valid", v), Shape(v, k), Unspared(v, k)
        PROVE  Safe(G, BodyList(k, y, flash["SA"], flash["SB"], <<>>), y, E, rep)
    BY <2>4, <2>5, <2>8, <2>9, BodySafe
  <2> QED BY <2>6, <2>7, <2>9 DEF qq
<1>4. CASE /\ w.st # "SUCCESS" /\ w.ops = R
           /\ Free(q, k) /\ private = TRUE
  BY <1>4, RefreshAlone
<1>5. CASE /\ w.st # "SUCCESS" /\ w.ops = R \o <<>>
           /\ Spared(q, k) \/ Written(q, k)
  <2>1. q = u /\ k = p /\ R = <<>>
    BY <1>1, <1>5, Stages
  <2>2. R \o <<>> = R
    BY <2>1
  <2>3. Safe(flash, R, y, E, rep)
    BY <1>5, RefreshAlone
  <2> QED BY <1>5, <2>1, <2>2, <2>3
<1>6. CASE /\ w.st = "SUCCESS" /\ Free(q, k)
           /\ w.ops = (R \o ((<<>> \o <<>>) \o Header(k))) \o B
  <2>1. B \in Seq(Ops) /\ \A G, v : Quiet(G, x, "valid", v) /\ Shape(v, k) /\ Unspared(v, k)
                                      => Safe(G, B, y, E, rep)
    BY <1>3, <1>6
  <2> HIDE DEF B
  <2>2. /\ R \in Seq(Ops) /\ Header(k) \in Seq(Ops)
        /\ Safe(flash, R \o (Header(k) \o B), y, E, rep)
    BY <1>1, <1>6, <2>1, NewHeaderSafe
  <2>3. (<<>> \o <<>>) \o Header(k) = Header(k)
    <3>1. <<>> \o <<>> = <<>>
      BY CatEmpty
    <3>2. <<>> \o Header(k) = Header(k)
      BY <2>2, CatEmpty
    <3> QED BY <3>1, <3>2
  <2> HIDE DEF R
  <2>4. (R \o Header(k)) \o B = R \o (Header(k) \o B)
    BY <2>1, <2>2, Assoc
  <2>5. w.ops = R \o (Header(k) \o B)
    BY <1>6, <2>3, <2>4
  <2> QED BY <1>6, <2>2, <2>5
<1>7. CASE w.st = "SUCCESS" /\ Unspared(q, k) /\ w.ops = (R \o <<>>) \o B
  <2>1. B \in Seq(Ops) /\ \A G, v : Quiet(G, x, "valid", v) /\ Shape(v, k) /\ Unspared(v, k)
                                      => Safe(G, B, y, E, rep)
    BY <1>3, <1>7
  <2>2. q = u /\ k = p /\ R = <<>> /\ ~Spared(u, p)
    BY <1>1, <1>7, Stages
  <2>3. Quiet(flash, x, "valid", u)
    BY <2>2, QueueFacts, SoundFacts
  <2>4. Safe(flash, B, y, E, rep)
    BY <1>7, <2>1, <2>2, <2>3
  <2> HIDE DEF B
  <2>5. (<<>> \o <<>>) \o B = B
    <3>1. <<>> \o <<>> = <<>>
      BY CatEmpty
    <3>2. <<>> \o B = B
      BY <2>1, CatEmpty
    <3> QED BY <3>1, <3>2
  <2>6. w.ops = B
    BY <1>7, <2>2, <2>5
  <2> QED BY <1>7, <2>4, <2>6
<1> QED BY <1>2, <1>4, <1>5, <1>6, <1>7

-----------------------------------------------------------------------------
(* What a reader finds                                                       *)

\* The contents the flash holds are those a recovery ends with and those PEI reads.
LEMMA HoldsAvailable ==
  ASSUME shared = FALSE, NEW x, Holds(flash, x)
  PROVE  /\ Available = x
         /\ (IF PeiReadsSpare THEN SpareContents ELSE TargetContents) = x
<1>0. /\ "matching" # None /\ StoreA(x).fv = "matching" /\ StoreA(x).v = x /\ StoreB(x).v = x
      /\ Erased.h = None
  BY DEF StoreA, StoreB, Erased, None
<1>1. ASSUME NEW u, Waiting(flash, x, u)
      PROVE  /\ Available = x
             /\ (IF PeiReadsSpare THEN SpareContents ELSE TargetContents) = x
  <2>1. SpareContents = x
    BY <1>0, <1>1 DEF SpareContents, Contents, Waiting
  <2>2. IsValidWorkSpace(flash["W"]) /\ flash["W"].u = u /\ Pending(u)
    BY <1>1 DEF Waiting, Space, IsValidWorkSpace
  <2>3. ~WalkFailed(u)
    <3>1. PICK p : Shape(u, p)
      BY <1>1 DEF Waiting
    <3>2. ~NeedsReclaim(u)
      BY <2>2, <3>1, RefreshedFacts
    <3> QED BY <3>2 DEF NeedsReclaim
  <2>4. PeiReadsSpare
    BY <2>2, <2>3 DEF PeiReadsSpare
  <2> QED BY <2>1, <2>2, <2>4 DEF Available
<1>2. ASSUME NEW h, NEW u, Quiet(flash, x, h, u)
      PROVE  /\ Available = x
             /\ (IF PeiReadsSpare THEN SpareContents ELSE TargetContents) = x
  <2>1. TargetContents = x
    BY <1>0, <1>2 DEF TargetContents, Contents, Quiet
  <2>2. flash["W"].h = h /\ flash["W"].u = u /\ flash["SW"].h = None
    BY <1>0, <1>2 DEF Quiet, Space
  <2>3. ~PeiReadsSpare
    <3>1. CASE h = "valid"
      <4>1. ~Pending(u)
        BY <1>2, <3>1 DEF Quiet
      <4> QED BY <2>2, <3>1, <4>1 DEF PeiReadsSpare, IsValidWorkSpace
    <3>2. CASE h # "valid"
      BY <2>2, <3>2 DEF PeiReadsSpare, IsValidWorkSpace
    <3> QED BY <3>1, <3>2
  <2>4. Available = TargetContents
    <3>1. CASE h = "valid"
      <4>1. ~Pending(u)
        BY <1>2, <3>1 DEF Quiet
      <4> QED BY <2>2, <3>1, <4>1 DEF Available, IsValidWorkSpace
    <3>2. CASE h # "valid"
      BY <2>2, <3>2 DEF Available, IsValidWorkSpace
    <3> QED BY <3>1, <3>2
  <2> QED BY <2>1, <2>3, <2>4
<1> QED BY <1>1, <1>2 DEF Holds

\* A flash that holds contents has a queue of a known shape; with a valid work space it is
\* sound.
LEMMA HoldsFacts ==
  ASSUME NEW F, NEW x, Holds(F, x)
  PROVE  /\ F \in Flash /\ x \in Values
         /\ \E p : Shape(F["W"].u, p)
         /\ F["W"].h = "valid" => Sound(F, x, F["W"].u)
         /\ F["W"].h # "valid" => Quiet(F, x, F["W"].h, F["W"].u)
<1>1. ASSUME NEW u, Waiting(F, x, u)
      PROVE  /\ F \in Flash /\ x \in Values
             /\ \E p : Shape(F["W"].u, p)
             /\ F["W"].h = "valid" /\ Sound(F, x, F["W"].u)
  <2>1. F["W"].h = "valid" /\ F["W"].u = u
    BY <1>1 DEF Waiting, Space
  <2>2. Sound(F, x, F["W"].u)
    BY <1>1, <2>1 DEF Sound
  <2> QED BY <1>1, <2>1, <2>2 DEF Waiting
<1>2. ASSUME NEW h, NEW u, Quiet(F, x, h, u)
      PROVE  /\ F \in Flash /\ x \in Values
             /\ \E p : Shape(F["W"].u, p)
             /\ F["W"].h = "valid" => Sound(F, x, F["W"].u)
             /\ F["W"].h # "valid" => Quiet(F, x, F["W"].h, F["W"].u)
  <2>1. F["W"].h = h /\ F["W"].u = u
    BY <1>2 DEF Quiet, Space
  <2>2. F["W"].h = "valid" => Sound(F, x, F["W"].u)
    BY <1>2, <2>1 DEF Sound
  <2>3. Quiet(F, x, F["W"].h, F["W"].u)
    BY <1>2, <2>1
  <2> QED BY <1>2, <2>1, <2>2, <2>3 DEF Quiet
<1> QED BY <1>1, <1>2 DEF Holds

-----------------------------------------------------------------------------
(* The recovery                                                              *)

\* A queue that needs no reclaim settles without one.
LEMMA SettleForm ==
  ASSUME flash["W"].h = "valid", NEW u, u = flash["W"].u, NEW p, Shape(u, p), ~NeedsReclaim(u),
         InitSettle
  PROVE  IF Unspared(u, p) \/ Written(u, p)
         THEN Init1("settle", FtwAbort(u).ops \o <<>>, "restart")
         ELSE Init1("settle", <<>> \o <<>>, "restart") /\ (Free(u, p) \/ Spared(u, p))
<1>1. /\ FtwGetLastWriteHeader(u) = p /\ FtwGetLastWriteRecord(u, p) = p + 1
      /\ Unit(u, p) = u[p] /\ Unit(u, p + 1) = u[p + 1]
      /\ 2 \notin Bits(u, p)
      /\ (0 \in Bits(u, p)) <=> Open(u, p)
      /\ Open(u, p) => u[p].n = 1
      /\ Free(u, p) => u[p] = NoUnit /\ u[p + 1] = NoUnit /\ Bits(u, p) = {}
      /\ (1 \in Bits(u, p + 1)) <=> Spared(u, p) \/ Written(u, p)
      /\ (2 \in Bits(u, p + 1)) <=> Written(u, p)
      /\ p < WsSize /\ p \in 1..WsSize /\ p + 1 \in 1..WsSize
      /\ Free(u, p) \/ Open(u, p)
  BY ReadFacts
<1>2. IsFirstRecordOfWrites(p, p + 1)
  BY DEF IsFirstRecordOfWrites
<1>3. Open(u, p) => IsLastRecordOfWrites(u, p, p + 1)
  BY <1>1 DEF IsLastRecordOfWrites
<1>4. u \in Queues /\ \A i \in 1..WsSize : i > p + 1 => u[i] = NoUnit
  BY DEF Shape
<1>a. NoUnit.b = {} /\ Bits(u, p) = u[p].b
  BY QueueFacts DEF NoUnit
<1>5. CASE Free(u, p)
  <2>1. ~Open(u, p) /\ ~Written(u, p) /\ ~Unspared(u, p)
    BY <1>5, Stages
  <2>2. \A i \in 1..WsSize : i >= p => u[i] = NoUnit
    BY <1>1, <1>4, <1>5
  <2>3. u[p].b = {}
    BY <1>1, <1>5, <1>a
  <2>4. Init1("settle", <<>> \o <<>>, "restart")
    BY <1>1, <2>1, <2>2, <2>3 DEF InitSettle
  <2> QED BY <1>5, <2>1, <2>4
<1>6. CASE Spared(u, p)
  <2>1. Open(u, p) /\ ~Written(u, p) /\ ~Unspared(u, p)
    BY <1>6, Stages
  <2>2. \A i \in 1..WsSize : i >= p + 1 + u[p].n => u[i] = NoUnit
    BY <1>1, <1>4, <2>1
  <2>3. u[p].b # {}
    BY <1>1, <1>a, <2>1
  <2>4. Init1("settle", <<>> \o <<>>, "restart")
    BY <1>1, <1>6, <2>1, <2>2, <2>3 DEF InitSettle
  <2> QED BY <1>6, <2>1, <2>4
<1>7. CASE Unspared(u, p) \/ Written(u, p)
  <2>1. Open(u, p) /\ ~Spared(u, p)
    BY <1>7, Stages
  <2> DEFINE v == [u EXCEPT ![p].b = @ \union {WRITES_COMPLETED}]
  <2>2. v[p].b # {} /\ v[p].n = 1
    <3>1. u[p] \in Units
      BY <1>1, <1>4 DEF Queues
    <3>2. v[p].b = u[p].b \union {2} /\ v[p].n = u[p].n
      BY <1>1, <1>4, <3>1 DEF Queues, Units
    <3> QED BY <1>1, <2>1, <3>2
  <2>3. \A i \in 1..WsSize : i >= p + 1 + v[p].n => v[i] = NoUnit
    <3>1. \A i \in 1..WsSize : i # p => v[i] = u[i]
      BY <1>4 DEF Queues
    <3> HIDE DEF v
    <3> QED BY <1>1, <1>4, <2>2, <3>1
  <2>4. CASE Unspared(u, p)
    <3>1. /\ 0 \in Bits(u, p) /\ 1 \notin Bits(u, p + 1)
      BY <1>1, <2>4, Stages
    <3> QED BY <1>1, <1>2, <2>2, <2>3, <2>4, <3>1 DEF InitSettle
  <2>5. CASE Written(u, p)
    <3>1. 2 \in Bits(u, p + 1)
      BY <1>1, <2>5
    <3> QED BY <1>1, <1>3, <2>1, <2>2, <2>3, <2>5, <3>1 DEF InitSettle
  <2> QED BY <1>7, <2>4, <2>5
<1> QED BY <1>1, <1>5, <1>6, <1>7, Stages, RefreshedFacts

-----------------------------------------------------------------------------
(* The invariant                                                             *)

\* A boot after PEI has read the store.
BootSteps ==
  {"fvb", "refresh", "check", "flushed", "reread", "settle", "restart", "restarted"}

\* The queue (u, k) when the step at is reached, in a boot or after a call none of whose
\* operations failed.
QueueAt(u, k, at, call, errs) ==
  /\ at \in {"check", "settle"} => ~NeedsReclaim(u)
  /\ at \in {"flushed", "reread"} => u = NoUnits
  /\ at = "restart" => Free(u, k) \/ Full(u, k) \/ Spared(u, k)
  /\ at = "restarted" => Free(u, k) \/ Full(u, k)
  /\ at \in {"idle", "busy"} /\ (call = None \/ errs = 0) => ~Spared(u, k) /\ ~Written(u, k)

\* The flash F is one that the step at may start from; y, if any, is in the store.
Stage(F, at, call, errs, y) ==
  \E x, k : /\ Holds(F, x) /\ Shape(F["W"].u, k)
            /\ at \in {"flushed", "reread", "settle", "restart", "restarted", "idle", "busy"}
                 => F["W"].h = "valid"
            /\ QueueAt(F["W"].u, k, at, call, errs)
            /\ y # None => x = y

\* The flash when the operations of the step before at are done.
Ends(at, call, errs, y) == {F \in Flash : Stage(F, at, call, errs, y)}

\* The contents a running FtwWrite will report as stored.
Promise == IF req # None /\ ret[3] = "SUCCESS" THEN req ELSE None

\* Types of what is not the flash.
Typed ==
  /\ pc \in BootSteps \union {"pei", "idle", "busy"} /\ out \in {"none", "ok", "failed"}
  /\ calls \in 0..MaxCalls /\ crashes \in 0..MaxCrashes /\ errors \in 0..MaxErrors
  /\ seen \in Values \union {None}
  /\ \E a, n, st : ret = <<a, n, st>>
  /\ pc = "busy" => ret[1] # None
  /\ req # None => pc = "busy" /\ req \in Values

\* Whatever happened, a recovery finds contents, those PEI has seen.
Known == \E x \in Values : Holds(flash, x) /\ (pc \in BootSteps => seen = x)

\* What is to be done is safe and leads to where the next step expects to be.
Doing ==
  /\ pc \in {"pei", "fvb"} => todo = <<>>
  /\ Safe(flash, todo, req, Ends(pc, ret[1], errors, Promise), pc)

\* The inductive invariant of variable storage.
NvInv == shared = FALSE /\ Typed /\ Known /\ Doing

\* A sound flash with a queue as the next step expects it is where the step may end.
LEMMA InEnds ==
  ASSUME NEW G, NEW x, NEW v, Sound(G, x, v), NEW k, Shape(v, k),
         NEW at, NEW call, NEW errs, NEW y, QueueAt(v, k, at, call, errs), y # None => x = y
  PROVE  G \in Ends(at, call, errs, y)
<1>1. G \in Flash /\ G["W"].u = v /\ G["W"].h = "valid" /\ Holds(G, x)
  BY SoundFacts
<1>2. Stage(G, at, call, errs, y)
  BY <1>1 DEF Stage
<1> QED BY <1>1, <1>2 DEF Ends

\* With nothing left to be done the flash is where the step before has led.
LEMMA AtRest ==
  ASSUME NvInv, todo = <<>>
  PROVE  \E x, k : /\ Holds(flash, x) /\ Shape(flash["W"].u, k)
                   /\ pc \in {"flushed", "reread", "settle", "restart", "restarted", "idle", "busy"}
                        => flash["W"].h = "valid" /\ Sound(flash, x, flash["W"].u)
                   /\ QueueAt(flash["W"].u, k, pc, ret[1], errors)
                   /\ Promise # None => x = Promise
<1>1. flash \in Ends(pc, ret[1], errors, Promise)
  <2>1. Safe(flash, todo, req, Ends(pc, ret[1], errors, Promise), pc)
    BY DEF NvInv, Doing
  <2>2. Safe(flash, <<>>, req, Ends(pc, ret[1], errors, Promise), pc)
    BY <2>1
  <2> QED BY <2>2, SafeEnd
<1>2. Stage(flash, pc, ret[1], errors, Promise)
  BY <1>1 DEF Ends
<1>3. PICK x, k : /\ Holds(flash, x) /\ Shape(flash["W"].u, k)
                  /\ pc \in {"flushed", "reread", "settle", "restart", "restarted", "idle", "busy"}
                       => flash["W"].h = "valid"
                  /\ QueueAt(flash["W"].u, k, pc, ret[1], errors)
                  /\ Promise # None => x = Promise
  BY <1>2 DEF Stage
<1> QED BY <1>3, HoldsFacts

\* No contents are None, erased or torn.
LEMMA NoneFacts == None \notin Values /\ Blank \notin Values /\ Torn \notin Values
BY ValuesAssumption

\* A step of the recovery.
LEMMA BootStep ==
  ASSUME NvInv, NEW from \in BootSteps, NEW ops, NEW to \in BootSteps \union {"idle"}, to # "fvb",
         Init1(from, ops, to),
         Safe(flash, ops, None, Ends(to, ret[1], errors, None), to)
  PROVE  NvInv'
<1>1. /\ pc = from /\ todo' = ops /\ pc' = to /\ seen' = (IF to = "idle" THEN None ELSE seen)
      /\ flash' = flash /\ shared' = shared /\ ret' = ret /\ req' = req /\ out' = out
      /\ calls' = calls /\ crashes' = crashes /\ errors' = errors
  BY DEF Init1, bounds
<1>2. pc # "busy" /\ pc' # "busy" /\ pc' \notin {"pei", "fvb"}
  BY <1>1 DEF BootSteps
<1>3. req = None
  BY <1>2 DEF NvInv, Typed
<1>4. Typed'
  BY <1>1, <1>2, <1>3 DEF NvInv, Typed
<1>5. Known'
  BY <1>1 DEF NvInv, Known, BootSteps
<1>6. Doing'
  <2>1. Promise' = None
    BY <1>1, <1>3 DEF Promise
  <2>2. Safe(flash', todo', req', Ends(pc', ret'[1], errors', Promise'), pc')
    BY <1>1, <1>3, <2>1
  <2> QED BY <1>2, <2>2 DEF Doing
<1> QED BY <1>1, <1>4, <1>5, <1>6 DEF NvInv

\* InitRefresh: the queue is reclaimed when it is full.
LEMMA RefreshStep ==
  ASSUME NvInv, InitRefresh
  PROVE  NvInv'
<1> DEFINE u == flash["W"].u
           E == Ends("check", ret[1], errors, None)
<1>1. pc = "refresh" /\ todo = <<>> /\ shared = FALSE
  BY DEF InitRefresh, Init1, NvInv
<1>2. PICK x, k : Holds(flash, x) /\ Shape(u, k)
  BY <1>1, AtRest
<1>3. Safe(flash, WorkSpaceRefresh(u), None, E, "check")
  <2>1. CASE NeedsReclaim(u)
    <3>1. ~Pending(u)
      BY <1>2, <2>1, RefreshedFacts
    <3>2. Quiet(flash, x, flash["W"].h, u)
      BY <1>2, <3>1, HoldsFacts, SoundFacts
    <3>3. flash["W"].h \in {None, "fresh", "valid", "invalid"}
      BY <3>2 DEF Quiet, Flash, Cells, Cell
    <3>4. ASSUME NEW G, Quiet(G, x, "valid", NoUnits) PROVE Safe(G, <<>>, None, E, "check")
      <4>1. Sound(G, x, NoUnits)
        BY <3>4 DEF Sound
      <4>2. QueueAt(NoUnits, 1, "check", ret[1], errors)
        BY NoUnitsFacts DEF QueueAt
      <4>3. G \in E
        BY <4>1, <4>2, NoUnitsFacts, InEnds
      <4> QED BY <4>3, SafeEmpty
    <3>5. <<>> \in Seq(Ops)
      OBVIOUS
    <3> HIDE DEF u, E
    <3>6. /\ WorkSpaceRefresh(u) \in Seq(Ops)
          /\ Safe(flash, WorkSpaceRefresh(u) \o <<>>, None, E, "check")
      BY <1>1, <1>2, <2>1, <3>2, <3>3, <3>4, <3>5, RefreshSafe
    <3>7. WorkSpaceRefresh(u) \o <<>> = WorkSpaceRefresh(u)
      BY <3>6, CatEmpty
    <3> QED BY <3>6, <3>7
  <2>2. CASE ~NeedsReclaim(u)
    <3>1. WorkSpaceRefresh(u) = <<>>
      BY <1>2, <2>2, RefreshedFacts
    <3>2. QueueAt(u, k, "check", ret[1], errors)
      BY <2>2 DEF QueueAt
    <3>3. flash \in Flash
      BY <1>2, HoldsFacts
    <3>4. flash \in E
      BY <1>2, <3>2, <3>3 DEF Ends, Stage
    <3> QED BY <3>1, <3>4, SafeEmpty
  <2> QED BY <2>1, <2>2
<1>4. Init1("refresh", WorkSpaceRefresh(u), "check")
  BY DEF InitRefresh
<1>5. "refresh" \in BootSteps /\ "check" \in BootSteps \union {"idle"}
  BY DEF BootSteps
<1> HIDE DEF u, E
<1> QED BY <1>3, <1>4, <1>5, BootStep DEF E

\* InitCheck: a work space that is not valid is taken from the spare area, or made anew.
LEMMA CheckStep ==
  ASSUME NvInv, InitCheck
  PROVE  NvInv'
<1> DEFINE u == flash["W"].u
           call == ret[1]
<1>1. pc = "check" /\ todo = <<>> /\ shared = FALSE
  BY DEF InitCheck, Init1, NvInv
<1>2. PICK x, k : Holds(flash, x) /\ Shape(u, k) /\ ~NeedsReclaim(u)
  BY <1>1, AtRest DEF QueueAt
<1>3. /\ "check" \in BootSteps /\ "settle" \in BootSteps \union {"idle"}
      /\ "flushed" \in BootSteps \union {"idle"}
  BY DEF BootSteps
<1>4. CASE flash["W"].h = "valid"
  <2>1. Init1("check", <<>>, "settle")
    BY <1>4 DEF InitCheck, IsValidWorkSpace
  <2>2. flash \in Ends("settle", call, errors, None)
    <3>1. Sound(flash, x, u)
      BY <1>2, <1>4, HoldsFacts
    <3>2. QueueAt(u, k, "settle", call, errors)
      BY <1>2 DEF QueueAt
    <3> HIDE DEF u, call
    <3> QED BY <1>2, <3>1, <3>2, InEnds
  <2>3. Safe(flash, <<>>, None, Ends("settle", call, errors, None), "settle")
    BY <2>2, SafeEmpty
  <2> QED BY <1>3, <2>1, <2>3, BootStep
<1>5. CASE flash["W"].h # "valid"
  <2>1. Quiet(flash, x, flash["W"].h, u)
    BY <1>2, <1>5, HoldsFacts
  <2>2. flash["W"].h \in {None, "fresh", "valid", "invalid"} /\ flash["SA"] \in SpareCell
    BY <2>1 DEF Quiet, Flash, Cells, Cell
  <2>3. WorkSpaceInSpare = "SA"
    BY <1>1 DEF WorkSpaceInSpare
  <2>4. <<>> \in Seq(Ops)
    OBVIOUS
  <2>5. ASSUME NEW G, Quiet(G, x, "valid", NoUnits), NEW at \in {"settle", "flushed"}
        PROVE  Safe(G, <<>>, None, Ends(at, call, errors, None), at)
    <3>1. Sound(G, x, NoUnits)
      BY <2>5 DEF Sound
    <3>2. QueueAt(NoUnits, 1, at, call, errors)
      BY <2>5, NoUnitsFacts DEF QueueAt
    <3>3. G \in Ends(at, call, errors, None)
      BY <3>1, <3>2, NoUnitsFacts, InEnds
    <3> QED BY <3>3, SafeEmpty
  <2>6. CASE flash["SA"].h = "valid"
    <3>1. flash["SA"] = Space("valid", NoUnits)
      <4>1. flash["SA"] \in Cell /\ flash["SA"].u = NoUnits /\ flash["SA"].fv = None
            /\ flash["SA"].v = Blank
        BY <2>2, <2>6 DEF SpareCell, None
      <4>2. flash["SA"] = [fv |-> flash["SA"].fv, v |-> flash["SA"].v, h |-> flash["SA"].h,
                           u |-> flash["SA"].u]
        BY <4>1 DEF Cell
      <4> QED BY <2>6, <4>1, <4>2 DEF Space
    <3> DEFINE E == Ends("flushed", call, errors, None)
               a == FlushSpareBlockToWorkingBlock
    <3>2. Init1("check", a, "flushed")
      BY <1>5, <2>3, <2>6 DEF InitCheck, IsValidWorkSpace
    <3>3. a \in Seq(Ops) /\ a \o <<>>
            = <<SetValid("SA")>> \o (<<SetInvalid("W")>> \o (<<Erase("W")>>
                   \o (<<Copy("W", "SA")>> \o (<<SetValid("W")>> \o <<>>))))
      BY <1>1, <2>4, FlushList
    <3>4. \A G : Quiet(G, x, "valid", NoUnits) => Safe(G, <<>>, None, E, "flushed")
      BY <2>5
    <3> HIDE DEF u, E, a
    <3>5. Safe(flash, <<SetValid("SA")>> \o (<<SetInvalid("W")>> \o (<<Erase("W")>>
                   \o (<<Copy("W", "SA")>> \o (<<SetValid("W")>> \o <<>>)))), None, E, "flushed")
      BY <2>1, <2>2, <2>4, <3>1, <3>4, FlushSafe
    <3>6. a \o <<>> = a
      BY <3>3, CatEmpty
    <3>7. Safe(flash, a, None, E, "flushed")
      BY <3>3, <3>5, <3>6
    <3> QED BY <1>3, <3>2, <3>7, BootStep DEF E
  <2>7. CASE flash["SA"].h # "valid"
    <3> DEFINE E == Ends("settle", call, errors, None)
               a == FtwReclaimWorkSpace(NoUnits, TRUE)
    <3>1. Init1("check", a, "settle")
      BY <1>5, <2>3, <2>7 DEF InitCheck, IsValidWorkSpace
    <3>2. \A G : Quiet(G, x, "valid", NoUnits) => Safe(G, <<>>, None, E, "settle")
      BY <2>5
    <3> HIDE DEF u, E
    <3>3. a \in Seq(Ops) /\ Safe(flash, a \o <<>>, None, E, "settle")
      BY <1>1, <2>1, <2>2, <2>4, <3>2, ReclaimSafe
    <3> HIDE DEF a
    <3>4. a \o <<>> = a
      BY <3>3, CatEmpty
    <3>5. Safe(flash, a, None, E, "settle")
      BY <3>3, <3>4
    <3> QED BY <1>3, <3>1, <3>5, BootStep DEF E
  <2> QED BY <2>6, <2>7
<1> QED BY <1>4, <1>5

\* InitFlushed: a work space from the spare area holds no write to abort.
LEMMA FlushedStep ==
  ASSUME NvInv, InitFlushed
  PROVE  NvInv'
<1>1. pc = "flushed" /\ todo = <<>> /\ shared = FALSE
  BY DEF InitFlushed, Init1, NvInv
<1>2. PICK x, k : Holds(flash, x) /\ flash["W"].u = NoUnits /\ flash["W"].h = "valid"
  BY <1>1, AtRest DEF QueueAt
<1>3. FtwAbort(NoUnits).ops = <<>>
  <2>1. /\ FtwGetLastWriteHeader(NoUnits) = 1 /\ Bits(NoUnits, 1) = NoUnits[1].b
        /\ Refreshed(NoUnits) = NoUnits /\ WorkSpaceRefresh(NoUnits) = <<>>
    BY NoUnitsFacts, QueueFacts, RefreshedFacts
  <2>2. 0 \notin NoUnits[1].b
    BY NoUnitsFacts DEF Free, NoUnit
  <2> QED BY <2>1, <2>2 DEF FtwAbort, Result
<1>4. Init1("flushed", <<>>, "reread")
  BY <1>2, <1>3 DEF InitFlushed
<1>5. "flushed" \in BootSteps /\ "reread" \in BootSteps \union {"idle"}
  BY DEF BootSteps
<1>6. flash \in Ends("reread", ret[1], errors, None)
  BY <1>2, HoldsFacts, NoUnitsFacts DEF Ends, Stage, QueueAt
<1>7. Safe(flash, <<>>, None, Ends("reread", ret[1], errors, None), "reread")
  BY <1>6, SafeEmpty
<1> QED BY <1>4, <1>5, <1>7, BootStep

\* InitReread: an empty queue needs no reclaim.
LEMMA RereadStep ==
  ASSUME NvInv, InitReread
  PROVE  NvInv'
<1>1. pc = "reread" /\ todo = <<>> /\ shared = FALSE
  BY DEF InitReread, Init1, NvInv
<1>2. PICK x, k : Holds(flash, x) /\ flash["W"].u = NoUnits /\ flash["W"].h = "valid"
  BY <1>1, AtRest DEF QueueAt
<1>3. WorkSpaceRefresh(NoUnits) = <<>>
  BY NoUnitsFacts, RefreshedFacts
<1>4. Init1("reread", <<>>, "settle")
  BY <1>2, <1>3 DEF InitReread
<1>5. "reread" \in BootSteps /\ "settle" \in BootSteps \union {"idle"}
  BY DEF BootSteps
<1>6. flash \in Ends("settle", ret[1], errors, None)
  BY <1>2, HoldsFacts, NoUnitsFacts DEF Ends, Stage, QueueAt
<1>7. Safe(flash, <<>>, None, Ends("settle", ret[1], errors, None), "settle")
  BY <1>6, SafeEmpty
<1> QED BY <1>4, <1>5, <1>7, BootStep

\* InitSettle: a write that cannot be restarted, or is done, is aborted.
LEMMA SettleStep ==
  ASSUME NvInv, InitSettle
  PROVE  NvInv'
<1> DEFINE u == flash["W"].u
           E == Ends("restart", ret[1], errors, None)
<1>1. pc = "settle" /\ todo = <<>> /\ shared = FALSE
  BY DEF InitSettle, Init1, NvInv
<1>2. PICK x, p : /\ Shape(u, p) /\ ~NeedsReclaim(u)
                  /\ flash["W"].h = "valid" /\ Sound(flash, x, u)
  BY <1>1, AtRest DEF QueueAt
<1>3. "settle" \in BootSteps /\ "restart" \in BootSteps \union {"idle"}
  BY DEF BootSteps
<1>s. IF Unspared(u, p) \/ Written(u, p)
      THEN Init1("settle", FtwAbort(u).ops \o <<>>, "restart")
      ELSE Init1("settle", <<>> \o <<>>, "restart") /\ (Free(u, p) \/ Spared(u, p))
  BY <1>2, SettleForm
<1>e. ASSUME NEW G, NEW v, NEW k, Sound(G, x, v), Shape(v, k),
             Free(v, k) \/ Full(v, k) \/ Spared(v, k)
      PROVE  G \in E
  <2>1. QueueAt(v, k, "restart", ret[1], errors)
    BY <1>e DEF QueueAt
  <2> QED BY <1>e, <2>1, InEnds
<1>4. CASE Unspared(u, p) \/ Written(u, p)
  <2>1. Open(u, p) /\ ~Spared(u, p)
    BY <1>2, <1>4, Stages
  <2>2. Quiet(flash, x, "valid", u)
    BY <1>2, <2>1, QueueFacts, SoundFacts
  <2> DEFINE o == FtwUpdateFvState("W", p, 2)
  <2>3. FtwAbort(u).ops = Append(<<>>, o)
    <3>1. 0 \in Bits(u, p) /\ 2 \notin Bits(u, p) /\ FtwGetLastWriteHeader(u) = p
      BY <1>2, <2>1, ReadFacts
    <3>2. Refreshed(u) = u /\ WorkSpaceRefresh(u) = <<>>
      BY <1>2, RefreshedFacts
    <3> QED BY <3>1, <3>2 DEF FtwAbort, Result
  <2>4. o \in Ops
    BY <1>2, QueueFacts, OpTypes, WsSizeAssumption DEF Cells
  <2>5. ASSUME NEW G, NEW v, NEW k, Quiet(G, x, "valid", v), Shape(v, k), Free(v, k) \/ Full(v, k)
        PROVE  Safe(G, <<>>, None, E, "restart")
    <3>1. Sound(G, x, v)
      BY <2>5 DEF Sound
    <3>2. G \in E
      BY <1>e, <2>5, <3>1
    <3> QED BY <3>2, SafeEmpty
  <2>6. <<>> \in Seq(Ops)
    OBVIOUS
  <2> HIDE DEF E, u
  <2>7. Safe(flash, <<o>> \o <<>>, None, E, "restart")
    BY <1>2, <2>1, <2>2, <2>5, <2>6, CompleteSafe
  <2> HIDE DEF o
  <2>8. <<o>> \o <<>> = <<o>> /\ Append(<<>>, o) = <<o>> /\ <<o>> \in Seq(Ops)
    BY <2>4, CatEmpty
  <2>9. Init1("settle", <<o>> \o <<>>, "restart")
    BY <1>4, <1>s, <2>3, <2>8
  <2> QED BY <1>3, <2>7, <2>9, BootStep DEF E
<1>5. CASE ~(Unspared(u, p) \/ Written(u, p))
  <2>1. Free(u, p) \/ Spared(u, p)
    BY <1>5, <1>s
  <2>2. flash \in E
    BY <1>2, <1>e, <2>1
  <2>3. <<>> \o <<>> = <<>>
    BY CatEmpty
  <2>4. Init1("settle", <<>>, "restart")
    BY <1>5, <1>s, <2>3
  <2>5. Safe(flash, <<>>, None, E, "restart")
    BY <2>2, SafeEmpty
  <2> HIDE DEF E, u
  <2> QED BY <1>3, <2>4, <2>5, BootStep DEF E
<1> QED BY <1>4, <1>5

\* InitRestart: a write that waits is finished.
LEMMA RestartStep ==
  ASSUME NvInv, InitRestart
  PROVE  NvInv'
<1> DEFINE u == flash["W"].u
<1>1. pc = "restart" /\ todo = <<>> /\ shared = FALSE
  BY DEF InitRestart, Init1, NvInv
<1>2. PICK x, p : /\ Shape(u, p) /\ (Free(u, p) \/ Full(u, p) \/ Spared(u, p))
                  /\ flash["W"].h = "valid" /\ Sound(flash, x, u)
  BY <1>1, AtRest DEF QueueAt
<1>3. "restart" \in BootSteps /\ {"restarted", "idle"} \subseteq BootSteps \union {"idle"}
  BY DEF BootSteps
<1>4. CASE Spared(u, p)
  <2>1. Pending(u)
    BY <1>2, <1>4, QueueFacts
  <2>2. Waiting(flash, x, u) /\ ~NeedsReclaim(u)
    BY <1>2, <2>1, SoundFacts, RefreshedFacts
  <2>3. /\ FtwGetLastWriteHeader(u) = p /\ FtwGetLastWriteRecord(u, p) = p + 1
        /\ 2 \notin Bits(u, p) /\ 1 \in Bits(u, p + 1) /\ 0 \notin Bits(u, p + 1)
    BY <1>2, <1>4, <2>2, ReadFacts
  <2>4. Init1("restart", FtwRestart(u).ops, "restarted")
    BY <1>1, <2>3 DEF InitRestart
  <2> DEFINE E == Ends("restarted", ret[1], errors, None)
  <2>5. Settles(E, x)
    <3> SUFFICES ASSUME NEW G, NEW v, NEW k, Quiet(G, x, "valid", v), Shape(v, k),
                        Free(v, k) \/ Full(v, k)
                 PROVE  G \in E
      BY DEF Settles
    <3>1. Sound(G, x, v) /\ QueueAt(v, k, "restarted", ret[1], errors)
      BY DEF Sound, QueueAt
    <3> QED BY <3>1, InEnds
  <2> HIDE DEF u, E
  <2>6. Safe(flash, FtwRestart(u).ops, None, E, "restarted")
    BY <1>1, <1>2, <2>2, <2>5, RestartWaiting
  <2> QED BY <1>3, <2>4, <2>6, BootStep DEF E
<1>5. CASE Free(u, p) \/ Full(u, p)
  <2>1. ~Spared(u, p) /\ ~Written(u, p)
    BY <1>2, <1>5, Stages
  <2>2. 2 \in Bits(u, p) \/ 1 \notin Bits(u, FtwGetLastWriteRecord(u, p))
    <3>1. CASE Full(u, p)
      BY <1>2, <3>1, QueueFacts DEF Full
    <3>2. CASE Free(u, p) /\ p < WsSize
      <4>1. ~Full(u, p) /\ p # WsSize
        BY <1>2, <3>2, Stages, WsSizeAssumption
      <4>2. ~NeedsReclaim(u)
        BY <1>2, <4>1, QueueFacts
      <4> QED BY <1>2, <2>1, <4>2, ReadFacts
    <3>3. CASE Free(u, p) /\ ~(p < WsSize)
      <4>1. ~Full(u, p)
        BY <1>2, <3>3, Stages
      <4>2. FtwGetLastWriteRecord(u, p) = p
        BY <1>2, <3>3, <4>1, LastRecord
      <4>3. 1 \notin Bits(u, p)
        BY <1>2, <3>3, QueueFacts DEF Free, NoUnit
      <4> QED BY <4>2, <4>3
    <3> QED BY <1>5, <3>1, <3>2, <3>3
  <2>3. FtwGetLastWriteHeader(u) = p
    BY <1>2, QueueFacts
  <2>4. Init1("restart", <<>>, "idle")
    BY <1>1, <2>2, <2>3 DEF InitRestart
  <2>5. QueueAt(u, p, "idle", ret[1], errors)
    BY <2>1 DEF QueueAt
  <2>6. flash \in Ends("idle", ret[1], errors, None)
    <3> HIDE DEF u
    <3> QED BY <1>2, <2>5, InEnds
  <2>7. Safe(flash, <<>>, None, Ends("idle", ret[1], errors, None), "idle")
    BY <2>6, SafeEmpty
  <2> QED BY <1>3, <2>4, <2>7, BootStep
<1> QED BY <1>2, <1>4, <1>5

\* InitRestarted: nothing is left to abort.
LEMMA RestartedStep ==
  ASSUME NvInv, InitRestarted
  PROVE  NvInv'
<1> DEFINE u == flash["W"].u
           E == Ends("idle", ret[1], errors, None)
<1>1. pc = "restarted" /\ todo = <<>> /\ shared = FALSE
  BY DEF InitRestarted, Init1, NvInv
<1>2. PICK x, p : /\ Shape(u, p) /\ (Free(u, p) \/ Full(u, p))
                  /\ flash["W"].h = "valid" /\ Sound(flash, x, u)
  BY <1>1, AtRest DEF QueueAt
<1>3. ~Spared(u, p) /\ ~Written(u, p) /\ ~Pending(u)
  BY <1>2, Stages, QueueFacts
<1>4. Keeps(E, x, u, p)
  <2> SUFFICES ASSUME NEW G, NEW v, NEW k, Sound(G, x, v), Shape(v, k), ~Spared(v, k),
                      ~Written(v, k)
               PROVE  G \in E
    BY <1>3 DEF Keeps
  <2>1. QueueAt(v, k, "idle", ret[1], errors)
    BY DEF QueueAt
  <2> QED BY <2>1, InEnds
<1>5. "restarted" \in BootSteps /\ "idle" \in BootSteps \union {"idle"}
  BY DEF BootSteps
<1>6. Init1("restarted", FtwAbort(u).ops, "idle")
  BY DEF InitRestarted
<1> HIDE DEF u, E
<1>7. Safe(flash, FtwAbort(u).ops, None, E, "idle")
  BY <1>1, <1>2, <1>3, <1>4, AbortSafe
<1> QED BY <1>5, <1>6, <1>7, BootStep DEF E

\* PeiGetVariableStore: PEI reads the contents a recovery ends with.
LEMMA PeiStep ==
  ASSUME NvInv, PeiGetVariableStore
  PROVE  NvInv'
<1>1. /\ pc = "pei" /\ pc' = "fvb" /\ flash' = flash /\ todo' = todo /\ shared' = shared
      /\ ret' = ret /\ req' = req /\ out' = out
      /\ calls' = calls /\ crashes' = crashes /\ errors' = errors
      /\ seen' = IF PeiReadsSpare THEN SpareContents ELSE TargetContents
  BY DEF PeiGetVariableStore, bounds
<1>2. shared = FALSE /\ todo = <<>> /\ req = None
  BY <1>1 DEF NvInv, Doing, Typed
<1>3. PICK x, k : Holds(flash, x) /\ Shape(flash["W"].u, k)
  BY <1>2, AtRest
<1>4. x \in Values /\ flash \in Flash /\ seen' = x
  BY <1>1, <1>2, <1>3, HoldsAvailable, HoldsFacts
<1>5. Typed'
  BY <1>1, <1>2, <1>4 DEF NvInv, Typed, BootSteps
<1>6. Known'
  BY <1>1, <1>3, <1>4 DEF Known
<1>7. Doing'
  <2>1. Promise' = None
    BY <1>1, <1>2 DEF Promise
  <2>2. QueueAt(flash["W"].u, k, "fvb", ret[1], errors)
    BY DEF QueueAt
  <2>3. flash \in Ends("fvb", ret[1], errors, None)
    BY <1>3, <1>4, <2>2 DEF Ends, Stage
  <2>4. Safe(flash, <<>>, None, Ends("fvb", ret[1], errors, None), "fvb")
    BY <2>3, SafeEmpty
  <2>5. Safe(flash', todo', req', Ends(pc', ret'[1], errors', Promise'), pc')
    BY <1>1, <1>2, <2>1, <2>4
  <2> QED BY <1>1, <1>2, <2>5 DEF Doing
<1> QED BY <1>1, <1>2, <1>5, <1>6, <1>7 DEF NvInv

\* FvbInitialize: the header is repaired only when the contents wait in the spare area.
LEMMA FvbStep ==
  ASSUME NvInv, FvbInitialize
  PROVE  NvInv'
<1> DEFINE a == flash["A"]
           repaired == [a EXCEPT !.fv = "rewritten", !.v = IF @ = Blank THEN Blank ELSE Torn]
           E == Ends("refresh", ret[1], errors, None)
<1>1. /\ pc = "fvb" /\ pc' = "refresh" /\ flash' = flash
      /\ ret' = ret /\ req' = req /\ out' = out /\ seen' = seen
      /\ calls' = calls /\ crashes' = crashes /\ errors' = errors
  BY DEF FvbInitialize, bounds
<1>2. shared = FALSE /\ todo = <<>> /\ req = None
  BY <1>1 DEF NvInv, Doing, Typed
<1>3. PICK x, k : Holds(flash, x) /\ Shape(flash["W"].u, k)
  BY <1>2, AtRest
<1>4. x \in Values /\ flash \in Flash /\ a \in Cell
  BY <1>3, HoldsFacts DEF Flash, Cells
<1>5. Typed'
  BY <1>1, <1>2, <1>4 DEF NvInv, Typed, BootSteps
<1>6. Known'
  BY <1>1 DEF NvInv, Known, BootSteps
<1>7. shared' = FALSE
  <2>1. a.fv \in {None, "matching", "rewritten"}
    BY <1>4 DEF Cell
  <2>2. \A fv : FindFvbForFtw(fv) \in BOOLEAN
    BY DEF FindFvbForFtw
  <2>3. FindFvbForFtw("matching") = FALSE /\ FindFvbForFtw("rewritten") = FALSE
    BY <2>2, HeaderAssumption
  <2>4. CASE IsFvHeaderValid(a.fv)
    <3>1. a.fv # None
      BY <2>4, HeaderAssumption
    <3>2. shared' = FindFvbForFtw(a.fv)
      BY <2>4 DEF FvbInitialize
    <3> QED BY <2>1, <2>3, <3>1, <3>2
  <2>5. CASE ~IsFvHeaderValid(a.fv)
    <3>1. shared' = FindFvbForFtw("rewritten")
      BY <2>5 DEF FvbInitialize
    <3> QED BY <2>3, <3>1
  <2> QED BY <2>4, <2>5
<1>8. \A G : (\E y, j : Holds(G, y) /\ Shape(G["W"].u, j)) => G \in E
  <2> SUFFICES ASSUME NEW G, NEW y, NEW j, Holds(G, y), Shape(G["W"].u, j)
               PROVE  G \in E
    OBVIOUS
  <2>1. QueueAt(G["W"].u, j, "refresh", ret[1], errors) /\ G \in Flash
    BY HoldsFacts DEF QueueAt
  <2> QED BY <2>1 DEF Ends, Stage
<1>9. Safe(flash, todo', None, E, "refresh")
  <2>1. CASE IsFvHeaderValid(a.fv)
    <3>1. todo' = <<>>
      BY <2>1 DEF FvbInitialize
    <3>2. flash \in E
      BY <1>3, <1>8
    <3> HIDE DEF E
    <3> QED BY <3>1, <3>2, SafeEmpty
  <2>2. CASE ~IsFvHeaderValid(a.fv)
    <3> DEFINE o1 == Put("A", [repaired EXCEPT !.fv = None])
               o2 == Put("A", repaired)
    <3>1. todo' = <<o1, o2>>
      BY <2>2 DEF FvbInitialize
    <3>2. ~\E h, u : Quiet(flash, x, h, u)
      <4>1. a.fv # "matching"
        BY <2>2, HeaderAssumption
      <4> QED BY <4>1 DEF Quiet, StoreA
    <3>3. PICK u : Waiting(flash, x, u)
      BY <1>3, <3>2 DEF Holds
    <3>4. repaired \in Cell /\ [repaired EXCEPT !.fv = None] \in Cell
      BY <1>4 DEF Cell
    <3> HIDE DEF repaired
    <3>5. /\ o1 \in Ops /\ o1.c = "A" /\ o1.k \in BlockOps
          /\ o2 \in Ops /\ o2.c = "A" /\ o2.k \in BlockOps
      BY <3>4, OpTypes DEF Put, Cells, BlockOps
    <3>6. \A G : Effect(G, o1) \in Cell /\ Effect(G, o2) \in Cell
      <4>1. ASSUME NEW G, NEW b PROVE Effect(G, Put("A", b)) = b
        BY DEF Effect, Put
      <4> QED BY <3>4, <4>1
    <3> HIDE DEF o1, o2
    <3>7. ASSUME NEW G, Waiting(G, x, u) PROVE G \in E
      <4>1. Holds(G, x)
        BY <3>7 DEF Holds
      <4> QED BY <1>8, <4>1, HoldsFacts
    <3> HIDE DEF E
    <3>8. ASSUME NEW G, Waiting(G, x, u) PROVE Safe(G, <<o2>> \o <<>>, None, E, "refresh")
      <4>1. Waiting(After(G, o2), x, u) => Safe(After(G, o2), <<>>, None, E, "refresh")
        BY <3>7, SafeEmpty
      <4>2. <<>> \in Seq(Ops)
        OBVIOUS
      <4> QED BY <3>5, <3>6, <3>8, <4>1, <4>2, TargetSafe
    <3>9. <<o2>> \o <<>> \in Seq(Ops) /\ <<o2>> \o <<>> = <<o2>>
      BY <3>5, CatEmpty
    <3>10. Safe(flash, <<o1>> \o <<o2>>, None, E, "refresh")
      <4>1. Waiting(After(flash, o1), x, u) => Safe(After(flash, o1), <<o2>>, None, E, "refresh")
        BY <3>8, <3>9
      <4>2. <<o2>> \in Seq(Ops)
        BY <3>9
      <4> QED BY <3>3, <3>5, <3>6, <4>1, <4>2, TargetSafe
    <3> QED BY <3>1, <3>5, <3>10, Pair
  <2> QED BY <2>1, <2>2
<1>10. Doing'
  <2>1. Promise' = None
    BY <1>1, <1>2 DEF Promise
  <2> HIDE DEF E
  <2>2. Safe(flash', todo', req', E, pc')
    BY <1>1, <1>2, <1>9
  <2>3. E = Ends(pc', ret'[1], errors', Promise')
    BY <1>1, <2>1 DEF E
  <2> QED BY <1>1, <2>2, <2>3 DEF Doing
<1> QED BY <1>5, <1>6, <1>7, <1>10 DEF NvInv

-----------------------------------------------------------------------------
(* Calls                                                                     *)

\* A call at rest: its operations are safe and end where the service may return.
LEMMA CallStep ==
  ASSUME NvInv, NEW svc, svc # None, NEW arg, NEW result, NEW v \in Values \union {None},
         Call(svc, arg, result, v),
         Safe(flash, result.ops, v,
              Ends("busy", svc, errors, IF v # None /\ result.st = "SUCCESS" THEN v ELSE None),
              "busy")
  PROVE  NvInv'
<1>1. /\ pc = "idle" /\ todo = <<>> /\ calls < MaxCalls /\ calls' = calls + 1
      /\ pc' = "busy" /\ todo' = result.ops /\ ret' = <<svc, arg, result.st>> /\ req' = v
      /\ flash' = flash /\ shared' = shared /\ seen' = seen /\ out' = out
      /\ crashes' = crashes /\ errors' = errors
  BY DEF Call
<1>2. ret'[1] = svc /\ ret'[3] = result.st /\ pc' \notin BootSteps \union {"pei"}
  BY <1>1 DEF BootSteps
<1>3. Typed'
  <2>1. calls' \in 0..MaxCalls
    BY <1>1, BoundAssumption DEF NvInv, Typed
  <2>2. \E a, n, st : ret' = <<a, n, st>>
    BY <1>1
  <2> QED BY <1>1, <1>2, <2>1, <2>2 DEF NvInv, Typed
<1>4. Known'
  BY <1>1, <1>2 DEF NvInv, Known
<1>5. Promise' = IF v # None /\ result.st = "SUCCESS" THEN v ELSE None
  BY <1>1, <1>2 DEF Promise
<1>6. Doing'
  BY <1>1, <1>2, <1>5 DEF Doing, BootSteps
<1> QED BY <1>1, <1>3, <1>4, <1>6 DEF NvInv

\* At rest, outside the boot.
LEMMA AtIdle ==
  ASSUME NvInv, pc = "idle", todo = <<>>
  PROVE  \E x, k : /\ Shape(flash["W"].u, k) /\ Sound(flash, x, flash["W"].u)
                   /\ QueueAt(flash["W"].u, k, "idle", ret[1], errors)
BY AtRest

\* Where a service that keeps the contents, or settles a write, may return.
LEMMA ServiceEnds ==
  ASSUME NEW svc, NEW call, NEW errs, NEW x, NEW u, NEW p, Shape(u, p),
         QueueAt(u, p, "idle", call, errs), svc # None
  PROVE  Keeps(Ends("busy", svc, errs, None), x, u, p)
<1> SUFFICES ASSUME NEW G, NEW v, NEW k, Sound(G, x, v), Shape(v, k),
                    Spared(v, k) => Spared(u, p), Written(v, k) => Written(u, p)
             PROVE  G \in Ends("busy", svc, errs, None)
  BY DEF Keeps
<1>1. errs = 0 => ~Spared(u, p) /\ ~Written(u, p)
  BY DEF QueueAt
<1>2. QueueAt(v, k, "busy", svc, errs)
  BY <1>1 DEF QueueAt
<1> QED BY <1>2, InEnds

\* A write that succeeds ends with no write under way.
LEMMA ServiceSettles ==
  ASSUME NEW svc, NEW errs, NEW y
  PROVE  Settles(Ends("busy", svc, errs, y), y)
<1> SUFFICES ASSUME NEW G, NEW v, NEW k, Quiet(G, y, "valid", v), Shape(v, k),
                    Free(v, k) \/ Full(v, k)
             PROVE  G \in Ends("busy", svc, errs, y)
  BY DEF Settles
<1>1. Sound(G, y, v) /\ ~Spared(v, k) /\ ~Written(v, k)
  BY Stages DEF Sound
<1>2. QueueAt(v, k, "busy", svc, errs)
  BY <1>1 DEF QueueAt
<1> QED BY <1>1, <1>2, InEnds

\* The services other than FtwWrite.
LEMMA ServiceStep ==
  ASSUME NvInv, Requests \subseteq {1}, Allocate \/ Restart \/ Abort \/ GetLastWrite
  PROVE  NvInv'
<1> DEFINE u == flash["W"].u
<1>1. pc = "idle" /\ todo = <<>> /\ shared = FALSE
  BY DEF Allocate, Restart, Abort, GetLastWrite, Call, NvInv
<1>2. PICK x, p : Shape(u, p) /\ Sound(flash, x, u) /\ QueueAt(u, p, "idle", ret[1], errors)
  BY <1>1, AtIdle
<1> DEFINE E(svc) == Ends("busy", svc, errors, None)
<1>3. \A svc : svc # None => Keeps(E(svc), x, u, p)
  BY <1>2, ServiceEnds
<1>4. /\ None # "allocate" /\ None # "restart" /\ None # "abort" /\ None # "last"
  BY DEF None
<1>5. \A svc, result : E(svc) = Ends("busy", svc, errors,
                              IF None # None /\ result.st = "SUCCESS" THEN None ELSE None)
  OBVIOUS
<1> HIDE DEF E
<1>6. ASSUME NEW svc, svc # None, NEW arg, NEW result, Call(svc, arg, result, None),
             Safe(flash, result.ops, None, E(svc), "busy")
      PROVE  NvInv'
  BY <1>5, <1>6, CallStep
<1>7. CASE Allocate
  <2>1. PICK n \in Requests : Call("allocate", n, FtwAllocate(u, n), None)
    BY <1>7 DEF Allocate
  <2>2. n = 1
    OBVIOUS
  <2> HIDE DEF u
  <2>3. Safe(flash, FtwAllocate(u, 1).ops, None, E("allocate"), "busy")
    BY <1>1, <1>2, <1>3, <1>4, AllocateServiceSafe
  <2> QED BY <1>4, <1>6, <2>1, <2>2, <2>3
<1>8. CASE Restart
  <2>1. Call("restart", 0, FtwRestart(u), None)
    BY <1>8 DEF Restart
  <2> HIDE DEF u
  <2>2. Safe(flash, FtwRestart(u).ops, None, E("restart"), "busy")
    BY <1>1, <1>2, <1>3, <1>4, RestartSafe
  <2> QED BY <1>4, <1>6, <2>1, <2>2
<1>9. CASE Abort
  <2>1. Call("abort", 0, FtwAbort(u), None) /\ ~Pending(u)
    BY <1>9 DEF Abort
  <2> HIDE DEF u
  <2>2. Safe(flash, FtwAbort(u).ops, None, E("abort"), "busy")
    BY <1>1, <1>2, <1>3, <1>4, <2>1, AbortSafe
  <2> QED BY <1>4, <1>6, <2>1, <2>2
<1>10. CASE GetLastWrite
  <2>1. Call("last", 0, FtwGetLastWrite(u), None)
    BY <1>10 DEF GetLastWrite
  <2> HIDE DEF u
  <2>2. Safe(flash, FtwGetLastWrite(u).ops, None, E("last"), "busy")
    BY <1>1, <1>2, <1>3, <1>4, LastWriteSafe
  <2> QED BY <1>4, <1>6, <2>1, <2>2
<1> QED BY <1>7, <1>8, <1>9, <1>10

\* FtwWrite.
LEMMA WriteStep ==
  ASSUME NvInv, Write
  PROVE  NvInv'
<1> DEFINE u == flash["W"].u
<1>1. PICK y \in Values, private \in BOOLEAN : Call("write", 0, FtwWrite(u, y, private), y)
  BY DEF Write
<1>2. pc = "idle" /\ todo = <<>> /\ shared = FALSE
  BY <1>1 DEF Call, NvInv
<1>3. PICK x, p : Shape(u, p) /\ Sound(flash, x, u) /\ QueueAt(u, p, "idle", ret[1], errors)
  BY <1>2, AtIdle
<1>4. "write" # None /\ y # None
  BY NoneFacts DEF None
<1> DEFINE w == FtwWrite(u, y, private)
           E == Ends("busy", "write", errors, IF y # None /\ w.st = "SUCCESS" THEN y ELSE None)
<1>5. w.st = "SUCCESS" => Settles(E, y)
  <2> HAVE w.st = "SUCCESS"
  <2>1. E = Ends("busy", "write", errors, y)
    BY <1>4
  <2> QED BY <2>1, ServiceSettles
<1>6. w.st # "SUCCESS" => Keeps(E, x, u, p)
  <2> HAVE w.st # "SUCCESS"
  <2>1. E = Ends("busy", "write", errors, None)
    OBVIOUS
  <2> QED BY <1>3, <1>4, <2>1, ServiceEnds
<1> HIDE DEF u, E
<1>7. Safe(flash, w.ops, y, E, "busy")
  BY <1>2, <1>3, <1>5, <1>6, WriteSafe
<1> HIDE DEF w
<1>8. Call("write", 0, w, y)
  BY <1>1 DEF w
<1> QED BY <1>4, <1>7, <1>8, CallStep DEF E

\* A service returns.
LEMMA ReturnStep ==
  ASSUME NvInv, Return
  PROVE  NvInv'
<1>1. /\ pc = "busy" /\ todo = <<>> /\ pc' = "idle" /\ req' = None
      /\ out' = (IF req = None THEN out ELSE IF ret[3] = "SUCCESS" THEN "ok" ELSE "failed")
      /\ flash' = flash /\ todo' = todo /\ shared' = shared /\ seen' = seen /\ ret' = ret
      /\ calls' = calls /\ crashes' = crashes /\ errors' = errors
  BY DEF Return, bounds
<1>2. pc' \notin BootSteps \union {"pei", "busy"}
  BY <1>1 DEF BootSteps
<1>3. Typed'
  BY <1>1, <1>2 DEF NvInv, Typed
<1>4. Known'
  BY <1>1, <1>2 DEF NvInv, Known
<1>5. Doing'
  <2>1. PICK x, k : /\ Shape(flash["W"].u, k) /\ Sound(flash, x, flash["W"].u)
                    /\ QueueAt(flash["W"].u, k, "busy", ret[1], errors)
    BY <1>1, AtRest
  <2>2. QueueAt(flash["W"].u, k, "idle", ret[1], errors)
    BY <2>1 DEF QueueAt
  <2>3. flash \in Ends("idle", ret[1], errors, None)
    BY <2>1, <2>2, InEnds
  <2>4. Safe(flash, <<>>, None, Ends("idle", ret[1], errors, None), "idle")
    BY <2>3, SafeEmpty
  <2>5. Promise' = None
    BY <1>1 DEF Promise
  <2>6. Safe(flash', todo', req', Ends(pc', ret'[1], errors', Promise'), pc')
    BY <1>1, <2>4, <2>5
  <2> QED BY <1>2, <2>6 DEF Doing, BootSteps
<1> QED BY <1>1, <1>3, <1>4, <1>5 DEF NvInv

-----------------------------------------------------------------------------
(* The flash part                                                            *)

\* The first operation to be done, wherever it is cut short, leaves the contents or those
\* requested.
LEMMA HeadAllowed ==
  ASSUME NvInv, todo # <<>>
  PROVE  /\ Allowed(flash, todo, req, pc) /\ todo \in Seq(Ops) /\ Head(todo).c \in Cells
         /\ pc \notin {"pei", "fvb"}
         /\ Holds(flash, Available) /\ Available \in Values
         /\ pc \in BootSteps => seen = Available
         /\ \A b \in Leaves(flash, Head(todo)) :
              \/ Holds([flash EXCEPT ![Head(todo).c] = b], Available)
              \/ req \in Values /\ Holds([flash EXCEPT ![Head(todo).c] = b], req)
<1>1. Allowed(flash, todo, req, pc) /\ pc \notin {"pei", "fvb"} /\ shared = FALSE
  BY SafeStep DEF NvInv, Doing
<1>2. todo \in Seq(Ops)
  BY <1>1 DEF Allowed
<1>3. Head(todo) \in Ops
  BY <1>2, HeadTailProperties
<1>4. PICK x \in Values : Holds(flash, x) /\ (pc \in BootSteps => seen = x)
  BY DEF NvInv, Known
<1>5. PICK y \in Values :
        /\ Holds(flash, y)
        /\ \A b \in Leaves(flash, Head(todo)) :
             \/ Holds([flash EXCEPT ![Head(todo).c] = b], y)
             \/ req \in Values /\ Holds([flash EXCEPT ![Head(todo).c] = b], req)
  BY <1>1 DEF Allowed
<1>6. x = Available /\ y = Available
  BY <1>1, <1>4, <1>5, HoldsAvailable
<1> QED BY <1>1, <1>2, <1>3, <1>4, <1>5, <1>6, OpCell

\* An operation is done.
LEMMA FlashStepStep ==
  ASSUME NvInv, FlashStep
  PROVE  NvInv'
<1> DEFINE o == Head(todo)
<1>1. /\ todo # <<>> /\ flash' = After(flash, o) /\ todo' = Tail(todo)
      /\ shared' = shared /\ pc' = pc /\ seen' = seen /\ ret' = ret /\ req' = req /\ out' = out
      /\ calls' = calls /\ crashes' = crashes /\ errors' = errors
  BY DEF FlashStep, After, bounds
<1>2. Typed'
  BY <1>1 DEF NvInv, Typed
<1>3. Known'
  <2>1. Effect(flash, o) \in Leaves(flash, o)
    BY DEF Leaves
  <2>2. \/ Holds(flash', Available)
        \/ req \in Values /\ Holds(flash', req)
    BY <1>1, <2>1, HeadAllowed DEF After
  <2>3. CASE Holds(flash', Available)
    BY <1>1, <2>3, HeadAllowed DEF Known
  <2>4. CASE req \in Values /\ Holds(flash', req)
    <3>1. pc = "busy"
      BY <2>4, NoneFacts DEF NvInv, Typed
    <3> QED BY <1>1, <2>4, <3>1 DEF Known, BootSteps
  <2> QED BY <2>2, <2>3, <2>4
<1>4. Doing'
  <2>1. Promise' = Promise
    BY <1>1 DEF Promise
  <2>2. Safe(flash', todo', req', Ends(pc', ret'[1], errors', Promise'), pc')
    BY <1>1, <2>1, SafeStep DEF NvInv, Doing
  <2>3. pc \notin {"pei", "fvb"}
    BY <1>1, HeadAllowed
  <2> QED BY <1>1, <2>2, <2>3 DEF Doing
<1> QED BY <1>1, <1>2, <1>3, <1>4 DEF NvInv

\* A reset, between two operations or inside one.
LEMMA CrashStep ==
  ASSUME NvInv, Crash
  PROVE  NvInv'
<1>1. /\ crashes < MaxCrashes /\ crashes' = crashes + 1
      /\ todo' = <<>> /\ pc' = "pei" /\ req' = None /\ seen' = None
      /\ out' = (IF req = None THEN out ELSE "failed")
      /\ ret' = <<None, 0, None>> /\ shared' = shared /\ calls' = calls /\ errors' = errors
  BY DEF Crash, Unanswered
<1>2. \E x \in Values : Holds(flash', x)
  <2>1. CASE todo = <<>>
    <3>1. flash' = flash
      BY <2>1 DEF Crash
    <3> QED BY <3>1 DEF NvInv, Known
  <2>2. CASE todo # <<>>
    <3>1. PICK b \in Partial(flash, Head(todo)) : flash' = [flash EXCEPT ![Head(todo).c] = b]
      BY <2>2 DEF Crash, Interrupted
    <3>2. b \in Leaves(flash, Head(todo))
      BY <3>1 DEF Leaves
    <3> QED BY <2>2, <3>1, <3>2, HeadAllowed
  <2> QED BY <2>1, <2>2
<1>3. Typed'
  <2>1. crashes' \in 0..MaxCrashes
    BY <1>1, BoundAssumption DEF NvInv, Typed
  <2>2. \E a, n, st : ret' = <<a, n, st>>
    BY <1>1
  <2> QED BY <1>1, <2>1, <2>2 DEF NvInv, Typed
<1>4. Known'
  BY <1>1, <1>2 DEF Known, BootSteps
<1>5. Doing'
  <2>1. Promise' = None
    BY <1>1 DEF Promise
  <2>2. PICK x : Holds(flash', x)
    BY <1>2
  <2>3. flash' \in Ends("pei", ret'[1], errors', None)
    <3>1. PICK k : Shape(flash'["W"].u, k) /\ flash' \in Flash
      BY <2>2, HoldsFacts
    <3>2. QueueAt(flash'["W"].u, k, "pei", ret'[1], errors')
      BY DEF QueueAt
    <3> QED BY <2>2, <3>1, <3>2 DEF Ends, Stage
  <2>4. Safe(flash', <<>>, None, Ends("pei", ret'[1], errors', None), "pei")
    BY <2>3, SafeEmpty
  <2> QED BY <1>1, <2>1, <2>4 DEF Doing
<1> QED BY <1>1, <1>3, <1>4, <1>5 DEF NvInv

\* An operation of a service fails: the work space stays valid.
LEMMA ErrorStep ==
  ASSUME NvInv, Error
  PROVE  NvInv'
<1> DEFINE o == Head(todo)
<1>1. /\ pc = "busy" /\ todo # <<>> /\ flash["W"].h = "valid"
      /\ \A i \in DOMAIN todo : todo[i] # Erase("W")
      /\ errors < MaxErrors /\ errors' = errors + 1
      /\ todo' = <<>> /\ pc' = "idle" /\ req' = None
      /\ out' = (IF req = None THEN out ELSE "failed")
      /\ ret' = [ret EXCEPT ![3] = "ABORTED"]
      /\ shared' = shared /\ seen' = seen /\ calls' = calls /\ crashes' = crashes
  BY DEF Error, Unanswered, IsValidWorkSpace
<1>2. PICK b \in Partial(flash, o) : flash' = [flash EXCEPT ![o.c] = b]
  BY DEF Error, Interrupted
<1>3. PICK x \in Values : Holds(flash', x)
  <2>1. b \in Leaves(flash, o)
    BY <1>2 DEF Leaves
  <2> QED BY <1>1, <1>2, <2>1, HeadAllowed
<1>4. flash'["W"].h = "valid"
  <2>0. flash \in Flash /\ o.c \in Cells
    BY <1>1, HeadAllowed, HoldsFacts
  <2>1. CASE o.c # "W"
    BY <1>1, <1>2, <2>0, <2>1 DEF Flash, Cells
  <2>2. CASE o.c = "W"
    <3>1. o.k \in {"bit", "unit"}
      BY <1>1, <2>2, HeadAllowed DEF Allowed
    <3>2. b \in {flash["W"], Effect(flash, o)}
      BY <1>2, <2>2, <3>1, PartialBytes
    <3>3. flash'["W"] = b
      BY <1>2, <2>0, <2>2 DEF Flash, Cells
    <3>4. flash["W"] \in Cell
      BY <2>0 DEF Flash, Cells
    <3>5. Effect(flash, o).h = "valid"
      <4>1. CASE o.k = "bit"
        BY <1>1, <2>2, <3>4, <4>1 DEF Effect, Cell
      <4>2. CASE o.k = "unit"
        BY <1>1, <2>2, <3>4, <4>2 DEF Effect, Cell
      <4> QED BY <3>1, <4>1, <4>2
    <3> QED BY <1>1, <3>2, <3>3, <3>5
  <2> QED BY <2>1, <2>2
<1>5. ret'[1] # None /\ \E a, n, st : ret' = <<a, n, st>>
  <2>1. PICK a, n, st : ret = <<a, n, st>>
    BY DEF NvInv, Typed
  <2>2. ret' = <<a, n, "ABORTED">>
    BY <1>1, <2>1
  <2> QED BY <1>1, <2>1, <2>2 DEF NvInv, Typed
<1>6. errors' \in 0..MaxErrors /\ errors' # 0
  BY <1>1, BoundAssumption DEF NvInv, Typed
<1>7. Typed'
  BY <1>1, <1>5, <1>6 DEF NvInv, Typed, BootSteps
<1>8. Known'
  BY <1>1, <1>3 DEF Known, BootSteps
<1>9. Doing'
  <2>1. Promise' = None
    BY <1>1 DEF Promise
  <2>2. flash' \in Ends("idle", ret'[1], errors', None)
    <3>1. PICK k : Shape(flash'["W"].u, k) /\ flash' \in Flash
      BY <1>3, HoldsFacts
    <3>2. QueueAt(flash'["W"].u, k, "idle", ret'[1], errors')
      BY <1>5, <1>6 DEF QueueAt
    <3> QED BY <1>3, <1>4, <3>1, <3>2 DEF Ends, Stage
  <2>3. Safe(flash', <<>>, None, Ends("idle", ret'[1], errors', None), "idle")
    BY <2>2, SafeEmpty
  <2> QED BY <1>1, <2>1, <2>3 DEF Doing, BootSteps
<1> QED BY <1>1, <1>7, <1>8, <1>9 DEF NvInv

-----------------------------------------------------------------------------
(* The theorems                                                              *)

\* What the theorems assume of the configuration: the flash image has a volume header with
\* the geometry GetFvbInfo writes and a right checksum (with the shipped one the property
\* fails, see NvShipped.cfg), and a header is allocated for one record, as FtwVariableSpace
\* does.
Supported == FdHeader = "matching" /\ Requests \subseteq {1}

\* The flash image: an erased work space header with its valid bit, an empty queue.
LEMMA InitHolds ==
  ASSUME Supported, Init
  PROVE  NvInv
<1>1. PICK v \in Values :
        /\ flash = [c \in {"A", "B", "W", "SA", "SB", "SW"} |->
                      CASE c = "A" -> [Erased EXCEPT !.fv = FdHeader, !.v = v]
                        [] c = "B" -> [Erased EXCEPT !.v = v]
                        [] c = "W" -> [Erased EXCEPT !.h = "valid"]
                        [] OTHER   -> Erased]
        /\ seen = v
  BY DEF Init
<1>2. /\ todo = <<>> /\ shared = FindFvbForFtw("matching") /\ pc = "pei"
      /\ ret = <<None, 0, None>> /\ req = None /\ out = "none"
      /\ calls = 0 /\ crashes = 0 /\ errors = 0
  BY DEF Init, Supported
<1>3. shared = FALSE
  <2>1. FindFvbForFtw("matching") \in BOOLEAN
    BY DEF FindFvbForFtw
  <2> QED BY <1>2, <2>1, HeaderAssumption
<1>4. Quiet(flash, v, "valid", NoUnits)
  <2>a. [Erased EXCEPT !.fv = "matching", !.v = v] = StoreA(v)
    <3>1. [Erased EXCEPT !.fv = "matching"]
            = [fv |-> "matching", v |-> Blank, h |-> None, u |-> NoUnits]
      BY DEF Erased
    <3>2. [[fv |-> "matching", v |-> Blank, h |-> None, u |-> NoUnits] EXCEPT !.v = v] = StoreA(v)
      BY DEF StoreA
    <3> QED BY <3>1, <3>2
  <2>b. [Erased EXCEPT !.v = v] = StoreB(v)
    BY DEF Erased, StoreB
  <2>c. [Erased EXCEPT !.h = "valid"] = Space("valid", NoUnits)
    BY DEF Erased, Space
  <2>1. /\ [Erased EXCEPT !.fv = "matching", !.v = v] = StoreA(v)
        /\ [Erased EXCEPT !.v = v] = StoreB(v)
        /\ [Erased EXCEPT !.h = "valid"] = Space("valid", NoUnits)
    BY <2>a, <2>b, <2>c
  <2>2. /\ flash["A"] = StoreA(v) /\ flash["B"] = StoreB(v) /\ flash["W"] = Space("valid", NoUnits)
        /\ flash["SA"] = Erased /\ flash["SB"] = Erased /\ flash["SW"] = Erased
        /\ flash = [c \in Cells |-> flash[c]]
    BY <1>1, <2>1 DEF Cells, Supported
  <2>3. NoUnits \in Queues
    BY NoUnitsShape
  <2>4. flash \in Flash
    BY <2>2, <2>3, CellTypes DEF Flash, Cells
  <2> QED BY <2>2, <2>4, NoUnitsFacts, SpareTypes DEF Quiet
<1>5. Holds(flash, v) /\ flash["W"].u = NoUnits /\ flash \in Flash
  <2>1. Sound(flash, v, NoUnits)
    BY <1>4 DEF Sound
  <2> QED BY <2>1, SoundFacts
<1>6. Typed
  BY <1>1, <1>2, BoundAssumption DEF Typed
<1>7. Known
  BY <1>2, <1>5 DEF Known, BootSteps
<1>8. Doing
  <2>1. Promise = None
    BY <1>2 DEF Promise
  <2>2. QueueAt(NoUnits, 1, "pei", ret[1], errors)
    BY DEF QueueAt
  <2>3. flash \in Ends("pei", ret[1], errors, None)
    BY <1>5, <2>2, NoUnitsFacts DEF Ends, Stage
  <2>4. Safe(flash, <<>>, None, Ends("pei", ret[1], errors, None), "pei")
    BY <2>3, SafeEmpty
  <2> QED BY <1>2, <2>1, <2>4 DEF Doing
<1> QED BY <1>3, <1>6, <1>7, <1>8 DEF NvInv

\* Nothing the invariant speaks of changes when no variable does.
LEMMA Stutter ==
  ASSUME NvInv, UNCHANGED vars
  PROVE  NvInv'
<1>1. /\ flash' = flash /\ todo' = todo /\ shared' = shared /\ pc' = pc /\ ret' = ret
      /\ req' = req /\ out' = out /\ calls' = calls /\ crashes' = crashes /\ errors' = errors
      /\ seen' = seen
  BY DEF vars, ftwVars
<1>2. Promise' = Promise
  BY <1>1 DEF Promise
<1>3. Typed' /\ Known'
  BY <1>1 DEF NvInv, Typed, Known
<1>4. Doing'
  BY <1>1, <1>2 DEF NvInv, Doing
<1> QED BY <1>1, <1>3, <1>4 DEF NvInv

\* Every step of the boot, of a service, of the flash part and every reset keeps the
\* invariant.
LEMMA Inductive ==
  ASSUME Supported, NvInv, [Next]_vars
  PROVE  NvInv'
<1>0. Requests \subseteq {1}
  BY DEF Supported
<1>1. CASE Boot
  <2>1. CASE PeiGetVariableStore
    BY <2>1, PeiStep
  <2>2. CASE FvbInitialize
    BY <2>2, FvbStep
  <2>3. CASE InitRefresh
    BY <2>3, RefreshStep
  <2>4. CASE InitCheck
    BY <2>4, CheckStep
  <2>5. CASE InitFlushed
    BY <2>5, FlushedStep
  <2>9. CASE InitReread
    BY <2>9, RereadStep
  <2>6. CASE InitSettle
    BY <2>6, SettleStep
  <2>7. CASE InitRestart
    BY <2>7, RestartStep
  <2>8. CASE InitRestarted
    BY <2>8, RestartedStep
  <2> QED BY <1>1, <2>1, <2>2, <2>3, <2>4, <2>5, <2>6, <2>7, <2>8, <2>9
     DEF Boot
<1>2. CASE FlashStep
  BY <1>2, FlashStepStep
<1>3. CASE Return
  BY <1>3, ReturnStep
<1>4. CASE Write
  BY <1>4, WriteStep
<1>5. CASE Allocate \/ Restart \/ Abort \/ GetLastWrite
  BY <1>0, <1>5, ServiceStep
<1>6. CASE Crash
  BY <1>6, CrashStep
<1>7. CASE Error
  BY <1>7, ErrorStep
<1>8. CASE UNCHANGED vars
  BY <1>8, Stutter
<1> QED BY <1>1, <1>2, <1>3, <1>4, <1>5, <1>6, <1>7, <1>8 DEF Next

\* At every moment, whatever operation a reset has cut short, the flash holds contents of
\* the store in a form the recovery of InitFtwProtocol ends with, and what a service or the
\* recovery has still to do to the flash keeps it so.
THEOREM NvSound ==
  ASSUME Supported
  PROVE  Spec => []NvInv
<1>1. Init => NvInv
  BY InitHolds
<1>2. NvInv /\ [Next]_vars => NvInv'
  BY Inductive
<1> QED BY <1>1, <1>2, PTL DEF Spec

\* Whole contents are there at every moment: what fails with the volume header of the
\* shipped image holds with one that has GetFvbInfo's geometry and a right checksum.
THEOREM NvWhole ==
  ASSUME Supported
  PROVE  Spec => []StoreWhole
<1>1. NvInv => StoreWhole
  BY HoldsAvailable DEF NvInv, Known, StoreWhole
<1> QED BY <1>1, NvSound, PTL

\* GetVariableStore of PEI, which decides on its own where the store is, reads the contents
\* that are there at every later step of the boot, the repair of the volume header and the
\* recovery of the fault tolerant write driver included.
THEOREM NvPeiSees ==
  ASSUME Supported
  PROVE  Spec => []PeiSeesRecovered
<1>1. NvInv => PeiSeesRecovered
  BY HoldsAvailable DEF NvInv, Known, PeiSeesRecovered, BootSteps
<1> QED BY <1>1, NvSound, PTL

\* After a boot, and after any calls none of which failed, FtwWrite does not refuse
\* FtwVariableSpace's call: no half-done write is left in the queue and a full queue is
\* reclaimed.
THEOREM NvWritable ==
  ASSUME Supported
  PROVE  Spec => []StoreWritable
<1>1. NvInv => StoreWritable
  <2> SUFFICES ASSUME NvInv, pc = "idle", todo = <<>>, ret[1] = None \/ errors = 0,
                      NEW y \in Values
               PROVE  FtwWrite(flash["W"].u, y, FALSE).st = "SUCCESS"
    BY DEF StoreWritable
  <2> DEFINE u == flash["W"].u
  <2>1. PICK x, p : Shape(u, p) /\ Sound(flash, x, u) /\ QueueAt(u, p, "idle", ret[1], errors)
    BY AtIdle
  <2>2. ~Spared(u, p) /\ ~Written(u, p)
    BY <2>1 DEF QueueAt
  <2>3. shared = FALSE
    BY DEF NvInv
  <2> DEFINE w == FtwWrite(u, y, FALSE)
             E == Ends("busy", "write", errors, IF w.st = "SUCCESS" THEN y ELSE None)
  <2>4. w.st = "SUCCESS" => Settles(E, y)
    BY ServiceSettles
  <2>5. w.st # "SUCCESS" => Keeps(E, x, u, p)
    <3>1. "write" # None
      BY DEF None
    <3> QED BY <2>1, <3>1, ServiceEnds
  <2> HIDE DEF u, E
  <2> QED BY <2>1, <2>2, <2>3, <2>4, <2>5, WriteSafe DEF u
<1> QED BY <1>1, NvSound, PTL

\* When InitFtwProtocol or a service is done, the header of the work space is valid, and
\* after a boot, or any calls none of which failed, no write waits in the spare area.
THEOREM NvRecoveryComplete ==
  ASSUME Supported
  PROVE  Spec => []RecoveryComplete
<1>1. NvInv => RecoveryComplete
  <2> SUFFICES ASSUME NvInv, pc = "idle", todo = <<>>
               PROVE  /\ IsValidWorkSpace(flash["W"])
                      /\ ret[1] = None \/ errors = 0 => ~Pending(flash["W"].u)
    BY DEF RecoveryComplete
  <2>1. flash["W"].h = "valid"
    BY AtRest
  <2>2. PICK x, p : /\ Shape(flash["W"].u, p)
                    /\ QueueAt(flash["W"].u, p, "idle", ret[1], errors)
    BY AtIdle
  <2>3. Pending(flash["W"].u) <=> Spared(flash["W"].u, p)
    BY <2>2, QueueFacts
  <2>4. ret[1] = None \/ errors = 0 => ~Spared(flash["W"].u, p)
    BY <2>2 DEF QueueAt
  <2> QED BY <2>1, <2>3, <2>4 DEF IsValidWorkSpace
<1> QED BY <1>1, NvSound, PTL

\* The driver programs flash only where it is erased, and only adds bits to a header or a
\* record; the repair of the volume header, which erases first, is the exception.
THEOREM NvFlashCanDoIt ==
  ASSUME Supported
  PROVE  Spec => []FlashCanDoIt
<1>1. NvInv => FlashCanDoIt
  <2> SUFFICES ASSUME NvInv, todo # <<>>
               PROVE  CanDo(flash, Head(todo)) \/ (pc = "refresh" /\ Head(todo).k # "unit")
    BY DEF FlashCanDoIt, CanDo
  <2> QED BY HeadAllowed DEF Allowed
<1> QED BY <1>1, NvSound, PTL

\* Every variable keeps its type: cells hold blocks, every operation names a cell.
THEOREM NvTypes ==
  ASSUME Supported
  PROVE  Spec => []TypeOK
<1>1. NvInv => TypeOK
  <2> HAVE NvInv
  <2>1. flash \in Flash
    BY HoldsFacts DEF NvInv, Known
  <2>2. ASSUME NEW c \in DOMAIN flash PROVE flash[c] \in Blocks /\ Len(flash[c].u) = WsSize
    <3>1. flash[c] \in Cell
      BY <2>1 DEF Flash
    <3>2. flash[c].u \in [1..WsSize -> Units]
      BY <3>1 DEF Cell, Queues
    <3>3. flash[c].u \in Seq(Units) /\ Len(flash[c].u) = WsSize
      BY <3>2, WsSizeAssumption
    <3>4. flash[c] \in Blocks
      BY <3>1, <3>3 DEF Cell, Blocks, Units
    <3> QED BY <3>3, <3>4
  <2>3. ASSUME NEW i \in DOMAIN todo PROVE todo[i].c \in DOMAIN flash
    <3>1. CASE todo = <<>>
      BY <3>1
    <3>2. CASE todo # <<>>
      <4>1. todo[i] \in Ops
        BY <3>2, HeadAllowed
      <4> QED BY <2>1, <4>1, OpCell DEF Flash
    <3> QED BY <3>1, <3>2
  <2>4. shared \in BOOLEAN
    BY DEF NvInv
  <2> QED BY <2>2, <2>3, <2>4 DEF NvInv, Typed, BootSteps, TypeOK
<1> QED BY <1>1, NvSound, PTL

-----------------------------------------------------------------------------
(* The refinement                                                            *)

\* A recovery finds the contents the flash holds, and no others.
Found == /\ Available \in Values /\ Holds(flash, Available)
         /\ \A x : Holds(flash, x) => x = Available

\* The invariant names the contents that are found.
LEMMA FoundHolds ==
  ASSUME NvInv
  PROVE  Found
<1>1. PICK x \in Values : Holds(flash, x)
  BY DEF NvInv, Known
<1>2. ASSUME NEW y, Holds(flash, y) PROVE y = Available
  BY <1>2, HoldsAvailable DEF NvInv
<1> QED BY <1>1, <1>2 DEF Found

\* The steps of NvStore, with what the recovery finds for its contents.
LEMMA AbstractSteps ==
  /\ Available' = Available /\ req' = req /\ out' = out => UNCHANGED Abstract!vars
  /\ req # None /\ Available' = req /\ req' = req /\ out' = out => Abstract!Next
  /\ req # None /\ Available = req /\ req' = None /\ out' = "ok" /\ Available' = Available
       => Abstract!Next
  /\ req # None /\ req' = None /\ out' = "failed" /\ Available' \in {Available, req}
       => Abstract!Next
  /\ \A v \in Values : req = None /\ req' = v /\ Available' = Available /\ out' = out
       => Abstract!Next
BY DEF Abstract!vars, Abstract!Next, Abstract!Apply, Abstract!Acknowledge, Abstract!Fail,
       Abstract!Submit

\* What an operation cut short leaves is found afterwards, or what was requested.
LEMMA CutFound ==
  ASSUME NvInv, Found, Found', todo # <<>>, NEW b \in Leaves(flash, Head(todo)),
         flash' = [flash EXCEPT ![Head(todo).c] = b]
  PROVE  Available' = Available \/ (req # None /\ Available' = req)
<1>1. \/ Holds(flash', Available)
      \/ req \in Values /\ Holds(flash', req)
  BY HeadAllowed
<1>2. \A x : Holds(flash', x) => x = Available'
  BY DEF Found
<1> QED BY <1>1, <1>2, NoneFacts

\* What is found stays while the flash does.
LEMMA SameFound ==
  ASSUME Found, Found', flash' = flash
  PROVE  Available' = Available
<1>1. \A x : Holds(flash', x) => x = Available'
  BY DEF Found
<1> QED BY <1>1 DEF Found

\* A reset or an error ends a running write.
LEMMA CutStep ==
  ASSUME NvInv, Found, Found', req' = None, out' = Unanswered,
         \/ flash' = flash
         \/ todo # <<>> /\ Interrupted(Head(todo))
  PROVE  Abstract!Next \/ UNCHANGED Abstract!vars
<1>1. Available' = Available \/ (req # None /\ Available' = req)
  <2>1. CASE flash' = flash
    BY <2>1, SameFound
  <2>2. CASE todo # <<>> /\ Interrupted(Head(todo))
    <3>1. PICK b \in Partial(flash, Head(todo)) : flash' = [flash EXCEPT ![Head(todo).c] = b]
      BY <2>2 DEF Interrupted
    <3>2. b \in Leaves(flash, Head(todo))
      BY <3>1 DEF Leaves
    <3> QED BY <2>2, <3>1, <3>2, CutFound
  <2> QED BY <2>1, <2>2
<1> QED BY <1>1, AbstractSteps DEF Unanswered

\* Every step is a step of NvStore or leaves its variables alone.
LEMMA StepRefines ==
  ASSUME NvInv, Found, Found', [Next]_vars
  PROVE  Abstract!Next \/ UNCHANGED Abstract!vars
<1>1. CASE Boot
  <2>1. flash' = flash /\ req' = req /\ out' = out
    BY <1>1 DEF Boot, PeiGetVariableStore, FvbInitialize, InitRefresh, InitCheck, InitFlushed,
                InitReread, InitSettle, InitRestart, InitRestarted, Init1
  <2> QED BY <2>1, SameFound, AbstractSteps
<1>2. CASE FlashStep
  <2>1. /\ todo # <<>> /\ req' = req /\ out' = out
        /\ flash' = [flash EXCEPT ![Head(todo).c] = Effect(flash, Head(todo))]
    BY <1>2 DEF FlashStep
  <2>2. Effect(flash, Head(todo)) \in Leaves(flash, Head(todo))
    BY DEF Leaves
  <2>3. Available' = Available \/ (req # None /\ Available' = req)
    BY <2>1, <2>2, CutFound
  <2> QED BY <2>1, <2>3, AbstractSteps
<1>3. CASE Return
  <2>1. /\ todo = <<>> /\ req' = None /\ flash' = flash
        /\ out' = IF req = None THEN out ELSE IF ret[3] = "SUCCESS" THEN "ok" ELSE "failed"
    BY <1>3 DEF Return
  <2>2. Available' = Available
    BY <2>1, SameFound
  <2>3. req # None /\ ret[3] = "SUCCESS" => Available = req
    <3> HAVE req # None /\ ret[3] = "SUCCESS"
    <3>1. Promise = req
      BY DEF Promise
    <3>2. PICK x : Holds(flash, x) /\ x = req
      BY <2>1, <3>1, AtRest
    <3> QED BY <3>2 DEF Found
  <2> QED BY <2>1, <2>2, <2>3, AbstractSteps
<1>4. CASE Write \/ Allocate \/ Restart \/ Abort \/ GetLastWrite
  <2>1. /\ pc = "idle" /\ flash' = flash /\ out' = out /\ (req' = None \/ req' \in Values)
    BY <1>4 DEF Write, Allocate, Restart, Abort, GetLastWrite, Call
  <2>2. req = None
    BY <2>1 DEF NvInv, Typed
  <2>3. Available' = Available
    BY <2>1, SameFound
  <2> QED BY <2>1, <2>2, <2>3, AbstractSteps
<1>5. CASE Crash
  <2>1. /\ req' = None /\ out' = Unanswered
        /\ flash' = flash \/ (todo # <<>> /\ Interrupted(Head(todo)))
    BY <1>5 DEF Crash
  <2> QED BY <2>1, CutStep
<1>6. CASE Error
  <2>1. req' = None /\ out' = Unanswered /\ todo # <<>> /\ Interrupted(Head(todo))
    BY <1>6 DEF Error
  <2> QED BY <2>1, CutStep
<1>7. CASE UNCHANGED vars
  <2>1. flash' = flash /\ req' = req /\ out' = out
    BY <1>7 DEF vars, ftwVars
  <2> QED BY <2>1, SameFound, AbstractSteps
<1> QED BY <1>1, <1>2, <1>3, <1>4, <1>5, <1>6, <1>7 DEF Next

\* The flash image holds contents, no write is under way.
LEMMA InitRefines ==
  ASSUME Supported, Init
  PROVE  Abstract!Init
<1>1. Found
  BY InitHolds, FoundHolds
<1>2. req = None /\ out = "none"
  BY DEF Init
<1> QED BY <1>1, <1>2 DEF Found, Abstract!Init

\* FtwWrite's promise, "ensuring at all times that either the original contents or the
\* modified contents are available", over resets at any flash operation and failing
\* operations: what the next recovery would find changes in one step, to the contents
\* written, and a write reported as done is there.
THEOREM NvRefines ==
  ASSUME Supported
  PROVE  Spec => StoreSpec
<1>1. Init => Abstract!Init
  BY InitRefines
<1>2. NvInv => Found
  BY FoundHolds
<1>3. NvInv /\ Found /\ Found' /\ [Next]_vars => [Abstract!Next]_(Abstract!vars)
  BY StepRefines
<1>4. Spec => []NvInv
  BY NvSound
<1> QED BY <1>1, <1>2, <1>3, <1>4, PTL DEF Spec, StoreSpec, Abstract!Spec
=============================================================================
