------------------------- MODULE FaultTolerantWrite -------------------------
(***************************************************************************)
(* MdeModulePkg/Universal/FaultTolerantWriteDxe: the work space kept in    *)
(* flash, its reclaim, the protocol's services and the recovery at the     *)
(* driver's start.                                                         *)
(*                                                                         *)
(* The flash is six cells.  A is the first block of the variable store     *)
(* (firmware volume header and data), B the rest of the store, W the work  *)
(* space; SA, SB and SW are the three parts of the spare area.  A cell has *)
(* the volume header fv it starts with, its data v, the state h of a work  *)
(* space header and the units u of the work space's write queue.           *)
(*                                                                         *)
(* A write header (EFI_FAULT_TOLERANT_WRITE_HEADER) and a write record are *)
(* 40 bytes each and take one unit each.  Both start with a byte of three  *)
(* state bits, so a unit read as the other kind has the same bits: b is    *)
(* the set of the bits that are set, n the NumberOfWrites of a header, 0   *)
(* for a record and -1 (all ones) for erased flash.                        *)
(*                                                                         *)
(* A service computes the whole list of its flash operations when it is    *)
(* called (todo): the driver is the only writer and reads nothing it has   *)
(* not written itself.  The operations then reach the flash one at a time, *)
(* and a reset may come between any two or in the middle of one.           *)
(***************************************************************************)
EXTENDS Integers, Sequences

CONSTANTS
  Values,       \* contents of the variable store
  WsSize,       \* units of the write queue
  Requests,     \* NumberOfWrites asked of FtwAllocate
  MaxCalls,     \* bound: service calls
  MaxCrashes,   \* bound: resets and power losses
  MaxErrors     \* bound: failing flash operations

ASSUME WsSizeAssumption == WsSize \in Nat /\ WsSize >= 2

ASSUME BoundAssumption == MaxCalls \in Nat /\ MaxCrashes \in Nat /\ MaxErrors \in Nat

VARIABLES
  flash,    \* cell -> contents
  todo,     \* flash operations the running service has still to do
  shared,   \* the work block also holds the variable store (see NvStorage)
  pc,       \* step of the boot, "idle", or "busy" inside a service
  ret,      \* <<service, argument, status>> of the last call
  req,      \* contents a running FtwWrite was asked to store, or None
  out,      \* how the last FtwWrite ended: "none", "ok" or "failed"
  calls, crashes, errors

ftwVars == <<flash, todo, shared, pc, ret, req, out, calls, crashes, errors>>

None  == "none"
Blank == "blank"     \* erased flash
Torn  == "torn"      \* neither erased nor any contents

ASSUME ValuesAssumption == Values \intersect {None, Blank, Torn} = {}

HEADER_ALLOCATED  == 0
WRITES_ALLOCATED  == 1
WRITES_COMPLETED  == 2
BOOT_BLOCK_UPDATE == 0
SPARE_COMPLETED   == 1
DEST_COMPLETED    == 2

NoUnit  == [b |-> {}, n |-> -1]
NoUnits == [i \in 1..WsSize |-> NoUnit]
Erased  == [fv |-> None, v |-> Blank, h |-> None, u |-> NoUnits]

SpareCells  == <<"SA", "SB", "SW">>
StoreCells  == <<"A", "B">>

-----------------------------------------------------------------------------
(* Flash operations: what an operation makes of the flash F                  *)

Erase(c) == [k |-> "erase", c |-> c]

FtwEraseBlock(cells) == [i \in DOMAIN cells |-> Erase(cells[i])]

FtwEraseSpareBlock == FtwEraseBlock(SpareCells)

\* Program an erased cell: with block b, with what another cell holds, with that
\* and new data v, or with a work space whose queue is u.
Put(c, b)        == [k |-> "put", c |-> c, b |-> b]
Copy(c, from)    == [k |-> "copy", c |-> c, from |-> from]
Data(c, from, v) == [k |-> "data", c |-> c, from |-> from, v |-> v]
Queue(c, u, new) == [k |-> "queue", c |-> c, u |-> u, new |-> new]

\* Program a few bytes: the state bits of a work space header, a state bit of the
\* unit at p (FtwUpdateFvState), a whole unit (WriteWorkSpaceData).
SetValid(c)        == [k |-> "valid", c |-> c]
SetInvalid(c)      == [k |-> "invalid", c |-> c]
UpdateNextBit(c, p, bit)    == [k |-> "bit", c |-> c, p |-> p, bit |-> bit + 1]
FtwUpdateFvState(c, p, bit) == [k |-> "bit", c |-> c, p |-> p, bit |-> bit]
WriteWorkSpaceData(p, unit) == [k |-> "unit", c |-> "W", p |-> p, unit |-> unit]

\* A work space flushed from the spare area gets a new header without state bits; a
\* reclaim copies the header it has read, also without state bits; setting a state
\* bit makes no header of flash that holds none; nothing is written past the end of
\* the work space.
Effect(F, o) ==
  LET old == F[o.c]
  IN  CASE o.k = "erase"   -> Erased
        [] o.k = "put"     -> o.b
        [] o.k = "copy"    -> IF o.c = "W" THEN [F[o.from] EXCEPT !.h = "fresh"] ELSE F[o.from]
        [] o.k = "data"    -> [F[o.from] EXCEPT !.v = o.v]
        [] o.k = "queue"   -> [F["W"] EXCEPT !.u = o.u,
                                 !.h = IF @ = None /\ ~o.new THEN None ELSE "fresh"]
        [] o.k = "valid"   -> [old EXCEPT !.h = IF @ = "fresh" THEN "valid" ELSE @]
        [] o.k = "invalid" -> [old EXCEPT !.h = IF @ = None THEN @ ELSE "invalid"]
        [] o.k = "bit"     -> IF o.p > WsSize THEN old
                              ELSE [old EXCEPT !.u[o.p].b = @ \union {o.bit}]
        [] o.k = "unit"    -> IF o.p > WsSize THEN old ELSE [old EXCEPT !.u[o.p] = o.unit]

IsValidWorkSpace(block) == block.h = "valid"

-----------------------------------------------------------------------------
(* The write queue                                                           *)

Unit(u, p) == IF p \in 1..WsSize THEN u[p] ELSE NoUnit

Bits(u, p) == Unit(u, p).b

\* Where each unit, read as a header, says the next one is; 0 where the walk over the
\* headers stops, at one that is not complete or at the end of the work space.
NextHeader(u) ==
  [p \in 1..WsSize |->
     IF WRITES_COMPLETED \notin u[p].b \/ p + 1 + u[p].n > WsSize THEN 0 ELSE p + 1 + u[p].n]

\* The walk starts at 1 and comes to p over the headers H.
WalkReaches(next, p) ==
  p = 1 \/ \E H \in SUBSET (2..(p - 1)) : \A q \in H \union {1} : next[q] \in H \union {p}

\* First header that is not complete.  When the walk leaves the work space the function
\* fails and returns the last header, which is complete.
FtwGetLastWriteHeader(u) ==
  LET next == NextHeader(u)
  IN  CHOOSE p \in 1..WsSize : next[p] = 0 /\ WalkReaches(next, p)

WalkFailed(u) == WRITES_COMPLETED \in Bits(u, FtwGetLastWriteHeader(u))

\* First record of header p whose destination is not complete, else the last.
FtwGetLastWriteRecord(u, p) ==
  LET last == IF Unit(u, p).n = -1 THEN WsSize ELSE p + Unit(u, p).n
      open == {r \in (p + 1)..last : DEST_COMPLETED \notin Bits(u, r)}
  IN  IF open = {} THEN last ELSE CHOOSE r \in open : \A s \in open : r <= s

IsFirstRecordOfWrites(p, r) == r = p + 1

IsLastRecordOfWrites(u, p, r) == r = p + Unit(u, p).n

\* What a reclaim keeps of the queue: the last write, if it is under way.
Preserved(u) ==
  LET p == FtwGetLastWriteHeader(u)
  IN  IF WRITES_COMPLETED \notin Bits(u, p) /\ HEADER_ALLOCATED \in Bits(u, p)
      THEN SubSeq(u \o NoUnits, p, p + u[p].n) \o SubSeq(NoUnits, 1, WsSize - 1 - u[p].n)
      ELSE NoUnits

-----------------------------------------------------------------------------
(* Layout: where FindFvbForFtw and InitFtwProtocol put the work block.       *)

WorkBlocks == IF shared THEN <<"A", "B", "W">> ELSE <<"W">>

\* Blocks a write of the variable store covers.
TargetBlocks == IF shared THEN <<"A", "B", "W">> ELSE StoreCells

WorkSpaceInSpare == IF shared THEN "SW" ELSE "SA"

FlushLeavesNoValidBit ==
  <<SetValid(WorkSpaceInSpare), SetInvalid("W")>>
    \o FtwEraseBlock(WorkBlocks)
    \o [i \in DOMAIN WorkBlocks |-> Copy(WorkBlocks[i], SpareCells[i])]

\* The spare area, part by part, into the blocks of the work block.
FlushSpareBlockToWorkingBlock ==
  <<SetValid(WorkSpaceInSpare), SetInvalid("W")>>
    \o FtwEraseBlock(WorkBlocks)
    \o [i \in DOMAIN WorkBlocks |-> Copy(WorkBlocks[i], SpareCells[i])]
    \o <<SetValid("W")>>

FlushWithoutErase ==
  [i \in DOMAIN StoreCells |-> Copy(StoreCells[i], SpareCells[i])]

FlushSpareBlockToTargetBlock ==
  FtwEraseBlock(StoreCells) \o [i \in DOMAIN StoreCells |-> Copy(StoreCells[i], SpareCells[i])]

\* The spare area's own contents, saved in memory, are put back.
RestoreSpare == FtwEraseSpareBlock \o [i \in 1..3 |-> Put(SpareCells[i], flash[SpareCells[i]])]

\* Replace the work space by one whose queue is u, through the spare area.  new: the
\* header in memory is a new one and not the one the work space holds.
FtwReclaimWorkSpace(u, new) ==
  FtwEraseSpareBlock
    \o [i \in DOMAIN WorkBlocks |-> IF WorkBlocks[i] = "W" THEN Queue(SpareCells[i], u, new)
                                    ELSE Copy(SpareCells[i], WorkBlocks[i])]
    \o <<SetValid(WorkSpaceInSpare), SetInvalid("W")>>
    \o FlushSpareBlockToWorkingBlock \o RestoreSpare

\* The work space is read whatever its header says.
NeedsReclaim(u) == WalkFailed(u) \/ WsSize - FtwGetLastWriteHeader(u) + 1 < 2

WorkSpaceRefresh(u) ==
  IF NeedsReclaim(u) THEN FtwReclaimWorkSpace(Preserved(u), FALSE) ELSE <<>>

\* The queue after WorkSpaceRefresh.
Refreshed(u) == IF NeedsReclaim(u) THEN Preserved(u) ELSE u

-----------------------------------------------------------------------------
(* The services, from the queue u in flash: their flash operations and the   *)
(* status they return.                                                       *)

Result(ops, st) == [ops |-> ops, st |-> st]

HeaderLeftOpen(u, p, r) ==
  (IF shared THEN <<FtwUpdateFvState("SW", r, SPARE_COMPLETED)>> \o FlushSpareBlockToWorkingBlock
             ELSE FlushSpareBlockToTargetBlock)
    \o <<FtwUpdateFvState("W", r, DEST_COMPLETED)>>

\* Copy the spare area to where record r of header p belongs, then mark the
\* record and, after the last record, the header.
FtwWriteRecord(u, p, r) ==
  (IF shared THEN <<FtwUpdateFvState("SW", r, SPARE_COMPLETED)>> \o FlushSpareBlockToWorkingBlock
             ELSE FlushSpareBlockToTargetBlock)
    \o <<FtwUpdateFvState("W", r, DEST_COMPLETED)>>
    \o IF IsLastRecordOfWrites(u, p, r) THEN <<FtwUpdateFvState("W", p, WRITES_COMPLETED)>>
                                        ELSE <<>>

\* The header is written where the last header was before the reclaim.
FtwAllocate(u, n) ==
  LET p == FtwGetLastWriteHeader(Refreshed(u))
      reclaim == IF p + n > WsSize THEN FtwReclaimWorkSpace(Preserved(Refreshed(u)), FALSE)
                                   ELSE <<>>
      header == <<WriteWorkSpaceData(p, [b |-> {HEADER_ALLOCATED}, n |-> n]),
                  FtwUpdateFvState("W", p, WRITES_ALLOCATED)>>
  IN  IF 1 + n > WsSize THEN Result(WorkSpaceRefresh(u), "BUFFER_TOO_SMALL")
      ELSE IF Bits(Refreshed(u), p) \cap {HEADER_ALLOCATED, WRITES_ALLOCATED} # {}
      THEN Result(WorkSpaceRefresh(u), "ACCESS_DENIED")
      ELSE Result(WorkSpaceRefresh(u) \o reclaim \o header, "SUCCESS")

SpareCompletedTooEarly(u, p, r, v) ==
  <<WriteWorkSpaceData(r, [Unit(u, r) EXCEPT !.n = 0])>>
    \o FtwEraseSpareBlock
    \o <<FtwUpdateFvState("W", r, SPARE_COMPLETED)>>
    \o [i \in DOMAIN TargetBlocks |->
          IF TargetBlocks[i] = "W" THEN Copy(SpareCells[i], "W")
                                   ELSE Data(SpareCells[i], TargetBlocks[i], v)]
    \o FtwWriteRecord(u, p, r)
    \o RestoreSpare

\* The part of FtwWrite after its checks: the record, the image of the target
\* with the new contents v in the spare area, and the write itself.
WriteBody(u, p, r, v) ==
  <<WriteWorkSpaceData(r, [Unit(u, r) EXCEPT !.n = 0])>>
    \o FtwEraseSpareBlock
    \o [i \in DOMAIN TargetBlocks |->
          IF TargetBlocks[i] = "W" THEN Copy(SpareCells[i], "W")
                                   ELSE Data(SpareCells[i], TargetBlocks[i], v)]
    \o <<FtwUpdateFvState("W", r, SPARE_COMPLETED)>>
    \o FtwWriteRecord(u, p, r)
    \o RestoreSpare

\* Header and record are looked up before FtwAllocate and used after it.
FtwWrite(u, v, private) ==
  LET q   == Refreshed(u)
      p   == FtwGetLastWriteHeader(q)
      r   == FtwGetLastWriteRecord(q, p)
      new == Unit(q, p) = NoUnit
      alloc == IF new THEN FtwAllocate(q, 1) ELSE Result(<<>>, "SUCCESS")
      n   == IF new THEN 1 ELSE Unit(q, p).n
      ops == WorkSpaceRefresh(u) \o alloc.ops
  IN  IF new /\ private THEN Result(WorkSpaceRefresh(u), "NOT_READY")
      ELSE IF alloc.st # "SUCCESS" THEN Result(ops, alloc.st)
      ELSE IF \/ r > p + n
              \/ WRITES_COMPLETED \in Bits(q, p)
              \/ DEST_COMPLETED \in Bits(q, r) THEN Result(ops, "ACCESS_DENIED")
      ELSE IF SPARE_COMPLETED \in Bits(q, r) THEN Result(ops, "NOT_READY")
      ELSE Result(ops \o WriteBody([q EXCEPT ![p].n = n], p, r, v), "SUCCESS")

FtwRestart(u) ==
  LET q == Refreshed(u)
      p == FtwGetLastWriteHeader(q)
      r == FtwGetLastWriteRecord(q, p)
  IN  IF WRITES_COMPLETED \in Bits(q, p) \/ DEST_COMPLETED \in Bits(q, r)
      THEN Result(WorkSpaceRefresh(u), "ACCESS_DENIED")
      ELSE IF SPARE_COMPLETED \notin Bits(q, r) THEN Result(WorkSpaceRefresh(u), "ABORTED")
      ELSE Result(WorkSpaceRefresh(u) \o FtwWriteRecord(q, p, r) \o FtwEraseSpareBlock, "SUCCESS")

FtwAbort(u) ==
  LET q == Refreshed(u)
      p == FtwGetLastWriteHeader(q)
  IN  IF HEADER_ALLOCATED \notin Bits(q, p) \/ WRITES_COMPLETED \in Bits(q, p)
      THEN Result(WorkSpaceRefresh(u), "NOT_FOUND")
      ELSE Result(Append(WorkSpaceRefresh(u), FtwUpdateFvState("W", p, WRITES_COMPLETED)),
                  "SUCCESS")

\* A write that cannot be restarted is aborted.
FtwGetLastWrite(u) ==
  LET q == Refreshed(u)
      p == FtwGetLastWriteHeader(q)
      r == FtwGetLastWriteRecord(q, p)
      done == /\ WRITES_COMPLETED \notin Bits(q, p)
              /\ DEST_COMPLETED \in Bits(q, r)
              /\ IsLastRecordOfWrites(q, p, r)
      unspared == /\ HEADER_ALLOCATED \in Bits(q, p)
                  /\ SPARE_COMPLETED \notin Bits(q, r)
                  /\ IsFirstRecordOfWrites(p, r)
  IN  IF done \/ unspared THEN Result(WorkSpaceRefresh(u) \o FtwAbort(q).ops, "NOT_FOUND")
      ELSE IF HEADER_ALLOCATED \notin Bits(q, p) THEN Result(WorkSpaceRefresh(u), "NOT_FOUND")
      ELSE Result(WorkSpaceRefresh(u), "SUCCESS")
=============================================================================
