----------------------------- MODULE NvStorage -----------------------------
(***************************************************************************)
(* The variable store in flash over resets: the fault tolerant write       *)
(* driver together with the PEI modules that read the store before it has  *)
(* recovered, and the firmware volume block driver (FvbService.c), which   *)
(* checks the store's volume header at every boot, rewrites it when it is  *)
(* damaged, and by its block map decides where the work block is.          *)
(***************************************************************************)
EXTENDS FaultTolerantWrite, SequencesExt

CONSTANT FdHeader   \* header in the flash image: "shipped" or "matching"

VARIABLE seen       \* contents PEI read, until the boot is over

vars == <<ftwVars, seen>>

-----------------------------------------------------------------------------
(* The firmware volume header, 36 words of 16 bits                           *)

Zeros(n) == [i \in 1..n |-> 0]

\* gEfiSystemNvDataFvGuid
SystemNvDataFvGuid ==
  <<\h2B8D, \hFFF1, \h7696, \h4C8B, \h85A9, \h4727, \h5B07, \h504F>>

FvHeader(length, checksum, blocks, size) ==
  Zeros(8) \o SystemNvDataFvGuid \o length \o <<0, 0>>
    \o <<\h465F, \h4856, \hFEFF, \h0004, \h0048, checksum, 0, \h0200>>
    \o <<blocks, 0>> \o size \o Zeros(4)

\* Sum of the first bytes of the header, without the carries.
CalculateSum16(words, bytes) ==
  FoldLeft(LAMBDA s, w : (s + w) % 65536, 0, SubSeq(words, 1, bytes \div 2))

CalculateCheckSum16(words, bytes) == (65536 - CalculateSum16(words, bytes)) % 65536

\* The header of the flash image: eight blocks of 64 KB, over the variable store,
\* the work space and the spare area.
ShippedHeader == FvHeader(<<0, 8>>, \h092A, 8, <<0, 1>>)

\* The header GetFvbInfo makes for bytes = 36: the variable store alone, in blocks of
\* 4 KB.  The length it passes is in words where CalculateCheckSum16 takes bytes, so
\* that half of the header is summed.
GetFvbInfo(bytes) ==
  LET new == FvHeader(<<\hE000, 2>>, 0, \h2E, <<\h1000, 0>>)
  IN  [new EXCEPT ![26] = CalculateCheckSum16(new, bytes)]

RewrittenHeader == GetFvbInfo(72 \div 2)

\* A flash image whose header has the geometry GetFvbInfo writes and a right checksum.
\* Nothing in the repository ships or makes one: it is what GetFvbInfo means to write.
MatchingHeader == GetFvbInfo(72)

Words(fv) ==
  CASE fv = "shipped"   -> ShippedHeader
    [] fv = "matching"  -> MatchingHeader
    [] fv = "rewritten" -> RewrittenHeader
    [] OTHER            -> [i \in 1..36 |-> 65535]

IsFvHeaderValid(fv) ==
  /\ SubSeq(Words(fv), 9, 16) = SystemNvDataFvGuid
  /\ CalculateCheckSum16(Words(fv), 72) = 0

\* FindFvbForFtw takes the first volume that holds the work space.  That is the
\* variable store's own volume when its blocks reach that far; the work space is
\* then smaller than a block and InitFtwProtocol takes the blocks before it too.
FindFvbForFtw(fv) ==
  LET size == Words(fv)[31] + 65536 * Words(fv)[32]
  IN  Words(fv)[29] * size >= \h30000 /\ \h2000 < size

\* A header with the geometry GetFvbInfo writes and a right checksum is sound, an erased
\* one is not, and the volume it describes ends before the work space.
ASSUME HeaderAssumption ==
  /\ IsFvHeaderValid("matching") /\ ~IsFvHeaderValid(None)
  /\ ~FindFvbForFtw("matching") /\ ~FindFvbForFtw("rewritten")

-----------------------------------------------------------------------------
(* What is in the flash                                                      *)

Contents(a, b) == IF a.fv = None \/ a.v # b.v THEN Torn ELSE a.v

TargetContents == Contents(flash["A"], flash["B"])
SpareContents  == Contents(flash["SA"], flash["SB"])

\* A write that waits in the spare area for its target to be written.
Pending(u) ==
  LET p == FtwGetLastWriteHeader(u)
      r == FtwGetLastWriteRecord(u, p)
  IN  /\ WRITES_COMPLETED \notin Bits(u, p)
      /\ SPARE_COMPLETED \in Bits(u, r)
      /\ DEST_COMPLETED \notin Bits(u, r)

\* The contents the recovery of the next boot ends with.
Available ==
  IF IsValidWorkSpace(flash["W"])
  THEN IF Pending(flash["W"].u) THEN SpareContents ELSE TargetContents
  ELSE IF shared /\ IsValidWorkSpace(flash["SW"]) THEN SpareContents ELSE TargetContents

-----------------------------------------------------------------------------
Init ==
  \E v \in Values :
    /\ flash = [c \in {"A", "B", "W", "SA", "SB", "SW"} |->
                  CASE c = "A" -> [Erased EXCEPT !.fv = FdHeader, !.v = v]
                    [] c = "B" -> [Erased EXCEPT !.v = v]
                    [] c = "W" -> [Erased EXCEPT !.h = "valid"]
                    [] OTHER   -> Erased]
    /\ todo = <<>> /\ shared = FindFvbForFtw(FdHeader) /\ pc = "pei" /\ seen = v
    /\ ret = <<None, 0, None>> /\ req = None /\ out = "none"
    /\ calls = 0 /\ crashes = 0 /\ errors = 0

bounds == <<calls, crashes, errors>>

-----------------------------------------------------------------------------
(* Boot                                                                      *)

PeiLooksInSpareOnly == flash["SW"].h # None /\ IsValidWorkSpace(flash["SW"])

\* PeimFaultTolerantWriteInitialize looks for an interrupted write; in the spare
\* area it takes the last work space signature.  GetVariableStore reads the spare
\* area when the interrupted write was one of the store from its start.
PeiReadsSpare ==
  IF IsValidWorkSpace(flash["W"])
  THEN ~WalkFailed(flash["W"].u) /\ Pending(flash["W"].u)
  ELSE flash["SW"].h # None /\ IsValidWorkSpace(flash["SW"])

PeiGetVariableStore ==
  /\ pc = "pei"
  /\ seen' = IF PeiReadsSpare THEN SpareContents ELSE TargetContents
  /\ pc' = "fvb"
  /\ UNCHANGED <<flash, todo, shared, ret, req, out, bounds>>

\* A damaged header costs the store its first 4 KB.
FvbInitialize ==
  LET a == flash["A"]
      repaired == [a EXCEPT !.fv = "rewritten", !.v = IF @ = Blank THEN Blank ELSE Torn]
  IN  /\ pc = "fvb"
      /\ IF IsFvHeaderValid(a.fv)
         THEN todo' = <<>> /\ shared' = FindFvbForFtw(a.fv)
         ELSE /\ todo' = <<Put("A", [repaired EXCEPT !.fv = None]), Put("A", repaired)>>
              /\ shared' = FindFvbForFtw("rewritten")
      /\ pc' = "refresh"
      /\ UNCHANGED <<flash, seen, ret, req, out, bounds>>

\* One step of InitFtwProtocol, once the flash operations of the last are done.
Init1(from, ops, to) ==
  /\ pc = from /\ todo = <<>> /\ todo' = ops /\ pc' = to
  /\ seen' = IF to = "idle" THEN None ELSE seen
  /\ UNCHANGED <<flash, shared, ret, req, out, bounds>>

InitRefresh == Init1("refresh", WorkSpaceRefresh(flash["W"].u), "check")

\* The work space is sound, or it is restored from the spare area, or it is made
\* anew.
InitCheck ==
  IF IsValidWorkSpace(flash["W"]) THEN Init1("check", <<>>, "settle")
  ELSE IF IsValidWorkSpace(flash[WorkSpaceInSpare])
  THEN Init1("check", FlushSpareBlockToWorkingBlock, "flushed")
  ELSE Init1("check", FtwReclaimWorkSpace(NoUnits, TRUE), "settle")

\* What the spare area's queue still had under way is aborted; then the work space
\* is read again, once, and nothing looks at its header any more.
InitFlushed == Init1("flushed", FtwAbort(flash["W"].u).ops, "reread")

InitReread == Init1("reread", WorkSpaceRefresh(flash["W"].u), "settle")

\* Abort a write that cannot be restarted or is done, then reclaim if anything
\* follows the last header.
InitSettle ==
  LET u == flash["W"].u
      p == FtwGetLastWriteHeader(u)
      r == FtwGetLastWriteRecord(u, p)
      unspared == /\ HEADER_ALLOCATED \in Bits(u, p)
                  /\ SPARE_COMPLETED \notin Bits(u, r)
                  /\ IsFirstRecordOfWrites(p, r)
      done == /\ WRITES_COMPLETED \notin Bits(u, p)
              /\ DEST_COMPLETED \in Bits(u, r)
              /\ IsLastRecordOfWrites(u, p, r)
      abort == IF unspared \/ done THEN FtwAbort(u).ops ELSE <<>>
      v == IF unspared \/ done THEN [u EXCEPT ![p].b = @ \union {WRITES_COMPLETED}] ELSE u
      next == IF v[p].b = {} THEN p ELSE p + 1 + v[p].n
      reclaim == IF \A i \in 1..WsSize : i >= next => v[i] = NoUnit
                 THEN <<>> ELSE FtwReclaimWorkSpace(Preserved(v), FALSE)
  IN  Init1("settle", abort \o reclaim, "restart")

\* Finish a write whose image is complete in the spare area.  No driver offers the
\* swap of boot blocks: FlushSpareBlockToBootBlock fails.
InitRestart ==
  LET u == flash["W"].u
      p == FtwGetLastWriteHeader(u)
      r == FtwGetLastWriteRecord(u, p)
  IN  /\ pc = "restart"
      /\ IF WRITES_COMPLETED \in Bits(u, p) \/ SPARE_COMPLETED \notin Bits(u, r)
         THEN Init1("restart", <<>>, "idle")
         ELSE IF BOOT_BLOCK_UPDATE \in Bits(u, r)
         THEN Init1("restart", <<>>, "restarted")
         ELSE Init1("restart", FtwRestart(flash["W"].u).ops, "restarted")

InitRestarted == Init1("restarted", FtwAbort(flash["W"].u).ops, "idle")

-----------------------------------------------------------------------------
(* Services, one at a time                                                   *)

Call(svc, arg, result, v) ==
  /\ pc = "idle" /\ todo = <<>> /\ calls < MaxCalls
  /\ calls' = calls + 1
  /\ pc' = "busy" /\ todo' = result.ops /\ ret' = <<svc, arg, result.st>> /\ req' = v
  /\ UNCHANGED <<flash, shared, seen, out, crashes, errors>>

\* The only caller in the platform, FtwVariableSpace, passes no private data and
\* allocates nothing first.
Write == \E v \in Values, private \in BOOLEAN :
           Call("write", 0, FtwWrite(flash["W"].u, v, private), v)

Allocate == \E n \in Requests : Call("allocate", n, FtwAllocate(flash["W"].u, n), None)

Restart == Call("restart", 0, FtwRestart(flash["W"].u), None)

\* A caller does not abort a write whose target may be half written.
Abort == pc = "idle" /\ ~Pending(flash["W"].u) /\ Call("abort", 0, FtwAbort(flash["W"].u), None)

GetLastWrite == Call("last", 0, FtwGetLastWrite(flash["W"].u), None)

Return ==
  /\ pc = "busy" /\ todo = <<>>
  /\ pc' = "idle" /\ req' = None
  /\ out' = IF req = None THEN out ELSE IF ret[3] = "SUCCESS" THEN "ok" ELSE "failed"
  /\ UNCHANGED <<flash, todo, shared, seen, ret, bounds>>

-----------------------------------------------------------------------------
(* The flash part                                                            *)

FlashStep ==
  /\ todo # <<>>
  /\ flash' = [flash EXCEPT ![Head(todo).c] = Effect(flash, Head(todo))]
  /\ todo' = Tail(todo)
  /\ UNCHANGED <<shared, pc, seen, ret, req, out, bounds>>

\* What an operation leaves that was cut short: blocks are erased and programmed
\* from their start, and a few bytes change at once.
Partial(F, o) ==
  LET old  == F[o.c]
      new  == Effect(F, o)
      torn == IF old.v = Blank /\ new.v = Blank THEN Blank ELSE Torn
  IN  {old} \union
      CASE o.k = "erase" -> {[old EXCEPT !.fv = None, !.h = None, !.v = torn],
                             [Erased EXCEPT !.v = torn]}
        [] o.k \in {"put", "copy", "data", "queue"}
             -> {[Erased EXCEPT !.v = torn], [new EXCEPT !.v = torn, !.u = NoUnits]}
        [] OTHER -> {new}

Interrupted(o) == \E b \in Partial(flash, o) : flash' = [flash EXCEPT ![o.c] = b]

\* A write that was cut short has failed.
Unanswered == IF req = None THEN out ELSE "failed"

Crash ==
  /\ crashes < MaxCrashes /\ crashes' = crashes + 1
  /\ IF todo = <<>> THEN UNCHANGED flash ELSE Interrupted(Head(todo))
  /\ todo' = <<>> /\ pc' = "pei" /\ req' = None /\ out' = Unanswered /\ seen' = None
  /\ ret' = <<None, 0, None>>
  /\ UNCHANGED <<shared, calls, errors>>

\* A flash operation of a service fails and the service returns EFI_ABORTED.
\* Failures while the work space is being replaced are left out.
Error ==
  /\ pc = "busy" /\ todo # <<>>
  /\ IsValidWorkSpace(flash["W"]) /\ \A i \in DOMAIN todo : todo[i] # Erase("W")
  /\ errors < MaxErrors /\ errors' = errors + 1
  /\ Interrupted(Head(todo))
  /\ todo' = <<>> /\ pc' = "idle" /\ req' = None /\ out' = Unanswered
  /\ ret' = [ret EXCEPT ![3] = "ABORTED"]
  /\ UNCHANGED <<shared, seen, calls, crashes>>

Boot ==
  \/ PeiGetVariableStore \/ FvbInitialize
  \/ InitRefresh \/ InitCheck \/ InitFlushed \/ InitReread \/ InitSettle
  \/ InitRestart \/ InitRestarted

Next ==
  \/ Boot \/ FlashStep \/ Return
  \/ Write \/ Allocate \/ Restart \/ Abort \/ GetLastWrite
  \/ Crash \/ Error
  \/ pc = "idle" /\ calls = MaxCalls /\ UNCHANGED vars

Spec == Init /\ [][Next]_vars

-----------------------------------------------------------------------------
Blocks == [fv : {None, "shipped", "matching", "rewritten"}, v : Values \union {Blank, Torn},
           h : {None, "fresh", "valid", "invalid"}, u : Seq([b : SUBSET (0..2), n : -1..WsSize])]

\* Every variable keeps its type: cells hold blocks, operations name cells.
TypeOK ==
  /\ \A c \in DOMAIN flash : flash[c] \in Blocks /\ Len(flash[c].u) = WsSize
  /\ \A i \in DOMAIN todo : todo[i].c \in DOMAIN flash
  /\ shared \in BOOLEAN /\ seen \in Values \union {None, Blank, Torn}
  /\ pc \in {"pei", "fvb", "refresh", "check", "flushed", "reread", "settle", "restart",
             "restarted", "idle", "busy"}
  /\ req \in Values \union {None} /\ out \in {"none", "ok", "failed"}
  /\ calls \in 0..MaxCalls /\ crashes \in 0..MaxCrashes /\ errors \in 0..MaxErrors

Abstract == INSTANCE NvStore WITH cur <- Available

\* FtwWrite's promise ("ensuring at all times that either the original contents or
\* the modified contents are available"), over resets at any flash operation and
\* failing operations: what the next recovery would find changes in one step, from
\* the contents before a write to those written, and a write reported as done is
\* there.
StoreSpec == Abstract!Spec

\* PEI, which runs before any recovery and decides on its own where the store is,
\* reads the contents that are still there when the boot has recovered: neither the
\* repair of the volume header nor a step of the recovery changes them.
PeiSeesRecovered ==
  pc \in {"fvb", "refresh", "check", "flushed", "reread", "settle", "restart", "restarted"}
    => seen = Available

\* After every boot, whatever interrupted the last one, and after any calls none of
\* which failed, FtwVariableSpace's call is not refused: no half-done write is left
\* in the queue, and a full queue is reclaimed in time.
StoreWritable ==
  pc = "idle" /\ todo = <<>> /\ (ret[1] = None \/ errors = 0)
    => \A v \in Values : FtwWrite(flash["W"].u, v, FALSE).st = "SUCCESS"

\* Flash is programmed only where it is erased, and bits are only ever added to a
\* header or a record: programming cannot take a bit back.  FvbInitialize's repair, done
\* at "refresh", puts in place the block with its first 4 KB erased, then written.
FlashCanDoIt ==
  todo # <<>> =>
    LET o == Head(todo)
        old == flash[o.c]
        new == Effect(flash, o)
    IN  /\ o.k \in {"put", "copy", "data", "queue"} /\ pc # "refresh" => old = Erased
        /\ o.k = "unit" =>
             \/ old.u[o.p] = NoUnit
             \/ old.u[o.p].n = new.u[o.p].n /\ old.u[o.p].b \subseteq new.u[o.p].b

\* Whatever resets interrupted the boots before, and also after a service that
\* failed, the driver leaves a work space with a valid header: InitFtwProtocol does
\* not look again once it has restored or made one, and with any other header the
\* next boot would take an old queue from the spare area or throw this one away.
\* After a boot, and after any calls none of which failed, no write waits in the
\* spare area either: the variable driver reads the store itself.
RecoveryComplete ==
  pc = "idle" /\ todo = <<>> =>
    /\ IsValidWorkSpace(flash["W"])
    /\ ret[1] = None \/ errors = 0 => ~Pending(flash["W"].u)

\* FtwWrite, "ensuring at all times that either the original contents or the
\* modified contents are available": the recovery finds whole contents.
StoreWhole == Available \in Values
=============================================================================
