---------------------------- MODULE SmiDispatcher ----------------------------
(***************************************************************************)
(* The PCH SMI dispatcher: the database of callbacks that SMM drivers      *)
(* register for SMI sources (PchSmmCore.c), the dispatcher that runs on    *)
(* every SMI and may only return once it got the EOS bit set again         *)
(* (PchSmmCoreDispatcher, PchSmmSetAndCheckEos), the two periodic timers   *)
(* (PchSmmPeriodicTimer.c) and the driver that raises software SMIs from   *)
(* outside SMM (SmmControlDriver.c).                                       *)
(*                                                                         *)
(* The chipset runs concurrently: a status bit may be latched between any  *)
(* two register accesses of the dispatcher.  The database is the doubly    *)
(* linked list of the code, because a callback may change it while the     *)
(* dispatcher walks it.                                                    *)
(***************************************************************************)
EXTENDS Naturals, FiniteSets, FiniteSetsExt

CONSTANTS
    Records,        \* the DATABASE_RECORDs that will be allocated
    Context,        \* their dispatch contexts: [type, value, tick, period]
    MaxSwi,         \* MAXIMUM_SWI_VALUE, 255 in the code
    Escape,         \* the initial EscapeCount, 100 in the code
    MaxArrivals,    \* bound on the events that arrive during one SMI
    CarefulClients  \* the clients keep to the rules of MayRegister, MayUnRegister

Timers == {"periodic", "swsmi"}
Sources == Timers \cup {"sw", "usb"}
Head == "CallbackDataBase"
Links == Records \cup {Head}
AnyValue == MaxSwi + 1      \* (UINTN)-1: the dispatcher picks a value
Intervals == 1 .. 4         \* SMI tick intervals, the shorter two are SWSMI_TIMER's

ASSUME DispatcherAssumption ==
    /\ IsFiniteSet(Records) /\ Head \notin Records
    /\ MaxSwi \in Nat /\ Escape \in Nat /\ MaxArrivals \in Nat
    /\ CarefulClients \in BOOLEAN
    /\ Context \in [Records -> [type : {"sw", "usb", "timer"}, value : 0 .. AnyValue,
                                tick : Intervals, period : Nat]]

VARIABLES
    fwd, bck,       \* ForwardLink and BackLink of the list entries
    state,          \* a record's life: new, in the database, refused, out
    value,          \* ChildContext.Sw.SwSmiInputValue of the record
    elapsed,        \* MiscData.ElapsedTime of the record
    en, sts,        \* the enable and status bits of the sources
    setting,        \* the intervals programmed into the two timers
    apm,            \* the APM_CNT port
    eos,            \* the EOS bit of SMI_EN
    line,           \* an SMI has been raised and not yet taken
    pc,             \* where the dispatcher is
    escape, eosSet, \* EscapeCount, EosSet
    linkInDb,       \* LinkInDb; RecordInDb and ActiveSource follow from it
    linkToExhaust, recordToExhaust,
    arrivals,       \* events latched since the SMI was taken
    owed,           \* history: an event of this child's that it has not been called for
    since           \* history: time since this child's last callback

list == <<fwd, bck, state, value>>
chipset == <<en, sts, setting, apm, eos, line>>
walk == <<escape, eosSet, linkInDb, linkToExhaust, recordToExhaust>>
history == <<owed, since>>
vars == <<list, elapsed, chipset, pc, walk, arrivals, history>>

In(r) == state[r] = "in"
Timer(i) == IF i <= 2 THEN "swsmi" ELSE "periodic"
SrcDesc(r) == IF Context[r].type = "timer" THEN Timer(Context[r].tick) ELSE Context[r].type
SourceIsActive(s) == en[s] /\ sts[s]

\* The chipset raises no SMI without EOS, raising one clears EOS, and EOS
\* cannot be set while an enabled source is still active.
EosCanBeSet == \A s \in Sources : ~SourceIsActive(s)

\* SmmClear and ClearSmi write the status bit of software SMIs to clear it,
\* then set EOS, which works if no other source is active.
SwStatusCleared == [sts EXCEPT !["sw"] = FALSE]
EosAfterClear == eos \/ \A s \in Sources : ~(en[s] /\ SwStatusCleared[s])

Init ==
    /\ fwd = [l \in Links |-> Head]
    /\ bck = [l \in Links |-> Head]
    /\ state = [r \in Records |-> "new"]
    /\ value = [r \in Records |-> Context[r].value]
    /\ elapsed = [r \in Records |-> 0]
    /\ en = [s \in Sources |-> s = "sw"]
    /\ sts = [s \in Sources |-> FALSE]
    /\ setting = [t \in Timers |-> 1]
    /\ apm = 0
    /\ eos = TRUE
    /\ line = FALSE
    /\ pc = "idle"
    /\ escape = 0
    /\ eosSet = FALSE
    /\ linkInDb = Head
    /\ linkToExhaust = Head
    /\ recordToExhaust = Head
    /\ arrivals = 0
    /\ owed = [r \in Records |-> "no"]
    /\ since = [r \in Records |-> Context[r].period]

-----------------------------------------------------------------------------
(* The list of callbacks.                                                  *)

InsertTailList(r) ==
    /\ fwd' = [fwd EXCEPT ![bck[Head]] = r, ![r] = Head]
    /\ bck' = [bck EXCEPT ![Head] = r, ![r] = bck[Head]]

RemoveForgetsForwardLink(r) ==
    /\ bck' = [bck EXCEPT ![fwd[r]] = bck[r]]
    /\ fwd' = fwd

\* The entry's own links are left as they are.
RemoveEntryList(r) ==
    /\ bck' = [bck EXCEPT ![fwd[r]] = bck[r]]
    /\ fwd' = [fwd EXCEPT ![bck[r]] = fwd[r]]

\* The records that GetFirstNode and GetNextNode visit in a list with the
\* forward links f: the smallest set with the first entry and the next of each.
Visited(f) ==
    {r \in Records :
        \A S \in SUBSET Links :
            f[Head] \in S /\ (\A l \in S \ {Head} : f[l] \in S) => r \in S}

-----------------------------------------------------------------------------
(* The chipset.                                                            *)

RaiseSmi ==
    /\ eos /\ ~EosCanBeSet /\ ~line
    /\ line' = TRUE
    /\ eos' = FALSE
    /\ UNCHANGED <<list, elapsed, en, sts, setting, apm, pc, walk, arrivals, history>>

\* What a child is owed once an event of source s happens: a callback that is
\* due, or, when the status was set and the child has been called for it
\* already, a callback that came too early ("late": the event came after it).
OwedAfterEvent(r, s) ==
    IF sts[s] /\ owed[r] # "due" THEN "late" ELSE "due"

\* An event of source s is latched; it is for the children in "for".
Latch(s, for) ==
    /\ pc # "idle" => arrivals < MaxArrivals
    /\ arrivals' = IF pc = "idle" THEN 0 ELSE arrivals + 1
    /\ sts' = [sts EXCEPT ![s] = TRUE]
    /\ owed' = [r \in Records |->
                 IF r \in for /\ In(r) /\ en[s] THEN OwedAfterEvent(r, s) ELSE owed[r]]

UsbEvent ==
    /\ Latch("usb", {r \in Records : SrcDesc(r) = "usb"})
    /\ UNCHANGED <<list, elapsed, en, setting, apm, eos, line, pc, walk, since>>

Tick(t) ==
    /\ en[t]
    /\ Latch(t, {})
    /\ since' = [r \in Records |->
                  IF SrcDesc(r) = t THEN Min({since[r] + setting[t], Context[r].period})
                  ELSE since[r]]
    /\ UNCHANGED <<list, elapsed, en, setting, apm, eos, line, pc, walk>>

\* A processor writes APM_CNT; clients do so one at a time.
SwSmi(v) ==
    /\ pc = "idle" /\ ~sts["sw"]
    /\ apm' = v
    /\ Latch("sw", {r \in Records : SrcDesc(r) = "sw" /\ value[r] = v})
    /\ UNCHANGED <<list, elapsed, en, setting, eos, line, pc, walk, since>>

\* Activate: SmmClear drops a software SMI that nobody took and sets EOS,
\* SmmTrigger raises one with a value that no child has.
Activate ==
    /\ pc = "idle" /\ ~line
    /\ sts["sw"] => ~eos
    /\ sts' = [sts EXCEPT !["sw"] = TRUE]
    /\ en' = [en EXCEPT !["sw"] = TRUE]
    /\ apm' = 0
    /\ eos' = EosAfterClear
    /\ UNCHANGED <<list, elapsed, setting, line, pc, walk, arrivals, history>>

-----------------------------------------------------------------------------
(* The timers.                                                             *)

TimerChildren(t, f) ==
    {r \in Visited(f) : Context[r].type = "timer" /\ SrcDesc(r) = t}

InUse(f) == {t \in Timers : TimerChildren(t, f) # {}}

\* PchSmmPeriodicTimerProgramTimers for the list f: the shortest interval,
\* the status bits and the enable bits.  A timer in use is restarted by
\* clearing its status; only the SWSMI timer is enabled here.
ProgrammedInterval(f) ==
    [t \in Timers |-> IF t \in InUse(f) THEN Min({Context[r].tick : r \in TimerChildren(t, f)})
                      ELSE setting[t]]

StatusNotCleared(f) == sts

ProgrammedStatus(f) == [s \in Sources |-> sts[s] /\ s \notin InUse(f)]

ProgrammedEnable(f) ==
    [s \in Sources |-> IF s \in Timers THEN s \in InUse(f) /\ (s = "swsmi" \/ en[s])
                       ELSE en[s]]

\* Record->ClearSource, or PchSmmClearSource where it is NULL.
ClearSource(s) ==
    IF s \in Timers
    THEN /\ setting' = ProgrammedInterval(fwd)
         /\ sts' = ProgrammedStatus(fwd)
         /\ en' = ProgrammedEnable(fwd)
    ELSE /\ sts' = [sts EXCEPT ![s] = FALSE]
         /\ UNCHANGED <<en, setting>>

-----------------------------------------------------------------------------
(* Registration, from a driver that runs before the dispatcher in the same *)
(* SMI or from a callback.                                                 *)

Clients == pc \in {"entered", "call"}

SiblingOf(r) == \E q \in Records \ {r} : In(q) /\ SrcDesc(q) = SrcDesc(r)

\* A software SMI child comes first: SmmControlDriver.c always has its
\* source enabled, and a dispatcher that finds no child to clear its status
\* spends its EscapeCount on it.  A callback of an asynchronous source
\* registers nobody for that source.
MayRegister(r) ==
    CarefulClients => \/ SrcDesc(r) = "sw"
                      \/ /\ \E q \in Records : In(q) /\ SrcDesc(q) = "sw"
                         /\ pc = "call" => SrcDesc(r) # SrcDesc(linkInDb)

\* No source loses its last child, except a timer in that child's callback,
\* and a callback takes nobody out but itself.
MayUnRegister(r) ==
    CarefulClients => /\ SiblingOf(r) \/ (pc = "call" /\ SrcDesc(r) \in Timers)
                      /\ pc = "call" => r = recordToExhaust

SmiInputValueDuplicate(v) ==
    \E r \in Visited(fwd) : Context[r].type = "sw" /\ value[r] = v

FreeValues == {v \in 1 .. MaxSwi - 1 : ~SmiInputValueDuplicate(v)}

\* The record's value after the search for a free one.
RequestedValue(r) ==
    IF Context[r].value = AnyValue /\ FreeValues # {} THEN Min(FreeValues)
    ELSE Context[r].value

Refused(r) ==
    /\ Context[r].type = "sw"
    /\ \/ RequestedValue(r) > MaxSwi
       \/ SmiInputValueDuplicate(RequestedValue(r))

\* The source is cleared, enabled and cleared again: an event that is
\* latched for another child of it is lost.
EnableSource(r) ==
    IF SrcDesc(r) \in Timers
    THEN /\ setting' = ProgrammedInterval(fwd')
         /\ sts' = [ProgrammedStatus(fwd') EXCEPT ![SrcDesc(r)] = FALSE]
         /\ en' = [ProgrammedEnable(fwd') EXCEPT ![SrcDesc(r)] = TRUE]
    ELSE /\ sts' = [sts EXCEPT ![SrcDesc(r)] = FALSE]
         /\ en' = [en EXCEPT ![SrcDesc(r)] = TRUE]
         /\ setting' = setting

\* The pool memory of a record is not cleared, so ElapsedTime starts with any
\* value; those beyond the period all act like the period.
PchSmmCoreRegister(r) ==
    /\ Clients /\ state[r] = "new" /\ ~Refused(r) /\ MayRegister(r)
    /\ state' = [state EXCEPT ![r] = "in"]
    /\ value' = [value EXCEPT ![r] = RequestedValue(r)]
    /\ \E e \in 0 .. Context[r].period : elapsed' = [elapsed EXCEPT ![r] = e]
    /\ InsertTailList(r)
    /\ EnableSource(r)
    /\ owed' = [q \in Records |-> IF SrcDesc(q) = SrcDesc(r) THEN "no" ELSE owed[q]]
    /\ UNCHANGED <<apm, eos, line, pc, walk, arrivals, since>>

\* The record is freed again.
RegistrationFails(r) ==
    /\ Clients /\ state[r] = "new" /\ Refused(r)
    /\ state' = [state EXCEPT ![r] = "refused"]
    /\ UNCHANGED <<fwd, bck, value, elapsed, chipset, pc, walk, arrivals, history>>

\* The source stays enabled, the record stays allocated.
PchSmmCoreUnRegister(r) ==
    /\ Clients /\ In(r) /\ MayUnRegister(r)
    /\ state' = [state EXCEPT ![r] = "out"]
    /\ RemoveEntryList(r)
    /\ owed' = [owed EXCEPT ![r] = "no"]
    /\ UNCHANGED <<value, elapsed, chipset, pc, walk, arrivals, since>>

-----------------------------------------------------------------------------
(* The dispatcher.                                                         *)

\* EOS is written and read back.
SetAndCheckEos ==
    /\ eos' = (eos \/ EosCanBeSet)
    /\ eosSet' = eos'

SmiEntry ==
    /\ pc = "idle" /\ line
    /\ line' = FALSE
    /\ pc' = "entered"
    /\ UNCHANGED <<list, elapsed, en, sts, setting, apm, eos, walk, arrivals, history>>

\* PchSmmCoreDispatcher is called.
DispatcherEntry ==
    /\ pc = "entered"
    /\ pc' = IF fwd[Head] = Head THEN "return" ELSE "loop"
    /\ escape' = Escape
    /\ eosSet' = FALSE
    /\ UNCHANGED <<list, elapsed, chipset, linkInDb, linkToExhaust, recordToExhaust,
                   arrivals, history>>

GiveUpOneEarly == ~eosSet /\ escape > 1

KeepLooping == ~eosSet /\ escape > 0

\* With no child left there is nothing to scan, and nobody tries to set EOS.
Iterate ==
    /\ pc = "loop" /\ KeepLooping
    /\ escape' = escape - 1
    /\ linkInDb' = fwd[Head]
    /\ pc' = IF fwd[Head] = Head THEN "loop" ELSE "scan"
    /\ UNCHANGED <<list, elapsed, chipset, eosSet, linkToExhaust, recordToExhaust,
                   arrivals, history>>

LoopEnds ==
    /\ pc = "loop" /\ ~KeepLooping
    /\ pc' = "return"
    /\ UNCHANGED <<list, elapsed, chipset, walk, arrivals, history>>

\* The record's source is not active: go on to the next record, and after
\* the last one try to set EOS.
ScanNext ==
    /\ pc = "scan" /\ ~SourceIsActive(SrcDesc(linkInDb))
    /\ linkInDb' = fwd[linkInDb]
    /\ IF linkInDb' = Head
       THEN pc' = "loop" /\ SetAndCheckEos
       ELSE UNCHANGED <<pc, eos, eosSet>>
    /\ UNCHANGED <<list, elapsed, en, sts, setting, apm, line, escape, linkToExhaust,
                   recordToExhaust, arrivals, history>>

ScanFinds ==
    /\ pc = "scan" /\ SourceIsActive(SrcDesc(linkInDb))
    /\ linkToExhaust' = linkInDb
    /\ pc' = "exhaust"
    /\ UNCHANGED <<list, elapsed, chipset, escape, eosSet, linkInDb, recordToExhaust,
                   arrivals, history>>

\* PeriodicTimerGetContext counts the child's own interval.
ElapsedAtTick(r) == elapsed[r] + Context[r].tick

ContextsMatch(r) ==
    CASE Context[r].type = "sw" -> value[r] = apm
      [] Context[r].type = "timer" -> ElapsedAtTick(r) >= Context[r].period
      [] OTHER -> TRUE

\* PeriodicTimerGetCommBuffer starts the next period.
ElapsedAtCall(r) == 0


\* The rest of the queue may hold more children of the same source.
NextLink(r) == fwd[r]

\* The next link is read before the callback can change the list.
ExhaustCalls ==
    LET r == linkToExhaust
    IN  /\ pc = "exhaust" /\ r # Head
        /\ SrcDesc(r) = SrcDesc(linkInDb) /\ ContextsMatch(r)
        /\ recordToExhaust' = r
        /\ linkToExhaust' = NextLink(r)
        /\ elapsed' = [elapsed EXCEPT ![r] =
                        IF SrcDesc(r) \in Timers THEN ElapsedAtCall(r) ELSE @]
        /\ pc' = "call"
        /\ owed' = [owed EXCEPT ![r] = "no"]
        /\ since' = [since EXCEPT ![r] = IF SrcDesc(r) \in Timers THEN 0 ELSE @]
        /\ UNCHANGED <<list, chipset, escape, eosSet, linkInDb, arrivals>>

ExhaustSkips ==
    LET r == linkToExhaust
    IN  /\ pc = "exhaust" /\ r # Head
        /\ ~(SrcDesc(r) = SrcDesc(linkInDb) /\ ContextsMatch(r))
        /\ linkToExhaust' = NextLink(r)
        /\ elapsed' = [elapsed EXCEPT ![r] =
                        IF SrcDesc(r) \in Timers /\ SrcDesc(r) = SrcDesc(linkInDb)
                        THEN ElapsedAtTick(r) ELSE @]
        /\ UNCHANGED <<list, chipset, pc, escape, eosSet, linkInDb, recordToExhaust,
                       arrivals, history>>

CallbackReturns ==
    /\ pc = "call"
    /\ pc' = "exhaust"
    /\ recordToExhaust' = Head
    /\ UNCHANGED <<list, elapsed, chipset, escape, eosSet, linkInDb, linkToExhaust,
                   arrivals, history>>

QueueExhausted ==
    /\ pc = "exhaust" /\ linkToExhaust = Head
    /\ ClearSource(SrcDesc(linkInDb))
    /\ pc' = "eos"
    /\ UNCHANGED <<list, elapsed, apm, eos, line, walk, arrivals, history>>

SourceHandled ==
    /\ pc = "eos"
    /\ SetAndCheckEos
    /\ pc' = "loop"
    /\ linkInDb' = Head
    /\ UNCHANGED <<list, elapsed, en, sts, setting, apm, line, escape,
                   linkToExhaust, recordToExhaust, arrivals, history>>

\* Before the processors resume, BSPHandler clears the software SMI and sets
\* EOS once more, whatever the dispatcher left.
ClearSmi ==
    /\ sts' = SwStatusCleared
    /\ eos' = EosAfterClear

\* The dispatcher returns and the SMI ends.
Return ==
    /\ pc = "return"
    /\ pc' = "idle"
    /\ ClearSmi
    /\ escape' = 0
    /\ eosSet' = FALSE
    /\ linkInDb' = Head
    /\ arrivals' = 0
    /\ UNCHANGED <<list, elapsed, en, setting, apm, line, linkToExhaust, recordToExhaust,
                   history>>

Dispatcher ==
    \/ DispatcherEntry \/ Iterate \/ LoopEnds
    \/ ScanNext \/ ScanFinds
    \/ ExhaustCalls \/ ExhaustSkips \/ CallbackReturns \/ QueueExhausted
    \/ SourceHandled \/ Return

Chipset == RaiseSmi \/ UsbEvent \/ \E t \in Timers : Tick(t)

Client ==
    \/ Activate
    \/ \E v \in 1 .. MaxSwi : SwSmi(v)
    \/ \E r \in Records :
         PchSmmCoreRegister(r) \/ RegistrationFails(r) \/ PchSmmCoreUnRegister(r)

Next == Chipset \/ SmiEntry \/ Dispatcher \/ Client

Spec == Init /\ [][Next]_vars

\* The chipset raises the SMI, the processor takes it, the dispatcher runs on
\* and callbacks return.
FairSpec == Spec /\ WF_vars(RaiseSmi) /\ WF_vars(SmiEntry) /\ WF_vars(Dispatcher)

-----------------------------------------------------------------------------
(* Properties.                                                             *)

\* Whenever SMM is left with children registered, EOS is set or the next SMI
\* is already on its way: "SMM Dispatcher should make sure that EOS is set
\* after all SMI sources are processed" (SmmControlDriver.c).  Without EOS no
\* source of the chipset is served any more.
ReturnsWithEos == pc = "idle" /\ fwd[Head] # Head => eos \/ line


\* Every event of an enabled source reaches the callback of every child
\* registered for it, also one that comes while a callback runs: "If there is
\* an asynchronous SMI that occurs while processing the Callback, let all of
\* the drivers (including this one) have an opportunity to scan for the SMI
\* and handle it" (PchSmmCore.c).
AllServed == \A r \in Records : owed[r] # "no" ~> owed[r] = "no"

\* PchSmmCoreDispatcher calls nobody who is not registered, although
\* callbacks change the list it walks.
CallsOnlyRegistered == [][pc # "call" /\ pc' = "call" => In(recordToExhaust')]_vars

\* Between two callbacks of a periodic timer child at least its Period has
\* passed ("The child will be called back after a time greater than the time
\* Period", SmmPeriodicTimerDispatch2.h), although PchSmmPeriodicTimer.c has
\* no clock: it adds up tick intervals each time it sees the timer active.
PeriodKept ==
    [][\A r \in Records : pc # "call" /\ pc' = "call" /\ recordToExhaust' = r
         => since[r] >= Context[r].period \/ SrcDesc(r) \notin Timers]_vars
=============================================================================
