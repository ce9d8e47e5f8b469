------------------------------ MODULE Instrument ------------------------------
(***************************************************************************)
(* A lazily priced instrument on the notification engine of Observable:    *)
(*                                                                         *)
(*   quotes -> link of a handle -> engine -> instrument -> clients         *)
(*                      evaluation date ---^                               *)
(*                                                                         *)
(* with the LazyObject it embeds (patterns/lazyobject.rs), the methods of  *)
(* InstrumentBase and Instrument (instrument.rs), the handle's Link        *)
(* (handle.rs) and the forwarding halves of link and engine                *)
(* (ResetThenNotify).  A price is the engine and the quote value it was    *)
(* computed from: all that staleness depends on.                           *)
(*                                                                         *)
(* The instrument's clients observe it (or anything else): a reader prices *)
(* the instrument in its update(), a writer changes inputs in it, a        *)
(* forwarder passes the notification on through an observable of its own,  *)
(* which engines or the instrument may observe, closing a cycle.           *)
(***************************************************************************)
EXTENDS Naturals, Sequences, FiniteSets

CONSTANTS
    Quotes, Values, Engines,
    Readers, Writers, Forwarders,
    Wirings,           \* for each observable its clients, as a program may wire them
    Fed,               \* who observes the forwarders
    Declining,         \* the forwarders that are instruments themselves
    EnginesWriteBack,  \* whether a calculation may change a quote
    MayPanic,          \* whether a writer's update() may panic
    Null               \* no pointee, no engine, no value, no price

Clients == Readers \cup Writers \cup Forwarders
Observers == {"forwarder", "updater"} \cup Engines \cup Clients
Observables == {"link", "date", "instrument"} \cup Quotes \cup Engines \cup Forwarders

\* They are different objects, and a pointee, an engine or a price is never Null.
ASSUME ObserversAssumption ==
    /\ Readers \cap Writers = {}
    /\ (Readers \cup Writers) \cap Forwarders = {}
    /\ Clients \cap Engines = {}
    /\ {"forwarder", "updater"} \cap (Clients \cup Engines) = {}
ASSUME ObservablesAssumption ==
    /\ Quotes \cap Engines = {}
    /\ (Quotes \cup Engines) \cap Forwarders = {}
    /\ {"link", "date", "instrument"} \cap (Quotes \cup Engines \cup Forwarders) = {}
ASSUME NullAssumption ==
    /\ Null \notin Values /\ Null \notin Observables
    /\ Null # <<>> /\ Null \notin Engines \X Values

ASSUME WiringsAssumption == Wirings \subseteq [Observables -> SUBSET Clients]
ASSUME DecliningAssumption == Declining \subseteq Forwarders
ASSUME FedAssumption == Fed \subseteq Engines \cup {"updater"}

\* Mutant of DeferReentrant: the updater does not override the default.
DeferReentrant_Default == [o \in Observers |-> TRUE]

\* The updater of an instrument alone answers false: it has its own guard.
DeferReentrant == [o \in Observers |-> o \notin {"updater"} \cup Declining]

VARIABLES
    registry, owned, held, stack, pending, depth, draining,   \* of Observable
    quote,     \* the value of each SimpleQuote
    target,    \* Link::current: the quote the handle points to
    expired,   \* whether the evaluation date is past the instrument's expiry
    engine,    \* InstrumentBase::engine
    lazy,      \* the flags of the instrument's LazyObject
    results,   \* InstrumentBase::results: the price last stored
    done,      \* how far each observer's current update() has come
    seen,      \* what each reader last saw
    panicked   \* whether an observer has panicked

engineVars == <<registry, owned, held, stack, pending, depth, draining>>
market == <<quote, target, expired>>
core == <<engine, lazy, results>>
bodies == <<done, seen>>
vars == <<engineVars, market, core, bodies, panicked>>

E == INSTANCE Observable WITH Wirings <- {}

-----------------------------------------------------------------------------
Price ==
    IF target = Null \/ engine = Null THEN Null
    ELSE IF quote[target] = Null THEN Null ELSE <<engine, quote[target]>>
ZeroPrice == <<>>
Current == IF expired THEN ZeroPrice ELSE Price

\* A method of the instrument under way holds it by &mut.
Method(name) == [kind |-> "method", name |-> name]
Calculation == [kind |-> "method", name |-> "calculate", priced |-> FALSE, price |-> Null]
Recalculation(frozen) == [kind |-> "method", name |-> "recalculate", frozen |-> frozen]
InMethod(name) == E!TopIs("method") /\ E!Top.name = name
Borrowed == E!At("method") # {}

InUpdate(o) == E!TopIs("update") /\ E!Top.obs = o
InUserCode == stack = <<>> \/ \E w \in Writers : InUpdate(w)

\* Nobody prices the instrument in an update(). What follows on this is what a
\* program must not do to clients that read on notification.
Unread == \A e \in registry["instrument"] : e.obs \notin Readers

\* Wirings that keep readers and writers apart: no client reads on notification,
\* or those that do, and observe anything, observe the instrument and none writes.
ReadersApart ==
    \A w \in Wirings :
        \/ \A x \in Observables : w[x] \cap Readers = {}
        \/ /\ w["instrument"] \cap Readers # {}
           /\ \A x \in Observables :
                 w[x] \cap Writers = {} /\ w[x] \cap Readers \subseteq w["instrument"]

\* Pushes frames, the last of which is a round of notify_observers.
Enters(frames) ==
    /\ stack' = stack \o frames
    /\ depth' = depth + 1
    /\ UNCHANGED <<owned, held, pending, draining>>

StaysOut == UNCHANGED <<owned, held, stack, pending, depth, draining>>

\* Moves the registration of an observer from one observable to another.
Repoint(old, new, o) ==
    LET gone == IF old = Null THEN registry
                ELSE [registry EXCEPT ![old] = E!Without(@, o)]
    IN  IF new = Null THEN gone ELSE [gone EXCEPT ![new] = E!With(@, o)]

-----------------------------------------------------------------------------
(* Inputs.                                                                 *)

\* Mutant of Stored: reset() stores a zero.
Stored_ZeroOnReset(v) == IF v = Null THEN 0 ELSE v

Stored(v) == v

\* SimpleQuote::set_value; Null is reset().
SetValue(q, v) ==
    /\ quote[q] # v
    /\ quote' = [quote EXCEPT ![q] = Stored(v)]
    /\ E!NotifyObservers(q)
    /\ UNCHANGED <<target, expired, core, bodies>>

\* RelinkableHandle::link_to; Null is reset().
LinkTo(q) ==
    /\ target' = q
    /\ registry' = Repoint(target, q, "forwarder")
    /\ Enters(<<E!Round("link")>>)
    /\ UNCHANGED <<quote, expired, core, bodies>>

\* The evaluation date moves to the other side of the expiry.
SetEvaluationDate ==
    /\ expired' = ~expired
    /\ E!NotifyObservers("date")
    /\ UNCHANGED <<quote, target, core, bodies>>

-----------------------------------------------------------------------------
(* The lazy object.                                                        *)

Invalidated(l) == [l EXCEPT !.calculated = FALSE, !.failed = FALSE]

\* Whether calculate leaves the results as they are.
Cached(l) == l.calculated \/ (~expired /\ l.frozen)

\* Instrument::calculate with the flags l on the stack s: the cache, expiry and
\* frozen guards, then the calculation is on its way (start_calculation).
Calculate(l, s) ==
    \/ /\ Cached(l)
       /\ lazy' = l
       /\ stack' = s
       /\ UNCHANGED results
    \/ /\ ~Cached(l) /\ expired
       /\ lazy' = [l EXCEPT !.calculated = TRUE, !.failed = FALSE]
       /\ results' = ZeroPrice
       /\ stack' = s
    \/ /\ ~Cached(l) /\ ~expired
       /\ lazy' = [l EXCEPT !.calculated = TRUE]
       /\ stack' = Append(s, Calculation)
       /\ UNCHANGED results

OnlyCalculates == UNCHANGED <<registry, owned, held, pending, depth, draining, market, engine>>

\* perform_calculations: the engine reads the handle ...
EngineReads ==
    /\ InMethod("calculate")
    /\ ~E!Top.priced
    /\ stack' = [stack EXCEPT ![Len(stack)].priced = TRUE, ![Len(stack)].price = Price]
    /\ OnlyCalculates
    /\ UNCHANGED <<lazy, results, bodies>>

\* ... and may write back to one of its inputs while it prices.
EngineWrites(q, v) ==
    /\ EnginesWriteBack /\ Unread
    /\ InMethod("calculate")
    /\ SetValue(q, v)

\* Mutant of Succeeded: a success marks the object calculated again.
Succeeded_Remarks(l) == [l EXCEPT !.calculated = TRUE, !.failed = FALSE]

\* finish_calculation: a success leaves calculated as it is, a failure resets it.
Succeeded(l) == [l EXCEPT !.failed = FALSE]
Failed(l) == [l EXCEPT !.calculated = FALSE, !.failed = TRUE]

CalculationEnds ==
    /\ InMethod("calculate")
    /\ E!Top.priced
    /\ stack' = E!Below
    /\ IF E!Top.price # Null
       THEN /\ results' = E!Top.price
            /\ lazy' = Succeeded(lazy)
       ELSE /\ lazy' = Failed(lazy)
            /\ UNCHANGED results
    /\ OnlyCalculates
    /\ UNCHANGED bodies

-----------------------------------------------------------------------------
(* Methods of the instrument, on an instrument nobody has borrowed.        *)

Npv ==
    /\ ~Borrowed
    /\ Calculate(lazy, stack)
    /\ OnlyCalculates
    /\ UNCHANGED bodies

Recalculate ==
    /\ ~Borrowed
    /\ Calculate([Invalidated(lazy) EXCEPT !.frozen = FALSE],
                 Append(stack, Recalculation(lazy.frozen)))
    /\ OnlyCalculates
    /\ UNCHANGED bodies

\* finish_recalculation, then the notification.
RecalculationEnds ==
    /\ InMethod("recalculate")
    /\ lazy' = [lazy EXCEPT !.frozen = E!Top.frozen]
    /\ stack' = E!Below \o <<Method("notify"), E!Round("instrument")>>
    /\ depth' = depth + 1
    /\ UNCHANGED <<registry, owned, held, pending, draining, market, engine, results, bodies>>

\* set_pricing_engine, or detach_pricing_engine with Null: the guard of the
\* deferred update is held while the clients are notified.
SwapEngine(e) ==
    /\ ~Borrowed
    /\ registry' = Repoint(engine, e, "updater")
    /\ engine' = e
    /\ \/ /\ lazy.updating
          /\ StaysOut
          /\ UNCHANGED lazy
       \/ /\ ~lazy.updating /\ lazy.frozen
          /\ lazy' = Invalidated(lazy)
          /\ StaysOut
       \/ /\ ~lazy.updating /\ ~lazy.frozen
          /\ lazy' = [Invalidated(lazy) EXCEPT !.updating = TRUE]
          /\ Enters(<<Method("swap"), E!Round("instrument")>>)
    /\ UNCHANGED <<market, results, bodies>>

\* set_pricing_engine_silent.
SwapEngineSilently(e) ==
    /\ Unread
    /\ ~Borrowed
    /\ registry' = Repoint(engine, e, "updater")
    /\ engine' = e
    /\ lazy' = Invalidated(lazy)
    /\ StaysOut
    /\ UNCHANGED <<market, results, bodies>>

Freeze ==
    /\ ~Borrowed
    /\ lazy' = [lazy EXCEPT !.frozen = TRUE]
    /\ UNCHANGED <<engineVars, market, engine, results, bodies>>

\* Mutant of Unfreeze: nobody is told.
Unfreeze_Silent ==
    /\ ~Borrowed
    /\ lazy.frozen
    /\ lazy' = [lazy EXCEPT !.frozen = FALSE]
    /\ UNCHANGED <<engineVars, market, engine, results, bodies>>

Unfreeze ==
    /\ ~Borrowed
    /\ lazy.frozen
    /\ lazy' = [lazy EXCEPT !.frozen = FALSE]
    /\ Enters(<<Method("notify"), E!Round("instrument")>>)
    /\ UNCHANGED <<registry, market, engine, results, bodies>>

\* A method that notified returns; a swap drops its deferred update.
MethodReturns ==
    /\ InMethod("swap") \/ InMethod("notify")
    /\ lazy' = IF InMethod("swap") THEN [lazy EXCEPT !.updating = FALSE] ELSE lazy
    /\ stack' = E!Below
    /\ OnlyCalculates
    /\ UNCHANGED <<results, bodies>>

-----------------------------------------------------------------------------
(* What the observers do in update().                                      *)

\* ResetThenNotify of a link, an engine or a forwarding client: pass it on.
Forwards(o, x) ==
    /\ InUpdate(o)
    /\ done[o] = "entered"
    /\ E!NotifyObservers(x)
    /\ done' = [done EXCEPT ![o] = "returning"]
    /\ UNCHANGED <<market, core, seen>>

\* Updater::update through LazyObject::deferred_update.
LazyUpdate ==
    /\ InUpdate("updater")
    /\ done["updater"] = "entered"
    /\ \/ /\ lazy.updating \/ lazy.frozen
          /\ lazy' = IF lazy.updating THEN lazy ELSE Invalidated(lazy)
          /\ done' = [done EXCEPT !["updater"] = "returning"]
          /\ UNCHANGED engineVars
       \/ /\ ~lazy.updating /\ ~lazy.frozen
          /\ lazy' = [Invalidated(lazy) EXCEPT !.updating = TRUE]
          /\ done' = [done EXCEPT !["updater"] = "guarding"]
          /\ E!NotifyObservers("instrument")
    /\ UNCHANGED <<market, engine, results, seen>>

\* A reader prices the instrument, if it can borrow it.
ReaderUpdate(c) ==
    /\ InUpdate(c)
    /\ done[c] = "entered"
    /\ \/ /\ Borrowed
          /\ done' = [done EXCEPT ![c] = "unread"]
          /\ UNCHANGED <<stack, lazy, results>>
       \/ /\ ~Borrowed
          /\ done' = [done EXCEPT ![c] = "returning"]
          /\ Calculate(lazy, stack)
    /\ OnlyCalculates
    /\ UNCHANGED seen

\* What npv() gave a reader, Null if it could not be had.
ReadResult(c) ==
    IF done[c] = "unread" \/ (lazy.failed /\ ~lazy.frozen) THEN Null ELSE results

\* update() returns: a lazy object's guard is dropped, a reader keeps its price.
Returns(o) ==
    /\ InUpdate(o)
    /\ done[o] # "entered" \/ o \in Writers
    /\ E!UpdateReturns
    /\ done' = [done EXCEPT ![o] = "entered"]
    /\ lazy' = IF done[o] = "guarding" THEN [lazy EXCEPT !.updating = FALSE] ELSE lazy
    /\ seen' = IF o \in Readers THEN [seen EXCEPT ![o] = ReadResult(o)] ELSE seen
    /\ UNCHANGED <<market, engine, results>>

-----------------------------------------------------------------------------
Wired(clients, q, e) == [x \in Observables |->
    clients[x] \cup
        (IF x = q THEN {"forwarder"} ELSE {}) \cup
        (IF x = "link" THEN Engines ELSE {}) \cup
        (IF x \in Forwarders THEN Fed ELSE {}) \cup
        (IF x = "date" \/ x = e THEN {"updater"} ELSE {})]

Init ==
    /\ quote \in [Quotes -> Values]
    /\ target \in Quotes \cup {Null}
    /\ engine \in Engines \cup {Null}
    /\ \E clients \in Wirings :
           registry = [x \in Observables |->
               {[obs |-> o, defer |-> DeferReentrant[o]] : o \in Wired(clients, target, engine)[x]}]
    /\ owned = Observers
    /\ held = {}
    /\ stack = <<>>
    /\ pending = {}
    /\ depth = 0
    /\ draining = FALSE
    /\ expired = FALSE
    /\ lazy = [calculated |-> FALSE, failed |-> FALSE, frozen |-> FALSE, updating |-> FALSE]
    /\ results = Null
    /\ done = [o \in Observers |-> "entered"]
    /\ seen = [c \in Readers |-> Null]
    /\ panicked = FALSE

\* Mutant of Panics: the mark is cleared by hand at the end, so a panic skips it.
Panics_LatchesGuard ==
    /\ MayPanic
    /\ \E c \in Writers : InUpdate(c)
    /\ E!Unwind
    /\ done' = [o \in Observers |-> "entered"]
    /\ panicked' = TRUE
    /\ UNCHANGED <<market, core, seen>>

\* A writer's update() panics: every guard on the way out is dropped, and with
\* them the mark of an update under way.
Panics ==
    /\ MayPanic
    /\ \E c \in Writers : InUpdate(c)
    /\ E!Unwind
    /\ done' = [o \in Observers |-> "entered"]
    /\ lazy' = [lazy EXCEPT !.updating = FALSE]
    /\ panicked' = TRUE
    /\ UNCHANGED <<market, engine, results, seen>>

-----------------------------------------------------------------------------
InputStep ==
    \/ \E q \in Quotes, v \in Values \cup {Null} : SetValue(q, v)
    \/ \E q \in Quotes \cup {Null} : LinkTo(q)
    \/ \E e \in Engines \cup {Null} : SwapEngine(e)
    \/ \E e \in Engines : SwapEngineSilently(e)
    \/ SetEvaluationDate \/ Freeze \/ Unfreeze

UserStep ==
    \/ /\ \/ InUserCode /\ InputStep
          \/ stack = <<>> /\ (Npv \/ Recalculate)
          \/ \E q \in Quotes, v \in Values : EngineWrites(q, v)
       /\ UNCHANGED panicked
    \/ Panics

BodyStep ==
    \/ Forwards("forwarder", "link")
    \/ \E o \in Engines \cup Forwarders : Forwards(o, o)
    \/ LazyUpdate
    \/ \E c \in Readers : ReaderUpdate(c)
    \/ \E o \in Observers : Returns(o)
    \/ EngineReads \/ CalculationEnds \/ RecalculationEnds \/ MethodReturns

NotificationStep ==
    /\ \/ \E o \in Observers, d \in BOOLEAN : E!RoundVisits([obs |-> o, defer |-> d])
       \/ E!RoundEnds
       \/ E!DrainTakes
       \/ \E o \in Observers : E!DrainVisits(o)
       \/ E!DrainEnds
    /\ UNCHANGED <<market, core, bodies>>

ProgramStep == (BodyStep \/ NotificationStep) /\ UNCHANGED panicked

Next == UserStep \/ ProgramStep

Spec == Init /\ [][Next]_vars

-----------------------------------------------------------------------------
(* What the instrument promises.                                           *)

MethodFrame ==
    [kind : {"method"}, name : {"notify", "swap"}]
    \cup [kind : {"method"}, name : {"recalculate"}, frozen : BOOLEAN]
    \cup [kind : {"method"}, name : {"calculate"}, priced : BOOLEAN,
          price : {Null} \cup (Engines \X Values)]

TypeOK ==
    /\ registry \in [Observables -> SUBSET E!Entry]
    /\ stack \in Seq(E!Frame \cup MethodFrame)
    /\ quote \in [Quotes -> Values \cup {Null}]
    /\ target \in Quotes \cup {Null}
    /\ engine \in Engines \cup {Null}
    /\ expired \in BOOLEAN
    /\ lazy \in [calculated : BOOLEAN, failed : BOOLEAN,
                 frozen : BOOLEAN, updating : BOOLEAN]
    /\ results \in {Null, ZeroPrice} \cup (Engines \X Values)
    /\ done \in [Observers -> {"entered", "returning", "guarding", "unread"}]
    /\ seen \in [Readers -> {Null, ZeroPrice} \cup (Engines \X Values)]
    /\ panicked \in BOOLEAN

\* Nothing runs and nothing is queued.
AtRest == stack = <<>> /\ pending = {}

\* Whatever mixture of relinks, quote moves, date moves, engine swaps and write
\* backs it went through, an instrument that claims a cached result at rest
\* holds the price of the quote its handle now points to, by the engine it now
\* has (notify_observers: "every observer converges on the final state").
FreshAtRest == AtRest /\ lazy.calculated => results = Current

\* Without a panic, caches at rest are current. A panic voids that: it abandons
\* the round it is in, whose other observers are never told (notify_observers), or
\* the calculation it is in, which stays marked calculated (start_calculation).
FreshUnlessPanicked == panicked \/ FreshAtRest

\* A client that prices the instrument on each notification has, at rest, seen
\* the current price, unless the instrument is frozen or it could not be priced
\* when the last notification came.
ReadersConverge ==
    AtRest /\ ~lazy.frozen => \A c \in Readers : seen[c] \in {Null, Current}

\* The recursion guard is set exactly while one deferred update is alive, held
\* by the updater or by a swap of the engine, a panic among the observers
\* included (DeferredUpdate's Drop): never latched, which would suppress every
\* later notification, and never dropped twice, which would let a cycle in.
GuardHeldOnce ==
    LET swaps == {i \in E!At("method") : stack[i].name = "swap"}
        holders == Cardinality(swaps) + IF done["updater"] = "guarding" THEN 1 ELSE 0
    IN  holders = IF lazy.updating THEN 1 ELSE 0

\* Every notification comes to an end: the guard of the instrument stops those
\* that come back to it (on_update: "the recursion guard that breaks
\* notification cycles").
ComesToRest == <>[][ProgramStep]_vars => []<>(stack = <<>>)
=============================================================================
