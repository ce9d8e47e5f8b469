------------------------------ MODULE Observable ------------------------------
(***************************************************************************)
(* The notification engine of patterns/observable.rs: the registries of    *)
(* the observables of one thread, the thread-local DEPTH, DRAINING and     *)
(* PENDING, and the call stack of notify_observers, update and             *)
(* drain_pending.                                                          *)
(*                                                                         *)
(* What an observer does in its update() is its own affair: here an update *)
(* makes any calls of the public interface, in any order, and returns or   *)
(* panics.  The order in which a round visits its snapshot (registration   *)
(* order in the code) and a drain its batch (arrival order) is left open,  *)
(* so what holds here holds whatever the order.                            *)
(***************************************************************************)
EXTENDS Naturals, Sequences, FiniteSets

CONSTANTS
    Observers,        \* the observers that exist
    Observables,      \* the observables that exist
    DeferReentrant,   \* what defer_reentrant_update() answers
    Wirings           \* the registrations a thread may start from

ASSUME DeferAssumption == DeferReentrant \in [Observers -> BOOLEAN]
ASSUME WiringAssumption == Wirings \subseteq [Observables -> SUBSET Observers]

VARIABLES
    registry,   \* Observable::observers: the entries of each observable
    owned,      \* observers some owner outside the engine keeps alive
    held,       \* observers the top level keeps mutably borrowed
    stack,      \* the calls under way, innermost last
    pending,    \* PENDING
    depth,      \* DEPTH
    draining    \* DRAINING

vars == <<registry, owned, held, stack, pending, depth, draining>>

Entry == [obs : Observers, defer : BOOLEAN]
NotifyFrame == [kind : {"notify"}, todo : SUBSET Entry]
UpdateFrame == [kind : {"update"}, obs : Observers]
DrainFrame == [kind : {"drain"}, batch : SUBSET Observers, stalled : SUBSET Observers]
Frame == NotifyFrame \cup UpdateFrame \cup DrainFrame

-----------------------------------------------------------------------------
Top == stack[Len(stack)]
TopIs(kind) == stack # <<>> /\ Top.kind = kind
Below == SubSeq(stack, 1, Len(stack) - 1)
Update(o) == [kind |-> "update", obs |-> o]

\* Where the stack holds frames of a kind.
At(kind) == {i \in DOMAIN stack : stack[i].kind = kind}

Updating == {stack[i].obs : i \in At("update")}

\* Mutant of Busy: only the borrows of the top level are seen.
Busy_OnlyOutside == held

\* An observer whose RefCell is mutably borrowed: try_borrow_mut() fails.
Busy == held \cup Updating

\* An observer that can still be upgraded: owned, running its update, or kept
\* by the strong references of a snapshot.
Alive == owned \cup Updating
               \cup UNION {{e.obs : e \in stack[i].todo} : i \in At("notify")}

Live(entries) == {e \in entries : e.obs \in Alive}

\* ObserverEntry::new: try_borrow() fails on a busy observer, which is then
\* recorded as one to defer.
NewEntry(o) == [obs |-> o, defer |-> (o \in Busy) \/ DeferReentrant[o]]

\* A set of entries with o registered or unregistered, the dead pruned.
With(entries, o) ==
    IF \E e \in Live(entries) : e.obs = o THEN Live(entries)
                                          ELSE Live(entries) \cup {NewEntry(o)}
Without(entries, o) == {e \in Live(entries) : e.obs # o}

\* The round a call of notify_observers starts: its snapshot is still to visit.
Round(x) == [kind |-> "notify", todo |-> Live(registry[x])]

-----------------------------------------------------------------------------
(* Calls of the public interface, made from the top level or an update().  *)

RegisterObserver(x, o) ==
    /\ o \in Alive
    /\ registry' = [registry EXCEPT ![x] = With(@, o)]
    /\ UNCHANGED <<owned, held, stack, pending, depth, draining>>

UnregisterObserver(x, o) ==
    /\ o \in Alive
    /\ registry' = [registry EXCEPT ![x] = Without(@, o)]
    /\ UNCHANGED <<owned, held, stack, pending, depth, draining>>

\* The last owner lets go of the observer.
DropObserver(o) ==
    /\ o \in owned \ held
    /\ owned' = owned \ {o}
    /\ UNCHANGED <<registry, held, stack, pending, depth, draining>>

\* The top level takes and releases a borrow_mut() of its own.
Hold(o) ==
    /\ stack = <<>>
    /\ o \in owned \ held
    /\ held' = held \cup {o}
    /\ UNCHANGED <<registry, owned, stack, pending, depth, draining>>

Release(o) ==
    /\ stack = <<>>
    /\ o \in held
    /\ held' = held \ {o}
    /\ UNCHANGED <<registry, owned, stack, pending, depth, draining>>

\* Mutant of NotifyObservers: busy observers are left out of the snapshot.
NotifyObservers_SkipsBusy(x) ==
    /\ registry' = [registry EXCEPT ![x] = Live(@)]
    /\ stack' = Append(stack, [kind |-> "notify",
                               todo |-> {e \in Live(registry[x]) : e.obs \notin Busy}])
    /\ depth' = depth + 1
    /\ UNCHANGED <<owned, held, pending, draining>>

\* notify_observers: prune the dead, snapshot the live, enter the round.
NotifyObservers(x) ==
    /\ registry' = [registry EXCEPT ![x] = Live(@)]
    /\ stack' = Append(stack, Round(x))
    /\ depth' = depth + 1
    /\ UNCHANGED <<owned, held, pending, draining>>

\* deliver, and the borrow_mut().update() of the top level on a free observer:
\* an update outside any registry.
Deliver(o) ==
    /\ o \in Alive
    /\ \/ /\ o \notin Busy
          /\ stack' = Append(stack, Update(o))
          /\ UNCHANGED pending
       \/ /\ o \in Busy
          /\ stack # <<>>
          /\ pending' = pending \cup {o}
          /\ UNCHANGED stack
    /\ UNCHANGED <<registry, owned, held, depth, draining>>

UpdateReturns ==
    /\ TopIs("update")
    /\ stack' = Below
    /\ UNCHANGED <<registry, owned, held, pending, depth, draining>>

\* Mutant of Unwind: the counters are reset by hand, so a panic skips it.
Unwind_NoGuards ==
    /\ TopIs("update")
    /\ stack' = <<>>
    /\ held' = {}
    /\ UNCHANGED <<registry, owned, pending, depth, draining>>

\* A panic in an update() unwinds the whole thread: the guards reset DEPTH and
\* DRAINING, the borrows are released, PENDING is left as it is.
Unwind ==
    /\ TopIs("update")
    /\ stack' = <<>>
    /\ held' = {}
    /\ depth' = 0
    /\ draining' = FALSE
    /\ UNCHANGED <<registry, owned, pending>>

-----------------------------------------------------------------------------
(* The engine's own steps.                                                 *)

\* One turn of the loop of notify_observers.
RoundVisits(e) ==
    /\ TopIs("notify")
    /\ e \in Top.todo
    /\ LET rest == [stack EXCEPT ![Len(stack)].todo = @ \ {e}]
       IN  \/ /\ e.obs \notin Busy
              /\ stack' = Append(rest, Update(e.obs))
              /\ UNCHANGED pending
           \/ /\ e.obs \in Busy
              /\ stack' = rest
              /\ pending' = IF e.defer THEN pending \cup {e.obs} ELSE pending
    /\ UNCHANGED <<registry, owned, held, depth, draining>>

\* The end of notify_observers: leave the round and, outermost, drain unless a
\* drain is already running.
RoundEnds ==
    /\ TopIs("notify")
    /\ Top.todo = {}
    /\ depth' = depth - 1
    /\ IF depth' = 0 /\ ~draining
       THEN /\ stack' = Append(Below, [kind |-> "drain", batch |-> {}, stalled |-> {}])
            /\ draining' = TRUE
       ELSE /\ stack' = Below
            /\ UNCHANGED draining
    /\ UNCHANGED <<registry, owned, held, pending>>

\* drain_pending: take all of PENDING as the next batch.
DrainTakes ==
    /\ TopIs("drain")
    /\ Top.batch = {}
    /\ pending # {}
    /\ stack' = [stack EXCEPT ![Len(stack)].batch = pending]
    /\ pending' = {}
    /\ UNCHANGED <<registry, owned, held, depth, draining>>

\* Mutant of DrainVisits: a borrowed observer goes straight back to PENDING.
DrainVisits_Requeues(o) ==
    /\ TopIs("drain")
    /\ o \in Top.batch
    /\ LET rest == [stack EXCEPT ![Len(stack)].batch = @ \ {o}]
       IN  \/ /\ o \notin Alive
              /\ stack' = rest
              /\ UNCHANGED pending
           \/ /\ o \in Alive \ Busy
              /\ stack' = Append(rest, Update(o))
              /\ UNCHANGED pending
           \/ /\ o \in Alive \cap Busy
              /\ stack' = rest
              /\ pending' = pending \cup {o}
    /\ UNCHANGED <<registry, owned, held, depth, draining>>

\* drain_pending, one observer of the batch: gone, served, or still borrowed.
DrainVisits(o) ==
    /\ TopIs("drain")
    /\ o \in Top.batch
    /\ LET rest == [stack EXCEPT ![Len(stack)].batch = @ \ {o}]
       IN  \/ /\ o \notin Alive
              /\ stack' = rest
           \/ /\ o \in Alive \ Busy
              /\ stack' = Append(rest, Update(o))
           \/ /\ o \in Alive \cap Busy
              /\ stack' = [rest EXCEPT ![Len(stack)].stalled = @ \cup {o}]
    /\ UNCHANGED <<registry, owned, held, pending, depth, draining>>

\* Mutants of DrainEnds: what stalled is forgotten; one pass, whatever arrived
\* in PENDING while the batch was served.
DrainEnds_ForgetsStalled ==
    /\ TopIs("drain")
    /\ Top.batch = {}
    /\ pending = {}
    /\ stack' = Below
    /\ draining' = FALSE
    /\ UNCHANGED <<registry, owned, held, pending, depth>>

DrainEnds_OnePass ==
    /\ TopIs("drain")
    /\ Top.batch = {}
    /\ stack' = Below
    /\ pending' = pending \cup Top.stalled
    /\ draining' = FALSE
    /\ UNCHANGED <<registry, owned, held, depth>>

\* drain_pending, nothing left to try: requeue what stalled.
DrainEnds ==
    /\ TopIs("drain")
    /\ Top.batch = {}
    /\ pending = {}
    /\ stack' = Below
    /\ pending' = Top.stalled
    /\ draining' = FALSE
    /\ UNCHANGED <<registry, owned, held, depth>>

-----------------------------------------------------------------------------
Init ==
    /\ \E w \in Wirings :
           registry = [x \in Observables |->
               {[obs |-> o, defer |-> DeferReentrant[o]] : o \in w[x]}]
    /\ owned = Observers
    /\ held = {}
    /\ stack = <<>>
    /\ pending = {}
    /\ depth = 0
    /\ draining = FALSE

UserStep ==
    /\ stack = <<>> \/ TopIs("update")
    /\ \/ \E x \in Observables, o \in Observers :
              RegisterObserver(x, o) \/ UnregisterObserver(x, o)
       \/ \E o \in Observers : DropObserver(o) \/ Hold(o) \/ Release(o) \/ Deliver(o)
       \/ \E x \in Observables : NotifyObservers(x)
       \/ Unwind

EngineStep ==
    \/ UpdateReturns
    \/ \E o \in Observers, d \in BOOLEAN : RoundVisits([obs |-> o, defer |-> d])
    \/ RoundEnds
    \/ DrainTakes
    \/ \E o \in Observers : DrainVisits(o)
    \/ DrainEnds

Next == UserStep \/ EngineStep

Spec == Init /\ [][Next]_vars

-----------------------------------------------------------------------------
(* What the engine promises.                                               *)

TypeOK ==
    /\ registry \in [Observables -> SUBSET Entry]
    /\ owned \subseteq Observers
    /\ held \subseteq Observers
    /\ stack \in Seq(Frame)
    /\ pending \subseteq Observers
    /\ depth \in Nat
    /\ draining \in BOOLEAN

\* The deliveries a call under way still owes to observers that may not be
\* skipped, and all those of the engine.
OwedBy(f) ==
    CASE f.kind = "notify" -> {e.obs : e \in {d \in f.todo : d.defer}}
      [] f.kind = "drain"  -> f.batch \cup f.stalled
      [] OTHER             -> {}

Outstanding == pending \cup UNION {OwedBy(stack[i]) : i \in DOMAIN stack}

\* A notification once due to a deferring observer stays due, in a snapshot, a
\* batch, the stalled list or PENDING, until that observer's update() starts, or
\* it dies; only a panic may discard it (notify_observers: "Instead of dropping
\* the notification, the round queues it").
NothingLost ==
    [][\A o \in Outstanding \ Outstanding' :
           \/ o \in Updating' \ Updating
           \/ o \notin Alive
           \/ Unwind]_vars

\* A round makes a notification due to every live observer registered to be
\* deferred, those that are mid-update or borrowed elsewhere included.
RoundReachesAll ==
    [][\A x \in Observables : NotifyObservers(x) =>
           \A e \in registry[x] :
               e.defer /\ e.obs \in Alive => e.obs \in Outstanding']_vars

\* When the outermost notification has drained, only observers some code still
\* keeps borrowed remain queued (drain_pending: "it stays queued for the next
\* outermost notification rather than spinning").
OnlyBusyStayQueued == [][DrainEnds => pending' \subseteq Busy']_vars

\* No update() runs on an observer whose RefCell is already mutably borrowed, by
\* the top level or by an earlier update() on the stack (try_borrow_mut).
NoSecondBorrow ==
    /\ held \cap Updating = {}
    /\ \A i, j \in At("update") : stack[i].obs = stack[j].obs => i = j

\* DEPTH counts the rounds under way and DRAINING is set exactly while the one
\* drain runs, whatever the nesting, and also after a panic (DepthGuard,
\* DrainGuard): an idle thread is never left believing that a round or a drain
\* is under way, which would keep PENDING from ever being drained again.
GuardsMatchStack ==
    /\ depth = Cardinality(At("notify"))
    /\ draining <=> At("drain") # {}
    /\ \A i, j \in At("drain") : i = j

\* Registration is idempotent by observer: however it is interleaved with
\* updates and drops, an observable has one entry per observer, even where the
\* deferral recorded would differ.
OneEntryPerObserver ==
    \A x \in Observables : \A e, f \in registry[x] : e.obs = f.obs => e = f

\* Once the updates make no further calls every outermost call comes to an end,
\* the drain included, though it meets observers it cannot borrow.
ComesToRest == <>[][EngineStep]_vars => []<>(stack = <<>>)
=============================================================================
