------------------------------ MODULE MultiCurve ------------------------------
(***************************************************************************)
(* A set of curves that depend on each other, bootstrapped together, on    *)
(* the notification engine of Observable:                                  *)
(*                                                                         *)
(*   quotes -> rate helpers -> contributors -> users, consumers            *)
(*     |   evaluation date ---^                                            *)
(*     +-> passives (spreaded curves) -> users, consumers                  *)
(*                                                                         *)
(* The MultiCurve (multicurve.rs) observes what its members observe and    *)
(* fans each notification out to all of them.  Reading a contributor (a    *)
(* PiecewiseYieldCurve) that is not calculated runs the joint solve of     *)
(* MultiCurveBootstrap (globalbootstrap.rs), which writes trial points     *)
(* into all contributors and notifies the passives before it evaluates     *)
(* each.  Internal handles are weak and unobserved: no registration leads  *)
(* from one member to another.                                             *)
(*                                                                         *)
(* Consumers read a member when asked and cache what they read until they  *)
(* are notified, as instruments do; users run arbitrary code in update().  *)
(* The nodes of a curve are the inputs they were solved from.              *)
(***************************************************************************)
EXTENDS Naturals, Sequences, FiniteSets

CONSTANTS
    Contributors, Passives,
    Helpers, Fits,       \* the curve each helper is fitted by
    Base,                \* the contributor under each passive
    Quotes, Feeds,       \* the helpers and passives that observe each quote
    Values,
    Moving,              \* the contributors that follow the evaluation date
    Kept,                \* the members somebody holds besides the MultiCurve
    Consumers, Consumes, \* the member each consumer reads
    Users, Watched,      \* the members every user observes
    MaxPoints,           \* trial points of a solve
    Trial, Null          \* nodes of a solve under way; no value

Members == Contributors \cup Passives
Observers == Members \cup Helpers \cup Consumers \cup Users \cup {"multicurve"}
Observables == Members \cup Helpers \cup Quotes \cup {"date"}

\* They are different objects.
ASSUME ObserversAssumption ==
    /\ Contributors \cap Passives = {}
    /\ Members \cap Helpers = {}
    /\ (Members \cup Helpers) \cap Consumers = {}
    /\ (Members \cup Helpers \cup Consumers) \cap Users = {}
    /\ "multicurve" \notin Members \cup Helpers \cup Consumers \cup Users
ASSUME ObservablesAssumption ==
    /\ Quotes \cap (Members \cup Helpers) = {}
    /\ "date" \notin Quotes \cup Members \cup Helpers

ASSUME FitsAssumption == Fits \in [Helpers -> Contributors]
ASSUME BaseAssumption == Base \in [Passives -> Contributors]
ASSUME FeedsAssumption == Feeds \in [Quotes -> SUBSET (Helpers \cup Passives)]
ASSUME ConsumesAssumption == Consumes \in [Consumers -> Members]
ASSUME MovingAssumption == Moving \subseteq Contributors
ASSUME MaxPointsAssumption == MaxPoints \in Nat \ {0}
ASSUME NullAssumption == Null \notin Values

\* Mutant of DeferReentrant: the curve's updater declines, as an instrument's does.
DeferReentrant_Lazy == [o \in Observers |-> o \notin {"multicurve"} \cup Contributors]

\* The curve's updater keeps the default, that of the MultiCurve declines.
DeferReentrant == [o \in Observers |-> o # "multicurve"]

VARIABLES
    registry, owned, held, stack, pending, depth, draining,   \* of Observable
    quote,       \* the value of each quote, Null for an invalid one
    date,        \* the evaluation date
    calculated,  \* the contributors whose LazyObject is calculated
    nodes,       \* CurveData::data of each contributor
    cache,       \* what each consumer holds, Null when not calculated
    done,        \* how far each observer's current update() has come
    left,        \* the members the fan-out has yet to reach
    panicked,    \* whether the thread has panicked
    missed       \* caches that were not invalidated, or filled in the middle of a solve

engineVars == <<registry, owned, held, stack, pending, depth, draining>>
market == <<quote, date>>
curves == <<calculated, nodes>>
bodies == <<done, left>>
vars == <<engineVars, market, curves, cache, bodies, panicked, missed>>

E == INSTANCE Observable WITH Wirings <- {}

-----------------------------------------------------------------------------
FittedQuotes == {q \in Quotes : Feeds[q] \cap Helpers # {}}
QuotesOf(c) == {q \in Quotes : \E h \in Feeds[q] \cap Helpers : Fits[h] = c}
SpreadsOf(n) == {q \in Quotes : n \in Feeds[q]}

\* What a solve now arrives at; without a moving curve it does not depend on the date.
Solution == [quotes |-> [q \in FittedQuotes |-> quote[q]], date |-> Moving # {} /\ date]
Solutions == [quotes : [FittedQuotes -> Values], date : BOOLEAN]

Valid(c) == \A q \in QuotesOf(c) : quote[q] # Null

\* What reading a member that need not be solved gives.
Reading(m) ==
    IF m \in Contributors THEN nodes[m]
    ELSE <<nodes[Base[m]], [q \in SpreadsOf(m) |-> quote[q]]>>

\* The contributor a read of a member calculates.
Under(m) == IF m \in Contributors THEN m ELSE Base[m]

InUpdate(o) == E!TopIs("update") /\ E!Top.obs = o
InUserCode == stack = <<>> \/ \E u \in Users : InUpdate(u)

Solve == [kind |-> "solve", points |-> 1, told |-> {}]

-----------------------------------------------------------------------------
(* Inputs.                                                                 *)

\* SimpleQuote::set_value, or reset with Null.
SetQuote(q, v) ==
    /\ quote[q] # v
    /\ quote' = [quote EXCEPT ![q] = v]
    /\ E!NotifyObservers(q)
    /\ UNCHANGED <<date, curves, cache, bodies, panicked, missed>>

SetDate ==
    /\ date' = ~date
    /\ E!NotifyObservers("date")
    /\ UNCHANGED <<quote, curves, cache, bodies, panicked, missed>>

\* The caller lets go of the MultiCurve, and with it of the members nobody holds.
DropMultiCurve ==
    /\ stack = <<>>
    /\ "multicurve" \in owned
    /\ owned' = owned \ ({"multicurve"} \cup (Members \ Kept))
    /\ UNCHANGED <<registry, held, stack, pending, depth, draining,
                   market, curves, cache, bodies, panicked, missed>>

-----------------------------------------------------------------------------
(* The joint solve.                                                        *)

OnlySolves == UNCHANGED <<registry, owned, held, pending, depth, draining, market, cache, bodies>>

\* A read of c has to calculate: not if a contributor was dropped, which is an error.
Asked(c) == c \notin calculated /\ Contributors \subseteq owned

\* Mutant of SetupFails: the one that failed is not counted as set up.
SetupFails_AfterCall(c) ==
    /\ Asked(c)
    /\ \E before \in SUBSET {x \in Contributors : Valid(x)},
          bad \in {x \in Contributors : ~Valid(x)} :
          LET set_up == before \cup {bad} IN
          /\ calculated' = ((calculated \ before) \cup {bad}) \ {c}
          /\ nodes' = [x \in Contributors |-> IF x \in set_up THEN Trial ELSE nodes[x]]
    /\ OnlySolves
    /\ UNCHANGED <<stack, panicked, missed>>

\* setup_cost_function meets an invalid quote: those set up so far, that one
\* included, are invalidated, and c by finish_calculation.
SetupFails(c) ==
    /\ Asked(c)
    /\ \E before \in SUBSET {x \in Contributors : Valid(x)},
          bad \in {x \in Contributors : ~Valid(x)} :
          LET set_up == before \cup {bad} IN
          /\ calculated' = calculated \ (set_up \cup {c})
          /\ nodes' = [x \in Contributors |-> IF x \in set_up THEN Trial ELSE nodes[x]]
    /\ OnlySolves
    /\ UNCHANGED <<stack, panicked, missed>>

\* Every contributor is set up, marked calculated, and holds the first trial point.
SolveStarts(c) ==
    /\ Asked(c)
    /\ \A x \in Contributors : Valid(x)
    /\ calculated' = Contributors
    /\ nodes' = [x \in Contributors |-> Trial]
    /\ stack' = Append(stack, Solve)
    /\ OnlySolves
    /\ UNCHANGED <<panicked, missed>>

\* A RefCell borrowed twice: everything on the stack unwinds.
Panic ==
    /\ stack' = <<>>
    /\ held' = {}
    /\ depth' = 0
    /\ draining' = FALSE
    /\ done' = [o \in Observers |-> "entered"]
    /\ left' = {}
    /\ panicked' = TRUE
    /\ UNCHANGED <<registry, owned, pending, market, curves, cache, missed>>

\* Who hears of a trial point: the passives that live.
Told == Passives \cap E!Alive

\* try_values, between set and evaluate.
SolveTells(n) ==
    /\ E!TopIs("solve")
    /\ n \in Told \ E!Top.told
    /\ \/ /\ n \in E!Busy
          /\ Panic
       \/ /\ n \notin E!Busy
          /\ stack' = Append(Append(E!Below, [E!Top EXCEPT !.told = @ \cup {n}]), E!Update(n))
          /\ OnlySolves
          /\ UNCHANGED <<curves, panicked, missed>>

Evaluating ==
    /\ E!TopIs("solve")
    /\ Told \subseteq E!Top.told

\* evaluate_cost_function reads every contributor: one that was invalidated
\* meanwhile starts another solve, which finds the state of this one borrowed.
EvaluationPanics ==
    /\ Evaluating
    /\ calculated # Contributors
    /\ Panic

\* Mutant of NextPoint: the trial points are not counted.
NextPoint_Uncounted ==
    /\ Evaluating
    /\ calculated = Contributors
    /\ nodes' = [x \in Contributors |-> Trial]
    /\ stack' = Append(E!Below, [E!Top EXCEPT !.told = {}])
    /\ OnlySolves
    /\ UNCHANGED <<calculated, panicked, missed>>

\* The solver asks for the residuals of another trial point.
NextPoint ==
    /\ Evaluating
    /\ calculated = Contributors
    /\ E!Top.points < MaxPoints
    /\ nodes' = [x \in Contributors |-> Trial]
    /\ stack' = Append(E!Below, [E!Top EXCEPT !.points = @ + 1, !.told = {}])
    /\ OnlySolves
    /\ UNCHANGED <<calculated, panicked, missed>>

\* set_to_valid pins the solution; the marks are left as they are.
SolveSucceeds ==
    /\ Evaluating
    /\ calculated = Contributors
    /\ \A x \in Contributors : Valid(x)
    /\ nodes' = [x \in Contributors |-> Solution]
    /\ stack' = E!Below
    /\ OnlySolves
    /\ UNCHANGED <<calculated, panicked, missed>>

\* The solver gives up, or an evaluation erred: run reverts every mark.
SolveFails ==
    /\ Evaluating
    /\ calculated = Contributors
    /\ calculated' = {}
    /\ stack' = E!Below
    /\ OnlySolves
    /\ UNCHANGED <<nodes, panicked, missed>>

\* A consumer is asked for a value and caches it, unless the spread is invalid.
Consume(k) ==
    /\ cache[k] = Null
    /\ Consumes[k] \in owned
    /\ \A q \in Quotes : Consumes[k] \in Feeds[q] => quote[q] # Null
    /\ Under(Consumes[k]) \in calculated
    /\ cache' = [cache EXCEPT ![k] = Reading(Consumes[k])]
    /\ missed' = IF Under(Consumes[k]) \in missed \/ E!At("solve") # {}
                 THEN missed \cup {k} ELSE missed
    /\ UNCHANGED <<engineVars, market, curves, bodies, panicked>>

-----------------------------------------------------------------------------
(* What the observers do in update().                                      *)

Enters(o) == InUpdate(o) /\ done[o] = "entered"
Leaving(o) == done' = [done EXCEPT ![o] = "returning"]

\* A helper or a passive passes the notification on.
Forwards(o) ==
    /\ Enters(o)
    /\ Leaving(o)
    /\ E!NotifyObservers(o)
    /\ UNCHANGED <<market, curves, cache, left, panicked, missed>>

\* CurveUpdater::update: a curve always forwards. The guard of its LazyObject is
\* set only while its updater is borrowed, so it never turns anything away.
CurveUpdate(c) ==
    /\ Enters(c)
    /\ Leaving(c)
    /\ calculated' = calculated \ {c}
    /\ missed' = missed \ {c}
    /\ E!NotifyObservers(c)
    /\ UNCHANGED <<market, nodes, cache, left, panicked>>

ConsumerUpdate(k) ==
    /\ Enters(k)
    /\ Leaving(k)
    /\ cache' = [cache EXCEPT ![k] = Null]
    /\ missed' = missed \ {k}
    /\ UNCHANGED <<engineVars, market, curves, left, panicked>>

\* MultiCurve::update: over a snapshot of the members ...
FanOutStarts ==
    /\ Enters("multicurve")
    /\ Leaving("multicurve")
    /\ left' = Members
    /\ UNCHANGED <<engineVars, market, curves, cache, panicked, missed>>

\* What a notification would have invalidated that does not reach these members.
Stale(members) ==
    (calculated \cap members)
    \cup {k \in Consumers : cache[k] # Null /\ Consumes[k] \in members}

\* Mutant of FansOut: a borrowed member ends the loop.
FansOut_Stops(m) ==
    /\ InUpdate("multicurve")
    /\ m \in left
    /\ \/ /\ m \in E!Busy
          /\ left' = {}
          /\ missed' = missed \cup Stale({m})
          /\ UNCHANGED stack
       \/ /\ m \notin E!Busy
          /\ left' = left \ {m}
          /\ stack' = Append(stack, E!Update(m))
          /\ UNCHANGED missed
    /\ UNCHANGED <<registry, owned, held, pending, depth, draining,
                   market, curves, cache, done, panicked>>

\* ... each updated directly, or skipped while its updater is borrowed.
FansOut(m) ==
    /\ InUpdate("multicurve")
    /\ m \in left
    /\ left' = left \ {m}
    /\ \/ /\ m \in E!Busy
          /\ missed' = missed \cup Stale({m})
          /\ UNCHANGED stack
       \/ /\ m \notin E!Busy
          /\ stack' = Append(stack, E!Update(m))
          /\ UNCHANGED missed
    /\ UNCHANGED <<registry, owned, held, pending, depth, draining,
                   market, curves, cache, done, panicked>>

Returns(o) ==
    /\ InUpdate(o)
    /\ done[o] = "returning" \/ o \in Users
    /\ o = "multicurve" => left = {}
    /\ E!UpdateReturns
    /\ done' = [done EXCEPT ![o] = "entered"]
    /\ UNCHANGED <<market, curves, cache, left, panicked, missed>>

-----------------------------------------------------------------------------
\* Who observes what. register_upstream puts the MultiCurve beside the members'
\* own updaters on their helpers, spreads and, if they move, the date.
Wired(x) ==
    IF x \in Quotes
    THEN Feeds[x] \cup (IF Feeds[x] \cap Passives # {} THEN {"multicurve"} ELSE {})
    ELSE IF x \in Helpers THEN {Fits[x], "multicurve"}
    ELSE IF x \in Members
    THEN {k \in Consumers : Consumes[k] = x} \cup (IF x \in Watched THEN Users ELSE {})
    ELSE Moving \cup (IF Moving # {} THEN {"multicurve"} ELSE {})

Init ==
    /\ quote \in [Quotes -> Values]
    /\ date = FALSE
    /\ registry = [x \in Observables |->
           {[obs |-> o, defer |-> DeferReentrant[o]] : o \in Wired(x)}]
    /\ owned = Observers
    /\ held = {}
    /\ stack = <<>>
    /\ pending = {}
    /\ depth = 0
    /\ draining = FALSE
    /\ calculated = {}
    /\ nodes = [c \in Contributors |-> Null]
    /\ cache = [k \in Consumers |-> Null]
    /\ done = [o \in Observers |-> "entered"]
    /\ left = {}
    /\ panicked = FALSE
    /\ missed = {}

UserStep ==
    /\ InUserCode
    /\ \/ \E q \in Quotes, v \in Values \cup {Null} : SetQuote(q, v)
       \/ SetDate
       \/ DropMultiCurve
       \/ \E c \in Contributors : SetupFails(c) \/ SolveStarts(c)
       \/ \E k \in Consumers : Consume(k)

BodyStep ==
    \/ \E o \in Helpers \cup Passives : Forwards(o)
    \/ \E c \in Contributors : CurveUpdate(c)
    \/ \E k \in Consumers : ConsumerUpdate(k)
    \/ FanOutStarts
    \/ \E m \in Members : FansOut(m)
    \/ \E o \in Observers : Returns(o)

SolveStep ==
    \/ \E n \in Members : SolveTells(n)
    \/ EvaluationPanics \/ NextPoint \/ SolveSucceeds \/ SolveFails

\* A round that finds the MultiCurve updating drops the notification.
NotificationStep ==
    /\ \/ \E o \in Observers, d \in BOOLEAN :
              /\ E!RoundVisits([obs |-> o, defer |-> d])
              /\ missed' = IF o = "multicurve" /\ o \in E!Busy THEN missed \cup Stale(Members)
                                                                 ELSE missed
       \/ /\ \/ E!RoundEnds
             \/ E!DrainTakes
             \/ \E o \in Observers : E!DrainVisits(o)
             \/ E!DrainEnds
          /\ UNCHANGED missed
    /\ UNCHANGED <<market, curves, cache, bodies, panicked>>

ProgramStep == ~panicked /\ (BodyStep \/ SolveStep \/ NotificationStep)

Next == (~panicked /\ UserStep) \/ ProgramStep

Spec == Init /\ [][Next]_vars

-----------------------------------------------------------------------------
(* What the assembly promises.                                             *)

SolveFrame == [kind : {"solve"}, points : 1..MaxPoints, told : SUBSET Passives]

TypeOK ==
    /\ registry \in [Observables -> SUBSET E!Entry]
    /\ owned \subseteq Observers
    /\ stack \in Seq(E!Frame \cup SolveFrame)
    /\ pending \subseteq Observers
    /\ quote \in [Quotes -> Values \cup {Null}]
    /\ date \in BOOLEAN
    /\ calculated \subseteq Contributors
    /\ nodes \in [Contributors -> Solutions \cup {Trial, Null}]
    /\ DOMAIN cache = Consumers
    /\ done \in [Observers -> {"entered", "returning"}]
    /\ left \subseteq Members
    /\ panicked \in BOOLEAN
    /\ missed \subseteq Contributors \cup Consumers

\* Outside a solve, what is marked calculated holds a complete joint solution: a
\* solve that failed at any point reverted every mark it had made (run: "never
\* returns Err with a contributor still marked calculated").
NoHalfSolved ==
    E!At("solve") = {} /\ ~panicked => \A c \in calculated : nodes[c] \in Solutions

\* Nothing runs and nothing is queued.
AtRest == stack = <<>> /\ pending = {} /\ ~panicked

\* As long as the MultiCurve is there, every contributor that claims to be calculated
\* at rest holds the joint solution for the current quotes and date, its own and the
\* other members', and every consumer what its member gives; except those that a
\* fan-out passed over, or was not started for, in the middle of an update in which
\* they had been calculated again (MultiCurve::update, defer_reentrant_update), and
\* those that read a trial point, out of an update of a passive by the solve.
FreshUnlessMissed ==
    AtRest /\ "multicurve" \in owned =>
        /\ \A c \in calculated \ missed : nodes[c] = Solution
        /\ \A k \in Consumers \ missed :
              cache[k] # Null /\ Under(Consumes[k]) \in calculated \ missed =>
                  cache[k] = Reading(Consumes[k])

\* The own inputs of a curve always reach it, whatever the MultiCurve missed or whether it
\* is still there: at rest no curve claims to be calculated for an earlier value of a
\* quote of its helpers or, if it moves, of the date, though its updater was busy
\* when they changed (CurveUpdater, unlike an instrument's updater, is replayed).
OwnInputsReach ==
    AtRest => \A c \in calculated \cap owned :
        /\ \A q \in QuotesOf(c) : nodes[c].quotes[q] = quote[q]
        /\ c \in Moving => nodes[c].date = date

\* The solve only ever borrows what is free: it neither meets a passive whose update is
\* already on the stack, nor has a contributor invalidated under it, which would
\* send it into itself (MultiCurve::update: "a plain borrow_mut would panic on the
\* live borrow"; StackedCost: the notify loop walks observers and never contributors).
NoSecondBorrow == ~panicked

\* Every call ends once user code makes no new ones, replays of curves included.
ComesToRest == <>[][ProgramStep]_vars => []<>(stack = <<>>)
=============================================================================
