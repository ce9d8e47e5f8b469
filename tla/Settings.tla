------------------------------ MODULE Settings ------------------------------
(***************************************************************************)
(* The evaluation date and the index fixings of Settings (settings.rs), on *)
(* which lazily calculated objects depend: each reads one fixing of one    *)
(* index (InterestRateIndex's Index::fixing) or the date of its latest     *)
(* one, caches what it read and is invalidated through the index's         *)
(* forwarder, registered with the date and with the fixings of its name.   *)
(*                                                                         *)
(* User code calls the settings and the readers, also out of the update()  *)
(* of an observer of its own.  The order in which a round visits its       *)
(* observers is left open; what happens to an observer that is notified    *)
(* while it is updating is the subject of Observable.                      *)
(***************************************************************************)
EXTENDS Integers, Sequences

CONSTANTS
    Names,      \* the spellings of index names
    Uppercase,  \* str::to_uppercase on them
    MinDate, MaxDate,      \* Date::min_date and max_date, as serial numbers
    Rates, Close,  \* rates, and which of them math::comparison::close equates
    Batches,    \* the arguments of add_fixings
    Readers,
    Reads,      \* the index name, the date and the today's-fixing policy of each
    Users,      \* the observers that run user code
    Null, Error, Forecast

Dates == MinDate..MaxDate
Keys == {Uppercase[n] : n \in Names}
Observers == Readers \cup Users
Observables == Keys \cup {"date"}

ASSUME NamesAssumption == Uppercase \in [Names -> Names] /\ "date" \notin Names
ASSUME DatesAssumption == MinDate \in Int /\ MaxDate \in Int /\ Null \notin Dates
ASSUME RatesAssumption ==
    /\ Null \notin Rates
    /\ \A h \in [Dates -> Rates \cup {Null}] : h # Null
    /\ \A x \in Rates : <<x, x>> \in Close
ASSUME BatchesAssumption == Batches \subseteq Seq(Dates \X Rates)
ASSUME ReadsAssumption ==
    Reads \in [Readers -> [name : Names, date : Dates \cup {Null}, forecast : BOOLEAN]]
ASSUME ObserversAssumption == Readers \cap Users = {}

VARIABLES
    evaluation_date,
    enforces,   \* enforces_todays_historic_fixings
    store,      \* fixing_store: the history of each name, Null without an entry
    registered, \* the observers of the date and of each fixing notifier
    reader,     \* the cache of each reader
    stack       \* the calls under way

vars == <<evaluation_date, enforces, store, registered, reader, stack>>

-----------------------------------------------------------------------------
(* The store.                                                              *)

fixing_key(n) == Uppercase[n]

NoFixings == [d \in Dates |-> Null]
History(k) == IF store[k] = Null THEN NoFixings ELSE store[k]

\* Mutant of Conflicts: only the first fixing of a batch is looked at.
Conflicts_First(k, batch) ==
    /\ batch # <<>>
    /\ History(k)[batch[1][1]] # Null
    /\ <<History(k)[batch[1][1]], batch[1][2]>> \notin Close

\* Whether a fixing of the batch contradicts one on record (not one of the batch).
Conflicts(k, batch) ==
    \E i \in 1..Len(batch) : LET existing == History(k)[batch[i][1]] IN
        existing # Null /\ <<existing, batch[i][2]>> \notin Close

\* The last fixing of a date wins, also over one on record that is close to it.
Recorded(history, batch) ==
    [d \in Dates |->
        LET repeats == {i \in 1..Len(batch) : batch[i][1] = d}
        IN  IF repeats = {} THEN history[d]
            ELSE batch[CHOOSE i \in repeats : \A j \in repeats : j <= i][2]]

last_fixing_date(history) ==
    LET known == {d \in Dates : history[d] # Null}
    IN  IF known = {} THEN Error ELSE CHOOSE d \in known : \A e \in known : e <= d

\* Index::fixing of an interest-rate index: forecast, past, or today's.
Fixing(history, date, forecast, enforced) ==
    LET today == evaluation_date IN
    CASE today = Null -> Error
      [] today # Null /\ (date > today \/ (date = today /\ forecast)) -> Forecast
      [] today # Null /\ ~(date > today \/ (date = today /\ forecast)) ->
             IF history[date] # Null THEN history[date]
             ELSE IF date < today \/ enforced THEN Error ELSE Forecast

\* What a reader would read now, with the given enforcement of today's fixing.
Value(r, enforced) ==
    LET history == History(fixing_key(Reads[r].name))
    IN  IF Reads[r].date = Null THEN last_fixing_date(history)
        ELSE Fixing(history, Reads[r].date, Reads[r].forecast, enforced)

-----------------------------------------------------------------------------
(* Calls under way.                                                        *)

\* A round of notify_observers, with the observers it has left to visit.
Round(x) == [kind |-> "round", at |-> x, left |-> registered[x]]
\* A clear, with the names it has left to announce and those it will remove.
Clear(keys, scope) == [kind |-> "clear", keys |-> keys, scope |-> scope]
Update(u) == [kind |-> "update", user |-> u]

Top == stack[Len(stack)]
TopIs(kind) == stack # <<>> /\ Top.kind = kind
Below == SubSeq(stack, 1, Len(stack) - 1)
Enters(frame) == stack' = Append(stack, frame)

InUserCode == stack = <<>> \/ TopIs("update")

\* Whether a clear that will remove the history of k is under way.
Clearing(k) == \E i \in 1..Len(stack) : stack[i].kind = "clear" /\ k \in stack[i].scope

-----------------------------------------------------------------------------
(* What user code calls.                                                   *)

\* set_evaluation_date, or reset_evaluation_date with Null: in place before the
\* notification, and nothing at all if it is the date already.
SetEvaluationDate(d) ==
    /\ evaluation_date # d
    /\ evaluation_date' = d
    /\ Enters(Round("date"))
    /\ UNCHANGED <<enforces, store, registered, reader>>

\* The flags have no observers.
SetEnforces ==
    /\ enforces' = ~enforces
    /\ UNCHANGED <<evaluation_date, store, registered, reader, stack>>

\* register_fixing_observer, register_eval_date_observer.
Register(x, u) ==
    /\ registered' = [registered EXCEPT ![x] = @ \cup {u}]
    /\ UNCHANGED <<evaluation_date, enforces, store, reader, stack>>

\* A batch with a conflict is rejected as a whole and changes nothing.
AddFixings(n, batch) ==
    LET k == fixing_key(n) IN
    /\ ~Conflicts(k, batch)
    /\ store' = [store EXCEPT ![k] = Recorded(History(k), batch)]
    /\ Enters(Round(k))
    /\ UNCHANGED <<evaluation_date, enforces, registered, reader>>

ClearFixing(n) ==
    /\ Enters(Clear({fixing_key(n)}, {fixing_key(n)}))
    /\ UNCHANGED <<evaluation_date, enforces, store, registered, reader>>

\* Mutant of ClearFixings: nobody is told.
ClearFixings_Silent ==
    /\ Enters(Clear({}, Keys))
    /\ UNCHANGED <<evaluation_date, enforces, store, registered, reader>>

\* The names are listed once, before the first notification.
ClearFixings ==
    /\ Enters(Clear({k \in Keys : store[k] # Null}, Keys))
    /\ UNCHANGED <<evaluation_date, enforces, store, registered, reader>>

\* A reader is asked for its value; one it cannot get is not cached. How it was
\* calculated is kept for the properties.
Read(r) ==
    /\ ~reader[r].calculated
    /\ Value(r, enforces) # Error
    /\ reader' = [reader EXCEPT ![r] =
           [calculated |-> TRUE, value |-> Value(r, enforces), enforced |-> enforces,
            clearing |-> Clearing(fixing_key(Reads[r].name))]]
    /\ UNCHANGED <<evaluation_date, enforces, store, registered, stack>>

-----------------------------------------------------------------------------
(* Notifications.                                                          *)

Visited(o) == Append(Below, [Top EXCEPT !.left = @ \ {o}])

\* A reader is invalidated; user code is entered, unless it is updating already.
RoundVisits(o) ==
    /\ TopIs("round")
    /\ o \in Top.left
    /\ IF o \in Readers
       THEN /\ reader' = [reader EXCEPT ![o].calculated = FALSE]
            /\ stack' = Visited(o)
       ELSE /\ UNCHANGED reader
            /\ stack' = IF \E i \in 1..Len(stack) : stack[i] = Update(o)
                        THEN Visited(o) ELSE Append(Visited(o), Update(o))
    /\ UNCHANGED <<evaluation_date, enforces, store, registered>>

RoundEnds ==
    /\ TopIs("round")
    /\ Top.left = {}
    /\ stack' = Below
    /\ UNCHANGED <<evaluation_date, enforces, store, registered, reader>>

UpdateReturns ==
    /\ TopIs("update")
    /\ stack' = Below
    /\ UNCHANGED <<evaluation_date, enforces, store, registered, reader>>

\* Mutant of ClearAnnounces: the names are listed anew after each notification.
ClearAnnounces_ListsAnew(k) ==
    /\ TopIs("clear")
    /\ k \in Top.keys
    /\ stack' = Append(Append(Below, [Top EXCEPT !.keys = {x \in Top.scope : store[x] # Null}]),
                     Round(k))
    /\ UNCHANGED <<evaluation_date, enforces, store, registered, reader>>

\* A clear announces the next name, in any order (a HashMap's keys) ...
ClearAnnounces(k) ==
    /\ TopIs("clear")
    /\ k \in Top.keys
    /\ stack' = Append(Append(Below, [Top EXCEPT !.keys = @ \ {k}]), Round(k))
    /\ UNCHANGED <<evaluation_date, enforces, store, registered, reader>>

\* ... and, when all have been, removes what there is by then.
ClearRemoves ==
    /\ TopIs("clear")
    /\ Top.keys = {}
    /\ store' = [k \in Keys |-> IF k \in Top.scope THEN Null ELSE store[k]]
    /\ stack' = Below
    /\ UNCHANGED <<evaluation_date, enforces, registered, reader>>

-----------------------------------------------------------------------------
Init ==
    /\ evaluation_date = Null
    /\ enforces = FALSE
    /\ store = [k \in Keys |-> Null]
    /\ registered = [x \in Observables |->
           {r \in Readers : x \in {"date", fixing_key(Reads[r].name)}}]
    /\ reader = [r \in Readers |->
           [calculated |-> FALSE, value |-> Null, enforced |-> FALSE, clearing |-> FALSE]]
    /\ stack = <<>>

UserStep ==
    /\ InUserCode
    /\ \/ \E d \in Dates \cup {Null} : SetEvaluationDate(d)
       \/ SetEnforces
       \/ \E x \in Observables, u \in Users : Register(x, u)
       \/ \E n \in Names, batch \in Batches : AddFixings(n, batch)
       \/ \E n \in Names : ClearFixing(n)
       \/ ClearFixings
       \/ \E r \in Readers : Read(r)

ProgramStep ==
    \/ \E o \in Observers : RoundVisits(o)
    \/ RoundEnds \/ UpdateReturns
    \/ \E k \in Keys : ClearAnnounces(k)
    \/ ClearRemoves

Next == UserStep \/ ProgramStep

Spec == Init /\ [][Next]_vars

-----------------------------------------------------------------------------
(* What the settings promise.                                              *)

Values == Rates \cup Dates \cup {Forecast}
Cache == [calculated : BOOLEAN, value : Values \cup {Null}, enforced : BOOLEAN, clearing : BOOLEAN]
Frame ==
    [kind : {"round"}, at : Observables, left : SUBSET Observers]
    \cup [kind : {"clear"}, keys : SUBSET Keys, scope : SUBSET Keys]
    \cup [kind : {"update"}, user : Users]

TypeOK ==
    /\ evaluation_date \in Dates \cup {Null}
    /\ enforces \in BOOLEAN
    /\ store \in [Keys -> {Null} \cup [Dates -> Rates \cup {Null}]]
    /\ registered \in [Observables -> SUBSET Observers]
    /\ reader \in [Readers -> Cache]
    /\ stack \in Seq(Frame)

\* A reader at rest is current whatever was recorded, cleared or dated, under
\* whichever spelling, and whatever the observers did in between. There are two
\* exceptions: the enforcement of today's fixings has no observers, and clear_fixing
\* and clear_fixings notify before they remove, so what is read out of their
\* notifications is what they then remove.
FreshAtRest ==
    stack = <<>> =>
        \A r \in Readers : reader[r].calculated /\ ~reader[r].clearing =>
            reader[r].value = Value(r, reader[r].enforced)

\* A fixing on record is only ever cleared or replaced by a close one, never
\* by a batch that had a conflict elsewhere ("one that conflicts with a stored value
\* is rejected and leaves the store unchanged").
RecordsStand ==
    [][\A k \in Keys, d \in Dates :
          LET old == History(k)[d]
              new == History(k)'[d]
          IN  old # Null /\ ~TopIs("clear") => new # Null /\ <<old, new>> \in Close]_vars

\* Every call returns, once user code stops making new ones.
ComesToRest == <>[][ProgramStep]_vars => []<>(stack = <<>>)
=============================================================================
