---------------------------- MODULE SettingsProofs ----------------------------
(***************************************************************************)
(* Theorems about Settings, for any names, dates, rates, readers and       *)
(* observers, and user code that calls back out of any notification.       *)
(***************************************************************************)
EXTENDS Settings, SequenceTheorems, WellFoundedInduction, TLAPS

-----------------------------------------------------------------------------
(* The calls under way, as a set.                                          *)

FramesOf(s) == {s[i] : i \in 1..Len(s)}
Frames == FramesOf(stack)

\* A call is entered.
LEMMA FramesPush ==
    ASSUME NEW s \in Seq(Frame), NEW f \in Frame
    PROVE  /\ Append(s, f) \in Seq(Frame)
           /\ Append(s, f) # <<>>
           /\ FramesOf(Append(s, f)) = FramesOf(s) \cup {f}
<1>1. /\ Append(s, f) \in Seq(Frame)
      /\ Len(Append(s, f)) = Len(s) + 1 /\ Len(s) \in Nat
      /\ \A i \in 1..Len(s) : Append(s, f)[i] = s[i]
      /\ Append(s, f)[Len(s) + 1] = f
  BY AppendProperties, LenProperties
<1>2. Append(s, f) # <<>> BY <1>1, EmptySeq
<1>3. FramesOf(Append(s, f)) = FramesOf(s) \cup {f} BY <1>1 DEF FramesOf
<1>. QED BY <1>1, <1>2, <1>3

\* A call returns.
LEMMA Prefix ==
    ASSUME NEW s \in Seq(Frame), NEW n \in Nat, n <= Len(s)
    PROVE  /\ SubSeq(s, 1, n) \in Seq(Frame)
           /\ Len(SubSeq(s, 1, n)) = n
           /\ \A i \in 1..n : SubSeq(s, 1, n)[i] = s[i]
<1>1. \A i \in 1..n : s[i] \in Frame
  BY ElementOfSeq, LenProperties
<1>2. /\ SubSeq(s, 1, n) \in Seq(Frame)
      /\ Len(SubSeq(s, 1, n)) = IF 1 <= n THEN n - 1 + 1 ELSE 0
      /\ \A i \in 1..(n - 1 + 1) : SubSeq(s, 1, n)[i] = s[1 + i - 1]
  BY <1>1, SubSeqProperties
<1>3. n - 1 + 1 = n /\ (~(1 <= n) => n = 0)
  OBVIOUS
<1>4. \A i \in 1..n : 1 + i - 1 = i
  OBVIOUS
<1>. QED BY <1>2, <1>3, <1>4

LEMMA FramesPop ==
    ASSUME NEW s \in Seq(Frame), s # <<>>
    PROVE  /\ SubSeq(s, 1, Len(s) - 1) \in Seq(Frame)
           /\ s[Len(s)] \in Frame
           /\ FramesOf(s) = FramesOf(SubSeq(s, 1, Len(s) - 1)) \cup {s[Len(s)]}
<1>1. Len(s) \in Nat \ {0} BY EmptySeq, LenProperties
<1>2. PICK t : t = SubSeq(s, 1, Len(s) - 1) OBVIOUS
<1>5. Len(s) - 1 \in Nat /\ Len(s) - 1 <= Len(s) BY <1>1
<1>3. t \in Seq(Frame) /\ Len(t) = Len(s) - 1 /\ \A i \in 1..(Len(s) - 1) : t[i] = s[i]
  BY <1>2, <1>5, Prefix
<1>4. FramesOf(s) = FramesOf(t) \cup {s[Len(s)]}
  BY <1>1, <1>3 DEF FramesOf
<1>. QED BY <1>1, <1>2, <1>3, <1>4, ElementOfSeq

-----------------------------------------------------------------------------
(* The inductive invariant.                                                *)

KeyOf(r) == fixing_key(Reads[r].name)

\* Readers are registered for what they read, for good.
Wired == \A r \in Readers : r \in registered["date"] /\ r \in registered[KeyOf(r)]

\* A round under way will still come to r.
Pending(r) == \E f \in Frames : f.kind = "round" /\ r \in f.left

Trusted(r) == reader[r].calculated /\ ~reader[r].clearing

\* What has been calculated outside of clears is current or about to be dropped.
Current == \A r \in Readers :
    Trusted(r) => Pending(r) \/ reader[r].value = Value(r, reader[r].enforced)

\* While a clear is under way, it was calculated without a fixing, or the clear has
\* still to announce its name.
Forewarned == \A r \in Readers : \A f \in Frames :
    f.kind = "clear" /\ KeyOf(r) \in f.scope /\ Trusted(r) =>
        Pending(r) \/ KeyOf(r) \in f.keys \/ History(KeyOf(r)) = NoFixings

IInv == TypeOK /\ Wired /\ Current /\ Forewarned

-----------------------------------------------------------------------------
(* The operators.                                                          *)

LEMMA KeyTyped == \A n \in Names : fixing_key(n) \in Keys /\ fixing_key(n) \in Observables
BY NamesAssumption DEF fixing_key, Keys, Observables

LEMMA ReaderKey == \A r \in Readers : KeyOf(r) \in Keys
BY KeyTyped, ReadsAssumption DEF KeyOf

Histories == [Dates -> Rates \cup {Null}]

LEMMA HistoryTyped ==
    ASSUME TypeOK, NEW k \in Keys
    PROVE  History(k) \in Histories
BY DEF TypeOK, History, NoFixings, Histories

\* A set of integers that ends has a last element.
LEMMA LastExists ==
    ASSUME NEW a \in Int, NEW b \in Int, NEW T, T \subseteq a..b, T # {}
    PROVE  \E x \in T : \A y \in T : y <= x
<1>. DEFINE S == {b - x : x \in T}
<1>1. S \in SUBSET Nat /\ S # {} OBVIOUS
<1>. DEFINE Less == {p \in Nat \X Nat : p[1] < p[2]}
<1>5. IsWellFoundedOn(Less, Nat)
  <2>1. OpToRel(<, Nat) = Less BY Zenon DEF OpToRel
  <2>. QED BY <2>1, NatLessThanWellFounded, Zenon
<1>6. PICK m \in S : \A n \in S : <<n, m>> \notin Less
  <2>. HIDE DEF S, Less
  <2>. QED BY <1>1, <1>5, WFMin
<1>2. \A n \in S : m <= n
  <2>. TAKE n \in S
  <2>1. m \in Nat /\ n \in Nat /\ <<n, m>> \notin Less
    <3>. HIDE DEF S, Less
    <3>. QED BY <1>1, <1>6
  <2>2. ~(n < m) BY <2>1
  <2>. QED BY <2>1, <2>2
<1>3. PICK x \in T : m = b - x OBVIOUS
<1>4. \A y \in T : y <= x
  <2>. TAKE y \in T
  <2>1. b - x <= b - y BY <1>2, <1>3
  <2>2. x \in Int /\ y \in Int OBVIOUS
  <2>. QED BY <2>1, <2>2
<1>. QED BY <1>4

\* Recording takes every date from the batch or from the history.
LEMMA RecordedTyped ==
    ASSUME NEW history \in Histories, NEW batch \in Batches
    PROVE  /\ Recorded(history, batch) \in Histories
           /\ \A d \in Dates :
                  \/ Recorded(history, batch)[d] = history[d]
                  \/ \E i \in 1..Len(batch) :
                         batch[i][1] = d /\ batch[i][2] = Recorded(history, batch)[d]
<1>1. batch \in Seq(Dates \X Rates) /\ Len(batch) \in Nat
  BY BatchesAssumption, LenProperties
<1>2. \A i \in 1..Len(batch) : batch[i][1] \in Dates /\ batch[i][2] \in Rates
  BY <1>1, ElementOfSeq
<1>3. ASSUME NEW d \in Dates
      PROVE  \/ Recorded(history, batch)[d] = history[d]
             \/ \E i \in 1..Len(batch) :
                    batch[i][1] = d /\ batch[i][2] = Recorded(history, batch)[d]
  <2>. DEFINE repeats == {i \in 1..Len(batch) : batch[i][1] = d}
              last == CHOOSE i \in repeats : \A j \in repeats : j <= i
  <2>1. CASE repeats = {}
    BY <2>1 DEF Recorded
  <2>2. CASE repeats # {}
    <3>1. \E i \in repeats : \A j \in repeats : j <= i
      <4>1. repeats \subseteq 1..Len(batch) OBVIOUS
      <4>2. 1 \in Int /\ Len(batch) \in Int BY <1>1
      <4>. HIDE DEF repeats
      <4>. QED BY <2>2, <4>1, <4>2, LastExists
    <3>2. last \in repeats BY <3>1
    <3>3. Recorded(history, batch)[d] = batch[last][2] BY <2>2 DEF Recorded
    <3>. QED BY <3>2, <3>3
  <2>. QED BY <2>1, <2>2
<1>4. \A d \in Dates : Recorded(history, batch)[d] \in Rates \cup {Null}
  BY <1>2, <1>3 DEF Histories
<1>5. Recorded(history, batch) \in Histories
  BY <1>4 DEF Recorded, Histories
<1>. QED BY <1>3, <1>5

LEMMA ValueTyped ==
    ASSUME TypeOK, NEW r \in Readers, NEW e \in BOOLEAN
    PROVE  Value(r, e) \in Values \cup {Error}
<1>. DEFINE h == History(KeyOf(r))
            known == {d \in Dates : h[d] # Null}
<1>1. h \in Histories BY ReaderKey, HistoryTyped
<1>2. Reads[r].date \in Dates \cup {Null} /\ evaluation_date \in Dates \cup {Null}
  BY ReadsAssumption DEF TypeOK
<1>3. CASE Reads[r].date = Null
  <2>1. last_fixing_date(h) \in Dates \cup {Error}
    <3>1. CASE known = {} BY <3>1 DEF last_fixing_date
    <3>2. CASE known # {}
      <4>1. \E d \in known : \A x \in known : x <= d
        BY <3>2, LastExists, DatesAssumption DEF Dates
      <4>. QED BY <3>2, <4>1 DEF last_fixing_date
    <3>. QED BY <3>1, <3>2
  <2>. QED BY <1>3, <2>1 DEF Value, KeyOf, Values
<1>4. CASE Reads[r].date # Null
  <2>1. Fixing(h, Reads[r].date, Reads[r].forecast, e) \in Values \cup {Error}
    BY <1>1, <1>2, <1>4 DEF Fixing, Values, Histories
  <2>. QED BY <1>4, <2>1 DEF Value, KeyOf
<1>. QED BY <1>3, <1>4

\* A value is read from the date and from the history of one name.
LEMMA ValueReads ==
    ASSUME NEW r \in Readers, NEW e, evaluation_date' = evaluation_date,
           History(KeyOf(r))' = History(KeyOf(r))
    PROVE  Value(r, e)' = Value(r, e)
BY DEF Value, Fixing, KeyOf

-----------------------------------------------------------------------------
(* Each step preserves the invariant.                                      *)

LEMMA InitHolds == Init => IInv
<1>. SUFFICES ASSUME Init PROVE IInv OBVIOUS
<1>1. TypeOK
  <2>1. stack \in Seq(Frame) BY EmptySeq DEF Init
  <2>2. registered \in [Observables -> SUBSET Observers]
    BY DEF Init, Observers
  <2>3. reader \in [Readers -> Cache] BY DEF Init, Cache
  <2>. QED BY <2>1, <2>2, <2>3 DEF Init, TypeOK
<1>2. Wired
  <2>1. \A x \in Observables :
            registered[x] = {r \in Readers : x \in {"date", KeyOf(r)}}
    BY DEF Init, KeyOf
  <2>2. "date" \in Observables /\ \A r \in Readers : KeyOf(r) \in Observables
    BY ReaderKey DEF Observables
  <2>. QED BY <2>1, <2>2 DEF Wired
<1>3. Current BY DEF Init, Current, Trusted
<1>4. Forewarned BY DEF Init, Forewarned, Trusted
<1>. QED BY <1>1, <1>2, <1>3, <1>4 DEF IInv

\* A notification that starts tells the readers registered for it.
LEMMA RoundTyped ==
    ASSUME TypeOK, NEW x \in Observables
    PROVE  Round(x) \in Frame /\ Round(x).kind = "round" /\ Round(x).left = registered[x]
BY DEF Round, Frame, TypeOK

LEMMA Pushed ==
    ASSUME TypeOK, NEW f \in Frame, stack' = Append(stack, f)
    PROVE  stack' \in Seq(Frame) /\ Frames' = Frames \cup {f}
BY FramesPush DEF TypeOK, Frames

LEMMA DateKeeps ==
    ASSUME IInv, NEW d \in Dates \cup {Null}, SetEvaluationDate(d)
    PROVE  IInv'
<1>1. Round("date") \in Frame /\ Round("date").kind = "round" /\ Round("date").left = registered["date"]
  BY RoundTyped DEF IInv, Observables
<1>2. /\ evaluation_date' = d /\ stack' = Append(stack, Round("date"))
      /\ UNCHANGED <<enforces, store, registered, reader>>
  BY DEF SetEvaluationDate, Enters
<1>3. stack' \in Seq(Frame) /\ Frames' = Frames \cup {Round("date")}
  BY <1>1, <1>2, Pushed DEF IInv
<1>4. TypeOK' BY <1>2, <1>3 DEF IInv, TypeOK
<1>5. Wired' BY <1>2 DEF IInv, Wired, KeyOf
<1>6. \A r \in Readers : Pending(r)'
  BY <1>1, <1>3 DEF IInv, Wired, Pending
<1>7. Current' /\ Forewarned' BY <1>6 DEF Current, Forewarned
<1>. QED BY <1>4, <1>5, <1>7 DEF IInv

\* A step that leaves date, store, readers and calls alone.
LEMMA QuietKeeps ==
    ASSUME IInv, UNCHANGED <<evaluation_date, store, reader, stack>>, TypeOK', Wired'
    PROVE  IInv'
<1>1. \A r \in Readers : Value(r, reader[r].enforced)' = Value(r, reader[r].enforced)
  BY DEF Value, Fixing, History
<1>2. Current'
  BY <1>1 DEF IInv, Current, Trusted, Pending, Frames
<1>3. Forewarned'
  BY DEF IInv, Forewarned, Trusted, Pending, Frames, History
<1>. QED BY <1>2, <1>3 DEF IInv

LEMMA EnforcesKeeps ==
    ASSUME IInv, SetEnforces
    PROVE  IInv'
<1>1. TypeOK' BY DEF SetEnforces, IInv, TypeOK
<1>2. Wired' BY DEF SetEnforces, IInv, Wired, KeyOf
<1>. QED BY <1>1, <1>2, QuietKeeps DEF SetEnforces

LEMMA RegisterKeeps ==
    ASSUME IInv, NEW x \in Observables, NEW u \in Users, Register(x, u)
    PROVE  IInv'
<1>1. TypeOK' BY DEF Register, IInv, TypeOK, Observers
<1>2. Wired'
  <2>1. \A r \in Readers : KeyOf(r) \in Observables /\ "date" \in Observables
    BY ReaderKey DEF Observables
  <2>. QED BY <2>1 DEF Register, IInv, TypeOK, Wired, KeyOf
<1>. QED BY <1>1, <1>2, QuietKeeps DEF Register

LEMMA AddKeeps ==
    ASSUME IInv, NEW n \in Names, NEW batch \in Batches, AddFixings(n, batch)
    PROVE  IInv'
<1>. DEFINE k == fixing_key(n)
<1>1. k \in Keys /\ k \in Observables BY KeyTyped
<1>2. Round(k) \in Frame /\ Round(k).kind = "round" /\ Round(k).left = registered[k]
  BY <1>1, RoundTyped DEF IInv
<1>3. /\ store' = [store EXCEPT ![k] = Recorded(History(k), batch)]
      /\ stack' = Append(stack, Round(k))
      /\ UNCHANGED <<evaluation_date, enforces, registered, reader>>
  BY DEF AddFixings, Enters
<1>4. stack' \in Seq(Frame) /\ Frames' = Frames \cup {Round(k)}
  BY <1>2, <1>3, Pushed DEF IInv
<1>5. Recorded(History(k), batch) \in Histories
  BY <1>1, HistoryTyped, RecordedTyped DEF IInv
<1>6. TypeOK' BY <1>3, <1>4, <1>5 DEF IInv, TypeOK, Histories
<1>7. Wired' BY <1>3 DEF IInv, Wired, KeyOf
<1>8. \A r \in Readers : Pending(r) => Pending(r)'
  BY <1>4 DEF Pending
<1>9. \A r \in Readers : KeyOf(r) = k => Pending(r)'
  BY <1>2, <1>4 DEF IInv, Wired, Pending
<1>10. \A r \in Readers : KeyOf(r) # k => History(KeyOf(r))' = History(KeyOf(r))
  BY <1>3, ReaderKey DEF IInv, TypeOK, History, KeyOf
<1>11. \A r \in Readers : KeyOf(r) # k => Value(r, reader[r].enforced)' = Value(r, reader[r].enforced)
  BY <1>3, <1>10 DEF Value, Fixing, KeyOf
<1>12. Current'
  BY <1>3, <1>8, <1>9, <1>11 DEF IInv, Current, Trusted
<1>13. Forewarned'
  BY <1>2, <1>3, <1>4, <1>8, <1>9, <1>10 DEF IInv, Forewarned, Trusted, KeyOf
<1>. QED BY <1>6, <1>7, <1>12, <1>13 DEF IInv

\* A clear that starts, of one name or of all, warns of what it will remove.
LEMMA ClearKeeps ==
    ASSUME IInv, NEW keys \in SUBSET Keys, NEW scope \in SUBSET Keys,
           \A k \in scope : k \in keys \/ store[k] = Null,
           stack' = Append(stack, Clear(keys, scope)),
           UNCHANGED <<evaluation_date, enforces, store, registered, reader>>
    PROVE  IInv'
<1>1. /\ Clear(keys, scope) \in Frame /\ Clear(keys, scope).kind = "clear"
      /\ Clear(keys, scope).keys = keys /\ Clear(keys, scope).scope = scope
  BY DEF Clear, Frame
<1>2. stack' \in Seq(Frame) /\ Frames' = Frames \cup {Clear(keys, scope)}
  BY <1>1, Pushed DEF IInv
<1>3. TypeOK' BY <1>2 DEF IInv, TypeOK
<1>4. Wired' BY DEF IInv, Wired, KeyOf
<1>5. \A r \in Readers : (Pending(r) => Pending(r)') /\ History(KeyOf(r))' = History(KeyOf(r))
  BY <1>2 DEF Pending, History, KeyOf
<1>6. \A r \in Readers : Value(r, reader[r].enforced)' = Value(r, reader[r].enforced)
  BY DEF Value, Fixing, History
<1>7. Current' BY <1>5, <1>6 DEF IInv, Current, Trusted
<1>8. Forewarned'
  <2>1. \A r \in Readers : KeyOf(r) \in scope => KeyOf(r) \in keys \/ History(KeyOf(r)) = NoFixings
    BY DEF History
  <2>. QED BY <1>1, <1>2, <1>5, <2>1 DEF IInv, Forewarned, Trusted, KeyOf
<1>. QED BY <1>3, <1>4, <1>7, <1>8 DEF IInv

LEMMA ReadKeeps ==
    ASSUME IInv, NEW r \in Readers, Read(r)
    PROVE  IInv'
<1>1. /\ ~reader[r].calculated /\ Value(r, enforces) # Error
      /\ reader' = [reader EXCEPT ![r] =
             [calculated |-> TRUE, value |-> Value(r, enforces), enforced |-> enforces,
              clearing |-> Clearing(KeyOf(r))]]
      /\ UNCHANGED <<evaluation_date, enforces, store, registered, stack>>
  BY DEF Read, KeyOf
<1>2. Clearing(KeyOf(r)) \in BOOLEAN BY DEF Clearing
<1>3. reader' \in [Readers -> Cache]
  BY <1>1, <1>2, ValueTyped DEF IInv, TypeOK, Cache
<1>4. TypeOK' BY <1>1, <1>3 DEF IInv, TypeOK
<1>5. Wired' BY <1>1 DEF IInv, Wired, KeyOf
<1>6. \A x \in Readers, e \in BOOLEAN : /\ Value(x, e)' = Value(x, e)
                                      /\ History(KeyOf(x))' = History(KeyOf(x))
                                      /\ Pending(x)' = Pending(x)
  BY <1>1 DEF Value, Fixing, History, KeyOf, Pending, Frames
<1>7. \A x \in Readers \ {r} : reader'[x] = reader[x] BY <1>1 DEF IInv, TypeOK
<1>8. /\ reader'[r].value = Value(r, reader'[r].enforced)
      /\ reader'[r].enforced \in BOOLEAN
      /\ reader'[r].clearing = Clearing(KeyOf(r))
  BY <1>1 DEF IInv, TypeOK
<1>9. \A x \in Readers : reader[x].enforced \in BOOLEAN BY DEF IInv, TypeOK, Cache
<1>10. Current'
  BY <1>6, <1>7, <1>8, <1>9 DEF IInv, Current, Trusted
<1>11. Clearing(KeyOf(r)) \/ \A f \in Frames : ~(f.kind = "clear" /\ KeyOf(r) \in f.scope)
  BY DEF Clearing, Frames, FramesOf
<1>12. Frames' = Frames BY <1>1 DEF Frames
<1>13. Forewarned'
  BY <1>6, <1>7, <1>8, <1>11, <1>12 DEF IInv, Forewarned, Trusted, KeyOf
<1>. QED BY <1>4, <1>5, <1>10, <1>13 DEF IInv

\* The call on top of the stack.
LEMMA TopOf ==
    ASSUME TypeOK, NEW kind, TopIs(kind)
    PROVE  /\ Below \in Seq(Frame) /\ Top \in Frame /\ Top.kind = kind
           /\ Frames = FramesOf(Below) \cup {Top}
BY FramesPop DEF TypeOK, TopIs, Top, Below, Frames

LEMMA FrameFields ==
    ASSUME NEW f \in Frame
    PROVE  /\ f.kind = "round" => f.left \in SUBSET Observers /\ f.at \in Observables
           /\ f.kind = "clear" => f.keys \in SUBSET Keys /\ f.scope \in SUBSET Keys
BY DEF Frame

\* A step of the notifications: it may drop caches, and who it no longer warns has
\* nothing cached or is still to be told.
LEMMA NotifyingKeeps ==
    ASSUME IInv, UNCHANGED <<evaluation_date, enforces, store, registered>>,
           stack' \in Seq(Frame), reader' \in [Readers -> Cache],
           \A r \in Readers : Trusted(r)' => reader'[r] = reader[r],
           \A r \in Readers : Pending(r) /\ Trusted(r)' => Pending(r)',
           \A g \in Frames' : g.kind = "clear" =>
               \E f \in Frames : /\ f.kind = "clear" /\ f.scope = g.scope
                                 /\ \A r \in Readers : KeyOf(r) \in f.keys =>
                                        KeyOf(r) \in g.keys \/ Pending(r)'
    PROVE  IInv'
<1>1. TypeOK' BY DEF IInv, TypeOK
<1>2. Wired' BY DEF IInv, Wired, KeyOf
<1>3. \A r \in Readers, e \in BOOLEAN : /\ Value(r, e)' = Value(r, e)
                                      /\ History(KeyOf(r))' = History(KeyOf(r))
  BY DEF Value, Fixing, History, KeyOf
<1>4. \A r \in Readers : reader[r].enforced \in BOOLEAN BY DEF IInv, TypeOK, Cache
<1>5. \A r \in Readers : Trusted(r)' => Trusted(r) BY DEF Trusted
<1>6. Current' BY <1>3, <1>4, <1>5 DEF IInv, Current
<1>7. Forewarned'
  <2>. SUFFICES ASSUME NEW r \in Readers, NEW g \in Frames',
                       g.kind = "clear", KeyOf(r) \in g.scope, Trusted(r)'
                PROVE  Pending(r)' \/ KeyOf(r) \in g.keys \/ History(KeyOf(r))' = NoFixings
    BY DEF Forewarned, KeyOf
  <2>1. PICK f \in Frames : /\ f.kind = "clear" /\ f.scope = g.scope
                            /\ KeyOf(r) \in f.keys => KeyOf(r) \in g.keys \/ Pending(r)'
    OBVIOUS
  <2>2. Pending(r) \/ KeyOf(r) \in f.keys \/ History(KeyOf(r)) = NoFixings
    BY <1>5, <2>1 DEF IInv, Forewarned
  <2>. QED BY <1>3, <2>1, <2>2
<1>. QED BY <1>1, <1>2, <1>6, <1>7 DEF IInv

LEMMA RoundVisitsKeeps ==
    ASSUME IInv, NEW o \in Observers, RoundVisits(o)
    PROVE  IInv'
<1>. DEFINE top == [Top EXCEPT !.left = @ \ {o}]
<1>1. /\ Below \in Seq(Frame) /\ Top \in Frame /\ Top.kind = "round"
      /\ Frames = FramesOf(Below) \cup {Top}
  BY TopOf DEF IInv, RoundVisits
<1>2. top \in Frame /\ top.kind = "round" /\ top.left = Top.left \ {o}
  BY <1>1 DEF Frame
<1>3. /\ stack' \in Seq(Frame)
      /\ FramesOf(Below) \cup {top} \subseteq Frames'
      /\ \A g \in Frames' : g.kind = "clear" => g \in FramesOf(Below)
  <2>1. Append(Below, top) \in Seq(Frame) /\ FramesOf(Append(Below, top)) = FramesOf(Below) \cup {top}
    BY <1>1, <1>2, FramesPush
  <2>2. CASE stack' = Append(Below, top)
    BY <1>2, <2>1, <2>2 DEF Frames
  <2>3. CASE o \notin Readers /\ stack' = Append(Append(Below, top), Update(o))
    <3>1. Update(o) \in Frame /\ Update(o).kind = "update"
      BY <2>3 DEF Update, Frame, Observers
    <3>2. stack' \in Seq(Frame) /\ Frames' = FramesOf(Below) \cup {top} \cup {Update(o)}
      BY <2>1, <2>3, <3>1, FramesPush DEF Frames
    <3>. QED BY <1>2, <3>1, <3>2
  <2>. QED BY <2>2, <2>3 DEF RoundVisits, Visited
<1>4. /\ UNCHANGED <<evaluation_date, enforces, store, registered>>
      /\ o \in Readers => reader' = [reader EXCEPT ![o].calculated = FALSE]
      /\ o \notin Readers => reader' = reader
  BY DEF RoundVisits
<1>5. reader' \in [Readers -> Cache]
  BY <1>4 DEF IInv, TypeOK, Cache
<1>6. \A r \in Readers : Trusted(r)' => r # o /\ reader'[r] = reader[r]
  BY <1>4, ObserversAssumption DEF Trusted, IInv, TypeOK, Cache
<1>7. \A r \in Readers : Pending(r) /\ Trusted(r)' => Pending(r)'
  BY <1>1, <1>2, <1>3, <1>6 DEF Pending
<1>8. \A g \in Frames' : g.kind = "clear" => g \in Frames
  BY <1>1, <1>3
<1>. QED BY <1>3, <1>4, <1>5, <1>6, <1>7, <1>8, NotifyingKeeps

LEMMA ReturnKeeps ==
    ASSUME IInv, NEW kind, TopIs(kind), kind # "clear", kind = "round" => Top.left = {},
           stack' = Below, UNCHANGED <<evaluation_date, enforces, store, registered, reader>>
    PROVE  IInv'
<1>1. Below \in Seq(Frame) /\ Frames' \subseteq Frames /\ Frames = Frames' \cup {Top} /\ Top.kind = kind
  BY TopOf DEF IInv, Frames
<1>2. \A r \in Readers : Pending(r) => Pending(r)'
  BY <1>1 DEF Pending
<1>. QED BY <1>1, <1>2, NotifyingKeeps DEF Trusted, IInv, TypeOK

LEMMA ClearAnnouncesKeeps ==
    ASSUME IInv, NEW k \in Keys, ClearAnnounces(k)
    PROVE  IInv'
<1>. DEFINE top == [Top EXCEPT !.keys = @ \ {k}]
<1>1. /\ Below \in Seq(Frame) /\ Top \in Frame /\ Top.kind = "clear"
      /\ Frames = FramesOf(Below) \cup {Top}
  BY TopOf DEF IInv, ClearAnnounces
<1>2. /\ top \in Frame /\ top.kind = "clear" /\ top.keys = Top.keys \ {k}
      /\ top.scope = Top.scope
  BY <1>1 DEF Frame
<1>3. Round(k) \in Frame /\ Round(k).kind = "round" /\ Round(k).left = registered[k]
  BY RoundTyped DEF IInv, Observables
<1>4. /\ stack' \in Seq(Frame)
      /\ Frames' = FramesOf(Below) \cup {top, Round(k)}
  <2>1. Append(Below, top) \in Seq(Frame) /\ FramesOf(Append(Below, top)) = FramesOf(Below) \cup {top}
    BY <1>1, <1>2, FramesPush
  <2>2. stack' = Append(Append(Below, top), Round(k)) BY DEF ClearAnnounces
  <2>3. stack' \in Seq(Frame) /\ Frames' = FramesOf(Append(Below, top)) \cup {Round(k)}
    BY <1>3, <2>1, <2>2, FramesPush DEF Frames
  <2>. QED BY <2>1, <2>3
<1>5. UNCHANGED <<evaluation_date, enforces, store, registered, reader>>
  BY DEF ClearAnnounces
<1>6. \A r \in Readers : Pending(r) => Pending(r)'
  BY <1>1, <1>4 DEF Pending
<1>7. \A r \in Readers : KeyOf(r) = k => Pending(r)'
  BY <1>3, <1>4 DEF Pending, IInv, Wired
<1>8. ASSUME NEW g \in Frames', g.kind = "clear"
      PROVE  \E f \in Frames : /\ f.kind = "clear" /\ f.scope = g.scope
                               /\ \A r \in Readers : KeyOf(r) \in f.keys =>
                                      KeyOf(r) \in g.keys \/ Pending(r)'
  <2>1. CASE g = top
    <3>1. \A r \in Readers : KeyOf(r) \in Top.keys => KeyOf(r) \in g.keys \/ Pending(r)'
      BY <1>2, <1>7, <2>1
    <3>. QED BY <1>1, <1>2, <2>1, <3>1
  <2>2. CASE g \in FramesOf(Below)
    BY <1>1, <1>8, <2>2
  <2>. QED BY <1>3, <1>4, <1>8, <2>1, <2>2
<1>. HIDE DEF top
<1>. QED BY <1>4, <1>5, <1>6, <1>8, NotifyingKeeps DEF Trusted, IInv, TypeOK

LEMMA ClearRemovesKeeps ==
    ASSUME IInv, ClearRemoves
    PROVE  IInv'
<1>1. /\ Below \in Seq(Frame) /\ Top \in Frame /\ Top.kind = "clear" /\ Top.keys = {}
      /\ Frames' \subseteq Frames /\ Frames = Frames' \cup {Top}
      /\ stack' = Below /\ UNCHANGED <<evaluation_date, enforces, registered, reader>>
      /\ store' = [k \in Keys |-> IF k \in Top.scope THEN Null ELSE store[k]]
  BY TopOf DEF IInv, ClearRemoves, Frames
<1>2. TypeOK' BY <1>1 DEF IInv, TypeOK
<1>3. Wired' BY <1>1 DEF IInv, Wired, KeyOf
<1>4. \A r \in Readers : (Pending(r) <=> Pending(r)') /\ (Trusted(r) <=> Trusted(r)')
  BY <1>1 DEF Pending, Trusted
<1>5. \A r \in Readers :
          History(KeyOf(r))' = IF KeyOf(r) \in Top.scope THEN NoFixings ELSE History(KeyOf(r))
  BY <1>1, ReaderKey DEF History, KeyOf
<1>6. \A r \in Readers : Trusted(r) /\ KeyOf(r) \in Top.scope =>
          Pending(r) \/ History(KeyOf(r)) = NoFixings
  BY <1>1 DEF IInv, Forewarned
<1>7. \A r \in Readers : Trusted(r) => Pending(r) \/ History(KeyOf(r))' = History(KeyOf(r))
  BY <1>5, <1>6
<1>8. \A r \in Readers : History(KeyOf(r))' = History(KeyOf(r)) =>
          Value(r, reader[r].enforced)' = Value(r, reader[r].enforced)
  BY <1>1 DEF Value, Fixing, KeyOf
<1>9. Current'
  BY <1>1, <1>4, <1>7, <1>8 DEF IInv, Current
<1>10. Forewarned'
  BY <1>1, <1>4, <1>5 DEF IInv, Forewarned, KeyOf
<1>. QED BY <1>2, <1>3, <1>9, <1>10 DEF IInv

LEMMA StepKeeps == IInv /\ [Next]_vars => IInv'
<1>. SUFFICES ASSUME IInv, [Next]_vars PROVE IInv'
  OBVIOUS
<1>1. CASE UNCHANGED vars
  <2>1. TypeOK' BY <1>1 DEF vars, IInv, TypeOK
  <2>2. Wired' BY <1>1 DEF vars, IInv, Wired, KeyOf
  <2>. QED BY <1>1, <2>1, <2>2, QuietKeeps DEF vars
<1>2. CASE UserStep
  <2>1. ASSUME NEW n \in Names, ClearFixing(n) PROVE IInv'
    <3>1. fixing_key(n) \in Keys BY KeyTyped
    <3>. QED BY <2>1, <3>1, ClearKeeps DEF ClearFixing, Enters
  <2>2. ASSUME ClearFixings PROVE IInv'
    <3>. DEFINE listed == {k \in Keys : store[k] # Null}
    <3>1. listed \in SUBSET Keys /\ \A k \in Keys : k \in listed \/ store[k] = Null
      OBVIOUS
    <3>2. /\ stack' = Append(stack, Clear(listed, Keys))
          /\ UNCHANGED <<evaluation_date, enforces, store, registered, reader>>
      BY <2>2 DEF ClearFixings, Enters
    <3>. HIDE DEF listed
    <3>. QED BY <3>1, <3>2, ClearKeeps
  <2>. QED BY <1>2, <2>1, <2>2, DateKeeps, EnforcesKeeps, RegisterKeeps, AddKeeps, ReadKeeps
       DEF UserStep
<1>3. CASE ProgramStep
  <2>1. ASSUME RoundEnds PROVE IInv'
    BY <2>1, ReturnKeeps DEF RoundEnds
  <2>2. ASSUME UpdateReturns PROVE IInv'
    BY <2>2, ReturnKeeps DEF UpdateReturns
  <2>. QED BY <1>3, <2>1, <2>2, RoundVisitsKeeps, ClearAnnouncesKeeps, ClearRemovesKeeps
       DEF ProgramStep
<1>. QED BY <1>1, <1>2, <1>3 DEF Next

-----------------------------------------------------------------------------
(* The theorems.                                                           *)

THEOREM Invariance == Spec => []IInv
BY InitHolds, StepKeeps, PTL DEF Spec

\* Dates, histories, caches and calls have their types in every reachable state.
THEOREM TypeCorrect == Spec => []TypeOK
<1>1. IInv => TypeOK BY DEF IInv
<1>. QED BY <1>1, Invariance, PTL

\* What is cached at rest is what the settings say, except for what was calculated
\* out of the notifications of a clear.
THEOREM ReadersAreFresh == Spec => []FreshAtRest
<1>1. ASSUME IInv PROVE FreshAtRest
  <2>. SUFFICES ASSUME stack = <<>>, NEW r \in Readers, Trusted(r)
                PROVE  reader[r].value = Value(r, reader[r].enforced)
    BY DEF FreshAtRest, Trusted
  <2>1. Frames = {}
    <3>1. Len(stack) = 0 BY EmptySeq
    <3>. QED BY <3>1 DEF Frames, FramesOf
  <2>. QED BY <1>1, <2>1 DEF IInv, Current, Pending
<1>. QED BY <1>1, Invariance, PTL

\* A fixing on record is only ever cleared, or replaced by a close one.
THEOREM FixingsStand == Spec => RecordsStand
<1>. DEFINE Stands == \A k \in Keys, d \in Dates :
               LET old == History(k)[d]
                   new == History(k)'[d]
               IN  old # Null /\ ~TopIs("clear") => new # Null /\ <<old, new>> \in Close
<1>1. ASSUME IInv, [Next]_vars
      PROVE  [Stands]_vars
  <2>. SUFFICES ASSUME NEW k \in Keys, NEW d \in Dates,
                       History(k)[d] # Null, ~TopIs("clear")
                PROVE  History(k)'[d] # Null /\ <<History(k)[d], History(k)'[d]>> \in Close
    OBVIOUS
  <2>1. History(k) \in Histories BY <1>1, HistoryTyped DEF IInv
  <2>2. History(k)[d] \in Rates BY <2>1 DEF Histories
  <2>3. CASE store' = store
    <3>1. History(k)' = History(k) BY <2>3 DEF History
    <3>. QED BY <2>2, <3>1, RatesAssumption
  <2>4. ASSUME NEW n \in Names, NEW batch \in Batches, AddFixings(n, batch)
        PROVE  History(k)'[d] # Null /\ <<History(k)[d], History(k)'[d]>> \in Close
    <3>1. CASE k # fixing_key(n)
      <4>1. History(k)' = History(k)
        BY <1>1, <2>4, <3>1 DEF AddFixings, History, IInv, TypeOK
      <4>. QED BY <2>2, <4>1, RatesAssumption
    <3>2. CASE k = fixing_key(n)
      <4>1. History(k)' = Recorded(History(k), batch)
        <5>1. store'[k] = Recorded(History(k), batch)
          BY <1>1, <2>4, <3>2 DEF AddFixings, IInv, TypeOK
        <5>2. Recorded(History(k), batch) # Null
          BY <2>1, RecordedTyped, RatesAssumption DEF Histories
        <5>. QED BY <5>1, <5>2 DEF History
      <4>2. CASE Recorded(History(k), batch)[d] = History(k)[d]
        BY <2>2, <4>1, <4>2, RatesAssumption
      <4>3. ASSUME NEW i \in 1..Len(batch),
                   batch[i][1] = d, batch[i][2] = Recorded(History(k), batch)[d]
            PROVE  History(k)'[d] # Null /\ <<History(k)[d], History(k)'[d]>> \in Close
        <5>1. batch[i] \in Dates \X Rates
          BY BatchesAssumption, ElementOfSeq
        <5>2. <<History(k)[d], batch[i][2]>> \in Close
          BY <2>4, <3>2, <4>3 DEF AddFixings, Conflicts
        <5>. QED BY <4>1, <4>3, <5>1, <5>2, RatesAssumption
      <4>. QED BY <2>1, <4>2, <4>3, RecordedTyped
    <3>. QED BY <3>1, <3>2
  <2>5. store' = store \/ \E n \in Names, batch \in Batches : AddFixings(n, batch)
    BY <1>1 DEF Next, UserStep, ProgramStep, SetEvaluationDate, SetEnforces, Register,
       ClearFixing, ClearFixings, Read, RoundVisits, RoundEnds, UpdateReturns,
       ClearAnnounces, ClearRemoves, vars
  <2>. QED BY <2>3, <2>4, <2>5
<1>. QED BY <1>1, Invariance, PTL DEF Spec, RecordsStand
=============================================================================
