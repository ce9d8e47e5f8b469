--------------------------- MODULE ObservableProofs ---------------------------
(* Proofs about the notification engine, for any observers, observables     *)
(* and wirings, and whatever calls the updates make.                        *)
EXTENDS Observable, FiniteSetTheorems, SequenceTheorems, TLAPS

-----------------------------------------------------------------------------
(* The three ways in which a step changes the call stack.                   *)

\* A call: the stack keeps its frames and gains one on top.
LEMMA PushFrame ==
    ASSUME NEW s \in Seq(Frame), NEW f \in Frame
    PROVE  /\ Append(s, f) \in Seq(Frame)
           /\ Len(Append(s, f)) = Len(s) + 1
           /\ DOMAIN Append(s, f) = 1..(Len(s) + 1)
           /\ \A i \in 1..Len(s) : Append(s, f)[i] = s[i]
           /\ Append(s, f)[Len(s) + 1] = f
  BY AppendProperties, LenProperties

\* A return: the stack loses its top frame.
LEMMA Prefix ==
    ASSUME NEW s \in Seq(Frame), NEW n \in Nat, n <= Len(s)
    PROVE  /\ SubSeq(s, 1, n) \in Seq(Frame)
           /\ Len(SubSeq(s, 1, n)) = n
           /\ \A i \in 1..n : SubSeq(s, 1, n)[i] = s[i]
  <1>1. Len(s) \in Nat /\ 1 \in Int /\ n \in Int
    BY LenProperties
  <1>2. \A i \in 1..n : s[i] \in Frame
    BY <1>1, ElementOfSeq
  <1>3. /\ SubSeq(s, 1, n) \in Seq(Frame)
        /\ Len(SubSeq(s, 1, n)) = IF 1 <= n THEN n - 1 + 1 ELSE 0
        /\ \A i \in 1..(n - 1 + 1) : SubSeq(s, 1, n)[i] = s[1 + i - 1]
    BY <1>1, <1>2, SubSeqProperties
  <1>4. n - 1 + 1 = n /\ (~ (1 <= n) => n = 0)
    OBVIOUS
  <1>5. \A i \in 1..n : 1 + i - 1 = i
    OBVIOUS
  <1>6. QED
    BY <1>3, <1>4, <1>5

LEMMA PopFrame ==
    ASSUME NEW s \in Seq(Frame), s # <<>>,
           NEW t, t = SubSeq(s, 1, Len(s) - 1)
    PROVE  /\ t \in Seq(Frame)
           /\ Len(t) = Len(s) - 1
           /\ DOMAIN t = 1..(Len(s) - 1)
           /\ \A i \in 1..(Len(s) - 1) : t[i] = s[i]
  <1>1. Len(s) - 1 \in Nat /\ Len(s) - 1 <= Len(s)
    BY EmptySeq
  <1>2. QED
    BY <1>1, Prefix, LenProperties

\* A call under way goes on: only the top frame changes.
LEMMA ReplaceFrame ==
    ASSUME NEW s \in Seq(Frame), s # <<>>, NEW f \in Frame,
           NEW t, t = [s EXCEPT ![Len(s)] = f]
    PROVE  /\ t \in Seq(Frame)
           /\ t # <<>>
           /\ Len(t) = Len(s)
           /\ DOMAIN t = DOMAIN s
           /\ \A i \in DOMAIN s : t[i] = IF i = Len(s) THEN f ELSE s[i]
  <1>1. Len(s) \in 1..Len(s)
    BY EmptySeq
  <1>2. /\ t \in Seq(Frame)
        /\ Len(t) = Len(s)
        /\ \A i \in 1..Len(s) : t[i] = IF i = Len(s) THEN f ELSE s[i]
    BY <1>1, ExceptSeq
  <1>3. DOMAIN t = DOMAIN s
    BY <1>2, LenProperties
  <1>4. t # <<>>
    BY <1>1, <1>2, EmptySeq
  <1>5. QED
    BY <1>2, <1>3, <1>4, LenProperties

-----------------------------------------------------------------------------
(* Where the frames of a kind are after each of them.                       *)

IndicesOf(s, kind) == {i \in DOMAIN s : s[i].kind = kind}

LEMMA IndicesFinite ==
    ASSUME NEW s \in Seq(Frame), NEW kind
    PROVE  IsFiniteSet(IndicesOf(s, kind)) /\ IndicesOf(s, kind) \subseteq 1..Len(s)
  <1>1. IndicesOf(s, kind) \subseteq 1..Len(s)
    BY LenProperties DEF IndicesOf
  <1>2. IsFiniteSet(1..Len(s))
    BY FS_Interval, LenProperties
  <1>3. QED
    BY <1>1, <1>2, FS_Subset

LEMMA IndicesPush ==
    ASSUME NEW s \in Seq(Frame), NEW f \in Frame, NEW kind
    PROVE  IndicesOf(Append(s, f), kind)
             = IF f.kind = kind THEN IndicesOf(s, kind) \cup {Len(s) + 1}
                                ELSE IndicesOf(s, kind)
  BY PushFrame, LenProperties DEF IndicesOf

LEMMA IndicesPop ==
    ASSUME NEW s \in Seq(Frame), s # <<>>,
           NEW t, t = SubSeq(s, 1, Len(s) - 1), NEW kind
    PROVE  IndicesOf(t, kind) = IndicesOf(s, kind) \ {Len(s)}
  BY PopFrame, LenProperties, EmptySeq DEF IndicesOf

LEMMA IndicesReplace ==
    ASSUME NEW s \in Seq(Frame), s # <<>>, NEW f \in Frame, f.kind = s[Len(s)].kind,
           NEW t, t = [s EXCEPT ![Len(s)] = f], NEW kind
    PROVE  IndicesOf(t, kind) = IndicesOf(s, kind)
  BY ReplaceFrame DEF IndicesOf

\* The kind of a frame tells its fields.
LEMMA FrameKinds ==
    ASSUME NEW f \in Frame
    PROVE  /\ f.kind = "notify" => f \in NotifyFrame /\ f.todo \subseteq Entry
           /\ f.kind = "update" => f \in UpdateFrame /\ f.obs \in Observers
           /\ f.kind = "drain" => /\ f \in DrainFrame
                                  /\ f.batch \subseteq Observers
                                  /\ f.stalled \subseteq Observers
           /\ f.kind \in {"notify", "update", "drain"}
  BY DEF Frame, NotifyFrame, UpdateFrame, DrainFrame

-----------------------------------------------------------------------------
(* The inductive invariant, as a property of a stack: no observer is updated *)
(* twice or while the top level holds it, the guards count the frames, and   *)
(* whatever the drain put aside is busy because of an update below the drain *)
(* or of the top level, neither of which can end before the drain does.      *)

ObsOf(s) == {s[i].obs : i \in IndicesOf(s, "update")}

ObsBelow(s, n) == {s[j].obs : j \in {k \in IndicesOf(s, "update") : k < n}}

Exclusive(s, h) ==
    /\ h \cap ObsOf(s) = {}
    /\ \A i, j \in IndicesOf(s, "update") : s[i].obs = s[j].obs => i = j

Guarded(s, d, dr) ==
    /\ d = Cardinality(IndicesOf(s, "notify"))
    /\ dr <=> IndicesOf(s, "drain") # {}
    /\ \A i, j \in IndicesOf(s, "drain") : i = j

StalledBusy(s, h) ==
    \A i \in IndicesOf(s, "drain") : s[i].stalled \subseteq h \cup ObsBelow(s, i)

WellFormed(s, h, d, dr) == Exclusive(s, h) /\ Guarded(s, d, dr) /\ StalledBusy(s, h)

Inv == TypeOK /\ WellFormed(stack, held, depth, draining)

\* The invariant contains the two safety invariants of the engine.
LEMMA InvImplies == Inv => TypeOK /\ NoSecondBorrow /\ GuardsMatchStack
  BY DEF Inv, WellFormed, Exclusive, Guarded, ObsOf, IndicesOf,
         NoSecondBorrow, GuardsMatchStack, At, Updating

-----------------------------------------------------------------------------
(* Each way of changing the stack keeps a stack well formed.                *)

LEMMA ObsPush ==
    ASSUME NEW s \in Seq(Frame), NEW f \in Frame
    PROVE  /\ ObsOf(Append(s, f)) = ObsOf(s) \cup (IF f.kind = "update" THEN {f.obs} ELSE {})
           /\ \A i \in 1..Len(s) : ObsBelow(Append(s, f), i) = ObsBelow(s, i)
           /\ ObsBelow(Append(s, f), Len(s) + 1) = ObsOf(s)
  <1>1. /\ \A i \in 1..Len(s) : Append(s, f)[i] = s[i]
        /\ Append(s, f)[Len(s) + 1] = f
        /\ Len(s) \in Nat
    BY PushFrame, LenProperties
  <1>2. IndicesOf(s, "update") \subseteq 1..Len(s)
    BY IndicesFinite
  <1>3. IndicesOf(Append(s, f), "update")
          = IF f.kind = "update" THEN IndicesOf(s, "update") \cup {Len(s) + 1}
                                 ELSE IndicesOf(s, "update")
    BY IndicesPush
  <1>4. QED
    BY <1>1, <1>2, <1>3 DEF ObsOf, ObsBelow

LEMMA ObsPop ==
    ASSUME NEW s \in Seq(Frame), s # <<>>,
           NEW t, t = SubSeq(s, 1, Len(s) - 1)
    PROVE  /\ ObsOf(t) = ObsBelow(s, Len(s))
           /\ ObsOf(t) \subseteq ObsOf(s)
           /\ \A i \in 1..(Len(s) - 1) : ObsBelow(t, i) = ObsBelow(s, i)
  <1>1. /\ \A i \in 1..(Len(s) - 1) : t[i] = s[i]
        /\ Len(s) \in Nat
    BY PopFrame, LenProperties
  <1>2. IndicesOf(s, "update") \subseteq 1..Len(s)
    BY IndicesFinite
  <1>3. IndicesOf(t, "update") = IndicesOf(s, "update") \ {Len(s)}
    BY IndicesPop
  <1>4. IndicesOf(t, "update") = {k \in IndicesOf(s, "update") : k < Len(s)}
    BY <1>1, <1>2, <1>3
  <1>5. \A k \in IndicesOf(t, "update") : t[k] = s[k]
    BY <1>1, <1>2, <1>4
  <1>6. ObsOf(t) = ObsBelow(s, Len(s))
    BY <1>4, <1>5 DEF ObsOf, ObsBelow
  <1>7. ObsBelow(s, Len(s)) \subseteq ObsOf(s)
    BY DEF ObsOf, ObsBelow
  <1>8. ASSUME NEW i \in 1..(Len(s) - 1)
        PROVE  ObsBelow(t, i) = ObsBelow(s, i)
    <2>1. {k \in IndicesOf(t, "update") : k < i} = {k \in IndicesOf(s, "update") : k < i}
      BY <1>1, <1>2, <1>4
    <2>2. QED
      BY <2>1, <1>5 DEF ObsBelow
  <1>9. QED
    BY <1>6, <1>7, <1>8

LEMMA ObsReplace ==
    ASSUME NEW s \in Seq(Frame), s # <<>>, NEW f \in Frame,
           f.kind = s[Len(s)].kind, f.kind # "update",
           NEW t, t = [s EXCEPT ![Len(s)] = f]
    PROVE  ObsOf(t) = ObsOf(s) /\ \A i \in 1..Len(s) : ObsBelow(t, i) = ObsBelow(s, i)
  <1>1. \A i \in DOMAIN s : t[i] = IF i = Len(s) THEN f ELSE s[i]
    BY ReplaceFrame
  <1>2. IndicesOf(t, "update") = IndicesOf(s, "update")
    BY IndicesReplace
  <1>3. \A i \in IndicesOf(s, "update") : i \in DOMAIN s /\ i # Len(s)
    BY DEF IndicesOf
  <1>4. QED
    BY <1>1, <1>2, <1>3 DEF ObsOf, ObsBelow

\* update() is entered on an observer nobody borrows.
LEMMA WellFormedUpdateStarts ==
    ASSUME NEW s \in Seq(Frame), NEW h, NEW d, NEW dr, WellFormed(s, h, d, dr),
           NEW o \in Observers, o \notin h \cup ObsOf(s)
    PROVE  Append(s, Update(o)) \in Seq(Frame) /\ WellFormed(Append(s, Update(o)), h, d, dr)
  <1> DEFINE f == Update(o)
             t == Append(s, f)
             n == Len(s) + 1
  <1>1. f \in Frame /\ f.kind = "update" /\ f.obs = o
    BY DEF Update, Frame, UpdateFrame
  <1> HIDE DEF f
  <1>2. t \in Seq(Frame) /\ t[n] = f /\ \A i \in 1..Len(s) : t[i] = s[i]
    BY <1>1, PushFrame
  <1>3. /\ IndicesOf(t, "update") = IndicesOf(s, "update") \cup {n}
        /\ IndicesOf(t, "notify") = IndicesOf(s, "notify")
        /\ IndicesOf(t, "drain") = IndicesOf(s, "drain")
    BY <1>1, IndicesPush
  <1>4. \A kind : IndicesOf(s, kind) \subseteq 1..Len(s)
    BY IndicesFinite
  <1>5. ObsOf(t) = ObsOf(s) \cup {o} /\ \A i \in 1..Len(s) : ObsBelow(t, i) = ObsBelow(s, i)
    BY <1>1, ObsPush
  <1> HIDE DEF t, n
  <1>6. Exclusive(t, h)
    <2>1. h \cap ObsOf(t) = {}
      BY <1>5 DEF WellFormed, Exclusive
    <2>2. \A i \in IndicesOf(s, "update") : t[i] = s[i] /\ s[i].obs # o
      BY <1>2, <1>4 DEF ObsOf
    <2>3. QED
      BY <1>1, <1>2, <1>3, <2>1, <2>2 DEF WellFormed, Exclusive
  <1>7. Guarded(t, d, dr)
    BY <1>3 DEF WellFormed, Guarded
  <1>8. StalledBusy(t, h)
    BY <1>2, <1>3, <1>4, <1>5 DEF WellFormed, StalledBusy
  <1>9. QED
    BY <1>2, <1>6, <1>7, <1>8 DEF WellFormed, t, f

\* A round is entered: DEPTH counts it.
LEMMA WellFormedRoundStarts ==
    ASSUME NEW s \in Seq(Frame), NEW h, NEW d, NEW dr, WellFormed(s, h, d, dr),
           NEW f \in Frame, f.kind = "notify"
    PROVE  /\ Append(s, f) \in Seq(Frame)
           /\ WellFormed(Append(s, f), h, d + 1, dr)
           /\ d + 1 \in Nat
  <1> DEFINE t == Append(s, f)
             n == Len(s) + 1
  <1>1. t \in Seq(Frame) /\ t[n] = f /\ \A i \in 1..Len(s) : t[i] = s[i]
    BY PushFrame
  <1>2. /\ IndicesOf(t, "update") = IndicesOf(s, "update")
        /\ IndicesOf(t, "notify") = IndicesOf(s, "notify") \cup {n}
        /\ IndicesOf(t, "drain") = IndicesOf(s, "drain")
    BY IndicesPush
  <1>3. \A kind : IndicesOf(s, kind) \subseteq 1..Len(s) /\ IsFiniteSet(IndicesOf(s, kind))
    BY IndicesFinite
  <1>4. ObsOf(t) = ObsOf(s) /\ \A i \in 1..Len(s) : ObsBelow(t, i) = ObsBelow(s, i)
    BY ObsPush
  <1>5. n \notin IndicesOf(s, "notify")
    BY <1>3, LenProperties
  <1> HIDE DEF t, n
  <1>6. Exclusive(t, h)
    BY <1>1, <1>2, <1>3, <1>4 DEF WellFormed, Exclusive
  <1>7. Guarded(t, d + 1, dr) /\ d + 1 \in Nat
    <2>1. d = Cardinality(IndicesOf(s, "notify")) /\ d \in Nat
      BY <1>3, FS_CardinalityType DEF WellFormed, Guarded
    <2>2. Cardinality(IndicesOf(t, "notify")) = d + 1
      BY <1>2, <1>3, <1>5, <2>1, FS_AddElement
    <2>3. QED
      BY <1>2, <2>1, <2>2 DEF WellFormed, Guarded
  <1>8. StalledBusy(t, h)
    BY <1>1, <1>2, <1>3, <1>4 DEF WellFormed, StalledBusy
  <1>9. QED
    BY <1>1, <1>6, <1>7, <1>8 DEF WellFormed, t

\* The drain is entered, with nothing taken or put aside yet.
LEMMA WellFormedDrainStarts ==
    ASSUME NEW s \in Seq(Frame), NEW h, NEW d, WellFormed(s, h, d, FALSE),
           NEW f \in Frame, f.kind = "drain", f.stalled = {}
    PROVE  Append(s, f) \in Seq(Frame) /\ WellFormed(Append(s, f), h, d, TRUE)
  <1> DEFINE t == Append(s, f)
             n == Len(s) + 1
  <1>1. t \in Seq(Frame) /\ t[n] = f /\ \A i \in 1..Len(s) : t[i] = s[i]
    BY PushFrame
  <1>2. /\ IndicesOf(t, "update") = IndicesOf(s, "update")
        /\ IndicesOf(t, "notify") = IndicesOf(s, "notify")
        /\ IndicesOf(t, "drain") = {n}
    BY IndicesPush DEF WellFormed, Guarded
  <1>3. IndicesOf(s, "update") \subseteq 1..Len(s)
    BY IndicesFinite
  <1>4. ObsOf(t) = ObsOf(s)
    BY ObsPush
  <1> HIDE DEF t, n
  <1>5. Exclusive(t, h)
    BY <1>1, <1>2, <1>3, <1>4 DEF WellFormed, Exclusive
  <1>6. Guarded(t, d, TRUE)
    BY <1>2 DEF WellFormed, Guarded
  <1>7. StalledBusy(t, h)
    BY <1>1, <1>2 DEF StalledBusy
  <1>8. QED
    BY <1>1, <1>5, <1>6, <1>7 DEF WellFormed, t

\* The innermost call returns: DEPTH loses a round, DRAINING the drain.
LEMMA WellFormedReturn ==
    ASSUME NEW s \in Seq(Frame), s # <<>>, NEW h, NEW d, NEW dr, dr \in BOOLEAN,
           WellFormed(s, h, d, dr),
           NEW t, t = SubSeq(s, 1, Len(s) - 1)
    PROVE  /\ t \in Seq(Frame)
           /\ s[Len(s)].kind = "update" => WellFormed(t, h, d, dr)
           /\ s[Len(s)].kind = "notify" => WellFormed(t, h, d - 1, dr) /\ d - 1 \in Nat
           /\ s[Len(s)].kind = "drain" => WellFormed(t, h, d, FALSE)
  <1> DEFINE n == Len(s)
  <1>1. t \in Seq(Frame) /\ \A i \in 1..(n - 1) : t[i] = s[i]
    BY PopFrame
  <1>2. \A kind : IndicesOf(t, kind) = IndicesOf(s, kind) \ {n}
    BY IndicesPop
  <1>3. \A kind : IndicesOf(s, kind) \subseteq 1..n /\ IsFiniteSet(IndicesOf(s, kind))
    BY IndicesFinite
  <1>4. ObsOf(t) \subseteq ObsOf(s) /\ \A i \in 1..(n - 1) : ObsBelow(t, i) = ObsBelow(s, i)
    BY ObsPop
  <1>5. n \in Nat \ {0} /\ n \in DOMAIN s
    BY EmptySeq, LenProperties
  <1>6. \A kind : n \in IndicesOf(s, kind) <=> s[n].kind = kind
    BY <1>5 DEF IndicesOf
  <1> HIDE DEF n
  <1>7. \A kind : \A i \in IndicesOf(t, kind) :
            i \in IndicesOf(s, kind) /\ i \in 1..(n - 1) /\ t[i] = s[i]
    BY <1>1, <1>2, <1>3, <1>5
  <1>8. Exclusive(t, h)
    <2>1. \A i \in IndicesOf(t, "update") : i \in IndicesOf(s, "update") /\ t[i] = s[i]
      BY <1>7
    <2>2. QED
      BY <1>4, <2>1 DEF WellFormed, Exclusive
  <1>9. StalledBusy(t, h)
    BY <1>4, <1>7 DEF WellFormed, StalledBusy
  <1>10. d = Cardinality(IndicesOf(s, "notify")) /\ d \in Nat
    BY <1>3, FS_CardinalityType DEF WellFormed, Guarded
  <1>11. s[n].kind # "notify" => Cardinality(IndicesOf(t, "notify")) = d
    BY <1>2, <1>6, <1>10
  <1>12. s[n].kind = "notify" => /\ Cardinality(IndicesOf(t, "notify")) = d - 1
                                 /\ d - 1 \in Nat
    <2> SUFFICES ASSUME s[n].kind = "notify"
                 PROVE  Cardinality(IndicesOf(t, "notify")) = d - 1 /\ d - 1 \in Nat
      OBVIOUS
    <2>1. n \in IndicesOf(s, "notify") /\ IsFiniteSet(IndicesOf(s, "notify"))
      BY <1>3, <1>6
    <2>2. Cardinality(IndicesOf(t, "notify")) = d - 1
      <3>1. IndicesOf(t, "notify") = IndicesOf(s, "notify") \ {n}
        BY <1>2
      <3>2. QED
        BY <1>10, <2>1, <3>1, FS_RemoveElement
    <2>3. IsFiniteSet(IndicesOf(t, "notify"))
      BY <1>1, IndicesFinite
    <2>4. QED
      BY <2>2, <2>3, FS_CardinalityType
  <1>13. s[n].kind # "drain" => (dr <=> IndicesOf(t, "drain") # {})
    BY <1>2, <1>6 DEF WellFormed, Guarded
  <1>14. s[n].kind = "drain" => IndicesOf(t, "drain") = {}
    BY <1>2, <1>6 DEF WellFormed, Guarded
  <1>15. \A i, j \in IndicesOf(t, "drain") : i = j
    BY <1>7 DEF WellFormed, Guarded
  <1>16. /\ s[n].kind = "update" => Guarded(t, d, dr)
         /\ s[n].kind = "notify" => Guarded(t, d - 1, dr)
         /\ s[n].kind = "drain" => Guarded(t, d, FALSE)
    BY <1>11, <1>12, <1>13, <1>14, <1>15 DEF Guarded
  <1>17. QED
    BY <1>1, <1>8, <1>9, <1>12, <1>16 DEF WellFormed, n

\* A round or a drain visits one observer without serving it: a drain puts
\* aside only what is busy.
LEMMA WellFormedVisit ==
    ASSUME NEW s \in Seq(Frame), s # <<>>, NEW h, NEW d, NEW dr, WellFormed(s, h, d, dr),
           NEW f \in Frame, f.kind = s[Len(s)].kind, f.kind # "update",
           f.kind = "drain" => f.stalled \subseteq s[Len(s)].stalled \cup h \cup ObsOf(s),
           NEW t, t = [s EXCEPT ![Len(s)] = f]
    PROVE  /\ t \in Seq(Frame) /\ WellFormed(t, h, d, dr)
           /\ t # <<>> /\ Len(t) = Len(s) /\ t[Len(s)] = f
           /\ ObsOf(t) = ObsOf(s)
  <1> DEFINE n == Len(s)
  <1>1. /\ t \in Seq(Frame) /\ t # <<>> /\ Len(t) = n
        /\ \A i \in DOMAIN s : t[i] = IF i = n THEN f ELSE s[i]
    BY ReplaceFrame
  <1>2. \A kind : IndicesOf(t, kind) = IndicesOf(s, kind)
    BY IndicesReplace
  <1>3. ObsOf(t) = ObsOf(s) /\ \A i \in 1..n : ObsBelow(t, i) = ObsBelow(s, i)
    BY ObsReplace
  <1>4. n \in DOMAIN s /\ \A kind : IndicesOf(s, kind) \subseteq 1..n
    BY EmptySeq, LenProperties, IndicesFinite
  <1>5. \A i \in IndicesOf(s, "update") : i # n /\ i \in DOMAIN s
    BY DEF IndicesOf
  <1>6. ObsBelow(s, n) = ObsOf(s)
    <2>1. {k \in IndicesOf(s, "update") : k < n} = IndicesOf(s, "update")
      BY <1>4, <1>5, LenProperties
    <2>2. QED
      BY <2>1 DEF ObsBelow, ObsOf
  <1>7. Exclusive(t, h)
    BY <1>1, <1>2, <1>3, <1>5 DEF WellFormed, Exclusive
  <1>8. Guarded(t, d, dr)
    BY <1>2 DEF WellFormed, Guarded
  <1>9. StalledBusy(t, h)
    <2> SUFFICES ASSUME NEW i \in IndicesOf(s, "drain")
                 PROVE  t[i].stalled \subseteq h \cup ObsBelow(s, i)
      BY <1>2, <1>3, <1>4 DEF StalledBusy
    <2>1. s[i].stalled \subseteq h \cup ObsBelow(s, i) /\ i \in DOMAIN s /\ s[i].kind = "drain"
      BY DEF WellFormed, StalledBusy, IndicesOf
    <2>2. CASE i = n
      BY <1>1, <1>4, <1>6, <2>1, <2>2
    <2>3. CASE i # n
      BY <1>1, <2>1, <2>3
    <2>4. QED
      BY <2>2, <2>3
  <1>10. QED
    BY <1>1, <1>3, <1>4, <1>7, <1>8, <1>9 DEF WellFormed

\* With nothing on the stack the guards are released.
LEMMA WellFormedIdle == \A h : <<>> \in Seq(Frame) /\ WellFormed(<<>>, h, 0, FALSE)
  <1>1. \A kind : IndicesOf(<<>>, kind) = {}
    BY DEF IndicesOf
  <1>2. ObsOf(<<>>) = {}
    BY <1>1 DEF ObsOf
  <1>3. QED
    BY <1>1, <1>2, FS_EmptySet DEF WellFormed, Exclusive, Guarded, StalledBusy

-----------------------------------------------------------------------------
(* Every step keeps the invariant.                                          *)

LEMMA InvInit == Init => Inv
  <1> SUFFICES ASSUME Init PROVE Inv
    OBVIOUS
  <1>1. PICK w \in Wirings :
            registry = [x \in Observables |->
                {[obs |-> o, defer |-> DeferReentrant[o]] : o \in w[x]}]
    BY DEF Init
  <1>2. w \in [Observables -> SUBSET Observers]
    BY WiringAssumption
  <1>3. registry \in [Observables -> SUBSET Entry]
    BY <1>1, <1>2, DeferAssumption DEF Entry
  <1>4. stack \in Seq(Frame) /\ WellFormed(stack, held, depth, draining)
    BY WellFormedIdle DEF Init
  <1>5. TypeOK
    <2>1. depth \in Nat
      BY DEF Init
    <2>2. owned \subseteq Observers /\ held \subseteq Observers /\ pending \subseteq Observers
      BY DEF Init
    <2>3. draining \in BOOLEAN
      BY DEF Init
    <2>4. QED
      BY <1>3, <1>4, <2>1, <2>2, <2>3 DEF TypeOK
  <1>6. QED
    BY <1>4, <1>5 DEF Inv

\* What a step on the top frame may rely on.
LEMMA TopFacts ==
    ASSUME Inv, stack # <<>>
    PROVE  /\ Len(stack) \in Nat \ {0} /\ Len(stack) \in DOMAIN stack
           /\ Top \in Frame /\ Top = stack[Len(stack)]
           /\ Updating = ObsOf(stack)
           /\ Updating \subseteq Observers
  <1>1. Len(stack) \in Nat \ {0} /\ Len(stack) \in DOMAIN stack
    BY EmptySeq, LenProperties DEF Inv, TypeOK
  <1>2. Top \in Frame
    BY <1>1, ElementOfSeq, LenProperties DEF Inv, TypeOK, Top
  <1>3. Updating = ObsOf(stack)
    BY DEF Updating, At, ObsOf, IndicesOf
  <1>4. \A i \in DOMAIN stack : stack[i] \in Frame
    BY ElementOfSeq, LenProperties DEF Inv, TypeOK
  <1>5. Updating \subseteq Observers
    BY <1>4, FrameKinds DEF Updating, At
  <1>6. QED
    BY <1>1, <1>2, <1>3, <1>5 DEF Top

LEMMA UpdatingFacts == Inv => Updating = ObsOf(stack) /\ Updating \subseteq Observers
  <1> SUFFICES ASSUME Inv PROVE Updating = ObsOf(stack) /\ Updating \subseteq Observers
    OBVIOUS
  <1>1. \A i \in DOMAIN stack : stack[i] \in Frame
    BY ElementOfSeq, LenProperties DEF Inv, TypeOK
  <1>2. QED
    BY <1>1, FrameKinds DEF Updating, At, ObsOf, IndicesOf

\* Calls that leave the stack alone.
LEMMA InvQuietCalls ==
    ASSUME Inv,
           \/ \E x \in Observables, o \in Observers :
                  RegisterObserver(x, o) \/ UnregisterObserver(x, o)
           \/ \E o \in Observers : DropObserver(o) \/ Hold(o) \/ Release(o)
    PROVE  Inv'
  <1>1. CASE \E x \in Observables, o \in Observers : RegisterObserver(x, o)
    <2>1. PICK x \in Observables, o \in Observers : RegisterObserver(x, o)
      BY <1>1
    <2>2. NewEntry(o) \in Entry
      BY DeferAssumption DEF NewEntry, Entry
    <2>3. \A E \in SUBSET Entry : With(E, o) \in SUBSET Entry
      BY <2>2 DEF With, Live
    <2>4. registry' \in [Observables -> SUBSET Entry]
      BY <2>1, <2>3 DEF RegisterObserver, Inv, TypeOK
    <2>5. QED
      BY <2>1, <2>4 DEF RegisterObserver, Inv, TypeOK
  <1>2. CASE \E x \in Observables, o \in Observers : UnregisterObserver(x, o)
    <2>1. PICK x \in Observables, o \in Observers : UnregisterObserver(x, o)
      BY <1>2
    <2>2. \A E \in SUBSET Entry : Without(E, o) \in SUBSET Entry
      BY DEF Without, Live
    <2>3. registry' \in [Observables -> SUBSET Entry]
      BY <2>1, <2>2 DEF UnregisterObserver, Inv, TypeOK
    <2>4. QED
      BY <2>1, <2>3 DEF UnregisterObserver, Inv, TypeOK
  <1>3. CASE \E o \in Observers : DropObserver(o)
    BY <1>3 DEF DropObserver, Inv, TypeOK
  <1>4. CASE \E o \in Observers : Hold(o)
    <2>1. PICK o \in Observers : Hold(o)
      BY <1>4
    <2>2. WellFormed(stack', held', depth', draining')
      <3>1. stack = <<>> /\ stack' = <<>> /\ depth' = depth /\ draining' = draining
        BY <2>1 DEF Hold
      <3>2. \A kind : IndicesOf(<<>>, kind) = {}
        BY DEF IndicesOf
      <3>3. ObsOf(<<>>) = {}
        BY <3>2 DEF ObsOf
      <3>4. QED
        BY <3>1, <3>2, <3>3 DEF Inv, WellFormed, Exclusive, Guarded, StalledBusy
    <2>3. QED
      BY <2>1, <2>2 DEF Hold, Inv, TypeOK
  <1>5. CASE \E o \in Observers : Release(o)
    <2>1. PICK o \in Observers : Release(o)
      BY <1>5
    <2>2. WellFormed(stack', held', depth', draining')
      <3>1. stack = <<>> /\ stack' = <<>> /\ depth' = depth /\ draining' = draining
        BY <2>1 DEF Release
      <3>2. \A kind : IndicesOf(<<>>, kind) = {}
        BY DEF IndicesOf
      <3>3. ObsOf(<<>>) = {}
        BY <3>2 DEF ObsOf
      <3>4. QED
        BY <3>1, <3>2, <3>3 DEF Inv, WellFormed, Exclusive, Guarded, StalledBusy
    <2>3. QED
      BY <2>1, <2>2 DEF Release, Inv, TypeOK
  <1>6. QED
    BY <1>1, <1>2, <1>3, <1>4, <1>5

LEMMA InvNotifyObservers ==
    ASSUME Inv, NEW x \in Observables, NotifyObservers(x)
    PROVE  Inv'
  <1> DEFINE f == Round(x)
  <1>1. registry[x] \subseteq Entry /\ Live(registry[x]) \subseteq Entry
    BY DEF Inv, TypeOK, Live
  <1>2. f \in Frame /\ f.kind = "notify"
    BY <1>1 DEF Round, Frame, NotifyFrame
  <1> HIDE DEF f
  <1>3. /\ stack' \in Seq(Frame)
        /\ WellFormed(stack', held', depth', draining')
        /\ depth' \in Nat
    BY <1>2, WellFormedRoundStarts DEF NotifyObservers, Inv, TypeOK, f
  <1>4. registry' \in [Observables -> SUBSET Entry]
    BY <1>1 DEF NotifyObservers, Inv, TypeOK
  <1>5. QED
    BY <1>3, <1>4 DEF NotifyObservers, Inv, TypeOK

LEMMA InvDeliver ==
    ASSUME Inv, NEW o \in Observers, Deliver(o)
    PROVE  Inv'
  <1>1. stack' \in Seq(Frame) /\ WellFormed(stack', held', depth', draining')
    <2>1. CASE o \notin Busy
      <3>1. stack' = Append(stack, Update(o)) /\ UNCHANGED <<held, depth, draining>>
        BY <2>1 DEF Deliver
      <3>2. o \notin held \cup ObsOf(stack)
        BY <2>1, UpdatingFacts DEF Busy
      <3>3. QED
        BY <3>1, <3>2, WellFormedUpdateStarts DEF Inv, TypeOK
    <2>2. CASE o \in Busy
      BY <2>2 DEF Deliver, Inv, TypeOK
    <2>3. QED
      BY <2>1, <2>2
  <1>2. QED
    BY <1>1 DEF Deliver, Inv, TypeOK

LEMMA InvUnwind == Inv /\ Unwind => Inv'
  <1> SUFFICES ASSUME Inv, Unwind PROVE Inv'
    OBVIOUS
  <1>1. stack' \in Seq(Frame) /\ WellFormed(stack', held', depth', draining')
    BY WellFormedIdle DEF Unwind
  <1>2. depth' \in Nat /\ draining' \in BOOLEAN /\ held' \subseteq Observers
    BY DEF Unwind
  <1>3. QED
    BY <1>1, <1>2 DEF Unwind, Inv, TypeOK

LEMMA InvUpdateReturns == Inv /\ UpdateReturns => Inv'
  <1> SUFFICES ASSUME Inv, UpdateReturns PROVE Inv'
    OBVIOUS
  <1>1. stack' \in Seq(Frame) /\ WellFormed(stack', held', depth', draining')
    BY WellFormedReturn DEF UpdateReturns, TopIs, Top, Below, Inv, TypeOK
  <1>2. QED
    BY <1>1 DEF UpdateReturns, Inv, TypeOK

LEMMA InvRoundVisits ==
    ASSUME Inv, NEW e \in Entry, RoundVisits(e)
    PROVE  Inv'
  <1> DEFINE f == [Top EXCEPT !.todo = @ \ {e}]
             rest == [stack EXCEPT ![Len(stack)] = f]
  <1>1. stack # <<>> /\ Top.kind = "notify"
    BY DEF RoundVisits, TopIs
  <1>2. Top \in NotifyFrame /\ e.obs \in Observers
    BY <1>1, TopFacts, FrameKinds DEF Entry
  <1>3. f \in Frame /\ f.kind = "notify"
    BY <1>2 DEF Frame, NotifyFrame
  <1>4. rest = [stack EXCEPT ![Len(stack)].todo = @ \ {e}]
    BY <1>1, TopFacts DEF Top
  <1>5. /\ rest \in Seq(Frame) /\ WellFormed(rest, held, depth, draining)
        /\ ObsOf(rest) = Updating
    <2> HIDE DEF f
    <2>1. f.kind = stack[Len(stack)].kind /\ f.kind # "update" /\ f.kind # "drain"
      BY <1>1, <1>3 DEF Top
    <2>2. QED
      BY <1>1, <1>3, <2>1, WellFormedVisit, UpdatingFacts DEF Inv, TypeOK
  <1> HIDE DEF rest
  <1>6. stack' \in Seq(Frame) /\ WellFormed(stack', held', depth', draining')
    <2>1. CASE e.obs \notin Busy
      <3>1. stack' = Append(rest, Update(e.obs))
        BY <1>4, <2>1 DEF RoundVisits
      <3>2. e.obs \notin held \cup ObsOf(rest)
        BY <1>5, <2>1 DEF Busy
      <3>3. UNCHANGED <<held, depth, draining>>
        BY DEF RoundVisits
      <3>4. QED
        BY <1>2, <1>5, <3>1, <3>2, <3>3, WellFormedUpdateStarts
    <2>2. CASE e.obs \in Busy
      BY <1>4, <1>5, <2>2 DEF RoundVisits
    <2>3. QED
      BY <2>1, <2>2
  <1>7. pending' \subseteq Observers
    BY <1>2 DEF RoundVisits, Inv, TypeOK
  <1>8. QED
    BY <1>6, <1>7 DEF RoundVisits, Inv, TypeOK

LEMMA InvRoundEnds == Inv /\ RoundEnds => Inv'
  <1> SUFFICES ASSUME Inv, RoundEnds PROVE Inv'
    OBVIOUS
  <1>1. stack # <<>> /\ stack[Len(stack)].kind = "notify"
    BY DEF RoundEnds, TopIs, Top
  <1>2. /\ Below \in Seq(Frame) /\ WellFormed(Below, held, depth - 1, draining)
        /\ depth - 1 \in Nat
    BY <1>1, WellFormedReturn DEF Below, Inv, TypeOK
  <1> DEFINE f == [kind |-> "drain", batch |-> {}, stalled |-> {}]
  <1>3. f \in Frame /\ f.kind = "drain" /\ f.stalled = {}
    BY DEF Frame, DrainFrame
  <1>4. stack' \in Seq(Frame) /\ WellFormed(stack', held', depth', draining')
    <2>1. CASE depth' = 0 /\ ~draining
      <3>1. stack' = Append(Below, f) /\ draining' = TRUE /\ draining = FALSE
        BY <2>1 DEF RoundEnds, Inv, TypeOK
      <3>2. held' = held /\ depth' = depth - 1
        BY DEF RoundEnds
      <3>3. QED
        BY <1>2, <1>3, <3>1, <3>2, WellFormedDrainStarts
    <2>2. CASE ~ (depth' = 0 /\ ~draining)
      BY <1>2, <2>2 DEF RoundEnds
    <2>3. QED
      BY <2>1, <2>2
  <1>5. QED
    BY <1>2, <1>4 DEF RoundEnds, Inv, TypeOK

LEMMA InvDrainTakes == Inv /\ DrainTakes => Inv'
  <1> SUFFICES ASSUME Inv, DrainTakes PROVE Inv'
    OBVIOUS
  <1> DEFINE f == [Top EXCEPT !.batch = pending]
  <1>1. stack # <<>> /\ Top.kind = "drain"
    BY DEF DrainTakes, TopIs
  <1>2. Top \in DrainFrame
    BY <1>1, TopFacts, FrameKinds
  <1>3. f \in Frame /\ f.kind = "drain" /\ f.stalled = Top.stalled
    BY <1>2 DEF Frame, DrainFrame, Inv, TypeOK
  <1>4. stack' = [stack EXCEPT ![Len(stack)] = f]
    BY <1>1, TopFacts DEF DrainTakes, Top
  <1> HIDE DEF f
  <1>5. stack' \in Seq(Frame) /\ WellFormed(stack', held', depth', draining')
    <2>1. /\ f.kind = stack[Len(stack)].kind /\ f.kind # "update"
          /\ f.stalled \subseteq stack[Len(stack)].stalled \cup held \cup ObsOf(stack)
      BY <1>1, <1>3 DEF Top
    <2>2. UNCHANGED <<held, depth, draining>>
      BY DEF DrainTakes
    <2> DEFINE t == [stack EXCEPT ![Len(stack)] = f]
    <2>3. t \in Seq(Frame) /\ WellFormed(t, held, depth, draining)
      BY <1>1, <1>3, <2>1, WellFormedVisit DEF Inv, TypeOK
    <2>4. QED
      BY <1>4, <2>2, <2>3
  <1>6. QED
    BY <1>5 DEF DrainTakes, Inv, TypeOK

LEMMA InvDrainVisits ==
    ASSUME Inv, NEW o \in Observers, DrainVisits(o)
    PROVE  Inv'
  <1> DEFINE f == [Top EXCEPT !.batch = @ \ {o}]
             g == [Top EXCEPT !.batch = @ \ {o}, !.stalled = @ \cup {o}]
             rest == [stack EXCEPT ![Len(stack)] = f]
  <1>1. stack # <<>> /\ Top.kind = "drain"
    BY DEF DrainVisits, TopIs
  <1>2. Top \in DrainFrame
    BY <1>1, TopFacts, FrameKinds
  <1>3. /\ f \in Frame /\ f.kind = "drain" /\ f.stalled = Top.stalled
        /\ g \in Frame /\ g.kind = "drain" /\ g.stalled = Top.stalled \cup {o}
    BY <1>2 DEF Frame, DrainFrame
  <1>4. /\ rest = [stack EXCEPT ![Len(stack)].batch = @ \ {o}]
        /\ [rest EXCEPT ![Len(stack)].stalled = @ \cup {o}] = [stack EXCEPT ![Len(stack)] = g]
    <2>1. rest = [stack EXCEPT ![Len(stack)].batch = @ \ {o}]
      BY <1>1, TopFacts DEF Top
    <2>2. rest[Len(stack)] = f
      BY <1>1, TopFacts
    <2>3. [f EXCEPT !.stalled = @ \cup {o}] = g
      BY <1>2 DEF DrainFrame
    <2>4. [rest EXCEPT ![Len(stack)].stalled = @ \cup {o}]
            = [rest EXCEPT ![Len(stack)] = [f EXCEPT !.stalled = @ \cup {o}]]
      BY <2>2
    <2> HIDE DEF f, g
    <2>5. [rest EXCEPT ![Len(stack)] = g] = [stack EXCEPT ![Len(stack)] = g]
      BY <1>1, TopFacts, LenProperties DEF Inv, TypeOK
    <2>6. QED
      BY <2>1, <2>3, <2>4, <2>5
  <1> HIDE DEF f, g
  <1>5. Top.kind = stack[Len(stack)].kind /\ Top.stalled = stack[Len(stack)].stalled
    BY DEF Top
  <1>6. /\ rest \in Seq(Frame) /\ WellFormed(rest, held, depth, draining)
        /\ ObsOf(rest) = Updating
    BY <1>1, <1>3, <1>5, WellFormedVisit, UpdatingFacts DEF Inv, TypeOK
  <1>7. UNCHANGED <<registry, owned, held, pending, depth, draining>>
    BY DEF DrainVisits
  <1>8. stack' \in Seq(Frame) /\ WellFormed(stack', held', depth', draining')
    <2>1. CASE o \notin Alive
      <3>1. stack' = rest
        BY <1>4, <2>1 DEF DrainVisits
      <3>2. QED
        BY <1>6, <1>7, <3>1
    <2>2. CASE o \in Alive \ Busy
      <3>1. stack' = Append(rest, Update(o))
        BY <1>4, <2>2 DEF DrainVisits
      <3>2. o \notin held \cup ObsOf(rest)
        BY <1>6, <2>2 DEF Busy
      <3> HIDE DEF rest
      <3>3. QED
        BY <1>6, <1>7, <3>1, <3>2, WellFormedUpdateStarts
    <2>3. CASE o \in Alive \cap Busy
      <3>1. stack' = [stack EXCEPT ![Len(stack)] = g]
        BY <1>4, <2>3 DEF DrainVisits
      <3>2. g.stalled \subseteq stack[Len(stack)].stalled \cup held \cup ObsOf(stack)
        BY <1>3, <1>5, <2>3, UpdatingFacts DEF Busy
      <3> DEFINE t == [stack EXCEPT ![Len(stack)] = g]
      <3>3. t \in Seq(Frame) /\ WellFormed(t, held, depth, draining)
        BY <1>1, <1>3, <1>5, <3>2, WellFormedVisit DEF Inv, TypeOK
      <3>4. QED
        BY <1>7, <3>1, <3>3
    <2>4. QED
      BY <2>1, <2>2, <2>3
  <1>9. QED
    BY <1>7, <1>8 DEF Inv, TypeOK

LEMMA InvDrainEnds == Inv /\ DrainEnds => Inv'
  <1> SUFFICES ASSUME Inv, DrainEnds PROVE Inv'
    OBVIOUS
  <1>1. stack # <<>> /\ stack[Len(stack)].kind = "drain"
    BY DEF DrainEnds, TopIs, Top
  <1>2. Below \in Seq(Frame) /\ WellFormed(Below, held, depth, FALSE)
    BY <1>1, WellFormedReturn DEF Below, Inv, TypeOK
  <1>3. Top.stalled \subseteq Observers
    BY <1>1, TopFacts, FrameKinds DEF Top
  <1>4. QED
    BY <1>2, <1>3 DEF DrainEnds, Inv, TypeOK

LEMMA InvNext == Inv /\ [Next]_vars => Inv'
  <1> SUFFICES ASSUME Inv, [Next]_vars PROVE Inv'
    OBVIOUS
  <1>1. CASE \E x \in Observables, o \in Observers :
                 RegisterObserver(x, o) \/ UnregisterObserver(x, o)
    BY <1>1, InvQuietCalls
  <1>2. CASE \E o \in Observers : DropObserver(o) \/ Hold(o) \/ Release(o)
    BY <1>2, InvQuietCalls
  <1>3. CASE \E o \in Observers : Deliver(o)
    BY <1>3, InvDeliver
  <1>4. CASE \E x \in Observables : NotifyObservers(x)
    BY <1>4, InvNotifyObservers
  <1>5. CASE Unwind
    BY <1>5, InvUnwind
  <1>6. CASE UpdateReturns
    BY <1>6, InvUpdateReturns
  <1>7. CASE \E o \in Observers, d \in BOOLEAN : RoundVisits([obs |-> o, defer |-> d])
    <2>1. PICK o \in Observers, d \in BOOLEAN : RoundVisits([obs |-> o, defer |-> d])
      BY <1>7
    <2>2. [obs |-> o, defer |-> d] \in Entry
      BY DEF Entry
    <2>3. QED
      BY <2>1, <2>2, InvRoundVisits
  <1>8. CASE RoundEnds
    BY <1>8, InvRoundEnds
  <1>9. CASE DrainTakes
    BY <1>9, InvDrainTakes
  <1>10. CASE \E o \in Observers : DrainVisits(o)
    BY <1>10, InvDrainVisits
  <1>11. CASE DrainEnds
    BY <1>11, InvDrainEnds
  <1>12. CASE UNCHANGED vars
    BY <1>12 DEF vars, Inv, TypeOK
  <1>13. QED
    BY <1>1, <1>2, <1>3, <1>4, <1>5, <1>6, <1>7, <1>8, <1>9, <1>10, <1>11, <1>12
       DEF Next, UserStep, EngineStep

\* Every reachable state is well formed, whatever the updates do.
THEOREM InvAlways == Spec => []Inv
  <1>1. QED
    BY InvInit, InvNext, PTL DEF Spec

\* The variables keep their types; DEPTH in particular never goes below zero.
THEOREM TypeCorrect == Spec => []TypeOK
  <1>1. QED
    BY InvAlways, InvImplies, PTL

\* No update() runs on an observer that is already mutably borrowed.
THEOREM NeverBorrowedTwice == Spec => []NoSecondBorrow
  <1>1. QED
    BY InvAlways, InvImplies, PTL

\* DEPTH and DRAINING always describe the calls under way.
THEOREM GuardsAlwaysMatch == Spec => []GuardsMatchStack
  <1>1. QED
    BY InvAlways, InvImplies, PTL

-----------------------------------------------------------------------------
(* Nothing due to a deferring observer is lost.                             *)

OwedIn(s) == UNION {OwedBy(s[i]) : i \in DOMAIN s}

LEMMA OwedPush ==
    ASSUME NEW s \in Seq(Frame), NEW f \in Frame
    PROVE  OwedIn(Append(s, f)) = OwedIn(s) \cup OwedBy(f)
  <1>1. /\ DOMAIN Append(s, f) = 1..(Len(s) + 1) /\ DOMAIN s = 1..Len(s)
        /\ \A i \in 1..Len(s) : Append(s, f)[i] = s[i]
        /\ Append(s, f)[Len(s) + 1] = f
        /\ Len(s) \in Nat
    BY PushFrame, LenProperties
  <1>2. QED
    BY <1>1 DEF OwedIn

LEMMA OwedPop ==
    ASSUME NEW s \in Seq(Frame), s # <<>>,
           NEW t, t = SubSeq(s, 1, Len(s) - 1)
    PROVE  OwedIn(s) = OwedIn(t) \cup OwedBy(s[Len(s)])
  <1>1. /\ DOMAIN t = 1..(Len(s) - 1) /\ DOMAIN s = 1..Len(s)
        /\ \A i \in 1..(Len(s) - 1) : t[i] = s[i]
        /\ Len(s) \in Nat \ {0}
    BY PopFrame, LenProperties, EmptySeq
  <1>2. DOMAIN s = DOMAIN t \cup {Len(s)} /\ \A i \in DOMAIN t : t[i] = s[i]
    BY <1>1
  <1>3. ASSUME NEW o PROVE o \in OwedIn(s) <=> o \in OwedIn(t) \cup OwedBy(s[Len(s)])
    <2>1. o \in OwedIn(s) <=> \E i \in DOMAIN s : o \in OwedBy(s[i])
      BY DEF OwedIn
    <2>2. o \in OwedIn(t) <=> \E i \in DOMAIN t : o \in OwedBy(t[i])
      BY DEF OwedIn
    <2>3. QED
      BY <1>2, <2>1, <2>2
  <1>4. QED
    BY <1>3

LEMMA OwedReplace ==
    ASSUME NEW s \in Seq(Frame), s # <<>>, NEW f \in Frame,
           NEW t, t = [s EXCEPT ![Len(s)] = f]
    PROVE  OwedIn(s) \subseteq OwedIn(t) \cup OwedBy(s[Len(s)]) /\ OwedBy(f) \subseteq OwedIn(t)
  <1>1. /\ DOMAIN t = DOMAIN s /\ Len(s) \in DOMAIN s
        /\ \A i \in DOMAIN s : t[i] = IF i = Len(s) THEN f ELSE s[i]
    BY ReplaceFrame, LenProperties, EmptySeq
  <1>2. QED
    BY <1>1 DEF OwedIn

LEMMA OutstandingIs == Outstanding = pending \cup OwedIn(stack)
  BY DEF Outstanding, OwedIn

\* What a step may take away from Outstanding.
Excused(o) == o \in Updating' \ Updating \/ o \notin Alive \/ Unwind

LEMMA LossRoundVisits ==
    ASSUME Inv, NEW e \in Entry, RoundVisits(e)
    PROVE  \A o \in Outstanding \ Outstanding' : Excused(o)
  <1> DEFINE f == [Top EXCEPT !.todo = @ \ {e}]
             rest == [stack EXCEPT ![Len(stack)] = f]
  <1>1. stack # <<>> /\ Top.kind = "notify"
    BY DEF RoundVisits, TopIs
  <1>2. Top \in NotifyFrame /\ Top = stack[Len(stack)]
    BY <1>1, TopFacts, FrameKinds
  <1>3. /\ f \in Frame /\ f.kind = "notify" /\ f.todo = Top.todo \ {e}
        /\ Update(e.obs) \in Frame
    BY <1>2 DEF Frame, NotifyFrame, UpdateFrame, Update, Entry
  <1>4. rest = [stack EXCEPT ![Len(stack)].todo = @ \ {e}]
    BY <1>1, TopFacts DEF Top
  <1>5. OwedBy(Top) \subseteq OwedBy(f) \cup (IF e.defer THEN {e.obs} ELSE {})
    BY <1>1, <1>3 DEF OwedBy
  <1> HIDE DEF f
  <1>6. OwedIn(stack) \subseteq OwedIn(rest) \cup OwedBy(Top) /\ OwedBy(f) \subseteq OwedIn(rest)
    BY <1>1, <1>2, <1>3, OwedReplace DEF Inv, TypeOK
  <1>7. rest \in Seq(Frame)
    BY <1>1, <1>3, ReplaceFrame DEF Inv, TypeOK
  <1> HIDE DEF rest
  <1>8. CASE e.obs \notin Busy
    <2>1. stack' = Append(rest, Update(e.obs)) /\ pending' = pending
      BY <1>4, <1>8 DEF RoundVisits
    <2>2. OwedIn(rest) \subseteq OwedIn(stack')
      BY <1>3, <1>7, <2>1, OwedPush
    <2>3. e.obs \in Updating' \ Updating
      <3>1. /\ DOMAIN stack' = 1..(Len(rest) + 1) /\ Len(rest) \in Nat
            /\ stack'[Len(rest) + 1] = Update(e.obs)
        BY <1>3, <1>7, <2>1, PushFrame, LenProperties
      <3>2. e.obs \in Updating'
        BY <3>1 DEF Updating, At, Update
      <3>3. QED
        BY <1>8, <3>2 DEF Busy
    <2>4. QED
      BY <1>5, <1>6, <2>1, <2>2, <2>3, OutstandingIs DEF Excused, Outstanding, OwedIn
  <1>9. CASE e.obs \in Busy
    <2>1. stack' = rest /\ pending' = IF e.defer THEN pending \cup {e.obs} ELSE pending
      BY <1>4, <1>9 DEF RoundVisits
    <2>2. OwedIn(stack) \subseteq OwedIn(stack') \cup (IF e.defer THEN {e.obs} ELSE {})
      BY <1>5, <1>6, <2>1
    <2>3. QED
      BY <2>1, <2>2 DEF Outstanding, OwedIn
  <1>10. QED
    BY <1>8, <1>9

LEMMA LossRoundEnds ==
    ASSUME Inv, RoundEnds
    PROVE  Outstanding \subseteq Outstanding'
  <1>1. stack # <<>> /\ Top.kind = "notify" /\ Top = stack[Len(stack)] /\ Top.todo = {}
    BY DEF RoundEnds, TopIs, Top
  <1>2. OwedBy(Top) = {}
    BY <1>1 DEF OwedBy
  <1>3. Below \in Seq(Frame) /\ OwedIn(stack) = OwedIn(Below) \cup OwedBy(Top)
    BY <1>1, OwedPop, PopFrame DEF Below, Inv, TypeOK
  <1>4. OwedIn(Below) \subseteq OwedIn(stack')
    <2> DEFINE f == [kind |-> "drain", batch |-> {}, stalled |-> {}]
    <2>1. f \in Frame
      BY DEF Frame, DrainFrame
    <2> HIDE DEF f
    <2>2. stack' = Below \/ stack' = Append(Below, f)
      BY DEF RoundEnds, f
    <2>3. QED
      BY <1>3, <2>1, <2>2, OwedPush
  <1>5. QED
    BY <1>2, <1>3, <1>4 DEF RoundEnds, Outstanding, OwedIn

LEMMA LossDrainTakes ==
    ASSUME Inv, DrainTakes
    PROVE  Outstanding \subseteq Outstanding'
  <1> DEFINE f == [Top EXCEPT !.batch = pending]
             t == [stack EXCEPT ![Len(stack)] = f]
  <1>1. stack # <<>> /\ Top.kind = "drain" /\ Top.batch = {}
    BY DEF DrainTakes, TopIs
  <1>2. Top \in DrainFrame /\ Top = stack[Len(stack)]
    BY <1>1, TopFacts, FrameKinds
  <1>3. /\ f \in Frame /\ f.kind = "drain" /\ f.stalled = Top.stalled
        /\ f.batch = pending
    BY <1>2 DEF Frame, DrainFrame, Inv, TypeOK
  <1>4. stack' = t /\ pending' = {}
    BY <1>1, TopFacts DEF DrainTakes, Top
  <1>5. OwedBy(f) = pending \cup Top.stalled /\ OwedBy(Top) = Top.stalled
    BY <1>1, <1>3 DEF OwedBy
  <1> HIDE DEF f
  <1>6. OwedIn(stack) \subseteq OwedIn(t) \cup OwedBy(Top) /\ OwedBy(f) \subseteq OwedIn(t)
    BY <1>1, <1>2, <1>3, OwedReplace DEF Inv, TypeOK
  <1>7. OwedIn(stack) \cup pending \subseteq OwedIn(stack')
    BY <1>4, <1>5, <1>6
  <1>8. QED
    BY <1>7 DEF Outstanding, OwedIn

LEMMA LossDrainVisits ==
    ASSUME Inv, NEW o \in Observers, DrainVisits(o)
    PROVE  \A p \in Outstanding \ Outstanding' : Excused(p)
  <1> DEFINE f == [Top EXCEPT !.batch = @ \ {o}]
             g == [Top EXCEPT !.batch = @ \ {o}, !.stalled = @ \cup {o}]
             rest == [stack EXCEPT ![Len(stack)] = f]
             aside == [stack EXCEPT ![Len(stack)] = g]
  <1>1. stack # <<>> /\ Top.kind = "drain" /\ o \in Top.batch
    BY DEF DrainVisits, TopIs
  <1>2. Top \in DrainFrame /\ Top = stack[Len(stack)]
    BY <1>1, TopFacts, FrameKinds
  <1>3. /\ f \in Frame /\ f.kind = "drain"
        /\ f.stalled = Top.stalled /\ f.batch = Top.batch \ {o}
        /\ g \in Frame /\ g.kind = "drain"
        /\ g.stalled = Top.stalled \cup {o} /\ g.batch = Top.batch \ {o}
        /\ Update(o) \in Frame
    BY <1>2 DEF Frame, DrainFrame, UpdateFrame, Update
  <1>4. /\ rest = [stack EXCEPT ![Len(stack)].batch = @ \ {o}]
        /\ [rest EXCEPT ![Len(stack)].stalled = @ \cup {o}] = aside
    <2>1. rest = [stack EXCEPT ![Len(stack)].batch = @ \ {o}]
      BY <1>2
    <2>2. rest[Len(stack)] = f
      BY <1>1, TopFacts
    <2>3. [f EXCEPT !.stalled = @ \cup {o}] = g
      BY <1>2 DEF DrainFrame
    <2>4. [rest EXCEPT ![Len(stack)].stalled = @ \cup {o}]
            = [rest EXCEPT ![Len(stack)] = [f EXCEPT !.stalled = @ \cup {o}]]
      BY <2>2
    <2> HIDE DEF f, g
    <2>5. [rest EXCEPT ![Len(stack)] = g] = aside
      BY <1>1, TopFacts, LenProperties DEF Inv, TypeOK
    <2>6. QED
      BY <2>1, <2>3, <2>4, <2>5
  <1>5. OwedBy(Top) = OwedBy(f) \cup {o} /\ OwedBy(Top) \subseteq OwedBy(g)
    BY <1>1, <1>3 DEF OwedBy
  <1> HIDE DEF f, g
  <1>6. /\ OwedIn(stack) \subseteq OwedIn(rest) \cup OwedBy(Top)
        /\ OwedBy(f) \subseteq OwedIn(rest)
        /\ OwedIn(stack) \subseteq OwedIn(aside) \cup OwedBy(Top)
        /\ OwedBy(g) \subseteq OwedIn(aside)
    BY <1>1, <1>2, <1>3, OwedReplace DEF Inv, TypeOK
  <1>7. rest \in Seq(Frame)
    BY <1>1, <1>3, ReplaceFrame DEF Inv, TypeOK
  <1>8. pending' = pending
    BY DEF DrainVisits
  <1>9. OwedIn(stack) \subseteq OwedIn(rest) \cup {o} /\ OwedIn(stack) \subseteq OwedIn(aside)
    BY <1>5, <1>6
  <1> HIDE DEF rest, aside
  <1>10. CASE o \notin Alive
    <2>1. stack' = rest
      BY <1>4, <1>10 DEF DrainVisits
    <2>2. QED
      BY <1>8, <1>9, <1>10, <2>1 DEF Outstanding, OwedIn, Excused
  <1>11. CASE o \in Alive \ Busy
    <2>1. stack' = Append(rest, Update(o))
      BY <1>4, <1>11 DEF DrainVisits
    <2>2. OwedIn(rest) \subseteq OwedIn(stack')
      BY <1>3, <1>7, <2>1, OwedPush
    <2>3. o \in Updating' \ Updating
      <3>1. /\ DOMAIN stack' = 1..(Len(rest) + 1) /\ Len(rest) \in Nat
            /\ stack'[Len(rest) + 1] = Update(o)
        BY <1>3, <1>7, <2>1, PushFrame, LenProperties
      <3>2. o \in Updating'
        BY <3>1 DEF Updating, At, Update
      <3>3. QED
        BY <1>11, <3>2 DEF Busy
    <2>4. QED
      BY <1>8, <1>9, <2>2, <2>3 DEF Outstanding, OwedIn, Excused
  <1>12. CASE o \in Alive \cap Busy
    <2>1. stack' = aside
      BY <1>4, <1>12 DEF DrainVisits
    <2>2. QED
      BY <1>8, <1>9, <2>1 DEF Outstanding, OwedIn
  <1>13. QED
    BY <1>10, <1>11, <1>12

LEMMA LossDrainEnds ==
    ASSUME Inv, DrainEnds
    PROVE  Outstanding \subseteq Outstanding'
  <1>1. stack # <<>> /\ Top.kind = "drain" /\ Top = stack[Len(stack)]
        /\ Top.batch = {} /\ pending = {} /\ stack' = Below /\ pending' = Top.stalled
    BY DEF DrainEnds, TopIs, Top
  <1>2. OwedBy(Top) = Top.stalled
    BY <1>1 DEF OwedBy
  <1>3. OwedIn(stack) = OwedIn(Below) \cup OwedBy(Top)
    BY <1>1, OwedPop DEF Below, Inv, TypeOK
  <1>4. QED
    BY <1>1, <1>2, <1>3 DEF Outstanding, OwedIn

LEMMA LossNext ==
    ASSUME Inv, [Next]_vars
    PROVE  \A o \in Outstanding \ Outstanding' : Excused(o)
  <1>1. CASE UNCHANGED <<stack, pending>>
    BY <1>1 DEF Outstanding
  <1>2. CASE \E x \in Observables, o \in Observers :
                 RegisterObserver(x, o) \/ UnregisterObserver(x, o)
    BY <1>1, <1>2 DEF RegisterObserver, UnregisterObserver
  <1>3. CASE \E o \in Observers : DropObserver(o) \/ Hold(o) \/ Release(o)
    BY <1>1, <1>3 DEF DropObserver, Hold, Release
  <1>4. CASE \E o \in Observers : Deliver(o)
    <2>1. PICK o \in Observers : Deliver(o)
      BY <1>4
    <2>2. Update(o) \in Frame
      BY DEF Update, Frame, UpdateFrame
    <2>3. OwedIn(stack) \subseteq OwedIn(stack') /\ pending \subseteq pending'
      BY <2>1, <2>2, OwedPush DEF Deliver, Inv, TypeOK
    <2>4. QED
      BY <2>3 DEF Outstanding, OwedIn
  <1>5. CASE \E x \in Observables : NotifyObservers(x)
    <2>1. PICK x \in Observables : NotifyObservers(x)
      BY <1>5
    <2> DEFINE f == Round(x)
    <2>2. f \in Frame
      BY DEF Round, Frame, NotifyFrame, Live, Inv, TypeOK
    <2> HIDE DEF f
    <2>3. stack' = Append(stack, f) /\ pending' = pending
      BY <2>1 DEF NotifyObservers, f
    <2>4. OwedIn(stack) \subseteq OwedIn(stack')
      BY <2>2, <2>3, OwedPush DEF Inv, TypeOK
    <2>5. QED
      BY <2>3, <2>4 DEF Outstanding, OwedIn
  <1>6. CASE Unwind
    BY <1>6 DEF Excused
  <1>7. CASE UpdateReturns
    <2>1. stack # <<>> /\ stack[Len(stack)].kind = "update"
      BY <1>7 DEF UpdateReturns, TopIs, Top
    <2>2. OwedBy(stack[Len(stack)]) = {}
      BY <2>1 DEF OwedBy
    <2>3. OwedIn(stack) = OwedIn(Below) \cup OwedBy(stack[Len(stack)])
      BY <2>1, OwedPop DEF Below, Inv, TypeOK
    <2>4. stack' = Below /\ pending' = pending
      BY <1>7 DEF UpdateReturns
    <2>5. QED
      BY <2>2, <2>3, <2>4 DEF Outstanding, OwedIn
  <1>8. CASE \E o \in Observers, d \in BOOLEAN : RoundVisits([obs |-> o, defer |-> d])
    <2>1. PICK o \in Observers, d \in BOOLEAN : RoundVisits([obs |-> o, defer |-> d])
      BY <1>8
    <2>2. [obs |-> o, defer |-> d] \in Entry
      BY DEF Entry
    <2>3. QED
      BY <2>1, <2>2, LossRoundVisits
  <1>9. CASE RoundEnds
    BY <1>9, LossRoundEnds
  <1>10. CASE DrainTakes
    BY <1>10, LossDrainTakes
  <1>11. CASE \E o \in Observers : DrainVisits(o)
    BY <1>11, LossDrainVisits
  <1>12. CASE DrainEnds
    BY <1>12, LossDrainEnds
  <1>13. CASE UNCHANGED vars
    BY <1>1, <1>13 DEF vars
  <1>14. QED
    BY <1>2, <1>3, <1>4, <1>5, <1>6, <1>7, <1>8, <1>9, <1>10, <1>11, <1>12, <1>13
       DEF Next, UserStep, EngineStep

\* A notification due to a deferring observer stays due until the observer is
\* updated, unless it dies or an update panics: the promise of notify_observers.
THEOREM NothingIsLost == Spec => NothingLost
  <1>1. Inv /\ [Next]_vars =>
            [\A o \in Outstanding \ Outstanding' :
                \/ o \in Updating' \ Updating
                \/ o \notin Alive
                \/ Unwind]_vars
    BY LossNext DEF Excused
  <1>2. QED
    BY <1>1, InvAlways, PTL DEF Spec, NothingLost

\* A round makes its notification due to every live deferring registrant.
THEOREM RoundsReachAll == Spec => RoundReachesAll
  <1>1. ASSUME Inv, NEW x \in Observables, NotifyObservers(x),
               NEW e \in registry[x], e.defer, e.obs \in Alive
        PROVE  e.obs \in Outstanding'
    <2> DEFINE f == Round(x)
    <2>1. f \in Frame
      BY <1>1 DEF Round, Frame, NotifyFrame, Live, Inv, TypeOK
    <2>2. e.obs \in OwedBy(f)
      BY <1>1 DEF Round, OwedBy, Live
    <2> HIDE DEF f
    <2>3. stack' = Append(stack, f)
      BY <1>1 DEF NotifyObservers, f
    <2>4. OwedBy(f) \subseteq OwedIn(stack')
      BY <1>1, <2>1, <2>3, OwedPush DEF Inv, TypeOK
    <2>5. QED
      BY <2>2, <2>4 DEF Outstanding, OwedIn
  <1>2. Inv /\ [Next]_vars =>
            [\A x \in Observables : NotifyObservers(x) =>
                 \A e \in registry[x] :
                     e.defer /\ e.obs \in Alive => e.obs \in Outstanding']_vars
    BY <1>1
  <1>3. QED
    BY <1>2, InvAlways, PTL DEF Spec, RoundReachesAll

\* After the outermost drain only busy observers stay queued.
THEOREM OnlyBusyAreQueued == Spec => OnlyBusyStayQueued
  <1>1. ASSUME Inv, DrainEnds
        PROVE  pending' \subseteq Busy'
    <2>1. stack # <<>> /\ stack[Len(stack)].kind = "drain" /\ stack' = Below
          /\ pending' = stack[Len(stack)].stalled /\ held' = held
      BY <1>1 DEF DrainEnds, TopIs, Top
    <2>2. Len(stack) \in IndicesOf(stack, "drain")
      BY <1>1, <2>1, TopFacts DEF IndicesOf
    <2>3. pending' \subseteq held \cup ObsBelow(stack, Len(stack))
      BY <1>1, <2>1, <2>2 DEF Inv, WellFormed, StalledBusy
    <2>4. ObsOf(Below) = ObsBelow(stack, Len(stack))
      BY <1>1, <2>1, ObsPop DEF Below, Inv, TypeOK
    <2>5. Updating' = ObsOf(Below)
      BY <2>1 DEF Updating, At, ObsOf, IndicesOf
    <2>6. QED
      BY <2>1, <2>3, <2>4, <2>5 DEF Busy
  <1>2. Inv /\ [Next]_vars => [DrainEnds => pending' \subseteq Busy']_vars
    BY <1>1
  <1>3. QED
    BY <1>2, InvAlways, PTL DEF Spec, OnlyBusyStayQueued

\* Registration is idempotent by observer, whatever is recorded with it.
THEOREM OneEntryEach == Spec => []OneEntryPerObserver
  <1>1. Init => OneEntryPerObserver
    BY DEF Init, OneEntryPerObserver
  <1>2. TypeOK /\ OneEntryPerObserver /\ [Next]_vars => OneEntryPerObserver'
    <2> SUFFICES ASSUME TypeOK, OneEntryPerObserver, [Next]_vars,
                        NEW y \in Observables
                 PROVE  \A e, f \in registry'[y] : e.obs = f.obs => e = f
      BY DEF OneEntryPerObserver
    <2>1. CASE registry' = registry
      BY <2>1 DEF OneEntryPerObserver
    <2>2. CASE \E x \in Observables, o \in Observers : RegisterObserver(x, o)
      <3>1. PICK x \in Observables, o \in Observers : RegisterObserver(x, o)
        BY <2>2
      <3>2. registry'[y] \subseteq registry[y] \/
              /\ registry'[y] = Live(registry[y]) \cup {NewEntry(o)}
              /\ \A e \in Live(registry[y]) : e.obs # o
        BY <3>1 DEF RegisterObserver, With, Live, TypeOK
      <3>3. NewEntry(o).obs = o
        BY DEF NewEntry
      <3>4. QED
        BY <3>2, <3>3 DEF OneEntryPerObserver, Live
    <2>3. CASE \E x \in Observables, o \in Observers : UnregisterObserver(x, o)
      <3>1. registry'[y] \subseteq registry[y]
        BY <2>3 DEF UnregisterObserver, Without, Live, TypeOK
      <3>2. QED
        BY <3>1 DEF OneEntryPerObserver
    <2>4. CASE \E x \in Observables : NotifyObservers(x)
      <3>1. registry'[y] \subseteq registry[y]
        BY <2>4 DEF NotifyObservers, Live, TypeOK
      <3>2. QED
        BY <3>1 DEF OneEntryPerObserver
    <2>5. CASE \E o \in Observers : DropObserver(o) \/ Hold(o) \/ Release(o) \/ Deliver(o)
      BY <2>1, <2>5 DEF DropObserver, Hold, Release, Deliver
    <2>6. CASE Unwind
      BY <2>1, <2>6 DEF Unwind
    <2>7. CASE EngineStep
      BY <2>1, <2>7
         DEF EngineStep, UpdateReturns, RoundVisits, RoundEnds, DrainTakes, DrainVisits, DrainEnds
    <2>8. CASE UNCHANGED vars
      BY <2>1, <2>8 DEF vars
    <2>9. QED
      BY <2>2, <2>3, <2>4, <2>5, <2>6, <2>7, <2>8 DEF Next, UserStep
  <1>3. QED
    BY <1>1, <1>2, TypeCorrect, PTL DEF Spec
=============================================================================
