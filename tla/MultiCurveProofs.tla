--------------------------- MODULE MultiCurveProofs ---------------------------
(***************************************************************************)
(* Theorems about MultiCurve, for any curves, quotes, wiring and users.    *)
(***************************************************************************)
EXTENDS MultiCurve, SequenceTheorems, TLAPS

-----------------------------------------------------------------------------
(* The calls under way, as a set.                                          *)

AnyFrame == E!Frame \cup SolveFrame
FramesOf(s) == {s[i] : i \in 1..Len(s)}
SolvingIn(s) == \E f \in FramesOf(s) : f.kind = "solve"

\* A call is entered.
LEMMA Pushed ==
    ASSUME NEW s \in Seq(AnyFrame), NEW f \in AnyFrame
    PROVE  /\ Append(s, f) \in Seq(AnyFrame)
           /\ FramesOf(Append(s, f)) = FramesOf(s) \cup {f}
<1>1. /\ Append(s, f) \in Seq(AnyFrame)
      /\ Len(Append(s, f)) = Len(s) + 1 /\ Len(s) \in Nat
      /\ \A i \in 1..Len(s) : Append(s, f)[i] = s[i]
      /\ Append(s, f)[Len(s) + 1] = f
  BY AppendProperties, LenProperties
<1>2. FramesOf(Append(s, f)) = FramesOf(s) \cup {f} BY <1>1 DEF FramesOf
<1>. QED BY <1>1, <1>2

LEMMA Prefix ==
    ASSUME NEW s \in Seq(AnyFrame), NEW n \in Nat, n <= Len(s)
    PROVE  /\ SubSeq(s, 1, n) \in Seq(AnyFrame)
           /\ Len(SubSeq(s, 1, n)) = n
           /\ \A i \in 1..n : SubSeq(s, 1, n)[i] = s[i]
<1>1. \A i \in 1..n : s[i] \in AnyFrame
  BY ElementOfSeq, LenProperties
<1>2. /\ SubSeq(s, 1, n) \in Seq(AnyFrame)
      /\ Len(SubSeq(s, 1, n)) = IF 1 <= n THEN n - 1 + 1 ELSE 0
      /\ \A i \in 1..(n - 1 + 1) : SubSeq(s, 1, n)[i] = s[1 + i - 1]
  BY <1>1, SubSeqProperties
<1>3. n - 1 + 1 = n /\ (~(1 <= n) => n = 0)
  OBVIOUS
<1>4. \A i \in 1..n : 1 + i - 1 = i
  OBVIOUS
<1>. QED BY <1>2, <1>3, <1>4

\* A call returns.
LEMMA Popped ==
    ASSUME NEW s \in Seq(AnyFrame), s # <<>>
    PROVE  /\ SubSeq(s, 1, Len(s) - 1) \in Seq(AnyFrame)
           /\ s[Len(s)] \in AnyFrame
           /\ FramesOf(s) = FramesOf(SubSeq(s, 1, Len(s) - 1)) \cup {s[Len(s)]}
<1>1. Len(s) \in Nat \ {0} BY EmptySeq, LenProperties
<1>2. PICK t : t = SubSeq(s, 1, Len(s) - 1) OBVIOUS
<1>3. Len(s) - 1 \in Nat /\ Len(s) - 1 <= Len(s) BY <1>1
<1>4. t \in Seq(AnyFrame) /\ Len(t) = Len(s) - 1 /\ \A i \in 1..(Len(s) - 1) : t[i] = s[i]
  BY <1>2, <1>3, Prefix
<1>5. FramesOf(s) = FramesOf(t) \cup {s[Len(s)]}
  BY <1>1, <1>4 DEF FramesOf
<1>. QED BY <1>1, <1>2, <1>4, <1>5, ElementOfSeq

\* The innermost call is replaced.
LEMMA Replaced ==
    ASSUME NEW s \in Seq(AnyFrame), s # <<>>, NEW f \in AnyFrame
    PROVE  /\ [s EXCEPT ![Len(s)] = f] \in Seq(AnyFrame)
           /\ f \in FramesOf([s EXCEPT ![Len(s)] = f])
           /\ \A g \in FramesOf(s) : g # s[Len(s)] => g \in FramesOf([s EXCEPT ![Len(s)] = f])
           /\ FramesOf([s EXCEPT ![Len(s)] = f]) \subseteq FramesOf(s) \cup {f}
<1>1. Len(s) \in Nat \ {0} /\ Len(s) \in 1..Len(s) BY EmptySeq, LenProperties
<1>2. PICK t : t = [s EXCEPT ![Len(s)] = f] OBVIOUS
<1>3. /\ t \in Seq(AnyFrame)
      /\ Len(t) = Len(s)
      /\ \A i \in 1..Len(s) : t[i] = IF i = Len(s) THEN f ELSE s[i]
  BY <1>1, <1>2, ExceptSeq
<1>4. f \in FramesOf(t) BY <1>1, <1>3 DEF FramesOf
<1>5. \A g \in FramesOf(s) : g # s[Len(s)] => g \in FramesOf(t)
  BY <1>1, <1>3 DEF FramesOf
<1>6. FramesOf(t) \subseteq FramesOf(s) \cup {f}
  BY <1>1, <1>3 DEF FramesOf
<1>. QED BY <1>2, <1>3, <1>4, <1>5, <1>6

\* What the innermost call is.
LEMMA TopFrame ==
    ASSUME TypeOK, stack # <<>>
    PROVE  /\ E!Top \in AnyFrame /\ E!Top \in FramesOf(stack)
           /\ E!Below \in Seq(AnyFrame)
           /\ FramesOf(stack) = FramesOf(E!Below) \cup {E!Top}
           /\ E!Top.kind = "solve" => E!Top \in SolveFrame
           /\ E!Top.kind = "update" => E!Top \in E!UpdateFrame
           /\ E!Top.kind = "notify" => E!Top \in E!NotifyFrame
           /\ E!Top.kind = "drain" => E!Top \in E!DrainFrame
<1>1. stack \in Seq(AnyFrame) BY DEF TypeOK, AnyFrame
<1>2. /\ E!Below \in Seq(AnyFrame)
      /\ E!Top \in AnyFrame
      /\ FramesOf(stack) = FramesOf(E!Below) \cup {E!Top}
  BY <1>1, Popped DEF E!Top, E!Below
<1>. QED BY <1>2 DEF AnyFrame, E!Frame, E!UpdateFrame, E!NotifyFrame, E!DrainFrame, SolveFrame

\* At speaks of the same frames.
LEMMA AtSolve ==
    \A s \in Seq(AnyFrame) : {i \in DOMAIN s : s[i].kind = "solve"} # {} <=> SolvingIn(s)
<1>1. \A s \in Seq(AnyFrame) : DOMAIN s = 1..Len(s) BY LenProperties
<1>. QED BY <1>1 DEF SolvingIn, FramesOf

-----------------------------------------------------------------------------
(* TypeOK and NoHalfSolved are inductive together.                          *)

IInv == TypeOK /\ NoHalfSolved

\* What a call or a step of the engine does to its own variables.
EngineKeeps ==
    /\ registry' \in [Observables -> SUBSET E!Entry]
    /\ owned' \subseteq Observers
    /\ stack' \in Seq(AnyFrame)
    /\ pending' \subseteq Observers
    /\ SolvingIn(stack) => SolvingIn(stack')

\* An action that leaves solves alone, and at most takes marks back, keeps it.
LEMMA NothingHalfSolved ==
    ASSUME IInv, EngineKeeps, panicked' = panicked,
           calculated' \subseteq calculated,
           \A c \in calculated' : nodes'[c] = nodes[c]
    PROVE  NoHalfSolved'
<1>1. stack \in Seq(AnyFrame) BY DEF IInv, TypeOK, AnyFrame
<1>2. E!At("solve")' = {} => E!At("solve") = {}
  BY <1>1, AtSolve DEF EngineKeeps, E!At
<1>. QED BY <1>2 DEF IInv, NoHalfSolved

\* Starting a round on any observable.
LEMMA NotifyKeeps ==
    ASSUME IInv, NEW x \in Observables, E!NotifyObservers(x)
    PROVE  EngineKeeps
<1>1. E!Live(registry[x]) \subseteq E!Entry
  BY DEF IInv, TypeOK, E!Live
<1>2. E!Round(x) \in AnyFrame
  BY <1>1 DEF E!Round, AnyFrame, E!Frame, E!NotifyFrame
<1>3. stack' = Append(stack, E!Round(x)) /\ stack \in Seq(AnyFrame)
  BY DEF E!NotifyObservers, IInv, TypeOK, AnyFrame
<1>4. stack' \in Seq(AnyFrame) /\ FramesOf(stack') = FramesOf(stack) \cup {E!Round(x)}
  BY <1>2, <1>3, Pushed
<1>5. SolvingIn(stack) => SolvingIn(stack') BY <1>4 DEF SolvingIn
<1>6. registry' \in [Observables -> SUBSET E!Entry]
  BY <1>1 DEF E!NotifyObservers, IInv, TypeOK
<1>. QED BY <1>4, <1>5, <1>6 DEF EngineKeeps, E!NotifyObservers, IInv, TypeOK

\* Nothing of the engine changes.
LEMMA SameKeeps ==
    ASSUME IInv, UNCHANGED <<registry, stack, pending>>, owned' \subseteq owned
    PROVE  EngineKeeps
  BY DEF EngineKeeps, IInv, TypeOK, AnyFrame

\* An update() is entered.
LEMMA UpdateKeeps ==
    ASSUME IInv, NEW o \in Observers, UNCHANGED <<registry, owned, pending>>,
           stack' = Append(stack, E!Update(o))
    PROVE  EngineKeeps
<1>1. E!Update(o) \in AnyFrame BY DEF E!Update, AnyFrame, E!Frame, E!UpdateFrame
<1>2. stack \in Seq(AnyFrame) BY DEF IInv, TypeOK, AnyFrame
<1>3. stack' \in Seq(AnyFrame) /\ FramesOf(stack') = FramesOf(stack) \cup {E!Update(o)}
  BY <1>1, <1>2, Pushed
<1>. QED BY <1>3 DEF EngineKeeps, IInv, TypeOK, SolvingIn

\* A call returns that is not a solve.
LEMMA PopLeaves ==
    ASSUME TypeOK, stack # <<>>, E!Top.kind # "solve"
    PROVE  /\ E!Below \in Seq(AnyFrame)
           /\ SolvingIn(stack) => SolvingIn(E!Below)
  BY TopFrame DEF SolvingIn

\* A call goes on that is not a solve.
LEMMA ReplaceLeaves ==
    ASSUME TypeOK, stack # <<>>, E!Top.kind # "solve", NEW f \in AnyFrame,
           NEW t, t = [stack EXCEPT ![Len(stack)] = f]
    PROVE  /\ t \in Seq(AnyFrame)
           /\ SolvingIn(stack) => SolvingIn(t)
<1>1. stack \in Seq(AnyFrame) BY DEF TypeOK, AnyFrame
<1>2. t \in Seq(AnyFrame) /\ \A g \in FramesOf(stack) : g # E!Top => g \in FramesOf(t)
  BY <1>1, Replaced DEF E!Top
<1>. QED BY <1>2 DEF SolvingIn

\* One turn of a round: the entry is ticked off, its observer entered or passed over.
LEMMA RoundVisitsKeeps ==
    ASSUME IInv, NEW e \in E!Entry, E!RoundVisits(e)
    PROVE  EngineKeeps
<1>1. TypeOK /\ stack # <<>> /\ E!Top.kind = "notify" BY DEF IInv, E!RoundVisits, E!TopIs
<1>2. E!Top \in E!NotifyFrame BY <1>1, TopFrame
<1>3. PICK f : f = [E!Top EXCEPT !.todo = @ \ {e}] OBVIOUS
<1>4. f \in AnyFrame BY <1>2, <1>3 DEF E!NotifyFrame, AnyFrame, E!Frame
<1>5. PICK t : t = [stack EXCEPT ![Len(stack)] = f] OBVIOUS
<1>6. t \in Seq(AnyFrame) /\ (SolvingIn(stack) => SolvingIn(t))
  BY <1>1, <1>4, <1>5, ReplaceLeaves
<1>7. t = [stack EXCEPT ![Len(stack)].todo = @ \ {e}] BY <1>3, <1>5 DEF E!Top
<1>8. e.obs \in Observers BY DEF E!Entry
<1>9. E!Update(e.obs) \in AnyFrame
  BY <1>8 DEF E!Update, AnyFrame, E!Frame, E!UpdateFrame
<1>10. /\ Append(t, E!Update(e.obs)) \in Seq(AnyFrame)
       /\ SolvingIn(t) => SolvingIn(Append(t, E!Update(e.obs)))
  BY <1>6, <1>9, Pushed DEF SolvingIn
<1>11. stack' = t \/ stack' = Append(t, E!Update(e.obs))
  BY <1>7 DEF E!RoundVisits
<1>12. pending' \subseteq Observers
  BY <1>8 DEF E!RoundVisits, IInv, TypeOK
<1>. QED BY <1>6, <1>10, <1>11, <1>12 DEF EngineKeeps, E!RoundVisits, IInv, TypeOK

\* The outermost round hands over to the drain.
LEMMA RoundEndsKeeps == ASSUME IInv, E!RoundEnds PROVE EngineKeeps
<1>1. TypeOK /\ stack # <<>> /\ E!Top.kind = "notify" BY DEF IInv, E!RoundEnds, E!TopIs
<1>2. E!Below \in Seq(AnyFrame) /\ (SolvingIn(stack) => SolvingIn(E!Below))
  BY <1>1, PopLeaves
<1>3. PICK f : f = [kind |-> "drain", batch |-> {}, stalled |-> {}] OBVIOUS
<1>4. f \in AnyFrame BY <1>3 DEF AnyFrame, E!Frame, E!DrainFrame
<1>5. /\ Append(E!Below, f) \in Seq(AnyFrame)
      /\ SolvingIn(E!Below) => SolvingIn(Append(E!Below, f))
  <2>1. PICK b : b = E!Below OBVIOUS
  <2>2. /\ Append(b, f) \in Seq(AnyFrame)
        /\ SolvingIn(b) => SolvingIn(Append(b, f))
    BY <1>2, <1>4, <2>1, Pushed DEF SolvingIn
  <2>. QED BY <2>1, <2>2
<1>6. stack' = E!Below \/ stack' = Append(E!Below, f)
  BY <1>3 DEF E!RoundEnds
<1>. QED BY <1>2, <1>5, <1>6 DEF EngineKeeps, E!RoundEnds, IInv, TypeOK

LEMMA DrainTakesKeeps == ASSUME IInv, E!DrainTakes PROVE EngineKeeps
<1>1. TypeOK /\ stack # <<>> /\ E!Top.kind = "drain" BY DEF IInv, E!DrainTakes, E!TopIs
<1>2. E!Top \in E!DrainFrame /\ pending \subseteq Observers BY <1>1, TopFrame DEF TypeOK
<1>3. PICK f : f = [E!Top EXCEPT !.batch = pending] OBVIOUS
<1>4. f \in AnyFrame BY <1>2, <1>3 DEF E!DrainFrame, AnyFrame, E!Frame
<1>5. stack' = [stack EXCEPT ![Len(stack)] = f] BY <1>3 DEF E!DrainTakes, E!Top
<1>6. stack' \in Seq(AnyFrame) /\ (SolvingIn(stack) => SolvingIn(stack'))
  BY <1>1, <1>4, <1>5, ReplaceLeaves
<1>. QED BY <1>6 DEF EngineKeeps, E!DrainTakes, IInv, TypeOK

LEMMA DrainVisitsKeeps ==
    ASSUME IInv, NEW o \in Observers, E!DrainVisits(o)
    PROVE  EngineKeeps
<1>1. TypeOK /\ stack # <<>> /\ E!Top.kind = "drain" BY DEF IInv, E!DrainVisits, E!TopIs
<1>2. E!Top \in E!DrainFrame BY <1>1, TopFrame
<1>3. PICK f : f = [E!Top EXCEPT !.batch = @ \ {o}] OBVIOUS
<1>4. PICK g : g = [f EXCEPT !.stalled = @ \cup {o}] OBVIOUS
<1>5. f \in E!DrainFrame BY <1>2, <1>3 DEF E!DrainFrame
<1>6. g \in E!DrainFrame BY <1>4, <1>5 DEF E!DrainFrame
<1>7. f \in AnyFrame /\ g \in AnyFrame BY <1>5, <1>6 DEF AnyFrame, E!Frame
<1>8. PICK t : t = [stack EXCEPT ![Len(stack)] = f] OBVIOUS
<1>9. PICK u : u = [stack EXCEPT ![Len(stack)] = g] OBVIOUS
<1>10. /\ t \in Seq(AnyFrame) /\ (SolvingIn(stack) => SolvingIn(t))
       /\ u \in Seq(AnyFrame) /\ (SolvingIn(stack) => SolvingIn(u))
  BY <1>1, <1>7, <1>8, <1>9, ReplaceLeaves
<1>11. E!Update(o) \in AnyFrame
  BY DEF E!Update, AnyFrame, E!Frame, E!UpdateFrame
<1>12. /\ Append(t, E!Update(o)) \in Seq(AnyFrame)
       /\ SolvingIn(t) => SolvingIn(Append(t, E!Update(o)))
  BY <1>10, <1>11, Pushed DEF SolvingIn
<1>13. t = [stack EXCEPT ![Len(stack)].batch = @ \ {o}] BY <1>3, <1>8 DEF E!Top
<1>14. u = [t EXCEPT ![Len(stack)].stalled = @ \cup {o}]
  <2>1. Len(stack) \in DOMAIN stack BY <1>1, EmptySeq, LenProperties DEF TypeOK
  <2>. QED BY <1>4, <1>8, <1>9, <2>1
<1>15. stack' \in {t, u, Append(t, E!Update(o))}
  BY <1>13, <1>14 DEF E!DrainVisits
<1>. QED BY <1>10, <1>12, <1>15 DEF EngineKeeps, E!DrainVisits, IInv, TypeOK

LEMMA DrainEndsKeeps == ASSUME IInv, E!DrainEnds PROVE EngineKeeps
<1>1. TypeOK /\ stack # <<>> /\ E!Top.kind = "drain" BY DEF IInv, E!DrainEnds, E!TopIs
<1>2. E!Top \in E!DrainFrame BY <1>1, TopFrame
<1>3. pending' \subseteq Observers BY <1>2 DEF E!DrainEnds, E!DrainFrame
<1>4. stack' \in Seq(AnyFrame) /\ (SolvingIn(stack) => SolvingIn(stack'))
  BY <1>1, PopLeaves DEF E!DrainEnds
<1>. QED BY <1>3, <1>4 DEF EngineKeeps, E!DrainEnds, IInv, TypeOK

LEMMA ReturnKeeps == ASSUME IInv, E!UpdateReturns PROVE EngineKeeps
<1>1. TypeOK /\ stack # <<>> /\ E!Top.kind = "update" BY DEF IInv, E!UpdateReturns, E!TopIs
<1>2. stack' \in Seq(AnyFrame) /\ (SolvingIn(stack) => SolvingIn(stack'))
  BY <1>1, PopLeaves DEF E!UpdateReturns
<1>. QED BY <1>2 DEF EngineKeeps, E!UpdateReturns, IInv, TypeOK

-----------------------------------------------------------------------------
(* Each action.                                                             *)

LEMMA SetQuoteKeeps ==
    ASSUME IInv, NEW q \in Quotes, NEW v \in Values \cup {Null}, SetQuote(q, v)
    PROVE  IInv'
<1>1. EngineKeeps BY NotifyKeeps DEF SetQuote, Observables
<1>2. TypeOK' BY <1>1 DEF SetQuote, EngineKeeps, AnyFrame, IInv, TypeOK, curves, bodies
<1>3. NoHalfSolved' BY <1>1, NothingHalfSolved DEF SetQuote, curves
<1>. QED BY <1>2, <1>3 DEF IInv

LEMMA SetDateKeeps == ASSUME IInv, SetDate PROVE IInv'
<1>1. EngineKeeps BY NotifyKeeps DEF SetDate, Observables
<1>2. TypeOK' BY <1>1 DEF SetDate, EngineKeeps, AnyFrame, IInv, TypeOK, curves, bodies
<1>3. NoHalfSolved' BY <1>1, NothingHalfSolved DEF SetDate, curves
<1>. QED BY <1>2, <1>3 DEF IInv

LEMMA DropKeeps == ASSUME IInv, DropMultiCurve PROVE IInv'
<1>1. EngineKeeps BY SameKeeps DEF DropMultiCurve
<1>2. TypeOK'
  BY <1>1 DEF DropMultiCurve, EngineKeeps, AnyFrame, IInv, TypeOK, market, curves, bodies
<1>3. NoHalfSolved' BY <1>1, NothingHalfSolved DEF DropMultiCurve, curves
<1>. QED BY <1>2, <1>3 DEF IInv

LEMMA ConsumeKeeps == ASSUME IInv, NEW k \in Consumers, Consume(k) PROVE IInv'
<1>1. EngineKeeps BY SameKeeps DEF Consume, engineVars
<1>2. missed' \subseteq Contributors \cup Consumers BY DEF Consume, IInv, TypeOK
<1>3. TypeOK'
  BY <1>1, <1>2 DEF Consume, EngineKeeps, AnyFrame, IInv, TypeOK, market, curves, bodies
<1>4. NoHalfSolved' BY <1>1, NothingHalfSolved DEF Consume, curves
<1>. QED BY <1>3, <1>4 DEF IInv

\* The marks that go are those of the curves whose nodes were overwritten.
LEMMA SetupFailsKeeps == ASSUME IInv, NEW c \in Contributors, SetupFails(c) PROVE IInv'
<1>1. EngineKeeps BY SameKeeps DEF SetupFails, OnlySolves
<1>2. PICK before \in SUBSET {x \in Contributors : Valid(x)},
           bad \in {x \in Contributors : ~Valid(x)} :
        /\ calculated' = calculated \ ((before \cup {bad}) \cup {c})
        /\ nodes' = [x \in Contributors |-> IF x \in before \cup {bad} THEN Trial ELSE nodes[x]]
  BY DEF SetupFails
<1>3. calculated' \subseteq Contributors /\ \A x \in calculated' : nodes'[x] = nodes[x]
  BY <1>2 DEF IInv, TypeOK
<1>4. nodes' \in [Contributors -> Solutions \cup {Trial, Null}]
  BY <1>2 DEF IInv, TypeOK
<1>5. TypeOK'
  BY <1>1, <1>3, <1>4 DEF SetupFails, OnlySolves, EngineKeeps, AnyFrame, IInv, TypeOK, market, bodies
<1>6. NoHalfSolved'
  BY <1>1, <1>2, <1>3, NothingHalfSolved DEF SetupFails
<1>. QED BY <1>5, <1>6 DEF IInv

LEMMA SolveStartsKeeps == ASSUME IInv, NEW c \in Contributors, SolveStarts(c) PROVE IInv'
<1>1. Solve \in AnyFrame /\ Solve.kind = "solve"
  BY MaxPointsAssumption DEF Solve, AnyFrame, SolveFrame
<1>2. stack' = Append(stack, Solve) /\ stack \in Seq(AnyFrame)
  BY DEF SolveStarts, IInv, TypeOK, AnyFrame
<1>3. stack' \in Seq(AnyFrame) /\ SolvingIn(stack')
  BY <1>1, <1>2, Pushed DEF SolvingIn
<1>4. calculated' \subseteq Contributors /\ nodes' \in [Contributors -> Solutions \cup {Trial, Null}]
  BY DEF SolveStarts
<1>5. TypeOK'
  BY <1>3, <1>4 DEF SolveStarts, OnlySolves, AnyFrame, IInv, TypeOK, market, bodies
<1>6. E!At("solve")' # {} BY <1>3, AtSolve DEF E!At
<1>. QED BY <1>5, <1>6 DEF IInv, NoHalfSolved

LEMMA PanicKeeps == ASSUME IInv, Panic PROVE IInv'
<1>1. TypeOK'
  BY DEF Panic, IInv, TypeOK, market, curves
<1>2. NoHalfSolved' BY DEF Panic, NoHalfSolved
<1>. QED BY <1>1, <1>2 DEF IInv

\* A solve that goes on, and may enter the update of a passive.
LEMMA SolveGoesOn ==
    ASSUME TypeOK, E!TopIs("solve"), NEW f \in SolveFrame
    PROVE  /\ Append(E!Below, f) \in Seq(AnyFrame)
           /\ SolvingIn(Append(E!Below, f))
           /\ \A o \in Observers : /\ Append(Append(E!Below, f), E!Update(o)) \in Seq(AnyFrame)
                                   /\ SolvingIn(Append(Append(E!Below, f), E!Update(o)))
<1>1. PICK b : b = E!Below OBVIOUS
<1>2. b \in Seq(AnyFrame) BY <1>1, TopFrame DEF E!TopIs
<1>3. f \in AnyFrame /\ f.kind = "solve" BY DEF AnyFrame, SolveFrame
<1>4. PICK s : s = Append(b, f) OBVIOUS
<1>5. s \in Seq(AnyFrame) /\ SolvingIn(s) BY <1>2, <1>3, <1>4, Pushed DEF SolvingIn
<1>6. \A o \in Observers : E!Update(o) \in AnyFrame
  BY DEF E!Update, AnyFrame, E!Frame, E!UpdateFrame
<1>7. \A o \in Observers : Append(s, E!Update(o)) \in Seq(AnyFrame) /\ SolvingIn(Append(s, E!Update(o)))
  BY <1>5, <1>6, Pushed DEF SolvingIn
<1>. QED BY <1>1, <1>4, <1>5, <1>7

LEMMA SolveTellsKeeps == ASSUME IInv, NEW n \in Members, SolveTells(n) PROVE IInv'
<1>1. CASE Panic BY <1>1, PanicKeeps
<1>2. CASE ~Panic
  <2>1. TypeOK /\ E!TopIs("solve") /\ n \in Passives /\ n \in Observers
    BY DEF IInv, SolveTells, Told, Observers
  <2>2. E!Top \in SolveFrame BY <2>1, TopFrame DEF E!TopIs
  <2>3. PICK f : f = [E!Top EXCEPT !.told = @ \cup {n}] OBVIOUS
  <2>4. f \in SolveFrame BY <2>1, <2>2, <2>3 DEF SolveFrame
  <2>5. stack' = Append(Append(E!Below, f), E!Update(n))
    BY <1>2, <2>3 DEF SolveTells
  <2>6. stack' \in Seq(AnyFrame) /\ SolvingIn(stack')
    BY <2>1, <2>4, <2>5, SolveGoesOn
  <2>7. TypeOK'
    BY <1>2, <2>6 DEF SolveTells, OnlySolves, AnyFrame, IInv, TypeOK, market, bodies, curves
  <2>8. E!At("solve")' # {} BY <2>6, AtSolve DEF E!At
  <2>. QED BY <2>7, <2>8 DEF IInv, NoHalfSolved
<1>. QED BY <1>1, <1>2

LEMMA NextPointKeeps == ASSUME IInv, NextPoint PROVE IInv'
<1>1. TypeOK /\ E!TopIs("solve") BY DEF IInv, NextPoint, Evaluating
<1>2. E!Top \in SolveFrame BY <1>1, TopFrame DEF E!TopIs
<1>3. PICK f : f = [E!Top EXCEPT !.points = @ + 1, !.told = {}] OBVIOUS
<1>4. f \in SolveFrame
  <2>1. E!Top.points + 1 \in 1..MaxPoints
    BY <1>2, MaxPointsAssumption DEF SolveFrame, NextPoint
  <2>. QED BY <1>2, <1>3, <2>1 DEF SolveFrame
<1>5. stack' = Append(E!Below, f) BY <1>3 DEF NextPoint
<1>6. stack' \in Seq(AnyFrame) /\ SolvingIn(stack') BY <1>1, <1>4, <1>5, SolveGoesOn
<1>7. nodes' \in [Contributors -> Solutions \cup {Trial, Null}] BY DEF NextPoint
<1>8. TypeOK'
  BY <1>6, <1>7 DEF NextPoint, OnlySolves, AnyFrame, IInv, TypeOK, market, bodies
<1>9. E!At("solve")' # {} BY <1>6, AtSolve DEF E!At
<1>. QED BY <1>8, <1>9 DEF IInv, NoHalfSolved

\* The curves are solved together from valid quotes, so what is pinned is complete.
LEMMA SolutionTyped ==
    ASSUME TypeOK, \A x \in Contributors : Valid(x)
    PROVE  Solution \in Solutions
<1>1. ASSUME NEW q \in FittedQuotes PROVE quote[q] \in Values
  <2>1. PICK h \in Feeds[q] \cap Helpers : TRUE BY DEF FittedQuotes
  <2>2. q \in QuotesOf(Fits[h]) /\ Fits[h] \in Contributors
    BY <2>1, FitsAssumption DEF QuotesOf, FittedQuotes
  <2>. QED BY <2>2 DEF Valid, TypeOK, QuotesOf
<1>. QED BY <1>1 DEF Solution, Solutions, TypeOK

LEMMA SolveSucceedsKeeps == ASSUME IInv, SolveSucceeds PROVE IInv'
<1>1. TypeOK /\ stack # <<>> BY DEF IInv, SolveSucceeds, Evaluating, E!TopIs
<1>2. stack' \in Seq(AnyFrame) BY <1>1, TopFrame DEF SolveSucceeds
<1>3. Solution \in Solutions BY <1>1, SolutionTyped DEF SolveSucceeds
<1>4. nodes' = [x \in Contributors |-> Solution] /\ calculated' = Contributors
  BY DEF SolveSucceeds
<1>5. nodes' \in [Contributors -> Solutions \cup {Trial, Null}] BY <1>3, <1>4
<1>6. TypeOK'
  BY <1>2, <1>4, <1>5 DEF SolveSucceeds, OnlySolves, AnyFrame, IInv, TypeOK, market, bodies
<1>7. NoHalfSolved' BY <1>3, <1>4 DEF NoHalfSolved
<1>. QED BY <1>6, <1>7 DEF IInv

LEMMA SolveFailsKeeps == ASSUME IInv, SolveFails PROVE IInv'
<1>1. TypeOK /\ stack # <<>> BY DEF IInv, SolveFails, Evaluating, E!TopIs
<1>2. stack' \in Seq(AnyFrame) BY <1>1, TopFrame DEF SolveFails
<1>3. TypeOK'
  BY <1>2 DEF SolveFails, OnlySolves, AnyFrame, IInv, TypeOK, market, bodies
<1>4. NoHalfSolved' BY DEF SolveFails, NoHalfSolved
<1>. QED BY <1>3, <1>4 DEF IInv

LEMMA DoneTyped ==
    ASSUME IInv, NEW o, NEW v \in {"entered", "returning"}, done' = [done EXCEPT ![o] = v]
    PROVE  done' \in [Observers -> {"entered", "returning"}]
  BY DEF IInv, TypeOK

LEMMA ForwardsKeeps ==
    ASSUME IInv, NEW o \in Helpers \cup Passives, Forwards(o)
    PROVE  IInv'
<1>1. EngineKeeps BY NotifyKeeps DEF Forwards, Observables, Members
<1>2. done' \in [Observers -> {"entered", "returning"}] BY DoneTyped DEF Forwards, Leaving
<1>3. TypeOK'
  BY <1>1, <1>2 DEF Forwards, EngineKeeps, AnyFrame, IInv, TypeOK, market, curves
<1>4. NoHalfSolved' BY <1>1, NothingHalfSolved DEF Forwards, curves
<1>. QED BY <1>3, <1>4 DEF IInv

LEMMA CurveUpdateKeeps == ASSUME IInv, NEW c \in Contributors, CurveUpdate(c) PROVE IInv'
<1>1. EngineKeeps BY NotifyKeeps DEF CurveUpdate, Observables, Members
<1>2. done' \in [Observers -> {"entered", "returning"}] BY DoneTyped DEF CurveUpdate, Leaving
<1>3. TypeOK'
  BY <1>1, <1>2 DEF CurveUpdate, EngineKeeps, AnyFrame, IInv, TypeOK, market
<1>4. NoHalfSolved' BY <1>1, NothingHalfSolved DEF CurveUpdate
<1>. QED BY <1>3, <1>4 DEF IInv

LEMMA ConsumerUpdateKeeps == ASSUME IInv, NEW k \in Consumers, ConsumerUpdate(k) PROVE IInv'
<1>1. EngineKeeps BY SameKeeps DEF ConsumerUpdate, engineVars
<1>2. done' \in [Observers -> {"entered", "returning"}] BY DoneTyped DEF ConsumerUpdate, Leaving
<1>3. TypeOK'
  BY <1>1, <1>2 DEF ConsumerUpdate, EngineKeeps, AnyFrame, IInv, TypeOK, market, curves
<1>4. NoHalfSolved' BY <1>1, NothingHalfSolved DEF ConsumerUpdate, curves
<1>. QED BY <1>3, <1>4 DEF IInv

LEMMA FanOutStartsKeeps == ASSUME IInv, FanOutStarts PROVE IInv'
<1>1. EngineKeeps BY SameKeeps DEF FanOutStarts, engineVars
<1>2. done' \in [Observers -> {"entered", "returning"}] BY DoneTyped DEF FanOutStarts, Leaving
<1>3. TypeOK'
  BY <1>1, <1>2 DEF FanOutStarts, EngineKeeps, AnyFrame, IInv, TypeOK, market, curves
<1>4. NoHalfSolved' BY <1>1, NothingHalfSolved DEF FanOutStarts, curves
<1>. QED BY <1>3, <1>4 DEF IInv

LEMMA StaleTyped == ASSUME NEW S PROVE TypeOK => Stale(S) \subseteq Contributors \cup Consumers
  BY DEF TypeOK, Stale

LEMMA FansOutKeeps == ASSUME IInv, NEW m \in Members, FansOut(m) PROVE IInv'
<1>1. m \in Observers BY DEF Observers
<1>2. EngineKeeps
  <2>1. CASE stack' = Append(stack, E!Update(m)) BY <1>1, <2>1, UpdateKeeps DEF FansOut
  <2>2. CASE UNCHANGED stack BY <2>2, SameKeeps DEF FansOut
  <2>. QED BY <2>1, <2>2 DEF FansOut
<1>3. missed' \subseteq Contributors \cup Consumers /\ left' \subseteq Members
  BY StaleTyped DEF FansOut, IInv, TypeOK
<1>4. TypeOK'
  BY <1>2, <1>3 DEF FansOut, EngineKeeps, AnyFrame, IInv, TypeOK, market, curves
<1>5. NoHalfSolved' BY <1>2, NothingHalfSolved DEF FansOut, curves
<1>. QED BY <1>4, <1>5 DEF IInv

LEMMA ReturnsKeeps == ASSUME IInv, NEW o \in Observers, Returns(o) PROVE IInv'
<1>1. EngineKeeps BY ReturnKeeps DEF Returns
<1>2. done' \in [Observers -> {"entered", "returning"}] BY DoneTyped DEF Returns
<1>3. TypeOK'
  BY <1>1, <1>2 DEF Returns, EngineKeeps, AnyFrame, IInv, TypeOK, market, curves
<1>4. NoHalfSolved' BY <1>1, NothingHalfSolved DEF Returns, curves
<1>. QED BY <1>3, <1>4 DEF IInv

LEMMA NotificationKeeps == ASSUME IInv, NotificationStep PROVE IInv'
<1>1. EngineKeeps
  <2>1. ASSUME NEW o \in Observers, NEW d \in BOOLEAN, E!RoundVisits([obs |-> o, defer |-> d])
        PROVE  EngineKeeps
    <3>1. PICK e : e = [obs |-> o, defer |-> d] OBVIOUS
    <3>2. e \in E!Entry /\ E!RoundVisits(e) BY <2>1, <3>1 DEF E!Entry
    <3>. QED BY <3>2, RoundVisitsKeeps
  <2>2. ASSUME NEW o \in Observers, E!DrainVisits(o) PROVE EngineKeeps
    BY <2>2, DrainVisitsKeeps
  <2>. QED
    BY <2>1, <2>2, RoundEndsKeeps, DrainTakesKeeps, DrainEndsKeeps DEF NotificationStep
<1>2. missed' \subseteq Contributors \cup Consumers
  <2>1. missed' = missed \/ missed' = missed \cup Stale(Members) BY DEF NotificationStep
  <2>. QED BY <2>1, StaleTyped DEF IInv, TypeOK
<1>3. TypeOK'
  BY <1>1, <1>2 DEF NotificationStep, EngineKeeps, AnyFrame, IInv, TypeOK, market, curves, bodies
<1>4. NoHalfSolved' BY <1>1, NothingHalfSolved DEF NotificationStep, curves
<1>. QED BY <1>3, <1>4 DEF IInv

-----------------------------------------------------------------------------
LEMMA InitHolds == Init => IInv
<1>1. SUFFICES ASSUME Init PROVE IInv OBVIOUS
<1>2. ASSUME NEW x \in Observables PROVE Wired(x) \subseteq Observers
  BY FitsAssumption, FeedsAssumption, MovingAssumption DEF Wired, Observers, Observables, Members
<1>3. \A o \in Observers : DeferReentrant[o] \in BOOLEAN BY DEF DeferReentrant
<1>4. ASSUME NEW x \in Observables
      PROVE  {[obs |-> o, defer |-> DeferReentrant[o]] : o \in Wired(x)} \in SUBSET E!Entry
  BY <1>2, <1>3 DEF E!Entry
<1>5. registry \in [Observables -> SUBSET E!Entry] BY <1>1, <1>4 DEF Init
<1>6. stack \in Seq(E!Frame \cup SolveFrame) BY <1>1 DEF Init
<1>7. TypeOK BY <1>1, <1>5, <1>6 DEF Init, TypeOK
<1>8. NoHalfSolved BY <1>1 DEF Init, NoHalfSolved
<1>. QED BY <1>7, <1>8 DEF IInv

LEMMA StutterKeeps == IInv /\ UNCHANGED vars => IInv'
<1>1. SUFFICES ASSUME IInv, UNCHANGED vars PROVE IInv' OBVIOUS
<1>2. EngineKeeps BY <1>1, SameKeeps DEF vars, engineVars
<1>3. TypeOK' BY <1>1 DEF vars, engineVars, market, curves, bodies, IInv, TypeOK
<1>4. NoHalfSolved' BY <1>1, <1>2, NothingHalfSolved DEF vars, curves
<1>. QED BY <1>3, <1>4 DEF IInv

LEMMA StepKeeps == IInv /\ [Next]_vars => IInv'
<1>1. SUFFICES ASSUME IInv, [Next]_vars PROVE IInv' OBVIOUS
<1>2. CASE UserStep
  BY <1>1, <1>2, SetQuoteKeeps, SetDateKeeps, DropKeeps, SetupFailsKeeps, SolveStartsKeeps,
     ConsumeKeeps DEF UserStep
<1>3. CASE BodyStep
  BY <1>1, <1>3, ForwardsKeeps, CurveUpdateKeeps, ConsumerUpdateKeeps, FanOutStartsKeeps,
     FansOutKeeps, ReturnsKeeps DEF BodyStep
<1>4. CASE SolveStep
  BY <1>1, <1>4, SolveTellsKeeps, PanicKeeps, NextPointKeeps, SolveSucceedsKeeps,
     SolveFailsKeeps DEF SolveStep, EvaluationPanics
<1>5. CASE NotificationStep BY <1>1, <1>5, NotificationKeeps
<1>6. CASE UNCHANGED vars BY <1>1, <1>6, StutterKeeps
<1>. QED BY <1>1, <1>2, <1>3, <1>4, <1>5, <1>6 DEF Next, ProgramStep

\* The two parts hold together in every reachable state.
THEOREM Invariance == Spec => []IInv
<1>. QED BY InitHolds, StepKeeps, PTL DEF Spec

\* The registries, calls, curves and caches keep their types.
THEOREM TypeCorrect == Spec => []TypeOK
<1>1. IInv => TypeOK BY DEF IInv
<1>. QED BY <1>1, Invariance, PTL

\* However a joint solve fails, and whatever user code does in the notifications it
\* sends, no contributor is left marked calculated over the nodes of a trial point
\* (MultiCurveBootstrap::run reverts every mark on an error).
THEOREM FailedSolvesLeaveNoMarks == Spec => []NoHalfSolved
<1>1. IInv => NoHalfSolved BY DEF IInv
<1>. QED BY <1>1, Invariance, PTL

-----------------------------------------------------------------------------
(* What is calculated in a multi-curve at rest is current: the own inputs  *)
(* of a curve always reach it, and those of the other members reach it     *)
(* unless a fan-out passed it over.  What is not current is owed an        *)
(* invalidation, which some round, drain, queue or fan-out still carries.  *)


Frames == FramesOf(stack)
Solving == SolvingIn(stack)

\* How an observer is registered.
Reg(o) == [obs |-> o, defer |-> DeferReentrant[o]]

\* An update() of o is still to come, or has just been entered.
OwedIn(frames, queue, progress, o) ==
    \/ o \in queue
    \/ \E f \in frames :
          \/ f.kind = "notify" /\ Reg(o) \in f.todo
          \/ f.kind = "drain" /\ o \in f.batch \cup f.stalled
          \/ f.kind = "update" /\ f.obs = o /\ progress[o] = "entered"

Owed(o) == OwedIn(Frames, pending, done, o)

\* An invalidation of c by its own inputs is on its way; by any.
OwnComing(c) == Owed(c) \/ \E h \in Helpers : Fits[h] = c /\ Owed(h)
Coming(c) == Owed(c) \/ c \in left \/ Owed("multicurve") \/ \E h \in Helpers : Owed(h)

Own(c) ==
    /\ \A q \in QuotesOf(c) : nodes[c].quotes[q] = quote[q]
    /\ c \in Moving => nodes[c].date = date

\* What a reader of n should hold.
Spreaded(n) == <<Solution, [q \in SpreadsOf(n) |-> quote[q]]>>

-----------------------------------------------------------------------------
(* The parts of the inductive invariant.                                    *)

UpdatesOpen == \A o \in Observers :
    done[o] = "returning" => \E f \in Frames : f.kind = "update" /\ f.obs = o

FanOutOpen ==
    left # {} => \E f \in Frames : f.kind = "update" /\ f.obs = "multicurve"

Alive ==
    /\ Helpers \cup Consumers \subseteq owned
    /\ "multicurve" \in owned => owned = Observers

Registered == \A x \in Observables : \A o \in Wired(x) \cap owned : Reg(o) \in registry[x]

Assembled == ~panicked /\ "multicurve" \in owned

OwnInputs ==
    ~panicked /\ ~Solving => \A c \in calculated \cap owned : Own(c) \/ OwnComing(c)

CurvesCurrent ==
    Assembled /\ ~Solving => \A c \in calculated \ missed : nodes[c] = Solution \/ Coming(c)

CurveReaders ==
    Assembled => \A k \in Consumers \ missed :
        Consumes[k] \in Contributors /\ cache[k] # Null =>
            cache[k] = Solution \/ Owed(k) \/ Coming(Consumes[k])

\* A spreaded curve is not told of the recalculation of its base, but of the solve.
SpreadReaders ==
    Assembled /\ ~Solving => \A k \in Consumers \ missed : \A n \in Passives :
        n = Consumes[k] /\ cache[k] # Null /\ Base[n] \in calculated \ missed =>
            cache[k] = Spreaded(n) \/ Owed(k) \/ Owed(n) \/ Coming(Base[n])

\* What the solve has told of a trial point holds no result from before it.
ToldReset ==
    Assembled => \A f \in Frames : f.kind = "solve" =>
        \A k \in Consumers \ missed :
            Consumes[k] \in f.told => cache[k] = Null \/ Owed(k) \/ Owed(Consumes[k])

Plumbing == UpdatesOpen /\ FanOutOpen /\ Alive /\ Registered
Currency == OwnInputs /\ CurvesCurrent /\ CurveReaders /\ SpreadReaders /\ ToldReset
FInv == TypeOK /\ Plumbing /\ Currency

-----------------------------------------------------------------------------
(* What steps do to what is owed.                                           *)

\* The solves under way stay the same.
SameSolves == \A f : f.kind = "solve" => (f \in Frames <=> f \in FramesOf(stack'))

LEMMA SolvingSame == SameSolves => (SolvingIn(stack') <=> Solving)
  BY DEF SameSolves, Solving, SolvingIn, Frames

LEMMA StackTyped == TypeOK => stack \in Seq(AnyFrame)
  BY DEF TypeOK, AnyFrame

\* Entries of live observers survive the pruning.
LEMMA RegisteredKept ==
    ASSUME TypeOK, Registered, owned' \subseteq owned,
           registry' = registry
           \/ \E x \in Observables : registry' = [registry EXCEPT ![x] = E!Live(@)]
    PROVE  Registered'
<1>1. owned \subseteq E!Alive BY DEF E!Alive
<1>2. ASSUME NEW y \in Observables, NEW o \in Wired(y) \cap owned' PROVE Reg(o) \in registry'[y]
  <2>1. Reg(o) \in registry[y] /\ Reg(o).obs \in E!Alive BY <1>1, <1>2 DEF Registered, Reg
  <2>2. Reg(o) \in E!Live(registry[y]) BY <2>1 DEF E!Live
  <2>. QED BY <2>1, <2>2 DEF TypeOK
<1>. QED BY <1>2 DEF Registered, Wired, Reg

\* More frames and a longer queue owe no less.
LEMMA OwedGrows ==
    ASSUME NEW F, NEW G, F \subseteq G, NEW P, NEW Q, P \subseteq Q, NEW d, NEW e, NEW o,
           d[o] = "entered" => e[o] = "entered", OwedIn(F, P, d, o)
    PROVE  OwedIn(G, Q, e, o)
  BY DEF OwedIn

LEMMA NotifyOwes ==
    ASSUME FInv, NEW x \in Observables, E!NotifyObservers(x)
    PROVE  /\ Frames \subseteq FramesOf(stack') /\ SameSolves
           /\ pending' = pending /\ owned' = owned
           /\ Registered'
           /\ \A o \in Wired(x) \cap owned : \A d : OwedIn(FramesOf(stack'), pending', d, o)
<1>1. TypeOK /\ Registered /\ stack \in Seq(AnyFrame) BY StackTyped DEF FInv, Plumbing
<1>2. E!Live(registry[x]) \subseteq E!Entry BY <1>1 DEF TypeOK, E!Live
<1>3. E!Round(x) \in AnyFrame /\ E!Round(x).kind = "notify" /\ E!Round(x).todo = E!Live(registry[x])
  BY <1>2 DEF E!Round, AnyFrame, E!Frame, E!NotifyFrame
<1>4. FramesOf(stack') = Frames \cup {E!Round(x)}
  BY <1>1, <1>3, Pushed DEF E!NotifyObservers, Frames
<1>5. SameSolves BY <1>3, <1>4 DEF SameSolves
<1>6. pending' = pending /\ owned' = owned BY DEF E!NotifyObservers
<1>7. Registered' BY <1>1, <1>6, RegisteredKept DEF E!NotifyObservers
<1>8. \A o \in Wired(x) \cap owned : Reg(o) \in E!Round(x).todo
  BY <1>1, <1>3 DEF Registered, E!Live, E!Alive, Reg
<1>9. \A o \in Wired(x) \cap owned : \A d : OwedIn(FramesOf(stack'), pending', d, o)
  BY <1>3, <1>4, <1>8 DEF OwedIn
<1>. QED BY <1>4, <1>5, <1>6, <1>7, <1>9

\* A free observer has not got to the end of an update().
LEMMA FreeEntered ==
    ASSUME FInv, NEW o \in Observers, o \notin E!Busy
    PROVE  done[o] = "entered"
<1>1. DOMAIN stack = 1..Len(stack) BY StackTyped, LenProperties DEF FInv
<1>2. ~ \E f \in Frames : f.kind = "update" /\ f.obs = o
  BY <1>1 DEF E!Busy, E!Updating, E!At, Frames, FramesOf
<1>. QED BY <1>2 DEF FInv, Plumbing, UpdatesOpen, TypeOK

\* An update() that is entered is owed until it gets to it.
LEMMA EnterOwes ==
    ASSUME FInv, NEW o \in Observers, o \notin E!Busy, stack' = Append(stack, E!Update(o))
    PROVE  /\ FramesOf(stack') = Frames \cup {E!Update(o)} /\ SameSolves
           /\ \A q : OwedIn(FramesOf(stack'), q, done, o)
<1>1. E!Update(o) \in AnyFrame /\ E!Update(o).kind = "update" /\ E!Update(o).obs = o
  BY DEF E!Update, AnyFrame, E!Frame, E!UpdateFrame
<1>2. FramesOf(stack') = Frames \cup {E!Update(o)}
  BY <1>1, StackTyped, Pushed DEF FInv, Frames
<1>3. SameSolves BY <1>1, <1>2 DEF SameSolves
<1>4. done[o] = "entered" BY FreeEntered
<1>. QED BY <1>1, <1>2, <1>3, <1>4 DEF OwedIn

\* The same for the steps of the engine: what the visit of the MultiCurve drops apart,
\* everything is handed on.
EngineCarries ==
    /\ \A f \in Frames : f.kind = "update" => f \in FramesOf(stack')
    /\ SameSolves
    /\ owned' = owned
    /\ Registered'
    /\ \A o \in Observers \cap owned : Owed(o) => OwedIn(FramesOf(stack'), pending', done, o)

\* The innermost call changes to f, and another may be entered.
LEMMA TopBecomes ==
    ASSUME TypeOK, stack # <<>>, NEW f \in AnyFrame, NEW t, t = [stack EXCEPT ![Len(stack)] = f]
    PROVE  /\ f \in FramesOf(t)
           /\ \A g \in Frames : g # E!Top => g \in FramesOf(t)
           /\ FramesOf(t) \subseteq Frames \cup {f}
           /\ t \in Seq(AnyFrame)
           /\ E!Top.kind # "solve" /\ f.kind # "solve" =>
                 \A g : g.kind = "solve" => (g \in Frames <=> g \in FramesOf(t))
<1>1. stack \in Seq(AnyFrame) BY StackTyped
<1>2. /\ f \in FramesOf(t)
      /\ \A g \in Frames : g # E!Top => g \in FramesOf(t)
      /\ FramesOf(t) \subseteq Frames \cup {f}
      /\ t \in Seq(AnyFrame)
  BY <1>1, Replaced DEF E!Top, Frames
<1>. QED BY <1>2

LEMMA VisitCarries ==
    ASSUME FInv, NEW e \in E!Entry, E!RoundVisits(e)
    PROVE  /\ \A f \in Frames : f.kind = "update" => f \in FramesOf(stack')
           /\ SameSolves /\ owned' = owned /\ Registered'
           /\ \A o \in Observers \cap owned :
                 Owed(o) => \/ OwedIn(FramesOf(stack'), pending', done, o)
                            \/ o = "multicurve" /\ e.obs = o /\ o \in E!Busy
<1>1. /\ TypeOK /\ stack # <<>> /\ E!Top.kind = "notify"
      /\ e \in E!Top.todo /\ owned' = owned /\ registry' = registry
  BY DEF FInv, E!RoundVisits, E!TopIs
<1>2. E!Top \in E!NotifyFrame BY <1>1, TopFrame
<1>3. PICK f : f = [E!Top EXCEPT !.todo = @ \ {e}] OBVIOUS
<1>4. f \in AnyFrame /\ f.kind = "notify" /\ f.todo = E!Top.todo \ {e}
  BY <1>2, <1>3 DEF E!NotifyFrame, AnyFrame, E!Frame
<1>5. PICK t : t = [stack EXCEPT ![Len(stack)] = f] OBVIOUS
<1>6. t = [stack EXCEPT ![Len(stack)].todo = @ \ {e}] BY <1>3, <1>5 DEF E!Top
<1>7. /\ f \in FramesOf(t) /\ \A g \in Frames : g # E!Top => g \in FramesOf(t)
      /\ t \in Seq(AnyFrame)
      /\ \A g : g.kind = "solve" => (g \in Frames <=> g \in FramesOf(t))
  BY <1>1, <1>4, <1>5, TopBecomes
<1>8. e.obs \in Observers BY DEF E!Entry
<1>9. E!Update(e.obs) \in AnyFrame /\ E!Update(e.obs).kind = "update" /\ E!Update(e.obs).obs = e.obs
  BY <1>8 DEF E!Update, AnyFrame, E!Frame, E!UpdateFrame
<1>10. FramesOf(Append(t, E!Update(e.obs))) = FramesOf(t) \cup {E!Update(e.obs)}
  BY <1>7, <1>9, Pushed
<1>11. \/ /\ e.obs \notin E!Busy
          /\ stack' = Append(t, E!Update(e.obs))
          /\ pending' = pending
       \/ /\ e.obs \in E!Busy
          /\ stack' = t
          /\ pending' = IF e.defer THEN pending \cup {e.obs} ELSE pending
  BY <1>6 DEF E!RoundVisits
<1>12. FramesOf(t) \subseteq FramesOf(stack') /\ pending \subseteq pending'
  BY <1>10, <1>11
<1>13. SameSolves BY <1>7, <1>9, <1>10, <1>11 DEF SameSolves
<1>14. Registered' BY <1>1, RegisteredKept DEF FInv, Plumbing
<1>15. ASSUME NEW o \in Observers, Owed(o), ~OwedIn(FramesOf(stack'), pending', done, o)
       PROVE  o = "multicurve" /\ e.obs = o /\ o \in E!Busy
  <2>1. /\ o \notin pending
        /\ Reg(o) \notin f.todo
        /\ \A g \in Frames : g # E!Top =>
              ~ \/ g.kind = "notify" /\ Reg(o) \in g.todo
                \/ g.kind = "drain" /\ o \in g.batch \cup g.stalled
                \/ g.kind = "update" /\ g.obs = o /\ done[o] = "entered"
    BY <1>4, <1>7, <1>12, <1>15 DEF OwedIn
  <2>2. Reg(o) \in E!Top.todo BY <1>1, <1>15, <2>1 DEF Owed, OwedIn
  <2>3. e = Reg(o) BY <1>4, <2>1, <2>2
  <2>4. e.obs = o /\ e.defer = DeferReentrant[o] BY <2>3 DEF Reg
  <2>5. o \in E!Busy
    <3>1. ASSUME o \notin E!Busy PROVE FALSE
      <4>1. done[o] = "entered" BY <3>1, FreeEntered
      <4>2. E!Update(o) \in FramesOf(stack') BY <1>10, <1>11, <2>4, <3>1
      <4>. QED BY <1>9, <1>15, <2>4, <4>1, <4>2 DEF OwedIn
    <3>. QED BY <3>1
  <2>6. ~DeferReentrant[o] BY <1>11, <1>15, <2>4, <2>5 DEF OwedIn
  <2>. QED BY <2>4, <2>5, <2>6 DEF DeferReentrant
<1>16. \A g \in Frames : g.kind = "update" => g \in FramesOf(stack')
  BY <1>1, <1>7, <1>12
<1>. QED BY <1>1, <1>13, <1>14, <1>15, <1>16

LEMMA PopCarries ==
    ASSUME TypeOK, stack # <<>>, E!Top.kind # "solve"
    PROVE  /\ E!Below \in Seq(AnyFrame)
           /\ FramesOf(E!Below) \subseteq Frames
           /\ \A g \in Frames : g # E!Top => g \in FramesOf(E!Below)
           /\ \A g : g.kind = "solve" => (g \in Frames <=> g \in FramesOf(E!Below))
  BY TopFrame DEF Frames

LEMMA RoundEndsCarries == ASSUME FInv, E!RoundEnds PROVE EngineCarries
<1>1. /\ TypeOK /\ stack # <<>> /\ E!Top.kind = "notify" /\ E!Top.todo = {}
      /\ owned' = owned /\ registry' = registry /\ pending' = pending
  BY DEF FInv, E!RoundEnds, E!TopIs
<1>2. PICK b : b = E!Below OBVIOUS
<1>3. /\ b \in Seq(AnyFrame)
      /\ \A g \in Frames : g # E!Top => g \in FramesOf(b)
      /\ \A g : g.kind = "solve" => (g \in Frames <=> g \in FramesOf(b))
  BY <1>1, <1>2, PopCarries
<1>4. PICK f : f = [kind |-> "drain", batch |-> {}, stalled |-> {}] OBVIOUS
<1>5. f \in AnyFrame /\ f.kind = "drain" BY <1>4 DEF AnyFrame, E!Frame, E!DrainFrame
<1>6. FramesOf(Append(b, f)) = FramesOf(b) \cup {f} BY <1>3, <1>5, Pushed
<1>7. stack' = b \/ stack' = Append(b, f) BY <1>2, <1>4 DEF E!RoundEnds
<1>8. FramesOf(b) \subseteq FramesOf(stack') BY <1>6, <1>7
<1>9. SameSolves BY <1>3, <1>5, <1>6, <1>7 DEF SameSolves
<1>10. Registered' BY <1>1, RegisteredKept DEF FInv, Plumbing
<1>11. ASSUME NEW o, Owed(o) PROVE OwedIn(FramesOf(stack'), pending', done, o)
  BY <1>1, <1>3, <1>8, <1>11 DEF Owed, OwedIn
<1>. QED BY <1>1, <1>3, <1>8, <1>9, <1>10, <1>11 DEF EngineCarries

LEMMA DrainTakesCarries == ASSUME FInv, E!DrainTakes PROVE EngineCarries
<1>1. /\ TypeOK /\ stack # <<>> /\ E!Top.kind = "drain" /\ E!Top.batch = {}
      /\ owned' = owned /\ registry' = registry
  BY DEF FInv, E!DrainTakes, E!TopIs
<1>2. E!Top \in E!DrainFrame /\ pending \subseteq Observers BY <1>1, TopFrame DEF TypeOK
<1>3. PICK f : f = [E!Top EXCEPT !.batch = pending] OBVIOUS
<1>4. f \in AnyFrame /\ f.kind = "drain" /\ f.batch = pending /\ f.stalled = E!Top.stalled
  BY <1>2, <1>3 DEF E!DrainFrame, AnyFrame, E!Frame
<1>5. stack' = [stack EXCEPT ![Len(stack)] = f] BY <1>3 DEF E!DrainTakes, E!Top
<1>6. /\ f \in FramesOf(stack') /\ \A g \in Frames : g # E!Top => g \in FramesOf(stack')
      /\ \A g : g.kind = "solve" => (g \in Frames <=> g \in FramesOf(stack'))
  BY <1>1, <1>4, <1>5, TopBecomes
<1>7. Registered' BY <1>1, RegisteredKept DEF FInv, Plumbing
<1>8. ASSUME NEW o, Owed(o) PROVE OwedIn(FramesOf(stack'), pending', done, o)
  <2>1. CASE o \in pending \/ o \in E!Top.stalled BY <1>4, <1>6, <2>1 DEF OwedIn
  <2>2. CASE o \notin pending /\ o \notin E!Top.stalled
    BY <1>1, <1>6, <1>8, <2>2 DEF Owed, OwedIn
  <2>. QED BY <2>1, <2>2
<1>. QED BY <1>1, <1>6, <1>7, <1>8 DEF EngineCarries, SameSolves

LEMMA DrainVisitsCarries ==
    ASSUME FInv, NEW v \in Observers, E!DrainVisits(v)
    PROVE  EngineCarries
<1>1. /\ TypeOK /\ stack # <<>> /\ E!Top.kind = "drain" /\ v \in E!Top.batch
      /\ owned' = owned /\ registry' = registry /\ pending' = pending
  BY DEF FInv, E!DrainVisits, E!TopIs
<1>2. E!Top \in E!DrainFrame BY <1>1, TopFrame
<1>3. PICK f : f = [E!Top EXCEPT !.batch = @ \ {v}] OBVIOUS
<1>4. PICK g : g = [f EXCEPT !.stalled = @ \cup {v}] OBVIOUS
<1>5. f \in E!DrainFrame /\ f.kind = "drain" /\ f.batch = E!Top.batch \ {v} /\ f.stalled = E!Top.stalled
  BY <1>2, <1>3 DEF E!DrainFrame
<1>6. g \in E!DrainFrame /\ g.kind = "drain" /\ g.batch = E!Top.batch \ {v}
      /\ g.stalled = E!Top.stalled \cup {v}
  BY <1>4, <1>5 DEF E!DrainFrame
<1>7. f \in AnyFrame /\ g \in AnyFrame BY <1>5, <1>6 DEF AnyFrame, E!Frame
<1>8. PICK t : t = [stack EXCEPT ![Len(stack)] = f] OBVIOUS
<1>9. PICK u : u = [stack EXCEPT ![Len(stack)] = g] OBVIOUS
<1>10. /\ f \in FramesOf(t) /\ \A h \in Frames : h # E!Top => h \in FramesOf(t)
       /\ t \in Seq(AnyFrame)
       /\ \A h : h.kind = "solve" => (h \in Frames <=> h \in FramesOf(t))
  BY <1>1, <1>5, <1>7, <1>8, TopBecomes
<1>11. /\ g \in FramesOf(u) /\ \A h \in Frames : h # E!Top => h \in FramesOf(u)
       /\ \A h : h.kind = "solve" => (h \in Frames <=> h \in FramesOf(u))
  BY <1>1, <1>6, <1>7, <1>9, TopBecomes
<1>12. t = [stack EXCEPT ![Len(stack)].batch = @ \ {v}] BY <1>3, <1>8 DEF E!Top
<1>13. u = [t EXCEPT ![Len(stack)].stalled = @ \cup {v}]
  <2>1. Len(stack) \in DOMAIN stack BY <1>1, EmptySeq, LenProperties DEF TypeOK
  <2>. QED BY <1>4, <1>8, <1>9, <2>1
<1>14. E!Update(v) \in AnyFrame /\ E!Update(v).kind = "update" /\ E!Update(v).obs = v
  BY DEF E!Update, AnyFrame, E!Frame, E!UpdateFrame
<1>15. FramesOf(Append(t, E!Update(v))) = FramesOf(t) \cup {E!Update(v)}
  BY <1>10, <1>14, Pushed
<1>16. \/ v \notin E!Alive /\ stack' = t
       \/ v \in E!Alive \ E!Busy /\ stack' = Append(t, E!Update(v))
       \/ v \in E!Alive \cap E!Busy /\ stack' = u
  BY <1>12, <1>13 DEF E!DrainVisits
<1>17. \A h \in Frames : h # E!Top => h \in FramesOf(stack')
  BY <1>10, <1>11, <1>15, <1>16
<1>18. \A h : h.kind = "solve" => (h \in Frames <=> h \in FramesOf(stack'))
  BY <1>10, <1>11, <1>14, <1>15, <1>16
<1>19. \E h \in FramesOf(stack') : h.kind = "drain" /\ E!Top.batch \ {v} \subseteq h.batch
                                   /\ E!Top.stalled \subseteq h.stalled
  BY <1>5, <1>6, <1>10, <1>11, <1>15, <1>16
<1>20. v \in owned => OwedIn(FramesOf(stack'), pending', done, v)
  <2>1. v \in owned => v \in E!Alive BY DEF E!Alive
  <2>2. CASE v \notin E!Busy /\ v \in owned
    <3>1. done[v] = "entered" BY <2>2, FreeEntered
    <3>2. E!Update(v) \in FramesOf(stack') BY <1>15, <1>16, <2>1, <2>2
    <3>. QED BY <1>14, <3>1, <3>2 DEF OwedIn
  <2>3. CASE v \in E!Busy /\ v \in owned
    <3>1. g \in FramesOf(stack') BY <1>11, <1>16, <2>1, <2>3
    <3>. QED BY <1>6, <3>1 DEF OwedIn
  <2>. QED BY <2>2, <2>3
<1>21. ASSUME NEW o \in Observers \cap owned, Owed(o)
       PROVE  OwedIn(FramesOf(stack'), pending', done, o)
  <2>1. CASE o = v BY <1>20, <2>1
  <2>2. CASE o # v /\ o \in E!Top.batch \cup E!Top.stalled BY <1>19, <2>2 DEF OwedIn
  <2>3. CASE o \notin E!Top.batch \cup E!Top.stalled
    BY <1>1, <1>17, <1>21, <2>3 DEF Owed, OwedIn
  <2>. QED BY <2>1, <2>2, <2>3
<1>22. Registered' BY <1>1, RegisteredKept DEF FInv, Plumbing
<1>. QED BY <1>1, <1>17, <1>18, <1>21, <1>22 DEF EngineCarries, SameSolves

LEMMA DrainEndsCarries == ASSUME FInv, E!DrainEnds PROVE EngineCarries
<1>1. /\ TypeOK /\ stack # <<>> /\ E!Top.kind = "drain" /\ E!Top.batch = {} /\ pending = {}
      /\ owned' = owned /\ registry' = registry /\ pending' = E!Top.stalled
      /\ stack' = E!Below
  BY DEF FInv, E!DrainEnds, E!TopIs
<1>2. /\ \A g \in Frames : g # E!Top => g \in FramesOf(stack')
      /\ \A g : g.kind = "solve" => (g \in Frames <=> g \in FramesOf(stack'))
  BY <1>1, PopCarries
<1>3. Registered' BY <1>1, RegisteredKept DEF FInv, Plumbing
<1>4. ASSUME NEW o, Owed(o) PROVE OwedIn(FramesOf(stack'), pending', done, o)
  BY <1>1, <1>2, <1>4 DEF Owed, OwedIn
<1>. QED BY <1>1, <1>2, <1>3, <1>4 DEF EngineCarries, SameSolves

-----------------------------------------------------------------------------
(* Steps that leave inputs, curves and caches alone.                        *)

\* Whose updates Currency speaks of.
Carriers == Members \cup Helpers \cup Consumers \cup {"multicurve"}

LEMMA Disjoint ==
    /\ Carriers \subseteq Observers /\ Carriers \cap Users = {}
    /\ Contributors \subseteq Carriers /\ Passives \subseteq Carriers
    /\ \A n \in Passives : Base[n] \in Contributors /\ n \notin Contributors
    /\ \A k \in Consumers : Consumes[k] \in Members
    /\ \A h \in Helpers : Fits[h] \in Contributors
  BY ObserversAssumption, BaseAssumption, ConsumesAssumption, FitsAssumption
     DEF Carriers, Observers, Members

LEMMA OwedStays ==
    ASSUME Frames \subseteq FramesOf(stack'), pending \subseteq pending',
           NEW o, done'[o] = done[o], Owed(o)
    PROVE  Owed(o)'
  BY OwedGrows DEF Owed, Frames

LEMMA PlumbingSame ==
    ASSUME FInv, \A f \in Frames : f.kind = "update" => f \in FramesOf(stack'),
           UNCHANGED <<done, left, owned>>, Registered'
    PROVE  Plumbing'
<1>1. UpdatesOpen' BY DEF FInv, Plumbing, UpdatesOpen, Frames
<1>2. FanOutOpen' BY DEF FInv, Plumbing, FanOutOpen, Frames
<1>3. Alive' BY DEF FInv, Plumbing, Alive
<1>. QED BY <1>1, <1>2, <1>3 DEF Plumbing

LEMMA CurrencySame ==
    ASSUME FInv, TypeOK', Alive', SameSolves, owned' \subseteq owned,
           UNCHANGED <<quote, date, calculated, nodes, cache, left, panicked>>,
           missed \subseteq missed',
           \A o \in Carriers \cap owned' : Owed(o) => Owed(o)'
    PROVE  Currency'
<1>1. Solving' <=> Solving BY SolvingSame DEF Solving
<1>2. Solution' = Solution /\ \A n \in Passives : Spreaded(n)' = Spreaded(n)
  BY DEF Solution, Spreaded, SpreadsOf
<1>3. Helpers \cup Consumers \subseteq owned' /\ ("multicurve" \in owned' => owned' = Observers)
  BY DEF Alive
<1>4. Helpers \subseteq Carriers /\ Consumers \subseteq Carriers /\ "multicurve" \in Carriers
  BY DEF Carriers
<1>5. ASSUME NEW c \in Contributors \cap owned', OwnComing(c) PROVE OwnComing(c)'
  BY <1>3, <1>4, <1>5, Disjoint DEF OwnComing
<1>6. ASSUME NEW c \in Contributors, "multicurve" \in owned', Coming(c) PROVE Coming(c)'
  BY <1>3, <1>4, <1>6, Disjoint DEF Coming
<1>7. Assembled' => Assembled BY DEF Assembled
<1>8. OwnInputs'
  <2>1. \A c \in calculated : Own(c)' <=> Own(c) BY DEF Own, QuotesOf
  <2>2. calculated \subseteq Contributors BY DEF FInv, TypeOK
  <2>. QED BY <1>1, <1>5, <2>1, <2>2 DEF FInv, Currency, OwnInputs
<1>9. CurvesCurrent'
  BY <1>1, <1>2, <1>6, <1>7 DEF FInv, Currency, CurvesCurrent, TypeOK, Assembled
<1>10. CurveReaders'
  BY <1>2, <1>3, <1>4, <1>6, <1>7 DEF FInv, Currency, CurveReaders, Assembled
<1>11. SpreadReaders'
  BY <1>1, <1>2, <1>3, <1>4, <1>6, <1>7, Disjoint DEF FInv, Currency, SpreadReaders, Assembled
<1>12. ToldReset'
  <2>1. \A f \in Frames' : f.kind = "solve" => f \in Frames BY DEF SameSolves, Frames
  <2>2. \A m \in Members : "multicurve" \in owned' /\ Owed(m) => Owed(m)'
    BY <1>3, Disjoint DEF Carriers
  <2>. QED BY <1>3, <1>4, <1>7, <2>1, <2>2, Disjoint DEF FInv, Currency, ToldReset, Assembled
<1>. QED BY <1>8, <1>9, <1>10, <1>11, <1>12 DEF Currency

-----------------------------------------------------------------------------
(* Calls of user code.                                                      *)

LEMMA SetQuoteFresh ==
    ASSUME FInv, TypeOK', NEW q \in Quotes, NEW v, SetQuote(q, v)
    PROVE  Plumbing' /\ Currency'
<1>1. /\ Frames \subseteq FramesOf(stack') /\ SameSolves
      /\ pending' = pending /\ owned' = owned /\ Registered'
      /\ \A o \in Wired(q) \cap owned : \A d : OwedIn(FramesOf(stack'), pending', d, o)
  BY NotifyOwes DEF SetQuote, Observables
<1>2. /\ quote' = [quote EXCEPT ![q] = v]
      /\ UNCHANGED <<date, calculated, nodes, cache, done, left, panicked, missed>>
  BY DEF SetQuote, curves, bodies
<1>3. Plumbing' BY <1>1, <1>2, PlumbingSame
<1>4. \A o : Owed(o) => Owed(o)' BY <1>1, <1>2, OwedStays
<1>5. \A o \in Wired(q) \cap owned : Owed(o)' BY <1>1 DEF Owed, Frames
<1>6. Solving' <=> Solving BY <1>1, SolvingSame DEF Solving
<1>7. \A o \in Feeds[q] : o \in Wired(q) BY DEF Wired
<1>8. Helpers \subseteq owned /\ ("multicurve" \in owned => owned = Observers)
  BY DEF FInv, Plumbing, Alive
<1>9. \A h \in Feeds[q] \cap Helpers : Owed(h)' BY <1>5, <1>7, <1>8
<1>10. \A c : OwnComing(c) => OwnComing(c)' BY <1>4 DEF OwnComing
<1>11. \A c : Coming(c) => Coming(c)' BY <1>2, <1>4 DEF Coming
<1>12. quote \in [Quotes -> Values \cup {Null}] BY DEF FInv, TypeOK
<1>13. OwnInputs'
  <2>1. ASSUME NEW c \in calculated, q \in QuotesOf(c) PROVE OwnComing(c)'
    BY <1>9, <2>1 DEF QuotesOf, OwnComing
  <2>2. ASSUME NEW c \in calculated, q \notin QuotesOf(c), Own(c) PROVE Own(c)'
    <3>1. \A p \in QuotesOf(c) : p \in Quotes /\ quote'[p] = quote[p]
      BY <1>2, <1>12, <2>2 DEF QuotesOf
    <3>. QED BY <1>2, <2>2, <3>1 DEF Own, QuotesOf
  <2>. QED BY <1>1, <1>2, <1>6, <1>10, <2>1, <2>2 DEF FInv, Currency, OwnInputs
<1>14. \A c : q \in FittedQuotes => Coming(c)'
  BY <1>9 DEF Coming, FittedQuotes
<1>15. q \notin FittedQuotes => Solution' = Solution
  <2>1. ASSUME q \notin FittedQuotes
        PROVE  \A p \in FittedQuotes : quote'[p] = quote[p]
    BY <1>2, <1>12, <2>1 DEF FittedQuotes
  <2>. QED BY <1>2, <2>1 DEF Solution, FittedQuotes
<1>16. Assembled' <=> Assembled BY <1>1, <1>2 DEF Assembled
<1>17. CurvesCurrent'
  BY <1>2, <1>6, <1>11, <1>14, <1>15, <1>16 DEF FInv, Currency, CurvesCurrent
<1>18. CurveReaders'
  BY <1>2, <1>4, <1>11, <1>14, <1>15, <1>16 DEF FInv, Currency, CurveReaders
<1>19. ASSUME NEW n \in Passives, q \notin FittedQuotes, q \notin SpreadsOf(n)
       PROVE  Spreaded(n)' = Spreaded(n)
  <2>1. \A p \in SpreadsOf(n) : quote'[p] = quote[p] BY <1>2, <1>12, <1>19 DEF SpreadsOf
  <2>. QED BY <1>15, <1>19, <2>1 DEF Spreaded, SpreadsOf
<1>20. ASSUME NEW n \in Passives, q \in SpreadsOf(n), Assembled PROVE Owed(n)'
  BY <1>5, <1>7, <1>8, <1>20, Disjoint DEF SpreadsOf, Assembled
<1>21. SpreadReaders'
  BY <1>2, <1>4, <1>6, <1>11, <1>14, <1>16, <1>19, <1>20 DEF FInv, Currency, SpreadReaders
<1>22. ToldReset'
  <2>1. \A f \in Frames' : f.kind = "solve" => f \in Frames BY <1>1 DEF SameSolves, Frames
  <2>. QED BY <1>2, <1>4, <1>16, <2>1 DEF FInv, Currency, ToldReset
<1>. QED BY <1>3, <1>13, <1>17, <1>18, <1>21, <1>22 DEF Currency

LEMMA SetDateFresh == ASSUME FInv, TypeOK', SetDate PROVE Plumbing' /\ Currency'
<1>1. /\ Frames \subseteq FramesOf(stack') /\ SameSolves
      /\ pending' = pending /\ owned' = owned /\ Registered'
      /\ \A o \in Wired("date") \cap owned : \A d : OwedIn(FramesOf(stack'), pending', d, o)
  BY NotifyOwes DEF SetDate, Observables
<1>2. UNCHANGED <<quote, calculated, nodes, cache, done, left, panicked, missed>>
  BY DEF SetDate, curves, bodies
<1>3. Plumbing' BY <1>1, <1>2, PlumbingSame
<1>4. \A o : Owed(o) => Owed(o)' BY <1>1, <1>2, OwedStays
<1>5. \A o \in Wired("date") \cap owned : Owed(o)' BY <1>1 DEF Owed, Frames
<1>6. Solving' <=> Solving BY <1>1, SolvingSame DEF Solving
<1>7. Wired("date") = Moving \cup (IF Moving # {} THEN {"multicurve"} ELSE {})
  BY ObservablesAssumption DEF Wired
<1>8. \A c : OwnComing(c) => OwnComing(c)' BY <1>4 DEF OwnComing
<1>9. \A c : Coming(c) => Coming(c)' BY <1>2, <1>4 DEF Coming
<1>10. OwnInputs'
  <2>1. ASSUME NEW c \in calculated \cap owned, c \in Moving PROVE OwnComing(c)'
    BY <1>5, <1>7, <2>1 DEF OwnComing
  <2>2. ASSUME NEW c \in calculated, c \notin Moving, Own(c) PROVE Own(c)'
    BY <1>2, <2>2 DEF Own, QuotesOf
  <2>. QED BY <1>1, <1>2, <1>6, <1>8, <2>1, <2>2 DEF FInv, Currency, OwnInputs
<1>11. Assembled' <=> Assembled BY <1>1, <1>2 DEF Assembled
<1>12. ASSUME Assembled, Moving # {} PROVE \A c : Coming(c)'
  BY <1>5, <1>7, <1>12 DEF Coming, Assembled
<1>13. Moving = {} => Solution' = Solution /\ \A n \in Passives : Spreaded(n)' = Spreaded(n)
  BY <1>2 DEF Solution, Spreaded, SpreadsOf
<1>14. CurvesCurrent'
  BY <1>2, <1>6, <1>9, <1>11, <1>12, <1>13 DEF FInv, Currency, CurvesCurrent
<1>15. CurveReaders'
  BY <1>2, <1>4, <1>9, <1>11, <1>12, <1>13 DEF FInv, Currency, CurveReaders
<1>16. SpreadReaders'
  BY <1>2, <1>4, <1>6, <1>9, <1>11, <1>12, <1>13 DEF FInv, Currency, SpreadReaders
<1>17. ToldReset'
  <2>1. \A f \in Frames' : f.kind = "solve" => f \in Frames BY <1>1 DEF SameSolves, Frames
  <2>. QED BY <1>2, <1>4, <1>11, <2>1 DEF FInv, Currency, ToldReset
<1>. QED BY <1>3, <1>10, <1>14, <1>15, <1>16, <1>17 DEF Currency

LEMMA DropFresh == ASSUME FInv, TypeOK', DropMultiCurve PROVE Plumbing' /\ Currency'
<1>1. /\ owned' = owned \ ({"multicurve"} \cup (Members \ Kept))
      /\ UNCHANGED <<registry, stack, pending, quote, date, calculated, nodes, cache,
                     done, left, panicked, missed>>
  BY DEF DropMultiCurve, market, curves, bodies
<1>2. Alive' BY <1>1, ObserversAssumption DEF FInv, Plumbing, Alive, Members
<1>3. Registered' BY <1>1, RegisteredKept DEF FInv, Plumbing
<1>4. UpdatesOpen' /\ FanOutOpen'
  BY <1>1 DEF FInv, Plumbing, UpdatesOpen, FanOutOpen, Frames
<1>5. Plumbing' BY <1>2, <1>3, <1>4 DEF Plumbing
<1>6. SameSolves BY <1>1 DEF SameSolves, Frames
<1>7. \A o : Owed(o) => Owed(o)' BY <1>1 DEF Owed, OwedIn, Frames
<1>8. Currency' BY <1>1, <1>2, <1>6, <1>7, CurrencySame
<1>. QED BY <1>5, <1>8

\* What is read between solves from a curve that is current is current.
LEMMA ConsumeFresh ==
    ASSUME FInv, TypeOK', NEW k \in Consumers, Consume(k)
    PROVE  Plumbing' /\ Currency'
<1>1. /\ UNCHANGED <<registry, owned, stack, pending, quote, date, calculated, nodes,
                     done, left, panicked>>
      /\ cache' = [cache EXCEPT ![k] = Reading(Consumes[k])]
      /\ Under(Consumes[k]) \in calculated
      /\ missed' = IF Under(Consumes[k]) \in missed \/ E!At("solve") # {}
                   THEN missed \cup {k} ELSE missed
  BY DEF Consume, engineVars, market, curves, bodies
<1>2. Registered' BY <1>1, RegisteredKept DEF FInv, Plumbing
<1>3. Plumbing' BY <1>1, <1>2, PlumbingSame DEF Frames
<1>4. \A o : Owed(o) <=> Owed(o)' BY <1>1 DEF Owed, Frames
<1>5. /\ \A c : OwnComing(c) <=> OwnComing(c)'
      /\ \A c : Coming(c) <=> Coming(c)'
  BY <1>1, <1>4 DEF OwnComing, Coming
<1>6. E!At("solve") # {} <=> Solving
  BY StackTyped, AtSolve DEF FInv, E!At, Solving
<1>7. Solving' <=> Solving BY <1>1 DEF Solving
<1>8. /\ Solution' = Solution
      /\ \A n : Spreaded(n)' = Spreaded(n)
      /\ \A c : Own(c)' <=> Own(c)
      /\ Assembled' <=> Assembled
  BY <1>1 DEF Solution, Spreaded, SpreadsOf, Own, Assembled
<1>9. /\ \A c \in Contributors : c \in missed' <=> c \in missed
      /\ \A j \in Consumers : j # k => (j \in missed' <=> j \in missed)
      /\ missed \subseteq missed'
  BY <1>1, ObserversAssumption DEF Members
<1>10. OwnInputs' BY <1>1, <1>5, <1>7, <1>8 DEF FInv, Currency, OwnInputs
<1>11. CurvesCurrent' BY <1>1, <1>5, <1>7, <1>8, <1>9 DEF FInv, Currency, CurvesCurrent
<1>12. ASSUME Assembled, k \notin missed'
       PROVE  /\ ~Solving
              /\ nodes[Under(Consumes[k])] = Solution \/ Coming(Under(Consumes[k]))
  BY <1>1, <1>6, <1>12 DEF FInv, Currency, CurvesCurrent
<1>13. \A j \in Consumers : j # k => cache'[j] = cache[j]
  BY <1>1
<1>14. cache'[k] = Reading(Consumes[k]) \/ cache'[k] = cache[k]
  BY <1>1
<1>15. CurveReaders'
  <2>1. ASSUME NEW j \in Consumers \ missed', Assembled', Consumes[j] \in Contributors,
               cache'[j] # Null
        PROVE  cache'[j] = Solution' \/ Owed(j)' \/ Coming(Consumes[j])'
    <3>1. CASE j # k \/ cache'[j] = cache[j]
      BY <1>4, <1>5, <1>8, <1>9, <1>13, <2>1, <3>1 DEF FInv, Currency, CurveReaders
    <3>2. CASE j = k /\ cache'[k] = Reading(Consumes[k])
      BY <1>5, <1>8, <1>12, <2>1, <3>2 DEF Reading, Under
    <3>. QED BY <1>14, <3>1, <3>2
  <2>. QED BY <2>1 DEF CurveReaders
<1>16. SpreadReaders'
  <2>1. ASSUME NEW j \in Consumers \ missed', NEW n \in Passives, n = Consumes[j],
               Assembled', ~Solving', cache'[j] # Null, Base[n] \in calculated' \ missed'
        PROVE  cache'[j] = Spreaded(n)' \/ Owed(j)' \/ Owed(n)' \/ Coming(Base[n])'
    <3>1. CASE j # k \/ cache'[j] = cache[j]
      BY <1>1, <1>4, <1>5, <1>7, <1>8, <1>9, <1>13, <2>1, <3>1, Disjoint
         DEF FInv, Currency, SpreadReaders
    <3>2. CASE j = k /\ cache'[k] = Reading(Consumes[k])
      <4>1. n \notin Contributors /\ Under(n) = Base[n] BY Disjoint DEF Under
      <4>2. cache'[k] = <<nodes[Base[n]], [q \in SpreadsOf(n) |-> quote[q]]>>
        BY <2>1, <3>2, <4>1 DEF Reading
      <4>. QED BY <1>5, <1>8, <1>12, <2>1, <3>2, <4>1, <4>2 DEF Spreaded
    <3>. QED BY <1>14, <3>1, <3>2
  <2>. QED BY <2>1 DEF SpreadReaders
<1>17. ToldReset'
  <2>1. ASSUME NEW f \in Frames', f.kind = "solve" PROVE k \in missed'
    BY <1>1, <1>6, <2>1 DEF Frames, Solving, SolvingIn
  <2>2. Frames' = Frames BY <1>1 DEF Frames
  <2>. QED BY <1>4, <1>8, <1>9, <1>13, <2>1, <2>2 DEF FInv, Currency, ToldReset
<1>. QED BY <1>3, <1>10, <1>11, <1>15, <1>16, <1>17 DEF Currency

-----------------------------------------------------------------------------
(* The joint solve.                                                         *)

LEMMA SetupFailsFresh ==
    ASSUME FInv, TypeOK', NEW c \in Contributors, SetupFails(c)
    PROVE  Plumbing' /\ Currency'
<1>1. UNCHANGED <<registry, owned, stack, pending, quote, date, cache, done, left,
                  panicked, missed>>
  BY DEF SetupFails, OnlySolves, market, bodies
<1>2. calculated' \subseteq calculated /\ \A x \in calculated' : nodes'[x] = nodes[x]
  <2>1. PICK before \in SUBSET {x \in Contributors : Valid(x)},
             bad \in {x \in Contributors : ~Valid(x)} :
          /\ calculated' = calculated \ ((before \cup {bad}) \cup {c})
          /\ nodes' = [x \in Contributors |-> IF x \in before \cup {bad} THEN Trial ELSE nodes[x]]
    BY DEF SetupFails
  <2>. QED BY <2>1 DEF FInv, TypeOK
<1>3. Registered' BY <1>1, RegisteredKept DEF FInv, Plumbing
<1>4. Plumbing' BY <1>1, <1>3, PlumbingSame DEF Frames
<1>5. \A o : Owed(o) <=> Owed(o)' BY <1>1 DEF Owed, Frames
<1>6. /\ \A x : OwnComing(x) <=> OwnComing(x)'
      /\ \A x : Coming(x) <=> Coming(x)'
  BY <1>1, <1>5 DEF OwnComing, Coming
<1>7. /\ Solution' = Solution
      /\ \A n : Spreaded(n)' = Spreaded(n)
      /\ \A x \in calculated' : Own(x)' <=> Own(x)
      /\ Assembled' <=> Assembled
      /\ Solving' <=> Solving
      /\ Frames' = Frames
  BY <1>1, <1>2 DEF Solution, Spreaded, SpreadsOf, Own, QuotesOf, Assembled, Solving, Frames
<1>8. OwnInputs' BY <1>1, <1>2, <1>6, <1>7 DEF FInv, Currency, OwnInputs
<1>9. CurvesCurrent' BY <1>1, <1>2, <1>6, <1>7 DEF FInv, Currency, CurvesCurrent
<1>10. CurveReaders' BY <1>1, <1>5, <1>6, <1>7 DEF FInv, Currency, CurveReaders
<1>11. SpreadReaders' BY <1>1, <1>2, <1>5, <1>6, <1>7 DEF FInv, Currency, SpreadReaders
<1>12. ToldReset' BY <1>1, <1>5, <1>7 DEF FInv, Currency, ToldReset
<1>. QED BY <1>4, <1>8, <1>9, <1>10, <1>11, <1>12 DEF Currency

\* While a solve goes on only the readers of curves and ToldReset say anything.
LEMMA SolvingFresh ==
    ASSUME FInv, SolvingIn(stack'),
           UNCHANGED <<registry, owned, pending, quote, date, cache, done, left, panicked, missed>>,
           \A f \in Frames : f.kind # "solve" => f \in FramesOf(stack'),
           \A f \in FramesOf(stack') : f.kind = "solve" =>
               f \in Frames \/ \A m \in f.told : Owed(m)' \/ \E g \in Frames :
                                     g.kind = "solve" /\ m \in g.told
    PROVE  Plumbing' /\ Currency'
<1>1. Registered' BY RegisteredKept DEF FInv, Plumbing
<1>2. Plumbing' BY <1>1, PlumbingSame
<1>3. \A o : Owed(o) => Owed(o)' BY DEF Owed, OwedIn, Frames
<1>4. \A x : Coming(x) => Coming(x)' BY <1>3 DEF Coming
<1>5. Solution' = Solution /\ (Assembled' <=> Assembled) /\ Solving'
  BY DEF Solution, Assembled, Solving
<1>6. OwnInputs' /\ CurvesCurrent' /\ SpreadReaders'
  BY <1>5 DEF OwnInputs, CurvesCurrent, SpreadReaders
<1>7. CurveReaders' BY <1>3, <1>4, <1>5 DEF FInv, Currency, CurveReaders
<1>8. ToldReset'
  BY <1>3, <1>5 DEF FInv, Currency, ToldReset, Frames
<1>. QED BY <1>2, <1>6, <1>7, <1>8 DEF Currency

LEMMA SolveStartsFresh ==
    ASSUME FInv, NEW c \in Contributors, SolveStarts(c)
    PROVE  Plumbing' /\ Currency'
<1>1. Solve \in AnyFrame /\ Solve.kind = "solve" /\ Solve.told = {}
  BY MaxPointsAssumption DEF Solve, AnyFrame, SolveFrame
<1>2. stack' = Append(stack, Solve) /\ stack \in Seq(AnyFrame)
  BY StackTyped DEF SolveStarts, FInv
<1>3. FramesOf(stack') = Frames \cup {Solve} BY <1>1, <1>2, Pushed DEF Frames
<1>4. UNCHANGED <<registry, owned, pending, quote, date, cache, done, left, panicked, missed>>
  BY DEF SolveStarts, OnlySolves, market, bodies
<1>5. SolvingIn(stack') BY <1>1, <1>3 DEF SolvingIn
<1>. QED BY <1>1, <1>3, <1>4, <1>5, SolvingFresh

LEMMA PanicFresh == ASSUME Panic, FInv PROVE Plumbing' /\ Currency'
<1>1. /\ panicked' /\ left' = {} /\ done' = [o \in Observers |-> "entered"]
      /\ UNCHANGED <<registry, owned>>
  BY DEF Panic
<1>2. Registered' BY <1>1, RegisteredKept DEF FInv, Plumbing
<1>3. Plumbing' BY <1>1, <1>2 DEF FInv, Plumbing, UpdatesOpen, FanOutOpen, Alive
<1>4. Currency'
  BY <1>1 DEF Currency, OwnInputs, CurvesCurrent, CurveReaders, SpreadReaders, ToldReset, Assembled
<1>. QED BY <1>3, <1>4

LEMMA SolveTellsFresh ==
    ASSUME FInv, NEW n \in Members, SolveTells(n)
    PROVE  Plumbing' /\ Currency'
<1>1. CASE Panic BY <1>1, PanicFresh
<1>2. CASE ~Panic
  <2>1. /\ TypeOK /\ E!TopIs("solve") /\ stack # <<>> /\ E!Top.kind = "solve"
        /\ n \in Passives /\ n \in Observers /\ n \notin E!Busy
    BY <1>2 DEF FInv, SolveTells, Told, Observers, E!TopIs
  <2>2. E!Top \in SolveFrame /\ E!Top \in Frames BY <2>1, TopFrame DEF Frames
  <2>3. PICK f : f = [E!Top EXCEPT !.told = @ \cup {n}] OBVIOUS
  <2>4. f \in SolveFrame /\ f \in AnyFrame /\ f.told = E!Top.told \cup {n}
    BY <2>1, <2>2, <2>3 DEF SolveFrame, AnyFrame
  <2>5. PICK b : b = E!Below OBVIOUS
  <2>6. b \in Seq(AnyFrame) /\ Frames = FramesOf(b) \cup {E!Top}
    BY <2>1, <2>5, TopFrame DEF Frames
  <2>7. PICK s : s = Append(b, f) OBVIOUS
  <2>8. s \in Seq(AnyFrame) /\ FramesOf(s) = FramesOf(b) \cup {f} BY <2>4, <2>6, <2>7, Pushed
  <2>9. E!Update(n) \in AnyFrame /\ E!Update(n).kind = "update" /\ E!Update(n).obs = n
    BY <2>1 DEF E!Update, AnyFrame, E!Frame, E!UpdateFrame
  <2>10. stack' = Append(s, E!Update(n)) BY <1>2, <2>3, <2>5, <2>7 DEF SolveTells
  <2>11. FramesOf(stack') = FramesOf(b) \cup {f, E!Update(n)} BY <2>8, <2>9, <2>10, Pushed
  <2>12. UNCHANGED <<registry, owned, pending, quote, date, cache, done, left, panicked, missed>>
    BY <1>2 DEF SolveTells, OnlySolves, market, bodies
  <2>13. SolvingIn(stack') BY <2>4, <2>11 DEF SolvingIn, SolveFrame
  <2>14. \A g \in Frames : g.kind # "solve" => g \in FramesOf(stack') BY <2>1, <2>6, <2>11
  <2>15. Owed(n)'
    <3>1. done'[n] = "entered" BY <2>1, <2>12, FreeEntered
    <3>2. E!Update(n) \in FramesOf(stack') BY <2>11
    <3>. QED BY <2>9, <3>1, <3>2 DEF Owed, OwedIn, Frames
  <2>16. \A g \in FramesOf(stack') : g.kind = "solve" =>
             g \in Frames \/ \A m \in g.told : Owed(m)' \/ \E h \in Frames :
                                   h.kind = "solve" /\ m \in h.told
    BY <2>1, <2>2, <2>4, <2>6, <2>9, <2>11, <2>15
  <2>. QED BY <2>12, <2>13, <2>14, <2>16, SolvingFresh
<1>. QED BY <1>1, <1>2

LEMMA NextPointFresh == ASSUME FInv, NextPoint PROVE Plumbing' /\ Currency'
<1>1. TypeOK /\ stack # <<>> /\ E!Top.kind = "solve"
  BY DEF FInv, NextPoint, Evaluating, E!TopIs
<1>2. E!Top \in SolveFrame BY <1>1, TopFrame
<1>3. PICK f : f = [E!Top EXCEPT !.points = @ + 1, !.told = {}] OBVIOUS
<1>4. f \in AnyFrame /\ f.kind = "solve" /\ f.told = {}
  <2>1. E!Top.points + 1 \in 1..MaxPoints
    BY <1>2, MaxPointsAssumption DEF SolveFrame, NextPoint
  <2>. QED BY <1>2, <1>3, <2>1 DEF SolveFrame, AnyFrame
<1>5. PICK b : b = E!Below OBVIOUS
<1>6. b \in Seq(AnyFrame) /\ Frames = FramesOf(b) \cup {E!Top}
  BY <1>1, <1>5, TopFrame DEF Frames
<1>7. stack' = Append(b, f) BY <1>3, <1>5 DEF NextPoint
<1>8. FramesOf(stack') = FramesOf(b) \cup {f} BY <1>4, <1>6, <1>7, Pushed
<1>9. UNCHANGED <<registry, owned, pending, quote, date, cache, done, left, panicked, missed>>
  BY DEF NextPoint, OnlySolves, market, bodies
<1>10. SolvingIn(stack') BY <1>4, <1>8 DEF SolvingIn
<1>. QED BY <1>1, <1>4, <1>6, <1>8, <1>9, <1>10, SolvingFresh

\* The end of a solve, well or badly.
SolveEnds ==
    /\ stack # <<>> /\ E!Top.kind = "solve" /\ Told \subseteq E!Top.told
    /\ stack' = E!Below
    /\ UNCHANGED <<registry, owned, pending, quote, date, cache, done, left, panicked, missed>>

LEMMA SolveEndsKeeps ==
    ASSUME FInv, SolveEnds
    PROVE  /\ Plumbing' /\ CurveReaders' /\ ToldReset'
           /\ E!Top \in Frames
           /\ \A o : Owed(o) => Owed(o)'
           /\ Solution' = Solution
           /\ Assembled' <=> Assembled
<1>1. TypeOK /\ E!Top \in Frames /\ Frames = FramesOf(stack') \cup {E!Top}
  BY TopFrame DEF FInv, SolveEnds, Frames
<1>2. Registered' BY RegisteredKept DEF FInv, Plumbing, SolveEnds
<1>3. Plumbing' BY <1>1, <1>2, PlumbingSame DEF SolveEnds
<1>4. \A o : Owed(o) => Owed(o)' BY <1>1 DEF Owed, OwedIn, Frames, SolveEnds
<1>5. \A x : Coming(x) => Coming(x)' BY <1>4 DEF Coming, SolveEnds
<1>6. Solution' = Solution BY DEF Solution, SolveEnds
<1>7. Assembled' <=> Assembled BY DEF Assembled, SolveEnds
<1>8. CurveReaders' BY <1>4, <1>5, <1>6, <1>7 DEF FInv, Currency, CurveReaders, SolveEnds
<1>9. ToldReset'
  BY <1>1, <1>4, <1>7 DEF FInv, Currency, ToldReset, Frames, SolveEnds
<1>. QED BY <1>1, <1>3, <1>4, <1>6, <1>7, <1>8, <1>9

\* The solution is current by definition; readers of passives were told on the way.
LEMMA SolveSucceedsFresh == ASSUME FInv, SolveSucceeds PROVE Plumbing' /\ Currency'
<1>1. SolveEnds
  BY DEF SolveSucceeds, SolveEnds, OnlySolves, Evaluating, E!TopIs, market, bodies
<1>2. /\ Plumbing' /\ CurveReaders' /\ ToldReset' /\ E!Top \in Frames
      /\ \A o : Owed(o) => Owed(o)'
      /\ Solution' = Solution
      /\ Assembled' <=> Assembled
  BY <1>1, SolveEndsKeeps
<1>3. nodes' = [x \in Contributors |-> Solution] /\ calculated' = Contributors
  BY DEF SolveSucceeds
<1>4. \A c \in Contributors : Own(c)'
  <2>1. \A c \in Contributors : QuotesOf(c) \subseteq FittedQuotes BY DEF QuotesOf, FittedQuotes
  <2>2. /\ \A q \in FittedQuotes : Solution.quotes[q] = quote[q]
        /\ Moving # {} => Solution.date = date
    <3>1. date \in BOOLEAN BY DEF FInv, TypeOK
    <3>. QED BY <3>1 DEF Solution
  <2>3. quote' = quote /\ date' = date BY <1>1 DEF SolveEnds
  <2>. QED BY <1>3, <2>1, <2>2, <2>3 DEF Own, QuotesOf
<1>5. OwnInputs' BY <1>3, <1>4 DEF OwnInputs
<1>6. CurvesCurrent' BY <1>2, <1>3 DEF CurvesCurrent
<1>7. SpreadReaders'
  <2>1. ASSUME NEW k \in Consumers \ missed', NEW n \in Passives, n = Consumes[k],
               Assembled', cache'[k] # Null
        PROVE  Owed(k)' \/ Owed(n)'
    <3>1. n \in Told
      BY <1>2, <2>1, Disjoint DEF FInv, Plumbing, Alive, Assembled, Told, E!Alive
    <3>2. E!Top.kind = "solve" /\ n \in E!Top.told BY <1>1, <3>1 DEF SolveEnds
    <3>3. cache[k] # Null /\ k \notin missed /\ Assembled BY <1>1, <1>2, <2>1 DEF SolveEnds
    <3>4. Owed(k) \/ Owed(n)
      BY <1>2, <2>1, <3>2, <3>3 DEF FInv, Currency, ToldReset
    <3>. QED BY <1>2, <3>4
  <2>. QED BY <2>1 DEF SpreadReaders
<1>. QED BY <1>2, <1>5, <1>6, <1>7 DEF Currency

LEMMA SolveFailsFresh == ASSUME FInv, SolveFails PROVE Plumbing' /\ Currency'
<1>1. SolveEnds /\ calculated' = {}
  BY DEF SolveFails, SolveEnds, OnlySolves, Evaluating, E!TopIs, market, bodies
<1>2. Plumbing' /\ CurveReaders' /\ ToldReset' BY <1>1, SolveEndsKeeps
<1>3. OwnInputs' /\ CurvesCurrent' /\ SpreadReaders'
  BY <1>1 DEF OwnInputs, CurvesCurrent, SpreadReaders
<1>. QED BY <1>2, <1>3 DEF Currency

-----------------------------------------------------------------------------
(* The updates.                                                             *)

\* Nobody else's progress changes, and o stays on the stack.
LEMMA LeavingKeeps ==
    ASSUME FInv, NEW o \in Observers, Enters(o), Leaving(o),
           \A f \in Frames : f.kind = "update" => f \in FramesOf(stack')
    PROVE  /\ UpdatesOpen'
           /\ \A p : p # o => done'[p] = done[p]
           /\ \E f \in FramesOf(stack') : f.kind = "update" /\ f.obs = o
<1>1. E!Top \in Frames /\ E!Top.kind = "update" /\ E!Top.obs = o
  BY TopFrame DEF FInv, Enters, InUpdate, E!TopIs, Frames
<1>2. \A p : p # o => done'[p] = done[p] BY DEF Leaving, FInv, TypeOK
<1>3. \E f \in FramesOf(stack') : f.kind = "update" /\ f.obs = o BY <1>1
<1>4. UpdatesOpen' BY <1>2, <1>3 DEF FInv, Plumbing, UpdatesOpen, Frames
<1>. QED BY <1>2, <1>3, <1>4

\* A notification out of an update().
LEMMA BroadcastKeeps ==
    ASSUME FInv, NEW o \in Observers \cap Observables, Enters(o), Leaving(o),
           E!NotifyObservers(o), UNCHANGED <<left, panicked>>
    PROVE  /\ Plumbing' /\ SameSolves /\ owned' = owned
           /\ \A p : p # o /\ Owed(p) => Owed(p)'
           /\ \A p \in Wired(o) \cap owned : Owed(p)'
<1>1. /\ Frames \subseteq FramesOf(stack') /\ SameSolves
      /\ pending' = pending /\ owned' = owned /\ Registered'
      /\ \A p \in Wired(o) \cap owned : \A d : OwedIn(FramesOf(stack'), pending', d, p)
  BY NotifyOwes
<1>2. UpdatesOpen' /\ \A p : p # o => done'[p] = done[p] BY <1>1, LeavingKeeps
<1>3. \A p : p # o /\ Owed(p) => Owed(p)' BY <1>1, <1>2, OwedStays
<1>4. \A p \in Wired(o) \cap owned : Owed(p)' BY <1>1 DEF Owed, Frames
<1>5. FanOutOpen' BY <1>1 DEF FInv, Plumbing, FanOutOpen, Frames
<1>6. Alive' BY <1>1 DEF FInv, Plumbing, Alive
<1>. QED BY <1>1, <1>2, <1>3, <1>4, <1>5, <1>6 DEF Plumbing

\* A helper tells its curve and the MultiCurve, a passive its readers.
LEMMA ForwardsFresh ==
    ASSUME FInv, NEW o \in Helpers \cup Passives, Forwards(o)
    PROVE  Plumbing' /\ Currency'
<1>1. o \in Observers \cap Observables BY DEF Observers, Observables, Members
<1>2. UNCHANGED <<quote, date, calculated, nodes, cache, left, panicked, missed>>
  BY DEF Forwards, market, curves
<1>3. /\ Plumbing' /\ SameSolves /\ owned' = owned
      /\ \A p : p # o /\ Owed(p) => Owed(p)'
      /\ \A p \in Wired(o) \cap owned : Owed(p)'
  BY <1>1, <1>2, BroadcastKeeps DEF Forwards
<1>4. Helpers \cup Consumers \subseteq owned /\ ("multicurve" \in owned => owned = Observers)
  BY DEF FInv, Plumbing, Alive
<1>5. /\ Solution' = Solution
      /\ \A n : Spreaded(n)' = Spreaded(n)
      /\ \A c : Own(c)' <=> Own(c)
      /\ Assembled' <=> Assembled
      /\ Solving' <=> Solving
  BY <1>2, <1>3, SolvingSame DEF Solution, Spreaded, SpreadsOf, Own, QuotesOf, Assembled, Solving
<1>6. o \in Helpers => Wired(o) = {Fits[o], "multicurve"}
  BY ObservablesAssumption DEF Wired, Members
<1>7. ASSUME NEW c \in Contributors \cap owned, OwnComing(c) PROVE OwnComing(c)'
  <2>1. c # o BY ObserversAssumption DEF Members
  <2>2. CASE Owed(c) BY <1>3, <2>1, <2>2 DEF OwnComing
  <2>3. ASSUME NEW h \in Helpers, Fits[h] = c, Owed(h), h # o PROVE OwnComing(c)'
    BY <1>3, <2>3 DEF OwnComing
  <2>4. ASSUME o \in Helpers, Fits[o] = c PROVE OwnComing(c)'
    BY <1>3, <1>6, <2>4 DEF OwnComing
  <2>. QED BY <1>7, <2>2, <2>3, <2>4 DEF OwnComing
<1>8. ASSUME NEW c \in Contributors, Assembled, Coming(c) PROVE Coming(c)'
  <2>1. c # o /\ "multicurve" # o BY ObserversAssumption DEF Members
  <2>2. CASE Owed(c) \/ c \in left \/ Owed("multicurve") BY <1>2, <1>3, <2>1, <2>2 DEF Coming
  <2>3. ASSUME NEW h \in Helpers, Owed(h), h # o PROVE Coming(c)'
    BY <1>3, <2>3 DEF Coming
  <2>4. CASE o \in Helpers BY <1>3, <1>6, <1>8, <2>4 DEF Coming, Assembled
  <2>. QED BY <1>8, <2>2, <2>3, <2>4 DEF Coming
<1>9. \A k \in Consumers : k # o BY ObserversAssumption DEF Members
<1>10. ASSUME NEW n \in Passives, NEW k \in Consumers, Consumes[k] = n, Assembled, Owed(n)
       PROVE  Owed(n)' \/ Owed(k)'
  <2>1. CASE n # o BY <1>3, <1>10, <2>1
  <2>2. CASE n = o
    <3>1. n \notin Quotes /\ n \notin Helpers /\ n \in Members
      BY ObserversAssumption, ObservablesAssumption DEF Members
    <3>2. k \in Wired(o) BY <1>10, <2>2, <3>1 DEF Wired
    <3>. QED BY <1>3, <1>4, <3>2
  <2>. QED BY <2>1, <2>2
<1>11. OwnInputs'
  BY <1>2, <1>3, <1>5, <1>7 DEF FInv, TypeOK, Currency, OwnInputs
<1>12. CurvesCurrent'
  BY <1>2, <1>5, <1>8 DEF FInv, TypeOK, Currency, CurvesCurrent
<1>13. CurveReaders'
  BY <1>2, <1>3, <1>5, <1>8, <1>9 DEF FInv, Currency, CurveReaders
<1>14. SpreadReaders'
  BY <1>2, <1>3, <1>5, <1>8, <1>9, <1>10, Disjoint DEF FInv, Currency, SpreadReaders
<1>15. ToldReset'
  <2>1. ASSUME NEW f \in Frames', f.kind = "solve", NEW k \in Consumers \ missed',
               Assembled', Consumes[k] \in f.told
        PROVE  cache'[k] = Null \/ Owed(k)' \/ Owed(Consumes[k])'
    <3>1. f \in Frames BY <1>3, <2>1 DEF SameSolves, Frames
    <3>2. cache[k] = Null \/ Owed(k) \/ Owed(Consumes[k])
      BY <1>2, <1>5, <2>1, <3>1 DEF FInv, Currency, ToldReset
    <3>3. CASE Owed(Consumes[k]) /\ Consumes[k] # o BY <1>3, <3>3
    <3>4. CASE Owed(Consumes[k]) /\ Consumes[k] = o
      BY <1>5, <1>9, <1>10, <2>1, <3>4, Disjoint, ObserversAssumption
    <3>. QED BY <1>2, <1>3, <1>9, <3>2, <3>3, <3>4
  <2>. QED BY <2>1 DEF ToldReset
<1>. QED BY <1>3, <1>11, <1>12, <1>13, <1>14, <1>15 DEF Currency

\* A curve drops its mark and tells its readers.
LEMMA CurveUpdateFresh ==
    ASSUME FInv, NEW u \in Contributors, CurveUpdate(u)
    PROVE  Plumbing' /\ Currency'
<1>1. u \in Observers \cap Observables BY DEF Observers, Observables, Members
<1>2. /\ UNCHANGED <<quote, date, nodes, cache, left, panicked>>
      /\ calculated' = calculated \ {u} /\ missed' = missed \ {u}
  BY DEF CurveUpdate, market
<1>3. /\ Plumbing' /\ SameSolves /\ owned' = owned
      /\ \A p : p # u /\ Owed(p) => Owed(p)'
      /\ \A p \in Wired(u) \cap owned : Owed(p)'
  BY <1>1, <1>2, BroadcastKeeps DEF CurveUpdate
<1>4. Helpers \cup Consumers \subseteq owned /\ calculated \subseteq Contributors
  BY DEF FInv, Plumbing, Alive, TypeOK
<1>5. /\ Solution' = Solution
      /\ \A n : Spreaded(n)' = Spreaded(n)
      /\ \A c : Own(c)' <=> Own(c)
      /\ Assembled' <=> Assembled
      /\ Solving' <=> Solving
  BY <1>2, <1>3, SolvingSame DEF Solution, Spreaded, SpreadsOf, Own, QuotesOf, Assembled, Solving
<1>6. u \notin Helpers /\ u \notin Passives /\ u \notin Consumers /\ u # "multicurve"
  BY ObserversAssumption DEF Members
<1>7. \A c : c # u /\ OwnComing(c) => OwnComing(c)' BY <1>3, <1>6 DEF OwnComing
<1>8. \A c : c # u /\ Coming(c) => Coming(c)' BY <1>2, <1>3, <1>6 DEF Coming
<1>9. \A k \in Consumers : Consumes[k] = u => Owed(k)'
  <2>1. u \notin Quotes /\ u \in Members BY ObservablesAssumption DEF Members
  <2>. QED BY <1>3, <1>4, <1>6, <2>1 DEF Wired
<1>10. \A k \in Consumers \ missed' : k \notin missed BY <1>2, <1>6
<1>11. OwnInputs' BY <1>2, <1>3, <1>5, <1>7 DEF FInv, Currency, OwnInputs
<1>12. CurvesCurrent' BY <1>2, <1>5, <1>8 DEF FInv, Currency, CurvesCurrent
<1>13. CurveReaders'
  <2>1. ASSUME NEW k \in Consumers \ missed', Assembled', Consumes[k] \in Contributors,
               cache'[k] # Null
        PROVE  cache'[k] = Solution' \/ Owed(k)' \/ Coming(Consumes[k])'
    <3>1. CASE Consumes[k] = u BY <1>9, <3>1
    <3>2. CASE Consumes[k] # u
      BY <1>2, <1>3, <1>5, <1>6, <1>8, <1>10, <2>1, <3>2 DEF FInv, Currency, CurveReaders
    <3>. QED BY <3>1, <3>2
  <2>. QED BY <2>1 DEF CurveReaders
<1>14. SpreadReaders'
  <2>1. ASSUME NEW k \in Consumers \ missed', NEW n \in Passives, n = Consumes[k],
               Assembled', ~Solving', cache'[k] # Null, Base[n] \in calculated' \ missed'
        PROVE  cache'[k] = Spreaded(n)' \/ Owed(k)' \/ Owed(n)' \/ Coming(Base[n])'
    <3>1. Base[n] # u /\ Base[n] \in calculated \ missed /\ n # u /\ k # u
      BY <1>2, <1>6, <2>1
    <3>2. cache[k] = Spreaded(n) \/ Owed(k) \/ Owed(n) \/ Coming(Base[n])
      BY <1>2, <1>5, <1>10, <2>1, <3>1 DEF FInv, Currency, SpreadReaders
    <3>. QED BY <1>2, <1>3, <1>5, <1>8, <3>1, <3>2
  <2>. QED BY <2>1 DEF SpreadReaders
<1>15. ToldReset'
  <2>1. ASSUME NEW f \in Frames', f.kind = "solve", NEW k \in Consumers \ missed',
               Assembled', Consumes[k] \in f.told
        PROVE  cache'[k] = Null \/ Owed(k)' \/ Owed(Consumes[k])'
    <3>1. f \in Frames BY <1>3, <2>1 DEF SameSolves, Frames
    <3>2. cache[k] = Null \/ Owed(k) \/ Owed(Consumes[k])
      BY <1>5, <1>10, <2>1, <3>1 DEF FInv, Currency, ToldReset
    <3>. QED BY <1>2, <1>3, <1>6, <1>9, <3>2
  <2>. QED BY <2>1 DEF ToldReset
<1>. QED BY <1>3, <1>11, <1>12, <1>13, <1>14, <1>15 DEF Currency

\* A reader drops what it has.
LEMMA ConsumerUpdateFresh ==
    ASSUME FInv, NEW u \in Consumers, ConsumerUpdate(u)
    PROVE  Plumbing' /\ Currency'
<1>1. /\ UNCHANGED <<registry, owned, stack, pending, quote, date, calculated, nodes,
                     left, panicked>>
      /\ cache' = [cache EXCEPT ![u] = Null] /\ missed' = missed \ {u}
  BY DEF ConsumerUpdate, engineVars, market, curves
<1>2. u \in Observers BY DEF Observers
<1>3. UpdatesOpen' /\ \A p : p # u => done'[p] = done[p]
  BY <1>1, <1>2, LeavingKeeps DEF ConsumerUpdate, Frames
<1>4. \A p : p # u => (Owed(p) => Owed(p)') BY <1>1, <1>3 DEF Owed, OwedIn, Frames
<1>5. Registered' BY <1>1, RegisteredKept DEF FInv, Plumbing
<1>6. FanOutOpen' /\ Alive' BY <1>1 DEF FInv, Plumbing, FanOutOpen, Alive, Frames
<1>7. Plumbing' BY <1>3, <1>5, <1>6 DEF Plumbing
<1>8. /\ Solution' = Solution
      /\ \A n : Spreaded(n)' = Spreaded(n)
      /\ \A c : Own(c)' <=> Own(c)
      /\ Assembled' <=> Assembled
      /\ Solving' <=> Solving
      /\ Frames' = Frames
  BY <1>1 DEF Solution, Spreaded, SpreadsOf, Own, QuotesOf, Assembled, Solving, Frames
<1>9. u \notin Helpers /\ u \notin Members /\ u # "multicurve"
  BY ObserversAssumption
<1>10. \A c : c # u /\ OwnComing(c) => OwnComing(c)' BY <1>4, <1>9 DEF OwnComing
<1>11. \A c : c # u /\ Coming(c) => Coming(c)' BY <1>1, <1>4, <1>9 DEF Coming
<1>12. calculated \subseteq Contributors /\ \A c \in Contributors : c # u /\ (c \in missed' <=> c \in missed)
  BY <1>1, <1>9 DEF FInv, TypeOK, Members
<1>13. \A k \in Consumers : k # u => cache'[k] = cache[k] /\ (k \in missed' <=> k \in missed)
  BY <1>1
<1>14. cache'[u] = Null BY <1>1 DEF FInv, TypeOK
<1>15. OwnInputs'
  BY <1>1, <1>8, <1>9, <1>10, <1>12 DEF FInv, Currency, OwnInputs, Members
<1>16. CurvesCurrent'
  BY <1>1, <1>8, <1>9, <1>11, <1>12 DEF FInv, Currency, CurvesCurrent, Members
<1>17. CurveReaders'
  BY <1>4, <1>8, <1>9, <1>11, <1>13, <1>14 DEF FInv, Currency, CurveReaders, Members
<1>18. SpreadReaders'
  <2>1. ASSUME NEW k \in Consumers \ missed', NEW n \in Passives, n = Consumes[k],
               Assembled', ~Solving', cache'[k] # Null, Base[n] \in calculated' \ missed'
        PROVE  cache'[k] = Spreaded(n)' \/ Owed(k)' \/ Owed(n)' \/ Coming(Base[n])'
    <3>1. k # u /\ n # u /\ Base[n] # u /\ Base[n] \in Contributors
      BY <1>9, <1>14, <2>1, BaseAssumption DEF Members
    <3>2. cache[k] = Spreaded(n) \/ Owed(k) \/ Owed(n) \/ Coming(Base[n])
      BY <1>1, <1>8, <1>12, <1>13, <2>1, <3>1 DEF FInv, Currency, SpreadReaders
    <3>. QED BY <1>4, <1>8, <1>11, <1>13, <3>1, <3>2
  <2>. QED BY <2>1 DEF SpreadReaders
<1>19. ToldReset'
  <2>1. \A k \in Consumers : Consumes[k] # u BY <1>9, Disjoint
  <2>. QED BY <1>4, <1>8, <1>13, <1>14, <2>1 DEF FInv, Currency, ToldReset
<1>. QED BY <1>7, <1>15, <1>16, <1>17, <1>18, <1>19 DEF Currency

\* The MultiCurve owes its members what it was owed.
LEMMA FanOutStartsFresh == ASSUME FInv, FanOutStarts PROVE Plumbing' /\ Currency'
<1>1. /\ UNCHANGED <<registry, owned, stack, pending, quote, date, calculated, nodes, cache,
                     panicked, missed>>
      /\ left' = Members
  BY DEF FanOutStarts, engineVars, market, curves
<1>2. /\ UpdatesOpen'
      /\ \A p : p # "multicurve" => done'[p] = done[p]
      /\ \E f \in FramesOf(stack') : f.kind = "update" /\ f.obs = "multicurve"
  BY <1>1, LeavingKeeps DEF FanOutStarts, Frames, Observers
<1>3. Registered' BY <1>1, RegisteredKept DEF FInv, Plumbing
<1>4. FanOutOpen' /\ Alive' BY <1>1, <1>2 DEF FInv, Plumbing, FanOutOpen, Alive, Frames
<1>5. Plumbing' BY <1>2, <1>3, <1>4 DEF Plumbing
<1>6. \A p : p # "multicurve" => (Owed(p) => Owed(p)')
  BY <1>1, <1>2 DEF Owed, OwedIn, Frames
<1>7. /\ Solution' = Solution
      /\ \A n : Spreaded(n)' = Spreaded(n)
      /\ \A c : Own(c)' <=> Own(c)
      /\ Assembled' <=> Assembled
      /\ Solving' <=> Solving
      /\ Frames' = Frames
  BY <1>1 DEF Solution, Spreaded, SpreadsOf, Own, QuotesOf, Assembled, Solving, Frames
<1>8. "multicurve" \notin Helpers /\ "multicurve" \notin Members /\ "multicurve" \notin Consumers
  BY ObserversAssumption
<1>9. \A c \in Contributors : OwnComing(c) => OwnComing(c)'
  BY <1>6, <1>8 DEF OwnComing, Members
<1>10. \A c \in Contributors : Coming(c)' BY <1>1 DEF Coming, Members
<1>11. calculated \subseteq Contributors BY DEF FInv, TypeOK
<1>12. OwnInputs' BY <1>1, <1>7, <1>9, <1>11 DEF FInv, Currency, OwnInputs
<1>13. CurvesCurrent' BY <1>1, <1>10, <1>11 DEF CurvesCurrent
<1>14. CurveReaders' BY <1>10 DEF CurveReaders
<1>15. SpreadReaders' BY <1>10, Disjoint DEF SpreadReaders
<1>16. ToldReset'
  <2>1. \A k \in Consumers : Consumes[k] # "multicurve" /\ k # "multicurve" BY <1>8, Disjoint
  <2>. QED BY <1>1, <1>6, <1>7, <2>1 DEF FInv, Currency, ToldReset
<1>. QED BY <1>5, <1>12, <1>13, <1>14, <1>15, <1>16 DEF Currency

\* A member is entered, or is passed over and what it missed is noted.
LEMMA FansOutFresh ==
    ASSUME FInv, NEW m \in Members, FansOut(m)
    PROVE  Plumbing' /\ Currency'
<1>1. /\ UNCHANGED <<registry, owned, pending, quote, date, calculated, nodes, cache,
                     done, panicked>>
      /\ left' = left \ {m} /\ m \in Observers
  BY DEF FansOut, market, curves, Observers
<1>2. \/ /\ missed' = missed \cup Stale({m})
         /\ stack' = stack
      \/ /\ m \notin E!Busy
         /\ stack' = Append(stack, E!Update(m))
         /\ missed' = missed
  BY DEF FansOut
<1>3. Frames \subseteq FramesOf(stack') /\ SameSolves
  <2>1. CASE stack' = stack BY <2>1 DEF Frames, SameSolves
  <2>2. CASE m \notin E!Busy /\ stack' = Append(stack, E!Update(m)) BY <1>1, <2>2, EnterOwes
  <2>. QED BY <1>2, <2>1, <2>2
<1>4. \A o : Owed(o) => Owed(o)' BY <1>1, <1>3, OwedStays
<1>5. missed' = missed => Owed(m)' \/ stack' = stack
  <2>1. CASE m \notin E!Busy /\ stack' = Append(stack, E!Update(m))
    <3>1. \A q : OwedIn(FramesOf(stack'), q, done, m) BY <1>1, <2>1, EnterOwes
    <3>. QED BY <1>1, <3>1 DEF Owed, Frames
  <2>. QED BY <1>2, <2>1
<1>6. Registered' BY <1>1, RegisteredKept DEF FInv, Plumbing
<1>7. UpdatesOpen' BY <1>1, <1>3 DEF FInv, Plumbing, UpdatesOpen, Frames
<1>8. FanOutOpen' /\ Alive' BY <1>1, <1>3 DEF FInv, Plumbing, FanOutOpen, Alive, Frames
<1>9. Plumbing' BY <1>6, <1>7, <1>8 DEF Plumbing
<1>10. /\ Solution' = Solution
       /\ \A n : Spreaded(n)' = Spreaded(n)
       /\ \A c : Own(c)' <=> Own(c)
       /\ Assembled' <=> Assembled
       /\ Solving' <=> Solving
  BY <1>1, <1>3, SolvingSame DEF Solution, Spreaded, SpreadsOf, Own, QuotesOf, Assembled, Solving
<1>11. \A c : OwnComing(c) => OwnComing(c)' BY <1>4 DEF OwnComing
<1>12. \A c : Coming(c) => Coming(c)' \/ (c = m /\ missed' = missed \cup Stale({m}))
  <2>1. Owed(m)' => Coming(m)' BY DEF Coming
  <2>2. missed' = missed \cup Stale({m}) \/ Owed(m)'
    <3>1. CASE m \notin E!Busy /\ stack' = Append(stack, E!Update(m))
      <4>1. \A q : OwedIn(FramesOf(stack'), q, done, m) BY <1>1, <3>1, EnterOwes
      <4>. QED BY <1>1, <4>1 DEF Owed, Frames
    <3>. QED BY <1>2, <3>1
  <2>. QED BY <1>1, <1>4, <2>1, <2>2 DEF Coming
<1>13. missed \subseteq missed' BY <1>2
<1>14. OwnInputs' BY <1>1, <1>10, <1>11 DEF FInv, Currency, OwnInputs
<1>15. CurvesCurrent'
  BY <1>1, <1>10, <1>12, <1>13 DEF FInv, Currency, CurvesCurrent, Stale
<1>16. CurveReaders'
  BY <1>1, <1>4, <1>10, <1>12, <1>13 DEF FInv, Currency, CurveReaders, Stale
<1>17. SpreadReaders'
  BY <1>1, <1>4, <1>10, <1>12, <1>13 DEF FInv, Currency, SpreadReaders, Stale
<1>18. ToldReset'
  <2>1. \A f \in Frames' : f.kind = "solve" => f \in Frames BY <1>3 DEF SameSolves, Frames
  <2>. QED BY <1>1, <1>4, <1>10, <1>13, <2>1 DEF FInv, Currency, ToldReset
<1>. QED BY <1>9, <1>14, <1>15, <1>16, <1>17, <1>18 DEF Currency

\* What returns has passed on all it was owed.
LEMMA ReturnsFresh ==
    ASSUME FInv, TypeOK', NEW o \in Observers, Returns(o)
    PROVE  Plumbing' /\ Currency'
<1>1. /\ TypeOK /\ stack # <<>> /\ E!Top.kind = "update" /\ E!Top.obs = o
      /\ UNCHANGED <<registry, owned, pending, quote, date, calculated, nodes, cache,
                     left, panicked, missed>>
      /\ stack' = E!Below
      /\ o = "multicurve" => left = {}
      /\ done[o] = "returning" \/ o \in Users
      /\ done' = [done EXCEPT ![o] = "entered"]
  BY DEF FInv, Returns, InUpdate, E!TopIs, E!UpdateReturns, market, curves
<1>2. /\ \A g \in Frames : g # E!Top => g \in FramesOf(stack')
      /\ \A g : g.kind = "solve" => (g \in Frames <=> g \in FramesOf(stack'))
  BY <1>1, PopCarries
<1>3. done'[o] = "entered" /\ \A p : p # o => done'[p] = done[p] BY <1>1 DEF TypeOK
<1>4. ASSUME NEW p \in Carriers, Owed(p) PROVE Owed(p)'
  <2>1. p = o => done[p] # "entered" BY <1>1, <1>4, Disjoint
  <2>2. \A f \in Frames : f.kind = "update" /\ f.obs = p /\ done[p] = "entered" => f # E!Top
    BY <1>1, <2>1
  <2>. QED BY <1>1, <1>2, <1>3, <1>4, <2>2 DEF Owed, OwedIn, Frames
<1>5. Registered' BY <1>1, RegisteredKept DEF FInv, Plumbing
<1>6. UpdatesOpen'
  <2>1. ASSUME NEW p \in Observers, done'[p] = "returning"
        PROVE  \E f \in Frames' : f.kind = "update" /\ f.obs = p
    <3>1. p # o /\ done[p] = "returning" BY <1>3, <2>1
    <3>2. PICK f \in Frames : f.kind = "update" /\ f.obs = p
      BY <3>1 DEF FInv, Plumbing, UpdatesOpen
    <3>. QED BY <1>1, <1>2, <3>1, <3>2 DEF Frames
  <2>. QED BY <2>1 DEF UpdatesOpen
<1>7. FanOutOpen'
  <2>1. ASSUME left # {}
        PROVE  \E f \in Frames' : f.kind = "update" /\ f.obs = "multicurve"
    <3>1. PICK f \in Frames : f.kind = "update" /\ f.obs = "multicurve"
      BY <2>1 DEF FInv, Plumbing, FanOutOpen
    <3>. QED BY <1>1, <1>2, <2>1, <3>1 DEF Frames
  <2>. QED BY <1>1, <2>1 DEF FanOutOpen
<1>8. Alive' BY <1>1 DEF FInv, Plumbing, Alive
<1>9. Plumbing' BY <1>5, <1>6, <1>7, <1>8 DEF Plumbing
<1>10. SameSolves BY <1>2 DEF SameSolves
<1>11. Currency' BY <1>1, <1>4, <1>8, <1>10, CurrencySame
<1>. QED BY <1>9, <1>11

\* A round that finds the MultiCurve updating excuses what all of its members missed.
LEMMA RoundVisitsFresh ==
    ASSUME FInv, TypeOK', NEW e \in E!Entry, E!RoundVisits(e),
           missed' = IF e.obs = "multicurve" /\ e.obs \in E!Busy
                     THEN missed \cup Stale(Members) ELSE missed,
           UNCHANGED <<quote, date, calculated, nodes, cache, done, left, panicked>>
    PROVE  Plumbing' /\ Currency'
<1>1. /\ \A f \in Frames : f.kind = "update" => f \in FramesOf(stack')
      /\ SameSolves /\ owned' = owned /\ Registered'
      /\ \A o \in Observers \cap owned :
            Owed(o) => \/ OwedIn(FramesOf(stack'), pending', done, o)
                       \/ o = "multicurve" /\ e.obs = o /\ o \in E!Busy
  BY VisitCarries
<1>2. Plumbing' BY <1>1, PlumbingSame
<1>3. Alive' BY <1>2 DEF Plumbing
<1>4. \A o \in Observers \cap owned :
          Owed(o) => Owed(o)' \/ (o = "multicurve" /\ e.obs = o /\ o \in E!Busy)
  BY <1>1 DEF Owed, Frames
<1>5. CASE ~(e.obs = "multicurve" /\ e.obs \in E!Busy)
  <2>1. \A o \in Carriers \cap owned' : Owed(o) => Owed(o)' BY <1>1, <1>4, <1>5, Disjoint
  <2>2. Currency' BY <1>1, <1>3, <1>5, <2>1, CurrencySame
  <2>. QED BY <1>2, <2>2
<1>6. CASE e.obs = "multicurve" /\ e.obs \in E!Busy
  <2>1. missed' = missed \cup Stale(Members) BY <1>6
  <2>2. calculated \subseteq Contributors /\ Contributors \subseteq Members
    BY DEF FInv, TypeOK, Members
  <2>3. calculated' \ missed' = {} BY <2>1, <2>2 DEF Stale
  <2>4. \A k \in Consumers \ missed' : cache'[k] = Null BY <2>1, Disjoint DEF Stale
  <2>5. CurvesCurrent' /\ CurveReaders' /\ SpreadReaders' /\ ToldReset'
    BY <2>3, <2>4 DEF CurvesCurrent, CurveReaders, SpreadReaders, ToldReset
  <2>6. OwnInputs'
    <3>1. \A c \in calculated : Own(c)' <=> Own(c) BY DEF Own, QuotesOf
    <3>2. (Solving' <=> Solving) BY <1>1, SolvingSame DEF Solving
    <3>3. "multicurve" \notin Helpers /\ "multicurve" \notin Contributors /\ Helpers \subseteq owned
          /\ Helpers \subseteq Observers /\ Contributors \subseteq Observers
      BY ObserversAssumption DEF Members, FInv, Plumbing, Alive, Observers
    <3>4. \A c \in Contributors \cap owned : OwnComing(c) => OwnComing(c)'
      BY <1>4, <3>3 DEF OwnComing
    <3>. QED BY <1>1, <2>2, <3>1, <3>2, <3>4 DEF FInv, Currency, OwnInputs
  <2>. QED BY <1>2, <2>5, <2>6 DEF Currency
<1>. QED BY <1>5, <1>6

LEMMA NotificationFresh ==
    ASSUME FInv, TypeOK', NotificationStep
    PROVE  Plumbing' /\ Currency'
<1>1. UNCHANGED <<quote, date, calculated, nodes, cache, done, left, panicked>>
  BY DEF NotificationStep, market, curves, bodies
<1>2. ASSUME NEW o \in Observers, NEW d \in BOOLEAN, E!RoundVisits([obs |-> o, defer |-> d]),
             missed' = IF o = "multicurve" /\ o \in E!Busy THEN missed \cup Stale(Members)
                                                           ELSE missed
      PROVE  Plumbing' /\ Currency'
  <2>1. PICK e : e = [obs |-> o, defer |-> d] OBVIOUS
  <2>2. e \in E!Entry /\ E!RoundVisits(e) /\ e.obs = o BY <1>2, <2>1 DEF E!Entry
  <2>. QED BY <1>1, <1>2, <2>2, RoundVisitsFresh
<1>3. ASSUME EngineCarries, missed' = missed PROVE Plumbing' /\ Currency'
  <2>1. Plumbing' BY <1>1, <1>3, PlumbingSame DEF EngineCarries
  <2>2. \A o \in Carriers \cap owned' : Owed(o) => Owed(o)'
    BY <1>1, <1>3, Disjoint DEF EngineCarries, Owed, Frames
  <2>3. Alive' BY <2>1 DEF Plumbing
  <2>4. Currency' BY <1>1, <1>3, <2>2, <2>3, CurrencySame DEF EngineCarries
  <2>. QED BY <2>1, <2>4
<1>. QED
  BY <1>2, <1>3, RoundEndsCarries, DrainTakesCarries, DrainVisitsCarries, DrainEndsCarries
     DEF NotificationStep

-----------------------------------------------------------------------------
LEMMA InitFresh == Init => Plumbing /\ Currency
<1>1. SUFFICES ASSUME Init PROVE Plumbing /\ Currency OBVIOUS
<1>2. /\ owned = Observers /\ calculated = {} /\ left = {} /\ stack = <<>>
      /\ done = [o \in Observers |-> "entered"] /\ cache = [k \in Consumers |-> Null]
      /\ registry = [x \in Observables |->
             {[obs |-> o, defer |-> DeferReentrant[o]] : o \in Wired(x)}]
  BY <1>1 DEF Init
<1>3. Frames = {} BY <1>2 DEF Frames, FramesOf
<1>4. UpdatesOpen /\ FanOutOpen /\ Alive BY <1>2 DEF UpdatesOpen, FanOutOpen, Alive, Observers
<1>5. Registered BY <1>2 DEF Registered, Reg
<1>6. Currency
  BY <1>2, <1>3 DEF Currency, OwnInputs, CurvesCurrent, CurveReaders, SpreadReaders, ToldReset
<1>. QED BY <1>4, <1>5, <1>6 DEF Plumbing

LEMMA StutterFresh == ASSUME FInv, TypeOK', UNCHANGED vars PROVE Plumbing' /\ Currency'
<1>1. UNCHANGED <<registry, owned, stack, pending, quote, date, calculated, nodes, cache,
                  done, left, panicked, missed>>
  BY DEF vars, engineVars, market, curves, bodies
<1>2. Registered' BY <1>1, RegisteredKept DEF FInv, Plumbing
<1>3. Plumbing' BY <1>1, <1>2, PlumbingSame DEF Frames
<1>4. Alive' BY <1>3 DEF Plumbing
<1>5. SameSolves BY <1>1 DEF SameSolves, Frames
<1>6. \A o : Owed(o) => Owed(o)' BY <1>1 DEF Owed, Frames
<1>7. Currency' BY <1>1, <1>4, <1>5, <1>6, CurrencySame
<1>. QED BY <1>3, <1>7

LEMMA StepFresh == FInv /\ TypeOK' /\ [Next]_vars => FInv'
<1>1. SUFFICES ASSUME FInv, TypeOK', [Next]_vars PROVE Plumbing' /\ Currency'
  BY DEF FInv
<1>2. CASE UserStep
  BY <1>1, <1>2, SetQuoteFresh, SetDateFresh, DropFresh, SetupFailsFresh, SolveStartsFresh,
     ConsumeFresh DEF UserStep
<1>3. CASE BodyStep
  BY <1>1, <1>3, ForwardsFresh, CurveUpdateFresh, ConsumerUpdateFresh, FanOutStartsFresh,
     FansOutFresh, ReturnsFresh DEF BodyStep
<1>4. CASE SolveStep
  BY <1>1, <1>4, SolveTellsFresh, PanicFresh, NextPointFresh, SolveSucceedsFresh,
     SolveFailsFresh DEF SolveStep, EvaluationPanics
<1>5. CASE NotificationStep BY <1>1, <1>5, NotificationFresh
<1>6. CASE UNCHANGED vars BY <1>1, <1>6, StutterFresh
<1>. QED BY <1>1, <1>2, <1>3, <1>4, <1>5, <1>6 DEF Next, ProgramStep

LEMMA Fresh == Spec => []FInv
<1>1. Init /\ TypeOK => FInv BY InitFresh DEF FInv
<1>2. FInv /\ TypeOK' /\ [Next]_vars => FInv' BY StepFresh
<1>. QED BY <1>1, <1>2, TypeCorrect, PTL DEF Spec

\* At rest nothing is owed to anyone.
LEMMA NothingOwed ==
    ASSUME FInv, AtRest
    PROVE  /\ left = {} /\ ~Solving
           /\ \A o : ~Owed(o)
           /\ \A c : ~OwnComing(c) /\ ~Coming(c)
<1>1. Frames = {} /\ pending = {} BY DEF AtRest, Frames, FramesOf
<1>2. left = {} BY <1>1 DEF FInv, Plumbing, FanOutOpen
<1>3. ~Solving BY <1>1 DEF Solving, SolvingIn, Frames
<1>4. \A o : ~Owed(o) BY <1>1 DEF Owed, OwedIn
<1>. QED BY <1>2, <1>3, <1>4 DEF OwnComing, Coming

\* At rest, no curve that still exists claims to be calculated for an earlier value of
\* a quote of its own helpers or of the date it follows (CurveUpdater is replayed when
\* it was busy, unlike an instrument's updater and that of the MultiCurve).
THEOREM OwnInputsAlwaysReach == Spec => []OwnInputsReach
<1>1. ASSUME FInv, AtRest, NEW c \in calculated \cap owned
      PROVE  /\ \A q \in QuotesOf(c) : nodes[c].quotes[q] = quote[q]
             /\ c \in Moving => nodes[c].date = date
  <2>1. ~panicked /\ ~Solving /\ ~OwnComing(c) BY <1>1, NothingOwed DEF AtRest
  <2>2. Own(c) BY <1>1, <2>1 DEF FInv, Currency, OwnInputs
  <2>. QED BY <2>2 DEF Own
<1>2. FInv => OwnInputsReach BY <1>1 DEF OwnInputsReach
<1>. QED BY <1>2, Fresh, PTL

\* At rest, while the MultiCurve exists, contributors hold the joint solution of the
\* current inputs and consumers what their members give, unless a fan-out of the
\* MultiCurve passed them over or they read a trial point of a solve.
THEOREM CurrentUnlessMissed == Spec => []FreshUnlessMissed
<1>1. ASSUME FInv, AtRest, "multicurve" \in owned PROVE \A c \in calculated \ missed : nodes[c] = Solution
  BY <1>1, NothingOwed DEF FInv, Currency, CurvesCurrent, Assembled, AtRest
<1>2. ASSUME FInv, AtRest, "multicurve" \in owned, NEW k \in Consumers \ missed,
             cache[k] # Null, Under(Consumes[k]) \in calculated \ missed
      PROVE  cache[k] = Reading(Consumes[k])
  <2>1. Assembled /\ ~Solving /\ (\A o : ~Owed(o)) /\ (\A c : ~Coming(c))
    BY <1>2, NothingOwed DEF Assembled, AtRest
  <2>2. CASE Consumes[k] \in Contributors
    <3>1. cache[k] = Solution
      BY <1>2, <2>1, <2>2 DEF FInv, Currency, CurveReaders
    <3>2. nodes[Consumes[k]] = Solution BY <1>1, <1>2, <2>2 DEF Under
    <3>. QED BY <2>2, <3>1, <3>2 DEF Reading
  <2>3. CASE Consumes[k] \notin Contributors
    <3>1. PICK n : n = Consumes[k] OBVIOUS
    <3>2. n \in Passives /\ Base[n] \in calculated \ missed
      BY <1>2, <2>3, <3>1, Disjoint DEF Under, Members
    <3>3. cache[k] = Spreaded(n)
      BY <1>2, <2>1, <3>1, <3>2 DEF FInv, Currency, SpreadReaders
    <3>4. nodes[Base[n]] = Solution BY <1>1, <1>2, <3>2
    <3>. QED BY <2>3, <3>1, <3>3, <3>4 DEF Reading, Spreaded
  <2>. QED BY <2>2, <2>3
<1>3. FInv => FreshUnlessMissed BY <1>1, <1>2 DEF FreshUnlessMissed
<1>. QED BY <1>3, Fresh, PTL
=============================================================================
