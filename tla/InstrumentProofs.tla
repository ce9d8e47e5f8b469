---------------------------- MODULE InstrumentProofs ----------------------------
(***************************************************************************)
(* Theorems about Instrument, for any quotes, engines, clients and wiring: *)
(* its types, the recursion guard, and, where no client writes inputs      *)
(* beside one that prices the instrument in its update(), what is cached   *)
(* and what the readers hold at rest.                                      *)
(***************************************************************************)
EXTENDS Instrument, FiniteSetTheorems, SequenceTheorems, TLAPS

-----------------------------------------------------------------------------
(* The calls under way.                                                     *)

Height == Len(stack)
FramesOf(s) == {s[i] : i \in 1..Len(s)}
Frames == FramesOf(stack)

IsUpdate(f, o) == f.kind = "update" /\ f.obs = o
IsMethod(f, name) == f.kind = "method" /\ f.name = name

\* What can be registered, and what calls can be about, if only S is ever notified.
EntryOf(S) == {e \in E!Entry : e.obs \in S /\ (DeferReentrant[e.obs] => e.defer)}
FrameOf(S) ==
    [kind : {"notify"}, todo : SUBSET EntryOf(S)]
    \cup [kind : {"update"}, obs : S]
    \cup [kind : {"drain"}, batch : SUBSET S, stalled : SUBSET S]
    \cup MethodFrame

Confined(S) ==
    /\ registry \in [Observables -> SUBSET EntryOf(S)]
    /\ stack \in Seq(FrameOf(S))
    /\ pending \subseteq S

-----------------------------------------------------------------------------
(* The parts of the inductive invariant.                                    *)

\* No observer is ever dropped, nor held by the top level.
AllAlive == owned = Observers /\ held = {}

\* An update() that has come further than its entry is under way.
UpdatesOpen(s, d) ==
    \A o \in Observers : d[o] # "entered" => \E i \in 1..Len(s) : IsUpdate(s[i], o)
OneUpdateEach(s) ==
    \A i, j \in 1..Len(s) : \A o \in Observers : IsUpdate(s[i], o) /\ IsUpdate(s[j], o) => i = j

\* A swap is alone on the instrument, and there is one calculation at most.
SwapAlone(s) ==
    \A i, j \in 1..Len(s) : IsMethod(s[i], "swap") /\ s[j].kind = "method" => i = j
OneCalculation(s) ==
    \A i, j \in 1..Len(s) : IsMethod(s[i], "calculate") /\ IsMethod(s[j], "calculate") => i = j

\* The updater makes no call but for the round it guards.
UpdaterGuards(s, d) ==
    \A i \in 1..Len(s) : IsUpdate(s[i], "updater") => i = Len(s) \/ d["updater"] = "guarding"
OnlyUpdaterGuards(d) == \A o \in Observers : d[o] = "guarding" => o = "updater"

Swapping(s) == \E i \in 1..Len(s) : IsMethod(s[i], "swap")
Guard(s, d, updating) ==
    /\ updating <=> (d["updater"] = "guarding" \/ Swapping(s))
    /\ ~(d["updater"] = "guarding" /\ Swapping(s))

Shape(s, d, updating) ==
    /\ UpdatesOpen(s, d) /\ OneUpdateEach(s)
    /\ SwapAlone(s) /\ OneCalculation(s)
    /\ UpdaterGuards(s, d) /\ OnlyUpdaterGuards(d)
    /\ Guard(s, d, updating)

Cells ==
    /\ quote \in [Quotes -> Values \cup {Null}]
    /\ target \in Quotes \cup {Null}
    /\ engine \in Engines \cup {Null}
    /\ expired \in BOOLEAN
    /\ lazy \in [calculated : BOOLEAN, failed : BOOLEAN,
                 frozen : BOOLEAN, updating : BOOLEAN]
    /\ results \in {Null, ZeroPrice} \cup (Engines \X Values)
    /\ done \in [Observers -> {"entered", "returning", "guarding", "unread"}]
    /\ seen \in [Readers -> {Null, ZeroPrice} \cup (Engines \X Values)]
    /\ panicked \in BOOLEAN

IInv == Cells /\ AllAlive /\ Confined(Observers)
        /\ Shape(stack, done, lazy.updating)

-----------------------------------------------------------------------------
(* What a notification on its way still reaches.                            *)

\* An update() of o is still to come, or has just been entered.
DueIn(frames, queue, progress, o) ==
    \/ o \in queue
    \/ \E f \in frames :
          \/ f.kind = "notify" /\ \E e \in f.todo : e.obs = o
          \/ f.kind = "drain" /\ o \in f.batch \cup f.stalled
          \/ IsUpdate(f, o) /\ progress[o] = "entered"
Due(o) == DueIn(Frames, pending, done, o)

\* The updater is owed a notification: by somebody, by its engine, or by the
\* handle its engine observes.
Coming == Due("updater") \/ (engine # Null /\ (Due(engine) \/ Due("forwarder")))

Has(x, o) == \E e \in registry[x] : e.obs = o
Registered ==
    /\ target # Null => Has(target, "forwarder")
    /\ \A n \in Engines : Has("link", n)
    /\ engine # Null => Has(engine, "updater")
    /\ Has("date", "updater")

-----------------------------------------------------------------------------
(* The two ways to keep readers and writers apart.                          *)

Strangers == {c \in Readers : ~Has("instrument", c)}
Unwatched == Confined(Observers \ Readers)
Undisturbed == Confined(Observers \ (Writers \cup Strangers)) /\ ~Unread

\* The price in the making, or the cached one, is that of the present inputs.
Good(f) == IF f.priced THEN f.price = Current ELSE ~expired
Calculating == \E f \in Frames : IsMethod(f, "calculate")
Valued ==
    /\ \A f \in Frames : IsMethod(f, "calculate") => Good(f)
    /\ ~Calculating => results = Current

\* Under the guard the updater hears nothing: then nothing is marked calculated,
\* or the inputs do not move.
GuardedFresh == lazy.updating /\ lazy.calculated => Undisturbed /\ Valued
CachedFresh == lazy.calculated => Valued \/ Coming

FInv == IInv /\ Registered /\ (Unwatched \/ Undisturbed)
        /\ (panicked \/ (GuardedFresh /\ CachedFresh))

-----------------------------------------------------------------------------
(* What the readers of an undisturbed instrument hold.                      *)

Recalculating == \E f \in Frames : IsMethod(f, "recalculate")

\* Nobody but the readers runs in a calculation, and it stays marked.
CalculationOnTop ==
    /\ \A i \in 1..Height : IsMethod(stack[i], "calculate") => i = Height /\ lazy.calculated
    /\ \A i \in 1..Height : IsMethod(stack[i], "recalculate") =>
          i = Height \/ (i = Height - 1 /\ IsMethod(stack[Height], "calculate"))

GuardedThawed == lazy.updating => ~lazy.frozen /\ ~Recalculating

\* A reader that priced the instrument is about to return with what it found.
ReadersRead ==
    \A i \in 1..Height : \A c \in Readers :
        IsUpdate(stack[i], c) /\ done[c] = "returning" =>
            \/ i = Height /\ (lazy.frozen \/ lazy.failed \/ lazy.calculated)
            \/ i = Height - 1 /\ IsMethod(stack[Height], "calculate")

Updating(c) == \E f \in Frames : IsUpdate(f, c)
Told(c) == seen[c] \in {Null, Current} \/ Due(c) \/ Updating(c)
GuardedTold == lazy.updating => \A c \in Readers : Told(c)
ThawedTold ==
    \/ lazy.frozen \/ Recalculating \/ Coming
    \/ \A c \in Readers : Told(c)

Caught == CalculationOnTop /\ GuardedThawed /\ ReadersRead /\ GuardedTold /\ ThawedTold

CInv ==
    /\ FInv
    /\ Undisturbed => ~panicked /\ Caught
    /\ Unwatched => \A c \in Readers : seen[c] = Null
    /\ \A c \in Strangers : seen[c] = Null

-----------------------------------------------------------------------------
(* Stacks.                                                                  *)

\* A call is entered.
LEMMA Pushed ==
    ASSUME NEW F, NEW s \in Seq(F), NEW f \in F
    PROVE  /\ Append(s, f) \in Seq(F)
           /\ Len(Append(s, f)) = Len(s) + 1
           /\ \A i \in 1..Len(s) : Append(s, f)[i] = s[i]
           /\ Append(s, f)[Len(s) + 1] = f
           /\ FramesOf(Append(s, f)) = FramesOf(s) \cup {f}
<1>1. /\ Append(s, f) \in Seq(F)
      /\ Len(Append(s, f)) = Len(s) + 1 /\ Len(s) \in Nat
      /\ \A i \in 1..Len(s) : Append(s, f)[i] = s[i]
      /\ Append(s, f)[Len(s) + 1] = f
  BY AppendProperties, LenProperties
<1>2. FramesOf(Append(s, f)) = FramesOf(s) \cup {f} BY <1>1 DEF FramesOf
<1>. QED BY <1>1, <1>2

LEMMA PushedOne ==
    ASSUME NEW F, NEW s \in Seq(F), NEW f \in F
    PROVE  s \o <<f>> = Append(s, f)
  BY AppendIsConcat

LEMMA PushedTwo ==
    ASSUME NEW F, NEW s \in Seq(F), NEW f \in F, NEW g \in F
    PROVE  s \o <<f, g>> = Append(Append(s, f), g)
<1>1. Append(s, f) = s \o <<f>> /\ Append(s, f) \in Seq(F) BY AppendIsConcat, Pushed
<1>2. Append(Append(s, f), g) = (s \o <<f>>) \o <<g>> BY <1>1, AppendIsConcat
<1>3. <<f>> \in Seq(F) /\ <<g>> \in Seq(F) OBVIOUS
<1>4. (s \o <<f>>) \o <<g>> = s \o (<<f>> \o <<g>>) BY <1>3, ConcatAssociative
<1>5. <<f>> \o <<g>> = <<f, g>>
  <2>1. <<f, g>> \in Seq(F) /\ Len(<<f, g>>) = 2 /\ <<f, g>>[1] = f /\ <<f, g>>[2] = g OBVIOUS
  <2>2. Len(<<f>>) = 1 /\ <<f>>[1] = f /\ Len(<<g>>) = 1 /\ <<g>>[1] = g OBVIOUS
  <2>3. /\ <<f>> \o <<g>> \in Seq(F) /\ Len(<<f>> \o <<g>>) = 2
        /\ (<<f>> \o <<g>>)[1] = f /\ (<<f>> \o <<g>>)[2] = g
    BY <1>3, <2>2, ConcatProperties
  <2>4. \A i \in 1..2 : (<<f>> \o <<g>>)[i] = <<f, g>>[i]
    <3>1. \A i \in 1..2 : i = 1 \/ i = 2 OBVIOUS
    <3>. QED BY <2>1, <2>3, <3>1
  <2>5. Len(<<f>> \o <<g>>) = Len(<<f, g>>)
        /\ \A i \in 1..Len(<<f>> \o <<g>>) : (<<f>> \o <<g>>)[i] = <<f, g>>[i]
    BY <2>1, <2>3, <2>4
  <2>. QED BY ONLY <2>1, <2>3, <2>5, SeqEqual
<1>. QED BY <1>2, <1>4, <1>5

\* A call returns.
LEMMA Popped ==
    ASSUME NEW F, NEW s \in Seq(F), s # <<>>
    PROVE  /\ SubSeq(s, 1, Len(s) - 1) \in Seq(F)
           /\ Len(s) \in Nat \ {0}
           /\ Len(SubSeq(s, 1, Len(s) - 1)) = Len(s) - 1
           /\ \A i \in 1..(Len(s) - 1) : SubSeq(s, 1, Len(s) - 1)[i] = s[i]
           /\ s[Len(s)] \in F
           /\ FramesOf(s) = FramesOf(SubSeq(s, 1, Len(s) - 1)) \cup {s[Len(s)]}
<1>1. Len(s) \in Nat \ {0} BY EmptySeq, LenProperties
<1>2. PICK n : n = Len(s) - 1 OBVIOUS
<1>3. n \in Nat /\ Len(s) = n + 1 /\ \A i \in 1..n : s[i] \in F BY <1>1, <1>2, ElementOfSeq
<1>4. /\ SubSeq(s, 1, n) \in Seq(F)
      /\ Len(SubSeq(s, 1, n)) = IF 1 <= n THEN n - 1 + 1 ELSE 0
      /\ \A i \in 1..(n - 1 + 1) : SubSeq(s, 1, n)[i] = s[1 + i - 1]
  BY <1>3, SubSeqProperties
<1>5. /\ n - 1 + 1 = n /\ (~(1 <= n) => n = 0)
      /\ \A i \in 1..n : 1 + i - 1 = i
  BY <1>3
<1>6. Len(SubSeq(s, 1, n)) = n /\ \A i \in 1..n : SubSeq(s, 1, n)[i] = s[i]
  BY <1>4, <1>5
<1>7. FramesOf(s) = FramesOf(SubSeq(s, 1, n)) \cup {s[Len(s)]}
  BY <1>3, <1>6 DEF FramesOf
<1>8. s[Len(s)] \in F BY <1>1, ElementOfSeq
<1>. QED BY <1>1, <1>2, <1>4, <1>6, <1>7, <1>8

\* The innermost call is replaced.
LEMMA Replaced ==
    ASSUME NEW F, NEW s \in Seq(F), s # <<>>, NEW f \in F
    PROVE  /\ [s EXCEPT ![Len(s)] = f] \in Seq(F)
           /\ Len([s EXCEPT ![Len(s)] = f]) = Len(s)
           /\ \A i \in 1..(Len(s) - 1) : [s EXCEPT ![Len(s)] = f][i] = s[i]
           /\ [s EXCEPT ![Len(s)] = f][Len(s)] = f
           /\ f \in FramesOf([s EXCEPT ![Len(s)] = f])
           /\ \A g \in FramesOf(s) : g # s[Len(s)] => g \in FramesOf([s EXCEPT ![Len(s)] = f])
           /\ FramesOf([s EXCEPT ![Len(s)] = f]) \subseteq FramesOf(s) \cup {f}
<1>1. Len(s) \in Nat \ {0} /\ Len(s) \in 1..Len(s) BY EmptySeq, LenProperties
<1>2. PICK t : t = [s EXCEPT ![Len(s)] = f] OBVIOUS
<1>3. /\ t \in Seq(F)
      /\ Len(t) = Len(s)
      /\ \A i \in 1..Len(s) : t[i] = IF i = Len(s) THEN f ELSE s[i]
  BY <1>1, <1>2, ExceptSeq
<1>4. f \in FramesOf(t) BY <1>1, <1>3 DEF FramesOf
<1>5. \A g \in FramesOf(s) : g # s[Len(s)] => g \in FramesOf(t)
  BY <1>1, <1>3 DEF FramesOf
<1>6. FramesOf(t) \subseteq FramesOf(s) \cup {f}
  BY <1>1, <1>3 DEF FramesOf
<1>7. \A i \in 1..(Len(s) - 1) : t[i] = s[i] BY <1>1, <1>3
<1>. QED BY <1>1, <1>2, <1>3, <1>4, <1>5, <1>6, <1>7

-----------------------------------------------------------------------------
(* What calls and returns do to the shape of the stack.                     *)

\* The updater is not the one to make the next call, but for its round.
Settled(s, d) == s = <<>> \/ ~IsUpdate(s[Len(s)], "updater") \/ d["updater"] = "guarding"
NoMethod(s) == \A i \in 1..Len(s) : s[i].kind # "method"

\* A call goes on.
LEMMA ShapeGoesOn ==
    ASSUME NEW F, NEW s \in Seq(F), s # <<>>, NEW f \in F, NEW d, NEW u, Shape(s, d, u),
           f.kind = s[Len(s)].kind, f.kind # "update",
           f.kind = "method" => f.name = s[Len(s)].name
    PROVE  Shape([s EXCEPT ![Len(s)] = f], d, u)
<1>1. PICK t : t = [s EXCEPT ![Len(s)] = f] OBVIOUS
<1>2. /\ Len(t) = Len(s) /\ Len(s) \in Nat \ {0}
      /\ \A i \in 1..(Len(s) - 1) : t[i] = s[i]
      /\ t[Len(s)] = f
  BY <1>1, Replaced, Popped
<1>3. \A i \in 1..Len(s) : /\ t[i].kind = s[i].kind
                           /\ \A o : IsUpdate(t[i], o) <=> IsUpdate(s[i], o)
                           /\ \A n : IsMethod(t[i], n) <=> IsMethod(s[i], n)
  BY <1>2 DEF IsUpdate, IsMethod
<1>4. UpdatesOpen(t, d) BY <1>2, <1>3 DEF Shape, UpdatesOpen
<1>5. OneUpdateEach(t) BY <1>2, <1>3 DEF Shape, OneUpdateEach
<1>6. SwapAlone(t) BY <1>2, <1>3 DEF Shape, SwapAlone
<1>7. OneCalculation(t) BY <1>2, <1>3 DEF Shape, OneCalculation
<1>8. UpdaterGuards(t, d) BY <1>2, <1>3 DEF Shape, UpdaterGuards
<1>9. Guard(t, d, u) BY <1>2, <1>3 DEF Shape, Guard, Swapping
<1>. QED BY <1>1, <1>4, <1>5, <1>6, <1>7, <1>8, <1>9 DEF Shape

\* A call is entered that is neither an update() nor a swap.
LEMMA ShapeCalls ==
    ASSUME NEW F, NEW s \in Seq(F), NEW f \in F, NEW d, NEW u, Shape(s, d, u), Settled(s, d),
           f.kind # "update", ~IsMethod(f, "swap"),
           f.kind = "method" => ~Swapping(s),
           IsMethod(f, "calculate") => \A i \in 1..Len(s) : ~IsMethod(s[i], "calculate")
    PROVE  Shape(Append(s, f), d, u)
<1>1. PICK t : t = Append(s, f) OBVIOUS
<1>2. /\ Len(t) = Len(s) + 1 /\ Len(s) \in Nat
      /\ \A i \in 1..Len(s) : t[i] = s[i]
      /\ t[Len(s) + 1] = f
  BY <1>1, Pushed, LenProperties
<1>3. UpdatesOpen(t, d) BY <1>2 DEF Shape, UpdatesOpen
<1>4. OneUpdateEach(t) BY <1>2 DEF Shape, OneUpdateEach, IsUpdate
<1>5. SwapAlone(t) BY <1>2 DEF Shape, SwapAlone, IsMethod, Swapping
<1>6. OneCalculation(t) BY <1>2 DEF Shape, OneCalculation, IsMethod
<1>7. UpdaterGuards(t, d) BY <1>2 DEF Shape, UpdaterGuards, Settled, IsUpdate
<1>8. Guard(t, d, u)
  <2>1. Swapping(t) <=> Swapping(s) BY <1>2 DEF Swapping
  <2>. QED BY <2>1 DEF Shape, Guard
<1>. QED BY <1>1, <1>3, <1>4, <1>5, <1>6, <1>7, <1>8 DEF Shape

\* The update() of a free observer is entered.
LEMMA ShapeUpdates ==
    ASSUME NEW F, NEW s \in Seq(F), NEW f \in F, NEW d, NEW u, Shape(s, d, u), Settled(s, d),
           NEW o \in Observers, IsUpdate(f, o), \A i \in 1..Len(s) : ~IsUpdate(s[i], o)
    PROVE  Shape(Append(s, f), d, u)
<1>1. PICK t : t = Append(s, f) OBVIOUS
<1>2. /\ Len(t) = Len(s) + 1 /\ Len(s) \in Nat
      /\ \A i \in 1..Len(s) : t[i] = s[i]
      /\ t[Len(s) + 1] = f
  BY <1>1, Pushed, LenProperties
<1>3. UpdatesOpen(t, d) BY <1>2 DEF Shape, UpdatesOpen
<1>4. OneUpdateEach(t) BY <1>2 DEF Shape, OneUpdateEach, IsUpdate
<1>5. SwapAlone(t) BY <1>2 DEF Shape, SwapAlone, IsMethod, IsUpdate
<1>6. OneCalculation(t) BY <1>2 DEF Shape, OneCalculation, IsMethod, IsUpdate
<1>7. UpdaterGuards(t, d) BY <1>2 DEF Shape, UpdaterGuards, Settled, IsUpdate
<1>8. Guard(t, d, u)
  <2>1. Swapping(t) <=> Swapping(s) BY <1>2 DEF Swapping, IsMethod, IsUpdate
  <2>. QED BY <2>1 DEF Shape, Guard
<1>. QED BY <1>1, <1>3, <1>4, <1>5, <1>6, <1>7, <1>8 DEF Shape

\* A swap sets the guard.
LEMMA ShapeSwaps ==
    ASSUME NEW F, NEW s \in Seq(F), NEW f \in F, NEW d, Shape(s, d, FALSE), Settled(s, d),
           IsMethod(f, "swap"), NoMethod(s)
    PROVE  Shape(Append(s, f), d, TRUE)
<1>1. PICK t : t = Append(s, f) OBVIOUS
<1>2. /\ Len(t) = Len(s) + 1 /\ Len(s) \in Nat
      /\ \A i \in 1..Len(s) : t[i] = s[i]
      /\ t[Len(s) + 1] = f
  BY <1>1, Pushed, LenProperties
<1>3. UpdatesOpen(t, d) BY <1>2 DEF Shape, UpdatesOpen
<1>4. OneUpdateEach(t) BY <1>2 DEF Shape, OneUpdateEach, IsUpdate, IsMethod
<1>5. SwapAlone(t) BY <1>2 DEF Shape, SwapAlone, IsMethod, NoMethod
<1>6. OneCalculation(t) BY <1>2 DEF Shape, OneCalculation, IsMethod
<1>7. UpdaterGuards(t, d) BY <1>2 DEF Shape, UpdaterGuards, Settled, IsUpdate, IsMethod
<1>8. Guard(t, d, TRUE)
  <2>1. Swapping(t) BY <1>2 DEF Swapping
  <2>. QED BY <2>1 DEF Shape, Guard
<1>. QED BY <1>1, <1>3, <1>4, <1>5, <1>6, <1>7, <1>8 DEF Shape

\* A call returns that is neither.
LEMMA ShapeReturns ==
    ASSUME NEW F, NEW s \in Seq(F), s # <<>>, NEW d, NEW u, Shape(s, d, u),
           s[Len(s)].kind # "update", ~IsMethod(s[Len(s)], "swap")
    PROVE  Shape(SubSeq(s, 1, Len(s) - 1), d, u) /\ Settled(SubSeq(s, 1, Len(s) - 1), d)
<1>1. PICK t : t = SubSeq(s, 1, Len(s) - 1) OBVIOUS
<1>2. /\ Len(t) = Len(s) - 1 /\ Len(s) \in Nat \ {0}
      /\ \A i \in 1..(Len(s) - 1) : t[i] = s[i]
      /\ t \in Seq(F)
  BY <1>1, Popped
<1>3. UpdatesOpen(t, d) BY <1>2 DEF Shape, UpdatesOpen, IsUpdate
<1>4. OneUpdateEach(t) BY <1>2 DEF Shape, OneUpdateEach, IsUpdate
<1>5. SwapAlone(t) BY <1>2 DEF Shape, SwapAlone, IsMethod
<1>6. OneCalculation(t) BY <1>2 DEF Shape, OneCalculation, IsMethod
<1>7. \A i \in 1..Len(t) : IsUpdate(t[i], "updater") => d["updater"] = "guarding"
  BY <1>2 DEF Shape, UpdaterGuards, IsUpdate
<1>8. Guard(t, d, u)
  <2>1. Swapping(t) <=> Swapping(s) BY <1>2 DEF Swapping
  <2>. QED BY <2>1 DEF Shape, Guard
<1>9. Settled(t, d)
  <2>1. t = <<>> \/ Len(t) \in 1..Len(t) BY <1>2, EmptySeq
  <2>. QED BY <1>7, <2>1 DEF Settled
<1>. QED BY <1>1, <1>3, <1>4, <1>5, <1>6, <1>7, <1>8, <1>9 DEF Shape, UpdaterGuards

\* A swap drops the guard.
LEMMA ShapeSwapped ==
    ASSUME NEW F, NEW s \in Seq(F), s # <<>>, NEW d, NEW u, Shape(s, d, u),
           IsMethod(s[Len(s)], "swap")
    PROVE  Shape(SubSeq(s, 1, Len(s) - 1), d, FALSE)
<1>1. PICK t : t = SubSeq(s, 1, Len(s) - 1) OBVIOUS
<1>2. /\ Len(t) = Len(s) - 1 /\ Len(s) \in Nat \ {0}
      /\ \A i \in 1..(Len(s) - 1) : t[i] = s[i]
  BY <1>1, Popped
<1>3. UpdatesOpen(t, d) BY <1>2 DEF Shape, UpdatesOpen, IsUpdate, IsMethod
<1>4. OneUpdateEach(t) BY <1>2 DEF Shape, OneUpdateEach, IsUpdate
<1>5. SwapAlone(t) BY <1>2 DEF Shape, SwapAlone, IsMethod
<1>6. OneCalculation(t) BY <1>2 DEF Shape, OneCalculation, IsMethod
<1>7. UpdaterGuards(t, d) BY <1>2 DEF Shape, UpdaterGuards, IsUpdate, IsMethod
<1>8. Guard(t, d, FALSE)
  <2>1. Swapping(s) BY <1>2 DEF Swapping
  <2>2. ~Swapping(t) BY <1>2 DEF Swapping, Shape, SwapAlone, IsMethod
  <2>. QED BY <2>1, <2>2 DEF Shape, Guard
<1>. QED BY <1>1, <1>3, <1>4, <1>5, <1>6, <1>7, <1>8 DEF Shape

\* An update() returns, with the guard if it held it.
LEMMA ShapeUpdated ==
    ASSUME NEW F, NEW s \in Seq(F), s # <<>>, NEW u, NEW o \in Observers,
           NEW D, NEW d \in [Observers -> D], Shape(s, d, u), IsUpdate(s[Len(s)], o)
    PROVE  Shape(SubSeq(s, 1, Len(s) - 1), [d EXCEPT ![o] = "entered"],
                 IF d[o] = "guarding" THEN FALSE ELSE u)
<1>1. PICK t : t = SubSeq(s, 1, Len(s) - 1) OBVIOUS
<1>2. PICK e : e = [d EXCEPT ![o] = "entered"] OBVIOUS
<1>3. /\ Len(t) = Len(s) - 1 /\ Len(s) \in Nat \ {0}
      /\ \A i \in 1..(Len(s) - 1) : t[i] = s[i]
  BY <1>1, Popped
<1>4. \A p \in Observers : e[p] = IF p = o THEN "entered" ELSE d[p] BY <1>2
<1>5. \A i \in 1..Len(t) : ~IsUpdate(t[i], o) BY <1>3 DEF Shape, OneUpdateEach
<1>6. UpdatesOpen(t, e) BY <1>3, <1>4 DEF Shape, UpdatesOpen, IsUpdate
<1>7. OneUpdateEach(t) BY <1>3 DEF Shape, OneUpdateEach
<1>8. SwapAlone(t) BY <1>3 DEF Shape, SwapAlone
<1>9. OneCalculation(t) BY <1>3 DEF Shape, OneCalculation
<1>10. "updater" \in Observers BY DEF Observers
<1>11. UpdaterGuards(t, e)
  BY <1>3, <1>4, <1>5, <1>10 DEF Shape, UpdaterGuards, IsUpdate
<1>12. OnlyUpdaterGuards(e) BY <1>4 DEF Shape, OnlyUpdaterGuards
<1>13. Guard(t, e, IF d[o] = "guarding" THEN FALSE ELSE u)
  <2>1. Swapping(t) <=> Swapping(s) BY <1>3 DEF Swapping, IsMethod, IsUpdate
  <2>2. d[o] = "guarding" => o = "updater" BY DEF Shape, OnlyUpdaterGuards
  <2>3. e["updater"] = "guarding" <=> (d["updater"] = "guarding" /\ o # "updater")
    BY <1>4, <1>10
  <2>4. u <=> (d["updater"] = "guarding" \/ Swapping(s)) BY DEF Shape, Guard
  <2>5. ~(d["updater"] = "guarding" /\ Swapping(s)) BY DEF Shape, Guard
  <2>6. o = "updater" /\ d[o] # "guarding" => d["updater"] # "guarding" OBVIOUS
  <2>. QED BY <2>1, <2>2, <2>3, <2>4, <2>5, <2>6 DEF Guard
<1>. QED BY <1>1, <1>2, <1>6, <1>7, <1>8, <1>9, <1>11, <1>12, <1>13 DEF Shape

\* An update() gets on with its work.
LEMMA ShapeWorks ==
    ASSUME NEW F, NEW s \in Seq(F), s # <<>>, NEW u, NEW o \in Observers,
           NEW D, NEW d \in [Observers -> D], Shape(s, d, u), IsUpdate(s[Len(s)], o),
           d[o] = "entered", NEW v \in {"returning", "unread"}
    PROVE  Shape(s, [d EXCEPT ![o] = v], u)
<1>1. PICK e : e = [d EXCEPT ![o] = v] OBVIOUS
<1>2. \A p \in Observers : e[p] = IF p = o THEN v ELSE d[p] BY <1>1
<1>3. Len(s) \in 1..Len(s) BY Popped
<1>4. "updater" \in Observers BY DEF Observers
<1>5. e["updater"] = "guarding" <=> d["updater"] = "guarding" BY <1>2, <1>4
<1>6. UpdatesOpen(s, e) BY <1>2, <1>3 DEF Shape, UpdatesOpen
<1>7. UpdaterGuards(s, e) BY <1>5 DEF Shape, UpdaterGuards
<1>8. OnlyUpdaterGuards(e) BY <1>2 DEF Shape, OnlyUpdaterGuards
<1>9. Guard(s, e, u) BY <1>5 DEF Shape, Guard
<1>. QED BY <1>1, <1>6, <1>7, <1>8, <1>9 DEF Shape

\* The updater sets the guard and notifies.
LEMMA ShapeGuards ==
    ASSUME NEW F, NEW s \in Seq(F), s # <<>>, NEW D, NEW d \in [Observers -> D],
           Shape(s, d, FALSE), IsUpdate(s[Len(s)], "updater"), NEW f \in F, f.kind = "notify"
    PROVE  Shape(Append(s, f), [d EXCEPT !["updater"] = "guarding"], TRUE)
<1>1. PICK t : t = Append(s, f) OBVIOUS
<1>2. PICK e : e = [d EXCEPT !["updater"] = "guarding"] OBVIOUS
<1>3. /\ Len(t) = Len(s) + 1 /\ Len(s) \in Nat \ {0}
      /\ \A i \in 1..Len(s) : t[i] = s[i]
      /\ t[Len(s) + 1] = f
  BY <1>1, Pushed, Popped
<1>4. "updater" \in Observers BY DEF Observers
<1>5. \A p \in Observers : e[p] = IF p = "updater" THEN "guarding" ELSE d[p] BY <1>2
<1>6. UpdatesOpen(t, e)
  <2>1. Len(s) \in 1..Len(t) /\ IsUpdate(t[Len(s)], "updater") BY <1>3
  <2>2. ASSUME NEW p \in Observers, e[p] # "entered", p # "updater"
        PROVE \E i \in 1..Len(t) : IsUpdate(t[i], p)
    <3>1. PICK i \in 1..Len(s) : IsUpdate(s[i], p) BY <1>5, <2>2 DEF Shape, UpdatesOpen
    <3>. QED BY <1>3, <3>1
  <2>. QED BY <2>1, <2>2 DEF UpdatesOpen
<1>7. OneUpdateEach(t) BY <1>3 DEF Shape, OneUpdateEach, IsUpdate
<1>8. SwapAlone(t) BY <1>3 DEF Shape, SwapAlone, IsMethod
<1>9. OneCalculation(t) BY <1>3 DEF Shape, OneCalculation, IsMethod
<1>10. UpdaterGuards(t, e) BY <1>4, <1>5 DEF UpdaterGuards
<1>11. OnlyUpdaterGuards(e) BY <1>5 DEF Shape, OnlyUpdaterGuards
<1>12. Guard(t, e, TRUE)
  <2>1. Swapping(t) <=> Swapping(s) BY <1>3 DEF Swapping, IsMethod
  <2>2. ~Swapping(s) BY DEF Shape, Guard
  <2>. QED BY <1>4, <1>5, <2>1, <2>2 DEF Guard
<1>. QED BY <1>1, <1>2, <1>6, <1>7, <1>8, <1>9, <1>10, <1>11, <1>12 DEF Shape

\* Nothing runs.
LEMMA ShapeEmpty == ASSUME NEW d, \A o \in Observers : d[o] = "entered" PROVE Shape(<<>>, d, FALSE)
<1>1. "updater" \in Observers BY DEF Observers
<1>2. Len(<<>>) = 0 /\ 1..0 = {} OBVIOUS
<1>. QED
  BY <1>1, <1>2 DEF Shape, UpdatesOpen, OneUpdateEach, SwapAlone, OneCalculation,
     UpdaterGuards, OnlyUpdaterGuards, Guard, Swapping

-----------------------------------------------------------------------------
(* What the steps of the engine do, among observers S.                      *)

Scope(S) == S \subseteq Observers /\ {"forwarder", "updater"} \subseteq S /\ Confined(S) /\ AllAlive

\* The innermost call.
LEMMA TopFrame ==
    ASSUME NEW S, Confined(S), stack # <<>>
    PROVE  /\ E!Top \in FrameOf(S) /\ E!Top \in Frames /\ E!Top = stack[Height]
           /\ E!Top.kind = "notify" => E!Top \in [kind : {"notify"}, todo : SUBSET EntryOf(S)]
           /\ E!Top.kind = "drain" =>
                 E!Top \in [kind : {"drain"}, batch : SUBSET S, stalled : SUBSET S]
           /\ E!Top.kind = "update" => E!Top.obs \in S
           /\ E!Top.kind = "method" => E!Top \in MethodFrame
           /\ Height \in Nat \ {0}
           /\ E!Below \in Seq(FrameOf(S)) /\ Len(E!Below) = Height - 1
           /\ \A i \in 1..(Height - 1) : E!Below[i] = stack[i]
           /\ Frames = FramesOf(E!Below) \cup {E!Top}
<1>1. stack \in Seq(FrameOf(S)) BY DEF Confined
<1>2. /\ E!Below \in Seq(FrameOf(S)) /\ Height \in Nat \ {0}
      /\ Len(E!Below) = Height - 1
      /\ \A i \in 1..(Height - 1) : E!Below[i] = stack[i]
      /\ E!Top \in FrameOf(S)
      /\ Frames = FramesOf(E!Below) \cup {E!Top}
  BY <1>1, Popped DEF E!Below, E!Top, Height, Frames
<1>3. E!Top = stack[Height] BY DEF E!Top, Height
<1>. QED BY <1>2, <1>3 DEF FrameOf, MethodFrame

\* A borrow is an update() under way.
LEMMA BusyIs ==
    ASSUME NEW S, Scope(S)
    PROVE  /\ \A o : o \in E!Busy <=> \E i \in 1..Height : IsUpdate(stack[i], o)
           /\ ~Borrowed => NoMethod(stack)
<1>1. DOMAIN stack = 1..Height BY LenProperties DEF Scope, Confined, Height
<1>. QED BY <1>1
     DEF E!Busy, E!Updating, E!At, IsUpdate, Borrowed, NoMethod, Scope, AllAlive, Height

\* Nothing is ever pruned.
LEMMA NobodyPruned ==
    ASSUME NEW S, Scope(S), NEW x \in Observables
    PROVE  E!Live(registry[x]) = registry[x] /\ registry[x] \in SUBSET EntryOf(S)
<1>1. registry[x] \subseteq EntryOf(S) BY DEF Scope, Confined
<1>2. \A e \in registry[x] : e.obs \in E!Alive
  BY <1>1 DEF EntryOf, E!Entry, E!Alive, Scope, AllAlive
<1>. QED BY <1>1, <1>2 DEF E!Live

LEMMA RoundIs ==
    ASSUME NEW S, Scope(S), NEW x \in Observables
    PROVE  /\ E!Round(x) \in FrameOf(S)
           /\ E!Round(x).kind = "notify" /\ E!Round(x).todo = registry[x]
  BY NobodyPruned DEF E!Round, FrameOf

LEMMA NotifyIs ==
    ASSUME NEW S, Scope(S), NEW x \in Observables, E!NotifyObservers(x)
    PROVE  /\ registry' = registry /\ pending' = pending
           /\ stack' = Append(stack, E!Round(x))
           /\ Scope(S)'
<1>1. registry' = registry BY NobodyPruned DEF E!NotifyObservers, Scope, Confined
<1>2. stack' = Append(stack, E!Round(x)) /\ pending' = pending /\ AllAlive'
  BY DEF E!NotifyObservers, Scope, AllAlive
<1>3. stack' \in Seq(FrameOf(S)) BY <1>2, RoundIs, Pushed DEF Scope, Confined
<1>. QED BY <1>1, <1>2, <1>3 DEF Scope, Confined

LEMMA EntersIs ==
    ASSUME NEW S, Scope(S), NEW x \in Observables
    PROVE  /\ Enters(<<E!Round(x)>>) =>
                 /\ stack' = Append(stack, E!Round(x)) /\ stack' \in Seq(FrameOf(S))
                 /\ pending' = pending /\ AllAlive'
           /\ \A name \in {"notify", "swap"} : Enters(<<Method(name), E!Round(x)>>) =>
                 /\ stack' = Append(Append(stack, Method(name)), E!Round(x))
                 /\ stack' \in Seq(FrameOf(S))
                 /\ pending' = pending /\ AllAlive'
<1>1. stack \in Seq(FrameOf(S)) /\ AllAlive BY DEF Scope, Confined
<1>2. ASSUME Enters(<<E!Round(x)>>)
      PROVE  /\ stack' = Append(stack, E!Round(x)) /\ stack' \in Seq(FrameOf(S))
             /\ pending' = pending /\ AllAlive'
  BY <1>1, <1>2, RoundIs, PushedOne, Pushed DEF Enters, AllAlive
<1>3. ASSUME NEW name \in {"notify", "swap"}, Enters(<<Method(name), E!Round(x)>>)
      PROVE  /\ stack' = Append(Append(stack, Method(name)), E!Round(x))
             /\ stack' \in Seq(FrameOf(S))
             /\ pending' = pending /\ AllAlive'
  <2>1. Method(name) \in FrameOf(S) BY DEF Method, FrameOf, MethodFrame
  <2>2. stack' = Append(Append(stack, Method(name)), E!Round(x))
    BY <1>1, <1>3, <2>1, RoundIs, PushedTwo DEF Enters
  <2>3. stack' \in Seq(FrameOf(S)) BY <1>1, <2>1, <2>2, RoundIs, Pushed
  <2>. QED BY <1>1, <1>3, <2>2, <2>3 DEF Enters, AllAlive
<1>. QED BY <1>2, <1>3

\* One turn of a round: the entry is ticked off, its observer entered or passed over.
LEMMA VisitIs ==
    ASSUME NEW S, Scope(S), NEW e, E!RoundVisits(e)
    PROVE  /\ Scope(S)' /\ registry' = registry
           /\ stack # <<>> /\ E!Top.kind = "notify" /\ e \in E!Top.todo
           /\ e \in EntryOf(S)
           /\ \E f \in FrameOf(S) : \E t \in Seq(FrameOf(S)) :
                 /\ f.kind = "notify" /\ f.todo = E!Top.todo \ {e}
                 /\ t = [stack EXCEPT ![Height] = f]
                 /\ \/ /\ e.obs \notin E!Busy
                       /\ stack' = Append(t, E!Update(e.obs))
                       /\ pending' = pending
                    \/ /\ e.obs \in E!Busy
                       /\ stack' = t
                       /\ pending' = IF e.defer THEN pending \cup {e.obs} ELSE pending
<1>1. /\ stack # <<>> /\ E!Top.kind = "notify"
      /\ e \in E!Top.todo /\ AllAlive' /\ registry' = registry
  BY DEF E!RoundVisits, E!TopIs, Scope, AllAlive
<1>2. E!Top \in [kind : {"notify"}, todo : SUBSET EntryOf(S)] BY <1>1, TopFrame DEF Scope
<1>3. e \in EntryOf(S) /\ e.obs \in S BY <1>1, <1>2 DEF EntryOf
<1>4. PICK f : f = [E!Top EXCEPT !.todo = @ \ {e}] OBVIOUS
<1>5. f \in FrameOf(S) /\ f.kind = "notify" /\ f.todo = E!Top.todo \ {e}
  BY <1>2, <1>4 DEF FrameOf
<1>6. PICK t : t = [stack EXCEPT ![Height] = f] OBVIOUS
<1>7. t \in Seq(FrameOf(S)) BY <1>1, <1>5, <1>6, Replaced DEF Scope, Confined, Height
<1>8. t = [stack EXCEPT ![Len(stack)].todo = @ \ {e}] BY <1>4, <1>6 DEF E!Top, Height
<1>9. E!Update(e.obs) \in FrameOf(S) BY <1>3 DEF E!Update, FrameOf
<1>10. Append(t, E!Update(e.obs)) \in Seq(FrameOf(S)) BY <1>7, <1>9, Pushed
<1>11. \/ /\ e.obs \notin E!Busy
          /\ stack' = Append(t, E!Update(e.obs))
          /\ pending' = pending
       \/ /\ e.obs \in E!Busy
          /\ stack' = t
          /\ pending' = IF e.defer THEN pending \cup {e.obs} ELSE pending
  BY <1>8 DEF E!RoundVisits
<1>12. Scope(S)' BY <1>1, <1>3, <1>7, <1>10, <1>11 DEF Scope, Confined
<1>. QED BY <1>1, <1>3, <1>5, <1>6, <1>7, <1>11, <1>12

\* The outermost round hands over to the drain.
Drain == [kind |-> "drain", batch |-> {}, stalled |-> {}]

LEMMA RoundEndsIs ==
    ASSUME NEW S, Scope(S), E!RoundEnds
    PROVE  /\ Scope(S)' /\ registry' = registry /\ pending' = pending
           /\ stack # <<>> /\ E!Top.kind = "notify" /\ E!Top.todo = {}
           /\ Drain \in FrameOf(S)
           /\ stack' = E!Below \/ stack' = Append(E!Below, Drain)
<1>1. /\ stack # <<>> /\ E!Top.kind = "notify" /\ E!Top.todo = {}
      /\ AllAlive' /\ registry' = registry /\ pending' = pending
      /\ stack' = E!Below \/ stack' = Append(E!Below, Drain)
  BY DEF E!RoundEnds, E!TopIs, Scope, AllAlive, Drain
<1>2. Drain \in FrameOf(S) BY DEF Drain, FrameOf
<1>3. PICK b : b = E!Below OBVIOUS
<1>4. b \in Seq(FrameOf(S)) BY <1>1, <1>3, TopFrame DEF Scope
<1>5. Append(b, Drain) \in Seq(FrameOf(S)) BY <1>2, <1>4, Pushed
<1>6. Scope(S)' BY <1>1, <1>3, <1>4, <1>5 DEF Scope, Confined
<1>. QED BY <1>1, <1>2, <1>6

LEMMA DrainTakesIs ==
    ASSUME NEW S, Scope(S), E!DrainTakes
    PROVE  /\ Scope(S)' /\ registry' = registry
           /\ stack # <<>> /\ E!Top.kind = "drain" /\ E!Top.batch = {}
           /\ \E f \in FrameOf(S) :
                 /\ f.kind = "drain" /\ f.batch = pending /\ f.stalled = E!Top.stalled
                 /\ stack' = [stack EXCEPT ![Height] = f]
<1>1. /\ stack # <<>> /\ E!Top.kind = "drain" /\ E!Top.batch = {}
      /\ AllAlive' /\ registry' = registry /\ pending' = {}
  BY DEF E!DrainTakes, E!TopIs, Scope, AllAlive
<1>2. E!Top \in [kind : {"drain"}, batch : SUBSET S, stalled : SUBSET S]
  BY <1>1, TopFrame DEF Scope
<1>3. PICK f : f = [E!Top EXCEPT !.batch = pending] OBVIOUS
<1>4. f \in FrameOf(S) /\ f.kind = "drain" /\ f.batch = pending /\ f.stalled = E!Top.stalled
  BY <1>2, <1>3 DEF FrameOf, Scope, Confined
<1>5. stack' = [stack EXCEPT ![Height] = f] BY <1>3 DEF E!DrainTakes, E!Top, Height
<1>6. stack' \in Seq(FrameOf(S)) BY <1>1, <1>4, <1>5, Replaced DEF Scope, Confined, Height
<1>7. Scope(S)' BY <1>1, <1>6 DEF Scope, Confined
<1>. QED BY <1>1, <1>4, <1>5, <1>7

\* One observer of the batch: served, or still borrowed.
LEMMA DrainVisitsIs ==
    ASSUME NEW S, Scope(S), NEW o \in Observers, E!DrainVisits(o)
    PROVE  /\ Scope(S)' /\ registry' = registry /\ pending' = pending
           /\ stack # <<>> /\ E!Top.kind = "drain" /\ o \in E!Top.batch /\ o \in S
           /\ \E f \in FrameOf(S) : \E t \in Seq(FrameOf(S)) :
                 /\ f.kind = "drain" /\ f.batch = E!Top.batch \ {o}
                 /\ t = [stack EXCEPT ![Height] = f]
                 /\ \/ /\ o \notin E!Busy
                       /\ f.stalled = E!Top.stalled
                       /\ stack' = Append(t, E!Update(o))
                    \/ /\ o \in E!Busy
                       /\ f.stalled = E!Top.stalled \cup {o}
                       /\ stack' = t
<1>1. /\ stack # <<>> /\ E!Top.kind = "drain" /\ o \in E!Top.batch
      /\ AllAlive' /\ registry' = registry /\ pending' = pending
      /\ o \in E!Alive
  BY DEF E!DrainVisits, E!TopIs, Scope, AllAlive, E!Alive
<1>2. E!Top \in [kind : {"drain"}, batch : SUBSET S, stalled : SUBSET S]
  BY <1>1, TopFrame DEF Scope
<1>3. o \in S BY <1>1, <1>2
<1>4. PICK f : f = [E!Top EXCEPT !.batch = @ \ {o}] OBVIOUS
<1>5. PICK g : g = [f EXCEPT !.stalled = @ \cup {o}] OBVIOUS
<1>6. /\ f \in [kind : {"drain"}, batch : SUBSET S, stalled : SUBSET S]
      /\ f.kind = "drain" /\ f.batch = E!Top.batch \ {o} /\ f.stalled = E!Top.stalled
  BY <1>2, <1>4
<1>7. /\ g \in [kind : {"drain"}, batch : SUBSET S, stalled : SUBSET S]
      /\ g.kind = "drain" /\ g.batch = E!Top.batch \ {o} /\ g.stalled = E!Top.stalled \cup {o}
  BY <1>3, <1>5, <1>6
<1>8. f \in FrameOf(S) /\ g \in FrameOf(S) BY <1>6, <1>7 DEF FrameOf
<1>9. PICK t : t = [stack EXCEPT ![Height] = f] OBVIOUS
<1>10. PICK u : u = [stack EXCEPT ![Height] = g] OBVIOUS
<1>11. t \in Seq(FrameOf(S)) /\ u \in Seq(FrameOf(S))
  BY <1>1, <1>8, <1>9, <1>10, Replaced DEF Scope, Confined, Height
<1>12. t = [stack EXCEPT ![Len(stack)].batch = @ \ {o}] BY <1>4, <1>9 DEF E!Top, Height
<1>13. u = [t EXCEPT ![Len(stack)].stalled = @ \cup {o}]
  <2>1. Len(stack) \in DOMAIN stack BY <1>1, EmptySeq, LenProperties DEF Scope, Confined
  <2>. QED BY <1>5, <1>9, <1>10, <2>1 DEF Height
<1>14. E!Update(o) \in FrameOf(S) BY <1>3 DEF E!Update, FrameOf
<1>15. Append(t, E!Update(o)) \in Seq(FrameOf(S)) BY <1>11, <1>14, Pushed
<1>16. \/ o \notin E!Busy /\ stack' = Append(t, E!Update(o))
       \/ o \in E!Busy /\ stack' = u
  BY <1>1, <1>12, <1>13 DEF E!DrainVisits
<1>17. Scope(S)' BY <1>1, <1>11, <1>15, <1>16 DEF Scope, Confined
<1>. QED BY <1>1, <1>3, <1>6, <1>7, <1>8, <1>9, <1>10, <1>11, <1>16, <1>17

LEMMA DrainEndsIs ==
    ASSUME NEW S, Scope(S), E!DrainEnds
    PROVE  /\ Scope(S)' /\ registry' = registry
           /\ stack # <<>> /\ E!Top.kind = "drain" /\ E!Top.batch = {} /\ pending = {}
           /\ pending' = E!Top.stalled /\ stack' = E!Below
<1>1. /\ stack # <<>> /\ E!Top.kind = "drain" /\ E!Top.batch = {} /\ pending = {}
      /\ AllAlive' /\ registry' = registry /\ pending' = E!Top.stalled /\ stack' = E!Below
  BY DEF E!DrainEnds, E!TopIs, Scope, AllAlive
<1>2. /\ E!Top \in [kind : {"drain"}, batch : SUBSET S, stalled : SUBSET S]
      /\ E!Below \in Seq(FrameOf(S))
  BY <1>1, TopFrame DEF Scope
<1>. QED BY <1>1, <1>2 DEF Scope, Confined

\* A registration moves.
LEMMA RepointIs ==
    ASSUME NEW S, Scope(S), NEW o \in {"forwarder", "updater"},
           NEW old \in Observables \cup {Null}, NEW new \in Observables \cup {Null},
           registry' = Repoint(old, new, o)
    PROVE  /\ registry' \in [Observables -> SUBSET EntryOf(S)]
           /\ \A x \in Observables : \A p : p # o => (Has(x, p) <=> Has(x, p)')
           /\ \A x \in Observables : x # old /\ Has(x, o) => Has(x, o)'
           /\ \A x \in Observables : x # old /\ x # new => registry'[x] = registry[x]
           /\ new # Null => Has(new, o)'
<1>1. registry \in [Observables -> SUBSET EntryOf(S)] /\ o \in S /\ o \in Observers
  BY DEF Scope, Confined
<1>2. \A x \in Observables : \A r \in SUBSET registry[x] : E!Live(r) = r
  BY NobodyPruned DEF E!Live
<1>3. PICK gone : gone = IF old = Null THEN registry
                         ELSE [registry EXCEPT ![old] = E!Without(@, o)]
  OBVIOUS
<1>4. \A x \in Observables : E!Without(registry[x], o) = {e \in registry[x] : e.obs # o}
  BY NobodyPruned DEF E!Without
<1>5. /\ gone \in [Observables -> SUBSET EntryOf(S)]
      /\ \A x \in Observables :
            gone[x] = IF x = old /\ old # Null THEN {e \in registry[x] : e.obs # o} ELSE registry[x]
  BY <1>1, <1>3, <1>4
<1>6. E!NewEntry(o) \in EntryOf(S) /\ E!NewEntry(o).obs = o
  <2>1. DeferReentrant[o] \in BOOLEAN BY <1>1 DEF DeferReentrant
  <2>. QED BY <1>1, <2>1 DEF E!NewEntry, EntryOf, E!Entry
<1>7. \A x \in Observables : E!With(gone[x], o) =
          IF \E e \in gone[x] : e.obs = o THEN gone[x] ELSE gone[x] \cup {E!NewEntry(o)}
  BY <1>2, <1>5 DEF E!With
<1>8. registry' = IF new = Null THEN gone ELSE [gone EXCEPT ![new] = E!With(@, o)]
  BY <1>3 DEF Repoint
<1>9. /\ registry' \in [Observables -> SUBSET EntryOf(S)]
      /\ \A x \in Observables :
            registry'[x] = IF x = new /\ new # Null THEN E!With(gone[x], o) ELSE gone[x]
  BY <1>5, <1>6, <1>7, <1>8
<1>10. \A x \in Observables : \A p : p # o => (Has(x, p) <=> Has(x, p)')
  BY <1>5, <1>6, <1>7, <1>9 DEF Has
<1>11. \A x \in Observables : x # old /\ Has(x, o) => Has(x, o)'
  BY <1>5, <1>6, <1>7, <1>9 DEF Has
<1>12. new # Null => Has(new, o)'
  BY <1>5, <1>6, <1>7, <1>9 DEF Has
<1>. QED BY <1>5, <1>9, <1>10, <1>11, <1>12

-----------------------------------------------------------------------------
(* Only S is ever notified.                                                 *)

LEMMA Names ==
    /\ {"forwarder", "updater"} \cup Engines \cup Forwarders \cup Readers \cup Writers = Observers
    /\ {"link", "date", "instrument"} \cup Quotes \cup Engines \cup Forwarders = Observables
  BY DEF Observers, Clients, Observables

LEMMA FramesThere ==
    ASSUME NEW S
    PROVE  /\ Calculation \in FrameOf(S) /\ IsMethod(Calculation, "calculate")
           /\ \A name \in {"notify", "swap"} :
                 Method(name) \in FrameOf(S) /\ IsMethod(Method(name), name)
           /\ \A b \in BOOLEAN :
                 Recalculation(b) \in FrameOf(S) /\ IsMethod(Recalculation(b), "recalculate")
  BY DEF Calculation, Method, Recalculation, FrameOf, MethodFrame, IsMethod

\* A calculation is on its way or not.
LEMMA CalculateIs ==
    ASSUME NEW S, NEW s \in Seq(FrameOf(S)), NEW l, Calculate(l, s)
    PROVE  stack' \in Seq(FrameOf(S)) /\ stack' \in {s, Append(s, Calculation)}
<1>1. stack' \in {s, Append(s, Calculation)} BY DEF Calculate
<1>. QED BY <1>1, Pushed, FramesThere

\* perform_calculations has its price.
LEMMA ReadIs ==
    ASSUME NEW S, Scope(S), Cells, EngineReads
    PROVE  /\ stack # <<>> /\ IsMethod(E!Top, "calculate") /\ ~E!Top.priced
           /\ \E f \in FrameOf(S) :
                 /\ IsMethod(f, "calculate") /\ f.priced /\ f.price = Price
                 /\ stack' = [stack EXCEPT ![Height] = f]
<1>1. stack # <<>> /\ IsMethod(E!Top, "calculate") /\ ~E!Top.priced
  BY DEF EngineReads, InMethod, E!TopIs, IsMethod
<1>2. E!Top \in [kind : {"method"}, name : {"calculate"}, priced : BOOLEAN,
                 price : {Null} \cup (Engines \X Values)]
  BY <1>1, TopFrame DEF Scope, MethodFrame, IsMethod
<1>3. PICK f : f = [E!Top EXCEPT !.priced = TRUE, !.price = Price] OBVIOUS
<1>4. Price \in {Null} \cup (Engines \X Values) BY DEF Price, Cells
<1>5. /\ f \in FrameOf(S) /\ IsMethod(f, "calculate") /\ f.priced /\ f.price = Price
  BY <1>2, <1>3, <1>4 DEF FrameOf, MethodFrame, IsMethod
<1>6. Len(stack) \in DOMAIN stack BY <1>1, EmptySeq, LenProperties DEF Scope, Confined
<1>7. stack' = [stack EXCEPT ![Height] = f] BY <1>3, <1>6 DEF EngineReads, E!Top, Height
<1>. QED BY <1>1, <1>5, <1>7

\* A method ends and a round begins.
LEMMA RecalculationEndsIs ==
    ASSUME NEW S, Scope(S), RecalculationEnds
    PROVE  /\ stack # <<>> /\ IsMethod(E!Top, "recalculate")
           /\ stack' = Append(Append(E!Below, Method("notify")), E!Round("instrument"))
           /\ stack' \in Seq(FrameOf(S))
<1>1. stack # <<>> /\ IsMethod(E!Top, "recalculate")
  BY DEF RecalculationEnds, InMethod, E!TopIs, IsMethod
<1>2. PICK b : b = E!Below OBVIOUS
<1>3. b \in Seq(FrameOf(S)) BY <1>1, <1>2, TopFrame DEF Scope
<1>4. Method("notify") \in FrameOf(S) BY FramesThere
<1>5. E!Round("instrument") \in FrameOf(S) BY RoundIs, Names
<1>6. stack' = Append(Append(b, Method("notify")), E!Round("instrument"))
  BY <1>2, <1>3, <1>4, <1>5, PushedTwo DEF RecalculationEnds
<1>7. stack' \in Seq(FrameOf(S)) BY <1>3, <1>4, <1>5, <1>6, Pushed
<1>. QED BY <1>1, <1>2, <1>6, <1>7

LEMMA SetValueIs ==
    ASSUME NEW S, Scope(S), NEW q \in Quotes, NEW v, SetValue(q, v)
    PROVE  E!NotifyObservers(q) /\ q \in Observables /\ Scope(S)'
<1>1. E!NotifyObservers(q) /\ q \in Observables BY Names DEF SetValue
<1>. QED BY <1>1, NotifyIs

LEMMA ScopeKept ==
    ASSUME NEW S, Scope(S), Cells, [Next]_vars
    PROVE  Scope(S)'
<1>. USE DEF Scope, Confined, AllAlive
<1>1. ASSUME NEW q \in Quotes, NEW v \in Values \cup {Null}, SetValue(q, v) PROVE Scope(S)'
  BY <1>1, SetValueIs
<1>2. ASSUME NEW q \in Quotes \cup {Null}, LinkTo(q) PROVE Scope(S)'
  <2>1. registry' \in [Observables -> SUBSET EntryOf(S)]
    BY <1>2, RepointIs, Names DEF LinkTo, Cells
  <2>2. stack' \in Seq(FrameOf(S)) /\ pending' = pending /\ AllAlive'
    BY <1>2, EntersIs, Names DEF LinkTo
  <2>. QED BY <2>1, <2>2
<1>3. ASSUME NEW e \in Engines \cup {Null}, SwapEngine(e) PROVE Scope(S)'
  <2>1. registry' \in [Observables -> SUBSET EntryOf(S)]
    BY <1>3, RepointIs, Names DEF SwapEngine, Cells
  <2>2. StaysOut \/ Enters(<<Method("swap"), E!Round("instrument")>>) BY <1>3 DEF SwapEngine
  <2>3. stack' \in Seq(FrameOf(S)) /\ pending' = pending /\ AllAlive'
    BY <2>2, EntersIs, Names DEF StaysOut
  <2>. QED BY <2>1, <2>3
<1>4. ASSUME NEW e \in Engines, SwapEngineSilently(e) PROVE Scope(S)'
  <2>1. registry' \in [Observables -> SUBSET EntryOf(S)]
    BY <1>4, RepointIs, Names DEF SwapEngineSilently, Cells
  <2>. QED BY <1>4, <2>1 DEF SwapEngineSilently, StaysOut
<1>5. ASSUME SetEvaluationDate PROVE Scope(S)'
  BY <1>5, NotifyIs, Names DEF SetEvaluationDate
<1>6. ASSUME Freeze PROVE Scope(S)' BY <1>6 DEF Freeze, engineVars
<1>7. ASSUME Unfreeze PROVE Scope(S)'
  <2>1. Enters(<<Method("notify"), E!Round("instrument")>>) /\ registry' = registry
    BY <1>7 DEF Unfreeze
  <2>. QED BY <2>1, EntersIs, Names
<1>8. ASSUME Npv PROVE Scope(S)'
  BY <1>8, CalculateIs DEF Npv, OnlyCalculates
<1>9. ASSUME Recalculate PROVE Scope(S)'
  <2>1. Append(stack, Recalculation(lazy.frozen)) \in Seq(FrameOf(S))
    BY Pushed, FramesThere DEF Cells
  <2>2. stack' \in Seq(FrameOf(S)) BY <1>9, <2>1, CalculateIs DEF Recalculate
  <2>. QED BY <1>9, <2>2 DEF Recalculate, OnlyCalculates
<1>10. ASSUME NEW q \in Quotes, NEW v \in Values, EngineWrites(q, v) PROVE Scope(S)'
  BY <1>10, SetValueIs DEF EngineWrites
<1>11. ASSUME Panics PROVE Scope(S)'
  BY <1>11 DEF Panics, E!Unwind
<1>12. ASSUME NEW o \in Observers, NEW x \in Observables, Forwards(o, x) PROVE Scope(S)'
  BY <1>12, NotifyIs DEF Forwards
<1>13. ASSUME LazyUpdate PROVE Scope(S)'
  <2>1. UNCHANGED engineVars \/ E!NotifyObservers("instrument") BY <1>13 DEF LazyUpdate
  <2>. QED BY <2>1, NotifyIs, Names DEF engineVars
<1>14. ASSUME NEW c \in Readers, ReaderUpdate(c) PROVE Scope(S)'
  <2>1. UNCHANGED stack \/ Calculate(lazy, stack) BY <1>14 DEF ReaderUpdate
  <2>. QED BY <1>14, <2>1, CalculateIs DEF ReaderUpdate, OnlyCalculates
<1>15. ASSUME NEW o \in Observers, Returns(o) PROVE Scope(S)'
  <2>1. E!UpdateReturns /\ stack # <<>> BY <1>15 DEF Returns, E!UpdateReturns, E!TopIs
  <2>. QED BY <2>1, TopFrame DEF E!UpdateReturns
<1>16. ASSUME EngineReads PROVE Scope(S)'
  <2>1. stack' \in Seq(FrameOf(S)) BY <1>16, ReadIs, Replaced DEF Height
  <2>. QED BY <1>16, <2>1 DEF EngineReads, OnlyCalculates
<1>17. ASSUME CalculationEnds PROVE Scope(S)'
  <2>1. stack' = E!Below /\ stack # <<>> BY <1>17 DEF CalculationEnds, InMethod, E!TopIs
  <2>. QED BY <1>17, <2>1, TopFrame DEF CalculationEnds, OnlyCalculates
<1>18. ASSUME RecalculationEnds PROVE Scope(S)'
  BY <1>18, RecalculationEndsIs DEF RecalculationEnds
<1>19. ASSUME MethodReturns PROVE Scope(S)'
  <2>1. stack' = E!Below /\ stack # <<>> BY <1>19 DEF MethodReturns, InMethod, E!TopIs
  <2>. QED BY <1>19, <2>1, TopFrame DEF MethodReturns, OnlyCalculates
<1>20. ASSUME NotificationStep PROVE Scope(S)'
  <2>1. ASSUME NEW o \in Observers, NEW d \in BOOLEAN, E!RoundVisits([obs |-> o, defer |-> d])
        PROVE Scope(S)'
    BY <2>1, VisitIs
  <2>2. ASSUME NEW o \in Observers, E!DrainVisits(o) PROVE Scope(S)'
    BY <2>2, DrainVisitsIs
  <2>. QED BY <1>20, <2>1, <2>2, RoundEndsIs, DrainTakesIs, DrainEndsIs DEF NotificationStep
<1>21. ASSUME UNCHANGED vars PROVE Scope(S)' BY <1>21 DEF vars, engineVars
<1>22. CASE UserStep
  BY <1>1, <1>2, <1>3, <1>4, <1>5, <1>6, <1>7, <1>8, <1>9, <1>10, <1>11, <1>22
  DEF UserStep, InputStep
<1>23. CASE BodyStep
  BY <1>12, <1>13, <1>14, <1>15, <1>16, <1>17, <1>18, <1>19, <1>23, Names DEF BodyStep
<1>. QED BY <1>20, <1>21, <1>22, <1>23 DEF Next, ProgramStep

-----------------------------------------------------------------------------
(* Cells and the shape of the stack.                                        *)

LEMMA InvScope == IInv => Scope(Observers) /\ Shape(stack, done, lazy.updating) /\ Cells
  BY Names DEF IInv, Scope

\* The steps of the engine leave everything else alone.
LEMMA StackTyped == IInv => stack \in Seq(FrameOf(Observers)) /\ Height \in Nat
  BY LenProperties DEF IInv, Confined, Height

\* Who makes the next call.
LEMMA Callers ==
    ASSUME IInv
    PROVE  /\ InUserCode => Settled(stack, done)
           /\ \A o \in Observers \ {"updater"} : InUpdate(o) => Settled(stack, done)
           /\ stack # <<>> /\ E!Top.kind # "update" => Settled(stack, done)
           /\ \A o : InUpdate(o) => stack # <<>> /\ IsUpdate(stack[Height], o)
           /\ \A n : InMethod(n) => stack # <<>> /\ IsMethod(stack[Height], n)
<1>1. \A o : InUpdate(o) => stack # <<>> /\ IsUpdate(stack[Height], o)
  BY DEF InUpdate, E!TopIs, E!Top, IsUpdate, Height
<1>2. \A n : InMethod(n) => stack # <<>> /\ IsMethod(stack[Height], n)
  BY DEF InMethod, E!TopIs, E!Top, IsMethod, Height
<1>3. \A o \in Observers \ {"updater"} : InUpdate(o) => Settled(stack, done)
  BY <1>1 DEF Settled, IsUpdate, Height
<1>4. Writers \subseteq Observers \ {"updater"}
  BY Names, ObserversAssumption DEF Clients
<1>5. InUserCode => Settled(stack, done) BY <1>3, <1>4 DEF InUserCode, Settled
<1>6. stack # <<>> /\ E!Top.kind # "update" => Settled(stack, done)
  BY DEF Settled, IsUpdate, E!Top
<1>. QED BY <1>1, <1>2, <1>3, <1>5, <1>6

LEMMA NotifyShapes ==
    ASSUME IInv, NEW x \in Observables, E!NotifyObservers(x), Settled(stack, done)
    PROVE  Shape(stack', done, lazy.updating)
<1>1. stack' = Append(stack, E!Round(x)) BY NotifyIs, InvScope
<1>2. E!Round(x) \in FrameOf(Observers) /\ E!Round(x).kind = "notify" BY RoundIs, InvScope
<1>. QED BY <1>1, <1>2, InvScope, StackTyped, ShapeCalls DEF IsMethod

\* A method on an instrument nobody has borrowed that notifies.
LEMMA NotifierShapes ==
    ASSUME IInv, Enters(<<Method("notify"), E!Round("instrument")>>), NoMethod(stack),
           Settled(stack, done)
    PROVE  Shape(stack', done, lazy.updating)
<1>1. PICK t : t = Append(stack, Method("notify")) OBVIOUS
<1>2. Method("notify") \in FrameOf(Observers) /\ IsMethod(Method("notify"), "notify")
  BY FramesThere
<1>3. ~Swapping(stack) BY DEF NoMethod, Swapping, IsMethod
<1>4. Shape(t, done, lazy.updating)
  BY <1>1, <1>2, <1>3, InvScope, StackTyped, ShapeCalls DEF IsMethod
<1>5. t \in Seq(FrameOf(Observers)) /\ Len(t) = Height + 1 /\ t[Height + 1] = Method("notify")
  BY <1>1, <1>2, StackTyped, Pushed DEF Height
<1>6. Settled(t, done) BY <1>2, <1>5 DEF Settled, IsUpdate, IsMethod
<1>7. E!Round("instrument") \in FrameOf(Observers) /\ E!Round("instrument").kind = "notify"
  BY RoundIs, InvScope, Names
<1>8. stack' = Append(t, E!Round("instrument")) BY <1>1, EntersIs, InvScope, Names
<1>. QED BY <1>4, <1>5, <1>6, <1>7, <1>8, ShapeCalls DEF IsMethod

\* The same for a swap of the engine, which sets the guard.
LEMMA SwapShapes ==
    ASSUME IInv, Enters(<<Method("swap"), E!Round("instrument")>>), NoMethod(stack),
           Settled(stack, done), ~lazy.updating
    PROVE  Shape(stack', done, TRUE)
<1>1. PICK t : t = Append(stack, Method("swap")) OBVIOUS
<1>2. Method("swap") \in FrameOf(Observers) /\ IsMethod(Method("swap"), "swap")
  BY FramesThere
<1>3. lazy.updating = FALSE /\ Shape(stack, done, FALSE)
  <2>1. lazy.updating = FALSE BY InvScope DEF Cells
  <2>. QED BY <2>1, InvScope
<1>4. Shape(t, done, TRUE)
  BY <1>1, <1>2, <1>3, StackTyped, ShapeSwaps
<1>5. t \in Seq(FrameOf(Observers)) /\ Len(t) = Height + 1 /\ t[Height + 1] = Method("swap")
  BY <1>1, <1>2, StackTyped, Pushed DEF Height
<1>6. Settled(t, done) BY <1>2, <1>5 DEF Settled, IsUpdate, IsMethod
<1>7. E!Round("instrument") \in FrameOf(Observers) /\ E!Round("instrument").kind = "notify"
  BY RoundIs, InvScope, Names
<1>8. stack' = Append(t, E!Round("instrument")) BY <1>1, EntersIs, InvScope, Names
<1>. QED BY <1>4, <1>5, <1>6, <1>7, <1>8, ShapeCalls DEF IsMethod

\* A calculation may be entered.
LEMMA CalculateShapes ==
    ASSUME NEW s \in Seq(FrameOf(Observers)), NEW d, NEW u, Shape(s, d, u), Settled(s, d),
           \A i \in 1..Len(s) : ~IsMethod(s[i], "swap") /\ ~IsMethod(s[i], "calculate"),
           NEW l, Calculate(l, s)
    PROVE  Shape(stack', d, u)
<1>1. stack' \in {s, Append(s, Calculation)} BY CalculateIs
<1>2. Calculation \in FrameOf(Observers) /\ IsMethod(Calculation, "calculate") BY FramesThere
<1>3. ~Swapping(s) BY DEF Swapping
<1>4. Calculation.kind # "update" /\ ~IsMethod(Calculation, "swap")
  BY <1>2 DEF IsMethod
<1>5. Shape(Append(s, Calculation), d, u) BY <1>2, <1>3, <1>4, ShapeCalls
<1>. QED BY <1>1, <1>5

\* What a calculation leaves of the flags.
LEMMA CalculateFlags ==
    ASSUME NEW l \in [calculated : BOOLEAN, failed : BOOLEAN, frozen : BOOLEAN, updating : BOOLEAN],
           NEW s, Calculate(l, s)
    PROVE  /\ lazy' \in [calculated : BOOLEAN, failed : BOOLEAN, frozen : BOOLEAN, updating : BOOLEAN]
           /\ lazy'.updating = l.updating /\ lazy'.frozen = l.frozen
           /\ results' \in {results, ZeroPrice}
  BY DEF Calculate

\* One turn of a round or of the drain.
LEMMA VisitShapes ==
    ASSUME IInv, NEW e, E!RoundVisits(e)
    PROVE  Shape(stack', done, lazy.updating)
<1>1. /\ stack # <<>> /\ E!Top.kind = "notify" /\ E!Top = stack[Height]
      /\ stack \in Seq(FrameOf(Observers)) /\ Shape(stack, done, lazy.updating)
      /\ e.obs \in Observers
  BY VisitIs, InvScope, StackTyped DEF EntryOf, E!Top, Height
<1>2. PICK f \in FrameOf(Observers), t \in Seq(FrameOf(Observers)) :
        /\ f.kind = "notify"
        /\ t = [stack EXCEPT ![Height] = f]
        /\ \/ e.obs \notin E!Busy /\ stack' = Append(t, E!Update(e.obs))
           \/ stack' = t
  BY VisitIs, InvScope
<1>3. Shape(t, done, lazy.updating)
  BY <1>1, <1>2, ShapeGoesOn DEF Height
<1>4. /\ Len(t) = Height /\ \A i \in 1..(Height - 1) : t[i] = stack[i]
      /\ t[Height] = f /\ Height \in Nat \ {0}
  BY <1>1, <1>2, Replaced, Popped DEF Height
<1>5. Settled(t, done) BY <1>2, <1>4 DEF Settled, IsUpdate
<1>6. ASSUME e.obs \notin E!Busy PROVE Shape(Append(t, E!Update(e.obs)), done, lazy.updating)
  <2>1. \A i \in 1..Height : ~IsUpdate(stack[i], e.obs) BY <1>6, BusyIs, InvScope
  <2>2. \A i \in 1..Len(t) : ~IsUpdate(t[i], e.obs) BY <1>2, <1>4, <2>1 DEF IsUpdate
  <2>3. E!Update(e.obs) \in FrameOf(Observers) /\ IsUpdate(E!Update(e.obs), e.obs)
    BY <1>1 DEF E!Update, FrameOf, IsUpdate
  <2>. QED BY <1>1, <1>3, <1>5, <2>2, <2>3, ShapeUpdates
<1>. QED BY <1>2, <1>3, <1>6

LEMMA DrainVisitShapes ==
    ASSUME IInv, NEW o \in Observers, E!DrainVisits(o)
    PROVE  Shape(stack', done, lazy.updating)
<1>1. /\ stack # <<>> /\ E!Top.kind = "drain" /\ E!Top = stack[Height]
      /\ stack \in Seq(FrameOf(Observers)) /\ Shape(stack, done, lazy.updating)
  BY DrainVisitsIs, InvScope, StackTyped DEF E!Top, Height
<1>2. PICK f \in FrameOf(Observers), t \in Seq(FrameOf(Observers)) :
        /\ f.kind = "drain"
        /\ t = [stack EXCEPT ![Height] = f]
        /\ \/ o \notin E!Busy /\ stack' = Append(t, E!Update(o))
           \/ stack' = t
  BY DrainVisitsIs, InvScope
<1>3. Shape(t, done, lazy.updating)
  BY <1>1, <1>2, ShapeGoesOn DEF Height
<1>4. /\ Len(t) = Height /\ \A i \in 1..(Height - 1) : t[i] = stack[i]
      /\ t[Height] = f /\ Height \in Nat \ {0}
  BY <1>1, <1>2, Replaced, Popped DEF Height
<1>5. Settled(t, done) BY <1>2, <1>4 DEF Settled, IsUpdate
<1>6. ASSUME o \notin E!Busy PROVE Shape(Append(t, E!Update(o)), done, lazy.updating)
  <2>1. \A i \in 1..Height : ~IsUpdate(stack[i], o) BY <1>6, BusyIs, InvScope
  <2>2. \A i \in 1..Len(t) : ~IsUpdate(t[i], o) BY <1>2, <1>4, <2>1 DEF IsUpdate
  <2>3. E!Update(o) \in FrameOf(Observers) /\ IsUpdate(E!Update(o), o)
    BY DEF E!Update, FrameOf, IsUpdate
  <2>. QED BY <1>3, <1>5, <2>2, <2>3, ShapeUpdates
<1>. QED BY <1>2, <1>3, <1>6

\* A call returns that is neither an update() nor a swap.
LEMMA PopShapes ==
    ASSUME IInv, stack # <<>>, E!Top.kind # "update", ~IsMethod(E!Top, "swap")
    PROVE  Shape(E!Below, done, lazy.updating) /\ Settled(E!Below, done)
  BY InvScope, StackTyped, ShapeReturns DEF E!Below, E!Top

LEMMA RoundEndShapes == ASSUME IInv, E!RoundEnds PROVE Shape(stack', done, lazy.updating)
<1>1. /\ stack # <<>> /\ E!Top.kind = "notify" /\ Drain \in FrameOf(Observers)
      /\ stack' = E!Below \/ stack' = Append(E!Below, Drain)
  BY RoundEndsIs, InvScope
<1>2. PICK b : b = E!Below OBVIOUS
<1>3. b \in Seq(FrameOf(Observers)) BY <1>1, <1>2, TopFrame, InvScope DEF Scope
<1>4. Shape(b, done, lazy.updating) /\ Settled(b, done)
  BY <1>1, <1>2, PopShapes DEF IsMethod
<1>5. Shape(Append(b, Drain), done, lazy.updating)
  BY <1>1, <1>3, <1>4, ShapeCalls DEF Drain, IsMethod
<1>. QED BY <1>1, <1>2, <1>4, <1>5

LEMMA EngineShapes == ASSUME IInv, NotificationStep PROVE Shape(stack', done, lazy.updating)
<1>1. ASSUME E!DrainTakes PROVE Shape(stack', done, lazy.updating)
  <2>1. /\ stack # <<>> /\ E!Top.kind = "drain" /\ E!Top = stack[Len(stack)]
        /\ \E f \in FrameOf(Observers) : f.kind = "drain" /\ stack' = [stack EXCEPT ![Len(stack)] = f]
    BY <1>1, DrainTakesIs, InvScope DEF E!Top, Height
  <2>2. PICK f \in FrameOf(Observers) : f.kind = "drain" /\ stack' = [stack EXCEPT ![Len(stack)] = f]
    BY <2>1
  <2>. QED BY <2>1, <2>2, InvScope, StackTyped, ShapeGoesOn
<1>2. ASSUME E!DrainEnds PROVE Shape(stack', done, lazy.updating)
  BY <1>2, DrainEndsIs, InvScope, PopShapes DEF IsMethod
<1>3. ASSUME NEW o \in Observers, NEW d \in BOOLEAN, E!RoundVisits([obs |-> o, defer |-> d])
      PROVE Shape(stack', done, lazy.updating)
  BY <1>3, VisitShapes
<1>. QED BY <1>1, <1>2, <1>3, RoundEndShapes, DrainVisitShapes DEF NotificationStep

-----------------------------------------------------------------------------
(* Each action keeps the invariant.                                         *)

Kept == Cells' /\ Shape(stack', done', lazy'.updating)

LEMMA SetValueKeeps ==
    ASSUME IInv, NEW q \in Quotes, NEW v \in Values \cup {Null}, SetValue(q, v),
           Settled(stack, done), UNCHANGED panicked
    PROVE  Kept
<1>1. Shape(stack', done, lazy.updating) BY SetValueIs, InvScope, NotifyShapes
<1>2. Cells' BY InvScope DEF SetValue, Stored, Cells, core, bodies
<1>. QED BY <1>1, <1>2 DEF Kept, SetValue, core, bodies

LEMMA InputKeeps == ASSUME IInv, InUserCode, InputStep, UNCHANGED panicked PROVE Kept
<1>. USE InvScope DEF Kept
<1>1. Settled(stack, done) BY Callers
<1>2. ASSUME NEW q \in Quotes \cup {Null}, LinkTo(q) PROVE Kept
  <2>1. stack' = Append(stack, E!Round("link")) BY <1>2, EntersIs, Names DEF LinkTo
  <2>2. E!Round("link") \in FrameOf(Observers) /\ E!Round("link").kind = "notify"
    BY RoundIs, Names
  <2>3. Shape(stack', done, lazy.updating)
    BY <1>1, <2>1, <2>2, StackTyped, ShapeCalls DEF IsMethod
  <2>. QED BY <1>2, <2>3 DEF LinkTo, Cells, core, bodies
<1>3. ASSUME NEW e \in Engines \cup {Null}, SwapEngine(e) PROVE Kept
  <2>1. lazy' \in [calculated : BOOLEAN, failed : BOOLEAN, frozen : BOOLEAN, updating : BOOLEAN]
    BY <1>3 DEF SwapEngine, Invalidated, Cells
  <2>2. Cells' BY <1>3, <2>1 DEF SwapEngine, Cells, market, bodies
  <2>3. CASE StaysOut /\ lazy'.updating = lazy.updating
    BY <1>3, <2>2, <2>3 DEF SwapEngine, StaysOut, bodies
  <2>4. CASE /\ Enters(<<Method("swap"), E!Round("instrument")>>)
             /\ ~lazy.updating /\ lazy'.updating = TRUE
    <3>1. NoMethod(stack) BY <1>3, BusyIs DEF SwapEngine
    <3>2. Shape(stack', done, TRUE) BY <1>1, <2>4, <3>1, SwapShapes
    <3>. QED BY <1>3, <2>2, <2>4, <3>2 DEF SwapEngine, bodies
  <2>. QED BY <1>3, <2>3, <2>4 DEF SwapEngine, Invalidated, Cells
<1>4. ASSUME NEW e \in Engines, SwapEngineSilently(e) PROVE Kept
  <2>1. lazy'.updating = lazy.updating /\ stack' = stack /\ done' = done
    BY <1>4 DEF SwapEngineSilently, StaysOut, Invalidated, Cells, bodies
  <2>2. Cells' BY <1>4 DEF SwapEngineSilently, Invalidated, Cells, market, bodies
  <2>. QED BY <2>1, <2>2
<1>5. ASSUME SetEvaluationDate PROVE Kept
  <2>1. Shape(stack', done, lazy.updating)
    BY <1>1, <1>5, NotifyShapes, Names DEF SetEvaluationDate
  <2>. QED BY <1>5, <2>1 DEF SetEvaluationDate, Cells, core, bodies
<1>6. ASSUME Freeze PROVE Kept
  <2>1. lazy'.updating = lazy.updating /\ stack' = stack /\ done' = done
    BY <1>6 DEF Freeze, Cells, bodies, engineVars
  <2>2. Cells' BY <1>6 DEF Freeze, Cells, market, bodies
  <2>. QED BY <2>1, <2>2
<1>7. ASSUME Unfreeze PROVE Kept
  <2>1. NoMethod(stack) BY <1>7, BusyIs DEF Unfreeze
  <2>2. Shape(stack', done, lazy.updating) BY <1>1, <1>7, <2>1, NotifierShapes DEF Unfreeze
  <2>3. lazy'.updating = lazy.updating /\ done' = done BY <1>7 DEF Unfreeze, Cells, bodies
  <2>4. Cells' BY <1>7 DEF Unfreeze, Cells, market, bodies
  <2>. QED BY <2>2, <2>3, <2>4
<1>. QED BY <1>1, <1>2, <1>3, <1>4, <1>5, <1>6, <1>7, SetValueKeeps DEF InputStep

LEMMA CalculateCells ==
    ASSUME Cells, NEW s, Calculate(lazy, s), UNCHANGED <<market, engine, seen, panicked>>,
           done' \in [Observers -> {"entered", "returning", "guarding", "unread"}]
    PROVE  Cells' /\ lazy'.updating = lazy.updating
  BY CalculateFlags DEF Cells, market

LEMMA NpvKeeps == ASSUME IInv, Npv, stack = <<>>, UNCHANGED panicked PROVE Kept
<1>1. Settled(stack, done) BY DEF Settled
<1>2. \A i \in 1..Height : ~IsMethod(stack[i], "swap") /\ ~IsMethod(stack[i], "calculate")
  BY BusyIs, InvScope DEF Npv, NoMethod, IsMethod, Height
<1>3. Shape(stack', done, lazy.updating)
  BY <1>1, <1>2, InvScope, StackTyped, CalculateShapes DEF Npv, Height
<1>4. Cells' /\ lazy'.updating = lazy.updating
  BY InvScope, CalculateCells DEF Npv, OnlyCalculates, bodies, Cells
<1>. QED BY <1>3, <1>4 DEF Kept, Npv, bodies

LEMMA RecalculateKeeps == ASSUME IInv, Recalculate, stack = <<>>, UNCHANGED panicked PROVE Kept
<1>1. PICK l : l = [Invalidated(lazy) EXCEPT !.frozen = FALSE] OBVIOUS
<1>2. PICK s : s = Append(stack, Recalculation(lazy.frozen)) OBVIOUS
<1>3. /\ l \in [calculated : BOOLEAN, failed : BOOLEAN, frozen : BOOLEAN, updating : BOOLEAN]
      /\ l.updating = lazy.updating
  BY <1>1, InvScope DEF Invalidated, Cells
<1>4. Recalculation(lazy.frozen) \in FrameOf(Observers)
      /\ IsMethod(Recalculation(lazy.frozen), "recalculate")
  BY FramesThere, InvScope DEF Cells
<1>5. NoMethod(stack) /\ ~Swapping(stack)
  BY BusyIs, InvScope DEF Recalculate, NoMethod, Swapping, IsMethod, Height
<1>6. Settled(stack, done) BY DEF Settled
<1>7. Shape(s, done, lazy.updating)
  BY <1>2, <1>4, <1>5, <1>6, InvScope, StackTyped, ShapeCalls DEF IsMethod
<1>8. /\ s \in Seq(FrameOf(Observers)) /\ Len(s) = Height + 1 /\ Height \in Nat
      /\ \A i \in 1..Height : s[i] = stack[i]
      /\ s[Height + 1] = Recalculation(lazy.frozen)
  BY <1>2, <1>4, StackTyped, Pushed DEF Height
<1>9. Settled(s, done) BY <1>4, <1>8 DEF Settled, IsUpdate, IsMethod
<1>10. \A i \in 1..Len(s) : ~IsMethod(s[i], "swap") /\ ~IsMethod(s[i], "calculate")
  BY <1>4, <1>5, <1>8 DEF NoMethod, IsMethod, Height
<1>11. Calculate(l, s) BY <1>1, <1>2 DEF Recalculate
<1>12. Shape(stack', done, lazy.updating)
  BY <1>7, <1>8, <1>9, <1>10, <1>11, CalculateShapes
<1>13. Cells' /\ lazy'.updating = lazy.updating
  BY <1>3, <1>11, InvScope, CalculateFlags DEF Recalculate, OnlyCalculates, market, bodies, Cells
<1>. QED BY <1>12, <1>13 DEF Kept, Recalculate, bodies

LEMMA EngineWritesKeeps ==
    ASSUME IInv, NEW q \in Quotes, NEW v \in Values, EngineWrites(q, v), UNCHANGED panicked
    PROVE  Kept
<1>1. Settled(stack, done)
  BY Callers DEF EngineWrites, InMethod, E!TopIs, Settled, IsUpdate, E!Top
<1>. QED BY <1>1, SetValueKeeps DEF EngineWrites

LEMMA PanicsKeeps == ASSUME IInv, Panics PROVE Kept
<1>1. stack' = <<>> /\ \A o \in Observers : done'[o] = "entered" BY DEF Panics, E!Unwind
<1>2. Cells' /\ lazy'.updating = FALSE BY InvScope DEF Panics, Cells, market
<1>. QED BY <1>1, <1>2, ShapeEmpty DEF Kept

LEMMA ForwardsKeeps ==
    ASSUME IInv, NEW o \in Observers \ {"updater"}, NEW x \in Observables, Forwards(o, x),
           UNCHANGED panicked
    PROVE  Kept
<1>1. Settled(stack, done) /\ stack # <<>> /\ IsUpdate(stack[Height], o)
  BY Callers DEF Forwards
<1>2. E!Round(x) \in FrameOf(Observers) /\ E!Round(x).kind = "notify"
      /\ stack' = Append(stack, E!Round(x))
  BY RoundIs, NotifyIs, InvScope DEF Forwards
<1>3. done \in [Observers -> {"entered", "returning", "guarding", "unread"}]
      /\ done[o] = "entered" /\ done' = [done EXCEPT ![o] = "returning"]
  BY InvScope DEF Cells, Forwards
<1>4. Shape(stack, done', lazy.updating)
  BY <1>1, <1>3, InvScope, StackTyped, ShapeWorks DEF Height
<1>5. Settled(stack, done') BY <1>1 DEF Settled, IsUpdate, Height
<1>6. Shape(stack', done', lazy.updating)
  BY <1>2, <1>4, <1>5, StackTyped, ShapeCalls DEF IsMethod
<1>7. Cells' BY <1>3, InvScope DEF Cells, Forwards, market, core
<1>. QED BY <1>6, <1>7 DEF Kept, Forwards, core

LEMMA LazyUpdateKeeps == ASSUME IInv, LazyUpdate, UNCHANGED panicked PROVE Kept
<1>1. stack # <<>> /\ IsUpdate(stack[Height], "updater") BY Callers DEF LazyUpdate
<1>2. done \in [Observers -> {"entered", "returning", "guarding", "unread"}]
      /\ done["updater"] = "entered" /\ "updater" \in Observers
  BY Names, InvScope DEF Cells, LazyUpdate
<1>3. CASE lazy.updating \/ lazy.frozen
  <2>1. done' = [done EXCEPT !["updater"] = "returning"] /\ stack' = stack
    BY <1>3 DEF LazyUpdate, engineVars
  <2>2. Shape(stack, done', lazy.updating)
    BY <1>1, <1>2, <2>1, InvScope, StackTyped, ShapeWorks DEF Height
  <2>3. Cells' /\ lazy'.updating = lazy.updating
    BY <1>2, <1>3, <2>1, InvScope DEF LazyUpdate, Cells, Invalidated, market
  <2>. QED BY <2>1, <2>2, <2>3 DEF Kept
<1>4. CASE ~lazy.updating /\ ~lazy.frozen
  <2>1. done' = [done EXCEPT !["updater"] = "guarding"] /\ E!NotifyObservers("instrument")
    BY <1>4 DEF LazyUpdate
  <2>2. E!Round("instrument") \in FrameOf(Observers) /\ E!Round("instrument").kind = "notify"
        /\ stack' = Append(stack, E!Round("instrument"))
    BY <2>1, RoundIs, NotifyIs, InvScope, Names
  <2>3. Shape(stack, done, FALSE)
    <3>1. lazy.updating = FALSE BY <1>4, InvScope DEF Cells
    <3>. QED BY <3>1, InvScope
  <2>4. Shape(stack', done', TRUE)
    BY <1>1, <1>2, <2>1, <2>2, <2>3, StackTyped, ShapeGuards DEF Height
  <2>5. Cells' /\ lazy'.updating = TRUE
    BY <1>2, <1>4, <2>1, InvScope DEF LazyUpdate, Cells, Invalidated, market
  <2>. QED BY <2>4, <2>5 DEF Kept
<1>. QED BY <1>3, <1>4

LEMMA ReaderKeeps ==
    ASSUME IInv, NEW c \in Readers, ReaderUpdate(c), UNCHANGED panicked
    PROVE  Kept
<1>1. c \in Observers \ {"updater"} BY Names, ObserversAssumption DEF Clients
<1>2. Settled(stack, done) /\ stack # <<>> /\ IsUpdate(stack[Height], c)
  BY <1>1, Callers DEF ReaderUpdate
<1>3. done \in [Observers -> {"entered", "returning", "guarding", "unread"}]
      /\ done[c] = "entered"
  BY InvScope DEF Cells, ReaderUpdate
<1>4. PICK v \in {"returning", "unread"} : done' = [done EXCEPT ![c] = v] BY DEF ReaderUpdate
<1>5. Shape(stack, done', lazy.updating) /\ Settled(stack, done')
  BY <1>1, <1>2, <1>3, <1>4, InvScope, StackTyped, ShapeWorks DEF Height, Settled, IsUpdate
<1>6. done' \in [Observers -> {"entered", "returning", "guarding", "unread"}]
  BY <1>3, <1>4
<1>7. CASE Borrowed
  BY <1>5, <1>6, <1>7, InvScope DEF Kept, ReaderUpdate, OnlyCalculates, Cells, market
<1>8. CASE ~Borrowed
  <2>1. Calculate(lazy, stack) BY <1>8 DEF ReaderUpdate
  <2>2. \A i \in 1..Height : ~IsMethod(stack[i], "swap") /\ ~IsMethod(stack[i], "calculate")
    BY <1>8, BusyIs, InvScope DEF NoMethod, IsMethod, Height
  <2>3. Shape(stack', done', lazy.updating)
    BY <1>5, <2>1, <2>2, StackTyped, CalculateShapes DEF Height
  <2>4. Cells' /\ lazy'.updating = lazy.updating
    BY <1>6, <2>1, InvScope, CalculateCells DEF ReaderUpdate, OnlyCalculates
  <2>. QED BY <2>3, <2>4 DEF Kept
<1>. QED BY <1>7, <1>8

LEMMA ReturnKeeps ==
    ASSUME IInv, NEW o \in Observers, Returns(o), UNCHANGED panicked
    PROVE  Kept
<1>1. stack # <<>> /\ IsUpdate(stack[Len(stack)], o) BY Callers DEF Returns, Height
<1>2. done \in [Observers -> {"entered", "returning", "guarding", "unread"}]
      /\ done' = [done EXCEPT ![o] = "entered"]
  BY InvScope DEF Cells, Returns
<1>3. stack' = SubSeq(stack, 1, Len(stack) - 1) BY DEF Returns, E!UpdateReturns, E!Below
<1>4. Shape(stack', done', IF done[o] = "guarding" THEN FALSE ELSE lazy.updating)
  BY <1>1, <1>2, <1>3, InvScope, StackTyped, ShapeUpdated
<1>5. lazy' \in [calculated : BOOLEAN, failed : BOOLEAN, frozen : BOOLEAN, updating : BOOLEAN]
      /\ lazy'.updating = IF done[o] = "guarding" THEN FALSE ELSE lazy.updating
  BY InvScope DEF Returns, Cells
<1>6. seen' \in [Readers -> {Null, ZeroPrice} \cup (Engines \X Values)]
  BY InvScope DEF Returns, ReadResult, Cells
<1>7. Cells' BY <1>2, <1>5, <1>6, InvScope DEF Returns, Cells, market
<1>. QED BY <1>4, <1>5, <1>7 DEF Kept

LEMMA EngineReadsKeeps == ASSUME IInv, EngineReads, UNCHANGED panicked PROVE Kept
<1>1. PICK f \in FrameOf(Observers) :
        IsMethod(f, "calculate") /\ stack' = [stack EXCEPT ![Len(stack)] = f]
  BY ReadIs, InvScope DEF Height
<1>2. stack # <<>> /\ IsMethod(stack[Len(stack)], "calculate") BY ReadIs, InvScope DEF E!Top
<1>3. Shape(stack', done, lazy.updating)
  BY <1>1, <1>2, InvScope, StackTyped, ShapeGoesOn DEF IsMethod
<1>. QED BY <1>3, InvScope DEF Kept, EngineReads, OnlyCalculates, Cells, market, bodies

LEMMA CalculationEndsKeeps == ASSUME IInv, CalculationEnds, UNCHANGED panicked PROVE Kept
<1>1. stack # <<>> /\ IsMethod(E!Top, "calculate") /\ stack' = E!Below
  BY DEF CalculationEnds, InMethod, E!TopIs, IsMethod
<1>2. Shape(stack', done, lazy.updating) BY <1>1, PopShapes DEF IsMethod
<1>3. E!Top.price \in {Null} \cup (Engines \X Values)
  BY <1>1, TopFrame, InvScope DEF Scope, MethodFrame, IsMethod
<1>4. Cells' /\ lazy'.updating = lazy.updating
  BY <1>3, InvScope
  DEF CalculationEnds, OnlyCalculates, Cells, market, bodies, Succeeded, Failed
<1>. QED BY <1>2, <1>4 DEF Kept, CalculationEnds, bodies

LEMMA RecalculationEndsKeeps == ASSUME IInv, RecalculationEnds, UNCHANGED panicked PROVE Kept
<1>1. /\ stack # <<>> /\ IsMethod(E!Top, "recalculate")
      /\ stack' = Append(Append(E!Below, Method("notify")), E!Round("instrument"))
  BY RecalculationEndsIs, InvScope
<1>2. PICK b : b = E!Below OBVIOUS
<1>3. PICK t : t = Append(b, Method("notify")) OBVIOUS
<1>4. /\ b \in Seq(FrameOf(Observers)) /\ Len(b) = Height - 1 /\ Height \in Nat \ {0}
      /\ \A i \in 1..(Height - 1) : b[i] = stack[i]
      /\ stack[Height] = E!Top
  BY <1>1, <1>2, TopFrame, InvScope DEF Scope
<1>5. Shape(b, done, lazy.updating) /\ Settled(b, done)
  BY <1>1, <1>2, PopShapes DEF IsMethod
<1>6. ~Swapping(b)
  <2>1. SwapAlone(stack) BY InvScope DEF Shape
  <2>2. ASSUME NEW i \in 1..Len(b), IsMethod(b[i], "swap") PROVE FALSE
    <3>1. i \in 1..Height /\ Height \in 1..Height /\ i # Height /\ IsMethod(stack[i], "swap")
      BY <1>4, <2>2
    <3>2. stack[Height].kind = "method" BY <1>1, <1>4 DEF IsMethod
    <3>. QED BY <2>1, <3>1, <3>2 DEF SwapAlone, Height
  <2>. QED BY <2>2 DEF Swapping
<1>7. Method("notify") \in FrameOf(Observers) /\ IsMethod(Method("notify"), "notify")
  BY FramesThere
<1>8. Shape(t, done, lazy.updating)
  BY <1>3, <1>4, <1>5, <1>6, <1>7, ShapeCalls DEF IsMethod
<1>9. t \in Seq(FrameOf(Observers)) /\ t[Len(t)] = Method("notify")
  BY <1>3, <1>4, <1>7, Pushed
<1>10. Settled(t, done) BY <1>7, <1>9 DEF Settled, IsUpdate, IsMethod
<1>11. E!Round("instrument") \in FrameOf(Observers) /\ E!Round("instrument").kind = "notify"
  BY RoundIs, InvScope, Names
<1>12. Shape(stack', done, lazy.updating)
  BY <1>1, <1>2, <1>3, <1>8, <1>9, <1>10, <1>11, ShapeCalls DEF IsMethod
<1>13. E!Top.frozen \in BOOLEAN
  BY <1>1, TopFrame, InvScope DEF Scope, MethodFrame, IsMethod
<1>14. Cells' /\ lazy'.updating = lazy.updating
  BY <1>13, InvScope DEF RecalculationEnds, Cells, market, bodies
<1>. QED BY <1>12, <1>14 DEF Kept, RecalculationEnds, bodies

LEMMA MethodReturnsKeeps == ASSUME IInv, MethodReturns, UNCHANGED panicked PROVE Kept
<1>1. /\ stack # <<>> /\ E!Top.kind = "method" /\ E!Top = stack[Len(stack)]
      /\ stack' = E!Below /\ E!Below = SubSeq(stack, 1, Len(stack) - 1)
      /\ done' = done
  BY DEF MethodReturns, InMethod, E!TopIs, E!Below, E!Top, bodies
<1>2. CASE InMethod("swap")
  <2>1. IsMethod(stack[Len(stack)], "swap") BY <1>1, <1>2 DEF InMethod, IsMethod
  <2>2. Shape(stack', done, FALSE) BY <1>1, <2>1, InvScope, StackTyped, ShapeSwapped
  <2>3. Cells' /\ lazy'.updating = FALSE
    BY <1>2, InvScope DEF MethodReturns, OnlyCalculates, Cells, market, bodies
  <2>. QED BY <1>1, <2>2, <2>3 DEF Kept
<1>3. CASE ~InMethod("swap")
  <2>1. ~IsMethod(E!Top, "swap") BY <1>1, <1>3 DEF InMethod, IsMethod, E!TopIs
  <2>2. Shape(stack', done, lazy.updating) BY <1>1, <2>1, PopShapes
  <2>3. Cells' /\ lazy' = lazy
    BY <1>3, InvScope DEF MethodReturns, OnlyCalculates, Cells, market, bodies
  <2>. QED BY <1>1, <2>2, <2>3 DEF Kept
<1>. QED BY <1>2, <1>3

LEMMA InvInit == Init => IInv
<1>. SUFFICES ASSUME Init PROVE IInv OBVIOUS
<1>1. stack = <<>> /\ lazy.updating = FALSE /\ AllAlive /\ pending = {} /\ stack \in Seq(FrameOf(Observers))
      /\ \A o \in Observers : done[o] = "entered"
  BY DEF Init, AllAlive
<1>2. Shape(stack, done, lazy.updating) BY <1>1, ShapeEmpty
<1>3. Cells BY DEF Init, Cells
<1>4. registry \in [Observables -> SUBSET EntryOf(Observers)]
  <2>1. PICK clients \in Wirings :
           registry = [x \in Observables |->
               {[obs |-> o, defer |-> DeferReentrant[o]] : o \in Wired(clients, target, engine)[x]}]
    BY DEF Init
  <2>2. clients \in [Observables -> SUBSET Clients] BY WiringsAssumption
  <2>3. Fed \subseteq Observers BY Names, FedAssumption
  <2>4. \A x \in Observables : Wired(clients, target, engine)[x] \subseteq Observers
    BY <2>2, <2>3, Names DEF Wired, Clients
  <2>5. \A o \in Observers : [obs |-> o, defer |-> DeferReentrant[o]] \in EntryOf(Observers)
    BY DEF EntryOf, E!Entry, DeferReentrant
  <2>. QED BY <2>1, <2>4, <2>5
<1>. QED BY <1>1, <1>2, <1>3, <1>4 DEF IInv, Confined

LEMMA InvKept == IInv /\ [Next]_vars => IInv'
<1>. SUFFICES ASSUME IInv, [Next]_vars PROVE IInv' OBVIOUS
<1>1. Scope(Observers)' BY ScopeKept, InvScope
<1>2. ASSUME UserStep PROVE Kept
  <2>1. ASSUME stack = <<>> /\ (Npv \/ Recalculate) /\ UNCHANGED panicked PROVE Kept
    BY <2>1, NpvKeeps, RecalculateKeeps
  <2>2. ASSUME InUserCode /\ InputStep /\ UNCHANGED panicked PROVE Kept
    BY <2>2, InputKeeps
  <2>3. ASSUME NEW q \in Quotes, NEW v \in Values, EngineWrites(q, v), UNCHANGED panicked PROVE Kept
    BY <2>3, EngineWritesKeeps
  <2>. QED BY <1>2, <2>1, <2>2, <2>3, PanicsKeeps DEF UserStep
<1>3. ASSUME BodyStep, UNCHANGED panicked PROVE Kept
  <2>1. ASSUME NEW o \in Engines \cup Forwarders, Forwards(o, o) PROVE Kept
    <3>1. o \in Observers \ {"updater"} /\ o \in Observables
      BY Names, ObserversAssumption DEF Clients
    <3>. QED BY <1>3, <2>1, <3>1, ForwardsKeeps
  <2>2. ASSUME Forwards("forwarder", "link") PROVE Kept BY <1>3, <2>2, ForwardsKeeps, Names
  <2>. QED
    BY <1>3, <2>1, <2>2, LazyUpdateKeeps, ReaderKeeps, ReturnKeeps, EngineReadsKeeps,
       CalculationEndsKeeps, RecalculationEndsKeeps, MethodReturnsKeeps DEF BodyStep
<1>4. ASSUME NotificationStep, UNCHANGED panicked PROVE Kept
  BY <1>4, EngineShapes, InvScope DEF Kept, NotificationStep, Cells, market, core, bodies
<1>5. ASSUME UNCHANGED vars PROVE Kept
  BY <1>5, InvScope DEF vars, engineVars, market, core, bodies, Kept, Cells
<1>6. Kept BY <1>2, <1>3, <1>4, <1>5 DEF Next, ProgramStep
<1>. QED BY <1>1, <1>6 DEF IInv, Kept, Scope

LEMMA Invariance == Spec => []IInv
<1>. QED BY InvInit, InvKept, PTL DEF Spec

\* Quotes, prices, registrations and the calls under way are what the code's types
\* make them, whatever the observers do (SimpleQuote, InstrumentBase, LazyObject).
THEOREM TypeCorrect == Spec => []TypeOK
<1>1. IInv => TypeOK
  <2>. SUFFICES ASSUME IInv PROVE TypeOK OBVIOUS
  <2>1. EntryOf(Observers) \subseteq E!Entry BY DEF EntryOf
  <2>2. FrameOf(Observers) \subseteq E!Frame \cup MethodFrame
    BY <2>1 DEF FrameOf, E!Frame, E!NotifyFrame, E!UpdateFrame, E!DrainFrame
  <2>3. stack \in Seq(E!Frame \cup MethodFrame)
    BY <2>2, StackTyped, ElementOfSeq, IsASeq
  <2>4. registry \in [Observables -> SUBSET E!Entry] BY <2>1 DEF IInv, Confined
  <2>. QED BY <2>3, <2>4 DEF IInv, Cells, TypeOK
<1>. QED BY <1>1, Invariance, PTL

\* The recursion guard is held exactly once while a deferred update is alive, by the
\* updater or by a swap of the engine, and never latched (DeferredUpdate's Drop).
THEOREM GuardIsHeldOnce == Spec => []GuardHeldOnce
<1>1. IInv => GuardHeldOnce
  <2>. SUFFICES ASSUME IInv PROVE GuardHeldOnce OBVIOUS
  <2>1. PICK swaps : swaps = {i \in E!At("method") : stack[i].name = "swap"} OBVIOUS
  <2>2. swaps = {i \in 1..Height : IsMethod(stack[i], "swap")}
    BY <2>1, StackTyped, LenProperties DEF E!At, IsMethod, Height
  <2>3. Shape(stack, done, lazy.updating) BY InvScope
  <2>4. CASE swaps = {}
    <3>1. ~Swapping(stack) BY <2>2, <2>4 DEF Swapping, Height
    <3>2. Cardinality(swaps) = 0 BY <2>4, FS_EmptySet
    <3>3. lazy.updating <=> done["updater"] = "guarding" BY <2>3, <3>1 DEF Shape, Guard
    <3>. QED BY <2>1, <3>2, <3>3 DEF GuardHeldOnce
  <2>5. CASE swaps # {}
    <3>1. PICK i \in swaps : TRUE BY <2>5
    <3>2. swaps = {i} BY <2>2, <2>3, <3>1 DEF Shape, SwapAlone, IsMethod, Height
    <3>3. Cardinality(swaps) = 1 BY <3>2, FS_Singleton
    <3>4. lazy.updating /\ done["updater"] # "guarding"
      BY <2>2, <2>3, <3>1 DEF Shape, Guard, Swapping, Height
    <3>. QED BY <2>1, <3>3, <3>4 DEF GuardHeldOnce
  <2>. QED BY <2>4, <2>5
<1>. QED BY <1>1, Invariance, PTL

-----------------------------------------------------------------------------
(* What steps do to the notifications on their way.                         *)

\* The calculations under way stay the same.
SameCalculations == \A f : IsMethod(f, "calculate") => (f \in Frames <=> f \in Frames')

\* The calls entered notify, or are the start of an update().
Calm(f) ==
    \/ f.kind \in {"notify", "drain"} \/ IsMethod(f, "notify") \/ IsMethod(f, "swap")
    \/ \E o \in Observers : IsUpdate(f, o) /\ done[o] = "entered"
Calmly == \A f \in Frames' : f \in Frames \/ Calm(f)

\* More frames and a longer queue owe no less.
LEMMA DueGrows ==
    ASSUME NEW F, NEW G, F \subseteq G, NEW P, NEW Q, P \subseteq Q, NEW d, NEW e, NEW o,
           d[o] = "entered" => e[o] = "entered", DueIn(F, P, d, o)
    PROVE  DueIn(G, Q, e, o)
<1>1. CASE o \in P BY <1>1 DEF DueIn
<1>2. CASE o \notin P
  <2>1. PICK f \in F : \/ f.kind = "notify" /\ \E n \in f.todo : n.obs = o
                       \/ f.kind = "drain" /\ o \in f.batch \cup f.stalled
                       \/ IsUpdate(f, o) /\ d[o] = "entered"
    BY <1>2 DEF DueIn
  <2>2. f \in G BY <2>1
  <2>. QED BY <2>1, <2>2 DEF DueIn
<1>. QED BY <1>1, <1>2

\* Dropping a frame that carries nothing loses nothing.
LEMMA DueKept ==
    ASSUME NEW F, NEW G, NEW t, \A f \in F : f # t => f \in G, NEW P, NEW d, NEW o,
           DueIn(F, P, d, o),
           t.kind = "notify" => t.todo = {},
           t.kind = "drain" => o \notin t.batch \cup t.stalled,
           IsUpdate(t, o) => d[o] # "entered",
           NEW e, d[o] = "entered" => e[o] = "entered"
    PROVE  DueIn(G, P, e, o)
<1>1. CASE o \in P BY <1>1 DEF DueIn
<1>2. CASE o \notin P
  <2>1. PICK f \in F : \/ f.kind = "notify" /\ \E n \in f.todo : n.obs = o
                       \/ f.kind = "drain" /\ o \in f.batch \cup f.stalled
                       \/ IsUpdate(f, o) /\ d[o] = "entered"
    BY <1>2 DEF DueIn
  <2>2. f # t BY <2>1
  <2>3. f \in G BY <2>1, <2>2
  <2>. QED BY <2>1, <2>3 DEF DueIn
<1>. QED BY <1>1, <1>2

\* A round owes every observer that is registered.
LEMMA RoundOwes ==
    ASSUME IInv, NEW x \in Observables, E!Round(x) \in Frames'
    PROVE  \A o : Has(x, o) => Due(o)'
<1>1. E!Round(x).kind = "notify" /\ E!Round(x).todo = registry[x] BY RoundIs, InvScope
<1>. QED BY <1>1 DEF Has, Due, DueIn

LEMMA PushedFrames ==
    ASSUME IInv, NEW f \in FrameOf(Observers), stack' = Append(stack, f)
    PROVE  Frames' = Frames \cup {f}
  BY StackTyped, Pushed DEF Frames

LEMMA NotifyFrames ==
    ASSUME IInv, NEW x \in Observables, E!NotifyObservers(x)
    PROVE  /\ Frames' = Frames \cup {E!Round(x)} /\ SameCalculations /\ Calmly
           /\ pending' = pending /\ registry' = registry
           /\ \A o : Has(x, o) => Due(o)'
           /\ \A o : Due(o) /\ done'[o] = done[o] => Due(o)'
<1>1. stack' = Append(stack, E!Round(x)) /\ pending' = pending /\ registry' = registry
  BY NotifyIs, InvScope
<1>2. E!Round(x) \in FrameOf(Observers) /\ E!Round(x).kind = "notify" BY RoundIs, InvScope
<1>3. Frames' = Frames \cup {E!Round(x)} BY <1>1, <1>2, PushedFrames
<1>4. SameCalculations BY <1>2, <1>3 DEF SameCalculations, IsMethod
<1>5. \A o : Has(x, o) => Due(o)' BY <1>3, RoundOwes
<1>6. ASSUME NEW o, Due(o), done'[o] = done[o] PROVE Due(o)'
  <2>1. DueIn(Frames', pending', done', o)
    BY <1>1, <1>3, <1>6, DueGrows DEF Due
  <2>. QED BY <2>1 DEF Due
<1>7. Calmly BY <1>2, <1>3 DEF Calmly, Calm
<1>. QED BY <1>1, <1>3, <1>4, <1>5, <1>6, <1>7

\* The same when the round is one of a method.
LEMMA EntersFrames ==
    ASSUME IInv, NEW x \in Observables, NEW name \in {"notify", "swap"},
           \/ Enters(<<E!Round(x)>>)
           \/ Enters(<<Method(name), E!Round(x)>>)
    PROVE  /\ SameCalculations /\ Frames \subseteq Frames' /\ Calmly
           /\ \A o : Has(x, o) => Due(o)'
           /\ \A o : Due(o) /\ done'[o] = done[o] => Due(o)'
<1>1. \/ stack' = Append(stack, E!Round(x))
      \/ stack' = Append(Append(stack, Method(name)), E!Round(x))
  BY EntersIs, InvScope
<1>2. pending' = pending BY EntersIs, InvScope
<1>3. E!Round(x) \in FrameOf(Observers) /\ E!Round(x).kind = "notify" BY RoundIs, InvScope
<1>4. Method(name) \in FrameOf(Observers) /\ IsMethod(Method(name), name) BY FramesThere
<1>5. Frames' = Frames \cup {E!Round(x)} \/ Frames' = Frames \cup {Method(name), E!Round(x)}
  <2>1. CASE stack' = Append(stack, E!Round(x)) BY <1>3, <2>1, PushedFrames
  <2>2. CASE stack' = Append(Append(stack, Method(name)), E!Round(x))
    <3>1. PICK t : t = Append(stack, Method(name)) OBVIOUS
    <3>2. t \in Seq(FrameOf(Observers)) /\ FramesOf(t) = Frames \cup {Method(name)}
      BY <1>4, <3>1, StackTyped, Pushed DEF Frames
    <3>3. PICK r : r = E!Round(x) OBVIOUS
    <3>4. r \in FrameOf(Observers) BY <1>3, <3>3
    <3>5. FramesOf(Append(t, r)) = FramesOf(t) \cup {r} BY <3>2, <3>4, Pushed
    <3>6. FramesOf(stack') = FramesOf(t) \cup {E!Round(x)} BY <2>2, <3>1, <3>3, <3>5
    <3>. QED BY <3>2, <3>6 DEF Frames
  <2>. QED BY <1>1, <2>1, <2>2
<1>6. SameCalculations BY <1>3, <1>4, <1>5 DEF SameCalculations, IsMethod
<1>7. \A o : Has(x, o) => Due(o)' BY <1>5, RoundOwes
<1>8. ASSUME NEW o, Due(o), done'[o] = done[o] PROVE Due(o)'
  <2>1. DueIn(Frames', pending', done', o)
    BY <1>2, <1>5, <1>8, DueGrows DEF Due
  <2>. QED BY <2>1 DEF Due
<1>9. Calmly BY <1>3, <1>4, <1>5 DEF Calmly, Calm
<1>. QED BY <1>5, <1>6, <1>7, <1>8, <1>9

\* A call returns.
LEMMA PoppedFrames ==
    ASSUME IInv, stack # <<>>
    PROVE  /\ \A f \in Frames : f # E!Top => f \in FramesOf(E!Below)
           /\ FramesOf(E!Below) \subseteq Frames
           /\ ~IsMethod(E!Top, "calculate") =>
                 \A f : IsMethod(f, "calculate") => (f \in Frames <=> f \in FramesOf(E!Below))
<1>1. Frames = FramesOf(E!Below) \cup {E!Top} BY TopFrame, InvScope DEF Scope
<1>. QED BY <1>1

\* Whoever is free has not got to the end of an update().
LEMMA FreeEntered ==
    ASSUME IInv, NEW o \in Observers, o \notin E!Busy
    PROVE  done[o] = "entered"
<1>1. \A i \in 1..Height : ~IsUpdate(stack[i], o) BY BusyIs, InvScope
<1>. QED BY <1>1, InvScope DEF Shape, UpdatesOpen, Height

\* Where a step of the engine leaves the notifications: all but the one it has to drop.
LEMMA VisitFrames ==
    ASSUME IInv, NEW e, E!RoundVisits(e), done' = done
    PROVE  /\ SameCalculations /\ Calmly
           /\ \A o \in Observers : Due(o) => Due(o)' \/ (e.obs = o /\ o \in E!Busy /\ ~e.defer)
           /\ \A f \in Frames : f.kind = "update" => f \in Frames'
<1>1. /\ stack # <<>> /\ E!Top.kind = "notify" /\ E!Top = stack[Len(stack)]
      /\ e \in E!Top.todo /\ e \in EntryOf(Observers) /\ e.obs \in Observers
  BY VisitIs, InvScope DEF E!Top, EntryOf
<1>2. PICK f \in FrameOf(Observers), t \in Seq(FrameOf(Observers)) :
        /\ f.kind = "notify" /\ f.todo = E!Top.todo \ {e}
        /\ t = [stack EXCEPT ![Height] = f]
        /\ \/ /\ e.obs \notin E!Busy
              /\ stack' = Append(t, E!Update(e.obs))
              /\ pending' = pending
           \/ /\ e.obs \in E!Busy
              /\ stack' = t
              /\ pending' = IF e.defer THEN pending \cup {e.obs} ELSE pending
  BY VisitIs, InvScope
<1>3. /\ f \in FramesOf(t) /\ \A g \in Frames : g # E!Top => g \in FramesOf(t)
      /\ FramesOf(t) \subseteq Frames \cup {f}
  BY <1>1, <1>2, StackTyped, Replaced DEF Frames, Height
<1>4. PICK u : u = E!Update(e.obs) OBVIOUS
<1>5. u \in FrameOf(Observers) /\ IsUpdate(u, e.obs)
  BY <1>1, <1>4 DEF E!Update, FrameOf, IsUpdate
<1>6. FramesOf(Append(t, u)) = FramesOf(t) \cup {u}
  <2>1. t \in Seq(FrameOf(Observers)) /\ u \in FrameOf(Observers) BY <1>2, <1>5
  <2>. QED BY <2>1, Pushed
<1>7. Frames' = FramesOf(t) \/ Frames' = FramesOf(t) \cup {u}
  BY <1>2, <1>4, <1>6 DEF Frames
<1>8. SameCalculations
  BY <1>1, <1>2, <1>3, <1>5, <1>7 DEF SameCalculations, IsMethod, IsUpdate
<1>9. FramesOf(t) \subseteq Frames' /\ pending \subseteq pending' BY <1>2, <1>7
<1>10. ASSUME NEW o \in Observers, Due(o), ~Due(o)'
       PROVE  e.obs = o /\ o \in E!Busy /\ ~e.defer
  <2>1. ~DueIn(Frames', pending', done, o) BY <1>10 DEF Due
  <2>2. o \notin pending BY <1>9, <2>1 DEF DueIn
  <2>3. PICK g \in Frames : \/ g.kind = "notify" /\ \E n \in g.todo : n.obs = o
                            \/ g.kind = "drain" /\ o \in g.batch \cup g.stalled
                            \/ IsUpdate(g, o) /\ done[o] = "entered"
    BY <1>10, <2>2 DEF Due, DueIn
  <2>4. g = E!Top BY <1>3, <1>9, <2>1, <2>3 DEF DueIn
  <2>5. PICK n \in E!Top.todo : n.obs = o BY <1>1, <2>3, <2>4 DEF IsUpdate
  <2>6. f \in Frames' BY <1>3, <1>9
  <2>7. n \notin f.todo BY <1>2, <2>1, <2>5, <2>6 DEF DueIn
  <2>8. n = e /\ e.obs = o BY <1>2, <2>5, <2>7
  <2>9. o \in E!Busy
    <3>1. ASSUME o \notin E!Busy PROVE FALSE
      <4>1. done[o] = "entered" BY <3>1, FreeEntered
      <4>2. u \in Frames'
        <5>1. stack' = Append(t, u) BY <1>2, <1>4, <2>8, <3>1
        <5>. QED BY <1>6, <5>1 DEF Frames
      <4>. QED BY <1>5, <2>1, <2>8, <4>1, <4>2 DEF DueIn
    <3>. QED BY <3>1
  <2>10. ~e.defer BY <1>2, <2>1, <2>8, <2>9 DEF DueIn
  <2>. QED BY <2>8, <2>9, <2>10
<1>11. \A g \in Frames : g.kind = "update" => g \in Frames' BY <1>1, <1>3, <1>9
<1>12. Calmly
  <2>1. CASE e.obs \in E!Busy
    <3>1. Frames' = FramesOf(t) BY <1>2, <2>1 DEF Frames
    <3>. QED BY <1>2, <1>3, <3>1 DEF Calmly, Calm
  <2>2. CASE e.obs \notin E!Busy
    <3>1. done[e.obs] = "entered" BY <1>1, <2>2, FreeEntered
    <3>. QED BY <1>1, <1>2, <1>3, <1>5, <1>7, <3>1 DEF Calmly, Calm
  <2>. QED BY <2>1, <2>2
<1>. QED BY <1>8, <1>10, <1>11, <1>12

Carried ==
    /\ SameCalculations /\ Calmly
    /\ \A o \in Observers : Due(o) => Due(o)'
    /\ \A f \in Frames : f.kind = "update" => f \in Frames'

LEMMA RoundEndFrames == ASSUME IInv, E!RoundEnds, done' = done PROVE Carried
<1>1. /\ stack # <<>> /\ E!Top.kind = "notify" /\ E!Top.todo = {} /\ pending' = pending
      /\ Drain \in FrameOf(Observers)
      /\ stack' = E!Below \/ stack' = Append(E!Below, Drain)
  BY RoundEndsIs, InvScope
<1>2. PICK b : b = E!Below OBVIOUS
<1>3. /\ b \in Seq(FrameOf(Observers)) /\ \A f \in Frames : f # E!Top => f \in FramesOf(b)
      /\ \A f : IsMethod(f, "calculate") => (f \in Frames <=> f \in FramesOf(b))
  BY <1>1, <1>2, TopFrame, PoppedFrames, InvScope DEF Scope, IsMethod
<1>4. FramesOf(Append(b, Drain)) = FramesOf(b) \cup {Drain} BY <1>1, <1>3, Pushed
<1>5. Frames' = FramesOf(b) \/ Frames' = FramesOf(b) \cup {Drain}
  BY <1>1, <1>2, <1>4 DEF Frames
<1>6. SameCalculations BY <1>3, <1>5 DEF SameCalculations, Drain, IsMethod
<1>7. ASSUME NEW o, Due(o) PROVE Due(o)'
  <2>1. \A f \in Frames : f # E!Top => f \in Frames' BY <1>3, <1>5
  <2>2. DueIn(Frames', pending', done', o)
    BY <1>1, <1>7, <2>1, DueKept DEF Due, IsUpdate
  <2>. QED BY <2>2 DEF Due
<1>8. \A f \in Frames : f.kind = "update" => f \in Frames' BY <1>1, <1>3, <1>5
<1>9. FramesOf(b) \subseteq Frames BY <1>1, <1>2, PoppedFrames
<1>10. Calmly BY <1>5, <1>9 DEF Calmly, Calm, Drain
<1>. QED BY <1>6, <1>7, <1>8, <1>10 DEF Carried

LEMMA DrainTakesFrames == ASSUME IInv, E!DrainTakes, done' = done PROVE Carried
<1>1. /\ stack # <<>> /\ E!Top.kind = "drain" /\ E!Top.batch = {} /\ E!Top = stack[Len(stack)]
  BY DrainTakesIs, InvScope DEF E!Top
<1>2. PICK f \in FrameOf(Observers) :
        /\ f.kind = "drain" /\ f.batch = pending /\ f.stalled = E!Top.stalled
        /\ stack' = [stack EXCEPT ![Height] = f]
  BY DrainTakesIs, InvScope
<1>3. /\ f \in Frames' /\ \A g \in Frames : g # E!Top => g \in Frames'
      /\ Frames' \subseteq Frames \cup {f}
  BY <1>1, <1>2, StackTyped, Replaced DEF Frames, Height
<1>4. SameCalculations BY <1>1, <1>2, <1>3 DEF SameCalculations, IsMethod
<1>5. ASSUME NEW o, Due(o) PROVE Due(o)'
  <2>1. CASE o \in pending \/ o \in E!Top.stalled BY <1>2, <1>3, <2>1 DEF Due, DueIn
  <2>2. CASE o \notin pending /\ o \notin E!Top.stalled
    <3>1. PICK g \in Frames : \/ g.kind = "notify" /\ \E n \in g.todo : n.obs = o
                              \/ g.kind = "drain" /\ o \in g.batch \cup g.stalled
                              \/ IsUpdate(g, o) /\ done[o] = "entered"
      BY <1>5, <2>2 DEF Due, DueIn
    <3>2. g \in Frames' BY <1>1, <1>3, <2>2, <3>1 DEF IsUpdate
    <3>. QED BY <3>1, <3>2 DEF Due, DueIn
  <2>. QED BY <2>1, <2>2
<1>6. \A g \in Frames : g.kind = "update" => g \in Frames' BY <1>1, <1>3
<1>7. Calmly BY <1>2, <1>3 DEF Calmly, Calm
<1>. QED BY <1>4, <1>5, <1>6, <1>7 DEF Carried

LEMMA DrainVisitsFrames ==
    ASSUME IInv, NEW v \in Observers, E!DrainVisits(v), done' = done
    PROVE  Carried
<1>1. /\ stack # <<>> /\ E!Top.kind = "drain" /\ E!Top = stack[Len(stack)] /\ pending' = pending
  BY DrainVisitsIs, InvScope DEF E!Top
<1>2. PICK f \in FrameOf(Observers), t \in Seq(FrameOf(Observers)) :
        /\ f.kind = "drain" /\ f.batch = E!Top.batch \ {v}
        /\ t = [stack EXCEPT ![Height] = f]
        /\ \/ /\ v \notin E!Busy
              /\ f.stalled = E!Top.stalled
              /\ stack' = Append(t, E!Update(v))
           \/ /\ v \in E!Busy
              /\ f.stalled = E!Top.stalled \cup {v}
              /\ stack' = t
  BY DrainVisitsIs, InvScope
<1>3. /\ f \in FramesOf(t) /\ \A g \in Frames : g # E!Top => g \in FramesOf(t)
      /\ FramesOf(t) \subseteq Frames \cup {f}
  BY <1>1, <1>2, StackTyped, Replaced DEF Frames, Height
<1>4. PICK u : u = E!Update(v) OBVIOUS
<1>5. u \in FrameOf(Observers) /\ IsUpdate(u, v)
  BY <1>4 DEF E!Update, FrameOf, IsUpdate
<1>6. FramesOf(Append(t, u)) = FramesOf(t) \cup {u}
  <2>1. t \in Seq(FrameOf(Observers)) /\ u \in FrameOf(Observers) BY <1>2, <1>5
  <2>. QED BY <2>1, Pushed
<1>7. Frames' = FramesOf(t) \/ Frames' = FramesOf(t) \cup {u}
  BY <1>2, <1>4, <1>6 DEF Frames
<1>8. SameCalculations
  BY <1>1, <1>2, <1>3, <1>5, <1>7 DEF SameCalculations, IsMethod, IsUpdate
<1>9. FramesOf(t) \subseteq Frames' BY <1>7
<1>10. ASSUME NEW o, Due(o) PROVE Due(o)'
  <2>1. CASE o \in pending BY <1>1, <2>1 DEF Due, DueIn
  <2>2. CASE o \notin pending
    <3>1. PICK g \in Frames : \/ g.kind = "notify" /\ \E n \in g.todo : n.obs = o
                              \/ g.kind = "drain" /\ o \in g.batch \cup g.stalled
                              \/ IsUpdate(g, o) /\ done[o] = "entered"
      BY <1>10, <2>2 DEF Due, DueIn
    <3>2. CASE g # E!Top
      <4>1. g \in Frames' BY <1>3, <1>9, <3>2
      <4>. QED BY <3>1, <4>1 DEF Due, DueIn
    <3>3. CASE g = E!Top
      <4>1. o \in E!Top.batch \cup E!Top.stalled BY <1>1, <3>1, <3>3 DEF IsUpdate
      <4>2. f \in Frames' BY <1>3, <1>9
      <4>3. CASE o \in f.batch \cup f.stalled BY <1>2, <4>2, <4>3 DEF Due, DueIn
      <4>4. CASE o \notin f.batch \cup f.stalled
        <5>1. o = v /\ v \notin E!Busy BY <1>2, <4>1, <4>4
        <5>2. u \in Frames' BY <1>2, <1>4, <1>6, <5>1 DEF Frames
        <5>3. done[v] = "entered" BY <5>1, FreeEntered
        <5>. QED BY <1>5, <5>1, <5>2, <5>3 DEF Due, DueIn
      <4>. QED BY <4>3, <4>4
    <3>. QED BY <3>2, <3>3
  <2>. QED BY <2>1, <2>2
<1>11. \A g \in Frames : g.kind = "update" => g \in Frames' BY <1>1, <1>3, <1>9
<1>12. Calmly
  <2>1. CASE v \in E!Busy
    <3>1. Frames' = FramesOf(t) BY <1>2, <2>1 DEF Frames
    <3>. QED BY <1>2, <1>3, <3>1 DEF Calmly, Calm
  <2>2. CASE v \notin E!Busy
    <3>1. done[v] = "entered" BY <2>2, FreeEntered
    <3>. QED BY <1>2, <1>3, <1>5, <1>7, <3>1 DEF Calmly, Calm
  <2>. QED BY <2>1, <2>2
<1>. QED BY <1>8, <1>10, <1>11, <1>12 DEF Carried

LEMMA DrainEndsFrames == ASSUME IInv, E!DrainEnds, done' = done PROVE Carried
<1>1. /\ stack # <<>> /\ E!Top.kind = "drain" /\ E!Top.batch = {} /\ pending = {}
      /\ pending' = E!Top.stalled /\ stack' = E!Below
  BY DrainEndsIs, InvScope
<1>2. /\ \A f \in Frames : f # E!Top => f \in Frames'
      /\ \A f : IsMethod(f, "calculate") => (f \in Frames <=> f \in Frames')
  BY <1>1, PoppedFrames DEF Frames, IsMethod
<1>3. ASSUME NEW o, Due(o) PROVE Due(o)'
  <2>1. CASE o \in E!Top.stalled BY <1>1, <2>1 DEF Due, DueIn
  <2>2. CASE o \notin E!Top.stalled
    <3>1. PICK g \in Frames : \/ g.kind = "notify" /\ \E n \in g.todo : n.obs = o
                              \/ g.kind = "drain" /\ o \in g.batch \cup g.stalled
                              \/ IsUpdate(g, o) /\ done[o] = "entered"
      BY <1>1, <1>3, <2>2 DEF Due, DueIn
    <3>2. g \in Frames' BY <1>1, <1>2, <2>2, <3>1 DEF IsUpdate
    <3>. QED BY <3>1, <3>2 DEF Due, DueIn
  <2>. QED BY <2>1, <2>2
<1>4. \A g \in Frames : g.kind = "update" => g \in Frames' BY <1>1, <1>2
<1>5. Calmly BY <1>1, PoppedFrames DEF Calmly, Frames
<1>. QED BY <1>2, <1>3, <1>4, <1>5 DEF Carried, SameCalculations

-----------------------------------------------------------------------------
(* Registrations, and who is ever notified.                                 *)

\* A step that moves no registration of the chain.
LEMMA SameRegistered ==
    ASSUME Registered, registry' = registry, target' = target, engine' = engine
    PROVE  Registered' /\ registry'["instrument"] = registry["instrument"]
  BY DEF Registered, Has

\* The updater moves to another engine.
LEMMA SwappedRegistered ==
    ASSUME IInv, Registered, NEW e \in Engines \cup {Null},
           registry' = Repoint(engine, e, "updater"), engine' = e, target' = target
    PROVE  Registered' /\ registry'["instrument"] = registry["instrument"]
<1>. USE InvScope
<1>1. engine \in Engines \cup {Null} /\ target \in Quotes \cup {Null} BY DEF Cells
<1>2. /\ \A x \in Observables : \A p : p # "updater" => (Has(x, p) <=> Has(x, p)')
      /\ \A x \in Observables : x # engine /\ Has(x, "updater") => Has(x, "updater")'
      /\ \A x \in Observables : x # engine /\ x # e => registry'[x] = registry[x]
      /\ e # Null => Has(e, "updater")'
  BY <1>1, RepointIs, Names
<1>3. \A n \in Engines : n # "updater" BY ObserversAssumption
<1>4. /\ "instrument" # engine /\ "instrument" # e /\ "date" # engine
  BY <1>1, ObservablesAssumption, NullAssumption, Names
<1>5. registry'["instrument"] = registry["instrument"] BY <1>2, <1>4, Names
<1>6. \A n \in Engines : Has("link", n)' BY <1>2, <1>3, Names DEF Registered
<1>7. Has("date", "updater")' BY <1>2, <1>4, Names DEF Registered
<1>8. target' # Null => Has(target, "forwarder")'
  <2>1. Has(target, "forwarder")' <=> \E r \in registry'[target] : r.obs = "forwarder" BY DEF Has
  <2>. QED BY <1>1, <1>2, Names DEF Registered
<1>9. engine' # Null => Has(engine, "updater")' BY <1>2 DEF Has
<1>. QED BY <1>5, <1>6, <1>7, <1>8, <1>9 DEF Registered

LEMMA RegisteredKept ==
    ASSUME IInv, Registered, [Next]_vars
    PROVE  Registered' /\ registry'["instrument"] = registry["instrument"]
<1>. DEFINE Goal == Registered' /\ registry'["instrument"] = registry["instrument"]
<1>. USE InvScope
<1>1. ASSUME NEW q \in Quotes \cup {Null}, LinkTo(q) PROVE Goal
  <2>1. /\ registry' = Repoint(target, q, "forwarder") /\ target' = q /\ engine' = engine
        /\ target \in Quotes \cup {Null} /\ engine \in Engines \cup {Null}
    BY <1>1 DEF LinkTo, core, Cells
  <2>2. /\ \A x \in Observables : \A p : p # "forwarder" => (Has(x, p) <=> Has(x, p)')
        /\ \A x \in Observables : x # target /\ x # q => registry'[x] = registry[x]
        /\ q # Null => Has(q, "forwarder")'
    BY <2>1, RepointIs, Names
  <2>3. \A n \in Engines : n # "forwarder" BY ObserversAssumption
  <2>4. "instrument" # target /\ "instrument" # q
    BY <2>1, ObservablesAssumption, NullAssumption, Names
  <2>5. registry'["instrument"] = registry["instrument"] BY <2>2, <2>4, Names
  <2>6. (\A n \in Engines : Has("link", n)') /\ Has("date", "updater")'
    BY <2>2, <2>3, Names DEF Registered
  <2>7. engine' # Null => Has(engine, "updater")'
    <3>1. Has(engine, "updater")' <=> \E r \in registry'[engine] : r.obs = "updater"
      BY <2>1 DEF Has
    <3>. QED BY <2>1, <2>2, <3>1, Names DEF Registered, Has
  <2>8. target' # Null => Has(target, "forwarder")' BY <2>1, <2>2 DEF Has
  <2>. QED BY <2>5, <2>6, <2>7, <2>8 DEF Registered
<1>2. ASSUME NEW e \in Engines \cup {Null}, SwapEngine(e) PROVE Goal
  BY <1>2, SwappedRegistered DEF SwapEngine, market
<1>3. ASSUME NEW e \in Engines, SwapEngineSilently(e) PROVE Goal
  BY <1>3, SwappedRegistered DEF SwapEngineSilently, market
<1>4. ASSUME NEW q \in Quotes, NEW v, SetValue(q, v) PROVE Goal
  <2>1. registry' = registry BY <1>4, SetValueIs, NotifyIs
  <2>. QED BY <1>4, <2>1, SameRegistered DEF SetValue, core
<1>5. ASSUME SetEvaluationDate PROVE Goal
  BY <1>5, NotifyIs, Names, SameRegistered DEF SetEvaluationDate, core
<1>6. ASSUME Freeze \/ Unfreeze PROVE Goal
  BY <1>6, SameRegistered DEF Freeze, Unfreeze, engineVars, market
<1>7. ASSUME Npv \/ Recalculate \/ EngineReads \/ CalculationEnds \/ MethodReturns PROVE Goal
  BY <1>7, SameRegistered
  DEF Npv, Recalculate, EngineReads, CalculationEnds, MethodReturns, OnlyCalculates, market
<1>8. ASSUME NEW o \in Observers, NEW x \in Observables, Forwards(o, x) PROVE Goal
  BY <1>8, NotifyIs, SameRegistered DEF Forwards, market, core
<1>9. ASSUME LazyUpdate PROVE Goal
  <2>1. registry' = registry BY <1>9, NotifyIs, Names DEF LazyUpdate, engineVars
  <2>. QED BY <1>9, <2>1, SameRegistered DEF LazyUpdate, market
<1>10. ASSUME NEW c \in Readers, ReaderUpdate(c) PROVE Goal
  BY <1>10, SameRegistered DEF ReaderUpdate, OnlyCalculates, market
<1>11. ASSUME NEW o \in Observers, Returns(o) PROVE Goal
  BY <1>11, SameRegistered DEF Returns, E!UpdateReturns, market
<1>12. ASSUME RecalculationEnds \/ Panics PROVE Goal
  BY <1>12, SameRegistered DEF RecalculationEnds, Panics, E!Unwind, market, core
<1>13. ASSUME NotificationStep PROVE Goal
  <2>1. registry' = registry
    BY <1>13, VisitIs, RoundEndsIs, DrainTakesIs, DrainVisitsIs, DrainEndsIs DEF NotificationStep
  <2>. QED BY <1>13, <2>1, SameRegistered DEF NotificationStep, market, core
<1>14. ASSUME UNCHANGED vars PROVE Goal
  BY <1>14, SameRegistered DEF vars, engineVars, market, core
<1>15. ASSUME UserStep PROVE Goal
  BY <1>1, <1>2, <1>3, <1>4, <1>5, <1>6, <1>7, <1>12, <1>15 DEF UserStep, InputStep, EngineWrites
<1>16. ASSUME BodyStep PROVE Goal
  BY <1>7, <1>8, <1>9, <1>10, <1>11, <1>12, <1>16, Names DEF BodyStep
<1>. QED BY <1>13, <1>14, <1>15, <1>16 DEF Next, ProgramStep

LEMMA UnwatchedKept == ASSUME IInv, Unwatched, [Next]_vars PROVE Unwatched'
<1>1. PICK S : S = Observers \ Readers OBVIOUS
<1>2. {"forwarder", "updater"} \subseteq S BY <1>1, Names, ObserversAssumption DEF Clients
<1>3. Scope(S) BY <1>1, <1>2, InvScope DEF Scope, Unwatched
<1>4. Confined(S)' BY <1>3, ScopeKept, InvScope DEF Scope
<1>. QED BY <1>1, <1>4 DEF Unwatched

LEMMA UndisturbedKept ==
    ASSUME IInv, Registered, Undisturbed, [Next]_vars
    PROVE  Undisturbed' /\ Strangers' = Strangers
<1>1. PICK S : S = Observers \ (Writers \cup Strangers) OBVIOUS
<1>2. {"forwarder", "updater"} \subseteq S
  BY <1>1, Names, ObserversAssumption DEF Clients, Strangers
<1>3. Scope(S) BY <1>1, <1>2, InvScope DEF Scope, Undisturbed
<1>4. Confined(S)' BY <1>3, ScopeKept, InvScope DEF Scope
<1>5. registry'["instrument"] = registry["instrument"] BY RegisteredKept
<1>6. Strangers' = Strangers BY <1>5 DEF Strangers, Has
<1>7. ~Unread' BY <1>5 DEF Undisturbed, Unread
<1>8. Confined(Observers \ (Writers \cup Strangers))' BY <1>1, <1>4, <1>6 DEF Confined
<1>. QED BY <1>6, <1>7, <1>8 DEF Undisturbed

\* Where readers listen no writer runs, and the other way round.
LEMMA UndisturbedRuns ==
    ASSUME IInv, Undisturbed
    PROVE  /\ \A w \in Writers : ~InUpdate(w)
           /\ \A c \in Strangers : ~InUpdate(c)
           /\ InUserCode => stack = <<>> /\ ~lazy.updating
<1>1. ASSUME NEW o, InUpdate(o) PROVE o \notin Writers \cup Strangers
  <2>1. stack # <<>> /\ E!Top.kind = "update" /\ E!Top.obs = o
    BY <1>1 DEF InUpdate, E!TopIs
  <2>2. PICK S : S = Observers \ (Writers \cup Strangers) OBVIOUS
  <2>3. Confined(S) BY <2>2 DEF Undisturbed
  <2>4. o \in S BY <2>1, <2>3, TopFrame
  <2>. QED BY <2>2, <2>4
<1>2. ASSUME stack = <<>> PROVE ~lazy.updating
  <2>1. Len(stack) = 0 BY <1>2
  <2>2. "updater" \in Observers BY Names
  <2>3. done["updater"] = "entered" BY <2>1, <2>2, InvScope DEF Shape, UpdatesOpen
  <2>4. ~Swapping(stack) BY <2>1 DEF Swapping
  <2>. QED BY <2>3, <2>4, InvScope DEF Shape, Guard
<1>. QED BY <1>1, <1>2 DEF InUserCode

LEMMA UnwatchedRuns ==
    ASSUME IInv, Unwatched
    PROVE  \A c \in Readers : ~InUpdate(c)
<1>1. ASSUME NEW o, InUpdate(o) PROVE o \notin Readers
  <2>1. stack # <<>> /\ E!Top.kind = "update" /\ E!Top.obs = o
    BY <1>1 DEF InUpdate, E!TopIs
  <2>2. PICK S : S = Observers \ Readers OBVIOUS
  <2>3. Confined(S) BY <2>2 DEF Unwatched
  <2>4. o \in S BY <2>1, <2>3, TopFrame
  <2>. QED BY <2>2, <2>4
<1>. QED BY <1>1

-----------------------------------------------------------------------------
(* What is cached stays current.                                            *)

Fresh == GuardedFresh /\ CachedFresh
Begins == IInv /\ Registered /\ Fresh /\ (Unwatched \/ Undisturbed)
          /\ (Undisturbed => Undisturbed')

LEMMA ValuedKept ==
    ASSUME Valued, SameCalculations, UNCHANGED <<market, engine, results>>
    PROVE  Valued'
<1>1. Current' = Current /\ expired' = expired BY DEF Current, Price, market
<1>2. \A f : IsMethod(f, "calculate") => (f \in Frames <=> f \in Frames')
  BY DEF SameCalculations
<1>3. Calculating' <=> Calculating BY <1>2 DEF Calculating
<1>4. \A f \in Frames' : IsMethod(f, "calculate") => Good(f)'
  BY <1>1, <1>2 DEF Valued, Good
<1>5. ~Calculating' => results' = Current' BY <1>1, <1>3 DEF Valued
<1>. QED BY <1>4, <1>5 DEF Valued

LEMMA ComingKept ==
    ASSUME Cells, engine' = engine, Coming,
           \A o \in {"forwarder", "updater"} \cup Engines : Due(o) => Due(o)'
    PROVE  Coming'
<1>1. engine \in Engines \cup {Null} BY DEF Cells
<1>2. CASE Due("updater") BY <1>2 DEF Coming
<1>3. CASE engine # Null /\ Due(engine)
  <2>1. PICK e : e = engine OBVIOUS
  <2>2. e \in Engines /\ Due(e) BY <1>1, <1>3, <2>1
  <2>3. Due(e)' BY <2>2
  <2>4. Due(engine)' BY <2>1, <2>3 DEF Due
  <2>. QED BY <1>3, <2>4 DEF Coming
<1>4. CASE engine # Null /\ Due("forwarder") BY <1>4 DEF Coming
<1>. QED BY <1>2, <1>3, <1>4 DEF Coming

\* A step that computes and changes nothing the price depends on.
LEMMA QuietFresh ==
    ASSUME Begins, lazy'.calculated => lazy.calculated, lazy'.updating => lazy.updating,
           Valued => Valued', Coming => Coming' \/ lazy.updating
    PROVE  Fresh'
<1>1. ASSUME lazy'.updating, lazy'.calculated PROVE Undisturbed' /\ Valued'
  BY <1>1 DEF Begins, Fresh, GuardedFresh
<1>2. ASSUME lazy'.calculated PROVE Valued' \/ Coming'
  <2>1. CASE lazy.updating BY <1>2, <2>1 DEF Begins, Fresh, GuardedFresh
  <2>2. CASE ~lazy.updating BY <1>2, <2>2 DEF Begins, Fresh, CachedFresh
  <2>. QED BY <2>1, <2>2
<1>. QED BY <1>1, <1>2 DEF Fresh, GuardedFresh, CachedFresh

\* An input moves: who depends on it is on the way to be told.
LEMMA MovedFresh ==
    ASSUME Begins, lazy' = lazy, ~(lazy.updating /\ lazy.calculated), results' = results,
           SameCalculations, Coming => Coming',
           \/ Coming'
           \/ Current' = Current /\ expired' = expired
    PROVE  Fresh'
<1>1. GuardedFresh' BY DEF GuardedFresh
<1>2. ASSUME lazy'.calculated, ~Coming' PROVE Valued'
  <2>1. Valued BY <1>2 DEF Begins, Fresh, CachedFresh
  <2>2. Current' = Current /\ expired' = expired BY <1>2
  <2>3. \A f : IsMethod(f, "calculate") => (f \in Frames <=> f \in Frames')
    BY DEF SameCalculations
  <2>4. Calculating' <=> Calculating BY <2>3 DEF Calculating
  <2>5. \A f \in Frames' : IsMethod(f, "calculate") => Good(f)'
    BY <2>1, <2>2, <2>3 DEF Valued, Good
  <2>. QED BY <2>1, <2>2, <2>4, <2>5 DEF Valued
<1>. QED BY <1>1, <1>2 DEF Fresh, CachedFresh

\* Nothing is marked calculated.
LEMMA ForgottenFresh == ASSUME ~lazy'.calculated PROVE Fresh'
  BY DEF Fresh, GuardedFresh, CachedFresh

\* An input moves, and whoever depends on it is owed a notification.
InputMoves == \/ \E q \in Quotes, v \in Values \cup {Null} : SetValue(q, v)
              \/ \E q \in Quotes \cup {Null} : LinkTo(q)
              \/ SetEvaluationDate

Tells ==
    /\ UNCHANGED <<lazy, results, engine, done, seen>>
    /\ SameCalculations /\ Calmly /\ Frames \subseteq Frames'
    /\ \A o : Due(o) => Due(o)'
    /\ Coming => Coming'
    /\ Coming' \/ (Current' = Current /\ expired' = expired)

LEMMA InputsTell == ASSUME IInv, Registered, InputMoves PROVE Tells
<1>1. ASSUME NEW q \in Quotes, NEW v, SetValue(q, v) PROVE Tells
  <2>1. /\ E!NotifyObservers(q) /\ q \in Observables /\ expired' = expired /\ target' = target
        /\ UNCHANGED <<lazy, results, engine, done, seen>>
        /\ quote' = [quote EXCEPT ![q] = Stored(v)]
    BY <1>1, SetValueIs, InvScope DEF SetValue, core, bodies
  <2>2. /\ SameCalculations /\ Calmly /\ Frames \subseteq Frames'
        /\ \A o : Has(q, o) => Due(o)'
        /\ \A o : Due(o) => Due(o)'
    BY <2>1, NotifyFrames
  <2>3. Coming => Coming' BY <2>1, <2>2, ComingKept, InvScope
  <2>4. Coming' \/ Current' = Current
    <3>1. CASE target = Null \/ engine = Null \/ target # q
      <4>1. Price' = Price BY <2>1, <3>1, InvScope DEF Price, Cells
      <4>. QED BY <2>1, <4>1 DEF Current
    <3>2. CASE target # Null /\ engine # Null /\ target = q
      <4>1. Has(q, "forwarder") BY <3>2 DEF Registered
      <4>2. Due("forwarder")' BY <2>2, <4>1
      <4>. QED BY <2>1, <3>2, <4>2 DEF Coming
    <3>. QED BY <3>1, <3>2
  <2>. QED BY <2>1, <2>2, <2>3, <2>4 DEF Tells
<1>2. ASSUME NEW q \in Quotes \cup {Null}, LinkTo(q) PROVE Tells
  <2>1. /\ Enters(<<E!Round("link")>>) /\ expired' = expired
        /\ UNCHANGED <<lazy, results, engine, done, seen>>
    BY <1>2 DEF LinkTo, core, bodies
  <2>2. /\ SameCalculations /\ Calmly /\ Frames \subseteq Frames'
        /\ \A o : Has("link", o) => Due(o)'
        /\ \A o : Due(o) => Due(o)'
    BY <2>1, EntersFrames, Names
  <2>3. Coming => Coming' BY <2>1, <2>2, ComingKept, InvScope
  <2>4. Coming' \/ Current' = Current
    <3>1. CASE engine = Null BY <2>1, <3>1 DEF Current, Price
    <3>2. CASE engine # Null
      <4>1. engine \in Engines BY <3>2, InvScope DEF Cells
      <4>2. Due(engine)' BY <2>1, <2>2, <4>1 DEF Registered, Due
      <4>. QED BY <2>1, <3>2, <4>2 DEF Coming
    <3>. QED BY <3>1, <3>2
  <2>. QED BY <2>1, <2>2, <2>3, <2>4 DEF Tells
<1>3. ASSUME SetEvaluationDate PROVE Tells
  <2>1. E!NotifyObservers("date") /\ UNCHANGED <<lazy, results, engine, done, seen>>
    BY <1>3 DEF SetEvaluationDate, core, bodies
  <2>2. /\ SameCalculations /\ Calmly /\ Frames \subseteq Frames'
        /\ \A o : Has("date", o) => Due(o)'
        /\ \A o : Due(o) => Due(o)'
    BY <2>1, NotifyFrames, Names
  <2>3. Coming => Coming' BY <2>1, <2>2, ComingKept, InvScope
  <2>4. Coming' BY <2>2 DEF Registered, Coming
  <2>. QED BY <2>1, <2>2, <2>3, <2>4 DEF Tells
<1>. QED BY <1>1, <1>2, <1>3 DEF InputMoves

LEMMA MovesFresh ==
    ASSUME Begins, InputMoves, ~(lazy.updating /\ lazy.calculated)
    PROVE  Fresh'
  BY InputsTell, MovedFresh DEF Begins, Tells

LEMMA InputFresh == ASSUME Begins, InUserCode, InputStep PROVE Fresh'
<1>. USE DEF Begins
<1>1. ~(lazy.updating /\ lazy.calculated)
  BY UndisturbedRuns DEF Fresh, GuardedFresh
<1>2. ASSUME InputMoves PROVE Fresh' BY <1>1, <1>2, MovesFresh
<1>3. ASSUME NEW e \in Engines \cup {Null}, SwapEngine(e) PROVE Fresh'
  <2>1. ~lazy'.calculated BY <1>1, <1>3, InvScope DEF SwapEngine, Invalidated, Cells
  <2>. QED BY <2>1, ForgottenFresh
<1>4. ASSUME NEW e \in Engines, SwapEngineSilently(e) PROVE Fresh'
  <2>1. ~lazy'.calculated BY <1>4, InvScope DEF SwapEngineSilently, Invalidated, Cells
  <2>. QED BY <2>1, ForgottenFresh
<1>5. ASSUME Freeze PROVE Fresh'
  <2>1. /\ stack' = stack /\ pending' = pending /\ engine' = engine /\ done' = done
        /\ UNCHANGED <<market, engine, results>>
        /\ lazy'.calculated = lazy.calculated /\ lazy'.updating = lazy.updating
    BY <1>5, InvScope DEF Freeze, engineVars, bodies, Cells
  <2>2. SameCalculations /\ (Coming => Coming')
    BY <2>1 DEF SameCalculations, Frames, Coming, Due
  <2>. QED BY <2>1, <2>2, ValuedKept, QuietFresh
<1>6. ASSUME Unfreeze PROVE Fresh'
  <2>1. /\ Enters(<<Method("notify"), E!Round("instrument")>>)
        /\ engine' = engine /\ done' = done /\ UNCHANGED <<market, engine, results>>
        /\ lazy'.calculated = lazy.calculated /\ lazy'.updating = lazy.updating
    BY <1>6, InvScope DEF Unfreeze, bodies, Cells
  <2>2. SameCalculations /\ \A o : Due(o) => Due(o)' BY <2>1, EntersFrames, Names
  <2>3. Coming => Coming' BY <2>1, <2>2, ComingKept, InvScope
  <2>. QED BY <2>1, <2>2, <2>3, ValuedKept, QuietFresh
<1>. QED BY <1>2, <1>3, <1>4, <1>5, <1>6 DEF InputStep, InputMoves

LEMMA CalculateFresh ==
    ASSUME Begins, NEW s \in Seq(FrameOf(Observers)), Frames \subseteq FramesOf(s),
           \A f \in FramesOf(s) : ~IsMethod(f, "calculate"),
           NEW l \in [calculated : BOOLEAN, failed : BOOLEAN, frozen : BOOLEAN, updating : BOOLEAN],
           l.calculated => lazy.calculated, l.updating = lazy.updating,
           Calculate(l, s), UNCHANGED <<market, engine, pending>>,
           lazy.updating => Undisturbed,
           \A o \in {"forwarder", "updater"} \cup Engines : done'[o] = done[o]
    PROVE  Fresh'
<1>. USE DEF Begins
<1>1. Current' = Current \/ results' # results BY DEF Current, Price, market
<1>2. CASE Cached(l)
  <2>1. lazy' = l /\ stack' = s /\ results' = results BY <1>2 DEF Calculate, Cached
  <2>2. SameCalculations BY <2>1 DEF SameCalculations, Frames
  <2>3. \A o \in {"forwarder", "updater"} \cup Engines : Due(o) => Due(o)'
    <3>1. ASSUME NEW o \in {"forwarder", "updater"} \cup Engines, Due(o) PROVE Due(o)'
      <4>1. Frames' = FramesOf(s) BY <2>1 DEF Frames
      <4>2. DueIn(Frames', pending', done', o) BY <3>1, <4>1, DueGrows DEF Due
      <4>. QED BY <4>2 DEF Due
    <3>. QED BY <3>1
  <2>4. Coming => Coming' BY <2>3, ComingKept, InvScope
  <2>. QED BY <2>1, <2>2, <2>4, ValuedKept, QuietFresh
<1>3. CASE ~Cached(l) /\ expired
  <2>1. /\ stack' = s /\ results' = ZeroPrice /\ lazy'.updating = lazy.updating
    BY <1>3 DEF Calculate
  <2>2. ~Calculating' BY <2>1 DEF Calculating, Frames
  <2>3. results' = Current' BY <1>3, <2>1 DEF Current, market
  <2>4. Valued' BY <2>2, <2>3 DEF Valued, Calculating
  <2>. QED BY <2>1, <2>4 DEF Fresh, GuardedFresh, CachedFresh
<1>4. CASE ~Cached(l) /\ ~expired
  <2>1. /\ stack' = Append(s, Calculation) /\ lazy'.updating = lazy.updating
    BY <1>4 DEF Calculate
  <2>2. Calculation \in FrameOf(Observers) /\ IsMethod(Calculation, "calculate") BY FramesThere
  <2>3. FramesOf(Append(s, Calculation)) = FramesOf(s) \cup {Calculation} BY <2>2, Pushed
  <2>4. Frames' = FramesOf(s) \cup {Calculation} BY <2>1, <2>3 DEF Frames
  <2>5. Calculating' BY <2>2, <2>4 DEF Calculating
  <2>6. ~expired' /\ ~Calculation.priced BY <1>4 DEF market, Calculation
  <2>7. \A f \in Frames' : IsMethod(f, "calculate") => Good(f)' BY <2>4, <2>6 DEF Good
  <2>8. Valued' BY <2>5, <2>7 DEF Valued
  <2>. QED BY <2>1, <2>8 DEF Fresh, GuardedFresh, CachedFresh
<1>. QED BY <1>2, <1>3, <1>4

\* Nobody has borrowed the instrument: there is no calculation.
LEMMA NoneCalculating ==
    ASSUME IInv, ~Borrowed
    PROVE  \A f \in Frames : f.kind # "method"
  BY BusyIs, InvScope DEF NoMethod, Frames, FramesOf, Height

LEMMA PricingFresh ==
    ASSUME Begins, stack = <<>>, Npv \/ Recalculate
    PROVE  Fresh'
<1>. USE DEF Begins
<1>1. /\ ~Borrowed /\ UNCHANGED <<market, engine, pending>> /\ done' = done
  BY DEF Npv, Recalculate, OnlyCalculates, bodies
<1>2. ~lazy.updating
  <2>1. Len(stack) = 0 OBVIOUS
  <2>2. "updater" \in Observers BY Names
  <2>3. done["updater"] = "entered" BY <2>1, <2>2, InvScope DEF Shape, UpdatesOpen
  <2>4. ~Swapping(stack) BY <2>1 DEF Swapping
  <2>. QED BY <2>3, <2>4, InvScope DEF Shape, Guard
<1>3. CASE Npv
  <2>1. Calculate(lazy, stack) BY <1>3 DEF Npv
  <2>2. \A f \in Frames : ~IsMethod(f, "calculate") BY <1>1, NoneCalculating DEF IsMethod
  <2>. QED BY <1>1, <1>2, <2>1, <2>2, InvScope, StackTyped, CalculateFresh DEF Cells, Frames
<1>4. CASE Recalculate
  <2>1. PICK l : l = [Invalidated(lazy) EXCEPT !.frozen = FALSE] OBVIOUS
  <2>2. PICK s : s = Append(stack, Recalculation(lazy.frozen)) OBVIOUS
  <2>3. Calculate(l, s) BY <1>4, <2>1, <2>2 DEF Recalculate
  <2>4. /\ l \in [calculated : BOOLEAN, failed : BOOLEAN, frozen : BOOLEAN, updating : BOOLEAN]
        /\ ~l.calculated /\ l.updating = lazy.updating
    BY <2>1, InvScope DEF Invalidated, Cells
  <2>5. Recalculation(lazy.frozen) \in FrameOf(Observers)
        /\ IsMethod(Recalculation(lazy.frozen), "recalculate")
    BY FramesThere, InvScope DEF Cells
  <2>6. s \in Seq(FrameOf(Observers)) /\ FramesOf(s) = Frames \cup {Recalculation(lazy.frozen)}
    <3>1. PICK r : r = Recalculation(lazy.frozen) OBVIOUS
    <3>2. r \in FrameOf(Observers) /\ stack \in Seq(FrameOf(Observers)) BY <2>5, <3>1, StackTyped
    <3>3. /\ Append(stack, r) \in Seq(FrameOf(Observers))
          /\ FramesOf(Append(stack, r)) = FramesOf(stack) \cup {r}
      BY ONLY <3>2, Pushed
    <3>. QED BY <2>2, <3>1, <3>3 DEF Frames
  <2>7. \A f \in FramesOf(s) : ~IsMethod(f, "calculate")
    BY <1>1, <2>5, <2>6, NoneCalculating DEF IsMethod
  <2>. QED BY <1>1, <1>2, <2>3, <2>4, <2>6, <2>7, CalculateFresh
<1>. QED BY <1>3, <1>4

LEMMA ReaderFresh == ASSUME Begins, NEW c \in Readers, ReaderUpdate(c) PROVE Fresh'
<1>. USE DEF Begins
<1>1. UNCHANGED <<market, engine, pending>> /\ InUpdate(c)
  BY DEF ReaderUpdate, OnlyCalculates
<1>2. \A o \in {"forwarder", "updater"} \cup Engines : o # c
  BY ObserversAssumption DEF Clients
<1>3. \A o \in {"forwarder", "updater"} \cup Engines : done'[o] = done[o]
  BY <1>2, Names, InvScope DEF ReaderUpdate, Cells
<1>4. CASE Borrowed
  <2>1. stack' = stack /\ lazy' = lazy /\ results' = results BY <1>4 DEF ReaderUpdate
  <2>2. SameCalculations BY <2>1 DEF SameCalculations, Frames
  <2>3. \A o \in {"forwarder", "updater"} \cup Engines : Due(o) => Due(o)'
    BY <1>1, <1>3, <2>1 DEF Due, DueIn, Frames
  <2>4. Coming => Coming' BY <1>1, <2>3, ComingKept, InvScope
  <2>. QED BY <1>1, <2>1, <2>2, <2>4, ValuedKept, QuietFresh
<1>5. CASE ~Borrowed
  <2>1. Calculate(lazy, stack) BY <1>5 DEF ReaderUpdate
  <2>2. \A f \in Frames : ~IsMethod(f, "calculate") BY <1>5, NoneCalculating DEF IsMethod
  <2>3. Undisturbed BY <1>1, UnwatchedRuns
  <2>. QED BY <1>1, <1>3, <2>1, <2>2, <2>3, InvScope, StackTyped, CalculateFresh DEF Cells, Frames
<1>. QED BY <1>4, <1>5

\* A frame that owes nobody is dropped or replaced by another.
LEMMA MethodKeepsComing ==
    ASSUME IInv, engine' = engine, pending' = pending,
           \A o \in {"forwarder", "updater"} \cup Engines : done[o] = "entered" => done'[o] = "entered",
           \A f \in Frames : f # E!Top => f \in Frames',
           \/ E!Top.kind = "method"
           \/ E!Top.kind = "update" /\ E!Top.obs \notin Writers /\ done[E!Top.obs] # "entered"
           \/ E!Top.kind = "update" /\ E!Top.obs \in Writers,
           Coming
    PROVE  Coming'
<1>1. \A o \in {"forwarder", "updater"} \cup Engines : o \notin Writers
  BY ObserversAssumption DEF Clients
<1>2. ASSUME NEW o \in {"forwarder", "updater"} \cup Engines, Due(o) PROVE Due(o)'
  <2>1. DueIn(Frames', pending, done', o) BY <1>1, <1>2, DueKept DEF Due, IsUpdate
  <2>. QED BY <2>1 DEF Due
<1>. QED BY <1>2, ComingKept, InvScope

LEMMA EngineReadsFresh == ASSUME Begins, EngineReads PROVE Fresh'
<1>. USE DEF Begins
<1>1. /\ UNCHANGED <<market, engine, pending, results>> /\ done' = done /\ lazy' = lazy
  BY DEF EngineReads, OnlyCalculates, bodies
<1>2. /\ stack # <<>> /\ IsMethod(E!Top, "calculate") /\ ~E!Top.priced /\ E!Top \in Frames
  BY ReadIs, TopFrame, InvScope DEF Scope
<1>3. PICK f \in FrameOf(Observers) :
        /\ IsMethod(f, "calculate") /\ f.priced /\ f.price = Price
        /\ stack' = [stack EXCEPT ![Height] = f]
  BY ReadIs, InvScope
<1>4. /\ f \in Frames' /\ \A g \in Frames : g # E!Top => g \in Frames'
      /\ Frames' \subseteq Frames \cup {f}
  BY <1>2, <1>3, StackTyped, Replaced DEF Frames, Height, E!Top
<1>5. ASSUME Valued PROVE Valued'
  <2>1. ~expired BY <1>2, <1>5 DEF Valued, Good
  <2>2. Current' = Current /\ expired' = expired /\ Current = Price
    BY <1>1, <2>1 DEF Current, Price, market
  <2>3. \A g \in Frames' : IsMethod(g, "calculate") => Good(g)'
    BY <1>3, <1>4, <1>5, <2>2 DEF Valued, Good
  <2>4. Calculating' BY <1>3, <1>4 DEF Calculating
  <2>. QED BY <2>3, <2>4 DEF Valued
<1>6. Coming => Coming' BY <1>1, <1>2, <1>4, MethodKeepsComing DEF IsMethod
<1>. QED BY <1>1, <1>5, <1>6, QuietFresh

LEMMA CalculationEndsFresh == ASSUME Begins, CalculationEnds PROVE Fresh'
<1>. USE DEF Begins
<1>1. /\ UNCHANGED <<market, engine, pending>> /\ done' = done
      /\ stack # <<>> /\ IsMethod(E!Top, "calculate") /\ E!Top.priced /\ stack' = E!Below
  BY DEF CalculationEnds, OnlyCalculates, bodies, InMethod, E!TopIs, IsMethod
<1>2. /\ \A f \in Frames : f # E!Top => f \in Frames'
      /\ Frames' \subseteq Frames /\ E!Top \in Frames
  BY <1>1, PoppedFrames, TopFrame, InvScope DEF Frames, Scope
<1>3. CASE E!Top.price = Null
  <2>1. ~lazy'.calculated BY <1>3, InvScope DEF CalculationEnds, Failed, Cells
  <2>. QED BY <2>1, ForgottenFresh
<1>4. CASE E!Top.price # Null
  <2>1. /\ results' = E!Top.price
        /\ lazy'.calculated = lazy.calculated /\ lazy'.updating = lazy.updating
    BY <1>4, InvScope DEF CalculationEnds, Succeeded, Cells
  <2>2. ASSUME Valued PROVE Valued'
    <3>1. Current' = Current /\ expired' = expired BY <1>1 DEF Current, Price, market
    <3>2. results' = Current' BY <1>1, <1>2, <2>1, <2>2, <3>1 DEF Valued, Good
    <3>3. \A g \in Frames' : IsMethod(g, "calculate") => Good(g)'
      BY <1>2, <2>2, <3>1 DEF Valued, Good
    <3>. QED BY <3>2, <3>3 DEF Valued
  <2>3. Coming => Coming' BY <1>1, <1>2, MethodKeepsComing DEF IsMethod
  <2>. QED BY <2>1, <2>2, <2>3, QuietFresh
<1>. QED BY <1>3, <1>4

\* A method of the instrument ends, and lets go of the guard or of the frozen mark.
LEMMA RecalculationEndFrames ==
    ASSUME IInv, RecalculationEnds
    PROVE  /\ stack # <<>> /\ IsMethod(E!Top, "recalculate") /\ E!Top \in Frames
           /\ Frames' = FramesOf(E!Below) \cup {Method("notify"), E!Round("instrument")}
           /\ \A f \in Frames : f # E!Top => f \in Frames'
           /\ FramesOf(E!Below) \subseteq Frames
           /\ SameCalculations /\ Calmly
           /\ \A o : Has("instrument", o) => Due(o)'
<1>1. /\ stack # <<>> /\ IsMethod(E!Top, "recalculate")
      /\ stack' = Append(Append(E!Below, Method("notify")), E!Round("instrument"))
  BY RecalculationEndsIs, InvScope
<1>2. PICK b, m, r : b = E!Below /\ m = Method("notify") /\ r = E!Round("instrument") OBVIOUS
<1>3. /\ b \in Seq(FrameOf(Observers)) /\ E!Top \in Frames
      /\ \A f \in Frames : f # E!Top => f \in FramesOf(b)
      /\ \A f : IsMethod(f, "calculate") => (f \in Frames <=> f \in FramesOf(b))
  BY <1>1, <1>2, TopFrame, PoppedFrames, InvScope DEF Scope, IsMethod
<1>4. /\ m \in FrameOf(Observers) /\ IsMethod(m, "notify")
      /\ r \in FrameOf(Observers) /\ r.kind = "notify"
  BY <1>2, FramesThere, RoundIs, InvScope, Names
<1>5. /\ Append(b, m) \in Seq(FrameOf(Observers))
      /\ FramesOf(Append(b, m)) = FramesOf(b) \cup {m}
  BY ONLY <1>3, <1>4, Pushed
<1>6. FramesOf(Append(Append(b, m), r)) = FramesOf(Append(b, m)) \cup {r}
  <2>1. PICK t : t = Append(b, m) OBVIOUS
  <2>2. t \in Seq(FrameOf(Observers)) /\ r \in FrameOf(Observers) BY <1>4, <1>5, <2>1
  <2>3. FramesOf(Append(t, r)) = FramesOf(t) \cup {r} BY ONLY <2>2, Pushed
  <2>. QED BY <2>1, <2>3
<1>7. Frames' = FramesOf(b) \cup {m, r} BY <1>1, <1>2, <1>5, <1>6 DEF Frames
<1>8. SameCalculations BY <1>3, <1>4, <1>7 DEF SameCalculations, IsMethod
<1>9. \A o : Has("instrument", o) => Due(o)' BY <1>2, <1>7, RoundOwes, Names
<1>10. FramesOf(b) \subseteq Frames BY <1>1, <1>2, PoppedFrames
<1>11. Calmly BY <1>4, <1>7, <1>10 DEF Calmly, Calm
<1>. QED BY <1>1, <1>2, <1>3, <1>7, <1>8, <1>9, <1>10, <1>11

LEMMA MethodEndFresh == ASSUME Begins, RecalculationEnds \/ MethodReturns PROVE Fresh'
<1>. USE DEF Begins
<1>1. UNCHANGED <<market, engine, pending, results>> /\ done' = done
  BY DEF RecalculationEnds, MethodReturns, OnlyCalculates, bodies
<1>2. lazy'.calculated = lazy.calculated /\ (lazy'.updating => lazy.updating)
  BY InvScope DEF RecalculationEnds, MethodReturns, Cells
<1>3. /\ E!Top.kind = "method" /\ SameCalculations
      /\ \A f \in Frames : f # E!Top => f \in Frames'
  <2>1. CASE RecalculationEnds BY <2>1, RecalculationEndFrames DEF IsMethod
  <2>2. CASE MethodReturns
    <3>1. /\ stack # <<>> /\ E!Top.kind = "method" /\ ~IsMethod(E!Top, "calculate")
          /\ stack' = E!Below
      BY <2>2 DEF MethodReturns, InMethod, E!TopIs, IsMethod
    <3>. QED BY <3>1, PoppedFrames DEF Frames, SameCalculations
  <2>. QED BY <2>1, <2>2
<1>4. Coming => Coming' BY <1>1, <1>3, MethodKeepsComing
<1>. QED BY <1>1, <1>2, <1>3, <1>4, ValuedKept, QuietFresh

\* A link or an engine passes the notification on to the next of the chain.
LEMMA ForwardsComing ==
    ASSUME IInv, Registered, NEW o \in Observers \ {"updater"}, NEW x \in Observables, Forwards(o, x),
           o = "forwarder" => x = "link", o \in Engines => x = o, Coming
    PROVE  SameCalculations /\ Coming'
<1>1. /\ E!NotifyObservers(x) /\ engine' = engine
      /\ \A p \in Observers : p # o => done'[p] = done[p]
      /\ engine \in Engines \cup {Null}
  BY InvScope DEF Forwards, core, Cells
<1>2. /\ SameCalculations /\ \A p : Has(x, p) => Due(p)'
      /\ \A p : Due(p) /\ done'[p] = done[p] => Due(p)'
  BY <1>1, NotifyFrames
<1>3. CASE Due("updater") BY <1>1, <1>2, <1>3, Names DEF Coming
<1>4. CASE engine # Null /\ Due(engine)
  <2>1. CASE o = engine BY <1>1, <1>2, <1>4, <2>1 DEF Registered, Coming
  <2>2. CASE o # engine
    <3>1. PICK e : e = engine OBVIOUS
    <3>2. e \in Observers /\ Due(e) /\ e # o BY <1>1, <1>4, <2>2, <3>1, Names
    <3>3. Due(e)' BY <1>1, <1>2, <3>2
    <3>4. Due(engine)' BY <1>1, <3>1, <3>3 DEF Due
    <3>. QED BY <1>1, <1>2, <1>4, <3>4 DEF Coming
  <2>. QED BY <2>1, <2>2
<1>5. CASE engine # Null /\ Due("forwarder")
  <2>1. CASE o = "forwarder"
    <3>1. PICK e : e = engine OBVIOUS
    <3>2. e \in Engines /\ Has("link", e) BY <1>1, <1>5, <3>1 DEF Registered
    <3>3. Due(e)' BY <1>2, <2>1, <3>2
    <3>4. Due(engine)' BY <1>1, <3>1, <3>3 DEF Due
    <3>. QED BY <1>1, <1>2, <1>5, <3>4 DEF Coming
  <2>2. CASE o # "forwarder" BY <1>1, <1>2, <1>5, <2>2, Names DEF Coming
  <2>. QED BY <2>1, <2>2
<1>. QED BY <1>2, <1>3, <1>4, <1>5 DEF Coming

LEMMA ForwardsFresh ==
    ASSUME Begins, NEW o \in Observers \ {"updater"}, NEW x \in Observables, Forwards(o, x),
           o = "forwarder" => x = "link", o \in Engines => x = o
    PROVE  Fresh'
<1>. USE DEF Begins
<1>1. UNCHANGED <<market, engine, results>> /\ lazy' = lazy /\ E!NotifyObservers(x)
  BY DEF Forwards, core
<1>2. SameCalculations BY <1>1, NotifyFrames
<1>3. Coming => Coming' BY ForwardsComing
<1>. QED BY <1>1, <1>2, <1>3, ValuedKept, QuietFresh

LEMMA LazyUpdateFresh == ASSUME Begins, LazyUpdate PROVE Fresh'
<1>. USE DEF Begins
<1>1. CASE lazy.updating
  <2>1. UNCHANGED <<market, engine, results>> /\ lazy' = lazy /\ stack' = stack
    BY <1>1 DEF LazyUpdate, engineVars
  <2>2. SameCalculations BY <2>1 DEF SameCalculations, Frames
  <2>. QED BY <1>1, <2>1, <2>2, ValuedKept, QuietFresh
<1>2. CASE ~lazy.updating
  <2>1. ~lazy'.calculated BY <1>2, InvScope DEF LazyUpdate, Invalidated, Cells
  <2>. QED BY <2>1, ForgottenFresh
<1>. QED BY <1>1, <1>2

\* An update() that has done its work returns.
LEMMA ReturnFrames ==
    ASSUME IInv, NEW o \in Observers, Returns(o)
    PROVE  /\ stack # <<>> /\ E!Top.kind = "update" /\ E!Top.obs = o /\ E!Top \in Frames
           /\ stack' = E!Below /\ pending' = pending
           /\ \A f \in Frames : f # E!Top => f \in Frames'
           /\ Frames' \subseteq Frames
           /\ SameCalculations
           /\ \A p \in Observers : done'[p] = IF p = o THEN "entered" ELSE done[p]
<1>1. /\ stack # <<>> /\ E!Top.kind = "update" /\ E!Top.obs = o /\ stack' = E!Below
      /\ pending' = pending
  BY DEF Returns, InUpdate, E!UpdateReturns, E!TopIs
<1>2. /\ E!Top \in Frames
      /\ \A f \in Frames : f # E!Top => f \in Frames'
      /\ Frames' \subseteq Frames
      /\ \A f : IsMethod(f, "calculate") => (f \in Frames <=> f \in Frames')
  BY <1>1, TopFrame, PoppedFrames, InvScope DEF Scope, Frames, IsMethod
<1>3. \A p \in Observers : done'[p] = IF p = o THEN "entered" ELSE done[p]
  BY InvScope DEF Returns, Cells
<1>. QED BY <1>1, <1>2, <1>3 DEF SameCalculations

LEMMA ReturnsFresh == ASSUME Begins, NEW o \in Observers, Returns(o) PROVE Fresh'
<1>. USE DEF Begins
<1>1. UNCHANGED <<market, engine, results>> BY DEF Returns
<1>2. lazy'.calculated = lazy.calculated /\ (lazy'.updating => lazy.updating)
  BY InvScope DEF Returns, Cells
<1>3. done[o] # "entered" \/ o \in Writers BY DEF Returns
<1>4. \A p \in {"forwarder", "updater"} \cup Engines : done[p] = "entered" => done'[p] = "entered"
  BY ReturnFrames, Names
<1>5. Coming => Coming' BY <1>1, <1>3, <1>4, ReturnFrames, MethodKeepsComing
<1>. QED BY <1>1, <1>2, <1>5, ReturnFrames, ValuedKept, QuietFresh

\* A round passes over the updater only where the guard is held already.
LEMMA NotificationComing ==
    ASSUME IInv, NotificationStep, Coming
    PROVE  Coming' \/ lazy.updating
<1>1. engine' = engine /\ done' = done BY DEF NotificationStep, core, bodies
<1>2. CASE Carried
  <2>1. \A o \in {"forwarder", "updater"} \cup Engines : Due(o) => Due(o)'
    BY <1>2, Names DEF Carried
  <2>. QED BY <1>1, <1>2, <2>1, ComingKept, InvScope DEF Carried
<1>3. ASSUME NEW e, E!RoundVisits(e) PROVE Coming' \/ lazy.updating
  <2>1. /\ SameCalculations
        /\ \A o \in Observers : Due(o) => Due(o)' \/ (e.obs = o /\ o \in E!Busy /\ ~e.defer)
    BY <1>1, <1>3, VisitFrames
  <2>2. /\ e \in EntryOf(Observers) /\ stack # <<>> /\ E!Top.kind = "notify"
    BY <1>3, VisitIs, InvScope
  <2>3. \A o \in {"forwarder"} \cup Engines : DeferReentrant[o]
    BY Names, ObserversAssumption, DecliningAssumption DEF DeferReentrant, Clients
  <2>4. \A o \in {"forwarder"} \cup Engines : e.obs = o => e.defer BY <2>2, <2>3 DEF EntryOf
  <2>5. CASE e.obs = "updater" /\ "updater" \in E!Busy
    <3>1. PICK i \in 1..Height : IsUpdate(stack[i], "updater") BY <2>5, BusyIs, InvScope
    <3>2. ~IsUpdate(stack[Height], "updater") BY <2>2 DEF E!Top, Height, IsUpdate
    <3>3. done["updater"] = "guarding"
      BY <3>1, <3>2, InvScope DEF Shape, UpdaterGuards, Height
    <3>. QED BY <2>1, <3>3, InvScope DEF Shape, Guard
  <2>6. CASE ~(e.obs = "updater" /\ "updater" \in E!Busy)
    <3>1. \A o \in {"forwarder", "updater"} \cup Engines : Due(o) => Due(o)'
      BY <2>1, <2>4, <2>6, Names
    <3>. QED BY <1>1, <2>1, <3>1, ComingKept, InvScope
  <2>. QED BY <2>5, <2>6
<1>. QED
  BY <1>1, <1>2, <1>3, RoundEndFrames, DrainTakesFrames, DrainVisitsFrames, DrainEndsFrames
  DEF NotificationStep

LEMMA NotificationCalculates ==
    ASSUME IInv, NotificationStep
    PROVE  SameCalculations /\ Calmly /\ \A f \in Frames : f.kind = "update" => f \in Frames'
<1>1. done' = done BY DEF NotificationStep, bodies
<1>. QED
  BY <1>1, VisitFrames, RoundEndFrames, DrainTakesFrames, DrainVisitsFrames, DrainEndsFrames
  DEF NotificationStep, Carried

LEMMA NotificationFresh == ASSUME Begins, NotificationStep PROVE Fresh'
<1>. USE DEF Begins
<1>1. UNCHANGED <<market, engine, results>> /\ lazy' = lazy BY DEF NotificationStep, core
<1>. QED
  BY <1>1, NotificationCalculates, NotificationComing, ValuedKept, QuietFresh

LEMMA FreshKept == ASSUME Begins, [Next]_vars, ~panicked' PROVE Fresh'
<1>. USE DEF Begins
<1>1. ASSUME UserStep PROVE Fresh'
  <2>1. ASSUME NEW q \in Quotes, NEW v \in Values, EngineWrites(q, v) PROVE Fresh'
    <3>1. ~Undisturbed /\ SetValue(q, v) BY <2>1 DEF EngineWrites, Undisturbed
    <3>. QED BY <3>1, MovesFresh DEF InputMoves, Fresh, GuardedFresh
  <2>2. ASSUME Panics PROVE Fresh' BY <2>2 DEF Panics
  <2>. QED BY <1>1, <2>1, <2>2, InputFresh, PricingFresh DEF UserStep
<1>2. ASSUME BodyStep PROVE Fresh'
  <2>1. ASSUME NEW o \in Engines \cup Forwarders, Forwards(o, o) PROVE Fresh'
    <3>1. o \in Observers \ {"updater"} /\ o \in Observables /\ o # "forwarder"
      BY Names, ObserversAssumption DEF Clients
    <3>. QED BY <2>1, <3>1, ForwardsFresh
  <2>2. ASSUME Forwards("forwarder", "link") PROVE Fresh'
    <3>1. "forwarder" \notin Engines BY ObserversAssumption
    <3>. QED BY <2>2, <3>1, ForwardsFresh, Names
  <2>. QED
    BY <1>2, <2>1, <2>2, LazyUpdateFresh, ReaderFresh, ReturnsFresh, EngineReadsFresh,
       CalculationEndsFresh, MethodEndFresh DEF BodyStep
<1>3. ASSUME UNCHANGED vars PROVE Fresh'
  <2>1. /\ stack' = stack /\ pending' = pending /\ done' = done /\ lazy' = lazy
        /\ UNCHANGED <<market, engine, results>>
    BY <1>3 DEF vars, engineVars, core, bodies
  <2>2. SameCalculations /\ (Coming => Coming')
    BY <2>1 DEF SameCalculations, Frames, Coming, Due
  <2>. QED BY <2>1, <2>2, ValuedKept, QuietFresh
<1>. QED BY <1>1, <1>2, <1>3, NotificationFresh DEF Next, ProgramStep

LEMMA InitFresh == ASSUME ReadersApart, Init PROVE FInv
<1>1. PICK w \in Wirings :
         registry = [x \in Observables |->
             {[obs |-> o, defer |-> DeferReentrant[o]] : o \in Wired(w, target, engine)[x]}]
  BY DEF Init
<1>2. w \in [Observables -> SUBSET Clients] BY WiringsAssumption
<1>3. \A x \in Observables : \A o : Has(x, o) <=> o \in Wired(w, target, engine)[x]
  <2>1. ASSUME NEW x \in Observables
        PROVE  \A o : Has(x, o) <=> o \in Wired(w, target, engine)[x]
    <3>1. PICK W : W = Wired(w, target, engine)[x] OBVIOUS
    <3>2. registry[x] = {[obs |-> o, defer |-> DeferReentrant[o]] : o \in W} BY <1>1, <3>1
    <3>3. ASSUME NEW o, o \in W PROVE Has(x, o)
      <4>1. PICK e : e = [obs |-> o, defer |-> DeferReentrant[o]] OBVIOUS
      <4>2. e \in registry[x] BY ONLY <3>2, <3>3, <4>1
      <4>3. e.obs = o BY ONLY <4>1
      <4>. QED BY <4>2, <4>3 DEF Has
    <3>4. ASSUME NEW o, Has(x, o) PROVE o \in W
      <4>1. PICK e \in registry[x] : e.obs = o BY <3>4 DEF Has
      <4>2. PICK p \in W : e = [obs |-> p, defer |-> DeferReentrant[p]] BY ONLY <3>2, <4>1
      <4>. QED BY ONLY <4>1, <4>2
    <3>. QED BY <3>1, <3>3, <3>4
  <2>. QED BY <2>1
<1>4. \A x \in Observables :
         /\ w[x] \subseteq Wired(w, target, engine)[x]
         /\ Wired(w, target, engine)[x] \subseteq w[x] \cup {"forwarder", "updater"} \cup Engines
         /\ x = target => "forwarder" \in Wired(w, target, engine)[x]
         /\ x = "link" => Engines \subseteq Wired(w, target, engine)[x]
         /\ x = "date" \/ x = engine => "updater" \in Wired(w, target, engine)[x]
  BY FedAssumption DEF Wired
<1>5. target \in Quotes \cup {Null} /\ engine \in Engines \cup {Null} BY DEF Init
<1>6. Registered BY <1>3, <1>4, <1>5, Names DEF Registered
<1>7. Readers \cap ({"forwarder", "updater"} \cup Engines) = {} /\ Readers \cap Writers = {}
      /\ Writers \cap ({"forwarder", "updater"} \cup Engines) = {}
  BY ObserversAssumption DEF Clients
<1>8. \A c \in Readers : Has("instrument", c) <=> c \in w["instrument"]
  BY <1>3, <1>4, <1>7, Names
<1>9. ASSUME NEW S, \A x \in Observables : w[x] \subseteq S, S \subseteq Observers,
             {"forwarder", "updater"} \cup Engines \subseteq S
      PROVE  Confined(S)
  <2>1. \A x \in Observables : Wired(w, target, engine)[x] \subseteq S BY <1>4, <1>9
  <2>2. \A o \in S : [obs |-> o, defer |-> DeferReentrant[o]] \in EntryOf(S)
    BY <1>9 DEF EntryOf, E!Entry, DeferReentrant
  <2>3. registry \in [Observables -> SUBSET EntryOf(S)] BY <1>1, <2>1, <2>2
  <2>4. stack = <<>> /\ pending = {} BY DEF Init
  <2>. QED BY <2>3, <2>4 DEF Confined
<1>10. \A x \in Observables : w[x] \subseteq Observers BY <1>2, Names DEF Clients
<1>11. Unwatched \/ Undisturbed
  <2>1. CASE \A x \in Observables : w[x] \cap Readers = {}
    <3>1. PICK S : S = Observers \ Readers OBVIOUS
    <3>2. {"forwarder", "updater"} \cup Engines \subseteq S BY <1>7, <3>1, Names
    <3>3. Confined(S) BY <1>9, <1>10, <2>1, <3>1, <3>2
    <3>. QED BY <3>1, <3>3 DEF Unwatched
  <2>2. CASE /\ w["instrument"] \cap Readers # {}
             /\ \A x \in Observables :
                   w[x] \cap Writers = {} /\ w[x] \cap Readers \subseteq w["instrument"]
    <3>1. PICK S : S = Observers \ (Writers \cup Strangers) OBVIOUS
    <3>2. Strangers = Readers \ w["instrument"] BY <1>8 DEF Strangers
    <3>3. {"forwarder", "updater"} \cup Engines \subseteq S BY <1>7, <3>1, <3>2, Names
    <3>4. \A x \in Observables : w[x] \subseteq S BY <1>10, <2>2, <3>1, <3>2
    <3>5. Confined(S) BY <1>9, <3>1, <3>3, <3>4
    <3>6. ~Unread
      <4>1. PICK c \in Readers : c \in w["instrument"] BY <2>2
      <4>. QED BY <1>8, <4>1 DEF Has, Unread
    <3>. QED BY <3>1, <3>5, <3>6 DEF Undisturbed
  <2>. QED BY <2>1, <2>2 DEF ReadersApart
<1>12. ~lazy.calculated /\ ~lazy.updating BY DEF Init
<1>. QED BY <1>6, <1>11, <1>12, InvInit DEF FInv, GuardedFresh, CachedFresh

LEMMA FInvKept == ASSUME FInv, [Next]_vars PROVE FInv'
<1>1. IInv' BY InvKept DEF FInv
<1>2. Registered' BY RegisteredKept DEF FInv
<1>3. Unwatched' \/ Undisturbed' BY UnwatchedKept, UndisturbedKept DEF FInv
<1>4. ASSUME ~panicked' PROVE GuardedFresh' /\ CachedFresh'
  <2>1. ~panicked BY <1>4 DEF Next, UserStep, ProgramStep, Panics, vars
  <2>2. Begins BY <2>1, UndisturbedKept DEF FInv, Begins, Fresh
  <2>. QED BY <1>4, <2>2, FreshKept DEF Fresh
<1>. QED BY <1>1, <1>2, <1>3, <1>4 DEF FInv

\* At rest nothing is on its way and no calculation is.
LEMMA RestIs ==
    ASSUME AtRest
    PROVE  Frames = {} /\ ~Calculating /\ ~Coming /\ \A o : ~Due(o)
<1>1. Frames = {} BY DEF AtRest, Frames, FramesOf
<1>2. \A o : ~Due(o) BY <1>1 DEF Due, DueIn, AtRest
<1>. QED BY <1>1, <1>2 DEF Calculating, Coming

\* Where readers and writers are kept apart, a price claimed at rest is that of the
\* quote, the engine and the date as they are, whatever mixture of relinks, quote,
\* date and engine moves, write backs and pricings came before, until an observer
\* panics (notify_observers, deferred_update).
THEOREM CachesAreFresh == ASSUME ReadersApart PROVE Spec => []FreshUnlessPanicked
<1>1. Init => FInv BY InitFresh
<1>2. FInv /\ [Next]_vars => FInv' BY FInvKept
<1>3. FInv => FreshUnlessPanicked
  BY RestIs DEF FInv, CachedFresh, Valued, FreshUnlessPanicked, FreshAtRest
<1>. QED BY <1>1, <1>2, <1>3, PTL DEF Spec

-----------------------------------------------------------------------------
(* What the readers hold, where no writer disturbs them.                    *)

Framed == CalculationOnTop /\ GuardedThawed /\ ReadersRead
Telling == GuardedTold /\ ThawedTold
Watches == Begins /\ Undisturbed /\ Framed /\ Telling /\ \A c \in Strangers : seen[c] = Null

\* Nothing is computed, and no reader is about to return with a price.
Plain(F) == \A f \in F : ~IsMethod(f, "calculate") /\ ~IsMethod(f, "recalculate")
NoneRead(F, d) == \A f \in F : \A c \in Readers : ~(IsUpdate(f, c) /\ d[c] = "returning")

LEMMA PlainTop ==
    ASSUME IInv, CalculationOnTop,
           \/ stack = <<>>
           \/ ~IsMethod(E!Top, "calculate") /\ ~IsMethod(E!Top, "recalculate")
    PROVE  Plain(Frames)
<1>1. CASE stack = <<>> BY <1>1 DEF Plain, Frames, FramesOf
<1>2. CASE stack # <<>> /\ ~IsMethod(E!Top, "calculate") /\ ~IsMethod(E!Top, "recalculate")
  <2>1. E!Top = stack[Height] BY <1>2, TopFrame, InvScope DEF Scope
  <2>2. \A i \in 1..Height : ~IsMethod(stack[i], "calculate")
    BY <1>2, <2>1 DEF CalculationOnTop
  <2>3. \A i \in 1..Height : ~IsMethod(stack[i], "recalculate")
    BY <1>2, <2>1, <2>2 DEF CalculationOnTop
  <2>. QED BY <2>2, <2>3 DEF Plain, Frames, FramesOf, Height
<1>. QED BY <1>1, <1>2

LEMMA NoneReadTop ==
    ASSUME IInv, ReadersRead,
           \/ stack = <<>>
           \/ /\ ~IsMethod(E!Top, "calculate")
              /\ \A c \in Readers : ~(IsUpdate(E!Top, c) /\ done[c] = "returning")
    PROVE  NoneRead(Frames, done)
<1>1. CASE stack = <<>> BY <1>1 DEF NoneRead, Frames, FramesOf
<1>2. CASE /\ stack # <<>> /\ ~IsMethod(E!Top, "calculate")
           /\ \A c \in Readers : ~(IsUpdate(E!Top, c) /\ done[c] = "returning")
  <2>1. E!Top = stack[Height] BY <1>2, TopFrame, InvScope DEF Scope
  <2>2. \A i \in 1..Height : \A c \in Readers : ~(IsUpdate(stack[i], c) /\ done[c] = "returning")
    BY <1>2, <2>1 DEF ReadersRead
  <2>. QED BY <2>2 DEF NoneRead, Frames, FramesOf, Height
<1>. QED BY <1>1, <1>2

LEMMA PlainFramed ==
    ASSUME Plain(Frames'), NoneRead(Frames', done'), lazy'.updating => ~lazy'.frozen
    PROVE  Framed'
<1>1. \A i \in 1..Height' : stack'[i] \in Frames' BY DEF Frames, FramesOf, Height
<1>2. CalculationOnTop' BY <1>1 DEF CalculationOnTop, Plain
<1>3. GuardedThawed' BY DEF GuardedThawed, Recalculating, Plain
<1>4. ReadersRead' BY <1>1 DEF ReadersRead, NoneRead
<1>. QED BY <1>2, <1>3, <1>4 DEF Framed

\* A step from which calls are entered that compute nothing.
LEMMA CalmFramed ==
    ASSUME IInv, Framed, Calmly,
           \/ stack = <<>>
           \/ /\ ~IsMethod(E!Top, "calculate") /\ ~IsMethod(E!Top, "recalculate")
              /\ \A c \in Readers : ~(IsUpdate(E!Top, c) /\ done[c] = "returning"),
           \A c \in Readers : done'[c] = "returning" => done[c] = "returning",
           lazy'.updating => ~lazy'.frozen
    PROVE  Framed'
<1>1. Plain(Frames) /\ NoneRead(Frames, done) BY PlainTop, NoneReadTop DEF Framed
<1>2. \A f \in Frames' : f \notin Frames =>
         /\ ~IsMethod(f, "calculate") /\ ~IsMethod(f, "recalculate")
         /\ \A c \in Readers : IsUpdate(f, c) => done[c] = "entered"
  BY DEF Calmly, Calm, IsMethod, IsUpdate
<1>3. Plain(Frames') BY <1>1, <1>2 DEF Plain
<1>4. NoneRead(Frames', done') BY <1>1, <1>2 DEF NoneRead
<1>. QED BY <1>3, <1>4, PlainFramed

\* A reader that was told stays told.
LEMMA ToldKept ==
    ASSUME NEW c \in Readers, Told(c), Current' = Current, seen'[c] = seen[c],
           Due(c) => Due(c)' \/ Updating(c)', Updating(c) => Updating(c)'
    PROVE  Told(c)'
  BY DEF Told

LEMMA DroppedTold ==
    ASSUME NEW c \in Readers, Told(c), Current' = Current, seen'[c] = seen[c],
           pending' = pending, done'[c] = done[c],
           \A f \in Frames : f # E!Top => f \in Frames',
           ~IsUpdate(E!Top, c), E!Top.kind \in {"method", "update"}
    PROVE  Told(c)'
<1>1. Due(c) => Due(c)'
  <2>1. ASSUME Due(c) PROVE DueIn(Frames', pending, done', c) BY <2>1, DueKept DEF Due
  <2>. QED BY <2>1 DEF Due
<1>2. Updating(c) => Updating(c)' BY DEF Updating
<1>. QED BY <1>1, <1>2, ToldKept

\* A step that tells nobody.
LEMMA TellingKept ==
    ASSUME Telling, lazy'.updating => lazy.updating, lazy.frozen => lazy'.frozen,
           Recalculating => Recalculating', Coming => Coming' \/ lazy.updating,
           \A c \in Readers : Told(c) => Told(c)'
    PROVE  Telling'
<1>1. GuardedTold' BY DEF Telling, GuardedTold
<1>2. ThawedTold' BY DEF Telling, GuardedTold, ThawedTold
<1>. QED BY <1>1, <1>2 DEF Telling

\* A round tells every client of the instrument.
LEMMA RoundTelling ==
    ASSUME \A c \in Strangers : seen[c] = Null, seen' = seen,
           \A o : Has("instrument", o) => Due(o)'
    PROVE  Telling'
<1>1. \A c \in Readers : Told(c)' BY DEF Strangers, Told
<1>. QED BY <1>1 DEF Telling, GuardedTold, ThawedTold

\* What is frozen, or about to be notified, promises nothing.
LEMMA FrozenTelling ==
    ASSUME ~lazy'.updating, lazy'.frozen \/ Recalculating'
    PROVE  Telling'
  BY DEF Telling, GuardedTold, ThawedTold

LEMMA InputWatched == ASSUME Watches, InUserCode, InputStep PROVE Framed' /\ Telling'
<1>. USE DEF Watches, Begins
<1>1. stack = <<>> /\ ~lazy.updating BY UndisturbedRuns
<1>2. ASSUME Calmly, done' = done, lazy'.updating => ~lazy'.frozen PROVE Framed'
  BY <1>1, <1>2, CalmFramed
<1>3. ASSUME InputMoves PROVE Framed' /\ Telling'
  <2>1. Tells BY <1>3, InputsTell
  <2>2. Framed' BY <1>1, <1>2, <2>1 DEF Tells
  <2>3. \A f \in Frames : f \in Frames' BY <2>1 DEF Tells
  <2>4. Telling'
    <3>1. CASE Coming' BY <1>1, <2>1, <3>1 DEF Telling, GuardedTold, ThawedTold, Tells
    <3>2. CASE Current' = Current
      <4>1. \A c \in Readers : Told(c) => Told(c)' BY <2>1, <2>3, <3>2, ToldKept DEF Tells, Updating
      <4>2. Recalculating => Recalculating' BY <2>3 DEF Recalculating
      <4>. QED BY <2>1, <4>1, <4>2, TellingKept DEF Tells
    <3>. QED BY <2>1, <3>1, <3>2 DEF Tells
  <2>. QED BY <2>2, <2>4
<1>4. ASSUME NEW e \in Engines \cup {Null}, SwapEngine(e) PROVE Framed' /\ Telling'
  <2>1. seen' = seen /\ done' = done BY <1>4 DEF SwapEngine, bodies
  <2>2. CASE lazy.frozen
    <3>1. stack' = stack /\ ~lazy'.updating /\ lazy'.frozen
      BY <1>1, <1>4, <2>2, InvScope DEF SwapEngine, StaysOut, Invalidated, Cells
    <3>2. Calmly BY <3>1 DEF Calmly, Frames
    <3>. QED BY <1>2, <2>1, <3>1, <3>2, FrozenTelling
  <2>3. CASE ~lazy.frozen
    <3>1. Enters(<<Method("swap"), E!Round("instrument")>>) /\ ~lazy'.frozen
      BY <1>1, <1>4, <2>3, InvScope DEF SwapEngine, Invalidated, Cells
    <3>2. Calmly /\ \A o : Has("instrument", o) => Due(o)' BY <3>1, EntersFrames, Names
    <3>. QED BY <1>2, <2>1, <3>1, <3>2, RoundTelling
  <2>. QED BY <2>2, <2>3
<1>5. ASSUME Freeze PROVE Framed' /\ Telling'
  <2>1. stack' = stack /\ done' = done /\ ~lazy'.updating /\ lazy'.frozen
    BY <1>1, <1>5, InvScope DEF Freeze, engineVars, bodies, Cells
  <2>2. Calmly BY <2>1 DEF Calmly, Frames
  <2>. QED BY <1>2, <2>1, <2>2, FrozenTelling
<1>6. ASSUME Unfreeze PROVE Framed' /\ Telling'
  <2>1. /\ Enters(<<Method("notify"), E!Round("instrument")>>) /\ ~lazy'.updating
        /\ done' = done /\ seen' = seen
    BY <1>1, <1>6, InvScope DEF Unfreeze, bodies, Cells
  <2>2. Calmly /\ \A o : Has("instrument", o) => Due(o)' BY <2>1, EntersFrames, Names
  <2>. QED BY <1>2, <2>1, <2>2, RoundTelling
<1>7. \A e \in Engines : ~SwapEngineSilently(e) BY DEF SwapEngineSilently, Undisturbed
<1>. QED BY <1>3, <1>4, <1>5, <1>6, <1>7 DEF InputStep, InputMoves

\* A calculation is entered on a stack s that has none, by its innermost call.
LEMMA CalculateFramed ==
    ASSUME NEW s \in Seq(FrameOf(Observers)),
           NEW l \in [calculated : BOOLEAN, failed : BOOLEAN, frozen : BOOLEAN, updating : BOOLEAN],
           Calculate(l, s),
           \A i \in 1..Len(s) : ~IsMethod(s[i], "calculate"),
           \A i \in 1..Len(s) : IsMethod(s[i], "recalculate") => i = Len(s) /\ ~l.updating,
           l.updating => ~l.frozen,
           \A i \in 1..Len(s) : \A c \in Readers :
              IsUpdate(s[i], c) /\ done'[c] = "returning" => i = Len(s)
    PROVE  Framed'
<1>1. lazy'.updating = l.updating /\ lazy'.frozen = l.frozen BY CalculateFlags
<1>2. CASE stack' = s /\ (lazy'.calculated \/ lazy'.frozen)
  <2>1. Height' = Len(s) BY <1>2 DEF Height
  <2>2. CalculationOnTop' BY <1>2, <2>1 DEF CalculationOnTop
  <2>3. GuardedThawed' BY <1>1, <1>2 DEF GuardedThawed, Recalculating, Frames, FramesOf
  <2>4. ReadersRead' BY <1>2, <2>1 DEF ReadersRead
  <2>. QED BY <2>2, <2>3, <2>4 DEF Framed
<1>3. CASE stack' = Append(s, Calculation) /\ lazy'.calculated
  <2>1. Calculation \in FrameOf(Observers) /\ IsMethod(Calculation, "calculate") BY FramesThere
  <2>2. /\ Height' = Len(s) + 1 /\ Len(s) \in Nat
        /\ \A i \in 1..Len(s) : stack'[i] = s[i]
        /\ stack'[Len(s) + 1] = Calculation
    BY <1>3, <2>1, Pushed, LenProperties DEF Height
  <2>3. CalculationOnTop' BY <1>3, <2>1, <2>2 DEF CalculationOnTop, IsMethod
  <2>4. GuardedThawed'
    <3>1. Recalculating' => \E i \in 1..Len(s) : IsMethod(s[i], "recalculate")
      BY <2>1, <2>2 DEF Recalculating, Frames, FramesOf, IsMethod, Height
    <3>. QED BY <1>1, <3>1 DEF GuardedThawed
  <2>5. ReadersRead' BY <2>1, <2>2 DEF ReadersRead, IsMethod, IsUpdate
  <2>. QED BY <2>3, <2>4, <2>5 DEF Framed
<1>. QED BY <1>2, <1>3 DEF Calculate, Cached

LEMMA PricingWatched ==
    ASSUME Watches, stack = <<>>, Npv \/ Recalculate
    PROVE  Framed' /\ Telling'
<1>. USE DEF Watches, Begins
<1>1. ~lazy.updating BY UndisturbedRuns DEF InUserCode
<1>2. /\ done' = done /\ seen' = seen /\ pending' = pending /\ engine' = engine
      /\ Current' = Current
  BY DEF Npv, Recalculate, OnlyCalculates, bodies, Current, Price, market
<1>3. Len(stack) = 0 /\ Frames = {} BY DEF Frames, FramesOf
<1>4. CASE Npv
  <2>1. Calculate(lazy, stack) BY <1>4 DEF Npv
  <2>2. Framed'
    <3>1. \A i \in 1..Len(stack) : FALSE BY <1>3
    <3>2. lazy \in [calculated : BOOLEAN, failed : BOOLEAN, frozen : BOOLEAN, updating : BOOLEAN]
          /\ stack \in Seq(FrameOf(Observers))
      BY InvScope, StackTyped DEF Cells
    <3>. QED BY ONLY <1>1, <2>1, <3>1, <3>2, CalculateFramed
  <2>3. lazy'.updating = lazy.updating /\ lazy'.frozen = lazy.frozen
    BY <2>1, InvScope, CalculateFlags DEF Cells
  <2>4. \A o : Due(o) => Due(o)' BY <1>2, <1>3 DEF Due, DueIn
  <2>5. Coming => Coming' BY <1>2, <2>4, ComingKept, InvScope
  <2>6. \A c \in Readers : Told(c) => Told(c)'
    BY <1>2, <1>3, <2>4, ToldKept DEF Updating
  <2>7. ~Recalculating BY <1>3 DEF Recalculating
  <2>8. Telling' BY <2>3, <2>5, <2>6, <2>7, TellingKept
  <2>. QED BY <2>2, <2>8
<1>5. CASE Recalculate
  <2>1. PICK l : l = [Invalidated(lazy) EXCEPT !.frozen = FALSE] OBVIOUS
  <2>2. PICK r : r = Recalculation(lazy.frozen) OBVIOUS
  <2>3. PICK s : s = Append(stack, r) OBVIOUS
  <2>4. Calculate(l, s) BY <1>5, <2>1, <2>2, <2>3 DEF Recalculate
  <2>5. /\ l \in [calculated : BOOLEAN, failed : BOOLEAN, frozen : BOOLEAN, updating : BOOLEAN]
        /\ ~l.updating
    BY <1>1, <2>1, InvScope DEF Invalidated, Cells
  <2>6. r \in FrameOf(Observers) /\ IsMethod(r, "recalculate")
    BY <2>2, FramesThere, InvScope DEF Cells
  <2>7. stack \in Seq(FrameOf(Observers)) BY StackTyped
  <2>8. /\ s \in Seq(FrameOf(Observers)) /\ Len(s) = Len(stack) + 1
        /\ s[Len(stack) + 1] = r /\ FramesOf(s) = FramesOf(stack) \cup {r}
    BY ONLY <2>3, <2>6, <2>7, Pushed
  <2>9. Len(s) = 1 /\ \A i \in 1..Len(s) : i = 1 /\ s[i] = r BY <1>3, <2>8
  <2>10. Framed'
    BY <2>4, <2>5, <2>6, <2>8, <2>9, CalculateFramed DEF IsMethod, IsUpdate
  <2>11. stack' \in {s, Append(s, Calculation)} BY <2>4, <2>8, CalculateIs
  <2>12. Calculation \in FrameOf(Observers) BY FramesThere
  <2>13. FramesOf(Append(s, Calculation)) = FramesOf(s) \cup {Calculation}
    BY ONLY <2>8, <2>12, Pushed
  <2>14. r \in Frames' BY <2>8, <2>11, <2>13 DEF Frames
  <2>15. Recalculating' BY <2>6, <2>14 DEF Recalculating
  <2>16. ~lazy'.updating BY <2>4, <2>5, CalculateFlags
  <2>. QED BY <2>10, <2>15, <2>16, FrozenTelling
<1>. QED BY <1>4, <1>5

LEMMA ForwardsWatched ==
    ASSUME Watches, NEW o \in Observers \ ({"updater"} \cup Readers), NEW x \in Observables,
           Forwards(o, x), o = "forwarder" => x = "link", o \in Engines => x = o
    PROVE  Framed' /\ Telling'
<1>. USE DEF Watches, Begins
<1>1. /\ E!NotifyObservers(x) /\ lazy' = lazy /\ seen' = seen /\ Current' = Current
      /\ \A p \in Observers : p # o => done'[p] = done[p]
  BY InvScope DEF Forwards, core, Cells, Current, Price, market
<1>2. /\ Calmly /\ \A f \in Frames : f \in Frames'
      /\ \A p : Due(p) /\ done'[p] = done[p] => Due(p)'
  BY <1>1, NotifyFrames
<1>3. /\ \A c \in Readers : ~IsUpdate(E!Top, c) /\ done'[c] = done[c]
      /\ ~IsMethod(E!Top, "calculate") /\ ~IsMethod(E!Top, "recalculate")
  BY <1>1, Names DEF Forwards, InUpdate, E!TopIs, IsUpdate, IsMethod
<1>4. lazy'.updating => ~lazy'.frozen BY <1>1 DEF Framed, GuardedThawed
<1>5. Framed' BY <1>2, <1>3, <1>4, CalmFramed
<1>6. \A c \in Readers : Told(c) => Told(c)' BY <1>1, <1>2, <1>3, ToldKept DEF Updating
<1>7. Recalculating => Recalculating' BY <1>2 DEF Recalculating
<1>8. Coming => Coming' BY ForwardsComing
<1>9. Telling' BY <1>1, <1>6, <1>7, <1>8, TellingKept
<1>. QED BY <1>5, <1>9

LEMMA LazyUpdateWatched == ASSUME Watches, LazyUpdate PROVE Framed' /\ Telling'
<1>. USE DEF Watches, Begins
<1>1. \A c \in Readers : c \in Observers /\ c # "updater"
  BY Names, ObserversAssumption DEF Clients
<1>2. /\ \A c \in Readers : ~IsUpdate(E!Top, c) /\ done'[c] = done[c]
      /\ ~IsMethod(E!Top, "calculate") /\ ~IsMethod(E!Top, "recalculate")
      /\ seen' = seen /\ Current' = Current /\ engine' = engine
  BY <1>1, InvScope
  DEF LazyUpdate, InUpdate, E!TopIs, IsUpdate, IsMethod, Cells, Current, Price, market
<1>3. CASE lazy.updating \/ lazy.frozen
  <2>1. stack' = stack /\ pending' = pending BY <1>3 DEF LazyUpdate, engineVars
  <2>2. Frames' = Frames BY <2>1 DEF Frames
  <2>3. Calmly BY <2>2 DEF Calmly
  <2>4. lazy.updating => ~lazy.frozen BY DEF Framed, GuardedThawed
  <2>5. lazy'.updating = lazy.updating /\ lazy'.frozen = lazy.frozen
    BY <1>3, InvScope DEF LazyUpdate, Invalidated, Cells
  <2>6. Framed' BY <1>2, <2>3, <2>4, <2>5, CalmFramed
  <2>7. CASE lazy.frozen BY <2>4, <2>5, <2>6, <2>7, FrozenTelling
  <2>8. CASE lazy.updating
    <3>1. \A c \in Readers : Due(c) => Due(c)' BY <1>2, <2>1, <2>2 DEF Due, DueIn
    <3>2. \A c \in Readers : Told(c) => Told(c)' BY <1>2, <2>2, <3>1, ToldKept DEF Updating
    <3>3. Recalculating => Recalculating' BY <2>2 DEF Recalculating
    <3>4. Telling' BY <2>5, <2>8, <3>2, <3>3, TellingKept
    <3>. QED BY <2>6, <3>4
  <2>. QED BY <1>3, <2>7, <2>8
<1>4. CASE ~lazy.updating /\ ~lazy.frozen
  <2>1. E!NotifyObservers("instrument") /\ ~lazy'.frozen
    BY <1>4, InvScope DEF LazyUpdate, Invalidated, Cells
  <2>2. Calmly /\ \A o : Has("instrument", o) => Due(o)' BY <2>1, NotifyFrames, Names
  <2>3. Framed' BY <1>2, <2>1, <2>2, CalmFramed
  <2>. QED BY <1>2, <2>2, <2>3, RoundTelling
<1>. QED BY <1>3, <1>4

LEMMA ReaderWatched == ASSUME Watches, NEW c \in Readers, ReaderUpdate(c) PROVE Framed' /\ Telling'
<1>. USE DEF Watches, Begins
<1>1. /\ InUpdate(c) /\ UNCHANGED <<market, engine, pending, seen>> /\ Current' = Current
      /\ stack # <<>> /\ IsUpdate(E!Top, c) /\ E!Top.kind = "update" /\ done[c] = "entered"
  BY DEF ReaderUpdate, OnlyCalculates, InUpdate, E!TopIs, IsUpdate, Current, Price, market
<1>2. E!Top = stack[Height] /\ E!Top \in Frames /\ Height \in Nat \ {0}
  BY <1>1, TopFrame, InvScope DEF Scope
<1>3. c \in Observers /\ \A p \in Observers : p # c => done'[p] = done[p]
  BY Names, InvScope DEF ReaderUpdate, Cells
<1>4. \A p \in {"forwarder", "updater"} \cup Engines : p # c /\ p \in Observers
  BY Names, ObserversAssumption DEF Clients
<1>5. ~IsMethod(E!Top, "calculate") /\ ~IsMethod(E!Top, "recalculate")
      /\ \A p \in Readers : ~(IsUpdate(E!Top, p) /\ done[p] = "returning")
  BY <1>1 DEF IsUpdate, IsMethod
<1>6. Plain(Frames) /\ NoneRead(Frames, done) BY <1>5, PlainTop, NoneReadTop DEF Framed
<1>7. lazy.updating => ~lazy.frozen BY DEF Framed, GuardedThawed
<1>8. ASSUME Frames \subseteq Frames', lazy'.updating = lazy.updating, lazy'.frozen = lazy.frozen
      PROVE  Telling'
  <2>1. ASSUME NEW p \in Observers, p # c, Due(p) PROVE Due(p)'
    <3>1. DueIn(Frames', pending', done', p) BY <1>1, <1>3, <1>8, <2>1, DueGrows DEF Due
    <3>. QED BY <3>1 DEF Due
  <2>2. Updating(c)' BY <1>1, <1>2, <1>8 DEF Updating
  <2>3. \A p \in Readers : Updating(p) => Updating(p)' BY <1>8 DEF Updating
  <2>4. \A p \in Readers : Told(p) => Told(p)'
    BY <1>1, <2>1, <2>2, <2>3, ToldKept, Names
  <2>5. Coming => Coming' BY <1>1, <1>4, <2>1, ComingKept, InvScope
  <2>6. Recalculating => Recalculating' BY <1>8 DEF Recalculating
  <2>. QED BY <1>8, <2>4, <2>5, <2>6, TellingKept
<1>9. CASE Borrowed
  <2>1. stack' = stack /\ lazy' = lazy /\ done'[c] = "unread"
    BY <1>3, <1>9, InvScope DEF ReaderUpdate, Cells
  <2>2. Frames' = Frames BY <2>1 DEF Frames
  <2>3. NoneRead(Frames', done') BY <1>3, <1>6, <2>1, <2>2, Names DEF NoneRead
  <2>4. Framed' BY <1>6, <1>7, <2>1, <2>2, <2>3, PlainFramed
  <2>. QED BY <1>8, <2>1, <2>2, <2>4
<1>10. CASE ~Borrowed
  <2>1. Calculate(lazy, stack) BY <1>10 DEF ReaderUpdate
  <2>2. stack \in Seq(FrameOf(Observers)) /\ \A i \in 1..Height : stack[i] \in Frames
    BY StackTyped DEF Frames, FramesOf, Height
  <2>3. \A i \in 1..Height : ~IsMethod(stack[i], "calculate") /\ ~IsMethod(stack[i], "recalculate")
    BY <1>6, <2>2 DEF Plain
  <2>4. ASSUME NEW i \in 1..Height, NEW p \in Readers, IsUpdate(stack[i], p), done'[p] = "returning"
        PROVE  i = Height
    <3>1. p = c BY <1>3, <1>6, <2>2, <2>4, Names DEF NoneRead
    <3>. QED BY <1>1, <1>2, <1>3, <2>4, <3>1, InvScope DEF Shape, OneUpdateEach, Height
  <2>5. lazy \in [calculated : BOOLEAN, failed : BOOLEAN, frozen : BOOLEAN, updating : BOOLEAN]
    BY InvScope DEF Cells
  <2>6. Framed' BY <1>7, <2>1, <2>2, <2>3, <2>4, <2>5, CalculateFramed DEF Height
  <2>7. stack' \in {stack, Append(stack, Calculation)} BY <2>1, <2>2, CalculateIs
  <2>8. Calculation \in FrameOf(Observers) BY FramesThere
  <2>9. FramesOf(Append(stack, Calculation)) = FramesOf(stack) \cup {Calculation}
    BY ONLY <2>2, <2>8, Pushed
  <2>10. Frames \subseteq Frames' BY <2>7, <2>9 DEF Frames
  <2>. QED BY <1>8, <2>1, <2>5, <2>6, <2>10, CalculateFlags
<1>. QED BY <1>9, <1>10

\* An update() returns: a reader takes along a price that is current, or none.
LEMMA ReturnsWatched == ASSUME Watches, NEW o \in Observers, Returns(o) PROVE Framed' /\ Telling'
<1>. USE DEF Watches, Begins
<1>1. /\ stack # <<>> /\ E!Top.kind = "update" /\ E!Top.obs = o /\ E!Top \in Frames
      /\ stack' = E!Below /\ pending' = pending
      /\ \A f \in Frames : f # E!Top => f \in Frames'
      /\ Frames' \subseteq Frames
      /\ \A p \in Observers : done'[p] = IF p = o THEN "entered" ELSE done[p]
  BY ReturnFrames
<1>2. /\ Current' = Current /\ engine' = engine
      /\ \A c \in Readers : c # o => seen'[c] = seen[c]
      /\ lazy'.frozen = lazy.frozen /\ (lazy'.updating => lazy.updating)
  BY InvScope DEF Returns, Current, Price, market, Cells
<1>3. \A c \in Readers : c \in Observers BY Names
<1>4. ~IsMethod(E!Top, "calculate") /\ ~IsMethod(E!Top, "recalculate")
  BY <1>1 DEF IsMethod
<1>5. Plain(Frames) BY <1>4, PlainTop DEF Framed
<1>6. /\ Height \in Nat \ {0} /\ E!Top = stack[Height]
      /\ Len(E!Below) = Height - 1 /\ \A i \in 1..(Height - 1) : E!Below[i] = stack[i]
  BY <1>1, TopFrame, InvScope DEF Scope
<1>7. Framed'
  <2>1. ASSUME NEW f \in Frames', NEW c \in Readers, IsUpdate(f, c), done'[c] = "returning"
        PROVE  FALSE
    <3>1. c # o /\ done[c] = "returning" BY <1>1, <1>3, <2>1
    <3>2. PICK i \in 1..(Height - 1) : stack[i] = f
      BY <1>1, <1>6 DEF Frames, FramesOf
    <3>3. i \in 1..Height /\ i # Height BY <1>6, <3>2
    <3>4. IsMethod(stack[Height], "calculate")
      BY <2>1, <3>1, <3>2, <3>3 DEF Framed, ReadersRead
    <3>. QED BY <1>4, <1>6, <3>4
  <2>2. NoneRead(Frames', done') BY <2>1 DEF NoneRead
  <2>3. Plain(Frames') BY <1>1, <1>5 DEF Plain
  <2>. QED BY <1>2, <2>2, <2>3, PlainFramed DEF Framed, GuardedThawed
<1>8. Coming => Coming'
  <2>1. \A p \in {"forwarder", "updater"} \cup Engines : done[p] = "entered" => done'[p] = "entered"
    BY <1>1, Names
  <2>2. done[o] # "entered" \/ o \in Writers BY DEF Returns
  <2>. QED BY <1>1, <1>2, <2>1, <2>2, MethodKeepsComing
<1>9. ASSUME NEW c \in Readers, c # o, Told(c) PROVE Told(c)'
  <2>1. done'[c] = done[c] /\ seen'[c] = seen[c] /\ ~IsUpdate(E!Top, c)
    BY <1>1, <1>2, <1>3, <1>9 DEF IsUpdate
  <2>. QED BY <1>1, <1>2, <1>9, <2>1, DroppedTold
<1>10. ~Recalculating BY <1>5 DEF Recalculating, Plain
<1>11. CASE o \notin Readers
  <2>1. \A c \in Readers : Told(c) => Told(c)' BY <1>9, <1>11
  <2>. QED BY <1>2, <1>7, <1>8, <1>10, <2>1, TellingKept
<1>12. CASE o \in Readers
  <2>1. seen'[o] = ReadResult(o) BY <1>12, InvScope DEF Returns, Cells
  <2>2. o \notin Writers /\ o # "updater" BY <1>12, ObserversAssumption DEF Clients
  <2>3. done[o] \in {"returning", "unread"}
    BY <2>2, InvScope DEF Returns, Cells, Shape, OnlyUpdaterGuards
  <2>4. seen'[o] # Null => done[o] = "returning" /\ (lazy.failed => lazy.frozen) /\ seen'[o] = results
    BY <2>1, <2>3 DEF ReadResult
  <2>5. done[o] = "returning" => lazy.frozen \/ lazy.failed \/ lazy.calculated
    BY <1>1, <1>4, <1>6, <1>12 DEF Framed, ReadersRead, IsUpdate
  <2>6. ASSUME seen'[o] # Null, ~lazy.frozen PROVE (Coming /\ ~lazy.updating) \/ seen'[o] = Current'
    <3>1. lazy.calculated BY <2>4, <2>5, <2>6
    <3>2. ASSUME Valued PROVE seen'[o] = Current'
      <4>1. ~Calculating BY <1>5 DEF Calculating, Plain
      <4>. QED BY <1>2, <2>4, <2>6, <3>2, <4>1 DEF Valued
    <3>. QED BY <3>1, <3>2 DEF Fresh, GuardedFresh, CachedFresh
  <2>7. seen'[o] \in {Null, Current'} => Told(o)' BY DEF Told
  <2>8. GuardedTold'
    <3>1. ASSUME lazy'.updating PROVE lazy.updating /\ ~lazy.frozen
      BY <1>2, <3>1 DEF Framed, GuardedThawed
    <3>. QED BY <1>9, <2>6, <2>7, <3>1 DEF Telling, GuardedTold
  <2>9. ThawedTold'
    <3>1. CASE lazy.frozen BY <1>2, <3>1 DEF ThawedTold
    <3>2. CASE Coming BY <1>8, <3>2 DEF ThawedTold
    <3>3. CASE ~lazy.frozen /\ ~Coming
      BY <1>9, <1>10, <2>6, <2>7, <3>3 DEF Telling, ThawedTold
    <3>. QED BY <3>1, <3>2, <3>3
  <2>. QED BY <1>7, <2>8, <2>9 DEF Telling
<1>. QED BY <1>11, <1>12

\* A method goes on or ends that tells nobody.
LEMMA MethodTelling ==
    ASSUME Watches, stack # <<>>, E!Top.kind = "method",
           UNCHANGED <<market, engine, pending, done, seen>>,
           lazy'.frozen = lazy.frozen, lazy'.updating => lazy.updating,
           \A f \in Frames : f # E!Top => f \in Frames',
           ~IsMethod(E!Top, "recalculate")
    PROVE  Telling'
<1>. USE DEF Watches, Begins
<1>1. Current' = Current BY DEF Current, Price, market
<1>2. \A c \in Readers : Told(c) => Told(c)' BY <1>1, DroppedTold DEF IsUpdate
<1>3. Coming => Coming' BY MethodKeepsComing
<1>4. Recalculating => Recalculating' BY DEF Recalculating
<1>. QED BY <1>2, <1>3, <1>4, TellingKept

LEMMA EngineReadsWatched == ASSUME Watches, EngineReads PROVE Framed' /\ Telling'
<1>. USE DEF Watches, Begins
<1>1. UNCHANGED <<market, engine, pending, done, seen, lazy>>
  BY DEF EngineReads, OnlyCalculates, bodies
<1>2. /\ stack # <<>> /\ IsMethod(E!Top, "calculate") /\ E!Top = stack[Height]
      /\ Height \in Nat \ {0}
  BY ReadIs, TopFrame, InvScope DEF Scope
<1>3. PICK f \in FrameOf(Observers) :
        IsMethod(f, "calculate") /\ stack' = [stack EXCEPT ![Height] = f]
  BY ReadIs, InvScope
<1>4. /\ \A g \in Frames : g # E!Top => g \in Frames'
      /\ Frames' \subseteq Frames \cup {f}
      /\ Height' = Height /\ stack'[Height] = f
      /\ \A i \in 1..(Height - 1) : stack'[i] = stack[i]
  <2>1. stack \in Seq(FrameOf(Observers)) /\ Height = Len(stack) /\ f \in FrameOf(Observers)
    BY StackTyped DEF Height
  <2>2. PICK t : t = [stack EXCEPT ![Len(stack)] = f] OBVIOUS
  <2>3. stack # <<>> BY <1>2
  <2>4. /\ \A g \in FramesOf(stack) : g # stack[Len(stack)] => g \in FramesOf(t)
        /\ FramesOf(t) \subseteq FramesOf(stack) \cup {f}
    BY ONLY <2>1, <2>2, <2>3, Replaced
  <2>5. /\ Len(t) = Len(stack) /\ t[Len(stack)] = f
        /\ \A i \in 1..(Len(stack) - 1) : t[i] = stack[i]
    BY ONLY <2>1, <2>2, <2>3, Replaced
  <2>6. stack' = t BY <1>3, <2>1, <2>2
  <2>. QED BY ONLY <1>2, <2>1, <2>4, <2>5, <2>6 DEF Frames, Height
<1>5. \A i \in 1..Height : i = Height \/ (i \in 1..(Height - 1) /\ stack'[i] = stack[i])
  BY <1>2, <1>4
<1>6. lazy.calculated BY <1>2 DEF Framed, CalculationOnTop
<1>7. CalculationOnTop'
  BY <1>1, <1>2, <1>3, <1>4, <1>5, <1>6 DEF Framed, CalculationOnTop, IsMethod
<1>8. GuardedThawed'
  BY <1>1, <1>3, <1>4 DEF Framed, GuardedThawed, Recalculating, IsMethod
<1>9. ReadersRead'
  BY <1>1, <1>2, <1>3, <1>4, <1>5 DEF Framed, ReadersRead, IsMethod, IsUpdate
<1>10. Telling' BY <1>1, <1>2, <1>4, MethodTelling DEF IsMethod
<1>. QED BY <1>7, <1>8, <1>9, <1>10 DEF Framed

LEMMA CalculationEndsWatched == ASSUME Watches, CalculationEnds PROVE Framed' /\ Telling'
<1>. USE DEF Watches, Begins
<1>1. /\ UNCHANGED <<market, engine, pending, done, seen>>
      /\ stack # <<>> /\ IsMethod(E!Top, "calculate") /\ stack' = E!Below
  BY DEF CalculationEnds, OnlyCalculates, bodies, InMethod, E!TopIs, IsMethod
<1>2. /\ Height \in Nat \ {0} /\ E!Top = stack[Height]
      /\ Height' = Height - 1 /\ \A i \in 1..(Height - 1) : stack'[i] = stack[i]
  BY <1>1, TopFrame, InvScope DEF Scope, Height
<1>3. /\ \A f \in Frames : f # E!Top => f \in Frames'
      /\ Frames' \subseteq Frames
  BY <1>1, PoppedFrames DEF Frames
<1>4. /\ lazy'.updating = lazy.updating /\ lazy'.frozen = lazy.frozen
      /\ lazy'.failed \/ lazy'.calculated = lazy.calculated
  BY InvScope DEF CalculationEnds, Succeeded, Failed, Cells
<1>5. lazy.calculated /\ \A i \in 1..(Height - 1) : i \in 1..Height /\ i # Height
  BY <1>1, <1>2 DEF Framed, CalculationOnTop
<1>6. CalculationOnTop'
  BY <1>2, <1>5 DEF Framed, CalculationOnTop
<1>7. GuardedThawed'
  BY <1>3, <1>4 DEF Framed, GuardedThawed, Recalculating
<1>8. ReadersRead'
  BY <1>1, <1>2, <1>4, <1>5 DEF Framed, ReadersRead
<1>9. Telling' BY <1>1, <1>3, <1>4, MethodTelling DEF IsMethod
<1>. QED BY <1>6, <1>7, <1>8, <1>9 DEF Framed

LEMMA RecalculationEndsWatched == ASSUME Watches, RecalculationEnds PROVE Framed' /\ Telling'
<1>. USE DEF Watches, Begins
<1>1. /\ stack # <<>> /\ IsMethod(E!Top, "recalculate") /\ E!Top \in Frames
      /\ Frames' = FramesOf(E!Below) \cup {Method("notify"), E!Round("instrument")}
      /\ FramesOf(E!Below) \subseteq Frames
      /\ \A o : Has("instrument", o) => Due(o)'
  BY RecalculationEndFrames
<1>2. done' = done /\ seen' = seen /\ lazy'.updating = lazy.updating
  BY InvScope DEF RecalculationEnds, bodies, Cells
<1>3. /\ Height \in Nat \ {0} /\ E!Top = stack[Height] /\ Len(E!Below) = Height - 1
      /\ \A i \in 1..(Height - 1) : E!Below[i] = stack[i]
  BY <1>1, TopFrame, InvScope DEF Scope
<1>4. ~IsMethod(E!Top, "calculate") /\ \A c : ~IsUpdate(E!Top, c)
  BY <1>1 DEF IsMethod, IsUpdate
<1>5. \A i \in 1..(Height - 1) :
         ~IsMethod(stack[i], "calculate") /\ ~IsMethod(stack[i], "recalculate")
  <2>1. \A i \in 1..(Height - 1) : i \in 1..Height /\ i # Height BY <1>3
  <2>. QED BY <1>3, <1>4, <2>1 DEF Framed, CalculationOnTop
<1>6. \A f \in FramesOf(E!Below) : \E i \in 1..(Height - 1) : f = stack[i]
  BY <1>3 DEF FramesOf
<1>7. /\ IsMethod(Method("notify"), "notify") /\ E!Round("instrument").kind = "notify"
  BY FramesThere, RoundIs, InvScope, Names
<1>8. Plain(Frames') BY <1>1, <1>5, <1>6, <1>7 DEF Plain, IsMethod
<1>9. NoneRead(Frames, done) BY <1>4, NoneReadTop DEF Framed
<1>10. NoneRead(Frames', done')
  BY <1>1, <1>2, <1>7, <1>9 DEF NoneRead, IsMethod, IsUpdate
<1>11. ~lazy'.updating BY <1>1, <1>2 DEF Framed, GuardedThawed, Recalculating
<1>12. Framed' BY <1>8, <1>10, <1>11, PlainFramed
<1>. QED BY <1>1, <1>2, <1>12, RoundTelling

LEMMA MethodReturnsWatched == ASSUME Watches, MethodReturns PROVE Framed' /\ Telling'
<1>. USE DEF Watches, Begins
<1>1. /\ UNCHANGED <<market, engine, pending, done, seen>>
      /\ stack # <<>> /\ E!Top.kind = "method" /\ stack' = E!Below
      /\ ~IsMethod(E!Top, "calculate") /\ ~IsMethod(E!Top, "recalculate")
      /\ lazy'.frozen = lazy.frozen /\ (lazy'.updating => lazy.updating)
  BY InvScope
  DEF MethodReturns, OnlyCalculates, bodies, InMethod, E!TopIs, IsMethod, Cells
<1>2. /\ \A f \in Frames : f # E!Top => f \in Frames'
      /\ Frames' \subseteq Frames
  BY <1>1, PoppedFrames DEF Frames
<1>3. Calmly BY <1>2 DEF Calmly
<1>4. Framed' BY <1>1, <1>3, CalmFramed DEF IsUpdate, Framed, GuardedThawed
<1>. QED BY <1>1, <1>2, <1>4, MethodTelling

LEMMA NotificationWatched == ASSUME Watches, NotificationStep PROVE Framed' /\ Telling'
<1>. USE DEF Watches, Begins
<1>1. /\ UNCHANGED <<lazy, done, seen>> /\ Current' = Current
      /\ stack # <<>> /\ E!Top.kind \in {"notify", "drain"}
  BY VisitIs, RoundEndsIs, DrainTakesIs, DrainVisitsIs, DrainEndsIs, InvScope
  DEF NotificationStep, market, core, bodies, Current, Price
<1>2. Calmly /\ \A f \in Frames : f.kind = "update" => f \in Frames'
  BY NotificationCalculates
<1>3. /\ ~IsMethod(E!Top, "calculate") /\ ~IsMethod(E!Top, "recalculate")
      /\ \A c : ~IsUpdate(E!Top, c)
  BY <1>1 DEF IsMethod, IsUpdate
<1>4. Framed' BY <1>1, <1>2, <1>3, CalmFramed DEF Framed, GuardedThawed
<1>5. ~Recalculating BY <1>3, PlainTop DEF Framed, Plain, Recalculating
<1>6. ASSUME NEW c \in Readers, Due(c) PROVE Due(c)'
  <2>1. c \in Observers /\ DeferReentrant[c]
    BY Names, ObserversAssumption, DecliningAssumption DEF DeferReentrant, Clients
  <2>2. ASSUME NEW e, E!RoundVisits(e) PROVE Due(c)'
    <3>1. e \in EntryOf(Observers) BY <2>2, VisitIs, InvScope
    <3>2. e.obs = c => e.defer BY <2>1, <3>1 DEF EntryOf
    <3>. QED BY <1>1, <1>6, <2>1, <2>2, <3>2, VisitFrames
  <2>3. CASE Carried BY <1>6, <2>1, <2>3 DEF Carried
  <2>. QED
    BY <1>1, <2>2, <2>3, RoundEndFrames, DrainTakesFrames, DrainVisitsFrames, DrainEndsFrames
    DEF NotificationStep
<1>7. \A c \in Readers : Updating(c) => Updating(c)' BY <1>2 DEF Updating, IsUpdate
<1>8. \A c \in Readers : Told(c) => Told(c)' BY <1>1, <1>6, <1>7, ToldKept
<1>9. Telling' BY <1>1, <1>5, <1>8, NotificationComing, TellingKept
<1>. QED BY <1>4, <1>9

LEMMA WatchedKept == ASSUME Watches, [Next]_vars PROVE Framed' /\ Telling'
<1>. USE DEF Watches, Begins
<1>1. ASSUME UserStep PROVE Framed' /\ Telling'
  <2>1. \A q \in Quotes, v \in Values : ~EngineWrites(q, v) BY DEF EngineWrites, Undisturbed
  <2>2. ~Panics BY UndisturbedRuns DEF Panics
  <2>. QED BY <1>1, <2>1, <2>2, InputWatched, PricingWatched DEF UserStep
<1>2. ASSUME BodyStep PROVE Framed' /\ Telling'
  <2>1. ASSUME NEW o \in Engines \cup Forwarders, Forwards(o, o) PROVE Framed' /\ Telling'
    <3>1. o \in Observers \ ({"updater"} \cup Readers) /\ o \in Observables /\ o # "forwarder"
      BY Names, ObserversAssumption DEF Clients
    <3>. QED BY <2>1, <3>1, ForwardsWatched
  <2>2. ASSUME Forwards("forwarder", "link") PROVE Framed' /\ Telling'
    <3>1. "forwarder" \notin Engines /\ "forwarder" \notin Readers
      BY ObserversAssumption DEF Clients
    <3>2. "forwarder" \in Observers \ ({"updater"} \cup Readers) /\ "link" \in Observables
      BY <3>1, Names
    <3>. QED BY <2>2, <3>1, <3>2, ForwardsWatched
  <2>. QED
    BY <1>2, <2>1, <2>2, LazyUpdateWatched, ReaderWatched, ReturnsWatched, EngineReadsWatched,
       CalculationEndsWatched, RecalculationEndsWatched, MethodReturnsWatched DEF BodyStep
<1>3. ASSUME UNCHANGED vars PROVE Framed' /\ Telling'
  <2>1. /\ stack' = stack /\ pending' = pending /\ done' = done /\ lazy' = lazy
        /\ seen' = seen /\ engine' = engine /\ Current' = Current
    BY <1>3 DEF vars, engineVars, core, bodies, market, Current, Price
  <2>2. Framed'
    BY <2>1 DEF Framed, CalculationOnTop, GuardedThawed, ReadersRead, Recalculating, Frames, Height
  <2>3. Frames' = Frames BY <2>1 DEF Frames
  <2>4. \A o : Due(o) <=> Due(o)' BY <2>1, <2>3 DEF Due
  <2>5. \A c \in Readers : Told(c) => Told(c)' BY <2>1, <2>3, <2>4 DEF Told, Updating
  <2>6. Coming => Coming' BY <2>1, <2>4 DEF Coming
  <2>7. Recalculating => Recalculating' BY <2>3 DEF Recalculating
  <2>8. Telling' BY <2>1, <2>5, <2>6, <2>7, TellingKept
  <2>. QED BY <2>2, <2>8
<1>. QED BY <1>1, <1>2, <1>3, NotificationWatched DEF Next, ProgramStep

\* A price is taken along by the reader that returns, and by nobody else.
LEMMA SeenKept ==
    ASSUME IInv, [Next]_vars, NEW c \in Readers, ~InUpdate(c)
    PROVE  seen'[c] = seen[c]
<1>1. ASSUME NEW o \in Observers, Returns(o) PROVE seen'[c] = seen[c]
  BY <1>1, InvScope DEF Returns, Cells
<1>2. ASSUME BodyStep PROVE seen'[c] = seen[c]
  BY <1>1, <1>2
  DEF BodyStep, Forwards, LazyUpdate, ReaderUpdate, EngineReads, CalculationEnds,
      RecalculationEnds, MethodReturns, bodies
<1>3. ASSUME UserStep PROVE seen'[c] = seen[c]
  BY <1>3
  DEF UserStep, InputStep, SetValue, LinkTo, SwapEngine, SwapEngineSilently, SetEvaluationDate,
      Freeze, Unfreeze, Npv, Recalculate, EngineWrites, Panics, bodies
<1>4. ASSUME NotificationStep PROVE seen'[c] = seen[c] BY <1>4 DEF NotificationStep, bodies
<1>5. ASSUME UNCHANGED vars PROVE seen'[c] = seen[c] BY <1>5 DEF vars, bodies
<1>. QED BY <1>2, <1>3, <1>4, <1>5 DEF Next, ProgramStep

\* A program lives in one of the two worlds, and stays there.
LEMMA OneWorld == ~(Unwatched /\ Undisturbed) /\ ~(Unwatched /\ Undisturbed)'
<1>1. ASSUME Unwatched, Undisturbed PROVE FALSE
  <2>1. registry["instrument"] \subseteq EntryOf(Observers \ Readers)
    BY <1>1, Names DEF Unwatched, Confined
  <2>. QED BY <1>1, <2>1 DEF EntryOf, Unread, Undisturbed
<1>2. ASSUME Unwatched', Undisturbed' PROVE FALSE
  <2>1. registry'["instrument"] \subseteq EntryOf(Observers \ Readers)
    BY <1>2, Names DEF Unwatched, Confined
  <2>. QED BY <1>2, <2>1 DEF EntryOf, Unread, Undisturbed
<1>. QED BY <1>1, <1>2

LEMMA CInvInit == ASSUME ReadersApart, Init PROVE CInv
<1>1. FInv BY InitFresh
<1>2. /\ stack = <<>> /\ ~panicked /\ ~lazy.updating /\ \A c \in Readers : seen[c] = Null
  BY DEF Init
<1>3. Height = 0 BY <1>2 DEF Height
<1>4. CalculationOnTop /\ GuardedThawed /\ ReadersRead
  BY <1>2, <1>3 DEF CalculationOnTop, GuardedThawed, ReadersRead
<1>5. GuardedTold /\ ThawedTold BY <1>2 DEF GuardedTold, ThawedTold, Told
<1>. QED BY <1>1, <1>2, <1>4, <1>5 DEF CInv, Caught, Strangers

LEMMA CInvKept == ASSUME CInv, [Next]_vars PROVE CInv'
<1>1. FInv' /\ IInv /\ Registered /\ (Unwatched \/ Undisturbed) BY FInvKept DEF CInv, FInv
<1>2. CASE Unwatched
  <2>1. Unwatched' /\ ~Undisturbed' BY <1>1, <1>2, UnwatchedKept, OneWorld
  <2>2. \A c \in Readers : seen'[c] = Null
    BY <1>1, <1>2, UnwatchedRuns, SeenKept DEF CInv
  <2>3. \A c \in Strangers' : seen'[c] = Null BY <2>2 DEF Strangers
  <2>. QED BY <1>1, <2>1, <2>2, <2>3 DEF CInv
<1>3. CASE Undisturbed
  <2>1. Undisturbed' /\ Strangers' = Strangers BY <1>1, <1>3, UndisturbedKept
  <2>2. ~Unwatched' BY <2>1, OneWorld
  <2>3. ~panicked /\ Caught BY <1>3 DEF CInv
  <2>4. Watches
    BY <1>1, <1>3, <2>1, <2>3
    DEF CInv, FInv, Watches, Begins, Fresh, Framed, Telling, Caught
  <2>5. Framed' /\ Telling' BY <2>4, WatchedKept
  <2>6. ~panicked'
    <3>1. ~Panics BY <1>1, <1>3, UndisturbedRuns DEF Panics
    <3>. QED BY <2>3, <3>1 DEF Next, UserStep, ProgramStep, vars
  <2>7. \A c \in Strangers : seen'[c] = seen[c]
    BY <1>1, <1>3, UndisturbedRuns, SeenKept DEF Strangers
  <2>8. \A c \in Strangers' : seen'[c] = Null BY <2>1, <2>7 DEF CInv
  <2>. QED BY <1>1, <2>2, <2>5, <2>6, <2>8 DEF CInv, Caught, Framed, Telling
<1>. QED BY <1>1, <1>2, <1>3

\* Where no client writes inputs beside one that prices the instrument in its
\* update(), every such client has seen, at rest, the current price, unless the
\* instrument is frozen or could not be priced at the last notification: no
\* notification is lost on it, deferred, coalesced or guarded as they may be
\* (notify_observers, deferred_update, start_calculation).
THEOREM ReadersCatchUp == ASSUME ReadersApart PROVE Spec => []ReadersConverge
<1>1. Init => CInv BY CInvInit
<1>2. CInv /\ [Next]_vars => CInv' BY CInvKept
<1>3. CInv => ReadersConverge
  <2>. SUFFICES ASSUME CInv, AtRest, ~lazy.frozen, NEW c \in Readers
       PROVE  seen[c] \in {Null, Current}
    BY DEF ReadersConverge
  <2>1. CASE Unwatched BY <2>1 DEF CInv
  <2>2. CASE Undisturbed
    <3>1. Frames = {} /\ ~Coming /\ ~Due(c) BY RestIs
    <3>2. ~Recalculating /\ ~Updating(c) BY <3>1 DEF Recalculating, Updating
    <3>3. Told(c) BY <2>2, <3>1, <3>2 DEF CInv, Caught, ThawedTold
    <3>. QED BY <3>1, <3>2, <3>3 DEF Told
  <2>. QED BY <2>1, <2>2 DEF CInv, FInv
<1>. QED BY <1>1, <1>2, <1>3, PTL DEF Spec
==============================================================================
