-------------------------- MODULE SchedulesProofs --------------------------
\* What holds of schedules for any calendar, any arguments and any cuts: the flags of
\* a schedule stay one for each of its periods; if it was made in order, cuts leave it
\* in order, with its own dates between them and with the flags these had; and, within
\* the library's dates and where holidays end in time, a finished schedule pays on
\* business days and covers what was asked for, its periods span a tenor where they
\* are said to, and orderly arguments make it in order. And what holds of a calendar's
\* overrides for any market: the last edit of a date counts.

EXTENDS Schedules, SequenceTheorems, WellFoundedInduction, TLAPS

\* A sequence, of whatever: how dates are reckoned does not matter to the flags.
Sequential(s) == \E S : s \in Seq(S)

\* A schedule with one flag for each of its periods.
Fits(s) ==
    /\ s = [dates |-> s.dates, flags |-> s.flags]
    /\ Sequential(s.dates) /\ s.flags \in Seq(BOOLEAN)
    /\ Len(s.dates) >= 1 /\ Len(s.flags) = Len(s.dates) - 1

\* FlagsMatch is only about finished schedules; those under construction fit too.
FlagsInv ==
    /\ phase \in {"generate", "roll", "trim"} => Fits(schedule)
    /\ phase = "ready" /\ made.flags # <<>> => Fits(schedule)

----------------------------------------------------------------------------
\* Appending, prepending and cutting sequences of whatever.
LEMMA Appended ==
    ASSUME NEW s, Sequential(s), NEW e
    PROVE  Sequential(Append(s, e)) /\ Len(Append(s, e)) = Len(s) + 1
<1>1. PICK S : s \in Seq(S)
      BY DEF Sequential
<1>2. s \in Seq(S \cup {e}) /\ e \in S \cup {e}
      BY <1>1
<1>3. Append(s, e) \in Seq(S \cup {e}) /\ Len(Append(s, e)) = Len(s) + 1
      BY <1>2
<1>4. QED
      BY <1>3 DEF Sequential

LEMMA Joined ==
    ASSUME NEW s, Sequential(s), NEW t, Sequential(t)
    PROVE  Sequential(s \o t) /\ Len(s \o t) = Len(s) + Len(t)
<1>1. PICK S : s \in Seq(S)
      BY DEF Sequential
<1>2. PICK T : t \in Seq(T)
      BY DEF Sequential
<1>3. s \in Seq(S \cup T) /\ t \in Seq(S \cup T)
      BY <1>1, <1>2
<1>4. s \o t \in Seq(S \cup T) /\ Len(s \o t) = Len(s) + Len(t)
      BY <1>3
<1>5. QED
      BY <1>4 DEF Sequential

LEMMA Single ==
    ASSUME NEW e
    PROVE  Sequential(<<e>>) /\ Len(<<e>>) = 1
<1>1. <<e>> \in Seq({e}) /\ Len(<<e>>) = 1
      OBVIOUS
<1>2. QED
      BY <1>1 DEF Sequential

LEMMA Cut ==
    ASSUME NEW s, Sequential(s), NEW a \in 1..(Len(s) + 1), NEW b \in 0..Len(s), a <= b + 1
    PROVE  Sequential(SubSeq(s, a, b)) /\ Len(SubSeq(s, a, b)) = b - a + 1
<1>1. PICK S : s \in Seq(S)
      BY DEF Sequential
<1>2. SubSeq(s, a, b) \in Seq(S) /\ Len(SubSeq(s, a, b)) = b - a + 1
      BY <1>1
<1>3. QED
      BY <1>2 DEF Sequential

LEMMA LenIsNat ==
    ASSUME NEW s, Sequential(s)
    PROVE  Len(s) \in Nat
BY DEF Sequential

LEMMA Removed ==
    ASSUME NEW s, Sequential(s), NEW i \in 1..Len(s)
    PROVE  Sequential(RemoveAt(s, i)) /\ Len(RemoveAt(s, i)) = Len(s) - 1
<1>1. Len(s) \in Nat
      BY LenIsNat
<1>2. Sequential(SubSeq(s, 1, i - 1)) /\ Len(SubSeq(s, 1, i - 1)) = i - 1
      BY <1>1, Cut
<1>3. Sequential(SubSeq(s, i + 1, Len(s))) /\ Len(SubSeq(s, i + 1, Len(s))) = Len(s) - i
      BY <1>1, Cut
<1> DEFINE before == SubSeq(s, 1, i - 1)
           behind == SubSeq(s, i + 1, Len(s))
<1>4. Sequential(before \o behind) /\ Len(before \o behind) = Len(before) + Len(behind)
      BY <1>2, <1>3, Joined
<1>5. RemoveAt(s, i) = before \o behind
      BY DEF RemoveAt
<1>6. Len(before) = i - 1 /\ Len(behind) = Len(s) - i
      BY <1>2, <1>3
<1> HIDE DEF before, behind
<1>7. Len(before) + Len(behind) = Len(s) - 1
      BY <1>1, <1>6
<1>8. QED
      BY <1>4, <1>5, <1>7

\* Flags are cut like dates, and keep their type.
LEMMA FlagsCut ==
    ASSUME NEW f \in Seq(BOOLEAN), NEW a \in 1..(Len(f) + 1), NEW b \in 0..Len(f), a <= b + 1
    PROVE  SubSeq(f, a, b) \in Seq(BOOLEAN) /\ Len(SubSeq(f, a, b)) = b - a + 1
OBVIOUS

LEMMA FlagSet ==
    ASSUME NEW f \in Seq(BOOLEAN), NEW i, NEW v \in BOOLEAN
    PROVE  [f EXCEPT ![i] = v] \in Seq(BOOLEAN) /\ Len([f EXCEPT ![i] = v]) = Len(f)
<1> DEFINE g == [f EXCEPT ![i] = v]
<1>1. f \in [1..Len(f) -> BOOLEAN] /\ Len(f) \in Nat
      OBVIOUS
<1>2. g \in [1..Len(f) -> BOOLEAN]
      BY <1>1
<1>3. g \in Seq(BOOLEAN)
      BY <1>1, <1>2
<1>4. DOMAIN g = 1..Len(f) /\ DOMAIN g = 1..Len(g) /\ Len(g) \in Nat
      BY <1>2, <1>3
<1>5. QED
      BY <1>1, <1>3, <1>4

----------------------------------------------------------------------------
\* The pieces that Schedule::new puts a schedule together from, and their additions.
LEMMA ExtendedFits ==
    ASSUME NEW s, Fits(s), NEW d, NEW flag \in BOOLEAN
    PROVE  Fits(Extended(s, d, flag))
<1>1. Sequential(Append(s.dates, d)) /\ Len(Append(s.dates, d)) = Len(s.dates) + 1
      BY Appended DEF Fits
<1>2. Append(s.flags, flag) \in Seq(BOOLEAN) /\ Len(Append(s.flags, flag)) = Len(s.flags) + 1
      BY DEF Fits
<1>3. Len(s.dates) \in Nat
      BY LenIsNat DEF Fits
<1>4. QED
      BY <1>1, <1>2, <1>3 DEF Fits, Extended

LEMMA PrependedFits ==
    ASSUME NEW s, Fits(s), NEW d, NEW flag \in BOOLEAN
    PROVE  Fits([dates |-> <<d>> \o s.dates, flags |-> <<flag>> \o s.flags])
<1>1. Sequential(<<d>> \o s.dates) /\ Len(<<d>> \o s.dates) = 1 + Len(s.dates)
      BY Single, Joined DEF Fits
<1>2. <<flag>> \o s.flags \in Seq(BOOLEAN) /\ Len(<<flag>> \o s.flags) = 1 + Len(s.flags)
      BY DEF Fits
<1>3. Len(s.dates) \in Nat
      BY LenIsNat DEF Fits
<1>4. QED
      BY <1>1, <1>2, <1>3 DEF Fits

LEMMA LoneFits ==
    ASSUME NEW d
    PROVE  Fits([dates |-> <<d>>, flags |-> <<>>])
<1>1. <<>> \in Seq(BOOLEAN) /\ Len(<<>>) = 0
      OBVIOUS
<1>2. QED
      BY <1>1, Single DEF Fits

LEMMA PairFits ==
    ASSUME NEW d, NEW e, NEW flag \in BOOLEAN
    PROVE  Fits([dates |-> <<d, e>>, flags |-> <<flag>>])
<1>1. <<d, e>> \in Seq({d, e}) /\ Len(<<d, e>>) = 2
      OBVIOUS
<1>2. <<flag>> \in Seq(BOOLEAN) /\ Len(<<flag>>) = 1
      OBVIOUS
<1>3. Sequential(<<d, e>>)
      BY <1>1 DEF Sequential
<1>4. QED
      BY <1>1, <1>2, <1>3 DEF Fits

LEMMA EarlierFits ==
    ASSUME NEW s, Fits(s), NEW d, NEW flag \in BOOLEAN, NEW c
    PROVE  Fits(Earlier(s, d, flag, c))
<1>1. \/ Earlier(s, d, flag, c) = s
      \/ Earlier(s, d, flag, c)
           = [dates |-> <<d>> \o s.dates, flags |-> <<flag>> \o s.flags]
      BY DEF Earlier
<1>2. QED
      BY <1>1, PrependedFits

LEMMA LaterFits ==
    ASSUME NEW s, Fits(s), NEW d, NEW flag \in BOOLEAN, NEW c
    PROVE  Fits(Later(s, d, flag, c))
<1>1. Later(s, d, flag, c) = s \/ Later(s, d, flag, c) = Extended(s, d, flag)
      BY DEF Later
<1>2. QED
      BY <1>1, ExtendedFits

\* What the loop starts from, one rule at a time.
LEMMA ZeroFits ==
    ASSUME NEW r
    PROVE  Fits(Zero(r))
BY PairFits DEF Zero

LEMMA FromTheEndFits ==
    ASSUME NEW r
    PROVE  Fits(FromTheEnd(r))
<1>1. CASE Given(r.nextToLast)
      <2>1. (Away(r, r.termination, -1) = r.nextToLast) \in BOOLEAN
            OBVIOUS
      <2>2. QED
            BY <1>1, <2>1, PairFits DEF FromTheEnd
<1>2. CASE ~Given(r.nextToLast)
      BY <1>2, LoneFits DEF FromTheEnd
<1>3. QED
      BY <1>1, <1>2

LEMMA OpeningFits ==
    ASSUME NEW r
    PROVE  Fits(Opening(r))
<1> DEFINE p == PreviousTwentieth(r.effective, r.rule)
<1>1. \/ Opening(r) = [dates |-> <<r.effective>>, flags |-> <<>>]
      \/ Opening(r) = [dates |-> <<AddMonths[-3][p], p>>, flags |-> <<TRUE>>]
      \/ Opening(r) = [dates |-> <<p>>, flags |-> <<>>]
      BY DEF Opening
<1>2. QED
      BY <1>1, LoneFits, PairFits

LEMMA FromTheStartFits ==
    ASSUME NEW r
    PROVE  Fits(FromTheStart(r))
<1> DEFINE stub == Away(r, Last(Opening(r).dates), 1) = r.first
           standard == r.rule \in CDSRules
<1>1. \/ FromTheStart(r) = Extended(Opening(r), r.first, stub)
      \/ FromTheStart(r) = Extended(Opening(r), FirstTwentieth(r), standard)
      \/ FromTheStart(r) = Opening(r)
      BY DEF FromTheStart
<1>2. stub \in BOOLEAN /\ standard \in BOOLEAN
      OBVIOUS
<1> HIDE DEF stub, standard
<1>3. QED
      BY <1>1, <1>2, OpeningFits, ExtendedFits

\* What closes the loop.
LEMMA ClosedBackwardFits ==
    ASSUME NEW r, NEW s, Fits(s)
    PROVE  Fits(ClosedBackward(r, s))
<1> DEFINE onStub == Away(r, Head(s.dates), -1) = r.first
           atFirst == IF Given(r.first) THEN Earlier(s, r.first, onStub, r.convention)
                      ELSE s
           onStart == Away(r, Head(atFirst.dates), -1) = r.effective
<1>1. onStub \in BOOLEAN /\ onStart \in BOOLEAN
      OBVIOUS
<1>2. ClosedBackward(r, s) = Earlier(atFirst, r.effective, onStart, r.convention)
      BY DEF ClosedBackward
<1>3. atFirst = Earlier(s, r.first, onStub, r.convention) \/ atFirst = s
      OBVIOUS
<1> HIDE DEF onStub, atFirst, onStart
<1>4. Fits(atFirst)
      BY <1>1, <1>3, EarlierFits
<1>5. QED
      BY <1>1, <1>2, <1>4, EarlierFits

LEMMA ClosedForwardFits ==
    ASSUME NEW r, NEW s, Fits(s)
    PROVE  Fits(ClosedForward(r, s))
<1> DEFINE onStub == Away(r, Last(s.dates), 1) = r.nextToLast
           atLast == IF Given(r.nextToLast)
                     THEN Later(s, r.nextToLast, onStub, r.convention)
                     ELSE s
<1>1. onStub \in BOOLEAN
      OBVIOUS
<1>2. \/ ClosedForward(r, s) = atLast
      \/ ClosedForward(r, s) = Extended(atLast, NextTwentieth(r.termination, r.rule), TRUE)
      \/ ClosedForward(r, s) = Extended(atLast, r.termination, FALSE)
      BY DEF ClosedForward
<1>3. atLast = Later(s, r.nextToLast, onStub, r.convention) \/ atLast = s
      OBVIOUS
<1> HIDE DEF onStub, atLast
<1>4. Fits(atLast)
      BY <1>1, <1>3, LaterFits
<1>5. QED
      BY <1>2, <1>4, ExtendedFits

\* Rolling keeps the number of dates, and trimming drops a flag with each date.
LEMMA RolledFits ==
    ASSUME NEW r, NEW s, Fits(s)
    PROVE  Fits([s EXCEPT !.dates = RolledDates(r, @)])
<1> DEFINE ds == RolledDates(r, s.dates)
<1>1. Len(s.dates) \in Nat
      BY LenIsNat DEF Fits
<1>2. PICK e : ds = [i \in 1..Len(s.dates) |-> e[i]]
      <2> DEFINE n == Len(s.dates)
                 e == [i \in 1..n |-> ds[i]]
      <2>1. ds = [i \in 1..n |-> ds[i]]
            BY DEF RolledDates
      <2> HIDE DEF ds
      <2>2. ds = [i \in 1..n |-> e[i]]
            BY <2>1
      <2> HIDE DEF e, n
      <2>3. QED
            BY <2>2 DEF n
<1> HIDE DEF ds
<1>3. ds \in Seq({e[i] : i \in 1..Len(s.dates)}) /\ Len(ds) = Len(s.dates)
      BY <1>1, <1>2
<1>4. Sequential(ds)
      BY <1>3 DEF Sequential
<1>5. [s EXCEPT !.dates = RolledDates(r, @)] = [dates |-> ds, flags |-> s.flags]
      BY DEF Fits, ds
<1>6. QED
      BY <1>1, <1>3, <1>4, <1>5 DEF Fits

LEMMA TailTrimmedFits ==
    ASSUME NEW s, Fits(s)
    PROVE  Fits(TailTrimmed(s))
<1> DEFINE n == Len(s.dates)
           k == Len(s.flags)
           v == s.dates[n - 1] = s.dates[n]
           fs == IF k < 2 THEN <<>> ELSE [Front(s.flags) EXCEPT ![k - 1] = v]
<1>1. n \in Nat /\ k = n - 1 /\ n >= 1
      BY LenIsNat DEF Fits
<1>2. CASE n < 2 \/ s.dates[n - 1] < s.dates[n]
      BY <1>2 DEF TailTrimmed
<1>3. CASE ~(n < 2 \/ s.dates[n - 1] < s.dates[n])
      <2>1. n >= 2
            BY <1>1, <1>3
      <2>2. TailTrimmed(s) = [dates |-> RemoveAt(s.dates, n - 1), flags |-> fs]
            BY <1>3 DEF TailTrimmed
      <2>3. Sequential(RemoveAt(s.dates, n - 1)) /\ Len(RemoveAt(s.dates, n - 1)) = n - 1
            BY <1>1, <2>1, Removed DEF Fits
      <2>4. fs \in Seq(BOOLEAN) /\ Len(fs) = n - 2
            <3>1. CASE k < 2
                  <4>1. fs = <<>>
                        BY <3>1
                  <4>2. <<>> \in Seq(BOOLEAN) /\ Len(<<>>) = 0
                        OBVIOUS
                  <4> HIDE DEF fs, v, n, k
                  <4>3. n = 2
                        BY <1>1, <2>1, <3>1
                  <4>4. QED
                        BY <4>1, <4>2, <4>3
            <3>2. CASE ~(k < 2)
                  <4> HIDE DEF v, fs
                  <4>a. /\ s.flags \in Seq(BOOLEAN)
                        /\ 1 \in 1..(k + 1) /\ k - 1 \in 0..k /\ 1 <= k - 1 + 1
                        BY <1>1, <2>1 DEF Fits
                  <4>b. /\ SubSeq(s.flags, 1, k - 1) \in Seq(BOOLEAN)
                        /\ Len(SubSeq(s.flags, 1, k - 1)) = k - 1 - 1 + 1
                        BY <4>a, FlagsCut
                  <4>1. Front(s.flags) \in Seq(BOOLEAN) /\ Len(Front(s.flags)) = k - 1
                        BY <1>1, <4>b DEF Front
                  <4>2. v \in BOOLEAN
                        BY DEF v
                  <4>3. fs = [Front(s.flags) EXCEPT ![k - 1] = v]
                        BY <3>2 DEF fs
                  <4>4. QED
                        BY <1>1, <4>1, <4>2, <4>3, FlagSet
            <3>3. QED
                  BY <3>1, <3>2
      <2> HIDE DEF fs, n, k
      <2>5. QED
            BY <1>1, <2>1, <2>2, <2>3, <2>4 DEF Fits
<1>4. QED
      BY <1>2, <1>3

LEMMA HeadTrimmedFits ==
    ASSUME NEW s, Fits(s)
    PROVE  Fits(HeadTrimmed(s))
<1> DEFINE n == Len(s.dates)
           k == Len(s.flags)
           v == s.dates[1] = s.dates[2]
           fs == IF k < 2 THEN <<>> ELSE [Tail(s.flags) EXCEPT ![1] = v]
<1>1. n \in Nat /\ k = n - 1 /\ n >= 1
      BY LenIsNat DEF Fits
<1>2. CASE n < 2 \/ s.dates[1] < s.dates[2]
      BY <1>2 DEF HeadTrimmed
<1>3. CASE ~(n < 2 \/ s.dates[1] < s.dates[2])
      <2>1. n >= 2
            BY <1>1, <1>3
      <2>2. HeadTrimmed(s) = [dates |-> RemoveAt(s.dates, 2), flags |-> fs]
            BY <1>3 DEF HeadTrimmed
      <2>3. Sequential(RemoveAt(s.dates, 2)) /\ Len(RemoveAt(s.dates, 2)) = n - 1
            BY <1>1, <2>1, Removed DEF Fits
      <2>4. fs \in Seq(BOOLEAN) /\ Len(fs) = n - 2
            <3>1. CASE k < 2
                  <4>1. fs = <<>>
                        BY <3>1
                  <4>2. <<>> \in Seq(BOOLEAN) /\ Len(<<>>) = 0
                        OBVIOUS
                  <4> HIDE DEF fs, v, n, k
                  <4>3. n = 2
                        BY <1>1, <2>1, <3>1
                  <4>4. QED
                        BY <4>1, <4>2, <4>3
            <3>2. CASE ~(k < 2)
                  <4>1. Tail(s.flags) \in Seq(BOOLEAN) /\ Len(Tail(s.flags)) = k - 1
                        BY <1>1, <2>1, <3>2 DEF Fits
                  <4>2. v \in BOOLEAN
                        OBVIOUS
                  <4>3. fs = [Tail(s.flags) EXCEPT ![1] = v]
                        BY <3>2
                  <4> HIDE DEF v, fs
                  <4>4. QED
                        BY <1>1, <4>1, <4>2, <4>3, FlagSet
            <3>3. QED
                  BY <3>1, <3>2
      <2> HIDE DEF fs, n, k
      <2>5. QED
            BY <1>1, <2>1, <2>2, <2>3, <2>4 DEF Fits
<1>4. QED
      BY <1>2, <1>3

----------------------------------------------------------------------------
\* Truncations: what is kept, and what is added at the cut.
LEMMA FromPlaceFits ==
    ASSUME NEW s, Fits(s), NEW k \in 0..(Len(s.dates) - 1)
    PROVE  Fits(FromPlace(s, k))
<1> DEFINE n == Len(s.dates)
<1>1. n \in Nat /\ n >= 1 /\ k \in Nat /\ k <= n - 1 /\ Len(s.flags) = n - 1
      BY LenIsNat DEF Fits
<1>2. Sequential(SubSeq(s.dates, k + 1, n)) /\ Len(SubSeq(s.dates, k + 1, n)) = n - k
      <2>1. k + 1 \in 1..(n + 1) /\ n \in 0..n /\ k + 1 <= n + 1
            BY <1>1
      <2>2. /\ Sequential(SubSeq(s.dates, k + 1, n))
            /\ Len(SubSeq(s.dates, k + 1, n)) = n - (k + 1) + 1
            BY <2>1, Cut DEF Fits
      <2>3. QED
            BY <1>1, <2>2
<1>3. Smaller(k, n - 1) = k
      BY <1>1 DEF Smaller
<1>4. /\ SubSeq(s.flags, k + 1, n - 1) \in Seq(BOOLEAN)
      /\ Len(SubSeq(s.flags, k + 1, n - 1)) = n - 1 - k
      <2>1. s.flags \in Seq(BOOLEAN) /\ k + 1 \in 1..(n - 1 + 1) /\ n - 1 \in 0..(n - 1)
            BY <1>1 DEF Fits
      <2>2. /\ SubSeq(s.flags, k + 1, n - 1) \in Seq(BOOLEAN)
            /\ Len(SubSeq(s.flags, k + 1, n - 1)) = n - 1 - (k + 1) + 1
            BY <1>1, <2>1, FlagsCut
      <2>3. QED
            BY <1>1, <2>2
<1>5. FromPlace(s, k) = [dates |-> SubSeq(s.dates, k + 1, n),
                         flags |-> SubSeq(s.flags, k + 1, n - 1)]
      BY <1>1, <1>3 DEF FromPlace
<1> HIDE DEF n
<1>6. QED
      BY <1>1, <1>2, <1>4, <1>5 DEF Fits

LEMMA UpToPlaceFits ==
    ASSUME NEW s, Fits(s), NEW k \in 1..Len(s.dates)
    PROVE  Fits(UpToPlace(s, k))
<1> DEFINE n == Len(s.dates)
<1>1. n \in Nat /\ k \in Nat /\ 1 <= k /\ k <= n /\ Len(s.flags) = n - 1
      BY LenIsNat DEF Fits
<1>2. Sequential(SubSeq(s.dates, 1, k)) /\ Len(SubSeq(s.dates, 1, k)) = k
      <2>1. 1 \in 1..(n + 1) /\ k \in 0..n /\ 1 <= k + 1
            BY <1>1
      <2>2. /\ Sequential(SubSeq(s.dates, 1, k))
            /\ Len(SubSeq(s.dates, 1, k)) = k - 1 + 1
            BY <2>1, Cut DEF Fits
      <2>3. QED
            BY <1>1, <2>2
<1>3. SubSeq(s.flags, 1, k - 1) \in Seq(BOOLEAN) /\ Len(SubSeq(s.flags, 1, k - 1)) = k - 1
      <2>1. s.flags \in Seq(BOOLEAN) /\ 1 \in 1..(n - 1 + 1) /\ k - 1 \in 0..(n - 1)
            BY <1>1 DEF Fits
      <2>2. /\ SubSeq(s.flags, 1, k - 1) \in Seq(BOOLEAN)
            /\ Len(SubSeq(s.flags, 1, k - 1)) = k - 1 - 1 + 1
            BY <1>1, <2>1, FlagsCut
      <2>3. QED
            BY <1>1, <2>2
<1>4. (n - 1) - (n - k) = k - 1
      BY <1>1
<1>5. UpToPlace(s, k) = [dates |-> SubSeq(s.dates, 1, k), flags |-> SubSeq(s.flags, 1, k - 1)]
      BY <1>1, <1>4 DEF UpToPlace
<1> HIDE DEF n
<1>6. QED
      BY <1>1, <1>2, <1>3, <1>5 DEF Fits

LEMMA CutAtHeadFits ==
    ASSUME NEW s, Fits(s), NEW d
    PROVE  Fits(CutAtHead(s, d))
<1>1. \/ CutAtHead(s, d) = s
      \/ CutAtHead(s, d) = [dates |-> <<d>> \o s.dates, flags |-> <<FALSE>> \o s.flags]
      BY DEF CutAtHead
<1>2. QED
      BY <1>1, PrependedFits

LEMMA CutAtLastFits ==
    ASSUME NEW s, Fits(s), NEW d
    PROVE  Fits(CutAtLast(s, d))
<1>1. CutAtLast(s, d) = s \/ CutAtLast(s, d) = Extended(s, d, FALSE)
      BY DEF CutAtLast
<1>2. QED
      BY <1>1, ExtendedFits

----------------------------------------------------------------------------
LEMMA FlagsInit == Init => FlagsInv
BY DEF Init, FlagsInv

LEMMA FlagsStep == FlagsInv /\ [Next]_vars => FlagsInv'
<1> SUFFICES ASSUME FlagsInv, [Next]_vars
             PROVE  FlagsInv'
    OBVIOUS
<1>1. ASSUME NEW args \in Requests, New(args)
      PROVE  FlagsInv'
      <2> DEFINE r == Normalised(args)
      <2>1. CASE Accepted(r)
            <3>1. NewStarts(r)
                  BY <1>1, <2>1 DEF New
            <3>2. \/ schedule' = Zero(r) /\ phase' = "roll"
                  \/ schedule' = FromTheEnd(r) /\ phase' = "generate"
                  \/ schedule' = FromTheStart(r) /\ phase' = "generate"
                  BY <3>1 DEF NewStarts
            <3> HIDE DEF r
            <3>3. QED
                  BY <3>2, ZeroFits, FromTheEndFits, FromTheStartFits DEF FlagsInv
      <2>2. CASE ~Accepted(r)
            BY <1>1, <2>2 DEF New, FlagsInv
      <2>3. QED
            BY <2>1, <2>2
<1>2. ASSUME NEW l \in Lists, WithMetadata(l)
      PROVE  FlagsInv'
      <2>1. /\ l \in [dates : Seq(Date), flags : Seq(BOOLEAN)]
            /\ l.flags # <<>> => Len(l.flags) = Len(l.dates) - 1
            BY ListsAssumption
      <2>2. phase' = "ready" /\ schedule' = l /\ made' = l
            BY <1>2 DEF WithMetadata
      <2>3. ASSUME l.flags # <<>>
            PROVE  Fits(l)
            <3>1. Len(l.flags) \in Nat /\ Len(l.flags) # 0
                  BY <2>1, <2>3
            <3>2. Sequential(l.dates) /\ Len(l.dates) \in Nat
                  BY <2>1 DEF Sequential
            <3>3. QED
                  BY <2>1, <2>3, <3>1, <3>2 DEF Fits
      <2>4. QED
            BY <2>2, <2>3 DEF FlagsInv
<1>3. ASSUME Generate
      PROVE  FlagsInv'
      <2>1. \/ schedule' = Earlier(schedule, Candidate, TRUE, request.convention)
            \/ schedule' = Later(schedule, Candidate, TRUE, request.convention)
            BY <1>3 DEF Generate
      <2>2. phase = "generate" /\ phase' = phase /\ Fits(schedule)
            BY <1>3 DEF Generate, FlagsInv
      <2>3. Fits(schedule')
            BY <2>1, <2>2, EarlierFits, LaterFits
      <2>4. QED
            BY <2>2, <2>3 DEF FlagsInv
<1>4. ASSUME Close
      PROVE  FlagsInv'
      <2>1. \/ schedule' = ClosedBackward(request, schedule)
            \/ schedule' = ClosedForward(request, schedule)
            BY <1>4 DEF Close
      <2>2. phase' = "roll" /\ Fits(schedule)
            BY <1>4 DEF Close, FlagsInv
      <2>3. Fits(schedule')
            BY <2>1, <2>2, ClosedBackwardFits, ClosedForwardFits
      <2>4. QED
            BY <2>2, <2>3 DEF FlagsInv
<1>5. ASSUME Roll
      PROVE  FlagsInv'
      <2>1. schedule' = [schedule EXCEPT !.dates = RolledDates(request, @)]
            BY <1>5 DEF Roll
      <2>2. phase' = "trim" /\ Fits(schedule)
            BY <1>5 DEF Roll, FlagsInv
      <2>3. QED
            BY <2>1, <2>2, RolledFits DEF FlagsInv
<1>6. ASSUME Trim
      PROVE  FlagsInv'
      <2>1. schedule' = HeadTrimmed(TailTrimmed(schedule))
            BY <1>6 DEF Trim
      <2>2. phase' \in {"ready", "refused"} /\ Fits(schedule)
            BY <1>6 DEF Trim, FlagsInv
      <2>3. Fits(schedule')
            BY <2>1, <2>2, TailTrimmedFits, HeadTrimmedFits
      <2>4. QED
            BY <2>2, <2>3 DEF FlagsInv
<1>7. ASSUME NEW d \in CutDates, After(d)
      PROVE  FlagsInv'
      <2>1. phase = "ready" /\ phase' = phase /\ made' = made
            BY <1>7 DEF After, Cutting
      <2>2. PICK k \in LowerBounds(schedule.dates, d) :
                schedule' = CutAtHead(FromPlace(schedule, k), d)
            BY <1>7 DEF After
      <2>3. k \in 0..(Len(schedule.dates) - 1)
            BY <2>2 DEF LowerBounds
      <2>4. ASSUME made.flags # <<>>
            PROVE  Fits(schedule')
            BY <2>1, <2>2, <2>3, <2>4, FromPlaceFits, CutAtHeadFits DEF FlagsInv
      <2>5. QED
            BY <2>1, <2>4 DEF FlagsInv
<1>8. ASSUME NEW d \in CutDates, Until(d)
      PROVE  FlagsInv'
      <2>1. phase = "ready" /\ phase' = phase /\ made' = made
            BY <1>8 DEF Until, Cutting
      <2>2. PICK k \in LastPlaces(schedule.dates, d) :
                schedule' = CutAtLast(UpToPlace(schedule, k), d)
            BY <1>8 DEF Until
      <2>3. k \in 1..Len(schedule.dates)
            BY <2>2 DEF LastPlaces
      <2>4. ASSUME made.flags # <<>>
            PROVE  Fits(schedule')
            BY <2>1, <2>2, <2>3, <2>4, UpToPlaceFits, CutAtLastFits DEF FlagsInv
      <2>5. QED
            BY <2>1, <2>4 DEF FlagsInv
<1>9. ASSUME EditHolidays
      PROVE  FlagsInv'
      BY <1>9 DEF EditHolidays, builder, FlagsInv
<1>10. ASSUME UNCHANGED vars
       PROVE  FlagsInv'
      BY <1>10 DEF vars, builder, FlagsInv
<1>11. QED
      BY <1>1, <1>2, <1>3, <1>4, <1>5, <1>6, <1>7, <1>8, <1>9, <1>10 DEF Next, ProgramStep

\* A schedule made with flags, by whatever rule over whatever calendar, keeps one for
\* each period through generating, rolling, trimming and any truncations (Schedule::new,
\* after, until), so is_regular_at answers for every one of them.
THEOREM FlagsAlwaysMatch == Spec => []FlagsMatch
<1>1. FlagsInv => FlagsMatch
      BY DEF FlagsInv, FlagsMatch, Ready, Fits
<1>2. QED
      BY <1>1, FlagsInit, FlagsStep, PTL DEF Spec

----------------------------------------------------------------------------
LEMMA EditsInit == Init => LastEditHolds
BY DEF Init, CalendarInit, LastEditHolds

LEMMA EditsStep == LastEditHolds /\ [Next]_vars => LastEditHolds'
<1> SUFFICES ASSUME LastEditHolds, [Next]_vars
             PROVE  LastEditHolds'
    OBVIOUS
<1>1. ASSUME NEW d \in EditDates, AddHoliday(d)
      PROVE  LastEditHolds'
      <2>1. /\ DOMAIN edited' = {d} \cup DOMAIN edited
            /\ edited'[d] = "holiday"
            /\ \A e \in DOMAIN edited : e # d => edited'[e] = edited[e]
            BY <1>1 DEF AddHoliday, Edited
      <2>2. ~IsBusinessDay(d)'
            BY <1>1 DEF AddHoliday, IsBusinessDay
      <2>3. \A e \in DOMAIN edited : e # d => (IsBusinessDay(e)' <=> IsBusinessDay(e))
            BY <1>1 DEF AddHoliday, IsBusinessDay
      <2>4. QED
            BY <2>1, <2>2, <2>3 DEF LastEditHolds
<1>2. ASSUME NEW d \in EditDates, RemoveHoliday(d)
      PROVE  LastEditHolds'
      <2>1. /\ DOMAIN edited' = {d} \cup DOMAIN edited
            /\ edited'[d] = "business"
            /\ \A e \in DOMAIN edited : e # d => edited'[e] = edited[e]
            BY <1>2 DEF RemoveHoliday, Edited
      <2>2. IsBusinessDay(d)'
            BY <1>2 DEF RemoveHoliday, IsBusinessDay
      <2>3. \A e \in DOMAIN edited : e # d => (IsBusinessDay(e)' <=> IsBusinessDay(e))
            BY <1>2 DEF RemoveHoliday, IsBusinessDay
      <2>4. QED
            BY <2>1, <2>2, <2>3 DEF LastEditHolds
<1>3. ASSUME ResetHolidays
      PROVE  LastEditHolds'
      BY <1>3 DEF ResetHolidays, LastEditHolds
<1>4. ASSUME UNCHANGED calendarVars
      PROVE  LastEditHolds'
      BY <1>4 DEF calendarVars, LastEditHolds, IsBusinessDay
<1>5. \/ \E d \in EditDates : AddHoliday(d) \/ RemoveHoliday(d)
      \/ ResetHolidays
      \/ UNCHANGED calendarVars
      BY DEF Next, ProgramStep, New, WithMetadata, Generate, Close, Roll, Trim, After, Until,
             Cutting, EditHolidays, vars
<1>6. QED
      BY <1>1, <1>2, <1>3, <1>4, <1>5

\* Whatever a market's own rule says of a date, and in whatever order its holidays were
\* added, removed and reset, a date is what its last edit made of it (add_holiday and
\* remove_holiday, each of which withdraws the opposite override).
THEOREM LastEditCounts == Spec => []LastEditHolds
BY EditsInit, EditsStep, PTL DEF Spec

----------------------------------------------------------------------------
\* What truncations keep of a schedule that was made in order.

\* Every date is before the ones that follow it, not only before the next.
InOrder(ds) ==
    /\ ds \in Seq(Date)
    /\ \A i, j \in 1..Len(ds) : i < j => ds[i] <= ds[j]

LEMMA Sorted ==
    ASSUME NEW ds \in Seq(Date), NonDecreasing(ds)
    PROVE  InOrder(ds)
<1>1. Len(ds) \in Nat /\ \A i \in 1..Len(ds) : ds[i] \in Nat
      BY ElementOfSeq, LenProperties DEF Date
<1>2. ASSUME ~InOrder(ds)
      PROVE  FALSE
      <2> DEFINE T == {j \in Nat : j <= Len(ds) /\ \E i \in 1..Len(ds) : i < j /\ ~(ds[i] <= ds[j])}
      <2>1. T # {} /\ T \subseteq Nat
            <3>1. PICK i \in 1..Len(ds), j \in 1..Len(ds) : i < j /\ ~(ds[i] <= ds[j])
                  BY <1>2 DEF InOrder
            <3>2. j \in T
                  BY <1>1, <3>1
            <3>3. QED
                  BY <3>2
      <2>2. PICK j \in T : \A k \in T : <<k, j>> \notin OpToRel(<, Nat)
            <3> HIDE DEF T
            <3>1. QED
                  BY <2>1, NatLessThanWellFounded, WFMin
      <2>3. \A k \in T : ~(k < j)
            <3>1. T \subseteq Nat /\ j \in Nat
                  BY <2>1, <2>2
            <3> HIDE DEF T
            <3>2. QED
                  BY <2>2, <3>1 DEF OpToRel
      <2>4. PICK i \in 1..Len(ds) : i < j /\ ~(ds[i] <= ds[j])
            BY <2>2
      <2>5. j \in Nat /\ j <= Len(ds) /\ i \in Nat /\ i >= 1
            <3>1. j \in Nat /\ j <= Len(ds)
                  BY <2>2
            <3> HIDE DEF T
            <3>2. i \in Nat /\ i >= 1
                  BY <1>1, <2>4
            <3>3. QED
                  BY <3>1, <3>2
      <2>6. j - 1 \in 1..(Len(ds) - 1) /\ j - 1 + 1 = j /\ j - 1 \in Nat
            BY <1>1, <2>4, <2>5
      <2>7. ds[j - 1] <= ds[j]
            BY <2>6 DEF NonDecreasing
      <2>8. ds[i] <= ds[j - 1]
            <3>1. CASE i = j - 1
                  BY <1>1, <2>5, <3>1
            <3>2. CASE i < j - 1
                  BY <1>1, <2>3, <2>4, <2>5, <2>6, <3>2
            <3>3. QED
                  BY <2>4, <2>5, <3>1, <3>2
      <2>9. QED
            BY <1>1, <2>4, <2>5, <2>6, <2>7, <2>8
<1>3. QED
      BY <1>2

\* What is left from a place on, and up to one.
LEMMA FromIs ==
    ASSUME NEW S, NEW s \in Seq(S), NEW k \in 0..Len(s)
    PROVE  /\ SubSeq(s, k + 1, Len(s)) \in Seq(S)
           /\ Len(SubSeq(s, k + 1, Len(s))) = Len(s) - k
           /\ \A i \in 1..(Len(s) - k) : SubSeq(s, k + 1, Len(s))[i] = s[k + i]
<1>1. Len(s) \in Nat /\ k \in Nat /\ k <= Len(s)
      BY LenProperties
<1>2. \A i \in (k + 1)..Len(s) : s[i] \in S
      BY <1>1, ElementOfSeq
<1>3. /\ SubSeq(s, k + 1, Len(s)) \in Seq(S)
      /\ Len(SubSeq(s, k + 1, Len(s))) =
             IF k + 1 <= Len(s) THEN Len(s) - (k + 1) + 1 ELSE 0
      /\ \A i \in 1..(Len(s) - (k + 1) + 1) :
             SubSeq(s, k + 1, Len(s))[i] = s[k + 1 + i - 1]
      BY <1>1, <1>2, SubSeqProperties
<1>4. /\ Len(s) - (k + 1) + 1 = Len(s) - k /\ (~(k + 1 <= Len(s)) => Len(s) - k = 0)
      /\ \A i \in 1..(Len(s) - k) : k + 1 + i - 1 = k + i
      BY <1>1
<1>5. QED
      BY <1>3, <1>4

LEMMA UpToIs ==
    ASSUME NEW S, NEW s \in Seq(S), NEW k \in 0..Len(s)
    PROVE  /\ SubSeq(s, 1, k) \in Seq(S)
           /\ Len(SubSeq(s, 1, k)) = k
           /\ \A i \in 1..k : SubSeq(s, 1, k)[i] = s[i]
<1>1. Len(s) \in Nat /\ k \in Nat /\ k <= Len(s)
      BY LenProperties
<1>2. \A i \in 1..k : s[i] \in S
      BY <1>1, ElementOfSeq
<1>3. /\ SubSeq(s, 1, k) \in Seq(S)
      /\ Len(SubSeq(s, 1, k)) = IF 1 <= k THEN k - 1 + 1 ELSE 0
      /\ \A i \in 1..(k - 1 + 1) : SubSeq(s, 1, k)[i] = s[1 + i - 1]
      BY <1>1, <1>2, SubSeqProperties
<1>4. k - 1 + 1 = k /\ (~(1 <= k) => k = 0) /\ \A i \in 1..k : 1 + i - 1 = i
      BY <1>1
<1>5. QED
      BY <1>3, <1>4

\* One in front, one behind.
LEMMA InFront ==
    ASSUME NEW S, NEW s \in Seq(S), NEW e \in S
    PROVE  /\ <<e>> \o s \in Seq(S) /\ Len(<<e>> \o s) = Len(s) + 1
           /\ (<<e>> \o s)[1] = e
           /\ \A i \in 1..Len(s) : (<<e>> \o s)[i + 1] = s[i]
<1>1. <<e>> \in Seq(S) /\ Len(<<e>>) = 1 /\ <<e>>[1] = e /\ Len(s) \in Nat
      BY LenProperties
<1>2. /\ <<e>> \o s \in Seq(S)
      /\ Len(<<e>> \o s) = 1 + Len(s)
      /\ \A i \in 1..(1 + Len(s)) :
             (<<e>> \o s)[i] = IF i <= 1 THEN <<e>>[i] ELSE s[i - 1]
      BY <1>1, ConcatProperties
<1>3. \A i \in 1..Len(s) : i + 1 \in 1..(1 + Len(s)) /\ ~(i + 1 <= 1) /\ i + 1 - 1 = i
      BY <1>1
<1>4. QED
      BY <1>1, <1>2, <1>3

LEMMA Behind ==
    ASSUME NEW S, NEW s \in Seq(S), NEW e \in S
    PROVE  /\ Append(s, e) \in Seq(S) /\ Len(Append(s, e)) = Len(s) + 1
           /\ Append(s, e)[Len(s) + 1] = e
           /\ \A i \in 1..Len(s) : Append(s, e)[i] = s[i]
BY AppendProperties, LenProperties

LEMMA RangeIs ==
    ASSUME NEW S, NEW s \in Seq(S)
    PROVE  \A x : x \in Range(s) <=> \E i \in 1..Len(s) : s[i] = x
<1>1. DOMAIN s = 1..Len(s)
      BY LenProperties
<1>2. QED
      BY <1>1 DEF Range

\* Of dates in order, a cut at d keeps those from d on.
LEMMA KeptFrom ==
    ASSUME NEW ds, InOrder(ds), NEW d \in Date, NEW k \in LowerBounds(ds, d),
           NEW kept \in Seq(Date), Len(kept) = Len(ds) - k,
           \A i \in 1..(Len(ds) - k) : kept[i] = ds[k + i]
    PROVE  /\ InOrder(kept) /\ kept # <<>> /\ d <= Head(kept) /\ Last(kept) = Last(ds)
           /\ \A x : x \in Range(kept) <=> x \in Range(ds) /\ d <= x
           /\ Head(kept) # d => d \notin Range(ds)
<1>1. /\ ds \in Seq(Date) /\ Len(ds) \in Nat /\ \A i \in 1..Len(ds) : ds[i] \in Nat
      /\ \A i, j \in 1..Len(ds) : i < j => ds[i] <= ds[j]
      BY ElementOfSeq, LenProperties DEF InOrder, Date
<1>2. /\ k \in Nat /\ k <= Len(ds) - 1 /\ d \in Nat
      /\ k = 0 \/ ds[k] < d
      /\ ds[k + 1] >= d
      BY <1>1 DEF LowerBounds, Date
<1>3. /\ Len(kept) \in Nat /\ Len(kept) >= 1 /\ kept # <<>> /\ Head(kept) = kept[1]
      /\ kept[1] = ds[k + 1]
      <2>1. Len(kept) \in Nat /\ Len(kept) >= 1
            BY <1>1, <1>2
      <2>2. kept # <<>> /\ Head(kept) = kept[1]
            BY <2>1, EmptySeq, HeadTailProperties
      <2>3. QED
            BY <1>1, <1>2, <2>1, <2>2
<1>4. \A i \in 1..Len(ds) : i <= k => ds[i] < d
      <2>1. ASSUME NEW i \in 1..Len(ds), i <= k
            PROVE  ds[i] < d
            <3>1. k \in 1..Len(ds) /\ ds[k] < d /\ (i = k \/ i < k)
                  BY <1>1, <1>2, <2>1
            <3>2. QED
                  BY <1>1, <1>2, <3>1
      <2>2. QED
            BY <2>1
<1>5. \A i \in 1..Len(ds) : i > k => ds[k + 1] <= ds[i]
      <2>1. ASSUME NEW i \in 1..Len(ds), i > k
            PROVE  ds[k + 1] <= ds[i]
            <3>1. k + 1 \in 1..Len(ds) /\ (i = k + 1 \/ k + 1 < i)
                  BY <1>1, <1>2, <2>1
            <3>2. QED
                  BY <1>1, <3>1
      <2>2. QED
            BY <2>1
<1>6. \A i \in 1..Len(kept) : k + i \in 1..Len(ds) /\ k + i > k /\ kept[i] = ds[k + i]
      BY <1>1, <1>2
<1>7. \A x : x \in Range(kept) <=> x \in Range(ds) /\ d <= x
      <2>1. ASSUME NEW x, x \in Range(kept)
            PROVE  x \in Range(ds) /\ d <= x
            <3>1. PICK i \in 1..Len(kept) : kept[i] = x
                  BY <2>1, RangeIs
            <3>2. k + i \in 1..Len(ds) /\ ds[k + i] = x /\ ds[k + 1] <= ds[k + i]
                  BY <1>5, <1>6, <3>1
            <3>3. k + 1 \in 1..Len(ds)
                  BY <1>1, <1>2
            <3>4. QED
                  BY <1>1, <1>2, <3>2, <3>3, RangeIs
      <2>2. ASSUME NEW x, x \in Range(ds), d <= x
            PROVE  x \in Range(kept)
            <3>1. PICK i \in 1..Len(ds) : ds[i] = x
                  BY <1>1, <2>2, RangeIs
            <3>2. i > k
                  BY <1>1, <1>2, <1>4, <2>2, <3>1
            <3>3. i - k \in 1..Len(kept) /\ k + (i - k) = i
                  BY <1>1, <1>2, <3>2
            <3>4. kept[i - k] = x
                  BY <1>6, <3>1, <3>3
            <3>5. QED
                  BY <3>3, <3>4, RangeIs
      <2>3. QED
            BY <2>1, <2>2
<1>8. ASSUME NEW i \in 1..Len(kept), NEW j \in 1..Len(kept), i < j
      PROVE  kept[i] <= kept[j]
      <2>1. k + i < k + j
            BY <1>2, <1>3, <1>8
      <2>2. QED
            BY <1>1, <1>6, <2>1
<1>9. Last(kept) = Last(ds)
      <2>1. Len(kept) \in 1..Len(kept) /\ k + Len(kept) = Len(ds)
            BY <1>1, <1>2, <1>3
      <2>2. kept[Len(kept)] = ds[Len(ds)]
            BY <1>6, <2>1
      <2>3. QED
            BY <2>2 DEF Last
<1>10. ASSUME Head(kept) # d, d \in Range(ds)
       PROVE  FALSE
      <2>1. PICK i \in 1..Len(ds) : ds[i] = d
            BY <1>1, <1>10, RangeIs
      <2>2. i > k
            BY <1>1, <1>2, <1>4, <2>1
      <2>3. ds[k + 1] <= d /\ ds[k + 1] # d /\ k + 1 \in 1..Len(ds)
            BY <1>1, <1>2, <1>3, <1>5, <1>10, <2>1, <2>2
      <2>4. QED
            BY <1>1, <1>2, <2>3
<1>11. QED
      BY <1>2, <1>3, <1>7, <1>8, <1>9, <1>10 DEF InOrder

\* ... and gets d in front if it is not there.
LEMMA FrontAdded ==
    ASSUME NEW ds, InOrder(ds), ds # <<>>, NEW d \in Date, d <= Head(ds)
    PROVE  /\ InOrder(<<d>> \o ds) /\ Head(<<d>> \o ds) = d
           /\ Last(<<d>> \o ds) = Last(ds)
           /\ \A x : x \in Range(<<d>> \o ds) <=> x \in Range(ds) \/ x = d
<1>1. /\ ds \in Seq(Date) /\ Len(ds) \in Nat \ {0} /\ \A i \in 1..Len(ds) : ds[i] \in Nat
      /\ \A i, j \in 1..Len(ds) : i < j => ds[i] <= ds[j]
      BY ElementOfSeq, LenProperties, EmptySeq DEF InOrder, Date
<1>2. PICK left : left = <<d>> \o ds
      OBVIOUS
<1>3. /\ left \in Seq(Date) /\ Len(left) = Len(ds) + 1 /\ left[1] = d
      /\ \A i \in 1..Len(ds) : left[i + 1] = ds[i]
      BY <1>1, <1>2, InFront
<1>4. d \in Nat /\ ds[1] = Head(ds)
      BY <1>1, HeadTailProperties DEF Date
<1>5. ASSUME NEW i \in 1..Len(left), i # 1
      PROVE  i - 1 \in 1..Len(ds) /\ left[i] = ds[i - 1]
      <2>1. i - 1 \in 1..Len(ds) /\ i - 1 + 1 = i
            BY <1>1, <1>3, <1>5
      <2>2. QED
            BY <1>3, <2>1
<1>6. \A i \in 1..Len(ds) : d <= ds[i]
      <2>1. ASSUME NEW i \in 1..Len(ds)
            PROVE  d <= ds[i]
            <3>1. 1 \in 1..Len(ds) /\ (i = 1 \/ 1 < i)
                  BY <1>1
            <3>2. ds[1] <= ds[i]
                  BY <1>1, <3>1
            <3>3. QED
                  BY <1>1, <1>4, <3>1, <3>2
      <2>2. QED
            BY <2>1
<1>7. ASSUME NEW i \in 1..Len(left), NEW j \in 1..Len(left), i < j
      PROVE  left[i] <= left[j]
      <2>1. j # 1 /\ Len(left) \in Nat
            BY <1>1, <1>3, <1>7
      <2>2. j - 1 \in 1..Len(ds) /\ left[j] = ds[j - 1]
            BY <1>5, <2>1
      <2>3. CASE i = 1
            BY <1>3, <1>6, <2>2, <2>3
      <2>4. CASE i # 1
            <3>1. i - 1 \in 1..Len(ds) /\ left[i] = ds[i - 1]
                  BY <1>5, <2>4
            <3>2. i - 1 < j - 1
                  BY <1>7, <2>1
            <3>3. QED
                  BY <1>1, <2>2, <3>1, <3>2
      <2>5. QED
            BY <2>3, <2>4
<1>8. left # <<>> /\ Head(left) = d /\ Last(left) = Last(ds)
      <2>1. left # <<>> /\ Len(left) \in Nat
            BY <1>1, <1>3, EmptySeq
      <2>2. Head(left) = d
            BY <1>3, <2>1, HeadTailProperties
      <2>3. left[Len(left)] = ds[Len(ds)]
            BY <1>1, <1>3
      <2>4. QED
            BY <2>1, <2>2, <2>3 DEF Last
<1>9. \A x : x \in Range(left) <=> x \in Range(ds) \/ x = d
      <2>1. ASSUME NEW x, x \in Range(left), x # d
            PROVE  x \in Range(ds)
            <3>1. PICK i \in 1..Len(left) : left[i] = x
                  BY <1>3, <2>1, RangeIs
            <3>2. i # 1
                  BY <1>3, <2>1, <3>1
            <3>3. QED
                  BY <1>1, <1>5, <3>1, <3>2, RangeIs
      <2>2. ASSUME NEW x, x \in Range(ds)
            PROVE  x \in Range(left)
            <3>1. PICK i \in 1..Len(ds) : ds[i] = x
                  BY <1>1, <2>2, RangeIs
            <3>2. i + 1 \in 1..Len(left) /\ left[i + 1] = x
                  BY <1>1, <1>3, <3>1
            <3>3. QED
                  BY <1>3, <3>2, RangeIs
      <2>3. d \in Range(left)
            <3>1. 1 \in 1..Len(left)
                  BY <1>1, <1>3
            <3>2. QED
                  BY <1>3, <3>1, RangeIs
      <2>4. QED
            BY <2>1, <2>2, <2>3
<1>10. QED
      BY <1>2, <1>3, <1>7, <1>8, <1>9 DEF InOrder

\* On the other side it keeps those up to d ...
LEMMA KeptUpTo ==
    ASSUME NEW ds, InOrder(ds), ds # <<>>, NEW d \in Date, NEW k \in LastPlaces(ds, d),
           NEW kept \in Seq(Date), Len(kept) = k, \A i \in 1..k : kept[i] = ds[i]
    PROVE  /\ InOrder(kept) /\ kept # <<>> /\ Last(kept) <= d /\ Head(kept) = Head(ds)
           /\ \A x : x \in Range(kept) <=> x \in Range(ds) /\ x <= d
           /\ Last(kept) # d => d \notin Range(ds)
<1>1. /\ ds \in Seq(Date) /\ Len(ds) \in Nat /\ \A i \in 1..Len(ds) : ds[i] \in Nat
      /\ \A i, j \in 1..Len(ds) : i < j => ds[i] <= ds[j]
      BY ElementOfSeq, LenProperties DEF InOrder, Date
<1>2. /\ k \in Nat /\ 1 <= k /\ k <= Len(ds) /\ d \in Nat /\ k \in 1..Len(ds)
      /\ ds[k] <= d
      /\ \A j \in (k + 1)..Len(ds) : ds[j] > d
      BY <1>1 DEF LastPlaces, Date
<1>3. kept # <<>> /\ Head(kept) = kept[1] /\ Head(ds) = ds[1] /\ Last(kept) = ds[k]
      <2>1. kept # <<>>
            BY <1>2, EmptySeq
      <2>2. Head(kept) = kept[1] /\ Head(ds) = ds[1]
            BY <1>1, <2>1, HeadTailProperties
      <2>3. kept[k] = ds[k]
            BY <1>2
      <2>4. QED
            BY <2>1, <2>2, <2>3 DEF Last
<1>4. \A i \in 1..Len(ds) : i <= k => ds[i] <= d
      <2>1. ASSUME NEW i \in 1..Len(ds), i <= k
            PROVE  ds[i] <= d
            <3>1. i = k \/ i < k
                  BY <1>1, <1>2, <2>1
            <3>2. QED
                  BY <1>1, <1>2, <3>1
      <2>2. QED
            BY <2>1
<1>5. \A i \in 1..k : i \in 1..Len(ds)
      BY <1>1, <1>2
<1>6. \A x : x \in Range(kept) <=> x \in Range(ds) /\ x <= d
      <2>1. ASSUME NEW x, x \in Range(kept)
            PROVE  x \in Range(ds) /\ x <= d
            <3>1. PICK i \in 1..k : kept[i] = x
                  BY <2>1, RangeIs
            <3>2. i \in 1..Len(ds) /\ i <= k /\ ds[i] = x
                  BY <1>2, <1>5, <3>1
            <3>3. QED
                  BY <1>1, <1>4, <3>2, RangeIs
      <2>2. ASSUME NEW x, x \in Range(ds), x <= d
            PROVE  x \in Range(kept)
            <3>1. PICK i \in 1..Len(ds) : ds[i] = x
                  BY <1>1, <2>2, RangeIs
            <3>2. i \in 1..k
                  BY <1>1, <1>2, <2>2, <3>1
            <3>3. QED
                  BY <3>1, <3>2, RangeIs
      <2>3. QED
            BY <2>1, <2>2
<1>7. ASSUME NEW i \in 1..k, NEW j \in 1..k, i < j
      PROVE  kept[i] <= kept[j]
      BY <1>1, <1>5, <1>7
<1>8. ASSUME Last(kept) # d, d \in Range(ds)
      PROVE  FALSE
      <2>1. PICK i \in 1..Len(ds) : ds[i] = d
            BY <1>1, <1>8, RangeIs
      <2>2. i \in 1..k
            BY <1>1, <1>2, <2>1
      <2>3. ds[i] <= ds[k]
            <3>1. i = k \/ i < k
                  BY <1>2, <2>2
            <3>2. QED
                  BY <1>1, <1>2, <3>1
      <2>4. QED
            BY <1>1, <1>2, <1>3, <1>8, <2>1, <2>3
<1>9. Head(kept) = Head(ds)
      <2>1. 1 \in 1..k
            BY <1>2
      <2>2. QED
            BY <1>3, <2>1
<1>10. QED
      BY <1>2, <1>3, <1>6, <1>7, <1>8, <1>9 DEF InOrder

\* ... and gets d behind them.
LEMMA BehindAdded ==
    ASSUME NEW ds, InOrder(ds), ds # <<>>, NEW d \in Date, Last(ds) <= d
    PROVE  /\ InOrder(Append(ds, d)) /\ Append(ds, d) # <<>>
           /\ Last(Append(ds, d)) = d /\ Head(Append(ds, d)) = Head(ds)
           /\ \A x : x \in Range(Append(ds, d)) <=> x \in Range(ds) \/ x = d
<1>1. /\ ds \in Seq(Date) /\ Len(ds) \in Nat \ {0} /\ \A i \in 1..Len(ds) : ds[i] \in Nat
      /\ \A i, j \in 1..Len(ds) : i < j => ds[i] <= ds[j]
      BY ElementOfSeq, LenProperties, EmptySeq DEF InOrder, Date
<1>2. PICK left : left = Append(ds, d)
      OBVIOUS
<1>3. /\ left \in Seq(Date) /\ Len(left) = Len(ds) + 1 /\ left[Len(ds) + 1] = d
      /\ \A i \in 1..Len(ds) : left[i] = ds[i]
      BY <1>1, <1>2, Behind
<1>4. d \in Nat /\ ds[1] = Head(ds) /\ ds[Len(ds)] = Last(ds)
      BY <1>1, HeadTailProperties DEF Date, Last
<1>5. \A i \in 1..Len(left) : i = Len(ds) + 1 \/ (i \in 1..Len(ds) /\ left[i] = ds[i])
      BY <1>1, <1>3
<1>6. \A i \in 1..Len(ds) : ds[i] <= d
      <2>1. ASSUME NEW i \in 1..Len(ds)
            PROVE  ds[i] <= d
            <3>1. Len(ds) \in 1..Len(ds) /\ (i = Len(ds) \/ i < Len(ds))
                  BY <1>1
            <3>2. ds[i] <= ds[Len(ds)]
                  BY <1>1, <3>1
            <3>3. QED
                  BY <1>1, <1>4, <3>1, <3>2
      <2>2. QED
            BY <2>1
<1>7. ASSUME NEW i \in 1..Len(left), NEW j \in 1..Len(left), i < j
      PROVE  left[i] <= left[j]
      <2>1. i \in 1..Len(ds) /\ left[i] = ds[i]
            <3>1. i # Len(ds) + 1
                  BY <1>1, <1>3, <1>7
            <3>2. QED
                  BY <1>5, <3>1
      <2>2. CASE j = Len(ds) + 1
            BY <1>3, <1>6, <2>1, <2>2
      <2>3. CASE j # Len(ds) + 1
            BY <1>1, <1>5, <1>7, <2>1, <2>3
      <2>4. QED
            BY <2>2, <2>3
<1>8. left # <<>> /\ Head(left) = Head(ds) /\ Last(left) = d
      <2>1. left # <<>> /\ 1 \in 1..Len(ds)
            BY <1>1, <1>3, EmptySeq
      <2>2. Head(left) = left[1]
            BY <1>3, <2>1, HeadTailProperties
      <2>3. QED
            BY <1>3, <1>4, <2>1, <2>2 DEF Last
<1>9. \A x : x \in Range(left) <=> x \in Range(ds) \/ x = d
      <2>1. ASSUME NEW x, x \in Range(left), x # d
            PROVE  x \in Range(ds)
            <3>1. PICK i \in 1..Len(left) : left[i] = x
                  BY <1>3, <2>1, RangeIs
            <3>2. i \in 1..Len(ds) /\ ds[i] = x
                  BY <1>3, <1>5, <2>1, <3>1
            <3>3. QED
                  BY <1>1, <3>2, RangeIs
      <2>2. ASSUME NEW x, x \in Range(ds)
            PROVE  x \in Range(left)
            <3>1. PICK i \in 1..Len(ds) : ds[i] = x
                  BY <1>1, <2>2, RangeIs
            <3>2. i \in 1..Len(left) /\ left[i] = x
                  BY <1>1, <1>3, <3>1
            <3>3. QED
                  BY <1>3, <3>2, RangeIs
      <2>3. d \in Range(left)
            <3>1. Len(ds) + 1 \in 1..Len(left)
                  BY <1>1, <1>3
            <3>2. QED
                  BY <1>3, <3>1, RangeIs
      <2>4. QED
            BY <2>1, <2>2, <2>3
<1>10. QED
      BY <1>2, <1>3, <1>7, <1>8, <1>9 DEF InOrder

\* after() and until() on dates in order.
LEMMA AfterDates ==
    ASSUME NEW s, InOrder(s.dates), NEW d \in Date, NEW k \in LowerBounds(s.dates, d),
           NEW t, t = CutAtHead(FromPlace(s, k), d)
    PROVE  /\ InOrder(t.dates) /\ t.dates # <<>>
           /\ Head(t.dates) = d /\ Last(t.dates) = Last(s.dates)
           /\ \A x : x \in Range(t.dates) <=> (x \in Range(s.dates) /\ d <= x) \/ x = d
           /\ Head(FromPlace(s, k).dates) # d => d \notin Range(s.dates)
<1>1. s.dates \in Seq(Date) /\ k \in 0..(Len(s.dates) - 1) /\ k \in 0..Len(s.dates)
      BY LenProperties DEF InOrder, LowerBounds
<1>2. PICK kept : kept = FromPlace(s, k)
      OBVIOUS
<1>3. kept.dates = SubSeq(s.dates, k + 1, Len(s.dates))
      BY <1>2 DEF FromPlace
<1>4. /\ kept.dates \in Seq(Date) /\ Len(kept.dates) = Len(s.dates) - k
      /\ \A i \in 1..(Len(s.dates) - k) : kept.dates[i] = s.dates[k + i]
      BY <1>1, <1>3, FromIs
<1>5. /\ InOrder(kept.dates) /\ kept.dates # <<>> /\ d <= Head(kept.dates)
      /\ Last(kept.dates) = Last(s.dates)
      /\ \A x : x \in Range(kept.dates) <=> x \in Range(s.dates) /\ d <= x
      /\ Head(kept.dates) # d => d \notin Range(s.dates)
      BY <1>4, KeptFrom
<1>6. CASE Head(kept.dates) = d
      <2>1. t = kept
            BY <1>2, <1>6 DEF CutAtHead
      <2>2. d \in Range(kept.dates)
            <3>1. Head(kept.dates) = kept.dates[1] /\ 1 \in 1..Len(kept.dates)
                  BY <1>4, <1>5, HeadTailProperties, EmptySeq, LenProperties
            <3>2. QED
                  BY <1>4, <1>6, <3>1, RangeIs
      <2>3. QED
            BY <1>2, <1>5, <1>6, <2>1, <2>2
<1>7. CASE Head(kept.dates) # d
      <2>1. t.dates = <<d>> \o kept.dates
            BY <1>2, <1>7 DEF CutAtHead
      <2>2. t.dates # <<>>
            <3>1. Len(t.dates) = Len(kept.dates) + 1 /\ Len(kept.dates) \in Nat
                  BY <1>4, <2>1, InFront, LenProperties
            <3>2. QED
                  BY <3>1
      <2>3. /\ InOrder(t.dates) /\ Head(t.dates) = d /\ Last(t.dates) = Last(kept.dates)
            /\ \A x : x \in Range(t.dates) <=> x \in Range(kept.dates) \/ x = d
            BY <1>5, <2>1, FrontAdded
      <2>4. QED
            BY <1>2, <1>5, <2>2, <2>3
<1>8. QED
      BY <1>6, <1>7

LEMMA UntilDates ==
    ASSUME NEW s, InOrder(s.dates), s.dates # <<>>, NEW d \in Date,
           NEW k \in LastPlaces(s.dates, d), NEW t, t = CutAtLast(UpToPlace(s, k), d)
    PROVE  /\ InOrder(t.dates) /\ t.dates # <<>>
           /\ Last(t.dates) = d /\ Head(t.dates) = Head(s.dates)
           /\ \A x : x \in Range(t.dates) <=> (x \in Range(s.dates) /\ x <= d) \/ x = d
           /\ Last(UpToPlace(s, k).dates) # d => d \notin Range(s.dates)
<1>1. s.dates \in Seq(Date) /\ k \in 1..Len(s.dates) /\ k \in 0..Len(s.dates) /\ k \in Nat
      BY LenProperties DEF InOrder, LastPlaces
<1>2. PICK kept : kept = UpToPlace(s, k)
      OBVIOUS
<1>3. kept.dates = SubSeq(s.dates, 1, k)
      BY <1>2 DEF UpToPlace
<1>4. /\ kept.dates \in Seq(Date) /\ Len(kept.dates) = k
      /\ \A i \in 1..k : kept.dates[i] = s.dates[i]
      BY <1>1, <1>3, UpToIs
<1>5. /\ InOrder(kept.dates) /\ kept.dates # <<>> /\ Last(kept.dates) <= d
      /\ Head(kept.dates) = Head(s.dates)
      /\ \A x : x \in Range(kept.dates) <=> x \in Range(s.dates) /\ x <= d
      /\ Last(kept.dates) # d => d \notin Range(s.dates)
      BY <1>4, KeptUpTo
<1>6. CASE Last(kept.dates) = d
      <2>1. t = kept
            BY <1>2, <1>6 DEF CutAtLast
      <2>2. d \in Range(kept.dates)
            <3>1. kept.dates[k] = d /\ k \in 1..Len(kept.dates)
                  BY <1>1, <1>4, <1>6 DEF Last
            <3>2. QED
                  BY <1>4, <3>1, RangeIs
      <2>3. QED
            BY <1>2, <1>5, <1>6, <2>1, <2>2
<1>7. CASE Last(kept.dates) # d
      <2>1. t.dates = Append(kept.dates, d)
            BY <1>2, <1>7 DEF CutAtLast, Extended
      <2>2. /\ InOrder(t.dates) /\ t.dates # <<>>
            /\ Last(t.dates) = d /\ Head(t.dates) = Head(kept.dates)
            /\ \A x : x \in Range(t.dates) <=> x \in Range(kept.dates) \/ x = d
            BY <1>5, <2>1, BehindAdded
      <2>3. QED
            BY <1>2, <1>5, <2>2
<1>8. QED
      BY <1>6, <1>7

\* A period of s is one of m as it was, or irregular and between dates that m has not both.
AsIn(s, i, m, j) ==
    s.flags[i] = m.flags[j] /\ s.dates[i] = m.dates[j] /\ s.dates[i + 1] = m.dates[j + 1]
Shortened(s, i, m) ==
    ~s.flags[i] /\ ~(s.dates[i] \in Range(m.dates) /\ s.dates[i + 1] \in Range(m.dates))
Traced(s, m) ==
    \A i \in 1..Len(s.flags) : Shortened(s, i, m) \/ \E j \in 1..Len(m.flags) : AsIn(s, i, m, j)

LEMMA TracedOn ==
    ASSUME NEW s, NEW t, NEW m, Traced(s, m),
           \A i \in 1..Len(t.flags) :
               Shortened(t, i, m) \/ \E j \in 1..Len(s.flags) : AsIn(t, i, s, j)
    PROVE  Traced(t, m)
<1>1. ASSUME NEW i \in 1..Len(t.flags)
      PROVE  Shortened(t, i, m) \/ \E j \in 1..Len(m.flags) : AsIn(t, i, m, j)
      <2>1. CASE Shortened(t, i, m)
            BY <2>1
      <2>2. ASSUME NEW j \in 1..Len(s.flags), AsIn(t, i, s, j)
            PROVE  Shortened(t, i, m) \/ \E l \in 1..Len(m.flags) : AsIn(t, i, m, l)
            <3>1. CASE Shortened(s, j, m)
                  BY <2>2, <3>1 DEF Shortened, AsIn
            <3>2. ASSUME NEW l \in 1..Len(m.flags), AsIn(s, j, m, l)
                  PROVE  AsIn(t, i, m, l)
                  BY <2>2, <3>2 DEF AsIn
            <3>3. QED
                  BY <3>1, <3>2 DEF Traced
      <2>3. QED
            BY <2>1, <2>2
<1>2. QED
      BY <1>1 DEF Traced

LEMMA AfterTraced ==
    ASSUME NEW s, Fits(s), s.dates \in Seq(Date), NEW k \in 0..(Len(s.dates) - 1),
           NEW d \in Date, NEW m, Traced(s, m),
           Head(FromPlace(s, k).dates) # d => d \notin Range(m.dates)
    PROVE  Traced(CutAtHead(FromPlace(s, k), d), m)
<1>1. PICK n : n = Len(s.dates)
      OBVIOUS
<1>2. n \in Nat /\ k \in Nat /\ k <= n - 1 /\ Len(s.flags) = n - 1 /\ s.flags \in Seq(BOOLEAN)
      BY <1>1, LenProperties DEF Fits
<1>3. PICK kept : kept = FromPlace(s, k)
      OBVIOUS
<1>4. /\ kept.dates = SubSeq(s.dates, k + 1, n)
      /\ kept.flags = SubSeq(s.flags, k + 1, Len(s.flags))
      <2>1. Smaller(k, n - 1) = k
            BY <1>2 DEF Smaller
      <2>2. QED
            BY <1>1, <1>2, <1>3, <2>1 DEF FromPlace
<1>5. /\ kept.dates \in Seq(Date) /\ Len(kept.dates) = n - k
      /\ \A i \in 1..(n - k) : kept.dates[i] = s.dates[k + i]
      <2>1. k \in 0..Len(s.dates)
            BY <1>1, <1>2
      <2>2. QED
            BY <1>1, <1>4, <2>1, FromIs
<1>6. /\ kept.flags \in Seq(BOOLEAN) /\ Len(kept.flags) = n - 1 - k
      /\ \A i \in 1..(n - 1 - k) : kept.flags[i] = s.flags[k + i]
      <2>1. k \in 0..Len(s.flags)
            BY <1>2
      <2>2. /\ kept.flags \in Seq(BOOLEAN) /\ Len(kept.flags) = Len(s.flags) - k
            /\ \A i \in 1..(Len(s.flags) - k) : kept.flags[i] = s.flags[k + i]
            BY <1>2, <1>4, <2>1, FromIs
      <2>3. QED
            BY <1>2, <2>2
<1>7. ASSUME NEW i \in 1..Len(kept.flags)
      PROVE  k + i \in 1..Len(s.flags) /\ AsIn(kept, i, s, k + i)
      <2>1. i \in 1..(n - 1 - k) /\ i \in 1..(n - k) /\ i + 1 \in 1..(n - k)
            BY <1>2, <1>6
      <2>2. k + i \in 1..Len(s.flags) /\ k + (i + 1) = k + i + 1
            BY <1>2, <2>1
      <2>3. QED
            BY <1>5, <1>6, <2>1, <2>2 DEF AsIn
<1>8. CASE Head(kept.dates) = d
      <2>1. CutAtHead(kept, d) = kept
            BY <1>8 DEF CutAtHead
      <2>2. QED
            BY <1>3, <1>7, <2>1, TracedOn
<1>9. CASE Head(kept.dates) # d
      <2>1. PICK t : t = CutAtHead(kept, d)
            OBVIOUS
      <2>2. t.dates = <<d>> \o kept.dates /\ t.flags = <<FALSE>> \o kept.flags
            BY <1>9, <2>1 DEF CutAtHead
      <2>3. /\ t.dates[1] = d /\ \A i \in 1..(n - k) : t.dates[i + 1] = kept.dates[i]
            BY <1>5, <2>2, InFront
      <2>4. /\ Len(t.flags) = n - k /\ t.flags[1] = FALSE
            /\ \A i \in 1..(n - 1 - k) : t.flags[i + 1] = kept.flags[i]
            <3>1. /\ Len(t.flags) = Len(kept.flags) + 1 /\ t.flags[1] = FALSE
                  /\ \A i \in 1..Len(kept.flags) : t.flags[i + 1] = kept.flags[i]
                  BY <1>6, <2>2, InFront
            <3>2. QED
                  BY <1>2, <1>6, <3>1
      <2>5. ASSUME NEW i \in 1..Len(t.flags)
            PROVE  Shortened(t, i, m) \/ \E j \in 1..Len(s.flags) : AsIn(t, i, s, j)
            <3>1. CASE i = 1
                  BY <1>3, <1>9, <2>3, <2>4, <3>1 DEF Shortened
            <3>2. CASE i # 1
                  <4>1. PICK l : l = i - 1
                        OBVIOUS
                  <4>2. /\ l \in 1..Len(kept.flags) /\ i = l + 1
                        /\ l \in 1..(n - 1 - k) /\ l \in 1..(n - k) /\ l + 1 \in 1..(n - k)
                        BY <1>2, <1>6, <2>4, <3>2, <4>1
                  <4>3. AsIn(t, i, kept, l)
                        BY <2>3, <2>4, <4>2 DEF AsIn
                  <4>4. k + l \in 1..Len(s.flags) /\ AsIn(kept, l, s, k + l)
                        BY <1>7, <4>2
                  <4>5. AsIn(t, i, s, k + l)
                        BY <4>3, <4>4 DEF AsIn
                  <4>6. QED
                        BY <4>4, <4>5
            <3>3. QED
                  BY <3>1, <3>2
      <2>6. QED
            BY <1>3, <2>1, <2>5, TracedOn
<1>10. QED
       BY <1>8, <1>9

LEMMA UntilTraced ==
    ASSUME NEW s, Fits(s), s.dates \in Seq(Date), NEW k \in 1..Len(s.dates),
           NEW d \in Date, NEW m, Traced(s, m),
           Last(UpToPlace(s, k).dates) # d => d \notin Range(m.dates)
    PROVE  Traced(CutAtLast(UpToPlace(s, k), d), m)
<1>1. PICK n : n = Len(s.dates)
      OBVIOUS
<1>2. /\ n \in Nat /\ k \in Nat /\ 1 <= k /\ k <= n
      /\ Len(s.flags) = n - 1 /\ s.flags \in Seq(BOOLEAN)
      BY <1>1, LenProperties DEF Fits
<1>3. PICK kept : kept = UpToPlace(s, k)
      OBVIOUS
<1>4. /\ kept.dates = SubSeq(s.dates, 1, k)
      /\ kept.flags = SubSeq(s.flags, 1, k - 1)
      <2>1. Len(s.flags) - (n - k) = k - 1
            BY <1>2
      <2>2. QED
            BY <1>1, <1>3, <2>1 DEF UpToPlace
<1>5. /\ kept.dates \in Seq(Date) /\ Len(kept.dates) = k
      /\ \A i \in 1..k : kept.dates[i] = s.dates[i]
      <2>1. k \in 0..Len(s.dates)
            BY <1>1, <1>2
      <2>2. QED
            BY <1>4, <2>1, UpToIs
<1>6. /\ kept.flags \in Seq(BOOLEAN) /\ Len(kept.flags) = k - 1
      /\ \A i \in 1..(k - 1) : kept.flags[i] = s.flags[i]
      <2>1. k - 1 \in 0..Len(s.flags)
            BY <1>2
      <2>2. QED
            BY <1>2, <1>4, <2>1, UpToIs
<1>7. ASSUME NEW i \in 1..Len(kept.flags)
      PROVE  i \in 1..Len(s.flags) /\ AsIn(kept, i, s, i)
      <2>1. i \in 1..(k - 1) /\ i \in 1..k /\ i + 1 \in 1..k /\ i \in 1..Len(s.flags)
            BY <1>2, <1>6
      <2>2. QED
            BY <1>5, <1>6, <2>1 DEF AsIn
<1>8. CASE Last(kept.dates) = d
      <2>1. CutAtLast(kept, d) = kept
            BY <1>8 DEF CutAtLast
      <2>2. QED
            BY <1>3, <1>7, <2>1, TracedOn
<1>9. CASE Last(kept.dates) # d
      <2>1. PICK t : t = CutAtLast(kept, d)
            OBVIOUS
      <2>2. t.dates = Append(kept.dates, d) /\ t.flags = Append(kept.flags, FALSE)
            BY <1>9, <2>1 DEF CutAtLast, Extended
      <2>3. t.dates[k + 1] = d /\ \A i \in 1..k : t.dates[i] = kept.dates[i]
            BY <1>5, <2>2, Behind
      <2>4. /\ Len(t.flags) = k /\ t.flags[k] = FALSE
            /\ \A i \in 1..(k - 1) : t.flags[i] = kept.flags[i]
            <3>1. /\ Len(t.flags) = Len(kept.flags) + 1 /\ t.flags[Len(kept.flags) + 1] = FALSE
                  /\ \A i \in 1..Len(kept.flags) : t.flags[i] = kept.flags[i]
                  <4>1. PICK f \in Seq(BOOLEAN) : f = kept.flags
                        BY <1>6
                  <4>2. PICK no \in BOOLEAN : no = FALSE
                        OBVIOUS
                  <4>3. /\ Len(Append(f, no)) = Len(f) + 1 /\ Append(f, no)[Len(f) + 1] = no
                        /\ \A i \in 1..Len(f) : Append(f, no)[i] = f[i]
                        BY ONLY Behind, f \in Seq(BOOLEAN), no \in BOOLEAN
                  <4>4. t.flags = Append(f, no)
                        BY <2>2, <4>1, <4>2
                  <4>5. QED
                        BY <4>1, <4>2, <4>3, <4>4, Zenon
            <3>2. Len(kept.flags) = k - 1 /\ Len(kept.flags) + 1 = k
                  BY <1>2, <1>6
            <3>3. Len(t.flags) = k /\ t.flags[k] = FALSE
                  BY ONLY <3>1, <3>2
            <3>4. \A i \in 1..(k - 1) : t.flags[i] = kept.flags[i]
                  BY ONLY <3>1, <3>2
            <3>5. QED
                  BY <3>3, <3>4
      <2>5. ASSUME NEW i \in 1..Len(t.flags)
            PROVE  Shortened(t, i, m) \/ \E j \in 1..Len(s.flags) : AsIn(t, i, s, j)
            <3>1. CASE i = k
                  BY <1>3, <1>9, <2>3, <2>4, <3>1 DEF Shortened
            <3>2. CASE i # k
                  <4>1. /\ i \in 1..Len(kept.flags) /\ i \in 1..(k - 1)
                        /\ i \in 1..k /\ i + 1 \in 1..k
                        BY <1>2, <1>6, <2>4, <3>2
                  <4>2. AsIn(t, i, kept, i)
                        BY <2>3, <2>4, <4>1 DEF AsIn
                  <4>3. i \in 1..Len(s.flags) /\ AsIn(kept, i, s, i)
                        BY <1>7, <4>1
                  <4>4. AsIn(t, i, s, i)
                        BY <4>2, <4>3 DEF AsIn
                  <4>5. QED
                        BY <4>3, <4>4
            <3>3. QED
                  BY <3>1, <3>2
      <2>6. QED
            BY <1>3, <2>1, <2>5, TracedOn
<1>10. QED
       BY <1>8, <1>9

\* Where a schedule lies: in order, from one cut to the other, with the dates it was
\* made with between the two.
Within(w, x) == (Given(w[1]) => w[1] <= x) /\ (Given(w[2]) => x <= w[2])
Windowed(s, m, w) ==
    /\ InOrder(s.dates)
    /\ w = <<w[1], w[2]>> /\ w[1] \in Date /\ w[2] \in Date
    /\ Given(w[1]) => s.dates # <<>> /\ Head(s.dates) = w[1]
    /\ Given(w[2]) => s.dates # <<>> /\ Last(s.dates) = w[2]
    /\ \A x : x \in Range(s.dates) <=>
                  \/ x \in Range(m.dates) /\ Within(w, x)
                  \/ x \in {w[1], w[2]} /\ Given(x)

\* A schedule as it was made lies in no window, and all its periods are its own.
LEMMA AsMade ==
    ASSUME NEW m, InOrder(m.dates)
    PROVE  Windowed(m, m, <<NullDate, NullDate>>) /\ Traced(m, m)
<1>1. NullDate \in Date /\ ~Given(NullDate)
      BY DEF NullDate, Date, Given
<1>2. PICK w : w = <<NullDate, NullDate>>
      OBVIOUS
<1>3. w = <<w[1], w[2]>> /\ w[1] = NullDate /\ w[2] = NullDate
      BY <1>2
<1>4. Windowed(m, m, w)
      <2>1. \A x : Within(w, x)
            BY <1>1, <1>3 DEF Within
      <2>2. QED
            BY <1>1, <1>3, <2>1 DEF Windowed
<1>5. \A i \in 1..Len(m.flags) : AsIn(m, i, m, i)
      BY DEF AsIn
<1>6. QED
      BY <1>2, <1>4, <1>5 DEF Traced

\* A cut is inside the window, and is a date of its own.
LEMMA CutIsInside ==
    ASSUME NEW s, NEW m, NEW w, Windowed(s, m, w), s.dates # <<>>,
           NEW d \in Date, Head(s.dates) < d, d < Last(s.dates)
    PROVE  /\ Given(d) /\ Within(w, d)
           /\ Given(w[1]) => w[1] < d
           /\ Given(w[2]) => d < w[2]
<1>1. Len(s.dates) \in Nat \ {0} /\ s.dates[1] \in Nat /\ Head(s.dates) = s.dates[1]
      <2>1. s.dates \in Seq(Date) /\ Len(s.dates) \in Nat \ {0}
            BY LenProperties, EmptySeq DEF Windowed, InOrder
      <2>2. 1 \in 1..Len(s.dates)
            BY <2>1
      <2>3. QED
            BY <2>1, <2>2, ElementOfSeq, HeadTailProperties DEF Date
<1>2. Given(d)
      BY <1>1 DEF Given, NullDate, Date
<1>3. (Given(w[1]) => w[1] < d) /\ (Given(w[2]) => d < w[2])
      BY DEF Windowed
<1>4. w[1] \in Nat /\ w[2] \in Nat /\ d \in Nat
      BY DEF Windowed, Date
<1>5. Within(w, d)
      BY <1>3, <1>4 DEF Within
<1>6. QED
      BY <1>2, <1>3, <1>5

\* after() narrows the window from the left, until() from the right.
LEMMA AfterWindowed ==
    ASSUME NEW s, NEW m, NEW w, Windowed(s, m, w), s.dates # <<>>, InOrder(m.dates),
           NEW d \in Date, Head(s.dates) < d, d < Last(s.dates),
           NEW k \in LowerBounds(s.dates, d)
    PROVE  /\ Windowed(CutAtHead(FromPlace(s, k), d), m, <<d, w[2]>>)
           /\ Head(FromPlace(s, k).dates) # d => d \notin Range(m.dates)
<1>1. PICK t : t = CutAtHead(FromPlace(s, k), d)
      OBVIOUS
<1>2. PICK v : v = <<d, w[2]>>
      OBVIOUS
<1>3. v = <<v[1], v[2]>> /\ v[1] = d /\ v[2] = w[2]
      BY <1>2
<1>4. /\ w[1] \in Nat /\ w[2] \in Nat /\ d \in Nat /\ InOrder(s.dates)
      /\ \A x \in Range(m.dates) : x \in Nat
      <2>1. m.dates \in Seq(Date)
            BY DEF InOrder
      <2>2. \A x \in Range(m.dates) : x \in Date
            BY <2>1, RangeIs, ElementOfSeq
      <2>3. QED
            BY <2>2 DEF Windowed, Date
<1>5. /\ InOrder(t.dates) /\ t.dates # <<>>
      /\ Head(t.dates) = d /\ Last(t.dates) = Last(s.dates)
      /\ \A x : x \in Range(t.dates) <=> (x \in Range(s.dates) /\ d <= x) \/ x = d
      /\ Head(FromPlace(s, k).dates) # d => d \notin Range(s.dates)
      BY <1>1, <1>4, AfterDates
<1>6. /\ Given(d) /\ Within(w, d)
      /\ Given(w[1]) => w[1] < d
      /\ Given(w[2]) => d < w[2]
      BY CutIsInside
<1>7. \A x : x \in Range(s.dates) <=> \/ x \in Range(m.dates) /\ Within(w, x)
                                      \/ x \in {w[1], w[2]} /\ Given(x)
      BY DEF Windowed
<1>8. ASSUME NEW x, x \in Range(t.dates)
      PROVE  (x \in Range(m.dates) /\ Within(v, x)) \/ (x \in {v[1], v[2]} /\ Given(x))
      <2>1. CASE x = d
            BY <1>3, <1>6, <2>1
      <2>2. CASE x \in Range(m.dates) /\ Within(w, x) /\ d <= x
            BY <1>3, <2>2 DEF Within
      <2>3. CASE x \in {w[1], w[2]} /\ Given(x) /\ d <= x
            <3>1. x # w[1] \/ x = w[2]
                  BY <1>4, <1>6, <2>3
            <3>2. QED
                  BY <1>3, <2>3, <3>1
      <2>4. QED
            BY <1>5, <1>7, <1>8, <2>1, <2>2, <2>3
<1>9. ASSUME NEW x, (x \in Range(m.dates) /\ Within(v, x)) \/ (x \in {v[1], v[2]} /\ Given(x))
      PROVE  x \in Range(t.dates)
      <2>1. CASE x \in Range(m.dates) /\ Within(v, x)
            <3>1. d <= x /\ (Given(w[2]) => x <= w[2])
                  BY <1>3, <1>6, <2>1 DEF Within
            <3>2. Within(w, x)
                  BY <1>4, <1>6, <2>1, <3>1 DEF Within
            <3>3. QED
                  BY <1>5, <1>7, <2>1, <3>1, <3>2
      <2>2. CASE x = d
            BY <1>5, <2>2
      <2>3. CASE x = w[2] /\ Given(x)
            <3>1. x \in Range(s.dates) /\ d <= x
                  BY <1>4, <1>6, <1>7, <2>3
            <3>2. QED
                  BY <1>5, <3>1
      <2>4. QED
            BY <1>3, <1>9, <2>1, <2>2, <2>3
<1>10. Windowed(t, m, v)
      <2>1. Given(w[2]) => Last(t.dates) = w[2]
            BY <1>5 DEF Windowed
      <2>2. QED
            BY <1>3, <1>4, <1>5, <1>8, <1>9, <2>1 DEF Windowed, Date
<1>11. Head(FromPlace(s, k).dates) # d => d \notin Range(m.dates)
       BY <1>5, <1>6, <1>7
<1>12. QED
       BY <1>1, <1>2, <1>10, <1>11

LEMMA UntilWindowed ==
    ASSUME NEW s, NEW m, NEW w, Windowed(s, m, w), s.dates # <<>>, InOrder(m.dates),
           NEW d \in Date, Head(s.dates) < d, d < Last(s.dates),
           NEW k \in LastPlaces(s.dates, d)
    PROVE  /\ Windowed(CutAtLast(UpToPlace(s, k), d), m, <<w[1], d>>)
           /\ Last(UpToPlace(s, k).dates) # d => d \notin Range(m.dates)
<1>1. PICK t : t = CutAtLast(UpToPlace(s, k), d)
      OBVIOUS
<1>2. PICK v : v = <<w[1], d>>
      OBVIOUS
<1>3. v = <<v[1], v[2]>> /\ v[1] = w[1] /\ v[2] = d
      BY <1>2
<1>4. /\ w[1] \in Nat /\ w[2] \in Nat /\ d \in Nat /\ InOrder(s.dates)
      /\ \A x \in Range(m.dates) : x \in Nat
      <2>1. m.dates \in Seq(Date)
            BY DEF InOrder
      <2>2. \A x \in Range(m.dates) : x \in Date
            BY <2>1, RangeIs, ElementOfSeq
      <2>3. QED
            BY <2>2 DEF Windowed, Date
<1>5. /\ InOrder(t.dates) /\ t.dates # <<>>
      /\ Last(t.dates) = d /\ Head(t.dates) = Head(s.dates)
      /\ \A x : x \in Range(t.dates) <=> (x \in Range(s.dates) /\ x <= d) \/ x = d
      /\ Last(UpToPlace(s, k).dates) # d => d \notin Range(s.dates)
      BY <1>1, <1>4, UntilDates
<1>6. /\ Given(d) /\ Within(w, d)
      /\ Given(w[1]) => w[1] < d
      /\ Given(w[2]) => d < w[2]
      BY CutIsInside
<1>7. \A x : x \in Range(s.dates) <=> \/ x \in Range(m.dates) /\ Within(w, x)
                                      \/ x \in {w[1], w[2]} /\ Given(x)
      BY DEF Windowed
<1>8. ASSUME NEW x, x \in Range(t.dates)
      PROVE  (x \in Range(m.dates) /\ Within(v, x)) \/ (x \in {v[1], v[2]} /\ Given(x))
      <2>1. CASE x = d
            BY <1>3, <1>6, <2>1
      <2>2. CASE x \in Range(m.dates) /\ Within(w, x) /\ x <= d
            BY <1>3, <2>2 DEF Within
      <2>3. CASE x \in {w[1], w[2]} /\ Given(x) /\ x <= d
            <3>1. x # w[2] \/ x = w[1]
                  BY <1>4, <1>6, <2>3
            <3>2. QED
                  BY <1>3, <2>3, <3>1
      <2>4. QED
            BY <1>5, <1>7, <1>8, <2>1, <2>2, <2>3
<1>9. ASSUME NEW x, (x \in Range(m.dates) /\ Within(v, x)) \/ (x \in {v[1], v[2]} /\ Given(x))
      PROVE  x \in Range(t.dates)
      <2>1. CASE x \in Range(m.dates) /\ Within(v, x)
            <3>1. x <= d /\ (Given(w[1]) => w[1] <= x)
                  BY <1>3, <1>6, <2>1 DEF Within
            <3>2. Within(w, x)
                  BY <1>4, <1>6, <2>1, <3>1 DEF Within
            <3>3. QED
                  BY <1>5, <1>7, <2>1, <3>1, <3>2
      <2>2. CASE x = d
            BY <1>5, <2>2
      <2>3. CASE x = w[1] /\ Given(x)
            <3>1. x \in Range(s.dates) /\ x <= d
                  BY <1>4, <1>6, <1>7, <2>3
            <3>2. QED
                  BY <1>5, <3>1
      <2>4. QED
            BY <1>3, <1>9, <2>1, <2>2, <2>3
<1>10. Windowed(t, m, v)
      <2>1. Given(w[1]) => Head(t.dates) = w[1]
            BY <1>5 DEF Windowed
      <2>2. QED
            BY <1>3, <1>4, <1>5, <1>8, <1>9, <2>1 DEF Windowed, Date
<1>11. Last(UpToPlace(s, k).dates) # d => d \notin Range(m.dates)
       BY <1>5, <1>6, <1>7
<1>12. QED
       BY <1>1, <1>2, <1>10, <1>11

\* The stub dates that a cut keeps, where they are on its side of the cut.
LEMMA CutMetaKeeps ==
    ASSUME NEW onDate, NEW beyond, NEW m,
           m = CutMeta(onDate, beyond), DOMAIN meta = {"convention", "endConvention", "first", "nextToLast"},
           meta.first \in Date, meta.nextToLast \in Date
    PROVE  /\ DOMAIN m = {"convention", "endConvention", "first", "nextToLast"}
           /\ m.first \in Date /\ m.nextToLast \in Date
           /\ \A x \in {m.first, m.nextToLast} : Given(x) => x \in StubDates \ beyond
<1>1. NullDate \in Date /\ ~Given(NullDate)
      BY DEF NullDate, Date, Given
<1>2. /\ DOMAIN m = DOMAIN meta
      /\ m.first = IF meta.first \in beyond THEN NullDate ELSE meta.first
      /\ m.nextToLast = IF meta.nextToLast \in beyond THEN NullDate ELSE meta.nextToLast
      BY DEF CutMeta
<1>3. QED
      BY <1>1, <1>2 DEF StubDates

\* The inductive invariant: until it is finished a schedule is not cut; one that was
\* made in order lies in its window, as do the stub dates it remembers, and each of its
\* periods can be traced to the one it comes from.
InItsWindow ==
    /\ Windowed(schedule, made, window)
    /\ \A d \in {meta.first, meta.nextToLast} : Given(d) => Within(window, d)
    /\ made.flags # <<>> => Traced(schedule, made)

MetaInv ==
    /\ DOMAIN meta = {"convention", "endConvention", "first", "nextToLast"}
    /\ meta.first \in Date /\ meta.nextToLast \in Date
    /\ request.first \in Date /\ request.nextToLast \in Date

CutsInv ==
    /\ ~Ready => window = <<NullDate, NullDate>>
    /\ Ready /\ made.flags # <<>> => Fits(made)
    /\ Ready /\ InOrder(made.dates) => InItsWindow

LEMMA CutsInit == Init => MetaInv /\ CutsInv
<1>1. NullDate \in Date
      BY DEF NullDate, Date
<1>2. QED
      BY <1>1 DEF Init, MetaInv, CutsInv, Ready, NoRequest

LEMMA MetaStep == MetaInv /\ [Next]_vars => MetaInv'
<1> SUFFICES ASSUME MetaInv, [Next]_vars
             PROVE  MetaInv'
    OBVIOUS
<1>1. NullDate \in Date
      BY DEF NullDate, Date
<1>2. ASSUME NEW args \in Requests, New(args)
      PROVE  MetaInv'
      <2>1. request' = Normalised(args) /\ UNCHANGED meta
            BY <1>2 DEF New
      <2>2. args \in Request
            BY RequestsAssumption
      <2>3. Normalised(args).first \in Date /\ Normalised(args).nextToLast \in Date
            BY <1>1, <2>2 DEF Normalised, Request
      <2>4. QED
            BY <2>1, <2>3 DEF MetaInv
<1>3. ASSUME Trim
      PROVE  MetaInv'
      BY <1>3 DEF Trim, MetaInv
<1>4. ASSUME NEW d, After(d) \/ Until(d)
      PROVE  MetaInv'
      <2>1. PICK onDate, beyond : meta' = CutMeta(onDate, beyond)
            BY <1>4 DEF After, Until
      <2>2. UNCHANGED request
            BY <1>4 DEF After, Until, Cutting
      <2>3. QED
            BY <2>1, <2>2, CutMetaKeeps DEF MetaInv
<1>5. ASSUME UNCHANGED <<meta, request>>
      PROVE  MetaInv'
      BY <1>5 DEF MetaInv
<1>6. QED
      BY <1>2, <1>3, <1>4, <1>5
         DEF Next, ProgramStep, WithMetadata, Generate, Close, Roll, EditHolidays, builder, vars

\* The two truncations, of a schedule that is in its window.
LEMMA AfterStaysInside ==
    ASSUME MetaInv, FlagsInv, InItsWindow, InOrder(made.dates), NEW d \in CutDates, After(d)
    PROVE  InItsWindow'
<1>1. /\ Ready /\ schedule.dates # <<>> /\ UNCHANGED made
      /\ d < Last(schedule.dates) /\ Head(schedule.dates) < d /\ d \in Date
      /\ Windowed(schedule, made, window)
      <2>1. d \in Date
            BY BoundsAssumption
      <2>2. schedule.dates \in Seq(Date) /\ schedule.dates # <<>>
            BY DEF After, Cutting, InItsWindow, Windowed, InOrder
      <2>3. Head(schedule.dates) \in Nat
            BY <2>2, HeadTailProperties DEF Date
      <2>4. QED
            BY <2>1, <2>2, <2>3 DEF After, Cutting, Ready, InItsWindow, Date
<1>2. PICK k \in LowerBounds(schedule.dates, d) :
          /\ schedule' = CutAtHead(FromPlace(schedule, k), d)
          /\ meta' = CutMeta(Head(FromPlace(schedule, k).dates) = d,
                             {x \in StubDates : x <= d})
      BY DEF After
<1>3. window' = <<d, window[2]>>
      BY DEF After
<1>4. /\ Windowed(schedule', made, window')
      /\ Head(FromPlace(schedule, k).dates) # d => d \notin Range(made.dates)
      BY <1>1, <1>2, <1>3, AfterWindowed
<1>5. ASSUME NEW x \in {meta.first, meta.nextToLast}', Given(x)
      PROVE  Within(window', x)
      <2>1. x \in StubDates \ {y \in StubDates : y <= d}
            BY <1>2, <1>5, CutMetaKeeps DEF MetaInv
      <2>2. x \in Nat /\ d \in Nat /\ ~(x <= d) /\ Within(window, x)
            BY <1>1, <1>5, <2>1 DEF MetaInv, StubDates, InItsWindow, Date
      <2>3. QED
            BY <1>3, <2>2 DEF Within
<1>6. ASSUME made.flags # <<>>
      PROVE  Traced(schedule', made)
      <2>1. k \in 0..(Len(schedule.dates) - 1)
            BY DEF LowerBounds
      <2>2. Fits(schedule) /\ schedule.dates \in Seq(Date) /\ Traced(schedule, made)
            BY <1>1, <1>6 DEF FlagsInv, Ready, InItsWindow, Windowed, InOrder
      <2>3. QED
            BY <1>1, <1>2, <1>4, <2>1, <2>2, AfterTraced
<1>7. QED
      BY <1>1, <1>4, <1>5, <1>6 DEF InItsWindow

LEMMA UntilStaysInside ==
    ASSUME MetaInv, FlagsInv, InItsWindow, InOrder(made.dates), NEW d \in CutDates, Until(d)
    PROVE  InItsWindow'
<1>1. /\ Ready /\ schedule.dates # <<>> /\ UNCHANGED made
      /\ d < Last(schedule.dates) /\ Head(schedule.dates) < d /\ d \in Date
      /\ Windowed(schedule, made, window)
      <2>1. d \in Date
            BY BoundsAssumption
      <2>2. schedule.dates \in Seq(Date) /\ schedule.dates # <<>>
            BY DEF Until, Cutting, InItsWindow, Windowed, InOrder
      <2>3. Head(schedule.dates) \in Nat
            BY <2>2, HeadTailProperties DEF Date
      <2>4. QED
            BY <2>1, <2>2, <2>3 DEF Until, Cutting, Ready, InItsWindow, Date
<1>2. PICK k \in LastPlaces(schedule.dates, d) :
          /\ schedule' = CutAtLast(UpToPlace(schedule, k), d)
          /\ meta' = CutMeta(Last(UpToPlace(schedule, k).dates) = d,
                             {x \in StubDates : x >= d})
      BY DEF Until
<1>3. window' = <<window[1], d>>
      BY DEF Until
<1>4. /\ Windowed(schedule', made, window')
      /\ Last(UpToPlace(schedule, k).dates) # d => d \notin Range(made.dates)
      BY <1>1, <1>2, <1>3, UntilWindowed
<1>5. ASSUME NEW x \in {meta.first, meta.nextToLast}', Given(x)
      PROVE  Within(window', x)
      <2>1. x \in StubDates \ {y \in StubDates : y >= d}
            BY <1>2, <1>5, CutMetaKeeps DEF MetaInv
      <2>2. x \in Nat /\ d \in Nat /\ ~(x >= d) /\ Within(window, x)
            BY <1>1, <1>5, <2>1 DEF MetaInv, StubDates, InItsWindow, Date
      <2>3. QED
            BY <1>3, <2>2 DEF Within
<1>6. ASSUME made.flags # <<>>
      PROVE  Traced(schedule', made)
      <2>1. k \in 1..Len(schedule.dates)
            BY DEF LastPlaces
      <2>2. Fits(schedule) /\ schedule.dates \in Seq(Date) /\ Traced(schedule, made)
            BY <1>1, <1>6 DEF FlagsInv, Ready, InItsWindow, Windowed, InOrder
      <2>3. QED
            BY <1>1, <1>2, <1>4, <2>1, <2>2, UntilTraced
<1>7. QED
      BY <1>1, <1>4, <1>5, <1>6 DEF InItsWindow

\* A schedule that has just been made is in the window that leaves everything in.
LEMMA MadeStaysInside ==
    ASSUME MetaInv', InOrder(made'.dates), schedule' = made', window' = <<NullDate, NullDate>>
    PROVE  InItsWindow'
<1>1. Windowed(made', made', window') /\ Traced(made', made')
      BY AsMade
<1>2. \A x : Within(window', x)
      BY DEF Within, Given
<1>3. QED
      BY <1>1, <1>2 DEF InItsWindow

LEMMA CutsStep == MetaInv /\ FlagsInv /\ CutsInv /\ [Next]_vars => CutsInv'
<1> SUFFICES ASSUME MetaInv, FlagsInv, CutsInv, [Next]_vars
             PROVE  CutsInv'
    OBVIOUS
<1>1. MetaInv' /\ FlagsInv'
      BY MetaStep, FlagsStep
<1>2. ASSUME ~Ready', UNCHANGED window, ~Ready
      PROVE  CutsInv'
      BY <1>2 DEF CutsInv
<1>3. ASSUME phase' = "ready", ~Ready, schedule' = made', UNCHANGED window
      PROVE  CutsInv'
      <2>1. window' = <<NullDate, NullDate>>
            BY <1>3 DEF CutsInv
      <2>2. made'.flags # <<>> => Fits(made')
            BY <1>1, <1>3 DEF FlagsInv
      <2>3. InOrder(made'.dates) => InItsWindow'
            BY <1>1, <1>3, <2>1, MadeStaysInside
      <2>4. QED
            BY <1>3, <2>2, <2>3 DEF CutsInv, Ready
<1>4. ASSUME Trim
      PROVE  CutsInv'
      <2>1. ~Ready /\ UNCHANGED window /\ schedule' = made'
            BY <1>4 DEF Trim, Ready
      <2>2. QED
            BY <1>2, <1>3, <2>1 DEF Ready
<1>5. ASSUME NEW l \in Lists, WithMetadata(l)
      PROVE  CutsInv'
      BY <1>3, <1>5 DEF WithMetadata, Ready
<1>6. ASSUME NEW args \in Requests, New(args)
      PROVE  CutsInv'
      <2>1. phase' \in {"generate", "roll", "refused"} /\ ~Ready /\ UNCHANGED window
            BY <1>6 DEF New, NewStarts, Ready
      <2>2. QED
            BY <1>2, <2>1 DEF Ready
<1>7. ASSUME Generate \/ Close \/ Roll
      PROVE  CutsInv'
      <2>1. ~Ready /\ ~Ready' /\ UNCHANGED window
            BY <1>7 DEF Generate, Close, Roll, Ready
      <2>2. QED
            BY <1>2, <2>1
<1>8. ASSUME NEW d \in CutDates, After(d) \/ Until(d)
      PROVE  CutsInv'
      <2>1. Ready /\ Ready' /\ UNCHANGED made
            BY <1>8 DEF After, Until, Cutting, Ready
      <2>2. InOrder(made.dates) => InItsWindow'
            BY <1>8, <2>1, AfterStaysInside, UntilStaysInside DEF CutsInv
      <2>3. QED
            BY <2>1, <2>2 DEF CutsInv
<1>9. ASSUME UNCHANGED builder
      PROVE  CutsInv'
      BY <1>9 DEF builder, CutsInv, InItsWindow, Ready
<1>10. QED
       BY <1>4, <1>5, <1>6, <1>7, <1>8, <1>9 DEF Next, ProgramStep, EditHolidays, vars

----------------------------------------------------------------------------
\* What the invariant says to a client.
LEMMA InWindowIsOrdered ==
    ASSUME InItsWindow
    PROVE  NonDecreasing(schedule.dates)
<1>1. /\ Len(schedule.dates) \in Nat
      /\ \A i, j \in 1..Len(schedule.dates) : i < j => schedule.dates[i] <= schedule.dates[j]
      BY LenProperties DEF InItsWindow, Windowed, InOrder
<1>2. ASSUME NEW i \in 1..(Len(schedule.dates) - 1)
      PROVE  schedule.dates[i] <= schedule.dates[i + 1]
      <2>1. i \in 1..Len(schedule.dates) /\ i + 1 \in 1..Len(schedule.dates) /\ i < i + 1
            BY <1>1
      <2>2. QED
            BY <1>1, <2>1
<1>3. QED
      BY <1>2 DEF NonDecreasing

LEMMA InWindowIsCut ==
    ASSUME InItsWindow
    PROVE  CutToWindow
<1>1. Range(window) = {window[1], window[2]}
      <2>1. PICK a, b : a = window[1] /\ b = window[2]
            OBVIOUS
      <2>2. window = <<a, b>>
            BY <2>1 DEF InItsWindow, Windowed
      <2>3. <<a, b>> \in Seq({a, b}) /\ Len(<<a, b>>) = 2
            OBVIOUS
      <2>4. \A x : x \in Range(<<a, b>>) <=> \E i \in 1..2 : <<a, b>>[i] = x
            BY <2>3, RangeIs
      <2>5. QED
            BY <2>1, <2>2, <2>4
<1>2. \A x : Inside(x) <=> Within(window, x)
      BY DEF Inside, Within
<1>3. \A x : x \in Range(schedule.dates) <=>
                 \/ x \in Range(made.dates) /\ Within(window, x)
                 \/ x \in {window[1], window[2]} /\ Given(x)
      BY DEF InItsWindow, Windowed
<1>4. Range(schedule.dates) =
          {d \in Range(made.dates) : Inside(d)} \cup {d \in Range(window) : Given(d)}
      BY <1>1, <1>2, <1>3
<1>5. \A d \in {meta.first, meta.nextToLast} : Given(d) => Inside(d)
      BY <1>2 DEF InItsWindow
<1>6. QED
      BY <1>4, <1>5 DEF CutToWindow

LEMMA TracedKeepsFlags ==
    ASSUME NEW s, NEW m, Traced(s, m), Fits(m), m.dates \in Seq(Date),
           NEW p \in Range(PeriodsOf(s)) \ Range(PeriodsOf(m))
    PROVE  ~p[3] /\ \A q \in Range(PeriodsOf(m)) : q[1] # p[1] \/ q[2] # p[2]
<1>1. PICK i \in 1..Len(s.flags) : p = <<s.dates[i], s.dates[i + 1], s.flags[i]>>
      BY DEF PeriodsOf, Range
<1>2. \A j \in 1..Len(m.flags) :
          <<m.dates[j], m.dates[j + 1], m.flags[j]>> \in Range(PeriodsOf(m))
      BY DEF PeriodsOf, Range
<1>3. Shortened(s, i, m)
      <2>1. ASSUME NEW j \in 1..Len(m.flags), AsIn(s, i, m, j)
            PROVE  FALSE
            <3>1. p = <<m.dates[j], m.dates[j + 1], m.flags[j]>>
                  BY <1>1, <2>1 DEF AsIn
            <3>2. QED
                  BY <1>2, <3>1
      <2>2. QED
            BY <2>1 DEF Traced
<1>4. ASSUME NEW q \in Range(PeriodsOf(m))
      PROVE  q[1] \in Range(m.dates) /\ q[2] \in Range(m.dates)
      <2>1. PICK j \in 1..Len(m.flags) : q = <<m.dates[j], m.dates[j + 1], m.flags[j]>>
            BY DEF PeriodsOf, Range
      <2>2. j \in 1..Len(m.dates) /\ j + 1 \in 1..Len(m.dates)
            BY LenProperties DEF Fits
      <2>3. QED
            BY <2>1, <2>2, RangeIs
<1>5. ~p[3] /\ p[1] = s.dates[i] /\ p[2] = s.dates[i + 1]
      BY <1>1, <1>3 DEF Shortened
<1>6. QED
      BY <1>3, <1>4, <1>5 DEF Shortened

\* A schedule that was made of dates in order, as Schedule::new means to and as
\* with_metadata takes on trust.
MadeInOrder == made.dates \in Seq(Date) /\ NonDecreasing(made.dates)

LEMMA MadeInOrderIs == MadeInOrder => InOrder(made.dates)
BY Sorted DEF MadeInOrder

LEMMA CutsInvariant == Spec => [](MetaInv /\ FlagsInv /\ CutsInv)
BY CutsInit, FlagsInit, MetaStep, FlagsStep, CutsStep, PTL DEF Spec

\* However a schedule made in order is cut, its dates stay in order: `after` puts its
\* date in front of later ones only, and `until` behind earlier ones.
THEOREM CutsKeepOrder == Spec => [](MadeInOrder => Ordered)
<1>1. MetaInv /\ FlagsInv /\ CutsInv => (MadeInOrder => Ordered)
      BY MadeInOrderIs, InWindowIsOrdered DEF CutsInv, Ordered
<1>2. QED
      BY <1>1, CutsInvariant, PTL

\* However a schedule made in order is cut by `after` and `until`, and in whatever
\* order, it has the dates it was made with between the innermost cuts, the cuts, and
\* no others, and remembers no stub date beyond them.
THEOREM CutsKeepTheWindow == Spec => [](MadeInOrder => CutToWindow)
<1>1. MetaInv /\ FlagsInv /\ CutsInv => (MadeInOrder => CutToWindow)
      <2> SUFFICES ASSUME CutsInv, MadeInOrder
                   PROVE  CutToWindow
          OBVIOUS
      <2>1. CASE Ready
            BY <2>1, MadeInOrderIs, InWindowIsCut DEF CutsInv
      <2>2. CASE ~Ready
            BY <2>2 DEF CutToWindow
      <2>3. QED
            BY <2>1, <2>2
<1>2. QED
      BY <1>1, CutsInvariant, PTL

\* Through any truncations of a schedule made in order, a period that it was made with
\* keeps the flag it had, and one that a cut has shortened is irregular: is_regular_at
\* never takes the flag of another period for its own.
THEOREM CutsKeepFlags == Spec => [](MadeInOrder => PeriodsKeepFlags)
<1>1. MetaInv /\ FlagsInv /\ CutsInv => (MadeInOrder => PeriodsKeepFlags)
      <2> SUFFICES ASSUME CutsInv, MadeInOrder, Ready, made.flags # <<>>,
                          NEW p \in Range(PeriodsOf(schedule)) \ Range(PeriodsOf(made))
                   PROVE  ~p[3] /\ \A q \in Range(PeriodsOf(made)) : q[1] # p[1] \/ q[2] # p[2]
          BY DEF PeriodsKeepFlags
      <2>1. Traced(schedule, made) /\ Fits(made) /\ made.dates \in Seq(Date)
            BY MadeInOrderIs DEF CutsInv, InItsWindow, MadeInOrder
      <2>2. QED
            BY <2>1, TracedKeepsFlags
<1>2. QED
      BY <1>1, CutsInvariant, PTL

----------------------------------------------------------------------------
\* What Schedule::new makes. Rolling finds a business day where the holidays end in
\* time, which depends on the market and on what clients have edited.
NoLongHolidays ==
    \A d \in Int :
        /\ \E e \in d..(d + Horizon) : IsBusinessDay(e)
        /\ \E e \in (d - Horizon)..d : IsBusinessDay(e)

LEMMA FollowingIs ==
    ASSUME NoLongHolidays, NEW d \in Int
    PROVE  /\ Following[d] \in Int /\ d <= Following[d] /\ Following[d] <= d + Horizon
           /\ IsBusinessDay(Following[d])
           /\ \A f \in d..(Following[d] - 1) : ~IsBusinessDay(f)
<1> DEFINE T == {n \in Nat : n <= Horizon /\ IsBusinessDay(d + n)}
<1>1. T # {} /\ T \subseteq Nat
      <2>1. PICK e \in d..(d + Horizon) : IsBusinessDay(e)
            BY DEF NoLongHolidays
      <2>2. e - d \in Nat /\ e - d <= Horizon /\ d + (e - d) = e
            BY HorizonAssumption
      <2>3. e - d \in T
            BY <2>1, <2>2
      <2>4. QED
            BY <2>3
<1>2. PICK n \in T : \A k \in T : <<k, n>> \notin OpToRel(<, Nat)
      <2> HIDE DEF T
      <2>1. QED
            BY <1>1, NatLessThanWellFounded, WFMin
<1>3. \A k \in T : ~(k < n)
      <2>1. T \subseteq Nat /\ n \in Nat
            BY <1>1, <1>2
      <2> HIDE DEF T
      <2>2. QED
            BY <1>2, <2>1 DEF OpToRel
<1>4. n \in Nat /\ n <= Horizon /\ IsBusinessDay(d + n)
      BY <1>2
<1>5. ASSUME NEW f \in d..(d + n - 1)
      PROVE  ~IsBusinessDay(f)
      <2>1. f - d \in Nat /\ f - d < n /\ f - d <= Horizon /\ d + (f - d) = f
            BY <1>4, HorizonAssumption
      <2>2. f - d \notin T
            BY <1>3, <2>1
      <2>3. QED
            BY <2>1, <2>2
<1>6. /\ d + n \in d..(d + Horizon)
      /\ IsBusinessDay(d + n) /\ \A f \in d..(d + n - 1) : ~IsBusinessDay(f)
      BY <1>4, <1>5, HorizonAssumption
<1>7. \E e \in d..(d + Horizon) : IsBusinessDay(e) /\ \A f \in d..(e - 1) : ~IsBusinessDay(f)
      BY <1>6
<1>8. /\ Following[d] \in d..(d + Horizon) /\ IsBusinessDay(Following[d])
      /\ \A f \in d..(Following[d] - 1) : ~IsBusinessDay(f)
      BY <1>7 DEF Following
<1>9. QED
      BY <1>8, HorizonAssumption

LEMMA PrecedingIs ==
    ASSUME NoLongHolidays, NEW d \in Int
    PROVE  /\ Preceding[d] \in Int /\ d - Horizon <= Preceding[d] /\ Preceding[d] <= d
           /\ IsBusinessDay(Preceding[d])
           /\ \A f \in (Preceding[d] + 1)..d : ~IsBusinessDay(f)
<1> DEFINE T == {n \in Nat : n <= Horizon /\ IsBusinessDay(d - n)}
<1>1. T # {} /\ T \subseteq Nat
      <2>1. PICK e \in (d - Horizon)..d : IsBusinessDay(e)
            BY DEF NoLongHolidays
      <2>2. d - e \in Nat /\ d - e <= Horizon /\ d - (d - e) = e
            BY HorizonAssumption
      <2>3. d - e \in T
            BY <2>1, <2>2
      <2>4. QED
            BY <2>3
<1>2. PICK n \in T : \A k \in T : <<k, n>> \notin OpToRel(<, Nat)
      <2> HIDE DEF T
      <2>1. QED
            BY <1>1, NatLessThanWellFounded, WFMin
<1>3. \A k \in T : ~(k < n)
      <2>1. T \subseteq Nat /\ n \in Nat
            BY <1>1, <1>2
      <2> HIDE DEF T
      <2>2. QED
            BY <1>2, <2>1 DEF OpToRel
<1>4. n \in Nat /\ n <= Horizon /\ IsBusinessDay(d - n)
      BY <1>2
<1>5. ASSUME NEW f \in (d - n + 1)..d
      PROVE  ~IsBusinessDay(f)
      <2>1. d - f \in Nat /\ d - f < n /\ d - f <= Horizon /\ d - (d - f) = f
            BY <1>4, HorizonAssumption
      <2>2. d - f \notin T
            BY <1>3, <2>1
      <2>3. QED
            BY <2>1, <2>2
<1>6. /\ d - n \in (d - Horizon)..d
      /\ IsBusinessDay(d - n) /\ \A f \in (d - n + 1)..d : ~IsBusinessDay(f)
      BY <1>4, <1>5, HorizonAssumption
<1>7. \E e \in (d - Horizon)..d : IsBusinessDay(e) /\ \A f \in (e + 1)..d : ~IsBusinessDay(f)
      BY <1>6
<1>8. /\ Preceding[d] \in (d - Horizon)..d /\ IsBusinessDay(Preceding[d])
      /\ \A f \in (Preceding[d] + 1)..d : ~IsBusinessDay(f)
      BY <1>7 DEF Preceding
<1>9. QED
      BY <1>8, HorizonAssumption

\* Whatever the convention, a date that is rolled is rolled to a business day near it.
LEMMA AdjustRolls ==
    ASSUME NoLongHolidays, NEW d \in Int, NEW c \in Conventions
    PROVE  /\ Adjust[c][d] \in Int /\ d - Horizon <= Adjust[c][d] /\ Adjust[c][d] <= d + Horizon
           /\ c # "Unadjusted" => IsBusinessDay(Adjust[c][d])
<1>1. CASE c = "Unadjusted"
      <2>1. Adjust[c][d] = d
            BY <1>1 DEF Adjust
      <2>2. QED
            BY <1>1, <2>1, HorizonAssumption
<1>2. CASE c # "Unadjusted"
      <2>1. Adjust[c][d] \in {Following[d], Preceding[d]}
            BY <1>2 DEF Adjust, Conventions
      <2>2. QED
            BY <2>1, FollowingIs, PrecedingIs, HorizonAssumption
<1>3. QED
      BY <1>1, <1>2

\* Date panics outside 1901 to 2199; within, each day has its month.
InRange(d) == d \in Int /\ 367 <= d /\ d <= 109574

LEMMA InRangeIsInt ==
    ASSUME NEW d, InRange(d)
    PROVE  d \in Int
BY DEF InRange

LEMMA YearIs ==
    ASSUME NEW s, InRange(s)
    PROVE  /\ Year[s] \in 1901..2199 /\ YearOffset(Year[s]) \in Int
           /\ DayOfYear[s] \in 1..(IF IsLeap(Year[s]) THEN 366 ELSE 365)
<1> DEFINE q == s \div 365
           r == s % 365
           l == (q + 3) \div 4
           y == q + 1900
<1>a. s \in Int /\ s >= 367 /\ s <= 109574
      BY DEF InRange
<1>b. q \in Int /\ r \in 0..364 /\ s = 365 * q + r
      BY <1>a
<1>c. q \in 1..300
      <2> HIDE DEF q, r
      <2>1. QED
            BY <1>a, <1>b
<1>1. s \in Int /\ q \in 1..300 /\ r \in 0..364 /\ s = 365 * q + r /\ s >= 367 /\ s <= 109574
      BY <1>a, <1>b, <1>c
<1>2. Year[s] = IF s <= YearOffset(y) THEN y - 1 ELSE y
      BY <1>1 DEF Year
<1>3. DayOfYear[s] = s - YearOffset(Year[s])
      BY <1>1 DEF DayOfYear
<1> HIDE DEF q, r
<1>4. /\ y \in 1901..2200 /\ l \in 1..75
      /\ YearOffset(y) = 365 * q + l - (IF q > 200 THEN 1 ELSE 0)
      BY <1>1 DEF YearOffset
<1>5. YearOffset(y - 1) = 365 * q - 365 + ((q + 2) \div 4) - (IF q > 201 THEN 1 ELSE 0)
      BY <1>1 DEF YearOffset
<1>6. CASE s <= YearOffset(y)
      <2>1. q > 1
            BY <1>1, <1>4, <1>6
      <2>2. Year[s] = y - 1 /\ y - 1 \in 1901..2199
            BY <1>1, <1>2, <1>6, <2>1
      <2>3. ((q + 2) \div 4) \in 1..75 /\ ((q + 2) \div 4) <= l /\ l <= ((q + 2) \div 4) + 1
            BY <1>1, <2>1
      <2>4. DayOfYear[s] >= 1
            BY <1>1, <1>3, <1>5, <2>2, <2>3
      <2>5. DayOfYear[s] <= 366 /\ (l = (q + 2) \div 4 \/ q = 201 => DayOfYear[s] <= 365)
            BY <1>1, <1>3, <1>4, <1>5, <1>6, <2>2, <2>3
      <2>6. l # (q + 2) \div 4 /\ q # 201 => IsLeap(y - 1)
            BY <1>1, <2>2 DEF IsLeap
      <2>7. QED
            BY <1>1, <1>3, <1>5, <2>2, <2>3, <2>4, <2>5, <2>6
<1>7. CASE ~(s <= YearOffset(y))
      <2>1. q < 300
            BY <1>1, <1>4, <1>7
      <2>2. Year[s] = y /\ y \in 1901..2199
            BY <1>1, <1>2, <1>7, <2>1
      <2>3. DayOfYear[s] \in 1..365
            BY <1>1, <1>3, <1>4, <1>7, <2>2
      <2>4. QED
            BY <1>1, <1>4, <2>2, <2>3
<1>8. QED
      BY <1>6, <1>7

LEMMA OffsetIs ==
    ASSUME NEW y
    PROVE  /\ MonthOffset(1, y) = 0 /\ MonthOffset(2, y) = 31
           /\ \A m \in 3..13 :
                MonthOffset(m, y) = <<0, 31, 59, 90, 120, 151, 181, 212, 243, 273, 304, 334, 365>>[m]
                                        + (IF IsLeap(y) THEN 1 ELSE 0)
           /\ \A m \in 1..13 : MonthOffset(m, y) \in Int
<1>1. \A m \in 1..13 :
          <<0, 31, 59, 90, 120, 151, 181, 212, 243, 273, 304, 334, 365>>[m] \in Int
      OBVIOUS
<1>2. QED
      BY <1>1 DEF MonthOffset

LEMMA MonthIs ==
    ASSUME NEW s, InRange(s)
    PROVE  /\ Month[s] \in 1..12
           /\ MonthOffset(Month[s], Year[s]) < DayOfYear[s]
           /\ DayOfYear[s] <= MonthOffset(Month[s] + 1, Year[s])
<1> DEFINE t == DayOfYear[s]
           y == Year[s]
           e == IF IsLeap(y) THEN 1 ELSE 0
<1>a. s \in Int
      BY DEF InRange
<1>b. DayOfYear[s] \in 1..(IF IsLeap(Year[s]) THEN 366 ELSE 365)
      BY YearIs
<1>1. s \in Int /\ t \in 1..(365 + e) /\ e \in {0, 1}
      BY <1>a, <1>b
<1>2. Month[s] = CHOOSE m \in 1..12 : MonthOffset(m, y) < t /\ t <= MonthOffset(m + 1, y)
      BY <1>1 DEF Month
<1> HIDE DEF t, y
<1>3. /\ MonthOffset(1, y) = 0 /\ MonthOffset(2, y) = 31
      /\ MonthOffset(3, y) = 59 + e /\ MonthOffset(4, y) = 90 + e
      /\ MonthOffset(5, y) = 120 + e /\ MonthOffset(6, y) = 151 + e
      /\ MonthOffset(7, y) = 181 + e /\ MonthOffset(8, y) = 212 + e
      /\ MonthOffset(9, y) = 243 + e /\ MonthOffset(10, y) = 273 + e
      /\ MonthOffset(11, y) = 304 + e /\ MonthOffset(12, y) = 334 + e
      /\ MonthOffset(13, y) = 365 + e
      BY OffsetIs
<1> HIDE DEF e
<1>4. \E m \in 1..12 : MonthOffset(m, y) < t /\ t <= MonthOffset(m + 1, y)
      <2>1. CASE t <= 31
            BY <1>1, <1>3, <2>1
      <2>2. CASE t > 31 /\ t <= 59 + e
            BY <1>1, <1>3, <2>2
      <2>3. CASE t > 59 + e /\ t <= 90 + e
            BY <1>1, <1>3, <2>3
      <2>4. CASE t > 90 + e /\ t <= 120 + e
            BY <1>1, <1>3, <2>4
      <2>5. CASE t > 120 + e /\ t <= 151 + e
            BY <1>1, <1>3, <2>5
      <2>6. CASE t > 151 + e /\ t <= 181 + e
            BY <1>1, <1>3, <2>6
      <2>7. CASE t > 181 + e /\ t <= 212 + e
            BY <1>1, <1>3, <2>7
      <2>8. CASE t > 212 + e /\ t <= 243 + e
            BY <1>1, <1>3, <2>8
      <2>9. CASE t > 243 + e /\ t <= 273 + e
            BY <1>1, <1>3, <2>9
      <2>10. CASE t > 273 + e /\ t <= 304 + e
            BY <1>1, <1>3, <2>10
      <2>11. CASE t > 304 + e /\ t <= 334 + e
            BY <1>1, <1>3, <2>11
      <2>12. CASE t > 334 + e
            BY <1>1, <1>3, <2>12
      <2>13. QED
            BY <1>1, <2>1, <2>2, <2>3, <2>4, <2>5, <2>6, <2>7, <2>8, <2>9, <2>10, <2>11, <2>12
<1>5. Month[s] \in 1..12 /\ MonthOffset(Month[s], y) < t /\ t <= MonthOffset(Month[s] + 1, y)
      BY <1>2, <1>4
<1>6. QED
      BY <1>5 DEF t, y

LEMMA MonthDays ==
    ASSUME NEW s, InRange(s)
    PROVE  LastOfMonth[s] \in Int /\ ThirdWednesday(s) \in Int
<1> DEFINE m == Month[s]
           y == Year[s]
<1>a. s \in Int
      BY DEF InRange
<1>b. m \in 1..12 /\ YearOffset(y) \in Int
      BY MonthIs, YearIs
<1>c. MonthOffset(m, y) \in Int
      <2> HIDE DEF m, y
      <2>1. QED
            BY <1>b, OffsetIs
<1>1. s \in Int /\ m \in 1..12 /\ YearOffset(y) \in Int /\ MonthOffset(m, y) \in Int
      BY <1>a, <1>b, <1>c
<1>2. MonthLength(m, y) \in Int
      BY DEF MonthLength
<1>3. LastOfMonth[s] = DateOf(MonthLength(m, y), m, y)
      BY <1>1 DEF LastOfMonth
<1> HIDE DEF m, y
<1>4. \A d \in Int : DateOf(d, m, y) \in Int
      BY <1>1 DEF DateOf
<1>5. Weekday(DateOf(1, m, y)) \in Int
      BY <1>4 DEF Weekday
<1>6. NthWeekday(3, Wednesday, m, y) \in Int
      BY <1>4, <1>5 DEF NthWeekday, Wednesday
<1>7. QED
      BY <1>2, <1>3, <1>4, <1>6 DEF ThirdWednesday, m, y

\* What trimming leaves: the two ends, and between them dates that were there.
Thinned(s, t) ==
    Len(t.dates) > 1 =>
        /\ Len(s.dates) > 1
        /\ t.dates[1] = s.dates[1] /\ Last(t.dates) = Last(s.dates)
        /\ \A i \in 1..Len(t.dates) : \E j \in 1..Len(s.dates) : t.dates[i] = s.dates[j]

LEMMA RemovedIs ==
    ASSUME NEW s, Sequential(s), NEW i \in 1..Len(s)
    PROVE  /\ \A j \in 1..(i - 1) : RemoveAt(s, i)[j] = s[j]
           /\ \A j \in i..(Len(s) - 1) : RemoveAt(s, i)[j] = s[j + 1]
<1>1. PICK S : s \in Seq(S)
      BY DEF Sequential
<1> DEFINE before == SubSeq(s, 1, i - 1)
           behind == SubSeq(s, i + 1, Len(s))
<1>2. Len(s) \in Nat /\ i \in Nat /\ i <= Len(s) /\ i >= 1
      BY <1>1
<1>3. /\ before \in Seq(S) /\ Len(before) = i - 1
      /\ \A j \in 1..(i - 1) : before[j] = s[j]
      BY <1>1, <1>2
<1>4. /\ behind \in Seq(S) /\ Len(behind) = Len(s) - i
      /\ \A j \in 1..(Len(s) - i) : behind[j] = s[i + j]
      BY <1>1, <1>2
<1>5. RemoveAt(s, i) = before \o behind
      BY DEF RemoveAt
<1> HIDE DEF before, behind
<1>6. \A j \in 1..(Len(s) - 1) :
          (before \o behind)[j] = IF j <= i - 1 THEN before[j] ELSE behind[j - (i - 1)]
      BY <1>2, <1>3, <1>4
<1>7. ASSUME NEW j \in i..(Len(s) - 1)
      PROVE  (before \o behind)[j] = s[j + 1]
      <2>1. j - (i - 1) \in 1..(Len(s) - i) /\ i + (j - (i - 1)) = j + 1
            BY <1>2
      <2>2. behind[j - (i - 1)] = s[j + 1]
            BY <1>4, <2>1
      <2>3. j \in 1..(Len(s) - 1) /\ ~(j <= i - 1)
            BY <1>2
      <2>4. (before \o behind)[j] = behind[j - (i - 1)]
            BY <1>6, <2>3
      <2>5. QED
            BY <2>2, <2>4
<1>8. ASSUME NEW j \in 1..(i - 1)
      PROVE  (before \o behind)[j] = s[j]
      <2>1. j \in 1..(Len(s) - 1) /\ j <= i - 1
            BY <1>2
      <2>2. (before \o behind)[j] = before[j]
            BY <1>6, <2>1
      <2>3. QED
            BY <1>3, <2>2
<1>9. QED
      BY <1>5, <1>7, <1>8

LEMMA TailThins ==
    ASSUME NEW s, Fits(s)
    PROVE  Thinned(s, TailTrimmed(s))
<1> DEFINE n == Len(s.dates)
           t == RemoveAt(s.dates, n - 1)
<1>1. n \in Nat
      BY LenIsNat DEF Fits
<1>2. CASE n < 2 \/ s.dates[n - 1] < s.dates[n]
      BY <1>1, <1>2 DEF TailTrimmed, Thinned
<1>3. CASE ~(n < 2 \/ s.dates[n - 1] < s.dates[n])
      <2>1. TailTrimmed(s).dates = t
            BY <1>3 DEF TailTrimmed
      <2>2. n - 1 \in 1..n
            BY <1>1, <1>3
      <2>3. Len(t) = n - 1
            BY <2>2, Removed DEF Fits
      <2>4. /\ \A j \in 1..(n - 1 - 1) : t[j] = s.dates[j]
            /\ \A j \in (n - 1)..(n - 1) : t[j] = s.dates[j + 1]
            BY <2>2, RemovedIs DEF Fits
      <2> HIDE DEF t
      <2>5. ASSUME Len(t) > 1
            PROVE  /\ t[1] = s.dates[1] /\ t[Len(t)] = s.dates[n]
                   /\ \A i \in 1..Len(t) : \E j \in 1..n : t[i] = s.dates[j]
            <3>1. t[Len(t)] = s.dates[n]
                  BY <1>1, <2>2, <2>3, <2>4
            <3>2. t[1] = s.dates[1]
                  BY <1>1, <2>2, <2>3, <2>4, <2>5
            <3>3. ASSUME NEW i \in 1..Len(t)
                  PROVE  \E j \in 1..n : t[i] = s.dates[j]
                  <4>1. CASE i = n - 1
                        BY <1>1, <2>2, <2>3, <2>4, <4>1
                  <4>2. CASE i # n - 1
                        BY <1>1, <2>2, <2>3, <2>4, <4>2
                  <4>3. QED
                        BY <4>1, <4>2
            <3>4. QED
                  BY <3>1, <3>2, <3>3
      <2>6. QED
            BY <1>1, <2>1, <2>3, <2>5 DEF Thinned, Last
<1>4. QED
      BY <1>2, <1>3

LEMMA HeadThins ==
    ASSUME NEW s, Fits(s)
    PROVE  Thinned(s, HeadTrimmed(s))
<1> DEFINE n == Len(s.dates)
           t == RemoveAt(s.dates, 2)
<1>1. n \in Nat
      BY LenIsNat DEF Fits
<1>2. CASE n < 2 \/ s.dates[1] < s.dates[2]
      BY <1>1, <1>2 DEF HeadTrimmed, Thinned
<1>3. CASE ~(n < 2 \/ s.dates[1] < s.dates[2])
      <2>1. HeadTrimmed(s).dates = t
            BY <1>3 DEF HeadTrimmed
      <2>2. 2 \in 1..n
            BY <1>1, <1>3
      <2>3. Len(t) = n - 1
            BY <2>2, Removed DEF Fits
      <2>4. /\ \A j \in 1..(2 - 1) : t[j] = s.dates[j]
            /\ \A j \in 2..(n - 1) : t[j] = s.dates[j + 1]
            BY <2>2, RemovedIs DEF Fits
      <2> HIDE DEF t
      <2>5. ASSUME Len(t) > 1
            PROVE  /\ t[1] = s.dates[1] /\ t[Len(t)] = s.dates[n]
                   /\ \A i \in 1..Len(t) : \E j \in 1..n : t[i] = s.dates[j]
            <3>1. t[Len(t)] = s.dates[n]
                  BY <1>1, <2>2, <2>3, <2>4, <2>5
            <3>2. t[1] = s.dates[1]
                  BY <1>1, <2>2, <2>3, <2>4
            <3>3. ASSUME NEW i \in 1..Len(t)
                  PROVE  \E j \in 1..n : t[i] = s.dates[j]
                  <4>1. CASE i = 1
                        BY <1>1, <2>2, <2>3, <3>2, <4>1
                  <4>2. CASE i # 1
                        BY <1>1, <2>2, <2>3, <2>4, <4>2
                  <4>3. QED
                        BY <4>1, <4>2
            <3>4. QED
                  BY <3>1, <3>2, <3>3
      <2>6. QED
            BY <1>1, <2>1, <2>3, <2>5 DEF Thinned, Last
<1>4. QED
      BY <1>2, <1>3

LEMMA TrimmingThins ==
    ASSUME NEW s, Fits(s)
    PROVE  Thinned(s, HeadTrimmed(TailTrimmed(s)))
<1> DEFINE t == TailTrimmed(s)
           u == HeadTrimmed(t)
<1>1. Fits(t)
      BY TailTrimmedFits
<1>2. Thinned(s, t)
      BY TailThins
<1> HIDE DEF t
<1>3. Thinned(t, u)
      BY <1>1, HeadThins
<1> HIDE DEF u
<1>4. Thinned(s, u)
      BY <1>2, <1>3 DEF Thinned
<1>5. QED
      BY <1>4 DEF t, u

\* The dates of a schedule under construction are dates that the library has.
DatesInRange ==
    phase \in {"generate", "roll"} =>
        \A i \in 1..Len(schedule.dates) : InRange(schedule.dates[i])

\* Before it is trimmed, a rolled schedule has business days wherever it rolls.
RolledWell(r, ds) ==
    LET n == Len(ds) IN
    /\ r.convention # "Unadjusted" =>
           \A i \in 1..(n - 1) : i # 1 \/ r.rule # "OldCDS" => IsBusinessDay(ds[i])
    /\ r.endConvention # "Unadjusted" /\ r.rule \notin CDSRules /\ n > 1 =>
           IsBusinessDay(ds[n])

RequestInv ==
    /\ request \in Request
    /\ phase \in {"generate", "roll", "trim"} => Accepted(request)

RollInv == phase = "trim" => RolledWell(request, schedule.dates)

LEMMA RequestInit == Init => RequestInv
BY DEF Init, RequestInv, NoRequest, Request, NullDate, Date, Period, Units, Rules, Conventions

LEMMA RequestStep == RequestInv /\ [Next]_vars => RequestInv'
<1> SUFFICES ASSUME RequestInv, [Next]_vars
             PROVE  RequestInv'
    OBVIOUS
<1>1. ASSUME NEW args \in Requests, New(args)
      PROVE  RequestInv'
      <2>1. request' = Normalised(args) /\ args \in Request
            BY <1>1, RequestsAssumption DEF New
      <2>2. (args.endOfMonth /\ AllowsEndOfMonth(args.tenor)) \in BOOLEAN
            BY <2>1 DEF Request
      <2>3. Normalised(args) \in Request
            BY <2>1, <2>2 DEF Normalised, Request, NullDate, Date, Rules
      <2>4. Accepted(Normalised(args)) \/ phase' = "refused"
            BY <1>1 DEF New
      <2>5. QED
            BY <2>1, <2>3, <2>4 DEF RequestInv
<1>2. ASSUME UNCHANGED request,
             \/ phase \in {"generate", "roll"}
             \/ phase' \in {phase, "ready", "refused"}
      PROVE  RequestInv'
      BY <1>2 DEF RequestInv, Accepted, StubAccepted
<1>3. ASSUME Trim
      PROVE  RequestInv'
      BY <1>2, <1>3 DEF Trim
<1>4. QED
      BY <1>1, <1>2, <1>3
         DEF Next, ProgramStep, WithMetadata, Generate, Close, Roll, After, Until,
             Cutting, EditHolidays, builder, vars

LEMMA RollingRolls ==
    ASSUME NoLongHolidays, NEW r \in Request, Accepted(r), NEW ds, Sequential(ds),
           \A i \in 1..Len(ds) : InRange(ds[i])
    PROVE  RolledWell(r, RolledDates(r, ds))
<1> DEFINE n == Len(ds)
           day(i) == Snapped(r, n, i, ds[i])
           rolled(i) == IF i = 1 THEN (IF r.rule = "OldCDS" THEN day(i)
                                       ELSE Adjust[r.convention][day(i)])
                        ELSE IF i = n THEN (IF r.rule \in CDSRules THEN day(i)
                                            ELSE Adjust[r.endConvention][day(i)])
                        ELSE Inner(r, day(i))
<1>1. n \in Nat
      BY LenIsNat
<1>2. r.convention \in Conventions /\ r.endConvention \in Conventions
      BY DEF Request
<1>3. RolledDates(r, ds) = [i \in 1..n |-> rolled(i)]
      BY DEF RolledDates
<1>4. ASSUME NEW i \in 1..n
      PROVE  day(i) \in Int
      <2>a. InRange(ds[i])
            OBVIOUS
      <2>1. InRange(ds[i]) /\ ds[i] \in Int
            BY <2>a, InRangeIsInt
      <2>2. ThirdWednesday(ds[i]) \in Int
            BY <2>1, MonthDays
      <2>3. QED
            BY <2>1, <2>2 DEF Snapped
<1>5. ASSUME NEW i \in 1..n, r.convention # "Unadjusted"
      PROVE  IsBusinessDay(Inner(r, day(i)))
      <2>1. r.endOfMonth => LastOfMonth[day(i)] \in Int
            <3>1. r.endOfMonth => day(i) = ds[i]
                  BY DEF Snapped, Accepted
            <3>2. InRange(ds[i])
                  OBVIOUS
            <3>3. LastOfMonth[ds[i]] \in Int
                  BY <3>2, MonthDays
            <3> HIDE DEF day
            <3>4. QED
                  BY <3>1, <3>3
      <2>2. day(i) \in Int
            BY <1>4
      <2> HIDE DEF day
      <2>3. IsBusinessDay(Adjust[r.convention][day(i)])
            BY <1>2, <1>5, <2>2, AdjustRolls
      <2>4. r.endOfMonth => IsBusinessDay(Adjust[r.convention][LastOfMonth[day(i)]])
            BY <1>2, <1>5, <2>1, AdjustRolls
      <2>5. QED
            BY <2>3, <2>4 DEF Inner
<1>6. ASSUME NEW i \in 1..(n - 1), r.convention # "Unadjusted", i # 1 \/ r.rule # "OldCDS"
      PROVE  IsBusinessDay(rolled(i))
      <2>1. i \in 1..n /\ i # n
            BY <1>1
      <2>2. day(i) \in Int
            BY <1>4, <2>1
      <2>3. IsBusinessDay(Inner(r, day(i)))
            BY <1>5, <1>6, <2>1
      <2> HIDE DEF day
      <2>4. IsBusinessDay(Adjust[r.convention][day(i)])
            BY <1>2, <1>6, <2>2, AdjustRolls
      <2>5. QED
            BY <1>6, <2>1, <2>3, <2>4
<1>7. ASSUME r.endConvention # "Unadjusted", r.rule \notin CDSRules, n > 1
      PROVE  IsBusinessDay(rolled(n))
      <2>1. n \in 1..n /\ n # 1
            BY <1>1, <1>7
      <2>2. day(n) \in Int
            BY <1>4, <2>1
      <2> HIDE DEF day
      <2>3. IsBusinessDay(Adjust[r.endConvention][day(n)])
            BY <1>2, <1>7, <2>2, AdjustRolls
      <2>4. QED
            BY <1>7, <2>1, <2>3
<1> DEFINE es == [i \in 1..n |-> rolled(i)]
<1>8. /\ Len(es) = n
      /\ \A i \in 1..(n - 1) : es[i] = rolled(i)
      /\ n > 1 => es[n] = rolled(n)
      <2> HIDE DEF rolled
      <2>1. QED
            BY <1>1
<1> HIDE DEF rolled, es
<1>9. RolledWell(r, es)
      <2>1. ASSUME r.convention # "Unadjusted",
                   NEW i \in 1..(n - 1), i # 1 \/ r.rule # "OldCDS"
            PROVE  IsBusinessDay(es[i])
            BY <1>6, <1>8, <2>1
      <2>2. ASSUME r.endConvention # "Unadjusted", r.rule \notin CDSRules, n > 1
            PROVE  IsBusinessDay(es[n])
            BY <1>7, <1>8, <2>2
      <2>3. QED
            BY <1>8, <2>1, <2>2 DEF RolledWell
<1>10. QED
      BY <1>3, <1>9 DEF es

LEMMA RollStep ==
    RequestInv /\ FlagsInv /\ NoLongHolidays /\ DatesInRange /\ RollInv /\ [Next]_vars => RollInv'
<1> SUFFICES ASSUME RequestInv, FlagsInv, NoLongHolidays, DatesInRange, RollInv, [Next]_vars
             PROVE  RollInv'
    OBVIOUS
<1>1. ASSUME Roll
      PROVE  RollInv'
      <2>1. /\ phase = "roll" /\ UNCHANGED <<added, removed, request>>
            /\ schedule' = [schedule EXCEPT !.dates = RolledDates(request, @)]
            BY <1>1 DEF Roll, calendarVars
      <2>2. Fits(schedule) /\ request \in Request /\ Accepted(request)
            BY <2>1 DEF FlagsInv, RequestInv
      <2>3. \A i \in 1..Len(schedule.dates) : InRange(schedule.dates[i])
            BY <2>1 DEF DatesInRange
      <2>4. RolledWell(request, RolledDates(request, schedule.dates))
            BY <2>2, <2>3, RollingRolls DEF Fits
      <2> DEFINE es == RolledDates(request, schedule.dates)
      <2>5. schedule'.dates = es
            BY <2>1, <2>2 DEF Fits
      <2> HIDE DEF es
      <2>6. RolledWell(request, es)
            BY <2>4 DEF es
      <2>7. RolledWell(request, schedule.dates)'
            BY <2>1, <2>5, <2>6 DEF RolledWell, IsBusinessDay
      <2>8. QED
            BY <2>7 DEF RollInv
<1>2. ASSUME phase' # "trim"
      PROVE  RollInv'
      BY <1>2 DEF RollInv
<1>3. ASSUME UNCHANGED vars
      PROVE  RollInv'
      BY <1>3 DEF RollInv, RolledWell, IsBusinessDay, vars, builder, calendarVars
<1>4. QED
      BY <1>1, <1>2, <1>3
         DEF Next, ProgramStep, New, NewStarts, WithMetadata, Generate, Close, Trim,
             After, Until, Cutting, EditHolidays, builder

\* PaysOnBusinessDays for any market, arguments and overrides, as long as the holidays
\* end in time and the dates are the library's (Calendar::try_adjust finds a business
\* day only then, and Date panics beyond its range).
THEOREM PaymentsAreOnBusinessDays ==
    Spec /\ []NoLongHolidays /\ []DatesInRange => PaysOnBusinessDays
<1> DEFINE ds == schedule'.dates
           ends == {Last(ds)} \cup (IF request.rule = "OldCDS" THEN {ds[1]} ELSE {})
           Paid == /\ request.convention # "Unadjusted" =>
                         \A d \in Range(ds) \ ends : IsBusinessDay(d)
                   /\ request.endConvention # "Unadjusted" /\ request.rule \notin CDSRules =>
                         IsBusinessDay(Last(ds))
<1>1. FlagsInv /\ RollInv /\ [Next]_vars => [phase = "trim" /\ Ready' => Paid]_vars
      <2> SUFFICES ASSUME FlagsInv, RollInv, Next, phase = "trim", Ready'
                   PROVE  Paid
          OBVIOUS
      <2>1. Trim
            BY DEF Next, ProgramStep, New, WithMetadata, Generate, Close, Roll, Trim,
                   After, Until, Cutting, EditHolidays, Ready, builder
      <2>2. Fits(schedule) /\ RolledWell(request, schedule.dates)
            BY DEF FlagsInv, RollInv
      <2>3. schedule' = HeadTrimmed(TailTrimmed(schedule)) /\ Len(ds) > 1
            BY <2>1 DEF Trim, Ready
      <2> DEFINE s == schedule.dates
                 n == Len(s)
      <2>4. /\ n > 1 /\ ds[1] = s[1] /\ Last(ds) = s[n]
            /\ \A i \in 1..Len(ds) : \E j \in 1..n : ds[i] = s[j]
            BY <2>2, <2>3, TrimmingThins DEF Thinned, Last
      <2>5. n \in Nat
            BY <2>2, LenIsNat DEF Fits
      <2>6. Sequential(ds)
            <3>1. Fits(HeadTrimmed(TailTrimmed(schedule)))
                  BY <2>2, TailTrimmedFits, HeadTrimmedFits
            <3>2. QED
                  BY <2>3, <3>1 DEF Fits
      <2> HIDE DEF ds, s
      <2>7. ASSUME request.convention # "Unadjusted", NEW d \in Range(ds) \ ends
            PROVE  IsBusinessDay(d)
            <3>1. PICK i \in 1..Len(ds) : d = ds[i]
                  <4>1. PICK S : ds \in Seq(S)
                        BY <2>6 DEF Sequential
                  <4>2. DOMAIN ds = 1..Len(ds)
                        BY <4>1
                  <4>3. QED
                        BY <4>2 DEF Range
            <3>2. PICK j \in 1..n : d = s[j]
                  BY <2>4, <3>1
            <3>3. j # n /\ (j # 1 \/ request.rule # "OldCDS")
                  BY <2>4, <2>7, <3>2
            <3>4. j \in 1..(n - 1)
                  BY <2>5, <3>3
            <3>5. QED
                  BY <2>2, <2>7, <3>2, <3>3, <3>4 DEF RolledWell, s
      <2>8. ASSUME request.endConvention # "Unadjusted", request.rule \notin CDSRules
            PROVE  IsBusinessDay(Last(ds))
            BY <2>2, <2>4, <2>8 DEF RolledWell, s
      <2>9. QED
            BY <2>7, <2>8
<1>2. Init => RequestInv /\ FlagsInv /\ RollInv
      BY RequestInit, FlagsInit DEF Init, RollInv
<1>3. QED
      BY <1>1, <1>2, RequestStep, FlagsStep, RollStep, PTL DEF Spec, PaysOnBusinessDays

----------------------------------------------------------------------------
\* That a schedule covers what was asked for: the ends it is built from, and what
\* rolling makes of them.
Reaching(r, s) ==
    /\ r.rule = "Backward" => Last(s.dates) = r.termination
    /\ r.rule # "Backward" => s.dates[1] = r.effective
    /\ r.rule = "ThirdWednesdayInclusive" => ~(Last(s.dates) > r.termination)

Reached(r, s) ==
    /\ Adjust[r.convention][s.dates[1]] = Adjust[r.convention][r.effective]
    /\ r.rule # "Backward" => s.dates[1] = r.effective
    /\ Adjust[r.endConvention][Last(s.dates)] = Adjust[r.endConvention][r.termination]
    /\ r.rule = "ThirdWednesdayInclusive" => ~(Last(s.dates) > r.termination)

CoverInv ==
    request.rule \notin Twentieths =>
        /\ phase = "generate" => Reaching(request, schedule)
        /\ phase = "roll" => Reached(request, schedule)
        /\ phase = "trim" /\ Len(schedule.dates) > 1 => Covers(request, schedule.dates)

\* Edits apart, a convention rolls alike at every step.
LEMMA AdjustStays == UNCHANGED <<added, removed>> => Adjust' = Adjust
BY DEF Adjust, Following, Preceding, IsBusinessDay

LEMMA EndsAre ==
    ASSUME NEW s, Sequential(s), Len(s) >= 1, NEW e
    PROVE  /\ Append(s, e)[1] = s[1] /\ Last(Append(s, e)) = e
           /\ (<<e>> \o s)[1] = e /\ Last(<<e>> \o s) = Last(s)
<1>1. PICK S : s \in Seq(S)
      BY DEF Sequential
<1>2. s \in Seq(S \cup {e}) /\ e \in S \cup {e} /\ Len(s) \in Nat /\ <<e>> \in Seq(S \cup {e})
      BY <1>1
<1>3. Append(s, e)[1] = s[1] /\ Append(s, e)[Len(s) + 1] = e /\ Len(Append(s, e)) = Len(s) + 1
      BY <1>2
<1>4. /\ Len(<<e>> \o s) = Len(s) + 1 /\ (<<e>> \o s)[1] = e
      /\ (<<e>> \o s)[Len(s) + 1] = s[Len(s)]
      BY <1>2
<1>5. QED
      BY <1>3, <1>4 DEF Last

LEMMA EarlierEnds ==
    ASSUME NEW s, Fits(s), NEW d, NEW flag, NEW c
    PROVE  /\ Last(Earlier(s, d, flag, c).dates) = Last(s.dates)
           /\ Adjust[c][Earlier(s, d, flag, c).dates[1]] = Adjust[c][d]
<1>1. CASE Adjust[c][Head(s.dates)] = Adjust[c][d]
      <2>1. Earlier(s, d, flag, c) = s
            BY <1>1 DEF Earlier
      <2>2. Head(s.dates) = s.dates[1]
            BY DEF Fits, Sequential
      <2>3. QED
            BY <1>1, <2>1, <2>2
<1>2. CASE Adjust[c][Head(s.dates)] # Adjust[c][d]
      <2>1. Earlier(s, d, flag, c).dates = <<d>> \o s.dates
            BY <1>2 DEF Earlier
      <2>2. QED
            BY <2>1, EndsAre DEF Fits
<1>3. QED
      BY <1>1, <1>2

LEMMA LaterEnds ==
    ASSUME NEW s, Fits(s), NEW d, NEW flag, NEW c
    PROVE  /\ Later(s, d, flag, c).dates[1] = s.dates[1]
           /\ Last(Later(s, d, flag, c).dates) \in {Last(s.dates), d}
<1>1. Later(s, d, flag, c).dates = s.dates \/ Later(s, d, flag, c).dates = Append(s.dates, d)
      BY DEF Later, Extended
<1>2. Sequential(s.dates) /\ Len(s.dates) >= 1
      BY DEF Fits
<1>3. Append(s.dates, d)[1] = s.dates[1] /\ Last(Append(s.dates, d)) = d
      BY <1>2, EndsAre
<1>4. QED
      BY <1>1, <1>3

LEMMA NewReaches ==
    ASSUME NEW r \in Request, Accepted(r), r.rule \notin Twentieths
    PROVE  /\ Reached(r, Zero(r)) \/ r.rule # "Zero"
           /\ r.rule = "Backward" => Reaching(r, FromTheEnd(r))
           /\ r.rule # "Backward" => Reaching(r, FromTheStart(r))
<1>1. r.effective \in Nat /\ r.termination \in Nat /\ r.effective < r.termination
      BY DEF Request, Date, Accepted
<1>2. Reached(r, Zero(r)) \/ r.rule # "Zero"
      BY DEF Reached, Zero, Last
<1>3. r.rule = "Backward" => Reaching(r, FromTheEnd(r))
      BY DEF Reaching, FromTheEnd, Last
<1>4. ASSUME r.rule # "Backward"
      PROVE  Reaching(r, FromTheStart(r))
      <2>1. Opening(r) = [dates |-> <<r.effective>>, flags |-> <<>>]
            BY DEF Opening, Twentieths, CDSRules
      <2>2. /\ FromTheStart(r).dates[1] = r.effective
            /\ ~Given(r.first) => FromTheStart(r).dates = <<r.effective>>
            <3>1. CASE Given(r.first)
                  <4>1. FromTheStart(r).dates = Append(<<r.effective>>, r.first)
                        BY <2>1, <3>1 DEF FromTheStart, Extended
                  <4>2. QED
                        BY <3>1, <4>1, Single, EndsAre
            <3>2. CASE ~Given(r.first)
                  BY <2>1, <3>2 DEF FromTheStart
            <3>3. QED
                  BY <3>1, <3>2
      <2>3. r.rule = "ThirdWednesdayInclusive" => Last(FromTheStart(r).dates) = r.effective
            BY <2>2 DEF Accepted, StubAccepted, Last
      <2>4. QED
            BY <1>1, <1>4, <2>2, <2>3 DEF Reaching
<1>5. QED
      BY <1>2, <1>3, <1>4

LEMMA ClosingReaches ==
    ASSUME NEW r \in Request, Accepted(r), r.rule \notin Twentieths, NEW s, Fits(s),
           Reaching(r, s)
    PROVE  /\ r.rule = "Backward" => Reached(r, ClosedBackward(r, s))
           /\ r.rule # "Backward" => Reached(r, ClosedForward(r, s))
<1>1. ASSUME r.rule = "Backward"
      PROVE  Reached(r, ClosedBackward(r, s))
      <2> DEFINE onStub == Away(r, Head(s.dates), -1) = r.first
                 atFirst == IF Given(r.first) THEN Earlier(s, r.first, onStub, r.convention)
                            ELSE s
                 onStart == Away(r, Head(atFirst.dates), -1) = r.effective
      <2>1. ClosedBackward(r, s) = Earlier(atFirst, r.effective, onStart, r.convention)
            BY DEF ClosedBackward
      <2>2. onStub \in BOOLEAN
            OBVIOUS
      <2> HIDE DEF onStub, onStart
      <2>3. Fits(atFirst) /\ Last(atFirst.dates) = r.termination
            BY <1>1, <2>2, EarlierFits, EarlierEnds DEF Reaching
      <2> HIDE DEF atFirst
      <2>4. QED
            BY <1>1, <2>1, <2>3, EarlierEnds DEF Reached
<1>2. ASSUME r.rule # "Backward"
      PROVE  Reached(r, ClosedForward(r, s))
      <2> DEFINE onStub == Away(r, Last(s.dates), 1) = r.nextToLast
                 atLast == IF Given(r.nextToLast)
                           THEN Later(s, r.nextToLast, onStub, r.convention)
                           ELSE s
      <2>1. ClosedForward(r, s) =
                IF Adjust[r.endConvention][Last(atLast.dates)]
                     = Adjust[r.endConvention][r.termination]
                THEN atLast ELSE Extended(atLast, r.termination, FALSE)
            BY DEF ClosedForward
      <2>2. onStub \in BOOLEAN
            OBVIOUS
      <2> HIDE DEF onStub
      <2>3. Fits(atLast) /\ atLast.dates[1] = r.effective
            BY <1>2, <2>2, LaterFits, LaterEnds DEF Reaching
      <2>4. r.rule = "ThirdWednesdayInclusive" => ~(Last(atLast.dates) > r.termination)
            BY DEF Reaching, Accepted, StubAccepted
      <2> HIDE DEF atLast
      <2>5. r.termination \in Nat
            BY DEF Request, Date
      <2>6. CASE Adjust[r.endConvention][Last(atLast.dates)]
                   = Adjust[r.endConvention][r.termination]
            BY <1>2, <2>1, <2>3, <2>4, <2>6 DEF Reached
      <2>7. CASE Adjust[r.endConvention][Last(atLast.dates)]
                   # Adjust[r.endConvention][r.termination]
            <3>1. ClosedForward(r, s).dates = Append(atLast.dates, r.termination)
                  BY <2>1, <2>7 DEF Extended
            <3>2. /\ ClosedForward(r, s).dates[1] = r.effective
                  /\ Last(ClosedForward(r, s).dates) = r.termination
                  <4>1. Sequential(atLast.dates) /\ Len(atLast.dates) >= 1
                        BY <2>3 DEF Fits
                  <4>2. /\ Append(atLast.dates, r.termination)[1] = atLast.dates[1]
                        /\ Last(Append(atLast.dates, r.termination)) = r.termination
                        BY <4>1, EndsAre
                  <4>3. QED
                        BY <2>3, <3>1, <4>2
            <3>3. ~(r.termination > r.termination)
                  BY <2>5
            <3>4. QED
                  BY <3>2, <3>3 DEF Reached
      <2>8. QED
            BY <2>6, <2>7
<1>3. QED
      BY <1>1, <1>2

LEMMA RollingCovers ==
    ASSUME NoLongHolidays, NEW r \in Request, Accepted(r), r.rule \notin Twentieths,
           NEW s, Fits(s), \A i \in 1..Len(s.dates) : InRange(s.dates[i]),
           Reached(r, s), Len(s.dates) > 1
    PROVE  Covers(r, RolledDates(r, s.dates))
<1> DEFINE n == Len(s.dates)
           first == s.dates[1]
           last == s.dates[n]
           ds == RolledDates(r, s.dates)
<1>1. n \in Nat /\ n > 1
      BY LenIsNat DEF Fits
<1>2. /\ Len(ds) = n
      /\ ds[1] = Adjust[r.convention][Snapped(r, n, 1, first)]
      /\ ds[n] = Adjust[r.endConvention][Snapped(r, n, n, last)]
      BY <1>1 DEF RolledDates, Twentieths, CDSRules
<1> HIDE DEF ds
<1>3. InRange(last)
      BY <1>1
<1>4. last \in Int /\ r.termination \in Int
      BY <1>3, InRangeIsInt DEF Request, Date
<1>5. Last(ds) = ds[n] /\ Last(s.dates) = last
      BY <1>2 DEF Last
<1>6. ASSUME r.rule = "ThirdWednesdayInclusive"
      PROVE  Covers(r, ds)
      <2>1. ds[1] = Adjust[r.convention][ThirdWednesday(r.effective)]
            BY <1>2, <1>6 DEF Snapped, Reached
      <2>2. Last(ds) = Adjust[r.endConvention][ThirdWednesday(last)]
            BY <1>2, <1>5, <1>6 DEF Snapped
      <2>3. Adjust[r.endConvention][last] = Adjust[r.endConvention][r.termination]
            BY <1>5 DEF Reached
      <2>4. last <= r.termination
            BY <1>4, <1>5, <1>6 DEF Reached
      <2>5. r.endConvention \in Conventions
            BY DEF Request
      <2> HIDE DEF last
      <2>6. /\ Adjust[r.endConvention][last] \in Int
            /\ Adjust[r.endConvention][last] <= last + Horizon
            /\ r.termination - Horizon <= Adjust[r.endConvention][r.termination]
            BY <1>4, <2>5, AdjustRolls
      <2>7. last \in (r.termination - 2 * Horizon)..r.termination
            BY <1>4, <2>3, <2>4, <2>6, HorizonAssumption
      <2>8. QED
            BY <1>6, <2>1, <2>2, <2>3, <2>7 DEF Covers, Twentieths, CDSRules
<1>7. ASSUME r.rule # "ThirdWednesdayInclusive"
      PROVE  Covers(r, ds)
      <2>1. Snapped(r, n, 1, first) = first /\ Snapped(r, n, n, last) = last
            BY <1>1, <1>7 DEF Snapped
      <2>2. ds[1] = Adjust[r.convention][r.effective]
            BY <1>2, <2>1 DEF Reached
      <2>3. Last(ds) = Adjust[r.endConvention][r.termination]
            BY <1>2, <1>5, <2>1 DEF Reached
      <2>4. QED
            BY <1>7, <2>2, <2>3 DEF Covers, Twentieths, CDSRules
<1>8. QED
      BY <1>6, <1>7 DEF ds

LEMMA CoverStep ==
    RequestInv /\ FlagsInv /\ NoLongHolidays /\ DatesInRange /\ CoverInv /\ [Next]_vars
        => CoverInv'
<1> SUFFICES ASSUME RequestInv, FlagsInv, NoLongHolidays, DatesInRange, CoverInv, [Next]_vars
             PROVE  CoverInv'
    OBVIOUS
<1>1. ASSUME NEW args \in Requests, New(args)
      PROVE  CoverInv'
      <2> DEFINE r == Normalised(args)
      <2>1. request' = r /\ UNCHANGED <<added, removed>>
            BY <1>1 DEF New, calendarVars
      <2>2. CASE ~Accepted(r)
            BY <1>1, <2>2 DEF New, CoverInv
      <2>3. CASE Accepted(r)
            <3>1. NewStarts(r)
                  BY <1>1, <2>3 DEF New
            <3>2. r \in Request
                  BY <1>1, <2>1, RequestStep DEF RequestInv
            <3> HIDE DEF r
            <3>3. ASSUME r.rule \notin Twentieths
                  PROVE  /\ phase' = "generate" => Reaching(r, schedule')
                         /\ phase' = "roll" => Reached(r, schedule')
                         /\ phase' # "trim"
                  BY <2>3, <3>1, <3>2, <3>3, NewReaches DEF NewStarts
            <3>4. Reached(r, schedule') => Reached(request, schedule)'
                  BY <2>1, AdjustStays DEF Reached
            <3>5. Reaching(r, schedule') => Reaching(request, schedule)'
                  BY <2>1 DEF Reaching
            <3>6. QED
                  BY <2>1, <3>3, <3>4, <3>5 DEF CoverInv
      <2>4. QED
            BY <2>2, <2>3
<1>2. ASSUME Generate, request.rule \notin Twentieths
      PROVE  CoverInv'
      <2>1. /\ phase = "generate" /\ ~Passed /\ UNCHANGED <<phase, request>>
            /\ Fits(schedule) /\ Accepted(request) /\ Reaching(request, schedule)
            BY <1>2 DEF Generate, FlagsInv, RequestInv, CoverInv
      <2>2. CASE request.rule = "Backward"
            <3>1. schedule' = Earlier(schedule, Candidate, TRUE, request.convention)
                  BY <1>2, <2>2 DEF Generate
            <3>2. Last(schedule'.dates) = Last(schedule.dates)
                  <4> DEFINE c == request.convention
                             t == Earlier(schedule, Candidate, TRUE, c)
                  <4>1. Fits(schedule)
                        BY <2>1
                  <4>a. \A d, flag :
                            Last(Earlier(schedule, d, flag, c).dates) = Last(schedule.dates)
                        BY <4>1, EarlierEnds
                  <4>2. Last(t.dates) = Last(schedule.dates)
                        BY <4>a, Zenon
                  <4> HIDE DEF t
                  <4>3. schedule' = t
                        BY <3>1 DEF t
                  <4>4. QED
                        BY <4>2, <4>3
            <3>3. Reaching(request, schedule)'
                  BY <2>1, <2>2, <3>2 DEF Reaching, Last
            <3>4. QED
                  BY <2>1, <3>3 DEF CoverInv
      <2>3. CASE request.rule # "Backward"
            <3>1. schedule' = Later(schedule, Candidate, TRUE, request.convention)
                  BY <1>2, <2>3 DEF Generate
            <3>2. /\ schedule'.dates[1] = schedule.dates[1]
                  /\ Last(schedule'.dates) \in {Last(schedule.dates), Candidate}
                  <4> DEFINE t == Later(schedule, Candidate, TRUE, request.convention)
                  <4>1. Fits(schedule)
                        BY <2>1
                  <4>2. /\ t.dates[1] = schedule.dates[1]
                        /\ Last(t.dates) \in {Last(schedule.dates), Candidate}
                        BY <4>1, LaterEnds
                  <4> HIDE DEF t
                  <4>3. schedule' = t
                        BY <3>1 DEF t
                  <4>4. QED
                        BY <4>2, <4>3
            <3>3. request.rule = "ThirdWednesdayInclusive" =>
                      ~(Candidate > request.termination)
                  BY <2>1, <2>3 DEF Passed, Accepted, StubAccepted
            <3>4. Reaching(request, schedule)'
                  BY <2>1, <2>3, <3>2, <3>3 DEF Reaching, Last
            <3>5. QED
                  BY <2>1, <3>4 DEF CoverInv
      <2>4. QED
            BY <2>2, <2>3
<1>3. ASSUME Close, request.rule \notin Twentieths
      PROVE  CoverInv'
      <2>1. /\ phase = "generate" /\ phase' = "roll"
            /\ UNCHANGED <<added, removed, request>>
            /\ Fits(schedule) /\ request \in Request /\ Accepted(request)
            /\ Reaching(request, schedule)
            BY <1>3 DEF Close, FlagsInv, RequestInv, CoverInv, calendarVars
      <2>2. Reached(request, schedule')
            BY <1>3, <2>1, ClosingReaches DEF Close
      <2>3. Reached(request, schedule)'
            BY <2>1, <2>2, AdjustStays DEF Reached
      <2>4. QED
            BY <2>1, <2>3 DEF CoverInv
<1>4. ASSUME Roll, request.rule \notin Twentieths
      PROVE  CoverInv'
      <2> DEFINE es == RolledDates(request, schedule.dates)
      <2>1. /\ phase = "roll" /\ phase' = "trim"
            /\ UNCHANGED <<added, removed, request>>
            /\ Fits(schedule) /\ request \in Request /\ Accepted(request)
            /\ Reached(request, schedule)
            BY <1>4 DEF Roll, FlagsInv, RequestInv, CoverInv, calendarVars
      <2>2. \A i \in 1..Len(schedule.dates) : InRange(schedule.dates[i])
            BY <2>1 DEF DatesInRange
      <2>3. schedule'.dates = es
            BY <1>4, <2>1 DEF Roll, Fits
      <2>4. Len(es) = Len(schedule.dates)
            BY <2>1, LenIsNat DEF RolledDates, Fits
      <2>5. Len(es) > 1 => Covers(request, es)
            BY <1>4, <2>1, <2>2, <2>4, RollingCovers
      <2> HIDE DEF es
      <2>6. Len(schedule'.dates) > 1 => Covers(request, schedule.dates)'
            BY <2>1, <2>3, <2>5, AdjustStays DEF Covers, Last
      <2>7. QED
            BY <2>1, <2>6 DEF CoverInv
<1>5. ASSUME phase' \notin {"generate", "roll", "trim"}
      PROVE  CoverInv'
      BY <1>5 DEF CoverInv
<1>6. ASSUME UNCHANGED vars
      PROVE  CoverInv'
      <2>1. UNCHANGED <<added, removed, phase, request, schedule>>
            BY <1>6 DEF vars, builder, calendarVars
      <2>2. Adjust' = Adjust
            BY <2>1, AdjustStays
      <2>3. QED
            BY <2>1, <2>2 DEF CoverInv, Reaching, Reached, Covers, Last
<1>7. ASSUME request.rule \in Twentieths, UNCHANGED request
      PROVE  CoverInv'
      BY <1>7 DEF CoverInv
<1>8. QED
      BY <1>1, <1>2, <1>3, <1>4, <1>5, <1>6, <1>7
         DEF Next, ProgramStep, WithMetadata, Generate, Close, Roll, Trim,
             After, Until, Cutting, EditHolidays, builder

\* CoversWhatWasAsked for any market, arguments and overrides, of the rules that count
\* from the dates asked for (Schedule::new keeps both ends whatever it drops).
THEOREM SchedulesCoverWhatWasAsked ==
    Spec /\ []NoLongHolidays /\ []DatesInRange =>
        [][phase = "trim" /\ Ready' /\ request.rule \notin Twentieths =>
               Covers(request, schedule'.dates)]_vars
<1>1. FlagsInv /\ CoverInv /\ [Next]_vars =>
          [phase = "trim" /\ Ready' /\ request.rule \notin Twentieths =>
               Covers(request, schedule'.dates)]_vars
      <2> SUFFICES ASSUME FlagsInv, CoverInv, Next, phase = "trim", Ready',
                          request.rule \notin Twentieths
                   PROVE  Covers(request, schedule'.dates)
          OBVIOUS
      <2>1. Trim
            BY DEF Next, ProgramStep, New, WithMetadata, Generate, Close, Roll, Trim,
                   After, Until, Cutting, EditHolidays, Ready, builder
      <2>2. schedule' = HeadTrimmed(TailTrimmed(schedule)) /\ Len(schedule'.dates) > 1
            BY <2>1 DEF Trim, Ready
      <2>3. /\ Len(schedule.dates) > 1
            /\ schedule'.dates[1] = schedule.dates[1]
            /\ Last(schedule'.dates) = Last(schedule.dates)
            BY <2>2, TrimmingThins DEF Thinned, FlagsInv
      <2>4. Covers(request, schedule.dates)
            BY <2>3 DEF CoverInv
      <2>5. QED
            BY <2>3, <2>4 DEF Covers
<1>2. Init => RequestInv /\ FlagsInv /\ CoverInv
      BY RequestInit, FlagsInit DEF Init, CoverInv
<1>3. QED
      BY <1>1, <1>2, RequestStep, FlagsStep, CoverStep, PTL DEF Spec

----------------------------------------------------------------------------
\* Types: dates stay numbers, whichever way they are counted, rolled, trimmed and cut.
Typed(s) == s \in [dates : Seq(Int), flags : Seq(BOOLEAN)]

LEMMA InRangeIsTyped ==
    ASSUME NEW s, Fits(s), \A i \in 1..Len(s.dates) : InRange(s.dates[i])
    PROVE  Typed(s)
<1>1. PICK S : s.dates \in Seq(S)
      BY DEF Fits, Sequential
<1>2. \A i \in 1..Len(s.dates) : s.dates[i] \in Int
      BY InRangeIsInt
<1>3. s.dates \in Seq(Int)
      BY <1>1, <1>2
<1>4. s.flags \in Seq(BOOLEAN) /\ s = [dates |-> s.dates, flags |-> s.flags]
      BY DEF Fits
<1>5. QED
      BY <1>3, <1>4 DEF Typed

LEMMA RollingIsTyped ==
    ASSUME NoLongHolidays, NEW r \in Request, Accepted(r), NEW ds, Sequential(ds),
           \A i \in 1..Len(ds) : InRange(ds[i])
    PROVE  RolledDates(r, ds) \in Seq(Int)
<1> DEFINE n == Len(ds)
           day(i) == Snapped(r, n, i, ds[i])
           rolled(i) == IF i = 1 THEN (IF r.rule = "OldCDS" THEN day(i)
                                       ELSE Adjust[r.convention][day(i)])
                        ELSE IF i = n THEN (IF r.rule \in CDSRules THEN day(i)
                                            ELSE Adjust[r.endConvention][day(i)])
                        ELSE Inner(r, day(i))
<1>1. n \in Nat
      BY LenIsNat
<1>2. r.convention \in Conventions /\ r.endConvention \in Conventions
      BY DEF Request
<1>3. RolledDates(r, ds) = [i \in 1..n |-> rolled(i)]
      BY DEF RolledDates
<1>4. ASSUME NEW i \in 1..n
      PROVE  rolled(i) \in Int
      <2>1. InRange(ds[i])
            OBVIOUS
      <2>2. ds[i] \in Int /\ ThirdWednesday(ds[i]) \in Int /\ LastOfMonth[ds[i]] \in Int
            BY <2>1, InRangeIsInt, MonthDays
      <2>3. day(i) \in Int
            BY <2>2 DEF Snapped
      <2>4. r.endOfMonth => day(i) = ds[i]
            BY DEF Snapped, Accepted
      <2> HIDE DEF day
      <2>5. \A d \in Int : \A c \in Conventions : Adjust[c][d] \in Int
            BY AdjustRolls
      <2>6. Inner(r, day(i)) \in Int
            BY <1>2, <2>2, <2>3, <2>4, <2>5 DEF Inner
      <2>7. QED
            BY <1>2, <2>3, <2>5, <2>6
<1> HIDE DEF rolled
<1>5. [i \in 1..n |-> rolled(i)] \in Seq(Int)
      BY <1>1, <1>4
<1>6. QED
      BY <1>3, <1>5

LEMMA RemovedIsTyped ==
    ASSUME NEW s \in Seq(Int), NEW i \in 1..Len(s)
    PROVE  RemoveAt(s, i) \in Seq(Int)
<1>1. Len(s) \in Nat /\ i \in Int
      OBVIOUS
<1>2. SubSeq(s, 1, i - 1) \in Seq(Int)
      <2>1. \A j \in 1..(i - 1) : s[j] \in Int
            BY <1>1
      <2>2. QED
            BY <1>1, <2>1, SubSeqProperties
<1>3. SubSeq(s, i + 1, Len(s)) \in Seq(Int)
      <2>1. \A j \in (i + 1)..Len(s) : s[j] \in Int
            BY <1>1
      <2>2. QED
            BY <1>1, <2>1, SubSeqProperties
<1>4. QED
      BY <1>2, <1>3 DEF RemoveAt

LEMMA TrimmingIsTyped ==
    ASSUME NEW s, Fits(s), Typed(s)
    PROVE  Typed(HeadTrimmed(TailTrimmed(s)))
<1>1. ASSUME NEW u, Fits(u), Typed(u), NEW v, Fits(v),
             \/ v.dates = u.dates
             \/ \E i \in 1..Len(u.dates) : v.dates = RemoveAt(u.dates, i)
      PROVE  Typed(v)
      <2>1. u.dates \in Seq(Int)
            BY <1>1 DEF Typed
      <2>2. v.dates \in Seq(Int)
            BY <1>1, <2>1, RemovedIsTyped
      <2>3. v.flags \in Seq(BOOLEAN) /\ v = [dates |-> v.dates, flags |-> v.flags]
            BY <1>1 DEF Fits
      <2>4. QED
            BY <2>2, <2>3 DEF Typed
<1> DEFINE t == TailTrimmed(s)
<1>2. Fits(t)
      BY TailTrimmedFits
<1>3. t.dates = s.dates \/ \E i \in 1..Len(s.dates) : t.dates = RemoveAt(s.dates, i)
      <2>1. CASE Len(s.dates) < 2 \/ s.dates[Len(s.dates) - 1] < s.dates[Len(s.dates)]
            BY <2>1 DEF TailTrimmed
      <2>2. CASE ~(Len(s.dates) < 2 \/ s.dates[Len(s.dates) - 1] < s.dates[Len(s.dates)])
            <3>1. t.dates = RemoveAt(s.dates, Len(s.dates) - 1)
                  BY <2>2 DEF TailTrimmed
            <3>2. Len(s.dates) - 1 \in 1..Len(s.dates)
                  BY <2>2, LenIsNat DEF Fits
            <3> HIDE DEF t
            <3>3. QED
                  BY <3>1, <3>2
      <2>3. QED
            BY <2>1, <2>2
<1> HIDE DEF t
<1>4. Typed(t)
      BY <1>1, <1>2, <1>3
<1> DEFINE h == HeadTrimmed(t)
<1>5. Fits(h)
      BY <1>2, HeadTrimmedFits
<1>6. h.dates = t.dates \/ \E i \in 1..Len(t.dates) : h.dates = RemoveAt(t.dates, i)
      <2>1. CASE Len(t.dates) < 2 \/ t.dates[1] < t.dates[2]
            BY <2>1 DEF HeadTrimmed
      <2>2. CASE ~(Len(t.dates) < 2 \/ t.dates[1] < t.dates[2])
            <3>1. h.dates = RemoveAt(t.dates, 2)
                  BY <2>2 DEF HeadTrimmed
            <3>2. 2 \in 1..Len(t.dates)
                  BY <1>2, <2>2, LenIsNat DEF Fits
            <3> HIDE DEF h
            <3>3. QED
                  BY <3>1, <3>2
      <2>3. QED
            BY <2>1, <2>2
<1> HIDE DEF h
<1>7. Typed(h)
      BY <1>1, <1>2, <1>4, <1>5, <1>6
<1>8. QED
      BY <1>7 DEF h, t

LEMMA CuttingIsTyped ==
    ASSUME NEW s, Typed(s), NEW d \in Int, NEW k \in 0..Len(s.dates)
    PROVE  /\ Typed(CutAtHead(FromPlace(s, k), d))
           /\ Typed(CutAtLast(UpToPlace(s, k), d))
<1> DEFINE n == Len(s.dates)
           f == Len(s.flags)
<1>1. s.dates \in Seq(Int) /\ s.flags \in Seq(BOOLEAN) /\ n \in Nat /\ f \in Nat /\ k \in Nat
      BY DEF Typed
<1>2. \A a, b \in Int : a >= 1 /\ b <= n => SubSeq(s.dates, a, b) \in Seq(Int)
      <2>1. ASSUME NEW a \in Int, NEW b \in Int, a >= 1, b <= n
            PROVE  SubSeq(s.dates, a, b) \in Seq(Int)
            <3>1. \A j \in a..b : s.dates[j] \in Int
                  BY <1>1, <2>1
            <3>2. QED
                  BY <3>1, SubSeqProperties
      <2>2. QED
            BY <2>1
<1>3. \A a, b \in Int : a >= 1 /\ b <= f => SubSeq(s.flags, a, b) \in Seq(BOOLEAN)
      <2>1. ASSUME NEW a \in Int, NEW b \in Int, a >= 1, b <= f
            PROVE  SubSeq(s.flags, a, b) \in Seq(BOOLEAN)
            <3>1. \A j \in a..b : s.flags[j] \in BOOLEAN
                  BY <1>1, <2>1
            <3>2. QED
                  BY <3>1, SubSeqProperties
      <2>2. QED
            BY <2>1
<1>4. Typed(FromPlace(s, k))
      <2>1. Smaller(k, f) \in Nat
            BY <1>1 DEF Smaller
      <2>2. SubSeq(s.dates, k + 1, n) \in Seq(Int)
            BY <1>1, <1>2
      <2>3. SubSeq(s.flags, Smaller(k, f) + 1, f) \in Seq(BOOLEAN)
            BY <1>1, <1>3, <2>1
      <2>4. QED
            BY <2>2, <2>3 DEF FromPlace, Typed
<1>5. Typed(UpToPlace(s, k))
      <2>1. f - (n - k) \in Int /\ f - (n - k) <= f
            BY <1>1
      <2>2. SubSeq(s.dates, 1, k) \in Seq(Int)
            BY <1>1, <1>2
      <2>3. SubSeq(s.flags, 1, f - (n - k)) \in Seq(BOOLEAN)
            BY <1>3, <2>1
      <2>4. QED
            BY <2>2, <2>3 DEF UpToPlace, Typed
<1>6. ASSUME NEW t, Typed(t)
      PROVE  Typed(CutAtHead(t, d)) /\ Typed(CutAtLast(t, d))
      <2>1. t.dates \in Seq(Int) /\ t.flags \in Seq(BOOLEAN)
            BY <1>6 DEF Typed
      <2>2. <<d>> \o t.dates \in Seq(Int) /\ <<FALSE>> \o t.flags \in Seq(BOOLEAN)
            BY <2>1
      <2>3. Append(t.dates, d) \in Seq(Int) /\ Append(t.flags, FALSE) \in Seq(BOOLEAN)
            BY <2>1
      <2>4. Typed(CutAtHead(t, d))
            BY <1>6, <2>2 DEF CutAtHead, Typed
      <2>5. Typed(CutAtLast(t, d))
            BY <1>6, <2>3 DEF CutAtLast, Extended, Typed
      <2>6. QED
            BY <2>4, <2>5
<1>7. QED
      BY <1>4, <1>5, <1>6

LEMMA TypeInit == Init => TypeOK
<1> SUFFICES ASSUME Init
             PROVE  TypeOK
    OBVIOUS
<1>1. request \in Request
      BY RequestInit DEF RequestInv
<1>2. <<>> \in Seq(Int) /\ <<>> \in Seq(BOOLEAN)
      OBVIOUS
<1>3. QED
      BY <1>1, <1>2, BoundsAssumption
         DEF Init, CalendarInit, TypeOK, NullDate, Date, Conventions

LEMMA TypeStep ==
    /\ TypeOK /\ RequestInv /\ RequestInv' /\ FlagsInv /\ FlagsInv'
    /\ NoLongHolidays /\ DatesInRange /\ DatesInRange' /\ [Next]_vars
    => TypeOK'
<1> SUFFICES ASSUME TypeOK, RequestInv, RequestInv', FlagsInv, FlagsInv',
                    NoLongHolidays, DatesInRange, DatesInRange', [Next]_vars
             PROVE  TypeOK'
    OBVIOUS
<1>1. request' \in Request /\ Typed(schedule)
      BY DEF RequestInv, TypeOK, Typed
<1>2. phase' \in {"generate", "roll"} => Typed(schedule')
      BY InRangeIsTyped DEF FlagsInv, DatesInRange
<1>3. ASSUME NEW args \in Requests, New(args)
      PROVE  TypeOK'
      <2> DEFINE r == Normalised(args)
      <2>1. CASE ~Accepted(r)
            BY <1>1, <1>3, <2>1 DEF New, TypeOK, calendarVars
      <2>2. CASE Accepted(r)
            <3>1. NewStarts(r)
                  BY <1>3, <2>2 DEF New
            <3>2. Typed(schedule') /\ phase' \in {"generate", "roll"}
                  BY <1>2, <3>1 DEF NewStarts
            <3>3. seed' \in Int
                  <4>1. CASE phase' = "roll"
                        BY <3>1, <4>1 DEF NewStarts, NullDate
                  <4>2. CASE phase' = "generate"
                        <5>1. seed' \in {Head(schedule'.dates), Last(schedule'.dates)}
                              BY <3>1, <4>2 DEF NewStarts
                        <5>2. Len(schedule'.dates) >= 1
                              BY <4>2 DEF FlagsInv, Fits
                        <5>3. schedule'.dates \in Seq(Int)
                              BY <3>2 DEF Typed
                        <5>4. QED
                              BY <5>1, <5>2, <5>3 DEF Last
                  <4>3. QED
                        BY <3>2, <4>1, <4>2
            <3>4. QED
                  BY <1>1, <1>3, <3>2, <3>3 DEF New, TypeOK, Typed, calendarVars
      <2>3. QED
            BY <2>1, <2>2
<1>4. ASSUME Generate
      PROVE  TypeOK'
      <2>1. Typed(schedule')
            BY <1>2, <1>4 DEF Generate
      <2>2. periods' \in Nat \ {0}
            BY <1>4 DEF Generate, TypeOK
      <2>3. QED
            BY <1>1, <1>4, <2>1, <2>2 DEF Generate, TypeOK, Typed, calendarVars
<1>5. ASSUME Close
      PROVE  TypeOK'
      <2>1. Typed(schedule')
            BY <1>2, <1>5 DEF Close
      <2>2. QED
            BY <1>1, <1>5, <2>1 DEF Close, TypeOK, Typed, calendarVars
<1>6. ASSUME Roll
      PROVE  TypeOK'
      <2>1. Fits(schedule) /\ request \in Request /\ Accepted(request)
            BY <1>6 DEF Roll, FlagsInv, RequestInv
      <2>2. \A i \in 1..Len(schedule.dates) : InRange(schedule.dates[i])
            BY <1>6 DEF Roll, DatesInRange
      <2>3. RolledDates(request, schedule.dates) \in Seq(Int)
            BY <2>1, <2>2, RollingIsTyped DEF Fits
      <2>4. Typed(schedule')
            BY <1>1, <1>6, <2>3 DEF Roll, Typed
      <2>5. QED
            BY <1>1, <1>6, <2>4 DEF Roll, TypeOK, Typed, calendarVars
<1>7. ASSUME Trim
      PROVE  TypeOK'
      <2>1. Typed(schedule')
            <3>1. Fits(schedule) /\ schedule' = HeadTrimmed(TailTrimmed(schedule))
                  BY <1>7 DEF Trim, FlagsInv
            <3>2. QED
                  BY <1>1, <3>1, TrimmingIsTyped
      <2>2. /\ meta' = [convention |-> request.convention,
                        endConvention |-> request.endConvention,
                        first |-> request.first, nextToLast |-> request.nextToLast]
            /\ phase' \in {"ready", "refused"} /\ made' = schedule'
            BY <1>7 DEF Trim
      <2>3. meta' \in [convention : Conventions, endConvention : Conventions \cup {"None"},
                       first : Date, nextToLast : Date]
            BY <2>2 DEF RequestInv, Request
      <2>4. QED
            BY <1>1, <1>7, <2>1, <2>2, <2>3 DEF Trim, TypeOK, Typed, calendarVars
<1>8. ASSUME NEW l \in Lists, WithMetadata(l)
      PROVE  TypeOK'
      <2>1. l \in [dates : Seq(Date), flags : Seq(BOOLEAN)]
            BY ListsAssumption
      <2>2. \A s \in Seq(Date) : s \in Seq(Int)
            BY DEF Date
      <2>3. Typed(l)
            BY <2>1, <2>2 DEF Typed
      <2>4. QED
            BY <1>1, <1>8, <2>3 DEF WithMetadata, TypeOK, Typed, calendarVars
<1>9. ASSUME NEW d \in CutDates, After(d) \/ Until(d)
      PROVE  TypeOK'
      <2>1. d \in Date /\ d \in Int
            BY BoundsAssumption DEF Date
      <2>2. Typed(schedule')
            <3>1. CASE After(d)
                  <4>1. PICK k \in LowerBounds(schedule.dates, d) :
                            schedule' = CutAtHead(FromPlace(schedule, k), d)
                        BY <3>1 DEF After
                  <4>2. k \in 0..Len(schedule.dates)
                        BY <1>1, <4>1 DEF LowerBounds, Typed
                  <4>3. QED
                        BY <1>1, <2>1, <4>1, <4>2, CuttingIsTyped
            <3>2. CASE Until(d)
                  <4>1. PICK k \in LastPlaces(schedule.dates, d) :
                            schedule' = CutAtLast(UpToPlace(schedule, k), d)
                        BY <3>2 DEF Until
                  <4>2. k \in 0..Len(schedule.dates)
                        BY <1>1, <4>1 DEF LastPlaces, Typed
                  <4>3. QED
                        BY <1>1, <2>1, <4>1, <4>2, CuttingIsTyped
            <3>3. QED
                  BY <1>9, <3>1, <3>2
      <2>3. PICK onDate, beyond : meta' = CutMeta(onDate, beyond)
            BY <1>9 DEF After, Until
      <2>4. meta' \in [convention : Conventions, endConvention : Conventions \cup {"None"},
                       first : Date, nextToLast : Date]
            BY <2>3 DEF CutMeta, TypeOK, NullDate, Date, Conventions
      <2>5. window' \in Date \X Date
            BY <1>9, <2>1 DEF After, Until, TypeOK
      <2>6. cuts' \in 0..MaxCuts
            BY <1>9, BoundsAssumption DEF After, Until, Cutting, TypeOK
      <2>7. UNCHANGED <<added, removed, phase, request, seed, periods, made, edits>>
            BY <1>9 DEF After, Until, Cutting, calendarVars
      <2>8. QED
            BY <2>2, <2>4, <2>5, <2>6, <2>7 DEF TypeOK, Typed
<1>10. ASSUME EditHolidays
       PROVE  TypeOK'
       <2>1. added' \subseteq Date /\ removed' \subseteq Date
             BY <1>10, BoundsAssumption
                DEF EditHolidays, AddHoliday, RemoveHoliday, ResetHolidays, TypeOK
       <2>2. edits' \in 0..MaxEdits
             BY <1>10, BoundsAssumption DEF EditHolidays, TypeOK
       <2>3. QED
             BY <1>10, <2>1, <2>2 DEF EditHolidays, TypeOK, builder
<1>11. ASSUME UNCHANGED vars
       PROVE  TypeOK'
       BY <1>11 DEF TypeOK, vars, builder, calendarVars
<1>12. QED
       BY <1>3, <1>4, <1>5, <1>6, <1>7, <1>8, <1>9, <1>10, <1>11 DEF Next, ProgramStep

\* TypeOK for any market, arguments, overrides and cuts: dates are numbers and every
\* period's flag is a truth value wherever Schedule::new, after and until leave them.
THEOREM SchedulesTypeCorrect == Spec /\ []NoLongHolidays /\ []DatesInRange => []TypeOK
<1>1. Init => TypeOK /\ RequestInv /\ FlagsInv
      BY TypeInit, RequestInit, FlagsInit
<1>2. QED
      BY <1>1, TypeStep, RequestStep, FlagsStep, PTL DEF Spec

----------------------------------------------------------------------------
\* Months, counted from the year 0: what date.rs computes with its tables.
MonthNo(x) == 12 * Year[x] + Month[x] - 1
MonthStart(k) == DateOf(1, (k % 12) + 1, k \div 12)
LengthOf(k) == MonthLength((k % 12) + 1, k \div 12)

LEMMA LeapIs ==
    ASSUME NEW y
    PROVE  IsLeap(y) \in BOOLEAN
BY DEF IsLeap

LEMMA OffsetsAre ==
    ASSUME NEW y
    PROVE  \E e \in {0, 1} :
             /\ e = IF IsLeap(y) THEN 1 ELSE 0
             /\ MonthOffset(1, y) = 0 /\ MonthOffset(2, y) = 31
             /\ MonthOffset(3, y) = 59 + e /\ MonthOffset(4, y) = 90 + e
             /\ MonthOffset(5, y) = 120 + e /\ MonthOffset(6, y) = 151 + e
             /\ MonthOffset(7, y) = 181 + e /\ MonthOffset(8, y) = 212 + e
             /\ MonthOffset(9, y) = 243 + e /\ MonthOffset(10, y) = 273 + e
             /\ MonthOffset(11, y) = 304 + e /\ MonthOffset(12, y) = 334 + e
             /\ MonthOffset(13, y) = 365 + e
<1> DEFINE e == IF IsLeap(y) THEN 1 ELSE 0
<1>1. e \in {0, 1}
      OBVIOUS
<1>2. /\ MonthOffset(1, y) = 0 /\ MonthOffset(2, y) = 31
      /\ MonthOffset(3, y) = 59 + e /\ MonthOffset(4, y) = 90 + e
      /\ MonthOffset(5, y) = 120 + e /\ MonthOffset(6, y) = 151 + e
      /\ MonthOffset(7, y) = 181 + e /\ MonthOffset(8, y) = 212 + e
      /\ MonthOffset(9, y) = 243 + e /\ MonthOffset(10, y) = 273 + e
      /\ MonthOffset(11, y) = 304 + e /\ MonthOffset(12, y) = 334 + e
      /\ MonthOffset(13, y) = 365 + e
      BY OffsetIs
<1>3. QED
      BY <1>1, <1>2

LEMMA LengthIs ==
    ASSUME NEW m \in 1..12, NEW y
    PROVE  /\ MonthLength(m, y) \in 28..31
           /\ MonthOffset(m + 1, y) = MonthOffset(m, y) + MonthLength(m, y)
           /\ MonthOffset(m, y) \in Int
<1> DEFINE e == IF IsLeap(y) THEN 1 ELSE 0
<1>1. PICK f \in {0, 1} :
             /\ f = e
             /\ MonthOffset(1, y) = 0 /\ MonthOffset(2, y) = 31
             /\ MonthOffset(3, y) = 59 + f /\ MonthOffset(4, y) = 90 + f
             /\ MonthOffset(5, y) = 120 + f /\ MonthOffset(6, y) = 151 + f
             /\ MonthOffset(7, y) = 181 + f /\ MonthOffset(8, y) = 212 + f
             /\ MonthOffset(9, y) = 243 + f /\ MonthOffset(10, y) = 273 + f
             /\ MonthOffset(11, y) = 304 + f /\ MonthOffset(12, y) = 334 + f
             /\ MonthOffset(13, y) = 365 + f
      BY OffsetsAre
<1>2. /\ m = 2 => MonthLength(m, y) = 28 + f
      /\ m \in {4, 6, 9, 11} => MonthLength(m, y) = 30
      /\ m \in {1, 3, 5, 7, 8, 10, 12} => MonthLength(m, y) = 31
      BY <1>1 DEF MonthLength
<1> HIDE DEF e
<1>3. QED
      BY <1>1, <1>2

\* Twelve months close the year, and no month is shorter than 28 days.
LEMMA OffsetsRise ==
    ASSUME NEW y
    PROVE  /\ \A m, n \in 1..13 : m <= n => MonthOffset(m, y) + 28 * (n - m) <= MonthOffset(n, y)
           /\ MonthOffset(13, y) = IF IsLeap(y) THEN 366 ELSE 365
<1>1. PICK f \in {0, 1} :
             /\ f = IF IsLeap(y) THEN 1 ELSE 0
             /\ MonthOffset(1, y) = 0 /\ MonthOffset(2, y) = 31
             /\ MonthOffset(3, y) = 59 + f /\ MonthOffset(4, y) = 90 + f
             /\ MonthOffset(5, y) = 120 + f /\ MonthOffset(6, y) = 151 + f
             /\ MonthOffset(7, y) = 181 + f /\ MonthOffset(8, y) = 212 + f
             /\ MonthOffset(9, y) = 243 + f /\ MonthOffset(10, y) = 273 + f
             /\ MonthOffset(11, y) = 304 + f /\ MonthOffset(12, y) = 334 + f
             /\ MonthOffset(13, y) = 365 + f
      BY OffsetsAre
<1>2. ASSUME NEW m \in 1..13, NEW n \in 1..13, m <= n
      PROVE  MonthOffset(m, y) + 28 * (n - m) <= MonthOffset(n, y)
      <2> DEFINE g(i) == MonthOffset(i, y) - 28 * i
      <2>1. /\ g(1) = -28 /\ g(2) = -25 /\ g(3) = f - 25 /\ g(4) = f - 22
            /\ g(5) = f - 20 /\ g(6) = f - 17 /\ g(7) = f - 15 /\ g(8) = f - 12
            /\ g(9) = f - 9 /\ g(10) = f - 7 /\ g(11) = f - 4 /\ g(12) = f - 2
            /\ g(13) = f + 1
            BY <1>1
      <2>2. MonthOffset(m, y) \in Int /\ MonthOffset(n, y) \in Int
            BY OffsetIs
      <2> HIDE DEF g
      <2>3. g(m) <= g(n)
            BY <1>2, <2>1
      <2>4. QED
            BY <2>2, <2>3 DEF g
<1>3. QED
      BY <1>1, <1>2

LEMMA YearsRise ==
    ASSUME NEW y \in Int, NEW z \in Int
    PROVE  /\ YearOffset(y) \in Int
           /\ YearOffset(y + 1) = YearOffset(y) + (IF IsLeap(y) THEN 366 ELSE 365)
           /\ y <= z => YearOffset(y) + 365 * (z - y) <= YearOffset(z)
<1> DEFINE q(x) == (x - 1897) \div 4
<1>1. q(y) \in Int /\ q(z) \in Int
      OBVIOUS
<1>2. /\ y - 1897 - 3 <= 4 * q(y) /\ 4 * q(y) <= y - 1897
      /\ z - 1897 - 3 <= 4 * q(z) /\ 4 * q(z) <= z - 1897
      OBVIOUS
<1>3. /\ YearOffset(y) = 365 * (y - 1900) + q(y) - (IF y > 2100 THEN 1 ELSE 0)
      /\ YearOffset(z) = 365 * (z - 1900) + q(z) - (IF z > 2100 THEN 1 ELSE 0)
      BY DEF YearOffset
<1>4. y <= z => YearOffset(y) + 365 * (z - y) <= YearOffset(z)
      <2> HIDE DEF q
      <2>1. QED
            BY <1>1, <1>2, <1>3
<1>5. YearOffset(y + 1) = 365 * (y - 1899) + ((y - 1896) \div 4) - (IF y >= 2100 THEN 1 ELSE 0)
      BY DEF YearOffset
<1>6. ((y - 1896) \div 4) = q(y) + (IF y % 4 = 0 THEN 1 ELSE 0)
      OBVIOUS
<1>7. QED
      BY <1>1, <1>3, <1>4, <1>5, <1>6 DEF IsLeap

LEMMA MonthsAre ==
    ASSUME NEW k \in Int
    PROVE  /\ (k % 12) + 1 \in 1..12 /\ k \div 12 \in Int /\ k = 12 * (k \div 12) + ((k % 12) + 1) - 1
           /\ MonthStart(k) = 1 + MonthOffset((k % 12) + 1, k \div 12) + YearOffset(k \div 12)
           /\ MonthStart(k) \in Int /\ LengthOf(k) \in 28..31
<1>1. (k % 12) + 1 \in 1..12 /\ k \div 12 \in Int /\ k = 12 * (k \div 12) + ((k % 12) + 1) - 1
      OBVIOUS
<1>2. MonthStart(k) = 1 + MonthOffset((k % 12) + 1, k \div 12) + YearOffset(k \div 12)
      BY DEF MonthStart, DateOf
<1>3. MonthOffset((k % 12) + 1, k \div 12) \in Int /\ LengthOf(k) \in 28..31
      BY <1>1, LengthIs DEF LengthOf
<1>4. YearOffset(k \div 12) \in Int
      BY <1>1, YearsRise
<1>5. QED
      BY <1>1, <1>2, <1>3, <1>4

LEMMA MonthEnds ==
    ASSUME NEW k \in Int
    PROVE  MonthStart(k + 1) = MonthStart(k) + LengthOf(k)
<1> DEFINE m == (k % 12) + 1
           y == k \div 12
<1>1. /\ m \in 1..12 /\ y \in Int /\ k = 12 * y + m - 1
      /\ MonthStart(k) = 1 + MonthOffset(m, y) + YearOffset(y)
      BY MonthsAre, Zenon
<1>2. MonthStart(k + 1) = 1 + MonthOffset(((k + 1) % 12) + 1, (k + 1) \div 12)
                            + YearOffset((k + 1) \div 12)
      <2>1. \A j \in Int : MonthStart(j) = 1 + MonthOffset((j % 12) + 1, j \div 12)
                                              + YearOffset(j \div 12)
            BY MonthsAre
      <2>2. k + 1 \in Int
            OBVIOUS
      <2>3. QED
            BY <2>1, <2>2, Zenon
<1>3. m < 12 => (k + 1) % 12 = m /\ (k + 1) \div 12 = y
      OBVIOUS
<1>4. m = 12 => (k + 1) % 12 = 0 /\ (k + 1) \div 12 = y + 1
      OBVIOUS
<1>5. LengthOf(k) = MonthLength(m, y)
      BY DEF LengthOf
<1> HIDE DEF m, y
<1>6. /\ MonthLength(m, y) \in 28..31 /\ MonthOffset(m, y) \in Int
      /\ MonthOffset(m + 1, y) = MonthOffset(m, y) + MonthLength(m, y)
      BY <1>1, LengthIs
<1>7. /\ YearOffset(y) \in Int
      /\ YearOffset(y + 1) = YearOffset(y) + (IF IsLeap(y) THEN 366 ELSE 365)
      BY <1>1, YearsRise
<1>8. MonthOffset(13, y) = (IF IsLeap(y) THEN 366 ELSE 365) /\ MonthOffset(1, y + 1) = 0
      BY OffsetsRise, OffsetIs
<1>9. CASE m < 12
      BY <1>1, <1>2, <1>3, <1>5, <1>6, <1>7, <1>9
<1>10. CASE m = 12
      BY <1>1, <1>2, <1>4, <1>5, <1>6, <1>7, <1>8, <1>10
<1>11. QED
      BY <1>1, <1>9, <1>10

LEMMA MonthsRise ==
    ASSUME NEW k \in Int, NEW l \in Int, k <= l
    PROVE  MonthStart(k) + 28 * (l - k) <= MonthStart(l)
<1> DEFINE m == (k % 12) + 1
           y == k \div 12
           n == (l % 12) + 1
           z == l \div 12
<1>1. /\ m \in 1..12 /\ y \in Int /\ k = 12 * y + m - 1
      /\ MonthStart(k) = 1 + MonthOffset(m, y) + YearOffset(y)
      BY MonthsAre, Zenon
<1>2. /\ n \in 1..12 /\ z \in Int /\ l = 12 * z + n - 1
      /\ MonthStart(l) = 1 + MonthOffset(n, z) + YearOffset(z)
      BY MonthsAre, Zenon
<1> HIDE DEF m, y, n, z
<1>3. y <= z /\ (y = z => m <= n)
      BY <1>1, <1>2
<1>4. \A x : \A i \in 1..13 : \A j \in 1..13 :
          i <= j => MonthOffset(i, x) + 28 * (j - i) <= MonthOffset(j, x)
      BY OffsetsRise
<1>5. MonthOffset(m, y) \in Int /\ MonthOffset(n, z) \in Int /\ YearOffset(y) \in Int
      <2>1. \A i \in 1..13 : \A x : MonthOffset(i, x) \in Int
            BY OffsetIs
      <2>2. \A x \in Int : YearOffset(x) \in Int
            BY YearsRise
      <2>3. m \in 1..13 /\ n \in 1..13
            BY <1>1, <1>2
      <2>4. QED
            BY <1>1, <2>1, <2>2, <2>3
<1>6. CASE y = z
      <2>1. m \in 1..13 /\ n \in 1..13 /\ m <= n
            BY <1>1, <1>2, <1>3, <1>6
      <2>2. MonthOffset(m, y) + 28 * (n - m) <= MonthOffset(n, y)
            BY <1>4, <2>1
      <2>3. QED
            BY <1>1, <1>2, <1>5, <1>6, <2>2
<1>7. CASE y < z
      <2>1. m \in 1..13 /\ n \in 1..13 /\ 13 \in 1..13 /\ 1 \in 1..13 /\ m <= 13 /\ 1 <= n
            BY <1>1, <1>2
      <2>2. MonthOffset(m, y) + 28 * (13 - m) <= MonthOffset(13, y)
            BY <1>4, <2>1
      <2>3. MonthOffset(1, z) + 28 * (n - 1) <= MonthOffset(n, z) /\ MonthOffset(1, z) = 0
            <3>1. MonthOffset(1, z) + 28 * (n - 1) <= MonthOffset(n, z)
                  BY <1>4, <2>1
            <3>2. MonthOffset(1, z) = 0
                  BY OffsetIs
            <3>3. QED
                  BY <3>1, <3>2
      <2>4. YearOffset(y + 1) = YearOffset(y) + MonthOffset(13, y)
            <3>1. \A x \in Int : YearOffset(x + 1)
                                     = YearOffset(x) + (IF IsLeap(x) THEN 366 ELSE 365)
                  BY YearsRise
            <3>2. \A x : MonthOffset(13, x) = (IF IsLeap(x) THEN 366 ELSE 365)
                  BY OffsetsRise
            <3>3. QED
                  BY <1>1, <3>1, <3>2
      <2>5. y + 1 \in Int /\ y + 1 <= z
            BY <1>1, <1>2, <1>7
      <2>6. YearOffset(y + 1) + 365 * (z - (y + 1)) <= YearOffset(z) /\ YearOffset(y + 1) \in Int
            BY <1>2, <2>5, YearsRise
      <2>7. YearOffset(z) \in Int /\ MonthOffset(13, y) \in Int
            BY <1>2, YearsRise, OffsetIs
      <2>8. QED
            BY <1>1, <1>2, <1>5, <2>2, <2>3, <2>4, <2>5, <2>6, <2>7
<1>8. QED
      BY <1>1, <1>2, <1>3, <1>6, <1>7
LEMMA DayIs ==
    ASSUME NEW x, InRange(x)
    PROVE  /\ x \in Int /\ MonthNo(x) \in Int
           /\ DayOfMonth[x] \in 1..LengthOf(MonthNo(x))
           /\ x = MonthStart(MonthNo(x)) + DayOfMonth[x] - 1
           /\ LastOfMonth[x] = MonthStart(MonthNo(x)) + LengthOf(MonthNo(x)) - 1
           /\ IsLastOfMonth(x) <=> DayOfMonth[x] = LengthOf(MonthNo(x))
           /\ MonthStart(MonthNo(x)) \in Int /\ LengthOf(MonthNo(x)) \in 28..31
<1> DEFINE m == Month[x]
           y == Year[x]
           t == DayOfYear[x]
           k == MonthNo(x)
<1>1. x \in Int
      BY InRangeIsInt
<1>2. y \in 1901..2199 /\ YearOffset(y) \in Int /\ t \in Int
      <2>1. DayOfYear[x] \in 1..(IF IsLeap(Year[x]) THEN 366 ELSE 365)
            BY YearIs
      <2>2. QED
            BY <2>1, YearIs
<1>3. m \in 1..12 /\ MonthOffset(m, y) < t /\ t <= MonthOffset(m + 1, y)
      BY MonthIs
<1>4. t = x - YearOffset(y)
      BY <1>1 DEF DayOfYear
<1>5. DayOfMonth[x] = t - MonthOffset(m, y)
      BY <1>1 DEF DayOfMonth
<1>6. LastOfMonth[x] = MonthLength(m, y) + MonthOffset(m, y) + YearOffset(y)
      BY <1>1 DEF LastOfMonth, DateOf
<1>7. k = 12 * y + m - 1
      BY DEF MonthNo
<1> HIDE DEF m, y, t, k
<1>8. k \in Int /\ (k % 12) + 1 = m /\ k \div 12 = y
      <2>1. k = 12 * y + (m - 1) /\ m - 1 \in 0..11 /\ y \in Int
            BY <1>2, <1>3, <1>7
      <2>2. QED
            BY <2>1
<1>9. MonthStart(k) = 1 + MonthOffset(m, y) + YearOffset(y)
      BY <1>8 DEF MonthStart, DateOf
<1>10. LengthOf(k) = MonthLength(m, y)
      BY <1>8 DEF LengthOf
<1>11. /\ MonthLength(m, y) \in 28..31 /\ MonthOffset(m, y) \in Int
       /\ MonthOffset(m + 1, y) = MonthOffset(m, y) + MonthLength(m, y)
      BY <1>3, LengthIs
<1>12. DayOfMonth[x] \in 1..LengthOf(k) /\ x = MonthStart(k) + DayOfMonth[x] - 1
      BY <1>1, <1>2, <1>3, <1>4, <1>5, <1>9, <1>10, <1>11
<1>13. LastOfMonth[x] = MonthStart(k) + LengthOf(k) - 1
      BY <1>2, <1>6, <1>9, <1>10, <1>11
<1>14. IsLastOfMonth(x) <=> DayOfMonth[x] = LengthOf(k)
      BY <1>10 DEF IsLastOfMonth, m, y
<1>15. MonthStart(k) \in Int /\ LengthOf(k) \in 28..31
      BY <1>2, <1>9, <1>10, <1>11
<1>16. QED
      BY <1>1, <1>8, <1>12, <1>13, <1>14, <1>15 DEF k

\* A day lies in one month.
LEMMA MonthOfDay ==
    ASSUME NEW x, InRange(x), NEW k \in Int,
           MonthStart(k) <= x, x < MonthStart(k) + LengthOf(k)
    PROVE  MonthNo(x) = k /\ DayOfMonth[x] = x - MonthStart(k) + 1
<1> DEFINE l == MonthNo(x)
<1>1. /\ x \in Int /\ l \in Int /\ DayOfMonth[x] \in 1..LengthOf(l)
      /\ x = MonthStart(l) + DayOfMonth[x] - 1
      /\ MonthStart(l) \in Int /\ LengthOf(l) \in 28..31
      BY DayIs
<1> HIDE DEF l
<1>2. MonthStart(k + 1) = MonthStart(k) + LengthOf(k) /\ MonthStart(l + 1) = MonthStart(l) + LengthOf(l)
      BY <1>1, MonthEnds
<1>3. MonthStart(k) \in Int /\ LengthOf(k) \in 28..31
      BY MonthsAre
<1>4. \A i, j \in Int : i <= j => MonthStart(i) + 28 * (j - i) <= MonthStart(j)
      BY MonthsRise
<1>5. MonthStart(k) < MonthStart(l + 1) /\ MonthStart(l) < MonthStart(k + 1)
      BY <1>1, <1>2, <1>3
<1>6. k + 1 \in Int /\ l + 1 \in Int
      BY <1>1
<1>7. ~(l + 1 <= k)
      <2>1. l + 1 <= k => MonthStart(l + 1) + 28 * (k - (l + 1)) <= MonthStart(k)
            BY <1>1, <1>4, <1>6
      <2>2. MonthStart(l + 1) \in Int
            BY <1>1, <1>2
      <2>3. QED
            BY <1>1, <1>3, <1>5, <2>1, <2>2
<1>8. ~(k + 1 <= l)
      <2>1. k + 1 <= l => MonthStart(k + 1) + 28 * (l - (k + 1)) <= MonthStart(l)
            BY <1>1, <1>4, <1>6
      <2>2. MonthStart(k + 1) \in Int
            BY <1>2, <1>3
      <2>3. QED
            BY <1>1, <1>5, <2>1, <2>2
<1>9. l = k
      BY <1>1, <1>7, <1>8
<1>10. DayOfMonth[x] = x - MonthStart(k) + 1
      BY <1>1, <1>3, <1>9
<1>11. QED
      BY <1>9, <1>10 DEF l

\* The day that takes the place of the j-th in a month.
DayIn(k, j) == MonthStart(k) + Smaller(j, LengthOf(k)) - 1

LEMMA AddMonthsIs ==
    ASSUME NEW s, InRange(s), NEW n \in Int
    PROVE  AddMonths[n][s] = DayIn(MonthNo(s) + n, DayOfMonth[s])
<1> DEFINE k == 12 * Year[s] + Month[s] - 1 + n
           j == DayOfMonth[s]
<1>1. s \in Int /\ MonthNo(s) \in Int /\ j \in Int
      BY DayIs
<1>2. AddMonths[n][s] =
          DateOf(Smaller(j, MonthLength((k % 12) + 1, k \div 12)), (k % 12) + 1, k \div 12)
      BY <1>1 DEF AddMonths
<1>3. k = MonthNo(s) + n
      BY DEF MonthNo
<1> HIDE DEF k, j
<1>4. k \in Int
      BY <1>1, <1>3
<1>5. MonthStart(k) = 1 + MonthOffset((k % 12) + 1, k \div 12) + YearOffset(k \div 12)
      BY <1>4, MonthsAre
<1>6. AddMonths[n][s] = Smaller(j, LengthOf(k)) + MonthOffset((k % 12) + 1, k \div 12)
                            + YearOffset(k \div 12)
      BY <1>2 DEF DateOf, LengthOf
<1>7. LengthOf(k) \in Int /\ MonthOffset((k % 12) + 1, k \div 12) \in Int /\ YearOffset(k \div 12) \in Int
      <2>1. (k % 12) + 1 \in 1..12 /\ k \div 12 \in Int
            BY <1>4, MonthsAre
      <2>2. LengthOf(k) \in 28..31
            BY <1>4, MonthsAre
      <2>3. \A m \in 1..12 : \A y : MonthOffset(m, y) \in Int
            BY LengthIs
      <2>4. \A y \in Int : YearOffset(y) \in Int
            BY YearsRise
      <2>5. QED
            BY <2>1, <2>2, <2>3, <2>4
<1>8. Smaller(j, LengthOf(k)) \in Int
      BY <1>1, <1>7 DEF Smaller
<1>9. AddMonths[n][s] = MonthStart(k) + Smaller(j, LengthOf(k)) - 1
      <2> DEFINE u == MonthOffset((k % 12) + 1, k \div 12)
                 v == YearOffset(k \div 12)
                 w == Smaller(j, LengthOf(k))
      <2>1. u \in Int /\ v \in Int /\ w \in Int
            BY <1>7, <1>8
      <2>2. MonthStart(k) = 1 + u + v /\ AddMonths[n][s] = w + u + v
            BY <1>5, <1>6
      <2> HIDE DEF u, v, w
      <2>3. QED
            BY <2>1, <2>2 DEF w
<1>10. QED
      BY <1>3, <1>9 DEF DayIn, j

LEMMA DayInIs ==
    ASSUME NEW k \in Int, NEW j \in 1..31
    PROVE  /\ DayIn(k, j) \in Int /\ MonthStart(k) <= DayIn(k, j)
           /\ DayIn(k, j) < MonthStart(k) + LengthOf(k)
           /\ InRange(DayIn(k, j)) =>
                /\ MonthNo(DayIn(k, j)) = k
                /\ DayOfMonth[DayIn(k, j)] = Smaller(j, LengthOf(k))
                /\ IsLastOfMonth(DayIn(k, j)) <=> j >= LengthOf(k)
<1> DEFINE d == DayIn(k, j)
<1>1. MonthStart(k) \in Int /\ LengthOf(k) \in 28..31
      BY MonthsAre
<1>2. d = MonthStart(k) + Smaller(j, LengthOf(k)) - 1
      BY DEF DayIn
<1> HIDE DEF d
<1>3. Smaller(j, LengthOf(k)) \in 1..LengthOf(k)
      BY <1>1 DEF Smaller
<1>4. d \in Int /\ MonthStart(k) <= d /\ d < MonthStart(k) + LengthOf(k)
      BY <1>1, <1>2, <1>3
<1>5. ASSUME InRange(d)
      PROVE  /\ MonthNo(d) = k /\ DayOfMonth[d] = Smaller(j, LengthOf(k))
             /\ IsLastOfMonth(d) <=> j >= LengthOf(k)
      <2>1. MonthNo(d) = k /\ DayOfMonth[d] = d - MonthStart(k) + 1
            BY <1>4, <1>5, MonthOfDay
      <2>2. DayOfMonth[d] = Smaller(j, LengthOf(k))
            BY <1>1, <1>2, <1>3, <2>1
      <2>3. IsLastOfMonth(d) <=> DayOfMonth[d] = LengthOf(k)
            BY <1>5, <2>1, DayIs
      <2>4. QED
            BY <1>1, <2>1, <2>2, <2>3 DEF Smaller
<1>6. QED
      BY <1>4, <1>5 DEF d

LEMMA DaysRise ==
    ASSUME NEW k \in Int, NEW l \in Int, k < l, NEW j \in 1..31
    PROVE  DayIn(k, j) + 28 <= DayIn(l, j)
<1>1. /\ MonthStart(k) \in Int /\ LengthOf(k) \in 28..31
      /\ MonthStart(l) \in Int /\ LengthOf(l) \in 28..31
      BY MonthsAre
<1>2. MonthStart(k + 1) = MonthStart(k) + LengthOf(k)
      BY MonthEnds
<1>3. MonthStart(k + 1) <= MonthStart(l)
      <2>1. k + 1 \in Int /\ k + 1 <= l
            OBVIOUS
      <2>2. MonthStart(k + 1) + 28 * (l - (k + 1)) <= MonthStart(l)
            BY <2>1, MonthsRise
      <2>3. QED
            BY <1>1, <1>2, <2>1, <2>2
<1>4. /\ DayIn(k, j) = MonthStart(k) + Smaller(j, LengthOf(k)) - 1
      /\ DayIn(l, j) = MonthStart(l) + Smaller(j, LengthOf(l)) - 1
      BY DEF DayIn
<1>5. QED
      BY <1>1, <1>2, <1>3, <1>4 DEF Smaller

LEMMA Bounded ==
    ASSUME NEW z \in Int, z >= 367, z <= 109574
    PROVE  InRange(z)
BY DEF InRange

\* The range of dates is one of whole months.
LEMMA WholeMonths ==
    ASSUME NEW x, InRange(x), NEW z \in Int, NEW k \in Int, MonthNo(x) = k,
           MonthStart(k) <= z, z < MonthStart(k) + LengthOf(k)
    PROVE  InRange(z)
<1>1. x \in Int /\ x >= 367 /\ x <= 109574
      BY DEF InRange
<1>2. x = MonthStart(k) + DayOfMonth[x] - 1 /\ DayOfMonth[x] \in 1..LengthOf(k)
      BY DayIs
<1>3. MonthStart(22812) = 367 /\ MonthStart(26400) = 109575
      <2>1. /\ 22812 % 12 = 0 /\ 22812 \div 12 = 1901
            /\ 26400 % 12 = 0 /\ 26400 \div 12 = 2200
            OBVIOUS
      <2>2. MonthOffset(1, 1901) = 0 /\ MonthOffset(1, 2200) = 0
            BY OffsetIs
      <2>3. YearOffset(1901) = 366 /\ YearOffset(2200) = 109574
            BY DEF YearOffset
      <2>4. QED
            BY <2>1, <2>2, <2>3 DEF MonthStart, DateOf
<1>4. MonthStart(k) \in Int /\ LengthOf(k) \in 28..31 /\ MonthStart(k + 1) = MonthStart(k) + LengthOf(k)
      BY MonthsAre, MonthEnds
<1>5. \A i, j \in Int : i <= j => MonthStart(i) + 28 * (j - i) <= MonthStart(j)
      BY MonthsRise
<1>6. k >= 22812
      <2>1. k + 1 <= 22812 => MonthStart(k + 1) + 28 * (22812 - (k + 1)) <= MonthStart(22812)
            BY <1>5
      <2>2. QED
            BY <1>1, <1>2, <1>3, <1>4, <2>1
<1>7. k < 26400
      <2>1. 26400 <= k => MonthStart(26400) + 28 * (k - 26400) <= MonthStart(k)
            BY <1>5
      <2>2. QED
            BY <1>1, <1>2, <1>3, <1>4, <2>1
<1>8. MonthStart(k) >= 367
      <2>1. MonthStart(22812) + 28 * (k - 22812) <= MonthStart(k)
            BY <1>5, <1>6
      <2>2. QED
            BY <1>3, <1>4, <1>6, <2>1
<1>9. MonthStart(k + 1) <= 109575
      <2>1. k + 1 \in Int /\ k + 1 <= 26400
            BY <1>7
      <2>2. MonthStart(k + 1) + 28 * (26400 - (k + 1)) <= MonthStart(26400)
            BY <1>5, <2>1
      <2>3. QED
            BY <1>3, <1>4, <2>1, <2>2
<1>10. z >= 367 /\ z <= 109574
      BY <1>4, <1>8, <1>9
<1>11. QED
      BY <1>10, Bounded

\* Tenors in months: how many, and the day the loop counts from.
Stride(r) == IF r.tenor.units = "Years" THEN 12 * r.tenor.length ELSE r.tenor.length
Monthly(r) == r.tenor.units \in {"Months", "Years"} /\ r.tenor.length >= 1
Wanted(r, s) == IF r.endOfMonth /\ IsLastOfMonth(s) THEN 31 ELSE DayOfMonth[s]

LEMMA AdvanceIs ==
    ASSUME NEW r \in Request, Monthly(r), NEW s, InRange(s), NEW n \in Int
    PROVE  /\ Stride(r) \in Int /\ Stride(r) >= 1
           /\ Advance(s, Times(n, r.tenor)) = DayIn(MonthNo(s) + n * Stride(r), DayOfMonth[s])
           /\ MonthNo(s) \in Int /\ DayOfMonth[s] \in 1..31 /\ Wanted(r, s) \in 1..31
           /\ Times(n, r.tenor).units = r.tenor.units
           /\ Times(n, r.tenor).length = n * r.tenor.length
<1>1. r.tenor.length \in Int /\ r.tenor \in Period
      BY DEF Request, Period
<1>2. /\ Times(n, r.tenor).units = r.tenor.units
      /\ Times(n, r.tenor).length = n * r.tenor.length
      BY <1>1 DEF Times, Period
<1>3. /\ MonthNo(s) \in Int /\ DayOfMonth[s] \in 1..LengthOf(MonthNo(s))
      /\ LengthOf(MonthNo(s)) \in 28..31
      BY DayIs
<1>4. DayOfMonth[s] \in 1..31 /\ Wanted(r, s) \in 1..31
      BY <1>3 DEF Wanted
<1>5. Stride(r) \in Int /\ Stride(r) >= 1
      BY <1>1 DEF Stride, Monthly
<1>6. \A i \in Int : AddMonths[i][s] = DayIn(MonthNo(s) + i, DayOfMonth[s])
      BY AddMonthsIs
<1>7. Advance(s, Times(n, r.tenor)) = AddMonths[n * Stride(r)][s]
      <2>1. CASE r.tenor.units = "Months"
            BY <1>1, <1>2, <2>1 DEF Advance, Stride
      <2>2. CASE r.tenor.units = "Years"
            <3>1. Advance(s, Times(n, r.tenor)) = AddMonths[12 * (n * r.tenor.length)][s]
                  BY <1>2, <2>2 DEF Advance
            <3>2. 12 * (n * r.tenor.length) = n * (12 * r.tenor.length)
                  BY <1>1
            <3>3. QED
                  BY <2>2, <3>1, <3>2 DEF Stride
      <2>3. QED
            BY <2>1, <2>2 DEF Monthly
<1>8. n * Stride(r) \in Int
      BY <1>5
<1>9. QED
      BY <1>2, <1>3, <1>4, <1>5, <1>6, <1>7, <1>8

\* Where the loop's date n tenors away is: on the day it counts from, or where the
\* month is too short for it on its last.
LEMMA AwayIs ==
    ASSUME NEW r \in Request, Monthly(r), NEW s, InRange(s), NEW n \in Int,
           InRange(Advance(s, Times(n, r.tenor)))
    PROVE  Away(r, s, n) = DayIn(MonthNo(s) + n * Stride(r), Wanted(r, s))
<1> DEFINE p == Times(n, r.tenor)
           k == MonthNo(s) + n * Stride(r)
           j == DayOfMonth[s]
           adv == Advance(s, p)
<1>1. /\ Stride(r) \in Int /\ MonthNo(s) \in Int /\ j \in 1..31
      /\ adv = DayIn(k, j)
      /\ p.units = r.tenor.units /\ p.length = n * r.tenor.length
      BY AdvanceIs
<1>2. k \in Int
      <2>1. n * Stride(r) \in Int
            BY <1>1
      <2>2. QED
            BY <1>1, <2>1
<1>3. Away(r, s, n) =
          IF r.endOfMonth /\ p.length # 0 /\ p.units \in {"Months", "Years"} /\ IsLastOfMonth(s)
          THEN LastOfMonth[adv] ELSE adv
      BY DEF Away, AdvanceFreely
<1>4. InRange(adv)
      OBVIOUS
<1>5. MonthStart(k) \in Int /\ LengthOf(k) \in 28..31
      BY <1>2, MonthsAre
<1>6. r.tenor.units \in {"Months", "Years"} /\ r.tenor.length \in Int /\ r.tenor.length >= 1
      BY DEF Monthly, Request, Period
<1>7. CASE r.endOfMonth /\ p.length # 0 /\ IsLastOfMonth(s)
      <2>1. Away(r, s, n) = LastOfMonth[adv] /\ Wanted(r, s) = 31
            BY <1>1, <1>3, <1>6, <1>7 DEF Wanted
      <2>2. MonthNo(adv) = k
            <3> HIDE DEF adv, k, j
            <3>1. \A l \in Int : \A i \in 1..31 : InRange(DayIn(l, i)) => MonthNo(DayIn(l, i)) = l
                  BY DayInIs
            <3>2. QED
                  BY <1>1, <1>2, <1>4, <3>1
      <2>3. LastOfMonth[adv] = MonthStart(k) + LengthOf(k) - 1
            <3> HIDE DEF adv, k
            <3>1. \A x : InRange(x) =>
                      LastOfMonth[x] = MonthStart(MonthNo(x)) + LengthOf(MonthNo(x)) - 1
                  BY DayIs
            <3>2. QED
                  BY <1>4, <2>2, <3>1
      <2>4. DayIn(k, 31) = MonthStart(k) + LengthOf(k) - 1
            <3> HIDE DEF k
            <3>1. Smaller(31, LengthOf(k)) = LengthOf(k)
                  BY <1>5 DEF Smaller
            <3>2. QED
                  BY <3>1 DEF DayIn
      <2>5. QED
            BY <2>1, <2>3, <2>4
<1>8. CASE ~(r.endOfMonth /\ p.length # 0 /\ IsLastOfMonth(s))
      <2>1. Away(r, s, n) = adv
            BY <1>3, <1>8
      <2>2. CASE r.endOfMonth /\ IsLastOfMonth(s)
            <3>1. n * r.tenor.length = 0
                  BY <1>1, <1>8, <2>2
            <3>2. n = 0
                  BY <1>6, <3>1
            <3>3. k = MonthNo(s)
                  BY <1>1, <3>2
            <3>4. j = LengthOf(k)
                  BY <2>2, <3>3, DayIs
            <3>5. Smaller(j, LengthOf(k)) = Smaller(31, LengthOf(k)) /\ Wanted(r, s) = 31
                  BY <1>5, <2>2, <3>4 DEF Smaller, Wanted
            <3>6. QED
                  BY <1>1, <2>1, <3>5 DEF DayIn
      <2>3. CASE ~(r.endOfMonth /\ IsLastOfMonth(s))
            BY <1>1, <2>1, <2>3 DEF Wanted
      <2>4. QED
            BY <2>2, <2>3
<1>9. QED
      BY <1>7, <1>8

\* Two days of the same place in their months are one tenor apart, counted from one of
\* them at least: from the earlier where the later month is not longer, or else back.
LEMMA OneTenorApart ==
    ASSUME NEW r \in Request, Monthly(r), NEW k \in Int, NEW j \in 1..31,
           InRange(DayIn(k, j)), InRange(DayIn(k + Stride(r), j))
    PROVE  \/ Away(r, DayIn(k, j), 1) = DayIn(k + Stride(r), j)
           \/ Away(r, DayIn(k + Stride(r), j), -1) = DayIn(k, j)
<1> DEFINE l == k + Stride(r)
           a == DayIn(k, j)
           b == DayIn(l, j)
<1>1. Stride(r) \in Int /\ l \in Int /\ k + 1 * Stride(r) = l /\ l + (-1) * Stride(r) = k
      <2>1. Stride(r) \in Int
            BY AdvanceIs
      <2>2. QED
            BY <2>1
<1> HIDE DEF l
<1>2. LengthOf(k) \in 28..31 /\ LengthOf(l) \in 28..31
      BY <1>1, MonthsAre
<1>3. /\ InRange(a) /\ MonthNo(a) = k /\ DayOfMonth[a] = Smaller(j, LengthOf(k))
      /\ IsLastOfMonth(a) <=> j >= LengthOf(k)
      BY DayInIs DEF l
<1>4. /\ InRange(b) /\ MonthNo(b) = l /\ DayOfMonth[b] = Smaller(j, LengthOf(l))
      /\ IsLastOfMonth(b) <=> j >= LengthOf(l)
      BY <1>1, DayInIs DEF l
<1> HIDE DEF a, b
<1>5. DayOfMonth[a] \in 1..31 /\ DayOfMonth[b] \in 1..31
      BY <1>2, <1>3, <1>4 DEF Smaller
<1>6. InRange(DayIn(l, DayOfMonth[a])) /\ InRange(DayIn(k, DayOfMonth[b]))
      <2>1. \A i \in 1..31 : /\ DayIn(l, i) \in Int /\ MonthStart(l) <= DayIn(l, i)
                             /\ DayIn(l, i) < MonthStart(l) + LengthOf(l)
            BY <1>1, DayInIs
      <2>2. \A i \in 1..31 : /\ DayIn(k, i) \in Int /\ MonthStart(k) <= DayIn(k, i)
                             /\ DayIn(k, i) < MonthStart(k) + LengthOf(k)
            BY DayInIs
      <2>3. InRange(DayIn(l, DayOfMonth[a]))
            BY <1>1, <1>4, <1>5, <2>1, WholeMonths
      <2>4. InRange(DayIn(k, DayOfMonth[b]))
            BY <1>3, <1>5, <2>2, WholeMonths
      <2>5. QED
            BY <2>3, <2>4
<1>7. Away(r, a, 1) = DayIn(l, Wanted(r, a))
      <2>1. Advance(a, Times(1, r.tenor)) = DayIn(l, DayOfMonth[a])
            BY <1>1, <1>3, AdvanceIs
      <2>2. QED
            BY <1>1, <1>3, <1>6, <2>1, AwayIs
<1>8. Away(r, b, -1) = DayIn(k, Wanted(r, b))
      <2>1. Advance(b, Times(-1, r.tenor)) = DayIn(k, DayOfMonth[b])
            BY <1>1, <1>4, AdvanceIs
      <2>2. QED
            BY <1>1, <1>4, <1>6, <2>1, AwayIs
<1>9. CASE j < LengthOf(k) \/ (LengthOf(l) <= j /\ r.endOfMonth)
      <2>1. j < LengthOf(k) => Wanted(r, a) = j
            BY <1>2, <1>3 DEF Wanted, Smaller
      <2>2. LengthOf(k) <= j /\ LengthOf(l) <= j /\ r.endOfMonth => Wanted(r, a) = 31
            BY <1>2, <1>3 DEF Wanted
      <2>3. LengthOf(l) <= j => DayIn(l, j) = DayIn(l, 31)
            BY <1>2 DEF DayIn, Smaller
      <2>4. Away(r, a, 1) = b
            BY <1>7, <1>9, <1>2, <2>1, <2>2, <2>3 DEF b
      <2>5. QED
            BY <2>4 DEF a, b, l
<1>10. CASE LengthOf(k) <= j /\ j < LengthOf(l)
      <2>1. Wanted(r, b) = j
            BY <1>2, <1>4, <1>10 DEF Wanted, Smaller
      <2>2. Away(r, b, -1) = a
            BY <1>8, <2>1 DEF a
      <2>3. QED
            BY <2>2 DEF a, b, l
<1>11. CASE LengthOf(k) <= j /\ LengthOf(l) <= j /\ ~r.endOfMonth
      <2>1. DayIn(k, j) = MonthStart(k) + LengthOf(k) - 1 /\ DayIn(l, j) = MonthStart(l) + LengthOf(l) - 1
            BY <1>2, <1>11 DEF DayIn, Smaller
      <2>2. Wanted(r, a) = LengthOf(k) /\ Wanted(r, b) = LengthOf(l)
            BY <1>2, <1>3, <1>4, <1>11 DEF Wanted, Smaller
      <2>3. CASE LengthOf(l) <= LengthOf(k)
            <3>1. Away(r, a, 1) = MonthStart(l) + LengthOf(l) - 1
                  BY <1>2, <1>7, <2>2, <2>3 DEF DayIn, Smaller
            <3>2. QED
                  BY <2>1, <3>1 DEF a, b, l
      <2>4. CASE LengthOf(k) < LengthOf(l)
            <3>1. Away(r, b, -1) = MonthStart(k) + LengthOf(k) - 1
                  BY <1>2, <1>8, <2>2, <2>4 DEF DayIn, Smaller
            <3>2. QED
                  BY <2>1, <3>1 DEF a, b, l
      <2>5. QED
            BY <1>2, <2>3, <2>4
<1>12. \/ j < LengthOf(k)
       \/ LengthOf(k) <= j /\ j < LengthOf(l)
       \/ LengthOf(k) <= j /\ LengthOf(l) <= j
      BY <1>2
<1>13. QED
      BY <1>9, <1>10, <1>11, <1>12

\* Any tenor that is not counted in days.
Stepping(r) == r.tenor.units # "Days" /\ r.tenor.length >= 1

LEMMA WeeksAway ==
    ASSUME NEW r \in Request, r.tenor.units = "Weeks", NEW s \in Int, NEW n \in Int
    PROVE  Away(r, s, n) = s + 7 * (n * r.tenor.length)
<1>1. r.tenor \in Period
      BY DEF Request
<1>2. Times(n, r.tenor).units = "Weeks" /\ Times(n, r.tenor).length = n * r.tenor.length
      BY <1>1 DEF Times, Period
<1>3. Advance(s, Times(n, r.tenor)) = s + 7 * (n * r.tenor.length)
      BY <1>2 DEF Advance
<1>4. QED
      BY <1>2, <1>3 DEF Away, AdvanceFreely

LEMMA SteppingIs ==
    ASSUME NEW r \in Request, Stepping(r)
    PROVE  r.tenor.length \in Int /\ (r.tenor.units = "Weeks" \/ Monthly(r))
BY DEF Request, Period, Units, Stepping, Monthly

LEMMA NoneAway ==
    ASSUME NEW r \in Request, Stepping(r), NEW s, InRange(s)
    PROVE  Away(r, s, 0) = s /\ Advance(s, Times(0, r.tenor)) = s
<1>1. r.tenor.length \in Int /\ r.tenor \in Period /\ s \in Int
      BY SteppingIs, InRangeIsInt DEF Request
<1>2. CASE r.tenor.units = "Weeks"
      <2>1. Times(0, r.tenor).units = "Weeks" /\ Times(0, r.tenor).length = 0
            BY <1>1, <1>2 DEF Times, Period
      <2>2. Advance(s, Times(0, r.tenor)) = s
            BY <1>1, <2>1 DEF Advance
      <2>3. QED
            BY <2>1, <2>2 DEF Away, AdvanceFreely
<1>3. CASE Monthly(r)
      <2> DEFINE k == MonthNo(s)
      <2>1. /\ Stride(r) \in Int
            /\ Advance(s, Times(0, r.tenor)) = DayIn(k + 0 * Stride(r), DayOfMonth[s])
            BY <1>3, AdvanceIs
      <2>2. Times(0, r.tenor).length = 0 * r.tenor.length
            BY <1>3, AdvanceIs
      <2>3. /\ k \in Int /\ DayOfMonth[s] \in 1..LengthOf(k) /\ LengthOf(k) \in 28..31
            /\ s = MonthStart(k) + DayOfMonth[s] - 1
            BY DayIs
      <2> HIDE DEF k
      <2>4. k + 0 * Stride(r) = k
            BY <2>1, <2>3
      <2>5. Smaller(DayOfMonth[s], LengthOf(k)) = DayOfMonth[s]
            BY <2>3 DEF Smaller
      <2>6. Advance(s, Times(0, r.tenor)) = s
            BY <2>1, <2>3, <2>4, <2>5 DEF DayIn
      <2>7. Times(0, r.tenor).length = 0
            BY <1>1, <2>2
      <2>8. QED
            BY <2>6, <2>7 DEF Away, AdvanceFreely
<1>4. QED
      BY <1>2, <1>3, SteppingIs

\* Consecutive dates of the loop are a week apart or more.
LEMMA AwayRises ==
    ASSUME NEW r \in Request, Stepping(r), NEW s, InRange(s), NEW n \in Int,
           InRange(Advance(s, Times(n, r.tenor))), InRange(Advance(s, Times(n + 1, r.tenor)))
    PROVE  /\ Away(r, s, n) \in Int /\ Away(r, s, n + 1) \in Int
           /\ Away(r, s, n) + 7 <= Away(r, s, n + 1)
<1>1. r.tenor.length \in Int /\ r.tenor.length >= 1 /\ s \in Int /\ n + 1 \in Int
      BY SteppingIs, InRangeIsInt DEF Stepping
<1>2. CASE r.tenor.units = "Weeks"
      <2>1. Away(r, s, n) = s + 7 * (n * r.tenor.length)
            BY <1>1, <1>2, WeeksAway
      <2>2. Away(r, s, n + 1) = s + 7 * ((n + 1) * r.tenor.length)
            BY <1>1, <1>2, WeeksAway
      <2>3. (n + 1) * r.tenor.length = n * r.tenor.length + r.tenor.length
            BY <1>1
      <2>4. n * r.tenor.length \in Int
            BY <1>1
      <2>5. QED
            BY <1>1, <2>1, <2>2, <2>3, <2>4
<1>3. CASE Monthly(r)
      <2> DEFINE k == MonthNo(s) + n * Stride(r)
                 l == MonthNo(s) + (n + 1) * Stride(r)
                 j == Wanted(r, s)
      <2>1. Stride(r) \in Int /\ Stride(r) >= 1 /\ MonthNo(s) \in Int /\ j \in 1..31
            BY <1>3, AdvanceIs
      <2>2. Away(r, s, n) = DayIn(k, j)
            BY <1>3, AwayIs
      <2>3. Away(r, s, n + 1) = DayIn(l, j)
            BY <1>1, <1>3, AwayIs
      <2>4. k \in Int /\ l \in Int /\ k < l
            <3>1. (n + 1) * Stride(r) = n * Stride(r) + Stride(r) /\ n * Stride(r) \in Int
                  BY <2>1
            <3>2. QED
                  BY <2>1, <3>1
      <2> HIDE DEF k, l, j
      <2>5. DayIn(k, j) \in Int /\ DayIn(l, j) \in Int
            BY <2>1, <2>4, DayInIs
      <2>6. DayIn(k, j) + 28 <= DayIn(l, j)
            BY <2>1, <2>4, DaysRise
      <2>7. QED
            BY <2>2, <2>3, <2>5, <2>6
<1>4. QED
      BY <1>2, <1>3, SteppingIs

\* And one tenor apart, counted from one of them.
LEMMA AwaySteps ==
    ASSUME NEW r \in Request, Stepping(r), NEW s, InRange(s), NEW n \in Int,
           InRange(Advance(s, Times(n, r.tenor))), InRange(Advance(s, Times(n + 1, r.tenor))),
           InRange(Away(r, s, n)), InRange(Away(r, s, n + 1))
    PROVE  \/ Away(r, Away(r, s, n), 1) = Away(r, s, n + 1)
           \/ Away(r, Away(r, s, n + 1), -1) = Away(r, s, n)
<1>1. r.tenor.length \in Int /\ r.tenor.length >= 1 /\ s \in Int /\ n + 1 \in Int
      BY SteppingIs, InRangeIsInt DEF Stepping
<1>2. CASE r.tenor.units = "Weeks"
      <2>1. Away(r, s, n) = s + 7 * (n * r.tenor.length)
            BY <1>1, <1>2, WeeksAway
      <2>2. Away(r, s, n + 1) = s + 7 * ((n + 1) * r.tenor.length)
            BY <1>1, <1>2, WeeksAway
      <2>3. (n + 1) * r.tenor.length = n * r.tenor.length + r.tenor.length
            BY <1>1
      <2>4. n * r.tenor.length \in Int
            BY <1>1
      <2>5. Away(r, s, n) \in Int
            BY <1>1, <2>1, <2>4
      <2>6. Away(r, Away(r, s, n), 1) = Away(r, s, n) + 7 * (1 * r.tenor.length)
            BY <1>2, <2>5, WeeksAway
      <2>7. QED
            BY <1>1, <2>1, <2>2, <2>3, <2>4, <2>6
<1>3. CASE Monthly(r)
      <2> DEFINE k == MonthNo(s) + n * Stride(r)
                 l == MonthNo(s) + (n + 1) * Stride(r)
                 j == Wanted(r, s)
      <2>1. Stride(r) \in Int /\ Stride(r) >= 1 /\ MonthNo(s) \in Int /\ j \in 1..31
            BY <1>3, AdvanceIs
      <2>2. Away(r, s, n) = DayIn(k, j)
            BY <1>3, AwayIs
      <2>3. Away(r, s, n + 1) = DayIn(l, j)
            BY <1>1, <1>3, AwayIs
      <2>4. k \in Int /\ l \in Int /\ l = k + Stride(r)
            <3>1. (n + 1) * Stride(r) = n * Stride(r) + Stride(r) /\ n * Stride(r) \in Int
                  BY <2>1
            <3>2. QED
                  BY <2>1, <3>1
      <2> HIDE DEF k, l, j
      <2>5. InRange(DayIn(k, j)) /\ InRange(DayIn(k + Stride(r), j))
            BY <2>2, <2>3, <2>4
      <2>6. \/ Away(r, DayIn(k, j), 1) = DayIn(k + Stride(r), j)
            \/ Away(r, DayIn(k + Stride(r), j), -1) = DayIn(k, j)
            BY <1>3, <2>1, <2>4, <2>5, OneTenorApart
      <2>7. QED
            BY <2>2, <2>3, <2>4, <2>6
<1>4. QED
      BY <1>2, <1>3, SteppingIs

----------------------------------------------------------------------------
\* That a period said to be regular spans a tenor. Two hypotheses more: the dates that
\* the loop computes, the one it stops at included, are dates that the library has
\* (Date panics otherwise); and dates a week apart do not roll to the same day.
CandidatesInRange ==
    phase = "generate" =>
        InRange(Advance(seed, Times(IF request.rule = "Backward" THEN -periods ELSE periods,
                                    request.tenor)))

WeeksRollApart ==
    \A c \in Conventions : \A d, e \in Int : d + 7 <= e => Adjust[c][d] # Adjust[c][e]

Regular(r, a, b, flag) ==
    IF flag THEN Away(r, a, 1) = b \/ Away(r, b, -1) = a
    ELSE {a, b} \cap {r.effective, r.termination, r.first, r.nextToLast} # {}

Spans(r, s) == \A i \in 1..Len(s.flags) : Regular(r, s.dates[i], s.dates[i + 1], s.flags[i])

Counting(r) == r.rule \in {"Backward", "Forward", "ThirdWednesday"} /\ Stepping(r)

\* The last date made so far is the one that the loop counts from, no tenor left out.
SpanInv ==
    /\ phase = "idle" => periods = 1
    /\ phase \in {"generate", "roll"} /\ request.rule # "Zero" => request.tenor.length >= 1
    /\ Counting(request) /\ phase \in {"generate", "roll"} => Spans(request, schedule)
    /\ Counting(request) /\ phase = "generate" =>
           LET back == request.rule = "Backward"
               n == IF back THEN 1 - periods ELSE periods - 1
           IN  /\ InRange(seed) /\ InRange(Advance(seed, Times(n, request.tenor)))
               /\ periods \in Nat
               /\ (IF back THEN schedule.dates[1] ELSE Last(schedule.dates))
                      = Away(request, seed, n)

LEMMA AppendedAt ==
    ASSUME NEW s, Sequential(s), NEW e
    PROVE  /\ \A i \in 1..Len(s) : Append(s, e)[i] = s[i]
           /\ Append(s, e)[Len(s) + 1] = e
<1>1. PICK S : s \in Seq(S)
      BY DEF Sequential
<1>2. s \in Seq(S \cup {e}) /\ e \in S \cup {e}
      BY <1>1
<1>3. QED
      BY <1>2

LEMMA JoinedAt ==
    ASSUME NEW s, Sequential(s), NEW e
    PROVE  /\ \A i \in 1..Len(s) : (<<e>> \o s)[i + 1] = s[i]
           /\ (<<e>> \o s)[1] = e
<1>1. PICK S : s \in Seq(S)
      BY DEF Sequential
<1>2. s \in Seq(S \cup {e}) /\ <<e>> \in Seq(S \cup {e}) /\ Len(<<e>>) = 1 /\ Len(s) \in Nat
      BY <1>1
<1>3. QED
      BY <1>2

LEMMA HeadIs ==
    ASSUME NEW s, Fits(s)
    PROVE  /\ Head(s.dates) = s.dates[1] /\ Len(s.dates) \in Nat /\ Len(s.flags) \in Nat
           /\ Last(s.dates) = s.dates[Len(s.dates)]
BY DEF Fits, Sequential, Last

LEMMA ExtendedSpans ==
    ASSUME NEW r, NEW s, Fits(s), Spans(r, s), NEW d, NEW flag \in BOOLEAN,
           Regular(r, Last(s.dates), d, flag)
    PROVE  Spans(r, Extended(s, d, flag))
<1> DEFINE ds == Append(s.dates, d)
           fs == Append(s.flags, flag)
           n == Len(s.dates)
<1>1. /\ n \in Nat /\ n >= 1 /\ Len(s.flags) = n - 1 /\ Last(s.dates) = s.dates[n]
      /\ Sequential(s.dates) /\ s.flags \in Seq(BOOLEAN)
      BY HeadIs DEF Fits
<1>2. (\A i \in 1..n : ds[i] = s.dates[i]) /\ ds[n + 1] = d
      BY <1>1, AppendedAt
<1>3. Len(fs) = n /\ fs[n] = flag /\ \A i \in 1..(n - 1) : fs[i] = s.flags[i]
      BY <1>1
<1>4. Extended(s, d, flag).dates = ds /\ Extended(s, d, flag).flags = fs
      BY DEF Extended
<1> HIDE DEF ds, fs, n
<1>5. ASSUME NEW i \in 1..n
      PROVE  Regular(r, ds[i], ds[i + 1], fs[i])
      <2>1. CASE i = n
            BY <1>1, <1>2, <1>3, <2>1
      <2>2. CASE i # n
            <3>1. i \in 1..(n - 1) /\ i + 1 \in 1..n
                  BY <1>1, <2>2
            <3>2. Regular(r, s.dates[i], s.dates[i + 1], s.flags[i])
                  BY <1>1, <3>1 DEF Spans
            <3>3. QED
                  BY <1>2, <1>3, <3>1, <3>2
      <2>3. QED
            BY <2>1, <2>2
<1>6. QED
      BY <1>3, <1>4, <1>5 DEF Spans

LEMMA PrependedSpans ==
    ASSUME NEW r, NEW s, Fits(s), Spans(r, s), NEW d, NEW flag \in BOOLEAN,
           Regular(r, d, s.dates[1], flag)
    PROVE  Spans(r, [dates |-> <<d>> \o s.dates, flags |-> <<flag>> \o s.flags])
<1> DEFINE ds == <<d>> \o s.dates
           fs == <<flag>> \o s.flags
           n == Len(s.dates)
<1>1. /\ n \in Nat /\ n >= 1 /\ Len(s.flags) = n - 1
      /\ Sequential(s.dates) /\ s.flags \in Seq(BOOLEAN)
      BY HeadIs DEF Fits
<1>2. (\A i \in 1..n : ds[i + 1] = s.dates[i]) /\ ds[1] = d
      BY <1>1, JoinedAt
<1>3. Len(fs) = n /\ fs[1] = flag /\ \A i \in 1..(n - 1) : fs[i + 1] = s.flags[i]
      BY <1>1
<1> HIDE DEF ds, fs, n
<1>4. ASSUME NEW i \in 1..n
      PROVE  Regular(r, ds[i], ds[i + 1], fs[i])
      <2>1. CASE i = 1
            <3>1. 1 \in 1..n /\ ds[1 + 1] = s.dates[1]
                  BY <1>1, <1>2
            <3>2. QED
                  BY <1>2, <1>3, <2>1, <3>1
      <2>2. CASE i # 1
            <3>1. i - 1 \in 1..(n - 1) /\ i \in 1..n /\ i - 1 \in 1..n /\ (i - 1) + 1 = i
                  BY <1>1, <2>2
            <3>2. Regular(r, s.dates[i - 1], s.dates[i], s.flags[i - 1])
                  BY <1>1, <3>1 DEF Spans
            <3>3. ds[i] = s.dates[i - 1] /\ ds[i + 1] = s.dates[i] /\ fs[i] = s.flags[i - 1]
                  <4>1. ds[(i - 1) + 1] = s.dates[i - 1] /\ fs[(i - 1) + 1] = s.flags[i - 1]
                        BY <1>2, <1>3, <3>1
                  <4>2. QED
                        BY <1>2, <3>1, <4>1
            <3>4. QED
                  BY <3>2, <3>3
      <2>3. QED
            BY <2>1, <2>2
<1>5. QED
      BY <1>3, <1>4 DEF Spans, ds, fs

LEMMA EarlierSpans ==
    ASSUME NEW r, NEW s, Fits(s), Spans(r, s), NEW d, NEW flag \in BOOLEAN, NEW c,
           Regular(r, d, s.dates[1], flag)
    PROVE  Spans(r, Earlier(s, d, flag, c))
<1>1. \/ Earlier(s, d, flag, c) = s
      \/ Earlier(s, d, flag, c)
           = [dates |-> <<d>> \o s.dates, flags |-> <<flag>> \o s.flags]
      BY DEF Earlier
<1>2. QED
      BY <1>1, PrependedSpans

LEMMA LaterSpans ==
    ASSUME NEW r, NEW s, Fits(s), Spans(r, s), NEW d, NEW flag \in BOOLEAN, NEW c,
           Regular(r, Last(s.dates), d, flag)
    PROVE  Spans(r, Later(s, d, flag, c))
<1>1. Later(s, d, flag, c) = s \/ Later(s, d, flag, c) = Extended(s, d, flag)
      BY DEF Later
<1>2. QED
      BY <1>1, ExtendedSpans

\* What the loop starts from, and what closes it.
LEMMA StartSpans ==
    ASSUME NEW r, Counting(r)
    PROVE  Spans(r, IF r.rule = "Backward" THEN FromTheEnd(r) ELSE FromTheStart(r))
<1>1. \A d : Spans(r, [dates |-> <<d>>, flags |-> <<>>])
      BY DEF Spans
<1>2. CASE r.rule = "Backward" /\ Given(r.nextToLast)
      <2> DEFINE flag == Away(r, r.termination, -1) = r.nextToLast
      <2>1. FromTheEnd(r) = [dates |-> <<r.nextToLast, r.termination>>, flags |-> <<flag>>]
            BY <1>2 DEF FromTheEnd
      <2>2. Regular(r, r.nextToLast, r.termination, flag)
            BY DEF Regular
      <2> HIDE DEF flag
      <2>3. Spans(r, FromTheEnd(r))
            BY <2>1, <2>2 DEF Spans
      <2>4. QED
            BY <1>2, <2>3
<1>3. CASE r.rule = "Backward" /\ ~Given(r.nextToLast)
      <2>1. FromTheEnd(r) = [dates |-> <<r.termination>>, flags |-> <<>>]
            BY <1>3 DEF FromTheEnd
      <2>2. QED
            BY <1>1, <1>3, <2>1
<1>4. CASE r.rule # "Backward"
      <2> DEFINE open == [dates |-> <<r.effective>>, flags |-> <<>>]
                 flag == Away(r, Last(open.dates), 1) = r.first
      <2>1. Opening(r) = open /\ r.rule \notin Twentieths
            BY DEF Opening, Twentieths, CDSRules, Counting
      <2>2. \/ FromTheStart(r) = Extended(open, r.first, flag)
            \/ FromTheStart(r) = open
            BY <2>1 DEF FromTheStart
      <2>3. Fits(open) /\ Spans(r, open) /\ Last(open.dates) = r.effective
            BY <1>1, LoneFits DEF Last
      <2>4. flag \in BOOLEAN /\ Regular(r, Last(open.dates), r.first, flag)
            BY DEF Regular
      <2> HIDE DEF open, flag
      <2>5. Spans(r, Extended(open, r.first, flag))
            BY <2>3, <2>4, ExtendedSpans
      <2>6. QED
            BY <1>4, <2>2, <2>3, <2>5
<1>5. QED
      BY <1>2, <1>3, <1>4

LEMMA CloseSpans ==
    ASSUME NEW r, Counting(r), NEW s, Fits(s), Spans(r, s)
    PROVE  Spans(r, IF r.rule = "Backward" THEN ClosedBackward(r, s) ELSE ClosedForward(r, s))
<1>1. Spans(r, ClosedBackward(r, s))
      <2> DEFINE onStub == Away(r, Head(s.dates), -1) = r.first
                 atFirst == IF Given(r.first) THEN Earlier(s, r.first, onStub, r.convention)
                            ELSE s
                 onStart == Away(r, Head(atFirst.dates), -1) = r.effective
      <2>1. onStub \in BOOLEAN /\ onStart \in BOOLEAN
            OBVIOUS
      <2>2. ClosedBackward(r, s) = Earlier(atFirst, r.effective, onStart, r.convention)
            BY DEF ClosedBackward
      <2>3. atFirst = Earlier(s, r.first, onStub, r.convention) \/ atFirst = s
            OBVIOUS
      <2>4. Regular(r, r.first, s.dates[1], onStub)
            BY HeadIs DEF Regular
      <2>5. \A e : Regular(r, r.effective, e, Away(r, e, -1) = r.effective)
            BY DEF Regular
      <2> HIDE DEF onStub
      <2>6. Fits(atFirst) /\ Spans(r, atFirst)
            <3> HIDE DEF atFirst
            <3>1. QED
                  BY <2>1, <2>3, <2>4, EarlierFits, EarlierSpans
      <2>7. Regular(r, r.effective, atFirst.dates[1], onStart)
            <3>1. Head(atFirst.dates) = atFirst.dates[1]
                  <4> HIDE DEF atFirst
                  <4>1. QED
                        BY <2>6, HeadIs
            <3>2. QED
                  BY <2>5, <3>1
      <2> HIDE DEF atFirst, onStart
      <2>8. QED
            BY <2>1, <2>2, <2>6, <2>7, EarlierSpans
<1>2. Spans(r, ClosedForward(r, s)) \/ r.rule = "Backward"
      <2> DEFINE onStub == Away(r, Last(s.dates), 1) = r.nextToLast
                 atLast == IF Given(r.nextToLast)
                           THEN Later(s, r.nextToLast, onStub, r.convention)
                           ELSE s
      <2>1. onStub \in BOOLEAN
            OBVIOUS
      <2>2. \/ ClosedForward(r, s) = atLast
            \/ ClosedForward(r, s) = Extended(atLast, r.termination, FALSE)
            BY DEF ClosedForward, Counting, Twentieths
      <2>3. atLast = Later(s, r.nextToLast, onStub, r.convention) \/ atLast = s
            OBVIOUS
      <2>4. Regular(r, Last(s.dates), r.nextToLast, onStub)
            BY DEF Regular
      <2> HIDE DEF onStub, atLast
      <2>5. Fits(atLast) /\ Spans(r, atLast)
            BY <2>1, <2>3, <2>4, LaterFits, LaterSpans
      <2>6. Regular(r, Last(atLast.dates), r.termination, FALSE)
            BY DEF Regular
      <2>7. Spans(r, Extended(atLast, r.termination, FALSE))
            BY <2>5, <2>6, ExtendedSpans
      <2>8. QED
            BY <2>2, <2>5, <2>7
<1>3. QED
      BY <1>1, <1>2

LEMMA NewSpans ==
    ASSUME RequestInv, FlagsInv', DatesInRange', SpanInv, NEW args \in Requests, New(args)
    PROVE  SpanInv'
<1> DEFINE r == Normalised(args)
           back == r.rule = "Backward"
<1>1. /\ phase = "idle" /\ periods = 1 /\ periods' = 1 /\ request' = r
      /\ IF Accepted(r) THEN NewStarts(r) ELSE phase' = "refused"
      BY DEF New, SpanInv
<1>2. r.rule # "Zero" /\ Accepted(r) => r.tenor.length >= 1
      <2>1. args \in Request /\ r.tenor = args.tenor /\ args.tenor.length \in Int
            BY RequestsAssumption DEF Normalised, Request, Period
      <2>2. r.rule # "Zero" => args.tenor.length # 0
            BY <2>1 DEF Normalised, Request
      <2>3. Accepted(r) => r.tenor.length >= 0
            BY DEF Accepted
      <2>4. QED
            BY <2>1, <2>2, <2>3
<1>3. r \in Request
      BY <1>1, RequestStep DEF RequestInv, Next
<1>4. CASE ~Accepted(r)
      BY <1>1, <1>4 DEF SpanInv
<1>5. CASE Accepted(r)
      <2> HIDE DEF r
      <2>1. NewStarts(r)
            BY <1>1, <1>5
      <2>2. r.rule = "Zero" => phase' = "roll"
            BY <2>1 DEF NewStarts
      <2>3. r.rule # "Zero" =>
                /\ phase' = "generate"
                /\ schedule' = IF back THEN FromTheEnd(r) ELSE FromTheStart(r)
                /\ seed' = IF back THEN Head(schedule'.dates) ELSE Last(schedule'.dates)
            BY <2>1 DEF NewStarts
      <2>4. Counting(r) => r.rule # "Zero" /\ Spans(r, schedule')
            BY <2>3, StartSpans DEF Counting
      <2>5. ASSUME Counting(r)
            PROVE  /\ InRange(seed') /\ InRange(Advance(seed', Times(0, r.tenor)))
                   /\ (IF back THEN schedule'.dates[1] ELSE Last(schedule'.dates))
                          = Away(r, seed', 0)
            <3>1. Fits(schedule') /\ phase' = "generate"
                  BY <2>3, <2>4, <2>5 DEF FlagsInv
            <3>2. \A s : Fits(s) => Len(s.dates) \in Nat /\ Len(s.dates) >= 1
                  BY HeadIs DEF Fits
            <3>3. 1 \in 1..Len(schedule'.dates) /\ Len(schedule'.dates) \in 1..Len(schedule'.dates)
                  BY <3>1, <3>2
            <3>4. InRange(schedule'.dates[1]) /\ InRange(schedule'.dates[Len(schedule'.dates)])
                  BY <3>1, <3>3 DEF DatesInRange
            <3>5. /\ Head(schedule'.dates) = schedule'.dates[1]
                  /\ Last(schedule'.dates) = schedule'.dates[Len(schedule'.dates)]
                  <4>1. \A s : Fits(s) => /\ Head(s.dates) = s.dates[1]
                                          /\ Last(s.dates) = s.dates[Len(s.dates)]
                        BY HeadIs
                  <4>2. QED
                        BY <3>1, <4>1
            <3>6. /\ InRange(seed')
                  /\ seed' = (IF back THEN schedule'.dates[1] ELSE Last(schedule'.dates))
                  BY <2>3, <2>4, <2>5, <3>4, <3>5
            <3>7. \A d : InRange(d) => Away(r, d, 0) = d /\ Advance(d, Times(0, r.tenor)) = d
                  BY <1>3, <2>5, NoneAway DEF Counting
            <3>8. QED
                  BY <3>6, <3>7
      <2>6. phase' \in {"generate", "roll"}
            BY <2>2, <2>3
      <2>7. 1 - 1 = 0 /\ 1 \in Nat
            OBVIOUS
      <2>8. Spans(r, schedule') => Spans(request, schedule)'
            BY <1>1 DEF Spans, Regular
      <2>9. ASSUME Counting(r), phase' = "generate"
            PROVE  LET n == IF back THEN 1 - periods' ELSE periods' - 1 IN
                   /\ InRange(seed') /\ InRange(Advance(seed', Times(n, r.tenor)))
                   /\ periods' \in Nat
                   /\ (IF back THEN schedule'.dates[1] ELSE Last(schedule'.dates))
                          = Away(r, seed', n)
            BY <1>1, <2>5, <2>7, <2>9
      <2>10. Last(schedule'.dates) = Last(schedule.dates)'
            BY DEF Last
      <2>11. QED
            BY <1>1, <1>2, <1>5, <2>4, <2>6, <2>8, <2>9, <2>10 DEF SpanInv
<1>6. QED
      BY <1>4, <1>5

LEMMA GenerateSpans ==
    ASSUME RequestInv, FlagsInv, DatesInRange, DatesInRange', CandidatesInRange,
           WeeksRollApart, SpanInv, Counting(request), Generate
    PROVE  SpanInv'
<1> DEFINE r == request
           c == r.convention
           back == r.rule = "Backward"
           n == IF back THEN 1 - periods ELSE periods - 1
           m == IF back THEN -periods ELSE periods
           x == Candidate
           y == IF back THEN schedule.dates[1] ELSE Last(schedule.dates)
<1>1. /\ phase = "generate" /\ UNCHANGED <<phase, request, seed>>
      /\ schedule' = IF back THEN Earlier(schedule, x, TRUE, c) ELSE Later(schedule, x, TRUE, c)
      /\ periods' = periods + 1
      BY DEF Generate
<1>2. r \in Request /\ c \in Conventions /\ Stepping(r) /\ Fits(schedule)
      BY <1>1 DEF RequestInv, Request, Counting, FlagsInv
<1>3. /\ InRange(seed) /\ InRange(Advance(seed, Times(n, r.tenor))) /\ periods \in Nat
      /\ y = Away(r, seed, n) /\ Spans(r, schedule)
      BY <1>1 DEF SpanInv
<1>4. InRange(Advance(seed, Times(m, r.tenor)))
      BY <1>1 DEF CandidatesInRange
<1>5. x = Away(r, seed, m)
      BY DEF Candidate
<1>6. /\ n \in Int /\ m \in Int
      /\ back => n = m + 1 /\ -periods' = m - 1 /\ 1 - periods' = m
      /\ ~back => m = n + 1 /\ periods' - 1 = m
      BY <1>1, <1>3
<1>7. /\ Len(schedule.dates) \in Nat /\ Len(schedule.dates) >= 1
      /\ Head(schedule.dates) = schedule.dates[1]
      /\ Last(schedule.dates) = schedule.dates[Len(schedule.dates)]
      BY <1>2, HeadIs DEF Fits
<1>8. InRange(y)
      <2>1. 1 \in 1..Len(schedule.dates) /\ Len(schedule.dates) \in 1..Len(schedule.dates)
            BY <1>7
      <2>2. QED
            BY <1>1, <1>7, <2>1 DEF DatesInRange
<1> HIDE DEF n, m, x, y
<1>9. /\ x \in Int /\ y \in Int
      /\ back => x + 7 <= y
      /\ ~back => y + 7 <= x
      <2>1. CASE back
            <3>1. n = m + 1
                  BY <1>6, <2>1
            <3>2. /\ Away(r, seed, m) \in Int /\ Away(r, seed, n) \in Int
                  /\ Away(r, seed, m) + 7 <= Away(r, seed, n)
                  BY <1>2, <1>3, <1>4, <1>6, <3>1, AwayRises
            <3>3. QED
                  BY <1>3, <1>5, <2>1, <3>2
      <2>2. CASE ~back
            <3>1. m = n + 1
                  BY <1>6, <2>2
            <3>2. /\ Away(r, seed, m) \in Int /\ Away(r, seed, n) \in Int
                  /\ Away(r, seed, n) + 7 <= Away(r, seed, m)
                  BY <1>2, <1>3, <1>4, <1>6, <3>1, AwayRises
            <3>3. QED
                  BY <1>3, <1>5, <2>2, <3>2
      <2>3. QED
            BY <2>1, <2>2
<1>10. Adjust[c][x] # Adjust[c][y]
      BY <1>2, <1>9 DEF WeeksRollApart
<1>11. schedule' = IF back THEN [dates |-> <<x>> \o schedule.dates,
                                 flags |-> <<TRUE>> \o schedule.flags]
                   ELSE Extended(schedule, x, TRUE)
      BY <1>1, <1>7, <1>10 DEF Earlier, Later, y
<1>12. (IF back THEN schedule'.dates[1] ELSE Last(schedule'.dates)) = x
      <2>1. Sequential(schedule.dates) /\ Len(schedule.dates) >= 1
            BY <1>2 DEF Fits
      <2>2. Last(Append(schedule.dates, x)) = x /\ (<<x>> \o schedule.dates)[1] = x
            BY <2>1, EndsAre
      <2>3. back => schedule'.dates = <<x>> \o schedule.dates
            BY <1>11
      <2>4. ~back => schedule'.dates = Append(schedule.dates, x)
            BY <1>11 DEF Extended
      <2>5. QED
            BY <2>2, <2>3, <2>4
<1>13. InRange(x)
      <2>1. phase' = "generate" /\ Fits(schedule')
            <3>1. Fits(Earlier(schedule, x, TRUE, c)) /\ Fits(Later(schedule, x, TRUE, c))
                  BY <1>2, EarlierFits, LaterFits
            <3>2. QED
                  BY <1>1, <3>1
      <2>2. /\ Len(schedule'.dates) \in Nat /\ Len(schedule'.dates) >= 1
            /\ Last(schedule'.dates) = schedule'.dates[Len(schedule'.dates)]
            <3>1. \A s : Fits(s) => /\ Len(s.dates) \in Nat /\ Len(s.dates) >= 1
                                    /\ Last(s.dates) = s.dates[Len(s.dates)]
                  BY HeadIs DEF Fits
            <3>2. QED
                  BY <2>1, <3>1
      <2>3. 1 \in 1..Len(schedule'.dates) /\ Len(schedule'.dates) \in 1..Len(schedule'.dates)
            BY <2>2
      <2>4. InRange(schedule'.dates[1]) /\ InRange(schedule'.dates[Len(schedule'.dates)])
            BY <2>1, <2>3 DEF DatesInRange
      <2>5. QED
            BY <1>12, <2>2, <2>4
<1>14. /\ back => Away(r, x, 1) = y \/ Away(r, y, -1) = x
       /\ ~back => Away(r, y, 1) = x \/ Away(r, x, -1) = y
      <2>1. CASE back
            <3>1. n = m + 1
                  BY <1>6, <2>1
            <3>2. \/ Away(r, Away(r, seed, m), 1) = Away(r, seed, n)
                  \/ Away(r, Away(r, seed, n), -1) = Away(r, seed, m)
                  BY <1>2, <1>3, <1>4, <1>5, <1>6, <1>8, <1>13, <3>1, AwaySteps
            <3>3. QED
                  BY <1>3, <1>5, <2>1, <3>2
      <2>2. CASE ~back
            <3>1. m = n + 1
                  BY <1>6, <2>2
            <3>2. \/ Away(r, Away(r, seed, n), 1) = Away(r, seed, m)
                  \/ Away(r, Away(r, seed, m), -1) = Away(r, seed, n)
                  BY <1>2, <1>3, <1>4, <1>5, <1>6, <1>8, <1>13, <3>1, AwaySteps
            <3>3. QED
                  BY <1>3, <1>5, <2>2, <3>2
      <2>3. QED
            BY <2>1, <2>2
<1>15. Spans(r, schedule')
      <2>1. CASE back
            <3>1. Regular(r, x, schedule.dates[1], TRUE)
                  BY <1>14, <2>1 DEF Regular, y
            <3>2. Spans(r, [dates |-> <<x>> \o schedule.dates, flags |-> <<TRUE>> \o schedule.flags])
                  BY <1>2, <1>3, <3>1, PrependedSpans
            <3>3. QED
                  BY <1>11, <2>1, <3>2
      <2>2. CASE ~back
            <3>1. Regular(r, Last(schedule.dates), x, TRUE)
                  BY <1>14, <2>2 DEF Regular, y
            <3>2. Spans(r, Extended(schedule, x, TRUE))
                  BY <1>2, <1>3, <3>1, ExtendedSpans
            <3>3. QED
                  BY <1>11, <2>2, <3>2
      <2>3. QED
            BY <2>1, <2>2
<1>16. /\ Spans(request, schedule)' /\ phase' = "generate" /\ InRange(seed')
       /\ request'.tenor.length >= 1 /\ periods' \in Nat
      <2>1. Spans(request, schedule)'
            BY <1>1, <1>15 DEF Spans, Regular
      <2>2. periods' \in Nat
            BY <1>1, <1>3
      <2>3. phase' = "generate" /\ InRange(seed') /\ request'.tenor.length >= 1
            BY <1>1, <1>2, <1>3 DEF Stepping
      <2>4. QED
            BY <2>1, <2>2, <2>3
<1>17. LET k == IF back THEN 1 - periods' ELSE periods' - 1 IN
       /\ InRange(Advance(seed', Times(k, r.tenor)))
       /\ (IF back THEN schedule'.dates[1] ELSE Last(schedule'.dates)) = Away(r, seed', k)
      BY <1>1, <1>4, <1>5, <1>6, <1>12
<1>18. QED
      BY <1>1, <1>16, <1>17 DEF SpanInv, Last

LEMMA SpanStep ==
    RequestInv /\ FlagsInv /\ FlagsInv' /\ DatesInRange /\ DatesInRange'
        /\ CandidatesInRange /\ WeeksRollApart /\ SpanInv /\ [Next]_vars => SpanInv'
<1> SUFFICES ASSUME RequestInv, FlagsInv, FlagsInv', DatesInRange, DatesInRange',
                    CandidatesInRange, WeeksRollApart, SpanInv, [Next]_vars
             PROVE  SpanInv'
    OBVIOUS
<1>1. ASSUME NEW args \in Requests, New(args)
      PROVE  SpanInv'
      BY <1>1, NewSpans
<1>2. ASSUME Generate
      PROVE  SpanInv'
      <2>1. CASE Counting(request)
            BY <1>2, <2>1, GenerateSpans
      <2>2. CASE ~Counting(request)
            BY <1>2, <2>2 DEF Generate, SpanInv
      <2>3. QED
            BY <2>1, <2>2
<1>3. ASSUME Close
      PROVE  SpanInv'
      <2>1. /\ phase = "generate" /\ phase' = "roll" /\ UNCHANGED request
            /\ schedule' = IF request.rule = "Backward" THEN ClosedBackward(request, schedule)
                           ELSE ClosedForward(request, schedule)
            /\ Fits(schedule)
            BY <1>3 DEF Close, FlagsInv
      <2>2. Counting(request) => Spans(request, schedule')
            BY <2>1, CloseSpans DEF SpanInv
      <2>3. Counting(request) => Spans(request, schedule)'
            BY <2>1, <2>2 DEF Spans, Regular
      <2>4. QED
            BY <2>1, <2>3 DEF SpanInv
<1>4. ASSUME phase' \notin {"idle", "generate", "roll"}
      PROVE  SpanInv'
      BY <1>4 DEF SpanInv
<1>5. ASSUME UNCHANGED <<phase, request, seed, periods, schedule>>
      PROVE  SpanInv'
      BY <1>5 DEF SpanInv, Spans, Regular, Last
<1>6. QED
      BY <1>1, <1>2, <1>3, <1>4, <1>5
         DEF Next, ProgramStep, WithMetadata, Roll, Trim, After, Until, Cutting,
             EditHolidays, builder, vars

LEMMA SpansIsRegular ==
    ASSUME FlagsInv, SpanInv
    PROVE  RegularSpansTenor
<1> SUFFICES ASSUME phase = "roll", request.rule \in {"Backward", "Forward", "ThirdWednesday"},
                    request.tenor.units # "Days", NEW p \in Range(PeriodsOf(schedule))
             PROVE  IF p[3] THEN Away(request, p[1], 1) = p[2] \/ Away(request, p[2], -1) = p[1]
                    ELSE {p[1], p[2]} \cap {request.effective, request.termination,
                                            request.first, request.nextToLast} # {}
    BY DEF RegularSpansTenor
<1>1. Counting(request) /\ Spans(request, schedule)
      BY DEF SpanInv, Counting, Stepping
<1>2. PICK i \in 1..Len(schedule.flags) :
          p = <<schedule.dates[i], schedule.dates[i + 1], schedule.flags[i]>>
      BY DEF Range, PeriodsOf
<1>3. Regular(request, schedule.dates[i], schedule.dates[i + 1], schedule.flags[i])
      BY <1>1, <1>2 DEF Spans
<1>4. p[1] = schedule.dates[i] /\ p[2] = schedule.dates[i + 1] /\ p[3] = schedule.flags[i]
      BY <1>2
<1>5. QED
      BY <1>3, <1>4 DEF Regular

\* RegularSpansTenor for any market, arguments and overrides (Schedule::new: each pass of
\* its loop counts one tenor more from the same date, and says TRUE; its stubs are
\* compared).
THEOREM RegularPeriodsSpanATenor ==
    Spec /\ []DatesInRange /\ []CandidatesInRange /\ []WeeksRollApart => []RegularSpansTenor
<1>1. Init => RequestInv /\ FlagsInv /\ SpanInv
      BY RequestInit, FlagsInit DEF Init, SpanInv, NoRequest
<1>2. QED
      BY <1>1, RequestStep, FlagsStep, SpanStep, SpansIsRegular, PTL DEF Spec

----------------------------------------------------------------------------
\* That a schedule is made in order. First the rolling: two dates have a business day
\* between them, or they roll to the same two days.
LEMMA RollsAre ==
    ASSUME NoLongHolidays, NEW x \in Int, NEW y \in Int, x <= y
    PROVE  /\ Following[x] <= Following[y] /\ Preceding[x] <= Preceding[y]
           /\ \/ Following[x] <= Preceding[y]
              \/ /\ Following[x] = Following[y] /\ Preceding[x] = Preceding[y]
                 /\ Preceding[x] < x /\ y < Following[y]
           /\ x + Horizon <= y => Following[x] <= Preceding[y]
<1> DEFINE fx == Following[x]
           fy == Following[y]
           px == Preceding[x]
           py == Preceding[y]
<1>1. fx \in Int /\ x <= fx /\ fx <= x + Horizon /\ IsBusinessDay(fx)
      BY FollowingIs
<1>2. \A f \in x..(fx - 1) : ~IsBusinessDay(f)
      BY FollowingIs
<1>3. fy \in Int /\ y <= fy /\ fy <= y + Horizon /\ IsBusinessDay(fy)
      BY FollowingIs
<1>4. \A f \in y..(fy - 1) : ~IsBusinessDay(f)
      BY FollowingIs
<1>5. px \in Int /\ x - Horizon <= px /\ px <= x /\ IsBusinessDay(px)
      BY PrecedingIs
<1>6. \A f \in (px + 1)..x : ~IsBusinessDay(f)
      BY PrecedingIs
<1>7. py \in Int /\ y - Horizon <= py /\ py <= y /\ IsBusinessDay(py)
      BY PrecedingIs
<1>8. \A f \in (py + 1)..y : ~IsBusinessDay(f)
      BY PrecedingIs
<1> HIDE DEF fx, fy, px, py
<1>9. fx <= fy
      <2>1. ~(fx > fy)
            <3>1. fx > fy => fy \in x..(fx - 1)
                  BY <1>1, <1>3
            <3>2. QED
                  BY <1>2, <1>3, <3>1
      <2>2. QED
            BY <1>1, <1>3, <2>1
<1>10. px <= py
      <2>1. ~(px > py)
            <3>1. px > py => px \in (py + 1)..y
                  BY <1>5, <1>7
            <3>2. QED
                  BY <1>5, <1>8, <3>1
      <2>2. QED
            BY <1>5, <1>7, <2>1
<1>11. CASE fx <= y
      <2>1. ~(fx > py)
            <3>1. fx > py => fx \in (py + 1)..y
                  BY <1>1, <1>7, <1>11
            <3>2. QED
                  BY <1>1, <1>8, <3>1
      <2>2. fx <= py
            BY <1>1, <1>7, <2>1
      <2>3. QED
            BY <1>9, <1>10, <2>2 DEF fx, fy, px, py
<1>12. CASE fx > y
      <2>1. fx = fy
            <3>1. fx < fy => fx \in y..(fy - 1)
                  BY <1>1, <1>3, <1>12
            <3>2. ~(fx < fy)
                  BY <1>1, <1>4, <3>1
            <3>3. QED
                  BY <1>1, <1>3, <1>9, <3>2
      <2>2. py < x
            <3>1. py >= x => py \in x..(fx - 1)
                  BY <1>1, <1>7, <1>12
            <3>2. ~(py >= x)
                  BY <1>2, <1>7, <3>1
            <3>3. QED
                  BY <1>7, <3>2
      <2>3. px = py
            <3>1. px < py => py \in (px + 1)..x
                  BY <1>5, <1>7, <2>2
            <3>2. ~(px < py)
                  BY <1>6, <1>7, <3>1
            <3>3. QED
                  BY <1>5, <1>7, <1>10, <3>2
      <2>4. y < fy
            BY <1>12, <2>1
      <2>5. ~(x + Horizon <= y)
            BY <1>1, <1>12, HorizonAssumption
      <2>6. px < x
            BY <2>2, <2>3
      <2>7. QED
            BY <1>9, <1>10, <2>1, <2>3, <2>4, <2>5, <2>6 DEF fx, fy, px, py
<1>13. QED
      BY <1>1, <1>11, <1>12

LEMMA AdjustWithin ==
    ASSUME NoLongHolidays, NEW d \in Int, NEW c \in Conventions
    PROVE  /\ Adjust[c][d] \in Int /\ Preceding[d] \in Int /\ Following[d] \in Int
           /\ Preceding[d] <= d /\ d <= Following[d]
           /\ Preceding[d] <= Adjust[c][d] /\ Adjust[c][d] <= Following[d]
           /\ c # "Unadjusted" => Adjust[c][d] \in {Preceding[d], Following[d]}
           /\ c = "Unadjusted" => Adjust[c][d] = d
           /\ d - Horizon <= Preceding[d] /\ Following[d] <= d + Horizon
<1>1. /\ Following[d] \in Int /\ d <= Following[d] /\ Following[d] <= d + Horizon
      /\ Preceding[d] \in Int /\ Preceding[d] <= d /\ d - Horizon <= Preceding[d]
      BY FollowingIs, PrecedingIs
<1>2. c # "Unadjusted" => Adjust[c][d] \in {Preceding[d], Following[d]}
      BY DEF Adjust, Conventions
<1>3. c = "Unadjusted" => Adjust[c][d] = d
      BY DEF Adjust
<1>4. QED
      BY <1>1, <1>2, <1>3

\* Dates of a later month are later; dates of one month that are near have its number.
LEMMA MonthsFollow ==
    ASSUME NEW x, InRange(x), NEW y, InRange(y)
    PROVE  /\ x <= y => MonthNo(x) <= MonthNo(y)
           /\ MonthNo(x) = MonthNo(y) /\ x <= y => DayOfMonth[x] <= DayOfMonth[y]
           /\ MonthNo(x) \in Int /\ DayOfMonth[x] \in 1..31
<1> DEFINE k == MonthNo(x)
           l == MonthNo(y)
<1>1. /\ x \in Int /\ k \in Int /\ DayOfMonth[x] \in 1..LengthOf(k)
      /\ x = MonthStart(k) + DayOfMonth[x] - 1
      /\ MonthStart(k) \in Int /\ LengthOf(k) \in 28..31
      BY DayIs
<1>2. /\ y \in Int /\ l \in Int /\ DayOfMonth[y] \in 1..LengthOf(l)
      /\ y = MonthStart(l) + DayOfMonth[y] - 1
      /\ MonthStart(l) \in Int /\ LengthOf(l) \in 28..31
      BY DayIs
<1> HIDE DEF k, l
<1>3. MonthStart(l + 1) = MonthStart(l) + LengthOf(l)
      BY <1>2, MonthEnds
<1>4. l + 1 <= k => MonthStart(l + 1) + 28 * (k - (l + 1)) <= MonthStart(k)
      <2>1. l + 1 \in Int
            BY <1>2
      <2>2. QED
            BY <1>1, <2>1, MonthsRise
<1>5. x <= y => k <= l
      BY <1>1, <1>2, <1>3, <1>4
<1>6. k = l /\ x <= y => DayOfMonth[x] <= DayOfMonth[y]
      BY <1>1, <1>2
<1>7. k \in Int /\ DayOfMonth[x] \in 1..31
      BY <1>1
<1>8. QED
      BY <1>5, <1>6, <1>7 DEF k, l

LEMMA MonthOfNo ==
    ASSUME NEW x, InRange(x)
    PROVE  Month[x] = (MonthNo(x) % 12) + 1 /\ MonthNo(x) \in Int
<1>1. Year[x] \in Int /\ Month[x] \in 1..12
      BY YearIs, MonthIs
<1>2. QED
      BY <1>1 DEF MonthNo

LEMMA SameMonth ==
    ASSUME NEW x, InRange(x), NEW y, InRange(y), x <= y, y <= x + 28
    PROVE  Month[x] = Month[y] <=> MonthNo(x) = MonthNo(y)
<1> DEFINE k == MonthNo(x)
           l == MonthNo(y)
<1>1. Month[x] = (k % 12) + 1 /\ Month[y] = (l % 12) + 1 /\ k \in Int /\ l \in Int
      BY MonthOfNo
<1>2. k <= l
      BY MonthsFollow
<1>3. /\ x \in Int /\ DayOfMonth[x] \in 1..LengthOf(k) /\ LengthOf(k) \in 28..31
      /\ x = MonthStart(k) + DayOfMonth[x] - 1 /\ MonthStart(k) \in Int
      BY DayIs
<1>4. /\ y \in Int /\ DayOfMonth[y] \in 1..LengthOf(l) /\ LengthOf(l) \in 28..31
      /\ y = MonthStart(l) + DayOfMonth[y] - 1 /\ MonthStart(l) \in Int
      BY DayIs
<1> HIDE DEF k, l
<1>5. l <= k + 2
      <2>1. MonthStart(k) + 28 * (l - k) <= MonthStart(l)
            BY <1>1, <1>2, MonthsRise
      <2>2. QED
            BY <1>1, <1>3, <1>4, <2>1
<1>6. (k % 12) + 1 = (l % 12) + 1 <=> k = l
      BY <1>1, <1>2, <1>5
<1>7. QED
      BY <1>1, <1>6 DEF k, l

\* A date with m days on either side within the library's.
Clear(d, m) == d \in Int /\ 367 + m <= d /\ d + m <= 109574

LEMMA ClearIs ==
    ASSUME NEW m \in Nat, NEW d, Clear(d, m), NEW e \in Int, d - m <= e, e <= d + m
    PROVE  d \in Int /\ InRange(d) /\ InRange(e)
<1>1. d \in Int /\ 367 <= d /\ d <= 109574 /\ 367 <= e /\ e <= 109574
      BY DEF Clear
<1>2. QED
      BY <1>1, Bounded

\* A date that rolls, and whose month lies, within the library's.
Roomy(d) == Clear(d, 31)

LEMMA RoomyIs ==
    ASSUME NEW d, Roomy(d), NEW e \in Int, d - 31 <= e, e <= d + 31
    PROVE  d \in Int /\ InRange(d) /\ InRange(e)
BY ClearIs DEF Roomy

LEMMA RoomyIsInt ==
    ASSUME NEW d, Roomy(d)
    PROVE  d \in Int /\ InRange(d)
<1>1. d \in Int /\ d - 31 <= d /\ d <= d + 31
      BY DEF Roomy, Clear
<1>2. QED
      BY <1>1, RoomyIs

ShortHolidays == Horizon <= 8

\* Rolling keeps dates in order, whichever way a convention turns at a month's end.
LEMMA AdjustRises ==
    ASSUME NoLongHolidays, ShortHolidays, NEW c \in Conventions,
           NEW x, Roomy(x), NEW y, Roomy(y), x <= y
    PROVE  Adjust[c][x] <= Adjust[c][y]
<1> DEFINE p == Preceding[x]
           f == Following[x]
           ax == Adjust[c][x]
           ay == Adjust[c][y]
<1>1. x \in Int /\ InRange(x) /\ y \in Int /\ InRange(y)
      BY RoomyIsInt
<1>2. /\ ax \in Int /\ p \in Int /\ f \in Int /\ p <= x /\ x <= f /\ p <= ax /\ ax <= f
      /\ x - Horizon <= p /\ f <= x + Horizon
      BY <1>1, AdjustWithin
<1>3. /\ ay \in Int /\ Preceding[y] <= ay /\ ay <= Following[y]
      /\ Preceding[y] \in Int /\ Following[y] \in Int
      BY <1>1, AdjustWithin
<1>4. CASE f <= Preceding[y]
      BY <1>2, <1>3, <1>4
<1>5. CASE f = Following[y] /\ p = Preceding[y] /\ p < x /\ y < f
      <2>1. Horizon \in Nat /\ Horizon <= 8
            BY HorizonAssumption DEF ShortHolidays
      <2>2. p >= x - 31 /\ p <= x + 31 /\ f >= x - 31 /\ f <= x + 31
            BY <1>1, <1>2, <2>1
      <2>3. InRange(p) /\ InRange(f)
            BY <1>2, <2>2, RoomyIs
      <2>4. /\ y <= f /\ f <= y + 28 /\ f <= x + 28 /\ p <= y /\ y <= p + 28 /\ x <= p + 28
            BY <1>1, <1>2, <1>5, <2>1
      <2> HIDE DEF p, f, ax, ay
      <2>5. /\ Month[x] = Month[f] <=> MonthNo(x) = MonthNo(f)
            /\ Month[y] = Month[f] <=> MonthNo(y) = MonthNo(f)
            /\ Month[p] = Month[x] <=> MonthNo(p) = MonthNo(x)
            /\ Month[p] = Month[y] <=> MonthNo(p) = MonthNo(y)
            BY <1>1, <1>2, <2>3, <2>4, SameMonth
      <2>6. /\ MonthNo(x) <= MonthNo(y) /\ MonthNo(y) <= MonthNo(f) /\ MonthNo(p) <= MonthNo(x)
            /\ MonthNo(x) \in Int /\ MonthNo(y) \in Int /\ MonthNo(f) \in Int /\ MonthNo(p) \in Int
            BY <1>1, <1>2, <2>3, <2>4, MonthsFollow
      <2>7. /\ MonthNo(x) = MonthNo(y) => DayOfMonth[x] <= DayOfMonth[y]
            /\ DayOfMonth[x] \in Int /\ DayOfMonth[y] \in Int
            BY <1>1, MonthsFollow
      <2>8. /\ Following[x] = f /\ Following[y] = f /\ Preceding[x] = p /\ Preceding[y] = p
            BY <1>5 DEF p, f
      <2>9. p <= f
            BY <1>2
      <2>10. CASE c = "Unadjusted"
            BY <1>1, <2>10 DEF Adjust, ax, ay
      <2>11. CASE c = "Following"
            BY <1>1, <1>2, <2>8, <2>11 DEF Adjust, ax, ay
      <2>12. CASE c = "Preceding"
            BY <1>1, <1>2, <2>8, <2>12 DEF Adjust, ax, ay
      <2>13. CASE c = "ModifiedFollowing"
            <3>1. ax = IF Month[f] # Month[x] THEN p ELSE f
                  BY <1>1, <2>8, <2>13 DEF Adjust, ax
            <3>2. ay = IF Month[f] # Month[y] THEN p ELSE f
                  BY <1>1, <2>8, <2>13 DEF Adjust, ay
            <3>3. QED
                  BY <1>2, <2>5, <2>6, <2>9, <3>1, <3>2 DEF ax, ay
      <2>14. CASE c = "ModifiedPreceding"
            <3>1. ax = IF Month[p] # Month[x] THEN f ELSE p
                  BY <1>1, <2>8, <2>14 DEF Adjust, ax
            <3>2. ay = IF Month[p] # Month[y] THEN f ELSE p
                  BY <1>1, <2>8, <2>14 DEF Adjust, ay
            <3>3. QED
                  BY <1>2, <2>5, <2>6, <2>9, <3>1, <3>2 DEF ax, ay
      <2>15. CASE c = "HalfMonthModifiedFollowing"
            <3>1. ax = IF \/ Month[f] # Month[x]
                          \/ DayOfMonth[x] <= 15 /\ DayOfMonth[f] > 15 THEN p ELSE f
                  BY <1>1, <2>8, <2>15 DEF Adjust, ax
            <3>2. ay = IF \/ Month[f] # Month[y]
                          \/ DayOfMonth[y] <= 15 /\ DayOfMonth[f] > 15 THEN p ELSE f
                  BY <1>1, <2>8, <2>15 DEF Adjust, ay
            <3>3. Month[f] # Month[y] => Month[f] # Month[x]
                  BY <2>5, <2>6
            <3>4. Month[f] = Month[x] => DayOfMonth[x] <= DayOfMonth[y]
                  BY <2>5, <2>6, <2>7
            <3>5. ay = p => ax = p \/ p = f
                  BY <2>7, <3>1, <3>2, <3>3, <3>4
            <3>6. ax \in {p, f} /\ ay \in {p, f}
                  BY <3>1, <3>2
            <3>7. QED
                  BY <1>2, <2>9, <3>5, <3>6 DEF ax, ay
      <2>16. CASE c = "Nearest"
            <3>1. ax = IF f - x <= x - p THEN f ELSE p
                  BY <1>1, <2>8, <2>16 DEF Adjust, ax
            <3>2. ay = IF f - y <= y - p THEN f ELSE p
                  BY <1>1, <2>8, <2>16 DEF Adjust, ay
            <3>3. QED
                  BY <1>1, <1>2, <2>9, <3>1, <3>2 DEF ax, ay
      <2>17. QED
            BY <2>10, <2>11, <2>12, <2>13, <2>14, <2>15, <2>16 DEF Conventions, ax, ay
<1>6. f <= Preceding[y] \/ (f = Following[y] /\ p = Preceding[y] /\ p < x /\ y < f)
      BY <1>1, RollsAre
<1>7. QED
      BY <1>4, <1>5, <1>6

\* Of three dates in order, if the first two do not roll to the same day, or the last
\* two, then the first is not rolled past the last: there is a business day between
\* them, or the first rolls back and the last rolls on.
LEMMA FirstTwoApart ==
    ASSUME NoLongHolidays, ShortHolidays, NEW c \in Conventions, NEW e \in Conventions,
           c # "Unadjusted", NEW x, Roomy(x), NEW y, Roomy(y), NEW z, Roomy(z),
           x <= y, y <= z, Adjust[c][x] # Adjust[c][y]
    PROVE  Adjust[c][x] <= Adjust[e][z]
<1>1. x \in Int /\ y \in Int /\ z \in Int
      BY RoomyIsInt
<1>2. Adjust[c][x] <= Adjust[c][y]
      BY AdjustRises
<1>3. /\ Adjust[c][x] \in {Preceding[x], Following[x]} /\ Adjust[c][x] <= Following[x]
      /\ Preceding[x] \in Int /\ Following[x] \in Int /\ Adjust[c][x] \in Int
      BY <1>1, AdjustWithin
<1>4. /\ Adjust[c][y] \in {Preceding[y], Following[y]} /\ Adjust[c][y] <= Following[y]
      /\ Preceding[y] \in Int /\ Following[y] \in Int
      BY <1>1, AdjustWithin
<1>5. /\ Adjust[e][z] \in Int /\ Preceding[z] \in Int /\ Preceding[z] <= Adjust[e][z]
      BY <1>1, AdjustWithin
<1>6. Preceding[y] <= Preceding[z] /\ Preceding[x] <= Preceding[y]
      BY <1>1, RollsAre
<1>7. \/ Following[x] <= Preceding[y]
      \/ Following[x] = Following[y] /\ Preceding[x] = Preceding[y]
      BY <1>1, RollsAre
<1>8. QED
      BY <1>2, <1>3, <1>4, <1>5, <1>6, <1>7

LEMMA LastTwoApart ==
    ASSUME NoLongHolidays, ShortHolidays, NEW c \in Conventions, NEW e \in Conventions,
           e # "Unadjusted", NEW x, Roomy(x), NEW y, Roomy(y), NEW z, Roomy(z),
           x <= y, y <= z, Adjust[e][y] # Adjust[e][z]
    PROVE  Adjust[c][x] <= Adjust[e][z]
<1>1. x \in Int /\ y \in Int /\ z \in Int
      BY RoomyIsInt
<1>2. Adjust[e][y] <= Adjust[e][z]
      BY AdjustRises
<1>3. /\ Adjust[c][x] <= Following[x] /\ Following[x] \in Int /\ Adjust[c][x] \in Int
      BY <1>1, AdjustWithin
<1>4. /\ Adjust[e][y] \in {Preceding[y], Following[y]}
      /\ Preceding[y] \in Int /\ Following[y] \in Int
      BY <1>1, AdjustWithin
<1>5. /\ Adjust[e][z] \in {Preceding[z], Following[z]} /\ Preceding[z] <= Following[z]
      /\ Preceding[z] \in Int /\ Following[z] \in Int /\ Preceding[z] <= Adjust[e][z]
      BY <1>1, AdjustWithin
<1>6. Following[x] <= Following[y]
      BY <1>1, RollsAre
<1>7. \/ Following[y] <= Preceding[z]
      \/ Following[y] = Following[z] /\ Preceding[y] = Preceding[z]
      BY <1>1, RollsAre
<1>8. QED
      BY <1>2, <1>3, <1>4, <1>5, <1>6, <1>7

\* Third Wednesdays: one in the third week of each month.
ThirdIn(k) ==
    LET w == Weekday(MonthStart(k)) IN
    MonthStart(k) + (IF w <= 4 THEN 18 - w ELSE 25 - w)

LEMMA ThirdWednesdayIs ==
    ASSUME NEW d, InRange(d)
    PROVE  /\ ThirdWednesday(d) = ThirdIn(MonthNo(d)) /\ ThirdWednesday(d) \in Int
           /\ MonthStart(MonthNo(d)) + 14 <= ThirdWednesday(d)
           /\ ThirdWednesday(d) <= MonthStart(MonthNo(d)) + 20
           /\ InRange(ThirdWednesday(d)) /\ MonthNo(ThirdWednesday(d)) = MonthNo(d)
<1> DEFINE m == Month[d]
           y == Year[d]
           k == MonthNo(d)
           w == Weekday(MonthStart(k))
<1>1. d \in Int /\ k \in Int /\ MonthStart(k) \in Int /\ LengthOf(k) \in 28..31
      BY DayIs
<1>2. m \in 1..12 /\ y \in Int
      BY MonthIs, YearIs
<1>3. (k % 12) + 1 = m /\ k \div 12 = y
      <2>1. k = 12 * y + (m - 1) /\ m - 1 \in 0..11
            BY <1>2 DEF MonthNo
      <2> HIDE DEF k, m, y
      <2>2. QED
            BY <1>2, <2>1
<1>4. MonthStart(k) = DateOf(1, m, y)
      BY <1>3 DEF MonthStart
<1>5. MonthOffset(m, y) \in Int /\ YearOffset(y) \in Int
      BY <1>2, LengthIs, YearsRise
<1>6. w \in 1..7
      BY <1>1 DEF Weekday
<1>7. ThirdWednesday(d) = DateOf(1 + Wednesday + 7 * (3 - (IF Wednesday >= w THEN 1 ELSE 0)) - w, m, y)
      BY <1>4 DEF ThirdWednesday, NthWeekday
<1> HIDE DEF m, y, k, w
<1>8. ThirdWednesday(d) = MonthStart(k) + (IF w <= 4 THEN 18 - w ELSE 25 - w)
      BY <1>4, <1>5, <1>6, <1>7 DEF DateOf, Wednesday
<1>9. /\ ThirdWednesday(d) \in Int
      /\ MonthStart(k) + 14 <= ThirdWednesday(d)
      /\ ThirdWednesday(d) <= MonthStart(k) + 20
      BY <1>1, <1>6, <1>8
<1>10. /\ MonthStart(k) <= ThirdWednesday(d)
       /\ ThirdWednesday(d) < MonthStart(k) + LengthOf(k)
      BY <1>1, <1>9
<1>11. InRange(ThirdWednesday(d))
      BY <1>1, <1>9, <1>10, WholeMonths DEF k
<1>12. MonthNo(ThirdWednesday(d)) = k
      BY <1>1, <1>10, <1>11, MonthOfDay
<1>13. ThirdWednesday(d) = ThirdIn(k)
      BY <1>8 DEF ThirdIn, w
<1>14. QED
      BY <1>9, <1>11, <1>12, <1>13 DEF k

LEMMA ImmIsThird ==
    ASSUME NEW d, InRange(d), IsImmDate(d)
    PROVE  ThirdWednesday(d) = d
<1> DEFINE k == MonthNo(d)
           b == MonthStart(k)
           j == DayOfMonth[d]
           w == Weekday(b)
<1>1. d \in Int /\ b \in Int /\ d = b + j - 1
      BY DayIs
<1>2. j \in 15..21 /\ Weekday(d) = 4
      BY DEF IsImmDate, Wednesday
<1>3. d % 7 = 4
      BY <1>1, <1>2 DEF Weekday
<1>4. w = IF b % 7 = 0 THEN 7 ELSE b % 7
      BY DEF Weekday
<1>5. ThirdWednesday(d) = b + (IF w <= 4 THEN 18 - w ELSE 25 - w)
      BY ThirdWednesdayIs DEF ThirdIn
<1> HIDE DEF k, b, j, w
<1>6. j - 1 = IF w <= 4 THEN 18 - w ELSE 25 - w
      <2>1. b % 7 \in 0..6 /\ (b + (j - 1)) % 7 = 4
            BY <1>1, <1>2, <1>3
      <2>2. \E q \in Int : b = 7 * q + (b % 7)
            BY <1>1
      <2>3. PICK q \in Int : b = 7 * q + (b % 7)
            BY <2>2
      <2> DEFINE u == b % 7
      <2>4. u \in 0..6 /\ (7 * q + (u + (j - 1))) % 7 = 4
            BY <1>2, <2>1, <2>3
      <2> HIDE DEF u
      <2>5. u + (j - 1) \in {18, 25}
            BY <1>2, <2>4
      <2>6. w = IF u = 0 THEN 7 ELSE u
            BY <1>4 DEF u
      <2>7. QED
            BY <1>2, <2>4, <2>5, <2>6
<1>7. QED
      BY <1>1, <1>2, <1>5, <1>6

LEMMA ThirdsRise ==
    ASSUME NEW x, InRange(x), NEW y, InRange(y), x <= y
    PROVE  /\ ThirdWednesday(x) <= ThirdWednesday(y)
           /\ MonthNo(x) < MonthNo(y) => /\ ThirdWednesday(x) + 8 <= y
                                         /\ x <= ThirdWednesday(y)
                                         /\ ThirdWednesday(x) + 22 <= ThirdWednesday(y)
           /\ MonthNo(x) = MonthNo(y) => ThirdWednesday(x) = ThirdWednesday(y)
<1> DEFINE k == MonthNo(x)
           l == MonthNo(y)
<1>1. /\ ThirdWednesday(x) = ThirdIn(k) /\ ThirdWednesday(x) \in Int
      /\ ThirdWednesday(x) <= MonthStart(k) + 20
      BY ThirdWednesdayIs
<1>2. /\ ThirdWednesday(y) = ThirdIn(l) /\ ThirdWednesday(y) \in Int
      /\ MonthStart(l) + 14 <= ThirdWednesday(y)
      BY ThirdWednesdayIs
<1>3. /\ x \in Int /\ k \in Int /\ DayOfMonth[x] \in 1..LengthOf(k)
      /\ x = MonthStart(k) + DayOfMonth[x] - 1
      /\ MonthStart(k) \in Int /\ LengthOf(k) \in 28..31
      BY DayIs
<1>4. /\ y \in Int /\ l \in Int /\ DayOfMonth[y] \in 1..LengthOf(l)
      /\ y = MonthStart(l) + DayOfMonth[y] - 1 /\ LengthOf(l) \in 28..31
      /\ MonthStart(l) \in Int
      BY DayIs
<1>5. k <= l
      BY MonthsFollow
<1> HIDE DEF k, l
<1>6. k < l => MonthStart(k) + LengthOf(k) <= MonthStart(l)
      <2>1. k < l => MonthStart(k + 1) + 28 * (l - (k + 1)) <= MonthStart(l)
            <3>1. k + 1 \in Int
                  BY <1>3
            <3>2. k < l => k + 1 <= l
                  BY <1>3, <1>4
            <3>3. QED
                  BY <1>4, <3>1, <3>2, MonthsRise
      <2>2. MonthStart(k + 1) = MonthStart(k) + LengthOf(k)
            BY <1>3, MonthEnds
      <2>3. QED
            BY <1>3, <1>4, <2>1, <2>2
<1>7. k = l => ThirdWednesday(x) = ThirdWednesday(y)
      BY <1>1, <1>2
<1>8. k < l => /\ ThirdWednesday(x) + 8 <= y /\ x <= ThirdWednesday(y)
               /\ ThirdWednesday(x) + 22 <= ThirdWednesday(y)
      BY <1>1, <1>2, <1>3, <1>4, <1>6
<1>9. QED
      BY <1>1, <1>2, <1>3, <1>4, <1>5, <1>7, <1>8 DEF k, l

\* Trimming mends one date at either end: what it needs is that all but the last are in
\* order, and that the last but two is not past the last.
TrimOrders(ds) ==
    LET n == Len(ds) IN
    /\ \A i \in 1..(n - 2) : ds[i] <= ds[i + 1]
    /\ n >= 4 => ds[n - 2] <= ds[n]

LEMMA TailSorts ==
    ASSUME NEW s, Fits(s), s.dates \in Seq(Int), TrimOrders(s.dates),
           Len(TailTrimmed(s).dates) >= 3
    PROVE  NonDecreasing(TailTrimmed(s).dates)
<1> DEFINE n == Len(s.dates)
           t == RemoveAt(s.dates, n - 1)
<1>1. n \in Nat /\ \A i \in 1..n : s.dates[i] \in Int
      OBVIOUS
<1>2. CASE n < 2 \/ s.dates[n - 1] < s.dates[n]
      <2>1. TailTrimmed(s) = s
            BY <1>2 DEF TailTrimmed
      <2>2. n >= 3
            BY <2>1
      <2>3. ASSUME NEW i \in 1..(n - 1)
            PROVE  s.dates[i] <= s.dates[i + 1]
            <3>1. CASE i = n - 1
                  <4>1. i + 1 = n /\ s.dates[n - 1] < s.dates[n] /\ n - 1 \in 1..n /\ n \in 1..n
                        BY <1>1, <1>2, <2>2, <3>1
                  <4>2. s.dates[i] < s.dates[n] /\ s.dates[i] \in Int /\ s.dates[n] \in Int
                        BY <1>1, <3>1, <4>1
                  <4>3. QED
                        BY <4>1, <4>2
            <3>2. CASE i # n - 1
                  <4>1. i \in 1..(n - 2)
                        BY <1>1, <3>2
                  <4>2. QED
                        BY <4>1 DEF TrimOrders
            <3>3. QED
                  BY <3>1, <3>2
      <2>4. QED
            BY <2>1, <2>3 DEF NonDecreasing
<1>3. CASE ~(n < 2 \/ s.dates[n - 1] < s.dates[n])
      <2>1. TailTrimmed(s).dates = t
            BY <1>3 DEF TailTrimmed
      <2>2. n - 1 \in 1..n
            BY <1>1, <1>3
      <2>3. Len(t) = n - 1
            BY <2>2, Removed DEF Fits
      <2>4. /\ \A j \in 1..(n - 1 - 1) : t[j] = s.dates[j]
            /\ \A j \in (n - 1)..(n - 1) : t[j] = s.dates[j + 1]
            BY <2>2, RemovedIs DEF Fits
      <2> HIDE DEF t
      <2>5. n >= 4
            BY <1>1, <2>1, <2>3
      <2>6. s.dates[n - 2] <= s.dates[n] /\ \A i \in 1..(n - 2) : s.dates[i] <= s.dates[i + 1]
            BY <2>5 DEF TrimOrders
      <2>7. t[n - 1] = s.dates[n] /\ t[n - 2] = s.dates[n - 2]
            BY <1>1, <2>4, <2>5
      <2>8. ASSUME NEW i \in 1..(n - 2)
            PROVE  t[i] <= t[i + 1]
            <3>1. CASE i = n - 2
                  <4>1. i + 1 = n - 1
                        BY <1>1, <3>1
                  <4>2. QED
                        BY <2>6, <2>7, <3>1, <4>1
            <3>2. CASE i # n - 2
                  <4>1. i \in 1..(n - 2) /\ i + 1 \in 1..(n - 1 - 1) /\ i \in 1..(n - 1 - 1)
                        BY <1>1, <3>2
                  <4>2. t[i] = s.dates[i] /\ t[i + 1] = s.dates[i + 1]
                        BY <2>4, <4>1
                  <4>3. QED
                        BY <2>6, <4>1, <4>2
            <3>3. QED
                  BY <3>1, <3>2
      <2>9. Len(t) - 1 = n - 2
            BY <1>1, <2>3
      <2>10. QED
            BY <2>1, <2>8, <2>9 DEF NonDecreasing
<1>4. QED
      BY <1>2, <1>3

LEMMA HeadSorts ==
    ASSUME NEW s, Fits(s), s.dates \in Seq(Int), Len(s.dates) >= 3 => NonDecreasing(s.dates),
           Len(HeadTrimmed(s).dates) > 1
    PROVE  NonDecreasing(HeadTrimmed(s).dates)
<1> DEFINE n == Len(s.dates)
           t == RemoveAt(s.dates, 2)
<1>1. n \in Nat /\ \A i \in 1..n : s.dates[i] \in Int
      OBVIOUS
<1>2. CASE n < 2 \/ s.dates[1] < s.dates[2]
      <2>1. HeadTrimmed(s) = s
            BY <1>2 DEF HeadTrimmed
      <2>2. n >= 2
            BY <1>1, <2>1
      <2>3. CASE n = 2
            <3>1. \A i \in 1..(n - 1) : i = 1 /\ i + 1 = 2
                  BY <2>3
            <3>2. s.dates[1] <= s.dates[2]
                  <4>1. s.dates[1] \in Int /\ s.dates[2] \in Int
                        BY <1>1, <2>3
                  <4>2. QED
                        BY <1>2, <2>3, <4>1
            <3>3. \A i \in 1..(n - 1) : s.dates[i] <= s.dates[i + 1]
                  BY <3>1, <3>2
            <3>4. QED
                  BY <2>1, <3>3 DEF NonDecreasing
      <2>4. CASE n # 2
            <3>1. n >= 3
                  <4>1. n \in Nat
                        BY <1>1
                  <4> HIDE DEF n
                  <4>2. QED
                        BY <2>2, <2>4, <4>1
            <3>2. NonDecreasing(s.dates)
                  BY <3>1
            <3>3. QED
                  BY <2>1, <3>2
      <2>5. QED
            BY <2>3, <2>4
<1>3. CASE ~(n < 2 \/ s.dates[1] < s.dates[2])
      <2>1. HeadTrimmed(s).dates = t
            BY <1>3 DEF HeadTrimmed
      <2>2. 2 \in 1..n
            BY <1>1, <1>3
      <2>3. Len(t) = n - 1
            BY <2>2, Removed DEF Fits
      <2>4. /\ \A j \in 1..(2 - 1) : t[j] = s.dates[j]
            /\ \A j \in 2..(n - 1) : t[j] = s.dates[j + 1]
            BY <2>2, RemovedIs DEF Fits
      <2> HIDE DEF t
      <2>5. n >= 3
            BY <1>1, <2>1, <2>3
      <2>6. \A i \in 1..(n - 1) : s.dates[i] <= s.dates[i + 1]
            BY <2>5 DEF NonDecreasing
      <2>7. ASSUME NEW i \in 1..(n - 2)
            PROVE  t[i] <= t[i + 1]
            <3>1. CASE i = 1
                  <4>1. t[1] = s.dates[1] /\ t[2] = s.dates[3]
                        BY <1>1, <2>4, <2>5
                  <4>2. s.dates[1] <= s.dates[2] /\ s.dates[2] <= s.dates[3]
                        BY <1>1, <2>5, <2>6
                  <4>3. s.dates[1] \in Int /\ s.dates[2] \in Int /\ s.dates[3] \in Int
                        BY <1>1, <2>5
                  <4>4. t[1] <= t[2]
                        BY <4>1, <4>2, <4>3
                  <4>5. QED
                        BY <3>1, <4>4
            <3>2. CASE i # 1
                  <4>1. i \in 2..(n - 1) /\ i + 1 \in 2..(n - 1) /\ i + 1 \in 1..(n - 1)
                        BY <1>1, <3>2
                  <4>2. t[i] = s.dates[i + 1] /\ t[i + 1] = s.dates[(i + 1) + 1]
                        BY <2>4, <4>1
                  <4>3. QED
                        BY <2>6, <4>1, <4>2
            <3>3. QED
                  BY <3>1, <3>2
      <2>8. Len(t) - 1 = n - 2
            BY <1>1, <2>3
      <2>9. QED
            BY <2>1, <2>7, <2>8 DEF NonDecreasing
<1>4. QED
      BY <1>2, <1>3

LEMMA TrimmingSorts ==
    ASSUME NEW s, Fits(s), s.dates \in Seq(Int), TrimOrders(s.dates),
           Len(HeadTrimmed(TailTrimmed(s)).dates) > 1
    PROVE  NonDecreasing(HeadTrimmed(TailTrimmed(s)).dates)
<1> DEFINE t == TailTrimmed(s)
<1>1. Fits(t)
      BY TailTrimmedFits
<1>2. t.dates \in Seq(Int)
      <2>1. CASE Len(s.dates) < 2 \/ s.dates[Len(s.dates) - 1] < s.dates[Len(s.dates)]
            BY <2>1 DEF TailTrimmed
      <2>2. CASE ~(Len(s.dates) < 2 \/ s.dates[Len(s.dates) - 1] < s.dates[Len(s.dates)])
            <3>1. t.dates = RemoveAt(s.dates, Len(s.dates) - 1)
                  BY <2>2 DEF TailTrimmed
            <3>2. Len(s.dates) - 1 \in 1..Len(s.dates)
                  BY <2>2
            <3> HIDE DEF t
            <3>3. QED
                  BY <3>1, <3>2, RemovedIsTyped
      <2>3. QED
            BY <2>1, <2>2
<1>3. Len(t.dates) >= 3 => NonDecreasing(t.dates)
      BY TailSorts
<1> HIDE DEF t
<1>4. Len(HeadTrimmed(t).dates) > 1 => NonDecreasing(HeadTrimmed(t).dates)
      BY <1>1, <1>2, <1>3, HeadSorts
<1>5. QED
      BY <1>4 DEF t

----------------------------------------------------------------------------
\* Standard dates: the twentieths, of every month or of the main ones.
Twentieth(k) == DayIn(k, 20)
Main(k) == (k + 1) % 3 = 0
OfRule(rule, k) == rule = "Twentieth" \/ Main(k)

LEMMA TwentiethIs ==
    ASSUME NEW k \in Int
    PROVE  /\ MonthStart(k) \in Int /\ LengthOf(k) \in 28..31
           /\ Twentieth(k) = MonthStart(k) + 19 /\ Twentieth(k) \in Int
           /\ Twentieth(k) + 28 <= Twentieth(k + 1) /\ Twentieth(k + 1) <= Twentieth(k) + 31
           /\ InRange(Twentieth(k)) => MonthNo(Twentieth(k)) = k
<1>1. MonthStart(k) \in Int /\ LengthOf(k) \in 28..31
      BY MonthsAre
<1>2. k + 1 \in Int /\ MonthStart(k + 1) = MonthStart(k) + LengthOf(k)
      BY MonthEnds
<1>3. LengthOf(k + 1) \in 28..31
      BY <1>2, MonthsAre
<1>4. Twentieth(k) = MonthStart(k) + 19 /\ Twentieth(k + 1) = MonthStart(k + 1) + 19
      BY <1>1, <1>2, <1>3 DEF Twentieth, DayIn, Smaller
<1>5. InRange(Twentieth(k)) => MonthNo(Twentieth(k)) = k
      <2>1. 20 \in 1..31
            OBVIOUS
      <2>2. QED
            BY <2>1, DayInIs DEF Twentieth
<1>6. QED
      BY <1>1, <1>2, <1>4, <1>5

LEMMA TwentiethsRise ==
    ASSUME NEW k \in Int, NEW l \in Int, k < l
    PROVE  Twentieth(k) + 28 <= Twentieth(l)
<1>1. 20 \in 1..31
      OBVIOUS
<1>2. QED
      BY <1>1, DaysRise DEF Twentieth

LEMMA TwentiethOfMonth ==
    ASSUME NEW d, InRange(d)
    PROVE  /\ DateOf(20, Month[d], Year[d]) = Twentieth(MonthNo(d))
           /\ MonthNo(d) \in Int /\ InRange(Twentieth(MonthNo(d)))
           /\ Twentieth(MonthNo(d)) - 19 <= d /\ d <= Twentieth(MonthNo(d)) + 11
<1> DEFINE m == Month[d]
           y == Year[d]
           k == MonthNo(d)
<1>1. /\ d \in Int /\ k \in Int /\ MonthStart(k) \in Int /\ LengthOf(k) \in 28..31
      /\ DayOfMonth[d] \in 1..LengthOf(k) /\ d = MonthStart(k) + DayOfMonth[d] - 1
      BY DayIs
<1>2. m \in 1..12 /\ y \in Int
      BY MonthIs, YearIs
<1>3. (k % 12) + 1 = m /\ k \div 12 = y
      <2>1. k = 12 * y + (m - 1) /\ m - 1 \in 0..11
            BY <1>2 DEF MonthNo
      <2> HIDE DEF k, m, y
      <2>2. QED
            BY <1>2, <2>1
<1>4. MonthStart(k) = DateOf(1, m, y)
      BY <1>3 DEF MonthStart
<1>5. MonthOffset(m, y) \in Int /\ YearOffset(y) \in Int
      BY <1>2, LengthIs, YearsRise
<1>6. Twentieth(k) = MonthStart(k) + 19 /\ Twentieth(k) \in Int
      BY <1>1, TwentiethIs
<1> HIDE DEF m, y, k
<1>7. DateOf(20, m, y) = Twentieth(k)
      BY <1>4, <1>5, <1>6 DEF DateOf
<1>8. InRange(Twentieth(k))
      <2>1. MonthStart(k) <= Twentieth(k) /\ Twentieth(k) < MonthStart(k) + LengthOf(k)
            BY <1>1, <1>6
      <2>2. QED
            BY <1>1, <1>6, <2>1, WholeMonths DEF k
<1>9. QED
      BY <1>1, <1>6, <1>7, <1>8 DEF m, y, k

LEMMA MonthsOn ==
    ASSUME NEW k \in Int, InRange(Twentieth(k)), NEW n \in Int
    PROVE  /\ AddMonths[n][Twentieth(k)] = Twentieth(k + n)
           /\ Month[Twentieth(k)] % 3 = (k + 1) % 3
<1>1. /\ MonthNo(Twentieth(k)) = k /\ DayOfMonth[Twentieth(k)] = 20
      <2>1. 20 \in 1..31 /\ LengthOf(k) \in 28..31
            BY TwentiethIs
      <2>2. Smaller(20, LengthOf(k)) = 20
            BY <2>1 DEF Smaller
      <2>3. QED
            BY <2>1, <2>2, DayInIs DEF Twentieth
<1>2. AddMonths[n][Twentieth(k)] = DayIn(k + n, 20)
      BY <1>1, AddMonthsIs
<1>3. Month[Twentieth(k)] = (k % 12) + 1
      BY <1>1, MonthOfNo
<1>4. ((k % 12) + 1) % 3 = (k + 1) % 3
      OBVIOUS
<1>5. QED
      BY <1>2, <1>3, <1>4 DEF Twentieth

\* The first standard date from a day on.
LEMMA NextIs ==
    ASSUME NEW rule, NEW d, Clear(d, 130)
    PROVE  \E l \in Int :
               /\ OfRule(rule, l) /\ NextTwentieth(d, rule) = Twentieth(l)
               /\ d <= Twentieth(l) /\ Twentieth(l) <= d + 130
               /\ \A j \in Int : j < l /\ OfRule(rule, j) => Twentieth(j) < d
<1> DEFINE k == MonthNo(d)
           t == Twentieth(k)
           q == IF t < d THEN k + 1 ELSE k
           n == Twentieth(q)
           u == (q + 1) % 3
           l == IF rule = "Twentieth" \/ u = 0 THEN q ELSE q + (3 - u)
<1>1. d \in Int /\ InRange(d)
      <2>1. d \in Int
            BY DEF Clear
      <2>2. d - 130 <= d /\ d <= d + 130
            BY <2>1
      <2>3. QED
            BY <2>1, <2>2, ClearIs
<1>2. /\ DateOf(20, Month[d], Year[d]) = t /\ k \in Int /\ InRange(t)
      /\ t - 19 <= d /\ d <= t + 11
      BY <1>1, TwentiethOfMonth
<1>3. /\ t \in Int /\ t + 28 <= Twentieth(k + 1) /\ Twentieth(k + 1) <= t + 31
      /\ Twentieth(k + 1) \in Int
      BY <1>2, TwentiethIs
<1>4. AddMonths[1][t] = Twentieth(k + 1)
      BY <1>2, MonthsOn
<1> HIDE DEF k
<1>5. /\ q \in Int /\ n \in Int /\ d <= n /\ n <= d + 30
      /\ (IF t < d THEN AddMonths[1][t] ELSE t) = n
      BY <1>1, <1>2, <1>3, <1>4
<1>6. InRange(n)
      <2>1. d - 130 <= n /\ n <= d + 130
            BY <1>1, <1>5
      <2>2. QED
            BY <1>5, <2>1, ClearIs
<1>7. \A j \in Int : j < q => Twentieth(j) < d
      <2> TAKE j \in Int
      <2> HAVE j < q
      <2>1. Twentieth(j) \in Int
            BY TwentiethIs
      <2>2. CASE t < d
            <3>1. j = k \/ j < k
                  BY <1>2, <2>2
            <3>2. j < k => Twentieth(j) + 28 <= t
                  BY <1>2, TwentiethsRise
            <3>3. QED
                  BY <1>1, <1>3, <2>1, <2>2, <3>1, <3>2
      <2>3. CASE ~(t < d)
            <3>1. Twentieth(j) + 28 <= t
                  BY <1>2, <2>3, TwentiethsRise
            <3>2. QED
                  BY <1>1, <1>2, <1>3, <2>1, <3>1
      <2>4. QED
            BY <2>2, <2>3
<1>8. /\ \A i \in Int : AddMonths[i][n] = Twentieth(q + i)
      /\ Month[n] % 3 = u
      <2>1. \A i \in Int : AddMonths[i][Twentieth(q)] = Twentieth(q + i)
            BY <1>5, <1>6, MonthsOn
      <2>2. Month[Twentieth(q)] % 3 = (q + 1) % 3
            <3>1. 0 \in Int
                  OBVIOUS
            <3>2. QED
                  BY <1>5, <1>6, <3>1, MonthsOn
      <2>3. QED
            BY <2>1, <2>2
<1> HIDE DEF t, n
<1>9. u \in 0..2 /\ l \in Int /\ q <= l /\ l <= q + 2
      BY <1>5
<1>10. NextTwentieth(d, rule) = Twentieth(l)
      <2>1. NextTwentieth(d, rule) =
                IF rule = "Twentieth" \/ Month[n] % 3 = 0 THEN n
                ELSE AddMonths[3 - (Month[n] % 3)][n]
            BY <1>2, <1>5 DEF NextTwentieth
      <2>2. 3 - u \in Int
            BY <1>9
      <2>3. QED
            BY <1>8, <2>1, <2>2 DEF n
<1>11. OfRule(rule, l)
      <2>1. rule # "Twentieth" => (l + 1) % 3 = 0
            BY <1>5
      <2>2. QED
            BY <2>1 DEF OfRule, Main
<1>12. n <= Twentieth(l) /\ Twentieth(l) <= n + 62 /\ Twentieth(l) \in Int
      <2>1. Twentieth(q) \in Int /\ Twentieth(q + 1) <= Twentieth(q) + 31
            BY <1>5, TwentiethIs
      <2>2. Twentieth(q + 1) \in Int /\ Twentieth((q + 1) + 1) <= Twentieth(q + 1) + 31
            <3>1. q + 1 \in Int
                  BY <1>5
            <3>2. QED
                  BY <3>1, TwentiethIs
      <2>3. (q + 1) + 1 = q + 2
            BY <1>5
      <2>4. l \in {q, q + 1, q + 2}
            BY <1>5, <1>9
      <2>5. Twentieth(l) \in Int /\ (q < l => Twentieth(q) + 28 <= Twentieth(l))
            BY <1>5, <1>9, TwentiethIs, TwentiethsRise
      <2> HIDE DEF l, q
      <2>6. Twentieth(q) <= Twentieth(l)
            BY <1>5, <1>9, <2>1, <2>5
      <2>7. Twentieth(l) <= Twentieth(q) + 62
            <3>1. Twentieth(q + 2) <= Twentieth(q + 1) + 31
                  BY <2>2, <2>3
            <3>2. CASE l = q
                  BY <2>1, <3>2
            <3>3. CASE l = q + 1
                  BY <2>1, <2>2, <3>3
            <3>4. CASE l = q + 2
                  BY <2>1, <2>2, <2>5, <3>1, <3>4
            <3>5. QED
                  BY <2>4, <3>2, <3>3, <3>4
      <2>8. QED
            BY <2>5, <2>6, <2>7 DEF n
<1>13. \A j \in Int : j < l /\ OfRule(rule, j) => j < q
      <2> TAKE j \in Int
      <2> HAVE j < l /\ OfRule(rule, j)
      <2>1. CASE rule = "Twentieth"
            BY <2>1
      <2>2. CASE rule # "Twentieth"
            <3>1. (j + 1) % 3 = 0
                  BY <2>2 DEF OfRule, Main
            <3>2. QED
                  BY <1>5, <2>2, <3>1
      <2>3. QED
            BY <2>1, <2>2
<1> HIDE DEF l, q
<1>14. d <= Twentieth(l) /\ Twentieth(l) <= d + 130
      BY <1>1, <1>5, <1>12
<1>15. \A j \in Int : j < l /\ OfRule(rule, j) => Twentieth(j) < d
      BY <1>7, <1>13
<1>16. QED
      BY <1>9, <1>10, <1>11, <1>14, <1>15

\* The last standard date up to a day.
LEMMA PreviousIs ==
    ASSUME NEW rule, NEW d, Clear(d, 130)
    PROVE  \E l \in Int :
               /\ OfRule(rule, l) /\ PreviousTwentieth(d, rule) = Twentieth(l)
               /\ Twentieth(l) <= d /\ d <= Twentieth(l) + 130
<1> DEFINE k == MonthNo(d)
           t == Twentieth(k)
           q == IF t > d THEN k - 1 ELSE k
           p == Twentieth(q)
           u == (q + 1) % 3
           l == IF rule = "Twentieth" THEN q ELSE q - u
<1>1. d \in Int /\ InRange(d)
      <2>1. d \in Int
            BY DEF Clear
      <2>2. d - 130 <= d /\ d <= d + 130
            BY <2>1
      <2>3. QED
            BY <2>1, <2>2, ClearIs
<1>2. /\ DateOf(20, Month[d], Year[d]) = t /\ k \in Int /\ InRange(t)
      /\ t - 19 <= d /\ d <= t + 11
      BY <1>1, TwentiethOfMonth
<1>3. \A i \in Int : Twentieth(i) \in Int /\ Twentieth(i - 1) + 28 <= Twentieth(i)
                     /\ Twentieth(i) <= Twentieth(i - 1) + 31
      <2> TAKE i \in Int
      <2>1. i - 1 \in Int /\ (i - 1) + 1 = i
            OBVIOUS
      <2>2. QED
            BY <2>1, TwentiethIs
<1>4. AddMonths[-1][t] = Twentieth(k - 1)
      <2>1. -1 \in Int /\ k + (-1) = k - 1
            BY <1>2
      <2>2. AddMonths[-1][t] = Twentieth(k + (-1))
            BY <1>2, <2>1, MonthsOn
      <2>3. QED
            BY <2>1, <2>2
<1>5. k - 1 \in Int
      BY <1>2
<1> HIDE DEF k
<1>6. /\ q \in Int /\ p \in Int /\ p <= d /\ d <= p + 31 + 11
      /\ (IF t > d THEN AddMonths[-1][t] ELSE t) = p
      BY <1>1, <1>2, <1>3, <1>4, <1>5
<1>7. InRange(p)
      <2>1. d - 130 <= p /\ p <= d + 130
            BY <1>1, <1>6
      <2>2. QED
            BY <1>6, <2>1, ClearIs
<1>8. /\ \A i \in Int : AddMonths[i][p] = Twentieth(q + i)
      /\ Month[p] % 3 = u
      <2>1. \A i \in Int : AddMonths[i][Twentieth(q)] = Twentieth(q + i)
            BY <1>6, <1>7, MonthsOn
      <2>2. Month[Twentieth(q)] % 3 = (q + 1) % 3
            <3>1. 0 \in Int
                  OBVIOUS
            <3>2. QED
                  BY <1>6, <1>7, <3>1, MonthsOn
      <2>3. QED
            BY <2>1, <2>2
<1> HIDE DEF t, p
<1>9. u \in 0..2 /\ l \in Int /\ l <= q /\ q <= l + 2 /\ -u \in Int
      BY <1>6
<1>10. PreviousTwentieth(d, rule) = Twentieth(l)
      <2>1. PreviousTwentieth(d, rule) =
                IF rule = "Twentieth" THEN p ELSE AddMonths[-(Month[p] % 3)][p]
            BY <1>2, <1>6 DEF PreviousTwentieth
      <2>2. q + (-u) = q - u
            BY <1>6, <1>9
      <2>3. QED
            BY <1>8, <1>9, <2>1, <2>2 DEF p
<1>11. OfRule(rule, l)
      <2>1. rule # "Twentieth" => (l + 1) % 3 = 0
            BY <1>6
      <2>2. QED
            BY <2>1 DEF OfRule, Main
<1>12. Twentieth(l) <= p /\ p <= Twentieth(l) + 62 /\ Twentieth(l) \in Int
      <2>1. Twentieth(q) <= Twentieth(q - 1) + 31 /\ Twentieth(q - 1) + 28 <= Twentieth(q)
            BY <1>3, <1>6
      <2>2. q - 1 \in Int /\ (q - 1) - 1 = q - 2 /\ q - 2 \in Int
            BY <1>6
      <2>3. /\ Twentieth(q - 1) <= Twentieth((q - 1) - 1) + 31
            /\ Twentieth((q - 1) - 1) + 28 <= Twentieth(q - 1)
            BY <1>3, <2>2
      <2>4. l \in {q, q - 1, q - 2}
            BY <1>6, <1>9
      <2>5. Twentieth(q) \in Int /\ Twentieth(q - 1) \in Int /\ Twentieth(q - 2) \in Int
            BY <1>3, <1>6, <2>2
      <2> HIDE DEF l, q
      <2>6. QED
            BY <2>1, <2>2, <2>3, <2>4, <2>5 DEF p
<1> HIDE DEF l, q
<1>13. Twentieth(l) <= d /\ d <= Twentieth(l) + 130
      BY <1>1, <1>6, <1>12
<1>14. QED
      BY <1>9, <1>10, <1>11, <1>13

----------------------------------------------------------------------------
\* That a schedule by standard dates covers what was asked for.

\* Rolling what is rolled changes nothing.
LEMMA AdjustTwice ==
    ASSUME NoLongHolidays, NEW c \in Conventions, NEW d \in Int
    PROVE  Adjust[c][Adjust[c][d]] = Adjust[c][d]
<1> DEFINE x == Adjust[c][d]
<1>1. x \in Int
      BY AdjustWithin
<1>2. CASE c = "Unadjusted"
      BY <1>1, <1>2, AdjustWithin
<1>3. CASE c # "Unadjusted"
      <2>1. IsBusinessDay(x)
            BY <1>3, AdjustRolls
      <2> HIDE DEF x
      <2>2. /\ Following[x] \in Int /\ x <= Following[x]
            /\ \A f \in x..(Following[x] - 1) : ~IsBusinessDay(f)
            BY <1>1, FollowingIs
      <2>3. /\ Preceding[x] \in Int /\ Preceding[x] <= x
            /\ \A f \in (Preceding[x] + 1)..x : ~IsBusinessDay(f)
            BY <1>1, PrecedingIs
      <2>4. Following[x] = x /\ Preceding[x] = x
            <3>1. x < Following[x] => x \in x..(Following[x] - 1)
                  BY <1>1, <2>2
            <3>2. Preceding[x] < x => x \in (Preceding[x] + 1)..x
                  BY <1>1, <2>3
            <3>3. ~(x < Following[x]) /\ ~(Preceding[x] < x)
                  BY <2>1, <2>2, <2>3, <3>1, <3>2
            <3>4. QED
                  BY <1>1, <2>2, <2>3, <3>3
      <2>5. Adjust[c][x] \in {Preceding[x], Following[x]}
            BY <1>1, <1>3, AdjustWithin
      <2>6. QED
            BY <2>4, <2>5 DEF x
<1>4. QED
      BY <1>2, <1>3

LEMMA ClearIsRoomy ==
    ASSUME NEW m \in Nat, m >= 31, NEW d, Clear(d, m)
    PROVE  Roomy(d)
BY DEF Clear, Roomy

\* Where a schedule by standard dates opens: before the start, or on it.
StartsWell(r, s) ==
    IF r.rule \in CDSRules THEN Adjust[r.convention][s.dates[1]] <= r.effective
    ELSE s.dates[1] = r.effective

LEMMA OpeningIs ==
    ASSUME NoLongHolidays, ShortHolidays, NEW r \in Request, r.rule \in CDSRules,
           Clear(r.effective, 366)
    PROVE  \E l \in Int :
               /\ Main(l) /\ Twentieth(l) <= r.effective /\ r.effective <= Twentieth(l) + 130
               /\ \/ /\ Opening(r).dates = <<Twentieth(l)>>
                     /\ Adjust[r.convention][Twentieth(l)] <= r.effective
                  \/ /\ Opening(r).dates = <<Twentieth(l - 3), Twentieth(l)>>
                     /\ Adjust[r.convention][Twentieth(l - 3)] <= r.effective
                     /\ Twentieth(l - 3) + 28 <= Twentieth(l)
<1> DEFINE d == r.effective
           c == r.convention
           p == PreviousTwentieth(d, r.rule)
<1>1. d \in Int /\ Clear(d, 130) /\ c \in Conventions
      BY DEF Clear, Request
<1>2. PICK l \in Int : /\ OfRule(r.rule, l) /\ p = Twentieth(l)
                       /\ Twentieth(l) <= d /\ d <= Twentieth(l) + 130
      BY <1>1, PreviousIs
<1>3. Main(l)
      BY <1>2 DEF OfRule, CDSRules
<1>4. /\ l - 3 \in Int /\ Twentieth(l) \in Int /\ Twentieth(l - 3) \in Int
      /\ Twentieth(l - 3) + 28 <= Twentieth(l)
      <2>1. l - 3 \in Int /\ l - 3 < l
            OBVIOUS
      <2>2. QED
            BY <2>1, TwentiethIs, TwentiethsRise
<1>5. InRange(Twentieth(l))
      <2>1. d - 366 <= Twentieth(l) /\ Twentieth(l) <= d + 366
            BY <1>1, <1>2, <1>4
      <2>2. QED
            BY <1>4, <2>1, ClearIs
<1>6. AddMonths[-3][Twentieth(l)] = Twentieth(l - 3)
      <2>1. -3 \in Int /\ l + (-3) = l - 3
            OBVIOUS
      <2>2. AddMonths[-3][Twentieth(l)] = Twentieth(l + (-3))
            BY <1>5, <2>1, MonthsOn
      <2>3. QED
            BY <2>1, <2>2
<1>7. Adjust[c][Twentieth(l)] \in Int
      BY <1>1, <1>4, AdjustWithin
<1>8. Adjust[c][Twentieth(l - 3)] <= d
      <2>1. /\ Adjust[c][Twentieth(l - 3)] \in Int
            /\ Adjust[c][Twentieth(l - 3)] <= Twentieth(l - 3) + Horizon
            BY <1>1, <1>4, AdjustRolls
      <2>2. Horizon \in Nat /\ Horizon <= 8
            BY HorizonAssumption DEF ShortHolidays
      <2>3. QED
            BY <1>1, <1>2, <1>4, <2>1, <2>2
<1>9. Opening(r) = IF Adjust[c][p] > d
                   THEN [dates |-> <<AddMonths[-3][p], p>>, flags |-> <<TRUE>>]
                   ELSE [dates |-> <<p>>, flags |-> <<>>]
      BY DEF Opening
<1> HIDE DEF p
<1>10. CASE Adjust[c][p] > d
      <2>1. Opening(r).dates = <<Twentieth(l - 3), Twentieth(l)>>
            BY <1>2, <1>6, <1>9, <1>10
      <2>2. QED
            BY <1>2, <1>3, <1>4, <1>8, <2>1
<1>11. CASE ~(Adjust[c][p] > d)
      <2>1. Opening(r).dates = <<Twentieth(l)>>
            BY <1>2, <1>9, <1>11
      <2>2. Adjust[c][Twentieth(l)] <= d
            BY <1>1, <1>2, <1>7, <1>11
      <2>3. QED
            BY <1>2, <1>3, <2>1, <2>2
<1>12. QED
      BY <1>10, <1>11

LEMMA StartsByStandard ==
    ASSUME NoLongHolidays, ShortHolidays, NEW r \in Request, Accepted(r),
           r.rule \in Twentieths, Clear(r.effective, 366)
    PROVE  StartsWell(r, FromTheStart(r))
<1>1. ~Given(r.first)
      BY DEF Accepted, StubAccepted, Twentieths
<1>2. FromTheStart(r) = Opening(r) \/ FromTheStart(r) = Extended(Opening(r), FirstTwentieth(r), r.rule \in CDSRules)
      BY <1>1 DEF FromTheStart
<1>3. Fits(Opening(r))
      BY OpeningFits
<1>4. FromTheStart(r).dates[1] = Opening(r).dates[1]
      <2>1. Sequential(Opening(r).dates) /\ Len(Opening(r).dates) >= 1
            BY <1>3 DEF Fits
      <2>2. \A e : Append(Opening(r).dates, e)[1] = Opening(r).dates[1]
            BY <2>1, EndsAre
      <2>3. FromTheStart(r).dates \in
                {Opening(r).dates, Append(Opening(r).dates, FirstTwentieth(r))}
            BY <1>2 DEF Extended
      <2>4. QED
            BY <2>2, <2>3
<1>5. CASE r.rule \in CDSRules
      <2>1. Adjust[r.convention][Opening(r).dates[1]] <= r.effective
            BY <1>5, OpeningIs
      <2>2. QED
            BY <1>4, <1>5, <2>1 DEF StartsWell
<1>6. CASE r.rule \notin CDSRules
      <2>1. Opening(r).dates = <<r.effective>>
            BY <1>6 DEF Opening
      <2>2. QED
            BY <1>4, <1>6, <2>1 DEF StartsWell
<1>7. QED
      BY <1>5, <1>6

\* The dates asked for, and those of a schedule under construction, have a year on
\* either side within the library's.
DatesWithin ==
    phase \in {"generate", "roll"} =>
        /\ Clear(request.effective, 366) /\ Clear(request.termination, 366)
        /\ \A i \in 1..Len(schedule.dates) : Clear(schedule.dates[i], 366)

StandardInv ==
    request.rule \in Twentieths =>
        /\ phase \in {"generate", "roll"} => StartsWell(request, schedule)
        /\ phase = "roll" => Adjust[request.endConvention][request.termination]
                                 <= Adjust[request.endConvention][Last(schedule.dates)]
        /\ phase = "trim" /\ Len(schedule.dates) > 1 => Covers(request, schedule.dates)

LEMMA ClosesByStandard ==
    ASSUME NoLongHolidays, ShortHolidays, NEW r \in Request, Accepted(r),
           r.rule \in Twentieths, Clear(r.termination, 366), NEW s, Fits(s)
    PROVE  /\ ClosedForward(r, s).dates[1] = s.dates[1]
           /\ Adjust[r.endConvention][r.termination]
                  <= Adjust[r.endConvention][Last(ClosedForward(r, s).dates)]
<1> DEFINE d == r.termination
           e == r.endConvention
           x == NextTwentieth(d, r.rule)
<1>1. ~Given(r.nextToLast)
      BY DEF Accepted, StubAccepted, Twentieths
<1>2. ClosedForward(r, s) = IF Adjust[e][Last(s.dates)] = Adjust[e][d] THEN s
                            ELSE Extended(s, x, TRUE)
      BY <1>1 DEF ClosedForward
<1>3. d \in Int /\ Clear(d, 130) /\ e \in Conventions
      BY DEF Clear, Request
<1>4. PICK l \in Int : x = Twentieth(l) /\ d <= Twentieth(l) /\ Twentieth(l) <= d + 130
      BY <1>3, NextIs
<1>5. x \in Int /\ d <= x /\ Clear(x, 31)
      BY <1>3, <1>4, TwentiethIs DEF Clear
<1>6. Roomy(d) /\ Roomy(x)
      BY <1>5, ClearIsRoomy
<1>7. Adjust[e][d] <= Adjust[e][x] /\ Adjust[e][d] \in Int
      BY <1>3, <1>5, <1>6, AdjustRises, AdjustWithin
<1> HIDE DEF x, d, e
<1>8. CASE Adjust[e][Last(s.dates)] = Adjust[e][d]
      BY <1>2, <1>7, <1>8 DEF d, e
<1>9. CASE Adjust[e][Last(s.dates)] # Adjust[e][d]
      <2>1. ClosedForward(r, s).dates = Append(s.dates, x)
            BY <1>2, <1>9 DEF Extended
      <2>2. Append(s.dates, x)[1] = s.dates[1] /\ Last(Append(s.dates, x)) = x
            BY EndsAre DEF Fits
      <2>3. QED
            BY <1>7, <2>1, <2>2 DEF d, e
<1>10. QED
      BY <1>8, <1>9

LEMMA RollsByStandard ==
    ASSUME NoLongHolidays, NEW r \in Request, r.rule \in Twentieths, NEW s, Fits(s),
           \A i \in 1..Len(s.dates) : Clear(s.dates[i], 366), StartsWell(r, s),
           Adjust[r.endConvention][r.termination] <= Adjust[r.endConvention][Last(s.dates)],
           Len(s.dates) > 1
    PROVE  Covers(r, RolledDates(r, s.dates))
<1> DEFINE n == Len(s.dates)
           e == r.endConvention
           first == s.dates[1]
           last == s.dates[n]
           ds == RolledDates(r, s.dates)
<1>1. n \in Nat /\ n > 1 /\ n \in 1..n
      BY LenIsNat DEF Fits
<1>2. \A i \in 1..n : Snapped(r, n, i, s.dates[i]) = s.dates[i]
      BY DEF Snapped, Twentieths
<1>3. /\ Len(ds) = n
      /\ ds[1] = IF r.rule = "OldCDS" THEN first ELSE Adjust[r.convention][first]
      /\ ds[n] = IF r.rule \in CDSRules THEN last ELSE Adjust[e][last]
      BY <1>1, <1>2 DEF RolledDates
<1>4. last \in Int /\ e \in Conventions
      BY <1>1 DEF Clear, Request
<1>5. Last(ds) = ds[n] /\ Last(s.dates) = last
      BY <1>3 DEF Last
<1> HIDE DEF ds, last, e, first
<1>6. Adjust[e][Last(ds)] = Adjust[e][last]
      <2>1. Adjust[e][Adjust[e][last]] = Adjust[e][last]
            BY <1>4, AdjustTwice
      <2>2. QED
            BY <1>3, <1>5, <2>1
<1>7. Adjust[e][r.termination] <= Adjust[e][Last(ds)]
      BY <1>5, <1>6 DEF e
<1>8. Adjust[e][Last(ds)] >= Adjust[e][r.termination]
      <2>1. Adjust[e][Last(ds)] \in Int /\ Adjust[e][r.termination] \in Int
            <3>1. r.termination \in Int
                  BY DEF Request, Date
            <3>2. QED
                  BY <1>4, <1>6, <3>1, AdjustWithin
      <2>2. QED
            BY <1>7, <2>1
<1>9. CASE r.rule \in CDSRules
      <2>1. ds[1] = Adjust[r.convention][first] /\ Adjust[r.convention][first] <= r.effective
            BY <1>3, <1>9 DEF StartsWell, CDSRules, first
      <2>2. QED
            BY <1>8, <1>9, <2>1 DEF Covers, Twentieths, CDSRules, ds, e
<1>10. CASE r.rule \notin CDSRules
      <2>1. first = r.effective
            BY <1>10 DEF StartsWell, first
      <2>2. QED
            BY <1>3, <1>8, <1>10, <2>1 DEF Covers, Twentieths, CDSRules, ds, e
<1>11. QED
      BY <1>9, <1>10

LEMMA StandardStep ==
    RequestInv /\ FlagsInv /\ NoLongHolidays /\ ShortHolidays /\ DatesWithin /\ DatesWithin'
        /\ StandardInv /\ [Next]_vars => StandardInv'
<1> SUFFICES ASSUME RequestInv, FlagsInv, NoLongHolidays, ShortHolidays, DatesWithin,
                    DatesWithin', StandardInv, [Next]_vars
             PROVE  StandardInv'
    OBVIOUS
<1>1. ASSUME NEW args \in Requests, New(args)
      PROVE  StandardInv'
      <2> DEFINE r == Normalised(args)
      <2>1. /\ request' = r /\ UNCHANGED <<added, removed>>
            /\ IF Accepted(r) THEN NewStarts(r) ELSE phase' = "refused"
            BY <1>1 DEF New, calendarVars
      <2>2. r \in Request
            BY <1>1, <2>1, RequestStep DEF RequestInv
      <2> HIDE DEF r
      <2>3. CASE ~Accepted(r)
            BY <2>1, <2>3 DEF StandardInv
      <2>4. CASE r.rule \notin Twentieths
            BY <2>1, <2>4 DEF StandardInv
      <2>5. CASE Accepted(r) /\ r.rule \in Twentieths
            <3>1. phase' = "generate" /\ schedule' = FromTheStart(r)
                  BY <2>1, <2>5 DEF NewStarts, Twentieths
            <3>2. Clear(r.effective, 366)
                  BY <2>1, <3>1 DEF DatesWithin
            <3>3. StartsWell(r, schedule')
                  BY <2>2, <2>5, <3>1, <3>2, StartsByStandard
            <3>4. StartsWell(request, schedule)'
                  BY <2>1, <3>3, AdjustStays DEF StartsWell
            <3>5. QED
                  BY <3>1, <3>4 DEF StandardInv
      <2>6. QED
            BY <2>3, <2>4, <2>5
<1>2. ASSUME Generate, request.rule \in Twentieths
      PROVE  StandardInv'
      <2>1. /\ phase = "generate" /\ phase' = phase /\ UNCHANGED <<request, added, removed>>
            /\ schedule' = Later(schedule, Candidate, TRUE, request.convention)
            /\ Fits(schedule) /\ StartsWell(request, schedule)
            BY <1>2 DEF Generate, FlagsInv, StandardInv, Twentieths, calendarVars
      <2>2. schedule'.dates[1] = schedule.dates[1]
            <3>1. Fits(schedule)
                  BY <2>1
            <3>2. \A d, flag, c : Later(schedule, d, flag, c).dates[1] = schedule.dates[1]
                  BY <3>1, LaterEnds
            <3>3. \A d, flag, c : schedule' = Later(schedule, d, flag, c)
                                    => schedule'.dates[1] = schedule.dates[1]
                  BY <3>2
            <3>4. QED
                  BY <2>1, <3>3
      <2>3. StartsWell(request, schedule)'
            BY <2>1, <2>2, AdjustStays DEF StartsWell
      <2>4. QED
            BY <2>1, <2>3 DEF StandardInv
<1>3. ASSUME Close, request.rule \in Twentieths
      PROVE  StandardInv'
      <2>1. /\ phase = "generate" /\ phase' = "roll" /\ UNCHANGED <<request, added, removed>>
            /\ schedule' = ClosedForward(request, schedule)
            /\ Fits(schedule) /\ StartsWell(request, schedule)
            /\ request \in Request /\ Accepted(request) /\ Clear(request.termination, 366)
            BY <1>3 DEF Close, FlagsInv, RequestInv, StandardInv, Twentieths, calendarVars,
                        DatesWithin
      <2>2. /\ schedule'.dates[1] = schedule.dates[1]
            /\ Adjust[request.endConvention][request.termination]
                   <= Adjust[request.endConvention][Last(schedule'.dates)]
            BY <1>3, <2>1, ClosesByStandard
      <2>3. StartsWell(request, schedule)'
            BY <2>1, <2>2, AdjustStays DEF StartsWell
      <2>4. (Adjust[request.endConvention][request.termination]
                   <= Adjust[request.endConvention][Last(schedule.dates)])'
            BY <2>1, <2>2, AdjustStays DEF Last
      <2>5. QED
            BY <2>1, <2>3, <2>4 DEF StandardInv
<1>4. ASSUME Roll, request.rule \in Twentieths
      PROVE  StandardInv'
      <2> DEFINE es == RolledDates(request, schedule.dates)
      <2>1. /\ phase = "roll" /\ phase' = "trim" /\ UNCHANGED <<request, added, removed>>
            /\ Fits(schedule) /\ StartsWell(request, schedule) /\ request \in Request
            /\ Adjust[request.endConvention][request.termination]
                   <= Adjust[request.endConvention][Last(schedule.dates)]
            BY <1>4 DEF Roll, FlagsInv, RequestInv, StandardInv, calendarVars
      <2>2. \A i \in 1..Len(schedule.dates) : Clear(schedule.dates[i], 366)
            BY <2>1 DEF DatesWithin
      <2>3. schedule'.dates = es
            BY <1>4, <2>1 DEF Roll, Fits
      <2>4. Len(es) = Len(schedule.dates)
            BY <2>1, LenIsNat DEF RolledDates, Fits
      <2>5. Len(es) > 1 => Covers(request, es)
            BY <1>4, <2>1, <2>2, <2>4, RollsByStandard
      <2> HIDE DEF es
      <2>6. Len(schedule'.dates) > 1 => Covers(request, schedule.dates)'
            BY <2>1, <2>3, <2>5, AdjustStays DEF Covers, Last
      <2>7. QED
            BY <2>1, <2>6 DEF StandardInv
<1>5. ASSUME phase' \notin {"generate", "roll", "trim"}
      PROVE  StandardInv'
      BY <1>5 DEF StandardInv
<1>6. ASSUME UNCHANGED vars
      PROVE  StandardInv'
      <2>1. UNCHANGED <<added, removed, phase, request, schedule>>
            BY <1>6 DEF vars, builder, calendarVars
      <2>2. Adjust' = Adjust
            BY <2>1, AdjustStays
      <2>3. QED
            BY <2>1, <2>2 DEF StandardInv, StartsWell, Covers, Last
<1>7. ASSUME request.rule \notin Twentieths, UNCHANGED request
      PROVE  StandardInv'
      BY <1>7 DEF StandardInv
<1>8. QED
      BY <1>1, <1>2, <1>3, <1>4, <1>5, <1>6, <1>7
         DEF Next, ProgramStep, WithMetadata, Generate, Close, Roll, Trim,
             After, Until, Cutting, EditHolidays, builder

LEMMA WithinIsInRange == DatesWithin => DatesInRange
<1>1. \A d : Clear(d, 366) => InRange(d)
      BY DEF Clear, InRange
<1>2. QED
      BY <1>1 DEF DatesWithin, DatesInRange

\* CoversWhatWasAsked for any market, arguments and overrides, and every rule: those of
\* the twentieths besides, whose first date does not roll past the start and whose
\* last is the first standard date from the end on (Schedule::new, previous_twentieth,
\* next_twentieth).
THEOREM EveryRuleCovers ==
    ASSUME ShortHolidays
    PROVE  Spec /\ []NoLongHolidays /\ []DatesWithin => CoversWhatWasAsked
<1>1. FlagsInv /\ CoverInv /\ StandardInv /\ [Next]_vars =>
          [phase = "trim" /\ Ready' => Covers(request, schedule'.dates)]_vars
      <2> SUFFICES ASSUME FlagsInv, CoverInv, StandardInv, Next, phase = "trim", Ready'
                   PROVE  Covers(request, schedule'.dates)
          OBVIOUS
      <2>1. Trim
            BY DEF Next, ProgramStep, New, WithMetadata, Generate, Close, Roll, Trim,
                   After, Until, Cutting, EditHolidays, Ready, builder
      <2>2. schedule' = HeadTrimmed(TailTrimmed(schedule)) /\ Len(schedule'.dates) > 1
            BY <2>1 DEF Trim, Ready
      <2>3. /\ Len(schedule.dates) > 1
            /\ schedule'.dates[1] = schedule.dates[1]
            /\ Last(schedule'.dates) = Last(schedule.dates)
            BY <2>2, TrimmingThins DEF Thinned, FlagsInv
      <2>4. Covers(request, schedule.dates)
            BY <2>3 DEF CoverInv, StandardInv
      <2>5. QED
            BY <2>3, <2>4 DEF Covers
<1>2. Init => RequestInv /\ FlagsInv /\ CoverInv /\ StandardInv
      BY RequestInit, FlagsInit DEF Init, CoverInv, StandardInv
<1>3. RequestInv /\ FlagsInv /\ NoLongHolidays /\ DatesWithin /\ DatesWithin' /\ CoverInv
          /\ StandardInv /\ [Next]_vars => RequestInv' /\ FlagsInv' /\ CoverInv' /\ StandardInv'
      BY RequestStep, FlagsStep, CoverStep, StandardStep, WithinIsInRange
<1>4. QED
      BY <1>1, <1>2, <1>3, PTL DEF Spec, CoversWhatWasAsked

----------------------------------------------------------------------------
\* The dates of the loop, each so many tenors from its seed, lie in order.
Reckoned(r, s, x, n) == InRange(Advance(s, Times(n, r.tenor))) /\ x = Away(r, s, n)

LEMMA DaysAway ==
    ASSUME NEW r \in Request, r.tenor.units = "Days", NEW s \in Int, NEW n \in Int
    PROVE  /\ Away(r, s, n) = s + n * r.tenor.length
           /\ Advance(s, Times(n, r.tenor)) = s + n * r.tenor.length
<1>1. r.tenor \in Period
      BY DEF Request
<1>2. Times(n, r.tenor).units = "Days" /\ Times(n, r.tenor).length = n * r.tenor.length
      BY <1>1 DEF Times, Period
<1>3. Advance(s, Times(n, r.tenor)) = s + n * r.tenor.length
      BY <1>2 DEF Advance
<1>4. QED
      BY <1>2, <1>3 DEF Away, AdvanceFreely

LEMMA TenorsAre ==
    ASSUME NEW r \in Request, r.tenor.length >= 1
    PROVE  r.tenor.length \in Int /\ (r.tenor.units \in {"Days", "Weeks"} \/ Monthly(r))
BY DEF Request, Period, Units, Monthly

LEMMA ReckonedSeed ==
    ASSUME NEW r \in Request, r.tenor.length >= 1, NEW s, InRange(s)
    PROVE  Reckoned(r, s, s, 0)
<1>1. s \in Int /\ r.tenor.length \in Int
      BY InRangeIsInt, TenorsAre
<1>2. CASE r.tenor.units = "Days"
      <2>1. 0 \in Int /\ s + 0 * r.tenor.length = s
            BY <1>1
      <2>2. Away(r, s, 0) = s /\ Advance(s, Times(0, r.tenor)) = s
            BY <1>1, <1>2, <2>1, DaysAway
      <2>3. QED
            BY <2>2 DEF Reckoned
<1>3. CASE r.tenor.units # "Days"
      BY <1>3, NoneAway DEF Reckoned, Stepping
<1>4. QED
      BY <1>2, <1>3

LEMMA ReckonedIs ==
    ASSUME NEW r \in Request, Monthly(r), NEW s, InRange(s), NEW n \in Int, NEW x,
           Reckoned(r, s, x, n)
    PROVE  /\ x = DayIn(MonthNo(s) + n * Stride(r), Wanted(r, s))
           /\ MonthNo(s) + n * Stride(r) \in Int /\ Wanted(r, s) \in 1..31 /\ x \in Int
           /\ InRange(x) => MonthNo(x) = MonthNo(s) + n * Stride(r)
<1> DEFINE k == MonthNo(s) + n * Stride(r)
           j == Wanted(r, s)
<1>1. Stride(r) \in Int /\ MonthNo(s) \in Int /\ j \in 1..31
      BY AdvanceIs
<1>2. k \in Int
      <2>1. n * Stride(r) \in Int
            BY <1>1
      <2>2. QED
            BY <1>1, <2>1
<1>3. x = DayIn(k, j)
      BY AwayIs DEF Reckoned
<1> HIDE DEF k, j
<1>4. DayIn(k, j) \in Int /\ (InRange(DayIn(k, j)) => MonthNo(DayIn(k, j)) = k)
      BY <1>1, <1>2, DayInIs
<1>5. QED
      BY <1>1, <1>2, <1>3, <1>4 DEF k, j

LEMMA ReckonedRises ==
    ASSUME NEW r \in Request, r.tenor.length >= 1, NEW s, InRange(s),
           NEW k \in Int, NEW l \in Int, k < l,
           NEW x, Reckoned(r, s, x, k), NEW y, Reckoned(r, s, y, l)
    PROVE  /\ x \in Int /\ y \in Int /\ x < y
           /\ Monthly(r) => /\ x + 28 <= y
                            /\ InRange(x) /\ InRange(y) => MonthNo(x) < MonthNo(y)
<1> DEFINE v == r.tenor.length
<1>1. s \in Int /\ v \in Int /\ v >= 1
      BY InRangeIsInt, TenorsAre
<1>2. \A m \in Int : m >= 1 => k * m < l * m /\ k * m \in Int /\ l * m \in Int
      <2> TAKE m \in Int
      <2> HAVE m >= 1
      <2>1. (l - k) * m >= 1
            BY SMT
      <2>2. (l - k) * m = l * m - k * m
            OBVIOUS
      <2>3. QED
            BY <2>1, <2>2
<1>3. CASE r.tenor.units = "Days"
      <2>1. x = s + k * v /\ y = s + l * v
            BY <1>1, <1>3, DaysAway DEF Reckoned
      <2>2. ~Monthly(r)
            BY <1>3 DEF Monthly
      <2> HIDE DEF v
      <2>3. k * v < l * v /\ k * v \in Int /\ l * v \in Int
            BY <1>1, <1>2
      <2>4. QED
            BY <1>1, <2>1, <2>2, <2>3
<1>4. CASE r.tenor.units = "Weeks"
      <2>1. x = s + 7 * (k * v) /\ y = s + 7 * (l * v)
            BY <1>1, <1>4, WeeksAway DEF Reckoned
      <2>2. ~Monthly(r)
            BY <1>4 DEF Monthly
      <2> HIDE DEF v
      <2>3. k * v < l * v /\ k * v \in Int /\ l * v \in Int
            BY <1>1, <1>2
      <2>4. QED
            BY <1>1, <2>1, <2>2, <2>3
<1>5. CASE Monthly(r)
      <2> DEFINE a == MonthNo(s) + k * Stride(r)
                 b == MonthNo(s) + l * Stride(r)
                 j == Wanted(r, s)
      <2>1. /\ x = DayIn(a, j) /\ a \in Int /\ j \in 1..31 /\ x \in Int
            /\ InRange(x) => MonthNo(x) = a
            BY <1>5, ReckonedIs
      <2>2. /\ y = DayIn(b, j) /\ b \in Int /\ y \in Int
            /\ InRange(y) => MonthNo(y) = b
            BY <1>5, ReckonedIs
      <2>3. Stride(r) \in Int /\ Stride(r) >= 1 /\ MonthNo(s) \in Int
            BY <1>5, AdvanceIs
      <2>4. a < b
            <3>1. k * Stride(r) < l * Stride(r) /\ k * Stride(r) \in Int /\ l * Stride(r) \in Int
                  BY <1>2, <2>3
            <3>2. QED
                  BY <2>3, <3>1
      <2> HIDE DEF a, b, j
      <2>5. DayIn(a, j) + 28 <= DayIn(b, j)
            BY <2>1, <2>2, <2>4, DaysRise
      <2>6. x + 28 <= y
            BY <2>1, <2>2, <2>5
      <2>7. x < y
            BY <2>1, <2>2, <2>6
      <2>8. InRange(x) /\ InRange(y) => MonthNo(x) < MonthNo(y)
            BY <2>1, <2>2, <2>4
      <2>9. QED
            BY <2>1, <2>2, <2>6, <2>7, <2>8
<1>6. QED
      BY <1>3, <1>4, <1>5, TenorsAre

\* Dates eight days apart stay in order, whatever the two conventions.
LEMMA FarOrders ==
    ASSUME NoLongHolidays, ShortHolidays, NEW c \in Conventions, NEW e \in Conventions,
           NEW x \in Int, NEW z \in Int, x + 8 <= z
    PROVE  Adjust[c][x] <= Adjust[e][z]
<1>1. Horizon \in Nat /\ Horizon <= 8
      BY HorizonAssumption DEF ShortHolidays
<1>2. x <= z /\ x + Horizon <= z
      BY <1>1
<1>3. Following[x] <= Preceding[z]
      BY <1>2, RollsAre
<1>4. /\ Adjust[c][x] \in Int /\ Adjust[c][x] <= Following[x] /\ Following[x] \in Int
      /\ Adjust[e][z] \in Int /\ Preceding[z] <= Adjust[e][z] /\ Preceding[z] \in Int
      BY AdjustWithin
<1>5. QED
      BY <1>3, <1>4

\* Of three dates in order of which the first two do not roll together, the first does
\* not roll past the last.
LEMMA PlainOrders ==
    ASSUME NoLongHolidays, ShortHolidays, NEW c \in Conventions, NEW e \in Conventions,
           NEW x, Roomy(x), NEW y, Roomy(y), NEW z, Roomy(z), x <= y, y <= z,
           c # "Unadjusted" => Adjust[c][x] # Adjust[c][y],
           c = "Unadjusted" => e \in {"Unadjusted", "Following"} \/ x + 28 <= z
    PROVE  Adjust[c][x] <= Adjust[e][z]
<1>1. x \in Int /\ y \in Int /\ z \in Int
      BY RoomyIsInt
<1>2. CASE c # "Unadjusted"
      BY <1>2, FirstTwoApart
<1>3. CASE c = "Unadjusted" /\ e \in {"Unadjusted", "Following"}
      <2>1. Adjust[c][x] = x
            BY <1>1, <1>3, AdjustWithin
      <2>2. Adjust[e][z] \in Int /\ z <= Adjust[e][z]
            <3>1. e = "Following" => Adjust[e][z] = Following[z]
                  BY <1>1 DEF Adjust
            <3>2. e = "Unadjusted" => Adjust[e][z] = z
                  BY <1>1, AdjustWithin
            <3>3. z <= Following[z] /\ Following[z] \in Int
                  BY <1>1, AdjustWithin
            <3>4. QED
                  BY <1>1, <1>3, <3>1, <3>2, <3>3
      <2>3. QED
            BY <1>1, <2>1, <2>2
<1>4. CASE c = "Unadjusted" /\ x + 28 <= z
      <2>1. x + 8 <= z
            BY <1>1, <1>4
      <2>2. QED
            BY <1>1, <2>1, FarOrders
<1>5. QED
      BY <1>2, <1>3, <1>4

LEMMA LastsRise ==
    ASSUME NEW x, InRange(x), NEW y, InRange(y)
    PROVE  /\ x \in Int /\ LastOfMonth[x] \in Int
           /\ x <= LastOfMonth[x] /\ LastOfMonth[x] <= x + 30
           /\ x <= y => LastOfMonth[x] <= LastOfMonth[y]
           /\ \A l \in Int : MonthNo(x) < l => LastOfMonth[x] < MonthStart(l)
<1> DEFINE k == MonthNo(x)
           m == MonthNo(y)
<1>1. /\ x \in Int /\ k \in Int /\ DayOfMonth[x] \in 1..LengthOf(k)
      /\ x = MonthStart(k) + DayOfMonth[x] - 1
      /\ LastOfMonth[x] = MonthStart(k) + LengthOf(k) - 1
      /\ MonthStart(k) \in Int /\ LengthOf(k) \in 28..31
      BY DayIs
<1>2. /\ y \in Int /\ m \in Int
      /\ LastOfMonth[y] = MonthStart(m) + LengthOf(m) - 1
      /\ MonthStart(m) \in Int /\ LengthOf(m) \in 28..31
      BY DayIs
<1>3. x <= y => k <= m
      BY MonthsFollow
<1> HIDE DEF k, m
<1>4. ASSUME NEW l \in Int, k < l
      PROVE  LastOfMonth[x] < MonthStart(l)
      <2>1. k + 1 \in Int /\ k + 1 <= l /\ MonthStart(l) \in Int
            BY <1>1, <1>4, MonthsAre
      <2>2. MonthStart(k + 1) + 28 * (l - (k + 1)) <= MonthStart(l)
            BY <2>1, MonthsRise
      <2>3. MonthStart(k + 1) = MonthStart(k) + LengthOf(k)
            BY <1>1, MonthEnds
      <2>4. QED
            BY <1>1, <2>1, <2>2, <2>3
<1>5. x <= y => LastOfMonth[x] <= LastOfMonth[y]
      <2>1. k < m => LastOfMonth[x] < MonthStart(m)
            BY <1>2, <1>4
      <2>2. QED
            BY <1>1, <1>2, <1>3, <2>1
<1>6. x <= LastOfMonth[x] /\ LastOfMonth[x] <= x + 30
      BY <1>1
<1>7. QED
      BY <1>1, <1>4, <1>5, <1>6 DEF k

\* A schedule that keeps the end of the month counts from late in one.
LEMMA LateInMonth ==
    ASSUME NoLongHolidays, ShortHolidays, NEW r \in Request, r.endOfMonth,
           NEW s, InRange(s), IsEndOfMonth(s)
    PROVE  Wanted(r, s) \in 20..31
<1> DEFINE k == MonthNo(s)
           z == LastOfMonth[s]
<1>1. /\ s \in Int /\ DayOfMonth[s] \in 1..LengthOf(k) /\ s = MonthStart(k) + DayOfMonth[s] - 1
      /\ z = MonthStart(k) + LengthOf(k) - 1 /\ z \in Int
      /\ MonthStart(k) \in Int /\ LengthOf(k) \in 28..31
      BY DayIs
<1>2. Preceding[z] \in Int /\ z - Horizon <= Preceding[z]
      BY <1>1, PrecedingIs
<1>3. s >= Preceding[z]
      BY DEF IsEndOfMonth
<1>4. Horizon \in Nat /\ Horizon <= 8
      BY HorizonAssumption DEF ShortHolidays
<1> HIDE DEF k, z
<1>5. DayOfMonth[s] \in 20..31
      BY <1>1, <1>2, <1>3, <1>4
<1>6. QED
      BY <1>5 DEF Wanted

\* What is to hold of dates for rolling and trimming to leave them in order: all but
\* the last are; the last is not before; of the two before it, the first rolls
\* elsewhere, or is a month from it; and the months of those that are snapped differ.
Thirds == {"ThirdWednesday", "ThirdWednesdayInclusive"}

StubSnapped(r, y, z) ==
    /\ r.rule = "ThirdWednesday" /\ Given(r.nextToLast) /\ y = r.nextToLast /\ IsImmDate(y)
    /\ Adjust[r.endConvention][y] # Adjust[r.endConvention][z]

Steady(r, s, ds) ==
    LET n == Len(ds)
        c == r.convention
    IN  /\ \A i \in 1..(n - 2) : ds[i] <= ds[i + 1]
        /\ n >= 4 => ds[n - 1] <= ds[n]
        /\ n >= 4 /\ c # "Unadjusted" => Adjust[c][ds[n - 2]] # Adjust[c][ds[n - 1]]
        /\ n >= 4 /\ Monthly(r) /\ ~Given(r.nextToLast) => ds[n - 2] + 28 <= ds[n]
        /\ n >= 3 /\ r.rule = "OldCDS" => ds[1] + 28 <= ds[2]
        /\ n >= 3 /\ r.rule = "ThirdWednesday" =>
               MonthNo(ds[1]) < MonthNo(ds[2]) \/ IsImmDate(ds[2])
        /\ n >= 4 /\ r.rule \in Thirds =>
               MonthNo(ds[n - 2]) < MonthNo(ds[n - 1]) \/ StubSnapped(r, ds[n - 1], ds[n])
        /\ n >= 4 /\ r.endOfMonth =>
               \E z \in {ds[n - 1], ds[n]} : /\ z = DayIn(MonthNo(z), Wanted(r, s))
                                             /\ MonthNo(ds[n - 2]) < MonthNo(z)

LEMMA SnappedOrders ==
    ASSUME NoLongHolidays, ShortHolidays, NEW r \in Request, Orderly(r), r.rule \in Thirds,
           NEW x, Clear(x, 366), NEW y, Clear(y, 366), NEW z, Clear(z, 366), x <= y, y <= z,
           MonthNo(x) < MonthNo(y) \/ StubSnapped(r, y, z)
    PROVE  /\ Adjust[r.convention][ThirdWednesday(x)] <= Adjust[r.endConvention][z]
           /\ MonthNo(x) < MonthNo(y) =>
                  Adjust[r.convention][ThirdWednesday(x)]
                      <= Adjust[r.endConvention][ThirdWednesday(z)]
<1> DEFINE c == r.convention
           e == r.endConvention
           t == ThirdWednesday(x)
<1>1. c \in Conventions /\ e \in Conventions
      BY DEF Request
<1>2. /\ InRange(x) /\ InRange(y) /\ InRange(z) /\ Roomy(x) /\ Roomy(y) /\ Roomy(z)
      /\ x \in Int /\ y \in Int /\ z \in Int
      BY DEF Clear, InRange, Roomy
<1>3. /\ t \in Int /\ t <= ThirdWednesday(y) /\ ThirdWednesday(y) \in Int
      /\ MonthNo(x) < MonthNo(y) => t + 8 <= y /\ t + 22 <= ThirdWednesday(y)
      BY <1>2, ThirdsRise, ThirdWednesdayIs
<1>4. ThirdWednesday(y) <= ThirdWednesday(z) /\ ThirdWednesday(z) \in Int
      BY <1>2, ThirdsRise, ThirdWednesdayIs
<1>5. x - 31 <= t /\ t <= x + 31
      <2>1. /\ MonthStart(MonthNo(x)) + 14 <= t /\ t <= MonthStart(MonthNo(x)) + 20
            BY <1>2, ThirdWednesdayIs
      <2>2. /\ x = MonthStart(MonthNo(x)) + DayOfMonth[x] - 1
            /\ DayOfMonth[x] \in 1..LengthOf(MonthNo(x))
            /\ MonthStart(MonthNo(x)) \in Int /\ LengthOf(MonthNo(x)) \in 28..31
            BY <1>2, DayIs
      <2> HIDE DEF t
      <2>3. QED
            BY <1>3, <2>1, <2>2
<1> HIDE DEF t, c, e
<1>6. Roomy(t)
      BY <1>2, <1>3, <1>5 DEF Clear, Roomy
<1>7. MonthNo(x) < MonthNo(y) => Adjust[c][t] <= Adjust[e][z]
      <2>1. MonthNo(x) < MonthNo(y) => t + 8 <= z
            BY <1>2, <1>3
      <2>2. QED
            BY <1>1, <1>2, <1>3, <2>1, FarOrders
<1>8. MonthNo(x) < MonthNo(y) => Adjust[c][t] <= Adjust[e][ThirdWednesday(z)]
      <2>1. MonthNo(x) < MonthNo(y) => t + 8 <= ThirdWednesday(z)
            BY <1>3, <1>4
      <2>2. QED
            BY <1>1, <1>3, <1>4, <2>1, FarOrders
<1>9. ASSUME StubSnapped(r, y, z)
      PROVE  Adjust[c][t] <= Adjust[e][z]
      <2>1. IsImmDate(y) /\ Adjust[e][y] # Adjust[e][z]
            BY <1>9 DEF StubSnapped, e
      <2>2. ThirdWednesday(y) = y
            BY <1>2, <2>1, ImmIsThird
      <2>3. t <= y
            BY <1>3, <2>2
      <2>4. CASE e # "Unadjusted"
            <3>1. Adjust[c][t] <= Adjust[c][y]
                  BY <1>1, <1>2, <1>6, <2>3, AdjustRises
            <3>2. y <= y
                  BY <1>2
            <3>3. Adjust[c][y] <= Adjust[e][z]
                  BY <1>1, <1>2, <2>1, <2>4, <3>2, LastTwoApart
            <3>4. Adjust[c][t] \in Int /\ Adjust[c][y] \in Int /\ Adjust[e][z] \in Int
                  BY <1>1, <1>2, <1>3, AdjustWithin
            <3>5. QED
                  BY <3>1, <3>3, <3>4
      <2>5. CASE e = "Unadjusted"
            <3>1. c = "Unadjusted"
                  BY <1>9, <2>5 DEF Orderly, StubSnapped, c, e
            <3>2. Adjust[c][t] = t /\ Adjust[e][z] = z
                  BY <1>1, <1>2, <1>3, <2>5, <3>1, AdjustWithin
            <3>3. QED
                  BY <1>2, <1>3, <2>3, <3>2
      <2>6. QED
            BY <2>4, <2>5
<1>10. Adjust[c][t] <= Adjust[e][z]
      BY <1>7, <1>9
<1>11. QED
      BY <1>8, <1>10 DEF c, e, t

\* Dates that are rolled by one convention, the last by another.
LEMMA RolledInOrder ==
    ASSUME NoLongHolidays, ShortHolidays, NEW c \in Conventions, NEW n \in Nat,
           NEW R, Len(R) = n, NEW D,
           \A i \in 1..(n - 1) : Roomy(D[i]),
           \A i \in 1..(n - 2) : D[i] <= D[i + 1],
           \A i \in 2..(n - 1) : R[i] = Adjust[c][D[i]],
           n >= 3 => R[1] <= R[2] \/ R[1] = Adjust[c][D[1]],
           n >= 4 => R[n - 2] <= R[n]
    PROVE  TrimOrders(R)
<1>1. ASSUME NEW i \in 1..(n - 2)
      PROVE  R[i] <= R[i + 1]
      <2>1. i \in 1..(n - 1) /\ i + 1 \in 2..(n - 1) /\ i + 1 \in 1..(n - 1) /\ n >= 3
            OBVIOUS
      <2>2. Adjust[c][D[i]] <= Adjust[c][D[i + 1]]
            <3>1. Roomy(D[i]) /\ Roomy(D[i + 1]) /\ D[i] <= D[i + 1]
                  BY <2>1
            <3>2. QED
                  BY <3>1, AdjustRises
      <2>3. R[i + 1] = Adjust[c][D[i + 1]]
            BY <2>1
      <2>4. CASE i = 1
            BY <2>1, <2>2, <2>3, <2>4
      <2>5. CASE i # 1
            <3>1. R[i] = Adjust[c][D[i]]
                  <4>1. i \in 2..(n - 1)
                        BY <2>1, <2>5
                  <4>2. QED
                        BY <4>1
            <3>2. QED
                  BY <2>2, <2>3, <3>1
      <2>6. QED
            BY <2>4, <2>5
<1>2. QED
      BY <1>1 DEF TrimOrders

\* What rolling makes of steady dates, trimming puts in order.
LEMMA RollingOrders ==
    ASSUME NoLongHolidays, ShortHolidays, NEW r \in Request, Accepted(r), Orderly(r),
           r.endOfMonth => Monthly(r), NEW ds, Len(ds) \in Nat,
           \A i \in 1..Len(ds) : Clear(ds[i], 366),
           Len(ds) >= 3 => InRange(seed), Steady(r, seed, ds)
    PROVE  TrimOrders(RolledDates(r, ds))
<1> DEFINE n == Len(ds)
           c == r.convention
           e == r.endConvention
           R == RolledDates(r, ds)
<1>1. c \in Conventions /\ e \in Conventions /\ n \in Nat /\ "Unadjusted" \in Conventions
      BY DEF Request, Conventions
<1>2. \A i \in 1..n : Clear(ds[i], 366) /\ InRange(ds[i]) /\ Roomy(ds[i]) /\ ds[i] \in Int
      BY DEF Clear, InRange, Roomy
<1>3. /\ Len(R) = n
      /\ \A i \in 2..(n - 1) : R[i] = Inner(r, Snapped(r, n, i, ds[i]))
      /\ n >= 3 => R[1] = IF r.rule = "OldCDS" THEN Snapped(r, n, 1, ds[1])
                          ELSE Adjust[c][Snapped(r, n, 1, ds[1])]
      /\ n >= 3 => R[n] = IF r.rule \in CDSRules THEN Snapped(r, n, n, ds[n])
                          ELSE Adjust[e][Snapped(r, n, n, ds[n])]
      BY <1>1 DEF RolledDates
<1> HIDE DEF R
<1>4. /\ \A i \in 1..(n - 2) : ds[i] <= ds[i + 1]
      /\ n >= 4 => ds[n - 1] <= ds[n]
      BY DEF Steady
<1>5. n >= 4 => /\ n - 2 \in 1..(n - 2) /\ n - 2 \in 2..(n - 1) /\ (n - 2) + 1 = n - 1
                /\ n - 2 \in 1..n /\ n - 1 \in 1..n /\ n \in 1..n /\ n >= 3
      BY <1>1
<1>6. n >= 4 => ds[n - 2] <= ds[n - 1]
      BY <1>4, <1>5
<1> HIDE DEF n
<1>7. ASSUME r.rule \notin Thirds, ~(r.endOfMonth /\ Given(seed) /\ IsEndOfMonth(seed))
      PROVE  TrimOrders(R)
      <2>1. \A i : Snapped(r, n, i, ds[i]) = ds[i]
            BY <1>7 DEF Snapped, Thirds
      <2>2. \A i \in 2..(n - 1) : R[i] = Adjust[c][ds[i]]
            BY <1>3, <1>7, <2>1 DEF Inner
      <2>3. ASSUME n >= 3
            PROVE  R[1] <= R[2] \/ R[1] = Adjust[c][ds[1]]
            <3>1. CASE r.rule = "OldCDS"
                  <4>1. R[1] = ds[1] /\ ds[1] + 28 <= ds[2]
                        BY <1>3, <2>1, <2>3, <3>1 DEF Steady, n
                  <4>2. 1 \in 1..n /\ 2 \in 1..n /\ 2 \in 2..(n - 1)
                        BY <1>1, <2>3
                  <4>3. ds[1] \in Int /\ ds[2] \in Int
                        BY <1>2, <4>2 DEF n
                  <4>4. ds[1] + 8 <= ds[2]
                        BY <4>1, <4>3
                  <4>5. Adjust["Unadjusted"][ds[1]] <= Adjust[c][ds[2]]
                        BY <1>1, <4>3, <4>4, FarOrders
                  <4>6. Adjust["Unadjusted"][ds[1]] = ds[1]
                        BY <1>1, <4>3, AdjustWithin
                  <4>7. QED
                        BY <2>2, <4>1, <4>2, <4>5, <4>6
            <3>2. CASE r.rule # "OldCDS"
                  BY <1>3, <2>1, <2>3, <3>2
            <3>3. QED
                  BY <3>1, <3>2
      <2>4. ASSUME n >= 4
            PROVE  R[n - 2] <= R[n]
            <3> DEFINE x == ds[n - 2]
                       y == ds[n - 1]
                       z == ds[n]
            <3>1. /\ Roomy(x) /\ Roomy(y) /\ Roomy(z) /\ x <= y /\ y <= z /\ z \in Int
                  BY <1>2, <1>4, <1>5, <1>6, <2>4 DEF n
            <3>2. c # "Unadjusted" => Adjust[c][x] # Adjust[c][y]
                  BY <2>4 DEF Steady, n
            <3>3. c = "Unadjusted" => e \in {"Unadjusted", "Following"} \/ x + 28 <= z
                  <4>1. AllowsEndOfMonth(r.tenor) => Monthly(r)
                        BY DEF AllowsEndOfMonth, Monthly
                  <4>2. Monthly(r) /\ ~Given(r.nextToLast) => x + 28 <= z
                        BY <2>4 DEF Steady, n
                  <4>3. QED
                        BY <4>1, <4>2 DEF Orderly
            <3>4. R[n - 2] = Adjust[c][x]
                  BY <1>5, <2>2, <2>4
            <3> HIDE DEF x, y, z
            <3>5. CASE r.rule \notin CDSRules
                  <4>1. Adjust[c][x] <= Adjust[e][z]
                        BY <1>1, <3>1, <3>2, <3>3, PlainOrders
                  <4>2. R[n] = Adjust[e][z]
                        BY <1>3, <1>5, <2>1, <2>4, <3>5 DEF z
                  <4>3. QED
                        BY <3>4, <4>1, <4>2
            <3>6. CASE r.rule \in CDSRules
                  <4>1. Adjust[c][x] <= Adjust["Unadjusted"][z]
                        BY <1>1, <3>1, <3>2, PlainOrders
                  <4>2. Adjust["Unadjusted"][z] = z
                        BY <1>1, <3>1, AdjustWithin
                  <4>3. R[n] = z
                        BY <1>3, <1>5, <2>1, <2>4, <3>6 DEF z
                  <4>4. QED
                        BY <3>4, <4>1, <4>2, <4>3
            <3>7. QED
                  BY <3>5, <3>6
      <2>5. \A i \in 1..(n - 1) : Roomy(ds[i])
            BY <1>1, <1>2 DEF n
      <2>6. QED
            BY <1>1, <1>3, <1>4, <2>2, <2>3, <2>4, <2>5, RolledInOrder
<1>8. ASSUME r.endOfMonth, IsEndOfMonth(seed), Given(seed)
      PROVE  TrimOrders(R)
      <2> DEFINE D == [i \in 1..n |-> IF i = 1 THEN ds[1] ELSE LastOfMonth[ds[i]]]
      <2>1. r.rule \notin Thirds /\ r.rule # "OldCDS" /\ r.rule \notin CDSRules
            BY <1>8 DEF Accepted, Thirds, CDSRules
      <2>2. \A i : Snapped(r, n, i, ds[i]) = ds[i]
            BY <2>1 DEF Snapped, Thirds
      <2>3. \A i \in 2..(n - 1) : R[i] = Adjust[c][LastOfMonth[ds[i]]]
            BY <1>3, <1>8, <2>2 DEF Inner
      <2>4. \A i \in 1..n : /\ LastOfMonth[ds[i]] \in Int /\ ds[i] <= LastOfMonth[ds[i]]
                            /\ LastOfMonth[ds[i]] <= ds[i] + 30
            BY <1>2, LastsRise DEF n
      <2>5. \A i \in 1..n : Roomy(LastOfMonth[ds[i]])
            BY <1>2, <2>4 DEF n, Clear, Roomy
      <2>6. \A i \in 1..(n - 1) : Roomy(D[i])
            BY <1>1, <1>2, <2>5 DEF n
      <2>7. ASSUME NEW i \in 1..(n - 2)
            PROVE  D[i] <= D[i + 1]
            <3>1. i \in 1..n /\ i + 1 \in 1..n /\ i + 1 # 1 /\ ds[i] <= ds[i + 1]
                  BY <1>1, <1>4
            <3>2. LastOfMonth[ds[i]] <= LastOfMonth[ds[i + 1]]
                  <4>1. InRange(ds[i]) /\ InRange(ds[i + 1])
                        BY <1>2, <3>1 DEF n
                  <4>2. QED
                        BY <3>1, <4>1, LastsRise
            <3>3. ds[i] <= LastOfMonth[ds[i + 1]]
                  <4>1. /\ ds[i] \in Int /\ ds[i + 1] \in Int /\ LastOfMonth[ds[i + 1]] \in Int
                        /\ ds[i + 1] <= LastOfMonth[ds[i + 1]]
                        BY <1>2, <2>4, <3>1 DEF n
                  <4>2. QED
                        BY <3>1, <4>1
            <3>4. QED
                  BY <3>1, <3>2, <3>3
      <2>8. \A i \in 2..(n - 1) : R[i] = Adjust[c][D[i]]
            BY <1>1, <2>3
      <2>9. n >= 3 => R[1] = Adjust[c][D[1]]
            BY <1>1, <1>3, <2>1, <2>2
      <2>10. ASSUME n >= 4
             PROVE  R[n - 2] <= R[n]
             <3> DEFINE x == ds[n - 2]
                        w == Wanted(r, seed)
             <3>1. R[n - 2] = Adjust[c][LastOfMonth[x]] /\ R[n] = Adjust[e][ds[n]]
                   BY <1>3, <1>5, <2>1, <2>2, <2>3, <2>10
             <3>2. PICK z \in {ds[n - 1], ds[n]} : /\ z = DayIn(MonthNo(z), w)
                                                   /\ MonthNo(x) < MonthNo(z)
                   BY <1>8, <2>10 DEF Steady, n
             <3>3. InRange(x) /\ InRange(z) /\ ds[n] \in Int /\ ds[n - 1] \in Int /\ ds[n - 1] <= ds[n]
                   BY <1>2, <1>4, <1>5, <2>10, <3>2 DEF n
             <3>4. z <= ds[n] /\ z \in Int
                   BY <3>2, <3>3
             <3>5. w \in 20..31
                   <4>1. InRange(seed)
                         BY <1>5, <2>10 DEF n
                   <4>2. QED
                         BY <1>8, <4>1, LateInMonth
             <3>6. /\ MonthNo(z) \in Int /\ MonthStart(MonthNo(z)) \in Int
                   /\ LengthOf(MonthNo(z)) \in 28..31
                   BY <3>3, DayIs
             <3>7. LastOfMonth[x] < MonthStart(MonthNo(z)) /\ LastOfMonth[x] \in Int
                   BY <3>2, <3>3, <3>6, LastsRise
             <3>8. MonthStart(MonthNo(z)) + 19 <= z
                   <4> DEFINE q == Smaller(w, LengthOf(MonthNo(z)))
                              b == MonthStart(MonthNo(z))
                   <4>1. z = b + q - 1
                         BY <3>2 DEF DayIn
                   <4>2. q \in 20..31
                         BY <3>5, <3>6 DEF Smaller
                   <4>3. b \in Int /\ z \in Int
                         BY <3>4, <3>6
                   <4> HIDE DEF q, b
                   <4>4. b + 19 <= z
                         BY <4>1, <4>2, <4>3
                   <4>5. QED
                         BY <4>4 DEF b
             <3>9. LastOfMonth[x] + 8 <= ds[n]
                   BY <3>3, <3>4, <3>6, <3>7, <3>8
             <3>10. QED
                   BY <1>1, <3>1, <3>3, <3>7, <3>9, FarOrders
      <2> HIDE DEF D
      <2>11. QED
            BY <1>1, <1>3, <2>6, <2>7, <2>8, <2>9, <2>10, RolledInOrder
<1>9. ASSUME r.rule \in Thirds
      PROVE  TrimOrders(R)
      <2> DEFINE inc == r.rule = "ThirdWednesdayInclusive"
                 D == [i \in 1..n |-> IF i = 1 /\ ~inc THEN ds[1] ELSE ThirdWednesday(ds[i])]
      <2>1. ~r.endOfMonth /\ r.rule # "OldCDS" /\ r.rule \notin CDSRules
            BY <1>9 DEF Accepted, Thirds, CDSRules
      <2>2. \A i : i \in 2..(n - 1) \/ inc => Snapped(r, n, i, ds[i]) = ThirdWednesday(ds[i])
            BY <1>9 DEF Snapped, Thirds
      <2>3. ~inc => \A i : i \notin 2..(n - 1) => Snapped(r, n, i, ds[i]) = ds[i]
            BY <1>9 DEF Snapped, Thirds
      <2>4. \A i \in 2..(n - 1) : R[i] = Adjust[c][ThirdWednesday(ds[i])]
            BY <1>3, <2>1, <2>2 DEF Inner
      <2>5. \A i \in 1..n : /\ ThirdWednesday(ds[i]) \in Int /\ Roomy(ThirdWednesday(ds[i]))
            <3> SUFFICES ASSUME NEW i \in 1..n
                         PROVE  ThirdWednesday(ds[i]) \in Int /\ Roomy(ThirdWednesday(ds[i]))
                OBVIOUS
            <3> DEFINE x == ds[i]
                       t == ThirdWednesday(x)
            <3>1. InRange(x) /\ Clear(x, 366) /\ x \in Int
                  BY <1>2 DEF n
            <3> HIDE DEF x
            <3>2. /\ MonthStart(MonthNo(x)) + 14 <= t /\ t <= MonthStart(MonthNo(x)) + 20
                  /\ t \in Int
                  BY <3>1, ThirdWednesdayIs
            <3>3. /\ x = MonthStart(MonthNo(x)) + DayOfMonth[x] - 1
                  /\ DayOfMonth[x] \in 1..LengthOf(MonthNo(x))
                  /\ MonthStart(MonthNo(x)) \in Int /\ LengthOf(MonthNo(x)) \in 28..31
                  BY <3>1, DayIs
            <3> HIDE DEF t
            <3>4. t + 31 >= x /\ t <= x + 31
                  BY <3>1, <3>2, <3>3
            <3>5. Roomy(t)
                  BY <3>1, <3>2, <3>4 DEF Clear, Roomy
            <3>6. QED
                  BY <3>2, <3>5 DEF t, x
      <2>6. \A i \in 1..(n - 1) : Roomy(D[i])
            BY <1>1, <1>2, <2>5 DEF n
      <2>7. ASSUME NEW i \in 1..(n - 2)
            PROVE  D[i] <= D[i + 1]
            <3>1. i \in 1..n /\ i + 1 \in 1..n /\ i + 1 # 1 /\ ds[i] <= ds[i + 1] /\ n >= 3
                  BY <1>1, <1>4
            <3>2. InRange(ds[i]) /\ InRange(ds[i + 1])
                  BY <1>2, <3>1 DEF n
            <3>3. ThirdWednesday(ds[i]) <= ThirdWednesday(ds[i + 1])
                  BY <3>1, <3>2, ThirdsRise
            <3>4. i = 1 /\ ~inc => ds[1] <= ThirdWednesday(ds[2])
                  <4> SUFFICES ASSUME i = 1, ~inc
                               PROVE  ds[1] <= ThirdWednesday(ds[2])
                      OBVIOUS
                  <4>1. r.rule = "ThirdWednesday"
                        BY <1>9 DEF Thirds
                  <4>2. MonthNo(ds[1]) < MonthNo(ds[2]) \/ IsImmDate(ds[2])
                        BY <3>1, <4>1 DEF Steady, n
                  <4>3. InRange(ds[1]) /\ InRange(ds[2]) /\ ds[1] <= ds[2]
                        BY <3>1, <3>2
                  <4>4. MonthNo(ds[1]) < MonthNo(ds[2]) => ds[1] <= ThirdWednesday(ds[2])
                        BY <4>3, ThirdsRise
                  <4>5. IsImmDate(ds[2]) => ThirdWednesday(ds[2]) = ds[2]
                        BY <4>3, ImmIsThird
                  <4>6. QED
                        BY <4>2, <4>3, <4>4, <4>5
            <3>5. QED
                  BY <3>1, <3>3, <3>4
      <2>8. \A i \in 2..(n - 1) : R[i] = Adjust[c][D[i]]
            BY <1>1, <2>4
      <2>9. n >= 3 => R[1] = Adjust[c][D[1]]
            BY <1>1, <1>3, <2>1, <2>2, <2>3
      <2>10. ASSUME n >= 4
             PROVE  R[n - 2] <= R[n]
             <3> DEFINE x == ds[n - 2]
                        y == ds[n - 1]
                        z == ds[n]
             <3>1. /\ Clear(x, 366) /\ Clear(y, 366) /\ Clear(z, 366) /\ x <= y /\ y <= z
                   BY <1>2, <1>4, <1>5, <1>6, <2>10 DEF n
             <3>2. MonthNo(x) < MonthNo(y) \/ StubSnapped(r, y, z)
                   BY <1>9, <2>10 DEF Steady, n
             <3>3. R[n - 2] = Adjust[c][ThirdWednesday(x)]
                   BY <1>5, <2>4, <2>10
             <3>4. R[n] = Adjust[e][IF inc THEN ThirdWednesday(z) ELSE z]
                   <4>1. n \notin 2..(n - 1)
                         BY <1>1
                   <4>2. QED
                         BY <1>3, <1>5, <2>1, <2>2, <2>3, <2>10, <4>1
             <3>5. inc => MonthNo(x) < MonthNo(y)
                   BY <3>2 DEF StubSnapped
             <3> HIDE DEF x, y, z
             <3>6. /\ Adjust[c][ThirdWednesday(x)] <= Adjust[e][z]
                   /\ MonthNo(x) < MonthNo(y) =>
                          Adjust[c][ThirdWednesday(x)] <= Adjust[e][ThirdWednesday(z)]
                   BY <1>9, <3>1, <3>2, SnappedOrders
             <3>7. QED
                   BY <3>3, <3>4, <3>5, <3>6
      <2> HIDE DEF D
      <2>11. QED
            BY <1>1, <1>3, <2>6, <2>7, <2>8, <2>9, <2>10, RolledInOrder
<1>10. QED
      BY <1>7, <1>8, <1>9 DEF R, Accepted, Thirds

----------------------------------------------------------------------------
\* What the loop keeps of the dates it puts in front: they are in order, no two of them
\* roll to one day but perhaps at the end, and the end is a month away.
Backed(r, s, ds, least) ==
    LET n == Len(ds)
        c == r.convention
    IN  /\ \A i \in 1..(n - 1) : ds[i] <= ds[i + 1]
        /\ \A i \in 1..(n - 2) : Adjust[c][ds[i]] # Adjust[c][ds[i + 1]]
        /\ n >= least /\ Monthly(r) /\ ~Given(r.nextToLast) =>
               /\ ds[n] = s /\ ds[n - 1] + 28 <= ds[n]
               /\ MonthNo(ds[n - 1]) < MonthNo(ds[n])

\* And of those it lays behind, one by one unless a stub date is the last.
Stepped(r, s, x, y) ==
    Monthly(r) =>
        /\ x + 28 <= y
        /\ r.rule \in {"Forward"} \cup Thirds =>
               MonthNo(x) < MonthNo(y) /\ y = DayIn(MonthNo(y), Wanted(r, s))

Stubbed(r, x) == Given(r.nextToLast) /\ x = r.nextToLast

Laid(r, s, ds, closing) ==
    LET n == Len(ds)
        c == r.convention
    IN  /\ \A i \in 1..(n - 1) : ds[i] <= ds[i + 1]
        /\ \A i \in 2..(n - 1) :
               /\ Adjust[c][ds[i]] # Adjust[c][ds[i + 1]]
               /\ Stepped(r, s, ds[i], ds[i + 1]) \/ (closing /\ i = n - 1 /\ Stubbed(r, ds[n]))
        /\ r.rule = "OldCDS" => n >= 2 /\ ds[1] + 28 <= ds[2]
        /\ n >= 2 /\ r.rule = "ThirdWednesday" =>
               MonthNo(ds[1]) < MonthNo(ds[2]) \/ IsImmDate(ds[2])
        /\ \/ ds[n] <= r.termination
           \/ /\ r.rule \in Twentieths
              /\ n <= 2 \/ ds[n] <= NextTwentieth(r.termination, r.rule)

LEMMA LaidOn ==
    ASSUME NEW r, NEW s, NEW ds, Sequential(ds), Len(ds) >= 1, Laid(r, s, ds, FALSE),
           NEW d, NEW closing \in BOOLEAN, ds[Len(ds)] <= d, d <= r.termination,
           Adjust[r.convention][ds[Len(ds)]] # Adjust[r.convention][d],
           Len(ds) >= 2 => Stepped(r, s, ds[Len(ds)], d) \/ (closing /\ Stubbed(r, d)),
           r.rule = "ThirdWednesday" => MonthNo(ds[Len(ds)]) < MonthNo(d) \/ IsImmDate(d)
    PROVE  Laid(r, s, Append(ds, d), closing)
<1> DEFINE n == Len(ds)
           es == Append(ds, d)
<1>1. n \in Nat /\ n >= 1 /\ Len(es) = n + 1
      BY Appended DEF Sequential
<1>2. (\A i \in 1..n : es[i] = ds[i]) /\ es[n + 1] = d
      BY AppendedAt
<1> HIDE DEF es
<1>3. /\ \A i \in 1..(n - 1) : ds[i] <= ds[i + 1]
      /\ \A i \in 2..(n - 1) : /\ Adjust[r.convention][ds[i]] # Adjust[r.convention][ds[i + 1]]
                               /\ Stepped(r, s, ds[i], ds[i + 1])
      /\ r.rule = "OldCDS" => n >= 2 /\ ds[1] + 28 <= ds[2]
      /\ n >= 2 /\ r.rule = "ThirdWednesday" =>
             MonthNo(ds[1]) < MonthNo(ds[2]) \/ IsImmDate(ds[2])
      BY DEF Laid
<1> HIDE DEF n
<1>4. \A i \in 1..n : \/ i = n /\ es[i] = ds[n] /\ es[i + 1] = d
                      \/ i \in 1..(n - 1) /\ es[i] = ds[i] /\ es[i + 1] = ds[i + 1]
      BY <1>1, <1>2
<1>5. \A i \in 1..n : es[i] <= es[i + 1]
      BY <1>3, <1>4 DEF n
<1>6. ASSUME NEW i \in 2..n
      PROVE  /\ Adjust[r.convention][es[i]] # Adjust[r.convention][es[i + 1]]
             /\ Stepped(r, s, es[i], es[i + 1]) \/ (closing /\ i = n /\ Stubbed(r, es[n + 1]))
      <2>1. CASE i = n
            <3>1. n >= 2 /\ es[i] = ds[n] /\ es[i + 1] = d
                  BY <1>1, <1>2, <2>1
            <3>2. QED
                  BY <2>1, <3>1 DEF n
      <2>2. CASE i # n
            <3>1. i \in 2..(n - 1) /\ es[i] = ds[i] /\ es[i + 1] = ds[i + 1]
                  BY <1>1, <1>2, <2>2
            <3>2. QED
                  BY <1>3, <3>1
      <2>3. QED
            BY <2>1, <2>2
<1>7. r.rule = "OldCDS" => n + 1 >= 2 /\ es[1] + 28 <= es[2]
      <2>1. n >= 2 => es[1] = ds[1] /\ es[2] = ds[2]
            BY <1>1, <1>2
      <2>2. QED
            BY <1>1, <1>3, <2>1
<1>8. r.rule = "ThirdWednesday" => MonthNo(es[1]) < MonthNo(es[2]) \/ IsImmDate(es[2])
      <2>1. n >= 2 => es[1] = ds[1] /\ es[2] = ds[2]
            BY <1>1, <1>2
      <2>2. n = 1 => es[1] = ds[n] /\ es[2] = d
            BY <1>1, <1>2
      <2>3. n >= 2 \/ n = 1
            BY <1>1
      <2>4. QED
            BY <1>3, <2>1, <2>2, <2>3 DEF n
<1>9. (n + 1) - 1 = n
      BY <1>1
<1>10. QED
       BY <1>1, <1>2, <1>5, <1>6, <1>7, <1>8, <1>9 DEF Laid, es

LEMMA LaidIsSteady ==
    ASSUME NEW r \in Request, Accepted(r), Orderly(r), r.endOfMonth => Monthly(r),
           r.rule \notin {"Zero", "Backward"}, NEW s, NEW ds, Len(ds) \in Nat,
           \A i \in 1..Len(ds) : ds[i] \in Int, Laid(r, s, ds, TRUE)
    PROVE  Steady(r, s, ds)
<1> DEFINE n == Len(ds)
           c == r.convention
<1>1. /\ n \in Nat
      /\ \A i \in 1..(n - 1) : ds[i] <= ds[i + 1]
      /\ \A i \in 2..(n - 1) :
             /\ Adjust[c][ds[i]] # Adjust[c][ds[i + 1]]
             /\ Stepped(r, s, ds[i], ds[i + 1]) \/ (i = n - 1 /\ Stubbed(r, ds[n]))
      /\ r.rule = "OldCDS" => n >= 2 /\ ds[1] + 28 <= ds[2]
      /\ n >= 2 /\ r.rule = "ThirdWednesday" =>
             MonthNo(ds[1]) < MonthNo(ds[2]) \/ IsImmDate(ds[2])
      BY DEF Laid
<1> HIDE DEF n
<1>2. n >= 4 => /\ n - 2 \in 2..(n - 1) /\ n - 2 # n - 1 /\ (n - 2) + 1 = n - 1
                /\ n - 1 \in 1..(n - 1) /\ (n - 1) + 1 = n /\ n >= 2
                /\ ds[n - 2] \in Int /\ ds[n - 1] \in Int /\ ds[n] \in Int
      BY <1>1 DEF n
<1>3. n >= 4 => /\ ds[n - 1] <= ds[n] /\ Adjust[c][ds[n - 2]] # Adjust[c][ds[n - 1]]
                /\ Stepped(r, s, ds[n - 2], ds[n - 1])
      BY <1>1, <1>2
<1>4. n >= 4 /\ Monthly(r) => ds[n - 2] + 28 <= ds[n]
      <2>1. n >= 4 /\ Monthly(r) => ds[n - 2] + 28 <= ds[n - 1]
            BY <1>3 DEF Stepped
      <2>2. QED
            BY <1>2, <1>3, <2>1
<1>5. n >= 4 /\ r.rule \in Thirds => MonthNo(ds[n - 2]) < MonthNo(ds[n - 1])
      <2>1. r.rule \in Thirds => Monthly(r)
            BY DEF Orderly, Thirds, AllowsEndOfMonth, Monthly
      <2>2. QED
            BY <1>3, <2>1 DEF Stepped
<1>6. n >= 4 /\ r.endOfMonth =>
          ds[n - 1] = DayIn(MonthNo(ds[n - 1]), Wanted(r, s))
              /\ MonthNo(ds[n - 2]) < MonthNo(ds[n - 1])
      <2>1. r.endOfMonth => r.rule = "Forward"
            BY DEF Accepted
      <2>2. QED
            BY <1>3, <2>1 DEF Stepped
<1>7. \A i \in 1..(n - 2) : ds[i] <= ds[i + 1]
      BY <1>1
<1>8. n >= 3 => n >= 2
      BY <1>1
<1>9. QED
      BY <1>1, <1>3, <1>4, <1>5, <1>6, <1>7, <1>8 DEF Steady, n

LEMMA LaidToTheLast ==
    ASSUME NEW r \in Request, Accepted(r), Orderly(r), r.endOfMonth => Monthly(r),
           r.rule \notin {"Zero", "Backward"}, NEW s, NEW ds, Sequential(ds), Len(ds) >= 1,
           \A i \in 1..Len(ds) : ds[i] \in Int, Laid(r, s, ds, TRUE),
           NEW d \in Int, Len(ds) >= 3 => ds[Len(ds)] <= d,
           Adjust[r.endConvention][ds[Len(ds)]] # Adjust[r.endConvention][r.termination],
           r.rule \notin Twentieths => d = r.termination
    PROVE  Steady(r, s, Append(ds, d))
<1> DEFINE n == Len(ds)
           es == Append(ds, d)
           c == r.convention
<1>1. n \in Nat /\ n >= 1 /\ Len(es) = n + 1
      BY Appended DEF Sequential
<1>2. (\A i \in 1..n : es[i] = ds[i]) /\ es[n + 1] = d
      BY AppendedAt
<1> HIDE DEF es
<1>3. /\ \A i \in 1..(n - 1) : ds[i] <= ds[i + 1]
      /\ \A i \in 2..(n - 1) :
             /\ Adjust[c][ds[i]] # Adjust[c][ds[i + 1]]
             /\ Stepped(r, s, ds[i], ds[i + 1]) \/ (i = n - 1 /\ Stubbed(r, ds[n]))
      /\ r.rule = "OldCDS" => n >= 2 /\ ds[1] + 28 <= ds[2]
      /\ n >= 2 /\ r.rule = "ThirdWednesday" =>
             MonthNo(ds[1]) < MonthNo(ds[2]) \/ IsImmDate(ds[2])
      /\ \A i \in 1..n : ds[i] \in Int
      BY DEF Laid
<1>4. n >= 3 => ds[n] <= d
      OBVIOUS
<1>5. Adjust[r.endConvention][ds[n]] # Adjust[r.endConvention][r.termination]
      OBVIOUS
<1> HIDE DEF n
<1>6. n >= 3 => /\ n - 1 \in 2..(n - 1) /\ (n - 1) + 1 = n /\ (n + 1) - 2 = n - 1
                /\ (n + 1) - 1 = n /\ n >= 2
                /\ ds[n - 1] \in Int /\ ds[n] \in Int /\ ds[1] \in Int
                /\ es[n - 1] = ds[n - 1] /\ es[n] = ds[n] /\ es[n + 1] = d
      BY <1>1, <1>2, <1>3
<1>7. n >= 3 => /\ Adjust[c][ds[n - 1]] # Adjust[c][ds[n]]
                /\ Stepped(r, s, ds[n - 1], ds[n]) \/ Stubbed(r, ds[n])
      BY <1>3, <1>6
<1>8. \A i \in 1..(n - 1) : es[i] <= es[i + 1]
      <2>1. \A i \in 1..(n - 1) : i \in 1..n /\ i + 1 \in 1..n
            BY <1>1
      <2>2. QED
            BY <1>2, <1>3, <2>1
<1>9. n >= 3 /\ Monthly(r) /\ ~Given(r.nextToLast) => ds[n - 1] + 28 <= d
      <2>1. n >= 3 /\ Monthly(r) /\ ~Given(r.nextToLast) => ds[n - 1] + 28 <= ds[n]
            BY <1>7 DEF Stepped, Stubbed
      <2>2. QED
            BY <1>4, <1>6, <2>1
<1>10. n >= 2 => es[1] = ds[1] /\ es[2] = ds[2]
      BY <1>1, <1>2
<1>11. n >= 3 /\ r.rule \in Thirds =>
           MonthNo(ds[n - 1]) < MonthNo(ds[n]) \/ StubSnapped(r, ds[n], d)
      <2>1. r.rule \in Thirds => Monthly(r) /\ r.rule \notin Twentieths
            BY DEF Orderly, Thirds, AllowsEndOfMonth, Monthly, Twentieths
      <2>2. r.rule \in Thirds /\ Stubbed(r, ds[n]) => StubSnapped(r, ds[n], d)
            <3>1. r.rule \in Thirds /\ Given(r.nextToLast) =>
                      r.rule = "ThirdWednesday" /\ IsImmDate(r.nextToLast)
                  BY DEF Accepted, StubAccepted, Thirds
            <3>2. QED
                  BY <1>5, <2>1, <3>1 DEF StubSnapped, Stubbed
      <2>3. QED
            BY <1>7, <2>1, <2>2 DEF Stepped
<1>12. n >= 3 /\ r.endOfMonth =>
           ds[n] = DayIn(MonthNo(ds[n]), Wanted(r, s)) /\ MonthNo(ds[n - 1]) < MonthNo(ds[n])
      <2>1. r.endOfMonth => r.rule = "Forward" /\ ~Given(r.nextToLast)
            BY DEF Accepted, Orderly
      <2>2. QED
            BY <1>7, <2>1 DEF Stepped, Stubbed
<1>13. /\ n + 1 >= 4 => n >= 3
       /\ n + 1 >= 3 => n >= 2
       /\ (n + 1) - 2 = n - 1 /\ (n + 1) - 1 = n
       BY <1>1
<1>14. QED
       BY <1>1, <1>2, <1>3, <1>4, <1>6, <1>7, <1>8, <1>9, <1>10, <1>11, <1>12, <1>13
          DEF Steady, es

\* Arguments as Schedule::new normalises them: a stub date is not an end, the end of the
\* month is kept by months only, and a tenor of nothing is another rule.
Normal(r) ==
    /\ r.endOfMonth => Monthly(r)
    /\ Given(r.first) => r.first # r.effective
    /\ Given(r.nextToLast) => r.nextToLast # r.termination
    /\ r.rule # "Zero" => r.tenor.length >= 1

\* Where the loop stops.
FarEnd(r) ==
    IF r.rule = "Backward" THEN IF Given(r.first) THEN r.first ELSE r.effective
    ELSE IF Given(r.nextToLast) THEN r.nextToLast ELSE r.termination

LEMMA Built ==
    ASSUME NEW a, NEW b, NEW d
    PROVE  Append(<<a>>, b) = <<a, b>> /\ Append(<<a, b>>, d) = <<a, b, d>>
<1> DEFINE S == {a, b, d}
<1>1. a \in S /\ b \in S /\ d \in S
      OBVIOUS
<1> HIDE DEF S
<1>2. /\ <<a>> \in Seq(S) /\ Len(<<a>>) = 1
      /\ <<a, b>> \in Seq(S) /\ Len(<<a, b>>) = 2
      /\ <<a, b, d>> \in Seq(S) /\ Len(<<a, b, d>>) = 3
      BY <1>1
<1>3. Append(<<a>>, b) = <<a, b>>
      <2> DEFINE u == Append(<<a>>, b)
                 v == <<a, b>>
      <2>1. u \in Seq(S) /\ Len(u) = 2 /\ u[1] = a /\ u[2] = b
            BY <1>1, <1>2
      <2>2. v \in Seq(S) /\ Len(v) = 2 /\ v[1] = a /\ v[2] = b
            BY <1>2
      <2> HIDE DEF u, v
      <2>3. \A i \in 1..Len(u) : u[i] = v[i]
            BY <2>1, <2>2
      <2>4. u = v
            BY <2>1, <2>2, <2>3, SeqEqual
      <2>5. QED
            BY <2>4 DEF u, v
<1>4. Append(<<a, b>>, d) = <<a, b, d>>
      <2> DEFINE u == Append(<<a, b>>, d)
                 v == <<a, b, d>>
      <2>1. u \in Seq(S) /\ Len(u) = 3 /\ u[1] = a /\ u[2] = b /\ u[3] = d
            BY <1>1, <1>2
      <2>2. v \in Seq(S) /\ Len(v) = 3 /\ v[1] = a /\ v[2] = b /\ v[3] = d
            BY <1>2
      <2> HIDE DEF u, v
      <2>3. \A i \in 1..Len(u) : u[i] = v[i]
            BY <2>1, <2>2
      <2>4. u = v
            BY <2>1, <2>2, <2>3, SeqEqual
      <2>5. QED
            BY <2>4 DEF u, v
<1>5. QED
      BY <1>3, <1>4

LEMMA FewAreLaid ==
    ASSUME NEW r, NEW s, NEW a \in Int, NEW b \in Int, NEW d \in Int
    PROVE  /\ r.rule # "OldCDS" /\ a <= r.termination => Laid(r, s, <<a>>, FALSE)
           /\ /\ a <= b
              /\ r.rule = "OldCDS" => a + 28 <= b
              /\ r.rule = "ThirdWednesday" => MonthNo(a) < MonthNo(b) \/ IsImmDate(b)
              /\ b <= r.termination \/ r.rule \in Twentieths
              => Laid(r, s, <<a, b>>, FALSE)
           /\ /\ a <= b /\ b <= d /\ Adjust[r.convention][b] # Adjust[r.convention][d]
              /\ r.rule \in CDSRules /\ b + 28 <= d
              /\ d <= NextTwentieth(r.termination, r.rule)
              => Laid(r, s, <<a, b, d>>, FALSE)
<1>1. ASSUME r.rule # "OldCDS", a <= r.termination
      PROVE  Laid(r, s, <<a>>, FALSE)
      <2> DEFINE ds == <<a>>
      <2>1. Len(ds) = 1 /\ ds[1] = a
            OBVIOUS
      <2> HIDE DEF ds
      <2>2. QED
            BY <1>1, <2>1 DEF Laid, ds
<1>2. ASSUME a <= b, r.rule = "OldCDS" => a + 28 <= b,
             r.rule = "ThirdWednesday" => MonthNo(a) < MonthNo(b) \/ IsImmDate(b),
             b <= r.termination \/ r.rule \in Twentieths
      PROVE  Laid(r, s, <<a, b>>, FALSE)
      <2> DEFINE ds == <<a, b>>
      <2>1. Len(ds) = 2 /\ ds[1] = a /\ ds[2] = b
            OBVIOUS
      <2> HIDE DEF ds
      <2>2. \A i \in 1..(2 - 1) : ds[i] <= ds[i + 1]
            BY <1>2, <2>1
      <2>3. QED
            BY <1>2, <2>1, <2>2 DEF Laid, ds
<1>3. ASSUME a <= b, b <= d, Adjust[r.convention][b] # Adjust[r.convention][d],
             r.rule \in CDSRules, b + 28 <= d, d <= NextTwentieth(r.termination, r.rule)
      PROVE  Laid(r, s, <<a, b, d>>, FALSE)
      <2> DEFINE ds == <<a, b, d>>
      <2>1. Len(ds) = 3 /\ ds[1] = a /\ ds[2] = b /\ ds[3] = d
            OBVIOUS
      <2>2. /\ r.rule # "OldCDS" /\ r.rule # "ThirdWednesday" /\ r.rule \in Twentieths
            /\ r.rule \notin {"Forward"} \cup Thirds
            BY <1>3 DEF CDSRules, Twentieths, Thirds
      <2> HIDE DEF ds
      <2>3. \A i \in 1..(3 - 1) : ds[i] <= ds[i + 1]
            <3>1. \A i \in 1..(3 - 1) : i = 1 \/ i = 2
                  OBVIOUS
            <3>2. 1 + 1 = 2 /\ 2 + 1 = 3
                  OBVIOUS
            <3>3. QED
                  BY <1>3, <2>1, <3>1, <3>2
      <2>4. Stepped(r, s, b, d)
            BY <1>3, <2>2 DEF Stepped
      <2>5. \A i \in 2..(3 - 1) : ds[i] = b /\ ds[i + 1] = d
            BY <2>1
      <2>6. QED
            BY <1>3, <2>1, <2>2, <2>3, <2>4, <2>5 DEF Laid, ds
<1>4. QED
      BY <1>1, <1>2, <1>3

\* Two dates a month apart do not roll together.
LEMMA MonthRollsApart ==
    ASSUME NoLongHolidays, ShortHolidays, NEW c \in Conventions,
           NEW x \in Int, NEW y \in Int, x + 28 <= y
    PROVE  Adjust[c][x] # Adjust[c][y]
<1>1. Horizon \in Nat /\ Horizon <= 8
      BY HorizonAssumption DEF ShortHolidays
<1>2. /\ Adjust[c][x] \in Int /\ Adjust[c][x] <= x + Horizon
      /\ Adjust[c][y] \in Int /\ y - Horizon <= Adjust[c][y]
      BY AdjustRolls
<1>3. QED
      BY <1>1, <1>2

\* The first standard date that is laid: no later than the last one, but by the old rule.
LEMMA FirstTwentiethIs ==
    ASSUME NEW r \in Request, r.rule \in Twentieths, r.effective < r.termination,
           Clear(r.effective, 366), Clear(r.termination, 366)
    PROVE  \E m \in Int :
               /\ OfRule(r.rule, m) /\ FirstTwentieth(r) = Twentieth(m)
               /\ r.effective <= Twentieth(m)
               /\ r.rule = "OldCDS" => r.effective + 28 <= Twentieth(m)
               /\ r.rule # "OldCDS" =>
                      Twentieth(m) <= NextTwentieth(r.termination, r.rule)
<1> DEFINE d == r.effective
           x == NextTwentieth(d, r.rule)
<1>1. d \in Int /\ Clear(d, 130) /\ Clear(r.termination, 130) /\ r.termination \in Int
      BY DEF Clear
<1>2. PICK l \in Int : /\ OfRule(r.rule, l) /\ x = Twentieth(l)
                       /\ d <= Twentieth(l) /\ Twentieth(l) <= d + 130
                       /\ \A j \in Int : j < l /\ OfRule(r.rule, j) => Twentieth(j) < d
      BY <1>1, NextIs
<1>3. Twentieth(l) \in Int
      BY TwentiethIs
<1>4. CASE r.rule = "OldCDS" /\ x - d < 30
      <2>1. FirstTwentieth(r) = NextTwentieth(x + 1, r.rule)
            BY <1>4 DEF FirstTwentieth
      <2>2. Clear(x + 1, 130) /\ x + 1 \in Int
            BY <1>1, <1>2, <1>3, <1>4 DEF Clear
      <2>3. PICK m \in Int : /\ OfRule(r.rule, m) /\ NextTwentieth(x + 1, r.rule) = Twentieth(m)
                             /\ x + 1 <= Twentieth(m)
            BY <2>2, NextIs
      <2>4. Twentieth(m) \in Int
            BY TwentiethIs
      <2>5. l < m
            <3>1. m < l => Twentieth(m) + 28 <= Twentieth(l)
                  BY TwentiethsRise
            <3>2. QED
                  BY <1>2, <1>3, <2>3, <2>4, <3>1
      <2>6. Twentieth(l) + 28 <= Twentieth(m)
            BY <2>5, TwentiethsRise
      <2>7. d + 28 <= Twentieth(m) /\ d <= Twentieth(m)
            BY <1>1, <1>2, <1>3, <2>4, <2>6
      <2>8. QED
            BY <1>4, <2>1, <2>3, <2>7
<1>5. CASE r.rule = "OldCDS" /\ ~(x - d < 30)
      <2>1. FirstTwentieth(r) = x
            BY <1>5 DEF FirstTwentieth
      <2>2. d + 28 <= Twentieth(l)
            BY <1>1, <1>2, <1>3, <1>5
      <2>3. QED
            BY <1>2, <1>5, <2>1, <2>2
<1>6. CASE r.rule # "OldCDS"
      <2>1. FirstTwentieth(r) = x
            BY <1>6 DEF FirstTwentieth
      <2>2. PICK q \in Int : /\ OfRule(r.rule, q)
                             /\ NextTwentieth(r.termination, r.rule) = Twentieth(q)
                             /\ r.termination <= Twentieth(q)
            BY <1>1, NextIs
      <2>3. Twentieth(q) \in Int
            BY TwentiethIs
      <2>4. ~(q < l)
            BY <1>1, <1>2, <2>2, <2>3
      <2>5. Twentieth(l) <= Twentieth(q)
            <3>1. l < q => Twentieth(l) + 28 <= Twentieth(q)
                  BY TwentiethsRise
            <3>2. l < q \/ l = q
                  BY <2>4
            <3>3. QED
                  BY <1>3, <2>3, <3>1, <3>2
      <2>6. QED
            BY <1>2, <1>6, <2>1, <2>2, <2>5
<1>7. QED
      BY <1>4, <1>5, <1>6

LEMMA StandardStartsLaid ==
    ASSUME NoLongHolidays, ShortHolidays, NEW r \in Request, Accepted(r),
           r.rule \in Twentieths, Clear(r.effective, 366), Clear(r.termination, 366), NEW s
    PROVE  Laid(r, s, FromTheStart(r).dates, FALSE)
<1> DEFINE d == r.effective
           x == FirstTwentieth(r)
           open == Opening(r).dates
<1>1. /\ d \in Int /\ r.termination \in Int /\ d < r.termination /\ ~Given(r.first)
      /\ r.convention \in Conventions
      BY DEF Clear, Accepted, StubAccepted, Twentieths, Request
<1>2. PICK m \in Int : /\ OfRule(r.rule, m) /\ x = Twentieth(m) /\ d <= Twentieth(m)
                       /\ r.rule = "OldCDS" => d + 28 <= Twentieth(m)
                       /\ r.rule # "OldCDS" =>
                              Twentieth(m) <= NextTwentieth(r.termination, r.rule)
      BY <1>1, FirstTwentiethIs
<1>3. x \in Int /\ d <= x
      BY <1>2, TwentiethIs
<1>4. FromTheStart(r).dates = IF x # d THEN Append(open, x) ELSE open
      BY <1>1 DEF FromTheStart, Extended
<1>5. r.rule # "ThirdWednesday"
      BY DEF Twentieths
<1> HIDE DEF d, x, open
<1>6. CASE r.rule \notin CDSRules
      <2>1. open = <<d>>
            BY <1>6 DEF Opening, open, d
      <2>2. FromTheStart(r).dates = <<d, x>> \/ (x = d /\ FromTheStart(r).dates = <<d>>)
            BY <1>4, <2>1, Built
      <2>3. r.rule = "OldCDS" => x # d /\ d + 28 <= x
            BY <1>1, <1>2
      <2>4. d <= r.termination
            BY <1>1
      <2>5. QED
            BY <1>1, <1>3, <1>5, <2>2, <2>3, <2>4, FewAreLaid DEF d
<1>7. CASE r.rule \in CDSRules
      <2>1. PICK l \in Int :
                /\ Main(l) /\ Twentieth(l) <= d
                /\ \/ open = <<Twentieth(l)>>
                   \/ /\ open = <<Twentieth(l - 3), Twentieth(l)>>
                      /\ Twentieth(l - 3) + 28 <= Twentieth(l)
            BY <1>7, OpeningIs DEF open, d
      <2> DEFINE p == Twentieth(l)
                 o == Twentieth(l - 3)
      <2>2. p \in Int /\ o \in Int
            <3>1. l - 3 \in Int
                  OBVIOUS
            <3>2. QED
                  BY <3>1, TwentiethIs
      <2>3. x # d => p + 28 <= x
            <3>1. l < m => p + 28 <= x
                  BY <1>2, TwentiethsRise
            <3>2. m < l => x + 28 <= p
                  BY <1>2, TwentiethsRise
            <3>3. m = l => p = x
                  BY <1>2
            <3> HIDE DEF p
            <3>4. p <= d
                  BY <2>1 DEF p
            <3>5. QED
                  BY <1>1, <1>3, <2>2, <3>1, <3>2, <3>3, <3>4
      <2>4. r.rule # "OldCDS"
            BY <1>7 DEF CDSRules
      <2>5. x <= NextTwentieth(r.termination, r.rule)
            BY <1>2, <2>4
      <2>6. x # d => Adjust[r.convention][p] # Adjust[r.convention][x]
            BY <1>1, <1>3, <2>2, <2>3, MonthRollsApart
      <2>7. open = <<p>> \/ (open = <<o, p>> /\ o + 28 <= p)
            BY <2>1
      <2>8. p <= d
            BY <2>1
      <2> HIDE DEF p, o
      <2>9. p <= r.termination
            BY <1>1, <2>2, <2>8
      <2>10. \/ FromTheStart(r).dates = <<p>>
             \/ x # d /\ FromTheStart(r).dates = <<p, x>>
             \/ FromTheStart(r).dates = <<o, p>> /\ o <= p
             \/ x # d /\ FromTheStart(r).dates = <<o, p, x>> /\ o <= p
             <3>1. Append(<<p>>, x) = <<p, x>> /\ Append(<<o, p>>, x) = <<o, p, x>>
                   BY Built
             <3>2. open = <<o, p>> => o <= p
                   BY <2>2, <2>7
             <3>3. QED
                   BY <1>4, <2>7, <3>1, <3>2
      <2>11. x # d => p <= x
             BY <1>3, <2>2, <2>3
      <2>12. QED
             BY <1>3, <1>5, <1>7, <2>2, <2>3, <2>4, <2>5, <2>6, <2>9, <2>10, <2>11, FewAreLaid
<1>8. QED
      BY <1>6, <1>7

LEMMA ForwardStartsLaid ==
    ASSUME NEW r \in Request, Accepted(r), Orderly(r), Normal(r),
           r.rule \notin Twentieths \cup {"Zero", "Backward"}, NEW s
    PROVE  /\ Laid(r, s, FromTheStart(r).dates, FALSE)
           /\ Last(FromTheStart(r).dates) <= FarEnd(r)
<1> DEFINE a == r.effective
           b == r.first
<1>1. /\ a \in Int /\ b \in Int /\ r.termination \in Int /\ r.nextToLast \in Int
      /\ a < r.termination /\ FarEnd(r) \in Int
      BY DEF Request, Date, Accepted, FarEnd
<1>2. /\ r.rule \notin CDSRules /\ r.rule \notin Twentieths /\ r.rule # "OldCDS"
      /\ FarEnd(r) = IF Given(r.nextToLast) THEN r.nextToLast ELSE r.termination
      BY DEF CDSRules, Twentieths, FarEnd
<1>3. Given(r.nextToLast) => r.nextToLast \in a..r.termination
      BY DEF Orderly
<1>4. FarEnd(r) <= r.termination /\ a <= FarEnd(r)
      BY <1>1, <1>2, <1>3
<1>5. Opening(r).dates = <<a>>
      BY <1>2 DEF Opening
<1>6. CASE Given(b)
      <2>1. FromTheStart(r).dates = Append(<<a>>, b)
            BY <1>5, <1>6 DEF FromTheStart, Extended
      <2>2. FromTheStart(r).dates = <<a, b>>
            BY <2>1, Built
      <2>3. a < b /\ b <= FarEnd(r)
            <3>1. b \in a..r.termination /\ b # a
                  BY <1>6 DEF Orderly, Normal
            <3>2. Given(r.nextToLast) => b <= r.nextToLast
                  BY <1>6 DEF Orderly
            <3>3. QED
                  BY <1>1, <1>2, <3>1, <3>2
      <2>4. r.rule = "ThirdWednesday" => IsImmDate(b)
            BY <1>6 DEF Accepted, StubAccepted
      <2> HIDE DEF a, b
      <2>5. b <= r.termination /\ a <= b
            BY <1>1, <1>4, <2>3
      <2>6. Laid(r, s, <<a, b>>, FALSE)
            BY <1>1, <1>2, <2>4, <2>5, FewAreLaid
      <2>7. Last(<<a, b>>) = b
            BY DEF Last
      <2>8. QED
            BY <2>2, <2>3, <2>6, <2>7
<1>7. CASE ~Given(b)
      <2>1. FromTheStart(r).dates = <<a>>
            BY <1>2, <1>5, <1>7 DEF FromTheStart
      <2> HIDE DEF a, b
      <2>2. Laid(r, s, <<a>>, FALSE)
            <3>1. a <= r.termination
                  BY <1>1
            <3>2. QED
                  BY <1>1, <1>2, <3>1, FewAreLaid
      <2>3. Last(<<a>>) = a
            BY DEF Last
      <2>4. QED
            BY <1>4, <2>1, <2>2, <2>3
<1>8. QED
      BY <1>6, <1>7

\* Closing a schedule that was laid forward leaves it steady.
LEMMA ForwardCloses ==
    ASSUME NEW r \in Request, Accepted(r), Orderly(r), Normal(r),
           r.rule \notin {"Zero", "Backward"}, Clear(r.termination, 366),
           NEW s, NEW t, Fits(t), \A i \in 1..Len(t.dates) : t.dates[i] \in Int,
           Laid(r, s, t.dates, FALSE),
           Last(t.dates) <= FarEnd(r) \/ r.rule \in Twentieths
    PROVE  Steady(r, s, ClosedForward(r, t).dates)
<1> DEFINE c == r.convention
           e == r.endConvention
           z == r.nextToLast
           d == r.termination
           onStub == Away(r, Last(t.dates), 1) = z
           u == IF Given(z) THEN Later(t, z, onStub, c) ELSE t
           x == IF r.rule \in Twentieths THEN NextTwentieth(d, r.rule) ELSE d
<1>1. /\ d \in Int /\ z \in Int /\ Clear(d, 130) /\ onStub \in BOOLEAN
      BY DEF Request, Date, Clear
<1>2. ClosedForward(r, t).dates =
          IF Adjust[e][Last(u.dates)] = Adjust[e][d] THEN u.dates ELSE Append(u.dates, x)
      BY DEF ClosedForward, Extended
<1>3. /\ Fits(u) /\ (\A i \in 1..Len(u.dates) : u.dates[i] \in Int)
      /\ Laid(r, s, u.dates, TRUE)
      <2>1. CASE ~Given(z)
            <3>1. u = t
                  BY <2>1
            <3>2. QED
                  BY <3>1 DEF Laid
      <2>2. CASE Given(z)
            <3> DEFINE n == Len(t.dates)
            <3>1. u = t \/ (Adjust[c][Last(t.dates)] # Adjust[c][z] /\ u.dates = Append(t.dates, z))
                  BY <2>2 DEF Later, Extended
            <3>2. u = Later(t, z, onStub, c)
                  BY <2>2
            <3> HIDE DEF onStub, u
            <3>3. Fits(u)
                  BY <1>1, <3>2, LaterFits
            <3>4. CASE u = t
                  BY <3>4 DEF Laid
            <3>5. CASE Adjust[c][Last(t.dates)] # Adjust[c][z] /\ u.dates = Append(t.dates, z)
                  <4>1. Sequential(t.dates) /\ n >= 1 /\ n \in Nat /\ Last(t.dates) = t.dates[n]
                        BY HeadIs DEF Fits
                  <4>2. r.rule \notin Twentieths /\ (r.rule = "ThirdWednesday" => IsImmDate(z))
                        BY <2>2 DEF Accepted, StubAccepted, Twentieths
                  <4>3. t.dates[n] <= z /\ z <= d
                        <5>1. FarEnd(r) = z
                              BY <2>2 DEF FarEnd
                        <5>2. z \in r.effective..r.termination
                              BY <2>2 DEF Orderly
                        <5>3. QED
                              BY <1>1, <4>1, <4>2, <5>1, <5>2
                  <4>4. Stubbed(r, z)
                        BY <2>2 DEF Stubbed
                  <4>5. Laid(r, s, Append(t.dates, z), TRUE)
                        <5>1. Adjust[r.convention][t.dates[n]] # Adjust[r.convention][z]
                              BY <3>5, <4>1
                        <5>2. QED
                              BY <4>1, <4>2, <4>3, <4>4, <5>1, LaidOn
                  <4>6. \A i \in 1..Len(u.dates) : u.dates[i] \in Int
                        <5>1. Len(Append(t.dates, z)) = n + 1
                              BY <4>1, Appended
                        <5>2. /\ \A i \in 1..n : Append(t.dates, z)[i] = t.dates[i]
                              /\ Append(t.dates, z)[n + 1] = z
                              BY <4>1, AppendedAt
                        <5>3. \A i \in 1..(n + 1) : i \in 1..n \/ i = n + 1
                              BY <4>1
                        <5>4. QED
                              BY <1>1, <3>5, <5>1, <5>2, <5>3
                  <4>7. QED
                        BY <3>3, <3>5, <4>5, <4>6
            <3>6. QED
                  BY <3>1, <3>4, <3>5
      <2>3. QED
            BY <2>1, <2>2
<1>4. /\ d <= NextTwentieth(d, r.rule) /\ NextTwentieth(d, r.rule) \in Int
      <2>1. PICK l \in Int : NextTwentieth(d, r.rule) = Twentieth(l) /\ d <= Twentieth(l)
            BY <1>1, NextIs
      <2>2. QED
            BY <2>1, TwentiethIs
<1>5. /\ Len(u.dates) \in Nat /\ Len(u.dates) >= 1 /\ Sequential(u.dates)
      /\ Last(u.dates) = u.dates[Len(u.dates)]
      <2> HIDE DEF u
      <2>1. QED
            BY <1>3, HeadIs DEF Fits
<1> HIDE DEF u
<1>6. CASE Adjust[e][Last(u.dates)] = Adjust[e][d]
      <2>1. Steady(r, s, u.dates)
            BY <1>3, <1>5, LaidIsSteady DEF Normal
      <2>2. QED
            BY <1>2, <1>6, <2>1
<1>7. CASE Adjust[e][Last(u.dates)] # Adjust[e][d]
      <2> DEFINE n == Len(u.dates)
      <2>1. x \in Int /\ (r.rule \notin Twentieths => x = r.termination)
            BY <1>1, <1>4
      <2>2. n >= 3 => u.dates[n] <= x
            <3>1. u.dates[n] <= d \/ (r.rule \in Twentieths /\ (n <= 2 \/ u.dates[n] <= NextTwentieth(d, r.rule)))
                  BY <1>3 DEF Laid
            <3>2. u.dates[n] \in Int
                  BY <1>3, <1>5
            <3>3. QED
                  BY <1>1, <1>4, <1>5, <3>1, <3>2
      <2> HIDE DEF x
      <2>3. Adjust[r.endConvention][u.dates[n]] # Adjust[r.endConvention][r.termination]
            BY <1>5, <1>7
      <2>4. Steady(r, s, Append(u.dates, x))
            BY <1>3, <1>5, <2>1, <2>2, <2>3, LaidToTheLast DEF Normal
      <2>5. QED
            BY <1>2, <1>7, <2>4
<1>8. QED
      BY <1>6, <1>7

LEMMA BackedOn ==
    ASSUME NEW r, NEW s, NEW ds, Sequential(ds), Len(ds) >= 1, NEW least \in Nat, least >= 2,
           Backed(r, s, ds, least), NEW d, d <= ds[1],
           Adjust[r.convention][ds[1]] # Adjust[r.convention][d],
           NEW next \in Nat, least <= next,
           Len(ds) < least /\ Len(ds) + 1 >= next /\ Monthly(r) /\ ~Given(r.nextToLast) =>
               ds[Len(ds)] = s /\ d + 28 <= ds[1] /\ MonthNo(d) < MonthNo(ds[1])
                   /\ Len(ds) = 1
    PROVE  Backed(r, s, <<d>> \o ds, next)
<1> DEFINE n == Len(ds)
           es == <<d>> \o ds
           c == r.convention
           plain == Monthly(r) /\ ~Given(r.nextToLast)
<1>1. n \in Nat /\ n >= 1 /\ Len(es) = n + 1
      <2>1. PICK S : ds \in Seq(S)
            BY DEF Sequential
      <2>2. ds \in Seq(S \cup {d}) /\ <<d>> \in Seq(S \cup {d}) /\ Len(<<d>>) = 1
            BY <2>1
      <2>3. QED
            BY <2>2
<1>2. (\A i \in 1..n : es[i + 1] = ds[i]) /\ es[1] = d
      BY JoinedAt
<1> HIDE DEF es
<1>3. /\ \A i \in 1..(n - 1) : ds[i] <= ds[i + 1]
      /\ \A i \in 1..(n - 2) : Adjust[c][ds[i]] # Adjust[c][ds[i + 1]]
      /\ n >= least /\ plain => ds[n] = s /\ ds[n - 1] + 28 <= ds[n]
                                 /\ MonthNo(ds[n - 1]) < MonthNo(ds[n])
      BY DEF Backed
<1>4. n < least /\ n + 1 >= next /\ plain =>
          ds[n] = s /\ d + 28 <= ds[1] /\ MonthNo(d) < MonthNo(ds[1]) /\ n = 1
      OBVIOUS
<1>5. d <= ds[1] /\ Adjust[c][ds[1]] # Adjust[c][d]
      OBVIOUS
<1> HIDE DEF n, plain
<1>6. \A i \in 1..n : \/ i = 1 /\ es[i] = d /\ es[i + 1] = ds[1]
                      \/ /\ i - 1 \in 1..(n - 1) /\ es[i] = ds[i - 1]
                         /\ es[i + 1] = ds[(i - 1) + 1]
      <2> TAKE i \in 1..n
      <2>1. CASE i = 1
            <3>1. es[i + 1] = ds[i]
                  BY <1>2
            <3>2. QED
                  BY <1>2, <2>1, <3>1
      <2>2. CASE i # 1
            <3>1. i - 1 \in 1..n /\ (i - 1) + 1 = i /\ i - 1 \in 1..(n - 1)
                  BY <1>1, <2>2
            <3>2. es[(i - 1) + 1] = ds[i - 1] /\ es[i + 1] = ds[i]
                  BY <1>2, <3>1
            <3>3. QED
                  BY <3>1, <3>2
      <2>3. QED
            BY <2>1, <2>2
<1>7. \A i \in 1..n : es[i] <= es[i + 1]
      BY <1>3, <1>5, <1>6
<1>8. \A i \in 1..(n - 1) : Adjust[c][es[i]] # Adjust[c][es[i + 1]]
      <2> TAKE i \in 1..(n - 1)
      <2>1. i \in 1..n /\ (i - 1 \in 1..(n - 1) => i - 1 \in 1..(n - 2))
            BY <1>1
      <2>2. QED
            BY <1>3, <1>5, <1>6, <2>1
<1>9. n + 1 >= next /\ plain => /\ es[n + 1] = s /\ es[n] + 28 <= es[n + 1]
                                /\ MonthNo(es[n]) < MonthNo(es[n + 1])
      <2>1. n \in 1..n /\ es[n + 1] = ds[n]
            BY <1>1, <1>2
      <2>2. n >= 2 => es[n] = ds[n - 1]
            <3>1. n >= 2 => n - 1 \in 1..n /\ (n - 1) + 1 = n
                  BY <1>1
            <3>2. QED
                  BY <1>2, <3>1
      <2>3. CASE n >= least
            <3>1. n >= 2
                  BY <1>1, <2>3
            <3>2. QED
                  BY <1>3, <2>1, <2>2, <2>3, <3>1
      <2>4. CASE n < least
            BY <1>2, <1>4, <2>1, <2>4
      <2>5. QED
            BY <1>1, <2>3, <2>4
<1>10. (n + 1) - 1 = n /\ (n + 1) - 2 = n - 1
       BY <1>1
<1>11. QED
       BY <1>1, <1>7, <1>8, <1>9, <1>10 DEF Backed, es, plain

LEMMA BackedLater ==
    ASSUME NEW r, NEW s, NEW ds, Len(ds) \in Nat, NEW least \in Nat,
           Backed(r, s, ds, least), NEW next \in Nat, least <= next
    PROVE  Backed(r, s, ds, next)
<1>1. Len(ds) >= next => Len(ds) >= least
      OBVIOUS
<1>2. QED
      BY <1>1 DEF Backed

\* A date put in front when closing, stub date or start.
LEMMA EarlierBacked ==
    ASSUME NEW r, NEW s, NEW t, Fits(t), \A i \in 1..Len(t.dates) : t.dates[i] \in Int,
           NEW least \in Nat, least >= 2, Backed(r, s, t.dates, least),
           NEW d \in Int, d <= t.dates[1], NEW flag \in BOOLEAN
    PROVE  /\ Backed(r, s, Earlier(t, d, flag, r.convention).dates, least + 1)
           /\ d <= Earlier(t, d, flag, r.convention).dates[1]
           /\ \A i \in 1..Len(Earlier(t, d, flag, r.convention).dates) :
                  Earlier(t, d, flag, r.convention).dates[i] \in Int
<1> DEFINE u == Earlier(t, d, flag, r.convention)
           n == Len(t.dates)
<1>1. /\ n \in Nat /\ n >= 1 /\ Sequential(t.dates) /\ Head(t.dates) = t.dates[1]
      /\ least + 1 \in Nat /\ least <= least + 1
      BY HeadIs DEF Fits
<1>2. \/ u = t
      \/ /\ u.dates = <<d>> \o t.dates
         /\ Adjust[r.convention][t.dates[1]] # Adjust[r.convention][d]
      BY <1>1 DEF Earlier
<1> HIDE DEF u
<1>3. CASE u = t
      <2>1. Backed(r, s, t.dates, least + 1)
            BY <1>1, BackedLater
      <2>2. QED
            BY <1>3, <2>1 DEF u
<1>4. CASE /\ u.dates = <<d>> \o t.dates
           /\ Adjust[r.convention][t.dates[1]] # Adjust[r.convention][d]
      <2>1. ~(n < least /\ n + 1 >= least + 1)
            BY <1>1
      <2>2. Backed(r, s, <<d>> \o t.dates, least + 1)
            BY <1>1, <1>4, <2>1, BackedOn
      <2>3. /\ (\A i \in 1..n : (<<d>> \o t.dates)[i + 1] = t.dates[i])
            /\ (<<d>> \o t.dates)[1] = d
            BY <1>1, JoinedAt
      <2>4. Len(<<d>> \o t.dates) = n + 1
            <3>1. PICK S : t.dates \in Seq(S)
                  BY <1>1 DEF Sequential
            <3>2. /\ t.dates \in Seq(S \cup {d}) /\ <<d>> \in Seq(S \cup {d})
                  /\ Len(<<d>>) = 1
                  BY <3>1
            <3>3. QED
                  BY <3>2
      <2>5. ASSUME NEW i \in 1..(n + 1)
            PROVE  (<<d>> \o t.dates)[i] \in Int
            <3>1. i = 1 \/ (i - 1 \in 1..n /\ (i - 1) + 1 = i)
                  BY <1>1
            <3>2. i - 1 \in 1..n => (<<d>> \o t.dates)[(i - 1) + 1] = t.dates[i - 1]
                  BY <2>3
            <3>3. QED
                  BY <2>3, <3>1, <3>2
      <2>6. d <= d
            OBVIOUS
      <2>7. QED
            BY <1>4, <2>2, <2>3, <2>4, <2>5, <2>6 DEF u
<1>5. QED
      BY <1>2, <1>3, <1>4

LEMMA BackedIsSteady ==
    ASSUME NEW r \in Request, Accepted(r), Orderly(r), Normal(r), r.rule = "Backward",
           NEW s, InRange(s), NEW ds, Len(ds) \in Nat,
           \A i \in 1..Len(ds) : InRange(ds[i]), Backed(r, s, ds, 4)
    PROVE  Steady(r, s, ds)
<1> DEFINE n == Len(ds)
           c == r.convention
<1>1. /\ n \in Nat /\ \A i \in 1..(n - 1) : ds[i] <= ds[i + 1]
      /\ \A i \in 1..(n - 2) : Adjust[c][ds[i]] # Adjust[c][ds[i + 1]]
      /\ n >= 4 /\ Monthly(r) /\ ~Given(r.nextToLast) =>
             /\ ds[n] = s /\ ds[n - 1] + 28 <= ds[n]
             /\ MonthNo(ds[n - 1]) < MonthNo(ds[n])
      /\ \A i \in 1..n : InRange(ds[i])
      BY DEF Backed
<1> HIDE DEF n
<1>2. n >= 4 => /\ n - 2 \in 1..(n - 2) /\ n - 2 \in 1..(n - 1) /\ n - 1 \in 1..(n - 1)
                /\ (n - 2) + 1 = n - 1 /\ (n - 1) + 1 = n
                /\ n - 2 \in 1..n /\ n - 1 \in 1..n /\ n \in 1..n
      BY <1>1
<1>3. n >= 4 => /\ ds[n - 2] <= ds[n - 1] /\ ds[n - 1] <= ds[n]
                /\ Adjust[c][ds[n - 2]] # Adjust[c][ds[n - 1]]
                /\ InRange(ds[n - 2]) /\ InRange(ds[n - 1]) /\ InRange(ds[n])
      BY <1>1, <1>2
<1>4. n >= 4 => ds[n - 2] \in Int /\ ds[n - 1] \in Int /\ ds[n] \in Int
      BY <1>3, InRangeIsInt
<1>5. n >= 4 /\ Monthly(r) /\ ~Given(r.nextToLast) => ds[n - 2] + 28 <= ds[n]
      BY <1>1, <1>3, <1>4
<1>6. n >= 4 /\ r.endOfMonth => ds[n] = DayIn(MonthNo(ds[n]), Wanted(r, s))
                                    /\ MonthNo(ds[n - 2]) < MonthNo(ds[n])
      <2> SUFFICES ASSUME n >= 4, r.endOfMonth
                   PROVE  ds[n] = DayIn(MonthNo(ds[n]), Wanted(r, s))
                              /\ MonthNo(ds[n - 2]) < MonthNo(ds[n])
          OBVIOUS
      <2>1. Monthly(r) /\ ~Given(r.nextToLast) /\ r.tenor.length >= 1
            BY DEF Normal, Orderly
      <2>2. ds[n] = s /\ MonthNo(ds[n - 1]) < MonthNo(ds[n])
            BY <1>1, <2>1
      <2>3. Reckoned(r, s, s, 0)
            BY <2>1, ReckonedSeed
      <2>4. s = DayIn(MonthNo(s) + 0 * Stride(r), Wanted(r, s))
            BY <2>1, <2>3, ReckonedIs
      <2>5. \A m \in Int : Stride(r) \in Int /\ MonthNo(s) \in Int
            BY <2>1, AdvanceIs
      <2>6. MonthNo(s) + 0 * Stride(r) = MonthNo(s)
            <3>1. 0 \in Int
                  OBVIOUS
            <3>2. Stride(r) \in Int /\ MonthNo(s) \in Int
                  BY <2>5, <3>1
            <3>3. QED
                  BY <3>2
      <2>7. MonthNo(ds[n - 2]) <= MonthNo(ds[n - 1])
            BY <1>3, MonthsFollow
      <2>8. MonthNo(ds[n - 2]) \in Int /\ MonthNo(ds[n - 1]) \in Int /\ MonthNo(ds[n]) \in Int
            BY <1>3, DayIs
      <2>9. QED
            BY <2>2, <2>4, <2>6, <2>7, <2>8
<1>7. \A i \in 1..(n - 2) : ds[i] <= ds[i + 1]
      <2>1. \A i \in 1..(n - 2) : i \in 1..(n - 1)
            BY <1>1
      <2>2. QED
            BY <1>1, <2>1
<1>8. r.rule # "OldCDS" /\ r.rule # "ThirdWednesday" /\ r.rule \notin Thirds
      BY DEF Thirds
<1>9. QED
      BY <1>3, <1>5, <1>6, <1>7, <1>8 DEF Steady, n

LEMMA BackwardStarts ==
    ASSUME NEW r \in Request, Accepted(r), Orderly(r), r.rule = "Backward", NEW s
    PROVE  Backed(r, s, FromTheEnd(r).dates, 2) /\ FarEnd(r) <= FromTheEnd(r).dates[1]
<1> DEFINE z == r.nextToLast
           d == r.termination
<1>1. /\ z \in Int /\ d \in Int /\ r.effective \in Int /\ r.first \in Int /\ r.effective < d
      /\ FarEnd(r) = IF Given(r.first) THEN r.first ELSE r.effective
      BY DEF Request, Date, Accepted, FarEnd
<1>2. /\ Given(r.first) => r.first \in r.effective..d
      /\ Given(z) => z \in r.effective..d
      /\ Given(r.first) /\ Given(z) => r.first <= z
      BY DEF Orderly
<1>3. CASE Given(z)
      <2> DEFINE ds == <<z, d>>
      <2>1. FromTheEnd(r).dates = ds
            BY <1>3 DEF FromTheEnd
      <2>2. Len(ds) = 2 /\ ds[1] = z /\ ds[2] = d
            OBVIOUS
      <2> HIDE DEF ds
      <2>3. z <= d /\ FarEnd(r) <= z
            BY <1>1, <1>2, <1>3
      <2>4. \A i \in 1..(2 - 1) : ds[i] <= ds[i + 1]
            BY <2>2, <2>3
      <2>5. Backed(r, s, ds, 2)
            BY <1>3, <2>2, <2>4 DEF Backed
      <2>6. QED
            BY <2>1, <2>2, <2>3, <2>5
<1>4. CASE ~Given(z)
      <2> DEFINE ds == <<d>>
      <2>1. FromTheEnd(r).dates = ds
            BY <1>4 DEF FromTheEnd
      <2>2. Len(ds) = 1 /\ ds[1] = d
            OBVIOUS
      <2> HIDE DEF ds
      <2>3. FarEnd(r) <= d
            BY <1>1, <1>2
      <2>4. Backed(r, s, ds, 2)
            BY <2>2 DEF Backed
      <2>5. QED
            BY <2>1, <2>2, <2>3, <2>4
<1>5. QED
      BY <1>3, <1>4

LEMMA BackwardCloses ==
    ASSUME NEW r \in Request, Accepted(r), r.rule = "Backward", NEW s,
           NEW t, Fits(t), \A i \in 1..Len(t.dates) : t.dates[i] \in Int,
           Backed(r, s, t.dates, 2), FarEnd(r) <= t.dates[1]
    PROVE  Backed(r, s, ClosedBackward(r, t).dates, 4)
<1> DEFINE c == r.convention
           onStub == Away(r, Head(t.dates), -1) = r.first
           u == IF Given(r.first) THEN Earlier(t, r.first, onStub, c) ELSE t
           onStart == Away(r, Head(u.dates), -1) = r.effective
<1>1. /\ r.first \in Int /\ r.effective \in Int /\ onStub \in BOOLEAN /\ onStart \in BOOLEAN
      /\ 2 \in Nat /\ 3 \in Nat /\ 2 + 1 = 3 /\ 3 + 1 = 4
      BY DEF Request, Date
<1>2. ClosedBackward(r, t) = Earlier(u, r.effective, onStart, c)
      BY DEF ClosedBackward
<1>3. /\ Fits(u) /\ (\A i \in 1..Len(u.dates) : u.dates[i] \in Int)
      /\ Backed(r, s, u.dates, 3) /\ r.effective <= u.dates[1]
      <2>1. CASE ~Given(r.first)
            <3>1. u = t /\ FarEnd(r) = r.effective
                  BY <2>1 DEF FarEnd
            <3>2. Backed(r, s, t.dates, 3)
                  BY <1>1, HeadIs, BackedLater
            <3>3. QED
                  BY <3>1, <3>2
      <2>2. CASE Given(r.first)
            <3>1. u = Earlier(t, r.first, onStub, c) /\ FarEnd(r) = r.first
                  BY <2>2 DEF FarEnd
            <3>2. r.effective < r.first
                  BY <2>2 DEF Accepted, StubAccepted
            <3> HIDE DEF onStub, u
            <3>3. Fits(u)
                  BY <1>1, <3>1, EarlierFits
            <3>4. /\ Backed(r, s, u.dates, 3) /\ r.first <= u.dates[1]
                  /\ \A i \in 1..Len(u.dates) : u.dates[i] \in Int
                  <4>1. r.first <= t.dates[1]
                        BY <3>1
                  <4>2. 2 >= 2
                        OBVIOUS
                  <4>3. /\ Backed(r, s, u.dates, 2 + 1) /\ r.first <= u.dates[1]
                        /\ \A i \in 1..Len(u.dates) : u.dates[i] \in Int
                        BY <1>1, <3>1, <4>1, <4>2, EarlierBacked
                  <4>4. QED
                        BY <1>1, <4>3
            <3>5. u.dates[1] \in Int
                  <4>1. 1 \in 1..Len(u.dates)
                        BY <3>3, HeadIs DEF Fits
                  <4>2. QED
                        BY <3>4, <4>1
            <3>6. QED
                  BY <1>1, <3>2, <3>3, <3>4, <3>5
      <2>3. QED
            BY <2>1, <2>2
<1> HIDE DEF u, onStart
<1>4. Backed(r, s, Earlier(u, r.effective, onStart, c).dates, 4)
      <2>1. 3 >= 2
            OBVIOUS
      <2>2. Backed(r, s, Earlier(u, r.effective, onStart, c).dates, 3 + 1)
            BY <1>1, <1>3, <2>1, EarlierBacked
      <2>3. QED
            BY <1>1, <2>2
<1>5. QED
      BY <1>2, <1>4

\* While the loop runs: where its last date is, how far it has counted, and what it keeps
\* of its dates.
Preparing(r, s, m, ds) ==
    IF r.rule = "Backward"
    THEN /\ FarEnd(r) <= ds[1] /\ (Len(ds) = 1 => ds[1] = s)
         /\ \E k \in 0..(m - 1) : Reckoned(r, s, ds[1], -k)
         /\ Backed(r, s, ds, 2)
    ELSE /\ ds[Len(ds)] <= FarEnd(r) \/ r.rule \in Twentieths
         /\ \E k \in 0..(m - 1) : Reckoned(r, s, ds[Len(ds)], k)
         /\ Laid(r, s, ds, FALSE)

LEMMA PreparingBackward ==
    ASSUME NEW r \in Request, r.tenor.length >= 1, r.rule = "Backward",
           NEW s, InRange(s), NEW m \in Nat, NEW t, Fits(t),
           \A i \in 1..Len(t.dates) : InRange(t.dates[i]), Preparing(r, s, m, t.dates),
           NEW x, Reckoned(r, s, x, -m), ~(x < FarEnd(r)),
           NEW u, u = Earlier(t, x, TRUE, r.convention),
           \A i \in 1..Len(u.dates) : InRange(u.dates[i])
    PROVE  Preparing(r, s, m + 1, u.dates)
<1> DEFINE n == Len(t.dates)
           y == t.dates[1]
           c == r.convention
<1>1. /\ n \in Nat /\ n >= 1 /\ Sequential(t.dates) /\ Head(t.dates) = y
      BY HeadIs DEF Fits
<1>2. /\ FarEnd(r) <= y /\ (n = 1 => y = s) /\ Backed(r, s, t.dates, 2)
      /\ \E k \in 0..(m - 1) : Reckoned(r, s, y, -k)
      BY DEF Preparing
<1>3. PICK k \in 0..(m - 1) : Reckoned(r, s, y, -k)
      BY <1>2
<1>4. k \in Int /\ k < m /\ -m \in Int /\ -k \in Int /\ -m < -k
      OBVIOUS
<1>5. /\ x \in Int /\ y \in Int /\ x < y
      /\ Monthly(r) => /\ x + 28 <= y
                       /\ InRange(x) /\ InRange(y) => MonthNo(x) < MonthNo(y)
      BY <1>3, <1>4, ReckonedRises
<1>6. u = t \/ (Adjust[c][y] # Adjust[c][x] /\ u.dates = <<x>> \o t.dates)
      BY <1>1 DEF Earlier
<1>7. FarEnd(r) <= x
       <2>1. FarEnd(r) \in Int
             BY DEF FarEnd, Request, Date
       <2>2. QED
             BY <1>5, <2>1
<1>8. CASE u = t
      <2>1. \E l \in 0..((m + 1) - 1) : Reckoned(r, s, y, -l)
            BY <1>3
      <2>2. QED
            BY <1>2, <1>8, <2>1 DEF Preparing
<1>9. CASE Adjust[c][y] # Adjust[c][x] /\ u.dates = <<x>> \o t.dates
      <2>1. Len(u.dates) = n + 1 /\ u.dates[1] = x
            <3>1. PICK S : t.dates \in Seq(S)
                  BY <1>1 DEF Sequential
            <3>2. /\ t.dates \in Seq(S \cup {x}) /\ <<x>> \in Seq(S \cup {x})
                  /\ Len(<<x>>) = 1
                  BY <3>1
            <3>3. Len(<<x>> \o t.dates) = n + 1 /\ (<<x>> \o t.dates)[1] = x
                  BY <1>1, <3>2
            <3>4. QED
                  BY <1>9, <3>3
      <2>2. InRange(x) /\ InRange(y)
            <3> HIDE DEF n
            <3>1. n + 1 \in Nat /\ 1 <= n + 1
                  BY <1>1
            <3>2. 1 \in 1..(n + 1) /\ 1 \in 1..n
                  BY <1>1, <3>1
            <3>3. QED
                  BY <2>1, <3>2 DEF n
      <2>3. ASSUME n < 2, Monthly(r)
            PROVE  t.dates[n] = s /\ x + 28 <= y /\ MonthNo(x) < MonthNo(y) /\ n = 1
            <3> HIDE DEF n
            <3>1. n = 1
                  BY <1>1, <2>3
            <3>2. QED
                  BY <1>2, <1>5, <2>2, <2>3, <3>1
      <2>4. x <= y /\ 2 \in Nat /\ 2 >= 2 /\ 2 <= 2
            BY <1>5
      <2>5. Backed(r, s, <<x>> \o t.dates, 2)
            BY <1>1, <1>2, <1>9, <2>3, <2>4, BackedOn
      <2>6. m \in 0..((m + 1) - 1)
            OBVIOUS
      <2>7. n + 1 # 1
            BY <1>1
      <2>8. QED
            BY <1>9, <1>7, <2>1, <2>5, <2>6, <2>7 DEF Preparing
<1>10. QED
      BY <1>6, <1>8, <1>9

LEMMA PreparingForward ==
    ASSUME NEW r \in Request, r.tenor.length >= 1, r.rule # "Backward", Orderly(r),
           NEW s, InRange(s), NEW m \in Nat, NEW t, Fits(t),
           \A i \in 1..Len(t.dates) : InRange(t.dates[i]), Preparing(r, s, m, t.dates),
           NEW x, Reckoned(r, s, x, m), ~(x > FarEnd(r)),
           NEW u, u = Later(t, x, TRUE, r.convention),
           \A i \in 1..Len(u.dates) : InRange(u.dates[i])
    PROVE  Preparing(r, s, m + 1, u.dates)
<1> DEFINE n == Len(t.dates)
           y == t.dates[n]
           c == r.convention
<1>1. n \in Nat /\ n >= 1 /\ Sequential(t.dates) /\ Last(t.dates) = y
      BY HeadIs DEF Fits
<1>2. /\ y <= FarEnd(r) \/ r.rule \in Twentieths
      /\ Laid(r, s, t.dates, FALSE)
      /\ \E k \in 0..(m - 1) : Reckoned(r, s, y, k)
      BY DEF Preparing
<1>3. PICK k \in 0..(m - 1) : Reckoned(r, s, y, k)
      BY <1>2
<1>4. k \in Int /\ k < m /\ m \in Int
      OBVIOUS
<1>5. /\ x \in Int /\ y \in Int /\ y < x
      /\ Monthly(r) => /\ y + 28 <= x
                       /\ InRange(y) /\ InRange(x) => MonthNo(y) < MonthNo(x)
      BY <1>3, <1>4, ReckonedRises
<1>6. u = t \/ (Adjust[c][y] # Adjust[c][x] /\ u.dates = Append(t.dates, x))
      BY <1>1 DEF Later, Extended
<1>7. x <= FarEnd(r)
       <2>1. FarEnd(r) \in Int
             BY DEF FarEnd, Request, Date
       <2>2. QED
             BY <1>5, <2>1
<1>8. CASE u = t
      <2>1. \E l \in 0..((m + 1) - 1) : Reckoned(r, s, y, l)
            BY <1>3
      <2>2. QED
            BY <1>2, <1>8, <2>1 DEF Preparing
<1>9. CASE Adjust[c][y] # Adjust[c][x] /\ u.dates = Append(t.dates, x)
      <2>1. Len(u.dates) = n + 1 /\ u.dates[n + 1] = x
            <3>1. Len(Append(t.dates, x)) = n + 1
                  BY <1>1, Appended
            <3>2. Append(t.dates, x)[n + 1] = x
                  BY <1>1, AppendedAt
            <3>3. QED
                  BY <1>9, <3>1, <3>2
      <2>2. InRange(x) /\ InRange(y)
            <3> HIDE DEF n
            <3>1. n + 1 \in 1..(n + 1) /\ n \in 1..n
                  BY <1>1
            <3>2. QED
                  BY <2>1, <3>1 DEF n
      <2>3. Monthly(r) => MonthNo(y) < MonthNo(x) /\ x = DayIn(MonthNo(x), Wanted(r, s))
            <3>1. Monthly(r) => /\ x = DayIn(MonthNo(s) + m * Stride(r), Wanted(r, s))
                                /\ MonthNo(x) = MonthNo(s) + m * Stride(r)
                  BY <1>4, <2>2, ReckonedIs
            <3>2. QED
                  BY <1>5, <2>2, <3>1
      <2>4. Stepped(r, s, y, x)
            BY <1>5, <2>3 DEF Stepped
      <2>5. r.rule = "ThirdWednesday" => MonthNo(y) < MonthNo(x)
            <3>1. r.rule = "ThirdWednesday" => Monthly(r)
                  BY DEF Orderly, AllowsEndOfMonth, Monthly
            <3>2. QED
                  BY <2>3, <3>1
      <2>6. y <= x /\ x <= r.termination
            <3>1. /\ r.termination \in Int /\ r.nextToLast \in Int
                  /\ FarEnd(r) = IF Given(r.nextToLast) THEN r.nextToLast ELSE r.termination
                  BY DEF Request, Date, FarEnd
            <3>2. Given(r.nextToLast) => r.nextToLast \in r.effective..r.termination
                  BY DEF Orderly
            <3>3. r.effective \in Int
                  BY DEF Request, Date
            <3>4. FarEnd(r) <= r.termination /\ FarEnd(r) \in Int
                  BY <3>1, <3>2, <3>3
            <3>5. QED
                  BY <1>5, <1>7, <3>1, <3>4
      <2>7. Laid(r, s, Append(t.dates, x), FALSE)
            BY <1>1, <1>2, <1>9, <2>4, <2>5, <2>6, LaidOn
      <2>8. m \in 0..((m + 1) - 1)
            OBVIOUS
      <2>9. QED
            BY <1>9, <1>7, <2>1, <2>7, <2>8 DEF Preparing
<1>10. QED
      BY <1>6, <1>8, <1>9

\* Rolling moves a date by a month at most, so it stays one of the library's.
LEMMA RollingKeepsDates ==
    ASSUME NoLongHolidays, ShortHolidays, NEW r \in Request, Accepted(r),
           NEW ds, Sequential(ds), \A i \in 1..Len(ds) : Clear(ds[i], 366)
    PROVE  \A i \in 1..Len(ds) : RolledDates(r, ds)[i] \in Nat
<1> DEFINE n == Len(ds)
           day(i) == Snapped(r, n, i, ds[i])
           rolled(i) == IF i = 1 THEN (IF r.rule = "OldCDS" THEN day(i)
                                       ELSE Adjust[r.convention][day(i)])
                        ELSE IF i = n THEN (IF r.rule \in CDSRules THEN day(i)
                                            ELSE Adjust[r.endConvention][day(i)])
                        ELSE Inner(r, day(i))
<1>1. r.convention \in Conventions /\ r.endConvention \in Conventions
      BY DEF Request
<1>2. RolledDates(r, ds) = [i \in 1..n |-> rolled(i)]
      BY DEF RolledDates
<1>3. Horizon \in Nat /\ Horizon <= 8
      BY HorizonAssumption DEF ShortHolidays
<1>4. ASSUME NEW i \in 1..n
      PROVE  rolled(i) \in Nat
      <2> DEFINE x == ds[i]
                 t == ThirdWednesday(x)
                 k == MonthNo(x)
      <2>1. x \in Int /\ 733 <= x /\ InRange(x) /\ Clear(x, 31)
            <3>1. Clear(x, 366)
                  OBVIOUS
            <3> HIDE DEF x
            <3>2. QED
                  BY <3>1 DEF Clear, InRange
      <2>2. t \in Int /\ x - 31 <= t
            <3>1. MonthStart(k) + 14 <= t /\ t \in Int
                  BY <2>1, ThirdWednesdayIs
            <3>2. /\ x = MonthStart(k) + DayOfMonth[x] - 1
                  /\ DayOfMonth[x] \in 1..LengthOf(k)
                  /\ MonthStart(k) \in Int /\ LengthOf(k) \in 28..31
                  BY <2>1, DayIs
            <3> HIDE DEF x, t, k
            <3>3. QED
                  BY <3>1, <3>2
      <2>3. LastOfMonth[x] \in Int /\ x <= LastOfMonth[x]
            BY <2>1, LastsRise
      <2>4. day(i) = x \/ day(i) = t
            BY DEF Snapped
      <2>5. r.endOfMonth => day(i) = x
            BY DEF Snapped, Accepted
      <2> HIDE DEF x, t, k, day
      <2>6. day(i) \in Int /\ 700 <= day(i)
            BY <2>1, <2>2, <2>4
      <2>7. \A d \in Int : \A c \in Conventions :
                700 <= d => Adjust[c][d] \in Nat
            <3> TAKE d \in Int
            <3> TAKE c \in Conventions
            <3> HAVE 700 <= d
            <3>1. Adjust[c][d] \in Int /\ d - Horizon <= Adjust[c][d]
                  BY AdjustRolls
            <3>2. QED
                  BY <1>3, <3>1
      <2>8. r.endOfMonth => LastOfMonth[day(i)] \in Int /\ 700 <= LastOfMonth[day(i)]
            BY <2>1, <2>3, <2>5
      <2>9. Adjust[r.convention][day(i)] \in Nat /\ Adjust[r.endConvention][day(i)] \in Nat
            BY <1>1, <2>6, <2>7
      <2>10. Inner(r, day(i)) \in Nat
             <3>1. r.endOfMonth => Adjust[r.convention][LastOfMonth[day(i)]] \in Nat
                   BY <1>1, <2>7, <2>8
             <3>2. QED
                   BY <2>9, <3>1 DEF Inner
      <2>11. day(i) \in Nat
             BY <2>6
      <2>12. QED
             BY <2>9, <2>10, <2>11
<1> HIDE DEF rolled
<1>5. QED
      BY <1>2, <1>4

LEMMA NoneTurned == \A k \in Int : k = 0 => -k = 0
<1>1. \A k \in Int : -k \in Int /\ k + (-k) = 0
      OBVIOUS
<1>2. \A k, j \in Int : k + j = 0 /\ k = 0 => j = 0
      OBVIOUS
<1>3. QED
      BY <1>1, <1>2, Zenon

LEMMA NewPrepares ==
    ASSUME NoLongHolidays, ShortHolidays, NEW r \in Request, Accepted(r), Orderly(r),
           Normal(r), r.rule # "Zero", Clear(r.effective, 366), Clear(r.termination, 366),
           NEW t, t = IF r.rule = "Backward" THEN FromTheEnd(r) ELSE FromTheStart(r),
           NEW s, s = IF r.rule = "Backward" THEN Head(t.dates) ELSE Last(t.dates), InRange(s)
    PROVE  Preparing(r, s, 1, t.dates)
<1>1. r.tenor.length >= 1
      BY DEF Normal
<1>2. Reckoned(r, s, s, 0)
      BY <1>1, ReckonedSeed
<1>3. Fits(t)
      <2>1. Fits(FromTheEnd(r)) /\ Fits(FromTheStart(r))
            BY FromTheEndFits, FromTheStartFits
      <2>2. QED
            BY <2>1
<1>4. Head(t.dates) = t.dates[1] /\ Last(t.dates) = t.dates[Len(t.dates)]
      BY <1>3, HeadIs
<1>5. 0 \in 0..(1 - 1)
      OBVIOUS
<1>6. CASE r.rule = "Backward"
      <2>1. t = FromTheEnd(r) /\ s = t.dates[1]
            BY <1>4, <1>6
      <2>2. Backed(r, s, t.dates, 2) /\ FarEnd(r) <= t.dates[1]
            BY <1>6, <2>1, BackwardStarts
      <2>3. \E k \in 0..(1 - 1) : Reckoned(r, s, t.dates[1], -k)
            <3>1. \A k \in Int : k = 0 => Reckoned(r, s, s, -k)
                  BY <1>2, NoneTurned
            <3> DEFINE k == 0
            <3>2. k \in Int /\ k = 0 /\ k \in 0..(1 - 1)
                  OBVIOUS
            <3> HIDE DEF k
            <3>3. Reckoned(r, s, t.dates[1], -k)
                  BY <2>1, <3>1, <3>2
            <3>4. QED
                  BY <3>2, <3>3
      <2>4. QED
            BY <1>6, <2>1, <2>2, <2>3 DEF Preparing
<1>7. CASE r.rule # "Backward"
      <2>1. t = FromTheStart(r) /\ s = t.dates[Len(t.dates)]
            BY <1>4, <1>7
      <2>2. \E k \in 0..(1 - 1) : Reckoned(r, s, t.dates[Len(t.dates)], k)
            BY <1>2, <1>5, <2>1
      <2>3. CASE r.rule \in Twentieths
            <3>1. Laid(r, s, t.dates, FALSE)
                  BY <2>1, <2>3, StandardStartsLaid
            <3>2. QED
                  BY <1>7, <2>2, <2>3, <3>1 DEF Preparing
      <2>4. CASE r.rule \notin Twentieths
            <3>1. Laid(r, s, t.dates, FALSE) /\ t.dates[Len(t.dates)] <= FarEnd(r)
                  <4>1. r.rule \notin Twentieths \cup {"Zero", "Backward"}
                        BY <1>7, <2>4
                  <4>2. /\ Laid(r, s, FromTheStart(r).dates, FALSE)
                        /\ Last(FromTheStart(r).dates) <= FarEnd(r)
                        BY <4>1, ForwardStartsLaid
                  <4>3. QED
                        BY <1>4, <2>1, <4>2
            <3>2. QED
                  BY <1>7, <2>2, <3>1 DEF Preparing
      <2>5. QED
            BY <2>3, <2>4
<1>8. QED
      BY <1>6, <1>7

LEMMA ClosesSteady ==
    ASSUME NEW r \in Request, Accepted(r), Orderly(r), Normal(r), r.rule # "Zero",
           Clear(r.termination, 366), NEW s, InRange(s), NEW m, NEW t, Fits(t),
           \A i \in 1..Len(t.dates) : InRange(t.dates[i]), Preparing(r, s, m, t.dates),
           NEW u, u = IF r.rule = "Backward" THEN ClosedBackward(r, t) ELSE ClosedForward(r, t),
           Fits(u), \A i \in 1..Len(u.dates) : InRange(u.dates[i])
    PROVE  Steady(r, s, u.dates)
<1>1. \A i \in 1..Len(t.dates) : t.dates[i] \in Int
      BY InRangeIsInt
<1>2. Last(t.dates) = t.dates[Len(t.dates)]
      BY HeadIs
<1>3. Len(u.dates) \in Nat
      BY HeadIs
<1>4. CASE r.rule = "Backward"
      <2>1. u = ClosedBackward(r, t) /\ Backed(r, s, t.dates, 2) /\ FarEnd(r) <= t.dates[1]
            BY <1>4 DEF Preparing
      <2>2. Backed(r, s, u.dates, 4)
            BY <1>1, <1>4, <2>1, BackwardCloses
      <2>3. QED
            BY <1>3, <1>4, <2>2, BackedIsSteady
<1>5. CASE r.rule # "Backward"
      <2>1. /\ u = ClosedForward(r, t) /\ Laid(r, s, t.dates, FALSE)
            /\ Last(t.dates) <= FarEnd(r) \/ r.rule \in Twentieths
            BY <1>2, <1>5 DEF Preparing
      <2>2. r.rule \notin {"Zero", "Backward"}
            BY <1>5
      <2>3. QED
            BY <1>1, <2>1, <2>2, ForwardCloses
<1>6. QED
      BY <1>4, <1>5

\* The inductive invariant of a build whose arguments are orderly.
OrderInv ==
    /\ phase = "idle" => periods = 1
    /\ phase = "generate" => periods \in Nat /\ request.rule # "Zero"
    /\ phase \in {"generate", "roll", "trim"} => Normal(request)
    /\ Orderly(request) =>
           /\ phase = "generate" =>
                  InRange(seed) /\ Preparing(request, seed, periods, schedule.dates)
           /\ phase = "roll" => /\ Len(schedule.dates) >= 3 => InRange(seed)
                                /\ Steady(request, seed, schedule.dates)
           /\ phase = "trim" => /\ TrimOrders(schedule.dates)
                                /\ \A i \in 1..Len(schedule.dates) : schedule.dates[i] \in Nat
           /\ Ready => MadeInOrder

\* What with_metadata is given is taken as it is.
ListsInOrder == \A l \in Lists : NonDecreasing(l.dates)

LEMMA OrderInit == Init => OrderInv
BY DEF Init, OrderInv, Ready

LEMMA NormalisedIs ==
    ASSUME NEW args \in Requests, Accepted(Normalised(args))
    PROVE  Normal(Normalised(args))
<1> DEFINE r == Normalised(args)
<1>1. /\ args \in Request
      /\ r.effective = args.effective /\ r.termination = args.termination
      /\ r.tenor = args.tenor /\ args.tenor.length \in Int
      /\ r.first = (IF args.first = args.effective THEN NullDate ELSE args.first)
      /\ r.nextToLast = (IF args.nextToLast = args.termination THEN NullDate
                         ELSE args.nextToLast)
      BY RequestsAssumption DEF Normalised, Request, Period
<1>2. r.endOfMonth = (args.endOfMonth /\ AllowsEndOfMonth(args.tenor))
      BY <1>1 DEF Normalised, Request
<1>3. r.rule = IF args.tenor.length = 0 THEN "Zero" ELSE args.rule
      BY <1>1 DEF Normalised, Request
<1>4. r.tenor.length >= 0
      BY DEF Accepted
<1> HIDE DEF r
<1>5. r.endOfMonth => Monthly(r)
      BY <1>1, <1>2 DEF AllowsEndOfMonth, Monthly
<1>6. r.rule # "Zero" => r.tenor.length >= 1
      BY <1>1, <1>3, <1>4
<1>7. QED
      BY <1>1, <1>5, <1>6 DEF Normal, Given, r

LEMMA OrderNew ==
    ASSUME RequestInv, FlagsInv', NoLongHolidays, ShortHolidays, DatesWithin', OrderInv,
           NEW args \in Requests, New(args)
    PROVE  OrderInv'
<1> DEFINE r == Normalised(args)
<1>1. /\ phase = "idle" /\ periods' = periods /\ request' = r
      /\ UNCHANGED <<added, removed>>
      /\ IF Accepted(r) THEN NewStarts(r) ELSE phase' = "refused"
      BY DEF New, calendarVars
<1>2. periods' = 1
      BY <1>1 DEF OrderInv
<1>3. r \in Request
      BY <1>1, RequestStep DEF RequestInv, Next
<1>4. Accepted(r) => Normal(r)
      BY NormalisedIs
<1> HIDE DEF r
<1>5. CASE ~Accepted(r)
      BY <1>1, <1>5 DEF OrderInv, Ready
<1>6. CASE Accepted(r) /\ r.rule = "Zero"
      <2>1. phase' = "roll" /\ schedule' = Zero(r)
            BY <1>1, <1>6 DEF NewStarts
      <2> DEFINE ds == <<r.effective, r.termination>>
      <2>2. schedule'.dates = ds /\ Len(ds) = 2
            BY <2>1 DEF Zero
      <2> HIDE DEF ds
      <2>3. Len(schedule'.dates) = 2
            BY <2>2
      <2>4. Steady(request, seed, schedule.dates)'
            BY <2>3 DEF Steady
      <2>5. Normal(request)'
            BY <1>1, <1>4, <1>6 DEF Normal, Monthly
      <2>6. QED
            BY <2>1, <2>3, <2>4, <2>5 DEF OrderInv, Ready
<1>7. CASE Accepted(r) /\ r.rule # "Zero"
      <2> DEFINE back == r.rule = "Backward"
      <2>1. /\ phase' = "generate"
            /\ schedule' = IF back THEN FromTheEnd(r) ELSE FromTheStart(r)
            /\ seed' = IF back THEN Head(schedule'.dates) ELSE Last(schedule'.dates)
            BY <1>1, <1>7 DEF NewStarts
      <2>2. Clear(r.effective, 366) /\ Clear(r.termination, 366)
            BY <1>1, <2>1 DEF DatesWithin
      <2>3. InRange(seed')
            <3>1. Fits(schedule')
                  <4>1. Fits(FromTheEnd(r)) /\ Fits(FromTheStart(r))
                        BY FromTheEndFits, FromTheStartFits
                  <4>2. QED
                        BY <2>1, <4>1
            <3>2. \A t : Fits(t) => /\ Len(t.dates) \in Nat /\ Len(t.dates) >= 1
                                    /\ Head(t.dates) = t.dates[1]
                                    /\ Last(t.dates) = t.dates[Len(t.dates)]
                  BY HeadIs DEF Fits
            <3>3. 1 \in 1..Len(schedule'.dates) /\ Len(schedule'.dates) \in 1..Len(schedule'.dates)
                  BY <3>1, <3>2
            <3>4. /\ Clear(schedule'.dates[1], 366)
                  /\ Clear(schedule'.dates[Len(schedule'.dates)], 366)
                  BY <2>1, <3>3 DEF DatesWithin
            <3>5. seed' \in {schedule'.dates[1], schedule'.dates[Len(schedule'.dates)]}
                  BY <2>1, <3>1, <3>2
            <3>6. QED
                  BY <3>4, <3>5 DEF Clear, InRange
      <2>4. Orderly(r) => Preparing(r, seed', 1, schedule'.dates)
            <3>1. \A t, s : /\ Orderly(r) /\ InRange(s)
                            /\ t = (IF back THEN FromTheEnd(r) ELSE FromTheStart(r))
                            /\ s = (IF back THEN Head(t.dates) ELSE Last(t.dates))
                            => Preparing(r, s, 1, t.dates)
                  BY <1>3, <1>4, <1>7, <2>2, NewPrepares
            <3>2. QED
                  BY <2>1, <2>3, <3>1
      <2>5. Orderly(request)' => Preparing(request, seed, periods, schedule.dates)'
            <3>1. Orderly(request)' <=> Orderly(r)
                  BY <1>1 DEF Orderly
            <3>2. QED
                  BY <1>1, <1>2, <2>4, <3>1, AdjustStays
                     DEF Preparing, Backed, Laid, Stepped, Stubbed, FarEnd, Reckoned, Away
      <2>6. Normal(request)'
            BY <1>1, <1>4, <1>7 DEF Normal, Monthly
      <2>7. periods' \in Nat /\ request'.rule # "Zero"
            BY <1>1, <1>2, <1>7
      <2>8. QED
            BY <2>1, <2>3, <2>5, <2>6, <2>7 DEF OrderInv, Ready
<1>8. QED
      BY <1>5, <1>6, <1>7

LEMMA OrderGenerate ==
    ASSUME RequestInv, FlagsInv, FlagsInv', NoLongHolidays, ShortHolidays, DatesWithin,
           DatesWithin', CandidatesInRange, OrderInv, Generate
    PROVE  OrderInv'
<1> DEFINE r == request
           back == r.rule = "Backward"
           m == IF back THEN -periods ELSE periods
           x == Candidate
<1>1. /\ phase = "generate" /\ ~Passed
      /\ UNCHANGED <<added, removed, phase, request, seed>>
      /\ schedule' = IF back THEN Earlier(schedule, x, TRUE, r.convention)
                     ELSE Later(schedule, x, TRUE, r.convention)
      /\ periods' = periods + 1
      BY DEF Generate, calendarVars
<1>2. periods \in Nat /\ r.rule # "Zero" /\ Normal(r) /\ r \in Request
      BY <1>1 DEF OrderInv, RequestInv
<1>3. /\ r.tenor.length >= 1
      /\ x = Away(r, seed, m) /\ InRange(Advance(seed, Times(m, r.tenor)))
      BY <1>1, <1>2 DEF Normal, Candidate, CandidatesInRange
<1>4. Fits(schedule) /\ Fits(schedule')
      BY <1>1 DEF FlagsInv
<1>5. \A d : Clear(d, 366) => InRange(d)
      BY DEF Clear, InRange
<1>6. /\ \A i \in 1..Len(schedule.dates) : InRange(schedule.dates[i])
      /\ \A i \in 1..Len(schedule'.dates) : InRange(schedule'.dates[i])
      BY <1>1, <1>5 DEF DatesWithin
<1>7. IF back THEN ~(x < FarEnd(r)) ELSE ~(x > FarEnd(r))
      BY <1>1 DEF Passed, FarEnd
<1> HIDE DEF x
<1>8. ASSUME Orderly(r)
      PROVE  InRange(seed) /\ Preparing(r, seed, periods + 1, schedule'.dates)
      <2>1. InRange(seed) /\ Preparing(r, seed, periods, schedule.dates)
            BY <1>1, <1>8 DEF OrderInv
      <2>2. CASE back
            <3>1. Reckoned(r, seed, x, -periods)
                  BY <1>3, <2>2 DEF Reckoned
            <3>2. \A u : /\ u = Earlier(schedule, x, TRUE, r.convention)
                         /\ \A i \in 1..Len(u.dates) : InRange(u.dates[i])
                         => Preparing(r, seed, periods + 1, u.dates)
                  BY <1>2, <1>3, <1>4, <1>6, <1>7, <2>1, <2>2, <3>1, PreparingBackward
            <3>3. schedule' = Earlier(schedule, x, TRUE, r.convention)
                  BY <1>1, <2>2
            <3>4. QED
                  BY <1>6, <2>1, <3>2, <3>3
      <2>3. CASE ~back
            <3>1. Reckoned(r, seed, x, periods)
                  BY <1>3, <2>3 DEF Reckoned
            <3>2. \A u : /\ u = Later(schedule, x, TRUE, r.convention)
                         /\ \A i \in 1..Len(u.dates) : InRange(u.dates[i])
                         => Preparing(r, seed, periods + 1, u.dates)
                  BY <1>2, <1>3, <1>4, <1>6, <1>7, <1>8, <2>1, <2>3, <3>1, PreparingForward
            <3>3. schedule' = Later(schedule, x, TRUE, r.convention)
                  BY <1>1, <2>3
            <3>4. QED
                  BY <1>6, <2>1, <3>2, <3>3
      <2>4. QED
            BY <2>2, <2>3
<1>9. Orderly(request)' => InRange(seed)' /\ Preparing(request, seed, periods, schedule.dates)'
      <2>1. Orderly(request)' <=> Orderly(r)
            BY <1>1 DEF Orderly
      <2>2. InRange(seed)' <=> InRange(seed)
            BY <1>1
      <2>3. QED
            BY <1>1, <1>8, <2>1, <2>2, AdjustStays
               DEF Preparing, Backed, Laid, Stepped, Stubbed, FarEnd, Reckoned, Away
<1>10. Normal(request)' /\ periods' \in Nat /\ request'.rule # "Zero"
      BY <1>1, <1>2 DEF Normal, Monthly
<1>11. phase' = "generate"
      BY <1>1
<1>12. QED
      BY <1>9, <1>10, <1>11 DEF OrderInv, Ready

LEMMA OrderClose ==
    ASSUME RequestInv, FlagsInv, FlagsInv', DatesWithin, DatesWithin', OrderInv, Close
    PROVE  OrderInv'
<1> DEFINE r == request
           back == r.rule = "Backward"
<1>1. /\ phase = "generate" /\ phase' = "roll"
      /\ UNCHANGED <<added, removed, request, seed, periods>>
      /\ schedule' = IF back THEN ClosedBackward(r, schedule) ELSE ClosedForward(r, schedule)
      BY DEF Close, calendarVars
<1>2. /\ r.rule # "Zero" /\ Normal(r) /\ r \in Request /\ Accepted(r)
      BY <1>1 DEF OrderInv, RequestInv
<1>3. Fits(schedule) /\ Fits(schedule')
      BY <1>1 DEF FlagsInv
<1>4. \A d : Clear(d, 366) => InRange(d)
      BY DEF Clear, InRange
<1>5. /\ Clear(r.termination, 366)
      /\ \A i \in 1..Len(schedule.dates) : InRange(schedule.dates[i])
      /\ \A i \in 1..Len(schedule'.dates) : InRange(schedule'.dates[i])
      BY <1>1, <1>4 DEF DatesWithin
<1>6. ASSUME Orderly(r)
      PROVE  InRange(seed) /\ Steady(r, seed, schedule'.dates)
      <2>1. InRange(seed) /\ Preparing(r, seed, periods, schedule.dates)
            BY <1>1, <1>6 DEF OrderInv
      <2>2. \A u : /\ u = (IF back THEN ClosedBackward(r, schedule)
                           ELSE ClosedForward(r, schedule))
                   /\ Fits(u)
                   /\ \A i \in 1..Len(u.dates) : InRange(u.dates[i])
                   => Steady(r, seed, u.dates)
            BY <1>2, <1>3, <1>5, <1>6, <2>1, ClosesSteady
      <2>3. QED
            BY <1>1, <1>3, <1>5, <2>1, <2>2
<1>7. Orderly(request)' => InRange(seed)' /\ Steady(request, seed, schedule.dates)'
      <2>1. Orderly(request)' <=> Orderly(r)
            BY <1>1 DEF Orderly
      <2>2. InRange(seed)' <=> InRange(seed)
            BY <1>1
      <2>3. QED
            BY <1>1, <1>6, <2>1, <2>2, AdjustStays DEF Steady, StubSnapped
<1>8. Normal(request)'
      BY <1>1, <1>2 DEF Normal, Monthly
<1>9. QED
      BY <1>1, <1>7, <1>8 DEF OrderInv, Ready

LEMMA OrderRoll ==
    ASSUME RequestInv, FlagsInv, NoLongHolidays, ShortHolidays, DatesWithin, OrderInv, Roll
    PROVE  OrderInv'
<1> DEFINE r == request
           ds == schedule.dates
           R == RolledDates(r, ds)
<1>1. /\ phase = "roll" /\ phase' = "trim"
      /\ UNCHANGED <<added, removed, request, seed, periods>>
      /\ schedule' = [schedule EXCEPT !.dates = R]
      BY DEF Roll, calendarVars
<1>2. /\ Normal(r) /\ r \in Request /\ Accepted(r)
      BY <1>1 DEF OrderInv, RequestInv
<1>3. Fits(schedule) /\ \A i \in 1..Len(ds) : Clear(ds[i], 366)
      BY <1>1 DEF FlagsInv, DatesWithin
<1>4. Len(ds) \in Nat /\ Sequential(ds)
      BY <1>3, HeadIs DEF Fits
<1>5. schedule'.dates = R
      <2>1. DOMAIN schedule = {"dates", "flags"}
            BY <1>3 DEF Fits
      <2>2. QED
            BY <1>1, <2>1
<1>6. Len(R) = Len(ds) /\ \A i \in 1..Len(ds) : R[i] \in Nat
      <2>1. \A i \in 1..Len(ds) : R[i] \in Nat
            BY <1>2, <1>3, <1>4, RollingKeepsDates
      <2>2. Len(R) = Len(ds)
            BY <1>4 DEF RolledDates
      <2>3. QED
            BY <2>1, <2>2
<1>7. ASSUME Orderly(r)
      PROVE  TrimOrders(R)
      <2>1. (Len(ds) >= 3 => InRange(seed)) /\ Steady(r, seed, ds)
            BY <1>1, <1>7 DEF OrderInv
      <2>2. r.endOfMonth => Monthly(r)
            BY <1>2 DEF Normal
      <2>3. QED
            BY <1>2, <1>3, <1>4, <1>7, <2>1, <2>2, RollingOrders
<1> HIDE DEF R
<1>8. Orderly(request)' => /\ TrimOrders(schedule.dates)'
                           /\ \A i \in 1..Len(schedule'.dates) : schedule'.dates[i] \in Nat
      <2>1. Orderly(request)' <=> Orderly(r)
            BY <1>1 DEF Orderly
      <2>2. TrimOrders(schedule.dates)' <=> TrimOrders(R)
            BY <1>5 DEF TrimOrders
      <2>3. QED
            BY <1>5, <1>6, <1>7, <2>1, <2>2
<1>9. Normal(request)'
      BY <1>1, <1>2 DEF Normal, Monthly
<1>10. QED
      BY <1>1, <1>8, <1>9 DEF OrderInv, Ready

LEMMA OrderTrim ==
    ASSUME FlagsInv, FlagsInv', OrderInv, Trim
    PROVE  OrderInv'
<1> DEFINE s == schedule
           t == HeadTrimmed(TailTrimmed(schedule))
<1>1. /\ phase = "trim" /\ phase' = IF Len(t.dates) > 1 THEN "ready" ELSE "refused"
      /\ UNCHANGED <<added, removed, request, seed, periods>>
      /\ schedule' = t /\ made' = t
      BY DEF Trim, calendarVars
<1>2. Fits(s)
      BY <1>1 DEF FlagsInv
<1>3. ASSUME Orderly(request), Len(t.dates) > 1
      PROVE  t.dates \in Seq(Date) /\ NonDecreasing(t.dates)
      <2>1. TrimOrders(s.dates) /\ \A i \in 1..Len(s.dates) : s.dates[i] \in Nat
            BY <1>1, <1>3 DEF OrderInv
      <2>2. s.dates \in Seq(Int)
            <3>1. PICK S : s.dates \in Seq(S)
                  BY <1>2 DEF Fits, Sequential
            <3>2. \A i \in 1..Len(s.dates) : s.dates[i] \in Int
                  BY <2>1
            <3>3. QED
                  BY <3>1, <3>2
      <2>3. NonDecreasing(t.dates)
            BY <1>2, <1>3, <2>1, <2>2, TrimmingSorts
      <2>4. Thinned(s, t)
            BY <1>2, TrimmingThins
      <2>5. Fits(t)
            <3>1. Fits(TailTrimmed(s))
                  BY <1>2, TailTrimmedFits
            <3>2. QED
                  BY <3>1, HeadTrimmedFits
      <2> HIDE DEF t
      <2>6. \A i \in 1..Len(t.dates) : t.dates[i] \in Nat
            BY <1>3, <2>1, <2>4 DEF Thinned
      <2>7. t.dates \in Seq(Date)
            <3>1. PICK S : t.dates \in Seq(S)
                  BY <2>5 DEF Fits, Sequential
            <3>2. QED
                  BY <2>6, <3>1 DEF Date
      <2>8. QED
            BY <2>3, <2>7
<1> HIDE DEF t
<1>4. Orderly(request)' <=> Orderly(request)
      BY <1>1 DEF Orderly
<1>5. phase' = "ready" => Len(t.dates) > 1
      BY <1>1
<1>6. Orderly(request)' /\ Ready' => MadeInOrder'
      BY <1>1, <1>3, <1>4, <1>5 DEF MadeInOrder, NonDecreasing, Ready
<1>7. phase' \in {"ready", "refused"}
      BY <1>1
<1>8. QED
      BY <1>6, <1>7 DEF OrderInv

LEMMA OrderStep ==
    ASSUME ShortHolidays, ListsInOrder, RequestInv, FlagsInv, FlagsInv', NoLongHolidays,
           DatesWithin, DatesWithin', CandidatesInRange, OrderInv, [Next]_vars
    PROVE  OrderInv'
<1>1. ASSUME NEW args \in Requests, New(args)
      PROVE  OrderInv'
      BY <1>1, OrderNew
<1>2. ASSUME NEW l \in Lists, WithMetadata(l)
      PROVE  OrderInv'
      <2>1. phase' = "ready" /\ made' = l
            BY <1>2 DEF WithMetadata
      <2>2. l.dates \in Seq(Date) /\ NonDecreasing(l.dates)
            BY ListsAssumption DEF ListsInOrder
      <2>3. MadeInOrder'
            BY <2>1, <2>2 DEF MadeInOrder, NonDecreasing
      <2>4. QED
            BY <2>1, <2>3 DEF OrderInv
<1>3. ASSUME Generate
      PROVE  OrderInv'
      BY <1>3, OrderGenerate
<1>4. ASSUME Close
      PROVE  OrderInv'
      BY <1>4, OrderClose
<1>5. ASSUME Roll
      PROVE  OrderInv'
      BY <1>5, OrderRoll
<1>6. ASSUME Trim
      PROVE  OrderInv'
      BY <1>6, OrderTrim
<1>7. ASSUME phase = "ready", UNCHANGED <<phase, request, made>>
      PROVE  OrderInv'
      <2>1. Orderly(request)' <=> Orderly(request)
            BY <1>7 DEF Orderly
      <2>2. MadeInOrder' <=> MadeInOrder
            BY <1>7 DEF MadeInOrder, NonDecreasing
      <2>3. phase' = "ready"
            BY <1>7
      <2>4. QED
            BY <1>7, <2>1, <2>2, <2>3 DEF OrderInv, Ready
<1>8. ASSUME phase = "idle", UNCHANGED <<phase, periods>>
      PROVE  OrderInv'
      BY <1>8 DEF OrderInv, Ready
<1>9. ASSUME UNCHANGED vars
      PROVE  OrderInv'
      BY <1>9, AdjustStays
         DEF vars, builder, calendarVars, OrderInv, Ready, MadeInOrder, NonDecreasing, Orderly,
             Normal, Monthly, TrimOrders, Steady, StubSnapped,
             Preparing, Backed, Laid, Stepped, Stubbed, FarEnd, Reckoned, Away
<1>10. QED
      BY <1>1, <1>2, <1>3, <1>4, <1>5, <1>6, <1>7, <1>8, <1>9
         DEF Next, ProgramStep, After, Until, Cutting, EditHolidays, builder

LEMMA OrderInvariant ==
    ASSUME ShortHolidays, ListsInOrder
    PROVE  Spec /\ []NoLongHolidays /\ []DatesWithin /\ []CandidatesInRange
               => [](FlagsInv /\ MetaInv /\ CutsInv /\ OrderInv)
<1>1. Init => RequestInv /\ FlagsInv /\ MetaInv /\ CutsInv /\ OrderInv
      BY RequestInit, FlagsInit, CutsInit, OrderInit
<1>2. RequestInv /\ FlagsInv /\ MetaInv /\ CutsInv /\ OrderInv /\ NoLongHolidays
          /\ DatesWithin /\ DatesWithin' /\ CandidatesInRange /\ [Next]_vars
          => RequestInv' /\ FlagsInv' /\ MetaInv' /\ CutsInv' /\ OrderInv'
      BY RequestStep, FlagsStep, MetaStep, CutsStep, OrderStep
<1>3. QED
      BY <1>1, <1>2, PTL DEF Spec

\* Ordered for any market, arguments and overrides ("a non-decreasing sequence of
\* dates"): whatever the rule counts, snaps and rolls, and however the two conventions
\* differ, trimming one date at each end leaves none before the one it follows, and no
\* cut does after that.
THEOREM SchedulesAreOrdered ==
    ASSUME ShortHolidays, ListsInOrder
    PROVE  Spec /\ []NoLongHolidays /\ []DatesWithin /\ []CandidatesInRange => []Ordered
<1>1. FlagsInv /\ MetaInv /\ CutsInv /\ OrderInv => Ordered
      BY MadeInOrderIs, InWindowIsOrdered DEF CutsInv, OrderInv, Ordered
<1>2. QED
      BY <1>1, OrderInvariant, PTL

\* CutToWindow for any market, arguments and overrides: a schedule that Schedule::new
\* has made is cut by `after` and `until`, in whatever order, to the dates it had
\* between the innermost cuts and the cuts themselves.
THEOREM SchedulesAreCutToTheWindow ==
    ASSUME ShortHolidays, ListsInOrder
    PROVE  Spec /\ []NoLongHolidays /\ []DatesWithin /\ []CandidatesInRange => []CutToWindow
<1>1. FlagsInv /\ MetaInv /\ CutsInv /\ OrderInv => CutToWindow
      <2> SUFFICES ASSUME CutsInv, OrderInv
                   PROVE  CutToWindow
          OBVIOUS
      <2>1. CASE Ready /\ Orderly(request)
            BY <2>1, MadeInOrderIs, InWindowIsCut DEF CutsInv, OrderInv
      <2>2. CASE ~(Ready /\ Orderly(request))
            BY <2>2 DEF CutToWindow
      <2>3. QED
            BY <2>1, <2>2
<1>2. QED
      BY <1>1, OrderInvariant, PTL

\* PeriodsKeepFlags of every schedule made from orderly arguments, for any market and
\* overrides: through all its truncations is_regular_at tells of a period what
\* Schedule::new said of it, and of one that a cut has shortened that it is irregular.
THEOREM SchedulesKeepFlags ==
    ASSUME ShortHolidays, ListsInOrder
    PROVE  Spec /\ []NoLongHolidays /\ []DatesWithin /\ []CandidatesInRange
               => [](Orderly(request) => PeriodsKeepFlags)
<1>1. FlagsInv /\ MetaInv /\ CutsInv /\ OrderInv => (Orderly(request) => PeriodsKeepFlags)
      <2> SUFFICES ASSUME CutsInv, OrderInv, Orderly(request), Ready, made.flags # <<>>,
                          NEW p \in Range(PeriodsOf(schedule)) \ Range(PeriodsOf(made))
                   PROVE  ~p[3] /\ \A q \in Range(PeriodsOf(made)) : q[1] # p[1] \/ q[2] # p[2]
          BY DEF PeriodsKeepFlags
      <2>1. Traced(schedule, made) /\ Fits(made) /\ made.dates \in Seq(Date)
            BY MadeInOrderIs DEF OrderInv, CutsInv, InItsWindow, MadeInOrder
      <2>2. QED
            BY <2>1, TracedKeepsFlags
<1>2. QED
      BY <1>1, OrderInvariant, PTL

============================================================================
