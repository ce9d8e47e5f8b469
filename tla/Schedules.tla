----------------------------- MODULE Schedules -----------------------------
\* Payment schedules (crates/libitofin/src/time/schedule.rs): a sequence of dates, and
\* a flag for each period between two of them that says whether it is a regular one.
\* A schedule is generated from a rule, one date per step, over calendar days; then
\* its dates are rolled to business days, and dates that have collapsed onto the ends
\* are trimmed. A client may then cut it at either side, as often as it likes, while
\* the holidays of the calendar it shares are edited.

EXTENDS Calendars, SequencesExt

CONSTANTS
    Requests,           \* the argument lists of Schedule::new that are tried
    Lists,              \* the dates and flags that are given to with_metadata
    CutDates, MaxCuts,  \* where, and how often at most, a schedule is truncated
    EditDates, MaxEdits \* which holidays are edited, and how often at most

VARIABLES
    phase,              \* "idle", "generate", "roll", "trim", "ready" or "refused"
    request,            \* the arguments, once normalised
    seed, periods,      \* the loop of Schedule::new: the next date is seed +- periods tenors
    schedule,           \* dates and is_regular
    meta,               \* the conventions and stub dates a truncation may change
    made, window,       \* history: the schedule as made, and where it was cut since
    cuts, edits         \* history: truncations and edits so far

builder == <<phase, request, seed, periods, schedule, meta, made, window, cuts>>
vars == <<calendarVars, builder, edits>>

Rules ==
    {"Zero", "Backward", "Forward", "ThirdWednesday", "ThirdWednesdayInclusive",
     "Twentieth", "TwentiethIMM", "OldCDS", "CDS", "CDS2015"}
Twentieths == {"Twentieth", "TwentiethIMM", "OldCDS", "CDS", "CDS2015"}
CDSRules == {"CDS", "CDS2015"}

Request ==
    [effective : Date, termination : Date, tenor : Period, rule : Rules,
     convention : Conventions, endConvention : Conventions, endOfMonth : BOOLEAN,
     first : Date, nextToLast : Date]

NoRequest ==
    [effective |-> NullDate, termination |-> NullDate,
     tenor |-> [length |-> 0, units |-> "Days"], rule |-> "Zero",
     convention |-> "Unadjusted", endConvention |-> "Unadjusted", endOfMonth |-> FALSE,
     first |-> NullDate, nextToLast |-> NullDate]

ASSUME RequestsAssumption == Requests \subseteq Request
ASSUME ListsAssumption ==
    \A l \in Lists :
        /\ l \in [dates : Seq(Date), flags : Seq(BOOLEAN)]
        /\ l.flags # <<>> => Len(l.flags) = Len(l.dates) - 1
ASSUME BoundsAssumption ==
    CutDates \subseteq Date /\ EditDates \subseteq Date /\ MaxCuts \in Nat /\ MaxEdits \in Nat

Given(d) == d # NullDate

----------------------------------------------------------------------------
\* The helpers of the rules.

AllowsEndOfMonth(tenor) == tenor.units \in {"Months", "Years"} /\ tenor.length >= 1

\* Back or on to the next main month: March, June, September, December.
PreviousTwentieth(d, rule) ==
    LET t == DateOf(20, Month[d], Year[d])
        p == IF t > d THEN AddMonths[-1][t] ELSE t
    IN  IF rule = "Twentieth" THEN p ELSE AddMonths[-(Month[p] % 3)][p]

NextTwentieth(d, rule) ==
    LET t == DateOf(20, Month[d], Year[d])
        n == IF t < d THEN AddMonths[1][t] ELSE t
    IN  IF rule = "Twentieth" \/ Month[n] % 3 = 0 THEN n
        ELSE AddMonths[3 - (Month[n] % 3)][n]

IsImmDate(d) == Weekday(d) = Wednesday /\ DayOfMonth[d] \in 15..21

ThirdWednesday(d) == NthWeekday(3, Wednesday, Month[d], Year[d])

----------------------------------------------------------------------------
\* Schedule::new, up to its loop: what is accepted, and the first dates.

Normalised(r) ==
    [r EXCEPT !.endOfMonth = @ /\ AllowsEndOfMonth(r.tenor),
              !.first = IF @ = r.effective THEN NullDate ELSE @,
              !.nextToLast = IF @ = r.termination THEN NullDate ELSE @,
              !.rule = IF r.tenor.length = 0 THEN "Zero" ELSE @]

\* A stub date must suit the rule, and for two rules lie within the range. Nothing
\* compares the two stub dates, nor places IMM dates.
StubAccepted(r, d, inRange) ==
    \/ ~Given(d)
    \/ r.rule \in {"Backward", "Forward"} /\ inRange
    \/ r.rule = "ThirdWednesday" /\ IsImmDate(d)

Accepted(r) ==
    /\ Given(r.effective) /\ Given(r.termination)
    /\ r.effective < r.termination
    /\ r.tenor.length >= 0
    /\ StubAccepted(r, r.first, r.effective < r.first /\ r.first <= r.termination)
    /\ StubAccepted(r, r.nextToLast,
                    r.effective <= r.nextToLast /\ r.nextToLast < r.termination)
    /\ r.endOfMonth => r.rule \in {"Zero", "Backward", "Forward"}

\* n tenors away from a date, over the null calendar.
Away(r, d, n) == AdvanceFreely(d, Times(n, r.tenor), r.endOfMonth)

Zero(r) == [dates |-> <<r.effective, r.termination>>, flags |-> <<TRUE>>]

FromTheEnd(r) ==
    IF Given(r.nextToLast)
    THEN [dates |-> <<r.nextToLast, r.termination>>,
          flags |-> <<Away(r, r.termination, -1) = r.nextToLast>>]
    ELSE [dates |-> <<r.termination>>, flags |-> <<>>]

\* Mutant of Opening: a CDS starts at the standard date even if that rolls too late.
Opening_NeverEarlier(r) ==
    [dates |-> <<IF r.rule \in CDSRules THEN PreviousTwentieth(r.effective, r.rule)
                 ELSE r.effective>>,
     flags |-> <<>>]

\* A CDS starts at a standard date, and one earlier if that one rolls past the start.
Opening(r) ==
    LET p == PreviousTwentieth(r.effective, r.rule) IN
    IF r.rule \notin CDSRules THEN [dates |-> <<r.effective>>, flags |-> <<>>]
    ELSE IF Adjust[r.convention][p] > r.effective
    THEN [dates |-> <<AddMonths[-3][p], p>>, flags |-> <<TRUE>>]
    ELSE [dates |-> <<p>>, flags |-> <<>>]

\* The first standard date; the old rule wants thirty days before it.
FirstTwentieth(r) ==
    LET n == NextTwentieth(r.effective, r.rule) IN
    IF r.rule = "OldCDS" /\ n - r.effective < 30 THEN NextTwentieth(n + 1, r.rule) ELSE n

Extended(s, d, flag) ==
    [dates |-> Append(s.dates, d), flags |-> Append(s.flags, flag)]

\* Mutant of FromTheStart: a first stub counts as regular.
FromTheStart_StubRegular(r) ==
    LET open == Opening(r) IN
    IF Given(r.first)
    THEN Extended(open, r.first, TRUE)
    ELSE IF r.rule \in Twentieths /\ FirstTwentieth(r) # r.effective
    THEN Extended(open, FirstTwentieth(r), r.rule \in CDSRules)
    ELSE open

FromTheStart(r) ==
    LET open == Opening(r) IN
    IF Given(r.first)
    THEN Extended(open, r.first, Away(r, Last(open.dates), 1) = r.first)
    ELSE IF r.rule \in Twentieths /\ FirstTwentieth(r) # r.effective
    THEN Extended(open, FirstTwentieth(r), r.rule \in CDSRules)
    ELSE open

----------------------------------------------------------------------------
\* The loop, and what closes it. A date that rolls onto the one before is left out.

Earlier(s, d, flag, c) ==
    IF Adjust[c][Head(s.dates)] = Adjust[c][d] THEN s
    ELSE [dates |-> <<d>> \o s.dates, flags |-> <<flag>> \o s.flags]

Later(s, d, flag, c) ==
    IF Adjust[c][Last(s.dates)] = Adjust[c][d] THEN s ELSE Extended(s, d, flag)

ClosedBackward(r, s) ==
    LET atFirst == IF Given(r.first)
                   THEN Earlier(s, r.first, Away(r, Head(s.dates), -1) = r.first,
                                r.convention)
                   ELSE s
    IN  Earlier(atFirst, r.effective,
                Away(r, Head(atFirst.dates), -1) = r.effective, r.convention)

ClosedForward(r, s) ==
    LET atLast == IF Given(r.nextToLast)
                  THEN Later(s, r.nextToLast, Away(r, Last(s.dates), 1) = r.nextToLast,
                             r.convention)
                  ELSE s
    IN  IF Adjust[r.endConvention][Last(atLast.dates)]
             = Adjust[r.endConvention][r.termination]
        THEN atLast
        ELSE IF r.rule \in Twentieths
        THEN Extended(atLast, NextTwentieth(r.termination, r.rule), TRUE)
        ELSE Extended(atLast, r.termination, FALSE)

----------------------------------------------------------------------------
\* After the loop: what each date becomes, and the trimming of either end.

Snapped(r, n, i, d) ==
    IF \/ r.rule = "ThirdWednesday" /\ i \in 2..(n - 1)
       \/ r.rule = "ThirdWednesdayInclusive"
    THEN ThirdWednesday(d) ELSE d

\* Mutant of Inner: the end of the month is taken as it is.
Inner_LastDay(r, d) ==
    IF r.endOfMonth /\ Given(seed) /\ IsEndOfMonth(seed) THEN LastOfMonth[d]
    ELSE Adjust[r.convention][d]

\* The end of month is kept if the date the loop counted from was one.
Inner(r, d) ==
    IF r.endOfMonth /\ Given(seed) /\ IsEndOfMonth(seed)
    THEN Adjust[r.convention][LastOfMonth[d]]
    ELSE Adjust[r.convention][d]

RolledDates(r, ds) ==
    LET n == Len(ds) IN
    [i \in 1..n |->
        LET d == Snapped(r, n, i, ds[i]) IN
        IF i = 1 THEN (IF r.rule = "OldCDS" THEN d ELSE Adjust[r.convention][d])
        ELSE IF i = n THEN (IF r.rule \in CDSRules THEN d ELSE Adjust[r.endConvention][d])
        ELSE Inner(r, d)]

\* Mutant of TailTrimmed: only a date equal to the last gives way.
TailTrimmed_OnlyEqual(s) ==
    LET n == Len(s.dates) IN
    IF n < 2 \/ s.dates[n - 1] # s.dates[n] THEN s
    ELSE [dates |-> RemoveAt(s.dates, n - 1),
          flags |-> IF Len(s.flags) < 2 THEN <<>>
                    ELSE [Front(s.flags) EXCEPT ![n - 2] = TRUE]]

\* The date next to an end gives way when it is not strictly inside; the period before
\* it becomes regular if the two were equal.
TailTrimmed(s) ==
    LET n == Len(s.dates)
        k == Len(s.flags)
    IN  IF n < 2 \/ s.dates[n - 1] < s.dates[n] THEN s
        ELSE [dates |-> RemoveAt(s.dates, n - 1),
              flags |-> IF k < 2 THEN <<>>
                        ELSE [Front(s.flags) EXCEPT ![k - 1] = s.dates[n - 1] = s.dates[n]]]

HeadTrimmed(s) ==
    LET k == Len(s.flags) IN
    IF Len(s.dates) < 2 \/ s.dates[1] < s.dates[2] THEN s
    ELSE [dates |-> RemoveAt(s.dates, 2),
          flags |-> IF k < 2 THEN <<>>
                    ELSE [Tail(s.flags) EXCEPT ![1] = s.dates[1] = s.dates[2]]]

----------------------------------------------------------------------------
Init ==
    /\ CalendarInit
    /\ phase = "idle" /\ request = NoRequest
    /\ seed = NullDate /\ periods = 1
    /\ schedule = [dates |-> <<>>, flags |-> <<>>]
    /\ meta = [convention |-> "Unadjusted", endConvention |-> "None",
               first |-> NullDate, nextToLast |-> NullDate]
    /\ made = schedule /\ window = <<NullDate, NullDate>>
    /\ cuts = 0 /\ edits = 0

NewStarts(r) ==
    IF r.rule = "Zero"
    THEN /\ phase' = "roll" /\ schedule' = Zero(r) /\ seed' = NullDate
    ELSE /\ phase' = "generate"
         /\ schedule' = IF r.rule = "Backward" THEN FromTheEnd(r) ELSE FromTheStart(r)
         /\ seed' = IF r.rule = "Backward" THEN Head(schedule'.dates)
                    ELSE Last(schedule'.dates)

\* Schedule::new panics on arguments that do not fit together.
New(args) ==
    /\ phase = "idle"
    /\ LET r == Normalised(args) IN
       /\ request' = r
       /\ IF Accepted(r) THEN NewStarts(r)
          ELSE phase' = "refused" /\ UNCHANGED <<schedule, seed>>
    /\ UNCHANGED <<calendarVars, periods, meta, made, window, cuts, edits>>

Candidate ==
    Away(request, seed, IF request.rule = "Backward" THEN -periods ELSE periods)

\* Whether the loop has passed the stub date it heads for, or the far end.
Passed ==
    IF request.rule = "Backward"
    THEN Candidate < (IF Given(request.first) THEN request.first ELSE request.effective)
    ELSE Candidate > (IF Given(request.nextToLast) THEN request.nextToLast
                      ELSE request.termination)

\* Mutant of Generate: the periods are counted down.
Generate_CountsDown ==
    /\ phase = "generate" /\ ~Passed
    /\ schedule' = IF request.rule = "Backward"
                   THEN Earlier(schedule, Candidate, TRUE, request.convention)
                   ELSE Later(schedule, Candidate, TRUE, request.convention)
    /\ periods' = periods - 1
    /\ UNCHANGED <<calendarVars, phase, request, seed, meta, made, window, cuts, edits>>

\* Mutant of Generate: a date that rolls onto the one before ends the counting too.
Generate_Stuck ==
    /\ phase = "generate" /\ ~Passed
    /\ schedule' = IF request.rule = "Backward"
                   THEN Earlier(schedule, Candidate, TRUE, request.convention)
                   ELSE Later(schedule, Candidate, TRUE, request.convention)
    /\ periods' = IF schedule' = schedule THEN periods ELSE periods + 1
    /\ UNCHANGED <<calendarVars, phase, request, seed, meta, made, window, cuts, edits>>

Generate ==
    /\ phase = "generate" /\ ~Passed
    /\ schedule' = IF request.rule = "Backward"
                   THEN Earlier(schedule, Candidate, TRUE, request.convention)
                   ELSE Later(schedule, Candidate, TRUE, request.convention)
    /\ periods' = periods + 1
    /\ UNCHANGED <<calendarVars, phase, request, seed, meta, made, window, cuts, edits>>

Close ==
    /\ phase = "generate" /\ Passed
    /\ schedule' = IF request.rule = "Backward" THEN ClosedBackward(request, schedule)
                   ELSE ClosedForward(request, schedule)
    /\ phase' = "roll"
    /\ UNCHANGED <<calendarVars, request, seed, periods, meta, made, window, cuts, edits>>

Roll ==
    /\ phase = "roll"
    /\ schedule' = [schedule EXCEPT !.dates = RolledDates(request, @)]
    /\ phase' = "trim"
    /\ UNCHANGED <<calendarVars, request, seed, periods, meta, made, window, cuts, edits>>

\* The schedule is there, unless a single date is left of it.
Trim ==
    /\ phase = "trim"
    /\ schedule' = HeadTrimmed(TailTrimmed(schedule))
    /\ phase' = IF Len(schedule'.dates) > 1 THEN "ready" ELSE "refused"
    /\ meta' = [convention |-> request.convention, endConvention |-> request.endConvention,
                first |-> request.first, nextToLast |-> request.nextToLast]
    /\ made' = schedule'
    /\ UNCHANGED <<calendarVars, request, seed, periods, window, cuts, edits>>

\* with_metadata (and from_dates, without flags) takes the dates as they are.
WithMetadata(list) ==
    /\ phase = "idle"
    /\ phase' = "ready"
    /\ schedule' = list /\ made' = list
    /\ UNCHANGED <<calendarVars, request, seed, periods, meta, window, cuts, edits>>

----------------------------------------------------------------------------
\* after and until return a schedule cut at a date; the client goes on with it.

\* partition_point: how many dates are before the cut, which precedes the last one.
\* Out of order, the place is not unique.
LowerBounds(ds, d) ==
    {k \in 0..(Len(ds) - 1) : (k = 0 \/ ds[k] < d) /\ ds[k + 1] >= d}

\* How many dates are left once the later ones are popped.
LastPlaces(ds, d) ==
    {k \in 1..Len(ds) : ds[k] <= d /\ \A j \in (k + 1)..Len(ds) : ds[j] > d}

\* Mutant of FromPlace: the flags are cut one place short.
FromPlace_FlagsLag(s, k) ==
    [dates |-> SubSeq(s.dates, k + 1, Len(s.dates)),
     flags |-> SubSeq(s.flags, Smaller(k - 1, Len(s.flags)) + 1, Len(s.flags))]

\* What the cut leaves, from its place on: the dates, and the flags that there are.
FromPlace(s, k) ==
    [dates |-> SubSeq(s.dates, k + 1, Len(s.dates)),
     flags |-> SubSeq(s.flags, Smaller(k, Len(s.flags)) + 1, Len(s.flags))]

UpToPlace(s, k) ==
    [dates |-> SubSeq(s.dates, 1, k),
     flags |-> SubSeq(s.flags, 1, Len(s.flags) - (Len(s.dates) - k))]

\* Mutant of CutAtHead: the period that the cut has shortened stays regular.
CutAtHead_Regular(s, d) ==
    IF Head(s.dates) = d THEN s
    ELSE [dates |-> <<d>> \o s.dates, flags |-> <<TRUE>> \o s.flags]

\* Mutant of CutAtHead: the cut takes the place of the date that follows it.
CutAtHead_Replaces(s, d) ==
    IF Head(s.dates) = d THEN s
    ELSE [dates |-> <<d>> \o Tail(s.dates), flags |-> [s.flags EXCEPT ![1] = FALSE]]

\* A cut between two dates becomes a date itself, of an irregular period.
CutAtHead(s, d) ==
    IF Head(s.dates) = d THEN s
    ELSE [dates |-> <<d>> \o s.dates, flags |-> <<FALSE>> \o s.flags]

CutAtLast(s, d) == IF Last(s.dates) = d THEN s ELSE Extended(s, d, FALSE)

\* A cut between dates is not rolled, and the stub dates beyond it are forgotten.
StubDates == {meta.first, meta.nextToLast}
CutMeta(onDate, beyond) ==
    [meta EXCEPT !.endConvention = IF onDate THEN meta.convention ELSE "Unadjusted",
                 !.first = IF @ \in beyond THEN NullDate ELSE @,
                 !.nextToLast = IF @ \in beyond THEN NullDate ELSE @]

Cutting(d) ==
    /\ phase = "ready" /\ cuts < MaxCuts
    /\ schedule.dates # <<>>
    /\ cuts' = cuts + 1
    /\ UNCHANGED <<calendarVars, phase, request, seed, periods, made, edits>>

After(d) ==
    /\ Cutting(d)
    /\ d < Last(schedule.dates)
    /\ d > Head(schedule.dates)
    /\ \E k \in LowerBounds(schedule.dates, d) :
          LET kept == FromPlace(schedule, k) IN
          /\ schedule' = CutAtHead(kept, d)
          /\ meta' = CutMeta(Head(kept.dates) = d, {x \in StubDates : x <= d})
    /\ window' = <<d, window[2]>>

Until(d) ==
    /\ Cutting(d)
    /\ d > Head(schedule.dates)
    /\ d < Last(schedule.dates)
    /\ \E k \in LastPlaces(schedule.dates, d) :
          LET kept == UpToPlace(schedule, k) IN
          /\ schedule' = CutAtLast(kept, d)
          /\ meta' = CutMeta(Last(kept.dates) = d, {x \in StubDates : x >= d})
    /\ window' = <<window[1], d>>

\* Through any clone of the calendar; what is edited later does not reach the dates.
EditHolidays ==
    /\ phase = "idle" /\ edits < MaxEdits
    /\ \/ \E d \in EditDates : AddHoliday(d) \/ RemoveHoliday(d)
       \/ ResetHolidays
    /\ edits' = edits + 1
    /\ UNCHANGED builder

ProgramStep == Generate \/ Close \/ Roll \/ Trim

Next ==
    \/ \E r \in Requests : New(r)
    \/ \E l \in Lists : WithMetadata(l)
    \/ ProgramStep
    \/ \E d \in CutDates : After(d) \/ Until(d)
    \/ EditHolidays

Spec == Init /\ [][Next]_vars

\* A call of Schedule::new runs on one thread until it returns or panics.
FairSpec == Spec /\ WF_vars(ProgramStep)

----------------------------------------------------------------------------
\* The builder, the schedule and the counters have their types.
TypeOK ==
    /\ added \subseteq Date /\ removed \subseteq Date
    /\ phase \in {"idle", "generate", "roll", "trim", "ready", "refused"}
    /\ request \in Request
    /\ seed \in Int /\ periods \in Nat \ {0}
    /\ schedule \in [dates : Seq(Int), flags : Seq(BOOLEAN)]
    /\ meta \in [convention : Conventions, endConvention : Conventions \cup {"None"},
                 first : Date, nextToLast : Date]
    /\ made \in [dates : Seq(Int), flags : Seq(BOOLEAN)]
    /\ window \in Date \X Date
    /\ cuts \in 0..MaxCuts /\ edits \in 0..MaxEdits

Ready == phase = "ready"

\* The flags are none or one for each period, which with_metadata asserts of what it is
\* given ("isRegular size must be zero or equal to the number of dates minus 1").
FlagsFit ==
    Ready => schedule.flags = <<>> \/ Len(schedule.flags) = Len(schedule.dates) - 1

\* A schedule that was made with flags has one for each period, however it is cut
\* (is_regular_at panics beyond them), and a period keeps the one it had; one that a
\* cut has shortened is not regular.
FlagsMatch ==
    Ready /\ made.flags # <<>> => Len(schedule.flags) = Len(schedule.dates) - 1

PeriodsOf(s) == [i \in 1..Len(s.flags) |-> <<s.dates[i], s.dates[i + 1], s.flags[i]>>]

PeriodsKeepFlags ==
    Ready /\ made.flags # <<>> =>
        \A p \in Range(PeriodsOf(schedule)) \ Range(PeriodsOf(made)) :
            ~p[3] /\ \A q \in Range(PeriodsOf(made)) : q[1] # p[1] \/ q[2] # p[2]

NonDecreasing(ds) == \A i \in 1..(Len(ds) - 1) : ds[i] <= ds[i + 1]

\* Arguments that Schedule::new does not refuse, but that do not yield an ordered
\* schedule: stub dates that cross each other or lie outside the range; third
\* Wednesdays more often than monthly; a stub before the last date of a schedule that
\* keeps the end of the month; a last date that is rolled back over unadjusted dates
\* less than a month before it, or an unadjusted one after a third Wednesday that is
\* rolled past it (trimming takes one date away, not two).
Orderly(r) ==
    /\ \A d \in {r.first, r.nextToLast} : Given(d) => d \in r.effective..r.termination
    /\ Given(r.first) /\ Given(r.nextToLast) => r.first <= r.nextToLast
    /\ r.rule \in {"ThirdWednesday", "ThirdWednesdayInclusive"} =>
           AllowsEndOfMonth(r.tenor)
    /\ r.endOfMonth => ~Given(r.nextToLast)
    /\ r.convention = "Unadjusted" =>
           \/ r.endConvention \in {"Unadjusted", "Following"}
           \/ AllowsEndOfMonth(r.tenor) /\ ~Given(r.nextToLast)
    /\ r.rule = "ThirdWednesday" /\ Given(r.nextToLast) =>
           r.convention = "Unadjusted" \/ r.endConvention # "Unadjusted"

\* "A payment schedule: a non-decreasing sequence of dates": snapping, rolling by two
\* conventions and trimming leave no date before the one it follows, nor does a cut.
Ordered == Ready /\ Orderly(request) => NonDecreasing(schedule.dates)

\* However often and at whichever sides a schedule was cut, it has the dates it was
\* made with that lie between the innermost cuts, the cuts themselves, and no others,
\* and it remembers no stub date beyond them.
Inside(d) ==
    /\ Given(window[1]) => window[1] <= d
    /\ Given(window[2]) => d <= window[2]

CutToWindow ==
    Ready /\ Orderly(request) =>
        /\ Range(schedule.dates) =
              {d \in Range(made.dates) : Inside(d)} \cup {d \in Range(window) : Given(d)}
        /\ \A d \in {meta.first, meta.nextToLast} : Given(d) => Inside(d)

\* Before anything is rolled, a period that is said to be regular spans one tenor, from
\* its start or back from its end, and one that is not touches an end or a stub date.
\* (Counting in days leaves out those that roll onto the one before.)
RegularSpansTenor ==
    phase = "roll" /\ request.rule \in {"Backward", "Forward", "ThirdWednesday"}
                   /\ request.tenor.units # "Days" =>
        \A p \in Range(PeriodsOf(schedule)) :
            IF p[3] THEN Away(request, p[1], 1) = p[2] \/ Away(request, p[2], -1) = p[1]
            ELSE {p[1], p[2]} \cap {request.effective, request.termination,
                                    request.first, request.nextToLast} # {}

\* A finished schedule covers what was asked for: it starts on the effective date and
\* ends on the termination date, each rolled by its convention, or on the
\* third Wednesdays of their months, or on twentieths that enclose them. (The last third
\* Wednesday may be that of another month: a date that rolls with the termination date
\* replaces it, and is snapped in its own month.)
Covers(r, ds) ==
    /\ CASE r.rule \in CDSRules -> ds[1] <= r.effective
         [] r.rule = "OldCDS" -> ds[1] = r.effective
         [] r.rule = "ThirdWednesdayInclusive" ->
                ds[1] = Adjust[r.convention][ThirdWednesday(r.effective)]
         [] OTHER -> ds[1] = Adjust[r.convention][r.effective]
    /\ CASE r.rule \in Twentieths ->
                Adjust[r.endConvention][Last(ds)] >= Adjust[r.endConvention][r.termination]
         [] r.rule = "ThirdWednesdayInclusive" ->
                \E d \in (r.termination - 2 * Horizon)..r.termination :
                    /\ Adjust[r.endConvention][d] = Adjust[r.endConvention][r.termination]
                    /\ Last(ds) = Adjust[r.endConvention][ThirdWednesday(d)]
         [] OTHER -> Last(ds) = Adjust[r.endConvention][r.termination]

CoversWhatWasAsked ==
    [][phase = "trim" /\ Ready' => Covers(request, schedule'.dates)]_vars

\* No payment date of a finished schedule is a holiday, under the conventions that roll.
PaysOnBusinessDays ==
    [][phase = "trim" /\ Ready' =>
          LET ds == schedule'.dates
              ends == {Last(ds)} \cup (IF request.rule = "OldCDS" THEN {ds[1]} ELSE {})
          IN  /\ request.convention # "Unadjusted" =>
                     \A d \in Range(ds) \ ends : IsBusinessDay(d)
              /\ request.endConvention # "Unadjusted" /\ request.rule \notin CDSRules =>
                     IsBusinessDay(Last(ds))]_vars

\* Every call of Schedule::new comes to an end, with a schedule or a panic.
EveryBuildEnds == phase = "generate" ~> phase \in {"ready", "refused"}

============================================================================
