---------------------------- MODULE MCSchedules ----------------------------
\* Schedules over the first half of 2026, in a market that closes at weekends and from
\* April 30th to May 3rd, which a month ends in.

EXTENDS Schedules

Day(d, m) == DateOf(d, m, 2026)

MCIsTradingDay(d) ==
    Weekday(d) \notin {Saturday, Sunday} /\ d \notin {Day(30, 4), Day(1, 5)}

Tenor(n, u) == [length |-> n, units |-> u]

Months == {Tenor(1, "Months"), Tenor(3, "Months")}

\* Pairs of conventions: both dates of a period, and the last.
RollsBy(r, pair) == r.convention = pair[1] /\ r.endConvention = pair[2]

Common(tenors, rules, firsts, lasts) ==
    {r \in [effective : {Day(30, 1), Day(27, 2), Day(18, 3)},
            termination : {Day(29, 4), Day(2, 5), Day(20, 6)},
            tenor : tenors, rule : rules, convention : Conventions,
            endConvention : Conventions, endOfMonth : BOOLEAN,
            first : firsts, nextToLast : lasts] :
        /\ r.endOfMonth => r.rule \in {"Backward", "Forward"} /\ r.tenor \in Months
        /\ \E pair \in {<<"Unadjusted", "Unadjusted">>,
                        <<"ModifiedFollowing", "Preceding">>,
                        <<"Preceding", "ModifiedFollowing">>} : RollsBy(r, pair)}

\* The conventions that the others do not use, for dates around a month's end.
Rolling ==
    {r \in [effective : {Day(28, 2)}, termination : {Day(1, 5)},
            tenor : {Tenor(2, "Weeks"), Tenor(1, "Days")}, rule : {"Backward", "Forward"},
            convention : Conventions, endConvention : Conventions,
            endOfMonth : {FALSE}, first : {NullDate}, nextToLast : {NullDate}] :
        r.tenor.units = "Days" => r.convention = "Following"}

\* A CDS from a weekend that a standard date rolls over, to another.
Standard ==
    [effective : {Day(21, 6)}, termination : {Day(20, 9)}, tenor : {Tenor(3, "Months")},
     rule : Twentieths, convention : {"Following"}, endConvention : {"Unadjusted"},
     endOfMonth : {FALSE}, first : {NullDate}, nextToLast : {NullDate}]

\* To a holiday that the last date of the month before rolls over.
Inclusive ==
    [effective : {Day(30, 1)}, termination : {Day(2, 5)}, tenor : {Tenor(1, "Months")},
     rule : {"ThirdWednesdayInclusive"}, convention : {"Following"},
     endConvention : {"Following"}, endOfMonth : {FALSE},
     first : {NullDate}, nextToLast : {NullDate}]

\* What does not fit together.
Refused ==
    [effective : {Day(18, 3)}, termination : {Day(18, 3), Day(20, 6)},
     tenor : {Tenor(0, "Days"), Tenor(-1, "Months")}, rule : {"CDS"},
     convention : {"Following"}, endConvention : {"Following"}, endOfMonth : {FALSE},
     first : {NullDate, Day(15, 4)}, nextToLast : {NullDate}]

MCRequests ==
    UNION {Common(Months \cup {Tenor(2, "Weeks")}, {"Backward", "Forward"},
                  {NullDate, Day(18, 3)}, {NullDate, Day(15, 4)}),
           Common(Months, Rules \ {"Backward", "Forward", "ThirdWednesday"},
                  {NullDate}, {NullDate}),
           Common(Months, {"ThirdWednesday"}, {NullDate, Day(18, 3)}, {NullDate}),
           Rolling, Standard, Inclusive, Refused}

MCDates == <<Day(18, 3), Day(15, 4), Day(2, 5)>>
MCLists == {[dates |-> MCDates, flags |-> f] : f \in {<<>>, <<TRUE, FALSE>>}}

MCCutDates == {Day(1, 4), Day(15, 4), Day(28, 4)}
MCEditDates == {Day(29, 4), Day(2, 5)}

============================================================================
