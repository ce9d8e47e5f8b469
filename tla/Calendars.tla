----------------------------- MODULE Calendars -----------------------------
\* A market's calendar (crates/libitofin/src/time/calendar.rs): which dates are
\* business days, and how a date that is not is rolled. All the clones of a
\* calendar, those inside schedules included, share one set of added and one of
\* removed holidays, which client code edits at any time.

EXTENDS Dates

CONSTANTS
    IsTradingDay(_),    \* what the market's CalendarImpl answers for a date
    Horizon             \* no run of holidays is longer (else rolling leaves the range)

ASSUME HorizonAssumption == Horizon \in Nat

VARIABLES
    added,              \* the shared override sets
    removed,
    edited              \* history: the last edit of each date since the last reset

calendarVars == <<added, removed, edited>>

Conventions ==
    {"Unadjusted", "Following", "ModifiedFollowing", "HalfMonthModifiedFollowing",
     "Preceding", "ModifiedPreceding", "Nearest"}

IsBusinessDay(d) == d \notin added /\ (d \in removed \/ IsTradingDay(d))

Edited(d, edit) ==
    [e \in DOMAIN edited \cup {d} |-> IF e = d THEN edit ELSE edited[e]]

CalendarInit == added = {} /\ removed = {} /\ edited = <<>>

\* Mutant of AddHoliday: it does not withdraw the removal.
AddHoliday_KeepsRemoved(d) ==
    /\ added' = IF IsTradingDay(d) THEN added \cup {d} ELSE added
    /\ edited' = Edited(d, "holiday")
    /\ UNCHANGED removed

\* add_holiday: a removed holiday is put back, only a business day needs an entry.
AddHoliday(d) ==
    /\ removed' = removed \ {d}
    /\ added' = IF IsTradingDay(d) THEN added \cup {d} ELSE added
    /\ edited' = Edited(d, "holiday")

RemoveHoliday(d) ==
    /\ added' = added \ {d}
    /\ removed' = IF IsTradingDay(d) THEN removed ELSE removed \cup {d}
    /\ edited' = Edited(d, "business")

ResetHolidays ==
    /\ added' = {} /\ removed' = {}
    /\ edited' = <<>>

----------------------------------------------------------------------------
\* try_adjust rolls a holiday to the first business day after it or before it.
Following[d \in Int] ==
    CHOOSE e \in d..(d + Horizon) :
        IsBusinessDay(e) /\ \A f \in d..(e - 1) : ~IsBusinessDay(f)

Preceding[d \in Int] ==
    CHOOSE e \in (d - Horizon)..d :
        IsBusinessDay(e) /\ \A f \in (e + 1)..d : ~IsBusinessDay(f)

\* The modified conventions turn back rather than leave the month, or its half.
Adjust[c \in Conventions] == [d \in Int |->
    CASE c = "Unadjusted" -> d
      [] c = "Following" -> Following[d]
      [] c = "ModifiedFollowing" ->
            IF Month[Following[d]] # Month[d] THEN Preceding[d] ELSE Following[d]
      [] c = "HalfMonthModifiedFollowing" ->
            IF \/ Month[Following[d]] # Month[d]
               \/ DayOfMonth[d] <= 15 /\ DayOfMonth[Following[d]] > 15
            THEN Preceding[d] ELSE Following[d]
      [] c = "Preceding" -> Preceding[d]
      [] c = "ModifiedPreceding" ->
            IF Month[Preceding[d]] # Month[d] THEN Following[d] ELSE Preceding[d]
      [] c = "Nearest" ->
            IF Following[d] - d <= d - Preceding[d] THEN Following[d] ELSE Preceding[d]]

\* is_end_of_month: on or after the last business day of its month.
IsEndOfMonth(d) == d >= Preceding[LastOfMonth[d]]

\* advance over the null calendar, for which every day is a business day: nothing is
\* rolled, and the end of a month stays one when asked.
AdvanceFreely(d, p, endOfMonth) ==
    IF endOfMonth /\ p.length # 0 /\ p.units \in {"Months", "Years"} /\ IsLastOfMonth(d)
    THEN LastOfMonth[Advance(d, p)]
    ELSE Advance(d, p)

----------------------------------------------------------------------------
\* Whatever edits came before, and whatever the market's own rule says, a date is
\* what the last edit made of it (add_holiday, remove_holiday: each withdraws the
\* opposite override and adds its own only where the market does not agree already).
LastEditHolds ==
    \A d \in DOMAIN edited : IsBusinessDay(d) <=> edited[d] = "business"

============================================================================
