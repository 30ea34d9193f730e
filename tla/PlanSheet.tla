----------------------------- MODULE PlanSheet -----------------------------
(***************************************************************************)
(* What one row of a plan sheet asks for, on the day it is read            *)
(* (parseRow of visit-task.service.js, lib/visit-plan.js): a sheet may be  *)
(* previewed on one day and imported on a later one.                       *)
(*                                                                         *)
(* Days are numbers; a row's date or end is a day, None (a blank cell) or  *)
(* Bad (a cell that is no date).  Absent is the template without a         *)
(* "Repeat (weeks)" column.  Times are left out: they add errors only.     *)
(***************************************************************************)
EXTENDS Integers, FiniteSets

CONSTANTS
    Week,       \* 7
    MaxUntil,   \* MAX_UNTIL_DAYS, 92
    MaxRepeat,  \* MAX_REPEAT_WEEKS, 13
    Oldest, LastDate, LastToday,   \* bounds: dates -Oldest .. LastDate, read on days 0 .. LastToday
    None, Bad, Absent

VARIABLES row, today
vars == <<row, today>>

Cell == {None, Bad} \cup (-Oldest .. LastDate)
Weekday == 0 .. Week - 1
Row == [date : Cell, until : Cell, ticked : SUBSET Weekday, repeat : {Absent, None, Bad} \cup 0 .. MaxRepeat + 1]

IsDay(cell) == cell \notin {None, Bad}

Kind(r) ==
    LET monthly == r.until # None \/ r.ticked # {} IN
    IF r.repeat = Absent \/ (r.repeat = None /\ monthly) THEN "MONTHLY"
    ELSE IF r.repeat # None /\ monthly THEN "BOTH" ELSE "WEEKLY"

\* expandDates: a Date alone, or each ticked weekday from it to the end.
ExpandDates(date, until, ticked) ==
    IF ticked = {} THEN {date}
    ELSE IF until = None \/ until > date + 2 * MaxUntil THEN {}
    ELSE {d \in date .. until : d % Week \in ticked}

\* parseRepeatWeeks: a blank cell is once.
RepeatWeeks(cell) == IF cell = None THEN 1 ELSE IF cell \in 1 .. MaxRepeat THEN cell ELSE Bad

\* weeklyAsMonthly: the end and the weekday of so many weeks.  Fault: one too many.
WeeklyOneMore(date, weeks) ==
    IF weeks <= 1 THEN [until |-> None, ticked |-> {}]
    ELSE [until |-> date + Week * weeks, ticked |-> {date % Week}]
WeeklyAsMonthly(date, weeks) ==
    IF weeks <= 1 THEN [until |-> None, ticked |-> {}]
    ELSE [until |-> date + Week * (weeks - 1), ticked |-> {date % Week}]

Result(errors, dates) == [errors |-> errors, dates |-> IF errors = {} THEN dates ELSE {}]

ParseWeekly(r, day) ==
    LET weeks == RepeatWeeks(r.repeat)
        dated == IsDay(r.date)
        as == IF dated /\ weeks # Bad THEN WeeklyAsMonthly(r.date, weeks) ELSE [until |-> None, ticked |-> {}]
        errors == (IF dated THEN {} ELSE {"date"}) \cup (IF weeks = Bad THEN {"repeat"} ELSE {})
            \cup (IF dated /\ r.date < day THEN {"passed"} ELSE {})
            \cup (IF as.until # None /\ as.until > day + MaxUntil THEN {"ahead"} ELSE {})
    IN  Result(errors, IF dated THEN ExpandDates(r.date, as.until, as.ticked) ELSE {})

ParseMonthly(r, day) ==
    LET dated == IsDay(r.date)
        ends == IsDay(r.until)
        errors == (IF dated THEN {} ELSE {"date"}) \cup (IF r.until = Bad THEN {"until"} ELSE {})
            \cup (IF r.until = None /\ r.ticked # {} THEN {"no end"} ELSE {})
            \cup (IF dated /\ ends /\ r.until < r.date THEN {"until"} ELSE {})
            \cup (IF ends /\ r.until > day + MaxUntil THEN {"ahead"} ELSE {})
    IN  Result(errors, IF errors = {} THEN {d \in ExpandDates(r.date, r.until, r.ticked) : d >= day} ELSE {})

ParseRow(r, day) ==
    CASE Kind(r) = "WEEKLY" -> ParseWeekly(r, day)
      [] Kind(r) = "MONTHLY" -> ParseMonthly(r, day)
      [] OTHER -> Result({"both"} \cup ParseMonthly(r, day).errors, {})

Init == row \in Row /\ today = 0
Next == today < LastToday /\ today' = today + 1 /\ UNCHANGED row
Spec == Init /\ [][Next]_vars

----------------------------------------------------------------------------
\* What the two templates promise, whatever the day they are read on.
Asked(r) ==
    IF Kind(r) = "WEEKLY" THEN {r.date + Week * k : k \in 0 .. RepeatWeeks(r.repeat) - 1}
    ELSE IF r.ticked = {} THEN {r.date}
    ELSE {d \in r.date .. r.until : d % Week \in r.ticked}

\* A row read without an error plans exactly the days it asks for, of which
\* those passed are left out, whichever way of writing it was used; only a
\* monthly row that began more than 2 * MaxUntil days before its end plans nothing.
\* So a sheet imported after midnight plans what it did before, less a day.
RowMeansItsDays ==
    LET read == ParseRow(row, today) IN
    read.errors = {} =>
        read.dates = IF Kind(row) = "MONTHLY" /\ row.ticked # {} /\ row.until > row.date + 2 * MaxUntil THEN {}
                     ELSE {d \in Asked(row) : d >= today}
=============================================================================
