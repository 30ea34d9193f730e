--------------------------- MODULE VisitMatching ---------------------------
(***************************************************************************)
(* Pairing one person's tasks and visits of one day, as lib/visit-task-    *)
(* status.js does it: everything the plan says about a task (its status,   *)
(* whether it may be edited, whether an upload may be deleted) is computed *)
(* from this pairing each time it is read; nothing of it is stored.        *)
(*                                                                         *)
(* A task is a record with an id, a building b and a window win; a visit   *)
(* one with an id, a building b and the minute at.  Tasks that start at    *)
(* the same time are taken in the order of their ids.                      *)
(***************************************************************************)
EXTENDS Naturals, Folds

\* A task with no startTime is all-day.
AllDay == [from |-> 0, to |-> 0, allDay |-> TRUE]
Window(from, to) == [from |-> from, to |-> to, allDay |-> FALSE]

\* Window edges are inclusive.
InWindow(t, v) == t.win.allDay \/ (t.win.from <= v.at /\ v.at <= t.win.to)

\* byStart: all-day tasks come last.
StartsBefore(t, u) ==
    \/ t.win.allDay /\ u.win.allDay /\ t.id < u.id
    \/ ~t.win.allDay /\ u.win.allDay
    \/ /\ ~t.win.allDay /\ ~u.win.allDay
       /\ t.win.from < u.win.from \/ (t.win.from = u.win.from /\ t.id < u.id)

\* visitsForMatching sorts by visitedAt, then by id.
Earlier(v, w) == v.at < w.at \/ (v.at = w.at /\ v.id < w.id)

Earliest(visits) == CHOOSE v \in visits : \A w \in visits \ {v} : Earlier(v, w)
Last(tasks)      == CHOOSE t \in tasks : \A u \in tasks \ {t} : StartsBefore(u, t)

Tasks(pairs)  == {pair.task : pair \in pairs}
Visits(pairs) == {pair.visit : pair \in pairs}

Free(t, visits, anyTime, pairs) ==
    {v \in visits \ Visits(pairs) : v.b = t.b /\ (anyTime \/ InWindow(t, v))}
Take(t, visits, anyTime, pairs) ==
    LET free == Free(t, visits, anyTime, pairs)
    IN  IF free = {} THEN pairs ELSE pairs \cup {[task |-> t, visit |-> Earliest(free)]}

\* One pass of matchDay: in the order of their starts each task still without a
\* visit takes the earliest unused one at its building, in the first pass only one
\* in its window.
Pass(todo, visits, anyTime, pairs) ==
    MapThenFoldSet(LAMBDA t, taken : Take(t, visits, anyTime, taken), pairs, LAMBDA t : t, Last, todo)

\* Fault: the second pass does not know which visits the first one used.
MatchReuse(tasks, visits) ==
    LET inTime == Pass(tasks, visits, FALSE, {})
    IN  inTime \cup Pass(tasks \ Tasks(inTime), visits, TRUE, {})

\* matchDay: the pairs of tasks and visits.
Match(tasks, visits) ==
    LET inTime == Pass(tasks, visits, FALSE, {})
    IN  Pass(tasks \ Tasks(inTime), visits, TRUE, inTime)

Visited(tasks, visits) == Tasks(Match(tasks, visits))

\* The status today of a task without a visit.
StatusToday(win, minute) ==
    IF win.allDay \/ minute \in win.from..win.to THEN "DUE_NOW"
    ELSE IF minute < win.from THEN "UPCOMING" ELSE "OVERDUE"

StatusVisited(t, seen) ==
    IF \E v \in seen : InWindow(t, v) THEN "VISITED" ELSE "VISITED_OUTSIDE"

\* Fault: the day of the task is not looked at.
TaskStatusAnyDay(t, day, seen, now) ==
    IF seen # {} THEN StatusVisited(t, seen) ELSE StatusToday(t.win, now.minute)

\* taskStatus of a task dated day with the visit it has, if any, at a day and minute.
TaskStatus(t, day, seen, now) ==
    IF seen # {} THEN StatusVisited(t, seen)
    ELSE IF day = now.day THEN StatusToday(t.win, now.minute)
    ELSE IF day > now.day THEN "UPCOMING" ELSE "OVERDUE"
=============================================================================
