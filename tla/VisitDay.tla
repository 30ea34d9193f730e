------------------------------ MODULE VisitDay ------------------------------
(***************************************************************************)
(* One person's day: the tasks planned for it, the check-ins that come in  *)
(* during it, and what the pairing of the two says at every moment.        *)
(***************************************************************************)
EXTENDS VisitMatching, FiniteSets

CONSTANTS
    Building,
    LastMinute,  \* bound: the day has minutes 1..LastMinute
    MaxTasks,    \* bound: tasks of the day
    MaxVisits    \* bound: check-ins of the day

ASSUME VisitDayAssumption == LastMinute \in Nat /\ MaxTasks \in Nat /\ MaxVisits \in Nat

Minute  == 1..LastMinute
Windows == {AllDay} \cup {Window(a, b) : a \in Minute, b \in Minute}

VARIABLES
    tasks,    \* the person's tasks of the day
    visits,   \* the visits so far, own ones and those made as a companion
    minute    \* the time; LastMinute + 1 is the next day

vars == <<tasks, visits, minute>>

\* The tasks are dated day 1; the clock is a day and a minute of it.
Clock == IF minute > LastMinute THEN [day |-> 2, minute |-> 0]
                               ELSE [day |-> 1, minute |-> minute]

\* checkWhen: a window ends after it starts.
Proper(win) == win.allDay \/ win.from < win.to

Init ==
    /\ tasks \in UNION {{{[id |-> i, b |-> b[i], win |-> win[i]] : i \in 1..n}
                           : b \in [1..n -> Building],
                             win \in [1..n -> {x \in Windows : Proper(x)}]} : n \in 0..MaxTasks}
    /\ visits = {}
    /\ minute = 1

CheckIn(b) ==
    /\ minute <= LastMinute
    /\ Cardinality(visits) < MaxVisits
    /\ visits' = visits \cup {[id |-> Cardinality(visits) + 1, b |-> b, at |-> minute]}
    /\ UNCHANGED <<tasks, minute>>

Tick ==
    /\ minute <= LastMinute
    /\ minute' = minute + 1
    /\ UNCHANGED <<tasks, visits>>

Next == (\E b \in Building : CheckIn(b)) \/ Tick

Spec == Init /\ [][Next]_vars
-----------------------------------------------------------------------------
At(set, b) == {x \in set : x.b = b}

Least(m, n) == IF m < n THEN m ELSE n

\* Each visit counts for one task at most, and as long as there are tasks and
\* visits at a building they are paired: a visit is off-plan only if every task
\* at its building has one.
PairingIsComplete ==
    \A b \in Building :
        LET here == {pair \in Match(tasks, visits) : pair.task.b = b}
        IN  /\ Visits(here) \subseteq At(visits, b)
            /\ Cardinality(Visits(here)) = Cardinality(here)
            /\ Cardinality(Tasks(here)) = Cardinality(here)
            /\ Cardinality(here) = Least(Cardinality(At(tasks, b)), Cardinality(At(visits, b)))

\* The pairing is also the one that puts most visits into their windows: a task
\* counts as visited outside of its window only if every visit in its window
\* counts for a task within whose window it is.
OutsideIsNeeded ==
    LET pairs  == Match(tasks, visits)
        inTime == {pair \in pairs : InWindow(pair.task, pair.visit)}
    IN  \A pair \in pairs \ inTime : \A v \in At(visits, pair.task.b) :
            InWindow(pair.task, v) => v \in Visits(inTime)

\* Both together: the pairing the status of every task is computed from.
PairingIsBest == PairingIsComplete /\ OutsideIsNeeded

Rank == [UPCOMING |-> 0, DUE_NOW |-> 1, OVERDUE |-> 2, VISITED_OUTSIDE |-> 3, VISITED |-> 3]

StatusRank(pairs, now) ==
    [t \in tasks |-> Rank[TaskStatus(t, 1, {p.visit : p \in {q \in pairs : q.task = t}}, now)]]

\* The status of a task only goes forward: from UPCOMING to DUE_NOW to OVERDUE, and
\* from each of these to a visited one, never back to one without a visit: a
\* further check-in never takes the visit from a task that had one.
StatusGoesForward ==
    [][LET before == StatusRank(Match(tasks, visits), Clock)
           after  == StatusRank(Match(tasks, visits'), Clock')
       IN  \A t \in tasks : before[t] <= after[t]]_vars
=============================================================================
