---------------------------- MODULE VisitsProofs ----------------------------
(***************************************************************************)
(* Visits as the run Visits has them: a day's pairing is the best there is *)
(* and goes on with a further check-in; a task that is worked stays; the   *)
(* field work fits, and what is shown of it is there.  VisitPlanProofs has *)
(* it for any people, buildings and bounds; here are the day, and the plan,*)
(* sheets, field work and desk of the run, which are each one of its.      *)
(***************************************************************************)
EXTENDS MCVisits, Sequences, FiniteSetTheorems, FunctionTheorems, TLAPS

P == INSTANCE VisitPlanProofs WITH
    tasks <- planTasks, visits <- planVisits, today <- planDay,
    Executive <- {executive, executive2}, Leader <- {leader}, Admin <- {administrator},
    Team <- [l \in {leader} |-> {executive}], Pool <- [l \in {leader} |-> {home}], Building <- {home},
    Windows <- {AllDay, Window(1, 1)}, Sheets <- PlanSheets, Patches <- PlanPatches,
    Wishes <- {[who |-> executive, b |-> home, day |-> 1, win |-> AllDay]},
    None <- Nobody, Keep <- AsBefore, Minute <- {1}, LastDay <- 2, MaxUntil <- 1,
    MaxId <- 3, MaxUploads <- 2, MaxVisits <- 2,
    line <- row, Week <- 2, MaxAhead <- 4, MaxRepeat <- 3, Oldest <- 6, LastDate <- 7, LastToday <- 2,
    NoDate <- Unreadable, NoRepeat <- NoColumn,
    stays <- fieldVisits, shift <- fieldDay, Worker <- {clerk, clerk2}, FieldLeader <- {leader},
    FieldExecutive <- {executive}, FieldTeam <- [l \in {leader} |-> {executive}], Site <- {home, other}, Zone <- {zone},
    ZoneOf <- [b \in {home, other} |-> zone], Held <- executive :> {home, other}, Type <- {desk}, Photo <- {picture},
    MaxImages <- 1, Status <- {"NOT_CONTACTED", "FOLLOW_UP"}, Time <- {noon}, MaxStays <- 1, MaxInquiries <- 1, LastShift <- 1,
    Colleague <- DOMAIN DeskRole, RoleOf <- DeskRole,
    ManagerOf <- [p \in DOMAIN DeskRole |-> IF p \in {leader1, leader2, executive} THEN boss ELSE Nobody],
    ZoneAt <- (home :> zone) @@ (other :> Nobody), Awaiting <- {other}, MaxActivity <- 2

\* The same with the field work in turn.
InTurn == INSTANCE VisitPlanProofs WITH
    tasks <- planTasks, visits <- planVisits, today <- planDay,
    Executive <- {executive, executive2}, Leader <- {leader}, Admin <- {administrator},
    Team <- [l \in {leader} |-> {executive}], Pool <- [l \in {leader} |-> {home}], Building <- {home},
    Windows <- {AllDay, Window(1, 1)}, Sheets <- PlanSheets, Patches <- PlanPatches,
    Wishes <- {[who |-> executive, b |-> home, day |-> 1, win |-> AllDay]},
    None <- Nobody, Keep <- AsBefore, Minute <- {1}, LastDay <- 2, MaxUntil <- 1,
    MaxId <- 3, MaxUploads <- 2, MaxVisits <- 2,
    line <- row, Week <- 2, MaxAhead <- 4, MaxRepeat <- 3, Oldest <- 6, LastDate <- 7, LastToday <- 2,
    NoDate <- Unreadable, NoRepeat <- NoColumn,
    stays <- fieldVisits, shift <- fieldDay, Worker <- {clerk}, FieldLeader <- {leader},
    FieldExecutive <- {executive, executive2}, FieldTeam <- [l \in {leader} |-> {executive}], Site <- {home, other},
    Zone <- {zone}, ZoneOf <- [b \in {home, other} |-> zone],
    Held <- (executive :> {home, other}) @@ (executive2 :> {}), Type <- {desk}, Photo <- {picture}, MaxImages <- 1,
    Status <- {"NOT_CONTACTED", "FOLLOW_UP"}, Time <- {noon}, MaxStays <- 2, MaxInquiries <- 0, LastShift <- 2,
    Colleague <- DOMAIN DeskRole, RoleOf <- DeskRole,
    ManagerOf <- [p \in DOMAIN DeskRole |-> IF p \in {leader1, leader2, executive} THEN boss ELSE Nobody],
    ZoneAt <- (home :> zone) @@ (other :> Nobody), Awaiting <- {other}, MaxActivity <- 2

-----------------------------------------------------------------------------
(* The pairing of a day is that of the plan.                               *)

LEMMA MatchIsOne == ASSUME NEW T, NEW V PROVE P!Match(T, V) = Match(T, V)
BY Zenon DEF P!Match, Match, P!Pass, Pass, P!MapThenFoldSet, MapThenFoldSet, P!Take, Take, P!Last, Last, P!Free,
    Free, P!Earliest, Earliest, P!StartsBefore, StartsBefore, P!Visits, Visits, P!InWindow, InWindow, P!Earlier,
    Earlier, P!Tasks, Tasks

LEMMA CountIsOne ==
    ASSUME NEW S
    PROVE  /\ P!IsFiniteSet(S) <=> IsFiniteSet(S)
           /\ P!Cardinality(S) = Cardinality(S) /\ P!Tasks(S) = Tasks(S) /\ P!Visits(S) = Visits(S)
<1>1. P!IsFiniteSet(S) <=> IsFiniteSet(S)
  BY Zenon DEF P!IsFiniteSet, IsFiniteSet
<1>2. P!Cardinality(S) = Cardinality(S)
  BY Zenon DEF P!Cardinality, Cardinality
<1> QED
  BY <1>1, <1>2, Zenon DEF P!Tasks, Tasks, P!Visits, Visits

\* Who is paired is at one building, nobody is paired twice, and whoever is not has
\* no visit left at its building.
LEMMA PairsAre ==
    ASSUME NEW T, P!InOrder(T), NEW V, P!InTurn(V)
    PROVE  /\ \A p \in Match(T, V) : p.task \in T /\ p.visit \in V /\ p.visit.b = p.task.b
           /\ \A p \in Match(T, V) : \A q \in Match(T, V) : p.task = q.task \/ p.visit = q.visit => p = q
           /\ \A t \in T \ Tasks(Match(T, V)) : \A v \in V : v.b = t.b => v \in Visits(Match(T, V))
<1> DEFINE M == Match(T, V)
<1>1. /\ \A p \in P!Match(T, V) : P!Pair(p, T, V, TRUE)
      /\ P!Paired(P!Match(T, V))
      /\ \A t \in T \ P!Tasks(P!Match(T, V)) : P!Free(t, V, TRUE, P!Match(T, V)) = {}
  BY P!MatchesAre, Zenon
<1>2. /\ \A p \in M : P!Pair(p, T, V, TRUE)
      /\ P!Paired(M)
      /\ \A t \in T \ P!Tasks(M) : P!Free(t, V, TRUE, M) = {}
  BY <1>1, MatchIsOne
<1> HIDE DEF M
<1>3. \A t \in T \ Tasks(M) : \A v \in V : v.b = t.b => v \in Visits(M)
  <2>1. P!Tasks(M) = Tasks(M) /\ P!Visits(M) = Visits(M)
    BY CountIsOne
  <2>2. \A t \in T \ Tasks(M) : P!Free(t, V, TRUE, M) = {}
    BY <1>2, <2>1
  <2> QED
    BY <2>1, <2>2 DEF P!Free
<1>4. M = Match(T, V)
  BY DEF M
<1> QED
  BY <1>2, <1>3, <1>4 DEF P!Pair, P!Paired

LEMMA PairsCounted ==
    ASSUME NEW S, NEW T, IsFiniteSet(T), NEW V, IsFiniteSet(V),
           \A p \in S : \A q \in S : p.task = q.task \/ p.visit = q.visit => p = q,
           \A p \in S : p.task \in T /\ p.visit \in V
    PROVE  Cardinality(Tasks(S)) = Cardinality(S) /\ Cardinality(Visits(S)) = Cardinality(S)
<1>1. P!IsFiniteSet(T) /\ P!IsFiniteSet(V) /\ P!Paired(S)
  BY CountIsOne DEF P!Paired
<1>2. P!Cardinality(P!Tasks(S)) = P!Cardinality(S) /\ P!Cardinality(P!Visits(S)) = P!Cardinality(S)
  BY <1>1, P!PairsCounted
<1> QED
  BY <1>2, CountIsOne

\* A visit in the window of a task paired outside of it counts in the window of another.
LEMMA OutsideIs ==
    ASSUME NEW T, P!InOrder(T), NEW V, P!InTurn(V),
           NEW p \in Match(T, V), ~InWindow(p.task, p.visit), NEW v \in V, v.b = p.task.b, InWindow(p.task, v)
    PROVE  \E q \in Match(T, V) : InWindow(q.task, q.visit) /\ q.visit = v
<1>1. \A t, w : P!InWindow(t, w) <=> InWindow(t, w)
  BY Zenon DEF P!InWindow, InWindow
<1>2. p \in P!Match(T, V) /\ ~P!InWindow(p.task, p.visit) /\ P!InWindow(p.task, v)
  BY <1>1, MatchIsOne
<1>3. \E q \in P!Match(T, V) : P!InWindow(q.task, q.visit) /\ q.visit = v
  BY <1>2, P!OutsideIs
<1> QED
  BY <1>1, <1>3, MatchIsOne

LEMMA MoreVisits ==
    ASSUME NEW T, P!InOrder(T), NEW W, P!InTurn(W), NEW V \in SUBSET W
    PROVE  Tasks(Match(T, V)) \subseteq Tasks(Match(T, W))
<1>1. P!Tasks(P!Match(T, V)) \subseteq P!Tasks(P!Match(T, W))
  BY P!MoreVisits
<1> QED
  BY <1>1, MatchIsOne, CountIsOne

-----------------------------------------------------------------------------
(* What a building has of it.                                              *)

\* At a building either all tasks have a visit or all visits count.
LEMMA BuildingIsComplete ==
    ASSUME NEW T, P!InOrder(T), NEW V, P!InTurn(V), NEW b, NEW here, here = {pair \in Match(T, V) : pair.task.b = b}
    PROVE  /\ Visits(here) \subseteq At(V, b)
           /\ Cardinality(Visits(here)) = Cardinality(here)
           /\ Cardinality(Tasks(here)) = Cardinality(here)
           /\ Cardinality(here) = Least(Cardinality(At(T, b)), Cardinality(At(V, b)))
<1>0. \A p \in Match(T, V) : p.task \in T /\ p.visit \in V /\ p.visit.b = p.task.b
  BY PairsAre
<1>1. \A p \in here : p.task \in At(T, b) /\ p.visit \in At(V, b)
  BY <1>0 DEF At
<1>2. IsFiniteSet(At(T, b)) /\ IsFiniteSet(At(V, b))
  BY FS_Subset, CountIsOne DEF P!InOrder, P!InTurn, At
<1>3. \A p \in here : \A q \in here : p.task = q.task \/ p.visit = q.visit => p = q
  BY PairsAre
<1>4. /\ Cardinality(Visits(here)) = Cardinality(here)
      /\ Cardinality(Tasks(here)) = Cardinality(here)
  BY <1>1, <1>2, <1>3, PairsCounted
<1>5. Visits(here) \subseteq At(V, b) /\ Tasks(here) \subseteq At(T, b)
  BY <1>1 DEF Visits, Tasks
<1>6. Tasks(here) = At(T, b) \/ Visits(here) = At(V, b)
  <2> SUFFICES ASSUME NEW t \in At(T, b), t \notin Tasks(here) PROVE Visits(here) = At(V, b)
    BY <1>5
  <2>1. t \in T /\ t.b = b
    BY DEF At
  <2>2. t \notin Tasks(Match(T, V))
    BY <2>1 DEF Tasks
  <2>3. \A v \in V : v.b = t.b => v \in Visits(Match(T, V))
    BY <2>1, <2>2, PairsAre
  <2>4. ASSUME NEW v \in At(V, b) PROVE v \in Visits(here)
    <3>1. v \in V /\ v.b = t.b
      BY <2>1 DEF At
    <3>2. v \in Visits(Match(T, V))
      BY <3>1, <2>3
    <3>3. PICK q \in Match(T, V) : q.visit = v
      BY <3>2 DEF Visits
    <3>4. q.task.b = b
      BY <3>1, <3>3, <2>1, <1>0
    <3> QED
      BY <3>3, <3>4 DEF Visits
  <2> QED
    BY <2>4, <1>5
<1>7. /\ Cardinality(Visits(here)) <= Cardinality(At(V, b))
      /\ Cardinality(Tasks(here)) <= Cardinality(At(T, b))
      /\ Cardinality(At(V, b)) \in Nat /\ Cardinality(At(T, b)) \in Nat
  BY <1>2, <1>5, FS_Subset, FS_CardinalityType
<1> QED
  BY <1>4, <1>5, <1>6, <1>7 DEF Least

-----------------------------------------------------------------------------
(* The day: its tasks and visits are in order, whatever comes.             *)

\* Check-ins are numbered as they come.
VisitsOK(V) ==
    /\ IsFiniteSet(V)
    /\ \A v \in V : v.id \in 1 .. Cardinality(V) /\ v.at \in Nat
    /\ \A v \in V : \A w \in V : v.id = w.id => v = w

\* The tasks and visits of a day are finitely many, and told apart by their ids.
DayOK ==
    /\ IsFiniteSet(tasks) /\ minute \in Nat /\ VisitsOK(visits)
    /\ \A t \in tasks : t.id \in Nat /\ t.win.allDay \in BOOLEAN /\ t.win.from \in Nat /\ t.win.to \in Nat
    /\ \A t \in tasks : \A u \in tasks : t.id = u.id => t = u

\* So the tasks are in order,
LEMMA TasksInOrder == DayOK => P!InOrder(tasks)
<1> SUFFICES ASSUME DayOK PROVE P!InOrder(tasks)
  OBVIOUS
<1>1. \A t \in tasks : ~P!StartsBefore(t, t)
  BY DEF DayOK, P!StartsBefore
<1>2. \A t \in tasks : \A u \in tasks : t # u => P!StartsBefore(t, u) \/ P!StartsBefore(u, t)
  BY DEF DayOK, P!StartsBefore
<1>3. \A t \in tasks : \A u \in tasks : \A w \in tasks : P!StartsBefore(t, u) /\ P!StartsBefore(u, w) => P!StartsBefore(t, w)
  BY DEF DayOK, P!StartsBefore
<1> QED
  BY <1>1, <1>2, <1>3, CountIsOne DEF P!InOrder, DayOK

\* and the visits, those of now and those to come.
LEMMA VisitsInTurn ==
    ASSUME NEW V, VisitsOK(V)
    PROVE  P!InTurn(V)
<1>1. \A v \in V : v.id \in Nat /\ v.at \in Nat
  BY FS_CardinalityType DEF VisitsOK
<1>2. \A t \in V : ~P!Earlier(t, t)
  BY <1>1 DEF P!Earlier
<1>3. \A t \in V : \A u \in V : t # u => P!Earlier(t, u) \/ P!Earlier(u, t)
  BY <1>1 DEF VisitsOK, P!Earlier
<1>4. \A t \in V : \A u \in V : \A w \in V : P!Earlier(t, u) /\ P!Earlier(u, w) => P!Earlier(t, w)
  BY <1>1 DEF P!Earlier
<1> QED
  BY <1>2, <1>3, <1>4, CountIsOne DEF P!InTurn, VisitsOK

\* The day begins so,
LEMMA DayFirst == Init => DayOK
<1> SUFFICES ASSUME Init PROVE DayOK
  OBVIOUS
<1>0. PICK n \in 0 .. MaxTasks : \E b \in [1 .. n -> Building], win \in [1 .. n -> {x \in Windows : Proper(x)}] :
          tasks = {[id |-> i, b |-> b[i], win |-> win[i]] : i \in 1 .. n}
  BY DEF Init
<1>1. PICK b \in [1 .. n -> Building], win \in [1 .. n -> {x \in Windows : Proper(x)}] :
          tasks = {[id |-> i, b |-> b[i], win |-> win[i]] : i \in 1 .. n}
  BY <1>0
<1>2. n \in Nat
  BY <1>0, VisitDayAssumption
<1>3. IsFiniteSet(tasks)
  <2> DEFINE f == [i \in 1 .. n |-> [id |-> i, b |-> b[i], win |-> win[i]]]
  <2>1. f \in Surjection(1 .. n, tasks)
    BY <1>1 DEF Surjection
  <2>2. IsFiniteSet(1 .. n)
    BY <1>2, FS_Interval
  <2> QED
    BY <2>1, <2>2, FS_Surjection
<1>4. \A x \in Windows : x.allDay \in BOOLEAN /\ x.from \in Nat /\ x.to \in Nat
  <2> DEFINE Fine(x) == x.allDay \in BOOLEAN /\ x.from \in Nat /\ x.to \in Nat
  <2>1. Fine(AllDay)
    BY DEF AllDay
  <2>2. \A l \in Nat : \A k \in Nat : Fine(Window(l, k))
    BY DEF Window
  <2>3. Minute \subseteq Nat
    BY VisitDayAssumption DEF Minute
  <2>4. \A x \in Windows : x = AllDay \/ \E l \in Nat : \E k \in Nat : x = Window(l, k)
    BY <2>3 DEF Windows
  <2> HIDE DEF Fine
  <2>5. \A x \in Windows : Fine(x)
    BY <2>1, <2>2, <2>4
  <2> QED
    BY <2>5 DEF Fine
<1>5. \A t \in tasks : \E i \in 1 .. n : t.id = i /\ t.win = win[i] /\ t = [id |-> i, b |-> b[i], win |-> win[i]]
  BY <1>1
<1>6. \A t \in tasks : t.id \in Nat /\ t.win.allDay \in BOOLEAN /\ t.win.from \in Nat /\ t.win.to \in Nat
  BY <1>2, <1>4, <1>5
<1>7. \A t \in tasks : \A u \in tasks : t.id = u.id => t = u
  BY <1>5
<1>8. IsFiniteSet(visits) /\ visits = {} /\ minute = 1
  BY FS_EmptySet DEF Init
<1> QED
  BY <1>3, <1>6, <1>7, <1>8 DEF DayOK, VisitsOK

\* and goes on so.
LEMMA DayStep == DayOK /\ [Next]_vars => DayOK'
<1> SUFFICES ASSUME DayOK, [Next]_vars PROVE DayOK'
  OBVIOUS
<1>1. ASSUME NEW b \in Building, CheckIn(b) PROVE DayOK'
  <2> DEFINE n == Cardinality(visits)
             new == [id |-> n + 1, b |-> b, at |-> minute]
  <2>1. visits' = visits \cup {new} /\ new.id = n + 1 /\ new.at = minute
    BY <1>1 DEF CheckIn
  <2>2. n \in Nat /\ \A v \in visits : v.id \in 1 .. n /\ v.at \in Nat
    BY FS_CardinalityType DEF DayOK, VisitsOK
  <2>3. minute \in Nat /\ UNCHANGED <<tasks, minute>>
    BY <1>1 DEF DayOK, CheckIn
  <2> HIDE DEF new, n
  <2>4. new \notin visits
    BY <2>1, <2>2
  <2>5. IsFiniteSet(visits') /\ Cardinality(visits') = n + 1
    BY <2>1, <2>4, FS_AddElement DEF DayOK, VisitsOK, n
  <2>6. \A v \in visits' : v.id \in 1 .. (n + 1) /\ v.at \in Nat
    BY <2>1, <2>2, <2>3
  <2>7. \A v \in visits' : \A w \in visits' : v.id = w.id => v = w
    BY <2>1, <2>2 DEF DayOK, VisitsOK
  <2> QED
    BY <2>3, <2>5, <2>6, <2>7 DEF DayOK, VisitsOK
<1>2. CASE Tick
  BY <1>2 DEF Tick, DayOK
<1>3. CASE UNCHANGED vars
  BY <1>3 DEF vars, DayOK
<1> QED
  BY <1>1, <1>2, <1>3 DEF Next

-----------------------------------------------------------------------------
(* The day's pairing, and how the status of a task goes on.                *)

\* What PairingIsBest says, from the order alone.
LEMMA DayIsBest == DayOK => PairingIsBest
<1> SUFFICES ASSUME DayOK PROVE PairingIsBest
  OBVIOUS
<1>1. P!InOrder(tasks) /\ P!InTurn(visits)
  BY TasksInOrder, VisitsInTurn DEF DayOK
<1>2. PairingIsComplete
  BY <1>1, BuildingIsComplete DEF PairingIsComplete
<1>3. OutsideIsNeeded
  <2> SUFFICES ASSUME NEW pair \in Match(tasks, visits), ~InWindow(pair.task, pair.visit),
                      NEW v \in At(visits, pair.task.b), InWindow(pair.task, v)
               PROVE  v \in Visits({p \in Match(tasks, visits) : InWindow(p.task, p.visit)})
    BY DEF OutsideIsNeeded
  <2>1. v \in visits /\ v.b = pair.task.b
    BY DEF At
  <2>2. \E q \in Match(tasks, visits) : InWindow(q.task, q.visit) /\ q.visit = v
    BY <1>1, <2>1, OutsideIs
  <2> QED
    BY <2>2 DEF Visits
<1> QED
  BY <1>2, <1>3 DEF PairingIsBest

\* The visit of t, if it has one.
SeenBy(t, pairs) == {p.visit : p \in {q \in pairs : q.task = t}}

LEMMA RankIs ==
    ASSUME NEW t \in tasks, NEW pairs, NEW now
    PROVE  StatusRank(pairs, now)[t] = Rank[TaskStatus(t, 1, SeenBy(t, pairs), now)]
BY Zenon DEF StatusRank, SeenBy

LEMMA SeenIs == ASSUME NEW t, NEW pairs PROVE SeenBy(t, pairs) # {} <=> t \in Tasks(pairs)
BY DEF SeenBy, Tasks

\* A task with a visit has the last status,
LEMMA RankOfSeen ==
    ASSUME NEW t, NEW seen, seen # {}, NEW now
    PROVE  Rank[TaskStatus(t, 1, seen, now)] = 3
BY DEF TaskStatus, StatusVisited, Rank

\* one without has that of the time of day,
LEMMA RankToday ==
    ASSUME NEW win, NEW m
    PROVE  Rank[StatusToday(win, m)] = IF win.allDay \/ m \in win.from .. win.to THEN 1 ELSE IF m < win.from THEN 0 ELSE 2
BY DEF StatusToday, Rank

\* which only goes on as time does.
LEMMA RankOfUnseen ==
    ASSUME NEW t, NEW now, now.day \in {1, 2}
    PROVE  Rank[TaskStatus(t, 1, {}, now)] =
              IF now.day = 2 THEN 2
              ELSE IF t.win.allDay \/ now.minute \in t.win.from .. t.win.to THEN 1
              ELSE IF now.minute < t.win.from THEN 0 ELSE 2
<1>1. CASE now.day = 1
  BY <1>1, RankToday DEF TaskStatus
<1>2. CASE now.day = 2
  <2>1. TaskStatus(t, 1, {}, now) = "OVERDUE"
    BY <1>2 DEF TaskStatus
  <2> QED
    BY <1>2, <2>1 DEF Rank
<1> QED
  BY <1>1, <1>2

\* So no step takes a status back.
LEMMA StatusStep == DayOK /\ DayOK' /\ [Next]_vars =>
    \A t \in tasks : StatusRank(Match(tasks, visits), Clock)[t] <= StatusRank(Match(tasks, visits'), Clock')[t]
<1> SUFFICES ASSUME DayOK, DayOK', [Next]_vars, NEW t \in tasks
             PROVE  StatusRank(Match(tasks, visits), Clock)[t] <= StatusRank(Match(tasks, visits'), Clock')[t]
  OBVIOUS
<1> DEFINE M == Match(tasks, visits)
           N == Match(tasks, visits')
           now == Clock
           then == Clock'
<1>1. visits \in SUBSET visits' /\ tasks' = tasks
  BY DEF Next, CheckIn, Tick, vars
<1>2. Tasks(M) \subseteq Tasks(N)
  <2>1. P!InOrder(tasks)
    BY TasksInOrder
  <2>2. P!InTurn(visits')
    BY VisitsInTurn DEF DayOK
  <2> QED
    BY <1>1, <2>1, <2>2, MoreVisits
<1>3. /\ now.day \in {1, 2} /\ then.day \in {1, 2} /\ now.day <= then.day
      /\ now.day = 1 /\ then.day = 1 => now.minute \in Nat /\ then.minute \in Nat /\ now.minute <= then.minute
  BY VisitDayAssumption DEF Clock, Next, CheckIn, Tick, vars, DayOK
<1>4. t.win.allDay \in BOOLEAN /\ t.win.from \in Nat /\ t.win.to \in Nat
  BY DEF DayOK
<1>5. StatusRank(M, now)[t] = Rank[TaskStatus(t, 1, SeenBy(t, M), now)] /\ StatusRank(N, then)[t] = Rank[TaskStatus(t, 1, SeenBy(t, N), then)]
  BY RankIs
<1> SUFFICES StatusRank(M, now)[t] <= StatusRank(N, then)[t]
  OBVIOUS
<1> HIDE DEF M, N, now, then
<1>6. CASE SeenBy(t, N) = {}
  <2>1. SeenBy(t, M) = {}
    BY <1>2, <1>6, SeenIs
  <2> QED
    BY <1>3, <1>4, <1>5, <1>6, <2>1, RankOfUnseen
<1>7. CASE SeenBy(t, N) # {}
  <2>1. Rank[TaskStatus(t, 1, SeenBy(t, N), then)] = 3
    BY <1>7, RankOfSeen
  <2>2. Rank[TaskStatus(t, 1, SeenBy(t, M), now)] \in 0 .. 3
    <3>1. CASE SeenBy(t, M) = {}
      BY <3>1, <1>3, RankOfUnseen
    <3>2. CASE SeenBy(t, M) # {}
      BY <3>2, RankOfSeen
    <3> QED
      BY <3>1, <3>2
  <2> QED
    BY <1>5, <2>1, <2>2
<1> QED
  BY <1>6, <1>7

-----------------------------------------------------------------------------
(* The same in the run.                                                    *)

LEMMA DayAlways == MCSpec => []DayOK
<1>1. MCInit => DayOK
  <2>1. tasks = {} /\ visits = {} /\ minute = 1 => DayOK
    BY FS_EmptySet DEF DayOK, VisitsOK
  <2> QED
    BY <2>1, DayFirst, Zenon DEF MCInit
<1>2. DayOK /\ [MCNext]_allVars => DayOK'
  <2>1. [MCNext]_allVars => [Next]_vars
    BY Zenon DEF MCNext, allVars, day, vars
  <2> QED
    BY <2>1, DayStep
<1> QED
  BY <1>1, <1>2, PTL DEF MCSpec

\* Whatever tasks a day has and whatever check-ins come in: at each building as
\* many tasks count as visited as there are visits for, and a visit counts outside
\* a task's window only if all in it count for tasks within whose windows they are.
THEOREM DayStaysPairedBest == MCSpec => []DayIsPairedBest
<1>1. DayOK => DayIsPairedBest
  BY DayIsBest DEF DayIsPairedBest
<1> QED
  BY <1>1, DayAlways, PTL

\* Whatever comes in and however late it gets, no task's status goes back: a
\* further check-in leaves every task its visit.
THEOREM DayKeepsGoingForward == MCSpec => DayGoesForward
<1>1. DayOK /\ DayOK' /\ [MCNext]_allVars =>
          [LET before == StatusRank(Match(tasks, visits), Clock)
               after  == StatusRank(Match(tasks, visits'), Clock')
           IN  \A t \in tasks : before[t] <= after[t]]_vars
  <2>1. [MCNext]_allVars => [Next]_vars
    BY Zenon DEF MCNext, allVars, day, vars
  <2> QED
    BY <2>1, StatusStep
<1> QED
  BY <1>1, DayAlways, PTL DEF MCSpec, DayGoesForward, StatusGoesForward
-----------------------------------------------------------------------------
(* The plan of the run is one of those VisitPlanProofs is about.           *)

LEMMA PlanInitIsOne == Plan!Init <=> P!Init
BY Zenon DEF P!Init, Plan!Init

LEMMA CreateTaskIsOne == ASSUME NEW actor, NEW t PROVE Plan!CreateTask(actor, t) <=> P!CreateTask(actor, t)
BY Zenon DEF P!CreateTask, Plan!CreateTask, P!CheckEdit, Plan!CheckEdit, P!Fresh, Plan!Fresh, P!Min, Plan!Min,
    P!CheckTargetDays, Plan!CheckTargetDays, P!NeedsHandOver, Plan!NeedsHandOver, P!Over, Plan!Over, P!Without,
    Plan!Without, P!StrandedTasks, Plan!StrandedTasks, P!Assignees, Plan!Assignees, P!CheckWhen, Plan!CheckWhen,
    P!Assignable, Plan!Assignable, P!CanWorkBuilding, Plan!CanWorkBuilding, P!HeldElsewhere, Plan!HeldElsewhere,
    P!Id, Plan!Id, P!KeyOf, Plan!KeyOf, P!VisitedIds, Plan!VisitedIds, P!Restrict, Plan!Restrict, P!VisitedToday,
    Plan!VisitedToday, P!Person, Plan!Person, P!Day, Plan!Day, P!InPool, Plan!InPool, P!Readable, Plan!Readable,
    P!Tasks, Plan!Tasks, P!PairsOf, Plan!PairsOf, P!VisitsOf, Plan!VisitsOf, P!Match, Plan!Match, P!On, Plan!On,
    P!Pass, Plan!Pass, P!MapThenFoldSet, Plan!MapThenFoldSet, P!Take, Plan!Take, P!Last, Plan!Last, P!Free,
    Plan!Free, P!Earliest, Plan!Earliest, P!StartsBefore, Plan!StartsBefore, P!Visits, Plan!Visits, P!InWindow,
    Plan!InWindow, P!Earlier, Plan!Earlier

LEMMA CheckEditIsOne == ASSUME NEW actor, NEW t PROVE Plan!CheckEdit(actor, t) <=> P!CheckEdit(actor, t)
BY Zenon DEF P!CheckEdit, Plan!CheckEdit, P!Assignees, Plan!Assignees, P!CheckWhen, Plan!CheckWhen, P!Assignable,
    Plan!Assignable, P!CanWorkBuilding, Plan!CanWorkBuilding, P!HeldElsewhere, Plan!HeldElsewhere, P!Person,
    Plan!Person, P!Day, Plan!Day, P!InPool, Plan!InPool, P!Readable, Plan!Readable

LEMMA TargetDaysIsOne == ASSUME NEW landing PROVE Plan!CheckTargetDays(landing) <=> P!CheckTargetDays(landing)
BY Zenon DEF P!CheckTargetDays, Plan!CheckTargetDays, P!Without, Plan!Without, P!KeyOf, Plan!KeyOf, P!Over,
    Plan!Over, P!VisitedIds, Plan!VisitedIds, P!Restrict, Plan!Restrict, P!Tasks, Plan!Tasks, P!PairsOf,
    Plan!PairsOf, P!Match, Plan!Match, P!On, Plan!On, P!VisitsOf, Plan!VisitsOf, P!Pass, Plan!Pass,
    P!MapThenFoldSet, Plan!MapThenFoldSet, P!Take, Plan!Take, P!Last, Plan!Last, P!Free, Plan!Free, P!Earliest,
    Plan!Earliest, P!StartsBefore, Plan!StartsBefore, P!Visits, Plan!Visits, P!InWindow, Plan!InWindow, P!Earlier,
    Plan!Earlier

LEMMA EditableIsOne == ASSUME NEW actor, NEW i PROVE Plan!Editable(actor, i) <=> P!Editable(actor, i)
BY Zenon DEF P!Editable, Plan!Editable, P!Assignees, Plan!Assignees, P!VisitedIds, Plan!VisitedIds, P!Person,
    Plan!Person, P!Tasks, Plan!Tasks, P!PairsOf, Plan!PairsOf, P!Match, Plan!Match, P!On, Plan!On, P!VisitsOf,
    Plan!VisitsOf, P!Pass, Plan!Pass, P!MapThenFoldSet, Plan!MapThenFoldSet, P!Take, Plan!Take, P!Last, Plan!Last,
    P!Free, Plan!Free, P!Earliest, Plan!Earliest, P!StartsBefore, Plan!StartsBefore, P!Visits, Plan!Visits,
    P!InWindow, Plan!InWindow, P!Earlier, Plan!Earlier

LEMMA LandingIsOne ==
    ASSUME NEW actor, NEW i, NEW scope, NEW patch
    PROVE  [j \in Plan!Targets(actor, i, scope) |-> Plan!Patched(i, j, patch)] =
               [j \in P!Targets(actor, i, scope) |-> P!Patched(i, j, patch)]
BY Zenon DEF P!Targets, Plan!Targets, P!Patched, Plan!Patched, P!LaterInSeries, Plan!LaterInSeries, P!Assignees,
    Plan!Assignees, P!Given, Plan!Given, P!LaterAll, Plan!LaterAll, P!VisitedIds, Plan!VisitedIds, P!Person,
    Plan!Person, P!Tasks, Plan!Tasks, P!PairsOf, Plan!PairsOf, P!Match, Plan!Match, P!On, Plan!On, P!VisitsOf,
    Plan!VisitsOf, P!Pass, Plan!Pass, P!MapThenFoldSet, Plan!MapThenFoldSet, P!Take, Plan!Take, P!Last, Plan!Last,
    P!Free, Plan!Free, P!Earliest, Plan!Earliest, P!StartsBefore, Plan!StartsBefore, P!Visits, Plan!Visits,
    P!InWindow, Plan!InWindow, P!Earlier, Plan!Earlier

\* The buildings handed over with an edit that has this landing.
HandedOver(landing) ==
    LET moved == {j \in DOMAIN landing : landing[j].who # planTasks[j].who \/ landing[j].b # planTasks[j].b}
    IN  {<<landing[j].b, landing[j].who>> : j \in {k \in moved : P!NeedsHandOver(landing[k].who, landing[k].b)}}

LEMMA HandedOverIsOne ==
    ASSUME NEW landing
    PROVE  /\ Plan!HandOver(Plan!Over(landing, planTasks), HandedOver(landing))
                  <=> P!HandOver(P!Over(landing, planTasks), HandedOver(landing))
           /\ HandedOver(landing) =
                  LET moved == {j \in DOMAIN landing : landing[j].who # planTasks[j].who \/ landing[j].b # planTasks[j].b}
                  IN  {<<landing[j].b, landing[j].who>> : j \in {k \in moved : Plan!NeedsHandOver(landing[k].who, landing[k].b)}}
<1>1. Plan!HandOver(Plan!Over(landing, planTasks), HandedOver(landing))
          <=> P!HandOver(P!Over(landing, planTasks), HandedOver(landing))
  BY Zenon DEF P!HandOver, Plan!HandOver, P!Over, Plan!Over, P!Without, Plan!Without, P!StrandedTasks,
    Plan!StrandedTasks, P!Restrict, Plan!Restrict, P!VisitedToday, Plan!VisitedToday, P!VisitsOf, Plan!VisitsOf
<1>2. HandedOver(landing) =
        LET moved == {j \in DOMAIN landing : landing[j].who # planTasks[j].who \/ landing[j].b # planTasks[j].b}
        IN  {<<landing[j].b, landing[j].who>> : j \in {k \in moved : Plan!NeedsHandOver(landing[k].who, landing[k].b)}}
  BY Zenon DEF HandedOver, P!NeedsHandOver, Plan!NeedsHandOver
<1> QED
  BY <1>1, <1>2

\* What an edit with this landing checks and does.
PlanEdit(actor, landing) ==
    /\ \A j \in DOMAIN landing : Plan!CheckEdit(actor, landing[j])
    /\ Plan!CheckTargetDays(landing)
    /\ \A p, q \in HandedOver(landing) : p[1] = q[1] => p = q
    /\ Plan!HandOver(Plan!Over(landing, planTasks), HandedOver(landing))
Edit(actor, landing) ==
    /\ \A j \in DOMAIN landing : P!CheckEdit(actor, landing[j])
    /\ P!CheckTargetDays(landing)
    /\ \A p, q \in HandedOver(landing) : p[1] = q[1] => p = q
    /\ P!HandOver(P!Over(landing, planTasks), HandedOver(landing))

LEMMA EditIsOne == ASSUME NEW actor, NEW landing PROVE PlanEdit(actor, landing) <=> Edit(actor, landing)
BY CheckEditIsOne, TargetDaysIsOne, HandedOverIsOne, Zenon DEF PlanEdit, Edit

LEMMA UpdateTaskIsOne ==
    ASSUME NEW actor, NEW i, NEW scope, NEW patch
    PROVE  Plan!UpdateTask(actor, i, scope, patch) <=> P!UpdateTask(actor, i, scope, patch)
<1> DEFINE there == [j \in Plan!Targets(actor, i, scope) |-> Plan!Patched(i, j, patch)]
           here == [j \in P!Targets(actor, i, scope) |-> P!Patched(i, j, patch)]
<1>1. Plan!UpdateTask(actor, i, scope, patch) <=>
          /\ Plan!Editable(actor, i) /\ PlanEdit(actor, there)
          /\ UNCHANGED <<planVisits, uploads, planDay>>
  <2>1. HandedOver(there) =
          LET moved == {j \in DOMAIN there : there[j].who # planTasks[j].who \/ there[j].b # planTasks[j].b}
          IN  {<<there[j].b, there[j].who>> : j \in {k \in moved : Plan!NeedsHandOver(there[k].who, there[k].b)}}
    BY HandedOverIsOne
  <2> QED
    BY <2>1, Zenon DEF Plan!UpdateTask, PlanEdit
<1>2. P!UpdateTask(actor, i, scope, patch) <=>
          /\ P!Editable(actor, i) /\ Edit(actor, here)
          /\ UNCHANGED <<planVisits, uploads, planDay>>
  BY Zenon DEF P!UpdateTask, Edit, HandedOver
<1>3. there = here
  BY LandingIsOne
<1> HIDE DEF there, here
<1> QED
  BY <1>1, <1>2, <1>3, EditableIsOne, EditIsOne

LEMMA DeleteTaskIsOne == ASSUME NEW actor, NEW i, NEW scope PROVE Plan!DeleteTask(actor, i, scope) <=> P!DeleteTask(actor, i, scope)
BY Zenon DEF P!DeleteTask, Plan!DeleteTask, P!Editable, Plan!Editable, P!Without, Plan!Without, P!Targets,
    Plan!Targets, P!Assignees, Plan!Assignees, P!VisitedIds, Plan!VisitedIds, P!Restrict, Plan!Restrict,
    P!LaterInSeries, Plan!LaterInSeries, P!Person, Plan!Person, P!Tasks, Plan!Tasks, P!PairsOf, Plan!PairsOf,
    P!LaterAll, Plan!LaterAll, P!Match, Plan!Match, P!On, Plan!On, P!VisitsOf, Plan!VisitsOf, P!Pass, Plan!Pass,
    P!MapThenFoldSet, Plan!MapThenFoldSet, P!Take, Plan!Take, P!Last, Plan!Last, P!Free, Plan!Free, P!Earliest,
    Plan!Earliest, P!StartsBefore, Plan!StartsBefore, P!Visits, Plan!Visits, P!InWindow, Plan!InWindow, P!Earlier,
    Plan!Earlier

LEMMA ImportIsOne == ASSUME NEW actor, NEW asked PROVE Plan!Import(actor, asked) <=> P!Import(actor, asked)
BY Zenon DEF P!Import, Plan!Import, P!ImportChecks, Plan!ImportChecks, P!Upload, Plan!Upload, P!ImportPlan,
    Plan!ImportPlan, P!Min, Plan!Min, P!RowOk, Plan!RowOk, P!Planned, Plan!Planned, P!LiveRows, Plan!LiveRows,
    P!Contested, Plan!Contested, P!Replaceable, Plan!Replaceable, P!StrandedTasks, Plan!StrandedTasks, P!Assigns,
    Plan!Assigns, P!Creates, Plan!Creates, P!kSubset, Plan!kSubset, P!Cardinality, Plan!Cardinality, P!Fresh,
    Plan!Fresh, P!Bijection, Plan!Bijection, P!Id, Plan!Id, P!Injection, Plan!Injection, P!Over, Plan!Over,
    P!Without, Plan!Without, P!Assignees, Plan!Assignees, P!Assignable, Plan!Assignable, P!CanWorkBuilding,
    Plan!CanWorkBuilding, P!HeldElsewhere, Plan!HeldElsewhere, P!KeyOf, Plan!KeyOf, P!RowTask, Plan!RowTask,
    P!DaysLeft, Plan!DaysLeft, P!DaysOf, Plan!DaysOf, P!InSpan, Plan!InSpan, P!Kept, Plan!Kept, P!VisitedToday,
    Plan!VisitedToday, P!NeedsHandOver, Plan!NeedsHandOver, P!KeptKeys, Plan!KeptKeys, P!Surjection,
    Plan!Surjection, P!IsInjective, Plan!IsInjective, P!Restrict, Plan!Restrict, P!Person, Plan!Person, P!InPool,
    Plan!InPool, P!Readable, Plan!Readable, P!Day, Plan!Day, P!Span, Plan!Span, P!VisitsOf, Plan!VisitsOf, P!Max,
    Plan!Max

LEMMA RemoveUploadIsOne == ASSUME NEW u PROVE Plan!RemoveUpload(u) <=> P!RemoveUpload(u)
BY Zenon DEF P!RemoveUpload, Plan!RemoveUpload, P!UploadTasks, Plan!UploadTasks, P!VisitedIds, Plan!VisitedIds,
    P!Without, Plan!Without, P!Tasks, Plan!Tasks, P!PairsOf, Plan!PairsOf, P!Restrict, Plan!Restrict, P!Match,
    Plan!Match, P!On, Plan!On, P!VisitsOf, Plan!VisitsOf, P!Pass, Plan!Pass, P!MapThenFoldSet, Plan!MapThenFoldSet,
    P!Take, Plan!Take, P!Last, Plan!Last, P!Free, Plan!Free, P!Earliest, Plan!Earliest, P!StartsBefore,
    Plan!StartsBefore, P!Visits, Plan!Visits, P!InWindow, Plan!InWindow, P!Earlier, Plan!Earlier

LEMMA CheckInIsOne == ASSUME NEW who, NEW b, NEW at, NEW along PROVE Plan!CheckIn(who, b, at, along) <=> P!CheckIn(who, b, at, along)
BY Zenon DEF P!CheckIn, Plan!CheckIn, P!InPool, Plan!InPool, P!Cardinality, Plan!Cardinality

LEMMA PlanNextIsOne == Plan!Next <=> P!Next
BY CreateTaskIsOne, UpdateTaskIsOne, DeleteTaskIsOne, ImportIsOne, RemoveUploadIsOne, CheckInIsOne, Zenon
DEF P!Next, Plan!Next, P!Planner, Plan!Planner, P!Scope, Plan!Scope, P!Person, Plan!Person, P!Tick, Plan!Tick

LEMMA VisitedIsOne == P!VisitedIds(planTasks) = Plan!VisitedIds(planTasks)
BY Zenon DEF P!VisitedIds, Plan!VisitedIds, P!Tasks, Plan!Tasks, P!PairsOf, Plan!PairsOf, P!Match, Plan!Match, P!On,
    Plan!On, P!VisitsOf, Plan!VisitsOf, P!Pass, Plan!Pass, P!MapThenFoldSet, Plan!MapThenFoldSet, P!Take, Plan!Take,
    P!Last, Plan!Last, P!Free, Plan!Free, P!Earliest, Plan!Earliest, P!StartsBefore, Plan!StartsBefore, P!Visits,
    Plan!Visits, P!InWindow, Plan!InWindow, P!Earlier, Plan!Earlier

LEMMA NoTwinsIsOne == P!PlanHasNoTwins <=> Plan!PlanHasNoTwins
BY Zenon DEF P!PlanHasNoTwins, Plan!PlanHasNoTwins, P!KeyOf, Plan!KeyOf

LEMMA PlanSetupHolds == P!PlanSetup
<1>1. P!IsFiniteSet({executive, executive2})
  <2>1. P!IsFiniteSet({executive} \cup {executive2})
    BY P!FS_Singleton, P!FS_AddElement
  <2>2. {executive} \cup {executive2} = {executive, executive2}
    OBVIOUS
  <2> QED
    BY <2>1, <2>2, Zenon
<1>2. \A win \in {AllDay, Window(1, 1)} : win.allDay \in BOOLEAN /\ win.from \in Nat /\ win.to \in Nat
  <2> DEFINE Fine(win) == win.allDay \in BOOLEAN /\ win.from \in Nat /\ win.to \in Nat
  <2>1. Fine(AllDay)
    BY DEF AllDay
  <2>2. Fine(Window(1, 1))
    BY DEF Window
  <2> HIDE DEF Fine
  <2>3. \A win \in {AllDay, Window(1, 1)} : Fine(win)
    BY <2>1, <2>2
  <2> QED
    BY <2>3 DEF Fine
<1>3. {1} \subseteq Nat /\ [l \in {leader} |-> {executive}] \in [{leader} -> SUBSET {executive, executive2}]
  OBVIOUS
<1>4. \A patch \in PlanPatches : patch.win \in {AllDay, Window(1, 1)} \cup {AsBefore}
  BY DEF PlanPatches, Leave
<1>5. P!Person = {executive, executive2} \cup {leader} /\ P!Day = 1 .. 2
  BY DEF P!Person, P!Day
<1>6. {[who |-> executive, b |-> home, day |-> 1, win |-> AllDay]} \subseteq
          [who : P!Person, b : {home}, day : Nat, win : {AllDay, Window(1, 1)}]
  BY <1>5
<1>7. PlanSheets \subseteq Seq([who : P!Person, b : {home}, days : SUBSET P!Day, win : {AllDay, Window(1, 1)}])
  BY <1>5 DEF PlanSheets, Task
<1>8. 2 \in Nat /\ 1 <= 2 /\ 3 \in Nat
  OBVIOUS
<1> QED
  BY <1>1, <1>2, <1>3, <1>4, <1>6, <1>7, <1>8, Zenon DEF P!PlanSetup


-----------------------------------------------------------------------------
(* What is told of the plan, and listed of it.                             *)

LEMMA PreviewTrueIsOne == P!PreviewIsTrue <=> Plan!PreviewIsTrue
<1> DEFINE
    Tells(actor, asked) ==
      LET told == P!Preview(actor, asked)
          rows == P!LiveRows(asked)
          gone == P!Replaceable(asked, rows) \cup UNION {P!StrandedTasks(planTasks, a[1], a[2]) : a \in P!Assigns(asked, rows)}
      IN  ~told.errors /\ P!LiveRows(asked) # {} =>
              /\ P!ImportChecks(actor, asked)
              /\ told.creates = P!Cardinality(P!Creates(asked, rows))
              /\ told.replaces = P!Cardinality(gone)
              /\ told.assigns = P!Cardinality({a[1] : a \in P!Assigns(asked, rows)})
    PlanTells(actor, asked) ==
      LET told == Plan!Preview(actor, asked)
          rows == Plan!LiveRows(asked)
          gone == Plan!Replaceable(asked, rows) \cup UNION {Plan!StrandedTasks(planTasks, a[1], a[2]) : a \in Plan!Assigns(asked, rows)}
      IN  ~told.errors /\ Plan!LiveRows(asked) # {} =>
              /\ Plan!ImportChecks(actor, asked)
              /\ told.creates = Plan!Cardinality(Plan!Creates(asked, rows))
              /\ told.replaces = Plan!Cardinality(gone)
              /\ told.assigns = Plan!Cardinality({a[1] : a \in Plan!Assigns(asked, rows)})
<1>1. ASSUME NEW actor, NEW asked PROVE Tells(actor, asked) <=> PlanTells(actor, asked)
  <2>1. P!Preview(actor, asked) = Plan!Preview(actor, asked)
    BY Zenon DEF P!Preview, Plan!Preview, P!PreviewRows, Plan!PreviewRows, P!Replaceable, Plan!Replaceable,
        P!StrandedTasks, Plan!StrandedTasks, P!Assigns, Plan!Assigns, P!LiveRows, Plan!LiveRows, P!RowOk, Plan!RowOk,
        P!SumFunction, Plan!SumFunction, P!Cardinality, Plan!Cardinality, P!Creates, Plan!Creates, P!Contested,
        Plan!Contested, P!InSpan, Plan!InSpan, P!Kept, Plan!Kept, P!VisitedToday, Plan!VisitedToday, P!NeedsHandOver,
        Plan!NeedsHandOver, P!DaysOf, Plan!DaysOf, P!Assignees, Plan!Assignees, P!Assignable, Plan!Assignable,
        P!CanWorkBuilding, Plan!CanWorkBuilding, P!HeldElsewhere, Plan!HeldElsewhere, P!SumFunctionOnSet,
        Plan!SumFunctionOnSet, P!Planned, Plan!Planned, P!KeptKeys, Plan!KeptKeys, P!Span, Plan!Span, P!VisitsOf,
        Plan!VisitsOf, P!Person, Plan!Person, P!InPool, Plan!InPool, P!Readable, Plan!Readable, P!FoldFunctionOnSet,
        Plan!FoldFunctionOnSet, P!KeyOf, Plan!KeyOf, P!RowTask, Plan!RowTask, P!DaysLeft, Plan!DaysLeft, P!Min,
        Plan!Min, P!Max, Plan!Max, P!MapThenFoldSet, Plan!MapThenFoldSet, P!Day, Plan!Day
  <2>2. P!ImportChecks(actor, asked) <=> Plan!ImportChecks(actor, asked)
    BY Zenon DEF P!ImportChecks, Plan!ImportChecks, P!RowOk, Plan!RowOk, P!Planned, Plan!Planned, P!LiveRows,
        Plan!LiveRows, P!Contested, Plan!Contested, P!Assignees, Plan!Assignees, P!Assignable, Plan!Assignable,
        P!CanWorkBuilding, Plan!CanWorkBuilding, P!HeldElsewhere, Plan!HeldElsewhere, P!KeyOf, Plan!KeyOf, P!RowTask,
        Plan!RowTask, P!DaysLeft, Plan!DaysLeft, P!DaysOf, Plan!DaysOf, P!Person, Plan!Person, P!InPool, Plan!InPool,
        P!Readable, Plan!Readable, P!Day, Plan!Day
  <2>3. P!LiveRows(asked) = Plan!LiveRows(asked)
    BY Zenon DEF P!LiveRows, Plan!LiveRows, P!DaysOf, Plan!DaysOf
  <2>4. P!Cardinality(P!Creates(asked, P!LiveRows(asked))) = Plan!Cardinality(Plan!Creates(asked, Plan!LiveRows(asked)))
    BY Zenon DEF P!Cardinality, Plan!Cardinality, P!Creates, Plan!Creates, P!LiveRows, Plan!LiveRows, P!Planned,
        Plan!Planned, P!KeptKeys, Plan!KeptKeys, P!DaysOf, Plan!DaysOf, P!KeyOf, Plan!KeyOf, P!RowTask, Plan!RowTask,
        P!DaysLeft, Plan!DaysLeft, P!InSpan, Plan!InSpan, P!Kept, Plan!Kept, P!Day, Plan!Day, P!Span, Plan!Span,
        P!VisitedToday, Plan!VisitedToday, P!Min, Plan!Min, P!Max, Plan!Max, P!VisitsOf, Plan!VisitsOf
  <2>5. P!Cardinality(P!Replaceable(asked, P!LiveRows(asked)) \cup
            UNION {P!StrandedTasks(planTasks, a[1], a[2]) : a \in P!Assigns(asked, P!LiveRows(asked))})
        = Plan!Cardinality(Plan!Replaceable(asked, Plan!LiveRows(asked)) \cup
            UNION {Plan!StrandedTasks(planTasks, a[1], a[2]) : a \in Plan!Assigns(asked, Plan!LiveRows(asked))})
    BY Zenon DEF P!Cardinality, Plan!Cardinality, P!Replaceable, Plan!Replaceable, P!LiveRows, Plan!LiveRows,
        P!StrandedTasks, Plan!StrandedTasks, P!Assigns, Plan!Assigns, P!InSpan, Plan!InSpan, P!Kept, Plan!Kept,
        P!DaysOf, Plan!DaysOf, P!VisitedToday, Plan!VisitedToday, P!NeedsHandOver, Plan!NeedsHandOver, P!Span,
        Plan!Span, P!VisitsOf, Plan!VisitsOf, P!Min, Plan!Min, P!Max, Plan!Max
  <2>6. P!Cardinality({a[1] : a \in P!Assigns(asked, P!LiveRows(asked))})
        = Plan!Cardinality({a[1] : a \in Plan!Assigns(asked, Plan!LiveRows(asked))})
    BY Zenon DEF P!Cardinality, Plan!Cardinality, P!Assigns, Plan!Assigns, P!LiveRows, Plan!LiveRows, P!NeedsHandOver,
        Plan!NeedsHandOver, P!DaysOf, Plan!DaysOf
  <2> QED
    BY <2>1, <2>2, <2>3, <2>4, <2>5, <2>6, Zenon
<1>2. P!PreviewIsTrue <=> \A actor \in P!Planner, asked \in PlanSheets : Tells(actor, asked)
  BY Zenon DEF P!PreviewIsTrue
<1>3. Plan!PreviewIsTrue <=> \A actor \in Plan!Planner, asked \in PlanSheets : PlanTells(actor, asked)
  BY Zenon DEF Plan!PreviewIsTrue
<1>4. P!Planner = Plan!Planner
  BY Zenon DEF P!Planner, Plan!Planner
<1> HIDE DEF Tells, PlanTells
<1> QED
  BY <1>1, <1>2, <1>3, <1>4, Zenon

LEMMA ListTasksIsOne == ASSUME NEW actor, NEW p, NEW days PROVE Plan!ListTasks(actor, p, days) = P!ListTasks(actor, p, days)
BY Zenon DEF P!ListTasks, Plan!ListTasks, P!Readable, Plan!Readable, P!On, Plan!On, P!PairsOf, Plan!PairsOf,
    P!SeriesLaterCount, Plan!SeriesLaterCount, P!VisitsOf, Plan!VisitsOf, P!Visits, Plan!Visits, P!Person,
    Plan!Person, P!Match, Plan!Match, P!Planner, Plan!Planner, P!Assignees, Plan!Assignees, P!Cardinality,
    Plan!Cardinality, P!VisitedIds, Plan!VisitedIds, P!Pass, Plan!Pass, P!Tasks, Plan!Tasks, P!MapThenFoldSet,
    Plan!MapThenFoldSet, P!Take, Plan!Take, P!Last, Plan!Last, P!Free, Plan!Free, P!Earliest, Plan!Earliest,
    P!StartsBefore, Plan!StartsBefore, P!InWindow, Plan!InWindow, P!Earlier, Plan!Earlier

LEMMA ListUploadsIsOne == Plan!ListUploads = P!ListUploads
BY Zenon DEF P!ListUploads, Plan!ListUploads, P!VisitedIds, Plan!VisitedIds, P!Cardinality, Plan!Cardinality,
    P!UploadTasks, Plan!UploadTasks, P!Tasks, Plan!Tasks, P!PairsOf, Plan!PairsOf, P!Match, Plan!Match, P!On,
    Plan!On, P!VisitsOf, Plan!VisitsOf, P!Pass, Plan!Pass, P!MapThenFoldSet, Plan!MapThenFoldSet, P!Take, Plan!Take,
    P!Last, Plan!Last, P!Free, Plan!Free, P!Earliest, Plan!Earliest, P!StartsBefore, Plan!StartsBefore, P!Visits,
    Plan!Visits, P!InWindow, Plan!InWindow, P!Earlier, Plan!Earlier

LEMMA UploadListIsOne == ASSUME NEW actor, NEW u PROVE Plan!UploadTaskList(actor, u) = P!UploadTaskList(actor, u)
BY Zenon DEF P!UploadTaskList, Plan!UploadTaskList, P!UploadTasks, Plan!UploadTasks, P!Assignees, Plan!Assignees,
    P!UploadTaskStatus, Plan!UploadTaskStatus, P!Person, Plan!Person, P!VisitedIds, Plan!VisitedIds, P!Tasks,
    Plan!Tasks, P!PairsOf, Plan!PairsOf, P!Match, Plan!Match, P!On, Plan!On, P!VisitsOf, Plan!VisitsOf, P!Pass,
    Plan!Pass, P!MapThenFoldSet, Plan!MapThenFoldSet, P!Take, Plan!Take, P!Last, Plan!Last, P!Free, Plan!Free,
    P!Earliest, Plan!Earliest, P!StartsBefore, Plan!StartsBefore, P!Visits, Plan!Visits, P!InWindow, Plan!InWindow,
    P!Earlier, Plan!Earlier

\* What a list has to tell of a person, and an upload's counts of its tasks.
PlanListFits(actor, p, list) ==
    LET counted == UNION {list.tasks[i].visit : i \in DOMAIN list.tasks} IN
    /\ {v \in planVisits : v.who = p /\ ~v.via} \subseteq counted \cup list.offPlan
    /\ counted \cap list.offPlan = {}
    /\ \A i, j \in DOMAIN list.tasks : list.tasks[i].visit \cap list.tasks[j].visit # {} => i = j
    /\ \A i \in DOMAIN list.tasks : Plan!Editable(actor, i) =>
          /\ list.tasks[i].visit = {}
          /\ list.tasks[i].later = Plan!Cardinality(Plan!Targets(actor, i, "FOLLOWING") \ {i})
ListFits(actor, p, list) ==
    LET counted == UNION {list.tasks[i].visit : i \in DOMAIN list.tasks} IN
    /\ {v \in planVisits : v.who = p /\ ~v.via} \subseteq counted \cup list.offPlan
    /\ counted \cap list.offPlan = {}
    /\ \A i, j \in DOMAIN list.tasks : list.tasks[i].visit \cap list.tasks[j].visit # {} => i = j
    /\ \A i \in DOMAIN list.tasks : P!Editable(actor, i) =>
          /\ list.tasks[i].visit = {}
          /\ list.tasks[i].later = P!Cardinality(P!Targets(actor, i, "FOLLOWING") \ {i})
PlanCountFits(count, list) ==
    /\ count.task = Plan!Cardinality({i \in DOMAIN list : list[i] = "VISITED"}) + Plan!Cardinality({i \in DOMAIN list : list[i] = "UPCOMING"})
                      + Plan!Cardinality({i \in DOMAIN list : list[i] = "MISSED"})
    /\ count.visited = Plan!Cardinality({i \in DOMAIN list : list[i] = "VISITED"})
    /\ count.upcoming = Plan!Cardinality({i \in DOMAIN list : list[i] = "UPCOMING"})
CountFits(count, list) ==
    /\ count.task = P!Cardinality({i \in DOMAIN list : list[i] = "VISITED"}) + P!Cardinality({i \in DOMAIN list : list[i] = "UPCOMING"})
                      + P!Cardinality({i \in DOMAIN list : list[i] = "MISSED"})
    /\ count.visited = P!Cardinality({i \in DOMAIN list : list[i] = "VISITED"})
    /\ count.upcoming = P!Cardinality({i \in DOMAIN list : list[i] = "UPCOMING"})

LEMMA ListFitsIsOne == ASSUME NEW actor, NEW p, NEW list PROVE PlanListFits(actor, p, list) <=> ListFits(actor, p, list)
<1>1. \A i : Plan!Editable(actor, i) <=> P!Editable(actor, i)
  BY EditableIsOne
<1>2. \A i : Plan!Cardinality(Plan!Targets(actor, i, "FOLLOWING") \ {i}) = P!Cardinality(P!Targets(actor, i, "FOLLOWING") \ {i})
  BY Zenon DEF P!Targets, Plan!Targets, P!Cardinality, Plan!Cardinality, P!LaterInSeries, Plan!LaterInSeries,
    P!Assignees, Plan!Assignees, P!LaterAll, Plan!LaterAll, P!VisitedIds, Plan!VisitedIds, P!Person, Plan!Person,
    P!Tasks, Plan!Tasks, P!PairsOf, Plan!PairsOf, P!Match, Plan!Match, P!On, Plan!On, P!VisitsOf, Plan!VisitsOf,
    P!Pass, Plan!Pass, P!MapThenFoldSet, Plan!MapThenFoldSet, P!Take, Plan!Take, P!Last, Plan!Last, P!Free,
    Plan!Free, P!Earliest, Plan!Earliest, P!StartsBefore, Plan!StartsBefore, P!Visits, Plan!Visits, P!InWindow,
    Plan!InWindow, P!Earlier, Plan!Earlier
<1> QED
  BY <1>1, <1>2, Zenon DEF PlanListFits, ListFits

LEMMA CountFitsIsOne == ASSUME NEW count, NEW list PROVE PlanCountFits(count, list) <=> CountFits(count, list)
BY Zenon DEF PlanCountFits, CountFits, P!Cardinality, Plan!Cardinality

LEMMA ReadableIsOne ==
    /\ P!Person \cup {administrator} = Plan!Person \cup {administrator}
    /\ \A actor : P!Readable(actor) = Plan!Readable(actor)
    /\ P!Day = Plan!Day
<1>1. P!Person \cup {administrator} = Plan!Person \cup {administrator}
  BY Zenon DEF P!Person, Plan!Person
<1>2. \A actor : P!Readable(actor) = Plan!Readable(actor)
  BY Zenon DEF P!Readable, Plan!Readable, P!Person, Plan!Person
<1>3. P!Day = Plan!Day
  BY Zenon DEF P!Day, Plan!Day
<1> QED
  BY <1>1, <1>2, <1>3

LEMMA ListsTellIsOne == P!ListsTellThePlan <=> Plan!ListsTellThePlan
<1>1. P!ListsTellThePlan <=>
        /\ \A actor \in P!Person \cup {administrator} : \A p \in P!Readable(actor) :
              ListFits(actor, p, P!ListTasks(actor, p, P!Day))
        /\ \A actor \in {administrator}, u \in uploads : CountFits(P!ListUploads[u], P!UploadTaskList(actor, u))
  BY Zenon DEF P!ListsTellThePlan, ListFits, CountFits
<1>2. Plan!ListsTellThePlan <=>
        /\ \A actor \in Plan!Person \cup {administrator} : \A p \in Plan!Readable(actor) :
              PlanListFits(actor, p, Plan!ListTasks(actor, p, Plan!Day))
        /\ \A actor \in {administrator}, u \in uploads : PlanCountFits(Plan!ListUploads[u], Plan!UploadTaskList(actor, u))
  BY Zenon DEF Plan!ListsTellThePlan, PlanListFits, PlanCountFits
<1>3. \A actor, p : ListFits(actor, p, P!ListTasks(actor, p, P!Day)) <=> PlanListFits(actor, p, Plan!ListTasks(actor, p, Plan!Day))
  <2> TAKE actor, p
  <2>1. P!ListTasks(actor, p, P!Day) = Plan!ListTasks(actor, p, Plan!Day)
    BY ListTasksIsOne, ReadableIsOne, Zenon
  <2> QED
    BY <2>1, ListFitsIsOne, Zenon
<1>4. \A actor, u : CountFits(P!ListUploads[u], P!UploadTaskList(actor, u)) <=> PlanCountFits(Plan!ListUploads[u], Plan!UploadTaskList(actor, u))
  <2> TAKE actor, u
  <2>1. P!ListUploads[u] = Plan!ListUploads[u] /\ P!UploadTaskList(actor, u) = Plan!UploadTaskList(actor, u)
    BY ListUploadsIsOne, UploadListIsOne, Zenon
  <2> QED
    BY <2>1, CountFitsIsOne, Zenon
<1> QED
  BY <1>1, <1>2, <1>3, <1>4, ReadableIsOne, Zenon

-----------------------------------------------------------------------------
(* The plan, in the run.                                                   *)

LEMMA PlanAlways == MCSpec => (part = "plan" => P!Spec)
<1>1. MCInit => P!Init
  BY PlanInitIsOne, Zenon DEF MCInit
<1>2. [MCNext]_allVars => UNCHANGED part /\ (part = "plan" => [P!Next]_(P!vars))
  BY PlanNextIsOne, Zenon DEF MCNext, allVars, day, sheet, plan, field, shown, P!vars
<1>3. MCSpec => [](part = "plan") \/ []~(part = "plan")
  <2>1. part = "plan" /\ [MCNext]_allVars => (part = "plan")'
    BY <1>2
  <2>2. ~(part = "plan") /\ [MCNext]_allVars => ~(part = "plan")'
    BY <1>2
  <2> QED
    BY <2>1, <2>2, PTL DEF MCSpec
<1> QED
  BY <1>1, <1>2, <1>3, PTL DEF MCSpec, P!Spec

\* Elsewhere nothing happens to the plan.
LEMMA PlanElsewhere == MCSpec => (~(part = "plan") => [][FALSE]_plan)
<1>1. [MCNext]_allVars => UNCHANGED part /\ (~(part = "plan") => [FALSE]_plan)
  BY Zenon DEF MCNext, allVars, day, sheet, plan, field, shown
<1>2. ~(part = "plan") /\ [MCNext]_allVars => ~(part = "plan")'
  BY <1>1
<1> QED
  BY <1>1, <1>2, PTL DEF MCSpec

LEMMA WorkIsOne == P!WorkIsKept => Plan!WorkIsKept
<1>1. [LET worked == P!VisitedIds(planTasks) IN
        /\ \A i \in worked : i \in DOMAIN planTasks' /\ planTasks'[i] = planTasks[i]
        /\ \A i \in DOMAIN planTasks' : (i \notin DOMAIN planTasks \/ planTasks[i] # planTasks'[i]) => planTasks'[i].day >= planDay
        /\ worked \subseteq P!VisitedIds(planTasks)' \/ uploads' \ uploads # {}]_<<planTasks, uploads, planDay>>
      => [LET worked == Plan!VisitedIds(planTasks) IN
        /\ \A i \in worked : i \in DOMAIN planTasks' /\ planTasks'[i] = planTasks[i]
        /\ \A i \in DOMAIN planTasks' : (i \notin DOMAIN planTasks \/ planTasks[i] # planTasks'[i]) => planTasks'[i].day >= planDay
        /\ worked \subseteq Plan!VisitedIds(planTasks)' \/ uploads' \ uploads # {}]_<<planTasks, uploads, planDay>>
  <2>1. (P!VisitedIds(planTasks) = Plan!VisitedIds(planTasks))'
    BY VisitedIsOne, PTL
  <2> QED
    BY <2>1, VisitedIsOne, Zenon
<1> QED
  BY <1>1, PTL DEF P!WorkIsKept, Plan!WorkIsKept

\* In the run as everywhere: whatever is planned, edited, imported, handed over or
\* removed, a task with a visit stays as it is and has a visit still, unless a
\* sheet's new task took it; and nothing is put on a day that has passed.
THEOREM WorkedTasksStayKept == MCSpec => WorkedTasksAreKept
<1>1. P!Spec => P!WorkIsKept
  BY PlanSetupHolds, P!WorkStaysKept
<1>2. [FALSE]_plan => [FALSE]_<<planTasks, uploads, planDay>>
  BY Zenon DEF plan
<1>3. [][FALSE]_plan => Plan!WorkIsKept
  BY <1>2, PTL DEF Plan!WorkIsKept
<1> QED
  BY <1>1, <1>3, PlanAlways, PlanElsewhere, WorkIsOne, PTL DEF WorkedTasksAreKept

\* Nobody ever has the same task twice, a sheet previewed without an error is
\* imported as previewed, and the lists of tasks and uploads tell the plan.
THEOREM PlanAlwaysSound == MCSpec => []PlanIsSound
<1>1. P!Spec => [](P!PlanHasNoTwins /\ P!PreviewIsTrue /\ P!ListsTellThePlan)
  BY PlanSetupHolds, P!PlanStaysTold
<1>2. P!PlanHasNoTwins /\ P!PreviewIsTrue /\ P!ListsTellThePlan
          => Plan!PlanHasNoTwins /\ Plan!PreviewIsTrue /\ Plan!ListsTellThePlan
  BY NoTwinsIsOne, PreviewTrueIsOne, ListsTellIsOne
<1>3. ~(part = "plan") /\ [MCNext]_allVars => ~(part = "plan")'
  BY Zenon DEF MCNext, allVars
<1> QED
  BY <1>1, <1>2, <1>3, PlanAlways, PTL DEF MCSpec, PlanIsSound

-----------------------------------------------------------------------------
(* The rows of the run are rows of VisitPlanProofs.                        *)

LEMMA SheetSetupHolds == P!SheetSetup
BY CellAssumption DEF P!SheetSetup

LEMMA KindIsOne == ASSUME NEW r PROVE P!Sheet!Kind(r) = Sheet!Kind(r)
BY Zenon DEF P!Sheet!Kind, Sheet!Kind

LEMMA AskedIsOne == ASSUME NEW r PROVE P!Sheet!Asked(r) = Sheet!Asked(r)
BY Zenon DEF P!Sheet!Asked, Sheet!Asked, P!Sheet!Kind, Sheet!Kind, P!Sheet!RepeatWeeks, Sheet!RepeatWeeks

LEMMA WeeklyIsOne == ASSUME NEW r, NEW on PROVE P!Sheet!ParseWeekly(r, on) = Sheet!ParseWeekly(r, on)
BY Zenon DEF P!Sheet!ParseWeekly, Sheet!ParseWeekly, P!Sheet!RepeatWeeks, Sheet!RepeatWeeks, P!Sheet!IsDay,
    Sheet!IsDay, P!Sheet!WeeklyAsMonthly, Sheet!WeeklyAsMonthly, P!Sheet!ExpandDates, Sheet!ExpandDates,
    P!Sheet!Result, Sheet!Result

LEMMA MonthlyIsOne == ASSUME NEW r, NEW on PROVE P!Sheet!ParseMonthly(r, on) = Sheet!ParseMonthly(r, on)
BY Zenon DEF P!Sheet!ParseMonthly, Sheet!ParseMonthly, P!Sheet!IsDay, Sheet!IsDay, P!Sheet!ExpandDates,
    Sheet!ExpandDates, P!Sheet!Result, Sheet!Result

LEMMA RowIsOne == P!Sheet!RowMeansItsDays <=> Sheet!RowMeansItsDays
<1>1. ASSUME NEW r, NEW on PROVE P!Sheet!ParseRow(r, on) = Sheet!ParseRow(r, on)
  BY KindIsOne, WeeklyIsOne, MonthlyIsOne, Zenon DEF P!Sheet!ParseRow, Sheet!ParseRow, P!Sheet!Result, Sheet!Result
<1> QED
  BY <1>1, KindIsOne, AskedIsOne, Zenon DEF P!Sheet!RowMeansItsDays, Sheet!RowMeansItsDays

LEMMA RowsAreOne == P!Sheet!Row = Sheet!Row
BY Zenon DEF P!Sheet!Row, Sheet!Row, P!Sheet!Cell, Sheet!Cell, P!Sheet!Weekday, Sheet!Weekday

\* In the run as everywhere: a row read without an error plans the days it asks for.
THEOREM SheetRowStaysRead == MCSpec => []SheetRowIsRead
<1> DEFINE Inv == part = "sheet" => row \in Sheet!Row /\ readOn \in Int
<1>1. MCInit => Inv
  <2>1. Sheet!Init => row \in Sheet!Row /\ readOn = 0
    BY Zenon DEF Sheet!Init
  <2> HIDE DEF Inv
  <2>2. MCInit => (part = "sheet" => Sheet!Init)
    BY Zenon DEF MCInit
  <2> QED
    BY <2>1, <2>2 DEF Inv
<1>2. Inv /\ [MCNext]_allVars => Inv'
  <2> SUFFICES ASSUME Inv, [MCNext]_allVars, part' = "sheet"
               PROVE  row' \in Sheet!Row /\ readOn' \in Int
    BY DEF Inv
  <2>1. part = "sheet" /\ (Sheet!Next \/ <<row, readOn>>' = <<row, readOn>>)
    BY Zenon DEF MCNext, allVars, sheet
  <2>2. row \in Sheet!Row /\ readOn \in Int
    BY <2>1
  <2>3. CASE Sheet!Next
    <3>1. row' = row /\ readOn' = readOn + 1
      BY <2>3, Zenon DEF Sheet!Next
    <3> QED
      BY <2>2, <3>1
  <2> QED
    BY <2>1, <2>2, <2>3
<1>3. Inv => SheetRowIsRead
  <2> SUFFICES ASSUME Inv, part = "sheet" PROVE Sheet!RowMeansItsDays
    BY DEF SheetRowIsRead
  <2>1. row \in P!Sheet!Row /\ readOn \in Int
    BY RowsAreOne
  <2> QED
    BY <2>1, SheetSetupHolds, P!RowIsRead, RowIsOne
<1> HIDE DEF Inv
<1> QED
  BY <1>1, <1>2, <1>3, PTL DEF MCSpec

-----------------------------------------------------------------------------
(* The field work and the desk of the run are those of VisitPlanProofs.    *)

LEMMA FieldInitIsOne == P!Work!Init <=> Field!Init
BY Zenon DEF P!Work!Init, Field!Init, P!Work!Idle, Field!Idle

LEMMA FieldNextIsOne == P!Work!Next <=> Field!Next
BY Zenon DEF P!Work!Next, Field!Next, P!Work!Request, Field!Request, P!Work!CheckIn, Field!CheckIn, P!Work!CheckOut,
    Field!CheckOut, P!Work!AddActivity, Field!AddActivity, P!Work!RemoveActivity, Field!RemoveActivity,
    P!Work!ReadActivity, Field!ReadActivity, P!Work!SetActivityImages, Field!SetActivityImages,
    P!Work!CreateInquiry, Field!CreateInquiry, P!Work!CreateMeeting, Field!CreateMeeting, P!Work!Person,
    Field!Person, P!Work!UpdateInquiry, Field!UpdateInquiry, P!Work!SetTeamLeaderZones, Field!SetTeamLeaderZones,
    P!Work!NextDay, Field!NextDay, P!Work!BeginCheckIn, Field!BeginCheckIn, P!Work!BeginCheckOut,
    Field!BeginCheckOut, P!Work!BeginActivity, Field!BeginActivity, P!Work!BeginPhoto, Field!BeginPhoto,
    P!Work!BeginInquiry, Field!BeginInquiry, P!Work!BeginMeeting, Field!BeginMeeting, P!Work!Cardinality,
    Field!Cardinality, P!Work!With, Field!With, P!Work!Next1, Field!Next1, P!Work!Finish, Field!Finish,
    P!Work!Restrict, Field!Restrict, P!Work!Room, Field!Room, P!Work!Idle, Field!Idle, P!Work!rows, Field!rows,
    P!Work!ScopeIds, Field!ScopeIds, P!Work!FollowUpAt, Field!FollowUpAt, P!Work!OpenVisitOf, Field!OpenVisitOf,
    P!Work!InPool, Field!InPool, P!Work!Party, Field!Party, P!Work!Begin, Field!Begin, P!Work!OwnedOpen,
    Field!OwnedOpen, P!Work!Linkable, Field!Linkable, P!Work!Max, Field!Max

LEMMA FieldIsOne == (P!Work!TypeOK <=> Field!TypeOK) /\ (P!Work!FieldRecordsFit <=> Field!FieldRecordsFit)
BY Zenon DEF P!Work!TypeOK, Field!TypeOK, P!Work!FieldRecordsFit, Field!FieldRecordsFit, P!Work!Person,
    Field!Person, P!Work!Cardinality, Field!Cardinality

LEMMA TurnInitIsOne == InTurn!Work!Init <=> FieldInTurn!Init
BY Zenon DEF InTurn!Work!Init, FieldInTurn!Init, InTurn!Work!Idle, FieldInTurn!Idle

LEMMA TurnNextIsOne == InTurn!Work!Next <=> FieldInTurn!Next
BY Zenon DEF InTurn!Work!Next, FieldInTurn!Next, InTurn!Work!Request, FieldInTurn!Request, InTurn!Work!CheckIn,
    FieldInTurn!CheckIn, InTurn!Work!CheckOut, FieldInTurn!CheckOut, InTurn!Work!AddActivity, FieldInTurn!AddActivity,
    InTurn!Work!RemoveActivity, FieldInTurn!RemoveActivity, InTurn!Work!ReadActivity, FieldInTurn!ReadActivity,
    InTurn!Work!SetActivityImages, FieldInTurn!SetActivityImages, InTurn!Work!CreateInquiry, FieldInTurn!CreateInquiry,
    InTurn!Work!CreateMeeting, FieldInTurn!CreateMeeting, InTurn!Work!Person, FieldInTurn!Person,
    InTurn!Work!UpdateInquiry,
    FieldInTurn!UpdateInquiry, InTurn!Work!SetTeamLeaderZones, FieldInTurn!SetTeamLeaderZones, InTurn!Work!NextDay,
    FieldInTurn!NextDay, InTurn!Work!BeginCheckIn, FieldInTurn!BeginCheckIn, InTurn!Work!BeginCheckOut,
    FieldInTurn!BeginCheckOut, InTurn!Work!BeginActivity, FieldInTurn!BeginActivity, InTurn!Work!BeginPhoto,
    FieldInTurn!BeginPhoto, InTurn!Work!BeginInquiry, FieldInTurn!BeginInquiry, InTurn!Work!BeginMeeting,
    FieldInTurn!BeginMeeting, InTurn!Work!Cardinality, FieldInTurn!Cardinality, InTurn!Work!With, FieldInTurn!With,
    InTurn!Work!Next1, FieldInTurn!Next1, InTurn!Work!Finish, FieldInTurn!Finish, InTurn!Work!Restrict,
    FieldInTurn!Restrict,
    InTurn!Work!Room, FieldInTurn!Room, InTurn!Work!Idle, FieldInTurn!Idle, InTurn!Work!rows, FieldInTurn!rows,
    InTurn!Work!ScopeIds,
    FieldInTurn!ScopeIds, InTurn!Work!FollowUpAt, FieldInTurn!FollowUpAt, InTurn!Work!OpenVisitOf,
    FieldInTurn!OpenVisitOf,
    InTurn!Work!InPool, FieldInTurn!InPool, InTurn!Work!Party, FieldInTurn!Party, InTurn!Work!Begin, FieldInTurn!Begin,
    InTurn!Work!OwnedOpen, FieldInTurn!OwnedOpen, InTurn!Work!Linkable, FieldInTurn!Linkable, InTurn!Work!Max,
    FieldInTurn!Max

LEMMA TurnIsOne == (InTurn!Work!TypeOK <=> FieldInTurn!TypeOK) /\ (InTurn!Work!FieldRecordsFit <=> Field!FieldRecordsFit)
BY Zenon DEF InTurn!Work!TypeOK, FieldInTurn!TypeOK, InTurn!Work!FieldRecordsFit, FieldInTurn!FieldRecordsFit, InTurn!Work!Person,
    FieldInTurn!Person, InTurn!Work!Cardinality, FieldInTurn!Cardinality, Field!FieldRecordsFit, Field!Cardinality

LEMMA OneOpenIsOne == InTurn!Work!OneOpenVisit <=> FieldInTurn!OneOpenVisit
BY Zenon DEF InTurn!Work!OneOpenVisit, FieldInTurn!OneOpenVisit

LEMMA ClosedIsOne == InTurn!Work!KeptWhenClosed => FieldInTurn!KeptWhenClosed
BY Zenon DEF InTurn!Work!KeptWhenClosed, FieldInTurn!KeptWhenClosed, InTurn!Work!WorkDone, FieldInTurn!WorkDone

LEMMA DeskInitIsOne == P!Desk!Init <=> Desk!Init
BY Zenon DEF P!Desk!Init, Desk!Init

LEMMA DeskNextIsOne == P!Desk!Next <=> Desk!Next
BY Zenon DEF P!Desk!Next, Desk!Next, P!Desk!AssignBuildings, Desk!AssignBuildings, P!Desk!Kind, Desk!Kind,
    P!Desk!Log, Desk!Log, P!Desk!SetTeamLeaderZones, Desk!SetTeamLeaderZones, P!Desk!OfRole, Desk!OfRole,
    P!Desk!MoveToTeam, Desk!MoveToTeam, P!Desk!SetActive, Desk!SetActive, P!Desk!ApproveSociety,
    Desk!ApproveSociety, P!Desk!MayAssignTo, Desk!MayAssignTo, P!Desk!MayAssign, Desk!MayAssign, P!Desk!Rows,
    Desk!Rows, P!Desk!ListMyBuildings, Desk!ListMyBuildings, P!Desk!REGISTRY_ASSIGNERS, Desk!REGISTRY_ASSIGNERS,
    P!Desk!TeamLeadersFor, Desk!TeamLeadersFor, P!Desk!CanAssign, Desk!CanAssign, P!Desk!SALES_ROLES,
    Desk!SALES_ROLES, P!Desk!AssertTargetInTeam, Desk!AssertTargetInTeam, P!Desk!Pool, Desk!Pool, P!Desk!Scope,
    Desk!Scope, P!Desk!InZones, Desk!InZones, P!Desk!AssignedInScope, Desk!AssignedInScope, P!Desk!TeamUnder,
    Desk!TeamUnder

LEMMA DeskIsOne == (P!Desk!TypeOK <=> Desk!TypeOK) /\ (P!Desk!DeskShowsWhatIsThere <=> Desk!DeskShowsWhatIsThere)
BY Zenon DEF P!Desk!TypeOK, Desk!TypeOK, P!Desk!DeskShowsWhatIsThere, Desk!DeskShowsWhatIsThere, P!Desk!Kind,
    Desk!Kind, P!Desk!MapTellsCheckIn, Desk!MapTellsCheckIn, P!Desk!HeldIsSeenUpTheChain, Desk!HeldIsSeenUpTheChain,
    P!Desk!DashboardAddsUp, Desk!DashboardAddsUp, P!Desk!PickerIsComplete, Desk!PickerIsComplete,
    P!Desk!MeetingPagesCover, Desk!MeetingPagesCover, P!Desk!MapBuildings, Desk!MapBuildings,
    P!Desk!ListMyBuildings, Desk!ListMyBuildings, P!Desk!ReadsHistory, Desk!ReadsHistory, P!Desk!Dashboard,
    Desk!Dashboard, P!Desk!TeamMembers, Desk!TeamMembers, P!Desk!SumFunction, Desk!SumFunction, P!Desk!Rows,
    Desk!Rows, P!Desk!MayOpen, Desk!MayOpen, P!Desk!MayAssignTo, Desk!MayAssignTo, P!Desk!MayAssign, Desk!MayAssign,
    P!Desk!SearchBuildings, Desk!SearchBuildings, P!Desk!FlattenSeq, Desk!FlattenSeq, P!Desk!TotalPages,
    Desk!TotalPages, P!Desk!Page, Desk!Page, P!Desk!Meetings, Desk!Meetings, P!Desk!REGISTRY_ASSIGNERS,
    Desk!REGISTRY_ASSIGNERS, P!Desk!AssignedInScope, Desk!AssignedInScope, P!Desk!Pool, Desk!Pool,
    P!Desk!Cardinality, Desk!Cardinality, P!Desk!SALES_ROLES, Desk!SALES_ROLES, P!Desk!TeamUnder, Desk!TeamUnder,
    P!Desk!SumFunctionOnSet, Desk!SumFunctionOnSet, P!Desk!Scope, Desk!Scope, P!Desk!CanAssign, Desk!CanAssign,
    P!Desk!AssertTargetInTeam, Desk!AssertTargetInTeam, P!Desk!Max, Desk!Max, P!Desk!PageSize, Desk!PageSize,
    P!Desk!Min, Desk!Min, P!Desk!InZones, Desk!InZones, P!Desk!FoldFunctionOnSet, Desk!FoldFunctionOnSet,
    P!Desk!MapThenFoldSet, Desk!MapThenFoldSet

LEMMA PlanTypeIsOne == P!TypeOK <=> Plan!TypeOK
BY Zenon DEF P!TypeOK, Plan!TypeOK, P!Id, Plan!Id, P!Task, Plan!Task, P!Visit, Plan!Visit, P!Upload, Plan!Upload,
    P!Day, Plan!Day, P!Person, Plan!Person

-----------------------------------------------------------------------------
(* Field work and desk, in the run.                                        *)

LEMMA FieldSetupHolds == P!FieldSetup
<1>1. P!Work!Op = Field!Op
  BY Zenon DEF P!Work!Op, Field!Op
<1> QED
  BY <1>1, CellAssumption DEF P!FieldSetup

LEMMA TurnSetupHolds == InTurn!FieldSetup
<1>1. InTurn!Work!Op = Field!Op
  BY Zenon DEF InTurn!Work!Op, Field!Op
<1> QED
  BY <1>1, CellAssumption DEF InTurn!FieldSetup

LEMMA DeskSetupHolds == P!DeskSetup
<1> DEFINE People == {boss, administrator, executive, leader1, leader2}
<1>1. DOMAIN DeskRole = People /\ DeskRole[boss] = "SALES_MANAGER"
  BY DEF DeskRole
<1>2. P!IsFiniteSet(People)
  <2>1. P!IsFiniteSet({boss} \cup {administrator} \cup {executive} \cup {leader1} \cup {leader2})
    <3>1. P!IsFiniteSet({boss})
      BY P!FS_Singleton
    <3>2. P!IsFiniteSet({boss} \cup {administrator})
      BY <3>1, P!FS_AddElement
    <3>3. P!IsFiniteSet({boss} \cup {administrator} \cup {executive})
      BY <3>2, P!FS_AddElement
    <3>4. P!IsFiniteSet({boss} \cup {administrator} \cup {executive} \cup {leader1})
      BY <3>3, P!FS_AddElement
    <3> QED
      BY <3>4, P!FS_AddElement
  <2>2. {boss} \cup {administrator} \cup {executive} \cup {leader1} \cup {leader2} = People
    OBVIOUS
  <2> QED
    BY <2>1, <2>2, Zenon
<1>3. boss \in P!Desk!OfRole("SALES_MANAGER")
  BY <1>1, Zenon DEF P!Desk!OfRole
<1>4. Nobody \notin DOMAIN DeskRole
  BY CellAssumption, Zenon
<1>5. ASSUME NEW managers, boss \in managers
      PROVE  [p \in DOMAIN DeskRole |-> IF p \in {leader1, leader2, executive} THEN boss ELSE Nobody]
                 \in [DOMAIN DeskRole -> managers \cup {Nobody}]
  BY <1>5
<1> HIDE DEF People
<1> QED
  BY <1>1, <1>2, <1>3, <1>4, <1>5, Zenon DEF P!DeskSetup

LEMMA PlanInvAlways == MCSpec => []P!PlanInv
<1>1. MCInit => P!PlanInv
  BY PlanInitIsOne, PlanSetupHolds, P!PlanFirst, Zenon DEF MCInit
<1>2. [MCNext]_allVars => [P!Next]_(P!vars)
  BY PlanNextIsOne, Zenon DEF MCNext, allVars, plan, P!vars
<1>3. P!PlanInv /\ [P!Next]_(P!vars) => P!PlanInv'
  BY PlanSetupHolds, P!PlanStep
<1> QED
  BY <1>1, <1>2, <1>3, PTL DEF MCSpec

LEMMA DeskInvAlways == MCSpec => []P!DeskInv
<1>1. MCInit => P!DeskInv
  BY DeskInitIsOne, DeskSetupHolds, P!DeskFirst, Zenon DEF MCInit
<1>2. [MCNext]_allVars => [P!Desk!Next]_(P!Desk!vars)
  BY DeskNextIsOne, Zenon DEF MCNext, allVars, shown, P!Desk!vars
<1>3. P!DeskInv /\ [P!Desk!Next]_(P!Desk!vars) => P!DeskInv'
  BY DeskSetupHolds, P!DeskStep
<1> QED
  BY <1>1, <1>2, <1>3, PTL DEF MCSpec

\* The field work is that of FieldVisits, with requests in turn or with two at once.
RunInv == (part = "field" => P!FieldInv) /\ (part = "fieldInTurn" => InTurn!TurnInv(clerk))

LEMMA FieldInvFirst == MCInit => RunInv
<1>1. P!Work!Init => P!FieldInv
  BY FieldSetupHolds, P!FieldFirst
<1>2. InTurn!Work!Init => InTurn!TurnInv(clerk)
  BY TurnSetupHolds, InTurn!TurnFirst
<1> QED
  BY <1>1, <1>2, FieldInitIsOne, TurnInitIsOne, Zenon DEF MCInit, RunInv

LEMMA FieldInvStep == RunInv /\ [MCNext]_allVars =>
    RunInv' /\ (part = "fieldInTurn" => FieldInTurn!KeptWhenClosed)
<1>1. /\ [MCNext]_allVars => part' = part
      /\ [MCNext]_allVars /\ part = "field" => [P!Work!Next]_(P!Work!vars)
      /\ [MCNext]_allVars /\ part = "fieldInTurn" => [InTurn!Work!Next]_(InTurn!Work!vars)
  BY FieldNextIsOne, TurnNextIsOne, Zenon DEF MCNext, allVars, field, P!Work!vars, InTurn!Work!vars
<1>2. P!FieldInv /\ [P!Work!Next]_(P!Work!vars) => P!FieldInv'
  BY FieldSetupHolds, P!FieldStep
<1>3. InTurn!TurnInv(clerk) /\ [InTurn!Work!Next]_(InTurn!Work!vars) => InTurn!TurnInv(clerk)' /\ InTurn!ClosedKept
  BY TurnSetupHolds, InTurn!TurnStep
<1>4. InTurn!ClosedKept => FieldInTurn!KeptWhenClosed
  BY ClosedIsOne, Zenon DEF InTurn!ClosedKept, InTurn!Work!KeptWhenClosed
<1> QED
  BY <1>1, <1>2, <1>3, <1>4, Zenon DEF RunInv

LEMMA RunIsFit ==
    RunInv => /\ part = "field" => Field!TypeOK /\ Field!FieldRecordsFit
              /\ part = "fieldInTurn" => FieldInTurn!TypeOK /\ Field!FieldRecordsFit /\ FieldInTurn!OneOpenVisit
<1>1. P!FieldInv => Field!TypeOK /\ Field!FieldRecordsFit
  BY P!FieldIsFit, FieldIsOne
<1>2. InTurn!TurnInv(clerk) => FieldInTurn!TypeOK /\ Field!FieldRecordsFit
  BY InTurn!FieldIsFit, TurnIsOne DEF InTurn!TurnInv
<1>3. InTurn!TurnInv(clerk) => FieldInTurn!OneOpenVisit
  BY OneOpenIsOne DEF InTurn!TurnInv, InTurn!OneOpen, InTurn!Work!OneOpenVisit
<1> QED
  BY <1>1, <1>2, <1>3, Zenon DEF RunInv

\* In the run as everywhere: the map, lists and dashboard show what is there, the rows
\* of the field work fit each other though requests overlap, and with requests in turn
\* nobody has two open visits and what was checked out is fixed.
THEOREM FieldRowsStayFit == MCSpec => FieldRowsFit
<1> DEFINE Fit ==
      /\ part \in {"field", "fieldInTurn"} => Field!FieldRecordsFit'
      /\ part = "fieldInTurn" => FieldInTurn!OneOpenVisit' /\ FieldInTurn!KeptWhenClosed
<1>1. P!DeskInv => (part = "desk" => Desk!DeskShowsWhatIsThere)
  BY DeskSetupHolds, P!DeskShows, DeskIsOne
<1>2. RunInv /\ [MCNext]_allVars => Fit
  <2>1. (RunInv => /\ part = "field" => Field!TypeOK /\ Field!FieldRecordsFit
                   /\ part = "fieldInTurn" => FieldInTurn!TypeOK /\ Field!FieldRecordsFit /\ FieldInTurn!OneOpenVisit)'
    BY RunIsFit, PTL
  <2>2. [MCNext]_allVars => part' = part
    BY Zenon DEF MCNext, allVars
  <2> QED
    BY <2>1, <2>2, FieldInvStep, Zenon
<1>3. MCSpec => []RunInv
  BY FieldInvFirst, FieldInvStep, PTL DEF MCSpec
<1>4. [][Fit]_field /\ [](part = "desk" => Desk!DeskShowsWhatIsThere) => FieldRowsFit
  BY PTL DEF FieldRowsFit
<1> HIDE DEF Fit
<1> QED
  BY <1>1, <1>2, <1>3, <1>4, DeskInvAlways, PTL DEF MCSpec

\* The plan, the field work and what is shown of it keep their types.
THEOREM VisitsStayTyped == MCSpec => []VisitsTypeOK
<1>1. MCSpec => []RunInv
  BY FieldInvFirst, FieldInvStep, PTL DEF MCSpec
<1>2. P!PlanInv /\ P!DeskInv /\ RunInv => VisitsTypeOK
  BY PlanTypeIsOne, DeskIsOne, RunIsFit, Zenon DEF P!PlanInv, P!DeskInv, VisitsTypeOK
<1> QED
  BY <1>1, <1>2, PlanInvAlways, DeskInvAlways, PTL
=============================================================================
