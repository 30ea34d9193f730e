----------------------------- MODULE VisitPlan -----------------------------
(***************************************************************************)
(* The visit plan (src/src/modules/visit-tasks/visit-task.service.js):     *)
(* tasks planned one by one, by sheet and in series, over several days, as *)
(* check-ins come in and days pass.  Requests are taken one at a time      *)
(* here; BuildingHandover has those that overlap.                          *)
(*                                                                         *)
(* A task of a day has a visit if VisitMatching pairs it with one.  Tasks  *)
(* of a sheet's row are a series, tasks of a sheet an upload.              *)
(***************************************************************************)
EXTENDS VisitMatching, FiniteSets, Sequences, FiniteSetsExt, Functions

CONSTANTS
    Executive, Leader, Admin, \* who is planned for, and who plans (leaders both)
    Team,       \* [Leader -> SUBSET Executive]
    Pool,       \* [Leader -> the buildings in the leader's zones]
    Building, Windows,
    Sheets, Patches, Wishes,   \* what is imported, edited and added: rows of sheets, changes, tasks
    None, Keep,
    Minute,
    LastDay,    \* bound: days 1..LastDay, of which MaxUntil may be planned ahead
    MaxUntil, MaxId, MaxUploads, MaxVisits

Person == Executive \cup Leader
Day == 1 .. LastDay
Id == 1 .. MaxId
Upload == 1 .. MaxUploads

VARIABLES
    tasks,      \* VisitTask rows by id
    visits,     \* check-ins, each with the person it counts for
    uploads,    \* TaskUpload rows
    holder,     \* the ACTIVE holder of each building
    today

vars == <<tasks, visits, uploads, holder, today>>

Task == [who: Person, b: Building, day: Day, win: Windows, series: Id \cup {None}, upload: Upload \cup {None}]
Visit == [id: 1 .. MaxVisits, who: Person, b: Building, day: Day, at: Minute, via: BOOLEAN]   \* via: came along
TypeOK ==
    /\ \E S \in SUBSET Id : tasks \in [S -> Task]
    /\ visits \subseteq Visit /\ uploads \subseteq Upload
    /\ holder \in [Building -> Executive \cup {None}] /\ today \in Day

----------------------------------------------------------------------------
(* plan-scope.js *)

Assignees(actor) == IF actor \in Admin THEN Person ELSE IF actor \in Leader THEN Team[actor] ELSE {}
Readable(actor) ==
    IF actor \in Admin THEN Person ELSE IF actor \in Leader THEN {actor} \cup Team[actor] ELSE {actor}
InPool(who, b) ==
    IF who \in Leader THEN b \in Pool[who] \/ holder[b] \in {who} \cup Team[who] ELSE holder[b] = who
Assignable(actor) == {b \in Building : actor \in Admin \/ (actor \in Leader /\ InPool(actor, b))}
CanWorkBuilding(who, b) == who \in Leader => InPool(who, b)
HeldElsewhere(actor, who, b) ==
    actor \in Leader /\ who \in Executive /\ holder[b] \notin {None, who} \cup Readable(actor)
\* Fault: a building is handed over to leaders, too.
NeedsHandOverAnyone(who, b) == holder[b] # who
NeedsHandOver(who, b) == who \in Executive /\ holder[b] # who

----------------------------------------------------------------------------
(* Tasks and their visits *)

On(ts, p, d) == {i \in DOMAIN ts : ts[i].who = p /\ ts[i].day = d}
VisitsOf(p, d) == {v \in visits : v.who = p /\ v.day = d}
PairsOf(ts, p, d) == Match({[id |-> i, b |-> ts[i].b, win |-> ts[i].win] : i \in On(ts, p, d)}, VisitsOf(p, d))
VisitedIds(ts) == UNION {{t.id : t \in Tasks(PairsOf(ts, v.who, v.day))} : v \in visits}
KeyOf(t) == <<t.who, t.b, t.day, t.win>>
VisitedToday(p, b) == \E v \in VisitsOf(p, today) : v.b = b
Without(ts, ids) == Restrict(ts, DOMAIN ts \ ids)
Over(new, ts) == [i \in DOMAIN new \cup DOMAIN ts |-> IF i \in DOMAIN new THEN new[i] ELSE ts[i]]

\* handover-tasks.js: what a hand-over of b to who drops.
StrandedTasks(ts, b, who) ==
    {i \in DOMAIN ts : /\ holder[b] \notin {None, who} /\ ts[i].who = holder[b] /\ ts[i].b = b
                       /\ ts[i].day >= today
                       /\ ~(ts[i].day = today /\ VisitedToday(ts[i].who, b))}
\* handOver, for a set of pairs <<building, new holder>>, each building once.
HandOver(ts, pairs) ==
    /\ tasks' = Without(ts, UNION {StrandedTasks(ts, p[1], p[2]) : p \in pairs})
    /\ holder' = [b \in Building |-> IF \E p \in pairs : p[1] = b THEN (CHOOSE p \in pairs : p[1] = b)[2] ELSE holder[b]]

CheckWhen(day) == day \in Day \cap (today .. today + MaxUntil)
CheckEdit(actor, t) ==
    /\ t.who \in Assignees(actor) /\ CheckWhen(t.day)
    /\ t.b \in Assignable(actor) /\ CanWorkBuilding(t.who, t.b)
    /\ ~HeldElsewhere(actor, t.who, t.b)

\* landing: what is to be at these ids, where none of it may be there twice nor
\* take the visit of another task.
CheckTargetDays(landing) ==
    LET others == Without(tasks, DOMAIN landing) IN
    /\ \A i \in DOMAIN landing : \A j \in DOMAIN landing \cup DOMAIN others :
           i # j => KeyOf(landing[i]) # KeyOf(Over(landing, others)[j])
    /\ VisitedIds(others) \subseteq VisitedIds(Over(landing, others))

Fresh == Id \ DOMAIN tasks

CreateTask(actor, t) ==
    /\ CheckEdit(actor, t)
    /\ Fresh # {}
    /\ LET new == [i \in {Min(Fresh)} |->
                     [who |-> t.who, b |-> t.b, day |-> t.day, win |-> t.win, series |-> None, upload |-> None]] IN
       /\ CheckTargetDays(new)
       /\ IF NeedsHandOver(t.who, t.b)
          THEN \* handed over before the task is there
               /\ tasks' = Over(new, Without(tasks, StrandedTasks(tasks, t.b, t.who)))
               /\ holder' = [holder EXCEPT ![t.b] = t.who]
          ELSE tasks' = Over(new, tasks) /\ UNCHANGED holder
    /\ UNCHANGED <<visits, uploads, today>>

Editable(actor, i) ==
    i \in DOMAIN tasks /\ tasks[i].who \in Assignees(actor) /\ i \notin VisitedIds(tasks)

\* The tasks a FOLLOWING edit of i also covers, of those mine plans for.
LaterAll(i) ==
    {j \in DOMAIN tasks \ {i} : /\ tasks[i].series # None /\ tasks[j].series = tasks[i].series
                                /\ tasks[j].day > tasks[i].day /\ tasks[j].day >= today}
LaterInSeries(i, mine) == {j \in LaterAll(i) : tasks[j].who \in mine} \ VisitedIds(tasks)

Targets(actor, i, scope) ==
    {i} \cup (IF scope = "FOLLOWING" THEN LaterInSeries(i, Assignees(actor)) ELSE {})

Given(new, old) == IF new = Keep THEN old ELSE new
\* A series keeps the distances between its days.
Patched(i, j, patch) ==
    LET old == tasks[j] IN
    [who |-> Given(patch.who, old.who), b |-> Given(patch.b, old.b), win |-> Given(patch.win, old.win),
     day |-> IF patch.day = Keep THEN old.day ELSE old.day + patch.day - tasks[i].day,
     series |-> old.series, upload |-> old.upload]

UpdateTask(actor, i, scope, patch) ==
    /\ Editable(actor, i)
    /\ LET landing == [j \in Targets(actor, i, scope) |-> Patched(i, j, patch)]
           moved == {j \in DOMAIN landing : landing[j].who # tasks[j].who \/ landing[j].b # tasks[j].b}
           pairs == {<<landing[j].b, landing[j].who>> : j \in {k \in moved : NeedsHandOver(landing[k].who, landing[k].b)}}
       IN  /\ \A j \in DOMAIN landing : CheckEdit(actor, landing[j])
           /\ CheckTargetDays(landing)
           /\ \A p, q \in pairs : p[1] = q[1] => p = q      \* CONTESTED
           /\ HandOver(Over(landing, tasks), pairs)
    /\ UNCHANGED <<visits, uploads, today>>

DeleteTask(actor, i, scope) ==
    /\ Editable(actor, i)
    /\ tasks' = Without(tasks, Targets(actor, i, scope))
    /\ UNCHANGED <<visits, uploads, holder, today>>

----------------------------------------------------------------------------
(* Sheets.  A row has a person, a building, days and a window. *)

DaysOf(row) == {d \in row.days : d >= today}
LiveRows(sheet) == {k \in DOMAIN sheet : DaysOf(sheet[k]) # {}}
RowOk(actor, row) ==
    /\ row.who \in Assignees(actor) /\ row.b \in Assignable(actor)
    /\ CanWorkBuilding(row.who, row.b) /\ ~HeldElsewhere(actor, row.who, row.b)
\* A building planned for two executives.
Contested(sheet, rows) ==
    {sheet[k].b : k \in {n \in rows : sheet[n].who \in Executive /\
        \E m \in rows : sheet[m].who \in Executive \ {sheet[n].who} /\ sheet[m].b = sheet[n].b}}

RowTask(sheet, k, d) == [who |-> sheet[k].who, b |-> sheet[k].b, day |-> d, win |-> sheet[k].win]
\* A day two rows ask for is the first row's.
DaysLeft(sheet, rows, k) ==
    {d \in Day : /\ d \in DaysOf(sheet[k])
                 /\ \A m \in rows : m < k => ~(d \in DaysOf(sheet[m]) /\ KeyOf(RowTask(sheet, m, d)) = KeyOf(RowTask(sheet, k, d)))}
Planned(sheet, rows) ==
    UNION {{[row |-> k, key |-> KeyOf(RowTask(sheet, k, d)), day |-> d] : d \in DaysLeft(sheet, rows, k)} : k \in rows}
Span(sheet, rows, p) == LET days == UNION {DaysOf(sheet[k]) : k \in {n \in rows : sheet[n].who = p}}
                        IN  IF days = {} THEN {} ELSE Min(days) .. Max(days)
Kept(i) == tasks[i].day = today /\ VisitedToday(tasks[i].who, tasks[i].b)
InSpan(sheet, rows) == {i \in DOMAIN tasks : tasks[i].day \in Span(sheet, rows, tasks[i].who)}
\* Fault: tasks visited today are replaced.
ReplaceableAll(sheet, rows) == InSpan(sheet, rows)
Replaceable(sheet, rows) == {i \in InSpan(sheet, rows) : ~Kept(i)}
KeptKeys(sheet, rows) == {KeyOf(tasks[i]) : i \in {j \in InSpan(sheet, rows) : Kept(j)}}
\* Fault: a task that is kept is made again.
CreatesAll(sheet, rows) == Planned(sheet, rows)
Creates(sheet, rows) == {c \in Planned(sheet, rows) : c.key \notin KeptKeys(sheet, rows)}
Assigns(sheet, rows) ==
    {<<sheet[k].b, sheet[k].who>> : k \in {n \in rows : NeedsHandOver(sheet[n].who, sheet[n].b)}}

\* preview: what the planner is told the sheet will do.
PreviewRows(actor, sheet) ==
    LET ok == {k \in LiveRows(sheet) : RowOk(actor, sheet[k])}
    IN  {k \in ok : ~(sheet[k].who \in Executive /\ sheet[k].b \in Contested(sheet, ok))}
Preview(actor, sheet) ==
    LET rows == PreviewRows(actor, sheet)
        replaced == Replaceable(sheet, rows)
        people == {sheet[k].who : k \in rows}
        taken(p) == UNION {StrandedTasks(tasks, a[1], p) \ replaced : a \in {x \in Assigns(sheet, rows) : x[2] = p}}
    IN  [errors |-> rows # {k \in DOMAIN sheet : k \in LiveRows(sheet) \/ ~RowOk(actor, sheet[k])},
         creates |-> SumFunction([p \in people |-> Cardinality({c \in Creates(sheet, rows) : c.key[1] = p})]),
         replaces |-> Cardinality(replaced) + SumFunction([p \in people |-> Cardinality(taken(p))]),
         assigns |-> Cardinality(Assigns(sheet, rows))]

ImportChecks(actor, sheet) ==
    /\ \A k \in DOMAIN sheet : RowOk(actor, sheet[k])
    /\ Planned(sheet, LiveRows(sheet)) # {}
    /\ Contested(sheet, LiveRows(sheet)) = {}

\* importPlan: hand over, delete, create, record.
ImportPlan(sheet, u) ==
    LET rows == LiveRows(sheet)
        gone == Replaceable(sheet, rows) \cup UNION {StrandedTasks(tasks, a[1], a[2]) : a \in Assigns(sheet, rows)}
        creates == Creates(sheet, rows)
        free == CHOOSE S \in kSubset(Cardinality(creates), Fresh) : \A i \in S, j \in Fresh \ S : i < j
        at == CHOOSE f \in Bijection(creates, free) : TRUE
        numbers == Id \ {tasks[i].series : i \in DOMAIN tasks}
        series == CHOOSE f \in Injection(rows, numbers) : TRUE
        task(c) == [who |-> c.key[1], b |-> c.key[2], day |-> c.day, win |-> c.key[4], series |-> series[c.row], upload |-> u]
    IN  /\ Cardinality(creates) <= Cardinality(Fresh) /\ Cardinality(rows) <= Cardinality(numbers)
        /\ tasks' = Over([i \in free |-> task(CHOOSE c \in creates : at[c] = i)], Without(tasks, gone))
        /\ holder' = [b \in Building |->
              IF \E a \in Assigns(sheet, rows) : a[1] = b THEN (CHOOSE a \in Assigns(sheet, rows) : a[1] = b)[2] ELSE holder[b]]
        /\ uploads' = uploads \cup {u}

Import(actor, sheet) ==
    /\ ImportChecks(actor, sheet)
    /\ Upload \ uploads # {}
    /\ ImportPlan(sheet, Min(Upload \ uploads))
    /\ UNCHANGED <<visits, today>>

UploadTasks(u) == {i \in DOMAIN tasks : tasks[i].upload = u}

RemoveUpload(u) ==
    /\ u \in uploads
    /\ UploadTasks(u) \cap VisitedIds(tasks) = {}
    /\ tasks' = Without(tasks, UploadTasks(u))
    /\ uploads' = uploads \ {u}
    /\ UNCHANGED <<visits, holder, today>>

----------------------------------------------------------------------------
(* Check-ins, a leader's with executives along, and the next day *)

CheckIn(who, b, at, along) ==
    /\ InPool(who, b)
    /\ Cardinality(visits) + 1 + Cardinality(along) <= MaxVisits
    /\ along # {} => (who \in Leader /\ along \subseteq Team[who])
    /\ \A v \in visits : v.day = today => v.at <= at
    /\ visits' = visits \cup {[id |-> Cardinality(visits) + 1, who |-> p, b |-> b, day |-> today, at |-> at, via |-> p # who] : p \in {who} \cup along}
    /\ UNCHANGED <<tasks, uploads, holder, today>>

Tick == today < LastDay /\ today' = today + 1 /\ UNCHANGED <<tasks, visits, uploads, holder>>

----------------------------------------------------------------------------
(* What is shown of the plan *)

Planner == Admin \cup Leader

\* addSeriesCounts: of a series' tasks from today on that are not visited, and
\* that a planner plans for, those on a later day.
SeriesLaterCount(actor, i) ==
    LET rest == {j \in DOMAIN tasks : /\ tasks[i].series # None /\ tasks[j].series = tasks[i].series
                                      /\ tasks[j].day >= today
                                      /\ actor \in Planner => tasks[j].who \in Assignees(actor)}
    IN  Cardinality({j \in rest \ VisitedIds(tasks) : tasks[j].day > tasks[i].day})

\* listTasks: a person's tasks with their visits, and the person's own visits
\* that are no task's; nothing of somebody the actor does not read.
ListTasks(actor, p, days) ==
    IF p \notin Readable(actor) THEN [tasks |-> << >>, offPlan |-> {}]
    ELSE [tasks |-> [i \in UNION {On(tasks, p, d) : d \in days} |->
                        [visit |-> {pair.visit : pair \in {q \in PairsOf(tasks, p, tasks[i].day) : q.task.id = i}},
                         later |-> SeriesLaterCount(actor, i)]],
          offPlan |-> UNION {{v \in VisitsOf(p, d) \ Visits(PairsOf(tasks, p, d)) : ~v.via} : d \in days}]

\* uploadTaskList, and the counts of listUploads.
UploadTaskStatus(i) ==
    IF i \in VisitedIds(tasks) THEN "VISITED" ELSE IF tasks[i].day < today THEN "MISSED" ELSE "UPCOMING"
UploadTaskList(actor, u) ==
    [i \in {j \in UploadTasks(u) : tasks[j].who \in Assignees(actor)} |-> UploadTaskStatus(i)]
ListUploads ==
    LET visited == VisitedIds(tasks)
    IN  [u \in uploads |->
            [task |-> Cardinality(UploadTasks(u)),
             visited |-> Cardinality(UploadTasks(u) \cap visited),
             upcoming |-> Cardinality({i \in UploadTasks(u) \ visited : tasks[i].day >= today})]]

----------------------------------------------------------------------------
Init ==
    /\ tasks = << >> /\ visits = {} /\ uploads = {} /\ today = 1
    /\ holder = [b \in Building |-> None]

Scope == {"ONE", "FOLLOWING"}

Next ==
    \/ \E actor \in Planner :
        \/ \E t \in Wishes : CreateTask(actor, t)
        \/ \E i \in DOMAIN tasks, scope \in Scope :
            \/ \E patch \in Patches : UpdateTask(actor, i, scope, patch)
            \/ DeleteTask(actor, i, scope)
        \/ \E sheet \in Sheets : Import(actor, sheet)
    \/ \E u \in uploads : RemoveUpload(u)
    \/ \E who \in Person, b \in Building, at \in Minute, along \in SUBSET Executive : CheckIn(who, b, at, along)
    \/ Tick

Spec == Init /\ [][Next]_vars

----------------------------------------------------------------------------
(* Properties *)

\* Nobody has the same task twice, whatever sheets, edits of series and
\* hand-overs made the plan.
PlanHasNoTwins == \A i, j \in DOMAIN tasks : KeyOf(tasks[i]) = KeyOf(tasks[j]) => i = j

\* A sheet previewed without an error is imported as previewed: so many tasks
\* made, so many gone (those replaced and those of previous holders, none
\* counted twice), so many buildings handed over.
PreviewIsTrue ==
    \A actor \in Planner, sheet \in Sheets :
        LET told == Preview(actor, sheet)
            rows == LiveRows(sheet)
            gone == Replaceable(sheet, rows) \cup UNION {StrandedTasks(tasks, a[1], a[2]) : a \in Assigns(sheet, rows)}
        IN  ~told.errors /\ LiveRows(sheet) # {} =>
                /\ ImportChecks(actor, sheet)
                /\ told.creates = Cardinality(Creates(sheet, rows))
                /\ told.replaces = Cardinality(gone)
                /\ told.assigns = Cardinality({a[1] : a \in Assigns(sheet, rows)})

\* The lists say what is so: the visits a person made are each on one task or
\* off plan, and none of both; the series count of a task the reader may edit
\* is what an edit with FOLLOWING also changes; and the counts of an upload are
\* those of its list.
ListsTellThePlan ==
    /\ \A actor \in Person \cup Admin : \A p \in Readable(actor) :
         LET list == ListTasks(actor, p, Day)
             counted == UNION {list.tasks[i].visit : i \in DOMAIN list.tasks}
         IN  /\ {v \in visits : v.who = p /\ ~v.via} \subseteq counted \cup list.offPlan
             /\ counted \cap list.offPlan = {}
             /\ \A i, j \in DOMAIN list.tasks : list.tasks[i].visit \cap list.tasks[j].visit # {} => i = j
             /\ \A i \in DOMAIN list.tasks : Editable(actor, i) =>
                   /\ list.tasks[i].visit = {}
                   /\ list.tasks[i].later = Cardinality(Targets(actor, i, "FOLLOWING") \ {i})
    /\ \A actor \in Admin, u \in uploads :
         LET count == ListUploads[u]
             list == UploadTaskList(actor, u)
             many(status) == Cardinality({i \in DOMAIN list : list[i] = status})
         IN  /\ count.task = many("VISITED") + many("UPCOMING") + many("MISSED")
             /\ count.visited = many("VISITED") /\ count.upcoming = many("UPCOMING")

\* A task with a visit keeps it, and stays as it is, whatever is planned, edited,
\* handed over or removed later; only a sheet's new task may take its visit.
\* Nothing is planned or moved to a day that has passed.
WorkIsKept ==
    [][LET worked == VisitedIds(tasks) IN
       /\ \A i \in worked : i \in DOMAIN tasks' /\ tasks'[i] = tasks[i]
       /\ \A i \in DOMAIN tasks' : (i \notin DOMAIN tasks \/ tasks[i] # tasks'[i]) => tasks'[i].day >= today
       /\ worked \subseteq VisitedIds(tasks)' \/ uploads' \ uploads # {}]_<<tasks, uploads, today>>

\* A visited task is locked and never loses its visit.
VisitedStaysVisited == [][VisitedIds(tasks) \subseteq VisitedIds(tasks)']_vars
=============================================================================
