-------------------------- MODULE BuildingHandover --------------------------
(***************************************************************************)
(* Who holds a building and whose visits are planned there: the assignment *)
(* transaction of src/src/modules/sales and the requests of                *)
(* src/src/modules/visit-tasks that write tasks or hand a building over.   *)
(*                                                                         *)
(* A worker is one request in flight.  One action is one SQL statement, or *)
(* one row of a statement that may wait for a row lock, together with the  *)
(* code up to the next one.  Transactions run under READ COMMITTED: a      *)
(* statement sees what is committed and what its own transaction wrote; an *)
(* UPDATE or DELETE waits for the writer of a row and then looks at the    *)
(* row again; FOR UPDATE on a Building waits for the inserts that refer to *)
(* it, and they for it, by the foreign key's share lock.  What is          *)
(* uncommitted is kept in the request that wrote it.                       *)
(*                                                                         *)
(* Abstracted: days, times and visits (VisitPlan has them; here every task *)
(* is unvisited, today or later), tasks of team leaders (they hold no      *)
(* building and are handed none), series longer than one task.             *)
(***************************************************************************)
EXTENDS Naturals, FiniteSets

CONSTANTS
    Worker,     \* requests in flight at the same time
    Manager,    \* actors of REGISTRY_ASSIGNERS: ADMIN and SALES_MANAGER
    Leader,     \* actors with the role TEAM_LEADER
    Executive,  \* active users with the role SALES_EXECUTIVE
    Team,       \* the executives each actor may assign to
    Zone,       \* the buildings in each leader's zones
    Building,
    RowId,      \* bound: ids of BuildingAssignment rows
    TaskId,     \* bound: ids of VisitTask rows
    FirstRow,   \* the assignments at the start
    FirstTask,  \* the tasks at the start
    MaxRequest, \* bound: requests started
    Kinds,      \* bound: the requests that are made
    MayFail,    \* whether a transaction may be rolled back at any statement
    None        \* null

Actor == Manager \cup Leader

Row  == [b: Building, holder: Executive, active: BOOLEAN]
Task == [who: Executive, b: Building, version: Nat]

Kind == {"assign", "plan", "move", "delete", "import"}

Unborn == [state |-> "unborn"]
Gone   == [state |-> "gone"]

ASSUME BuildingHandoverAssumption ==
    /\ Manager \cap Leader = {}
    /\ Team \in [Actor -> SUBSET Executive]
    /\ Zone \in [Leader -> SUBSET Building]
    /\ MaxRequest \in Nat
    /\ MayFail \in BOOLEAN
    /\ None \notin Executive \cup Building \cup TaskId \cup Actor
    /\ None \notin Kind
    /\ FirstRow \in [RowId -> Row \cup {Unborn}]
    /\ FirstTask \in [TaskId -> Task \cup {Unborn}]

\* A building starts with one holder at most.
ASSUME FirstHolderAssumption ==
    \A r, q \in RowId :
        /\ FirstRow[r] # Unborn /\ FirstRow[r].active
        /\ FirstRow[q] # Unborn /\ FirstRow[q].active
        /\ FirstRow[r].b = FirstRow[q].b
        => r = q

VARIABLES
    row,    \* the BuildingAssignment table
    task,   \* the VisitTask table
    req,    \* the requests in flight
    left    \* requests still to be made

vars == <<row, task, req, left>>

Step == {"idle", "target", "replaceable", "lock_task", "write_task", "drop_task",
         "lock", "recheck", "prev", "stranded", "release", "close", "closing",
         "assign", "replace", "plant", "commit", "overwrite", "create"}

Request == [at: Step,
            kind: Kind \cup {None},
            actor: Actor \cup {None},
            who: Executive \cup {None},      \* the assignee
            bs: SUBSET Building,             \* the buildings to hand to who
            plan: SUBSET Building,           \* the buildings to plan visits at
            task: TaskId \cup {None},        \* the task edited
            seen: Task \cup {None},          \* that task as read
            prev: SUBSET (Executive \X Building),
            drop: SUBSET TaskId,             \* still to delete
            old: SUBSET TaskId,              \* the tasks an import replaces
            shut: SUBSET RowId,              \* still to close
            \* locks and uncommitted writes of the transaction
            locked: SUBSET Building,         \* FOR UPDATE
            shared: SUBSET Building,         \* FOR KEY SHARE
            held: SUBSET TaskId,             \* task rows locked
            moved: BOOLEAN,                  \* task now has the new who and b
            gone: SUBSET TaskId,
            born: SUBSET TaskId,
            closed: SUBSET RowId,
            opened: SUBSET RowId]

Idle == [at |-> "idle", kind |-> None, actor |-> None, who |-> None, bs |-> {},
         plan |-> {}, task |-> None, seen |-> None, prev |-> {}, drop |-> {},
         old |-> {}, shut |-> {}, locked |-> {}, shared |-> {}, held |-> {},
         moved |-> FALSE, gone |-> {}, born |-> {}, closed |-> {}, opened |-> {}]

-----------------------------------------------------------------------------
(* What a statement sees.                                                  *)

Others(w) == Worker \ {w}

\* Rows committed, and ACTIVE as far as anybody else is concerned.
Committed(r) == row[r] # Unborn /\ \A v \in Worker : r \notin req[v].opened
Held(r)      == Committed(r) /\ row[r].active
HeldRows(b)  == {r \in RowId : Held(r) /\ row[r].b = b}

\* The ACTIVE rows of a building a statement of w sees.
ActiveTo(w, b) ==
    {r \in RowId : /\ row[r] # Unborn
                   /\ row[r].active
                   /\ row[r].b = b
                   /\ r \notin req[w].closed
                   /\ \A v \in Others(w) : r \notin req[v].opened}

IsTask(t) == task[t] \notin {Unborn, Gone}

\* The tasks a statement of w sees, as it sees them.
SeenBy(w) ==
    {t \in TaskId : /\ IsTask(t)
                    /\ t \notin req[w].gone
                    /\ \A v \in Others(w) : t \notin req[v].born}

\* Fault: the assignee is taken from the patch, which need not have one.
MovedByPatch(r) == [who |-> IF r.who = r.seen.who THEN None ELSE r.who,
                    b |-> CHOOSE b \in r.plan : TRUE, version |-> r.seen.version + 1]

\* updatedAt, which every update sets, is kept as a version.
Moved(r) == [who |-> r.who, b |-> CHOOSE b \in r.plan : TRUE, version |-> r.seen.version + 1]

TaskTo(w, t) == IF req[w].moved /\ req[w].task = t THEN Moved(req[w]) ELSE task[t]

\* The holder a buildingLite or buildingCard row carries: any one ACTIVE row.
HolderSeen(w, b) ==
    IF ActiveTo(w, b) = {} THEN {None} ELSE {row[r].holder : r \in ActiveTo(w, b)}

\* poolWhere: a leader's zones, and what the team holds.
Pool(w, a) ==
    {b \in Building : \/ a \in Manager
                     \/ b \in Zone[a]
                     \/ \E r \in ActiveTo(w, b) : row[r].holder \in Team[a]}

\* A leader may not take a building whose holder is outside the team.
HeldElsewhere(a, who, h) == a \in Leader /\ h # None /\ h # who /\ h \notin Team[a]

-----------------------------------------------------------------------------
(* Row locks.                                                              *)

\* Who keeps w from FOR UPDATE on a building, from its share lock, from a task
\* row and from an assignment row.
ForUpdateWaits(w, b) == {v \in Others(w) : b \in req[v].locked \cup req[v].shared}
ShareWaits(w, b)     == {v \in Others(w) : b \in req[v].locked}
TaskWaits(w, t)      == {v \in Others(w) : t \in req[v].held}
RowWaits(w, r)       == {v \in Others(w) : r \in req[v].closed}

Rest(w) == req[w].bs \ req[w].locked
ToOpen(w) == req[w].bs \ {row[r].b : r \in req[w].opened}
ToPlant(w) == req[w].plan \ {task[t].b : t \in req[w].born}

\* The foreign key is checked only if an edit changes the building.
NewSite(w) == {b \in req[w].plan : b # req[w].seen.b}

\* For each way a statement of w could go on, who keeps it from it.
Waits(w) ==
    CASE req[w].at = "lock" -> {ForUpdateWaits(w, b) : b \in Rest(w)}
      [] req[w].at \in {"lock_task", "overwrite"} -> {TaskWaits(w, req[w].task)}
      [] req[w].at \in {"release", "replace"} -> {TaskWaits(w, t) : t \in req[w].drop}
      [] req[w].at = "closing" -> {RowWaits(w, r) : r \in req[w].shut}
      [] req[w].at = "assign" -> {ShareWaits(w, b) : b \in ToOpen(w)}
      [] req[w].at \in {"create", "plant"} -> {ShareWaits(w, b) : b \in ToPlant(w)}
      [] req[w].at = "write_task" -> {ShareWaits(w, b) : b \in NewSite(w)}
      [] OTHER -> {}

WaitsFor(w) == IF {} \in Waits(w) THEN {} ELSE UNION Waits(w)

\* w is in a circle of requests that wait for each other.
Deadlocked(w) ==
    \E S \in SUBSET Worker :
        /\ w \in S
        /\ \A v \in S : /\ WaitsFor(v) \cap S # {}
                        /\ \E u \in S : v \in WaitsFor(u)

-----------------------------------------------------------------------------
Continue(w, r) == req' = [req EXCEPT ![w] = r]
Goto(w, step)  == req' = [req EXCEPT ![w].at = step]

\* Rolling back drops what the transaction wrote and its locks with it.
RollBack(w) ==
    /\ row' = [r \in RowId |-> IF r \in req[w].opened THEN Unborn ELSE row[r]]
    /\ task' = [t \in TaskId |-> IF t \in req[w].born THEN Unborn ELSE task[t]]
    /\ Continue(w, Idle)

Refuse(w) == Continue(w, Idle)

\* Fault: everybody goes without the lock.
BeginUnlocked(a) == "prev"

\* handOver and reassign begin with the lock only for a team leader.
Begin(a) == IF a \in Leader THEN "lock" ELSE "prev"
-----------------------------------------------------------------------------
(* The requests.  A request that is refused at its first check leaves no    *)
(* trace, so it does not start.                                            *)

Start(w, kind) ==
    /\ req[w].at = "idle"
    /\ left > 0
    /\ kind \in Kinds
    /\ left' = left - 1

\* sales assignBuildings: a leader distributes the pool, a manager anything.
StartAssign(w, a, bs, e) ==
    /\ Start(w, "assign")
    /\ e \in Team[a]
    /\ a \in Leader => \A b \in bs :
          /\ b \in Pool(w, a)
          /\ \E h \in HolderSeen(w, b) : h = None \/ h \in Team[a]
    /\ Continue(w, [Idle EXCEPT !.at = Begin(a), !.kind = "assign", !.actor = a,
                                !.who = e, !.bs = bs])
    /\ UNCHANGED <<row, task>>

\* checkEdit of createTask; assignIfNeeded will hand the building over if the
\* holder seen here is somebody else.
StartPlan(w, a, b, e) ==
    /\ Start(w, "plan")
    /\ e \in Team[a]
    /\ b \in Pool(w, a)
    /\ \E h \in HolderSeen(w, b) :
          /\ ~HeldElsewhere(a, e, h)
          /\ Continue(w, [Idle EXCEPT !.at = "target", !.kind = "plan", !.actor = a,
                                      !.who = e, !.plan = {b},
                                      !.bs = IF h = e THEN {} ELSE {b}])
    /\ UNCHANGED <<row, task>>

\* mustFindEditable and checkEdit of updateTask: the task keeps or changes its
\* person and its building; a change hands the building over unless the holder
\* seen is the new person.
StartMove(w, a, t, b, e) ==
    /\ Start(w, "move")
    /\ t \in SeenBy(w)
    /\ task[t].who \in Team[a]
    /\ e \in Team[a]
    /\ b \in Pool(w, a)
    /\ \E h \in HolderSeen(w, b) :
          /\ ~HeldElsewhere(a, e, h)
          /\ Continue(w, [Idle EXCEPT
                 !.at = "target", !.kind = "move", !.actor = a, !.who = e,
                 !.plan = {b}, !.task = t, !.seen = task[t],
                 !.bs = IF h = e \/ (e = task[t].who /\ b = task[t].b) THEN {} ELSE {b}])
    /\ UNCHANGED <<row, task>>

StartDelete(w, a, t) ==
    /\ Start(w, "delete")
    /\ t \in SeenBy(w)
    /\ task[t].who \in Team[a]
    /\ Continue(w, [Idle EXCEPT !.at = "lock_task", !.kind = "delete", !.actor = a,
                                !.task = t, !.seen = task[t]])
    /\ UNCHANGED <<row, task>>

\* import of a sheet that plans one executive: buildings held by somebody else
\* are handed over.
StartImport(w, a, plan, e) ==
    /\ Start(w, "import")
    /\ e \in Team[a]
    /\ plan \subseteq Pool(w, a)
    /\ \E seen \in [plan -> Executive \cup {None}] :
          /\ \A b \in plan : seen[b] \in HolderSeen(w, b) /\ ~HeldElsewhere(a, e, seen[b])
          /\ Continue(w, [Idle EXCEPT !.at = "replaceable", !.kind = "import",
                                      !.actor = a, !.who = e, !.plan = plan,
                                      !.bs = {b \in plan : seen[b] # e}])
    /\ UNCHANGED <<row, task>>

\* checkTargetDay: the person must not have that task already.
CheckTarget(w) ==
    LET r     == req[w]
        twins == {t \in SeenBy(w) \ {r.task} : task[t].who = r.who /\ task[t].b \in r.plan}
    IN  /\ r.at = "target"
        /\ IF twins # {} THEN Refuse(w)
           ELSE Goto(w, IF r.kind = "plan"
                        THEN IF r.bs = {} THEN "create" ELSE Begin(r.actor)
                        ELSE IF r.bs = {} THEN "overwrite" ELSE "lock_task")
        /\ UNCHANGED <<row, task, left>>

\* replaceable: the ids of the person's tasks the import will delete.
FindReplaceable(w) ==
    LET r == req[w] IN
    /\ r.at = "replaceable"
    /\ Continue(w, [r EXCEPT !.old = {t \in SeenBy(w) : task[t].who = r.who},
                             !.at = IF r.bs # {} THEN Begin(r.actor) ELSE "replace",
                             !.drop = IF r.bs # {} THEN {}
                                      ELSE {t \in SeenBy(w) : task[t].who = r.who}])
    /\ UNCHANGED <<row, task, left>>
-----------------------------------------------------------------------------
(* The transactions: tasks.                                                *)

\* Fault: nobody asks whether the task is still as it was read.
LockTaskUnchecked(w) ==
    LET r == req[w] IN
    /\ r.at = "lock_task"
    /\ TaskWaits(w, r.task) = {}
    /\ IF ~IsTask(r.task) THEN Refuse(w)
       ELSE Continue(w, [r EXCEPT !.held = {r.task},
                                  !.at = IF r.kind = "delete" THEN "drop_task"
                                         ELSE "write_task"])
    /\ UNCHANGED <<row, task, left>>

\* lockUnchanged: 409 if the task moved or went since it was read.
LockTask(w) ==
    LET r == req[w] IN
    /\ r.at = "lock_task"
    /\ TaskWaits(w, r.task) = {}
    /\ IF task[r.task] # r.seen THEN Refuse(w)
       ELSE Continue(w, [r EXCEPT !.held = {r.task},
                                  !.at = IF r.kind = "delete" THEN "drop_task"
                                         ELSE "write_task"])
    /\ UNCHANGED <<row, task, left>>

\* updateTask of the repository: one statement, by id, whatever the task is by
\* now; a task that is gone is an error.
Overwrite(w) ==
    LET r == req[w] IN
    /\ r.at = "overwrite"
    /\ TaskWaits(w, r.task) = {}
    /\ IF ~IsTask(r.task) THEN Refuse(w)
       ELSE Continue(w, [r EXCEPT !.held = {r.task}, !.seen = task[r.task],
                                  !.at = "write_task"])
    /\ UNCHANGED <<row, task, left>>

\* The task is written before the hand-over, so that the clean-up does not
\* take it for one of the previous holder's.
WriteTask(w) ==
    LET r == req[w] IN
    /\ r.at = "write_task"
    /\ \A b \in NewSite(w) : ShareWaits(w, b) = {}
    /\ Continue(w, [r EXCEPT !.moved = TRUE, !.shared = NewSite(w),
                             !.at = IF r.bs = {} THEN "commit" ELSE Begin(r.actor)])
    /\ UNCHANGED <<row, task, left>>

DropTask(w) ==
    /\ req[w].at = "drop_task"
    /\ Continue(w, [req[w] EXCEPT !.gone = {req[w].task}, !.at = "commit"])
    /\ UNCHANGED <<row, task, left>>
-----------------------------------------------------------------------------
(* The transactions: handing over.                                         *)

\* FOR UPDATE takes the Building rows one by one, in the order of the plan.
LockBuilding(w) ==
    /\ req[w].at = "lock"
    /\ \E b \in Rest(w) :
          /\ ForUpdateWaits(w, b) = {}
          /\ Continue(w, [req[w] EXCEPT !.locked = @ \cup {b},
                                        !.at = IF Rest(w) = {b} THEN "recheck" ELSE "lock"])
    /\ UNCHANGED <<row, task, left>>

\* Fault: the holders are not looked at again under the lock.
RecheckNothing(w) ==
    /\ req[w].at = "recheck"
    /\ Goto(w, "prev")
    /\ UNCHANGED <<row, task, left>>

\* A building that came to be held outside the team refuses the whole request.
Recheck(w) ==
    LET r     == req[w]
        taken == \E b \in r.bs : \E x \in ActiveTo(w, b) : row[x].holder \notin Team[r.actor]
    IN  /\ r.at = "recheck"
        /\ IF taken THEN RollBack(w) ELSE Goto(w, "prev") /\ UNCHANGED <<row, task>>
        /\ UNCHANGED left

\* Fault: findFirst instead of findMany.
FindPrevFirst(w) ==
    LET r    == req[w]
        rows == {y \in UNION {ActiveTo(w, b) : b \in r.bs} : row[y].holder # r.who}
        prev == IF rows = {} THEN {}
                ELSE LET y == CHOOSE y \in rows : TRUE IN {<<row[y].holder, row[y].b>>}
    IN  /\ r.at = "prev"
        /\ Continue(w, [r EXCEPT !.prev = prev,
                                 !.at = IF prev = {} THEN "close" ELSE "stranded"])
        /\ UNCHANGED <<row, task, left>>

\* strandedTasks: first the previous holders, then their tasks there.
FindPrev(w) ==
    LET r    == req[w]
        prev == UNION {{<<row[x].holder, b>> : x \in {y \in ActiveTo(w, b) : row[y].holder # r.who}}
                         : b \in r.bs}
    IN  /\ r.at = "prev"
        /\ Continue(w, [r EXCEPT !.prev = prev,
                                 !.at = IF prev = {} THEN "close" ELSE "stranded"])
        /\ UNCHANGED <<row, task, left>>

\* Fault: everybody's tasks at the building.
FindStrandedAll(w) ==
    LET r    == req[w]
        drop == {t \in SeenBy(w) : TaskTo(w, t).b \in {pair[2] : pair \in r.prev}}
    IN  /\ r.at = "stranded"
        /\ Continue(w, [r EXCEPT !.drop = drop, !.prev = {},
                                 !.at = IF drop = {} THEN "close" ELSE "release"])
        /\ UNCHANGED <<row, task, left>>

FindStranded(w) ==
    LET r    == req[w]
        drop == {t \in SeenBy(w) : <<TaskTo(w, t).who, TaskTo(w, t).b>> \in r.prev}
    IN  /\ r.at = "stranded"
        /\ Continue(w, [r EXCEPT !.drop = drop, !.prev = {},
                                 !.at = IF drop = {} THEN "close" ELSE "release"])
        /\ UNCHANGED <<row, task, left>>

\* Fault: delete again, until nothing is left to delete.
AfterDropAgain(at) == at

\* Where the deletion of tasks leads: to the closing, or to the new tasks.
AfterDrop(at) == IF at = "release" THEN "close" ELSE "plant"

\* DELETE ... WHERE id IN (...): a task already gone is skipped.
Drop(w) ==
    LET r == req[w] IN
    /\ r.at \in {"release", "replace"}
    /\ \/ /\ r.drop = {}
          /\ Goto(w, AfterDrop(r.at))
       \/ \E t \in r.drop :
             /\ TaskWaits(w, t) = {}
             /\ LET hit == {t} \ {u \in TaskId : ~IsTask(u)}
                IN  Continue(w, [r EXCEPT !.drop = @ \ {t}, !.gone = @ \cup hit,
                                          !.held = @ \cup hit,
                                          !.at = IF r.drop = {t} THEN AfterDrop(@) ELSE @])
    /\ UNCHANGED <<row, task, left>>

\* UPDATE ... WHERE status = ACTIVE: the rows of its snapshot, then each row as
\* it is once nobody else is writing it.
FindActive(w) ==
    LET r    == req[w]
        shut == UNION {ActiveTo(w, b) : b \in r.bs}
    IN  /\ r.at = "close"
        /\ Continue(w, [r EXCEPT !.shut = shut,
                                 !.at = IF shut = {} THEN "assign" ELSE "closing"])
        /\ UNCHANGED <<row, task, left>>

\* Fault: no transaction around the closing and the opening.
CloseAtOnce(w) ==
    LET r == req[w] IN
    /\ r.at = "closing"
    /\ \E x \in r.shut :
          /\ RowWaits(w, x) = {}
          /\ row' = [row EXCEPT ![x].active = FALSE]
          /\ Continue(w, [r EXCEPT !.shut = @ \ {x},
                                   !.at = IF r.shut = {x} THEN "assign" ELSE @])
    /\ UNCHANGED <<task, left>>

Close(w) ==
    LET r == req[w] IN
    /\ r.at = "closing"
    /\ \E x \in r.shut :
          /\ RowWaits(w, x) = {}
          /\ Continue(w, [r EXCEPT !.shut = @ \ {x},
                                   !.closed = IF row[x].active THEN @ \cup {x} ELSE @,
                                   !.at = IF r.shut = {x} THEN "assign" ELSE @])
    /\ UNCHANGED <<row, task, left>>

FreshRows  == {r \in RowId : row[r] = Unborn}
FreshTasks == {t \in TaskId : task[t] = Unborn}

Open(w) ==
    LET r == req[w] IN
    /\ r.at = "assign"
    /\ FreshRows # {}
    /\ \E b \in ToOpen(w) :
          /\ ShareWaits(w, b) = {}
          /\ LET x == CHOOSE x \in FreshRows : TRUE
             IN  /\ row' = [row EXCEPT ![x] = [b |-> b, holder |-> r.who, active |-> TRUE]]
                 /\ Continue(w, [r EXCEPT
                        !.opened = @ \cup {x}, !.shared = @ \cup {b},
                        !.at = IF ToOpen(w) # {b} THEN @
                               ELSE IF r.kind = "import" THEN "replace" ELSE "commit",
                        !.drop = IF ToOpen(w) = {b} THEN r.old \ r.gone ELSE @])
    /\ UNCHANGED <<task, left>>

\* visitTask.createMany of importPlan.
Plant(w) ==
    LET r == req[w] IN
    /\ r.at = "plant"
    /\ FreshTasks # {}
    /\ \E b \in ToPlant(w) :
          /\ ShareWaits(w, b) = {}
          /\ LET t == CHOOSE t \in FreshTasks : TRUE
             IN  /\ task' = [task EXCEPT ![t] = [who |-> r.who, b |-> b, version |-> 0]]
                 /\ Continue(w, [r EXCEPT !.born = @ \cup {t}, !.shared = @ \cup {b},
                                          !.at = IF ToPlant(w) = {b} THEN "commit" ELSE @])
    /\ UNCHANGED <<row, left>>

Commit(w) ==
    LET r == req[w] IN
    /\ r.at = "commit"
    /\ row' = [x \in RowId |-> IF x \in r.closed THEN [row[x] EXCEPT !.active = FALSE] ELSE row[x]]
    /\ task' = [t \in TaskId |-> IF t \in r.gone THEN Gone
                                 ELSE IF r.moved /\ t = r.task THEN Moved(r)
                                 ELSE task[t]]
    /\ Continue(w, IF r.kind # "plan" THEN Idle
                   ELSE [Idle EXCEPT !.at = "create", !.kind = "plan", !.actor = r.actor,
                                     !.who = r.who, !.plan = r.plan])
    /\ UNCHANGED left

\* createTask of the repository, after the hand-over's transaction.
CreateTask(w) ==
    LET r == req[w] IN
    /\ r.at = "create"
    /\ FreshTasks # {}
    /\ \E b \in r.plan :
          /\ ShareWaits(w, b) = {}
          /\ task' = [task EXCEPT ![CHOOSE t \in FreshTasks : TRUE] =
                         [who |-> r.who, b |-> b, version |-> 0]]
    /\ Continue(w, Idle)
    /\ UNCHANGED <<row, left>>

\* Postgres ends one of the transactions that wait for each other.
BreakDeadlock(w) ==
    /\ Deadlocked(w)
    /\ RollBack(w)
    /\ UNCHANGED left

\* A lost connection, a restart, or the timeout of an interactive transaction.
Fail(w) ==
    /\ MayFail
    /\ req[w].at # "idle"
    /\ RollBack(w)
    /\ UNCHANGED left
-----------------------------------------------------------------------------
Init ==
    /\ row = FirstRow
    /\ task = FirstTask
    /\ req = [w \in Worker |-> Idle]
    /\ left = MaxRequest

Receive(w) ==
    \E a \in Actor :
        \/ \E bs \in (SUBSET Building) \ {{}}, e \in Executive :
              StartAssign(w, a, bs, e) \/ StartImport(w, a, bs, e)
        \/ \E b \in Building, e \in Executive : StartPlan(w, a, b, e)
        \/ \E t \in TaskId, b \in Building, e \in Executive : StartMove(w, a, t, b, e)
        \/ \E t \in TaskId : StartDelete(w, a, t)

Proceed(w) ==
    \/ CheckTarget(w) \/ FindReplaceable(w)
    \/ LockTask(w) \/ Overwrite(w) \/ WriteTask(w) \/ DropTask(w)
    \/ LockBuilding(w) \/ Recheck(w) \/ FindPrev(w) \/ FindStranded(w)
    \/ Drop(w) \/ FindActive(w) \/ Close(w) \/ Open(w) \/ Plant(w)
    \/ Commit(w) \/ CreateTask(w)

Next == \E w \in Worker : Receive(w) \/ Proceed(w) \/ BreakDeadlock(w) \/ Fail(w)

Spec == Init /\ [][Next]_vars

\* The runtime goes on with every request that is not waiting, and Postgres
\* looks for deadlocks.
Fairness == \A w \in Worker : WF_vars(Proceed(w)) /\ WF_vars(BreakDeadlock(w))

FairSpec == Spec /\ Fairness
-----------------------------------------------------------------------------
(* Properties.                                                             *)

\* The tables hold rows of the schema and a request the locals of its handler.
TypeOK ==
    /\ row \in [RowId -> Row \cup {Unborn}]
    /\ task \in [TaskId -> Task \cup {Unborn, Gone}]
    /\ req \in [Worker -> Request]
    /\ left \in 0..MaxRequest

\* A building never has two ACTIVE holders.
OneHolder == \A r, q \in RowId : Held(r) /\ Held(q) /\ row[r].b = row[q].b => r = q

\* A building once held stays held: nobody ever sees it between two holders.
HeldStaysHeld == [][\A b \in Building : HeldRows(b) # {} => HeldRows(b)' # {}]_vars

\* A team leader never ends an assignment held by somebody outside the team,
\* however other requests changed the holders since the leader's checks.
LeaderTakesOnlyOwn ==
    [][\A r \in RowId : Held(r) /\ ~row'[r].active =>
          \E w \in Worker :
              /\ r \in req[w].closed
              /\ req[w].actor \in Leader => row[r].holder \in Team[req[w].actor]]_vars

\* A hand-over drops the previous holders' tasks at the buildings it hands over,
\* an import besides those of the person it plans: never one of the new
\* holder's, and never one that is planned for another person or building by now.
DropsOnlyStranded ==
    [][\A w \in Worker, t \in TaskId :
          t \in req[w].gone /\ IsTask(t) /\ task'[t] = Gone /\ req[w].kind # "delete" =>
              \/ task[t].b \in req[w].bs /\ task[t].who # req[w].who
              \/ t \in req[w].old /\ task[t].who = req[w].who]_vars

\* A hand-over edit or a deletion writes to the task as its checks saw it, so no
\* change made since is lost, and an edit that goes through leaves its task
\* planned as asked: the hand-over it brings about does not drop it.
EditLands ==
    [][\A w \in Worker :
          LET r == req[w] IN
          r.at = "commit" /\ req'[w] # r =>
              /\ r.kind = "move" => task'[r.task] = Moved(r)
              /\ r.kind \in {"move", "delete"} => task[r.task] = r.seen]_vars

\* Nobody has a visit planned, today or later, at a building somebody else holds:
\* such a task can never be checked in and ends as a permanent overdue.
NoStrandedTask ==
    (\A w \in Worker : req[w].at = "idle") =>
        \A t \in TaskId : IsTask(t) =>
            \E r \in HeldRows(task[t].b) : row[r].holder = task[t].who

\* Nobody has the same task twice.
NoTwinTask ==
    \A t, u \in TaskId :
        /\ IsTask(t) /\ IsTask(u)
        /\ \A w \in Worker : req[w].at = "idle"
        /\ task[t].who = task[u].who /\ task[t].b = task[u].b
        => t = u

\* With requests in turn no task stays with someone who no longer holds its
\* building, and nobody gets the same task twice.
PlanStaysSound == NoStrandedTask /\ NoTwinTask

\* Every request ends, also when requests wait for each other's rows.
EveryRequestEnds == \A w \in Worker : req[w].at # "idle" ~> req[w].at = "idle"
-----------------------------------------------------------------------------
\* The holder of each building as everybody else sees it.
Holder == [b \in Building |-> IF HeldRows(b) = {} THEN None
                             ELSE row[CHOOSE r \in HeldRows(b) : TRUE].holder]

Register == INSTANCE HolderRegister WITH holder <- Holder

\* Hand-overs by team leaders are atomic assignments.
ImplementsRegister == Register!Spec
=============================================================================
