----------------------- MODULE BuildingHandoverProofs -----------------------
(***************************************************************************)
(* What holds of BuildingHandover for any teams, zones and buildings, with *)
(* and without rollbacks: first of the assignments, for any number of      *)
(* requests in flight; then of the tasks: the plan stays sound while       *)
(* requests are taken one at a time, and an edit lands whatever overlaps.  *)
(***************************************************************************)
EXTENDS BuildingHandover, TLAPS

-----------------------------------------------------------------------------
(* The inductive invariant.                                                *)

\* The steps of reassign under its locks, and those from the opening of the new
\* assignments to the end of the transaction.
Locked  == {"recheck", "prev", "stranded", "release", "close", "closing"}
Opening == {"assign", "replace", "plant", "commit"}

HeldSet == {x \in RowId : Held(x)}

\* The locals that later writes are made from.
WritesOK(r) ==
    /\ r.at # "idle" => r.actor \in Actor
    /\ r.kind = "delete" => r.at \in {"lock_task", "drop_task", "commit"} /\ r.bs = {}
    /\ r.at = "drop_task" => r.kind = "delete"
    /\ r.at \notin {"idle", "lock_task", "drop_task"} /\ r.kind # "delete" => /\ r.who \in Executive
                                                                             /\ r.who \in Team[r.actor]
    /\ r.at \in {"lock_task", "overwrite", "write_task", "drop_task"} => r.task \in TaskId
    /\ r.kind = "move" => /\ r.who \in Executive /\ r.who \in Team[r.actor]
                          /\ r.task \in TaskId
                          /\ r.seen \in Task
                          /\ r.plan # {}
    /\ r.moved => r.kind = "move"
    /\ r.at \in {"overwrite", "write_task"} => r.kind = "move"
    /\ r.at = "lock_task" => r.kind \in {"move", "delete"}
    /\ r.at = "target" => r.kind \in {"plan", "move"}

\* The rows a transaction has inserted, and those it closes.
RowsOK(r, rows) ==
    /\ r.opened # {} => r.at \in Opening
    /\ \A x \in r.opened : /\ rows[x] \in Row
                           /\ rows[x].active /\ rows[x].holder = r.who
                           /\ rows[x].b \in r.bs \cap r.shared
    /\ \A x, y \in r.opened : rows[x].b = rows[y].b => x = y
    /\ \A x \in r.shut \cup r.closed : /\ rows[x] \in Row
                                       /\ rows[x].b \in r.bs
                                       /\ x \notin r.opened
    /\ r.at \in {"replace", "plant", "commit"} =>
           \A b \in r.bs : \E x \in r.opened : rows[x].b = b

\* What a team leader's hand-over knows of the assignments H that others see,
\* because it holds the locks.
LeaderOK(r, rows, H) ==
    r.actor \in Leader =>
        /\ r.at \in Locked \cup Opening => r.bs \subseteq r.locked
        /\ r.at \in {"prev", "stranded", "release", "close"} =>
               \A x \in H : rows[x].b \in r.bs /\ x \notin r.closed
                                => rows[x].holder \in Team[r.actor]
        /\ \A x \in r.shut \cup r.closed : rows[x].holder \in Team[r.actor]
        /\ r.at = "closing" =>
               \A x \in H : rows[x].b \in r.bs => x \in r.shut \cup r.closed
        /\ r.at \in Opening => \A x \in H : rows[x].b \in r.bs => x \in r.closed

LocalOK(r, rows, H) == WritesOK(r) /\ RowsOK(r, rows) /\ LeaderOK(r, rows, H)

\* Two transactions never insert the same row, one does not close what the other
\* has inserted, and their locks exclude each other.
Apart(r, q) ==
    /\ r.opened \cap (q.opened \cup q.shut \cup q.closed) = {}
    /\ r.locked \cap (q.locked \cup q.shared) = {}

IInv ==
    /\ TypeOK
    /\ \A w \in Worker : LocalOK(req[w], row, HeldSet)
    /\ \A v, w \in Worker : v # w => Apart(req[v], req[w])

\* Nobody else sees the assignments change.
Steady == HeldSet' = HeldSet /\ \A x \in HeldSet : row'[x] = row[x]

-----------------------------------------------------------------------------
(* Steps that leave the assignments alone.                                 *)

LEMMA IdleOK ==
    /\ Idle \in Request
    /\ \A rows, H : LocalOK(Idle, rows, H)
    /\ \A r \in Request : Apart(Idle, r) /\ Apart(r, Idle)
<1>1. Idle \in Request
  BY DEF Idle, Request, Step
<1>2. None \notin Leader /\ None \notin Executive
  BY BuildingHandoverAssumption DEF Actor
<1>3. ASSUME NEW rows, NEW H PROVE LocalOK(Idle, rows, H)
  <2>1. WritesOK(Idle)
    BY BuildingHandoverAssumption DEF Idle, WritesOK, Kind
  <2>2. RowsOK(Idle, rows)
    BY DEF Idle, RowsOK
  <2>3. LeaderOK(Idle, rows, H)
    BY <1>2 DEF Idle, LeaderOK
  <2> QED
    BY <2>1, <2>2, <2>3 DEF LocalOK
<1>4. ASSUME NEW r \in Request PROVE Apart(Idle, r) /\ Apart(r, Idle)
  BY DEF Idle, Apart
<1> QED
  BY <1>1, <1>3, <1>4

\* A request that goes on without touching the assignments others see.
LEMMA OneRequest ==
    ASSUME IInv, NEW w \in Worker, NEW r \in Request,
           req' = [req EXCEPT ![w] = r], row' = row,
           task' \in [TaskId -> Task \cup {Unborn, Gone}], left' \in 0..MaxRequest,
           r.opened = req[w].opened,
           LocalOK(r, row, HeldSet),
           \A v \in Others(w) : Apart(r, req[v]) /\ Apart(req[v], r)
    PROVE  IInv' /\ Steady
<1>1. req \in [Worker -> Request] /\ TypeOK
  BY DEF IInv, TypeOK
<1>2. /\ req' \in [Worker -> Request]
      /\ req'[w] = r
      /\ \A v \in Others(w) : req'[v] = req[v]
  BY <1>1 DEF Others
<1>3. TypeOK'
  BY <1>1, <1>2 DEF TypeOK
<1>4. \A v \in Worker : req'[v].opened = req[v].opened
  BY <1>2 DEF Others
<1>5. HeldSet' = HeldSet
  BY <1>4 DEF HeldSet, Held, Committed
<1>6. ASSUME NEW v \in Worker PROVE LocalOK(req'[v], row', HeldSet')
  <2>1. v # w => LocalOK(req[v], row, HeldSet)
    BY DEF IInv
  <2> QED
    BY <1>2, <1>5, <2>1, Zenon DEF Others
<1>7. ASSUME NEW u \in Worker, NEW v \in Worker, u # v PROVE Apart(req'[u], req'[v])
  <2>1. Apart(req[u], req[v])
    BY <1>7 DEF IInv
  <2>2. CASE u = w
    BY <2>2, <1>2, <1>7 DEF Others
  <2>3. CASE v = w
    BY <2>3, <1>2, <1>7 DEF Others
  <2>4. CASE u # w /\ v # w
    BY <2>1, <2>4, <1>2 DEF Others
  <2> QED
    BY <2>2, <2>3, <2>4
<1> QED
  BY <1>3, <1>5, <1>6, <1>7 DEF IInv, Steady

\* In particular one that ends without having inserted anything.
LEMMA EndsOK ==
    ASSUME IInv, NEW w \in Worker, Continue(w, Idle), row' = row,
           task' \in [TaskId -> Task \cup {Unborn, Gone}], left' \in 0..MaxRequest,
           req[w].opened = {}
    PROVE  IInv' /\ Steady
<1>1. Idle.opened = {}
  BY DEF Idle
<1>2. \A v \in Others(w) : Apart(Idle, req[v]) /\ Apart(req[v], Idle)
  BY IdleOK DEF IInv, TypeOK, Others
<1> QED
  BY <1>1, <1>2, IdleOK, OneRequest DEF Continue

\* One that keeps its rows and locks.
LEMMA QuietOK ==
    ASSUME IInv, NEW w \in Worker, NEW r \in Request,
           Continue(w, r), row' = row,
           task' \in [TaskId -> Task \cup {Unborn, Gone}], left' \in 0..MaxRequest,
           r.opened = req[w].opened, r.shut = req[w].shut, r.closed = req[w].closed,
           r.locked = req[w].locked, r.shared = req[w].shared,
           LocalOK(r, row, HeldSet)
    PROVE  IInv' /\ Steady
<1>1. ASSUME NEW v \in Others(w) PROVE Apart(r, req[v]) /\ Apart(req[v], r)
  <2>1. Apart(req[w], req[v]) /\ Apart(req[v], req[w])
    BY DEF IInv, Others
  <2> QED
    BY <2>1 DEF Apart
<1> QED
  BY <1>1, OneRequest DEF Continue

\* One that begins.
LEMMA StartOK ==
    ASSUME IInv, NEW w \in Worker, NEW r \in Request, NEW kind, Start(w, kind),
           Continue(w, r), row' = row, task' = task,
           r.opened = {}, r.shut = {}, r.closed = {}, r.locked = {}, r.shared = {},
           WritesOK(r), r.at \notin Opening,
           r.actor \in Leader => r.at \notin Locked
    PROVE  IInv' /\ Steady
<1>1. req[w].opened = {}
  BY DEF Start, IInv, LocalOK, RowsOK, Opening
<1>2. task' \in [TaskId -> Task \cup {Unborn, Gone}] /\ left' \in 0..MaxRequest
  BY BuildingHandoverAssumption DEF Start, IInv, TypeOK
<1>3. LocalOK(r, row, HeldSet)
  BY DEF LocalOK, RowsOK, LeaderOK, Locked, Opening
<1>4. \A v \in Others(w) : Apart(r, req[v]) /\ Apart(req[v], r)
  BY DEF Apart
<1> QED
  BY <1>1, <1>2, <1>3, <1>4, OneRequest DEF Continue

-----------------------------------------------------------------------------
(* The requests' first steps.                                              *)

LEMMA RequestOf ==
    ASSUME IInv, NEW w \in Worker
    PROVE  /\ req[w] \in Request
           /\ LocalOK(req[w], row, HeldSet)
           /\ \A r \in Request : Continue(w, r) => req' = [req EXCEPT ![w] = r]
  BY DEF IInv, TypeOK, Continue

LEMMA SeenIsTask ==
    ASSUME IInv, NEW w \in Worker, NEW t \in SeenBy(w)
    PROVE  t \in TaskId /\ task[t] \in Task
  BY DEF IInv, TypeOK, SeenBy, IsTask

LEMMA StartAssignOK ==
    ASSUME IInv, NEW w \in Worker, NEW a \in Actor, NEW bs \in SUBSET Building,
           NEW e \in Executive, StartAssign(w, a, bs, e)
    PROVE  IInv' /\ Steady
<1> DEFINE r == [Idle EXCEPT !.at = Begin(a), !.kind = "assign", !.actor = a,
                             !.who = e, !.bs = bs]
<1>1. /\ r.at \in {"lock", "prev"} /\ r.kind = "assign" /\ r.who = e /\ r.moved = FALSE
      /\ r.actor = a /\ (a \in Leader => r.at = "lock") /\ e \in Team[a]
      /\ r.opened = {} /\ r.shut = {} /\ r.closed = {} /\ r.locked = {} /\ r.shared = {}
  BY DEF Idle, Begin, StartAssign
<1>2. r \in Request
  BY DEF Request, Step, Kind, Idle, Begin
<1>3. WritesOK(r) /\ r.at \notin Opening /\ (r.actor \in Leader => r.at \notin Locked)
  <2> HIDE DEF r
  <2> QED
    BY <1>1 DEF WritesOK, Opening, Locked
<1>4. Continue(w, r) /\ Start(w, "assign") /\ row' = row /\ task' = task
  BY DEF StartAssign
<1> HIDE DEF r
<1> QED
  BY <1>1, <1>2, <1>3, <1>4, StartOK

LEMMA StartPlanOK ==
    ASSUME IInv, NEW w \in Worker, NEW a \in Actor, NEW b \in Building,
           NEW e \in Executive, StartPlan(w, a, b, e)
    PROVE  IInv' /\ Steady
<1> DEFINE r(bs) == [Idle EXCEPT !.at = "target", !.kind = "plan", !.actor = a,
                                 !.who = e, !.plan = {b}, !.bs = bs]
<1>1. PICK bs \in SUBSET Building : Continue(w, r(bs))
  BY DEF StartPlan
<1>2. /\ r(bs).at = "target" /\ r(bs).kind = "plan" /\ r(bs).who = e /\ r(bs).moved = FALSE
      /\ r(bs).actor = a
      /\ r(bs).opened = {} /\ r(bs).shut = {} /\ r(bs).closed = {}
      /\ r(bs).locked = {} /\ r(bs).shared = {}
  BY DEF Idle
<1>3. r(bs) \in Request
  BY DEF Request, Step, Kind, Idle
<1>4. Start(w, "plan") /\ e \in Team[a] /\ row' = row /\ task' = task
  BY DEF StartPlan
<1> HIDE DEF r
<1>5. WritesOK(r(bs)) /\ r(bs).at \notin Opening /\ r(bs).at \notin Locked
  BY <1>2, <1>4 DEF WritesOK, Opening, Locked
<1> QED
  BY <1>1, <1>2, <1>3, <1>4, <1>5, StartOK

LEMMA StartMoveOK ==
    ASSUME IInv, NEW w \in Worker, NEW a \in Actor, NEW t \in TaskId,
           NEW b \in Building, NEW e \in Executive, StartMove(w, a, t, b, e)
    PROVE  IInv' /\ Steady
<1> DEFINE r(bs) == [Idle EXCEPT !.at = "target", !.kind = "move", !.actor = a,
                                 !.who = e, !.plan = {b}, !.task = t,
                                 !.seen = task[t], !.bs = bs]
<1>1. PICK bs \in SUBSET Building : Continue(w, r(bs))
  BY DEF StartMove
<1>2. task[t] \in Task
  BY SeenIsTask DEF StartMove
<1>3. /\ r(bs).at = "target" /\ r(bs).kind = "move" /\ r(bs).who = e /\ r(bs).moved = FALSE
      /\ r(bs).actor = a
      /\ r(bs).task = t /\ r(bs).seen = task[t] /\ r(bs).plan = {b}
      /\ r(bs).opened = {} /\ r(bs).shut = {} /\ r(bs).closed = {}
      /\ r(bs).locked = {} /\ r(bs).shared = {}
  BY DEF Idle
<1>4. r(bs) \in Request
  BY <1>2 DEF Request, Step, Kind, Idle
<1>5. Start(w, "move") /\ e \in Team[a] /\ row' = row /\ task' = task
  BY DEF StartMove
<1> HIDE DEF r
<1>6. WritesOK(r(bs)) /\ r(bs).at \notin Opening /\ r(bs).at \notin Locked
  BY <1>2, <1>3, <1>5 DEF WritesOK, Opening, Locked
<1> QED
  BY <1>1, <1>3, <1>4, <1>5, <1>6, StartOK

LEMMA StartDeleteOK ==
    ASSUME IInv, NEW w \in Worker, NEW a \in Actor, NEW t \in TaskId, StartDelete(w, a, t)
    PROVE  IInv' /\ Steady
<1> DEFINE r == [Idle EXCEPT !.at = "lock_task", !.kind = "delete", !.actor = a,
                             !.task = t, !.seen = task[t]]
<1>1. task[t] \in Task
  BY SeenIsTask DEF StartDelete
<1>2. /\ r.at = "lock_task" /\ r.kind = "delete" /\ r.moved = FALSE /\ r.task = t /\ r.bs = {} /\ r.actor = a
      /\ r.opened = {} /\ r.shut = {} /\ r.closed = {} /\ r.locked = {} /\ r.shared = {}
  BY DEF Idle
<1>3. r \in Request
  BY <1>1 DEF Request, Step, Kind, Idle
<1>4. Continue(w, r) /\ Start(w, "delete") /\ row' = row /\ task' = task
  BY DEF StartDelete
<1> HIDE DEF r
<1>5. WritesOK(r) /\ r.at \notin Opening /\ r.at \notin Locked
  BY <1>2 DEF WritesOK, Opening, Locked
<1> QED
  BY <1>2, <1>3, <1>4, <1>5, StartOK

LEMMA StartImportOK ==
    ASSUME IInv, NEW w \in Worker, NEW a \in Actor, NEW plan \in SUBSET Building,
           NEW e \in Executive, StartImport(w, a, plan, e)
    PROVE  IInv' /\ Steady
<1> DEFINE r(bs) == [Idle EXCEPT !.at = "replaceable", !.kind = "import", !.actor = a,
                                 !.who = e, !.plan = plan, !.bs = bs]
<1>1. PICK bs \in SUBSET Building : Continue(w, r(bs))
  <2>1. PICK seen \in [plan -> Executive \cup {None}] :
            Continue(w, r({b \in plan : seen[b] # e}))
    BY DEF StartImport
  <2>2. {b \in plan : seen[b] # e} \in SUBSET Building
    OBVIOUS
  <2> QED
    BY <2>1, <2>2
<1>2. /\ r(bs).at = "replaceable" /\ r(bs).kind = "import" /\ r(bs).who = e
      /\ r(bs).moved = FALSE /\ r(bs).actor = a
      /\ r(bs).opened = {} /\ r(bs).shut = {} /\ r(bs).closed = {}
      /\ r(bs).locked = {} /\ r(bs).shared = {}
  BY DEF Idle
<1>3. r(bs) \in Request
  BY DEF Request, Step, Kind, Idle
<1>4. Start(w, "import") /\ e \in Team[a] /\ row' = row /\ task' = task
  BY DEF StartImport
<1> HIDE DEF r
<1>5. WritesOK(r(bs)) /\ r(bs).at \notin Opening /\ r(bs).at \notin Locked
  BY <1>2, <1>4 DEF WritesOK, Opening, Locked
<1> QED
  BY <1>1, <1>2, <1>3, <1>4, <1>5, StartOK

-----------------------------------------------------------------------------
(* The steps on tasks.                                                     *)

\* The request has gone on, with the same assignee, rows and locks.
Like(r, q) ==
    /\ r.kind = q.kind /\ r.actor = q.actor /\ r.who = q.who /\ r.bs = q.bs
    /\ r.plan = q.plan /\ r.task = q.task /\ r.seen = q.seen /\ r.moved = q.moved
    /\ r.opened = q.opened /\ r.shut = q.shut /\ r.closed = q.closed
    /\ r.locked = q.locked /\ r.shared = q.shared

LEMMA LikeOK ==
    ASSUME IInv, NEW w \in Worker, NEW r \in Request, Continue(w, r), row' = row,
           task' \in [TaskId -> Task \cup {Unborn, Gone}], left' \in 0..MaxRequest,
           Like(r, req[w]), WritesOK(r), LeaderOK(r, row, HeldSet),
           r.opened # {} => r.at \in Opening,
           r.at \in {"replace", "plant", "commit"} /\ r.bs # {} =>
               req[w].at \in {"replace", "plant", "commit"}
    PROVE  IInv' /\ Steady
<1>1. RowsOK(req[w], row)
  BY RequestOf DEF LocalOK
<1>2. RowsOK(r, row)
  BY <1>1 DEF RowsOK, Like
<1> QED
  BY <1>2, QuietOK DEF LocalOK, Like

\* Steps that leave both tables alone.
LEMMA NoWrite ==
    ASSUME IInv, UNCHANGED <<row, task, left>>
    PROVE  /\ task' \in [TaskId -> Task \cup {Unborn, Gone}]
           /\ left' \in 0..MaxRequest
           /\ row' = row
  BY DEF IInv, TypeOK

LEMMA CheckTargetOK ==
    ASSUME IInv, NEW w \in Worker, CheckTarget(w)
    PROVE  IInv' /\ Steady
<1> DEFINE r(at) == [req[w] EXCEPT !.at = at]
<1>1. UNCHANGED <<row, task, left>> /\ req[w].at = "target"
  BY DEF CheckTarget
<1>2. req[w].opened = {}
  BY <1>1, RequestOf DEF LocalOK, RowsOK, Opening
<1>3. CASE Refuse(w)
  BY <1>1, <1>2, <1>3, NoWrite, EndsOK DEF Refuse
<1>4. CASE ~Refuse(w)
  <2>1. PICK at \in {"create", "lock", "prev", "overwrite", "lock_task"} :
            /\ Continue(w, r(at))
            /\ at = "prev" => req[w].actor \notin Leader
            /\ at \in {"overwrite", "lock_task"} => req[w].kind # "plan"
    BY <1>4 DEF CheckTarget, Begin, Goto, Continue
  <2>2. r(at) \in Request /\ r(at).at = at /\ Like(r(at), req[w])
    BY RequestOf DEF Request, Step, Like
  <2> HIDE DEF r
  <2>3. WritesOK(r(at))
    BY <1>1, <2>1, <2>2, RequestOf DEF LocalOK, WritesOK, Like
  <2>4. LeaderOK(r(at), row, HeldSet)
    BY <2>1, <2>2, RequestOf DEF LocalOK, LeaderOK, Locked, Opening, Like
  <2> QED
    BY <1>1, <1>2, <2>1, <2>2, <2>3, <2>4, NoWrite, LikeOK DEF Like
<1> QED
  BY <1>3, <1>4

LEMMA FindReplaceableOK ==
    ASSUME IInv, NEW w \in Worker, FindReplaceable(w)
    PROVE  IInv' /\ Steady
<1> DEFINE r(at, old, drop) == [req[w] EXCEPT !.old = old, !.at = at, !.drop = drop]
<1>1. UNCHANGED <<row, task, left>> /\ req[w].at = "replaceable"
  BY DEF FindReplaceable
<1>2. req[w].opened = {}
  BY <1>1, RequestOf DEF LocalOK, RowsOK, Opening
<1>3. PICK at \in {"lock", "prev", "replace"}, old \in SUBSET TaskId, drop \in SUBSET TaskId :
          /\ Continue(w, r(at, old, drop))
          /\ at = "prev" => req[w].actor \notin Leader
          /\ at = "replace" => req[w].bs = {}
  <2>1. SeenBy(w) \subseteq TaskId
    BY DEF SeenBy
  <2> DEFINE mine == {t \in SeenBy(w) : task[t].who = req[w].who}
  <2>2. mine \in SUBSET TaskId /\ {} \in SUBSET TaskId
    BY <2>1
  <2> HIDE DEF mine
  <2>3. Continue(w, r(IF req[w].bs # {} THEN Begin(req[w].actor) ELSE "replace", mine,
                      IF req[w].bs # {} THEN {} ELSE mine))
    BY DEF FindReplaceable, mine
  <2> HIDE DEF r
  <2> QED
    BY <2>2, <2>3 DEF Begin
<1>4. /\ r(at, old, drop) \in Request /\ r(at, old, drop).at = at
      /\ Like(r(at, old, drop), req[w])
  <2>1. req[w] \in Request /\ at \in Step
    BY RequestOf DEF Step
  <2>2. r(at, old, drop) \in Request
    BY <2>1 DEF Request
  <2>3. r(at, old, drop).at = at /\ Like(r(at, old, drop), req[w])
    BY <2>1 DEF Request, Like
  <2> QED
    BY <2>2, <2>3
<1> HIDE DEF r
<1>5. WritesOK(r(at, old, drop))
  BY <1>1, <1>3, <1>4, RequestOf DEF LocalOK, WritesOK, Like
<1>6. LeaderOK(r(at, old, drop), row, HeldSet)
  BY <1>3, <1>4, RequestOf DEF LocalOK, LeaderOK, Locked, Opening, Like
<1> QED
  BY <1>1, <1>2, <1>3, <1>4, <1>5, <1>6, NoWrite, LikeOK DEF Like

LEMMA LockTaskOK ==
    ASSUME IInv, NEW w \in Worker, LockTask(w)
    PROVE  IInv' /\ Steady
<1> DEFINE r(at) == [req[w] EXCEPT !.held = {req[w].task}, !.at = at]
<1>1. UNCHANGED <<row, task, left>> /\ req[w].at = "lock_task"
  BY DEF LockTask
<1>2. req[w].opened = {} /\ req[w].task \in TaskId
  BY <1>1, RequestOf DEF LocalOK, RowsOK, WritesOK, Opening
<1>3. CASE Refuse(w)
  BY <1>1, <1>2, <1>3, NoWrite, EndsOK DEF Refuse
<1>4. CASE ~Refuse(w)
  <2>1. PICK at \in {"drop_task", "write_task"} :
            Continue(w, r(at)) /\ (at = "drop_task" <=> req[w].kind = "delete")
    <3>1. Continue(w, r(IF req[w].kind = "delete" THEN "drop_task" ELSE "write_task"))
      BY <1>4 DEF LockTask
    <3> HIDE DEF r
    <3> QED
      BY <3>1
  <2>2. r(at) \in Request /\ r(at).at = at /\ Like(r(at), req[w])
    <3>1. req[w] \in Request /\ at \in Step /\ {req[w].task} \in SUBSET TaskId
      BY <1>2, RequestOf DEF Step
    <3>2. r(at) \in Request
      BY <3>1 DEF Request
    <3>3. r(at).at = at /\ Like(r(at), req[w])
      BY <3>1 DEF Request, Like
    <3> QED
      BY <3>2, <3>3
  <2> HIDE DEF r
  <2>3. WritesOK(r(at))
    BY <1>1, <2>1, <2>2, RequestOf DEF LocalOK, WritesOK, Like
  <2>4. LeaderOK(r(at), row, HeldSet)
    BY <2>1, <2>2, RequestOf DEF LocalOK, LeaderOK, Locked, Opening, Like
  <2> QED
    BY <1>1, <1>2, <2>1, <2>2, <2>3, <2>4, NoWrite, LikeOK DEF Like
<1> QED
  BY <1>3, <1>4

LEMMA OverwriteOK ==
    ASSUME IInv, NEW w \in Worker, Overwrite(w)
    PROVE  IInv' /\ Steady
<1> DEFINE q == req[w]
           r == [q EXCEPT !.held = {q.task}, !.seen = task[q.task], !.at = "write_task"]
<1>1. UNCHANGED <<row, task, left>> /\ q.at = "overwrite" /\ q \in Request
      /\ LocalOK(q, row, HeldSet)
  BY RequestOf DEF Overwrite
<1>2. q.opened = {} /\ q.task \in TaskId
  BY <1>1 DEF LocalOK, RowsOK, WritesOK, Opening
<1>3. CASE Refuse(w)
  BY <1>1, <1>2, <1>3, NoWrite, EndsOK DEF Refuse
<1>4. CASE ~Refuse(w)
  <2>1. IsTask(q.task) /\ Continue(w, r)
    BY <1>4 DEF Overwrite
  <2>2. task[q.task] \in Task /\ {q.task} \in SUBSET TaskId /\ r.at \in Step
    BY <1>1, <1>2, <2>1 DEF IInv, TypeOK, IsTask, Step, Request
  <2>3. r \in Request
    BY <1>1, <2>2 DEF Request, Step
  <2>4. /\ r.at = "write_task" /\ r.seen = task[q.task]
        /\ r.kind = q.kind /\ r.actor = q.actor /\ r.who = q.who /\ r.bs = q.bs
        /\ r.plan = q.plan /\ r.task = q.task /\ r.moved = q.moved
        /\ r.opened = q.opened /\ r.shut = q.shut /\ r.closed = q.closed
        /\ r.locked = q.locked /\ r.shared = q.shared
    BY <1>1 DEF Request
  <2> HIDE DEF r
  <2>5. WritesOK(r)
    BY <1>1, <2>2, <2>4 DEF LocalOK, WritesOK
  <2>6. LeaderOK(r, row, HeldSet)
    BY <1>1, <2>4 DEF LocalOK, LeaderOK, Locked, Opening
  <2>7. RowsOK(r, row)
    BY <1>1, <1>2, <2>4 DEF LocalOK, RowsOK
  <2> QED
    BY <1>1, <2>1, <2>3, <2>4, <2>5, <2>6, <2>7, NoWrite, QuietOK DEF LocalOK
<1> QED
  BY <1>3, <1>4

LEMMA WriteTaskOK ==
    ASSUME IInv, NEW w \in Worker, WriteTask(w)
    PROVE  IInv' /\ Steady
<1> DEFINE q == req[w]
           r(at) == [q EXCEPT !.moved = TRUE, !.shared = NewSite(w), !.at = at]
<1>1. UNCHANGED <<row, task, left>> /\ q.at = "write_task" /\ q \in Request
      /\ LocalOK(q, row, HeldSet)
  BY RequestOf DEF WriteTask
<1>2. q.opened = {} /\ q.kind = "move"
  BY <1>1 DEF LocalOK, RowsOK, WritesOK, Opening
<1>3. PICK at \in {"commit", "lock", "prev"} :
          /\ Continue(w, r(at))
          /\ at = "prev" => q.actor \notin Leader
          /\ at = "commit" => q.bs = {}
  <2>1. Continue(w, r(IF q.bs = {} THEN "commit" ELSE Begin(q.actor)))
    BY DEF WriteTask
  <2> HIDE DEF r
  <2> QED
    BY <2>1 DEF Begin
<1>4. at \in Step /\ NewSite(w) \in SUBSET Building
  BY <1>1 DEF Step, NewSite, Request
<1>5. r(at) \in Request
  BY <1>1, <1>4 DEF Request
<1>6. /\ r(at).at = at /\ r(at).moved = TRUE /\ r(at).shared = NewSite(w)
      /\ r(at).kind = q.kind /\ r(at).actor = q.actor /\ r(at).who = q.who
      /\ r(at).bs = q.bs /\ r(at).plan = q.plan /\ r(at).task = q.task
      /\ r(at).seen = q.seen /\ r(at).opened = q.opened /\ r(at).shut = q.shut
      /\ r(at).closed = q.closed /\ r(at).locked = q.locked
  BY <1>1 DEF Request
<1> HIDE DEF r
<1>7. LocalOK(r(at), row, HeldSet)
  <2>1. WritesOK(r(at))
    BY <1>1, <1>2, <1>3, <1>6 DEF LocalOK, WritesOK
  <2>2. LeaderOK(r(at), row, HeldSet)
    BY <1>1, <1>3, <1>6 DEF LocalOK, LeaderOK, Locked, Opening
  <2>3. RowsOK(r(at), row)
    BY <1>1, <1>2, <1>3, <1>6 DEF LocalOK, RowsOK
  <2> QED
    BY <2>1, <2>2, <2>3 DEF LocalOK
<1>8. ASSUME NEW v \in Others(w) PROVE Apart(r(at), req[v]) /\ Apart(req[v], r(at))
  <2>1. Apart(q, req[v]) /\ Apart(req[v], q)
    BY DEF IInv, Others
  <2>2. NewSite(w) \cap req[v].locked = {}
    BY DEF WriteTask, ShareWaits
  <2> QED
    BY <1>6, <2>1, <2>2 DEF Apart
<1> QED
  BY <1>1, <1>3, <1>5, <1>6, <1>7, <1>8, NoWrite, OneRequest DEF Continue

LEMMA DropTaskOK ==
    ASSUME IInv, NEW w \in Worker, DropTask(w)
    PROVE  IInv' /\ Steady
<1> DEFINE q == req[w]
           r == [q EXCEPT !.gone = {q.task}, !.at = "commit"]
<1>1. UNCHANGED <<row, task, left>> /\ q.at = "drop_task" /\ q \in Request
      /\ LocalOK(q, row, HeldSet) /\ Continue(w, r)
  BY RequestOf DEF DropTask
<1>2. q.opened = {} /\ {q.task} \in SUBSET TaskId /\ q.kind = "delete" /\ q.bs = {}
  BY <1>1 DEF LocalOK, RowsOK, WritesOK, Opening
<1>3. r \in Request
  BY <1>1, <1>2 DEF Request, Step
<1>4. r.at = "commit" /\ Like(r, q)
  BY <1>1 DEF Request, Like
<1> HIDE DEF r
<1>5. WritesOK(r)
  BY <1>1, <1>2, <1>4 DEF LocalOK, WritesOK, Like
<1>6. LeaderOK(r, row, HeldSet)
  BY <1>1, <1>2, <1>4 DEF LocalOK, LeaderOK, Locked, Opening, Like
<1> QED
  BY <1>1, <1>2, <1>3, <1>4, <1>5, <1>6, NoWrite, LikeOK DEF Like

-----------------------------------------------------------------------------
(* The steps of reassign up to the closing.                                *)

LEMMA LockBuildingOK ==
    ASSUME IInv, NEW w \in Worker, LockBuilding(w)
    PROVE  IInv' /\ Steady
<1> DEFINE q == req[w]
           r(b, at) == [q EXCEPT !.locked = @ \cup {b}, !.at = at]
<1>1. UNCHANGED <<row, task, left>> /\ q.at = "lock" /\ q \in Request
      /\ LocalOK(q, row, HeldSet)
  BY RequestOf DEF LockBuilding
<1>2. q.opened = {}
  BY <1>1 DEF LocalOK, RowsOK, Opening
<1>3. PICK b \in Rest(w), at \in {"recheck", "lock"} :
          /\ Continue(w, r(b, at))
          /\ ForUpdateWaits(w, b) = {}
          /\ at = "recheck" => Rest(w) = {b}
  <2>1. PICK b \in Rest(w) : /\ ForUpdateWaits(w, b) = {}
                             /\ Continue(w, r(b, IF Rest(w) = {b} THEN "recheck" ELSE "lock"))
    BY DEF LockBuilding
  <2> HIDE DEF r
  <2> QED
    BY <2>1
<1>4. b \in Building /\ at \in Step /\ q.locked \cup {b} \in SUBSET Building
  BY <1>1 DEF Rest, Request, Step
<1>5. r(b, at) \in Request
  BY <1>1, <1>4 DEF Request
<1>6. /\ r(b, at).at = at /\ r(b, at).locked = q.locked \cup {b}
      /\ r(b, at).kind = q.kind /\ r(b, at).actor = q.actor /\ r(b, at).who = q.who
      /\ r(b, at).bs = q.bs /\ r(b, at).plan = q.plan /\ r(b, at).task = q.task
      /\ r(b, at).seen = q.seen /\ r(b, at).moved = q.moved
      /\ r(b, at).opened = q.opened /\ r(b, at).shut = q.shut
      /\ r(b, at).closed = q.closed /\ r(b, at).shared = q.shared
  BY <1>1 DEF Request
<1> HIDE DEF r
<1>7. LocalOK(r(b, at), row, HeldSet)
  <2>1. WritesOK(r(b, at))
    BY <1>1, <1>6 DEF LocalOK, WritesOK
  <2>2. RowsOK(r(b, at), row)
    BY <1>1, <1>2, <1>6 DEF LocalOK, RowsOK
  <2>3. at = "recheck" => q.bs \subseteq q.locked \cup {b}
    BY <1>3 DEF Rest
  <2>4. LeaderOK(r(b, at), row, HeldSet)
    BY <1>1, <1>6, <2>3 DEF LocalOK, LeaderOK, Locked, Opening
  <2> QED
    BY <2>1, <2>2, <2>4 DEF LocalOK
<1>8. ASSUME NEW v \in Others(w) PROVE Apart(r(b, at), req[v]) /\ Apart(req[v], r(b, at))
  <2>1. Apart(q, req[v]) /\ Apart(req[v], q)
    BY DEF IInv, Others
  <2>2. b \notin req[v].locked \cup req[v].shared
    BY <1>3 DEF ForUpdateWaits
  <2> QED
    BY <1>6, <2>1, <2>2 DEF Apart
<1> QED
  BY <1>1, <1>3, <1>5, <1>6, <1>7, <1>8, NoWrite, OneRequest DEF Continue

\* At this step w has inserted nothing, so it sees what is held and not closed by
\* itself.
LEMMA ActiveToHeld ==
    ASSUME IInv, NEW w \in Worker, NEW b, req[w].opened = {}
    PROVE  /\ ActiveTo(w, b) = {x \in HeldSet : row[x].b = b /\ x \notin req[w].closed}
           /\ \A x \in ActiveTo(w, b) : x \in RowId /\ row[x] \in Row
           /\ \A x \in HeldSet : row[x] \in Row
<1>1. \A v \in Worker : v = w \/ v \in Others(w)
  BY DEF Others
<1>2. ActiveTo(w, b) = {x \in HeldSet : row[x].b = b /\ x \notin req[w].closed}
  BY <1>1 DEF ActiveTo, HeldSet, Held, Committed, Others
<1>3. \A x \in HeldSet : x \in RowId /\ row[x] \in Row
  BY DEF HeldSet, Held, Committed, IInv, TypeOK
<1> QED
  BY <1>2, <1>3

LEMMA RecheckOK ==
    ASSUME IInv, NEW w \in Worker, Recheck(w), ~RollBack(w)
    PROVE  IInv' /\ Steady
<1> DEFINE q == req[w]
           r == [q EXCEPT !.at = "prev"]
<1>1. UNCHANGED <<row, task, left>> /\ q.at = "recheck" /\ q \in Request
      /\ LocalOK(q, row, HeldSet) /\ Continue(w, r)
  BY RequestOf DEF Recheck, Goto, Continue
<1>2. q.opened = {}
  BY <1>1 DEF LocalOK, RowsOK, Opening
<1>3. \A b \in q.bs : \A x \in ActiveTo(w, b) : row[x].holder \in Team[q.actor]
  BY DEF Recheck
<1>4. \A x \in HeldSet : row[x].b \in q.bs /\ x \notin q.closed
                              => row[x].holder \in Team[q.actor]
  BY <1>2, <1>3, ActiveToHeld
<1>5. r \in Request
  BY <1>1 DEF Request, Step
<1>6. r.at = "prev" /\ Like(r, q)
  BY <1>1 DEF Request, Like
<1> HIDE DEF r
<1>7. WritesOK(r)
  BY <1>1, <1>6 DEF LocalOK, WritesOK, Like
<1>8. LeaderOK(r, row, HeldSet)
  BY <1>1, <1>4, <1>6 DEF LocalOK, LeaderOK, Locked, Opening, Like
<1> QED
  BY <1>1, <1>2, <1>5, <1>6, <1>7, <1>8, NoWrite, LikeOK DEF Like

LEMMA FindPrevOK ==
    ASSUME IInv, NEW w \in Worker, FindPrev(w)
    PROVE  IInv' /\ Steady
<1> DEFINE q == req[w]
           prev == UNION {{<<row[x].holder, b>> : x \in {y \in ActiveTo(w, b) : row[y].holder # q.who}}
                            : b \in q.bs}
           at == IF prev = {} THEN "close" ELSE "stranded"
           r == [q EXCEPT !.prev = prev, !.at = at]
<1>1. UNCHANGED <<row, task, left>> /\ q.at = "prev" /\ q \in Request
      /\ LocalOK(q, row, HeldSet) /\ Continue(w, r)
  BY RequestOf DEF FindPrev
<1>2. q.opened = {} /\ q.bs \subseteq Building
  BY <1>1 DEF LocalOK, RowsOK, Opening, Request
<1>3. prev \in SUBSET (Executive \X Building)
  <2>1. ASSUME NEW b \in q.bs, NEW x \in ActiveTo(w, b)
        PROVE  <<row[x].holder, b>> \in Executive \X Building
    BY <1>2, ActiveToHeld DEF Row
  <2> QED
    BY <2>1
<1>4. at \in {"close", "stranded"} /\ at \in Step
  BY DEF Step
<1> HIDE DEF prev, at
<1>5. r \in Request
  BY <1>1, <1>3, <1>4 DEF Request
<1>6. r.at = at /\ Like(r, q)
  BY <1>1 DEF Request, Like
<1> HIDE DEF r
<1>7. WritesOK(r)
  BY <1>1, <1>4, <1>6 DEF LocalOK, WritesOK, Like
<1>8. LeaderOK(r, row, HeldSet)
  BY <1>1, <1>4, <1>6 DEF LocalOK, LeaderOK, Locked, Opening, Like
<1> QED
  BY <1>1, <1>2, <1>4, <1>5, <1>6, <1>7, <1>8, NoWrite, LikeOK DEF Like

LEMMA FindStrandedOK ==
    ASSUME IInv, NEW w \in Worker, FindStranded(w)
    PROVE  IInv' /\ Steady
<1> DEFINE q == req[w]
           drop == {t \in SeenBy(w) : <<TaskTo(w, t).who, TaskTo(w, t).b>> \in q.prev}
           at == IF drop = {} THEN "close" ELSE "release"
           r == [q EXCEPT !.drop = drop, !.prev = {}, !.at = at]
<1>1. UNCHANGED <<row, task, left>> /\ q.at = "stranded" /\ q \in Request
      /\ LocalOK(q, row, HeldSet) /\ Continue(w, r)
  BY RequestOf DEF FindStranded
<1>2. q.opened = {}
  BY <1>1 DEF LocalOK, RowsOK, Opening
<1>3. drop \in SUBSET TaskId
  BY DEF SeenBy
<1>4. at \in {"close", "release"} /\ at \in Step
  BY DEF Step
<1> HIDE DEF drop, at
<1>5. r \in Request
  BY <1>1, <1>3, <1>4 DEF Request
<1>6. r.at = at /\ Like(r, q)
  BY <1>1 DEF Request, Like
<1> HIDE DEF r
<1>7. WritesOK(r)
  BY <1>1, <1>4, <1>6 DEF LocalOK, WritesOK, Like
<1>8. LeaderOK(r, row, HeldSet)
  BY <1>1, <1>4, <1>6 DEF LocalOK, LeaderOK, Locked, Opening, Like
<1> QED
  BY <1>1, <1>2, <1>4, <1>5, <1>6, <1>7, <1>8, NoWrite, LikeOK DEF Like

LEMMA DropOK ==
    ASSUME IInv, NEW w \in Worker, Drop(w)
    PROVE  IInv' /\ Steady
<1> DEFINE q == req[w]
<1>1. UNCHANGED <<row, task, left>> /\ q.at \in {"release", "replace"} /\ q \in Request
      /\ LocalOK(q, row, HeldSet)
  BY RequestOf DEF Drop
<1>2. AfterDrop(q.at) \in Step /\ q.at \in Step
  BY <1>1 DEF AfterDrop, Step
<1>3. PICK r \in Request :
          /\ Continue(w, r)
          /\ r.at \in {q.at, AfterDrop(q.at)}
          /\ Like(r, q)
  <2>1. q.drop \subseteq TaskId /\ q.gone \subseteq TaskId /\ q.held \subseteq TaskId
    BY <1>1 DEF Request
  <2>2. CASE q.drop = {} /\ Goto(w, AfterDrop(q.at))
    <3> DEFINE r == [q EXCEPT !.at = AfterDrop(q.at)]
    <3>1. Continue(w, r)
      BY <2>2 DEF Goto, Continue
    <3>2. r \in Request
      BY <1>1, <1>2 DEF Request
    <3>3. r.at = AfterDrop(q.at) /\ Like(r, q)
      BY <1>1 DEF Request, Like
    <3> HIDE DEF r
    <3> QED
      BY <3>1, <3>2, <3>3
  <2>3. CASE ~(q.drop = {} /\ Goto(w, AfterDrop(q.at)))
    <3> DEFINE hit(t) == {t} \ {u \in TaskId : ~IsTask(u)}
               at(t) == IF q.drop = {t} THEN AfterDrop(q.at) ELSE q.at
               r(t) == [q EXCEPT !.drop = @ \ {t}, !.gone = @ \cup hit(t),
                                 !.held = @ \cup hit(t), !.at = at(t)]
    <3>1. PICK t \in q.drop : Continue(w, r(t))
      BY <2>3 DEF Drop
    <3>2. /\ q.drop \ {t} \in SUBSET TaskId
          /\ q.gone \cup hit(t) \in SUBSET TaskId
          /\ q.held \cup hit(t) \in SUBSET TaskId
          /\ at(t) \in {q.at, AfterDrop(q.at)}
      BY <2>1
    <3> HIDE DEF hit, at
    <3>3. r(t) \in Request
      BY <1>1, <1>2, <3>2 DEF Request
    <3>4. r(t).at = at(t) /\ Like(r(t), q)
      BY <1>1 DEF Request, Like
    <3> HIDE DEF r
    <3> QED
      BY <3>1, <3>2, <3>3, <3>4
  <2> QED
    BY <2>2, <2>3
<1>4. /\ q.at = "release" => r.at \in {"release", "close"}
      /\ q.at = "replace" => r.at \in {"replace", "plant"}
  BY <1>1, <1>3 DEF AfterDrop
<1>5. WritesOK(r)
  BY <1>1, <1>3, <1>4 DEF LocalOK, WritesOK, Like
<1>6. LeaderOK(r, row, HeldSet)
  BY <1>1, <1>3, <1>4 DEF LocalOK, LeaderOK, Locked, Opening, Like
<1>7. r.opened # {} => r.at \in Opening
  BY <1>1, <1>3, <1>4 DEF LocalOK, RowsOK, Opening, Like
<1> QED
  BY <1>1, <1>3, <1>4, <1>5, <1>6, <1>7, NoWrite, LikeOK

LEMMA FindActiveOK ==
    ASSUME IInv, NEW w \in Worker, FindActive(w)
    PROVE  IInv' /\ Steady
<1> DEFINE q == req[w]
           shut == UNION {ActiveTo(w, b) : b \in q.bs}
           at == IF shut = {} THEN "assign" ELSE "closing"
           r == [q EXCEPT !.shut = shut, !.at = at]
<1>1. UNCHANGED <<row, task, left>> /\ q.at = "close" /\ q \in Request
      /\ LocalOK(q, row, HeldSet) /\ Continue(w, r)
  BY RequestOf DEF FindActive
<1>2. q.opened = {}
  BY <1>1 DEF LocalOK, RowsOK, Opening
<1>3. /\ shut = {x \in HeldSet : row[x].b \in q.bs /\ x \notin q.closed}
      /\ \A x \in shut : x \in RowId /\ row[x] \in Row
      /\ \A v \in Worker : shut \cap req[v].opened = {}
  BY <1>2, ActiveToHeld DEF HeldSet, Held, Committed
<1>4. at \in {"assign", "closing"} /\ at \in Step /\ (at = "assign" => shut = {})
  BY DEF Step
<1>5. shut \in SUBSET RowId
  BY <1>3
<1> HIDE DEF shut, at
<1>6. r \in Request
  BY <1>1, <1>4, <1>5 DEF Request
<1>7. /\ r.at = at /\ r.shut = shut
      /\ r.kind = q.kind /\ r.actor = q.actor /\ r.who = q.who /\ r.bs = q.bs
      /\ r.plan = q.plan /\ r.task = q.task /\ r.seen = q.seen /\ r.moved = q.moved
      /\ r.opened = q.opened /\ r.closed = q.closed
      /\ r.locked = q.locked /\ r.shared = q.shared
  BY <1>1 DEF Request
<1> HIDE DEF r
<1>8. LocalOK(r, row, HeldSet)
  <2>1. WritesOK(r)
    BY <1>1, <1>4, <1>7 DEF LocalOK, WritesOK
  <2>2. RowsOK(r, row)
    BY <1>1, <1>2, <1>3, <1>4, <1>7 DEF LocalOK, RowsOK
  <2>3. ASSUME q.actor \in Leader
        PROVE  /\ q.bs \subseteq q.locked
               /\ \A x \in shut \cup q.closed : row[x].holder \in Team[q.actor]
               /\ \A x \in HeldSet : row[x].b \in q.bs => x \in shut \cup q.closed
    BY <1>1, <1>3, <2>3 DEF LocalOK, LeaderOK, Locked
  <2>4. LeaderOK(r, row, HeldSet)
    BY <1>4, <1>7, <2>3 DEF LeaderOK, Locked, Opening
  <2> QED
    BY <2>1, <2>2, <2>4 DEF LocalOK
<1>9. ASSUME NEW v \in Others(w) PROVE Apart(r, req[v]) /\ Apart(req[v], r)
  <2>1. Apart(q, req[v]) /\ Apart(req[v], q)
    BY DEF IInv, Others
  <2>2. shut \cap req[v].opened = {}
    BY <1>3 DEF Others
  <2> QED
    BY <1>7, <2>1, <2>2 DEF Apart
<1> QED
  BY <1>1, <1>6, <1>7, <1>8, <1>9, NoWrite, OneRequest DEF Continue

LEMMA CloseOK ==
    ASSUME IInv, NEW w \in Worker, Close(w)
    PROVE  IInv' /\ Steady
<1> DEFINE q == req[w]
           closed(x) == IF row[x].active THEN q.closed \cup {x} ELSE q.closed
           at(x) == IF q.shut = {x} THEN "assign" ELSE "closing"
           r(x) == [q EXCEPT !.shut = @ \ {x}, !.closed = closed(x), !.at = at(x)]
<1>1. UNCHANGED <<row, task, left>> /\ q.at = "closing" /\ q \in Request
      /\ LocalOK(q, row, HeldSet)
  BY RequestOf DEF Close
<1>2. PICK x \in q.shut : Continue(w, r(x))
  BY <1>1 DEF Close
<1>3. q.opened = {} /\ x \in RowId /\ row[x] \in Row
  BY <1>1 DEF LocalOK, RowsOK, Opening, Request
<1>4. /\ at(x) \in {"assign", "closing"} /\ at(x) \in Step
      /\ at(x) = "assign" => q.shut \ {x} = {}
  BY DEF Step
<1>5. /\ q.shut \ {x} \in SUBSET RowId /\ closed(x) \in SUBSET RowId
      /\ q.closed \subseteq closed(x)
      /\ closed(x) \subseteq q.closed \cup q.shut
      /\ x \in HeldSet => x \in closed(x)
  BY <1>1, <1>3 DEF Request, HeldSet, Held
<1> HIDE DEF closed, at
<1>6. r(x) \in Request
  BY <1>1, <1>4, <1>5 DEF Request
<1>7. /\ r(x).at = at(x) /\ r(x).shut = q.shut \ {x} /\ r(x).closed = closed(x)
      /\ r(x).kind = q.kind /\ r(x).actor = q.actor /\ r(x).who = q.who
      /\ r(x).bs = q.bs /\ r(x).plan = q.plan /\ r(x).task = q.task
      /\ r(x).seen = q.seen /\ r(x).moved = q.moved /\ r(x).opened = q.opened
      /\ r(x).locked = q.locked /\ r(x).shared = q.shared
  BY <1>1 DEF Request
<1> HIDE DEF r
<1>8. LocalOK(r(x), row, HeldSet)
  <2>1. WritesOK(r(x))
    BY <1>1, <1>4, <1>7 DEF LocalOK, WritesOK
  <2>2. RowsOK(r(x), row)
    BY <1>1, <1>3, <1>4, <1>5, <1>7 DEF LocalOK, RowsOK
  <2>3. ASSUME q.actor \in Leader
        PROVE  /\ q.bs \subseteq q.locked
               /\ \A y \in q.shut \cup closed(x) : row[y].holder \in Team[q.actor]
               /\ \A y \in HeldSet : row[y].b \in q.bs => y \in (q.shut \ {x}) \cup closed(x)
    BY <1>1, <1>5, <2>3 DEF LocalOK, LeaderOK, Locked
  <2>4. LeaderOK(r(x), row, HeldSet)
    BY <1>4, <1>7, <2>3 DEF LeaderOK, Locked, Opening
  <2> QED
    BY <2>1, <2>2, <2>4 DEF LocalOK
<1>9. ASSUME NEW v \in Others(w) PROVE Apart(r(x), req[v]) /\ Apart(req[v], r(x))
  <2>1. Apart(q, req[v]) /\ Apart(req[v], q)
    BY DEF IInv, Others
  <2> QED
    BY <1>5, <1>7, <2>1 DEF Apart
<1> QED
  BY <1>1, <1>2, <1>6, <1>7, <1>8, <1>9, NoWrite, OneRequest DEF Continue

-----------------------------------------------------------------------------
(* The new tasks.                                                          *)

LEMMA NewTask ==
    ASSUME IInv, NEW t \in FreshTasks, NEW e \in Executive, NEW b \in Building
    PROVE  [task EXCEPT ![t] = [who |-> e, b |-> b, version |-> 0]]
               \in [TaskId -> Task \cup {Unborn, Gone}]
  BY DEF IInv, TypeOK, FreshTasks, Task

LEMMA PlantOK ==
    ASSUME IInv, NEW w \in Worker, Plant(w)
    PROVE  IInv' /\ Steady
<1> DEFINE q == req[w]
           t == CHOOSE t \in FreshTasks : TRUE
           r(b, at) == [q EXCEPT !.born = @ \cup {t}, !.shared = @ \cup {b}, !.at = at]
<1>1. UNCHANGED <<row, left>> /\ q.at = "plant" /\ q \in Request
      /\ LocalOK(q, row, HeldSet)
  BY RequestOf DEF Plant
<1>2. t \in FreshTasks /\ t \in TaskId
  BY DEF Plant, FreshTasks
<1>3. PICK b \in ToPlant(w), at \in {"plant", "commit"} :
          /\ ShareWaits(w, b) = {}
          /\ task' = [task EXCEPT ![t] = [who |-> q.who, b |-> b, version |-> 0]]
          /\ Continue(w, r(b, at))
  <2>1. PICK b \in ToPlant(w) :
            /\ ShareWaits(w, b) = {}
            /\ task' = [task EXCEPT ![t] = [who |-> q.who, b |-> b, version |-> 0]]
            /\ Continue(w, r(b, IF ToPlant(w) = {b} THEN "commit" ELSE "plant"))
    BY <1>1 DEF Plant
  <2> HIDE DEF r, t
  <2> QED
    BY <2>1
<1>4. /\ b \in Building /\ at \in Step /\ q.born \cup {t} \in SUBSET TaskId
      /\ q.shared \cup {b} \in SUBSET Building
  BY <1>1, <1>2 DEF ToPlant, Request, Step
<1>5. q.who \in Executive
  BY <1>1 DEF LocalOK, WritesOK
<1>6. task' \in [TaskId -> Task \cup {Unborn, Gone}] /\ left' \in 0..MaxRequest
  BY <1>1, <1>2, <1>3, <1>4, <1>5, NewTask DEF IInv, TypeOK
<1> HIDE DEF t
<1>7. r(b, at) \in Request
  BY <1>1, <1>4 DEF Request
<1>8. /\ r(b, at).at = at /\ r(b, at).shared = q.shared \cup {b}
      /\ r(b, at).kind = q.kind /\ r(b, at).actor = q.actor /\ r(b, at).who = q.who
      /\ r(b, at).bs = q.bs /\ r(b, at).plan = q.plan /\ r(b, at).task = q.task
      /\ r(b, at).seen = q.seen /\ r(b, at).moved = q.moved
      /\ r(b, at).opened = q.opened /\ r(b, at).shut = q.shut
      /\ r(b, at).closed = q.closed /\ r(b, at).locked = q.locked
  BY <1>1 DEF Request
<1> HIDE DEF r
<1>9. LocalOK(r(b, at), row, HeldSet)
  <2>1. WritesOK(r(b, at))
    BY <1>1, <1>8 DEF LocalOK, WritesOK
  <2>2. RowsOK(r(b, at), row)
    BY <1>1, <1>8 DEF LocalOK, RowsOK, Opening
  <2>3. LeaderOK(r(b, at), row, HeldSet)
    BY <1>1, <1>8 DEF LocalOK, LeaderOK, Locked, Opening
  <2> QED
    BY <2>1, <2>2, <2>3 DEF LocalOK
<1>10. ASSUME NEW v \in Others(w) PROVE Apart(r(b, at), req[v]) /\ Apart(req[v], r(b, at))
  <2>1. Apart(q, req[v]) /\ Apart(req[v], q)
    BY DEF IInv, Others
  <2>2. b \notin req[v].locked
    BY <1>3 DEF ShareWaits
  <2> QED
    BY <1>8, <2>1, <2>2 DEF Apart
<1> QED
  BY <1>1, <1>3, <1>6, <1>7, <1>8, <1>9, <1>10, OneRequest DEF Continue

LEMMA CreateTaskOK ==
    ASSUME IInv, NEW w \in Worker, CreateTask(w)
    PROVE  IInv' /\ Steady
<1> DEFINE q == req[w]
           t == CHOOSE t \in FreshTasks : TRUE
<1>1. UNCHANGED <<row, left>> /\ q.at = "create" /\ q \in Request
      /\ LocalOK(q, row, HeldSet) /\ Continue(w, Idle)
  BY RequestOf DEF CreateTask
<1>2. q.opened = {} /\ q.who \in Executive /\ q.plan \subseteq Building
  BY <1>1 DEF LocalOK, RowsOK, WritesOK, Opening, Request
<1>3. t \in FreshTasks
  BY DEF CreateTask
<1>4. PICK b \in q.plan : task' = [task EXCEPT ![t] = [who |-> q.who, b |-> b, version |-> 0]]
  BY DEF CreateTask
<1>5. task' \in [TaskId -> Task \cup {Unborn, Gone}] /\ left' \in 0..MaxRequest
  BY <1>1, <1>2, <1>3, <1>4, NewTask DEF IInv, TypeOK
<1> QED
  BY <1>1, <1>2, <1>5, EndsOK

-----------------------------------------------------------------------------
(* The steps that write assignments: opening, committing, rolling back.    *)

\* The row table changes only where it does not concern q.
LEMMA LocalKept ==
    ASSUME NEW q, NEW rows, NEW rows2, NEW H, NEW H2, LocalOK(q, rows, H),
           \A x \in q.opened : rows2[x] = rows[x],
           \A x \in q.shut \cup q.closed : /\ rows2[x] \in Row
                                            /\ rows2[x].b = rows[x].b
                                            /\ rows2[x].holder = rows[x].holder,
           \A x \in H2 :
               \/ x \in H /\ rows2[x].b = rows[x].b /\ rows2[x].holder = rows[x].holder
               \/ q.actor \in Leader /\ q.at \in Locked \cup Opening => rows2[x].b \notin q.bs
    PROVE  LocalOK(q, rows2, H2)
<1>1. WritesOK(q)
  BY DEF LocalOK
<1>2. RowsOK(q, rows2)
  BY DEF LocalOK, RowsOK
<1>3. LeaderOK(q, rows2, H2)
  BY DEF LocalOK, LeaderOK, Locked, Opening
<1> QED
  BY <1>1, <1>2, <1>3 DEF LocalOK

LEMMA UnbornIsNoRow == Unborn \notin Row
  BY DEF Unborn, Row

LEMMA RollBackOK ==
    ASSUME IInv, NEW w \in Worker, RollBack(w), left' = left
    PROVE  IInv' /\ Steady
<1> DEFINE q == req[w]
<1>1. q \in Request /\ req \in [Worker -> Request] /\ row \in [RowId -> Row \cup {Unborn}]
  BY DEF IInv, TypeOK
<1>2. /\ req'[w] = Idle /\ \A v \in Others(w) : req'[v] = req[v]
      /\ req' \in [Worker -> Request]
  BY <1>1, IdleOK DEF RollBack, Continue, Others
<1>3. /\ \A x \in RowId : row'[x] = IF x \in q.opened THEN Unborn ELSE row[x]
      /\ row' \in [RowId -> Row \cup {Unborn}]
  BY <1>1 DEF RollBack
<1>4. TypeOK'
  <2>1. task' \in [TaskId -> Task \cup {Unborn, Gone}]
    BY DEF RollBack, IInv, TypeOK
  <2> QED
    BY <1>2, <1>3, <2>1 DEF IInv, TypeOK
<1>5. Idle.opened = {}
  BY DEF Idle
<1>6. HeldSet' = HeldSet
  <2>1. ASSUME NEW x \in RowId PROVE Held(x)' <=> Held(x)
    <3>1. CASE x \in q.opened
      BY <1>3, <3>1 DEF Held, Committed
    <3>2. CASE x \notin q.opened
      BY <1>2, <1>3, <1>5, <3>2 DEF Held, Committed, Others
    <3> QED
      BY <3>1, <3>2
  <2> QED
    BY <2>1 DEF HeldSet
<1>7. \A x \in HeldSet : x \in RowId /\ row'[x] = row[x]
  BY <1>3 DEF HeldSet, Held, Committed
<1>8. ASSUME NEW v \in Worker PROVE LocalOK(req'[v], row', HeldSet')
  <2>1. CASE v = w
    BY <2>1, <1>2, IdleOK
  <2>2. CASE v # w
    <3>1. LocalOK(req[v], row, HeldSet) /\ Apart(q, req[v]) /\ Apart(req[v], q)
      BY <2>2 DEF IInv
    <3>2. \A x \in req[v].opened \cup req[v].shut \cup req[v].closed :
              x \in RowId /\ row'[x] = row[x]
      BY <1>1, <1>3, <3>1 DEF Apart, Request
    <3>3. \A x \in req[v].shut \cup req[v].closed : row[x] \in Row
      BY <3>1 DEF LocalOK, RowsOK
    <3>4. LocalOK(req[v], row', HeldSet')
      BY <1>6, <1>7, <3>1, <3>2, <3>3, LocalKept
    <3> QED
      BY <3>4, <2>2, <1>2 DEF Others
  <2> QED
    BY <2>1, <2>2
<1>9. ASSUME NEW u \in Worker, NEW v \in Worker, u # v PROVE Apart(req'[u], req'[v])
  <2>1. Apart(req[u], req[v]) /\ req[u] \in Request /\ req[v] \in Request
    BY <1>1, <1>9 DEF IInv
  <2> QED
    BY <2>1, <1>2, <1>9, IdleOK DEF Others
<1> QED
  BY <1>4, <1>6, <1>7, <1>8, <1>9 DEF IInv, Steady

LEMMA OpenOK ==
    ASSUME IInv, NEW w \in Worker, Open(w)
    PROVE  IInv' /\ Steady
<1> DEFINE q == req[w]
           x == CHOOSE x \in FreshRows : TRUE
           new(b) == [b |-> b, holder |-> q.who, active |-> TRUE]
           at(b) == IF ToOpen(w) # {b} THEN "assign"
                    ELSE IF q.kind = "import" THEN "replace" ELSE "commit"
           drop(b) == IF ToOpen(w) = {b} THEN q.old \ q.gone ELSE q.drop
           r(b) == [q EXCEPT !.opened = @ \cup {x}, !.shared = @ \cup {b},
                             !.at = at(b), !.drop = drop(b)]
<1>1. /\ q.at = "assign" /\ q \in Request /\ LocalOK(q, row, HeldSet)
      /\ UNCHANGED <<task, left>>
      /\ req \in [Worker -> Request] /\ row \in [RowId -> Row \cup {Unborn}]
  BY RequestOf DEF Open, IInv, TypeOK
<1>2. x \in RowId /\ row[x] = Unborn
  BY DEF Open, FreshRows
<1>3. PICK b \in ToOpen(w) : /\ ShareWaits(w, b) = {}
                             /\ row' = [row EXCEPT ![x] = new(b)]
                             /\ Continue(w, r(b))
  BY <1>1 DEF Open
<1> HIDE DEF x
<1>4. /\ b \in Building /\ b \in q.bs /\ \A y \in q.opened : row[y].b # b
      /\ q.who \in Executive
  BY <1>1 DEF ToOpen, Request, LocalOK, WritesOK
<1>5. new(b) \in Row /\ new(b).b = b /\ new(b).active /\ new(b).holder = q.who
  BY <1>4 DEF Row
<1>6. /\ at(b) \in {"assign", "replace", "commit"} /\ at(b) \in Step
      /\ drop(b) \in SUBSET TaskId
      /\ at(b) # "assign" => \A c \in q.bs : c = b \/ \E y \in q.opened : row[y].b = c
  BY <1>1 DEF Step, Request, ToOpen
<1> HIDE DEF new, at, drop
<1>7. r(b) \in Request
  <2>1. q.opened \cup {x} \in SUBSET RowId /\ q.shared \cup {b} \in SUBSET Building
    BY <1>1, <1>2, <1>4 DEF Request
  <2> QED
    BY <1>1, <1>6, <2>1 DEF Request
<1>8. /\ r(b).at = at(b) /\ r(b).opened = q.opened \cup {x} /\ r(b).shared = q.shared \cup {b}
      /\ r(b).kind = q.kind /\ r(b).actor = q.actor /\ r(b).who = q.who
      /\ r(b).bs = q.bs /\ r(b).plan = q.plan /\ r(b).task = q.task
      /\ r(b).seen = q.seen /\ r(b).moved = q.moved /\ r(b).shut = q.shut
      /\ r(b).closed = q.closed /\ r(b).locked = q.locked
  BY <1>1 DEF Request
<1>9. /\ req'[w] = r(b) /\ \A v \in Others(w) : req'[v] = req[v]
      /\ req' \in [Worker -> Request]
  BY <1>1, <1>3, <1>7 DEF Continue, Others
<1> HIDE DEF r
<1>10. /\ row' \in [RowId -> Row \cup {Unborn}] /\ row'[x] = new(b)
       /\ \A y \in RowId : y # x => row'[y] = row[y]
  BY <1>1, <1>2, <1>3, <1>5
<1>11. TypeOK'
  BY <1>1, <1>9, <1>10 DEF IInv, TypeOK
\* The row was nobody's.
<1>12. ASSUME NEW v \in Worker
       PROVE  /\ x \notin req[v].opened \cup req[v].shut \cup req[v].closed
              /\ \A y \in req[v].opened \cup req[v].shut \cup req[v].closed :
                     y \in RowId /\ row[y] \in Row /\ row'[y] = row[y]
  <2>1. \A y \in req[v].opened \cup req[v].shut \cup req[v].closed : y \in RowId /\ row[y] \in Row
    BY <1>1, RequestOf DEF LocalOK, RowsOK, Request
  <2> QED
    BY <2>1, <1>2, <1>10, UnbornIsNoRow
<1>13. HeldSet' = HeldSet
  <2>1. ASSUME NEW y \in RowId PROVE Held(y)' <=> Held(y)
    <3>1. CASE y = x
      BY <1>2, <1>8, <1>9, <3>1 DEF Held, Committed
    <3>2. CASE y # x
      BY <1>8, <1>9, <1>10, <3>2 DEF Held, Committed, Others
    <3> QED
      BY <3>1, <3>2
  <2> QED
    BY <2>1 DEF HeldSet
<1>14. \A y \in HeldSet : y \in RowId /\ row'[y] = row[y]
  BY <1>2, <1>10 DEF HeldSet, Held, Committed
<1>15. LocalOK(r(b), row', HeldSet')
  <2>1. WritesOK(r(b))
    BY <1>1, <1>6, <1>8 DEF LocalOK, WritesOK
  <2>2. RowsOK(r(b), row')
    <3>1. r(b).opened # {} => r(b).at \in Opening
      BY <1>6, <1>8 DEF Opening
    <3>2. \A y \in r(b).opened : /\ row'[y] \in Row
                                 /\ row'[y].active /\ row'[y].holder = r(b).who
                                 /\ row'[y].b \in r(b).bs \cap r(b).shared
      BY <1>1, <1>4, <1>5, <1>8, <1>10, <1>12 DEF LocalOK, RowsOK
    <3>3. \A y, z \in r(b).opened : row'[y].b = row'[z].b => y = z
      BY <1>1, <1>4, <1>5, <1>8, <1>10, <1>12 DEF LocalOK, RowsOK
    <3>4. \A y \in r(b).shut \cup r(b).closed :
              row'[y] \in Row /\ row'[y].b \in r(b).bs /\ y \notin r(b).opened
      BY <1>1, <1>8, <1>12 DEF LocalOK, RowsOK
    <3>5. r(b).at # "assign" => \A c \in r(b).bs : \E y \in r(b).opened : row'[y].b = c
      BY <1>5, <1>6, <1>8, <1>10, <1>12
    <3> QED
      BY <3>1, <3>2, <3>3, <3>4, <3>5 DEF RowsOK
  <2>3. LeaderOK(q, row, HeldSet)
    BY <1>1 DEF LocalOK
  <2>4. ASSUME r(b).actor \in Leader
        PROVE  /\ q.bs \subseteq q.locked
               /\ \A y \in q.shut \cup q.closed : row'[y].holder \in Team[q.actor]
               /\ \A y \in HeldSet' : row'[y].b \in q.bs => y \in q.closed
    BY <1>1, <1>8, <1>12, <1>13, <1>14, <2>3, <2>4 DEF LeaderOK, Opening
  <2>5. LeaderOK(r(b), row', HeldSet')
    BY <1>6, <1>8, <2>4 DEF LeaderOK, Locked, Opening
  <2> QED
    BY <2>1, <2>2, <2>5 DEF LocalOK
<1>16. ASSUME NEW v \in Worker PROVE LocalOK(req'[v], row', HeldSet')
  <2>1. CASE v = w
    BY <2>1, <1>9, <1>15
  <2>2. CASE v # w
    <3>1. LocalOK(req[v], row, HeldSet)
      BY DEF IInv
    <3>2. LocalOK(req[v], row', HeldSet')
      BY <1>12, <1>13, <1>14, <3>1, LocalKept
    <3> QED
      BY <3>2, <2>2, <1>9 DEF Others
  <2> QED
    BY <2>1, <2>2
<1>17. ASSUME NEW u \in Worker, NEW v \in Worker, u # v PROVE Apart(req'[u], req'[v])
  <2>1. ASSUME NEW y \in Others(w) PROVE Apart(r(b), req[y]) /\ Apart(req[y], r(b))
    <3>1. Apart(q, req[y]) /\ Apart(req[y], q) /\ y \in Worker
      BY <1>1 DEF IInv, Others
    <3>2. b \notin req[y].locked
      BY <1>3 DEF ShareWaits
    <3> QED
      BY <1>8, <1>12, <3>1, <3>2 DEF Apart
  <2>2. Apart(req[u], req[v])
    BY <1>17 DEF IInv
  <2> QED
    BY <2>1, <2>2, <1>9, <1>17 DEF Others
<1> QED
  BY <1>11, <1>13, <1>14, <1>16, <1>17 DEF IInv, Steady

\* What a commit makes of the assignments.
LEMMA CommitOK ==
    ASSUME IInv, NEW w \in Worker, Commit(w)
    PROVE  /\ IInv'
           /\ HeldSet' = (HeldSet \ req[w].closed) \cup req[w].opened
           /\ \A x \in RowId : x \notin req[w].closed => row'[x] = row[x]
           /\ \A x \in HeldSet \cup req[w].opened : row'[x].b = row[x].b
<1> DEFINE q == req[w]
           r == IF q.kind # "plan" THEN Idle
                ELSE [Idle EXCEPT !.at = "create", !.kind = "plan", !.actor = q.actor,
                                  !.who = q.who, !.plan = q.plan]
<1>1. /\ q.at = "commit" /\ q \in Request /\ LocalOK(q, row, HeldSet) /\ left' = left
      /\ req \in [Worker -> Request] /\ row \in [RowId -> Row \cup {Unborn}]
      /\ task \in [TaskId -> Task \cup {Unborn, Gone}]
  BY RequestOf DEF Commit, IInv, TypeOK
<1>2. q.closed \subseteq RowId /\ q.opened \subseteq RowId /\ \A x \in q.closed : row[x] \in Row
  BY <1>1 DEF LocalOK, RowsOK, Request
<1>3. /\ row' \in [RowId -> Row \cup {Unborn}]
      /\ \A x \in RowId : x \notin q.closed => row'[x] = row[x]
      /\ \A x \in q.closed : /\ row'[x] \in Row /\ row'[x].active = FALSE
                             /\ row'[x].b = row[x].b /\ row'[x].holder = row[x].holder
  <2>1. row' = [x \in RowId |-> IF x \in q.closed THEN [row[x] EXCEPT !.active = FALSE] ELSE row[x]]
    BY DEF Commit
  <2>2. \A x \in q.closed : /\ [row[x] EXCEPT !.active = FALSE] \in Row
                            /\ [row[x] EXCEPT !.active = FALSE].active = FALSE
                            /\ [row[x] EXCEPT !.active = FALSE].b = row[x].b
                            /\ [row[x] EXCEPT !.active = FALSE].holder = row[x].holder
    BY <1>2 DEF Row
  <2> QED
    BY <1>1, <1>2, <2>1, <2>2
<1>4. task' \in [TaskId -> Task \cup {Unborn, Gone}]
  <2>1. q.moved => Moved(q) \in Task
    <3>1. q.moved => /\ q.who \in Executive /\ q.seen \in Task
                     /\ (CHOOSE b \in q.plan : TRUE) \in Building
      BY <1>1 DEF LocalOK, WritesOK, Request
    <3> QED
      BY <3>1 DEF Moved, Task
  <2>2. task' = [t \in TaskId |-> IF t \in q.gone THEN Gone
                                 ELSE IF q.moved /\ t = q.task THEN Moved(q) ELSE task[t]]
    BY DEF Commit
  <2> QED
    BY <1>1, <2>1, <2>2
<1>5. Continue(w, r)
  BY DEF Commit
<1>6. r \in Request /\ LocalOK(r, row', HeldSet') /\ \A u \in Request : Apart(r, u) /\ Apart(u, r)
  <2>1. CASE q.kind # "plan"
    BY <2>1, IdleOK
  <2>2. CASE q.kind = "plan"
    <3>1. q.who \in Executive /\ q.actor \in Actor /\ q.who \in Team[q.actor]
      BY <1>1, <2>2 DEF LocalOK, WritesOK
    <3>2. r \in Request
      <4>1. q.plan \in SUBSET Building /\ "plan" \in Kind /\ "create" \in Step
        BY <1>1 DEF Request, Kind, Step
      <4>2. [Idle EXCEPT !.at = "create", !.kind = "plan", !.actor = q.actor,
                         !.who = q.who, !.plan = q.plan] \in Request
        BY <3>1, <4>1, IdleOK DEF Request
      <4> QED
        BY <2>2, <4>2
    <3>3. /\ r.at = "create" /\ r.kind = "plan" /\ r.who = q.who /\ r.actor = q.actor
          /\ r.moved = FALSE /\ r.opened = {} /\ r.shut = {} /\ r.closed = {}
          /\ r.locked = {} /\ r.shared = {}
      BY <2>2 DEF Idle
    <3> HIDE DEF r
    <3>4. LocalOK(r, row', HeldSet')
      BY <3>1, <3>3 DEF LocalOK, WritesOK, RowsOK, LeaderOK, Locked, Opening
    <3>5. \A u \in Request : Apart(r, u) /\ Apart(u, r)
      BY <3>3 DEF Apart
    <3> QED
      BY <3>2, <3>4, <3>5
  <2> QED
    BY <2>1, <2>2
<1>7. r.opened = {}
  BY DEF Idle
<1> HIDE DEF r
<1>8. /\ req'[w] = r /\ \A v \in Others(w) : req'[v] = req[v]
      /\ req' \in [Worker -> Request]
  BY <1>1, <1>5, <1>6 DEF Continue, Others
<1>9. TypeOK'
  BY <1>1, <1>3, <1>4, <1>8 DEF IInv, TypeOK
<1>10. HeldSet' = (HeldSet \ q.closed) \cup q.opened
  <2>1. ASSUME NEW x \in RowId, Held(x)', x \notin q.opened PROVE Held(x) /\ x \notin q.closed
    <3>1. x \notin q.closed /\ row'[x] = row[x]
      BY <1>3, <2>1 DEF Held
    <3>2. \A v \in Worker : x \notin req[v].opened
      BY <1>8, <2>1 DEF Held, Committed, Others
    <3> QED
      BY <2>1, <3>1, <3>2 DEF Held, Committed
  <2>2. ASSUME NEW x \in RowId, Held(x), x \notin q.closed PROVE Held(x)'
    BY <1>3, <1>7, <1>8, <2>2 DEF Held, Committed, Others
  <2>3. ASSUME NEW x \in q.opened PROVE x \in RowId /\ Held(x)'
    <3>1. x \in RowId /\ x \notin q.closed /\ row[x] \in Row /\ row[x].active
      BY <1>1, <1>2, <2>3 DEF LocalOK, RowsOK
    <3>2. \A v \in Others(w) : x \notin req[v].opened
      BY <2>3 DEF IInv, Apart, Others
    <3> QED
      BY <1>3, <1>7, <1>8, <3>1, <3>2, UnbornIsNoRow DEF Held, Committed, Others
  <2> QED
    BY <2>1, <2>2, <2>3 DEF HeldSet
<1>11. \A x \in HeldSet \cup q.opened : x \in RowId /\ row'[x].b = row[x].b
  BY <1>2, <1>3 DEF HeldSet
<1>12. ASSUME NEW v \in Worker PROVE LocalOK(req'[v], row', HeldSet')
  <2>1. CASE v = w
    BY <2>1, <1>6, <1>8
  <2>2. CASE v # w
    <3>1. /\ LocalOK(req[v], row, HeldSet) /\ Apart(q, req[v]) /\ Apart(req[v], q)
          /\ req[v] \in Request
      BY <2>2, <1>1 DEF IInv
    <3>2. \A x \in req[v].opened : row'[x] = row[x]
      BY <1>3, <3>1 DEF Apart, Request
    <3>3. \A x \in req[v].shut \cup req[v].closed :
              /\ row'[x] \in Row
              /\ row'[x].b = row[x].b /\ row'[x].holder = row[x].holder
      BY <1>3, <3>1 DEF LocalOK, RowsOK, Request
    <3>4. ASSUME NEW x \in HeldSet'
          PROVE  \/ x \in HeldSet /\ row'[x].b = row[x].b /\ row'[x].holder = row[x].holder
                 \/ req[v].actor \in Leader /\ req[v].at \in Locked \cup Opening
                        => row'[x].b \notin req[v].bs
      <4>1. CASE x \in HeldSet \ q.closed
        BY <4>1, <1>3 DEF HeldSet
      <4>2. CASE x \in q.opened
        <5>1. row'[x].b \in q.shared
          BY <4>2, <1>1, <1>11 DEF LocalOK, RowsOK
        <5>2. req[v].actor \in Leader /\ req[v].at \in Locked \cup Opening
                  => req[v].bs \subseteq req[v].locked
          BY <3>1 DEF LocalOK, LeaderOK
        <5> QED
          BY <5>1, <5>2, <3>1 DEF Apart
      <4> QED
        BY <1>10, <4>1, <4>2
    <3>5. LocalOK(req[v], row', HeldSet')
      BY <3>1, <3>2, <3>3, <3>4, LocalKept
    <3> QED
      BY <3>5, <2>2, <1>8 DEF Others
  <2> QED
    BY <2>1, <2>2
<1>13. ASSUME NEW u \in Worker, NEW v \in Worker, u # v PROVE Apart(req'[u], req'[v])
  <2>1. Apart(req[u], req[v]) /\ req[u] \in Request /\ req[v] \in Request
    BY <1>1, <1>13 DEF IInv
  <2> QED
    BY <2>1, <1>6, <1>8, <1>13 DEF Others
<1> QED
  BY <1>3, <1>9, <1>10, <1>11, <1>12, <1>13 DEF IInv

-----------------------------------------------------------------------------
(* The invariant.                                                          *)

LEMMA InitOK == ASSUME Init PROVE IInv
<1>1. TypeOK
  BY IdleOK, BuildingHandoverAssumption DEF Init, TypeOK
<1>2. \A w \in Worker : req[w] = Idle
  BY DEF Init
<1> QED
  BY <1>1, <1>2, IdleOK DEF IInv

\* Every step but a commit leaves the assignments as others see them.
LEMMA StepOK ==
    ASSUME IInv, [Next]_vars
    PROVE  /\ IInv'
           /\ \/ Steady
              \/ \E w \in Worker : Commit(w)
<1>1. CASE UNCHANGED vars
  <2>1. TypeOK' /\ HeldSet' = HeldSet /\ row' = row /\ req' = req
    BY <1>1 DEF vars, IInv, TypeOK, HeldSet, Held, Committed
  <2> QED
    BY <2>1 DEF IInv, Steady
<1>2. ASSUME NEW w \in Worker, Receive(w) PROVE IInv' /\ Steady
  <2>1. PICK a \in Actor :
            \/ \E bs \in (SUBSET Building) \ {{}}, e \in Executive :
                  StartAssign(w, a, bs, e) \/ StartImport(w, a, bs, e)
            \/ \E b \in Building, e \in Executive : StartPlan(w, a, b, e)
            \/ \E t \in TaskId, b \in Building, e \in Executive : StartMove(w, a, t, b, e)
            \/ \E t \in TaskId : StartDelete(w, a, t)
    BY <1>2 DEF Receive
  <2> QED
    BY <2>1, StartAssignOK, StartImportOK, StartPlanOK, StartMoveOK, StartDeleteOK
<1>3. ASSUME NEW w \in Worker, Proceed(w), ~Commit(w) PROVE IInv' /\ Steady
  <2>1. CASE Recheck(w)
    <3>1. CASE RollBack(w)
      BY <2>1, <3>1, RollBackOK DEF Recheck
    <3>2. CASE ~RollBack(w)
      BY <2>1, <3>2, RecheckOK
    <3> QED
      BY <3>1, <3>2
  <2>2. CASE ~Recheck(w)
    BY <1>3, <2>2, CheckTargetOK, FindReplaceableOK, LockTaskOK, OverwriteOK,
       WriteTaskOK, DropTaskOK, LockBuildingOK, FindPrevOK, FindStrandedOK, DropOK,
       FindActiveOK, CloseOK, OpenOK, PlantOK, CreateTaskOK DEF Proceed
  <2> QED
    BY <2>1, <2>2
<1>4. ASSUME NEW w \in Worker, BreakDeadlock(w) \/ Fail(w) PROVE IInv' /\ Steady
  BY <1>4, RollBackOK DEF BreakDeadlock, Fail
<1>5. ASSUME NEW w \in Worker, Commit(w) PROVE IInv'
  BY <1>5, CommitOK
<1> QED
  BY <1>1, <1>2, <1>3, <1>4, <1>5 DEF Next

\* Tables and requests keep their types, and every request its locals in the
\* order its later statements rely on.
THEOREM TypeCorrect == Spec => []TypeOK
<1>1. Init => IInv
  BY InitOK
<1>2. IInv /\ [Next]_vars => IInv'
  BY StepOK
<1>3. IInv => TypeOK
  BY DEF IInv
<1> QED
  BY <1>1, <1>2, <1>3, PTL DEF Spec

\* However many requests of whatever kind overlap, no team leader's hand-over ends
\* an assignment held by somebody outside the team: reassign locks the buildings
\* and looks at their holders again.
THEOREM LeadersTakeOnlyTheirOwn == Spec => LeaderTakesOnlyOwn
<1>1. ASSUME IInv, [Next]_vars
      PROVE  \A r \in RowId : Held(r) /\ ~row'[r].active =>
                 \E w \in Worker :
                     /\ r \in req[w].closed
                     /\ req[w].actor \in Leader => row[r].holder \in Team[req[w].actor]
  <2> SUFFICES ASSUME NEW x \in RowId, Held(x), ~row'[x].active
               PROVE  \E w \in Worker :
                          /\ x \in req[w].closed
                          /\ req[w].actor \in Leader => row[x].holder \in Team[req[w].actor]
    OBVIOUS
  <2>1. ~Steady
    BY DEF Steady, HeldSet, Held
  <2>2. PICK w \in Worker : Commit(w)
    BY <1>1, <2>1, StepOK
  <2>3. x \in req[w].closed
    BY <1>1, <2>2, CommitOK DEF Held
  <2>4. req[w].actor \in Leader => row[x].holder \in Team[req[w].actor]
    BY <1>1, <2>3 DEF IInv, LocalOK, LeaderOK
  <2> QED
    BY <2>3, <2>4
<1>2. Init => IInv
  BY InitOK
<1>3. IInv /\ [Next]_vars => IInv'
  BY StepOK
<1> QED
  BY <1>1, <1>2, <1>3, PTL DEF Spec, LeaderTakesOnlyOwn

\* Nobody ever sees a building between two holders, whoever hands it over: a
\* commit closes a building's rows only with a new one in their place.
THEOREM HeldBuildingsStayHeld == Spec => HeldStaysHeld
<1>1. ASSUME IInv, [Next]_vars
      PROVE  \A b \in Building : HeldRows(b) # {} => HeldRows(b)' # {}
  <2> SUFFICES ASSUME NEW b \in Building, NEW x \in RowId, Held(x), row[x].b = b
               PROVE  \E y \in RowId : Held(y)' /\ row'[y].b = b
    BY DEF HeldRows
  <2>1. CASE Steady
    BY <2>1 DEF Steady, HeldSet
  <2>2. ASSUME NEW w \in Worker, Commit(w)
        PROVE  \E y \in RowId : Held(y)' /\ row'[y].b = b
    <3> DEFINE q == req[w]
    <3>1. /\ HeldSet' = (HeldSet \ q.closed) \cup q.opened
          /\ \A y \in HeldSet \cup q.opened : row'[y].b = row[y].b
      BY <1>1, <2>2, CommitOK
    <3>2. CASE x \notin q.closed
      BY <3>1, <3>2 DEF HeldSet
    <3>3. CASE x \in q.closed
      <4>1. PICK y \in q.opened : row[y].b = b
        BY <1>1, <2>2, <3>3, RequestOf DEF Commit, LocalOK, RowsOK
      <4> QED
        BY <3>1, <4>1 DEF HeldSet
    <3> QED
      BY <3>2, <3>3
  <2> QED
    BY <1>1, <2>1, <2>2, StepOK
<1>2. Init => IInv
  BY InitOK
<1>3. IInv /\ [Next]_vars => IInv'
  BY StepOK
<1> QED
  BY <1>1, <1>2, <1>3, PTL DEF Spec, HeldStaysHeld

-----------------------------------------------------------------------------
(* Team leaders only.                                                      *)

\* What a leader's commit closes and opens.
LEMMA LeaderCommit ==
    ASSUME Manager = {}, IInv, NEW w \in Worker, Commit(w)
    PROVE  /\ req[w].actor \in Leader
           /\ \A x \in HeldSet : row[x].b \in req[w].bs => x \in req[w].closed
           /\ \A x \in req[w].closed : /\ row[x].b \in req[w].bs
                                      /\ row[x].holder \in Team[req[w].actor]
           /\ \A x \in req[w].opened : row[x].b \in req[w].bs /\ row[x].holder = req[w].who
           /\ \A x, y \in req[w].opened : row[x].b = row[y].b => x = y
           /\ \A b \in req[w].bs : \E x \in req[w].opened : row[x].b = b
<1>1. req[w].actor \in Leader /\ req[w].at \in Opening /\ LocalOK(req[w], row, HeldSet)
  BY RequestOf DEF Commit, Opening, LocalOK, WritesOK, Actor
<1>2. RowsOK(req[w], row) /\ LeaderOK(req[w], row, HeldSet) /\ req[w].at = "commit"
  BY <1>1 DEF LocalOK, Commit
<1> QED
  BY <1>1, <1>2 DEF RowsOK, LeaderOK

LEMMA OneHolderStep ==
    ASSUME Manager = {}, IInv, OneHolder, [Next]_vars
    PROVE  OneHolder'
<1>1. CASE Steady
  BY <1>1 DEF Steady, OneHolder, HeldSet
<1>2. ASSUME NEW w \in Worker, Commit(w) PROVE OneHolder'
  <2>1. /\ HeldSet' = (HeldSet \ req[w].closed) \cup req[w].opened
        /\ \A x \in HeldSet \cup req[w].opened : row'[x].b = row[x].b
    BY <1>2, CommitOK
  <2>2. \A x, y \in HeldSet : row[x].b = row[y].b => x = y
    BY DEF OneHolder, HeldSet
  <2>3. \A x, y \in HeldSet' : row'[x].b = row'[y].b => x = y
    BY <1>2, <2>1, <2>2, LeaderCommit
  <2> QED
    BY <2>3 DEF OneHolder, HeldSet
<1> QED
  BY <1>1, <1>2, StepOK

LEMMA OneHolderInit == ASSUME Init PROVE OneHolder
  BY FirstHolderAssumption DEF Init, OneHolder, Held, Committed

\* As long as only team leaders assign, no two ACTIVE rows of a building are ever
\* committed, however many leaders share it.
THEOREM LeadersKeepOneHolder ==
    ASSUME Manager = {}
    PROVE  Spec => []OneHolder
<1>1. Init => IInv /\ OneHolder
  BY InitOK, OneHolderInit
<1>2. IInv /\ OneHolder /\ [Next]_vars => IInv' /\ OneHolder'
  BY OneHolderStep, StepOK
<1> QED
  BY <1>1, <1>2, PTL DEF Spec

\* With one holder, the register shows that row's holder.
LEMMA HolderIs ==
    ASSUME OneHolder, NEW x \in HeldSet, row[x].b \in Building
    PROVE  Holder[row[x].b] = row[x].holder
<1>1. x \in HeldRows(row[x].b)
  BY DEF HeldSet, HeldRows
<1>2. (CHOOSE y \in HeldRows(row[x].b) : TRUE) = x
  BY <1>1 DEF OneHolder, HeldRows
<1> QED
  BY <1>1, <1>2 DEF Holder

LEMMA HolderIsNone ==
    ASSUME NEW b \in Building, \A x \in HeldSet : row[x].b # b
    PROVE  Holder[b] = None
  BY DEF Holder, HeldRows, HeldSet

LEMMA HolderType ==
    ASSUME IInv
    PROVE  Holder \in [Building -> Executive \cup {None}]
<1>1. ASSUME NEW b \in Building PROVE Holder[b] \in Executive \cup {None}
  <2>1. CASE HeldRows(b) = {}
    BY <2>1 DEF Holder
  <2>2. CASE HeldRows(b) # {}
    <3>1. (CHOOSE x \in HeldRows(b) : TRUE) \in HeldRows(b)
      BY <2>2
    <3>2. \A x \in HeldRows(b) : row[x] \in Row
      BY DEF HeldRows, Held, Committed, IInv, TypeOK
    <3> QED
      BY <2>2, <3>1, <3>2 DEF Holder, Row
  <2> QED
    BY <2>1, <2>2
<1> QED
  BY <1>1 DEF Holder

\* As long as only team leaders assign, hand-overs implement the register: each is
\* one atomic assignment of all its buildings.
THEOREM LeadersImplementRegister ==
    ASSUME Manager = {}
    PROVE  Spec => ImplementsRegister
<1>1. Init => IInv /\ OneHolder
  BY InitOK, OneHolderInit
<1>2. IInv /\ OneHolder /\ [Next]_vars => IInv' /\ OneHolder'
  BY OneHolderStep, StepOK
<1>3. IInv => Register!Init
  BY HolderType DEF Register!Init
<1>4. ASSUME IInv, OneHolder, [Next]_vars PROVE [Register!Next]_Holder
  <2>1. CASE Steady
    <3>1. ASSUME NEW b \in Building PROVE Holder'[b] = Holder[b]
      <4>1. HeldRows(b)' = HeldRows(b)
        BY <2>1 DEF Steady, HeldSet, HeldRows
      <4>2. \A x \in HeldRows(b) : row'[x] = row[x]
        BY <2>1 DEF Steady, HeldSet, HeldRows
      <4>3. HeldRows(b) # {} => (CHOOSE x \in HeldRows(b) : TRUE) \in HeldRows(b)
        OBVIOUS
      <4> QED
        BY <4>1, <4>2, <4>3 DEF Holder
    <3> QED
      BY <3>1 DEF Holder
  <2>2. ASSUME NEW w \in Worker, Commit(w) PROVE [Register!Next]_Holder
    <3> DEFINE q == req[w]
    <3>1. /\ HeldSet' = (HeldSet \ q.closed) \cup q.opened
          /\ \A x \in RowId : x \notin q.closed => row'[x] = row[x]
          /\ \A x \in HeldSet \cup q.opened : row'[x].b = row[x].b
      BY <1>4, <2>2, CommitOK
    <3>2. /\ q.actor \in Leader
          /\ \A x \in HeldSet : row[x].b \in q.bs => x \in q.closed
          /\ \A x \in q.closed : row[x].b \in q.bs /\ row[x].holder \in Team[q.actor]
          /\ \A x \in q.opened : row[x].b \in q.bs /\ row[x].holder = q.who
          /\ \A b \in q.bs : \E x \in q.opened : row[x].b = b
      BY <1>4, <2>2, LeaderCommit
    <3>3. q \in Request /\ LocalOK(q, row, HeldSet) /\ OneHolder'
      BY <1>4, RequestOf, OneHolderStep
    <3>4. q.bs \subseteq Building /\ q.closed \cap q.opened = {} /\ q.opened \subseteq RowId
      BY <3>3 DEF Request, LocalOK, RowsOK
    <3>5. ASSUME NEW b \in q.bs PROVE Holder[b] \in Team[q.actor] \cup {None}
      <4>1. CASE \E x \in HeldSet : row[x].b = b
        BY <4>1, <1>4, <3>2, <3>4, HolderIs
      <4>2. CASE ~\E x \in HeldSet : row[x].b = b
        BY <4>2, <3>4, HolderIsNone
      <4> QED
        BY <4>1, <4>2
    <3>6. ASSUME NEW b \in q.bs PROVE Holder'[b] = q.who
      <4>1. PICK x \in q.opened : row[x].b = b
        BY <3>2
      <4>2. x \in HeldSet' /\ row'[x] = row[x] /\ b \in Building
        BY <3>1, <3>4, <4>1
      <4>3. HeldSet' = {y \in RowId : Held(y)'}
        BY DEF HeldSet
      <4>4. \A y \in HeldSet' : row'[y].b = b => y = x
        BY <3>3, <4>1, <4>2, <4>3 DEF OneHolder
      <4>5. HeldRows(b)' = {x}
        BY <4>1, <4>2, <4>3, <4>4 DEF HeldRows
      <4>6. Holder'[b] = row'[CHOOSE y \in {x} : TRUE].holder
        BY <4>2, <4>5 DEF Holder
      <4> QED
        BY <3>2, <4>1, <4>2, <4>6
    <3>7. ASSUME NEW b \in Building \ q.bs PROVE Holder'[b] = Holder[b]
      <4>1. HeldSet = {y \in RowId : Held(y)} /\ HeldSet' = {y \in RowId : Held(y)'}
        BY DEF HeldSet
      <4>2. HeldRows(b)' = HeldRows(b)
        BY <3>1, <3>2, <4>1 DEF HeldRows
      <4>3. \A x \in HeldRows(b) : row'[x] = row[x]
        BY <3>1, <3>2 DEF HeldRows
      <4>4. HeldRows(b) # {} => (CHOOSE x \in HeldRows(b) : TRUE) \in HeldRows(b)
        OBVIOUS
      <4> QED
        BY <4>2, <4>3, <4>4 DEF Holder
    <3>8. CASE q.bs = {}
      <4>1. \A b \in Building : Holder'[b] = Holder[b]
        BY <3>7, <3>8
      <4> QED
        BY <4>1 DEF Holder
    <3>9. CASE q.bs # {}
      <4>1. q.who \in Team[q.actor] /\ q.who \in Executive
        BY <2>2, <3>3, <3>9 DEF Commit, LocalOK, WritesOK
      <4>2. Holder' = [b \in Building |-> IF b \in q.bs THEN q.who ELSE Holder[b]]
        BY <3>6, <3>7 DEF Holder
      <4>3. Register!Assign(q.actor, q.bs, q.who)
        BY <3>5, <4>1, <4>2 DEF Register!Assign
      <4> QED
        BY <3>2, <3>4, <4>1, <4>3 DEF Register!Next
    <3> QED
      BY <3>8, <3>9
  <2> QED
    BY <1>4, <2>1, <2>2, StepOK
<1>5. IInv /\ OneHolder /\ [Next]_vars => [Register!Next]_Holder
  BY <1>4
<1> QED
  BY <1>1, <1>2, <1>3, <1>5, PTL DEF Spec, ImplementsRegister, Register!Spec

-----------------------------------------------------------------------------
(* What becomes of the tasks.                                              *)

(* The tables as others see them.                                          *)

IsReal(tasks, t) == tasks[t] \notin {Unborn, Gone}
HeldBy(b, e, rows, H) == \E x \in H : rows[x].b = b /\ rows[x].holder = e

\* One holder for each building, no task of anybody else there, no task twice:
\* H are the assignments that others see, born the tasks they do not see.
PlanIsSound(rows, H, tasks, born) ==
    /\ \A x, y \in H : rows[x].b = rows[y].b => x = y
    /\ \A t \in TaskId \ born : IsReal(tasks, t) => HeldBy(tasks[t].b, tasks[t].who, rows, H)
    /\ \A t, u \in TaskId \ born :
           /\ IsReal(tasks, t) /\ IsReal(tasks, u)
           /\ tasks[t].who = tasks[u].who /\ tasks[t].b = tasks[u].b
           => t = u

-----------------------------------------------------------------------------
(* What a request that has the tables to itself has found out about them.  *)

\* Buildings it does not hand over are the person's already, and a visit planned
\* by hand is not planned yet.
SiteFits(r, rows, H, tasks) ==
    /\ \A b \in r.plan \ r.bs : HeldBy(b, r.who, rows, H)
    /\ r.at = "create" => r.kind = "plan" /\ r.bs = {}
    /\ r.kind = "plan" => r.task = None
    /\ r.kind \in {"plan", "move"} =>
           /\ \E b \in Building : r.plan = {b}
           /\ r.born = {}
           /\ r.at # "target" =>
                  \A t \in TaskId \ {r.task} : IsReal(tasks, t) /\ tasks[t].who = r.who => tasks[t].b \notin r.plan

\* An import replaces all that the person has planned by a task per building.
SheetFits(r, tasks) ==
    /\ r.old # {} \/ r.born # {} \/ r.at \in {"replaceable", "replace", "plant"} => r.kind = "import"
    /\ r.born # {} => r.at \in {"plant", "commit"}
    /\ \A t \in r.born : IsReal(tasks, t) /\ tasks[t].who = r.who /\ tasks[t].b \in r.plan
    /\ \A t, u \in r.born : tasks[t].b = tasks[u].b => t = u
    /\ \A t \in r.old : IsReal(tasks, t) /\ tasks[t].who = r.who
    /\ r.old \cap r.born = {}
    /\ r.kind = "import" /\ r.at # "replaceable" =>
           \A t \in TaskId \ r.born : IsReal(tasks, t) /\ tasks[t].who = r.who => t \in r.old
    /\ r.kind = "import" /\ r.at = "replace" => r.old \subseteq r.drop \cup r.gone
    /\ r.kind = "import" /\ r.at \in {"plant", "commit"} => r.old \subseteq r.gone

\* A task of somebody else's at a building that is handed over.
Stranded(r, tasks, t) ==
    /\ IsReal(tasks, t) /\ t \notin r.born
    /\ tasks[t].b \in r.bs /\ tasks[t].who # r.who
    /\ ~(r.moved /\ t = r.task)

\* The clean-up finds all of these, and nothing but these and what an import replaces.
DropsFit(r, rows, H, tasks) ==
    /\ r.at \in {"idle", "target", "replaceable", "lock_task", "write_task", "overwrite",
                 "lock", "recheck", "prev", "create"} => r.gone = {} /\ r.drop = {}
    /\ r.at = "stranded" =>
           /\ r.gone = {} /\ r.drop = {}
           /\ \A x \in H : rows[x].b \in r.bs /\ rows[x].holder # r.who => <<rows[x].holder, rows[x].b>> \in r.prev
           /\ \A p \in r.prev : p[1] # r.who /\ p[2] \in r.bs
    /\ r.kind # "delete" =>
           \A t \in r.drop \cup r.gone : /\ IsReal(tasks, t) /\ t \notin r.born
                                         /\ (tasks[t].b \in r.bs /\ tasks[t].who # r.who) \/ t \in r.old
    /\ r.at = "release" => \A t \in TaskId : Stranded(r, tasks, t) => t \in r.drop \cup r.gone
    /\ r.at \in {"close", "closing"} \cup Opening => \A t \in TaskId : Stranded(r, tasks, t) => t \in r.gone
    /\ r.kind = "move" /\ r.at \in {"lock"} \cup Locked \cup Opening => r.moved

\* It closes every assignment of a building it hands over.
ShutsFit(r, rows, H) ==
    /\ r.at \notin {"closing"} \cup Opening => r.shut = {} /\ r.closed = {}
    /\ r.at = "closing" => \A x \in H : rows[x].b \in r.bs => x \in r.shut \cup r.closed
    /\ r.at \in Opening => \A x \in H : rows[x].b \in r.bs => x \in r.closed

TurnOK(r, rows, H, tasks) ==
    SiteFits(r, rows, H, tasks) /\ SheetFits(r, tasks) /\ DropsFit(r, rows, H, tasks) /\ ShutsFit(r, rows, H)

Born == UNION {req[w].born : w \in Worker}

TInv ==
    /\ PlanIsSound(row, HeldSet, task, Born)
    /\ \A w \in Worker : TurnOK(req[w], row, HeldSet, task)

-----------------------------------------------------------------------------
(* Edits, whatever overlaps.                                               *)

\* The task an edit or a deletion writes to is locked as it was read, and the
\* clean-up of the hand-over it brings about is not after it.
EditOK(r, tasks) ==
    /\ r.kind \in {"move", "delete"} =>
           /\ r.task \in TaskId /\ tasks[r.task] # Unborn
           /\ r.born = {} /\ r.old = {}
           /\ r.at \notin {"replaceable", "replace", "plant", "create"}
           /\ r.at \in {"target", "lock_task", "overwrite"} => r.gone = {}
           /\ r.at \notin {"target", "lock_task", "overwrite"} => r.task \in r.held /\ tasks[r.task] = r.seen
    /\ r.kind = "move" =>
           /\ r.task \notin r.drop \cup r.gone
           /\ \A p \in r.prev : p[1] # r.who
           /\ r.at \in {"lock"} \cup Locked \cup Opening => r.moved
    /\ r.gone \subseteq r.held
    /\ r.moved => r.task \in r.held

\* Two requests lock different tasks, and none edits a task another has just made.
EditsApart(r, q) ==
    /\ r.held \cap q.held = {}
    /\ r.kind \in {"move", "delete"} => r.task \notin q.born

EInv ==
    /\ \A w \in Worker : EditOK(req[w], task)
    /\ \A v, w \in Worker : v # w => EditsApart(req[v], req[w])

-----------------------------------------------------------------------------
(* One request at a time.                                                  *)

OneAtATime == \A v, w \in Worker : v = w

\* The plan is sound to begin with.
FirstPlan == PlanIsSound(FirstRow, {x \in RowId : FirstRow[x] # Unborn /\ FirstRow[x].active}, FirstTask, {})

\* The only request sees the tables as they are, but for what it has written.
LEMMA Alone ==
    ASSUME IInv, OneAtATime, NEW w \in Worker
    PROVE  /\ Others(w) = {}
           /\ Born = req[w].born
           /\ HeldSet = {x \in RowId : row[x] # Unborn /\ x \notin req[w].opened /\ row[x].active}
           /\ SeenBy(w) = {t \in TaskId : IsReal(task, t) /\ t \notin req[w].gone}
           /\ \A b : ActiveTo(w, b) = {x \in HeldSet \cup req[w].opened : row[x].b = b /\ x \notin req[w].closed}
<1>1. \A v \in Worker : v = w
  BY DEF OneAtATime
<1>2. Others(w) = {}
  BY <1>1 DEF Others
<1>3. Born = req[w].born
  BY <1>1 DEF Born
<1>4. HeldSet = {x \in RowId : row[x] # Unborn /\ x \notin req[w].opened /\ row[x].active}
  BY <1>1 DEF HeldSet, Held, Committed
<1>5. SeenBy(w) = {t \in TaskId : IsReal(task, t) /\ t \notin req[w].gone}
  BY <1>2 DEF SeenBy, IsTask, IsReal
<1>6. \A x \in req[w].opened : x \in RowId /\ row[x] \in Row /\ row[x].active
  BY RequestOf DEF LocalOK, RowsOK, Request
<1>7. ASSUME NEW b
      PROVE  ActiveTo(w, b) = {x \in HeldSet \cup req[w].opened : row[x].b = b /\ x \notin req[w].closed}
  <2>1. ASSUME NEW x \in ActiveTo(w, b)
        PROVE  x \in HeldSet \cup req[w].opened /\ row[x].b = b /\ x \notin req[w].closed
    BY <1>4 DEF ActiveTo
  <2>2. ASSUME NEW x \in HeldSet \cup req[w].opened, row[x].b = b, x \notin req[w].closed
        PROVE  x \in ActiveTo(w, b)
    BY <1>2, <1>4, <1>6, <2>2, UnbornIsNoRow DEF ActiveTo
  <2> QED
    BY <2>1, <2>2
<1> QED
  BY <1>2, <1>3, <1>4, <1>5, <1>7

LEMMA TurnOf ==
    ASSUME IInv, TInv, OneAtATime, NEW w \in Worker
    PROVE  /\ req[w] \in Request /\ LocalOK(req[w], row, HeldSet)
           /\ SiteFits(req[w], row, HeldSet, task) /\ SheetFits(req[w], task)
           /\ DropsFit(req[w], row, HeldSet, task) /\ ShutsFit(req[w], row, HeldSet)
           /\ PlanIsSound(row, HeldSet, task, req[w].born)
           /\ \A r : Continue(w, r) => req'[w] = r
<1>1. TurnOK(req[w], row, HeldSet, task)
  BY DEF TInv
<1>2. PlanIsSound(row, HeldSet, task, req[w].born)
  BY Alone DEF TInv
<1>3. \A r : Continue(w, r) => req'[w] = r
  BY DEF Continue, IInv, TypeOK
<1> QED
  BY <1>1, <1>2, <1>3, RequestOf DEF TurnOK

\* What a request knows once it has gone on.
LEMMA TurnGoes ==
    ASSUME OneAtATime, NEW w \in Worker,
           PlanIsSound(row', HeldSet', task', req'[w].born),
           SiteFits(req'[w], row', HeldSet', task'), SheetFits(req'[w], task'),
           DropsFit(req'[w], row', HeldSet', task'), ShutsFit(req'[w], row', HeldSet')
    PROVE  TInv'
<1>1. \A v \in Worker : v = w
  BY DEF OneAtATime
<1>2. Born' = req'[w].born
  BY <1>1 DEF Born
<1>3. TurnOK(req'[w], row', HeldSet', task')
  BY DEF TurnOK
<1> QED
  BY <1>1, <1>2, <1>3 DEF TInv

\* A statement that leaves the tables alone.
LEMMA TurnReads ==
    ASSUME IInv, TInv, OneAtATime, NEW w \in Worker, NEW r, Continue(w, r),
           row' = row, task' = task, Steady, r.born = req[w].born,
           SiteFits(r, row, HeldSet, task), SheetFits(r, task),
           DropsFit(r, row, HeldSet, task), ShutsFit(r, row, HeldSet)
    PROVE  TInv'
<1>1. HeldSet' = HeldSet
  BY DEF Steady
<1>2. req'[w] = r /\ PlanIsSound(row, HeldSet, task, r.born)
  BY TurnOf
<1> QED
  BY <1>1, <1>2, TurnGoes

LEMMA IdleFits ==
    ASSUME NEW rows, NEW H, NEW tasks
    PROVE  /\ SiteFits(Idle, rows, H, tasks) /\ SheetFits(Idle, tasks)
           /\ DropsFit(Idle, rows, H, tasks) /\ ShutsFit(Idle, rows, H)
<1>1. /\ Idle.at = "idle" /\ Idle.kind = None /\ Idle.plan = {} /\ Idle.bs = {} /\ Idle.gone = {} /\ Idle.drop = {}
      /\ Idle.born = {} /\ Idle.old = {} /\ Idle.shut = {} /\ Idle.closed = {}
  BY DEF Idle
<1>2. None \notin {"plan", "move", "import", "delete"}
  BY BuildingHandoverAssumption DEF Kind
<1> QED
  BY <1>1, <1>2 DEF SiteFits, SheetFits, DropsFit, ShutsFit, Locked, Opening

\* One that ends without having written anything.
LEMMA TurnEnds ==
    ASSUME IInv, TInv, OneAtATime, NEW w \in Worker, Continue(w, Idle),
           row' = row, task' = task, Steady, req[w].born = {}
    PROVE  TInv'
<1>1. Idle.born = {}
  BY DEF Idle
<1> QED
  BY <1>1, IdleFits, TurnReads

-----------------------------------------------------------------------------
(* The first steps.                                                        *)

\* A request that starts finds the holders others see.
LEMMA StartSees ==
    ASSUME IInv, TInv, OneAtATime, NEW w \in Worker, NEW kind, Start(w, kind)
    PROVE  /\ req[w].born = {} /\ req[w].gone = {}
           /\ \A b : ActiveTo(w, b) = {x \in HeldSet : row[x].b = b}
           /\ \A b, e : e \in HolderSeen(w, b) /\ e # None => HeldBy(b, e, row, HeldSet)
<1>1. req[w].at = "idle"
  BY DEF Start
<1>2. req[w].opened = {} /\ req[w].closed = {} /\ req[w].born = {} /\ req[w].gone = {}
  BY <1>1, TurnOf DEF LocalOK, RowsOK, Opening, ShutsFit, SheetFits, DropsFit
<1>3. ASSUME NEW b PROVE ActiveTo(w, b) = {x \in HeldSet : row[x].b = b}
  BY <1>2, Alone
<1>4. ASSUME NEW b, NEW e, e \in HolderSeen(w, b), e # None PROVE HeldBy(b, e, row, HeldSet)
  BY <1>3, <1>4 DEF HolderSeen, HeldBy
<1> QED
  BY <1>2, <1>3, <1>4

LEMMA TurnStarts ==
    ASSUME IInv, TInv, OneAtATime, NEW w \in Worker, NEW kind, Start(w, kind), NEW r, Continue(w, r),
           row' = row, task' = task, Steady,
           r.gone = {}, r.drop = {}, r.old = {}, r.born = {}, r.shut = {}, r.closed = {},
           r.at \in {"lock", "prev", "target", "replaceable", "lock_task"},
           r.kind = "move" => r.at = "target",
           r.kind = "import" <=> r.at = "replaceable",
           SiteFits(r, row, HeldSet, task)
    PROVE  TInv'
<1>1. SheetFits(r, task)
  BY DEF SheetFits
<1>2. DropsFit(r, row, HeldSet, task)
  BY DEF DropsFit, Locked, Opening
<1>3. ShutsFit(r, row, HeldSet)
  BY DEF ShutsFit, Opening
<1> QED
  BY <1>1, <1>2, <1>3, StartSees, TurnReads

LEMMA StartAssignTurn ==
    ASSUME IInv, TInv, OneAtATime, NEW w \in Worker, NEW a \in Actor, NEW bs \in SUBSET Building,
           NEW e \in Executive, StartAssign(w, a, bs, e)
    PROVE  TInv'
<1>1. PICK r : r = [Idle EXCEPT !.at = Begin(a), !.kind = "assign", !.actor = a, !.who = e, !.bs = bs]
  OBVIOUS
<1>2. /\ r.at \in {"lock", "prev"} /\ r.kind = "assign" /\ r.plan = {}
      /\ r.gone = {} /\ r.drop = {} /\ r.old = {} /\ r.born = {} /\ r.shut = {} /\ r.closed = {}
  BY <1>1 DEF Idle, Begin
<1>3. SiteFits(r, row, HeldSet, task)
  BY <1>2 DEF SiteFits
<1>4. Continue(w, r) /\ Start(w, "assign") /\ row' = row /\ task' = task
  BY <1>1 DEF StartAssign
<1>5. Steady
  BY StartAssignOK
<1> QED
  BY <1>2, <1>3, <1>4, <1>5, TurnStarts

LEMMA StartPlanTurn ==
    ASSUME IInv, TInv, OneAtATime, NEW w \in Worker, NEW a \in Actor, NEW b \in Building,
           NEW e \in Executive, StartPlan(w, a, b, e)
    PROVE  TInv'
<1>1. PICK h \in HolderSeen(w, b) : \E r :
          /\ Continue(w, r)
          /\ r = [Idle EXCEPT !.at = "target", !.kind = "plan", !.actor = a, !.who = e, !.plan = {b},
                              !.bs = IF h = e THEN {} ELSE {b}]
  BY DEF StartPlan
<1>11. PICK r :
          /\ Continue(w, r)
          /\ r = [Idle EXCEPT !.at = "target", !.kind = "plan", !.actor = a, !.who = e, !.plan = {b},
                              !.bs = IF h = e THEN {} ELSE {b}]
  BY <1>1
<1>2. /\ r.at = "target" /\ r.kind = "plan" /\ r.task = None /\ r.plan = {b} /\ r.who = e
      /\ r.bs = IF h = e THEN {} ELSE {b}
      /\ r.gone = {} /\ r.drop = {} /\ r.old = {} /\ r.born = {} /\ r.shut = {} /\ r.closed = {}
  BY <1>11 DEF Idle
<1>3. Start(w, "plan") /\ row' = row /\ task' = task /\ e # None
  BY BuildingHandoverAssumption DEF StartPlan
<1>4. SiteFits(r, row, HeldSet, task)
  BY <1>2, <1>3, StartSees DEF SiteFits
<1>5. Steady
  BY StartPlanOK
<1> QED
  BY <1>11, <1>2, <1>3, <1>4, <1>5, TurnStarts

LEMMA StartMoveTurn ==
    ASSUME IInv, TInv, OneAtATime, NEW w \in Worker, NEW a \in Actor, NEW t \in TaskId,
           NEW b \in Building, NEW e \in Executive, StartMove(w, a, t, b, e)
    PROVE  TInv'
<1>1. PICK h \in HolderSeen(w, b) : \E r :
          /\ Continue(w, r)
          /\ r = [Idle EXCEPT !.at = "target", !.kind = "move", !.actor = a, !.who = e, !.plan = {b},
                              !.task = t, !.seen = task[t],
                              !.bs = IF h = e \/ (e = task[t].who /\ b = task[t].b) THEN {} ELSE {b}]
  BY DEF StartMove
<1>11. PICK r :
          /\ Continue(w, r)
          /\ r = [Idle EXCEPT !.at = "target", !.kind = "move", !.actor = a, !.who = e, !.plan = {b},
                              !.task = t, !.seen = task[t],
                              !.bs = IF h = e \/ (e = task[t].who /\ b = task[t].b) THEN {} ELSE {b}]
  BY <1>1
<1>2. /\ r.at = "target" /\ r.kind = "move" /\ r.plan = {b} /\ r.who = e
      /\ r.bs = IF h = e \/ (e = task[t].who /\ b = task[t].b) THEN {} ELSE {b}
      /\ r.gone = {} /\ r.drop = {} /\ r.old = {} /\ r.born = {} /\ r.shut = {} /\ r.closed = {}
  BY <1>11 DEF Idle
<1>3. Start(w, "move") /\ row' = row /\ task' = task /\ e # None /\ t \in SeenBy(w)
  BY BuildingHandoverAssumption DEF StartMove
<1>4. HeldBy(task[t].b, task[t].who, row, HeldSet)
  BY <1>3, StartSees, Alone, TurnOf DEF PlanIsSound
<1>5. SiteFits(r, row, HeldSet, task)
  BY <1>2, <1>3, <1>4, StartSees DEF SiteFits
<1>6. Steady
  BY StartMoveOK
<1> QED
  BY <1>11, <1>2, <1>3, <1>5, <1>6, TurnStarts

LEMMA StartDeleteTurn ==
    ASSUME IInv, TInv, OneAtATime, NEW w \in Worker, NEW a \in Actor, NEW t \in TaskId, StartDelete(w, a, t)
    PROVE  TInv'
<1>1. PICK r : r = [Idle EXCEPT !.at = "lock_task", !.kind = "delete", !.actor = a, !.task = t, !.seen = task[t]]
  OBVIOUS
<1>2. /\ r.at = "lock_task" /\ r.kind = "delete" /\ r.plan = {}
      /\ r.gone = {} /\ r.drop = {} /\ r.old = {} /\ r.born = {} /\ r.shut = {} /\ r.closed = {}
  BY <1>1 DEF Idle
<1>3. SiteFits(r, row, HeldSet, task)
  BY <1>2 DEF SiteFits
<1>4. Continue(w, r) /\ Start(w, "delete") /\ row' = row /\ task' = task
  BY <1>1 DEF StartDelete
<1>5. Steady
  BY StartDeleteOK
<1> QED
  BY <1>2, <1>3, <1>4, <1>5, TurnStarts

LEMMA StartImportTurn ==
    ASSUME IInv, TInv, OneAtATime, NEW w \in Worker, NEW a \in Actor, NEW plan \in SUBSET Building,
           NEW e \in Executive, StartImport(w, a, plan, e)
    PROVE  TInv'
<1>1. PICK seen \in [plan -> Executive \cup {None}] : \E r :
          /\ \A b \in plan : seen[b] \in HolderSeen(w, b)
          /\ Continue(w, r)
          /\ r = [Idle EXCEPT !.at = "replaceable", !.kind = "import", !.actor = a, !.who = e, !.plan = plan,
                              !.bs = {b \in plan : seen[b] # e}]
  BY DEF StartImport
<1>11. PICK r :
          /\ \A b \in plan : seen[b] \in HolderSeen(w, b)
          /\ Continue(w, r)
          /\ r = [Idle EXCEPT !.at = "replaceable", !.kind = "import", !.actor = a, !.who = e, !.plan = plan,
                              !.bs = {b \in plan : seen[b] # e}]
  BY <1>1
<1>2. /\ r.at = "replaceable" /\ r.kind = "import" /\ r.plan = plan /\ r.who = e
      /\ r.bs = {b \in plan : seen[b] # e}
      /\ r.gone = {} /\ r.drop = {} /\ r.old = {} /\ r.born = {} /\ r.shut = {} /\ r.closed = {}
  BY <1>11 DEF Idle
<1>3. Start(w, "import") /\ row' = row /\ task' = task /\ e # None
  BY BuildingHandoverAssumption DEF StartImport
<1>4. SiteFits(r, row, HeldSet, task)
  BY <1>11, <1>2, <1>3, StartSees DEF SiteFits
<1>5. Steady
  BY StartImportOK
<1> QED
  BY <1>11, <1>2, <1>3, <1>4, <1>5, TurnStarts

-----------------------------------------------------------------------------
(* The checks and the statements on tasks.                                 *)

LEMMA CheckTargetTurn ==
    ASSUME IInv, TInv, OneAtATime, NEW w \in Worker, CheckTarget(w)
    PROVE  TInv'
<1>1. PICK q : q = req[w]
  OBVIOUS
<1>2. /\ q.at = "target" /\ q \in Request /\ row' = row /\ task' = task /\ q.kind \in {"plan", "move"}
      /\ SiteFits(q, row, HeldSet, task) /\ SheetFits(q, task)
      /\ DropsFit(q, row, HeldSet, task) /\ ShutsFit(q, row, HeldSet)
  BY <1>1, TurnOf DEF CheckTarget, LocalOK, WritesOK
<1>3. q.born = {} /\ q.gone = {} /\ q.drop = {} /\ q.shut = {} /\ q.closed = {}
  BY <1>2 DEF SheetFits, DropsFit, ShutsFit, Opening
<1>4. Steady
  BY CheckTargetOK
<1>5. CASE \E t \in SeenBy(w) \ {q.task} : task[t].who = q.who /\ task[t].b \in q.plan
  <2>1. Continue(w, Idle)
    BY <1>1, <1>5 DEF CheckTarget, Refuse
  <2> QED
    BY <1>1, <1>2, <1>3, <1>4, <2>1, TurnEnds
<1>6. CASE \A t \in SeenBy(w) \ {q.task} : ~(task[t].who = q.who /\ task[t].b \in q.plan)
  <2>1. PICK at : /\ at \in {"create", "lock", "prev", "overwrite", "lock_task"}
                  /\ q.kind = "move" => at \in {"overwrite", "lock_task"}
                  /\ at = "create" => q.bs = {}
                  /\ Continue(w, [q EXCEPT !.at = at])
    BY <1>1, <1>2, <1>6 DEF CheckTarget, Goto, Continue, Begin
  <2>2. PICK r : r = [q EXCEPT !.at = at]
    OBVIOUS
  <2>3. /\ r.at = at /\ r.kind = q.kind /\ r.plan = q.plan /\ r.bs = q.bs /\ r.who = q.who /\ r.task = q.task
        /\ r.born = {} /\ r.gone = {} /\ r.drop = {} /\ r.shut = {} /\ r.closed = {} /\ r.old = q.old
    BY <1>2, <1>3, <2>2 DEF Request
  <2>4. SiteFits(r, row, HeldSet, task)
    <3>2. r.at = "create" => r.kind = "plan" /\ r.bs = {}
      BY <1>2, <2>1, <2>3
    <3>1. \A t \in TaskId \ {r.task} : IsReal(task, t) /\ task[t].who = r.who => task[t].b \notin r.plan
      BY <1>1, <1>3, <1>6, <2>3, Alone
    <3> QED
      BY <1>2, <2>3, <3>1, <3>2 DEF SiteFits
  <2>5. SheetFits(r, task)
    BY <1>2, <2>1, <2>3 DEF SheetFits
  <2>6. DropsFit(r, row, HeldSet, task)
    BY <1>2, <2>1, <2>3 DEF DropsFit, Locked, Opening
  <2>7. ShutsFit(r, row, HeldSet)
    BY <2>1, <2>3 DEF ShutsFit, Opening
  <2> QED
    BY <1>1, <1>2, <1>3, <1>4, <2>1, <2>2, <2>3, <2>4, <2>5, <2>6, <2>7, TurnReads
<1> QED
  BY <1>5, <1>6

LEMMA FindReplaceableTurn ==
    ASSUME IInv, TInv, OneAtATime, NEW w \in Worker, FindReplaceable(w)
    PROVE  TInv'
<1>1. PICK q : q = req[w]
  OBVIOUS
<1>2. /\ q.at = "replaceable" /\ q \in Request /\ row' = row /\ task' = task
      /\ SiteFits(q, row, HeldSet, task) /\ SheetFits(q, task)
      /\ DropsFit(q, row, HeldSet, task) /\ ShutsFit(q, row, HeldSet)
  BY <1>1, TurnOf DEF FindReplaceable
<1>3. q.kind = "import" /\ q.born = {} /\ q.gone = {} /\ q.drop = {} /\ q.shut = {} /\ q.closed = {}
  BY <1>2 DEF SheetFits, DropsFit, ShutsFit, Opening
<1>4. Steady
  BY FindReplaceableOK
<1>5. PICK old : old = {t \in SeenBy(w) : task[t].who = q.who}
  OBVIOUS
<1>6. old = {t \in TaskId : IsReal(task, t) /\ task[t].who = q.who}
  BY <1>1, <1>3, <1>5, Alone
<1>7. PICK r : /\ Continue(w, r)
               /\ r = [q EXCEPT !.old = old, !.at = IF q.bs # {} THEN Begin(q.actor) ELSE "replace",
                                !.drop = IF q.bs # {} THEN {} ELSE old]
  BY <1>1, <1>5 DEF FindReplaceable
<1>8. /\ r.at = IF q.bs # {} THEN Begin(q.actor) ELSE "replace"
      /\ r.kind = "import" /\ r.plan = q.plan /\ r.bs = q.bs /\ r.who = q.who /\ r.task = q.task
      /\ r.born = {} /\ r.gone = {} /\ r.shut = {} /\ r.closed = {} /\ r.old = old
      /\ r.drop = IF q.bs # {} THEN {} ELSE old
  BY <1>2, <1>3, <1>7 DEF Request
<1>9. r.at \in {"lock", "prev"} \/ (r.at = "replace" /\ r.bs = {} /\ r.drop = old)
  BY <1>8 DEF Begin
<1>10. SiteFits(r, row, HeldSet, task)
  BY <1>2, <1>8, <1>9 DEF SiteFits
<1>11. SheetFits(r, task)
  BY <1>6, <1>8, <1>9 DEF SheetFits
<1>12. DropsFit(r, row, HeldSet, task)
  BY <1>6, <1>8, <1>9 DEF DropsFit, Locked, Opening, Stranded
<1>13. ShutsFit(r, row, HeldSet)
  BY <1>8, <1>9 DEF ShutsFit, Opening
<1> QED
  BY <1>1, <1>2, <1>3, <1>4, <1>7, <1>8, <1>10, <1>11, <1>12, <1>13, TurnReads

LEMMA LockTaskTurn ==
    ASSUME IInv, TInv, OneAtATime, NEW w \in Worker, LockTask(w) \/ Overwrite(w)
    PROVE  TInv'
<1>1. PICK q : q = req[w]
  OBVIOUS
<1>2. /\ q.at \in {"lock_task", "overwrite"} /\ q \in Request /\ row' = row /\ task' = task
      /\ LocalOK(q, row, HeldSet)
      /\ SiteFits(q, row, HeldSet, task) /\ SheetFits(q, task)
      /\ DropsFit(q, row, HeldSet, task) /\ ShutsFit(q, row, HeldSet)
  BY <1>1, TurnOf DEF LockTask, Overwrite
<1>3. /\ q.kind \in {"move", "delete"} /\ (q.at = "overwrite" => q.kind = "move")
      /\ q.born = {} /\ q.gone = {} /\ q.drop = {} /\ q.shut = {} /\ q.closed = {}
  BY <1>2 DEF SheetFits, DropsFit, ShutsFit, Opening, LocalOK, WritesOK
<1>4. Steady
  BY LockTaskOK, OverwriteOK
<1>5. CASE Continue(w, Idle)
  BY <1>1, <1>2, <1>3, <1>4, <1>5, TurnEnds
<1>6. CASE ~Continue(w, Idle)
  <2>1. PICK held, seen, at :
            /\ at = IF q.kind = "delete" THEN "drop_task" ELSE "write_task"
            /\ Continue(w, [q EXCEPT !.held = held, !.seen = seen, !.at = at])
    <3>1. CASE LockTask(w)
      <4>1. Continue(w, [q EXCEPT !.held = {q.task}, !.at = IF q.kind = "delete" THEN "drop_task" ELSE "write_task"])
        BY <1>1, <1>6, <3>1 DEF LockTask, Refuse
      <4>2. [q EXCEPT !.held = {q.task}, !.at = IF q.kind = "delete" THEN "drop_task" ELSE "write_task"]
              = [q EXCEPT !.held = {q.task}, !.seen = q.seen, !.at = IF q.kind = "delete" THEN "drop_task" ELSE "write_task"]
        BY <1>2 DEF Request
      <4> QED
        BY <4>1, <4>2
    <3>2. CASE Overwrite(w)
      <4>1. Continue(w, [q EXCEPT !.held = {q.task}, !.seen = task[q.task], !.at = "write_task"])
        BY <1>1, <1>6, <3>2 DEF Overwrite, Refuse
      <4>2. q.kind # "delete"
        BY <1>1, <1>3, <3>2 DEF Overwrite
      <4> QED
        BY <4>1, <4>2
    <3> QED
      BY <3>1, <3>2
  <2>2. PICK r : r = [q EXCEPT !.held = held, !.seen = seen, !.at = at]
    OBVIOUS
  <2>3. /\ r.at = at /\ r.kind = q.kind /\ r.plan = q.plan /\ r.bs = q.bs /\ r.who = q.who /\ r.task = q.task
        /\ r.born = {} /\ r.gone = {} /\ r.drop = {} /\ r.shut = {} /\ r.closed = {} /\ r.old = q.old
    BY <1>2, <1>3, <2>2 DEF Request
  <2>4. SiteFits(r, row, HeldSet, task)
    BY <1>2, <2>1, <2>3 DEF SiteFits
  <2>5. SheetFits(r, task)
    BY <1>2, <1>3, <2>1, <2>3 DEF SheetFits
  <2>6. DropsFit(r, row, HeldSet, task)
    BY <1>2, <1>3, <2>1, <2>3 DEF DropsFit, Locked, Opening
  <2>7. ShutsFit(r, row, HeldSet)
    BY <2>1, <2>3 DEF ShutsFit, Opening
  <2> QED
    BY <1>1, <1>2, <1>3, <1>4, <2>1, <2>2, <2>3, <2>4, <2>5, <2>6, <2>7, TurnReads
<1> QED
  BY <1>5, <1>6

LEMMA WriteTaskTurn ==
    ASSUME IInv, TInv, OneAtATime, NEW w \in Worker, WriteTask(w)
    PROVE  TInv'
<1>1. PICK q : q = req[w]
  OBVIOUS
<1>2. /\ q.at = "write_task" /\ q \in Request /\ row' = row /\ task' = task
      /\ LocalOK(q, row, HeldSet)
      /\ SiteFits(q, row, HeldSet, task) /\ SheetFits(q, task)
      /\ DropsFit(q, row, HeldSet, task) /\ ShutsFit(q, row, HeldSet)
  BY <1>1, TurnOf DEF WriteTask
<1>3. /\ q.kind = "move"
      /\ q.born = {} /\ q.gone = {} /\ q.drop = {} /\ q.shut = {} /\ q.closed = {}
  BY <1>2 DEF SheetFits, DropsFit, ShutsFit, Opening, LocalOK, WritesOK
<1>4. Steady
  BY WriteTaskOK
<1>5. PICK r : /\ Continue(w, r)
               /\ r = [q EXCEPT !.moved = TRUE, !.shared = NewSite(w),
                                !.at = IF q.bs = {} THEN "commit" ELSE Begin(q.actor)]
  BY <1>1 DEF WriteTask
<1>6. /\ r.at = IF q.bs = {} THEN "commit" ELSE Begin(q.actor)
      /\ r.kind = "move" /\ r.plan = q.plan /\ r.bs = q.bs /\ r.who = q.who /\ r.task = q.task /\ r.moved
      /\ r.born = {} /\ r.gone = {} /\ r.drop = {} /\ r.shut = {} /\ r.closed = {} /\ r.old = q.old
  BY <1>2, <1>3, <1>5 DEF Request
<1>7. (r.at = "commit" /\ r.bs = {}) \/ r.at \in {"lock", "prev"}
  BY <1>6 DEF Begin
<1>8. SiteFits(r, row, HeldSet, task)
  BY <1>2, <1>3, <1>6, <1>7 DEF SiteFits
<1>9. SheetFits(r, task)
  BY <1>2, <1>3, <1>6, <1>7 DEF SheetFits
<1>10. DropsFit(r, row, HeldSet, task)
  BY <1>2, <1>6, <1>7 DEF DropsFit, Locked, Opening, Stranded
<1>11. ShutsFit(r, row, HeldSet)
  BY <1>6, <1>7 DEF ShutsFit, Opening
<1> QED
  BY <1>1, <1>2, <1>3, <1>4, <1>5, <1>6, <1>8, <1>9, <1>10, <1>11, TurnReads

LEMMA DropTaskTurn ==
    ASSUME IInv, TInv, OneAtATime, NEW w \in Worker, DropTask(w)
    PROVE  TInv'
<1>1. PICK q : q = req[w]
  OBVIOUS
<1>2. /\ q.at = "drop_task" /\ q \in Request /\ row' = row /\ task' = task
      /\ LocalOK(q, row, HeldSet)
      /\ SiteFits(q, row, HeldSet, task) /\ SheetFits(q, task) /\ ShutsFit(q, row, HeldSet)
  BY <1>1, TurnOf DEF DropTask
<1>3. /\ q.kind = "delete" /\ q.bs = {}
      /\ q.born = {} /\ q.old = {} /\ q.shut = {} /\ q.closed = {}
  BY <1>2 DEF SheetFits, ShutsFit, Opening, LocalOK, WritesOK
<1>4. Steady
  BY DropTaskOK
<1>5. PICK r : Continue(w, r) /\ r = [q EXCEPT !.gone = {q.task}, !.at = "commit"]
  BY <1>1 DEF DropTask
<1>6. /\ r.at = "commit" /\ r.kind = "delete" /\ r.plan = q.plan /\ r.bs = {} /\ r.who = q.who
      /\ r.born = {} /\ r.shut = {} /\ r.closed = {} /\ r.old = {}
  BY <1>2, <1>3, <1>5 DEF Request
<1>7. SiteFits(r, row, HeldSet, task)
  BY <1>2, <1>3, <1>6 DEF SiteFits
<1>8. SheetFits(r, task)
  BY <1>6 DEF SheetFits
<1>9. DropsFit(r, row, HeldSet, task)
  BY <1>6 DEF DropsFit, Stranded
<1>10. ShutsFit(r, row, HeldSet)
  BY <1>6 DEF ShutsFit
<1> QED
  BY <1>1, <1>3, <1>2, <1>4, <1>5, <1>6, <1>7, <1>8, <1>9, <1>10, TurnReads

-----------------------------------------------------------------------------
(* The statements of a hand-over.                                          *)

LEMMA LockBuildingTurn ==
    ASSUME IInv, TInv, OneAtATime, NEW w \in Worker,
           LockBuilding(w) \/ (Recheck(w) /\ ~RollBack(w))
    PROVE  TInv'
<1>1. PICK q : q = req[w]
  OBVIOUS
<1>2. /\ q.at \in {"lock", "recheck"} /\ q \in Request /\ row' = row /\ task' = task
      /\ SiteFits(q, row, HeldSet, task) /\ SheetFits(q, task)
      /\ DropsFit(q, row, HeldSet, task) /\ ShutsFit(q, row, HeldSet)
  BY <1>1, TurnOf DEF LockBuilding, Recheck
<1>3. Steady
  BY LockBuildingOK, RecheckOK
<1>4. PICK locked, at : at \in {"lock", "recheck", "prev"} /\ Continue(w, [q EXCEPT !.locked = locked, !.at = at])
  <2>1. CASE LockBuilding(w)
    BY <1>1, <2>1 DEF LockBuilding
  <2>2. CASE Recheck(w) /\ ~RollBack(w)
    <3>1. Continue(w, [q EXCEPT !.at = "prev"])
      BY <1>1, <2>2 DEF Recheck, Goto, Continue
    <3>2. [q EXCEPT !.at = "prev"] = [q EXCEPT !.locked = q.locked, !.at = "prev"]
      BY <1>2 DEF Request
    <3> QED
      BY <3>1, <3>2
  <2> QED
    BY <2>1, <2>2
<1>5. PICK r : r = [q EXCEPT !.locked = locked, !.at = at]
  OBVIOUS
<1>6. /\ r.at = at /\ r.kind = q.kind /\ r.plan = q.plan /\ r.bs = q.bs /\ r.who = q.who /\ r.task = q.task
      /\ r.moved = q.moved /\ r.born = q.born /\ r.gone = q.gone /\ r.drop = q.drop
      /\ r.shut = q.shut /\ r.closed = q.closed /\ r.old = q.old
  BY <1>2, <1>5 DEF Request
<1>7. SiteFits(r, row, HeldSet, task)
  BY <1>2, <1>4, <1>6 DEF SiteFits
<1>8. SheetFits(r, task)
  BY <1>2, <1>4, <1>6 DEF SheetFits
<1>9. DropsFit(r, row, HeldSet, task)
  BY <1>2, <1>4, <1>6 DEF DropsFit, Locked, Opening
<1>10. ShutsFit(r, row, HeldSet)
  BY <1>2, <1>4, <1>6 DEF ShutsFit, Opening
<1> QED
  BY <1>1, <1>2, <1>3, <1>4, <1>5, <1>6, <1>7, <1>8, <1>9, <1>10, TurnReads

LEMMA FindPrevTurn ==
    ASSUME IInv, TInv, OneAtATime, NEW w \in Worker, FindPrev(w)
    PROVE  TInv'
<1>1. PICK q : q = req[w]
  OBVIOUS
<1>2. /\ q.at = "prev" /\ q \in Request /\ row' = row /\ task' = task
      /\ LocalOK(q, row, HeldSet) /\ PlanIsSound(row, HeldSet, task, q.born)
      /\ SiteFits(q, row, HeldSet, task) /\ SheetFits(q, task)
      /\ DropsFit(q, row, HeldSet, task) /\ ShutsFit(q, row, HeldSet)
  BY <1>1, TurnOf DEF FindPrev
<1>3. /\ q.born = {} /\ q.gone = {} /\ q.drop = {} /\ q.shut = {} /\ q.closed = {} /\ q.opened = {}
  BY <1>2 DEF SheetFits, DropsFit, ShutsFit, Opening, LocalOK, RowsOK
<1>4. Steady
  BY FindPrevOK
<1> DEFINE found == UNION {{<<row[x].holder, b>> : x \in {y \in ActiveTo(w, b) : row[y].holder # req[w].who}} : b \in req[w].bs}
<1>5. Continue(w, [req[w] EXCEPT !.prev = found, !.at = IF found = {} THEN "close" ELSE "stranded"])
  BY DEF FindPrev
<1>6. \A b : ActiveTo(w, b) = {x \in HeldSet : row[x].b = b}
  BY <1>1, <1>3, Alone
<1>71. /\ \A x \in HeldSet : row[x].b \in q.bs /\ row[x].holder # q.who => <<row[x].holder, row[x].b>> \in found
       /\ \A p \in found : p[1] # q.who /\ p[2] \in q.bs
  BY <1>1, <1>6
<1> HIDE DEF found
<1>7. PICK prev :
          /\ prev = found
          /\ \A x \in HeldSet : row[x].b \in q.bs /\ row[x].holder # q.who => <<row[x].holder, row[x].b>> \in prev
          /\ \A p \in prev : p[1] # q.who /\ p[2] \in q.bs
  BY <1>71
<1>8. PICK r : /\ Continue(w, r)
               /\ r = [q EXCEPT !.prev = prev, !.at = IF prev = {} THEN "close" ELSE "stranded"]
  BY <1>1, <1>5, <1>7
<1>9. /\ r.at = IF prev = {} THEN "close" ELSE "stranded"
      /\ r.prev = prev
      /\ r.kind = q.kind /\ r.plan = q.plan /\ r.bs = q.bs /\ r.who = q.who /\ r.task = q.task
      /\ r.moved = q.moved /\ r.born = {} /\ r.gone = {} /\ r.drop = {}
      /\ r.shut = {} /\ r.closed = {} /\ r.old = q.old
  BY <1>2, <1>3, <1>8 DEF Request
<1>10. SiteFits(r, row, HeldSet, task)
  BY <1>2, <1>9 DEF SiteFits
<1>11. SheetFits(r, task)
  BY <1>2, <1>9 DEF SheetFits
<1>12. ASSUME prev = {}, NEW t \in TaskId, Stranded(r, task, t) PROVE FALSE
  <2>1. HeldBy(task[t].b, task[t].who, row, HeldSet)
    BY <1>2, <1>3, <1>12 DEF PlanIsSound, Stranded
  <2> QED
    BY <1>7, <1>9, <1>12, <2>1 DEF HeldBy, Stranded
<1>13. DropsFit(r, row, HeldSet, task)
  BY <1>2, <1>7, <1>9, <1>12 DEF DropsFit, Locked, Opening
<1>14. ShutsFit(r, row, HeldSet)
  BY <1>9 DEF ShutsFit, Opening
<1> QED
  BY <1>1, <1>2, <1>3, <1>4, <1>8, <1>9, <1>10, <1>11, <1>13, <1>14, TurnReads

LEMMA FindStrandedTurn ==
    ASSUME IInv, TInv, OneAtATime, NEW w \in Worker, FindStranded(w)
    PROVE  TInv'
<1>1. PICK q : q = req[w]
  OBVIOUS
<1>2. /\ q.at = "stranded" /\ q \in Request /\ row' = row /\ task' = task
      /\ LocalOK(q, row, HeldSet) /\ PlanIsSound(row, HeldSet, task, q.born)
      /\ SiteFits(q, row, HeldSet, task) /\ SheetFits(q, task)
      /\ DropsFit(q, row, HeldSet, task) /\ ShutsFit(q, row, HeldSet)
  BY <1>1, TurnOf DEF FindStranded
<1>3. /\ q.born = {} /\ q.gone = {} /\ q.shut = {} /\ q.closed = {}
  BY <1>2 DEF SheetFits, DropsFit, ShutsFit, Opening
<1>4. Steady
  BY FindStrandedOK
<1>5. PICK drop : drop = {t \in SeenBy(w) : <<TaskTo(w, t).who, TaskTo(w, t).b>> \in q.prev}
  OBVIOUS
<1>6. drop = {t \in TaskId : IsReal(task, t) /\ <<TaskTo(w, t).who, TaskTo(w, t).b>> \in q.prev}
  BY <1>1, <1>3, <1>5, Alone
<1>7. /\ \A t : ~(q.moved /\ t = q.task) => TaskTo(w, t) = task[t]
      /\ \A t : q.moved /\ t = q.task => TaskTo(w, t).who = q.who
  BY <1>1 DEF TaskTo, Moved
<1>8. ASSUME NEW t \in drop
      PROVE  t \in TaskId /\ IsReal(task, t) /\ task[t].b \in q.bs /\ task[t].who # q.who
  BY <1>2, <1>6, <1>7 DEF DropsFit
<1>9. ASSUME NEW t \in TaskId, Stranded(q, task, t) PROVE t \in drop
  <2>1. HeldBy(task[t].b, task[t].who, row, HeldSet)
    BY <1>2, <1>3, <1>9 DEF PlanIsSound, Stranded
  <2>2. <<task[t].who, task[t].b>> \in q.prev
    BY <1>2, <1>9, <2>1 DEF DropsFit, HeldBy, Stranded
  <2> QED
    BY <1>6, <1>7, <1>9, <2>2 DEF Stranded
<1>10. PICK r : /\ Continue(w, r)
                /\ r = [q EXCEPT !.drop = drop, !.prev = {}, !.at = IF drop = {} THEN "close" ELSE "release"]
  BY <1>1, <1>5 DEF FindStranded
<1>11. /\ r.at = IF drop = {} THEN "close" ELSE "release"
       /\ r.drop = drop
       /\ r.kind = q.kind /\ r.plan = q.plan /\ r.bs = q.bs /\ r.who = q.who /\ r.task = q.task
       /\ r.moved = q.moved /\ r.born = {} /\ r.gone = {}
       /\ r.shut = {} /\ r.closed = {} /\ r.old = q.old
  BY <1>2, <1>3, <1>10 DEF Request
<1>12. SiteFits(r, row, HeldSet, task)
  BY <1>2, <1>11 DEF SiteFits
<1>13. SheetFits(r, task)
  BY <1>2, <1>11 DEF SheetFits
<1>14. \A t \in TaskId : Stranded(r, task, t) => t \in drop
  BY <1>3, <1>9, <1>11 DEF Stranded
<1>15. DropsFit(r, row, HeldSet, task)
  BY <1>2, <1>8, <1>11, <1>14 DEF DropsFit, Locked, Opening
<1>16. ShutsFit(r, row, HeldSet)
  BY <1>11 DEF ShutsFit, Opening
<1> QED
  BY <1>1, <1>2, <1>3, <1>4, <1>10, <1>11, <1>12, <1>13, <1>15, <1>16, TurnReads

LEMMA DropTurn ==
    ASSUME IInv, TInv, OneAtATime, NEW w \in Worker, Drop(w)
    PROVE  TInv'
<1>1. PICK q : q = req[w]
  OBVIOUS
<1>2. /\ q.at \in {"release", "replace"} /\ q \in Request /\ row' = row /\ task' = task
      /\ SiteFits(q, row, HeldSet, task) /\ SheetFits(q, task)
      /\ DropsFit(q, row, HeldSet, task) /\ ShutsFit(q, row, HeldSet)
  BY <1>1, TurnOf DEF Drop
<1>3. /\ q.born = {} /\ (q.kind = "delete" => q.drop = {}) /\ q.drop \subseteq TaskId
  BY <1>1, <1>2, TurnOf DEF SheetFits, Request, LocalOK, WritesOK
<1>4. Steady
  BY DropOK
\* Of the tasks to drop one less is left, and all there were are dropped in the end.
<1> DEFINE Drops(drop, gone, held, at) ==
               /\ drop \subseteq q.drop /\ q.drop \cup q.gone = drop \cup gone /\ q.gone \subseteq gone
               /\ at \in {q.at, AfterDrop(q.at)} /\ (at = AfterDrop(q.at) => drop = {})
               /\ Continue(w, [q EXCEPT !.drop = drop, !.gone = gone, !.held = held, !.at = at])
<1>5. \E drop, gone, held, at : Drops(drop, gone, held, at)
  <2>1. CASE q.drop = {} /\ Goto(w, AfterDrop(q.at))
    <3>1. [q EXCEPT !.at = AfterDrop(q.at)]
            = [q EXCEPT !.drop = {}, !.gone = q.gone, !.held = q.held, !.at = AfterDrop(q.at)]
      BY <1>2, <2>1 DEF Request
    <3>2. Continue(w, [q EXCEPT !.at = AfterDrop(q.at)])
      BY <1>1, <2>1 DEF Goto, Continue
    <3>3. Drops({}, q.gone, q.held, AfterDrop(q.at))
      BY <2>1, <3>1, <3>2
    <3> HIDE DEF Drops
    <3> QED
      BY <3>3
  <2>2. CASE ~(q.drop = {} /\ Goto(w, AfterDrop(q.at)))
    <3> DEFINE hit(t) == {t} \ {u \in TaskId : ~IsTask(u)}
               at(t) == IF q.drop = {t} THEN AfterDrop(q.at) ELSE q.at
    <3>1. PICK t \in q.drop :
              Continue(w, [q EXCEPT !.drop = @ \ {t}, !.gone = @ \cup hit(t), !.held = @ \cup hit(t), !.at = at(t)])
      BY <1>1, <2>2 DEF Drop
    <3>2. IsTask(t)
      BY <1>2, <1>3 DEF DropsFit, IsReal, IsTask
    <3>3. hit(t) = {t}
      BY <3>2
    <3>4. AfterDrop(q.at) # q.at
      BY <1>2 DEF AfterDrop
    <3>5. /\ at(t) \in {q.at, AfterDrop(q.at)}
          /\ at(t) = AfterDrop(q.at) => q.drop \ {t} = {}
      BY <3>4
    <3> HIDE DEF hit, at
    <3>6. Continue(w, [q EXCEPT !.drop = q.drop \ {t}, !.gone = q.gone \cup hit(t), !.held = q.held \cup hit(t), !.at = at(t)])
      BY <1>2, <3>1 DEF Request
    <3>7. Drops(q.drop \ {t}, q.gone \cup hit(t), q.held \cup hit(t), at(t))
      BY <3>3, <3>5, <3>6
    <3> HIDE DEF Drops
    <3> QED
      BY <3>7
  <2> QED
    BY <2>1, <2>2
<1>55. PICK drop, gone, held, at : Drops(drop, gone, held, at)
  BY <1>5
<1>6. PICK r : r = [q EXCEPT !.drop = drop, !.gone = gone, !.held = held, !.at = at]
  OBVIOUS
<1>7. /\ r.at = at /\ r.drop = drop /\ r.gone = gone
      /\ r.kind = q.kind /\ r.plan = q.plan /\ r.bs = q.bs /\ r.who = q.who /\ r.task = q.task
      /\ r.moved = q.moved /\ r.born = {}
      /\ r.shut = q.shut /\ r.closed = q.closed /\ r.old = q.old
  BY <1>2, <1>3, <1>6 DEF Request
<1>8. /\ q.at = "release" => (at = "release" \/ (at = "close" /\ drop = {}))
      /\ q.at = "replace" => (at = "replace" \/ (at = "plant" /\ drop = {}))
  BY <1>2, <1>55 DEF AfterDrop
<1>9. SiteFits(r, row, HeldSet, task)
  BY <1>2, <1>7, <1>8 DEF SiteFits
<1>10. SheetFits(r, task)
  BY <1>2, <1>55, <1>7, <1>8 DEF SheetFits
<1>11. DropsFit(r, row, HeldSet, task)
  <2>1. \A t \in TaskId : Stranded(r, task, t) <=> Stranded(q, task, t)
    BY <1>3, <1>7 DEF Stranded
  <2>2. r.drop \cup r.gone = q.drop \cup q.gone /\ (q.at = "replace" => q.gone \subseteq r.gone)
    BY <1>55, <1>7, <1>8
  <2> QED
    BY <1>2, <1>3, <1>55, <1>7, <1>8, <2>1, <2>2 DEF DropsFit, Locked, Opening
<1>12. ShutsFit(r, row, HeldSet)
  BY <1>2, <1>7, <1>8 DEF ShutsFit, Opening
<1> QED
  BY <1>1, <1>2, <1>3, <1>4, <1>55, <1>6, <1>7, <1>9, <1>10, <1>11, <1>12, TurnReads

LEMMA FindActiveTurn ==
    ASSUME IInv, TInv, OneAtATime, NEW w \in Worker, FindActive(w)
    PROVE  TInv'
<1>1. PICK q : q = req[w]
  OBVIOUS
<1>2. /\ q.at = "close" /\ q \in Request /\ row' = row /\ task' = task
      /\ LocalOK(q, row, HeldSet)
      /\ SiteFits(q, row, HeldSet, task) /\ SheetFits(q, task)
      /\ DropsFit(q, row, HeldSet, task) /\ ShutsFit(q, row, HeldSet)
  BY <1>1, TurnOf DEF FindActive
<1>3. q.closed = {} /\ q.opened = {} /\ q.born = {}
  BY <1>2 DEF ShutsFit, SheetFits, Opening, LocalOK, RowsOK
<1>4. Steady
  BY FindActiveOK
<1>5. PICK shut : shut = UNION {ActiveTo(w, b) : b \in q.bs}
  OBVIOUS
<1>6. shut = {x \in HeldSet : row[x].b \in q.bs}
  BY <1>1, <1>3, <1>5, Alone
<1>7. PICK r : Continue(w, r) /\ r = [q EXCEPT !.shut = shut, !.at = IF shut = {} THEN "assign" ELSE "closing"]
  BY <1>1, <1>5 DEF FindActive
<1>8. /\ r.at = IF shut = {} THEN "assign" ELSE "closing"
      /\ r.shut = shut /\ r.closed = {} /\ r.drop = q.drop /\ r.gone = q.gone
      /\ r.kind = q.kind /\ r.plan = q.plan /\ r.bs = q.bs /\ r.who = q.who /\ r.task = q.task
      /\ r.moved = q.moved /\ r.born = {} /\ r.old = q.old
  BY <1>2, <1>3, <1>7 DEF Request
<1>9. SiteFits(r, row, HeldSet, task)
  BY <1>2, <1>8 DEF SiteFits
<1>10. SheetFits(r, task)
  BY <1>2, <1>8 DEF SheetFits
<1>11. DropsFit(r, row, HeldSet, task)
  BY <1>2, <1>3, <1>8 DEF DropsFit, Locked, Opening, Stranded
<1>12. ShutsFit(r, row, HeldSet)
  BY <1>6, <1>8 DEF ShutsFit, Opening
<1> QED
  BY <1>1, <1>2, <1>3, <1>4, <1>7, <1>8, <1>9, <1>10, <1>11, <1>12, TurnReads

LEMMA CloseTurn ==
    ASSUME IInv, TInv, OneAtATime, NEW w \in Worker, Close(w)
    PROVE  TInv'
<1>1. PICK q : q = req[w]
  OBVIOUS
<1>2. /\ q.at = "closing" /\ q \in Request /\ row' = row /\ task' = task
      /\ SiteFits(q, row, HeldSet, task) /\ SheetFits(q, task)
      /\ DropsFit(q, row, HeldSet, task) /\ ShutsFit(q, row, HeldSet)
  BY <1>1, TurnOf DEF Close
<1>3. q.born = {}
  BY <1>2 DEF SheetFits
<1>4. Steady
  BY CloseOK
<1>5. PICK x \in q.shut : \E r :
          /\ Continue(w, r)
          /\ r = [q EXCEPT !.shut = q.shut \ {x}, !.closed = IF row[x].active THEN q.closed \cup {x} ELSE q.closed,
                           !.at = IF q.shut = {x} THEN "assign" ELSE q.at]
  BY <1>1 DEF Close
<1>6. PICK r :
          /\ Continue(w, r)
          /\ r = [q EXCEPT !.shut = q.shut \ {x}, !.closed = IF row[x].active THEN q.closed \cup {x} ELSE q.closed,
                           !.at = IF q.shut = {x} THEN "assign" ELSE q.at]
  BY <1>5
<1>7. /\ r.at = IF q.shut = {x} THEN "assign" ELSE "closing"
      /\ r.shut = q.shut \ {x} /\ r.closed = IF row[x].active THEN q.closed \cup {x} ELSE q.closed
      /\ r.drop = q.drop /\ r.gone = q.gone
      /\ r.kind = q.kind /\ r.plan = q.plan /\ r.bs = q.bs /\ r.who = q.who /\ r.task = q.task
      /\ r.moved = q.moved /\ r.born = {} /\ r.old = q.old
  BY <1>2, <1>3, <1>6 DEF Request
<1>8. SiteFits(r, row, HeldSet, task)
  BY <1>2, <1>7 DEF SiteFits
<1>9. SheetFits(r, task)
  BY <1>2, <1>7 DEF SheetFits
<1>10. DropsFit(r, row, HeldSet, task)
  BY <1>2, <1>3, <1>7 DEF DropsFit, Locked, Opening, Stranded
<1>11. ShutsFit(r, row, HeldSet)
  <2>1. \A y \in HeldSet : row[y].active
    BY DEF HeldSet, Held
  <2>2. \A y \in HeldSet : row[y].b \in r.bs => y \in r.shut \cup r.closed
    BY <1>2, <1>7, <2>1 DEF ShutsFit
  <2> QED
    BY <1>7, <2>2 DEF ShutsFit, Opening
<1> QED
  BY <1>1, <1>2, <1>3, <1>4, <1>6, <1>7, <1>8, <1>9, <1>10, <1>11, TurnReads

-----------------------------------------------------------------------------
(* The writes.                                                             *)

\* What is said of the assignments others see only depends on these.
LEMMA SameRows ==
    ASSUME NEW rows, NEW rows2, NEW H, NEW tasks, NEW born, NEW r, \A x \in H : rows2[x] = rows[x]
    PROVE  /\ \A b, e : HeldBy(b, e, rows, H) <=> HeldBy(b, e, rows2, H)
           /\ PlanIsSound(rows, H, tasks, born) => PlanIsSound(rows2, H, tasks, born)
           /\ SiteFits(r, rows, H, tasks) => SiteFits(r, rows2, H, tasks)
           /\ DropsFit(r, rows, H, tasks) => DropsFit(r, rows2, H, tasks)
           /\ ShutsFit(r, rows, H) => ShutsFit(r, rows2, H)
<1>1. \A b, e : HeldBy(b, e, rows, H) <=> HeldBy(b, e, rows2, H)
  BY DEF HeldBy
<1>2. PlanIsSound(rows, H, tasks, born) => PlanIsSound(rows2, H, tasks, born)
  BY <1>1 DEF PlanIsSound
<1>3. SiteFits(r, rows, H, tasks) => SiteFits(r, rows2, H, tasks)
  BY <1>1 DEF SiteFits
<1>4. DropsFit(r, rows, H, tasks) => DropsFit(r, rows2, H, tasks)
  BY DEF DropsFit
<1>5. ShutsFit(r, rows, H) => ShutsFit(r, rows2, H)
  BY DEF ShutsFit
<1> QED
  BY <1>1, <1>2, <1>3, <1>4, <1>5

LEMMA OpenTurn ==
    ASSUME IInv, TInv, OneAtATime, NEW w \in Worker, Open(w)
    PROVE  TInv'
<1>1. PICK q : q = req[w]
  OBVIOUS
<1>2. /\ q.at = "assign" /\ q \in Request /\ task' = task
      /\ PlanIsSound(row, HeldSet, task, q.born)
      /\ SiteFits(q, row, HeldSet, task) /\ SheetFits(q, task)
      /\ DropsFit(q, row, HeldSet, task) /\ ShutsFit(q, row, HeldSet)
  BY <1>1, TurnOf DEF Open
<1>3. q.born = {}
  BY <1>2 DEF SheetFits
<1>4. HeldSet' = HeldSet /\ \A x \in HeldSet : row'[x] = row[x]
  BY OpenOK DEF Steady
<1> DEFINE Opens(opened, shared, at, drop) ==
               /\ at \in {"assign", IF q.kind = "import" THEN "replace" ELSE "commit"}
               /\ drop = IF at = "assign" THEN q.drop ELSE q.old \ q.gone
               /\ Continue(w, [q EXCEPT !.opened = opened, !.shared = shared, !.at = at, !.drop = drop])
<1>51. \E opened, shared, at, drop : Opens(opened, shared, at, drop)
  <2> DEFINE x == CHOOSE x \in FreshRows : TRUE
             at(b) == IF ToOpen(w) # {b} THEN q.at ELSE IF q.kind = "import" THEN "replace" ELSE "commit"
             drop(b) == IF ToOpen(w) = {b} THEN q.old \ q.gone ELSE q.drop
  <2>1. PICK b \in ToOpen(w) :
            Continue(w, [q EXCEPT !.opened = @ \cup {x}, !.shared = @ \cup {b}, !.at = at(b), !.drop = drop(b)])
    BY <1>1 DEF Open
  <2>2. /\ at(b) \in {"assign", IF q.kind = "import" THEN "replace" ELSE "commit"}
        /\ drop(b) = IF at(b) = "assign" THEN q.drop ELSE q.old \ q.gone
    BY <1>2
  <2> HIDE DEF x, at, drop
  <2>3. Continue(w, [q EXCEPT !.opened = q.opened \cup {x}, !.shared = q.shared \cup {b}, !.at = at(b), !.drop = drop(b)])
    BY <1>2, <2>1 DEF Request
  <2>4. Opens(q.opened \cup {x}, q.shared \cup {b}, at(b), drop(b))
    BY <2>2, <2>3
  <2> HIDE DEF Opens
  <2> QED
    BY <2>4
<1>5. PICK opened, shared, at, drop : Opens(opened, shared, at, drop)
  BY <1>51
<1>6. PICK r : r = [q EXCEPT !.opened = opened, !.shared = shared, !.at = at, !.drop = drop]
  OBVIOUS
<1>7. /\ r.at = at /\ r.drop = drop /\ r.gone = q.gone
      /\ r.kind = q.kind /\ r.plan = q.plan /\ r.bs = q.bs /\ r.who = q.who /\ r.task = q.task
      /\ r.moved = q.moved /\ r.born = {} /\ r.closed = q.closed /\ r.old = q.old
  BY <1>2, <1>3, <1>6 DEF Request
<1>8. SiteFits(r, row, HeldSet, task)
  BY <1>2, <1>5, <1>7 DEF SiteFits
<1>9. SheetFits(r, task)
  BY <1>2, <1>5, <1>7 DEF SheetFits
<1>10. DropsFit(r, row, HeldSet, task)
  <2>1. \A t \in TaskId : Stranded(r, task, t) <=> Stranded(q, task, t)
    BY <1>3, <1>7 DEF Stranded
  <2>2. ASSUME r.kind # "delete", NEW t \in r.drop \cup r.gone
        PROVE  IsReal(task, t) /\ ((task[t].b \in r.bs /\ task[t].who # r.who) \/ t \in r.old)
    BY <1>2, <1>5, <1>7, <2>2 DEF DropsFit, SheetFits
  <2> QED
    BY <1>2, <1>5, <1>7, <2>1, <2>2 DEF DropsFit, Locked, Opening
<1>11. ShutsFit(r, row, HeldSet)
  BY <1>2, <1>5, <1>7 DEF ShutsFit, Opening
<1>12. req'[w] = r
  BY <1>1, <1>5, <1>6, TurnOf
<1>13. /\ PlanIsSound(row', HeldSet', task', r.born)
       /\ SiteFits(r, row', HeldSet', task') /\ SheetFits(r, task')
       /\ DropsFit(r, row', HeldSet', task') /\ ShutsFit(r, row', HeldSet')
  BY <1>2, <1>3, <1>4, <1>7, <1>8, <1>9, <1>10, <1>11, SameRows
<1> QED
  BY <1>12, <1>13, TurnGoes

LEMMA PlantTurn ==
    ASSUME IInv, TInv, OneAtATime, NEW w \in Worker, Plant(w)
    PROVE  TInv'
<1>1. PICK q : q = req[w]
  OBVIOUS
<1>2. /\ q.at = "plant" /\ q \in Request /\ row' = row
      /\ PlanIsSound(row, HeldSet, task, q.born)
      /\ SiteFits(q, row, HeldSet, task) /\ SheetFits(q, task)
      /\ DropsFit(q, row, HeldSet, task) /\ ShutsFit(q, row, HeldSet)
  BY <1>1, TurnOf DEF Plant
<1>3. q.kind = "import"
  BY <1>2 DEF SheetFits
<1>4. HeldSet' = HeldSet
  BY PlantOK DEF Steady
<1>5. PICK t \in FreshTasks : t = CHOOSE u \in FreshTasks : TRUE
  BY DEF Plant
<1>6. t \in TaskId /\ task[t] = Unborn /\ task \in [TaskId -> Task \cup {Unborn, Gone}]
  BY <1>5 DEF FreshTasks, IInv, TypeOK
<1>7. PICK b \in ToPlant(w) :
          /\ task' = [task EXCEPT ![t] = [who |-> q.who, b |-> b, version |-> 0]]
          /\ Continue(w, [q EXCEPT !.born = @ \cup {t}, !.shared = @ \cup {b},
                                   !.at = IF ToPlant(w) = {b} THEN "commit" ELSE @])
  BY <1>1, <1>5 DEF Plant
<1>8. b \in q.plan /\ \A u \in q.born : task[u].b # b
  BY <1>1, <1>7 DEF ToPlant
<1>9. /\ IsReal(task', t) /\ task'[t].who = q.who /\ task'[t].b = b
      /\ \A u \in TaskId : u # t => task'[u] = task[u]
  BY <1>6, <1>7 DEF IsReal, Unborn, Gone
<1>10. ~IsReal(task, t) /\ \A u \in TaskId : u # t => (IsReal(task', u) <=> IsReal(task, u))
  BY <1>6, <1>9 DEF IsReal
<1>11. PICK r : r = [q EXCEPT !.born = @ \cup {t}, !.shared = @ \cup {b},
                              !.at = IF ToPlant(w) = {b} THEN "commit" ELSE @]
  OBVIOUS
<1>12. /\ r.at \in {"plant", "commit"} /\ r.drop = q.drop /\ r.gone = q.gone
       /\ r.kind = "import" /\ r.plan = q.plan /\ r.bs = q.bs /\ r.who = q.who /\ r.task = q.task
       /\ r.moved = q.moved /\ r.born = q.born \cup {t} /\ r.closed = q.closed /\ r.old = q.old
  BY <1>2, <1>3, <1>11 DEF Request
<1>13. /\ q.born \subseteq TaskId /\ q.old \subseteq TaskId /\ q.drop \subseteq TaskId /\ q.gone \subseteq TaskId
       /\ t \notin q.born \cup q.old \cup q.drop \cup q.gone
  BY <1>2, <1>3, <1>10 DEF SheetFits, DropsFit, Request
<1>14. PlanIsSound(row, HeldSet, task', r.born)
  BY <1>2, <1>9, <1>10, <1>12 DEF PlanIsSound
<1>15. SiteFits(r, row, HeldSet, task')
  BY <1>2, <1>12 DEF SiteFits
<1>16. SheetFits(r, task')
  <2>1. \A u \in r.born : IsReal(task', u) /\ task'[u].who = r.who /\ task'[u].b \in r.plan
    BY <1>2, <1>8, <1>9, <1>10, <1>12, <1>13 DEF SheetFits
  <2>2. \A u, v \in r.born : task'[u].b = task'[v].b => u = v
    BY <1>2, <1>8, <1>9, <1>12, <1>13 DEF SheetFits
  <2>3. (\A u \in r.old : IsReal(task', u) /\ task'[u].who = r.who) /\ r.old \cap r.born = {}
    BY <1>2, <1>9, <1>10, <1>12, <1>13 DEF SheetFits
  <2>4. /\ \A u \in TaskId \ r.born : IsReal(task', u) /\ task'[u].who = r.who => u \in r.old
        /\ r.old \subseteq r.gone
    BY <1>2, <1>3, <1>9, <1>10, <1>12 DEF SheetFits
  <2> QED
    BY <1>12, <2>1, <2>2, <2>3, <2>4 DEF SheetFits
<1>17. DropsFit(r, row, HeldSet, task')
  <2>1. \A u \in TaskId : Stranded(r, task', u) => Stranded(q, task, u)
    BY <1>9, <1>10, <1>12 DEF Stranded
  <2>2. \A u \in r.drop \cup r.gone : /\ IsReal(task', u) /\ u \notin r.born
                                      /\ (task'[u].b \in r.bs /\ task'[u].who # r.who) \/ u \in r.old
    BY <1>2, <1>3, <1>9, <1>10, <1>12, <1>13 DEF DropsFit
  <2> QED
    BY <1>2, <1>12, <2>1, <2>2 DEF DropsFit, Opening
<1>18. ShutsFit(r, row, HeldSet)
  BY <1>2, <1>12 DEF ShutsFit, Opening
<1>19. req'[w] = r
  BY <1>1, <1>7, <1>11, TurnOf
<1> QED
  BY <1>2, <1>4, <1>14, <1>15, <1>16, <1>17, <1>18, <1>19, TurnGoes

LEMMA CreateTaskTurn ==
    ASSUME IInv, TInv, OneAtATime, NEW w \in Worker, CreateTask(w)
    PROVE  TInv'
<1>1. PICK q : q = req[w]
  OBVIOUS
<1>2. /\ q.at = "create" /\ q \in Request /\ row' = row
      /\ PlanIsSound(row, HeldSet, task, q.born)
      /\ SiteFits(q, row, HeldSet, task)
  BY <1>1, TurnOf DEF CreateTask
<1>3. /\ q.kind = "plan" /\ q.born = {} /\ q.bs = {} /\ q.task \notin TaskId
      /\ \A t \in TaskId : IsReal(task, t) /\ task[t].who = q.who => task[t].b \notin q.plan
  BY <1>2, BuildingHandoverAssumption DEF SiteFits
<1>4. HeldSet' = HeldSet
  BY CreateTaskOK DEF Steady
<1>5. PICK t \in FreshTasks : t = CHOOSE u \in FreshTasks : TRUE
  BY DEF CreateTask
<1>6. t \in TaskId /\ task[t] = Unborn /\ task \in [TaskId -> Task \cup {Unborn, Gone}]
  BY <1>5 DEF FreshTasks, IInv, TypeOK
<1>7. PICK b \in q.plan : task' = [task EXCEPT ![t] = [who |-> q.who, b |-> b, version |-> 0]]
  BY <1>1, <1>5 DEF CreateTask
<1>8. /\ IsReal(task', t) /\ task'[t].who = q.who /\ task'[t].b = b
      /\ \A u \in TaskId : u # t => task'[u] = task[u]
  BY <1>6, <1>7 DEF IsReal, Unborn, Gone
<1>9. \A u \in TaskId : u # t => (IsReal(task', u) <=> IsReal(task, u))
  BY <1>8 DEF IsReal
<1>10. HeldBy(b, q.who, row, HeldSet)
  BY <1>2, <1>3, <1>7 DEF SiteFits
<1>11. PlanIsSound(row, HeldSet, task', {})
  <2>1. \A u \in TaskId : IsReal(task', u) => HeldBy(task'[u].b, task'[u].who, row, HeldSet)
    BY <1>2, <1>3, <1>8, <1>9, <1>10 DEF PlanIsSound
  <2>2. ASSUME NEW u \in TaskId, NEW v \in TaskId, IsReal(task', u), IsReal(task', v),
               task'[u].who = task'[v].who, task'[u].b = task'[v].b
        PROVE  u = v
    <3>1. CASE u # t /\ v # t
      BY <1>2, <1>3, <1>8, <1>9, <2>2, <3>1 DEF PlanIsSound
    <3>2. ASSUME NEW x \in TaskId, x # t, IsReal(task', x), task'[x].who = task'[t].who, task'[x].b = task'[t].b
          PROVE  FALSE
      <4>1. IsReal(task, x) /\ task[x].who = q.who /\ task[x].b = b
        BY <1>8, <1>9, <3>2
      <4> QED
        BY <1>3, <1>7, <4>1
    <3> QED
      BY <2>2, <3>1, <3>2
  <2> QED
    BY <1>2, <2>1, <2>2 DEF PlanIsSound
<1>12. req'[w] = Idle /\ Idle.born = {}
  BY TurnOf DEF CreateTask, Idle
<1> QED
  BY <1>2, <1>4, <1>11, <1>12, IdleFits, TurnGoes

\* A rollback leaves what others have seen all along.
LEMMA RollBackTurn ==
    ASSUME IInv, TInv, OneAtATime, NEW w \in Worker, RollBack(w), left' = left
    PROVE  TInv'
<1>1. HeldSet' = HeldSet /\ \A x \in HeldSet : row'[x] = row[x]
  BY RollBackOK DEF Steady
<1>2. PlanIsSound(row, HeldSet, task, req[w].born)
  BY TurnOf
<1>3. \A t \in TaskId : task'[t] = IF t \in req[w].born THEN Unborn ELSE task[t]
  BY DEF RollBack
<1>4. \A t \in TaskId : IsReal(task', t) => t \notin req[w].born /\ task'[t] = task[t] /\ IsReal(task, t)
  BY <1>3 DEF IsReal
<1>5. PlanIsSound(row, HeldSet, task', {})
  BY <1>2, <1>4 DEF PlanIsSound
<1>6. PlanIsSound(row', HeldSet', task', {})
  BY <1>1, <1>5, SameRows
<1>7. req'[w] = Idle /\ Idle.born = {}
  BY TurnOf DEF RollBack, Idle
<1> QED
  BY <1>6, <1>7, IdleFits, TurnGoes

\* After the commit the tables others see are those the transaction has seen with
\* its own writes: the buildings it hands over are the person's, and of the tasks
\* there only the person's are left.
LEMMA CommitTurn ==
    ASSUME IInv, TInv, OneAtATime, NEW w \in Worker, Commit(w)
    PROVE  TInv'
<1>1. PICK q : q = req[w]
  OBVIOUS
<1>2. /\ q.at = "commit" /\ q \in Request
      /\ LocalOK(q, row, HeldSet) /\ PlanIsSound(row, HeldSet, task, q.born)
      /\ SiteFits(q, row, HeldSet, task) /\ SheetFits(q, task)
      /\ DropsFit(q, row, HeldSet, task) /\ ShutsFit(q, row, HeldSet)
  BY <1>1, TurnOf DEF Commit
<1>3. /\ HeldSet' = (HeldSet \ q.closed) \cup q.opened
      /\ \A x \in RowId : x \notin q.closed => row'[x] = row[x]
  BY <1>1, CommitOK
<1>4. /\ \A x \in q.opened : x \in RowId /\ x \notin q.closed /\ row[x].holder = q.who /\ row[x].b \in q.bs
      /\ \A x, y \in q.opened : row[x].b = row[y].b => x = y
      /\ \A x \in q.closed : row[x].b \in q.bs
      /\ \A b \in q.bs : \E x \in q.opened : row[x].b = b
      /\ \A x \in HeldSet : row[x].b \in q.bs => x \in q.closed
      /\ HeldSet \subseteq RowId
  BY <1>2 DEF LocalOK, RowsOK, ShutsFit, Opening, HeldSet, Request
\* Who holds what afterwards.
<1>5. /\ \A x \in HeldSet' : row'[x] = row[x]
      /\ \A x \in HeldSet' : x \in q.opened \/ (x \in HeldSet /\ row[x].b \notin q.bs)
  BY <1>3, <1>4
<1>6. ASSUME NEW b \in q.bs PROVE HeldBy(b, q.who, row', HeldSet')
  BY <1>3, <1>4, <1>5, <1>6 DEF HeldBy
<1>7. ASSUME NEW b, NEW e, b \notin q.bs, HeldBy(b, e, row, HeldSet) PROVE HeldBy(b, e, row', HeldSet')
  BY <1>3, <1>4, <1>5, <1>7 DEF HeldBy
<1>8. ASSUME NEW b \in q.plan PROVE HeldBy(b, q.who, row', HeldSet')
  BY <1>2, <1>6, <1>7 DEF SiteFits
<1>9. ASSUME NEW x \in HeldSet', NEW y \in HeldSet', row'[x].b = row'[y].b PROVE x = y
  <2>1. row[x].b = row[y].b
    BY <1>5, <1>9
  <2> QED
    BY <1>2, <1>4, <1>5, <2>1 DEF PlanIsSound
\* The tasks afterwards: one that was written, and those that were left alone.
<1> DEFINE Stays(t) == IsReal(task, t) /\ t \notin q.gone /\ ~(q.moved /\ t = q.task)
           Put(t)   == q.moved /\ t = q.task /\ t \notin q.gone
<1>10. ASSUME NEW t \in TaskId
       PROVE  /\ IsReal(task', t) => Stays(t) \/ Put(t)
              /\ Stays(t) => task'[t] = task[t]
              /\ Put(t) => task'[t] = Moved(q)
  BY <1>1 DEF Commit, IsReal
<1>11. q.moved => /\ q.kind = "move" /\ Moved(q).who = q.who /\ Moved(q).b \in q.plan
                  /\ \A b \in q.plan : b = Moved(q).b
  BY <1>2 DEF LocalOK, WritesOK, SiteFits, Moved
<1>12. ASSUME NEW t \in TaskId, Stays(t), task[t].b \in q.bs PROVE task[t].who = q.who
  <2>1. CASE t \in q.born
    BY <1>2, <2>1 DEF SheetFits
  <2>2. CASE t \notin q.born
    <3>1. ~Stranded(q, task, t)
      BY <1>2, <1>12 DEF DropsFit, Opening
    <3> QED
      BY <1>12, <2>2, <3>1 DEF Stranded
  <2> QED
    BY <2>1, <2>2
<1>13. ASSUME NEW t \in TaskId, IsReal(task', t) PROVE HeldBy(task'[t].b, task'[t].who, row', HeldSet')
  <2>1. CASE Put(t)
    BY <1>8, <1>10, <1>11, <2>1
  <2>2. CASE Stays(t) /\ task[t].b \in q.bs
    BY <1>6, <1>10, <1>12, <2>2
  <2>3. CASE Stays(t) /\ task[t].b \notin q.bs /\ t \in q.born
    <3>1. task[t].who = q.who /\ task[t].b \in q.plan
      BY <1>2, <2>3 DEF SheetFits
    <3> QED
      BY <1>8, <1>10, <2>3, <3>1
  <2>4. CASE Stays(t) /\ task[t].b \notin q.bs /\ t \notin q.born
    <3>1. HeldBy(task[t].b, task[t].who, row, HeldSet)
      BY <1>2, <2>4 DEF PlanIsSound
    <3> QED
      BY <1>7, <1>10, <2>4, <3>1
  <2> HIDE DEF Stays, Put
  <2> QED
    BY <1>10, <1>13, <2>1, <2>2, <2>3, <2>4
\* An import has dropped all that the person had, an edit found no such task.
<1>14. ASSUME NEW t \in TaskId, NEW u \in TaskId, Stays(t), Stays(u),
              task[t].who = task[u].who, task[t].b = task[u].b
       PROVE  t = u
  <2>1. CASE t \notin q.born /\ u \notin q.born
    BY <1>2, <1>14, <2>1 DEF PlanIsSound
  <2>2. CASE t \in q.born /\ u \in q.born
    BY <1>2, <1>14, <2>2 DEF SheetFits
  <2>3. ASSUME NEW x \in q.born, NEW y \in TaskId \ q.born, Stays(y), task[y].who = task[x].who PROVE FALSE
    <3>1. q.kind = "import" /\ task[x].who = q.who /\ q.old \subseteq q.gone
      BY <1>2, <2>3 DEF SheetFits
    <3>2. y \in q.old
      BY <1>2, <2>3, <3>1 DEF SheetFits
    <3> QED
      BY <2>3, <3>1, <3>2
  <2> QED
    BY <1>14, <2>1, <2>2, <2>3
<1>15. ASSUME NEW t \in TaskId, NEW u \in TaskId, Put(t), Stays(u),
              task[u].who = task'[t].who, task[u].b = task'[t].b
       PROVE  FALSE
  <2>1. q.kind = "move" /\ task[u].who = q.who /\ task[u].b \in q.plan /\ u # q.task
    BY <1>10, <1>11, <1>15
  <2> QED
    BY <1>2, <1>15, <2>1 DEF SiteFits
<1>16. ASSUME NEW t \in TaskId, NEW u \in TaskId, IsReal(task', t), IsReal(task', u),
              task'[t].who = task'[u].who, task'[t].b = task'[u].b
       PROVE  t = u
  <2>1. CASE Stays(t) /\ Stays(u)
    <3>1. task'[t] = task[t] /\ task'[u] = task[u]
      BY <1>10, <2>1
    <3> QED
      BY <1>14, <1>16, <2>1, <3>1
  <2>2. CASE Put(t) /\ Put(u)
    BY <2>2
  <2>3. CASE Put(t) /\ Stays(u)
    BY <1>10, <1>15, <1>16, <2>3
  <2>4. CASE Stays(t) /\ Put(u)
    BY <1>10, <1>15, <1>16, <2>4
  <2> HIDE DEF Stays, Put
  <2> QED
    BY <1>10, <1>16, <2>1, <2>2, <2>3, <2>4
<1>17. PlanIsSound(row', HeldSet', task', {})
  BY <1>9, <1>13, <1>16 DEF PlanIsSound
<1>18. CASE q.kind # "plan"
  <2>1. req'[w] = Idle /\ Idle.born = {}
    BY <1>1, <1>18, TurnOf DEF Commit, Idle
  <2> QED
    BY <1>17, <2>1, IdleFits, TurnGoes
<1>19. CASE q.kind = "plan"
  <2>1. PICK r : r = [Idle EXCEPT !.at = "create", !.kind = "plan", !.actor = q.actor, !.who = q.who, !.plan = q.plan]
    OBVIOUS
  <2>2. req'[w] = r
    BY <1>1, <1>19, <2>1, TurnOf DEF Commit
  <2>3. /\ r.at = "create" /\ r.kind = "plan" /\ r.who = q.who /\ r.plan = q.plan /\ r.task = None
        /\ r.bs = {} /\ r.born = {} /\ r.old = {} /\ r.gone = {} /\ r.drop = {} /\ r.shut = {} /\ r.closed = {}
    BY <2>1 DEF Idle
  <2>4. ~q.moved /\ q.task = None /\ None \notin TaskId
    BY <1>2, <1>19, BuildingHandoverAssumption DEF LocalOK, WritesOK, SiteFits
  <2>5. \A t \in TaskId : IsReal(task', t) => IsReal(task, t) /\ task'[t] = task[t]
    BY <1>10, <2>4
  <2>6. SiteFits(r, row', HeldSet', task')
    BY <1>2, <1>8, <1>19, <2>3, <2>4, <2>5 DEF SiteFits
  <2>7. SheetFits(r, task')
    BY <2>3 DEF SheetFits
  <2>8. DropsFit(r, row', HeldSet', task')
    BY <2>3 DEF DropsFit, Opening
  <2>9. ShutsFit(r, row', HeldSet')
    BY <2>3 DEF ShutsFit, Opening
  <2> QED
    BY <1>17, <2>2, <2>3, <2>6, <2>7, <2>8, <2>9, TurnGoes
<1> QED
  BY <1>18, <1>19

-----------------------------------------------------------------------------
(* The plan in turn.                                                       *)

LEMMA TurnInit ==
    ASSUME Init, OneAtATime, FirstPlan
    PROVE  TInv
<1>1. /\ row = FirstRow /\ task = FirstTask /\ \A w \in Worker : req[w] = Idle
  BY DEF Init
<1>2. Idle.opened = {} /\ Idle.born = {}
  BY DEF Idle
<1>3. Born = {}
  BY <1>1, <1>2 DEF Born
<1>4. HeldSet = {x \in RowId : FirstRow[x] # Unborn /\ FirstRow[x].active}
  BY <1>1, <1>2 DEF HeldSet, Held, Committed
<1> QED
  BY <1>1, <1>3, <1>4, IdleFits DEF TInv, FirstPlan, TurnOK

LEMMA TurnStep ==
    ASSUME IInv, TInv, OneAtATime, [Next]_vars
    PROVE  TInv'
<1>1. CASE UNCHANGED vars
  <2>1. HeldSet' = HeldSet /\ Born' = Born
    BY <1>1 DEF vars, HeldSet, Held, Committed, Born
  <2> QED
    BY <1>1, <2>1 DEF vars, TInv
<1>2. ASSUME NEW w \in Worker, Receive(w) PROVE TInv'
  <2>1. PICK a \in Actor :
            \/ \E bs \in (SUBSET Building) \ {{}}, e \in Executive :
                  StartAssign(w, a, bs, e) \/ StartImport(w, a, bs, e)
            \/ \E b \in Building, e \in Executive : StartPlan(w, a, b, e)
            \/ \E t \in TaskId, b \in Building, e \in Executive : StartMove(w, a, t, b, e)
            \/ \E t \in TaskId : StartDelete(w, a, t)
    BY <1>2 DEF Receive
  <2> QED
    BY <2>1, StartAssignTurn, StartImportTurn, StartPlanTurn, StartMoveTurn, StartDeleteTurn
<1>3. ASSUME NEW w \in Worker, Proceed(w) PROVE TInv'
  <2>1. CASE Recheck(w) /\ RollBack(w)
    BY <2>1, RollBackTurn DEF Recheck
  <2>2. CASE ~(Recheck(w) /\ RollBack(w))
    BY <1>3, <2>2, CheckTargetTurn, FindReplaceableTurn, LockTaskTurn, WriteTaskTurn, DropTaskTurn,
       LockBuildingTurn, FindPrevTurn, FindStrandedTurn, DropTurn, FindActiveTurn, CloseTurn,
       OpenTurn, PlantTurn, CreateTaskTurn, CommitTurn DEF Proceed
  <2> QED
    BY <2>1, <2>2
<1>4. ASSUME NEW w \in Worker, BreakDeadlock(w) \/ Fail(w) PROVE TInv'
  BY <1>4, RollBackTurn DEF BreakDeadlock, Fail
<1> QED
  BY <1>1, <1>2, <1>3, <1>4 DEF Next

\* While requests are taken one at a time, even if their transactions are rolled
\* back at any statement: after each request nobody has a visit planned at a
\* building somebody else holds, and nobody has the same visit planned twice.
THEOREM PlanStaysSoundInTurn ==
    ASSUME OneAtATime, FirstPlan
    PROVE  Spec => []PlanStaysSound
<1>1. Init => IInv /\ TInv
  BY InitOK, TurnInit
<1>2. IInv /\ TInv /\ [Next]_vars => IInv' /\ TInv'
  BY StepOK, TurnStep
<1>3. ASSUME IInv, TInv PROVE PlanStaysSound
  <2> SUFFICES ASSUME \A w \in Worker : req[w].at = "idle"
               PROVE  PlanStaysSound
    BY DEF PlanStaysSound, NoStrandedTask, NoTwinTask
  <2>1. Born = {}
    BY <1>3 DEF Born, TInv, TurnOK, SheetFits
  <2>2. PlanIsSound(row, HeldSet, task, {})
    BY <1>3, <2>1 DEF TInv
  <2>3. NoStrandedTask
    BY <2>2 DEF NoStrandedTask, PlanIsSound, HeldBy, HeldSet, HeldRows, IsTask, IsReal
  <2>4. NoTwinTask
    BY <2>2 DEF NoTwinTask, PlanIsSound, IsTask, IsReal
  <2> QED
    BY <2>3, <2>4 DEF PlanStaysSound
<1> QED
  BY <1>1, <1>2, <1>3, PTL DEF Spec

\* In turn, a hand-over drops the tasks of those it takes a building from, there
\* and nowhere else, an import what its person had planned; and nothing besides.
THEOREM OnlyStrandedAreDropped ==
    ASSUME OneAtATime, FirstPlan
    PROVE  Spec => DropsOnlyStranded
<1>1. Init => IInv /\ TInv
  BY InitOK, TurnInit
<1>2. IInv /\ TInv /\ [Next]_vars => IInv' /\ TInv'
  BY StepOK, TurnStep
<1>3. ASSUME IInv, TInv, NEW w \in Worker, NEW t \in TaskId, t \in req[w].gone, req[w].kind # "delete"
      PROVE  \/ task[t].b \in req[w].bs /\ task[t].who # req[w].who
             \/ t \in req[w].old /\ task[t].who = req[w].who
  BY <1>3 DEF TInv, TurnOK, DropsFit, SheetFits
<1>4. ASSUME IInv, TInv
      PROVE  \A w \in Worker, t \in TaskId :
                 t \in req[w].gone /\ IsTask(t) /\ task'[t] = Gone /\ req[w].kind # "delete" =>
                     \/ task[t].b \in req[w].bs /\ task[t].who # req[w].who
                     \/ t \in req[w].old /\ task[t].who = req[w].who
  BY <1>3, <1>4
<1> QED
  BY <1>1, <1>2, <1>4, PTL DEF Spec, DropsOnlyStranded

-----------------------------------------------------------------------------
(* Edits.                                                                  *)

LEMMA EditOf ==
    ASSUME IInv, EInv, NEW w \in Worker
    PROVE  /\ req[w] \in Request /\ LocalOK(req[w], row, HeldSet) /\ EditOK(req[w], task)
           /\ \A v \in Others(w) : /\ EditOK(req[v], task)
                                   /\ EditsApart(req[w], req[v]) /\ EditsApart(req[v], req[w])
           /\ \A r : Continue(w, r) => req'[w] = r /\ \A v \in Others(w) : req'[v] = req[v]
<1>1. req \in [Worker -> Request]
  BY DEF IInv, TypeOK
<1>2. \A r : Continue(w, r) => req'[w] = r /\ \A v \in Others(w) : req'[v] = req[v]
  BY <1>1 DEF Continue, Others
<1> QED
  BY <1>2, RequestOf DEF EInv, Others

\* One request goes on, the others see the tasks they edit as they were.
LEMMA EditGoes ==
    ASSUME IInv, EInv, NEW w \in Worker, NEW r, Continue(w, r), EditOK(r, task'),
           \A v \in Others(w) : EditOK(req[v], task') /\ EditsApart(r, req[v]) /\ EditsApart(req[v], r)
    PROVE  EInv'
<1>1. req'[w] = r /\ \A v \in Others(w) : req'[v] = req[v]
  BY EditOf
<1>2. ASSUME NEW v \in Worker PROVE EditOK(req'[v], task')
  <2>1. CASE v = w
    BY <1>1, <2>1
  <2>2. CASE v # w
    BY <1>1, <2>2 DEF Others
  <2> QED
    BY <2>1, <2>2
<1>3. ASSUME NEW u \in Worker, NEW v \in Worker, u # v PROVE EditsApart(req'[u], req'[v])
  <2>1. CASE u = w
    BY <1>1, <1>3, <2>1 DEF Others
  <2>2. CASE v = w
    BY <1>1, <1>3, <2>2 DEF Others
  <2>3. CASE u # w /\ v # w
    <3>1. EditsApart(req[u], req[v])
      BY <1>3 DEF EInv
    <3> QED
      BY <1>1, <2>3, <3>1 DEF Others
  <2> QED
    BY <2>1, <2>2, <2>3
<1> QED
  BY <1>2, <1>3 DEF EInv

\* A statement that writes no task and takes no lock on one.
LEMMA EditReads ==
    ASSUME IInv, EInv, NEW w \in Worker, NEW r, Continue(w, r), task' = task, EditOK(r, task),
           r.held = req[w].held, r.born = req[w].born, r.kind = req[w].kind, r.task = req[w].task
    PROVE  EInv'
<1>1. ASSUME NEW v \in Others(w)
      PROVE  EditOK(req[v], task') /\ EditsApart(r, req[v]) /\ EditsApart(req[v], r)
  BY EditOf DEF EditsApart
<1> QED
  BY <1>1, EditGoes

LEMMA IdleEdits ==
    /\ \A tasks : EditOK(Idle, tasks)
    /\ \A r : EditsApart(Idle, r) /\ EditsApart(r, Idle)
<1>1. Idle.kind = None /\ Idle.held = {} /\ Idle.born = {} /\ Idle.gone = {} /\ Idle.moved = FALSE
  BY DEF Idle
<1>2. None \notin {"move", "delete"}
  BY BuildingHandoverAssumption DEF Kind
<1>3. ASSUME NEW tasks PROVE EditOK(Idle, tasks)
  BY <1>1, <1>2 DEF EditOK
<1>4. ASSUME NEW r PROVE EditsApart(Idle, r) /\ EditsApart(r, Idle)
  BY <1>1, <1>2 DEF EditsApart
<1> QED
  BY <1>3, <1>4

LEMMA EditEnds ==
    ASSUME IInv, EInv, NEW w \in Worker, Continue(w, Idle), task' = task
    PROVE  EInv'
<1>1. \A v \in Others(w) : EditOK(req[v], task')
  BY EditOf
<1> QED
  BY <1>1, IdleEdits, EditGoes

LEMMA EditStarts ==
    ASSUME IInv, EInv, NEW w \in Worker, NEW r, Continue(w, r), task' = task,
           r.held = {}, r.born = {}, r.old = {}, r.gone = {}, r.drop = {}, r.prev = {}, r.moved = FALSE,
           r.kind = "move" => r.at = "target",
           r.kind = "delete" => r.at = "lock_task",
           r.kind \in {"move", "delete"} => r.task \in SeenBy(w)
    PROVE  EInv'
<1>1. r.kind \in {"move", "delete"} =>
          r.task \in TaskId /\ task[r.task] # Unborn /\ \A v \in Others(w) : r.task \notin req[v].born
  BY DEF SeenBy, IsTask
<1>2. EditOK(r, task)
  BY <1>1 DEF EditOK, Locked, Opening
<1>3. \A v \in Others(w) : EditOK(req[v], task') /\ EditsApart(r, req[v]) /\ EditsApart(req[v], r)
  BY <1>1, EditOf DEF EditsApart
<1> QED
  BY <1>2, <1>3, EditGoes

LEMMA ReceiveEdits ==
    ASSUME IInv, EInv, NEW w \in Worker, Receive(w)
    PROVE  EInv'
<1>1. PICK a \in Actor :
          \/ \E bs \in (SUBSET Building) \ {{}}, e \in Executive :
                StartAssign(w, a, bs, e) \/ StartImport(w, a, bs, e)
          \/ \E b \in Building, e \in Executive : StartPlan(w, a, b, e)
          \/ \E t \in TaskId, b \in Building, e \in Executive : StartMove(w, a, t, b, e)
          \/ \E t \in TaskId : StartDelete(w, a, t)
  BY DEF Receive
<1>2. ASSUME NEW r, Continue(w, r), task' = task, r.kind \in {"assign", "import", "plan"},
             r.held = {}, r.born = {}, r.old = {}, r.gone = {}, r.drop = {}, r.prev = {}, r.moved = FALSE
      PROVE  EInv'
  BY <1>2, EditStarts
<1>3. ASSUME NEW bs \in SUBSET Building, NEW e \in Executive, StartAssign(w, a, bs, e) PROVE EInv'
  <2>1. PICK r : r = [Idle EXCEPT !.at = Begin(a), !.kind = "assign", !.actor = a, !.who = e, !.bs = bs]
    OBVIOUS
  <2>2. /\ r.kind = "assign"
        /\ r.held = {} /\ r.born = {} /\ r.old = {} /\ r.gone = {} /\ r.drop = {} /\ r.prev = {} /\ r.moved = FALSE
    BY <2>1 DEF Idle
  <2>3. task' = task /\ Continue(w, r)
    BY <1>3, <2>1 DEF StartAssign
  <2> QED
    BY <1>2, <2>2, <2>3
<1>4. ASSUME NEW bs \in SUBSET Building, NEW e \in Executive, StartImport(w, a, bs, e) PROVE EInv'
  <2>1. PICK seen \in [bs -> Executive \cup {None}] : \E r :
            /\ Continue(w, r)
            /\ r = [Idle EXCEPT !.at = "replaceable", !.kind = "import", !.actor = a, !.who = e,
                                !.plan = bs, !.bs = {b \in bs : seen[b] # e}]
    BY <1>4 DEF StartImport
  <2>2. PICK r : /\ Continue(w, r)
                 /\ r = [Idle EXCEPT !.at = "replaceable", !.kind = "import", !.actor = a, !.who = e,
                                     !.plan = bs, !.bs = {b \in bs : seen[b] # e}]
    BY <2>1
  <2>3. /\ r.kind = "import"
        /\ r.held = {} /\ r.born = {} /\ r.old = {} /\ r.gone = {} /\ r.drop = {} /\ r.prev = {} /\ r.moved = FALSE
    BY <2>2 DEF Idle
  <2>4. task' = task
    BY <1>4 DEF StartImport
  <2> QED
    BY <1>2, <2>2, <2>3, <2>4
<1>5. ASSUME NEW b \in Building, NEW e \in Executive, StartPlan(w, a, b, e) PROVE EInv'
  <2>1. PICK h \in HolderSeen(w, b) : \E r :
            /\ Continue(w, r)
            /\ r = [Idle EXCEPT !.at = "target", !.kind = "plan", !.actor = a, !.who = e,
                                !.plan = {b}, !.bs = IF h = e THEN {} ELSE {b}]
    BY <1>5 DEF StartPlan
  <2>2. PICK r : /\ Continue(w, r)
                 /\ r = [Idle EXCEPT !.at = "target", !.kind = "plan", !.actor = a, !.who = e,
                                     !.plan = {b}, !.bs = IF h = e THEN {} ELSE {b}]
    BY <2>1
  <2>3. /\ r.kind = "plan"
        /\ r.held = {} /\ r.born = {} /\ r.old = {} /\ r.gone = {} /\ r.drop = {} /\ r.prev = {} /\ r.moved = FALSE
    BY <2>2 DEF Idle
  <2>4. task' = task
    BY <1>5 DEF StartPlan
  <2> QED
    BY <1>2, <2>2, <2>3, <2>4
<1>6. ASSUME NEW t \in TaskId, NEW b \in Building, NEW e \in Executive, StartMove(w, a, t, b, e) PROVE EInv'
  <2>1. PICK h \in HolderSeen(w, b) : \E r :
            /\ Continue(w, r)
            /\ r = [Idle EXCEPT !.at = "target", !.kind = "move", !.actor = a, !.who = e, !.plan = {b},
                                !.task = t, !.seen = task[t],
                                !.bs = IF h = e \/ (e = task[t].who /\ b = task[t].b) THEN {} ELSE {b}]
    BY <1>6 DEF StartMove
  <2>2. PICK r :
            /\ Continue(w, r)
            /\ r = [Idle EXCEPT !.at = "target", !.kind = "move", !.actor = a, !.who = e, !.plan = {b},
                                !.task = t, !.seen = task[t],
                                !.bs = IF h = e \/ (e = task[t].who /\ b = task[t].b) THEN {} ELSE {b}]
    BY <2>1
  <2>3. /\ r.at = "target" /\ r.kind = "move" /\ r.task = t
        /\ r.held = {} /\ r.born = {} /\ r.old = {} /\ r.gone = {} /\ r.drop = {} /\ r.prev = {} /\ r.moved = FALSE
    BY <2>2 DEF Idle
  <2>4. t \in SeenBy(w) /\ task' = task
    BY <1>6 DEF StartMove
  <2> QED
    BY <2>2, <2>3, <2>4, EditStarts
<1>7. ASSUME NEW t \in TaskId, StartDelete(w, a, t) PROVE EInv'
  <2>1. PICK r : r = [Idle EXCEPT !.at = "lock_task", !.kind = "delete", !.actor = a, !.task = t, !.seen = task[t]]
    OBVIOUS
  <2>2. /\ r.at = "lock_task" /\ r.kind = "delete" /\ r.task = t
        /\ r.held = {} /\ r.born = {} /\ r.old = {} /\ r.gone = {} /\ r.drop = {} /\ r.prev = {} /\ r.moved = FALSE
    BY <2>1 DEF Idle
  <2>3. t \in SeenBy(w) /\ task' = task /\ Continue(w, r)
    BY <1>7, <2>1 DEF StartDelete
  <2> QED
    BY <2>2, <2>3, EditStarts
<1> QED
  BY <1>1, <1>3, <1>4, <1>5, <1>6, <1>7

LEMMA CheckTargetEdits ==
    ASSUME IInv, EInv, NEW w \in Worker, CheckTarget(w)
    PROVE  EInv'
<1>1. PICK q : q = req[w]
  OBVIOUS
<1>2. /\ q.at = "target" /\ q \in Request /\ q.kind \in {"plan", "move"} /\ EditOK(q, task) /\ task' = task
  BY <1>1, EditOf DEF CheckTarget, LocalOK, WritesOK
<1>3. PICK at : /\ Continue(w, Idle) \/ Continue(w, [q EXCEPT !.at = at])
                /\ q.kind = "move" => at \in {"overwrite", "lock_task"}
  BY <1>1, <1>2 DEF CheckTarget, Goto, Refuse, Continue
<1>4. PICK r : r = [q EXCEPT !.at = at]
  OBVIOUS
<1>5. /\ r.at = at /\ r.kind = q.kind /\ r.task = q.task /\ r.born = q.born /\ r.old = q.old /\ r.gone = q.gone
      /\ r.held = q.held /\ r.drop = q.drop /\ r.prev = q.prev /\ r.who = q.who /\ r.moved = q.moved /\ r.seen = q.seen
  BY <1>2, <1>4 DEF Request
<1>6. EditOK(r, task)
  BY <1>2, <1>3, <1>5 DEF EditOK, Locked, Opening
<1> QED
  BY <1>1, <1>2, <1>3, <1>4, <1>5, <1>6, EditReads, EditEnds

LEMMA FindReplaceableEdits ==
    ASSUME IInv, EInv, NEW w \in Worker, FindReplaceable(w)
    PROVE  EInv'
<1>1. PICK q : q = req[w]
  OBVIOUS
<1>2. q.at = "replaceable" /\ q \in Request /\ EditOK(q, task) /\ task' = task
  BY <1>1, EditOf DEF FindReplaceable
<1>3. q.kind \notin {"move", "delete"}
  BY <1>2 DEF EditOK
<1>4. PICK old, at, drop : Continue(w, [q EXCEPT !.old = old, !.at = at, !.drop = drop])
  BY <1>1 DEF FindReplaceable
<1>5. PICK r : r = [q EXCEPT !.old = old, !.at = at, !.drop = drop]
  OBVIOUS
<1>6. r.kind = q.kind /\ r.task = q.task /\ r.born = q.born /\ r.gone = q.gone /\ r.held = q.held /\ r.moved = q.moved
  BY <1>2, <1>5 DEF Request
<1>7. EditOK(r, task)
  BY <1>2, <1>3, <1>6 DEF EditOK
<1> QED
  BY <1>1, <1>2, <1>4, <1>5, <1>6, <1>7, EditReads

\* From here on nobody else can write to the task.
LEMMA LockTaskEdits ==
    ASSUME IInv, EInv, NEW w \in Worker, LockTask(w) \/ Overwrite(w)
    PROVE  EInv'
<1>1. PICK q : q = req[w]
  OBVIOUS
<1>2. /\ q.at \in {"lock_task", "overwrite"} /\ q \in Request /\ q.kind \in {"move", "delete"}
      /\ EditOK(q, task) /\ task' = task
      /\ \A v \in Others(w) : q.task \notin req[v].held
  BY <1>1, EditOf DEF LockTask, Overwrite, LocalOK, WritesOK, TaskWaits
<1>3. \A v \in Others(w) : EditOK(req[v], task) /\ EditsApart(q, req[v]) /\ EditsApart(req[v], q)
  BY <1>1, EditOf
<1>4. CASE Continue(w, Idle)
  BY <1>2, <1>4, EditEnds
<1>5. CASE ~Continue(w, Idle)
  <2>1. PICK at : /\ at \in {"drop_task", "write_task"}
                  /\ Continue(w, [q EXCEPT !.held = {q.task}, !.seen = task[q.task], !.at = at])
    <3>1. CASE LockTask(w)
      <4>1. task[q.task] = q.seen
        BY <1>1, <1>5, <3>1 DEF LockTask, Refuse
      <4> DEFINE at == IF q.kind = "delete" THEN "drop_task" ELSE "write_task"
      <4>2. Continue(w, [q EXCEPT !.held = {q.task}, !.at = at])
        BY <1>1, <1>5, <3>1 DEF LockTask, Refuse
      <4>3. at \in {"drop_task", "write_task"}
        OBVIOUS
      <4> HIDE DEF at
      <4>4. [q EXCEPT !.held = {q.task}, !.at = at] = [q EXCEPT !.held = {q.task}, !.seen = task[q.task], !.at = at]
        BY <1>2, <4>1 DEF Request
      <4> QED
        BY <4>2, <4>3, <4>4
    <3>2. CASE Overwrite(w)
      BY <1>1, <1>5, <3>2 DEF Overwrite, Refuse
    <3> QED
      BY <3>1, <3>2
  <2>2. PICK r : r = [q EXCEPT !.held = {q.task}, !.seen = task[q.task], !.at = at]
    OBVIOUS
  <2>3. /\ r.at = at /\ r.held = {q.task} /\ r.seen = task[q.task]
        /\ r.kind = q.kind /\ r.task = q.task /\ r.born = q.born /\ r.old = q.old /\ r.gone = q.gone
        /\ r.drop = q.drop /\ r.prev = q.prev /\ r.who = q.who /\ r.moved = q.moved
    BY <1>2, <2>2 DEF Request
  <2>4. EditOK(r, task)
    BY <1>2, <2>1, <2>3 DEF EditOK, Locked, Opening
  <2>5. \A v \in Others(w) : EditsApart(r, req[v]) /\ EditsApart(req[v], r)
    BY <1>2, <1>3, <2>3 DEF EditsApart
  <2> QED
    BY <1>2, <1>3, <2>1, <2>2, <2>4, <2>5, EditGoes
<1> QED
  BY <1>4, <1>5

LEMMA WriteTaskEdits ==
    ASSUME IInv, EInv, NEW w \in Worker, WriteTask(w) \/ DropTask(w)
    PROVE  EInv'
<1>1. PICK q : q = req[w]
  OBVIOUS
<1>2. /\ q.at \in {"write_task", "drop_task"} /\ q \in Request /\ EditOK(q, task) /\ task' = task
      /\ q.at = "write_task" => q.kind = "move"
      /\ q.at = "drop_task" => q.kind = "delete"
  BY <1>1, EditOf DEF WriteTask, DropTask, LocalOK, WritesOK
<1>3. CASE WriteTask(w)
  <2>1. PICK r : /\ Continue(w, r)
                 /\ r = [q EXCEPT !.moved = TRUE, !.shared = NewSite(w),
                                  !.at = IF q.bs = {} THEN "commit" ELSE Begin(q.actor)]
    BY <1>1, <1>3 DEF WriteTask
  <2>2. /\ r.at \in {"commit", "lock", "prev"} /\ r.moved /\ q.at = "write_task"
        /\ r.kind = q.kind /\ r.task = q.task /\ r.born = q.born /\ r.old = q.old /\ r.gone = q.gone
        /\ r.held = q.held /\ r.drop = q.drop /\ r.prev = q.prev /\ r.who = q.who /\ r.seen = q.seen
    BY <1>1, <1>2, <1>3, <2>1 DEF Request, Begin, WriteTask
  <2>3. EditOK(r, task)
    BY <1>2, <2>2 DEF EditOK
  <2> QED
    BY <1>1, <1>2, <2>1, <2>2, <2>3, EditReads
<1>4. CASE DropTask(w)
  <2>1. PICK r : Continue(w, r) /\ r = [q EXCEPT !.gone = {q.task}, !.at = "commit"]
    BY <1>1, <1>4 DEF DropTask
  <2>2. /\ r.at = "commit" /\ r.gone = {q.task} /\ q.kind = "delete" /\ q.at = "drop_task"
        /\ r.kind = q.kind /\ r.task = q.task /\ r.born = q.born /\ r.old = q.old
        /\ r.held = q.held /\ r.moved = q.moved /\ r.seen = q.seen
    BY <1>1, <1>2, <1>4, <2>1 DEF Request, DropTask
  <2>3. EditOK(r, task)
    BY <1>2, <2>2 DEF EditOK
  <2> QED
    BY <1>1, <1>2, <2>1, <2>2, <2>3, EditReads
<1> QED
  BY <1>3, <1>4

LEMMA LockBuildingEdits ==
    ASSUME IInv, EInv, NEW w \in Worker,
           LockBuilding(w) \/ (Recheck(w) /\ ~RollBack(w))
    PROVE  EInv'
<1>1. PICK q : q = req[w]
  OBVIOUS
<1>2. q.at \in {"lock", "recheck"} /\ q \in Request /\ EditOK(q, task) /\ task' = task
  BY <1>1, EditOf DEF LockBuilding, Recheck
<1>3. PICK locked, at : at \in {"lock", "recheck", "prev"} /\ Continue(w, [q EXCEPT !.locked = locked, !.at = at])
  <2>1. CASE LockBuilding(w)
    BY <1>1, <2>1 DEF LockBuilding
  <2>2. CASE Recheck(w) /\ ~RollBack(w)
    <3>1. Continue(w, [q EXCEPT !.at = "prev"])
      BY <1>1, <2>2 DEF Recheck, Goto, Continue
    <3>2. [q EXCEPT !.at = "prev"] = [q EXCEPT !.locked = q.locked, !.at = "prev"]
      BY <1>2 DEF Request
    <3> QED
      BY <3>1, <3>2
  <2> QED
    BY <2>1, <2>2
<1>4. PICK r : r = [q EXCEPT !.locked = locked, !.at = at]
  OBVIOUS
<1>5. /\ r.at = at /\ r.kind = q.kind /\ r.task = q.task /\ r.born = q.born /\ r.old = q.old /\ r.gone = q.gone
      /\ r.held = q.held /\ r.drop = q.drop /\ r.prev = q.prev /\ r.who = q.who /\ r.moved = q.moved /\ r.seen = q.seen
  BY <1>2, <1>4 DEF Request
<1>6. EditOK(r, task)
  BY <1>2, <1>3, <1>5 DEF EditOK, Locked, Opening
<1> QED
  BY <1>1, <1>2, <1>3, <1>4, <1>5, <1>6, EditReads

LEMMA FindPrevEdits ==
    ASSUME IInv, EInv, NEW w \in Worker, FindPrev(w)
    PROVE  EInv'
<1>1. PICK q : q = req[w]
  OBVIOUS
<1>2. q.at = "prev" /\ q \in Request /\ EditOK(q, task) /\ task' = task
  BY <1>1, EditOf DEF FindPrev
<1> DEFINE found == UNION {{<<row[x].holder, b>> : x \in {y \in ActiveTo(w, b) : row[y].holder # req[w].who}} : b \in req[w].bs}
<1>3. Continue(w, [req[w] EXCEPT !.prev = found, !.at = IF found = {} THEN "close" ELSE "stranded"])
  BY DEF FindPrev
<1>4. \A p \in found : p[1] # q.who
  BY <1>1
<1> HIDE DEF found
<1>5. PICK r : Continue(w, r) /\ r = [q EXCEPT !.prev = found, !.at = IF found = {} THEN "close" ELSE "stranded"]
  BY <1>1, <1>3
<1>6. /\ r.at \in {"close", "stranded"} /\ r.prev = found
      /\ r.kind = q.kind /\ r.task = q.task /\ r.born = q.born /\ r.old = q.old /\ r.gone = q.gone
      /\ r.held = q.held /\ r.drop = q.drop /\ r.who = q.who /\ r.moved = q.moved /\ r.seen = q.seen
  BY <1>2, <1>5 DEF Request
<1>7. EditOK(r, task)
  BY <1>2, <1>4, <1>6 DEF EditOK, Locked
<1> QED
  BY <1>1, <1>2, <1>5, <1>6, <1>7, EditReads

\* The task it has moved is its own person's, who is none of the previous holders.
LEMMA FindStrandedEdits ==
    ASSUME IInv, EInv, NEW w \in Worker, FindStranded(w)
    PROVE  EInv'
<1>1. PICK q : q = req[w]
  OBVIOUS
<1>2. q.at = "stranded" /\ q \in Request /\ EditOK(q, task) /\ task' = task
  BY <1>1, EditOf DEF FindStranded
<1>3. PICK drop : drop = {t \in SeenBy(w) : <<TaskTo(w, t).who, TaskTo(w, t).b>> \in q.prev}
  OBVIOUS
<1>4. q.kind = "move" => q.task \notin drop
  <2> SUFFICES ASSUME q.kind = "move", q.task \in drop PROVE FALSE
    OBVIOUS
  <2>1. q.moved
    BY <1>2 DEF EditOK, Locked
  <2>2. TaskTo(w, q.task).who = q.who
    BY <1>1, <2>1 DEF TaskTo, Moved
  <2>3. <<TaskTo(w, q.task).who, TaskTo(w, q.task).b>> \in q.prev
    BY <1>3
  <2>4. \A p \in q.prev : p[1] # q.who
    BY <1>2 DEF EditOK
  <2> QED
    BY <2>2, <2>3, <2>4
<1>5. PICK r : /\ Continue(w, r)
               /\ r = [q EXCEPT !.drop = drop, !.prev = {}, !.at = IF drop = {} THEN "close" ELSE "release"]
  BY <1>1, <1>3 DEF FindStranded
<1>6. /\ r.at \in {"close", "release"} /\ r.prev = {} /\ r.drop = drop
      /\ r.kind = q.kind /\ r.task = q.task /\ r.born = q.born /\ r.old = q.old /\ r.gone = q.gone
      /\ r.held = q.held /\ r.who = q.who /\ r.moved = q.moved /\ r.seen = q.seen
  BY <1>2, <1>5 DEF Request
<1>7. EditOK(r, task)
  BY <1>2, <1>4, <1>6 DEF EditOK, Locked
<1> QED
  BY <1>1, <1>2, <1>5, <1>6, <1>7, EditReads

\* It locks what it deletes, once nobody else has it locked.
LEMMA DropEdits ==
    ASSUME IInv, EInv, NEW w \in Worker, Drop(w)
    PROVE  EInv'
<1>1. PICK q : q = req[w]
  OBVIOUS
<1>2. q.at \in {"release", "replace"} /\ q \in Request /\ EditOK(q, task) /\ task' = task
  BY <1>1, EditOf DEF Drop
<1> DEFINE Drops(drop, gone, held, at) ==
               /\ drop \subseteq q.drop /\ gone \subseteq q.gone \cup q.drop
               /\ q.held \subseteq held /\ gone \subseteq held
               /\ \A v \in Others(w) : held \cap req[v].held = {}
               /\ at \in {q.at, AfterDrop(q.at)}
               /\ Continue(w, [q EXCEPT !.drop = drop, !.gone = gone, !.held = held, !.at = at])
<1>3. \E drop, gone, held, at : Drops(drop, gone, held, at)
  <2>1. q.gone \subseteq q.held /\ \A v \in Others(w) : q.held \cap req[v].held = {}
    BY <1>1, <1>2, EditOf DEF EditOK, EditsApart
  <2>2. CASE q.drop = {} /\ Goto(w, AfterDrop(q.at))
    <3>1. [q EXCEPT !.at = AfterDrop(q.at)]
            = [q EXCEPT !.drop = {}, !.gone = q.gone, !.held = q.held, !.at = AfterDrop(q.at)]
      BY <1>2, <2>2 DEF Request
    <3>2. Continue(w, [q EXCEPT !.at = AfterDrop(q.at)])
      BY <1>1, <2>2 DEF Goto, Continue
    <3>3. Drops({}, q.gone, q.held, AfterDrop(q.at))
      BY <2>1, <3>1, <3>2
    <3> HIDE DEF Drops
    <3> QED
      BY <3>3
  <2>3. CASE ~(q.drop = {} /\ Goto(w, AfterDrop(q.at)))
    <3> DEFINE hit(t) == {t} \ {u \in TaskId : ~IsTask(u)}
               at(t) == IF q.drop = {t} THEN AfterDrop(q.at) ELSE q.at
    <3>1. PICK t \in q.drop :
              /\ TaskWaits(w, t) = {}
              /\ Continue(w, [q EXCEPT !.drop = @ \ {t}, !.gone = @ \cup hit(t), !.held = @ \cup hit(t), !.at = at(t)])
      BY <1>1, <2>3 DEF Drop
    <3>2. hit(t) \subseteq {t} /\ at(t) \in {q.at, AfterDrop(q.at)}
      OBVIOUS
    <3>3. \A v \in Others(w) : t \notin req[v].held
      BY <3>1 DEF TaskWaits
    <3> HIDE DEF hit, at
    <3>4. Continue(w, [q EXCEPT !.drop = q.drop \ {t}, !.gone = q.gone \cup hit(t), !.held = q.held \cup hit(t), !.at = at(t)])
      BY <1>2, <3>1 DEF Request
    <3>5. \A v \in Others(w) : (q.held \cup hit(t)) \cap req[v].held = {}
      BY <2>1, <3>2, <3>3
    <3>6. Drops(q.drop \ {t}, q.gone \cup hit(t), q.held \cup hit(t), at(t))
      BY <2>1, <3>1, <3>2, <3>4, <3>5
    <3> HIDE DEF Drops
    <3> QED
      BY <3>6
  <2> QED
    BY <2>2, <2>3
<1>4. PICK drop, gone, held, at : Drops(drop, gone, held, at)
  BY <1>3
<1>5. PICK r : r = [q EXCEPT !.drop = drop, !.gone = gone, !.held = held, !.at = at]
  OBVIOUS
<1>6. /\ r.at = at /\ r.drop = drop /\ r.gone = gone /\ r.held = held
      /\ r.kind = q.kind /\ r.task = q.task /\ r.born = q.born /\ r.old = q.old
      /\ r.prev = q.prev /\ r.who = q.who /\ r.moved = q.moved /\ r.seen = q.seen
  BY <1>2, <1>5 DEF Request
<1>7. q.kind \in {"move", "delete"} => at \in {"release", "close"}
  BY <1>2, <1>4 DEF EditOK, AfterDrop
<1>8. EditOK(r, task)
  BY <1>2, <1>4, <1>6, <1>7 DEF EditOK, Locked
<1>9. ASSUME NEW v \in Others(w)
      PROVE  EditOK(req[v], task') /\ EditsApart(r, req[v]) /\ EditsApart(req[v], r)
  <2>1. EditOK(req[v], task) /\ EditsApart(q, req[v]) /\ EditsApart(req[v], q)
    BY <1>1, EditOf
  <2>2. held \cap req[v].held = {}
    BY <1>4
  <2> QED
    BY <1>2, <1>6, <2>1, <2>2 DEF EditsApart
<1> QED
  BY <1>2, <1>4, <1>5, <1>8, <1>9, EditGoes

LEMMA FindActiveEdits ==
    ASSUME IInv, EInv, NEW w \in Worker, FindActive(w) \/ Close(w)
    PROVE  EInv'
<1>1. PICK q : q = req[w]
  OBVIOUS
<1>2. q.at \in {"close", "closing"} /\ q \in Request /\ EditOK(q, task) /\ task' = task
  BY <1>1, EditOf DEF FindActive, Close
<1>3. PICK shut, closed, at :
          /\ at \in {"closing", "assign"}
          /\ Continue(w, [q EXCEPT !.shut = shut, !.closed = closed, !.at = at])
  <2>1. CASE FindActive(w)
    <3> DEFINE shut == UNION {ActiveTo(w, b) : b \in q.bs}
               at == IF shut = {} THEN "assign" ELSE "closing"
    <3>1. Continue(w, [q EXCEPT !.shut = shut, !.at = at])
      BY <1>1, <2>1 DEF FindActive
    <3>2. at \in {"closing", "assign"}
      OBVIOUS
    <3> HIDE DEF shut, at
    <3>3. [q EXCEPT !.shut = shut, !.at = at] = [q EXCEPT !.shut = shut, !.closed = q.closed, !.at = at]
      BY <1>2 DEF Request
    <3> QED
      BY <3>1, <3>2, <3>3
  <2>2. CASE Close(w)
    <3>1. q.at = "closing"
      BY <1>1, <2>2 DEF Close
    <3> QED
      BY <1>1, <2>2, <3>1 DEF Close
  <2> QED
    BY <2>1, <2>2
<1>4. PICK r : r = [q EXCEPT !.shut = shut, !.closed = closed, !.at = at]
  OBVIOUS
<1>5. /\ r.at = at /\ r.kind = q.kind /\ r.task = q.task /\ r.born = q.born /\ r.old = q.old /\ r.gone = q.gone
      /\ r.held = q.held /\ r.drop = q.drop /\ r.prev = q.prev /\ r.who = q.who /\ r.moved = q.moved /\ r.seen = q.seen
  BY <1>2, <1>4 DEF Request
<1>6. EditOK(r, task)
  BY <1>2, <1>3, <1>5 DEF EditOK, Locked, Opening
<1> QED
  BY <1>1, <1>2, <1>3, <1>4, <1>5, <1>6, EditReads

LEMMA OpenEdits ==
    ASSUME IInv, EInv, NEW w \in Worker, Open(w)
    PROVE  EInv'
<1>1. PICK q : q = req[w]
  OBVIOUS
<1>2. q.at = "assign" /\ q \in Request /\ EditOK(q, task) /\ task' = task
  BY <1>1, EditOf DEF Open
<1>3. PICK opened, shared, at, drop :
          /\ at \in {"assign", "replace", "commit"} /\ (at = "replace" => q.kind = "import")
          /\ drop \in {q.drop, q.old \ q.gone}
          /\ Continue(w, [q EXCEPT !.opened = opened, !.shared = shared, !.at = at, !.drop = drop])
  <2>1. PICK b \in ToOpen(w) : \E x :
            Continue(w, [q EXCEPT
                !.opened = q.opened \cup {x}, !.shared = q.shared \cup {b},
                !.at = IF ToOpen(w) # {b} THEN "assign" ELSE IF q.kind = "import" THEN "replace" ELSE "commit",
                !.drop = IF ToOpen(w) = {b} THEN q.old \ q.gone ELSE q.drop])
    BY <1>1, <1>2 DEF Open, Request
  <2> QED
    BY <2>1
<1>4. PICK r : r = [q EXCEPT !.opened = opened, !.shared = shared, !.at = at, !.drop = drop]
  OBVIOUS
<1>5. /\ r.at = at /\ r.drop = drop /\ r.kind = q.kind /\ r.task = q.task /\ r.born = q.born /\ r.old = q.old
      /\ r.gone = q.gone /\ r.held = q.held /\ r.prev = q.prev /\ r.who = q.who /\ r.moved = q.moved /\ r.seen = q.seen
  BY <1>2, <1>4 DEF Request
<1>6. EditOK(r, task)
  BY <1>2, <1>3, <1>5 DEF EditOK, Opening
<1> QED
  BY <1>1, <1>2, <1>3, <1>4, <1>5, <1>6, EditReads

\* A new task is nobody else's to edit.
LEMMA FreshEdits ==
    ASSUME IInv, EInv, NEW w \in Worker, NEW t \in FreshTasks, NEW new,
           task' = [task EXCEPT ![t] = new], NEW v \in Others(w)
    PROVE  EditOK(req[v], task') /\ (req[v].kind \in {"move", "delete"} => req[v].task # t)
<1>1. t \in TaskId /\ task[t] = Unborn /\ task \in [TaskId -> Task \cup {Unborn, Gone}]
  BY DEF FreshTasks, IInv, TypeOK
<1>2. EditOK(req[v], task)
  BY EditOf
<1>3. req[v].kind \in {"move", "delete"} => req[v].task # t /\ task'[req[v].task] = task[req[v].task]
  BY <1>1, <1>2 DEF EditOK
<1> QED
  BY <1>2, <1>3 DEF EditOK

LEMMA PlantEdits ==
    ASSUME IInv, EInv, NEW w \in Worker, Plant(w)
    PROVE  EInv'
<1>1. PICK q : q = req[w]
  OBVIOUS
<1>2. q.at = "plant" /\ q \in Request /\ EditOK(q, task)
  BY <1>1, EditOf DEF Plant
<1>3. q.kind \notin {"move", "delete"}
  BY <1>2 DEF EditOK
<1>4. PICK t \in FreshTasks : t = CHOOSE u \in FreshTasks : TRUE
  BY DEF Plant
<1>5. PICK b \in ToPlant(w) :
          /\ task' = [task EXCEPT ![t] = [who |-> q.who, b |-> b, version |-> 0]]
          /\ Continue(w, [q EXCEPT !.born = @ \cup {t}, !.shared = @ \cup {b},
                                   !.at = IF ToPlant(w) = {b} THEN "commit" ELSE @])
  BY <1>1, <1>4 DEF Plant
<1>6. PICK r : r = [q EXCEPT !.born = @ \cup {t}, !.shared = @ \cup {b},
                             !.at = IF ToPlant(w) = {b} THEN "commit" ELSE @]
  OBVIOUS
<1>7. /\ r.kind = q.kind /\ r.task = q.task /\ r.born = q.born \cup {t} /\ r.gone = q.gone
      /\ r.held = q.held /\ r.moved = q.moved
  BY <1>2, <1>6 DEF Request
<1>8. EditOK(r, task')
  BY <1>2, <1>3, <1>7 DEF EditOK
<1>9. ASSUME NEW v \in Others(w)
      PROVE  EditOK(req[v], task') /\ EditsApart(r, req[v]) /\ EditsApart(req[v], r)
  <2>1. EditOK(req[v], task') /\ (req[v].kind \in {"move", "delete"} => req[v].task # t)
    BY <1>5, FreshEdits
  <2>2. EditsApart(q, req[v]) /\ EditsApart(req[v], q)
    BY <1>1, EditOf
  <2> QED
    BY <1>3, <1>7, <2>1, <2>2 DEF EditsApart
<1> QED
  BY <1>5, <1>6, <1>8, <1>9, EditGoes

LEMMA CreateTaskEdits ==
    ASSUME IInv, EInv, NEW w \in Worker, CreateTask(w)
    PROVE  EInv'
<1>1. PICK t \in FreshTasks : t = CHOOSE u \in FreshTasks : TRUE
  BY DEF CreateTask
<1>2. PICK new : task' = [task EXCEPT ![t] = new]
  BY <1>1 DEF CreateTask
<1>3. \A v \in Others(w) : EditOK(req[v], task')
  BY <1>2, FreshEdits
<1>4. Continue(w, Idle)
  BY DEF CreateTask
<1> QED
  BY <1>3, <1>4, IdleEdits, EditGoes

\* A commit writes the tasks that are locked, and no others.
LEMMA CommitEdits ==
    ASSUME IInv, EInv, NEW w \in Worker, Commit(w)
    PROVE  EInv'
<1>1. PICK q : q = req[w]
  OBVIOUS
<1>2. q.at = "commit" /\ q \in Request /\ EditOK(q, task)
      /\ task' = [t \in TaskId |-> IF t \in q.gone THEN Gone ELSE IF q.moved /\ t = q.task THEN Moved(q) ELSE task[t]]
  BY <1>1, EditOf DEF Commit
<1>3. \A t \in TaskId : t \notin q.held => task'[t] = task[t]
  BY <1>2 DEF EditOK
<1>4. \A t \in TaskId : task[t] # Unborn => task'[t] # Unborn
  <2>1. Gone # Unborn /\ Moved(q) # Unborn
    BY DEF Gone, Unborn, Moved
  <2> QED
    BY <1>2, <2>1
<1>5. ASSUME NEW v \in Others(w) PROVE EditOK(req[v], task')
  <2>1. EditOK(req[v], task) /\ q.held \cap req[v].held = {}
    BY <1>1, EditOf DEF EditsApart
  <2> QED
    BY <1>3, <1>4, <2>1 DEF EditOK
<1>6. PICK r : /\ Continue(w, r)
               /\ r.kind \notin {"move", "delete"}
               /\ r.held = {} /\ r.gone = {} /\ r.born = {} /\ r.moved = FALSE
  <2>1. CASE q.kind # "plan"
    <3>1. Continue(w, Idle)
      BY <1>1, <2>1 DEF Commit
    <3>2. /\ Idle.kind = None /\ None \notin {"move", "delete"}
          /\ Idle.held = {} /\ Idle.gone = {} /\ Idle.born = {} /\ Idle.moved = FALSE
      BY BuildingHandoverAssumption DEF Idle, Kind
    <3> QED
      BY <3>1, <3>2
  <2>2. CASE q.kind = "plan"
    <3>1. PICK r : r = [Idle EXCEPT !.at = "create", !.kind = "plan", !.actor = q.actor, !.who = q.who, !.plan = q.plan]
      OBVIOUS
    <3>2. Continue(w, r)
      BY <1>1, <2>2, <3>1 DEF Commit
    <3>3. r.kind = "plan" /\ r.held = {} /\ r.gone = {} /\ r.born = {} /\ r.moved = FALSE
      BY <3>1 DEF Idle
    <3> QED
      BY <3>2, <3>3
  <2> QED
    BY <2>1, <2>2
<1>7. EditOK(r, task')
  BY <1>6 DEF EditOK
<1>8. \A v \in Others(w) : EditsApart(r, req[v]) /\ EditsApart(req[v], r)
  BY <1>6 DEF EditsApart
<1> QED
  BY <1>5, <1>6, <1>7, <1>8, EditGoes

LEMMA RollBackEdits ==
    ASSUME IInv, EInv, NEW w \in Worker, RollBack(w)
    PROVE  EInv'
<1>1. \A t \in TaskId : t \notin req[w].born => task'[t] = task[t]
  BY DEF RollBack
<1>2. ASSUME NEW v \in Others(w) PROVE EditOK(req[v], task')
  <2>1. EditOK(req[v], task) /\ EditsApart(req[v], req[w])
    BY EditOf
  <2> QED
    BY <1>1, <2>1 DEF EditOK, EditsApart
<1>3. Continue(w, Idle)
  BY DEF RollBack
<1> QED
  BY <1>2, <1>3, IdleEdits, EditGoes

-----------------------------------------------------------------------------
(* What becomes of edits.                                                  *)

LEMMA EditInit == Init => EInv
  BY IdleEdits DEF Init, EInv

LEMMA EditStep ==
    ASSUME IInv, EInv, [Next]_vars
    PROVE  EInv'
<1>1. CASE UNCHANGED vars
  BY <1>1 DEF vars, EInv
<1>2. ASSUME NEW w \in Worker, Proceed(w) PROVE EInv'
  <2>1. CASE Recheck(w) /\ RollBack(w)
    BY <2>1, RollBackEdits
  <2>2. CASE ~(Recheck(w) /\ RollBack(w))
    BY <1>2, <2>2, CheckTargetEdits, FindReplaceableEdits, LockTaskEdits, WriteTaskEdits,
       LockBuildingEdits, FindPrevEdits, FindStrandedEdits, DropEdits, FindActiveEdits,
       OpenEdits, PlantEdits, CreateTaskEdits, CommitEdits DEF Proceed
  <2> QED
    BY <2>1, <2>2
<1>3. ASSUME NEW w \in Worker, BreakDeadlock(w) \/ Fail(w) PROVE EInv'
  BY <1>3, RollBackEdits DEF BreakDeadlock, Fail
<1> QED
  BY <1>1, <1>2, <1>3, ReceiveEdits DEF Next

\* One whose transaction only has to be committed waits for nobody.
LEMMA CommitWaitsForNone ==
    ASSUME NEW w, req[w].at = "commit"
    PROVE  ~Deadlocked(w)
<1>1. Waits(w) = {}
  BY DEF Waits
<1>2. WaitsFor(w) = {}
  BY <1>1 DEF WaitsFor
<1> QED
  BY <1>2 DEF Deadlocked

\* Only its own request takes a transaction past its commit, and only by it.
LEMMA OnlyCommitEnds ==
    ASSUME IInv, [Next]_vars, ~MayFail, NEW w \in Worker, req[w].at = "commit", req'[w] # req[w]
    PROVE  Commit(w)
<1>1. PICK v \in Worker : Receive(v) \/ Proceed(v) \/ BreakDeadlock(v)
  <2>1. Next
    BY DEF vars
  <2>2. PICK v \in Worker : Receive(v) \/ Proceed(v) \/ BreakDeadlock(v) \/ Fail(v)
    BY <2>1 DEF Next
  <2>3. ~Fail(v)
    BY DEF Fail
  <2> QED
    BY <2>2, <2>3
<1>2. \E r : Continue(v, r)
  <2>1. \A at : Goto(v, at) => Continue(v, [req[v] EXCEPT !.at = at])
    BY DEF Goto, Continue
  <2>2. CASE Receive(v)
    <3>1. PICK a \in Actor :
              \/ \E bs \in (SUBSET Building) \ {{}}, e \in Executive :
                    StartAssign(v, a, bs, e) \/ StartImport(v, a, bs, e)
              \/ \E b \in Building, e \in Executive : StartPlan(v, a, b, e)
              \/ \E t \in TaskId, b \in Building, e \in Executive : StartMove(v, a, t, b, e)
              \/ \E t \in TaskId : StartDelete(v, a, t)
      BY <2>2 DEF Receive
    <3> QED
      BY <3>1 DEF StartAssign, StartImport, StartPlan, StartMove, StartDelete
  <2>3. CASE CheckTarget(v) \/ FindReplaceable(v) \/ LockTask(v) \/ Overwrite(v) \/ WriteTask(v) \/ DropTask(v)
    BY <2>1, <2>3 DEF CheckTarget, FindReplaceable, LockTask, Overwrite, WriteTask, DropTask, Refuse
  <2>4. CASE LockBuilding(v) \/ Recheck(v) \/ FindPrev(v) \/ FindStranded(v) \/ Drop(v) \/ BreakDeadlock(v)
    BY <2>1, <2>4 DEF LockBuilding, Recheck, FindPrev, FindStranded, Drop, BreakDeadlock, RollBack
  <2>5. CASE FindActive(v) \/ Close(v) \/ Open(v) \/ Plant(v) \/ Commit(v) \/ CreateTask(v)
    BY <2>5 DEF FindActive, Close, Open, Plant, Commit, CreateTask
  <2> QED
    BY <1>1, <2>2, <2>3, <2>4, <2>5 DEF Proceed
<1>3. v = w
  BY <1>2 DEF Continue, IInv, TypeOK
<1>4. ~Receive(w)
  BY DEF Receive, StartAssign, StartImport, StartPlan, StartMove, StartDelete, Start
<1>5. ~BreakDeadlock(w)
  BY CommitWaitsForNone DEF BreakDeadlock
<1> QED
  BY <1>1, <1>3, <1>4, <1>5 DEF
       Proceed, CheckTarget, FindReplaceable, LockTask, Overwrite, WriteTask, DropTask,
       LockBuilding, Recheck, FindPrev, FindStranded, Drop, FindActive, Close, Open, Plant, CreateTask

\* Whatever requests overlap, an edit that goes through leaves its task planned
\* as asked, and neither an edit nor a deletion writes over a change made since
\* it read the task.
THEOREM EditsLand ==
    ASSUME ~MayFail
    PROVE  Spec => EditLands
<1>1. Init => IInv /\ EInv
  BY InitOK, EditInit
<1>2. IInv /\ EInv /\ [Next]_vars => IInv' /\ EInv'
  BY StepOK, EditStep
<1>3. ASSUME IInv, EInv, [Next]_vars, NEW w \in Worker, req[w].at = "commit", req'[w] # req[w]
      PROVE  /\ req[w].kind = "move" => task'[req[w].task] = Moved(req[w])
             /\ req[w].kind \in {"move", "delete"} => task[req[w].task] = req[w].seen
  <2>1. Commit(w)
    BY <1>3, OnlyCommitEnds
  <2>2. EditOK(req[w], task)
    BY <1>3, EditOf
  <2>3. CASE req[w].kind = "move"
    <3>1. req[w].moved /\ req[w].task \in TaskId /\ req[w].task \notin req[w].gone
      BY <1>3, <2>2, <2>3 DEF EditOK, Opening
    <3> QED
      BY <1>3, <2>1, <2>2, <2>3, <3>1 DEF Commit, EditOK
  <2>4. CASE req[w].kind = "delete"
    BY <1>3, <2>2, <2>4 DEF EditOK
  <2> QED
    BY <2>3, <2>4
<1>4. ASSUME IInv, EInv, [Next]_vars
      PROVE  \A w \in Worker :
                 LET r == req[w] IN
                 r.at = "commit" /\ req'[w] # r =>
                     /\ r.kind = "move" => task'[r.task] = Moved(r)
                     /\ r.kind \in {"move", "delete"} => task[r.task] = r.seen
  BY <1>3, <1>4
<1> QED
  BY <1>1, <1>2, <1>4, PTL DEF Spec, EditLands
=============================================================================
