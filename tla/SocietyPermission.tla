------------------------- MODULE SocietyPermission -------------------------
(***************************************************************************)
(* Society permissions (src/src/modules/permission-buildings and the       *)
(* society branches of src/src/modules/buildings/building.service.js).     *)
(*                                                                         *)
(* A Permission Executive adds a society and visits it; once its status is *)
(* ACCEPTED it waits for an admin, who approves it into a zone.  Then the  *)
(* zone's surveyor surveys it, an admin approves the materials, and it is  *)
(* marked live.                                                            *)
(*                                                                         *)
(* Every request first reads the row to decide whether its actor may       *)
(* proceed (Start), and then works in one transaction that locks the row,  *)
(* reads it again and checks again.  Between the two, anyone may work on   *)
(* the same row.  A request is refused or fails at any time without effect *)
(* (Drop): a duplicate found in the zone, a remark that is missing.        *)
(***************************************************************************)
EXTENDS Naturals, FiniteSets, TLC

CONSTANTS
    Worker,     \* requests being served
    Society,    \* the rows, as ids
    Zone,
    Actor,
    RoleOf,     \* the role of each actor
    ZonesOf,    \* the zones given to each actor
    None, Keep, \* null, and a field the request leaves out
    Gone        \* a row that was deleted

ASSUME RolesAssumption == RoleOf \in [Actor -> STRING] /\ ZonesOf \in [Actor -> SUBSET Zone]

VARIABLES
    society,    \* the Building row of each society, None before there is one
    told,       \* the newest of its approval rows in the history, by createdAt
    swept,      \* societies whose zone was deleted after a count that missed them
    req         \* the request each worker serves

vars == <<society, told, swept, req>>

Idle == [op |-> "idle"]

Status == {"ACCEPTED", "FOLLOW_UP"}       \* DENIED is treated as FOLLOW_UP is
Approval == {"PENDING", "APPROVED", "REJECTED"}
SurveyState == {"DRAFT", "SUBMITTED", "APPROVED", "REJECTED"}
Survey == [state: SurveyState, wings: BOOLEAN, materials: BOOLEAN]
Row == [owner: Actor, status: Status \cup {None}, approval: Approval \cup {None},
        zone: Zone \cup {None}, live: BOOLEAN, survey: Survey \cup {None}]

DecisionKind == {"SUBMITTED", "WITHDRAWN", "APPROVED", "REJECTED"}

\* The nulls are none of what they stand in for.
ASSUME NullAssumption ==
    /\ None # Gone
    /\ \A null \in {None, Gone} : null \notin Row \cup Survey \cup Status \cup Approval \cup SurveyState \cup DecisionKind

AdminOps == {"approve", "reject", "approveMaterials", "rejectMaterials", "delete"}
SurveyOps == {"saveSurvey", "submitSurvey", "markLive"}
Ops == AdminOps \cup SurveyOps \cup {"visit", "edit", "status"}
Request == {Idle}
    \cup [op: Ops, s: Society, actor: Actor, late: BOOLEAN]
    \cup [op: {"deleteZone"}, zone: Zone, empty: BOOLEAN]

TypeOK ==
    /\ society \in [Society -> Row \cup {None, Gone}]
    /\ told \in [Society -> DecisionKind \cup {None}]
    /\ swept \in SUBSET Society
    /\ req \in [Worker -> Request]

Exists(s) == society[s] \notin {None, Gone}
Is(actor, role) == RoleOf[actor] = role

----------------------------------------------------------------------------
(* Who reads what, and where a society stands. *)

ReadsSociety(row, actor) ==
    \/ Is(actor, "ADMIN")
    \/ Is(actor, "PERMISSION_EXECUTIVE") /\ row.owner = actor
    \/ RoleOf[actor] \in {"SURVEYOR", "MANAGER"}
       /\ row.approval = "APPROVED" /\ row.zone \in ZonesOf[actor]
    \/ Is(actor, "SUPERVISOR") /\ row.approval = "APPROVED"

\* What the list restricts an actor to, whatever creator the client asks for.
ListScope(actor, creator) ==
    CASE Is(actor, "ADMIN") -> [owner |-> creator, approvedOnly |-> FALSE, zones |-> Keep]
      [] Is(actor, "PERMISSION_EXECUTIVE") -> [owner |-> actor, approvedOnly |-> FALSE, zones |-> Keep]
      [] RoleOf[actor] \in {"SURVEYOR", "MANAGER"} -> [owner |-> Keep, approvedOnly |-> TRUE, zones |-> ZonesOf[actor]]
      [] OTHER -> [owner |-> Keep, approvedOnly |-> TRUE, zones |-> Keep]

SurveyStateOf(row) == IF row.survey = None THEN None ELSE row.survey.state

StageOf(row) ==
    CASE row.approval = "PENDING" -> "APPROVAL_PENDING"
      [] row.approval = "REJECTED" -> "APPROVAL_REJECTED"
      [] row.approval = None -> "NOT_SENT"
      [] row.approval = "APPROVED" /\ row.live -> "LIVE"
      [] OTHER -> CASE SurveyStateOf(row) = "SUBMITTED" -> "SURVEY_SUBMITTED"
                    [] SurveyStateOf(row) = "APPROVED" -> "MATERIALS_APPROVED"
                    [] OTHER -> "APPROVED_NO_SURVEY"

\* The list's stage filters, each written apart from StageOf.
Stage == {"APPROVAL_PENDING", "APPROVED_NO_SURVEY", "SURVEY_SUBMITTED", "MATERIALS_APPROVED", "LIVE"}
StageSql(row, stage) ==
    CASE stage = "APPROVAL_PENDING" -> row.approval = "PENDING"
      [] stage = "APPROVED_NO_SURVEY" -> /\ row.approval = "APPROVED" /\ ~row.live
                                         /\ SurveyStateOf(row) \in {None, "DRAFT", "REJECTED"}
      [] stage = "SURVEY_SUBMITTED" -> row.approval = "APPROVED" /\ ~row.live /\ SurveyStateOf(row) = "SUBMITTED"
      [] stage = "MATERIALS_APPROVED" -> row.approval = "APPROVED" /\ ~row.live /\ SurveyStateOf(row) = "APPROVED"
      [] stage = "LIVE" -> row.approval = "APPROVED" /\ row.live

WhereSql(row, scope, stage) ==
    /\ scope.approvedOnly => row.approval = "APPROVED"
    /\ scope.zones # Keep => row.zone \in scope.zones
    /\ stage # Keep => StageSql(row, stage)
    /\ scope.owner # Keep => row.owner = scope.owner

Listed(actor, creator, stage) ==
    {s \in Society : Exists(s) /\ WhereSql(society[s], ListScope(actor, creator), stage)}

\* The badges of the admin.
PendingCount == Cardinality({s \in Society : Exists(s) /\ society[s].approval = "PENDING"})
SurveyPendingCount ==
    Cardinality({s \in Society : /\ Exists(s) /\ SurveyStateOf(society[s]) = "SUBMITTED"
                                 /\ society[s].approval = "APPROVED"})

----------------------------------------------------------------------------
(* The approval rules every change of a society runs through. *)

ApprovalTransitionNoWithdraw(approval, statusAfter) ==
    IF approval # "APPROVED" /\ statusAfter = "ACCEPTED" /\ approval # "PENDING" THEN "SUBMIT" ELSE "none"
ApprovalTransition(approval, statusAfter) ==
    CASE approval = "APPROVED" -> "none"
      [] approval # "APPROVED" /\ statusAfter = "ACCEPTED" ->
            IF approval = "PENDING" THEN "none" ELSE "SUBMIT"
      [] OTHER -> IF approval = "PENDING" THEN "WITHDRAW" ELSE "none"

TransitionData(row, transition) ==
    CASE transition = "SUBMIT" -> [row EXCEPT !.approval = "PENDING"]
      [] transition = "WITHDRAW" -> [row EXCEPT !.approval = None]
      [] OTHER -> row

TransitionVisit(transition, kind) ==
    CASE transition = "SUBMIT" -> "SUBMITTED" [] transition = "WITHDRAW" -> "WITHDRAWN" [] OTHER -> kind

StatusUnlocked(row, next, isExecutive) ==
    (row.approval = "APPROVED" /\ next # Keep) => (~isExecutive /\ next = row.status)

Given(next, old) == IF next = Keep THEN old ELSE next

----------------------------------------------------------------------------
(* Requests. *)

MaySurvey(actor) == RoleOf[actor] \in {"SURVEYOR", "ADMIN"}

\* What the request may be told before its transaction, from the row as read.
MayStart(op, row, actor) ==
    CASE op \in AdminOps -> Is(actor, "ADMIN")
      [] op \in SurveyOps -> ReadsSociety(row, actor) /\ MaySurvey(actor)
      [] op = "visit" -> ReadsSociety(row, actor) /\ RoleOf[actor] \in {"PERMISSION_EXECUTIVE", "ADMIN"}
      [] op = "edit" -> \/ Is(actor, "ADMIN")
                        \/ Is(actor, "PERMISSION_EXECUTIVE") /\ row.owner = actor /\ row.approval # "APPROVED"
      [] op = "status" -> /\ row.approval = "APPROVED"
                          /\ ReadsSociety(row, actor) /\ RoleOf[actor] \in {"ADMIN", "MANAGER", "SUPERVISOR"}

Start(w, op, s, actor) ==
    /\ req[w] = Idle /\ Exists(s)
    /\ MayStart(op, society[s], actor)
    /\ req' = [req EXCEPT ![w] = [op |-> op, s |-> s, actor |-> actor, late |-> FALSE]]
    /\ UNCHANGED <<society, told, swept>>

Drop(w) ==
    /\ req[w] # Idle
    /\ req' = [req EXCEPT ![w] = Idle]
    /\ UNCHANGED <<society, told, swept>>

Serves(w, op) == req[w] # Idle /\ req[w].op = op
Fresh(w) == society[req[w].s]

\* The request is done.  An approval row it wrote with the time of its own
\* transaction is newer than the time a waiting decision has already taken.
Done(w, newKind) ==
    req' = [v \in Worker |->
        IF v = w THEN Idle
        ELSE IF /\ newKind # None
                /\ req[v].op \in {"approve", "reject"} /\ req[v].s = req[w].s
             THEN [req[v] EXCEPT !.late = TRUE] ELSE req[v]]

\* Write the row of the request's society, and the approval row that follows.
Write(w, row, kind) ==
    LET s == req[w].s IN
    /\ society' = [society EXCEPT ![s] = row]
    /\ told' = [told EXCEPT ![s] = IF kind = None THEN @ ELSE kind]
    /\ Done(w, kind)
    /\ UNCHANGED swept

\* As Write, for a decision whose time was taken before the row was locked.
WriteDecision(w, row, kind) ==
    LET s == req[w].s IN
    /\ society' = [society EXCEPT ![s] = row]
    /\ told' = [told EXCEPT ![s] = IF req[w].late THEN @ ELSE kind]
    /\ Done(w, kind)
    /\ UNCHANGED swept

----------------------------------------------------------------------------
(* The executive's side: adding, visiting, editing. *)

\* The society branch of createBuilding: its row, its ADDED row and, when it
\* is added as ACCEPTED, its approval request, in one statement.
Add(s, executive, status, zone, live) ==
    LET transition == ApprovalTransition(None, status)
        row == [owner |-> executive, status |-> status, approval |-> None, zone |-> zone,
                live |-> live, survey |-> None]
    IN  /\ society[s] = None
        /\ Is(executive, "PERMISSION_EXECUTIVE")
        /\ society' = [society EXCEPT ![s] = TransitionData(row, transition)]
        /\ told' = [told EXCEPT ![s] = TransitionVisit(transition, None)]
        /\ UNCHANGED <<swept, req>>

AddVisit(w, next) ==
    /\ Serves(w, "visit") /\ Exists(req[w].s)
    /\ StatusUnlocked(Fresh(w), next, Is(req[w].actor, "PERMISSION_EXECUTIVE"))
    /\ LET status == Given(next, Fresh(w).status)
           transition == ApprovalTransition(Fresh(w).approval, status)
       IN  Write(w, TransitionData([Fresh(w) EXCEPT !.status = status], transition),
                    TransitionVisit(transition, None))

\* An edit that changes nothing of status, zone and live changes other fields.
StillEditableAtRead(row, actor) == TRUE
StillEditable(row, actor) == ~(Is(actor, "PERMISSION_EXECUTIVE") /\ row.approval = "APPROVED")

Edit(w, next, zone, live) ==
    /\ Serves(w, "edit") /\ Exists(req[w].s)
    /\ StillEditable(Fresh(w), req[w].actor)
    /\ live # Keep => Is(req[w].actor, "ADMIN")
    /\ StatusUnlocked(Fresh(w), next, FALSE)
    /\ LET status == Given(next, Fresh(w).status)
           transition == ApprovalTransition(Fresh(w).approval, status)
           row == [Fresh(w) EXCEPT !.status = status, !.zone = Given(zone, @), !.live = Given(live, @)]
       IN  Write(w, TransitionData(row, transition), TransitionVisit(transition, None))

----------------------------------------------------------------------------
(* The admin's decisions.  Their time is taken before the lock. *)

Waiting(row) == row.approval = "PENDING"

Approve(w, zone) ==
    /\ Serves(w, "approve") /\ Exists(req[w].s)
    /\ Waiting(Fresh(w))
    /\ WriteDecision(w, [Fresh(w) EXCEPT !.approval = "APPROVED", !.zone = zone], "APPROVED")

Reject(w) ==
    /\ Serves(w, "reject") /\ Exists(req[w].s)
    /\ Waiting(Fresh(w))
    /\ WriteDecision(w, [Fresh(w) EXCEPT !.approval = "REJECTED"], "REJECTED")

----------------------------------------------------------------------------
(* The survey and the materials. *)

LockedInScope(row, actor) == ReadsSociety(row, actor) /\ row.approval = "APPROVED"
NotLiveForSurveyor(row, actor) == row.live => Is(actor, "ADMIN")

\* The parts the body sends replace the stored ones.
MergeRaw(survey, wings, materials) ==
    [state |-> IF survey = None THEN "DRAFT" ELSE survey.state, wings |-> wings, materials |-> materials]
Merge(survey, wings, materials) ==
    LET had == IF survey = None THEN [state |-> "DRAFT", wings |-> FALSE, materials |-> FALSE] ELSE survey
    IN  [had EXCEPT !.wings = Given(wings, @), !.materials = Given(materials, @)]

MaySave(survey, actor) == survey # None => (survey.state = "APPROVED" => Is(actor, "ADMIN"))

SaveSurvey(w, wings, materials) ==
    /\ Serves(w, "saveSurvey") /\ Exists(req[w].s)
    /\ LockedInScope(Fresh(w), req[w].actor)
    /\ NotLiveForSurveyor(Fresh(w), req[w].actor)
    /\ MaySave(Fresh(w).survey, req[w].actor)
    /\ LET next == Merge(Fresh(w).survey, wings, materials)
           state == IF next.state = "REJECTED" THEN "DRAFT" ELSE next.state
       IN  Write(w, [Fresh(w) EXCEPT !.survey = [next EXCEPT !.state = state]], None)

AssertSubmittable(survey) == survey.wings /\ survey.materials

SubmitSurvey(w) ==
    /\ Serves(w, "submitSurvey") /\ Exists(req[w].s)
    /\ LockedInScope(Fresh(w), req[w].actor)
    /\ NotLiveForSurveyor(Fresh(w), req[w].actor)
    /\ SurveyStateOf(Fresh(w)) \in {"DRAFT", "REJECTED"}
    /\ AssertSubmittable(Fresh(w).survey)
    /\ Write(w, [Fresh(w) EXCEPT !.survey.state = "SUBMITTED"], None)

\* approveMaterials and rejectMaterials, through decideSurvey.
SurveyWaitingOrDraft(row) == SurveyStateOf(row) \in {"SUBMITTED", "DRAFT"}
SurveyWaiting(row) == SurveyStateOf(row) = "SUBMITTED"

DecideSurvey(w, op, state) ==
    /\ Serves(w, op) /\ Exists(req[w].s)
    /\ SurveyWaiting(Fresh(w))
    /\ Write(w, [Fresh(w) EXCEPT !.survey.state = state], None)

ApproveMaterials(w) == DecideSurvey(w, "approveMaterials", "APPROVED")
RejectMaterials(w) == DecideSurvey(w, "rejectMaterials", "REJECTED")

MarkLive(w) ==
    /\ Serves(w, "markLive") /\ Exists(req[w].s)
    /\ LockedInScope(Fresh(w), req[w].actor)
    /\ SurveyStateOf(Fresh(w)) = "APPROVED" /\ ~Fresh(w).live
    /\ Write(w, [Fresh(w) EXCEPT !.live = TRUE], None)

----------------------------------------------------------------------------
(* What else reaches the row: the Live toggle, which writes without a      *)
(* second look, the delete, and the deletion of a zone, which counts its   *)
(* buildings first and leaves those it missed without a zone.              *)

UpdateStatus(w, live) ==
    /\ Serves(w, "status") /\ Exists(req[w].s)
    /\ Write(w, [Fresh(w) EXCEPT !.live = live], None)

Delete(w) ==
    /\ Serves(w, "delete") /\ Exists(req[w].s)
    /\ society' = [society EXCEPT ![req[w].s] = Gone]
    /\ Done(w, None)
    /\ UNCHANGED <<told, swept>>

In(zone) == {s \in Society : Exists(s) /\ society[s].zone = zone}

CountZone(w, zone) ==
    /\ req[w] = Idle /\ In(zone) = {}
    /\ req' = [req EXCEPT ![w] = [op |-> "deleteZone", zone |-> zone, empty |-> TRUE]]
    /\ UNCHANGED <<society, told, swept>>

\* ON DELETE SET NULL; the zone is then created again under the same name.
DeleteZone(w) ==
    LET zone == req[w].zone IN
    /\ Serves(w, "deleteZone")
    /\ society' = [s \in Society |-> IF s \in In(zone) THEN [society[s] EXCEPT !.zone = None] ELSE society[s]]
    /\ swept' = swept \cup In(zone)
    /\ req' = [req EXCEPT ![w] = Idle]
    /\ UNCHANGED told

----------------------------------------------------------------------------

Init ==
    /\ society = [s \in Society |-> None]
    /\ told = [s \in Society |-> None]
    /\ swept = {}
    /\ req = [w \in Worker |-> Idle]

Serve(w) ==
    \/ \E next \in Status \cup {Keep} : AddVisit(w, next)
    \/ \E next \in Status \cup {None, Keep}, zone \in Zone \cup {Keep}, live \in BOOLEAN \cup {Keep} :
        Edit(w, next, zone, live)
    \/ \E zone \in Zone : Approve(w, zone)
    \/ Reject(w)
    \/ \E wings, materials \in BOOLEAN \cup {Keep} : SaveSurvey(w, wings, materials)
    \/ SubmitSurvey(w)
    \/ ApproveMaterials(w)
    \/ RejectMaterials(w)
    \/ MarkLive(w)
    \/ \E live \in BOOLEAN : UpdateStatus(w, live)
    \/ Delete(w)
    \/ DeleteZone(w)
    \/ Drop(w)

Next ==
    \/ \E s \in Society, a \in Actor, status \in Status \cup {None}, zone \in Zone \cup {None}, live \in BOOLEAN :
        Add(s, a, status, zone, live)
    \/ \E w \in Worker, op \in Ops, s \in Society, a \in Actor : Start(w, op, s, a)
    \/ \E w \in Worker, zone \in Zone : CountZone(w, zone)
    \/ \E w \in Worker : Serve(w)

Spec == Init /\ [][Next]_vars
----------------------------------------------------------------------------
(* Properties. *)

Rows == {society[s] : s \in {t \in Society : Exists(t)}}

\* Whatever visits, edits and decisions overlap, the approval follows the
\* permission status: a society that waits or is approved is ACCEPTED, and an
\* ACCEPTED one was sent for approval.
ApprovalFollowsStatus ==
    \A row \in Rows :
        /\ row.approval \in {"PENDING", "APPROVED"} => row.status = "ACCEPTED"
        /\ row.status = "ACCEPTED" => row.approval # None

\* The history's newest approval row says that a waiting society was submitted,
\* and that one neither sent nor decided was never sent or withdrawn, although
\* a decision carries a time taken before it had the row.
PendingIsTold ==
    \A s \in Society : Exists(s) =>
        /\ society[s].approval = "PENDING" => told[s] = "SUBMITTED"
        /\ society[s].approval = None => told[s] \in {None, "WITHDRAWN"}

\* A society is surveyed only when it is approved, and an approved one has a
\* zone, through which its surveyor and manager read it; only a deletion of the
\* zone that had counted before the approval takes it away.
ApprovedHasZone ==
    \A s \in Society : Exists(s) =>
        /\ society[s].survey # None => society[s].approval = "APPROVED"
        /\ society[s].approval = "APPROVED" => (society[s].zone \in Zone \/ s \in swept)

\* A society's status, approval and zone fit together, and its history tells
\* where it stands, whatever decisions, visits and edits overlap.
ApprovalIsConsistent == ApprovalFollowsStatus /\ PendingIsTold /\ ApprovedHasZone

\* The list's SQL shows each actor the societies the module lets them open, of
\* all creators but when an admin asks for one; its stage filters are the stages
\* the rows are shown with; and the admin's badges count what the list has at
\* their stages (and surveys submitted of societies that are live already).
ListAgreesWithRow ==
    /\ \A a \in Actor :
          /\ \A creator \in Actor \cup {Keep} :
                Listed(a, creator, Keep) =
                    {s \in Society : /\ Exists(s) /\ ReadsSociety(society[s], a)
                                     /\ (Is(a, "ADMIN") => creator \in {Keep, society[s].owner})}
          /\ \A stage \in Stage :
                Listed(a, Keep, stage) = {s \in Listed(a, Keep, Keep) : StageOf(society[s]) = stage}
    /\ \A a \in Actor : Is(a, "ADMIN") =>
          /\ PendingCount = Cardinality(Listed(a, Keep, "APPROVAL_PENDING"))
          /\ SurveyPendingCount = Cardinality(Listed(a, Keep, "SURVEY_SUBMITTED"))
                + Cardinality({s \in Listed(a, Keep, "LIVE") : SurveyStateOf(society[s]) = "SUBMITTED"})

Finishes(w, s) == req[w] # Idle /\ req[w].op # "deleteZone" /\ req[w].s = s /\ req'[w] = Idle

\* Once a society is approved its executive changes nothing of it, not with a
\* request that was let through while it was still waiting either.
ExecutiveLockedOut ==
    [][\A w \in Worker, s \in Society :
        (/\ Finishes(w, s) /\ Exists(s)
         /\ society[s].approval = "APPROVED" /\ Is(req[w].actor, "PERMISSION_EXECUTIVE"))
        => society'[s] = society[s]]_vars

\* What a surveyor writes is written on an approved society of their zones, as
\* it is then; approved materials they leave alone, and of a live society all.
SurveyorScope ==
    [][\A w \in Worker, s \in Society :
        (Finishes(w, s) /\ Is(req[w].actor, "SURVEYOR") /\ society'[s] # society[s])
        => /\ society[s].approval = "APPROVED" /\ society[s].zone \in ZonesOf[req[w].actor]
           /\ ~society[s].live
           /\ SurveyStateOf(society[s]) = "APPROVED" => society'[s].survey = society[s].survey]_vars

\* The row is judged again under its lock: nobody writes on what was only read.
JudgedUnderLock == ExecutiveLockedOut /\ SurveyorScope

Field(s, f) == IF Exists(s) THEN society[s][f] ELSE society[s]
Workflow == INSTANCE SocietyWorkflow WITH
    approval <- [s \in Society |-> Field(s, "approval")],
    survey <- [s \in Society |-> IF Exists(s) THEN SurveyStateOf(society[s]) ELSE society[s]],
    live <- [s \in Society |-> Exists(s) /\ society[s].live]

\* Every request, however it overlaps with others, moves a society only along
\* the life cycle the two rule modules describe.
ImplementsWorkflow == Workflow!Spec
=============================================================================
