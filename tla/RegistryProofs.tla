--------------------------- MODULE RegistryProofs ---------------------------
(***************************************************************************)
(* What is proved of the registers one by one, brought together: the       *)
(* properties of the run of MCRegistry, for any of the sets it is given.   *)
(*                                                                         *)
(* RegisterProofs and FiberNetworkProofs are about the models by           *)
(* themselves; here they are instantiated as MCRegistry instantiates the   *)
(* models.  What a behaviour does while part names a model is a behaviour  *)
(* of that model, and while it names another the model's variables stand   *)
(* still.  What holds of SocietyPermission, which MCRegistry extends, is   *)
(* proved here, first of all.                                              *)
(***************************************************************************)
EXTENDS MCRegistry, Sequences, FiniteSetTheorems, TLAPS

-----------------------------------------------------------------------------
(* The societies, for any requests that overlap, societies, zones and      *)
(* actors: the inductive invariant of SocietyPermission.                   *)

\* What ApprovalIsConsistent says of one row, of what the history tells of it,
\* and of whether a deleted zone has swept it.
RowFits(socRow, newest, wasSwept) ==
    /\ socRow.approval \in {"PENDING", "APPROVED"} => socRow.status = "ACCEPTED"
    /\ socRow.status = "ACCEPTED" => socRow.approval # None
    /\ socRow.approval = "PENDING" => newest = "SUBMITTED"
    /\ socRow.approval = None => newest \in {None, "WITHDRAWN"}
    /\ socRow.survey # None => socRow.approval = "APPROVED"
    /\ socRow.approval = "APPROVED" => socRow.zone \in Zone \/ wasSwept

\* The role a request was let through with.
RoleFits(r) ==
    /\ r.op \in AdminOps => Is(r.actor, "ADMIN")
    /\ r.op \in SurveyOps => RoleOf[r.actor] \in {"SURVEYOR", "ADMIN"}
    /\ r.op = "visit" => RoleOf[r.actor] \in {"PERMISSION_EXECUTIVE", "ADMIN"}
    /\ r.op = "edit" => RoleOf[r.actor] \in {"PERMISSION_EXECUTIVE", "ADMIN"}
    /\ r.op = "status" => RoleOf[r.actor] \in {"ADMIN", "MANAGER", "SUPERVISOR"}

RowsFit == \A s \in Society : Exists(s) => RowFits(society[s], told[s], s \in swept)
RolesFit == \A w \in Worker : RoleFits(req[w])

SocietyInv == TypeOK /\ RowsFit /\ RolesFit

LEMMA RowsFitIsConsistency == RowsFit <=> ApprovalIsConsistent
<1>1. ASSUME RowsFit PROVE ApprovalIsConsistent
  BY <1>1 DEF RowsFit, RowFits, ApprovalIsConsistent, ApprovalFollowsStatus, PendingIsTold, ApprovedHasZone, Rows
<1>2. ASSUME ApprovalIsConsistent PROVE RowsFit
  BY <1>2 DEF RowsFit, RowFits, ApprovalIsConsistent, ApprovalFollowsStatus, PendingIsTold, ApprovedHasZone, Rows
<1> QED
  BY <1>1, <1>2

LEMMA SocietyInitOK == Init => SocietyInv
<1> SUFFICES ASSUME Init PROVE SocietyInv
  OBVIOUS
<1>1. TypeOK
  BY DEF Init, TypeOK, Request
<1>2. RowsFit
  BY DEF Init, RowsFit, Exists
<1>3. RolesFit
  BY DEF Init, RolesFit, RoleFits, Idle, AdminOps, SurveyOps
<1> QED
  BY <1>1, <1>2, <1>3 DEF SocietyInv

-----------------------------------------------------------------------------
(* The rules a row is changed by.                                          *)

\* The requests of a society, apart from those of a zone and from no request.
LEMMA RequestOf ==
    ASSUME TypeOK, NEW w \in Worker, NEW op \in Ops, Serves(w, op), Exists(req[w].s)
    PROVE  /\ req[w] \in [op: Ops, s: Society, actor: Actor, late: BOOLEAN]
           /\ req[w].op = op
           /\ Fresh(w) = society[req[w].s]
           /\ Fresh(w) \in Row
<1>1. req[w] \in Request /\ req[w] # Idle /\ req[w].op = op
  BY DEF TypeOK, Serves
<1>2. op # "deleteZone"
  BY DEF Ops, AdminOps, SurveyOps
<1>3. req[w] \in [op: Ops, s: Society, actor: Actor, late: BOOLEAN]
  BY <1>1, <1>2 DEF Request
<1> QED
  BY <1>1, <1>3 DEF TypeOK, Exists, Fresh

\* What becomes of a row's approval, with what the history then tells, when it is
\* saved with a status.
Turned(socRow, newest, wasSwept, kind, next) ==
    /\ kind \in DecisionKind \cup {None}
    /\ next \in Row
    /\ next = [socRow EXCEPT !.approval = next.approval]
    /\ \/ next.approval = socRow.approval
       \/ socRow.approval \in {None, "REJECTED"} /\ next.approval = "PENDING"
       \/ socRow.approval = "PENDING" /\ next.approval = None
    /\ socRow.approval = "APPROVED" => next = socRow
    /\ RowFits(next, IF kind = None THEN newest ELSE kind, wasSwept)

\* The row after the approval rule fits what the history then tells, if the
\* status of an approved society was left alone.
LEMMA TransitionFits ==
    ASSUME NEW socRow \in Row, NEW newest, NEW wasSwept \in BOOLEAN,
           socRow.approval = "APPROVED" => socRow.status = "ACCEPTED",
           socRow.approval = "PENDING" => newest = "SUBMITTED",
           socRow.approval = None => newest \in {None, "WITHDRAWN"},
           socRow.survey # None => socRow.approval = "APPROVED",
           socRow.approval = "APPROVED" => socRow.zone \in Zone \/ wasSwept,
           NEW transition, transition = ApprovalTransition(socRow.approval, socRow.status),
           NEW kind, kind = TransitionVisit(transition, None),
           NEW next, next = TransitionData(socRow, transition)
    PROVE  Turned(socRow, newest, wasSwept, kind, next)
<1>1. CASE socRow.status = "ACCEPTED" /\ socRow.approval \in {None, "REJECTED"}
  <2>1. transition = "SUBMIT"
    BY <1>1, NullAssumption DEF ApprovalTransition, Approval
  <2>2. next = [socRow EXCEPT !.approval = "PENDING"] /\ kind = "SUBMITTED"
    BY <2>1 DEF TransitionData, TransitionVisit
  <2>3. next \in Row /\ next.approval = "PENDING" /\ next = [socRow EXCEPT !.approval = next.approval]
    BY <2>2 DEF Row, Approval
  <2>4. kind \in DecisionKind /\ kind # None
    BY <2>2, NullAssumption DEF DecisionKind
  <2>5. RowFits(next, IF kind = None THEN newest ELSE kind, wasSwept)
    BY <1>1, <2>2, <2>4, NullAssumption DEF Row, Approval, RowFits
  <2> QED
    BY <1>1, <2>2, <2>3, <2>4, <2>5, NullAssumption DEF Approval, Turned
<1>2. CASE socRow.status # "ACCEPTED" /\ socRow.approval = "PENDING"
  <2>1. transition = "WITHDRAW"
    BY <1>2 DEF ApprovalTransition
  <2>2. next = [socRow EXCEPT !.approval = None] /\ kind = "WITHDRAWN"
    BY <2>1 DEF TransitionData, TransitionVisit
  <2> QED
    BY <1>2, <2>2, NullAssumption DEF Row, Approval, DecisionKind, RowFits, Turned
<1>3. CASE \/ socRow.status = "ACCEPTED" /\ socRow.approval \in {"PENDING", "APPROVED"}
           \/ socRow.status # "ACCEPTED" /\ socRow.approval # "PENDING"
  <2>1. transition = "none"
    BY <1>3 DEF ApprovalTransition
  <2>2. next = socRow /\ kind = None
    BY <2>1 DEF TransitionData, TransitionVisit
  <2>3. next = [socRow EXCEPT !.approval = next.approval]
    BY <2>2 DEF Row
  <2>4. RowFits(next, IF kind = None THEN newest ELSE kind, wasSwept)
    BY <1>3, <2>2, NullAssumption DEF RowFits, Approval
  <2> QED
    BY <2>2, <2>3, <2>4 DEF Turned
<1> QED
  BY <1>1, <1>2, <1>3 DEF Row, Approval

\* The requests after one is done: that one is gone, and of the others only
\* late may have changed.
LEMMA DoneOK ==
    ASSUME TypeOK, RolesFit, NEW w \in Worker, NEW kind, Done(w, kind)
    PROVE  /\ req' \in [Worker -> Request]
           /\ RolesFit'
           /\ req'[w] = Idle
           /\ \A v \in Worker : v # w /\ req[v] # Idle => req'[v] # Idle
<1>1. ASSUME NEW v \in Worker, v # w
      PROVE  /\ req'[v] \in Request /\ RoleFits(req'[v])
             /\ req[v] # Idle => req'[v] # Idle
  <2>1. CASE req'[v] = req[v]
    BY <1>1, <2>1 DEF TypeOK, RolesFit
  <2>2. CASE req[v].op \in {"approve", "reject"} /\ req'[v] = [req[v] EXCEPT !.late = TRUE]
    <3>1. req[v] \in [op: Ops, s: Society, actor: Actor, late: BOOLEAN]
      BY <2>2 DEF TypeOK, Request, Idle
    <3>2. req'[v] \in [op: Ops, s: Society, actor: Actor, late: BOOLEAN]
      BY <2>2, <3>1
    <3>3. req'[v].op = req[v].op /\ req'[v].actor = req[v].actor
      BY <2>2, <3>1
    <3>4. RoleFits(req'[v])
      BY <3>3 DEF RolesFit, RoleFits
    <3> QED
      BY <2>2, <3>2, <3>3, <3>4 DEF Request, Idle
  <2> QED
    BY <1>1, <2>1, <2>2 DEF Done
<1>2. req'[w] = Idle /\ Idle \in Request /\ RoleFits(Idle)
  BY DEF Done, Request, Idle, RoleFits, AdminOps, SurveyOps
<1>3. req' \in [Worker -> Request]
  BY <1>1, <1>2 DEF Done
<1> QED
  BY <1>1, <1>2, <1>3 DEF RolesFit

-----------------------------------------------------------------------------
(* What one request does to the row of its society.                        *)

\* What JudgedUnderLock asks of a row that an actor's request writes.
Judged(actor, old, new) ==
    /\ old.approval = "APPROVED" /\ Is(actor, "PERMISSION_EXECUTIVE") => new = old
    /\ Is(actor, "SURVEYOR") /\ new # old =>
           /\ old.approval = "APPROVED" /\ old.zone \in ZonesOf[actor]
           /\ ~old.live
           /\ SurveyStateOf(old) = "APPROVED" => new.survey = old.survey

\* The steps of the life cycle on one row: the executive's and the Live flag,
\* the decision, the survey.
Restated(old, new) ==
    /\ new.survey = old.survey
    /\ \/ new.approval = old.approval
       \/ old.approval \in {None, "REJECTED"} /\ new.approval = "PENDING"
       \/ old.approval = "PENDING" /\ new.approval = None
Decided(old, new) ==
    /\ old.approval = "PENDING" /\ new.approval \in {"APPROVED", "REJECTED"}
    /\ new.survey = old.survey /\ new.live = old.live
Surveyed(old, new) ==
    /\ old.approval = "APPROVED" /\ new.approval = "APPROVED" /\ new.live = old.live
    /\ \/ SurveyStateOf(new) = SurveyStateOf(old)
       \/ SurveyStateOf(old) \in {None, "REJECTED"} /\ SurveyStateOf(new) = "DRAFT"
       \/ SurveyStateOf(old) \in {"DRAFT", "REJECTED"} /\ SurveyStateOf(new) = "SUBMITTED"
       \/ SurveyStateOf(old) = "SUBMITTED" /\ SurveyStateOf(new) \in {"APPROVED", "REJECTED"}

OfSociety(r) == r \in [op: Ops, s: Society, actor: Actor, late: BOOLEAN]

\* The request of w writes its society's row, as the rules have it.
RowStep(w) ==
    /\ OfSociety(req[w]) /\ Exists(req[w].s)
    /\ \E socRow \in Row, newest \in DecisionKind \cup {None}, kind \in DecisionKind \cup {None} :
        /\ society' = [society EXCEPT ![req[w].s] = socRow]
        /\ told' = [told EXCEPT ![req[w].s] = newest]
        /\ Done(w, kind) /\ UNCHANGED swept
        /\ RowFits(socRow, newest, req[w].s \in swept)
        /\ Judged(req[w].actor, society[req[w].s], socRow)
        /\ \/ Restated(society[req[w].s], socRow)
           \/ Decided(society[req[w].s], socRow)
           \/ Surveyed(society[req[w].s], socRow)

LEMMA RowStepKeeps ==
    ASSUME SocietyInv, NEW w \in Worker, RowStep(w)
    PROVE  SocietyInv'
<1> DEFINE s == req[w].s
<1>1. PICK socRow \in Row, newest \in DecisionKind \cup {None}, kind \in DecisionKind \cup {None} :
        /\ society' = [society EXCEPT ![s] = socRow]
        /\ told' = [told EXCEPT ![s] = newest]
        /\ Done(w, kind) /\ UNCHANGED swept
        /\ RowFits(socRow, newest, s \in swept)
  BY DEF RowStep
<1>2. s \in Society
  BY DEF RowStep, OfSociety
<1>3. /\ society \in [Society -> Row \cup {None, Gone}]
      /\ told \in [Society -> DecisionKind \cup {None}]
      /\ TypeOK /\ RolesFit
  BY DEF SocietyInv, TypeOK
<1>4. req' \in [Worker -> Request] /\ RolesFit'
  BY <1>1, <1>3, DoneOK
<1>5. TypeOK'
  BY <1>1, <1>2, <1>3, <1>4 DEF TypeOK
<1>6. ASSUME NEW t \in Society, Exists(t)' PROVE RowFits(society'[t], told'[t], t \in swept')
  <2>1. CASE t = s
    BY <1>1, <1>3, <2>1
  <2>2. CASE t # s
    BY <1>1, <1>3, <1>6, <2>2 DEF SocietyInv, RowsFit, Exists
  <2> QED
    BY <2>1, <2>2
<1>7. RowsFit'
  BY <1>6 DEF RowsFit
<1> QED
  BY <1>4, <1>5, <1>7 DEF SocietyInv

\* Write is such a step when its row and its approval row fit.
LEMMA WriteIsRowStep ==
    ASSUME SocietyInv, NEW w \in Worker, NEW op \in Ops, Serves(w, op), Exists(req[w].s),
           NEW socRow \in Row, NEW kind \in DecisionKind \cup {None},
           Write(w, socRow, kind),
           RowFits(socRow, IF kind = None THEN told[req[w].s] ELSE kind, req[w].s \in swept),
           Judged(req[w].actor, Fresh(w), socRow),
           Restated(Fresh(w), socRow) \/ Surveyed(Fresh(w), socRow)
    PROVE  RowStep(w)
<1> DEFINE newest == IF kind = None THEN told[req[w].s] ELSE kind
<1>1. OfSociety(req[w]) /\ Fresh(w) = society[req[w].s]
  BY RequestOf DEF SocietyInv, OfSociety
<1>2. newest \in DecisionKind \cup {None}
  BY <1>1 DEF SocietyInv, TypeOK, OfSociety
<1>3. told' = [told EXCEPT ![req[w].s] = newest]
  BY <1>1 DEF Write
<1>4. society' = [society EXCEPT ![req[w].s] = socRow] /\ Done(w, kind) /\ UNCHANGED swept
  BY DEF Write
<1> QED
  BY <1>1, <1>2, <1>3, <1>4 DEF RowStep

\* A visit or an edit: it may change the status, and the approval follows.
LEMMA RestateIsRowStep ==
    ASSUME SocietyInv, NEW w \in Worker, NEW op \in Ops, Serves(w, op), Exists(req[w].s),
           NEW socRow \in Row,
           socRow.approval = Fresh(w).approval, socRow.survey = Fresh(w).survey,
           socRow.approval = "APPROVED" => socRow.status = Fresh(w).status,
           socRow.zone \in Zone \/ socRow.zone = Fresh(w).zone,
           ~Is(req[w].actor, "SURVEYOR"),
           socRow.approval = "APPROVED" /\ Is(req[w].actor, "PERMISSION_EXECUTIVE") => socRow = Fresh(w),
           NEW transition, transition = ApprovalTransition(socRow.approval, socRow.status),
           NEW kind, kind = TransitionVisit(transition, None),
           NEW next, next = TransitionData(socRow, transition),
           Write(w, next, kind)
    PROVE  RowStep(w)
<1> DEFINE newest == told[req[w].s]
           wasSwept == req[w].s \in swept
<1>1. /\ OfSociety(req[w])
      /\ Fresh(w) = society[req[w].s] /\ Fresh(w) \in Row
  BY RequestOf DEF SocietyInv, OfSociety
<1>2. RowFits(Fresh(w), newest, wasSwept)
  BY <1>1 DEF SocietyInv, RowsFit, OfSociety
<1>3. /\ socRow.approval = "APPROVED" => socRow.status = "ACCEPTED"
      /\ socRow.approval = "PENDING" => newest = "SUBMITTED"
      /\ socRow.approval = None => newest \in {None, "WITHDRAWN"}
      /\ socRow.survey # None => socRow.approval = "APPROVED"
      /\ socRow.approval = "APPROVED" => socRow.zone \in Zone \/ wasSwept
  BY <1>2 DEF RowFits
<1>4. wasSwept \in BOOLEAN
  OBVIOUS
<1> HIDE DEF newest, wasSwept
<1>5. /\ kind \in DecisionKind \cup {None} /\ next \in Row
      /\ next = [socRow EXCEPT !.approval = next.approval]
      /\ \/ next.approval = socRow.approval
         \/ socRow.approval \in {None, "REJECTED"} /\ next.approval = "PENDING"
         \/ socRow.approval = "PENDING" /\ next.approval = None
      /\ socRow.approval = "APPROVED" => next = socRow
      /\ RowFits(next, IF kind = None THEN newest ELSE kind, wasSwept)
  <2>1. Turned(socRow, newest, wasSwept, kind, next)
    BY <1>3, <1>4, TransitionFits, Zenon
  <2> QED
    BY <2>1 DEF Turned
<1>6. Judged(req[w].actor, Fresh(w), next)
  BY <1>5 DEF Judged
<1>7. Restated(Fresh(w), next)
  <2>1. next.survey = socRow.survey
    BY <1>5 DEF Row
  <2> QED
    BY <1>5, <2>1 DEF Restated
<1> QED
  BY <1>5, <1>6, <1>7, WriteIsRowStep DEF newest, wasSwept

LEMMA AddVisitOK ==
    ASSUME SocietyInv, NEW w \in Worker, NEW given \in Status \cup {Keep}, AddVisit(w, given)
    PROVE  RowStep(w)
<1> DEFINE status == Given(given, Fresh(w).status)
           socRow == [Fresh(w) EXCEPT !.status = status]
           transition == ApprovalTransition(Fresh(w).approval, status)
           kind == TransitionVisit(transition, None)
           next == TransitionData(socRow, transition)
<1>1. /\ Serves(w, "visit") /\ Exists(req[w].s) /\ "visit" \in Ops
      /\ StatusUnlocked(Fresh(w), given, Is(req[w].actor, "PERMISSION_EXECUTIVE"))
      /\ Write(w, next, kind)
  BY DEF AddVisit, Ops
<1>2. Fresh(w) \in Row /\ req[w].op = "visit"
  BY <1>1, RequestOf DEF SocietyInv
<1>3. RoleOf[req[w].actor] \in {"PERMISSION_EXECUTIVE", "ADMIN"}
  BY <1>2 DEF SocietyInv, RolesFit, RoleFits
<1>4. status \in Status \cup {None}
  BY <1>2 DEF Given, Row
<1>5. socRow \in Row /\ socRow.approval = Fresh(w).approval /\ socRow.status = status
      /\ socRow.survey = Fresh(w).survey /\ socRow.zone = Fresh(w).zone
  BY <1>2, <1>4 DEF Row
<1>6. ~Is(req[w].actor, "SURVEYOR")
  BY <1>3 DEF Is
<1>7. socRow.approval = "APPROVED" => socRow.status = Fresh(w).status
  BY <1>1, <1>5 DEF StatusUnlocked, Given
<1>8. socRow.approval = "APPROVED" => socRow = Fresh(w)
  BY <1>2, <1>5, <1>7 DEF Row
<1> HIDE DEF status, socRow
<1>9. transition = ApprovalTransition(socRow.approval, socRow.status)
  BY <1>5
<1> HIDE DEF transition, kind, next
<1>10. kind = TransitionVisit(transition, None) /\ next = TransitionData(socRow, transition)
  BY DEF kind, next
<1> QED
  BY <1>1, <1>5, <1>6, <1>7, <1>8, <1>9, <1>10, RestateIsRowStep

LEMMA EditOK ==
    ASSUME SocietyInv, NEW w \in Worker, NEW given \in Status \cup {None, Keep}, NEW zone \in Zone \cup {Keep},
           NEW live \in BOOLEAN \cup {Keep}, Edit(w, given, zone, live)
    PROVE  RowStep(w)
<1> DEFINE status == Given(given, Fresh(w).status)
           socRow == [Fresh(w) EXCEPT !.status = status, !.zone = Given(zone, @), !.live = Given(live, @)]
           transition == ApprovalTransition(Fresh(w).approval, status)
           kind == TransitionVisit(transition, None)
           next == TransitionData(socRow, transition)
<1>1. /\ Serves(w, "edit") /\ Exists(req[w].s) /\ "edit" \in Ops
      /\ StillEditable(Fresh(w), req[w].actor)
      /\ StatusUnlocked(Fresh(w), given, FALSE)
      /\ Write(w, next, kind)
  BY DEF Edit, Ops
<1>2. Fresh(w) \in Row /\ req[w].op = "edit"
  BY <1>1, RequestOf DEF SocietyInv
<1>3. RoleOf[req[w].actor] \in {"PERMISSION_EXECUTIVE", "ADMIN"}
  BY <1>2 DEF SocietyInv, RolesFit, RoleFits
<1>4. /\ status \in Status \cup {None}
      /\ Given(zone, Fresh(w).zone) \in Zone \/ Given(zone, Fresh(w).zone) = Fresh(w).zone
      /\ Given(live, Fresh(w).live) \in BOOLEAN
  BY <1>2 DEF Given, Row
<1>5. socRow \in Row /\ socRow.approval = Fresh(w).approval /\ socRow.status = status
      /\ socRow.survey = Fresh(w).survey /\ socRow.zone = Given(zone, Fresh(w).zone)
  BY <1>2, <1>4 DEF Row
<1>6. ~Is(req[w].actor, "SURVEYOR")
  BY <1>3 DEF Is
<1>7. socRow.approval = "APPROVED" => socRow.status = Fresh(w).status
  BY <1>1, <1>5 DEF StatusUnlocked, Given
<1>8. socRow.approval = "APPROVED" => ~Is(req[w].actor, "PERMISSION_EXECUTIVE")
  BY <1>1, <1>5 DEF StillEditable
<1> HIDE DEF status, socRow
<1>9. transition = ApprovalTransition(socRow.approval, socRow.status)
  BY <1>5
<1> HIDE DEF transition, kind, next
<1>10. kind = TransitionVisit(transition, None) /\ next = TransitionData(socRow, transition)
  BY DEF kind, next
<1> QED
  BY <1>1, <1>4, <1>5, <1>6, <1>7, <1>8, <1>9, <1>10, RestateIsRowStep

\* The admin's two decisions, whose approval row a newer one may hide.
LEMMA DecisionIsRowStep ==
    ASSUME SocietyInv, NEW w \in Worker, NEW op \in {"approve", "reject"}, Serves(w, op), Exists(req[w].s),
           Waiting(Fresh(w)), NEW kind \in {"APPROVED", "REJECTED"},
           NEW socRow \in Row, socRow.approval = kind, socRow.status = Fresh(w).status,
           socRow.survey = Fresh(w).survey, socRow.live = Fresh(w).live,
           kind = "APPROVED" => socRow.zone \in Zone,
           WriteDecision(w, socRow, kind)
    PROVE  RowStep(w)
<1> DEFINE newest == IF req[w].late THEN told[req[w].s] ELSE kind
<1>1. op \in Ops /\ op \in AdminOps
  BY DEF Ops, AdminOps
<1>2. /\ OfSociety(req[w]) /\ req[w].op = op
      /\ Fresh(w) = society[req[w].s] /\ Fresh(w) \in Row
  BY <1>1, RequestOf DEF SocietyInv, OfSociety
<1>3. RowFits(Fresh(w), told[req[w].s], req[w].s \in swept)
  BY <1>2 DEF SocietyInv, RowsFit, OfSociety
<1>4. Is(req[w].actor, "ADMIN")
  BY <1>1, <1>2 DEF SocietyInv, RolesFit, RoleFits
<1>5. newest \in DecisionKind \cup {None} /\ kind \in DecisionKind \cup {None}
  BY <1>2 DEF SocietyInv, TypeOK, OfSociety, DecisionKind
<1>6. /\ society' = [society EXCEPT ![req[w].s] = socRow]
      /\ told' = [told EXCEPT ![req[w].s] = newest]
      /\ Done(w, kind) /\ UNCHANGED swept
  BY <1>2 DEF WriteDecision
<1>7. RowFits(socRow, newest, req[w].s \in swept)
  BY <1>3, NullAssumption DEF RowFits, Waiting, Approval
<1>8. Judged(req[w].actor, Fresh(w), socRow) /\ Decided(Fresh(w), socRow)
  BY <1>4 DEF Judged, Decided, Waiting, Is
<1> QED
  BY <1>2, <1>5, <1>6, <1>7, <1>8 DEF RowStep

LEMMA ApproveOK ==
    ASSUME SocietyInv, NEW w \in Worker, NEW zone \in Zone, Approve(w, zone)
    PROVE  RowStep(w)
<1> DEFINE socRow == [Fresh(w) EXCEPT !.approval = "APPROVED", !.zone = zone]
<1>1. /\ Serves(w, "approve") /\ Exists(req[w].s) /\ Waiting(Fresh(w))
      /\ WriteDecision(w, socRow, "APPROVED")
  BY DEF Approve
<1>2. Fresh(w) \in Row
  BY <1>1, RequestOf DEF SocietyInv, Ops, AdminOps
<1>3. /\ socRow \in Row /\ socRow.approval = "APPROVED" /\ socRow.zone = zone
      /\ socRow.status = Fresh(w).status /\ socRow.survey = Fresh(w).survey /\ socRow.live = Fresh(w).live
  BY <1>2 DEF Row, Approval
<1> HIDE DEF socRow
<1> QED
  BY <1>1, <1>3, DecisionIsRowStep

LEMMA RejectOK ==
    ASSUME SocietyInv, NEW w \in Worker, Reject(w)
    PROVE  RowStep(w)
<1> DEFINE socRow == [Fresh(w) EXCEPT !.approval = "REJECTED"]
<1>1. /\ Serves(w, "reject") /\ Exists(req[w].s) /\ Waiting(Fresh(w))
      /\ WriteDecision(w, socRow, "REJECTED")
  BY DEF Reject
<1>2. Fresh(w) \in Row
  BY <1>1, RequestOf DEF SocietyInv, Ops, AdminOps
<1>3. /\ socRow \in Row /\ socRow.approval = "REJECTED"
      /\ socRow.status = Fresh(w).status /\ socRow.survey = Fresh(w).survey /\ socRow.live = Fresh(w).live
  BY <1>2 DEF Row, Approval
<1> HIDE DEF socRow
<1> QED
  BY <1>1, <1>3, DecisionIsRowStep

\* A survey is written on an approved society, and its approval is left alone.
LEMMA SurveyIsRowStep ==
    ASSUME SocietyInv, NEW w \in Worker, NEW op \in Ops, Serves(w, op), Exists(req[w].s),
           Fresh(w).approval = "APPROVED",
           NEW survey \in Survey, NEW socRow, socRow = [Fresh(w) EXCEPT !.survey = survey],
           Surveyed(Fresh(w), socRow),
           Judged(req[w].actor, Fresh(w), socRow),
           Write(w, socRow, None)
    PROVE  RowStep(w)
<1>1. /\ OfSociety(req[w])
      /\ Fresh(w) = society[req[w].s] /\ Fresh(w) \in Row
  BY RequestOf DEF SocietyInv, OfSociety
<1>2. RowFits(Fresh(w), told[req[w].s], req[w].s \in swept)
  BY <1>1 DEF SocietyInv, RowsFit, OfSociety
<1>3. socRow \in Row
  BY <1>1 DEF Row
<1>4. RowFits(socRow, IF None = None THEN told[req[w].s] ELSE None, req[w].s \in swept)
  BY <1>1, <1>2, NullAssumption DEF RowFits, Row, Approval
<1> QED
  BY <1>3, <1>4, WriteIsRowStep

\* The roles that survey are not the executive's.
LEMMA SurveyorOf ==
    ASSUME SocietyInv, NEW w \in Worker, NEW op \in SurveyOps, Serves(w, op), Exists(req[w].s)
    PROVE  /\ op \in Ops /\ Fresh(w) \in Row
           /\ ~Is(req[w].actor, "PERMISSION_EXECUTIVE")
           /\ Is(req[w].actor, "SURVEYOR") => ~Is(req[w].actor, "ADMIN")
           /\ LockedInScope(Fresh(w), req[w].actor) =>
                  /\ Fresh(w).approval = "APPROVED"
                  /\ Is(req[w].actor, "SURVEYOR") => Fresh(w).zone \in ZonesOf[req[w].actor]
<1>1. op \in Ops
  BY DEF Ops
<1>2. req[w].op = op /\ Fresh(w) \in Row
  BY <1>1, RequestOf DEF SocietyInv
<1>3. RoleOf[req[w].actor] \in {"SURVEYOR", "ADMIN"}
  BY <1>2 DEF SocietyInv, RolesFit, RoleFits
<1> QED
  BY <1>1, <1>2, <1>3 DEF Is, LockedInScope, ReadsSociety

LEMMA SaveSurveyOK ==
    ASSUME SocietyInv, NEW w \in Worker, NEW ws \in BOOLEAN \cup {Keep}, NEW materials \in BOOLEAN \cup {Keep},
           SaveSurvey(w, ws, materials)
    PROVE  RowStep(w)
<1> DEFINE merged == Merge(Fresh(w).survey, ws, materials)
           state == IF merged.state = "REJECTED" THEN "DRAFT" ELSE merged.state
           survey == [merged EXCEPT !.state = state]
           socRow == [Fresh(w) EXCEPT !.survey = survey]
<1>1. /\ Serves(w, "saveSurvey") /\ Exists(req[w].s) /\ "saveSurvey" \in SurveyOps
      /\ LockedInScope(Fresh(w), req[w].actor)
      /\ NotLiveForSurveyor(Fresh(w), req[w].actor)
      /\ MaySave(Fresh(w).survey, req[w].actor)
      /\ Write(w, socRow, None)
  BY DEF SaveSurvey, SurveyOps
<1>2. /\ "saveSurvey" \in Ops /\ Fresh(w) \in Row
      /\ Fresh(w).approval = "APPROVED" /\ Fresh(w).survey \in Survey \cup {None}
      /\ ~Is(req[w].actor, "PERMISSION_EXECUTIVE")
  BY <1>1, SurveyorOf DEF Row
<1>3. /\ merged \in Survey
      /\ merged.state = IF Fresh(w).survey = None THEN "DRAFT" ELSE Fresh(w).survey.state
  <2>1. CASE Fresh(w).survey = None
    BY <2>1 DEF Merge, Given, Survey, SurveyState
  <2>2. CASE Fresh(w).survey \in Survey
    <3>1. Fresh(w).survey # None
      BY <2>2, NullAssumption
    <3> QED
      BY <2>2, <3>1 DEF Merge, Given, Survey, SurveyState
  <2> QED
    BY <1>2, <2>1, <2>2
<1> HIDE DEF merged
<1>4. survey \in Survey /\ survey.state = state /\ state \in SurveyState
  BY <1>3 DEF Survey, SurveyState
<1> HIDE DEF survey
<1>5. socRow.survey = survey /\ socRow.approval = "APPROVED" /\ socRow.live = Fresh(w).live
  BY <1>2 DEF Row
<1>6. survey # None /\ None \notin SurveyState
  BY <1>4, NullAssumption
<1>7. Surveyed(Fresh(w), socRow)
  BY <1>2, <1>3, <1>4, <1>5, <1>6 DEF Surveyed, SurveyStateOf, SurveyState
<1>8. ASSUME Is(req[w].actor, "SURVEYOR")
      PROVE  /\ ~Fresh(w).live /\ Fresh(w).zone \in ZonesOf[req[w].actor]
             /\ SurveyStateOf(Fresh(w)) # "APPROVED"
  BY <1>1, <1>6, <1>8, SurveyorOf DEF NotLiveForSurveyor, MaySave, SurveyStateOf, SurveyState
<1>9. Judged(req[w].actor, Fresh(w), socRow)
  BY <1>2, <1>8 DEF Judged
<1> QED
  BY <1>1, <1>2, <1>4, <1>7, <1>9, SurveyIsRowStep

LEMMA SubmitSurveyOK ==
    ASSUME SocietyInv, NEW w \in Worker, SubmitSurvey(w)
    PROVE  RowStep(w)
<1> DEFINE survey == [Fresh(w).survey EXCEPT !.state = "SUBMITTED"]
           socRow == [Fresh(w) EXCEPT !.survey = survey]
<1>1. /\ Serves(w, "submitSurvey") /\ Exists(req[w].s) /\ "submitSurvey" \in SurveyOps
      /\ LockedInScope(Fresh(w), req[w].actor)
      /\ NotLiveForSurveyor(Fresh(w), req[w].actor)
      /\ SurveyStateOf(Fresh(w)) \in {"DRAFT", "REJECTED"}
      /\ Write(w, socRow, None)
  BY DEF SubmitSurvey, SurveyOps
<1>2. /\ "submitSurvey" \in Ops /\ Fresh(w) \in Row /\ Fresh(w).approval = "APPROVED"
      /\ ~Is(req[w].actor, "PERMISSION_EXECUTIVE")
  BY <1>1, SurveyorOf
<1>3. Fresh(w).survey \in Survey /\ Fresh(w).survey # None
  BY <1>1, <1>2, NullAssumption DEF SurveyStateOf, Row, SurveyState
<1>4. survey \in Survey /\ survey.state = "SUBMITTED" /\ survey # None
  BY <1>3, NullAssumption DEF Survey, SurveyState
<1> HIDE DEF survey
<1>5. socRow.survey = survey /\ socRow.approval = "APPROVED" /\ socRow.live = Fresh(w).live
  BY <1>2 DEF Row
<1>6. Surveyed(Fresh(w), socRow)
  BY <1>1, <1>2, <1>4, <1>5 DEF Surveyed, SurveyStateOf
<1>7. Is(req[w].actor, "SURVEYOR") => ~Fresh(w).live /\ Fresh(w).zone \in ZonesOf[req[w].actor]
  BY <1>1, SurveyorOf DEF NotLiveForSurveyor
<1>8. Judged(req[w].actor, Fresh(w), socRow)
  BY <1>1, <1>2, <1>7 DEF Judged
<1> QED
  BY <1>1, <1>2, <1>4, <1>6, <1>8, SurveyIsRowStep

LEMMA DecideSurveyOK ==
    ASSUME SocietyInv, NEW w \in Worker, NEW op \in AdminOps, NEW state \in {"APPROVED", "REJECTED"},
           DecideSurvey(w, op, state)
    PROVE  RowStep(w)
<1> DEFINE survey == [Fresh(w).survey EXCEPT !.state = state]
           socRow == [Fresh(w) EXCEPT !.survey = survey]
<1>1. /\ Serves(w, op) /\ Exists(req[w].s) /\ op \in Ops
      /\ SurveyStateOf(Fresh(w)) = "SUBMITTED"
      /\ Write(w, socRow, None)
  BY DEF DecideSurvey, SurveyWaiting, Ops
<1>2. /\ OfSociety(req[w]) /\ req[w].op = op
      /\ Fresh(w) = society[req[w].s] /\ Fresh(w) \in Row
  BY <1>1, RequestOf DEF SocietyInv, OfSociety
<1>3. Fresh(w).survey \in Survey /\ Fresh(w).survey # None
  BY <1>1, <1>2, NullAssumption DEF SurveyStateOf, Row, SurveyState
<1>4. Fresh(w).approval = "APPROVED"
  BY <1>1, <1>2, <1>3 DEF SocietyInv, RowsFit, RowFits, OfSociety
<1>5. survey \in Survey /\ survey.state = state /\ survey # None
  BY <1>3, NullAssumption DEF Survey, SurveyState
<1> HIDE DEF survey
<1>6. socRow.survey = survey /\ socRow.approval = "APPROVED" /\ socRow.live = Fresh(w).live
  BY <1>2, <1>4 DEF Row
<1>7. Surveyed(Fresh(w), socRow)
  BY <1>1, <1>4, <1>5, <1>6 DEF Surveyed, SurveyStateOf
<1>8. Is(req[w].actor, "ADMIN")
  BY <1>2 DEF SocietyInv, RolesFit, RoleFits
<1>9. Judged(req[w].actor, Fresh(w), socRow)
  BY <1>8 DEF Judged, Is
<1> QED
  BY <1>1, <1>4, <1>5, <1>7, <1>9, SurveyIsRowStep

\* The Live flag alone, by an actor who may set it.
LEMMA LiveIsRowStep ==
    ASSUME SocietyInv, NEW w \in Worker, NEW op \in Ops, Serves(w, op), Exists(req[w].s),
           NEW live \in BOOLEAN, NEW socRow, socRow = [Fresh(w) EXCEPT !.live = live],
           Judged(req[w].actor, Fresh(w), socRow),
           Write(w, socRow, None)
    PROVE  RowStep(w)
<1>1. /\ OfSociety(req[w])
      /\ Fresh(w) = society[req[w].s] /\ Fresh(w) \in Row
  BY RequestOf DEF SocietyInv, OfSociety
<1>2. RowFits(Fresh(w), told[req[w].s], req[w].s \in swept)
  BY <1>1 DEF SocietyInv, RowsFit, OfSociety
<1>3. socRow \in Row /\ socRow.approval = Fresh(w).approval /\ socRow.survey = Fresh(w).survey
  BY <1>1 DEF Row
<1>4. RowFits(socRow, IF None = None THEN told[req[w].s] ELSE None, req[w].s \in swept)
  BY <1>1, <1>2, NullAssumption DEF RowFits, Row
<1>5. Restated(Fresh(w), socRow)
  BY <1>3 DEF Restated
<1> QED
  BY <1>3, <1>4, <1>5, WriteIsRowStep

LEMMA MarkLiveOK ==
    ASSUME SocietyInv, NEW w \in Worker, MarkLive(w)
    PROVE  RowStep(w)
<1> DEFINE socRow == [Fresh(w) EXCEPT !.live = TRUE]
<1>1. /\ Serves(w, "markLive") /\ Exists(req[w].s) /\ "markLive" \in SurveyOps
      /\ LockedInScope(Fresh(w), req[w].actor) /\ ~Fresh(w).live
      /\ Write(w, socRow, None)
  BY DEF MarkLive, SurveyOps
<1>2. /\ "markLive" \in Ops /\ Fresh(w) \in Row /\ Fresh(w).approval = "APPROVED"
      /\ ~Is(req[w].actor, "PERMISSION_EXECUTIVE")
      /\ Is(req[w].actor, "SURVEYOR") => Fresh(w).zone \in ZonesOf[req[w].actor]
  BY <1>1, SurveyorOf
<1>3. socRow.survey = Fresh(w).survey
  BY <1>2 DEF Row
<1>4. Judged(req[w].actor, Fresh(w), socRow)
  BY <1>1, <1>2, <1>3 DEF Judged
<1> QED
  BY <1>1, <1>2, <1>4, LiveIsRowStep

LEMMA UpdateStatusOK ==
    ASSUME SocietyInv, NEW w \in Worker, NEW live \in BOOLEAN, UpdateStatus(w, live)
    PROVE  RowStep(w)
<1> DEFINE socRow == [Fresh(w) EXCEPT !.live = live]
<1>1. /\ Serves(w, "status") /\ Exists(req[w].s) /\ "status" \in Ops
      /\ Write(w, socRow, None)
  BY DEF UpdateStatus, Ops
<1>2. RoleOf[req[w].actor] \in {"ADMIN", "MANAGER", "SUPERVISOR"}
  BY <1>1, RequestOf DEF SocietyInv, RolesFit, RoleFits
<1>3. Judged(req[w].actor, Fresh(w), socRow)
  BY <1>2 DEF Judged, Is
<1> QED
  BY <1>1, <1>3, LiveIsRowStep

-----------------------------------------------------------------------------
(* The other steps.                                                        *)

LEMMA AddOK ==
    ASSUME SocietyInv, NEW s \in Society, NEW a \in Actor, NEW status \in Status \cup {None},
           NEW zone \in Zone \cup {None}, NEW live \in BOOLEAN, Add(s, a, status, zone, live)
    PROVE  /\ SocietyInv'
           /\ society[s] = None
           /\ \E socRow \in Row : /\ society' = [society EXCEPT ![s] = socRow]
                               /\ socRow.approval \in {None, "PENDING"} /\ socRow.survey = None
<1> DEFINE socRow == [owner |-> a, status |-> status, approval |-> None, zone |-> zone,
                   live |-> live, survey |-> None]
           transition == ApprovalTransition(None, status)
           kind == TransitionVisit(transition, None)
           next == TransitionData(socRow, transition)
<1>1. /\ society[s] = None
      /\ society' = [society EXCEPT ![s] = next] /\ told' = [told EXCEPT ![s] = kind]
      /\ UNCHANGED <<swept, req>>
  BY DEF Add
<1>2. /\ socRow \in Row /\ socRow.approval = None /\ socRow.survey = None
      /\ socRow.status = status /\ None \notin Approval
  BY NullAssumption DEF Row
<1> HIDE DEF socRow
<1>3. transition = ApprovalTransition(socRow.approval, socRow.status)
  BY <1>2
<1> HIDE DEF transition, kind, next
<1>4. kind = TransitionVisit(transition, None) /\ next = TransitionData(socRow, transition)
  BY DEF kind, next
<1> DEFINE wasSwept == s \in swept
<1>5. None \in {None, "WITHDRAWN"} /\ wasSwept \in BOOLEAN
  OBVIOUS
<1> HIDE DEF wasSwept
<1>6. socRow.approval \notin {"APPROVED", "PENDING"} /\ ~(socRow.survey # None)
  BY <1>2 DEF Approval
<1>7. /\ kind \in DecisionKind \cup {None} /\ next \in Row
      /\ next = [socRow EXCEPT !.approval = next.approval]
      /\ next.approval \in {None, "PENDING"}
      /\ RowFits(next, IF kind = None THEN None ELSE kind, wasSwept)
  <2>1. Turned(socRow, None, wasSwept, kind, next)
    BY <1>2, <1>3, <1>4, <1>5, <1>6, TransitionFits, Zenon
  <2> QED
    BY <1>2, <2>1 DEF Turned
<1>8. next.survey = None
  BY <1>2, <1>7 DEF Row
<1>9. RowFits(next, kind, s \in swept)
  BY <1>7, <1>8 DEF RowFits, wasSwept
<1>10. TypeOK'
  BY <1>1, <1>7 DEF SocietyInv, TypeOK
<1>11. RowsFit'
  <2>1. ASSUME NEW t \in Society, Exists(t)' PROVE RowFits(society'[t], told'[t], t \in swept')
    BY <1>1, <1>9, <2>1 DEF SocietyInv, TypeOK, RowsFit, Exists
  <2> QED
    BY <2>1 DEF RowsFit
<1>12. RolesFit'
  BY <1>1 DEF SocietyInv, RolesFit
<1> QED
  BY <1>1, <1>7, <1>8, <1>10, <1>11, <1>12 DEF SocietyInv

LEMMA StartOK ==
    ASSUME SocietyInv, NEW w \in Worker, NEW op \in Ops, NEW s \in Society, NEW a \in Actor, Start(w, op, s, a)
    PROVE  /\ SocietyInv'
           /\ society' = society
           /\ \A v \in Worker : req[v] # Idle => req'[v] = req[v]
<1> DEFINE r == [op |-> op, s |-> s, actor |-> a, late |-> FALSE]
<1>1. /\ req[w] = Idle /\ Exists(s) /\ MayStart(op, society[s], a)
      /\ req' = [req EXCEPT ![w] = r] /\ UNCHANGED <<society, told, swept>>
  BY DEF Start
<1>2. r \in Request
  BY DEF Request
<1>3. TypeOK'
  BY <1>1, <1>2 DEF SocietyInv, TypeOK
<1>4. RoleFits(r)
  BY <1>1 DEF MayStart, RoleFits, MaySurvey, Is, AdminOps, SurveyOps
<1>5. RolesFit'
  BY <1>1, <1>4 DEF SocietyInv, TypeOK, RolesFit
<1>6. RowsFit'
  BY <1>1 DEF SocietyInv, RowsFit, Exists
<1> QED
  BY <1>1, <1>3, <1>5, <1>6 DEF SocietyInv, TypeOK

LEMMA CountZoneOK ==
    ASSUME SocietyInv, NEW w \in Worker, NEW zone \in Zone, CountZone(w, zone)
    PROVE  /\ SocietyInv'
           /\ society' = society
           /\ \A v \in Worker : req[v] # Idle => req'[v] = req[v]
<1> DEFINE r == [op |-> "deleteZone", zone |-> zone, empty |-> TRUE]
<1>1. /\ req[w] = Idle
      /\ req' = [req EXCEPT ![w] = r] /\ UNCHANGED <<society, told, swept>>
  BY DEF CountZone
<1>2. r \in Request /\ RoleFits(r)
  BY DEF Request, RoleFits, AdminOps, SurveyOps
<1>3. TypeOK'
  BY <1>1, <1>2 DEF SocietyInv, TypeOK
<1>4. RolesFit'
  BY <1>1, <1>2 DEF SocietyInv, TypeOK, RolesFit
<1>5. RowsFit'
  BY <1>1 DEF SocietyInv, RowsFit, Exists
<1> QED
  BY <1>1, <1>3, <1>4, <1>5 DEF SocietyInv, TypeOK

LEMMA DropOK ==
    ASSUME SocietyInv, NEW w \in Worker, Drop(w)
    PROVE  /\ SocietyInv'
           /\ society' = society
           /\ \A v \in Worker : v # w => req'[v] = req[v]
<1>1. req' = [req EXCEPT ![w] = Idle] /\ UNCHANGED <<society, told, swept>>
  BY DEF Drop
<1>2. Idle \in Request /\ RoleFits(Idle)
  BY DEF Request, Idle, RoleFits, AdminOps, SurveyOps
<1>3. TypeOK'
  BY <1>1, <1>2 DEF SocietyInv, TypeOK
<1>4. RolesFit'
  BY <1>1, <1>2 DEF SocietyInv, TypeOK, RolesFit
<1>5. RowsFit'
  BY <1>1 DEF SocietyInv, RowsFit, Exists
<1> QED
  BY <1>1, <1>3, <1>4, <1>5 DEF SocietyInv, TypeOK

LEMMA DeleteOK ==
    ASSUME SocietyInv, NEW w \in Worker, Delete(w)
    PROVE  /\ SocietyInv'
           /\ OfSociety(req[w]) /\ Is(req[w].actor, "ADMIN") /\ Exists(req[w].s)
           /\ society' = [society EXCEPT ![req[w].s] = Gone]
           /\ \A v \in Worker : v # w /\ req[v] # Idle => req'[v] # Idle
<1>1. /\ Serves(w, "delete") /\ Exists(req[w].s) /\ "delete" \in Ops /\ "delete" \in AdminOps
      /\ society' = [society EXCEPT ![req[w].s] = Gone]
      /\ Done(w, None) /\ UNCHANGED <<told, swept>>
  BY DEF Delete, Ops, AdminOps
<1>2. OfSociety(req[w]) /\ req[w].op = "delete"
  BY <1>1, RequestOf DEF SocietyInv, OfSociety
<1>3. Is(req[w].actor, "ADMIN")
  BY <1>1, <1>2 DEF SocietyInv, RolesFit, RoleFits
<1>4. TypeOK /\ RolesFit /\ RowsFit
  BY DEF SocietyInv
<1>5. /\ req' \in [Worker -> Request] /\ RolesFit'
      /\ \A v \in Worker : v # w /\ req[v] # Idle => req'[v] # Idle
  BY <1>1, <1>4, DoneOK
<1>6. TypeOK'
  BY <1>1, <1>4, <1>5 DEF TypeOK
<1>7. RowsFit'
  BY <1>1, <1>4 DEF TypeOK, RowsFit, Exists
<1> QED
  BY <1>1, <1>2, <1>3, <1>5, <1>6, <1>7 DEF SocietyInv

LEMMA DeleteZoneOK ==
    ASSUME SocietyInv, NEW w \in Worker, DeleteZone(w)
    PROVE  /\ SocietyInv'
           /\ req[w].op = "deleteZone"
           /\ \A s \in Society :
                 IF Exists(s) THEN society'[s] \in Row /\ society'[s] = [society[s] EXCEPT !.zone = society'[s].zone]
                 ELSE society'[s] = society[s]
           /\ \A v \in Worker : v # w => req'[v] = req[v]
<1> DEFINE zone == req[w].zone
<1>1. /\ req[w].op = "deleteZone"
      /\ society' = [s \in Society |-> IF s \in In(zone) THEN [society[s] EXCEPT !.zone = None] ELSE society[s]]
      /\ swept' = swept \cup In(zone)
      /\ req' = [req EXCEPT ![w] = Idle] /\ told' = told
  BY DEF DeleteZone, Serves
<1>2. Idle \in Request /\ RoleFits(Idle)
  BY DEF Request, Idle, RoleFits, AdminOps, SurveyOps
<1>3. In(zone) \subseteq Society /\ \A s \in In(zone) : Exists(s)
  BY DEF In
<1> HIDE DEF zone
<1>4. ASSUME NEW s \in Society, Exists(s)
      PROVE  /\ society'[s] \in Row /\ society'[s] = [society[s] EXCEPT !.zone = society'[s].zone]
             /\ society'[s].zone = society[s].zone \/ s \in swept'
  <2>1. society[s] \in Row
    BY <1>4 DEF SocietyInv, TypeOK, Exists
  <2>2. CASE s \in In(zone)
    BY <1>1, <2>1, <2>2 DEF Row
  <2>3. CASE s \notin In(zone)
    BY <1>1, <2>1, <2>3 DEF Row
  <2> QED
    BY <2>2, <2>3
<1>5. ASSUME NEW s \in Society, ~Exists(s) PROVE society'[s] = society[s]
  BY <1>1, <1>3, <1>5
<1>6. TypeOK'
  <2>1. \A s \in Society : society'[s] \in Row \cup {None, Gone}
    BY <1>4, <1>5 DEF Exists
  <2>2. society' \in [Society -> Row \cup {None, Gone}]
    BY <1>1, <2>1
  <2> QED
    BY <1>1, <1>2, <1>3, <2>2 DEF SocietyInv, TypeOK
<1>7. RowsFit'
  <2>1. ASSUME NEW s \in Society, Exists(s)' PROVE RowFits(society'[s], told'[s], s \in swept')
    <3>1. Exists(s)
      BY <1>5, <2>1 DEF Exists
    <3>2. RowFits(society[s], told[s], s \in swept) /\ society[s] \in Row
      BY <3>1 DEF SocietyInv, RowsFit, TypeOK, Exists
    <3>3. /\ society'[s].approval = society[s].approval /\ society'[s].status = society[s].status
          /\ society'[s].survey = society[s].survey
      BY <1>4, <3>1, <3>2 DEF Row
    <3>4. society'[s].zone = society[s].zone \/ s \in swept'
      BY <1>4, <3>1
    <3> QED
      BY <1>1, <3>2, <3>3, <3>4 DEF RowFits
  <2> QED
    BY <2>1 DEF RowsFit
<1>8. RolesFit'
  BY <1>1, <1>2 DEF SocietyInv, TypeOK, RolesFit
<1> QED
  BY <1>1, <1>4, <1>5, <1>6, <1>7, <1>8 DEF SocietyInv, TypeOK

-----------------------------------------------------------------------------
(* What holds of the societies.                                            *)

LEMMA ServeCases ==
    ASSUME SocietyInv, NEW w \in Worker, Serve(w)
    PROVE  RowStep(w) \/ Delete(w) \/ DeleteZone(w) \/ Drop(w)
<1>1. ASSUME NEW given \in Status \cup {Keep}, AddVisit(w, given) PROVE RowStep(w)
  BY <1>1, AddVisitOK
<1>2. ASSUME NEW given \in Status \cup {None, Keep}, NEW zone \in Zone \cup {Keep},
             NEW live \in BOOLEAN \cup {Keep}, Edit(w, given, zone, live)
      PROVE  RowStep(w)
  BY <1>2, EditOK
<1>3. ASSUME NEW zone \in Zone, Approve(w, zone) PROVE RowStep(w)
  BY <1>3, ApproveOK
<1>4. ASSUME Reject(w) PROVE RowStep(w)
  BY <1>4, RejectOK
<1>5. ASSUME NEW ws \in BOOLEAN \cup {Keep}, NEW materials \in BOOLEAN \cup {Keep},
             SaveSurvey(w, ws, materials)
      PROVE  RowStep(w)
  BY <1>5, SaveSurveyOK
<1>6. ASSUME SubmitSurvey(w) PROVE RowStep(w)
  BY <1>6, SubmitSurveyOK
<1>7. ASSUME ApproveMaterials(w) \/ RejectMaterials(w) PROVE RowStep(w)
  BY <1>7, DecideSurveyOK DEF ApproveMaterials, RejectMaterials, AdminOps
<1>8. ASSUME MarkLive(w) PROVE RowStep(w)
  BY <1>8, MarkLiveOK
<1>9. ASSUME NEW live \in BOOLEAN, UpdateStatus(w, live) PROVE RowStep(w)
  BY <1>9, UpdateStatusOK
<1> QED
  BY <1>1, <1>2, <1>3, <1>4, <1>5, <1>6, <1>7, <1>8, <1>9 DEF Serve

LEMMA SocietyStepOK == SocietyInv /\ [Next]_vars => SocietyInv'
<1> SUFFICES ASSUME SocietyInv, [Next]_vars PROVE SocietyInv'
  OBVIOUS
<1>1. ASSUME NEW s \in Society, NEW a \in Actor, NEW status \in Status \cup {None},
             NEW zone \in Zone \cup {None}, NEW live \in BOOLEAN, Add(s, a, status, zone, live)
      PROVE  SocietyInv'
  BY <1>1, AddOK
<1>2. ASSUME NEW w \in Worker, NEW op \in Ops, NEW s \in Society, NEW a \in Actor, Start(w, op, s, a)
      PROVE  SocietyInv'
  BY <1>2, StartOK
<1>3. ASSUME NEW w \in Worker, NEW zone \in Zone, CountZone(w, zone) PROVE SocietyInv'
  BY <1>3, CountZoneOK
<1>4. ASSUME NEW w \in Worker, Serve(w) PROVE SocietyInv'
  BY <1>4, ServeCases, RowStepKeeps, DeleteOK, DeleteZoneOK, DropOK
<1>5. CASE UNCHANGED vars
  BY <1>5 DEF vars, SocietyInv, TypeOK, RowsFit, RolesFit, Exists
<1> QED
  BY <1>1, <1>2, <1>3, <1>4, <1>5 DEF Next

\* The tables hold rows of the schema, and a request in flight knows its actor
\* and its society.
THEOREM SocietyTypesHold == Spec => []TypeOK
<1>1. SocietyInv => TypeOK
  BY DEF SocietyInv
<1> QED
  BY <1>1, SocietyInitOK, SocietyStepOK, PTL DEF Spec

\* However many visits, edits and decisions overlap on a society, and whatever
\* zones are deleted meanwhile: its approval follows its status, the history
\* tells whether it waits, and it is surveyed in a zone only once approved.
THEOREM ApprovalStaysConsistent == Spec => []ApprovalIsConsistent
<1>1. SocietyInv => ApprovalIsConsistent
  BY RowsFitIsConsistency DEF SocietyInv
<1> QED
  BY <1>1, SocietyInitOK, SocietyStepOK, PTL DEF Spec

\* A request that ends ends by a step of its own.
LEMMA FinisherIsOwn ==
    ASSUME SocietyInv, [Next]_vars, NEW w \in Worker, NEW s \in Society, Finishes(w, s)
    PROVE  society'[s] = society[s] \/ RowStep(w) \/ Delete(w)
<1>1. req[w] # Idle /\ req[w].op # "deleteZone" /\ req[w].s = s /\ req'[w] = Idle
  BY DEF Finishes
<1>2. ASSUME NEW t \in Society, NEW a \in Actor, NEW status \in Status \cup {None},
             NEW zone \in Zone \cup {None}, NEW live \in BOOLEAN, Add(t, a, status, zone, live)
      PROVE  FALSE
  BY <1>1, <1>2 DEF Add
<1>3. ASSUME NEW v \in Worker, NEW op \in Ops, NEW t \in Society, NEW a \in Actor, Start(v, op, t, a)
      PROVE  society' = society
  BY <1>3, StartOK
<1>4. ASSUME NEW v \in Worker, NEW zone \in Zone, CountZone(v, zone) PROVE society' = society
  BY <1>4, CountZoneOK
<1>5. ASSUME NEW v \in Worker, Serve(v)
      PROVE  society' = society \/ RowStep(w) \/ Delete(w)
  <2>1. CASE RowStep(v)
    <3>1. PICK kind : Done(v, kind)
      BY <2>1 DEF RowStep
    <3>2. v = w
      BY <1>1, <3>1, DoneOK DEF SocietyInv
    <3> QED
      BY <2>1, <3>2
  <2>2. CASE Delete(v)
    BY <1>1, <2>2, DeleteOK
  <2>3. CASE DeleteZone(v)
    BY <1>1, <2>3, DeleteZoneOK
  <2>4. CASE Drop(v)
    BY <2>4, DropOK
  <2> QED
    BY <1>5, <2>1, <2>2, <2>3, <2>4, ServeCases
<1>6. CASE UNCHANGED vars
  BY <1>6 DEF vars
<1> QED
  BY <1>2, <1>3, <1>4, <1>5, <1>6 DEF Next

\* Whatever is decided between a request's first look and its transaction, an
\* executive writes on no approved society, and a surveyor on none that is not
\* approved in a zone of theirs, is live, or whose approved materials it changes.
THEOREM RowsAreJudgedUnderLock == Spec => JudgedUnderLock
<1>1. ASSUME SocietyInv, [Next]_vars, NEW w \in Worker, NEW s \in Society, Finishes(w, s), Exists(s)
      PROVE  society'[s] = society[s] \/ Is(req[w].actor, "ADMIN") \/ Judged(req[w].actor, society[s], society'[s])
  <2>1. req[w].s = s /\ society \in [Society -> Row \cup {None, Gone}]
    BY <1>1 DEF Finishes, SocietyInv, TypeOK
  <2>2. CASE RowStep(w)
    BY <2>1, <2>2 DEF RowStep
  <2>3. CASE Delete(w)
    BY <1>1, <2>3, DeleteOK
  <2> QED
    BY <1>1, <2>2, <2>3, FinisherIsOwn
<1>2. ASSUME SocietyInv, [Next]_vars, NEW w \in Worker, NEW s \in Society, Finishes(w, s), ~Exists(s)
      PROVE  society'[s] = society[s]
  BY <1>2, FinisherIsOwn, DeleteOK DEF Finishes, RowStep
<1>3. SocietyInv /\ [Next]_vars =>
        \A w \in Worker, s \in Society :
          (/\ Finishes(w, s) /\ Exists(s)
           /\ society[s].approval = "APPROVED" /\ Is(req[w].actor, "PERMISSION_EXECUTIVE"))
          => society'[s] = society[s]
  BY <1>1 DEF Judged, Is
<1>4. SocietyInv /\ [Next]_vars =>
        \A w \in Worker, s \in Society :
          (Finishes(w, s) /\ Is(req[w].actor, "SURVEYOR") /\ society'[s] # society[s])
          => /\ society[s].approval = "APPROVED" /\ society[s].zone \in ZonesOf[req[w].actor]
             /\ ~society[s].live
             /\ SurveyStateOf(society[s]) = "APPROVED" => society'[s].survey = society[s].survey
  BY <1>1, <1>2 DEF Judged, Is
<1> QED
  BY <1>3, <1>4, SocietyInitOK, SocietyStepOK, PTL DEF Spec, JudgedUnderLock, ExecutiveLockedOut, SurveyorScope

-----------------------------------------------------------------------------
(* The life cycle of a society.                                            *)

\* What SocietyWorkflow sees of the rows.
ApprovalOf == [s \in Society |-> Field(s, "approval")]
SurveyOf == [s \in Society |-> IF Exists(s) THEN SurveyStateOf(society[s]) ELSE society[s]]
LiveOf == [s \in Society |-> Exists(s) /\ society[s].live]

\* A row that is written is seen as it is.
LEMMA SeenRow ==
    ASSUME TypeOK, NEW s \in Society, NEW socRow \in Row, society' = [society EXCEPT ![s] = socRow]
    PROVE  /\ ApprovalOf' = [ApprovalOf EXCEPT ![s] = socRow.approval]
           /\ SurveyOf' = [SurveyOf EXCEPT ![s] = SurveyStateOf(socRow)]
           /\ LiveOf' = [LiveOf EXCEPT ![s] = socRow.live]
<1>1. society \in [Society -> Row \cup {None, Gone}] /\ socRow.live \in BOOLEAN
  BY DEF TypeOK, Row
<1>2. /\ society'[s] = socRow /\ Exists(s)'
      /\ \A t \in Society : t # s => society'[t] = society[t] /\ (Exists(t)' <=> Exists(t))
  BY <1>1, NullAssumption DEF Exists
<1>3. \A t \in Society : ApprovalOf'[t] = IF t = s THEN socRow.approval ELSE ApprovalOf[t]
  BY <1>2 DEF ApprovalOf, Field
<1>4. \A t \in Society : SurveyOf'[t] = IF t = s THEN SurveyStateOf(socRow) ELSE SurveyOf[t]
  BY <1>2 DEF SurveyOf, SurveyStateOf
<1>5. \A t \in Society : LiveOf'[t] = IF t = s THEN socRow.live ELSE LiveOf[t]
  BY <1>1, <1>2 DEF LiveOf
<1>6. ApprovalOf' = [ApprovalOf EXCEPT ![s] = socRow.approval]
  BY <1>3 DEF ApprovalOf
<1>7. SurveyOf' = [SurveyOf EXCEPT ![s] = SurveyStateOf(socRow)]
  BY <1>4 DEF SurveyOf
<1>8. LiveOf' = [LiveOf EXCEPT ![s] = socRow.live]
  BY <1>5 DEF LiveOf
<1> QED
  BY <1>6, <1>7, <1>8

\* As long as rows keep what the life cycle sees, it stands still.
LEMMA SeenAlike ==
    ASSUME TypeOK,
           \A s \in Society :
              /\ Exists(s)' <=> Exists(s)
              /\ Exists(s) => /\ society'[s].approval = society[s].approval
                              /\ society'[s].survey = society[s].survey
                              /\ society'[s].live = society[s].live
              /\ ~Exists(s) => society'[s] = society[s]
    PROVE  UNCHANGED <<ApprovalOf, SurveyOf, LiveOf>>
<1>1. ApprovalOf' = ApprovalOf
  BY DEF ApprovalOf, Field
<1>2. SurveyOf' = SurveyOf
  BY DEF SurveyOf, SurveyStateOf
<1>3. LiveOf' = LiveOf
  BY DEF LiveOf
<1> QED
  BY <1>1, <1>2, <1>3

LEMMA RowStepIsWorkflow ==
    ASSUME SocietyInv, NEW w \in Worker, RowStep(w)
    PROVE  Workflow!Next \/ UNCHANGED Workflow!vars
<1>0. PICK s \in Society : s = req[w].s
  BY DEF RowStep, OfSociety
<1>1. PICK socRow \in Row :
        /\ society' = [society EXCEPT ![s] = socRow]
        /\ Restated(society[s], socRow) \/ Decided(society[s], socRow) \/ Surveyed(society[s], socRow)
  BY <1>0 DEF RowStep
<1>2. s \in Society /\ Exists(s) /\ society[s] \in Row /\ TypeOK
  BY <1>0 DEF RowStep, SocietyInv, TypeOK, Exists
<1>3. /\ ApprovalOf' = [ApprovalOf EXCEPT ![s] = socRow.approval]
      /\ SurveyOf' = [SurveyOf EXCEPT ![s] = SurveyStateOf(socRow)]
      /\ LiveOf' = [LiveOf EXCEPT ![s] = socRow.live]
  BY <1>1, <1>2, SeenRow
<1>4. /\ ApprovalOf[s] = society[s].approval
      /\ SurveyOf[s] = SurveyStateOf(society[s])
      /\ LiveOf[s] = society[s].live
  BY <1>2 DEF ApprovalOf, SurveyOf, LiveOf, Field, Row
<1>5. society[s].approval # Gone /\ socRow.live \in BOOLEAN
  BY <1>2, NullAssumption DEF Row
<1>6. CASE Restated(society[s], socRow)
  <2>1. SurveyOf' = SurveyOf
    BY <1>2, <1>3, <1>4, <1>6 DEF Restated, SurveyStateOf, SurveyOf
  <2>2. \/ ApprovalOf' = ApprovalOf
        \/ ApprovalOf[s] \in {None, "REJECTED"} /\ ApprovalOf' = [ApprovalOf EXCEPT ![s] = "PENDING"]
        \/ ApprovalOf[s] = "PENDING" /\ ApprovalOf' = [ApprovalOf EXCEPT ![s] = None]
    BY <1>2, <1>3, <1>4, <1>6 DEF Restated, ApprovalOf
  <2>3. Workflow!SetLive(s)
    BY <1>3, <1>4, <1>5, <2>1, <2>2 DEF Workflow!SetLive, Workflow!Is, ApprovalOf, SurveyOf, LiveOf
  <2> QED
    BY <1>2, <2>3 DEF Workflow!Next
<1>7. CASE Decided(society[s], socRow)
  <2>1. SurveyOf' = SurveyOf /\ LiveOf' = LiveOf
    <3>1. SurveyOf' = SurveyOf
      BY <1>2, <1>3, <1>4, <1>7 DEF Decided, SurveyStateOf, SurveyOf
    <3>2. LiveOf' = LiveOf
      BY <1>3, <1>4, <1>7 DEF Decided, LiveOf
    <3> QED
      BY <3>1, <3>2
  <2>2. /\ ApprovalOf[s] \in {"PENDING"}
        /\ \/ ApprovalOf' = [ApprovalOf EXCEPT ![s] = "APPROVED"]
           \/ ApprovalOf' = [ApprovalOf EXCEPT ![s] = "REJECTED"]
    BY <1>3, <1>4, <1>7 DEF Decided
  <2>3. Workflow!Approve(s) \/ Workflow!Reject(s)
    BY <2>1, <2>2 DEF Workflow!Approve, Workflow!Reject, Workflow!Decide, ApprovalOf, SurveyOf, LiveOf
  <2> QED
    BY <1>2, <2>3 DEF Workflow!Next
<1>8. CASE Surveyed(society[s], socRow)
  <2>1. ApprovalOf' = ApprovalOf /\ LiveOf' = LiveOf /\ ApprovalOf[s] = "APPROVED"
    BY <1>2, <1>3, <1>4, <1>8 DEF Surveyed, ApprovalOf, LiveOf
  <2>2. \/ SurveyOf' = SurveyOf
        \/ SurveyOf[s] \in {None, "REJECTED"} /\ SurveyOf' = [SurveyOf EXCEPT ![s] = "DRAFT"]
        \/ SurveyOf[s] \in {"DRAFT", "REJECTED"} /\ SurveyOf' = [SurveyOf EXCEPT ![s] = "SUBMITTED"]
        \/ /\ SurveyOf[s] \in {"SUBMITTED"}
           /\ \E to \in {"APPROVED", "REJECTED"} : SurveyOf' = [SurveyOf EXCEPT ![s] = to]
    BY <1>2, <1>3, <1>4, <1>8 DEF Surveyed, SurveyOf
  <2>3. UNCHANGED Workflow!vars \/ Workflow!Draft(s) \/ Workflow!SubmitSurvey(s) \/ Workflow!DecideMaterials(s)
    BY <2>1, <2>2 DEF Workflow!vars, Workflow!Draft, Workflow!SubmitSurvey, Workflow!DecideMaterials,
                      Workflow!Move, Workflow!Is, ApprovalOf, SurveyOf, LiveOf
  <2> QED
    BY <1>2, <2>3 DEF Workflow!Next
<1> QED
  BY <1>1, <1>6, <1>7, <1>8

LEMMA AddIsWorkflow ==
    ASSUME SocietyInv, NEW s \in Society, NEW a \in Actor, NEW status \in Status \cup {None},
           NEW zone \in Zone \cup {None}, NEW live \in BOOLEAN, Add(s, a, status, zone, live)
    PROVE  Workflow!Next
<1>1. PICK socRow \in Row : /\ society[s] = None /\ society' = [society EXCEPT ![s] = socRow]
                         /\ socRow.approval \in {None, "PENDING"} /\ socRow.survey = None
  BY AddOK
<1>2. /\ ApprovalOf' = [ApprovalOf EXCEPT ![s] = socRow.approval]
      /\ SurveyOf' = [SurveyOf EXCEPT ![s] = SurveyStateOf(socRow)]
      /\ LiveOf' = [LiveOf EXCEPT ![s] = socRow.live]
      /\ socRow.live \in BOOLEAN
  BY <1>1, SeenRow DEF SocietyInv, Row
<1>3. ApprovalOf[s] = None /\ SurveyOf[s] = None /\ None # Gone
  BY <1>1, NullAssumption DEF ApprovalOf, SurveyOf, Field, Exists
<1>4. SurveyOf' = SurveyOf
  BY <1>1, <1>2, <1>3 DEF SurveyStateOf, SurveyOf
<1>5. \/ ApprovalOf' = ApprovalOf
      \/ ApprovalOf[s] \in {None, "REJECTED"} /\ ApprovalOf' = [ApprovalOf EXCEPT ![s] = "PENDING"]
  BY <1>1, <1>2, <1>3 DEF ApprovalOf
<1>6. Workflow!SetLive(s)
  BY <1>2, <1>3, <1>4, <1>5 DEF Workflow!SetLive, Workflow!Is, ApprovalOf, SurveyOf, LiveOf
<1> QED
  BY <1>6 DEF Workflow!Next

LEMMA DeleteIsWorkflow ==
    ASSUME SocietyInv, NEW w \in Worker, Delete(w)
    PROVE  Workflow!Next
<1>1. PICK s \in Society : Exists(s) /\ society' = [society EXCEPT ![s] = Gone]
  BY DeleteOK DEF OfSociety
<1>2. society \in [Society -> Row \cup {None, Gone}] /\ society[s] \in Row
  BY <1>1 DEF SocietyInv, TypeOK, Exists
<1>3. /\ society'[s] = Gone /\ ~Exists(s)'
      /\ \A t \in Society : t # s => society'[t] = society[t] /\ (Exists(t)' <=> Exists(t))
  BY <1>1, <1>2 DEF Exists
<1>4. ApprovalOf' = [ApprovalOf EXCEPT ![s] = Gone]
  BY <1>3 DEF ApprovalOf, Field
<1>5. SurveyOf' = [SurveyOf EXCEPT ![s] = Gone]
  BY <1>3 DEF SurveyOf, SurveyStateOf
<1>6. LiveOf' = [LiveOf EXCEPT ![s] = FALSE]
  BY <1>3 DEF LiveOf
<1>7. ApprovalOf[s] # Gone
  BY <1>1, <1>2, NullAssumption DEF ApprovalOf, Field, Row
<1>8. Workflow!Remove(s)
  BY <1>4, <1>5, <1>6, <1>7 DEF Workflow!Remove, Workflow!Is, ApprovalOf, SurveyOf, LiveOf
<1> QED
  BY <1>1, <1>8 DEF Workflow!Next

\* Every request, however it overlaps with others, moves a society along the
\* life cycle that the approval and survey rules describe, or leaves it be.
THEOREM RequestsFollowWorkflow == Spec => ImplementsWorkflow
<1>1. Init => Workflow!Init
  BY NullAssumption DEF Init, Workflow!Init, Field, Exists
<1>2. ASSUME SocietyInv, [Next]_vars PROVE Workflow!Next \/ UNCHANGED Workflow!vars
  <2>1. ASSUME NEW s \in Society, NEW a \in Actor, NEW status \in Status \cup {None},
               NEW zone \in Zone \cup {None}, NEW live \in BOOLEAN, Add(s, a, status, zone, live)
        PROVE  Workflow!Next
    BY <1>2, <2>1, AddIsWorkflow
  <2>2. ASSUME society' = society PROVE UNCHANGED Workflow!vars
    BY <1>2, <2>2, SeenAlike DEF SocietyInv, Exists, Workflow!vars, ApprovalOf, SurveyOf, LiveOf
  <2>3. ASSUME NEW w \in Worker, NEW op \in Ops, NEW s \in Society, NEW a \in Actor, Start(w, op, s, a)
        PROVE  society' = society
    BY <1>2, <2>3, StartOK
  <2>4. ASSUME NEW w \in Worker, NEW zone \in Zone, CountZone(w, zone) PROVE society' = society
    BY <1>2, <2>4, CountZoneOK
  <2>5. ASSUME NEW w \in Worker, DeleteZone(w) PROVE UNCHANGED Workflow!vars
    <3>1. ASSUME NEW s \in Society
          PROVE  /\ Exists(s)' <=> Exists(s)
                 /\ Exists(s) => /\ society'[s].approval = society[s].approval
                                 /\ society'[s].survey = society[s].survey
                                 /\ society'[s].live = society[s].live
                 /\ ~Exists(s) => society'[s] = society[s]
      <4>1. CASE Exists(s)
        <5>1. /\ society'[s] \in Row /\ society[s] \in Row
              /\ society'[s] = [society[s] EXCEPT !.zone = society'[s].zone]
          BY <1>2, <2>5, <4>1, DeleteZoneOK DEF SocietyInv, TypeOK, Exists
        <5>2. Exists(s)'
          BY <5>1, NullAssumption DEF Exists
        <5> QED
          BY <4>1, <5>1, <5>2 DEF Row
      <4>2. CASE ~Exists(s)
        BY <1>2, <2>5, <4>2, DeleteZoneOK DEF Exists
      <4> QED
        BY <4>1, <4>2
    <3>2. UNCHANGED <<ApprovalOf, SurveyOf, LiveOf>>
      BY <1>2, <3>1, SeenAlike DEF SocietyInv
    <3> QED
      BY <3>2 DEF Workflow!vars, ApprovalOf, SurveyOf, LiveOf
  <2>6. ASSUME NEW w \in Worker, Serve(w) PROVE Workflow!Next \/ UNCHANGED Workflow!vars
    BY <1>2, <2>2, <2>5, <2>6, ServeCases, RowStepIsWorkflow, DeleteIsWorkflow, DropOK
  <2>7. CASE UNCHANGED vars
    BY <2>2, <2>7 DEF vars
  <2> QED
    BY <1>2, <2>1, <2>2, <2>3, <2>4, <2>6, <2>7 DEF Next
<1>3. SocietyInv /\ [Next]_vars => [Workflow!Next]_(Workflow!vars)
  BY <1>2
<1> QED
  BY <1>1, <1>3, SocietyInitOK, SocietyStepOK, PTL DEF Spec, ImplementsWorkflow, Workflow!Spec

-----------------------------------------------------------------------------
(* The lists of societies.                                                 *)

\* The roles the routes of societies let in; and a field that is left out is
\* nobody, no stage and no set of zones.
SocietyReaders ==
    /\ \A a \in Actor : RoleOf[a] \in {"ADMIN", "PERMISSION_EXECUTIVE", "SURVEYOR", "MANAGER", "SUPERVISOR"}
    /\ Keep \notin Actor \cup Stage \cup SUBSET Zone

\* What a row says of where its society stands.
LEMMA SqlOf ==
    ASSUME NEW socRow \in Row
    PROVE  /\ StageSql(socRow, "APPROVAL_PENDING") <=> socRow.approval = "PENDING"
           /\ StageSql(socRow, "APPROVED_NO_SURVEY") <=> /\ socRow.approval = "APPROVED" /\ ~socRow.live
                                                         /\ SurveyStateOf(socRow) \in {None, "DRAFT", "REJECTED"}
           /\ StageSql(socRow, "SURVEY_SUBMITTED") <=> /\ socRow.approval = "APPROVED" /\ ~socRow.live
                                                       /\ SurveyStateOf(socRow) = "SUBMITTED"
           /\ StageSql(socRow, "MATERIALS_APPROVED") <=> /\ socRow.approval = "APPROVED" /\ ~socRow.live
                                                         /\ SurveyStateOf(socRow) = "APPROVED"
           /\ StageSql(socRow, "LIVE") <=> socRow.approval = "APPROVED" /\ socRow.live
<1>1. StageSql(socRow, "APPROVAL_PENDING") <=> socRow.approval = "PENDING"
  BY DEF StageSql
<1>2. StageSql(socRow, "APPROVED_NO_SURVEY") <=> /\ socRow.approval = "APPROVED" /\ ~socRow.live
                                                 /\ SurveyStateOf(socRow) \in {None, "DRAFT", "REJECTED"}
  BY DEF StageSql
<1>3. StageSql(socRow, "SURVEY_SUBMITTED") <=>
          socRow.approval = "APPROVED" /\ ~socRow.live /\ SurveyStateOf(socRow) = "SUBMITTED"
  BY DEF StageSql
<1>4. StageSql(socRow, "MATERIALS_APPROVED") <=>
          socRow.approval = "APPROVED" /\ ~socRow.live /\ SurveyStateOf(socRow) = "APPROVED"
  BY DEF StageSql
<1>5. StageSql(socRow, "LIVE") <=> socRow.approval = "APPROVED" /\ socRow.live
  BY DEF StageSql
<1> QED
  BY <1>1, <1>2, <1>3, <1>4, <1>5

LEMMA StageIsSql ==
    ASSUME NEW socRow \in Row, NEW stage \in Stage
    PROVE  (StageOf(socRow) = stage) <=> StageSql(socRow, stage)
<1>1. /\ socRow.approval \in {"PENDING", "APPROVED", "REJECTED"} \/ socRow.approval = None
      /\ socRow.live \in BOOLEAN
      /\ None \notin {"PENDING", "APPROVED", "REJECTED"}
  BY NullAssumption DEF Row, Approval
<1>2. /\ SurveyStateOf(socRow) \in {"DRAFT", "SUBMITTED", "APPROVED", "REJECTED"} \/ SurveyStateOf(socRow) = None
      /\ None \notin {"DRAFT", "SUBMITTED", "APPROVED", "REJECTED"}
  BY NullAssumption DEF SurveyStateOf, Row, Survey, SurveyState
<1>3. CASE socRow.approval = "APPROVED"
  <2>1. StageOf(socRow) = IF socRow.live THEN "LIVE"
                          ELSE IF SurveyStateOf(socRow) = "SUBMITTED" THEN "SURVEY_SUBMITTED"
                          ELSE IF SurveyStateOf(socRow) = "APPROVED" THEN "MATERIALS_APPROVED" ELSE "APPROVED_NO_SURVEY"
    BY <1>1, <1>3 DEF StageOf
  <2>2. StageSql(socRow, stage) <=>
            \/ stage = "APPROVED_NO_SURVEY" /\ ~socRow.live /\ SurveyStateOf(socRow) \in {None, "DRAFT", "REJECTED"}
            \/ stage = "SURVEY_SUBMITTED" /\ ~socRow.live /\ SurveyStateOf(socRow) = "SUBMITTED"
            \/ stage = "MATERIALS_APPROVED" /\ ~socRow.live /\ SurveyStateOf(socRow) = "APPROVED"
            \/ stage = "LIVE" /\ socRow.live
    BY <1>3, SqlOf DEF Stage
  <2>3. CASE socRow.live
    BY <2>1, <2>2, <2>3 DEF Stage
  <2>4. CASE ~socRow.live
    <3> DEFINE state == SurveyStateOf(socRow)
    <3>1. StageOf(socRow) = IF state = "SUBMITTED" THEN "SURVEY_SUBMITTED"
                            ELSE IF state = "APPROVED" THEN "MATERIALS_APPROVED" ELSE "APPROVED_NO_SURVEY"
      BY <2>1, <2>4
    <3>2. StageSql(socRow, stage) <=>
              \/ stage = "APPROVED_NO_SURVEY" /\ state \in {None, "DRAFT", "REJECTED"}
              \/ stage = "SURVEY_SUBMITTED" /\ state = "SUBMITTED"
              \/ stage = "MATERIALS_APPROVED" /\ state = "APPROVED"
      BY <2>2, <2>4
    <3>3. state \in {None, "DRAFT", "SUBMITTED", "APPROVED", "REJECTED"} /\ None # "SUBMITTED" /\ None # "APPROVED"
      BY <1>2
    <3> HIDE DEF state
    <3> QED
      BY <3>1, <3>2, <3>3
  <2> QED
    BY <2>3, <2>4
<1>4. CASE socRow.approval \in {"PENDING", "REJECTED", None}
  <2>1. StageOf(socRow) = IF socRow.approval = "PENDING" THEN "APPROVAL_PENDING"
                          ELSE IF socRow.approval = "REJECTED" THEN "APPROVAL_REJECTED" ELSE "NOT_SENT"
    BY <1>1, <1>4 DEF StageOf
  <2>2. socRow.approval # "APPROVED"
    BY <1>1, <1>4
  <2>3. StageSql(socRow, stage) <=> stage = "APPROVAL_PENDING" /\ socRow.approval = "PENDING"
    BY <2>2, SqlOf DEF Stage
  <2> QED
    BY <2>1, <2>3 DEF Stage
<1> QED
  BY <1>1, <1>3, <1>4

LEMMA ListedIs ==
    ASSUME TypeOK, SocietyReaders, NEW a \in Actor, NEW creator, NEW stage
    PROVE  Listed(a, creator, stage) =
               {s \in Society : /\ Exists(s) /\ ReadsSociety(society[s], a)
                                /\ (Is(a, "ADMIN") => creator \in {Keep, society[s].owner})
                                /\ (stage # Keep => StageSql(society[s], stage))}
<1>1. RoleOf[a] \in {"ADMIN", "PERMISSION_EXECUTIVE", "SURVEYOR", "MANAGER", "SUPERVISOR"} /\ a # Keep /\ ZonesOf[a] # Keep
  BY RolesAssumption DEF SocietyReaders
<1>2. ASSUME NEW s \in Society
      PROVE  WhereSql(society[s], ListScope(a, creator), stage)
             <=> /\ ReadsSociety(society[s], a)
                 /\ (Is(a, "ADMIN") => creator \in {Keep, society[s].owner})
                 /\ (stage # Keep => StageSql(society[s], stage))
  <2>1. CASE RoleOf[a] = "ADMIN"
    BY <2>1 DEF WhereSql, ListScope, ReadsSociety, Is
  <2>2. CASE RoleOf[a] = "PERMISSION_EXECUTIVE"
    BY <1>1, <2>2 DEF WhereSql, ListScope, ReadsSociety, Is
  <2>3. CASE RoleOf[a] \in {"SURVEYOR", "MANAGER"}
    BY <1>1, <2>3 DEF WhereSql, ListScope, ReadsSociety, Is
  <2>4. CASE RoleOf[a] = "SUPERVISOR"
    BY <2>4 DEF WhereSql, ListScope, ReadsSociety, Is
  <2> QED
    BY <1>1, <2>1, <2>2, <2>3, <2>4
<1> QED
  BY <1>2 DEF Listed

LEMMA ListsOfSocieties ==
    ASSUME SocietyInv, SocietyReaders, IsFiniteSet(Society)
    PROVE  ListAgreesWithRow
<1>0. TypeOK /\ \A s \in Society : Exists(s) => society[s] \in Row
  BY DEF SocietyInv, TypeOK, Exists
<1>1. ASSUME NEW a \in Actor, NEW creator \in Actor \cup {Keep}
      PROVE  Listed(a, creator, Keep) =
                 {s \in Society : /\ Exists(s) /\ ReadsSociety(society[s], a)
                                  /\ (Is(a, "ADMIN") => creator \in {Keep, society[s].owner})}
  BY <1>0, ListedIs
<1>2. ASSUME NEW a \in Actor, NEW stage \in Stage
      PROVE  Listed(a, Keep, stage) = {s \in Listed(a, Keep, Keep) : StageOf(society[s]) = stage}
  <2>1. stage # Keep
    BY DEF SocietyReaders
  <2> QED
    BY <1>0, <2>1, ListedIs, StageIsSql
<1>3. ASSUME NEW a \in Actor, Is(a, "ADMIN"), NEW stage \in Stage
      PROVE  Listed(a, Keep, stage) = {s \in Society : Exists(s) /\ StageSql(society[s], stage)}
  <2>1. stage # Keep
    BY DEF SocietyReaders
  <2>2. Listed(a, Keep, stage) =
               {s \in Society : /\ Exists(s) /\ ReadsSociety(society[s], a)
                                /\ (Is(a, "ADMIN") => Keep \in {Keep, society[s].owner})
                                /\ (stage # Keep => StageSql(society[s], stage))}
    BY <1>0, ListedIs
  <2> QED
    BY <1>3, <2>1, <2>2 DEF ReadsSociety
<1>4. ASSUME NEW a \in Actor, Is(a, "ADMIN")
      PROVE  /\ PendingCount = Cardinality(Listed(a, Keep, "APPROVAL_PENDING"))
             /\ SurveyPendingCount = Cardinality(Listed(a, Keep, "SURVEY_SUBMITTED"))
                   + Cardinality({s \in Listed(a, Keep, "LIVE") : SurveyStateOf(society[s]) = "SUBMITTED"})
  <2> DEFINE waits == Listed(a, Keep, "SURVEY_SUBMITTED")
             lives == {s \in Listed(a, Keep, "LIVE") : SurveyStateOf(society[s]) = "SUBMITTED"}
             both == {s \in Society : /\ Exists(s) /\ SurveyStateOf(society[s]) = "SUBMITTED"
                                      /\ society[s].approval = "APPROVED"}
  <2>1. /\ Listed(a, Keep, "APPROVAL_PENDING") = {s \in Society : Exists(s) /\ society[s].approval = "PENDING"}
        /\ waits = {s \in Society : /\ Exists(s) /\ society[s].approval = "APPROVED" /\ ~society[s].live
                                    /\ SurveyStateOf(society[s]) = "SUBMITTED"}
        /\ Listed(a, Keep, "LIVE") = {s \in Society : Exists(s) /\ society[s].approval = "APPROVED" /\ society[s].live}
    BY <1>3, <1>4 DEF Stage, StageSql
  <2>2. both = waits \cup lives /\ waits \cap lives = {} /\ waits \subseteq Society /\ lives \subseteq Society
    <3>1. \A s \in Society : Exists(s) => society[s].live \in BOOLEAN
      BY <1>0 DEF Row
    <3>2. lives = {s \in Society : /\ Exists(s) /\ society[s].approval = "APPROVED" /\ society[s].live
                                   /\ SurveyStateOf(society[s]) = "SUBMITTED"}
      BY <2>1
    <3> HIDE DEF waits, lives
    <3> QED
      BY <2>1, <3>1, <3>2
  <2> HIDE DEF waits, lives
  <2>3. /\ IsFiniteSet(waits) /\ IsFiniteSet(lives)
        /\ Cardinality(waits) \in Nat /\ Cardinality(lives) \in Nat
    BY <2>2, FS_Subset, FS_CardinalityType
  <2>4. Cardinality(waits \cup lives) = Cardinality(waits) + Cardinality(lives)
    <3>1. Cardinality(waits \cup lives) = Cardinality(waits) + Cardinality(lives) - Cardinality(waits \cap lives)
      BY <2>3, FS_Union, Zenon
    <3>2. Cardinality(waits \cap lives) = 0
      BY <2>2, FS_EmptySet, Zenon
    <3> QED
      BY <2>3, <3>1, <3>2
  <2>5. SurveyPendingCount = Cardinality(both)
    BY Zenon DEF SurveyPendingCount
  <2>6. SurveyPendingCount = Cardinality(waits) + Cardinality(lives)
    BY <2>2, <2>4, <2>5, Zenon
  <2>7. PendingCount = Cardinality(Listed(a, Keep, "APPROVAL_PENDING"))
    BY <2>1, Zenon DEF PendingCount
  <2> QED
    BY <2>6, <2>7, Zenon DEF waits, lives
<1> QED
  BY <1>1, <1>2, <1>4, Zenon DEF ListAgreesWithRow

-----------------------------------------------------------------------------
(* The proofs of the single registers, as the run instantiates them.       *)

Reg == INSTANCE RegisterProofs WITH
    Idle <- NoRequest, Request <- {desk1}, Mobile <- {phone1, phone2}, maxAttempts <- 1, MaxCodes <- 2,
    Person <- Newcomer, Bank <- {account1, account2}, MaxLinks <- 2, MaxIntroductions <- 1, MayFail <- FALSE,
    User <- Staff, Root <- admin, Role <- StaffRole, ZoneSets <- ZoneLists, Patches <- StaffPatches, Seats <- 2,
    Actor <- Person, RoleOf <- PersonRole, ZonesOf <- PersonZones,
    Ticked <- {manager1, surveyor2}, Pop <- pop1, Closure <- closure1, Splitter <- splitter1, Shape <- CableShape,
    PopZones <- {{homeZone}}, asking <- partnerRequest, request <- partnerRequest,
    Username <- {user1, user2}, Text <- {text1, text2}, Row <- SheetRow, Form <- CustomerForm, MaxRows <- 2, MaxId <- 2,
    writing <- customerRequest, Worker <- WingWorker,
    ListZone <- {homeZone}, ZoneAt <- ListZoneAt, Olt <- {"olt1", "olt2"}, Answer <- ListAnswer,
    Readers <- {{b1}, {b1, b2}}, listRow <- row

\* A behaviour stays with the model it begins with.
LEMMA PartStays == [MCNext]_allVars => part' = part
BY DEF MCNext, allVars

-----------------------------------------------------------------------------
(* The buildings.                                                          *)

LEMMA HiddenIsOne ==
    (Reg!Access!HiddenSociety /\ Reg!Access!DuplicateIsTold) <=> (Access!HiddenSociety /\ Access!DuplicateIsTold)
BY Zenon DEF Reg!Access!HiddenSociety, Access!HiddenSociety, Reg!Access!There, Access!There, Reg!Access!IsVisibleBuilding,
    Access!IsVisibleBuilding, Reg!Access!Is, Access!Is, Reg!Access!Source, Access!Source,
    Reg!Access!BuildListWhere, Access!BuildListWhere, Reg!Access!ListSource, Access!ListSource,
    Reg!Access!Role, Access!Role, Reg!Access!ApprovedSociety, Access!ApprovedSociety,
    Reg!Access!CoverageRegistry, Access!CoverageRegistry, Reg!Access!ListOwner, Access!ListOwner,
    Reg!Access!Mine, Access!Mine, Reg!Access!ReadsByZone, Access!ReadsByZone, Reg!Access!MyZone,
    Access!MyZone, Reg!Access!FindNearby, Access!FindNearby, Reg!Access!FindWithinBounds,
    Access!FindWithinBounds, Reg!Access!IncludePermission, Access!IncludePermission, Reg!Access!Shown,
    Access!Shown, Reg!Access!ReadScope, Access!ReadScope, Reg!Access!ReadScopeOf, Access!ReadScopeOf,
    Reg!Access!FindByPlaceId, Access!FindByPlaceId, Reg!Access!SearchForPartner, Access!SearchForPartner,
    Reg!Access!UpdateStatus, Access!UpdateStatus, Reg!Access!BulkAssignOlt, Access!BulkAssignOlt,
    Reg!Access!BulkSetLive, Access!BulkSetLive, Reg!Access!AddPhoto, Access!AddPhoto,
    Reg!Access!GuardSocietyPhoto, Access!GuardSocietyPhoto, Reg!Access!AssertMayModify,
    Access!AssertMayModify, Reg!Access!RemovePhoto, Access!RemovePhoto, Reg!Access!DuplicateIsTold,
    Access!DuplicateIsTold, Reg!Access!Masked, Access!Masked, Reg!Access!Readable, Access!Readable,
    Reg!Access!Cardinality, Access!Cardinality, Reg!Access!IsFiniteSet, Access!IsFiniteSet

\* A society not yet approved shows to its executive and, nearby, to an admin,
\* and yet a building at the same Place never goes unnoticed.
THEOREM HiddenIsCounted == MCSpec => []HiddenButCounted
<1>1. HiddenButCounted
  BY HiddenIsOne, Reg!HiddenFromAll, Reg!DuplicatesAreTold DEF HiddenButCounted
<1> QED
  BY <1>1, PTL

-----------------------------------------------------------------------------
(* The staff.                                                              *)

LEMMA StaffInitIsOne == People!Init <=> Reg!People!Init
BY Zenon DEF Reg!People!Init, People!Init

LEMMA StaffNextIsOne == People!Next <=> Reg!People!Next
BY Zenon DEF Reg!People!Next, People!Next, Reg!People!CreateUser, People!CreateUser, Reg!People!RoleIn, People!RoleIn,
    Reg!People!ReportingLinks, People!ReportingLinks, Reg!People!ManagerRoleFor, People!ManagerRoleFor,
    Reg!People!LeaderRoleFor, People!LeaderRoleFor, Reg!People!Manages, People!Manages,
    Reg!People!AssertMayManage, People!AssertMayManage, Reg!People!LinksAreRight, People!LinksAreRight,
    Reg!People!HasRole, People!HasRole, Reg!People!ZONE_ROLES, People!ZONE_ROLES, Reg!People!UpdateUser,
    People!UpdateUser, Reg!People!InheritedLink, People!InheritedLink, Reg!People!FIBER_ACCESS_ROLES,
    People!FIBER_ACCESS_ROLES, Reg!People!BUILDING_EDIT_ROLES, People!BUILDING_EDIT_ROLES,
    Reg!People!ClearReports, People!ClearReports, Reg!People!BulkAssignZones, People!BulkAssignZones,
    Reg!People!SalesRole, People!SalesRole, Reg!People!BulkCreateUsers, People!BulkCreateUsers,
    Reg!People!Hand, People!Hand, Reg!People!SetAccess, People!SetAccess, Reg!People!Cardinality,
    People!Cardinality, Reg!People!IsFiniteSet, People!IsFiniteSet

LEMMA StaffFitIsOne ==
    /\ People!SurveyorsReportToManagers <=> Reg!People!SurveyorsReportToManagers
    /\ People!TicksFitRole <=> Reg!People!TicksFitRole
BY Zenon DEF Reg!People!SurveyorsReportToManagers, People!SurveyorsReportToManagers, Reg!People!RoleIn, People!RoleIn,
    Reg!People!HasRole, People!HasRole, Reg!People!TicksFitRole, People!TicksFitRole,
    Reg!People!FIBER_ACCESS_ROLES, People!FIBER_ACCESS_ROLES, Reg!People!BUILDING_EDIT_ROLES,
    People!BUILDING_EDIT_ROLES

\* Whatever the staff, of whom the ADMIN is one, and their zones: a surveyor
\* reports to a manager or to nobody, nobody holds a tick their role cannot hold,
\* and unless the ADMIN says so the zones of a surveyor there is change only by
\* their manager's.
THEOREM StaffFits ==
    ASSUME admin \in Staff, None \notin Staff \cup {"TEAM_LEADER", "SALES_MANAGER"}, {homeZone, farZone} \subseteq Zone
    PROVE  MCSpec => TeamFits
<1>1. Reg!TeamSetup
  BY DEF Reg!TeamSetup, StaffRole, ZoneLists, StaffPatches, Patch
<1>2. MCStart => (part = "team" => Reg!People!Init)
  BY StaffInitIsOne, Zenon DEF MCStart, MCInit
<1>3. [MCNext]_allVars => (part = "team" => [Reg!People!Next]_user)
  BY StaffNextIsOne, Zenon DEF MCNext, Buildings, Others, Views, allVars
<1>4. [MCNext]_allVars => (~(part = "team") => [FALSE]_user)
  BY Zenon DEF MCNext, Buildings, Others, Views, allVars
<1>5. Reg!People!Spec => [](Reg!People!TypeOK /\ Reg!People!SurveyorsReportToManagers /\ Reg!People!TicksFitRole)
  BY <1>1, Reg!ReportsAndTicksFit
<1>6. Reg!People!Spec => Reg!People!ManagersStayHome
  BY <1>1, Reg!ManagersMoveOnlyTheirZones
<1>7. [\A u \in DOMAIN user :
             LET Changed == (user'[u].zones \ user[u].zones) \cup (user[u].zones \ user'[u].zones)
             IN  \/ Changed = {}
                 \/ Reg!People!HasRole(user[u].manager, "MANAGER") /\ Changed \subseteq user[user[u].manager].zones
                 \/ (\E zones \in ZoneLists : Reg!People!BulkAssignZones(admin, u, zones)) \/ \E e \in StaffPatches : Reg!People!UpdateUser(admin, u, e)]_user
      => [\A u \in DOMAIN user :
             LET Changed == (user'[u].zones \ user[u].zones) \cup (user[u].zones \ user'[u].zones)
             IN  \/ Changed = {}
                 \/ People!HasRole(user[u].manager, "MANAGER") /\ Changed \subseteq user[user[u].manager].zones
                 \/ (\E zones \in ZoneLists : People!BulkAssignZones(admin, u, zones)) \/ \E e \in StaffPatches : People!UpdateUser(admin, u, e)]_user
  BY Zenon DEF Reg!People!BulkAssignZones, People!BulkAssignZones, Reg!People!RoleIn, People!RoleIn, Reg!People!ZONE_ROLES,
    People!ZONE_ROLES, Reg!People!UpdateUser, People!UpdateUser, Reg!People!InheritedLink,
    People!InheritedLink, Reg!People!HasRole, People!HasRole, Reg!People!ReportingLinks,
    People!ReportingLinks, Reg!People!ManagerRoleFor, People!ManagerRoleFor, Reg!People!LeaderRoleFor,
    People!LeaderRoleFor, Reg!People!FIBER_ACCESS_ROLES, People!FIBER_ACCESS_ROLES,
    Reg!People!BUILDING_EDIT_ROLES, People!BUILDING_EDIT_ROLES, Reg!People!Manages, People!Manages,
    Reg!People!AssertMayManage, People!AssertMayManage, Reg!People!LinksAreRight, People!LinksAreRight,
    Reg!People!ClearReports, People!ClearReports
<1>8. [FALSE]_user =>
        [\A u \in DOMAIN user :
             LET Changed == (user'[u].zones \ user[u].zones) \cup (user[u].zones \ user'[u].zones)
             IN  \/ Changed = {}
                 \/ People!HasRole(user[u].manager, "MANAGER") /\ Changed \subseteq user[user[u].manager].zones
                 \/ (\E zones \in ZoneLists : People!BulkAssignZones(admin, u, zones)) \/ \E e \in StaffPatches : People!UpdateUser(admin, u, e)]_user
  OBVIOUS
<1>9. [MCNext]_allVars => ((part = "team") <=> (part = "team")')
  BY PartStays
<1>10. MCSpec => (part = "team" => Reg!People!Spec)
  BY <1>2, <1>3, <1>9, PTL DEF MCSpec, Reg!People!Spec
<1>11. MCSpec => (~(part = "team") => [](~(part = "team")) /\ [][FALSE]_user)
  BY <1>4, <1>9, PTL DEF MCSpec
<1>12. MCSpec => (part = "team" => [](part = "team"))
  BY <1>9, PTL DEF MCSpec
<1>13. Reg!People!ManagersStayHome => People!ManagersStayHome
  BY <1>7, PTL DEF Reg!People!ManagersStayHome, People!ManagersStayHome
<1>14. [][FALSE]_user => People!ManagersStayHome
  BY <1>8, PTL DEF People!ManagersStayHome
<1> QED
  BY <1>5, <1>6, <1>10, <1>11, <1>12, <1>13, <1>14, StaffFitIsOne, PTL DEF TeamFits

-----------------------------------------------------------------------------
(* The partners.                                                           *)

RegOverlap == INSTANCE RegisterProofs WITH
    Idle <- NoRequest, Request <- {desk1, desk2}, Mobile <- {phone1, phone2}, maxAttempts <- 1, MaxCodes <- 2,
    Person <- Newcomer, Bank <- {account1}, MaxLinks <- 1, MaxIntroductions <- 0, MayFail <- TRUE,
    User <- Staff, Root <- admin, Role <- StaffRole, ZoneSets <- ZoneLists, Patches <- StaffPatches, Seats <- 2,
    Actor <- Person, RoleOf <- PersonRole, ZonesOf <- PersonZones,
    Ticked <- {manager1, surveyor2}, Pop <- pop1, Closure <- closure1, Splitter <- splitter1, Shape <- CableShape,
    PopZones <- {{homeZone}}, asking <- partnerRequest, request <- partnerRequest,
    Username <- {user1, user2}, Text <- {text1, text2}, Row <- SheetRow, Form <- CustomerForm, MaxRows <- 2, MaxId <- 2,
    writing <- customerRequest, Worker <- WingWorker,
    ListZone <- {homeZone}, ZoneAt <- ListZoneAt, Olt <- {"olt1", "olt2"}, Answer <- ListAnswer,
    Readers <- {{b1}, {b1, b2}}, listRow <- row

LEMMA JoiningInitIsOne == Joining!Init <=> Reg!Joining!Init
BY Zenon DEF Reg!Joining!Init, Joining!Init

LEMMA JoiningNextIsOne == Joining!Next <=> Reg!Joining!Next
BY Zenon DEF Reg!Joining!Next, Joining!Next, Reg!Joining!CreateInvite, Joining!CreateInvite, Reg!Joining!Turn,
    Joining!Turn, Reg!Joining!InTurn, Joining!InTurn, Reg!Joining!EndInvite, Joining!EndInvite,
    Reg!Joining!ReferralStatus, Joining!ReferralStatus, Reg!Joining!OpenReferral, Joining!OpenReferral,
    Reg!Joining!ChangeStatus, Joining!ChangeStatus, Reg!Joining!AddPartner, Joining!AddPartner,
    Reg!Joining!Joins, Joining!Joins, Reg!Joining!NewPartner, Joining!NewPartner, Reg!Joining!SaveDocuments,
    Joining!SaveDocuments, Reg!Joining!Reject, Joining!Reject, Reg!Joining!SaveBankByAdmin,
    Joining!SaveBankByAdmin, Reg!Joining!BeginIntroduce, Joining!BeginIntroduce, Reg!Joining!Begins,
    Joining!Begins, Reg!Joining!BeginInviteFor, Joining!BeginInviteFor, Reg!Joining!LinksOf, Joining!LinksOf,
    Reg!Joining!Live, Joining!Live, Reg!Joining!BeginRegister, Joining!BeginRegister, Reg!Joining!BeginSubmit,
    Joining!BeginSubmit, Reg!Joining!BeginApprove, Joining!BeginApprove, Reg!Joining!BeginSaveBank,
    Joining!BeginSaveBank, Reg!Joining!IsEditableByPartner, Joining!IsEditableByPartner,
    Reg!Joining!FinishIntroduce, Joining!FinishIntroduce, Reg!Joining!At, Joining!At, Reg!Joining!Becomes,
    Joining!Becomes, Reg!Joining!FinishInviteFor, Joining!FinishInviteFor, Reg!Joining!Revoked,
    Joining!Revoked, Reg!Joining!CreateAccount, Joining!CreateAccount, Reg!Joining!MarkUsed, Joining!MarkUsed,
    Reg!Joining!MarkJoined, Joining!MarkJoined, Reg!Joining!BreakOff, Joining!BreakOff,
    Reg!Joining!FinishSaveBank, Joining!FinishSaveBank, Reg!Joining!FinishDecision, Joining!FinishDecision,
    Reg!Joining!StatusAfter, Joining!StatusAfter, Reg!Joining!Cardinality, Joining!Cardinality,
    Reg!Joining!IsFiniteSet, Joining!IsFiniteSet, Reg!Joining!Max, Joining!Max

LEMMA OverlapInitIsOne == JoiningOverlap!Init <=> RegOverlap!Joining!Init
BY Zenon DEF RegOverlap!Joining!Init, JoiningOverlap!Init

LEMMA OverlapNextIsOne == JoiningOverlap!Next <=> RegOverlap!Joining!Next
BY Zenon DEF RegOverlap!Joining!Next, JoiningOverlap!Next, RegOverlap!Joining!CreateInvite, JoiningOverlap!CreateInvite,
    RegOverlap!Joining!Turn, JoiningOverlap!Turn, RegOverlap!Joining!InTurn, JoiningOverlap!InTurn,
    RegOverlap!Joining!EndInvite, JoiningOverlap!EndInvite, RegOverlap!Joining!ReferralStatus,
    JoiningOverlap!ReferralStatus, RegOverlap!Joining!OpenReferral, JoiningOverlap!OpenReferral,
    RegOverlap!Joining!ChangeStatus, JoiningOverlap!ChangeStatus, RegOverlap!Joining!AddPartner,
    JoiningOverlap!AddPartner, RegOverlap!Joining!Joins, JoiningOverlap!Joins, RegOverlap!Joining!NewPartner,
    JoiningOverlap!NewPartner, RegOverlap!Joining!SaveDocuments, JoiningOverlap!SaveDocuments,
    RegOverlap!Joining!Reject, JoiningOverlap!Reject, RegOverlap!Joining!SaveBankByAdmin,
    JoiningOverlap!SaveBankByAdmin, RegOverlap!Joining!BeginIntroduce, JoiningOverlap!BeginIntroduce,
    RegOverlap!Joining!Begins, JoiningOverlap!Begins, RegOverlap!Joining!BeginInviteFor,
    JoiningOverlap!BeginInviteFor, RegOverlap!Joining!LinksOf, JoiningOverlap!LinksOf,
    RegOverlap!Joining!Live, JoiningOverlap!Live, RegOverlap!Joining!BeginRegister,
    JoiningOverlap!BeginRegister, RegOverlap!Joining!BeginSubmit, JoiningOverlap!BeginSubmit,
    RegOverlap!Joining!BeginApprove, JoiningOverlap!BeginApprove, RegOverlap!Joining!BeginSaveBank,
    JoiningOverlap!BeginSaveBank, RegOverlap!Joining!IsEditableByPartner, JoiningOverlap!IsEditableByPartner,
    RegOverlap!Joining!FinishIntroduce, JoiningOverlap!FinishIntroduce, RegOverlap!Joining!At,
    JoiningOverlap!At, RegOverlap!Joining!Becomes, JoiningOverlap!Becomes, RegOverlap!Joining!FinishInviteFor,
    JoiningOverlap!FinishInviteFor, RegOverlap!Joining!Revoked, JoiningOverlap!Revoked,
    RegOverlap!Joining!CreateAccount, JoiningOverlap!CreateAccount, RegOverlap!Joining!MarkUsed,
    JoiningOverlap!MarkUsed, RegOverlap!Joining!MarkJoined, JoiningOverlap!MarkJoined,
    RegOverlap!Joining!BreakOff, JoiningOverlap!BreakOff, RegOverlap!Joining!FinishSaveBank,
    JoiningOverlap!FinishSaveBank, RegOverlap!Joining!FinishDecision, JoiningOverlap!FinishDecision,
    RegOverlap!Joining!StatusAfter, JoiningOverlap!StatusAfter, RegOverlap!Joining!Cardinality,
    JoiningOverlap!Cardinality, RegOverlap!Joining!IsFiniteSet, JoiningOverlap!IsFiniteSet,
    RegOverlap!Joining!Max, JoiningOverlap!Max

LEMMA JoiningIsOne ==
    /\ Joining!OneLiveLink <=> Reg!Joining!OneLiveLink
    /\ Joining!LinkOpensOne <=> Reg!Joining!LinkOpensOne
    /\ Joining!ApprovedOnPapers <=> Reg!Joining!ApprovedOnPapers
    /\ Joining!ApprovedOnPapers <=> RegOverlap!Joining!ApprovedOnPapers
BY Zenon DEF Reg!Joining!OneLiveLink, Joining!OneLiveLink, Reg!Joining!LinksOf, Joining!LinksOf, Reg!Joining!Live,
    Joining!Live, Reg!Joining!LinkOpensOne, Joining!LinkOpensOne, Reg!Joining!ApprovedOnPapers,
    Joining!ApprovedOnPapers, Reg!Joining!Cardinality, Joining!Cardinality, Reg!Joining!IsFiniteSet,
    Joining!IsFiniteSet,
    RegOverlap!Joining!ApprovedOnPapers

LEMMA StandingIsOne == [Reg!Joining!Standing]_(Reg!Joining!vars) => [Joining!Standing]_(Joining!vars)
BY Zenon DEF Reg!Joining!Standing, Joining!Standing, Reg!Joining!SaveBankByAdmin, Joining!SaveBankByAdmin,
    Reg!Joining!Turn, Joining!Turn, Reg!Joining!InTurn, Joining!InTurn, Reg!Joining!vars, Joining!vars,
    Reg!Joining!Cardinality, Joining!Cardinality, Reg!Joining!IsFiniteSet, Joining!IsFiniteSet

LEMMA CodesInitIsOne == Codes!Init <=> Reg!Codes!Init
BY Zenon DEF Reg!Codes!Init, Codes!Init

LEMMA CodesNextIsOne == Codes!Next <=> Reg!Codes!Next
BY Zenon DEF Reg!Codes!Next, Codes!Next, Reg!Codes!Age1, Codes!Age1, Reg!Codes!Register, Codes!Register, Reg!Codes!Turn,
    Codes!Turn, Reg!Codes!ProofExpires, Codes!ProofExpires, Reg!Codes!BeginRequestOtp, Codes!BeginRequestOtp,
    Reg!Codes!Cooling, Codes!Cooling, Reg!Codes!CodesOf, Codes!CodesOf, Reg!Codes!Begins, Codes!Begins,
    Reg!Codes!BeginVerifyOtp, Codes!BeginVerifyOtp, Reg!Codes!LiveCodes, Codes!LiveCodes,
    Reg!Codes!AttemptsLeft, Codes!AttemptsLeft, Reg!Codes!CreateChallenge, Codes!CreateChallenge,
    Reg!Codes!At, Codes!At, Reg!Codes!Becomes, Codes!Becomes, Reg!Codes!SmsSent, Codes!SmsSent,
    Reg!Codes!SmsFails, Codes!SmsFails, Reg!Codes!BumpAttempts, Codes!BumpAttempts, Reg!Codes!ConsumeOtp,
    Codes!ConsumeOtp, Reg!Codes!Cardinality, Codes!Cardinality, Reg!Codes!IsFiniteSet, Codes!IsFiniteSet,
    Reg!Codes!Max, Codes!Max

LEMMA CodesKeptIsOne == Codes!CodesAreKept <=> Reg!Codes!CodesAreKept
BY Zenon DEF Reg!Codes!CodesAreKept, Codes!CodesAreKept, Reg!Codes!GuessesAreCapped, Codes!GuessesAreCapped,
    Reg!Codes!CodeOpensOnce, Codes!CodeOpensOnce, Reg!Codes!OneYoungCode, Codes!OneYoungCode,
    Reg!Codes!CodesOf, Codes!CodesOf, Reg!Codes!SessionsAreProven, Codes!SessionsAreProven,
    Reg!Codes!Cardinality, Codes!Cardinality, Reg!Codes!IsFiniteSet, Codes!IsFiniteSet

LEMMA StandsStill == UNCHANGED Joining!vars => Joining!Standing
BY DEF Joining!vars, Joining!Standing

LEMMA NobodyIsApproved ==
    /\ Joining!Init \/ JoiningOverlap!Init => Joining!ApprovedOnPapers
    /\ Joining!ApprovedOnPapers /\ UNCHANGED partner => Joining!ApprovedOnPapers'
BY DEF Joining!Init, JoiningOverlap!Init, Joining!ApprovedOnPapers

\* Whoever joins, with whichever accounts and mobiles: in turn nobody has two links
\* that work, a link opens one account, and what was submitted is what is approved;
\* no code is guessed at, opened or sent more often than it may; and even when
\* requests overlap and break off nobody is approved without papers and bank
\* details.
THEOREM PartnersJoin ==
    ASSUME None \notin {account1, account2} \cup Nat \cup Newcomer, NoRequest \notin Reg!Registered \cup Reg!Judged
    PROVE  MCSpec => PartnersJoinOnce
<1>1. Reg!OneAtATime
  BY DEF Reg!OneAtATime
<1>2. Reg!Joining!Spec => [](Reg!Joining!OneLiveLink /\ Reg!Joining!LinkOpensOne)
  <2>1. Reg!Joining!Spec => []Reg!Joining!OneLiveLink
    BY <1>1, Reg!OneLinkWorks
  <2>2. Reg!Joining!Spec => []Reg!Joining!LinkOpensOne
    BY <1>1, Reg!LinkOpensOneAccount
  <2> QED
    BY <2>1, <2>2, PTL
<1>3. Reg!Joining!Spec => [](Reg!Joining!TypeOK /\ Reg!Joining!ApprovedOnPapers)
  BY Reg!ApprovalNeedsPapers
<1>4. Reg!Joining!Spec => Reg!Joining!StandingIsKept
  BY <1>1, Reg!SubmittedIsApproved
<1>5. RegOverlap!Joining!Spec => [](RegOverlap!Joining!TypeOK /\ RegOverlap!Joining!ApprovedOnPapers)
  BY RegOverlap!ApprovalNeedsPapers
<1>6. Reg!Codes!Spec => [](Reg!Codes!TypeOK /\ Reg!Codes!CodesAreKept)
  BY <1>1, Reg!CodesStayKept
<1>7. MCStart => /\ part = "joining" => Reg!Joining!Init
                 /\ part = "joiningOverlap" => RegOverlap!Joining!Init
                 /\ part = "codes" => Reg!Codes!Init
                 /\ Joining!ApprovedOnPapers
  BY JoiningInitIsOne, OverlapInitIsOne, CodesInitIsOne, NobodyIsApproved, Zenon DEF MCStart, MCInit
<1>8. [MCNext]_allVars =>
        /\ part = "joining" => [Reg!Joining!Next]_(Reg!Joining!vars)
        /\ part = "joiningOverlap" => [RegOverlap!Joining!Next]_(RegOverlap!Joining!vars)
        /\ part = "codes" => [Reg!Codes!Next]_(Reg!Codes!vars)
        /\ ~(part = "joining" \/ part = "joiningOverlap") => UNCHANGED partner
  BY JoiningNextIsOne, OverlapNextIsOne, CodesNextIsOne
     DEF MCNext, Buildings, Others, Views, allVars, partnerVars, codeVars,
         Reg!Joining!vars, RegOverlap!Joining!vars, Reg!Codes!vars
<1>9. [MCNext]_allVars => /\ (part = "joining") <=> (part = "joining")'
                          /\ (part = "joiningOverlap") <=> (part = "joiningOverlap")'
                          /\ (part = "codes") <=> (part = "codes")'
  BY PartStays
<1>10. MCSpec => (part = "joining" => Reg!Joining!Spec)
  BY <1>7, <1>8, <1>9, PTL DEF MCSpec, Reg!Joining!Spec
<1>11. MCSpec => (part = "joiningOverlap" => RegOverlap!Joining!Spec)
  BY <1>7, <1>8, <1>9, PTL DEF MCSpec, RegOverlap!Joining!Spec
<1>12. MCSpec => (part = "codes" => Reg!Codes!Spec)
  BY <1>7, <1>8, <1>9, PTL DEF MCSpec, Reg!Codes!Spec
<1>13. MCSpec => /\ ~(part = "joining") => []~(part = "joining")
                 /\ ~(part = "codes") => []~(part = "codes")
  BY <1>9, PTL DEF MCSpec
<1>14. MCSpec => (~(part = "joining" \/ part = "joiningOverlap") => []Joining!ApprovedOnPapers)
  BY <1>7, <1>8, <1>9, NobodyIsApproved, PTL DEF MCSpec
<1>15. MCSpec => []Joining!ApprovedOnPapers
  BY <1>3, <1>5, <1>10, <1>11, <1>14, JoiningIsOne, PTL
<1>16. MCSpec => [](part = "joining" => Joining!OneLiveLink /\ Joining!LinkOpensOne)
  BY <1>2, <1>10, <1>13, JoiningIsOne, PTL
<1>17. MCSpec => [](part = "codes" => Codes!CodesAreKept)
  BY <1>6, <1>12, <1>13, CodesKeptIsOne, PTL
<1>18. MCSpec => [][part = "joining" => Joining!Standing]_allVars
  BY <1>4, <1>10, <1>13, StandingIsOne, StandsStill, PTL DEF Reg!Joining!StandingIsKept
<1> QED
  BY <1>15, <1>16, <1>17, <1>18, PTL DEF PartnersJoinOnce

-----------------------------------------------------------------------------
(* The wings.                                                              *)

LEMMA WingsInitIsOne == Wings!Init <=> Reg!Wings!Init
BY Zenon DEF Reg!Wings!Init, Wings!Init, Reg!Wings!BuildingRow, Wings!BuildingRow, Reg!Wings!Count, Wings!Count,
    Reg!Wings!Pass, Wings!Pass, Reg!Wings!Idle, Wings!Idle

LEMMA WingsNextIsOne == Wings!Next <=> Reg!Wings!Next
BY Zenon DEF Reg!Wings!Next, Wings!Next, Reg!Wings!Read, Wings!Read, Reg!Wings!Idle, Wings!Idle, Reg!Wings!WingSet,
    Wings!WingSet, Reg!Wings!Wing, Wings!Wing, Reg!Wings!Count, Wings!Count, Reg!Wings!ReplaceWings,
    Wings!ReplaceWings, Reg!Wings!Given, Wings!Given, Reg!Wings!DeriveTotals, Wings!DeriveTotals,
    Reg!Wings!Serves, Wings!Serves, Reg!Wings!WingSetErrors, Wings!WingSetErrors, Reg!Wings!Placed, Wings!Placed,
    Reg!Wings!IsComplete, Wings!IsComplete, Reg!Wings!Finish, Wings!Finish, Reg!Wings!Pass, Wings!Pass,
    Reg!Wings!UpdateBuilding, Wings!UpdateBuilding, Reg!Wings!BelowPlaced, Wings!BelowPlaced,
    Reg!Wings!UpdateSociety, Wings!UpdateSociety, Reg!Wings!SetLive, Wings!SetLive, Reg!Wings!SetWingsLive,
    Wings!SetWingsLive, Reg!Wings!Refuse, Wings!Refuse, Reg!Wings!Approve, Wings!Approve, Reg!Wings!MarkLive,
    Wings!MarkLive, Reg!Wings!Cardinality, Wings!Cardinality, Reg!Wings!IsFiniteSet, Wings!IsFiniteSet,
    Reg!Wings!SumFunction, Wings!SumFunction, Reg!Wings!SumFunctionOnSet, Wings!SumFunctionOnSet,
    Reg!Wings!FoldFunctionOnSet, Wings!FoldFunctionOnSet, Reg!Wings!MapThenFoldSet, Wings!MapThenFoldSet

LEMMA TotalsIsOne ==
    /\ Wings!TotalsAreDerived <=> Reg!Wings!TotalsAreDerived
    /\ Wings!PlacedWithinCount <=> Reg!Wings!PlacedWithinCount
BY Zenon DEF Reg!Wings!TotalsAreDerived, Wings!TotalsAreDerived, Reg!Wings!AllPlaced, Wings!AllPlaced, Reg!Wings!IsComplete,
    Wings!IsComplete, Reg!Wings!Placed, Wings!Placed, Reg!Wings!DeriveTotals, Wings!DeriveTotals,
    Reg!Wings!LiveIsDerived, Wings!LiveIsDerived, Reg!Wings!PlacedWithinCount, Wings!PlacedWithinCount,
    Reg!Wings!Cardinality, Wings!Cardinality, Reg!Wings!IsFiniteSet, Wings!IsFiniteSet, Reg!Wings!SumFunction,
    Wings!SumFunction, Reg!Wings!SumFunctionOnSet, Wings!SumFunctionOnSet, Reg!Wings!FoldFunctionOnSet,
    Wings!FoldFunctionOnSet, Reg!Wings!MapThenFoldSet, Wings!MapThenFoldSet

\* Whatever the wings and whoever works on the buildings one at a time: the totals
\* of a building whose wings are all placed are theirs, and no more are placed
\* than it has.
THEOREM TotalsFollow ==
    ASSUME \A v, w \in WingWorker : v = w, IsFiniteSet(WingId), MaxCount \in Nat,
           None \notin 1 .. MaxCount, Keep \notin (1 .. MaxCount) \cup {None} \cup BOOLEAN
    PROVE  MCSpec => []TotalsAreDerived
<1>1. Reg!WingSizes /\ Reg!WorkersInTurn
  BY Zenon DEF Reg!WingSizes, Reg!WorkersInTurn, Reg!Wings!Count, Reg!IsFiniteSet, IsFiniteSet
<1>2. Reg!Wings!Spec => []Reg!Wings!TotalsAreDerived
  BY <1>1, Reg!TotalsFollowWings
<1>3. Reg!Wings!Spec => []Reg!Wings!PlacedWithinCount
  BY <1>1, Reg!WingsStayWithinCount
<1>4. MCStart => (part = "wings" => Reg!Wings!Init)
  BY WingsInitIsOne, Zenon DEF MCStart, MCInit
<1>5. [MCNext]_allVars => (part = "wings" => [Reg!Wings!Next]_(Reg!Wings!vars))
  BY WingsNextIsOne DEF MCNext, Buildings, Others, Views, allVars, wingVars, Reg!Wings!vars
<1>6. [MCNext]_allVars => ((part = "wings") <=> (part = "wings")')
  BY PartStays
<1>7. MCSpec => (part = "wings" => Reg!Wings!Spec)
  BY <1>4, <1>5, <1>6, PTL DEF MCSpec, Reg!Wings!Spec
<1>8. MCSpec => (~(part = "wings") => []~(part = "wings"))
  BY <1>6, PTL DEF MCSpec
<1>9. Reg!Wings!TotalsAreDerived /\ Reg!Wings!PlacedWithinCount => TotalsAreDerived
  BY TotalsIsOne DEF TotalsAreDerived
<1>10. ~(part = "wings") => TotalsAreDerived
  BY DEF TotalsAreDerived
<1> QED
  BY <1>2, <1>3, <1>7, <1>8, <1>9, <1>10, PTL

-----------------------------------------------------------------------------
(* The network.                                                            *)

RegNetwork == INSTANCE FiberNetworkProofs WITH
    Closure <- {closure1}, Ratio <- {1, 2}, Shape <- Line, Asks <- LineAsks, MaxPort <- 1,
    Request <- {desk1}, Idle <- NoRequest, request <- networkRequest

LEMMA NetworkInitIsOne == Network!Init <=> RegNetwork!Init
BY Zenon DEF RegNetwork!Init, Network!Init

LEMMA NetworkNextIsOne == Network!Next <=> RegNetwork!Next
BY Zenon DEF RegNetwork!Next, Network!Next, RegNetwork!BeginCreate, Network!BeginCreate, RegNetwork!PortFree,
    Network!PortFree, RegNetwork!FibersOnPort, Network!FibersOnPort, RegNetwork!Begins, Network!Begins,
    RegNetwork!BeginUpdate, Network!BeginUpdate, RegNetwork!FedBy, Network!FedBy, RegNetwork!MergedFeed,
    Network!MergedFeed, RegNetwork!BeginRatio, Network!BeginRatio, RegNetwork!MayReduce, Network!MayReduce,
    RegNetwork!UsedOutputs, Network!UsedOutputs, RegNetwork!Unused, Network!Unused, RegNetwork!WriteCreate,
    Network!WriteCreate, RegNetwork!Drawn, Network!Drawn, RegNetwork!SplitterRules, Network!SplitterRules,
    RegNetwork!At, Network!At, RegNetwork!Ends, Network!Ends, RegNetwork!Segments, Network!Segments,
    RegNetwork!InputClaimed, Network!InputClaimed, RegNetwork!Claimed, Network!Claimed,
    RegNetwork!WriteUpdate, Network!WriteUpdate, RegNetwork!Released, Network!Released, RegNetwork!Carry,
    Network!Carry, RegNetwork!WriteRatio, Network!WriteRatio, RegNetwork!SetInput, Network!SetInput,
    RegNetwork!InTurn, Network!InTurn,
    RegNetwork!DeleteFiber, Network!DeleteFiber, RegNetwork!Visits, Network!Visits, RegNetwork!OnPoints,
    Network!OnPoints, RegNetwork!RestoreFiber, Network!RestoreFiber, RegNetwork!CutFiber, Network!CutFiber,
    RegNetwork!DeleteClosure, Network!DeleteClosure, RegNetwork!AddSplitter, Network!AddSplitter,
    RegNetwork!DeleteSplitter, Network!DeleteSplitter, RegNetwork!SetOutput, Network!SetOutput,
    RegNetwork!UpdateOlt, Network!UpdateOlt, RegNetwork!SyncOlts, Network!SyncOlts, RegNetwork!Max,
    Network!Max, RegNetwork!ToSet, Network!ToSet, RegNetwork!Last, Network!Last, RegNetwork!Cardinality,
    Network!Cardinality, RegNetwork!IsFiniteSet, Network!IsFiniteSet

LEMMA FeedsFitIsOne == Network!FeedsFit <=> RegNetwork!FeedsFit
BY Zenon DEF RegNetwork!FeedsFit, Network!FeedsFit, RegNetwork!FedBy, Network!FedBy, RegNetwork!Max, Network!Max

\* The lines and the requests of the run are lines and requests.
LEMMA LinesFit ==
    ASSUME None \notin Fiber \cup {closure1} \cup (Splitter \X Nat), splitter1 \in Splitter, b1 \in Building
    PROVE  RegNetwork!Setup
<1>1. \A points \in Line : points \in Seq({closure1} \cup Splitter \cup Building) /\ Len(points) > 1
  <2>1. PICK T : T = {closure1} \cup Splitter \cup Building
    OBVIOUS
  <2>2. closure1 \in T /\ splitter1 \in T /\ b1 \in T
    BY <2>1
  <2>3. <<closure1, splitter1, b1>> \in Seq(T) /\ Len(<<closure1, splitter1, b1>>) > 1
    BY <2>2
  <2>4. <<splitter1, b1>> \in Seq(T) /\ Len(<<splitter1, b1>>) > 1
    BY <2>2
  <2>5. \A points \in Line : points = <<closure1, splitter1, b1>> \/ points = <<splitter1, b1>>
    BY Zenon DEF Line
  <2>6. \A points \in Line : points \in Seq(T) /\ Len(points) > 1
    BY <2>3, <2>4, <2>5, Zenon
  <2> QED
    BY <2>1, <2>6
<1>2. \A d \in LineAsks : /\ d.points \in Line \cup {Keep}
                          /\ d.port \in (1 .. 1) \cup {None, Keep}
                          /\ d.feed \in (Splitter \X Nat) \cup {None, Keep}
  <2> SUFFICES ASSUME NEW d \in LineAsks
               PROVE  /\ d.points \in Line \cup {Keep} /\ d.port \in {1, None, Keep}
                      /\ d.feed \in {None, Keep, <<splitter1, 1>>, <<splitter1, 2>>}
    OBVIOUS
  <2>1. CASE \E line \in Line, port \in {None, 1} : d = Ask(line, port, None)
    BY <2>1 DEF Ask
  <2>2. CASE \E line \in Line : d = Ask(line, None, <<splitter1, 1>>)
    BY <2>2 DEF Ask
  <2>3. CASE \E line \in Line : d = Ask(line, Keep, Keep)
    BY <2>3 DEF Ask
  <2>4. CASE d \in {Ask(Keep, Keep, None), Ask(Keep, 1, None), Ask(Keep, None, <<splitter1, 1>>),
                    Ask(<<splitter1, b1>>, None, <<splitter1, 2>>)}
    BY <2>4 DEF Ask, Line
  <2> QED
    BY <2>1, <2>2, <2>3, <2>4 DEF LineAsks
<1>3. {1, 2} \subseteq Nat /\ \A n \in {1, 2} : n <= 2
  OBVIOUS
<1> QED
  BY <1>1, <1>2, <1>3 DEF RegNetwork!Setup

\* Whatever fibres and buildings, while requests are taken one at a time: a fibre
\* on a splitter's output starts where that splitter is, no other change takes its
\* light away, and its cuts stay where they are when it is redrawn.
THEOREM NetworkStaysFit ==
    ASSUME None \notin Fiber \cup {closure1} \cup (Splitter \X Nat), splitter1 \in Splitter, b1 \in Building
    PROVE  MCSpec => NetworkHolds
<1>1. RegNetwork!OneAtATime
  BY DEF RegNetwork!OneAtATime
<1>2. RegNetwork!Setup
  BY LinesFit
<1>3. RegNetwork!Spec => [](RegNetwork!TypeOK /\ RegNetwork!FeedsFit)
  BY <1>1, <1>2, RegNetwork!FeedsStayFit
<1>4. RegNetwork!Spec => RegNetwork!LightIsKept
  BY <1>1, <1>2, RegNetwork!LightStays
<1>5. RegNetwork!Spec => RegNetwork!CutsSurvive
  BY <1>1, <1>2, RegNetwork!CutsStay
<1>6. [\A f \in DOMAIN fiber \cap DOMAIN fiber' :
           RegNetwork!FedBy(f) # None =>
               \/ RegNetwork!FedBy(f)' = RegNetwork!FedBy(f)
               \/ \E r \in {desk1} : RegNetwork!At(r, "update") /\ networkRequest[r].f = f /\ networkRequest[r].data.feed # Keep]_(RegNetwork!vars)
      => [\A f \in DOMAIN fiber \cap DOMAIN fiber' :
           Network!FedBy(f) # None =>
               \/ Network!FedBy(f)' = Network!FedBy(f)
               \/ \E r \in {desk1} : Network!At(r, "update") /\ networkRequest[r].f = f /\ networkRequest[r].data.feed # Keep]_(Network!vars)
  BY Zenon DEF RegNetwork!FedBy, Network!FedBy, RegNetwork!At, Network!At, RegNetwork!vars, Network!vars, RegNetwork!Max,
    Network!Max
<1>7. [\A f \in DOMAIN fiber \cap DOMAIN fiber' :
           LET was == fiber[f]
               is == fiber'[f]
               Ends2(x, i) == <<x.points[i], x.points[i + 1]>>
           IN  was.points # is.points =>
                   \A i \in DOMAIN was.cut, j \in DOMAIN is.cut :
                       (Ends2(was, i) = Ends2(is, j) /\ \A k \in DOMAIN was.cut \ {i} : Ends2(was, k) # Ends2(was, i))
                           => is.cut[j] = was.cut[i]]_(RegNetwork!vars)
      => [\A f \in DOMAIN fiber \cap DOMAIN fiber' :
           LET was == fiber[f]
               is == fiber'[f]
               Ends2(x, i) == <<x.points[i], x.points[i + 1]>>
           IN  was.points # is.points =>
                   \A i \in DOMAIN was.cut, j \in DOMAIN is.cut :
                       (Ends2(was, i) = Ends2(is, j) /\ \A k \in DOMAIN was.cut \ {i} : Ends2(was, k) # Ends2(was, i))
                           => is.cut[j] = was.cut[i]]_(Network!vars)
  BY Zenon DEF RegNetwork!vars, Network!vars
<1>8. [FALSE]_(Network!vars) =>
       [\A f \in DOMAIN fiber \cap DOMAIN fiber' :
           Network!FedBy(f) # None =>
               \/ Network!FedBy(f)' = Network!FedBy(f)
               \/ \E r \in {desk1} : Network!At(r, "update") /\ networkRequest[r].f = f /\ networkRequest[r].data.feed # Keep]_(Network!vars)
  BY DEF Network!vars, Network!FedBy
<1>9. [FALSE]_(Network!vars) =>
       [\A f \in DOMAIN fiber \cap DOMAIN fiber' :
           LET was == fiber[f]
               is == fiber'[f]
               Ends2(x, i) == <<x.points[i], x.points[i + 1]>>
           IN  was.points # is.points =>
                   \A i \in DOMAIN was.cut, j \in DOMAIN is.cut :
                       (Ends2(was, i) = Ends2(is, j) /\ \A k \in DOMAIN was.cut \ {i} : Ends2(was, k) # Ends2(was, i))
                           => is.cut[j] = was.cut[i]]_(Network!vars)
  BY DEF Network!vars
<1>10. MCStart => (part = "network" => RegNetwork!Init)
  BY NetworkInitIsOne, Zenon DEF MCStart, MCInit
<1>11. [MCNext]_allVars => (part = "network" => [RegNetwork!Next]_(RegNetwork!vars))
  BY NetworkNextIsOne DEF MCNext, Buildings, Others, Views, allVars, networkVars, RegNetwork!vars
<1>12. [MCNext]_allVars => (~(part = "network") => [FALSE]_(Network!vars))
  BY DEF MCNext, Buildings, Others, Views, allVars, networkVars, Network!vars
<1>13. [MCNext]_allVars => ((part = "network") <=> (part = "network")')
  BY PartStays
<1>14. MCSpec => (part = "network" => RegNetwork!Spec)
  BY <1>10, <1>11, <1>13, PTL DEF MCSpec, RegNetwork!Spec
<1>15. MCSpec => (~(part = "network") => []~(part = "network") /\ [][FALSE]_(Network!vars))
  BY <1>12, <1>13, PTL DEF MCSpec
<1>16. MCSpec => [](part = "network" => Network!FeedsFit)
  BY <1>3, <1>14, <1>15, FeedsFitIsOne, PTL
<1>17. RegNetwork!LightIsKept => Network!LightIsKept
  BY <1>6, PTL DEF RegNetwork!LightIsKept, Network!LightIsKept
<1>18. RegNetwork!CutsSurvive => Network!CutsSurvive
  BY <1>7, PTL DEF RegNetwork!CutsSurvive, Network!CutsSurvive
<1>19. [][FALSE]_(Network!vars) => Network!LightIsKept /\ Network!CutsSurvive
  BY <1>8, <1>9, PTL DEF Network!LightIsKept, Network!CutsSurvive
<1> QED
  BY <1>4, <1>5, <1>14, <1>15, <1>16, <1>17, <1>18, <1>19, PTL DEF NetworkHolds

-----------------------------------------------------------------------------
(* The customers.                                                          *)

LEMMA MatchIsOne == \A s, x : Customers!Match(s, x) = Reg!Customers!Match(s, x)
BY Zenon DEF Reg!Customers!Match, Customers!Match, Reg!Customers!OnMobile, Customers!OnMobile, Reg!Customers!WithMobile,
    Customers!WithMobile, Reg!Customers!OldestOr, Customers!OldestOr, Reg!Customers!NoUsername,
    Customers!NoUsername, Reg!Customers!WithUsername, Customers!WithUsername

LEMMA MergedIsOne == \A c, x : Customers!Merged(c, x) = Reg!Customers!Merged(c, x)
BY Zenon DEF Reg!Customers!Merged, Customers!Merged, Reg!Customers!Cell, Customers!Cell

LEMMA PlanIsOne == \A sheet : Customers!Plan(sheet) = Reg!Customers!Plan(sheet)
<1>1. \A s, x : Customers!Take(s, x) = Reg!Customers!Take(s, x)
  <2> TAKE s, x
  <2>1. Customers!Anonymous(x) <=> Reg!Customers!Anonymous(x)
    BY Zenon DEF Customers!Anonymous, Reg!Customers!Anonymous
  <2>2. Customers!Identity(x) = Reg!Customers!Identity(x)
    BY Zenon DEF Customers!Identity, Reg!Customers!Identity
  <2> QED
    BY <2>1, <2>2, MatchIsOne, MergedIsOne DEF Customers!Take, Reg!Customers!Take
<1>2. \A sheet : Customers!Taken(sheet) = Reg!Customers!Taken(sheet)
  BY <1>1, Zenon DEF Customers!Taken, Reg!Customers!Taken, Customers!NoneTaken, Reg!Customers!NoneTaken
<1> QED
  BY <1>2, Zenon DEF Customers!Plan, Reg!Customers!Plan

LEMMA CustomersInitIsOne == Customers!Init <=> Reg!Customers!Init
BY Zenon DEF Reg!Customers!Init, Customers!Init

LEMMA CustomersNextIsOne == Customers!Next <=> Reg!Customers!Next
<1>1. \A r, c : Customers!CreateCustomer(r, c) <=> Reg!Customers!CreateCustomer(r, c)
  BY Zenon DEF Reg!Customers!CreateCustomer, Customers!CreateCustomer, Reg!Customers!WithUsername, Customers!WithUsername,
    Reg!Customers!WithMobile, Customers!WithMobile, Reg!Customers!Begins, Customers!Begins
<1>2. \A r, i, c : Customers!UpdateCustomer(r, i, c) <=> Reg!Customers!UpdateCustomer(r, i, c)
  BY Zenon DEF Reg!Customers!UpdateCustomer, Customers!UpdateCustomer, Reg!Customers!FindFirst, Customers!FindFirst,
    Reg!Customers!WithUsername, Customers!WithUsername, Reg!Customers!WithMobile, Customers!WithMobile,
    Reg!Customers!Begins, Customers!Begins
<1>3. \A r, i : Customers!DeleteCustomer(r, i) <=> Reg!Customers!DeleteCustomer(r, i)
  BY Zenon DEF Reg!Customers!DeleteCustomer, Customers!DeleteCustomer, Reg!Customers!Begins, Customers!Begins
<1>4. \A r, sheet : Customers!ImportCustomers(r, sheet) <=> Reg!Customers!ImportCustomers(r, sheet)
  BY PlanIsOne, Zenon DEF Customers!ImportCustomers, Reg!Customers!ImportCustomers, Customers!Begins, Reg!Customers!Begins,
      Customers!Nothing, Reg!Customers!Nothing
<1>5. \A r : Customers!ApplyImport(r) <=> Reg!Customers!ApplyImport(r)
  BY MergedIsOne, Zenon DEF Customers!ApplyImport, Reg!Customers!ApplyImport
<1>6. \A r : Customers!ApplyOne(r) <=> Reg!Customers!ApplyOne(r)
  BY Zenon DEF Customers!ApplyOne, Reg!Customers!ApplyOne
<1> QED
  BY <1>1, <1>2, <1>3, <1>4, <1>5, <1>6, Zenon DEF Customers!Next, Reg!Customers!Next, Customers!Sheets, Reg!Customers!Sheets,
      Customers!Id, Reg!Customers!Id

LEMMA CustomersKeptIsOne ==
    /\ Customers!UsernamesAreUnique <=> Reg!Customers!UsernamesAreUnique
    /\ Customers!ReuploadChangesNothing <=> Reg!Customers!ReuploadChangesNothing
<1>1. Customers!UsernamesAreUnique <=> Reg!Customers!UsernamesAreUnique
  BY Zenon DEF Customers!UsernamesAreUnique, Reg!Customers!UsernamesAreUnique
<1>2. Customers!ReuploadChangesNothing <=> Reg!Customers!ReuploadChangesNothing
  BY PlanIsOne, Zenon DEF Customers!ReuploadChangesNothing, Reg!Customers!ReuploadChangesNothing, Customers!SharesNumber,
      Reg!Customers!SharesNumber, Customers!Nothing, Reg!Customers!Nothing
<1> QED
  BY <1>1, <1>2

\* The sheets and the forms of the run are of cells that may be in one.
LEMMA SheetsFit ==
    ASSUME None \notin Nat \cup {user1, user2, phone1, phone2, text1, text2, Wrong},
           Wrong \notin {user1, user2, phone1, phone2, text1, text2},
           b1 \in Building, b2 \in Building
    PROVE  Reg!CustomerSetup
<1>1. SheetRow \subseteq [building : Building, username : {user1, user2} \cup {None},
                          mobile : {phone1, phone2} \cup {None, Wrong}, text : {text1, text2} \cup {None, Wrong}]
  BY DEF SheetRow, Cells
<1>2. CustomerForm \subseteq Reg!Customers!Customer
  BY DEF CustomerForm, Cells, Reg!Customers!Customer
<1> QED
  BY <1>1, <1>2 DEF Reg!CustomerSetup

\* Whatever buildings, Usernames, numbers and texts, while requests are taken one
\* at a time: no two customers have one Username, a sheet that names no number
\* twice writes nothing when it comes again, and no import erases anything.
THEOREM CustomersStay ==
    ASSUME None \notin Nat \cup {user1, user2, phone1, phone2, text1, text2, Wrong},
           Wrong \notin {user1, user2, phone1, phone2, text1, text2},
           b1 \in Building, b2 \in Building
    PROVE  MCSpec => CustomersAreKept
<1>1. Reg!OneAtATime
  BY DEF Reg!OneAtATime
<1>2. Reg!CustomerSetup
  BY SheetsFit
<1> DEFINE Kept ==
        last' \notin {<< >>, last} =>
          \A i \in DOMAIN customer :
            /\ i \in DOMAIN customer' /\ customer'[i].building = customer[i].building
            /\ customer[i].username # None => customer'[i].username = customer[i].username
<1>3. Reg!Customers!Spec => [](Reg!Customers!TypeOK /\ Reg!Customers!UsernamesAreUnique /\ Reg!Customers!ReuploadChangesNothing)
                            /\ Reg!Customers!ImportErasesNothing
  BY <1>1, <1>2, Reg!CustomersStayKept
<1>4. [Kept]_(Reg!Customers!vars) => [Kept]_(Customers!vars)
  BY Zenon DEF Reg!Customers!vars, Customers!vars
<1>5. [FALSE]_(Customers!vars) => [Kept]_(Customers!vars)
  BY DEF Customers!vars
<1>6. MCStart => (part = "customers" => Reg!Customers!Init)
  BY CustomersInitIsOne, Zenon DEF MCStart, MCInit
<1>7. [MCNext]_allVars => (part = "customers" => [Reg!Customers!Next]_(Reg!Customers!vars))
  BY CustomersNextIsOne DEF MCNext, Buildings, Others, Views, allVars, customerVars, Reg!Customers!vars
<1>8. [MCNext]_allVars => (~(part = "customers") => [FALSE]_(Customers!vars))
  BY DEF MCNext, Buildings, Others, Views, allVars, customerVars, Customers!vars
<1>9. [MCNext]_allVars => ((part = "customers") <=> (part = "customers")')
  BY PartStays
<1>10. MCSpec => (part = "customers" => Reg!Customers!Spec)
  BY <1>6, <1>7, <1>9, PTL DEF MCSpec, Reg!Customers!Spec
<1>11. MCSpec => (~(part = "customers") => []~(part = "customers") /\ [][FALSE]_(Customers!vars))
  BY <1>8, <1>9, PTL DEF MCSpec
<1>12. Reg!Customers!ImportErasesNothing => Customers!ImportErasesNothing
  BY <1>4, PTL DEF Reg!Customers!ImportErasesNothing, Customers!ImportErasesNothing
<1>13. [][FALSE]_(Customers!vars) => Customers!ImportErasesNothing
  BY <1>5, PTL DEF Customers!ImportErasesNothing
<1> QED
  BY <1>3, <1>10, <1>11, <1>12, <1>13, CustomersKeptIsOne, PTL DEF CustomersAreKept

-----------------------------------------------------------------------------
(* Who sees what.                                                          *)

\* The fibres have viewers of their own.
RegSight == INSTANCE RegisterProofs WITH
    Idle <- NoRequest, Request <- {desk1}, Mobile <- {phone1, phone2}, maxAttempts <- 1, MaxCodes <- 2,
    Person <- Newcomer, Bank <- {account1, account2}, MaxLinks <- 2, MaxIntroductions <- 1, MayFail <- FALSE,
    User <- Staff, Root <- admin, Role <- StaffRole, ZoneSets <- ZoneLists, Patches <- StaffPatches, Seats <- 2,
    Zone <- {homeZone, farZone}, Actor <- Viewer, RoleOf <- ViewerRole, ZonesOf <- ViewerZones,
    Ticked <- {manager1, surveyor2}, Pop <- pop1, Closure <- closure1, Splitter <- splitter1, Shape <- CableShape,
    PopZones <- {{homeZone}}, asking <- partnerRequest, request <- partnerRequest,
    Username <- {user1, user2}, Text <- {text1, text2}, Row <- SheetRow, Form <- CustomerForm, MaxRows <- 2, MaxId <- 2,
    writing <- customerRequest, Worker <- WingWorker,
    ListZone <- {homeZone}, ZoneAt <- ListZoneAt, Olt <- {"olt1", "olt2"}, Answer <- ListAnswer,
    Readers <- {{b1}, {b1, b2}}, listRow <- row

LEMMA AccessIsOne ==
    /\ Access!ListedIsReadable <=> Reg!Access!ListedIsReadable
    /\ Access!WritesWithinReads <=> Reg!Access!WritesWithinReads
    /\ Access!OltServesItsBuildings <=> Reg!Access!OltServesItsBuildings
BY Zenon DEF Reg!Access!ListedIsReadable, Access!ListedIsReadable, Reg!Access!WritesWithinReads,
    Access!WritesWithinReads, Reg!Access!OltServesItsBuildings, Access!OltServesItsBuildings, Reg!Access!Reader,
    Access!Reader, Reg!Access!Source, Access!Source, Reg!Access!BuildListWhere, Access!BuildListWhere,
    Reg!Access!Readable, Access!Readable, Reg!Access!There, Access!There, Reg!Access!UpdateBuilding,
    Access!UpdateBuilding, Reg!Access!AssertCanEditWings, Access!AssertCanEditWings, Reg!Access!UpdateStatus,
    Access!UpdateStatus, Reg!Access!AddPhoto, Access!AddPhoto, Reg!Access!RemovePhoto, Access!RemovePhoto,
    Reg!Access!BulkSetLive, Access!BulkSetLive, Reg!Access!BulkAssignOlt, Access!BulkAssignOlt,
    Reg!Access!ReadScope, Access!ReadScope, Reg!Access!Role, Access!Role, Reg!Access!ListSource, Access!ListSource,
    Reg!Access!ListOwner, Access!ListOwner, Reg!Access!ReadsByZone, Access!ReadsByZone, Reg!Access!MyZone,
    Access!MyZone, Reg!Access!Mine, Access!Mine, Reg!Access!MayEditBuildings, Access!MayEditBuildings,
    Reg!Access!Is, Access!Is, Reg!Access!IsVisibleBuilding, Access!IsVisibleBuilding, Reg!Access!GuardSocietyPhoto,
    Access!GuardSocietyPhoto, Reg!Access!AssertMayModify, Access!AssertMayModify, Reg!Access!Cardinality,
    Access!Cardinality, Reg!Access!ReadScopeOf, Access!ReadScopeOf, Reg!Access!ApprovedSociety,
    Access!ApprovedSociety, Reg!Access!CoverageRegistry, Access!CoverageRegistry, Reg!Access!IsFiniteSet,
    Access!IsFiniteSet

LEMMA SightInitIsOne == Sight!Init <=> RegSight!Sight!Init
BY Zenon DEF RegSight!Sight!Init, Sight!Init

LEMMA SightNextIsOne == Sight!Next <=> RegSight!Sight!Next
BY Zenon DEF RegSight!Sight!Next, Sight!Next, RegSight!Sight!CreateFiber, Sight!CreateFiber,
    RegSight!Sight!UpdateFiber, Sight!UpdateFiber, RegSight!Sight!Feed, Sight!Feed, RegSight!Sight!DeleteFiber,
    Sight!DeleteFiber, RegSight!Sight!CreateClosure, Sight!CreateClosure, RegSight!Sight!DeleteClosure,
    Sight!DeleteClosure, RegSight!Sight!AddSplitter, Sight!AddSplitter, RegSight!Sight!DeleteSplitter,
    Sight!DeleteSplitter, RegSight!Sight!DeletePop, Sight!DeletePop, RegSight!Sight!CreatePop, Sight!CreatePop,
    RegSight!Sight!UpdatePop, Sight!UpdatePop, RegSight!Sight!MayManageFiber, Sight!MayManageFiber,
    RegSight!Sight!There, Sight!There, RegSight!Sight!AssertZone, Sight!AssertZone, RegSight!Sight!Resolves,
    Sight!Resolves, RegSight!Sight!Minted, Sight!Minted, RegSight!Sight!ZoneScope, Sight!ZoneScope,
    RegSight!Sight!ToSet, Sight!ToSet, RegSight!Sight!Place, Sight!Place, RegSight!Sight!SplitterScope,
    Sight!SplitterScope, RegSight!Sight!Visits, Sight!Visits, RegSight!Sight!Through, Sight!Through,
    RegSight!Sight!ClosureScope, Sight!ClosureScope, RegSight!Sight!Last, Sight!Last, RegSight!Sight!Cardinality,
    Sight!Cardinality, RegSight!Sight!CanSeeFiber, Sight!CanSeeFiber, RegSight!Sight!PopZoneScope,
    Sight!PopZoneScope, RegSight!Sight!UpdateSplitter, Sight!UpdateSplitter, RegSight!Sight!AssertZones, Sight!AssertZones, RegSight!Sight!IsAdmin, Sight!IsAdmin,
    RegSight!Sight!InZones, Sight!InZones, RegSight!Sight!IsFiniteSet, Sight!IsFiniteSet

LEMMA SightAlikeIsOne == Sight!NetworkIsSeenAlike <=> RegSight!Sight!NetworkIsSeenAlike
BY Zenon DEF RegSight!Sight!NetworkIsSeenAlike, Sight!NetworkIsSeenAlike, RegSight!Sight!ShownIsOpenable,
    Sight!ShownIsOpenable, RegSight!Sight!SitesFollowTheirFiber, Sight!SitesFollowTheirFiber,
    RegSight!Sight!NothingDangles, Sight!NothingDangles, RegSight!Sight!ReadsFibers, Sight!ReadsFibers,
    RegSight!Sight!ZoneScope, Sight!ZoneScope, RegSight!Sight!CanSeeFiber, Sight!CanSeeFiber,
    RegSight!Sight!PopShows, Sight!PopShows, RegSight!Sight!ClosureShows, Sight!ClosureShows,
    RegSight!Sight!SplitterShows, Sight!SplitterShows, RegSight!Sight!Opens, Sight!Opens,
    RegSight!Sight!DownstreamTold, Sight!DownstreamTold, RegSight!Sight!ClosureScope, Sight!ClosureScope,
    RegSight!Sight!SplitterScope, Sight!SplitterScope, RegSight!Sight!InZones, Sight!InZones, RegSight!Sight!Visits,
    Sight!Visits, RegSight!Sight!Through, Sight!Through, RegSight!Sight!There, Sight!There, RegSight!Sight!IsAdmin,
    Sight!IsAdmin, RegSight!Sight!ReadsPops, Sight!ReadsPops, RegSight!Sight!PopZoneScope, Sight!PopZoneScope,
    RegSight!Sight!CollectDownstream, Sight!CollectDownstream, RegSight!Sight!ToSet, Sight!ToSet,
    RegSight!Sight!FedPast, Sight!FedPast, RegSight!Sight!Place, Sight!Place, RegSight!Sight!ClosureCables,
    Sight!ClosureCables, RegSight!Sight!Fed, Sight!Fed

LEMMA ListInitIsOne == List!Init <=> Reg!List!Init
BY Zenon DEF Reg!List!Init, List!Init, Reg!List!Id, List!Id

LEMMA ListNextIsOne == List!Next <=> Reg!List!Next
BY Zenon DEF Reg!List!Next, List!Next, Reg!List!Id, List!Id, Reg!List!CreateCustomer, List!CreateCustomer,
    Reg!List!Rename, List!Rename, Reg!List!DeleteCustomer, List!DeleteCustomer, Reg!List!GrowsStale,
    List!GrowsStale, Reg!List!CustomerConnection, List!CustomerConnection, Reg!List!BuildingConnections,
    List!BuildingConnections, Reg!List!RefreshCustomers, List!RefreshCustomers, Reg!List!OltsChange,
    List!OltsChange, Reg!List!Unread, List!Unread, Reg!List!Rows, List!Rows, Reg!List!Fresh, List!Fresh,
    Reg!List!Stale, List!Stale, Reg!List!Answers, List!Answers, Reg!List!Saved, List!Saved, Reg!List!OfBuilding,
    List!OfBuilding, Reg!List!Due, List!Due, Reg!List!Nothing, List!Nothing, Reg!List!Silent, List!Silent,
    Reg!List!NoUsername, List!NoUsername, Reg!List!ScopedBuildings, List!ScopedBuildings

LEMMA QueriesIsOne == List!Queries = Reg!List!Queries
BY DEF Reg!List!Queries, List!Queries, Reg!List!Ask, List!Ask

LEMMA ListsIsOne == List!ListsAgree <=> Reg!List!ListsAgree
<1>1. List!ScopeIsNeverWidened <=> Reg!List!ScopeIsNeverWidened
  BY QueriesIsOne, Zenon DEF Reg!List!ScopeIsNeverWidened, List!ScopeIsNeverWidened,
      Reg!List!Listed, List!Listed, Reg!List!ScopedBuildings, List!ScopedBuildings, Reg!List!Ask, List!Ask,
      Reg!List!CustomerListWhere, List!CustomerListWhere, Reg!List!NarrowedIds, List!NarrowedIds, Reg!List!Rows,
      List!Rows, Reg!List!ConnWhere, List!ConnWhere, Reg!List!ExpiryWhere, List!ExpiryWhere, Reg!List!Id, List!Id,
      Reg!List!OltDownWhere, List!OltDownWhere, Reg!List!NotSeenWhere, List!NotSeenWhere, Reg!List!In, List!In,
      Reg!List!NotIn, List!NotIn
<1>2. List!OneFilterEach <=> Reg!List!OneFilterEach
  BY Zenon DEF Reg!List!OneFilterEach, List!OneFilterEach, Reg!List!Rows, List!Rows, Reg!List!Cardinality,
      List!Cardinality, Reg!List!Conn, List!Conn, Reg!List!ConnWhere, List!ConnWhere, Reg!List!ConnectionWord,
      List!ConnectionWord, Reg!List!Id, List!Id, Reg!List!IsFiniteSet, List!IsFiniteSet, Reg!List!OltDownWhere,
      List!OltDownWhere, Reg!List!NotSeenWhere, List!NotSeenWhere, Reg!List!CountKey, List!CountKey, Reg!List!In,
      List!In, Reg!List!NotIn, List!NotIn, Reg!List!OltReachable, List!OltReachable
<1>3. List!CountsLeadThere <=> Reg!List!CountsLeadThere
  BY QueriesIsOne, Zenon DEF Reg!List!CountsLeadThere, List!CountsLeadThere, Reg!List!Listed,
      List!Listed, Reg!List!Counts, List!Counts, Reg!List!Cardinality, List!Cardinality, Reg!List!ConnWhere,
      List!ConnWhere, Reg!List!Ask, List!Ask, Reg!List!CustomerListWhere, List!CustomerListWhere,
      Reg!List!NarrowedIds, List!NarrowedIds, Reg!List!ScopedBuildings, List!ScopedBuildings, Reg!List!OltDownWhere,
      List!OltDownWhere, Reg!List!IsFiniteSet, List!IsFiniteSet, Reg!List!NotSeenWhere, List!NotSeenWhere,
      Reg!List!Rows, List!Rows, Reg!List!ExpiryWhere, List!ExpiryWhere, Reg!List!In, List!In, Reg!List!NotIn,
      List!NotIn, Reg!List!Id, List!Id
<1>4. List!PagesPartition <=> Reg!List!PagesPartition
  BY Zenon DEF Reg!List!PagesPartition, List!PagesPartition, Reg!List!Orders, List!Orders, Reg!List!Rows, List!Rows,
      Reg!List!Page, List!Page, Reg!List!SetToSeqs, List!SetToSeqs, Reg!List!Precedes, List!Precedes, Reg!List!Id,
      List!Id, Reg!List!Cardinality, List!Cardinality, Reg!List!Key, List!Key, Reg!List!IsFiniteSet, List!IsFiniteSet,
      Reg!List!Late, List!Late
<1>5. List!PageAgreesWithList <=> Reg!List!PageAgreesWithList
  BY Zenon DEF Reg!List!PageAgreesWithList, List!PageAgreesWithList, Reg!List!Answers, List!Answers,
      Reg!List!OfBuilding, List!OfBuilding, Reg!List!Silent, List!Silent, Reg!List!Saved, List!Saved, Reg!List!Conn,
      List!Conn, Reg!List!PageCount, List!PageCount, Reg!List!Cardinality, List!Cardinality, Reg!List!ConnWhere,
      List!ConnWhere, Reg!List!NoUsername, List!NoUsername, Reg!List!Rows, List!Rows, Reg!List!Nothing, List!Nothing,
      Reg!List!Id, List!Id, Reg!List!Fresh, List!Fresh, Reg!List!CountKey, List!CountKey, Reg!List!IsFiniteSet,
      List!IsFiniteSet, Reg!List!OltDownWhere, List!OltDownWhere, Reg!List!NotSeenWhere, List!NotSeenWhere,
      Reg!List!OltReachable, List!OltReachable, Reg!List!In, List!In, Reg!List!NotIn, List!NotIn
<1>6. List!PonCountsItsOwn <=> Reg!List!PonCountsItsOwn
  BY Zenon DEF Reg!List!PonCountsItsOwn, List!PonCountsItsOwn, Reg!List!Rows, List!Rows, Reg!List!Answers,
      List!Answers, Reg!List!PonOf, List!PonOf, Reg!List!SamePon, List!SamePon, Reg!List!Saved, List!Saved,
      Reg!List!Id, List!Id, Reg!List!Silent, List!Silent, Reg!List!NoUsername, List!NoUsername, Reg!List!Fresh,
      List!Fresh, Reg!List!Nothing, List!Nothing
<1> QED
  BY <1>1, <1>2, <1>3, <1>4, <1>5, <1>6 DEF Reg!List!ListsAgree, List!ListsAgree

\* The people of the run by their roles: the societies' and the buildings'; None
\* is nobody, nothing stored, no word, no truth value and no number.
Reading ==
    /\ SocietyReaders /\ \A a \in Person : PersonRole[a] \in Reg!AskerRoles
    /\ {b1, b2} \subseteq Building /\ IsFiniteSet(Building) /\ IsFiniteSet(Society)
    /\ None \notin Viewer \cup RegSight!PopRow \cup RegSight!HubRow
    /\ None \notin BOOLEAN \cup Int \cup {"online", "offline", "not_seen", "not_linked", "no_username"}

\* The readings of the run are readings.
LEMMA AnswersFit == Reading => Reg!ListSetup
<1> SUFFICES ASSUME Reading PROVE Reg!ListSetup
  OBVIOUS
<1>1. \A x \in ListAnswer : x.state \in {"online", "offline", "not_seen", "not_linked"}
  BY DEF ListAnswer, Answered
<1>2. {{b1}, {b1, b2}} \subseteq SUBSET Building
  BY DEF Reading
<1> QED
  BY <1>1, <1>2 DEF Reading, Reg!ListSetup

\* What a list shows of societies, buildings, customers and fibres is what its
\* reader may open, with counts and pages that are its own; so are the cables
\* shown inside another record, and another fibre a closure names starts there;
\* what an actor changes they may open; and an OLT is given to buildings of one
\* zone that it serves.
THEOREM ScopesStayAgreed == ASSUME Reading PROVE MCSpec => []ScopesAgree
<1>1. Access!ListedIsReadable /\ Access!WritesWithinReads /\ Access!OltServesItsBuildings
  <2>1. Reg!Askers /\ Reg!IsFiniteSet(Building)
    BY Zenon DEF Reading, Reg!Askers, Reg!IsFiniteSet, IsFiniteSet
  <2>2. Reg!Access!ListedIsReadable /\ Reg!Access!WritesWithinReads /\ Reg!Access!OltServesItsBuildings
    BY <2>1, Reg!ListsAreReadable, Reg!WritesAreReads, Reg!OltsServe
  <2> QED
    BY <2>2, AccessIsOne
<1>2. Reg!ListSetup
  BY AnswersFit
<1>3. RegSight!SightSetup
  BY DEF Reading, RegSight!SightSetup
<1>4. Reg!List!Spec => []Reg!List!ListsAgree
  <2>1. Reg!List!Spec => [](Reg!List!TypeOK /\ Reg!List!ListsAgree)
    BY <1>2, Reg!ListsStayAgreed
  <2> QED
    BY <2>1, PTL
<1>5. RegSight!Sight!Spec => []RegSight!Sight!NetworkIsSeenAlike
  <2>1. RegSight!Sight!Spec => [](RegSight!Sight!TypeOK /\ RegSight!Sight!NetworkIsSeenAlike)
    BY <1>3, RegSight!NetworkSeenAlike
  <2> QED
    BY <2>1, PTL
<1>6. SocietyInv => ListAgreesWithRow
  BY ListsOfSocieties DEF Reading
<1>7. MCStart => /\ Init
                 /\ (part = "list" => Reg!List!Init)
                 /\ (part = "sight" => RegSight!Sight!Init)
  BY ListInitIsOne, SightInitIsOne, Zenon DEF MCStart, MCInit
<1>8. [MCNext]_allVars => /\ (part = "permission" => [Next]_vars)
                          /\ (part = "list" => [Reg!List!Next]_(Reg!List!vars))
                          /\ (part = "sight" => [RegSight!Sight!Next]_(RegSight!Sight!vars))
  BY ListNextIsOne, SightNextIsOne
     DEF MCNext, Buildings, Others, Views, allVars, societyVars, listVars, sightVars, vars, Reg!List!vars, RegSight!Sight!vars
<1>9. [MCNext]_allVars => /\ (part = "permission") <=> (part = "permission")'
                          /\ (part = "list") <=> (part = "list")'
                          /\ (part = "sight") <=> (part = "sight")'
  BY PartStays
<1>10. MCSpec => (part = "permission" => Spec)
  BY <1>7, <1>8, <1>9, PTL DEF MCSpec, Spec
<1>11. MCSpec => (part = "list" => Reg!List!Spec)
  BY <1>7, <1>8, <1>9, PTL DEF MCSpec, Reg!List!Spec
<1>12. MCSpec => (part = "sight" => RegSight!Sight!Spec)
  BY <1>7, <1>8, <1>9, PTL DEF MCSpec, RegSight!Sight!Spec
<1>13. Spec => []ListAgreesWithRow
  BY <1>6, SocietyInitOK, SocietyStepOK, PTL DEF Spec
<1>14. MCSpec => /\ ~(part = "permission") => []~(part = "permission")
                 /\ ~(part = "list") => []~(part = "list")
                 /\ ~(part = "sight") => []~(part = "sight")
  BY <1>9, PTL DEF MCSpec
<1>15. /\ (part = "permission" => ListAgreesWithRow) /\ (part = "list" => List!ListsAgree)
       /\ (part = "sight" => Sight!NetworkIsSeenAlike)
       => ScopesAgree
  BY <1>1 DEF ScopesAgree
<1>16. MCSpec => [](part = "permission" => ListAgreesWithRow)
  BY <1>10, <1>13, <1>14, PTL
<1>17. MCSpec => [](part = "list" => List!ListsAgree)
  BY <1>4, <1>11, <1>14, ListsIsOne, PTL
<1>18. MCSpec => [](part = "sight" => Sight!NetworkIsSeenAlike)
  BY <1>5, <1>12, <1>14, SightAlikeIsOne, PTL
<1> QED
  BY <1>15, <1>16, <1>17, <1>18, PTL

-----------------------------------------------------------------------------
(* The types of all.                                                       *)

LEMMA AccessInitIsOne == Access!Init <=> Reg!Access!Init
BY Zenon DEF Reg!Access!Init, Access!Init

LEMMA AccessNextIsOne == Access!Next <=> Reg!Access!Next
BY Zenon DEF Reg!Access!Next, Access!Next, Reg!Access!PlaceFree, Access!PlaceFree,
    Reg!Access!There, Access!There,
    Reg!Access!Role, Access!Role,
    Reg!Access!Mine, Access!Mine,
    Reg!Access!MyZone, Access!MyZone,
    Reg!Access!Is, Access!Is,
    Reg!Access!CreateBuilding, Access!CreateBuilding,
    Reg!Access!BulkCreateBuildings, Access!BulkCreateBuildings,
    Reg!Access!Move, Access!Move,
    Reg!Access!UpdateBuilding, Access!UpdateBuilding,
    Reg!Access!MayEditBuildings, Access!MayEditBuildings,
    Reg!Access!ReadScope, Access!ReadScope,
    Reg!Access!ReadScopeOf, Access!ReadScopeOf,
    Reg!Access!IsVisibleBuilding, Access!IsVisibleBuilding,
    Reg!Access!SetLive, Access!SetLive,
    Reg!Access!BulkSetLive, Access!BulkSetLive,
    Reg!Access!BuildListWhere, Access!BuildListWhere,
    Reg!Access!ListSource, Access!ListSource,
    Reg!Access!ListOwner, Access!ListOwner,
    Reg!Access!ApprovedSociety, Access!ApprovedSociety,
    Reg!Access!CoverageRegistry, Access!CoverageRegistry,
    Reg!Access!ReadsByZone, Access!ReadsByZone,
    Reg!Access!Approve, Access!Approve,
    Reg!Access!Remove, Access!Remove,
    Reg!Access!Source, Access!Source

LEMMA TypesAreOne ==
    /\ Wings!TypeOK <=> Reg!Wings!TypeOK
    /\ Access!TypeOK <=> Reg!Access!TypeOK
    /\ Customers!TypeOK <=> Reg!Customers!TypeOK
    /\ Network!TypeOK <=> RegNetwork!TypeOK
    /\ Codes!TypeOK <=> Reg!Codes!TypeOK
    /\ Joining!TypeOK <=> Reg!Joining!TypeOK
    /\ JoiningOverlap!TypeOK <=> RegOverlap!Joining!TypeOK
    /\ People!TypeOK <=> Reg!People!TypeOK
    /\ List!TypeOK <=> Reg!List!TypeOK
    /\ Sight!TypeOK <=> RegSight!Sight!TypeOK
<1>1. Wings!TypeOK <=> Reg!Wings!TypeOK
  BY Zenon DEF Reg!Wings!TypeOK, Wings!TypeOK, Reg!Wings!BuildingRow, Wings!BuildingRow, Reg!Wings!WingSet,
      Wings!WingSet, Reg!Wings!Wing, Wings!Wing, Reg!Wings!Count, Wings!Count, Reg!Wings!Pass, Wings!Pass,
      Reg!Wings!Request, Wings!Request, Reg!Wings!Idle, Wings!Idle, Reg!Wings!Cardinality, Wings!Cardinality,
      Reg!Wings!IsFiniteSet, Wings!IsFiniteSet
<1>2. Access!TypeOK <=> Reg!Access!TypeOK
  BY Zenon DEF Reg!Access!TypeOK, Access!TypeOK, Reg!Access!Row, Access!Row, Reg!Access!Source, Access!Source
<1>3. Customers!TypeOK <=> Reg!Customers!TypeOK
  BY Zenon DEF Reg!Customers!TypeOK, Customers!TypeOK, Reg!Customers!Customer, Customers!Customer,
      Reg!Customers!Sheets, Customers!Sheets
<1>4. Network!TypeOK <=> RegNetwork!TypeOK
  BY Zenon DEF RegNetwork!TypeOK, Network!TypeOK, RegNetwork!Segments, Network!Segments, RegNetwork!Output,
      Network!Output
<1>5. Codes!TypeOK <=> Reg!Codes!TypeOK
  BY Zenon DEF Reg!Codes!TypeOK, Codes!TypeOK, Reg!Codes!Age, Codes!Age
<1>6. Joining!TypeOK <=> Reg!Joining!TypeOK
  BY Zenon DEF Reg!Joining!TypeOK, Joining!TypeOK, Reg!Joining!ReferralStatus, Joining!ReferralStatus,
      Reg!Joining!OpenReferral, Joining!OpenReferral
<1>7. JoiningOverlap!TypeOK <=> RegOverlap!Joining!TypeOK
  BY Zenon DEF RegOverlap!Joining!TypeOK, JoiningOverlap!TypeOK, RegOverlap!Joining!ReferralStatus,
      JoiningOverlap!ReferralStatus, RegOverlap!Joining!OpenReferral, JoiningOverlap!OpenReferral
<1>8. People!TypeOK <=> Reg!People!TypeOK
  BY Zenon DEF Reg!People!TypeOK, People!TypeOK
<1>9. List!TypeOK <=> Reg!List!TypeOK
  BY Zenon DEF Reg!List!TypeOK, List!TypeOK, Reg!List!Id, List!Id, Reg!List!Customer, List!Customer,
      Reg!List!Unread, List!Unread, Reg!List!NoUsername, List!NoUsername,
      Reg!List!Nothing, List!Nothing, Reg!List!Stale, List!Stale, Reg!List!Fresh, List!Fresh
<1>10. Sight!TypeOK <=> RegSight!Sight!TypeOK
  BY Zenon DEF RegSight!Sight!TypeOK, Sight!TypeOK
<1> QED
  BY <1>1, <1>2, <1>3, <1>4, <1>5, <1>6, <1>7, <1>8, <1>9, <1>10

\* What the run's sets are made of: the people of the run, buildings and cables
\* are there, wings are finitely many, and null, "not sent", an idle request and
\* an unreadable cell are no values of a column.
RegistrySets ==
    /\ Reading /\ admin \in Staff /\ {homeZone, farZone} \subseteq Zone /\ splitter1 \in Splitter
    /\ IsFiniteSet(WingId) /\ MaxCount \in Nat /\ MaxPass \in Nat
    /\ None \notin Nat \cup Staff \cup {"TEAM_LEADER", "SALES_MANAGER"}
    /\ None \notin {account1, account2} \cup Newcomer \cup {user1, user2, phone1, phone2, text1, text2, Wrong}
    /\ None \notin Fiber \cup {closure1} \cup (Splitter \X Nat)
    /\ Keep \notin (1 .. MaxCount) \cup {None} \cup BOOLEAN
    /\ Wrong \notin {user1, user2, phone1, phone2, text1, text2}
    /\ NoRequest \notin Reg!Judged

Model == OfBuildings \cup {"customers", "network", "codes", "joining", "joiningOverlap", "team", "list", "sight"}

\* While part names a model, the behaviour is one of that model.
LEMMA EachIsItsModel ==
    MCSpec =>
        /\ (part = "permission" => Spec)
        /\ (part = "wings" => Reg!Wings!Spec)
        /\ (part = "access" => Reg!Access!Spec)
        /\ (part = "customers" => Reg!Customers!Spec)
        /\ (part = "network" => RegNetwork!Spec)
        /\ (part = "codes" => Reg!Codes!Spec)
        /\ (part = "joining" => Reg!Joining!Spec)
        /\ (part = "joiningOverlap" => RegOverlap!Joining!Spec)
        /\ (part = "team" => Reg!People!Spec)
        /\ (part = "list" => Reg!List!Spec)
        /\ (part = "sight" => RegSight!Sight!Spec)
<1>1. MCStart =>
        /\ (part = "permission" => Init)
        /\ (part = "wings" => Reg!Wings!Init)
        /\ (part = "access" => Reg!Access!Init)
        /\ (part = "customers" => Reg!Customers!Init)
        /\ (part = "network" => RegNetwork!Init)
        /\ (part = "codes" => Reg!Codes!Init)
        /\ (part = "joining" => Reg!Joining!Init)
        /\ (part = "joiningOverlap" => RegOverlap!Joining!Init)
        /\ (part = "team" => Reg!People!Init)
        /\ (part = "list" => Reg!List!Init)
        /\ (part = "sight" => RegSight!Sight!Init)
  BY WingsInitIsOne, AccessInitIsOne, CustomersInitIsOne, NetworkInitIsOne, CodesInitIsOne, JoiningInitIsOne,
     OverlapInitIsOne, StaffInitIsOne, ListInitIsOne, SightInitIsOne, Zenon
     DEF MCStart, MCInit
<1>2. [MCNext]_allVars =>
        /\ (part = "permission" => [Next]_vars)
        /\ (part = "wings" => [Reg!Wings!Next]_(Reg!Wings!vars))
        /\ (part = "access" => [Reg!Access!Next]_(Reg!Access!vars))
        /\ (part = "customers" => [Reg!Customers!Next]_(Reg!Customers!vars))
        /\ (part = "network" => [RegNetwork!Next]_(RegNetwork!vars))
        /\ (part = "codes" => [Reg!Codes!Next]_(Reg!Codes!vars))
        /\ (part = "joining" => [Reg!Joining!Next]_(Reg!Joining!vars))
        /\ (part = "joiningOverlap" => [RegOverlap!Joining!Next]_(RegOverlap!Joining!vars))
        /\ (part = "team" => [Reg!People!Next]_user)
        /\ (part = "list" => [Reg!List!Next]_(Reg!List!vars))
        /\ (part = "sight" => [RegSight!Sight!Next]_(RegSight!Sight!vars))
  <2>1. [MCNext]_allVars => (part = "permission" => [Next]_vars)
    BY DEF MCNext, Buildings, Others, Views, allVars, societyVars, vars
  <2>2. [MCNext]_allVars => (part = "wings" => [Reg!Wings!Next]_(Reg!Wings!vars))
    BY WingsNextIsOne DEF MCNext, Buildings, Others, Views, allVars, wingVars, Reg!Wings!vars
  <2>3. [MCNext]_allVars => (part = "access" => [Reg!Access!Next]_(Reg!Access!vars))
    BY AccessNextIsOne DEF MCNext, Buildings, Others, Views, allVars, Access!vars, Reg!Access!vars
  <2>4. [MCNext]_allVars => (part = "customers" => [Reg!Customers!Next]_(Reg!Customers!vars))
    BY CustomersNextIsOne DEF MCNext, Buildings, Others, Views, allVars, customerVars, Reg!Customers!vars
  <2>5. [MCNext]_allVars => (part = "network" => [RegNetwork!Next]_(RegNetwork!vars))
    BY NetworkNextIsOne DEF MCNext, Buildings, Others, Views, allVars, networkVars, RegNetwork!vars
  <2>6. [MCNext]_allVars => (part = "codes" => [Reg!Codes!Next]_(Reg!Codes!vars))
    BY CodesNextIsOne DEF MCNext, Buildings, Others, Views, allVars, partnerVars, codeVars, Reg!Codes!vars
  <2>7. [MCNext]_allVars => (part = "joining" => [Reg!Joining!Next]_(Reg!Joining!vars))
    BY JoiningNextIsOne DEF MCNext, Buildings, Others, Views, allVars, partnerVars, Reg!Joining!vars
  <2>8. [MCNext]_allVars => (part = "joiningOverlap" => [RegOverlap!Joining!Next]_(RegOverlap!Joining!vars))
    BY OverlapNextIsOne DEF MCNext, Buildings, Others, Views, allVars, partnerVars, RegOverlap!Joining!vars
  <2>9. [MCNext]_allVars => (part = "team" => [Reg!People!Next]_user)
    BY StaffNextIsOne DEF MCNext, Buildings, Others, Views, allVars
  <2>10. [MCNext]_allVars => (part = "list" => [Reg!List!Next]_(Reg!List!vars))
    BY ListNextIsOne DEF MCNext, Buildings, Others, Views, allVars, listVars, Reg!List!vars
  <2>11. [MCNext]_allVars => (part = "sight" => [RegSight!Sight!Next]_(RegSight!Sight!vars))
    BY SightNextIsOne DEF MCNext, Buildings, Others, Views, allVars, sightVars, RegSight!Sight!vars
  <2> QED
    BY <2>1, <2>2, <2>3, <2>4, <2>5, <2>6, <2>7, <2>8, <2>9, <2>10, <2>11
<1>3. MCSpec => (part = "permission" => Spec)
  <2>1. [MCNext]_allVars => ((part = "permission") <=> (part = "permission")')
    BY PartStays
  <2> QED
    BY <1>1, <1>2, <2>1, PTL DEF MCSpec, Spec
<1>4. MCSpec => (part = "wings" => Reg!Wings!Spec)
  <2>1. [MCNext]_allVars => ((part = "wings") <=> (part = "wings")')
    BY PartStays
  <2> QED
    BY <1>1, <1>2, <2>1, PTL DEF MCSpec, Reg!Wings!Spec
<1>5. MCSpec => (part = "access" => Reg!Access!Spec)
  <2>1. [MCNext]_allVars => ((part = "access") <=> (part = "access")')
    BY PartStays
  <2> QED
    BY <1>1, <1>2, <2>1, PTL DEF MCSpec, Reg!Access!Spec
<1>6. MCSpec => (part = "customers" => Reg!Customers!Spec)
  <2>1. [MCNext]_allVars => ((part = "customers") <=> (part = "customers")')
    BY PartStays
  <2> QED
    BY <1>1, <1>2, <2>1, PTL DEF MCSpec, Reg!Customers!Spec
<1>7. MCSpec => (part = "network" => RegNetwork!Spec)
  <2>1. [MCNext]_allVars => ((part = "network") <=> (part = "network")')
    BY PartStays
  <2> QED
    BY <1>1, <1>2, <2>1, PTL DEF MCSpec, RegNetwork!Spec
<1>8. MCSpec => (part = "codes" => Reg!Codes!Spec)
  <2>1. [MCNext]_allVars => ((part = "codes") <=> (part = "codes")')
    BY PartStays
  <2> QED
    BY <1>1, <1>2, <2>1, PTL DEF MCSpec, Reg!Codes!Spec
<1>9. MCSpec => (part = "joining" => Reg!Joining!Spec)
  <2>1. [MCNext]_allVars => ((part = "joining") <=> (part = "joining")')
    BY PartStays
  <2> QED
    BY <1>1, <1>2, <2>1, PTL DEF MCSpec, Reg!Joining!Spec
<1>10. MCSpec => (part = "joiningOverlap" => RegOverlap!Joining!Spec)
  <2>1. [MCNext]_allVars => ((part = "joiningOverlap") <=> (part = "joiningOverlap")')
    BY PartStays
  <2> QED
    BY <1>1, <1>2, <2>1, PTL DEF MCSpec, RegOverlap!Joining!Spec
<1>11. MCSpec => (part = "team" => Reg!People!Spec)
  <2>1. [MCNext]_allVars => ((part = "team") <=> (part = "team")')
    BY PartStays
  <2> QED
    BY <1>1, <1>2, <2>1, PTL DEF MCSpec, Reg!People!Spec
<1>12. MCSpec => (part = "list" => Reg!List!Spec)
  <2>1. [MCNext]_allVars => ((part = "list") <=> (part = "list")')
    BY PartStays
  <2> QED
    BY <1>1, <1>2, <2>1, PTL DEF MCSpec, Reg!List!Spec
<1>13. MCSpec => (part = "sight" => RegSight!Sight!Spec)
  <2>1. [MCNext]_allVars => ((part = "sight") <=> (part = "sight")')
    BY PartStays
  <2> QED
    BY <1>1, <1>2, <2>1, PTL DEF MCSpec, RegSight!Sight!Spec
<1> QED
  BY <1>3, <1>4, <1>5, <1>6, <1>7, <1>8, <1>9, <1>10, <1>11, <1>12, <1>13

\* The tables of every model keep to the types of the schema, requests that
\* overlap and all: the flats of a building, a sum over its wings, included.
THEOREM RegistryStaysTyped == ASSUME RegistrySets PROVE MCSpec => []RegistryTypeOK
<1>1. Reg!WingBounds
  <2>1. Reg!IsFiniteSet(WingId)
    BY Zenon DEF RegistrySets, Reg!IsFiniteSet, IsFiniteSet
  <2>2. None \notin 1 .. MaxCount
    BY DEF RegistrySets
  <2> QED
    BY <2>1, <2>2, Zenon DEF RegistrySets, Reg!WingBounds, Reg!WingSizes, Reg!Wings!Count
<1>2. Reg!CustomerSetup /\ Reg!OneAtATime
  BY SheetsFit DEF RegistrySets, Reading, Reg!OneAtATime
<1>3. RegNetwork!Setup /\ RegNetwork!OneAtATime
  BY LinesFit DEF RegistrySets, Reading, RegNetwork!OneAtATime
<1>4. Reg!TeamSetup
  BY DEF RegistrySets, Reg!TeamSetup, StaffRole, ZoneLists, StaffPatches, Patch
<1>5. Reg!ListSetup /\ RegSight!SightSetup
  BY AnswersFit DEF RegistrySets, Reading, RegSight!SightSetup
<1>6. Spec => []TypeOK
  BY SocietyTypesHold
<1>7. Reg!Wings!Spec => []Reg!Wings!TypeOK
  BY <1>1, Reg!WingTypesHold
<1>8. Reg!Access!Spec => []Reg!Access!TypeOK
  BY Reg!AccessTypesHold
<1>9. Reg!Customers!Spec => []Reg!Customers!TypeOK
  <2>1. Reg!Customers!Spec => /\ [](Reg!Customers!TypeOK /\ Reg!Customers!UsernamesAreUnique /\ Reg!Customers!ReuploadChangesNothing)
                              /\ Reg!Customers!ImportErasesNothing
    BY <1>2, Reg!CustomersStayKept
  <2> QED
    BY <2>1, PTL
<1>10. RegNetwork!Spec => []RegNetwork!TypeOK
  <2>1. RegNetwork!Spec => [](RegNetwork!TypeOK /\ RegNetwork!FeedsFit)
    BY <1>3, RegNetwork!FeedsStayFit
  <2> QED
    BY <2>1, PTL
<1>11. Reg!Codes!Spec => []Reg!Codes!TypeOK
  <2>1. Reg!Codes!Spec => [](Reg!Codes!TypeOK /\ Reg!Codes!CodesAreKept)
    BY <1>2, Reg!CodesStayKept DEF RegistrySets
  <2> QED
    BY <2>1, PTL
<1>12. Reg!Joining!Spec => []Reg!Joining!TypeOK
  <2>1. Reg!Joining!Spec => [](Reg!Joining!TypeOK /\ Reg!Joining!ApprovedOnPapers)
    BY Reg!ApprovalNeedsPapers DEF RegistrySets
  <2> QED
    BY <2>1, PTL
<1>13. RegOverlap!Joining!Spec => []RegOverlap!Joining!TypeOK
  <2>1. RegOverlap!Joining!Spec => [](RegOverlap!Joining!TypeOK /\ RegOverlap!Joining!ApprovedOnPapers)
    BY RegOverlap!ApprovalNeedsPapers DEF RegistrySets
  <2> QED
    BY <2>1, PTL
<1>14. Reg!People!Spec => []Reg!People!TypeOK
  <2>1. Reg!People!Spec => [](Reg!People!TypeOK /\ Reg!People!SurveyorsReportToManagers /\ Reg!People!TicksFitRole)
    BY <1>4, Reg!ReportsAndTicksFit
  <2> QED
    BY <2>1, PTL
<1>15. Reg!List!Spec => []Reg!List!TypeOK
  <2>1. Reg!List!Spec => [](Reg!List!TypeOK /\ Reg!List!ListsAgree)
    BY <1>5, Reg!ListsStayAgreed
  <2> QED
    BY <2>1, PTL
<1>16. RegSight!Sight!Spec => []RegSight!Sight!TypeOK
  <2>1. RegSight!Sight!Spec => [](RegSight!Sight!TypeOK /\ RegSight!Sight!NetworkIsSeenAlike)
    BY <1>5, RegSight!NetworkSeenAlike
  <2> QED
    BY <2>1, PTL
<1>17. MCSpec => [](part = "permission" => TypeOK)
  <2>1. [MCNext]_allVars => ((part = "permission") <=> (part = "permission")')
    BY PartStays
  <2>2. MCSpec => (~(part = "permission") => []~(part = "permission"))
    BY <2>1, PTL DEF MCSpec
  <2> QED
    BY <1>6, <2>2, EachIsItsModel, TypesAreOne, PTL
<1>18. MCSpec => [](part = "wings" => Wings!TypeOK)
  <2>1. [MCNext]_allVars => ((part = "wings") <=> (part = "wings")')
    BY PartStays
  <2>2. MCSpec => (~(part = "wings") => []~(part = "wings"))
    BY <2>1, PTL DEF MCSpec
  <2> QED
    BY <1>7, <2>2, EachIsItsModel, TypesAreOne, PTL
<1>19. MCSpec => [](part = "access" => Access!TypeOK)
  <2>1. [MCNext]_allVars => ((part = "access") <=> (part = "access")')
    BY PartStays
  <2>2. MCSpec => (~(part = "access") => []~(part = "access"))
    BY <2>1, PTL DEF MCSpec
  <2> QED
    BY <1>8, <2>2, EachIsItsModel, TypesAreOne, PTL
<1>20. MCSpec => [](part = "customers" => Customers!TypeOK)
  <2>1. [MCNext]_allVars => ((part = "customers") <=> (part = "customers")')
    BY PartStays
  <2>2. MCSpec => (~(part = "customers") => []~(part = "customers"))
    BY <2>1, PTL DEF MCSpec
  <2> QED
    BY <1>9, <2>2, EachIsItsModel, TypesAreOne, PTL
<1>21. MCSpec => [](part = "network" => Network!TypeOK)
  <2>1. [MCNext]_allVars => ((part = "network") <=> (part = "network")')
    BY PartStays
  <2>2. MCSpec => (~(part = "network") => []~(part = "network"))
    BY <2>1, PTL DEF MCSpec
  <2> QED
    BY <1>10, <2>2, EachIsItsModel, TypesAreOne, PTL
<1>22. MCSpec => [](part = "codes" => Codes!TypeOK)
  <2>1. [MCNext]_allVars => ((part = "codes") <=> (part = "codes")')
    BY PartStays
  <2>2. MCSpec => (~(part = "codes") => []~(part = "codes"))
    BY <2>1, PTL DEF MCSpec
  <2> QED
    BY <1>11, <2>2, EachIsItsModel, TypesAreOne, PTL
<1>23. MCSpec => [](part = "joining" => Joining!TypeOK)
  <2>1. [MCNext]_allVars => ((part = "joining") <=> (part = "joining")')
    BY PartStays
  <2>2. MCSpec => (~(part = "joining") => []~(part = "joining"))
    BY <2>1, PTL DEF MCSpec
  <2> QED
    BY <1>12, <2>2, EachIsItsModel, TypesAreOne, PTL
<1>24. MCSpec => [](part = "joiningOverlap" => JoiningOverlap!TypeOK)
  <2>1. [MCNext]_allVars => ((part = "joiningOverlap") <=> (part = "joiningOverlap")')
    BY PartStays
  <2>2. MCSpec => (~(part = "joiningOverlap") => []~(part = "joiningOverlap"))
    BY <2>1, PTL DEF MCSpec
  <2> QED
    BY <1>13, <2>2, EachIsItsModel, TypesAreOne, PTL
<1>25. MCSpec => [](part = "team" => People!TypeOK)
  <2>1. [MCNext]_allVars => ((part = "team") <=> (part = "team")')
    BY PartStays
  <2>2. MCSpec => (~(part = "team") => []~(part = "team"))
    BY <2>1, PTL DEF MCSpec
  <2> QED
    BY <1>14, <2>2, EachIsItsModel, TypesAreOne, PTL
<1>26. MCSpec => [](part = "list" => List!TypeOK)
  <2>1. [MCNext]_allVars => ((part = "list") <=> (part = "list")')
    BY PartStays
  <2>2. MCSpec => (~(part = "list") => []~(part = "list"))
    BY <2>1, PTL DEF MCSpec
  <2> QED
    BY <1>15, <2>2, EachIsItsModel, TypesAreOne, PTL
<1>27. MCSpec => [](part = "sight" => Sight!TypeOK)
  <2>1. [MCNext]_allVars => ((part = "sight") <=> (part = "sight")')
    BY PartStays
  <2>2. MCSpec => (~(part = "sight") => []~(part = "sight"))
    BY <2>1, PTL DEF MCSpec
  <2> QED
    BY <1>16, <2>2, EachIsItsModel, TypesAreOne, PTL
<1>28. MCSpec => [](part \in Model)
  <2>1. MCStart => part \in Model
    BY Zenon DEF MCStart, Model
  <2>2. part \in Model /\ [MCNext]_allVars
        => (part \in Model)'
    BY PartStays DEF Model, OfBuildings
  <2> QED
    BY <2>1, <2>2, PTL DEF MCSpec
<1>29. /\ part \in Model
       /\ (part = "permission" => TypeOK)
       /\ (part = "wings" => Wings!TypeOK)
       /\ (part = "access" => Access!TypeOK)
       /\ (part = "customers" => Customers!TypeOK)
       /\ (part = "network" => Network!TypeOK)
       /\ (part = "codes" => Codes!TypeOK)
       /\ (part = "joining" => Joining!TypeOK)
       /\ (part = "joiningOverlap" => JoiningOverlap!TypeOK)
       /\ (part = "team" => People!TypeOK)
       /\ (part = "list" => List!TypeOK)
       /\ (part = "sight" => Sight!TypeOK)
      => RegistryTypeOK
  BY DEF RegistryTypeOK, Model, OfBuildings
<1> QED
  BY <1>17, <1>18, <1>19, <1>20, <1>21, <1>22, <1>23, <1>24, <1>25, <1>26, <1>27, <1>28, <1>29, PTL
=============================================================================
