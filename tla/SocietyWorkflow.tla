-------------------------- MODULE SocietyWorkflow --------------------------
(***************************************************************************)
(* The life cycle of a society that src/src/modules/permission-buildings   *)
(* promises: approval.js (lines 8 to 10), survey.js (lines 8 to 13).       *)
(***************************************************************************)
CONSTANTS Society, None, Gone
VARIABLES approval, survey, live
vars == <<approval, survey, live>>

Is(s, a) == approval[s] = a
Decide(s, from, to) == approval[s] \in from /\ approval' = [approval EXCEPT ![s] = to] /\ UNCHANGED <<survey, live>>
Move(s, from, to) == /\ Is(s, "APPROVED") /\ survey[s] \in from
                     /\ survey' = [survey EXCEPT ![s] = to] /\ UNCHANGED <<approval, live>>

\* None is also the state of a society that is not there yet.
Submit(s) == Decide(s, {None, "REJECTED"}, "PENDING")
Withdraw(s) == Decide(s, {"PENDING"}, None)
Approve(s) == Decide(s, {"PENDING"}, "APPROVED")
Reject(s) == Decide(s, {"PENDING"}, "REJECTED")

Draft(s) == Move(s, {None, "REJECTED"}, "DRAFT")
SubmitSurvey(s) == Move(s, {"DRAFT", "REJECTED"}, "SUBMITTED")
DecideMaterials(s) == \E to \in {"APPROVED", "REJECTED"} : Move(s, {"SUBMITTED"}, to)

\* The Live flag may come with the row, and is switched by an admin (in an
\* edit, which may submit the society too) or once the society is approved.
SetLive(s) ==
    /\ ~Is(s, Gone)
    /\ \E l \in BOOLEAN : live' = [live EXCEPT ![s] = l]
    /\ UNCHANGED survey
    /\ \/ UNCHANGED approval
       \/ approval[s] \in {None, "REJECTED"} /\ approval' = [approval EXCEPT ![s] = "PENDING"]
       \/ approval[s] = "PENDING" /\ approval' = [approval EXCEPT ![s] = None]

Remove(s) ==
    /\ ~Is(s, Gone)
    /\ approval' = [approval EXCEPT ![s] = Gone]
    /\ survey' = [survey EXCEPT ![s] = Gone]
    /\ live' = [live EXCEPT ![s] = FALSE]

Init ==
    /\ approval = [s \in Society |-> None] /\ survey = [s \in Society |-> None]
    /\ live = [s \in Society |-> FALSE]
Next == \E s \in Society :
    Submit(s) \/ Withdraw(s) \/ Approve(s) \/ Reject(s) \/ Draft(s) \/ SubmitSurvey(s)
    \/ DecideMaterials(s) \/ SetLive(s) \/ Remove(s)

Spec == Init /\ [][Next]_vars
=============================================================================
