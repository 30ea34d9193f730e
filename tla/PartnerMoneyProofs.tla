------------------------- MODULE PartnerMoneyProofs -------------------------
(***************************************************************************)
(* What holds of PartnerMoney, and of the statements read from it, for any *)
(* number of leads, partners and payments and any rate card, with and      *)
(* without failures: first whatever requests overlap, then of requests     *)
(* that are taken one at a time; overlapping requests break all of the     *)
(* second part.                                                            *)
(***************************************************************************)
EXTENDS PartnerStatement, SequenceTheorems, FiniteSetTheorems, TLAPS

-----------------------------------------------------------------------------
(* Lemmas about the data.                                                  *)

\* A non-empty set of naturals has a least element.
LEMMA LeastNatural ==
    ASSUME NEW T, T \subseteq Nat, T # {}
    PROVE  \E x \in T : \A y \in T : x <= y
<1> DEFINE R == OpToRel(<, Nat)
<1>1. \E x \in T : \A y \in T : <<y, x>> \notin R
  <2>1. IsWellFoundedOn(R, Nat)
    BY NatLessThanWellFounded, Zenon
  <2> HIDE DEF R
  <2> QED
    BY <2>1, WFMin, Zenon
<1>2. ASSUME NEW x \in Nat, NEW y \in Nat, <<y, x>> \notin R
      PROVE  x <= y
  <2>1. <<y, x>> \in Nat \X Nat => ~ (<<y, x>>[1] < <<y, x>>[2])
    BY <1>2, Zenon DEF OpToRel
  <2> QED
    BY <2>1
<1> QED
  BY <1>1, <1>2

\* findOpenByMobile answers null or an open lead of that customer.
LEMMA FindOpenType ==
    ASSUME leads \in Seq(Lead), NEW m
    PROVE  FindOpen(m) = 0 \/ FindOpen(m) \in OpenClaims(m)
<1>1. CASE OpenClaims(m) = {}
  BY <1>1 DEF FindOpen
<1>2. CASE OpenClaims(m) # {}
  <2>1. OpenClaims(m) \subseteq Nat
    BY LenProperties DEF OpenClaims
  <2>2. \E l \in OpenClaims(m) : \A k \in OpenClaims(m) : l <= k
    BY <1>2, <2>1, LeastNatural
  <2> QED
    BY <1>2, <2>2, Zenon DEF FindOpen
<1> QED
  BY <1>1, <1>2

\* A rate that findRate returns is in force.
LEMMA FoundRateInForce ==
    ASSUME NEW p, NEW plan, NEW month \in Month, NEW rate \in FindRate(plan, month)
    PROVE  /\ RateInForce(p, plan, month, Commission(p, rate))
           /\ Commission(p, rate) \in Nat
<1>1. \A r \in RateCard : r.from \in Nat /\ r.amount \in Nat
  BY PartnerMoneyAssumption
<1> QED
  BY <1>1, PartnerMoneyAssumption DEF FindRate, RateInForce, Commission, Month

\* Updating one row of a table in place.
LEMMA UpdateRow ==
    ASSUME NEW S, NEW seq \in Seq(S), NEW i \in DOMAIN seq, NEW e \in S
    PROVE  /\ [seq EXCEPT ![i] = e] \in Seq(S)
           /\ Len([seq EXCEPT ![i] = e]) = Len(seq)
           /\ DOMAIN [seq EXCEPT ![i] = e] = DOMAIN seq
  BY ExceptSeq, LenProperties

-----------------------------------------------------------------------------
(* The locals of the requests.                                             *)

\* Between two states leads are only added, and keep their partner and customer.
Keeps(old, new) ==
    /\ DOMAIN old \subseteq DOMAIN new
    /\ \A l \in DOMAIN old : /\ new[l].partner = old[l].partner
                              /\ new[l].mobile = old[l].mobile

LEMMA LocalOKStable ==
    ASSUME NEW r, NEW old, NEW new, LocalOK(r, old), Keeps(old, new)
    PROVE  LocalOK(r, new)
  BY Zenon DEF LocalOK, Keeps

\* A step that writes one handler's locals leaves the other handlers' in order.
LEMMA OneRequest ==
    ASSUME TypeOK, LocalsOK, Keeps(leads, leads'),
           NEW w \in Worker, NEW r \in Request, LocalOK(r, leads'),
           req' = [req EXCEPT ![w] = r]
    PROVE  req' \in [Worker -> Request] /\ LocalsOK'
<1>1. req \in [Worker -> Request]
  BY DEF TypeOK
<1>2. req' \in [Worker -> Request]
  BY <1>1, Zenon
<1>3. ASSUME NEW v \in Worker PROVE LocalOK(req'[v], leads')
  <2>1. CASE v = w
    BY <1>1, <2>1, Zenon
  <2>2. CASE v # w
    <3>1. req'[v] = req[v]
      BY <1>1, <2>2, Zenon
    <3>2. LocalOK(req[v], leads)
      BY Zenon DEF LocalsOK
    <3> QED
      BY <3>1, <3>2, LocalOKStable, Zenon
  <2> QED
    BY <2>1, <2>2
<1> QED
  BY <1>2, <1>3, Zenon DEF LocalsOK

LEMMA IdleOK ==
    /\ Idle \in Request
    /\ \A ls : LocalOK(Idle, ls)
<1>1. Idle \in Request
  BY PartnerMoneyAssumption, PartnerMoneyEnumerations DEF Idle, Request, Step
<1>2. ASSUME NEW ls PROVE LocalOK(Idle, ls)
  BY DEF Idle, LocalOK
<1> QED
  BY <1>1, <1>2, Zenon

\* A handler that ends.
LEMMA FinishOK ==
    ASSUME TypeOK, LocalsOK, Keeps(leads, leads'), NEW w \in Worker, Finish(w)
    PROVE  req' \in [Worker -> Request] /\ LocalsOK'
  BY IdleOK, OneRequest, Zenon DEF Finish

\* A handler about to write the lead.
LEMMA ToUpdateOK ==
    ASSUME TypeOK, LocalsOK, Keeps(leads, leads'), NEW w \in Worker, ToUpdate(w),
           req[w].lead \in DOMAIN leads, req[w].to \in Status
    PROVE  req' \in [Worker -> Request] /\ LocalsOK'
<1> DEFINE r == [Idle EXCEPT !.at = "update_lead", !.lead = req[w].lead,
                             !.seen = req[w].seen, !.to = req[w].to]
<1>1. req[w] \in Request
  BY DEF TypeOK
<1>2. r \in Request
  BY <1>1, IdleOK DEF Request, Step, Idle
<1>3. LocalOK(r, leads')
  <2>1. r.lead \in DOMAIN leads' /\ r.to \in Status /\ r.at = "update_lead"
    BY DEF Keeps, Idle
  <2> HIDE DEF r
  <2> QED
    BY <2>1, Zenon DEF LocalOK
<1>4. req' = [req EXCEPT ![w] = r]
  BY DEF ToUpdate, Continue
<1> HIDE DEF r
<1> QED
  BY <1>2, <1>3, <1>4, OneRequest

\* A handler that moves on with the locals it has.
LEMMA GotoOK ==
    ASSUME TypeOK, LocalsOK, Keeps(leads, leads'), NEW w \in Worker,
           NEW step \in Step, Goto(w, step),
           LocalOK([req[w] EXCEPT !.at = step], leads)
    PROVE  req' \in [Worker -> Request] /\ LocalsOK'
<1> DEFINE r == [req[w] EXCEPT !.at = step]
<1>1. req[w] \in Request
  BY DEF TypeOK
<1>2. r \in Request
  BY <1>1 DEF Request
<1>3. LocalOK(r, leads')
  BY LocalOKStable, Zenon
<1>4. req' = [req EXCEPT ![w] = r]
  BY DEF Goto
<1> HIDE DEF r
<1> QED
  BY <1>2, <1>3, <1>4, OneRequest
-----------------------------------------------------------------------------
(* Types: every step keeps the tables and the locals in order.             *)

Tables == <<leads, earning, payments, event, call, now>>

\* A step that only moves a handler on.
LEMMA OnlyLocals ==
    ASSUME TypeOK, UNCHANGED Tables, req' \in [Worker -> Request]
    PROVE  TypeOK'
  BY Zenon DEF TypeOK, Tables, Lead, Earning, Payment, Earned

LEMMA KeepsSame == ASSUME leads' = leads PROVE Keeps(leads, leads')
  BY Zenon DEF Keeps

LEMMA CaptureOK ==
    ASSUME TypeOK, LocalsOK, NEW w \in Worker, NEW p \in Partner, NEW m \in Mobile,
           Capture(w, p, m)
    PROVE  TypeOK' /\ LocalsOK'
<1> DEFINE r == [Idle EXCEPT !.at = "create_lead", !.partner = p,
                             !.mobile = m, !.lead = FindOpen(m)]
<1>1. FindOpen(m) = 0 \/ (FindOpen(m) \in DOMAIN leads /\ leads[FindOpen(m)].mobile = m)
  BY FindOpenType DEF TypeOK, OpenClaims
<1>2. FindOpen(m) \in 0..MaxLeads
  BY <1>1, LenProperties, PartnerMoneyAssumption DEF TypeOK
<1>3. r \in Request
  BY <1>2, IdleOK DEF Request, Step, Idle
<1>4. LocalOK(r, leads')
  <2>1. /\ r.at = "create_lead" /\ r.partner \in Partner /\ r.mobile \in Mobile
        /\ r.lead # 0 => r.lead \in DOMAIN leads' /\ leads'[r.lead].mobile = r.mobile
    BY <1>1 DEF Idle, Capture
  <2> HIDE DEF r
  <2> QED
    BY <2>1 DEF LocalOK
<1>5. req' = [req EXCEPT ![w] = r] /\ UNCHANGED Tables
  BY DEF Capture, Continue, Tables
<1> HIDE DEF r
<1> QED
  BY <1>3, <1>4, <1>5, KeepsSame, OneRequest, OnlyLocals DEF Tables

LEMMA CreateLeadOK ==
    ASSUME TypeOK, LocalsOK, NEW w \in Worker, CreateLead(w)
    PROVE  TypeOK' /\ LocalsOK' /\ Keeps(leads, leads')
<1> DEFINE status == IF req[w].lead = 0 THEN "NEW" ELSE "DUPLICATE"
           row    == [partner |-> req[w].partner, mobile |-> req[w].mobile,
                      status |-> status, nextCall |-> FALSE,
                      duplicateOf |-> req[w].lead]
           r      == [Idle EXCEPT !.at = "record_event", !.to = status,
                                  !.lead = Len(leads) + 1]
<1>1. req[w] \in Request /\ req[w].partner \in Partner /\ req[w].mobile \in Mobile
  BY DEF TypeOK, LocalsOK, LocalOK, CreateLead
<1>2. row \in Lead
  BY <1>1 DEF Lead, Request, Status
<1>3. leads' = Append(leads, row) /\ Len(leads) < MaxLeads
  BY DEF CreateLead
<1>4. leads \in Seq(Lead) /\ Len(leads) \in Nat /\ MaxLeads \in Nat
  BY LenProperties, PartnerMoneyAssumption DEF TypeOK
<1> HIDE DEF row
<1>5. /\ leads' \in Seq(Lead) /\ Len(leads') = Len(leads) + 1
      /\ \A i \in 1..Len(leads) : leads'[i] = leads[i]
      /\ DOMAIN leads = 1..Len(leads) /\ DOMAIN leads' = 1..Len(leads')
  BY <1>2, <1>3, <1>4, AppendProperties, LenProperties
<1>6. Len(leads') <= MaxLeads
  BY <1>3, <1>4, <1>5
<1>7. Keeps(leads, leads')
  BY <1>4, <1>5 DEF Keeps
<1>8. r \in Request
  <2>1. status \in Status /\ Len(leads) + 1 \in 0..MaxLeads
    BY <1>3, <1>4 DEF Status
  <2> HIDE DEF status
  <2> QED
    BY <2>1, IdleOK DEF Request, Step, Idle
<1>9. LocalOK(r, leads')
  <2>1. r.at = "record_event" /\ r.lead \in DOMAIN leads' /\ r.to \in Status
    BY <1>4, <1>5 DEF Idle, Status
  <2> HIDE DEF r
  <2> QED
    BY <2>1 DEF LocalOK
<1>10. req' = [req EXCEPT ![w] = r]
  BY DEF CreateLead, Continue
<1>11. UNCHANGED <<earning, payments, event, call, now>>
  BY DEF CreateLead
<1> HIDE DEF r
<1>12. req' \in [Worker -> Request] /\ LocalsOK'
  BY <1>7, <1>8, <1>9, <1>10, OneRequest
<1> QED
  BY <1>5, <1>6, <1>7, <1>11, <1>12, Zenon DEF TypeOK

LEMMA ChangeStatusOK ==
    ASSUME TypeOK, LocalsOK, NEW w \in Worker, NEW l \in LeadId, NEW to \in Targets,
           NEW plan \in Plan \cup {None}, ChangeStatus(w, l, to, plan)
    PROVE  TypeOK' /\ LocalsOK'
<1> DEFINE r == [Idle EXCEPT !.at = NextStep(leads[l].status, to), !.lead = l,
                             !.seen = leads[l].status, !.to = to, !.plan = plan]
<1>1. NextStep(leads[l].status, to) \in {"find_for_lead", "find_to_revoke", "update_lead"}
  BY DEF NextStep
<1>2. l \in DOMAIN leads /\ leads[l].status \in Status /\ to \in Status /\ l \in 0..MaxLeads
  <2>1. l \in DOMAIN leads
    BY DEF ChangeStatus
  <2>2. leads[l] \in Lead
    BY <2>1, ElementOfSeq, LenProperties DEF TypeOK
  <2> QED
    BY <2>1, <2>2, PartnerMoneyAssumption, PartnerMoneyEnumerations DEF Lead, LeadId
<1>3. r \in Request
  BY <1>1, <1>2, IdleOK DEF Request, Step, Idle
<1>4. /\ r.at \in {"find_for_lead", "find_to_revoke", "update_lead"}
      /\ r.lead \in DOMAIN leads /\ r.to \in Status
  BY <1>1, <1>2 DEF Idle
<1>5. req' = [req EXCEPT ![w] = r] /\ UNCHANGED Tables
  BY DEF ChangeStatus, Continue, Tables
<1> HIDE DEF r
<1>6. LocalOK(r, leads')
  BY <1>4, <1>5 DEF LocalOK, Tables
<1> QED
  BY <1>3, <1>5, <1>6, KeepsSame, OneRequest, OnlyLocals DEF Tables

LEMMA LogCallOK ==
    ASSUME TypeOK, LocalsOK, NEW w \in Worker, NEW l \in LeadId, NEW o \in Outcomes,
           LogCall(w, l, o)
    PROVE  TypeOK' /\ LocalsOK'
<1> DEFINE r == [Idle EXCEPT !.at = "create_call", !.lead = l, !.outcome = o,
                             !.seen = leads[l].status, !.to = OutcomeStatus[o]]
<1>1. /\ l \in DOMAIN leads /\ leads[l].status \in Status /\ l \in 0..MaxLeads
      /\ o \in Outcome /\ OutcomeStatus[o] \in Status
  <2>1. l \in DOMAIN leads
    BY DEF LogCall
  <2>2. leads[l] \in Lead
    BY <2>1, ElementOfSeq, LenProperties DEF TypeOK
  <2>3. o \in Outcome
    BY PartnerMoneyEnumerations
  <2>4. OutcomeStatus[o] \in Status
    BY <2>3 DEF Outcome, OutcomeStatus, Status
  <2> QED
    BY <2>1, <2>2, <2>3, <2>4, PartnerMoneyAssumption DEF Lead, LeadId
<1>2. r \in Request
  BY <1>1, IdleOK DEF Request, Step, Idle
<1>3. /\ r.at = "create_call" /\ r.lead \in DOMAIN leads /\ r.to \in Status
      /\ r.outcome \in Outcome
  BY <1>1 DEF Idle
<1>4. req' = [req EXCEPT ![w] = r] /\ UNCHANGED Tables
  BY DEF LogCall, Continue, Tables
<1> HIDE DEF r
<1>5. LocalOK(r, leads')
  BY <1>3, <1>4 DEF LocalOK, Tables
<1> QED
  BY <1>2, <1>4, <1>5, KeepsSame, OneRequest, OnlyLocals DEF Tables

LEMMA MarkPaidOK ==
    ASSUME TypeOK, LocalsOK, NEW w \in Worker, NEW p \in Partner, NEW month \in Month,
           MarkPaid(w, p, month)
    PROVE  TypeOK' /\ LocalsOK'
<1> DEFINE r == [Idle EXCEPT !.at = "record_payment", !.partner = p,
                             !.month = month, !.owed = Owed(p, month)]
<1>1. Owed(p, month) \subseteq LeadId /\ month \in 0..MaxMonth
  BY PartnerMoneyAssumption DEF Owed, Awaiting, Earned, Month
<1>2. r \in Request
  BY <1>1, IdleOK DEF Request, Step, Idle
<1>3. r.at = "record_payment" /\ r.partner \in Partner /\ r.month \in Month
  BY DEF Idle
<1>4. req' = [req EXCEPT ![w] = r] /\ UNCHANGED Tables
  BY DEF MarkPaid, Continue, Tables
<1> HIDE DEF r
<1>5. LocalOK(r, leads')
  BY <1>3 DEF LocalOK
<1> QED
  BY <1>2, <1>4, <1>5, KeepsSame, OneRequest, OnlyLocals DEF Tables

\* What is known of a handler that works on a lead.
LEMMA AtLead ==
    ASSUME TypeOK, LocalsOK, NEW w \in Worker,
           req[w].at \notin {"idle", "create_lead", "record_payment"}
    PROVE  /\ req[w].lead \in DOMAIN leads
           /\ req[w].lead \in LeadId
           /\ req[w].to \in Status
           /\ leads[req[w].lead] \in Lead
           /\ req[w] \in Request
<1>1. req[w].lead \in DOMAIN leads /\ req[w].to \in Status
  BY Zenon DEF LocalsOK, LocalOK
<1>2. leads[req[w].lead] \in Lead /\ req[w].lead \in LeadId
  BY <1>1, ElementOfSeq, LenProperties, PartnerMoneyAssumption DEF TypeOK, LeadId
<1> QED
  BY <1>1, <1>2 DEF TypeOK

LEMMA FindForLeadOK ==
    ASSUME TypeOK, LocalsOK, NEW w \in Worker, FindForLead(w)
    PROVE  TypeOK' /\ LocalsOK'
<1>1. UNCHANGED Tables /\ Keeps(leads, leads') /\ req[w].at = "find_for_lead"
  BY KeepsSame DEF FindForLead, Tables
<1>2. CASE ToUpdate(w)
  BY <1>1, <1>2, AtLead, ToUpdateOK, OnlyLocals
<1>3. CASE Finish(w)
  BY <1>1, <1>3, FinishOK, OnlyLocals
<1>4. CASE req[w].plan # None /\ Continue(w, [req[w] EXCEPT !.at = "find_existing", !.month = now])
  <2> DEFINE r == [req[w] EXCEPT !.at = "find_existing", !.month = now]
  <2>1. req[w] \in Request /\ req[w].plan \in Plan /\ now \in Month /\ now \in 0..MaxMonth
    BY <1>4, PartnerMoneyAssumption DEF TypeOK, Request, Month
  <2>2. r \in Request
    BY <2>1 DEF Request, Step
  <2>3. /\ r.at = "find_existing" /\ r.plan \in Plan /\ r.month \in Month
        /\ r.lead \in DOMAIN leads' /\ r.to \in Status
    BY <1>1, <2>1, AtLead DEF Request, Tables
  <2>4. req' = [req EXCEPT ![w] = r]
    BY <1>4 DEF Continue
  <2> HIDE DEF r
  <2>5. LocalOK(r, leads')
    BY <2>3 DEF LocalOK
  <2> QED
    BY <1>1, <2>2, <2>4, <2>5, OneRequest, OnlyLocals
<1> QED
  BY <1>2, <1>3, <1>4 DEF FindForLead

LEMMA FindExistingOK ==
    ASSUME TypeOK, LocalsOK, NEW w \in Worker, FindExisting(w)
    PROVE  TypeOK' /\ LocalsOK'
<1>1. UNCHANGED Tables /\ Keeps(leads, leads') /\ req[w].at = "find_existing"
  BY KeepsSame DEF FindExisting, Tables
<1>2. CASE ToUpdate(w)
  BY <1>1, <1>2, AtLead, ToUpdateOK, OnlyLocals
<1>3. CASE Finish(w)
  BY <1>1, <1>3, FinishOK, OnlyLocals
<1>4. ASSUME NEW rate \in FindRate(req[w].plan, req[w].month),
             Continue(w, [req[w] EXCEPT !.at = "create_earning",
                            !.amount = Commission(leads[req[w].lead].partner, rate)])
      PROVE  TypeOK' /\ LocalsOK'
  <2> DEFINE p == leads[req[w].lead].partner
             r == [req[w] EXCEPT !.at = "create_earning", !.amount = Commission(p, rate)]
  <2>1. req[w] \in Request /\ req[w].plan \in Plan /\ req[w].month \in Month
    BY <1>1, Zenon DEF TypeOK, LocalsOK, LocalOK
  <2>2. /\ RateInForce(p, req[w].plan, req[w].month, Commission(p, rate))
        /\ Commission(p, rate) \in Nat
    BY <2>1, FoundRateInForce
  <2>3. r \in Request
    BY <2>1, <2>2 DEF Request, Step
  <2>4. /\ r.at = "create_earning" /\ r.plan \in Plan /\ r.month \in Month
        /\ r.lead \in DOMAIN leads' /\ r.to \in Status
        /\ r.plan = req[w].plan /\ r.month = req[w].month /\ r.lead = req[w].lead
        /\ r.amount = Commission(p, rate)
    BY <1>1, <2>1, AtLead DEF Request, Tables
  <2>5. leads'[r.lead].partner = p
    BY <1>1, <2>4 DEF Tables
  <2>6. req' = [req EXCEPT ![w] = r]
    BY <1>4 DEF Continue
  <2> HIDE DEF r, p
  <2>7. LocalOK(r, leads')
    BY <2>2, <2>4, <2>5 DEF LocalOK
  <2> QED
    BY <1>1, <2>3, <2>6, <2>7, OneRequest, OnlyLocals
<1> QED
  BY <1>2, <1>3, <1>4 DEF FindExisting

LEMMA CreateEarningOK ==
    ASSUME TypeOK, LocalsOK, NEW w \in Worker, CreateEarning(w)
    PROVE  TypeOK' /\ LocalsOK'
<1> DEFINE l   == req[w].lead
           row == [partner |-> leads[l].partner, plan |-> req[w].plan,
                   amount |-> req[w].amount, month |-> req[w].month,
                   status |-> "AWAITING_PAYMENT", payment |-> 0]
<1>1. /\ UNCHANGED <<leads, payments, event, call, now>> /\ Keeps(leads, leads')
      /\ req[w].at = "create_earning"
  BY KeepsSame DEF CreateEarning
<1>2. CASE Finish(w) /\ UNCHANGED earning
  BY <1>1, <1>2, FinishOK, OnlyLocals DEF Tables
<1>3. CASE ToUpdate(w) /\ earning' = [earning EXCEPT ![l] = row]
  <2>1. req[w] \in Request /\ req[w].plan \in Plan /\ req[w].month \in Month
    BY <1>1, Zenon DEF TypeOK, LocalsOK, LocalOK
  <2>2. row \in Earning
    BY <1>1, <2>1, AtLead DEF Earning, Request, Lead
  <2>3. earning' \in [LeadId -> Earning \cup {NoEarning}]
    BY <1>3, <2>2, Zenon DEF TypeOK
  <2>4. req' \in [Worker -> Request] /\ LocalsOK'
    BY <1>1, <1>3, AtLead, ToUpdateOK
  <2> QED
    BY <1>1, <2>3, <2>4, Zenon DEF TypeOK
<1> QED
  BY <1>2, <1>3 DEF CreateEarning

LEMMA FindToRevokeOK ==
    ASSUME TypeOK, LocalsOK, NEW w \in Worker, FindToRevoke(w)
    PROVE  TypeOK' /\ LocalsOK'
<1>1. UNCHANGED Tables /\ Keeps(leads, leads') /\ req[w].at = "find_to_revoke"
  BY KeepsSame DEF FindToRevoke, Tables
<1>2. CASE ToUpdate(w)
  BY <1>1, <1>2, AtLead, ToUpdateOK, OnlyLocals
<1>3. CASE Finish(w)
  BY <1>1, <1>3, FinishOK, OnlyLocals
<1>4. CASE Goto(w, "delete_earning")
  <2>1. LocalOK([req[w] EXCEPT !.at = "delete_earning"], leads)
    BY <1>1, AtLead DEF LocalOK, Request
  <2>2. "delete_earning" \in Step
    BY DEF Step
  <2> QED
    BY <1>1, <1>4, <2>1, <2>2, GotoOK, OnlyLocals
<1> QED
  BY <1>2, <1>3, <1>4 DEF FindToRevoke

LEMMA DeleteEarningOK ==
    ASSUME TypeOK, LocalsOK, NEW w \in Worker, DeleteEarning(w)
    PROVE  TypeOK' /\ LocalsOK'
<1>1. /\ UNCHANGED <<leads, payments, event, call, now>> /\ Keeps(leads, leads')
      /\ req[w].at = "delete_earning" /\ ToUpdate(w)
  BY KeepsSame DEF DeleteEarning
<1>2. earning' \in [LeadId -> Earning \cup {NoEarning}]
  BY Zenon DEF DeleteEarning, TypeOK
<1>3. req' \in [Worker -> Request] /\ LocalsOK'
  BY <1>1, AtLead, ToUpdateOK
<1> QED
  BY <1>1, <1>2, <1>3, Zenon DEF TypeOK

\* Writing a lead's status or callback leaves its partner and customer alone.
LEMMA RowKeeps ==
    ASSUME TypeOK, NEW l \in DOMAIN leads, NEW row \in Lead,
           row.partner = leads[l].partner, row.mobile = leads[l].mobile,
           leads' = [leads EXCEPT ![l] = row]
    PROVE  /\ leads' \in Seq(Lead) /\ Len(leads') = Len(leads)
           /\ DOMAIN leads' = DOMAIN leads
           /\ Keeps(leads, leads')
<1>1. /\ leads' \in Seq(Lead) /\ Len(leads') = Len(leads)
      /\ DOMAIN leads' = DOMAIN leads
  BY UpdateRow DEF TypeOK
<1>2. ASSUME NEW k \in DOMAIN leads
      PROVE  leads'[k].partner = leads[k].partner /\ leads'[k].mobile = leads[k].mobile
  BY Zenon
<1> QED
  BY <1>1, <1>2, Zenon DEF Keeps

LEMMA UpdateLeadOK ==
    ASSUME TypeOK, LocalsOK, NEW w \in Worker, UpdateLead(w)
    PROVE  TypeOK' /\ LocalsOK' /\ Keeps(leads, leads') /\ Len(leads') = Len(leads)
<1> DEFINE l   == req[w].lead
           row == [leads[l] EXCEPT !.status = req[w].to]
<1>1. /\ req[w].at = "update_lead" /\ Goto(w, "record_event")
      /\ UNCHANGED <<earning, payments, event, call, now>>
      /\ leads' = [leads EXCEPT ![l] = row]
  BY DEF UpdateLead
<1>2. /\ l \in DOMAIN leads /\ row \in Lead
      /\ row.partner = leads[l].partner /\ row.mobile = leads[l].mobile
  BY <1>1, AtLead DEF Lead
<1> HIDE DEF row
<1>3. leads' \in Seq(Lead) /\ Len(leads') = Len(leads) /\ Keeps(leads, leads')
  BY <1>1, <1>2, RowKeeps
<1>4. LocalOK([req[w] EXCEPT !.at = "record_event"], leads)
  BY <1>1, AtLead DEF LocalOK, Request
<1>5. req' \in [Worker -> Request] /\ LocalsOK'
  BY <1>1, <1>3, <1>4, GotoOK DEF Step
<1> QED
  BY <1>1, <1>3, <1>5, Zenon DEF TypeOK

LEMMA RecordEventOK ==
    ASSUME TypeOK, LocalsOK, NEW w \in Worker, RecordEvent(w)
    PROVE  TypeOK' /\ LocalsOK'
<1>1. /\ req[w].at = "record_event" /\ Finish(w)
      /\ UNCHANGED <<leads, earning, payments, call, now>> /\ Keeps(leads, leads')
  BY KeepsSame DEF RecordEvent
<1>2. event' \in [LeadId -> Status \cup {None}]
  BY <1>1, AtLead, Zenon DEF RecordEvent, TypeOK
<1> QED
  BY <1>1, <1>2, FinishOK, Zenon DEF TypeOK

LEMMA CreateCallOK ==
    ASSUME TypeOK, LocalsOK, NEW w \in Worker, CreateCall(w)
    PROVE  TypeOK' /\ LocalsOK'
<1>1. /\ req[w].at = "create_call" /\ Goto(w, "update_called")
      /\ UNCHANGED <<leads, earning, payments, event, now>> /\ Keeps(leads, leads')
  BY KeepsSame DEF CreateCall
<1>2. req[w].outcome \in Outcome
  BY <1>1, Zenon DEF LocalsOK, LocalOK
<1>3. call' \in [LeadId -> Outcome \cup {None}]
  BY <1>2, Zenon DEF CreateCall, TypeOK
<1>4. LocalOK([req[w] EXCEPT !.at = "update_called"], leads)
  BY <1>1, <1>2, AtLead DEF LocalOK, Request
<1>5. req' \in [Worker -> Request] /\ LocalsOK'
  BY <1>1, <1>4, GotoOK DEF Step
<1> QED
  BY <1>1, <1>3, <1>5, Zenon DEF TypeOK

LEMMA UpdateCalledOK ==
    ASSUME TypeOK, LocalsOK, NEW w \in Worker, UpdateCalled(w)
    PROVE  TypeOK' /\ LocalsOK' /\ Keeps(leads, leads') /\ Len(leads') = Len(leads)
<1> DEFINE l      == req[w].lead
           moves  == CallMoves(req[w].seen, req[w].to)
           status == IF moves THEN req[w].to ELSE leads[l].status
           row    == [leads[l] EXCEPT !.status = status,
                                      !.nextCall = CallsBack(req[w].outcome)]
<1>1. /\ req[w].at = "update_called"
      /\ UNCHANGED <<earning, payments, event, call, now>>
      /\ Goto(w, "record_event") \/ Finish(w)
  BY DEF UpdateCalled
<1>2. /\ l \in DOMAIN leads /\ leads[l] \in Lead /\ status \in Status
      /\ CallsBack(req[w].outcome) \in BOOLEAN
  BY <1>1, AtLead DEF Lead, CallsBack
<1>3. leads' = [leads EXCEPT ![l] = row]
  BY <1>2 DEF UpdateCalled, Lead
<1>4. row \in Lead /\ row.partner = leads[l].partner /\ row.mobile = leads[l].mobile
  <2> HIDE DEF status
  <2> QED
    BY <1>2 DEF Lead
<1> HIDE DEF row
<1>5. leads' \in Seq(Lead) /\ Len(leads') = Len(leads) /\ Keeps(leads, leads')
  BY <1>2, <1>3, <1>4, RowKeeps
<1>6. LocalOK([req[w] EXCEPT !.at = "record_event"], leads)
  BY <1>1, AtLead DEF LocalOK, Request
<1>7. req' \in [Worker -> Request] /\ LocalsOK'
  BY <1>1, <1>5, <1>6, GotoOK, FinishOK DEF Step
<1> QED
  BY <1>1, <1>5, <1>7, Zenon DEF TypeOK

LEMMA RecordPaymentOK ==
    ASSUME TypeOK, LocalsOK, NEW w \in Worker, RecordPayment(w)
    PROVE  TypeOK' /\ LocalsOK'
<1> DEFINE row == [partner |-> req[w].partner, month |-> req[w].month, owed |-> req[w].owed]
           k   == Len(payments) + 1
<1>1. /\ req[w].at = "record_payment" /\ Finish(w)
      /\ UNCHANGED <<leads, event, call, now>> /\ Keeps(leads, leads')
      /\ payments' = Append(payments, row)
  BY KeepsSame DEF RecordPayment
<1>2. row \in Payment
  <2>1. req[w].partner \in Partner /\ req[w].month \in Month /\ req[w] \in Request
    BY <1>1, Zenon DEF TypeOK, LocalsOK, LocalOK
  <2> QED
    BY <2>1 DEF Request, Payment
<1> HIDE DEF row
<1>3. payments' \in Seq(Payment) /\ k \in Nat
  BY <1>1, <1>2, AppendProperties, LenProperties DEF TypeOK
<1>4. ASSUME NEW l \in LeadId
      PROVE  earning'[l] \in Earning \cup {NoEarning}
  <2>1. CASE l \in Settled(req[w].partner, req[w].month)
    <3>1. earning[l] \in Earning
      BY <2>1 DEF Settled, Awaiting, Earned, TypeOK
    <3>2. earning'[l] = [earning[l] EXCEPT !.status = "PAID", !.payment = k]
      BY <2>1, Zenon DEF RecordPayment
    <3> HIDE DEF k
    <3> QED
      BY <1>3, <3>1, <3>2 DEF Earning
  <2>2. CASE l \notin Settled(req[w].partner, req[w].month)
    BY <2>2, Zenon DEF RecordPayment, TypeOK
  <2> QED
    BY <2>1, <2>2
<1>5. earning' \in [LeadId -> Earning \cup {NoEarning}]
  <2>1. earning' = [l \in LeadId |-> earning'[l]]
    BY Zenon DEF RecordPayment
  <2> QED
    BY <1>4, <2>1, Zenon
<1> QED
  BY <1>1, <1>3, <1>5, FinishOK, Zenon DEF TypeOK

LEMMA FailOK ==
    ASSUME TypeOK, LocalsOK, NEW w \in Worker, Fail(w)
    PROVE  TypeOK' /\ LocalsOK'
  BY KeepsSame, FinishOK, OnlyLocals DEF Fail, Tables

LEMMA NextMonthOK ==
    ASSUME TypeOK, LocalsOK, NextMonth
    PROVE  TypeOK' /\ LocalsOK'
<1>1. now' \in Month
  BY PartnerMoneyAssumption DEF NextMonth, TypeOK, Month
<1> QED
  BY <1>1, Zenon DEF NextMonth, TypeOK, LocalsOK

LEMMA InitOK == Init => TypeOK /\ LocalsOK
<1> SUFFICES ASSUME Init PROVE TypeOK /\ LocalsOK
  OBVIOUS
<1>1. leads \in Seq(Lead) /\ Len(leads) = 0 /\ payments \in Seq(Payment)
  BY EmptySeq DEF Init
<1>2. now \in Month /\ 0 <= MaxLeads
  BY PartnerMoneyAssumption DEF Init, Month
<1>3. /\ earning \in [LeadId -> Earning \cup {NoEarning}]
      /\ event \in [LeadId -> Status \cup {None}]
      /\ call \in [LeadId -> Outcome \cup {None}]
  BY Zenon DEF Init
<1>4. req \in [Worker -> Request] /\ LocalsOK
  BY IdleOK, Zenon DEF Init, LocalsOK
<1> QED
  BY <1>1, <1>2, <1>3, <1>4 DEF TypeOK

LEMMA StepOK == TypeOK /\ LocalsOK /\ [Next]_vars => TypeOK' /\ LocalsOK'
<1> SUFFICES ASSUME TypeOK, LocalsOK, [Next]_vars PROVE TypeOK' /\ LocalsOK'
  OBVIOUS
<1>1. ASSUME NEW w \in Worker, Start(w) PROVE TypeOK' /\ LocalsOK'
  BY <1>1, CaptureOK, ChangeStatusOK, LogCallOK, MarkPaidOK DEF Start
<1>2. ASSUME NEW w \in Worker, Proceed(w) PROVE TypeOK' /\ LocalsOK'
  BY <1>2, CreateLeadOK, FindForLeadOK, FindExistingOK, CreateEarningOK, FindToRevokeOK,
     DeleteEarningOK, UpdateLeadOK, RecordEventOK, CreateCallOK, UpdateCalledOK,
     RecordPaymentOK DEF Proceed
<1>3. CASE UNCHANGED vars
  BY <1>3, Zenon DEF vars, TypeOK, LocalsOK
<1> QED
  BY <1>1, <1>2, <1>3, FailOK, NextMonthOK DEF Next

\* The tables keep rows of the schema and every handler's locals stay good for
\* the write they are kept for, however the handlers interleave and fail.
THEOREM TypeCorrect == Spec => [](TypeOK /\ LocalsOK)
<1>1. TypeOK /\ LocalsOK /\ [Next]_vars => (TypeOK /\ LocalsOK)'
  BY StepOK
<1> QED
  BY <1>1, InitOK, PTL DEF Spec
-----------------------------------------------------------------------------
(* The money.                                                              *)

\* The actions that write a PartnerEarning or a PartnerPayment row.
MoneyStep(w) == CreateEarning(w) \/ DeleteEarning(w) \/ RecordPayment(w)

LEMMA MoneySteps ==
    ASSUME [Next]_vars
    PROVE  \/ UNCHANGED <<earning, payments>>
           \/ \E w \in Worker : MoneyStep(w)
<1>1. ASSUME NEW w \in Worker, Start(w) PROVE UNCHANGED <<earning, payments>>
  BY <1>1 DEF Start, Capture, ChangeStatus, LogCall, MarkPaid
<1>2. ASSUME NEW w \in Worker, Proceed(w), ~ MoneyStep(w)
      PROVE  UNCHANGED <<earning, payments>>
  BY <1>2, Zenon DEF Proceed, MoneyStep, CreateLead, FindForLead, FindExisting, FindToRevoke,
     UpdateLead, RecordEvent, CreateCall, UpdateCalled
<1> QED
  BY <1>1, <1>2 DEF Next, Fail, NextMonth, vars

\* What each of them does to one lead's earning.
LEMMA CreateEarningRow ==
    ASSUME TypeOK, LocalsOK, NEW w \in Worker, CreateEarning(w), NEW l \in LeadId
    PROVE  /\ payments' = payments
           /\ \/ earning'[l] = earning[l]
              \/ /\ l = req[w].lead /\ l \notin Earned
                 /\ earning'[l].partner = leads[l].partner
                 /\ earning'[l].plan = req[w].plan
                 /\ earning'[l].amount = req[w].amount
                 /\ earning'[l].month = req[w].month
                 /\ earning'[l].status = "AWAITING_PAYMENT"
                 /\ earning'[l].payment = 0
<1> DEFINE row == [partner |-> leads[l].partner, plan |-> req[w].plan,
                   amount |-> req[w].amount, month |-> req[w].month,
                   status |-> "AWAITING_PAYMENT", payment |-> 0]
<1>1. /\ payments' = payments
      /\ \/ earning'[l] = earning[l]
         \/ l = req[w].lead /\ l \notin Earned /\ earning'[l] = row
  BY Zenon DEF CreateEarning, TypeOK
<1>2. /\ row.partner = leads[l].partner /\ row.plan = req[w].plan
      /\ row.amount = req[w].amount /\ row.month = req[w].month
      /\ row.status = "AWAITING_PAYMENT" /\ row.payment = 0
  OBVIOUS
<1> HIDE DEF row
<1> QED
  BY <1>1, <1>2, Zenon

LEMMA DeleteEarningRow ==
    ASSUME TypeOK, NEW w \in Worker, DeleteEarning(w), NEW l \in LeadId
    PROVE  /\ payments' = payments
           /\ earning'[l] = earning[l] \/ earning'[l] = NoEarning
  BY Zenon DEF DeleteEarning, TypeOK

LEMMA RecordPaymentRow ==
    ASSUME TypeOK, LocalsOK, NEW w \in Worker, RecordPayment(w), NEW l \in LeadId
    PROVE  /\ DOMAIN payments \subseteq DOMAIN payments'
           /\ \A k \in DOMAIN payments : payments'[k] = payments[k]
           /\ \/ earning'[l] = earning[l]
              \/ /\ earning[l] \in Earning
                 /\ earning[l].status = "AWAITING_PAYMENT"
                 /\ earning'[l] = [earning[l] EXCEPT !.status = "PAID",
                                                     !.payment = Len(payments) + 1]
                 /\ Len(payments) + 1 \in DOMAIN payments'
                 /\ payments'[Len(payments) + 1].partner = earning[l].partner
                 /\ payments'[Len(payments) + 1].month = earning[l].month
<1> DEFINE row == [partner |-> req[w].partner, month |-> req[w].month, owed |-> req[w].owed]
           k   == Len(payments) + 1
<1>1. payments' = Append(payments, row) /\ payments \in Seq(Payment) /\ payments' \in Seq(Payment)
  BY RecordPaymentOK DEF RecordPayment, TypeOK
<1>2. row \in Payment
  <2>1. req[w].partner \in Partner /\ req[w].month \in Month /\ req[w] \in Request
    BY Zenon DEF TypeOK, LocalsOK, LocalOK, RecordPayment
  <2> QED
    BY <2>1 DEF Request, Payment
<1>3. row.partner = req[w].partner /\ row.month = req[w].month
  OBVIOUS
<1> HIDE DEF row
<1>4. /\ Len(payments) \in Nat /\ Len(payments') = k /\ payments'[k] = row
      /\ \A i \in 1..Len(payments) : payments'[i] = payments[i]
      /\ DOMAIN payments = 1..Len(payments) /\ DOMAIN payments' = 1..Len(payments')
  BY <1>1, <1>2, AppendProperties, LenProperties
<1>5. /\ DOMAIN payments \subseteq DOMAIN payments' /\ k \in DOMAIN payments'
      /\ \A i \in DOMAIN payments : payments'[i] = payments[i]
  BY <1>4
<1>6. CASE l \in Settled(req[w].partner, req[w].month)
  <2>1. /\ earning[l] \in Earning /\ earning[l].status = "AWAITING_PAYMENT"
        /\ earning[l].partner = req[w].partner /\ earning[l].month = req[w].month
    BY <1>6 DEF Settled, Awaiting, Earned, TypeOK
  <2>2. earning'[l] = [earning[l] EXCEPT !.status = "PAID", !.payment = k]
    BY <1>6, Zenon DEF RecordPayment
  <2> QED
    BY <1>3, <1>4, <1>5, <2>1, <2>2, Zenon
<1>7. CASE l \notin Settled(req[w].partner, req[w].month)
  BY <1>5, <1>7, Zenon DEF RecordPayment, TypeOK
<1> QED
  BY <1>6, <1>7

LEMMA BackedStep ==
    TypeOK /\ LocalsOK /\ PaidIsBacked /\ [Next]_vars => PaidIsBacked'
<1> SUFFICES ASSUME TypeOK, LocalsOK, PaidIsBacked, [Next]_vars,
                    NEW l \in LeadId, earning'[l] # NoEarning
             PROVE  IF earning'[l].status = "PAID"
                    THEN /\ earning'[l].payment \in DOMAIN payments'
                         /\ payments'[earning'[l].payment].partner = earning'[l].partner
                         /\ payments'[earning'[l].payment].month = earning'[l].month
                    ELSE earning'[l].payment = 0
  BY Zenon DEF PaidIsBacked, Earned
<1> DEFINE Backed(e, pays) ==
             IF e.status = "PAID"
             THEN /\ e.payment \in DOMAIN pays
                  /\ pays[e.payment].partner = e.partner
                  /\ pays[e.payment].month = e.month
             ELSE e.payment = 0
<1>1. earning[l] # NoEarning => Backed(earning[l], payments)
  BY Zenon DEF PaidIsBacked, Earned
<1>2. CASE UNCHANGED <<earning, payments>>
  BY <1>1, <1>2, Zenon
<1>3. ASSUME NEW w \in Worker, CreateEarning(w) PROVE Backed(earning'[l], payments')
  <2>1. CASE earning'[l] = earning[l]
    BY <1>1, <1>3, <2>1, CreateEarningRow, Zenon
  <2>2. CASE earning'[l] # earning[l]
    <3>1. earning'[l].status = "AWAITING_PAYMENT" /\ earning'[l].payment = 0
      BY <1>3, <2>2, CreateEarningRow, Zenon
    <3> QED
      BY <3>1
  <2> QED
    BY <2>1, <2>2
<1>4. ASSUME NEW w \in Worker, DeleteEarning(w) PROVE Backed(earning'[l], payments')
  BY <1>1, <1>4, DeleteEarningRow, Zenon
<1>5. ASSUME NEW w \in Worker, RecordPayment(w) PROVE Backed(earning'[l], payments')
  <2>1. CASE earning'[l] = earning[l]
    <3>1. Backed(earning[l], payments)
      BY <1>1, <2>1
    <3>2. /\ DOMAIN payments \subseteq DOMAIN payments'
          /\ \A k \in DOMAIN payments : payments'[k] = payments[k]
      BY <1>5, RecordPaymentRow, Zenon
    <3> QED
      BY <2>1, <3>1, <3>2, Zenon
  <2>2. CASE earning'[l] # earning[l]
    <3> DEFINE k == Len(payments) + 1
    <3>1. /\ earning[l] \in Earning /\ k \in DOMAIN payments'
          /\ earning'[l] = [earning[l] EXCEPT !.status = "PAID", !.payment = k]
          /\ payments'[k].partner = earning[l].partner
          /\ payments'[k].month = earning[l].month
      BY <1>5, <2>2, RecordPaymentRow, Zenon
    <3> HIDE DEF k
    <3>2. /\ earning'[l].status = "PAID" /\ earning'[l].payment = k
          /\ earning'[l].partner = earning[l].partner /\ earning'[l].month = earning[l].month
      BY <3>1 DEF Earning
    <3> QED
      BY <3>1, <3>2
  <2> QED
    BY <2>1, <2>2
<1> QED
  BY <1>2, <1>3, <1>4, <1>5, MoneySteps DEF MoneyStep

\* Money marked PAID always has a payment of the same partner and month behind
\* it, and money still owed has none: whatever races, recordPayment's single
\* transaction never leaves one without the other.
THEOREM PaidAlwaysBacked == Spec => []PaidIsBacked
<1>1. Init => PaidIsBacked
  BY DEF Init, PaidIsBacked, Earned
<1> QED
  BY <1>1, BackedStep, TypeCorrect, PTL DEF Spec

\* A quoted amount survives until it is written, so what a partner earned is what
\* the rate card said in the month of the conversion, for every rate card.
THEOREM AmountAlwaysInForce == Spec => []AmountIsRateInForce
<1>1. Init => AmountIsRateInForce
  BY DEF Init, AmountIsRateInForce, Earned
<1>2. TypeOK /\ LocalsOK /\ AmountIsRateInForce /\ [Next]_vars => AmountIsRateInForce'
  <2> DEFINE Quoted(e) == RateInForce(e.partner, e.plan, e.month, e.amount)
  <2> SUFFICES ASSUME TypeOK, LocalsOK, AmountIsRateInForce, [Next]_vars,
                      NEW l \in LeadId, earning'[l] # NoEarning
               PROVE  Quoted(earning'[l])
    BY Zenon DEF AmountIsRateInForce, Earned, RateInForce
  <2>1. earning[l] # NoEarning => Quoted(earning[l])
    BY Zenon DEF AmountIsRateInForce, Earned
  <2>2. ASSUME NEW w \in Worker, CreateEarning(w) PROVE Quoted(earning'[l])
    <3>1. CASE earning'[l] = earning[l]
      BY <2>1, <3>1
    <3>2. CASE earning'[l] # earning[l]
      <4>1. RateInForce(leads[l].partner, req[w].plan, req[w].month, req[w].amount)
        BY <2>2, <3>2, CreateEarningRow, Zenon DEF CreateEarning, LocalsOK, LocalOK
      <4>2. /\ earning'[l].partner = leads[l].partner /\ earning'[l].plan = req[w].plan
            /\ earning'[l].month = req[w].month /\ earning'[l].amount = req[w].amount
        BY <2>2, <3>2, CreateEarningRow, Zenon
      <4> QED
        BY <4>1, <4>2, Zenon
    <3> QED
      BY <3>1, <3>2
  <2>3. ASSUME NEW w \in Worker, DeleteEarning(w) PROVE Quoted(earning'[l])
    BY <2>1, <2>3, DeleteEarningRow, Zenon
  <2>4. ASSUME NEW w \in Worker, RecordPayment(w) PROVE Quoted(earning'[l])
    <3>1. CASE earning'[l] = earning[l]
      BY <2>1, <3>1
    <3>2. CASE earning'[l] # earning[l]
      <4>1. /\ earning[l] \in Earning /\ earning[l].status = "AWAITING_PAYMENT"
            /\ earning'[l] = [earning[l] EXCEPT !.status = "PAID",
                                                !.payment = Len(payments) + 1]
        BY <2>4, <3>2, RecordPaymentRow, Zenon
      <4>2. /\ earning'[l].partner = earning[l].partner /\ earning'[l].plan = earning[l].plan
            /\ earning'[l].month = earning[l].month /\ earning'[l].amount = earning[l].amount
        BY <4>1 DEF Earning
      <4>3. earning[l] # NoEarning
        BY <4>1 DEF NoEarning
      <4> QED
        BY <2>1, <4>2, <4>3, Zenon
    <3> QED
      BY <3>1, <3>2
  <2>5. CASE UNCHANGED <<earning, payments>>
    BY <2>1, <2>5, Zenon
  <2> QED
    BY <2>2, <2>3, <2>4, <2>5, MoneySteps DEF MoneyStep
<1> QED
  BY <1>1, <1>2, TypeCorrect, PTL DEF Spec

\* No step, of any handler in any order, rewrites a figure of an earning or
\* re-stamps a paid one.
THEOREM EarningsAreFrozen == Spec => EarningIsFrozen
<1> DEFINE Frozen(l) ==
      l \in Earned /\ l \in Earned' =>
          IF earning[l].status = "PAID" THEN earning'[l] = earning[l]
          ELSE earning'[l] = [earning[l] EXCEPT !.status = earning'[l].status,
                                                !.payment = earning'[l].payment]
<1>1. TypeOK /\ LocalsOK /\ [Next]_vars => [\A l \in LeadId : Frozen(l)]_vars
  <2> SUFFICES ASSUME TypeOK, LocalsOK, [Next]_vars, NEW l \in LeadId,
                      l \in Earned, l \in Earned'
               PROVE  IF earning[l].status = "PAID" THEN earning'[l] = earning[l]
                      ELSE earning'[l] = [earning[l] EXCEPT !.status = earning'[l].status,
                                                            !.payment = earning'[l].payment]
    OBVIOUS
  <2>1. earning[l] \in Earning
    BY DEF TypeOK, Earned
  <2>2. CASE earning'[l] = earning[l]
    BY <2>1, <2>2 DEF Earning
  <2>3. ASSUME NEW w \in Worker, MoneyStep(w), earning'[l] # earning[l]
        PROVE  /\ earning[l].status = "AWAITING_PAYMENT"
               /\ earning'[l] = [earning[l] EXCEPT !.status = "PAID",
                                                   !.payment = Len(payments) + 1]
    <3>1. ~ CreateEarning(w)
      BY <2>3, CreateEarningRow
    <3>2. ~ DeleteEarning(w)
      BY <2>3, DeleteEarningRow, Zenon DEF Earned
    <3> QED
      BY <2>3, <3>1, <3>2, RecordPaymentRow, Zenon DEF MoneyStep
  <2>4. CASE earning'[l] # earning[l]
    <3>1. PICK w \in Worker : MoneyStep(w)
      BY <2>4, MoneySteps
    <3>2. /\ earning[l].status = "AWAITING_PAYMENT"
          /\ earning'[l] = [earning[l] EXCEPT !.status = "PAID",
                                              !.payment = Len(payments) + 1]
      BY <2>3, <2>4, <3>1
    <3> QED
      BY <2>1, <3>2 DEF Earning
  <2> QED
    BY <2>2, <2>4
<1>2. [][\A l \in LeadId : Frozen(l)]_vars => EarningIsFrozen
  BY DEF EarningIsFrozen
<1> QED
  BY <1>1, <1>2, TypeCorrect, PTL DEF Spec
-----------------------------------------------------------------------------
(* The claims.                                                             *)

\* The actions that write a Lead row.
LeadStep(w) == CreateLead(w) \/ UpdateLead(w) \/ UpdateCalled(w)

LEMMA LeadSteps ==
    ASSUME [Next]_vars
    PROVE  UNCHANGED leads \/ \E w \in Worker : LeadStep(w)
<1>1. ASSUME NEW w \in Worker, Start(w) PROVE UNCHANGED leads
  BY <1>1 DEF Start, Capture, ChangeStatus, LogCall, MarkPaid
<1>2. ASSUME NEW w \in Worker, Proceed(w), ~ LeadStep(w) PROVE UNCHANGED leads
  BY <1>2, Zenon DEF Proceed, LeadStep, FindForLead, FindExisting, CreateEarning, FindToRevoke,
     DeleteEarning, RecordEvent, CreateCall, RecordPayment
<1> QED
  BY <1>1, <1>2 DEF Next, Fail, NextMonth, vars

\* A row written in place keeps the claim it points at.
LEMMA InPlace ==
    ASSUME TypeOK, LocalsOK, NEW w \in Worker, UpdateLead(w) \/ UpdateCalled(w)
    PROVE  /\ DOMAIN leads' = DOMAIN leads
           /\ \A l \in DOMAIN leads : /\ leads'[l].duplicateOf = leads[l].duplicateOf
                                      /\ leads'[l].mobile = leads[l].mobile
<1>1. Keeps(leads, leads') /\ DOMAIN leads' = DOMAIN leads
  BY UpdateLeadOK, UpdateCalledOK, LenProperties DEF TypeOK
<1>2. ASSUME NEW l \in DOMAIN leads PROVE leads'[l].duplicateOf = leads[l].duplicateOf
  <2>1. leads[l] \in Lead
    BY ElementOfSeq, LenProperties DEF TypeOK
  <2>2. CASE UpdateLead(w)
    <3>1. leads'[l] \in {leads[l], [leads[l] EXCEPT !.status = req[w].to]}
      BY <2>2, Zenon DEF UpdateLead
    <3> QED
      BY <2>1, <3>1 DEF Lead
  <2>3. CASE UpdateCalled(w)
    BY <2>1, <2>3 DEF UpdateCalled, Lead
  <2> QED
    BY <2>2, <2>3
<1> QED
  BY <1>1, <1>2 DEF Keeps

\* Every duplicate points back, within one customer, also when two partners send
\* the same customer at the same time.
THEOREM ClaimChainHolds == Spec => []ClaimChain
<1>1. Init => ClaimChain
  BY EmptySeq DEF Init, ClaimChain
<1>2. TypeOK /\ LocalsOK /\ ClaimChain /\ [Next]_vars => ClaimChain'
  <2> SUFFICES ASSUME TypeOK, LocalsOK, ClaimChain, [Next]_vars,
                      NEW l \in DOMAIN leads', leads'[l].duplicateOf # 0
               PROVE  /\ leads'[l].duplicateOf < l
                      /\ leads'[leads'[l].duplicateOf].mobile = leads'[l].mobile
    BY DEF ClaimChain
  <2>1. ASSUME NEW k \in DOMAIN leads, leads[k].duplicateOf # 0
        PROVE  /\ leads[k].duplicateOf \in DOMAIN leads
               /\ leads[k].duplicateOf < k
               /\ leads[leads[k].duplicateOf].mobile = leads[k].mobile
    <3>1. leads[k] \in Lead /\ DOMAIN leads = 1..Len(leads) /\ Len(leads) \in Nat
      BY ElementOfSeq, LenProperties DEF TypeOK
    <3>2. leads[k].duplicateOf < k /\ leads[leads[k].duplicateOf].mobile = leads[k].mobile
      BY <2>1 DEF ClaimChain
    <3> QED
      BY <2>1, <3>1, <3>2, PartnerMoneyAssumption DEF Lead
  <2>2. CASE UNCHANGED leads
    BY <2>1, <2>2
  <2>3. ASSUME NEW w \in Worker, UpdateLead(w) \/ UpdateCalled(w)
        PROVE  /\ leads'[l].duplicateOf < l
               /\ leads'[leads'[l].duplicateOf].mobile = leads'[l].mobile
    BY <2>1, <2>3, InPlace
  <2>4. ASSUME NEW w \in Worker, CreateLead(w)
        PROVE  /\ leads'[l].duplicateOf < l
               /\ leads'[leads'[l].duplicateOf].mobile = leads'[l].mobile
    <3> DEFINE r   == req[w]
               row == [partner |-> r.partner, mobile |-> r.mobile,
                       status |-> IF r.lead = 0 THEN "NEW" ELSE "DUPLICATE",
                       nextCall |-> FALSE, duplicateOf |-> r.lead]
    <3>1. /\ leads' = Append(leads, row) /\ row.duplicateOf = r.lead /\ row.mobile = r.mobile
      BY <2>4 DEF CreateLead
    <3>2. leads' \in Seq(Lead) /\ leads \in Seq(Lead)
      BY <2>4, CreateLeadOK DEF TypeOK
    <3> HIDE DEF row
    <3>3. row \in Lead
      <4>1. r \in Request /\ r.partner \in Partner /\ r.mobile \in Mobile
        BY <2>4 DEF TypeOK, LocalsOK, LocalOK, CreateLead
      <4> QED
        BY <4>1 DEF row, Lead, Request, Status
    <3>4. /\ Len(leads) \in Nat /\ Len(leads') = Len(leads) + 1
          /\ leads'[Len(leads) + 1] = row
          /\ \A i \in 1..Len(leads) : leads'[i] = leads[i]
          /\ DOMAIN leads = 1..Len(leads) /\ DOMAIN leads' = 1..Len(leads')
      BY <3>1, <3>2, <3>3, AppendProperties, LenProperties
    <3>5. CASE l \in DOMAIN leads
      BY <2>1, <3>4, <3>5
    <3>6. CASE l \notin DOMAIN leads
      <4>1. l = Len(leads) + 1 /\ leads'[l] = row
        BY <3>4, <3>6
      <4>2. r.lead \in DOMAIN leads /\ leads[r.lead].mobile = r.mobile
        BY <2>4, <3>1, <4>1 DEF CreateLead, LocalsOK, LocalOK
      <4> QED
        BY <3>1, <3>4, <4>1, <4>2
    <3> QED
      BY <3>5, <3>6
  <2> QED
    BY <2>2, <2>3, <2>4, LeadSteps DEF LeadStep
<1> QED
  BY <1>1, <1>2, TypeCorrect, PTL DEF Spec

-----------------------------------------------------------------------------
(* Requests that come in turn.  Alone, a handler may rely on what it read: *)
(* the invariant says for every place a handler can be at what it knows of *)
(* the lead, the earning and the claims that its next write goes by.       *)

\* Requests are taken one at a time.
OneAtATime == \A v, w \in Worker : v = w

\* Where a handler has read a lead and not written it yet.
Judging == {"find_for_lead", "find_existing", "create_earning", "find_to_revoke",
            "delete_earning", "update_lead", "create_call", "update_called"}
Converting == {"find_for_lead", "find_existing", "create_earning"}
Revoking == {"find_to_revoke", "delete_earning"}

\* What the handler with locals r has read is still so.
Fresh(r) ==
    /\ r.at \in Judging => r.seen = leads[r.lead].status
    /\ r.at \in Converting => r.to = "CONVERTED"
    /\ r.at \in Revoking => r.seen = "CONVERTED" /\ r.to # "CONVERTED"
    /\ r.at = "delete_earning" => r.lead \in Earned /\ earning[r.lead].status = "AWAITING_PAYMENT"
    /\ r.at = "update_lead" =>
          IF r.to = "CONVERTED" THEN r.lead \in Earned
          ELSE r.seen = "CONVERTED" => r.lead \notin Earned
    /\ r.at \in {"create_call", "update_called"} => r.to = OutcomeStatus[r.outcome]
    /\ r.at = "create_lead" => r.lead = FindOpen(r.mobile)
    /\ r.at = "record_payment" => r.owed = Owed(r.partner, r.month) /\ r.owed # {}

AllFresh == \A w \in Worker : Fresh(req[w])

InOrder == TypeOK /\ LocalsOK /\ AllFresh

-----------------------------------------------------------------------------
(* What the steps do to the locals and the leads.                          *)

\* Alone, a request's locals are the only ones.
LEMMA OnlyOne ==
    ASSUME OneAtATime, NEW w \in Worker, Fresh(req[w])'
    PROVE  AllFresh'
BY DEF OneAtATime, AllFresh

LEMMA IdleIsFresh ==
    ASSUME TypeOK, NEW w \in Worker, Finish(w)
    PROVE  req'[w] = Idle /\ Fresh(req[w])'
<1>1. req'[w] = Idle
  BY DEF Finish, TypeOK
<1>2. Idle.at = "idle"
  BY DEF Idle
<1> QED
  BY <1>1, <1>2 DEF Fresh, Judging, Converting, Revoking

LEMMA UpdateLocals ==
    ASSUME TypeOK, NEW w \in Worker, ToUpdate(w)
    PROVE  /\ req'[w].at = "update_lead" /\ req'[w].lead = req[w].lead
           /\ req'[w].seen = req[w].seen /\ req'[w].to = req[w].to
BY DEF ToUpdate, Continue, TypeOK, Idle

LEMMA GotoLocals ==
    ASSUME TypeOK, NEW w \in Worker, NEW step, Goto(w, step)
    PROVE  /\ req'[w].at = step /\ req'[w].lead = req[w].lead
           /\ req'[w].seen = req[w].seen /\ req'[w].to = req[w].to
           /\ req'[w].outcome = req[w].outcome
BY DEF Goto, TypeOK, Request

\* updateStatus writes one status.
LEMMA StatusWritten ==
    ASSUME TypeOK, LocalsOK, NEW w \in Worker, UpdateLead(w)
    PROVE  /\ DOMAIN leads' = DOMAIN leads /\ req[w].lead \in DOMAIN leads
           /\ leads'[req[w].lead].status = req[w].to
           /\ leads'[req[w].lead].nextCall = leads[req[w].lead].nextCall
           /\ leads'[req[w].lead].mobile = leads[req[w].lead].mobile
           /\ \A l \in DOMAIN leads : l # req[w].lead => leads'[l] = leads[l]
<1> DEFINE l == req[w].lead
<1>1. l \in DOMAIN leads /\ leads[l] \in Lead
  BY AtLead DEF UpdateLead
<1>2. leads' = [leads EXCEPT ![l] = [leads[l] EXCEPT !.status = req[w].to]]
  BY DEF UpdateLead
<1>3. DOMAIN leads' = DOMAIN leads
  BY <1>2
<1>4. leads'[l] = [leads[l] EXCEPT !.status = req[w].to]
  BY <1>1, <1>2
<1>5. \A k \in DOMAIN leads : k # l => leads'[k] = leads[k]
  BY <1>2
<1> QED
  BY <1>1, <1>3, <1>4, <1>5 DEF Lead

\* After a call the lead's next call is set, and its status if the call moves it.
LEMMA CallWritten ==
    ASSUME TypeOK, LocalsOK, NEW w \in Worker, UpdateCalled(w)
    PROVE  /\ DOMAIN leads' = DOMAIN leads /\ req[w].lead \in DOMAIN leads
           /\ leads'[req[w].lead].status =
                 IF CallMoves(req[w].seen, req[w].to) THEN req[w].to ELSE leads[req[w].lead].status
           /\ leads'[req[w].lead].nextCall = CallsBack(req[w].outcome)
           /\ leads'[req[w].lead].mobile = leads[req[w].lead].mobile
           /\ \A l \in DOMAIN leads : l # req[w].lead => leads'[l] = leads[l]
<1> DEFINE l == req[w].lead
           status == IF CallMoves(req[w].seen, req[w].to) THEN req[w].to ELSE leads[l].status
           back == CallsBack(req[w].outcome)
<1>1. l \in DOMAIN leads /\ leads[l] \in Lead
  BY AtLead DEF UpdateCalled
<1>2. leads' = [leads EXCEPT ![l].status = status, ![l].nextCall = back]
  BY DEF UpdateCalled
<1> HIDE DEF status, back
<1>3. leads' = [leads EXCEPT ![l] = [leads[l] EXCEPT !.status = status, !.nextCall = back]]
  BY <1>1, <1>2 DEF Lead
<1>4. DOMAIN leads' = DOMAIN leads
  BY <1>3
<1>5. leads'[l] = [leads[l] EXCEPT !.status = status, !.nextCall = back]
  BY <1>1, <1>3
<1>6. \A k \in DOMAIN leads : k # l => leads'[k] = leads[k]
  BY <1>3
<1>7. leads'[l].status = status /\ leads'[l].nextCall = back /\ leads'[l].mobile = leads[l].mobile
  BY <1>1, <1>5 DEF Lead
<1> QED
  BY <1>1, <1>4, <1>6, <1>7 DEF status, back

\* A captured lead comes last, without an event yet.
LEMMA LeadAdded ==
    ASSUME TypeOK, LocalsOK, NEW w \in Worker, CreateLead(w)
    PROVE  LET new == Len(leads) + 1 IN
           /\ DOMAIN leads' = DOMAIN leads \cup {new} /\ new \notin DOMAIN leads /\ new \in LeadId
           /\ leads'[new].status = (IF req[w].lead = 0 THEN "NEW" ELSE "DUPLICATE")
           /\ leads'[new].nextCall = FALSE /\ leads'[new].mobile = req[w].mobile
           /\ \A l \in DOMAIN leads : leads'[l] = leads[l]
           /\ req'[w].at = "record_event" /\ req'[w].lead = new /\ req'[w].to = leads'[new].status
<1> DEFINE r == req[w]
           new == Len(leads) + 1
           status == IF r.lead = 0 THEN "NEW" ELSE "DUPLICATE"
           row == [partner |-> r.partner, mobile |-> r.mobile, status |-> status,
                   nextCall |-> FALSE, duplicateOf |-> r.lead]
<1>1. /\ leads' = Append(leads, row) /\ row.status = status /\ row.mobile = r.mobile /\ row.nextCall = FALSE
      /\ Len(leads) < MaxLeads
  BY DEF CreateLead
<1>2. leads \in Seq(Lead) /\ MaxLeads \in Nat
  BY PartnerMoneyAssumption DEF TypeOK
<1>3. row \in Lead
  <2>1. r \in Request /\ r.partner \in Partner /\ r.mobile \in Mobile
    BY DEF TypeOK, LocalsOK, LocalOK, CreateLead
  <2> QED
    BY <2>1 DEF Lead, Request, Status
<1>4. req' = [req EXCEPT ![w] = [Idle EXCEPT !.at = "record_event", !.to = status, !.lead = new]]
  BY DEF CreateLead, Continue
<1>5. req'[w].at = "record_event" /\ req'[w].lead = new /\ req'[w].to = status
  <2> HIDE DEF new, status
  <2> QED
    BY <1>4 DEF TypeOK, Idle
<1> HIDE DEF row
<1>6. /\ Len(leads) \in Nat /\ Len(leads') = new /\ leads'[new] = row
      /\ \A i \in 1 .. Len(leads) : leads'[i] = leads[i]
      /\ DOMAIN leads = 1 .. Len(leads) /\ DOMAIN leads' = 1 .. Len(leads')
  <2>1. leads' \in Seq(Lead)
    BY CreateLeadOK DEF TypeOK
  <2> QED
    BY <1>1, <1>2, <1>3, <2>1, AppendProperties, LenProperties
<1>7. /\ DOMAIN leads' = DOMAIN leads \cup {new} /\ new \notin DOMAIN leads /\ new \in LeadId
      /\ \A l \in DOMAIN leads : leads'[l] = leads[l]
  BY <1>1, <1>2, <1>6 DEF LeadId
<1> HIDE DEF new, status
<1> QED
  BY <1>1, <1>5, <1>6, <1>7 DEF new, status
-----------------------------------------------------------------------------
(* Alone, a handler's locals stay fresh.                                   *)

LEMMA StartFresh ==
    ASSUME InOrder, NEW w \in Worker, Start(w)
    PROVE  Fresh(req[w])'
<1> USE DEF Judging, Converting, Revoking
<1>1. ASSUME NEW p \in Partner, NEW m \in Mobile, Capture(w, p, m)
      PROVE  Fresh(req[w])'
  <2>1. req'[w].at = "create_lead" /\ req'[w].mobile = m /\ req'[w].lead = FindOpen(m)
    BY <1>1 DEF Capture, Continue, InOrder, TypeOK, Idle
  <2>2. FindOpen(m)' = FindOpen(m)
    BY <1>1 DEF Capture, FindOpen, OpenClaims
  <2> QED
    BY <2>1, <2>2 DEF Fresh
<1>2. ASSUME NEW l \in LeadId, NEW to \in Targets, NEW plan \in Plan \cup {None}, ChangeStatus(w, l, to, plan)
      PROVE  Fresh(req[w])'
  <2>1. /\ req'[w].at = NextStep(leads[l].status, to) /\ req'[w].lead = l
        /\ req'[w].seen = leads[l].status /\ req'[w].to = to
    BY <1>2 DEF ChangeStatus, Continue, InOrder, TypeOK, Idle
  <2>2. UNCHANGED <<leads, earning>>
    BY <1>2 DEF ChangeStatus
  <2>3. /\ NextStep(leads[l].status, to) \in {"find_for_lead", "find_to_revoke", "update_lead"}
        /\ NextStep(leads[l].status, to) = "find_for_lead" => to = "CONVERTED"
        /\ NextStep(leads[l].status, to) = "find_to_revoke" => to # "CONVERTED" /\ leads[l].status = "CONVERTED"
        /\ NextStep(leads[l].status, to) = "update_lead" => to # "CONVERTED" /\ leads[l].status # "CONVERTED"
    BY DEF NextStep
  <2> QED
    BY <2>1, <2>2, <2>3 DEF Fresh
<1>3. ASSUME NEW l \in LeadId, NEW o \in Outcomes, LogCall(w, l, o)
      PROVE  Fresh(req[w])'
  <2>1. /\ req'[w].at = "create_call" /\ req'[w].lead = l /\ req'[w].seen = leads[l].status
        /\ req'[w].to = OutcomeStatus[o] /\ req'[w].outcome = o /\ leads' = leads
    BY <1>3 DEF LogCall, Continue, InOrder, TypeOK, Idle
  <2> QED
    BY <2>1 DEF Fresh
<1>4. ASSUME NEW p \in Partner, NEW month \in Month, MarkPaid(w, p, month)
      PROVE  Fresh(req[w])'
  <2>1. /\ req'[w].at = "record_payment" /\ req'[w].partner = p /\ req'[w].month = month
        /\ req'[w].owed = Owed(p, month) /\ Owed(p, month) # {}
    BY <1>4 DEF MarkPaid, Continue, InOrder, TypeOK, Idle
  <2>2. Owed(p, month)' = Owed(p, month)
    BY <1>4 DEF MarkPaid, Owed, Awaiting, Earned
  <2> QED
    BY <2>1, <2>2 DEF Fresh
<1> QED
  BY <1>1, <1>2, <1>3, <1>4 DEF Start

\* The steps that leave the lead and its earning alone.
LEMMA LookFresh ==
    ASSUME InOrder, NEW w \in Worker, FindForLead(w) \/ FindExisting(w) \/ FindToRevoke(w)
    PROVE  Fresh(req[w])'
<1> USE DEF Judging, Converting, Revoking
<1>1. UNCHANGED <<leads, earning>> /\ TypeOK /\ Fresh(req[w]) /\ req[w] \in Request
  BY DEF FindForLead, FindExisting, FindToRevoke, InOrder, AllFresh, TypeOK
<1>2. CASE Finish(w)
  BY <1>1, <1>2, IdleIsFresh
<1>3. CASE ToUpdate(w)
  <2>1. /\ req[w].at \in Converting => req[w].lead \in Earned
        /\ req[w].at = "find_to_revoke" => req[w].lead \notin Earned
        /\ req[w].at \in {"find_for_lead", "find_existing", "find_to_revoke"}
    <3>1. req[w].lead \in LeadId
      BY AtLead DEF FindForLead, FindExisting, FindToRevoke, InOrder
    <3>2. ASSUME FindForLead(w) \/ FindExisting(w)
          PROVE  req[w].lead \in Earned /\ req[w].at \in {"find_for_lead", "find_existing"}
      <4>1. req'[w].at = "update_lead"
        BY <1>1, <1>3, UpdateLocals
      <4>2. ~Finish(w)
        BY <1>1, <4>1, IdleIsFresh DEF Idle
      <4>3. ASSUME NEW r, r.at # "update_lead" PROVE ~Continue(w, r)
        BY <1>1, <4>1, <4>3 DEF Continue, TypeOK
      <4>4. /\ [req[w] EXCEPT !.at = "find_existing", !.month = now].at # "update_lead"
            /\ \A a : [req[w] EXCEPT !.at = "create_earning", !.amount = a].at # "update_lead"
        BY <1>1 DEF Request
      <4>5. /\ ~Continue(w, [req[w] EXCEPT !.at = "find_existing", !.month = now])
            /\ \A a : ~Continue(w, [req[w] EXCEPT !.at = "create_earning", !.amount = a])
        BY <4>3, <4>4
      <4> QED
        BY <1>1, <3>2, <4>2, <4>5 DEF FindForLead, FindExisting
    <3>3. ASSUME FindToRevoke(w)
          PROVE  req[w].lead \notin Earned /\ req[w].at = "find_to_revoke"
      <4>1. req'[w].at = "update_lead"
        BY <1>1, <1>3, UpdateLocals
      <4>2. ~Finish(w)
        BY <1>1, <4>1, IdleIsFresh DEF Idle
      <4>3. ~Goto(w, "delete_earning")
        BY <1>1, <4>1, GotoLocals
      <4> QED
        BY <3>3, <4>2, <4>3 DEF FindToRevoke, Earned
    <3> QED
      BY <3>2, <3>3
  <2> QED
    BY <1>1, <1>3, <2>1, UpdateLocals DEF Fresh, Earned
<1>4. CASE FindForLead(w) /\ Continue(w, [req[w] EXCEPT !.at = "find_existing", !.month = now])
  <2>1. /\ req'[w].at = "find_existing" /\ req'[w].lead = req[w].lead
        /\ req'[w].seen = req[w].seen /\ req'[w].to = req[w].to
    BY <1>1, <1>4 DEF Continue, TypeOK, Request
  <2>2. req[w].at = "find_for_lead"
    BY <1>4 DEF FindForLead
  <2> QED
    BY <1>1, <2>1, <2>2 DEF Fresh
<1>5. ASSUME FindExisting(w), NEW amount,
             Continue(w, [req[w] EXCEPT !.at = "create_earning", !.amount = amount])
      PROVE  Fresh(req[w])'
  <2>1. /\ req'[w].at = "create_earning" /\ req'[w].lead = req[w].lead
        /\ req'[w].seen = req[w].seen /\ req'[w].to = req[w].to
    BY <1>1, <1>5 DEF Continue, TypeOK, Request
  <2>2. req[w].at = "find_existing"
    BY <1>5 DEF FindExisting
  <2> QED
    BY <1>1, <2>1, <2>2 DEF Fresh
<1>6. CASE FindToRevoke(w) /\ earning[req[w].lead].status = "AWAITING_PAYMENT" /\ Goto(w, "delete_earning")
  <2>1. /\ req'[w].at = "delete_earning" /\ req'[w].lead = req[w].lead
        /\ req'[w].seen = req[w].seen /\ req'[w].to = req[w].to
    BY <1>1, <1>6, GotoLocals
  <2>2. req[w].at = "find_to_revoke" /\ req[w].lead \in LeadId
    BY <1>6, AtLead DEF FindToRevoke, InOrder
  <2>3. req[w].lead \in Earned
    BY <1>6, <2>2 DEF Earned, NoEarning
  <2> QED
    BY <1>1, <1>6, <2>1, <2>2, <2>3 DEF Fresh, Earned
<1> QED
  BY <1>2, <1>3, <1>4, <1>5, <1>6 DEF FindForLead, FindExisting, FindToRevoke

LEMMA EarningFresh ==
    ASSUME InOrder, NEW w \in Worker, CreateEarning(w) \/ DeleteEarning(w)
    PROVE  Fresh(req[w])'
<1> USE DEF Judging, Converting, Revoking
<1>1. /\ leads' = leads /\ TypeOK /\ Fresh(req[w]) /\ req[w].lead \in LeadId
      /\ req[w].at \in {"create_earning", "delete_earning"}
  BY AtLead DEF CreateEarning, DeleteEarning, InOrder, AllFresh
<1>2. CASE Finish(w)
  BY <1>1, <1>2, IdleIsFresh
<1>3. CASE CreateEarning(w) /\ ToUpdate(w) /\ ~Finish(w)
  <2>1. earning'[req[w].lead] # NoEarning /\ req[w].at = "create_earning"
    <3> DEFINE row == [partner |-> leads[req[w].lead].partner, plan |-> req[w].plan,
                       amount |-> req[w].amount, month |-> req[w].month,
                       status |-> "AWAITING_PAYMENT", payment |-> 0]
    <3>1. row.status = "AWAITING_PAYMENT" /\ NoEarning.status = "NONE"
      BY DEF NoEarning
    <3>2. earning' = [earning EXCEPT ![req[w].lead] = row] /\ req[w].at = "create_earning"
      BY <1>3 DEF CreateEarning
    <3> HIDE DEF row
    <3>3. earning'[req[w].lead] = row
      BY <1>1, <3>2 DEF TypeOK
    <3> QED
      BY <3>1, <3>2, <3>3
  <2> QED
    BY <1>1, <1>3, <2>1, UpdateLocals DEF Fresh, Earned
<1>4. CASE DeleteEarning(w)
  <2>1. earning'[req[w].lead] = NoEarning /\ req[w].at = "delete_earning" /\ ToUpdate(w)
    BY <1>1, <1>4 DEF DeleteEarning, TypeOK
  <2> QED
    BY <1>1, <2>1, UpdateLocals DEF Fresh, Earned
<1> QED
  BY <1>2, <1>3, <1>4 DEF CreateEarning

LEMMA WriteFresh ==
    ASSUME InOrder, NEW w \in Worker,
           CreateLead(w) \/ UpdateLead(w) \/ UpdateCalled(w) \/ CreateCall(w) \/ RecordEvent(w) \/ RecordPayment(w)
    PROVE  Fresh(req[w])'
<1> USE DEF Judging, Converting, Revoking
<1>1. TypeOK /\ LocalsOK /\ Fresh(req[w])
  BY DEF InOrder, AllFresh
<1>2. CASE Finish(w)
  BY <1>1, <1>2, IdleIsFresh
<1>3. CASE CreateLead(w)
  BY <1>1, <1>3, LeadAdded DEF Fresh
<1>4. CASE Goto(w, "record_event")
  BY <1>1, <1>4, GotoLocals DEF Fresh
<1>5. CASE CreateCall(w)
  <2>1. leads' = leads /\ Goto(w, "update_called") /\ req[w].at = "create_call"
    BY <1>5 DEF CreateCall
  <2> QED
    BY <1>1, <2>1, GotoLocals DEF Fresh
<1> QED
  BY <1>2, <1>3, <1>4, <1>5 DEF UpdateLead, UpdateCalled, RecordEvent, RecordPayment

LEMMA InOrderStep == OneAtATime /\ InOrder /\ [Next]_vars => InOrder'
<1> SUFFICES ASSUME OneAtATime, InOrder, [Next]_vars PROVE AllFresh'
  BY StepOK DEF InOrder
<1>1. ASSUME NEW w \in Worker, Start(w) PROVE AllFresh'
  BY <1>1, StartFresh, OnlyOne
<1>2. ASSUME NEW w \in Worker, Proceed(w) PROVE AllFresh'
  BY <1>2, LookFresh, EarningFresh, WriteFresh, OnlyOne DEF Proceed
<1>3. ASSUME NEW w \in Worker, Fail(w) PROVE AllFresh'
  BY <1>3, IdleIsFresh, OnlyOne DEF Fail, InOrder
<1>4. CASE UNCHANGED <<leads, earning, req>>
  BY <1>4 DEF InOrder, AllFresh, Fresh, FindOpen, OpenClaims, Owed, Awaiting, Earned
<1> QED
  BY <1>1, <1>2, <1>3, <1>4 DEF Next, NextMonth, vars

LEMMA InOrderInit == Init => InOrder
<1> SUFFICES ASSUME Init PROVE AllFresh
  BY InitOK DEF InOrder
<1>1. \A w \in Worker : req[w].at = "idle"
  BY DEF Init, Idle
<1> QED
  BY <1>1 DEF AllFresh, Fresh, Judging, Converting, Revoking
-----------------------------------------------------------------------------
(* The money.                                                              *)

\* What a handler that is alone deletes is owed still.
LEMMA DeletesWhatIsOwed ==
    ASSUME InOrder, NEW w \in Worker, DeleteEarning(w)
    PROVE  /\ req[w].lead \in LeadId /\ req[w].lead \in Earned
           /\ earning[req[w].lead].status = "AWAITING_PAYMENT"
           /\ earning' = [earning EXCEPT ![req[w].lead] = NoEarning] /\ payments' = payments
BY AtLead DEF DeleteEarning, InOrder, AllFresh, Fresh

\* The payment appended, and what it settles.
LEMMA PaymentAdded ==
    ASSUME InOrder, NEW w \in Worker, RecordPayment(w)
    PROVE  LET due == Awaiting(req[w].partner, req[w].month)
               no == Len(payments) + 1
               row == [partner |-> req[w].partner, month |-> req[w].month, owed |-> due]
           IN  /\ due # {} /\ req[w].partner \in Partner /\ req[w].month \in Month
               /\ payments' = Append(payments, row)
               /\ DOMAIN payments' = DOMAIN payments \cup {no} /\ no \in Nat \ {0} /\ no \notin DOMAIN payments
               /\ payments'[no].owed = due /\ \A k \in DOMAIN payments : payments'[k] = payments[k]
               /\ earning' = [l \in LeadId |-> IF l \in due THEN [earning[l] EXCEPT !.status = "PAID", !.payment = no]
                                               ELSE earning[l]]
<1> DEFINE due == Awaiting(req[w].partner, req[w].month)
           no == Len(payments) + 1
           row == [partner |-> req[w].partner, month |-> req[w].month, owed |-> due]
<1>1. req[w].at = "record_payment" /\ req[w].owed = due /\ due # {}
  BY DEF RecordPayment, InOrder, AllFresh, Fresh, Owed
<1>2. req[w].partner \in Partner /\ req[w].month \in Month
  BY <1>1 DEF InOrder, LocalsOK, LocalOK
<1>3. payments' = Append(payments, row)
  BY <1>1 DEF RecordPayment
<1>4. earning' = [l \in LeadId |-> IF l \in due THEN [earning[l] EXCEPT !.status = "PAID", !.payment = no]
                                   ELSE earning[l]]
  BY DEF RecordPayment, Settled
<1>5. row \in Payment /\ row.owed = due
  BY <1>2 DEF Payment, Awaiting, Earned
<1>6. payments \in Seq(Payment) /\ payments' \in Seq(Payment)
  BY RecordPaymentOK DEF InOrder, TypeOK
<1> HIDE DEF row
<1>7. /\ Len(payments) \in Nat /\ Len(payments') = no /\ payments'[no] = row
      /\ \A i \in 1 .. Len(payments) : payments'[i] = payments[i]
      /\ DOMAIN payments = 1 .. Len(payments) /\ DOMAIN payments' = 1 .. Len(payments')
  BY <1>3, <1>5, <1>6, AppendProperties, LenProperties
<1>8. /\ DOMAIN payments' = DOMAIN payments \cup {no} /\ no \in Nat \ {0} /\ no \notin DOMAIN payments
      /\ payments'[no].owed = due /\ \A k \in DOMAIN payments : payments'[k] = payments[k]
  BY <1>5, <1>7
<1> HIDE DEF due, no
<1> QED
  BY <1>1, <1>2, <1>3, <1>4, <1>8 DEF due, no, row

LEMMA OfferedFee ==
    ASSUME NEW p \in Partner, NEW plan \in Plan, NEW m \in Month, NEW rate \in FindRate(plan, m)
    PROVE  [partner |-> p, plan |-> plan, month |-> m, amount |-> Commission(p, rate)] \in Fees
<1> DEFINE Of(q, k, n) == {[partner |-> q, plan |-> k, month |-> n, amount |-> Commission(q, r)] : r \in FindRate(k, n)}
<1>1. [partner |-> p, plan |-> plan, month |-> m, amount |-> Commission(p, rate)] \in Of(p, plan, m)
  OBVIOUS
<1>2. Fees = UNION {Of(q, k, n) : q \in Partner, k \in Plan, n \in Month}
  BY DEF Fees
<1> HIDE DEF Of
<1> QED
  BY <1>1, <1>2

\* An earning that is created is one the rate card offers.
LEMMA EarnsAFee ==
    ASSUME InOrder, NEW w \in Worker, CreateEarning(w), earning' # earning
    PROVE  /\ req[w].lead \in LeadId /\ earning[req[w].lead] = NoEarning
           /\ \E fee \in Fees : earning' = [earning EXCEPT ![req[w].lead] =
                 [partner |-> fee.partner, plan |-> fee.plan, amount |-> fee.amount,
                  month |-> fee.month, status |-> "AWAITING_PAYMENT", payment |-> 0]]
<1> DEFINE l == req[w].lead
           p == leads[l].partner
           plan == req[w].plan
           month == req[w].month
<1>1. /\ l \in DOMAIN leads /\ l \in LeadId /\ p \in Partner
      /\ plan \in Plan /\ month \in Month /\ RateInForce(p, plan, month, req[w].amount)
  <2>1. req[w].at = "create_earning" /\ TypeOK /\ LocalsOK
    BY DEF CreateEarning, InOrder
  <2>2. l \in DOMAIN leads /\ l \in LeadId /\ p \in Partner
    BY <2>1, AtLead DEF Lead
  <2>3. plan \in Plan /\ month \in Month /\ RateInForce(p, plan, month, req[w].amount)
    BY <2>1 DEF LocalsOK, LocalOK
  <2> QED
    BY <2>2, <2>3
<1>2. /\ l \notin Earned
      /\ earning' = [earning EXCEPT ![l] =
                       [partner |-> p, plan |-> plan, amount |-> req[w].amount, month |-> month,
                        status |-> "AWAITING_PAYMENT", payment |-> 0]]
  BY DEF CreateEarning
<1> DEFINE fee == [partner |-> p, plan |-> plan, month |-> month, amount |-> req[w].amount]
<1>3. PICK r \in FindRate(plan, month) : req[w].amount = Commission(p, r)
  <2>1. PICK r \in RateCard : /\ r.plan = plan /\ r.from <= month
                              /\ \A q \in RateCard : q.plan = plan /\ q.from > r.from => q.from > month
                              /\ req[w].amount = IF p \in FlatPaid THEN FlatAmount ELSE r.amount
    BY <1>1 DEF RateInForce
  <2>2. \A q \in RateCard : q.from \in Nat
    BY PartnerMoneyAssumption
  <2>3. month \in Nat
    BY <1>1, PartnerMoneyAssumption DEF Month
  <2>4. r \in FindRate(plan, month)
    BY <2>1, <2>2, <2>3 DEF FindRate
  <2> QED
    BY <2>1, <2>4 DEF Commission
<1>4. fee \in Fees
  <2> HIDE DEF p, plan, month
  <2> QED
    BY <1>1, <1>3, OfferedFee
<1>5. fee.partner = p /\ fee.plan = plan /\ fee.month = month /\ fee.amount = req[w].amount
  OBVIOUS
<1> HIDE DEF fee, p, plan, month
<1> QED
  BY <1>1, <1>2, <1>4, <1>5 DEF Earned

LEMMA LedgerStep ==
    InOrder /\ [Next]_vars => Ledger!Next \/ UNCHANGED Ledger!vars
<1> SUFFICES ASSUME InOrder, [Next]_vars PROVE Ledger!Next \/ UNCHANGED Ledger!vars
  OBVIOUS
<1>1. CASE UNCHANGED <<earning, payments>>
  BY <1>1 DEF Ledger!vars
<1>2. ASSUME NEW w \in Worker, CreateEarning(w), earning' # earning
      PROVE  Ledger!Next
  <2>1. payments' = payments
    BY <1>2 DEF CreateEarning
  <2>2. \E fee \in Fees : Ledger!Earn(req[w].lead, fee)
    BY <1>2, <2>1, EarnsAFee DEF Ledger!Earn
  <2> QED
    BY <1>2, <2>2, EarnsAFee DEF Ledger!Next
<1>3. ASSUME NEW w \in Worker, CreateEarning(w), earning' = earning
      PROVE  UNCHANGED Ledger!vars
  BY <1>3 DEF CreateEarning, Ledger!vars
<1>4. ASSUME NEW w \in Worker, DeleteEarning(w)
      PROVE  Ledger!Next
  <2>1. Ledger!Withdraw(req[w].lead)
    BY <1>4, DeletesWhatIsOwed DEF Ledger!Withdraw, Earned
  <2> QED
    BY <1>4, <2>1, DeletesWhatIsOwed DEF Ledger!Next
<1>5. ASSUME NEW w \in Worker, RecordPayment(w)
      PROVE  Ledger!Next
  <2>1. Ledger!Due(req[w].partner, req[w].month) = Awaiting(req[w].partner, req[w].month)
    <3>1. \A l : l \in Ledger!Due(req[w].partner, req[w].month) <=> l \in Awaiting(req[w].partner, req[w].month)
      BY DEF Ledger!Due, Awaiting, Earned
    <3> QED
      BY <3>1
  <2>2. Ledger!Settle(req[w].partner, req[w].month)
    <3> DEFINE due == Awaiting(req[w].partner, req[w].month)
               no == Len(payments) + 1
               Settles(d) ==
                  /\ d # {}
                  /\ payments' = Append(payments, [partner |-> req[w].partner, month |-> req[w].month, owed |-> d])
                  /\ earning' = [l \in LeadId |-> IF l \in d THEN [earning[l] EXCEPT !.status = "PAID", !.payment = no]
                                                 ELSE earning[l]]
    <3>1. Settles(due)
      BY <1>5, PaymentAdded
    <3>2. due = Ledger!Due(req[w].partner, req[w].month)
      BY <2>1
    <3> HIDE DEF Settles, due
    <3>3. Settles(Ledger!Due(req[w].partner, req[w].month))
      BY <3>1, <3>2
    <3> QED
      BY <3>3, Zenon DEF Ledger!Settle, Settles
  <2> QED
    BY <1>5, <2>2, PaymentAdded DEF Ledger!Next
<1> QED
  BY <1>1, <1>2, <1>3, <1>4, <1>5, MoneySteps DEF MoneyStep
-----------------------------------------------------------------------------
\* A payment covers exactly the earnings linked to it.
LEMMA CoversStep ==
    InOrder /\ PaidIsBacked /\ PaymentCoversItsEarnings /\ [Next]_vars => PaymentCoversItsEarnings'
<1> SUFFICES ASSUME InOrder, PaidIsBacked, PaymentCoversItsEarnings, [Next]_vars
             PROVE  PaymentCoversItsEarnings'
  OBVIOUS
<1> DEFINE Of(k) == {l \in Earned : earning[l].payment = k}
<1>1. CASE UNCHANGED <<earning, payments>>
  BY <1>1 DEF PaymentCoversItsEarnings, Earned
<1>2. \A k \in DOMAIN payments : k \in Nat /\ k # 0 /\ payments[k].owed # {} /\ payments[k].owed = Of(k)
  BY LenProperties DEF InOrder, TypeOK, PaymentCoversItsEarnings
<1>3. \A l \in Earned : /\ l \in LeadId /\ earning[l] \in Earning
                        /\ earning[l].status # "PAID" => earning[l].payment = 0
                        /\ earning[l].status = "PAID" => earning[l].payment \in DOMAIN payments
  BY DEF PaidIsBacked, InOrder, TypeOK, Earned
\* A step that adds or removes an earning without a payment.
<1>4. ASSUME NEW k \in LeadId, payments' = payments,
             \A l \in LeadId : l # k => earning'[l] = earning[l],
             k \in Earned => earning[k].payment = 0,
             k \in Earned' => earning'[k].payment = 0
      PROVE  PaymentCoversItsEarnings'
  <2>1. ASSUME NEW i \in DOMAIN payments
        PROVE  Of(i)' = Of(i)
    BY <1>2, <1>4 DEF Earned
  <2> HIDE DEF Of
  <2>2. \A i \in DOMAIN payments' : payments'[i].owed # {} /\ payments'[i].owed = Of(i)'
    BY <1>2, <1>4, <2>1
  <2> QED
    BY <2>2 DEF PaymentCoversItsEarnings, Of
<1>5. ASSUME NEW w \in Worker, CreateEarning(w), ~UNCHANGED <<earning, payments>>
      PROVE  PaymentCoversItsEarnings'
  <2> DEFINE k == req[w].lead
  <2>1. payments' = payments /\ earning' # earning
    BY <1>5 DEF CreateEarning
  <2>2. k \in LeadId /\ k \notin Earned
    BY <1>5, <2>1, EarnsAFee DEF Earned
  <2>3. \A l \in LeadId : l # k => earning'[l] = earning[l]
    BY <1>5, CreateEarningRow DEF InOrder
  <2>4. k \in Earned' => earning'[k].payment = 0
    BY <1>5, <2>2, CreateEarningRow DEF InOrder, Earned
  <2> QED
    BY <1>4, <2>1, <2>2, <2>3, <2>4
<1>6. ASSUME NEW w \in Worker, DeleteEarning(w)
      PROVE  PaymentCoversItsEarnings'
  <2> DEFINE k == req[w].lead
  <2>1. /\ k \in LeadId /\ k \in Earned /\ earning[k].status = "AWAITING_PAYMENT"
        /\ earning' = [earning EXCEPT ![k] = NoEarning] /\ payments' = payments
    BY <1>6, DeletesWhatIsOwed
  <2>2. earning \in [LeadId -> Earning \cup {NoEarning}]
    BY DEF InOrder, TypeOK
  <2>3. k \notin Earned' /\ \A l \in LeadId : l # k => earning'[l] = earning[l]
    BY <2>1, <2>2 DEF Earned
  <2>4. earning[k].payment = 0
    BY <1>3, <2>1
  <2> QED
    BY <1>4, <2>1, <2>3, <2>4
<1>7. ASSUME NEW w \in Worker, RecordPayment(w)
      PROVE  PaymentCoversItsEarnings'
  <2> DEFINE due == Awaiting(req[w].partner, req[w].month)
  <2>0. PICK no : no = Len(payments) + 1
    OBVIOUS
  <2>1. /\ due # {} /\ DOMAIN payments' = DOMAIN payments \cup {no} /\ no \in Nat \ {0} /\ no \notin DOMAIN payments
        /\ payments'[no].owed = due /\ \A k \in DOMAIN payments : payments'[k] = payments[k]
        /\ earning' = [l \in LeadId |-> IF l \in due THEN [earning[l] EXCEPT !.status = "PAID", !.payment = no]
                                        ELSE earning[l]]
    BY <1>7, <2>0, PaymentAdded
  <2>2. \A l \in due : l \in Earned /\ earning[l].status = "AWAITING_PAYMENT"
    BY DEF Awaiting
  <2> HIDE DEF due
  <2>3. \A l \in due : /\ l \in Earned /\ earning[l].payment = 0
                       /\ earning'[l].payment = no /\ earning'[l].status = "PAID"
    BY <1>3, <2>1, <2>2 DEF Earning
  <2>4. \A l \in LeadId \ due : earning'[l] = earning[l]
    BY <2>1
  <2>5. \A l \in due : earning'[l] # NoEarning
    BY <2>3 DEF NoEarning
  <2>6. Earned' = Earned
    <3>1. \A l : l \in Earned' <=> l \in Earned
      BY <2>3, <2>4, <2>5 DEF Earned
    <3> QED
      BY <3>1
  <2>7. Of(no)' = due
    <3>1. \A l \in Earned : earning[l].payment = 0 \/ earning[l].payment \in DOMAIN payments
      BY <1>3
    <3>2. \A l \in Earned \ due : earning'[l].payment # no
      BY <1>3, <2>1, <2>4, <3>1
    <3>3. Of(no)' = {l \in Earned : earning'[l].payment = no}
      BY <2>6
    <3> QED
      BY <2>3, <3>2, <3>3
  <2>8. ASSUME NEW i \in DOMAIN payments PROVE Of(i)' = Of(i)
    <3>1. i # no /\ i # 0
      BY <1>2, <2>1
    <3>2. \A l \in Earned : earning'[l].payment = i <=> earning[l].payment = i
      BY <1>3, <2>3, <2>4, <3>1
    <3>3. Of(i)' = {l \in Earned : earning'[l].payment = i}
      BY <2>6
    <3> QED
      BY <3>2, <3>3
  <2> HIDE DEF Of
  <2>9. ASSUME NEW i \in DOMAIN payments'
        PROVE  payments'[i].owed # {} /\ payments'[i].owed = Of(i)'
    <3>1. CASE i = no
      BY <2>1, <2>7, <3>1
    <3>2. CASE i \in DOMAIN payments
      BY <1>2, <2>1, <2>8, <3>2
    <3> QED
      BY <2>1, <3>1, <3>2
  <2> QED
    BY <2>9 DEF PaymentCoversItsEarnings, Of
<1> QED
  BY <1>1, <1>5, <1>6, <1>7, MoneySteps DEF MoneyStep

\* An earning once paid stays as it is.
LEMMA PaidStays ==
    ASSUME InOrder, [Next]_vars, NEW l \in Earned, earning[l].status = "PAID"
    PROVE  earning'[l] = earning[l]
<1>1. l \in LeadId /\ TypeOK /\ LocalsOK
  BY DEF Earned, InOrder
<1>2. ASSUME NEW w \in Worker, CreateEarning(w) PROVE earning'[l] = earning[l]
  BY <1>1, <1>2, CreateEarningRow
<1>3. ASSUME NEW w \in Worker, DeleteEarning(w) PROVE earning'[l] = earning[l]
  BY <1>1, <1>3, DeletesWhatIsOwed DEF TypeOK
<1>4. ASSUME NEW w \in Worker, RecordPayment(w) PROVE earning'[l] = earning[l]
  BY <1>1, <1>4, RecordPaymentRow
<1> QED
  BY <1>1, <1>2, <1>3, <1>4, MoneySteps DEF MoneyStep

\* A lead that is converted and whose earning stands is not moved.
LEMMA ConvertedStays ==
    ASSUME InOrder, [Next]_vars, NEW l \in DOMAIN leads,
           leads[l].status = "CONVERTED", l \in Earned
    PROVE  leads'[l].status = "CONVERTED"
<1>1. TypeOK /\ LocalsOK
  BY DEF InOrder
<1>2. ASSUME NEW w \in Worker, UpdateLead(w) PROVE leads'[l].status = "CONVERTED"
  <2>1. Fresh(req[w]) /\ req[w].at = "update_lead"
    BY <1>2 DEF InOrder, AllFresh, UpdateLead
  <2> QED
    BY <1>1, <1>2, <2>1, StatusWritten DEF Fresh, Judging
<1>3. ASSUME NEW w \in Worker, UpdateCalled(w) PROVE leads'[l].status = "CONVERTED"
  <2>1. Fresh(req[w]) /\ req[w].at = "update_called"
    BY <1>3 DEF InOrder, AllFresh, UpdateCalled
  <2> QED
    BY <1>1, <1>3, <2>1, CallWritten DEF Fresh, Judging, CallMoves
<1>4. ASSUME NEW w \in Worker, CreateLead(w) PROVE leads'[l].status = "CONVERTED"
  BY <1>1, <1>4, LeadAdded
<1> QED
  BY <1>2, <1>3, <1>4, LeadSteps DEF LeadStep

\* A lead that is captured open is the customer's only open one.
LEMMA OpenIsFirst ==
    ASSUME InOrder, [Next]_vars, NEW l \in DOMAIN leads' \ DOMAIN leads, leads'[l].status \notin Closed,
           NEW k \in DOMAIN leads, leads[k].mobile = leads'[l].mobile
    PROVE  leads[k].status \in Closed
<1>1. TypeOK /\ LocalsOK
  BY DEF InOrder
<1>2. \A w \in Worker : ~UpdateLead(w) /\ ~UpdateCalled(w)
  BY <1>1, StatusWritten, CallWritten
<1>3. PICK w \in Worker : CreateLead(w)
  BY <1>2, LeadSteps DEF LeadStep
<1>4. /\ leads'[l].status = (IF req[w].lead = 0 THEN "NEW" ELSE "DUPLICATE")
      /\ leads'[l].mobile = req[w].mobile
  BY <1>1, <1>3, LeadAdded
<1>5. req[w].lead = FindOpen(req[w].mobile)
  BY <1>3 DEF InOrder, AllFresh, Fresh, CreateLead
<1>6. FindOpen(req[w].mobile) = 0
  BY <1>4, <1>5 DEF Closed
<1>7. OpenClaims(req[w].mobile) = {}
  <2>1. FindOpen(req[w].mobile) \notin OpenClaims(req[w].mobile)
    BY <1>6, LenProperties DEF OpenClaims, InOrder, TypeOK
  <2> SUFFICES ASSUME OpenClaims(req[w].mobile) # {} PROVE FALSE
    OBVIOUS
  <2>2. OpenClaims(req[w].mobile) \subseteq Nat
    BY LenProperties DEF OpenClaims, InOrder, TypeOK
  <2>3. \E x \in OpenClaims(req[w].mobile) : \A y \in OpenClaims(req[w].mobile) : x <= y
    BY <2>2, LeastNatural
  <2> QED
    BY <2>1, <2>3, Zenon DEF FindOpen
<1> QED
  BY <1>4, <1>7 DEF OpenClaims

-----------------------------------------------------------------------------
(* A lead at rest.  Between its first and its last write a handler that is *)
(* alone and does not die owes the lead what it still has to write.        *)

Agrees(l) == ConvertedIffEarned(l) /\ DueListIsRight(l) /\ HistoryEndsAtStatus(l)

Halfway == {"update_lead", "update_called", "record_event"}

\* What holds of the lead of a handler that is half-way.
OweOK(r) ==
    /\ r.at = "update_lead" => (r.lead \in Earned <=> r.to = "CONVERTED") /\ DueListIsRight(r.lead)
    /\ r.at = "update_called" =>
          ConvertedIffEarned(r.lead) /\ HistoryEndsAtStatus(r.lead) /\ call[r.lead] = r.outcome
    /\ r.at = "record_event" =>
          ConvertedIffEarned(r.lead) /\ DueListIsRight(r.lead) /\ r.to = leads[r.lead].status

RestAgree ==
    /\ \A l \in LeadId \ DOMAIN leads : l \notin Earned /\ call[l] = None
    /\ \A l \in DOMAIN leads :
          (\A w \in Worker : req[w].at \in Halfway => req[w].lead # l) => Agrees(l)
    /\ \A w \in Worker : OweOK(req[w])

AtRest == InOrder /\ RestAgree

\* What of a lead the agreement is about.
Same(l) ==
    /\ l \in DOMAIN leads =>
          leads'[l].status = leads[l].status /\ leads'[l].nextCall = leads[l].nextCall
    /\ l \in Earned' <=> l \in Earned
    /\ call'[l] = call[l] /\ event'[l] = event[l]

\* A step of the only handler that touches no lead but the one it works on.
LEMMA OthersRest ==
    ASSUME OneAtATime, AtRest, NEW w \in Worker, DOMAIN leads' = DOMAIN leads,
           NEW k, \A l \in LeadId : l # k => Same(l),
           req[w].at \in Halfway => req[w].lead = k, k \in DOMAIN leads, 
           req'[w].at \in Halfway => req'[w].lead = k,
           OweOK(req[w])', req'[w].at \notin Halfway => Agrees(k)'
    PROVE  RestAgree'
<1>1. \A l \in DOMAIN leads : l \in LeadId
  BY LenProperties, PartnerMoneyAssumption DEF AtRest, InOrder, TypeOK, LeadId
<1>2. ASSUME NEW l \in DOMAIN leads, l # k PROVE Agrees(l)'
  <2>1. \A v \in Worker : req[v].at \in Halfway => req[v].lead # l
    BY <1>2 DEF OneAtATime
  <2> QED
    BY <1>1, <1>2, <2>1 DEF AtRest, RestAgree, Agrees, ConvertedIffEarned, DueListIsRight, HistoryEndsAtStatus, Same
<1>3. \A l \in LeadId \ DOMAIN leads : l # k
  OBVIOUS
<1>4. \A l \in LeadId \ DOMAIN leads' : l \notin Earned' /\ call'[l] = None
  BY <1>3 DEF AtRest, RestAgree, Same
<1>5. \A v \in Worker : OweOK(req[v])'
  BY DEF OneAtATime
<1>6. ASSUME NEW l \in DOMAIN leads', \A v \in Worker : req'[v].at \in Halfway => req'[v].lead # l
      PROVE  Agrees(l)'
  BY <1>2, <1>6
<1> QED
  BY <1>4, <1>5, <1>6 DEF RestAgree

\* A step that writes nothing, of a handler that is not half-way afterwards.
LEMMA NothingWritten ==
    ASSUME OneAtATime, AtRest, NEW w \in Worker, UNCHANGED <<leads, call, event>>, Earned' = Earned,
           req[w].at \notin Halfway, req'[w].at \notin Halfway
    PROVE  RestAgree'
<1>1. \A v \in Worker : req[v].at \notin Halfway /\ req'[v].at \notin Halfway
  BY DEF OneAtATime
<1>2. \A l \in DOMAIN leads : Agrees(l)
  BY <1>1 DEF AtRest, RestAgree
<1>3. \A v \in Worker : OweOK(req[v])'
  BY <1>1 DEF OweOK, Halfway
<1> QED
  BY <1>2, <1>3 DEF AtRest, RestAgree, Agrees, ConvertedIffEarned, DueListIsRight, HistoryEndsAtStatus

LEMMA StartRests ==
    ASSUME OneAtATime, AtRest, NEW w \in Worker, Start(w)
    PROVE  RestAgree'
<1>1. UNCHANGED <<leads, earning, call, event>> /\ req[w].at = "idle" /\ req[w].at \notin Halfway
  BY DEF Start, Capture, ChangeStatus, LogCall, MarkPaid, Halfway
<1>2. CASE req'[w].at \notin Halfway
  BY <1>1, <1>2, NothingWritten DEF Earned
<1>3. ASSUME NEW l \in LeadId, NEW to \in Targets, NEW plan \in Plan \cup {None}, ChangeStatus(w, l, to, plan),
             req'[w].at = "update_lead"
      PROVE  RestAgree'
  <2>1. /\ l \in DOMAIN leads /\ req'[w].at = NextStep(leads[l].status, to) /\ req'[w].lead = l
        /\ req'[w].to = to
    BY <1>3 DEF ChangeStatus, Continue, AtRest, InOrder, TypeOK, Idle
  <2>2. to # "CONVERTED" /\ leads[l].status # "CONVERTED"
    BY <1>3, <2>1 DEF NextStep
  <2>3. Agrees(l)
    BY <1>1, <2>1 DEF AtRest, RestAgree, OneAtATime
  <2>4. OweOK(req[w])'
    BY <1>1, <1>3, <2>1, <2>2, <2>3 DEF OweOK, Agrees, ConvertedIffEarned, DueListIsRight, Earned
  <2>5. \A k \in LeadId : Same(k)
    BY <1>1 DEF Same, Earned
  <2> QED
    BY <1>1, <1>3, <2>1, <2>4, <2>5, OthersRest DEF Halfway
<1>4. CASE req'[w].at \in Halfway
  <2>1. ASSUME NEW p \in Partner, NEW m \in Mobile, Capture(w, p, m) PROVE FALSE
    BY <1>4, <2>1 DEF Capture, Continue, AtRest, InOrder, TypeOK, Idle, Halfway
  <2>2. ASSUME NEW l \in LeadId, NEW o \in Outcomes, LogCall(w, l, o) PROVE FALSE
    BY <1>4, <2>2 DEF LogCall, Continue, AtRest, InOrder, TypeOK, Idle, Halfway
  <2>3. ASSUME NEW p \in Partner, NEW month \in Month, MarkPaid(w, p, month) PROVE FALSE
    BY <1>4, <2>3 DEF MarkPaid, Continue, AtRest, InOrder, TypeOK, Idle, Halfway
  <2>4. ASSUME NEW l \in LeadId, NEW to \in Targets, NEW plan \in Plan \cup {None}, ChangeStatus(w, l, to, plan)
        PROVE  req'[w].at = "update_lead"
    BY <1>4, <2>4 DEF ChangeStatus, Continue, NextStep, AtRest, InOrder, TypeOK, Idle, Halfway
  <2> QED
    BY <1>3, <2>1, <2>2, <2>3, <2>4 DEF Start
<1> QED
  BY <1>2, <1>4
\* A handler that has looked and is about to write the lead.
LEMMA LookRests ==
    ASSUME OneAtATime, AtRest, NEW w \in Worker, FindForLead(w) \/ FindExisting(w) \/ FindToRevoke(w)
    PROVE  RestAgree'
<1>1. /\ UNCHANGED <<leads, earning, call, event>> /\ Earned' = Earned
      /\ req[w].at \in {"find_for_lead", "find_existing", "find_to_revoke"}
  BY DEF FindForLead, FindExisting, FindToRevoke, Earned
<1>2. req[w].at \notin Halfway /\ TypeOK /\ LocalsOK /\ Fresh(req[w]) /\ req[w] \in Request
  BY <1>1 DEF Halfway, AtRest, InOrder, AllFresh, TypeOK
<1>3. CASE req'[w].at \notin Halfway
  BY <1>1, <1>2, <1>3, NothingWritten
<1>4. CASE ToUpdate(w)
  <2> DEFINE l == req[w].lead
  <2>1. /\ req'[w].at = "update_lead" /\ req'[w].lead = l /\ req'[w].to = req[w].to /\ req'[w].seen = req[w].seen
        /\ l \in DOMAIN leads
    BY <1>1, <1>2, <1>4, UpdateLocals, AtLead
  <2>2. Agrees(l) /\ leads[l].status = req[w].seen
    BY <1>1, <1>2, <2>1 DEF AtRest, RestAgree, OneAtATime, Fresh, Judging
  <2>3. Fresh(req[w])'
    BY LookFresh DEF AtRest
  <2>4. req[w].to = "CONVERTED" \/ req[w].seen = "CONVERTED"
    BY <1>1, <1>2 DEF Fresh, Converting, Revoking
  <2> HIDE DEF l
  <2>5. l \in Earned <=> req[w].to = "CONVERTED"
    BY <1>1, <2>1, <2>2, <2>3, <2>4 DEF Fresh
  <2>6. OweOK(req[w])'
    BY <1>1, <2>1, <2>2, <2>5 DEF OweOK, Agrees, DueListIsRight
  <2>7. \A k \in LeadId : Same(k)
    BY <1>1 DEF Same
  <2> QED
    BY <1>1, <1>2, <2>1, <2>6, <2>7, OthersRest DEF Halfway
<1>5. req'[w].at \notin Halfway \/ ToUpdate(w)
  <2>1. CASE Finish(w)
    <3>1. Idle.at \notin Halfway
      BY DEF Idle, Halfway
    <3> QED
      BY <1>2, <2>1, <3>1, IdleIsFresh
  <2>2. ASSUME NEW r, Continue(w, r), r.at \notin Halfway
        PROVE  req'[w].at \notin Halfway
    BY <1>2, <2>2 DEF Continue, TypeOK
  <2>3. /\ [req[w] EXCEPT !.at = "find_existing", !.month = now].at \notin Halfway
        /\ \A a : [req[w] EXCEPT !.at = "create_earning", !.amount = a].at \notin Halfway
    BY <1>2 DEF Request, Halfway
  <2>4. Goto(w, "delete_earning") => req'[w].at \notin Halfway
    BY <1>2, GotoLocals DEF Halfway
  <2> QED
    BY <2>1, <2>2, <2>3, <2>4 DEF FindForLead, FindExisting, FindToRevoke
<1> QED
  BY <1>3, <1>4, <1>5

LEMMA EarningRests ==
    ASSUME OneAtATime, AtRest, NEW w \in Worker, CreateEarning(w) \/ DeleteEarning(w)
    PROVE  RestAgree'
<1> DEFINE l == req[w].lead
<1>1. /\ UNCHANGED <<leads, call, event>> /\ req[w].at \in {"create_earning", "delete_earning"}
      /\ TypeOK /\ LocalsOK /\ Fresh(req[w])
  BY DEF CreateEarning, DeleteEarning, AtRest, InOrder, AllFresh
<1>2. /\ req[w].at \notin Halfway /\ l \in DOMAIN leads /\ l \in LeadId
      /\ req[w].at = "create_earning" => req[w].to = "CONVERTED"
      /\ req[w].at = "delete_earning" => req[w].to # "CONVERTED"
  BY <1>1, AtLead DEF Halfway, Fresh, Converting, Revoking
<1>3. Agrees(l)
  BY <1>1, <1>2 DEF AtRest, RestAgree, OneAtATime
<1>4. CASE Finish(w) /\ UNCHANGED earning
  <2>1. Idle.at \notin Halfway
    BY DEF Idle, Halfway
  <2> QED
    BY <1>1, <1>2, <1>4, <2>1, IdleIsFresh, NothingWritten DEF Earned
<1>5. CASE ToUpdate(w)
  <2>1. req'[w].at = "update_lead" /\ req'[w].lead = l /\ req'[w].to = req[w].to
    BY <1>1, <1>5, UpdateLocals
  <2>2. /\ CreateEarning(w) => req[w].at = "create_earning"
        /\ DeleteEarning(w) => req[w].at = "delete_earning" /\ earning' = [earning EXCEPT ![l] = NoEarning]
    BY DEF CreateEarning, DeleteEarning
  <2>3. l \in Earned' <=> req[w].to = "CONVERTED"
    <3>1. CASE CreateEarning(w)
      <4>1. Fresh(req[w])'
        BY <3>1, EarningFresh DEF AtRest
      <4> QED
        BY <1>2, <2>1, <2>2, <3>1, <4>1 DEF Fresh
    <3>2. CASE DeleteEarning(w)
      <4>1. earning'[l] = NoEarning
        BY <1>1, <1>2, <2>2, <3>2 DEF TypeOK
      <4> QED
        BY <1>2, <2>2, <3>2, <4>1 DEF Earned
    <3> QED
      BY <3>1, <3>2
  <2>4. \A k \in LeadId : k # l => earning'[k] = earning[k]
    <3>1. CASE CreateEarning(w)
      BY <1>1, <3>1, CreateEarningRow
    <3>2. CASE DeleteEarning(w)
      BY <1>1, <2>2, <3>2 DEF TypeOK
    <3> QED
      BY <3>1, <3>2
  <2> HIDE DEF l
  <2>5. \A k \in LeadId : k # l => Same(k)
    BY <1>1, <2>4 DEF Same, Earned
  <2>6. OweOK(req[w])'
    BY <1>1, <1>3, <2>1, <2>3 DEF OweOK, Agrees, DueListIsRight
  <2> QED
    BY <1>1, <1>2, <2>1, <2>5, <2>6, OthersRest DEF Halfway
<1> QED
  BY <1>4, <1>5 DEF CreateEarning, DeleteEarning

LEMMA UpdateLeadRests ==
    ASSUME OneAtATime, AtRest, NEW w \in Worker, UpdateLead(w)
    PROVE  RestAgree'
<1>0. PICK l : l = req[w].lead
  OBVIOUS
<1>1. /\ UNCHANGED <<earning, call, event>> /\ req[w].at = "update_lead" /\ Goto(w, "record_event")
      /\ TypeOK /\ LocalsOK /\ OweOK(req[w])
  BY <1>0 DEF UpdateLead, AtRest, InOrder, RestAgree
<1>2. /\ DOMAIN leads' = DOMAIN leads /\ l \in DOMAIN leads /\ leads'[l].status = req[w].to
      /\ leads'[l].nextCall = leads[l].nextCall /\ \A k \in DOMAIN leads : k # l => leads'[k] = leads[k]
  BY <1>0, <1>1, StatusWritten
<1>3. req'[w].at = "record_event" /\ req'[w].lead = l /\ req'[w].to = req[w].to
  BY <1>0, <1>1, GotoLocals
<1>4. OweOK(req[w])'
  BY <1>0, <1>1, <1>2, <1>3 DEF OweOK, ConvertedIffEarned, DueListIsRight, Earned
<1>5. \A k \in LeadId : k # l => Same(k)
  BY <1>0, <1>1, <1>2 DEF Same, Earned
<1> QED
  BY <1>0, <1>1, <1>2, <1>3, <1>4, <1>5, OthersRest DEF Halfway

LEMMA RecordEventRests ==
    ASSUME OneAtATime, AtRest, NEW w \in Worker, RecordEvent(w)
    PROVE  RestAgree'
<1>0. PICK l : l = req[w].lead
  OBVIOUS
<1>1. /\ UNCHANGED <<leads, earning, call>> /\ req[w].at = "record_event" /\ Finish(w)
      /\ event' = [event EXCEPT ![l] = req[w].to] /\ TypeOK /\ LocalsOK /\ OweOK(req[w])
  BY <1>0 DEF RecordEvent, AtRest, InOrder, RestAgree
<1>2. l \in DOMAIN leads /\ l \in LeadId
  BY <1>0, <1>1, AtLead
<1>3. event'[l] = req[w].to /\ \A k \in LeadId : k # l => event'[k] = event[k]
  BY <1>0, <1>1, <1>2 DEF TypeOK
<1>4. req'[w].at = "idle"
  BY <1>0, <1>1, IdleIsFresh DEF Idle
<1>5. Agrees(l)'
  BY <1>0, <1>1, <1>3 DEF OweOK, Agrees, ConvertedIffEarned, DueListIsRight, HistoryEndsAtStatus, Earned
<1>6. OweOK(req[w])'
  BY <1>0, <1>4 DEF OweOK
<1>7. \A k \in LeadId : k # l => Same(k)
  BY <1>0, <1>1, <1>3 DEF Same, Earned
<1> QED
  BY <1>0, <1>1, <1>2, <1>4, <1>5, <1>6, <1>7, OthersRest DEF Halfway

LEMMA CreateCallRests ==
    ASSUME OneAtATime, AtRest, NEW w \in Worker, CreateCall(w)
    PROVE  RestAgree'
<1>0. PICK l : l = req[w].lead
  OBVIOUS
<1>1. /\ UNCHANGED <<leads, earning, event>> /\ req[w].at = "create_call" /\ Goto(w, "update_called")
      /\ call' = [call EXCEPT ![l] = req[w].outcome] /\ TypeOK /\ LocalsOK
  BY <1>0 DEF CreateCall, AtRest, InOrder
<1>2. l \in DOMAIN leads /\ l \in LeadId
  BY <1>0, <1>1, AtLead
<1>3. call'[l] = req[w].outcome /\ \A k \in LeadId : k # l => call'[k] = call[k]
  BY <1>0, <1>1, <1>2 DEF TypeOK
<1>4. req'[w].at = "update_called" /\ req'[w].lead = l /\ req'[w].outcome = req[w].outcome
  BY <1>0, <1>1, GotoLocals
<1>5. Agrees(l)
  BY <1>0, <1>1, <1>2 DEF AtRest, RestAgree, OneAtATime, Halfway
<1>6. OweOK(req[w])'
  BY <1>0, <1>1, <1>3, <1>4, <1>5 DEF OweOK, Agrees, ConvertedIffEarned, HistoryEndsAtStatus, Earned
<1>7. \A k \in LeadId : k # l => Same(k)
  BY <1>0, <1>1, <1>3 DEF Same, Earned
<1> QED
  BY <1>0, <1>1, <1>2, <1>4, <1>6, <1>7, OthersRest DEF Halfway

LEMMA UpdateCalledRests ==
    ASSUME OneAtATime, AtRest, NEW w \in Worker, UpdateCalled(w)
    PROVE  RestAgree'
<1>0. PICK l : l = req[w].lead
  OBVIOUS
<1>m. PICK moves \in BOOLEAN : moves = CallMoves(req[w].seen, req[w].to)
  BY DEF CallMoves
<1>1. /\ UNCHANGED <<earning, call, event>> /\ req[w].at = "update_called"
      /\ IF moves THEN Goto(w, "record_event") ELSE Finish(w)
      /\ TypeOK /\ LocalsOK /\ OweOK(req[w]) /\ Fresh(req[w])
  BY <1>0, <1>m DEF UpdateCalled, AtRest, InOrder, AllFresh, RestAgree
<1>2. /\ DOMAIN leads' = DOMAIN leads /\ l \in DOMAIN leads
      /\ leads'[l].status = (IF moves THEN req[w].to ELSE leads[l].status)
      /\ leads'[l].nextCall = (req[w].outcome = "CALL_LATER")
      /\ \A k \in DOMAIN leads : k # l => leads'[k] = leads[k]
  BY <1>0, <1>m, <1>1, CallWritten DEF CallsBack
<1>3. req[w].to # "CONVERTED" /\ req[w].seen = leads[l].status
  <2>1. req[w].outcome \in Outcome /\ req[w].to = OutcomeStatus[req[w].outcome]
    BY <1>0, <1>1 DEF Fresh, LocalsOK, LocalOK
  <2>2. \A o \in Outcome : OutcomeStatus[o] # "CONVERTED"
    BY DEF Outcome, OutcomeStatus
  <2> QED
    BY <1>0, <1>1, <2>1, <2>2 DEF Fresh, Judging
<1>4. /\ ConvertedIffEarned(l) /\ HistoryEndsAtStatus(l) /\ call[l] = req[w].outcome
  BY <1>0, <1>1 DEF OweOK
<1>5. \A k \in LeadId : k # l => Same(k)
  BY <1>0, <1>1, <1>2 DEF Same, Earned
<1>6. DueListIsRight(l)' /\ Earned' = Earned
  BY <1>0, <1>1, <1>2, <1>4 DEF DueListIsRight, Earned
<1>7. CASE moves
  <2>1. req'[w].at = "record_event" /\ req'[w].lead = l /\ req'[w].to = req[w].to
    BY <1>0, <1>1, <1>7, GotoLocals
  <2>2. leads'[l].status = req[w].to /\ leads[l].status # "CONVERTED"
    BY <1>m, <1>2, <1>3, <1>7 DEF CallMoves
  <2>3. OweOK(req[w])'
    BY <1>0, <1>3, <1>4, <1>6, <2>1, <2>2 DEF OweOK, ConvertedIffEarned
  <2> QED
    BY <1>0, <1>1, <1>2, <1>5, <2>1, <2>3, OthersRest DEF Halfway
<1>8. CASE ~moves
  <2>1. req'[w].at = "idle"
    BY <1>0, <1>1, <1>8, IdleIsFresh DEF Idle
  <2>2. leads'[l].status = leads[l].status
    BY <1>0, <1>2, <1>8
  <2>3. Agrees(l)'
    BY <1>0, <1>1, <1>4, <1>6, <2>2 DEF Agrees, ConvertedIffEarned, HistoryEndsAtStatus
  <2>4. OweOK(req[w])'
    BY <1>0, <2>1 DEF OweOK
  <2> QED
    BY <1>0, <1>1, <1>2, <1>5, <2>1, <2>3, <2>4, OthersRest DEF Halfway
<1> QED
  BY <1>0, <1>7, <1>8
LEMMA CreateLeadRests ==
    ASSUME OneAtATime, AtRest, NEW w \in Worker, CreateLead(w)
    PROVE  RestAgree'
<1>0. PICK new : new = Len(leads) + 1
  OBVIOUS
<1>1. /\ UNCHANGED <<earning, call, event>> /\ req[w].at = "create_lead" /\ TypeOK /\ LocalsOK
  BY DEF CreateLead, AtRest, InOrder
<1>2. /\ DOMAIN leads' = DOMAIN leads \cup {new} /\ new \notin DOMAIN leads /\ new \in LeadId
      /\ leads'[new].status \in {"NEW", "DUPLICATE"} /\ leads'[new].nextCall = FALSE
      /\ \A l \in DOMAIN leads : leads'[l] = leads[l]
      /\ req'[w].at = "record_event" /\ req'[w].lead = new /\ req'[w].to = leads'[new].status
  BY <1>0, <1>1, LeadAdded
<1>3. \A l \in DOMAIN leads : Agrees(l)
  BY <1>1 DEF AtRest, RestAgree, OneAtATime, Halfway
<1>4. new \notin Earned /\ call[new] = None
  BY <1>2 DEF AtRest, RestAgree
<1>5. Earned' = Earned
  BY <1>1 DEF Earned
<1>6. OweOK(req[w])'
  <2>1. None # "CALL_LATER"
    BY PartnerMoneyEnumerations DEF Outcome, OutcomeStatus
  <2> QED
    BY <1>1, <1>2, <1>4, <1>5, <2>1 DEF OweOK, ConvertedIffEarned, DueListIsRight
<1>7. ASSUME NEW l \in DOMAIN leads' PROVE l = new \/ Agrees(l)'
  BY <1>1, <1>2, <1>3, <1>5, <1>7 DEF Agrees, ConvertedIffEarned, DueListIsRight, HistoryEndsAtStatus
<1>8. \A l \in LeadId \ DOMAIN leads' : l \notin Earned' /\ call'[l] = None
  BY <1>1, <1>2, <1>5 DEF AtRest, RestAgree
<1>9. \A v \in Worker : v = w
  BY DEF OneAtATime
<1> QED
  BY <1>2, <1>6, <1>7, <1>8, <1>9 DEF RestAgree, Halfway

LEMMA RecordPaymentRests ==
    ASSUME OneAtATime, AtRest, NEW w \in Worker, RecordPayment(w)
    PROVE  RestAgree'
<1>1. UNCHANGED <<leads, call, event>> /\ req[w].at = "record_payment" /\ Finish(w) /\ TypeOK /\ LocalsOK
  BY DEF RecordPayment, AtRest, InOrder
<1>2. Earned' = Earned
  <2>1. ASSUME NEW l \in LeadId PROVE earning'[l] = NoEarning <=> earning[l] = NoEarning
    <3>1. CASE earning'[l] # earning[l]
      <4>1. earning[l] \in Earning /\ earning'[l].status = "PAID"
        BY <1>1, <3>1, RecordPaymentRow DEF Earning
      <4> QED
        BY <4>1 DEF Earning, NoEarning
    <3> QED
      BY <3>1
  <2> QED
    BY <2>1 DEF Earned
<1>3. req'[w].at = "idle"
  BY <1>1, IdleIsFresh DEF Idle
<1> QED
  BY <1>1, <1>2, <1>3, NothingWritten DEF Halfway

LEMMA AtRestStep == OneAtATime /\ ~MayFail /\ AtRest /\ [Next]_vars => AtRest'
<1> SUFFICES ASSUME OneAtATime, ~MayFail, AtRest, [Next]_vars PROVE RestAgree'
  BY InOrderStep DEF AtRest
<1>1. ASSUME NEW w \in Worker, Start(w) PROVE RestAgree'
  BY <1>1, StartRests
<1>2. ASSUME NEW w \in Worker, Proceed(w) PROVE RestAgree'
  BY <1>2, CreateLeadRests, LookRests, EarningRests, UpdateLeadRests, RecordEventRests, CreateCallRests,
     UpdateCalledRests, RecordPaymentRests
  DEF Proceed
<1>3. \A w \in Worker : ~Fail(w)
  BY DEF Fail
<1>4. CASE UNCHANGED <<leads, earning, event, call, req>>
  BY <1>4 DEF AtRest, RestAgree, OweOK, Agrees, ConvertedIffEarned, DueListIsRight, HistoryEndsAtStatus, Earned
<1> QED
  BY <1>1, <1>2, <1>3, <1>4 DEF Next, NextMonth, vars

LEMMA AtRestInit == Init => AtRest
<1> SUFFICES ASSUME Init PROVE RestAgree
  BY InOrderInit DEF AtRest
<1>1. \A w \in Worker : req[w].at = "idle"
  BY DEF Init, Idle
<1>2. DOMAIN leads = {}
  BY EmptySeq DEF Init
<1> QED
  BY <1>1, <1>2 DEF Init, RestAgree, OweOK, Earned

-----------------------------------------------------------------------------
(* The theorems.                                                           *)

LEMMA InOrderAlways ==
    ASSUME OneAtATime
    PROVE  Spec => []InOrder
BY InOrderInit, InOrderStep, PTL DEF Spec

\* Requests in turn keep the books of the commission ledger, also when they die
\* half-way: every earning is one the rate card offers, only what is owed is
\* withdrawn, and a payment settles exactly what its amount was made out for.
THEOREM RequestsKeepTheLedger ==
    ASSUME OneAtATime
    PROVE  Spec => ImplementsLedger
<1>1. Init => Ledger!Init
  BY DEF Init, Ledger!Init
<1>2. InOrder /\ [Next]_vars => [Ledger!Next]_Ledger!vars
  BY LedgerStep
<1> QED
  BY <1>1, <1>2, InOrderAlways, PTL DEF Spec, ImplementsLedger, Ledger!Spec

\* A payment covers exactly the earnings linked to it, and at least one.
THEOREM PaymentsCoverTheirEarnings ==
    ASSUME OneAtATime
    PROVE  Spec => []PaymentCoversItsEarnings
<1>1. Init => PaymentCoversItsEarnings
  BY EmptySeq DEF Init, PaymentCoversItsEarnings
<1> QED
  BY <1>1, CoversStep, InOrderAlways, PaidAlwaysBacked, PTL DEF Spec

\* No paid earning is deleted.
THEOREM PaidIsKept ==
    ASSUME OneAtATime
    PROVE  Spec => PaidIsNeverDeleted
<1>1. InOrder /\ [Next]_vars => [\A l \in Earned : earning[l].status = "PAID" => l \in Earned']_vars
  <2> SUFFICES ASSUME InOrder, [Next]_vars, NEW l \in Earned, earning[l].status = "PAID"
               PROVE  l \in Earned'
    OBVIOUS
  <2>1. earning'[l] = earning[l]
    BY PaidStays
  <2> QED
    BY <2>1 DEF Earned
<1> QED
  BY <1>1, InOrderAlways, PTL DEF Spec, PaidIsNeverDeleted

\* A lead whose earning is paid stays converted and keeps that earning, even
\* where an earlier request died between the earning and the lead.
THEOREM PaidLeadsStay ==
    ASSUME OneAtATime
    PROVE  Spec => PaidLeadStays
<1>1. InOrder /\ [Next]_vars =>
        [\A l \in DOMAIN leads :
            leads[l].status = "CONVERTED" /\ l \in Earned /\ earning[l].status = "PAID" =>
                leads'[l].status = "CONVERTED" /\ earning'[l] = earning[l]]_vars
  BY PaidStays, ConvertedStays
<1> QED
  BY <1>1, InOrderAlways, PTL DEF Spec, PaidLeadStays

\* The first referral keeps the claim: while a customer's lead is open, nobody
\* else's is captured but as its duplicate.
THEOREM FirstClaimHolds ==
    ASSUME OneAtATime
    PROVE  Spec => FirstClaim
<1>1. InOrder /\ [Next]_vars =>
        [\A l \in DOMAIN leads' \ DOMAIN leads :
            leads'[l].status \notin Closed =>
                \A k \in DOMAIN leads :
                    leads[k].mobile = leads'[l].mobile => leads[k].status \in Closed]_vars
  BY OpenIsFirst
<1> QED
  BY <1>1, InOrderAlways, PTL DEF Spec, FirstClaim

\* While requests are taken one at a time and none dies half-way, a lead that no
\* request works on has an earning exactly while it is converted, is on the due
\* list exactly if its customer asked to be called later, and its newest event
\* tells its status.
THEOREM LeadsAtRestAgree ==
    ASSUME OneAtATime, ~MayFail
    PROVE  Spec => []LeadAtRestAgrees
<1>1. Init => AtRest
  BY AtRestInit
<1>2. AtRest /\ [Next]_vars => AtRest'
  BY AtRestStep
<1>3. AtRest => LeadAtRestAgrees
  <2>1. \A w \in Worker : req[w].at \in Halfway => req[w].at # "idle"
    BY DEF Halfway
  <2> QED
    BY <2>1 DEF AtRest, RestAgree, LeadAtRestAgrees, Quiet, Agrees
<1> QED
  BY <1>1, <1>2, <1>3, PTL DEF Spec
-----------------------------------------------------------------------------
(* Sums.  SumFunctionOnSet takes the elements of a set in the order of      *)
(* CHOOSE; what a sum is does not depend on it.                            *)

\* f over s, if what it is over smaller sets is g.
SumStep(f, g, s) == IF s = {} THEN 0 ELSE f[CHOOSE x \in s : TRUE] + g[s \ {CHOOSE x \in s : TRUE}]
IsSum(f, g, D) == g = [s \in D |-> SumStep(f, g, s)]

LEMMA SumUnfolds ==
    ASSUME NEW f, NEW S
    PROVE  LET g == CHOOSE h : IsSum(f, h, SUBSET S) IN SumFunctionOnSet(f, S) = g[S]
BY Zenon DEF SumFunctionOnSet, FoldFunctionOnSet, MapThenFoldSet, IsSum, SumStep

\* A fold over the subsets of a finite set exists: up to any size of subset.
LEMMA SumExists ==
    ASSUME NEW f, NEW S, IsFiniteSet(S)
    PROVE  \E g : IsSum(f, g, SUBSET S)
<1> DEFINE UpTo(m) == {s \in SUBSET S : Cardinality(s) <= m}
           Bad == {m \in Nat : ~ \E g : IsSum(f, g, UpTo(m))}
<1>1. \A s \in SUBSET S : IsFiniteSet(s) /\ Cardinality(s) \in Nat /\ Cardinality(s) <= Cardinality(S)
  BY FS_Subset, FS_CardinalityType
<1>2. \A s \in SUBSET S : s # {} => /\ (CHOOSE x \in s : TRUE) \in s
                                    /\ s \ {CHOOSE x \in s : TRUE} \in SUBSET S
                                    /\ Cardinality(s \ {CHOOSE x \in s : TRUE}) = Cardinality(s) - 1
  BY <1>1, FS_RemoveElement
<1>3. Bad = {}
  <2> SUFFICES ASSUME Bad # {} PROVE FALSE
    OBVIOUS
  <2>1. PICK m \in Bad : \A k \in Bad : m <= k
    <3>1. Bad \in SUBSET Nat
      OBVIOUS
    <3> HIDE DEF Bad
    <3> QED
      BY <3>1, LeastNatural
  <2>2. m \in Nat /\ ~ \E g : IsSum(f, g, UpTo(m))
    BY <2>1
  <2>3. CASE m = 0
    <3> DEFINE g == [s \in UpTo(0) |-> 0]
    <3>1. \A s \in UpTo(0) : s = {}
      <4>1. \A s \in UpTo(0) : IsFiniteSet(s) /\ Cardinality(s) = 0
        BY <1>1
      <4> QED
        BY <4>1, FS_EmptySet, Zenon
    <3>2. \A s \in UpTo(0) : g[s] = SumStep(f, g, s)
      BY <3>1, Zenon DEF SumStep
    <3>3. g = [s \in UpTo(0) |-> g[s]]
      OBVIOUS
    <3> HIDE DEF g, UpTo
    <3>4. IsSum(f, g, UpTo(0))
      BY <3>2, <3>3 DEF IsSum
    <3> QED
      BY <3>4, <2>2, <2>3
  <2>4. CASE m # 0
    <3>1. m - 1 \in Nat /\ ~ (m <= m - 1)
      BY <2>2, <2>4
    <3>2. PICK g : IsSum(f, g, UpTo(m - 1))
      <4>1. m - 1 \notin Bad
        BY <2>1, <3>1
      <4> QED
        BY <4>1, <3>1
    <3> DEFINE h == [s \in UpTo(m) |-> SumStep(f, g, s)]
    <3>3. \A s \in UpTo(m - 1) : s \in UpTo(m) /\ g[s] = SumStep(f, g, s)
      <4>1. \A s \in UpTo(m - 1) : s \in UpTo(m)
        BY <1>1, <2>2
      <4> HIDE DEF UpTo
      <4> QED
        BY <4>1, <3>2 DEF IsSum
    <3>4. \A s \in UpTo(m) : s # {} => s \ {CHOOSE x \in s : TRUE} \in UpTo(m - 1)
      BY <1>1, <1>2, <2>2
    <3>5. \A s \in UpTo(m) : h[s] = SumStep(f, h, s)
      <4> HIDE DEF UpTo
      <4>1. \A s \in UpTo(m - 1) : h[s] = g[s]
        BY <3>3
      <4> QED
        BY <3>4, <4>1, <3>3 DEF SumStep
    <3>6. h = [s \in UpTo(m) |-> h[s]]
      OBVIOUS
    <3> HIDE DEF h, UpTo
    <3>7. IsSum(f, h, UpTo(m))
      BY <3>5, <3>6 DEF IsSum
    <3> QED
      BY <3>7, <2>2
  <2> QED
    BY <2>3, <2>4
<1>4. UpTo(Cardinality(S)) = SUBSET S
  BY <1>1
<1>5. Cardinality(S) \in Nat
  BY FS_CardinalityType
<1> HIDE DEF UpTo
<1>6. \E g : IsSum(f, g, UpTo(Cardinality(S)))
  <2>1. Cardinality(S) \notin Bad
    BY <1>3
  <2> QED
    BY <2>1, <1>5
<1> QED
  BY <1>6, <1>4

\* One such fold, chosen for each set.
Fold(f, S) == CHOOSE g : IsSum(f, g, SUBSET S)

LEMMA FoldIs ==
    ASSUME NEW f, NEW S, IsFiniteSet(S)
    PROVE  \A s \in SUBSET S : Fold(f, S)[s] = SumStep(f, Fold(f, S), s)
<1>1. IsSum(f, Fold(f, S), SUBSET S)
  BY SumExists, Zenon DEF Fold
<1> HIDE DEF Fold
<1> QED
  BY <1>1 DEF IsSum

\* Among subsets of a finite set there is one that loses its place with any element.
LEMMA SmallestSet ==
    ASSUME NEW T, IsFiniteSet(T), NEW Bad \in SUBSET SUBSET T, Bad # {}
    PROVE  \E S \in Bad : \A x \in S : S \ {x} \in SUBSET T /\ S \ {x} \notin Bad
<1> DEFINE Sizes == {Cardinality(S) : S \in Bad}
<1>1. \A S \in Bad : IsFiniteSet(S) /\ Cardinality(S) \in Nat
  BY FS_Subset, FS_CardinalityType
<1>2. PICK n \in Sizes : \A k \in Sizes : n <= k
  <2>1. Sizes \in SUBSET Nat /\ Sizes # {}
    BY <1>1
  <2> HIDE DEF Sizes
  <2> QED
    BY <2>1, LeastNatural
<1>3. PICK S \in Bad : Cardinality(S) = n
  BY <1>2
<1>4. ASSUME NEW x \in S PROVE S \ {x} \in SUBSET T /\ S \ {x} \notin Bad
  <2>1. IsFiniteSet(S) /\ Cardinality(S) \in Nat
    BY <1>1
  <2>2. Cardinality(S \ {x}) = n - 1
    BY <1>3, <2>1, FS_RemoveElement
  <2>3. ~ (n <= n - 1)
    BY <1>3, <2>1
  <2> QED
    BY <1>2, <2>2, <2>3
<1> QED
  BY <1>3, <1>4

\* The fold over a larger set says the same of a smaller.
LEMMA FoldWithin ==
    ASSUME NEW f, NEW T, IsFiniteSet(T)
    PROVE  \A S \in SUBSET T : \A s \in SUBSET S : Fold(f, S)[s] = Fold(f, T)[s]
<1> DEFINE Bad == {s \in SUBSET T : \E S \in SUBSET T : s \in SUBSET S /\ Fold(f, S)[s] # Fold(f, T)[s]}
<1>1. ASSUME Bad # {} PROVE FALSE
  <2>1. PICK s \in Bad : \A x \in s : s \ {x} \in SUBSET T /\ s \ {x} \notin Bad
    <3>1. Bad \in SUBSET SUBSET T
      OBVIOUS
    <3> HIDE DEF Bad
    <3> QED
      BY <3>1, <1>1, SmallestSet
  <2>2. PICK S \in SUBSET T : s \in SUBSET S /\ Fold(f, S)[s] # Fold(f, T)[s]
    BY <2>1
  <2>3. IsFiniteSet(S) /\ s \in SUBSET T
    BY <2>2, FS_Subset
  <2>4. Fold(f, S)[s] = SumStep(f, Fold(f, S), s) /\ Fold(f, T)[s] = SumStep(f, Fold(f, T), s)
    BY <2>2, <2>3, FoldIs
  <2>5. s # {}
    BY <2>2, <2>4, Zenon DEF SumStep
  <2> DEFINE t == s \ {CHOOSE x \in s : TRUE}
  <2>6. t \in SUBSET S /\ t \in SUBSET T /\ t \notin Bad
    <3>1. (CHOOSE x \in s : TRUE) \in s
      BY <2>5
    <3> QED
      BY <3>1, <2>1, <2>2
  <2>7. Fold(f, S)[t] = Fold(f, T)[t]
    BY <2>6
  <2> QED
    BY <2>2, <2>4, <2>7, Zenon DEF SumStep
<1> QED
  BY <1>1

\* The sum over nothing is nothing, and that over something is one of its numbers
\* and the sum of the others.
LEMMA SumOfNothing == ASSUME NEW f PROVE SumFunctionOnSet(f, {}) = 0
<1>1. Fold(f, {})[{}] = SumStep(f, Fold(f, {}), {})
  BY FoldIs, FS_EmptySet
<1>2. SumFunctionOnSet(f, {}) = Fold(f, {})[{}]
  BY SumUnfolds, Zenon DEF Fold
<1> QED
  BY <1>1, <1>2, Zenon DEF SumStep

LEMMA SumOfChosen ==
    ASSUME NEW f, NEW S, IsFiniteSet(S), S # {}
    PROVE  LET x == CHOOSE x \in S : TRUE
           IN  SumFunctionOnSet(f, S) = f[x] + SumFunctionOnSet(f, S \ {x})
<1> DEFINE x == CHOOSE x \in S : TRUE
<1>1. S \ {x} \in SUBSET S
  OBVIOUS
<1>2. SumFunctionOnSet(f, S) = Fold(f, S)[S] /\ SumFunctionOnSet(f, S \ {x}) = Fold(f, S \ {x})[S \ {x}]
  BY SumUnfolds, Zenon DEF Fold
<1>3. Fold(f, S)[S] = SumStep(f, Fold(f, S), S)
  BY FoldIs
<1>4. Fold(f, S \ {x})[S \ {x}] = Fold(f, S)[S \ {x}]
  BY <1>1, FoldWithin
<1> QED
  BY <1>2, <1>3, <1>4, Zenon DEF SumStep

LEMMA SumIsNumber ==
    ASSUME NEW f, NEW T, IsFiniteSet(T), \A x \in T : f[x] \in Nat
    PROVE  \A S \in SUBSET T : SumFunctionOnSet(f, S) \in Nat
<1> DEFINE Bad == {S \in SUBSET T : SumFunctionOnSet(f, S) \notin Nat}
<1>1. ASSUME Bad # {} PROVE FALSE
  <2>1. PICK S \in Bad : \A x \in S : S \ {x} \in SUBSET T /\ S \ {x} \notin Bad
    <3>1. Bad \in SUBSET SUBSET T
      OBVIOUS
    <3> HIDE DEF Bad
    <3> QED
      BY <3>1, <1>1, SmallestSet
  <2>2. S # {} /\ IsFiniteSet(S)
    <3>1. SumFunctionOnSet(f, {}) \in Nat
      BY SumOfNothing
    <3> QED
      BY <3>1, <2>1, FS_Subset
  <2> DEFINE x == CHOOSE x \in S : TRUE
  <2>3. x \in S
    BY <2>2
  <2>4. SumFunctionOnSet(f, S) = f[x] + SumFunctionOnSet(f, S \ {x})
    BY <2>2, SumOfChosen
  <2> HIDE DEF x
  <2>5. SumFunctionOnSet(f, S \ {x}) \in Nat
    BY <2>1, <2>3
  <2> QED
    BY <2>1, <2>3, <2>4, <2>5
<1> QED
  BY <1>1

\* Any of the numbers may be the first.
LEMMA SumOfAny ==
    ASSUME NEW f, NEW T, IsFiniteSet(T), \A x \in T : f[x] \in Nat
    PROVE  \A S \in SUBSET T : \A y \in S : SumFunctionOnSet(f, S) = f[y] + SumFunctionOnSet(f, S \ {y})
<1> DEFINE Fine(S) == \A y \in S : SumFunctionOnSet(f, S) = f[y] + SumFunctionOnSet(f, S \ {y})
           Bad == {S \in SUBSET T : ~ Fine(S)}
<1>1. ASSUME Bad # {} PROVE FALSE
  <2>1. PICK S \in Bad : \A x \in S : S \ {x} \in SUBSET T /\ S \ {x} \notin Bad
    <3>1. Bad \in SUBSET SUBSET T
      OBVIOUS
    <3> HIDE DEF Bad
    <3> QED
      BY <3>1, <1>1, SmallestSet
  <2>2. S \in SUBSET T /\ IsFiniteSet(S)
    BY <2>1, FS_Subset
  <2>3. PICK y \in S : SumFunctionOnSet(f, S) # f[y] + SumFunctionOnSet(f, S \ {y})
    BY <2>1
  <2> DEFINE x == CHOOSE x \in S : TRUE
  <2>4. x \in S /\ SumFunctionOnSet(f, S) = f[x] + SumFunctionOnSet(f, S \ {x})
    BY <2>2, <2>3, SumOfChosen
  <2> HIDE DEF x
  <2>5. x # y
    BY <2>3, <2>4
  <2>6. Fine(S \ {x}) /\ Fine(S \ {y})
    BY <2>1, <2>3, <2>4
  <2>7. /\ SumFunctionOnSet(f, S \ {x}) = f[y] + SumFunctionOnSet(f, (S \ {x}) \ {y})
        /\ SumFunctionOnSet(f, S \ {y}) = f[x] + SumFunctionOnSet(f, (S \ {y}) \ {x})
    BY <2>3, <2>4, <2>5, <2>6
  <2>8. (S \ {x}) \ {y} = (S \ {y}) \ {x} /\ (S \ {x}) \ {y} \in SUBSET T
    BY <2>2
  <2>9. SumFunctionOnSet(f, (S \ {x}) \ {y}) \in Nat /\ f[x] \in Nat /\ f[y] \in Nat
    BY <2>2, <2>3, <2>4, <2>8, SumIsNumber
  <2> DEFINE rest == SumFunctionOnSet(f, (S \ {x}) \ {y})
  <2>10. SumFunctionOnSet(f, S \ {x}) = f[y] + rest /\ SumFunctionOnSet(f, S \ {y}) = f[x] + rest
    BY <2>7, <2>8, Zenon
  <2>11. f[x] + (f[y] + rest) = f[y] + (f[x] + rest)
    <3> HIDE DEF rest
    <3> QED
      BY <2>9 DEF rest
  <2> HIDE DEF rest
  <2>12. SumFunctionOnSet(f, S) = f[y] + SumFunctionOnSet(f, S \ {y})
    BY <2>4, <2>10, <2>11, Zenon
  <2> QED
    BY <2>3, <2>12
<1> QED
  BY <1>1

\* A sum goes by the numbers over its set alone.
LEMMA SumOfSame ==
    ASSUME NEW f, NEW g, NEW T, IsFiniteSet(T), \A x \in T : f[x] = g[x]
    PROVE  \A S \in SUBSET T : SumFunctionOnSet(f, S) = SumFunctionOnSet(g, S)
<1> DEFINE Bad == {S \in SUBSET T : SumFunctionOnSet(f, S) # SumFunctionOnSet(g, S)}
<1>1. ASSUME Bad # {} PROVE FALSE
  <2>1. PICK S \in Bad : \A x \in S : S \ {x} \in SUBSET T /\ S \ {x} \notin Bad
    <3>1. Bad \in SUBSET SUBSET T
      OBVIOUS
    <3> HIDE DEF Bad
    <3> QED
      BY <3>1, <1>1, SmallestSet
  <2>2. S # {} /\ IsFiniteSet(S)
    BY <2>1, SumOfNothing, FS_Subset
  <2> DEFINE x == CHOOSE x \in S : TRUE
  <2>3. x \in S
    BY <2>2
  <2>4. SumFunctionOnSet(f, S) = f[x] + SumFunctionOnSet(f, S \ {x}) /\ SumFunctionOnSet(g, S) = g[x] + SumFunctionOnSet(g, S \ {x})
    BY <2>2, SumOfChosen
  <2> HIDE DEF x
  <2>5. SumFunctionOnSet(f, S \ {x}) = SumFunctionOnSet(g, S \ {x})
    BY <2>1, <2>3
  <2> QED
    BY <2>1, <2>3, <2>4, <2>5
<1> QED
  BY <1>1

\* Two sets without a common element.
LEMMA SumOfTwo ==
    ASSUME NEW f, NEW T, IsFiniteSet(T), \A x \in T : f[x] \in Nat, NEW B \in SUBSET T
    PROVE  \A A \in SUBSET T : A \cap B = {} =>
               SumFunctionOnSet(f, A \cup B) = SumFunctionOnSet(f, A) + SumFunctionOnSet(f, B)
<1> DEFINE Bad == {A \in SUBSET T : A \cap B = {} /\ SumFunctionOnSet(f, A \cup B) # SumFunctionOnSet(f, A) + SumFunctionOnSet(f, B)}
<1>1. ASSUME Bad # {} PROVE FALSE
  <2>1. PICK A \in Bad : \A x \in A : A \ {x} \in SUBSET T /\ A \ {x} \notin Bad
    <3>1. Bad \in SUBSET SUBSET T
      OBVIOUS
    <3> HIDE DEF Bad
    <3> QED
      BY <3>1, <1>1, SmallestSet
  <2>2. A \in SUBSET T /\ A \cap B = {} /\ SumFunctionOnSet(f, A \cup B) # SumFunctionOnSet(f, A) + SumFunctionOnSet(f, B)
    BY <2>1
  <2>3. SumFunctionOnSet(f, B) \in Nat
    BY SumIsNumber
  <2>4. A # {}
    <3>1. A = {} => A \cup B = B
      OBVIOUS
    <3> QED
      BY <3>1, <2>2, <2>3, SumOfNothing
  <2>5. PICK x \in A : TRUE
    BY <2>4
  <2>6. SumFunctionOnSet(f, A) = f[x] + SumFunctionOnSet(f, A \ {x})
    BY <2>2, <2>5, SumOfAny
  <2>7. SumFunctionOnSet(f, A \cup B) = f[x] + SumFunctionOnSet(f, (A \cup B) \ {x})
    <3>1. A \cup B \in SUBSET T /\ x \in A \cup B
      BY <2>2, <2>5
    <3> HIDE DEF Bad
    <3> QED
      BY <3>1, SumOfAny
  <2>8. (A \cup B) \ {x} = (A \ {x}) \cup B /\ (A \ {x}) \cap B = {}
    BY <2>2, <2>5
  <2>9. SumFunctionOnSet(f, (A \ {x}) \cup B) = SumFunctionOnSet(f, A \ {x}) + SumFunctionOnSet(f, B)
    BY <2>1, <2>5, <2>8
  <2>10. SumFunctionOnSet(f, A \ {x}) \in Nat /\ f[x] \in Nat
    BY <2>1, <2>2, <2>5, SumIsNumber
  <2> QED
    BY <2>2, <2>3, <2>6, <2>7, <2>8, <2>9, <2>10
<1> QED
  BY <1>1

\* A set in parts that have no common element: the sum of the sums of its parts.
LEMMA SumOfParts ==
    ASSUME NEW f, NEW T, IsFiniteSet(T), \A x \in T : f[x] \in Nat,
           NEW K, IsFiniteSet(K), NEW P, \A k \in K : P[k] \in SUBSET T,
           \A k \in K : \A j \in K : j # k => P[k] \cap P[j] = {},
           NEW g, \A k \in K : g[k] = SumFunctionOnSet(f, P[k])
    PROVE  SumFunctionOnSet(f, UNION {P[k] : k \in K}) = SumFunctionOnSet(g, K)
<1> DEFINE All(J) == UNION {P[k] : k \in J}
           Bad == {J \in SUBSET K : SumFunctionOnSet(f, All(J)) # SumFunctionOnSet(g, J)}
<1>1. ASSUME Bad # {} PROVE FALSE
  <2>1. PICK J \in Bad : \A x \in J : J \ {x} \in SUBSET K /\ J \ {x} \notin Bad
    <3>1. Bad \in SUBSET SUBSET K
      OBVIOUS
    <3> HIDE DEF Bad
    <3> QED
      BY <3>1, <1>1, SmallestSet
  <2>2. J \in SUBSET K /\ SumFunctionOnSet(f, All(J)) # SumFunctionOnSet(g, J) /\ IsFiniteSet(J)
    BY <2>1, FS_Subset
  <2>3. J # {}
    <3>1. All({}) = {}
      OBVIOUS
    <3> HIDE DEF All
    <3> QED
      BY <3>1, <2>2, SumOfNothing
  <2> DEFINE k == CHOOSE x \in J : TRUE
  <2>4. k \in J /\ SumFunctionOnSet(g, J) = g[k] + SumFunctionOnSet(g, J \ {k})
    BY <2>2, <2>3, SumOfChosen
  <2> HIDE DEF k
  <2>5. SumFunctionOnSet(f, All(J \ {k})) = SumFunctionOnSet(g, J \ {k})
    <3> HIDE DEF All
    <3> QED
      BY <2>1, <2>4
  <2>6. All(J) = P[k] \cup All(J \ {k}) /\ P[k] \cap All(J \ {k}) = {} /\ All(J \ {k}) \in SUBSET T /\ P[k] \in SUBSET T
    BY <2>2, <2>4
  <2>7. SumFunctionOnSet(f, All(J)) = SumFunctionOnSet(f, P[k]) + SumFunctionOnSet(f, All(J \ {k}))
    <3> DEFINE rest == All(J \ {k})
               part == P[k]
    <3>1. part \in SUBSET T /\ rest \in SUBSET T /\ part \cap rest = {} /\ All(J) = part \cup rest
      BY <2>6
    <3> HIDE DEF All, Bad, rest, part
    <3>2. SumFunctionOnSet(f, part \cup rest) = SumFunctionOnSet(f, part) + SumFunctionOnSet(f, rest)
      BY <3>1, SumOfTwo
    <3> QED
      BY <3>1, <3>2 DEF rest, part
  <2>8. g[k] = SumFunctionOnSet(f, P[k])
    BY <2>2, <2>4
  <2> QED
    BY <2>2, <2>4, <2>5, <2>7, <2>8, Zenon
<1>2. K \in SUBSET K /\ K \notin Bad
  <2> HIDE DEF All
  <2> QED
    BY <1>1
<1> QED
  BY <1>2

-----------------------------------------------------------------------------
(* The statement and the lists.                                            *)

Amount == [l \in Earned |-> earning[l].amount]
Unpaid == {l \in Earned : ~IsPaid(l)}

LEMMA EarnedRows ==
    ASSUME TypeOK
    PROVE  /\ IsFiniteSet(Earned)
           /\ \A l \in Earned : earning[l] \in Earning /\ Amount[l] \in Nat
<1>1. IsFiniteSet(LeadId)
  BY FS_Interval, PartnerMoneyAssumption DEF LeadId
<1>2. Earned \in SUBSET LeadId
  BY DEF Earned
<1>3. \A l \in Earned : earning[l] \in Earning
  BY DEF Earned, TypeOK
<1>4. \A l \in Earned : earning[l].amount \in Nat
  BY <1>3 DEF Earning
<1> QED
  BY <1>1, <1>2, <1>3, <1>4, FS_Subset DEF Amount

LEMMA AmountIs ==
    ASSUME TypeOK, NEW S \in SUBSET Earned
    PROVE  AmountOf(S) = SumFunctionOnSet(Amount, S) /\ IsFiniteSet(S) /\ AmountOf(S) \in Nat
<1> DEFINE f == [l \in S |-> earning[l].amount]
<1>1. IsFiniteSet(S) /\ IsFiniteSet(Earned) /\ (\A l \in Earned : Amount[l] \in Nat)
  BY EarnedRows, FS_Subset
<1>2. AmountOf(S) = SumFunctionOnSet(f, S)
  <2>1. DOMAIN f = S
    OBVIOUS
  <2> QED
    BY <2>1, Zenon DEF AmountOf, SumFunction
<1>3. \A l \in S : f[l] = Amount[l]
  BY DEF Amount
<1>4. S \in SUBSET S
  OBVIOUS
<1> HIDE DEF f
<1>5. SumFunctionOnSet(f, S) = SumFunctionOnSet(Amount, S)
  BY <1>1, <1>3, <1>4, SumOfSame
<1>6. SumFunctionOnSet(Amount, S) \in Nat
  BY <1>1, SumIsNumber
<1> QED
  BY <1>1, <1>2, <1>5, <1>6

\* A set of earnings in parts: its amount is the sum of those of the parts.
LEMMA AmountOfParts ==
    ASSUME TypeOK, NEW K, IsFiniteSet(K), NEW P, \A k \in K : P[k] \in SUBSET Earned,
           \A k \in K : \A j \in K : j # k => P[k] \cap P[j] = {},
           NEW S, S = UNION {P[k] : k \in K}, NEW g, DOMAIN g = K, \A k \in K : g[k] = AmountOf(P[k])
    PROVE  AmountOf(S) = SumFunction(g)
<1>1. IsFiniteSet(Earned) /\ (\A l \in Earned : Amount[l] \in Nat)
  BY EarnedRows
<1>2. S \in SUBSET Earned
  OBVIOUS
<1>3. \A k \in K : g[k] = SumFunctionOnSet(Amount, P[k])
  BY AmountIs
<1>4. SumFunctionOnSet(Amount, UNION {P[k] : k \in K}) = SumFunctionOnSet(g, K)
  BY <1>1, <1>3, SumOfParts
<1>5. AmountOf(S) = SumFunctionOnSet(Amount, S)
  BY <1>2, AmountIs
<1> QED
  BY <1>4, <1>5 DEF SumFunction

LEMMA LinesAre ==
    ASSUME NEW p, NEW month
    PROVE  /\ LinesOf(p, month) \in SUBSET Earned
           /\ \A l \in Earned : l \in LinesOf(p, month) <=> earning[l].partner = p /\ earning[l].month = month
BY DEF LinesOf

\* The months of a statement add up to the statement.
LEMMA MonthsAddUp ==
    ASSUME TypeOK, NEW p
    PROVE  StatementFor(p).sums.total =
               SumFunction([m \in DOMAIN StatementFor(p).months |-> StatementFor(p).months[m].sums.total])
<1> DEFINE K == {n \in Month : LinesOf(p, n) # {}}
           P == [n \in K |-> LinesOf(p, n)]
           S == {l \in Earned : earning[l].partner = p}
           g == [m \in DOMAIN StatementFor(p).months |-> StatementFor(p).months[m].sums.total]
<1>1. DOMAIN g = K /\ \A n \in K : g[n] = AmountOf(LinesOf(p, n))
  BY DEF StatementFor, MonthOf, Split
<1>2. StatementFor(p).sums.total = AmountOf(S)
  BY DEF StatementFor, Split
<1>3. IsFiniteSet(K)
  <2>1. IsFiniteSet(Month)
    BY FS_Interval, PartnerMoneyAssumption DEF Month
  <2> QED
    BY <2>1, FS_Subset
<1>4. \A n \in K : P[n] \in SUBSET Earned /\ \A j \in K : j # n => P[n] \cap P[j] = {}
  BY LinesAre
<1>5. S = UNION {P[n] : n \in K}
  <2>1. \A l \in S : earning[l].month \in Month
    BY EarnedRows DEF Earning
  <2>2. \A l \in S : earning[l].month \in K /\ l \in P[earning[l].month]
    BY <2>1, LinesAre
  <2>3. \A n \in K : P[n] \subseteq S
    BY LinesAre
  <2> HIDE DEF P, K, S
  <2> QED
    BY <2>2, <2>3
<1>6. \A n \in K : g[n] = AmountOf(P[n])
  BY <1>1
<1> HIDE DEF g, K, P, S
<1>7. AmountOf(S) = SumFunction(g)
  BY <1>1, <1>3, <1>4, <1>5, <1>6, AmountOfParts
<1> QED
  BY <1>2, <1>7 DEF g

\* What the statement calls paid is what the payments to the partner were made for.
LEMMA PaymentsAddUp ==
    ASSUME TypeOK, PaidIsBacked, PaymentCoversItsEarnings, NEW p
    PROVE  StatementFor(p).sums.paid =
               SumFunction([k \in {i \in DOMAIN payments : payments[i].partner = p} |-> AmountOf(payments[k].owed)])
<1> DEFINE K == {i \in DOMAIN payments : payments[i].partner = p}
           P == [k \in K |-> payments[k].owed]
           S == {l \in {i \in Earned : earning[i].partner = p} : IsPaid(l)}
           g == [k \in K |-> AmountOf(payments[k].owed)]
<1>1. StatementFor(p).sums.paid = AmountOf(S)
  BY DEF StatementFor, Split
<1>2. IsFiniteSet(K)
  <2>1. Len(payments) \in Nat /\ DOMAIN payments = 1 .. Len(payments)
    BY LenProperties DEF TypeOK
  <2>2. IsFiniteSet(1 .. Len(payments))
    BY <2>1, FS_Interval
  <2> QED
    BY <2>1, <2>2, FS_Subset
<1>3. \A k \in K : P[k] = {l \in Earned : earning[l].payment = k}
  BY DEF PaymentCoversItsEarnings
<1>4. \A k \in K : P[k] \in SUBSET Earned /\ \A j \in K : j # k => P[k] \cap P[j] = {}
  BY <1>3
<1>5. S = UNION {P[k] : k \in K}
  <2>1. \A l \in S : earning[l].payment \in K
    BY DEF PaidIsBacked, IsPaid
  <2>2. \A l \in S : l \in P[earning[l].payment]
    BY <1>3, <2>1
  <2>3. \A k \in K : \A l \in P[k] : l \in Earned /\ earning[l].payment = k /\ k # 0
    <3>1. 0 \notin DOMAIN payments
      BY LenProperties DEF TypeOK
    <3> QED
      BY <1>3, <3>1
  <2>4. \A k \in K : \A l \in P[k] : l \in S
    BY <2>3 DEF PaidIsBacked, IsPaid
  <2> HIDE DEF P, K, S
  <2> QED
    BY <2>1, <2>2, <2>4
<1>6. DOMAIN g = K /\ \A k \in K : g[k] = AmountOf(P[k])
  OBVIOUS
<1> HIDE DEF g, K, P, S
<1>7. AmountOf(S) = SumFunction(g)
  BY <1>2, <1>4, <1>5, <1>6, AmountOfParts
<1> QED
  BY <1>1, <1>7 DEF g, K

\* A row of a list is of a partner and a month, and the only one of them.
GroupOf(S, l) == S \cap LinesOf(earning[l].partner, earning[l].month)
RowOf(S, l) == [partner |-> earning[l].partner, month |-> earning[l].month,
                amount |-> AmountOf(GroupOf(S, l)), count |-> Cardinality(GroupOf(S, l))]

LEMMA GroupedIs == ASSUME NEW S PROVE Grouped(S) = {RowOf(S, l) : l \in S}
BY DEF Grouped, RowOf, GroupOf

LEMMA RowIs ==
    ASSUME NEW S, NEW l
    PROVE  /\ RowOf(S, l).partner = earning[l].partner /\ RowOf(S, l).month = earning[l].month
           /\ RowOf(S, l).amount = AmountOf(S \cap LinesOf(earning[l].partner, earning[l].month))
BY DEF RowOf, GroupOf

LEMMA GroupedTells ==
    ASSUME NEW S \in SUBSET Earned, NEW p, NEW month
    PROVE  /\ (\E r \in Grouped(S) : r.partner = p /\ r.month = month) <=> \E l \in LinesOf(p, month) : l \in S
           /\ \A r \in Grouped(S) : r.partner = p /\ r.month = month => r.amount = AmountOf(S \cap LinesOf(p, month))
<1>1. ASSUME NEW r \in Grouped(S), r.partner = p, r.month = month
      PROVE  (\E l \in LinesOf(p, month) : l \in S) /\ r.amount = AmountOf(S \cap LinesOf(p, month))
  <2>1. PICK l \in S : r = RowOf(S, l)
    BY GroupedIs
  <2>2. earning[l].partner = p /\ earning[l].month = month /\ r.amount = AmountOf(S \cap LinesOf(earning[l].partner, earning[l].month))
    BY <1>1, <2>1, RowIs
  <2>3. l \in LinesOf(p, month)
    BY <2>2, LinesAre
  <2> QED
    BY <2>2, <2>3
<1>2. ASSUME NEW l \in LinesOf(p, month), l \in S
      PROVE  \E r \in Grouped(S) : r.partner = p /\ r.month = month
  <2>1. RowOf(S, l) \in Grouped(S)
    BY <1>2, GroupedIs
  <2>2. RowOf(S, l).partner = p /\ RowOf(S, l).month = month
    <3>1. earning[l].partner = p /\ earning[l].month = month
      BY DEF LinesOf
    <3> QED
      BY <3>1, RowIs, Zenon
  <2> QED
    BY <2>1, <2>2
<1> QED
  BY <1>1, <1>2

\* A month of the statement tells what the lists tell.
LEMMA MonthsTell ==
    ASSUME TypeOK, NEW p, NEW month \in DOMAIN StatementFor(p).months
    PROVE  LET s == StatementFor(p) IN
           /\ s.months[month].status = "PAID" <=> ~\E r \in OwedByPartnerMonth : r.partner = p /\ r.month = month
           /\ \A r \in OwedByPartnerMonth : r.partner = p /\ r.month = month => r.amount = s.months[month].sums.outstanding
           /\ \A r \in PaidByPartnerMonth : r.partner = p /\ r.month = month => r.amount = s.months[month].sums.paid
<1> DEFINE settled == {l \in Earned : IsPaid(l)}
<1>1. StatementFor(p).months[month] = MonthOf(p, month)
  BY DEF StatementFor
<1>2. /\ StatementFor(p).months[month].sums.outstanding = AmountOf({l \in LinesOf(p, month) : ~IsPaid(l)})
      /\ StatementFor(p).months[month].sums.paid = AmountOf({l \in LinesOf(p, month) : IsPaid(l)})
      /\ StatementFor(p).months[month].status = "PAID" <=> \A l \in LinesOf(p, month) : IsPaid(l)
  BY <1>1 DEF MonthOf, Split
<1>3. OwedByPartnerMonth = Grouped(Unpaid) /\ PaidByPartnerMonth = Grouped(settled)
  BY DEF OwedByPartnerMonth, PaidByPartnerMonth, Unpaid
<1>4. Unpaid \cap LinesOf(p, month) = {l \in LinesOf(p, month) : ~IsPaid(l)} /\ settled \cap LinesOf(p, month) = {l \in LinesOf(p, month) : IsPaid(l)}
  BY LinesAre DEF Unpaid
<1>5. (\E l \in LinesOf(p, month) : l \in Unpaid) <=> \E l \in LinesOf(p, month) : ~IsPaid(l)
  BY LinesAre DEF Unpaid
<1>6. Unpaid \in SUBSET Earned /\ settled \in SUBSET Earned
  BY DEF Unpaid
<1> HIDE DEF settled
<1>7. \A S \in SUBSET Earned :
          /\ (\E r \in Grouped(S) : r.partner = p /\ r.month = month) <=> \E l \in LinesOf(p, month) : l \in S
          /\ \A r \in Grouped(S) : r.partner = p /\ r.month = month => r.amount = AmountOf(S \cap LinesOf(p, month))
  BY GroupedTells
<1>8. /\ (\E r \in Grouped(Unpaid) : r.partner = p /\ r.month = month) <=> \E l \in LinesOf(p, month) : l \in Unpaid
      /\ \A r \in Grouped(Unpaid) : r.partner = p /\ r.month = month => r.amount = AmountOf(Unpaid \cap LinesOf(p, month))
      /\ \A r \in Grouped(settled) : r.partner = p /\ r.month = month => r.amount = AmountOf(settled \cap LinesOf(p, month))
  <2>1. \A r \in Grouped(settled) : r.partner = p /\ r.month = month => r.amount = AmountOf(settled \cap LinesOf(p, month))
    BY <1>6, <1>7
  <2>2. /\ (\E r \in Grouped(Unpaid) : r.partner = p /\ r.month = month) <=> \E l \in LinesOf(p, month) : l \in Unpaid
        /\ \A r \in Grouped(Unpaid) : r.partner = p /\ r.month = month => r.amount = AmountOf(Unpaid \cap LinesOf(p, month))
    BY <1>6, <1>7
  <2> QED
    BY <2>1, <2>2, Zenon
<1>9. /\ \A r \in OwedByPartnerMonth : r.partner = p /\ r.month = month => r.amount = StatementFor(p).months[month].sums.outstanding
      /\ \A r \in PaidByPartnerMonth : r.partner = p /\ r.month = month => r.amount = StatementFor(p).months[month].sums.paid
  BY <1>2, <1>3, <1>4, <1>8, Zenon
<1>10. StatementFor(p).months[month].status = "PAID" <=> ~\E r \in OwedByPartnerMonth : r.partner = p /\ r.month = month
  <2>1. (\A l \in LinesOf(p, month) : IsPaid(l)) <=> ~\E l \in LinesOf(p, month) : ~IsPaid(l)
    OBVIOUS
  <2> QED
    BY <2>1, <1>2, <1>3, <1>5, <1>8, Zenon
<1> QED
  BY <1>9, <1>10, Zenon

\* What is owed in all, by the rows of the list and by the statements.
LEMMA PartnersAddUp ==
    ASSUME TypeOK, IsFiniteSet(Partner)
    PROVE  Outstanding = SumFunction([p \in Partner |-> StatementFor(p).sums.outstanding])
<1> DEFINE g == [p \in Partner |-> StatementFor(p).sums.outstanding]
           P == [p \in Partner |-> {l \in {i \in Earned : earning[i].partner = p} : ~IsPaid(l)}]
           h == [r \in OwedByPartnerMonth |-> r.amount]
           Q == [r \in OwedByPartnerMonth |-> {l \in Unpaid : earning[l].partner = r.partner /\ earning[l].month = r.month}]
<1>1. AmountOf(Unpaid) = SumFunction(g)
  <2>1. DOMAIN g = Partner /\ \A p \in Partner : g[p] = AmountOf(P[p])
    BY DEF StatementFor, Split
  <2>2. \A p \in Partner : P[p] \in SUBSET Earned /\ \A q \in Partner : q # p => P[p] \cap P[q] = {}
    OBVIOUS
  <2>3. Unpaid = UNION {P[p] : p \in Partner}
    <3>1. \A l \in Unpaid : earning[l].partner \in Partner
      BY EarnedRows DEF Unpaid, Earning
    <3> QED
      BY <3>1 DEF Unpaid
  <2> HIDE DEF g, P
  <2> QED
    BY <2>1, <2>2, <2>3, AmountOfParts
<1>2. OwedByPartnerMonth = {RowOf(Unpaid, l) : l \in Unpaid}
  BY GroupedIs DEF OwedByPartnerMonth, Unpaid
<1>3. \A l : RowOf(Unpaid, l).partner = earning[l].partner /\ RowOf(Unpaid, l).month = earning[l].month /\ RowOf(Unpaid, l).amount = AmountOf(GroupOf(Unpaid, l))
  BY DEF RowOf
<1>4. \A l, k : earning[l].partner = earning[k].partner /\ earning[l].month = earning[k].month => RowOf(Unpaid, l) = RowOf(Unpaid, k)
  BY DEF RowOf, GroupOf
<1>5. AmountOf(Unpaid) = SumFunction(h)
  <2>1. \A r \in OwedByPartnerMonth : Q[r] \in SUBSET Earned
    BY DEF Unpaid
  <2>2. \A r \in OwedByPartnerMonth : h[r] = AmountOf(Q[r])
    <3> SUFFICES ASSUME NEW r \in OwedByPartnerMonth PROVE r.amount = AmountOf(Q[r])
      OBVIOUS
    <3>1. PICK l \in Unpaid : r = RowOf(Unpaid, l)
      BY <1>2
    <3>2. Q[r] = GroupOf(Unpaid, l)
      BY <3>1, <1>3, LinesAre DEF GroupOf, Unpaid
    <3> QED
      BY <3>1, <3>2, <1>3
  <2>3. \A r \in OwedByPartnerMonth : \A q \in OwedByPartnerMonth : q # r => Q[r] \cap Q[q] = {}
    <3> SUFFICES ASSUME NEW r \in OwedByPartnerMonth, NEW q \in OwedByPartnerMonth, NEW k \in Q[r], k \in Q[q]
                 PROVE  r = q
      OBVIOUS
    <3>1. PICK l \in Unpaid : r = RowOf(Unpaid, l)
      BY <1>2
    <3>2. PICK m \in Unpaid : q = RowOf(Unpaid, m)
      BY <1>2
    <3>3. earning[k].partner = r.partner /\ earning[k].month = r.month /\ earning[k].partner = q.partner /\ earning[k].month = q.month
      OBVIOUS
    <3> QED
      BY <3>1, <3>2, <3>3, <1>3, <1>4, Zenon
  <2>4. Unpaid = UNION {Q[r] : r \in OwedByPartnerMonth}
    <3>1. \A l \in Unpaid : RowOf(Unpaid, l) \in OwedByPartnerMonth /\ l \in Q[RowOf(Unpaid, l)]
      BY <1>2, <1>3
    <3>2. \A r \in OwedByPartnerMonth : Q[r] \subseteq Unpaid
      OBVIOUS
    <3> HIDE DEF Q
    <3> QED
      BY <3>1, <3>2
  <2>5. IsFiniteSet(OwedByPartnerMonth)
    <3>1. IsFiniteSet(Unpaid)
      BY EarnedRows, FS_Subset DEF Unpaid
    <3> DEFINE f == [l \in Unpaid |-> RowOf(Unpaid, l)]
    <3>2. f \in Surjection(Unpaid, OwedByPartnerMonth)
      BY <1>2 DEF Surjection
    <3> HIDE DEF f
    <3> QED
      BY <3>1, <3>2, FS_Surjection
  <2>6. DOMAIN h = OwedByPartnerMonth
    OBVIOUS
  <2> HIDE DEF h, Q
  <2> QED
    BY <2>1, <2>2, <2>3, <2>4, <2>5, <2>6, AmountOfParts
<1> QED
  BY <1>1, <1>5 DEF Outstanding

LEMMA BooksFit ==
    ASSUME TypeOK, PaidIsBacked, PaymentCoversItsEarnings, IsFiniteSet(Partner)
    PROVE  BooksAgree
<1>1. ASSUME NEW p \in Partner
      PROVE  LET s == StatementFor(p) IN
             /\ s.sums.total = SumFunction([m \in DOMAIN s.months |-> s.months[m].sums.total])
             /\ s.sums.paid = SumFunction([k \in {i \in DOMAIN payments : payments[i].partner = p} |-> AmountOf(payments[k].owed)])
             /\ \A month \in DOMAIN s.months :
                 /\ s.months[month].status = "PAID" <=> ~\E r \in OwedByPartnerMonth : r.partner = p /\ r.month = month
                 /\ \A r \in OwedByPartnerMonth : r.partner = p /\ r.month = month => r.amount = s.months[month].sums.outstanding
                 /\ \A r \in PaidByPartnerMonth : r.partner = p /\ r.month = month => r.amount = s.months[month].sums.paid
  BY MonthsAddUp, PaymentsAddUp, MonthsTell, Zenon
<1> QED
  BY <1>1, PartnersAddUp, Zenon DEF BooksAgree, StatementsAgree

\* While requests are taken one at a time, the books agree, also when requests die
\* half-way: a payment is the sum of what it settled; the months of a partner's
\* statement add up to it, what it calls paid is what the payments were made for,
\* and what is owed in all is what the statements leave open.  Partners are finitely
\* many, or there is no sum over them.
THEOREM BooksStayRight ==
    ASSUME OneAtATime, IsFiniteSet(Partner)
    PROVE  Spec => []BooksAgree
<1>1. TypeOK /\ PaidIsBacked /\ PaymentCoversItsEarnings => BooksAgree
  BY BooksFit
<1> QED
  BY <1>1, TypeCorrect, PaidAlwaysBacked, PaymentsCoverTheirEarnings, PTL
=============================================================================
