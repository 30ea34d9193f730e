---------------------------- MODULE PartnerMoney ----------------------------
(***************************************************************************)
(* Leads, calls, earnings and payouts of the partner network: the services *)
(* of src/src/modules/leads and src/src/modules/earnings.                  *)
(*                                                                         *)
(* A request is an async handler.  Every repository call is an await, so   *)
(* the handlers of different requests interleave between any two of them;  *)
(* none of these handlers opens a transaction except recordPayment.  A     *)
(* worker is one request in flight; req[w].at names the repository call it *)
(* makes next, and the other fields are the handler's local variables,     *)
(* which may be stale by the time they are used.  One action is one        *)
(* repository call together with the code up to the next one.              *)
(*                                                                         *)
(* Abstracted: who the customer is beyond a mobile number, notes, call     *)
(* times, payment method and reference, push messages, and the role scope  *)
(* of the staff actor (an ADMIN may make every one of these requests).     *)
(***************************************************************************)
EXTENDS Naturals, Sequences, FiniteSets

CONSTANTS
    Worker,       \* requests in flight at the same time
    Partner,      \* approved partners
    FlatPaid,     \* the partners whose type is in FLAT_PAY_TYPES
    FlatAmount,   \* FLAT_AMOUNT of commission.js
    Mobile,       \* customer mobile numbers
    Plan,         \* a speed and a billing period
    RateCard,     \* the RateCard rows
    Targets,      \* bound: the statuses staff move leads to
    Outcomes,     \* bound: the call outcomes that are logged
    MaxMonth,     \* bound: the clock runs through months 1..MaxMonth
    MaxLeads,     \* bound: rows in Lead
    MaxPayments,  \* bound: rows in PartnerPayment
    MayFail,      \* whether a request may die at an await
    None          \* null

ASSUME PartnerMoneyAssumption ==
    /\ FlatPaid \subseteq Partner
    /\ FlatAmount \in Nat
    /\ MaxMonth \in Nat \ {0}
    /\ MaxLeads \in Nat
    /\ MaxPayments \in Nat
    /\ MayFail \in BOOLEAN
    /\ RateCard \subseteq [plan: Plan, from: 1..MaxMonth, amount: Nat]
    \* the unique index on speed, period and effectiveFrom
    /\ \A r, q \in RateCard : r.plan = q.plan /\ r.from = q.from => r = q
    /\ None \notin Partner \cup Mobile \cup Plan

Status == {"NEW", "CONTACTED", "INTERESTED", "CONVERTED",
           "NOT_INTERESTED", "UNREACHABLE", "DUPLICATE"}

\* A lead in one of these states does not block a retry by another partner.
Closed == {"NOT_INTERESTED", "UNREACHABLE", "DUPLICATE"}

\* Fault: the outcome stored as the status.
OutcomeAsStatus == [o \in {"INTERESTED", "CALL_LATER", "NOT_REACHABLE",
                           "WRONG_NUMBER"} |-> o]

OutcomeStatus == [INTERESTED    |-> "INTERESTED",
                  CALL_LATER    |-> "CONTACTED",
                  NOT_REACHABLE |-> "UNREACHABLE",
                  WRONG_NUMBER  |-> "NOT_INTERESTED"]

Outcome == DOMAIN OutcomeStatus

ASSUME PartnerMoneyEnumerations ==
    /\ None \notin Status \cup Outcome
    /\ Targets \subseteq Status
    /\ Outcomes \subseteq Outcome

Month  == 1..MaxMonth
LeadId == 1..MaxLeads

VARIABLES
    leads,     \* the Lead table in the order of createdAt; a lead's id is its index
    earning,   \* the PartnerEarning row of each lead (leadId is unique), or NoEarning
    payments,  \* the PartnerPayment table, in the order of insertion
    event,     \* the toStatus of the newest LeadStatusEvent of each lead
    call,      \* the outcome of the newest LeadCall of each lead
    now,       \* the current month
    req        \* the requests in flight

vars == <<leads, earning, payments, event, call, now, req>>

\* nextCallAt is kept as whether it is set; duplicateOf = 0 is null.
Lead == [partner: Partner, mobile: Mobile, status: Status,
         nextCall: BOOLEAN, duplicateOf: 0..MaxLeads]

\* payment = 0 is null.
Earning == [partner: Partner, plan: Plan, amount: Nat, month: Month,
            status: {"AWAITING_PAYMENT", "PAID"}, payment: Nat]

NoEarning == [status |-> "NONE"]

\* amountOwed is the sum over a set of earnings; the row keeps the set.
Payment == [partner: Partner, month: Month, owed: SUBSET LeadId]

Step == {"idle", "create_lead", "find_for_lead", "find_existing",
         "create_earning", "find_to_revoke", "delete_earning", "update_lead",
         "create_call", "update_called", "record_event", "record_payment"}

Request == [at: Step,
            lead: 0..MaxLeads,           \* the lead worked on, or the claim found
            seen: Status \cup {None},    \* lead.status as read
            to: Status \cup {None},
            outcome: Outcome \cup {None},
            partner: Partner \cup {None},
            mobile: Mobile \cup {None},
            plan: Plan \cup {None},
            amount: Nat,
            month: 0..MaxMonth,
            owed: SUBSET LeadId]

Idle == [at |-> "idle", lead |-> 0, seen |-> None, to |-> None,
         outcome |-> None, partner |-> None, mobile |-> None, plan |-> None,
         amount |-> 0, month |-> 0, owed |-> {}]

-----------------------------------------------------------------------------
(* What the repositories' queries return and write.  An operator marked     *)
(* "Fault" is a slip the code could have had and has not: the properties   *)
(* are tested by putting it in the place of the definition below it.       *)

\* Fault: only an untouched lead holds a claim.
UntouchedClaims(m) ==
    {l \in DOMAIN leads : leads[l].mobile = m /\ leads[l].status = "NEW"}

\* Fault: any customer's open lead counts.
AnyClaims(m) == {l \in DOMAIN leads : leads[l].status \notin Closed}

\* leadRepository.findOpenByMobile: the oldest lead with an open claim, or 0.
OpenClaims(m) ==
    {l \in DOMAIN leads : leads[l].mobile = m /\ leads[l].status \notin Closed}

FindOpen(m) ==
    IF OpenClaims(m) = {} THEN 0
    ELSE CHOOSE l \in OpenClaims(m) : \A k \in OpenClaims(m) : l <= k

\* Fault: the latest row, in force or not.
FindLatestRate(p, at) ==
    {r \in RateCard : r.plan = p /\ \A q \in RateCard : q.plan = p => q.from <= r.from}

\* rateCardRepository.findRate: the newest row in force at that month, if any.
FindRate(p, at) ==
    {r \in RateCard : /\ r.plan = p
                      /\ r.from <= at
                      /\ \A q \in RateCard :
                            q.plan = p /\ q.from <= at => q.from <= r.from}

Commission(p, rate) == IF p \in FlatPaid THEN FlatAmount ELSE rate.amount

Earned == {l \in LeadId : earning[l] # NoEarning}

\* The AWAITING_PAYMENT rows of one partner and month.
Awaiting(p, month) ==
    {l \in Earned : /\ earning[l].status = "AWAITING_PAYMENT"
                    /\ earning[l].partner = p
                    /\ earning[l].month = month}

\* Faults: a filter left out.
AwaitingAnyMonth(p, month) == UNION {Awaiting(p, m) : m \in Month}
EarnedThatMonth(p, month) ==
    {l \in Earned : earning[l].partner = p /\ earning[l].month = month}

\* The rows owedByPartnerMonth sums into one partner-month, and the rows
\* recordPayment settles: each filters by its own WHERE.
Owed(p, month)    == Awaiting(p, month)
Settled(p, month) == Awaiting(p, month)

Working(at) == {w \in Worker : req[w].at = at}

Continue(w, r) == req' = [req EXCEPT ![w] = r]

\* The locals a handler still uses once it is about to write the lead.
ToUpdate(w)    == Continue(w, [Idle EXCEPT !.at = "update_lead", !.lead = req[w].lead,
                                           !.seen = req[w].seen, !.to = req[w].to])
Goto(w, step)  == req' = [req EXCEPT ![w].at = step]
Finish(w)      == req' = [req EXCEPT ![w] = Idle]
-----------------------------------------------------------------------------
(* capture: a partner sends a customer in.                                 *)

Capture(w, p, m) ==
    /\ req[w].at = "idle"
    /\ Len(leads) + Cardinality(Working("create_lead")) < MaxLeads
    /\ Continue(w, [Idle EXCEPT !.at = "create_lead", !.partner = p,
                                !.mobile = m, !.lead = FindOpen(m)])
    /\ UNCHANGED <<leads, earning, payments, event, call, now>>

CreateLead(w) ==
    LET r      == req[w]
        status == IF r.lead = 0 THEN "NEW" ELSE "DUPLICATE"
    IN  /\ r.at = "create_lead"
        /\ Len(leads) < MaxLeads
        /\ leads' = Append(leads, [partner |-> r.partner, mobile |-> r.mobile,
                                   status |-> status, nextCall |-> FALSE,
                                   duplicateOf |-> r.lead])
        /\ Continue(w, [Idle EXCEPT !.at = "record_event", !.to = status,
                                    !.lead = Len(leads) + 1])
        /\ UNCHANGED <<earning, payments, event, call, now>>
-----------------------------------------------------------------------------
(* changeStatus: staff move a lead along.                                  *)

NextStep(seen, to) == IF to = "CONVERTED" THEN "find_for_lead"
                      ELSE IF seen = "CONVERTED" THEN "find_to_revoke"
                      ELSE "update_lead"

ChangeStatus(w, l, to, plan) ==
    /\ req[w].at = "idle"
    /\ l \in DOMAIN leads
    /\ plan # None => to = "CONVERTED"
    /\ LET seen == leads[l].status
       IN  Continue(w, [Idle EXCEPT !.at = NextStep(seen, to), !.lead = l,
                                    !.seen = seen, !.to = to, !.plan = plan])
    /\ UNCHANGED <<leads, earning, payments, event, call, now>>

\* Without a plan a conversion with no earning yet is refused; with one,
\* recordConversion starts and takes the time of the conversion.
FindForLead(w) ==
    LET r == req[w] IN
    /\ r.at = "find_for_lead"
    /\ \/ /\ r.lead \in Earned
          /\ ToUpdate(w)
       \/ /\ r.lead \notin Earned
          /\ r.plan = None
          /\ Finish(w)
       \/ /\ r.lead \notin Earned
          /\ r.plan # None
          /\ Continue(w, [r EXCEPT !.at = "find_existing", !.month = now])
    /\ UNCHANGED <<leads, earning, payments, event, call, now>>

\* The rate card and the partner's type are fixed while a request runs, so
\* reading them shares the step of the earning's lookup.
FindExisting(w) ==
    LET r == req[w] IN
    /\ r.at = "find_existing"
    /\ \/ /\ r.lead \in Earned
          /\ ToUpdate(w)
       \/ /\ r.lead \notin Earned
          /\ FindRate(r.plan, r.month) = {}
          /\ Finish(w)
       \/ /\ r.lead \notin Earned
          /\ \E rate \in FindRate(r.plan, r.month) :
                Continue(w, [r EXCEPT
                    !.at = "create_earning",
                    !.amount = Commission(leads[r.lead].partner, rate)])
    /\ UNCHANGED <<leads, earning, payments, event, call, now>>

\* The unique index on leadId turns a second insert into a 409.
CreateEarning(w) ==
    LET r == req[w] IN
    /\ r.at = "create_earning"
    /\ \/ /\ r.lead \in Earned
          /\ Finish(w)
          /\ UNCHANGED earning
       \/ /\ r.lead \notin Earned
          /\ earning' = [earning EXCEPT ![r.lead] =
                           [partner |-> leads[r.lead].partner, plan |-> r.plan,
                            amount |-> r.amount, month |-> r.month,
                            status |-> "AWAITING_PAYMENT", payment |-> 0]]
          /\ ToUpdate(w)
    /\ UNCHANGED <<leads, payments, event, call, now>>

\* Fault: a paid earning is withdrawn like any other.
FindToRevokeUnchecked(w) ==
    /\ req[w].at = "find_to_revoke"
    /\ IF earning[req[w].lead] = NoEarning THEN ToUpdate(w) ELSE Goto(w, "delete_earning")
    /\ UNCHANGED <<leads, earning, payments, event, call, now>>

\* revokeConversion: a paid earning refuses the move with a 409.
FindToRevoke(w) ==
    LET e == earning[req[w].lead] IN
    /\ req[w].at = "find_to_revoke"
    /\ \/ e = NoEarning /\ ToUpdate(w)
       \/ e.status = "PAID" /\ Finish(w)
       \/ e.status = "AWAITING_PAYMENT" /\ Goto(w, "delete_earning")
    /\ UNCHANGED <<leads, earning, payments, event, call, now>>

\* deleteByLeadId deletes whatever row the lead has by now.
DeleteEarning(w) ==
    /\ req[w].at = "delete_earning"
    /\ earning' = [earning EXCEPT ![req[w].lead] = NoEarning]
    /\ ToUpdate(w)
    /\ UNCHANGED <<leads, payments, event, call, now>>

UpdateLead(w) ==
    /\ req[w].at = "update_lead"
    /\ leads' = [leads EXCEPT ![req[w].lead].status = req[w].to]
    /\ Goto(w, "record_event")
    /\ UNCHANGED <<earning, payments, event, call, now>>

\* leadRepository.recordEvent, the last call of capture, changeStatus and of a
\* logCall that moved its lead.
RecordEvent(w) ==
    /\ req[w].at = "record_event"
    /\ event' = [event EXCEPT ![req[w].lead] = req[w].to]
    /\ Finish(w)
    /\ UNCHANGED <<leads, earning, payments, call, now>>
-----------------------------------------------------------------------------
(* logCall: a finished call with its outcome.                              *)

LogCall(w, l, o) ==
    /\ req[w].at = "idle"
    /\ l \in DOMAIN leads
    /\ Continue(w, [Idle EXCEPT !.at = "create_call", !.lead = l, !.outcome = o,
                                !.seen = leads[l].status, !.to = OutcomeStatus[o]])
    /\ UNCHANGED <<leads, earning, payments, event, call, now>>

CreateCall(w) ==
    /\ req[w].at = "create_call"
    /\ call' = [call EXCEPT ![req[w].lead] = req[w].outcome]
    /\ Goto(w, "update_called")
    /\ UNCHANGED <<leads, earning, payments, event, now>>

\* A converted lead is not moved, by the status read before the call was saved.
CallMoves(seen, to) == seen # "CONVERTED" /\ to # seen

\* Fault: nobody answered, so the lead stays on the due list.
CallsBackOnSilence(outcome) == outcome \in {"CALL_LATER", "NOT_REACHABLE"}

\* Only CALL_LATER carries a callbackAt.
CallsBack(outcome) == outcome = "CALL_LATER"

UpdateCalled(w) ==
    LET r     == req[w]
        moves == CallMoves(r.seen, r.to)
    IN  /\ r.at = "update_called"
        /\ leads' = [leads EXCEPT
                       ![r.lead].status = IF moves THEN r.to ELSE @,
                       ![r.lead].nextCall = CallsBack(r.outcome)]
        /\ IF moves THEN Goto(w, "record_event") ELSE Finish(w)
        /\ UNCHANGED <<earning, payments, event, call, now>>
-----------------------------------------------------------------------------
(* markPaid: Accounts settle one partner-month.                            *)

MarkPaid(w, p, month) ==
    /\ req[w].at = "idle"
    /\ Len(payments) + Cardinality(Working("record_payment")) < MaxPayments
    /\ Owed(p, month) # {}
    /\ Continue(w, [Idle EXCEPT !.at = "record_payment", !.partner = p,
                                !.month = month, !.owed = Owed(p, month)])
    /\ UNCHANGED <<leads, earning, payments, event, call, now>>

\* One transaction: insert the payment, settle what is awaiting by then.
RecordPayment(w) ==
    LET r == req[w] IN
    /\ r.at = "record_payment"
    /\ Len(payments) < MaxPayments
    /\ payments' = Append(payments, [partner |-> r.partner, month |-> r.month,
                                     owed |-> r.owed])
    /\ earning' = [l \in LeadId |->
                     IF l \in Settled(r.partner, r.month)
                     THEN [earning[l] EXCEPT !.status = "PAID",
                                             !.payment = Len(payments) + 1]
                     ELSE earning[l]]
    /\ Finish(w)
    /\ UNCHANGED <<leads, event, call, now>>
-----------------------------------------------------------------------------
\* A database error or a restart ends a request between two of its calls;
\* what it already wrote stays, what it held is lost.
Fail(w) ==
    /\ MayFail
    /\ req[w].at # "idle"
    /\ Finish(w)
    /\ UNCHANGED <<leads, earning, payments, event, call, now>>

NextMonth ==
    /\ now < MaxMonth
    /\ now' = now + 1
    /\ UNCHANGED <<leads, earning, payments, event, call, req>>

Init ==
    /\ leads = <<>>
    /\ earning = [l \in LeadId |-> NoEarning]
    /\ payments = <<>>
    /\ event = [l \in LeadId |-> None]
    /\ call = [l \in LeadId |-> None]
    /\ now = 1
    /\ req = [w \in Worker |-> Idle]

Start(w) ==
    \/ \E p \in Partner, m \in Mobile : Capture(w, p, m)
    \/ \E l \in LeadId, to \in Targets, plan \in Plan \cup {None} :
          ChangeStatus(w, l, to, plan)
    \/ \E l \in LeadId, o \in Outcomes : LogCall(w, l, o)
    \/ \E p \in Partner, month \in Month : MarkPaid(w, p, month)

Proceed(w) ==
    \/ CreateLead(w) \/ FindForLead(w) \/ FindExisting(w) \/ CreateEarning(w)
    \/ FindToRevoke(w) \/ DeleteEarning(w) \/ UpdateLead(w) \/ RecordEvent(w)
    \/ CreateCall(w) \/ UpdateCalled(w) \/ RecordPayment(w)

Next ==
    \/ \E w \in Worker : Start(w) \/ Proceed(w) \/ Fail(w)
    \/ NextMonth

Spec == Init /\ [][Next]_vars
-----------------------------------------------------------------------------
(* Properties.                                                             *)

\* The tables hold rows of the schema and a request the locals of its handler:
\* in particular only a LeadStatus is ever written to a lead.
TypeOK ==
    /\ leads \in Seq(Lead)
    /\ Len(leads) <= MaxLeads
    /\ earning \in [LeadId -> Earning \cup {NoEarning}]
    /\ payments \in Seq(Payment)
    /\ event \in [LeadId -> Status \cup {None}]
    /\ call \in [LeadId -> Outcome \cup {None}]
    /\ now \in Month
    /\ req \in [Worker -> Request]

\* No request works on the lead.
Quiet(l) == \A w \in Worker : req[w].at # "idle" => req[w].lead # l

\* A PAID earning, and no other, is linked to a payment, and that payment was
\* made to the earning's partner for the earning's month.
PaidIsBacked ==
    \A l \in Earned :
        IF earning[l].status = "PAID"
        THEN /\ earning[l].payment \in DOMAIN payments
             /\ payments[earning[l].payment].partner = earning[l].partner
             /\ payments[earning[l].payment].month = earning[l].month
        ELSE earning[l].payment = 0

\* An earning is a snapshot: while its row exists, who earned what for which
\* plan in which month never changes, and once PAID nothing in it does, so no
\* second payment re-stamps it.
EarningIsFrozen ==
    [][\A l \in LeadId : l \in Earned /\ l \in Earned' =>
          IF earning[l].status = "PAID" THEN earning'[l] = earning[l]
          ELSE earning'[l] = [earning[l] EXCEPT !.status = earning'[l].status,
                                                !.payment = earning'[l].payment]]_vars

RateInForce(p, plan, month, amount) ==
    \E r \in RateCard :
        /\ r.plan = plan
        /\ r.from <= month
        /\ \A q \in RateCard : q.plan = plan /\ q.from > r.from => q.from > month
        /\ amount = IF p \in FlatPaid THEN FlatAmount ELSE r.amount

\* The amount is the partner's flat fee, or what the rate card said for the plan
\* in the month of the conversion, however late the row was written.
AmountIsRateInForce ==
    \A l \in Earned :
        RateInForce(earning[l].partner, earning[l].plan, earning[l].month, earning[l].amount)

\* A duplicate points at an earlier lead of the same customer, so the chain of
\* claims is finite and stays within one customer.
ClaimChain ==
    \A l \in DOMAIN leads : leads[l].duplicateOf # 0 =>
        /\ leads[l].duplicateOf < l
        /\ leads[leads[l].duplicateOf].mobile = leads[l].mobile

\* What a handler holds in its locals stays true of the tables ls while other
\* requests run: leads are never deleted, nor do they change hands.
LocalOK(r, ls) ==
    /\ r.at \notin {"idle", "create_lead", "record_payment"} =>
          r.lead \in DOMAIN ls /\ r.to \in Status
    /\ r.at = "create_lead" =>
          /\ r.partner \in Partner
          /\ r.mobile \in Mobile
          /\ r.lead # 0 => r.lead \in DOMAIN ls /\ ls[r.lead].mobile = r.mobile
    /\ r.at \in {"create_call", "update_called"} => r.outcome \in Outcome
    /\ r.at \in {"find_existing", "create_earning"} => r.plan \in Plan /\ r.month \in Month
    /\ r.at = "create_earning" =>
          RateInForce(ls[r.lead].partner, r.plan, r.month, r.amount)
    /\ r.at = "record_payment" => r.partner \in Partner /\ r.month \in Month

\* Every handler in flight still holds what its next write relies on: the lead it
\* read exists, the claim it found is on the same customer, the amount it is about
\* to write is the one in force.  With TypeOK this is inductive.
LocalsOK == \A w \in Worker : LocalOK(req[w], leads)

\* The first referral keeps the claim: a captured lead is open only if nobody
\* else has an open lead for that customer at that moment.
FirstClaim ==
    [][\A l \in DOMAIN leads' \ DOMAIN leads :
          leads'[l].status \notin Closed =>
              \A k \in DOMAIN leads :
                  leads[k].mobile = leads'[l].mobile => leads[k].status \in Closed]_vars

\* A lead no request works on agrees with everything told about it, whatever
\* calls, changes and conversions came before: it has an earning exactly while
\* it is CONVERTED, it is on the due list exactly if the last thing its customer
\* said was to call again later, and its newest event tells its status.
ConvertedIffEarned(l) == leads[l].status = "CONVERTED" <=> l \in Earned
DueListIsRight(l) == leads[l].nextCall <=> call[l] = "CALL_LATER"
HistoryEndsAtStatus(l) == event[l] = leads[l].status
LeadAtRestAgrees ==
    \A l \in DOMAIN leads :
        Quiet(l) => ConvertedIffEarned(l) /\ DueListIsRight(l) /\ HistoryEndsAtStatus(l)

\* A payment settles something, and its amountOwed is the sum over what it
\* settled: two people paying the same month do not both get one recorded.
PaymentCoversItsEarnings ==
    \A k \in DOMAIN payments :
        payments[k].owed # {} /\ payments[k].owed = {l \in Earned : earning[l].payment = k}

\* A paid earning is immutable: its row is never deleted.
PaidIsNeverDeleted ==
    [][\A l \in Earned : earning[l].status = "PAID" => l \in Earned']_vars

\* A lead whose earning is paid cannot be moved out of CONVERTED at all, and
\* keeps that earning.
PaidLeadStays ==
    [][\A l \in DOMAIN leads :
          leads[l].status = "CONVERTED" /\ l \in Earned /\ earning[l].status = "PAID" =>
              leads'[l].status = "CONVERTED" /\ earning'[l] = earning[l]]_vars
-----------------------------------------------------------------------------
\* What each partner may earn for each plan in each month.
Fees == UNION {{[partner |-> p, plan |-> plan, month |-> m, amount |-> Commission(p, rate)]
                   : rate \in FindRate(plan, m)} : p \in Partner, plan \in Plan, m \in Month}

Ledger == INSTANCE CommissionLedger
              WITH Lead <- LeadId, Fees <- Fees, None <- NoEarning, account <- earning

\* Requests that do not overlap keep the books of CommissionLedger, also when
\* they die half-way.
ImplementsLedger == Ledger!Spec
=============================================================================
