-------------------------- MODULE PartnerOnboarding --------------------------
(***************************************************************************)
(* How a partner comes to be (modules/partner-auth, partner-invites,       *)
(* partner-referrals) and to be approved (modules/partners): a person is   *)
(* introduced by a partner, is sent a join link, registers with it, sends  *)
(* documents and bank details, submits, and is approved or rejected.       *)
(*                                                                         *)
(* A request reads in one step and writes in a later one, and registration *)
(* writes in three; with one Request they come in turn, and MayFail lets   *)
(* one break off between two of its writes.  The mobile is the person; the *)
(* one-time code is checked before any of this, who recruited whom is      *)
(* copied from row to row, and the testing bypass is off in production:    *)
(* the three are left out.                                                 *)
(***************************************************************************)
EXTENDS Naturals, Sequences, FiniteSets, FiniteSetsExt

CONSTANTS
    Person, Bank, None,
    MaxLinks, MaxIntroductions,   \* bounds
    Request, Idle, MayFail

VARIABLES
    partner,    \* partial function of Person: status, papers, bank, and the link they registered with
    invite,     \* PartnerInvite, oldest first: referral, who used it, whether it is revoked or expired
    referral,   \* PartnerReferral: whom it introduces, status, who joined
    request

vars == <<partner, invite, referral, request>>

OpenReferral == {"NEW", "CONTACTED"}
ReferralStatus == OpenReferral \cup {"JOINED", "DECLINED"}

TypeOK ==
    /\ DOMAIN partner \subseteq Person
    /\ \A p \in DOMAIN partner :
            partner[p] \in [status : {"REGISTERED", "PENDING_APPROVAL", "APPROVED", "REJECTED"}, papers : BOOLEAN,
                            bank : Bank \cup {None}, link : (1 .. Len(invite)) \cup {None}]
    /\ invite \in Seq([referral : (1 .. Len(referral)) \cup {None}, usedBy : Person \cup {None}, dead : BOOLEAN])
    /\ referral \in Seq([person : Person, status : ReferralStatus, joined : Person \cup {None}])

InTurn == Cardinality(Request) = 1
Turn == InTurn => \A r \in Request : request[r] = Idle
Begins(r, op) == request[r] = Idle /\ request' = [request EXCEPT ![r] = op] /\ UNCHANGED <<partner, invite, referral>>
At(r, op) == request[r] # Idle /\ request[r].op = op
Becomes(r, next) == request' = [request EXCEPT ![r] = next]

NewPartner(link) == [status |-> "REGISTERED", papers |-> FALSE, bank |-> None, link |-> link]
Joins(p, link) == [q \in DOMAIN partner \cup {p} |-> IF q = p THEN NewPartner(link) ELSE partner[q]]

----------------------------------------------------------------------------
(* Join links and introductions *)

\* Fault: a link is good until it is revoked or expires.
LiveUntilDead(i) == ~invite[i].dead
Live(i) == invite[i].usedBy = None /\ ~invite[i].dead

CreateInvite ==
    /\ Turn /\ Len(invite) < MaxLinks
    /\ invite' = Append(invite, [referral |-> None, usedBy |-> None, dead |-> FALSE])
    /\ UNCHANGED <<partner, referral, request>>

\* revoke, or the passing of expiresAt.
EndInvite(i) == Turn /\ invite' = [invite EXCEPT ![i].dead = TRUE] /\ UNCHANGED <<partner, referral, request>>

BeginIntroduce(r, p, referrer) ==
    /\ Len(referral) < MaxIntroductions
    /\ referrer \in DOMAIN partner /\ partner[referrer].status # "REJECTED"
    /\ p # referrer /\ p \notin DOMAIN partner
    /\ ~\E f \in DOMAIN referral : referral[f].person = p /\ referral[f].status \in OpenReferral
    /\ Begins(r, [op |-> "introduce", person |-> p])
FinishIntroduce(r) ==
    /\ At(r, "introduce") /\ Becomes(r, Idle) /\ UNCHANGED <<partner, invite>>
    /\ referral' = Append(referral, [person |-> request[r].person, status |-> "NEW", joined |-> None])

LinksOf(f) == {i \in DOMAIN invite : invite[i].referral = f /\ Live(i)}
BeginInviteFor(r, f) ==
    /\ Len(invite) < MaxLinks /\ referral[f].status # "JOINED"
    /\ Begins(r, [op |-> "invite", f |-> f, live |-> IF LinksOf(f) = {} THEN None ELSE Max(LinksOf(f)),
                  new |-> referral[f].status = "NEW"])

Revoked(live) == IF live = None THEN invite ELSE [invite EXCEPT ![live].dead = TRUE]
FinishInviteFor(r) ==
    LET q == request[r] IN
    /\ At(r, "invite") /\ Becomes(r, Idle) /\ UNCHANGED partner
    /\ invite' = Append(Revoked(q.live), [referral |-> q.f, usedBy |-> None, dead |-> FALSE])
    /\ referral' = IF q.new THEN [referral EXCEPT ![q.f].status = "CONTACTED"] ELSE referral

ChangeStatus(f, status) == Turn /\ referral' = [referral EXCEPT ![f].status = status] /\ UNCHANGED <<partner, invite, request>>

----------------------------------------------------------------------------
(* Registration *)

\* A link that is dead by now is as good as none.
BeginRegister(r, p, link) ==
    /\ p \notin DOMAIN partner
    /\ Begins(r, [op |-> "create", person |-> p, link |-> IF link # None /\ Live(link) THEN link ELSE None])

\* The mobile is unique: of two registrations one is refused.
CreateAccount(r) ==
    LET q == request[r] IN
    /\ At(r, "create") /\ UNCHANGED <<invite, referral>>
    /\ IF q.person \in DOMAIN partner
       THEN Becomes(r, Idle) /\ UNCHANGED partner
       ELSE /\ partner' = Joins(q.person, q.link)
            /\ Becomes(r, IF q.link = None THEN Idle ELSE [q EXCEPT !.op = "markUsed"])
MarkUsed(r) ==
    LET q == request[r] IN
    /\ At(r, "markUsed") /\ UNCHANGED <<partner, referral>>
    /\ invite' = [invite EXCEPT ![q.link].usedBy = q.person]
    /\ Becomes(r, IF invite[q.link].referral = None THEN Idle ELSE [q EXCEPT !.op = "markJoined"])
MarkJoined(r) ==
    LET q == request[r] IN
    /\ At(r, "markJoined") /\ Becomes(r, Idle) /\ UNCHANGED <<partner, invite>>
    /\ referral' = [referral EXCEPT ![invite[q.link].referral] = [@ EXCEPT !.status = "JOINED", !.joined = q.person]]
BreakOff(r) ==
    /\ MayFail /\ (At(r, "markUsed") \/ At(r, "markJoined"))
    /\ Becomes(r, Idle) /\ UNCHANGED <<partner, invite, referral>>

AddPartner(p) == Turn /\ p \notin DOMAIN partner /\ partner' = Joins(p, None) /\ UNCHANGED <<invite, referral, request>>

----------------------------------------------------------------------------
(* Documents, bank details, approval *)

\* saveDocument, of the last that was missing; a later one replaces it.
SaveDocuments(p) == Turn /\ partner' = [partner EXCEPT ![p].papers = TRUE] /\ UNCHANGED <<invite, referral, request>>

IsEditableByPartner(p) == partner[p].status \in {"REGISTERED", "REJECTED"} \/ (partner[p].status = "APPROVED" /\ partner[p].bank = None)
BeginSaveBank(r, p, b) == IsEditableByPartner(p) /\ Begins(r, [op |-> "bank", person |-> p, bank |-> b])
FinishSaveBank(r) ==
    /\ At(r, "bank") /\ Becomes(r, Idle) /\ UNCHANGED <<invite, referral>>
    /\ partner' = [partner EXCEPT ![request[r].person].bank = request[r].bank]
SaveBankByAdmin(p, b) == Turn /\ partner' = [partner EXCEPT ![p].bank = b] /\ UNCHANGED <<invite, referral, request>>

BeginSubmit(r, p) ==
    /\ partner[p].status \in {"REGISTERED", "REJECTED"} /\ partner[p].papers /\ partner[p].bank # None
    /\ Begins(r, [op |-> "submit", person |-> p])
BeginApprove(r, p) == partner[p].status = "PENDING_APPROVAL" /\ Begins(r, [op |-> "approve", person |-> p])
StatusAfter == [submit |-> "PENDING_APPROVAL", approve |-> "APPROVED"]
FinishDecision(r) ==
    /\ At(r, "submit") \/ At(r, "approve")
    /\ partner' = [partner EXCEPT ![request[r].person].status = StatusAfter[request[r].op]]
    /\ Becomes(r, Idle) /\ UNCHANGED <<invite, referral>>
Reject(p) == Turn /\ partner' = [partner EXCEPT ![p].status = "REJECTED"] /\ UNCHANGED <<invite, referral, request>>

----------------------------------------------------------------------------
Init == partner = << >> /\ invite = << >> /\ referral = << >> /\ request = [r \in Request |-> Idle]

Next ==
    \/ CreateInvite
    \/ \E i \in DOMAIN invite : EndInvite(i)
    \/ \E f \in DOMAIN referral, s \in ReferralStatus : ChangeStatus(f, s)
    \/ \E p \in Person : AddPartner(p)
    \/ \E p \in DOMAIN partner : SaveDocuments(p) \/ Reject(p) \/ \E b \in Bank : SaveBankByAdmin(p, b)
    \/ \E r \in Request :
        \/ \E p, q \in Person : BeginIntroduce(r, p, q)
        \/ \E f \in DOMAIN referral : BeginInviteFor(r, f)
        \/ \E p \in Person, i \in DOMAIN invite \cup {None} : BeginRegister(r, p, i)
        \/ \E p \in DOMAIN partner : BeginSubmit(r, p) \/ BeginApprove(r, p) \/ \E b \in Bank : BeginSaveBank(r, p, b)
        \/ FinishIntroduce(r) \/ FinishInviteFor(r) \/ CreateAccount(r) \/ MarkUsed(r) \/ MarkJoined(r) \/ BreakOff(r)
        \/ FinishSaveBank(r) \/ FinishDecision(r)

Spec == Init /\ [][Next]_vars

----------------------------------------------------------------------------
(* Properties, of requests that come in turn *)

\* One person is never sent two links that work: "two working links for one
\* person means two accounts if both are opened" (inviteFor).
OneLiveLink == \A f \in DOMAIN referral : Cardinality(LinksOf(f)) <= 1

\* A link opens one account, and once the registration is over names it.
LinkOpensOne ==
    \A p \in DOMAIN partner : LET i == partner[p].link IN
        i # None => /\ \A q \in DOMAIN partner \ {p} : partner[q].link # i
                    /\ (\A r \in Request : request[r] = Idle) => invite[i].usedBy = p

\* Who waits for approval or has it has sent everything it takes.
ApprovedOnPapers ==
    \A p \in DOMAIN partner : partner[p].status \in {"PENDING_APPROVAL", "APPROVED"} => partner[p].papers /\ partner[p].bank # None

\* What was submitted is what is approved: from the submission on, until a
\* rejection, nobody but an approver changes the bank details, and an approval
\* is only ever taken back by a rejection.
Standing ==
    \A p \in DOMAIN partner :
        LET was == partner[p]
            is == partner'[p]
        IN  /\ was.status = "APPROVED" => is.status \in {"APPROVED", "REJECTED"}
            /\ (was.status \in {"PENDING_APPROVAL", "APPROVED"} /\ is.bank # was.bank) => \E b \in Bank : SaveBankByAdmin(p, b)
StandingIsKept == [][Standing]_vars

\* Fails: a declined introduction that staff reopen stands beside a newer one.
OneOpenIntroduction ==
    \A f, g \in DOMAIN referral :
        f # g /\ {referral[f].status, referral[g].status} \subseteq OpenReferral => referral[f].person # referral[g].person

\* Fails: staff may move a joined introduction back, and a second link then
\* takes the first account's place.
JoinedStaysJoined ==
    [][\A f \in DOMAIN referral : referral[f].joined # None => referral'[f].joined = referral[f].joined]_vars
=============================================================================
