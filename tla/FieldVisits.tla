---------------------------- MODULE FieldVisits ----------------------------
(***************************************************************************)
(* The field work of the sales team (sales.service.js): visits from        *)
(* check-in to check-out, the activities done on them and their photos,    *)
(* inquiries raised, morning meetings, and the zones of team leaders.      *)
(*                                                                         *)
(* A request first reads and judges, and writes in a later step; none of   *)
(* these handlers takes a lock.  A photo request reads twice: its visit,   *)
(* then the activity.                                                      *)
(***************************************************************************)
EXTENDS Naturals, FiniteSets, FiniteSetsExt, Functions

CONSTANTS
    Worker,              \* requests under way at once
    Leader, Executive, Team,   \* Team: [Leader -> SUBSET Executive]
    Building, Zone, ZoneOf,    \* ZoneOf: [Building -> Zone]
    Held,                \* [Executive -> SUBSET Building]: the ACTIVE assignments
    Type, Photo, MaxImages,
    Status, Time, None,
    MaxVisits, MaxInquiries, LastDay   \* bounds

Person == Leader \cup Executive

VARIABLES visits, activities, inquiries, meetings, zones, today, request

vars == <<visits, activities, inquiries, meetings, zones, today, request>>
rows == <<visits, activities, inquiries, meetings, zones>>

Idle == [op |-> None]
Op == {"checkIn", "checkOut", "addActivity", "removeActivity", "addPhoto", "removePhoto", "setImages", "inquiry", "meeting"}

TypeOK ==
    /\ \A i \in DOMAIN visits : visits[i].who \in Person /\ visits[i].b \in Building
    /\ \A k \in DOMAIN activities : k \in (DOMAIN visits) \X Type /\ activities[k] \subseteq Photo
    /\ \A i \in DOMAIN inquiries : inquiries[i].by \in Person /\ inquiries[i].status \in Status
    /\ meetings \subseteq Leader \X (1 .. LastDay)
    /\ zones \in [Leader -> SUBSET Zone] /\ DOMAIN request = Worker

\* scopedUserIds, and the pool of a person.
ScopeIds(actor) == {actor} \cup (IF actor \in Leader THEN Team[actor] ELSE {})
InPool(actor, b) ==
    \/ \E p \in ScopeIds(actor) \cap Executive : b \in Held[p]
    \/ actor \in Leader /\ ZoneOf[b] \in zones[actor]

Begin(w, r) == request[w] = Idle /\ request' = [request EXCEPT ![w] = r] /\ UNCHANGED <<rows, today>>
Finish(w) == request' = [request EXCEPT ![w] = Idle] /\ UNCHANGED today
Next1(S) == IF S = {} THEN 1 ELSE Max(S) + 1
With(table, id, row) == [i \in DOMAIN table \cup {id} |-> IF i \in DOMAIN table THEN table[i] ELSE row]

OpenVisitOf(actor) == {i \in DOMAIN visits : visits[i].who = actor /\ visits[i].open}
OwnedOpen(actor, i) == i \in OpenVisitOf(actor)

----------------------------------------------------------------------------
(* Check-in and check-out *)

\* A leader went with executives of their own or solo, one or the other;
\* of anybody else neither is recorded.
Party(actor, ids, solo) ==
    IF actor \notin Leader THEN {[solo |-> FALSE, with |-> {}]}
    ELSE IF solo THEN {[solo |-> TRUE, with |-> {}]}
    ELSE {[solo |-> FALSE, with |-> x] : x \in {y \in {ids} \ {{}} : y \subseteq Team[actor]}}

BeginCheckIn(w, actor, b, ids, solo) ==
    /\ OpenVisitOf(actor) = {}
    /\ Cardinality(DOMAIN visits) < MaxVisits /\ InPool(actor, b)
    /\ \E party \in Party(actor, ids, solo) : Begin(w, [op |-> "checkIn", who |-> actor, b |-> b, party |-> party])

CheckIn(w) ==
    LET r == request[w] IN
    /\ r.op = "checkIn"
    /\ Cardinality(DOMAIN visits) < MaxVisits
    /\ visits' = With(visits, Next1(DOMAIN visits), [who |-> r.who, b |-> r.b, party |-> r.party, open |-> TRUE])
    /\ Finish(w) /\ UNCHANGED <<activities, inquiries, meetings, zones>>

BeginCheckOut(w, actor, i) == OwnedOpen(actor, i) /\ Begin(w, [op |-> "checkOut", visit |-> i])
CheckOut(w) ==
    /\ request[w].op = "checkOut"
    /\ visits' = [visits EXCEPT ![request[w].visit].open = FALSE]
    /\ Finish(w) /\ UNCHANGED <<activities, inquiries, meetings, zones>>

----------------------------------------------------------------------------
(* Activities and their photos *)

BeginActivity(w, actor, i, type, op) ==
    OwnedOpen(actor, i) /\ Begin(w, [op |-> op, at |-> <<i, type>>])

\* One row for each visit and type: upsert, and deleteMany.
AddActivity(w) ==
    /\ request[w].op = "addActivity"
    /\ activities' = With(activities, request[w].at, {})
    /\ Finish(w) /\ UNCHANGED <<visits, inquiries, meetings, zones>>
RemoveActivity(w) ==
    /\ request[w].op = "removeActivity"
    /\ activities' = Restrict(activities, DOMAIN activities \ {request[w].at})
    /\ Finish(w) /\ UNCHANGED <<visits, inquiries, meetings, zones>>

BeginPhoto(w, actor, i, type, photo, op) ==
    OwnedOpen(actor, i) /\ Begin(w, [op |-> op, at |-> <<i, type>>, photo |-> photo])

Room(images) == Cardinality(images) < MaxImages

\* The row is read, and what is to be written worked out; nothing is written if
\* there is no row, no room, or nothing to add.
ReadActivity(w) ==
    LET r == request[w] IN
    /\ r.op \in {"addPhoto", "removePhoto"}
    /\ request' = [request EXCEPT ![w] =
          IF r.at \notin DOMAIN activities \/ (r.op = "addPhoto" /\ (r.photo \in activities[r.at] \/ ~Room(activities[r.at])))
          THEN Idle
          ELSE [op |-> "setImages", at |-> r.at,
                images |-> IF r.op = "addPhoto" THEN activities[r.at] \cup {r.photo} ELSE activities[r.at] \ {r.photo}]]
    /\ UNCHANGED <<rows, today>>
\* The update fails if the row has gone.
SetActivityImages(w) ==
    LET r == request[w] IN
    /\ r.op = "setImages"
    /\ activities' = IF r.at \in DOMAIN activities THEN [activities EXCEPT ![r.at] = r.images] ELSE activities
    /\ Finish(w) /\ UNCHANGED <<visits, inquiries, meetings, zones>>

----------------------------------------------------------------------------
(* Inquiries, meetings, zones *)

\* An inquiry may be linked to the actor's open visit at its building.  Fault: at any.
LinkableAnywhere(actor, b, i) == i = None \/ OwnedOpen(actor, i)
Linkable(actor, b, i) == i = None \/ (OwnedOpen(actor, i) /\ visits[i].b = b)
FollowUpAt(status, time) == IF status = "FOLLOW_UP" THEN time ELSE None

BeginInquiry(w, actor, b, i, status, time) ==
    /\ Cardinality(DOMAIN inquiries) < MaxInquiries
    /\ InPool(actor, b) /\ Linkable(actor, b, i)
    /\ Begin(w, [op |-> "inquiry",
                 row |-> [by |-> actor, b |-> b, visit |-> i, status |-> status, followUp |-> FollowUpAt(status, time)]])
CreateInquiry(w) ==
    /\ request[w].op = "inquiry"
    /\ Cardinality(DOMAIN inquiries) < MaxInquiries
    /\ inquiries' = With(inquiries, Next1(DOMAIN inquiries), request[w].row)
    /\ Finish(w) /\ UNCHANGED <<visits, activities, meetings, zones>>

\* The creator or a leader above them; nothing the check reads ever changes.
UpdateInquiry(actor, i, status, time) ==
    /\ i \in DOMAIN inquiries /\ inquiries[i].by \in ScopeIds(actor)
    /\ inquiries' = [inquiries EXCEPT ![i].status = status, ![i].followUp = FollowUpAt(status, time)]
    /\ UNCHANGED <<visits, activities, meetings, zones, today, request>>

\* Meetings are unique by leader and day: of two at once the second fails.
BeginMeeting(w, actor) ==
    <<actor, today>> \notin meetings /\ Begin(w, [op |-> "meeting", key |-> <<actor, today>>])
CreateMeeting(w) ==
    /\ request[w].op = "meeting"
    /\ meetings' = meetings \cup {request[w].key}
    /\ Finish(w) /\ UNCHANGED <<visits, activities, inquiries, zones>>

SetTeamLeaderZones(leader, ids) ==
    /\ zones' = [zones EXCEPT ![leader] = ids]
    /\ UNCHANGED <<visits, activities, inquiries, meetings, today, request>>

NextDay == today < LastDay /\ today' = today + 1 /\ UNCHANGED <<rows, request>>

Init ==
    /\ visits = << >> /\ activities = << >> /\ inquiries = << >> /\ meetings = {}
    /\ zones = [l \in Leader |-> {}] /\ today = 1 /\ request = [w \in Worker |-> Idle]

Request(w) ==
    \/ \E actor \in Person :
        \/ \E b \in Building, ids \in SUBSET Executive, solo \in BOOLEAN : BeginCheckIn(w, actor, b, ids, solo)
        \/ \E i \in DOMAIN visits :
            \/ BeginCheckOut(w, actor, i)
            \/ \E type \in Type :
                \/ \E op \in {"addActivity", "removeActivity"} : BeginActivity(w, actor, i, type, op)
                \/ \E photo \in Photo, op \in {"addPhoto", "removePhoto"} : BeginPhoto(w, actor, i, type, photo, op)
        \/ \E b \in Building, i \in DOMAIN visits \cup {None}, status \in Status, time \in Time :
               BeginInquiry(w, actor, b, i, status, time)
        \/ actor \in Leader /\ BeginMeeting(w, actor)

Next ==
    \/ \E w \in Worker :
        \/ Request(w)
        \/ CheckIn(w) \/ CheckOut(w) \/ AddActivity(w) \/ RemoveActivity(w)
        \/ ReadActivity(w) \/ SetActivityImages(w) \/ CreateInquiry(w) \/ CreateMeeting(w)
    \/ \E actor \in Person, i \in DOMAIN inquiries, status \in Status, time \in Time : UpdateInquiry(actor, i, status, time)
    \/ \E leader \in Leader, ids \in SUBSET Zone : SetTeamLeaderZones(leader, ids)
    \/ NextDay

Spec == Init /\ [][Next]_vars

----------------------------------------------------------------------------
(* Properties *)

\* A linked inquiry belongs to a visit of its creator at its building: the row
\* says of the visit what the visit says of itself, though both were written by
\* requests that overlap.  A FOLLOW_UP lead, and no other, has a time.  A
\* leader's visit names executives of their own team or says solo.
FieldRecordsFit ==
    /\ \A i \in DOMAIN inquiries :
        LET q == inquiries[i] IN
        /\ q.visit # None => visits[q.visit].who = q.by /\ visits[q.visit].b = q.b
        /\ (q.status = "FOLLOW_UP") <=> q.followUp # None
    /\ \A i \in DOMAIN visits :
        LET v == visits[i] IN
        IF v.who \in Leader THEN v.party.with \subseteq Team[v.who] /\ (v.party.solo <=> v.party.with = {})
        ELSE v.party = [solo |-> FALSE, with |-> {}]
    /\ \A k \in DOMAIN activities : Cardinality(activities[k]) <= MaxImages

\* Requests one at a time: nobody has two open visits, and what was done on a
\* visit is fixed once it is checked out: nothing is added, nothing removed, and it
\* does not open again.
OneOpenVisit == \A i, j \in DOMAIN visits : (visits[i].open /\ visits[j].open /\ visits[i].who = visits[j].who) => i = j
WorkDone(i) == [t \in {u \in Type : <<i, u>> \in DOMAIN activities} |-> activities[<<i, t>>]]
KeptWhenClosed == \A i \in DOMAIN visits : ~visits[i].open => visits'[i] = visits[i] /\ WorkDone(i)' = WorkDone(i)
=============================================================================
