------------------------------ MODULE SalesDesk ------------------------------
(***************************************************************************)
(* What the people of field sales are shown (modules/sales): the buildings *)
(* they may work, the map, the people they may assign to, the visits,      *)
(* leads and meetings of their team and the numbers of the dashboard, while *)
(* buildings change hands and people change teams.                         *)
(*                                                                         *)
(* Every action is a whole handler; FieldVisits and BuildingHandover have  *)
(* the writes in their steps.  A search word, dates and photos are left    *)
(* out, as is the 500-row limit of the lists; the meetings are of one day. *)
(***************************************************************************)
EXTENDS Naturals, Sequences, SequencesExt, FiniteSetsExt, Functions

CONSTANTS
    Person, RoleOf,
    ManagerOf,          \* who a person reports to; constant here
    Building, ZoneAt, None,
    Awaiting,           \* the buildings that are societies awaiting approval
    Zone,
    MaxActivity         \* bound

VARIABLES
    leader,     \* the team leader of each person
    active,     \* who may sign in
    zones,      \* assignedZones of each person
    visible,    \* buildings that are no society awaiting approval
    holder,     \* ACTIVE assignment of each building
    activity    \* visits, leads and meetings, oldest first

vars == <<leader, active, zones, visible, holder, activity>>

SALES_ROLES == {"SALES_MANAGER", "TEAM_LEADER", "SALES_EXECUTIVE"}
REGISTRY_ASSIGNERS == {"ADMIN", "SALES_MANAGER"}
CanAssign(a) == RoleOf[a] \in REGISTRY_ASSIGNERS \cup {"TEAM_LEADER"}
OfRole(role) == {p \in Person : RoleOf[p] = role}

Kind == {"visit", "inquiry", "meeting"}
TypeOK ==
    /\ leader \in [Person -> Person \cup {None}] /\ active \subseteq Person /\ zones \in [Person -> SUBSET Zone]
    /\ visible \subseteq Building /\ holder \in [Building -> Person \cup {None}]
    /\ activity \in Seq([kind : Kind, by : Person, building : Building \cup {None}])

----------------------------------------------------------------------------
(* Scopes *)

TeamUnder(a) ==
    CASE RoleOf[a] = "SALES_MANAGER" -> {p \in Person : ManagerOf[p] = a}
      [] RoleOf[a] = "TEAM_LEADER" -> {p \in Person : leader[p] = a}
      [] OTHER -> {}
Scope(a) == IF RoleOf[a] = "ADMIN" THEN Person ELSE IF RoleOf[a] \in SALES_ROLES THEN {a} \cup TeamUnder(a) ELSE {}

AssignedInScope(a) == {b \in Building : holder[b] \in Scope(a)}
InZones(a) == {b \in Building : RoleOf[a] = "TEAM_LEADER" /\ ZoneAt[b] \in zones[a]}
Pool(a) == InZones(a) \cup AssignedInScope(a)

----------------------------------------------------------------------------
(* What is shown *)

\* Of the buildings, also where a visit or a lead may be.
ListMyBuildings(a) == visible \cap Pool(a)
MapBuildings(a) ==
    IF RoleOf[a] \in REGISTRY_ASSIGNERS
    THEN {[building |-> b, assigned |-> b \in AssignedInScope(a)] : b \in visible}
    ELSE {[building |-> b, assigned |-> TRUE] : b \in ListMyBuildings(a)}
SearchBuildings(a) == IF RoleOf[a] \in REGISTRY_ASSIGNERS THEN visible ELSE {}
ReadsHistory(a, b) == b \in AssignedInScope(a) \/ (RoleOf[a] = "ADMIN" /\ b \in visible)

TeamMembers(a) ==
    active \cap CASE RoleOf[a] = "ADMIN" -> {p \in Person : RoleOf[p] \in SALES_ROLES}
                  [] RoleOf[a] \in {"SALES_MANAGER", "TEAM_LEADER"} -> TeamUnder(a)
                  [] OTHER -> {}
TeamLeadersFor(a) == {p \in OfRole("TEAM_LEADER") : RoleOf[a] = "ADMIN" \/ ManagerOf[p] = a}

\* activityWhere: the rows of one kind of a person in scope, or of everybody in it.
Rows(a, kind, person) ==
    LET ids == IF person = None THEN Scope(a) ELSE Scope(a) \cap {person}
    IN  {i \in DOMAIN activity : activity[i].kind = kind /\ activity[i].by \in ids}
MayOpen(a, i) == activity[i].by \in Scope(a)

Dashboard(a, kind, person) ==
    [total |-> Cardinality(Rows(a, kind, person)),
     team |-> [u \in TeamMembers(a) |-> Cardinality({i \in Rows(a, kind, person) : activity[i].by = u})]]

\* Newest first, and one to a page.
Meetings(a) ==
    LET rows == Rows(a, "meeting", None)
    IN  [k \in 1 .. Cardinality(rows) |-> CHOOSE i \in rows : Cardinality({j \in rows : j >= i}) = k]
PageSize == 1
TotalPages(a) == Max({1, (Len(Meetings(a)) + PageSize - 1) \div PageSize})
Page(a, p) == SubSeq(Meetings(a), (p - 1) * PageSize + 1, Min({p * PageSize, Len(Meetings(a))}))

----------------------------------------------------------------------------
(* What happens *)

AssertTargetInTeam(a, t) ==
    \/ RoleOf[a] = "ADMIN"
    \/ RoleOf[a] = "SALES_MANAGER" /\ ManagerOf[t] = a
    \/ RoleOf[a] = "TEAM_LEADER" /\ RoleOf[t] = "SALES_EXECUTIVE" /\ leader[t] = a
MayAssignTo(a, t) ==
    CanAssign(a) /\ t \in active /\ RoleOf[t] \in SALES_ROLES \ {"TEAM_LEADER"} /\ AssertTargetInTeam(a, t)

\* A leader hands out their pool and takes nothing from another team.
MayAssign(a, b) ==
    b \in visible /\ (RoleOf[a] = "TEAM_LEADER" => b \in Pool(a) /\ holder[b] \in Scope(a) \cup {None})
AssignBuildings(a, bs, t) ==
    /\ MayAssignTo(a, t) /\ \A b \in bs : MayAssign(a, b)
    /\ holder' = [b \in Building |-> IF b \in bs THEN t ELSE holder[b]]
    /\ UNCHANGED <<leader, active, zones, visible, activity>>

Log(a, kind, b) ==
    /\ Len(activity) < MaxActivity
    /\ CASE kind = "meeting" -> RoleOf[a] = "TEAM_LEADER" /\ b = None /\ Rows(a, kind, a) = {}
         [] OTHER -> b \in ListMyBuildings(a)
    /\ activity' = Append(activity, [kind |-> kind, by |-> a, building |-> b])
    /\ UNCHANGED <<leader, active, zones, visible, holder>>

SetTeamLeaderZones(a, l, ids) ==
    /\ RoleOf[a] \in REGISTRY_ASSIGNERS /\ l \in TeamLeadersFor(a)
    /\ zones' = [zones EXCEPT ![l] = ids] /\ UNCHANGED <<leader, active, visible, holder, activity>>

\* What users and permission-buildings do to the same rows.
MoveToTeam(e, l) == leader' = [leader EXCEPT ![e] = l] /\ UNCHANGED <<active, zones, visible, holder, activity>>
SetActive(e, on) ==
    /\ active' = IF on THEN active \cup {e} ELSE active \ {e}
    /\ UNCHANGED <<leader, zones, visible, holder, activity>>
ApproveSociety(b) == visible' = visible \cup {b} /\ UNCHANGED <<leader, active, zones, holder, activity>>

----------------------------------------------------------------------------
Init ==
    /\ leader = [p \in Person |-> None] /\ active = Person /\ zones = [p \in Person |-> {}]
    /\ visible = Building \ Awaiting /\ holder = [b \in Building |-> None] /\ activity = << >>

Next ==
    \/ \E a \in active :
        \/ \E bs \in SUBSET Building, t \in Person : bs # {} /\ AssignBuildings(a, bs, t)
        \/ \E kind \in Kind, b \in Building \cup {None} : Log(a, kind, b)
        \/ \E l \in Person, ids \in SUBSET Zone : SetTeamLeaderZones(a, l, ids)
    \/ \E e \in OfRole("SALES_EXECUTIVE") :
        (\E l \in OfRole("TEAM_LEADER") \cup {None} : MoveToTeam(e, l)) \/ \E on \in BOOLEAN : SetActive(e, on)
    \/ \E b \in Building : ApproveSociety(b)

Spec == Init /\ [][Next]_vars

----------------------------------------------------------------------------
(* Properties *)

\* "The map click uses `assigned` to choose check-in vs assign": the map offers
\* a check-in exactly where one is let in.
MapTellsCheckIn ==
    \A a \in Person : {c.building : c \in {d \in MapBuildings(a) : d.assigned}} = ListMyBuildings(a)

\* A building that somebody holds is seen, with its history, by them and by
\* whoever they report to, however teams were moved since it was given out.
HeldIsSeenUpTheChain ==
    \A b \in Building : LET h == holder[b] IN
        h # None => \A a \in {h, leader[h], ManagerOf[h]} \ {None} : b \in ListMyBuildings(a) /\ ReadsHistory(a, b)

\* The dashboard adds up: the row of a person is what the list narrowed to them
\* shows, all of it may be opened, and no row is of somebody the total leaves out.
DashboardAddsUp ==
    \A a \in Person, kind \in Kind : LET all == Dashboard(a, kind, None) IN
        /\ \A u \in TeamMembers(a) : all.team[u] = Dashboard(a, kind, u).total
        /\ SumFunction(all.team) <= all.total
        /\ \A u \in Person \cup {None} : \A i \in Rows(a, kind, u) : MayOpen(a, i)

\* Whoever a building may be given to is in the picker, and whoever picks from
\* the search or the pool sees the building.
PickerIsComplete ==
    \A a \in active, t \in Person, b \in Building :
        MayAssignTo(a, t) /\ MayAssign(a, b) => t \in TeamMembers(a) /\ b \in SearchBuildings(a) \cup ListMyBuildings(a)

\* The pages hold every meeting of the team, once.
MeetingPagesCover == \A a \in Person : FlattenSeq([p \in 1 .. TotalPages(a) |-> Page(a, p)]) = Meetings(a)

DeskShowsWhatIsThere ==
    MapTellsCheckIn /\ HeldIsSeenUpTheChain /\ DashboardAddsUp /\ PickerIsComplete /\ MeetingPagesCover

\* Fails: a leader lists the free buildings of their zones, but their history is
\* "not found", although it is "for one building the actor can see".
HistoryOfWhatIsListed == \A a \in Person, b \in Building : b \in ListMyBuildings(a) => ReadsHistory(a, b)
=============================================================================
