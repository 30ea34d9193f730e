-------------------------------- MODULE Team --------------------------------
(***************************************************************************)
(* The people of the staff (modules/users): who has which role, who        *)
(* reports to whom, who works which zones, and who holds the two ticks an  *)
(* ADMIN hands out.  Names, emails, passwords and the pincodes of          *)
(* acquisition agents are left out, and so is isActive.  Requests come in  *)
(* turn: an action is a whole handler.                                     *)
(***************************************************************************)
EXTENDS FiniteSets, Functions

CONSTANTS
    User, Zone, None, Keep,
    Root,       \* the ADMIN there is from the start
    Role,       \* the roles an ADMIN gives
    ZoneSets,   \* the sets of zones a request may send
    Patches,    \* what a PATCH may say: role, zones, manager and leader, each one or Keep
    Seats       \* bound: accounts besides Root

VARIABLE user   \* partial function: role, manager, leader, zones, fiber (canManageFiber), edit (canEditBuildings)

ZONE_ROLES == {"SURVEYOR", "TEAM_LEADER", "MANAGER"}
FIBER_ACCESS_ROLES == {"MANAGER", "SURVEYOR", "SUPERVISOR"}
BUILDING_EDIT_ROLES == {"SURVEYOR"}

RoleIn(u) == user[u].role
HasRole(u, role) == u \in DOMAIN user /\ RoleIn(u) = role

TypeOK ==
    /\ DOMAIN user \subseteq User
    /\ \A u \in DOMAIN user : user[u] \in [role : Role \cup {"ADMIN"}, manager : User \cup {None}, leader : User \cup {None},
                                           zones : SUBSET Zone, fiber : BOOLEAN, edit : BOOLEAN]

\* Whom a role reports to, as its manager and as its team leader.
ManagerRoleFor(role) ==
    CASE role = "SURVEYOR" -> "MANAGER" [] role \in {"TEAM_LEADER", "SALES_EXECUTIVE"} -> "SALES_MANAGER" [] OTHER -> None
LeaderRoleFor(role) == IF role = "SALES_EXECUTIVE" THEN "TEAM_LEADER" ELSE None

\* reportingLinks: a role without such a link carries none, whatever is sent.
ReportingLinks(role, manager, leader) ==
    [manager |-> IF ManagerRoleFor(role) = None THEN None ELSE manager,
     leader |-> IF LeaderRoleFor(role) = None THEN None ELSE leader]
LinksAreRight(role, links) ==
    /\ links.manager # None => HasRole(links.manager, ManagerRoleFor(role))
    /\ links.leader # None => HasRole(links.leader, LeaderRoleFor(role))
InheritedLink(id, role) == IF id # None /\ role # None /\ HasRole(id, role) THEN id ELSE None

AssertMayManage(actor, role) == RoleIn(actor) = "ACQUISITION_LEAD" => role = "ACQUISITION_AGENT"
Manages(actor) == RoleIn(actor) \in {"ADMIN", "ACQUISITION_LEAD", "MANAGER"}

----------------------------------------------------------------------------
\* A MANAGER adds surveyors of their own, into zones of their own.
CreateUser(actor, u, role, zones, manager, leader) ==
    LET byManager == RoleIn(actor) = "MANAGER"
        links == ReportingLinks(role, IF byManager THEN actor ELSE manager, IF byManager THEN None ELSE leader)
    IN  /\ Manages(actor) /\ u \notin DOMAIN user /\ Cardinality(DOMAIN user) <= Seats
        /\ AssertMayManage(actor, role)
        /\ byManager => role = "SURVEYOR" /\ zones \subseteq user[actor].zones
        /\ LinksAreRight(role, links)
        /\ user' = [v \in DOMAIN user \cup {u} |->
              IF v = u THEN [role |-> role, manager |-> links.manager, leader |-> links.leader,
                             zones |-> IF role \in ZONE_ROLES THEN zones ELSE {}, fiber |-> FALSE, edit |-> FALSE]
              ELSE user[v]]

\* The sheet of the field-sales hierarchy, all rows or none: who a row reports
\* to is in the sheet or in the system; an executive takes the leader's manager.
BulkCreateUsers(actor, rows) ==
    LET new == DOMAIN rows
        roleFor(id) == IF id \in new THEN rows[id].role ELSE IF id \in DOMAIN user THEN RoleIn(id) ELSE None
        need(role) == IF role = "TEAM_LEADER" THEN "SALES_MANAGER" ELSE "TEAM_LEADER"
        managerOf(id) == IF id \in new THEN rows[id].reportsTo ELSE user[id].manager
    IN  /\ RoleIn(actor) = "ADMIN" /\ new \cap DOMAIN user = {} /\ Cardinality(DOMAIN user \cup new) <= Seats + 1
        /\ \A u \in new : rows[u].role = "SALES_MANAGER" \/ roleFor(rows[u].reportsTo) = need(rows[u].role)
        /\ user' = [v \in DOMAIN user \cup new |->
              IF v \notin new THEN user[v]
              ELSE LET row == rows[v] IN
                   [role |-> row.role, zones |-> {}, fiber |-> FALSE, edit |-> FALSE,
                    manager |-> CASE row.role = "SALES_MANAGER" -> None [] row.role = "TEAM_LEADER" -> row.reportsTo
                                  [] OTHER -> managerOf(row.reportsTo),
                    leader |-> IF row.role = "SALES_EXECUTIVE" THEN row.reportsTo ELSE None]]

\* One row of the zone sheet.
BulkAssignZones(actor, u, zones) ==
    /\ RoleIn(actor) = "ADMIN" /\ u \in DOMAIN user /\ RoleIn(u) \in ZONE_ROLES
    /\ user' = [user EXCEPT ![u].zones = zones]

\* Fault: the surveyors of a manager who is none any more stay theirs.
KeepReports(users, u) == users
\* clearSurveyorReports.
ClearReports(users, u) ==
    [v \in DOMAIN users |-> IF users[v].manager = u /\ users[v].role = "SURVEYOR" THEN [users[v] EXCEPT !.manager = None] ELSE users[v]]

\* What e does not name is Keep.  A MANAGER edits surveyors who report to them,
\* never their role or manager, and touches only zones of their own.  Zones sent
\* for a role that works by none are dropped, and the old ones stay.
UpdateUser(actor, u, e) ==
    LET cur == user[u]
        byManager == RoleIn(actor) = "MANAGER"
        mine == user[actor].zones
        role == IF e.role = Keep THEN cur.role ELSE e.role
        moved == role # cur.role
        manager == IF byManager THEN Keep ELSE e.manager
        leader == IF byManager THEN Keep ELSE e.leader
        sent(link, stored, fits) == IF link # Keep THEN link ELSE IF moved THEN InheritedLink(stored, fits) ELSE stored
        relinked == moved \/ {manager, leader} # {Keep}
        links == IF relinked
                 THEN ReportingLinks(role, sent(manager, cur.manager, ManagerRoleFor(role)), sent(leader, cur.leader, LeaderRoleFor(role)))
                 ELSE [manager |-> cur.manager, leader |-> cur.leader]
        zones == IF e.zones = Keep
                 THEN IF moved \/ (role = "TEAM_LEADER" /\ links.manager # cur.manager) THEN {} ELSE cur.zones
                 ELSE IF role \notin ZONE_ROLES THEN cur.zones
                 ELSE IF byManager THEN e.zones \cup (cur.zones \ mine) ELSE e.zones
        updated == [user EXCEPT ![u] = [role |-> role, manager |-> links.manager, leader |-> links.leader, zones |-> zones,
                                        fiber |-> cur.fiber /\ (moved => role \in FIBER_ACCESS_ROLES),
                                        edit |-> cur.edit /\ (moved => role \in BUILDING_EDIT_ROLES)]]
    IN  /\ Manages(actor) /\ u \in DOMAIN user
        /\ AssertMayManage(actor, cur.role) /\ AssertMayManage(actor, role)
        /\ byManager => /\ cur.role = "SURVEYOR" /\ cur.manager = actor /\ ~moved /\ e.manager \in {Keep, cur.manager}
                        /\ e.zones # Keep => e.zones \subseteq mine
        /\ relinked => LinksAreRight(role, links)
        /\ user' = IF cur.role = "MANAGER" /\ moved THEN ClearReports(updated, u) ELSE updated

\* A tick that is not named is Keep.
SetAccess(actor, u, fiber, edit) ==
    /\ RoleIn(actor) = "ADMIN" /\ u \in DOMAIN user
    /\ fiber # Keep => RoleIn(u) \in FIBER_ACCESS_ROLES
    /\ edit # Keep => RoleIn(u) \in BUILDING_EDIT_ROLES
    /\ user' = [user EXCEPT ![u].fiber = IF fiber = Keep THEN @ ELSE fiber, ![u].edit = IF edit = Keep THEN @ ELSE edit]

----------------------------------------------------------------------------
Init == user = [u \in {Root} |-> [role |-> "ADMIN", manager |-> None, leader |-> None, zones |-> {}, fiber |-> FALSE, edit |-> FALSE]]

SalesRole == {"SALES_MANAGER", "TEAM_LEADER", "SALES_EXECUTIVE"}
Hand == {TRUE, FALSE, Keep}

Next ==
    \E actor, u \in User : actor \in DOMAIN user /\
        \/ \E role \in Role, zones \in ZoneSets, m, l \in User \cup {None} : CreateUser(actor, u, role, zones, m, l)
        \/ \E e \in Patches : UpdateUser(actor, u, e)
        \/ \E zones \in ZoneSets : BulkAssignZones(actor, u, zones)
        \/ \E v \in User : \E rows \in [{u, v} -> [role : SalesRole \cap Role, reportsTo : User]] : BulkCreateUsers(actor, rows)
        \/ \E fiber, edit \in Hand : SetAccess(actor, u, fiber, edit)

Spec == Init /\ [][Next]_user

----------------------------------------------------------------------------
(* Properties *)

\* A surveyor reports to a MANAGER or to nobody, whoever is promoted or demoted.
SurveyorsReportToManagers ==
    \A u \in DOMAIN user : RoleIn(u) = "SURVEYOR" /\ user[u].manager # None => HasRole(user[u].manager, "MANAGER")

\* Nobody holds a tick their role cannot hold, whichever way they came to the role.
TicksFitRole ==
    \A u \in DOMAIN user : /\ user[u].fiber => RoleIn(u) \in FIBER_ACCESS_ROLES
                           /\ user[u].edit => RoleIn(u) \in BUILDING_EDIT_ROLES

\* Unless an ADMIN says so, a surveyor is given no zone their manager does not
\* work and loses none their manager cannot see: what two managers once shared
\* survives the edits of either.  It is of accounts there are; the zones one is
\* created with are asked of the actor by CreateUser.
ManagersStayHome ==
    [][\A u \in DOMAIN user :
        LET Changed == (user'[u].zones \ user[u].zones) \cup (user[u].zones \ user'[u].zones)
        IN  \/ Changed = {}
            \/ HasRole(user[u].manager, "MANAGER") /\ Changed \subseteq user[user[u].manager].zones
            \/ (\E zones \in ZoneSets : BulkAssignZones(Root, u, zones)) \/ \E e \in Patches : UpdateUser(Root, u, e)]_user

\* Fails: zones sent along with a role that works by none leave the old ones.
ZonesFitRole == \A u \in DOMAIN user : user[u].zones # {} => RoleIn(u) \in ZONE_ROLES

\* Fails: only the surveyors of a MANAGER are cleared; whoever reported to a
\* SALES_MANAGER or to a TEAM_LEADER still does when they are none any more.
SalesReportFits ==
    \A u \in DOMAIN user : /\ user[u].manager # None => HasRole(user[u].manager, ManagerRoleFor(RoleIn(u)))
                           /\ user[u].leader # None => HasRole(user[u].leader, "TEAM_LEADER")
=============================================================================
