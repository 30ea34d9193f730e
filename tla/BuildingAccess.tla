-------------------------- MODULE BuildingAccess --------------------------
(***************************************************************************)
(* Who lists, reads and changes which buildings: the filter behind the     *)
(* lists and bulk actions, the read rule for a single building, and the    *)
(* rules each write checks, all written apart from one another in          *)
(* src/src/modules/buildings/building.service.js, its repository,          *)
(* lib/building-source.js and middleware/auth.js.                          *)
(*                                                                         *)
(* The registry evolves by adding, moving, approving and deleting          *)
(* buildings; the rules are functions of it.  All buildings are at one     *)
(* Place, and within reach of one another or not (Near).                   *)
(***************************************************************************)
EXTENDS FiniteSets

CONSTANTS
    Building, Zone, Actor,
    RoleOf,     \* [Actor -> role]
    ZonesOf,    \* [Actor -> zones given to them]
    Granted,    \* the surveyors ticked to edit buildings
    Near,       \* the buildings within the radius of a nearby check
    OltZones,   \* the zones of the OLT being assigned
    None

VARIABLES registry
vars == <<registry>>

Source == {"COVERAGE", "ACQUISITION", "PERMISSION"}
Row == [source: Source, owner: Actor, zone: Zone \cup {None}, approved: BOOLEAN, live: BOOLEAN]
TypeOK == registry \in [Building -> Row \cup {None}]

There == {b \in Building : registry[b] # None}
Role(actor, roles) == RoleOf[actor] \in roles
Mine(actor, b) == registry[b].owner = actor
MyZone(actor, b) == registry[b].zone \in ZonesOf[actor]
Is(b, source) == registry[b].source = source

----------------------------------------------------------------------------
(* building-source.js *)
IsVisibleBuilding(b) == Is(b, "PERMISSION") => registry[b].approved
ApprovedSociety(b) == Is(b, "PERMISSION") /\ registry[b].approved
CoverageRegistry(b) == Is(b, "COVERAGE") \/ ApprovedSociety(b)

ReadsByZone(actor) == Role(actor, {"SURVEYOR", "MANAGER"})

(* buildListWhere, with the source and creator the client may filter by *)
ListSource(actor, b, source) ==
    IF Role(actor, {"ACQUISITION_AGENT", "ACQUISITION_LEAD"}) THEN Is(b, "ACQUISITION")
    ELSE IF Role(actor, {"PERMISSION_EXECUTIVE"}) THEN Is(b, "PERMISSION")
    ELSE CASE source = "PERMISSION" -> ApprovedSociety(b)
           [] source \in Source \ {"PERMISSION"} -> Is(b, source)
           [] OTHER -> IF Role(actor, {"ADMIN", "MANAGER", "SURVEYOR", "SALES_MANAGER"}) THEN CoverageRegistry(b) ELSE IsVisibleBuilding(b)
ListOwnerForged(actor, b, creator) ==
    IF creator # None THEN registry[b].owner = creator
    ELSE Role(actor, {"ACQUISITION_AGENT", "PERMISSION_EXECUTIVE"}) => Mine(actor, b)
ListOwner(actor, b, creator) ==
    IF Role(actor, {"ACQUISITION_AGENT", "PERMISSION_EXECUTIVE"}) THEN Mine(actor, b)
    ELSE creator # None => registry[b].owner = creator
BuildListWhere(actor, source, creator) ==
    {b \in There : /\ ListSource(actor, b, source)
                   /\ ListOwner(actor, b, creator)
                   /\ ReadsByZone(actor) => (MyZone(actor, b) \/ Mine(actor, b))}

(* readScope *)
ReadScopeOf(actor, b) ==
    CASE Role(actor, {"ADMIN", "SUPERVISOR"}) -> TRUE
      [] Role(actor, {"SURVEYOR", "MANAGER"}) -> Mine(actor, b) \/ MyZone(actor, b)
      [] Role(actor, {"ACQUISITION_AGENT", "PERMISSION_EXECUTIVE"}) -> Mine(actor, b)
      [] Role(actor, {"ACQUISITION_LEAD"}) -> Is(b, "ACQUISITION")
      [] OTHER -> FALSE
ReadScope(actor, b) ==
    IF ~IsVisibleBuilding(b)
    THEN Role(actor, {"ADMIN"}) \/ (Role(actor, {"PERMISSION_EXECUTIVE"}) /\ Mine(actor, b))
    ELSE ReadScopeOf(actor, b)

----------------------------------------------------------------------------
(* The rules of the writes *)

MayEditBuildings(actor) ==
    \/ Role(actor, {"ADMIN", "MANAGER", "SUPERVISOR", "PERMISSION_EXECUTIVE"})
    \/ Role(actor, {"SURVEYOR"}) /\ actor \in Granted

UpdateBuilding(actor, b) ==
    /\ MayEditBuildings(actor)
    /\ Role(actor, {"MANAGER"}) => ReadScope(actor, b)
    /\ IF Is(b, "PERMISSION")
       THEN \/ Role(actor, {"ADMIN"})
            \/ Role(actor, {"PERMISSION_EXECUTIVE"}) /\ Mine(actor, b) /\ ~registry[b].approved
       ELSE Role(actor, {"SURVEYOR", "PERMISSION_EXECUTIVE"}) => Mine(actor, b)

AssertCanEditWings(actor, b) ==
    IF Is(b, "PERMISSION") THEN Role(actor, {"ADMIN"})
    ELSE \/ Role(actor, {"ADMIN", "SUPERVISOR"})
         \/ Role(actor, {"MANAGER"}) /\ ReadScope(actor, b)
         \/ Role(actor, {"SURVEYOR"}) /\ Mine(actor, b)

AssertMayModifyAny(actor, b) == Role(actor, {"SURVEYOR", "ACQUISITION_AGENT"}) => Mine(actor, b)
AssertMayModify(actor, b) ==
    IF Role(actor, {"SURVEYOR", "ACQUISITION_AGENT"}) THEN Mine(actor, b) ELSE ReadScope(actor, b)

GuardSocietyPhoto(actor, b, letter) ==
    ReadScope(actor, b) /\ IsVisibleBuilding(b) /\ ~letter /\ ~Role(actor, {"PERMISSION_EXECUTIVE"})

AddPhoto(actor, b, letter) ==
    /\ Is(b, "PERMISSION") => GuardSocietyPhoto(actor, b, letter)
    /\ letter => Role(actor, {"ADMIN", "MANAGER", "SUPERVISOR"})
    /\ AssertMayModify(actor, b)
RemovePhoto(actor, b, letter) ==
    /\ Is(b, "PERMISSION") => GuardSocietyPhoto(actor, b, letter)
    /\ AssertMayModify(actor, b)

UpdateStatusHiddenToo(actor, b) == Role(actor, {"ADMIN", "MANAGER", "SUPERVISOR"}) /\ ReadScope(actor, b)
UpdateStatus(actor, b) ==
    /\ Role(actor, {"ADMIN", "MANAGER", "SUPERVISOR"})
    /\ IsVisibleBuilding(b) /\ ReadScope(actor, b)

BulkSetLive(actor, ids, source) ==
    IF Role(actor, {"ADMIN", "MANAGER", "SUPERVISOR"})
    THEN BuildListWhere(actor, source, None) \cap ids ELSE {}

BulkAssignOlt(actor, ids) ==
    LET rows == BuildListWhere(actor, None, None) \cap ids
        zones == {registry[b].zone : b \in rows}
    IN  IF /\ Role(actor, {"ADMIN", "MANAGER", "SUPERVISOR", "SURVEYOR"})
           /\ ~Role(actor, {"ADMIN"}) => (Cardinality(zones) = 1 /\ zones \subseteq OltZones)
        THEN rows ELSE {}

SearchForPartner == {b \in There : CoverageRegistry(b)}

(* findNearby: the rows in the radius, and one more at the same Place *)
IncludePermission(actor) == Role(actor, {"ADMIN", "PERMISSION_EXECUTIVE"})
Shown(actor, b) == IsVisibleBuilding(b) \/ ReadScope(actor, b)
FindWithinBounds(actor) == {b \in There \cap Near : IncludePermission(actor) \/ IsVisibleBuilding(b)}
FindByPlaceId(actor) ==
    LET found == {b \in There : IncludePermission(actor) \/ IsVisibleBuilding(b)}
        best == {b \in found : registry[b].live \/ \A c \in found : ~registry[c].live}
    IN  IF best = {} THEN {} ELSE {CHOOSE b \in best : TRUE}
FindNearby(actor) ==
    LET near == {b \in FindWithinBounds(actor) : Shown(actor, b)}
    IN  IF near # {} THEN near ELSE {b \in FindByPlaceId(actor) : Shown(actor, b)}
Masked(actor, b) == ~ReadScope(actor, b)

----------------------------------------------------------------------------
(* How the registry comes about *)

\* createBuilding: the row an actor's request makes.  An executive may leave
\* the zone out or send null: left out, the Place must be new everywhere.
PlaceFree(zone) == \A b \in There : registry[b].zone # zone
CreateBuilding(b, actor, zone) ==
    LET byExecutive == Role(actor, {"PERMISSION_EXECUTIVE"})
        source == CASE Role(actor, {"ACQUISITION_AGENT"}) -> "ACQUISITION"
                    [] byExecutive -> "PERMISSION" [] OTHER -> "COVERAGE"
    IN  /\ registry[b] = None
        /\ ~Role(actor, {"ACQUISITION_LEAD"})
        /\ IF Role(actor, {"ACQUISITION_AGENT"}) THEN zone = None
           ELSE /\ zone = None => byExecutive
                /\ zone # None => PlaceFree(zone)
                /\ Role(actor, {"SURVEYOR", "MANAGER"}) => zone \in ZonesOf[actor]
        /\ \E live \in BOOLEAN :
              /\ source = "ACQUISITION" => ~live
              /\ registry' = [registry EXCEPT ![b] =
                    [source |-> source, owner |-> actor, zone |-> zone, approved |-> FALSE, live |-> live]]

\* bulkCreateBuildings: an admin's rows, into zones made as they are needed.
BulkCreateBuildings(b, actor, zone) ==
    /\ registry[b] = None /\ Role(actor, {"ADMIN"}) /\ PlaceFree(zone)
    /\ registry' = [registry EXCEPT ![b] =
          [source |-> "COVERAGE", owner |-> actor, zone |-> zone, approved |-> FALSE, live |-> FALSE]]

\* updateBuilding moving a row to another zone, where its own rules let it.
Move(b, actor, zone) ==
    /\ b \in There /\ UpdateBuilding(actor, b) /\ zone # registry[b].zone
    /\ (~Is(b, "PERMISSION") /\ Role(actor, {"SURVEYOR", "MANAGER"})) => zone \in ZonesOf[actor]
    /\ PlaceFree(zone)
    /\ registry' = [registry EXCEPT ![b].zone = zone]

SetLive(ids, actor, source, live) ==
    LET rows == BulkSetLive(actor, ids, source) IN
    /\ rows # {}
    /\ registry' = [b \in Building |-> IF b \in rows THEN [registry[b] EXCEPT !.live = live] ELSE registry[b]]

Approve(b, zone) ==
    /\ b \in There /\ Is(b, "PERMISSION") /\ ~registry[b].approved
    /\ \A c \in There \ {b} : registry[c].zone # zone
    /\ registry' = [registry EXCEPT ![b].approved = TRUE, ![b].zone = zone]

\* deleteBuilding and bulkDeleteBuildings: an admin's.
Remove(b) == b \in There /\ registry' = [registry EXCEPT ![b] = None]

Init == registry = [b \in Building |-> None]

Next ==
    \/ \E b \in Building, actor \in Actor, zone \in Zone \cup {None} : CreateBuilding(b, actor, zone)
    \/ \E b \in Building, actor \in Actor, zone \in Zone : BulkCreateBuildings(b, actor, zone) \/ Move(b, actor, zone)
    \/ \E ids \in SUBSET Building, actor \in Actor, source \in Source \cup {None}, live \in BOOLEAN :
        SetLive(ids, actor, source, live)
    \/ \E b \in Building, zone \in Zone : Approve(b, zone)
    \/ \E b \in Building : Remove(b)

Spec == Init /\ [][Next]_vars

----------------------------------------------------------------------------
(* Properties *)

Reader == {a \in Actor : RoleOf[a] # "SALES_MANAGER"}   \* sales lists buildings it cannot open
Readable(actor) == {b \in There : ReadScope(actor, b)}

\* What a list, an export, the map or a bulk action may show an actor, with
\* whatever filters the client sends, the actor may open.
ListedIsReadable ==
    \A a \in Reader, source \in Source \cup {None}, creator \in Actor \cup {None} :
        BuildListWhere(a, source, creator) \subseteq Readable(a)

\* What an actor may change, by whichever route, the actor may open.
WritesWithinReads ==
    \A a \in Actor, b \in There :
        (\/ UpdateBuilding(a, b) \/ AssertCanEditWings(a, b) \/ UpdateStatus(a, b)
         \/ \E letter \in BOOLEAN : AddPhoto(a, b, letter) \/ RemovePhoto(a, b, letter)
         \/ \E source \in Source \cup {None} : b \in BulkSetLive(a, Building, source)
         \/ b \in BulkAssignOlt(a, {b}))
        => ReadScope(a, b)

\* A society not yet approved is on no list, map, nearby answer or partner
\* search but its executive's and, nearby, an admin's; nobody switches its
\* status, its photos or its OLT.
HiddenSociety ==
    \A a \in Actor, b \in There : ~IsVisibleBuilding(b) =>
        /\ \A source \in Source \cup {None}, creator \in Actor \cup {None} :
              b \in BuildListWhere(a, source, creator) => Role(a, {"PERMISSION_EXECUTIVE"}) /\ Mine(a, b)
        /\ b \in FindNearby(a) => Role(a, {"ADMIN"}) \/ Mine(a, b)
        /\ b \notin SearchForPartner
        /\ ~UpdateStatus(a, b) /\ b \notin BulkAssignOlt(a, Building)
        /\ \A source \in Source \cup {None} : b \notin BulkSetLive(a, Building, source)
        /\ \A letter \in BOOLEAN : ~AddPhoto(a, b, letter) /\ ~RemovePhoto(a, b, letter)

\* A building at the same Place is told as a duplicate wherever it is, if only
\* as a masked one, to everyone but a Permission Executive, whose lookup may
\* stop at another executive's society; what is told in full they may open.
DuplicateIsTold ==
    \A a \in Actor :
        /\ (\E b \in There : Shown(a, b) /\ ~Role(a, {"PERMISSION_EXECUTIVE"})) => FindNearby(a) # {}
        /\ {b \in FindNearby(a) : ~Masked(a, b)} \subseteq Readable(a)

\* Unless an admin does it, an OLT is given only to buildings of one zone, one
\* that the OLT serves.
OltServesItsBuildings ==
    \A a \in Actor, ids \in SUBSET Building :
        (BulkAssignOlt(a, ids) # {} /\ ~Role(a, {"ADMIN"}))
        => \E z \in OltZones : \A b \in BulkAssignOlt(a, ids) : registry[b].zone = z
=============================================================================
