--------------------------- MODULE NetworkAccess ---------------------------
(***************************************************************************)
(* Who sees and changes which fibres, closures, splitters and POPs         *)
(* (lib/visibility.js and its callers in modules/fibers, closures, pops):  *)
(* the filters behind the lists, the same rule for rows already loaded     *)
(* inside another record, and what each write asks of its actor.           *)
(*                                                                         *)
(* There is one site of each kind, and a splitter has one output.  A site  *)
(* drawn that is not there is made with the line.  How fibres are fed and  *)
(* cut is FiberNetwork's subject.                                          *)
(***************************************************************************)
EXTENDS Naturals, Sequences, FiniteSets, SequencesExt

CONSTANTS
    Fiber, Zone, Actor, RoleOf, ZonesOf,
    Ticked,      \* who may draw fibres: User.canManageFiber
    Pop, Closure, Splitter,   \* the three sites
    Shape,       \* the sequences of sites a fibre may run over
    PopZones,    \* the sets of zones a POP may serve
    None

VARIABLES
    cable,     \* partial function of Fiber: zone, owner, points
    pop,       \* zones and owner, or None
    closure,   \* the owner, or None
    hub        \* the splitter: closure it hangs on, owner, input fibre, fibre fed; or None

vars == <<cable, pop, closure, hub>>

TypeOK ==
    /\ DOMAIN cable \subseteq Fiber
    /\ \A f \in DOMAIN cable : cable[f] \in [zone : Zone, owner : Actor, points : Shape]
    /\ pop \in [zones : SUBSET Zone, owner : Actor] \cup {None} /\ closure \in Actor \cup {None}
    /\ hub \in [closure : BOOLEAN, owner : Actor, input : Fiber \cup {None}, to : Fiber \cup {None}] \cup {None}

There(f) == f \in DOMAIN cable
Visits(f, site) == There(f) /\ site \in ToSet(cable[f].points)
Through(site) == {f \in Fiber : Visits(f, site)}
Place == IF hub.closure THEN Closure ELSE Splitter   \* where the splitter is reached
IsAdmin(a) == RoleOf[a] = "ADMIN"

----------------------------------------------------------------------------
(* visibility.js *)

InZones(a, f) == cable[f].zone \in ZonesOf[a]
ZoneScope(a, f) == There(f) /\ (IsAdmin(a) \/ cable[f].owner = a \/ InZones(a, f))
PopZoneScope(a) == pop # None /\ (IsAdmin(a) \/ pop.owner = a \/ pop.zones \cap ZonesOf[a] # {})
ClosureScope(a) == closure # None /\ (IsAdmin(a) \/ closure = a \/ \E f \in Through(Closure) : InZones(a, f))
SplitterScope(a) ==
    /\ hub # None
    /\ \/ IsAdmin(a) \/ hub.owner = a
       \/ \E f \in Through(Splitter) : InZones(a, f)
       \/ hub.closure /\ \E f \in Through(Closure) : InZones(a, f)
CanSeeFiber(a, f) ==
    \/ IsAdmin(a)
    \/ RoleOf[a] # "TEAM_LEADER" /\ (cable[f].owner = a \/ InZones(a, f))

(* middleware/auth.js and the routes *)
MayManageFiber(a) == IsAdmin(a) \/ (a \in Ticked /\ RoleOf[a] \in {"MANAGER", "SURVEYOR", "SUPERVISOR"})
ReadsFibers(a) == RoleOf[a] \in {"ADMIN", "MANAGER", "SURVEYOR", "SUPERVISOR"}
ReadsPops(a) == ReadsFibers(a) \/ RoleOf[a] = "TEAM_LEADER"
Opens(a, f) == ReadsFibers(a) /\ ZoneScope(a, f)

----------------------------------------------------------------------------
(* What a reader is shown inside another record *)

PopShows(a) == IF ReadsPops(a) /\ PopZoneScope(a) THEN {f \in Through(Pop) : CanSeeFiber(a, f)} ELSE {}
ClosureCables(a) == IF ReadsFibers(a) /\ ClosureScope(a) THEN {f \in Through(Closure) : CanSeeFiber(a, f)} ELSE {}
SplitterShows(a) ==
    IF ReadsFibers(a) /\ SplitterScope(a)
    THEN {f \in Through(Splitter) \cup ({hub.input, hub.to} \cap DOMAIN cable) : CanSeeFiber(a, f)} ELSE {}

\* What else is sent goes by no rule: a closure's splitter comes with the fibre its
\* output feeds, and a fibre with what its splitter feeds and what feeds its splitter.
Fed == IF hub = None THEN {} ELSE {hub.to} \ {None}
ClosureShows(a) ==
    ClosureCables(a) \cup (IF ReadsFibers(a) /\ ClosureScope(a) /\ hub # None /\ hub.closure THEN Fed ELSE {})
FiberShows(a, f) ==
    IF Opens(a, f) /\ hub # None /\ f \in {hub.input, hub.to} THEN {hub.input, hub.to} \ {None} ELSE {}

\* collectDownstream: what a splitter that f feeds past point k feeds in turn.
FedPast(f, k) ==
    LET later == {cable[f].points[i] : i \in k + 1 .. Len(cable[f].points)}
        reached == hub # None /\ hub.input = f /\ Place \in later
    IN  IF reached THEN Fed ELSE {}
\* With one splitter nothing lies further downstream.
CollectDownstream(f, k) == FedPast(f, k)
\* The rows of the walk carry their owner and not their zone.
DownstreamTold(a, f, k) ==
    {g \in CollectDownstream(f, k) : IsAdmin(a) \/ (RoleOf[a] # "TEAM_LEADER" /\ cable[g].owner = a)}

----------------------------------------------------------------------------
(* Fibres *)

\* assertZone: a surveyor uses the zones given to them.
AssertZone(a, zone) == RoleOf[a] = "SURVEYOR" => zone \in ZonesOf[a]

\* resolvePoints: a site already on the line stays, another must be in scope.
Resolves(a, points, onLine) ==
    \A site \in ToSet(points) \ onLine :
        CASE site = Pop -> pop = None \/ PopZoneScope(a)
          [] site = Closure -> closure = None \/ ClosureScope(a)
          [] site = Splitter -> hub = None \/ SplitterScope(a)
\* What is made with the line belongs to the line's owner; and a line that ends
\* on a closure feeds the splitter there that has no input.
Minted(f, points, owner) ==
    /\ pop' = IF Pop \in ToSet(points) /\ pop = None THEN [zones |-> {}, owner |-> owner] ELSE pop
    /\ closure' = IF Closure \in ToSet(points) /\ closure = None THEN owner ELSE closure
    /\ hub' = IF Splitter \in ToSet(points) /\ hub = None
              THEN [closure |-> FALSE, owner |-> owner, input |-> f, to |-> None]
              ELSE IF hub # None /\ hub.closure /\ Last(points) = Closure /\ hub.input = None
              THEN [hub EXCEPT !.input = f] ELSE hub

CreateFiber(a, f, zone, points) ==
    /\ MayManageFiber(a) /\ ~There(f) /\ AssertZone(a, zone) /\ Resolves(a, points, {})
    /\ cable' = [g \in DOMAIN cable \cup {f} |->
                    IF g = f THEN [zone |-> zone, owner |-> a, points |-> points] ELSE cable[g]]
    /\ Minted(f, points, a)
UpdateFiber(a, f, zone, points) ==
    /\ MayManageFiber(a) /\ ZoneScope(a, f)
    /\ zone # cable[f].zone => AssertZone(a, zone)
    /\ Resolves(a, points, ToSet(cable[f].points))
    /\ (hub # None /\ hub.to = f) => Head(points) = Place
    /\ cable' = [cable EXCEPT ![f].zone = zone, ![f].points = points]
    /\ Minted(f, points, cable[f].owner)
\* assertSplitterRules: a fibre that starts at the splitter is fed by it, or no longer.
Feed(a, f) ==
    /\ MayManageFiber(a) /\ ZoneScope(a, f) /\ hub # None
    /\ IF hub.to = f THEN hub' = [hub EXCEPT !.to = None]
       ELSE /\ hub.to = None /\ SplitterScope(a) /\ Head(cable[f].points) = Place
            /\ hub' = [hub EXCEPT !.to = f]
    /\ UNCHANGED <<cable, pop, closure>>
\* A splitter on no closure goes with its line, if no other line runs by it.
DeleteFiber(a, f) ==
    LET mine == hub # None /\ ~hub.closure /\ Visits(f, Splitter)
        Cleared(g) == IF g = f THEN None ELSE g
    IN  /\ MayManageFiber(a) /\ ZoneScope(a, f)
        /\ mine => Through(Splitter) = {f}
        /\ cable' = [g \in DOMAIN cable \ {f} |-> cable[g]]
        /\ hub' = IF mine THEN None ELSE IF hub = None THEN None
                  ELSE [hub EXCEPT !.input = Cleared(@), !.to = Cleared(@)]
        /\ UNCHANGED <<pop, closure>>

----------------------------------------------------------------------------
(* Closures and splitters *)

CreateClosure(a) == MayManageFiber(a) /\ closure = None /\ closure' = a /\ UNCHANGED <<cable, pop, hub>>
\* The splitter on a closure goes with it; the database refuses while a line runs
\* over that splitter (FiberPoint.splitter is onDelete: Restrict).
DeleteClosure(a) ==
    /\ MayManageFiber(a) /\ ClosureScope(a) /\ Through(Closure) = {}
    /\ hub # None /\ hub.closure => Through(Splitter) = {}
    /\ closure' = None /\ hub' = IF hub # None /\ hub.closure THEN None ELSE hub
    /\ UNCHANGED <<cable, pop>>

\* The closure's owner owns what hangs off it.
AddSplitter(a, named) ==
    LET ending == {f \in DOMAIN cable : Last(cable[f].points) = Closure}
        input == IF named # None THEN named ELSE IF Cardinality(ending) = 1 THEN CHOOSE f \in ending : TRUE ELSE None
    IN  /\ MayManageFiber(a) /\ ClosureScope(a) /\ hub = None
        /\ named # None => There(named) /\ CanSeeFiber(a, named)
        /\ hub' = [closure |-> TRUE, owner |-> closure, input |-> input, to |-> None] /\ UNCHANGED <<cable, pop, closure>>
\* A new input is only there, whoever may open it.
UpdateSplitter(a, named) ==
    /\ MayManageFiber(a) /\ SplitterScope(a) /\ named \in DOMAIN cable \cup {None}
    /\ hub' = [hub EXCEPT !.input = named] /\ UNCHANGED <<cable, pop, closure>>
DeleteSplitter(a) ==
    /\ MayManageFiber(a) /\ SplitterScope(a) /\ hub.to = None /\ Through(Splitter) = {}
    /\ hub' = None /\ UNCHANGED <<cable, pop, closure>>

----------------------------------------------------------------------------
(* POPs *)

AssertZones(a, zones) == RoleOf[a] = "SURVEYOR" => zones \subseteq ZonesOf[a]
CreatePop(a, zones) ==
    /\ MayManageFiber(a) /\ pop = None /\ AssertZones(a, zones)
    /\ pop' = [zones |-> zones, owner |-> a] /\ UNCHANGED <<cable, closure, hub>>
UpdatePop(a, zones) ==
    /\ MayManageFiber(a) /\ PopZoneScope(a) /\ AssertZones(a, zones)
    /\ pop' = [pop EXCEPT !.zones = zones] /\ UNCHANGED <<cable, closure, hub>>
DeletePop(a) ==
    MayManageFiber(a) /\ PopZoneScope(a) /\ Through(Pop) = {} /\ pop' = None /\ UNCHANGED <<cable, closure, hub>>

Init == cable = << >> /\ pop = None /\ closure = None /\ hub = None
Next ==
    \E a \in Actor :
        \/ \E f \in Fiber : \/ \E z \in Zone, points \in Shape : CreateFiber(a, f, z, points) \/ UpdateFiber(a, f, z, points)
                            \/ Feed(a, f) \/ DeleteFiber(a, f)
        \/ CreateClosure(a) \/ DeleteClosure(a) \/ \E f \in Fiber \cup {None} : AddSplitter(a, f) \/ UpdateSplitter(a, f)
        \/ DeleteSplitter(a) \/ DeletePop(a) \/ \E zones \in PopZones : CreatePop(a, zones) \/ UpdatePop(a, zones)
Spec == Init /\ [][Next]_vars

----------------------------------------------------------------------------
(* Properties *)

\* The rule for loaded rows is the filter of the lists, for all who read fibres;
\* and the cables at a POP, through a closure, of a splitter or on the way down
\* from a cut its reader could open, a team leader none.  Of others a closure
\* names one that starts there, on an output of its splitter.
ShownIsOpenable ==
    \A a \in Actor :
        /\ ReadsFibers(a) => \A f \in DOMAIN cable : ZoneScope(a, f) <=> CanSeeFiber(a, f)
        /\ \A f \in PopShows(a) \cup ClosureCables(a) \cup SplitterShows(a) : Opens(a, f)
        /\ \A f \in DOMAIN cable, k \in 0 .. 2 : Opens(a, f) => \A g \in DownstreamTold(a, f, k) : Opens(a, g)
        /\ \A f \in ClosureShows(a) : Opens(a, f) \/ Head(cable[f].points) = Closure

\* Whoever may open a closure may open the splitter that hangs on it, and
\* whoever works a fibre's zone may open the closure and splitter it runs by.
SitesFollowTheirFiber ==
    \A a \in Actor :
        /\ (hub # None /\ hub.closure /\ ClosureScope(a)) => SplitterScope(a)
        /\ \A f \in DOMAIN cable : InZones(a, f) =>
              (Visits(f, Closure) => ClosureScope(a)) /\ (Visits(f, Splitter) => SplitterScope(a))

\* No fibre runs over a site that is gone, nor is one fed, or feeding, that is.
NothingDangles ==
    /\ (Through(Pop) # {} => pop # None) /\ (Through(Closure) # {} => closure # None) /\ (Through(Splitter) # {} => hub # None)
    /\ hub # None => {hub.input, hub.to} \subseteq DOMAIN cable \cup {None} /\ (hub.closure => closure # None)

NetworkIsSeenAlike == ShownIsOpenable /\ SitesFollowTheirFiber /\ NothingDangles

\* What a closure or a fibre names its reader could open: it is not so, as its
\* splitter's outputs and feed are sent whole.
NamedIsOpenable ==
    \A a \in Actor :
        /\ \A f \in ClosureShows(a) : Opens(a, f)
        /\ \A f \in DOMAIN cable : \A g \in FiberShows(a, f) : Opens(a, g)

\* The reader of a cut fibre is told of every fibre that lost its light and that
\* the reader could open.
DownstreamIsTold ==
    \A a \in Actor, f \in DOMAIN cable, k \in 0 .. 2 :
        Opens(a, f) => \A g \in CollectDownstream(f, k) \ {f} : Opens(a, g) => g \in DownstreamTold(a, f, k)
=============================================================================
