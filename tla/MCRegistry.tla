----------------------------- MODULE MCRegistry -----------------------------
(***************************************************************************)
(* The registers of the system, several models in one run: a behaviour is  *)
(* one of the model that part names, while the variables of the others     *)
(* keep their values.                                                      *)
(*   permission, wings, access   the buildings and societies               *)
(*   customers                   the customers of buildings                *)
(*   network                     fibres, closures and splitters            *)
(*   codes                       the one-time codes partners sign in with  *)
(*   joining, joiningOverlap     partners: they join and are approved      *)
(*   team                        the staff                                 *)
(*   list, sight                 who sees which customers and fibres       *)
(***************************************************************************)
EXTENDS SocietyPermission

CONSTANTS
    WingWorker, Person, Building, WingId,
    admin, executive, executive2, manager1, surveyor, surveyor2, supervisor, agent, lead, sales,
    MaxCount, MaxPass, Granted, Near, OltZones, homeZone, farZone,
    b1, b2, user1, user2, phone1, phone2, text1, text2, Wrong,
    desk1, desk2, NoRequest, teamLeader, pop1,
    Fiber, Splitter, closure1, splitter1,
    Newcomer, account1, account2, Staff

VARIABLES
    part, row, down, cable, pop, closure, hub, building, wings, wingReq, registry,
    customer, made, customerRequest, last,
    fiber, splitter, ponPorts, networkRequest,
    partner, invite, referral, partnerRequest, challenge, proof, account, session,
    user

societyVars == <<society, told, swept, req>>
wingVars == <<building, wings, wingReq>>
customerVars == <<customer, made, customerRequest, last>>
networkVars == <<fiber, splitter, ponPorts, networkRequest>>
partnerVars == <<partner, invite, referral, partnerRequest>>
codeVars == <<challenge, proof, account, session>>
listVars == <<row, down>>
sightVars == <<cable, pop, closure, hub>>
allVars == <<part, listVars, sightVars, societyVars, wingVars, registry, customerVars, networkVars, partnerVars, codeVars, user>>

----------------------------------------------------------------------------
(* Buildings *)

PersonRole == (admin :> "ADMIN") @@ (executive :> "PERMISSION_EXECUTIVE") @@ (executive2 :> "PERMISSION_EXECUTIVE")
    @@ (manager1 :> "MANAGER") @@ (surveyor :> "SURVEYOR") @@ (surveyor2 :> "SURVEYOR")
    @@ (supervisor :> "SUPERVISOR") @@ (agent :> "ACQUISITION_AGENT") @@ (lead :> "ACQUISITION_LEAD")
    @@ (sales :> "SALES_MANAGER")
PersonZones == [p \in Person |-> CASE p \in {manager1, surveyor} -> {homeZone} [] p = surveyor2 -> {farZone} [] OTHER -> {}]
ActorRole == [a \in Actor |-> PersonRole[a]]
ActorZones == [a \in Actor |-> PersonZones[a]]

Wings == INSTANCE BuildingWings WITH Worker <- WingWorker, req <- wingReq
Access == INSTANCE BuildingAccess WITH Actor <- Person, RoleOf <- PersonRole, ZonesOf <- PersonZones

NoBuilding == [count |-> None, homePass |-> None, live |-> FALSE, isSociety |-> FALSE, approved |-> FALSE]

----------------------------------------------------------------------------
(* Customers *)

Cells(b, u, m, t) == [building |-> b, username |-> u, mobile |-> m, text |-> t]
SheetRow ==
    {Cells(b1, user1, phone1, text1), Cells(b1, user1, phone2, text1), Cells(b1, user1, Wrong, text1),
     Cells(b1, user2, phone2, text1), Cells(b1, None, phone1, text2), Cells(b1, None, phone2, text2), Cells(b2, user1, phone1, text1)}
CustomerForm ==
    {Cells(b1, user1, phone1, text1), Cells(b1, user2, phone2, text1), Cells(b1, None, phone1, text1), Cells(b1, None, phone2, text1)}

Customers == INSTANCE CustomerRegister WITH
    Username <- {user1, user2}, Mobile <- {phone1, phone2}, Text <- {text1, text2}, Row <- SheetRow, Form <- CustomerForm,
    MaxRows <- 2, MaxId <- 2, Request <- {desk1}, Idle <- NoRequest, request <- customerRequest

----------------------------------------------------------------------------
(* The network *)

Line == {<<closure1, splitter1, b1>>, <<splitter1, b1>>}
Ask(points, port, feed) == [points |-> points, port |-> port, feed |-> feed]
LineAsks ==
    {Ask(line, port, None) : line \in Line, port \in {None, 1}}
    \cup {Ask(line, None, <<splitter1, 1>>) : line \in Line}
    \cup {Ask(line, Keep, Keep) : line \in Line}
    \cup {Ask(Keep, Keep, None), Ask(Keep, 1, None), Ask(Keep, None, <<splitter1, 1>>), Ask(<<splitter1, b1>>, None, <<splitter1, 2>>)}

Network == INSTANCE FiberNetwork WITH
    Closure <- {closure1}, Ratio <- {1, 2}, Shape <- Line, Asks <- LineAsks, MaxPort <- 1,
    Request <- {desk1}, Idle <- NoRequest, request <- networkRequest

----------------------------------------------------------------------------
(* Who sees what *)

Answered(state, olt, weak) == [state |-> state, olt |-> olt, weak |-> weak]
ListAnswer ==
    {Answered("online", "olt1", TRUE), Answered("not_seen", "olt2", FALSE), Answered("not_seen", None, FALSE)}
ListZoneAt == [b \in Building |-> IF b = b1 THEN homeZone ELSE None]
List == INSTANCE CustomerList WITH
    Zone <- {homeZone}, ZoneAt <- ListZoneAt, Olt <- {"olt1", "olt2"}, Answer <- ListAnswer, Readers <- {{b1}, {b1, b2}}, MaxId <- 2

Viewer == {admin, manager1, surveyor2, teamLeader}
ViewerRole == [a \in Viewer |-> IF a = teamLeader THEN "TEAM_LEADER" ELSE PersonRole[a]]
ViewerZones == [a \in Viewer |-> IF a = teamLeader THEN {homeZone} ELSE PersonZones[a]]
CableShape == {<<pop1, closure1>>, <<closure1, splitter1>>, <<splitter1, closure1>>}
Sight == INSTANCE NetworkAccess WITH
    Zone <- {homeZone, farZone}, Actor <- Viewer, RoleOf <- ViewerRole, ZonesOf <- ViewerZones,
    Ticked <- {manager1, surveyor2}, Pop <- pop1, Closure <- closure1, Splitter <- splitter1, Shape <- CableShape,
    PopZones <- {{homeZone}}

----------------------------------------------------------------------------
(* Partners and staff *)

Joining == INSTANCE PartnerOnboarding WITH
    Person <- Newcomer, Bank <- {account1, account2}, MaxLinks <- 2, MaxIntroductions <- 1,
    Request <- {desk1}, Idle <- NoRequest, MayFail <- FALSE, request <- partnerRequest
JoiningOverlap == INSTANCE PartnerOnboarding WITH
    Person <- Newcomer, Bank <- {account1}, MaxLinks <- 1, MaxIntroductions <- 0,
    Request <- {desk1, desk2}, Idle <- NoRequest, MayFail <- TRUE, request <- partnerRequest

Codes == INSTANCE OneTimeCode WITH
    Mobile <- {phone1, phone2}, maxAttempts <- 1, MaxCodes <- 2, Request <- {desk1}, Idle <- NoRequest, asking <- partnerRequest

StaffRole == {"MANAGER", "SURVEYOR", "TEAM_LEADER", "SALES_MANAGER", "SALES_EXECUTIVE"}
ZoneLists == {{}, {homeZone}, {farZone}}
Patch(role, zones, superior, leader) == [role |-> role, zones |-> zones, manager |-> superior, leader |-> leader]
StaffPatches ==
    {Patch(role, zones, Keep, Keep) : role \in StaffRole \cup {Keep}, zones \in {{}, {homeZone}, Keep}}
    \cup {Patch(Keep, Keep, u, Keep) : u \in Staff \cup {None}} \cup {Patch(Keep, Keep, Keep, u) : u \in Staff \cup {None}}

People == INSTANCE Team WITH
    User <- Staff, Root <- admin, Role <- StaffRole, ZoneSets <- ZoneLists, Patches <- StaffPatches, Seats <- 2

----------------------------------------------------------------------------
OfBuildings == {"permission", "wings", "access"}

MCInit ==
    /\ Init /\ Access!Init /\ Customers!Init /\ Network!Init /\ People!Init
    /\ List!Init /\ Sight!Init
    /\ IF part = "joiningOverlap" THEN JoiningOverlap!Init ELSE Joining!Init
    /\ IF part = "codes" THEN Codes!Init ELSE challenge = << >> /\ proof = {} /\ account = {} /\ session = {}
    /\ IF part = "wings" THEN Wings!Init
       ELSE building = NoBuilding /\ wings = << >> /\ wingReq = [w \in WingWorker |-> Wings!Idle]

MCStart == part \in OfBuildings \cup {"customers", "network", "codes", "joining", "joiningOverlap", "team", "list", "sight"} /\ MCInit

Buildings ==
    /\ UNCHANGED <<listVars, sightVars, customerVars, networkVars, partnerVars, codeVars, user>>
    /\ \/ part = "permission" /\ Next /\ UNCHANGED <<wingVars, registry>>
       \/ part = "wings" /\ Wings!Next /\ UNCHANGED <<societyVars, registry>>
       \/ part = "access" /\ Access!Next /\ UNCHANGED <<societyVars, wingVars>>
Others ==
    /\ UNCHANGED <<listVars, sightVars, societyVars, wingVars, registry>> /\ (part # "codes" => UNCHANGED codeVars)
    /\ \/ part = "customers" /\ Customers!Next /\ UNCHANGED <<networkVars, partnerVars, user>>
       \/ part = "network" /\ Network!Next /\ UNCHANGED <<customerVars, partnerVars, user>>
       \/ part = "codes" /\ Codes!Next /\ UNCHANGED <<customerVars, networkVars, partner, invite, referral, user>>
       \/ part = "joining" /\ Joining!Next /\ UNCHANGED <<customerVars, networkVars, user>>
       \/ part = "joiningOverlap" /\ JoiningOverlap!Next /\ UNCHANGED <<customerVars, networkVars, user>>
       \/ part = "team" /\ People!Next /\ UNCHANGED <<customerVars, networkVars, partnerVars>>

Views ==
    /\ UNCHANGED <<societyVars, wingVars, registry, customerVars, networkVars, partnerVars, codeVars, user>>
    /\ \/ part = "list" /\ List!Next /\ UNCHANGED sightVars
       \/ part = "sight" /\ Sight!Next /\ UNCHANGED listVars

MCNext == UNCHANGED part /\ (Buildings \/ Others \/ Views)
MCSpec == MCStart /\ [][MCNext]_allVars

----------------------------------------------------------------------------
\* The types of the models.
RegistryTypeOK ==
    CASE part = "permission" -> TypeOK
      [] part = "wings" -> Wings!TypeOK
      [] part = "access" -> Access!TypeOK
      [] part = "customers" -> Customers!TypeOK
      [] part = "network" -> Network!TypeOK
      [] part = "codes" -> Codes!TypeOK
      [] part = "joining" -> Joining!TypeOK
      [] part = "joiningOverlap" -> JoiningOverlap!TypeOK
      [] part = "team" -> People!TypeOK
      [] part = "list" -> List!TypeOK
      [] part = "sight" -> Sight!TypeOK

\* A building's totals are those of its wings, once all are placed.
TotalsAreDerived == part = "wings" => Wings!TotalsAreDerived /\ Wings!PlacedWithinCount
DownstreamIsTold == Sight!DownstreamIsTold

\* What a list shows is what its reader may open, of societies, buildings,
\* customers and fibres, and its counts and pages are those of its filter; the
\* cables shown inside another record are too, and what a closure names besides
\* starts there; what an actor changes they may open; an OLT goes to the zone it
\* serves.
ScopesAgree ==
    /\ part = "permission" => ListAgreesWithRow
    /\ part = "access" => Access!ListedIsReadable /\ Access!WritesWithinReads /\ Access!OltServesItsBuildings
    /\ part = "list" => List!ListsAgree
    /\ part = "sight" => Sight!NetworkIsSeenAlike

\* A hidden society stays hidden, and yet no duplicate goes unnoticed.
HiddenButCounted == part = "access" => Access!HiddenSociety /\ Access!DuplicateIsTold

\* No two customers have one Username, a sheet that names no number twice changes
\* nothing when taken again, and no import erases anything.
CustomersAreKept ==
    [](part = "customers" => Customers!UsernamesAreUnique /\ Customers!ReuploadChangesNothing) /\ Customers!ImportErasesNothing

\* A fed fibre starts where its splitter is; no other change takes its light
\* away; and its cuts stay where they are when it is redrawn.
NetworkHolds == [](part = "network" => Network!FeedsFit) /\ Network!LightIsKept /\ Network!CutsSurvive

\* In turn, a link opens one account and a person has one that works; nobody is
\* approved without papers, even when requests overlap and break off.  A code
\* is guessed at and opens no more often than it may, nor is one sent too soon.
PartnersJoinOnce ==
    /\ [](part = "joining" => Joining!OneLiveLink /\ Joining!LinkOpensOne)
    /\ [](part = "codes" => Codes!CodesAreKept)
    /\ []Joining!ApprovedOnPapers
    /\ [][part = "joining" => Joining!Standing]_allVars

\* Surveyors report to managers, ticks and roles fit, and of the staff there is
\* managers move only their own zones (what zones a new account is given is not
\* asked, nor what the ADMIN does).
TeamFits == [](part = "team" => People!SurveyorsReportToManagers /\ People!TicksFitRole) /\ People!ManagersStayHome

\* No part can tell the two of a pair apart, and none is about two of the pairs:
\* permutations that swap all of them are as good as one for each.  A part with
\* Newcomers has bank accounts, too.
Pair == {Worker, Fiber, Newcomer, Staff \ {admin}}
Swaps(s) == \A p \in Pair : \A x \in p : s[x] # x
Keeps(s) == \A p \in Pair : \A x \in p : s[x] = x
Both ==
    {a @@ b @@ c @@ d @@ e : a \in Permutations(Worker), b \in Permutations(Fiber), c \in Permutations(Newcomer),
                             d \in Permutations(Staff \ {admin}), e \in Permutations({account1, account2})}
Alike == {s \in Both : Swaps(s) \/ Keeps(s)}
=============================================================================
