------------------------------ MODULE MCVisits ------------------------------
(***************************************************************************)
(* Planned and actual visits, five models in one run: a behaviour is one   *)
(* of VisitDay (the pairing), PlanSheet (a row of a sheet), VisitPlan (the *)
(* plan), FieldVisits (the field work) or SalesDesk (what is shown of it), *)
(* as part says; the variables of the others keep their values.  Field     *)
(* work is checked with one request at a time ("fieldInTurn") and with two *)
(* that overlap ("field").                                                 *)
(***************************************************************************)
EXTENDS VisitDay, Integers, TLC

CONSTANTS
    leader, executive, executive2, administrator, home, other, zone, clerk, clerk2, desk, picture, noon,
    boss, leader1, leader2,
    Nobody, AsBefore, Unreadable, NoColumn

VARIABLES leaderOf, active, zonesOf, visible, heldBy, log,
    part, row, readOn, planTasks, planVisits, uploads, holder, planDay,
          fieldVisits, activities, inquiries, meetings, zones, fieldDay, request
day == <<tasks, visits, minute>>
sheet == <<row, readOn>>
plan == <<planTasks, planVisits, uploads, holder, planDay>>
field == <<fieldVisits, activities, inquiries, meetings, zones, fieldDay, request>>
shown == <<leaderOf, active, zonesOf, visible, heldBy, log>>
allVars == <<part, day, sheet, plan, field, shown>>

Sheet == INSTANCE PlanSheet WITH today <- readOn, Week <- 2, MaxUntil <- 4, MaxRepeat <- 3, Oldest <- 6,
    LastDate <- 7, LastToday <- 2, None <- Nobody, Bad <- Unreadable, Absent <- NoColumn

Task(w, days, win) == [who |-> w, b |-> home, days |-> days, win |-> win]
PlanSheets ==
    {<<Task(executive, {2}, Window(1, 1)), Task(executive, {1, 2}, AllDay)>>,
     <<Task(executive2, {1, 2}, Window(1, 1)), Task(leader, {1}, AllDay)>>,
     <<Task(executive, {2}, AllDay), Task(executive2, {2}, AllDay)>>}
Leave == [who |-> AsBefore, b |-> AsBefore, day |-> AsBefore, win |-> AsBefore]
PlanPatches == {[Leave EXCEPT !.who = executive2, !.win = AllDay], [Leave EXCEPT !.who = executive, !.day = 1]}

Plan == INSTANCE VisitPlan WITH
    tasks <- planTasks, visits <- planVisits, today <- planDay,
    Executive <- {executive, executive2}, Leader <- {leader}, Admin <- {administrator},
    Team <- [l \in {leader} |-> {executive}], Pool <- [l \in {leader} |-> {home}], Building <- {home},
    Windows <- {AllDay, Window(1, 1)}, Sheets <- PlanSheets, Patches <- PlanPatches,
    Wishes <- {[who |-> executive, b |-> home, day |-> 1, win |-> AllDay]},
    None <- Nobody, Keep <- AsBefore, Minute <- {1}, LastDay <- 2, MaxUntil <- 1,
    MaxId <- 3, MaxUploads <- 2, MaxVisits <- 2

Field == INSTANCE FieldVisits WITH
    visits <- fieldVisits, today <- fieldDay, Worker <- {clerk, clerk2}, Leader <- {leader},
    Executive <- {executive}, Team <- [l \in {leader} |-> {executive}], Building <- {home, other}, Zone <- {zone},
    ZoneOf <- [b \in {home, other} |-> zone], Held <- executive :> {home, other},
    Type <- {desk}, Photo <- {picture}, MaxImages <- 1, Status <- {"NOT_CONTACTED", "FOLLOW_UP"}, Time <- {noon},
    None <- Nobody, MaxVisits <- 1, MaxInquiries <- 1, LastDay <- 1
FieldInTurn == INSTANCE FieldVisits WITH
    visits <- fieldVisits, today <- fieldDay, Worker <- {clerk}, Leader <- {leader},
    Executive <- {executive, executive2}, Team <- [l \in {leader} |-> {executive}], Building <- {home, other}, Zone <- {zone},
    ZoneOf <- [b \in {home, other} |-> zone], Held <- (executive :> {home, other}) @@ (executive2 :> {}),
    Type <- {desk}, Photo <- {picture}, MaxImages <- 1, Status <- {"NOT_CONTACTED", "FOLLOW_UP"}, Time <- {noon},
    None <- Nobody, MaxVisits <- 2, MaxInquiries <- 0, LastDay <- 2

DeskRole ==
    [p \in {boss, administrator, executive, leader1, leader2} |->
        IF p = boss THEN "SALES_MANAGER" ELSE IF p = administrator THEN "ADMIN"
        ELSE IF p = executive THEN "SALES_EXECUTIVE" ELSE "TEAM_LEADER"]
\* What a cell holds that is no number of days or weeks; null is no name, no time
\* and nobody's id.
ASSUME CellAssumption ==
    /\ {Nobody, Unreadable, NoColumn} \cap Int = {}
    /\ Nobody \notin Field!Op \cup DOMAIN DeskRole \cup {noon}
    /\ Nobody # Unreadable /\ Nobody # NoColumn /\ Unreadable # NoColumn

Desk == INSTANCE SalesDesk WITH
    leader <- leaderOf, zones <- zonesOf, holder <- heldBy, activity <- log,
    Person <- DOMAIN DeskRole, RoleOf <- DeskRole,
    ManagerOf <- [p \in DOMAIN DeskRole |-> IF p \in {leader1, leader2, executive} THEN boss ELSE Nobody],
    Building <- {home, other}, ZoneAt <- (home :> zone) @@ (other :> Nobody), None <- Nobody,
    Awaiting <- {other}, Zone <- {zone}, MaxActivity <- 2

MCInit ==
    /\ part \in {"day", "sheet", "plan", "field", "fieldInTurn", "desk"}
    /\ Desk!Init
    /\ IF part = "day" THEN Init ELSE tasks = {} /\ visits = {} /\ minute = 1
    /\ IF part = "sheet" THEN Sheet!Init ELSE row = Nobody /\ readOn = 0
    /\ Plan!Init
    /\ IF part = "fieldInTurn" THEN FieldInTurn!Init ELSE Field!Init

MCNext ==
    /\ UNCHANGED part
    /\ part # "desk" => UNCHANGED shown
    /\ \/ part = "day" /\ Next /\ UNCHANGED <<sheet, plan, field>>
       \/ part = "sheet" /\ Sheet!Next /\ UNCHANGED <<day, plan, field>>
       \/ part = "plan" /\ Plan!Next /\ UNCHANGED <<day, sheet, field>>
       \/ part = "field" /\ Field!Next /\ UNCHANGED <<day, sheet, plan>>
       \/ part = "fieldInTurn" /\ FieldInTurn!Next /\ UNCHANGED <<day, sheet, plan>>
       \/ part = "desk" /\ Desk!Next /\ UNCHANGED <<day, sheet, plan, field>>

MCSpec == MCInit /\ [][MCNext]_allVars

\* The types of the plan and of the field work.
VisitsTypeOK == Plan!TypeOK /\ (part = "field" => Field!TypeOK) /\ (part = "fieldInTurn" => FieldInTurn!TypeOK) /\ (part = "desk" => Desk!TypeOK)

\* The pairing of tasks and visits is complete, and the best there is.
DayIsPairedBest == part = "day" => PairingIsBest
DayGoesForward == StatusGoesForward

\* A row of a sheet plans the days it asks for, whichever way it is written.
SheetRowIsRead == part = "sheet" => Sheet!RowMeansItsDays

\* Nobody has a task twice, a preview without an error comes true, and the lists
\* of tasks and uploads count what is there.
PlanIsSound == part = "plan" => Plan!PlanHasNoTwins /\ Plan!PreviewIsTrue /\ Plan!ListsTellThePlan

\* A task with a visit is kept through every edit, import, hand-over and removal.
WorkedTasksAreKept == Plan!WorkIsKept

\* The rows of the field work fit each other though requests overlap; with
\* requests in turn nobody has two open visits and what was checked out is fixed.
\* The map, the lists and the dashboard show what their reader may work and open.
FieldRowsFit ==
    /\ [](part = "desk" => Desk!DeskShowsWhatIsThere)
    /\ [][/\ part \in {"field", "fieldInTurn"} => Field!FieldRecordsFit'
          /\ part = "fieldInTurn" => FieldInTurn!OneOpenVisit' /\ FieldInTurn!KeptWhenClosed]_field

Alike == Permutations({leader1, leader2}) \cup Permutations({clerk, clerk2})
=============================================================================
