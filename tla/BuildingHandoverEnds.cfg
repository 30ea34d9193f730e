SPECIFICATION FairSpec
CONSTANTS
    w1 = w1  w2 = w2
    boss = boss  north = north  south = south
    asha = asha  bela = bela  chand = chand
    tower = tower  villa = villa
    None = None
    Worker = {w1, w2}
    Manager = {boss}
    Leader = {north}
    Executive = {asha, chand}
    Team <- MCTeam
    Zone <- MCZone
    Building = {tower, villa}
    RowId = {1,2,3,4,5,6}
    TaskId = {1,2,3,4,5}
    FirstRow <- MCFirstRow
    FirstTask <- MCFirstTask
    MaxRequest = 2
    Kinds = {"plan", "move", "delete", "assign", "import"}
    MayFail = FALSE
INVARIANT TypeOK
PROPERTIES EveryRequestEnds LeaderTakesOnlyOwn EditLands
CHECK_DEADLOCK FALSE
