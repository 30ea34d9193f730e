SPECIFICATION Spec
CONSTANTS
    w1 = w1  w2 = w2
    boss = boss  north = north  south = south
    asha = asha  bela = bela  chand = chand
    tower = tower  villa = villa
    None = None
    Worker = {w1, w2}
    Manager = {boss}
    Leader = {}
    Executive = {asha, bela, chand}
    Team <- MCTeam
    Zone <- MCZone
    Building = {tower}
    RowId = {1,2,3,4}
    TaskId = {1,2}
    FirstRow <- MCFirstRow
    FirstTask <- MCFirstTask
    MaxRequest = 2
    Kinds = {"assign"}
    MayFail = FALSE
SYMMETRY WorkerSymmetry
INVARIANT OneHolder
CHECK_DEADLOCK FALSE
