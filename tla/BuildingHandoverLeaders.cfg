SPECIFICATION Spec
CONSTANTS
    w1 = w1  w2 = w2
    boss = boss  north = north  south = south
    asha = asha  bela = bela  chand = chand
    tower = tower  villa = villa
    None = None
    Worker = {w1, w2}
    Manager = {}
    Leader = {north, south}
    Executive = {asha, bela, chand}
    Team <- MCTeam
    Zone <- MCZone
    Building = {tower, villa}
    RowId = {1,2,3,4,5,6,7}
    TaskId = {1,2,3,4,5}
    FirstRow <- MCFirstRow
    FirstTask <- MCFirstTask
    MaxRequest = 3
    Kinds = {"assign", "import"}
    MayFail = TRUE
SYMMETRY WorkerSymmetry
INVARIANT OneHolder
PROPERTIES HeldStaysHeld ImplementsRegister
CHECK_DEADLOCK FALSE
