SPECIFICATION MCSpec
CONSTANTS
    c1 = c1  c2 = c2  c3 = c3
    Customer = {c1, c2, c3}
    Username = {u1}
    None = None
    Sent = Sent
    Unread = Unread
    Page = {p1}
    Refresher = refresher
    Olts = olts
    Burst = 2
    MaxWait = 1
    FanOut = 2
    SyncFloor = 1
    RefreshFloor = 1
    PerRound = 1
    HoldRounds = 1
    MassLimit = 1
    Touched = {c1, c2}
    MaxEvents = 2
INVARIANTS ReadingIsOfUsername
PROPERTIES BudgetIsKept EveryoneIsChecked
