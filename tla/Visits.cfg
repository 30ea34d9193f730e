SPECIFICATION MCSpec
CONSTANTS
    Building = {1, 2}
    LastMinute = 3
    MaxTasks = 3
    MaxVisits = 3
    leader = leader
    executive = executive
    executive2 = executive2
    administrator = administrator
    home = home
    other = other
    zone = zone
    boss = boss
    leader1 = leader1
    leader2 = leader2
    clerk = clerk
    clerk2 = clerk2
    desk = desk
    picture = picture
    noon = noon
    Nobody = Nobody
    AsBefore = AsBefore
    Unreadable = Unreadable
    NoColumn = NoColumn
SYMMETRY Alike
INVARIANTS VisitsTypeOK DayIsPairedBest SheetRowIsRead PlanIsSound
PROPERTIES DayGoesForward WorkedTasksAreKept FieldRowsFit
CHECK_DEADLOCK FALSE
