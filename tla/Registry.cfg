SPECIFICATION MCSpec
CONSTANTS
    Worker = {w1, w2}
    WingWorker = {x1}
    Society = {soc1}
    Zone = {homeZone, farZone}
    homeZone = homeZone
    farZone = farZone
    admin = admin
    executive = executive
    executive2 = executive2
    manager1 = manager1
    surveyor = surveyor
    surveyor2 = surveyor2
    supervisor = supervisor
    agent = agent
    lead = lead
    sales = sales
    Actor = {admin, executive, surveyor, manager1}
    RoleOf <- ActorRole
    ZonesOf <- ActorZones
    Person = {admin, executive, executive2, manager1, surveyor, surveyor2, supervisor, agent, lead, sales}
    Building = {b1, b2}
    b1 = b1
    b2 = b2
    user1 = user1
    user2 = user2
    phone1 = phone1
    phone2 = phone2
    text1 = text1
    text2 = text2
    Wrong = Wrong
    teamLeader = teamLeader
    pop1 = pop1
    desk1 = desk1
    desk2 = desk2
    NoRequest = NoRequest
    Fiber = {f1, f2}
    Splitter = {splitter1}
    closure1 = closure1
    splitter1 = splitter1
    Newcomer = {p1, p2}
    account1 = account1
    account2 = account2
    Staff = {admin, u1, u2}
    WingId = {i1, i2, i3}
    None = None
    Keep = Keep
    Gone = Gone
    MaxCount = 2
    MaxPass = 1
    Granted = {surveyor}
    Near = {b1}
    OltZones = {homeZone}
SYMMETRY Alike
INVARIANTS
    RegistryTypeOK
    ApprovalIsConsistent
    TotalsAreDerived
    ScopesAgree
    HiddenButCounted
PROPERTIES
    JudgedUnderLock
    ImplementsWorkflow
    CustomersAreKept
    NetworkHolds
    PartnersJoinOnce
    TeamFits
CHECK_DEADLOCK FALSE
