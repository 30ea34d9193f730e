SPECIFICATION Spec
CONSTANTS
    w1 = w1  w2 = w2  agent = agent  dsa = dsa
    m1 = m1  m2 = m2  fast = fast  slow = slow
    None = None
    Worker = {w1, w2}
    Partner = {dsa}
    FlatPaid = {}
    FlatAmount = 500
    Mobile = {m1}
    Plan = {fast}
    RateCard <- MCRateCardOne
    Targets = {"CONVERTED", "NOT_INTERESTED"}
    Outcomes = {}
    MaxMonth = 1
    MaxLeads = 1
    MaxPayments = 1
    MayFail = FALSE
SYMMETRY WorkerSymmetry
PROPERTY PaidIsNeverDeleted
