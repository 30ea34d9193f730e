SPECIFICATION Spec
CONSTANTS
    w1 = w1  w2 = w2  agent = agent  dsa = dsa
    m1 = m1  m2 = m2  fast = fast  slow = slow
    None = None
    Worker = {w1, w2}
    Partner = {dsa}
    FlatPaid = {}
    FlatAmount = 500
    Mobile = {m1}
    Plan = {fast}
    RateCard <- MCRateCardFast
    Targets = {"CONVERTED", "NOT_INTERESTED"}
    Outcomes = {}
    MaxMonth = 2
    MaxLeads = 2
    MaxPayments = 2
    MayFail = FALSE
SYMMETRY WorkerSymmetry
INVARIANTS PaidIsBacked AmountIsRateInForce
PROPERTY EarningIsFrozen
