SPECIFICATION Spec
CONSTANTS
    w1 = w1  w2 = w2  agent = agent  dsa = dsa
    m1 = m1  m2 = m2  fast = fast  slow = slow
    None = None
    Worker = {w1}
    Partner = {agent, dsa}
    FlatPaid = {agent}
    FlatAmount = 500
    Mobile = {m1, m2}
    Plan = {fast, slow}
    RateCard <- MCRateCardOne
    Targets = {"NEW", "CONTACTED", "INTERESTED", "CONVERTED", "NOT_INTERESTED", "UNREACHABLE", "DUPLICATE"}
    Outcomes = {"INTERESTED", "CALL_LATER", "NOT_REACHABLE", "WRONG_NUMBER"}
    MaxMonth = 1
    MaxLeads = 2
    MaxPayments = 1
    MayFail = FALSE
INVARIANTS TypeOK LeadAtRestAgrees ClaimChain
PROPERTY FirstClaim
