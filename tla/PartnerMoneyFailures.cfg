SPECIFICATION Spec
CONSTANTS
    w1 = w1  w2 = w2  agent = agent  dsa = dsa
    m1 = m1  m2 = m2  fast = fast  slow = slow
    None = None
    Worker = {w1}
    Partner = {agent, dsa}
    FlatPaid = {agent}
    FlatAmount = 500
    Mobile = {m1}
    Plan = {fast}
    RateCard <- MCRateCardFast
    Targets = {"CONVERTED", "NOT_INTERESTED"}
    Outcomes = {"WRONG_NUMBER"}
    MaxMonth = 2
    MaxLeads = 2
    MaxPayments = 2
    MayFail = TRUE
INVARIANT BooksAgree
PROPERTIES PaidLeadStays ImplementsLedger
