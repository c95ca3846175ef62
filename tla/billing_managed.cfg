CONSTANTS
    pay1 = pay1
    pay2 = pay2
    w1 = w1
    w2 = w2
    Workers = {w1}
    Plans = {1, 2}
    TrialPlan = 1
    Payments = {pay1}
    Kinds <- Managed
    Period = 2
    Trial = 2
    Grace = 1
    LastTick = 12
    MaxRequests = 3
    MaxCrashes = 1
    BypassPayment = TRUE
    MockGateway = TRUE
SPECIFICATION FairSpec
PROPERTIES
    OnlyMoneyOrAdminRevives
    OverdueIsHandled
