CONSTANTS
    pay1 = pay1
    pay2 = pay2
    w1 = w1
    w2 = w2
    Workers = {w1}
    Plans = {1, 2}
    TrialPlan = 1
    Payments = {pay1}
    Kinds <- Downgrading
    Period = 2
    Trial = 2
    Grace = 1
    LastTick = 5
    MaxRequests = 3
    MaxCrashes = 0
    BypassPayment = FALSE
    MockGateway = FALSE
SPECIFICATION Spec
PROPERTIES
    DowngradeTakesEffect
