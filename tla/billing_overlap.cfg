CONSTANTS
    pay1 = pay1
    pay2 = pay2
    w1 = w1
    w2 = w2
    Workers = {w1, w2}
    Plans = {1, 2}
    TrialPlan = 1
    Payments = {pay1}
    Kinds <- Racing
    Period = 2
    Trial = 2
    Grace = 1
    LastTick = 5
    MaxRequests = 2
    MaxCrashes = 1
    BypassPayment = FALSE
    MockGateway = FALSE
SPECIFICATION Spec
INVARIANTS
    PlanIsPaidFor
    NoFalseReceipt
