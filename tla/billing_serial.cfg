CONSTANTS
    pay1 = pay1
    pay2 = pay2
    w1 = w1
    w2 = w2
    Workers = {w1}
    Plans = {1, 2}
    TrialPlan = 1
    Payments = {pay1, pay2}
    Kinds <- Every
    Period = 2
    Trial = 2
    Grace = 1
    LastTick = 7
    MaxRequests = 3
    MaxCrashes = 0
    BypassPayment = FALSE
    MockGateway = FALSE
SPECIFICATION Spec
INVARIANTS
    TypeOK
    ActiveIsDated
    AppliedOnce
    ProcessedIsApplied
PROPERTIES
    NoEarlySuspension
SYMMETRY Sessions
