CONSTANTS
    NoTx = NoTx
    NoCustomer = NoCustomer
    p1 = p1
    p2 = p2
    c1 = c1
    w1 = w1
    w2 = w2
    Workers = {w1, w2}
    Products = {p1, p2}
    Customers = {c1}
    Opening <- MCOpening
    OpeningStock <- MCOpeningStock
    CreditLimit <- MCCreditLimit
    Requests <- TillsAndDeliveries
    BatchSlots = 5
    MaxSales = 3
    LastDay = 1
    MaxRequests = 3
    ReorderLevel <- MCReorderLevel
    MaxRuns = 3
SPECIFICATION SpecAlerts
INVARIANTS
    BatchLedger
    BatchesMatchSales
    OldestFirst
    OneMailPerEvent
