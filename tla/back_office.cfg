CONSTANTS
    NoTx = NoTx
    NoCustomer = NoCustomer
    p1 = p1
    p2 = p2
    c1 = c1
    w1 = w1
    w2 = w2
    Workers = {w1, w2}
    Products = {p1, p2}
    Customers = {c1}
    Opening <- OneBatchEach
    OpeningStock <- OneBatchStock
    CreditLimit <- MCCreditLimit
    Requests <- Contended
    BatchSlots = 2
    MaxSales = 3
    LastDay = 2
    MaxRequests = 3
    UnitCost <- MCUnitCost
    RetailPrice <- MCRetailPrice
SPECIFICATION FairSpec
INVARIANTS
    GapFreeNumbers
    ReportsAgree
PROPERTIES
    SalesAreFinal
    ClosedDaysShrink
    Answered
