CONSTANTS
    NoTx = NoTx
    NoCustomer = NoCustomer
    p1 = p1
    p2 = p2
    c1 = c1
    w1 = w1
    w2 = w2
    Workers = {w1}
    Products = {p1, p2}
    Customers = {c1}
    Opening <- MCOpening
    OpeningStock <- MCOpeningStock
    CreditLimit <- MCCreditLimit
    Requests <- AllRequests
    BatchSlots = 6
    MaxSales = 4
    LastDay = 2
    MaxRequests = 4
SPECIFICATION Spec
INVARIANTS
    TypeOK
    ProductLedger
    StockMatchesBatches
    RestockedOnce
    BalanceCoversDebt
    CreditWithinLimit
