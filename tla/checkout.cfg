CONSTANTS
    NoTx = NoTx
    NoCustomer = NoCustomer
    p1 = p1
    p2 = p2
    c1 = c1
    w1 = w1
    w2 = w2
    Workers = {w1, w2}
    Products = {p1, p2}
    Customers = {c1}
    Opening <- MCOpening
    OpeningStock <- MCOpeningStock
    CreditLimit <- MCCreditLimit
    Requests <- MCRequests
    BatchSlots = 2
    MaxSales = 3
    LastDay = 1
    MaxRequests = 3
SPECIFICATION CheckoutSpec
INVARIANTS
    CheckoutsOrdered
    StockNeverUnderstates
    BalanceWithinDebt
    NoDeadlock
PROPERTIES
    ImplementsSalesBook
