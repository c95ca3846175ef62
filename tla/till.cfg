CONSTANTS
    Unset = Unset
    Null = Null
    p1 = p1
    p2 = p2
    p3 = p3
    s1 = s1
    s2 = s2
    s3 = s3
    Products = {p1, p2, p3}
    Stores = {s1, s2, s3}
    FirstStore = s1
    Price <- MCPrice
    StoreOf <- MCStoreOf
    CustomerStore = s1
    OpeningStock <- MCOpeningStock
    Discounts <- MCDiscounts
    DefaultTax <- MCDefaultTax
    Settings <- MCSettings
    OpeningCredit = 1200
    Notes = {1000}
    MaxEvents = 3
SPECIFICATION Spec
CHECK_DEADLOCK FALSE
INVARIANTS
    BookedAsShown
    PayableIsAccepted
    SoldTwiceOnlyIfLost
