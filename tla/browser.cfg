CONSTANTS
    Nobody = Nobody
    NoStore = NoStore
    u1 = u1
    u2 = u2
    s1 = s1
    s2 = s2
    t1 = t1
    t2 = t2
    Tabs = {t1, t2}
    Users = {u1, u2}
    StoresOf <- MCStoresOf
    MaxEvents = 3
    Plans = {2}
    NoPlan = 0
VIEW MCView
SYMMETRY Symmetric
SPECIFICATION Spec
CHECK_DEADLOCK FALSE
INVARIANTS
    ActsAsShown
    PeriodIsPaidFor
