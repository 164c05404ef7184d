CONSTANTS
    r1 = r1  r2 = r2  r3 = r3  r4 = r4  k1 = k1  k2 = k2  p1 = p1  p2 = p2
    Request = {r1, r2, r3, r4}
    Key = {k1, k2}
    Product = {p1, p2}
    KeyOf <- Keys
    Wanted <- Baskets
    Hold = 1
    MaxTime = 2
    Stocks = {0, 1}
    NoRow = NoRow
SPECIFICATION Spec
INVARIANTS PromisesKept NobodyStuck
PROPERTIES NeverOverReserved
CHECK_DEADLOCK FALSE
