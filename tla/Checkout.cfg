CONSTANTS
    t1 = t1  t2 = t2  b1 = b1  b2 = b2  d1 = d1  d2 = d2
    None = None
    Tab = {t1, t2}
    Buyer = {t1}
    Basket = {b1}
    Details = {d1, d2}
    Key = {1, 2, 3, 4, 5}
    Number = {1, 2, 3, 4, 5, 6, 7, 8}
    FirstBasket = b1
    FirstDetails = d1
    MaxEdits = 1
    MaxChanges = 1
    MaxMishaps = 1
    MaxAsks = 2
SPECIFICATION FairSpec
INVARIANTS TypeOK OneOrderPerWish
PROPERTIES OrderedAsShown CheckoutEnds
CHECK_DEADLOCK FALSE
