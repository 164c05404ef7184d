\* Two customers and no operator, with fairness.
CONSTANTS
  MaxAmount = 2
  p1 = p1  p2 = p2
  r1 = r1  r2 = r2  r3 = r3  r4 = r4
  k1 = k1  k2 = k2
  Product = {p1, p2}
  Key = {k1, k2}
  IdRank <- Ids
  Nobody = Nobody
  NoForm = NoForm
  NotSold = NotSold
  Returned = Returned
  Request = {r1, r4}
  KeyOf <- KeysOfTwo
  Basket <- BasketsOfTwo
  Quoted <- TotalsOfTwo
  LineRank <- LineOrdersOfTwo
  Price = {1}
  Admin = {}
  Count = {}
  OpeningStock <- Plenty
SPECIFICATION FairSpec
CHECK_DEADLOCK FALSE
PROPERTIES
  EveryTransactionEnds
