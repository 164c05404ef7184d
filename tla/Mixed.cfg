\* One order of 3 TL: two manual payments, two refunds, an online attempt.
CONSTANTS
  MaxAmount = 3
  Price = 3
  Order = {o1}
  Total <- SamePrice
  PaymentKey = {k1, k2}
  RefundKey = {r1, r2}
  Attempt = {a1}
  NoOrder = NoOrder
  NoPayment = NoPayment
SPECIFICATION Spec
SYMMETRY Symmetry
\* An idle shop takes no step.
CHECK_DEADLOCK FALSE
INVARIANTS
  TypeOK
  RefundsWithinPayments
  FullRefundStamped
  FulfilmentRecords
  PaymentStatusCache
  FulfilmentWasPaid
  CancelledReturnedManualMoney
  OverCollectionFlagged
PROPERTIES
  BooksAreFinal
  ImplementsCashBook
