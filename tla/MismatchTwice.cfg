\* One order of 1 TL and two online attempts.
CONSTANTS
  MaxAmount = 1
  Price = 1
  Order = {o1}
  Total <- SamePrice
  PaymentKey = {}
  RefundKey = {}
  Attempt = {a1, a2}
  NoOrder = NoOrder
  NoPayment = NoPayment
SPECIFICATION Spec
SYMMETRY Symmetry
\* An idle shop takes no step.
CHECK_DEADLOCK FALSE
INVARIANTS
  MismatchAuditedOnce
