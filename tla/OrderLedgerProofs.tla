-------------------------- MODULE OrderLedgerProofs --------------------------
(***************************************************************************)
(* Proofs about OrderLedger, for any number of orders, keys and attempts   *)
(* and any prices: first what every step keeps, then the theorems.  The    *)
(* inductive invariant is Inv == TypeOK /\ Structure /\ MoneyInv.          *)
(***************************************************************************)
EXTENDS OrderLedger, MoneyTheorems

(* The tables are finite, so every sum over their rows is a number. *)
LEMMA RowsFinite ==
  /\ IsFiniteSet(Payment) /\ IsFiniteSet(RefundKey)
  /\ \A o : IsFiniteSet(PaidRows(o)) /\ IsFiniteSet(RefundRows(o))
  /\ \A p : IsFiniteSet(RefundRowsOn(p))
<1>1. IsFiniteSet(Payment) /\ IsFiniteSet(RefundKey)
  BY LedgerAssumption, FS_Union DEF Payment
<1>2. \A o : PaidRows(o) \in SUBSET Payment /\ RefundRows(o) \in SUBSET RefundKey
  BY DEF PaidRows, RefundRows
<1>3. \A p : RefundRowsOn(p) \in SUBSET RefundKey
  BY DEF RefundRowsOn
<1> QED
  BY <1>1, <1>2, <1>3, FS_Subset

LEMMA SumsAreNumbers ==
  /\ \A o : Collected(o) \in Nat /\ Refunded(o) \in Nat
  /\ \A p : RefundedOn(p) \in Nat
BY RowsFinite, SumType DEF Collected, Refunded, RefundedOn

LEMMA DueType ==
  ASSUME NEW o \in Order
  PROVE  Due(o) \in 0..MaxAmount
BY SumsAreNumbers, LedgerAssumption, MaxAmountAssumption DEF Due, OutstandingAmount

LEMMA DerivedStatusType ==
  ASSUME NEW o, NEW status, NEW collected, NEW refunded
  PROVE  NextPayment(o, status, collected, refunded) \in OrderPaymentStatus
BY DEF NextPayment, DerivePaymentStatus, OrderPaymentStatus

-----------------------------------------------------------------------------
(* Types *)

(* The rows the actions insert, and an order's row after a transition. *)
LEMMA NewRows ==
  ASSUME NEW o \in Order, NEW p \in Payment, NEW n \in 0..MaxAmount,
         NEW s \in {"paid", "pending"}
  PROVE  /\ [order |-> o, amount |-> n, status |-> s, refundedAt |-> FALSE] \in PaymentRow
         /\ [order |-> o, payment |-> p, amount |-> n] \in RefundRow
BY DEF PaymentRow, RefundRow

LEMMA AmountType == Amount \subseteq 0..MaxAmount
BY MaxAmountAssumption DEF Amount

LEMMA TransitionedRow ==
  ASSUME NEW r \in OrderRow, NEW ps \in OrderPaymentStatus, NEW next \in OrderStatus
  PROVE  [status |-> next, paymentStatus |-> ps,
          stock |-> IF next = "cancelled" THEN "released" ELSE r.stock,
          shipments |-> IF next \in {"shipped", "delivery"}
                        THEN r.shipments + 1 ELSE r.shipments,
          installationJobs |-> IF next = "installation"
                               THEN r.installationJobs + 1
                               ELSE r.installationJobs] \in OrderRow
BY DEF OrderRow

(* What the actions do to one row leaves it a row of its table. *)
LEMMA PaymentRowUpdates ==
  ASSUME NEW r \in PaymentRow
  PROVE  /\ \A s \in {"paid", "failed", "cancelled"} :
              [r EXCEPT !.status = s] \in PaymentRow
         /\ \A b : [r EXCEPT !.refundedAt = r.refundedAt \/ b] \in PaymentRow
BY DEF PaymentRow

LEMMA MetaUpdates ==
  ASSUME NEW m \in Meta
  PROVE  /\ \A t \in {"live", "expired"} : [m EXCEPT !.token = t] \in Meta
         /\ [m EXCEPT !.inFlight = FALSE] \in Meta
         /\ \A c \in {"SUPERSEDED", "TOKEN_REQUEST_FAILED", "FAILED"} :
              [m EXCEPT !.failureCode = c] \in Meta
         /\ [m EXCEPT !.failureCode = "AMOUNT_MISMATCH", !.reviewRequired = TRUE] \in Meta
         /\ \A b : [m EXCEPT !.failureCode = "none",
                             !.reviewRequired = m.reviewRequired \/ b] \in Meta
BY DEF Meta

LEMMA OrderRowUpdates ==
  ASSUME NEW r \in OrderRow, NEW ps \in OrderPaymentStatus
  PROVE  /\ [r EXCEPT !.paymentStatus = ps] \in OrderRow
         /\ \A s \in OrderStatus :
              [r EXCEPT !.status = s, !.paymentStatus = ps] \in OrderRow
BY DEF OrderRow

LEMMA AuditUpdates ==
  ASSUME NEW r \in AuditRows
  PROVE  /\ [r EXCEPT !.success = r.success + 1] \in AuditRows
         /\ [r EXCEPT !.mismatch = r.mismatch + 1] \in AuditRows
BY DEF AuditRows

LEMMA InitType == Init => TypeOK
<1> SUFFICES ASSUME Init PROVE TypeOK
  OBVIOUS
<1>1. order \in [Order -> OrderRow]
  BY DEF Init, OrderRow, OrderStatus, OrderPaymentStatus
<1>2. payment \in [Payment -> PaymentRow]
  BY MaxAmountAssumption DEF Init, PaymentRow, NoRow
<1>3. meta \in [Attempt -> Meta]
  BY DEF Init, Meta, NewMeta
<1>4. refund \in [RefundKey -> RefundRow]
  BY MaxAmountAssumption DEF Init, RefundRow, NoRefund
<1> QED
  BY <1>1, <1>2, <1>3, <1>4 DEF Init, TypeOK, Idle, AuditRows

LEMMA NextType == TypeOK /\ [Next]_vars => TypeOK'
<1> SUFFICES ASSUME TypeOK, [Next]_vars PROVE TypeOK'
  OBVIOUS
<1> USE DEF TypeOK, provider, ledger
<1>1. ASSUME NEW o \in Order, NEW k \in PaymentKey, NEW n \in Amount,
             RecordManualPayment(o, k, n)
      PROVE  TypeOK'
  <2>1. [order |-> o, amount |-> n, status |-> "paid", refundedAt |-> FALSE] \in PaymentRow
    BY NewRows, AmountType DEF Payment
  <2>2. k \in Payment
    BY DEF Payment
  <2> QED
    BY <1>1, <2>1, <2>2, DerivedStatusType, OrderRowUpdates DEF RecordManualPayment
<1>2. ASSUME NEW o \in Order, NEW k \in RefundKey, NEW p \in Payment, NEW n \in Amount,
             RecordRefund(o, k, p, n)
      PROVE  TypeOK'
  <2>1. [order |-> o, payment |-> p, amount |-> n] \in RefundRow
    BY NewRows, AmountType
  <2>2. payment' \in [Payment -> PaymentRow]
    BY <1>2, PaymentRowUpdates DEF RecordRefund
  <2> QED
    BY <1>2, <2>1, <2>2, DerivedStatusType, OrderRowUpdates DEF RecordRefund
<1>3. ASSUME NEW o \in Order, NEW next \in OrderStatus, TransitionOrder(o, next)
      PROVE  TypeOK'
  <2>1. order' \in [Order -> OrderRow]
    BY <1>3, TransitionedRow, DerivedStatusType DEF TransitionOrder
  <2> QED
    BY <1>3, <2>1 DEF TransitionOrder
<1>4. ASSUME NEW o \in Order, StartPaytrRead(o)
      PROVE  TypeOK'
  BY <1>4 DEF StartPaytrRead, PendingAttempts
<1>5. ASSUME NEW o \in Order, NEW a \in Attempt, StartPaytrCommit(o, a)
      PROVE  TypeOK'
  <2>1. [order |-> o, amount |-> Due(o), status |-> "pending", refundedAt |-> FALSE]
          \in PaymentRow
    BY DueType, NewRows DEF Payment
  <2>2. payment' \in [Payment -> PaymentRow]
    BY <1>5, <2>1, PaymentRowUpdates DEF StartPaytrCommit
  <2>3. meta' \in [Attempt -> Meta]
    BY <1>5, MetaUpdates DEF StartPaytrCommit
  <2> QED
    BY <1>5, <2>2, <2>3 DEF StartPaytrCommit, Idle
<1>6. ASSUME NEW o \in Order, StartPaytrAbort(o)
      PROVE  TypeOK'
  BY <1>6 DEF StartPaytrAbort, Idle
<1>7. ASSUME NEW a \in Attempt, AttemptStep(a)
      PROVE  TypeOK'
  <2>1. CASE StoreToken(a)
    BY <2>1, MetaUpdates DEF StoreToken
  <2>2. CASE TokenRefused(a)
    <3>1. a \in Payment
      BY DEF Payment
    <3>2. CASE payment[a].status = "pending"
      <4>1. /\ payment' = [payment EXCEPT ![a].status = "failed"]
            /\ meta' = [meta EXCEPT ![a].failureCode = "TOKEN_REQUEST_FAILED"]
        BY <2>2, <3>2 DEF TokenRefused
      <4>2. payment' \in [Payment -> PaymentRow]
        BY <3>1, <4>1, PaymentRowUpdates
      <4>3. meta' \in [Attempt -> Meta]
        BY <4>1, MetaUpdates
      <4> QED
        BY <2>2, <4>2, <4>3 DEF TokenRefused
    <3>3. CASE payment[a].status # "pending"
      BY <2>2, <3>3 DEF TokenRefused
    <3> QED
      BY <3>2, <3>3
  <2>3. CASE RequestLost(a)
    BY <2>3 DEF RequestLost
  <2>4. CASE TokenExpires(a)
    BY <2>4, MetaUpdates DEF TokenExpires
  <2>5. CASE InFlightElapses(a)
    BY <2>5, MetaUpdates DEF InFlightElapses
  <2> QED
    BY <1>7, <2>1, <2>2, <2>3, <2>4, <2>5 DEF AttemptStep
<1>8. ASSUME NEW a \in Attempt, ProviderStep(a)
      PROVE  TypeOK'
  BY <1>8 DEF ProviderStep, Charge, Decline
<1>9. ASSUME NEW a \in Attempt, CallbackStep(a)
      PROVE  TypeOK'
  <2>1. CASE PaytrCallbackFailed(a)
    BY <2>1, MetaUpdates, PaymentRowUpdates DEF PaytrCallbackFailed, Payment
  <2>2. CASE PaytrCallbackMismatch(a)
    BY <2>2, MetaUpdates, AuditUpdates DEF PaytrCallbackMismatch
  <2>3. CASE PaytrCallbackSuccess(a)
    <3>1. payment' \in [Payment -> PaymentRow]
      BY <2>3, PaymentRowUpdates DEF PaytrCallbackSuccess, Payment
    <3>2. meta' \in [Attempt -> Meta]
      BY <2>3, MetaUpdates DEF PaytrCallbackSuccess
    <3>3. order' \in [Order -> OrderRow]
      <4> DEFINE o == payment[a].order
      <4>1. CASE o \in Order
        <5>1. order[o].status \in OrderStatus /\ "paid" \in OrderStatus
          BY <4>1 DEF OrderRow, OrderStatus
        <5> QED
          BY <2>3, <4>1, <5>1, DerivedStatusType, OrderRowUpdates
             DEF PaytrCallbackSuccess
      <4>2. CASE o \notin Order
        BY <2>3, <4>2 DEF PaytrCallbackSuccess
      <4> QED
        BY <4>1, <4>2
    <3> QED
      BY <2>3, <3>1, <3>2, <3>3, AuditUpdates DEF PaytrCallbackSuccess
  <2> QED
    BY <1>9, <2>1, <2>2, <2>3 DEF CallbackStep
<1>10. CASE UNCHANGED vars
  BY <1>10 DEF vars
<1> QED
  BY <1>1, <1>2, <1>3, <1>4, <1>5, <1>6, <1>7, <1>8, <1>9, <1>10
     DEF Next, OperatorStep, StartStep

(* Every variable keeps its shape. *)
THEOREM TypeCorrect == Spec => []TypeOK
BY InitType, NextType, PTL DEF Spec

-----------------------------------------------------------------------------
(* Which rows exist, and who may still write them *)

\* A row that does not exist is empty, one that does belongs to an order.
RowsHaveOrders ==
  \A p \in Payment : IF payment[p].status = "absent" THEN payment[p] = NoRow
                     ELSE payment[p].order \in Order

\* A manual row is born paid.
ManualRowsArePaid == \A k \in PaymentKey : payment[k].status \in {"absent", "paid"}

\* Requests, pages, charges and refused cards are those of existing attempts.
AttemptsExist ==
  \A a \in Attempt :
    \/ request[a] # "none" \/ a \in iframe
    \/ charged[a] # "nothing" \/ a \in declined
    => payment[a].status # "absent"

\* What an opening transaction has read still belongs to its order, can not have
\* been paid since, and includes whatever is pending.
SeenIsCurrent ==
  \A o \in Order :
    /\ \A a \in starting[o].seen :
         payment[a].order = o /\ payment[a].status \in {"pending", "failed"}
    /\ IF starting[o].open THEN PendingAttempts(o) \subseteq starting[o].seen
       ELSE starting[o].seen = {}

RefundRowsExist ==
  \A k \in RefundKey : refund[k].order = NoOrder => refund[k] = NoRefund

Structure == /\ RowsHaveOrders /\ ManualRowsArePaid /\ AttemptsExist
             /\ SeenIsCurrent /\ RefundRowsExist /\ RefundsAreBacked

(* How a step can move a payment row. *)
SameMoney(p) == /\ payment'[p].order = payment[p].order
                /\ payment'[p].amount = payment[p].amount

Stays(p) == SameMoney(p) /\ payment'[p].status = payment[p].status

Moves(p, from, to) == /\ SameMoney(p)
                      /\ payment[p].status \in from /\ payment'[p].status = to

Opens(p, o, n, s) ==
  /\ payment[p] = NoRow
  /\ payment'[p] = [order |-> o, amount |-> n, status |-> s, refundedAt |-> FALSE]

StatusWrite(p, s) == payment' = [payment EXCEPT ![p].status = s]

LEMMA StatusWritten ==
  ASSUME payment \in [Payment -> PaymentRow], NEW a \in Payment, NEW s, StatusWrite(a, s)
  PROVE  /\ SameMoney(a) /\ payment'[a].status = s
         /\ \A p \in Payment \ {a} : payment'[p] = payment[p]
BY DEF PaymentRow, StatusWrite, SameMoney

LEMMA RecordRefundRows ==
  ASSUME TypeOK, NEW o \in Order, NEW k \in RefundKey, NEW p \in Payment,
         NEW n \in Amount, RecordRefund(o, k, p, n)
  PROVE  \A q \in Payment : Stays(q)
<1>1. payment \in [Payment -> PaymentRow]
  BY DEF TypeOK
<1> QED
  BY <1>1 DEF RecordRefund, PaymentRow, Stays, SameMoney

LEMMA StartPaytrCommitRows ==
  ASSUME TypeOK, Structure, NEW o \in Order, NEW a \in Attempt, StartPaytrCommit(o, a)
  PROVE  /\ Opens(a, o, Due(o), "pending")
         /\ \A p \in starting[o].seen : Moves(p, {"pending", "failed"}, "cancelled")
         /\ \A p \in Payment \ ({a} \cup starting[o].seen) : payment'[p] = payment[p]
         /\ a \notin starting[o].seen /\ starting[o].seen \subseteq Attempt
<1>1. /\ payment \in [Payment -> PaymentRow] /\ a \in Payment
      /\ starting[o].seen \subseteq Attempt /\ Attempt \subseteq Payment
  BY DEF TypeOK, Payment
<1>2. payment[a] = NoRow /\ a \notin starting[o].seen
  BY <1>1 DEF StartPaytrCommit, Structure, RowsHaveOrders, SeenIsCurrent
<1>3. \A p \in Payment : payment'[p] =
        IF p = a THEN [order |-> o, amount |-> Due(o), status |-> "pending",
                       refundedAt |-> FALSE]
        ELSE IF p \in starting[o].seen THEN [payment[p] EXCEPT !.status = "cancelled"]
        ELSE payment[p]
  BY DEF StartPaytrCommit, Superseded
<1>4. \A r \in PaymentRow : LET q == [r EXCEPT !.status = "cancelled"] IN
        q.order = r.order /\ q.amount = r.amount /\ q.status = "cancelled"
  BY DEF PaymentRow
<1>5. ASSUME NEW p \in starting[o].seen
      PROVE  Moves(p, {"pending", "failed"}, "cancelled")
  <2>1. p \in Payment /\ p # a /\ payment[p] \in PaymentRow
    BY <1>1, <1>2
  <2>2. payment[p].status \in {"pending", "failed"}
    BY DEF Structure, SeenIsCurrent
  <2>3. payment'[p] = [payment[p] EXCEPT !.status = "cancelled"]
    BY <1>3, <2>1
  <2>4. /\ payment'[p].order = payment[p].order
        /\ payment'[p].amount = payment[p].amount
        /\ payment'[p].status = "cancelled"
    BY <1>4, <2>1, <2>3
  <2> QED
    BY <2>2, <2>4 DEF Moves, SameMoney
<1> QED
  BY <1>1, <1>2, <1>3, <1>5 DEF Opens

LEMMA CallbackRows ==
  ASSUME TypeOK, Structure, NEW a \in Attempt, NEW s, StatusWrite(a, s),
         payment[a].status # "absent", Unlocked(payment[a].order)
  PROVE  /\ a \in Payment /\ SameMoney(a) /\ payment'[a].status = s
         /\ payment[a].order \in Order
         /\ \A p \in Payment \ {a} : payment'[p] = payment[p]
         /\ \A o \in Order : a \notin starting[o].seen
<1>1. a \in Payment /\ payment \in [Payment -> PaymentRow]
  BY DEF Payment, TypeOK
<1>2. payment[a].order \in Order
  BY <1>1 DEF Structure, RowsHaveOrders
<1>3. \A o \in Order : a \notin starting[o].seen
  BY <1>2 DEF Structure, SeenIsCurrent, Unlocked
<1> QED
  BY <1>1, <1>2, <1>3, StatusWritten

(* Whatever writes the payments, the rows and the seen attempts stay coherent. *)
Grows(p) ==
  \/ payment'[p] = payment[p]
  \/ /\ payment'[p].status # "absent" /\ payment'[p].order \in Order
     /\ p \in PaymentKey => payment'[p].status = "paid"

\* A row keeps its order and its amount for good, and a paid row stays paid.
RowsKept ==
  \A p \in Payment : payment[p].status # "absent" =>
    SameMoney(p) /\ (payment[p].status = "paid" => payment'[p].status = "paid")

LEMMA RowsGrow ==
  ASSUME RowsHaveOrders, ManualRowsArePaid, \A p \in Payment : Grows(p)
  PROVE  RowsHaveOrders' /\ ManualRowsArePaid'
BY DEF RowsHaveOrders, ManualRowsArePaid, Grows, Payment

LEMMA BackingStays ==
  ASSUME RefundsAreBacked, RefundRowsExist, RowsKept, refund' = refund
  PROVE  RefundsAreBacked' /\ RefundRowsExist'
BY DEF RefundsAreBacked, RefundRowsExist, RowsKept, Stays, SameMoney, Payment

LEMMA AttemptsStay ==
  ASSUME AttemptsExist, \A p \in Payment : Grows(p), 
         UNCHANGED <<request, iframe, charged, declined>>
  PROVE  AttemptsExist'
BY DEF AttemptsExist, Grows, Payment

\* Only attempts that no open transaction has seen change, and none becomes pending.
LEMMA SeenStays ==
  ASSUME SeenIsCurrent, starting' = starting,
         \A a \in Attempt :
           \/ SameMoney(a) /\ payment'[a].status = payment[a].status
           \/ /\ SameMoney(a) /\ payment'[a].status # "pending"
              /\ \/ payment'[a].status = "failed"
                 \/ \A o \in Order : a \notin starting[o].seen,
         \A o \in Order : starting[o].seen \subseteq Attempt
  PROVE  SeenIsCurrent'
<1> SUFFICES ASSUME NEW o \in Order
             PROVE  /\ \A a \in starting[o].seen :
                         payment'[a].order = o /\ payment'[a].status \in {"pending", "failed"}
                    /\ IF starting[o].open THEN PendingAttempts(o)' \subseteq starting[o].seen
                       ELSE starting[o].seen = {}
  BY DEF SeenIsCurrent
<1>1. \A a \in starting[o].seen :
        payment'[a].order = o /\ payment'[a].status \in {"pending", "failed"}
  BY DEF SeenIsCurrent, SameMoney
<1>2. PendingAttempts(o)' \subseteq PendingAttempts(o)
  BY DEF PendingAttempts, SameMoney
<1> QED
  BY <1>1, <1>2 DEF SeenIsCurrent

LEMMA InitStructure == Init => Structure
BY DEF Init, Structure, RowsHaveOrders, ManualRowsArePaid, AttemptsExist, SeenIsCurrent,
       RefundRowsExist, RefundsAreBacked, NoRow, NoRefund, Idle, Payment

LEMMA NextStructure == TypeOK /\ Structure /\ [Next]_vars => Structure' /\ RowsKept
<1> SUFFICES ASSUME TypeOK, Structure, [Next]_vars PROVE Structure' /\ RowsKept
  OBVIOUS
<1> DEFINE Goal == Structure' /\ RowsKept
<1>a. /\ \A o \in Order : starting[o].seen \subseteq Attempt
      /\ Attempt \subseteq Payment /\ PaymentKey \subseteq Payment
      /\ PaymentKey \cap Attempt = {}
  BY LedgerAssumption DEF TypeOK, Payment
<1>b. /\ RowsHaveOrders /\ ManualRowsArePaid /\ AttemptsExist
      /\ SeenIsCurrent /\ RefundRowsExist /\ RefundsAreBacked
  BY DEF Structure
(* A step that leaves the payments, the refunds and the open transactions alone. *)
<1>c. ASSUME UNCHANGED <<payment, refund, starting>>, AttemptsExist'
      PROVE  Goal
  <2>1. (\A p \in Payment : Grows(p)) /\ RowsKept
    BY <1>c DEF Grows, RowsKept, Stays, SameMoney
  <2>2. SeenIsCurrent'
    BY <1>b, <1>c DEF SeenIsCurrent, PendingAttempts
  <2> QED
    BY <1>b, <1>c, <2>1, <2>2, RowsGrow, BackingStays DEF Structure
<1>1. ASSUME NEW o \in Order, NEW k \in PaymentKey, NEW n \in Amount,
             RecordManualPayment(o, k, n)
      PROVE  Goal
  <2>1. /\ payment'[k] = [order |-> o, amount |-> n, status |-> "paid", refundedAt |-> FALSE]
        /\ payment[k].status = "absent"
        /\ \A p \in Payment \ {k} : payment'[p] = payment[p]
    BY <1>1, <1>a DEF RecordManualPayment, TypeOK
  <2>2. \A p \in Payment : Grows(p)
    BY <2>1 DEF Grows
  <2>3. RowsKept
    BY <2>1 DEF RowsKept, Stays, SameMoney
  <2>4. SeenIsCurrent'
    <3>1. \A a \in Attempt : SameMoney(a) /\ payment'[a].status = payment[a].status
      BY <2>1, <1>a DEF SameMoney
    <3> QED
      BY <1>1, <1>a, <1>b, <3>1, SeenStays DEF RecordManualPayment
  <2> QED
    BY <1>1, <1>b, <2>2, <2>3, <2>4, RowsGrow, BackingStays, AttemptsStay
       DEF RecordManualPayment, Structure, provider
<1>2. ASSUME NEW o \in Order, NEW k \in RefundKey, NEW p \in Payment, NEW n \in Amount,
             RecordRefund(o, k, p, n)
      PROVE  Goal
  <2>1. \A q \in Payment : Stays(q)
    BY <1>2, RecordRefundRows
  <2>2. \A q \in Payment \ {p} : payment'[q] = payment[q]
    BY <1>2 DEF RecordRefund, TypeOK
  <2>3. payment[p].status # "absent" /\ payment[p].order = o
    BY <1>2, <1>b, LedgerAssumption DEF RecordRefund, RowsHaveOrders, NoRow
  <2>4. \A q \in Payment : Grows(q)
    BY <2>1, <2>2, <2>3, <1>b DEF Grows, Stays, SameMoney, ManualRowsArePaid
  <2>5. RowsKept
    BY <2>1 DEF RowsKept, Stays
  <2>6. SeenIsCurrent'
    BY <1>2, <1>a, <1>b, <2>1, SeenStays DEF RecordRefund, Stays
  <2>7. p \in PaymentKey /\ payment[p].status = "paid"
    BY <1>2, AmountType DEF RecordRefund, Refundable, Amount
  <2>8. /\ refund'[k] = [order |-> o, payment |-> p, amount |-> n]
        /\ \A j \in RefundKey \ {k} : refund'[j] = refund[j]
    BY <1>2 DEF RecordRefund, TypeOK
  <2>9. RefundRowsExist' /\ RefundsAreBacked'
    BY <1>a, <1>b, <2>1, <2>3, <2>7, <2>8, LedgerAssumption
       DEF RefundRowsExist, RefundsAreBacked, Stays, SameMoney
  <2> QED
    BY <1>2, <1>b, <2>4, <2>5, <2>6, <2>9, RowsGrow, AttemptsStay
       DEF RecordRefund, Structure, provider
<1>3. ASSUME NEW o \in Order, NEW next \in OrderStatus, TransitionOrder(o, next)
      PROVE  Goal
  BY <1>3, <1>b, <1>c DEF TransitionOrder, ledger, provider, AttemptsExist
<1>4. ASSUME NEW o \in Order, StartPaytrRead(o)
      PROVE  Goal
  <2>1. UNCHANGED <<payment, refund, request, iframe, charged, declined>>
    BY <1>4 DEF StartPaytrRead, ledger, provider
  <2>2. (\A p \in Payment : Grows(p)) /\ RowsKept
    BY <2>1 DEF Grows, RowsKept, Stays, SameMoney
  <2>3. SeenIsCurrent'
    <3>1. /\ starting'[o].open /\ starting'[o].seen = PendingAttempts(o)
          /\ \A q \in Order \ {o} : starting'[q] = starting[q]
      BY <1>4 DEF StartPaytrRead, TypeOK
    <3>2. \A q : PendingAttempts(q)' = PendingAttempts(q)
      BY <2>1 DEF PendingAttempts
    <3>3. \A a \in PendingAttempts(o) : payment[a].order = o /\ payment[a].status = "pending"
      BY DEF PendingAttempts
    <3> QED
      BY <1>b, <2>1, <3>1, <3>2, <3>3 DEF SeenIsCurrent
  <2> QED
    BY <1>b, <2>1, <2>2, <2>3, RowsGrow, BackingStays, AttemptsStay DEF Structure
<1>5. ASSUME NEW o \in Order, NEW a \in Attempt, StartPaytrCommit(o, a)
      PROVE  Goal
  <2>1. /\ Opens(a, o, Due(o), "pending")
        /\ \A p \in starting[o].seen : Moves(p, {"pending", "failed"}, "cancelled")
        /\ \A p \in Payment \ ({a} \cup starting[o].seen) : payment'[p] = payment[p]
        /\ a \notin starting[o].seen /\ starting[o].seen \subseteq Attempt
    BY <1>5, StartPaytrCommitRows
  <2>2. \A p \in Payment : Grows(p)
    <3>1. ASSUME NEW p \in starting[o].seen PROVE Grows(p)
      BY <1>a, <1>b, <2>1 DEF Grows, Moves, SameMoney, SeenIsCurrent
    <3>2. Grows(a)
      BY <1>a, <2>1 DEF Grows, Opens
    <3> QED
      BY <2>1, <3>1, <3>2 DEF Grows
  <2>3. RowsKept
    BY <2>1 DEF RowsKept, Stays, Moves, Opens, SameMoney, NoRow
  <2>4. /\ starting'[o] = Idle
        /\ \A q \in Order \ {o} : starting'[q] = starting[q]
    BY <1>5 DEF StartPaytrCommit, TypeOK
  <2>5. SeenIsCurrent'
    <3>1. ASSUME NEW q \in Order, q # o
          PROVE  \A b \in starting[q].seen : payment'[b] = payment[b]
      BY <1>a, <1>b, <2>1, <3>1, LedgerAssumption DEF SeenIsCurrent, Opens, NoRow
    <3>2. ASSUME NEW q \in Order, q # o
          PROVE  PendingAttempts(q)' \subseteq PendingAttempts(q)
      <4>1. payment'[a].order = o
        BY <2>1 DEF Opens
      <4>2. \A b \in starting[o].seen : payment'[b].status = "cancelled"
        BY <2>1 DEF Moves
      <4> QED
        BY <1>a, <2>1, <3>2, <4>1, <4>2 DEF PendingAttempts
    <3> QED
      BY <1>b, <2>4, <3>1, <3>2 DEF SeenIsCurrent, Idle
  <2>6. AttemptsExist'
    <3>1. payment'[a].status # "absent"
      BY <2>1 DEF Opens
    <3>2. /\ \A b \in Attempt \ {a} : request'[b] = request[b]
          /\ UNCHANGED <<iframe, charged, declined>>
      BY <1>5 DEF StartPaytrCommit, provider, TypeOK
    <3> QED
      BY <1>a, <1>b, <2>2, <3>1, <3>2 DEF AttemptsExist, Grows
  <2> QED
    BY <1>5, <1>b, <2>2, <2>3, <2>5, <2>6, RowsGrow, BackingStays
       DEF StartPaytrCommit, Structure
<1>6. ASSUME NEW o \in Order, StartPaytrAbort(o)
      PROVE  Goal
  <2>1. UNCHANGED <<payment, refund, request, iframe, charged, declined>>
    BY <1>6 DEF StartPaytrAbort, ledger, provider
  <2>2. (\A p \in Payment : Grows(p)) /\ RowsKept
    BY <2>1 DEF Grows, RowsKept, Stays, SameMoney
  <2>3. SeenIsCurrent'
    <3>1. \A q \in Order : starting'[q] = IF q = o THEN Idle ELSE starting[q]
      BY <1>6 DEF StartPaytrAbort, TypeOK
    <3> QED
      BY <1>b, <2>1, <3>1 DEF SeenIsCurrent, PendingAttempts, Idle
  <2> QED
    BY <1>b, <2>1, <2>2, <2>3, RowsGrow, BackingStays, AttemptsStay DEF Structure
<1>7. ASSUME NEW a \in Attempt, AttemptStep(a)
      PROVE  Goal
  <2>1. CASE StoreToken(a)
    BY <2>1, <1>b, <1>c DEF StoreToken, ledger, AttemptsExist, TypeOK
  <2>2. CASE TokenRefused(a)
    <3>1. CASE payment[a].status = "pending"
      <4>1. a \in Payment /\ payment \in [Payment -> PaymentRow] /\ StatusWrite(a, "failed")
        BY <2>2, <3>1, <1>a DEF TokenRefused, StatusWrite, TypeOK
      <4>2. /\ SameMoney(a) /\ payment'[a].status = "failed"
            /\ \A p \in Payment \ {a} : payment'[p] = payment[p]
        BY <4>1, StatusWritten
      <4>3. payment[a].order \in Order
        BY <1>b, <3>1, <4>1 DEF RowsHaveOrders
      <4>4. (\A p \in Payment : Grows(p)) /\ RowsKept
        BY <1>a, <3>1, <4>2, <4>3 DEF Grows, RowsKept, Stays, SameMoney
      <4>5. SeenIsCurrent'
        BY <2>2, <1>a, <1>b, <4>2, SeenStays DEF TokenRefused, SameMoney
      <4>6. /\ \A b \in Attempt \ {a} : request'[b] = request[b]
            /\ UNCHANGED <<refund, iframe, charged, declined>>
        BY <2>2 DEF TokenRefused, provider, TypeOK
      <4>7. AttemptsExist'
        BY <1>a, <1>b, <4>2, <4>4, <4>6 DEF AttemptsExist, Grows
      <4> QED
        BY <1>b, <4>4, <4>5, <4>6, <4>7, RowsGrow, BackingStays DEF Structure
    <3>2. CASE payment[a].status # "pending"
      BY <2>2, <3>2, <1>b, <1>c DEF TokenRefused, provider, AttemptsExist, TypeOK
    <3> QED
      BY <3>1, <3>2
  <2>3. CASE RequestLost(a)
    BY <2>3, <1>b, <1>c DEF RequestLost, ledger, provider, AttemptsExist, TypeOK
  <2>4. CASE TokenExpires(a)
    BY <2>4, <1>b, <1>c DEF TokenExpires, ledger, provider, AttemptsExist
  <2>5. CASE InFlightElapses(a)
    BY <2>5, <1>b, <1>c DEF InFlightElapses, ledger, provider, AttemptsExist
  <2> QED
    BY <1>7, <2>1, <2>2, <2>3, <2>4, <2>5 DEF AttemptStep
<1>8. ASSUME NEW a \in Attempt, ProviderStep(a)
      PROVE  Goal
  BY <1>8, <1>b, <1>c DEF ProviderStep, Charge, Decline, ledger, AttemptsExist, TypeOK
<1>9. ASSUME NEW a \in Attempt, CallbackStep(a)
      PROVE  Goal
  <2>1. ASSUME NEW s \in {"failed", "paid"}, StatusWrite(a, s),
               payment[a].status \notin {"absent", "paid"}, Unlocked(payment[a].order),
               UNCHANGED <<refund, starting, request, iframe, charged, declined>>
        PROVE  Goal
    <3>1. /\ a \in Payment /\ SameMoney(a) /\ payment'[a].status = s
          /\ payment[a].order \in Order
          /\ \A p \in Payment \ {a} : payment'[p] = payment[p]
          /\ \A o \in Order : a \notin starting[o].seen
      BY <2>1, CallbackRows
    <3>2. (\A p \in Payment : Grows(p)) /\ RowsKept
      BY <1>a, <2>1, <3>1 DEF Grows, RowsKept, Stays, SameMoney
    <3>3. SeenIsCurrent'
      BY <2>1, <1>a, <1>b, <3>1, SeenStays DEF SameMoney
    <3> QED
      BY <1>b, <2>1, <3>2, <3>3, RowsGrow, BackingStays, AttemptsStay DEF Structure
  <2>2. CASE PaytrCallbackFailed(a)
    <3>1. payment[a].status # "absent"
      BY <2>2, <1>b DEF PaytrCallbackFailed, AttemptsExist
    <3> QED
      BY <2>1, <2>2, <3>1 DEF PaytrCallbackFailed, FailureIgnored, StatusWrite, provider
  <2>3. CASE PaytrCallbackMismatch(a)
    BY <2>3, <1>b, <1>c DEF PaytrCallbackMismatch, ledger, provider, AttemptsExist
  <2>4. CASE PaytrCallbackSuccess(a)
    <3>1. payment[a].status # "absent"
      BY <2>4, <1>b DEF PaytrCallbackSuccess, AttemptsExist
    <3> QED
      BY <2>1, <2>4, <3>1 DEF PaytrCallbackSuccess, AlreadyPaid, StatusWrite, provider
  <2> QED
    BY <1>9, <2>2, <2>3, <2>4 DEF CallbackStep
<1>10. CASE UNCHANGED vars
  BY <1>10, <1>b, <1>c DEF vars, AttemptsExist
<1> QED
  BY <1>1, <1>2, <1>3, <1>4, <1>5, <1>6, <1>7, <1>8, <1>9, <1>10
     DEF Next, OperatorStep, StartStep

-----------------------------------------------------------------------------
(* What a step does to the sums *)

\* No row becomes paid, except perhaps those of a set.
NothingPaidBut(rows) ==
  \A p \in Payment \ rows : payment'[p].status = "paid" => payment[p].status = "paid"

LEMMA AmountsAreNumbers ==
  ASSUME TypeOK
  PROVE  /\ \A p \in Payment : PaymentAmount[p] \in 0..MaxAmount
         /\ \A k \in RefundKey : RefundAmount[k] \in 0..MaxAmount
<1>1. \A r \in PaymentRow : r.amount \in 0..MaxAmount
  BY DEF PaymentRow
<1>2. \A r \in RefundRow : r.amount \in 0..MaxAmount
  BY DEF RefundRow
<1> QED
  BY <1>1, <1>2 DEF TypeOK, PaymentAmount, RefundAmount

(* Collected money changes only where a row becomes paid. *)
LEMMA CollectedStays ==
  ASSUME RowsKept, NEW rows, NothingPaidBut(rows), NEW o,
         \A p \in rows \cap Payment : payment'[p].order # o, 
         \A p \in rows \cap Payment : payment[p].status # "paid"
  PROVE  Collected(o)' = Collected(o)
<1>1. PaidRows(o)' = PaidRows(o)
  BY DEF PaidRows, RowsKept, SameMoney, NothingPaidBut
<1>2. \A p \in PaidRows(o) : PaymentAmount'[p] = PaymentAmount[p]
  BY DEF PaidRows, PaymentAmount, RowsKept, SameMoney
<1> QED
  BY <1>1, <1>2, SumSame DEF Collected

(* A row that becomes paid adds its amount to its order's collected money. *)
LEMMA CollectedGrows ==
  ASSUME RowsKept, NEW p \in Payment, NothingPaidBut({p}),
         payment[p].status # "paid", payment'[p].status = "paid",
         NEW o, payment'[p].order = o,
         NEW n \in 0..MaxAmount, payment'[p].amount = n
  PROVE  Collected(o)' = Collected(o) + n
<1>1. PaidRows(o)' = PaidRows(o) \cup {p} /\ p \notin PaidRows(o)
  BY DEF PaidRows, RowsKept, SameMoney, NothingPaidBut
<1>2. \A q \in PaidRows(o) : PaymentAmount'[q] = PaymentAmount[q]
  BY DEF PaidRows, PaymentAmount, RowsKept, SameMoney
<1>3. SumOf(PaidRows(o), PaymentAmount') = SumOf(PaidRows(o), PaymentAmount)
  BY <1>2, SumSame
<1>4. PaymentAmount'[p] = n
  BY DEF PaymentAmount
<1>5. SumOf(PaidRows(o) \cup {p}, PaymentAmount') = SumOf(PaidRows(o), PaymentAmount') + n
  BY <1>1, <1>4, RowsFinite, SumInsert
<1> QED
  BY <1>1, <1>3, <1>4, <1>5 DEF Collected

(* Refunds change only when a refund row is inserted. *)
LEMMA RefundedStays ==
  ASSUME refund' = refund
  PROVE  /\ \A o : Refunded(o)' = Refunded(o)
         /\ \A p : RefundedOn(p)' = RefundedOn(p)
BY DEF Refunded, RefundedOn, RefundRows, RefundRowsOn, RefundAmount

\* The refund rows on any of these payments.
RefundsOver(S) == {k \in RefundKey : refund[k].payment \in S}

(* An inserted refund adds its amount to what its order, and its payment, gave back. *)
LEMMA RefundInserted ==
  ASSUME TypeOK, RefundRowsExist, NEW o \in Order, NEW k \in RefundKey,
         NEW p \in Payment, NEW n \in Amount, refund[k].order = NoOrder,
         refund' = [refund EXCEPT ![k] = [order |-> o, payment |-> p, amount |-> n]]
  PROVE  /\ Refunded(o)' = Refunded(o) + n
         /\ \A q \in Order \ {o} : Refunded(q)' = Refunded(q)
         /\ \A S \in SUBSET Payment :
              /\ p \in S => SumOf(RefundsOver(S)', RefundAmount')
                              = SumOf(RefundsOver(S), RefundAmount) + n
              /\ p \notin S => SumOf(RefundsOver(S)', RefundAmount')
                                 = SumOf(RefundsOver(S), RefundAmount)
<1>1. /\ refund'[k] = [order |-> o, payment |-> p, amount |-> n]
      /\ \A j \in RefundKey \ {k} : refund'[j] = refund[j]
  BY DEF TypeOK
<1>2. refund[k] = NoRefund
  BY DEF RefundRowsExist
<1>3. RefundAmount'[k] = n /\ n \in 0..MaxAmount
  BY <1>1, AmountType DEF RefundAmount
<1>4. \A j \in RefundKey \ {k} : RefundAmount'[j] = RefundAmount[j]
  BY <1>1 DEF RefundAmount
<1>5. ASSUME NEW rows \in SUBSET (RefundKey \ {k})
      PROVE  /\ SumOf(rows, RefundAmount') = SumOf(rows, RefundAmount)
             /\ SumOf(rows \cup {k}, RefundAmount') = SumOf(rows, RefundAmount) + n
  <2>1. SumOf(rows, RefundAmount') = SumOf(rows, RefundAmount)
    BY <1>4, SumSame
  <2>2. IsFiniteSet(rows)
    BY RowsFinite, FS_Subset
  <2>3. SumOf(rows \cup {k}, RefundAmount') = SumOf(rows, RefundAmount') + n
    BY <1>3, <2>2, SumInsert
  <2> QED
    BY <2>1, <2>3
<1>6. Refunded(o)' = Refunded(o) + n
  <2>1. RefundRows(o)' = RefundRows(o) \cup {k} /\ RefundRows(o) \in SUBSET (RefundKey \ {k})
    BY <1>1, LedgerAssumption DEF RefundRows
  <2> QED
    BY <1>5, <2>1 DEF Refunded
<1>7. ASSUME NEW q \in Order \ {o}
      PROVE  Refunded(q)' = Refunded(q)
  <2>1. RefundRows(q)' = RefundRows(q) /\ RefundRows(q) \in SUBSET (RefundKey \ {k})
    BY <1>1, LedgerAssumption DEF RefundRows
  <2> QED
    BY <1>5, <2>1 DEF Refunded
<1>8. ASSUME NEW S \in SUBSET Payment
      PROVE  /\ p \in S => SumOf(RefundsOver(S)', RefundAmount')
                             = SumOf(RefundsOver(S), RefundAmount) + n
             /\ p \notin S => SumOf(RefundsOver(S)', RefundAmount')
                                = SumOf(RefundsOver(S), RefundAmount)
  <2>1. RefundsOver(S) \in SUBSET (RefundKey \ {k})
    BY <1>2, LedgerAssumption DEF NoRefund, Payment, RefundsOver
  <2>2. RefundsOver(S)' = IF p \in S THEN RefundsOver(S) \cup {k} ELSE RefundsOver(S)
    BY <1>1, <1>2, LedgerAssumption DEF NoRefund, Payment, RefundsOver
  <2> QED
    BY <1>5, <2>1, <2>2
<1> QED
  BY <1>6, <1>7, <1>8

-----------------------------------------------------------------------------
(* Steps that post no money *)

\* A mark for review is never taken back.
ReviewKept == \A a \in Attempt : meta[a].reviewRequired => meta'[a].reviewRequired

PostsNothing == /\ order' = order /\ refund' = refund
                /\ NothingPaidBut({}) /\ ReviewKept

LEMMA MetaKeepsReview ==
  ASSUME NEW m \in Meta
  PROVE  /\ \A t : [m EXCEPT !.token = t].reviewRequired = m.reviewRequired
         /\ \A b : [m EXCEPT !.inFlight = b].reviewRequired = m.reviewRequired
         /\ \A c : [m EXCEPT !.failureCode = c].reviewRequired = m.reviewRequired
         /\ [m EXCEPT !.failureCode = "AMOUNT_MISMATCH",
                      !.reviewRequired = TRUE].reviewRequired = TRUE
         /\ \A b : [m EXCEPT !.failureCode = "none",
                             !.reviewRequired = m.reviewRequired \/ b].reviewRequired
                     = (m.reviewRequired \/ b)
BY DEF Meta

LEMMA StepsThatPostNothing ==
  ASSUME TypeOK, Structure,
         \/ \E o \in Order : StartStep(o)
         \/ \E a \in Attempt : \/ AttemptStep(a) \/ ProviderStep(a)
                               \/ PaytrCallbackFailed(a) \/ PaytrCallbackMismatch(a)
         \/ UNCHANGED vars
  PROVE  PostsNothing
<1>a. /\ payment \in [Payment -> PaymentRow] /\ meta \in [Attempt -> Meta]
      /\ Attempt \subseteq Payment
  BY DEF TypeOK, Payment
<1>1. ASSUME NEW o \in Order, StartStep(o)
      PROVE  PostsNothing
  <2>1. CASE StartPaytrRead(o)
    BY <2>1 DEF StartPaytrRead, PostsNothing, NothingPaidBut, ReviewKept, ledger
  <2>2. ASSUME NEW a \in Attempt, StartPaytrCommit(o, a)
        PROVE  PostsNothing
    <3>1. NothingPaidBut({})
      <4>1. /\ payment'[a].status = "pending"
            /\ \A p \in starting[o].seen : payment'[p].status = "cancelled"
            /\ \A p \in Payment \ ({a} \cup starting[o].seen) : payment'[p] = payment[p]
        <5>1. /\ Opens(a, o, Due(o), "pending")
              /\ \A p \in starting[o].seen : Moves(p, {"pending", "failed"}, "cancelled")
              /\ \A p \in Payment \ ({a} \cup starting[o].seen) : payment'[p] = payment[p]
          BY <2>2, StartPaytrCommitRows
        <5> QED
          BY <5>1 DEF Opens, Moves
      <4> QED
        BY <4>1 DEF NothingPaidBut
    <3>2. ReviewKept
      <4>1. \A b \in Attempt : meta'[b] = IF b \in Superseded(o)
              THEN [meta[b] EXCEPT !.failureCode = "SUPERSEDED"] ELSE meta[b]
        BY <2>2 DEF StartPaytrCommit
      <4>2. ASSUME NEW b \in Attempt PROVE meta'[b].reviewRequired = meta[b].reviewRequired
        <5>1. [meta[b] EXCEPT !.failureCode = "SUPERSEDED"].reviewRequired
                = meta[b].reviewRequired
          BY <1>a, MetaKeepsReview
        <5> QED
          BY <4>1, <5>1
      <4> QED
        BY <4>2 DEF ReviewKept
    <3> QED
      BY <2>2, <3>1, <3>2 DEF StartPaytrCommit, PostsNothing
  <2>3. CASE StartPaytrAbort(o)
    BY <2>3 DEF StartPaytrAbort, PostsNothing, NothingPaidBut, ReviewKept, ledger
  <2> QED
    BY <1>1, <2>1, <2>2, <2>3 DEF StartStep
<1>2. ASSUME NEW a \in Attempt, AttemptStep(a)
      PROVE  PostsNothing
  <2>1. CASE StoreToken(a)
    <3>1. ReviewKept
      BY <2>1, <1>a, MetaKeepsReview DEF StoreToken, ReviewKept
    <3> QED
      BY <2>1, <3>1 DEF StoreToken, PostsNothing, NothingPaidBut, ledger
  <2>2. CASE TokenRefused(a)
    <3>1. CASE payment[a].status = "pending"
      <4>1. StatusWrite(a, "failed")
        BY <2>2, <3>1 DEF TokenRefused, StatusWrite
      <4>2. NothingPaidBut({})
        BY <1>a, <4>1, StatusWritten DEF NothingPaidBut
      <4>3. meta' = [meta EXCEPT ![a].failureCode = "TOKEN_REQUEST_FAILED"]
        BY <2>2, <3>1 DEF TokenRefused
      <4>4. ReviewKept
        <5>1. [meta[a] EXCEPT !.failureCode = "TOKEN_REQUEST_FAILED"].reviewRequired
                = meta[a].reviewRequired
          BY <1>a, MetaKeepsReview
        <5> QED
          BY <1>a, <4>3, <5>1 DEF ReviewKept
      <4> QED
        BY <2>2, <4>2, <4>4 DEF TokenRefused, PostsNothing
    <3>2. CASE payment[a].status # "pending"
      <4>1. UNCHANGED <<payment, meta>>
        BY <2>2, <3>2 DEF TokenRefused
      <4> QED
        BY <2>2, <4>1 DEF TokenRefused, PostsNothing, NothingPaidBut, ReviewKept
    <3> QED
      BY <3>1, <3>2
  <2>3. CASE RequestLost(a)
    BY <2>3 DEF RequestLost, PostsNothing, NothingPaidBut, ReviewKept, ledger
  <2>4. CASE TokenExpires(a)
    <3>1. ReviewKept
      BY <2>4, <1>a, MetaKeepsReview DEF TokenExpires, ReviewKept
    <3> QED
      BY <2>4, <3>1 DEF TokenExpires, PostsNothing, NothingPaidBut, ledger
  <2>5. CASE InFlightElapses(a)
    <3>1. ReviewKept
      BY <2>5, <1>a, MetaKeepsReview DEF InFlightElapses, ReviewKept
    <3> QED
      BY <2>5, <3>1 DEF InFlightElapses, PostsNothing, NothingPaidBut, ledger
  <2> QED
    BY <1>2, <2>1, <2>2, <2>3, <2>4, <2>5 DEF AttemptStep
<1>3. ASSUME NEW a \in Attempt, ProviderStep(a)
      PROVE  PostsNothing
  BY <1>3 DEF ProviderStep, Charge, Decline, PostsNothing, NothingPaidBut, ReviewKept, ledger
<1>4. ASSUME NEW a \in Attempt, PaytrCallbackFailed(a)
      PROVE  PostsNothing
  <2>1. StatusWrite(a, "failed")
    BY <1>4 DEF PaytrCallbackFailed, StatusWrite
  <2>2. NothingPaidBut({})
    BY <1>a, <2>1, StatusWritten DEF NothingPaidBut
  <2>3. ReviewKept
    BY <1>4, <1>a, MetaKeepsReview DEF PaytrCallbackFailed, ReviewKept
  <2> QED
    BY <1>4, <2>2, <2>3 DEF PaytrCallbackFailed, PostsNothing
<1>5. ASSUME NEW a \in Attempt, PaytrCallbackMismatch(a)
      PROVE  PostsNothing
  <2>1. ReviewKept
    BY <1>5, <1>a, MetaKeepsReview DEF PaytrCallbackMismatch, ReviewKept
  <2> QED
    BY <1>5, <2>1 DEF PaytrCallbackMismatch, PostsNothing, NothingPaidBut, ledger
<1>6. CASE UNCHANGED vars
  BY <1>6 DEF vars, PostsNothing, NothingPaidBut, ReviewKept
<1> QED
  BY <1>1, <1>2, <1>3, <1>4, <1>5, <1>6

-----------------------------------------------------------------------------
(* The money invariants *)

\* The refunds on any set of payments are covered by those payments.  For one
\* payment it is RefundsWithinPayments; for all the paid ones of an order it
\* bounds the order's refunds by what was collected.
RefundsCovered ==
  \A S \in SUBSET Payment :
    SumOf(RefundsOver(S), RefundAmount) <= SumOf(S, PaymentAmount)

ManualRows(o) == PaidRows(o) \cap PaymentKey

ManualCollected(o) == SumOf(ManualRows(o), PaymentAmount)

\* What a cancelled order's manual payments brought in has gone back.
CancelledIsSettled ==
  \A o \in Order : order[o].status = "cancelled" => ManualCollected(o) <= Refunded(o)

MoneyInv == /\ RefundsCovered /\ PaymentStatusCache /\ FulfilmentWasPaid
            /\ OverCollectionFlagged /\ CancelledIsSettled

LEMMA OrderWritten ==
  ASSUME order \in [Order -> OrderRow], NEW o \in Order, NEW ps,
         order' = [order EXCEPT ![o].paymentStatus = ps]
  PROVE  /\ order'[o].paymentStatus = ps /\ order'[o].status = order[o].status
         /\ \A q \in Order \ {o} : order'[q] = order[q]
BY DEF OrderRow

LEMMA ManualSumsAreNumbers == \A o : ManualCollected(o) \in Nat
<1>1. \A o : ManualRows(o) \in SUBSET Payment
  BY DEF ManualRows, PaidRows
<1> QED
  BY <1>1, RowsFinite, FS_Subset, SumType DEF ManualCollected

LEMMA ManualCollectedStays ==
  ASSUME RowsKept, NEW rows, NothingPaidBut(rows), NEW o,
         \A p \in rows \cap PaymentKey : payment'[p].order # o /\ payment[p].status # "paid"
  PROVE  ManualCollected(o)' = ManualCollected(o)
<1>1. ManualRows(o)' = ManualRows(o)
  BY DEF ManualRows, PaidRows, RowsKept, SameMoney, NothingPaidBut, Payment
<1>2. \A p \in ManualRows(o) : PaymentAmount'[p] = PaymentAmount[p]
  BY DEF ManualRows, PaidRows, PaymentAmount, RowsKept, SameMoney
<1> QED
  BY <1>1, <1>2, SumSame DEF ManualCollected

(* The amounts in the payments never shrink, so payments cover their refunds for good. *)
LEMMA CoverStays ==
  ASSUME TypeOK, payment' \in [Payment -> PaymentRow], RowsHaveOrders, RowsKept,
         RefundsCovered, refund' = refund
  PROVE  RefundsCovered'
<1>1. \A p \in Payment : /\ PaymentAmount[p] \in Int /\ PaymentAmount'[p] \in Int
                         /\ PaymentAmount[p] <= PaymentAmount'[p]
  <2>1. \A r \in PaymentRow : r.amount \in 0..MaxAmount
    BY DEF PaymentRow
  <2>2. \A p \in Payment : payment[p].amount \in 0..MaxAmount /\ payment'[p].amount \in 0..MaxAmount
    BY <2>1 DEF TypeOK
  <2>3. ASSUME NEW p \in Payment PROVE payment[p].amount <= payment'[p].amount
    <3>1. CASE payment[p].status = "absent"
      BY <2>2, <3>1, MaxAmountAssumption DEF RowsHaveOrders, NoRow
    <3>2. CASE payment[p].status # "absent"
      BY <2>2, <3>2, MaxAmountAssumption DEF RowsKept, SameMoney
    <3> QED
      BY <3>1, <3>2
  <2> QED
    BY <2>2, <2>3, MaxAmountAssumption DEF PaymentAmount
<1> SUFFICES ASSUME NEW S \in SUBSET Payment
             PROVE  SumOf(RefundsOver(S)', RefundAmount') <= SumOf(S, PaymentAmount')
  BY DEF RefundsCovered
<1>2. IsFiniteSet(S) /\ IsFiniteSet(RefundsOver(S))
  BY RowsFinite, FS_Subset DEF RefundsOver
<1>3. SumOf(S, PaymentAmount) <= SumOf(S, PaymentAmount')
  BY <1>1, <1>2, SumGrows
<1>4. SumOf(RefundsOver(S)', RefundAmount') = SumOf(RefundsOver(S), RefundAmount)
  BY DEF RefundsOver, RefundAmount
<1>5. /\ SumOf(S, PaymentAmount) \in Nat /\ SumOf(S, PaymentAmount') \in Nat
      /\ SumOf(RefundsOver(S), RefundAmount) \in Nat
  BY <1>2, SumType
<1> QED
  BY <1>3, <1>4, <1>5 DEF RefundsCovered

(* A refund within what its payment still holds keeps every set of payments covered. *)
LEMMA CoverRefund ==
  ASSUME TypeOK, Structure, RefundsCovered, NEW o \in Order, NEW k \in RefundKey,
         NEW p \in Payment, NEW n \in Amount, RecordRefund(o, k, p, n)
  PROVE  RefundsCovered'
<1>1. \A q \in Payment : Stays(q)
  BY RecordRefundRows
<1>2. \A q \in Payment : PaymentAmount'[q] = PaymentAmount[q]
  BY <1>1 DEF PaymentAmount, Stays, SameMoney
<1> SUFFICES ASSUME NEW S \in SUBSET Payment
             PROVE  SumOf(RefundsOver(S)', RefundAmount') <= SumOf(S, PaymentAmount')
  BY DEF RefundsCovered
<1>3. SumOf(S, PaymentAmount') = SumOf(S, PaymentAmount)
  BY <1>2, SumSame
<1>4. /\ p \in S => SumOf(RefundsOver(S)', RefundAmount')
                       = SumOf(RefundsOver(S), RefundAmount) + n
      /\ p \notin S => SumOf(RefundsOver(S)', RefundAmount')
                          = SumOf(RefundsOver(S), RefundAmount)
  <2>1. /\ refund[k].order = NoOrder
        /\ refund' = [refund EXCEPT ![k] = [order |-> o, payment |-> p, amount |-> n]]
    BY DEF RecordRefund
  <2> QED
    BY <2>1, RefundInserted DEF Structure
<1>5. \A T \in SUBSET Payment : /\ IsFiniteSet(T) /\ IsFiniteSet(RefundsOver(T))
                                /\ SumOf(T, PaymentAmount) \in Nat
                                /\ SumOf(RefundsOver(T), RefundAmount) \in Nat
  BY RowsFinite, FS_Subset, SumType DEF RefundsOver
<1>6. CASE p \notin S
  BY <1>3, <1>4, <1>5, <1>6 DEF RefundsCovered
<1>7. CASE p \in S
  <2> DEFINE T == S \ {p}
  <2>1. n <= payment[p].amount - RefundedOn(p)
    BY AmountType DEF RecordRefund, Refundable, Amount
  <2>2. SumOf(S, PaymentAmount) = SumOf(T, PaymentAmount) + payment[p].amount
    <3>1. S = T \cup {p} /\ p \notin T /\ T \in SUBSET Payment
      BY <1>7
    <3>2. PaymentAmount[p] = payment[p].amount /\ PaymentAmount[p] \in 0..MaxAmount
      BY AmountsAreNumbers DEF PaymentAmount
    <3> QED
      BY <1>5, <3>1, <3>2, SumInsert
  <2>3. SumOf(RefundsOver(S), RefundAmount)
          = SumOf(RefundsOver(T), RefundAmount) + RefundedOn(p)
    <3>1. /\ RefundsOver(S) = RefundsOver(T) \cup RefundRowsOn(p)
          /\ RefundsOver(T) \cap RefundRowsOn(p) = {}
      BY <1>7 DEF RefundsOver, RefundRowsOn
    <3>2. IsFiniteSet(RefundsOver(T)) /\ IsFiniteSet(RefundRowsOn(p))
      BY <1>5, RowsFinite
    <3> QED
      BY <3>1, <3>2, SumUnion DEF RefundedOn
  <2>4. SumOf(RefundsOver(T), RefundAmount) <= SumOf(T, PaymentAmount)
    BY DEF RefundsCovered
  <2>5. RefundedOn(p) \in Nat /\ n \in Nat /\ payment[p].amount \in Nat
    BY SumsAreNumbers, AmountsAreNumbers, AmountType, MaxAmountAssumption DEF PaymentAmount
  <2> QED
    BY <1>3, <1>4, <1>5, <1>7, <2>1, <2>2, <2>3, <2>4, <2>5
<1> QED
  BY <1>6, <1>7

(* An order's refunds are within its manual payments, and these within its ledger. *)
LEMMA RefundedWithinCollected ==
  ASSUME RefundsCovered, RefundsAreBacked, NEW o \in Order
  PROVE  Refunded(o) <= ManualCollected(o) /\ ManualCollected(o) <= Collected(o)
<1>1. ManualRows(o) \in SUBSET PaidRows(o) /\ ManualRows(o) \in SUBSET Payment
  BY DEF ManualRows, PaidRows
<1>2. RefundRows(o) \in SUBSET RefundsOver(ManualRows(o))
  BY LedgerAssumption DEF RefundRows, RefundsOver, ManualRows, PaidRows, RefundsAreBacked, Payment
<1>3. IsFiniteSet(RefundsOver(ManualRows(o))) /\ IsFiniteSet(PaidRows(o))
  BY RowsFinite, FS_Subset DEF RefundsOver
<1>4. Refunded(o) <= SumOf(RefundsOver(ManualRows(o)), RefundAmount)
  BY <1>2, <1>3, SumMonotone DEF Refunded
<1>5. SumOf(RefundsOver(ManualRows(o)), RefundAmount) <= ManualCollected(o)
  BY <1>1 DEF RefundsCovered, ManualCollected
<1>6. ManualCollected(o) <= Collected(o)
  BY <1>1, <1>3, SumMonotone DEF ManualCollected, Collected
<1>7. SumOf(RefundsOver(ManualRows(o)), RefundAmount) \in Nat
  BY <1>3, SumType
<1> QED
  BY <1>4, <1>5, <1>6, <1>7, SumsAreNumbers, ManualSumsAreNumbers

(* A mark for review of a paid row is there for good. *)
LEMMA FlagsStay ==
  ASSUME RowsKept, ReviewKept, NEW o,
         \E a \in Attempt : a \in PaidRows(o) /\ meta[a].reviewRequired
  PROVE  \E a \in Attempt : a \in PaidRows(o)' /\ meta'[a].reviewRequired
BY DEF RowsKept, ReviewKept, PaidRows, SameMoney, Payment

LEMMA InitMoney == Init => MoneyInv
<1> SUFFICES ASSUME Init PROVE MoneyInv
  OBVIOUS
<1>1. \A o \in Order : PaidRows(o) = {} /\ RefundRows(o) = {}
  BY LedgerAssumption DEF Init, PaidRows, RefundRows, NoRow, NoRefund
<1>2. \A o \in Order : /\ Collected(o) = 0 /\ Refunded(o) = 0 /\ ManualCollected(o) = 0
  <2>1. \A o \in Order : ManualRows(o) = {}
    BY <1>1 DEF ManualRows
  <2> QED
    BY <1>1, <2>1, SumEmpty DEF Collected, Refunded, ManualCollected
<1>3. RefundsCovered
  <2> SUFFICES ASSUME NEW S \in SUBSET Payment
               PROVE  SumOf(RefundsOver(S), RefundAmount) <= SumOf(S, PaymentAmount)
    BY DEF RefundsCovered
  <2>1. RefundsOver(S) = {}
    BY LedgerAssumption DEF Init, RefundsOver, NoRefund, Payment
  <2>2. SumOf(RefundsOver(S), RefundAmount) = 0
    BY <2>1, SumEmpty
  <2>3. SumOf(S, PaymentAmount) \in Nat
    BY RowsFinite, FS_Subset, SumType
  <2> QED
    BY <2>2, <2>3
<1>4. PaymentStatusCache
  BY <1>2 DEF Init, PaymentStatusCache, DerivePaymentStatus
<1>5. FulfilmentWasPaid
  BY DEF Init, FulfilmentWasPaid
<1>6. OverCollectionFlagged
  BY <1>2, LedgerAssumption, MaxAmountAssumption DEF OverCollectionFlagged
<1>7. CancelledIsSettled
  BY DEF Init, CancelledIsSettled
<1> QED
  BY <1>3, <1>4, <1>5, <1>6, <1>7 DEF MoneyInv

(* Starting payments, PayTR's own steps and its other callbacks touch no money. *)
LEMMA MoneyStays ==
  ASSUME TypeOK, TypeOK', Structure, RowsKept, MoneyInv, PostsNothing
  PROVE  MoneyInv'
<1>1. \A o : /\ Collected(o)' = Collected(o) /\ Refunded(o)' = Refunded(o)
             /\ ManualCollected(o)' = ManualCollected(o)
  BY CollectedStays, RefundedStays, ManualCollectedStays DEF PostsNothing
<1>2. RefundsCovered'
  BY CoverStays DEF TypeOK, MoneyInv, Structure, PostsNothing
<1>3. PaymentStatusCache'
  BY <1>1 DEF PostsNothing, MoneyInv, PaymentStatusCache
<1>4. FulfilmentWasPaid'
  BY <1>1 DEF PostsNothing, MoneyInv, FulfilmentWasPaid
<1>5. OverCollectionFlagged'
  BY <1>1, FlagsStay DEF PostsNothing, MoneyInv, OverCollectionFlagged
<1>6. CancelledIsSettled'
  BY <1>1 DEF PostsNothing, MoneyInv, CancelledIsSettled
<1> QED
  BY <1>2, <1>3, <1>4, <1>5, <1>6 DEF MoneyInv

(* What a manual payment posts: an amount within the balance due, on an order still
   open for money. *)
LEMMA ManualPaymentPosts ==
  ASSUME TypeOK, RowsKept, NEW o \in Order, NEW k \in PaymentKey, NEW n \in Amount,
         RecordManualPayment(o, k, n)
  PROVE  /\ ReviewKept /\ refund' = refund
         /\ Collected(o)' = Collected(o) + n
         /\ \A q \in Order \ {o} : Collected(q)' = Collected(q) /\ order'[q] = order[q]
         /\ \A q : Refunded(q)' = Refunded(q)
         /\ \A q \in Order \ {o} : ManualCollected(q)' = ManualCollected(q)
         /\ order'[o].paymentStatus =
              NextPayment(o, order[o].status, Collected(o) + n, Refunded(o))
         /\ order'[o].status = order[o].status /\ order[o].status # "cancelled"
         /\ Collected(o) \in Nat /\ n \in Nat /\ n >= 1 /\ Total[o] \in Nat
         /\ Collected(o) + n <= Total[o]
<1>1. /\ k \in Payment /\ payment[k].status # "paid" /\ payment'[k].status = "paid"
      /\ payment'[k].order = o /\ payment'[k].amount = n /\ n \in 0..MaxAmount
      /\ \A p \in Payment \ {k} : payment'[p] = payment[p]
      /\ refund' = refund /\ meta' = meta
  BY AmountType DEF RecordManualPayment, TypeOK, Payment
<1>2. NothingPaidBut({k}) /\ ReviewKept
  BY <1>1 DEF NothingPaidBut, ReviewKept
<1>3. /\ Collected(o)' = Collected(o) + n
      /\ \A q \in Order \ {o} : Collected(q)' = Collected(q)
  BY <1>1, <1>2, CollectedGrows, CollectedStays
<1>4. /\ \A q : Refunded(q)' = Refunded(q)
      /\ \A q \in Order \ {o} : ManualCollected(q)' = ManualCollected(q)
  BY <1>1, <1>2, RefundedStays, ManualCollectedStays
<1>5. /\ order'[o].paymentStatus =
           NextPayment(o, order[o].status, Collected(o) + n, Refunded(o))
      /\ order'[o].status = order[o].status
      /\ \A q \in Order \ {o} : order'[q] = order[q]
  BY OrderWritten DEF RecordManualPayment, TypeOK
<1>6. /\ Collected(o) \in Nat /\ n \in Nat /\ n >= 1 /\ Total[o] \in Nat
      /\ Collected(o) + n <= Total[o]
  <2>1. n \in Nat /\ n >= 1 /\ Total[o] \in Nat /\ Collected(o) \in Nat
    BY SumsAreNumbers, LedgerAssumption, MaxAmountAssumption DEF Amount
  <2>2. n <= Due(o)
    BY DEF RecordManualPayment
  <2> QED
    BY <2>1, <2>2 DEF Due, OutstandingAmount
<1>7. order[o].status # "cancelled"
  BY DEF RecordManualPayment, ClosedForPayment
<1> QED
  BY <1>1, <1>2, <1>3, <1>4, <1>5, <1>6, <1>7

(* A manual payment keeps the money invariants. *)
LEMMA MoneyManualPayment ==
  ASSUME TypeOK, TypeOK', Structure, RowsKept, MoneyInv,
         NEW o \in Order, NEW k \in PaymentKey, NEW n \in Amount,
         RecordManualPayment(o, k, n)
  PROVE  MoneyInv'
<1>1. /\ ReviewKept /\ refund' = refund
      /\ Collected(o) \in Nat /\ n \in Nat /\ n >= 1 /\ Total[o] \in Nat
      /\ Collected(o) + n <= Total[o]
  BY ManualPaymentPosts
<1>2. /\ Collected(o)' = Collected(o) + n
      /\ \A q \in Order \ {o} : /\ Collected(q)' = Collected(q) /\ order'[q] = order[q]
                                /\ ManualCollected(q)' = ManualCollected(q)
      /\ \A q : Refunded(q)' = Refunded(q)
  BY ManualPaymentPosts
<1>3. /\ order'[o].paymentStatus =
           NextPayment(o, order[o].status, Collected(o) + n, Refunded(o))
      /\ order'[o].status = order[o].status /\ order[o].status # "cancelled"
  BY ManualPaymentPosts
<1>4. RefundsCovered'
  BY <1>1, CoverStays DEF TypeOK, MoneyInv, Structure
<1>5. PaymentStatusCache'
  <2> SUFFICES ASSUME NEW q \in Order
               PROVE  order'[q].paymentStatus =
                 DerivePaymentStatus(Total[q], order'[q].status, Collected(q)', Refunded(q)')
    BY DEF PaymentStatusCache
  <2>1. CASE q = o
    BY <1>2, <1>3, <2>1 DEF NextPayment
  <2>2. CASE q # o
    BY <1>2, <2>2 DEF MoneyInv, PaymentStatusCache
  <2> QED
    BY <2>1, <2>2
<1>6. FulfilmentWasPaid'
  <2> SUFFICES ASSUME NEW q \in Order, order'[q].status \notin {"pending_payment", "cancelled"}
               PROVE  Collected(q)' >= Total[q] /\ Collected(q)' > 0
    BY DEF FulfilmentWasPaid
  <2>1. CASE q = o
    BY <1>1, <1>2, <1>3, <2>1 DEF MoneyInv, FulfilmentWasPaid
  <2>2. CASE q # o
    BY <1>2, <2>2 DEF MoneyInv, FulfilmentWasPaid
  <2> QED
    BY <2>1, <2>2
<1>7. OverCollectionFlagged'
  <2> SUFFICES ASSUME NEW q \in Order, Collected(q)' > Total[q]
               PROVE  \E a \in Attempt : a \in PaidRows(q)' /\ meta'[a].reviewRequired
    BY DEF OverCollectionFlagged
  <2>1. q # o
    BY <1>1, <1>2
  <2>2. Collected(q) > Total[q]
    BY <1>2, <2>1
  <2> QED
    BY <1>1, <2>2, FlagsStay DEF MoneyInv, OverCollectionFlagged
<1>8. CancelledIsSettled'
  BY <1>2, <1>3 DEF MoneyInv, CancelledIsSettled
<1> QED
  BY <1>4, <1>5, <1>6, <1>7, <1>8 DEF MoneyInv

(* What a refund posts. *)
LEMMA RefundPosts ==
  ASSUME TypeOK, Structure, RowsKept, NEW o \in Order, NEW k \in RefundKey,
         NEW p \in Payment, NEW n \in Amount, RecordRefund(o, k, p, n)
  PROVE  /\ ReviewKept
         /\ \A q : Collected(q)' = Collected(q) /\ ManualCollected(q)' = ManualCollected(q)
         /\ Refunded(o)' = Refunded(o) + n
         /\ \A q \in Order \ {o} : Refunded(q)' = Refunded(q) /\ order'[q] = order[q]
         /\ order'[o].paymentStatus =
              NextPayment(o, order[o].status, Collected(o), Refunded(o)')
         /\ order'[o].status = order[o].status
         /\ n \in Nat /\ n >= 1
<1>1. /\ refund[k].order = NoOrder
      /\ refund' = [refund EXCEPT ![k] = [order |-> o, payment |-> p, amount |-> n]]
      /\ meta' = meta
  BY DEF RecordRefund
<1>2. NothingPaidBut({}) /\ ReviewKept
  BY <1>1, RecordRefundRows DEF NothingPaidBut, ReviewKept, Stays
<1>3. \A q : Collected(q)' = Collected(q) /\ ManualCollected(q)' = ManualCollected(q)
  BY <1>2, CollectedStays, ManualCollectedStays
<1>4. /\ Refunded(o)' = Refunded(o) + n
      /\ \A q \in Order \ {o} : Refunded(q)' = Refunded(q)
  BY <1>1, RefundInserted DEF Structure
<1>5. /\ order'[o].paymentStatus =
           NextPayment(o, order[o].status, Collected(o), Refunded(o)')
      /\ order'[o].status = order[o].status
      /\ \A q \in Order \ {o} : order'[q] = order[q]
  BY OrderWritten DEF RecordRefund, TypeOK
<1>6. n \in Nat /\ n >= 1
  BY MaxAmountAssumption DEF Amount
<1> QED
  BY <1>2, <1>3, <1>4, <1>5, <1>6

(* A refund, within what its payment still holds, keeps the money invariants. *)
LEMMA MoneyRefund ==
  ASSUME TypeOK, Structure, RowsKept, MoneyInv,
         NEW o \in Order, NEW k \in RefundKey, NEW p \in Payment, NEW n \in Amount,
         RecordRefund(o, k, p, n)
  PROVE  MoneyInv'
<1>1. /\ ReviewKept
      /\ \A q : Collected(q)' = Collected(q) /\ ManualCollected(q)' = ManualCollected(q)
      /\ n \in Nat
  BY RefundPosts
<1>2. /\ Refunded(o)' = Refunded(o) + n
      /\ \A q \in Order \ {o} : Refunded(q)' = Refunded(q) /\ order'[q] = order[q]
      /\ order'[o].paymentStatus =
           NextPayment(o, order[o].status, Collected(o), Refunded(o)')
      /\ order'[o].status = order[o].status
  BY RefundPosts
<1>3. \A q \in Order : /\ order'[q].status = order[q].status
                       /\ Refunded(q) \in Nat /\ ManualCollected(q) \in Nat
  BY <1>2, SumsAreNumbers, ManualSumsAreNumbers
<1>4. RefundsCovered'
  BY CoverRefund DEF MoneyInv
<1>5. PaymentStatusCache'
  <2> SUFFICES ASSUME NEW q \in Order
               PROVE  order'[q].paymentStatus =
                 DerivePaymentStatus(Total[q], order'[q].status, Collected(q)', Refunded(q)')
    BY DEF PaymentStatusCache
  <2>1. CASE q = o
    BY <1>1, <1>2, <2>1 DEF NextPayment
  <2>2. CASE q # o
    BY <1>1, <1>2, <2>2 DEF MoneyInv, PaymentStatusCache
  <2> QED
    BY <2>1, <2>2
<1>6. FulfilmentWasPaid'
  BY <1>1, <1>3 DEF MoneyInv, FulfilmentWasPaid
<1>7. OverCollectionFlagged'
  BY <1>1, FlagsStay DEF MoneyInv, OverCollectionFlagged
<1>8. CancelledIsSettled'
  <2> SUFFICES ASSUME NEW q \in Order, order[q].status = "cancelled"
               PROVE  ManualCollected(q) <= Refunded(q)'
    BY <1>1, <1>3 DEF CancelledIsSettled
  <2>1. ManualCollected(q) <= Refunded(q)
    BY DEF MoneyInv, CancelledIsSettled
  <2> QED
    BY <1>1, <1>2, <1>3, <2>1
<1> QED
  BY <1>4, <1>5, <1>6, <1>7, <1>8 DEF MoneyInv

(* What a transition writes into the order's row. *)
LEMMA OrderTransitioned ==
  ASSUME TypeOK, NEW o \in Order, NEW next \in OrderStatus, TransitionOrder(o, next)
  PROVE  /\ order'[o].status = next
         /\ order'[o].paymentStatus = NextPayment(o, next, Collected(o), Refunded(o))
         /\ \A q \in Order \ {o} : order'[q] = order[q]
         /\ order[o].status \in OrderStatus /\ next \in Transitions[order[o].status]
         /\ payment' = payment /\ refund' = refund /\ meta' = meta
<1>1. \A r \in OrderRow : r.status \in OrderStatus
  BY DEF OrderRow
<1>2. order \in [Order -> OrderRow]
  BY DEF TypeOK
<1>3. order[o].status \in OrderStatus
  BY <1>1, <1>2
<1> QED
  BY <1>2, <1>3 DEF TransitionOrder, ledger

(* The lifecycle has two ways out of pending_payment and none out of cancelled. *)
LEMMA TransitionsFromTheEnds ==
  ASSUME NEW status \in OrderStatus, NEW next \in Transitions[status]
  PROVE  /\ status # "cancelled"
         /\ next # "pending_payment"
         /\ status = "pending_payment" => next \in {"paid", "cancelled"}
BY DEF Transitions, OrderStatus

(* A transition: goods only for an order the ledger covers, none held on a cancelled one. *)
LEMMA MoneyTransition ==
  ASSUME TypeOK, TypeOK', Structure, RowsKept, MoneyInv,
         NEW o \in Order, NEW next \in OrderStatus, TransitionOrder(o, next)
  PROVE  MoneyInv'
<1>1. /\ order'[o].status = next
      /\ order'[o].paymentStatus = NextPayment(o, next, Collected(o), Refunded(o))
      /\ \A q \in Order \ {o} : order'[q] = order[q]
      /\ order[o].status \in OrderStatus /\ next \in Transitions[order[o].status]
      /\ payment' = payment /\ refund' = refund /\ meta' = meta
  BY OrderTransitioned
<1>2. NothingPaidBut({}) /\ ReviewKept
  BY <1>1 DEF NothingPaidBut, ReviewKept
<1>3. \A q : /\ Collected(q)' = Collected(q) /\ ManualCollected(q)' = ManualCollected(q)
             /\ Refunded(q)' = Refunded(q)
  BY <1>1, <1>2, CollectedStays, ManualCollectedStays, RefundedStays
<1>4. /\ Collected(o) \in Nat /\ Refunded(o) \in Nat /\ ManualCollected(o) \in Nat
      /\ Total[o] \in Nat /\ ManualCollected(o) <= Collected(o)
  BY SumsAreNumbers, ManualSumsAreNumbers, LedgerAssumption, MaxAmountAssumption,
     RefundedWithinCollected DEF MoneyInv, Structure
<1>5. RefundsCovered'
  BY <1>1, CoverStays DEF TypeOK, MoneyInv, Structure
<1>6. PaymentStatusCache'
  BY <1>1, <1>3 DEF MoneyInv, PaymentStatusCache, NextPayment
<1>7. FulfilmentWasPaid'
  <2> SUFFICES ASSUME NEW q \in Order, order'[q].status \notin {"pending_payment", "cancelled"}
               PROVE  Collected(q) >= Total[q] /\ Collected(q) > 0
    BY <1>3 DEF FulfilmentWasPaid
  <2>1. CASE q # o
    BY <1>1, <2>1 DEF MoneyInv, FulfilmentWasPaid
  <2>2. CASE q = o /\ order[o].status # "pending_payment"
    BY <1>1, <2>2, TransitionsFromTheEnds DEF MoneyInv, FulfilmentWasPaid
  <2>3. CASE q = o /\ order[o].status = "pending_payment"
    <3>1. next = "paid"
      BY <1>1, <2>3, TransitionsFromTheEnds
    <3>2. LedgerCoversOrder(Total[o], Collected(o), Refunded(o))
      BY <3>1 DEF TransitionOrder
    <3> QED
      BY <1>4, <2>3, <3>2 DEF LedgerCoversOrder, NetCollected
  <2> QED
    BY <2>1, <2>2, <2>3
<1>8. OverCollectionFlagged'
  BY <1>2, <1>3, FlagsStay DEF MoneyInv, OverCollectionFlagged
<1>9. CancelledIsSettled'
  <2> SUFFICES ASSUME NEW q \in Order, order'[q].status = "cancelled"
               PROVE  ManualCollected(q) <= Refunded(q)
    BY <1>3 DEF CancelledIsSettled
  <2>1. CASE q # o
    BY <1>1, <2>1 DEF MoneyInv, CancelledIsSettled
  <2>2. CASE q = o
    <3>1. ~CancellationBlockedByCollection(Collected(o), Refunded(o))
      BY <1>1, <2>2 DEF TransitionOrder
    <3> QED
      BY <1>4, <2>2, <3>1 DEF CancellationBlockedByCollection, NetCollected
  <2> QED
    BY <2>1, <2>2
<1> QED
  BY <1>5, <1>6, <1>7, <1>8, <1>9 DEF MoneyInv

(* What a booked success notification does to its order. *)
LEMMA SuccessPosts ==
  ASSUME TypeOK, Structure, RowsKept, NEW a \in Attempt, NEW o, o = payment[a].order,
         PaytrCallbackSuccess(a)
  PROVE  /\ o \in Order
         /\ NothingPaidBut({a}) /\ ReviewKept /\ refund' = refund
         /\ payment[a].amount \in Nat
         /\ Collected(o)' = Collected(o) + payment[a].amount
         /\ \A q \in Order \ {o} : Collected(q)' = Collected(q) /\ order'[q] = order[q]
         /\ \A q : Refunded(q)' = Refunded(q) /\ ManualCollected(q)' = ManualCollected(q)
         /\ a \in PaidRows(o)'
         /\ OverCollected(o, a) => meta'[a].reviewRequired
         /\ order'[o].paymentStatus = NextPayment(o, order[o].status,
                          Collected(o) + payment[a].amount, Refunded(o))
         /\ \/ order'[o].status = order[o].status
            \/ /\ order[o].status = "pending_payment" /\ order'[o].status = "paid"
               /\ LedgerCoversOrder(Total[o], Collected(o) + payment[a].amount, Refunded(o))
<1>1. /\ a \in Payment /\ SameMoney(a) /\ payment'[a].status = "paid"
      /\ o \in Order /\ payment[a].status # "paid"
      /\ \A p \in Payment \ {a} : payment'[p] = payment[p]
  <2>1. StatusWrite(a, "paid") /\ payment[a].status # "paid" /\ Unlocked(payment[a].order)
    BY DEF PaytrCallbackSuccess, StatusWrite, AlreadyPaid
  <2>2. payment[a].status # "absent"
    BY DEF PaytrCallbackSuccess, Structure, AttemptsExist
  <2> QED
    BY <2>1, <2>2, CallbackRows
<1>2. payment[a].amount \in 0..MaxAmount
  BY <1>1, AmountsAreNumbers DEF PaymentAmount
<1>3. NothingPaidBut({a})
  BY <1>1 DEF NothingPaidBut
<1>4. /\ meta' = [meta EXCEPT ![a].failureCode = "none",
                              ![a].reviewRequired = @ \/ OverCollected(o, a)]
      /\ refund' = refund
  BY DEF PaytrCallbackSuccess
<1>5. ReviewKept /\ (OverCollected(o, a) => meta'[a].reviewRequired)
  <2>1. meta'[a].reviewRequired = (meta[a].reviewRequired \/ OverCollected(o, a))
    <3>1. meta'[a] = [meta[a] EXCEPT !.failureCode = "none",
                        !.reviewRequired = meta[a].reviewRequired \/ OverCollected(o, a)]
      BY <1>4 DEF TypeOK
    <3>2. meta[a] \in Meta
      BY DEF TypeOK
    <3> QED
      BY <3>1, <3>2, MetaKeepsReview
  <2>2. \A b \in Attempt \ {a} : meta'[b] = meta[b]
    BY <1>4 DEF TypeOK
  <2> QED
    BY <2>1, <2>2, Zenon DEF ReviewKept
<1>6. Collected(o)' = Collected(o) + payment[a].amount
  BY <1>1, <1>2, <1>3, CollectedGrows DEF SameMoney
<1>7. \A q \in Order \ {o} : Collected(q)' = Collected(q)
  BY <1>1, <1>3, CollectedStays DEF SameMoney
<1>8. \A q : Refunded(q)' = Refunded(q) /\ ManualCollected(q)' = ManualCollected(q)
  BY <1>3, <1>4, RefundedStays, ManualCollectedStays, LedgerAssumption
<1>9. a \in PaidRows(o)'
  BY <1>1 DEF PaidRows, SameMoney
<1>10. /\ order'[o].paymentStatus = NextPayment(o, order[o].status,
                          Collected(o) + payment[a].amount, Refunded(o))
       /\ \/ order'[o].status = order[o].status
          \/ /\ order[o].status = "pending_payment" /\ order'[o].status = "paid"
             /\ LedgerCoversOrder(Total[o], Collected(o) + payment[a].amount, Refunded(o))
       /\ \A q \in Order \ {o} : order'[q] = order[q]
  <2> DEFINE ps == NextPayment(o, order[o].status, Collected(o) + payment[a].amount, Refunded(o))
             covered == /\ order[o].status = "pending_payment"
                        /\ LedgerCoversOrder(Total[o], Collected(o) + payment[a].amount,
                                             Refunded(o))
  <2>1. order' = [order EXCEPT ![o].status = IF covered THEN "paid" ELSE @,
                               ![o].paymentStatus = ps]
    BY DEF PaytrCallbackSuccess
  <2>2. order \in [Order -> OrderRow]
    BY DEF TypeOK
  <2> HIDE DEF ps, covered
  <2>3. \A r \in OrderRow : \A s : LET w == [r EXCEPT !.status = s, !.paymentStatus = ps] IN
          w.status = s /\ w.paymentStatus = ps
    BY DEF OrderRow
  <2>4. order'[o] = [order[o] EXCEPT !.status = IF covered THEN "paid" ELSE order[o].status,
                                     !.paymentStatus = ps]
    BY <1>1, <2>1, <2>2
  <2>5. \A q \in Order \ {o} : order'[q] = order[q]
    BY <1>1, <2>1, <2>2
  <2>6. /\ order'[o].status = IF covered THEN "paid" ELSE order[o].status
        /\ order'[o].paymentStatus = ps
    BY <1>1, <2>2, <2>3, <2>4
  <2> QED
    BY <2>5, <2>6 DEF ps, covered
<1> QED
  BY <1>1, <1>2, <1>3, <1>4, <1>5, <1>6, <1>7, <1>8, <1>9, <1>10, MaxAmountAssumption

(* A success notification: whatever became of the order, its money is booked. *)
LEMMA MoneySuccess ==
  ASSUME TypeOK, TypeOK', Structure, RowsKept, MoneyInv,
         NEW a \in Attempt, PaytrCallbackSuccess(a)
  PROVE  MoneyInv'
<1> SUFFICES ASSUME NEW o, o = payment[a].order, NEW n, n = payment[a].amount
             PROVE  MoneyInv'
  OBVIOUS
<1>1. /\ o \in Order
      /\ NothingPaidBut({a}) /\ ReviewKept /\ refund' = refund
      /\ n \in Nat
      /\ Collected(o)' = Collected(o) + n
      /\ \A q \in Order \ {o} : Collected(q)' = Collected(q) /\ order'[q] = order[q]
      /\ \A q : Refunded(q)' = Refunded(q) /\ ManualCollected(q)' = ManualCollected(q)
      /\ a \in PaidRows(o)'
      /\ OverCollected(o, a) => meta'[a].reviewRequired
      /\ order'[o].paymentStatus =
           NextPayment(o, order[o].status, Collected(o) + n, Refunded(o))
      /\ \/ order'[o].status = order[o].status
         \/ /\ order[o].status = "pending_payment" /\ order'[o].status = "paid"
            /\ LedgerCoversOrder(Total[o], Collected(o) + n, Refunded(o))
  BY SuccessPosts
<1>2. Collected(o) \in Nat /\ Refunded(o) \in Nat /\ Total[o] \in Nat
  BY <1>1, SumsAreNumbers, LedgerAssumption, MaxAmountAssumption
<1>3. OverCollected(o, a) <=> Collected(o)' > Total[o]
  BY <1>1 DEF OverCollected
<1>4. RefundsCovered'
  BY <1>1, CoverStays DEF TypeOK, MoneyInv, Structure
<1>5. PaymentStatusCache'
  <2> SUFFICES ASSUME NEW q \in Order
               PROVE  order'[q].paymentStatus =
                 DerivePaymentStatus(Total[q], order'[q].status, Collected(q)', Refunded(q)')
    BY DEF PaymentStatusCache
  <2>1. CASE q # o
    BY <1>1, <2>1 DEF MoneyInv, PaymentStatusCache
  <2>2. CASE q = o /\ order'[o].status = order[o].status
    BY <1>1, <2>2 DEF NextPayment
  <2>3. CASE q = o /\ order'[o].status # order[o].status
    BY <1>1, <2>3 DEF NextPayment, DerivePaymentStatus
  <2> QED
    BY <2>1, <2>2, <2>3
<1>6. FulfilmentWasPaid'
  <2> SUFFICES ASSUME NEW q \in Order, order'[q].status \notin {"pending_payment", "cancelled"}
               PROVE  Collected(q)' >= Total[q] /\ Collected(q)' > 0
    BY DEF FulfilmentWasPaid
  <2>1. CASE q # o
    BY <1>1, <2>1 DEF MoneyInv, FulfilmentWasPaid
  <2>2. CASE q = o /\ order'[o].status = order[o].status
    BY <1>1, <1>2, <2>2 DEF MoneyInv, FulfilmentWasPaid
  <2>3. CASE q = o /\ order'[o].status # order[o].status
    BY <1>1, <1>2, <2>3 DEF LedgerCoversOrder, NetCollected
  <2> QED
    BY <2>1, <2>2, <2>3
<1>7. OverCollectionFlagged'
  <2> SUFFICES ASSUME NEW q \in Order, Collected(q)' > Total[q]
               PROVE  \E b \in Attempt : b \in PaidRows(q)' /\ meta'[b].reviewRequired
    BY DEF OverCollectionFlagged
  <2>1. CASE q = o
    BY <1>1, <1>3, <2>1
  <2>2. CASE q # o
    <3>1. Collected(q) > Total[q]
      BY <1>1, <2>2
    <3> QED
      BY <1>1, <3>1, FlagsStay DEF MoneyInv, OverCollectionFlagged
  <2> QED
    BY <2>1, <2>2
<1>8. CancelledIsSettled'
  BY <1>1 DEF MoneyInv, CancelledIsSettled
<1> QED
  BY <1>4, <1>5, <1>6, <1>7, <1>8 DEF MoneyInv

LEMMA NextMoney == TypeOK /\ Structure /\ MoneyInv /\ [Next]_vars => MoneyInv'
<1> SUFFICES ASSUME TypeOK, Structure, MoneyInv, [Next]_vars PROVE MoneyInv'
  OBVIOUS
<1>1. TypeOK' /\ RowsKept
  BY NextType, NextStructure
<1>2. ASSUME NEW o \in Order, OperatorStep(o)
      PROVE  MoneyInv'
  BY <1>1, <1>2, MoneyManualPayment, MoneyRefund, MoneyTransition DEF OperatorStep
<1>3. ASSUME NEW a \in Attempt, PaytrCallbackSuccess(a)
      PROVE  MoneyInv'
  BY <1>1, <1>3, MoneySuccess
<1>4. CASE PostsNothing
  BY <1>1, <1>4, MoneyStays
<1> QED
  BY <1>2, <1>3, <1>4, StepsThatPostNothing DEF Next, CallbackStep

-----------------------------------------------------------------------------
(* What every behaviour of OrderLedger keeps, and that it implements        *)
(* CashBook.                                                               *)


Inv == TypeOK /\ Structure /\ MoneyInv

LEMMA InvInductive == Spec => []Inv
<1>1. Init => Inv
  BY InitType, InitStructure, InitMoney DEF Inv
<1>2. Inv /\ [Next]_vars => Inv'
  BY NextType, NextStructure, NextMoney DEF Inv
<1> QED
  BY <1>1, <1>2, PTL DEF Spec

(* orders.payment_status is what the ledger's rows say, after any interleaving
   of operators, customers and callbacks. *)
THEOREM CacheIsTheLedger == Spec => []PaymentStatusCache
<1>1. Inv => PaymentStatusCache
  BY DEF Inv, MoneyInv
<1> QED
  BY <1>1, InvInductive, PTL

(* A refund is backed by a confirmed manual payment of the same order. *)
THEOREM RefundsBacked == Spec => []RefundsAreBacked
<1>1. Inv => RefundsAreBacked
  BY DEF Inv, Structure
<1> QED
  BY <1>1, InvInductive, PTL

(* However many refunds race over a payment, they give back no more than it
   brought in. *)
THEOREM RefundsBounded == Spec => []RefundsWithinPayments
<1>1. Inv => RefundsWithinPayments
  <2> SUFFICES ASSUME Inv, NEW p \in Payment
               PROVE  RefundedOn(p) <= payment[p].amount
    BY DEF RefundsWithinPayments
  <2>1. SumOf(RefundsOver({p}), RefundAmount) <= SumOf({p}, PaymentAmount)
    BY DEF Inv, MoneyInv, RefundsCovered
  <2>2. RefundsOver({p}) = RefundRowsOn(p)
    BY DEF RefundsOver, RefundRowsOn
  <2>3. PaymentAmount[p] = payment[p].amount /\ PaymentAmount[p] \in 0..MaxAmount
    BY AmountsAreNumbers DEF Inv, PaymentAmount
  <2>4. SumOf({p}, PaymentAmount) = payment[p].amount
    BY <2>3, SumOne
  <2> QED
    BY <2>1, <2>2, <2>4 DEF RefundedOn
<1> QED
  BY <1>1, InvInductive, PTL

(* No order is prepared, shipped, installed or taken back before the ledger
   held its whole price. *)
THEOREM FulfilmentPaid == Spec => []FulfilmentWasPaid
<1>1. Inv => FulfilmentWasPaid
  BY DEF Inv, MoneyInv
<1> QED
  BY <1>1, InvInductive, PTL

(* Money beyond an order's price is always marked for review. *)
THEOREM OverCollectionReviewed == Spec => []OverCollectionFlagged
<1>1. Inv => OverCollectionFlagged
  BY DEF Inv, MoneyInv
<1> QED
  BY <1>1, InvInductive, PTL

(* What a cancelled order's manual payments brought in was given back, exactly. *)
THEOREM CancelledSettled == Spec => []CancelledReturnedManualMoney
<1>1. Inv => CancelledReturnedManualMoney
  <2> SUFFICES ASSUME Inv, NEW o \in Order, order[o].status = "cancelled"
               PROVE  ManualCollected(o) = Refunded(o)
    BY DEF CancelledReturnedManualMoney, ManualCollected, ManualRows
  <2>1. ManualCollected(o) <= Refunded(o)
    BY DEF Inv, MoneyInv, CancelledIsSettled
  <2>2. Refunded(o) <= ManualCollected(o)
    BY RefundedWithinCollected DEF Inv, MoneyInv, Structure
  <2> QED
    BY <2>1, <2>2, SumsAreNumbers, ManualSumsAreNumbers
<1> QED
  BY <1>1, InvInductive, PTL

-----------------------------------------------------------------------------
(* The books are append-only *)

LEMMA RefundRowsAreFinal ==
  ASSUME TypeOK, Structure, [Next]_vars, NEW k \in RefundKey, refund[k].order # NoOrder
  PROVE  refund'[k] = refund[k]
<1>1. ASSUME NEW o \in Order, OperatorStep(o)
      PROVE  refund'[k] = refund[k]
  <2>1. ASSUME NEW j \in RefundKey, NEW p \in Payment, NEW n \in Amount,
               RecordRefund(o, j, p, n)
        PROVE  refund'[k] = refund[k]
    <3>1. k # j
      BY <2>1 DEF RecordRefund
    <3> QED
      BY <2>1, <3>1 DEF RecordRefund, TypeOK
  <2> QED
    BY <1>1, <2>1 DEF OperatorStep, RecordManualPayment, TransitionOrder, ledger
<1>2. ASSUME NEW a \in Attempt, PaytrCallbackSuccess(a)
      PROVE  refund'[k] = refund[k]
  BY <1>2 DEF PaytrCallbackSuccess
<1> QED
  BY <1>1, <1>2, StepsThatPostNothing DEF Next, CallbackStep, PostsNothing

(* Confirmed money stays in the books: a paid row keeps its order, amount and
   status, and a refund row is never written again. *)
THEOREM BooksFinal == Spec => BooksAreFinal
<1>1. Inv /\ [Next]_vars =>
        [/\ \A p \in Payment : payment[p].status = "paid" =>
              /\ payment'[p].status = "paid"
              /\ payment'[p].order = payment[p].order
              /\ payment'[p].amount = payment[p].amount
         /\ \A k \in RefundKey : refund[k].order # NoOrder => refund'[k] = refund[k]]_ledger
  <2> SUFFICES ASSUME Inv, [Next]_vars
               PROVE  /\ \A p \in Payment : payment[p].status = "paid" =>
                           /\ payment'[p].status = "paid"
                           /\ payment'[p].order = payment[p].order
                           /\ payment'[p].amount = payment[p].amount
                      /\ \A k \in RefundKey :
                           refund[k].order # NoOrder => refund'[k] = refund[k]
    OBVIOUS
  <2>1. RowsKept
    BY NextStructure DEF Inv
  <2>2. \A k \in RefundKey : refund[k].order # NoOrder => refund'[k] = refund[k]
    BY RefundRowsAreFinal DEF Inv
  <2> QED
    BY <2>1, <2>2 DEF RowsKept, SameMoney
<1> QED
  BY <1>1, InvInductive, PTL DEF Spec, BooksAreFinal

-----------------------------------------------------------------------------
(* One payment page at a time *)

OnePending ==
  \A o \in Order : \A a, b \in PendingAttempts(o) : a = b

(* Only the commit of a start makes an attempt pending. *)
LEMMA OthersOpenNoAttempt ==
  ASSUME Inv, [Next]_vars,
         ~\E o \in Order, a \in Attempt : StartPaytrCommit(o, a)
  PROVE  \A a \in Attempt : payment'[a].status = "pending" =>
           payment[a].status = "pending" /\ SameMoney(a)
<1> SUFFICES ASSUME NEW a \in Attempt, payment'[a].status = "pending"
             PROVE  payment[a].status = "pending" /\ SameMoney(a)
  OBVIOUS
<1>1. /\ payment \in [Payment -> PaymentRow] /\ Attempt \subseteq Payment
      /\ \A k \in PaymentKey : k # a
  BY LedgerAssumption DEF Inv, TypeOK, Payment
<1>2. ASSUME NEW o \in Order, OperatorStep(o)
      PROVE  payment[a].status = "pending" /\ SameMoney(a)
  <2>1. ASSUME NEW k \in PaymentKey, NEW n \in Amount, RecordManualPayment(o, k, n)
        PROVE  payment'[a] = payment[a]
    BY <1>1, <2>1 DEF RecordManualPayment
  <2>2. ASSUME NEW k \in RefundKey, NEW p \in Payment, NEW n \in Amount,
               RecordRefund(o, k, p, n)
        PROVE  Stays(a)
    BY <1>1, <2>2, RecordRefundRows DEF Inv
  <2>3. ASSUME NEW next \in OrderStatus, TransitionOrder(o, next)
        PROVE  payment'[a] = payment[a]
    BY <2>3 DEF TransitionOrder, ledger
  <2> QED
    BY <1>2, <2>1, <2>2, <2>3 DEF OperatorStep, Stays, SameMoney
<1>3. ASSUME NEW o \in Order, StartStep(o)
      PROVE  payment[a].status = "pending" /\ SameMoney(a)
  BY <1>3 DEF StartStep, StartPaytrRead, StartPaytrAbort, ledger, SameMoney
<1>4. ASSUME NEW b \in Attempt, NEW s \in {"failed", "paid"}, StatusWrite(b, s)
      PROVE  payment[a].status = "pending" /\ SameMoney(a)
  <2>1. payment'[b].status # "pending" /\ \A p \in Payment \ {b} : payment'[p] = payment[p]
    BY <1>1, <1>4, StatusWritten
  <2> QED
    BY <1>1, <2>1 DEF SameMoney
<1>5. ASSUME NEW b \in Attempt, AttemptStep(b)
      PROVE  payment[a].status = "pending" /\ SameMoney(a)
  BY <1>4, <1>5 DEF AttemptStep, StoreToken, TokenRefused, RequestLost, TokenExpires,
     InFlightElapses, ledger, StatusWrite, SameMoney
<1>6. ASSUME NEW b \in Attempt, ProviderStep(b)
      PROVE  payment[a].status = "pending" /\ SameMoney(a)
  BY <1>6 DEF ProviderStep, Charge, Decline, ledger, SameMoney
<1>7. ASSUME NEW b \in Attempt, CallbackStep(b)
      PROVE  payment[a].status = "pending" /\ SameMoney(a)
  BY <1>4, <1>7 DEF CallbackStep, PaytrCallbackFailed, PaytrCallbackMismatch,
     PaytrCallbackSuccess, ledger, StatusWrite, SameMoney
<1>8. CASE UNCHANGED vars
  BY <1>8 DEF vars, SameMoney
<1> QED
  BY <1>2, <1>3, <1>5, <1>6, <1>7, <1>8 DEF Next

LEMMA NextOnePending == Inv /\ OnePending /\ [Next]_vars => OnePending'
<1> SUFFICES ASSUME Inv, OnePending, [Next]_vars PROVE OnePending'
  OBVIOUS
<1>1. CASE ~\E o \in Order, a \in Attempt : StartPaytrCommit(o, a)
  <2>1. \A o \in Order : PendingAttempts(o)' \subseteq PendingAttempts(o)
    BY <1>1, OthersOpenNoAttempt DEF PendingAttempts, SameMoney
  <2> QED
    BY <2>1 DEF OnePending
<1>2. ASSUME NEW o \in Order, NEW a \in Attempt, StartPaytrCommit(o, a)
      PROVE  OnePending'
  <2>1. /\ Opens(a, o, Due(o), "pending")
        /\ \A p \in starting[o].seen : Moves(p, {"pending", "failed"}, "cancelled")
        /\ \A p \in Payment \ ({a} \cup starting[o].seen) : payment'[p] = payment[p]
        /\ a \notin starting[o].seen /\ starting[o].seen \subseteq Attempt
    BY <1>2, StartPaytrCommitRows DEF Inv
  <2>2. PendingAttempts(o) \subseteq starting[o].seen
    BY <1>2 DEF StartPaytrCommit, Inv, Structure, SeenIsCurrent
  <2>3. PendingAttempts(o)' \subseteq {a}
    BY <2>1, <2>2 DEF PendingAttempts, Moves, Payment
  <2>4. ASSUME NEW q \in Order, q # o
        PROVE  PendingAttempts(q)' \subseteq PendingAttempts(q)
    BY <2>1, <2>4 DEF PendingAttempts, Moves, Opens, Payment
  <2> QED
    BY <2>3, <2>4 DEF OnePending
<1> QED
  BY <1>1, <1>2

(* An order has at most one payment page to be paid, whatever the customer's
   tabs, timeouts and crashes left behind. *)
THEOREM OnePageAtATime == Spec => []AtMostOnePending
<1>1. Init => OnePending
  BY DEF Init, OnePending, PendingAttempts, NoRow, Payment
<1>2. OnePending => AtMostOnePending
  <2> SUFFICES ASSUME OnePending, NEW o \in Order
               PROVE  Cardinality(PendingAttempts(o)) <= 1
    BY DEF AtMostOnePending
  <2>1. CASE PendingAttempts(o) = {}
    BY <2>1, FS_EmptySet
  <2>2. CASE PendingAttempts(o) # {}
    <3>1. PICK a : PendingAttempts(o) = {a}
      BY <2>2 DEF OnePending
    <3>2. Cardinality({a}) = 1
      BY FS_Singleton
    <3> QED
      BY <3>1, <3>2
  <2> QED
    BY <2>1, <2>2
<1> QED
  BY <1>1, <1>2, NextOnePending, InvInductive, PTL DEF Spec

-----------------------------------------------------------------------------
(* A notification is booked once *)

LEMMA AuditWritten ==
  ASSUME audits \in [Attempt -> AuditRows], NEW a \in Attempt
  PROVE  /\ audits' = [audits EXCEPT ![a].success = @ + 1] =>
              /\ audits'[a].success = audits[a].success + 1
              /\ \A b \in Attempt \ {a} : audits'[b] = audits[b]
         /\ audits' = [audits EXCEPT ![a].mismatch = @ + 1] =>
              \A b \in Attempt : audits'[b].success = audits[b].success
<1>1. \A r \in AuditRows : \A n :
       /\ [r EXCEPT !.success = n].success = n
       /\ [r EXCEPT !.mismatch = n].success = r.success
  BY DEF AuditRows
<1>2. ASSUME audits' = [audits EXCEPT ![a].success = @ + 1]
      PROVE  /\ audits'[a].success = audits[a].success + 1
             /\ \A b \in Attempt \ {a} : audits'[b] = audits[b]
  <2>1. /\ audits'[a] = [audits[a] EXCEPT !.success = audits[a].success + 1]
        /\ \A b \in Attempt \ {a} : audits'[b] = audits[b]
    BY <1>2
  <2> QED
    BY <1>1, <2>1
<1>3. ASSUME audits' = [audits EXCEPT ![a].mismatch = @ + 1]
      PROVE  \A b \in Attempt : audits'[b].success = audits[b].success
  <2>1. /\ audits'[a] = [audits[a] EXCEPT !.mismatch = audits[a].mismatch + 1]
        /\ \A b \in Attempt \ {a} : audits'[b] = audits[b]
    BY <1>3
  <2>2. audits'[a].success = audits[a].success
    BY <1>1, <2>1
  <2> QED
    BY <2>1, <2>2
<1> QED
  BY <1>2, <1>3

(* Nothing but its own success notification makes an attempt paid, or audits it. *)
LEMMA OthersBookNothing ==
  ASSUME Inv, [Next]_vars, NEW a \in Attempt, ~PaytrCallbackSuccess(a)
  PROVE  /\ payment'[a].status = "paid" <=> payment[a].status = "paid"
         /\ audits'[a].success = audits[a].success
<1>1. /\ a \in Payment /\ \A k \in PaymentKey : k # a
      /\ audits \in [Attempt -> AuditRows]
  BY LedgerAssumption DEF Payment, Inv, TypeOK
<1>2. RowsKept
  BY NextStructure DEF Inv
<1>3. payment[a].status = "paid" => payment'[a].status = "paid"
  BY <1>1, <1>2 DEF RowsKept
<1>4. ASSUME NEW o \in Order, OperatorStep(o)
      PROVE  /\ payment'[a].status = "paid" => payment[a].status = "paid"
             /\ audits' = audits
  <2>1. ASSUME NEW k \in PaymentKey, NEW n \in Amount, RecordManualPayment(o, k, n)
        PROVE  payment'[a] = payment[a] /\ audits' = audits
    BY <1>1, <2>1 DEF RecordManualPayment, Inv, TypeOK
  <2>2. ASSUME NEW k \in RefundKey, NEW p \in Payment, NEW n \in Amount,
               RecordRefund(o, k, p, n)
        PROVE  Stays(a) /\ audits' = audits
    <3>1. Stays(a)
      BY <1>1, <2>2, RecordRefundRows DEF Inv
    <3> QED
      BY <2>2, <3>1 DEF RecordRefund
  <2>3. ASSUME NEW next \in OrderStatus, TransitionOrder(o, next)
        PROVE  payment'[a] = payment[a] /\ audits' = audits
    BY <2>3 DEF TransitionOrder, ledger
  <2> QED
    BY <1>4, <2>1, <2>2, <2>3 DEF OperatorStep, Stays
<1>5. ASSUME NEW b \in Attempt, PaytrCallbackSuccess(b)
      PROVE  payment'[a] = payment[a] /\ audits'[a] = audits[a]
  <2>1. b # a
    BY <1>5
  <2>2. StatusWrite(b, "paid") /\ audits' = [audits EXCEPT ![b].success = @ + 1]
    BY <1>5 DEF PaytrCallbackSuccess, StatusWrite
  <2>3. \A p \in Payment \ {b} : payment'[p] = payment[p]
    BY <2>2, StatusWritten DEF Inv, TypeOK, Payment
  <2>4. \A c \in Attempt \ {b} : audits'[c] = audits[c]
    BY <1>1, <2>2, AuditWritten
  <2> QED
    BY <1>1, <2>1, <2>2, <2>3, <2>4
<1>6. ASSUME NEW b \in Attempt, PaytrCallbackMismatch(b)
      PROVE  payment' = payment /\ audits'[a].success = audits[a].success
  BY <1>1, <1>6, AuditWritten DEF PaytrCallbackMismatch, ledger
<1>7. CASE /\ PostsNothing
           /\ audits' = audits
  BY <1>1, <1>3, <1>7 DEF PostsNothing, NothingPaidBut
<1>8. ASSUME \/ \E o \in Order : StartStep(o)
             \/ \E b \in Attempt : AttemptStep(b) \/ ProviderStep(b) \/ PaytrCallbackFailed(b)
             \/ UNCHANGED vars
      PROVE  PostsNothing /\ audits' = audits
  <2>1. PostsNothing
    BY <1>8, StepsThatPostNothing DEF Inv
  <2>2. \A o \in Order : StartStep(o) => audits' = audits
    BY DEF StartStep, StartPaytrRead, StartPaytrCommit, StartPaytrAbort
  <2>3. \A b \in Attempt : AttemptStep(b) \/ ProviderStep(b) \/ PaytrCallbackFailed(b)
                             => audits' = audits
    BY DEF AttemptStep, StoreToken, TokenRefused, RequestLost, TokenExpires,
       InFlightElapses, ProviderStep, Charge, Decline, PaytrCallbackFailed
  <2>4. UNCHANGED vars => audits' = audits
    BY DEF vars
  <2> QED
    BY <1>8, <2>1, <2>2, <2>3, <2>4
<1> QED
  BY <1>3, <1>4, <1>5, <1>6, <1>7, <1>8 DEF Next, CallbackStep

(* A success notification is booked and audited once, however often PayTR sends
   it and whatever became of its attempt meanwhile. *)
THEOREM BookedOnce == Spec => []SuccessBookedOnce
<1>1. Init => SuccessBookedOnce
  BY DEF Init, SuccessBookedOnce, NoRow, Payment
<1>2. Inv /\ SuccessBookedOnce /\ [Next]_vars => SuccessBookedOnce'
  <2> SUFFICES ASSUME Inv, SuccessBookedOnce, [Next]_vars, NEW a \in Attempt
               PROVE  audits'[a].success = IF payment'[a].status = "paid" THEN 1 ELSE 0
    BY DEF SuccessBookedOnce
  <2>1. CASE PaytrCallbackSuccess(a)
    <3>1. /\ payment[a].status # "paid" /\ payment'[a].status = "paid"
      BY <2>1, StatusWritten DEF PaytrCallbackSuccess, AlreadyPaid, StatusWrite, Inv,
         TypeOK, Payment
    <3>2. audits'[a].success = audits[a].success + 1
      BY <2>1, AuditWritten DEF PaytrCallbackSuccess, Inv, TypeOK
    <3>3. audits[a].success = 0
      BY <3>1 DEF SuccessBookedOnce
    <3> QED
      BY <3>1, <3>2, <3>3
  <2>2. CASE ~PaytrCallbackSuccess(a)
    BY <2>2, OthersBookNothing DEF SuccessBookedOnce
  <2> QED
    BY <2>1, <2>2
<1> QED
  BY <1>1, <1>2, InvInductive, PTL DEF Spec

-----------------------------------------------------------------------------
(* Stock, shipments and installations *)

\* Before its shipment, and its installation, an order has none on record.
Journey ==
  \A o \in Order :
    /\ order[o].status \in {"pending_payment", "paid", "preparing"} => order[o].shipments = 0
    /\ order[o].status \in {"pending_payment", "paid", "preparing", "shipped", "delivery", "delivered"}
         => order[o].installationJobs = 0

\* The row keeps its records; its status, unless a payment in full accepts it.
RecordsKept(o) ==
  /\ order'[o].stock = order[o].stock /\ order'[o].shipments = order[o].shipments
  /\ order'[o].installationJobs = order[o].installationJobs
  /\ \/ order'[o].status = order[o].status
     \/ order[o].status = "pending_payment" /\ order'[o].status = "paid"

LEMMA StatusesWritten ==
  ASSUME TypeOK, NEW o \in Order, NEW ps,
         \/ order' = [order EXCEPT ![o].paymentStatus = ps]
         \/ \E s : /\ order' = [order EXCEPT ![o].status = s, ![o].paymentStatus = ps]
                   /\ s = order[o].status \/ (order[o].status = "pending_payment" /\ s = "paid")
  PROVE  \A q \in Order : RecordsKept(q)
<1>1. order \in [Order -> OrderRow]
  BY DEF TypeOK
<1>2. \A q \in Order \ {o} : order'[q] = order[q]
  BY <1>1
<1>3. RecordsKept(o)
  <2>1. \A r \in OrderRow : LET w == [r EXCEPT !.paymentStatus = ps] IN
          /\ w.status = r.status /\ w.stock = r.stock
          /\ w.shipments = r.shipments /\ w.installationJobs = r.installationJobs
    BY DEF OrderRow
  <2>2. \A r \in OrderRow : \A s : LET w == [r EXCEPT !.status = s, !.paymentStatus = ps] IN
          /\ w.status = s /\ w.stock = r.stock
          /\ w.shipments = r.shipments /\ w.installationJobs = r.installationJobs
    BY DEF OrderRow
  <2>3. CASE order' = [order EXCEPT ![o].paymentStatus = ps]
    <3>1. order'[o] = [order[o] EXCEPT !.paymentStatus = ps]
      BY <1>1, <2>3
    <3> QED
      BY <1>1, <2>1, <3>1 DEF RecordsKept
  <2>4. CASE order' # [order EXCEPT ![o].paymentStatus = ps]
    <3>1. PICK s : /\ order' = [order EXCEPT ![o].status = s, ![o].paymentStatus = ps]
                   /\ s = order[o].status \/ (order[o].status = "pending_payment" /\ s = "paid")
      BY <2>4
    <3>2. order'[o] = [order[o] EXCEPT !.status = s, !.paymentStatus = ps]
      BY <1>1, <3>1
    <3>3. /\ order'[o].status = s /\ order'[o].stock = order[o].stock
          /\ order'[o].shipments = order[o].shipments
          /\ order'[o].installationJobs = order[o].installationJobs
      BY <1>1, <2>2, <3>2
    <3>4. s = order[o].status \/ (order[o].status = "pending_payment" /\ s = "paid")
      BY <3>1
    <3> QED
      BY <3>3, <3>4 DEF RecordsKept
  <2> QED
    BY <2>3, <2>4
<1> QED
  BY <1>2, <1>3 DEF RecordsKept

(* Only a transition moves goods. *)
LEMMA OthersMoveNoGoods ==
  ASSUME Inv, [Next]_vars, ~ \E o \in Order, next \in OrderStatus : TransitionOrder(o, next)
  PROVE  \A q \in Order : RecordsKept(q)
<1>1. ASSUME NEW o \in Order, NEW k \in PaymentKey, NEW n \in Amount, RecordManualPayment(o, k, n)
      PROVE  \A q \in Order : RecordsKept(q)
  BY <1>1, StatusesWritten DEF RecordManualPayment, Inv
<1>2. ASSUME NEW o \in Order, NEW k \in RefundKey, NEW p \in Payment, NEW n \in Amount,
             RecordRefund(o, k, p, n)
      PROVE  \A q \in Order : RecordsKept(q)
  BY <1>2, StatusesWritten DEF RecordRefund, Inv
<1>3. ASSUME NEW a \in Attempt, PaytrCallbackSuccess(a)
      PROVE  \A q \in Order : RecordsKept(q)
  <2> DEFINE o == payment[a].order
             ps == NextPayment(o, order[o].status, Collected(o) + payment[a].amount, Refunded(o))
             advance == /\ order[o].status = "pending_payment"
                        /\ LedgerCoversOrder(Total[o], Collected(o) + payment[a].amount, Refunded(o))
             s == IF advance THEN "paid" ELSE order[o].status
  <2>1. o \in Order
    <3>1. payment[a].status # "absent" /\ a \in Payment
      BY <1>3 DEF PaytrCallbackSuccess, Inv, Structure, AttemptsExist, Payment
    <3> QED
      BY <3>1 DEF Inv, Structure, RowsHaveOrders
  <2>2. order' = [order EXCEPT ![o].status = IF advance THEN "paid" ELSE @, ![o].paymentStatus = ps]
    BY <1>3 DEF PaytrCallbackSuccess
  <2>3. s = order[o].status \/ (order[o].status = "pending_payment" /\ s = "paid")
    OBVIOUS
  <2>4. order' = [order EXCEPT ![o].status = s, ![o].paymentStatus = ps]
    <3> HIDE DEF advance, ps, o
    <3>1. order \in [Order -> OrderRow]
      BY DEF Inv, TypeOK
    <3> QED
      BY <2>1, <2>2, <3>1
  <2> HIDE DEF o, s, ps, advance
  <2> QED
    BY <2>1, <2>3, <2>4, StatusesWritten DEF Inv
<1>4. CASE PostsNothing
  BY <1>4 DEF PostsNothing, RecordsKept
<1> QED
  BY <1>1, <1>2, <1>3, <1>4, StepsThatPostNothing DEF Next, OperatorStep, CallbackStep, Inv

(* A transition moves goods where the lifecycle has them. *)
LEMMA TransitionRecords ==
  ASSUME TypeOK, Journey, FulfilmentRecords, NEW o \in Order, NEW next \in OrderStatus,
         TransitionOrder(o, next)
  PROVE  Journey' /\ FulfilmentRecords'
<1>1. /\ order[o] \in OrderRow /\ order[o].status \in OrderStatus
      /\ order[o].shipments \in Nat /\ order[o].installationJobs \in Nat
  BY DEF TypeOK, OrderRow
<1>2. next \in Transitions[order[o].status]
  BY DEF TransitionOrder
<1>3. /\ order'[o].status = next
      /\ order'[o].stock = IF next = "cancelled" THEN "released" ELSE order[o].stock
      /\ order'[o].shipments = IF next \in {"shipped", "delivery"}
                               THEN order[o].shipments + 1 ELSE order[o].shipments
      /\ order'[o].installationJobs = IF next = "installation"
                                      THEN order[o].installationJobs + 1 ELSE order[o].installationJobs
  BY DEF TransitionOrder, TypeOK
<1>4. \A q \in Order \ {o} : order'[q] = order[q]
  BY DEF TransitionOrder, TypeOK
<1>5. /\ order[o].status # "cancelled" /\ next # "pending_payment"
      /\ next = "paid" => order[o].status = "pending_payment"
      /\ next = "preparing" => order[o].status = "paid"
      /\ next \in {"shipped", "delivery"} => order[o].status = "preparing"
      /\ next = "delivered" => order[o].status \in {"shipped", "delivery"}
      /\ next = "installation" => order[o].status = "delivered"
  BY <1>1, <1>2 DEF Transitions, OrderStatus
<1>6. Journey'
  BY <1>1, <1>3, <1>4, <1>5 DEF Journey
<1>7. FulfilmentRecords'
  BY <1>1, <1>3, <1>4, <1>5 DEF Journey, FulfilmentRecords
<1> QED
  BY <1>6, <1>7

(* A cancelled order alone has released its stock; goods leave, and installers
   come, once. *)
THEOREM GoodsMoveOnce == Spec => []FulfilmentRecords
<1>1. Init => Journey /\ FulfilmentRecords
  BY DEF Init, Journey, FulfilmentRecords
<1>2. Inv /\ Journey /\ FulfilmentRecords /\ [Next]_vars => Journey' /\ FulfilmentRecords'
  <2> SUFFICES ASSUME Inv, Journey, FulfilmentRecords, [Next]_vars
               PROVE  Journey' /\ FulfilmentRecords'
    OBVIOUS
  <2>1. CASE \E o \in Order, next \in OrderStatus : TransitionOrder(o, next)
    BY <2>1, TransitionRecords DEF Inv
  <2>2. CASE ~ \E o \in Order, next \in OrderStatus : TransitionOrder(o, next)
    <3>1. \A q \in Order : RecordsKept(q)
      BY <2>2, OthersMoveNoGoods
    <3> QED
      BY <3>1 DEF RecordsKept, Journey, FulfilmentRecords
  <2> QED
    BY <2>1, <2>2
<1> QED
  BY <1>1, <1>2, InvInductive, PTL DEF Spec

-----------------------------------------------------------------------------
(* payments.refunded_at *)

\* A row is stamped when all of it has gone back; no row is about nothing, and
\* an opening transaction still finds a balance due.
Stamps ==
  /\ \A p \in Payment : payment[p].status # "absent" =>
       /\ payment[p].amount > 0
       /\ payment[p].refundedAt <=> RefundedOn(p) = payment[p].amount
  /\ \A o \in Order : starting[o].open => Due(o) > 0

(* Nothing has been given back of a row that does not exist. *)
LEMMA NothingRefunded ==
  ASSUME Inv, NEW p \in Payment, payment[p].status # "paid"
  PROVE  RefundedOn(p) = 0
<1>1. RefundRowsOn(p) = {}
  BY LedgerAssumption DEF Inv, Structure, RefundsAreBacked, RefundRowsExist, RefundRowsOn, NoRefund, Payment
<1> QED
  BY <1>1, SumEmpty DEF RefundedOn

(* A row is new, or keeps its amount and its stamp. *)
KeepsStamp(p) ==
  \/ payment[p].status = "absent" /\ payment'[p].status = "absent"
  \/ /\ payment[p].status = "absent"
     /\ payment'[p].amount > 0 /\ ~payment'[p].refundedAt
  \/ /\ payment[p].status # "absent"
     /\ payment'[p].amount = payment[p].amount /\ payment'[p].refundedAt = payment[p].refundedAt

LEMMA StampsStay ==
  ASSUME Inv, Stamps, refund' = refund, \A p \in Payment : KeepsStamp(p),
         \A o \in Order : starting'[o].open => Due(o)' > 0
  PROVE  Stamps'
<1>1. \A p : RefundedOn(p)' = RefundedOn(p)
  BY RefundedStays
<1>2. ASSUME NEW p \in Payment, payment'[p].status # "absent"
      PROVE  /\ payment'[p].amount > 0
             /\ payment'[p].refundedAt <=> RefundedOn(p) = payment'[p].amount
  <2>1. CASE payment[p].status = "absent"
    <3>1. RefundedOn(p) = 0
      BY <2>1, NothingRefunded
    <3> QED
      BY <1>2, <2>1, <3>1 DEF KeepsStamp
  <2>2. CASE payment[p].status # "absent"
    BY <2>2 DEF KeepsStamp, Stamps
  <2> QED
    BY <2>1, <2>2
<1> QED
  BY <1>1, <1>2 DEF Stamps

LEMMA StatusKeepsStamp ==
  ASSUME TypeOK, NEW a \in Payment, NEW s, StatusWrite(a, s), payment[a].status # "absent"
  PROVE  \A p \in Payment : KeepsStamp(p)
<1>1. payment \in [Payment -> PaymentRow]
  BY DEF TypeOK
<1>2. /\ payment'[a].amount = payment[a].amount /\ payment'[a].refundedAt = payment[a].refundedAt
      /\ \A p \in Payment \ {a} : payment'[p] = payment[p]
  <2>1. \A r \in PaymentRow : LET w == [r EXCEPT !.status = s] IN
          w.amount = r.amount /\ w.refundedAt = r.refundedAt
    BY DEF PaymentRow
  <2>2. payment'[a] = [payment[a] EXCEPT !.status = s]
    BY <1>1 DEF StatusWrite
  <2>3. \A p \in Payment \ {a} : payment'[p] = payment[p]
    BY <1>1 DEF StatusWrite
  <2> QED
    BY <1>1, <2>1, <2>2, <2>3
<1> QED
  BY <1>2 DEF KeepsStamp

(* What is due changes only with what was collected, and that not while the
   order is locked. *)
LEMMA DueStays ==
  ASSUME NEW o, Collected(o)' = Collected(o)
  PROVE  Due(o)' = Due(o)
BY DEF Due, OutstandingAmount

LEMMA StampManualPayment ==
  ASSUME Inv, Stamps, RowsKept, NEW o \in Order, NEW k \in PaymentKey, NEW n \in Amount,
         RecordManualPayment(o, k, n)
  PROVE  Stamps'
<1>1. /\ refund' = refund /\ starting' = starting /\ ~starting[o].open
      /\ payment[k].status = "absent"
      /\ payment' = [payment EXCEPT ![k] = [order |-> o, amount |-> n,
                                            status |-> "paid", refundedAt |-> FALSE]]
  BY DEF RecordManualPayment, Unlocked
<1>2. n > 0 /\ k \in Payment
  BY MaxAmountAssumption DEF Amount, Payment
<1>3. \A p \in Payment : KeepsStamp(p)
  BY <1>1, <1>2 DEF KeepsStamp, Inv, TypeOK
<1>4. \A q \in Order \ {o} : Due(q)' = Due(q)
  BY ManualPaymentPosts, DueStays DEF Inv
<1> QED
  BY <1>1, <1>3, <1>4, StampsStay DEF Stamps

LEMMA StampRefund ==
  ASSUME Inv, Stamps, RowsKept, NEW o \in Order, NEW k \in RefundKey, NEW p \in Payment, NEW n \in Amount,
         RecordRefund(o, k, p, n)
  PROVE  Stamps'
<1>1. /\ refund[k].order = NoOrder /\ starting' = starting
      /\ refund' = [refund EXCEPT ![k] = [order |-> o, payment |-> p, amount |-> n]]
      /\ n <= Refundable(p)
  BY DEF RecordRefund
<1>2. n \in Nat /\ n > 0
  BY MaxAmountAssumption DEF Amount
<1>3. /\ \A q \in Payment : RefundRowsOn(q) = RefundsOver({q}) /\ {q} \in SUBSET Payment
      /\ \A q \in Payment : RefundRowsOn(q)' = RefundsOver({q})'
  BY DEF RefundRowsOn, RefundsOver
<1>4. /\ RefundedOn(p)' = RefundedOn(p) + n
      /\ \A q \in Payment \ {p} : RefundedOn(q)' = RefundedOn(q)
  <2>1. \A S \in SUBSET Payment :
          /\ p \in S => SumOf(RefundsOver(S)', RefundAmount') = SumOf(RefundsOver(S), RefundAmount) + n
          /\ p \notin S => SumOf(RefundsOver(S)', RefundAmount') = SumOf(RefundsOver(S), RefundAmount)
    BY <1>1, RefundInserted DEF Inv, Structure
  <2> QED
    BY <1>3, <2>1 DEF RefundedOn
<1>5. /\ RefundedOn(p) \in Nat /\ payment[p].amount \in Nat
      /\ payment[p].status = "paid" /\ n <= payment[p].amount - RefundedOn(p)
  <2>1. payment[p].amount \in Nat
    BY AmountsAreNumbers, MaxAmountAssumption DEF Inv, PaymentAmount
  <2>2. RefundRowsOn(p) \in SUBSET RefundKey
    BY DEF RefundRowsOn
  <2>3. RefundedOn(p) \in Nat
    BY <2>2, RowsFinite, FS_Subset, SumType DEF RefundedOn
  <2> QED
    BY <1>1, <1>2, <2>1, <2>3 DEF Refundable
<1>6. /\ payment'[p].amount = payment[p].amount /\ payment'[p].status = "paid"
      /\ payment'[p].refundedAt <=> payment[p].refundedAt \/ Full(p, n)
      /\ \A q \in Payment \ {p} : payment'[q] = payment[q]
  <2>1. payment \in [Payment -> PaymentRow]
    BY DEF Inv, TypeOK
  <2>2. payment' = [payment EXCEPT ![p].refundedAt = @ \/ Full(p, n)]
    BY DEF RecordRefund
  <2>3. /\ payment'[p] = [payment[p] EXCEPT !.refundedAt = payment[p].refundedAt \/ Full(p, n)]
        /\ \A q \in Payment \ {p} : payment'[q] = payment[q]
    BY <2>1, <2>2
  <2>4. \A r \in PaymentRow : \A b : LET w == [r EXCEPT !.refundedAt = b] IN
          w.amount = r.amount /\ w.status = r.status /\ w.refundedAt = b
    BY DEF PaymentRow
  <2>5. /\ payment'[p].amount = payment[p].amount /\ payment'[p].status = payment[p].status
        /\ payment'[p].refundedAt = (payment[p].refundedAt \/ Full(p, n))
    BY <2>1, <2>3, <2>4
  <2> QED
    BY <1>5, <2>3, <2>5
<1>7. \A q \in Payment : payment'[q].status # "absent" =>
        /\ payment'[q].amount > 0
        /\ payment'[q].refundedAt <=> RefundedOn(q)' = payment'[q].amount
  <2>1. payment[p].amount > 0 /\ ~payment[p].refundedAt
    BY <1>2, <1>5 DEF Stamps
  <2>2. payment'[p].refundedAt <=> RefundedOn(p)' = payment'[p].amount
    BY <1>4, <1>6, <2>1 DEF Full
  <2> QED
    BY <1>4, <1>6, <2>1, <2>2 DEF Stamps
<1>8. \A q \in Order : Due(q)' = Due(q)
  BY RefundPosts, DueStays DEF Inv
<1> QED
  BY <1>1, <1>7, <1>8 DEF Stamps

LEMMA StampSuccess ==
  ASSUME Inv, Stamps, RowsKept, NEW a \in Attempt, PaytrCallbackSuccess(a)
  PROVE  Stamps'
<1>1. PICK o : o = payment[a].order
  OBVIOUS
<1>2. /\ refund' = refund /\ starting' = starting /\ ~starting[o].open
      /\ a \in Payment /\ StatusWrite(a, "paid") /\ payment[a].status # "absent"
  BY <1>1 DEF PaytrCallbackSuccess, Unlocked, StatusWrite, Payment, Inv, Structure, AttemptsExist
<1>3. \A p \in Payment : KeepsStamp(p)
  BY <1>2, StatusKeepsStamp DEF Inv
<1>4. \A q \in Order \ {o} : Due(q)' = Due(q)
  BY <1>1, SuccessPosts, DueStays DEF Inv
<1> QED
  BY <1>2, <1>3, <1>4, StampsStay DEF Stamps

(* Steps that post no money: an opening transaction among them. *)
LEMMA StampRest ==
  ASSUME Inv, Stamps, RowsKept,
         \/ \E o \in Order : StartStep(o)
         \/ \E a \in Attempt : \/ AttemptStep(a) \/ ProviderStep(a)
                               \/ PaytrCallbackFailed(a) \/ PaytrCallbackMismatch(a)
         \/ \E o \in Order, next \in OrderStatus : TransitionOrder(o, next)
         \/ UNCHANGED vars
  PROVE  Stamps'
<1>1. NothingPaidBut({}) /\ refund' = refund
  <2>1. CASE \E o \in Order, next \in OrderStatus : TransitionOrder(o, next)
    BY <2>1 DEF TransitionOrder, ledger, NothingPaidBut
  <2> QED
    BY <2>1, StepsThatPostNothing DEF PostsNothing, Inv
<1>2. \A o : Due(o)' = Due(o)
  BY <1>1, CollectedStays, DueStays
<1>3. ASSUME NEW o \in Order, NEW a \in Attempt, StartPaytrCommit(o, a) PROVE Stamps'
  <2>1. /\ Opens(a, o, Due(o), "pending")
        /\ \A p \in starting[o].seen : Moves(p, {"pending", "failed"}, "cancelled")
        /\ \A p \in Payment \ ({a} \cup starting[o].seen) : payment'[p] = payment[p]
        /\ a \notin starting[o].seen /\ starting[o].seen \subseteq Attempt
    BY <1>3, StartPaytrCommitRows DEF Inv
  <2>2. starting[o].open /\ Due(o) > 0
    BY <1>3 DEF StartPaytrCommit, Stamps
  <2>3. KeepsStamp(a)
    BY <2>1, <2>2 DEF Opens, KeepsStamp, NoRow
  <2>4. ASSUME NEW p \in starting[o].seen PROVE KeepsStamp(p)
    <3>1. p \in Payment /\ p # a /\ payment[p] \in PaymentRow
      BY <2>1 DEF Inv, TypeOK, Payment
    <3>2. payment'[p] = [payment[p] EXCEPT !.status = "cancelled"]
      BY <1>3, <3>1 DEF StartPaytrCommit, Superseded
    <3>3. payment'[p].amount = payment[p].amount /\ payment'[p].refundedAt = payment[p].refundedAt
      BY <3>1, <3>2 DEF PaymentRow
    <3> QED
      BY <2>1, <3>3 DEF KeepsStamp, Moves
  <2>5. \A p \in Payment : KeepsStamp(p)
    BY <2>1, <2>3, <2>4 DEF KeepsStamp
  <2>6. starting' = [starting EXCEPT ![o] = Idle] /\ ~Idle.open
    BY <1>3 DEF StartPaytrCommit, Idle
  <2>7. \A q \in Order : starting'[q].open => starting[q].open
    BY <2>6 DEF Inv, TypeOK
  <2> QED
    BY <1>1, <1>2, <2>5, <2>7, StampsStay DEF Stamps
<1>4. ASSUME NEW a \in Attempt, TokenRefused(a) \/ PaytrCallbackFailed(a) PROVE Stamps'
  <2>1. starting' = starting /\ a \in Payment
    BY <1>4 DEF TokenRefused, PaytrCallbackFailed, Payment
  <2>2. \/ payment' = payment
        \/ StatusWrite(a, "failed") /\ payment[a].status # "absent"
    BY <1>4 DEF TokenRefused, PaytrCallbackFailed, StatusWrite, Inv, Structure, AttemptsExist
  <2>3. \A p \in Payment : KeepsStamp(p)
    BY <2>1, <2>2, StatusKeepsStamp DEF KeepsStamp, Inv
  <2> QED
    BY <1>1, <1>2, <2>1, <2>3, StampsStay DEF Stamps
<1>5. ASSUME payment' = payment, \A o \in Order : starting'[o].open => starting[o].open \/ Due(o) > 0
      PROVE  Stamps'
  <2>1. \A p \in Payment : KeepsStamp(p)
    BY <1>5 DEF KeepsStamp
  <2> QED
    BY <1>1, <1>2, <1>5, <2>1, StampsStay DEF Stamps
<1>6. ASSUME NEW o \in Order, StartPaytrRead(o) \/ StartPaytrAbort(o)
      PROVE  payment' = payment /\ \A q \in Order : starting'[q].open => starting[q].open \/ Due(q) > 0
  BY <1>6 DEF StartPaytrRead, StartPaytrAbort, Idle, ledger, Inv, TypeOK
<1>7. ASSUME NEW a \in Attempt, \/ StoreToken(a) \/ RequestLost(a) \/ TokenExpires(a) \/ InFlightElapses(a)
                                \/ ProviderStep(a) \/ PaytrCallbackMismatch(a)
      PROVE  payment' = payment /\ starting' = starting
  BY <1>7 DEF StoreToken, RequestLost, TokenExpires, InFlightElapses, ProviderStep, Charge, Decline,
     PaytrCallbackMismatch, ledger
<1>8. ASSUME \/ \E o \in Order, next \in OrderStatus : TransitionOrder(o, next)
             \/ UNCHANGED vars
      PROVE  payment' = payment /\ starting' = starting
  BY <1>8 DEF TransitionOrder, ledger, vars
<1> QED
  BY <1>3, <1>4, <1>5, <1>6, <1>7, <1>8 DEF StartStep, AttemptStep

(* refunded_at tells of every paid row whether all of it has gone back. *)
THEOREM StampTellsTheTruth == Spec => []FullRefundStamped
<1>1. Init => Stamps
  BY DEF Init, Stamps, NoRow, Idle
<1>2. Inv /\ Stamps /\ [Next]_vars => Stamps'
  <2> SUFFICES ASSUME Inv, Stamps, [Next]_vars PROVE Stamps'
    OBVIOUS
  <2>1. RowsKept
    BY NextStructure DEF Inv
  <2> QED
    BY <2>1, StampManualPayment, StampRefund, StampSuccess, StampRest DEF Next, OperatorStep, CallbackStep
<1>3. Stamps => FullRefundStamped
  BY DEF Stamps, FullRefundStamped
<1> QED
  BY <1>1, <1>2, <1>3, InvInductive, PTL DEF Spec

-----------------------------------------------------------------------------
(* The ledger implements CashBook *)

\* What CashBook sees of a step, for one order's step and all the others' rest.
Rest(o) ==
  \A q \in Order \ {o} :
    Collected(q)' = Collected(q) /\ Refunded(q)' = Refunded(q) /\ Stage(q)' = Stage(q)

SeesReceive(o) ==
  /\ Rest(o) /\ Collected(o)' > Collected(o) /\ Refunded(o)' = Refunded(o)
  /\ \/ Stage(o)' = Stage(o)
     \/ /\ Stage(o) = "unpaid" /\ Stage(o)' = "goods"
        /\ Collected(o)' - Refunded(o)' >= Total[o]

SeesGiveBack(o) ==
  /\ Rest(o) /\ Refunded(o)' > Refunded(o) /\ Refunded(o)' <= Collected(o)
  /\ Collected(o)' = Collected(o) /\ Stage(o)' = Stage(o)

SeesAccept(o) ==
  /\ Rest(o) /\ Stage(o) = "unpaid" /\ Stage(o)' = "goods"
  /\ Collected(o) - Refunded(o) >= Total[o] /\ Collected(o) > 0
  /\ Collected(o)' = Collected(o) /\ Refunded(o)' = Refunded(o)

SeesCallOff(o) ==
  /\ Rest(o) /\ Stage(o) # "off" /\ Stage(o)' = "off" /\ Collected(o) - Refunded(o) = 0
  /\ Collected(o)' = Collected(o) /\ Refunded(o)' = Refunded(o)

SeesNothing ==
  \A o \in Order :
    Collected(o)' = Collected(o) /\ Refunded(o)' = Refunded(o) /\ Stage(o)' = Stage(o)

Sees == SeesNothing \/ \E o \in Order :
          SeesReceive(o) \/ SeesGiveBack(o) \/ SeesAccept(o) \/ SeesCallOff(o)

(* The stage is a function of the order's status. *)
LEMMA StageOfStatus ==
  /\ \A o : /\ Stage(o) = "unpaid" <=> order[o].status = "pending_payment"
            /\ Stage(o) = "off" <=> order[o].status = "cancelled"
            /\ Stage(o) \in {"unpaid", "off", "goods"}
  /\ \A o : order'[o].status = order[o].status => Stage(o)' = Stage(o)
  /\ \A o : order'[o].status = "cancelled" => Stage(o)' = "off"
  /\ \A o : order'[o].status \notin {"pending_payment", "cancelled"} => Stage(o)' = "goods"
BY DEF Stage

NothingOwed == \A o \in Order : Refunded(o) <= Collected(o)

(* The refunds stay within the money collected, after a step too. *)
LEMMA GivesBackWhatCameIn == Inv' => NothingOwed'
<1>1. Inv => NothingOwed
  <2> SUFFICES ASSUME Inv, NEW o \in Order
               PROVE  Refunded(o) <= Collected(o)
    BY DEF NothingOwed
  <2>1. Refunded(o) <= ManualCollected(o) /\ ManualCollected(o) <= Collected(o)
    BY RefundedWithinCollected DEF Inv, MoneyInv, Structure
  <2> QED
    BY <2>1, SumsAreNumbers, ManualSumsAreNumbers
<1> QED
  BY <1>1, PTL

LEMMA TransitionSeen ==
  ASSUME Inv, [Next]_vars, NEW o \in Order, NEW next \in OrderStatus,
         TransitionOrder(o, next)
  PROVE  Sees
<1>1. /\ order'[o].status = next /\ \A q \in Order \ {o} : order'[q] = order[q]
      /\ order[o].status \in OrderStatus /\ next \in Transitions[order[o].status]
      /\ payment' = payment /\ refund' = refund
  BY OrderTransitioned DEF Inv
<1>2. RowsKept /\ NothingPaidBut({})
  BY <1>1, NextStructure DEF Inv, NothingPaidBut
<1>3. \A q : Collected(q)' = Collected(q) /\ Refunded(q)' = Refunded(q)
  BY <1>1, <1>2, CollectedStays, RefundedStays
<1>4. Rest(o)
  BY <1>1, <1>3, StageOfStatus DEF Rest
<1>5. order[o].status # "cancelled" /\ next # "pending_payment"
  BY <1>1, TransitionsFromTheEnds
<1>6. /\ Collected(o) \in Nat /\ Refunded(o) \in Nat /\ Total[o] \in Nat
      /\ Refunded(o) <= Collected(o)
  <2>1. Refunded(o) <= ManualCollected(o) /\ ManualCollected(o) <= Collected(o)
    BY RefundedWithinCollected DEF Inv, MoneyInv, Structure
  <2> QED
    BY <2>1, SumsAreNumbers, ManualSumsAreNumbers, LedgerAssumption, MaxAmountAssumption
<1>7. CASE next = "cancelled"
  <2>1. Collected(o) - Refunded(o) = 0
    BY <1>6, <1>7 DEF TransitionOrder, CancellationBlockedByCollection, NetCollected
  <2>2. SeesCallOff(o)
    BY <1>1, <1>3, <1>4, <1>5, <1>7, <2>1, StageOfStatus DEF SeesCallOff
  <2> QED
    BY <2>2 DEF Sees
<1>8. CASE next # "cancelled" /\ order[o].status = "pending_payment"
  <2>1. next = "paid"
    BY <1>1, <1>8, TransitionsFromTheEnds
  <2>2. Collected(o) - Refunded(o) >= Total[o] /\ Collected(o) > 0
    BY <2>1 DEF TransitionOrder, LedgerCoversOrder, NetCollected
  <2>3. SeesAccept(o)
    BY <1>1, <1>3, <1>4, <1>8, <2>1, <2>2, StageOfStatus DEF SeesAccept
  <2> QED
    BY <2>3 DEF Sees
<1>9. CASE next # "cancelled" /\ order[o].status # "pending_payment"
  <2>1. Stage(o)' = Stage(o)
    BY <1>1, <1>5, <1>9, StageOfStatus
  <2>2. SeesNothing
    BY <1>3, <1>4, <2>1 DEF SeesNothing, Rest
  <2> QED
    BY <2>2 DEF Sees
<1> QED
  BY <1>7, <1>8, <1>9

LEMMA SuccessSeen ==
  ASSUME Inv, [Next]_vars, NEW a \in Attempt, PaytrCallbackSuccess(a)
  PROVE  Sees
<1> SUFFICES ASSUME NEW o, o = payment[a].order, NEW n, n = payment[a].amount
             PROVE  Sees
  OBVIOUS
<1>1. RowsKept
  BY NextStructure DEF Inv
<1>2. /\ o \in Order /\ n \in Nat
      /\ Collected(o)' = Collected(o) + n
      /\ \A q \in Order \ {o} : Collected(q)' = Collected(q) /\ order'[q] = order[q]
      /\ \A q : Refunded(q)' = Refunded(q)
      /\ \/ order'[o].status = order[o].status
         \/ /\ order[o].status = "pending_payment" /\ order'[o].status = "paid"
            /\ LedgerCoversOrder(Total[o], Collected(o) + n, Refunded(o))
  BY <1>1, SuccessPosts DEF Inv
<1>3. Rest(o)
  BY <1>2, StageOfStatus DEF Rest
<1>4. Collected(o) \in Nat /\ Refunded(o) \in Nat
  BY SumsAreNumbers
<1>5. CASE n > 0
  <2>1. SeesReceive(o)
    <3>1. CASE order'[o].status = order[o].status
      BY <1>2, <1>3, <1>4, <1>5, <3>1, StageOfStatus DEF SeesReceive
    <3>2. CASE order'[o].status # order[o].status
      BY <1>2, <1>3, <1>4, <1>5, <3>2, StageOfStatus
         DEF SeesReceive, LedgerCoversOrder, NetCollected
    <3> QED
      BY <3>1, <3>2
  <2> QED
    BY <1>2, <2>1 DEF Sees
<1>6. CASE n = 0
  <2>1. Collected(o)' = Collected(o)
    BY <1>2, <1>4, <1>6
  <2>2. CASE order'[o].status = order[o].status
    <3>1. SeesNothing
      BY <1>2, <1>3, <2>1, <2>2, StageOfStatus DEF SeesNothing, Rest
    <3> QED
      BY <3>1 DEF Sees
  <2>3. CASE order'[o].status # order[o].status
    <3>1. SeesAccept(o)
      BY <1>2, <1>3, <1>4, <1>6, <2>1, <2>3, StageOfStatus
         DEF SeesAccept, LedgerCoversOrder, NetCollected
    <3> QED
      BY <1>2, <3>1 DEF Sees
  <2> QED
    BY <2>2, <2>3
<1> QED
  BY <1>2, <1>5, <1>6

LEMMA StepSeen ==
  ASSUME Inv, Inv', [Next]_vars
  PROVE  Sees
<1>1. RowsKept
  BY NextStructure DEF Inv
<1>2. ASSUME NEW o \in Order, NEW k \in PaymentKey, NEW n \in Amount,
             RecordManualPayment(o, k, n)
      PROVE  Sees
  <2>1. /\ Collected(o)' = Collected(o) + n
        /\ \A q \in Order \ {o} : Collected(q)' = Collected(q) /\ order'[q] = order[q]
        /\ \A q : Refunded(q)' = Refunded(q)
        /\ order'[o].status = order[o].status
        /\ Collected(o) \in Nat /\ n \in Nat /\ n >= 1
    BY <1>1, <1>2, ManualPaymentPosts DEF Inv
  <2>2. Rest(o) /\ Stage(o)' = Stage(o)
    BY <2>1, StageOfStatus DEF Rest
  <2>3. SeesReceive(o)
    BY <2>1, <2>2 DEF SeesReceive
  <2> QED
    BY <2>3 DEF Sees
<1>3. ASSUME NEW o \in Order, NEW k \in RefundKey, NEW p \in Payment, NEW n \in Amount,
             RecordRefund(o, k, p, n)
      PROVE  Sees
  <2>1. /\ \A q : Collected(q)' = Collected(q) /\ ManualCollected(q)' = ManualCollected(q)
        /\ Refunded(o)' = Refunded(o) + n
        /\ \A q \in Order \ {o} : Refunded(q)' = Refunded(q) /\ order'[q] = order[q]
        /\ order'[o].status = order[o].status
        /\ n \in Nat /\ n >= 1
    BY <1>1, <1>3, RefundPosts DEF Inv
  <2>2. Rest(o) /\ Stage(o)' = Stage(o)
    BY <2>1, StageOfStatus DEF Rest
  <2>3. Refunded(o)' <= Collected(o)'
    BY GivesBackWhatCameIn DEF NothingOwed
  <2>4. SeesGiveBack(o)
    BY <2>1, <2>2, <2>3, SumsAreNumbers DEF SeesGiveBack
  <2> QED
    BY <2>4 DEF Sees
<1>4. ASSUME NEW o \in Order, OperatorStep(o)
      PROVE  Sees
  BY <1>2, <1>3, <1>4, TransitionSeen DEF OperatorStep
<1>5. CASE PostsNothing
  <2>1. \A o : Collected(o)' = Collected(o) /\ Refunded(o)' = Refunded(o)
    BY <1>1, <1>5, CollectedStays, RefundedStays DEF PostsNothing
  <2>2. \A o \in Order : Stage(o)' = Stage(o)
    BY <1>5, StageOfStatus DEF PostsNothing
  <2> QED
    BY <2>1, <2>2 DEF Sees, SeesNothing
<1> QED
  BY <1>4, <1>5, SuccessSeen, StepsThatPostNothing DEF Next, CallbackStep, Inv

(* What CashBook sees of a step is a step of CashBook, or nothing. *)
LEMMA SeenIsAStep ==
  ASSUME Sees
  PROVE  [Book!Next]_(Book!book)
<1>1. ASSUME NEW o \in Order, SeesReceive(o)
      PROVE  Book!Receive(o)
  BY <1>1 DEF SeesReceive, Rest, Book!Receive, Book!OnlyReceived, Book!Held
<1>2. ASSUME NEW o \in Order, SeesGiveBack(o)
      PROVE  Book!GiveBack(o)
  BY <1>2 DEF SeesGiveBack, Rest, Book!GiveBack, Book!OnlyReturned
<1>3. ASSUME NEW o \in Order, SeesAccept(o)
      PROVE  Book!Accept(o)
  BY <1>3 DEF SeesAccept, Rest, Book!Accept, Book!Held
<1>4. ASSUME NEW o \in Order, SeesCallOff(o)
      PROVE  Book!CallOff(o)
  BY <1>4 DEF SeesCallOff, Rest, Book!CallOff, Book!Held
<1>5. CASE SeesNothing
  BY <1>5 DEF SeesNothing, Book!book
<1> QED
  BY <1>1, <1>2, <1>3, <1>4, <1>5 DEF Sees, Book!Next

(* The payment tables, refunds, callbacks and lifecycle together keep the
   promises of CashBook: no money back that did not come in, no goods without
   the money, no sale called off while money is held. *)
THEOREM LedgerIsACashBook == Spec => ImplementsCashBook
<1>1. Init => Book!Init
  <2> SUFFICES ASSUME Init PROVE Book!Init
    OBVIOUS
  <2>1. \A o \in Order : PaidRows(o) = {} /\ RefundRows(o) = {}
    BY LedgerAssumption DEF Init, PaidRows, RefundRows, NoRow, NoRefund
  <2>2. \A o \in Order : Collected(o) = 0 /\ Refunded(o) = 0
    BY <2>1, SumEmpty DEF Collected, Refunded
  <2>3. \A o \in Order : Stage(o) = "unpaid"
    BY DEF Init, Stage
  <2> QED
    BY <2>2, <2>3 DEF Book!Init
<1>2. Inv /\ Inv' /\ [Next]_vars => [Book!Next]_(Book!book)
  BY StepSeen, SeenIsAStep
<1> QED
  BY <1>1, <1>2, InvInductive, PTL DEF Spec, Book!Spec, ImplementsCashBook

-----------------------------------------------------------------------------
(* Charges reach the books *)

\* An online row is paid only by a charge of its amount, and a mismatch is
\* marked for review.
PaidWasCharged ==
  \A a \in Attempt : payment[a].status = "paid" => charged[a] = "amount_due"

MismatchesMarked ==
  \A a \in Attempt : meta[a].failureCode = "AMOUNT_MISMATCH" => meta[a].reviewRequired

LEMMA ChargesStay ==
  ASSUME TypeOK, [Next]_vars, NEW a \in Attempt, charged[a] # "nothing"
  PROVE  charged'[a] = charged[a]
<1>1. ASSUME NEW b \in Attempt, NEW what, Charge(b, what) PROVE charged'[a] = charged[a]
  BY <1>1 DEF Charge, TypeOK
<1>2. ASSUME NEW o \in Order, OperatorStep(o) \/ StartStep(o) PROVE charged' = charged
  BY <1>2 DEF provider, OperatorStep, RecordManualPayment, RecordRefund, TransitionOrder,
     StartStep, StartPaytrRead, StartPaytrCommit, StartPaytrAbort
<1>3. ASSUME NEW b \in Attempt, AttemptStep(b) \/ CallbackStep(b) PROVE charged' = charged
  BY <1>3 DEF provider, AttemptStep, StoreToken, TokenRefused, RequestLost, TokenExpires,
     InFlightElapses, CallbackStep, PaytrCallbackFailed, PaytrCallbackMismatch,
     PaytrCallbackSuccess
<1>4. ASSUME NEW b \in Attempt, Decline(b) PROVE charged' = charged
  BY <1>4 DEF Decline
<1>5. UNCHANGED vars => charged' = charged
  BY DEF vars
<1> QED
  BY <1>1, <1>2, <1>3, <1>4, <1>5 DEF Next, ProviderStep

LEMMA PaidStep == Inv /\ PaidWasCharged /\ [Next]_vars => PaidWasCharged'
<1> SUFFICES ASSUME Inv, PaidWasCharged, [Next]_vars, NEW a \in Attempt, payment'[a].status = "paid"
             PROVE  charged'[a] = "amount_due"
  BY DEF PaidWasCharged
<1>1. charged[a] = "amount_due"
  <2>1. CASE PaytrCallbackSuccess(a)
    BY <2>1 DEF PaytrCallbackSuccess
  <2>2. CASE ~PaytrCallbackSuccess(a)
    BY <2>2, OthersBookNothing DEF PaidWasCharged
  <2> QED
    BY <2>1, <2>2
<1> QED
  BY <1>1, ChargesStay DEF Inv

\* Which step writes an attempt's failure code, and what.
CodeWritten(a) ==
  \/ /\ meta'[a].failureCode = meta[a].failureCode
     /\ meta'[a].reviewRequired = meta[a].reviewRequired
  \/ /\ meta'[a].failureCode = "SUPERSEDED"
     /\ \E o \in Order : a \in Superseded(o) /\ \E b \in Attempt : StartPaytrCommit(o, b)
  \/ meta'[a].failureCode = "TOKEN_REQUEST_FAILED" /\ TokenRefused(a)
  \/ meta'[a].failureCode = "FAILED" /\ PaytrCallbackFailed(a)
  \/ meta'[a].reviewRequired /\ PaytrCallbackMismatch(a)
  \/ meta'[a].failureCode = "none" /\ PaytrCallbackSuccess(a)

LEMMA CodesWritten ==
  ASSUME TypeOK, [Next]_vars, NEW a \in Attempt
  PROVE  CodeWritten(a)
<1>1. meta \in [Attempt -> Meta] /\ meta[a] \in Meta
  BY DEF TypeOK
<1>2. ASSUME meta'[a] = meta[a] PROVE CodeWritten(a)
  BY <1>2 DEF CodeWritten
<1>3. ASSUME NEW m \in Meta
      PROVE  /\ \A t : LET n == [m EXCEPT !.token = t] IN
                  n.failureCode = m.failureCode /\ n.reviewRequired = m.reviewRequired
             /\ LET n == [m EXCEPT !.inFlight = FALSE] IN
                  n.failureCode = m.failureCode /\ n.reviewRequired = m.reviewRequired
             /\ \A c : [m EXCEPT !.failureCode = c].failureCode = c
             /\ \A b : [m EXCEPT !.failureCode = "none", !.reviewRequired = b].failureCode = "none"
             /\ [m EXCEPT !.failureCode = "AMOUNT_MISMATCH", !.reviewRequired = TRUE].reviewRequired
  BY DEF Meta
<1>4. ASSUME NEW o \in Order, OperatorStep(o) \/ StartStep(o) PROVE CodeWritten(a)
  <2>1. ASSUME NEW b \in Attempt, StartPaytrCommit(o, b) PROVE CodeWritten(a)
    <3>1. \/ meta'[a] = meta[a]
          \/ a \in Superseded(o) /\ meta'[a] = [meta[a] EXCEPT !.failureCode = "SUPERSEDED"]
      BY <2>1 DEF StartPaytrCommit
    <3>2. [meta[a] EXCEPT !.failureCode = "SUPERSEDED"].failureCode = "SUPERSEDED"
      BY <1>1, <1>3
    <3> QED
      BY <1>2, <2>1, <3>1, <3>2 DEF CodeWritten
  <2>2. \/ meta' = meta
        \/ \E b \in Attempt : StartPaytrCommit(o, b)
    BY <1>4 DEF OperatorStep, RecordManualPayment, RecordRefund, TransitionOrder,
       StartStep, StartPaytrRead, StartPaytrAbort
  <2> QED
    BY <1>2, <2>1, <2>2
<1>5. ASSUME NEW b \in Attempt, AttemptStep(b) PROVE CodeWritten(a)
  <2>1. CASE StoreToken(b) \/ TokenExpires(b)
    <3>1. meta'[a] = meta[a] \/ \E t \in {"live", "expired"} : meta'[a] = [meta[a] EXCEPT !.token = t]
      <4>1. CASE StoreToken(b)
        BY <1>1, <4>1 DEF StoreToken
      <4>2. CASE TokenExpires(b)
        BY <1>1, <4>2 DEF TokenExpires
      <4> QED
        BY <2>1, <4>1, <4>2
    <3>2. ASSUME NEW t, meta'[a] = [meta[a] EXCEPT !.token = t] PROVE CodeWritten(a)
      <4>1. /\ meta'[a].failureCode = meta[a].failureCode
            /\ meta'[a].reviewRequired = meta[a].reviewRequired
        <5> DEFINE n == [meta[a] EXCEPT !.token = t]
        <5>1. n.failureCode = meta[a].failureCode /\ n.reviewRequired = meta[a].reviewRequired
          BY <1>1, <1>3, Zenon
        <5> QED
          BY <3>2, <5>1, Zenon
      <4> QED
        BY <4>1, Zenon DEF CodeWritten
    <3> QED
      BY <1>2, <3>1, <3>2
  <2>2. CASE TokenRefused(b)
    <3>1. \/ meta'[a] = meta[a]
          \/ a = b /\ meta'[a] = [meta[a] EXCEPT !.failureCode = "TOKEN_REQUEST_FAILED"]
      BY <1>1, <2>2 DEF TokenRefused
    <3>2. [meta[a] EXCEPT !.failureCode = "TOKEN_REQUEST_FAILED"].failureCode = "TOKEN_REQUEST_FAILED"
      BY <1>1, <1>3
    <3> QED
      BY <1>2, <2>2, <3>1, <3>2 DEF CodeWritten
  <2>3. CASE RequestLost(b)
    BY <1>2, <2>3 DEF RequestLost
  <2>4. CASE InFlightElapses(b)
    <3>1. meta'[a] = meta[a] \/ meta'[a] = [meta[a] EXCEPT !.inFlight = FALSE]
      BY <1>1, <2>4 DEF InFlightElapses
    <3>2. ASSUME meta'[a] = [meta[a] EXCEPT !.inFlight = FALSE] PROVE CodeWritten(a)
      <4>1. /\ meta'[a].failureCode = meta[a].failureCode
            /\ meta'[a].reviewRequired = meta[a].reviewRequired
        BY <1>1, <1>3, <3>2, Zenon
      <4> QED
        BY <4>1, Zenon DEF CodeWritten
    <3> QED
      BY <1>2, <3>1, <3>2
  <2> QED
    BY <1>5, <2>1, <2>2, <2>3, <2>4 DEF AttemptStep
<1>6. ASSUME NEW b \in Attempt, ProviderStep(b) PROVE CodeWritten(a)
  BY <1>2, <1>6 DEF ProviderStep, Charge, Decline
<1>7. ASSUME NEW b \in Attempt, CallbackStep(b) PROVE CodeWritten(a)
  <2>1. CASE PaytrCallbackFailed(b)
    <3>1. \/ meta'[a] = meta[a]
          \/ a = b /\ meta'[a] = [meta[a] EXCEPT !.failureCode = "FAILED"]
      BY <1>1, <2>1 DEF PaytrCallbackFailed
    <3>2. [meta[a] EXCEPT !.failureCode = "FAILED"].failureCode = "FAILED"
      BY <1>1, <1>3
    <3> QED
      BY <1>2, <2>1, <3>1, <3>2 DEF CodeWritten
  <2>2. CASE PaytrCallbackMismatch(b)
    <3>1. \/ meta'[a] = meta[a]
          \/ /\ a = b
             /\ meta'[a] = [meta[a] EXCEPT !.failureCode = "AMOUNT_MISMATCH", !.reviewRequired = TRUE]
      BY <1>1, <2>2 DEF PaytrCallbackMismatch
    <3>2. [meta[a] EXCEPT !.failureCode = "AMOUNT_MISMATCH", !.reviewRequired = TRUE].reviewRequired
      BY <1>1, <1>3
    <3> QED
      BY <1>2, <2>2, <3>1, <3>2 DEF CodeWritten
  <2>3. CASE PaytrCallbackSuccess(b)
    <3>1. \/ meta'[a] = meta[a]
          \/ a = b /\ \E r : meta'[a] = [meta[a] EXCEPT !.failureCode = "none", !.reviewRequired = r]
      <4> DEFINE r == meta[b].reviewRequired \/ OverCollected(payment[b].order, b)
      <4>1. meta' = [meta EXCEPT ![b].failureCode = "none", ![b].reviewRequired = r]
        BY <2>3 DEF PaytrCallbackSuccess
      <4> HIDE DEF r
      <4> QED
        BY <1>1, <4>1
    <3>2. \A r : [meta[a] EXCEPT !.failureCode = "none", !.reviewRequired = r].failureCode = "none"
      BY <1>1, <1>3
    <3> QED
      BY <1>2, <2>3, <3>1, <3>2 DEF CodeWritten
  <2> QED
    BY <1>7, <2>1, <2>2, <2>3 DEF CallbackStep
<1>8. CASE UNCHANGED vars
  BY <1>2, <1>8 DEF vars
<1> QED
  BY <1>4, <1>5, <1>6, <1>7, <1>8 DEF Next

LEMMA MarkedStep == TypeOK /\ MismatchesMarked /\ [Next]_vars => MismatchesMarked'
<1> SUFFICES ASSUME TypeOK, MismatchesMarked, [Next]_vars, NEW a \in Attempt,
                    meta'[a].failureCode = "AMOUNT_MISMATCH"
             PROVE  meta'[a].reviewRequired
  BY DEF MismatchesMarked
<1> QED
  BY CodesWritten DEF CodeWritten, MismatchesMarked

ChargeInv == Inv /\ PaidWasCharged /\ MismatchesMarked

LEMMA ChargeInvHolds == Spec => []ChargeInv
<1>1. Init => PaidWasCharged /\ MismatchesMarked
  BY DEF Init, PaidWasCharged, MismatchesMarked, NoRow, NewMeta, Payment
<1>2. Inv /\ PaidWasCharged /\ MismatchesMarked /\ [Next]_vars => PaidWasCharged' /\ MismatchesMarked'
  BY PaidStep, MarkedStep DEF Inv
<1> QED
  BY <1>1, <1>2, InvInductive, PTL DEF Spec, ChargeInv

(* An attempt is booked as paid only when the card was charged its amount, and a
   charge of another amount is never booked, whatever callbacks come. *)
THEOREM PaidOnlyByItsCharge == Spec => []PaidWasCharged
BY ChargeInvHolds, PTL DEF ChargeInv

\* When the success notification, and that of another amount, can be booked.
CanSucceed(a) == /\ charged[a] = "amount_due"
                 /\ Unlocked(payment[a].order) /\ ~AlreadyPaid(a)

CanMismatch(a) == /\ charged[a] = "another_amount"
                  /\ Unlocked(payment[a].order) /\ ~AlreadyPaid(a)
                  /\ meta[a].failureCode # "AMOUNT_MISMATCH"

EndOfStart(o) == (\E a \in Attempt : StartPaytrCommit(o, a)) \/ StartPaytrAbort(o)

\* The fairness of OrderLedger, with the guards in place of ENABLED.
TransactionEnds(o) == <>[](starting[o].open) => []<><<EndOfStart(o)>>_vars
SuccessGetsThrough(a) == []<>CanSucceed(a) => []<><<PaytrCallbackSuccess(a)>>_vars
MismatchGetsThrough(a) == []<>CanMismatch(a) => []<><<PaytrCallbackMismatch(a)>>_vars

ChargedFor(a, o, what) == charged[a] = what /\ payment[a].order = o

LEMMA ChargedKeepsOrder ==
  ASSUME NEW o \in Order, NEW a \in Attempt, NEW what \in {"amount_due", "another_amount"},
         ChargeInv, ChargedFor(a, o, what), [Next]_vars
  PROVE  ChargedFor(a, o, what)'
<1>1. charged'[a] = charged[a] /\ RowsKept
  BY ChargesStay, NextStructure DEF ChargeInv, Inv, ChargedFor
<1>2. payment[a].status # "absent" /\ a \in Payment
  BY DEF ChargeInv, Inv, Structure, AttemptsExist, ChargedFor, Payment
<1> QED
  BY <1>1, <1>2 DEF RowsKept, SameMoney, ChargedFor

LEMMA EndUnlocks ==
  ASSUME TypeOK, NEW o \in Order, <<EndOfStart(o)>>_vars
  PROVE  ~starting'[o].open
BY DEF EndOfStart, StartPaytrCommit, StartPaytrAbort, Idle, TypeOK

(* Whatever tabs, restarts and other callbacks do meanwhile, a charge of the
   amount due is booked: PayTR repeats its notification, and every lock it has
   to wait for is given back. *)
THEOREM ChargesAreBooked ==
  ASSUME NEW o \in Order, NEW a \in Attempt
  PROVE  Spec /\ TransactionEnds(o) /\ SuccessGetsThrough(a) =>
           (ChargedFor(a, o, "amount_due") ~> payment[a].status = "paid")
<1> DEFINE P == ChargedFor(a, o, "amount_due")
           Q == payment[a].status = "paid"
           Locked == starting[o].open
<1>1. ChargeInv /\ P /\ [Next]_vars => P'
  BY ChargedKeepsOrder
<1>2. P /\ ~Q /\ ~Locked => CanSucceed(a)
  BY DEF ChargedFor, CanSucceed, Unlocked, AlreadyPaid
<1>3. ChargeInv /\ <<EndOfStart(o)>>_vars => ~Locked'
  BY EndUnlocks DEF ChargeInv, Inv
<1>4. ChargeInv /\ <<PaytrCallbackSuccess(a)>>_vars => Q'
  BY StatusWritten DEF PaytrCallbackSuccess, StatusWrite, ChargeInv, Inv, TypeOK, Payment
<1> HIDE DEF P, Q, Locked
<1>5. Spec /\ (<>[]Locked => []<><<EndOfStart(o)>>_vars) /\ SuccessGetsThrough(a) => (P ~> Q)
  BY <1>1, <1>2, <1>3, <1>4, ChargeInvHolds, PTL DEF Spec, SuccessGetsThrough
<1> QED
  BY <1>5 DEF TransactionEnds, P, Q, Locked

(* And a charge of another amount is marked for review. *)
THEOREM MismatchesAreReviewed ==
  ASSUME NEW o \in Order, NEW a \in Attempt
  PROVE  Spec /\ TransactionEnds(o) /\ MismatchGetsThrough(a) =>
           (ChargedFor(a, o, "another_amount") ~> meta[a].reviewRequired)
<1> DEFINE P == ChargedFor(a, o, "another_amount")
           Q == meta[a].reviewRequired
           Locked == starting[o].open
<1>1. ChargeInv /\ P /\ [Next]_vars => P'
  BY ChargedKeepsOrder
<1>2. ChargeInv /\ P /\ ~Q /\ ~Locked => CanMismatch(a)
  BY DEF ChargedFor, CanMismatch, Unlocked, AlreadyPaid, ChargeInv, PaidWasCharged, MismatchesMarked
<1>3. ChargeInv /\ <<EndOfStart(o)>>_vars => ~Locked'
  BY EndUnlocks DEF ChargeInv, Inv
<1>4. ChargeInv /\ <<PaytrCallbackMismatch(a)>>_vars => Q'
  <2> SUFFICES ASSUME ChargeInv, PaytrCallbackMismatch(a) PROVE meta'[a].reviewRequired
    OBVIOUS
  <2>1. meta \in [Attempt -> Meta]
    BY DEF ChargeInv, Inv, TypeOK
  <2>2. meta'[a] = [meta[a] EXCEPT !.failureCode = "AMOUNT_MISMATCH", !.reviewRequired = TRUE]
    BY <2>1 DEF PaytrCallbackMismatch
  <2> QED
    BY <2>1, <2>2, MetaKeepsReview
<1> HIDE DEF P, Q, Locked
<1>5. Spec /\ (<>[]Locked => []<><<EndOfStart(o)>>_vars) /\ MismatchGetsThrough(a) => (P ~> Q)
  BY <1>1, <1>2, <1>3, <1>4, ChargeInvHolds, PTL DEF Spec, MismatchGetsThrough
<1> QED
  BY <1>5 DEF TransactionEnds, P, Q, Locked

-----------------------------------------------------------------------------
(* When a mismatch is flagged twice *)

\* The page of a charge came from PayTR's answer, so nobody waits for it still.
PageAnswered ==
  \A a \in Attempt :
    /\ a \in iframe => request[a] = "over"
    /\ charged[a] # "nothing" => a \in iframe

FlaggedOnce ==
  \A a \in Attempt : audits[a].mismatch # 0 =>
    /\ audits[a].mismatch = 1
    /\ meta[a].failureCode = "AMOUNT_MISMATCH"
    /\ charged[a] = "another_amount"

\* The two writes that forget that an attempt has been flagged.
MarkErased(a) ==
  /\ meta[a].failureCode = "AMOUNT_MISMATCH"
  /\ \/ PaytrCallbackFailed(a)
     \/ \E o \in Order : a \in Superseded(o) /\ \E b \in Attempt : StartPaytrCommit(o, b)

MarksStay == [][\A a \in Attempt : ~MarkErased(a)]_vars

LEMMA AnsweredStep == Inv /\ PageAnswered /\ [Next]_vars => PageAnswered'
<1> SUFFICES ASSUME Inv, PageAnswered, [Next]_vars, NEW a \in Attempt
             PROVE  /\ a \in iframe' => request'[a] = "over"
                    /\ charged'[a] # "nothing" => a \in iframe'
  BY DEF PageAnswered
<1>1. /\ request \in [Attempt -> {"none", "asked", "over"}] /\ iframe \in SUBSET Attempt
      /\ charged \in [Attempt -> {"nothing", "amount_due", "another_amount"}]
      /\ payment[a].status = "absent" => a \notin iframe /\ charged[a] = "nothing"
  BY DEF Inv, TypeOK, Structure, AttemptsExist, Payment
<1>2. /\ a \in iframe => request[a] = "over"
      /\ charged[a] # "nothing" => a \in iframe
  BY DEF PageAnswered
<1>3. ASSUME NEW o \in Order, NEW b \in Attempt, StartPaytrCommit(o, b)
      PROVE  /\ a \in iframe' => request'[a] = "over"
             /\ charged'[a] # "nothing" => a \in iframe'
  BY <1>1, <1>2, <1>3 DEF StartPaytrCommit, provider
<1>4. ASSUME NEW b \in Attempt, StoreToken(b) \/ TokenRefused(b) \/ RequestLost(b)
      PROVE  /\ a \in iframe' => request'[a] = "over"
             /\ charged'[a] # "nothing" => a \in iframe'
  BY <1>1, <1>2, <1>4 DEF StoreToken, TokenRefused, RequestLost, provider
<1>5. ASSUME NEW b \in Attempt, NEW what, Charge(b, what)
      PROVE  /\ a \in iframe' => request'[a] = "over"
             /\ charged'[a] # "nothing" => a \in iframe'
  BY <1>1, <1>2, <1>5 DEF Charge
<1>6. ASSUME UNCHANGED <<request, iframe, charged>>
      PROVE  /\ a \in iframe' => request'[a] = "over"
             /\ charged'[a] # "nothing" => a \in iframe'
  BY <1>2, <1>6
<1>7. ASSUME NEW o \in Order, OperatorStep(o) \/ StartPaytrRead(o) \/ StartPaytrAbort(o)
      PROVE  UNCHANGED <<request, iframe, charged>>
  BY <1>7 DEF OperatorStep, RecordManualPayment, RecordRefund, TransitionOrder,
     StartPaytrRead, StartPaytrAbort, provider
<1>8. ASSUME NEW b \in Attempt,
             TokenExpires(b) \/ InFlightElapses(b) \/ Decline(b) \/ CallbackStep(b)
      PROVE  UNCHANGED <<request, iframe, charged>>
  BY <1>8 DEF TokenExpires, InFlightElapses, Decline, CallbackStep, PaytrCallbackFailed,
     PaytrCallbackMismatch, PaytrCallbackSuccess, provider
<1>9. UNCHANGED vars => UNCHANGED <<request, iframe, charged>>
  BY DEF vars, provider
<1> QED
  BY <1>3, <1>4, <1>5, <1>6, <1>7, <1>8, <1>9 DEF Next, StartStep, AttemptStep, ProviderStep

\* Who audits a mismatch.
LEMMA MismatchWritten ==
  ASSUME TypeOK, [Next]_vars, NEW a \in Attempt
  PROVE  \/ audits'[a].mismatch = audits[a].mismatch
         \/ PaytrCallbackMismatch(a) /\ audits'[a].mismatch = audits[a].mismatch + 1
<1>1. audits \in [Attempt -> AuditRows] /\ audits[a] \in AuditRows
  BY DEF TypeOK
<1>2. /\ \A n : [audits[a] EXCEPT !.success = n].mismatch = audits[a].mismatch
      /\ \A n : [audits[a] EXCEPT !.mismatch = n].mismatch = n
  BY <1>1 DEF AuditRows
<1>3. ASSUME NEW b \in Attempt, PaytrCallbackSuccess(b)
      PROVE  audits'[a].mismatch = audits[a].mismatch
  <2>1. audits'[a] = audits[a] \/ \E n : audits'[a] = [audits[a] EXCEPT !.success = n]
    BY <1>1, <1>3 DEF PaytrCallbackSuccess
  <2> QED
    BY <1>2, <2>1
<1>4. ASSUME NEW b \in Attempt, PaytrCallbackMismatch(b)
      PROVE  \/ audits'[a].mismatch = audits[a].mismatch
             \/ PaytrCallbackMismatch(a) /\ audits'[a].mismatch = audits[a].mismatch + 1
  <2>1. \/ audits'[a] = audits[a]
        \/ a = b /\ audits'[a] = [audits[a] EXCEPT !.mismatch = audits[a].mismatch + 1]
    BY <1>1, <1>4 DEF PaytrCallbackMismatch
  <2> QED
    BY <1>2, <1>4, <2>1
<1>5. ASSUME NEW o \in Order, OperatorStep(o) \/ StartStep(o) PROVE audits' = audits
  BY <1>5 DEF OperatorStep, RecordManualPayment, RecordRefund, TransitionOrder,
     StartStep, StartPaytrRead, StartPaytrCommit, StartPaytrAbort
<1>6. ASSUME NEW b \in Attempt, AttemptStep(b) \/ ProviderStep(b) \/ PaytrCallbackFailed(b)
      PROVE  audits' = audits
  BY <1>6 DEF AttemptStep, StoreToken, TokenRefused, RequestLost, TokenExpires,
     InFlightElapses, ProviderStep, Charge, Decline, PaytrCallbackFailed
<1>7. UNCHANGED vars => audits' = audits
  BY DEF vars
<1> QED
  BY <1>3, <1>4, <1>5, <1>6, <1>7 DEF Next, CallbackStep

LEMMA FlaggedStep ==
  ASSUME Inv, PageAnswered, FlaggedOnce, [Next]_vars, [\A a \in Attempt : ~MarkErased(a)]_vars
  PROVE  FlaggedOnce'
<1> SUFFICES ASSUME NEW a \in Attempt, audits'[a].mismatch # 0
             PROVE  /\ audits'[a].mismatch = 1
                    /\ meta'[a].failureCode = "AMOUNT_MISMATCH"
                    /\ charged'[a] = "another_amount"
  BY DEF FlaggedOnce
<1>1. meta \in [Attempt -> Meta] /\ meta[a] \in Meta
  BY DEF Inv, TypeOK
<1>2. CASE PaytrCallbackMismatch(a)
  <2>1. meta'[a] = [meta[a] EXCEPT !.failureCode = "AMOUNT_MISMATCH", !.reviewRequired = TRUE]
    BY <1>1, <1>2 DEF PaytrCallbackMismatch
  <2>2. [meta[a] EXCEPT !.failureCode = "AMOUNT_MISMATCH", !.reviewRequired = TRUE].failureCode
          = "AMOUNT_MISMATCH"
    BY <1>1 DEF Meta
  <2>3. audits[a].mismatch = 0
    BY <1>2 DEF PaytrCallbackMismatch, FlaggedOnce
  <2>4. audits'[a].mismatch = 1
    BY <2>3, MismatchWritten DEF Inv
  <2>5. charged'[a] = "another_amount"
    BY <1>2 DEF PaytrCallbackMismatch, provider
  <2> QED
    BY <2>1, <2>2, <2>4, <2>5
<1>3. CASE ~PaytrCallbackMismatch(a)
  <2>1. audits'[a].mismatch = audits[a].mismatch
    BY <1>3, MismatchWritten DEF Inv
  <2>2. /\ audits[a].mismatch = 1
        /\ meta[a].failureCode = "AMOUNT_MISMATCH"
        /\ charged[a] = "another_amount"
    BY <2>1 DEF FlaggedOnce
  <2>3. charged'[a] = "another_amount"
    BY <2>2, ChargesStay DEF Inv
  \* Neither PayTR's answer about the page nor a success can come any more.
  <2>4. ~TokenRefused(a) /\ ~PaytrCallbackSuccess(a)
    BY <2>2 DEF PageAnswered, TokenRefused, PaytrCallbackSuccess
  <2>5. CASE UNCHANGED vars
    BY <2>1, <2>2, <2>5 DEF vars
  <2>6. CASE ~MarkErased(a)
    <3>1. meta'[a].failureCode = meta[a].failureCode
      BY <1>3, <2>2, <2>4, <2>6, CodesWritten DEF CodeWritten, MarkErased, Inv
    <3> QED
      BY <2>1, <2>2, <2>3, <3>1
  <2> QED
    BY <2>5, <2>6
<1> QED
  BY <1>2, <1>3

(* lib/paytr-db.ts flags a mismatch "once for review".  A failure notification
   that comes late, and a new payment page, erase the mark; these two writes are
   the only reasons why a mismatch is audited again. *)
THEOREM FlaggedAgainOnlyIfErased == Spec /\ MarksStay => []MismatchAuditedOnce
<1>1. Init => PageAnswered /\ FlaggedOnce
  BY DEF Init, PageAnswered, FlaggedOnce
<1>2. Inv /\ PageAnswered /\ [Next]_vars => PageAnswered'
  BY AnsweredStep
<1>3. Inv /\ PageAnswered /\ FlaggedOnce /\ [Next]_vars /\ [\A a \in Attempt : ~MarkErased(a)]_vars
        => FlaggedOnce'
  BY FlaggedStep
<1>4. FlaggedOnce => MismatchAuditedOnce
  BY DEF FlaggedOnce, MismatchAuditedOnce
<1> QED
  BY <1>1, <1>2, <1>3, <1>4, InvInductive, PTL DEF Spec, MarksStay
=============================================================================
