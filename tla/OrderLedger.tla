----------------------------- MODULE OrderLedger -----------------------------
(***************************************************************************)
(* The order, its payment ledger and the PayTR integration.                *)
(*                                                                         *)
(*   lib/finance.ts, lib/finance-db.ts   manual payments and refunds       *)
(*   lib/paytr-db.ts                     online attempts and callbacks     *)
(*   lib/order-transition*.ts            the order's lifecycle             *)
(*                                                                         *)
(* Every transaction first takes the order's row lock, so it is one step   *)
(* here, with two exceptions.  Starting an online payment reads the        *)
(* pending attempts, then writes them (StartPaytrRead, StartPaytrCommit),  *)
(* and its closing transaction (StoreToken, TokenRefused) locks only the   *)
(* payment row: it can fall between the two.  The request to PayTR runs    *)
(* between transactions and the process may die at any of these points.    *)
(*                                                                         *)
(* A refusal (stale screen, closed order, overpayment, reused key, replay) *)
(* writes nothing, so it is the absence of a step.                         *)
(***************************************************************************)
EXTENDS Money

CONSTANTS
  Order,        \* order ids
  Total,        \* Total[o]: orders.total, fixed when the order was placed
  PaymentKey,   \* Idempotency-Keys of manual payments; a key names its row
  RefundKey,    \* Idempotency-Keys of refunds; a key names its row
  Attempt,      \* online payment rows; one merchant_oid each
  NoOrder,      \* the order of a row that does not exist
  NoPayment     \* the payment of a refund that does not exist

ASSUME LedgerAssumption ==
  /\ IsFiniteSet(PaymentKey) /\ IsFiniteSet(RefundKey) /\ IsFiniteSet(Attempt)
  /\ PaymentKey \cap Attempt = {}
  /\ Total \in [Order -> 0..MaxAmount]
  /\ NoOrder \notin Order
  /\ NoPayment \notin PaymentKey \cup Attempt

Payment == PaymentKey \cup Attempt      \* rows of the payments table

VARIABLES
  order,        \* orders: status, payment_status and the records of its progress
  payment,      \* payments: the columns every provider shares
  meta,         \* payments.metadata of the online rows
  refund,       \* refunds
  starting,     \* the open transaction of startPaytrPayment, per order
  request,      \* the call to PayTR's token service, per attempt
  iframe,       \* attempts whose payment page a customer can open
  charged,      \* PayTR: what the card was charged for an attempt
  declined,     \* PayTR: attempts with a refused card
  audits        \* audit rows written by callbacks, per attempt

ledger == <<payment, refund>>
provider == <<iframe, charged, declined>>
vars == <<order, payment, meta, refund, starting, request, iframe, charged,
          declined, audits>>

-----------------------------------------------------------------------------
(* Columns and their values *)

OrderStatus == {"pending_payment", "paid", "preparing", "shipped", "delivery",
                "delivered", "installation", "completed", "cancelled",
                "returned", "service"}

OrderPaymentStatus == {"pending", "partially_paid", "paid", "failed",
                       "cancelled", "refunded", "partially_refunded"}

OrderRow == [status : OrderStatus, paymentStatus : OrderPaymentStatus,
             stock : {"reserved", "released"},
             shipments : Nat, installationJobs : Nat]

PaymentRow == [order : Order \cup {NoOrder}, amount : 0..MaxAmount,
               status : {"absent", "pending", "paid", "failed", "cancelled"},
               refundedAt : BOOLEAN]

NoRow == [order |-> NoOrder, amount |-> 0, status |-> "absent",
          refundedAt |-> FALSE]

Meta == [token : {"none", "live", "expired"},
         failureCode : {"none", "SUPERSEDED", "TOKEN_REQUEST_FAILED", "FAILED",
                        "AMOUNT_MISMATCH"},
         reviewRequired : BOOLEAN,
         inFlight : BOOLEAN]    \* created less than IN_FLIGHT_MS ago

NewMeta == [token |-> "none", failureCode |-> "none",
            reviewRequired |-> FALSE, inFlight |-> TRUE]

RefundRow == [order : Order \cup {NoOrder}, payment : Payment \cup {NoPayment},
              amount : 0..MaxAmount]

NoRefund == [order |-> NoOrder, payment |-> NoPayment, amount |-> 0]

AuditRows == [success : Nat, mismatch : Nat]

Idle == [open |-> FALSE, seen |-> {}]

-----------------------------------------------------------------------------
(* The ledger is only read through these sums *)

PaidRows(o) == {p \in Payment : payment[p].order = o /\ payment[p].status = "paid"}
RefundRows(o) == {k \in RefundKey : refund[k].order = o}
RefundRowsOn(p) == {k \in RefundKey : refund[k].payment = p}

PaymentAmount == [p \in Payment |-> payment[p].amount]
RefundAmount == [k \in RefundKey |-> refund[k].amount]

Collected(o) == SumOf(PaidRows(o), PaymentAmount)
Refunded(o) == SumOf(RefundRows(o), RefundAmount)
RefundedOn(p) == SumOf(RefundRowsOn(p), RefundAmount)

DerivePaymentStatus(total, status, collected, refunded) ==
  IF refunded > 0
  THEN IF refunded >= collected THEN "refunded" ELSE "partially_refunded"
  ELSE IF collected > 0
       THEN IF collected >= total THEN "paid" ELSE "partially_paid"
       ELSE IF status = "cancelled" THEN "cancelled" ELSE "pending"

\* The payment status an order gets from the ledger and its (next) status.
StatusBeforeTheStep(o, status, collected, refunded) ==    \* a fault
  DerivePaymentStatus(Total[o], order[o].status, collected, refunded)

LifecycleStatus(o, status, collected, refunded) == status    \* a fault

NextPayment(o, status, collected, refunded) ==
  DerivePaymentStatus(Total[o], status, collected, refunded)

NetCollected(collected, refunded) == collected - refunded

OutstandingAmount(total, collected) ==
  IF total > collected THEN total - collected ELSE 0

Due(o) == OutstandingAmount(Total[o], Collected(o))

AnyMoneyCoversOrder(total, collected, refunded) == collected > 0    \* a fault

LedgerCoversOrder(total, collected, refunded) ==
  NetCollected(collected, refunded) >= total /\ collected > 0

AnyRefundUnblocksCancellation(collected, refunded) ==    \* a fault
  collected > 0 /\ refunded = 0

CancellationBlockedByCollection(collected, refunded) ==
  NetCollected(collected, refunded) > 0

ClosedForPayment == {"cancelled", "returned"}

\* The order's row lock is free: no open startPaytrPayment transaction.
Unlocked(o) == ~starting[o].open

-----------------------------------------------------------------------------
(* A checked-out order: unpaid, nothing in the ledger, its stock reserved *)

Init ==
  /\ order = [o \in Order |-> [status |-> "pending_payment",
                               paymentStatus |-> "pending",
                               stock |-> "reserved",
                               shipments |-> 0, installationJobs |-> 0]]
  /\ payment = [p \in Payment |-> NoRow]
  /\ meta = [a \in Attempt |-> NewMeta]
  /\ refund = [k \in RefundKey |-> NoRefund]
  /\ starting = [o \in Order |-> Idle]
  /\ request = [a \in Attempt |-> "none"]
  /\ iframe = {}
  /\ charged = [a \in Attempt |-> "nothing"]
  /\ declined = {}
  /\ audits = [a \in Attempt |-> [success |-> 0, mismatch |-> 0]]

-----------------------------------------------------------------------------
(* Operators in the admin panel *)

RecordManualPayment(o, k, amount) ==
  /\ Unlocked(o)
  /\ payment[k].status = "absent"
  /\ order[o].status \notin ClosedForPayment
  /\ amount <= Due(o)
  /\ payment' = [payment EXCEPT ![k] = [order |-> o, amount |-> amount,
                                        status |-> "paid", refundedAt |-> FALSE]]
  /\ order' = [order EXCEPT ![o].paymentStatus =
                 NextPayment(o, order[o].status, Collected(o) + amount, Refunded(o))]
  /\ UNCHANGED <<meta, refund, starting, request, provider, audits>>

EachRefundAlone(p) ==    \* a fault
  IF payment[p].status = "paid" /\ p \in PaymentKey THEN payment[p].amount ELSE 0

\* What a payment row can still give back; an online row gives nothing.
Refundable(p) ==
  IF payment[p].status = "paid" /\ p \in PaymentKey
  THEN payment[p].amount - RefundedOn(p) ELSE 0

LastRefundInFull(p, amount) == amount = payment[p].amount    \* a fault

Full(p, amount) == RefundedOn(p) + amount = payment[p].amount

RecordRefund(o, k, p, amount) ==
  /\ Unlocked(o)
  /\ refund[k].order = NoOrder
  /\ payment[p].order = o
  /\ amount <= Refundable(p)
  /\ refund' = [refund EXCEPT ![k] = [order |-> o, payment |-> p, amount |-> amount]]
  /\ payment' = [payment EXCEPT ![p].refundedAt = @ \/ Full(p, amount)]
  /\ order' = [order EXCEPT ![o].paymentStatus =
                 NextPayment(o, order[o].status, Collected(o), Refunded(o)')]
  /\ UNCHANGED <<meta, starting, request, provider, audits>>

TransitionsBackFromService ==    \* a fault: goods back from service are delivered again
  [pending_payment |-> {"paid", "cancelled"},
   paid            |-> {"preparing", "cancelled", "service"},
   preparing       |-> {"shipped", "delivery", "cancelled", "service"},
   shipped         |-> {"delivered", "service"},
   delivery        |-> {"delivered", "service"},
   delivered       |-> {"installation", "completed", "returned", "service"},
   installation    |-> {"completed", "service"},
   completed       |-> {"returned", "service"},
   cancelled       |-> {},
   returned        |-> {"service"},
   service         |-> {"delivered", "completed"}]

Transitions ==
  [pending_payment |-> {"paid", "cancelled"},
   paid            |-> {"preparing", "cancelled", "service"},
   preparing       |-> {"shipped", "delivery", "cancelled", "service"},
   shipped         |-> {"delivered", "service"},
   delivery        |-> {"delivered", "service"},
   delivered       |-> {"installation", "completed", "returned", "service"},
   installation    |-> {"completed", "service"},
   completed       |-> {"returned", "service"},
   cancelled       |-> {},
   returned        |-> {"service"},
   service         |-> {"completed"}]

\* The operator's screen shows the current status (a stale one is refused);
\* a cancellation whose stock cannot be released rolls back.
TransitionOrder(o, next) ==
  /\ Unlocked(o)
  /\ next \in Transitions[order[o].status]
  /\ next = "paid" => LedgerCoversOrder(Total[o], Collected(o), Refunded(o))
  /\ next = "cancelled" => ~CancellationBlockedByCollection(Collected(o), Refunded(o))
  /\ order' = [order EXCEPT ![o] =
       [status |-> next,
        paymentStatus |-> NextPayment(o, next, Collected(o), Refunded(o)),
        stock |-> IF next = "cancelled" THEN "released" ELSE @.stock,
        shipments |-> IF next \in {"shipped", "delivery"}
                      THEN @.shipments + 1 ELSE @.shipments,
        installationJobs |-> IF next = "installation"
                             THEN @.installationJobs + 1 ELSE @.installationJobs]]
  /\ UNCHANGED <<ledger, meta, starting, request, provider, audits>>

-----------------------------------------------------------------------------
(* A customer starts an online payment *)

PendingAttempts(o) ==
  {a \in Attempt : payment[a].order = o /\ payment[a].status = "pending"}

\* A live page over the balance due: the customer gets it again.
Reusable(a, due) == meta[a].token = "live" /\ payment[a].amount = due

\* Another request is still waiting for its page.
InProgress(a) ==
  meta[a].token = "none" /\ meta[a].failureCode = "none" /\ meta[a].inFlight

\* The opening transaction up to its last read.  It holds the order's lock.
StartPaytrRead(o) ==
  /\ Unlocked(o)
  /\ order[o].status \notin {"cancelled", "returned"}
  /\ Due(o) > 0
  /\ \A a \in PendingAttempts(o) : ~Reusable(a, Due(o)) /\ ~InProgress(a)
  /\ starting' = [starting EXCEPT ![o] = [open |-> TRUE, seen |-> PendingAttempts(o)]]
  /\ UNCHANGED <<order, ledger, meta, request, provider, audits>>

OnlyLivePages(o) == {a \in starting[o].seen : meta[a].token = "live"}    \* a fault

Superseded(o) == starting[o].seen

\* Its writes: the attempts it saw are superseded by their ids alone, whatever
\* they have become, and a new attempt is asked for the balance due.
StartPaytrCommit(o, a) ==
  /\ starting[o].open
  /\ payment[a].status = "absent"
  /\ payment' = [p \in Payment |->
       IF p = a THEN [order |-> o, amount |-> Due(o), status |-> "pending",
                      refundedAt |-> FALSE]
       ELSE IF p \in Superseded(o) THEN [payment[p] EXCEPT !.status = "cancelled"]
       ELSE payment[p]]
  /\ meta' = [b \in Attempt |->
       IF b \in Superseded(o) THEN [meta[b] EXCEPT !.failureCode = "SUPERSEDED"]
       ELSE meta[b]]
  /\ starting' = [starting EXCEPT ![o] = Idle]
  /\ request' = [request EXCEPT ![a] = "asked"]
  /\ UNCHANGED <<order, refund, provider, audits>>

\* The process dies before the commit: the database rolls back.
StartPaytrAbort(o) ==
  /\ starting[o].open
  /\ starting' = [starting EXCEPT ![o] = Idle]
  /\ UNCHANGED <<order, ledger, meta, request, provider, audits>>

\* PayTR answered with a token.  The customer gets it even when the attempt has
\* been superseded meanwhile; it is stored only on a pending row.
StoreToken(a) ==
  /\ request[a] = "asked"
  /\ request' = [request EXCEPT ![a] = "over"]
  /\ iframe' = iframe \cup {a}
  /\ meta' = IF payment[a].status = "pending"
             THEN [meta EXCEPT ![a].token = "live"] ELSE meta
  /\ UNCHANGED <<order, ledger, starting, charged, declined, audits>>

\* PayTR refused, timed out or was unreachable.
TokenRefused(a) ==
  /\ request[a] = "asked"
  /\ request' = [request EXCEPT ![a] = "over"]
  /\ IF payment[a].status = "pending"
     THEN /\ payment' = [payment EXCEPT ![a].status = "failed"]
          /\ meta' = [meta EXCEPT ![a].failureCode = "TOKEN_REQUEST_FAILED"]
     ELSE UNCHANGED <<payment, meta>>
  /\ UNCHANGED <<order, refund, starting, provider, audits>>

\* The process dies while it waits for PayTR: the row stays as it is.
RequestLost(a) ==
  /\ request[a] = "asked"
  /\ request' = [request EXCEPT ![a] = "over"]
  /\ UNCHANGED <<order, ledger, meta, starting, provider, audits>>

\* Time passes for a pending attempt (nobody reads these fields of the others).
TokenExpires(a) ==
  /\ payment[a].status = "pending" /\ meta[a].token = "live"
  /\ meta' = [meta EXCEPT ![a].token = "expired"]
  /\ UNCHANGED <<order, ledger, starting, request, provider, audits>>

InFlightElapses(a) ==
  /\ payment[a].status = "pending" /\ meta[a].inFlight
  /\ meta' = [meta EXCEPT ![a].inFlight = FALSE]
  /\ UNCHANGED <<order, ledger, starting, request, provider, audits>>

-----------------------------------------------------------------------------
(* PayTR: one charge at most for a merchant_oid, refused cards before it *)

Charge(a, what) ==
  /\ a \in iframe /\ charged[a] = "nothing"
  /\ charged' = [charged EXCEPT ![a] = what]
  /\ UNCHANGED <<order, ledger, meta, starting, request, iframe, declined, audits>>

Decline(a) ==
  /\ a \in iframe /\ charged[a] = "nothing"
  /\ declined' = declined \cup {a}
  /\ UNCHANGED <<order, ledger, meta, starting, request, iframe, charged, audits>>

-----------------------------------------------------------------------------
(* PayTR's callbacks.  It repeats a notification it has no "OK" for, so each *)
(* can arrive any number of times, late and in any order.                    *)

FailureRepeated(a) == payment[a].status = "failed"    \* a fault

\* A failure never overrides a confirmed payment; a repeated one writes nothing.
FailureIgnored(a) == payment[a].status \in {"paid", "failed"}

PaytrCallbackFailed(a) ==
  LET o == payment[a].order IN
  /\ a \in declined /\ Unlocked(o)
  /\ ~FailureIgnored(a)
  /\ payment' = [payment EXCEPT ![a].status = "failed"]
  /\ meta' = [meta EXCEPT ![a].failureCode = "FAILED"]
  /\ UNCHANGED <<order, refund, starting, request, provider, audits>>

NeverPaid(a) == FALSE    \* a fault

NoLongerPending(a) == payment[a].status # "pending"    \* a fault

AlreadyPaid(a) == payment[a].status = "paid"

PaytrCallbackMismatch(a) ==
  LET o == payment[a].order IN
  /\ charged[a] = "another_amount" /\ Unlocked(o)
  /\ ~AlreadyPaid(a)
  /\ meta[a].failureCode # "AMOUNT_MISMATCH"
  /\ meta' = [meta EXCEPT ![a].failureCode = "AMOUNT_MISMATCH",
                          ![a].reviewRequired = TRUE]
  /\ audits' = [audits EXCEPT ![a].mismatch = @ + 1]
  /\ UNCHANGED <<order, ledger, starting, request, provider>>

OneRowAboveTotal(o, a) == payment[a].amount > Total[o]    \* a fault

OverCollected(o, a) == Collected(o) + payment[a].amount > Total[o]

PaytrCallbackSuccess(a) ==
  LET o == payment[a].order
      collectedAfter == Collected(o) + payment[a].amount
      advance == /\ order[o].status = "pending_payment"
                 /\ LedgerCoversOrder(Total[o], collectedAfter, Refunded(o))
  IN
  /\ charged[a] = "amount_due" /\ Unlocked(o)
  /\ ~AlreadyPaid(a)
  /\ payment' = [payment EXCEPT ![a].status = "paid"]
  /\ meta' = [meta EXCEPT ![a].failureCode = "none",
                          ![a].reviewRequired = @ \/ OverCollected(o, a)]
  /\ order' = [order EXCEPT
       ![o].status = IF advance THEN "paid" ELSE @,
       ![o].paymentStatus =
         NextPayment(o, order[o].status, collectedAfter, Refunded(o))]
  /\ audits' = [audits EXCEPT ![a].success = @ + 1]
  /\ UNCHANGED <<refund, starting, request, provider>>

-----------------------------------------------------------------------------
(* The specification *)

OperatorStep(o) ==
  \/ \E k \in PaymentKey, n \in Amount : RecordManualPayment(o, k, n)
  \/ \E k \in RefundKey, p \in Payment, n \in Amount : RecordRefund(o, k, p, n)
  \/ \E next \in OrderStatus : TransitionOrder(o, next)

StartStep(o) ==
  \/ StartPaytrRead(o)
  \/ \E a \in Attempt : StartPaytrCommit(o, a)
  \/ StartPaytrAbort(o)

AttemptStep(a) ==
  \/ StoreToken(a)
  \/ TokenRefused(a)
  \/ RequestLost(a)
  \/ TokenExpires(a)
  \/ InFlightElapses(a)

ProviderStep(a) ==
  \/ \E what \in {"amount_due", "another_amount"} : Charge(a, what)
  \/ Decline(a)

CallbackStep(a) ==
  \/ PaytrCallbackFailed(a)
  \/ PaytrCallbackMismatch(a)
  \/ PaytrCallbackSuccess(a)

Next ==
  \/ \E o \in Order : OperatorStep(o) \/ StartStep(o)
  \/ \E a \in Attempt : AttemptStep(a) \/ ProviderStep(a) \/ CallbackStep(a)

Spec == Init /\ [][Next]_vars

\* A transaction ends: its statements are short, and a dead client's is rolled
\* back.  PayTR repeats a notification until the shop answers OK, and a row
\* lock is granted in the order of its queue, so a callback that is possible
\* again and again gets through.
Fairness ==
  /\ \A o \in Order : WF_vars((\E a \in Attempt : StartPaytrCommit(o, a)) \/ StartPaytrAbort(o))
  /\ \A a \in Attempt : SF_vars(PaytrCallbackSuccess(a)) /\ SF_vars(PaytrCallbackMismatch(a))

FairSpec == Spec /\ Fairness

-----------------------------------------------------------------------------
(* What must hold *)

\* The variables keep their shapes.
TypeOK ==
  /\ order \in [Order -> OrderRow]
  /\ payment \in [Payment -> PaymentRow]
  /\ meta \in [Attempt -> Meta]
  /\ refund \in [RefundKey -> RefundRow]
  /\ starting \in [Order -> [open : BOOLEAN, seen : SUBSET Attempt]]
  /\ request \in [Attempt -> {"none", "asked", "over"}]
  /\ iframe \in SUBSET Attempt
  /\ charged \in [Attempt -> {"nothing", "amount_due", "another_amount"}]
  /\ declined \in SUBSET Attempt
  /\ audits \in [Attempt -> AuditRows]

\* orders.payment_status is a cache of the ledger (lib/finance.ts): whatever
\* writes the ledger or the status, the cache is what the rows say.
PaymentStatusCache ==
  \A o \in Order : order[o].paymentStatus =
    DerivePaymentStatus(Total[o], order[o].status, Collected(o), Refunded(o))

\* No payment gives back more than it brought in, however many refunds race.
RefundsWithinPayments == \A p \in Payment : RefundedOn(p) <= payment[p].amount

\* A refund belongs to a confirmed, manual payment of the same order: the
\* ledger never claims that a provider returned money.
RefundsAreBacked ==
  \A k \in RefundKey : refund[k].order # NoOrder =>
    /\ refund[k].payment \in PaymentKey
    /\ payment[refund[k].payment].status = "paid"
    /\ payment[refund[k].payment].order = refund[k].order

\* payments.refunded_at is set exactly on the rows that hold nothing any more.
FullRefundStamped ==
  \A p \in Payment : payment[p].status = "paid" =>
    (payment[p].refundedAt <=> RefundedOn(p) = payment[p].amount)

\* An order has one payment page at a time, although several customers' tabs
\* start payments, requests time out and their rows stay behind.
AtMostOnePending == \A o \in Order : Cardinality(PendingAttempts(o)) <= 1

\* More money than the order costs is never taken silently: an online row of
\* the order is marked for review.
OverCollectionFlagged ==
  \A o \in Order : Collected(o) > Total[o] =>
    \E a \in Attempt : a \in PaidRows(o) /\ meta[a].reviewRequired

\* Nothing is prepared, shipped, installed or returned before the ledger once
\* held the whole price.
FulfilmentWasPaid ==
  \A o \in Order : order[o].status \notin {"pending_payment", "cancelled"} =>
    Collected(o) >= Total[o] /\ Collected(o) > 0

\* The cash, transfers and card slips of a cancelled order have all been given
\* back: only an online charge can still be held (it cannot be refunded).
CancelledReturnedManualMoney ==
  \A o \in Order : order[o].status = "cancelled" =>
    SumOf(PaidRows(o) \cap PaymentKey, PaymentAmount) = Refunded(o)

\* A cancelled order, and no other, has released its stock; an order is
\* shipped once and installed once, also after a detour through service.
FulfilmentRecords ==
  \A o \in Order :
    /\ order[o].stock = "released" <=> order[o].status = "cancelled"
    /\ order[o].shipments <= 1
    /\ order[o].installationJobs <= 1

\* A success notification is booked and audited once, however often it comes,
\* and whether or not the attempt was superseded or had failed before.
SuccessBookedOnce ==
  \A a \in Attempt : audits[a].success = IF payment[a].status = "paid" THEN 1 ELSE 0

\* Money in the ledger stays there: a paid row keeps its order, amount and
\* status, and a refund row never changes.
BooksAreFinal ==
  [][/\ \A p \in Payment : payment[p].status = "paid" =>
          /\ payment'[p].status = "paid"
          /\ payment'[p].order = payment[p].order
          /\ payment'[p].amount = payment[p].amount
     /\ \A k \in RefundKey : refund[k].order # NoOrder => refund'[k] = refund[k]]_ledger

\* Whatever a card was charged ends up as collected money or marked for review.
ChargesReachTheBooks ==
  \A a \in Attempt :
    /\ charged[a] = "amount_due" ~> payment[a].status = "paid"
    /\ charged[a] = "another_amount" ~> meta[a].reviewRequired

\* The whole ledger keeps the promises of CashBook: its payment rows are money
\* received, its refund rows money given back, its lifecycle the sale's stage.
Stage(o) ==
  CASE order[o].status = "pending_payment" -> "unpaid"
    [] order[o].status = "cancelled" -> "off"
    [] OTHER -> "goods"

Book == INSTANCE CashBook WITH
  Price <- Total,
  received <- [o \in Order |-> Collected(o)],
  returned <- [o \in Order |-> Refunded(o)],
  stage <- [o \in Order |-> Stage(o)]

ImplementsCashBook == Book!Spec

-----------------------------------------------------------------------------
(* What a comment and a test of the repository say, and the code does not do *)

\* lib/paytr-db.ts: an amount mismatch is "flagged once for review"; the test
\* of it says "flagged and audited once".
MismatchAuditedOnce == \A a \in Attempt : audits[a].mismatch <= 1
=============================================================================
