# Verification of the Ege Teknik shop

The shop is a Next.js application over one PostgreSQL database. Its pages and most of its routes
read; what can go wrong is in the handful of transactions in which several people, and services
that retry, write the same rows. This directory models those transactions in TLA+, checks them
with TLC on small instances and proves the main results with TLAPS for instances of any size.
Paths below are relative to `src/`.

## 1. The system

| component | state | operations | talks to |
|---|---|---|---|
| Order ledger (`lib/finance*.ts`) | `payments`, `refunds`, `orders.payment_status` | record a manual payment, refund one, derive the payment status | lifecycle, PayTR, audit log |
| Order lifecycle (`lib/order-transition*.ts`) | `orders.status`, shipments, installation jobs | one guarded transition with its side records | ledger (sums), inventory (release) |
| PayTR (`lib/paytr*.ts`) | online rows of `payments`, their metadata | start an attempt (two transactions around an HTTP call), process a callback | PayTR, customers' browsers |
| Checkout (`app/api/orders/route.ts`) | `orders`, `order_items`, `inventory` | place an order once per Idempotency-Key | products, legal texts, outbox |
| Inventory and product operators (`app/api/admin/products`, the product and stock pages) | `products`, `inventory` | edit, archive, recount | checkout |
| Notification outbox (`lib/notifications`) | `notification_outbox`, send budget | enqueue in a savepoint, claim, send, finish, sweep, requeue | checkout, e-mail provider |
| Admin sessions (`lib/admin-session-rotation.ts`, `lib/admin-auth.ts`) | `admin_sessions`, the browser's cookie | log in, rotate with a grace window, log out, revoke all | governance |
| Governance (`lib/admin-auth.ts`, `lib/security-policy.ts`) | `admin_users`, invites, grants, reset links | change a role, deactivate, invite and accept, grant, reset a password | sessions |
| Second-hand reservations (`lib/second-hand*.ts`) | reservations with an expiry | claim under an advisory lock | |
| Rate limiter and AI budget (`lib/rate-limit*.ts`, `lib/ai/budget.ts`) | `rate_limit_buckets` | claim, purge; reserve, release | every public route |
| Legal documents (`lib/legal*.ts`) | drafts and published versions, acceptances | create, edit, publish; bind an order to what was shown | checkout |
| Reviews (`lib/reviews*.ts`) | reviews, their status | submit, moderate | orders |
| Product images (`lib/product-image-service.ts`) | blob store, `products.image_url` | upload | |
| Accounts, service requests, blog, content registry, analytics, pages, scripts | own tables | single-row writes or reads | |

What is hard in them, and what makes each correct:

* **Ledger, lifecycle, PayTR.** Operators with stale screens, retries with the same key, two
  browser tabs that start a payment, notifications that are late, repeated or out of order, an
  operator who cancels while a customer pays. Correct means: the payment status is what the rows
  say, no payment is refunded beyond itself, goods are paid for before they leave, a success is
  booked exactly once, money above the price is marked for review.
* **Checkout and stock.** Retries that overtake or wait for the first attempt, baskets that run
  out half way, products edited while they are bought, deadlocks between rows taken in different
  orders, processes that die before or after COMMIT. Correct means: a basket is taken whole and
  once per key, `reserved` counts exactly what is promised, the customer is told the truth,
  everybody gets an answer.
* **Outbox.** At-least-once delivery with expiring leases: a worker that stalls, dies or comes back
  late must change nothing that is no longer its own, every order must get its e-mail in spite of a
  failed savepoint, and nothing may be sent that was not charged to the budget.
* **Sessions, governance.** Rotation racing parallel requests, logout, deactivation and password
  reset; two administrators who remove each other; links that work once.
* **Checkout page.** One cart in several tabs, a preview that can be overtaken by an edit, a price
  change or another preview, calls that are lost after the server acted. Correct means: one order
  per wish, only as it was shown, and an order in the end.
* **Reservations.** Units promised for half an hour under concurrent requests, retries and edits.
* **Reviews.** Two moderators who decide at once, orders that stop verifying while a review is
  being stored, and a list that changes while a customer pages through it.

Every hazard, with its line and the properties that cover it, is in `PROJECT.json` under "hazards".

## 2. The modules

| module | what it is |
|---|---|
| `Money` | amounts and `SELECT sum(amount)`, as the number of coins in a set of rows |
| `OrderLedger` | ledger, lifecycle and PayTR, composed: they share the order's row lock and the `payments` table |
| `CashBook` | abstract specification: money comes in, goes back, goods leave only when paid, a sale is called off only when nothing is held |
| `Stock` | checkout on the server, the release by a cancellation, and the operators |
| `Shelf` | abstract specification: a basket is taken whole, once per key, while it lasts, and comes back once |
| `Storefront` | the checkout page in the browser, the legal preview, and what the order route requires of both |
| `Outbox` | the e-mail outbox: enqueue, sweep, leases, budget, sending, reporting |
| `Mailbox` | abstract specification: an e-mail is queued once, sent when the provider accepted it, dead until an operator requeues it |
| `Admins` | sessions with their rotation, beside the transactions that take rights away |
| `Reservations` | second-hand claims and the operator's edits |
| `Reviews` | submitting, moderating and paging through reviews |
| `MCOrderLedger`, `MCStock`, `MCStorefront`, `MCOutbox`, `MCAdmins`, `MCReservations`, `MCReviews` | small instances for TLC |
| `MoneyTheorems` | lemmas about sums |
| `OrderLedgerProofs`, `StockProofs`, `StorefrontProofs`, `OutboxProofs`, `AdminsProofs`, `ReservationsProofs`, `ReviewsProofs` | the invariants and theorems of each module |

Names follow the source: `RecordManualPayment` is `recordManualPayment`, `StartPaytrRead` and
`StartPaytrCommit` are the two halves of the first transaction of `startPaytrPayment`, `Reserve`
is the loop over `update(inventory)` in the checkout handler. The "map" of `PROJECT.json` gives
the lines of each definition. Definitions commented "a fault" are plausible bugs; no specification
uses them, they show that the properties notice such a bug.

### OrderLedger

Every transaction on an order starts with `SELECT ... FOR UPDATE` of its row, so it is one step,
with two exceptions that the code has too. *Starting* an online payment reads the pending attempts
and then overwrites them by id, and its *closing* transaction (`StoreToken`, `TokenRefused`) locks
only the payment row: it can fall in between. The call to PayTR runs between two transactions, and
the process can die during it (`RequestLost`) or before its first commit (`StartPaytrAbort`).

A key names its row (`PaymentKey`, `RefundKey`): a second use of a key finds the row, which is the
replay. Refusals write nothing and are therefore the absence of a step. `meta` is the JSON metadata
of an online row reduced to what the code branches on. `charged`, `declined` and `iframe` are
PayTR's side, modelled from how the callback handler treats it: at most one charge per
`merchant_oid`, any number of repeated notifications, no order among them. Time is two
nondeterministic events: a token expires, an attempt stops counting as in flight.

A process that dies between PayTR's answer and `StoreToken` is `RequestLost`; a callback that fails
its hash check changes nothing and is left out.

### Stock

The tables hold what is committed. A transaction's own writes are implied by the rows it holds
(`locks`), because an UPDATE holds its row until the end: `Reserve` and `Release` take rows one by
one, `Commit` and `CommitCancel` apply them together, `Fail`, `Die` and `AbortCancel` drop them.
`checkout[r].at` is the place of a request in the handler: `looked` after the replay outside the
transaction, `opened` under the advisory lock of its key, `reserving` after the shared product
locks and the authority's read, `ended` when the transaction is over, `answered` after the last
replay. A retry is another request with the same key. Shared product locks exist exactly while a
request is `reserving`.

A conditional update that finds too little stock ends the transaction (`out of stock`); the one of
a cancellation never does (`reserved >= quantity` always holds, which is `ReservedIsPromised`), so
`INVENTORY_INVARIANT` needs no action of its own beyond `AbortCancel`. PATCH and DELETE of a
product hold a products row and its inventory row; they run in one step when both are free, which
loses nothing: no transaction that holds an inventory row waits for a products row.

Whether an order may be cancelled (its money, its status) is decided in `OrderLedger`; here a
cancellation may start while the order is `open` and `Proceed` ends that. Delivery rules, tax,
legal texts and the signed preview read and refuse; they appear as the refusals of `Authorise` and
`PreviewRefused`.

### Storefront

`cart` is `localStorage`, shared by the tabs; `key` is `sessionStorage`, one per tab; `page` is the
memory of one page: its form, the prices and legal versions it has loaded (`terms`), its preview.
`asks` and `call` are the calls under way: `Prepare` asks for a preview and `ShowPreview` displays the
answer on the page of *now* (as the code does, which compares nothing); `Submit` sends the order,
`Serve` is the order route with its replay, and `Hear` handles every answer the page distinguishes. A request whose page has gone stays
in `strays` and may still arrive. `news` is the `storage` event another tab has not handled yet. The
inside of the order's transaction is `Stock`; here it is one step, because only its outcome reaches
the page.

`wish` is history: it counts how often what the tab would order has changed. `OneOrderPerWish` says
that a retry, a reload or a lost answer orders nothing twice; `OrderedAsShown` that an order has the
basket, the form, the prices and the documents that were signed for its preview; `CheckoutEnds` that
a customer who keeps trying gets an order.

Behaviours of the code that the model has and no property forbids: `PRICE_CHANGED` invalidates the
preview but does not reload the catalogue, so the page asks again with old prices until it is
reloaded (`store-core.js:572`); the boxes come from a list fetched when the page was loaded
(`store-core.js:139`), a newer legal version needs a reload; an answer to a preview asked before an
edit is shown after it (`store-core.js:98`), and the server refuses the order; the confirmation
empties the cart, also of what another tab added meanwhile; a new legal version after a lost reply
lets the customer order a second time, because the wish is then another.

### Outbox

`row` is `notification_outbox`. Times are relative to the present, so that time never runs out:
`left` is `locked_until - now`, `wait` is `next_attempt_at - now`, `timer` the age of the clock
reading a worker holds. A worker goes through `pc`: the sweep, `Bury`, `Claim`, then for each claim
`holdClaim` (renews the lease if the token still owns the row), `reserveSend` (the send budget),
`send` and `Finish`, whose update is fenced by the token. It can stall between
any two, die anywhere (`Crash`), or overrun its lease. `accepted` is the provider, which knows its
idempotency keys. `paid` is history.

`MaxStall` is an assumption and not a limit of the code: `runOutboxBatch` reads the clock and uses
it in later statements. A worker that stalls for longer than a lease between the two can claim a
row whose last attempt is still running (`outbox.ts:96`). With stalls below the lease this cannot
happen, which is what the run and the proof show. The sweep looks at orders of 2 to 60 minutes
(`sweep-window.ts`), so it must run within its window: `MaxStall + Settled + Cron <= Window`.

### Admins

One administrator's browser (`Me`): requests that run together (`pc`), each of which may find the
session due and rotate it (`ClaimUpdate`, `ClaimInsert`, `ClaimCommit`, then `Arrive`, `LoseCookie`
or `revertClaim`), log in or log out. Beside it, transactions `tpc` of colleagues and of reset
pages, statement by statement with the row locks of PostgreSQL: the `FOR UPDATE` of
`countActiveSuperAdminsTx` in id order, the target's lock, the update, the revocation of the rows
its statement saw. An inserted session takes `KEY SHARE` on the user through its foreign key; that
this waits for `FOR UPDATE` is what keeps a rotation from slipping past a deactivation, and
`UserFree` states it. Session times are the states `live`, `due`, `grace`, `over`.

Behaviours that the model has and no property forbids: a password reset updates only the password
column, which does not wait for that key, so a login or a rotation in flight survives it
(`admin-auth.ts:342`, `:359`); two reset requests at once leave two valid links although a comment
says only the most recent works (`admin-auth.ts:325`); a lost `Set-Cookie` logs the administrator
out when the grace window ends (accepted by the comment at `admin-session-rotation.ts:14`); a logout
with the old token of a rotation whose answer is still on its way leaves the new session alive.

### Reservations

One transaction per request, one step per statement: `Lock` (the advisory lock of the product),
`Find` by key, `Delete` of an expired row, `Count` (the product row's lock and the live
reservations), `Insert` and commit. The clock is read once, before the lock (`asked`), and the lock
wait may be long. `deletes` marks an uncommitted delete; another delete of the same row waits
(`blocked`) and resumes when its holder commits or dies. `Edit` is PATCH and DELETE of a product,
which wait for the product row between `Count` and `Insert`.

The reservation's id is the client's key, and the advisory lock is per product: the same key claimed
for two products may delete the row the other request has just inserted
(`second-hand-reservation.ts:23`). `PromisesKept` therefore excepts the customer's own reuse of a
key; nobody else's promise can be broken.

### Reviews

`Look` and `Store` are the two halves of `submitReview`, with the trigger that refuses to store a
verified review whose order left its status in between; the unique indexes of `0008` are
`LiveClash`. `Read` and `Decide` are a moderator's compare-and-set with its audit row. `page` is the
`reviewState` of a product page; its calls are answered in any order. `steady` and `disturbed` are
history: what was approved ever since the list was begun, and whether an answer to an earlier
question has reached the list. What is asked from a disturbed list belongs to no list (round 0):
its answer disturbs whatever it is shown on.

The cursor passes its instant through a `Date`, which drops microseconds (`reviews.ts:153`): reviews
of the same millisecond as the last row of a page can be skipped, and `PagesAreExact` leaves them
out (`Alone`). Choosing another sort while "load more" is under way appends an answer of the old sort
to the new list (`store-core.js:793`); such lists are `disturbed`.

### Interfaces

The modules meet at tables and are composed where steps of one can disturb the other:
ledger with lifecycle and PayTR (one row lock), checkout with cancellation and operators (inventory
rows), preview with page and order route (tokens), sessions with governance (user rows). Elsewhere
they meet at one committed fact: `Outbox` needs an order's commit, `Storefront` the outcome of
`Stock`'s transaction, `Reviews` the lifecycle's status (`MoveOrder`), `Stock`'s cancellation the
decision of `OrderLedger`. That fact is an input here, free to come at any time.

## 3. Runs

| run | instance | shows |
|---|---|---|
| `mixed` | 1 order of 3 TL, 2 manual payments, 2 refunds, 1 online attempt | refunds never exceed their payment, `refunded_at` is set by exactly the refund that empties it, payment status, paid before fulfilment, one shipment and one installation in spite of detours through service, over-collection flagged, cancelled orders settled, books final, refinement of `CashBook` |
| `charges` | 1 order of 1 TL, 2 online attempts, fairness | one pending page at a time, a success booked once, every charge booked or marked for review |
| `retries` | an order of two products, its retry, another basket with the same key, another customer; 1 and 2 units in stock | answers agree with the tables; refinement of `Shelf` |
| `catalogue` | 2 customers, 2 products, 2 prices, one edit page | `reserved` is what is promised, orders are sold as listed, nothing below zero, while products are edited, recounted and archived |
| `locks` | 2 customers whose lines come back in opposite orders, fairness | checkouts are answered and cancellations end, in spite of lock waits and deadlocks |
| `mail` | 1 e-mail, 2 workers, 2 attempts, a lease of 2 ticks, 1 requeue, fairness | one sender at a time, nothing sent unpaid, no order forgotten, every e-mail settled, refinement of `Mailbox` |
| `admins` | 2 administrators, 3 sessions, 2 requests, 2 transactions, 1 link | a super_admin remains, a session has one successor, the browser stays in, rights end with their sessions |
| `checkout` | 2 tabs, one with the checkout; 1 edit, 1 change by the shop, 1 mishap, 2 previews under way; fairness | one order per wish, ordered as shown, the checkout ends |
| `second_hand` | a request, its retry, its key for another product, another customer; stock 0 or 1, a hold of 1 tick | promises kept, no unit promised twice, nobody stuck |
| `comments` | 2 old reviews, a new one sent twice, 2 moderators, pages of one review | the audit tells the story, pages are exact |
| `mismatch_twice` (violated) | 1 order, 2 attempts | one amount mismatch can be audited twice |
| `stale_form` (violated) | 2 customers, one edit page, no stock typed | more units are promised than there were |

**Bounds.** 3 TL is the least that two payments can overshoot in parts and two refunds can split;
two attempts are enough for one to supersede, race or follow another, and one is enough to mix with
manual money (`mixed`), because attempts meet each other only in the fields that `charges` checks;
the mixture of two attempts with manual money is covered by the proofs. Two products are the least
for a half-reserved basket and for a deadlock; stock of one is the least that two customers can
compete for; three requests share a key because a retry and a reuse are different stories. Two
workers are the least for a lease to be overrun, two attempts for a row to be retried and die, a
lease of two ticks for a stall below it. Two administrators can remove each other and three sessions
hold a login with two rotations; `MaxBusy` runs any two of the four actors at once. Two previews and
one mishap let every answer come late or be lost once; `KeysLeft` and `NumbersLeft` say that random
keys and numbers never run out, which five keys and eight numbers do not in this instance. Two old reviews with a new one fill more than one page, and a millisecond of two microseconds is
the least in which two instants differ. Orders, keys and requests run once: nothing in the code
depends on how many there were before. `MaxAmount` bounds a row, not a sum. What has no bound in
these instances is proved instead (section 5).

**Deadlock** is checked in `mail`, where the scheduler never stops, and in no other run: an idle shop
takes no step. `NobodyStuck` and `EveryTransactionEnds`
say instead that open transactions can go on.

**Findings.** The two violated runs state what a comment of the code says and the code does not do;
`PROJECT.json` quotes the lines.

* *mismatch_twice*: the mark that says a mismatch was flagged is overwritten by a late failure
  notification; the next repetition is flagged and audited again.
* *stale_form*: the product edit page sends the stock it loaded with every save, and PATCH stores it
  as an absolute value: saving a new price after a sale returns the sold units to the shelf.

The ledger shows one more thing worth a decision: the guard of a cancellation looks at the money
held at that moment (`finance.ts:82`), an open payment page stays chargeable, and its later success
is booked on the cancelled order (`paytr-db.ts:171`).

## 4. Fairness

`charges`: a transaction that is open ends (weak fairness of commit-or-abort, the server's own
progress), and PayTR repeats a notification until it is acknowledged (strong fairness of the
callbacks: the order may be locked again and again, but not for ever). Nothing is assumed of
customers, operators, token requests or failure notifications.

`locks`: a received request keeps running (weak fairness of its next step, which includes the lock
timeout of 5 s and death); a cancellation's turn at a row comes (strong fairness, row locks are
granted in arrival order); PostgreSQL breaks deadlocks (weak fairness of the abort of a deadlocked
transaction). Cancellations have no lock timeout and need the last two.

`mail`: time passes; the scheduler calls the workers (weak fairness of the sweep); a worker that is
called again and again gets its statements through (strong fairness of `Bury` and `Claim`, since
other workers' leases disable them for a while); a dispatch in progress ends, by its result, an
error or the worker's death; an open order's transaction ends. Nothing is assumed of the provider's
answers: a row that is never accepted dies after its attempts, which settles it.

`checkout`: an answer to a call comes or is lost; a page with the checkout prepares and shows its
preview; the customer submits when the button is offered (strong fairness) and reloads a page the
shop has left behind. Edits, price changes and mishaps are bounded, which says that the customer
stops changing their mind.

## 5. Proofs

All theorems hold for every value of the constants under the named assumptions of the module.

### OrderLedger

Proved for every finite set of keys and attempts, any set of orders and any prices,
from `MaxAmountAssumption` and `LedgerAssumption` only (rows are finite, keys and attempts are
different rows, prices fit an amount):

* `TypeCorrect`: the types, in particular that sums are numbers and a balance due is an amount.
* `CacheIsTheLedger`, `RefundsBacked`, `RefundsBounded`, `FulfilmentPaid`,
  `OverCollectionReviewed`, `CancelledSettled`, `OnePageAtATime`, `BookedOnce`,
  `StampTellsTheTruth` (`FullRefundStamped`) and `GoodsMoveOnce` (`FulfilmentRecords`): the safety
  invariants of `mixed` and `charges`.
* `BooksFinal`: the action property.
* `LedgerIsACashBook`: `OrderLedger` implements `CashBook`.

The inductive invariant is `Inv == TypeOK /\ Structure /\ MoneyInv`. None of the properties is
inductive alone. `Structure` says which rows exist: an absent row is empty, a manual row is born
paid, a provider's page, charge or refusal belongs to an existing attempt, and what an opening
transaction has read (`seen`) still belongs to its order, cannot have been paid since, and contains
whatever is pending: this is what makes overwriting by id harmless. `MoneyInv` says how sums relate:
every *set* of payments covers its refunds (a bound per payment is not enough for the sums over an
order), and a cancelled order's manual rows and refunds balance. `OnePageAtATime` and `BookedOnce`
add an invariant each, about the attempts between the two halves of a start and about the audit
rows; `FulfilmentRecords` adds `Journey`, which says which records an order at each stage has and
which it cannot have yet, and `FullRefundStamped` adds `Stamps`: a stamped payment has refunds that
empty it, and one that is not stamped has something left.

`PaidOnlyByItsCharge` says that only a charge of the amount due is ever booked. With it two liveness
results are proved, `ChargesAreBooked` and `MismatchesAreReviewed`: for any order and attempt, a charge
leads to a paid row, and one of another amount to a review. Their fairness (`TransactionEnds`,
`SuccessGetsThrough`, `MismatchGetsThrough`) is that of `Fairness` with the guards of the steps written
out where TLA+ has ENABLED: an opening transaction ends, and a notification that can be booked again
and again is. The argument is that a charge never goes away (`ChargedKeepsOrder`), and that whatever
keeps it from being booked is the lock of an opening transaction, which is given back.

`FlaggedAgainOnlyIfErased` is about the finding *mismatch_twice*: as long as neither a late failure
notification nor a new payment page writes over the mark of a flagged attempt (`MarksStay`), a mismatch
is audited once. Of all writes of `failureCode` (`CodesWritten`) the others can not come once a mismatch
has been flagged: the page was answered before the charge, and one card is charged one amount.

The refinement maps `received` and `returned` to the two sums and `stage` to the lifecycle; a step
that moves a manual payment, a callback's success, a refund or a transition is a step of `CashBook`,
every other one a stutter.

Sums are `Cardinality` of a set of coins, so the library's theorems about finite sets give what is
needed (`MoneyTheorems`: a sum over a disjoint union, after adding a row, after changing other
rows) without recursion.

### Outbox

`TypeCorrect`, `OneSenderAtATime`, `SendsPaid`, `NobodyForgotten` and `OutboxIsAMailbox` (the
refinement), for any orders, kinds and workers. The inductive invariant is `TypeOK /\ Working /\
Leases /\ Charged /\ Reported`: what a worker holds at each `pc` (`Working`); the token and the
attempts of a claim still fit its row as long as its lease runs, and a lease outlives every clock
reading that could bury or claim it (`Leases`, where `MaxStall < Lock` is used); a row about to be
sent has been charged (`Charged`); a worker that reports success has been accepted (`Reported`).
`RetriesRunOut` (no e-mail is claimed more than `MaxAttempts` times, and a pending one has an attempt
left) needs `Counted`: a worker about to claim has buried, by the same reading of the clock, what it
must not claim (`BuriedFirst`), and a claim that has lost its row no longer writes to it.
`NobodyForgotten` adds `SweptInTime`: an order that is not yet queued is younger than the window or
a sweep that has it in sight is due, from `MaxStall + Settled + Cron <= Window`.

### Reservations

`TypeCorrect`, `PromisesHold` (`PromisesKept`) and `UnitsSuffice` (`NeverOverReserved`), for any
requests, keys, products and holds. `NeverOverReserved` needs that what a request counted is still
true when it inserts: `Exclusive` says the advisory lock of a product has one holder, `Story` what
each place in the transaction implies, `CountHolds` that the count stays below the stock until the
insert, because the product row is locked, reservations of the product need the advisory lock, and
time only ends them. `PromisesKept` needs `Replaced`: no other request for the same key and product
goes past its reading of a promised row.

`NoCircle` is the deadlock freedom of `NobodyStuck` without `ENABLED`: while a request is open or
waits for its lock, the guards of some request's next statement hold (`MayGoOn`). Its invariant is
`Waits`: a row has one deleter, which has neither finished nor waits, and a blocked request waits for
the deleter of its row, also after that deleter died and another waiter took its place. That the
guards are all a statement needs is the lemma `GoesOn`: `Result(r)`, a function of the present state,
is a next state to which `Run(r)` leads.

### Stock

`TypeCorrect`, `ReservedExactly` (`ReservedIsPromised`), `AnswersTrue` (`AnswersAreTrue`),
`SoldListed` (`SoldAsListed`) and `StockIsAShelf` (the refinement), for any products, requests,
baskets, prices, operators and any finite set of keys, from `MaxAmountAssumption`,
`StockAssumption` and, for the order of the rows, `RankAssumption`. The inductive invariant adds to the two invariants what each kind of lock is
good for: an inventory row has one writer, and a row found to hold enough still does when the
transaction commits (`RowsHeld`); the advisory lock leaves one checkout per key in its transaction,
and none for a key with an order (`OneWriter`); the shared product locks keep what a checkout read
of the catalogue true (`StillListed`); an order belongs to a request that has left its transaction
(`Owned`); and only a refusal or a failure is left for the last replay to override (`Errors`).
`ReservedIsPromised` is then a sum that gains or loses one key at a commit. For the refinement a
commit is `Sell`, the commit of a cancellation `TakeBack`, an operator's write `Recount`, and every
other step, a rollback in the middle of a basket included, a stutter.

About the locks: `RowsAreTakenInOrder` (every transaction takes a row when it is due and free, and gives
all of them back together), `CheckoutsMakeNoCircle` (checkouts take their rows by product id, so no set
of them waits in a circle) and `WaitsEndOrAreDeadlocks` (if a transaction is under way, some transaction
may go on or a cancellation is in a circle, as cancellations keep to no order of products). They need
`RankAssumption`: the ids of different products differ. Among
checkouts that all wait for each other, take the one that waits for the largest id: the holder of that row
waits for a larger one (`Ascending`). `ReleasesFindTheirUnits` excludes
the error `INVENTORY_INVARIANT` of a cancellation, since what is promised is reserved.

`OnlyOperatorsOversell` is about the finding *stale_form*: units are promised beyond the opening stock
only after an operator's write has raised `on_hand`; as long as none does (`StockIsNotRaised`), no
interleaving of checkouts, retries and cancellations oversells.

### Admins

`TypeCorrect`, `SuperAdminStays` (`SuperAdminRemains`), `RotatedOnce` (`OneSuccessor`), `StaysIn`
(`BrowserStaysIn`) and `RightsEnd` (`RightsEndSessions`), for any administrators, sessions,
requests, transactions and any finite set of reset links. The inductive invariant has two halves
that meet in the locks on user rows.

`SessionsInv`: what a request holds at each step (`Steps`); a claim under way has its row locked and
due, so nobody else rotates it (`Claims`); what a request is about to hand out is in no browser, was
presented by no request and is nobody's parent (`Unseen`), so putting it back loses nothing; a
session with a successor is past its rotation (`Superseded`), which with `Claims` gives one
successor; and while no cookie was lost, a superseded session in the browser has its successor on
the way (`OnTheWay`).

`RightsInv`: the super_admins a transaction has counted are locked by it and therefore still are
(`Counted`); whoever may still take the role or the account away has counted another one (`Judged`);
so two such transactions cannot both have counted two. A link is used by one transaction (`OneUse`).
For the revocation, the rows a statement found are all there are (`Complete`): an insert of a session
holds `KEY SHARE` on the user, the update that takes the rights away excludes it (`Held`), and from
then on no new session can start.

### Storefront

`TypeCorrect`, `RetriesDedupe` (`OneOrderPerWish`) and `BoundToPreview` (`OrderedAsShown`), for any
tabs, baskets, forms, keys and numbers and any number of edits, changes, previews and mishaps.
`OneOrderPerWish` is far from inductive: that a wish is ordered once depends on every request still
on its way, in a tab or stray. `KeysInv` says that a key belongs to one tab (`Owned`); no request is
ahead of its page and no page ahead of the shop (`Behind`); one wish is one basket and one form
(`SameText`); a page waits for its latest request only, and a refusal it is about to hear is true
(`Waiting`); and whatever is placed, or may still be, for a tab's present wish and documents carries
the tab's present key (`Current`), because the key is only given up when the server has said that
nothing was or will be placed under it (`ReleasesKey`). From this, what is or may be placed for one
wish has one key (`OneKey`), and the table's unique key does the rest. Every step except `Submit`
lets calls, tabs and orders only shrink or age (`Moves`), and one lemma shows that such a step keeps
the invariant. `Tally` bounds the wishes: an order empties only a cart that an edit has filled.

### Reviews

`TypeCorrect`, `AuditIsComplete` (`AuditTellsTheStory`) and `PagingIsExact` (`PagesAreExact`), for
any submissions, ratings, instants, moderators, sizes of a page and any number of calls. The
inductive invariant is `TypeOK /\ Columns /\ Told /\ Listed /\ ExactList(page) /\ Asking(page,
asked)`. `Told` states the chain of decisions of each review, also of one that is not stored yet.
`ExactList` says of a list that is not complete that its cursor was made from its last row and that
every steady review is in the list or comes after that row; `Asking`, that at most one call under
way belongs to the list of now, and that it began the list or asks for more from exactly its end.

`Rows` is the sequence that `ORDER BY` returns, chosen among all orders of the matching rows. That a
sorted one exists is `SortedExists`: the place of a row is the number of rows before it, places are
different and there are as many as rows. `ComesOrders` shows that each sort is a strict total order
(the id breaks ties), `PastCursor` what the truncated cursor loses: nothing that comes before its row
follows it, and only rows of the same millisecond are missed. The attempt to prove the first version
of the history variables failed for a reason: more asked from a disturbed list was counted as a
question of the list of now (see `More`).

### Only model-checked

Liveness as the runs state it (`ChargesReachTheBooks`, `EveryTransactionEnds`, `EveryMailSettled`,
`CheckoutEnds`) and `NobodyStuck`: the prover has no rule for WF, SF or ENABLED. Where an invariant and one
helpful step are the whole argument, the guards can stand for ENABLED, and that is proved: for charges
(`ChargesAreBooked`, `MismatchesAreReviewed`), and `NoCircle` proves what `NobodyStuck` says of the guards.
The other three also need an induction over what is left to do (rows to take, attempts to make, retries
to send), which is out of the prover's reach.

## 6. Not modelled

* **Rate limiter.** One atomic upsert decides from the row it writes; no interleaving lies between
  its steps. Callers see a refusal, which the modules have.
* **AI budget and gateway.** Day and month counters in one transaction in a fixed order.
* **Product images.** The outcome of the clean-up depends on the blob store. To the reader of the
  code: the object's key is the product's (`product-image.ts:37`) and is overwritten, so a second
  upload whose database update fails deletes the object the product still points to
  (`product-image-service.ts:83`).
* **Catalogue import, service requests, blog, customer accounts, content registry.** Single
  statements on rows of one owner, or one transaction run by one person.
* **Analytics, reports, other pages, scripts.** They write nothing another part reads.
* **Delivery, charges, profitability.** Pure functions with direct unit tests; their refusals and
  amounts are inputs of `Stock` and `Storefront`.
* **Governance**, of which role changes, deactivation and resets are modelled: invites and grants
  are consumed by one conditional UPDATE, the bootstrap runs once by hand.
* **Legal documents**, of which preview, binding and a new version are modelled: drafts are single
  rows, evidence and signatures pure functions.

Within the modelled ones: parsing, hashing, wording, authentication and permission checks (they
refuse and write nothing), audit rows other than those of callbacks and moderation, reports and
lists, rate limits of the routes, and overflow of amounts (a column holds 100 million TL and the
schemas bound every input far below 2^31).
