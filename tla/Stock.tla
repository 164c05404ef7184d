-------------------------------- MODULE Stock --------------------------------
(***************************************************************************)
(* Stock and checkout: POST /api/orders (app/api/orders/route.ts), the     *)
(* release of stock by a cancellation (lib/order-transition.ts), and the   *)
(* operators who edit, archive and recount products.                       *)
(*                                                                         *)
(* Every actor is a PostgreSQL transaction at READ COMMITTED.  A statement *)
(* sees what is committed when it runs; an UPDATE holds its row until the  *)
(* transaction ends, so what it wrote is shown here by the rows it holds   *)
(* (locks) and reaches the tables when the transaction commits.            *)
(***************************************************************************)
EXTENDS Money

CONSTANTS
  Product, Price,
  Request,          \* POST /api/orders calls; a retry is another request
  Key,              \* Idempotency-Key headers
  Admin,            \* open product edit pages
  KeyOf, Basket,    \* the key and the quantities a request carries
  Quoted,           \* its expectedTotal, which is not in the fingerprint
  Count,            \* the numbers operators type into a stock field
  OpeningStock,
  IdRank,           \* the order of the product ids
  LineRank,         \* the order in which listItems returns an order's lines
  Nobody, NoForm,
  NotSold, Returned \* what the shelf holds for a key with no order, and a cancelled one

ASSUME StockAssumption ==
  /\ KeyOf \in [Request -> Key]
  /\ Basket \in [Request -> [Product -> Nat]]
  /\ Price \subseteq Nat /\ Count \subseteq Nat
  /\ \A r \in Request, p \in Product, price \in Price : Basket[r][p] * price <= MaxAmount
  /\ \A r \in Request, p \in Product : Basket[r][p] <= MaxAmount
  /\ OpeningStock \in [Product -> Nat]
  /\ Request \cap Key = {} /\ Nobody \notin Request
  /\ IsFiniteSet(Key)

\* The ids are in a strict order; an order's lines have places.
ASSUME RankAssumption ==
  /\ IdRank \in [Product -> Nat]
  /\ \A p, q \in Product : p # q => IdRank[p] # IdRank[q]
  /\ \A r \in Request : LineRank[r] \in [Product -> Nat]

VARIABLES
  inventory,    \* the inventory rows, as committed
  product,      \* the products rows: sellable means published and online
  placed,       \* the order of each key, and whether it is being cancelled
  checkout,     \* how far each request has come, and what it answered
  locks,        \* the inventory rows each transaction has updated so far
  form          \* the product each edit page shows, with the stock it loaded

vars == <<inventory, product, placed, checkout, locks, form>>

-----------------------------------------------------------------------------
Transaction == Request \cup Key     \* a checkout, or the cancellation of an order

Lines(basket) == {p \in Product : basket[p] > 0}

\* What the basket costs at the prices of now.
Total(r) == SumOf(Lines(Basket[r]), [p \in Product |-> Basket[r][p] * product[p].price])

Authorised(r) ==
  /\ \A p \in Lines(Basket[r]) : product[p].sellable
  /\ Total(r) = Quoted[r]

\* The request that placed the key's order asked for the same.
SameOrder(r) == Basket[placed[KeyOf[r]].by] = Basket[r]

IsPlaced(k) == placed[k].status # "none"

\* replay(): the order the key already has, or otherwise the given answer.
Replay(r, otherwise) ==
  IF ~IsPlaced(KeyOf[r]) THEN otherwise
  ELSE IF SameOrder(r) THEN "confirmed" ELSE "conflict"

InTransaction(r) == checkout[r].at \in {"opened", "reserving"}

KeyFree(k) == \A r \in Request : InTransaction(r) => KeyOf[r] # k

NoRowLocks(p) == TRUE       \* a fault

RowFree(p) == \A t \in Transaction : p \notin locks[t]

NeverShared(p) == TRUE      \* a fault

\* Checkout shares the products rows it priced until it ends.
ProductFree(p) ==
  \A r \in Request : checkout[r].at = "reserving" => p \notin Lines(Basket[r])

Cancelling(k) == placed[k].status = "cancelling"

\* The rows a transaction has yet to update, and the one it updates next:
\* checkout goes by product id, a cancellation by the order of the lines.
RowsLeft(t) ==
  IF t \in Request
  THEN IF checkout[t].at = "reserving" THEN Lines(Basket[t]) \ locks[t] ELSE {}
  ELSE IF Cancelling(t) THEN Lines(Basket[placed[t].by]) \ locks[t] ELSE {}

Rank(t) == IF t \in Request THEN IdRank ELSE LineRank[placed[t].by]

IsNext(t, p) == p \in RowsLeft(t) /\ \A q \in RowsLeft(t) : Rank(t)[p] <= Rank(t)[q]

WaitsFor(t, u) == t # u /\ \E p \in locks[u] : IsNext(t, p)

Deadlocked(t) ==
  \E D \in SUBSET Transaction : t \in D /\ \A d \in D : \E e \in D : WaitsFor(d, e)

-----------------------------------------------------------------------------
Init ==
  /\ inventory = [p \in Product |-> [onHand |-> OpeningStock[p], reserved |-> 0]]
  /\ product \in [Product -> [sellable : BOOLEAN, price : Price]]
  /\ placed = [k \in Key |-> [by |-> Nobody, status |-> "none"]]
  /\ checkout = [r \in Request |-> [at |-> "new", answer |-> "none"]]
  /\ locks = [t \in Transaction |-> {}]
  /\ form = [a \in Admin |-> NoForm]

At(r, at, answer) == checkout' = [checkout EXCEPT ![r] = [at |-> at, answer |-> answer]]

Unlock(t) == locks' = [locks EXCEPT ![t] = {}]

\* ------------------------------- checkout -------------------------------

\* The first replay, before the transaction: a key already used answers at once.
Look(r) ==
  /\ checkout[r].at = "new"
  /\ IF IsPlaced(KeyOf[r]) THEN At(r, "answered", Replay(r, "none")) ELSE At(r, "looked", "none")
  /\ UNCHANGED <<inventory, product, placed, locks, form>>

\* The signed preview of the legal texts is missing, expired or of an old layout.
PreviewRefused(r) ==
  /\ checkout[r].at = "looked"
  /\ At(r, "answered", Replay(r, "refused"))
  /\ UNCHANGED <<inventory, product, placed, locks, form>>

\* BEGIN, the advisory lock of the key, and the replay under it: a retry that
\* waited for the first attempt finds its order here (IdempotentReplay).
Open(r) ==
  /\ checkout[r].at = "looked" /\ KeyFree(KeyOf[r])
  /\ IF IsPlaced(KeyOf[r]) THEN At(r, "ended", "failed") ELSE At(r, "opened", "none")
  /\ UNCHANGED <<inventory, product, placed, locks, form>>

\* The products rows are locked FOR SHARE, then read: what is on sale, at
\* which price.  The refusals of the legal texts end the same way.
Authorise(r) ==
  /\ checkout[r].at = "opened"
  /\ \/ Authorised(r) /\ At(r, "reserving", "none")
     \/ At(r, "ended", "refused")
  /\ UNCHANGED <<inventory, product, placed, locks, form>>

ReserveAnyway(r, p) ==      \* a fault
  /\ r \in Request /\ IsNext(r, p) /\ RowFree(p)
  /\ locks' = [locks EXCEPT ![r] = @ \cup {p}]
  /\ UNCHANGED <<inventory, product, placed, checkout, form>>

\* UPDATE inventory ... WHERE on_hand >= quantity, one product at a time.  No
\* row means OUT_OF_STOCK, which undoes every line already reserved.
Reserve(r, p) ==
  /\ r \in Request /\ IsNext(r, p) /\ RowFree(p)
  /\ \/ /\ inventory[p].onHand >= Basket[r][p]
        /\ locks' = [locks EXCEPT ![r] = @ \cup {p}]
        /\ UNCHANGED checkout
     \/ /\ inventory[p].onHand < Basket[r][p]
        /\ Unlock(r) /\ At(r, "ended", "out of stock")
  /\ UNCHANGED <<inventory, product, placed, form>>

\* The order, its lines and its stock appear together, whether or not the
\* reply to COMMIT reaches the process.  The unique index on the key cannot
\* refuse the row: the advisory lock let no other writer of the key in.
Commit(r) ==
  /\ checkout[r].at = "reserving" /\ RowsLeft(r) = {}
  /\ inventory' = [p \in Product |->
       [onHand   |-> inventory[p].onHand - Basket[r][p],
        reserved |-> inventory[p].reserved + Basket[r][p]]]
  /\ placed' = [placed EXCEPT ![KeyOf[r]] = [by |-> r, status |-> "open"]]
  /\ At(r, "ended", "failed") /\ Unlock(r)
  /\ UNCHANGED <<product, form>>

RollbackForgotten(r) ==     \* a fault
  /\ checkout[r].at = "looked" \/ InTransaction(r)
  /\ At(r, "ended", "failed")
  /\ UNCHANGED <<inventory, product, placed, locks, form>>

\* A lock waited for longer than lock_timeout, or any statement that fails.
Fail(r) ==
  /\ checkout[r].at = "looked" \/ InTransaction(r)
  /\ At(r, "ended", "failed") /\ Unlock(r)
  /\ UNCHANGED <<inventory, product, placed, form>>

AnswerTheError(r) ==        \* a fault
  /\ checkout[r].at = "ended"
  /\ At(r, "answered", checkout[r].answer)
  /\ UNCHANGED <<inventory, product, placed, locks, form>>

\* After the transaction, ended either way, replay() decides the answer.
Answer(r) ==
  /\ checkout[r].at = "ended"
  /\ At(r, "answered", Replay(r, checkout[r].answer))
  /\ UNCHANGED <<inventory, product, placed, locks, form>>

\* The process dies: an open transaction rolls back and nobody is answered.
Die(r) ==
  /\ checkout[r].at # "answered"
  /\ At(r, "answered", "lost") /\ Unlock(r)
  /\ UNCHANGED <<inventory, product, placed, form>>

\* ----------------------------- cancellation -----------------------------

SetStatus(k, status) == placed' = [placed EXCEPT ![k].status = status]

CancelAgain(k) ==       \* a fault
  /\ placed[k].status \in {"open", "cancelled"}
  /\ SetStatus(k, "cancelling")
  /\ UNCHANGED <<inventory, product, checkout, locks, form>>

\* The orders row is locked and its status allows a cancellation.
BeginCancel(k) ==
  /\ placed[k].status = "open"
  /\ SetStatus(k, "cancelling")
  /\ UNCHANGED <<inventory, product, checkout, locks, form>>

\* UPDATE inventory ... WHERE reserved >= quantity; no row is INVENTORY_INVARIANT.
Release(k, p) ==
  /\ k \in Key /\ IsNext(k, p) /\ RowFree(p)
  /\ inventory[p].reserved >= Basket[placed[k].by][p]
  /\ locks' = [locks EXCEPT ![k] = @ \cup {p}]
  /\ UNCHANGED <<inventory, product, placed, checkout, form>>

CommitCancel(k) ==
  /\ Cancelling(k) /\ RowsLeft(k) = {}
  /\ inventory' = [p \in Product |->
       [onHand   |-> inventory[p].onHand + Basket[placed[k].by][p],
        reserved |-> inventory[p].reserved - Basket[placed[k].by][p]]]
  /\ SetStatus(k, "cancelled") /\ Unlock(k)
  /\ UNCHANGED <<product, checkout, form>>

\* A statement fails, INVENTORY_INVARIANT is raised or the process dies.
AbortCancel(k) ==
  /\ Cancelling(k)
  /\ SetStatus(k, "open") /\ Unlock(k)
  /\ UNCHANGED <<inventory, product, checkout, form>>

\* Past "preparing" an order cannot be cancelled; its stock stays reserved.
Proceed(k) ==
  /\ placed[k].status = "open"
  /\ SetStatus(k, "under way")
  /\ UNCHANGED <<inventory, product, checkout, locks, form>>

\* ------------------------------- operators -------------------------------
\* PATCH and DELETE hold a products row and its inventory row together; both
\* are free when they run, and nobody waits for them inside a deadlock.

OpenForm(a, p) ==
  /\ form[a] = NoForm
  /\ form' = [form EXCEPT ![a] = [product |-> p, stock |-> inventory[p].onHand]]
  /\ UNCHANGED <<inventory, product, placed, checkout, locks>>

\* The page sends its whole form: the fields the operator edited, and the
\* stock of when it was opened unless that was edited too.
SubmitForm(a) ==
  /\ form[a] # NoForm
  /\ LET p == form[a].product IN
     /\ ProductFree(p) /\ RowFree(p)
     /\ \E sellable \in BOOLEAN, price \in Price, stock \in Count \cup {form[a].stock} :
          /\ product' = [product EXCEPT ![p] = [sellable |-> sellable, price |-> price]]
          /\ inventory' = [inventory EXCEPT ![p].onHand = stock]
  /\ form' = [form EXCEPT ![a] = NoForm]
  /\ UNCHANGED <<placed, checkout, locks>>

\* The stock page sends the stock alone and leaves the products row unlocked.
SetStock(p) ==
  /\ RowFree(p)
  /\ \E stock \in Count : inventory' = [inventory EXCEPT ![p].onHand = stock]
  /\ UNCHANGED <<product, placed, checkout, locks, form>>

Archive(p) ==
  /\ ProductFree(p) /\ RowFree(p)
  /\ product' = [product EXCEPT ![p].sellable = FALSE]
  /\ inventory' = [inventory EXCEPT ![p].onHand = 0]
  /\ UNCHANGED <<placed, checkout, locks, form>>

-----------------------------------------------------------------------------
Checkout(r) ==
  \/ Look(r) \/ PreviewRefused(r) \/ Open(r) \/ Authorise(r)
  \/ \E p \in Product : Reserve(r, p)
  \/ Commit(r) \/ Fail(r) \/ Answer(r) \/ Die(r)

Cancellation(k) ==
  \/ BeginCancel(k) \/ \E p \in Product : Release(k, p)
  \/ CommitCancel(k) \/ AbortCancel(k) \/ Proceed(k)

Operator ==
  \/ \E a \in Admin : SubmitForm(a) \/ \E p \in Product : OpenForm(a, p)
  \/ \E p \in Product : SetStock(p) \/ Archive(p)

Next ==
  \/ \E r \in Request : Checkout(r)
  \/ \E k \in Key : Cancellation(k)
  \/ Operator

Spec == Init /\ [][Next]_vars

\* A request that was received runs on, and its lock waits end after
\* lock_timeout; a cancellation has no timeout, but its turn at a row comes
\* (row locks are granted in arrival order) and PostgreSQL breaks deadlocks.
Fairness ==
  /\ \A r \in Request : WF_vars(checkout[r].at # "new" /\ Checkout(r))
  /\ \A k \in Key :
       /\ \A p \in Product : SF_vars(Release(k, p))
       /\ WF_vars(CommitCancel(k))
       /\ WF_vars(Deadlocked(k) /\ AbortCancel(k))

FairSpec == Spec /\ Fairness

-----------------------------------------------------------------------------
\* Every row has its columns, and no product is ever left with stock below zero.
TypeOK ==
  /\ inventory \in [Product -> [onHand : Nat, reserved : Nat]]
  /\ product \in [Product -> [sellable : BOOLEAN, price : Price]]
  /\ placed \in [Key -> [by : Request \cup {Nobody},
                         status : {"none", "open", "cancelling", "under way", "cancelled"}]]
  /\ checkout \in [Request -> [at : {"new", "looked", "opened", "reserving", "ended", "answered"},
                               answer : {"none", "confirmed", "conflict", "refused",
                                         "out of stock", "failed", "lost"}]]
  /\ locks \in [Transaction -> SUBSET Product]
  /\ form \in [Admin -> [product : Product, stock : Nat] \cup {NoForm}]

\* inventory.reserved counts exactly the units of the orders that were placed
\* and not cancelled: no line is reserved twice by a retry, half by a basket
\* that ran out, or released twice by two cancellations.
ReservedIsPromised ==
  \A p \in Product :
    inventory[p].reserved =
      SumOf({k \in Key : IsPlaced(k) /\ placed[k].status # "cancelled"},
            [k \in Key |-> IF IsPlaced(k) THEN Basket[placed[k].by][p] ELSE 0])

\* What a customer is told is what the tables say: a confirmation and a
\* conflict are about an order that is there, with the same and with another
\* content, and nobody is refused an order that their own request placed.
AnswersAreTrue ==
  \A r \in Request :
    LET answer == checkout[r].answer
        order  == placed[KeyOf[r]]
    IN checkout[r].at = "answered" /\ answer # "lost" =>
         /\ answer = "confirmed" => order.by \in Request /\ Basket[order.by] = Basket[r]
         /\ answer = "conflict"  => order.by \in Request /\ Basket[order.by] # Basket[r]
         /\ order.by = r => answer = "confirmed"

\* An order commits only while its products are on sale at the total the
\* customer saw, however the catalogue was edited since they were read.
SoldAsListed ==
  [][\A r \in Request : placed'[KeyOf[r]].by = r /\ placed[KeyOf[r]].by # r
       => Authorised(r)]_vars

\* The shop as a shelf: a basket is taken whole, once per key, while it lasts.
Shelf == INSTANCE Shelf WITH
  Baskets   <- {Basket[r] : r \in Request},
  available <- [p \in Product |-> inventory[p].onHand],
  sold      <- [k \in Key |->
    CASE placed[k].status = "none"      -> NotSold
      [] placed[k].status = "cancelled" -> Returned
      [] OTHER                          -> Basket[placed[k].by]]

ImplementsShelf == Shelf!Spec

\* A request that is being worked on is answered, and a cancellation ends,
\* whatever rows the others hold and in whatever order they take them.
EveryTransactionEnds ==
  /\ \A r \in Request : checkout[r].at = "looked" ~> checkout[r].at = "answered"
  /\ \A k \in Key : Cancelling(k) ~> ~Cancelling(k)

\* lib/inventory.ts: "concurrent orders unable to oversell".  With nobody
\* typing a number into a stock field, no more units are promised than the
\* shop had.
NeverOversold == \A p \in Product : inventory[p].reserved <= OpeningStock[p]
=============================================================================
