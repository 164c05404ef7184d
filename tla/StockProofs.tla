---------------------------- MODULE StockProofs ----------------------------
(***************************************************************************)
(* Proofs about Stock, for any products, requests, keys, baskets, prices   *)
(* and operators.                                                          *)
(***************************************************************************)
EXTENDS Stock, MoneyTheorems, WellFoundedInduction

LEMMA NextCases ==
  ASSUME Next
  PROVE  \/ \E r \in Request :
              \/ Look(r) \/ PreviewRefused(r) \/ Open(r) \/ Authorise(r)
              \/ \E p \in Product : Reserve(r, p)
              \/ Commit(r) \/ Fail(r) \/ Answer(r) \/ Die(r)
         \/ \E k \in Key :
              \/ BeginCancel(k) \/ \E p \in Product : Release(k, p)
              \/ CommitCancel(k) \/ AbortCancel(k) \/ Proceed(k)
         \/ \E a \in Admin : SubmitForm(a) \/ \E p \in Product : OpenForm(a, p)
         \/ \E p \in Product : SetStock(p) \/ Archive(p)
BY DEF Next, Checkout, Cancellation, Operator

-----------------------------------------------------------------------------
(* The parts of the invariant.                                             *)

\* A row has one writer, and what a checkout found enough of stays enough.
RowsHeld ==
  /\ \A t, u \in Transaction : t # u => locks[t] \cap locks[u] = {}
  /\ \A r \in Request : \A p \in locks[r] : inventory[p].onHand >= Basket[r][p]

\* The advisory lock: a key has one checkout in its transaction, and no order.
OneWriter ==
  /\ \A r \in Request : InTransaction(r) => ~IsPlaced(KeyOf[r])
  /\ \A r, q \in Request :
       r # q /\ InTransaction(r) /\ InTransaction(q) => KeyOf[r] # KeyOf[q]

\* The shared locks of the products: what was read of them is still so.
StillListed == \A r \in Request : checkout[r].at = "reserving" => Authorised(r)

\* An order belongs to the request that placed it, which has ended.
Owned ==
  \A k \in Key :
    /\ IsPlaced(k) => /\ placed[k].by \in Request /\ KeyOf[placed[k].by] = k
                      /\ checkout[placed[k].by].at \in {"ended", "answered"}
    /\ ~IsPlaced(k) => placed[k].by = Nobody

\* What a transaction left for the last replay to answer.
Errors == \A r \in Request : checkout[r].at = "ended" =>
            checkout[r].answer \in {"failed", "refused", "out of stock"}

Promised == {k \in Key : IsPlaced(k) /\ placed[k].status # "cancelled"}
Units(p) == [k \in Key |-> IF IsPlaced(k) THEN Basket[placed[k].by][p] ELSE 0]

-----------------------------------------------------------------------------
(* Constants and types.                                                    *)

Places  == {"new", "looked", "opened", "reserving", "ended", "answered"}
Answers == {"none", "confirmed", "conflict", "refused", "out of stock", "failed", "lost"}
States  == {"none", "open", "cancelling", "under way", "cancelled"}

Checkouts == [at : Places, answer : Answers]
Orders    == [by : Request \cup {Nobody}, status : States]

LEMMA Quantities ==
  ASSUME NEW r \in Request, NEW p \in Product
  PROVE  Basket[r][p] \in Nat /\ Basket[r][p] \in 0 .. MaxAmount /\ KeyOf[r] \in Key
BY StockAssumption, MaxAmountAssumption

LEMMA Arithmetic ==
  \A m, n \in Nat : m + n \in Nat /\ (m >= n => m - n \in Nat) /\ (n = 0 => m - n = m)
OBVIOUS

LEMMA TypeParts ==
  TypeOK <=> /\ inventory \in [Product -> [onHand : Nat, reserved : Nat]]
             /\ product \in [Product -> [sellable : BOOLEAN, price : Price]]
             /\ placed \in [Key -> Orders]
             /\ checkout \in [Request -> Checkouts]
             /\ locks \in [Transaction -> SUBSET Product]
             /\ form \in [Admin -> [product : Product, stock : Nat] \cup {NoForm}]
BY DEF TypeOK, Orders, Checkouts, Places, Answers, States

LEMMA TypeInit == Init => TypeOK
<1> SUFFICES ASSUME Init PROVE TypeOK
  OBVIOUS
<1>1. inventory \in [Product -> [onHand : Nat, reserved : Nat]]
  BY StockAssumption DEF Init
<1> QED
  BY <1>1, TypeParts DEF Init, Orders, Checkouts, Places, Answers, States

\* Where a step leads a request, and what the others keep.
LEMMA Moves ==
  ASSUME TypeOK, NEW r \in Request, NEW at \in Places, NEW answer \in Answers, At(r, at, answer)
  PROVE  /\ checkout' \in [Request -> Checkouts]
         /\ checkout'[r].at = at /\ checkout'[r].answer = answer
         /\ \A q \in Request \ {r} : checkout'[q] = checkout[q]
BY TypeParts DEF At, Checkouts

LEMMA Replays ==
  ASSUME NEW r \in Request, NEW otherwise \in Answers
  PROVE  Replay(r, otherwise) \in Answers
BY DEF Replay, Answers

LEMMA Unlocks ==
  ASSUME TypeOK, NEW t \in Transaction, Unlock(t)
  PROVE  /\ locks' \in [Transaction -> SUBSET Product]
         /\ locks'[t] = {} /\ \A u \in Transaction : locks'[u] \subseteq locks[u]
BY TypeParts DEF Unlock

LEMMA Sets ==
  ASSUME TypeOK, NEW k \in Key, NEW status \in States, SetStatus(k, status)
  PROVE  /\ placed' \in [Key -> Orders]
         /\ placed'[k].status = status
         /\ \A j \in Key : placed'[j].by = placed[j].by
         /\ \A j \in Key \ {k} : placed'[j] = placed[j]
<1>1. \A j \in Key : placed[j] \in Orders
  BY TypeParts
<1>2. placed' = [placed EXCEPT ![k] = [placed[k] EXCEPT !.status = status]]
  BY DEF SetStatus
<1>3. [placed[k] EXCEPT !.status = status] = [by |-> placed[k].by, status |-> status]
  BY <1>1 DEF Orders
<1>4. placed' = [placed EXCEPT ![k] = [by |-> placed[k].by, status |-> status]]
  BY <1>2, <1>3
<1> QED
  BY <1>1, <1>4, TypeParts DEF Orders

-----------------------------------------------------------------------------
(* What the two commits do to the inventory.                               *)

\* All that a checkout takes, it has reserved row by row.
LEMMA CommitTakes ==
  ASSUME TypeOK, RowsHeld, NEW r \in Request, Commit(r)
  PROVE  /\ inventory' \in [Product -> [onHand : Nat, reserved : Nat]]
         /\ \A p \in Product : /\ inventory[p].onHand >= Basket[r][p]
                               /\ inventory'[p].onHand = inventory[p].onHand - Basket[r][p]
                               /\ inventory'[p].reserved = inventory[p].reserved + Basket[r][p]
         /\ \A t \in Transaction \ {r} : \A p \in locks[t] : inventory'[p].onHand = inventory[p].onHand
<1>1. \A p \in Product : Basket[r][p] > 0 => p \in locks[r]
  BY DEF Commit, RowsLeft, Lines
<1>2. \A p \in Product :
        Basket[r][p] \in Nat /\ inventory[p].onHand \in Nat /\ inventory[p].reserved \in Nat
  BY Quantities, TypeParts
<1>3. \A p \in Product : inventory[p].onHand >= Basket[r][p]
  BY <1>1, <1>2 DEF RowsHeld
<1>4. ASSUME NEW p \in Product
      PROVE  /\ inventory'[p] \in [onHand : Nat, reserved : Nat]
             /\ inventory'[p].onHand = inventory[p].onHand - Basket[r][p]
             /\ inventory'[p].reserved = inventory[p].reserved + Basket[r][p]
  <2> DEFINE rest  == inventory[p].onHand - Basket[r][p]
             taken == inventory[p].reserved + Basket[r][p]
  <2>1. inventory'[p] = [onHand |-> rest, reserved |-> taken]
    BY DEF Commit
  <2>2. rest \in Nat /\ taken \in Nat
    BY <1>2, <1>3, Arithmetic
  <2> HIDE DEF rest, taken
  <2>3. inventory'[p] \in [onHand : Nat, reserved : Nat]
    BY <2>1, <2>2
  <2>4. inventory'[p].onHand = rest /\ inventory'[p].reserved = taken
    BY <2>1
  <2> QED
    BY <2>3, <2>4 DEF rest, taken
<1>5. ASSUME NEW t \in Transaction \ {r}, NEW p \in locks[t]
      PROVE  inventory'[p].onHand = inventory[p].onHand
  <2>1. p \in Product /\ p \notin locks[r]
    BY <1>5, TypeParts DEF RowsHeld, Transaction
  <2>2. Basket[r][p] = 0 /\ inventory[p].onHand \in Nat
    BY <1>1, <1>2, <2>1
  <2> QED
    BY <1>4, <2>1, <2>2, Arithmetic
<1>6. inventory' \in [Product -> [onHand : Nat, reserved : Nat]]
  BY <1>4 DEF Commit
<1> QED
  BY <1>3, <1>4, <1>5, <1>6

\* What a promised order holds is counted as reserved.
LEMMA PromisedIsReserved ==
  ASSUME TypeOK, Owned, ReservedIsPromised, NEW k \in Promised, NEW p \in Product
  PROVE  inventory[p].reserved >= Basket[placed[k].by][p]
<1>1. IsFiniteSet(Promised) /\ {k} \in SUBSET Promised
  BY StockAssumption, FS_Subset DEF Promised
<1>2. k \in Key /\ IsPlaced(k) /\ placed[k].by \in Request
  BY DEF Promised, Owned
<1>3. Units(p)[k] = Basket[placed[k].by][p] /\ Units(p)[k] \in 0 .. MaxAmount
  BY <1>2, Quantities DEF Units
<1>4. SumOf({k}, Units(p)) = Units(p)[k]
  BY <1>3, SumOne
<1>5. SumOf({k}, Units(p)) <= SumOf(Promised, Units(p))
  BY <1>1, SumMonotone
<1>6. inventory[p].reserved = SumOf(Promised, Units(p))
  BY DEF ReservedIsPromised, Promised, Units
<1> QED
  BY <1>3, <1>4, <1>5, <1>6

LEMMA CancelReturns ==
  ASSUME TypeOK, RowsHeld, Owned, ReservedIsPromised, NEW k \in Key, CommitCancel(k)
  PROVE  /\ inventory' \in [Product -> [onHand : Nat, reserved : Nat]]
         /\ placed[k].by \in Request
         /\ \A p \in Product :
              /\ inventory'[p].onHand = inventory[p].onHand + Basket[placed[k].by][p]
              /\ inventory'[p].reserved = inventory[p].reserved - Basket[placed[k].by][p]
<1>1. k \in Promised /\ placed[k].by \in Request
  BY DEF CommitCancel, Cancelling, Promised, IsPlaced, Owned
<1>2. \A p \in Product : /\ Basket[placed[k].by][p] \in Nat
                         /\ inventory[p].onHand \in Nat /\ inventory[p].reserved \in Nat
                         /\ inventory[p].reserved >= Basket[placed[k].by][p]
  BY <1>1, Quantities, TypeParts, PromisedIsReserved
<1>3. ASSUME NEW p \in Product
      PROVE  /\ inventory'[p] \in [onHand : Nat, reserved : Nat]
             /\ inventory'[p].onHand = inventory[p].onHand + Basket[placed[k].by][p]
             /\ inventory'[p].reserved = inventory[p].reserved - Basket[placed[k].by][p]
  <2> DEFINE more == inventory[p].onHand + Basket[placed[k].by][p]
             less == inventory[p].reserved - Basket[placed[k].by][p]
  <2>1. inventory'[p] = [onHand |-> more, reserved |-> less]
    BY DEF CommitCancel
  <2>2. more \in Nat /\ less \in Nat
    BY <1>2, Arithmetic
  <2> HIDE DEF more, less
  <2>3. inventory'[p] \in [onHand : Nat, reserved : Nat]
    BY <2>1, <2>2
  <2>4. inventory'[p].onHand = more /\ inventory'[p].reserved = less
    BY <2>1
  <2> QED
    BY <2>3, <2>4 DEF more, less
<1>4. inventory' \in [Product -> [onHand : Nat, reserved : Nat]]
  BY <1>3 DEF CommitCancel
<1> QED
  BY <1>1, <1>3, <1>4

\* An operator changes one row, which nobody has locked.
LEMMA OperatorSets ==
  ASSUME TypeOK,
         \/ \E a \in Admin : SubmitForm(a)
         \/ \E p \in Product : SetStock(p) \/ Archive(p)
  PROVE  \E p \in Product, stock \in Nat :
           /\ RowFree(p)
           /\ inventory' = [inventory EXCEPT ![p] = [onHand |-> stock, reserved |-> inventory[p].reserved]]
<1>1. ASSUME NEW p \in Product, NEW stock, inventory' = [inventory EXCEPT ![p].onHand = stock]
      PROVE  inventory' = [inventory EXCEPT ![p] = [onHand |-> stock, reserved |-> inventory[p].reserved]]
  <2>1. inventory[p] \in [onHand : Nat, reserved : Nat]
    BY TypeParts
  <2>2. inventory' = [inventory EXCEPT ![p] = [inventory[p] EXCEPT !.onHand = stock]]
    BY <1>1
  <2>3. [inventory[p] EXCEPT !.onHand = stock] = [onHand |-> stock, reserved |-> inventory[p].reserved]
    BY <2>1
  <2> QED
    BY <2>2, <2>3
<1>2. ASSUME NEW a \in Admin, SubmitForm(a)
      PROVE  \E p \in Product, stock \in Nat :
               RowFree(p) /\ inventory' = [inventory EXCEPT ![p].onHand = stock]
  <2>1. form[a].product \in Product /\ form[a].stock \in Nat /\ Count \subseteq Nat
    BY <1>2, TypeParts, StockAssumption DEF SubmitForm
  <2> QED
    BY <1>2, <2>1 DEF SubmitForm
<1>3. ASSUME NEW p \in Product, SetStock(p) \/ Archive(p)
      PROVE  \E stock \in Nat : RowFree(p) /\ inventory' = [inventory EXCEPT ![p].onHand = stock]
  BY <1>3, StockAssumption DEF SetStock, Archive
<1> QED
  BY <1>1, <1>2, <1>3

-----------------------------------------------------------------------------
(* Types.                                                                  *)

LEMMA TypeStep ==
  ASSUME TypeOK, RowsHeld, Owned, ReservedIsPromised, [Next]_vars
  PROVE  TypeOK'
<1>1. TypeOK' <=>
        /\ inventory' \in [Product -> [onHand : Nat, reserved : Nat]]
        /\ product' \in [Product -> [sellable : BOOLEAN, price : Price]]
        /\ placed' \in [Key -> Orders]
        /\ checkout' \in [Request -> Checkouts]
        /\ locks' \in [Transaction -> SUBSET Product]
        /\ form' \in [Admin -> [product : Product, stock : Nat] \cup {NoForm}]
  BY DEF TypeOK, Orders, Checkouts, Places, Answers, States
<1>2. ASSUME NEW r \in Request, Look(r) \/ PreviewRefused(r) \/ Open(r) \/ Authorise(r) \/ Answer(r)
      PROVE  TypeOK'
  <2>a. checkout[r].answer \in Answers /\ "none" \in Answers /\ "refused" \in Answers
    BY TypeParts DEF Checkouts, Answers
  <2>b. \A otherwise \in Answers : Replay(r, otherwise) \in Answers
    BY Replays
  <2>1. {Replay(r, "none"), Replay(r, "refused"), Replay(r, checkout[r].answer)} \subseteq Answers
    BY <2>a, <2>b
  <2>2. \E at \in Places, answer \in Answers : At(r, at, answer)
    BY <1>2, <2>1 DEF Look, PreviewRefused, Open, Authorise, Answer, Places, Answers
  <2>3. checkout' \in [Request -> Checkouts]
    BY <2>2, Moves
  <2> QED
    BY <1>1, <1>2, <2>3, TypeParts DEF Look, PreviewRefused, Open, Authorise, Answer
<1>3. ASSUME NEW r \in Request, NEW p \in Product, Reserve(r, p)
      PROVE  TypeOK'
  <2>1. checkout' \in [Request -> Checkouts]
    <3>1. CASE UNCHANGED checkout
      BY <3>1, TypeParts
    <3>2. CASE At(r, "ended", "out of stock")
      BY <3>2, Moves DEF Places, Answers
    <3> QED
      BY <1>3, <3>1, <3>2 DEF Reserve
  <2>2. locks' \in [Transaction -> SUBSET Product]
    <3>1. CASE locks' = [locks EXCEPT ![r] = @ \cup {p}]
      BY <3>1, TypeParts DEF Transaction
    <3>2. CASE Unlock(r)
      BY <3>2, Unlocks DEF Transaction
    <3> QED
      BY <1>3, <3>1, <3>2 DEF Reserve
  <2> QED
    BY <1>1, <1>3, <2>1, <2>2, TypeParts DEF Reserve
<1>4. ASSUME NEW r \in Request, Commit(r) PROVE TypeOK'
  <2>1. checkout' \in [Request -> Checkouts] /\ locks' \in [Transaction -> SUBSET Product]
    BY <1>4, Moves, Unlocks DEF Commit, Places, Answers, Transaction
  <2>2. placed' \in [Key -> Orders]
    BY <1>4, TypeParts DEF Commit, Orders, States
  <2> QED
    BY <1>1, <1>4, <2>1, <2>2, CommitTakes, TypeParts DEF Commit
<1>5. ASSUME NEW r \in Request, Fail(r) \/ Die(r) PROVE TypeOK'
  <2>1. checkout' \in [Request -> Checkouts] /\ locks' \in [Transaction -> SUBSET Product]
    BY <1>5, Moves, Unlocks DEF Fail, Die, Places, Answers, Transaction
  <2> QED
    BY <1>1, <1>5, <2>1, TypeParts DEF Fail, Die
<1>6. ASSUME NEW k \in Key, BeginCancel(k) \/ Proceed(k) PROVE TypeOK'
  <2>1. placed' \in [Key -> Orders]
    BY <1>6, Sets DEF BeginCancel, Proceed, States
  <2> QED
    BY <1>1, <1>6, <2>1, TypeParts DEF BeginCancel, Proceed
<1>7. ASSUME NEW k \in Key, NEW p \in Product, Release(k, p) PROVE TypeOK'
  <2>1. locks' \in [Transaction -> SUBSET Product]
    BY <1>7, TypeParts DEF Release, Transaction
  <2> QED
    BY <1>1, <1>7, <2>1, TypeParts DEF Release
<1>8. ASSUME NEW k \in Key, CommitCancel(k) PROVE TypeOK'
  <2>1. placed' \in [Key -> Orders] /\ locks' \in [Transaction -> SUBSET Product]
    BY <1>8, Sets, Unlocks DEF CommitCancel, States, Transaction
  <2> QED
    BY <1>1, <1>8, <2>1, CancelReturns, TypeParts DEF CommitCancel
<1>9. ASSUME NEW k \in Key, AbortCancel(k) PROVE TypeOK'
  <2>1. placed' \in [Key -> Orders] /\ locks' \in [Transaction -> SUBSET Product]
    BY <1>9, Sets, Unlocks DEF AbortCancel, States, Transaction
  <2> QED
    BY <1>1, <1>9, <2>1, TypeParts DEF AbortCancel
<1>10. ASSUME NEW a \in Admin, NEW p \in Product, OpenForm(a, p) PROVE TypeOK'
  <2>1. inventory[p].onHand \in Nat
    BY TypeParts
  <2>2. form' \in [Admin -> [product : Product, stock : Nat] \cup {NoForm}]
    BY <1>10, <2>1, TypeParts DEF OpenForm
  <2> QED
    BY <1>1, <1>10, <2>2, TypeParts DEF OpenForm
<1>11. ASSUME \/ \E a \in Admin : SubmitForm(a)
              \/ \E p \in Product : SetStock(p) \/ Archive(p)
       PROVE  TypeOK'
  <2>1. inventory' \in [Product -> [onHand : Nat, reserved : Nat]]
    <3>1. \A p \in Product : inventory[p].reserved \in Nat
      BY TypeParts
    <3> QED
      BY <1>11, <3>1, OperatorSets, TypeParts
  <2>2. ASSUME NEW a \in Admin, SubmitForm(a) PROVE TypeOK'
    <3>1. product' \in [Product -> [sellable : BOOLEAN, price : Price]]
      BY <2>2, TypeParts DEF SubmitForm
    <3>2. form' \in [Admin -> [product : Product, stock : Nat] \cup {NoForm}]
      BY <2>2, TypeParts DEF SubmitForm
    <3> QED
      BY <1>1, <2>1, <2>2, <3>1, <3>2, TypeParts DEF SubmitForm
  <2>3. ASSUME NEW p \in Product, Archive(p) PROVE TypeOK'
    <3>1. [product[p] EXCEPT !.sellable = FALSE] \in [sellable : BOOLEAN, price : Price]
      BY TypeParts
    <3>2. product' = [product EXCEPT ![p] = [product[p] EXCEPT !.sellable = FALSE]]
      BY <2>3 DEF Archive
    <3>3. product' \in [Product -> [sellable : BOOLEAN, price : Price]]
      BY <3>1, <3>2, TypeParts
    <3> QED
      BY <1>1, <2>1, <2>3, <3>3, TypeParts DEF Archive
  <2>4. ASSUME NEW p \in Product, SetStock(p) PROVE TypeOK'
    BY <1>1, <2>1, <2>4, TypeParts DEF SetStock
  <2> QED
    BY <1>11, <2>2, <2>3, <2>4
<1>12. CASE UNCHANGED vars
  BY <1>1, <1>12, TypeParts DEF vars
<1> QED
  BY <1>2, <1>3, <1>4, <1>5, <1>6, <1>7, <1>8, <1>9, <1>10, <1>11, <1>12, NextCases

-----------------------------------------------------------------------------
(* What a step keeps.                                                      *)

\* Only a commit places an order, and only its cancellation ends the promise.
LEMMA OrdersKept ==
  ASSUME TypeOK, [Next]_vars
  PROVE  \/ \E r \in Request : Commit(r)
         \/ /\ \A k \in Key : placed'[k].by = placed[k].by /\ (IsPlaced(k)' <=> IsPlaced(k))
            /\ \/ \E k \in Key : CommitCancel(k)
               \/ \A k \in Key : placed'[k].status = "cancelled" <=> placed[k].status = "cancelled"
<1> DEFINE Kept == \A k \in Key : placed'[k].by = placed[k].by /\ (IsPlaced(k)' <=> IsPlaced(k))
           Standing == \A k \in Key : placed'[k].status = "cancelled" <=> placed[k].status = "cancelled"
<1>1. ASSUME UNCHANGED placed PROVE Kept /\ Standing
  BY <1>1 DEF IsPlaced
<1>2. ASSUME NEW k \in Key, BeginCancel(k) PROVE Kept /\ Standing
  BY <1>2, Sets DEF BeginCancel, IsPlaced, States
<1>3. ASSUME NEW k \in Key, AbortCancel(k) PROVE Kept /\ Standing
  BY <1>3, Sets DEF AbortCancel, IsPlaced, Cancelling, States
<1>4. ASSUME NEW k \in Key, Proceed(k) PROVE Kept /\ Standing
  BY <1>4, Sets DEF Proceed, IsPlaced, States
<1>5. ASSUME NEW k \in Key, CommitCancel(k) PROVE Kept
  BY <1>5, Sets DEF CommitCancel, IsPlaced, Cancelling, States
<1>6. ASSUME Next PROVE \/ UNCHANGED placed
                        \/ \E r \in Request : Commit(r)
                        \/ \E k \in Key : CommitCancel(k) \/ AbortCancel(k) \/ BeginCancel(k) \/ Proceed(k)
  BY <1>6, NextCases DEF Look, PreviewRefused, Open, Authorise, Reserve, Fail, Answer, Die,
     Release, SubmitForm, OpenForm, SetStock, Archive
<1> QED
  BY <1>1, <1>2, <1>3, <1>4, <1>5, <1>6 DEF vars

\* Where each step may take a request; one at a time moves.
Leads(r) ==
  \/ checkout[r].at # "answered" /\ checkout'[r].at \in {"ended", "answered"}
  \/ Open(r) /\ checkout'[r].at = "opened"
  \/ Authorise(r) /\ checkout[r].at = "opened" /\ checkout'[r].at = "reserving" /\ Authorised(r)
  \/ Look(r) /\ checkout'[r].at = "looked"

LEMMA RequestsKept ==
  ASSUME TypeOK, [Next]_vars
  PROVE  \/ UNCHANGED checkout
         \/ \E r \in Request : Leads(r) /\ \A q \in Request \ {r} : checkout'[q] = checkout[q]
<1>1. \A r \in Request : checkout[r].answer \in Answers
  BY TypeParts DEF Checkouts
<1>2. \A r \in Request, at \in Places, answer \in Answers :
        At(r, at, answer) => /\ checkout'[r].at = at
                             /\ \A q \in Request \ {r} : checkout'[q] = checkout[q]
  BY Moves
<1>3. \A r \in Request, otherwise \in Answers : Replay(r, otherwise) \in Answers
  BY Replays
<1>4. {"none", "refused", "failed", "out of stock", "lost"} \subseteq Answers
      /\ {"looked", "opened", "reserving", "ended", "answered"} \subseteq Places
  BY DEF Answers, Places
<1> DEFINE Others(r) == \A q \in Request \ {r} : checkout'[q] = checkout[q]
<1>5. ASSUME NEW r \in Request, Look(r) PROVE Leads(r) /\ Others(r)
  <2>1. Replay(r, "none") \in Answers
    BY <1>3, <1>4
  <2>2. \E at \in {"looked", "answered"}, answer \in Answers : At(r, at, answer)
    BY <1>4, <1>5, <2>1 DEF Look
  <2> QED
    BY <1>2, <1>4, <1>5, <2>2 DEF Look, Leads
<1>6. ASSUME NEW r \in Request, PreviewRefused(r) \/ Answer(r) PROVE Leads(r) /\ Others(r)
  <2>1. Replay(r, "refused") \in Answers /\ Replay(r, checkout[r].answer) \in Answers
    BY <1>1, <1>3, <1>4
  <2>2. \E answer \in Answers : At(r, "answered", answer)
    BY <1>6, <2>1 DEF PreviewRefused, Answer
  <2> QED
    BY <1>2, <1>4, <1>6, <2>2 DEF PreviewRefused, Answer, Leads
<1>7. ASSUME NEW r \in Request, Open(r) PROVE Leads(r) /\ Others(r)
  BY <1>2, <1>4, <1>7 DEF Open, Leads
<1>8. ASSUME NEW r \in Request, Authorise(r) PROVE Leads(r) /\ Others(r)
  BY <1>2, <1>4, <1>8 DEF Authorise, Leads
<1>9. ASSUME NEW r \in Request, NEW p \in Product, Reserve(r, p)
      PROVE  UNCHANGED checkout \/ (Leads(r) /\ Others(r))
  <2>1. checkout[r].at = "reserving"
    BY <1>9 DEF Reserve, IsNext, RowsLeft
  <2> QED
    BY <1>2, <1>4, <1>9, <2>1 DEF Reserve, Leads
<1>10. ASSUME NEW r \in Request, Commit(r) \/ Fail(r) \/ Die(r) PROVE Leads(r) /\ Others(r)
  BY <1>2, <1>4, <1>10 DEF Commit, Fail, Die, InTransaction, Leads
<1>11. ASSUME Next PROVE \/ UNCHANGED checkout
                         \/ \E r \in Request :
                              \/ Look(r) \/ PreviewRefused(r) \/ Answer(r) \/ Open(r) \/ Authorise(r)
                              \/ \E p \in Product : Reserve(r, p)
                              \/ Commit(r) \/ Fail(r) \/ Die(r)
  BY <1>11, NextCases DEF BeginCancel, Release, CommitCancel, AbortCancel, Proceed,
     SubmitForm, OpenForm, SetStock, Archive
<1>12. CASE UNCHANGED vars
  BY <1>12 DEF vars
<1> QED
  BY <1>5, <1>6, <1>7, <1>8, <1>9, <1>10, <1>11, <1>12

-----------------------------------------------------------------------------
(* Each part is kept.                                                      *)

LEMMA RowsHeldStep ==
  ASSUME TypeOK, RowsHeld, Owned, ReservedIsPromised, [Next]_vars
  PROVE  RowsHeld'
<1>0. /\ \A t \in Transaction : locks[t] \subseteq Product
      /\ Request \subseteq Transaction /\ Key \subseteq Transaction
      /\ \A r \in Request, p \in Product : inventory[p].onHand \in Nat /\ Basket[r][p] \in Nat
  BY TypeParts, Quantities DEF Transaction
\* Rows are given back, and what is left of the rows others hold is no less.
<1>1. ASSUME \A t \in Transaction : locks'[t] \subseteq locks[t],
             \A t \in Transaction : \A p \in locks'[t] : inventory'[p].onHand >= inventory[p].onHand,
             \A p \in Product : inventory'[p].onHand \in Nat
      PROVE  RowsHeld'
  <2>1. ASSUME NEW r \in Request, NEW p \in locks'[r] PROVE inventory'[p].onHand >= Basket[r][p]
    <3>1. p \in locks[r] /\ p \in Product /\ inventory'[p].onHand >= inventory[p].onHand
      BY <1>0, <1>1
    <3>2. inventory[p].onHand >= Basket[r][p]
      BY <3>1 DEF RowsHeld
    <3> QED
      BY <1>0, <1>1, <3>1, <3>2
  <2> QED
    BY <1>1, <2>1 DEF RowsHeld
<1>2. ASSUME UNCHANGED inventory, \A t \in Transaction : locks'[t] \subseteq locks[t]
      PROVE  RowsHeld'
  BY <1>0, <1>2 DEF RowsHeld
<1>3. ASSUME UNCHANGED inventory, NEW t \in Transaction, NEW p \in Product, RowFree(p),
             t \in Request => inventory[p].onHand >= Basket[t][p],
             locks' = [locks EXCEPT ![t] = @ \cup {p}]
      PROVE  RowsHeld'
  <2>1. locks'[t] = locks[t] \cup {p} /\ \A u \in Transaction \ {t} : locks'[u] = locks[u]
    BY <1>3, TypeParts
  <2>2. \A u, v \in Transaction : u # v => locks'[u] \cap locks'[v] = {}
    BY <1>3, <2>1 DEF RowsHeld, RowFree
  <2>3. \A r \in Request : \A q \in locks'[r] : inventory[q].onHand >= Basket[r][q]
    BY <1>0, <1>3, <2>1 DEF RowsHeld
  <2> QED
    BY <1>3, <2>2, <2>3 DEF RowsHeld
<1>4. ASSUME NEW r \in Request, NEW p \in Product, Reserve(r, p) PROVE RowsHeld'
  <2>1. CASE inventory[p].onHand >= Basket[r][p] /\ locks' = [locks EXCEPT ![r] = @ \cup {p}]
    BY <1>0, <1>3, <1>4, <2>1 DEF Reserve
  <2>2. CASE Unlock(r)
    BY <1>0, <1>2, <1>4, <2>2, Unlocks DEF Reserve
  <2> QED
    BY <1>4, <2>1, <2>2 DEF Reserve
<1>5. ASSUME NEW k \in Key, NEW p \in Product, Release(k, p) PROVE RowsHeld'
  <2>1. k \notin Request
    BY StockAssumption
  <2> QED
    BY <1>0, <1>3, <1>5, <2>1 DEF Release
<1>6. ASSUME NEW r \in Request, Commit(r) PROVE RowsHeld'
  <2>1. locks'[r] = {} /\ \A t \in Transaction : locks'[t] \subseteq locks[t]
    BY <1>0, <1>6, Unlocks DEF Commit
  <2>2. \A t \in Transaction \ {r} : \A p \in locks[t] : inventory'[p].onHand = inventory[p].onHand
    BY <1>6, CommitTakes
  <2>3. \A p \in Product : inventory'[p].onHand \in Nat
    BY <1>6, CommitTakes
  <2>4. \A t \in Transaction : \A p \in locks'[t] : inventory'[p].onHand >= inventory[p].onHand
    BY <1>0, <2>1, <2>2, <2>3
  <2> QED
    BY <1>1, <2>1, <2>3, <2>4
<1>7. ASSUME NEW k \in Key, CommitCancel(k) PROVE RowsHeld'
  <2>1. \A t \in Transaction : locks'[t] \subseteq locks[t]
    BY <1>0, <1>7, Unlocks DEF CommitCancel
  <2>2. placed[k].by \in Request
    BY <1>7, CancelReturns
  <2>3. \A p \in Product : inventory'[p].onHand = inventory[p].onHand + Basket[placed[k].by][p]
    BY <1>7, CancelReturns
  <2>4. \A p \in Product : inventory'[p].onHand \in Nat /\ inventory'[p].onHand >= inventory[p].onHand
    BY <1>0, <2>2, <2>3
  <2> QED
    BY <1>0, <1>1, <2>1, <2>4
<1>8. ASSUME NEW r \in Request, Fail(r) \/ Die(r) PROVE RowsHeld'
  BY <1>0, <1>2, <1>8, Unlocks DEF Fail, Die
<1>9. ASSUME NEW k \in Key, AbortCancel(k) PROVE RowsHeld'
  BY <1>0, <1>2, <1>9, Unlocks DEF AbortCancel
<1>10. ASSUME \/ \E a \in Admin : SubmitForm(a)
              \/ \E p \in Product : SetStock(p) \/ Archive(p)
       PROVE  RowsHeld'
  <2>1. PICK p \in Product, stock \in Nat :
          /\ RowFree(p)
          /\ inventory' = [inventory EXCEPT ![p] = [onHand |-> stock, reserved |-> inventory[p].reserved]]
    BY <1>10, OperatorSets
  <2>2. \A q \in Product \ {p} : inventory'[q] = inventory[q]
    BY <2>1, TypeParts
  <2>3. UNCHANGED locks
    BY <1>10 DEF SubmitForm, SetStock, Archive
  <2>4. \A r \in Request : \A q \in locks[r] : q \in Product \ {p}
    BY <1>0, <2>1 DEF RowFree
  <2> QED
    BY <2>2, <2>3, <2>4 DEF RowsHeld
<1>11. ASSUME UNCHANGED <<inventory, locks>> PROVE RowsHeld'
  BY <1>11 DEF RowsHeld
<1> QED
  BY <1>4, <1>5, <1>6, <1>7, <1>8, <1>9, <1>10, <1>11, NextCases
  DEF Look, PreviewRefused, Open, Authorise, Answer, BeginCancel, Proceed, OpenForm, vars

LEMMA OneWriterStep ==
  ASSUME TypeOK, OneWriter, [Next]_vars
  PROVE  OneWriter'
<1>1. \A q \in Request : InTransaction(q)' <=> checkout'[q].at \in {"opened", "reserving"}
  BY DEF InTransaction
<1>2. \/ \A q \in Request : InTransaction(q)' => InTransaction(q)
      \/ \E r \in Request : Open(r) /\ \A q \in Request : InTransaction(q)' => InTransaction(q) \/ q = r
  BY <1>1, RequestsKept DEF Leads, InTransaction
<1>3. CASE \E r \in Request : Commit(r)
  <2>1. PICK r \in Request : Commit(r)
    BY <1>3
  <2>2. InTransaction(r) /\ checkout'[r].at = "ended" /\ \A q \in Request \ {r} : checkout'[q] = checkout[q]
    BY <2>1, Moves DEF Commit, InTransaction, Places, Answers
  <2>3. \A q \in Request : InTransaction(q)' => q # r /\ InTransaction(q)
    BY <1>1, <2>2 DEF InTransaction
  <2>4. \A k \in Key \ {KeyOf[r]} : placed'[k] = placed[k]
    BY <2>1, TypeParts DEF Commit
  <2> QED
    BY <2>2, <2>3, <2>4, StockAssumption DEF OneWriter, IsPlaced
<1>4. CASE \A k \in Key : IsPlaced(k)' <=> IsPlaced(k)
  <2>1. CASE \A q \in Request : InTransaction(q)' => InTransaction(q)
    BY <1>4, <2>1, StockAssumption DEF OneWriter
  <2>2. CASE \E r \in Request : Open(r) /\ \A q \in Request : InTransaction(q)' => InTransaction(q) \/ q = r
    <3>1. PICK r \in Request : Open(r) /\ \A q \in Request : InTransaction(q)' => InTransaction(q) \/ q = r
      BY <2>2
    <3>2. KeyFree(KeyOf[r])
      BY <3>1 DEF Open
    <3>3. InTransaction(r)' => ~IsPlaced(KeyOf[r])
      <4>1. CASE IsPlaced(KeyOf[r])
        <5>1. checkout'[r].at = "ended"
          BY <3>1, <4>1, Moves DEF Open, Places, Answers
        <5> QED
          BY <1>1, <5>1
      <4> QED
        BY <4>1
    <3> QED
      BY <1>4, <3>1, <3>2, <3>3, StockAssumption DEF OneWriter, KeyFree
  <2> QED
    BY <1>2, <2>1, <2>2
<1> QED
  BY <1>3, <1>4, OrdersKept

LEMMA ErrorsStep ==
  ASSUME TypeOK, Errors, [Next]_vars
  PROVE  Errors'
<1>1. ASSUME NEW r \in Request, NEW at \in Places, NEW answer \in Answers, At(r, at, answer),
             at = "ended" => answer \in {"failed", "refused", "out of stock"}
      PROVE  Errors'
  <2>1. checkout'[r].at = at /\ checkout'[r].answer = answer /\ \A q \in Request \ {r} : checkout'[q] = checkout[q]
    BY <1>1, Moves
  <2> QED
    BY <1>1, <2>1 DEF Errors
<1>2. {"none", "refused", "failed", "out of stock", "lost"} \subseteq Answers
      /\ {"looked", "opened", "reserving", "ended", "answered"} \subseteq Places
  BY DEF Answers, Places
<1>3. ASSUME NEW r \in Request, Look(r) \/ PreviewRefused(r) \/ Answer(r) PROVE Errors'
  <2>1. checkout[r].answer \in Answers
    BY TypeParts DEF Checkouts
  <2>2. Replay(r, "none") \in Answers /\ Replay(r, "refused") \in Answers /\ Replay(r, checkout[r].answer) \in Answers
    BY <1>2, <2>1, Replays
  <2>3. \E at \in {"looked", "answered"}, answer \in Answers : At(r, at, answer)
    BY <1>2, <1>3, <2>2 DEF Look, PreviewRefused, Answer
  <2> QED
    BY <1>1, <1>2, <2>3
<1>4. ASSUME NEW r \in Request, Open(r) \/ Authorise(r) \/ Commit(r) \/ Fail(r) \/ Die(r) PROVE Errors'
  BY <1>1, <1>2, <1>4 DEF Open, Authorise, Commit, Fail, Die
<1>5. ASSUME NEW r \in Request, NEW p \in Product, Reserve(r, p) PROVE Errors'
  <2>1. CASE UNCHANGED checkout
    BY <2>1 DEF Errors
  <2>2. CASE At(r, "ended", "out of stock")
    BY <1>1, <1>2, <2>2
  <2> QED
    BY <1>5, <2>1, <2>2 DEF Reserve
<1>6. ASSUME UNCHANGED checkout PROVE Errors'
  BY <1>6 DEF Errors
<1> QED
  BY <1>3, <1>4, <1>5, <1>6, NextCases DEF BeginCancel, Release, CommitCancel, AbortCancel, Proceed,
     SubmitForm, OpenForm, SetStock, Archive, vars

LEMMA OwnedStep ==
  ASSUME TypeOK, Owned, OneWriter, [Next]_vars
  PROVE  Owned'
<1>1. \A r \in Request : checkout[r].at \in {"ended", "answered"} => checkout'[r].at \in {"ended", "answered"}
  BY RequestsKept DEF Leads, Open, Authorise, Look
<1>2. CASE \E r \in Request : Commit(r)
  <2>1. PICK r \in Request : Commit(r)
    BY <1>2
  <2>2. KeyOf[r] \in Key /\ checkout'[r].at = "ended"
    BY <2>1, Quantities, Moves, StockAssumption DEF Commit, Places, Answers
  <2>3. placed'[KeyOf[r]].by = r /\ placed'[KeyOf[r]].status = "open"
    BY <2>1, <2>2, TypeParts DEF Commit
  <2>4. \A k \in Key \ {KeyOf[r]} : placed'[k] = placed[k]
    BY <2>1, TypeParts DEF Commit
  <2>5. ASSUME NEW k \in Key \ {KeyOf[r]}
        PROVE  /\ IsPlaced(k)' => /\ placed'[k].by \in Request /\ KeyOf[placed'[k].by] = k
                                  /\ checkout'[placed'[k].by].at \in {"ended", "answered"}
               /\ ~IsPlaced(k)' => placed'[k].by = Nobody
    BY <1>1, <2>4 DEF Owned, IsPlaced
  <2> QED
    BY <2>2, <2>3, <2>5 DEF Owned, IsPlaced
<1>3. CASE \A k \in Key : placed'[k].by = placed[k].by /\ (IsPlaced(k)' <=> IsPlaced(k))
  BY <1>1, <1>3 DEF Owned
<1> QED
  BY <1>2, <1>3, OrdersKept

LEMMA ReservedStep ==
  ASSUME TypeOK, RowsHeld, Owned, OneWriter, ReservedIsPromised, [Next]_vars
  PROVE  ReservedIsPromised'
<1>0. /\ ReservedIsPromised  <=> \A p \in Product : inventory[p].reserved = SumOf(Promised, Units(p))
      /\ ReservedIsPromised' <=> \A p \in Product : inventory'[p].reserved = SumOf(Promised', Units(p)')
      /\ IsFiniteSet(Promised) /\ IsFiniteSet(Promised')
  BY StockAssumption, FS_Subset DEF ReservedIsPromised, Promised, Units
<1>1. CASE \E r \in Request : Commit(r)
  <2>1. PICK r \in Request : Commit(r)
    BY <1>1
  <2> DEFINE k == KeyOf[r]
  <2>2. k \in Key /\ k \notin Promised /\ ~IsPlaced(k)
    BY <2>1, Quantities, StockAssumption DEF Commit, OneWriter, InTransaction, Promised
  <2>3. placed'[k].by = r /\ placed'[k].status = "open" /\ \A j \in Key \ {k} : placed'[j] = placed[j]
    BY <2>1, <2>2, TypeParts DEF Commit
  <2>4. Promised' = Promised \cup {k}
    BY <2>2, <2>3 DEF Promised, IsPlaced
  <2>5. ASSUME NEW p \in Product PROVE inventory'[p].reserved = SumOf(Promised', Units(p)')
    <3>1. (Units(p)')[k] = Basket[r][p] /\ Basket[r][p] \in 0 .. MaxAmount
      BY <2>2, <2>3, Quantities DEF Units, IsPlaced
    <3>2. \A j \in Promised : (Units(p)')[j] = Units(p)[j]
      BY <2>2, <2>3 DEF Units, IsPlaced, Promised
    <3>3. SumOf(Promised, Units(p)') = SumOf(Promised, Units(p))
      BY <3>2, SumSame
    <3>4. SumOf(Promised \cup {k}, Units(p)') = SumOf(Promised, Units(p)') + (Units(p)')[k]
      <4>1. PICK f : f = Units(p)'
        OBVIOUS
      <4>2. f[k] \in 0 .. MaxAmount
        BY <3>1, <4>1
      <4>3. SumOf(Promised \cup {k}, f) = SumOf(Promised, f) + f[k]
        BY <1>0, <2>2, <4>2, SumInsert
      <4> QED
        BY <4>1, <4>3
    <3>5. inventory'[p].reserved = inventory[p].reserved + Basket[r][p]
      BY <2>1, CommitTakes
    <3> QED
      BY <1>0, <2>4, <3>1, <3>3, <3>4, <3>5
  <2> QED
    BY <1>0, <2>5
<1>2. CASE \E k \in Key : CommitCancel(k)
  <2>1. PICK k \in Key : CommitCancel(k)
    BY <1>2
  <2>2. k \in Promised /\ placed[k].by \in Request
    BY <2>1 DEF CommitCancel, Cancelling, Promised, IsPlaced, Owned
  <2>3. /\ placed'[k].status = "cancelled" /\ \A j \in Key : placed'[j].by = placed[j].by
        /\ \A j \in Key \ {k} : placed'[j] = placed[j]
    BY <2>1, Sets DEF CommitCancel, States
  <2>4. k \notin Promised' /\ Promised = Promised' \cup {k}
    BY <2>2, <2>3 DEF Promised, IsPlaced
  <2>5. ASSUME NEW p \in Product PROVE inventory'[p].reserved = SumOf(Promised', Units(p)')
    <3>1. Units(p)[k] = Basket[placed[k].by][p] /\ Basket[placed[k].by][p] \in 0 .. MaxAmount
      BY <2>2, Quantities DEF Units, Promised
    <3>2. \A j \in Promised' : (Units(p)')[j] = Units(p)[j]
      BY <2>3, <2>4 DEF Units, IsPlaced, Promised
    <3>3. SumOf(Promised', Units(p)') = SumOf(Promised', Units(p))
      BY <3>2, SumSame
    <3>4. SumOf(Promised' \cup {k}, Units(p)) = SumOf(Promised', Units(p)) + Units(p)[k]
      BY <1>0, <2>4, <3>1, SumInsert
    <3>5. inventory'[p].reserved = inventory[p].reserved - Basket[placed[k].by][p]
      BY <2>1, CancelReturns
    <3>6. SumOf(Promised', Units(p)') \in Nat
      BY <1>0, SumType
    <3> QED
      BY <1>0, <2>4, <3>1, <3>3, <3>4, <3>5, <3>6
  <2> QED
    BY <1>0, <2>5
<1>3. ASSUME \A k \in Key : placed'[k].by = placed[k].by /\ (IsPlaced(k)' <=> IsPlaced(k)),
             \A k \in Key : placed'[k].status = "cancelled" <=> placed[k].status = "cancelled",
             \A p \in Product : inventory'[p].reserved = inventory[p].reserved
      PROVE  ReservedIsPromised'
  <2>1. Promised' = Promised
    BY <1>3 DEF Promised
  <2>2. ASSUME NEW p \in Product PROVE SumOf(Promised', Units(p)') = SumOf(Promised, Units(p))
    <3>1. \A j \in Promised : (Units(p)')[j] = Units(p)[j]
      BY <1>3 DEF Promised, Units
    <3> QED
      BY <2>1, <3>1, SumSame
  <2> QED
    BY <1>0, <1>3, <2>2
<1>4. \/ \E r \in Request : Commit(r)
      \/ \E k \in Key : CommitCancel(k)
      \/ \A p \in Product : inventory'[p].reserved = inventory[p].reserved
  <2>1. ASSUME \/ \E a \in Admin : SubmitForm(a)
               \/ \E p \in Product : SetStock(p) \/ Archive(p)
        PROVE  \A p \in Product : inventory'[p].reserved = inventory[p].reserved
    <3>1. PICK p \in Product, stock \in Nat :
            inventory' = [inventory EXCEPT ![p] = [onHand |-> stock, reserved |-> inventory[p].reserved]]
      BY <2>1, OperatorSets
    <3> QED
      BY <3>1, TypeParts
  <2> QED
    BY <2>1, NextCases DEF Look, PreviewRefused, Open, Authorise, Answer, Reserve, Fail, Die,
       BeginCancel, Proceed, Release, AbortCancel, OpenForm, vars
<1> QED
  BY <1>1, <1>2, <1>3, <1>4, OrdersKept

LEMMA StillListedStep ==
  ASSUME TypeOK, StillListed, [Next]_vars
  PROVE  StillListed'
<1>1. \A r \in Request : checkout'[r].at = "reserving" =>
        \/ checkout[r].at = "reserving"
        \/ Authorise(r) /\ Authorised(r)
  BY RequestsKept DEF Leads
<1>2. ASSUME UNCHANGED product PROVE StillListed'
  <2>1. \A r \in Request : Total(r)' = Total(r) /\ (Authorised(r)' <=> Authorised(r))
    BY <1>2 DEF Authorised, Total
  <2> QED
    BY <1>1, <2>1 DEF StillListed
<1>3. ASSUME NEW p \in Product, ProductFree(p), UNCHANGED checkout,
             \A q \in Product \ {p} : product'[q] = product[q]
      PROVE  StillListed'
  <2>1. ASSUME NEW r \in Request, checkout[r].at = "reserving" PROVE Authorised(r)'
    <3> DEFINE price  == [q \in Product |-> Basket[r][q] * product[q].price]
               price2 == [q \in Product |-> Basket[r][q] * product'[q].price]
    <3>1. p \notin Lines(Basket[r]) /\ Lines(Basket[r]) \subseteq Product
      BY <1>3, <2>1 DEF ProductFree, Lines
    <3>2. \A q \in Lines(Basket[r]) : price2[q] = price[q] /\ product'[q] = product[q]
      BY <1>3, <3>1
    <3>3. Total(r) = SumOf(Lines(Basket[r]), price) /\ Total(r)' = SumOf(Lines(Basket[r]), price2)
      BY DEF Total
    <3> HIDE DEF price, price2
    <3>4. Total(r)' = Total(r)
      BY <3>2, <3>3, SumSame
    <3>5. Authorised(r)
      BY <2>1 DEF StillListed
    <3> QED
      BY <3>2, <3>4, <3>5 DEF Authorised
  <2> QED
    BY <1>3, <2>1 DEF StillListed
<1>4. ASSUME NEW a \in Admin, SubmitForm(a) PROVE StillListed'
  <2>1. form[a].product \in Product
    BY <1>4, TypeParts DEF SubmitForm
  <2>2. \A q \in Product \ {form[a].product} : product'[q] = product[q]
    BY <1>4, TypeParts DEF SubmitForm
  <2> QED
    BY <1>3, <1>4, <2>1, <2>2 DEF SubmitForm
<1>5. ASSUME NEW p \in Product, Archive(p) PROVE StillListed'
  <2>1. \A q \in Product \ {p} : product'[q] = product[q]
    BY <1>5, TypeParts DEF Archive
  <2> QED
    BY <1>3, <1>5, <2>1 DEF Archive
<1> QED
  BY <1>2, <1>4, <1>5, NextCases DEF Look, PreviewRefused, Open, Authorise, Reserve, Commit, Fail,
     Answer, Die, BeginCancel, Release, CommitCancel, AbortCancel, Proceed, OpenForm, SetStock, vars

\* What replay() says is so, when nothing but it says "confirmed" or "conflict".
LEMMA ReplayIsTrue ==
  ASSUME Owned, NEW r \in Request, NEW otherwise, otherwise \notin {"confirmed", "conflict"}
  PROVE  LET answer == Replay(r, otherwise)
             order  == placed[KeyOf[r]]
         IN  /\ answer = "confirmed" => order.by \in Request /\ Basket[order.by] = Basket[r]
             /\ answer = "conflict"  => order.by \in Request /\ Basket[order.by] # Basket[r]
             /\ order.by = r => answer = "confirmed"
<1>1. KeyOf[r] \in Key /\ r # Nobody
  BY StockAssumption
<1> QED
  BY <1>1 DEF Owned, Replay, SameOrder

True(r) ==
  LET answer == checkout[r].answer
      order  == placed[KeyOf[r]]
  IN checkout[r].at = "answered" /\ answer # "lost" =>
       /\ answer = "confirmed" => order.by \in Request /\ Basket[order.by] = Basket[r]
       /\ answer = "conflict"  => order.by \in Request /\ Basket[order.by] # Basket[r]
       /\ order.by = r => answer = "confirmed"

LEMMA AnswersStep ==
  ASSUME TypeOK, Owned, OneWriter, Errors, AnswersAreTrue, [Next]_vars
  PROVE  AnswersAreTrue'
<1>1. \A r \in Request : KeyOf[r] \in Key /\ True(r) /\ r # Nobody
  BY StockAssumption DEF AnswersAreTrue, True
<1>2. (\A r \in Request : True(r)') => AnswersAreTrue'
  BY DEF AnswersAreTrue, True
<1>3. CASE \E r \in Request : Commit(r)
  <2>1. PICK r \in Request : Commit(r)
    BY <1>3
  <2>2. /\ ~IsPlaced(KeyOf[r]) /\ KeyOf[r] \in Key
        /\ checkout'[r].at = "ended" /\ \A q \in Request \ {r} : checkout'[q] = checkout[q]
    BY <1>1, <2>1, Moves DEF Commit, OneWriter, InTransaction, Places, Answers
  <2>3. placed'[KeyOf[r]].by = r /\ placed[KeyOf[r]].by = Nobody
    BY <2>1, <2>2, TypeParts DEF Commit, Owned
  <2>4. \A k \in Key \ {KeyOf[r]} : placed'[k] = placed[k]
    BY <2>1, TypeParts DEF Commit
  <2>5. Nobody \notin Request
    BY StockAssumption
  <2>6. ASSUME NEW q \in Request PROVE True(q)'
    <3>1. CASE q = r
      BY <2>2, <3>1 DEF True
    <3>2. CASE q # r /\ KeyOf[q] = KeyOf[r]
      BY <1>1, <2>2, <2>3, <2>5, <3>2 DEF True
    <3>3. CASE q # r /\ KeyOf[q] # KeyOf[r]
      BY <1>1, <2>2, <2>4, <3>3 DEF True
    <3> QED
      BY <3>1, <3>2, <3>3
  <2> QED
    BY <1>2, <2>6
<1>4. ASSUME \A k \in Key : placed'[k].by = placed[k].by
      PROVE  \A r \in Request : UNCHANGED checkout[r] => True(r)'
  BY <1>1, <1>4 DEF True
<1>5. ASSUME NEW r \in Request, NEW at \in Places, NEW answer \in Answers, At(r, at, answer), UNCHANGED placed,
             \/ at # "answered"
             \/ answer = "lost"
             \/ \E otherwise \in Answers \ {"confirmed", "conflict"} : answer = Replay(r, otherwise)
      PROVE  AnswersAreTrue'
  <2>1. checkout'[r].at = at /\ checkout'[r].answer = answer /\ \A q \in Request \ {r} : checkout'[q] = checkout[q]
    BY <1>5, Moves
  <2>2. True(r)'
    BY <1>5, <2>1, ReplayIsTrue DEF True
  <2> QED
    BY <1>2, <1>4, <1>5, <2>1, <2>2
<1>6. {"none", "refused", "failed", "out of stock", "lost"} \subseteq Answers \ {"confirmed", "conflict"}
      /\ {"looked", "opened", "reserving", "ended", "answered"} \subseteq Places
      /\ {"failed", "refused", "out of stock"} \subseteq Answers
  BY DEF Answers, Places
<1>7. ASSUME NEW r \in Request, NEW otherwise \in Answers \ {"confirmed", "conflict"},
             At(r, "answered", Replay(r, otherwise)), UNCHANGED placed
      PROVE  AnswersAreTrue'
  <2>1. Replay(r, otherwise) \in Answers
    BY Replays
  <2> QED
    BY <1>5, <1>6, <1>7, <2>1
<1>8. ASSUME NEW r \in Request, Look(r) PROVE AnswersAreTrue'
  <2>1. At(r, "answered", Replay(r, "none")) \/ At(r, "looked", "none")
    BY <1>8 DEF Look
  <2> QED
    BY <1>5, <1>6, <1>7, <1>8, <2>1 DEF Look
<1>9. ASSUME NEW r \in Request, PreviewRefused(r) PROVE AnswersAreTrue'
  BY <1>6, <1>7, <1>9 DEF PreviewRefused
<1>10. ASSUME NEW r \in Request, Answer(r) PROVE AnswersAreTrue'
  <2>1. checkout[r].answer \in Answers \ {"confirmed", "conflict"}
    BY <1>6, <1>10 DEF Answer, Errors
  <2> QED
    BY <1>7, <1>10, <2>1 DEF Answer
<1>11. ASSUME NEW r \in Request, Open(r) \/ Authorise(r) \/ Fail(r) \/ Die(r) PROVE AnswersAreTrue'
  BY <1>5, <1>6, <1>11 DEF Open, Authorise, Fail, Die
<1>12. ASSUME NEW r \in Request, NEW p \in Product, Reserve(r, p) PROVE AnswersAreTrue'
  <2>1. CASE UNCHANGED <<checkout, placed>>
    BY <1>2, <1>4, <2>1
  <2>2. CASE At(r, "ended", "out of stock")
    BY <1>5, <1>6, <1>12, <2>2 DEF Reserve
  <2> QED
    BY <1>12, <2>1, <2>2 DEF Reserve
<1>13. CASE UNCHANGED checkout
  <2>1. (\E r \in Request : Commit(r)) \/ \A k \in Key : placed'[k].by = placed[k].by
    BY OrdersKept
  <2> QED
    BY <1>2, <1>3, <1>4, <1>13, <2>1
<1> QED
  BY <1>3, <1>8, <1>9, <1>10, <1>11, <1>12, <1>13, NextCases DEF BeginCancel, Release, CommitCancel,
     AbortCancel, Proceed, SubmitForm, OpenForm, SetStock, Archive, vars

-----------------------------------------------------------------------------
(* The invariant.                                                          *)

IInv ==
  /\ TypeOK /\ RowsHeld /\ OneWriter /\ StillListed /\ Owned /\ Errors
  /\ ReservedIsPromised /\ AnswersAreTrue

LEMMA InvInit == Init => IInv
<1> SUFFICES ASSUME Init PROVE IInv
  OBVIOUS
<1>1. RowsHeld /\ OneWriter /\ StillListed /\ Errors /\ AnswersAreTrue
  BY DEF Init, RowsHeld, OneWriter, StillListed, Errors, AnswersAreTrue, InTransaction, Transaction
<1>2. Owned
  BY DEF Init, Owned, IsPlaced
<1>3. ReservedIsPromised
  <2>1. {k \in Key : IsPlaced(k) /\ placed[k].status # "cancelled"} = {}
    BY DEF Init, IsPlaced
  <2>2. \A p \in Product : inventory[p].reserved = 0
    BY DEF Init
  <2> QED
    BY <2>1, <2>2, SumEmpty DEF ReservedIsPromised
<1> QED
  BY <1>1, <1>2, <1>3, TypeInit DEF IInv

LEMMA InvStep == IInv /\ [Next]_vars => IInv'
BY TypeStep, RowsHeldStep, OneWriterStep, StillListedStep, OwnedStep, ErrorsStep, ReservedStep, AnswersStep
DEF IInv

LEMMA InvHolds == Spec => []IInv
BY InvInit, InvStep, PTL DEF Spec

-----------------------------------------------------------------------------
(* Theorems.                                                               *)

\* Whatever the requests, cancellations and operators do, every row keeps its
\* columns and no stock falls below zero.
THEOREM TypeCorrect == Spec => []TypeOK
BY InvHolds, PTL DEF IInv

\* inventory.reserved is always the units of the placed, uncancelled orders.
THEOREM ReservedExactly == Spec => []ReservedIsPromised
BY InvHolds, PTL DEF IInv

\* No customer is told of an order that is not there, or refused one that is.
THEOREM AnswersTrue == Spec => []AnswersAreTrue
BY InvHolds, PTL DEF IInv

\* The shared product locks: what commits is on sale at the total quoted.
THEOREM SoldListed == Spec => SoldAsListed
<1>1. ASSUME IInv, [Next]_vars, NEW r \in Request,
             placed'[KeyOf[r]].by = r, placed[KeyOf[r]].by # r
      PROVE  Authorised(r)
  <2>1. KeyOf[r] \in Key
    BY StockAssumption
  <2>2. PICK q \in Request : Commit(q)
    BY <1>1, <2>1, OrdersKept DEF IInv
  <2>3. q = r
    BY <1>1, <2>1, <2>2, TypeParts DEF Commit, IInv
  <2> QED
    BY <1>1, <2>2, <2>3 DEF Commit, IInv, StillListed
<1>2. IInv /\ [Next]_vars =>
        [\A r \in Request : placed'[KeyOf[r]].by = r /\ placed[KeyOf[r]].by # r => Authorised(r)]_vars
  BY <1>1
<1> QED
  BY <1>2, InvHolds, PTL DEF Spec, SoldAsListed

-----------------------------------------------------------------------------
(* The shelf.                                                              *)

OnShelf == [p \in Product |-> inventory[p].onHand]
Bought  == [k \in Key |->
  CASE placed[k].status = "none"      -> NotSold
    [] placed[k].status = "cancelled" -> Returned
    [] OTHER                          -> Basket[placed[k].by]]

\* The actions of Shelf in the variables of Stock.
LEMMA ShelfSteps ==
  /\ Shelf!Init <=> OnShelf \in [Product -> Nat] /\ Bought = [k \in Key |-> NotSold]
  /\ \A k, basket : Shelf!Sell(k, basket) <=>
       /\ Bought[k] = NotSold
       /\ \A p \in Product : OnShelf[p] >= basket[p]
       /\ Bought' = [Bought EXCEPT ![k] = basket]
       /\ OnShelf' = [p \in Product |-> OnShelf[p] - basket[p]]
  /\ \A k, basket : Shelf!TakeBack(k, basket) <=>
       /\ Bought[k] = basket
       /\ Bought' = [Bought EXCEPT ![k] = Returned]
       /\ OnShelf' = [p \in Product |-> OnShelf[p] + basket[p]]
  /\ \A p : Shelf!Recount(p) <=>
       /\ OnShelf'[p] \in Nat
       /\ OnShelf' = [OnShelf EXCEPT ![p] = OnShelf'[p]]
       /\ Bought' = Bought
  /\ UNCHANGED Shelf!shelf <=> OnShelf' = OnShelf /\ Bought' = Bought
BY DEF Shelf!Init, Shelf!Sell, Shelf!TakeBack, Shelf!Recount, Shelf!shelf, OnShelf, Bought

\* A shelf does not see what neither sells, returns nor recounts.
LEMMA NothingSold ==
  ASSUME \A k \in Key : placed'[k].by = placed[k].by /\ (IsPlaced(k)' <=> IsPlaced(k)),
         \A k \in Key : placed'[k].status = "cancelled" <=> placed[k].status = "cancelled"
  PROVE  Bought' = Bought
<1>1. \A k \in Key : /\ placed'[k].by = placed[k].by
                     /\ placed'[k].status = "none" <=> placed[k].status = "none"
                     /\ placed'[k].status = "cancelled" <=> placed[k].status = "cancelled"
  BY DEF IsPlaced
<1> QED
  BY <1>1 DEF Bought

LEMMA CommitSells ==
  ASSUME IInv, NEW r \in Request, Commit(r)
  PROVE  Shelf!Sell(KeyOf[r], Basket[r])
<1> DEFINE k == KeyOf[r]
<1>1. k \in Key /\ placed[k].status = "none"
  BY StockAssumption DEF IInv, OneWriter, Commit, InTransaction, IsPlaced
<1>2. placed'[k].by = r /\ placed'[k].status = "open" /\ \A j \in Key \ {k} : placed'[j] = placed[j]
  BY <1>1, TypeParts DEF Commit, IInv
<1>3. Bought[k] = NotSold /\ Bought' = [Bought EXCEPT ![k] = Basket[r]]
  BY <1>1, <1>2 DEF Bought
<1>4. \A p \in Product : /\ inventory[p].onHand >= Basket[r][p]
                         /\ inventory'[p].onHand = inventory[p].onHand - Basket[r][p]
  BY CommitTakes DEF IInv
<1>5. /\ \A p \in Product : OnShelf[p] >= Basket[r][p]
      /\ OnShelf' = [p \in Product |-> OnShelf[p] - Basket[r][p]]
  BY <1>4 DEF OnShelf
<1> QED
  BY <1>3, <1>5, ShelfSteps

LEMMA CancelTakesBack ==
  ASSUME IInv, NEW k \in Key, CommitCancel(k)
  PROVE  \E r \in Request : Shelf!TakeBack(k, Basket[r])
<1>1. placed[k].status = "cancelling"
  BY DEF CommitCancel, Cancelling
<1>2. placed'[k].status = "cancelled" /\ \A j \in Key \ {k} : placed'[j] = placed[j]
  BY Sets DEF CommitCancel, States, IInv
<1>3. Bought[k] = Basket[placed[k].by] /\ Bought' = [Bought EXCEPT ![k] = Returned]
  BY <1>1, <1>2 DEF Bought
<1>4. /\ placed[k].by \in Request
      /\ \A p \in Product : inventory'[p].onHand = inventory[p].onHand + Basket[placed[k].by][p]
  BY CancelReturns DEF IInv
<1>5. PICK r \in Request : r = placed[k].by
  BY <1>4
<1>6. OnShelf' = [p \in Product |-> OnShelf[p] + Basket[r][p]]
  BY <1>4, <1>5 DEF OnShelf
<1>7. Bought[k] = Basket[r] /\ Bought' = [Bought EXCEPT ![k] = Returned]
  BY <1>3, <1>5
<1>8. Shelf!TakeBack(k, Basket[r])
  BY <1>6, <1>7, ShelfSteps
<1> QED
  BY <1>8

LEMMA OperatorRecounts ==
  ASSUME IInv,
         \/ \E a \in Admin : SubmitForm(a)
         \/ \E p \in Product : SetStock(p) \/ Archive(p)
  PROVE  \E p \in Product : Shelf!Recount(p)
<1>1. PICK p \in Product, stock \in Nat :
        inventory' = [inventory EXCEPT ![p] = [onHand |-> stock, reserved |-> inventory[p].reserved]]
  BY OperatorSets DEF IInv
<1>2. inventory'[p].onHand = stock /\ \A q \in Product \ {p} : inventory'[q] = inventory[q]
  BY <1>1, TypeParts DEF IInv
<1>3. OnShelf'[p] \in Nat /\ OnShelf' = [OnShelf EXCEPT ![p] = OnShelf'[p]]
  BY <1>2 DEF OnShelf
<1>4. UNCHANGED placed
  BY DEF SubmitForm, SetStock, Archive
<1>5. Bought' = Bought
  BY <1>4 DEF Bought
<1> QED
  BY <1>3, <1>5, ShelfSteps

LEMMA ShelfStep == IInv /\ [Next]_vars => [Shelf!Next]_(Shelf!shelf)
<1> SUFFICES ASSUME IInv, [Next]_vars PROVE [Shelf!Next]_(Shelf!shelf)
  OBVIOUS
<1>1. ASSUME NEW r \in Request, Commit(r) PROVE Shelf!Next
  <2>1. KeyOf[r] \in Key /\ Basket[r] \in {Basket[q] : q \in Request}
    BY StockAssumption
  <2> QED
    BY <1>1, <2>1, CommitSells DEF Shelf!Next
<1>2. ASSUME NEW k \in Key, CommitCancel(k) PROVE Shelf!Next
  <2>1. PICK r \in Request : Shelf!TakeBack(k, Basket[r])
    BY <1>2, CancelTakesBack
  <2>2. Basket[r] \in {Basket[q] : q \in Request}
    OBVIOUS
  <2> QED
    BY <2>1, <2>2 DEF Shelf!Next
<1>3. ASSUME \/ \E a \in Admin : SubmitForm(a)
             \/ \E p \in Product : SetStock(p) \/ Archive(p)
      PROVE  Shelf!Next
  BY <1>3, OperatorRecounts DEF Shelf!Next
<1>4. ASSUME UNCHANGED inventory,
             ~ \E r \in Request : Commit(r), ~ \E k \in Key : CommitCancel(k)
      PROVE  UNCHANGED Shelf!shelf
  <2>1. Bought' = Bought
    BY <1>4, OrdersKept, NothingSold DEF IInv
  <2>2. OnShelf' = OnShelf
    BY <1>4 DEF OnShelf
  <2> QED
    BY <2>1, <2>2, ShelfSteps
<1>5. \/ \E r \in Request : Commit(r)
      \/ \E k \in Key : CommitCancel(k)
      \/ \E a \in Admin : SubmitForm(a)
      \/ \E p \in Product : SetStock(p) \/ Archive(p)
      \/ UNCHANGED inventory
  BY NextCases DEF Look, PreviewRefused, Open, Authorise, Answer, Reserve, Fail, Die,
     BeginCancel, Proceed, Release, AbortCancel, OpenForm, vars
<1> QED
  BY <1>1, <1>2, <1>3, <1>4, <1>5

\* Row by row updates, retries, deadlocks and rollbacks come to what a shelf
\* does: a basket leaves whole, once for its key and only if it is all there,
\* and comes back whole and once.
THEOREM StockIsAShelf == Spec => ImplementsShelf
<1>1. Init => Shelf!Init
  <2> SUFFICES ASSUME Init PROVE Shelf!Init
    OBVIOUS
  <2>1. OnShelf \in [Product -> Nat]
    BY StockAssumption DEF Init, OnShelf
  <2>2. Bought = [k \in Key |-> NotSold]
    BY DEF Init, Bought
  <2> QED
    BY <2>1, <2>2, ShelfSteps
<1> QED
  BY <1>1, ShelfStep, InvHolds, PTL DEF Spec, Shelf!Spec, ImplementsShelf

-----------------------------------------------------------------------------
(* Lock waits.                                                             *)

\* A transaction that has begun to update inventory rows.
Active(t) == IF t \in Request THEN checkout[t].at = "reserving" ELSE Cancelling(t)

LocksOpen == \A t \in Transaction : locks[t] # {} => Active(t)

\* Checkouts take the rows by product id.
Ascending ==
  \A r \in Request : \A p \in locks[r], q \in RowsLeft(r) : IdRank[p] < IdRank[q]

\* What a step does to the rows of a transaction.
Drops(t) == locks'[t] = {} /\ ~Active(t)'
Keeps(t) == locks'[t] = locks[t] /\ (Active(t) => Active(t)')
Takes(t) == /\ Active(t) /\ Active(t)'
            /\ \E p \in Product : /\ IsNext(t, p) /\ RowFree(p)
                                  /\ locks'[t] = locks[t] \cup {p}

LEMMA Sides ==
  /\ \A r \in Request : r \in Transaction /\ r \notin Key
  /\ \A k \in Key : k \in Transaction /\ k \notin Request
  /\ \A t \in Transaction : t \in Request \/ t \in Key
BY StockAssumption DEF Transaction

LEMMA ActiveRequest ==
  ASSUME NEW r \in Request
  PROVE  (Active(r) <=> checkout[r].at = "reserving") /\ (Active(r)' <=> checkout'[r].at = "reserving")
BY DEF Active

LEMMA ActiveKey ==
  ASSUME NEW k \in Key
  PROVE  /\ Active(k) <=> placed[k].status = "cancelling"
         /\ Active(k)' <=> placed'[k].status = "cancelling"
BY Sides DEF Active, Cancelling

\* A step that leaves alone what t is and holds.
LEMMA Untouched ==
  ASSUME NEW t \in Transaction, locks'[t] = locks[t],
         t \in Request => checkout'[t] = checkout[t],
         t \in Key => placed'[t] = placed[t]
  PROVE  Keeps(t)
BY Sides, ActiveRequest, ActiveKey DEF Keeps

\* The steps of a request.
LEMMA RequestsMoveRows ==
  ASSUME TypeOK, OneWriter, NEW r \in Request, Checkout(r), NEW t \in Transaction
  PROVE  Drops(t) \/ Keeps(t) \/ Takes(t)
<1>1. /\ locks \in [Transaction -> SUBSET Product] /\ r \in Transaction /\ KeyOf[r] \in Key
      /\ checkout[r].answer \in Answers
  BY TypeParts, Sides, StockAssumption DEF Checkouts
<1>2. {"looked", "opened", "reserving", "ended", "answered"} \subseteq Places
      /\ {"none", "failed", "refused", "out of stock", "lost"} \subseteq Answers
  BY DEF Places, Answers
<1>3. \A otherwise \in Answers : Replay(r, otherwise) \in Answers
  BY Replays
\* It moves within its place in the handler and leaves the rows alone.
<1>4. ASSUME NEW at \in Places, NEW answer \in Answers, At(r, at, answer),
             checkout[r].at # "reserving", UNCHANGED <<placed, locks>>
      PROVE  Keeps(t)
  <2>1. CASE t = r
    BY <1>4, <2>1, ActiveRequest DEF Keeps
  <2>2. CASE t # r
    BY <1>4, <2>2, Moves, Untouched
  <2> QED
    BY <2>1, <2>2
\* It ends, and gives its rows back.
<1>5. ASSUME NEW at \in {"ended", "answered"}, NEW answer \in Answers, At(r, at, answer), Unlock(r),
             t \in Key => placed'[t] = placed[t] \/ (~Active(t) /\ ~Active(t)')
      PROVE  Drops(t) \/ Keeps(t)
  <2>1. at \in Places
    BY <1>2
  <2>2. CASE t = r
    <3>1. locks'[t] = {} /\ checkout'[t].at = at
      BY <1>1, <1>5, <2>1, <2>2, Moves, Unlocks
    <3> QED
      BY <2>2, <3>1, ActiveRequest DEF Drops
  <2>3. CASE t # r
    <3>1. locks'[t] = locks[t]
      BY <1>1, <1>5, <2>3 DEF Unlock
    <3>2. t \in Request => checkout'[t] = checkout[t]
      BY <1>5, <2>1, <2>3, Moves
    <3> QED
      BY <1>5, <3>1, <3>2, Untouched DEF Keeps
  <2> QED
    BY <2>2, <2>3
<1>6. CASE Look(r)
  <2>1. \E at \in Places, answer \in Answers : At(r, at, answer)
    BY <1>2, <1>3, <1>6 DEF Look
  <2> QED
    BY <1>4, <1>6, <2>1 DEF Look
<1>7. CASE PreviewRefused(r) \/ Answer(r)
  <2>1. \E at \in Places, answer \in Answers : At(r, at, answer)
    BY <1>1, <1>2, <1>3, <1>7 DEF PreviewRefused, Answer
  <2> QED
    BY <1>4, <1>7, <2>1 DEF PreviewRefused, Answer
<1>8. CASE Open(r)
  BY <1>2, <1>4, <1>8 DEF Open
<1>9. CASE Authorise(r)
  BY <1>2, <1>4, <1>9 DEF Authorise
<1>10. ASSUME NEW p \in Product, Reserve(r, p) PROVE Drops(t) \/ Keeps(t) \/ Takes(t)
  <2>1. IsNext(r, p) /\ RowFree(p) /\ UNCHANGED placed /\ checkout[r].at = "reserving"
    BY <1>10 DEF Reserve, IsNext, RowsLeft
  <2>2. CASE Unlock(r) /\ At(r, "ended", "out of stock")
    BY <1>2, <1>5, <2>1, <2>2
  <2>3. CASE locks' = [locks EXCEPT ![r] = @ \cup {p}] /\ UNCHANGED checkout
    <3>1. locks'[r] = locks[r] \cup {p} /\ \A u \in Transaction \ {r} : locks'[u] = locks[u]
      BY <1>1, <2>3
    <3>2. CASE t = r
      BY <2>1, <2>3, <3>1, <3>2, ActiveRequest DEF Takes
    <3>3. CASE t # r
      BY <2>1, <2>3, <3>1, <3>3, Untouched
    <3> QED
      BY <3>2, <3>3
  <2> QED
    BY <1>10, <2>2, <2>3 DEF Reserve
<1>11. CASE Commit(r)
  <2>1. ~IsPlaced(KeyOf[r])
    BY <1>11 DEF Commit, OneWriter, InTransaction
  <2>2. placed' = [placed EXCEPT ![KeyOf[r]] = [by |-> r, status |-> "open"]]
    BY <1>11 DEF Commit
  <2>3. ASSUME t \in Key PROVE placed'[t] = placed[t] \/ (~Active(t) /\ ~Active(t)')
    <3>1. CASE t = KeyOf[r]
      <4>1. placed'[t].status = "open" /\ placed[t].status = "none"
        BY <1>1, <2>1, <2>2, <3>1, TypeParts DEF IsPlaced
      <4> QED
        BY <2>3, <4>1, ActiveKey
    <3>2. CASE t # KeyOf[r]
      BY <2>2, <2>3, <3>2, TypeParts
    <3> QED
      BY <3>1, <3>2
  <2> QED
    BY <1>2, <1>5, <1>11, <2>3 DEF Commit
<1>12. CASE Fail(r) \/ Die(r)
  BY <1>2, <1>5, <1>12 DEF Fail, Die
<1> QED
  BY <1>6, <1>7, <1>8, <1>9, <1>10, <1>11, <1>12 DEF Checkout

\* The steps of a cancellation.
LEMMA CancellationsMoveRows ==
  ASSUME TypeOK, NEW k \in Key, Cancellation(k), NEW t \in Transaction
  PROVE  Drops(t) \/ Keeps(t) \/ Takes(t)
<1>1. locks \in [Transaction -> SUBSET Product] /\ k \in Transaction
      /\ {"open", "cancelling", "cancelled", "under way"} \subseteq States
  BY TypeParts, Sides DEF States
<1>2. ASSUME NEW status \in States, SetStatus(k, status), UNCHANGED <<checkout, locks>>,
             placed[k].status = "open"
      PROVE  Keeps(t)
  <2>1. CASE t = k
    BY <1>2, <2>1, ActiveKey DEF Keeps
  <2>2. CASE t # k
    BY <1>2, <2>2, Sets, Untouched
  <2> QED
    BY <2>1, <2>2
<1>3. ASSUME NEW status \in {"open", "cancelled"}, SetStatus(k, status), Unlock(k), UNCHANGED checkout
      PROVE  Drops(t) \/ Keeps(t)
  <2>1. status \in States
    BY <1>1
  <2>2. CASE t = k
    <3>1. locks'[t] = {} /\ placed'[t].status = status
      BY <1>1, <1>3, <2>1, <2>2, Sets, Unlocks
    <3> QED
      BY <2>2, <3>1, ActiveKey DEF Drops
  <2>3. CASE t # k
    <3>1. locks'[t] = locks[t]
      BY <1>1, <1>3, <2>3 DEF Unlock
    <3>2. t \in Key => placed'[t] = placed[t]
      BY <1>3, <2>1, <2>3, Sets
    <3> QED
      BY <1>3, <3>1, <3>2, Untouched
  <2> QED
    BY <2>2, <2>3
<1>4. ASSUME NEW p \in Product, Release(k, p) PROVE Keeps(t) \/ Takes(t)
  <2>1. IsNext(k, p) /\ RowFree(p) /\ UNCHANGED <<placed, checkout>> /\ Active(k)
    BY <1>4, Sides, ActiveKey DEF Release, IsNext, RowsLeft, Cancelling
  <2>2. locks'[k] = locks[k] \cup {p} /\ \A u \in Transaction \ {k} : locks'[u] = locks[u]
    BY <1>1, <1>4 DEF Release
  <2>3. CASE t = k
    BY <2>1, <2>2, <2>3, ActiveKey DEF Takes
  <2>4. CASE t # k
    BY <2>1, <2>2, <2>4, Untouched
  <2> QED
    BY <2>3, <2>4
<1> QED
  BY <1>1, <1>2, <1>3, <1>4 DEF Cancellation, BeginCancel, CommitCancel, AbortCancel, Proceed

LEMMA RowsMove ==
  ASSUME TypeOK, OneWriter, [Next]_vars, NEW t \in Transaction
  PROVE  Drops(t) \/ Keeps(t) \/ Takes(t)
<1>1. CASE Operator \/ UNCHANGED vars
  BY <1>1, Untouched DEF Operator, SubmitForm, OpenForm, SetStock, Archive, vars
<1> QED
  BY <1>1, RequestsMoveRows, CancellationsMoveRows DEF Next

LEMMA LocksOpenStep == TypeOK /\ OneWriter /\ LocksOpen /\ [Next]_vars => LocksOpen'
<1> SUFFICES ASSUME TypeOK, OneWriter, LocksOpen, [Next]_vars, NEW t \in Transaction, locks'[t] # {}
             PROVE  Active(t)'
  BY DEF LocksOpen
<1> QED
  BY RowsMove DEF Drops, Keeps, Takes, LocksOpen

\* A checkout takes the row of the least id it has left, and ids differ.
LEMMA AscendingStep ==
  TypeOK /\ OneWriter /\ LocksOpen /\ Ascending /\ [Next]_vars => Ascending'
<1> SUFFICES ASSUME TypeOK, OneWriter, LocksOpen, Ascending, [Next]_vars,
                    NEW r \in Request, NEW p \in locks'[r], NEW q \in RowsLeft(r)'
             PROVE  IdRank[p] < IdRank[q]
  BY DEF Ascending
<1>1. Active(r)' /\ q \in Lines(Basket[r]) /\ q \notin locks'[r]
  BY ActiveRequest DEF RowsLeft
<1>2. Active(r)
  <2>1. Keeps(r) \/ Takes(r)
    BY <1>1, Sides, RowsMove DEF Drops
  <2> QED
    BY <2>1, Sides DEF Keeps, Takes, LocksOpen
<1>3. RowsLeft(r) = Lines(Basket[r]) \ locks[r]
  BY <1>2, ActiveRequest DEF RowsLeft
<1>4. CASE Keeps(r)
  BY <1>1, <1>3, <1>4 DEF Keeps, Ascending
<1>5. ASSUME NEW s \in Product, IsNext(r, s), locks'[r] = locks[r] \cup {s}
      PROVE  IdRank[p] < IdRank[q]
  <2>1. q \in RowsLeft(r) /\ q # s /\ q \in Product
    BY <1>1, <1>3, <1>5 DEF Lines
  <2>2. CASE p \in locks[r]
    BY <2>1, <2>2 DEF Ascending
  <2>3. CASE p = s
    <3>1. IdRank[s] <= IdRank[q]
      BY <1>5, <2>1 DEF IsNext, Rank
    <3>2. IdRank[s] \in Nat /\ IdRank[q] \in Nat /\ IdRank[s] # IdRank[q]
      BY <2>1, RankAssumption
    <3> QED
      BY <2>3, <3>1, <3>2
  <2> QED
    BY <1>5, <2>2, <2>3
<1> QED
  BY <1>1, <1>4, <1>5, Sides, RowsMove DEF Drops, Takes

LEMMA LocksInit == Init => LocksOpen /\ Ascending
BY Sides DEF Init, LocksOpen, Ascending

LInv == IInv /\ LocksOpen /\ Ascending

LEMMA LocksHold == Spec => []LInv
<1>1. Init => LInv
  BY InvInit, LocksInit DEF LInv
<1>2. LInv /\ [Next]_vars => LInv'
  BY InvStep, LocksOpenStep, AscendingStep DEF LInv, IInv
<1> QED
  BY <1>1, <1>2, PTL DEF Spec

-----------------------------------------------------------------------------
(* Who has to wait.                                                        *)

\* Naturals assigned to the members of a set have a least one.
LEMMA SomeLeast ==
  ASSUME NEW S, S # {}, NEW f, \A x \in S : f[x] \in Nat
  PROVE  \E x \in S : \A y \in S : f[x] <= f[y]
<1> DEFINE T == {f[x] : x \in S}
<1>1. PICK R : R = OpToRel(<, Nat)
  OBVIOUS
<1>2. \A ss \in Nat \X Nat : ss \in R <=> ss[1] < ss[2]
  BY <1>1, Zenon DEF OpToRel
<1>3. IsWellFoundedOn(R, Nat)
  BY <1>1, NatLessThanWellFounded
<1>4. T \in SUBSET Nat /\ T # {}
  OBVIOUS
<1> HIDE DEF T
<1>5. PICK n \in T : \A m \in T : <<m, n>> \notin R
  BY <1>3, <1>4, WFMin
<1>6. ASSUME NEW m \in T PROVE n <= m
  <2>1. <<m, n>> \in Nat \X Nat /\ <<m, n>>[1] = m /\ <<m, n>>[2] = n
    BY <1>4
  <2>2. ~ (m < n)
    BY <1>2, <1>5, <2>1
  <2> QED
    BY <1>4, <2>2
<1> QED
  BY <1>6 DEF T

\* And a greatest one, if the set is finite: the one with fewest above it.
LEMMA SomeGreatest ==
  ASSUME NEW S, S # {}, IsFiniteSet(S), NEW f, \A x \in S : f[x] \in Nat
  PROVE  \E x \in S : \A y \in S : f[y] <= f[x]
<1> DEFINE Above(x) == {y \in S : f[x] < f[y]}
           above    == [x \in S |-> Cardinality(Above(x))]
<1>1. \A x \in S : IsFiniteSet(Above(x)) /\ above[x] \in Nat
  BY FS_Subset, FS_CardinalityType
<1> HIDE DEF above
<1>2. PICK x \in S : \A y \in S : above[x] <= above[y]
  BY <1>1, SomeLeast
<1>3. ASSUME NEW y \in S, f[x] < f[y] PROVE FALSE
  <2>1. Above(y) \in SUBSET Above(x) /\ y \in Above(x) /\ y \notin Above(y)
    BY <1>3
  <2>2. above[y] <= above[x] /\ above[y] # above[x]
    BY <1>1, <2>1, FS_Subset DEF above
  <2>3. above[x] <= above[y] /\ above[x] \in Nat /\ above[y] \in Nat
    BY <1>1, <1>2
  <2> QED
    BY <2>2, <2>3
<1> QED
  BY <1>3

\* The order in which a transaction takes its rows.
LEMMA Ranks ==
  ASSUME TypeOK, Owned, NEW t \in Transaction, Active(t)
  PROVE  /\ \A p \in RowsLeft(t) : p \in Product /\ p \notin locks[t] /\ Rank(t)[p] \in Nat
         /\ RowsLeft(t) # {} => \E p \in Product : IsNext(t, p)
<1>1. t \in Key => placed[t].by \in Request
  BY ActiveKey DEF Owned, IsPlaced
<1>2. \A p \in RowsLeft(t) : p \in Product /\ p \notin locks[t]
  BY DEF RowsLeft, Lines
<1>3. \A p \in Product : Rank(t)[p] \in Nat
  BY <1>1, Sides, RankAssumption DEF Rank
<1>4. ASSUME RowsLeft(t) # {} PROVE \E p \in RowsLeft(t) : \A q \in RowsLeft(t) : Rank(t)[p] <= Rank(t)[q]
  <2> DEFINE f == Rank(t)
             S == RowsLeft(t)
  <2>1. S # {} /\ \A p \in S : f[p] \in Nat
    BY <1>2, <1>3, <1>4
  <2> HIDE DEF f, S
  <2>2. \E p \in S : \A q \in S : f[p] <= f[q]
    BY <2>1, SomeLeast
  <2> QED
    BY <2>2 DEF f, S
<1> QED
  BY <1>2, <1>3, <1>4 DEF IsNext

\* The checkouts in their transactions are finitely many: each holds a key.
LEMMA FinitelyMany ==
  ASSUME OneWriter, NEW D \in SUBSET Request, \A d \in D : InTransaction(d)
  PROVE  IsFiniteSet(D)
<1> DEFINE f == [d \in D |-> KeyOf[d]]
<1>1. \A d, e \in D : d # e => KeyOf[d] # KeyOf[e]
  BY DEF OneWriter
<1>2. f \in [D -> Key] /\ \A d, e \in D : f[d] = f[e] => d = e
  BY <1>1, StockAssumption
<1>3. f \in Injection(D, Key)
  BY <1>2 DEF Injection, IsInjective
<1> QED
  BY <1>3, StockAssumption, FS_Injection

NoCircleOfCheckouts ==
  ~ \E D \in SUBSET Request : D # {} /\ \A d \in D : \E e \in D : WaitsFor(d, e)

LEMMA NoCircle == LInv => NoCircleOfCheckouts
<1> SUFFICES ASSUME LInv, NEW D \in SUBSET Request, D # {},
                    \A d \in D : \E e \in D : WaitsFor(d, e)
             PROVE  FALSE
  BY DEF NoCircleOfCheckouts
<1>1. TypeOK /\ OneWriter /\ Ascending
  BY DEF LInv, IInv
\* The id of the row that each of them waits for.
<1> DEFINE row  == [d \in D |-> CHOOSE p \in Product : IsNext(d, p)]
           rank == [d \in D |-> IdRank[row[d]]]
<1>2. ASSUME NEW d \in D
      PROVE  /\ row[d] \in Product /\ IsNext(d, row[d])
             /\ rank[d] \in Nat /\ InTransaction(d)
  <2>1. \E p \in Product : IsNext(d, p)
    BY DEF WaitsFor, IsNext, RowsLeft, Lines
  <2>2. row[d] \in Product /\ IsNext(d, row[d])
    BY <2>1
  <2>3. InTransaction(d)
    BY <2>2 DEF IsNext, RowsLeft, InTransaction
  <2> QED
    BY <2>2, <2>3, RankAssumption
<1> HIDE DEF row
<1>3. IsFiniteSet(D)
  BY <1>1, <1>2, FinitelyMany
<1>4. ASSUME NEW d \in D, NEW e \in D, WaitsFor(d, e)
      PROVE  rank[d] < rank[e]
  <2>1. PICK p \in locks[e] : IsNext(d, p)
    BY <1>4 DEF WaitsFor
  <2>2. row[e] \in RowsLeft(e) /\ row[d] \in RowsLeft(d) /\ p \in RowsLeft(d) /\ p \in Product
    BY <1>2, <2>1 DEF IsNext, RowsLeft, Lines
  <2>3. IdRank[p] < IdRank[row[e]]
    BY <1>1, <2>2 DEF Ascending
  <2>4. IdRank[row[d]] <= IdRank[p]
    BY <1>2, <2>2 DEF IsNext, Rank
  <2>5. IdRank[p] \in Nat /\ IdRank[row[d]] \in Nat /\ IdRank[row[e]] \in Nat
    BY <1>2, <2>2, RankAssumption
  <2> QED
    BY <2>3, <2>4, <2>5
<1>5. \A d \in D : rank[d] \in Nat
  BY <1>2
<1> HIDE DEF rank
<1>6. PICK d \in D : \A e \in D : rank[e] <= rank[d]
  BY <1>3, <1>5, SomeGreatest
<1>7. PICK e \in D : WaitsFor(d, e)
  OBVIOUS
<1> QED
  BY <1>4, <1>5, <1>6, <1>7

\* lib/inventory.ts updates a basket's rows sorted by product id, and that is
\* enough: however many checkouts wait for rows of one another, they never
\* wait in a circle.
THEOREM CheckoutsMakeNoCircle == Spec => []NoCircleOfCheckouts
BY LocksHold, NoCircle, PTL

\* A release never finds less reserved than it takes back: INVENTORY_INVARIANT
\* in lib/order-transition.ts is never raised, whatever the operators counted.
NothingMissing ==
  \A k \in Key : Cancelling(k) =>
    \A p \in Lines(Basket[placed[k].by]) : inventory[p].reserved >= Basket[placed[k].by][p]

LEMMA NoneMissing == IInv => NothingMissing
BY PromisedIsReserved DEF IInv, NothingMissing, Cancelling, Promised, IsPlaced, Lines

\* A cancellation never raises INVENTORY_INVARIANT.
THEOREM ReleasesFindTheirUnits == Spec => []NothingMissing
BY InvHolds, NoneMissing, PTL

\* A checkout or a cancellation that has begun and not ended.
UnderWay(t) ==
  IF t \in Request THEN checkout[t].at \in {"looked", "opened", "reserving", "ended"}
  ELSE Cancelling(t)

\* It has a step to take, other than failing.
MayTake(t, p) ==
  /\ IsNext(t, p) /\ RowFree(p)
  /\ t \in Key => inventory[p].reserved >= Basket[placed[t].by][p]

MayGoOn(t) ==
  \/ t \in Request /\ checkout[t].at \in {"opened", "ended"}
  \/ t \in Request /\ checkout[t].at = "looked" /\ KeyFree(KeyOf[t])
  \/ Active(t) /\ (RowsLeft(t) = {} \/ \E p \in Product : MayTake(t, p))

SomebodyGoesOn ==
  (\E t \in Transaction : UnderWay(t)) =>
    (\E t \in Transaction : MayGoOn(t)) \/ \E k \in Key : Deadlocked(k)

LEMMA NotAllWait == LInv => SomebodyGoesOn
<1> SUFFICES ASSUME LInv, NEW t0 \in Transaction, UnderWay(t0), \A t \in Transaction : ~MayGoOn(t)
             PROVE  \E k \in Key : Deadlocked(k)
  BY DEF SomebodyGoesOn
<1>1. TypeOK /\ Owned /\ LocksOpen /\ NothingMissing
  BY NoneMissing DEF LInv, IInv
<1> DEFINE D == {t \in Transaction : Active(t)}
<1>2. D # {}
  <2>1. ASSUME NEW r \in Request, InTransaction(r) PROVE r \in D
    BY <2>1, Sides, ActiveRequest DEF InTransaction, MayGoOn
  <2>2. CASE t0 \in Request
    <3>1. checkout[t0].at \in {"looked", "reserving"}
      BY <2>2 DEF UnderWay, MayGoOn
    <3>2. CASE checkout[t0].at = "looked"
      <4>1. \E r \in Request : InTransaction(r)
        BY <2>2, <3>2 DEF MayGoOn, KeyFree
      <4> QED
        BY <2>1, <4>1
    <3>3. CASE checkout[t0].at = "reserving"
      BY <2>1, <2>2, <3>3 DEF InTransaction
    <3> QED
      BY <3>1, <3>2, <3>3
  <2>3. CASE t0 \notin Request
    BY <2>3 DEF UnderWay, Active
  <2> QED
    BY <2>2, <2>3
<1>3. ASSUME NEW d \in D PROVE \E e \in D : WaitsFor(d, e)
  <2>1. Active(d) /\ RowsLeft(d) # {} /\ \A p \in Product : ~MayTake(d, p)
    BY DEF MayGoOn
  <2>2. PICK p \in Product : IsNext(d, p)
    BY <1>1, <2>1, Ranks
  <2>3. p \in RowsLeft(d) /\ p \notin locks[d]
    BY <1>1, <2>1, <2>2, Ranks DEF IsNext
  <2>4. ASSUME d \in Key PROVE inventory[p].reserved >= Basket[placed[d].by][p]
    <3>1. Cancelling(d) /\ p \in Lines(Basket[placed[d].by])
      BY <2>1, <2>3, <2>4, Sides, ActiveKey DEF RowsLeft, Cancelling
    <3> QED
      BY <1>1, <2>4, <3>1 DEF NothingMissing
  <2>5. PICK e \in Transaction : p \in locks[e]
    BY <2>1, <2>2, <2>4 DEF MayTake, RowFree
  <2>6. e \in D /\ e # d
    BY <1>1, <2>3, <2>5 DEF LocksOpen
  <2> QED
    BY <2>2, <2>5, <2>6 DEF WaitsFor
<1>4. PICK k \in D : k \in Key
  BY <1>2, <1>3, NoCircle, Sides DEF NoCircleOfCheckouts
<1>5. Deadlocked(k)
  BY <1>3, <1>4, D \in SUBSET Transaction DEF Deadlocked
<1> QED
  BY <1>4, <1>5

\* Whoever waits, somebody can go on, unless cancellations are caught in a
\* circle that PostgreSQL has to break: no set of checkouts and cancellations
\* stops for any other reason.
THEOREM WaitsEndOrAreDeadlocks == Spec => []SomebodyGoesOn
BY LocksHold, NotAllWait, PTL

\* Rows are taken one at a time, each when it is free and due, and all are
\* given back together by the end of the transaction.
RowByRow == [][\A t \in Transaction : Drops(t) \/ Keeps(t) \/ Takes(t)]_vars

\* The row locks of checkouts and cancellations are two-phase.
THEOREM RowsAreTakenInOrder == Spec => RowByRow
<1>1. IInv /\ [Next]_vars => [\A t \in Transaction : Drops(t) \/ Keeps(t) \/ Takes(t)]_vars
  BY RowsMove DEF IInv
<1> QED
  BY <1>1, InvHolds, PTL DEF Spec, RowByRow

-----------------------------------------------------------------------------
(* Who can oversell.                                                       *)

\* Nobody's form or recount puts more on hand than there is.
StockIsNotRaised ==
  [][Operator => \A p \in Product : inventory'[p].onHand <= inventory[p].onHand]_vars

WithinOpeningStock ==
  \A p \in Product : inventory[p].onHand + inventory[p].reserved <= OpeningStock[p]

LEMMA StockStep ==
  ASSUME IInv, WithinOpeningStock, [Next]_vars,
         [Operator => \A p \in Product : inventory'[p].onHand <= inventory[p].onHand]_vars
  PROVE  WithinOpeningStock'
<1> SUFFICES ASSUME NEW p \in Product
             PROVE  inventory'[p].onHand + inventory'[p].reserved <= OpeningStock[p]
  BY DEF WithinOpeningStock
<1> DEFINE onHand   == inventory[p].onHand
           reserved == inventory[p].reserved
<1>1. /\ TypeOK /\ RowsHeld /\ Owned /\ ReservedIsPromised
      /\ onHand \in Nat /\ reserved \in Nat /\ OpeningStock[p] \in Nat
      /\ onHand + reserved <= OpeningStock[p]
  BY TypeParts, StockAssumption DEF IInv, WithinOpeningStock
<1>2. ASSUME NEW r \in Request, Commit(r)
      PROVE  inventory'[p].onHand + inventory'[p].reserved <= OpeningStock[p]
  <2>1. inventory'[p].onHand = onHand - Basket[r][p] /\ inventory'[p].reserved = reserved + Basket[r][p]
    BY <1>1, <1>2, CommitTakes
  <2> HIDE DEF onHand, reserved
  <2> QED
    BY <1>1, <2>1, Quantities
<1>3. ASSUME NEW k \in Key, CommitCancel(k)
      PROVE  inventory'[p].onHand + inventory'[p].reserved <= OpeningStock[p]
  <2>1. /\ placed[k].by \in Request
        /\ inventory'[p].onHand = onHand + Basket[placed[k].by][p]
        /\ inventory'[p].reserved = reserved - Basket[placed[k].by][p]
    BY <1>1, <1>3, CancelReturns
  <2> HIDE DEF onHand, reserved
  <2> QED
    BY <1>1, <2>1, Quantities
<1>4. ASSUME \/ \E a \in Admin : SubmitForm(a)
             \/ \E q \in Product : SetStock(q) \/ Archive(q)
      PROVE  inventory'[p].onHand + inventory'[p].reserved <= OpeningStock[p]
  <2>1. PICK q \in Product, stock \in Nat :
          inventory' = [inventory EXCEPT ![q] = [onHand |-> stock, reserved |-> inventory[q].reserved]]
    BY <1>1, <1>4, OperatorSets
  <2>2. inventory'[p].reserved = reserved /\ inventory'[p].onHand \in Nat
    BY <1>1, <2>1, TypeParts
  <2>3. inventory'[p].onHand <= onHand
    BY <1>1, <1>4 DEF Operator, vars
  <2> HIDE DEF onHand, reserved
  <2> QED
    BY <1>1, <2>2, <2>3
<1>5. ASSUME UNCHANGED inventory PROVE inventory'[p].onHand + inventory'[p].reserved <= OpeningStock[p]
  BY <1>1, <1>5
<1> QED
  BY <1>2, <1>3, <1>4, <1>5, NextCases DEF Look, PreviewRefused, Open, Authorise, Answer, Reserve,
     Fail, Die, BeginCancel, Proceed, Release, AbortCancel, OpenForm, vars

\* lib/inventory.ts: "concurrent orders unable to oversell".  They are: if more
\* is ever promised than the shop had, an operator's write raised the stock,
\* as a form does that was loaded before the last sales.
THEOREM OnlyOperatorsOversell == Spec /\ StockIsNotRaised => []NeverOversold
<1>1. Init => WithinOpeningStock
  BY StockAssumption DEF Init, WithinOpeningStock
<1>2. IInv /\ WithinOpeningStock => NeverOversold
  <2> SUFFICES ASSUME IInv, WithinOpeningStock, NEW p \in Product
               PROVE  inventory[p].reserved <= OpeningStock[p]
    BY DEF NeverOversold
  <2>1. /\ inventory[p].onHand \in Nat /\ inventory[p].reserved \in Nat /\ OpeningStock[p] \in Nat
        /\ inventory[p].onHand + inventory[p].reserved <= OpeningStock[p]
    BY TypeParts, StockAssumption DEF IInv, WithinOpeningStock
  <2> QED
    BY <2>1
<1> QED
  BY <1>1, <1>2, StockStep, InvHolds, PTL DEF Spec, StockIsNotRaised
=============================================================================
