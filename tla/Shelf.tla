--------------------------------- MODULE Shelf ---------------------------------
(***************************************************************************)
(* What checkout promises about stock, with no locks, no requests and no   *)
(* row by row updates: a basket leaves the shelf whole or not at all, only *)
(* if every unit of it is there, once for its key, and a returned basket   *)
(* comes back whole and once.  An operator may recount a product.          *)
(***************************************************************************)
EXTENDS Integers

CONSTANTS Product, Key, Baskets, NotSold, Returned

VARIABLES available,    \* units on the shelf, per product
          sold          \* the basket a key bought, NotSold or Returned

shelf == <<available, sold>>

Init ==
  /\ available \in [Product -> Nat]
  /\ sold = [k \in Key |-> NotSold]

Sell(k, basket) ==
  /\ sold[k] = NotSold
  /\ \A p \in Product : available[p] >= basket[p]
  /\ sold' = [sold EXCEPT ![k] = basket]
  /\ available' = [p \in Product |-> available[p] - basket[p]]

TakeBack(k, basket) ==
  /\ sold[k] = basket
  /\ sold' = [sold EXCEPT ![k] = Returned]
  /\ available' = [p \in Product |-> available[p] + basket[p]]

Recount(p) ==
  /\ available'[p] \in Nat
  /\ available' = [available EXCEPT ![p] = available'[p]]
  /\ UNCHANGED sold

Next ==
  \/ \E k \in Key, basket \in Baskets : Sell(k, basket) \/ TakeBack(k, basket)
  \/ \E p \in Product : Recount(p)

Spec == Init /\ [][Next]_shelf
=============================================================================
