------------------------------- MODULE MCStock -------------------------------
(* Stock on small instances. *)
EXTENDS Stock, TLC

CONSTANTS p1, p2, r1, r2, r3, r4, k1, k2

\* r1 and r2 are one order and its retry; r3 reuses their key for another
\* basket; r4 is another customer's order.
Keys == r1 :> k1 @@ r2 :> k1 @@ r3 :> k1 @@ r4 :> k2

Both == p1 :> 1 @@ p2 :> 1
Baskets == r1 :> Both @@ r2 :> Both @@ r3 :> (p1 :> 2 @@ p2 :> 0) @@ r4 :> Both
Totals == r1 :> 2 @@ r2 :> 2 @@ r3 :> 2 @@ r4 :> 2

OneOfTheFirst == p1 :> 1 @@ p2 :> 2
Ids == p1 :> 1 @@ p2 :> 2
\* The lines of r4 come back from the database in the other order.
LineOrders == r1 :> Ids @@ r2 :> Ids @@ r3 :> Ids @@ r4 :> (p1 :> 2 @@ p2 :> 1)

\* The same for two customers with one key each, r1 and r4.
KeysOfTwo == r1 :> k1 @@ r4 :> k2
BasketsOfTwo == r1 :> Both @@ r4 :> Both
TotalsOfTwo == r1 :> 2 @@ r4 :> 2
LineOrdersOfTwo == r1 :> Ids @@ r4 :> (p1 :> 2 @@ p2 :> 1)
Plenty == p1 :> 2 @@ p2 :> 2

\* An order and its retry differ in nothing but their names.
Retries == Permutations({r1, r2})
=============================================================================
