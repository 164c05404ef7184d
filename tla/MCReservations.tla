--------------------------- MODULE MCReservations ---------------------------
(* Reservations on small instances. *)
EXTENDS Reservations, TLC

CONSTANTS r1, r2, r3, r4, k1, k2, p1, p2

\* A request, its retry, the same key for another product, another customer.
Keys    == r1 :> k1 @@ r2 :> k1 @@ r3 :> k1 @@ r4 :> k2
Baskets == r1 :> p1 @@ r2 :> p1 @@ r3 :> p2 @@ r4 :> p1
=============================================================================
