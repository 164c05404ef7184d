---------------------------- MODULE MCStorefront ----------------------------
(* Storefront on small instances. *)
EXTENDS Storefront, TLC

CONSTANTS t1, t2, b1, b2, d1, d2
=============================================================================
