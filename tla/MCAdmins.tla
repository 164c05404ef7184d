------------------------------ MODULE MCAdmins ------------------------------
(***************************************************************************)
(* Instances of the administrators' module for TLC.                        *)
(***************************************************************************)
EXTENDS Admins, TLC

CONSTANTS s1, s2, s3, r1, r2, t1, t2, l1, l2

Sym == Permutations(Sessions) \cup Permutations(Requests) \cup Permutations(Txs)
       \cup Permutations(Links)
=============================================================================
