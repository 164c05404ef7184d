------------------------------ MODULE MCReviews ------------------------------
(* Reviews on small instances. *)
EXTENDS Reviews, TLC

CONSTANTS m1, m2, s1, s2, s3, s4, k1, k2, k3, t1, t2, l1

\* Two old reviews; one more of the first purchase with the first text,
\* sent twice.
Keys    == s1 :> k1 @@ s2 :> k2 @@ s3 :> k3 @@ s4 :> k3
Texts   == s1 :> t1 @@ s2 :> t2 @@ s3 :> t1 @@ s4 :> t1
Lines   == s1 :> l1 @@ s2 :> NoLine @@ s3 :> l1 @@ s4 :> l1
Ratings == s1 :> 5 @@ s2 :> 4 @@ s3 :> 5 @@ s4 :> 5
Ids     == s1 :> 2 @@ s2 :> 3 @@ s3 :> 1 @@ s4 :> 4

Instants == s1 :> 0 @@ s2 :> 2

Operators == Permutations(Moderator)
=============================================================================
