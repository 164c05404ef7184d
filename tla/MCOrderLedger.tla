---------------------------- MODULE MCOrderLedger ----------------------------
(* OrderLedger on small instances. *)
EXTENDS OrderLedger, TLC

CONSTANT Price      \* every order costs this much

SamePrice == [o \in Order |-> Price]

\* The rows of one kind differ only in their names.
Symmetry == Permutations(PaymentKey) \cup Permutations(RefundKey)
            \cup Permutations(Attempt) \cup Permutations(Order)
=============================================================================
