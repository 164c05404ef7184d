------------------------------ MODULE MCOutbox ------------------------------
(***************************************************************************)
(* The instance of the outbox that TLC checks: one e-mail and two workers. *)
(* Other rows of a batch only delay the one that is followed, and a worker *)
(* may wait any time before it holds its row.                              *)
(***************************************************************************)
EXTENDS Outbox

CONSTANTS o1, customer, w1, w2
=============================================================================
