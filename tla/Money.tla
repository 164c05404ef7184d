-------------------------------- MODULE Money --------------------------------
(***************************************************************************)
(* Amounts of money.  The shop keeps every amount as a whole number of TL  *)
(* (lib/finance.ts: "integer TL everywhere"), and the ledger is only ever  *)
(* read through SELECT sum(amount) over some rows of a table.  A row of n  *)
(* TL is worth n coins, numbered 1..n, and a sum is the number of coins in *)
(* the rows: that is the SQL sum, in a form that needs no recursion.       *)
(***************************************************************************)
EXTENDS Integers, FiniteSets

CONSTANT MaxAmount      \* the largest amount one row can hold, in TL

ASSUME MaxAmountAssumption == MaxAmount \in Nat

Amount == 1..MaxAmount

\* The coins of a set of rows, when amount[r] is what row r is worth.
Coins(rows, amount) == {c \in rows \X Amount : c[2] <= amount[c[1]]}

\* SELECT coalesce(sum(amount), 0) over the rows.
SumOf(rows, amount) == Cardinality(Coins(rows, amount))
=============================================================================
