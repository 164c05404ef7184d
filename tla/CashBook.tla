------------------------------- MODULE CashBook -------------------------------
(***************************************************************************)
(* What the ledger promises about the money of an order, with no rows, no  *)
(* keys and no provider: money comes in, money goes back, goods leave only *)
(* when the order is paid for, a sale is called off only when nothing is   *)
(* held, and nothing comes after that but a provider's late money.         *)
(***************************************************************************)
EXTENDS Integers

CONSTANTS Order, Price

VARIABLES received, returned, stage

book == <<received, returned, stage>>

Held(o) == received[o] - returned[o]

\* Every order but o is left alone.
OnlyReceived(o) == received' = [received EXCEPT ![o] = received'[o]]
OnlyReturned(o) == returned' = [returned EXCEPT ![o] = returned'[o]]

Init ==
  /\ received = [o \in Order |-> 0]
  /\ returned = [o \in Order |-> 0]
  /\ stage = [o \in Order |-> "unpaid"]

\* Money comes in; it may be what the order was waiting for.
Receive(o) ==
  /\ received'[o] > received[o] /\ OnlyReceived(o)
  /\ \/ stage' = stage
     \/ /\ stage[o] = "unpaid" /\ Held(o)' >= Price[o]
        /\ stage' = [stage EXCEPT ![o] = "goods"]
  /\ UNCHANGED returned

\* Money goes back, never more than came in.
GiveBack(o) ==
  /\ returned'[o] > returned[o] /\ returned'[o] <= received[o] /\ OnlyReturned(o)
  /\ UNCHANGED <<received, stage>>

\* The sale goes ahead.
Accept(o) ==
  /\ stage[o] = "unpaid" /\ Held(o) >= Price[o] /\ received[o] > 0
  /\ stage' = [stage EXCEPT ![o] = "goods"]
  /\ UNCHANGED <<received, returned>>

\* The sale is called off, for good.
CallOff(o) ==
  /\ stage[o] # "off" /\ Held(o) = 0
  /\ stage' = [stage EXCEPT ![o] = "off"]
  /\ UNCHANGED <<received, returned>>

Next == \E o \in Order : Receive(o) \/ GiveBack(o) \/ Accept(o) \/ CallOff(o)

Spec == Init /\ [][Next]_book
=============================================================================
