------------------------------ MODULE Mailbox ------------------------------
(***************************************************************************)
(* What the notification outbox promises about one e-mail, whatever the    *)
(* workers, their crashes, retries and leases do: it is queued at most     *)
(* once, a sent e-mail was accepted by the provider and stays sent, and    *)
(* only an operator takes a dead one back.                                 *)
(***************************************************************************)
CONSTANTS Mails

VARIABLES box,        \* [Mails -> {"none", "queued", "sent", "dead"}]
          accepted    \* the e-mails the provider has accepted

boxVars == <<box, accepted>>

Init == box = [m \in Mails |-> "none"] /\ accepted = {}

Move(S, from, to) ==
    /\ S # {} /\ \A m \in S : box[m] = from
    /\ box' = [m \in Mails |-> IF m \in S THEN to ELSE box[m]]

Queue == (\E S \in SUBSET Mails : Move(S, "none", "queued")) /\ UNCHANGED accepted

Accept(m) == box[m] = "queued" /\ accepted' = accepted \cup {m} /\ UNCHANGED box

Settle(m) == m \in accepted /\ Move({m}, "queued", "sent") /\ UNCHANGED accepted

GiveUp == (\E S \in SUBSET Mails : Move(S, "queued", "dead")) /\ UNCHANGED accepted

Requeue(m) == Move({m}, "dead", "queued") /\ UNCHANGED accepted

Next ==
    \/ Queue \/ GiveUp
    \/ \E m \in Mails : Accept(m) \/ Settle(m) \/ Requeue(m)

Spec == Init /\ [][Next]_boxVars
=============================================================================
