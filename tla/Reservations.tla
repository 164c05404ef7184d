---------------------------- MODULE Reservations ----------------------------
(***************************************************************************)
(* Reservations of second-hand products (api/second-hand/reservations,     *)
(* lib/second-hand-reservation.ts and -db.ts) beside the operator who      *)
(* edits the products (api/admin/second-hand).  A request is one           *)
(* transaction at READ COMMITTED: an advisory lock per product, then one   *)
(* step per statement.  The reservation's id is the client's key, so two   *)
(* requests with one key for two products do not wait for each other's     *)
(* advisory lock, only for rows.                                           *)
(***************************************************************************)
EXTENDS Naturals, FiniteSets

CONSTANTS
  Request, Key, Product,
  KeyOf, Wanted,    \* each request's idempotency key and product
  Hold,             \* how long a reservation lasts (30 minutes)
  MaxTime,          \* the last instant
  Stocks,           \* what an operator may put on sale; 0: a draft or sold
  NoRow

ASSUME ReservationsAssumption ==
  /\ KeyOf \in [Request -> Key] /\ Wanted \in [Request -> Product]
  /\ Hold \in Nat \ {0} /\ MaxTime \in Nat
  /\ 0 \in Stocks /\ Stocks \subseteq Nat
  /\ IsFiniteSet(Key) /\ NoRow \notin [product : Product, expires : Nat]

VARIABLES
  now,
  row,          \* second_hand_reservations, by id
  onSale,       \* second_hand_products: the stock of a published one, else 0
  tx            \* the requests and their transactions

vars == <<now, row, onSale, tx>>

Row == [product : Product, expires : 0 .. MaxTime + Hold]
Until(r) == tx[r].asked + Hold

Holds(r)  == tx[r].at \in {"locked", "stale", "blocked", "clear", "counted"}
Counted(p) == \E r \in Request : tx[r].at = "counted" /\ Wanted[r] = p

\* r has deleted the row of its key and not ended yet.
Deleting(r) == Holds(r) /\ tx[r].deletes
HeldByReaders(r) ==      \* a fault
  \E q \in Request \ {r} : KeyOf[q] = KeyOf[r] /\ Holds(q) /\ tx[q].at # "locked"

RowBusy(r) == \E q \in Request \ {r} : KeyOf[q] = KeyOf[r] /\ Deleting(q)

Goto(r, at) == tx' = [tx EXCEPT ![r].at = at]
Answered(r, answer, expires) ==
  [at |-> "answered", asked |-> tx[r].asked, deletes |-> FALSE,
   answer |-> answer, expires |-> expires]

\* The requests whose DELETE waits for the row that r deleted.
Waiters(r) ==
  {q \in Request \ {r} :
     tx[r].deletes /\ tx[q].at = "blocked" /\ KeyOf[q] = KeyOf[r]}

\* r commits: the row the waiters wanted to delete is gone, and their
\* statements do not see the row that took its place.
Answer(r, answer, expires) ==
  tx' = [q \in Request |->
    IF q = r THEN Answered(r, answer, expires)
    ELSE IF q \in Waiters(r) THEN [tx[q] EXCEPT !.at = "clear"] ELSE tx[q]]

\* The table after r commits: without the row it deleted.
Remaining(r) == IF tx[r].deletes THEN [row EXCEPT ![KeyOf[r]] = NoRow] ELSE row

-----------------------------------------------------------------------------
\* The route reads the clock once, before it asks for the lock.
Ask(r) ==
  /\ tx[r].at = "new"
  /\ tx' = [tx EXCEPT ![r] = [@ EXCEPT !.at = "asked", !.asked = now]]
  /\ UNCHANGED <<now, row, onSale>>

LockNothing(r) ==        \* a fault
  /\ tx[r].at = "asked"
  /\ Goto(r, "locked")
  /\ UNCHANGED <<now, row, onSale>>

\* transactionProductExclusive.
Lock(r) ==
  /\ tx[r].at = "asked"
  /\ ~\E q \in Request : Holds(q) /\ Wanted[q] = Wanted[r]
  /\ Goto(r, "locked")
  /\ UNCHANGED <<now, row, onSale>>

ReplaceAnyRow(r) ==      \* a fault
  LET found == row[KeyOf[r]] IN
  /\ tx[r].at = "locked"
  /\ Goto(r, IF found = NoRow THEN "clear" ELSE "stale")
  /\ UNCHANGED <<now, row, onSale>>

\* findReservation: a live reservation is answered again, or refused for
\* another product; one that had expired when the request came is replaced.
Find(r) ==
  LET found == row[KeyOf[r]] IN
  /\ tx[r].at = "locked"
  /\ \/ found = NoRow /\ Goto(r, "clear")
     \/ /\ found # NoRow /\ found.expires <= tx[r].asked
        /\ Goto(r, "stale")
     \/ /\ found # NoRow /\ found.expires > tx[r].asked
        /\ IF found.product = Wanted[r]
           THEN Answer(r, "reserved", found.expires)
           ELSE Answer(r, "conflict", 0)
  /\ UNCHANGED <<now, row, onSale>>

\* deleteReservation: DELETE ... WHERE id = KeyOf[r], whatever the row is by
\* now.  A row that another transaction is deleting is waited for.
Delete(r) ==
  /\ tx[r].at = "stale"
  /\ IF RowBusy(r) THEN Goto(r, "blocked")
     ELSE tx' = [tx EXCEPT ![r] = [@ EXCEPT !.at = "clear",
                                            !.deletes = row[KeyOf[r]] # NoRow]]
  /\ UNCHANGED <<now, row, onSale>>

\* countActiveReservations, with the clock of the request.
ActiveFor(r) ==
  {k \in Key : /\ Remaining(r)[k] # NoRow /\ Remaining(r)[k].product = Wanted[r]
               /\ Remaining(r)[k].expires > tx[r].asked}

\* lockPublishedProduct and countActiveReservations.
Count(r) ==
  /\ tx[r].at = "clear"
  /\ IF Cardinality(ActiveFor(r)) < onSale[Wanted[r]]
     THEN Goto(r, "counted") /\ UNCHANGED row
     ELSE Answer(r, "unavailable", 0) /\ row' = Remaining(r)
  /\ UNCHANGED <<now, onSale>>

\* insertReservation and the commit.  A row with this id that is there by now
\* breaks the primary key: the transaction rolls back.
Insert(r) ==
  /\ tx[r].at = "counted" /\ ~RowBusy(r)
  /\ IF Remaining(r)[KeyOf[r]] = NoRow
     THEN /\ row' = [row EXCEPT ![KeyOf[r]] = [product |-> Wanted[r], expires |-> Until(r)]]
          /\ Answer(r, "reserved", Until(r))
     ELSE Answer(r, "failed", 0) /\ UNCHANGED row
  /\ UNCHANGED <<now, onSale>>

\* The process dies or the connection breaks: rolled back.  The row is there
\* again, and a waiting DELETE removes it.
Die(r) ==
  /\ Holds(r)
  /\ \/ Waiters(r) = {} /\ Answer(r, "failed", 0)
     \/ \E q \in Waiters(r) :
          tx' = [tx EXCEPT ![r] = Answered(r, "failed", 0),
                           ![q] = [tx[q] EXCEPT !.at = "clear", !.deletes = TRUE]]
  /\ UNCHANGED <<now, row, onSale>>

-----------------------------------------------------------------------------
\* PATCH and DELETE (archived or, without reservations, erased): the
\* product's row is locked between a request's count and its insert.
Edit(p) ==
  /\ ~Counted(p)
  /\ \E stock \in Stocks : onSale' = [onSale EXCEPT ![p] = stock]
  /\ UNCHANGED <<now, row, tx>>

Tick ==
  /\ now < MaxTime /\ now' = now + 1
  /\ UNCHANGED <<row, onSale, tx>>

Init ==
  /\ now = 0
  /\ row = [k \in Key |-> NoRow]
  /\ onSale \in [Product -> Stocks]
  /\ tx = [r \in Request |-> [at |-> "new", asked |-> 0, deletes |-> FALSE,
                              answer |-> "none", expires |-> 0]]

Run(r) ==
  Lock(r) \/ Find(r) \/ Delete(r) \/ Count(r) \/ Insert(r)

Next ==
  \/ \E r \in Request : Ask(r) \/ Run(r) \/ Die(r)
  \/ \E p \in Product : Edit(p)
  \/ Tick

Spec == Init /\ [][Next]_vars

-----------------------------------------------------------------------------
\* Type correctness of the two tables and the requests' transactions
\* (db/schema.ts:39).
TypeOK ==
  /\ now \in 0 .. MaxTime
  /\ row \in [Key -> Row \cup {NoRow}]
  /\ onSale \in [Product -> Stocks]
  /\ tx \in [Request -> [at : {"new", "asked", "locked", "stale", "blocked", "clear",
                               "counted", "answered"},
                         asked : 0 .. MaxTime, deletes : BOOLEAN,
                         answer : {"none", "reserved", "conflict", "unavailable", "failed"},
                         expires : 0 .. MaxTime + Hold]]

Active(p) == {k \in Key : row[k] # NoRow /\ row[k].product = p /\ row[k].expires > now}

\* However requests and edits interleave, a reservation is added only to a
\* product on sale with a unit that nobody holds
\* (lib/second-hand-reservation.ts:17).
NeverOverReserved ==
  [][\A p \in Product :
       ~(Active(p)' \subseteq Active(p)) =>
         Cardinality(Active(p)') <= onSale[p]]_vars

\* A customer who was promised a unit holds it until the promise ends; only
\* the reuse of their own key for another product can take it away.
PromisesKept ==
  \A r \in Request :
    tx[r].answer = "reserved" /\ tx[r].expires > now =>
      \/ row[KeyOf[r]] # NoRow /\ row[KeyOf[r]] = [product |-> Wanted[r], expires |-> tx[r].expires]
      \/ \E q \in Request : KeyOf[q] = KeyOf[r] /\ Wanted[q] # Wanted[r] /\ tx[q].at # "new"

\* The advisory locks of the products and the row locks of the reservations
\* never make requests wait for each other in a circle: while a transaction
\* is open, some transaction can take its next step
\* (lib/second-hand-reservation-db.ts:12).
NobodyStuck ==
  (\E r \in Request : Holds(r) \/ tx[r].at = "asked") =>
    \E r \in Request : ENABLED Run(r)
=============================================================================
