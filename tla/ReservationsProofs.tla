------------------------- MODULE ReservationsProofs -------------------------
(***************************************************************************)
(* Proofs about Reservations, for any requests, keys, products, stocks and *)
(* lengths of a reservation.                                               *)
(***************************************************************************)
EXTENDS Reservations, FiniteSetTheorems, TLAPS

LEMMA NextCases ==
  ASSUME Next
  PROVE  \/ \E r \in Request : Ask(r) \/ Lock(r) \/ Find(r) \/ Delete(r) \/ Count(r) \/ Insert(r) \/ Die(r)
         \/ \E p \in Product : Edit(p)
         \/ Tick
BY DEF Next, Run

-----------------------------------------------------------------------------
(* Types *)

Tx == [at : {"new", "asked", "locked", "stale", "blocked", "clear", "counted", "answered"},
       asked : 0 .. MaxTime, deletes : BOOLEAN,
       answer : {"none", "reserved", "conflict", "unavailable", "failed"},
       expires : 0 .. MaxTime + Hold]

(* What an answer makes of the transactions. *)
LEMMA AnswerType ==
  ASSUME TypeOK, NEW r \in Request,
         NEW answer \in {"none", "reserved", "conflict", "unavailable", "failed"},
         NEW expires \in 0 .. MaxTime + Hold
  PROVE  /\ Answered(r, answer, expires) \in Tx
         /\ Answer(r, answer, expires) => tx' \in [Request -> Tx]
<1>1. \A q \in Request : tx[q] \in Tx
  BY DEF TypeOK, Tx
<1>2. Answered(r, answer, expires) \in Tx
  BY <1>1 DEF Answered, Tx
<1>3. \A q \in Request : [tx[q] EXCEPT !.at = "clear"] \in Tx
  BY <1>1 DEF Tx
<1> QED
  BY <1>1, <1>2, <1>3 DEF Answer

(* The instants a transaction works with. *)
LEMMA Instants ==
  ASSUME TypeOK, NEW r \in Request
  PROVE  Until(r) \in 0 .. MaxTime + Hold /\ tx[r].asked \in Nat /\ Wanted[r] \in Product /\ KeyOf[r] \in Key
BY ReservationsAssumption DEF TypeOK, Until

LEMMA RemainingType ==
  ASSUME TypeOK, NEW r \in Request
  PROVE  Remaining(r) \in [Key -> Row \cup {NoRow}]
BY DEF TypeOK, Remaining

LEMMA TypeInit == Init => TypeOK
BY ReservationsAssumption DEF Init, TypeOK

LEMMA TypeStep == TypeOK /\ [Next]_vars => TypeOK'
<1> SUFFICES ASSUME TypeOK, [Next]_vars PROVE TypeOK'
  OBVIOUS
<1>1. tx \in [Request -> Tx] /\ 0 \in 0 .. MaxTime + Hold /\ now \in 0 .. MaxTime
  BY ReservationsAssumption DEF TypeOK, Tx
<1>2. TypeOK' <=> /\ now' \in 0 .. MaxTime /\ row' \in [Key -> Row \cup {NoRow}]
                  /\ onSale' \in [Product -> Stocks] /\ tx' \in [Request -> Tx]
  BY DEF TypeOK, Tx
<1>3. ASSUME NEW r \in Request, NEW at \in {"locked", "stale", "blocked", "clear", "counted"}, Goto(r, at)
      PROVE  tx' \in [Request -> Tx]
  BY <1>1, <1>3 DEF Goto, Tx
<1>4. ASSUME NEW r \in Request, Ask(r) PROVE TypeOK'
  BY <1>1, <1>2, <1>4 DEF Ask, Tx, TypeOK
<1>5. ASSUME NEW r \in Request, Lock(r) PROVE TypeOK'
  BY <1>2, <1>3, <1>5 DEF Lock, TypeOK
<1>6. ASSUME NEW r \in Request, Find(r) PROVE TypeOK'
  <2>1. row[KeyOf[r]] # NoRow => row[KeyOf[r]].expires \in 0 .. MaxTime + Hold
    BY Instants DEF TypeOK, Row
  <2>2. tx' \in [Request -> Tx]
    BY <1>1, <1>3, <1>6, <2>1, AnswerType DEF Find
  <2> QED
    BY <1>2, <1>6, <2>2 DEF Find, TypeOK
<1>7. ASSUME NEW r \in Request, Delete(r) PROVE TypeOK'
  <2>1. tx' \in [Request -> Tx]
    <3>1. CASE RowBusy(r)
      <4>1. Goto(r, "blocked")
        BY <1>7, <3>1 DEF Delete
      <4> QED
        BY <1>3, <4>1
    <3>2. CASE ~RowBusy(r)
      <4>1. tx' = [tx EXCEPT ![r] = [tx[r] EXCEPT !.at = "clear",
                                                 !.deletes = row[KeyOf[r]] # NoRow]]
        BY <1>7, <3>2 DEF Delete
      <4>2. \A b \in BOOLEAN : [tx[r] EXCEPT !.at = "clear", !.deletes = b] \in Tx
        BY <1>1 DEF Tx
      <4> QED
        BY <1>1, <4>1, <4>2
    <3> QED
      BY <3>1, <3>2
  <2> QED
    BY <1>2, <1>7, <2>1 DEF Delete, TypeOK
<1>8. ASSUME NEW r \in Request, Count(r) PROVE TypeOK'
  BY <1>1, <1>2, <1>3, <1>8, AnswerType, RemainingType DEF Count, TypeOK
<1>9. ASSUME NEW r \in Request, Insert(r) PROVE TypeOK'
  <2>1. [product |-> Wanted[r], expires |-> Until(r)] \in Row
    BY Instants DEF Row
  <2>2. row' \in [Key -> Row \cup {NoRow}]
    BY <1>9, <2>1 DEF Insert, TypeOK
  <2>3. tx' \in [Request -> Tx]
    BY <1>1, <1>9, AnswerType, Instants DEF Insert
  <2> QED
    BY <1>2, <1>9, <2>2, <2>3 DEF Insert, TypeOK
<1>10. ASSUME NEW r \in Request, Die(r) PROVE TypeOK'
  <2>1. Answered(r, "failed", 0) \in Tx
    BY <1>1, AnswerType
  <2>2. tx' \in [Request -> Tx]
    <3>1. CASE Waiters(r) = {}
      BY <1>1, <1>10, <3>1, AnswerType DEF Die, Waiters
    <3>2. CASE Waiters(r) # {}
      <4>1. PICK q \in Waiters(r) :
              tx' = [tx EXCEPT ![r] = Answered(r, "failed", 0),
                               ![q] = [tx[q] EXCEPT !.at = "clear", !.deletes = TRUE]]
        BY <1>10, <3>2 DEF Die
      <4>2. q \in Request
        BY DEF Waiters
      <4>3. [tx[q] EXCEPT !.at = "clear", !.deletes = TRUE] \in Tx
        BY <1>1, <4>2 DEF Tx
      <4> QED
        BY <1>1, <2>1, <4>1, <4>2, <4>3
    <3> QED
      BY <3>1, <3>2
  <2> QED
    BY <1>2, <1>10, <2>2 DEF Die, TypeOK
<1>11. ASSUME NEW p \in Product, Edit(p) PROVE TypeOK'
  BY <1>2, <1>11 DEF Edit, TypeOK
<1>12. CASE Tick
  BY <1>2, <1>12, ReservationsAssumption DEF Tick, TypeOK
<1>13. CASE UNCHANGED vars
  BY <1>13 DEF vars, TypeOK
<1> QED
  BY <1>4, <1>5, <1>6, <1>7, <1>8, <1>9, <1>10, <1>11, <1>12, <1>13, NextCases

(* The tables and the transactions keep their columns. *)
THEOREM TypeCorrect == Spec => []TypeOK
BY TypeInit, TypeStep, PTL DEF Spec

-----------------------------------------------------------------------------
(* Who moves                                                                *)

(* Only r moves; a request whose DELETE waited for r may wake up.            *)
OnlyMover(r) ==
  \A q \in Request \ {r} :
    \/ tx'[q] = tx[q]
    \/ /\ tx[q].at = "blocked" /\ tx'[q].at = "clear" /\ tx'[q].asked = tx[q].asked
       /\ tx'[q].answer = tx[q].answer /\ tx'[q].expires = tx[q].expires

Acts(r) == Ask(r) \/ Lock(r) \/ Find(r) \/ Delete(r) \/ Count(r) \/ Insert(r) \/ Die(r)

Working(t) == t.at \in {"stale", "blocked", "clear", "counted"}

LEMMA GotoMoves ==
  ASSUME TypeOK, NEW r \in Request, NEW at, Goto(r, at)
  PROVE  OnlyMover(r) /\ tx'[r] = [tx[r] EXCEPT !.at = at]
BY DEF Goto, OnlyMover, TypeOK

LEMMA AnswerMoves ==
  ASSUME TypeOK, NEW r \in Request, NEW answer, NEW expires, Answer(r, answer, expires)
  PROVE  OnlyMover(r) /\ tx'[r] = Answered(r, answer, expires)
BY DEF Answer, OnlyMover, Waiters, TypeOK

LEMMA Died ==
  ASSUME TypeOK, NEW r \in Request, Die(r)
  PROVE  /\ OnlyMover(r) /\ tx'[r].asked = tx[r].asked /\ tx'[r].at = "answered"
         /\ tx'[r].answer = "failed"
<1>1. tx \in [Request -> Tx]
  BY DEF TypeOK, Tx
<1> HIDE DEF Tx
<1>2. CASE Answer(r, "failed", 0)
  <2>1. OnlyMover(r)
    BY <1>2, AnswerMoves
  <2>2. tx'[r] = Answered(r, "failed", 0)
    BY <1>2, AnswerMoves
  <2> QED
    BY <2>1, <2>2 DEF Answered
<1>3. ASSUME NEW q \in Waiters(r),
             tx' = [tx EXCEPT ![r] = Answered(r, "failed", 0),
                              ![q] = [tx[q] EXCEPT !.at = "clear", !.deletes = TRUE]]
      PROVE  /\ OnlyMover(r) /\ tx'[r].asked = tx[r].asked /\ tx'[r].at = "answered"
             /\ tx'[r].answer = "failed"
  <2>1. q \in Request /\ q # r /\ tx[q].at = "blocked"
    BY DEF Waiters
  <2>2. /\ tx'[r] = Answered(r, "failed", 0)
        /\ tx'[q] = [tx[q] EXCEPT !.at = "clear", !.deletes = TRUE]
        /\ \A s \in Request \ {q, r} : tx'[s] = tx[s]
    BY <1>1, <1>3, <2>1
  <2>3. tx[q] \in Tx
    BY <1>1, <2>1
  <2>4. OnlyMover(r)
    BY <2>1, <2>2, <2>3 DEF OnlyMover, Tx
  <2>5. /\ tx'[r].asked = tx[r].asked /\ tx'[r].at = "answered"
        /\ tx'[r].answer = "failed"
    BY <2>2 DEF Answered
  <2> QED
    BY <2>4, <2>5
<1> QED
  BY <1>2, <1>3 DEF Die

(* A request's step moves it on, or answers it. *)
LEMMA Moves ==
  ASSUME TypeOK, NEW r \in Request, Acts(r)
  PROVE  /\ OnlyMover(r)
         /\ \/ tx'[r].at = "asked" /\ tx[r].at = "new" /\ tx'[r].asked = now
               /\ tx'[r].answer = tx[r].answer
            \/ Lock(r) /\ tx'[r].asked = tx[r].asked /\ tx'[r].at = "locked"
               /\ tx'[r].answer = tx[r].answer
            \/ /\ Holds(r) /\ tx'[r].asked = tx[r].asked
               /\ tx'[r].at \in {"stale", "blocked", "clear", "counted", "answered"}
               /\ tx'[r].at # "answered" => tx'[r].answer = tx[r].answer
<1>1. tx \in [Request -> Tx] /\ tx[r] \in Tx
  BY DEF TypeOK, Tx
<1> HIDE DEF Tx
<1>2. CASE Ask(r)
  BY <1>1, <1>2 DEF Ask, OnlyMover, Tx
<1>3. CASE Lock(r)
  <2>1. OnlyMover(r)
    BY <1>3, GotoMoves DEF Lock
  <2>2. tx'[r] = [tx[r] EXCEPT !.at = "locked"]
    BY <1>3, GotoMoves DEF Lock
  <2>3. tx'[r].asked = tx[r].asked /\ tx'[r].at = "locked" /\ tx'[r].answer = tx[r].answer
    BY <1>1, <2>2 DEF Tx
  <2> QED
    BY <1>3, <2>1, <2>3
<1>4. ASSUME Holds(r), NEW at \in {"stale", "blocked", "clear", "counted"}, Goto(r, at)
      PROVE  /\ OnlyMover(r) /\ tx'[r].asked = tx[r].asked /\ tx'[r].at = at
             /\ tx'[r].answer = tx[r].answer
  <2>1. OnlyMover(r)
    BY <1>4, GotoMoves
  <2>2. tx'[r] = [tx[r] EXCEPT !.at = at]
    BY <1>4, GotoMoves
  <2>3. tx'[r].asked = tx[r].asked /\ tx'[r].at = at /\ tx'[r].answer = tx[r].answer
    BY <1>1, <2>2 DEF Tx
  <2> QED
    BY <2>1, <2>3
<1>5. ASSUME NEW answer, NEW expires, Answer(r, answer, expires)
      PROVE  OnlyMover(r) /\ tx'[r].asked = tx[r].asked /\ tx'[r].at = "answered"
  <2>1. OnlyMover(r)
    BY <1>5, AnswerMoves
  <2>2. tx'[r] = Answered(r, answer, expires)
    BY <1>5, AnswerMoves
  <2>3. tx'[r].asked = tx[r].asked /\ tx'[r].at = "answered"
    BY <2>2 DEF Answered
  <2> QED
    BY <2>1, <2>3
<1>6. CASE Find(r)
  BY <1>4, <1>5, <1>6 DEF Find, Holds
<1>7. CASE Delete(r)
  <2>1. Holds(r)
    BY <1>7 DEF Delete, Holds
  <2>2. CASE RowBusy(r)
    BY <1>4, <1>7, <2>1, <2>2 DEF Delete
  <2>3. CASE ~RowBusy(r)
    <3>1. tx' = [tx EXCEPT ![r] = [tx[r] EXCEPT !.at = "clear",
                                                !.deletes = row[KeyOf[r]] # NoRow]]
      BY <1>7, <2>3 DEF Delete
    <3>2. OnlyMover(r) /\ tx'[r] = [tx[r] EXCEPT !.at = "clear", !.deletes = row[KeyOf[r]] # NoRow]
      BY <1>1, <3>1 DEF OnlyMover
    <3> QED
      BY <1>1, <2>1, <3>2 DEF Tx
  <2> QED
    BY <2>2, <2>3
<1>8. CASE Count(r)
  BY <1>4, <1>5, <1>8 DEF Count, Holds
<1>9. CASE Insert(r)
  BY <1>5, <1>9 DEF Insert, Holds
<1>10. CASE Die(r)
  BY <1>10, Died DEF Die
<1> QED
  BY <1>2, <1>3, <1>6, <1>7, <1>8, <1>9, <1>10 DEF Acts

(* The table changes under a working request's own key alone: its expired     *)
(* row goes, or its new row comes.                                            *)
LEMMA RowMoves ==
  ASSUME TypeOK, NEW r \in Request, Acts(r)
  PROVE  /\ UNCHANGED <<now, onSale>>
         /\ \/ UNCHANGED row
            \/ tx[r].at = "clear" /\ row' = Remaining(r) /\ tx'[r].answer = "unavailable"
            \/ /\ Insert(r) /\ Remaining(r)[KeyOf[r]] = NoRow
               /\ row' = [row EXCEPT ![KeyOf[r]] = [product |-> Wanted[r], expires |-> Until(r)]]
               /\ tx'[r] = Answered(r, "reserved", Until(r))
<1>1. tx \in [Request -> Tx]
  BY DEF TypeOK, Tx
<1>2. CASE Count(r)
  <2>1. ASSUME Answer(r, "unavailable", 0) PROVE tx'[r].answer = "unavailable"
    <3>1. tx[r] \in Tx /\ tx'[r] = Answered(r, "unavailable", 0)
      BY <1>1, <2>1, AnswerMoves
    <3> QED
      BY <3>1 DEF Answered, Tx
  <2> QED
    BY <1>2, <2>1 DEF Count
<1>3. CASE Insert(r)
  BY <1>3, AnswerMoves DEF Insert
<1>4. CASE Ask(r) \/ Lock(r) \/ Find(r) \/ Delete(r) \/ Die(r)
  BY <1>4 DEF Ask, Lock, Find, Delete, Die
<1> QED
  BY <1>2, <1>3, <1>4 DEF Acts

-----------------------------------------------------------------------------
(* The inductive invariant                                                  *)

(* Open transactions are about different products: the advisory lock.        *)
Exclusive ==
  \A q, s \in Request : q # s /\ Holds(q) /\ Holds(s) => Wanted[q] # Wanted[s]

(* A request came before now, and only an answered one has a promise.        *)
Story ==
  \A r \in Request :
    /\ tx[r].at # "new" => tx[r].asked <= now
    /\ tx[r].answer = "reserved" => tx[r].at = "answered"

(* What a request counted stays true until it inserts.                       *)
CountHolds ==
  \A r \in Request :
    tx[r].at = "counted" => Cardinality(ActiveFor(r)) < onSale[Wanted[r]]

Promised(r) == tx[r].answer = "reserved" /\ tx[r].expires > now
Reused(r) == \E q \in Request : KeyOf[q] = KeyOf[r] /\ Wanted[q] # Wanted[r] /\ tx[q].at # "new"

(* A request that went past its reading of a promised reservation is for     *)
(* another product.                                                          *)
Replaced ==
  \A r, s \in Request :
    Promised(r) /\ Working(tx[s]) /\ KeyOf[s] = KeyOf[r] => Reused(r)

IInv == TypeOK /\ Exclusive /\ Story /\ CountHolds /\ Replaced /\ PromisesKept

LEMMA InvInit == Init => IInv
<1> SUFFICES ASSUME Init PROVE IInv
  OBVIOUS
<1>1. \A r \in Request : tx[r].at = "new" /\ tx[r].answer = "none"
  BY DEF Init
<1> QED
  BY <1>1, TypeInit
     DEF IInv, Exclusive, Story, CountHolds, Replaced, PromisesKept, Holds, Promised, Working

LEMMA StepCases ==
  ASSUME TypeOK, [Next]_vars
  PROVE  \/ \E r \in Request : Acts(r)
         \/ /\ UNCHANGED <<row, tx>> /\ now <= now'
            /\ \A p \in Product : Counted(p) => onSale'[p] = onSale[p]
<1>1. CASE \E p \in Product : Edit(p)
  BY <1>1 DEF Edit, TypeOK
<1>2. CASE Tick
  BY <1>2, ReservationsAssumption DEF Tick, TypeOK
<1>3. CASE UNCHANGED vars
  BY <1>3, ReservationsAssumption DEF vars, TypeOK
<1> QED
  BY <1>1, <1>2, <1>3, NextCases DEF Acts

LEMMA ExclusiveStep == TypeOK /\ Exclusive /\ [Next]_vars => Exclusive'
<1> SUFFICES ASSUME TypeOK, Exclusive, [Next]_vars,
                    NEW q \in Request, NEW s \in Request, q # s, Holds(q)', Holds(s)'
             PROVE  Wanted[q] # Wanted[s]
  BY DEF Exclusive
<1>1. CASE UNCHANGED tx
  BY <1>1 DEF Exclusive, Holds
<1>2. ASSUME NEW r \in Request, Acts(r) PROVE Wanted[q] # Wanted[s]
  <2>1. \A t \in Request \ {r} : Holds(t)' => Holds(t)
    BY <1>2, Moves DEF OnlyMover, Holds
  <2>2. CASE Holds(r)
    BY <2>1, <2>2 DEF Exclusive
  <2>3. CASE Lock(r)
    <3>1. ~\E t \in Request : Holds(t) /\ Wanted[t] = Wanted[r]
      BY <2>3 DEF Lock
    <3>2. (q # r => Holds(q)) /\ (s # r => Holds(s))
      BY <2>1
    <3> QED
      BY <3>1, <3>2 DEF Exclusive
  <2>4. CASE tx'[r].at = "asked"
    BY <2>1, <2>4 DEF Exclusive, Holds
  <2> QED
    BY <1>2, <2>2, <2>3, <2>4, Moves
<1> QED
  BY <1>1, <1>2, StepCases

LEMMA StoryStep == TypeOK /\ Story /\ [Next]_vars => Story'
<1> SUFFICES ASSUME TypeOK, Story, [Next]_vars, NEW q \in Request
             PROVE  /\ tx'[q].at # "new" => tx'[q].asked <= now'
                    /\ tx'[q].answer = "reserved" => tx'[q].at = "answered"
  BY DEF Story
<1>1. tx \in [Request -> Tx] /\ now \in Nat /\ tx[q].asked \in Nat /\ (now' \in Nat)
  BY TypeStep, ReservationsAssumption DEF TypeOK, Tx
<1>2. CASE UNCHANGED tx /\ now <= now'
  BY <1>1, <1>2 DEF Story
<1>3. ASSUME NEW r \in Request, Acts(r)
      PROVE  /\ tx'[q].at # "new" => tx'[q].asked <= now'
             /\ tx'[q].answer = "reserved" => tx'[q].at = "answered"
  <2>1. now' = now
    BY <1>3, RowMoves
  <2>2. CASE q # r
    <3>1. \/ tx'[q] = tx[q]
          \/ /\ tx[q].at = "blocked" /\ tx'[q].at = "clear" /\ tx'[q].asked = tx[q].asked
             /\ tx'[q].answer = tx[q].answer
      BY <1>3, <2>2, Moves DEF OnlyMover
    <3> QED
      BY <2>1, <3>1 DEF Story
  <2>3. CASE q = r
    <3>1. \/ /\ tx'[q].at = "asked" /\ tx[q].at = "new" /\ tx'[q].asked = now
             /\ tx'[q].answer = tx[q].answer
          \/ /\ tx[q].at = "asked" /\ tx'[q].asked = tx[q].asked
             /\ tx'[q].answer = tx[q].answer
          \/ /\ Holds(q) /\ tx'[q].asked = tx[q].asked
             /\ tx'[q].at # "answered" => tx'[q].answer = tx[q].answer
      BY <1>3, <2>3, Moves DEF Lock
    <3> QED
      BY <1>1, <2>1, <3>1 DEF Story, Holds
  <2> QED
    BY <2>2, <2>3
<1> QED
  BY <1>2, <1>3, StepCases

(* A transaction keeps out of the table's other rows, and the rows it adds   *)
(* are of its product.                                                       *)
LEMMA RowChange ==
  ASSUME TypeOK, NEW r \in Request, Acts(r), NEW k \in Key
  PROVE  \/ row'[k] = row[k]
         \/ k = KeyOf[r] /\ Working(tx[r]) /\ row'[k] = NoRow
         \/ /\ k = KeyOf[r] /\ Insert(r) /\ row'[k] # NoRow /\ row'[k].product = Wanted[r]
            /\ row'[k].expires = Until(r)
<1>1. row \in [Key -> Row \cup {NoRow}] /\ KeyOf[r] \in Key
  BY Instants DEF TypeOK
<1>2. CASE UNCHANGED row
  BY <1>2
<1>3. CASE tx[r].at = "clear" /\ row' = Remaining(r)
  BY <1>1, <1>3 DEF Remaining, Working
<1>4. CASE Insert(r) /\ row' = [row EXCEPT ![KeyOf[r]] = [product |-> Wanted[r], expires |-> Until(r)]]
  <2>1. [product |-> Wanted[r], expires |-> Until(r)] # NoRow
    BY ReservationsAssumption, Instants
  <2> QED
    BY <1>1, <1>4, <2>1
<1> QED
  BY <1>2, <1>3, <1>4, RowMoves

LEMMA ActiveFinite ==
  ASSUME NEW r \in Request
  PROVE  /\ IsFiniteSet(ActiveFor(r)) /\ Cardinality(ActiveFor(r)) \in Nat
         /\ \A S \in SUBSET ActiveFor(r) : /\ Cardinality(S) \in Nat
                                         /\ Cardinality(S) <= Cardinality(ActiveFor(r))
<1>1. IsFiniteSet(ActiveFor(r))
  BY ReservationsAssumption, FS_Subset DEF ActiveFor
<1> QED
  BY <1>1, FS_Subset, FS_CardinalityType

(* Nobody adds to what a counting request counted.                           *)
LEMMA CountStays ==
  ASSUME TypeOK, Exclusive, NEW r \in Request, tx[r].at = "counted",
         NEW s \in Request \ {r}, Acts(s)
  PROVE  tx'[r] = tx[r] /\ ActiveFor(r)' \subseteq ActiveFor(r)
<1>1. tx'[r] = tx[r]
  BY Moves DEF OnlyMover
<1>2. row \in [Key -> Row \cup {NoRow}] /\ row' \in [Key -> Row \cup {NoRow}]
  BY TypeStep DEF TypeOK, Acts, Next, Run
<1> SUFFICES ASSUME NEW k \in Key, k \in ActiveFor(r)' PROVE k \in ActiveFor(r)
  BY <1>1 DEF ActiveFor
<1>3. /\ row'[k] # NoRow /\ row'[k].product = Wanted[r] /\ row'[k].expires > tx[r].asked
      /\ ~(tx[r].deletes /\ k = KeyOf[r])
  BY <1>1, <1>2, Instants DEF ActiveFor, Remaining
<1>4. row'[k] = row[k]
  <2>1. CASE Insert(s)
    <3>1. Holds(r) /\ Holds(s)
      BY <2>1 DEF Insert, Holds
    <3>2. Wanted[s] # Wanted[r]
      BY <3>1 DEF Exclusive
    <3> QED
      BY <1>3, <3>2, RowChange
  <2> QED
    BY <1>3, <2>1, RowChange
<1>5. Remaining(r)[k] = row[k]
  BY <1>2, <1>3, Instants DEF Remaining
<1> QED
  BY <1>3, <1>4, <1>5 DEF ActiveFor

LEMMA CountStep == TypeOK /\ Exclusive /\ CountHolds /\ [Next]_vars => CountHolds'
<1> SUFFICES ASSUME TypeOK, Exclusive, CountHolds, [Next]_vars,
                    NEW r \in Request, (tx[r].at = "counted")'
             PROVE  Cardinality(ActiveFor(r)') < onSale'[Wanted[r]]
  BY DEF CountHolds
<1>1. Wanted[r] \in Product /\ onSale[Wanted[r]] \in Nat
  BY ReservationsAssumption, Instants DEF TypeOK
<1>2. ASSUME UNCHANGED <<row, tx>>,
             \A p \in Product : Counted(p) => onSale'[p] = onSale[p]
      PROVE  Cardinality(ActiveFor(r)') < onSale'[Wanted[r]]
  <2>1. ActiveFor(r)' = ActiveFor(r)
    BY <1>2 DEF ActiveFor, Remaining
  <2>2. Counted(Wanted[r])
    BY <1>2 DEF Counted
  <2> QED
    BY <1>1, <1>2, <2>1, <2>2 DEF CountHolds
<1>3. ASSUME NEW s \in Request, Acts(s)
      PROVE  Cardinality(ActiveFor(r)') < onSale'[Wanted[r]]
  <2>1. onSale' = onSale
    BY <1>3, RowMoves
  <2>2. CASE s # r
    <3>1. tx[r].at = "counted"
      BY <1>3, <2>2, Moves DEF OnlyMover
    <3>2. ActiveFor(r)' \subseteq ActiveFor(r)
      BY <1>3, <2>2, <3>1, CountStays
    <3>3. Cardinality(ActiveFor(r)) < onSale[Wanted[r]]
      BY <3>1 DEF CountHolds
    <3>4. /\ Cardinality(ActiveFor(r)) \in Nat /\ Cardinality(ActiveFor(r)') \in Nat
          /\ Cardinality(ActiveFor(r)') <= Cardinality(ActiveFor(r))
      BY <3>2, ActiveFinite
    <3> QED
      BY <1>1, <2>1, <3>3, <3>4
  <2>3. CASE s = r
    <3>1. Count(r) /\ Goto(r, "counted") /\ Cardinality(ActiveFor(r)) < onSale[Wanted[r]] /\ row' = row
      <4>1. tx \in [Request -> Tx] /\ tx[r] \in Tx
        BY DEF TypeOK, Tx
      <4>2. ASSUME NEW answer, NEW expires, Answer(r, answer, expires) PROVE FALSE
        <5>1. tx'[r] = Answered(r, answer, expires)
          BY <4>2, AnswerMoves
        <5> QED
          BY <5>1 DEF Answered
      <4>3. ASSUME NEW at, Goto(r, at) PROVE at = "counted"
        <5>1. tx'[r] = [tx[r] EXCEPT !.at = at]
          BY <4>3, GotoMoves
        <5> QED
          BY <4>1, <5>1 DEF Tx
      <4>4. CASE Ask(r)
        BY <4>1, <4>4 DEF Ask, Tx
      <4>5. CASE Lock(r)
        BY <4>3, <4>5 DEF Lock
      <4>6. CASE Find(r)
        BY <4>2, <4>3, <4>6 DEF Find
      <4>7. CASE Delete(r)
        <5>1. CASE RowBusy(r)
          BY <4>3, <4>7, <5>1 DEF Delete
        <5>2. CASE ~RowBusy(r)
          <6>1. tx' = [tx EXCEPT ![r] = [tx[r] EXCEPT !.at = "clear",
                                                      !.deletes = row[KeyOf[r]] # NoRow]]
            BY <4>7, <5>2 DEF Delete
          <6> QED
            BY <4>1, <6>1 DEF Tx
        <5> QED
          BY <5>1, <5>2
      <4>8. CASE Count(r)
        BY <4>2, <4>8 DEF Count
      <4>9. CASE Insert(r)
        BY <4>2, <4>9 DEF Insert
      <4>10. CASE Die(r)
        BY <4>10, Died
      <4> QED
        BY <1>3, <2>3, <4>4, <4>5, <4>6, <4>7, <4>8, <4>9, <4>10 DEF Acts
    <3>2. tx'[r] = [tx[r] EXCEPT !.at = "counted"]
      BY <3>1, GotoMoves
    <3>3. tx'[r].asked = tx[r].asked /\ tx'[r].deletes = tx[r].deletes
      BY <3>2 DEF TypeOK
    <3>4. ActiveFor(r)' = ActiveFor(r)
      BY <3>1, <3>3 DEF ActiveFor, Remaining
    <3> QED
      BY <2>1, <3>1, <3>4
  <2> QED
    BY <2>2, <2>3
<1> QED
  BY <1>2, <1>3, StepCases

(* A request that starts to work found no live reservation of its key.       *)
LEMMA NewWork ==
  ASSUME TypeOK, NEW r \in Request, Acts(r), Working(tx'[r])
  PROVE  \/ Working(tx[r])
         \/ tx[r].at = "locked" /\ row' = row
            /\ (row[KeyOf[r]] = NoRow \/ row[KeyOf[r]].expires <= tx[r].asked)
<1>1. tx \in [Request -> Tx] /\ tx[r] \in Tx
  BY DEF TypeOK, Tx
<1>2. CASE Find(r)
  <2>1. ASSUME NEW answer, NEW expires, Answer(r, answer, expires) PROVE FALSE
    <3>1. tx'[r] = Answered(r, answer, expires)
      BY <2>1, AnswerMoves
    <3> QED
      BY <3>1 DEF Answered, Working
  <2> QED
    BY <1>2, <2>1 DEF Find
<1>3. CASE tx[r].at \in {"new", "asked"}
  BY <1>3, Moves DEF Working, Holds, Lock
<1>4. CASE Die(r)
  BY <1>4, <1>1, Died DEF Working
<1> QED
  BY <1>2, <1>3, <1>4 DEF Acts, Ask, Lock, Delete, Count, Insert, Working

(* A promise is written down in the same step.                               *)
LEMMA NewPromise ==
  ASSUME TypeOK, Story, NEW r \in Request, Acts(r), tx'[r].answer = "reserved"
  PROVE  /\ Holds(r)
         /\ row'[KeyOf[r]] = [product |-> Wanted[r], expires |-> tx'[r].expires]
<1>1. tx \in [Request -> Tx] /\ tx[r] \in Tx
  BY DEF TypeOK, Tx
<1>2. row \in [Key -> Row \cup {NoRow}] /\ KeyOf[r] \in Key
  BY Instants DEF TypeOK
<1>3. tx[r].at # "answered"
  BY Moves DEF Holds, Lock
<1>4. tx[r].answer # "reserved"
  BY <1>3 DEF Story
<1>5. ASSUME NEW at, Goto(r, at) PROVE FALSE
  <2>1. tx'[r] = [tx[r] EXCEPT !.at = at]
    BY <1>5, GotoMoves
  <2> QED
    BY <1>1, <1>4, <2>1 DEF Tx
<1>6. ASSUME NEW answer, NEW expires, Answer(r, answer, expires)
      PROVE  answer = "reserved" /\ tx'[r].expires = expires
  <2>1. tx'[r] = Answered(r, answer, expires)
    BY <1>6, AnswerMoves
  <2> QED
    BY <2>1 DEF Answered
<1>7. CASE Find(r)
  <2>1. row[KeyOf[r]] # NoRow /\ row[KeyOf[r]].product = Wanted[r]
        /\ tx'[r].expires = row[KeyOf[r]].expires
    BY <1>5, <1>6, <1>7 DEF Find
  <2>2. row[KeyOf[r]] = [product |-> row[KeyOf[r]].product, expires |-> row[KeyOf[r]].expires]
    BY <1>2, <2>1 DEF Row
  <2> QED
    BY <1>7, <2>1, <2>2 DEF Find, Holds
<1>8. CASE Insert(r)
  <2>1. /\ row' = [row EXCEPT ![KeyOf[r]] = [product |-> Wanted[r], expires |-> Until(r)]]
        /\ tx'[r].expires = Until(r)
    BY <1>6, <1>8 DEF Insert
  <2> QED
    BY <1>2, <1>8, <2>1 DEF Insert, Holds
<1>9. CASE Count(r)
  BY <1>5, <1>6, <1>9 DEF Count
<1>10. ASSUME Ask(r) \/ Lock(r) \/ Delete(r) PROVE FALSE
  <2>1. CASE Ask(r) \/ Lock(r)
    BY <1>4, <2>1, Moves DEF Ask, Lock, Holds
  <2>2. CASE Delete(r) /\ RowBusy(r)
    BY <1>5, <2>2 DEF Delete
  <2>3. CASE Delete(r) /\ ~RowBusy(r)
    <3>1. tx' = [tx EXCEPT ![r] = [tx[r] EXCEPT !.at = "clear",
                                                !.deletes = row[KeyOf[r]] # NoRow]]
      BY <2>3 DEF Delete
    <3> QED
      BY <1>1, <1>4, <3>1 DEF Tx
  <2> QED
    BY <1>10, <2>1, <2>2, <2>3
<1>11. CASE Die(r)
  BY <1>11, <1>4, Died
<1> QED
  BY <1>7, <1>8, <1>9, <1>10, <1>11 DEF Acts

-----------------------------------------------------------------------------
(* Promises                                                                  *)

(* A request that left "new" does not come back to it.                       *)
LEMMA ReusedStays ==
  ASSUME TypeOK, [Next]_vars, NEW r \in Request, Reused(r)
  PROVE  Reused(r)'
<1>1. PICK q \in Request : KeyOf[q] = KeyOf[r] /\ Wanted[q] # Wanted[r] /\ tx[q].at # "new"
  BY DEF Reused
<1>2. tx'[q].at # "new"
  <2>1. CASE UNCHANGED tx
    BY <1>1, <2>1
  <2>2. ASSUME NEW s \in Request, Acts(s) PROVE tx'[q].at # "new"
    BY <1>1, <2>2, Moves DEF OnlyMover
  <2> QED
    BY <2>1, <2>2, StepCases
<1> QED
  BY <1>1, <1>2 DEF Reused

(* Time and other requests make no promise.                                  *)
LEMMA PromiseComes ==
  ASSUME TypeOK, [Next]_vars, NEW r \in Request, Promised(r)'
  PROVE  \/ Promised(r) /\ tx'[r].expires = tx[r].expires
         \/ Acts(r) /\ tx'[r].answer = "reserved"
<1>1. tx \in [Request -> Tx] /\ tx' \in [Request -> Tx] /\ now \in Nat /\ now' \in Nat
  BY TypeStep, ReservationsAssumption DEF TypeOK, Tx
<1>2. tx[r].expires \in Nat
  BY <1>1, ReservationsAssumption DEF Tx
<1>3. CASE UNCHANGED tx /\ now <= now'
  BY <1>1, <1>2, <1>3 DEF Promised
<1>4. ASSUME NEW s \in Request, Acts(s), s # r
      PROVE  Promised(r) /\ tx'[r].expires = tx[r].expires
  <2>1. tx'[r].answer = tx[r].answer /\ tx'[r].expires = tx[r].expires
    BY <1>4, Moves DEF OnlyMover
  <2>2. now' = now
    BY <1>4, RowMoves
  <2> QED
    BY <2>1, <2>2 DEF Promised
<1>5. CASE Acts(r)
  BY <1>5 DEF Promised
<1> QED
  BY <1>3, <1>4, <1>5, StepCases

LEMMA ReplacedStep ==
  TypeOK /\ Exclusive /\ Story /\ Replaced /\ PromisesKept /\ [Next]_vars => Replaced'
<1> SUFFICES ASSUME TypeOK, Exclusive, Story, Replaced, PromisesKept, [Next]_vars,
                    NEW r \in Request, NEW s \in Request, KeyOf[s] = KeyOf[r],
                    Promised(r)', Working(tx'[s]), ~Reused(r)
             PROVE  FALSE
  BY ReusedStays DEF Replaced
<1>1. tx[s].at # "new" => Wanted[s] = Wanted[r]
  BY DEF Reused
<1>2. CASE Promised(r)
  <2>1. ~Working(tx[s])
    BY <1>2 DEF Replaced
  <2>2. tx'[s] # tx[s]
    BY <2>1
  <2>3. PICK t \in Request : Acts(t)
    BY <2>2, StepCases
  <2>4. Acts(s)
    <3>1. CASE t # s
      BY <2>1, <2>2, <2>3, <3>1, Moves DEF OnlyMover, Working
    <3> QED
      BY <2>3, <3>1
  <2>5. tx[s].at = "locked" /\ (row[KeyOf[s]] = NoRow \/ row[KeyOf[s]].expires <= tx[s].asked)
    BY <2>1, <2>4, NewWork
  <2>6. row[KeyOf[r]] # NoRow /\ row[KeyOf[r]].expires = tx[r].expires
    <3>1. /\ row[KeyOf[r]] # NoRow
          /\ row[KeyOf[r]] = [product |-> Wanted[r], expires |-> tx[r].expires]
      BY <1>2 DEF Promised, PromisesKept, Reused
    <3> QED
      BY <3>1
  <2>7. tx[s].asked <= now /\ tx[r].expires > now
    BY <1>2, <2>5 DEF Story, Promised
  <2>8. tx[s].asked \in Nat /\ now \in Nat /\ tx[r].expires \in Nat
    BY ReservationsAssumption DEF TypeOK
  <2> QED
    BY <2>5, <2>6, <2>7, <2>8
<1>3. CASE Acts(r) /\ tx'[r].answer = "reserved"
  <2>1. Holds(r)
    BY <1>3, NewPromise
  <2>2. s # r
    BY <1>3, TypeStep, StoryStep DEF Story, Working
  <2>3. Holds(s)
    BY <1>3, <2>2, Moves DEF OnlyMover, Working, Holds
  <2>4. Wanted[s] = Wanted[r]
    BY <1>1, <2>3 DEF Holds
  <2> QED
    BY <2>1, <2>2, <2>3, <2>4 DEF Exclusive
<1> QED
  BY <1>2, <1>3, PromiseComes

LEMMA KeptStep ==
  TypeOK /\ Exclusive /\ Story /\ Replaced /\ PromisesKept /\ [Next]_vars => PromisesKept'
<1> SUFFICES ASSUME TypeOK, Exclusive, Story, Replaced, PromisesKept, [Next]_vars,
                    NEW r \in Request, Promised(r)', ~Reused(r)
             PROVE  /\ row'[KeyOf[r]] # NoRow
                    /\ row'[KeyOf[r]] = [product |-> Wanted[r], expires |-> tx'[r].expires]
  <2>1. \A r \in Request : Reused(r)' = 
          \E q \in Request : KeyOf[q] = KeyOf[r] /\ Wanted[q] # Wanted[r] /\ tx'[q].at # "new"
    BY DEF Reused
  <2>2. \A r \in Request : Promised(r)' = (tx'[r].answer = "reserved" /\ tx'[r].expires > now')
    BY DEF Promised
  <2> QED
    BY <2>1, <2>2, ReusedStays DEF PromisesKept
<1>1. row \in [Key -> Row \cup {NoRow}] /\ KeyOf[r] \in Key
  BY Instants DEF TypeOK
<1>2. CASE Promised(r) /\ tx'[r].expires = tx[r].expires
  <2>1. /\ row[KeyOf[r]] # NoRow
        /\ row[KeyOf[r]] = [product |-> Wanted[r], expires |-> tx[r].expires]
    BY <1>2 DEF Promised, PromisesKept, Reused
  <2>2. ASSUME NEW s \in Request, Acts(s) PROVE row'[KeyOf[r]] = row[KeyOf[r]]
    <3>1. KeyOf[s] = KeyOf[r] => ~Working(tx[s])
      BY <1>2 DEF Replaced
    <3>2. Insert(s) => Working(tx[s])
      BY DEF Insert, Working
    <3> QED
      BY <1>1, <2>2, <3>1, <3>2, RowChange
  <2>3. row'[KeyOf[r]] = row[KeyOf[r]]
    BY <2>2, StepCases
  <2> QED
    BY <1>2, <2>1, <2>3
<1>3. CASE Acts(r) /\ tx'[r].answer = "reserved"
  <2>1. row'[KeyOf[r]] = [product |-> Wanted[r], expires |-> tx'[r].expires]
    BY <1>3, NewPromise
  <2>2. tx'[r].expires \in Nat /\ Wanted[r] \in Product
    BY TypeStep, Instants, ReservationsAssumption DEF TypeOK
  <2> QED
    BY <2>1, <2>2, ReservationsAssumption
<1> QED
  BY <1>2, <1>3, PromiseComes

LEMMA InvStep == IInv /\ [Next]_vars => IInv'
BY TypeStep, ExclusiveStep, StoryStep, CountStep, ReplacedStep, KeptStep DEF IInv

LEMMA Invariance == Spec => []IInv
BY InvInit, InvStep, PTL DEF Spec

(* The second-hand shop keeps its promises: as long as a promise lasts, the  *)
(* customer's row is in the table, unless the key was used for another       *)
(* product (lib/second-hand-reservation.ts:17).                              *)
THEOREM PromisesHold == Spec => []PromisesKept
BY Invariance, PTL DEF IInv

-----------------------------------------------------------------------------
(* No more reservations than units                                          *)

LEMMA AddsAUnit ==
  ASSUME IInv, [Next]_vars, NEW p \in Product, ~(Active(p)' \subseteq Active(p))
  PROVE  Cardinality(Active(p)') <= onSale[p]
<1> USE DEF IInv
<1>1. /\ row \in [Key -> Row \cup {NoRow}] /\ now \in Nat /\ now' \in Nat
      /\ onSale \in [Product -> Nat]
  <2>1. TypeOK /\ TypeOK'
    BY TypeStep
  <2>2. row \in [Key -> Row \cup {NoRow}] /\ now \in Nat /\ now' \in Nat
    BY <2>1, ReservationsAssumption DEF TypeOK
  <2>3. onSale \in [Product -> Nat]
    BY <2>1, ReservationsAssumption DEF TypeOK
  <2> QED
    BY <2>2, <2>3
<1>2. ASSUME UNCHANGED row, now <= now' PROVE FALSE
  <2>1. \A k \in Key : row[k] # NoRow => row[k].expires \in Nat
    BY <1>1, ReservationsAssumption DEF Row
  <2> QED
    BY <1>1, <1>2, <2>1 DEF Active
<1>3. PICK r \in Request : Acts(r)
  BY <1>2, StepCases
<1>4. now' = now
  BY <1>3, RowMoves
<1>5. Insert(r) /\ Wanted[r] = p
  <2>1. PICK k \in Key : k \in Active(p)' /\ k \notin Active(p)
    BY DEF Active
  <2>2. row'[k] # row[k] /\ row'[k] # NoRow /\ row'[k].product = p
    BY <1>4, <2>1 DEF Active
  <2> QED
    BY <1>3, <2>2, RowChange
<1>6. tx[r].at = "counted"
  BY <1>5 DEF Insert
<1>7. Active(p)' \subseteq ActiveFor(r) \cup {KeyOf[r]}
  <2> SUFFICES ASSUME NEW k \in Key, k # KeyOf[r], row'[k] # NoRow, row'[k].product = p,
                      row'[k].expires > now
               PROVE  k \in ActiveFor(r)
    BY <1>4 DEF Active
  <2>1. row'[k] = row[k] /\ Remaining(r)[k] = row[k]
    BY <1>1, <1>3, RowChange, Instants DEF Remaining
  <2>2. tx[r].asked <= now /\ tx[r].asked \in Nat /\ row[k].expires \in Nat
    BY <1>1, <1>6, <2>1, Instants, ReservationsAssumption DEF Story, Row
  <2> QED
    BY <1>1, <1>5, <2>1, <2>2 DEF ActiveFor
<1>8. /\ IsFiniteSet(ActiveFor(r) \cup {KeyOf[r]})
      /\ Cardinality(ActiveFor(r) \cup {KeyOf[r]}) <= Cardinality(ActiveFor(r)) + 1
  <2>1. IsFiniteSet(ActiveFor(r)) /\ Cardinality(ActiveFor(r)) \in Nat
    BY ActiveFinite
  <2>2. /\ IsFiniteSet(ActiveFor(r) \cup {KeyOf[r]})
        /\ \/ Cardinality(ActiveFor(r) \cup {KeyOf[r]}) = Cardinality(ActiveFor(r))
           \/ Cardinality(ActiveFor(r) \cup {KeyOf[r]}) = Cardinality(ActiveFor(r)) + 1
    BY <2>1, FS_AddElement
  <2> QED
    BY <2>1, <2>2
<1>9. IsFiniteSet(Active(p)') /\ Cardinality(Active(p)') <= Cardinality(ActiveFor(r) \cup {KeyOf[r]})
  BY <1>7, <1>8, FS_Subset
<1>10. /\ Cardinality(Active(p)') \in Nat /\ Cardinality(ActiveFor(r)) \in Nat
       /\ Cardinality(ActiveFor(r) \cup {KeyOf[r]}) \in Nat
  BY <1>8, <1>9, ActiveFinite, FS_CardinalityType
<1>11. Cardinality(ActiveFor(r)) < onSale[p] /\ onSale[p] \in Nat
  BY <1>1, <1>5, <1>6 DEF CountHolds
<1> QED
  BY <1>8, <1>9, <1>10, <1>11

(* Whatever requests and edits interleave with it, a request that adds a     *)
(* reservation finds the unit it counted (lib/second-hand-reservation.ts:17).*)
THEOREM UnitsSuffice == Spec => NeverOverReserved
<1>1. IInv /\ [Next]_vars =>
        [\A p \in Product :
           ~(Active(p)' \subseteq Active(p)) => Cardinality(Active(p)') <= onSale[p]]_vars
  BY AddsAUnit
<1> QED
  BY <1>1, Invariance, PTL DEF Spec, NeverOverReserved

-----------------------------------------------------------------------------
(* Nobody waits in a circle                                                  *)

(* A row has one deleter, which has not ended; a blocked request waits for   *)
(* the deleter of its row.                                                   *)
OneDeleter ==
  \A q, s \in Request : q # s /\ KeyOf[q] = KeyOf[s] /\ tx[q].deletes => ~tx[s].deletes

Waits ==
  /\ \A r \in Request : tx[r].deletes => tx[r].at \in {"clear", "counted"}
  /\ OneDeleter
  /\ \A r \in Request :
       tx[r].at = "blocked" => \E q \in Request \ {r} : KeyOf[q] = KeyOf[r] /\ tx[q].deletes

LEMMA BusyRow ==
  ASSUME TypeOK, Waits, NEW r \in Request
  PROVE  RowBusy(r) <=> \E q \in Request \ {r} : KeyOf[q] = KeyOf[r] /\ tx[q].deletes
BY DEF Waits, RowBusy, Deleting, Holds

LEMMA WaitsInit == Init => Waits
BY DEF Init, Waits, OneDeleter

(* A request that goes on and keeps what it deleted.                         *)
LEMMA WaitsGoto ==
  ASSUME TypeOK, Waits, NEW r \in Request, NEW at, Goto(r, at),
         tx[r].deletes => at = "counted", at = "blocked" => RowBusy(r)
  PROVE  Waits'
<1>1. tx \in [Request -> Tx] /\ tx[r] \in Tx
  BY DEF TypeOK, Tx
<1>2. tx'[r] = [tx[r] EXCEPT !.at = at] /\ \A q \in Request \ {r} : tx'[q] = tx[q]
  BY <1>1 DEF Goto
<1>3. tx'[r].at = at /\ tx'[r].deletes = tx[r].deletes
  BY <1>1, <1>2 DEF Tx
<1>4. \A q \in Request : tx'[q].deletes = tx[q].deletes
  BY <1>2, <1>3
<1>5. OneDeleter'
  BY <1>4 DEF Waits, OneDeleter
<1>6. \A q \in Request : tx'[q].deletes => tx'[q].at \in {"clear", "counted"}
  BY <1>2, <1>3, <1>4 DEF Waits
<1>7. ASSUME NEW q \in Request, tx'[q].at = "blocked"
      PROVE  \E s \in Request \ {q} : KeyOf[s] = KeyOf[q] /\ tx'[s].deletes
  <2>1. PICK s \in Request \ {q} : KeyOf[s] = KeyOf[q] /\ tx[s].deletes
    <3>1. CASE q = r
      BY <1>3, <1>7, <3>1, BusyRow
    <3>2. CASE q # r
      BY <1>2, <1>7, <3>2 DEF Waits
    <3> QED
      BY <3>1, <3>2
  <2> QED
    BY <1>4, <2>1
<1> QED
  BY <1>5, <1>6, <1>7 DEF Waits

(* A request whose DELETE finds its row free.                                *)
LEMMA WaitsDelete ==
  ASSUME TypeOK, Waits, NEW r \in Request, Delete(r)
  PROVE  Waits'
<1>1. tx \in [Request -> Tx] /\ tx[r] \in Tx
  BY DEF TypeOK, Tx
<1>2. tx[r].at = "stale" /\ ~tx[r].deletes
  BY DEF Delete, Waits
<1>3. CASE RowBusy(r)
  BY <1>2, <1>3, WaitsGoto DEF Delete
<1>4. CASE ~RowBusy(r)
  <2>1. tx' = [tx EXCEPT ![r] = [tx[r] EXCEPT !.at = "clear", !.deletes = row[KeyOf[r]] # NoRow]]
    BY <1>4 DEF Delete
  <2>2. /\ tx'[r] = [tx[r] EXCEPT !.at = "clear", !.deletes = row[KeyOf[r]] # NoRow]
        /\ \A q \in Request \ {r} : tx'[q] = tx[q]
    BY <1>1, <2>1
  <2>3. tx'[r].at = "clear"
    BY <1>1, <2>2 DEF Tx
  <2>4. \A q \in Request \ {r} : KeyOf[q] = KeyOf[r] => ~tx[q].deletes
    BY <1>4, BusyRow
  <2>5. OneDeleter'
    BY <2>2, <2>4 DEF Waits, OneDeleter
  <2>6. \A q \in Request : tx'[q].deletes => tx'[q].at \in {"clear", "counted"}
    BY <2>2, <2>3 DEF Waits
  <2>7. ASSUME NEW q \in Request, tx'[q].at = "blocked"
        PROVE  \E s \in Request \ {q} : KeyOf[s] = KeyOf[q] /\ tx'[s].deletes
    <3>1. q # r /\ tx[q].at = "blocked"
      BY <2>2, <2>3, <2>7
    <3>2. PICK s \in Request \ {q} : KeyOf[s] = KeyOf[q] /\ tx[s].deletes
      BY <3>1 DEF Waits
    <3>3. s # r
      BY <1>2, <3>2
    <3> QED
      BY <2>2, <3>2, <3>3
  <2> QED
    BY <2>5, <2>6, <2>7 DEF Waits
<1> QED
  BY <1>3, <1>4

(* An answer releases everyone who waited for the request.                   *)
LEMMA WaitsAnswer ==
  ASSUME TypeOK, Waits, NEW r \in Request, NEW answer, NEW expires, Answer(r, answer, expires)
  PROVE  Waits'
<1>1. tx \in [Request -> Tx]
  BY DEF TypeOK, Tx
<1>2. /\ tx'[r] = Answered(r, answer, expires)
      /\ \A q \in Request \ {r} :
           tx'[q] = IF q \in Waiters(r) THEN [tx[q] EXCEPT !.at = "clear"] ELSE tx[q]
  BY DEF Answer, Waiters
<1>3. tx'[r].at = "answered" /\ ~tx'[r].deletes
  BY <1>2 DEF Answered
<1>4. \A q \in Request \ {r} :
        /\ tx'[q].deletes = tx[q].deletes
        /\ tx'[q].at = IF q \in Waiters(r) THEN "clear" ELSE tx[q].at
  BY <1>1, <1>2 DEF Tx
<1>5. OneDeleter'
  BY <1>3, <1>4 DEF Waits, OneDeleter
<1>6. \A q \in Request : tx'[q].deletes => tx'[q].at \in {"clear", "counted"}
  BY <1>3, <1>4 DEF Waits
<1>7. ASSUME NEW q \in Request, tx'[q].at = "blocked"
      PROVE  \E s \in Request \ {q} : KeyOf[s] = KeyOf[q] /\ tx'[s].deletes
  <2>1. q # r /\ q \notin Waiters(r) /\ tx[q].at = "blocked"
    BY <1>3, <1>4, <1>7
  <2>2. PICK s \in Request \ {q} : KeyOf[s] = KeyOf[q] /\ tx[s].deletes
    BY <2>1 DEF Waits
  <2>3. s # r
    BY <2>1, <2>2 DEF Waiters
  <2> QED
    BY <1>4, <2>2, <2>3
<1> QED
  BY <1>5, <1>6, <1>7 DEF Waits

(* When the deleter dies, a request that waited for it takes its place.      *)
LEMMA WaitsDie ==
  ASSUME TypeOK, Waits, NEW r \in Request, Die(r)
  PROVE  Waits'
<1>1. tx \in [Request -> Tx]
  BY DEF TypeOK, Tx
<1>2. CASE Answer(r, "failed", 0)
  BY <1>2, WaitsAnswer
<1>3. ASSUME NEW q \in Waiters(r),
             tx' = [tx EXCEPT ![r] = Answered(r, "failed", 0),
                              ![q] = [tx[q] EXCEPT !.at = "clear", !.deletes = TRUE]]
      PROVE  Waits'
  <2>1. q \in Request /\ q # r /\ tx[q].at = "blocked" /\ KeyOf[q] = KeyOf[r]
    BY DEF Waiters
  <2>2. tx[r].deletes
    BY DEF Waiters
  <2>3. /\ tx'[r] = Answered(r, "failed", 0)
        /\ tx'[q] = [tx[q] EXCEPT !.at = "clear", !.deletes = TRUE]
        /\ \A s \in Request \ {q, r} : tx'[s] = tx[s]
    BY <1>1, <1>3, <2>1
  <2>4. tx'[r].at = "answered" /\ ~tx'[r].deletes
    BY <2>3 DEF Answered
  <2>5. tx[q] \in Tx
    BY <1>1, <2>1
  <2>6. tx'[q].at = "clear" /\ tx'[q].deletes
    BY <2>3, <2>5 DEF Tx
  <2>7. \A s \in Request \ {q, r} : KeyOf[s] = KeyOf[q] => ~tx'[s].deletes
    BY <2>1, <2>2, <2>3 DEF Waits, OneDeleter
  <2>8. OneDeleter'
    BY <2>1, <2>3, <2>4, <2>6, <2>7 DEF Waits, OneDeleter
  <2>9. \A s \in Request : tx'[s].deletes => tx'[s].at \in {"clear", "counted"}
    BY <2>3, <2>4, <2>6 DEF Waits
  <2>10. ASSUME NEW s \in Request, tx'[s].at = "blocked"
         PROVE  \E t \in Request \ {s} : KeyOf[t] = KeyOf[s] /\ tx'[t].deletes
    <3>1. s \notin {q, r} /\ tx[s].at = "blocked"
      BY <2>3, <2>4, <2>6, <2>10
    <3>2. PICK t \in Request \ {s} : KeyOf[t] = KeyOf[s] /\ tx[t].deletes
      BY <3>1 DEF Waits
    <3>3. CASE t \in {q, r}
      BY <2>1, <2>6, <3>1, <3>2, <3>3
    <3>4. CASE t \notin {q, r}
      BY <2>3, <3>2, <3>4
    <3> QED
      BY <3>3, <3>4
  <2> QED
    BY <2>8, <2>9, <2>10 DEF Waits
<1> QED
  BY <1>2, <1>3 DEF Die

LEMMA WaitsStep == TypeOK /\ Waits /\ [Next]_vars => Waits'
<1> SUFFICES ASSUME TypeOK, Waits, [Next]_vars PROVE Waits'
  OBVIOUS
<1>1. CASE UNCHANGED tx
  BY <1>1 DEF Waits, OneDeleter
<1>2. ASSUME NEW r \in Request, Ask(r) PROVE Waits'
  <2>1. tx \in [Request -> Tx] /\ tx[r] \in Tx /\ ~tx[r].deletes
    BY <1>2 DEF TypeOK, Tx, Ask, Waits
  <2>2. /\ tx'[r] = [tx[r] EXCEPT !.at = "asked", !.asked = now]
        /\ \A q \in Request \ {r} : tx'[q] = tx[q]
    BY <1>2, <2>1 DEF Ask
  <2>3. tx'[r].at = "asked" /\ tx'[r].deletes = tx[r].deletes
    BY <2>1, <2>2 DEF Tx
  <2>4. \A q \in Request : tx'[q].deletes = tx[q].deletes
    BY <2>2, <2>3
  <2>5. OneDeleter'
    BY <2>4 DEF Waits, OneDeleter
  <2>6. \A q \in Request : tx'[q].deletes => tx'[q].at \in {"clear", "counted"}
    BY <2>1, <2>2, <2>3 DEF Waits
  <2>7. ASSUME NEW q \in Request, tx'[q].at = "blocked"
        PROVE  \E s \in Request \ {q} : KeyOf[s] = KeyOf[q] /\ tx'[s].deletes
    <3>1. tx[q].at = "blocked"
      BY <2>2, <2>3, <2>7
    <3>2. PICK s \in Request \ {q} : KeyOf[s] = KeyOf[q] /\ tx[s].deletes
      BY <3>1 DEF Waits
    <3> QED
      BY <2>4, <3>2
  <2> QED
    BY <2>5, <2>6, <2>7 DEF Waits
<1>3. ASSUME NEW r \in Request, Lock(r) \/ Find(r) \/ Count(r) \/ Insert(r) PROVE Waits'
  <2>1. tx[r].deletes => tx[r].at \in {"clear", "counted"}
    BY DEF Waits
  <2>2. CASE Lock(r)
    <3>1. ~tx[r].deletes /\ Goto(r, "locked")
      BY <2>1, <2>2 DEF Lock
    <3> QED
      BY <3>1, WaitsGoto
  <2>3. CASE Find(r)
    <3>1. ~tx[r].deletes
      BY <2>1, <2>3 DEF Find
    <3>2. CASE Goto(r, "clear") \/ Goto(r, "stale")
      BY <3>1, <3>2, WaitsGoto
    <3>3. ASSUME NEW answer, NEW expires, Answer(r, answer, expires) PROVE Waits'
      BY <3>3, WaitsAnswer
    <3> QED
      BY <2>3, <3>2, <3>3 DEF Find
  <2>4. CASE Count(r)
    <3>1. CASE Goto(r, "counted")
      BY <3>1, WaitsGoto
    <3>2. CASE Answer(r, "unavailable", 0)
      BY <3>2, WaitsAnswer
    <3> QED
      BY <2>4, <3>1, <3>2 DEF Count
  <2>5. CASE Insert(r)
    BY <2>5, WaitsAnswer DEF Insert
  <2> QED
    BY <1>3, <2>2, <2>3, <2>4, <2>5
<1> QED
  BY <1>1, <1>2, <1>3, WaitsDelete, WaitsDie, StepCases DEF Acts

LEMMA WaitsHold == Spec => [](TypeOK /\ Waits)
BY TypeInit, TypeStep, WaitsInit, WaitsStep, PTL DEF Spec

(* The guards under which a request's next statement does not wait.          *)
MayGoOn(r) ==
  \/ tx[r].at = "asked" /\ ~\E q \in Request : Holds(q) /\ Wanted[q] = Wanted[r]
  \/ tx[r].at \in {"locked", "stale", "clear"}
  \/ tx[r].at = "counted" /\ ~RowBusy(r)

(* What that statement makes of the transactions and of the table.           *)
Reply(r, answer, expires) ==
  [q \in Request |->
     IF q = r THEN Answered(r, answer, expires)
     ELSE IF q \in Waiters(r) THEN [tx[q] EXCEPT !.at = "clear"] ELSE tx[q]]

Result(r) ==
  LET found == row[KeyOf[r]]
      To(at) == [tx |-> [tx EXCEPT ![r].at = at], row |-> row] IN
  IF tx[r].at = "asked" THEN To("locked")
  ELSE IF tx[r].at = "locked" THEN
    IF found = NoRow THEN To("clear")
    ELSE IF found.expires <= tx[r].asked THEN To("stale")
    ELSE [tx |-> IF found.product = Wanted[r] THEN Reply(r, "reserved", found.expires)
                 ELSE Reply(r, "conflict", 0),
          row |-> row]
  ELSE IF tx[r].at = "stale" THEN
    IF RowBusy(r) THEN To("blocked")
    ELSE [tx |-> [tx EXCEPT ![r] = [@ EXCEPT !.at = "clear", !.deletes = row[KeyOf[r]] # NoRow]],
          row |-> row]
  ELSE IF tx[r].at = "clear" THEN
    IF Cardinality(ActiveFor(r)) < onSale[Wanted[r]] THEN To("counted")
    ELSE [tx |-> Reply(r, "unavailable", 0), row |-> Remaining(r)]
  ELSE IF Remaining(r)[KeyOf[r]] = NoRow THEN
    [tx  |-> Reply(r, "reserved", Until(r)),
     row |-> [row EXCEPT ![KeyOf[r]] = [product |-> Wanted[r], expires |-> Until(r)]]]
  ELSE [tx |-> Reply(r, "failed", 0), row |-> row]

(* MayGoOn is no less than being able to take the step: Result, a function   *)
(* of the present state, gives a next state to which Run leads.              *)
LEMMA GoesOn ==
  ASSUME TypeOK, NEW r \in Request, MayGoOn(r),
         tx' = Result(r).tx, row' = Result(r).row, UNCHANGED <<now, onSale>>
  PROVE  Run(r)
<1>1. \A answer, expires : tx' = Reply(r, answer, expires) => Answer(r, answer, expires)
  BY DEF Reply, Answer
<1>2. CASE tx[r].at = "asked"
  <2>1. Lock(r)
    BY <1>2 DEF MayGoOn, Result, Lock, Goto
  <2> QED
    BY <2>1 DEF Run
<1>3. CASE tx[r].at = "locked"
  <2>1. row[KeyOf[r]] # NoRow =>
          (row[KeyOf[r]].expires <= tx[r].asked <=> ~(row[KeyOf[r]].expires > tx[r].asked))
    BY Instants, ReservationsAssumption DEF TypeOK, Row
  <2>2. Find(r)
    BY <1>1, <1>3, <2>1 DEF Result, Find, Goto
  <2> QED
    BY <2>2 DEF Run
<1>4. CASE tx[r].at = "stale"
  <2>1. Delete(r)
    BY <1>4 DEF Result, Delete, Goto
  <2> QED
    BY <2>1 DEF Run
<1>5. CASE tx[r].at = "clear"
  <2>1. Count(r)
    BY <1>1, <1>5 DEF Result, Count, Goto
  <2> QED
    BY <2>1 DEF Run
<1>6. CASE tx[r].at = "counted"
  <2>1. ~RowBusy(r)
    BY <1>6 DEF MayGoOn
  <2>2. Insert(r)
    BY <1>1, <1>6, <2>1 DEF Result, Insert
  <2> QED
    BY <2>2 DEF Run
<1> QED
  BY <1>2, <1>3, <1>4, <1>5, <1>6 DEF MayGoOn

(* An open transaction can go on, or the deleter it waits for can.           *)
LEMMA OpenGoesOn ==
  ASSUME TypeOK, Waits, NEW r \in Request, Holds(r)
  PROVE  \E q \in Request : MayGoOn(q)
<1>1. ASSUME NEW q \in Request, tx[q].deletes PROVE MayGoOn(q)
  <2>1. tx[q].at \in {"clear", "counted"}
    BY <1>1 DEF Waits
  <2>2. ~RowBusy(q)
    BY <1>1, BusyRow DEF Waits, OneDeleter
  <2> QED
    BY <2>1, <2>2 DEF MayGoOn
<1>2. CASE tx[r].at \in {"locked", "stale", "clear"}
  BY <1>2 DEF MayGoOn
<1>3. CASE tx[r].at = "blocked"
  BY <1>1, <1>3 DEF Waits
<1>4. CASE tx[r].at = "counted"
  <2>1. CASE RowBusy(r)
    BY <1>1, <2>1, BusyRow
  <2>2. CASE ~RowBusy(r)
    BY <1>4, <2>2 DEF MayGoOn
  <2> QED
    BY <2>1, <2>2
<1> QED
  BY <1>2, <1>3, <1>4 DEF Holds

(* While a request is open or waits for its lock, some request's next        *)
(* statement does not wait: the advisory locks of the products and the row   *)
(* locks of the reservations make no circle                                  *)
(* (lib/second-hand-reservation-db.ts:12).                                   *)
THEOREM NoCircle ==
  Spec => []((\E r \in Request : Holds(r) \/ tx[r].at = "asked") => \E r \in Request : MayGoOn(r))
<1>1. ASSUME TypeOK, Waits, NEW r \in Request, Holds(r) \/ tx[r].at = "asked"
      PROVE  \E q \in Request : MayGoOn(q)
  <2>1. CASE \E q \in Request : Holds(q)
    BY <1>1, <2>1, OpenGoesOn
  <2>2. CASE ~\E q \in Request : Holds(q)
    BY <1>1, <2>2 DEF MayGoOn
  <2> QED
    BY <2>1, <2>2
<1>2. TypeOK /\ Waits =>
        ((\E r \in Request : Holds(r) \/ tx[r].at = "asked") => \E r \in Request : MayGoOn(r))
  BY <1>1
<1> QED
  BY <1>2, WaitsHold, PTL
=============================================================================
