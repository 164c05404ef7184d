---------------------------- MODULE OutboxProofs ----------------------------
(***************************************************************************)
(* Proofs about Outbox, for any orders, workers, leases, budgets and       *)
(* numbers of attempts.                                                    *)
(***************************************************************************)
EXTENDS Outbox, TLAPS

-----------------------------------------------------------------------------
(* Types *)

(* One action in the cases in which the actions come. *)
LEMMA NextCases ==
  ASSUME Next
  PROVE  \/ \E o \in Orders : Create(o) \/ enqueueOrderNotifications(o)
         \/ \E m \in Mails : requeueDeadNotification(m) \/ Lapse(m)
         \/ \E w \in Workers :
               \/ sweepMissingNotifications(w) \/ Bury(w) \/ Claim(w)
               \/ \E c \in batch[w] : Unsendable(w, c) \/ holdClaim(w, c)
               \/ reserveSend(w) \/ send(w) \/ Finish(w) \/ RowFails(w) \/ Crash(w)
         \/ \E k \in Kinds : NewWindow(k)
         \/ Tick
BY DEF Next, dispatchOutbox, DispatchRow

(* A worker works on a claim of its own. *)
Working ==
    \A w \in Workers :
        /\ pc[w] \in {"reserve", "send", "finish"} => cur[w] \in Claims /\ cur[w].token = w
        /\ \A c \in batch[w] : c.token = w

LEMMA TypeInit == Init => TypeOK /\ Working
BY OutboxAssumption DEF Init, TypeOK, Working, Row, Absent, Floor, Timed, Mails

(* What the statements make of a row is a row. *)
LEMMA RowUpdates ==
  ASSUME NEW r \in Row
  PROVE  /\ Fresh \in Row
         /\ [r EXCEPT !.status = "pending", !.attempts = 0, !.wait = 0, !.left = 0] \in Row
         /\ [r EXCEPT !.status = "dead", !.token = NoToken, !.left = 0] \in Row
         /\ [r EXCEPT !.left = Lock] \in Row
         /\ \A w \in Workers, n \in Nat, t \in 0 .. MaxStall :
              [status |-> "sending", attempts |-> n + 1, token |-> w, left |-> Lock - t,
               wait |-> 0] \in Row
         /\ [r EXCEPT !.left = Down(@, Floor)] \in Row
         /\ [r EXCEPT !.wait = Down(@, 0)] \in Row
         /\ \A s \in {"sent", "pending", "dead"}, pause \in 0 .. Delay :
              /\ [r EXCEPT !.status = s, !.wait = pause, !.token = NoToken, !.left = 0] \in Row
              /\ [r EXCEPT !.status = s, !.wait = r.wait, !.token = NoToken, !.left = 0] \in Row
<1> USE OutboxAssumption DEF Row, Floor
<1>1. Fresh \in Row
  BY DEF Fresh, Absent
<1>2. /\ [r EXCEPT !.left = Down(@, Floor)] \in Row
      /\ [r EXCEPT !.wait = Down(@, 0)] \in Row
  BY DEF Down
<1>3. \A w \in Workers, n \in Nat, t \in 0 .. MaxStall : n + 1 \in Nat /\ Lock - t \in Floor .. Lock
  OBVIOUS
<1>4. 0 \in Floor .. Lock /\ Lock \in Floor .. Lock /\ 0 \in 0 .. Delay
  OBVIOUS
<1> QED
  BY <1>1, <1>2, <1>3, <1>4

(* The guarded UPDATE leaves rows. *)
LEMMA FinishType ==
  ASSUME TypeOK, NEW c \in Claims, NEW outcome, finish(c, outcome)
  PROVE  row' \in [Mails -> Row]
<1>1. c.mail \in Mails
  BY DEF Claims
<1>2. CASE ~Owns(c)
  BY <1>2 DEF finish, TypeOK
<1>3. CASE Owns(c)
  <2>1. PICK pause \in 0 .. Delay : row' = [row EXCEPT ![c.mail] = Finished(c.mail, outcome, pause)]
    BY <1>3, OutboxAssumption DEF finish
  <2>2. Finished(c.mail, outcome, pause) \in
          Row
    BY <1>1, RowUpdates DEF Finished, TypeOK
  <2> QED
    BY <1>1, <2>1, <2>2 DEF TypeOK
<1> QED
  BY <1>2, <1>3

LEMMA TypeStep == TypeOK /\ Working /\ [Next]_vars => TypeOK'
<1> SUFFICES ASSUME TypeOK, Working, [Next]_vars PROVE TypeOK'
  OBVIOUS
<1> USE OutboxAssumption DEF shop, provider, worker
<1>1. ASSUME NEW o \in Orders, Create(o) PROVE TypeOK'
  BY <1>1 DEF Create, TypeOK, Mails
<1>2. ASSUME NEW o \in Orders, enqueueOrderNotifications(o) PROVE TypeOK'
  BY <1>2, RowUpdates DEF enqueueOrderNotifications, TypeOK, Inserted
<1>3. ASSUME NEW m \in Mails, requeueDeadNotification(m) PROVE TypeOK'
  BY <1>3, RowUpdates DEF requeueDeadNotification, TypeOK
<1>4. ASSUME NEW m \in Mails, Lapse(m) PROVE TypeOK'
  BY <1>4 DEF Lapse, TypeOK
<1>5. ASSUME NEW w \in Workers, sweepMissingNotifications(w) PROVE TypeOK'
  <2>1. row' \in [Mails -> Row]
    BY <1>5, RowUpdates DEF sweepMissingNotifications, TypeOK, Inserted
  <2> QED
    BY <1>5, <2>1 DEF sweepMissingNotifications, TypeOK, Timed
<1>6. ASSUME NEW w \in Workers, Bury(w) PROVE TypeOK'
  BY <1>6, RowUpdates DEF Bury, TypeOK, Timed
<1>7. ASSUME NEW w \in Workers, Claim(w) PROVE TypeOK'
  <2>1. \A m \in Mails : row[m] \in Row /\ row[m].attempts \in Nat
    BY DEF TypeOK, Row
  <2>2. row' \in [Mails -> Row]
    BY <1>7, <2>1, RowUpdates DEF Claim, TypeOK
  <2>3. batch' \in [Workers -> SUBSET Claims]
    BY <1>7, <2>1 DEF Claim, TypeOK, Claims
  <2>4. timer' \in [Workers -> 0 .. MaxStall]
    BY <1>7 DEF Claim, TypeOK
  <2> QED
    BY <1>7, <2>2, <2>3, <2>4 DEF Claim, TypeOK, Timed
<1>8. ASSUME NEW w \in Workers, NEW c \in batch[w], Unsendable(w, c) PROVE TypeOK'
  <2>1. c \in Claims
    BY DEF TypeOK
  <2> QED
    BY <1>8, <2>1, FinishType DEF Unsendable, NextRow, TypeOK, Timed
<1>9. ASSUME NEW w \in Workers, NEW c \in batch[w], holdClaim(w, c) PROVE TypeOK'
  <2>1. c \in Claims /\ c.mail \in Mails
    BY DEF TypeOK, Claims
  <2>2. CASE Owns(c)
    <3>1. row[c.mail] \in Row
      BY <2>1 DEF TypeOK
    <3>2. Held(c.mail) \in Row
      BY <3>1, RowUpdates DEF Held
    <3>3. row' \in [Mails -> Row]
      BY <1>9, <2>1, <2>2, <3>2 DEF holdClaim, TypeOK
    <3> QED
      BY <1>9, <2>1, <2>2, <3>3 DEF holdClaim, TypeOK, Timed
  <2>3. CASE ~Owns(c)
    BY <1>9, <2>1, <2>3 DEF holdClaim, NextRow, TypeOK, Timed
  <2> QED
    BY <2>2, <2>3
<1>10. ASSUME NEW w \in Workers, reserveSend(w) PROVE TypeOK'
  <2>1. cur[w].mail \in Mails /\ cur[w].mail[2] \in Kinds
    BY <1>10 DEF reserveSend, Working, Claims, Mails
  <2> QED
    BY <1>10, <2>1 DEF reserveSend, Fits, Unbudgeted, Answer, RetryOrDead, TypeOK, Timed
<1>11. ASSUME NEW w \in Workers, send(w) PROVE TypeOK'
  <2>1. cur[w].mail \in Mails
    BY <1>11 DEF send, Working, Claims
  <2> QED
    BY <1>11, <2>1 DEF send, Answer, RetryOrDead, TypeOK, Timed
<1>12. ASSUME NEW w \in Workers, Finish(w) PROVE TypeOK'
  <2>1. cur[w] \in Claims
    BY <1>12 DEF Finish, Working
  <2> QED
    BY <1>12, <2>1, FinishType DEF Finish, NextRow, TypeOK, Timed
<1>13. ASSUME NEW w \in Workers, RowFails(w) PROVE TypeOK'
  BY <1>13 DEF RowFails, NextRow, TypeOK, Timed
<1>14. ASSUME NEW w \in Workers, Crash(w) PROVE TypeOK'
  BY <1>14 DEF Crash, NextRow, TypeOK, Timed
<1>15. ASSUME NEW k \in Kinds, NewWindow(k) PROVE TypeOK'
  BY <1>15 DEF NewWindow, TypeOK
<1>16. ASSUME Tick PROVE TypeOK'
  <2>1. age' \in [Orders -> 0 .. Window + 1]
    BY <1>16 DEF Tick, TypeOK
  <2>2. row' \in [Mails -> Row]
    BY <1>16, RowUpdates DEF Tick, TypeOK
  <2>3. timer' \in [Workers -> 0 .. MaxStall]
    BY <1>16 DEF Tick, TypeOK
  <2> QED
    BY <1>16, <2>1, <2>2, <2>3 DEF Tick, TypeOK
<1>17. CASE UNCHANGED vars
  BY <1>17 DEF vars, TypeOK
<1> QED
  BY <1>1, <1>2, <1>3, <1>4, <1>5, <1>6, <1>7, <1>8, <1>9, <1>10, <1>11, <1>12, <1>13,
     <1>14, <1>15, <1>16, <1>17, NextCases

LEMMA WorkingStep == TypeOK /\ Working /\ [Next]_vars => Working'
<1> SUFFICES ASSUME TypeOK, Working, [Next]_vars PROVE Working'
  OBVIOUS
<1> USE DEF shop, provider, worker, Working
<1>1. ASSUME NEW w \in Workers, Claim(w) PROVE Working'
  BY <1>1 DEF Claim, TypeOK
<1>2. ASSUME NEW w \in Workers, NEW c \in batch[w], holdClaim(w, c) PROVE Working'
  <2>1. c \in Claims /\ c.token = w
    BY DEF TypeOK
  <2> QED
    BY <1>2, <2>1 DEF holdClaim, NextRow, TypeOK
<1>3. ASSUME NEW w \in Workers, NEW c \in batch[w], Unsendable(w, c) PROVE Working'
  <2>1. /\ batch' = [batch EXCEPT ![w] = @ \ {c}]
        /\ pc' = [pc EXCEPT ![w] = IF batch'[w] = {} THEN "idle" ELSE "next"]
        /\ cur' = [cur EXCEPT ![w] = NoClaim]
    BY <1>3 DEF Unsendable, NextRow
  <2> QED
    BY <2>1 DEF TypeOK
<1>4. ASSUME NEW w \in Workers, sweepMissingNotifications(w) \/ Bury(w) PROVE Working'
  <2>1. \E step \in {"bury", "claim"} : pc' = [pc EXCEPT ![w] = step] /\ UNCHANGED <<batch, cur>>
    BY <1>4 DEF sweepMissingNotifications, Bury
  <2> QED
    BY <2>1 DEF TypeOK
<1>5. ASSUME NEW w \in Workers, reserveSend(w) PROVE Working'
  BY <1>5 DEF reserveSend, Unbudgeted, Answer, TypeOK
<1>6. ASSUME NEW w \in Workers, send(w) PROVE Working'
  BY <1>6 DEF send, Answer, TypeOK
<1>7. ASSUME NEW w \in Workers, Finish(w) \/ RowFails(w) \/ Crash(w) PROVE Working'
  BY <1>7 DEF Finish, RowFails, Crash, NextRow, TypeOK
<1>8. CASE UNCHANGED worker
  BY <1>8
<1>9. ASSUME NEW o \in Orders, Create(o) \/ enqueueOrderNotifications(o) PROVE UNCHANGED worker
  BY <1>9 DEF Create, enqueueOrderNotifications
<1>10. ASSUME NEW m \in Mails, requeueDeadNotification(m) \/ Lapse(m) PROVE UNCHANGED worker
  BY <1>10 DEF requeueDeadNotification, Lapse
<1>11. ASSUME NEW k \in Kinds, NewWindow(k) PROVE UNCHANGED worker
  BY <1>11 DEF NewWindow
<1>12. ASSUME Tick PROVE Working'
  BY <1>12 DEF Tick
<1>13. CASE UNCHANGED vars
  BY <1>13 DEF vars
<1> QED
  BY <1>1, <1>2, <1>3, <1>4, <1>5, <1>6, <1>7, <1>8, <1>9, <1>10, <1>11, <1>12, <1>13, NextCases

(* Rows, claims and clocks keep their shapes, no budget is exceeded and no  *)
(* lease is longer than Lock, whatever fails and whoever dies.              *)
THEOREM TypeCorrect == Spec => []TypeOK
<1>1. TypeOK /\ Working /\ [Next]_vars => (TypeOK /\ Working)'
  BY TypeStep, WorkingStep
<1> QED
  BY TypeInit, <1>1, PTL DEF Spec

-----------------------------------------------------------------------------
(* Leases *)

(* Between holding a row and the provider's answer, the row is in the       *)
(* worker's name and its lease outlives every clock reading.                *)
LeaseHeld(w) ==
    LET r == row[cur[w].mail] IN
    pc[w] \in {"reserve", "send"} =>
        r.status = "sending" /\ r.token = w /\ r.left >= Lock - timer[w]

Leases == \A w \in Workers : LeaseHeld(w)

(* What a step leaves alone of a row that a worker holds. *)
KeepsRow(m) == row'[m] = row[m]

(* Nobody else changes the row of a worker that holds it. *)
LEMMA OthersLeaveIt ==
  ASSUME TypeOK, Working, NEW w \in Workers, pc[w] \in {"reserve", "send"}, LeaseHeld(w),
         NEW v \in Workers,
         \/ sweepMissingNotifications(v) \/ Bury(v) \/ Claim(v)
         \/ v # w /\ \E c \in batch[v] : Unsendable(v, c) \/ holdClaim(v, c)
         \/ v # w /\ Finish(v)
  PROVE  KeepsRow(cur[w].mail)
<1> DEFINE m == cur[w].mail
<1>1. /\ m \in Mails /\ row[m].status = "sending" /\ row[m].token = w
      /\ row[m].left \in Int /\ row[m].left >= 1
  BY OutboxAssumption DEF TypeOK, Working, LeaseHeld, Claims, Row
<1>2. ~Expired(v, m) /\ ~Due(v, m)
  BY <1>1, OutboxAssumption DEF Expired, Due, TypeOK
<1>3. CASE sweepMissingNotifications(v)
  BY <1>1, <1>3 DEF sweepMissingNotifications, Inserted, Absent, KeepsRow
<1>4. CASE Bury(v)
  BY <1>1, <1>2, <1>4 DEF Bury, Stalled, KeepsRow
<1>5. CASE Claim(v)
  BY <1>1, <1>2, <1>5 DEF Claim, KeepsRow
<1>6. ASSUME v # w, NEW c \in Claims, c.token = v, NEW outcome, finish(c, outcome)
      PROVE  KeepsRow(m)
  BY <1>1, <1>6 DEF finish, Owns, KeepsRow, TypeOK
<1>7. ASSUME v # w, NEW c \in batch[v], Unsendable(v, c) PROVE KeepsRow(m)
  BY <1>6, <1>7 DEF Unsendable, Working, TypeOK
<1>8. ASSUME v # w, NEW c \in batch[v], holdClaim(v, c) PROVE KeepsRow(m)
  <2>1. c.token = v
    BY DEF Working
  <2>2. CASE Owns(c)
    BY <1>1, <1>8, <2>1, <2>2 DEF holdClaim, Owns, KeepsRow, TypeOK
  <2>3. CASE ~Owns(c)
    BY <1>8, <2>3 DEF holdClaim, KeepsRow
  <2> QED
    BY <2>2, <2>3
<1>9. CASE v # w /\ Finish(v)
  BY <1>6, <1>9 DEF Finish, Working
<1> QED
  BY <1>3, <1>4, <1>5, <1>7, <1>8, <1>9

(* A worker that goes on, or stays, with the row it holds. *)
LEMMA StillHeld ==
  ASSUME NEW w, LeaseHeld(w), KeepsRow(cur[w].mail), cur'[w] = cur[w], timer'[w] = timer[w],
         pc'[w] \in {"reserve", "send"} => pc[w] \in {"reserve", "send"}
  PROVE  LeaseHeld(w)'
BY DEF LeaseHeld, KeepsRow

LEMMA LeasesStep == TypeOK /\ Working /\ Leases /\ [Next]_vars => Leases'
<1> SUFFICES ASSUME TypeOK, Working, Leases, [Next]_vars, NEW w \in Workers,
                    pc'[w] \in {"reserve", "send"}
             PROVE  LeaseHeld(w)'
  BY DEF Leases, LeaseHeld
<1> USE DEF shop, provider, worker
<1>1. LeaseHeld(w)
  BY DEF Leases
<1>2. ASSUME NEW v \in Workers, v # w,
             \/ sweepMissingNotifications(v) \/ Bury(v) \/ Claim(v)
             \/ \E c \in batch[v] : Unsendable(v, c) \/ holdClaim(v, c)
             \/ reserveSend(v) \/ send(v) \/ Finish(v) \/ RowFails(v) \/ Crash(v)
      PROVE  LeaseHeld(w)'
  <2> DEFINE Same == pc'[w] = pc[w] /\ cur'[w] = cur[w] /\ timer'[w] = timer[w]
  <2> USE DEF TypeOK
  <2>1. ASSUME sweepMissingNotifications(v) \/ Bury(v) \/ Claim(v) PROVE Same
    <3>1. cur' = cur
      BY <2>1 DEF sweepMissingNotifications, Bury, Claim
    <3>2. \E step : pc' = [pc EXCEPT ![v] = step]
      BY <2>1 DEF sweepMissingNotifications, Bury, Claim
    <3>3. timer' = timer \/ timer' = [timer EXCEPT ![v] = 0]
      BY <2>1 DEF sweepMissingNotifications, Bury, Claim
    <3> QED
      BY <1>2, <3>1, <3>2, <3>3
  <2>2. ASSUME NextRow(v) PROVE Same
    BY <1>2, <2>2 DEF NextRow
  <2>3. ASSUME NEW c \in batch[v], holdClaim(v, c) PROVE Same
    <3>1. CASE Owns(c)
      BY <1>2, <2>3, <3>1 DEF holdClaim
    <3> QED
      BY <2>2, <2>3, <3>1 DEF holdClaim
  <2>4. ASSUME NEW outcome, Answer(v, outcome), cur' = cur PROVE Same
    BY <1>2, <2>4 DEF Answer
  <2>5. ASSUME reserveSend(v) \/ send(v) PROVE Same
    <3>1. cur' = cur
      BY <2>5 DEF reserveSend, send
    <3>2. CASE pc' = [pc EXCEPT ![v] = "send"] /\ UNCHANGED timer
      BY <1>2, <3>1, <3>2
    <3>3. ASSUME reserveSend(v), ~(pc' = [pc EXCEPT ![v] = "send"] /\ UNCHANGED timer)
          PROVE  \E outcome : Answer(v, outcome)
      BY <3>3 DEF reserveSend, Unbudgeted
    <3>4. ASSUME send(v) PROVE \E outcome : Answer(v, outcome)
      BY <3>4 DEF send
    <3> QED
      BY <2>4, <2>5, <3>1, <3>2, <3>3, <3>4
  <2>6. Same
    BY <1>2, <2>1, <2>2, <2>3, <2>5 DEF Unsendable, Finish, RowFails, Crash
  <2>7. KeepsRow(cur[w].mail)
    <3>1. CASE reserveSend(v) \/ send(v) \/ RowFails(v) \/ Crash(v)
      BY <3>1 DEF reserveSend, send, RowFails, Crash, KeepsRow
    <3> QED
      BY <1>1, <1>2, <2>6, <3>1, OthersLeaveIt
  <2> QED
    BY <1>1, <2>6, <2>7, StillHeld
<1>3. CASE sweepMissingNotifications(w) \/ Bury(w) \/ Claim(w)
  <2>1. \E step \in {"bury", "claim", "next", "idle"} : pc' = [pc EXCEPT ![w] = step]
    BY <1>3 DEF sweepMissingNotifications, Bury, Claim
  <2> QED
    BY <2>1 DEF TypeOK
<1>4. ASSUME NEW c \in batch[w], holdClaim(w, c) PROVE LeaseHeld(w)'
  <2>1. c.mail \in Mails /\ c.token = w
    BY DEF TypeOK, Working, Claims
  <2>2. CASE Owns(c)
    BY <1>4, <2>1, <2>2, OutboxAssumption DEF holdClaim, Owns, Held, LeaseHeld, TypeOK, Row
  <2>3. CASE ~Owns(c)
    BY <1>4, <2>3 DEF holdClaim, NextRow, TypeOK
  <2> QED
    BY <2>2, <2>3
<1>5. CASE reserveSend(w)
  <2>1. pc[w] = "reserve" /\ cur' = cur /\ KeepsRow(cur[w].mail)
    BY <1>5 DEF reserveSend, KeepsRow
  <2>2. \/ timer' = timer
        \/ pc' = [pc EXCEPT ![w] = "finish"]
    BY <1>5 DEF reserveSend, Answer, Unbudgeted
  <2> QED
    BY <1>1, <2>1, <2>2, StillHeld DEF TypeOK
<1>6. ASSUME NEW c \in batch[w],
             Unsendable(w, c) \/ Finish(w) \/ RowFails(w) \/ Crash(w) PROVE FALSE
  <2>1. \E step \in {"next", "idle"} : pc' = [pc EXCEPT ![w] = step]
    BY <1>6 DEF Unsendable, Finish, RowFails, Crash, NextRow
  <2> QED
    BY <2>1 DEF TypeOK
<1>7. ASSUME Finish(w) \/ RowFails(w) \/ Crash(w) \/ send(w) PROVE FALSE
  <2>1. \E step \in {"next", "idle", "finish"} : pc' = [pc EXCEPT ![w] = step]
    BY <1>7 DEF Finish, RowFails, Crash, NextRow, send, Answer
  <2> QED
    BY <2>1 DEF TypeOK
<1>8. CASE KeepsRow(cur[w].mail) /\ UNCHANGED worker
  BY <1>1, <1>8, StillHeld
<1>9. CASE Tick
  <2> DEFINE r == row[cur[w].mail]
  <2>1. pc[w] \in {"reserve", "send"} /\ cur'[w] = cur[w] /\ cur[w].mail \in Mails
    BY <1>9 DEF Tick, Working, Claims
  <2>2. timer'[w] = timer[w] + 1 /\ timer[w] \in Nat
    BY <1>9, <2>1, OutboxAssumption DEF Tick, Timed, TypeOK
  <2>3. r.status = "sending" /\ r.token = w /\ r.left >= Lock - timer[w] /\ r.left \in Int
    BY <1>1, <2>1, OutboxAssumption DEF LeaseHeld, TypeOK, Row, Floor
  <2>4. row'[cur[w].mail] = [r EXCEPT !.left = Down(@, Floor)]
    BY <1>9, <2>1, <2>3 DEF Tick
  <2>5. row'[cur[w].mail].status = "sending" /\ row'[cur[w].mail].token = w
        /\ row'[cur[w].mail].left = Down(r.left, Floor)
    BY <2>1, <2>3, <2>4 DEF TypeOK, Row
  <2>6. Down(r.left, Floor) >= Lock - (timer[w] + 1)
    BY <2>2, <2>3, OutboxAssumption DEF Down
  <2> QED
    BY <2>1, <2>2, <2>5, <2>6 DEF LeaseHeld
<1>10. ASSUME NEW o \in Orders, Create(o) PROVE LeaseHeld(w)'
  BY <1>8, <1>10 DEF Create, KeepsRow
<1>11. ASSUME NEW o \in Orders, enqueueOrderNotifications(o) PROVE LeaseHeld(w)'
  <2>1. UNCHANGED worker
    BY <1>11 DEF enqueueOrderNotifications
  <2>2. cur[w].mail \in Mails /\ row[cur[w].mail].status = "sending"
    BY <1>1, <2>1 DEF LeaseHeld, Working, Claims
  <2>3. KeepsRow(cur[w].mail)
    BY <1>11, <2>2 DEF enqueueOrderNotifications, Inserted, Absent, KeepsRow
  <2> QED
    BY <1>8, <2>1, <2>3
<1>12. ASSUME NEW m \in Mails, requeueDeadNotification(m) PROVE LeaseHeld(w)'
  <2>1. UNCHANGED worker
    BY <1>12 DEF requeueDeadNotification
  <2>2. cur[w].mail \in Mails /\ row[cur[w].mail].status = "sending"
    BY <1>1, <2>1 DEF LeaseHeld, Working, Claims
  <2>3. KeepsRow(cur[w].mail)
    BY <1>12, <2>2 DEF requeueDeadNotification, KeepsRow, TypeOK
  <2> QED
    BY <1>8, <2>1, <2>3
<1>13. ASSUME NEW m \in Mails, Lapse(m) PROVE LeaseHeld(w)'
  BY <1>8, <1>13 DEF Lapse, KeepsRow
<1>14. ASSUME NEW k \in Kinds, NewWindow(k) PROVE LeaseHeld(w)'
  BY <1>8, <1>14 DEF NewWindow, KeepsRow
<1>15. CASE UNCHANGED vars
  BY <1>8, <1>15 DEF vars, KeepsRow
<1> QED
  BY <1>2, <1>3, <1>4, <1>5, <1>6, <1>7, <1>9, <1>10, <1>11, <1>12, <1>13, <1>14, <1>15, NextCases

(* Charged and accepted: what a worker sends has been paid for, and what it  *)
(* is about to record as sent has been accepted.                             *)
Charged ==
    /\ reserved \subseteq paid /\ accepted \subseteq paid
    /\ \A w \in Workers : pc[w] = "send" => cur[w].mail \in paid

Reported == \A w \in Workers : pc[w] = "finish" /\ reply[w] = "sent" => cur[w].mail \in accepted

(* Where a worker's step can lead. *)
LEMMA WorkerGoes ==
  ASSUME TypeOK, NEW w \in Workers,
         \/ sweepMissingNotifications(w) \/ Bury(w) \/ Claim(w)
         \/ \E c \in batch[w] : Unsendable(w, c) \/ holdClaim(w, c)
         \/ Finish(w) \/ RowFails(w) \/ Crash(w)
  PROVE  /\ \E step \in {"bury", "claim", "next", "idle", "reserve"} : pc' = [pc EXCEPT ![w] = step]
         /\ \A v \in Workers \ {w} : cur'[v] = cur[v] /\ reply'[v] = reply[v]
         /\ UNCHANGED provider
<1> USE DEF TypeOK, provider
<1>1. ASSUME NextRow(w)
      PROVE  /\ \E step \in {"next", "idle"} : pc' = [pc EXCEPT ![w] = step]
             /\ \A v \in Workers \ {w} : cur'[v] = cur[v] /\ reply'[v] = reply[v]
  BY <1>1 DEF NextRow
<1>2. CASE sweepMissingNotifications(w) \/ Bury(w) \/ Claim(w)
  <2>1. /\ UNCHANGED <<cur, reply, provider>>
        /\ \E step \in {"bury", "claim", "next", "idle"} : pc' = [pc EXCEPT ![w] = step]
    BY <1>2 DEF sweepMissingNotifications, Bury, Claim
  <2> QED
    BY <2>1
<1>3. CASE \E c \in batch[w] : Unsendable(w, c) \/ holdClaim(w, c)
  <2>1. PICK c \in batch[w] : Unsendable(w, c) \/ holdClaim(w, c)
    BY <1>3
  <2>2. UNCHANGED provider
    BY <2>1 DEF Unsendable, holdClaim
  <2>3. CASE holdClaim(w, c) /\ Owns(c)
    BY <2>2, <2>3 DEF holdClaim
  <2> QED
    BY <1>1, <2>1, <2>2, <2>3 DEF Unsendable, holdClaim
<1>4. CASE Finish(w) \/ RowFails(w) \/ Crash(w)
  BY <1>1, <1>4 DEF Finish, RowFails, Crash
<1> QED
  BY <1>2, <1>3, <1>4

LEMMA ChargedStep == TypeOK /\ Working /\ Charged /\ Reported /\ [Next]_vars => Charged' /\ Reported'
<1> SUFFICES ASSUME TypeOK, Working, Charged, Reported, [Next]_vars PROVE Charged' /\ Reported'
  OBVIOUS
<1> USE DEF shop, provider, worker
<1>1. ASSUME NEW w \in Workers,
             \/ sweepMissingNotifications(w) \/ Bury(w) \/ Claim(w)
             \/ \E c \in batch[w] : Unsendable(w, c) \/ holdClaim(w, c)
             \/ Finish(w) \/ RowFails(w) \/ Crash(w)
      PROVE  Charged' /\ Reported'
  <2>1. PICK step \in {"bury", "claim", "next", "idle", "reserve"} : pc' = [pc EXCEPT ![w] = step]
    BY <1>1, WorkerGoes
  <2>2. /\ \A v \in Workers \ {w} : cur'[v] = cur[v] /\ reply'[v] = reply[v]
        /\ UNCHANGED provider
    BY <1>1, WorkerGoes
  <2> QED
    BY <2>1, <2>2 DEF Charged, Reported, TypeOK
<1>2. ASSUME NEW w \in Workers, reserveSend(w) PROVE Charged' /\ Reported'
  <2>1. /\ UNCHANGED <<cur, accepted>>
        /\ reserved' \subseteq paid' /\ paid \subseteq paid'
    BY <1>2 DEF reserveSend, Charged
  <2>2. CASE pc' = [pc EXCEPT ![w] = "send"] /\ UNCHANGED reply /\ cur[w].mail \in paid'
    BY <2>1, <2>2 DEF Charged, Reported, TypeOK
  <2>3. ASSUME NEW outcome \in {"retry", "dead"}, Answer(w, outcome) PROVE Charged' /\ Reported'
    BY <2>1, <2>3 DEF Answer, Charged, Reported, TypeOK
  <2> QED
    BY <1>2, <2>2, <2>3 DEF reserveSend, Charged, Unbudgeted, RetryOrDead
<1>3. ASSUME NEW w \in Workers, send(w) PROVE Charged' /\ Reported'
  <2>1. /\ UNCHANGED <<cur, reserved, paid>> /\ accepted \subseteq accepted'
        /\ accepted' \subseteq paid
    BY <1>3 DEF send, Charged
  <2>2. PICK outcome : Answer(w, outcome) /\ (outcome = "sent" => cur[w].mail \in accepted')
    BY <1>3 DEF send, RetryOrDead
  <2> QED
    BY <2>1, <2>2 DEF Answer, Charged, Reported, TypeOK
<1>4. CASE UNCHANGED <<pc, cur, reply, paid, accepted>> /\ reserved' \subseteq reserved
  BY <1>4 DEF Charged, Reported
<1>5. ASSUME NEW o \in Orders, Create(o) \/ enqueueOrderNotifications(o) PROVE Charged' /\ Reported'
  BY <1>4, <1>5 DEF Create, enqueueOrderNotifications
<1>6. ASSUME NEW m \in Mails, requeueDeadNotification(m) \/ Lapse(m) PROVE Charged' /\ Reported'
  BY <1>4, <1>6 DEF requeueDeadNotification, Lapse
<1>7. ASSUME NEW k \in Kinds, NewWindow(k) PROVE Charged' /\ Reported'
  BY <1>4, <1>7 DEF NewWindow
<1>8. CASE Tick
  BY <1>4, <1>8 DEF Tick
<1>9. CASE UNCHANGED vars
  BY <1>4, <1>9 DEF vars
<1> QED
  BY <1>1, <1>2, <1>3, <1>5, <1>6, <1>7, <1>8, <1>9, NextCases

(* The inductive invariant. *)
IInv == TypeOK /\ Working /\ Leases /\ Charged /\ Reported

LEMMA Inductive == Spec => []IInv
<1>1. Init => IInv
  <2> SUFFICES ASSUME Init PROVE Leases /\ Charged /\ Reported
    BY TypeInit DEF IInv
  <2> QED
    BY DEF Init, Leases, LeaseHeld, Charged, Reported
<1>2. IInv /\ [Next]_vars => IInv'
  BY TypeStep, WorkingStep, LeasesStep, ChargedStep DEF IInv
<1> QED
  BY <1>1, <1>2, PTL DEF Spec

(* No two workers send one e-mail at the same time: each would have the row  *)
(* in its own name (outbox.ts:138-142).                                      *)
THEOREM OneSenderAtATime == Spec => []OneSender
<1>1. IInv => OneSender
  BY DEF IInv, Leases, LeaseHeld, OneSender
<1> QED
  BY <1>1, Inductive, PTL

(* Whatever the provider accepted has been charged to the send budget        *)
(* (send-budget.ts:80).                                                      *)
THEOREM SendsPaid == Spec => []SendsArePaid
<1>1. IInv => SendsArePaid
  BY DEF IInv, Charged, SendsArePaid
<1> QED
  BY <1>1, Inductive, PTL

-----------------------------------------------------------------------------
(* The sweep *)

Missing(o) == order[o] = "committed" /\ \E k \in Kinds : row[<<o, k>>] = Absent

(* A committed order that is still missing a row is not much older than the  *)
(* last sweep.                                                               *)
SweptInTime ==
    /\ quiet \in 0 .. Cron
    /\ \A o \in Orders :
          /\ order[o] = "none" => age[o] = 0
          /\ order[o] = "open" => age[o] <= MaxStall
          /\ Missing(o) => age[o] <= MaxStall + Settled + quiet

(* A row, once queued, stays in the table. *)
LEMMA RowsStay ==
  ASSUME TypeOK, Working, [Next]_vars, NEW m \in Mails
  PROVE  row'[m] = row[m] \/ row'[m].status # "absent"
<1> DEFINE Stays == row'[m] = row[m] \/ row'[m].status # "absent"
<1> USE DEF shop, provider, worker
<1>1. CASE UNCHANGED row
  BY <1>1
<1>2. ASSUME NEW w \in Workers, sweepMissingNotifications(w) \/ Bury(w) \/ Claim(w)
      PROVE  Stays
  <2>1. row[m] \in Row
    BY DEF TypeOK
  <2>2. CASE sweepMissingNotifications(w)
    BY <2>2 DEF sweepMissingNotifications, Inserted, Fresh, Absent
  <2>3. CASE Bury(w)
    BY <2>1, <2>3 DEF Bury, Row
  <2>4. CASE Claim(w)
    <3>1. row'[m] = IF Due(w, m)
                    THEN [status |-> "sending", attempts |-> row[m].attempts + 1, token |-> w,
                          left |-> Lock - timer[w], wait |-> 0]
                    ELSE row[m]
      BY <2>4 DEF Claim
    <3> QED
      BY <3>1
  <2> QED
    BY <1>2, <2>2, <2>3, <2>4
<1>3. ASSUME NEW c \in Claims, NEW outcome, finish(c, outcome) PROVE  Stays
  <2>1. CASE Owns(c)
    <3>1. PICK pause : row' = [row EXCEPT ![c.mail] = Finished(c.mail, outcome, pause)]
      BY <1>3, <2>1 DEF finish
    <3>2. CASE m = c.mail
      BY <3>1, <3>2 DEF Finished, TypeOK, Row
    <3> QED
      BY <3>1, <3>2 DEF TypeOK
  <2> QED
    BY <1>3, <2>1 DEF finish
<1>4. ASSUME NEW w \in Workers, NEW c \in batch[w], Unsendable(w, c) \/ holdClaim(w, c)
      PROVE  Stays
  <2>1. c \in Claims
    BY DEF TypeOK
  <2>2. CASE holdClaim(w, c)
    <3>1. CASE Owns(c) /\ m = c.mail
      BY <2>2, <3>1 DEF holdClaim, Owns, Held, TypeOK, Row
    <3> QED
      BY <2>1, <2>2, <3>1 DEF holdClaim, TypeOK
  <2> QED
    BY <1>3, <1>4, <2>1, <2>2 DEF Unsendable
<1>5. ASSUME NEW w \in Workers, Finish(w) PROVE  Stays
  BY <1>3, <1>5 DEF Finish, Working
<1>6. ASSUME NEW w \in Workers, reserveSend(w) \/ send(w) \/ RowFails(w) \/ Crash(w) PROVE  Stays
  BY <1>6 DEF reserveSend, send, RowFails, Crash
<1>7. ASSUME NEW o \in Orders, Create(o) \/ enqueueOrderNotifications(o) PROVE  Stays
  BY <1>7 DEF Create, enqueueOrderNotifications, Inserted, Fresh, Absent
<1>8. ASSUME NEW n \in Mails, requeueDeadNotification(n) \/ Lapse(n) PROVE  Stays
  <2>1. CASE requeueDeadNotification(n) /\ m = n
    BY <2>1 DEF requeueDeadNotification, TypeOK, Row
  <2> QED
    BY <1>8, <2>1 DEF requeueDeadNotification, Lapse, TypeOK
<1>9. ASSUME NEW k \in Kinds, NewWindow(k) PROVE  Stays
  BY <1>9 DEF NewWindow
<1>10. CASE Tick
  BY <1>10 DEF Tick, TypeOK, Row
<1>11. CASE UNCHANGED vars
  BY <1>11 DEF vars
<1> QED
  BY <1>1, <1>2, <1>4, <1>5, <1>6, <1>7, <1>8, <1>9, <1>10, <1>11, NextCases

LEMMA SweptStep == TypeOK /\ Working /\ SweptInTime /\ [Next]_vars => SweptInTime'
<1> SUFFICES ASSUME TypeOK, Working, SweptInTime, [Next]_vars PROVE SweptInTime'
  OBVIOUS
<1> USE OutboxAssumption DEF shop, provider, worker
<1>1. \A o \in Orders : order'[o] = order[o] /\ Missing(o)' => Missing(o)
  <2> SUFFICES ASSUME NEW o \in Orders, order'[o] = order[o], Missing(o)' PROVE Missing(o)
    OBVIOUS
  <2>1. PICK k \in Kinds : row'[<<o, k>>] = Absent
    BY DEF Missing
  <2>2. row'[<<o, k>>] = row[<<o, k>>]
    BY <2>1, RowsStay DEF Absent, Mails
  <2> QED
    BY <2>1, <2>2 DEF Missing
<1>2. CASE UNCHANGED <<order, age, quiet>>
  BY <1>1, <1>2 DEF SweptInTime
<1>3. ASSUME NEW o \in Orders, Create(o) PROVE SweptInTime'
  BY <1>1, <1>3 DEF Create, SweptInTime, Missing, TypeOK
<1>4. ASSUME NEW o \in Orders, enqueueOrderNotifications(o) PROVE SweptInTime'
  <2>1. /\ age[o] <= MaxStall /\ order' = [order EXCEPT ![o] = "committed"]
        /\ UNCHANGED <<age, quiet>> /\ age[o] \in Nat /\ quiet \in Nat
    BY <1>4 DEF enqueueOrderNotifications, SweptInTime, TypeOK
  <2> QED
    BY <1>1, <2>1 DEF SweptInTime, TypeOK
<1>5. ASSUME NEW w \in Workers, sweepMissingNotifications(w) PROVE SweptInTime'
  <2>1. quiet' = 0 /\ UNCHANGED <<order, age>>
    BY <1>5 DEF sweepMissingNotifications
  <2>2. ASSUME NEW o \in Orders, Missing(o)' PROVE age[o] <= MaxStall + Settled
    <3>1. PICK k \in Kinds : row'[<<o, k>>] = Absent
      BY <2>2 DEF Missing
    <3>2. <<o, k>> \in Mails
      BY DEF Mails
    <3>3. ~InSweep(o)
      <4>1. SUFFICES ASSUME InSweep(o) PROVE FALSE
        OBVIOUS
      <4>2. row'[<<o, k>>] # Absent
        BY <1>5, <3>2, <4>1 DEF sweepMissingNotifications, Inserted, Fresh, Absent
      <4> QED
        BY <3>1, <4>2
    <3>4. order[o] = "committed" /\ age[o] <= MaxStall + Settled + quiet
      BY <1>1, <2>1, <2>2 DEF SweptInTime, Missing
    <3>5. age[o] \in Nat /\ quiet \in 0 .. Cron
      BY DEF TypeOK, SweptInTime
    <3> QED
      BY <3>3, <3>4, <3>5 DEF InSweep
  <2> QED
    BY <2>1, <2>2 DEF SweptInTime
<1>6. CASE Tick
  <2>1. /\ quiet' = quiet + 1 /\ quiet < Cron /\ UNCHANGED order
        /\ \A o \in Orders : order[o] = "open" => age[o] < MaxStall
        /\ \A o \in Orders : age'[o] = IF order[o] = "none" \/ age[o] > Window
                                       THEN age[o] ELSE age[o] + 1
    BY <1>6 DEF Tick
  <2>2. \A o \in Orders : age[o] \in Nat
    BY DEF TypeOK
  <2> QED
    BY <1>1, <2>1, <2>2 DEF SweptInTime
<1>7. ASSUME NEW w \in Workers, ~sweepMissingNotifications(w),
             \/ Bury(w) \/ Claim(w)
             \/ \E c \in batch[w] : Unsendable(w, c) \/ holdClaim(w, c)
             \/ reserveSend(w) \/ send(w) \/ Finish(w) \/ RowFails(w) \/ Crash(w)
      PROVE  UNCHANGED <<order, age, quiet>>
  BY <1>7 DEF Bury, Claim, Unsendable, holdClaim, reserveSend, send, Finish, RowFails, Crash
<1>8. ASSUME NEW m \in Mails, requeueDeadNotification(m) \/ Lapse(m)
      PROVE  UNCHANGED <<order, age, quiet>>
  BY <1>8 DEF requeueDeadNotification, Lapse
<1>9. ASSUME NEW k \in Kinds, NewWindow(k) PROVE UNCHANGED <<order, age, quiet>>
  BY <1>9 DEF NewWindow
<1>10. CASE UNCHANGED vars
  BY <1>2, <1>10 DEF vars
<1> QED
  BY <1>2, <1>3, <1>4, <1>5, <1>6, <1>7, <1>8, <1>9, <1>10, NextCases

(* An order whose savepoint failed gets its rows before it leaves the sweep's *)
(* window, if the scheduler calls a worker often enough (outbox.ts:187).      *)
THEOREM NobodyForgotten == Spec => []NoOrderForgotten
<1>1. Init => TypeOK /\ Working /\ SweptInTime
  <2> SUFFICES ASSUME Init PROVE SweptInTime
    BY TypeInit
  <2> QED
    BY OutboxAssumption DEF Init, SweptInTime, Missing
<1>2. TypeOK /\ Working /\ SweptInTime /\ [Next]_vars => (TypeOK /\ Working /\ SweptInTime)'
  BY TypeStep, WorkingStep, SweptStep
<1>3. TypeOK /\ SweptInTime => NoOrderForgotten
  <2> SUFFICES ASSUME TypeOK, SweptInTime, NEW o \in Orders, order[o] = "committed",
                      age[o] > Window, NEW k \in Kinds, row[<<o, k>>] = Absent
               PROVE  FALSE
    BY DEF NoOrderForgotten
  <2>1. Missing(o)
    BY DEF Missing
  <2> QED
    BY <2>1, OutboxAssumption DEF SweptInTime, TypeOK
<1> QED
  BY <1>1, <1>2, <1>3, PTL DEF Spec

-----------------------------------------------------------------------------
(* Refinement                                                               *)

Status(m) == Box(row[m].status)
Boxes == [m \in Mails |-> Box(row[m].status)]

(* What Mailbox sees of a step. *)
Sees(S, from, to) ==
    /\ S \subseteq Mails /\ \A m \in S : Status(m) = from
    /\ \A m \in Mails : Status(m)' = IF m \in S THEN to ELSE Status(m)

LEMMA SeenMove ==
  ASSUME NEW S, NEW from, NEW to, Sees(S, from, to), UNCHANGED accepted,
         \/ from = "none" /\ to = "queued"
         \/ from = "queued" /\ to = "dead"
         \/ from = "queued" /\ to = "sent" /\ (\E m \in accepted : S = {m})
         \/ from = "dead" /\ to = "queued" /\ \E m \in Mails : S = {m}
         \/ from = to
  PROVE  [Promise!Next]_(Promise!boxVars)
<1>1. CASE S = {} \/ from = to
  BY <1>1 DEF Sees, Status, Promise!boxVars
<1>2. CASE S # {} /\ from # to
  <2>1. Promise!Move(S, from, to)
    BY <1>2 DEF Sees, Status, Promise!Move
  <2>2. S \in SUBSET Mails
    BY DEF Sees
  <2>3. CASE from = "none" /\ to = "queued"
    BY <2>1, <2>2, <2>3 DEF Promise!Next, Promise!Queue
  <2>4. CASE from = "queued" /\ to = "dead"
    BY <2>1, <2>2, <2>4 DEF Promise!Next, Promise!GiveUp
  <2>5. CASE from = "queued" /\ to = "sent" /\ \E m \in accepted : S = {m}
    BY <2>1, <2>2, <2>5 DEF Promise!Next, Promise!Settle
  <2>6. CASE from = "dead" /\ to = "queued" /\ \E m \in Mails : S = {m}
    BY <2>1, <2>6 DEF Promise!Next, Promise!Requeue
  <2> QED
    BY <1>2, <2>3, <2>4, <2>5, <2>6
<1> QED
  BY <1>1, <1>2

LEMMA SeenNothing ==
  ASSUME UNCHANGED accepted, \A m \in Mails : Status(m)' = Status(m)
  PROVE  [Promise!Next]_(Promise!boxVars)
BY DEF Status, Promise!boxVars

(* New rows are queued e-mails. *)
LEMMA SeenInsert ==
  ASSUME NEW T, row' = Inserted(T), UNCHANGED accepted
  PROVE  [Promise!Next]_(Promise!boxVars)
<1> DEFINE S == {m \in Mails : m \in T /\ row[m] = Absent}
<1>1. Sees(S, "none", "queued")
  BY DEF Sees, Status, Box, Inserted, Fresh, Absent
<1> QED
  BY <1>1, SeenMove

(* The end of a claim settles an accepted e-mail, gives it up or leaves it    *)
(* queued; a claim that lost its row does nothing.                            *)
LEMMA SeenFinish ==
  ASSUME TypeOK, NEW c \in Claims, NEW outcome \in {"sent", "retry", "dead"}, finish(c, outcome),
         UNCHANGED accepted, outcome = "sent" => c.mail \in accepted
  PROVE  [Promise!Next]_(Promise!boxVars)
<1> DEFINE to == CASE outcome = "sent" -> "sent" [] outcome = "retry" -> "queued" [] OTHER -> "dead"
<1>1. CASE ~Owns(c)
  BY <1>1, SeenNothing DEF finish, Status
<1>2. CASE Owns(c)
  <2>1. PICK pause : row' = [row EXCEPT ![c.mail] = Finished(c.mail, outcome, pause)]
    BY <1>2 DEF finish
  <2>2. c.mail \in Mails
    BY DEF Claims
  <2>3. Status(c.mail) = "queued"
    BY <1>2 DEF Owns, Status, Box
  <2>4. Status(c.mail)' = to
    BY <2>1, <2>2 DEF Finished, Status, Box, TypeOK, Row
  <2>5. \A m \in Mails \ {c.mail} : Status(m)' = Status(m)
    BY <2>1 DEF Status, TypeOK
  <2>6. Sees({c.mail}, "queued", to)
    BY <2>2, <2>3, <2>4, <2>5 DEF Sees
  <2> QED
    BY <2>6, SeenMove
<1> QED
  BY <1>1, <1>2

LEMMA StepSeen ==
  ASSUME IInv, [Next]_vars
  PROVE  [Promise!Next]_(Promise!boxVars)
<1> USE DEF IInv, shop, provider, worker
<1> DEFINE Goal == [Promise!Next]_(Promise!boxVars)
<1>1. CASE UNCHANGED <<row, accepted>>
  BY <1>1, SeenNothing DEF Status
<1>2. ASSUME NEW o \in Orders, enqueueOrderNotifications(o) PROVE Goal
  BY <1>1, <1>2, SeenInsert DEF enqueueOrderNotifications
<1>3. ASSUME NEW w \in Workers, sweepMissingNotifications(w) PROVE Goal
  BY <1>3, SeenInsert DEF sweepMissingNotifications
<1>4. ASSUME NEW m \in Mails, requeueDeadNotification(m) PROVE Goal
  <2>1. Sees({m}, "dead", "queued")
    BY <1>4 DEF requeueDeadNotification, Sees, Status, Box, TypeOK, Row
  <2> QED
    BY <1>4, <2>1, SeenMove DEF requeueDeadNotification
<1>5. ASSUME NEW w \in Workers, Bury(w) PROVE Goal
  <2> DEFINE S == {m \in Mails : Stalled(w, m)}
  <2>1. \A m \in S : Status(m) = "queued"
    BY DEF Stalled, Expired, Status, Box
  <2>2. \A m \in Mails : Status(m)' = IF m \in S THEN "dead" ELSE Status(m)
    BY <1>5 DEF Bury, Status, Box, TypeOK, Row
  <2>3. Sees(S, "queued", "dead")
    BY <2>1, <2>2 DEF Sees
  <2> QED
    BY <1>5, <2>3, SeenMove DEF Bury
<1>6. ASSUME NEW w \in Workers, Claim(w) PROVE Goal
  <2>1. ASSUME NEW m \in Mails PROVE Status(m)' = Status(m)
    <3>1. CASE Due(w, m)
      BY <1>6, <3>1 DEF Claim, Due, Expired, Status, Box
    <3>2. CASE ~Due(w, m)
      BY <1>6, <3>2 DEF Claim, Status
    <3> QED
      BY <3>1, <3>2
  <2> QED
    BY <1>6, <2>1, SeenNothing DEF Claim
<1>7. ASSUME NEW w \in Workers, NEW c \in batch[w], Unsendable(w, c) PROVE Goal
  BY <1>7, SeenFinish DEF Unsendable, TypeOK
<1>8. ASSUME NEW w \in Workers, NEW c \in batch[w], holdClaim(w, c) PROVE Goal
  <2>1. ASSUME NEW m \in Mails PROVE Status(m)' = Status(m)
    <3>1. CASE Owns(c) /\ m = c.mail
      BY <1>8, <3>1 DEF holdClaim, Held, Owns, Status, TypeOK, Row
    <3> QED
      BY <1>8, <3>1 DEF holdClaim, Status, TypeOK
  <2> QED
    BY <1>8, <2>1, SeenNothing DEF holdClaim
<1>9. ASSUME NEW w \in Workers, send(w) PROVE Goal
  <2> DEFINE m == cur[w].mail
  <2>1. m \in Mails /\ Status(m) = "queued"
    BY <1>9 DEF send, Working, Claims, Leases, LeaseHeld, Status, Box
  <2>2. UNCHANGED row /\ accepted' \in {accepted, accepted \cup {m}}
    BY <1>9 DEF send
  <2>3. CASE accepted' = accepted \cup {m}
    <3>1. Promise!Accept(m)
      BY <2>1, <2>2, <2>3 DEF Promise!Accept, Status
    <3> QED
      BY <2>1, <3>1 DEF Promise!Next
  <2> QED
    BY <1>1, <2>2, <2>3
<1>10. ASSUME NEW w \in Workers, Finish(w) PROVE Goal
  <2>1. /\ cur[w] \in Claims /\ finish(cur[w], reply[w]) /\ UNCHANGED accepted
        /\ reply[w] = "sent" => cur[w].mail \in accepted
    BY <1>10 DEF Finish, Working, Reported
  <2>2. CASE reply[w] \in {"sent", "retry", "dead"}
    BY <2>1, <2>2, SeenFinish
  <2>3. CASE reply[w] = "none"
    <3>1. finish(cur[w], "dead") /\ "dead" \in {"sent", "retry", "dead"}
      BY <2>1, <2>3 DEF finish, Finished
    <3> QED
      BY <2>1, <3>1, SeenFinish
  <2> QED
    BY <2>2, <2>3 DEF TypeOK
<1>11. CASE Tick
  <2>1. ASSUME NEW m \in Mails PROVE Status(m)' = Status(m)
    BY <1>11 DEF Tick, Status, TypeOK, Row
  <2> QED
    BY <1>11, <2>1, SeenNothing DEF Tick
<1>12. ASSUME NEW o \in Orders, Create(o) PROVE Goal
  BY <1>1, <1>12 DEF Create
<1>13. ASSUME NEW m \in Mails, Lapse(m) PROVE Goal
  BY <1>1, <1>13 DEF Lapse
<1>14. ASSUME NEW w \in Workers, reserveSend(w) \/ RowFails(w) \/ Crash(w) PROVE Goal
  BY <1>1, <1>14 DEF reserveSend, RowFails, Crash
<1>15. ASSUME NEW k \in Kinds, NewWindow(k) PROVE Goal
  BY <1>1, <1>15 DEF NewWindow
<1>16. CASE UNCHANGED vars
  BY <1>1, <1>16 DEF vars
<1> QED
  BY <1>2, <1>3, <1>4, <1>5, <1>6, <1>7, <1>8, <1>9, <1>10, <1>11, <1>12, <1>13, <1>14, <1>15,
     <1>16, NextCases

(* The outbox keeps the promise of Mailbox: an e-mail is queued at most once, *)
(* is recorded as sent only when the provider accepted it, and stays sent.    *)
THEOREM OutboxIsAMailbox == Spec => KeepsPromise
<1>1. Init => Promise!Init
  BY DEF Init, Promise!Init, Absent, Box
<1>2. IInv /\ [Next]_vars => [Promise!Next]_(Promise!boxVars)
  BY StepSeen
<1> QED
  BY <1>1, <1>2, Inductive, PTL DEF Spec, Promise!Spec, KeepsPromise

-----------------------------------------------------------------------------
(* Attempts *)

(* A claim that still owns its row knows how often the row was tried.       *)
Known(c) == Owns(c) => row[c.mail].attempts = c.attempts

ClaimsKnow ==
    \A w \in Workers :
        /\ \A c \in batch[w] : Known(c)
        /\ pc[w] \in {"reserve", "send", "finish"} => Known(cur[w])

(* Only a claim with an attempt left asks for another.                      *)
RetriesAsked ==
    \A w \in Workers : pc[w] = "finish" /\ reply[w] = "retry" => cur[w].attempts < MaxAttempts

(* A worker that is about to claim has buried what it must not claim, by    *)
(* the same clock reading.                                                  *)
BuriedFirst ==
    \A w \in Workers, m \in Mails :
        pc[w] = "claim" /\ Expired(w, m) => row[m].attempts < MaxAttempts

AttemptsRunOut ==
    \A m \in Mails : /\ row[m].attempts <= MaxAttempts
                     /\ row[m].status = "pending" => row[m].attempts < MaxAttempts

Counted == ClaimsKnow /\ RetriesAsked /\ BuriedFirst /\ AttemptsRunOut

(* What becomes of a row in a step in which no time passes.                 *)
KeepsCount(m) ==
    /\ row'[m].attempts = row[m].attempts
    /\ row'[m].status = "pending" => row[m].status = "pending"
    /\ row'[m].status = "sending" =>
          /\ row[m].status = "sending" /\ row'[m].token = row[m].token
          /\ row'[m].left \in {row[m].left, Lock}

Restarts(m) == row'[m].status = "pending" /\ row'[m].attempts = 0

IsClaimed(w, m) ==
    /\ Claim(w) /\ Due(w, m)
    /\ row'[m] = [status |-> "sending", attempts |-> row[m].attempts + 1,
                  token |-> w, left |-> Lock - timer[w], wait |-> 0]

GivesBack(w, m) ==
    /\ Finish(w) /\ reply[w] = "retry" /\ Owns(cur[w]) /\ cur[w].mail = m
    /\ row'[m].status = "pending" /\ row'[m].attempts = row[m].attempts

RowMoves(m) ==
    \/ KeepsCount(m) \/ Restarts(m)
    \/ \E w \in Workers : IsClaimed(w, m) \/ GivesBack(w, m)

LEMMA InsertedRows ==
  ASSUME TypeOK, NEW S, row' = Inserted(S), NEW m \in Mails
  PROVE  RowMoves(m)
<1>1. row'[m] = row[m] \/ (row[m] = Absent /\ row'[m] = Fresh)
  BY DEF Inserted
<1>2. CASE row'[m] = row[m]
  BY <1>2 DEF RowMoves, KeepsCount
<1>3. CASE row'[m] = Fresh
  BY <1>3 DEF Fresh, Absent, RowMoves, Restarts
<1> QED
  BY <1>1, <1>2, <1>3

LEMMA FinishedRows ==
  ASSUME TypeOK, NEW c \in Claims, NEW outcome, finish(c, outcome), NEW m \in Mails
  PROVE  \/ KeepsCount(m)
         \/ /\ outcome = "retry" /\ Owns(c) /\ c.mail = m
            /\ row'[m].status = "pending" /\ row'[m].attempts = row[m].attempts
<1>1. row[m] \in Row /\ row \in [Mails -> Row] /\ c.mail \in Mails
  BY DEF TypeOK, Claims
<1>2. CASE row'[m] = row[m]
  BY <1>2 DEF KeepsCount
<1>3. ASSUME NEW pause, row' = [row EXCEPT ![c.mail] = Finished(c.mail, outcome, pause)],
             c.mail = m, Owns(c)
      PROVE  \/ KeepsCount(m)
             \/ /\ outcome = "retry" /\ Owns(c) /\ c.mail = m
                /\ row'[m].status = "pending" /\ row'[m].attempts = row[m].attempts
  <2>1. row'[m] = Finished(m, outcome, pause)
    BY <1>1, <1>3
  <2>2. Finished(m, outcome, pause).attempts = row[m].attempts
    BY <1>1 DEF Finished, Row
  <2>3. Finished(m, outcome, pause).status =
          CASE outcome = "sent" -> "sent" [] outcome = "retry" -> "pending" [] OTHER -> "dead"
    BY <1>1 DEF Finished, Row
  <2>4. CASE outcome = "retry"
    BY <1>3, <2>1, <2>2, <2>3, <2>4
  <2>5. CASE outcome # "retry"
    BY <2>1, <2>2, <2>3, <2>5 DEF KeepsCount
  <2> QED
    BY <2>4, <2>5
<1>4. \/ row'[m] = row[m]
      \/ /\ c.mail = m /\ Owns(c)
         /\ \E pause : row' = [row EXCEPT ![c.mail] = Finished(c.mail, outcome, pause)]
  BY <1>1 DEF finish
<1> QED
  BY <1>2, <1>3, <1>4

(* One step without Tick.                                                   *)
AtOnce ==
    \/ \E o \in Orders : Create(o) \/ enqueueOrderNotifications(o)
    \/ \E m \in Mails : requeueDeadNotification(m) \/ Lapse(m)
    \/ \E w \in Workers :
          \/ sweepMissingNotifications(w) \/ Bury(w) \/ Claim(w)
          \/ \E c \in batch[w] : Unsendable(w, c) \/ holdClaim(w, c)
          \/ reserveSend(w) \/ send(w) \/ Finish(w) \/ RowFails(w) \/ Crash(w)
    \/ \E k \in Kinds : NewWindow(k)
    \/ UNCHANGED vars

LEMMA RowsMove ==
  ASSUME TypeOK, Working, AtOnce, NEW m \in Mails
  PROVE  RowMoves(m)
<1>1. row \in [Mails -> Row] /\ row[m] \in Row
  BY DEF TypeOK
<1>2. CASE row'[m] = row[m]
  BY <1>2 DEF RowMoves, KeepsCount
<1>3. ASSUME NEW o \in Orders, enqueueOrderNotifications(o) PROVE RowMoves(m)
  <2>1. row' = row \/ row' = Inserted({o} \X Kinds)
    BY <1>3 DEF enqueueOrderNotifications
  <2> QED
    BY <1>2, <2>1, InsertedRows
<1>4. ASSUME NEW n \in Mails, requeueDeadNotification(n) PROVE RowMoves(m)
  <2>1. CASE m = n
    <3>1. row'[m] = [row[m] EXCEPT !.status = "pending", !.attempts = 0, !.wait = 0, !.left = 0]
      BY <1>1, <1>4, <2>1 DEF requeueDeadNotification
    <3>2. row'[m].status = "pending" /\ row'[m].attempts = 0
      BY <1>1, <3>1 DEF Row
    <3> QED
      BY <3>2 DEF RowMoves, Restarts
  <2>2. CASE m # n
    BY <1>1, <1>2, <1>4, <2>2 DEF requeueDeadNotification
  <2> QED
    BY <2>1, <2>2
<1>5. ASSUME NEW w \in Workers, sweepMissingNotifications(w) PROVE RowMoves(m)
  BY <1>5, InsertedRows DEF sweepMissingNotifications
<1>6. ASSUME NEW w \in Workers, Bury(w) PROVE RowMoves(m)
  <2>1. row'[m] = row[m] \/ row'[m] = [row[m] EXCEPT !.status = "dead", !.token = NoToken, !.left = 0]
    BY <1>6 DEF Bury
  <2>2. LET r == [row[m] EXCEPT !.status = "dead", !.token = NoToken, !.left = 0] IN
        r.status = "dead" /\ r.attempts = row[m].attempts
    BY <1>1 DEF Row
  <2> QED
    BY <1>2, <2>1, <2>2 DEF RowMoves, KeepsCount
<1>7. ASSUME NEW w \in Workers, Claim(w) PROVE RowMoves(m)
  <2>1. \/ row'[m] = row[m]
        \/ IsClaimed(w, m)
    BY <1>7 DEF Claim, IsClaimed
  <2> QED
    BY <1>2, <2>1 DEF RowMoves
<1>8. ASSUME NEW w \in Workers, NEW c \in batch[w], Unsendable(w, c) PROVE RowMoves(m)
  <2>1. c \in Claims /\ finish(c, "dead")
    BY <1>8 DEF Unsendable, TypeOK
  <2> QED
    BY <2>1, FinishedRows DEF RowMoves
<1>9. ASSUME NEW w \in Workers, NEW c \in batch[w], holdClaim(w, c) PROVE RowMoves(m)
  <2>1. row'[m] = row[m] \/ row'[m] = [row[m] EXCEPT !.left = Lock]
    BY <1>1, <1>9 DEF holdClaim, Held
  <2>2. LET r == [row[m] EXCEPT !.left = Lock] IN
        /\ r.status = row[m].status /\ r.attempts = row[m].attempts
        /\ r.token = row[m].token /\ r.left = Lock
    BY <1>1 DEF Row
  <2> QED
    BY <1>2, <2>1, <2>2 DEF RowMoves, KeepsCount
<1>10. ASSUME NEW w \in Workers, Finish(w) PROVE RowMoves(m)
  <2>1. cur[w] \in Claims /\ finish(cur[w], reply[w])
    BY <1>10 DEF Finish, Working
  <2> QED
    BY <1>10, <2>1, FinishedRows DEF RowMoves, GivesBack
<1>11. ASSUME NEW w \in Workers, reserveSend(w) \/ send(w) \/ RowFails(w) \/ Crash(w) PROVE RowMoves(m)
  BY <1>2, <1>11 DEF reserveSend, send, RowFails, Crash
<1>12. CASE \/ \E o \in Orders : Create(o)
            \/ \E n \in Mails : Lapse(n)
            \/ \E k \in Kinds : NewWindow(k)
            \/ UNCHANGED vars
  BY <1>2, <1>12 DEF Create, Lapse, NewWindow, vars
<1> QED
  BY <1>3, <1>4, <1>5, <1>6, <1>7, <1>8, <1>9, <1>10, <1>11, <1>12 DEF AtOnce

LEMMA WorkersMove ==
  ASSUME TypeOK, Working, AtOnce, NEW w \in Workers
  PROVE  /\ pc'[w] = "claim" => timer'[w] = timer[w] /\ (Bury(w) \/ pc[w] = "claim")
         /\ batch'[w] \subseteq batch[w] \/ Claim(w)
         /\ pc'[w] \in {"reserve", "send", "finish"} =>
               \/ pc[w] \in {"reserve", "send", "finish"} /\ cur'[w] = cur[w]
               \/ cur'[w] \in batch[w]
         /\ pc'[w] = "finish" /\ reply'[w] = "retry" =>
               \/ pc[w] = "finish" /\ reply[w] = "retry" /\ cur'[w] = cur[w]
               \/ cur'[w].attempts < MaxAttempts
<1> DEFINE Goal == /\ pc'[w] = "claim" => timer'[w] = timer[w] /\ (Bury(w) \/ pc[w] = "claim")
                   /\ batch'[w] \subseteq batch[w] \/ Claim(w)
                   /\ pc'[w] \in {"reserve", "send", "finish"} =>
                         \/ pc[w] \in {"reserve", "send", "finish"} /\ cur'[w] = cur[w]
                         \/ cur'[w] \in batch[w]
                   /\ pc'[w] = "finish" /\ reply'[w] = "retry" =>
                         \/ pc[w] = "finish" /\ reply[w] = "retry" /\ cur'[w] = cur[w]
                         \/ cur'[w].attempts < MaxAttempts
           Same == /\ pc'[w] = pc[w] /\ timer'[w] = timer[w] /\ batch'[w] = batch[w]
                   /\ cur'[w] = cur[w] /\ reply'[w] = reply[w]
<1> USE DEF TypeOK
<1>1. Same => Goal
  OBVIOUS
<1>2. ASSUME NEW v \in Workers, NextRow(v), \A u \in Workers \ {v} : batch'[u] = batch[u],
             batch'[v] \subseteq batch[v]
      PROVE  Goal
  <2>1. CASE v = w
    <3>1. pc'[w] \in {"idle", "next"}
      BY <1>2, <2>1 DEF NextRow
    <3> QED
      BY <1>2, <2>1, <3>1
  <2>2. CASE v # w
    <3>1. pc'[w] = pc[w] /\ timer'[w] = timer[w] /\ cur'[w] = cur[w] /\ reply'[w] = reply[w]
      BY <1>2, <2>2 DEF NextRow
    <3> QED
      BY <1>1, <1>2, <2>2, <3>1
  <2> QED
    BY <2>1, <2>2
<1>3. ASSUME NEW v \in Workers, NEW outcome, Answer(v, outcome), UNCHANGED <<batch, cur>>,
             pc[v] \in {"reserve", "send"}, outcome = "retry" => cur[v].attempts < MaxAttempts
      PROVE  Goal
  <2>1. CASE v = w
    <3>1. pc'[w] = "finish" /\ reply'[w] = outcome /\ cur'[w] = cur[w] /\ batch'[w] = batch[w]
      BY <1>3, <2>1 DEF Answer
    <3> QED
      BY <1>3, <2>1, <3>1
  <2>2. CASE v # w
    <3>1. Same
      BY <1>3, <2>2 DEF Answer
    <3> QED
      BY <1>1, <3>1
  <2> QED
    BY <2>1, <2>2
<1>4. ASSUME NEW v \in Workers, sweepMissingNotifications(v) PROVE Goal
  <2>1. /\ pc' = [pc EXCEPT ![v] = "bury"] /\ timer' = [timer EXCEPT ![v] = 0]
        /\ UNCHANGED <<batch, cur, reply>>
    BY <1>4 DEF sweepMissingNotifications
  <2> QED
    BY <2>1
<1>5. ASSUME NEW v \in Workers, Bury(v) PROVE Goal
  <2>1. pc' = [pc EXCEPT ![v] = "claim"] /\ UNCHANGED <<timer, batch, cur, reply>>
    BY <1>5 DEF Bury
  <2> QED
    BY <1>5, <2>1
<1>6. ASSUME NEW v \in Workers, Claim(v) PROVE Goal
  <2>1. /\ \E step \in {"idle", "next"} : pc' = [pc EXCEPT ![v] = step]
        /\ timer' = [timer EXCEPT ![v] = 0] /\ \A u \in Workers \ {v} : batch'[u] = batch[u]
        /\ UNCHANGED <<cur, reply>>
    BY <1>6 DEF Claim
  <2> QED
    BY <1>6, <2>1
<1>7. ASSUME NEW v \in Workers, NEW c \in batch[v], Unsendable(v, c) PROVE Goal
  BY <1>2, <1>7 DEF Unsendable
<1>8. ASSUME NEW v \in Workers, NEW c \in batch[v], holdClaim(v, c) PROVE Goal
  <2>1. CASE Owns(c)
    <3>1. /\ pc' = [pc EXCEPT ![v] = "reserve"] /\ timer' = [timer EXCEPT ![v] = 0]
          /\ cur' = [cur EXCEPT ![v] = c] /\ batch' = [batch EXCEPT ![v] = @ \ {c}]
          /\ UNCHANGED reply
      BY <1>8, <2>1 DEF holdClaim
    <3> QED
      BY <3>1
  <2>2. CASE ~Owns(c)
    BY <1>2, <1>8, <2>2 DEF holdClaim
  <2> QED
    BY <2>1, <2>2
<1>9. ASSUME NEW v \in Workers, reserveSend(v) PROVE Goal
  <2>1. pc[v] = "reserve" /\ UNCHANGED <<batch, cur>>
    BY <1>9 DEF reserveSend
  <2>2. CASE pc' = [pc EXCEPT ![v] = "send"] /\ UNCHANGED <<timer, reply>>
    BY <2>1, <2>2
  <2>3. CASE Answer(v, "dead")
    BY <1>3, <2>1, <2>3
  <2>4. CASE Answer(v, RetryOrDead(cur[v]))
    <3>1. RetryOrDead(cur[v]) = "retry" => cur[v].attempts < MaxAttempts
      BY DEF RetryOrDead
    <3> QED
      BY <1>3, <2>1, <2>4, <3>1
  <2> QED
    BY <1>9, <2>2, <2>3, <2>4 DEF reserveSend, Unbudgeted
<1>10. ASSUME NEW v \in Workers, send(v) PROVE Goal
  <2>1. pc[v] = "send" /\ UNCHANGED <<batch, cur>>
    BY <1>10 DEF send
  <2>2. PICK outcome : Answer(v, outcome) /\ outcome \in {"sent", "dead", RetryOrDead(cur[v])}
    BY <1>10 DEF send
  <2>3. outcome = "retry" => cur[v].attempts < MaxAttempts
    BY <2>2 DEF RetryOrDead
  <2> QED
    BY <1>3, <2>1, <2>2, <2>3
<1>11. ASSUME NEW v \in Workers, Finish(v) \/ RowFails(v) PROVE Goal
  BY <1>2, <1>11 DEF Finish, RowFails
<1>12. ASSUME NEW v \in Workers, Crash(v) PROVE Goal
  BY <1>2, <1>12 DEF Crash
<1>13. CASE UNCHANGED worker
  BY <1>1, <1>13 DEF worker
<1>14. ASSUME \/ \E o \in Orders : Create(o) \/ enqueueOrderNotifications(o)
              \/ \E m \in Mails : requeueDeadNotification(m) \/ Lapse(m)
              \/ \E k \in Kinds : NewWindow(k)
              \/ UNCHANGED vars
       PROVE  UNCHANGED worker
  BY <1>14 DEF Create, enqueueOrderNotifications, requeueDeadNotification, Lapse, NewWindow, vars
<1> QED
  BY <1>4, <1>5, <1>6, <1>7, <1>8, <1>9, <1>10, <1>11, <1>12, <1>13, <1>14 DEF AtOnce

LEMMA StaysKnown ==
  ASSUME NEW w \in Workers, NEW c, c.token = w, Known(c), RowMoves(c.mail), ~Claim(w)
  PROVE  Known(c)'
<1> SUFFICES ASSUME row'[c.mail].status = "sending", row'[c.mail].token = w
             PROVE  row'[c.mail].attempts = c.attempts
  BY DEF Known, Owns
<1>1. CASE KeepsCount(c.mail)
  BY <1>1 DEF KeepsCount, Known, Owns
<1>2. CASE Restarts(c.mail)
  BY <1>2 DEF Restarts
<1>3. ASSUME NEW v \in Workers, IsClaimed(v, c.mail) PROVE FALSE
  BY <1>3 DEF IsClaimed
<1>4. ASSUME NEW v \in Workers, GivesBack(v, c.mail) PROVE FALSE
  BY <1>4 DEF GivesBack
<1> QED
  BY <1>1, <1>2, <1>3, <1>4 DEF RowMoves

LEMMA CountedAtOnce ==
  ASSUME TypeOK, Working, Counted, AtOnce
  PROVE  Counted'
<1> USE DEF Counted
<1>1. ClaimsKnow'
  <2> SUFFICES ASSUME NEW w \in Workers
               PROVE  /\ \A c \in batch'[w] : Known(c)'
                      /\ pc'[w] \in {"reserve", "send", "finish"} => Known(cur[w])'
    BY DEF ClaimsKnow
  <2>1. CASE Claim(w)
    <3>1. pc'[w] \in {"idle", "next"}
      BY <2>1 DEF Claim, TypeOK
    <3>2. ASSUME NEW c \in batch'[w] PROVE row'[c.mail].attempts = c.attempts
      <4>1. PICK m \in Mails : Due(w, m) /\ c = [mail |-> m, token |-> w, attempts |-> row[m].attempts + 1]
        BY <2>1, <3>2 DEF Claim, TypeOK
      <4>2. row'[m].attempts = row[m].attempts + 1
        BY <2>1, <4>1 DEF Claim
      <4> QED
        BY <4>1, <4>2
    <3> QED
      BY <3>1, <3>2 DEF Known
  <2>2. CASE ~Claim(w)
    <3>1. ASSUME NEW c \in batch[w] PROVE Known(c)'
      <4>1. c \in Claims /\ c.token = w /\ c.mail \in Mails /\ Known(c)
        BY DEF ClaimsKnow, Working, TypeOK, Claims
      <4> QED
        BY <2>2, <4>1, RowsMove, StaysKnown
    <3>2. ASSUME pc[w] \in {"reserve", "send", "finish"}, cur'[w] = cur[w] PROVE Known(cur[w])'
      <4>1. cur[w].token = w /\ cur[w].mail \in Mails /\ Known(cur[w])
        BY <3>2 DEF ClaimsKnow, Working, Claims
      <4>2. RowMoves(cur[w].mail)
        BY <4>1, RowsMove
      <4> DEFINE c == cur[w]
      <4>3. PICK d : d = c
        OBVIOUS
      <4>4. Known(d)'
        BY <2>2, <4>1, <4>2, <4>3, StaysKnown
      <4> QED
        BY <3>2, <4>3, <4>4 DEF Known, Owns
    <3>3. ASSUME cur'[w] \in batch[w] PROVE Known(cur[w])'
      <4>1. PICK d \in batch[w] : d = cur'[w]
        BY <3>3
      <4>2. Known(d)'
        BY <3>1, <4>1
      <4> QED
        BY <4>1, <4>2 DEF Known, Owns
    <3> QED
      BY <2>2, <3>1, <3>2, <3>3, WorkersMove
  <2> QED
    BY <2>1, <2>2
<1>2. RetriesAsked'
  BY WorkersMove DEF RetriesAsked
<1>3. BuriedFirst'
  <2> SUFFICES ASSUME NEW w \in Workers, NEW m \in Mails, pc'[w] = "claim",
                      row'[m].status = "sending", row'[m].left < -(timer'[w])
               PROVE  row'[m].attempts < MaxAttempts
    BY DEF BuriedFirst, Expired
  <2>1. timer'[w] = timer[w] /\ timer[w] \in Nat /\ (Bury(w) \/ pc[w] = "claim") /\ row[m] \in Row
    BY WorkersMove, OutboxAssumption DEF TypeOK
  <2>2. CASE Bury(w)
    <3>1. \/ row'[m] = row[m] /\ ~Stalled(w, m)
          \/ row'[m] = [row[m] EXCEPT !.status = "dead", !.token = NoToken, !.left = 0]
      BY <2>2 DEF Bury
    <3>2. [row[m] EXCEPT !.status = "dead", !.token = NoToken, !.left = 0].status = "dead"
      BY <2>1 DEF Row
    <3>3. row'[m] = row[m] /\ Expired(w, m)
      BY <2>1, <3>1, <3>2 DEF Expired
    <3>4. row[m].attempts \in Nat /\ MaxAttempts \in Nat
      BY <2>1, OutboxAssumption DEF Row
    <3>5. ~Stalled(w, m)
      BY <3>1, <3>2
    <3> QED
      BY <3>3, <3>4, <3>5 DEF Stalled
  <2>3. CASE pc[w] = "claim"
    <3>1. ASSUME row'[m].left = row[m].left, KeepsCount(m) PROVE row'[m].attempts < MaxAttempts
      BY <2>1, <2>3, <3>1 DEF BuriedFirst, Expired, KeepsCount
    <3>2. row'[m].left # Lock
      BY <2>1, OutboxAssumption
    <3>3. ASSUME NEW v \in Workers, IsClaimed(v, m) PROVE FALSE
      <4>1. row'[m].left = Lock - timer[v] /\ timer[v] \in 0 .. MaxStall
        BY <3>3 DEF IsClaimed, TypeOK
      <4> QED
        BY <2>1, <4>1, OutboxAssumption
    <3> QED
      BY <3>1, <3>2, <3>3, RowsMove DEF RowMoves, Restarts, GivesBack, KeepsCount
  <2> QED
    BY <2>1, <2>2, <2>3
<1>4. AttemptsRunOut'
  <2> SUFFICES ASSUME NEW m \in Mails
               PROVE  /\ row'[m].attempts <= MaxAttempts
                      /\ row'[m].status = "pending" => row'[m].attempts < MaxAttempts
    BY DEF AttemptsRunOut
  <2>1. row[m].attempts \in Nat /\ MaxAttempts \in Nat /\ MaxAttempts > 0
    BY OutboxAssumption DEF TypeOK, Row
  <2>2. CASE KeepsCount(m)
    BY <2>2 DEF KeepsCount, AttemptsRunOut
  <2>3. CASE Restarts(m)
    BY <2>1, <2>3 DEF Restarts
  <2>4. ASSUME NEW w \in Workers, IsClaimed(w, m)
        PROVE  row'[m].attempts <= MaxAttempts /\ row'[m].status = "sending"
    <3>1. row[m].attempts < MaxAttempts
      BY <2>4 DEF IsClaimed, Claim, Due, BuriedFirst, AttemptsRunOut
    <3>2. row'[m].attempts = row[m].attempts + 1 /\ row'[m].status = "sending"
      BY <2>4 DEF IsClaimed
    <3> QED
      BY <2>1, <3>1, <3>2
  <2>5. ASSUME NEW w \in Workers, GivesBack(w, m)
        PROVE  row'[m].attempts <= MaxAttempts /\ row'[m].attempts < MaxAttempts
    <3>1. /\ pc[w] = "finish" /\ reply[w] = "retry" /\ Owns(cur[w]) /\ cur[w].mail = m
          /\ row'[m].attempts = row[m].attempts
      BY <2>5 DEF GivesBack, Finish
    <3>2. row[m].attempts < MaxAttempts
      BY <3>1 DEF ClaimsKnow, Known, RetriesAsked
    <3> QED
      BY <2>1, <3>1, <3>2
  <2>6. RowMoves(m)
    BY RowsMove
  <2> QED
    BY <2>2, <2>3, <2>4, <2>5, <2>6 DEF RowMoves
<1> QED
  BY <1>1, <1>2, <1>3, <1>4

LEMMA CountedTick ==
  ASSUME TypeOK, Working, Counted, Tick
  PROVE  Counted'
<1>1. UNCHANGED <<pc, batch, cur, reply>>
  BY DEF Tick
<1>2. ASSUME NEW m \in Mails
      PROVE  /\ row'[m].status = row[m].status /\ row'[m].attempts = row[m].attempts
             /\ row'[m].token = row[m].token
             /\ row[m].status = "sending" => row'[m].left = Down(row[m].left, Floor)
  <2>1. row[m] \in Row
    BY DEF TypeOK
  <2>2. row'[m] = CASE row[m].status = "sending" -> [row[m] EXCEPT !.left = Down(@, Floor)]
                    [] row[m].status = "pending" -> [row[m] EXCEPT !.wait = Down(@, 0)]
                    [] OTHER -> row[m]
    BY DEF Tick
  <2>3. CASE row[m].status = "sending"
    BY <2>1, <2>2, <2>3 DEF Row
  <2>4. CASE row[m].status = "pending"
    BY <2>1, <2>2, <2>4 DEF Row
  <2>5. CASE row[m].status \notin {"sending", "pending"}
    BY <2>2, <2>5
  <2> QED
    BY <2>3, <2>4, <2>5
<1>3. ClaimsKnow'
  <2>1. ASSUME NEW c, c.mail \in Mails, Known(c) PROVE Known(c)'
    BY <1>2, <2>1 DEF Known, Owns
  <2>2. \A w \in Workers :
          /\ \A c \in batch[w] : c.mail \in Mails
          /\ pc[w] \in {"reserve", "send", "finish"} => cur[w].mail \in Mails
    BY DEF TypeOK, Working, Claims
  <2>3. ASSUME NEW w \in Workers, pc[w] \in {"reserve", "send", "finish"} PROVE Known(cur[w])'
    <3>1. PICK d : d = cur[w]
      OBVIOUS
    <3>2. Known(d)'
      BY <2>1, <2>2, <2>3, <3>1 DEF Counted, ClaimsKnow
    <3> QED
      BY <1>1, <3>1, <3>2 DEF Known, Owns
  <2> QED
    BY <1>1, <2>1, <2>2, <2>3 DEF Counted, ClaimsKnow
<1>4. RetriesAsked'
  BY <1>1 DEF Counted, RetriesAsked
<1>5. BuriedFirst'
  <2> SUFFICES ASSUME NEW w \in Workers, NEW m \in Mails, pc[w] = "claim",
                      row'[m].status = "sending", row'[m].left < -(timer'[w])
               PROVE  row'[m].attempts < MaxAttempts
    BY <1>1 DEF BuriedFirst, Expired
  <2>1. timer'[w] = timer[w] + 1 /\ timer[w] \in Nat /\ timer[w] < MaxStall
    BY OutboxAssumption DEF Tick, Timed, TypeOK
  <2>2. row[m].status = "sending" /\ row[m].left \in Int /\ row'[m].left = Down(row[m].left, Floor)
    BY <1>2, OutboxAssumption DEF TypeOK, Row, Floor
  <2>3. row[m].left < -timer[w]
    BY <2>1, <2>2, OutboxAssumption DEF Down, Floor
  <2> QED
    BY <1>2, <2>2, <2>3 DEF Counted, BuriedFirst, Expired
<1>6. AttemptsRunOut'
  BY <1>2 DEF Counted, AttemptsRunOut
<1> QED
  BY <1>3, <1>4, <1>5, <1>6 DEF Counted

(* No e-mail is tried more often than MAX_ATTEMPTS, and one that waits has   *)
(* an attempt left: what a worker may still claim it asked by one reading of *)
(* the clock, and nobody counts on with a claim that lost its row.           *)
THEOREM RetriesRunOut == Spec => []AttemptsRunOut
<1>1. Init => Counted
  <2> SUFFICES ASSUME Init PROVE Counted
    OBVIOUS
  <2>1. \A m \in Mails : row[m].status = "absent" /\ row[m].attempts = 0
    BY DEF Init, Absent
  <2>2. \A w \in Workers : pc[w] = "idle" /\ batch[w] = {}
    BY DEF Init
  <2>3. MaxAttempts \in Nat /\ 0 <= MaxAttempts
    BY OutboxAssumption
  <2> QED
    BY <2>1, <2>2, <2>3 DEF Counted, ClaimsKnow, RetriesAsked, BuriedFirst, AttemptsRunOut
<1>2. IInv /\ Counted /\ [Next]_vars => Counted'
  <2>1. [Next]_vars => AtOnce \/ Tick
    BY NextCases DEF AtOnce
  <2> QED
    BY <2>1, CountedAtOnce, CountedTick DEF IInv
<1>3. Counted => AttemptsRunOut
  BY DEF Counted
<1> QED
  BY <1>1, <1>2, <1>3, Inductive, PTL DEF Spec
=============================================================================
