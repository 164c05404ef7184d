------------------------------- MODULE Outbox -------------------------------
(***************************************************************************)
(* The transactional outbox of order e-mails (lib/notifications/outbox.ts) *)
(* with its send budget (send-budget.ts, migration 0025): checkout queues  *)
(* the rows in a savepoint, workers claim them under leases and fence      *)
(* every result with the claim's token.                                    *)
(*                                                                         *)
(* Times are kept relative to the present, so that time never runs out:    *)
(* left is locked_until - now, wait is next_attempt_at - now, timer the    *)
(* age of the time a worker read.  A tick stands for any unit the          *)
(* constants are counted in.                                               *)
(***************************************************************************)
EXTENDS Integers, FiniteSets, FiniteSetsExt

CONSTANTS
    Orders, Kinds,     \* OUTBOX_KINDS; a row's dedupe key is <<order, kind>>
    Workers,           \* concurrent invocations of the worker route
    MaxAttempts,       \* MAX_ATTEMPTS
    Lock,              \* LOCK_SECONDS
    Delay,             \* the longest of RETRY_DELAYS_SECONDS
    Limit,             \* the send budget of a kind in one window
    Settled, Window,   \* the sweep looks at orders of these ages
    Cron,              \* the scheduler calls the worker at least this often
    MaxStall,          \* a worker's clock reading is never older than this when it is used
    MaxRequeues,       \* bound on the operator's requeues
    NoToken            \* no claim_token

Mails == Orders \X Kinds

ASSUME OutboxAssumption ==
    /\ {MaxAttempts, Lock, Limit} \subseteq Nat \ {0}
    /\ {Delay, Settled, Window, Cron, MaxStall, MaxRequeues} \subseteq Nat
    /\ MaxStall < Lock
    /\ MaxStall + Settled + Cron <= Window

VARIABLES
    order,      \* [Orders -> {"none", "open", "committed"}]
    age,        \* [Orders -> 0 .. Window + 1], since created_at
    invalid,    \* the e-mails without a valid recipient
    row,        \* [Mails -> row of notification_outbox]
    reserved,   \* rows with a reservation younger than six hours
    used,       \* [Kinds -> units charged in the present window]
    paid,       \* rows ever charged
    accepted,   \* e-mails the provider has accepted (it knows their idempotency keys)
    pc, timer,  \* per worker: the next statement, the age of its clock reading
    batch,      \* per worker: the claims it still has to work off
    cur,        \* per worker: the claim it is working on
    reply,      \* per worker: the outcome it is about to record
    quiet,      \* ticks since the last sweep
    requeues

shop     == <<order, age, invalid, quiet>>
provider == <<reserved, used, paid, accepted>>
worker   == <<pc, timer, batch, cur, reply>>
vars     == <<shop, provider, worker, row, requeues>>

Floor == -(MaxStall + 1)         \* a lease that ended longer ago than any clock reading
Row == [status : {"absent", "pending", "sending", "sent", "dead"}, attempts : Nat,
        token : Workers \cup {NoToken}, left : Floor .. Lock, wait : 0 .. Delay]
Absent == [status |-> "absent", attempts |-> 0, token |-> NoToken, left |-> 0, wait |-> 0]
Fresh  == [Absent EXCEPT !.status = "pending"]
Claims == [mail : Mails, token : Workers, attempts : Nat]
NoClaim == [mail |-> <<>>, token |-> NoToken, attempts |-> 0]
\* Random tokens only have to differ between claims that some worker still
\* holds, and a worker holds those of one batch: its name serves.
Timed   == {"bury", "claim", "reserve", "send"}

Init ==
    /\ order = [o \in Orders |-> "none"] /\ age = [o \in Orders |-> 0]
    /\ invalid = {}
    /\ row = [m \in Mails |-> Absent]
    /\ reserved = {} /\ used = [k \in Kinds |-> 0] /\ paid = {} /\ accepted = {}
    /\ pc = [w \in Workers |-> "idle"] /\ timer = [w \in Workers |-> 0]
    /\ batch = [w \in Workers |-> {}] /\ cur = [w \in Workers |-> NoClaim]
    /\ reply = [w \in Workers |-> "none"]
    /\ quiet = 0 /\ requeues = 0

-----------------------------------------------------------------------------
(* The shop: an order is created and committed; its savepoint may fail.    *)

Create(o) ==
    /\ order[o] = "none"
    /\ order' = [order EXCEPT ![o] = "open"]
    /\ \E S \in SUBSET ({o} \X Kinds) : invalid' = invalid \cup S
    /\ UNCHANGED <<age, quiet, provider, worker, row, requeues>>

\* INSERT ... ON CONFLICT (dedupe_key) DO NOTHING
Inserted(S) == [m \in Mails |-> IF m \in S /\ row[m] = Absent THEN Fresh ELSE row[m]]

enqueueOrderNotifications(o) ==
    /\ order[o] = "open"
    /\ order' = [order EXCEPT ![o] = "committed"]
    /\ row' \in {row, Inserted({o} \X Kinds)}
    /\ UNCHANGED <<age, invalid, quiet, provider, worker, requeues>>

requeueDeadNotification(m) ==
    /\ row[m].status = "dead" /\ requeues < MaxRequeues
    /\ row' = [row EXCEPT ![m].status = "pending", ![m].attempts = 0,
                          ![m].wait = 0, ![m].left = 0]
    /\ requeues' = requeues + 1
    /\ UNCHANGED <<shop, provider, worker>>

-----------------------------------------------------------------------------
(* A worker: sweep, bury the stalled rows, claim the due ones.             *)

SweptAtOnce(o) == order[o] = "committed" /\ age[o] = Settled      \* a fault

InSweep(o) == order[o] = "committed" /\ age[o] >= Settled /\ age[o] <= Window

sweepMissingNotifications(w) ==
    /\ pc[w] = "idle"
    /\ row' = Inserted({o \in Orders : InSweep(o)} \X Kinds)
    /\ pc' = [pc EXCEPT ![w] = "bury"] /\ timer' = [timer EXCEPT ![w] = 0]
    /\ quiet' = 0
    /\ UNCHANGED <<order, age, invalid, provider, batch, cur, reply, requeues>>

\* locked_until < now, with the time the worker read
Expired(w, m) == row[m].status = "sending" /\ row[m].left < -timer[w]

DuePending(w, m) == row[m].status = "pending" /\ row[m].wait = 0   \* a fault

Due(w, m) == (row[m].status = "pending" /\ row[m].wait = 0) \/ Expired(w, m)

Stalled(w, m) == Expired(w, m) /\ row[m].attempts >= MaxAttempts

Bury(w) ==
    /\ pc[w] = "bury"
    /\ row' = [m \in Mails |-> IF Stalled(w, m)
                               THEN [row[m] EXCEPT !.status = "dead", !.token = NoToken, !.left = 0]
                               ELSE row[m]]
    /\ pc' = [pc EXCEPT ![w] = "claim"]
    /\ UNCHANGED <<shop, provider, timer, batch, cur, reply, requeues>>

Claim(w) ==
    LET due == {m \in Mails : Due(w, m)} IN
    /\ pc[w] = "claim"
    /\ row' = [m \in Mails |->
                 IF m \in due
                 THEN [status |-> "sending", attempts |-> row[m].attempts + 1,
                       token |-> w, left |-> Lock - timer[w], wait |-> 0]
                 ELSE row[m]]
    /\ batch' = [batch EXCEPT ![w] = {[mail |-> m, token |-> w,
                                       attempts |-> row[m].attempts + 1] : m \in due}]
    /\ pc' = [pc EXCEPT ![w] = IF due = {} THEN "idle" ELSE "next"]
    /\ timer' = [timer EXCEPT ![w] = 0]
    /\ UNCHANGED <<shop, provider, cur, reply, requeues>>

-----------------------------------------------------------------------------
(* One claimed row at a time.                                              *)

SeemsOwned(c) == row[c.mail].status = "sending"                   \* a fault

Owns(c) == row[c.mail].status = "sending" /\ row[c.mail].token = c.token

\* The row as the UPDATE of finish leaves it.
Finished(m, outcome, pause) ==
    [row[m] EXCEPT !.status = CASE outcome = "sent"  -> "sent"
                                [] outcome = "retry" -> "pending"
                                [] OTHER             -> "dead",
                   !.wait = IF outcome = "retry" THEN pause ELSE @,
                   !.token = NoToken, !.left = 0]

\* The guarded UPDATE: a claim that no longer owns the row changes nothing.
finish(c, outcome) ==
    IF Owns(c)
    THEN \E pause \in (IF outcome = "retry" THEN 0 .. Delay ELSE {0}) :
            row' = [row EXCEPT ![c.mail] = Finished(c.mail, outcome, pause)]
    ELSE UNCHANGED row

\* The loop goes on to the next row of the batch.
NextRow(w) ==
    /\ pc' = [pc EXCEPT ![w] = IF batch'[w] = {} THEN "idle" ELSE "next"]
    /\ timer' = [timer EXCEPT ![w] = 0]
    /\ cur' = [cur EXCEPT ![w] = NoClaim]
    /\ reply' = [reply EXCEPT ![w] = "none"]

Unsendable(w, c) ==
    /\ pc[w] = "next" /\ c \in batch[w] /\ c.mail \in invalid
    /\ batch' = [batch EXCEPT ![w] = @ \ {c}]
    /\ finish(c, "dead") /\ NextRow(w)
    /\ UNCHANGED <<shop, provider, requeues>>

HeldAsBefore(m) == row[m]                                         \* a fault

Held(m) == [row[m] EXCEPT !.left = Lock]

holdClaim(w, c) ==
    /\ pc[w] = "next" /\ c \in batch[w] /\ c.mail \notin invalid
    /\ batch' = [batch EXCEPT ![w] = @ \ {c}]
    /\ IF Owns(c)
       THEN /\ row' = [row EXCEPT ![c.mail] = Held(c.mail)]
            /\ cur' = [cur EXCEPT ![w] = c]
            /\ pc' = [pc EXCEPT ![w] = "reserve"] /\ timer' = [timer EXCEPT ![w] = 0]
            /\ UNCHANGED reply
       ELSE NextRow(w) /\ UNCHANGED row
    /\ UNCHANGED <<shop, provider, requeues>>

Answer(w, outcome) ==
    /\ pc' = [pc EXCEPT ![w] = "finish"] /\ timer' = [timer EXCEPT ![w] = 0]
    /\ reply' = [reply EXCEPT ![w] = outcome]

RetryOrDead(c) == IF c.attempts < MaxAttempts THEN "retry" ELSE "dead"

FitsOneMore(k) == used[k] <= Limit                                \* a fault

Fits(k) == used[k] < Limit

SendUnpaid(w) ==                                                  \* a fault
    pc' = [pc EXCEPT ![w] = "send"] /\ UNCHANGED <<timer, reply>>

\* reserve_notification_send throws: nothing is charged, nothing is sent.
Unbudgeted(w) == Answer(w, RetryOrDead(cur[w]))

reserveSend(w) ==
    LET m == cur[w].mail IN
    /\ pc[w] = "reserve"
    /\ \/ m \in reserved                                          \* 'already'
          /\ pc' = [pc EXCEPT ![w] = "send"]
          /\ UNCHANGED <<reserved, used, paid, timer, reply>>
       \/ m \notin reserved /\ Fits(m[2])                         \* 'reserved'
          /\ reserved' = reserved \cup {m} /\ paid' = paid \cup {m}
          /\ used' = [used EXCEPT ![m[2]] = @ + 1]
          /\ pc' = [pc EXCEPT ![w] = "send"] /\ UNCHANGED <<timer, reply>>
       \/ m \notin reserved /\ ~Fits(m[2])                        \* 'limited'
          /\ Answer(w, "dead") /\ UNCHANGED <<reserved, used, paid>>
       \/ Unbudgeted(w)
          /\ UNCHANGED <<reserved, used, paid>>
    /\ UNCHANGED <<shop, accepted, row, batch, cur, requeues>>

\* Accepted and answered; a definite refusal; a timeout or 5xx, accepted or not.
send(w) ==
    LET m == cur[w].mail IN
    /\ pc[w] = "send"
    /\ \/ accepted' = accepted \cup {m} /\ Answer(w, "sent")
       \/ accepted' = accepted /\ Answer(w, "dead")
       \/ accepted' \in {accepted, accepted \cup {m}} /\ Answer(w, RetryOrDead(cur[w]))
    /\ UNCHANGED <<shop, reserved, used, paid, row, batch, cur, requeues>>

Finish(w) ==
    /\ pc[w] = "finish"
    /\ finish(cur[w], reply[w]) /\ UNCHANGED batch /\ NextRow(w)
    /\ UNCHANGED <<shop, provider, requeues>>

\* A statement of the row throws: it stays 'sending' until its lease ends.
RowFails(w) ==
    /\ pc[w] \in {"reserve", "send", "finish"}
    /\ UNCHANGED batch /\ NextRow(w)
    /\ UNCHANGED <<shop, provider, row, requeues>>

\* The invocation dies, or one of its first three statements throws.
Crash(w) ==
    /\ pc[w] # "idle"
    /\ batch' = [batch EXCEPT ![w] = {}] /\ NextRow(w)
    /\ UNCHANGED <<shop, provider, row, requeues>>

-----------------------------------------------------------------------------
(* Time.                                                                   *)

Down(n, floor) == IF n > floor THEN n - 1 ELSE n

Tick ==
    /\ quiet < Cron
    /\ \A w \in Workers : pc[w] \in Timed => timer[w] < MaxStall
    /\ \A o \in Orders : order[o] = "open" => age[o] < MaxStall
    /\ age' = [o \in Orders |-> IF order[o] = "none" \/ age[o] > Window
                                THEN age[o] ELSE age[o] + 1]
    /\ row' = [m \in Mails |->
                 CASE row[m].status = "sending" -> [row[m] EXCEPT !.left = Down(@, Floor)]
                   [] row[m].status = "pending" -> [row[m] EXCEPT !.wait = Down(@, 0)]
                   [] OTHER -> row[m]]
    /\ timer' = [w \in Workers |-> IF pc[w] \in Timed THEN timer[w] + 1 ELSE timer[w]]
    /\ quiet' = quiet + 1
    /\ UNCHANGED <<order, invalid, provider, pc, batch, cur, reply, requeues>>

\* An hour or a day begins: its counters are new rows.
NewWindow(k) ==
    /\ used[k] > 0 /\ used' = [used EXCEPT ![k] = 0]
    /\ UNCHANGED <<shop, reserved, paid, accepted, worker, row, requeues>>

\* Six hours after it was made, later than the whole retry schedule, a
\* reservation no longer excuses a send.
Lapse(m) ==
    /\ m \in reserved /\ row[m].status \in {"dead", "sent"}
    /\ reserved' = reserved \ {m}
    /\ UNCHANGED <<shop, used, paid, accepted, worker, row, requeues>>

-----------------------------------------------------------------------------
DispatchRow(w) ==
    \/ \E c \in batch[w] : Unsendable(w, c) \/ holdClaim(w, c)
    \/ reserveSend(w) \/ send(w) \/ Finish(w)

dispatchOutbox(w) == Bury(w) \/ Claim(w) \/ DispatchRow(w)

Next ==
    \/ \E o \in Orders : Create(o) \/ enqueueOrderNotifications(o)
    \/ \E m \in Mails : requeueDeadNotification(m) \/ Lapse(m)
    \/ \E w \in Workers :
          sweepMissingNotifications(w) \/ dispatchOutbox(w) \/ RowFails(w) \/ Crash(w)
    \/ \E k \in Kinds : NewWindow(k)
    \/ Tick

\* Time passes, the scheduler calls the workers, an open checkout ends, and
\* an invocation takes its steps or dies; again and again one lives long
\* enough to claim, whatever becomes of it then.
Fairness ==
    /\ WF_vars(Tick)
    /\ \A w \in Workers :
          /\ WF_vars(sweepMissingNotifications(w)) /\ SF_vars(Bury(w)) /\ SF_vars(Claim(w))
          /\ WF_vars(dispatchOutbox(w) \/ RowFails(w) \/ Crash(w))
    /\ \A o \in Orders : WF_vars(enqueueOrderNotifications(o))

Spec     == Init /\ [][Next]_vars
FairSpec == Spec /\ Fairness

-----------------------------------------------------------------------------
(* Properties.                                                             *)

\* Type invariant: rows, claims and clocks keep their shapes; no budget is
\* exceeded and no lease is longer than Lock.
TypeOK ==
    /\ order \in [Orders -> {"none", "open", "committed"}]
    /\ age \in [Orders -> 0 .. Window + 1]
    /\ row \in [Mails -> Row]
    /\ invalid \cup reserved \cup paid \cup accepted \subseteq Mails
    /\ used \in [Kinds -> 0 .. Limit]
    /\ pc \in [Workers -> Timed \cup {"idle", "next", "finish"}]
    /\ timer \in [Workers -> 0 .. MaxStall]
    /\ batch \in [Workers -> SUBSET Claims] /\ cur \in [Workers -> Claims \cup {NoClaim}]
    /\ reply \in [Workers -> {"none", "sent", "retry", "dead"}]

\* The lease and the fence together: no two workers are between holding a
\* row and the provider's answer for it, however long the earlier rows of
\* their batches took (outbox.ts:138-142, "the whole send fits inside it").
OneSender ==
    \A v, w \in Workers :
        v # w /\ {pc[v], pc[w]} \subseteq {"reserve", "send"} => cur[v].mail # cur[w].mail

\* Whatever the provider accepted has been charged to the budget, also
\* when a worker died between the charge and the send (send-budget.ts:80).
SendsArePaid == accepted \subseteq paid

\* An order whose savepoint failed is found by a sweep before it is too
\* old for the sweep window (sweep-window.ts:14-16, outbox.ts:187).
NoOrderForgotten ==
    \A o \in Orders : order[o] = "committed" /\ age[o] > Window
                      => \A k \in Kinds : row[<<o, k>>] # Absent

\* Every queued e-mail is in the end sent or dead: leases of dead workers
\* end, retries run out, stalled rows are buried (outbox.ts:96-104).
EveryMailSettled ==
    \A m \in Mails : row[m].status \in {"pending", "sending"}
                     ~> row[m].status \in {"sent", "dead"}

\* The outbox implements the promise of module Mailbox.
Box(s) == CASE s = "absent" -> "none" [] s \in {"pending", "sending"} -> "queued" [] OTHER -> s

Promise == INSTANCE Mailbox WITH box <- [m \in Mails |-> Box(row[m].status)]

KeepsPromise == Promise!Spec
=============================================================================
