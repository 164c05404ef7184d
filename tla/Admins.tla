------------------------------- MODULE Admins -------------------------------
(***************************************************************************)
(* Administrators: their sessions, which requests rotate while others use  *)
(* them (lib/admin-session-rotation.ts, lib/admin-auth.ts), and the        *)
(* transactions that take rights away: deactivation, role change, password *)
(* reset.                                                                  *)
(*                                                                         *)
(* PostgreSQL runs them at READ COMMITTED: a statement picks its rows as   *)
(* of its start, waits for their locks and looks at them again.  A row     *)
(* inserted meanwhile is not picked.  FOR UPDATE on a user conflicts with  *)
(* the KEY SHARE lock that inserting one of the user's sessions takes      *)
(* (foreign key, drizzle-pg/0001); an update of other columns does not.    *)
(***************************************************************************)
EXTENDS Integers, FiniteSets, FiniteSetsExt

CONSTANTS
    Users,      \* administrators, numbered by id
    Me,         \* the one whose browser and sessions are followed
    Sessions,   \* ids for rows of admin_sessions
    Requests,   \* requests of that browser that may be under way together
    Txs,        \* transactions of other administrators and of reset pages, each run once
    Links,      \* password-reset links
    MaxBusy,    \* bound: requests and transactions under way at a time
    None

ASSUME AdminsAssumption ==
    /\ Users \subseteq Nat /\ Me \in Users /\ MaxBusy \in Nat /\ IsFiniteSet(Links)
    /\ None \notin Sessions \cup Requests \cup Txs \cup Links

VARIABLES
    role, active,    \* admin_users
    password,        \* number of password changes
    session,         \* [Sessions -> row of admin_sessions]
    link,            \* admin_password_resets
    userLock,        \* [Users -> the transaction with the row's FOR UPDATE lock]
    rowLock,         \* [Sessions -> the request or transaction that updated the row]
    linkLock,        \* [Links -> the transaction that updated the row]
    cookie,          \* the session cookie of the browser
    lost,            \* a Set-Cookie never reached the browser
    pc, seen, next,  \* per request: step, session it presented, session it hands out
    tpc, kind, target, todo, count, rows   \* per transaction

users == <<role, active, password>>
locks == <<userLock, rowLock, linkLock>>
reqs  == <<pc, seen, next>>
txs   == <<tpc, kind, target, todo, count, rows>>
browser == <<cookie, lost>>
vars  == <<users, session, link, locks, browser, reqs, txs>>

\* state: "live", or "due" for a rotation, from expires_at and
\* last_rotated_at; "grace" once superseded, "over" when that has run out;
\* "revoked" whatever its times.
NoRow  == [state |-> "none", parent |-> None]
NewRow(parent) == [state |-> "live", parent |-> parent]

Init ==
    /\ role = [u \in Users |-> "super_admin"] /\ active = [u \in Users |-> TRUE] /\ password = 0
    /\ session = [s \in Sessions |-> NoRow]
    /\ link = [l \in Links |-> "none"]
    /\ userLock = [u \in Users |-> None] /\ rowLock = [s \in Sessions |-> None]
    /\ linkLock = [l \in Links |-> None]
    /\ cookie = None /\ lost = FALSE
    /\ pc = [r \in Requests |-> "idle"]
    /\ seen = [r \in Requests |-> None] /\ next = [r \in Requests |-> None]
    /\ tpc = [t \in Txs |-> "idle"] /\ kind = [t \in Txs |-> "none"]
    /\ target = [t \in Txs |-> None] /\ todo = [t \in Txs |-> {}]
    /\ count = [t \in Txs |-> 0] /\ rows = [t \in Txs |-> {}]

Valid(s) == session[s].state \in {"live", "due", "grace"}
Fresh == {s \in Sessions : session[s] = NoRow /\ \A r \in Requests : next[r] # s}

\* An uncommitted insert of a session holds KEY SHARE on the user.
KeyShared == \E r \in Requests : pc[r] = "inserted"

Busy == Cardinality({r \in Requests : pc[r] # "idle"}) + Cardinality({t \in Txs : tpc[t] \notin {"idle", "done"}})
Admits == Busy < MaxBusy

-----------------------------------------------------------------------------
(* Requests.                                                               *)

Go(r, step)  == pc' = [pc EXCEPT ![r] = step]
Idle(r) == Go(r, "idle") /\ seen' = [seen EXCEPT ![r] = None] /\ next' = [next EXCEPT ![r] = None]

StillLocked(h) == rowLock                                          \* a fault

Unlocked(h) == [s \in Sessions |-> IF rowLock[s] = h THEN None ELSE rowLock[s]]

\* Reads the session and the user; only a due session in a response that can
\* carry a cookie leads to anything.
getAdminUser(r) ==
    /\ pc[r] = "idle" /\ Admits /\ cookie # None
    /\ session[cookie].state = "due" /\ active[Me]
    /\ Go(r, "due") /\ seen' = [seen EXCEPT ![r] = cookie]
    /\ UNCHANGED <<next, users, session, link, locks, browser, txs>>

NotRevoked(s) == session[s].state \notin {"none", "revoked"}         \* a fault

\* The compare-and-set of the claim.
StillDue(s) == session[s].state = "due"

ClaimUpdate(r) ==
    LET s == seen[r] IN
    /\ pc[r] = "due" /\ rowLock[s] = None
    /\ IF StillDue(s)
       THEN /\ rowLock' = [rowLock EXCEPT ![s] = r] /\ Go(r, "updated") /\ UNCHANGED <<seen, next>>
       ELSE Idle(r) /\ UNCHANGED rowLock
    /\ UNCHANGED <<users, session, link, userLock, linkLock, browser, txs>>

NoForeignKey == TRUE                                               \* a fault

\* The foreign key of an inserted session waits for a FOR UPDATE lock.
UserFree == userLock[Me] = None

ClaimInsert(r) ==
    /\ pc[r] = "updated" /\ UserFree
    /\ \E s \in Fresh : next' = [next EXCEPT ![r] = s]
    /\ Go(r, "inserted")
    /\ UNCHANGED <<seen, users, session, link, locks, browser, txs>>

ClaimCommit(r) ==
    /\ pc[r] = "inserted"
    /\ session' = [session EXCEPT
          ![seen[r]].state = "grace", ![next[r]] = NewRow(seen[r])]
    /\ rowLock' = Unlocked(r) /\ Go(r, "reply")
    /\ UNCHANGED <<seen, next, users, link, userLock, linkLock, browser, txs>>

\* A statement throws (a deadlock's victim among others): an open claim is
\* rolled back, the first statement of a logout stays.
StatementFails(r) ==
    /\ pc[r] \in {"updated", "inserted", "login", "logout"}
    /\ rowLock' = Unlocked(r) /\ Idle(r)
    /\ UNCHANGED <<users, session, link, userLock, linkLock, browser, txs>>

Forgotten(old, new) == [session EXCEPT ![new] = NoRow]             \* a fault

\* The cookie cannot be written: delete the new row, give the old its times back.
Reverted(old, new) ==
    [session EXCEPT ![new] = NoRow,
                    ![old].state = IF @ \in {"grace", "over"} THEN "due" ELSE @]

revertClaim(r) ==
    /\ pc[r] = "reply" /\ seen[r] # None /\ rowLock[seen[r]] = None /\ rowLock[next[r]] = None
    /\ session' = Reverted(seen[r], next[r]) /\ Idle(r)
    /\ UNCHANGED <<users, link, locks, browser, txs>>

\* The revert fails, the worker dies, or the response is lost on its way.
LoseCookie(r) ==
    /\ pc[r] = "reply" /\ next[r] # None
    /\ lost' = TRUE /\ Idle(r)
    /\ UNCHANGED <<cookie, users, session, link, locks, txs>>

\* setSessionCookie: the response with the new cookie, or with none after a
\* logout, reaches the browser.
Arrive(r) ==
    /\ pc[r] = "reply" /\ cookie' = next[r] /\ Idle(r)
    /\ UNCHANGED <<lost, users, session, link, locks, txs>>

\* app/api/auth/login: the password is checked, then the session inserted.
Login(r) ==
    /\ pc[r] = "idle" /\ Admits /\ cookie = None /\ active[Me] /\ Go(r, "login")
    /\ UNCHANGED <<seen, next, users, session, link, locks, browser, txs>>

createAdminSession(r) ==
    /\ pc[r] = "login" /\ UserFree
    /\ \E s \in Fresh : /\ session' = [session EXCEPT ![s] = NewRow(None)]
                        /\ next' = [next EXCEPT ![r] = s]
    /\ Go(r, "reply")
    /\ UNCHANGED <<seen, users, link, locks, browser, txs>>

Revoke(S) == [s \in Sessions |-> IF s \in S THEN [session[s] EXCEPT !.state = "revoked"] ELSE session[s]]

\* Logout: the presented row, then the rows a rotation has just superseded.
Logout(r) ==
    /\ pc[r] = "idle" /\ Admits /\ cookie # None /\ rowLock[cookie] = None
    /\ session' = IF session[cookie] = NoRow THEN session ELSE Revoke({cookie})
    /\ Go(r, IF session[cookie] = NoRow THEN "reply" ELSE "logout")
    /\ UNCHANGED <<seen, next, users, link, locks, browser, txs>>

RevokeSuperseded(r) ==
    LET S == {s \in Sessions : session[s].state = "grace"} IN
    /\ pc[r] = "logout" /\ \A s \in S : rowLock[s] = None
    /\ session' = Revoke(S) /\ Go(r, "reply")
    /\ UNCHANGED <<seen, next, users, link, locks, browser, txs>>

-----------------------------------------------------------------------------
(* Time.                                                                   *)

\* Thirty minutes after its last rotation.
BecomesDue(s) ==
    /\ session[s].state = "live"
    /\ session' = [session EXCEPT ![s].state = "due"]
    /\ UNCHANGED <<users, link, locks, browser, reqs, txs>>

\* Two minutes after the rotation: a response that carries the successor has
\* arrived or is lost by then.
GraceEnds(s) ==
    /\ session[s].state = "grace"
    /\ \A r \in Requests : pc[r] = "reply" => seen[r] # s
    /\ session' = [session EXCEPT ![s].state = "over"]
    /\ UNCHANGED <<users, link, locks, browser, reqs, txs>>

-----------------------------------------------------------------------------
(* Transactions on users.                                                  *)

Step(t, step) == tpc' = [tpc EXCEPT ![t] = step]

Release(t) ==
    /\ userLock' = [u \in Users |-> IF userLock[u] = t THEN None ELSE userLock[u]]
    /\ linkLock' = [l \in Links |-> IF linkLock[l] = t THEN None ELSE linkLock[l]]
    /\ Step(t, "done") /\ kind' = [kind EXCEPT ![t] = "none"]
    /\ target' = [target EXCEPT ![t] = None] /\ todo' = [todo EXCEPT ![t] = {}]
    /\ count' = [count EXCEPT ![t] = 0] /\ rows' = [rows EXCEPT ![t] = {}]

IsSuper(u) == role[u] = "super_admin" /\ active[u]

Begin(t, what, u) ==
    /\ tpc[t] = "idle" /\ Admits /\ kind' = [kind EXCEPT ![t] = what]
    /\ target' = [target EXCEPT ![t] = u]
    /\ todo' = [todo EXCEPT ![t] = {v \in Users : IsSuper(v)}]
    /\ Step(t, "count")
    /\ UNCHANGED <<count, rows, users, session, link, locks, browser, reqs>>

\* A password change locks the user's row too, but not against KEY SHARE.
ChangingPassword(t) == kind[t] = "reset" /\ tpc[t] \in {"update", "revoke"}

CanLock(t, u) ==
    /\ userLock[u] \in {None, t}
    /\ u = Me => ~KeyShared /\ \A v \in Txs : ~ChangingPassword(v)

ReturnedAnyway(u) == TRUE                                          \* a fault

Returned(u) == IsSuper(u)

\* SELECT ... WHERE super_admin AND active ORDER BY id FOR UPDATE, row by row;
\* a row that no longer qualifies once it is locked is not returned.
countActiveSuperAdminsTx(t) ==
    /\ tpc[t] = "count" /\ todo[t] # {}
    /\ LET u == Min(todo[t]) IN
          /\ CanLock(t, u) /\ userLock' = [userLock EXCEPT ![u] = t]
          /\ todo' = [todo EXCEPT ![t] = @ \ {u}]
          /\ count' = [count EXCEPT ![t] = IF Returned(u) THEN @ + 1 ELSE @]
    /\ UNCHANGED <<tpc, kind, target, rows, users, session, link, rowLock, linkLock,
                   browser, reqs>>

canRemovePrivileged(t) == count[t] > 1

LosesRights(t) ==
    \/ kind[t] = "deactivate"
    \/ kind[t] = "demote" /\ role[target[t]] = "super_admin"

\* The target is locked and judged; refused, or its update is prepared.
LockTarget(t) ==
    LET u == target[t] IN
    /\ tpc[t] = "count" /\ todo[t] = {} /\ CanLock(t, u)
    /\ IF IsSuper(u) /\ LosesRights(t) /\ ~canRemovePrivileged(t)
       THEN Release(t)
       ELSE /\ userLock' = [userLock EXCEPT ![u] = t]
            /\ Step(t, IF LosesRights(t) THEN "update" ELSE "commit")
            /\ UNCHANGED <<kind, target, todo, count, rows, linkLock>>
    /\ UNCHANGED <<users, session, link, rowLock, browser, reqs>>

\* The page of a reset link has found the link unused and its admin active.
BeginReset(t, l) ==
    /\ tpc[t] = "idle" /\ Admits /\ link[l] = "live" /\ active[Me]
    /\ kind' = [kind EXCEPT ![t] = "reset"] /\ target' = [target EXCEPT ![t] = l]
    /\ Step(t, "link")
    /\ UNCHANGED <<todo, count, rows, users, session, link, locks, browser, reqs>>

\* UPDATE ... SET used_at WHERE used_at IS NULL, once the row is free.
Outstanding(l) == link[l] = "live"

ConsumeLink(t) ==
    LET l == target[t] IN
    /\ tpc[t] = "link" /\ linkLock[l] = None
    /\ IF Outstanding(l)
       THEN /\ linkLock' = [linkLock EXCEPT ![l] = t] /\ Step(t, "password")
            /\ UNCHANGED <<kind, target, todo, count, rows, userLock>>
       ELSE Release(t)
    /\ UNCHANGED <<users, session, link, rowLock, browser, reqs>>

UpdatePassword(t) ==
    /\ tpc[t] = "password" /\ userLock[Me] = None /\ \A v \in Txs : ~ChangingPassword(v)
    /\ Step(t, "update")
    /\ UNCHANGED <<kind, target, todo, count, rows, users, session, link, locks, browser, reqs>>

\* UPDATE admin_sessions SET revoked_at ... : the rows of the statement's
\* start, each waited for and looked at again.
PickSessions(t) ==
    /\ tpc[t] = "update" /\ Step(t, "revoke")
    /\ rows' = [rows EXCEPT ![t] =
                   IF kind[t] = "reset" \/ target[t] = Me
                   THEN {s \in Sessions : session[s].state \notin {"none", "revoked"}}
                   ELSE {}]
    /\ UNCHANGED <<kind, target, todo, count, users, session, link, locks, browser, reqs>>

\* It waits until no request has one of them locked; those it would have
\* locked before it met a locked one are left free here, which only adds
\* behaviours.
SessionsFree(t) == \A s \in rows[t] : rowLock[s] = None

Commit(t) ==
    /\ \/ tpc[t] = "commit"
       \/ tpc[t] = "revoke" /\ SessionsFree(t)
    /\ LET u == target[t] IN
          CASE kind[t] = "reset" ->
                  /\ password' = password + 1 /\ link' = [link EXCEPT ![u] = "used"]
                  /\ UNCHANGED <<role, active>>
            [] kind[t] \in {"deactivate", "reactivate"} ->
                  /\ active' = [active EXCEPT ![u] = kind[t] = "reactivate"]
                  /\ UNCHANGED <<role, password, link>>
            [] OTHER ->
                  /\ role' = [role EXCEPT ![u] = IF kind[t] = "demote" THEN "staff" ELSE "super_admin"]
                  /\ UNCHANGED <<active, password, link>>
    /\ session' = Revoke({s \in rows[t] : session[s].state # "none"})
    /\ Release(t)
    /\ UNCHANGED <<rowLock, browser, reqs>>

\* A statement fails, a deadlock's victim among others: all is rolled back.
Rollback(t) ==
    /\ tpc[t] \notin {"idle", "done"} /\ Release(t)
    /\ UNCHANGED <<users, session, link, rowLock, browser, reqs>>

-----------------------------------------------------------------------------
(* requestPasswordReset: two statements, no transaction.                   *)

RetireLinks(l) ==
    LET live == {k \in Links : link[k] = "live"} IN
    /\ link[l] = "none" /\ active[Me] /\ \A k \in live : linkLock[k] = None
    /\ link' = [k \in Links |-> CASE k \in live -> "used" [] k = l -> "asked" [] OTHER -> link[k]]
    /\ UNCHANGED <<users, session, locks, browser, reqs, txs>>

InsertLink(l) ==
    /\ link[l] = "asked" /\ link' = [link EXCEPT ![l] = "live"]
    /\ UNCHANGED <<users, session, locks, browser, reqs, txs>>

-----------------------------------------------------------------------------
rotateSessionIfDue(r) ==
    \/ ClaimUpdate(r) \/ ClaimInsert(r) \/ ClaimCommit(r) \/ revertClaim(r)

Request(r) ==
    \/ getAdminUser(r) \/ rotateSessionIfDue(r) \/ StatementFails(r) \/ LoseCookie(r) \/ Arrive(r)
    \/ Login(r) \/ createAdminSession(r) \/ Logout(r) \/ RevokeSuperseded(r)

deactivateAdminUser(t)  == \E u \in Users : active[u] /\ Begin(t, "deactivate", u)
reactivateAdminUser(t)  == \E u \in Users : ~active[u] /\ Begin(t, "reactivate", u)
changeAdminRole(t)      ==
    \E u \in Users : Begin(t, IF role[u] = "super_admin" THEN "demote" ELSE "promote", u)

consumePasswordResetToken(t) ==
    (\E l \in Links : BeginReset(t, l)) \/ ConsumeLink(t) \/ UpdatePassword(t)

Transaction(t) ==
    \/ deactivateAdminUser(t) \/ reactivateAdminUser(t) \/ changeAdminRole(t)
    \/ countActiveSuperAdminsTx(t) \/ LockTarget(t) \/ consumePasswordResetToken(t)
    \/ PickSessions(t) \/ Commit(t) \/ Rollback(t)

requestPasswordReset == \E l \in Links : RetireLinks(l) \/ InsertLink(l)

Next ==
    \/ \E r \in Requests : Request(r)
    \/ \E t \in Txs : Transaction(t)
    \/ requestPasswordReset
    \/ \E s \in Sessions : BecomesDue(s) \/ GraceEnds(s)

Spec == Init /\ [][Next]_vars

-----------------------------------------------------------------------------
(* Properties.                                                             *)

\* Type invariant; a lock is held by a transaction that is open, and every
\* change of the password used up a link of its own (admin-auth.ts:346).
TypeOK ==
    /\ role \in [Users -> {"super_admin", "staff"}] /\ active \in [Users -> BOOLEAN]
    /\ session \in [Sessions -> [state : {"none", "live", "due", "grace", "over", "revoked"},
                                 parent : Sessions \cup {None}]]
    /\ link \in [Links -> {"none", "asked", "live", "used"}]
    /\ password \in 0 .. Cardinality({l \in Links : link[l] = "used"})
    /\ userLock \in [Users -> Txs \cup {None}] /\ linkLock \in [Links -> Txs \cup {None}]
    /\ rowLock \in [Sessions -> Requests \cup {None}]
    /\ \A s \in Sessions : rowLock[s] # None => pc[rowLock[s]] \in {"updated", "inserted"}
    /\ \A u \in Users : userLock[u] # None => tpc[userLock[u]] \in {"count", "update", "revoke", "commit"}
    /\ cookie \in Sessions \cup {None}
    /\ pc \in [Requests -> {"idle", "due", "updated", "inserted", "reply", "login", "logout"}]
    /\ tpc \in [Txs -> {"idle", "done", "count", "link", "password", "update", "revoke", "commit"}]

\* Two administrators who remove each other, or themselves, at the same time
\* leave an active super_admin (admin-auth.ts:132-151, 187-194).
SuperAdminRemains == \E u \in Users : IsSuper(u)

\* However many requests rotate a session together, and whatever is put
\* back, it has one successor at most (admin-session-rotation.ts:16).
OneSuccessor ==
    \A s, t \in Sessions :
        session[s].parent # None /\ session[s].parent = session[t].parent => s = t

\* Unless a Set-Cookie is lost, the session the browser holds works until
\* somebody revokes it: no rotation, revert or late answer of a parallel
\* request logs the administrator out (admin-session-rotation.ts:12-19).
BrowserStaysIn ==
    ~lost /\ cookie # None => Valid(cookie) \/ session[cookie].state = "revoked"

\* When a deactivation or demotion has committed, no session opened before
\* is usable, also one that a rotation inserts meanwhile (admin-auth.ts:139, 179).
RightsEndSessions ==
    [][IsSuper(Me) /\ ~(IsSuper(Me))' => \A s \in Sessions : ~Valid(s)']_vars
=============================================================================
