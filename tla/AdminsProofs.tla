---------------------------- MODULE AdminsProofs ----------------------------
(***************************************************************************)
(* Proofs about Admins, for any administrators, sessions, requests,        *)
(* transactions and reset links.                                           *)
(***************************************************************************)
EXTENDS Admins, FiniteSetTheorems, WellFoundedInduction, TLAPS

-----------------------------------------------------------------------------
(* The parts of the invariant: sessions and requests.                      *)

\* What a request holds at each step; no two hand out the same session.
Steps ==
  /\ seen \in [Requests -> Sessions \cup {None}] /\ next \in [Requests -> Sessions \cup {None}]
  /\ \A r \in Requests :
       /\ pc[r] \in {"idle", "login", "logout"} => seen[r] = None /\ next[r] = None
       /\ pc[r] \in {"due", "updated"} => seen[r] # None /\ next[r] = None
       /\ pc[r] = "inserted" => seen[r] # None /\ next[r] # None
       /\ pc[r] = "reply" /\ seen[r] # None => next[r] # None
  /\ \A r, q \in Requests : r # q /\ next[r] = next[q] => next[r] = None

\* A row that is not there has no columns; who refers to a row finds it.
Present ==
  /\ \A s \in Sessions : session[s].state = "none" => session[s] = NoRow
  /\ cookie # None => session[cookie].state # "none"
  /\ \A r \in Requests : seen[r] # None => session[seen[r]].state # "none"

\* A claim under way keeps its row locked, and due.
Claims ==
  \A r \in Requests : pc[r] \in {"updated", "inserted"} =>
    rowLock[seen[r]] = r /\ session[seen[r]].state = "due"

\* What a request hands out, nobody has presented: it has not been rotated.
Unseen ==
  \A r \in Requests : next[r] # None =>
    /\ next[r] # cookie
    /\ \A q \in Requests : seen[q] # next[r]
    /\ \A s \in Sessions : session[s].parent # next[r]
    /\ pc[r] = "inserted" => session[next[r]] = NoRow
    /\ pc[r] = "reply" => /\ session[next[r]].state \in {"live", "due", "revoked"}
                          /\ session[next[r]].parent = seen[r]

\* A session with a successor is past its rotation.
Superseded ==
  \A s \in Sessions : session[s].parent # None =>
    session[session[s].parent].state \in {"grace", "over", "revoked"}

\* The browser's superseded session has its successor on the way.
OnTheWay ==
  ~lost /\ cookie # None =>
    /\ session[cookie].state # "over"
    /\ session[cookie].state = "grace" => \E r \in Requests : pc[r] = "reply" /\ seen[r] = cookie

(* The parts of the invariant: transactions.                               *)

OnUsers == {"deactivate", "reactivate", "demote", "promote"}

\* What a transaction is at each step.
Plans ==
  /\ kind \in [Txs -> {"none", "reset"} \cup OnUsers]
  /\ target \in [Txs -> Users \cup Links \cup {None}]
  /\ todo \in [Txs -> SUBSET Users] /\ count \in [Txs -> Nat] /\ rows \in [Txs -> SUBSET Sessions]
  /\ \A t \in Txs :
       /\ tpc[t] \in {"link", "password"} => kind[t] = "reset"
       /\ tpc[t] = "count" => kind[t] \in OnUsers
       /\ tpc[t] = "commit" => kind[t] \in OnUsers \ {"deactivate"}
       /\ tpc[t] \in {"update", "revoke"} => kind[t] \in {"deactivate", "demote", "reset"}
       /\ kind[t] = "reset" => target[t] \in Links
       /\ kind[t] \in OnUsers => target[t] \in Users
       /\ tpc[t] # "revoke" => rows[t] = {}

\* Whoever changes an administrator has the row locked; an insert of a
\* session of Me and such a lock exclude each other.
Held ==
  /\ \A t \in Txs : tpc[t] \in {"update", "revoke", "commit"} /\ kind[t] # "reset" =>
       userLock[target[t]] = t
  /\ userLock[Me] # None => ~KeyShared

Mine(t, u) == userLock[u] = t /\ IsSuper(u) /\ u \notin todo[t]

\* What was counted is locked, so it is still so.
Counted ==
  \A t \in Txs :
    /\ count[t] >= 1 => \E u \in Users : Mine(t, u)
    /\ count[t] >= 2 => \E u, v \in Users : u # v /\ Mine(t, u) /\ Mine(t, v)

\* Who may still take rights away has counted another super_admin.
Judged ==
  \A t \in Txs :
    /\ tpc[t] \in {"update", "revoke"} /\ kind[t] # "reset" /\ IsSuper(target[t]) => count[t] >= 2
    /\ tpc[t] = "commit" /\ kind[t] = "demote" => ~IsSuper(target[t])

\* A reset link is used up by one transaction.
OneUse ==
  \A t \in Txs : kind[t] = "reset" /\ tpc[t] \in {"password", "update", "revoke"} =>
    linkLock[target[t]] = t /\ link[target[t]] = "live"

Usable(s) == session[s].state \notin {"none", "revoked"}

\* No usable session of Me is missing among those to be revoked.
Complete ==
  \A t \in Txs : tpc[t] = "revoke" /\ kind[t] # "reset" /\ target[t] = Me =>
    \A s \in Sessions : Usable(s) => s \in rows[t]

SessionsInv == Steps /\ Present /\ Claims /\ Unseen /\ Superseded /\ OneSuccessor /\ OnTheWay
RightsInv   == Plans /\ Held /\ Counted /\ Judged /\ SuperAdminRemains /\ OneUse /\ Complete

IInv == TypeOK /\ SessionsInv /\ RightsInv

-----------------------------------------------------------------------------
(* Types, and what the steps do to the rows.                               *)

LEMMA NextCases ==
  ASSUME Next
  PROVE  \/ \E r \in Requests :
              \/ getAdminUser(r) \/ ClaimUpdate(r) \/ ClaimInsert(r) \/ ClaimCommit(r) \/ revertClaim(r)
              \/ StatementFails(r) \/ LoseCookie(r) \/ Arrive(r)
              \/ Login(r) \/ createAdminSession(r) \/ Logout(r) \/ RevokeSuperseded(r)
         \/ \E t \in Txs :
              \/ deactivateAdminUser(t) \/ reactivateAdminUser(t) \/ changeAdminRole(t)
              \/ countActiveSuperAdminsTx(t) \/ LockTarget(t)
              \/ (\E l \in Links : BeginReset(t, l)) \/ ConsumeLink(t) \/ UpdatePassword(t)
              \/ PickSessions(t) \/ Commit(t) \/ Rollback(t)
         \/ \E l \in Links : RetireLinks(l) \/ InsertLink(l)
         \/ \E s \in Sessions : BecomesDue(s) \/ GraceEnds(s)
BY DEF Next, Request, rotateSessionIfDue, Transaction, consumePasswordResetToken, requestPasswordReset

States  == {"none", "live", "due", "grace", "over", "revoked"}
Row     == [state : States, parent : Sessions \cup {None}]
Places  == {"idle", "due", "updated", "inserted", "reply", "login", "logout"}
TPlaces == {"idle", "done", "count", "link", "password", "update", "revoke", "commit"}
Used    == {l \in Links : link[l] = "used"}

LEMMA TypeParts ==
  TypeOK <=>
    /\ role \in [Users -> {"super_admin", "staff"}] /\ active \in [Users -> BOOLEAN]
    /\ session \in [Sessions -> Row]
    /\ link \in [Links -> {"none", "asked", "live", "used"}]
    /\ password \in 0 .. Cardinality(Used)
    /\ userLock \in [Users -> Txs \cup {None}] /\ linkLock \in [Links -> Txs \cup {None}]
    /\ rowLock \in [Sessions -> Requests \cup {None}]
    /\ \A s \in Sessions : rowLock[s] # None => pc[rowLock[s]] \in {"updated", "inserted"}
    /\ \A u \in Users : userLock[u] # None => tpc[userLock[u]] \in {"count", "update", "revoke", "commit"}
    /\ cookie \in Sessions \cup {None}
    /\ pc \in [Requests -> Places] /\ tpc \in [Txs -> TPlaces]
BY DEF TypeOK, States, Row, Places, TPlaces, Used

SessionTypes ==
  /\ session \in [Sessions -> Row] /\ rowLock \in [Sessions -> Requests \cup {None}]
  /\ \A s \in Sessions : rowLock[s] # None => pc[rowLock[s]] \in {"updated", "inserted"}
  /\ cookie \in Sessions \cup {None} /\ pc \in [Requests -> Places]

RightsTypes ==
  /\ role \in [Users -> {"super_admin", "staff"}] /\ active \in [Users -> BOOLEAN]
  /\ link \in [Links -> {"none", "asked", "live", "used"}]
  /\ password \in 0 .. Cardinality(Used)
  /\ userLock \in [Users -> Txs \cup {None}] /\ linkLock \in [Links -> Txs \cup {None}]
  /\ \A u \in Users : userLock[u] # None => tpc[userLock[u]] \in {"count", "update", "revoke", "commit"}
  /\ tpc \in [Txs -> TPlaces]

LEMMA TypeSides == TypeOK <=> SessionTypes /\ RightsTypes
BY DEF TypeOK, SessionTypes, RightsTypes, States, Row, Places, TPlaces, Used

LEMMA Names ==
  None \notin Sessions /\ None \notin Requests /\ None \notin Txs /\ None \notin Links
BY AdminsAssumption

\* A row set to another state keeps its parent.
LEMMA Edited ==
  ASSUME TypeOK, NEW s \in Sessions, NEW state \in States
  PROVE  /\ [session[s] EXCEPT !.state = state] = [state |-> state, parent |-> session[s].parent]
         /\ [session[s] EXCEPT !.state = state] \in Row
<1>1. session[s] \in Row
  BY TypeParts
<1> QED
  BY <1>1 DEF Row

Becomes(s, state) == session' = [session EXCEPT ![s].state = state]

LEMMA SetState ==
  ASSUME TypeOK, NEW s \in Sessions, NEW state \in States, Becomes(s, state)
  PROVE  /\ session' \in [Sessions -> Row]
         /\ session'[s].state = state /\ session'[s].parent = session[s].parent
         /\ \A q \in Sessions \ {s} : session'[q] = session[q]
<1>1. session' = [session EXCEPT ![s] = [session[s] EXCEPT !.state = state]]
  BY DEF Becomes
<1>2. session' = [session EXCEPT ![s] = [state |-> state, parent |-> session[s].parent]]
  BY <1>1, Edited
<1>3. [state |-> state, parent |-> session[s].parent] \in Row
  BY Edited
<1> QED
  BY <1>2, <1>3, TypeParts

LEMMA Revokes ==
  ASSUME TypeOK, NEW S \in SUBSET Sessions, session' = Revoke(S)
  PROVE  /\ session' \in [Sessions -> Row]
         /\ \A s \in Sessions : session'[s].parent = session[s].parent
         /\ \A s \in S : session'[s].state = "revoked"
         /\ \A s \in Sessions \ S : session'[s] = session[s]
<1>1. ASSUME NEW s \in Sessions
      PROVE  /\ session'[s] \in Row /\ session'[s].parent = session[s].parent
             /\ s \in S => session'[s].state = "revoked"
             /\ s \notin S => session'[s] = session[s]
  <2>1. session'[s] = IF s \in S THEN [session[s] EXCEPT !.state = "revoked"] ELSE session[s]
    BY DEF Revoke
  <2>2. [session[s] EXCEPT !.state = "revoked"] = [state |-> "revoked", parent |-> session[s].parent]
        /\ [session[s] EXCEPT !.state = "revoked"] \in Row
    BY Edited DEF States
  <2>3. session[s] \in Row
    BY TypeParts
  <2> QED
    BY <2>1, <2>2, <2>3
<1> QED
  BY <1>1 DEF Revoke

LEMMA NewRows ==
  \A p \in Sessions \cup {None} :
    /\ NewRow(p) \in Row /\ NewRow(p).state = "live" /\ NewRow(p).parent = p
    /\ NoRow \in Row /\ NoRow.state = "none" /\ NoRow.parent = None
BY DEF NewRow, NoRow, Row, States

LEMMA ClaimCommits ==
  ASSUME TypeOK, Steps, Claims, Unseen, NEW r \in Requests, ClaimCommit(r)
  PROVE  /\ seen[r] \in Sessions /\ next[r] \in Sessions /\ seen[r] # next[r]
         /\ session[seen[r]].state = "due" /\ session[next[r]] = NoRow
         /\ session' \in [Sessions -> Row]
         /\ session'[seen[r]].state = "grace" /\ session'[seen[r]].parent = session[seen[r]].parent
         /\ session'[next[r]].state = "live" /\ session'[next[r]].parent = seen[r]
         /\ \A q \in Sessions \ {seen[r], next[r]} : session'[q] = session[q]
<1>1. pc[r] = "inserted" /\ seen[r] \in Sessions /\ next[r] \in Sessions
  BY DEF ClaimCommit, Steps
<1>2. session[seen[r]].state = "due" /\ session[next[r]] = NoRow /\ seen[r] # next[r]
  BY <1>1, Names DEF Claims, Unseen
<1>3. session' = [session EXCEPT ![seen[r]] = [session[seen[r]] EXCEPT !.state = "grace"],
                                 ![next[r]] = NewRow(seen[r])]
  BY DEF ClaimCommit
<1>4. session' = [session EXCEPT ![seen[r]] = [state |-> "grace", parent |-> session[seen[r]].parent],
                                 ![next[r]] = NewRow(seen[r])]
  BY <1>1, <1>3, Edited DEF States
<1>5. [state |-> "grace", parent |-> session[seen[r]].parent] \in Row
  BY <1>1, Edited DEF States
<1> QED
  BY <1>1, <1>2, <1>4, <1>5, NewRows, TypeParts

LEMMA RevertRestores ==
  ASSUME TypeOK, Steps, Unseen, NEW r \in Requests, revertClaim(r)
  PROVE  /\ seen[r] \in Sessions /\ next[r] \in Sessions /\ seen[r] # next[r]
         /\ session' \in [Sessions -> Row]
         /\ session'[next[r]] = NoRow
         /\ session'[seen[r]].parent = session[seen[r]].parent
         /\ session'[seen[r]].state = IF session[seen[r]].state \in {"grace", "over"}
                                      THEN "due" ELSE session[seen[r]].state
         /\ \A q \in Sessions \ {seen[r], next[r]} : session'[q] = session[q]
<1>1. seen[r] \in Sessions /\ next[r] \in Sessions /\ seen[r] # next[r]
  BY Names DEF revertClaim, Steps, Unseen
<1> DEFINE back == IF session[seen[r]].state \in {"grace", "over"} THEN "due" ELSE session[seen[r]].state
<1>2. session' = [session EXCEPT ![next[r]] = NoRow,
                                 ![seen[r]] = [session[seen[r]] EXCEPT !.state = back]]
  BY <1>1, TypeParts DEF revertClaim, Reverted
<1>3. back \in States
  BY <1>1, TypeParts DEF Row, States
<1>4. session' = [session EXCEPT ![next[r]] = NoRow,
                                 ![seen[r]] = [state |-> back, parent |-> session[seen[r]].parent]]
  BY <1>1, <1>2, <1>3, Edited
<1>5. [state |-> back, parent |-> session[seen[r]].parent] \in Row
  BY <1>1, <1>3, Edited
<1> HIDE DEF back
<1>6. /\ session' \in [Sessions -> Row]
      /\ session'[next[r]] = NoRow
      /\ session'[seen[r]].parent = session[seen[r]].parent
      /\ session'[seen[r]].state = back
      /\ \A q \in Sessions \ {seen[r], next[r]} : session'[q] = session[q]
  BY <1>1, <1>4, <1>5, NewRows, TypeParts
<1> QED
  BY <1>1, <1>6 DEF back

LEMMA Goes ==
  ASSUME TypeOK, NEW r \in Requests, NEW step \in Places, Go(r, step)
  PROVE  /\ pc' \in [Requests -> Places] /\ pc'[r] = step
         /\ \A q \in Requests \ {r} : pc'[q] = pc[q]
BY TypeParts DEF Go

LEMMA GoesIdle ==
  ASSUME TypeOK, Steps, NEW r \in Requests, Idle(r)
  PROVE  /\ pc' \in [Requests -> Places] /\ pc'[r] = "idle"
         /\ seen' \in [Requests -> Sessions \cup {None}] /\ seen'[r] = None
         /\ next' \in [Requests -> Sessions \cup {None}] /\ next'[r] = None
         /\ \A q \in Requests \ {r} : pc'[q] = pc[q] /\ seen'[q] = seen[q] /\ next'[q] = next[q]
BY Goes DEF Idle, Steps, Places

\* A request that gives up holds no row.
LEMMA Unlocks ==
  ASSUME TypeOK, NEW r \in Requests, rowLock' = Unlocked(r)
  PROVE  /\ rowLock' \in [Sessions -> Requests \cup {None}]
         /\ \A s \in Sessions : rowLock'[s] # None => rowLock'[s] = rowLock[s] /\ rowLock[s] # r
         /\ \A s \in Sessions : rowLock[s] # r => rowLock'[s] = rowLock[s]
BY TypeParts, Names DEF Unlocked

-----------------------------------------------------------------------------
(* Each step keeps what holds of sessions and requests.                    *)

\* Sessions are revoked, rows under a claim excepted; a logout may go on.
LEMMA RevokingKeeps ==
  ASSUME TypeOK, SessionsInv, NEW S \in SUBSET Sessions, session' = Revoke(S),
         \A s \in S : rowLock[s] = None /\ session[s].state # "none",
         UNCHANGED <<seen, next, rowLock, browser>>, pc' \in [Requests -> Places],
         \A r \in Requests : \/ pc'[r] = pc[r]
                             \/ pc[r] \in {"idle", "logout"} /\ pc'[r] \in {"reply", "logout"}
  PROVE  SessionTypes' /\ SessionsInv'
<1> USE DEF SessionsInv
<1>0. UNCHANGED <<cookie, lost>>
  BY DEF browser
<1>1. /\ session' \in [Sessions -> Row]
      /\ \A s \in Sessions : session'[s].parent = session[s].parent
      /\ \A s \in S : session'[s].state = "revoked"
      /\ \A s \in Sessions \ S : session'[s] = session[s]
  BY Revokes
<1>2. \A s \in Sessions : session[s] = NoRow => session'[s] = NoRow
  BY <1>1, NewRows
<1>3. \A s \in Sessions : session'[s].state # session[s].state =>
        s \in S /\ session'[s].state = "revoked" /\ session[s].state # "none"
  BY <1>1
<1>4. SessionTypes'
  BY <1>0, <1>1, TypeParts DEF SessionTypes
<1>5. Steps'
  BY DEF Steps
<1>6. Present'
  <2>1. \A s \in Sessions : session[s].state # "none" => session'[s].state # "none"
    BY <1>1
  <2>2. ASSUME NEW s \in Sessions, session'[s].state = "none" PROVE session'[s] = NoRow
    <3>1. s \notin S /\ session'[s] = session[s]
      BY <1>1, <2>2
    <3> QED
      BY <2>2, <3>1 DEF Present
  <2>3. cookie' # None => session'[cookie'].state # "none"
    BY <1>0, <2>1, TypeParts DEF Present
  <2>4. \A r \in Requests : seen'[r] # None => session'[seen'[r]].state # "none"
    BY <2>1 DEF Present, Steps
  <2> QED
    BY <2>2, <2>3, <2>4, NewRows DEF Present, NoRow
<1>7. Claims'
  BY <1>1, <1>3, Names, TypeParts DEF Claims, Steps
<1>8. Unseen'
  BY <1>0, <1>1, <1>2, <1>3, TypeParts DEF Unseen, Steps
<1>9. Superseded' /\ OneSuccessor'
  BY <1>1, <1>3, TypeParts DEF Superseded, OneSuccessor, Row
<1>10. OnTheWay'
  BY <1>0, <1>1, <1>3, TypeParts DEF OnTheWay, Steps
<1> QED
  BY <1>4, <1>5, <1>6, <1>7, <1>8, <1>9, <1>10

LEMMA ElsewhereKeeps ==
  ASSUME SessionTypes, SessionsInv, UNCHANGED <<session, rowLock, browser, reqs>>
  PROVE  SessionTypes' /\ SessionsInv'
<1>1. UNCHANGED <<cookie, lost, pc, seen, next>>
  BY DEF browser, reqs
<1> QED
  BY <1>1 DEF SessionTypes, SessionsInv, Steps, Present, Claims, Unseen, Superseded, OneSuccessor, OnTheWay

\* The session that a request presents is the browser's; nobody hands it out.
LEMMA GetAdminUserKeeps ==
  ASSUME TypeOK, SessionsInv, NEW r \in Requests, getAdminUser(r)
  PROVE  SessionTypes' /\ SessionsInv'
<1> USE DEF SessionsInv
<1>1. /\ UNCHANGED <<cookie, lost, session, rowLock, next>> /\ cookie \in Sessions
      /\ pc[r] = "idle" /\ session[cookie].state = "due"
  BY TypeParts DEF getAdminUser, browser, locks
<1>2. /\ pc' \in [Requests -> Places] /\ pc'[r] = "due"
      /\ \A q \in Requests \ {r} : pc'[q] = pc[q]
  BY Goes DEF getAdminUser, Places
<1>3. /\ seen' \in [Requests -> Sessions \cup {None}] /\ seen'[r] = cookie
      /\ \A q \in Requests \ {r} : seen'[q] = seen[q]
  BY <1>1 DEF getAdminUser, Steps
<1>4. SessionTypes'
  BY <1>1, <1>2, TypeParts DEF SessionTypes
<1>5. Steps'
  BY <1>1, <1>2, <1>3, Names DEF Steps
<1>6. Present'
  BY <1>1, <1>3 DEF Present, NoRow
<1>7. Claims'
  BY <1>1, <1>2, <1>3 DEF Claims
<1>8. Unseen'
  BY <1>1, <1>2, <1>3 DEF Unseen, NoRow, Steps
<1>9. Superseded' /\ OneSuccessor'
  BY <1>1 DEF Superseded, OneSuccessor
<1>10. OnTheWay'
  BY <1>1, <1>2, <1>3 DEF OnTheWay
<1> QED
  BY <1>4, <1>5, <1>6, <1>7, <1>8, <1>9, <1>10

\* A request gives up while the rows stay as they are.
LEMMA GivingUpKeeps ==
  ASSUME TypeOK, SessionsInv, NEW r \in Requests, Idle(r), rowLock' = Unlocked(r),
         pc[r] # "reply", UNCHANGED <<session, browser>>
  PROVE  SessionTypes' /\ SessionsInv'
<1> USE DEF SessionsInv
<1>1. UNCHANGED <<cookie, lost, session>>
  BY DEF browser
<1>2. /\ pc' \in [Requests -> Places] /\ pc'[r] = "idle"
      /\ seen' \in [Requests -> Sessions \cup {None}] /\ seen'[r] = None
      /\ next' \in [Requests -> Sessions \cup {None}] /\ next'[r] = None
      /\ \A q \in Requests \ {r} : pc'[q] = pc[q] /\ seen'[q] = seen[q] /\ next'[q] = next[q]
  BY GoesIdle
<1>3. /\ rowLock' \in [Sessions -> Requests \cup {None}]
      /\ \A s \in Sessions : rowLock'[s] # None => rowLock'[s] = rowLock[s] /\ rowLock[s] # r
      /\ \A s \in Sessions : rowLock[s] # r => rowLock'[s] = rowLock[s]
  BY Unlocks
<1>4. SessionTypes'
  BY <1>1, <1>2, <1>3, TypeParts DEF SessionTypes
<1>5. Steps'
  BY <1>2, Names DEF Steps
<1>6. Present'
  BY <1>1, <1>2 DEF Present, NoRow
<1>7. Claims'
  BY <1>1, <1>2, <1>3 DEF Claims, Steps
<1>8. Unseen'
  BY <1>1, <1>2 DEF Unseen, NoRow, Steps
<1>9. Superseded' /\ OneSuccessor'
  BY <1>1 DEF Superseded, OneSuccessor
<1>10. OnTheWay'
  BY <1>1, <1>2 DEF OnTheWay
<1> QED
  BY <1>4, <1>5, <1>6, <1>7, <1>8, <1>9, <1>10

\* Only one claim of a session gets past its compare-and-set.
LEMMA ClaimUpdateKeeps ==
  ASSUME TypeOK, SessionsInv, NEW r \in Requests, ClaimUpdate(r)
  PROVE  SessionTypes' /\ SessionsInv'
<1> USE DEF SessionsInv
<1>1. /\ UNCHANGED <<cookie, lost, session>> /\ UNCHANGED browser
      /\ pc[r] = "due" /\ seen[r] \in Sessions /\ rowLock[seen[r]] = None
  BY DEF ClaimUpdate, browser, Steps
<1>2. CASE ~StillDue(seen[r])
  <2>1. Idle(r) /\ rowLock' = rowLock
    BY <1>2 DEF ClaimUpdate
  <2>2. rowLock' = Unlocked(r)
    BY <1>1, <2>1, Names, TypeParts DEF Unlocked
  <2> QED
    BY <1>1, <2>1, <2>2, GivingUpKeeps
<1>3. CASE StillDue(seen[r])
  <2>1. UNCHANGED <<seen, next>> /\ session[seen[r]].state = "due"
    BY <1>3 DEF ClaimUpdate, StillDue
  <2>2. /\ pc' \in [Requests -> Places] /\ pc'[r] = "updated"
        /\ \A q \in Requests \ {r} : pc'[q] = pc[q]
    BY <1>3, Goes DEF ClaimUpdate, Places
  <2>3. /\ rowLock' \in [Sessions -> Requests \cup {None}] /\ rowLock'[seen[r]] = r
        /\ \A s \in Sessions \ {seen[r]} : rowLock'[s] = rowLock[s]
    BY <1>1, <1>3, TypeParts DEF ClaimUpdate
  <2>4. SessionTypes'
    BY <1>1, <2>2, <2>3, TypeParts DEF SessionTypes
  <2>5. Steps'
    BY <1>1, <2>1, <2>2 DEF Steps
  <2>6. Present'
    BY <1>1, <2>1 DEF Present, NoRow
  <2>7. Claims'
    BY <1>1, <2>1, <2>2, <2>3, Names DEF Claims, Steps
  <2>8. Unseen'
    BY <1>1, <2>1, <2>2 DEF Unseen, NoRow, Steps
  <2>9. Superseded' /\ OneSuccessor'
    BY <1>1 DEF Superseded, OneSuccessor
  <2>10. OnTheWay'
    BY <1>1, <2>1, <2>2 DEF OnTheWay
  <2> QED
    BY <2>4, <2>5, <2>6, <2>7, <2>8, <2>9, <2>10
<1> QED
  BY <1>2, <1>3

\* A fresh row is not the browser's, nobody presents it, none descends from it.
LEMMA FreshRow ==
  ASSUME TypeOK, SessionsInv, NEW s \in Fresh
  PROVE  /\ s \in Sessions /\ session[s] = NoRow /\ s # cookie /\ s # None
         /\ \A q \in Requests : next[q] # s /\ seen[q] # s
         /\ \A x \in Sessions : session[x].parent # s
<1>1. s \in Sessions /\ session[s] = NoRow /\ session[s].state = "none" /\ s # None
  BY NewRows, Names DEF Fresh
<1>2. s # cookie /\ \A q \in Requests : next[q] # s /\ seen[q] # s
  BY <1>1 DEF Fresh, SessionsInv, Present
<1>3. \A x \in Sessions : session[x].parent # s
  BY <1>1 DEF SessionsInv, Superseded
<1> QED
  BY <1>1, <1>2, <1>3

LEMMA ClaimInsertKeeps ==
  ASSUME TypeOK, SessionsInv, NEW r \in Requests, ClaimInsert(r)
  PROVE  SessionTypes' /\ SessionsInv'
<1> USE DEF SessionsInv
<1>1. UNCHANGED <<cookie, lost, session, rowLock, seen>> /\ pc[r] = "updated"
  BY DEF ClaimInsert, browser, locks
<1>2. PICK s \in Fresh : next' = [next EXCEPT ![r] = s]
  BY DEF ClaimInsert
<1>3. /\ s \in Sessions /\ session[s] = NoRow /\ s # cookie /\ s # None
      /\ \A q \in Requests : next[q] # s /\ seen[q] # s
      /\ \A x \in Sessions : session[x].parent # s
  BY FreshRow
<1>4. /\ pc' \in [Requests -> Places] /\ pc'[r] = "inserted"
      /\ \A q \in Requests \ {r} : pc'[q] = pc[q]
  BY Goes DEF ClaimInsert, Places
<1>5. /\ next' \in [Requests -> Sessions \cup {None}] /\ next'[r] = s
      /\ \A q \in Requests \ {r} : next'[q] = next[q]
  BY <1>2, <1>3 DEF Steps
<1>6. SessionTypes'
  BY <1>1, <1>4, TypeParts DEF SessionTypes
<1>7. Steps'
  BY <1>1, <1>3, <1>4, <1>5 DEF Steps
<1>8. Present'
  BY <1>1 DEF Present, NoRow
<1>9. Claims'
  BY <1>1, <1>4 DEF Claims
<1>10. Unseen'
  BY <1>1, <1>3, <1>4, <1>5 DEF Unseen, NoRow
<1>11. Superseded' /\ OneSuccessor'
  BY <1>1 DEF Superseded, OneSuccessor
<1>12. OnTheWay'
  BY <1>1, <1>4 DEF OnTheWay
<1> QED
  BY <1>6, <1>7, <1>8, <1>9, <1>10, <1>11, <1>12

\* The successor appears, its parent is past its rotation from now on.
LEMMA ClaimCommitKeeps ==
  ASSUME TypeOK, SessionsInv, NEW r \in Requests, ClaimCommit(r)
  PROVE  SessionTypes' /\ SessionsInv'
<1> USE DEF SessionsInv
<1>1. UNCHANGED <<cookie, lost, seen, next>> /\ pc[r] = "inserted" /\ rowLock[seen[r]] = r
  BY DEF ClaimCommit, browser, Claims
<1>2. /\ seen[r] \in Sessions /\ next[r] \in Sessions /\ seen[r] # next[r]
      /\ session[seen[r]].state = "due" /\ session[next[r]] = NoRow
      /\ session' \in [Sessions -> Row]
      /\ session'[seen[r]].state = "grace" /\ session'[seen[r]].parent = session[seen[r]].parent
      /\ session'[next[r]].state = "live" /\ session'[next[r]].parent = seen[r]
      /\ \A q \in Sessions \ {seen[r], next[r]} : session'[q] = session[q]
  BY ClaimCommits
<1>3. /\ pc' \in [Requests -> Places] /\ pc'[r] = "reply"
      /\ \A q \in Requests \ {r} : pc'[q] = pc[q]
  BY Goes DEF ClaimCommit, Places
<1>4. /\ rowLock' \in [Sessions -> Requests \cup {None}]
      /\ \A s \in Sessions : rowLock'[s] # None => rowLock'[s] = rowLock[s] /\ rowLock[s] # r
      /\ \A s \in Sessions : rowLock[s] # r => rowLock'[s] = rowLock[s]
  BY Unlocks DEF ClaimCommit
<1>5. \A q \in Requests \ {r} : seen[q] # next[r] /\ next[q] # seen[r]
  BY <1>2, Names DEF Unseen
<1>6. \A q \in Requests \ {r} : next[q] # None => next[q] # next[r] /\ session'[next[q]] = session[next[q]]
  BY <1>2, <1>5 DEF Steps
<1>7. SessionTypes'
  BY <1>1, <1>2, <1>3, <1>4, TypeParts DEF SessionTypes
<1>8. Steps'
  BY <1>1, <1>2, <1>3, Names DEF Steps
<1>9. Present'
  BY <1>1, <1>2, <1>5, Names, TypeParts DEF Present, NoRow, Steps, Unseen
<1>10. ASSUME NEW q \in Requests, pc'[q] \in {"updated", "inserted"}
       PROVE  rowLock'[seen[q]] = q /\ session'[seen[q]].state = "due"
  <2>1. q # r /\ seen[q] \in Sessions /\ rowLock[seen[q]] = q /\ session[seen[q]].state = "due"
    BY <1>3, <1>10, Names DEF Steps, Claims
  <2>2. seen[q] # seen[r] /\ seen[q] # next[r]
    BY <1>1, <1>5, <2>1
  <2> QED
    BY <1>2, <1>4, <2>1, <2>2
<1>11. Claims'
  BY <1>1, <1>10 DEF Claims
<1>12. \A s \in Sessions : session'[s].parent = session[s].parent \/ (s = next[r] /\ session'[s].parent = seen[r])
  BY <1>2
<1>13. ASSUME NEW q \in Requests, next[q] # None
       PROVE  /\ next[q] # cookie /\ \A p \in Requests : seen[p] # next[q]
              /\ \A s \in Sessions : session'[s].parent # next[q]
              /\ pc'[q] = "inserted" => session'[next[q]] = NoRow
              /\ pc'[q] = "reply" => /\ session'[next[q]].state \in {"live", "due", "revoked"}
                                     /\ session'[next[q]].parent = seen[q]
  <2>1. /\ next[q] # cookie /\ \A p \in Requests : seen[p] # next[q]
        /\ \A s \in Sessions : session[s].parent # next[q]
    BY <1>13 DEF Unseen
  <2>2. \A s \in Sessions : session'[s].parent # next[q]
    BY <1>12, <2>1
  <2>3. CASE q = r
    BY <1>2, <1>3, <2>1, <2>2, <2>3
  <2>4. CASE q # r
    BY <1>3, <1>6, <1>13, <2>1, <2>2, <2>4 DEF Unseen
  <2> QED
    BY <2>3, <2>4
<1>14. Unseen'
  BY <1>1, <1>13 DEF Unseen, NoRow
<1>15. \A s \in Sessions : session[s].parent # seen[r] /\ session[s].parent # next[r]
  BY <1>2, NewRows, Names DEF Superseded
<1>16. Superseded'
  BY <1>2, <1>12, <1>15, TypeParts DEF Superseded, Row
<1>17. OneSuccessor'
  BY <1>12, <1>15 DEF OneSuccessor
<1>18. next[r] # cookie
  BY <1>2, Names DEF Unseen
<1>19. OnTheWay'
  BY <1>1, <1>2, <1>3, <1>18, TypeParts DEF OnTheWay
<1> QED
  BY <1>7, <1>8, <1>9, <1>11, <1>14, <1>16, <1>17, <1>19

\* What is put back has no other successor, and nobody knows the one deleted.
LEMMA RevertClaimKeeps ==
  ASSUME TypeOK, SessionsInv, NEW r \in Requests, revertClaim(r)
  PROVE  SessionTypes' /\ SessionsInv'
<1> USE DEF SessionsInv
<1>1. /\ UNCHANGED <<cookie, lost, rowLock>> /\ pc[r] = "reply"
      /\ rowLock[seen[r]] = None /\ rowLock[next[r]] = None
  BY DEF revertClaim, browser, locks
<1>2. /\ seen[r] \in Sessions /\ next[r] \in Sessions /\ seen[r] # next[r]
      /\ session' \in [Sessions -> Row]
      /\ session'[next[r]] = NoRow
      /\ session'[seen[r]].parent = session[seen[r]].parent
      /\ session'[seen[r]].state = IF session[seen[r]].state \in {"grace", "over"}
                                   THEN "due" ELSE session[seen[r]].state
      /\ \A q \in Sessions \ {seen[r], next[r]} : session'[q] = session[q]
  BY RevertRestores
<1>3. /\ pc' \in [Requests -> Places] /\ pc'[r] = "idle"
      /\ seen' \in [Requests -> Sessions \cup {None}] /\ seen'[r] = None
      /\ next' \in [Requests -> Sessions \cup {None}] /\ next'[r] = None
      /\ \A q \in Requests \ {r} : pc'[q] = pc[q] /\ seen'[q] = seen[q] /\ next'[q] = next[q]
  BY GoesIdle DEF revertClaim
<1>4. /\ session[next[r]].parent = seen[r] /\ next[r] # cookie
      /\ \A q \in Requests : seen[q] # next[r] /\ next[q] # seen[r]
      /\ \A s \in Sessions : session[s].parent # next[r]
  BY <1>1, <1>2, Names DEF Unseen
<1>5. \A q \in Requests \ {r} : next[q] # None => next[q] # next[r] /\ session'[next[q]] = session[next[q]]
  BY <1>2, <1>4 DEF Steps
<1>6. SessionTypes'
  BY <1>1, <1>2, <1>3, TypeParts DEF SessionTypes
<1>7. Steps'
  BY <1>3, Names DEF Steps
<1>8. \A s \in Sessions \ {next[r]} : session[s].state # "none" => session'[s].state # "none"
  BY <1>2
<1>9. ASSUME NEW s \in Sessions, session'[s].state = "none" PROVE session'[s] = NoRow
  <2>1. CASE s = next[r]
    BY <1>2, <2>1
  <2>2. CASE s = seen[r]
    <3>1. session[s] = NoRow
      BY <1>2, <1>9, <2>2 DEF Present
    <3>2. FALSE
      BY <1>2, <2>2, <3>1, NewRows, Names DEF Present
    <3> QED
      BY <3>2
  <2>3. CASE s \notin {seen[r], next[r]}
    BY <1>2, <1>9, <2>3 DEF Present
  <2> QED
    BY <2>1, <2>2, <2>3
<1>10. Present'
  <2>1. cookie # None => session'[cookie].state # "none"
    BY <1>4, <1>8, TypeParts DEF Present
  <2>2. \A q \in Requests : seen'[q] # None => session'[seen'[q]].state # "none"
    BY <1>3, <1>4, <1>8 DEF Present, Steps
  <2> QED
    BY <1>1, <1>9, <2>1, <2>2 DEF Present, NoRow
<1>11. ASSUME NEW q \in Requests, pc'[q] \in {"updated", "inserted"}
       PROVE  rowLock[seen'[q]] = q /\ session'[seen'[q]].state = "due"
  <2>1. /\ q # r /\ seen'[q] = seen[q] /\ seen[q] \in Sessions /\ rowLock[seen[q]] = q
        /\ session[seen[q]].state = "due"
    BY <1>3, <1>11, Names DEF Steps, Claims
  <2>2. seen[q] # seen[r] /\ seen[q] # next[r]
    BY <1>1, <1>4, <2>1, Names
  <2> QED
    BY <1>2, <2>1, <2>2
<1>12. Claims'
  BY <1>1, <1>11 DEF Claims
<1>13. \A s \in Sessions : session'[s].parent = session[s].parent \/ (s = next[r] /\ session'[s].parent = None)
  BY <1>2, NewRows
<1>14. ASSUME NEW q \in Requests, next'[q] # None
       PROVE  /\ next'[q] # cookie /\ \A p \in Requests : seen'[p] # next'[q]
              /\ \A s \in Sessions : session'[s].parent # next'[q]
              /\ pc'[q] = "inserted" => session'[next'[q]] = NoRow
              /\ pc'[q] = "reply" => /\ session'[next'[q]].state \in {"live", "due", "revoked"}
                                     /\ session'[next'[q]].parent = seen'[q]
  <2>1. q # r /\ next'[q] = next[q] /\ pc'[q] = pc[q] /\ seen'[q] = seen[q]
    BY <1>3, <1>14
  <2>2. /\ next[q] # cookie /\ \A p \in Requests : seen[p] # next[q]
        /\ \A s \in Sessions : session[s].parent # next[q]
    BY <1>14, <2>1 DEF Unseen
  <2>3. \A p \in Requests : seen'[p] # next[q]
    BY <1>3, <1>14, <2>1, <2>2
  <2>4. \A s \in Sessions : session'[s].parent # next[q]
    BY <1>13, <1>14, <2>1, <2>2
  <2> QED
    BY <1>5, <1>14, <2>1, <2>2, <2>3, <2>4 DEF Unseen
<1>15. Unseen'
  BY <1>1, <1>14 DEF Unseen, NoRow
<1>16. ASSUME NEW s \in Sessions, session'[s].parent # None
       PROVE  session'[session'[s].parent].state \in {"grace", "over", "revoked"}
  <2>1. s # next[r] /\ session'[s].parent = session[s].parent
    BY <1>2, <1>13, <1>16, NewRows
  <2>2. session[s].parent # seen[r] /\ session[s].parent # next[r]
    BY <1>2, <1>4, <1>16, <2>1, Names DEF OneSuccessor
  <2>3. session[s].parent \in Sessions
    BY <1>16, <2>1, TypeParts DEF Row
  <2> QED
    BY <1>2, <1>16, <2>1, <2>2, <2>3 DEF Superseded
<1>17. Superseded' /\ OneSuccessor'
  BY <1>13, <1>16 DEF Superseded, OneSuccessor
<1>18. OnTheWay'
  BY <1>1, <1>2, <1>3, <1>4, TypeParts DEF OnTheWay
<1> QED
  BY <1>6, <1>7, <1>10, <1>12, <1>15, <1>17, <1>18

\* The answer is lost on its way.
LEMMA LoseCookieKeeps ==
  ASSUME TypeOK, SessionsInv, NEW r \in Requests, LoseCookie(r)
  PROVE  SessionTypes' /\ SessionsInv'
<1> USE DEF SessionsInv
<1>1. UNCHANGED <<cookie, session, rowLock>> /\ lost' /\ pc[r] = "reply"
  BY DEF LoseCookie, locks
<1>2. /\ pc' \in [Requests -> Places] /\ pc'[r] = "idle"
      /\ seen' \in [Requests -> Sessions \cup {None}] /\ seen'[r] = None
      /\ next' \in [Requests -> Sessions \cup {None}] /\ next'[r] = None
      /\ \A q \in Requests \ {r} : pc'[q] = pc[q] /\ seen'[q] = seen[q] /\ next'[q] = next[q]
  BY GoesIdle DEF LoseCookie
<1>3. SessionTypes'
  BY <1>1, <1>2, TypeParts DEF SessionTypes
<1>4. Steps'
  BY <1>2, Names DEF Steps
<1>5. Present'
  BY <1>1, <1>2 DEF Present, NoRow
<1>6. Claims'
  BY <1>1, <1>2 DEF Claims, Steps
<1>7. Unseen'
  BY <1>1, <1>2 DEF Unseen, NoRow, Steps
<1>8. Superseded' /\ OneSuccessor' /\ OnTheWay'
  BY <1>1 DEF Superseded, OneSuccessor, OnTheWay
<1> QED
  BY <1>3, <1>4, <1>5, <1>6, <1>7, <1>8

\* The browser takes the session it is handed, which is not superseded.
LEMMA ArriveKeeps ==
  ASSUME TypeOK, SessionsInv, NEW r \in Requests, Arrive(r)
  PROVE  SessionTypes' /\ SessionsInv'
<1> USE DEF SessionsInv
<1>1. UNCHANGED <<lost, session, rowLock>> /\ cookie' = next[r] /\ pc[r] = "reply"
  BY DEF Arrive, locks
<1>2. /\ pc' \in [Requests -> Places] /\ pc'[r] = "idle"
      /\ seen' \in [Requests -> Sessions \cup {None}] /\ seen'[r] = None
      /\ next' \in [Requests -> Sessions \cup {None}] /\ next'[r] = None
      /\ \A q \in Requests \ {r} : pc'[q] = pc[q] /\ seen'[q] = seen[q] /\ next'[q] = next[q]
  BY GoesIdle DEF Arrive
<1>3. /\ next[r] \in Sessions \cup {None}
      /\ next[r] # None => session[next[r]].state \in {"live", "due", "revoked"}
  BY <1>1 DEF Steps, Unseen
<1>4. \A q \in Requests : next'[q] # None => next'[q] # next[r]
  BY <1>2 DEF Steps
<1>5. SessionTypes'
  BY <1>1, <1>2, <1>3, TypeParts DEF SessionTypes
<1>6. Steps'
  BY <1>2, Names DEF Steps
<1>7. Present'
  BY <1>1, <1>2, <1>3 DEF Present, NoRow
<1>8. Claims'
  BY <1>1, <1>2 DEF Claims, Steps
<1>9. Unseen'
  BY <1>1, <1>2, <1>4 DEF Unseen, NoRow, Steps
<1>10. Superseded' /\ OneSuccessor'
  BY <1>1 DEF Superseded, OneSuccessor
<1>11. OnTheWay'
  BY <1>1, <1>3 DEF OnTheWay
<1> QED
  BY <1>5, <1>6, <1>7, <1>8, <1>9, <1>10, <1>11

LEMMA LoginKeeps ==
  ASSUME TypeOK, SessionsInv, NEW r \in Requests, Login(r)
  PROVE  SessionTypes' /\ SessionsInv'
<1> USE DEF SessionsInv
<1>1. UNCHANGED <<cookie, lost, session, rowLock, seen, next>> /\ pc[r] = "idle"
  BY DEF Login, browser, locks
<1>2. /\ pc' \in [Requests -> Places] /\ pc'[r] = "login"
      /\ \A q \in Requests \ {r} : pc'[q] = pc[q]
  BY Goes DEF Login, Places
<1>3. SessionTypes'
  BY <1>1, <1>2, TypeParts DEF SessionTypes
<1>4. Steps' /\ Claims'
  BY <1>1, <1>2 DEF Steps, Claims
<1>5. Present' /\ Superseded' /\ OneSuccessor'
  BY <1>1 DEF Present, NoRow, Superseded, OneSuccessor
<1>6. Unseen' /\ OnTheWay'
  BY <1>1, <1>2 DEF Unseen, NoRow, OnTheWay
<1> QED
  BY <1>3, <1>4, <1>5, <1>6

LEMMA CreateAdminSessionKeeps ==
  ASSUME TypeOK, SessionsInv, NEW r \in Requests, createAdminSession(r)
  PROVE  SessionTypes' /\ SessionsInv'
<1> USE DEF SessionsInv
<1>1. UNCHANGED <<cookie, lost, rowLock, seen>> /\ pc[r] = "login" /\ seen[r] = None
  BY DEF createAdminSession, browser, locks, Steps
<1>2. PICK s \in Fresh : session' = [session EXCEPT ![s] = NewRow(None)] /\ next' = [next EXCEPT ![r] = s]
  BY DEF createAdminSession
<1>3. /\ s \in Sessions /\ session[s] = NoRow /\ s # cookie /\ s # None
      /\ \A q \in Requests : next[q] # s /\ seen[q] # s
      /\ \A x \in Sessions : session[x].parent # s
  BY FreshRow
<1>4. /\ pc' \in [Requests -> Places] /\ pc'[r] = "reply"
      /\ \A q \in Requests \ {r} : pc'[q] = pc[q]
  BY Goes DEF createAdminSession, Places
<1>5. /\ next' \in [Requests -> Sessions \cup {None}] /\ next'[r] = s
      /\ \A q \in Requests \ {r} : next'[q] = next[q]
  BY <1>2, <1>3 DEF Steps
<1>6. /\ session' \in [Sessions -> Row] /\ session'[s].state = "live" /\ session'[s].parent = None
      /\ \A x \in Sessions \ {s} : session'[x] = session[x]
  BY <1>2, <1>3, NewRows, TypeParts
<1>7. SessionTypes'
  BY <1>1, <1>4, <1>6, TypeParts DEF SessionTypes
<1>8. Steps'
  BY <1>1, <1>3, <1>4, <1>5 DEF Steps
<1>9. Present'
  <2>1. \A x \in Sessions : session'[x].state = "none" => session'[x] = NoRow
    BY <1>6 DEF Present
  <2>2. \A x \in Sessions : session[x].state # "none" => session'[x].state # "none"
    BY <1>6
  <2>3. /\ cookie # None => session'[cookie].state # "none"
        /\ \A q \in Requests : seen[q] # None => session'[seen[q]].state # "none"
    BY <2>2, TypeParts DEF Present, Steps
  <2> QED
    BY <1>1, <2>1, <2>3 DEF Present, NoRow
<1>10. Claims'
  BY <1>1, <1>3, <1>4, <1>6, Names DEF Claims, Steps
<1>11. \A x \in Sessions : session'[x].parent = session[x].parent
  BY <1>3, <1>6, NewRows, Names
<1>12. ASSUME NEW q \in Requests, next'[q] # None
       PROVE  /\ next'[q] # cookie /\ \A p \in Requests : seen[p] # next'[q]
              /\ \A x \in Sessions : session'[x].parent # next'[q]
              /\ pc'[q] = "inserted" => session'[next'[q]] = NoRow
              /\ pc'[q] = "reply" => /\ session'[next'[q]].state \in {"live", "due", "revoked"}
                                     /\ session'[next'[q]].parent = seen[q]
  <2>1. CASE q = r
    BY <1>1, <1>3, <1>4, <1>5, <1>6, <1>11, <2>1
  <2>2. CASE q # r
    <3>1. next'[q] = next[q] /\ next[q] # s /\ next[q] \in Sessions /\ pc'[q] = pc[q]
      BY <1>3, <1>4, <1>5, <1>12, <2>2
    <3> QED
      BY <1>6, <1>11, <1>12, <3>1 DEF Unseen
  <2> QED
    BY <2>1, <2>2
<1>13. Unseen'
  BY <1>1, <1>12 DEF Unseen, NoRow
<1>14. Superseded' /\ OneSuccessor'
  BY <1>3, <1>6, <1>11, TypeParts DEF Superseded, OneSuccessor, Row
<1>15. OnTheWay'
  BY <1>1, <1>3, <1>4, <1>6, TypeParts DEF OnTheWay
<1> QED
  BY <1>7, <1>8, <1>9, <1>10, <1>13, <1>14, <1>15

\* The browser's session is always a row: a logout finds it.
LEMMA LogoutKeeps ==
  ASSUME TypeOK, SessionsInv, NEW r \in Requests, Logout(r)
  PROVE  SessionTypes' /\ SessionsInv'
<1>1. /\ pc[r] = "idle" /\ cookie \in Sessions /\ session[cookie].state # "none" /\ rowLock[cookie] = None
      /\ UNCHANGED <<seen, next, rowLock, browser>>
  BY TypeParts DEF Logout, SessionsInv, Present, locks
<1>2. session[cookie] # NoRow
  BY <1>1, NewRows
<1>3. session' = Revoke({cookie}) /\ Go(r, "logout")
  BY <1>2 DEF Logout
<1>4. /\ pc' \in [Requests -> Places] /\ pc'[r] = "logout"
      /\ \A q \in Requests \ {r} : pc'[q] = pc[q]
  BY <1>3, Goes DEF Places
<1>5. PICK S \in SUBSET Sessions : S = {cookie}
  BY <1>1
<1>6. session' = Revoke(S)
  BY <1>3, <1>5 DEF Revoke
<1> QED
  BY <1>1, <1>4, <1>5, <1>6, RevokingKeeps

LEMMA RevokeSupersededKeeps ==
  ASSUME TypeOK, SessionsInv, NEW r \in Requests, RevokeSuperseded(r)
  PROVE  SessionTypes' /\ SessionsInv'
<1>1. pc[r] = "logout" /\ UNCHANGED <<seen, next, rowLock, browser>> /\ Go(r, "reply")
  BY DEF RevokeSuperseded, locks
<1>2. /\ pc' \in [Requests -> Places] /\ pc'[r] = "reply"
      /\ \A q \in Requests \ {r} : pc'[q] = pc[q]
  BY <1>1, Goes DEF Places
<1>3. PICK S \in SUBSET Sessions : S = {s \in Sessions : session[s].state = "grace"}
  OBVIOUS
<1>4. session' = Revoke(S) /\ \A s \in S : rowLock[s] = None /\ session[s].state # "none"
  BY <1>3 DEF RevokeSuperseded, Revoke
<1> QED
  BY <1>1, <1>2, <1>4, RevokingKeeps

\* Time passes for a row that is neither claimed nor, if superseded, awaited.
LEMMA TimeKeeps ==
  ASSUME TypeOK, SessionsInv, NEW s \in Sessions, BecomesDue(s) \/ GraceEnds(s)
  PROVE  SessionTypes' /\ SessionsInv'
<1> USE DEF SessionsInv
<1>1. UNCHANGED <<cookie, lost, rowLock, pc, seen, next>>
  BY DEF BecomesDue, GraceEnds, browser, locks, reqs
<1>2. PICK state \in {"due", "over"} :
        /\ Becomes(s, state) /\ session[s].state = IF state = "due" THEN "live" ELSE "grace"
        /\ state = "over" => \A r \in Requests : pc[r] = "reply" => seen[r] # s
  BY DEF BecomesDue, GraceEnds, Becomes
<1>3. /\ session' \in [Sessions -> Row]
      /\ session'[s].state = state /\ session'[s].parent = session[s].parent
      /\ \A q \in Sessions \ {s} : session'[q] = session[q]
  BY <1>2, SetState DEF States
<1>4. /\ \A x \in Sessions : session'[x].parent = session[x].parent
      /\ \A x \in Sessions : session[x].state # "none" => session'[x].state # "none"
      /\ \A x \in Sessions : session'[x].state = "none" => session'[x] = session[x]
      /\ \A x \in Sessions : session[x].state = "none" => session'[x] = session[x]
  BY <1>2, <1>3
<1>5. SessionTypes'
  BY <1>1, <1>3, TypeParts DEF SessionTypes
<1>6. Steps'
  BY <1>1 DEF Steps
<1>7. Present'
  <2>1. \A x \in Sessions : session'[x].state = "none" => session'[x] = NoRow
    BY <1>4 DEF Present
  <2>2. /\ cookie # None => session'[cookie].state # "none"
        /\ \A q \in Requests : seen[q] # None => session'[seen[q]].state # "none"
    BY <1>4, TypeParts DEF Present, Steps
  <2> QED
    BY <1>1, <2>1, <2>2 DEF Present, NoRow
<1>8. Claims'
  BY <1>1, <1>2, <1>3 DEF Claims, Steps
<1>9. \A q \in Requests : next[q] # None =>
        /\ pc[q] = "inserted" => session'[next[q]] = NoRow
        /\ pc[q] = "reply" => session'[next[q]].state \in {"live", "due", "revoked"}
  BY <1>2, <1>3, <1>4, NewRows DEF Unseen, Steps
<1>10. Unseen'
  BY <1>1, <1>4, <1>9 DEF Unseen, NoRow, Steps
<1>11. Superseded' /\ OneSuccessor'
  BY <1>2, <1>3, <1>4, TypeParts DEF Superseded, OneSuccessor, Row
<1>12. OnTheWay'
  BY <1>1, <1>2, <1>3, TypeParts DEF OnTheWay
<1> QED
  BY <1>5, <1>6, <1>7, <1>8, <1>10, <1>11, <1>12

-----------------------------------------------------------------------------
(* Each step keeps what holds of transactions.                             *)

\* A session is inserted only while nobody has the row of Me locked.
LEMMA AsideKeeps ==
  ASSUME RightsTypes, RightsInv, UNCHANGED <<users, link, userLock, linkLock, txs>>,
         KeyShared' => KeyShared \/ UserFree,
         \A s \in Sessions : Usable(s)' => Usable(s) \/ UserFree
  PROVE  RightsTypes' /\ RightsInv'
<1> USE DEF RightsInv
<1>1. UNCHANGED <<role, active, password, tpc, kind, target, todo, count, rows>>
  BY DEF users, txs
<1>2. RightsTypes' /\ Plans'
  BY <1>1 DEF RightsTypes, Used, Plans
<1>3. Held'
  BY <1>1 DEF Held, UserFree
<1>4. Counted' /\ Judged' /\ SuperAdminRemains' /\ OneUse'
  BY <1>1 DEF Counted, Judged, SuperAdminRemains, OneUse, Mine, IsSuper
<1>5. Complete'
  <2>1. SUFFICES ASSUME NEW t \in Txs, tpc[t] = "revoke", kind[t] # "reset", target[t] = Me,
                        NEW s \in Sessions, Usable(s)'
                 PROVE  s \in rows[t]
    BY <1>1 DEF Complete
  <2>2. userLock[Me] = t /\ ~UserFree
    BY <2>1, Names DEF Held, UserFree
  <2> QED
    BY <2>1, <2>2 DEF Complete
<1> QED
  BY <1>2, <1>3, <1>4, <1>5

LEMMA Released ==
  ASSUME RightsTypes, Plans, NEW t \in Txs, Release(t)
  PROVE  /\ userLock' \in [Users -> Txs \cup {None}] /\ linkLock' \in [Links -> Txs \cup {None}]
         /\ \A u \in Users : userLock'[u] = IF userLock[u] = t THEN None ELSE userLock[u]
         /\ \A l \in Links : linkLock'[l] = IF linkLock[l] = t THEN None ELSE linkLock[l]
         /\ tpc' \in [Txs -> TPlaces] /\ tpc'[t] = "done"
         /\ kind' \in [Txs -> {"none", "reset"} \cup OnUsers] /\ kind'[t] = "none"
         /\ target' \in [Txs -> Users \cup Links \cup {None}]
         /\ todo' \in [Txs -> SUBSET Users] /\ count' \in [Txs -> Nat] /\ count'[t] = 0
         /\ rows' \in [Txs -> SUBSET Sessions] /\ rows'[t] = {}
         /\ \A q \in Txs \ {t} :
              /\ tpc'[q] = tpc[q] /\ kind'[q] = kind[q] /\ target'[q] = target[q]
              /\ todo'[q] = todo[q] /\ count'[q] = count[q] /\ rows'[q] = rows[q]
BY DEF Release, Step, RightsTypes, Plans, TPlaces

\* A transaction ends; what it had not locked is as it was.
LEMMA ReleaseKeeps ==
  ASSUME RightsTypes, RightsInv, NEW t \in Txs, Release(t), UNCHANGED reqs,
         \A u \in Users : userLock[u] # t => role'[u] = role[u] /\ active'[u] = active[u],
         \A l \in Links : linkLock[l] # t => link'[l] = link[l],
         \A s \in Sessions : Usable(s)' => Usable(s)
  PROVE  /\ userLock' \in [Users -> Txs \cup {None}] /\ linkLock' \in [Links -> Txs \cup {None}]
         /\ \A u \in Users : userLock'[u] # None => tpc'[userLock'[u]] \in {"count", "update", "revoke", "commit"}
         /\ tpc' \in [Txs -> TPlaces]
         /\ Plans' /\ Held' /\ Counted' /\ Judged' /\ OneUse' /\ Complete'
<1> USE DEF RightsInv
<1>1. /\ userLock' \in [Users -> Txs \cup {None}] /\ linkLock' \in [Links -> Txs \cup {None}]
      /\ \A u \in Users : userLock'[u] = IF userLock[u] = t THEN None ELSE userLock[u]
      /\ \A l \in Links : linkLock'[l] = IF linkLock[l] = t THEN None ELSE linkLock[l]
      /\ tpc' \in [Txs -> TPlaces] /\ tpc'[t] = "done"
      /\ kind' \in [Txs -> {"none", "reset"} \cup OnUsers] /\ kind'[t] = "none"
      /\ target' \in [Txs -> Users \cup Links \cup {None}]
      /\ todo' \in [Txs -> SUBSET Users] /\ count' \in [Txs -> Nat] /\ count'[t] = 0
      /\ rows' \in [Txs -> SUBSET Sessions] /\ rows'[t] = {}
      /\ \A q \in Txs \ {t} :
           /\ tpc'[q] = tpc[q] /\ kind'[q] = kind[q] /\ target'[q] = target[q]
           /\ todo'[q] = todo[q] /\ count'[q] = count[q] /\ rows'[q] = rows[q]
  BY Released
<1>2. \A u \in Users : userLock'[u] # None => tpc'[userLock'[u]] \in {"count", "update", "revoke", "commit"}
  BY <1>1 DEF RightsTypes
<1>3. Plans'
  BY <1>1 DEF Plans, OnUsers
<1>4. ASSUME NEW q \in Txs, tpc'[q] \in {"update", "revoke", "commit"}, kind'[q] # "reset"
      PROVE  /\ q # t /\ target'[q] = target[q] /\ target[q] \in Users
             /\ userLock[target[q]] = q /\ userLock'[target[q]] = q
  <2>1. /\ q # t /\ tpc[q] \in {"update", "revoke", "commit"} /\ kind[q] # "reset"
        /\ target'[q] = target[q] /\ target[q] \in Users
    BY <1>1, <1>4 DEF Plans, OnUsers
  <2> QED
    BY <1>1, <2>1 DEF Held
<1>5. Held'
  BY <1>1, <1>4, AdminsAssumption DEF Held, KeyShared, reqs
<1>6. ASSUME NEW q \in Txs, NEW u \in Users, q # t, Mine(q, u) PROVE Mine(q, u)'
  BY <1>1, <1>6, Names DEF Mine, IsSuper
<1>7. Counted'
  <2>1. ASSUME NEW q \in Txs, count'[q] >= 1
        PROVE  /\ \E u \in Users : Mine(q, u)'
               /\ count'[q] >= 2 => \E u, v \in Users : u # v /\ Mine(q, u)' /\ Mine(q, v)'
    <3>1. q # t /\ count'[q] = count[q]
      BY <1>1, <2>1
    <3> QED
      BY <1>6, <2>1, <3>1 DEF Counted
  <2>2. \A q \in Txs : count'[q] >= 2 => count'[q] >= 1
    BY <1>1
  <2> QED
    BY <2>1, <2>2 DEF Counted
<1>8. Judged'
  <2>1. ASSUME NEW q \in Txs, tpc'[q] \in {"update", "revoke", "commit"}, kind'[q] # "reset"
        PROVE  /\ tpc'[q] = tpc[q] /\ kind'[q] = kind[q] /\ count'[q] = count[q]
               /\ role'[target'[q]] = role[target[q]] /\ active'[target'[q]] = active[target[q]]
    <3>1. /\ q # t /\ target'[q] = target[q] /\ target[q] \in Users /\ userLock[target[q]] = q
      BY <1>4, <2>1
    <3> QED
      BY <1>1, <3>1
  <2> QED
    BY <2>1 DEF Judged, IsSuper
<1>9. OneUse'
  <2>1. ASSUME NEW q \in Txs, kind'[q] = "reset", tpc'[q] \in {"password", "update", "revoke"}
        PROVE  linkLock'[target'[q]] = q /\ link'[target'[q]] = "live"
    <3>1. q # t /\ kind[q] = "reset" /\ tpc[q] = tpc'[q] /\ target'[q] = target[q] /\ target[q] \in Links
      BY <1>1, <2>1 DEF Plans
    <3>2. linkLock[target[q]] = q /\ link[target[q]] = "live"
      BY <2>1, <3>1 DEF OneUse
    <3> QED
      BY <1>1, <3>1, <3>2
  <2> QED
    BY <2>1 DEF OneUse
<1>10. Complete'
  BY <1>1 DEF Complete
<1> QED
  BY <1>1, <1>2, <1>3, <1>5, <1>7, <1>8, <1>9, <1>10

\* The row that a count locks next is one of those it has left.
LEMMA LeastOf ==
  ASSUME NEW S \in SUBSET Nat, S # {}
  PROVE  Min(S) \in S
<1>1. PICK R : R = OpToRel(<, Nat)
  OBVIOUS
<1>2. \A ss \in Nat \X Nat : ss \in R <=> ss[1] < ss[2]
  BY <1>1, Zenon DEF OpToRel
<1>3. IsWellFoundedOn(R, Nat)
  BY <1>1, NatLessThanWellFounded
<1>4. PICK x \in S : \A y \in S : <<y, x>> \notin R
  BY <1>3, WFMin
<1>5. ASSUME NEW y \in S PROVE x <= y
  <2>1. <<y, x>> \in Nat \X Nat /\ <<y, x>>[1] = y /\ <<y, x>>[2] = x
    OBVIOUS
  <2>2. ~ (y < x)
    BY <1>2, <1>4, <2>1
  <2> QED
    BY <2>2
<1> QED
  BY <1>5 DEF Min

LEMMA BeginKeeps ==
  ASSUME RightsTypes, RightsInv, NEW t \in Txs, NEW what \in OnUsers, NEW u \in Users, Begin(t, what, u)
  PROVE  RightsTypes' /\ RightsInv'
<1> USE DEF RightsInv
<1>1. /\ UNCHANGED <<role, active, password, link, userLock, linkLock, session, pc, count, rows>>
      /\ tpc[t] = "idle"
  BY DEF Begin, users, locks, reqs
<1>2. /\ tpc' \in [Txs -> TPlaces] /\ tpc'[t] = "count"
      /\ \A q \in Txs \ {t} : tpc'[q] = tpc[q]
  BY DEF Begin, Step, RightsTypes, TPlaces
<1>3. /\ kind' \in [Txs -> {"none", "reset"} \cup OnUsers] /\ kind'[t] = what
      /\ target' \in [Txs -> Users \cup Links \cup {None}] /\ target'[t] = u
      /\ todo' \in [Txs -> SUBSET Users]
      /\ \A q \in Txs \ {t} : kind'[q] = kind[q] /\ target'[q] = target[q] /\ todo'[q] = todo[q]
  BY DEF Begin, Plans
<1>4. RightsTypes'
  BY <1>1, <1>2 DEF RightsTypes, Used
<1>5. Plans'
  BY <1>1, <1>2, <1>3 DEF Plans, OnUsers
<1>6. Held'
  BY <1>1, <1>2, <1>3 DEF Held, KeyShared
<1>7. \A v \in Users : userLock[v] # t
  BY <1>1, Names DEF RightsTypes
<1>8. count[t] = 0
  BY <1>7 DEF Counted, Mine, Plans
<1>9. Counted'
  <2>1. \A q \in Txs, v \in Users : q # t /\ Mine(q, v) => Mine(q, v)'
    BY <1>1, <1>3 DEF Mine, IsSuper
  <2> QED
    BY <1>1, <1>8, <2>1 DEF Counted
<1>10. Judged' /\ SuperAdminRemains' /\ OneUse' /\ Complete'
  BY <1>1, <1>2, <1>3 DEF Judged, SuperAdminRemains, OneUse, Complete, IsSuper, Usable
<1> QED
  BY <1>4, <1>5, <1>6, <1>9, <1>10

\* A row is locked that no other transaction holds; what was counted stays.
LEMMA LockKeeps ==
  ASSUME RightsTypes, RightsInv, NEW t \in Txs, NEW u \in Users, CanLock(t, u),
         userLock' = [userLock EXCEPT ![u] = t], UNCHANGED pc
  PROVE  /\ userLock' \in [Users -> Txs \cup {None}] /\ userLock'[u] = t
         /\ \A v \in Users : userLock[v] # None => userLock'[v] = userLock[v]
         /\ \A v \in Users : userLock'[v] = userLock[v] \/ userLock'[v] = t
         /\ userLock'[Me] # None => ~KeyShared'
BY AdminsAssumption DEF CanLock, RightsTypes, RightsInv, Held, KeyShared

LEMMA CountActiveSuperAdminsKeeps ==
  ASSUME RightsTypes, RightsInv, NEW t \in Txs, countActiveSuperAdminsTx(t)
  PROVE  RightsTypes' /\ RightsInv'
<1> USE DEF RightsInv
<1>1. /\ UNCHANGED <<role, active, password, link, linkLock, session, pc, tpc, kind, target, rows>>
      /\ tpc[t] = "count" /\ todo[t] # {}
  BY DEF countActiveSuperAdminsTx, users, reqs
<1>2. PICK u : u = Min(todo[t])
  OBVIOUS
<1>3. u \in todo[t] /\ u \in Users
  BY <1>1, <1>2, LeastOf, AdminsAssumption DEF Plans
<1>4. /\ CanLock(t, u) /\ userLock' = [userLock EXCEPT ![u] = t]
      /\ todo' = [todo EXCEPT ![t] = @ \ {u}]
      /\ count' = [count EXCEPT ![t] = IF IsSuper(u) THEN @ + 1 ELSE @]
  BY <1>2 DEF countActiveSuperAdminsTx, Returned
<1>5. /\ userLock' \in [Users -> Txs \cup {None}] /\ userLock'[u] = t
      /\ \A v \in Users : userLock[v] # None => userLock'[v] = userLock[v]
      /\ \A v \in Users : userLock'[v] = userLock[v] \/ userLock'[v] = t
      /\ userLock'[Me] # None => ~KeyShared'
  BY <1>1, <1>3, <1>4, LockKeeps
<1>6. /\ todo' \in [Txs -> SUBSET Users] /\ todo'[t] = todo[t] \ {u}
      /\ \A q \in Txs \ {t} : todo'[q] = todo[q]
  BY <1>4 DEF Plans
<1>7. /\ count' \in [Txs -> Nat] /\ count'[t] = IF IsSuper(u) THEN count[t] + 1 ELSE count[t]
      /\ \A q \in Txs \ {t} : count'[q] = count[q]
  BY <1>4 DEF Plans
<1>8. RightsTypes'
  BY <1>1, <1>5 DEF RightsTypes, Used
<1>9. Plans'
  BY <1>1, <1>6, <1>7 DEF Plans
<1>10. Held'
  BY <1>1, <1>5, Names DEF Held, Plans
<1>11. \A q \in Txs, v \in Users : Mine(q, v) => Mine(q, v)' /\ (q = t => v # u)
  BY <1>1, <1>3, <1>5, <1>6, Names DEF Mine, IsSuper
<1>12. ASSUME NEW q \in Txs
       PROVE  /\ count'[q] >= 1 => \E v \in Users : Mine(q, v)'
              /\ count'[q] >= 2 => \E v, w \in Users : v # w /\ Mine(q, v)' /\ Mine(q, w)'
  <2>1. CASE q # t \/ ~IsSuper(u)
    <3>1. count'[q] = count[q]
      BY <1>7, <2>1
    <3> QED
      BY <1>11, <3>1 DEF Counted
  <2>2. CASE q = t /\ IsSuper(u)
    <3>1. Mine(t, u)'
      BY <1>1, <1>5, <1>6, <2>2 DEF Mine, IsSuper
    <3>2. count[t] \in Nat /\ count'[t] = count[t] + 1
      BY <1>7, <2>2 DEF Plans
    <3>3. count'[t] >= 2 => \E v \in Users : Mine(t, v)
      BY <3>2 DEF Counted
    <3>4. ASSUME count'[t] >= 2 PROVE \E v, w \in Users : v # w /\ Mine(t, v)' /\ Mine(t, w)'
      <4>1. PICK v \in Users : Mine(t, v)
        BY <3>3, <3>4
      <4>2. Mine(t, v)' /\ v # u
        BY <1>11, <4>1
      <4> QED
        BY <1>3, <3>1, <4>2
    <3> QED
      BY <1>3, <2>2, <3>1, <3>4
  <2> QED
    BY <2>1, <2>2
<1>13. Counted'
  BY <1>12 DEF Counted
<1>14. Judged'
  BY <1>1, <1>7 DEF Judged, IsSuper
<1>15. SuperAdminRemains' /\ OneUse' /\ Complete'
  BY <1>1 DEF SuperAdminRemains, OneUse, Complete, IsSuper, Usable
<1> QED
  BY <1>8, <1>9, <1>10, <1>13, <1>14, <1>15

\* A step of a transaction within its plan, with the locks it has.
LEMMA StepTypes ==
  ASSUME RightsTypes, NEW t \in Txs, NEW step \in TPlaces, Step(t, step)
  PROVE  /\ tpc' \in [Txs -> TPlaces] /\ tpc'[t] = step
         /\ \A q \in Txs \ {t} : tpc'[q] = tpc[q]
BY DEF Step, RightsTypes

LEMMA EndsKeeps ==
  ASSUME RightsTypes, RightsInv, NEW t \in Txs, Release(t), UNCHANGED <<users, link, session, reqs>>
  PROVE  RightsTypes' /\ RightsInv'
<1>1. UNCHANGED <<role, active, password>>
  BY DEF users
<1>2. /\ userLock' \in [Users -> Txs \cup {None}] /\ linkLock' \in [Links -> Txs \cup {None}]
      /\ \A u \in Users : userLock'[u] # None => tpc'[userLock'[u]] \in {"count", "update", "revoke", "commit"}
      /\ tpc' \in [Txs -> TPlaces]
      /\ Plans' /\ Held' /\ Counted' /\ Judged' /\ OneUse' /\ Complete'
  BY <1>1, ReleaseKeeps DEF Usable
<1>3. SuperAdminRemains'
  BY <1>1 DEF RightsInv, SuperAdminRemains, IsSuper
<1> QED
  BY <1>1, <1>2, <1>3 DEF RightsTypes, RightsInv, Used

\* Who may take the rights of a super_admin has counted two of them.
LEMMA LockTargetKeeps ==
  ASSUME RightsTypes, RightsInv, NEW t \in Txs, LockTarget(t)
  PROVE  RightsTypes' /\ RightsInv'
<1> USE DEF RightsInv
<1>1. PICK u : u = target[t]
  OBVIOUS
<1>2. /\ UNCHANGED <<users, session, link, rowLock, browser, reqs>>
      /\ tpc[t] = "count" /\ todo[t] = {} /\ CanLock(t, u)
      /\ u \in Users /\ kind[t] \in OnUsers
  BY <1>1 DEF LockTarget, Plans
<1>3. CASE IsSuper(u) /\ LosesRights(t) /\ ~canRemovePrivileged(t)
  <2>1. Release(t)
    BY <1>1, <1>3 DEF LockTarget
  <2> QED
    BY <1>2, <2>1, EndsKeeps
<1>4. CASE ~(IsSuper(u) /\ LosesRights(t) /\ ~canRemovePrivileged(t))
  <2>1. /\ userLock' = [userLock EXCEPT ![u] = t]
        /\ Step(t, IF LosesRights(t) THEN "update" ELSE "commit")
        /\ UNCHANGED <<kind, target, todo, count, rows, linkLock>>
    BY <1>1, <1>4 DEF LockTarget
  <2>2. UNCHANGED <<role, active, password, link, session, pc>>
    BY <1>2 DEF users, reqs
  <2>3. /\ userLock' \in [Users -> Txs \cup {None}] /\ userLock'[u] = t
        /\ \A v \in Users : userLock[v] # None => userLock'[v] = userLock[v]
        /\ \A v \in Users : userLock'[v] = userLock[v] \/ userLock'[v] = t
        /\ userLock'[Me] # None => ~KeyShared'
    BY <1>2, <2>1, <2>2, LockKeeps
  <2>4. /\ tpc' \in [Txs -> TPlaces] /\ tpc'[t] = IF LosesRights(t) THEN "update" ELSE "commit"
        /\ \A q \in Txs \ {t} : tpc'[q] = tpc[q]
    BY <2>1, StepTypes DEF TPlaces
  <2>5. LosesRights(t) => kind[t] \in {"deactivate", "demote"}
    BY DEF LosesRights
  <2>6. kind[t] = "deactivate" => LosesRights(t)
    BY DEF LosesRights
  <2>7. kind[t] = "demote" /\ ~LosesRights(t) => ~IsSuper(target[t])
    BY DEF LosesRights, IsSuper
  <2>8. LosesRights(t) /\ IsSuper(target[t]) => count[t] >= 2
    BY <1>1, <1>4 DEF canRemovePrivileged, Plans
  <2>9. RightsTypes'
    BY <2>1, <2>2, <2>3, <2>4 DEF RightsTypes, Used
  <2>10. Plans'
    BY <1>2, <2>1, <2>4, <2>5, <2>6 DEF Plans, OnUsers
  <2>11. Held'
    BY <1>1, <1>2, <2>1, <2>3, <2>4, Names DEF Held, Plans, OnUsers
  <2>12. Counted'
    <3>1. \A q \in Txs, v \in Users : Mine(q, v) => Mine(q, v)'
      BY <2>1, <2>2, <2>3, Names DEF Mine, IsSuper
    <3> QED
      BY <2>1, <3>1 DEF Counted
  <2>13. Judged'
    BY <2>1, <2>2, <2>4, <2>7, <2>8 DEF Judged, IsSuper
  <2>14. SuperAdminRemains'
    BY <2>2 DEF SuperAdminRemains, IsSuper
  <2>15. OneUse' /\ Complete'
    BY <1>2, <2>1, <2>2, <2>4 DEF OneUse, Complete, Usable, Plans, OnUsers
  <2> QED
    BY <2>9, <2>10, <2>11, <2>12, <2>13, <2>14, <2>15
<1> QED
  BY <1>3, <1>4

\* Steps of a transaction that take no row of a user.
LEMMA WalkKeeps ==
  ASSUME RightsTypes, RightsInv, NEW t \in Txs, NEW step \in {"link", "password", "update", "revoke"},
         UNCHANGED <<users, session, link, userLock, reqs, todo, count>>, Step(t, step),
         linkLock' \in [Links -> Txs \cup {None}], rows' \in [Txs -> SUBSET Sessions],
         kind' \in [Txs -> {"none", "reset"} \cup OnUsers],
         target' \in [Txs -> Users \cup Links \cup {None}],
         \A q \in Txs \ {t} : kind'[q] = kind[q] /\ target'[q] = target[q] /\ rows'[q] = rows[q],
         \A l \in Links : linkLock[l] # None => linkLock'[l] = linkLock[l],
         \/ /\ kind'[t] = "reset" /\ target'[t] \in Links /\ tpc[t] \notin {"count", "commit"}
            /\ tpc[t] \in {"update", "revoke"} => step \in {"update", "revoke"}
            /\ step \in {"link", "password"} => tpc[t] \in {"idle", "link"}
            /\ step # "link" => linkLock'[target'[t]] = t /\ link[target'[t]] = "live"
         \/ /\ kind'[t] = kind[t] /\ target'[t] = target[t] /\ kind[t] # "reset"
            /\ tpc[t] = "update" /\ step = "revoke"
            /\ target[t] = Me => \A s \in Sessions : Usable(s) => s \in rows'[t],
         step = "revoke" \/ rows'[t] = {},
         tpc[t] \in {"idle", "link", "password"} => \A u \in Users : userLock[u] # t
  PROVE  RightsTypes' /\ RightsInv'
<1> USE DEF RightsInv
<1>1. UNCHANGED <<role, active, password, link, session, pc, userLock, todo, count>>
  BY DEF users, reqs
<1>2. /\ tpc' \in [Txs -> TPlaces] /\ tpc'[t] = step
      /\ \A q \in Txs \ {t} : tpc'[q] = tpc[q]
  BY StepTypes DEF TPlaces
<1>3. RightsTypes'
  BY <1>1, <1>2 DEF RightsTypes, Used
<1>4. Plans'
  BY <1>1, <1>2 DEF Plans, OnUsers
<1>5. Held'
  BY <1>1, <1>2 DEF Held, KeyShared
<1>6. Counted' /\ SuperAdminRemains'
  BY <1>1 DEF Counted, SuperAdminRemains, Mine, IsSuper
<1>7. Judged'
  BY <1>1, <1>2 DEF Judged, IsSuper
<1>8. OneUse'
  BY <1>1, <1>2, Names DEF OneUse, Plans
<1>9. Complete'
  BY <1>1, <1>2 DEF Complete, Usable
<1> QED
  BY <1>3, <1>4, <1>5, <1>6, <1>7, <1>8, <1>9

LEMMA BeginResetKeeps ==
  ASSUME RightsTypes, RightsInv, NEW t \in Txs, NEW l \in Links, BeginReset(t, l)
  PROVE  RightsTypes' /\ RightsInv'
<1>1. /\ UNCHANGED <<users, session, link, userLock, linkLock, reqs, todo, count, rows>>
      /\ tpc[t] = "idle" /\ Step(t, "link") /\ rows[t] = {}
  BY DEF BeginReset, locks, RightsInv, Plans
<1>2. /\ kind' \in [Txs -> {"none", "reset"} \cup OnUsers] /\ kind'[t] = "reset"
      /\ target' \in [Txs -> Users \cup Links \cup {None}] /\ target'[t] = l
      /\ \A q \in Txs \ {t} : kind'[q] = kind[q] /\ target'[q] = target[q]
      /\ rows' \in [Txs -> SUBSET Sessions] /\ linkLock' \in [Links -> Txs \cup {None}]
  BY <1>1 DEF BeginReset, RightsInv, Plans, RightsTypes
<1>3. \A u \in Users : userLock[u] # t
  BY <1>1, Names DEF RightsTypes
<1> QED
  BY <1>1, <1>2, <1>3, WalkKeeps

LEMMA ConsumeLinkKeeps ==
  ASSUME RightsTypes, RightsInv, NEW t \in Txs, ConsumeLink(t)
  PROVE  RightsTypes' /\ RightsInv'
<1>1. PICK l : l = target[t]
  OBVIOUS
<1>2. /\ UNCHANGED <<users, session, link, reqs>> /\ tpc[t] = "link" /\ linkLock[l] = None
      /\ kind[t] = "reset" /\ l \in Links /\ rows[t] = {}
  BY <1>1 DEF ConsumeLink, RightsInv, Plans
<1>3. CASE ~Outstanding(l)
  <2>1. Release(t)
    BY <1>1, <1>3 DEF ConsumeLink
  <2> QED
    BY <1>2, <2>1, EndsKeeps
<1>4. CASE Outstanding(l)
  <2>1. /\ linkLock' = [linkLock EXCEPT ![l] = t] /\ Step(t, "password")
        /\ UNCHANGED <<kind, target, todo, count, rows, userLock>> /\ link[l] = "live"
    BY <1>1, <1>4 DEF ConsumeLink, Outstanding
  <2>2. /\ linkLock' \in [Links -> Txs \cup {None}] /\ linkLock'[l] = t
        /\ \A k \in Links : linkLock[k] # None => linkLock'[k] = linkLock[k]
        /\ kind' \in [Txs -> {"none", "reset"} \cup OnUsers] /\ rows' \in [Txs -> SUBSET Sessions]
        /\ target' \in [Txs -> Users \cup Links \cup {None}]
    BY <1>2, <2>1 DEF RightsTypes, RightsInv, Plans
  <2>3. \A u \in Users : userLock[u] # t
    BY <1>2, Names DEF RightsTypes
  <2> QED
    BY <1>1, <1>2, <2>1, <2>2, <2>3, WalkKeeps
<1> QED
  BY <1>3, <1>4

LEMMA UpdatePasswordKeeps ==
  ASSUME RightsTypes, RightsInv, NEW t \in Txs, UpdatePassword(t)
  PROVE  RightsTypes' /\ RightsInv'
<1>1. /\ UNCHANGED <<users, session, link, userLock, linkLock, reqs, kind, target, todo, count, rows>>
      /\ tpc[t] = "password" /\ Step(t, "update")
  BY DEF UpdatePassword, locks
<1>2. /\ kind[t] = "reset" /\ target[t] \in Links /\ rows[t] = {}
      /\ linkLock[target[t]] = t /\ link[target[t]] = "live"
  BY <1>1 DEF RightsInv, Plans, OneUse
<1>3. /\ linkLock' \in [Links -> Txs \cup {None}] /\ rows' \in [Txs -> SUBSET Sessions]
      /\ kind' \in [Txs -> {"none", "reset"} \cup OnUsers]
      /\ target' \in [Txs -> Users \cup Links \cup {None}]
  BY <1>1 DEF RightsTypes, RightsInv, Plans
<1>4. \A u \in Users : userLock[u] # t
  BY <1>1, Names DEF RightsTypes
<1> QED
  BY <1>1, <1>2, <1>3, <1>4, WalkKeeps

\* The statement picks every session that can be used.
LEMMA PickSessionsKeeps ==
  ASSUME RightsTypes, RightsInv, NEW t \in Txs, PickSessions(t)
  PROVE  RightsTypes' /\ RightsInv'
<1>1. /\ UNCHANGED <<users, session, link, userLock, linkLock, reqs, kind, target, todo, count>>
      /\ tpc[t] = "update" /\ Step(t, "revoke")
  BY DEF PickSessions, locks
<1>2. /\ linkLock' \in [Links -> Txs \cup {None}]
      /\ kind' \in [Txs -> {"none", "reset"} \cup OnUsers]
      /\ target' \in [Txs -> Users \cup Links \cup {None}]
  BY <1>1 DEF RightsTypes, RightsInv, Plans
<1>3. /\ rows' \in [Txs -> SUBSET Sessions] /\ \A q \in Txs \ {t} : rows'[q] = rows[q]
      /\ target[t] = Me => \A s \in Sessions : Usable(s) => s \in rows'[t]
  BY DEF PickSessions, RightsInv, Plans, Usable
<1>4. kind[t] = "reset" => /\ target[t] \in Links
                           /\ linkLock[target[t]] = t /\ link[target[t]] = "live"
  BY <1>1 DEF RightsInv, Plans, OneUse
<1> QED
  BY <1>1, <1>2, <1>3, <1>4, WalkKeeps

\* What a commit writes to users and links.
LEMMA CommitWrites ==
  ASSUME NEW t \in Txs, Commit(t)
  PROVE  \/ /\ kind[t] = "reset" /\ password' = password + 1 /\ link' = [link EXCEPT ![target[t]] = "used"]
            /\ UNCHANGED <<role, active>>
         \/ /\ kind[t] = "deactivate" /\ active' = [active EXCEPT ![target[t]] = FALSE]
            /\ UNCHANGED <<role, password, link>>
         \/ /\ kind[t] = "reactivate" /\ active' = [active EXCEPT ![target[t]] = TRUE]
            /\ UNCHANGED <<role, password, link>>
         \/ /\ kind[t] = "demote" /\ role' = [role EXCEPT ![target[t]] = "staff"]
            /\ UNCHANGED <<active, password, link>>
         \/ /\ kind[t] \notin {"reset", "deactivate", "reactivate", "demote"}
            /\ role' = [role EXCEPT ![target[t]] = "super_admin"]
            /\ UNCHANGED <<active, password, link>>
<1>1. CASE kind[t] = "reset"
  BY <1>1, Zenon DEF Commit
<1>2. CASE kind[t] = "deactivate"
  BY <1>2, Zenon DEF Commit
<1>3. CASE kind[t] = "reactivate"
  BY <1>3, Zenon DEF Commit
<1>4. CASE kind[t] = "demote"
  BY <1>4, Zenon DEF Commit
<1>5. CASE kind[t] \notin {"reset", "deactivate", "reactivate", "demote"}
  BY <1>5, Zenon DEF Commit
<1> QED
  BY <1>1, <1>2, <1>3, <1>4, <1>5

\* A commit touches the user and the link it has locked.
LEMMA CommitTouches ==
  ASSUME RightsTypes, RightsInv, NEW t \in Txs, Commit(t)
  PROVE  /\ role' \in [Users -> {"super_admin", "staff"}] /\ active' \in [Users -> BOOLEAN]
         /\ link' \in [Links -> {"none", "asked", "live", "used"}]
         /\ password' \in 0 .. Cardinality(Used')
         /\ \A u \in Users : userLock[u] # t => role'[u] = role[u] /\ active'[u] = active[u]
         /\ \A l \in Links : linkLock[l] # t => link'[l] = link[l]
         /\ SuperAdminRemains'
<1> USE DEF RightsInv
<1>1. PICK u : u = target[t]
  OBVIOUS
<1>2. /\ tpc[t] \in {"commit", "revoke"}
      /\ kind[t] \in {"reset"} \cup OnUsers
      /\ kind[t] = "reset" => tpc[t] = "revoke" /\ u \in Links /\ linkLock[u] = t /\ link[u] = "live"
      /\ kind[t] # "reset" => u \in Users /\ userLock[u] = t
      /\ tpc[t] = "commit" => kind[t] # "deactivate"
      /\ tpc[t] = "revoke" => kind[t] \in {"deactivate", "demote", "reset"}
  BY <1>1 DEF Commit, Plans, Held, OneUse, OnUsers
<1>3. \/ /\ kind[t] = "reset" /\ password' = password + 1 /\ link' = [link EXCEPT ![u] = "used"]
         /\ UNCHANGED <<role, active>>
      \/ /\ kind[t] = "deactivate" /\ active' = [active EXCEPT ![u] = FALSE]
         /\ UNCHANGED <<role, password, link>>
      \/ /\ kind[t] = "reactivate" /\ active' = [active EXCEPT ![u] = TRUE]
         /\ UNCHANGED <<role, password, link>>
      \/ /\ kind[t] = "demote" /\ role' = [role EXCEPT ![u] = "staff"]
         /\ UNCHANGED <<active, password, link>>
      \/ /\ kind[t] \notin {"reset", "deactivate", "reactivate", "demote"}
         /\ role' = [role EXCEPT ![u] = "super_admin"]
         /\ UNCHANGED <<active, password, link>>
  BY <1>1, CommitWrites
<1>4. CASE kind[t] = "reset"
  <2>1. /\ u \in Links /\ linkLock[u] = t /\ link[u] = "live"
        /\ password' = password + 1 /\ link' = [link EXCEPT ![u] = "used"]
        /\ UNCHANGED <<role, active>>
    BY <1>2, <1>3, <1>4
  <2>2. link' \in [Links -> {"none", "asked", "live", "used"}] /\ \A l \in Links \ {u} : link'[l] = link[l]
    BY <2>1 DEF RightsTypes
  <2>3. Used' = Used \cup {u} /\ u \notin Used
    BY <2>1, <2>2 DEF Used
  <2>4. IsFiniteSet(Used)
    BY AdminsAssumption, FS_Subset DEF Used
  <2>5. Cardinality(Used') = Cardinality(Used) + 1 /\ Cardinality(Used) \in Nat
    BY <2>3, <2>4, FS_AddElement, FS_CardinalityType
  <2>6. password' \in 0 .. Cardinality(Used')
    BY <2>1, <2>5 DEF RightsTypes
  <2> QED
    BY <2>1, <2>2, <2>6 DEF RightsTypes, SuperAdminRemains, IsSuper
<1>5. CASE kind[t] # "reset"
  <2>1. /\ u \in Users /\ userLock[u] = t /\ UNCHANGED <<password, link>>
    BY <1>2, <1>3, <1>5
  <2>2. /\ role' \in [Users -> {"super_admin", "staff"}] /\ active' \in [Users -> BOOLEAN]
        /\ \A v \in Users \ {u} : role'[v] = role[v] /\ active'[v] = active[v]
    BY <1>3, <2>1 DEF RightsTypes
  <2>3. IsSuper(u) => IsSuper(u)' \/ count[t] >= 2
    <3>1. CASE tpc[t] = "revoke"
      BY <1>1, <1>5, <3>1 DEF Judged
    <3>2. CASE tpc[t] = "commit" /\ kind[t] = "demote"
      BY <1>1, <3>2 DEF Judged
    <3>3. CASE tpc[t] = "commit" /\ kind[t] # "demote"
      <4>1. \/ active' = [active EXCEPT ![u] = TRUE] /\ role' = role
            \/ role' = [role EXCEPT ![u] = "super_admin"] /\ active' = active
        BY <1>2, <1>3, <1>5, <3>3
      <4> QED
        BY <2>1, <4>1 DEF IsSuper, RightsTypes
    <3> QED
      BY <1>2, <3>1, <3>2, <3>3
  <2>4. \A v \in Users \ {u} : IsSuper(v) => IsSuper(v)'
    BY <2>2 DEF IsSuper
  <2>5. SuperAdminRemains'
    <3>1. CASE ~IsSuper(u) \/ IsSuper(u)'
      <4>1. PICK v \in Users : IsSuper(v)
        BY DEF SuperAdminRemains
      <4>2. IsSuper(v)'
        BY <2>4, <3>1, <4>1
      <4> QED
        BY <4>2 DEF SuperAdminRemains
    <3>2. CASE IsSuper(u) /\ count[t] >= 2
      <4>1. PICK v, w \in Users : v # w /\ Mine(t, v) /\ Mine(t, w)
        BY <3>2 DEF Counted
      <4>2. \E x \in Users \ {u} : IsSuper(x)
        BY <4>1 DEF Mine
      <4> QED
        BY <2>4, <4>2 DEF SuperAdminRemains
    <3> QED
      BY <2>3, <3>1, <3>2
  <2>6. Used' = Used
    BY <2>1 DEF Used
  <2> QED
    BY <2>1, <2>2, <2>5, <2>6 DEF RightsTypes
<1> QED
  BY <1>4, <1>5

LEMMA CommitKeeps ==
  ASSUME TypeOK, RightsTypes, RightsInv, NEW t \in Txs, Commit(t)
  PROVE  RightsTypes' /\ RightsInv'
<1>1. /\ role' \in [Users -> {"super_admin", "staff"}] /\ active' \in [Users -> BOOLEAN]
      /\ link' \in [Links -> {"none", "asked", "live", "used"}]
      /\ password' \in 0 .. Cardinality(Used')
      /\ \A u \in Users : userLock[u] # t => role'[u] = role[u] /\ active'[u] = active[u]
      /\ \A l \in Links : linkLock[l] # t => link'[l] = link[l]
      /\ SuperAdminRemains'
  BY CommitTouches
<1>2. Release(t) /\ UNCHANGED reqs
  BY DEF Commit
<1>3. PICK S \in SUBSET Sessions : S = {s \in rows[t] : session[s].state # "none"}
  BY DEF RightsInv, Plans
<1>4. session' = Revoke(S)
  BY <1>3 DEF Commit, Revoke
<1>5. \A s \in Sessions : Usable(s)' => Usable(s)
  <2>1. /\ \A s \in S : session'[s].state = "revoked"
        /\ \A s \in Sessions \ S : session'[s] = session[s]
    BY <1>4, Revokes
  <2> QED
    BY <2>1 DEF Usable
<1>6. /\ userLock' \in [Users -> Txs \cup {None}] /\ linkLock' \in [Links -> Txs \cup {None}]
      /\ \A u \in Users : userLock'[u] # None => tpc'[userLock'[u]] \in {"count", "update", "revoke", "commit"}
      /\ tpc' \in [Txs -> TPlaces]
      /\ Plans' /\ Held' /\ Counted' /\ Judged' /\ OneUse' /\ Complete'
  BY <1>1, <1>2, <1>5, ReleaseKeeps
<1> QED
  BY <1>1, <1>6 DEF RightsTypes, RightsInv

\* The rows a transaction revokes are under nobody's claim.
LEMMA CommitRevokes ==
  ASSUME TypeOK, SessionsInv, RightsInv, NEW t \in Txs, Commit(t)
  PROVE  SessionTypes' /\ SessionsInv'
<1>1. UNCHANGED <<seen, next, pc, rowLock, browser>>
  BY DEF Commit, reqs
<1>2. PICK S \in SUBSET Sessions : S = {s \in rows[t] : session[s].state # "none"}
  BY DEF RightsInv, Plans
<1>3. session' = Revoke(S)
  BY <1>2 DEF Commit, Revoke
<1>4. \A s \in S : rowLock[s] = None /\ session[s].state # "none"
  BY <1>2 DEF Commit, SessionsFree, RightsInv, Plans
<1>5. pc' \in [Requests -> Places]
  BY <1>1, TypeParts
<1> QED
  BY <1>1, <1>3, <1>4, <1>5, RevokingKeeps

\* Links are asked for and retired; those being used up are not among them.
LEMMA LinksKeep ==
  ASSUME RightsTypes, RightsInv, NEW l \in Links, RetireLinks(l) \/ InsertLink(l)
  PROVE  RightsTypes' /\ RightsInv'
<1> USE DEF RightsInv
<1>1. UNCHANGED <<role, active, password, session, userLock, linkLock, pc, tpc, kind, target, todo, count, rows>>
  BY DEF RetireLinks, InsertLink, users, locks, reqs, txs
<1>2. /\ link' \in [Links -> {"none", "asked", "live", "used"}]
      /\ \A k \in Links : link[k] = "used" => link'[k] = "used"
      /\ \A k \in Links : link[k] = "live" /\ linkLock[k] # None => link'[k] = "live"
  <2>1. CASE InsertLink(l)
    BY <2>1 DEF InsertLink, RightsTypes
  <2>2. CASE RetireLinks(l)
    <3>1. /\ link[l] = "none" /\ \A k \in Links : link[k] = "live" => linkLock[k] = None
          /\ link' = [k \in Links |-> CASE k \in {x \in Links : link[x] = "live"} -> "used"
                                        [] k = l -> "asked" [] OTHER -> link[k]]
      BY <2>2, Zenon DEF RetireLinks
    <3>2. ASSUME NEW k \in Links
          PROVE  link'[k] \in {"used", "asked", link[k]} /\ (link[k] = "used" => link'[k] = "used")
      <4>1. link'[k] = CASE k \in {x \in Links : link[x] = "live"} -> "used"
                         [] k = l -> "asked" [] OTHER -> link[k]
        BY <3>1, Zenon
      <4>2. CASE link[k] = "live"
        <5>1. link'[k] = "used"
          BY <4>1, <4>2, <3>1, Zenon
        <5> QED
          BY <4>2, <5>1
      <4>3. CASE link[k] # "live" /\ k = l
        <5>1. link'[k] = "asked"
          BY <4>1, <4>3, Zenon
        <5> QED
          BY <3>1, <4>3, <5>1
      <4>4. CASE link[k] # "live" /\ k # l
        <5>1. link'[k] = link[k]
          BY <4>1, <4>4, Zenon
        <5> QED
          BY <5>1
      <4> QED
        BY <4>2, <4>3, <4>4
    <3>3. link' = [k \in Links |-> link'[k]]
      BY <3>1, Zenon
    <3> QED
      BY <3>1, <3>2, <3>3 DEF RightsTypes
  <2> QED
    BY <2>1, <2>2
<1>3. password' \in 0 .. Cardinality(Used')
  <2>1. Used \subseteq Used' /\ Used' \subseteq Links
    BY <1>2 DEF Used
  <2>2. IsFiniteSet(Used') /\ IsFiniteSet(Used)
    BY <2>1, AdminsAssumption, FS_Subset
  <2>3. Cardinality(Used) <= Cardinality(Used') /\ Cardinality(Used) \in Nat /\ Cardinality(Used') \in Nat
    BY <2>1, <2>2, FS_Subset, FS_CardinalityType
  <2> QED
    BY <1>1, <2>3 DEF RightsTypes
<1>4. RightsTypes'
  BY <1>1, <1>2, <1>3 DEF RightsTypes
<1>5. Plans' /\ Held' /\ Counted' /\ Judged' /\ SuperAdminRemains' /\ Complete'
  BY <1>1 DEF Plans, Held, KeyShared, Counted, Judged, SuperAdminRemains, Complete, Mine, IsSuper, Usable
<1>6. OneUse'
  BY <1>1, <1>2, Names DEF OneUse, Plans
<1> QED
  BY <1>4, <1>5, <1>6

-----------------------------------------------------------------------------
(* The invariant.                                                          *)

LEMMA InvInit == Init => IInv
<1> SUFFICES ASSUME Init PROVE IInv
  OBVIOUS
<1>1. SessionTypes
  BY DEF Init, SessionTypes, Row, States, Places, NoRow
<1>2. Used = {}
  BY DEF Init, Used
<1>3. Cardinality(Used) = 0
  BY <1>2, FS_EmptySet
<1>4. RightsTypes
  BY <1>3 DEF Init, RightsTypes, TPlaces
<1>5. SessionsInv
  BY DEF Init, SessionsInv, Steps, Present, Claims, Unseen, Superseded, OneSuccessor, OnTheWay, NoRow
<1>6. Plans /\ Held /\ Counted /\ Judged /\ OneUse /\ Complete
  BY AdminsAssumption DEF Init, Plans, OnUsers, Held, KeyShared, Counted, Judged, OneUse, Complete
<1>7. SuperAdminRemains
  BY AdminsAssumption DEF Init, SuperAdminRemains, IsSuper
<1> QED
  BY <1>1, <1>4, <1>5, <1>6, <1>7, TypeSides DEF IInv, RightsInv

LEMMA SessionsStep ==
  ASSUME IInv, [Next]_vars
  PROVE  SessionTypes' /\ SessionsInv'
<1> USE DEF IInv
<1>0. SessionTypes
  BY TypeSides
<1>1. ASSUME NEW r \in Requests, StatementFails(r) PROVE SessionTypes' /\ SessionsInv'
  BY <1>1, GivingUpKeeps DEF StatementFails
<1>2. CASE UNCHANGED <<session, rowLock, browser, reqs>>
  BY <1>0, <1>2, ElsewhereKeeps
<1>3. CASE \E r \in Requests :
             \/ getAdminUser(r) \/ ClaimUpdate(r) \/ ClaimInsert(r) \/ ClaimCommit(r) \/ revertClaim(r)
             \/ StatementFails(r) \/ LoseCookie(r) \/ Arrive(r)
             \/ Login(r) \/ createAdminSession(r) \/ Logout(r) \/ RevokeSuperseded(r)
  BY <1>1, <1>3, GetAdminUserKeeps, ClaimUpdateKeeps, ClaimInsertKeeps, ClaimCommitKeeps, RevertClaimKeeps,
     LoseCookieKeeps, ArriveKeeps, LoginKeeps, CreateAdminSessionKeeps, LogoutKeeps, RevokeSupersededKeeps
<1>4. ASSUME NEW t \in Txs,
             \/ deactivateAdminUser(t) \/ reactivateAdminUser(t) \/ changeAdminRole(t)
             \/ countActiveSuperAdminsTx(t) \/ LockTarget(t)
             \/ (\E l \in Links : BeginReset(t, l)) \/ ConsumeLink(t) \/ UpdatePassword(t)
             \/ PickSessions(t) \/ Rollback(t)
      PROVE  UNCHANGED <<session, rowLock, browser, reqs>>
  BY <1>4 DEF deactivateAdminUser, reactivateAdminUser, changeAdminRole, Begin, countActiveSuperAdminsTx,
     LockTarget, BeginReset, ConsumeLink, UpdatePassword, PickSessions, Rollback, locks
<1>5. ASSUME NEW l \in Links, RetireLinks(l) \/ InsertLink(l)
      PROVE  UNCHANGED <<session, rowLock, browser, reqs>>
  BY <1>5 DEF RetireLinks, InsertLink, locks
<1>6. ASSUME UNCHANGED vars PROVE UNCHANGED <<session, rowLock, browser, reqs>>
  BY <1>6 DEF vars, locks
<1> QED
  BY <1>2, <1>3, <1>4, <1>5, <1>6, NextCases, CommitRevokes, TimeKeeps

\* Requests and time make a session usable only while the row of Me is free.
LEMMA RequestsAside ==
  ASSUME IInv, NEW r \in Requests,
         \/ getAdminUser(r) \/ ClaimUpdate(r) \/ ClaimInsert(r) \/ ClaimCommit(r) \/ revertClaim(r)
         \/ StatementFails(r) \/ LoseCookie(r) \/ Arrive(r)
         \/ Login(r) \/ createAdminSession(r) \/ Logout(r) \/ RevokeSuperseded(r)
  PROVE  /\ KeyShared' => KeyShared \/ UserFree
         /\ \A s \in Sessions : Usable(s)' => Usable(s) \/ UserFree
<1> USE DEF IInv
<1>1. KeyShared' => KeyShared \/ UserFree
  <2>1. ASSUME KeyShared' PROVE KeyShared \/ ClaimInsert(r)
    <3>1. PICK q \in Requests : pc'[q] = "inserted"
      BY <2>1 DEF KeyShared
    <3>2. CASE q # r
      <4>1. pc[q] = "inserted"
        BY <3>1, <3>2, TypeParts DEF getAdminUser, ClaimUpdate, ClaimInsert, ClaimCommit, revertClaim,
           StatementFails, LoseCookie, Arrive, Login, createAdminSession, Logout, RevokeSuperseded, Go, Idle
      <4> QED
        BY <4>1 DEF KeyShared
    <3>3. CASE q = r
      BY <3>1, <3>3, TypeParts DEF getAdminUser, ClaimUpdate, ClaimInsert, ClaimCommit, revertClaim,
         StatementFails, LoseCookie, Arrive, Login, createAdminSession, Logout, RevokeSuperseded, Go, Idle
    <3> QED
      BY <3>2, <3>3
  <2> QED
    BY <2>1 DEF ClaimInsert
<1>2. ASSUME NEW s \in Sessions, Usable(s)' PROVE Usable(s) \/ UserFree
  <2>1. CASE ClaimCommit(r)
    <3>1. KeyShared
      BY <2>1 DEF ClaimCommit, KeyShared
    <3> QED
      BY <3>1 DEF UserFree, RightsInv, Held
  <2>2. CASE createAdminSession(r)
    BY <2>2 DEF createAdminSession
  <2>3. CASE revertClaim(r)
    BY <1>2, <2>3, RevertRestores, NewRows DEF Usable, SessionsInv
  <2>4. CASE Logout(r)
    <3>1. cookie \in Sessions /\ (session' = session \/ session' = Revoke({cookie}))
      BY <2>4, TypeParts DEF Logout
    <3>2. PICK S \in SUBSET Sessions : S = {cookie}
      BY <3>1
    <3>3. session' = session \/ session' = Revoke(S)
      BY <3>1, <3>2 DEF Revoke
    <3>4. CASE session' = Revoke(S)
      BY <1>2, <3>4, Revokes DEF Usable
    <3> QED
      BY <1>2, <3>3, <3>4 DEF Usable
  <2>5. CASE RevokeSuperseded(r)
    <3>1. PICK S \in SUBSET Sessions : S = {x \in Sessions : session[x].state = "grace"}
      OBVIOUS
    <3>2. session' = Revoke(S)
      BY <2>5, <3>1 DEF RevokeSuperseded, Revoke
    <3> QED
      BY <1>2, <3>2, Revokes DEF Usable
  <2>6. CASE \/ getAdminUser(r) \/ ClaimUpdate(r) \/ ClaimInsert(r)
             \/ StatementFails(r) \/ LoseCookie(r) \/ Arrive(r) \/ Login(r)
    <3>1. session' = session
      BY <2>6 DEF getAdminUser, ClaimUpdate, ClaimInsert, StatementFails, LoseCookie, Arrive, Login
    <3> QED
      BY <1>2, <3>1 DEF Usable
  <2> QED
    BY <2>1, <2>2, <2>3, <2>4, <2>5, <2>6
<1> QED
  BY <1>1, <1>2

LEMMA RightsStep ==
  ASSUME IInv, [Next]_vars
  PROVE  RightsTypes' /\ RightsInv'
<1> USE DEF IInv
<1>0. RightsTypes
  BY TypeSides
<1>1. ASSUME NEW r \in Requests,
             \/ getAdminUser(r) \/ ClaimUpdate(r) \/ ClaimInsert(r) \/ ClaimCommit(r) \/ revertClaim(r)
             \/ StatementFails(r) \/ LoseCookie(r) \/ Arrive(r)
             \/ Login(r) \/ createAdminSession(r) \/ Logout(r) \/ RevokeSuperseded(r)
      PROVE  RightsTypes' /\ RightsInv'
  <2>1. UNCHANGED <<users, link, userLock, linkLock, txs>>
    BY <1>1 DEF getAdminUser, ClaimUpdate, ClaimInsert, ClaimCommit, revertClaim, StatementFails,
       LoseCookie, Arrive, Login, createAdminSession, Logout, RevokeSuperseded, locks
  <2> QED
    BY <1>0, <1>1, <2>1, RequestsAside, AsideKeeps
<1>2. ASSUME NEW s \in Sessions, BecomesDue(s) \/ GraceEnds(s) PROVE RightsTypes' /\ RightsInv'
  <2>1. UNCHANGED <<users, link, userLock, linkLock, txs, pc>>
    BY <1>2 DEF BecomesDue, GraceEnds, locks, reqs
  <2>2. PICK state \in {"due", "over"} : Becomes(s, state) /\ Usable(s)
    BY <1>2 DEF BecomesDue, GraceEnds, Becomes, Usable
  <2>3. \A x \in Sessions : Usable(x)' => Usable(x)
    BY <2>2, SetState DEF Usable, States
  <2>4. KeyShared' => KeyShared
    BY <2>1 DEF KeyShared
  <2> QED
    BY <1>0, <2>1, <2>3, <2>4, AsideKeeps
<1>3. ASSUME NEW t \in Txs, deactivateAdminUser(t) \/ reactivateAdminUser(t) \/ changeAdminRole(t)
      PROVE  RightsTypes' /\ RightsInv'
  <2>1. PICK u \in Users, what \in OnUsers : Begin(t, what, u)
    BY <1>3 DEF deactivateAdminUser, reactivateAdminUser, changeAdminRole, OnUsers
  <2> QED
    BY <1>0, <2>1, BeginKeeps
<1>4. ASSUME NEW t \in Txs, Rollback(t) PROVE RightsTypes' /\ RightsInv'
  BY <1>0, <1>4, EndsKeeps DEF Rollback
<1>5. CASE UNCHANGED vars
  <2>1. UNCHANGED <<users, link, userLock, linkLock, txs, session, pc>>
    BY <1>5 DEF vars, locks, reqs
  <2> QED
    BY <1>0, <2>1, AsideKeeps DEF KeyShared, Usable
<1> QED
  BY <1>0, <1>1, <1>2, <1>3, <1>4, <1>5, NextCases, CountActiveSuperAdminsKeeps, LockTargetKeeps,
     BeginResetKeeps, ConsumeLinkKeeps, UpdatePasswordKeeps, PickSessionsKeeps, CommitKeeps, LinksKeep

LEMMA InvStep == IInv /\ [Next]_vars => IInv'
<1>1. TypeOK' <=> SessionTypes' /\ RightsTypes'
  BY DEF TypeOK, SessionTypes, RightsTypes, States, Row, Places, TPlaces, Used
<1> QED
  BY <1>1, SessionsStep, RightsStep DEF IInv

THEOREM InvHolds == Spec => []IInv
BY InvInit, InvStep, PTL DEF Spec

-----------------------------------------------------------------------------
(* Results.                                                                *)

\* Rows, links, locks and steps are what they may be; no password changes
\* without a reset link of its own.
THEOREM TypeCorrect == Spec => []TypeOK
BY InvHolds, PTL DEF IInv

\* The transactions that take rights away count under their locks: whatever
\* they do at the same time, an active super_admin is left.
THEOREM SuperAdminStays == Spec => []SuperAdminRemains
BY InvHolds, PTL DEF IInv, RightsInv

\* The claim's compare-and-set: parallel requests rotate a session once.
THEOREM RotatedOnce == Spec => []OneSuccessor
BY InvHolds, PTL DEF IInv, SessionsInv

\* The grace period and the order of answers: rotation logs nobody out.
THEOREM StaysIn == Spec => []BrowserStaysIn
<1>1. IInv => BrowserStaysIn
  <2>1. SUFFICES ASSUME IInv, ~lost, cookie # None
                 PROVE  Valid(cookie) \/ session[cookie].state = "revoked"
    BY DEF BrowserStaysIn
  <2>2. cookie \in Sessions /\ session[cookie].state \in States
    BY <2>1, TypeParts DEF IInv, Row
  <2>3. session[cookie].state \notin {"none", "over"}
    BY <2>1 DEF IInv, SessionsInv, Present, OnTheWay
  <2> QED
    BY <2>2, <2>3 DEF Valid, States
<1> QED
  BY <1>1, InvHolds, PTL

\* Users change in commits only.
LEMMA OnlyCommits ==
  ASSUME [Next]_vars, ~ UNCHANGED <<role, active>>
  PROVE  \E t \in Txs : Commit(t)
<1>1. ASSUME NEW r \in Requests,
             \/ getAdminUser(r) \/ ClaimUpdate(r) \/ ClaimInsert(r) \/ ClaimCommit(r) \/ revertClaim(r)
             \/ StatementFails(r) \/ LoseCookie(r) \/ Arrive(r)
             \/ Login(r) \/ createAdminSession(r) \/ Logout(r) \/ RevokeSuperseded(r)
      PROVE  UNCHANGED users
  BY <1>1 DEF getAdminUser, ClaimUpdate, ClaimInsert, ClaimCommit, revertClaim, StatementFails,
     LoseCookie, Arrive, Login, createAdminSession, Logout, RevokeSuperseded
<1>2. ASSUME NEW t \in Txs,
             \/ deactivateAdminUser(t) \/ reactivateAdminUser(t) \/ changeAdminRole(t)
             \/ countActiveSuperAdminsTx(t) \/ LockTarget(t)
             \/ (\E l \in Links : BeginReset(t, l)) \/ ConsumeLink(t) \/ UpdatePassword(t)
             \/ PickSessions(t) \/ Rollback(t)
      PROVE  UNCHANGED users
  BY <1>2 DEF deactivateAdminUser, reactivateAdminUser, changeAdminRole, Begin, countActiveSuperAdminsTx,
     LockTarget, BeginReset, ConsumeLink, UpdatePassword, PickSessions, Rollback
<1>3. ASSUME NEW l \in Links, RetireLinks(l) \/ InsertLink(l) PROVE UNCHANGED users
  BY <1>3 DEF RetireLinks, InsertLink
<1>4. ASSUME NEW s \in Sessions, BecomesDue(s) \/ GraceEnds(s) PROVE UNCHANGED users
  BY <1>4 DEF BecomesDue, GraceEnds
<1>5. ~ UNCHANGED users
  BY DEF users
<1> QED
  BY <1>1, <1>2, <1>3, <1>4, <1>5, NextCases DEF vars

\* The locks on the row of Me and the rows picked under them: rights that end
\* take every session along.
THEOREM RightsEnd == Spec => RightsEndSessions
<1>1. ASSUME IInv, [Next]_vars, IsSuper(Me), ~(IsSuper(Me))', NEW s \in Sessions
      PROVE  ~Valid(s)'
  <2> USE DEF IInv, RightsInv
  <2>1. PICK t \in Txs : Commit(t)
    BY <1>1, OnlyCommits DEF IsSuper
  <2>2. kind[t] \in {"deactivate", "demote"} /\ target[t] = Me
    <3>1. Me \in Users /\ role \in [Users -> {"super_admin", "staff"}] /\ active \in [Users -> BOOLEAN]
      BY <1>1, AdminsAssumption, TypeParts
    <3>2. \/ kind[t] = "reset" /\ UNCHANGED <<role, active>>
          \/ kind[t] = "deactivate" /\ active' = [active EXCEPT ![target[t]] = FALSE] /\ role' = role
          \/ active' = [active EXCEPT ![target[t]] = TRUE] /\ role' = role
          \/ kind[t] = "demote" /\ role' = [role EXCEPT ![target[t]] = "staff"] /\ active' = active
          \/ role' = [role EXCEPT ![target[t]] = "super_admin"] /\ active' = active
      BY <2>1, CommitWrites
    <3> QED
      BY <1>1, <3>1, <3>2 DEF IsSuper
  <2>3. tpc[t] = "revoke"
    BY <1>1, <2>1, <2>2 DEF Commit, Plans, Judged
  <2>4. \A x \in Sessions : Usable(x) => x \in rows[t]
    BY <1>1, <2>2, <2>3 DEF Complete
  <2>5. PICK S \in SUBSET Sessions : S = {x \in rows[t] : session[x].state # "none"}
    BY <1>1 DEF Plans
  <2>6. session' = Revoke(S)
    BY <2>1, <2>5 DEF Commit, Revoke
  <2>7. /\ \A x \in S : session'[x].state = "revoked"
        /\ \A x \in Sessions \ S : session'[x] = session[x]
    BY <1>1, <2>6, Revokes
  <2> QED
    BY <2>4, <2>5, <2>7 DEF Valid, Usable
<1>2. IInv /\ [Next]_vars =>
        [IsSuper(Me) /\ ~(IsSuper(Me))' => \A s \in Sessions : ~Valid(s)']_vars
  BY <1>1
<1> QED
  BY <1>2, InvHolds, PTL DEF Spec, RightsEndSessions
=============================================================================
