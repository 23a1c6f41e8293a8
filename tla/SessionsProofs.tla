--------------------------- MODULE SessionsProofs ---------------------------
(***************************************************************************)
(* What Sessions guarantees for every number of sessions, peers and        *)
(* concurrent requests and for all lifetimes with IdleTTL <= HardTTL.      *)
(***************************************************************************)
EXTENDS Sessions, TLAPS

(* What a request in flight knows: its session exists (or is a fresh id    *)
(* while it is being inserted), and the row it read agrees with the stored *)
(* one in the columns that never change.                                   *)
InsertsFresh(r) ==
  At(r, "insert") => /\ req[r].sid \notin stored
                     /\ \A q \in Requests \ {r} : At(q, "insert") => req[q].sid # req[r].sid

SessionExists(r) ==
  req[r].pc \in {"auditCreate", "check", "write", "mark", "auditRevoke"} => req[r].sid \in stored

SnapshotAgrees(r) ==
  req[r].pc \in {"check", "write"} =>
    /\ req[r].seen.created = rows[req[r].sid].created
    /\ req[r].seen.expires <= req[r].seen.created + HardTTL

WithinCap(r) == At(r, "write") => req[r].at <= req[r].seen.created + HardTTL

RevocationSeen(r) ==
  /\ At(r, "auditRevoke") => rows[req[r].sid].revoked
  /\ At(r, "check") /\ req[r].seen.revoked => rows[req[r].sid].revoked
  /\ At(r, "check") /\ req[r].afterRevoked => req[r].seen.revoked
  /\ At(r, "write") => ~req[r].afterRevoked

InFlight(r) ==
  /\ InsertsFresh(r)
  /\ SessionExists(r)
  /\ SnapshotAgrees(r)
  /\ WithinCap(r)
  /\ RevocationSeen(r)

(* What has been told or audited about a session is so. *)
ToldIsTrue ==
  /\ \A s \in toldRevoked : s \in stored /\ rows[s].revoked
  /\ \A s \in SessionIds : <<"revoke", s>> \in audited => s \in stored /\ rows[s].revoked
  /\ \A s \in known : <<"create", s>> \in audited

IInv ==
  /\ TypeOK
  /\ SlidingExpiry
  /\ ToldIsTrue
  /\ \A r \in Requests : InFlight(r)

-----------------------------------------------------------------------------
(* What TimeoutIsFinal and ActivityExtendsSession need on top: two         *)
(* validations of one session at once are noted.                           *)
OverlapNoted ==
  \A q, r \in Requests : \A s \in SessionIds :
    q # r /\ Validating(q, s) /\ Validating(r, s) => s \in contended

(* The session a request works on is one a client was given, except the    *)
(* one that is being created, which nobody has touched since its INSERT.   *)
Acquainted(r) ==
  req[r].pc \in {"check", "write", "mark", "auditRevoke"} => req[r].sid \in known

CreatesAlone(r) ==
  At(r, "auditCreate") =>
    /\ req[r].sid \notin known
    /\ rows[req[r].sid].created = req[r].at
    /\ rows[req[r].sid].lastSeen = req[r].at
    /\ \A q \in Requests \ {r} : At(q, "auditCreate") => req[q].sid # req[r].sid

(* A request takes its time from the clock, and its snapshot is no newer   *)
(* than the last use of the session.                                       *)
TimesAgree(r) ==
  /\ req[r].pc \in {"insert", "auditCreate", "write"} => req[r].at <= clock
  /\ req[r].pc \in {"check", "write"} =>
       /\ req[r].seen.lastSeen <= used[req[r].sid]
       /\ req[r].seen.expires <= req[r].seen.lastSeen + IdleTTL
       /\ req[r].afterExpired => req[r].sid \in toldExpired
  /\ At(r, "write") => req[r].at <= used[req[r].sid] + IdleTTL

(* Without an overlap the snapshot is the stored row, an expired session   *)
(* is not accepted and uses follow one another in time.                    *)
AloneIsCurrent(r) ==
  req[r].pc \in {"check", "write"} /\ req[r].sid \notin contended =>
    /\ req[r].seen.expires = rows[req[r].sid].expires
    /\ At(r, "write") => req[r].sid \notin toldExpired /\ used[req[r].sid] <= req[r].at

InTime(r) ==
  /\ Acquainted(r)
  /\ CreatesAlone(r)
  /\ TimesAgree(r)
  /\ AloneIsCurrent(r)

(* The use of a session against its row: a row is never ahead of the last  *)
(* use; without an overlap it is not behind it either, and a session that  *)
(* was called expired is past its expiry.                                  *)
UseInRow(s) ==
  /\ used[s] <= clock
  /\ s \in known => rows[s].lastSeen <= used[s]
  /\ s \in known \ contended => BoughtWindow(s)
  /\ s \in toldExpired => s \in known
  /\ s \in toldExpired \ contended => rows[s].expires < clock

TimeInv ==
  /\ OverlapNoted
  /\ \A r \in Requests : InTime(r)
  /\ \A s \in SessionIds : UseInRow(s)

-----------------------------------------------------------------------------
(* The default records are well typed, and an expiry is a time. *)
LEMMA DefaultsTyped == IdleRequest \in Request /\ BlankRow \in Row
BY SomePeer, SomeSession DEF IdleRequest, BlankRow, Request, Row, Steps

LEMMA NewExpiryBound ==
  ASSUME NEW now \in Nat, NEW created \in Nat
  PROVE  /\ NewExpiry(now, created) \in Nat
         /\ NewExpiry(now, created) <= created + HardTTL
         /\ NewExpiry(created, created) = created + IdleTTL
BY TTLAssumption DEF NewExpiry, Earlier

LEMMA GotoTyped ==
  ASSUME req \in [Requests -> Request], NEW r \in Requests, NEW step \in Steps, Goto(r, step)
  PROVE  req' \in [Requests -> Request]
BY DEF Goto, Request

LEMMA FinishTyped ==
  ASSUME req \in [Requests -> Request], NEW r \in Requests, Finish(r)
  PROVE  req' \in [Requests -> Request]
BY DefaultsTyped DEF Finish

(* The agent starts in a state of the invariant: no row, no request. *)
LEMMA InitIInv == Init => IInv
<1> SUFFICES ASSUME Init PROVE IInv
  OBVIOUS
<1>1. TypeOK
  BY DefaultsTyped DEF Init, TypeOK
<1>2. SlidingExpiry /\ ToldIsTrue
  BY DEF Init, SlidingExpiry, ToldIsTrue
<1>3. \A r \in Requests : InFlight(r)
  BY DEF Init, InFlight, InsertsFresh, SessionExists, SnapshotAgrees, WithinCap,
         RevocationSeen, At, IdleRequest
<1> QED
  BY <1>1, <1>2, <1>3 DEF IInv

(* Every step keeps every variable in its type. *)
LEMMA NextTypeOK == IInv /\ [Next]_vars => TypeOK'
<1> SUFFICES ASSUME IInv, [Next]_vars PROVE TypeOK'
  OBVIOUS
<1> USE DefaultsTyped, TTLAssumption DEF IInv, TypeOK
<1>1. CASE Tick
  BY <1>1 DEF Tick
<1>2. CASE \E r \in Requests : Serve(r)
  <2> PICK r \in Requests : Serve(r)
    BY <1>2
  <2>1. ASSUME NEW s \in SessionIds, NEW p \in Peers, BeginCreate(r, s, p) PROVE TypeOK'
    BY <2>1 DEF BeginCreate, Request, Steps
  <2>2. CASE InsertSession(r)
    <3>1. req' \in [Requests -> Request]
      BY <2>2, GotoTyped DEF InsertSession, Steps
    <3>2. req[r].sid \in SessionIds /\ req[r].at \in Nat /\ req[r].peer \in Peers
      BY DEF Request
    <3>3. rows' \in [SessionIds -> Row]
      BY <2>2, <3>2 DEF InsertSession, Row
    <3> QED
      BY <2>2, <3>1, <3>2, <3>3 DEF InsertSession
  <2>3. CASE AuditCreate(r)
    <3>1. req[r].sid \in stored
      BY <2>3 DEF AuditCreate, InFlight, SessionExists, At
    <3>2. req' \in [Requests -> Request]
      BY <2>3, FinishTyped DEF AuditCreate
    <3>3. req[r].sid \in SessionIds /\ req[r].at \in Nat
      BY DEF Request
    <3> QED
      BY <2>3, <3>1, <3>2, <3>3 DEF AuditCreate
  <2>4. ASSUME NEW s \in SessionIds, NEW p \in Peers, BeginValidate(r, s, p) PROVE TypeOK'
    <3> DEFINE new == [IdleRequest EXCEPT
                         !.pc = "check", !.sid = s, !.peer = p, !.seen = rows[s],
                         !.afterRevoked = s \in toldRevoked, !.afterExpired = s \in toldExpired]
    <3>1. (s \in toldRevoked) \in BOOLEAN /\ (s \in toldExpired) \in BOOLEAN
      OBVIOUS
    <3>2. new \in Request
      BY <3>1 DEF Request, Steps
    <3>3. req' = [req EXCEPT ![r] = new]
      BY <2>4 DEF BeginValidate
    <3> HIDE DEF new
    <3> QED
      BY <2>4, <3>2, <3>3 DEF BeginValidate
  <2>5. CASE RefuseRevoked(r)
    <3>1. req' \in [Requests -> Request]
      BY <2>5, FinishTyped DEF RefuseRevoked
    <3>2. req[r].sid \in SessionIds
      BY DEF Request
    <3> QED
      BY <2>5, <3>1, <3>2 DEF RefuseRevoked
  <2>6. CASE RefuseExpired(r)
    <3>1. req' \in [Requests -> Request]
      BY <2>6, FinishTyped DEF RefuseExpired
    <3>2. req[r].sid \in SessionIds
      BY DEF Request
    <3> QED
      BY <2>6, <3>1, <3>2 DEF RefuseExpired
  <2>7. CASE RefusePeer(r)
    BY <2>7, FinishTyped DEF RefusePeer
  <2>8. CASE PassChecks(r)
    BY <2>8 DEF PassChecks, Request, Steps
  <2>9. CASE WriteValidate(r)
    <3>1. req[r].at \in Nat /\ req[r].seen.created \in Nat /\ req[r].sid \in SessionIds
      BY DEF Request, Row
    <3>2. NewExpiry(req[r].at, req[r].seen.created) \in Nat
      BY <3>1, NewExpiryBound
    <3>3. rows' \in [SessionIds -> Row]
      BY <2>9, <3>1, <3>2 DEF WriteValidate, Row
    <3>4. used' \in [SessionIds -> Nat]
      BY <2>9, <3>1 DEF WriteValidate, Later
    <3>5. req' \in [Requests -> Request]
      BY <2>9, FinishTyped DEF WriteValidate
    <3> QED
      BY <2>9, <3>3, <3>4, <3>5 DEF WriteValidate
  <2>10. ASSUME NEW s \in SessionIds, BeginRevoke(r, s) PROVE TypeOK'
    BY <2>10 DEF BeginRevoke, Request, Steps
  <2>11. CASE MarkRevoked(r)
    <3>1. req' \in [Requests -> Request]
      BY <2>11, GotoTyped DEF MarkRevoked, Steps
    <3>2. rows' \in [SessionIds -> Row]
      BY <2>11 DEF MarkRevoked, Row
    <3> QED
      BY <2>11, <3>1, <3>2 DEF MarkRevoked
  <2>12. CASE AuditRevoke(r)
    <3>1. req' \in [Requests -> Request]
      BY <2>12, FinishTyped DEF AuditRevoke
    <3>2. req[r].sid \in SessionIds
      BY DEF Request
    <3> QED
      BY <2>12, <3>1, <3>2 DEF AuditRevoke
  <2>13. CASE Cancel(r)
    BY <2>13, FinishTyped DEF Cancel
  <2> QED
    BY <2>1, <2>2, <2>3, <2>4, <2>5, <2>6, <2>7, <2>8, <2>9, <2>10, <2>11, <2>12, <2>13 DEF Serve
<1>3. CASE UNCHANGED vars
  BY <1>3 DEF vars
<1> QED
  BY <1>1, <1>2, <1>3 DEF Next

(* A stored row keeps its identity, and a revocation is never undone: the  *)
(* only INSERT is of a fresh id, and the two UPDATEs touch other columns.  *)
LEMMA NextKeepsRows ==
  IInv /\ [Next]_vars => \A s \in stored :
     /\ s \in stored'
     /\ rows'[s].created = rows[s].created /\ rows'[s].peer = rows[s].peer
     /\ rows[s].revoked => rows'[s].revoked
<1> SUFFICES ASSUME IInv, [Next]_vars, NEW s \in stored
             PROVE  /\ s \in stored'
                    /\ rows'[s].created = rows[s].created /\ rows'[s].peer = rows[s].peer
                    /\ rows[s].revoked => rows'[s].revoked
  OBVIOUS
<1> USE DEF IInv, TypeOK
<1>1. CASE \E r \in Requests : InsertSession(r) \/ WriteValidate(r) \/ MarkRevoked(r)
  <2> PICK r \in Requests : InsertSession(r) \/ WriteValidate(r) \/ MarkRevoked(r)
    BY <1>1
  <2>1. CASE InsertSession(r)
    <3>1. req[r].sid # s
      BY <2>1 DEF InsertSession, InFlight, InsertsFresh
    <3> QED
      BY <2>1, <3>1 DEF InsertSession
  <2>2. CASE WriteValidate(r)
    BY <2>2 DEF WriteValidate, Row
  <2>3. CASE MarkRevoked(r)
    BY <2>3 DEF MarkRevoked, Row
  <2> QED
    BY <2>1, <2>2, <2>3
<1>2. CASE UNCHANGED <<stored, rows>>
  BY <1>2
<1> QED
  BY <1>1, <1>2 DEF Next, Tick, Serve, BeginCreate, AuditCreate, BeginValidate, RefuseRevoked,
     RefuseExpired, RefusePeer, PassChecks, BeginRevoke, AuditRevoke, Cancel, vars

(* A step serves one request and leaves what the others hold alone. *)
LEMMA OthersUntouched ==
  ASSUME TypeOK, NEW r \in Requests, Serve(r), NEW q \in Requests, q # r
  PROVE  req'[q] = req[q]
BY DEF TypeOK, Serve, BeginCreate, InsertSession, AuditCreate, BeginValidate, RefuseRevoked,
   RefuseExpired, RefusePeer, PassChecks, WriteValidate, BeginRevoke, MarkRevoked, AuditRevoke,
   Cancel, Finish, Goto

(* Expiries stay in step with last_seen. *)
LEMMA NextSliding == IInv /\ [Next]_vars => SlidingExpiry'
<1> SUFFICES ASSUME IInv, [Next]_vars, NEW s \in stored'
             PROVE  rows'[s].expires = NewExpiry(rows'[s].lastSeen, rows'[s].created)
  BY DEF SlidingExpiry, NewExpiry, Earlier
<1> USE DEF IInv, TypeOK
<1>1. CASE \E r \in Requests : InsertSession(r) \/ WriteValidate(r) \/ MarkRevoked(r)
  <2> PICK r \in Requests : InsertSession(r) \/ WriteValidate(r) \/ MarkRevoked(r)
    BY <1>1
  <2> DEFINE id == req[r].sid
  <2>0. id \in SessionIds /\ req[r].at \in Nat
    BY DEF Request
  <2>1. CASE InsertSession(r)
    <3>1. NewExpiry(req[r].at, req[r].at) = req[r].at + IdleTTL
      BY <2>0, NewExpiryBound
    <3>2. CASE s = id
      BY <2>0, <2>1, <3>1, <3>2 DEF InsertSession
    <3>3. CASE s # id
      BY <2>1, <3>3 DEF InsertSession, SlidingExpiry
    <3> QED
      BY <3>2, <3>3
  <2>2. CASE WriteValidate(r)
    <3>1. id \in stored /\ req[r].seen.created = rows[id].created
      BY <2>2 DEF WriteValidate, InFlight, SnapshotAgrees, SessionExists, At
    <3>2. CASE s = id
      BY <2>0, <2>2, <3>1, <3>2 DEF WriteValidate, Row
    <3>3. CASE s # id
      BY <2>2, <3>3 DEF WriteValidate, SlidingExpiry
    <3> QED
      BY <3>2, <3>3
  <2>3. CASE MarkRevoked(r)
    BY <2>3 DEF MarkRevoked, SlidingExpiry, Row
  <2> QED
    BY <2>1, <2>2, <2>3
<1>2. CASE UNCHANGED <<stored, rows>>
  BY <1>2 DEF SlidingExpiry
<1> QED
  BY <1>1, <1>2 DEF Next, Tick, Serve, BeginCreate, AuditCreate, BeginValidate, RefuseRevoked,
     RefuseExpired, RefusePeer, PassChecks, BeginRevoke, AuditRevoke, Cancel, vars

(* What callers and the audit log are told stays true.  The three answers  *)
(* that add to it are a refusal, an answered revocation and its audit row. *)
LEMMA NextTold == IInv /\ [Next]_vars => ToldIsTrue'
<1> SUFFICES ASSUME IInv, [Next]_vars PROVE ToldIsTrue'
  OBVIOUS
<1> USE DEF IInv, TypeOK
<1>1. \A s \in stored : s \in stored' /\ (rows[s].revoked => rows'[s].revoked)
  BY NextKeepsRows
<1>2. CASE \E r \in Requests : AuditCreate(r) \/ RefuseRevoked(r) \/ AuditRevoke(r)
  <2> PICK r \in Requests : AuditCreate(r) \/ RefuseRevoked(r) \/ AuditRevoke(r)
    BY <1>2
  <2>1. CASE AuditCreate(r)
    BY <1>1, <2>1 DEF AuditCreate, ToldIsTrue
  <2>2. CASE RefuseRevoked(r)
    <3>1. req[r].sid \in stored /\ rows[req[r].sid].revoked
      BY <2>2 DEF RefuseRevoked, InFlight, SessionExists, RevocationSeen, At
    <3> QED
      BY <1>1, <2>2, <3>1 DEF RefuseRevoked, ToldIsTrue
  <2>3. CASE AuditRevoke(r)
    <3>1. req[r].sid \in stored /\ rows[req[r].sid].revoked
      BY <2>3 DEF AuditRevoke, InFlight, SessionExists, RevocationSeen, At
    <3> QED
      BY <1>1, <2>3, <3>1 DEF AuditRevoke, ToldIsTrue
  <2> QED
    BY <2>1, <2>2, <2>3
<1>3. CASE UNCHANGED <<audited, known, toldRevoked>>
  BY <1>1, <1>3 DEF ToldIsTrue
<1> QED
  BY <1>2, <1>3 DEF Next, Tick, Serve, BeginCreate, InsertSession, BeginValidate, RefuseExpired,
     RefusePeer, PassChecks, WriteValidate, BeginRevoke, MarkRevoked, Cancel, vars

(* Two requests never hold the same id for insertion, nor a stored one. *)
LEMMA NextInsertsFresh == IInv /\ [Next]_vars => \A q \in Requests : InsertsFresh(q)'
<1> SUFFICES ASSUME IInv, [Next]_vars, NEW q \in Requests, At(q, "insert")'
             PROVE  /\ req'[q].sid \notin stored'
                    /\ \A o \in Requests \ {q} : At(o, "insert")' => req'[o].sid # req'[q].sid
  BY DEF InsertsFresh, At
<1> USE DEF IInv, TypeOK, At
<1>1. CASE \E r \in Requests, s \in SessionIds, p \in Peers : BeginCreate(r, s, p)
  <2> PICK r \in Requests, s \in SessionIds, p \in Peers : BeginCreate(r, s, p)
    BY <1>1
  <2>1. /\ req'[r].sid = s /\ stored' = stored
        /\ \A o \in Requests \ {r} : req'[o] = req[o]
    BY DEF BeginCreate, IdleRequest
  <2> QED
    BY <2>1 DEF BeginCreate, InFlight, InsertsFresh
<1>2. CASE \E r \in Requests : InsertSession(r)
  <2> PICK r \in Requests : InsertSession(r)
    BY <1>2
  <2>1. /\ stored' = stored \cup {req[r].sid} /\ req'[r].pc = "auditCreate"
        /\ \A o \in Requests \ {r} : req'[o] = req[o]
    BY DEF InsertSession, Goto, Request
  <2> QED
    BY <2>1 DEF InsertSession, InFlight, InsertsFresh
<1>3. CASE \E r \in Requests : /\ stored' = stored /\ req'[r].pc # "insert"
                             /\ \A o \in Requests \ {r} : req'[o] = req[o]
  BY <1>3 DEF InFlight, InsertsFresh
<1>4. CASE UNCHANGED <<stored, req>>
  BY <1>4 DEF InFlight, InsertsFresh
<1>5. ASSUME NEW r \in Requests, Serve(r), ~InsertSession(r),
             ~\E s \in SessionIds, p \in Peers : BeginCreate(r, s, p)
      PROVE  stored' = stored /\ req'[r].pc # "insert"
  <2>1. CASE \E s \in SessionIds, p \in Peers : BeginValidate(r, s, p)
    BY <2>1 DEF BeginValidate, IdleRequest
  <2>2. CASE \E s \in SessionIds : BeginRevoke(r, s)
    BY <2>2 DEF BeginRevoke, IdleRequest
  <2>3. CASE PassChecks(r) \/ MarkRevoked(r)
    BY <2>3 DEF PassChecks, MarkRevoked, Goto, Request
  <2>4. CASE AuditCreate(r) \/ RefuseRevoked(r) \/ RefuseExpired(r) \/ RefusePeer(r)
             \/ WriteValidate(r) \/ AuditRevoke(r) \/ Cancel(r)
    BY <2>4 DEF AuditCreate, RefuseRevoked, RefuseExpired, RefusePeer, WriteValidate,
       AuditRevoke, Cancel, Finish, IdleRequest
  <2> QED
    BY <1>5, <2>1, <2>2, <2>3, <2>4 DEF Serve
<1>6. CASE \E r \in Requests : Serve(r)
  <2> PICK r \in Requests : Serve(r)
    BY <1>6
  <2>1. \A o \in Requests \ {r} : req'[o] = req[o]
    BY OthersUntouched
  <2> QED
    BY <1>1, <1>2, <1>3, <1>5, <2>1
<1> QED
  BY <1>4, <1>6 DEF Next, Tick, vars

(* The request that takes the step: it begins with a row it has just read, *)
(* and moves on only past a check that its snapshot satisfies.             *)
LEMMA OwnStep ==
  ASSUME IInv, NEW r \in Requests, Serve(r)
  PROVE  (SessionExists(r) /\ SnapshotAgrees(r) /\ WithinCap(r) /\ RevocationSeen(r))'
<1> USE DEF IInv, TypeOK, At
<1> DEFINE Goal == SessionExists(r) /\ SnapshotAgrees(r) /\ WithinCap(r) /\ RevocationSeen(r)
<1>0. req[r] \in Request /\ InFlight(r)
  OBVIOUS
<1>1. ASSUME req'[r].pc \in {"idle", "insert"} PROVE Goal'
  BY <1>1 DEF SessionExists, SnapshotAgrees, WithinCap, RevocationSeen
<1>2. CASE InsertSession(r)
  <2>1. req'[r].pc = "auditCreate" /\ req'[r].sid = req[r].sid /\ req[r].sid \in stored'
    BY <1>2 DEF InsertSession, Goto, Request
  <2> QED
    BY <2>1 DEF SessionExists, SnapshotAgrees, WithinCap, RevocationSeen
<1>3. ASSUME NEW s \in SessionIds, NEW p \in Peers, BeginValidate(r, s, p) PROVE Goal'
  <2>1. /\ req'[r].pc = "check" /\ req'[r].sid = s /\ req'[r].seen = rows[s]
        /\ req'[r].afterRevoked = (s \in toldRevoked)
        /\ s \in stored /\ stored' = stored /\ rows' = rows
    BY <1>3 DEF BeginValidate, IdleRequest
  <2>2. rows[s].expires <= rows[s].created + HardTTL
    <3>1. rows[s].lastSeen \in Nat /\ rows[s].created \in Nat
      BY DEF Row
    <3> QED
      BY <2>1, <3>1, NewExpiryBound DEF SlidingExpiry
  <2>3. s \in toldRevoked => rows[s].revoked
    BY DEF ToldIsTrue
  <2> QED
    BY <2>1, <2>2, <2>3 DEF SessionExists, SnapshotAgrees, WithinCap, RevocationSeen
<1>4. CASE PassChecks(r)
  <2>1. /\ req'[r].pc = "write" /\ req'[r].sid = req[r].sid /\ req'[r].seen = req[r].seen
        /\ req'[r].at = clock /\ req'[r].afterRevoked = req[r].afterRevoked
        /\ stored' = stored /\ rows' = rows
    BY <1>4 DEF PassChecks, Request
  <2>2. clock <= req[r].seen.created + HardTTL
    BY <1>0, <1>4, TTLAssumption DEF PassChecks, InFlight, SnapshotAgrees, Request, Row
  <2>3. ~req[r].afterRevoked
    BY <1>0, <1>4 DEF PassChecks, InFlight, RevocationSeen
  <2> QED
    BY <1>0, <1>4, <2>1, <2>2, <2>3
       DEF PassChecks, InFlight, SessionExists, SnapshotAgrees, WithinCap, RevocationSeen
<1>5. ASSUME NEW s \in SessionIds, BeginRevoke(r, s) PROVE Goal'
  <2>1. req'[r].pc = "mark" /\ req'[r].sid = s /\ s \in stored /\ stored' = stored
    BY <1>5 DEF BeginRevoke, IdleRequest
  <2> QED
    BY <2>1 DEF SessionExists, SnapshotAgrees, WithinCap, RevocationSeen
<1>6. CASE MarkRevoked(r)
  <2>1. /\ req'[r].pc = "auditRevoke" /\ req'[r].sid = req[r].sid /\ stored' = stored
        /\ rows'[req[r].sid].revoked = TRUE /\ req[r].sid \in stored
    BY <1>0, <1>6 DEF MarkRevoked, Goto, Request, Row, InFlight, SessionExists
  <2> QED
    BY <2>1 DEF SessionExists, SnapshotAgrees, WithinCap, RevocationSeen
<1>7. CASE AuditCreate(r) \/ RefuseRevoked(r) \/ RefuseExpired(r) \/ RefusePeer(r)
           \/ WriteValidate(r) \/ AuditRevoke(r) \/ Cancel(r)
  <2>1. req'[r].pc = "idle"
    BY <1>7 DEF AuditCreate, RefuseRevoked, RefuseExpired, RefusePeer, WriteValidate,
       AuditRevoke, Cancel, Finish, IdleRequest
  <2> QED
    BY <1>1, <2>1
<1>8. ASSUME NEW s \in SessionIds, NEW p \in Peers, BeginCreate(r, s, p) PROVE Goal'
  <2>1. req'[r].pc = "insert"
    BY <1>8 DEF BeginCreate, IdleRequest
  <2> QED
    BY <1>1, <2>1
<1> QED
  BY <1>2, <1>3, <1>4, <1>5, <1>6, <1>7, <1>8 DEF Serve

(* The other requests: the rows they read keep what they rely on. *)
LEMMA OtherStep ==
  ASSUME IInv, [Next]_vars, NEW q \in Requests, req'[q] = req[q]
  PROVE  (SessionExists(q) /\ SnapshotAgrees(q) /\ WithinCap(q) /\ RevocationSeen(q))'
<1>1. InFlight(q) /\ req[q] \in Request
  BY DEF IInv, TypeOK
<1>2. req[q].sid \in stored =>
        /\ req[q].sid \in stored'
        /\ rows'[req[q].sid].created = rows[req[q].sid].created
        /\ rows[req[q].sid].revoked => rows'[req[q].sid].revoked
  BY NextKeepsRows
<1> QED
  BY <1>1, <1>2 DEF InFlight, SessionExists, SnapshotAgrees, WithinCap, RevocationSeen, At

LEMMA NextIInv == IInv /\ [Next]_vars => IInv'
<1> SUFFICES ASSUME IInv, [Next]_vars PROVE IInv'
  OBVIOUS
<1>1. ASSUME NEW q \in Requests
      PROVE  (SessionExists(q) /\ SnapshotAgrees(q) /\ WithinCap(q) /\ RevocationSeen(q))'
  <2>1. CASE Serve(q)
    BY <2>1, OwnStep
  <2>2. CASE ~Serve(q)
    <3>1. req'[q] = req[q]
      BY <2>2, OthersUntouched DEF Next, Tick, vars, IInv
    <3> QED
      BY <3>1, OtherStep
  <2> QED
    BY <2>1, <2>2
<1>2. \A q \in Requests : InFlight(q)'
  BY <1>1, NextInsertsFresh DEF InFlight
<1> QED
  BY <1>2, NextTypeOK, NextSliding, NextTold DEF IInv

LEMMA Invariance == Spec => []IInv
<1> QED
  BY InitIInv, NextIInv, PTL DEF Spec

-----------------------------------------------------------------------------
(* The variables always have their types: no handler reads or writes a     *)
(* session that has no row.                                                *)
THEOREM TypeCorrect == Spec => []TypeOK
<1>1. IInv => TypeOK
  BY DEF IInv
<1> QED
  BY <1>1, Invariance, PTL

(* The expiry of every row is its idle window cut at its hard cap, however *)
(* many requests slide it at once (ValidateSession).                       *)
THEOREM SlidingExpiryHolds == Spec => []SlidingExpiry
<1>1. IInv => SlidingExpiry
  BY DEF IInv
<1> QED
  BY <1>1, Invariance, PTL

(* No request is let through after the hard cap of its session.            *)
THEOREM HardCapHolds == Spec => []AcceptedWithinCap
<1>1. IInv => AcceptedWithinCap
  <2> SUFFICES ASSUME IInv, NEW r \in Requests, At(r, "write")
               PROVE  req[r].at <= rows[req[r].sid].created + HardTTL
    BY DEF AcceptedWithinCap
  <2>1. SnapshotAgrees(r) /\ WithinCap(r)
    BY DEF IInv, InFlight
  <2> QED
    BY <2>1 DEF SnapshotAgrees, WithinCap, At
<1> QED
  BY <1>1, Invariance, PTL

(* After a logout was answered, or a request refused as revoked, no later  *)
(* request is accepted (RevokeSession against ValidateSession in flight).  *)
THEOREM LogoutFinal == Spec => []LogoutIsFinal
<1>1. IInv => LogoutIsFinal
  BY DEF IInv, InFlight, RevocationSeen, LogoutIsFinal
<1> QED
  BY <1>1, Invariance, PTL

(* Whoever can present a session has its creation in the audit log, and an *)
(* audited revocation is in force.                                         *)
THEOREM AuditAccounts == Spec => []AuditAccountsForSessions
<1>1. IInv => AuditAccountsForSessions
  BY DEF IInv, ToldIsTrue, AuditAccountsForSessions
<1> QED
  BY <1>1, Invariance, PTL

(* No step changes the identity of a stored session nor undoes its         *)
(* revocation.                                                             *)
THEOREM RowsKeepIdentityHolds == Spec => RowsKeepIdentity
<1>1. IInv /\ [Next]_vars =>
        [\A s \in stored :
           /\ s \in stored'
           /\ rows'[s].created = rows[s].created /\ rows'[s].peer = rows[s].peer
           /\ rows[s].revoked => rows'[s].revoked]_vars
  BY NextKeepsRows
<1> QED
  BY <1>1, Invariance, PTL DEF Spec, RowsKeepIdentity
-----------------------------------------------------------------------------
(* Nothing that was ever known is forgotten, and time and uses only        *)
(* advance.                                                                *)
LEMMA StepGrows ==
  ASSUME IInv, TimeInv, [Next]_vars
  PROVE  /\ clock <= clock'
         /\ known \subseteq known' /\ toldExpired \subseteq toldExpired'
         /\ contended \subseteq contended'
         /\ \A s \in known : used[s] <= used'[s]
<1> USE DEF IInv, TypeOK
<1>1. CASE Tick
  BY <1>1 DEF Tick
<1>2. ASSUME NEW r \in Requests, AuditCreate(r)
      PROVE  /\ clock' = clock /\ known \subseteq known'
             /\ toldExpired' = toldExpired /\ contended' = contended
             /\ \A s \in known : used'[s] = used[s]
  <2>1. req[r].sid \notin known
    BY <1>2 DEF AuditCreate, TimeInv, InTime, CreatesAlone
  <2> QED
    BY <1>2, <2>1 DEF AuditCreate
<1>3. ASSUME NEW r \in Requests, WriteValidate(r)
      PROVE  /\ UNCHANGED <<clock, known, toldExpired, contended>>
             /\ \A s \in known : used[s] <= used'[s]
  <2>1. req[r].at \in Nat
    BY DEF Request
  <2>2. \A s \in known : used[s] \in Nat
    OBVIOUS
  <2> QED
    BY <1>3, <2>1, <2>2 DEF WriteValidate, Later
<1>4. ASSUME clock' = clock, known \subseteq known', toldExpired \subseteq toldExpired',
             contended \subseteq contended', used' = used
      PROVE  /\ clock <= clock'
             /\ \A s \in known : used[s] <= used'[s]
  BY <1>4
<1>5. ASSUME NEW r \in Requests, Serve(r), ~AuditCreate(r), ~WriteValidate(r)
      PROVE  /\ clock' = clock /\ known \subseteq known' /\ toldExpired \subseteq toldExpired'
             /\ contended \subseteq contended' /\ used' = used
  BY <1>5 DEF Serve, BeginCreate, InsertSession, BeginValidate, RefuseRevoked, RefuseExpired,
     RefusePeer, PassChecks, BeginRevoke, MarkRevoked, AuditRevoke, Cancel
<1>6. CASE UNCHANGED vars
  BY <1>4, <1>6 DEF vars
<1>7. CASE \E r \in Requests : Serve(r)
  <2> PICK r \in Requests : Serve(r)
    BY <1>7
  <2>1. CASE AuditCreate(r)
    <3>1. \A s \in known : used[s] \in Nat
      OBVIOUS
    <3> QED
      BY <1>2, <2>1, <3>1
  <2>2. CASE WriteValidate(r)
    BY <1>3, <2>2
  <2> QED
    BY <1>4, <1>5, <2>1, <2>2
<1> QED
  BY <1>1, <1>6, <1>7 DEF Next

(* A validation that runs alone is not disturbed: a step that moves the    *)
(* expiry of its session, uses it or calls it expired is a validation of   *)
(* the same session, and the two overlap.                                  *)
LEMMA AloneIsUndisturbed ==
  ASSUME IInv, TimeInv, NEW r \in Requests, Serve(r), NEW q \in Requests, q # r,
         NEW s \in SessionIds, Validating(q, s), s \notin contended
  PROVE  /\ rows'[s].expires = rows[s].expires
         /\ used'[s] = used[s]
         /\ s \in toldExpired' => s \in toldExpired
<1> USE DEF IInv, TypeOK
<1>1. s \in stored /\ s \in known
  BY DEF InFlight, SessionExists, Validating, TimeInv, InTime, Acquainted
<1>2. ~Validating(r, s)
  BY DEF TimeInv, OverlapNoted
<1>3. CASE InsertSession(r)
  <2>1. req[r].sid # s
    BY <1>1, <1>3 DEF InsertSession, InFlight, InsertsFresh
  <2> QED
    BY <1>3, <2>1 DEF InsertSession
<1>4. CASE AuditCreate(r)
  <2>1. req[r].sid # s
    BY <1>1, <1>4 DEF AuditCreate, TimeInv, InTime, CreatesAlone
  <2> QED
    BY <1>4, <2>1 DEF AuditCreate
<1>5. CASE RefuseExpired(r) \/ WriteValidate(r)
  <2>1. req[r].sid # s
    BY <1>2, <1>5 DEF RefuseExpired, WriteValidate, Validating, At
  <2> QED
    BY <1>5, <2>1 DEF RefuseExpired, WriteValidate
<1>6. CASE MarkRevoked(r)
  BY <1>6 DEF MarkRevoked, Row
<1>7. CASE UNCHANGED <<rows, used, toldExpired>>
  BY <1>7
<1> QED
  BY <1>3, <1>4, <1>5, <1>6, <1>7 DEF Serve, BeginCreate, BeginValidate, RefuseRevoked,
     RefusePeer, PassChecks, BeginRevoke, AuditRevoke, Cancel

(* A row whose id nobody was given yet keeps its times, and its id is      *)
(* given only by the request that created it.                              *)
LEMMA FreshIsUndisturbed ==
  ASSUME IInv, TimeInv, NEW r \in Requests, Serve(r), NEW s \in stored, s \notin known
  PROVE  /\ rows'[s].created = rows[s].created
         /\ rows'[s].lastSeen = rows[s].lastSeen
         /\ s \in known' => At(r, "auditCreate") /\ req[r].sid = s
<1> USE DEF IInv, TypeOK
<1>1. CASE InsertSession(r)
  <2>1. req[r].sid # s
    BY <1>1 DEF InsertSession, InFlight, InsertsFresh
  <2> QED
    BY <1>1, <2>1 DEF InsertSession
<1>2. CASE WriteValidate(r)
  <2>1. req[r].sid # s
    BY <1>2 DEF WriteValidate, TimeInv, InTime, Acquainted, At
  <2> QED
    BY <1>2, <2>1 DEF WriteValidate
<1>3. CASE MarkRevoked(r)
  BY <1>3 DEF MarkRevoked, Row
<1>4. CASE AuditCreate(r)
  BY <1>4 DEF AuditCreate
<1>5. CASE UNCHANGED <<rows, known>>
  BY <1>5
<1> QED
  BY <1>1, <1>2, <1>3, <1>4, <1>5 DEF Serve, BeginCreate, BeginValidate, RefuseRevoked,
     RefuseExpired, RefusePeer, PassChecks, BeginRevoke, AuditRevoke, Cancel
(* A validation that begins beside another of the same session is noted.   *)
LEMMA NextOverlap == IInv /\ TimeInv /\ [Next]_vars => OverlapNoted'
<1> SUFFICES ASSUME IInv, TimeInv, [Next]_vars, NEW q \in Requests, NEW o \in Requests,
                    NEW s \in SessionIds, q # o, Validating(q, s)', Validating(o, s)'
             PROVE  s \in contended'
  BY DEF OverlapNoted
<1> USE DEF IInv, TypeOK
<1>1. contended \subseteq contended'
  BY StepGrows
<1>2. ASSUME NEW r \in Requests, NEW p \in Requests, r # p, Serve(r),
             Validating(r, s)', Validating(p, s)'
      PROVE  s \in contended'
  <2>1. req'[p] = req[p] /\ Validating(p, s)
    BY <1>2, OthersUntouched DEF Validating
  <2>2. CASE \E id \in SessionIds, peer \in Peers : BeginValidate(r, id, peer)
    <3> PICK id \in SessionIds, peer \in Peers : BeginValidate(r, id, peer)
      BY <2>2
    <3>1. id = s
      BY <1>2 DEF BeginValidate, Validating, IdleRequest
    <3> QED
      BY <2>1, <3>1 DEF BeginValidate
  <2>3. CASE PassChecks(r)
    <3>1. Validating(r, s)
      BY <1>2, <2>3 DEF PassChecks, Validating, At, Request
    <3> QED
      BY <1>1, <1>2, <2>1, <3>1 DEF TimeInv, OverlapNoted
  <2>4. ASSUME ~\E id \in SessionIds, peer \in Peers : BeginValidate(r, id, peer), ~PassChecks(r)
        PROVE  ~Validating(r, s)'
    <3>1. CASE InsertSession(r) \/ MarkRevoked(r)
      BY <3>1 DEF InsertSession, MarkRevoked, Goto, Validating, Request
    <3>2. CASE \E id \in SessionIds, peer \in Peers : BeginCreate(r, id, peer)
      BY <3>2 DEF BeginCreate, IdleRequest, Validating
    <3>3. CASE \E id \in SessionIds : BeginRevoke(r, id)
      BY <3>3 DEF BeginRevoke, IdleRequest, Validating
    <3>4. CASE Finish(r)
      BY <3>4 DEF Finish, IdleRequest, Validating
    <3> QED
      BY <1>2, <2>4, <3>1, <3>2, <3>3, <3>4 DEF Serve, AuditCreate, RefuseRevoked, RefuseExpired,
         RefusePeer, WriteValidate, AuditRevoke, Cancel
  <2> QED
    BY <1>2, <2>2, <2>3, <2>4
<1>3. CASE \E r \in Requests : Serve(r)
  <2> PICK r \in Requests : Serve(r)
    BY <1>3
  <2>1. CASE r = q
    BY <1>2, <2>1
  <2>2. CASE r = o
    BY <1>2, <2>2
  <2>3. CASE r # q /\ r # o
    <3>1. req'[q] = req[q] /\ req'[o] = req[o]
      BY <2>3, OthersUntouched
    <3> QED
      BY <1>1, <3>1 DEF TimeInv, OverlapNoted, Validating
  <2> QED
    BY <2>1, <2>2, <2>3
<1>4. CASE UNCHANGED req
  BY <1>1, <1>4 DEF TimeInv, OverlapNoted, Validating
<1> QED
  BY <1>3, <1>4 DEF Next, Tick, vars

LEMMA NewExpiryInIdle ==
  ASSUME NEW now \in Nat, NEW created \in Nat
  PROVE  NewExpiry(now, created) <= now + IdleTTL
BY TTLAssumption DEF NewExpiry, Earlier

LEMMA LaterOfTwo ==
  ASSUME NEW a \in Nat, NEW b \in Nat
  PROVE  /\ Later(a, b) \in {a, b} /\ a <= Later(a, b) /\ b <= Later(a, b)
         /\ a <= b => Later(a, b) = b
BY DEF Later

(* Rows and uses stay in step: an INSERT is of an id nobody knows, the     *)
(* audit row of a creation makes it known with the time of the INSERT, and *)
(* an UPDATE of a validation writes the time that becomes the last use.    *)
LEMMA NextUse == IInv /\ TimeInv /\ [Next]_vars => \A s \in SessionIds : UseInRow(s)'
<1> SUFFICES ASSUME IInv, TimeInv, [Next]_vars, NEW s \in SessionIds
             PROVE  UseInRow(s)'
  OBVIOUS
<1> USE DEF IInv, TypeOK
<1>0. /\ UseInRow(s)
      /\ rows[s] \in Row /\ rows[s].expires \in Nat /\ rows[s].created \in Nat
      /\ used[s] \in Nat /\ clock \in Nat
  BY DEF TimeInv, Row
<1>1. CASE Tick
  <2>1. clock < clock' /\ UNCHANGED <<rows, used, known, contended, toldExpired>> /\ clock' \in Nat
    BY <1>1 DEF Tick
  <2>2. BoughtWindow(s)' <=> BoughtWindow(s)
    BY <2>1 DEF BoughtWindow
  <2> QED
    BY <1>0, <2>1, <2>2 DEF UseInRow
<1>2. ASSUME NEW r \in Requests, InsertSession(r) PROVE UseInRow(s)'
  <2>1. CASE req[r].sid = s
    <3>1. s \notin known
      BY <1>2, <2>1 DEF InsertSession, InFlight, InsertsFresh
    <3> QED
      BY <1>0, <1>2, <3>1 DEF InsertSession, UseInRow
  <2>2. CASE req[r].sid # s
    <3>1. UNCHANGED <<clock, used, known, contended, toldExpired>> /\ rows'[s] = rows[s]
      BY <1>2, <2>2 DEF InsertSession
    <3> QED
      BY <1>0, <3>1 DEF UseInRow, BoughtWindow
  <2> QED
    BY <2>1, <2>2
<1>3. ASSUME NEW r \in Requests, AuditCreate(r) PROVE UseInRow(s)'
  <2>1. CASE req[r].sid = s
    <3>1. /\ s \notin known /\ s \in stored
          /\ rows[s].created = req[r].at /\ rows[s].lastSeen = req[r].at
          /\ req[r].at <= clock /\ req[r].at \in Nat
      BY <1>3, <2>1 DEF AuditCreate, TimeInv, InTime, CreatesAlone, TimesAgree, At, InFlight,
         SessionExists, Request
    <3>2. used'[s] = req[r].at /\ UNCHANGED <<clock, rows, toldExpired, contended>>
      BY <1>3, <2>1 DEF AuditCreate
    <3>3. BoughtWindow(s)'
      <4>1. rows[s].expires = NewExpiry(req[r].at, req[r].at)
        BY <3>1 DEF SlidingExpiry
      <4>2. NewExpiry(req[r].at, req[r].at) \in Nat
        BY <3>1, NewExpiryBound
      <4>3. rows'[s].expires >= NewExpiry(used'[s], rows'[s].created)
        BY <3>1, <3>2, <4>1, <4>2
      <4> QED
        BY <4>3 DEF BoughtWindow, NewExpiry
    <3>4. s \notin toldExpired
      BY <1>0, <3>1 DEF UseInRow
    <3> QED
      BY <3>1, <3>2, <3>3, <3>4 DEF UseInRow
  <2>2. CASE req[r].sid # s
    <3>1. /\ UNCHANGED <<clock, rows, contended, toldExpired>> /\ used'[s] = used[s]
          /\ s \in known' => s \in known
          /\ s \in known => s \in known'
      BY <1>3, <2>2 DEF AuditCreate
    <3> QED
      BY <1>0, <3>1 DEF UseInRow, BoughtWindow
  <2> QED
    BY <2>1, <2>2
<1>4. ASSUME NEW r \in Requests, WriteValidate(r) PROVE UseInRow(s)'
  <2> DEFINE at == req[r].at
  <2>0. at \in Nat /\ at <= clock
    BY <1>4 DEF WriteValidate, TimeInv, InTime, TimesAgree, At, Request
  <2>1. CASE req[r].sid = s
    <3>1. s \in stored /\ req[r].seen.created = rows[s].created
      BY <1>4, <2>1 DEF WriteValidate, InFlight, SessionExists, SnapshotAgrees, At
    <3>2. /\ UNCHANGED <<clock, known, contended, toldExpired>>
          /\ used'[s] = Later(used[s], at)
          /\ rows'[s].lastSeen = at /\ rows'[s].created = rows[s].created
          /\ rows'[s].expires = NewExpiry(at, rows[s].created)
      BY <1>4, <2>1, <3>1 DEF WriteValidate, Row
    <3>3. s \notin contended => s \notin toldExpired /\ used[s] <= at
      BY <1>4, <2>1 DEF WriteValidate, TimeInv, InTime, AloneIsCurrent, At
    <3>4. used'[s] <= clock /\ at <= used'[s] /\ (s \notin contended => used'[s] = at)
      <4>1. /\ Later(used[s], at) \in {used[s], at} /\ at <= Later(used[s], at)
            /\ used[s] <= at => Later(used[s], at) = at
        BY <1>0, <2>0, LaterOfTwo
      <4>2. used'[s] \in {used[s], at} /\ at <= used'[s] /\ (used[s] <= at => used'[s] = at)
        BY <3>2, <4>1
      <4>3. used[s] <= clock
        BY <1>0 DEF UseInRow
      <4> HIDE DEF at
      <4> QED
        BY <2>0, <3>3, <4>2, <4>3
    <3>5. s \notin contended => BoughtWindow(s)'
      <4>1. NewExpiry(at, rows[s].created) \in Nat
        BY <1>0, <2>0, NewExpiryBound
      <4> QED
        BY <3>2, <3>4, <4>1 DEF BoughtWindow, NewExpiry
    <3> QED
      BY <1>0, <3>2, <3>3, <3>4, <3>5 DEF UseInRow
  <2>2. CASE req[r].sid # s
    <3>1. UNCHANGED <<clock, known, contended, toldExpired>> /\ used'[s] = used[s]
          /\ rows'[s] = rows[s]
      BY <1>4, <2>2 DEF WriteValidate
    <3> QED
      BY <1>0, <3>1 DEF UseInRow, BoughtWindow
  <2> QED
    BY <2>1, <2>2
<1>5. ASSUME NEW r \in Requests, MarkRevoked(r) PROVE UseInRow(s)'
  <2>1. /\ UNCHANGED <<clock, used, known, contended, toldExpired>>
        /\ rows'[s].expires = rows[s].expires /\ rows'[s].lastSeen = rows[s].lastSeen
        /\ rows'[s].created = rows[s].created
    BY <1>0, <1>5 DEF MarkRevoked, Row
  <2> QED
    BY <1>0, <2>1 DEF UseInRow, BoughtWindow
<1>6. ASSUME NEW r \in Requests, RefuseExpired(r) PROVE UseInRow(s)'
  <2>1. UNCHANGED <<clock, used, known, contended, rows>>
    BY <1>6 DEF RefuseExpired
  <2>2. CASE req[r].sid = s
    <3>1. s \in known /\ (s \notin contended => rows[s].expires < clock)
      BY <1>0, <1>6, <2>2 DEF RefuseExpired, TimeInv, InTime, Acquainted, AloneIsCurrent, At
    <3> QED
      BY <1>0, <2>1, <3>1 DEF UseInRow, BoughtWindow
  <2>3. CASE req[r].sid # s
    <3>1. s \in toldExpired' => s \in toldExpired
      BY <1>6, <2>3 DEF RefuseExpired
    <3> QED
      BY <1>0, <2>1, <3>1 DEF UseInRow, BoughtWindow
  <2> QED
    BY <2>2, <2>3
<1>7. CASE UNCHANGED <<clock, used, known, rows, toldExpired>> /\ contended \subseteq contended'
  BY <1>0, <1>7 DEF UseInRow, BoughtWindow
<1>8. CASE \E r \in Requests : Serve(r)
  BY <1>2, <1>3, <1>4, <1>5, <1>6, <1>7, <1>8 DEF Serve, BeginCreate, BeginValidate,
     RefuseRevoked, RefusePeer, PassChecks, BeginRevoke, AuditRevoke, Cancel
<1> QED
  BY <1>1, <1>7, <1>8 DEF Next, vars
(* The request that takes the step. *)
LEMMA OwnInTime ==
  ASSUME IInv, TimeInv, NEW r \in Requests, Serve(r)
  PROVE  InTime(r)'
<1> USE DEF IInv, TypeOK, At
<1>0. req[r] \in Request /\ req[r].sid \in SessionIds /\ InFlight(r) /\ InTime(r)
  BY DEF TimeInv, Request
<1>1. ASSUME req'[r].pc = "idle" PROVE InTime(r)'
  BY <1>1 DEF InTime, Acquainted, CreatesAlone, TimesAgree, AloneIsCurrent
<1>2. ASSUME NEW s \in SessionIds, NEW p \in Peers, BeginCreate(r, s, p) PROVE InTime(r)'
  <2>1. req'[r].pc = "insert" /\ req'[r].at = clock /\ clock' = clock
    BY <1>2 DEF BeginCreate, IdleRequest
  <2> QED
    BY <2>1 DEF InTime, Acquainted, CreatesAlone, TimesAgree, AloneIsCurrent
<1>3. CASE InsertSession(r)
  <2> DEFINE id == req[r].sid
  <2>1. /\ req'[r].pc = "auditCreate" /\ req'[r].sid = id /\ req'[r].at = req[r].at
        /\ clock' = clock /\ known' = known
        /\ rows'[id].created = req[r].at /\ rows'[id].lastSeen = req[r].at
    BY <1>0, <1>3 DEF InsertSession, Goto, Request
  <2>2. id \notin stored /\ id \notin known
    BY <1>0, <1>3 DEF InsertSession, InFlight, InsertsFresh
  <2>3. \A q \in Requests \ {r} : req'[q].pc = "auditCreate" => req'[q].sid # id
    <3> SUFFICES ASSUME NEW q \in Requests \ {r}, req'[q].pc = "auditCreate"
                 PROVE  req'[q].sid # id
      OBVIOUS
    <3>1. req'[q] = req[q]
      BY OthersUntouched
    <3> QED
      BY <2>2, <3>1 DEF InFlight, SessionExists
  <2>4. req[r].at <= clock
    BY <1>0, <1>3 DEF InsertSession, InTime, TimesAgree
  <2> HIDE DEF id
  <2> QED
    BY <2>1, <2>2, <2>3, <2>4 DEF InTime, Acquainted, CreatesAlone, TimesAgree, AloneIsCurrent
<1>4. ASSUME NEW s \in SessionIds, NEW p \in Peers, BeginValidate(r, s, p) PROVE InTime(r)'
  <2>1. /\ req'[r].pc = "check" /\ req'[r].sid = s /\ req'[r].seen = rows[s]
        /\ req'[r].afterExpired = (s \in toldExpired)
        /\ s \in known /\ UNCHANGED <<known, rows, used, toldExpired>>
    BY <1>4 DEF BeginValidate, IdleRequest
  <2>2. rows[s].lastSeen <= used[s]
    BY <2>1 DEF TimeInv, UseInRow
  <2>3. rows[s].expires <= rows[s].lastSeen + IdleTTL
    <3>1. rows[s].lastSeen \in Nat /\ rows[s].created \in Nat
      BY DEF Row
    <3>2. rows[s].expires = NewExpiry(rows[s].lastSeen, rows[s].created)
      BY <2>1 DEF SlidingExpiry
    <3> QED
      BY <3>1, <3>2, NewExpiryInIdle
  <2> QED
    BY <2>1, <2>2, <2>3 DEF InTime, Acquainted, CreatesAlone, TimesAgree, AloneIsCurrent
<1>5. CASE PassChecks(r)
  <2> DEFINE id == req[r].sid
  <2>1. /\ req[r].pc = "check" /\ req'[r].pc = "write" /\ req'[r].at = clock
        /\ req'[r].sid = id /\ req'[r].seen = req[r].seen
        /\ req'[r].afterExpired = req[r].afterExpired
        /\ UNCHANGED <<clock, known, rows, used, toldExpired, contended>>
    BY <1>0, <1>5 DEF PassChecks, Request
  <2>2. /\ clock \in Nat /\ used[id] \in Nat /\ rows[id].expires \in Nat
        /\ req[r].seen.expires \in Nat /\ req[r].seen.lastSeen \in Nat
    BY <1>0 DEF Request, Row
  <2>3. clock <= req[r].seen.expires
    BY <1>5 DEF PassChecks
  <2>4. /\ id \in known
        /\ req[r].seen.lastSeen <= used[id]
        /\ req[r].seen.expires <= req[r].seen.lastSeen + IdleTTL
        /\ req[r].afterExpired => id \in toldExpired
        /\ id \notin contended => req[r].seen.expires = rows[id].expires
    BY <1>0, <2>1 DEF InTime, Acquainted, TimesAgree, AloneIsCurrent
  <2>5. used[id] <= clock /\ (id \in toldExpired \ contended => rows[id].expires < clock)
    BY <1>0 DEF TimeInv, UseInRow
  <2>6. clock <= used[id] + IdleTTL
    BY <2>2, <2>3, <2>4, TTLAssumption
  <2>7. id \notin contended => id \notin toldExpired
    BY <2>2, <2>3, <2>4, <2>5
  <2> HIDE DEF id
  <2> QED
    BY <2>1, <2>2, <2>4, <2>5, <2>6, <2>7
       DEF InTime, Acquainted, CreatesAlone, TimesAgree, AloneIsCurrent
<1>6. ASSUME NEW s \in SessionIds, BeginRevoke(r, s) PROVE InTime(r)'
  <2>1. req'[r].pc = "mark" /\ req'[r].sid = s /\ s \in known'
    BY <1>6 DEF BeginRevoke, IdleRequest
  <2> QED
    BY <2>1 DEF InTime, Acquainted, CreatesAlone, TimesAgree, AloneIsCurrent
<1>7. CASE MarkRevoked(r)
  <2>1. /\ req'[r].pc = "auditRevoke" /\ req'[r].sid = req[r].sid
        /\ req[r].sid \in known /\ known' = known
    BY <1>0, <1>7 DEF MarkRevoked, Goto, Request, InTime, Acquainted
  <2> QED
    BY <2>1 DEF InTime, Acquainted, CreatesAlone, TimesAgree, AloneIsCurrent
<1>8. CASE Finish(r)
  <2>1. req'[r].pc = "idle"
    BY <1>8 DEF Finish, IdleRequest
  <2> QED
    BY <1>1, <2>1
<1> QED
  BY <1>2, <1>3, <1>4, <1>5, <1>6, <1>7, <1>8 DEF Serve, AuditCreate, RefuseRevoked,
     RefuseExpired, RefusePeer, WriteValidate, AuditRevoke, Cancel

(* The other requests: their snapshots only grow older. *)
LEMMA OtherInTime ==
  ASSUME IInv, TimeInv, NEW r \in Requests, Serve(r), NEW q \in Requests, q # r
  PROVE  InTime(q)'
<1> USE DEF IInv, TypeOK, At
<1> DEFINE id == req[q].sid
<1>0. /\ req'[q] = req[q] /\ InTime(q) /\ InFlight(q)
      /\ req[q] \in Request /\ id \in SessionIds
  BY OthersUntouched DEF TimeInv, Request
<1>1. /\ clock <= clock' /\ known \subseteq known' /\ toldExpired \subseteq toldExpired'
      /\ contended \subseteq contended' /\ \A s \in known : used[s] <= used'[s]
  BY StepGrows DEF Next
<1>2. Acquainted(q)'
  BY <1>0, <1>1 DEF InTime, Acquainted
<1>3. CreatesAlone(q)'
  <2> SUFFICES ASSUME req[q].pc = "auditCreate"
               PROVE  /\ id \notin known'
                      /\ rows'[id].created = req[q].at /\ rows'[id].lastSeen = req[q].at
                      /\ \A o \in Requests \ {q} : req'[o].pc = "auditCreate" => req'[o].sid # id
    BY <1>0 DEF CreatesAlone
  <2>1. /\ id \in stored /\ id \notin known
        /\ rows[id].created = req[q].at /\ rows[id].lastSeen = req[q].at
        /\ \A o \in Requests \ {q} : req[o].pc = "auditCreate" => req[o].sid # id
    BY <1>0 DEF InFlight, SessionExists, InTime, CreatesAlone
  <2>2. id \notin known' /\ rows'[id].created = req[q].at /\ rows'[id].lastSeen = req[q].at
    BY <2>1, FreshIsUndisturbed
  <2>3. ASSUME NEW o \in Requests \ {q}, req'[o].pc = "auditCreate" PROVE req'[o].sid # id
    <3>1. CASE o # r
      BY <2>1, <2>3, <3>1, OthersUntouched
    <3>2. CASE o = r /\ InsertSession(r)
      BY <2>1, <3>2 DEF InsertSession, InFlight, InsertsFresh, Goto, Request
    <3>3. CASE o = r /\ ~InsertSession(r)
      <4>1. req'[r].pc # "auditCreate"
        <5>1. CASE PassChecks(r) \/ MarkRevoked(r)
          BY <5>1 DEF PassChecks, MarkRevoked, Goto, Request
        <5>2. ASSUME NEW s \in SessionIds, NEW p \in Peers,
                     BeginCreate(r, s, p) \/ BeginValidate(r, s, p)
              PROVE  req'[r].pc # "auditCreate"
          <6>1. req'[r].pc \in {"insert", "check"}
            BY <5>2 DEF BeginCreate, BeginValidate, IdleRequest
          <6> QED
            BY <6>1
        <5>3. CASE \E s \in SessionIds : BeginRevoke(r, s)
          BY <5>3 DEF BeginRevoke, IdleRequest
        <5>4. CASE Finish(r)
          BY <5>4 DEF Finish, IdleRequest
        <5> QED
          BY <3>3, <5>1, <5>2, <5>3, <5>4 DEF Serve, AuditCreate, RefuseRevoked, RefuseExpired,
             RefusePeer, WriteValidate, AuditRevoke, Cancel
      <4> QED
        BY <2>3, <3>3, <4>1
    <3> QED
      BY <3>1, <3>2, <3>3
  <2> QED
    BY <2>2, <2>3
<1>4. TimesAgree(q)'
  <2>1. /\ req[q].at \in Nat /\ clock \in Nat /\ used[id] \in Nat
        /\ clock' \in Nat /\ used'[id] \in Nat
        /\ req[q].seen.lastSeen \in Nat
    BY <1>0, NextTypeOK DEF Request, Row, Next
  <2>2. req[q].pc \in {"insert", "auditCreate", "write"} => req[q].at <= clock'
    BY <1>0, <1>1, <2>1 DEF InTime, TimesAgree
  <2>3. ASSUME req[q].pc \in {"check", "write"}
        PROVE  /\ req[q].seen.lastSeen <= used'[id]
               /\ req[q].seen.expires <= req[q].seen.lastSeen + IdleTTL
               /\ req[q].afterExpired => id \in toldExpired'
               /\ req[q].pc = "write" => req[q].at <= used'[id] + IdleTTL
    <3>1. used[id] <= used'[id]
      BY <1>0, <1>1, <2>3 DEF InTime, Acquainted
    <3>2. /\ req[q].seen.lastSeen <= used[id]
          /\ req[q].seen.expires <= req[q].seen.lastSeen + IdleTTL
          /\ req[q].afterExpired => id \in toldExpired
          /\ req[q].pc = "write" => req[q].at <= used[id] + IdleTTL
      BY <1>0, <2>3 DEF InTime, TimesAgree
    <3> HIDE DEF id
    <3>3. req[q].seen.lastSeen <= used'[id]
      BY <2>1, <3>1, <3>2
    <3>4. req[q].pc = "write" => req[q].at <= used'[id] + IdleTTL
      BY <2>1, <3>1, <3>2, TTLAssumption
    <3> QED
      BY <1>1, <3>2, <3>3, <3>4
  <2> QED
    BY <1>0, <2>2, <2>3 DEF TimesAgree
<1>5. AloneIsCurrent(q)'
  <2> SUFFICES ASSUME req[q].pc \in {"check", "write"}, id \notin contended'
               PROVE  /\ req[q].seen.expires = rows'[id].expires
                      /\ req[q].pc = "write" => id \notin toldExpired' /\ used'[id] <= req[q].at
    BY <1>0 DEF AloneIsCurrent
  <2>1. id \notin contended /\ Validating(q, id)
    BY <1>1 DEF Validating
  <2>2. /\ rows'[id].expires = rows[id].expires /\ used'[id] = used[id]
        /\ id \in toldExpired' => id \in toldExpired
    BY <1>0, <2>1, AloneIsUndisturbed
  <2> QED
    BY <1>0, <2>1, <2>2 DEF InTime, AloneIsCurrent
<1> QED
  BY <1>2, <1>3, <1>4, <1>5 DEF InTime

LEMMA InitTimeInv == Init => TimeInv
<1> SUFFICES ASSUME Init PROVE TimeInv
  OBVIOUS
<1>1. OverlapNoted
  BY DEF Init, OverlapNoted, Validating, IdleRequest
<1>2. \A r \in Requests : InTime(r)
  BY DEF Init, InTime, Acquainted, CreatesAlone, TimesAgree, AloneIsCurrent, At, IdleRequest
<1>3. \A s \in SessionIds : UseInRow(s)
  <2> SUFFICES ASSUME NEW s \in SessionIds PROVE UseInRow(s)
    OBVIOUS
  <2>1. s \notin known /\ s \notin toldExpired
    BY DEF Init
  <2>2. used[s] <= clock
    BY DEF Init
  <2> QED
    BY <2>1, <2>2 DEF UseInRow
<1> QED
  BY <1>1, <1>2, <1>3 DEF TimeInv

LEMMA NextTimeInv == IInv /\ TimeInv /\ [Next]_vars => TimeInv'
<1> SUFFICES ASSUME IInv, TimeInv, [Next]_vars PROVE TimeInv'
  OBVIOUS
<1>1. ASSUME NEW q \in Requests PROVE InTime(q)'
  <2>1. CASE \E r \in Requests : Serve(r)
    <3> PICK r \in Requests : Serve(r)
      BY <2>1
    <3> QED
      BY OwnInTime, OtherInTime
  <2>2. CASE Tick
    <3>1. clock <= clock' /\ clock \in Nat /\ clock' \in Nat /\ req[q].at \in Nat
      BY <2>2, StepGrows, NextTypeOK DEF IInv, TypeOK, Request
    <3>2. InTime(q) /\ UNCHANGED <<stored, rows, req, known, used, toldExpired, contended>>
      BY <2>2 DEF TimeInv, Tick
    <3>3. req[q].pc \in {"insert", "auditCreate", "write"} => req[q].at <= clock'
      BY <3>1, <3>2 DEF InTime, TimesAgree
    <3> QED
      BY <3>2, <3>3 DEF InTime, Acquainted, CreatesAlone, TimesAgree, AloneIsCurrent, At
  <2>3. CASE UNCHANGED vars
    BY <2>3 DEF vars, TimeInv, InTime, Acquainted, CreatesAlone, TimesAgree, AloneIsCurrent, At
  <2> QED
    BY <2>1, <2>2, <2>3 DEF Next
<1> QED
  BY <1>1, NextOverlap, NextUse DEF TimeInv

LEMMA TimeInvariance == Spec => [](IInv /\ TimeInv)
<1> QED
  BY InitTimeInv, NextTimeInv, Invariance, PTL DEF Spec

(* After somebody was told that a session expired, no request that begins  *)
(* later is accepted, unless validations of the session have overlapped    *)
(* (ValidateSession reads and slides the row in two statements).           *)
THEOREM TimeoutFinal == Spec => []TimeoutIsFinal
<1>1. IInv /\ TimeInv => TimeoutIsFinal
  <2> SUFFICES ASSUME TimeInv, NEW r \in Requests, At(r, "write"), req[r].sid \notin contended
               PROVE  ~req[r].afterExpired
    BY DEF TimeoutIsFinal
  <2> QED
    BY DEF TimeInv, InTime, TimesAgree, AloneIsCurrent, At
<1> QED
  BY <1>1, TimeInvariance, PTL

(* An accepted call leaves the session a whole idle window from the moment *)
(* of that call, up to the hard cap, unless validations have overlapped.   *)
THEOREM ActivityExtends == Spec => []ActivityExtendsSession
<1>1. IInv /\ TimeInv => ActivityExtendsSession
  BY DEF IInv, TypeOK, TimeInv, UseInRow, ActivityExtendsSession
<1> QED
  BY <1>1, TimeInvariance, PTL

(* However validations overlap, no request is accepted more than an idle   *)
(* window after the last one that was.                                     *)
THEOREM IdleWindowHolds == Spec => []AcceptedWithinIdle
<1>1. IInv /\ TimeInv => AcceptedWithinIdle
  BY DEF TimeInv, InTime, TimesAgree, AcceptedWithinIdle
<1> QED
  BY <1>1, TimeInvariance, PTL
=============================================================================
