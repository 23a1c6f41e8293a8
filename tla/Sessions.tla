------------------------------ MODULE Sessions ------------------------------
(***************************************************************************)
(* Server-side operator sessions of the agent: CreateSession,              *)
(* ValidateSession and RevokeSession of internal/auth/auth.go, called by   *)
(* the handlers of internal/rpc/rpc.go.                                    *)
(*                                                                         *)
(* Each call is a sequence of SQL statements on r.Context() with no        *)
(* transaction around them, so the calls of different requests interleave  *)
(* between statements.  One action below is one statement, or one stretch  *)
(* of code between two statements.  The wall clock advances at any time,   *)
(* and a request whose context is cancelled stops at its next statement.   *)
(***************************************************************************)
EXTENDS Naturals

CONSTANTS
  SessionIds,   \* the tokens randomToken(32) may return
  Peers,        \* (ip, user agent) pairs a session is bound to
  Requests,     \* concurrent HTTP requests the agent serves
  IdleTTL,      \* idleSessionTTL
  HardTTL,      \* hardSessionTTL
  MaxTime       \* bound on the clock, for model checking

ASSUME TTLAssumption ==
  /\ IdleTTL \in Nat /\ HardTTL \in Nat /\ IdleTTL <= HardTTL
  /\ MaxTime \in Nat
ASSUME SomePeer == Peers # {}
ASSUME SomeSession == SessionIds # {}

VARIABLES
  clock,        \* time.Now()
  stored,       \* ids that have a row in the sessions table
  rows,         \* those rows
  audited,      \* <<action, id>> of the audit rows written for sessions
  req,          \* the progress of each request
  known,        \* ids returned to a client
  used,         \* per id, the latest time at which a call answered "valid"
  toldRevoked,  \* ids some caller was told are revoked
  toldExpired,  \* ids some caller was told are expired
  contended     \* ids two requests have validated at the same time

vars == <<clock, stored, rows, audited, req, known, used, toldRevoked, toldExpired, contended>>

-----------------------------------------------------------------------------
(* The columns of a row that the code reads or writes.                     *)
Row == [peer: Peers, created: Nat, lastSeen: Nat, expires: Nat, revoked: BOOLEAN]

Steps == {"idle", "insert", "auditCreate", "check", "write", "mark", "auditRevoke"}

(* What a handler holds between two statements: `seen` is the row its      *)
(* SELECT returned, `at` its time.Now(); the last two fields remember what *)
(* had been answered about the session before this request began.          *)
Request == [pc: Steps, sid: SessionIds, peer: Peers, at: Nat, seen: Row,
            afterRevoked: BOOLEAN, afterExpired: BOOLEAN]

Earlier(a, b) == IF a <= b THEN a ELSE b
Later(a, b) == IF a >= b THEN a ELSE b

BlankRow == [peer |-> CHOOSE p \in Peers : TRUE, created |-> 0, lastSeen |-> 0,
             expires |-> 0, revoked |-> FALSE]
IdleRequest == [pc |-> "idle", sid |-> CHOOSE s \in SessionIds : TRUE,
                peer |-> CHOOSE p \in Peers : TRUE, at |-> 0, seen |-> BlankRow,
                afterRevoked |-> FALSE, afterExpired |-> FALSE]

(* newExpiry of ValidateSession: idle window, cut at the hard cap.         *)
NewExpiry(now, created) == Earlier(now + IdleTTL, created + HardTTL)

At(r, step) == req[r].pc = step
Finish(r) == req' = [req EXCEPT ![r] = IdleRequest]
Goto(r, step) == req' = [req EXCEPT ![r].pc = step]

Validating(r, s) == req[r].pc \in {"check", "write"} /\ req[r].sid = s

Init ==
  /\ clock = 0
  /\ stored = {}
  /\ rows = [s \in SessionIds |-> BlankRow]
  /\ audited = {}
  /\ req = [r \in Requests |-> IdleRequest]
  /\ known = {}
  /\ used = [s \in SessionIds |-> 0]
  /\ toldRevoked = {}
  /\ toldExpired = {}
  /\ contended = {}

-----------------------------------------------------------------------------
Tick ==
  /\ clock < MaxTime
  /\ clock' = clock + 1
  /\ UNCHANGED <<stored, rows, audited, req, known, used, toldRevoked, toldExpired, contended>>

(* CreateSession: draw an id nobody else has drawn and take the time.      *)
BeginCreate(r, s, p) ==
  /\ At(r, "idle")
  /\ s \notin stored
  /\ \A q \in Requests : At(q, "insert") => req[q].sid # s
  /\ req' = [req EXCEPT ![r] = [IdleRequest EXCEPT !.pc = "insert", !.sid = s,
                                                   !.peer = p, !.at = clock]]
  /\ UNCHANGED <<clock, stored, rows, audited, known, used, toldRevoked, toldExpired, contended>>

(* Slip: the error of the INSERT is dropped and the call goes on.          *)
InsertSession_ErrorDropped(r) ==
  /\ At(r, "insert")
  /\ Goto(r, "auditCreate")
  /\ UNCHANGED <<clock, stored, rows, audited, known, used, toldRevoked, toldExpired, contended>>

InsertSession(r) ==
  /\ At(r, "insert")
  /\ stored' = stored \cup {req[r].sid}
  /\ rows' = [rows EXCEPT ![req[r].sid] =
                [peer |-> req[r].peer, created |-> req[r].at, lastSeen |-> req[r].at,
                 expires |-> req[r].at + IdleTTL, revoked |-> FALSE]]
  /\ Goto(r, "auditCreate")
  /\ UNCHANGED <<clock, audited, known, used, toldRevoked, toldExpired, contended>>

(* Slip: the id is returned even when its audit row could not be written.  *)
AuditCreate_ErrorDropped(r) ==
  /\ At(r, "auditCreate")
  /\ audited' \in {audited, audited \cup {<<"create", req[r].sid>>}}
  /\ known' = known \cup {req[r].sid}
  /\ used' = [used EXCEPT ![req[r].sid] = req[r].at]
  /\ Finish(r)
  /\ UNCHANGED <<clock, stored, rows, toldRevoked, toldExpired, contended>>

(* The audit row must be written for the id to be returned.                *)
AuditCreate(r) ==
  /\ At(r, "auditCreate")
  /\ audited' = audited \cup {<<"create", req[r].sid>>}
  /\ known' = known \cup {req[r].sid}
  /\ used' = [used EXCEPT ![req[r].sid] = req[r].at]
  /\ Finish(r)
  /\ UNCHANGED <<clock, stored, rows, toldRevoked, toldExpired, contended>>

(* ValidateSession: sessionByID of an id the client was given.             *)
BeginValidate(r, s, p) ==
  /\ At(r, "idle")
  /\ s \in known
  /\ req' = [req EXCEPT ![r] = [IdleRequest EXCEPT
                !.pc = "check", !.sid = s, !.peer = p, !.seen = rows[s],
                !.afterRevoked = s \in toldRevoked, !.afterExpired = s \in toldExpired]]
  /\ contended' = IF \E q \in Requests : Validating(q, s) THEN contended \cup {s} ELSE contended
  /\ UNCHANGED <<clock, stored, rows, audited, known, used, toldRevoked, toldExpired>>

RefuseRevoked(r) ==
  /\ At(r, "check")
  /\ req[r].seen.revoked
  /\ toldRevoked' = toldRevoked \cup {req[r].sid}
  /\ Finish(r)
  /\ UNCHANGED <<clock, stored, rows, audited, known, used, toldExpired, contended>>

(* Slip: last_seen and expires_at are touched before the expiry is tested. *)
RefuseExpired_TouchFirst(r) ==
  /\ At(r, "check")
  /\ ~req[r].seen.revoked
  /\ clock > req[r].seen.expires
  /\ rows' = [rows EXCEPT ![req[r].sid].expires = NewExpiry(clock, req[r].seen.created),
                          ![req[r].sid].lastSeen = clock]
  /\ toldExpired' = toldExpired \cup {req[r].sid}
  /\ Finish(r)
  /\ UNCHANGED <<clock, stored, audited, known, used, toldRevoked, contended>>

RefuseExpired(r) ==
  /\ At(r, "check")
  /\ ~req[r].seen.revoked
  /\ clock > req[r].seen.expires
  /\ toldExpired' = toldExpired \cup {req[r].sid}
  /\ Finish(r)
  /\ UNCHANGED <<clock, stored, rows, audited, known, used, toldRevoked, contended>>

RefusePeer(r) ==
  /\ At(r, "check")
  /\ ~req[r].seen.revoked
  /\ clock <= req[r].seen.expires
  /\ req[r].peer # req[r].seen.peer
  /\ Finish(r)
  /\ UNCHANGED <<clock, stored, rows, audited, known, used, toldRevoked, toldExpired, contended>>

PassChecks(r) ==
  /\ At(r, "check")
  /\ ~req[r].seen.revoked
  /\ clock <= req[r].seen.expires
  /\ req[r].peer = req[r].seen.peer
  /\ req' = [req EXCEPT ![r].pc = "write", ![r].at = clock]
  /\ UNCHANGED <<clock, stored, rows, audited, known, used, toldRevoked, toldExpired, contended>>

(* Slip: the cap is applied when a session is created, not when it slides. *)
WriteValidate_NoCap(r) ==
  /\ At(r, "write")
  /\ rows' = [rows EXCEPT ![req[r].sid].lastSeen = req[r].at,
                          ![req[r].sid].expires = req[r].at + IdleTTL]
  /\ used' = [used EXCEPT ![req[r].sid] = Later(@, req[r].at)]
  /\ Finish(r)
  /\ UNCHANGED <<clock, stored, audited, known, toldRevoked, toldExpired, contended>>

(* Slip: only last_seen slides.                                            *)
WriteValidate_NoSlide(r) ==
  /\ At(r, "write")
  /\ rows' = [rows EXCEPT ![req[r].sid].lastSeen = req[r].at]
  /\ used' = [used EXCEPT ![req[r].sid] = Later(@, req[r].at)]
  /\ Finish(r)
  /\ UNCHANGED <<clock, stored, audited, known, toldRevoked, toldExpired, contended>>

(* UPDATE sessions SET last_seen=?, expires_at=?, from the row as it was   *)
(* when the request read it.                                               *)
WriteValidate(r) ==
  /\ At(r, "write")
  /\ rows' = [rows EXCEPT ![req[r].sid].lastSeen = req[r].at,
                          ![req[r].sid].expires = NewExpiry(req[r].at, req[r].seen.created)]
  /\ used' = [used EXCEPT ![req[r].sid] = Later(@, req[r].at)]
  /\ Finish(r)
  /\ UNCHANGED <<clock, stored, audited, known, toldRevoked, toldExpired, contended>>

(* RevokeSession: the row is read only to learn whether it exists.         *)
BeginRevoke(r, s) ==
  /\ At(r, "idle")
  /\ s \in known
  /\ req' = [req EXCEPT ![r] = [IdleRequest EXCEPT !.pc = "mark", !.sid = s]]
  /\ UNCHANGED <<clock, stored, rows, audited, known, used, toldRevoked, toldExpired, contended>>

(* Slip: sessions that look expired are not worth revoking.                *)
MarkRevoked_LiveOnly(r) ==
  /\ At(r, "mark")
  /\ rows' = [rows EXCEPT ![req[r].sid].revoked = @ \/ clock <= rows[req[r].sid].expires]
  /\ Goto(r, "auditRevoke")
  /\ UNCHANGED <<clock, stored, audited, known, used, toldRevoked, toldExpired, contended>>

MarkRevoked(r) ==
  /\ At(r, "mark")
  /\ rows' = [rows EXCEPT ![req[r].sid].revoked = TRUE]
  /\ Goto(r, "auditRevoke")
  /\ UNCHANGED <<clock, stored, audited, known, used, toldRevoked, toldExpired, contended>>

(* The audit of a revocation is best effort: its error is dropped and the  *)
(* caller is answered ok either way.                                       *)
AuditRevoke(r) ==
  /\ At(r, "auditRevoke")
  /\ \/ audited' = audited \cup {<<"revoke", req[r].sid>>}
     \/ UNCHANGED audited
  /\ toldRevoked' = toldRevoked \cup {req[r].sid}
  /\ Finish(r)
  /\ UNCHANGED <<clock, stored, rows, known, used, toldExpired, contended>>

(* The client hangs up, a statement fails or the agent stops: what the     *)
(* handler wrote stays, what it was about to write never happens.          *)
Cancel(r) ==
  /\ ~At(r, "idle")
  /\ Finish(r)
  /\ UNCHANGED <<clock, stored, rows, audited, known, used, toldRevoked, toldExpired, contended>>

Serve(r) ==
  \/ \E s \in SessionIds, p \in Peers : BeginCreate(r, s, p)
  \/ InsertSession(r)
  \/ AuditCreate(r)
  \/ \E s \in SessionIds, p \in Peers : BeginValidate(r, s, p)
  \/ RefuseRevoked(r)
  \/ RefuseExpired(r)
  \/ RefusePeer(r)
  \/ PassChecks(r)
  \/ WriteValidate(r)
  \/ \E s \in SessionIds : BeginRevoke(r, s)
  \/ MarkRevoked(r)
  \/ AuditRevoke(r)
  \/ Cancel(r)

Next == Tick \/ \E r \in Requests : Serve(r)

Spec == Init /\ [][Next]_vars

-----------------------------------------------------------------------------
(* Every variable has its type. *)
TypeOK ==
  /\ clock \in Nat
  /\ stored \subseteq SessionIds
  /\ rows \in [SessionIds -> Row]
  /\ audited \subseteq {"create", "revoke"} \X SessionIds
  /\ req \in [Requests -> Request]
  /\ known \subseteq stored
  /\ used \in [SessionIds -> Nat]
  /\ toldRevoked \subseteq SessionIds
  /\ toldExpired \subseteq SessionIds
  /\ contended \subseteq SessionIds

(* Whatever order the UPDATEs of concurrent requests land in, the expiry   *)
(* kept in a row is the idle window after its own last_seen, cut at the    *)
(* hard cap after its creation (ValidateSession, auth.go).                 *)
SlidingExpiry ==
  \A s \in stored : rows[s].expires = NewExpiry(rows[s].lastSeen, rows[s].created)

(* No request gets past the checks later than the hard cap of the session, *)
(* however stale the row it read and however often the session slid.       *)
AcceptedWithinCap ==
  \A r \in Requests : At(r, "write") => req[r].at <= rows[req[r].sid].created + HardTTL

(* No request gets past the checks more than an idle window after the last *)
(* moment for which a call answered that the session is valid, even when   *)
(* validations overlap and their UPDATEs land in any order.                *)
AcceptedWithinIdle ==
  \A r \in Requests : At(r, "write") => req[r].at <= used[req[r].sid] + IdleTTL

(* Once any caller has been told that a session is revoked (by a logout    *)
(* that was answered or by a refusal), no request that begins afterwards   *)
(* is accepted, whatever UPDATEs were still in flight.                     *)
LogoutIsFinal == \A r \in Requests : At(r, "write") => ~req[r].afterRevoked

(* A concurrent slide never changes the identity of a session nor undoes a *)
(* revocation: the two UPDATEs write disjoint columns.                     *)
RowsKeepIdentity ==
  [][\A s \in stored :
       /\ s \in stored'
       /\ rows'[s].created = rows[s].created /\ rows'[s].peer = rows[s].peer
       /\ rows[s].revoked => rows'[s].revoked]_vars

(* A session a client can present was audited, and a revocation in the     *)
(* audit log is one that took effect: a failure between the INSERT and the *)
(* audit row leaves a row nobody was given the id of.                      *)
AuditAccountsForSessions ==
  /\ \A s \in known : <<"create", s>> \in audited
  /\ \A s \in SessionIds : <<"revoke", s>> \in audited => rows[s].revoked

(* Once a caller has been told that a session expired, no later request    *)
(* is accepted, unless two validations of that session have overlapped:    *)
(* then an UPDATE that was still on its way may bring it back.             *)
TimeoutIsFinal ==
  \A r \in Requests : At(r, "write") /\ req[r].sid \notin contended => ~req[r].afterExpired

BoughtWindow(s) == rows[s].expires >= NewExpiry(used[s], rows[s].created)

(* A call that answered "valid" buys the operator a whole idle window from *)
(* that moment, up to the hard cap, unless validations have overlapped:    *)
(* then their UPDATEs may land in the other order and shorten it.          *)
ActivityExtendsSession == \A s \in known \ contended : BoughtWindow(s)
=============================================================================
