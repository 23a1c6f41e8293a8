------------------------------ MODULE Passkeys ------------------------------
(***************************************************************************)
(* Sign-in with a passkey: the login form, the two login routes of the UI  *)
(* with their pending cookie, and CompletePasskeyLogin of the agent.       *)
(*                                                                         *)
(* One operator with one authenticator uses several tabs of one browser.   *)
(* A ceremony is one challenge.  The browser's cookie holds the challenge  *)
(* of the ceremony begun last; an assertion is the authenticator's answer  *)
(* to a challenge and carries its signature counter.  A request of the     *)
(* verify route reads the stored counter, lets the library compare, asks   *)
(* the agent, which reads, compares and writes in statements of its own,   *)
(* and gets a session.                                                     *)
(***************************************************************************)
EXTENDS Integers

CONSTANTS
  Ceremonies,   \* challenges the options route mints
  Requests,     \* concurrent calls of the verify route
  Registered    \* counters a passkey may have had when setup registered it

ASSUME RegisteredAssumption == Registered \subseteq Nat

VARIABLES
  counts,    \* does the authenticator keep a counter?  Otherwise it sends 0
  device,    \* the authenticator's own counter
  signed,    \* per ceremony, the counter of its assertion
  cookie,    \* the pending ceremony of the browser's jar
  stored,    \* column sign_count of webauthn_credentials
  req,       \* per request: its step, the assertion it carries and what it has read
  sessions,  \* per ceremony, how many sessions its assertion was given
  raced      \* have two requests been between lookup and write at once?

vars == <<counts, device, signed, cookie, stored, req, sessions, raced>>

-----------------------------------------------------------------------------
None == "none"
Fresh == -2       \* signed[c] of a challenge not minted yet
Unsigned == -1    \* ... of one that waits for the operator
Many == 2         \* sessions are counted up to here
Steps == {"idle", "lookup", "verify", "read", "write", "issue", "respond"}
Window == {"verify", "read", "write"}

Request == [step: Steps, assertion: Ceremonies \cup {None}, challenge: Ceremonies \cup {None}, seen: Nat]
IdleRequest == [step |-> "idle", assertion |-> None, challenge |-> None, seen |-> 0]

At(r, step) == req[r].step = step
Goto(r, step) == req' = [req EXCEPT ![r].step = step]
Finish(r) == req' = [req EXCEPT ![r] = IdleRequest]
Counter(r) == signed[req[r].assertion]

Init ==
  /\ counts \in BOOLEAN
  /\ device \in IF counts THEN Registered ELSE {0}
  /\ signed = [c \in Ceremonies |-> Fresh]
  /\ cookie = None
  /\ stored = device
  /\ req = [r \in Requests |-> IdleRequest]
  /\ sessions = [c \in Ceremonies |-> 0]
  /\ raced = FALSE

-----------------------------------------------------------------------------
(* POST /api/auth/login/options: a new challenge, sealed in the cookie the *)
(* tabs share.  A ceremony begun earlier in another tab loses its cookie.  *)
Begin(c) ==
  /\ signed[c] = Fresh
  /\ signed' = [signed EXCEPT ![c] = Unsigned]
  /\ cookie' = c
  /\ UNCHANGED <<counts, device, stored, req, sessions, raced>>

(* Ten minutes pass, or a setup ceremony takes the cookie over.            *)
Forget ==
  /\ cookie # None
  /\ cookie' = None
  /\ UNCHANGED <<counts, device, signed, stored, req, sessions, raced>>

(* navigator.credentials.get: the operator touches the authenticator.      *)
Sign(c) ==
  /\ signed[c] = Unsigned
  /\ device' = IF counts THEN device + 1 ELSE 0
  /\ signed' = [signed EXCEPT ![c] = device']
  /\ UNCHANGED <<counts, cookie, stored, req, sessions, raced>>

(* POST /api/auth/login/passkey with whatever ceremony the cookie holds.   *)
(* The cookie is cleared by the answer only, so the call may be repeated.  *)
Submit(r, c) ==
  /\ At(r, "idle")
  /\ signed[c] \in Nat
  /\ cookie # None
  /\ req' = [req EXCEPT ![r] = [step |-> "lookup", assertion |-> c, challenge |-> cookie, seen |-> 0]]
  /\ UNCHANGED <<counts, device, signed, cookie, stored, sessions, raced>>

(* LookupLogin: the credential with its stored counter.                    *)
Lookup(r) ==
  /\ At(r, "lookup")
  /\ req' = [req EXCEPT ![r].step = "verify", ![r].seen = stored]
  /\ raced' = (raced \/ \E q \in Requests \ {r} : req[q].step \in Window)
  /\ UNCHANGED <<counts, device, signed, cookie, stored, sessions>>

(* verifyAuthenticationResponse: this challenge, and a counter above the   *)
(* one looked up, unless both are zero.                                    *)
Verified(r) ==
  /\ req[r].assertion = req[r].challenge
  /\ Counter(r) > 0 \/ req[r].seen > 0 => Counter(r) > req[r].seen

Verify(r) ==
  /\ At(r, "verify")
  /\ Verified(r)
  /\ Goto(r, "read")
  /\ UNCHANGED <<counts, device, signed, cookie, stored, sessions, raced>>

RefuseAssertion(r) ==
  /\ At(r, "verify")
  /\ ~Verified(r)
  /\ Finish(r)
  /\ UNCHANGED <<counts, device, signed, cookie, stored, sessions, raced>>

(* Slip: the comparison is the wrong way round.                            *)
RolledBack_Swapped(r) == stored > 0 /\ Counter(r) > 0 /\ Counter(r) > stored

(* "credential counter rollback detected"                                  *)
RolledBack(r) == stored > 0 /\ Counter(r) > 0 /\ Counter(r) < stored

(* CompletePasskeyLogin reads the credential again and compares.           *)
ReadCounter(r) ==
  /\ At(r, "read")
  /\ ~RolledBack(r)
  /\ req' = [req EXCEPT ![r].step = "write", ![r].seen = stored]
  /\ UNCHANGED <<counts, device, signed, cookie, stored, sessions, raced>>

RefuseRollback(r) ==
  /\ At(r, "read")
  /\ RolledBack(r)
  /\ Finish(r)
  /\ UNCHANGED <<counts, device, signed, cookie, stored, sessions, raced>>

Larger(a, b) == IF a > b THEN a ELSE b

(* Slip: only last_used is written.                                        *)
WriteCounter_TimeOnly(r) ==
  /\ At(r, "write")
  /\ Goto(r, "issue")
  /\ UNCHANGED <<counts, device, signed, cookie, stored, sessions, raced>>

(* Slip: the counter the next assertion is expected to carry.              *)
WriteCounter_Next(r) ==
  /\ At(r, "write")
  /\ stored' = Larger(req[r].seen, Counter(r)) + 1
  /\ Goto(r, "issue")
  /\ UNCHANGED <<counts, device, signed, cookie, sessions, raced>>

(* Slip: the distance to the counter read.                                 *)
WriteCounter_Distance(r) ==
  /\ At(r, "write")
  /\ stored' = req[r].seen - Counter(r)
  /\ Goto(r, "issue")
  /\ UNCHANGED <<counts, device, signed, cookie, sessions, raced>>

(* The UPDATE does not compare again: it writes what was read before.      *)
WriteCounter(r) ==
  /\ At(r, "write")
  /\ stored' = Larger(req[r].seen, Counter(r))
  /\ Goto(r, "issue")
  /\ UNCHANGED <<counts, device, signed, cookie, sessions, raced>>

(* The audit entry and CreateSession (module Sessions).                    *)
IssueSession(r) ==
  /\ At(r, "issue")
  /\ sessions' = [sessions EXCEPT ![req[r].assertion] = IF @ < Many THEN @ + 1 ELSE @]
  /\ Goto(r, "respond")
  /\ UNCHANGED <<counts, device, signed, cookie, stored, raced>>

(* The answer clears the pending cookie, whichever ceremony is in it now.  *)
Respond(r) ==
  /\ At(r, "respond")
  /\ cookie' = None
  /\ Finish(r)
  /\ UNCHANGED <<counts, device, signed, stored, sessions, raced>>

(* A statement or the signature check fails, the user was not verified,    *)
(* the browser goes away, the agent or the UI stops.                       *)
Cancel(r) ==
  /\ ~At(r, "idle")
  /\ Finish(r)
  /\ UNCHANGED <<counts, device, signed, cookie, stored, sessions, raced>>

-----------------------------------------------------------------------------
Login(r) ==
  \/ \E c \in Ceremonies : Submit(r, c)
  \/ Lookup(r)
  \/ Verify(r)
  \/ RefuseAssertion(r)
  \/ ReadCounter(r)
  \/ RefuseRollback(r)
  \/ WriteCounter(r)
  \/ IssueSession(r)
  \/ Respond(r)
  \/ Cancel(r)

Next ==
  \/ \E c \in Ceremonies : Begin(c) \/ Sign(c)
  \/ Forget
  \/ \E r \in Requests : Login(r)

Spec == Init /\ [][Next]_vars

-----------------------------------------------------------------------------
(* Every variable has its type, and a request under way carries a signed   *)
(* assertion. *)
TypeOK ==
  /\ counts \in BOOLEAN
  /\ device \in Nat
  /\ signed \in [Ceremonies -> Nat \cup {Fresh, Unsigned}]
  /\ cookie \in Ceremonies \cup {None}
  /\ stored \in Nat
  /\ req \in [Requests -> Request]
  /\ \A r \in Requests : ~At(r, "idle") => req[r].assertion \in Ceremonies /\ Counter(r) \in Nat
  /\ sessions \in [Ceremonies -> 0 .. Many]
  /\ raced \in BOOLEAN

(* An assertion of a counting authenticator signs in at most once, however *)
(* often it is sent, until two requests overlap between the lookup and the *)
(* write: then both may pass, for the agent accepts an equal counter.      *)
AssertionSignsInOnce == counts /\ ~raced => \A c \in Ceremonies : sessions[c] <= 1

(* Whatever requests overlap or fail, the stored counter never runs ahead  *)
(* of the authenticator: its next assertion passes both comparisons, so    *)
(* the operator is never locked out by an earlier sign-in.                 *)
NeverLockedOut == stored <= device

(* The agent accuses the authenticator of a rollback only if another       *)
(* request has written its counter since this one looked it up.            *)
NoFalseRollback == [][\A r \in Requests : RefuseRollback(r) => stored # req[r].seen]_vars

(* The stored counter goes back only if two requests overlapped.           *)
CounterForward == [][raced \/ stored' >= stored]_vars
=============================================================================
