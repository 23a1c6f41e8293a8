--------------------------- MODULE RecoveryCodes ----------------------------
(***************************************************************************)
(* Sign-in with a recovery code: AuthenticateRecoveryCode,                 *)
(* consumeRecoveryCode and issueAuthenticatedSession of                    *)
(* internal/auth/auth.go, for one operator.                                *)
(*                                                                         *)
(* The JSON list of hashes is read, compared code by code with Argon2id    *)
(* (slow on purpose), and written back without the matching entry, in two  *)
(* statements and no transaction.  Then the login is audited and a session *)
(* is created.  A hash stands for the code it was made from.               *)
(***************************************************************************)
EXTENDS Naturals

CONSTANTS
  Codes,      \* codes a client may send, trimmed
  Issued,     \* the codes stored at bootstrap
  Requests,   \* concurrent requests
  MaxLogins   \* bound on the logins counted per code

ASSUME CodesAssumption ==
  /\ Issued \subseteq Codes /\ Issued # {}
  /\ MaxLogins \in Nat

VARIABLES
  hashes,   \* operators.recovery_hashes
  req,      \* per request: its step, the code and the hashes it read
  logins,   \* per code, how many sign-ins succeeded with it
  raced     \* have two requests been in progress at once?

vars == <<hashes, req, logins, raced>>

-----------------------------------------------------------------------------
Steps == {"idle", "compare", "update", "audit", "session"}
Request == [step: Steps, code: Codes, held: SUBSET Issued]

IdleRequest == [step |-> "idle", code |-> CHOOSE c \in Codes : TRUE, held |-> Issued]

At(r, step) == req[r].step = step
Goto(r, step) == req' = [req EXCEPT ![r].step = step]
Finish(r) == req' = [req EXCEPT ![r] = IdleRequest]

Remaining(r) == req[r].held \ {req[r].code}

Init ==
  /\ hashes = Issued
  /\ req = [r \in Requests |-> IdleRequest]
  /\ logins = [c \in Codes |-> 0]
  /\ raced = FALSE

-----------------------------------------------------------------------------
ReadHashes(r, code) ==
  /\ At(r, "idle")
  /\ req' = [req EXCEPT ![r] = [step |-> "compare", code |-> code, held |-> hashes]]
  /\ raced' = (raced \/ \E q \in Requests \ {r} : ~At(q, "idle"))
  /\ UNCHANGED <<hashes, logins>>

(* Slip: "not found" is not tested before the list is rebuilt.             *)
RefuseUnknown_FallsThrough(r) ==
  /\ At(r, "compare")
  /\ req[r].code \notin req[r].held
  /\ Goto(r, "update")
  /\ UNCHANGED <<hashes, logins, raced>>

(* "invalid recovery code"                                                 *)
RefuseUnknown(r) ==
  /\ At(r, "compare")
  /\ req[r].code \notin req[r].held
  /\ Finish(r)
  /\ UNCHANGED <<hashes, logins, raced>>

(* "no recovery codes remain after using this code": the last one is       *)
(* refused, not burned.                                                    *)
RefuseLast(r) ==
  /\ At(r, "compare")
  /\ req[r].code \in req[r].held
  /\ Remaining(r) = {}
  /\ Finish(r)
  /\ UNCHANGED <<hashes, logins, raced>>

(* Slip: the last code is accepted like any other.                         *)
Match_Last(r) ==
  /\ At(r, "compare")
  /\ req[r].code \in req[r].held
  /\ Goto(r, "update")
  /\ UNCHANGED <<hashes, logins, raced>>

(* Slip: the session is issued first and the list written some other time. *)
Match_BurnsLater(r) ==
  /\ At(r, "compare")
  /\ req[r].code \in req[r].held
  /\ Remaining(r) # {}
  /\ Goto(r, "audit")
  /\ UNCHANGED <<hashes, logins, raced>>

Match(r) ==
  /\ At(r, "compare")
  /\ req[r].code \in req[r].held
  /\ Remaining(r) # {}
  /\ Goto(r, "update")
  /\ UNCHANGED <<hashes, logins, raced>>

(* Slip: off by one, a neighbour of the matching entry is removed.         *)
WriteRemaining_WrongIndex(r) ==
  /\ At(r, "update")
  /\ hashes' = req[r].held \ {CHOOSE c \in Remaining(r) : TRUE}
  /\ Goto(r, "audit")
  /\ UNCHANGED <<logins, raced>>

(* Slip: the burned code is replaced by one nobody was shown.              *)
WriteRemaining_Replaces(r) ==
  /\ At(r, "update")
  /\ hashes' = Remaining(r) \cup {CHOOSE c \in Codes : c \notin Issued}
  /\ Goto(r, "audit")
  /\ UNCHANGED <<logins, raced>>

(* UPDATE operators SET recovery_hashes=?                                  *)
WriteRemaining(r) ==
  /\ At(r, "update")
  /\ hashes' = Remaining(r)
  /\ Goto(r, "audit")
  /\ UNCHANGED <<logins, raced>>

(* The login is audited before its session exists.                         *)
AuditLogin(r) ==
  /\ At(r, "audit")
  /\ Goto(r, "session")
  /\ UNCHANGED <<hashes, logins, raced>>

IssueSession(r) ==
  /\ At(r, "session")
  /\ logins[req[r].code] < MaxLogins
  /\ logins' = [logins EXCEPT ![req[r].code] = @ + 1]
  /\ Finish(r)
  /\ UNCHANGED <<hashes, raced>>

(* A statement fails, the client goes away or the agent stops.             *)
Cancel(r) ==
  /\ ~At(r, "idle")
  /\ Finish(r)
  /\ UNCHANGED <<hashes, logins, raced>>

Authenticate(r) ==
  \/ \E code \in Codes : ReadHashes(r, code)
  \/ RefuseUnknown(r)
  \/ RefuseLast(r)
  \/ Match(r)
  \/ WriteRemaining(r)
  \/ AuditLogin(r)
  \/ IssueSession(r)
  \/ Cancel(r)

Next == \E r \in Requests : Authenticate(r)

Spec == Init /\ [][Next]_vars

-----------------------------------------------------------------------------
(* Every variable has its type. *)
TypeOK ==
  /\ hashes \subseteq Issued
  /\ req \in [Requests -> Request]
  /\ logins \in [Codes -> Nat]
  /\ raced \in BOOLEAN

(* However many sign-ins race, the operator is never left without a code,  *)
(* not even when two of them each take the other for a remaining one.      *)
CodesNeverRunOut == hashes # {}

(* Every session was paid for with an issued code, by a request that found *)
(* it among the hashes it read and has written the list without it.        *)
LoginsUseIssuedCodes ==
  /\ \A c \in Codes : logins[c] > 0 => c \in Issued
  /\ \A r \in Requests : req[r].step \in {"update", "audit", "session"} => req[r].code \in req[r].held

(* A code signs in at most once, until two requests race.                  *)
SerialSignsInOnce == ~raced => \A c \in Codes : logins[c] <= 1

(* "Each successful sign-in burns one code permanently": a code signs in   *)
(* at most once, whoever sends it and when.  Racing requests break this.   *)
CodeSignsInOnce == \A c \in Codes : logins[c] <= 1

(* Until requests race they implement one-time codes; then the rest of it. *)
OneTime == INSTANCE OneTimeCodes WITH live <- hashes, spent <- {c \in Codes : logins[c] > 0}
ImplementsOneTime == OneTime!Spec
=============================================================================
