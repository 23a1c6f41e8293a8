------------------------------ MODULE Bootstrap ------------------------------
(***************************************************************************)
(* First-run setup: the setup routes of aegis-ui/app/api/auth/setup and    *)
(* BootstrapOperator of internal/auth/auth.go.                             *)
(*                                                                         *)
(* A ceremony is what one visit of the setup page mints: a challenge, a    *)
(* TOTP seed and a recovery kit, sealed in the browser's cookie.  A        *)
(* request carries a ceremony to the agent, which counts the operators,    *)
(* inserts one, audits it and opens a session, each in a statement or a    *)
(* transaction of its own.  The kit is displayed only if all of it worked. *)
(***************************************************************************)
EXTENDS Naturals

CONSTANTS
  Usernames,    \* names visitors choose, trimmed and lower-cased
  Ceremonies,   \* each with fresh secrets
  Requests      \* concurrent calls of the verify route

ASSUME UsernamesAssumption == Usernames # {} /\ Ceremonies # {}

VARIABLES
  operators,   \* rows of table operators, with the kit whose hashes they hold
  stage,       \* per ceremony: not minted, in a cookie, or cleared
  username,    \* per ceremony, the name it was minted for
  req,         \* per request: its step and its ceremony
  audited,     \* ceremonies with an auth.bootstrap entry
  sessions,    \* ceremonies whose operator was given a session
  shown,       \* ceremonies whose kit the page has displayed
  raced        \* have two verify calls been in progress at once?

vars == <<operators, stage, username, req, audited, sessions, shown, raced>>

-----------------------------------------------------------------------------
Stages == {"new", "pending", "gone"}
Steps == {"idle", "count", "insert", "audit", "session", "respond"}

Row == [username: Usernames, kit: Ceremonies]

At(r, step) == req[r].step = step
Goto(r, step) == req' = [req EXCEPT ![r].step = step]
Finish(r) == Goto(r, "idle")

RowOf(r) == [username |-> username[req[r].ceremony], kit |-> req[r].ceremony]
Named(u) == {row \in operators : row.username = u}

Init ==
  /\ operators = {}
  /\ stage = [c \in Ceremonies |-> "new"]
  /\ username = [c \in Ceremonies |-> CHOOSE u \in Usernames : TRUE]
  /\ req = [r \in Requests |-> [step |-> "idle", ceremony |-> CHOOSE c \in Ceremonies : TRUE]]
  /\ audited = {}
  /\ sessions = {}
  /\ shown = {}
  /\ raced = FALSE

-----------------------------------------------------------------------------
(* POST /api/auth/setup/options: refused once an operator exists.          *)
MintCeremony(c, u) ==
  /\ stage[c] = "new"
  /\ operators = {}
  /\ stage' = [stage EXCEPT ![c] = "pending"]
  /\ username' = [username EXCEPT ![c] = u]
  /\ UNCHANGED <<operators, req, audited, sessions, shown, raced>>

(* The cookie expires, or another sign-in of this browser overwrites it.   *)
ForgetCeremony(c) ==
  /\ stage[c] = "pending"
  /\ stage' = [stage EXCEPT ![c] = "gone"]
  /\ UNCHANGED <<operators, username, req, audited, sessions, shown, raced>>

(* POST /api/auth/setup/verify.  The cookie stays until the call succeeds, *)
(* so the same ceremony may be sent again, even while a call is running.   *)
Verify(r, c) ==
  /\ At(r, "idle")
  /\ stage[c] = "pending"
  /\ req' = [req EXCEPT ![r] = [step |-> "count", ceremony |-> c]]
  /\ raced' = (raced \/ \E q \in Requests \ {r} : ~At(q, "idle"))
  /\ UNCHANGED <<operators, stage, username, audited, sessions, shown>>

(* Slip: the operator table is not consulted.                              *)
CountNone_Unchecked(r) ==
  /\ At(r, "count")
  /\ Goto(r, "insert")
  /\ UNCHANGED <<operators, stage, username, audited, sessions, shown, raced>>

CountNone(r) ==
  /\ At(r, "count")
  /\ operators = {}
  /\ Goto(r, "insert")
  /\ UNCHANGED <<operators, stage, username, audited, sessions, shown, raced>>

(* "bootstrap already completed"                                           *)
RefuseCompleted(r) ==
  /\ At(r, "count")
  /\ operators # {}
  /\ Finish(r)
  /\ UNCHANGED <<operators, stage, username, audited, sessions, shown, raced>>

(* Slip: INSERT OR REPLACE, the later call takes the name over.            *)
InsertOperator_Replaces(r) ==
  /\ At(r, "insert")
  /\ operators' = (operators \ Named(username[req[r].ceremony])) \cup {RowOf(r)}
  /\ Goto(r, "audit")
  /\ UNCHANGED <<stage, username, audited, sessions, shown, raced>>

(* Slip: a row nobody's ceremony belongs to.                               *)
InsertOperator_NoKit(r) ==
  /\ At(r, "insert")
  /\ operators' = operators \cup {[username |-> username[req[r].ceremony], kit |-> "none"]}
  /\ Goto(r, "audit")
  /\ UNCHANGED <<stage, username, audited, sessions, shown, raced>>

(* The transaction inserts the operator and its passkey.                   *)
InsertOperator(r) ==
  /\ At(r, "insert")
  /\ Named(username[req[r].ceremony]) = {}
  /\ operators' = operators \cup {RowOf(r)}
  /\ Goto(r, "audit")
  /\ UNCHANGED <<stage, username, audited, sessions, shown, raced>>

(* UNIQUE constraint failed: operators.username                            *)
RefuseTakenName(r) ==
  /\ At(r, "insert")
  /\ Named(username[req[r].ceremony]) # {}
  /\ Finish(r)
  /\ UNCHANGED <<operators, stage, username, audited, sessions, shown, raced>>

(* Slip: an error of the audit log is dropped.                             *)
AuditBootstrap_ErrorDropped(r) ==
  /\ At(r, "audit")
  /\ audited' \in {audited, audited \cup {req[r].ceremony}}
  /\ Goto(r, "session")
  /\ UNCHANGED <<operators, stage, username, sessions, shown, raced>>

AuditBootstrap(r) ==
  /\ At(r, "audit")
  /\ audited' = audited \cup {req[r].ceremony}
  /\ Goto(r, "session")
  /\ UNCHANGED <<operators, stage, username, sessions, shown, raced>>

(* CreateSession for the new operator (module Sessions).                   *)
IssueSession(r) ==
  /\ At(r, "session")
  /\ sessions' = sessions \cup {req[r].ceremony}
  /\ Goto(r, "respond")
  /\ UNCHANGED <<operators, stage, username, audited, shown, raced>>

(* The verify route has its answer: cookie cleared, kit displayed.         *)
DiscloseKit(r) ==
  /\ At(r, "respond")
  /\ stage' = [stage EXCEPT ![req[r].ceremony] = "gone"]
  /\ shown' = shown \cup {req[r].ceremony}
  /\ Finish(r)
  /\ UNCHANGED <<operators, username, audited, sessions, raced>>

(* A statement fails, the browser goes away, the agent or the UI stops.    *)
Cancel(r) ==
  /\ ~At(r, "idle")
  /\ Finish(r)
  /\ UNCHANGED <<operators, stage, username, audited, sessions, shown, raced>>

-----------------------------------------------------------------------------
Setup(r) ==
  \/ \E c \in Ceremonies : Verify(r, c)
  \/ CountNone(r)
  \/ RefuseCompleted(r)
  \/ InsertOperator(r)
  \/ RefuseTakenName(r)
  \/ AuditBootstrap(r)
  \/ IssueSession(r)
  \/ DiscloseKit(r)
  \/ Cancel(r)

Visit(c) ==
  \/ \E u \in Usernames : MintCeremony(c, u)
  \/ ForgetCeremony(c)

Next ==
  \/ \E c \in Ceremonies : Visit(c)
  \/ \E r \in Requests : Setup(r)

Spec == Init /\ [][Next]_vars

-----------------------------------------------------------------------------
(* Every variable has its type. *)
TypeOK ==
  /\ operators \subseteq Row
  /\ stage \in [Ceremonies -> Stages]
  /\ username \in [Ceremonies -> Usernames]
  /\ req \in [Requests -> [step: Steps, ceremony: Ceremonies]]
  /\ audited \subseteq Ceremonies
  /\ sessions \subseteq Ceremonies
  /\ shown \subseteq Ceremonies
  /\ raced \in BOOLEAN

(* A displayed kit works: whatever other setups ran beside this one, even  *)
(* for the same name, the row found under its name, the only one, holds    *)
(* the hashes of exactly this kit.                                         *)
ShownKitWorks ==
  \A c \in shown : Named(username[c]) = {[username |-> username[c], kit |-> c]}

(* Only a setup that won: a session or an audit entry exists for no        *)
(* ceremony whose operator is not in the table, and no session comes       *)
(* before its audit entry.                                                 *)
SessionsAreOfOwners ==
  /\ sessions \subseteq audited
  /\ audited \subseteq {row.kit : row \in operators}

(* Until two verify calls race, setup creates the first operator and no    *)
(* other, however many ceremonies were minted, resent or cut short.        *)
SerialSetupHasOneOwner == ~raced => \A row1, row2 \in operators : row1 = row2

(* What is left of it when they do race: only calls that counted while     *)
(* there was no operator can still insert one, each under a name and with  *)
(* a kit that no operator has; a call that counts later never does.        *)
Owner == INSTANCE FirstOwner
           WITH Kits <- Ceremonies, Claimants <- Requests, owners <- operators,
                entered <- {r \in Requests : At(r, "insert")}, disclosed <- shown
ImplementsFirstOwner == Owner!Spec
=============================================================================
