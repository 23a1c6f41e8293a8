---------------------------- MODULE PanelBrowser ----------------------------
(***************************************************************************)
(* The tabs of one browser, the pages of the UI they load and the session  *)
(* cookie they share: lib/auth/session.ts, the pages' redirects, the       *)
(* sign-in forms and the sign-out button with their routes.                *)
(*                                                                         *)
(* A tab rests on a page, loads one or waits for a fetch; what a tab does  *)
(* while it waits is done by another tab here.  A navigation carries the   *)
(* cookie the jar held when it was sent; each redirect is a request of its *)
(* own.  A fetch is handled by the UI, which asks the agent, and its       *)
(* answer sets or clears the cookie when it arrives, in any order with     *)
(* other answers, or is lost.                                              *)
(***************************************************************************)
EXTENDS PanelPages

CONSTANTS
  Tabs,
  Sessions,     \* ids of the agent's sessions
  Opened,       \* the panel pages the operator opens
  Faulty,       \* reads that may fail although the agent answers
  MaxFaults     \* bound on stops of the agent and on sessions it accepts again

ASSUME PagesAssumption == Opened \subseteq Modules /\ "dashboard" \in Opened /\ Faulty \subseteq Reads
ASSUME FaultsAssumption == MaxFaults \in Nat

VARIABLES
  initialized,  \* has an operator been created?
  up,           \* does the agent answer?
  faults,       \* how often it has stopped or accepted a session again
  row,          \* the agent's sessions
  jar,          \* the session in the browser's cookie
  tab,          \* per tab, what it shows and what it waits for
  astray        \* sessions the browser has lost, with a reason

vars == <<initialized, up, faults, row, jar, tab, astray>>

-----------------------------------------------------------------------------
None == "none"
AuthPages == {"home", "login", "recover", "setup"}
Pages == AuthPages \cup Opened
MaxHops == 3   \* redirects are counted up to here

ASSUME SessionsAssumption == None \notin Sessions

Tab == [at: Pages \cup {"error", None}, nav: Pages \cup {None}, soft: BOOLEAN, sent: Sessions \cup {None},
        hops: 0 .. MaxHops, calm: BOOLEAN, after: {None, "signIn", "signOut"},
        call: {None, "signIn", "setup", "founding", "signOut"}, id: Sessions \cup {None}, done: BOOLEAN]

NewTab == [at |-> "error", nav |-> None, soft |-> FALSE, sent |-> None, hops |-> 0, calm |-> FALSE,
           after |-> None, call |-> None, id |-> None, done |-> FALSE]

Init ==
  /\ initialized = FALSE
  /\ up = TRUE
  /\ faults = 0
  /\ row = [s \in Sessions |-> "none"]
  /\ jar = None
  /\ tab = [t \in Tabs |-> NewTab]
  /\ astray = {}

(* A change the redirects under way may depend on: they are not counted    *)
(* any more, and where they lead is open.                                  *)
Disturbed == [t \in Tabs |-> [tab[t] EXCEPT !.calm = FALSE, !.hops = 0, !.after = None]]

(* A request for a page, with the cookie the jar holds then.               *)
Heading(state, page, soft, cookie, reason) ==
  [state EXCEPT !.at = None, !.nav = page, !.soft = soft, !.sent = cookie, !.calm = TRUE, !.after = reason]

AtRest(state) ==
  [state EXCEPT !.nav = None, !.soft = FALSE, !.sent = None, !.hops = 0, !.calm = FALSE, !.after = None]

Show(t, page) ==
  /\ tab' = [tab EXCEPT ![t] = [AtRest(tab[t]) EXCEPT !.at = page]]
  /\ UNCHANGED <<initialized, up, faults, row, jar, astray>>

Redirect(t, page) ==
  /\ tab' = [tab EXCEPT ![t].nav = page, ![t].soft = FALSE, ![t].sent = jar,
                        ![t].hops = IF tab[t].calm /\ @ < MaxHops THEN @ + 1 ELSE @]
  /\ UNCHANGED <<initialized, up, faults, row, jar, astray>>

-----------------------------------------------------------------------------
(* Loading pages.                                                          *)

Resting(t) == tab[t].nav = None /\ tab[t].call = None

(* The operator opens an address, or follows a link.  Between pages of the *)
(* panel a link is followed softly: the layout is not asked again.         *)
Open(t, page) ==
  /\ Resting(t)
  /\ tab' = [tab EXCEPT ![t] = Heading(tab[t], page, FALSE, jar, None)]
  /\ UNCHANGED <<initialized, up, faults, row, jar, astray>>

Follow(t, page) ==
  /\ Resting(t)
  /\ tab[t].at \in Opened /\ page \in Opened
  /\ tab' = [tab EXCEPT ![t] = Heading(tab[t], page, TRUE, jar, None)]
  /\ UNCHANGED <<initialized, up, faults, row, jar, astray>>

(* maybeGetOperatorSession: the agent has the last word, and any error     *)
(* counts as no session.                                                   *)
SignedIn(t) == tab[t].sent # None /\ up /\ row[tab[t].sent] = "live"

ServeHome(t) ==
  /\ tab[t].nav = "home"
  /\ IF up THEN Redirect(t, IF initialized THEN "dashboard" ELSE "setup") ELSE Show(t, "error")

(* Slip: the sealed cookie is taken at its word.                           *)
ServeAuth_CookieOnly(t) ==
  /\ tab[t].nav \in {"login", "recover", "setup"}
  /\ IF tab[t].sent # None THEN Redirect(t, "dashboard") ELSE Show(t, tab[t].nav)

(* Slip: login sends to setup before it looks at the session.              *)
ServeAuth_SetupFirst(t) ==
  /\ tab[t].nav \in {"login", "recover", "setup"}
  /\ LET page == tab[t].nav IN
     CASE page = "setup" /\ initialized -> Redirect(t, "login")
       [] page # "setup" /\ SignedIn(t) -> Redirect(t, "home")
       [] OTHER -> Show(t, page)

(* login, recover and setup turn a signed-in operator away; login and      *)
(* setup also ask whether there is an operator.                            *)
ServeAuth(t) ==
  /\ tab[t].nav \in {"login", "recover", "setup"}
  /\ LET page == tab[t].nav IN
     CASE SignedIn(t) -> Redirect(t, "dashboard")
       [] ~SignedIn(t) /\ page = "recover" -> Show(t, page)
       [] ~SignedIn(t) /\ page # "recover" /\ ~up -> Show(t, "error")
       [] ~SignedIn(t) /\ page = "setup" /\ up -> Show(t, page)
       [] ~SignedIn(t) /\ page = "login" /\ up ->
            IF initialized THEN Show(t, page) ELSE Redirect(t, "setup")

(* The layout asks for a session, then the layout and the page read.       *)
ServePanel(t, failed) ==
  LET page == tab[t].nav
      reads == PageReads(page) \cup IF tab[t].soft THEN {} ELSE LayoutReads
  IN /\ page \in Opened
     /\ CASE ~tab[t].soft /\ ~SignedIn(t) -> Redirect(t, "login")
          [] (tab[t].soft \/ SignedIn(t)) /\ (~up \/ reads \cap failed # {}) -> Show(t, "error")
          [] OTHER -> Show(t, page)

Serve(t) == ServeHome(t) \/ ServeAuth(t) \/ \E failed \in SUBSET Faulty : ServePanel(t, failed)

-----------------------------------------------------------------------------
(* Signing in and out.                                                     *)

(* A form of the login or recovery page, or the setup form, is submitted.  *)
Submit(t, kind) ==
  /\ Resting(t)
  /\ \/ kind = "signIn" /\ tab[t].at \in {"login", "recover"}
     \/ kind = "setup" /\ tab[t].at = "setup"
  /\ tab' = [tab EXCEPT ![t].call = kind]
  /\ UNCHANGED <<initialized, up, faults, row, jar, astray>>

(* The agent finds no operator: what it does next does not depend on it.   *)
BeginSetup(t) ==
  /\ tab[t].call = "setup"
  /\ up /\ ~initialized
  /\ tab' = [tab EXCEPT ![t].call = "founding"]
  /\ UNCHANGED <<initialized, up, faults, row, jar, astray>>

Granted(t) == up /\ ~tab[t].done /\ (tab[t].call = "founding" \/ (tab[t].call = "signIn" /\ initialized))

(* The agent accepts: a new session, sealed into the answer's cookie.      *)
Admit(t, s) ==
  /\ Granted(t)
  /\ row[s] = "none"
  /\ row' = [row EXCEPT ![s] = "live"]
  /\ initialized' = TRUE
  /\ tab' = [Disturbed EXCEPT ![t].id = s, ![t].done = TRUE]
  /\ UNCHANGED <<up, faults, jar, astray>>

(* The agent fails after it has created the operator, or the session: the  *)
(* form shows an error.                                                    *)
AdmitFails(t, s) ==
  /\ Granted(t)
  /\ initialized' = TRUE
  /\ \/ tab[t].call = "founding" /\ UNCHANGED <<row, astray>>
     \/ row[s] = "none" /\ row' = [row EXCEPT ![s] = "live"] /\ astray' = astray \cup {s}
  /\ tab' = [Disturbed EXCEPT ![t].call = None]
  /\ UNCHANGED <<up, faults, jar>>

(* A wrong code, an agent that does not answer: the form shows an error.   *)
Refuse(t) ==
  /\ ~tab[t].done
  /\ tab[t].call \in {"signIn", "setup", "founding"}
  /\ tab' = [tab EXCEPT ![t].call = None]
  /\ UNCHANGED <<initialized, up, faults, row, jar, astray>>

SignOut(t) ==
  /\ Resting(t)
  /\ tab[t].at \in Opened
  /\ tab' = [tab EXCEPT ![t].call = "signOut", ![t].id = jar]
  /\ UNCHANGED <<initialized, up, faults, row, jar, astray>>

(* A session that has not been revoked.                                    *)
Kept(s) == row[s] \in {"live", "refused"}

Leaving(t) == tab[t].call = "signOut" /\ ~tab[t].done

(* Slip: the cookie is cleared, the agent is not asked.                    *)
Revoke_CookieOnly(t) ==
  /\ Leaving(t)
  /\ tab' = [tab EXCEPT ![t].done = TRUE]
  /\ UNCHANGED <<initialized, up, faults, row, jar, astray>>

(* logoutCurrentSession: the session of the request's cookie is revoked.   *)
Revoke(t) ==
  /\ Leaving(t)
  /\ up
  /\ row' = [s \in Sessions |-> IF s = tab[t].id THEN "revoked" ELSE row[s]]
  /\ astray' = astray \ {tab[t].id}
  /\ tab' = [Disturbed EXCEPT ![t].done = TRUE]
  /\ UNCHANGED <<initialized, up, faults, jar>>

(* The agent does not answer or fails; the error is dropped.               *)
RevokeFails(t) ==
  /\ Leaving(t)
  /\ astray' = astray \cup {s \in Sessions : s = tab[t].id /\ Kept(s)}
  /\ tab' = [tab EXCEPT ![t].done = TRUE]
  /\ UNCHANGED <<initialized, up, faults, row, jar>>

(* What the jar held is lost to the browser.                               *)
Displaced(cookie) == IF jar # None /\ jar # cookie /\ Kept(jar) THEN {jar} ELSE {}
Answered(t) == [tab[t] EXCEPT !.call = None, !.id = None, !.done = FALSE]

(* An answer arrives: its cookie goes into the jar and the form moves on;  *)
(* after setup the recovery kit is shown first.                            *)
Welcome(t) ==
  /\ tab[t].done /\ tab[t].call \in {"signIn", "founding"}
  /\ jar' = tab[t].id
  /\ astray' = astray \cup Displaced(tab[t].id)
  /\ tab' = [Disturbed EXCEPT ![t] =
               IF tab[t].call = "signIn" THEN Heading(Answered(t), "dashboard", FALSE, tab[t].id, "signIn")
               ELSE Answered(t)]
  /\ UNCHANGED <<initialized, up, faults, row>>

(* Slip: clearing leaves a cookie without a session.                       *)
Farewell_EmptyCookie(t) ==
  /\ tab[t].done /\ tab[t].call = "signOut"
  /\ jar' = ""
  /\ tab' = [Disturbed EXCEPT ![t] = Heading(Answered(t), "login", FALSE, None, "signOut")]
  /\ UNCHANGED <<initialized, up, faults, row, astray>>

(* Slip: the cookie is left alone.                                         *)
Farewell_KeepCookie(t) ==
  /\ tab[t].done /\ tab[t].call = "signOut"
  /\ tab' = [Disturbed EXCEPT ![t] = Heading(Answered(t), "login", FALSE, jar, "signOut")]
  /\ UNCHANGED <<initialized, up, faults, row, jar, astray>>

Farewell(t) ==
  /\ tab[t].done /\ tab[t].call = "signOut"
  /\ jar' = None
  /\ astray' = astray \cup Displaced(tab[t].id)
  /\ tab' = [Disturbed EXCEPT ![t] = Heading(Answered(t), "login", FALSE, None, "signOut")]
  /\ UNCHANGED <<initialized, up, faults, row>>

(* The answer is lost.  The form shows an error; the button goes to the    *)
(* login page all the same.                                                *)
Lose(t) ==
  /\ tab[t].call # None
  /\ tab[t].done \/ tab[t].call = "signOut"
  /\ astray' = IF tab[t].call # "signOut" /\ Kept(tab[t].id) THEN astray \cup {tab[t].id} ELSE astray
  /\ tab' = [tab EXCEPT ![t] =
               IF tab[t].call = "signOut" THEN Heading(Answered(t), "login", FALSE, jar, None) ELSE Answered(t)]
  /\ UNCHANGED <<initialized, up, faults, row, jar>>

Fetch(t) ==
  \/ \E kind \in {"signIn", "setup"} : Submit(t, kind)
  \/ BeginSetup(t)
  \/ \E s \in Sessions : Admit(t, s) \/ AdmitFails(t, s)
  \/ Refuse(t)
  \/ SignOut(t)
  \/ Revoke(t)
  \/ RevokeFails(t)
  \/ Welcome(t)
  \/ Farewell(t)
  \/ Lose(t)

-----------------------------------------------------------------------------
(* The agent stops and starts; its sessions are on disk, a setup under way *)
(* is cut short.                                                           *)
StopAgent ==
  /\ up /\ faults < MaxFaults
  /\ up' = FALSE
  /\ faults' = faults + 1
  /\ tab' = [t \in Tabs |-> IF tab[t].call = "founding" /\ ~tab[t].done
                            THEN [Disturbed[t] EXCEPT !.call = None] ELSE Disturbed[t]]
  /\ UNCHANGED <<initialized, row, jar, astray>>

StartAgent ==
  /\ ~up
  /\ up' = TRUE
  /\ tab' = Disturbed
  /\ UNCHANGED <<initialized, faults, row, jar, astray>>

(* ValidateSession does not accept a session that was not revoked: its     *)
(* time is up, the browser's address or name is another, its UPDATE fails. *)
TurnAway(s) ==
  /\ row[s] = "live"
  /\ row' = [row EXCEPT ![s] = "refused"]
  /\ tab' = Disturbed
  /\ UNCHANGED <<initialized, up, faults, jar, astray>>

(* It accepts it again: also one whose time was up, when a validation that *)
(* began before writes its new expiry after (module Sessions).             *)
Readmit(s) ==
  /\ row[s] = "refused" /\ faults < MaxFaults
  /\ row' = [row EXCEPT ![s] = "live"]
  /\ faults' = faults + 1
  /\ tab' = Disturbed
  /\ UNCHANGED <<initialized, up, jar, astray>>

Next ==
  \/ \E t \in Tabs, page \in Pages : Open(t, page) \/ Follow(t, page)
  \/ \E t \in Tabs : Serve(t) \/ Fetch(t)
  \/ StopAgent
  \/ StartAgent
  \/ \E s \in Sessions : TurnAway(s) \/ Readmit(s)

(* The UI answers the requests for pages.                                  *)
Spec == Init /\ [][Next]_vars /\ \A t \in Tabs : WF_vars(Serve(t))

-----------------------------------------------------------------------------
(* Every variable has its type; what waits in an answer or has gone astray *)
(* was issued. *)
TypeOK ==
  /\ initialized \in BOOLEAN /\ up \in BOOLEAN
  /\ faults \in 0 .. MaxFaults
  /\ row \in [Sessions -> {"none", "live", "refused", "revoked"}]
  /\ jar \in Sessions \cup {None}
  /\ tab \in [Tabs -> Tab]
  /\ astray \subseteq {s \in Sessions : Kept(s)}

(* While agent, sessions and cookie stay as they are, at most two          *)
(* redirects separate any address from the page it leads to: the layout's  *)
(* check and the login page's never contradict each other.                 *)
ShortRedirects == \A t \in Tabs : tab[t].calm => tab[t].hops <= 2

(* Once its answer has arrived, a sign-in ends on the dashboard and a      *)
(* sign-out on the login page, or on an error, whatever the jar and other  *)
(* tabs did before; only a session the agent does not accept by then is    *)
(* turned away.                                                            *)
Lands(t) == tab[t].nav # None /\ tab'[t].nav = None /\ tab[t].calm
LandsWhereSent ==
  [][\A t \in Tabs : Lands(t) =>
       /\ tab[t].after = "signIn" => tab'[t].at \in {"dashboard", "error"} \/ row[tab[t].sent] # "live"
       /\ tab[t].after = "signOut" => tab'[t].at \in {"login", "error"}]_vars

(* A session not revoked is the browser's, on its way to it, or went       *)
(* astray in one of the ways named: a lost answer, an agent that failed    *)
(* after it had opened it, a cookie overwritten by another sign-in, a      *)
(* sign-out that failed or cleared another's cookie.                       *)
OnItsWay == {tab[t].id : t \in {u \in Tabs : tab[u].done /\ tab[u].call # "signOut"}}
SessionsAccountedFor == \A s \in Sessions : Kept(s) => s = jar \/ s \in OnItsWay \cup astray

(* However the agent stops and turns sessions away or accepts them again,  *)
(* a tab that asked for a page gets one once that is over: no redirect     *)
(* loop goes on for ever.                                                  *)
NavigationSettles == \A t \in Tabs : tab[t].nav # None ~> tab[t].nav = None
=============================================================================
