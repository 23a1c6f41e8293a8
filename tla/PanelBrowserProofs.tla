------------------------- MODULE PanelBrowserProofs -------------------------
(* Proofs about PanelBrowser, for any tabs, sessions, pages and failures.  *)
EXTENDS PanelBrowser, FiniteSetTheorems, TLAPS

-----------------------------------------------------------------------------
Live(x) == x.sent # None /\ up /\ row[x.sent] = "live"

(* A tab does one thing at a time.                                         *)
OneThing(x) ==
  /\ x.nav = None => x.hops = 0 /\ ~x.calm /\ x.after = None /\ ~x.soft
  /\ x.nav # None => x.call = None /\ x.at = None
  /\ x.call = None => ~x.done
  /\ x.call # "signOut" /\ ~x.done => x.id = None
  /\ x.done /\ x.call # "signOut" => x.id # None /\ x.call # "setup"

(* What it holds was issued, and an operator exists when a panel page is   *)
(* in view.  A sign-out that has been handled has revoked its session, or  *)
(* failed to.                                                              *)
Held(x) ==
  /\ x.id # None => row[x.id] # "none"
  /\ x.at \in Opened \/ x.soft \/ x.call = "signOut" => initialized
  /\ x.done /\ x.call = "signOut" /\ x.id # None /\ Kept(x.id) => x.id \in astray

(* While nothing it depends on changes, a chain of redirects carries the   *)
(* cookie of the jar and knows why it was redirected.                      *)
Chain(x) ==
  x.calm =>
    /\ x.sent = jar
    /\ \/ x.hops = 0
       \/ x.hops = 1 /\ x.nav = "dashboard" /\ (~Live(x) => initialized)
       \/ x.hops = 1 /\ x.nav = "login" /\ ~Live(x)
       \/ x.hops = 1 /\ x.nav = "setup" /\ ~initialized
       \/ x.hops = 2 /\ x.nav = "login" /\ ~Live(x) /\ initialized
       \/ x.hops = 2 /\ x.nav = "setup" /\ ~initialized

(* Where a form has sent its tab.                                          *)
Destination(x) ==
  x.calm =>
    /\ x.after = "signIn" =>
         initialized /\ x.sent # None /\ (x.nav = "dashboard" \/ (x.nav = "login" /\ ~Live(x)))
    /\ x.after = "signOut" => initialized /\ x.sent = None /\ x.nav = "login"

Fit(x) == x \in Tab /\ OneThing(x) /\ Held(x) /\ Chain(x) /\ Destination(x)

(* Sessions belong to an operator; those not revoked are accounted for.    *)
Books ==
  /\ \A s \in Sessions : row[s] # "none" => initialized
  /\ jar # None => row[jar] # "none"
  /\ SessionsAccountedFor

IInv == TypeOK /\ Books /\ \A t \in Tabs : Fit(tab[t])

-----------------------------------------------------------------------------
LEMMA PagesFact == /\ None \notin Pages /\ None \notin Opened
                   /\ Opened \subseteq Pages /\ {"home", "login", "recover", "setup", "dashboard"} \subseteq Pages
                   /\ Opened \cap {"home", "login", "recover", "setup", "error"} = {}
BY PagesAssumption DEF Pages, AuthPages, None, Modules, Foundation, Scaffold

LEMMA InitIInv == Init => IInv
<1> SUFFICES ASSUME Init PROVE IInv
  OBVIOUS
<1>1. NewTab \in Tab
  BY DEF NewTab, Tab, MaxHops
<1>2. \A t \in Tabs : tab[t] = NewTab
  BY DEF Init
<1>3. Fit(NewTab)
  BY <1>1, PagesFact DEF Fit, OneThing, Held, Chain, Destination, NewTab, None
<1>4. TypeOK
  <2>1. tab \in [Tabs -> Tab]
    BY <1>1 DEF Init
  <2>2. faults \in 0 .. MaxFaults
    BY FaultsAssumption DEF Init
  <2> QED
    BY <2>1, <2>2 DEF Init, TypeOK, Kept
<1>5. Books
  BY DEF Init, Books, SessionsAccountedFor, Kept
<1> QED
  BY <1>2, <1>3, <1>4, <1>5 DEF IInv

-----------------------------------------------------------------------------
(* Steps of one tab that change nothing else.                              *)
Alone == UNCHANGED <<initialized, up, faults, row, jar, astray>>

LEMMA TabStep ==
  ASSUME IInv, NEW t \in Tabs, NEW x, tab' = [tab EXCEPT ![t] = x], Alone, Fit(x), ~tab[t].done
  PROVE IInv'
<1>1. /\ tab'[t] = x
      /\ \A u \in Tabs \ {t} : tab'[u] = tab[u]
  BY DEF IInv, TypeOK
<1>2. \A u \in Tabs : Fit(tab'[u])
  BY <1>1 DEF IInv
<1>3. \A u \in Tabs : Fit(tab[u])'
  BY <1>2 DEF Fit, OneThing, Held, Chain, Destination, Live, Alone, Kept
<1>4. TypeOK'
  BY <1>1 DEF IInv, TypeOK, Fit, Alone, Kept
<1>5. Books'
  <2>1. OnItsWay \subseteq OnItsWay'
    BY <1>1 DEF OnItsWay
  <2> QED
    BY <2>1 DEF IInv, Books, SessionsAccountedFor, Alone, Kept
<1> QED
  BY <1>3, <1>4, <1>5 DEF IInv

LEMMA OpenIInv ==
  ASSUME IInv, NEW t \in Tabs, NEW page \in Pages, Open(t, page) \/ Follow(t, page)
  PROVE IInv'
<1>1. PICK soft \in BOOLEAN :
        /\ tab' = [tab EXCEPT ![t] = Heading(tab[t], page, soft, jar, None)]
        /\ soft => tab[t].at \in Opened
  BY DEF Open, Follow
<1>2. Alone /\ tab[t].nav = None /\ tab[t].call = None
  BY DEF Open, Follow, Alone, Resting
<1>3. Fit(tab[t]) /\ jar \in Sessions \cup {None} /\ page # None
  BY PagesFact DEF IInv, TypeOK
<1> DEFINE x == Heading(tab[t], page, soft, jar, None)
<1>4. x \in Tab
  BY <1>1, <1>3 DEF Fit, Tab, Heading, None
<1>5. /\ x.at = None /\ x.nav = page /\ x.soft = soft /\ x.sent = jar /\ x.calm /\ x.after = None
      /\ x.hops = tab[t].hops /\ x.call = tab[t].call /\ x.id = tab[t].id /\ x.done = tab[t].done
  BY <1>3 DEF Fit, Tab, Heading
<1>6. Fit(x)
  BY <1>1, <1>2, <1>3, <1>4, <1>5, PagesFact DEF Fit, OneThing, Held, Chain, Destination, None
<1>7. ~tab[t].done
  BY <1>2, <1>3 DEF Fit, OneThing
<1> QED
  BY <1>1, <1>2, <1>6, <1>7, TabStep

LEMMA ShowIInv ==
  ASSUME IInv, NEW t \in Tabs, NEW page \in Pages \cup {"error"}, Show(t, page),
         tab[t].nav # None, page \in Opened => initialized
  PROVE IInv'
<1> DEFINE x == [AtRest(tab[t]) EXCEPT !.at = page]
<1>1. Fit(tab[t]) /\ tab[t].call = None /\ ~tab[t].done
  BY DEF IInv, Fit, OneThing
<1>2. x \in Tab
  <2>1. tab[t] \in Tab
    BY <1>1 DEF Fit
  <2>2. 0 \in 0 .. MaxHops
    BY DEF MaxHops
  <2>3. \A y \in Tab : [y EXCEPT !.nav = None, !.soft = FALSE, !.sent = None] \in Tab
    BY DEF Tab
  <2>4. \A y \in Tab : [y EXCEPT !.hops = 0, !.calm = FALSE, !.after = None] \in Tab
    BY <2>2 DEF Tab
  <2>5. AtRest(tab[t]) = [[tab[t] EXCEPT !.nav = None, !.soft = FALSE, !.sent = None]
                             EXCEPT !.hops = 0, !.calm = FALSE, !.after = None]
    BY <2>1 DEF Tab, AtRest
  <2>6. AtRest(tab[t]) \in Tab
    BY <2>1, <2>3, <2>4, <2>5
  <2> QED
    BY <2>6 DEF Tab
<1>3. /\ x.at = page /\ x.nav = None /\ ~x.soft /\ x.hops = 0 /\ ~x.calm /\ x.after = None
      /\ x.call = tab[t].call /\ x.id = tab[t].id /\ x.done = tab[t].done
  BY <1>1 DEF Fit, Tab, AtRest
<1>4. Fit(x)
  BY <1>1, <1>2, <1>3 DEF Fit, OneThing, Held, Chain, Destination, None
<1> QED
  BY <1>1, <1>4, TabStep DEF Show, Alone

(* A redirect, with the reason it was taken for.                           *)
LEMMA RedirectIInv ==
  ASSUME IInv, NEW t \in Tabs, NEW page \in Pages, Redirect(t, page), tab[t].nav # None,
         \/ tab[t].nav = "home" /\ page = "dashboard" /\ initialized
         \/ tab[t].nav = "home" /\ page = "setup" /\ ~initialized
         \/ tab[t].nav \in {"login", "recover", "setup"} /\ page = "dashboard" /\ SignedIn(t)
         \/ tab[t].nav = "login" /\ page = "setup" /\ ~initialized /\ ~SignedIn(t)
         \/ tab[t].nav \in Opened /\ page = "login" /\ ~SignedIn(t)
  PROVE IInv'
<1> DEFINE x == [tab[t] EXCEPT !.nav = page, !.soft = FALSE, !.sent = jar,
                               !.hops = IF tab[t].calm /\ @ < MaxHops THEN @ + 1 ELSE @]
<1>1. Fit(tab[t]) /\ tab[t].call = None /\ ~tab[t].done /\ jar \in Sessions \cup {None} /\ page # None
  BY PagesFact DEF IInv, TypeOK, Fit, OneThing
<1>2. x \in Tab
  <2>1. tab[t] \in Tab
    BY <1>1 DEF Fit
  <2>2. (IF tab[t].calm /\ tab[t].hops < MaxHops THEN tab[t].hops + 1 ELSE tab[t].hops) \in 0 .. MaxHops
    BY <2>1 DEF Tab, MaxHops
  <2>3. \A h \in 0 .. MaxHops : [tab[t] EXCEPT !.nav = page, !.soft = FALSE, !.sent = jar, !.hops = h] \in Tab
    BY <1>1, <2>1 DEF Tab
  <2> QED
    BY <2>2, <2>3
<1>3. /\ x.at = tab[t].at /\ x.nav = page /\ ~x.soft /\ x.sent = jar /\ x.calm = tab[t].calm
      /\ x.after = tab[t].after /\ x.call = tab[t].call /\ x.id = tab[t].id /\ x.done = tab[t].done
      /\ x.hops = IF tab[t].calm /\ tab[t].hops < MaxHops THEN tab[t].hops + 1 ELSE tab[t].hops
  BY <1>1 DEF Fit, Tab
<1>4. OneThing(x) /\ Held(x)
  BY <1>1, <1>3 DEF Fit, OneThing, Held
<1>5. ASSUME x.calm PROVE Live(x) <=> SignedIn(t)
  BY <1>1, <1>3, <1>5 DEF Fit, Chain, Live, SignedIn
<1>6. Live(tab[t]) <=> SignedIn(t)
  BY DEF Live, SignedIn
<1>7. SignedIn(t) => initialized
  BY <1>1 DEF IInv, Books, SignedIn, Fit, Tab
<1>8. Chain(x)
  BY <1>1, <1>3, <1>5, <1>6, <1>7, PagesFact DEF Fit, Tab, Chain, MaxHops
<1>9. Destination(x)
  BY <1>1, <1>3, <1>5, <1>6, <1>7, PagesFact DEF Fit, Chain, Destination, SignedIn
<1>10. Fit(x)
  BY <1>2, <1>4, <1>8, <1>9 DEF Fit
<1> QED
  BY <1>1, <1>10, TabStep DEF Redirect, Alone

LEMMA ServeIInv ==
  ASSUME IInv, NEW t \in Tabs, Serve(t)
  PROVE IInv'
<1>0. Fit(tab[t]) /\ (SignedIn(t) => initialized) /\ initialized \in BOOLEAN
  BY DEF IInv, TypeOK, Books, Fit, Tab, SignedIn
<1>1. CASE ServeHome(t)
  BY <1>1, PagesFact, ShowIInv, RedirectIInv DEF ServeHome, None
<1>2. CASE ServeAuth(t)
  BY <1>2, PagesFact, ShowIInv, RedirectIInv DEF ServeAuth, None
<1>3. CASE \E failed \in SUBSET Faulty : ServePanel(t, failed)
  <2>1. tab[t].nav \in Opened /\ (Redirect(t, "login") \/ Show(t, "error") \/ Show(t, tab[t].nav))
    BY <1>3 DEF ServePanel
  <2>2. Redirect(t, "login") \/ (tab[t].soft \/ SignedIn(t))
    BY <1>3 DEF ServePanel
  <2>3. CASE ~tab[t].soft /\ ~SignedIn(t)
    <3>1. Redirect(t, "login")
      BY <2>2, <2>3
    <3> QED
      BY <2>1, <2>3, <3>1, PagesFact, RedirectIInv
  <2>4. CASE tab[t].soft \/ SignedIn(t)
    <3>1. Show(t, "error") \/ Show(t, tab[t].nav)
      BY <1>3, <2>4 DEF ServePanel
    <3>2. initialized
      BY <1>0, <2>4 DEF Fit, Held
    <3> QED
      BY <2>1, <3>1, <3>2, PagesFact, ShowIInv
  <2> QED
    BY <2>3, <2>4
<1> QED
  BY <1>1, <1>2, <1>3 DEF Serve

-----------------------------------------------------------------------------
(* Steps that touch the agent's sessions or the jar.                       *)
Grows ==
  /\ initialized => initialized'
  /\ \A s \in Sessions : row[s] # "none" => row'[s] # "none"
  /\ \A s \in Sessions : Kept(s)' => row[s] = "none" \/ Kept(s)
  /\ \A s \in Sessions : s \in astray /\ Kept(s)' => s \in astray'

LEMMA DisturbedFit ==
  ASSUME IInv, Grows, NEW u \in Tabs, tab'[u] = Disturbed[u]
  PROVE Fit(tab[u])' /\ tab'[u].id = tab[u].id /\ tab'[u].done = tab[u].done /\ tab'[u].call = tab[u].call
<1> DEFINE x == [tab[u] EXCEPT !.calm = FALSE, !.hops = 0, !.after = None]
<1>1. tab'[u] = x /\ Fit(tab[u]) /\ tab[u] \in Tab
  BY DEF Disturbed, IInv, Fit
<1>2. 0 \in 0 .. MaxHops
  BY DEF MaxHops
<1>3. x \in Tab
  BY <1>1, <1>2 DEF Tab
<1>4. /\ x.at = tab[u].at /\ x.nav = tab[u].nav /\ x.soft = tab[u].soft /\ x.sent = tab[u].sent
      /\ ~x.calm /\ x.hops = 0 /\ x.after = None
      /\ x.call = tab[u].call /\ x.id = tab[u].id /\ x.done = tab[u].done
  BY <1>1 DEF Tab
<1>5. OneThing(x)
  BY <1>1, <1>4 DEF Fit, OneThing
<1>6. Held(tab[u])'
  <2>1. x.id \in Sessions \cup {None} /\ row \in [Sessions -> {"none", "live", "refused", "revoked"}]
    BY <1>1, <1>4 DEF Tab, IInv, TypeOK
  <2>2. x.id # None => row'[x.id] # "none" /\ (row'[x.id] \in {"live", "refused"} => Kept(x.id))
    BY <1>1, <1>4, <2>1 DEF Fit, Held, Grows, Kept
  <2>3. x.at \in Opened \/ x.soft \/ x.call = "signOut" => initialized'
    BY <1>1, <1>4 DEF Fit, Held, Grows
  <2>4. x.done /\ x.call = "signOut" /\ x.id # None /\ row'[x.id] \in {"live", "refused"} => x.id \in astray'
    BY <1>1, <1>4, <2>1, <2>2 DEF Fit, Held, Grows, Kept
  <2> QED
    BY <1>1, <2>2, <2>3, <2>4 DEF Held, Kept
<1>7. Fit(tab[u])'
  BY <1>1, <1>3, <1>4, <1>5, <1>6 DEF Fit, OneThing, Chain, Destination
<1> QED
  BY <1>1, <1>4, <1>7

(* A form whose call the agent has given up on.                            *)
LEMMA CutFit ==
  ASSUME IInv, Grows, NEW u \in Tabs, tab[u].call \notin {None, "signOut"}, ~tab[u].done,
         tab'[u] = [Disturbed[u] EXCEPT !.call = None]
  PROVE Fit(tab[u])' /\ ~tab'[u].done
<1> DEFINE x == [[tab[u] EXCEPT !.calm = FALSE, !.hops = 0, !.after = None] EXCEPT !.call = None]
<1>1. tab'[u] = x /\ Fit(tab[u]) /\ tab[u] \in Tab
  BY DEF Disturbed, IInv, Fit
<1>2. 0 \in 0 .. MaxHops
  BY DEF MaxHops
<1>3. x \in Tab
  BY <1>1, <1>2 DEF Tab
<1>4. /\ x.at = tab[u].at /\ x.nav = tab[u].nav /\ x.soft = tab[u].soft /\ ~x.calm /\ x.hops = 0
      /\ x.after = None /\ x.call = None /\ x.id = tab[u].id /\ x.done = tab[u].done
  BY <1>1 DEF Tab
<1>5. OneThing(x) /\ x.id = None /\ ~x.done
  BY <1>1, <1>4 DEF Fit, OneThing
<1>6. x.at \in Opened \/ x.soft => initialized'
  BY <1>1, <1>4 DEF Fit, Held, Grows
<1>7. Fit(tab[u])'
  BY <1>1, <1>3, <1>4, <1>5, <1>6 DEF Fit, OneThing, Held, Chain, Destination, None
<1> QED
  BY <1>1, <1>5, <1>7

(* The agent stops, starts, turns a session away or accepts it again.      *)
SameSessions ==
  /\ UNCHANGED <<initialized, jar, astray>>
  /\ up' \in BOOLEAN /\ faults' \in 0 .. MaxFaults
  /\ row' \in [Sessions -> {"none", "live", "refused", "revoked"}]
  /\ \A s \in Sessions : row'[s] # "none" <=> row[s] # "none"
  /\ \A s \in Sessions : row'[s] \in {"live", "refused"} <=> Kept(s)

LEMMA AgentIInv ==
  ASSUME IInv, StopAgent \/ StartAgent \/ \E s \in Sessions : TurnAway(s) \/ Readmit(s)
  PROVE IInv'
<1>1. SameSessions
  <2>1. CASE StopAgent \/ StartAgent
    <3>1. up' \in BOOLEAN /\ UNCHANGED <<initialized, jar, row, astray>>
      BY <2>1 DEF StopAgent, StartAgent
    <3>2. faults' \in 0 .. MaxFaults
      BY <2>1, FaultsAssumption DEF StopAgent, StartAgent, IInv, TypeOK
    <3> QED
      BY <3>1, <3>2 DEF SameSessions, IInv, TypeOK, Kept
  <2>2. ASSUME NEW s \in Sessions, TurnAway(s) \/ Readmit(s)
        PROVE SameSessions
    <3>1. PICK new \in {"live", "refused"} : row' = [row EXCEPT ![s] = new] /\ Kept(s)
      BY <2>2 DEF TurnAway, Readmit, Kept
    <3>2. UNCHANGED <<initialized, up, jar, astray>>
      BY <2>2 DEF TurnAway, Readmit
    <3>3. faults' \in 0 .. MaxFaults
      BY <2>2, FaultsAssumption DEF TurnAway, Readmit, IInv, TypeOK
    <3>4. /\ row' \in [Sessions -> {"none", "live", "refused", "revoked"}]
          /\ row'[s] = new /\ \A q \in Sessions \ {s} : row'[q] = row[q]
      BY <3>1 DEF IInv, TypeOK
    <3> QED
      BY <3>1, <3>2, <3>3, <3>4 DEF SameSessions, IInv, TypeOK, Kept
  <2> QED
    BY <2>1, <2>2
<1>2. Grows
  BY <1>1 DEF SameSessions, Grows, Kept
<1>3. \A u \in Tabs :
        /\ Fit(tab[u])'
        /\ tab'[u].done /\ tab'[u].call # "signOut" <=> tab[u].done /\ tab[u].call # "signOut"
        /\ tab[u].done => tab'[u].id = tab[u].id
  <2> SUFFICES ASSUME NEW u \in Tabs
               PROVE  /\ Fit(tab[u])'
                      /\ tab'[u].done /\ tab'[u].call # "signOut" <=> tab[u].done /\ tab[u].call # "signOut"
                      /\ tab[u].done => tab'[u].id = tab[u].id
    OBVIOUS
  <2>1. CASE tab'[u] = Disturbed[u]
    BY <1>2, <2>1, DisturbedFit
  <2>2. CASE tab[u].call = "founding" /\ ~tab[u].done /\ tab'[u] = [Disturbed[u] EXCEPT !.call = None]
    BY <1>2, <2>2, CutFit DEF None
  <2> QED
    BY <2>1, <2>2 DEF StopAgent, StartAgent, TurnAway, Readmit
<1>4. OnItsWay \subseteq OnItsWay'
  BY <1>3 DEF OnItsWay
<1>5. tab' \in [Tabs -> Tab]
  BY <1>3 DEF StopAgent, StartAgent, TurnAway, Readmit, Disturbed, Fit
<1>6. TypeOK'
  BY <1>1, <1>5 DEF SameSessions, IInv, TypeOK, Kept
<1>7. Books'
  <2>1. SessionsAccountedFor'
    BY <1>1, <1>4 DEF SameSessions, IInv, Books, SessionsAccountedFor, Kept
  <2>2. jar' # None => row'[jar'] # "none"
    BY <1>1 DEF SameSessions, IInv, TypeOK, Books
  <2>3. \A s \in Sessions : row'[s] # "none" => initialized'
    BY <1>1 DEF SameSessions, IInv, Books
  <2> QED
    BY <2>1, <2>2, <2>3 DEF Books
<1> QED
  BY <1>3, <1>6, <1>7 DEF IInv

LEMMA AskIInv ==
  ASSUME IInv, NEW t \in Tabs, Refuse(t) \/ BeginSetup(t) \/ SignOut(t) \/ \E kind \in {"signIn", "setup"} : Submit(t, kind)
  PROVE IInv'
<1>1. Fit(tab[t]) /\ tab[t] \in Tab /\ jar \in Sessions \cup {None}
  BY DEF IInv, TypeOK, Fit
<1>2. CASE Refuse(t)
  <2> DEFINE x == [tab[t] EXCEPT !.call = None]
  <2>1. x \in Tab
    BY <1>1 DEF Tab
  <2>2. /\ x.at = tab[t].at /\ x.nav = tab[t].nav /\ x.soft = tab[t].soft /\ x.calm = tab[t].calm /\ x.call = None
        /\ x.hops = tab[t].hops /\ x.after = tab[t].after /\ x.sent = tab[t].sent
        /\ x.id = tab[t].id /\ x.done = tab[t].done
    BY <1>1 DEF Tab
  <2>3. x.id = None /\ ~x.done
    BY <1>1, <1>2, <2>2 DEF Refuse, Fit, OneThing
  <2>4. Fit(x)
    BY <1>1, <2>1, <2>2, <2>3 DEF Fit, OneThing, Held, Chain, Destination, Live, None
  <2> QED
    BY <1>2, <2>4, TabStep DEF Refuse, Alone
<1>5. CASE BeginSetup(t)
  <2> DEFINE x == [tab[t] EXCEPT !.call = "founding"]
  <2>1. x \in Tab
    BY <1>1 DEF Tab
  <2>2. /\ x.at = tab[t].at /\ x.nav = tab[t].nav /\ x.soft = tab[t].soft /\ x.calm = tab[t].calm /\ x.call = "founding"
        /\ x.hops = tab[t].hops /\ x.after = tab[t].after /\ x.sent = tab[t].sent
        /\ x.id = tab[t].id /\ x.done = tab[t].done
    BY <1>1 DEF Tab
  <2>3. tab[t].call = "setup" /\ ~tab[t].done
    BY <1>1, <1>5 DEF BeginSetup, Fit, OneThing
  <2>4. Fit(x)
    BY <1>1, <2>1, <2>2, <2>3 DEF Fit, OneThing, Held, Chain, Destination, Live, None
  <2> QED
    BY <1>5, <2>3, <2>4, TabStep DEF BeginSetup, Alone
<1>3. CASE SignOut(t)
  <2> DEFINE x == [tab[t] EXCEPT !.call = "signOut", !.id = jar]
  <2>1. x \in Tab
    BY <1>1 DEF Tab
  <2>2. /\ x.at = tab[t].at /\ x.nav = tab[t].nav /\ x.soft = tab[t].soft /\ x.calm = tab[t].calm /\ x.call = "signOut"
        /\ x.hops = tab[t].hops /\ x.after = tab[t].after /\ x.sent = tab[t].sent
        /\ x.id = jar /\ x.done = tab[t].done
    BY <1>1 DEF Tab
  <2>3. tab[t].at \in Opened /\ tab[t].nav = None /\ ~tab[t].done /\ (jar # None => row[jar] # "none")
    BY <1>1, <1>3 DEF SignOut, Resting, Fit, OneThing, IInv, Books
  <2>4. Fit(x)
    BY <1>1, <2>1, <2>2, <2>3 DEF Fit, OneThing, Held, Chain, Destination, Live, None
  <2> QED
    BY <1>3, <2>3, <2>4, TabStep DEF SignOut, Alone
<1>4. ASSUME NEW kind \in {"signIn", "setup"}, Submit(t, kind) PROVE IInv'
  <2> DEFINE x == [tab[t] EXCEPT !.call = kind]
  <2>1. x \in Tab
    BY <1>1 DEF Tab
  <2>2. /\ x.at = tab[t].at /\ x.nav = tab[t].nav /\ x.soft = tab[t].soft /\ x.calm = tab[t].calm /\ x.call = kind
        /\ x.hops = tab[t].hops /\ x.after = tab[t].after /\ x.sent = tab[t].sent
        /\ x.id = tab[t].id /\ x.done = tab[t].done
    BY <1>1 DEF Tab
  <2>3. tab[t].nav = None /\ tab[t].call = None /\ ~tab[t].done
    BY <1>1, <1>4 DEF Submit, Resting, Fit, OneThing
  <2>4. Fit(x)
    BY <1>1, <2>1, <2>2, <2>3 DEF Fit, OneThing, Held, Chain, Destination, Live, None
  <2> QED
    BY <1>4, <2>3, <2>4, TabStep DEF Submit, Alone
<1> QED
  BY <1>2, <1>3, <1>4, <1>5

(* One tab's fetch makes progress; the others may be disturbed.            *)
LEMMA OthersFit ==
  ASSUME IInv, Grows, NEW t \in Tabs, NEW x,
         \/ tab' = [Disturbed EXCEPT ![t] = x]
         \/ tab' = [tab EXCEPT ![t] = x] /\ UNCHANGED <<initialized, up, row, jar>>
  PROVE /\ tab'[t] = x
        /\ x \in Tab => tab' \in [Tabs -> Tab]
        /\ \A u \in Tabs \ {t} :
             Fit(tab[u])' /\ tab'[u].id = tab[u].id /\ tab'[u].done = tab[u].done /\ tab'[u].call = tab[u].call
<1>1. tab'[t] = x
  BY DEF IInv, TypeOK, Disturbed
<1>2. ASSUME NEW u \in Tabs \ {t}
      PROVE Fit(tab[u])' /\ tab'[u].id = tab[u].id /\ tab'[u].done = tab[u].done /\ tab'[u].call = tab[u].call
  <2>1. CASE tab' = [Disturbed EXCEPT ![t] = x]
    <3>1. tab'[u] = Disturbed[u]
      BY <2>1 DEF Disturbed
    <3> QED
      BY <3>1, DisturbedFit
  <2>2. CASE tab' = [tab EXCEPT ![t] = x] /\ UNCHANGED <<initialized, up, row, jar>>
    <3>1. tab'[u] = tab[u]
      BY <2>2 DEF IInv, TypeOK
    <3>2. Fit(tab[u]) /\ tab[u] \in Tab
      BY DEF IInv, Fit
    <3>3. Held(tab[u])'
      BY <2>2, <3>1, <3>2 DEF Fit, Tab, Held, Grows
    <3>4. Fit(tab[u])'
      BY <2>2, <3>1, <3>2, <3>3 DEF Fit, OneThing, Chain, Destination, Live
    <3> QED
      BY <3>1, <3>4
  <2> QED
    BY <2>1, <2>2
<1>3. ASSUME x \in Tab PROVE tab' \in [Tabs -> Tab]
  <2>1. \A u \in Tabs : tab'[u] \in Tab
    BY <1>1, <1>2, <1>3 DEF Fit
  <2> QED
    BY <2>1 DEF Disturbed, IInv, TypeOK
<1> QED
  BY <1>1, <1>2, <1>3

(* The fields of a tab whose fetch is under way.                           *)
LEMMA Waiting ==
  ASSUME IInv, NEW t \in Tabs, tab[t].call # None
  PROVE /\ tab[t] \in Tab /\ Fit(tab[t])
        /\ tab[t].nav = None /\ tab[t].hops = 0 /\ ~tab[t].calm /\ tab[t].after = None /\ ~tab[t].soft
BY DEF IInv, Fit, OneThing

LEMMA OnWay ==
  /\ \A s : s \in OnItsWay <=> \E u \in Tabs : tab[u].done /\ tab[u].call # "signOut" /\ s = tab[u].id
  /\ \A s : s \in OnItsWay' <=> \E u \in Tabs : tab'[u].done /\ tab'[u].call # "signOut" /\ s = tab'[u].id
BY DEF OnItsWay

LEMMA AdmitIInv ==
  ASSUME IInv, NEW t \in Tabs, NEW s \in Sessions, Admit(t, s)
  PROVE IInv'
<1> DEFINE x == [Disturbed[t] EXCEPT !.id = s, !.done = TRUE]
<1>1. /\ ~tab[t].done /\ tab[t].call \in {"signIn", "founding"} /\ row[s] = "none"
      /\ row' = [row EXCEPT ![s] = "live"] /\ initialized' = TRUE /\ UNCHANGED <<up, faults, jar, astray>>
      /\ tab' = [Disturbed EXCEPT ![t] = x]
  BY DEF Admit, Granted, Disturbed
<1>2. tab[t] \in Tab /\ Fit(tab[t]) /\ tab[t].nav = None
  BY <1>1, Waiting DEF None
<1>3. /\ row' \in [Sessions -> {"none", "live", "refused", "revoked"}]
      /\ row'[s] = "live"
      /\ \A q \in Sessions \ {s} : row'[q] = row[q]
  BY <1>1 DEF IInv, TypeOK
<1>4. Grows
  BY <1>1, <1>3 DEF Grows, Kept
<1>5. 0 \in 0 .. MaxHops
  BY DEF MaxHops
<1>6. Disturbed[t] \in Tab
  BY <1>2, <1>5 DEF Disturbed, Tab
<1>7. x \in Tab
  BY <1>6 DEF Tab
<1>8. /\ x.at = tab[t].at /\ x.nav = None /\ x.soft = tab[t].soft /\ ~x.calm /\ x.call = tab[t].call
      /\ x.hops = 0 /\ x.after = None /\ x.id = s /\ x.done
  BY <1>2, <1>6 DEF Disturbed, Tab
<1>9. tab'[t] = x
  BY <1>1, <1>4, OthersFit
<1>10. Fit(tab[t])'
  BY <1>1, <1>2, <1>3, <1>7, <1>8, <1>9, SessionsAssumption
     DEF Fit, OneThing, Held, Chain, Destination, None, Kept
<1>11. \A u \in Tabs \ {t} :
         Fit(tab[u])' /\ tab'[u].id = tab[u].id /\ tab'[u].done = tab[u].done /\ tab'[u].call = tab[u].call
  BY <1>1, <1>4, OthersFit
<1>12. OnItsWay \cup {s} \subseteq OnItsWay'
  <2>1. s \in OnItsWay'
    <3>1. tab'[t].done /\ tab'[t].call # "signOut" /\ s = tab'[t].id
      BY <1>1, <1>8, <1>9
    <3> QED
      BY <3>1, OnWay
  <2>2. OnItsWay \subseteq OnItsWay'
    BY <1>1, <1>11, OnWay
  <2> QED
    BY <2>1, <2>2
<1>13. TypeOK'
  <2>1. tab' \in [Tabs -> Tab]
    BY <1>1, <1>4, <1>7, OthersFit
  <2> QED
    BY <1>1, <1>3, <2>1 DEF IInv, TypeOK, Kept
<1>14. Books'
  BY <1>1, <1>3, <1>12 DEF IInv, Books, SessionsAccountedFor, Kept
<1> QED
  BY <1>10, <1>11, <1>13, <1>14 DEF IInv

(* The operator, or a session nobody hears of, is left behind.             *)
LEMMA AdmitFailsIInv ==
  ASSUME IInv, NEW t \in Tabs, NEW s \in Sessions, AdmitFails(t, s)
  PROVE IInv'
<1> DEFINE x == [Disturbed[t] EXCEPT !.call = None]
<1>1. /\ ~tab[t].done /\ tab[t].call \in {"signIn", "founding"} /\ initialized' = TRUE
      /\ UNCHANGED <<up, faults, jar>> /\ tab' = [Disturbed EXCEPT ![t] = x]
  BY DEF AdmitFails, Granted, Disturbed
<1>2. /\ row' \in [Sessions -> {"none", "live", "refused", "revoked"}]
      /\ \A q \in Sessions : row[q] # "none" => row'[q] = row[q]
      /\ \A q \in Sessions : row'[q] \in {"live", "refused"} => Kept(q) \/ (row[q] = "none" /\ q \in astray')
      /\ astray \subseteq astray' /\ astray' \subseteq {q \in Sessions : row'[q] \in {"live", "refused"}}
  <2>1. CASE UNCHANGED <<row, astray>>
    BY <2>1 DEF IInv, TypeOK, Kept
  <2>2. CASE row[s] = "none" /\ row' = [row EXCEPT ![s] = "live"] /\ astray' = astray \cup {s}
    <3>1. /\ row' \in [Sessions -> {"none", "live", "refused", "revoked"}]
          /\ row'[s] = "live" /\ \A q \in Sessions \ {s} : row'[q] = row[q]
      BY <2>2 DEF IInv, TypeOK
    <3> QED
      BY <2>2, <3>1 DEF IInv, TypeOK, Kept
  <2> QED
    BY <2>1, <2>2 DEF AdmitFails
<1>3. Grows
  BY <1>1, <1>2 DEF Grows, Kept
<1>4. /\ tab'[t] = x
      /\ \A u \in Tabs \ {t} :
           Fit(tab[u])' /\ tab'[u].id = tab[u].id /\ tab'[u].done = tab[u].done /\ tab'[u].call = tab[u].call
  BY <1>1, <1>3, OthersFit
<1>5. Fit(tab[t])' /\ ~tab'[t].done
  BY <1>1, <1>3, <1>4, CutFit DEF None
<1>6. OnItsWay \subseteq OnItsWay'
  BY <1>1, <1>4, OnWay
<1>7. TypeOK'
  <2>1. tab' \in [Tabs -> Tab]
    BY <1>1, <1>4, <1>5 DEF Disturbed, Fit
  <2> QED
    BY <1>1, <1>2, <2>1 DEF IInv, TypeOK, Kept
<1>8. Books'
  <2>1. SessionsAccountedFor'
    BY <1>1, <1>2, <1>6 DEF IInv, Books, SessionsAccountedFor, Kept
  <2> QED
    BY <1>1, <1>2, <2>1 DEF IInv, TypeOK, Books
<1> QED
  BY <1>4, <1>5, <1>7, <1>8 DEF IInv

LEMMA RevokeIInv ==
  ASSUME IInv, NEW t \in Tabs, Revoke(t) \/ RevokeFails(t)
  PROVE IInv'
<1>1. /\ tab[t].call = "signOut" /\ ~tab[t].done /\ UNCHANGED <<initialized, up, faults, jar>>
      /\ \A u \in Tabs : Fit(tab[u])
  BY DEF Revoke, RevokeFails, Leaving, IInv
<1>2. tab[t] \in Tab /\ tab[t].nav = None /\ tab[t].hops = 0 /\ ~tab[t].calm /\ tab[t].after = None /\ ~tab[t].soft
  BY <1>1, Waiting DEF None
<1>3. PICK x \in Tab :
        /\ \/ tab' = [Disturbed EXCEPT ![t] = x]
           \/ tab' = [tab EXCEPT ![t] = x] /\ UNCHANGED row
        /\ x = [tab[t] EXCEPT !.done = TRUE]
  <2> DEFINE x == [tab[t] EXCEPT !.done = TRUE]
  <2>1. x \in Tab
    BY <1>2 DEF Tab
  <2>2. CASE RevokeFails(t)
    BY <2>1, <2>2 DEF RevokeFails
  <2>3. CASE Revoke(t)
    <3>1. Disturbed[t] = tab[t]
      BY <1>2 DEF Disturbed, Tab
    <3> QED
      BY <2>1, <2>3, <3>1 DEF Revoke, Disturbed
  <2> QED
    BY <2>2, <2>3
<1>4. /\ x.at = tab[t].at /\ x.nav = None /\ ~x.soft /\ ~x.calm /\ x.call = "signOut"
      /\ x.hops = 0 /\ x.after = None /\ x.id = tab[t].id /\ x.done
  BY <1>1, <1>2, <1>3 DEF Tab
<1>5. /\ row' \in [Sessions -> {"none", "live", "refused", "revoked"}]
      /\ \A s \in Sessions : row'[s] \in {"live", "refused"} => Kept(s)
      /\ \A s \in Sessions : row'[s] # "none" <=> row[s] # "none"
      /\ astray' \subseteq {s \in Sessions : row'[s] \in {"live", "refused"}}
      /\ \A s \in Sessions : s \in astray /\ row'[s] \in {"live", "refused"} => s \in astray'
      /\ tab[t].id \in Sessions /\ row'[tab[t].id] \in {"live", "refused"} => tab[t].id \in astray'
  <2>1. CASE RevokeFails(t)
    BY <2>1 DEF RevokeFails, IInv, TypeOK, Kept
  <2>2. CASE Revoke(t)
    <3>1. tab[t].id \in Sessions => row[tab[t].id] # "none"
      BY <1>1, SessionsAssumption DEF Fit, Held
    <3>2. \A s \in Sessions : row'[s] = IF s = tab[t].id THEN "revoked" ELSE row[s]
      BY <2>2 DEF Revoke
    <3>3. row' \in [Sessions -> {"none", "live", "refused", "revoked"}]
      BY <2>2 DEF Revoke, IInv, TypeOK
    <3>4. astray' = astray \ {tab[t].id}
      BY <2>2 DEF Revoke
    <3> QED
      BY <3>1, <3>2, <3>3, <3>4 DEF IInv, TypeOK, Kept
  <2> QED
    BY <2>1, <2>2
<1>6. Grows
  BY <1>1, <1>5 DEF Grows, Kept
<1>7. /\ tab'[t] = x /\ tab' \in [Tabs -> Tab]
      /\ \A u \in Tabs \ {t} :
           Fit(tab[u])' /\ tab'[u].id = tab[u].id /\ tab'[u].done = tab[u].done /\ tab'[u].call = tab[u].call
  BY <1>1, <1>3, <1>6, OthersFit
<1>8. Fit(tab[t])'
  <2>1. x.id \in Sessions \cup {None} /\ (x.id # None => row'[x.id] # "none")
    BY <1>1, <1>3, <1>4, <1>5 DEF Tab, Fit, Held
  <2>2. initialized'
    BY <1>1 DEF Fit, Held
  <2>3. Held(tab[t])'
    BY <1>4, <1>5, <1>7, <2>1, <2>2 DEF Held, Kept
  <2> QED
    BY <1>3, <1>4, <1>7, <2>3 DEF Fit, OneThing, Chain, Destination, None
<1>9. OnItsWay \subseteq OnItsWay'
  BY <1>1, <1>7, OnWay
<1>10. TypeOK'
  BY <1>1, <1>5, <1>7 DEF IInv, TypeOK, Kept
<1>11. Books'
  <2>1. SessionsAccountedFor'
    BY <1>1, <1>5, <1>9 DEF IInv, Books, SessionsAccountedFor, Kept
  <2> QED
    BY <1>1, <1>5, <2>1 DEF IInv, TypeOK, Books
<1> QED
  BY <1>7, <1>8, <1>10, <1>11 DEF IInv

(* An answer arrives or is lost.                                           *)
LEMMA AnswerIInv ==
  ASSUME IInv, NEW t \in Tabs, NEW x \in Tab, Fit(x)', x.call = None,
         \/ tab' = [Disturbed EXCEPT ![t] = x]
         \/ tab' = [tab EXCEPT ![t] = x] /\ UNCHANGED jar,
         UNCHANGED <<initialized, up, faults, row>>,
         jar' \in Sessions \cup {None}, jar' # None => row[jar'] # "none",
         astray \subseteq astray', astray' \subseteq {s \in Sessions : Kept(s)},
         jar \in Sessions /\ Kept(jar) => jar \in astray' \cup {jar'},
         tab[t].done /\ tab[t].call # "signOut" /\ Kept(tab[t].id) => tab[t].id \in astray' \cup {jar'}
  PROVE IInv'
<1>1. Grows
  BY DEF Grows, IInv, TypeOK, Kept
<1>2. /\ tab'[t] = x /\ tab' \in [Tabs -> Tab]
      /\ \A u \in Tabs \ {t} :
           Fit(tab[u])' /\ tab'[u].id = tab[u].id /\ tab'[u].done = tab[u].done /\ tab'[u].call = tab[u].call
  BY <1>1, OthersFit
<1>3. TypeOK'
  BY <1>2 DEF IInv, TypeOK, Kept
<1>4. ASSUME NEW s \in Sessions, Kept(s) PROVE s = jar' \/ s \in OnItsWay' \cup astray'
  <2>1. s = jar \/ s \in OnItsWay \cup astray
    BY <1>4 DEF IInv, Books, SessionsAccountedFor
  <2>2. CASE s = jar \/ s \in astray
    BY <1>4, <2>2
  <2>3. CASE s \in OnItsWay
    <3>1. PICK u \in Tabs : tab[u].done /\ tab[u].call # "signOut" /\ s = tab[u].id
      BY <2>3, OnWay
    <3>2. CASE u = t
      BY <1>4, <3>1, <3>2
    <3>3. CASE u # t
      BY <1>2, <3>1, <3>3, OnWay
    <3> QED
      BY <3>2, <3>3
  <2> QED
    BY <2>1, <2>2, <2>3
<1>5. Books'
  BY <1>4 DEF IInv, Books, SessionsAccountedFor, Kept
<1>6. Fit(tab[t])'
  BY <1>2 DEF Fit, OneThing, Held, Chain, Destination, Live, Kept
<1> QED
  BY <1>2, <1>3, <1>5, <1>6 DEF IInv

(* A tab that a form sends to a page.                                      *)
Departed(x, page, cookie, reason) ==
  /\ x.at = None /\ x.nav = page /\ ~x.soft /\ x.sent = cookie /\ x.hops = 0 /\ x.calm
  /\ x.after = reason /\ x.call = None /\ x.id = None /\ ~x.done

LEMMA Sent ==
  ASSUME NEW z \in Tab, z.hops = 0, z.call = None, z.id = None, ~z.done,
         NEW page \in {"dashboard", "login"}, NEW cookie \in Sessions \cup {None},
         NEW reason \in {None, "signIn", "signOut"}
  PROVE \E x \in Tab :
          /\ x = Heading(z, page, FALSE, cookie, reason)
          /\ Departed(x, page, cookie, reason)
<1> DEFINE x == Heading(z, page, FALSE, cookie, reason)
<1>1. x \in Tab
  BY PagesFact DEF Heading, Tab
<1>2. Departed(x, page, cookie, reason)
  BY DEF Departed, Heading, Tab
<1> QED
  BY <1>1, <1>2

LEMMA FetchIInv ==
  ASSUME IInv, NEW t \in Tabs, Welcome(t) \/ Farewell(t) \/ Lose(t)
  PROVE IInv'
<1>1. /\ tab[t].call # None /\ UNCHANGED <<initialized, up, faults, row>>
      /\ TypeOK /\ Books
  BY DEF Welcome, Farewell, Lose, IInv, None
<1>2. /\ tab[t] \in Tab /\ Fit(tab[t])
      /\ tab[t].nav = None /\ tab[t].hops = 0 /\ ~tab[t].calm /\ tab[t].after = None /\ ~tab[t].soft
  BY <1>1, Waiting
<1> DEFINE a == Answered(t)
<1>3. a \in Tab
  BY <1>2 DEF Answered, Tab
<1>4. /\ a.at = tab[t].at /\ a.nav = None /\ ~a.soft /\ a.sent = tab[t].sent /\ a.hops = 0 /\ ~a.calm
      /\ a.after = None /\ a.call = None /\ a.id = None /\ ~a.done
  BY <1>2 DEF Answered, Tab
<1>5. tab[t].id \in Sessions => row[tab[t].id] # "none" /\ initialized
  BY <1>1, <1>2, SessionsAssumption DEF Fit, Held, Books
<1>6. tab[t].id \in Sessions \cup {None} /\ jar \in Sessions \cup {None}
  BY <1>1, <1>2 DEF Tab, TypeOK
<1>7. PICK y \in Tab :
         /\ y = a
         /\ y.at = tab[t].at /\ y.nav = None /\ ~y.soft /\ y.hops = 0 /\ ~y.calm
         /\ y.after = None /\ y.call = None /\ y.id = None /\ ~y.done
  BY <1>3, <1>4
<1>8. OneThing(y)
  BY <1>7 DEF OneThing
<1>9. y.at \in Opened => initialized
  BY <1>2, <1>7 DEF Fit, Held
<1>10. Fit(y)'
  BY <1>1, <1>7, <1>8, <1>9 DEF Fit, OneThing, Held, Chain, Destination, None
<1>11. CASE Welcome(t)
  <2>1. /\ tab[t].done /\ tab[t].call # "signOut" /\ jar' = tab[t].id
        /\ astray' = astray \cup Displaced(tab[t].id)
    BY <1>11 DEF Welcome
  <2>2. tab[t].id \in Sessions
    BY <1>2, <1>6, <2>1 DEF Fit, OneThing
  <2>3. /\ astray' \subseteq {s \in Sessions : Kept(s)}
        /\ jar \in Sessions /\ Kept(jar) => jar \in astray' \cup {jar'}
    BY <1>1, <2>1, SessionsAssumption DEF Displaced, TypeOK
  <2>4. CASE tab[t].call = "signIn"
    <3>1. PICK c \in Sessions \cup {None} : c = tab[t].id
      BY <1>6
    <3>2. PICK x \in Tab :
          /\ x = Heading(y, "dashboard", FALSE, c, "signIn")
          /\ Departed(x, "dashboard", c, "signIn")
      BY <1>7, <3>1, Sent
    <3>3. Fit(x)'
      BY <1>1, <1>5, <3>1, <2>1, <2>2, <3>2, PagesFact, SessionsAssumption
         DEF Departed, Fit, OneThing, Held, Chain, Destination, None
    <3>4. tab' = [Disturbed EXCEPT ![t] = x]
      BY <1>11, <1>7, <2>4, <3>1, <3>2 DEF Welcome
    <3> QED
      BY <1>1, <1>5, <2>1, <2>2, <2>3, <3>2, <3>3, <3>4, AnswerIInv DEF Departed
  <2>5. CASE tab[t].call # "signIn"
    <3>1. tab' = [Disturbed EXCEPT ![t] = y]
      BY <1>11, <1>7, <2>5 DEF Welcome
    <3> QED
      BY <1>1, <1>5, <1>7, <1>10, <2>1, <2>2, <2>3, <3>1, AnswerIInv
  <2> QED
    BY <2>4, <2>5
<1>12. CASE Farewell(t)
  <2>1. /\ tab[t].done /\ tab[t].call = "signOut" /\ jar' = None
        /\ astray' = astray \cup Displaced(tab[t].id)
    BY <1>12 DEF Farewell
  <2>2. /\ astray' \subseteq {s \in Sessions : Kept(s)}
        /\ jar \in Sessions /\ Kept(jar) => jar \in astray'
    BY <1>1, <1>2, <2>1, SessionsAssumption DEF Displaced, TypeOK, Fit, Held
  <2>3. PICK x \in Tab :
        /\ x = Heading(y, "login", FALSE, None, "signOut")
        /\ Departed(x, "login", None, "signOut")
    BY <1>7, Sent
  <2>4. initialized
    BY <1>2, <2>1 DEF Fit, Held
  <2>5. Fit(x)'
    BY <1>1, <2>1, <2>4, <2>3, PagesFact DEF Departed, Fit, OneThing, Held, Chain, Destination, None
  <2>6. tab' = [Disturbed EXCEPT ![t] = x]
    BY <1>12, <1>7, <2>3 DEF Farewell
  <2> QED
    BY <1>1, <2>1, <2>2, <2>5, <2>6, <2>3, AnswerIInv DEF Departed
<1>13. CASE Lose(t)
  <2>1. /\ UNCHANGED jar
        /\ astray' = IF tab[t].call # "signOut" /\ Kept(tab[t].id) THEN astray \cup {tab[t].id} ELSE astray
        /\ tab[t].done \/ tab[t].call = "signOut"
    BY <1>13 DEF Lose
  <2>2. tab[t].call # "signOut" => tab[t].id \in Sessions
    BY <1>2, <1>6, <2>1 DEF Fit, OneThing
  <2>3. /\ astray \subseteq astray' /\ astray' \subseteq {s \in Sessions : Kept(s)}
        /\ tab[t].done /\ tab[t].call # "signOut" /\ Kept(tab[t].id) => tab[t].id \in astray'
    BY <1>1, <2>1, <2>2 DEF TypeOK
  <2>4. jar' \in Sessions \cup {None} /\ (jar' # None => row[jar'] # "none")
    BY <1>1, <1>6, <2>1 DEF Books
  <2>5. CASE tab[t].call = "signOut"
    <3>1. PICK c \in Sessions \cup {None} : c = jar
      BY <1>6
    <3>2. PICK x \in Tab :
          /\ x = Heading(y, "login", FALSE, c, None)
          /\ Departed(x, "login", c, None)
      BY <1>7, <3>1, Sent
    <3>3. Fit(x)'
      BY <1>1, <1>6, <3>1, <2>1, <3>2, PagesFact DEF Departed, Fit, OneThing, Held, Chain, Destination, None
    <3>4. tab' = [tab EXCEPT ![t] = x]
      BY <1>13, <1>7, <2>5, <3>1, <3>2 DEF Lose
    <3> QED
      BY <1>1, <1>6, <2>1, <2>3, <2>4, <3>2, <3>3, <3>4, AnswerIInv DEF Departed
  <2>6. CASE tab[t].call # "signOut"
    <3>1. tab' = [tab EXCEPT ![t] = y]
      BY <1>13, <1>7, <2>6 DEF Lose
    <3> QED
      BY <1>1, <1>7, <1>10, <2>1, <2>3, <2>4, <3>1, AnswerIInv
  <2> QED
    BY <2>5, <2>6
<1> QED
  BY <1>11, <1>12, <1>13

LEMMA NextIInv == IInv /\ [Next]_vars => IInv'
<1> SUFFICES ASSUME IInv, [Next]_vars PROVE IInv'
  OBVIOUS
<1>1. CASE UNCHANGED vars
  BY <1>1 DEF vars, IInv, TypeOK, Books, SessionsAccountedFor, OnItsWay, Kept,
              Fit, OneThing, Held, Chain, Destination, Live
<1>2. CASE \E t \in Tabs, page \in Pages : Open(t, page) \/ Follow(t, page)
  BY <1>2, OpenIInv
<1>3. CASE \E t \in Tabs : Serve(t)
  BY <1>3, ServeIInv
<1>4. CASE \E t \in Tabs : Fetch(t)
  BY <1>4, AskIInv, AdmitIInv, AdmitFailsIInv, RevokeIInv, FetchIInv DEF Fetch
<1>5. CASE StopAgent \/ StartAgent \/ \E s \in Sessions : TurnAway(s) \/ Readmit(s)
  BY <1>5, AgentIInv
<1> QED
  BY <1>1, <1>2, <1>3, <1>4, <1>5 DEF Next

THEOREM Invariance == Spec => []IInv
<1> QED
  BY InitIInv, NextIInv, PTL DEF Spec

-----------------------------------------------------------------------------
(* Type correctness, for any number of tabs and stops of the agent.        *)
THEOREM TypeCorrect == Spec => []TypeOK
<1>1. IInv => TypeOK
  BY DEF IInv
<1> QED
  BY <1>1, Invariance, PTL

(* The redirects of the pages agree: at most two in a row.                 *)
THEOREM ShortRedirectsHolds == Spec => []ShortRedirects
<1>1. IInv => ShortRedirects
  BY DEF IInv, Fit, Chain, Tab, ShortRedirects
<1> QED
  BY <1>1, Invariance, PTL

(* No session is lost to the browser but in the ways the model names.      *)
THEOREM SessionsAccountedForHolds == Spec => []SessionsAccountedFor
<1>1. IInv => SessionsAccountedFor
  BY DEF IInv, Books
<1> QED
  BY <1>1, Invariance, PTL

(* Only the UI's answer to its request brings a tab to rest.               *)
LEMMA LandingIsServed ==
  ASSUME IInv, [Next]_vars, NEW t \in Tabs, tab[t].nav # None, tab'[t].nav = None
  PROVE Serve(t)
<1>0. tab \in [Tabs -> Tab] /\ \A u \in Tabs : Fit(tab[u])
  BY DEF IInv, TypeOK
<1>1. Disturbed[t].nav = tab[t].nav
  BY <1>0 DEF Disturbed, Tab
<1>2. tab' # tab /\ tab' # Disturbed
  BY <1>1
<1>3. \A x : \A u \in Tabs \ {t} : tab' # [tab EXCEPT ![u] = x] /\ tab' # [Disturbed EXCEPT ![u] = x]
  BY <1>0, <1>1 DEF Disturbed
<1>4. ~(\E u \in Tabs, page \in Pages : Open(u, page) \/ Follow(u, page))
  <2> SUFFICES ASSUME NEW u \in Tabs, NEW page \in Pages, Open(u, page) \/ Follow(u, page) PROVE FALSE
    OBVIOUS
  <2>1. u # t
    BY DEF Open, Follow, Resting
  <2> QED
    BY <1>3, <2>1 DEF Open, Follow
<1>5. ~(\E u \in Tabs : Fetch(u))
  <2> SUFFICES ASSUME NEW u \in Tabs, Fetch(u) PROVE FALSE
    OBVIOUS
  <2>1. tab[u].nav = None
    <3>1. tab[u].call # None \/ Resting(u)
      BY DEF Fetch, Submit, BeginSetup, Admit, AdmitFails, Granted, Refuse, SignOut, Revoke, RevokeFails, Welcome, Farewell, Lose, Leaving, None
    <3> QED
      BY <1>0, <3>1 DEF Resting, Fit, OneThing
  <2>2. PICK x : tab' = [tab EXCEPT ![u] = x] \/ tab' = [Disturbed EXCEPT ![u] = x]
    <3>1. CASE Welcome(u) \/ Farewell(u) \/ Lose(u)
      BY <3>1 DEF Welcome, Farewell, Lose
    <3>2. CASE SignOut(u) \/ Refuse(u) \/ BeginSetup(u) \/ \E kind \in {"signIn", "setup"} : Submit(u, kind)
      BY <3>2 DEF SignOut, Refuse, BeginSetup, Submit
    <3>3. CASE Revoke(u) \/ RevokeFails(u) \/ \E s \in Sessions : Admit(u, s) \/ AdmitFails(u, s)
      BY <3>3 DEF Revoke, RevokeFails, Admit, AdmitFails
    <3> QED
      BY <3>1, <3>2, <3>3 DEF Fetch
  <2> QED
    BY <1>3, <2>1, <2>2
<1>6. ~(StopAgent \/ StartAgent \/ \E s \in Sessions : TurnAway(s) \/ Readmit(s))
  <2>1. ~StopAgent
    <3> SUFFICES ASSUME StopAgent PROVE FALSE
      OBVIOUS
    <3>1. tab'[t] = [Disturbed[t] EXCEPT !.call = None] \/ tab'[t] = Disturbed[t]
      BY DEF StopAgent
    <3>2. Disturbed[t] \in Tab
      <4>1. 0 \in 0 .. MaxHops
        BY DEF MaxHops
      <4>2. tab[t] \in Tab
        BY <1>0
      <4>3. [tab[t] EXCEPT !.calm = FALSE, !.hops = 0, !.after = None] \in Tab
        BY <4>1, <4>2 DEF Tab
      <4> QED
        BY <4>3 DEF Disturbed
    <3>3. tab'[t].nav = Disturbed[t].nav
      BY <3>1, <3>2 DEF Tab
    <3> QED
      BY <1>1, <3>3
  <2> QED
    BY <1>2, <2>1 DEF StartAgent, TurnAway, Readmit
<1>7. PICK u \in Tabs : Serve(u)
  BY <1>2, <1>4, <1>5, <1>6 DEF Next, vars
<1>8. PICK x : tab' = [tab EXCEPT ![u] = x]
  BY <1>7 DEF Serve, ServeHome, ServeAuth, ServePanel, Show, Redirect
<1> QED
  BY <1>3, <1>7, <1>8

LEMMA LandingStep ==
  ASSUME IInv, [Next]_vars, NEW t \in Tabs, Lands(t)
  PROVE /\ tab[t].after = "signIn" => tab'[t].at \in {"dashboard", "error"} \/ row[tab[t].sent] # "live"
        /\ tab[t].after = "signOut" => tab'[t].at \in {"login", "error"}
<1>1. Serve(t) /\ tab[t].nav # None /\ tab'[t].nav = None /\ tab[t].calm
  BY LandingIsServed DEF Lands
<1>2. /\ tab \in [Tabs -> Tab] /\ tab[t] \in Tab /\ Chain(tab[t]) /\ Destination(tab[t])
      /\ row \in [Sessions -> {"none", "live", "refused", "revoked"}] /\ (jar # None => row[jar] # "none")
  BY DEF IInv, TypeOK, Fit, Books
<1>3. Live(tab[t]) <=> SignedIn(t)
  BY DEF Live, SignedIn
<1>4. ASSUME NEW page, Redirect(t, page), page \in Pages PROVE FALSE
  <2>1. tab'[t].nav = page
    BY <1>2, <1>4 DEF Redirect, Tab
  <2> QED
    BY <1>1, <1>4, <2>1, PagesFact
<1>5. ASSUME NEW page, Show(t, page) PROVE tab'[t].at = page
  BY <1>2, <1>5 DEF Show, AtRest, Tab
<1>6. CASE tab[t].nav = "dashboard"
  <2>1. \E failed \in SUBSET Faulty : ServePanel(t, failed)
    BY <1>1, <1>6 DEF Serve, ServeHome, ServeAuth
  <2>2. Show(t, "error") \/ Show(t, "dashboard")
    BY <1>4, <1>6, <2>1, PagesFact DEF ServePanel
  <2> QED
    BY <1>1, <1>2, <1>5, <1>6, <2>2 DEF Destination
<1>7. CASE tab[t].nav = "login"
  <2>1. ServeAuth(t)
    BY <1>1, <1>7, PagesFact DEF Serve, ServeHome, ServePanel
  <2>2. (~up /\ Show(t, "error")) \/ (up /\ Show(t, "login"))
    <3>1. ~SignedIn(t)
      <4>1. SignedIn(t) => Redirect(t, "dashboard")
        BY <1>7, <2>1, ZenonT(30) DEF ServeAuth
      <4> QED
        BY <1>4, <4>1, PagesFact
    <3>2. CASE ~up
      <4>1. Show(t, "error")
        <5>1. "login" # "recover"
          OBVIOUS
        <5> QED
          BY <1>7, <2>1, <3>1, <3>2, <5>1 DEF ServeAuth
      <4> QED
        BY <3>2, <4>1
    <3>3. CASE up
      <4>1. IF initialized THEN Show(t, "login") ELSE Redirect(t, "setup")
        BY <1>7, <2>1, <3>1, <3>3 DEF ServeAuth
      <4> QED
        BY <1>4, <3>3, <4>1, PagesFact
    <3> QED
      BY <3>2, <3>3
  <2>3. tab[t].after = "signIn" /\ up => row[tab[t].sent] # "live"
    BY <1>1, <1>2, <1>7 DEF Destination, Chain, Live, Tab
  <2> QED
    BY <1>5, <2>2, <2>3
<1> QED
  BY <1>1, <1>2, <1>6, <1>7 DEF Destination

(* A form takes its tab where it said, whatever other tabs did before; a   *)
(* session the agent does not accept by then is turned away.               *)
THEOREM LandsWhereSentHolds == Spec => LandsWhereSent
<1>1. IInv /\ [Next]_vars =>
        [\A t \in Tabs : Lands(t) =>
           /\ tab[t].after = "signIn" => tab'[t].at \in {"dashboard", "error"} \/ row[tab[t].sent] # "live"
           /\ tab[t].after = "signOut" => tab'[t].at \in {"login", "error"}]_vars
  BY LandingStep
<1> QED
  BY <1>1, Invariance, PTL DEF Spec, LandsWhereSent

-----------------------------------------------------------------------------
(* What the pages show.                                                    *)

LEMMA Division ==
  ASSUME NEW n \in Nat, NEW d \in Nat \ {0}
  PROVE n \div d \in Nat /\ n % d \in Nat /\ n % d < d /\ n = (n \div d) * d + (n % d)
OBVIOUS

LEMMA Rounding ==
  ASSUME NEW n \in Nat, NEW unit \in Nat \ {0}, NEW amount, amount = (2 * n + unit) \div (2 * unit)
  PROVE amount \in Nat /\ 2 * n <= 2 * amount * unit + unit /\ 2 * amount * unit <= 2 * n + unit
<1>1. PICK top \in Nat : top = 2 * n + unit
  OBVIOUS
<1>2. PICK bottom \in Nat \ {0} : bottom = 2 * unit
  OBVIOUS
<1>3. PICK rest \in Nat : rest = top % bottom
  BY <1>1, <1>2, Division
<1>4. amount \in Nat /\ rest < bottom /\ top = amount * bottom + rest
  BY <1>1, <1>2, <1>3, Division
<1>5. amount * bottom = 2 * amount * unit
  <2>1. \A x, y \in Nat : x * (2 * y) = 2 * x * y
    OBVIOUS
  <2> QED
    BY <1>2, <1>4, <2>1
<1> QED
  BY <1>1, <1>2, <1>4, <1>5

(* An amount is shown within half a unit of what it is, or, where tenths   *)
(* are shown, within half a tenth, in units of a power of 1024.            *)
THEOREM FormatBytesIsClose ==
  ASSUME NEW value \in Nat
  PROVE LET shown == FormatBytes(value)
            exact == shown.parts * value
        IN /\ shown.unit \in {1, Kilo, Mega, Giga, Kilo * Giga} /\ shown.parts \in {1, 10}
           /\ 2 * exact <= 2 * shown.amount * shown.unit + shown.unit
           /\ 2 * shown.amount * shown.unit <= 2 * exact + shown.unit
<1>1. PICK unit : unit = Unit(value)
  OBVIOUS
<1>2. unit \in {1, Kilo, Mega, Giga, Kilo * Giga} /\ unit \in Nat \ {0}
  BY <1>1 DEF Unit, Kilo, Mega, Giga
<1>3. PICK parts \in {1, 10} : parts = IF value >= 10 * unit \/ unit = 1 THEN 1 ELSE 10
  OBVIOUS
<1>4. PICK exact \in Nat : exact = parts * value
  BY <1>3
<1>5. 2 * parts * value = 2 * exact
  BY <1>3, <1>4
<1>6. PICK amount : amount = (2 * exact + unit) \div (2 * unit)
  OBVIOUS
<1>7. FormatBytes(value) = [amount |-> amount, parts |-> parts, unit |-> unit]
  BY <1>1, <1>3, <1>5, <1>6 DEF FormatBytes
<1>8. 2 * exact <= 2 * amount * unit + unit /\ 2 * amount * unit <= 2 * exact + unit
  BY <1>2, <1>4, <1>6, Rounding
<1> QED
  BY <1>2, <1>3, <1>4, <1>7, <1>8

(* A value in whole units, half a unit up.                                 *)
Rounded(value, unit) == (2 * value + unit) \div (2 * unit)

(* Rounding keeps the order of amounts, and whole amounts as they are.     *)
LEMMA RoundingOrdered ==
  ASSUME NEW unit \in Nat \ {0}, NEW n \in Nat, NEW m \in Nat, n <= m
  PROVE Rounded(n, unit) <= Rounded(m, unit)
<1>1. PICK a : a = (2 * n + unit) \div (2 * unit)
  OBVIOUS
<1>2. PICK b : b = (2 * m + unit) \div (2 * unit)
  OBVIOUS
<1>3. PICK bottom \in Nat \ {0} : bottom = 2 * unit
  OBVIOUS
<1>4. PICK low \in Nat : low = 2 * n + unit
  OBVIOUS
<1>5. PICK high \in Nat : high = 2 * m + unit
  OBVIOUS
<1>6. a \in Nat /\ a * bottom <= low
  <2>1. PICK rest \in Nat : rest = low % bottom
    BY Division
  <2>2. a \in Nat /\ low = a * bottom + rest
    BY <1>1, <1>3, <1>4, <2>1, Division
  <2> QED
    BY <2>2
<1>7. b \in Nat /\ high < b * bottom + bottom
  <2>1. PICK rest \in Nat : rest = high % bottom
    BY Division
  <2>2. b \in Nat /\ rest < bottom /\ high = b * bottom + rest
    BY <1>2, <1>3, <1>5, <2>1, Division
  <2> QED
    BY <2>2
<1>8. a < b + 1
  <2> SUFFICES ASSUME a >= b + 1 PROVE FALSE
    BY <1>6, <1>7
  <2>1. \A x, y \in Nat : x >= y + 1 => x * bottom >= y * bottom + bottom
    <3> SUFFICES ASSUME NEW x \in Nat, NEW y \in Nat, x >= y + 1
                 PROVE  x * bottom >= y * bottom + bottom
      OBVIOUS
    <3>1. PICK d \in Nat : x = y + 1 + d
      <4> WITNESS x - y - 1 \in Nat
      <4> QED
        OBVIOUS
    <3>2. x * bottom = y * bottom + bottom + d * bottom
      BY <3>1
    <3>3. d * bottom \in Nat /\ y * bottom \in Nat
      OBVIOUS
    <3> QED
      BY <3>2, <3>3
  <2>2. a * bottom >= b * bottom + bottom
    BY <1>6, <1>7, <2>1
  <2>3. low <= high
    BY <1>4, <1>5
  <2> QED
    BY <1>6, <1>7, <2>2, <2>3
<1> QED
  BY <1>1, <1>2, <1>6, <1>7, <1>8 DEF Rounded

LEMMA RoundingExact ==
  ASSUME NEW unit \in Nat \ {0}, NEW k \in Nat
  PROVE Rounded(k * unit, unit) = k
<1>1. PICK bottom \in Nat \ {0} : bottom = 2 * unit
  OBVIOUS
<1>2. PICK top \in Nat : top = 2 * (k * unit) + unit
  OBVIOUS
<1>3. top = k * bottom + unit /\ unit < bottom
  BY <1>1, <1>2
<1>4. top \div bottom = k
  BY <1>3
<1> QED
  BY <1>1, <1>2, <1>4 DEF Rounded

(* The unit is the largest that fits, up to the terabyte.                  *)
LEMMA UnitFits ==
  ASSUME NEW value \in Nat
  PROVE /\ Unit(value) \in {1, Kilo, Mega, Giga, Kilo * Giga}
        /\ Unit(value) = 1 \/ Unit(value) <= value
        /\ Unit(value) = Kilo * Giga \/ value < Kilo * Unit(value)
<1>1. Kilo = 1024 /\ Mega = 1048576 /\ Giga = 1073741824 /\ Kilo * Giga = 1099511627776
  BY DEF Kilo, Mega, Giga
<1>2. CASE value < 1024
  BY <1>1, <1>2 DEF Unit
<1>3. CASE value >= 1024 /\ value < 1048576
  BY <1>1, <1>3 DEF Unit
<1>4. CASE value >= 1048576 /\ value < 1073741824
  BY <1>1, <1>4 DEF Unit
<1>5. CASE value >= 1073741824
  <2>1. value \div Giga < Kilo <=> value < 1099511627776
    BY <1>1, <1>5
  <2>2. Unit(value) = IF value < 1099511627776 THEN Giga ELSE Kilo * Giga
    BY <1>1, <1>5, <2>1 DEF Unit
  <2> QED
    BY <1>1, <1>5, <2>2
<1> QED
  BY <1>2, <1>3, <1>4, <1>5

(* An amount in tenths: at least ten units are shown whole, fewer in       *)
(* tenths, and bytes always whole.                                         *)
ShownIn(value, unit, ten) ==
  /\ Rounded(value, unit) \in Nat /\ Rounded(ten, unit) \in Nat
  /\ Tenths(FormatBytes(value)) =
       IF value >= 10 * unit \/ unit = 1 THEN Rounded(value, unit) * 10 ELSE Rounded(ten, unit)

LEMMA TenthsShown ==
  ASSUME NEW value \in Nat, NEW unit, unit = Unit(value), NEW ten, ten = 10 * value
  PROVE FormatBytes(value).unit = unit /\ ShownIn(value, unit, ten)
<1>1. unit \in Nat \ {0} /\ ten \in Nat
  BY UnitFits DEF Kilo, Mega, Giga
<1>2. Rounded(value, unit) \in Nat /\ Rounded(ten, unit) \in Nat
  BY <1>1, Rounding DEF Rounded
<1>3. CASE value >= 10 * unit \/ unit = 1
  <2>1. FormatBytes(value) = [amount |-> Rounded(value, unit), parts |-> 1, unit |-> unit]
    BY <1>3 DEF FormatBytes, Rounded
  <2> QED
    BY <1>2, <1>3, <2>1 DEF Tenths, ShownIn
<1>4. CASE ~(value >= 10 * unit \/ unit = 1)
  <2>1. FormatBytes(value) = [amount |-> Rounded(ten, unit), parts |-> 10, unit |-> unit]
    <3>1. 2 * 10 * value = 2 * ten
      OBVIOUS
    <3> QED
      BY <1>4, <3>1 DEF FormatBytes, Rounded
  <2> QED
    BY <1>2, <1>4, <2>1 DEF Tenths, ShownIn
<1> QED
  BY <1>2, <1>3, <1>4 DEF ShownIn

(* The amount shown in one unit grows with the value, from at most ten     *)
(* units in tenths to whole units from ten on, and never above 1024.       *)
LEMMA TenthsOrdered ==
  ASSUME NEW one \in Nat, NEW other \in Nat, one <= other, Unit(one) = Unit(other)
  PROVE  Tenths(FormatBytes(one)) <= Tenths(FormatBytes(other))
<1>1. PICK unit \in Nat \ {0} : unit = Unit(one)
  BY UnitFits DEF Kilo, Mega, Giga
<1>2. PICK tenOne \in Nat : tenOne = 10 * one
  OBVIOUS
<1>3. PICK tenOther \in Nat : tenOther = 10 * other
  OBVIOUS
<1>4. tenOne <= tenOther
  BY <1>2, <1>3
<1>5. Rounded(one, unit) <= Rounded(other, unit) /\ Rounded(tenOne, unit) <= Rounded(tenOther, unit)
  BY <1>4, RoundingOrdered
<1>6. ShownIn(one, unit, tenOne) /\ ShownIn(other, unit, tenOther)
  BY <1>1, <1>2, <1>3, TenthsShown, Zenon
<1>7. /\ Rounded(one, unit) \in Nat /\ Rounded(tenOne, unit) \in Nat
      /\ Rounded(other, unit) \in Nat /\ Rounded(tenOther, unit) \in Nat
  BY <1>6 DEF ShownIn
<1>8. CASE one < 10 * unit /\ unit # 1 /\ other >= 10 * unit
  <2>1. PICK limit \in Nat : limit = 10 * unit
    OBVIOUS
  <2>2. PICK tenLimit \in Nat : tenLimit = 100 * unit
    OBVIOUS
  <2>3. limit <= other /\ tenOne <= tenLimit
    BY <1>2, <1>8, <2>1, <2>2
  <2>4. Rounded(limit, unit) = 10 /\ Rounded(tenLimit, unit) = 100
    BY <2>1, <2>2, RoundingExact
  <2>5. Rounded(limit, unit) <= Rounded(other, unit) /\ Rounded(tenOne, unit) <= Rounded(tenLimit, unit)
    BY <2>3, RoundingOrdered
  <2> QED
    BY <1>6, <1>7, <1>8, <2>4, <2>5 DEF ShownIn
<1>9. CASE ~(one < 10 * unit /\ unit # 1 /\ other >= 10 * unit)
  BY <1>5, <1>6, <1>7, <1>9 DEF ShownIn
<1> QED
  BY <1>8, <1>9

(* Nothing is shown as more than 1024 of its unit, nor as less than one,   *)
(* apart from no bytes at all and from terabytes.                          *)
LEMMA TenthsBounded ==
  ASSUME NEW value \in Nat
  PROVE /\ Tenths(FormatBytes(value)) \in Nat
        /\ Unit(value) # Kilo * Giga => Tenths(FormatBytes(value)) <= 10 * Kilo
        /\ Unit(value) # 1 => Tenths(FormatBytes(value)) >= 10
<1>1. PICK unit \in Nat \ {0} : unit = Unit(value)
  BY UnitFits DEF Kilo, Mega, Giga
<1>2. PICK ten \in Nat : ten = 10 * value
  OBVIOUS
<1>3. ShownIn(value, unit, ten)
  BY <1>1, <1>2, TenthsShown, Zenon
<1>4. ASSUME unit # Kilo * Giga PROVE Tenths(FormatBytes(value)) <= 10 * Kilo
  <2>1. Kilo = 1024
    BY DEF Kilo
  <2>2. PICK most \in Nat : most = 1024 * unit
    OBVIOUS
  <2>3. PICK tenth \in Nat : tenth = 100 * unit
    OBVIOUS
  <2>4. value <= most
    BY <1>1, <1>4, <2>1, <2>2, UnitFits
  <2>5. Rounded(most, unit) = 1024 /\ Rounded(tenth, unit) = 100
    BY <2>2, <2>3, RoundingExact
  <2>6. Rounded(value, unit) <= 1024
    BY <2>4, <2>5, RoundingOrdered
  <2>7. ASSUME value < 10 * unit PROVE Rounded(ten, unit) <= 100
    <3>1. ten <= tenth
      BY <1>2, <2>3, <2>7
    <3> QED
      BY <2>5, <3>1, RoundingOrdered
  <2> QED
    BY <1>3, <2>1, <2>6, <2>7 DEF ShownIn
<1>5. ASSUME unit # 1 PROVE Tenths(FormatBytes(value)) >= 10
  <2>1. PICK least \in Nat : least = 10 * unit
    OBVIOUS
  <2>2. unit <= value /\ least <= ten
    <3>1. unit <= value
      BY <1>1, <1>5, UnitFits
    <3> QED
      BY <1>2, <2>1, <3>1
  <2>3. Rounded(1 * unit, unit) = 1 /\ Rounded(least, unit) = 10
    BY <2>1, RoundingExact
  <2>4. Rounded(unit, unit) = 1
    BY <2>3
  <2>5. Rounded(value, unit) >= 1 /\ Rounded(ten, unit) >= 10
    BY <2>2, <2>3, <2>4, RoundingOrdered
  <2> QED
    BY <1>3, <2>5 DEF ShownIn
<1>6. Tenths(FormatBytes(value)) \in Nat
  BY <1>3 DEF ShownIn
<1> QED
  BY <1>1, <1>4, <1>5, <1>6

(* formatBytes keeps the order of amounts: of two values the larger is     *)
(* never shown as the smaller, whatever units and roundings they get.      *)
THEOREM FormatBytesIsOrdered ==
  ASSUME NEW one \in Nat, NEW other \in Nat, one <= other
  PROVE  NotAbove(FormatBytes(one), FormatBytes(other))
<1>1. FormatBytes(one).unit = Unit(one) /\ FormatBytes(other).unit = Unit(other)
  BY TenthsShown
<1>2. CASE Unit(one) = Unit(other)
  BY <1>1, <1>2, TenthsOrdered DEF NotAbove
<1>3. CASE Unit(one) # Unit(other)
  <2>1. Unit(one) < Unit(other)
    BY <1>3, UnitFits DEF Kilo, Mega, Giga
  <2>2. Unit(one) # Kilo * Giga /\ Unit(other) # 1
    BY <2>1, UnitFits DEF Kilo, Mega, Giga
  <2>3. /\ Tenths(FormatBytes(one)) \in Nat /\ Tenths(FormatBytes(other)) \in Nat
        /\ Tenths(FormatBytes(one)) <= 10 * Kilo /\ Tenths(FormatBytes(other)) >= 10
    BY <2>2, TenthsBounded
  <2>4. Tenths(FormatBytes(one)) <= Tenths(FormatBytes(other)) * Kilo
    BY <2>3 DEF Kilo
  <2> QED
    BY <1>1, <1>3, <2>1, <2>4 DEF NotAbove
<1> QED
  BY <1>2, <1>3

(* An uptime is never overstated, and understated by less than the unit    *)
(* shown last: an hour once days are shown, a minute before.               *)
THEOREM UptimeReadsBack ==
  ASSUME NEW seconds \in Nat
  PROVE LET shown == Uptime(seconds)
            read == shown.days * Day + shown.hours * Hour + shown.minutes * Minute
        IN /\ shown.hours < 24 /\ shown.minutes < 60
           /\ read <= seconds
           /\ seconds < read + (IF shown.days > 0 THEN Hour ELSE Minute)
<1> DEFINE days == seconds \div 86400
           rest == seconds % 86400
           hours == rest \div 3600
           below == seconds % 3600
           minutes == below \div 60
<1>1. days \in Nat /\ rest \in Nat /\ rest < 86400 /\ seconds = days * 86400 + rest
  <2>1. PICK day \in Nat \ {0} : day = 86400
    OBVIOUS
  <2> QED
    BY <2>1, Division
<1> HIDE DEF days, rest
<1>2. hours \in Nat /\ hours < 24 /\ rest < hours * 3600 + 3600 /\ hours * 3600 <= rest
  <2>1. PICK hour \in Nat \ {0} : hour = 3600
    OBVIOUS
  <2>2. hours \in Nat /\ rest % 3600 \in Nat /\ rest % 3600 < 3600 /\ rest = hours * 3600 + (rest % 3600)
    BY <1>1, <2>1, Division
  <2> HIDE DEF hours
  <2> QED
    BY <1>1, <2>2
<1> HIDE DEF hours
<1>3. below = rest - hours * 3600 /\ below \in Nat /\ below < 3600
  <2>1. PICK r \in Nat : r = rest - hours * 3600 /\ r < 3600
    BY <1>1, <1>2
  <2>2. PICK q \in Nat : q = days * 24 + hours
    BY <1>1, <1>2
  <2>3. seconds = 3600 * q + r
    BY <1>1, <1>2, <2>1, <2>2
  <2>4. seconds % 3600 = r
    BY <2>1, <2>3
  <2> QED
    BY <2>1, <2>4
<1> HIDE DEF below
<1>4. minutes \in Nat /\ minutes < 60 /\ minutes * 60 <= below /\ below < minutes * 60 + 60
  <2>1. PICK minute \in Nat \ {0} : minute = 60
    OBVIOUS
  <2>2. minutes \in Nat /\ below % 60 \in Nat /\ below % 60 < 60 /\ below = minutes * 60 + (below % 60)
    BY <1>3, <2>1, Division
  <2> HIDE DEF minutes
  <2> QED
    BY <1>3, <2>2
<1> HIDE DEF minutes
<1>5. Day = 86400 /\ Hour = 3600 /\ Minute = 60
  BY DEF Day, Hour, Minute
<1> DEFINE shown == Uptime(seconds)
           read == shown.days * Day + shown.hours * Hour + shown.minutes * Minute
<1> SUFFICES /\ shown.hours < 24 /\ shown.minutes < 60
             /\ read <= seconds
             /\ seconds < read + (IF shown.days > 0 THEN Hour ELSE Minute)
  OBVIOUS
<1>6. CASE days > 0
  <2>1. shown = [days |-> days, hours |-> hours, minutes |-> 0]
    BY <1>5, <1>6 DEF Uptime, days, rest, hours
  <2> HIDE DEF shown
  <2>2. shown.days = days /\ shown.hours = hours /\ shown.minutes = 0
    BY <2>1
  <2>3. read = days * 86400 + hours * 3600
    BY <1>1, <1>2, <1>5, <2>2
  <2> HIDE DEF read
  <2> QED
    BY <1>1, <1>2, <1>5, <1>6, <2>2, <2>3
<1>7. CASE days = 0
  <2>1. shown = [days |-> 0, hours |-> hours, minutes |-> minutes]
    BY <1>2, <1>5, <1>7 DEF Uptime, days, rest, hours, below, minutes
  <2> HIDE DEF shown
  <2>2. shown.days = 0 /\ shown.hours = hours /\ shown.minutes = minutes
    BY <2>1
  <2>3. read = hours * 3600 + minutes * 60
    BY <1>2, <1>4, <1>5, <2>2
  <2>4. seconds = hours * 3600 + below
    BY <1>1, <1>2, <1>3, <1>7
  <2> HIDE DEF read
  <2> QED
    <3>1. shown.hours < 24 /\ shown.minutes < 60
      BY <1>2, <1>4, <2>2
    <3>2. read <= seconds /\ seconds < read + 60
      BY <1>2, <1>3, <1>4, <2>3, <2>4
    <3> QED
      BY <1>5, <2>2, <3>1, <3>2
<1> HIDE DEF shown, read
<1> QED
  BY <1>1, <1>6, <1>7

(* A line shown in the log viewer is the line or a marked beginning of it, *)
(* at most the mark longer than asked for.                                 *)
THEOREM TruncateKeepsBeginning ==
  ASSUME NEW S, NEW value \in Seq(S), NEW maxLength \in Nat
  PROVE LET shown == Truncate(value, maxLength)
        IN /\ Len(shown) <= maxLength + 3
           /\ \A i \in 1 .. Len(shown) : i <= maxLength => shown[i] = value[i]
           /\ Len(value) <= maxLength => shown = value
<1>1. CASE Len(value) <= maxLength
  BY <1>1 DEF Truncate
<1>2. CASE Len(value) > maxLength
  <2> DEFINE cut == SubSeq(value, 1, maxLength)
  <2>1. cut \in Seq(S) /\ Len(cut) = maxLength /\ \A i \in 1 .. maxLength : cut[i] = value[i]
    BY <1>2
  <2>2. Truncate(value, maxLength) = cut \o Ellipsis
    BY <1>2 DEF Truncate
  <2>3. Len(Ellipsis) = 3 /\ Ellipsis \in Seq({"."} \cup S) /\ cut \in Seq({"."} \cup S)
    BY <2>1 DEF Ellipsis
  <2> HIDE DEF cut
  <2>4. Len(cut \o Ellipsis) = maxLength + 3
    <3>1. \A u, v \in Seq({"."} \cup S) : Len(u \o v) = Len(u) + Len(v)
      OBVIOUS
    <3> QED
      BY <2>1, <2>3, <3>1
  <2>5. ASSUME NEW i \in 1 .. maxLength PROVE (cut \o Ellipsis)[i] = cut[i]
    BY <2>1, <2>3
  <2> QED
    BY <1>2, <2>1, <2>2, <2>4, <2>5
<1> QED
  BY <1>1, <1>2

-----------------------------------------------------------------------------
(* What a page lists is the beginning of what the agent answered, at most  *)
(* as much of it as the page asked for.                                    *)
LEMMA NewestIsBeginning ==
  ASSUME NEW S, NEW list \in Seq(S), NEW limit \in Nat
  PROVE /\ Newest(list, limit) \in Seq(S)
        /\ Len(Newest(list, limit)) = IF Len(list) < limit THEN Len(list) ELSE limit
        /\ \A i \in 1 .. Len(Newest(list, limit)) : Newest(list, limit)[i] = list[i]
BY DEF Newest

(* As many different values as there are places, at most.                  *)
LEMMA ValuesOfPlaces ==
  ASSUME NEW n \in Nat, NEW f, f = [i \in 1 .. n |-> f[i]]
  PROVE /\ IsFiniteSet({f[i] : i \in 1 .. n})
        /\ Cardinality({f[i] : i \in 1 .. n}) \in 0 .. n
        /\ n > 0 => Cardinality({f[i] : i \in 1 .. n}) > 0
<1> DEFINE T == {f[i] : i \in 1 .. n}
<1>1. f \in Surjection(1 .. n, T)
  BY DEF Surjection
<1>2. IsFiniteSet(1 .. n) /\ Cardinality(1 .. n) = n
  BY FS_Interval
<1>3. IsFiniteSet(T) /\ Cardinality(T) <= n
  BY <1>1, <1>2, FS_Surjection
<1>4. Cardinality(T) \in Nat
  BY <1>3, FS_CardinalityType
<1>5. ASSUME n > 0 PROVE Cardinality(T) > 0
  <2>1. f[1] \in T
    BY <1>5
  <2>2. Cardinality(T) # 0
    BY <1>3, <2>1, FS_EmptySet
  <2> QED
    BY <1>4, <2>2
<1> QED
  BY <1>3, <1>4, <1>5

(* The audit page lists the newest fifty entries in the agent's order, its *)
(* counts are of the rows it lists, and it calls none of them failed only  *)
(* when all of them are "ok".                                              *)
THEOREM AuditPageCountsItsRows ==
  ASSUME NEW S, NEW entries \in Seq(S), NEW brokenAt
  PROVE LET page == AuditPage(entries, brokenAt)
        IN /\ page.visible = IF Len(entries) < 50 THEN Len(entries) ELSE 50
           /\ \A i \in 1 .. page.visible : page.rows[i] = AuditRow(entries[i])
           /\ page.failed \in 0 .. page.visible /\ page.actors \in 0 .. page.visible
           /\ page.failed = 0 <=> \A i \in 1 .. page.visible : page.rows[i].result = "ok"
           /\ page.visible > 0 => page.actors > 0
<1>1. PICK items : items = Newest(entries, 50)
  OBVIOUS
<1>2. PICK n \in Nat : n = Len(items)
  BY <1>1, NewestIsBeginning
<1>3. items \in Seq(S) /\ \A i \in 1 .. n : items[i] = entries[i]
  BY <1>1, <1>2, NewestIsBeginning
<1>4. n = IF Len(entries) < 50 THEN Len(entries) ELSE 50
  <2>1. PICK limit \in Nat : limit = 50
    OBVIOUS
  <2>2. n = IF Len(entries) < limit THEN Len(entries) ELSE limit
    BY <1>1, <1>2, <2>1, NewestIsBeginning, Zenon
  <2> QED
    BY <2>1, <2>2
<1>5. PICK actors : actors = [i \in 1 .. n |-> Or(items[i].actor, "system")]
  OBVIOUS
<1>6. PICK failed : failed = {i \in 1 .. n : items[i].result # "ok"}
  OBVIOUS
<1>7. PICK rows : rows = [i \in DOMAIN items |-> AuditRow(items[i])]
  OBVIOUS
<1>8. {Or(items[i].actor, "system") : i \in 1 .. n} = {actors[i] : i \in 1 .. n}
  BY <1>5
<1>9. AuditPage(entries, brokenAt) =
        [intact |-> brokenAt = 0, visible |-> n, actors |-> Cardinality({actors[i] : i \in 1 .. n}),
         failed |-> Cardinality(failed), rows |-> rows]
  BY <1>1, <1>2, <1>6, <1>7, <1>8, Zenon DEF AuditPage
<1>10. \A i \in 1 .. n : rows[i] = AuditRow(entries[i])
  BY <1>2, <1>3, <1>7
<1>11. IsFiniteSet(failed) /\ Cardinality(failed) \in 0 .. n
  <2>1. IsFiniteSet(1 .. n) /\ Cardinality(1 .. n) = n
    BY FS_Interval
  <2>2. failed \in SUBSET (1 .. n)
    BY <1>6
  <2>3. IsFiniteSet(failed) /\ Cardinality(failed) <= n
    BY <2>1, <2>2, FS_Subset
  <2> QED
    BY <2>3, FS_CardinalityType
<1>12. Cardinality(failed) = 0 <=> \A i \in 1 .. n : rows[i].result = "ok"
  <2>1. \A i \in 1 .. n : rows[i].result = items[i].result
    <3>1. \A entry : AuditRow(entry).result = entry.result
      BY DEF AuditRow
    <3> QED
      BY <1>3, <1>10, <3>1, Zenon
  <2>2. Cardinality(failed) = 0 <=> failed = {}
    BY <1>11, FS_EmptySet
  <2> QED
    BY <1>6, <2>1, <2>2
<1>13. /\ Cardinality({actors[i] : i \in 1 .. n}) \in 0 .. n
       /\ n > 0 => Cardinality({actors[i] : i \in 1 .. n}) > 0
  BY <1>5, ValuesOfPlaces
<1> QED
  BY <1>4, <1>9, <1>10, <1>11, <1>12, <1>13

(* The log page counts a source as active exactly when it shows a line of  *)
(* it, so it never claims more active sources than it lists.               *)
THEOREM LogsPageCountsActiveSources ==
  ASSUME NEW Ids, NEW Lines, NEW Notices,
         NEW sections \in Seq([id: Ids, lines: Seq(Lines), notice: Notices])
  PROVE LET page == LogsPage(sections)
        IN /\ page.active = Cardinality({i \in 1 .. page.sources : page.sections[i].count > 0})
           /\ page.active \in 0 .. page.sources
<1>1. PICK n \in Nat : n = Len(sections)
  OBVIOUS
<1>2. PICK lines : lines = UNION {{i} \X (1 .. Len(sections[i].lines)) : i \in 1 .. n}
  OBVIOUS
<1>3. PICK active : active = {line[1] : line \in lines}
  OBVIOUS
<1>4. \A i \in 1 .. n : Len(sections[i].lines) \in Nat
  BY <1>1
<1>5. PICK shown : shown = [i \in DOMAIN sections |-> LogSection(sections[i])]
  OBVIOUS
<1>6. \A i \in 1 .. n : shown[i].count = Len(sections[i].lines)
  BY <1>1, <1>5 DEF LogSection
<1>7. LogsPage(sections).active = Cardinality(active)
      /\ LogsPage(sections).sources = n /\ LogsPage(sections).sections = shown
  BY <1>1, <1>2, <1>3, <1>5, Zenon DEF LogsPage
<1>8. active = {i \in 1 .. n : shown[i].count > 0}
  <2>1. ASSUME NEW i \in active PROVE i \in 1 .. n /\ shown[i].count > 0
    <3>1. PICK line \in lines : i = line[1]
      BY <1>3
    <3>2. PICK k \in 1 .. n : line \in {k} \X (1 .. Len(sections[k].lines))
      BY <1>2
    <3>3. i = k /\ \E m \in 1 .. Len(sections[k].lines) : TRUE
      BY <3>1, <3>2
    <3> QED
      BY <1>4, <1>6, <3>3
  <2>2. ASSUME NEW i \in 1 .. n, shown[i].count > 0 PROVE i \in active
    <3>1. 1 \in 1 .. Len(sections[i].lines)
      BY <1>4, <1>6, <2>2
    <3>2. <<i, 1>> \in lines
      BY <1>2, <3>1
    <3> QED
      BY <1>3, <3>2
  <2> QED
    BY <2>1, <2>2
<1>9. Cardinality(active) \in 0 .. n
  <2>1. IsFiniteSet(1 .. n) /\ Cardinality(1 .. n) = n
    BY FS_Interval
  <2>2. active \in SUBSET (1 .. n)
    BY <1>8
  <2>3. IsFiniteSet(active) /\ Cardinality(active) <= n
    BY <2>1, <2>2, FS_Subset
  <2> QED
    BY <2>3, FS_CardinalityType
<1> QED
  BY <1>7, <1>8, <1>9
=============================================================================
