---------------------------- MODULE PanelActions ----------------------------
(***************************************************************************)
(* What an operator changes through the panel: the settings form, the      *)
(* service list, the UI's proxy to the agent and the agent's handlers of   *)
(* both, with the audit entries they write.                                *)
(*                                                                         *)
(* A form posts all its values, whoever edited them.  Every statement of a *)
(* handler is a step and may fail (the disk, a lock, the request's context *)
(* when the UI has gone); the agent may stop between any two.  What a unit *)
(* does is left out, except that an action on the agent's own unit stops   *)
(* the agent that carries it out.                                          *)
(***************************************************************************)
EXTENDS Naturals, Sequences, FiniteSets

CONSTANTS
  Forms,        \* settings forms open in tabs
  Lists,        \* service lists open in tabs
  Keys,         \* names of settings
  Values,
  Default,      \* defaultSettings
  MaxSends,     \* bound on requests
  MaxStops      \* bound on stops of the agent

Clients == Forms \cup Lists
Settings == [Keys -> Values]

ASSUME DefaultAssumption == Default \in Settings
ASSUME ClientsAssumption == Forms \cap Lists = {}
ASSUME BoundsAssumption == MaxSends \in Nat /\ MaxStops \in Nat

VARIABLES
  up,           \* does the agent answer?
  stops,        \* how often it has stopped
  settings,     \* what GetSettings returns
  writes,       \* how often settings were saved
  trail,        \* the audit entries of these actions
  view,         \* per form, the values shown and which of them were edited
  call,         \* per client, the request under way
  sends,        \* how many there were
  effects,      \* requests that took effect
  lapsed        \* those of them that got no audit entry

agentVars == <<settings, writes, trail, effects, lapsed>>
vars == <<up, stops, settings, writes, trail, view, call, sends, effects, lapsed>>

-----------------------------------------------------------------------------
(* The steps of a request: "sent" by the browser, "admitted" by the proxy, *)
(* then the agent's, until it is "answered".                               *)
SaveSteps == {"read", "written", "reread"}
Steps == {"idle", "sent", "admitted", "acted", "answered"} \cup SaveSteps

(* alone: no other save has written since this one read the settings.      *)
Call == [step: Steps, id: 0 .. MaxSends, ok: BOOLEAN, halts: BOOLEAN, alone: BOOLEAN,
         items: Settings, edited: SUBSET Keys, seen: Nat, before: Settings, after: Settings]

Idle == [step |-> "idle", id |-> 0, ok |-> FALSE, halts |-> FALSE, alone |-> FALSE,
         items |-> Default, edited |-> {}, seen |-> 0, before |-> Default, after |-> Default]

Loaded == [values |-> settings, edited |-> {}, seen |-> writes]

Init ==
  /\ up = TRUE
  /\ stops = 0
  /\ settings = Default
  /\ writes = 0
  /\ trail = <<>>
  /\ view = [f \in Forms |-> Loaded]
  /\ call = [c \in Clients |-> Idle]
  /\ sends = 0
  /\ effects = {}
  /\ lapsed = {}

Requests == Clients \X (1 .. MaxSends)
Request(c) == <<c, call[c].id>>
Saves(requests) == {x \in requests : x[1] \in Forms}
At(step) == {c \in Clients : call[c].step = step}
Saving == UNION {At(step) : step \in SaveSteps}
Unlogged == At("written") \cup At("reread") \cup At("acted")

Answered(request, ok) ==
  [Idle EXCEPT !.step = "answered", !.id = request.id, !.ok = ok,
               !.after = IF ok THEN request.after ELSE @, !.seen = IF ok THEN request.seen ELSE @]
Answer(c, ok) == call' = [call EXCEPT ![c] = Answered(call[c], ok)]

-----------------------------------------------------------------------------
(* The browser.                                                            *)

(* Slip: the page comes from a cache.                                      *)
Load_Cached(f) ==
  /\ call[f].step = "idle"
  /\ up
  /\ view' = [view EXCEPT ![f].edited = {}, ![f].seen = writes]
  /\ UNCHANGED <<up, stops, agentVars, call, sends>>

(* The settings page is loaded.                                            *)
Load(f) ==
  /\ call[f].step = "idle"
  /\ up
  /\ view' = [view EXCEPT ![f] = Loaded]
  /\ UNCHANGED <<up, stops, agentVars, call, sends>>

Send(c, request) ==
  /\ call[c].step = "idle"
  /\ sends < MaxSends
  /\ sends' = sends + 1
  /\ call' = [call EXCEPT ![c] = [request EXCEPT !.step = "sent", !.id = sends + 1]]
  /\ UNCHANGED <<up, stops, agentVars>>

(* save: all values of the form are posted, those typed since it was       *)
(* loaded and the others.  What is typed while a save is under way is      *)
(* overwritten by its answer, or as good as typed after its failure.       *)
Save(f, values) ==
  LET edited == view[f].edited \cup {key \in Keys : values[key] # view[f].values[key]} IN
  /\ Send(f, [Idle EXCEPT !.items = values, !.edited = edited, !.seen = view[f].seen])
  /\ view' = [view EXCEPT ![f].values = values, ![f].edited = edited]

(* runAction: while one is under way every button of the list is disabled. *)
RunAction(l, halts) == Send(l, [Idle EXCEPT !.halts = halts]) /\ UNCHANGED view

(* Slip: an error's body is taken for the settings, of which it has none.  *)
Arrive_Unchecked(c, received) ==
  /\ call[c].step = "answered"
  /\ call' = [call EXCEPT ![c] = Idle]
  /\ view' = [f \in Forms |->
               IF f = c THEN [values |-> IF call[c].ok THEN call[c].after ELSE <<>>, edited |-> {}, seen |-> call[c].seen]
               ELSE view[f]]
  /\ UNCHANGED <<up, stops, agentVars, sends>>

(* The answer arrives.  What the agent read back replaces the form's       *)
(* values, with whatever was typed meanwhile.  An error leaves them, and   *)
(* an answer that is lost with the UI's process or the connection is one.  *)
Arrive(c, received) ==
  /\ call[c].step = "answered"
  /\ call' = [call EXCEPT ![c] = Idle]
  /\ view' = [f \in Forms |->
               IF f = c /\ call[c].ok /\ received THEN [values |-> call[c].after, edited |-> {}, seen |-> call[c].seen]
               ELSE view[f]]
  /\ UNCHANGED <<up, stops, agentVars, sends>>

-----------------------------------------------------------------------------
(* The proxy: it asks the agent for the session, then passes the request   *)
(* on.  It refuses when the session has ended (module Sessions) or the     *)
(* agent does not answer; an agent gone after that is an error.            *)
Admit(c) ==
  /\ call[c].step = "sent" /\ up
  /\ call' = [call EXCEPT ![c].step = "admitted"]
  /\ UNCHANGED <<up, stops, agentVars, view, sends>>

Refuse(c) ==
  /\ call[c].step = "sent" \/ (call[c].step = "admitted" /\ ~up)
  /\ Answer(c, FALSE)
  /\ UNCHANGED <<up, stops, agentVars, view, sends>>

-----------------------------------------------------------------------------
(* The settings handler.                                                   *)
GetBefore(f) ==
  /\ f \in Forms /\ call[f].step = "admitted" /\ up
  /\ call' = [call EXCEPT ![f].step = "read", ![f].before = settings, ![f].alone = TRUE]
  /\ UNCHANGED <<up, stops, agentVars, view, sends>>

(* One transaction: all values of the request, or none.                    *)
Upsert(f) ==
  /\ call[f].step = "read"
  /\ settings' = call[f].items
  /\ writes' = writes + 1
  /\ effects' = effects \cup {Request(f)}
  /\ call' = [c \in Clients |->
               IF c = f THEN [call[f] EXCEPT !.step = "written", !.alone = @ /\ Saving = {f}]
               ELSE [call[c] EXCEPT !.alone = @ /\ c \notin Saving]]
  /\ UNCHANGED <<up, stops, trail, view, sends, lapsed>>

GetAfter(f) ==
  /\ call[f].step = "written"
  /\ call' = [call EXCEPT ![f].step = "reread", ![f].after = settings, ![f].seen = writes]
  /\ UNCHANGED <<up, stops, agentVars, view, sends>>

(* An audit entry; alone and gaps are not part of it, they tell which      *)
(* claims of the properties hold for it.                                   *)
Entry(c) ==
  [request |-> Request(c), before |-> call[c].before, after |-> call[c].after, alone |-> call[c].alone, gaps |-> Saves(lapsed)]

Log(c) ==
  /\ call[c].step = IF c \in Forms THEN "reread" ELSE "acted"
  /\ trail' = Append(trail, Entry(c))
  /\ Answer(c, TRUE)
  /\ UNCHANGED <<up, stops, settings, writes, view, sends, effects, lapsed>>

(* The error of the audit log is dropped.                                  *)
LogFails(c) ==
  /\ call[c].step = IF c \in Forms THEN "reread" ELSE "acted"
  /\ lapsed' = lapsed \cup {Request(c)}
  /\ Answer(c, TRUE)
  /\ UNCHANGED <<up, stops, settings, writes, trail, view, sends, effects>>

(* Slip: a transaction that fails leaves the first of its values.          *)
StatementFails_NoTx(f) ==
  /\ call[f].step \in {"read", "written"} \/ (f \in Forms /\ call[f].step = "admitted" /\ up)
  /\ settings' \in {[settings EXCEPT ![k] = call[f].items[k]] : k \in {q \in Keys : call[f].step = "read"}} \cup {settings}
  /\ lapsed' = IF f \in Unlogged THEN lapsed \cup {Request(f)} ELSE lapsed
  /\ Answer(f, FALSE)
  /\ UNCHANGED <<up, stops, writes, trail, view, sends, effects>>

(* A read or the transaction fails: the handler returns an error, also     *)
(* when it has already written.                                            *)
StatementFails(f) ==
  /\ call[f].step \in {"read", "written"} \/ (f \in Forms /\ call[f].step = "admitted" /\ up)
  /\ lapsed' = IF f \in Unlogged THEN lapsed \cup {Request(f)} ELSE lapsed
  /\ Answer(f, FALSE)
  /\ UNCHANGED <<up, stops, settings, writes, trail, view, sends, effects>>

-----------------------------------------------------------------------------
(* The services handler.                                                   *)
Act(l) ==
  /\ l \in Lists /\ call[l].step = "admitted" /\ up /\ ~call[l].halts
  /\ call' = [call EXCEPT ![l].step = "acted"]
  /\ effects' = effects \cup {Request(l)}
  /\ UNCHANGED <<up, stops, settings, writes, trail, view, sends, lapsed>>

(* Slip: the entry is written whatever systemctl says.                     *)
ActFails_Logged(l, partly) ==
  /\ l \in Lists /\ call[l].step = "admitted" /\ up
  /\ trail' = Append(trail, Entry(l))
  /\ effects' = IF partly THEN effects \cup {Request(l)} ELSE effects
  /\ Answer(l, FALSE)
  /\ UNCHANGED <<up, stops, settings, writes, view, sends, lapsed>>

(* systemctl fails, or is not started (an invalid unit): an error and no   *)
(* entry, also when it failed half-way, as a restart that only stopped.    *)
ActFails(l, partly) ==
  /\ l \in Lists /\ call[l].step = "admitted" /\ up
  /\ effects' = IF partly THEN effects \cup {Request(l)} ELSE effects
  /\ lapsed' = IF partly THEN lapsed \cup {Request(l)} ELSE lapsed
  /\ Answer(l, FALSE)
  /\ UNCHANGED <<up, stops, settings, writes, trail, view, sends>>

-----------------------------------------------------------------------------
(* The agent's process.                                                    *)

(* Slip: a request cut off gets neither an answer nor an error.            *)
Halt_Silent(own) ==
  /\ up /\ stops < MaxStops
  /\ up' = FALSE
  /\ stops' = stops + 1
  /\ effects' = effects \cup {Request(l) : l \in own}
  /\ lapsed' = lapsed \cup {Request(c) : c \in Unlogged \cup own}
  /\ call' = [c \in Clients |-> IF c \in Saving \cup Unlogged \cup own THEN [call[c] EXCEPT !.step = "silent"] ELSE call[c]]
  /\ UNCHANGED <<settings, writes, trail, view, sends>>

(* The process ends.  A stop by a signal does not wait for its handlers:   *)
(* Serve returns as soon as Shutdown begins, and main with it.  The        *)
(* requests in them fail with the connection.                              *)
Halt(own) ==
  /\ up /\ stops < MaxStops
  /\ up' = FALSE
  /\ stops' = stops + 1
  /\ effects' = effects \cup {Request(l) : l \in own}
  /\ lapsed' = lapsed \cup {Request(c) : c \in Unlogged \cup own}
  /\ call' = [c \in Clients |-> IF c \in Saving \cup Unlogged \cup own THEN Answered(call[c], FALSE) ELSE call[c]]
  /\ UNCHANGED <<settings, writes, trail, view, sends>>

StopAgent == Halt({})

(* The agent's own unit is stopped or restarted from the panel.            *)
ActOnSelf(l) ==
  /\ l \in Lists /\ call[l].step = "admitted" /\ call[l].halts
  /\ Halt({l})

StartAgent ==
  /\ ~up
  /\ up' = TRUE
  /\ UNCHANGED <<stops, agentVars, view, call, sends>>

-----------------------------------------------------------------------------
Handle(c) ==
  \/ Admit(c)
  \/ Refuse(c)
  \/ GetBefore(c)
  \/ Upsert(c)
  \/ GetAfter(c)
  \/ StatementFails(c)
  \/ Act(c)
  \/ \E partly \in BOOLEAN : ActFails(c, partly)
  \/ Log(c)
  \/ LogFails(c)
  \/ \E received \in BOOLEAN : Arrive(c, received)

Next ==
  \/ \E f \in Forms : Load(f)
  \/ \E f \in Forms, values \in Settings : Save(f, values)
  \/ \E l \in Lists, halts \in BOOLEAN : RunAction(l, halts)
  \/ \E c \in Clients : Handle(c)
  \/ \E l \in Lists : ActOnSelf(l)
  \/ StopAgent
  \/ StartAgent

(* What needs no handler: the browser gets the answer, or learns that the  *)
(* connection is closed, and the proxy gets an error from an agent that is *)
(* not there.                                                              *)
Deliver(c) == (~up /\ Refuse(c)) \/ \E received \in BOOLEAN : Arrive(c, received)

(* Neither requestRaw nor the handlers have a timeout: that a running      *)
(* agent answers, that SQL goes on and that systemctl returns is not       *)
(* assumed.                                                                *)
Spec == Init /\ [][Next]_vars /\ \A c \in Clients : WF_vars(Deliver(c))

-----------------------------------------------------------------------------
(* Every variable has its type.                                            *)
TypeOK ==
  /\ up \in BOOLEAN
  /\ stops \in 0 .. MaxStops
  /\ settings \in Settings
  /\ writes \in Nat
  /\ trail \in Seq([request: Requests, before: Settings, after: Settings, alone: BOOLEAN, gaps: SUBSET Requests])
  /\ view \in [Forms -> [values: Settings, edited: SUBSET Keys, seen: Nat]]
  /\ call \in [Clients -> Call]
  /\ sends \in 0 .. MaxSends
  /\ effects \subseteq Requests /\ lapsed \subseteq Requests

(* What took effect has one entry, has its entry still to come, or lost it *)
(* to a failure after the effect; nothing else has an entry, and nobody is *)
(* told of a success that was none.                                        *)
Audited == {trail[i].request : i \in 1 .. Len(trail)}
Open == {Request(c) : c \in Unlogged}
EffectsAccountedFor ==
  /\ effects = Audited \cup lapsed \cup Open
  /\ Audited \cap lapsed = {} /\ Open \cap (Audited \cup lapsed) = {}
  /\ \A i, j \in 1 .. Len(trail) : trail[i].request = trail[j].request => i = j
  /\ \A c \in Clients : call[c].step = "answered" /\ call[c].ok => Request(c) \in effects

(* "Every mutating action is audited" (services/page.tsx:14): what took    *)
(* effect has its entry or is about to get it.                             *)
EveryActionIsAudited == effects \subseteq Audited \cup Open

(* What the first n entries say is in force, unless the last save of them  *)
(* was overlapped by another or a save has gone without its entry since.   *)
IsSave(i) == trail[i].request[1] \in Forms
Says(n, missing, value) ==
  \/ \E i \in 1 .. n :
       /\ IsSave(i) /\ \A j \in i + 1 .. n : ~IsSave(j)
       /\ trail[i].alone /\ trail[i].gaps = missing /\ trail[i].after = value
  \/ (\A i \in 1 .. n : ~IsSave(i)) /\ missing = {} /\ value = Default

(* The trail can be replayed: an entry of a save that no other overlapped  *)
(* begins where the entries before it end, and when no save is under way   *)
(* the settings in force are those the trail ends with.                    *)
TrailReplays ==
  \A value \in Settings :
    /\ \A i \in 1 .. Len(trail) :
         IsSave(i) /\ trail[i].alone /\ Says(i - 1, trail[i].gaps, value) => trail[i].before = value
    /\ Saving = {} /\ Says(Len(trail), Saves(lapsed), value) => settings = value

(* A save changes a value nobody edited in its form only if somebody else  *)
(* has saved since the form read the settings: a form never brings back    *)
(* old values otherwise.                                                   *)
OverwritesAreOfStaleForms ==
  [][\A f \in Forms : Upsert(f) =>
       \A key \in Keys \ call[f].edited : settings'[key] # settings[key] => call[f].seen < writes]_vars

(* A form or list stays busy for ever only while a running agent owes it   *)
(* an answer: never over a lost answer, and never over an agent that has   *)
(* stopped, wherever the request was then.                                 *)
AwaitsAgent(c) == up /\ call[c].step \in Steps \ {"idle", "answered"}
RequestsSettle ==
  \A c \in Clients :
    (call[c].step # "idle" ~> call[c].step = "idle") \/ <>[]AwaitsAgent(c)

(* The handler steps a request has ahead of it, at most.                   *)
StepsLeft(c) ==
  [idle |-> 0, answered |-> 1, reread |-> 2, acted |-> 2, written |-> 3, read |-> 4,
   admitted |-> 5, sent |-> 6][call[c].step]

(* Every step of a handler brings its request nearer to the end, and       *)
(* nothing that happens meanwhile, other saves of the same settings and    *)
(* stops of the agent included, sends it back: no request takes more than  *)
(* six steps, so none is ever retried inside the UI or the agent.          *)
RequestsAdvance ==
  [][\A c \in Clients :
       /\ Handle(c) => StepsLeft(c)' < StepsLeft(c)
       /\ call[c].step # "idle" => StepsLeft(c)' <= StepsLeft(c)]_vars
=============================================================================
