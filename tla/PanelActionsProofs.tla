------------------------- MODULE PanelActionsProofs -------------------------
(* Proofs about PanelActions, for any forms, lists, settings and bounds.   *)
EXTENDS PanelActions, TLAPS

-----------------------------------------------------------------------------
Before == {"sent", "admitted", "read"}
After == {"written", "reread", "acted"}

(* A request has a number of its own; it has taken effect from one step    *)
(* on, and not before.                                                     *)
Ordered(c, x) ==
  /\ x.step # "idle" => x.id \in 1 .. sends
  /\ x.step \in Before => <<c, x.id>> \notin effects
  /\ x.step \in SaveSteps => c \in Forms
  /\ x.step = "acted" => c \in Lists

Numbered == \A r \in effects : r[2] \in 1 .. sends

Orderly == TypeOK /\ EffectsAccountedFor /\ Numbered /\ \A c \in Clients : Ordered(c, call[c])

-----------------------------------------------------------------------------
LEMMA IdleCall == Idle \in Call
BY DefaultAssumption, BoundsAssumption DEF Idle, Call, Steps

LEMMA AnsweredCall ==
  ASSUME NEW x \in Call, NEW ok \in BOOLEAN
  PROVE /\ Answered(x, ok) \in Call
        /\ Answered(x, ok).step = "answered" /\ Answered(x, ok).id = x.id /\ Answered(x, ok).ok = ok
        /\ ok => Answered(x, ok).after = x.after /\ Answered(x, ok).seen = x.seen
<1>1. Idle \in Call
  BY IdleCall
<1>2. x.id \in 0 .. MaxSends /\ x.after \in Settings /\ x.seen \in Nat
  BY DEF Call
<1>3. PICK after \in Settings, seen \in Nat :
        /\ Answered(x, ok) = [Idle EXCEPT !.step = "answered", !.id = x.id, !.ok = ok, !.after = after, !.seen = seen]
        /\ ok => after = x.after /\ seen = x.seen
  <2>1. Idle.after \in Settings /\ Idle.seen \in Nat
    BY <1>1 DEF Call
  <2> QED
    BY <1>2, <2>1 DEF Answered
<1>4. "answered" \in Steps
  BY DEF Steps
<1> QED
  BY <1>1, <1>2, <1>3, <1>4 DEF Call

LEMMA InitOrderly == Init => Orderly
<1> SUFFICES ASSUME Init PROVE Orderly
  OBVIOUS
<1>1. \A c \in Clients : call[c] = Idle
  BY DEF Init
<1>2. Idle.step = "idle" /\ "idle" \notin Before \cup SaveSteps \cup {"acted", "written", "reread", "answered"}
  BY DEF Idle, Before, SaveSteps
<1>3. TypeOK
  BY IdleCall, DefaultAssumption, BoundsAssumption DEF Init, TypeOK, Loaded
<1>4. Unlogged = {}
  BY <1>1, <1>2 DEF Unlogged, At
<1>5. EffectsAccountedFor
  BY <1>1, <1>2, <1>4 DEF EffectsAccountedFor, Audited, Open, Init
<1> QED
  BY <1>1, <1>2, <1>3, <1>5 DEF Orderly, Numbered, Ordered, Init

(* A step of one request that neither takes effect nor is logged.          *)
LEMMA OneCall ==
  ASSUME Orderly, NEW c \in Clients, NEW x \in Call, call' = [call EXCEPT ![c] = x],
         UNCHANGED <<up, stops, settings, writes, trail, effects, lapsed>>,
         view' \in [Forms -> [values: Settings, edited: SUBSET Keys, seen: Nat]],
         sends' \in sends .. MaxSends,
         Ordered(c, x)',
         x.step \in After \/ call[c].step \in After => x.step \in After /\ call[c].step \in After /\ x.id = call[c].id,
         x.step = "answered" /\ x.ok => <<c, x.id>> \in effects
  PROVE Orderly'
<1>1. call'[c] = x /\ \A d \in Clients \ {c} : call'[d] = call[d]
  BY DEF Orderly, TypeOK
<1>2. TypeOK'
  BY DEF Orderly, TypeOK
<1>3. Open' = Open
  <2>1. Unlogged = {d \in Clients : call[d].step \in After} /\ Unlogged' = {d \in Clients : call'[d].step \in After}
    BY DEF Unlogged, At, After
  <2>2. Unlogged' = Unlogged
    BY <1>1, <2>1
  <2>3. \A d \in Unlogged : Request(d)' = Request(d)
    BY <1>1, <2>1 DEF Request
  <2> QED
    BY <2>2, <2>3 DEF Open
<1>4. EffectsAccountedFor'
  <2>1. Audited' = Audited
    BY DEF Audited
  <2>2. \A d \in Clients : call'[d].step = "answered" /\ call'[d].ok => <<d, call'[d].id>> \in effects
    BY <1>1 DEF Orderly, EffectsAccountedFor, Request
  <2> QED
    BY <1>3, <2>1, <2>2 DEF Orderly, EffectsAccountedFor, Request
<1>5. sends \in Nat /\ sends' \in Nat /\ sends <= sends'
  BY BoundsAssumption DEF Orderly, TypeOK
<1>6. \A d \in Clients : Ordered(d, call[d])'
  BY <1>1, <1>5 DEF Orderly, Ordered
<1>7. Numbered'
  BY <1>5 DEF Orderly, Numbered
<1> QED
  BY <1>2, <1>4, <1>6, <1>7 DEF Orderly

LEMMA BrowserOrderly ==
  ASSUME Orderly,
         \/ \E f \in Forms : Load(f)
         \/ \E f \in Forms, values \in Settings : Save(f, values)
         \/ \E l \in Lists, halts \in BOOLEAN : RunAction(l, halts)
         \/ \E c \in Clients, received \in BOOLEAN : Arrive(c, received)
  PROVE Orderly'
<1>0. /\ Forms \subseteq Clients /\ Lists \subseteq Clients
      /\ view \in [Forms -> [values: Settings, edited: SUBSET Keys, seen: Nat]]
      /\ call \in [Clients -> Call] /\ sends \in 0 .. MaxSends
      /\ settings \in Settings /\ writes \in Nat
  BY DEF Clients, Orderly, TypeOK
<1>1. CASE \E f \in Forms : Load(f)
  <2>1. PICK f \in Forms : Load(f)
    BY <1>1
  <2>2. view' \in [Forms -> [values: Settings, edited: SUBSET Keys, seen: Nat]]
    BY <1>0, <2>1 DEF Load, Loaded
  <2> QED
    <3>1. UNCHANGED <<up, stops, settings, writes, trail, call, sends, effects, lapsed>>
      BY <2>1 DEF Load, agentVars
    <3>2. TypeOK'
      BY <2>2, <3>1 DEF Orderly, TypeOK
    <3>3. EffectsAccountedFor'
      <4>1. Audited' = Audited /\ Open' = Open /\ \A d \in Clients : Request(d)' = Request(d)
        BY <3>1 DEF Audited, Open, Unlogged, At, Request
      <4> QED
        BY <3>1, <4>1 DEF Orderly, EffectsAccountedFor
    <3> QED
      BY <3>1, <3>2, <3>3 DEF Orderly, Numbered, Ordered
<1>2. ASSUME NEW c \in Clients, NEW request \in Call, Send(c, request),
             view' \in [Forms -> [values: Settings, edited: SUBSET Keys, seen: Nat]]
      PROVE Orderly'
  <2>1. sends' = sends + 1 /\ sends + 1 \in 1 .. MaxSends /\ call[c].step = "idle"
        /\ UNCHANGED <<up, stops, settings, writes, trail, effects, lapsed>>
    BY <1>0, <1>2, BoundsAssumption DEF Send, agentVars
  <2>2. "sent" \in Steps /\ sends + 1 \in 0 .. MaxSends
    BY <1>0, <2>1, BoundsAssumption DEF Steps
  <2>3. PICK n \in 0 .. MaxSends : n = sends + 1
    BY <2>2
  <2>4. PICK x \in Call : x = [request EXCEPT !.step = "sent", !.id = n] /\ x.step = "sent" /\ x.id = n
    <3> DEFINE x == [request EXCEPT !.step = "sent", !.id = n]
    <3>1. x \in Call
      BY <2>2 DEF Call
    <3>2. x.step = "sent" /\ x.id = n
      BY DEF Call
    <3> QED
      BY <3>1, <3>2
  <2>5. call' = [call EXCEPT ![c] = x]
    BY <1>2, <2>3, <2>4 DEF Send
  <2>6. <<c, n>> \notin effects
    BY <1>0, <2>3, BoundsAssumption DEF Orderly, Numbered
  <2>7. Ordered(c, x)'
    BY <1>0, <2>1, <2>3, <2>4, <2>6 DEF Ordered, SaveSteps
  <2>8. sends' \in sends .. MaxSends
    BY <1>0, <2>1, BoundsAssumption
  <2> QED
    BY <1>2, <2>1, <2>4, <2>5, <2>7, <2>8, OneCall DEF After
<1>3. CASE \E f \in Forms, values \in Settings : Save(f, values)
  <2>1. PICK f \in Forms, values \in Settings : Save(f, values)
    BY <1>3
  <2>2. PICK edited \in SUBSET Keys : edited = view[f].edited \cup {key \in Keys : values[key] # view[f].values[key]}
    BY <1>0
  <2>3. PICK seen \in Nat : seen = view[f].seen
    BY <1>0
  <2>4. [Idle EXCEPT !.items = values, !.edited = edited, !.seen = seen] \in Call
    BY IdleCall DEF Call
  <2>5. Send(f, [Idle EXCEPT !.items = values, !.edited = edited, !.seen = seen])
    BY <2>1, <2>2, <2>3 DEF Save
  <2>6. view' = [view EXCEPT ![f].values = values, ![f].edited = edited]
    BY <2>1, <2>2 DEF Save
  <2>7. view' \in [Forms -> [values: Settings, edited: SUBSET Keys, seen: Nat]]
    BY <1>0, <2>6
  <2> QED
    BY <1>0, <1>2, <2>4, <2>5, <2>7
<1>4. CASE \E l \in Lists, halts \in BOOLEAN : RunAction(l, halts)
  <2>1. PICK l \in Lists, halts \in BOOLEAN : RunAction(l, halts)
    BY <1>4
  <2>2. [Idle EXCEPT !.halts = halts] \in Call
    BY IdleCall DEF Call
  <2> QED
    BY <1>0, <1>2, <2>1, <2>2 DEF RunAction
<1>5. CASE \E c \in Clients, received \in BOOLEAN : Arrive(c, received)
  <2>1. PICK c \in Clients, received \in BOOLEAN : Arrive(c, received)
    BY <1>5
  <2>2. /\ call[c].step = "answered" /\ call' = [call EXCEPT ![c] = Idle]
        /\ UNCHANGED <<up, stops, settings, writes, trail, effects, lapsed, sends>>
    BY <2>1 DEF Arrive, agentVars
  <2>3. view' \in [Forms -> [values: Settings, edited: SUBSET Keys, seen: Nat]]
    <3>1. call[c].after \in Settings /\ call[c].seen \in Nat
      BY <1>0 DEF Call
    <3> QED
      BY <1>0, <2>1, <3>1 DEF Arrive
  <2>4. sends' \in sends .. MaxSends
    BY <1>0, <2>2
  <2>5. PICK x \in Call : x = Idle /\ x.step = "idle"
    BY IdleCall DEF Idle
  <2>6. Ordered(c, x)'
    BY <2>5 DEF Ordered, Before, SaveSteps
  <2>7. call' = [call EXCEPT ![c] = x]
    BY <2>2, <2>5
  <2> QED
    BY <2>2, <2>3, <2>4, <2>5, <2>6, <2>7, OneCall DEF After
<1> QED
  BY <1>1, <1>3, <1>4, <1>5

(* A request is refused, begins to be handled or has nothing to account    *)
(* for.                                                                    *)
LEMMA HandleOrderly ==
  ASSUME Orderly, NEW c \in Clients,
         Admit(c) \/ Refuse(c) \/ GetBefore(c) \/ GetAfter(c) \/ (StatementFails(c) /\ c \notin Unlogged)
  PROVE Orderly'
<1>0. /\ call \in [Clients -> Call] /\ call[c] \in Call /\ sends \in 0 .. MaxSends /\ sends \in sends .. MaxSends
      /\ settings \in Settings /\ writes \in Nat /\ Ordered(c, call[c])
  BY BoundsAssumption DEF Orderly, TypeOK
<1>1. UNCHANGED <<up, stops, settings, writes, trail, effects, lapsed, view, sends>>
  BY DEF Admit, Refuse, GetBefore, GetAfter, StatementFails, agentVars
<1>2. view' \in [Forms -> [values: Settings, edited: SUBSET Keys, seen: Nat]] /\ sends' \in sends .. MaxSends
  BY <1>0, <1>1 DEF Orderly, TypeOK
<1>3. CASE Admit(c) \/ GetBefore(c) \/ GetAfter(c)
  <2>1. PICK x \in Call :
          /\ call' = [call EXCEPT ![c] = x]
          /\ x.id = call[c].id
          /\ \/ x.step = "admitted" /\ call[c].step = "sent"
             \/ x.step = "read" /\ call[c].step = "admitted" /\ c \in Forms
             \/ x.step = "reread" /\ call[c].step = "written"
    <3>1. CASE Admit(c)
      <4> DEFINE x == [call[c] EXCEPT !.step = "admitted"]
      <4>1. x \in Call /\ x.id = call[c].id /\ x.step = "admitted"
        BY <1>0 DEF Call, Steps
      <4> QED
        BY <3>1, <4>1 DEF Admit
    <3>2. CASE GetBefore(c)
      <4> DEFINE x == [call[c] EXCEPT !.step = "read", !.before = settings, !.alone = TRUE]
      <4>1. x \in Call /\ x.id = call[c].id /\ x.step = "read"
        BY <1>0 DEF Call, Steps, SaveSteps
      <4> QED
        BY <3>2, <4>1 DEF GetBefore
    <3>3. CASE GetAfter(c)
      <4> DEFINE x == [call[c] EXCEPT !.step = "reread", !.after = settings, !.seen = writes]
      <4>1. x \in Call /\ x.id = call[c].id /\ x.step = "reread"
        BY <1>0 DEF Call, Steps, SaveSteps
      <4> QED
        BY <3>3, <4>1 DEF GetAfter
    <3> QED
      BY <1>3, <3>1, <3>2, <3>3
  <2>2. Ordered(c, x)'
    BY <1>0, <1>1, <2>1 DEF Ordered, Before, SaveSteps
  <2> QED
    BY <1>1, <1>2, <2>1, <2>2, OneCall DEF After
<1>4. CASE Refuse(c) \/ (StatementFails(c) /\ c \notin Unlogged)
  <2>1. call' = [call EXCEPT ![c] = Answered(call[c], FALSE)]
        /\ call[c].step \in Before
    BY <1>4 DEF Refuse, StatementFails, Answer, Before, Unlogged, At
  <2>2. PICK x \in Call : x = Answered(call[c], FALSE) /\ x.step = "answered" /\ x.id = call[c].id /\ ~x.ok
    BY <1>0, AnsweredCall
  <2>3. Ordered(c, x)'
    BY <1>0, <1>1, <2>1, <2>2 DEF Ordered, Before, SaveSteps
  <2>4. call' = [call EXCEPT ![c] = x]
    BY <2>1, <2>2
  <2> QED
    BY <1>1, <1>2, <2>1, <2>2, <2>3, <2>4, OneCall DEF After, Before
<1> QED
  BY <1>3, <1>4

(* A request takes effect and still has its entry to come.                 *)
LEMMA EffectOrderly ==
  ASSUME Orderly, NEW c \in Clients, Upsert(c) \/ Act(c)
  PROVE Orderly'
<1>0. /\ call \in [Clients -> Call] /\ call[c] \in Call /\ Ordered(c, call[c])
      /\ call[c].items \in Settings /\ call[c].id \in 1 .. MaxSends /\ call[c].step \in Before
      /\ call[c].id \in 1 .. sends
  <2>1. call[c] \in Call /\ Ordered(c, call[c]) /\ sends \in 0 .. MaxSends
    BY DEF Orderly, TypeOK
  <2>2. call[c].step \in Before /\ call[c].step # "idle"
    BY DEF Upsert, Act, Before
  <2>3. call[c].id \in 1 .. sends
    BY <2>1, <2>2 DEF Ordered
  <2>4. call[c].id \in 1 .. MaxSends
    BY <2>1, <2>3, BoundsAssumption
  <2> QED
    BY <2>1, <2>2, <2>3, <2>4 DEF Orderly, TypeOK, Call
<1>1. effects' = effects \cup {Request(c)} /\ UNCHANGED <<up, stops, trail, lapsed, view, sends>>
  BY DEF Upsert, Act
<1>2. /\ call' \in [Clients -> Call]
      /\ \A d \in Clients : call'[d].id = call[d].id /\ call'[d].ok = call[d].ok
      /\ \A d \in Clients \ {c} : call'[d].step = call[d].step
      /\ call'[c].step \in After
      /\ (call'[c].step \in SaveSteps => c \in Forms) /\ (call'[c].step = "acted" => c \in Lists)
  <2>1. CASE Act(c)
    <3>1. call' = [call EXCEPT ![c].step = "acted"] /\ c \in Lists
      BY <2>1 DEF Act
    <3>2. [call[c] EXCEPT !.step = "acted"] \in Call
      BY <1>0 DEF Call, Steps
    <3> QED
      BY <1>0, <3>1, <3>2 DEF Call, After, SaveSteps
  <2>2. CASE Upsert(c)
    <3>1. c \in Forms /\ call[c].step = "read"
      BY <1>0, <2>2 DEF Upsert, Ordered, SaveSteps
    <3>2. \A x \in Call, b \in BOOLEAN : [x EXCEPT !.alone = b] \in Call
      BY DEF Call
    <3>4. \A d \in Clients : call[d] \in Call /\ call[d].alone \in BOOLEAN
      BY <1>0 DEF Call
    <3>5. call' = [d \in Clients |->
                     IF d = c THEN [call[c] EXCEPT !.step = "written", !.alone = @ /\ Saving = {c}]
                     ELSE [call[d] EXCEPT !.alone = @ /\ d \notin Saving]]
      BY <2>2 DEF Upsert
    <3>6. /\ call'[c] = [call[c] EXCEPT !.step = "written", !.alone = @ /\ Saving = {c}]
          /\ \A d \in Clients \ {c} : call'[d] = [call[d] EXCEPT !.alone = @ /\ d \notin Saving]
      BY <3>5
    <3>10. PICK b \in BOOLEAN : call'[c] = [call[c] EXCEPT !.step = "written", !.alone = b]
      <4>1. (call[c].alone /\ Saving = {c}) \in BOOLEAN
        OBVIOUS
      <4> QED
        BY <3>6, <4>1
    <3>11. \A d \in Clients \ {c} : \E g \in BOOLEAN : call'[d] = [call[d] EXCEPT !.alone = g]
      <4>1. \A d \in Clients : (call[d].alone /\ d \notin Saving) \in BOOLEAN
        OBVIOUS
      <4> QED
        BY <3>6, <4>1
    <3>7. \A d \in Clients : call'[d] \in Call
      <4>1. call'[c] \in Call
        <5>1. [call[c] EXCEPT !.step = "written", !.alone = b] \in Call
          BY <1>0 DEF Call, Steps, SaveSteps
        <5> QED
          BY <3>10, <5>1
      <4>2. ASSUME NEW d \in Clients \ {c} PROVE call'[d] \in Call
        <5>1. PICK g \in BOOLEAN : call'[d] = [call[d] EXCEPT !.alone = g]
          BY <3>11
        <5> QED
          BY <3>2, <3>4, <5>1
      <4> QED
        BY <4>1, <4>2
    <3>8. call' \in [Clients -> Call]
      BY <3>5, <3>7
    <3>9. /\ call'[c].step = "written" /\ call'[c].id = call[c].id /\ call'[c].ok = call[c].ok
          /\ \A d \in Clients \ {c} : call'[d].id = call[d].id /\ call'[d].ok = call[d].ok /\ call'[d].step = call[d].step
      <4>1. call'[c].step = "written" /\ call'[c].id = call[c].id /\ call'[c].ok = call[c].ok
        BY <3>4, <3>10 DEF Call
      <4>2. \A d \in Clients \ {c} : call'[d].id = call[d].id /\ call'[d].ok = call[d].ok /\ call'[d].step = call[d].step
        BY <3>4, <3>11 DEF Call
      <4> QED
        BY <4>1, <4>2
    <3> QED
      BY <3>1, <3>8, <3>9 DEF After
  <2> QED
    BY <2>1, <2>2
<1>3. Request(c) \in Requests /\ Request(c) \notin effects
  BY <1>0 DEF Request, Requests, Ordered
<1>4. TypeOK'
  <2>1. settings' \in Settings /\ writes' \in Nat
    <3>1. settings \in Settings /\ writes \in Nat /\ writes + 1 \in Nat
      BY DEF Orderly, TypeOK
    <3> QED
      BY <1>0, <3>1 DEF Upsert, Act
  <2> QED
    BY <1>1, <1>2, <1>3, <2>1 DEF Orderly, TypeOK
<1>5. \A d \in Clients : Request(d)' = Request(d)
  BY <1>2 DEF Request
<1>6. Open' = Open \cup {Request(c)}
  <2>1. Unlogged = {d \in Clients : call[d].step \in After} /\ Unlogged' = {d \in Clients : call'[d].step \in After}
    BY DEF Unlogged, At, After
  <2>2. Unlogged' = Unlogged \cup {c}
    BY <1>2, <2>1
  <2> QED
    BY <1>5, <2>1, <2>2 DEF Open
<1>7. EffectsAccountedFor'
  <2>1. Audited' = Audited
    BY <1>1 DEF Audited
  <2>2. \A d \in Clients : call'[d].step = "answered" /\ call'[d].ok => Request(d) \in effects
    BY <1>2 DEF Orderly, EffectsAccountedFor, After
  <2> QED
    BY <1>1, <1>3, <1>5, <1>6, <2>1, <2>2 DEF Orderly, EffectsAccountedFor
<1>8. \A d \in Clients : Ordered(d, call[d])'
  <2>1. \A d \in Clients \ {c} : <<d, call[d].id>> # Request(c)
    BY DEF Request
  <2> QED
    BY <1>0, <1>1, <1>2, <2>1 DEF Orderly, Ordered, Before, After
<1>9. Numbered'
  BY <1>0, <1>1 DEF Orderly, Numbered, Request
<1> QED
  BY <1>4, <1>7, <1>8, <1>9 DEF Orderly

(* Requests that end with an answer: they are logged, or lapse if they     *)
(* took effect.                                                            *)
LEMMA EndOrderly ==
  ASSUME Orderly, NEW C \in SUBSET Clients, NEW L \in SUBSET C, NEW ok \in BOOLEAN,
         \A c \in C : call[c].step \notin {"idle", "answered", "sent"},
         \A c \in L : call[c].step \in After \/ Request(c) \in effects' \ effects,
         \A c \in C \ L : call[c].step \notin After /\ ~ok,
         call' = [c \in Clients |-> IF c \in C THEN Answered(call[c], ok) ELSE call[c]],
         effects' = effects \cup {Request(c) : c \in L},
         UNCHANGED <<settings, writes, view, sends>>, up' \in BOOLEAN, stops' \in 0 .. MaxStops,
         \/ lapsed' = lapsed \cup {Request(c) : c \in L} /\ UNCHANGED trail
         \/ \E c : C = {c} /\ L = {c} /\ trail' = Append(trail, Entry(c)) /\ UNCHANGED lapsed
  PROVE Orderly'
<1>1. /\ call \in [Clients -> Call] /\ \A c \in Clients : call[c] \in Call /\ Ordered(c, call[c])
      /\ trail \in Seq([request: Requests, before: Settings, after: Settings, alone: BOOLEAN, gaps: SUBSET Requests])
      /\ sends \in 0 .. MaxSends /\ MaxSends \in Nat
  BY BoundsAssumption DEF Orderly, TypeOK
<1>2. /\ call' \in [Clients -> Call]
      /\ \A c \in Clients : call'[c].id = call[c].id
      /\ \A c \in C : call'[c].step = "answered" /\ call'[c].ok = ok
      /\ \A c \in Clients \ C : call'[c] = call[c]
  <2>1. \A c \in C : /\ Answered(call[c], ok) \in Call /\ Answered(call[c], ok).step = "answered"
                     /\ Answered(call[c], ok).id = call[c].id /\ Answered(call[c], ok).ok = ok
    <3> SUFFICES ASSUME NEW c \in C
                 PROVE /\ Answered(call[c], ok) \in Call /\ Answered(call[c], ok).step = "answered"
                       /\ Answered(call[c], ok).id = call[c].id /\ Answered(call[c], ok).ok = ok
      OBVIOUS
    <3>1. PICK x \in Call : x = call[c]
      BY <1>1
    <3>2. /\ Answered(x, ok) \in Call /\ Answered(x, ok).step = "answered"
          /\ Answered(x, ok).id = x.id /\ Answered(x, ok).ok = ok
      BY AnsweredCall
    <3> QED
      BY <3>1, <3>2
  <2>2. \A c \in Clients : call'[c] = IF c \in C THEN Answered(call[c], ok) ELSE call[c]
    OBVIOUS
  <2>3. \A c \in Clients : call'[c] \in Call
    BY <1>1, <2>1, <2>2
  <2>4. call' \in [Clients -> Call]
    BY <2>3
  <2> QED
    BY <2>1, <2>2, <2>4
<1>3. \A c \in Clients : Request(c)' = Request(c)
  BY <1>2 DEF Request
<1>4. \A c \in C : call[c].id \in 1 .. sends /\ Request(c) \in Requests /\ call[c].id \in 1 .. MaxSends
  <2>1. \A c \in C : call[c].id \in 1 .. sends
    BY <1>1 DEF Ordered
  <2>2. \A c \in C : call[c].id \in 1 .. MaxSends
    BY <1>1, <2>1
  <2> QED
    BY <2>1, <2>2 DEF Request, Requests
<1>5. TypeOK'
  <2>1. lapsed' \subseteq Requests /\ effects' \subseteq Requests
    BY <1>4 DEF Orderly, TypeOK
  <2>2. trail' \in Seq([request: Requests, before: Settings, after: Settings, alone: BOOLEAN, gaps: SUBSET Requests])
    <3>1. CASE UNCHANGED trail
      BY <1>1, <3>1
    <3>2. CASE \E c : C = {c} /\ L = {c} /\ trail' = Append(trail, Entry(c)) /\ UNCHANGED lapsed
      <4>1. PICK c \in C : trail' = Append(trail, Entry(c))
        BY <3>2
      <4>2. call[c] \in Call /\ Request(c) \in Requests /\ Saves(lapsed) \in SUBSET Requests
        BY <1>1, <1>4 DEF Orderly, TypeOK, Saves
      <4>3. Entry(c) \in [request: Requests, before: Settings, after: Settings, alone: BOOLEAN, gaps: SUBSET Requests]
        BY <4>2 DEF Entry, Call
      <4> QED
        BY <1>1, <4>1, <4>3
    <3> QED
      BY <3>1, <3>2
  <2> QED
    BY <1>2, <2>1, <2>2 DEF Orderly, TypeOK
<1>6. /\ Open' = Open \ {Request(c) : c \in L}
      /\ {Request(c) : c \in L} \cap (Audited \cup lapsed) = {}
  <2>1. Unlogged = {d \in Clients : call[d].step \in After} /\ Unlogged' = {d \in Clients : call'[d].step \in After}
    BY DEF Unlogged, At, After
  <2>2. Unlogged' = Unlogged \ L
    BY <1>2, <2>1 DEF After
  <2>3. \A c \in L : c \in Unlogged \/ Request(c) \notin effects
    BY <2>1
  <2>4. \A c, d \in Clients : Request(c) = Request(d) => c = d
    BY DEF Request
  <2>5. Open' = Open \ {Request(c) : c \in L}
    BY <1>3, <2>1, <2>2, <2>4 DEF Open
  <2> QED
    <3>1. ASSUME NEW c \in L PROVE Request(c) \notin Audited \cup lapsed
      <4>1. c \in Unlogged => Request(c) \in Open
        BY DEF Open
      <4>2. Open \cap (Audited \cup lapsed) = {} /\ Audited \cup lapsed \subseteq effects
        BY DEF Orderly, EffectsAccountedFor
      <4> QED
        BY <2>3, <4>1, <4>2
    <3> QED
      BY <2>5, <3>1
<1>7. Audited' \cup lapsed' = Audited \cup lapsed \cup {Request(c) : c \in L} /\ Audited' \cap lapsed' = {}
      /\ \A i, j \in 1 .. Len(trail') : trail'[i].request = trail'[j].request => i = j
  <2>1. CASE lapsed' = lapsed \cup {Request(c) : c \in L} /\ UNCHANGED trail
    <3>1. Audited' = Audited
      BY <2>1 DEF Audited
    <3> QED
      BY <1>6, <2>1, <3>1 DEF Orderly, EffectsAccountedFor
  <2>2. CASE \E c : C = {c} /\ L = {c} /\ trail' = Append(trail, Entry(c)) /\ UNCHANGED lapsed
    <3>1. PICK c \in C : L = {c} /\ trail' = Append(trail, Entry(c)) /\ UNCHANGED lapsed
      BY <2>2
    <3>2. Len(trail') = Len(trail) + 1 /\ trail'[Len(trail) + 1] = Entry(c) /\ \A i \in 1 .. Len(trail) : trail'[i] = trail[i]
      BY <1>1, <3>1
    <3>3. Entry(c).request = Request(c)
      BY DEF Entry
    <3>4. Len(trail) \in Nat
      BY <1>1
    <3>5. Audited' = Audited \cup {Request(c)}
      BY <3>2, <3>3, <3>4 DEF Audited
    <3>6. \A i \in 1 .. Len(trail) : trail[i].request # Request(c)
      BY <1>6, <3>1 DEF Audited
    <3>7. \A i, j \in 1 .. Len(trail') : trail'[i].request = trail'[j].request => i = j
      BY <3>2, <3>3, <3>4, <3>6 DEF Orderly, EffectsAccountedFor
    <3> QED
      BY <1>6, <3>1, <3>5, <3>7 DEF Orderly, EffectsAccountedFor
  <2> QED
    BY <2>1, <2>2
<1>8. EffectsAccountedFor'
  <2>1. \A c \in Clients : call'[c].step = "answered" /\ call'[c].ok => Request(c) \in effects'
    BY <1>2 DEF Orderly, EffectsAccountedFor
  <2> QED
    BY <1>3, <1>6, <1>7, <2>1 DEF Orderly, EffectsAccountedFor
<1>9. Numbered'
  BY <1>1, <1>4 DEF Orderly, Numbered, Request
<1>10. \A c \in Clients : Ordered(c, call[c])'
  <2>1. \A c \in Clients \ C, d \in L : <<c, call[c].id>> # Request(d)
    BY DEF Request
  <2>2. \A c \in Clients \ C : <<c, call[c].id>> \in effects' => <<c, call[c].id>> \in effects
    BY <2>1
  <2> QED
    BY <1>1, <1>2, <1>4, <2>2 DEF Ordered, Before, SaveSteps
<1> QED
  BY <1>5, <1>8, <1>9, <1>10 DEF Orderly

LEMMA AnswerOrderly ==
  ASSUME Orderly, NEW c \in Clients,
         Log(c) \/ LogFails(c) \/ (StatementFails(c) /\ c \in Unlogged) \/ \E partly \in BOOLEAN : ActFails(c, partly)
  PROVE Orderly'
<1>0. call \in [Clients -> Call] /\ up \in BOOLEAN /\ stops \in 0 .. MaxStops
  BY DEF Orderly, TypeOK
<1>1. /\ UNCHANGED <<settings, writes, view, sends, up, stops>>
      /\ up' \in BOOLEAN /\ stops' \in 0 .. MaxStops
  BY <1>0 DEF Log, LogFails, StatementFails, ActFails
<1>2. \A ok \in BOOLEAN : Answer(c, ok) => call' = [d \in Clients |-> IF d \in {c} THEN Answered(call[d], ok) ELSE call[d]]
  BY <1>0 DEF Answer
<1>3. CASE Log(c) \/ LogFails(c)
  <2>1. /\ Answer(c, TRUE) /\ call[c].step \in After
        /\ effects' = effects /\ call[c].step \notin {"idle", "answered", "sent"}
        /\ \/ lapsed' = lapsed \cup {Request(c)} /\ UNCHANGED trail
           \/ trail' = Append(trail, Entry(c)) /\ UNCHANGED lapsed
    BY <1>3 DEF Log, LogFails, After
  <2>2. Request(c) \in effects
    BY <2>1 DEF Orderly, EffectsAccountedFor, Open, Unlogged, At, After
  <2>3. effects' = effects \cup {Request(d) : d \in {c}}
    BY <2>1, <2>2
  <2>4. \/ lapsed' = lapsed \cup {Request(d) : d \in {c}} /\ UNCHANGED trail
        \/ \E d : {c} = {d} /\ {c} = {d} /\ trail' = Append(trail, Entry(d)) /\ UNCHANGED lapsed
    BY <2>1
  <2>5. {c} \in SUBSET Clients /\ {c} \in SUBSET {c} /\ TRUE \in BOOLEAN
    OBVIOUS
  <2> QED
    BY <1>1, <1>2, <2>1, <2>3, <2>4, <2>5, EndOrderly
<1>4. CASE StatementFails(c) /\ c \in Unlogged
  <2>1. /\ Answer(c, FALSE) /\ call[c].step \in After
        /\ effects' = effects /\ call[c].step \notin {"idle", "answered", "sent"}
        /\ lapsed' = lapsed \cup {Request(c)} /\ UNCHANGED trail
    BY <1>4 DEF StatementFails, After, Unlogged, At
  <2>2. Request(c) \in effects
    BY <2>1 DEF Orderly, EffectsAccountedFor, Open, Unlogged, At, After
  <2>3. effects' = effects \cup {Request(d) : d \in {c}} /\ lapsed' = lapsed \cup {Request(d) : d \in {c}}
    BY <2>1, <2>2
  <2>4. {c} \in SUBSET Clients /\ {c} \in SUBSET {c} /\ FALSE \in BOOLEAN
    OBVIOUS
  <2> QED
    BY <1>1, <1>2, <2>1, <2>3, <2>4, EndOrderly
<1>5. CASE \E partly \in BOOLEAN : ActFails(c, partly)
  <2>1. PICK L \in SUBSET {c} :
          /\ effects' = effects \cup {Request(d) : d \in L} /\ lapsed' = lapsed \cup {Request(d) : d \in L}
    <3>1. PICK partly \in BOOLEAN : ActFails(c, partly)
      BY <1>5
    <3>2. CASE partly
      <4>1. effects' = effects \cup {Request(d) : d \in {c}} /\ lapsed' = lapsed \cup {Request(d) : d \in {c}}
        BY <3>1, <3>2 DEF ActFails
      <4> QED
        BY <4>1
    <3>3. CASE ~partly
      <4>1. effects' = effects \cup {Request(d) : d \in {}} /\ lapsed' = lapsed \cup {Request(d) : d \in {}}
        BY <3>1, <3>3 DEF ActFails
      <4> QED
        BY <4>1
    <3> QED
      BY <3>2, <3>3
  <2>2. Answer(c, FALSE) /\ call[c].step = "admitted" /\ UNCHANGED trail
    BY <1>5 DEF ActFails
  <2>3. Request(c) \notin effects
    BY <2>2 DEF Orderly, Ordered, Before, Request
  <2>4. \A d \in L : Request(d) \in effects' \ effects
    BY <2>1, <2>3
  <2>5. {c} \in SUBSET Clients /\ FALSE \in BOOLEAN
    OBVIOUS
  <2> QED
    BY <1>1, <1>2, <2>1, <2>2, <2>4, <2>5, EndOrderly DEF After
<1> QED
  BY <1>3, <1>4, <1>5

LEMMA HaltOrderly ==
  ASSUME Orderly, NEW own \in SUBSET Lists, Halt(own), \A l \in own : call[l].step = "admitted"
  PROVE Orderly'
<1>1. PICK C \in SUBSET Clients : C = Saving \cup Unlogged \cup own
  BY DEF Saving, Unlogged, At, Clients
<1>2. PICK L \in SUBSET C : L = Unlogged \cup own
  BY <1>1
<1>3. /\ Unlogged = {c \in Clients : call[c].step \in After}
      /\ Saving = {c \in Clients : call[c].step \in SaveSteps}
      /\ own \subseteq Clients
  BY DEF Unlogged, At, After, Saving, Clients
<1>4. \A c \in C : call[c].step \notin {"idle", "answered", "sent"}
  BY <1>1, <1>3 DEF After, SaveSteps
<1>5. effects' = effects \cup {Request(c) : c \in L} /\ lapsed' = lapsed \cup {Request(c) : c \in L}
  <2>1. {Request(c) : c \in Unlogged} \subseteq effects
    BY DEF Orderly, EffectsAccountedFor, Open
  <2>2. effects' = effects \cup {Request(l) : l \in own} /\ lapsed' = lapsed \cup {Request(c) : c \in L}
    BY <1>2 DEF Halt
  <2> QED
    BY <1>2, <2>1, <2>2
<1>6. \A c \in L : call[c].step \in After \/ Request(c) \in effects' \ effects
  <2>1. \A c \in own : Request(c) \notin effects
    BY <1>3 DEF Orderly, Ordered, Before, Request
  <2> QED
    BY <1>2, <1>3, <1>5, <2>1
<1>7. \A c \in C \ L : call[c].step \notin After
  BY <1>1, <1>2, <1>3
<1>8. /\ call' = [c \in Clients |-> IF c \in C THEN Answered(call[c], FALSE) ELSE call[c]]
      /\ UNCHANGED <<settings, writes, trail, view, sends>>
      /\ up' \in BOOLEAN
  BY <1>1 DEF Halt
<1>9. stops' \in 0 .. MaxStops
  BY BoundsAssumption DEF Halt, Orderly, TypeOK
<1> QED
  BY <1>4, <1>5, <1>6, <1>7, <1>8, <1>9, EndOrderly

LEMMA NextOrderly == Orderly /\ [Next]_vars => Orderly'
<1> SUFFICES ASSUME Orderly, [Next]_vars PROVE Orderly'
  OBVIOUS
<1>1. CASE UNCHANGED vars \/ StartAgent
  <2>1. UNCHANGED <<stops, settings, writes, trail, view, call, sends, effects, lapsed>> /\ up' \in BOOLEAN
    BY <1>1 DEF vars, agentVars, StartAgent, Orderly, TypeOK
  <2>2. TypeOK'
    BY <2>1 DEF Orderly, TypeOK
  <2>3. Audited' = Audited /\ Open' = Open /\ \A d \in Clients : Request(d)' = Request(d)
    BY <2>1 DEF Audited, Open, Unlogged, At, Request
  <2>4. EffectsAccountedFor'
    BY <2>1, <2>3 DEF Orderly, EffectsAccountedFor
  <2> QED
    BY <2>1, <2>2, <2>4 DEF Orderly, Numbered, Ordered
<1>2. CASE \/ \E f \in Forms : Load(f)
           \/ \E f \in Forms, values \in Settings : Save(f, values)
           \/ \E l \in Lists, halts \in BOOLEAN : RunAction(l, halts)
  BY <1>2, BrowserOrderly
<1>3. CASE \E c \in Clients : Handle(c)
  BY <1>3, BrowserOrderly, HandleOrderly, EffectOrderly, AnswerOrderly DEF Handle
<1>4. CASE StopAgent \/ \E l \in Lists : ActOnSelf(l)
  <2>1. CASE StopAgent
    <3>1. {} \in SUBSET Lists /\ Halt({}) /\ \A l \in {} : call[l].step = "admitted"
      BY <2>1 DEF StopAgent
    <3> QED
      BY <3>1, HaltOrderly
  <2>2. CASE \E l \in Lists : ActOnSelf(l)
    <3>1. PICK l \in Lists : call[l].step = "admitted" /\ Halt({l})
      BY <2>2 DEF ActOnSelf
    <3>2. {l} \in SUBSET Lists /\ \A d \in {l} : call[d].step = "admitted"
      BY <3>1
    <3> QED
      BY <3>1, <3>2, HaltOrderly
  <2> QED
    BY <1>4, <2>1, <2>2
<1> QED
  BY <1>1, <1>2, <1>3, <1>4 DEF Next

THEOREM OrderlyInvariant == Spec => []Orderly
BY InitOrderly, NextOrderly, PTL DEF Spec

(* Every variable has its type.                                            *)
THEOREM TypeCorrect == Spec => []TypeOK
<1>1. Orderly => TypeOK
  BY DEF Orderly
<1> QED
  BY <1>1, OrderlyInvariant, PTL

(* What took effect has one entry, has it still to come, or lost it to a   *)
(* failure after the effect, whatever stops and fails in between.          *)
THEOREM EffectsAccountedForHolds == Spec => []EffectsAccountedFor
<1>1. Orderly => EffectsAccountedFor
  BY DEF Orderly
<1> QED
  BY <1>1, OrderlyInvariant, PTL

-----------------------------------------------------------------------------
(* What a form was given is what is in force, but for what was edited,     *)
(* unless somebody has saved since.                                        *)
Current(seen, edited, values) ==
  /\ seen \in Nat /\ seen <= writes
  /\ seen = writes => \A key \in Keys \ edited : values[key] = settings[key]

FreshView(x) == Current(x.seen, x.edited, x.values)
FreshCall(x) ==
  /\ x.step \in Before => Current(x.seen, x.edited, x.items)
  /\ x.step = "reread" \/ (x.step = "answered" /\ x.ok) => Current(x.seen, {}, x.after)

Fresh == \A f \in Forms : FreshView(view[f]) /\ FreshCall(call[f])

Alike(x, y) ==
  x.step = y.step /\ x.ok = y.ok /\ x.items = y.items /\ x.edited = y.edited /\ x.seen = y.seen /\ x.after = y.after

(* A write makes everything older: it can only be stale, not wrong.        *)
LEMMA FreshStays ==
  ASSUME writes \in Nat, UNCHANGED <<settings, writes>> \/ writes' = writes + 1, Fresh,
         \A f \in Forms : view'[f] = view[f] \/ FreshView(view[f])',
         \A f \in Forms : Alike(call'[f], call[f]) \/ FreshCall(call[f])'
  PROVE Fresh'
<1> SUFFICES ASSUME NEW f \in Forms PROVE FreshView(view[f])' /\ FreshCall(call[f])'
  BY DEF Fresh
<1>1. FreshView(view[f])'
  <2>1. CASE view'[f] = view[f]
    <3>1. Current(view[f].seen, view[f].edited, view[f].values)
      BY DEF Fresh, FreshView
    <3> DEFINE seen == view[f].seen
               edited == view[f].edited
               values == view[f].values
    <3>2. seen \in Nat /\ seen <= writes /\ (seen = writes => \A key \in Keys \ edited : values[key] = settings[key])
      BY <3>1 DEF Current
    <3>3. view'[f].seen = seen /\ view'[f].edited = edited /\ view'[f].values = values
      BY <2>1
    <3> HIDE DEF seen, edited, values
    <3> QED
      BY <3>2, <3>3 DEF FreshView, Current
  <2> QED
    BY <2>1
<1>2. FreshCall(call[f])'
  <2>1. CASE Alike(call'[f], call[f])
    <3>1. FreshCall(call[f])
      BY DEF Fresh
    <3> DEFINE x == call[f]
    <3>2. /\ x.step \in Before => x.seen \in Nat /\ x.seen <= writes /\ (x.seen = writes => \A key \in Keys \ x.edited : x.items[key] = settings[key])
          /\ x.step = "reread" \/ (x.step = "answered" /\ x.ok) =>
               x.seen \in Nat /\ x.seen <= writes /\ (x.seen = writes => \A key \in Keys \ {} : x.after[key] = settings[key])
      BY <3>1 DEF FreshCall, Current
    <3>3. /\ call'[f].step = x.step /\ call'[f].ok = x.ok /\ call'[f].items = x.items
          /\ call'[f].edited = x.edited /\ call'[f].seen = x.seen /\ call'[f].after = x.after
      BY <2>1 DEF Alike
    <3> HIDE DEF x
    <3> QED
      BY <3>2, <3>3 DEF FreshCall, Current
  <2> QED
    BY <2>1
<1> QED
  BY <1>1, <1>2

LEMMA InitFresh == Init => Fresh
<1> SUFFICES ASSUME Init, NEW f \in Forms PROVE FreshView(view[f]) /\ FreshCall(call[f])
  BY DEF Fresh
<1>1. view[f] = Loaded /\ writes = 0 /\ call[f] = Idle
  BY DEF Init, Clients
<1>2. FreshView(view[f])
  BY <1>1 DEF FreshView, Current, Loaded
<1>3. FreshCall(call[f])
  BY <1>1 DEF FreshCall, Idle, Before
<1> QED
  BY <1>2, <1>3

LEMMA BrowserFresh ==
  ASSUME Orderly, Fresh,
         \/ \E f \in Forms : Load(f)
         \/ \E f \in Forms, values \in Settings : Save(f, values)
         \/ \E l \in Lists, halts \in BOOLEAN : RunAction(l, halts)
         \/ \E c \in Clients, received \in BOOLEAN : Arrive(c, received)
  PROVE Fresh'
<1>0. /\ writes \in Nat /\ Forms \subseteq Clients /\ Forms \cap Lists = {}
      /\ view \in [Forms -> [values: Settings, edited: SUBSET Keys, seen: Nat]]
      /\ call \in [Clients -> Call]
      /\ UNCHANGED <<settings, writes>>
  BY ClientsAssumption DEF Orderly, TypeOK, Clients, Load, Save, RunAction, Send, Arrive, agentVars
<1>1. CASE \E f \in Forms : Load(f)
  <2>1. PICK f \in Forms : Load(f)
    BY <1>1
  <2>2. view' = [view EXCEPT ![f] = Loaded] /\ call' = call
    BY <2>1 DEF Load
  <2>3. FreshView(Loaded)'
    BY <1>0 DEF FreshView, Current, Loaded
  <2>4. \A g \in Forms : view'[g] = view[g] \/ FreshView(view[g])'
    BY <1>0, <2>2, <2>3 DEF FreshView, Current, Loaded
  <2>5. \A g \in Forms : Alike(call'[g], call[g])
    BY <2>2 DEF Alike
  <2> QED
    BY <1>0, <2>4, <2>5, FreshStays
<1>2. CASE \E f \in Forms, values \in Settings : Save(f, values)
  <2>1. PICK f \in Forms, values \in Settings : Save(f, values)
    BY <1>2
  <2> DEFINE edited == view[f].edited \cup {key \in Keys : values[key] # view[f].values[key]}
             request == [Idle EXCEPT !.items = values, !.edited = edited, !.seen = view[f].seen]
             sent == [request EXCEPT !.step = "sent", !.id = sends + 1]
  <2>2. call' = [call EXCEPT ![f] = sent] /\ view' = [view EXCEPT ![f].values = values, ![f].edited = edited]
    BY <2>1 DEF Save, Send
  <2>3. Current(view[f].seen, edited, values)
    BY DEF Fresh, FreshView, Current
  <2>4. view'[f].seen = view[f].seen /\ view'[f].edited = edited /\ view'[f].values = values
    BY <1>0, <2>2
  <2>5. sent.step = "sent" /\ sent.seen = view[f].seen /\ sent.edited = edited /\ sent.items = values
    BY DEF Idle
  <2>6. call'[f] = sent
    BY <1>0, <2>2
  <2> HIDE DEF sent, edited
  <2>7. FreshView(view[f])'
    BY <1>0, <2>3, <2>4 DEF FreshView, Current
  <2>8. FreshCall(call[f])'
    BY <1>0, <2>3, <2>5, <2>6 DEF FreshCall, Current, Before
  <2>9. \A g \in Forms \ {f} : view'[g] = view[g] /\ Alike(call'[g], call[g])
    BY <1>0, <2>2 DEF Alike
  <2> QED
    BY <1>0, <2>7, <2>8, <2>9, FreshStays
<1>3. CASE \E l \in Lists, halts \in BOOLEAN : RunAction(l, halts)
  <2>1. \A g \in Forms : view'[g] = view[g] /\ Alike(call'[g], call[g])
    BY <1>0, <1>3 DEF RunAction, Send, Alike
  <2> QED
    BY <1>0, <2>1, FreshStays
<1>4. CASE \E c \in Clients, received \in BOOLEAN : Arrive(c, received)
  <2>1. PICK c \in Clients, received \in BOOLEAN : Arrive(c, received)
    BY <1>4
  <2>2. call' = [call EXCEPT ![c] = Idle] /\ call[c].step = "answered"
    BY <2>1 DEF Arrive
  <2>3. FreshCall(Idle)'
    BY DEF FreshCall, Idle, Before
  <2>4. \A g \in Forms : Alike(call'[g], call[g]) \/ FreshCall(call[g])'
    BY <1>0, <2>2 DEF Alike, FreshCall, Idle, Before
  <2>5. ASSUME NEW g \in Forms PROVE view'[g] = view[g] \/ FreshView(view[g])'
    <3>1. CASE g = c /\ call[c].ok /\ received
      <4>1. view'[g] = [values |-> call[c].after, edited |-> {}, seen |-> call[c].seen]
        BY <2>1, <3>1 DEF Arrive
      <4>2. Current(call[c].seen, {}, call[c].after)
        BY <2>2, <3>1 DEF Fresh, FreshCall
      <4> QED
        BY <1>0, <4>1, <4>2 DEF FreshView, Current
    <3>2. CASE ~(g = c /\ call[c].ok /\ received)
      BY <2>1, <3>2 DEF Arrive
    <3> QED
      BY <3>1, <3>2
  <2> QED
    BY <1>0, <2>4, <2>5, FreshStays
<1> QED
  BY <1>1, <1>2, <1>3, <1>4

(* A request is answered without success, and nothing was written.         *)
LEMMA RefusalFresh ==
  ASSUME Orderly, Fresh, UNCHANGED <<settings, writes, view>>,
         NEW cut \in SUBSET Clients,
         call' = [c \in Clients |-> IF c \in cut THEN Answered(call[c], FALSE) ELSE call[c]]
  PROVE Fresh'
<1>1. writes \in Nat /\ Forms \subseteq Clients /\ call \in [Clients -> Call]
  BY DEF Orderly, TypeOK, Clients
<1>2. ASSUME NEW f \in Forms PROVE Alike(call'[f], call[f]) \/ FreshCall(call[f])'
  <2>1. CASE f \in cut
    <3>1. call'[f] = Answered(call[f], FALSE) /\ call[f] \in Call
      BY <1>1, <2>1
    <3>2. Answered(call[f], FALSE).step = "answered" /\ Answered(call[f], FALSE).ok = FALSE
      BY <3>1, AnsweredCall
    <3> QED
      BY <3>1, <3>2 DEF FreshCall, Before
  <2>2. CASE f \notin cut
    BY <1>1, <2>2 DEF Alike
  <2> QED
    BY <2>1, <2>2
<1> QED
  BY <1>1, <1>2, FreshStays

LEMMA HandlerFresh ==
  ASSUME Orderly, Fresh, NEW c \in Clients,
         \/ Admit(c) \/ Refuse(c) \/ GetBefore(c) \/ Upsert(c) \/ GetAfter(c) \/ StatementFails(c)
         \/ Act(c) \/ \E partly \in BOOLEAN : ActFails(c, partly)
         \/ Log(c) \/ LogFails(c)
  PROVE Fresh'
<1>0. /\ writes \in Nat /\ Forms \subseteq Clients /\ Forms \cap Lists = {} /\ Lists \subseteq Clients
      /\ call \in [Clients -> Call]
      /\ view' = view
  BY ClientsAssumption
     DEF Orderly, TypeOK, Clients, Admit, Refuse, GetBefore, Upsert, GetAfter, StatementFails, Act, ActFails, Log, LogFails
<1>1. \A f \in Forms : view'[f] = view[f]
  BY <1>0
<1>2. CASE Admit(c) \/ GetBefore(c)
  <2>1. UNCHANGED <<settings, writes>>
    BY <1>2 DEF Admit, GetBefore, agentVars
  <2>2. call[c].step \in Before
    BY <1>2 DEF Admit, GetBefore, Before
  <2>3. /\ call'[c].step \in Before /\ call'[c].seen = call[c].seen
        /\ call'[c].edited = call[c].edited /\ call'[c].items = call[c].items
    BY <1>0, <1>2 DEF Admit, GetBefore, Before, Call
  <2>4. \A f \in Forms \ {c} : call'[f] = call[f]
    BY <1>0, <1>2 DEF Admit, GetBefore
  <2>5. c \in Forms => FreshCall(call[c])'
    <3>1. c \in Forms => Current(call[c].seen, call[c].edited, call[c].items)
      BY <2>2 DEF Fresh, FreshCall
    <3>2. call'[c].step \notin {"reread", "answered"}
      BY <2>3 DEF Before
    <3> QED
      BY <2>1, <2>3, <3>1, <3>2 DEF FreshCall, Current
  <2> QED
    BY <1>0, <1>1, <2>1, <2>4, <2>5, FreshStays DEF Alike
<1>3. CASE Upsert(c)
  <2>1. writes' = writes + 1
    BY <1>3 DEF Upsert
  <2>2. call' = [d \in Clients |->
                  IF d = c THEN [call[c] EXCEPT !.step = "written", !.alone = @ /\ Saving = {c}]
                  ELSE [call[d] EXCEPT !.alone = @ /\ d \notin Saving]]
    BY <1>3 DEF Upsert
  <2>3. \A f \in Forms \ {c} : Alike(call'[f], call[f])
    <3> SUFFICES ASSUME NEW f \in Forms \ {c} PROVE Alike(call'[f], call[f])
      OBVIOUS
    <3>1. call'[f] = [call[f] EXCEPT !.alone = @ /\ f \notin Saving] /\ call[f] \in Call
      BY <1>0, <2>2
    <3> QED
      BY <3>1 DEF Alike, Call
  <2>4. FreshCall(call[c])'
    <3>1. call'[c] = [call[c] EXCEPT !.step = "written", !.alone = @ /\ Saving = {c}] /\ call[c] \in Call
      BY <1>0, <2>2
    <3>2. call'[c].step = "written"
      BY <3>1 DEF Call
    <3> QED
      BY <3>2 DEF FreshCall, Before
  <2> QED
    BY <1>0, <1>1, <2>1, <2>3, <2>4, FreshStays
<1>4. CASE GetAfter(c)
  <2>1. UNCHANGED <<settings, writes>>
    BY <1>4 DEF GetAfter, agentVars
  <2>2. call'[c].step = "reread" /\ call'[c].after = settings /\ call'[c].seen = writes
    BY <1>0, <1>4 DEF GetAfter, Call
  <2>3. \A f \in Forms \ {c} : call'[f] = call[f]
    BY <1>0, <1>4 DEF GetAfter
  <2>4. FreshCall(call[c])'
    BY <1>0, <2>1, <2>2 DEF FreshCall, Before, Current
  <2> QED
    BY <1>0, <1>1, <2>1, <2>3, <2>4, FreshStays DEF Alike
<1>5. CASE Refuse(c) \/ StatementFails(c) \/ \E partly \in BOOLEAN : ActFails(c, partly)
  <2>1. UNCHANGED <<settings, writes, view>>
    BY <1>5 DEF Refuse, StatementFails, ActFails, agentVars
  <2>2. call' = [call EXCEPT ![c] = Answered(call[c], FALSE)]
    BY <1>5 DEF Refuse, StatementFails, ActFails, Answer
  <2>3. call' = [d \in Clients |-> IF d \in {c} THEN Answered(call[d], FALSE) ELSE call[d]]
    BY <1>0, <2>2
  <2> QED
    BY <2>1, <2>3, RefusalFresh
<1>6. CASE Act(c)
  <2>1. UNCHANGED <<settings, writes>> /\ \A f \in Forms : call'[f] = call[f]
    BY <1>0, <1>6 DEF Act
  <2> QED
    BY <1>0, <1>1, <2>1, FreshStays DEF Alike
<1>7. CASE Log(c) \/ LogFails(c)
  <2>1. UNCHANGED <<settings, writes>> /\ call' = [call EXCEPT ![c] = Answered(call[c], TRUE)]
    BY <1>7 DEF Log, LogFails, Answer
  <2>2. \A f \in Forms \ {c} : call'[f] = call[f]
    BY <1>0, <2>1
  <2>3. c \in Forms => FreshCall(call[c])'
    <3> SUFFICES ASSUME c \in Forms PROVE FreshCall(call[c])'
      OBVIOUS
    <3>1. call[c].step = "reread"
      BY <1>7 DEF Log, LogFails
    <3>2. Current(call[c].seen, {}, call[c].after)
      BY <3>1 DEF Fresh, FreshCall
    <3>3. call'[c] = Answered(call[c], TRUE) /\ call[c] \in Call
      BY <1>0, <2>1
    <3>4. call'[c].step = "answered" /\ call'[c].after = call[c].after /\ call'[c].seen = call[c].seen
      BY <3>3, AnsweredCall
    <3> QED
      BY <2>1, <3>2, <3>4 DEF FreshCall, Before, Current
  <2> QED
    BY <1>0, <1>1, <2>1, <2>2, <2>3, FreshStays DEF Alike
<1> QED
  BY <1>2, <1>3, <1>4, <1>5, <1>6, <1>7

LEMMA NextFresh == Orderly /\ Fresh /\ [Next]_vars => Fresh'
<1> SUFFICES ASSUME Orderly, Fresh, [Next]_vars PROVE Fresh'
  OBVIOUS
<1>1. CASE UNCHANGED vars
  <2>1. UNCHANGED <<settings, writes, view, call>> /\ writes \in Nat
    BY <1>1 DEF vars, agentVars, Orderly, TypeOK
  <2> QED
    BY <2>1, FreshStays DEF Alike
<1>2. CASE \E own : Halt(own)
  <2>1. PICK own : Halt(own)
    BY <1>2
  <2> DEFINE cut == {c \in Clients : c \in Saving \cup Unlogged \cup own}
  <2>2. call' = [c \in Clients |-> IF c \in cut THEN Answered(call[c], FALSE) ELSE call[c]]
    BY <2>1 DEF Halt
  <2> QED
    BY <2>1, <2>2, RefusalFresh DEF Halt
<1>3. CASE StartAgent
  <2>1. UNCHANGED <<settings, writes, view, call>> /\ writes \in Nat
    BY <1>3 DEF StartAgent, agentVars, Orderly, TypeOK
  <2> QED
    BY <2>1, FreshStays DEF Alike
<1>4. CASE \E c \in Clients : Handle(c)
  BY <1>4, HandlerFresh, BrowserFresh DEF Handle
<1> QED
  BY <1>1, <1>2, <1>3, <1>4, BrowserFresh DEF Next, StopAgent, ActOnSelf

(* A save changes what nobody edited in its form only if somebody has      *)
(* saved since the form read the settings.                                 *)
THEOREM OverwritesAreOfStaleFormsHolds == Spec => OverwritesAreOfStaleForms
<1>1. ASSUME Orderly, Fresh, NEW f \in Forms, Upsert(f), NEW key \in Keys \ call[f].edited, settings'[key] # settings[key]
      PROVE call[f].seen < writes
  <2>1. call[f].step = "read" /\ settings' = call[f].items
    BY <1>1 DEF Upsert
  <2>2. Current(call[f].seen, call[f].edited, call[f].items)
    BY <1>1, <2>1 DEF Fresh, FreshCall, Before
  <2>3. call[f].seen # writes
    BY <1>1, <2>1, <2>2 DEF Current
  <2> QED
    BY <1>1, <2>2, <2>3 DEF Current, Orderly, TypeOK
<1>2. Orderly /\ Fresh => [\A f \in Forms : Upsert(f) => \A key \in Keys \ call[f].edited :
                             settings'[key] # settings[key] => call[f].seen < writes]_vars
  BY <1>1
<1>3. Spec => [](Orderly /\ Fresh)
  <2>1. Init => Orderly /\ Fresh
    BY InitOrderly, InitFresh
  <2>2. Orderly /\ Fresh /\ [Next]_vars => (Orderly /\ Fresh)'
    BY NextOrderly, NextFresh
  <2> QED
    BY <2>1, <2>2, PTL DEF Spec
<1> QED
  BY <1>2, <1>3, PTL DEF OverwritesAreOfStaleForms

-----------------------------------------------------------------------------
(* Replaying the trail t.                                                  *)
Saved(t, i) == t[i].request[1] \in Forms
SaysOf(t, n, missing, value) ==
  \/ \E i \in 1 .. n :
       /\ Saved(t, i) /\ \A j \in i + 1 .. n : ~Saved(t, j)
       /\ t[i].alone /\ t[i].gaps = missing /\ t[i].after = value
  \/ (\A i \in 1 .. n : ~Saved(t, i)) /\ missing = {} /\ value = Default

(* An entry says what was in force before it, if the entries before it say *)
(* anything.                                                               *)
BeginsWhereOthersEnd(t) ==
  \A i \in 1 .. Len(t) : \A value \in Settings :
    Saved(t, i) /\ t[i].alone /\ SaysOf(t, i - 1, t[i].gaps, value) => t[i].before = value

Pending == {f \in Forms : call[f].step \in {"written", "reread"}}
Claims(value) == SaysOf(trail, Len(trail), Saves(lapsed), value)

(* While a save waits for its entry it knows what the trail says and what  *)
(* is in force; otherwise they are the same.                               *)
Replays ==
  /\ \A i \in 1 .. Len(trail) : trail[i].gaps \subseteq Saves(lapsed)
  /\ BeginsWhereOthersEnd(trail)
  /\ \A f \in Forms : call[f].step = "read" /\ call[f].alone => call[f].before = settings
  /\ \A f \in Pending : call[f].alone =>
       /\ Pending = {f}
       /\ call[f].step = "reread" => call[f].after = settings
       /\ \A value \in Settings : Claims(value) => call[f].before = value
  /\ Pending = {} => \A value \in Settings : Claims(value) => settings = value

Claimed(x, missing, value) == x.alone /\ x.gaps = missing /\ x.after = value

LEMMA SaysAppend ==
  ASSUME NEW t, NEW u, NEW m \in Nat, \A i \in 1 .. m : u[i] = t[i]
  PROVE \A missing, value :
        /\ \A n \in 0 .. m : SaysOf(u, n, missing, value) <=> SaysOf(t, n, missing, value)
        /\ Saved(u, m + 1) /\ SaysOf(u, m + 1, missing, value) => Claimed(u[m + 1], missing, value)
        /\ ~Saved(u, m + 1) => (SaysOf(u, m + 1, missing, value) <=> SaysOf(t, m, missing, value))
<1> SUFFICES ASSUME NEW missing, NEW value
             PROVE /\ \A n \in 0 .. m : SaysOf(u, n, missing, value) <=> SaysOf(t, n, missing, value)
                   /\ Saved(u, m + 1) /\ SaysOf(u, m + 1, missing, value) =>
                        Claimed(u[m + 1], missing, value)
                   /\ ~Saved(u, m + 1) => (SaysOf(u, m + 1, missing, value) <=> SaysOf(t, m, missing, value))
  OBVIOUS
<1>2. \A i \in 1 .. m : u[i] = t[i] /\ (Saved(u, i) <=> Saved(t, i))
  BY DEF Saved
<1>3. ASSUME NEW n \in 0 .. m PROVE SaysOf(u, n, missing, value) <=> SaysOf(t, n, missing, value)
  <2>1. \A i \in 1 .. n : i \in 1 .. m /\ \A j \in i + 1 .. n : j \in 1 .. m
    OBVIOUS
  <2> QED
    BY <1>2, <2>1 DEF SaysOf
<1>4. Saved(u, m + 1) /\ SaysOf(u, m + 1, missing, value) => Claimed(u[m + 1], missing, value)
  <2> SUFFICES ASSUME Saved(u, m + 1), SaysOf(u, m + 1, missing, value) PROVE Claimed(u[m + 1], missing, value)
    OBVIOUS
  <2>1. m + 1 \in 1 .. m + 1
    OBVIOUS
  <2>2. PICK i \in 1 .. m + 1 : /\ \A j \in i + 1 .. m + 1 : ~Saved(u, j)
                                /\ u[i].alone /\ u[i].gaps = missing /\ u[i].after = value
    BY <2>1 DEF SaysOf
  <2>3. i = m + 1
    BY <2>2
  <2> QED
    BY <2>2, <2>3 DEF Claimed
<1>5. ~Saved(u, m + 1) => (SaysOf(u, m + 1, missing, value) <=> SaysOf(u, m, missing, value))
  <2> SUFFICES ASSUME ~Saved(u, m + 1) PROVE SaysOf(u, m + 1, missing, value) <=> SaysOf(u, m, missing, value)
    OBVIOUS
  <2>1. \A i \in 1 .. m + 1 : i \in 1 .. m \/ i = m + 1
    OBVIOUS
  <2>2. \A i \in 1 .. m : i \in 1 .. m + 1 /\ (\A j \in i + 1 .. m + 1 : j \in i + 1 .. m \/ j = m + 1)
                          /\ (\A j \in i + 1 .. m : j \in i + 1 .. m + 1)
    OBVIOUS
  <2> QED
    BY <2>1, <2>2 DEF SaysOf
<1>6. m \in 0 .. m
  OBVIOUS
<1> QED
  BY <1>3, <1>4, <1>5, <1>6

LEMMA InitReplays == Init => Replays
<1> SUFFICES ASSUME Init PROVE Replays
  OBVIOUS
<1>1. trail = <<>> /\ Len(trail) = 0 /\ lapsed = {} /\ settings = Default /\ \A f \in Forms : call[f] = Idle
  BY DEF Init, Clients
<1>2. Idle.step = "idle"
  BY DEF Idle
<1>3. Pending = {}
  BY <1>1, <1>2 DEF Pending
<1>4. \A value \in Settings : Claims(value) => settings = value
  BY <1>1 DEF Claims, SaysOf
<1> QED
  BY <1>1, <1>2, <1>3, <1>4 DEF Replays, BeginsWhereOthersEnd

(* What the trail says can only be taken back when a save lapses.          *)
LEMMA ClaimsFade ==
  ASSUME Replays, UNCHANGED trail, lapsed \subseteq lapsed', NEW value, Claims(value)'
  PROVE Claims(value) /\ Saves(lapsed') = Saves(lapsed)
<1>1. Saves(lapsed) \subseteq Saves(lapsed')
  BY DEF Saves
<1>2. SaysOf(trail, Len(trail), Saves(lapsed'), value)
  BY DEF Claims, Saves
<1>3. Saves(lapsed') \subseteq Saves(lapsed)
  BY <1>2 DEF SaysOf, Replays
<1> QED
  BY <1>1, <1>2, <1>3 DEF Claims

(* Settings and trail stay as they are, and no save begins to wait.        *)
LEMMA SteadyReplays ==
  ASSUME Orderly, Replays, UNCHANGED <<trail, settings>>, lapsed \subseteq lapsed',
         \A f \in Forms : call'[f].step = "read" /\ call'[f].alone => call'[f].before = settings,
         \A f \in Pending' : /\ f \in Pending /\ call'[f].before = call[f].before
                             /\ call'[f].alone => call[f].alone
                             /\ call'[f].step = "reread" =>
                                  call'[f].after = settings \/ (call[f].step = "reread" /\ call'[f].after = call[f].after),
         Pending # {} /\ Pending' = {} => Saves(lapsed') # Saves(lapsed)
  PROVE Replays'
<1>0. Saves(lapsed)' = Saves(lapsed') /\ Saves(lapsed) \subseteq Saves(lapsed')
  BY DEF Saves
<1>1. (\A i \in 1 .. Len(trail) : trail[i].gaps \subseteq Saves(lapsed))'
  BY <1>0 DEF Replays
<1>2. BeginsWhereOthersEnd(trail)'
  BY DEF Replays, BeginsWhereOthersEnd, SaysOf, Saved
<1>3. ASSUME NEW f \in Pending', call'[f].alone
      PROVE /\ Pending' = {f}
            /\ call'[f].step = "reread" => call'[f].after = settings
            /\ \A value \in Settings : Claims(value)' => call'[f].before = value
  <2>1. f \in Pending /\ call[f].alone /\ call'[f].before = call[f].before
    BY <1>3
  <2>2. Pending = {f}
    BY <2>1 DEF Replays
  <2>3. Pending' \subseteq Pending
    OBVIOUS
  <2>4. ASSUME NEW value \in Settings, Claims(value)' PROVE call'[f].before = value
    BY <2>1, <2>4, ClaimsFade DEF Replays
  <2> QED
    BY <1>3, <2>1, <2>2, <2>3, <2>4 DEF Replays
<1>4. ASSUME Pending' = {}, NEW value \in Settings, Claims(value)' PROVE settings = value
  <2>1. Claims(value) /\ Saves(lapsed') = Saves(lapsed)
    BY <1>4, ClaimsFade
  <2> QED
    BY <1>4, <2>1 DEF Replays
<1> QED
  BY <1>1, <1>2, <1>3, <1>4 DEF Replays

LEMMA UpsertReplays ==
  ASSUME Orderly, Replays, NEW f \in Forms, Upsert(f)
  PROVE Replays'
<1>0. /\ trail' = trail /\ lapsed' = lapsed /\ Forms \subseteq Clients /\ call \in [Clients -> Call] /\ f \in Clients
      /\ call[f].step = "read"
  BY DEF Upsert, Orderly, TypeOK, Clients
<1>1. call' = [c \in Clients |->
                IF c = f THEN [call[f] EXCEPT !.step = "written", !.alone = @ /\ Saving = {f}]
                ELSE [call[c] EXCEPT !.alone = @ /\ c \notin Saving]]
  BY DEF Upsert
<1>2. /\ call'[f].step = "written" /\ call'[f].before = call[f].before
      /\ call'[f].alone => call[f].alone /\ Saving = {f}
  BY <1>0, <1>1 DEF Call
<1>3. ASSUME NEW g \in Forms \ {f}
      PROVE call'[g].step = call[g].step /\ (call'[g].alone => g \notin Saving)
  <2>1. call'[g] = [call[g] EXCEPT !.alone = @ /\ g \notin Saving] /\ call[g] \in Call
    BY <1>0, <1>1
  <2> QED
    BY <2>1 DEF Call
<1>4. \A g \in Forms : g \in Saving <=> call[g].step \in SaveSteps
  BY <1>0 DEF Saving, At
<1>5. Pending' = Pending \cup {f}
  BY <1>2, <1>3 DEF Pending
<1>6. \A value : Claims(value)' <=> Claims(value)
  BY <1>0 DEF Claims, SaysOf, Saved, Saves
<1>7. (\A i \in 1 .. Len(trail) : trail[i].gaps \subseteq Saves(lapsed))' /\ BeginsWhereOthersEnd(trail)'
  BY <1>0 DEF Replays, BeginsWhereOthersEnd, SaysOf, Saved, Saves
<1>8. \A g \in Forms : ~(call'[g].step = "read" /\ call'[g].alone)
  BY <1>2, <1>3, <1>4 DEF SaveSteps
<1>9. ASSUME NEW g \in Pending', call'[g].alone
      PROVE /\ Pending' = {g} /\ call'[g].step # "reread"
            /\ \A value \in Settings : Claims(value)' => call'[g].before = value
  <2>1. g = f
    BY <1>3, <1>4, <1>9 DEF Pending, SaveSteps
  <2>2. call[f].alone /\ Saving = {f}
    BY <1>2, <1>9, <2>1
  <2>3. Pending = {}
    BY <1>0, <1>4, <2>2 DEF Pending, SaveSteps
  <2>4. call[f].before = settings
    BY <1>0, <2>2 DEF Replays
  <2> QED
    BY <1>2, <1>5, <1>6, <2>1, <2>3, <2>4 DEF Replays
<1> QED
  BY <1>5, <1>7, <1>8, <1>9 DEF Replays

LEMMA LogReplays ==
  ASSUME Orderly, Replays, NEW c \in Clients, Log(c)
  PROVE Replays'
<1> DEFINE e == Entry(c)
           m == Len(trail)
           E == [request: Requests, before: Settings, after: Settings, alone: BOOLEAN, gaps: SUBSET Requests]
<1>0. /\ trail' = Append(trail, e) /\ lapsed' = lapsed /\ settings' = settings /\ trail \in Seq(E)
      /\ Forms \subseteq Clients /\ call \in [Clients -> Call] /\ Forms \cap Lists = {}
  BY ClientsAssumption DEF Log, Orderly, TypeOK, Clients
<1>1. /\ e.request[1] = c /\ e.before = call[c].before /\ e.after = call[c].after
      /\ e.alone = call[c].alone /\ e.gaps = Saves(lapsed)
  BY DEF Entry, Request
<1>2. call' = [call EXCEPT ![c] = Answered(call[c], TRUE)]
  BY DEF Log, Answer
<1>3. call'[c].step = "answered" /\ \A d \in Clients \ {c} : call'[d] = call[d]
  <2>1. call[c] \in Call
    BY <1>0
  <2> QED
    BY <1>0, <1>2, <2>1, AnsweredCall
<1> HIDE DEF e, E
<1>4. /\ m \in Nat /\ Len(trail') = m + 1 /\ trail'[m + 1] = e
      /\ \A i \in 1 .. m : trail'[i] = trail[i]
      /\ Saved(trail', m + 1) <=> c \in Forms
      /\ \A i \in 1 .. m : Saved(trail', i) <=> Saved(trail, i)
  <2>1. m \in Nat /\ Len(trail') = m + 1 /\ trail'[m + 1] = e /\ \A i \in 1 .. m : trail'[i] = trail[i]
    BY <1>0
  <2> QED
    BY <1>1, <2>1 DEF Saved
<1> HIDE DEF m
<1>5. ASSUME NEW missing, NEW value
      PROVE /\ \A n \in 0 .. m : SaysOf(trail', n, missing, value) <=> SaysOf(trail, n, missing, value)
            /\ c \in Forms /\ SaysOf(trail', m + 1, missing, value) => e.alone /\ e.gaps = missing /\ e.after = value
            /\ c \notin Forms => (SaysOf(trail', m + 1, missing, value) <=> SaysOf(trail, m, missing, value))
  <2>1. /\ \A n \in 0 .. m : SaysOf(trail', n, missing, value) <=> SaysOf(trail, n, missing, value)
        /\ Saved(trail', m + 1) /\ SaysOf(trail', m + 1, missing, value) =>
             Claimed(trail'[m + 1], missing, value)
        /\ ~Saved(trail', m + 1) =>
             (SaysOf(trail', m + 1, missing, value) <=> SaysOf(trail, m, missing, value))
    <3>1. PICK t : t = trail
      OBVIOUS
    <3>2. PICK u : u = trail'
      OBVIOUS
    <3>3. PICK n \in Nat : n = m
      BY <1>4
    <3>4. \A i \in 1 .. n : u[i] = t[i]
      BY <1>4, <3>1, <3>2, <3>3
    <3> QED
      BY <3>1, <3>2, <3>3, <3>4, SaysAppend
  <2> QED
    BY <1>4, <2>1 DEF Claimed
<1>6. \A value : Claims(value)' <=> SaysOf(trail', m + 1, Saves(lapsed), value)
  BY <1>0, <1>4 DEF Claims, Saves, m
<1>7. \A value : Claims(value) <=> SaysOf(trail, m, Saves(lapsed), value)
  BY DEF Claims, m
<1>8. \A i \in 1 .. m + 1 : i \in 1 .. m \/ i = m + 1
  BY <1>4
<1>9. (\A i \in 1 .. Len(trail) : trail[i].gaps \subseteq Saves(lapsed))'
  <2>1. \A i \in 1 .. m : trail[i].gaps \subseteq Saves(lapsed)
    BY DEF Replays, m
  <2>2. Saves(lapsed)' = Saves(lapsed)
    BY <1>0 DEF Saves
  <2> QED
    BY <1>1, <1>4, <1>8, <2>1, <2>2
<1>10. c \in Forms => call[c].step = "reread" /\ c \in Pending
  BY DEF Log, Pending
<1>11. BeginsWhereOthersEnd(trail)'
  <2> SUFFICES ASSUME NEW i \in 1 .. m + 1, NEW value \in Settings,
                      Saved(trail', i), trail'[i].alone, SaysOf(trail', i - 1, trail'[i].gaps, value)
               PROVE trail'[i].before = value
    BY <1>4 DEF BeginsWhereOthersEnd, m
  <2>1. i - 1 \in 0 .. m
    BY <1>4
  <2>2. SaysOf(trail, i - 1, trail'[i].gaps, value)
    BY <1>5, <2>1
  <2>3. CASE i \in 1 .. m
    BY <1>4, <2>2, <2>3 DEF Replays, BeginsWhereOthersEnd, m
  <2>4. CASE i = m + 1
    <3>1. c \in Forms /\ call[c].alone /\ trail'[i].gaps = Saves(lapsed) /\ trail'[i].before = call[c].before
      BY <1>1, <1>4, <2>4
    <3>2. SaysOf(trail, m, Saves(lapsed), value)
      BY <1>4, <2>2, <2>4, <3>1
    <3> QED
      BY <1>7, <1>10, <3>1, <3>2 DEF Replays
  <2> QED
    BY <1>8, <2>3, <2>4
<1>12. \A f \in Forms : call'[f].step = "read" /\ call'[f].alone => call'[f].before = settings'
  BY <1>0, <1>3 DEF Replays
<1>13. Pending' = Pending \ {c}
  BY <1>0, <1>3 DEF Pending
<1>14. CASE c \in Forms
  <2>1. \A f \in Pending' : ~call'[f].alone
    <3> SUFFICES ASSUME NEW f \in Pending', call'[f].alone PROVE FALSE
      OBVIOUS
    <3>1. f \in Pending \ {c} /\ f \in Clients /\ call'[f] = call[f]
      BY <1>0, <1>3, <1>13 DEF Pending
    <3> QED
      BY <1>10, <1>14, <3>1 DEF Replays
  <2>2. ASSUME NEW value \in Settings, Claims(value)' PROVE settings = value
    <3>1. call[c].alone /\ call[c].after = value
      BY <1>1, <1>5, <1>6, <1>14, <2>2
    <3> QED
      BY <1>10, <1>14, <3>1 DEF Replays
  <2> QED
    BY <1>0, <1>9, <1>11, <1>12, <2>1, <2>2 DEF Replays
<1>15. CASE c \notin Forms
  <2>1. Pending' = Pending
    BY <1>13, <1>15 DEF Pending
  <2>2. \A f \in Forms : call'[f] = call[f]
    BY <1>0, <1>3, <1>15
  <2>3. \A value : Claims(value)' <=> Claims(value)
    BY <1>5, <1>6, <1>7, <1>15
  <2>4. ASSUME NEW f \in Pending', call'[f].alone
        PROVE /\ Pending' = {f}
              /\ call'[f].step = "reread" => call'[f].after = settings'
              /\ \A value \in Settings : Claims(value)' => call'[f].before = value
    <3>1. f \in Pending /\ f \in Forms /\ call'[f] = call[f]
      BY <2>1, <2>2 DEF Pending
    <3> QED
      BY <1>0, <2>1, <2>3, <2>4, <3>1 DEF Replays
  <2>5. Pending' = {} => \A value \in Settings : Claims(value)' => settings' = value
    BY <1>0, <2>1, <2>3 DEF Replays
  <2> QED
    BY <1>9, <1>11, <1>12, <2>4, <2>5 DEF Replays
<1> QED
  BY <1>14, <1>15

(* Requests are cut off or answered without an entry: those that waited    *)
(* for theirs have lapsed.                                                 *)
LEMMA CutReplays ==
  ASSUME Orderly, Replays, UNCHANGED <<trail, settings>>, NEW cut \in SUBSET Clients, NEW ok \in BOOLEAN,
         call' = [c \in Clients |-> IF c \in cut THEN Answered(call[c], ok) ELSE call[c]],
         lapsed \subseteq lapsed', \A c \in cut \cap Pending : Request(c) \in lapsed'
  PROVE Replays'
<1>1. Forms \subseteq Clients /\ call \in [Clients -> Call]
  BY DEF Orderly, TypeOK, Clients
<1>2. ASSUME NEW f \in Forms PROVE call'[f] = call[f] \/ (f \in cut /\ call'[f].step = "answered")
  <2>1. call[f] \in Call
    BY <1>1
  <2> QED
    BY <1>1, <2>1, AnsweredCall
<1>3. \A f \in Forms : call'[f].step = "read" /\ call'[f].alone => call'[f].before = settings
  BY <1>2 DEF Replays
<1>4. \A f \in Pending' : f \in Pending /\ f \in Forms /\ call'[f] = call[f]
  BY <1>2 DEF Pending
<1>5. ASSUME Pending # {}, Pending' = {} PROVE Saves(lapsed') # Saves(lapsed)
  <2>1. PICK f \in Forms : f \in Pending
    BY <1>5 DEF Pending
  <2>2. f \in cut
    BY <1>2, <1>5, <2>1 DEF Pending
  <2>3. Request(f) \in lapsed' /\ Request(f)[1] = f
    BY <2>1, <2>2 DEF Request
  <2>4. Request(f) \notin lapsed
    <3>1. f \in Clients /\ f \in Unlogged
      BY <1>1, <2>1 DEF Pending, Unlogged, At
    <3> QED
      BY <3>1 DEF Orderly, EffectsAccountedFor, Open
  <2> QED
    BY <2>3, <2>4 DEF Saves
<1> QED
  BY <1>3, <1>4, <1>5, SteadyReplays

LEMMA NextReplays == Orderly /\ Replays /\ [Next]_vars => Replays'
<1> SUFFICES ASSUME Orderly, Replays, [Next]_vars PROVE Replays'
  OBVIOUS
<1>0. /\ Forms \subseteq Clients /\ Forms \cap Lists = {} /\ call \in [Clients -> Call]
      /\ settings \in Settings
  BY ClientsAssumption DEF Orderly, TypeOK, Clients
<1>1. ASSUME UNCHANGED <<trail, settings, lapsed>>,
             \A f \in Forms : call'[f] = call[f] \/ (f \notin Pending /\ call'[f].step \notin {"read", "written", "reread"})
      PROVE Replays'
  <2>1. \A f \in Forms : call'[f].step = "read" /\ call'[f].alone => call'[f].before = settings
    BY <1>1 DEF Replays
  <2>2. Pending' = Pending /\ \A f \in Pending : f \in Forms /\ call'[f] = call[f]
    BY <1>1 DEF Pending
  <2> QED
    BY <1>1, <2>1, <2>2, SteadyReplays
<1>2. CASE UNCHANGED vars
  BY <1>1, <1>2 DEF vars
<1>3. CASE StartAgent \/ \E f \in Forms : Load(f)
  <2>1. UNCHANGED <<trail, settings, lapsed, call>>
    BY <1>3 DEF StartAgent, Load, agentVars
  <2> QED
    BY <1>1, <2>1
<1>4. ASSUME NEW c \in Clients, call[c].step \in {"idle", "answered", "sent"}, UNCHANGED <<trail, settings, lapsed>>,
             call'[c].step \in {"sent", "idle", "admitted"}, \A d \in Clients \ {c} : call'[d] = call[d]
      PROVE Replays'
  BY <1>0, <1>1, <1>4 DEF Pending
<1>5. CASE \E f \in Forms, values \in Settings : Save(f, values)
  <2>1. PICK f \in Forms, values \in Settings : Save(f, values)
    BY <1>5
  <2>2. PICK edited, seen : Send(f, [Idle EXCEPT !.items = values, !.edited = edited, !.seen = seen])
    BY <2>1 DEF Save
  <2> DEFINE x == [[Idle EXCEPT !.items = values, !.edited = edited, !.seen = seen] EXCEPT !.step = "sent", !.id = sends + 1]
  <2>3. x.step = "sent"
    BY DEF Idle
  <2>4. call[f].step = "idle" /\ UNCHANGED <<trail, settings, lapsed>> /\ call' = [call EXCEPT ![f] = x]
    BY <2>2 DEF Send, agentVars
  <2> HIDE DEF x
  <2>5. f \in Clients /\ call'[f].step = "sent" /\ \A d \in Clients \ {f} : call'[d] = call[d]
    BY <1>0, <2>3, <2>4
  <2> QED
    BY <1>4, <2>4, <2>5
<1>6. CASE \E l \in Lists, halts \in BOOLEAN : RunAction(l, halts)
  <2>1. PICK l \in Lists, halts \in BOOLEAN : RunAction(l, halts)
    BY <1>6
  <2> QED
    BY <1>0, <1>1, <2>1 DEF RunAction, Send, agentVars
<1>7. ASSUME NEW c \in Clients, \E received \in BOOLEAN : Arrive(c, received)
      PROVE Replays'
  <2>1. call[c].step = "answered" /\ UNCHANGED <<trail, settings, lapsed>> /\ call' = [call EXCEPT ![c] = Idle]
    BY <1>7 DEF Arrive, agentVars
  <2>2. Idle.step = "idle"
    BY DEF Idle
  <2>3. call'[c].step = "idle" /\ \A d \in Clients \ {c} : call'[d] = call[d]
    BY <1>0, <2>1, <2>2
  <2> QED
    BY <1>4, <2>1, <2>3
<1>8. ASSUME NEW c \in Clients, Admit(c)
      PROVE Replays'
  <2>1. /\ call[c].step = "sent" /\ UNCHANGED <<trail, settings, lapsed>>
        /\ call' = [call EXCEPT ![c] = [call[c] EXCEPT !.step = "admitted"]]
    BY <1>8 DEF Admit, agentVars
  <2>2. call'[c].step = "admitted" /\ \A d \in Clients \ {c} : call'[d] = call[d]
    BY <1>0, <2>1 DEF Call
  <2> QED
    BY <1>4, <2>1, <2>2
<1>9. ASSUME NEW f \in Clients, GetBefore(f)
      PROVE Replays'
  <2>1. /\ f \in Forms /\ call[f].step = "admitted" /\ UNCHANGED <<trail, settings, lapsed>>
        /\ \A g \in Forms \ {f} : call'[g] = call[g]
    BY <1>0, <1>9 DEF GetBefore, agentVars
  <2>2. call'[f].step = "read" /\ call'[f].before = settings
    BY <1>0, <1>9 DEF GetBefore, Call
  <2>3. Pending' = Pending /\ \A g \in Pending : g \in Forms /\ call'[g] = call[g]
    BY <2>1, <2>2 DEF Pending
  <2>4. \A g \in Forms : call'[g].step = "read" /\ call'[g].alone => call'[g].before = settings
    BY <2>1, <2>2 DEF Replays
  <2> QED
    BY <2>1, <2>3, <2>4, SteadyReplays
<1>10. ASSUME NEW f \in Clients, GetAfter(f)
       PROVE Replays'
  <2>1. call[f].step = "written" /\ UNCHANGED <<trail, settings, lapsed>>
        /\ \A g \in Forms \ {f} : call'[g] = call[g]
    BY <1>0, <1>10 DEF GetAfter, agentVars
  <2>2. /\ call'[f].step = "reread" /\ call'[f].before = call[f].before
        /\ call'[f].alone = call[f].alone /\ call'[f].after = settings
    BY <1>0, <1>10 DEF GetAfter, Call
  <2>3. Pending' = Pending
    BY <2>1, <2>2 DEF Pending
  <2>4. \A g \in Pending : g \in Forms /\ (g = f \/ call'[g] = call[g])
    BY <2>1 DEF Pending
  <2>5. \A g \in Forms : call'[g].step = "read" /\ call'[g].alone => call'[g].before = settings
    BY <2>1, <2>2 DEF Replays
  <2> QED
    BY <2>1, <2>2, <2>3, <2>4, <2>5, SteadyReplays
<1>11. ASSUME NEW l \in Clients, Act(l)
       PROVE Replays'
  <2>1. l \in Lists /\ UNCHANGED <<trail, settings, lapsed>> /\ call' = [call EXCEPT ![l].step = "acted"]
    BY <1>11 DEF Act
  <2> QED
    BY <1>0, <1>1, <2>1
<1>12. ASSUME NEW c \in Clients, NEW ok \in BOOLEAN, UNCHANGED <<trail, settings>>, Answer(c, ok),
              lapsed \subseteq lapsed', c \in Pending => Request(c) \in lapsed'
       PROVE Replays'
  <2>1. PICK cut \in SUBSET Clients : cut = {c}
    OBVIOUS
  <2>2. call' = [d \in Clients |-> IF d \in cut THEN Answered(call[d], ok) ELSE call[d]]
    BY <1>0, <1>12, <2>1 DEF Answer
  <2>3. \A d \in cut \cap Pending : Request(d) \in lapsed'
    BY <1>12, <2>1
  <2> QED
    BY <1>12, <2>2, <2>3, CutReplays
<1>13. ASSUME NEW c \in Clients, Refuse(c)
       PROVE Replays'
  <2>1. call[c].step \in {"sent", "admitted"} /\ UNCHANGED <<trail, settings, lapsed>> /\ Answer(c, FALSE)
    BY <1>13 DEF Refuse, agentVars
  <2> QED
    BY <1>12, <2>1 DEF Pending
<1>14. ASSUME NEW c \in Clients, StatementFails(c)
       PROVE Replays'
  <2>1. UNCHANGED <<trail, settings>> /\ Answer(c, FALSE) /\ lapsed \subseteq lapsed'
        /\ (c \in Unlogged => Request(c) \in lapsed')
    BY <1>14 DEF StatementFails
  <2>2. c \in Pending => c \in Unlogged
    BY DEF Pending, Unlogged, At
  <2> QED
    BY <1>12, <2>1, <2>2
<1>15. ASSUME NEW l \in Clients, \E partly \in BOOLEAN : ActFails(l, partly)
       PROVE Replays'
  <2>1. UNCHANGED <<trail, settings>> /\ Answer(l, FALSE) /\ lapsed \subseteq lapsed' /\ call[l].step = "admitted"
    BY <1>15 DEF ActFails
  <2> QED
    BY <1>12, <2>1 DEF Pending
<1>16. ASSUME NEW c \in Clients, LogFails(c)
       PROVE Replays'
  <2>1. UNCHANGED <<trail, settings>> /\ Answer(c, TRUE) /\ lapsed \subseteq lapsed' /\ Request(c) \in lapsed'
    BY <1>16 DEF LogFails
  <2> QED
    BY <1>12, <2>1
<1>17. ASSUME NEW c \in Clients, Upsert(c)
       PROVE Replays'
  <2>1. c \in Forms
    BY <1>17 DEF Upsert, Orderly, Ordered, SaveSteps
  <2> QED
    BY <1>17, <2>1, UpsertReplays
<1>18. ASSUME NEW c \in Clients, Handle(c)
       PROVE Replays'
  BY <1>7, <1>8, <1>9, <1>10, <1>11, <1>13, <1>14, <1>15, <1>16, <1>17, <1>18, LogReplays DEF Handle
<1>19. ASSUME NEW own, Halt(own)
       PROVE Replays'
  <2> DEFINE cut == {c \in Clients : c \in Saving \cup Unlogged \cup own}
  <2>1. call' = [c \in Clients |-> IF c \in cut THEN Answered(call[c], FALSE) ELSE call[c]]
    BY <1>19 DEF Halt
  <2>2. UNCHANGED <<trail, settings>> /\ lapsed' = lapsed \cup {Request(c) : c \in Unlogged \cup own}
    BY <1>19 DEF Halt
  <2>3. Pending \subseteq Unlogged
    BY <1>0 DEF Pending, Unlogged, At
  <2>4. \A c \in cut \cap Pending : Request(c) \in lapsed'
    BY <2>2, <2>3
  <2> QED
    BY <2>1, <2>2, <2>4, CutReplays
<1> QED
  BY <1>2, <1>3, <1>5, <1>6, <1>18, <1>19 DEF Next, StopAgent, ActOnSelf

(* The trail can be replayed: an entry of a save that no other overlapped  *)
(* begins where the entries before it end, and when no save is under way   *)
(* the settings in force are those the trail ends with.                    *)
THEOREM TrailReplaysHolds == Spec => []TrailReplays
<1>1. Replays => TrailReplays
  <2> SUFFICES ASSUME Replays, NEW value \in Settings
               PROVE /\ \A i \in 1 .. Len(trail) :
                          IsSave(i) /\ trail[i].alone /\ Says(i - 1, trail[i].gaps, value) => trail[i].before = value
                     /\ Saving = {} /\ Says(Len(trail), Saves(lapsed), value) => settings = value
    BY DEF TrailReplays
  <2>1. \A i : IsSave(i) <=> Saved(trail, i)
    BY DEF IsSave, Saved
  <2>2. \A n, missing : Says(n, missing, value) <=> SaysOf(trail, n, missing, value)
    BY <2>1 DEF Says, SaysOf
  <2>3. ASSUME Saving = {} PROVE Pending = {}
    <3>1. \A f \in Pending : f \in Saving
      BY DEF Pending, Saving, At, SaveSteps, Clients
    <3> QED
      BY <2>3, <3>1
  <2> QED
    BY <2>1, <2>2, <2>3 DEF Replays, BeginsWhereOthersEnd, Claims
<1>2. Init => Orderly /\ Replays
  BY InitOrderly, InitReplays
<1>3. Orderly /\ Replays /\ [Next]_vars => (Orderly /\ Replays)'
  BY NextOrderly, NextReplays
<1> QED
  BY <1>1, <1>2, <1>3, PTL DEF Spec

-----------------------------------------------------------------------------
(* How a request comes to its end.                                         *)
Left(step) ==
  [idle |-> 0, answered |-> 1, reread |-> 2, acted |-> 2, written |-> 3, read |-> 4,
   admitted |-> 5, sent |-> 6][step]

LEMMA LeftValues ==
  /\ Left("idle") = 0 /\ Left("answered") = 1 /\ Left("reread") = 2 /\ Left("acted") = 2
  /\ Left("written") = 3 /\ Left("read") = 4 /\ Left("admitted") = 5 /\ Left("sent") = 6
BY DEF Left

LEMMA LeftIsNumber ==
  ASSUME NEW step \in Steps
  PROVE  Left(step) \in 0 .. 6 /\ (step # "idle" => Left(step) > 0)
         /\ (step \notin {"idle", "answered"} => Left(step) > 1)
BY LeftValues DEF Steps, SaveSteps

(* What a handler does to the step of its own request.                     *)
LEMMA HandlerMoves ==
  ASSUME Orderly, NEW c \in Clients, Handle(c)
  PROVE  /\ call[c].step \in Steps \ {"idle"}
         /\ \/ call[c].step = "answered" /\ call'[c].step = "idle"
            \/ call[c].step # "answered" /\ call'[c].step = "answered"
            \/ call[c].step = "sent" /\ call'[c].step = "admitted"
            \/ call[c].step = "admitted" /\ call'[c].step \in {"read", "acted"}
            \/ call[c].step = "read" /\ call'[c].step = "written"
            \/ call[c].step = "written" /\ call'[c].step = "reread"
<1>0. call \in [Clients -> Call] /\ call[c].step \in Steps /\ Forms \subseteq Clients
  BY DEF Orderly, TypeOK, Call, Clients
<1>1. CASE Admit(c) \/ GetBefore(c) \/ GetAfter(c) \/ Act(c)
  BY <1>0, <1>1 DEF Admit, GetBefore, GetAfter, Act, Call
<1>2. CASE Upsert(c)
  <2>1. call[c].step = "read" /\ c \in Forms
    BY <1>2 DEF Upsert, Orderly, Ordered, SaveSteps
  <2>2. call'[c].step = "written"
    BY <1>0, <1>2, <2>1 DEF Upsert, Call
  <2> QED
    BY <1>0, <2>1, <2>2
<1>3. CASE \/ Refuse(c) \/ Log(c) \/ LogFails(c) \/ StatementFails(c)
           \/ \E partly \in BOOLEAN : ActFails(c, partly)
  <2>1. call[c].step \notin {"idle", "answered"} /\ \E ok \in BOOLEAN : Answer(c, ok)
    BY <1>3 DEF Refuse, Log, LogFails, StatementFails, ActFails
  <2>2. PICK ok \in BOOLEAN : Answer(c, ok)
    BY <2>1
  <2>3. Answered(call[c], ok).step = "answered"
    BY <1>0, AnsweredCall
  <2>4. call'[c].step = "answered"
    BY <1>0, <2>2, <2>3 DEF Answer
  <2> QED
    BY <1>0, <2>1, <2>4
<1>4. CASE \E received \in BOOLEAN : Arrive(c, received)
  <2>1. call[c].step = "answered" /\ call' = [call EXCEPT ![c] = Idle]
    BY <1>4 DEF Arrive
  <2>2. Idle.step = "idle"
    BY DEF Idle
  <2> QED
    BY <1>0, <2>1, <2>2, Zenon
<1> QED
  BY <1>1, <1>2, <1>3, <1>4 DEF Handle

(* What everybody else does to it: nothing, or the agent ends it.          *)
LEMMA OthersCut ==
  ASSUME Orderly, NEW c \in Clients, [Next]_vars, ~Handle(c), call[c].step # "idle"
  PROVE  \/ call'[c].step = call[c].step
         \/ call[c].step \notin {"idle", "answered"} /\ call'[c].step = "answered"
<1>0. call \in [Clients -> Call] /\ call[c].step \in Steps
  BY DEF Orderly, TypeOK, Call
<1>1. CASE UNCHANGED vars \/ StartAgent \/ \E f \in Forms : Load(f)
  BY <1>1 DEF vars, StartAgent, Load
<1>2. ASSUME NEW d \in Clients, NEW request, Send(d, request) PROVE call'[c] = call[c]
  BY <1>0, <1>2 DEF Send
<1>3. CASE (\E f \in Forms, values \in Settings : Save(f, values))
           \/ \E l \in Lists, halts \in BOOLEAN : RunAction(l, halts)
  BY <1>2, <1>3 DEF Save, RunAction, Clients
<1>4. ASSUME NEW d \in Clients, Handle(d) PROVE call'[c].step = call[c].step
  <2>1. d # c
    BY <1>4
  <2>2. CASE Upsert(d)
    BY <1>0, <2>1, <2>2 DEF Upsert, Call
  <2>3. CASE ~Upsert(d)
    <3>1. \E x : call' = [call EXCEPT ![d] = x]
      BY <1>4, <2>3, Zenon DEF Handle, Admit, Refuse, GetBefore, GetAfter, StatementFails, Act, ActFails,
                        Log, LogFails, Arrive, Answer
    <3> QED
      BY <1>0, <2>1, <3>1
  <2> QED
    BY <2>2, <2>3
<1>5. ASSUME NEW own, own \subseteq At("admitted"), Halt(own)
      PROVE  \/ call'[c].step = call[c].step
             \/ call[c].step \notin {"idle", "answered"} /\ call'[c].step = "answered"
  <2>1. CASE c \in Saving \cup Unlogged \cup own
    <3>1. call[c].step \notin {"idle", "answered"}
      BY <1>5, <2>1 DEF Saving, SaveSteps, Unlogged, At
    <3>2. call'[c].step = Answered(call[c], FALSE).step
      BY <1>5, <2>1 DEF Halt
    <3> QED
      BY <1>0, <3>1, <3>2, AnsweredCall
  <2>2. CASE c \notin Saving \cup Unlogged \cup own
    BY <1>5, <2>2 DEF Halt
  <2> QED
    BY <2>1, <2>2
<1>6. CASE StopAgent \/ \E l \in Lists : ActOnSelf(l)
  BY <1>5, <1>6 DEF StopAgent, ActOnSelf, At, Clients
<1> QED
  BY <1>1, <1>3, <1>4, <1>6 DEF Next

(* A request is at its end after at most six handler steps, whatever else  *)
(* happens: no save, failure or stop of the agent ever takes one back.     *)
THEOREM RequestsAdvanceHolds == Spec => RequestsAdvance
<1>1. ASSUME Orderly, Orderly', [Next]_vars, NEW c \in Clients
      PROVE  /\ Handle(c) => StepsLeft(c)' < StepsLeft(c)
             /\ call[c].step # "idle" => StepsLeft(c)' <= StepsLeft(c)
  <2>1. StepsLeft(c) = Left(call[c].step) /\ StepsLeft(c)' = Left(call'[c].step)
    BY DEF StepsLeft, Left
  <2>2. call[c].step \in Steps /\ call'[c].step \in Steps
    BY <1>1 DEF Orderly, TypeOK, Call
  <2>3. CASE Handle(c)
    <3>1. Left(call'[c].step) < Left(call[c].step)
      BY <1>1, <2>2, <2>3, HandlerMoves, LeftValues, LeftIsNumber
    <3>2. PICK before, after \in 0 .. 6 : before = Left(call[c].step) /\ after = Left(call'[c].step)
      BY <2>2, LeftIsNumber
    <3>3. after < before
      BY <3>1, <3>2
    <3>4. after <= before
      BY <3>3
    <3> QED
      BY <2>1, <3>2, <3>3, <3>4
  <2>4. CASE ~Handle(c)
    <3>1. call[c].step # "idle" => Left(call'[c].step) <= Left(call[c].step)
      BY <1>1, <2>2, <2>4, OthersCut, LeftValues, LeftIsNumber
    <3> QED
      BY <2>1, <2>4, <3>1
  <2> QED
    BY <2>3, <2>4
<1>2. Orderly /\ Orderly' /\ [Next]_vars =>
        [\A c \in Clients :
           /\ Handle(c) => StepsLeft(c)' < StepsLeft(c)
           /\ call[c].step # "idle" => StepsLeft(c)' <= StepsLeft(c)]_vars
  BY <1>1
<1> QED
  BY <1>2, OrderlyInvariant, PTL DEF Spec, RequestsAdvance
=============================================================================
