--------------------------- MODULE PasskeysProofs ---------------------------
(* Proofs about Passkeys, for any set of ceremonies and of requests.       *)
EXTENDS Passkeys, TLAPS

-----------------------------------------------------------------------------
(* Every counter anybody holds was once the authenticator's.               *)
CountersComeFromDevice ==
  /\ ~counts => device = 0
  /\ stored <= device
  /\ \A c \in Ceremonies : signed[c] <= device
  /\ \A r \in Requests : req[r].seen <= device

CountingSignsAboveZero == counts => \A c \in Ceremonies : signed[c] # 0

(* Until two requests overlap, the one in the window knows the counter.    *)
WindowIsSerial ==
  ~raced =>
    \A r \in Requests : req[r].step \in Window =>
      /\ \A q \in Requests : req[q].step \in Window => q = r
      /\ req[r].seen = stored
      /\ req[r].step \in {"read", "write"} => Counter(r) > stored \/ (Counter(r) = 0 /\ stored = 0)

(* Until then an assertion whose counter was written is spent.             *)
WrittenIsSpent ==
  counts /\ ~raced =>
    /\ \A c \in Ceremonies : sessions[c] > 0 => sessions[c] = 1 /\ signed[c] \in 0 .. stored
    /\ \A r \in Requests : At(r, "issue") =>
         /\ Counter(r) <= stored
         /\ sessions[req[r].assertion] = 0
         /\ \A q \in Requests : At(q, "issue") /\ req[q].assertion = req[r].assertion => q = r

(* A request the library let through carries more than it looked up.       *)
VerifiedIsAbove == \A r \in Requests : At(r, "read") /\ Counter(r) > 0 => Counter(r) > req[r].seen

IInv ==
  /\ TypeOK
  /\ VerifiedIsAbove
  /\ CountersComeFromDevice
  /\ CountingSignsAboveZero
  /\ WindowIsSerial
  /\ WrittenIsSpent

-----------------------------------------------------------------------------
LEMMA InitIInv == Init => IInv
<1> SUFFICES ASSUME Init PROVE IInv
  OBVIOUS
<1> USE DEF Init, At, Counter, Fresh, Unsigned, Many
<1>1. \A r \in Requests : req[r] = IdleRequest
  OBVIOUS
<1>2. IdleRequest \in Request
  BY DEF IdleRequest, Request, Steps, None
<1>3. TypeOK
  <2>1. req \in [Requests -> Request]
    BY <1>1, <1>2
  <2>2. \A r \in Requests : At(r, "idle")
    BY <1>1 DEF IdleRequest
  <2>3. signed \in [Ceremonies -> Nat \cup {Fresh, Unsigned}] /\ sessions \in [Ceremonies -> 0 .. Many]
    OBVIOUS
  <2>4. device \in Nat /\ stored \in Nat
    BY RegisteredAssumption
  <2> QED
    BY <2>1, <2>2, <2>3, <2>4 DEF TypeOK
<1>4. CountersComeFromDevice /\ CountingSignsAboveZero
  BY <1>1, RegisteredAssumption DEF CountersComeFromDevice, CountingSignsAboveZero, IdleRequest
<1>5. WindowIsSerial /\ WrittenIsSpent
  BY <1>1 DEF WindowIsSerial, WrittenIsSpent, IdleRequest, Window
<1>6. VerifiedIsAbove
  BY <1>1 DEF VerifiedIsAbove, IdleRequest
<1> QED
  BY <1>3, <1>4, <1>5, <1>6 DEF IInv

(* Begin, Forget and Sign change nothing a request under way has read.     *)
LEMMA TabIInv ==
  ASSUME IInv, Forget \/ \E c \in Ceremonies : Begin(c) \/ Sign(c)
  PROVE IInv'
<1> USE DEF IInv, TypeOK, Fresh, Unsigned
<1>1. UNCHANGED <<counts, stored, req, sessions, raced>> /\ cookie' \in Ceremonies \cup {None}
  BY DEF Forget, Begin, Sign
<1>2. /\ device' \in Nat
      /\ device <= device'
      /\ ~counts => device' = 0
      /\ signed' \in [Ceremonies -> Nat \cup {Fresh, Unsigned}]
      /\ \A c \in Ceremonies : signed[c] \in Nat => signed'[c] = signed[c]
      /\ \A c \in Ceremonies : signed'[c] <= device' /\ (counts => signed'[c] # 0)
      /\ \A c \in Ceremonies : signed[c] \notin Nat => signed'[c] \notin Nat \/ \E n \in Nat : signed'[c] = n
  BY DEF Forget, Begin, Sign, CountersComeFromDevice, CountingSignsAboveZero
<1>3. \A r \in Requests : ~At(r, "idle") => Counter(r)' = Counter(r)
  BY <1>1, <1>2 DEF Counter, At
<1>4. TypeOK'
  BY <1>1, <1>2, <1>3 DEF At, Counter
<1>5. CountersComeFromDevice' /\ CountingSignsAboveZero'
  BY <1>1, <1>2 DEF CountersComeFromDevice, CountingSignsAboveZero, Request
<1>6. WindowIsSerial'
  BY <1>1, <1>3 DEF WindowIsSerial, Window, At
<1>7. WrittenIsSpent'
  <2>1. ASSUME NEW c \in Ceremonies, counts, ~raced, sessions[c] > 0
        PROVE sessions'[c] = 1 /\ signed'[c] \in 0 .. stored'
    BY <1>1, <1>2, <2>1 DEF WrittenIsSpent, CountingSignsAboveZero
  <2> QED
    BY <1>1, <1>3, <2>1 DEF WrittenIsSpent, At
<1>8. VerifiedIsAbove'
  BY <1>1, <1>3 DEF VerifiedIsAbove, At
<1> QED
  BY <1>4, <1>5, <1>6, <1>7, <1>8

(* A request that only moves between steps outside the write, or ends.     *)
LEMMA StepTypeOK ==
  ASSUME TypeOK, NEW r \in Requests, Login(r)
  PROVE TypeOK'
<1> USE DEF TypeOK, At, Goto, Finish, Counter, Request, Steps, IdleRequest, None
<1>1. CASE \E c \in Ceremonies : Submit(r, c)
  BY <1>1 DEF Submit
<1>2. CASE Lookup(r)
  BY <1>2 DEF Lookup
<1>3. CASE Verify(r)
  BY <1>3 DEF Verify
<1>4. CASE RefuseAssertion(r) \/ RefuseRollback(r) \/ Cancel(r)
  BY <1>4 DEF RefuseAssertion, RefuseRollback, Cancel
<1>5. CASE ReadCounter(r)
  BY <1>5 DEF ReadCounter
<1>6. CASE WriteCounter(r)
  BY <1>6 DEF WriteCounter, Larger
<1>7. CASE IssueSession(r)
  BY <1>7 DEF IssueSession, Many
<1>8. CASE Respond(r)
  BY <1>8 DEF Respond
<1> QED
  BY <1>1, <1>2, <1>3, <1>4, <1>5, <1>6, <1>7, <1>8 DEF Login

LEMMA StepIInv ==
  ASSUME IInv, NEW r \in Requests, Login(r)
  PROVE IInv'
<1> USE DEF IInv
<1>0. TypeOK'
  BY StepTypeOK
<1> USE DEF TypeOK, At, Counter
<1> DEFINE Rest == /\ VerifiedIsAbove
                   /\ CountersComeFromDevice /\ CountingSignsAboveZero /\ WindowIsSerial /\ WrittenIsSpent
<1> SUFFICES Rest'
  BY <1>0
<1> USE DEF VerifiedIsAbove, CountersComeFromDevice, CountingSignsAboveZero, WindowIsSerial, WrittenIsSpent, Window
<1>1. CASE \E c \in Ceremonies : Submit(r, c)
  BY <1>1 DEF Submit
<1>2. CASE Lookup(r)
  <2>1. /\ UNCHANGED <<counts, device, signed, stored, sessions>>
        /\ req[r].step = "lookup"
        /\ req' = [req EXCEPT ![r].step = "verify", ![r].seen = stored]
    BY <1>2 DEF Lookup
  <2>2. ~raced' => ~raced /\ \A q \in Requests \ {r} : req[q].step \notin Window
    BY <1>2 DEF Lookup
  <2>3. /\ \A q \in Requests \ {r} : req'[q] = req[q]
        /\ req'[r].step = "verify" /\ req'[r].seen = stored /\ req'[r].assertion = req[r].assertion
    BY <2>1 DEF Request
  <2>4. CountersComeFromDevice' /\ CountingSignsAboveZero'
    BY <2>1, <2>3
  <2>5. WindowIsSerial'
    BY <2>1, <2>2, <2>3
  <2>6. WrittenIsSpent'
    BY <2>1, <2>2, <2>3
  <2>7. VerifiedIsAbove'
    BY <2>1, <2>3
  <2> QED
    BY <2>4, <2>5, <2>6, <2>7
<1>3. CASE Verify(r)
  <2>1. UNCHANGED <<counts, device, signed, stored, sessions, raced>> /\ req' = [req EXCEPT ![r].step = "read"]
    BY <1>3 DEF Verify, Goto
  <2>2. req[r].step = "verify" /\ (Counter(r) > 0 \/ req[r].seen > 0 => Counter(r) > req[r].seen)
    BY <1>3 DEF Verify, Verified
  <2> QED
    BY <2>1, <2>2 DEF Request, Fresh, Unsigned
<1>4. CASE RefuseAssertion(r) \/ RefuseRollback(r) \/ Cancel(r) \/ Respond(r)
  <2>1. UNCHANGED <<counts, device, signed, stored, sessions, raced>> /\ req' = [req EXCEPT ![r] = IdleRequest]
    BY <1>4 DEF RefuseAssertion, RefuseRollback, Cancel, Respond, Finish
  <2> QED
    BY <2>1 DEF IdleRequest
<1>5. CASE ReadCounter(r)
  BY <1>5 DEF ReadCounter
<1>6. CASE WriteCounter(r)
  <2>1. UNCHANGED <<counts, device, signed, sessions, raced>> /\ req' = [req EXCEPT ![r].step = "issue"]
    BY <1>6 DEF WriteCounter, Goto
  <2>2. req[r].step = "write" /\ stored' = Larger(req[r].seen, Counter(r)) /\ Counter(r) \in Nat
    BY <1>6 DEF WriteCounter
  <2>3. stored' <= device /\ Counter(r) <= stored' /\ stored' \in Nat
    BY <2>2 DEF Larger, Request
  <2>4. CountersComeFromDevice' /\ CountingSignsAboveZero'
    BY <2>1, <2>3
  <2>5. WindowIsSerial'
    BY <2>1, <2>2
  <2>6. ASSUME counts, ~raced PROVE Counter(r) > stored /\ stored < stored'
    BY <2>2, <2>3, <2>6 DEF Larger
  <2>7. WrittenIsSpent'
    BY <2>1, <2>2, <2>3, <2>6 DEF Fresh, Unsigned, Many
  <2>8. VerifiedIsAbove'
    BY <2>1
  <2> QED
    BY <2>4, <2>5, <2>7, <2>8
<1>7. CASE IssueSession(r)
  <2>1. /\ UNCHANGED <<counts, device, signed, stored, raced>>
        /\ req' = [req EXCEPT ![r].step = "respond"]
        /\ req[r].step = "issue"
        /\ sessions' = [sessions EXCEPT ![req[r].assertion] = IF @ < Many THEN @ + 1 ELSE @]
    BY <1>7 DEF IssueSession, Goto
  <2> QED
    BY <2>1 DEF Many
<1> QED
  BY <1>1, <1>2, <1>3, <1>4, <1>5, <1>6, <1>7 DEF Login

LEMMA NextIInv == IInv /\ [Next]_vars => IInv'
<1> SUFFICES ASSUME IInv, [Next]_vars PROVE IInv'
  OBVIOUS
<1>1. CASE UNCHANGED vars
  BY <1>1 DEF vars, IInv, TypeOK, CountersComeFromDevice, CountingSignsAboveZero, WindowIsSerial, WrittenIsSpent,
              VerifiedIsAbove, Window, At, Counter
<1>2. CASE Forget \/ \E c \in Ceremonies : Begin(c) \/ Sign(c)
  BY <1>2, TabIInv
<1>3. CASE \E r \in Requests : Login(r)
  BY <1>3, StepIInv
<1> QED
  BY <1>1, <1>2, <1>3 DEF Next

THEOREM Invariance == Spec => []IInv
<1> QED
  BY InitIInv, NextIInv, PTL DEF Spec

-----------------------------------------------------------------------------
(* Type correctness of the counters, the cookie and every request.         *)
THEOREM TypeCorrect == Spec => []TypeOK
<1>1. IInv => TypeOK
  BY DEF IInv
<1> QED
  BY <1>1, Invariance, PTL

(* Without an overlap no assertion of a counting authenticator signs in    *)
(* twice, for any number of requests that carry it.                        *)
THEOREM AssertionSignsInOnceHolds == Spec => []AssertionSignsInOnce
<1>1. ASSUME IInv, counts, ~raced, NEW c \in Ceremonies
      PROVE sessions[c] <= 1
  <2>1. sessions[c] \in 0 .. 2
    BY <1>1 DEF IInv, TypeOK, Many
  <2>2. sessions[c] > 0 => sessions[c] = 1
    BY <1>1 DEF IInv, WrittenIsSpent
  <2> QED
    BY <2>1, <2>2
<1>2. IInv => AssertionSignsInOnce
  BY <1>1 DEF AssertionSignsInOnce
<1> QED
  BY <1>2, Invariance, PTL

(* The stored counter never runs ahead of the authenticator.               *)
THEOREM NeverLockedOutHolds == Spec => []NeverLockedOut
<1>1. IInv => NeverLockedOut
  BY DEF IInv, CountersComeFromDevice, NeverLockedOut
<1> QED
  BY <1>1, Invariance, PTL

(* A rollback is reported only to a request that was overtaken: another    *)
(* one wrote the counter after it looked it up.                            *)
THEOREM NoFalseRollbackHolds == Spec => NoFalseRollback
<1>1. ASSUME IInv, NEW r \in Requests, RefuseRollback(r) PROVE stored # req[r].seen
  <2>1. req[r].step = "read" /\ Counter(r) > 0 /\ Counter(r) < stored
    BY <1>1 DEF RefuseRollback, RolledBack, At
  <2>2. Counter(r) > req[r].seen
    BY <1>1, <2>1 DEF IInv, VerifiedIsAbove, At
  <2>3. req[r].seen \in Nat /\ stored \in Nat /\ Counter(r) \in Nat
    BY <1>1, <2>1 DEF IInv, TypeOK, Request, At
  <2> QED
    BY <2>1, <2>2, <2>3
<1>2. IInv /\ [Next]_vars => [\A r \in Requests : RefuseRollback(r) => stored # req[r].seen]_vars
  BY <1>1
<1> QED
  BY <1>2, Invariance, PTL DEF Spec, NoFalseRollback

(* The stored counter goes back only after an overlap, although the UPDATE *)
(* does not compare.                                                       *)
THEOREM CounterForwardHolds == Spec => CounterForward
<1>1. ASSUME IInv, [Next]_vars PROVE raced \/ stored' >= stored
  <2>1. CASE \E r \in Requests : WriteCounter(r)
    BY <1>1, <2>1 DEF IInv, TypeOK, WindowIsSerial, WriteCounter, Larger, At, Window, Counter
  <2>2. CASE ~\E r \in Requests : WriteCounter(r)
    <3>1. stored' = stored
      BY <1>1, <2>2 DEF Next, Login, Begin, Sign, Forget, Submit, Lookup, Verify, RefuseAssertion, ReadCounter,
                        RefuseRollback, IssueSession, Respond, Cancel, vars
    <3> QED
      BY <1>1, <3>1 DEF IInv, TypeOK
  <2> QED
    BY <2>1, <2>2
<1>2. IInv /\ [Next]_vars => [raced \/ stored' >= stored]_vars
  BY <1>1
<1> QED
  BY <1>2, Invariance, PTL DEF Spec, CounterForward
=============================================================================
