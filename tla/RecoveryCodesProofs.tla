------------------------ MODULE RecoveryCodesProofs -------------------------
(***************************************************************************)
(* Recovery codes, for every set of codes and requests: what holds however *)
(* sign-ins race, and the one-time property until they do.                 *)
(***************************************************************************)
EXTENDS RecoveryCodes, TLAPS

(* The list a request is about to write is not empty, whatever the other   *)
(* requests have written in the meantime.                                  *)
WritesSomething == \A r \in Requests : At(r, "update") => Remaining(r) # {}

IInv == TypeOK /\ CodesNeverRunOut /\ LoginsUseIssuedCodes /\ WritesSomething

LEMMA IdleTyped == IdleRequest \in Request
BY CodesAssumption DEF IdleRequest, Request, Steps

LEMMA InitIInv == Init => IInv
<1> SUFFICES ASSUME Init PROVE IInv
  OBVIOUS
<1>1. IdleRequest.step = "idle"
  BY DEF IdleRequest
<1>2. TypeOK /\ CodesNeverRunOut
  BY CodesAssumption, IdleTyped DEF Init, TypeOK, CodesNeverRunOut
<1>3. LoginsUseIssuedCodes /\ WritesSomething
  BY <1>1 DEF Init, LoginsUseIssuedCodes, WritesSomething, At
<1> QED
  BY <1>2, <1>3 DEF IInv

LEMMA NextIInv == IInv /\ [Next]_vars => IInv'
<1> SUFFICES ASSUME IInv, [Next]_vars PROVE IInv'
  OBVIOUS
<1> USE DEF IInv, TypeOK, CodesNeverRunOut, LoginsUseIssuedCodes, WritesSomething, At, Remaining
<1>1. CASE UNCHANGED vars
  BY <1>1 DEF vars
<1>2. ASSUME NEW r \in Requests, Authenticate(r) PROVE IInv'
  <2>0. req[r] \in Request
    OBVIOUS
  <2>1. ASSUME NEW code \in Codes, ReadHashes(r, code) PROVE IInv'
    <3>1. [step |-> "compare", code |-> code, held |-> hashes] \in Request
      BY DEF Request, Steps
    <3> QED
      BY <2>1, <3>1 DEF ReadHashes
  <2>2. CASE RefuseUnknown(r) \/ RefuseLast(r) \/ Cancel(r)
    <3>1. req' = [req EXCEPT ![r] = IdleRequest] /\ UNCHANGED <<hashes, logins, raced>>
      BY <2>2 DEF RefuseUnknown, RefuseLast, Cancel, Finish
    <3> QED
      BY <3>1, IdleTyped DEF IdleRequest
  <2>3. CASE Match(r)
    BY <2>0, <2>3 DEF Match, Goto, Request, Steps
  <2>4. CASE WriteRemaining(r)
    <3>1. req[r].held \subseteq Issued
      BY <2>0 DEF Request
    <3> QED
      BY <2>0, <2>4, <3>1 DEF WriteRemaining, Goto, Request, Steps
  <2>5. CASE AuditLogin(r)
    BY <2>0, <2>5 DEF AuditLogin, Goto, Request, Steps
  <2>6. CASE IssueSession(r)
    <3>1. req[r].code \in Issued /\ req[r].code \in Codes
      BY <2>0, <2>6 DEF IssueSession, Request
    <3>2. req' = [req EXCEPT ![r] = IdleRequest] /\ hashes' = hashes /\ raced' = raced
          /\ logins' = [logins EXCEPT ![req[r].code] = @ + 1]
      BY <2>6 DEF IssueSession, Finish
    <3> QED
      BY <3>1, <3>2, IdleTyped DEF IdleRequest
  <2> QED
    BY <1>2, <2>1, <2>2, <2>3, <2>4, <2>5, <2>6 DEF Authenticate
<1> QED
  BY <1>1, <1>2 DEF Next

LEMMA Invariance == Spec => []IInv
<1> QED
  BY InitIInv, NextIInv, PTL DEF Spec

(* Every variable has its type, for any number of requests at once.        *)
THEOREM TypeCorrect == Spec => []TypeOK
<1>1. IInv => TypeOK
  BY DEF IInv
<1> QED
  BY <1>1, Invariance, PTL

(* Racing sign-ins never empty the list (consumeRecoveryCode).             *)
THEOREM CodesNeverRunOutHolds == Spec => []CodesNeverRunOut
<1>1. IInv => CodesNeverRunOut
  BY DEF IInv
<1> QED
  BY <1>1, Invariance, PTL

(* Every sign-in was paid for with an issued code.                         *)
THEOREM LoginsUseIssuedCodesHolds == Spec => []LoginsUseIssuedCodes
<1>1. IInv => LoginsUseIssuedCodes
  BY DEF IInv
<1> QED
  BY <1>1, Invariance, PTL

-----------------------------------------------------------------------------
(* Until two requests are in progress at once: what a request has read is  *)
(* what is stored, and a code it has burned is gone and has not signed in  *)
(* before.                                                                 *)
Serial ==
  ~raced =>
    /\ \A r, q \in Requests : ~At(r, "idle") /\ ~At(q, "idle") => r = q
    /\ \A r \in Requests : req[r].step \in {"compare", "update"} => req[r].held = hashes
    /\ \A r \in Requests : req[r].step \in {"audit", "session"} =>
         req[r].code \notin hashes /\ logins[req[r].code] = 0
    /\ \A c \in hashes : logins[c] = 0
    /\ \A c \in Codes : logins[c] <= 1

LEMMA InitSerial == Init => Serial
<1>1. IdleRequest.step = "idle"
  BY DEF IdleRequest
<1> QED
  BY <1>1, CodesAssumption DEF Init, Serial, At

LEMMA NextSerial ==
  ASSUME IInv, Serial, [Next]_vars
  PROVE  Serial'
<1> USE DEF IInv, TypeOK, LoginsUseIssuedCodes, Serial, At, Remaining
<1>1. CASE UNCHANGED vars
  BY <1>1 DEF vars
<1>2. ASSUME NEW r \in Requests, Authenticate(r) PROVE Serial'
  <2>0. req[r] \in Request
    OBVIOUS
  <2>1. ASSUME NEW code \in Codes, ReadHashes(r, code) PROVE Serial'
    <3> SUFFICES ASSUME ~raced' PROVE Serial'
      OBVIOUS
    <3>1. ~raced /\ \A q \in Requests : q # r => req[q].step = "idle"
      BY <2>1 DEF ReadHashes
    <3>2. /\ req' = [req EXCEPT ![r] = [step |-> "compare", code |-> code, held |-> hashes]]
          /\ UNCHANGED <<hashes, logins>>
      BY <2>1 DEF ReadHashes
    <3> QED
      BY <3>1, <3>2
  <2>2. CASE RefuseUnknown(r) \/ RefuseLast(r) \/ Cancel(r)
    <3>1. req' = [req EXCEPT ![r] = IdleRequest] /\ UNCHANGED <<hashes, logins, raced>>
      BY <2>2 DEF RefuseUnknown, RefuseLast, Cancel, Finish
    <3> QED
      BY <3>1 DEF IdleRequest
  <2>3. CASE Match(r)
    BY <2>0, <2>3 DEF Match, Goto, Request
  <2>4. CASE WriteRemaining(r)
    BY <2>0, <2>4 DEF WriteRemaining, Goto, Request
  <2>5. CASE AuditLogin(r)
    BY <2>0, <2>5 DEF AuditLogin, Goto, Request
  <2>6. CASE IssueSession(r)
    <3> SUFFICES ASSUME ~raced' PROVE Serial'
      OBVIOUS
    <3>1. /\ req' = [req EXCEPT ![r] = IdleRequest] /\ hashes' = hashes /\ raced' = raced
          /\ logins' = [logins EXCEPT ![req[r].code] = @ + 1]
      BY <2>6 DEF IssueSession, Finish
    <3>2. req[r].code \in Codes /\ req[r].code \notin hashes /\ logins[req[r].code] = 0
      BY <2>0, <2>6, <3>1 DEF IssueSession, Request
    <3> QED
      BY <2>0, <2>6, <3>1, <3>2 DEF IdleRequest, IssueSession
  <2> QED
    BY <1>2, <2>1, <2>2, <2>3, <2>4, <2>5, <2>6 DEF Authenticate
<1> QED
  BY <1>1, <1>2 DEF Next

(* A code signs in at most once, until two requests race                   *)
(* (AuthenticateRecoveryCode, consumeRecoveryCode).                        *)
THEOREM SerialSignsInOnceHolds == Spec => []SerialSignsInOnce
<1>1. Serial => SerialSignsInOnce
  BY DEF Serial, SerialSignsInOnce
<1> QED
  BY <1>1, NextSerial, InitSerial, Invariance, PTL DEF Spec

(* A step burns a live code, signs in with a burned one, changes neither,  *)
(* or is one the codes make no promise about.                              *)
LEMMA StepRefines ==
  ASSUME IInv, IInv', Serial, [Next]_vars
  PROVE  [OneTime!Next]_<<hashes, {c \in Codes : logins[c] > 0}, raced>>
<1> DEFINE spent == {c \in Codes : logins[c] > 0}
<1> SUFFICES ASSUME <<hashes, logins, raced>>' # <<hashes, logins, raced>> PROVE OneTime!Next
  OBVIOUS
<1> USE DEF IInv, TypeOK, LoginsUseIssuedCodes, At, Remaining
<1>1. PICK r \in Requests : \/ \E code \in Codes : ReadHashes(r, code)
                            \/ WriteRemaining(r) \/ IssueSession(r)
  BY DEF vars, Next, Authenticate, RefuseUnknown, RefuseLast, Match, AuditLogin, Cancel
<1>2. req[r].code \in Codes
  BY <1>1 DEF WriteRemaining, IssueSession, Request
<1>3. spent \subseteq spent' /\ spent' \subseteq Issued
  <2>1. CASE IssueSession(r)
    BY <1>2, <2>1 DEF IssueSession
  <2>2. CASE UNCHANGED logins
    BY <2>2
  <2> QED
    BY <1>1, <2>1, <2>2 DEF ReadHashes, WriteRemaining
<1>4. hashes' \subseteq Issued /\ hashes' # {}
  BY DEF CodesNeverRunOut
<1>5. CASE raced'
  <2>1. raced \/ UNCHANGED <<hashes, spent>>
    BY <1>1, <1>5 DEF ReadHashes, WriteRemaining, IssueSession
  <2> QED
    BY <1>3, <1>4, <1>5, <2>1 DEF OneTime!Next, OneTime!Race
<1>6. CASE ~raced'
  <2>1. ~raced /\ raced' = raced /\ (WriteRemaining(r) \/ IssueSession(r))
    BY <1>1, <1>6 DEF ReadHashes, WriteRemaining, IssueSession
  <2>2. CASE WriteRemaining(r)
    <3>1. req[r].held = hashes /\ req[r].code \in hashes
      BY <2>1, <2>2 DEF WriteRemaining, Serial
    <3> QED
      BY <1>2, <1>4, <2>1, <2>2, <3>1 DEF WriteRemaining, OneTime!Next, OneTime!Burn
  <2>3. CASE IssueSession(r)
    <3>1. req[r].code \in Issued /\ req[r].code \notin hashes /\ logins[req[r].code] = 0
      BY <2>1, <2>3 DEF IssueSession, Request, Serial
    <3>2. logins' = [logins EXCEPT ![req[r].code] = 1] /\ hashes' = hashes
      BY <2>3, <3>1 DEF IssueSession
    <3>3. spent' = spent \cup {req[r].code}
      BY <1>2, <3>2
    <3> QED
      BY <1>2, <2>1, <3>1, <3>2, <3>3 DEF OneTime!Next, OneTime!SignIn
  <2> QED
    BY <2>1, <2>2, <2>3
<1> QED
  BY <1>5, <1>6

(* The operator sees one-time codes as the recovery page describes them,   *)
(* until two sign-ins race, and what is left of the promise afterwards.    *)
THEOREM RefinesOneTimeCodes == Spec => ImplementsOneTime
<1>1. Init => OneTime!Init
  BY DEF Init, OneTime!Init
<1>2. IInv /\ Serial /\ [Next]_vars => Serial'
  BY NextSerial
<1>3. IInv /\ IInv' /\ Serial /\ [Next]_vars
        => [OneTime!Next]_<<hashes, {c \in Codes : logins[c] > 0}, raced>>
  BY StepRefines
<1> QED
  BY <1>1, <1>2, <1>3, InitSerial, Invariance, PTL DEF Spec, ImplementsOneTime, OneTime!Spec
=============================================================================
