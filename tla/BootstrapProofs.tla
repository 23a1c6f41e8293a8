--------------------------- MODULE BootstrapProofs ---------------------------
(* Proofs about Bootstrap, for any set of names, ceremonies and requests.  *)
EXTENDS Bootstrap, TLAPS

-----------------------------------------------------------------------------
(* The UNIQUE constraint, and each row under the name its ceremony chose.  *)
RowsAreCeremonies ==
  /\ \A row1, row2 \in operators : row1.username = row2.username => row1 = row2
  /\ \A row \in operators : row.username = username[row.kit] /\ stage[row.kit] # "new"

(* What a running call has behind it.                                      *)
Progress ==
  \A r \in Requests :
    /\ req[r].step # "idle" => stage[req[r].ceremony] # "new"
    /\ req[r].step \in {"audit", "session", "respond"} => RowOf(r) \in operators
    /\ req[r].step \in {"session", "respond"} => req[r].ceremony \in audited

ShownHasRow ==
  \A c \in shown : stage[c] # "new" /\ [username |-> username[c], kit |-> c] \in operators

IInv ==
  /\ TypeOK
  /\ RowsAreCeremonies
  /\ Progress
  /\ ShownHasRow
  /\ SessionsAreOfOwners

-----------------------------------------------------------------------------
LEMMA InitIInv == Init => IInv
<1> SUFFICES ASSUME Init PROVE IInv
  OBVIOUS
<1>1. (CHOOSE u \in Usernames : TRUE) \in Usernames /\ (CHOOSE c \in Ceremonies : TRUE) \in Ceremonies
  BY UsernamesAssumption
<1>2. TypeOK
  BY <1>1 DEF Init, TypeOK, Row, Stages, Steps
<1> QED
  BY <1>2 DEF Init, IInv, RowsAreCeremonies, Progress, ShownHasRow, SessionsAreOfOwners

LEMMA NextTypeOK == TypeOK /\ [Next]_vars => TypeOK'
<1> SUFFICES ASSUME TypeOK, [Next]_vars PROVE TypeOK'
  OBVIOUS
<1> USE DEF TypeOK, At, Goto, Finish, RowOf, Row, Stages, Steps
<1>1. CASE UNCHANGED vars
  BY <1>1 DEF vars
<1>2. ASSUME NEW c \in Ceremonies, Visit(c) PROVE TypeOK'
  BY <1>2 DEF Visit, MintCeremony, ForgetCeremony
<1>3. ASSUME NEW r \in Requests, Setup(r) PROVE TypeOK'
  <2>1. CASE \E c \in Ceremonies : Verify(r, c)
    BY <2>1 DEF Verify
  <2>2. CASE CountNone(r)
    BY <2>2 DEF CountNone
  <2>3. CASE RefuseCompleted(r) \/ RefuseTakenName(r) \/ Cancel(r)
    BY <2>3 DEF RefuseCompleted, RefuseTakenName, Cancel
  <2>4. CASE InsertOperator(r)
    BY <2>4 DEF InsertOperator
  <2>5. CASE AuditBootstrap(r)
    BY <2>5 DEF AuditBootstrap
  <2>6. CASE IssueSession(r)
    BY <2>6 DEF IssueSession
  <2>7. CASE DiscloseKit(r)
    BY <2>7 DEF DiscloseKit
  <2> QED
    BY <1>3, <2>1, <2>2, <2>3, <2>4, <2>5, <2>6, <2>7 DEF Setup
<1> QED
  BY <1>1, <1>2, <1>3 DEF Next

LEMMA NextIInv == IInv /\ [Next]_vars => IInv'
<1> SUFFICES ASSUME IInv, [Next]_vars PROVE IInv'
  OBVIOUS
<1>0. TypeOK'
  BY NextTypeOK DEF IInv
<1> USE DEF IInv, TypeOK, Row, At
<1> DEFINE Rest == RowsAreCeremonies /\ Progress /\ ShownHasRow /\ SessionsAreOfOwners
<1> SUFFICES Rest'
  BY <1>0
<1>1. CASE UNCHANGED vars
  BY <1>1 DEF vars, RowsAreCeremonies, Progress, RowOf, ShownHasRow, SessionsAreOfOwners
<1>2. ASSUME NEW c \in Ceremonies, Visit(c) PROVE Rest'
  <2>1. UNCHANGED <<operators, req, audited, sessions, shown>>
    BY <1>2 DEF Visit, MintCeremony, ForgetCeremony
  <2>2. \A d \in Ceremonies : stage[d] # "new" => stage'[d] # "new" /\ username'[d] = username[d]
    BY <1>2 DEF Visit, MintCeremony, ForgetCeremony
  <2> QED
    BY <2>1, <2>2 DEF RowsAreCeremonies, Progress, RowOf, ShownHasRow, SessionsAreOfOwners
<1>3. ASSUME NEW r \in Requests, Setup(r) PROVE Rest'
  <2>0. req[r].ceremony \in Ceremonies
    OBVIOUS
  <2>1. CASE \E c \in Ceremonies : Verify(r, c)
    BY <2>1 DEF Verify, RowsAreCeremonies, Progress, RowOf, ShownHasRow, SessionsAreOfOwners
  <2>2. CASE CountNone(r)
    BY <2>2 DEF CountNone, Goto, RowsAreCeremonies, Progress, RowOf, ShownHasRow, SessionsAreOfOwners
  <2>3. CASE RefuseCompleted(r) \/ RefuseTakenName(r) \/ Cancel(r)
    <3>1. Finish(r) /\ UNCHANGED <<operators, stage, username, audited, sessions, shown, raced>>
      BY <2>3 DEF RefuseCompleted, RefuseTakenName, Cancel
    <3> QED
      BY <3>1 DEF Finish, Goto, RowsAreCeremonies, Progress, RowOf, ShownHasRow, SessionsAreOfOwners
  <2>4. CASE InsertOperator(r)
    <3> DEFINE new == [username |-> username[req[r].ceremony], kit |-> req[r].ceremony]
    <3>1. operators' = operators \cup {new}
      BY <2>4 DEF InsertOperator, RowOf
    <3>2. \A row \in operators : row.username # new.username
      BY <2>4 DEF InsertOperator, Named
    <3>3. UNCHANGED <<stage, username, audited, sessions, shown, raced>> /\ Goto(r, "audit") /\ At(r, "insert")
      BY <2>4 DEF InsertOperator
    <3>4. stage[new.kit] # "new"
      BY <3>3 DEF Progress
    <3>5. RowsAreCeremonies'
      BY <3>1, <3>2, <3>3, <3>4 DEF RowsAreCeremonies
    <3>6. Progress'
      BY <3>1, <3>3 DEF Progress, Goto, RowOf
    <3>7. ShownHasRow' /\ SessionsAreOfOwners'
      BY <3>1, <3>3 DEF ShownHasRow, SessionsAreOfOwners
    <3> QED
      BY <3>5, <3>6, <3>7
  <2>5. CASE AuditBootstrap(r)
    <3>1. [username |-> username[req[r].ceremony], kit |-> req[r].ceremony] \in operators
      BY <2>5 DEF AuditBootstrap, Progress, RowOf
    <3>2. SessionsAreOfOwners'
      BY <2>5, <3>1 DEF AuditBootstrap, SessionsAreOfOwners
    <3> QED
      BY <2>5, <3>2 DEF AuditBootstrap, Goto, RowsAreCeremonies, Progress, RowOf, ShownHasRow
  <2>6. CASE IssueSession(r)
    <3>1. SessionsAreOfOwners'
      BY <2>6 DEF IssueSession, SessionsAreOfOwners, Progress
    <3> QED
      BY <2>6, <3>1 DEF IssueSession, Goto, RowsAreCeremonies, Progress, RowOf, ShownHasRow
  <2>7. CASE DiscloseKit(r)
    <3>1. [username |-> username[req[r].ceremony], kit |-> req[r].ceremony] \in operators
      BY <2>7 DEF DiscloseKit, Progress, RowOf
    <3>2. \A d \in Ceremonies : stage[d] # "new" => stage'[d] # "new"
      BY <2>7 DEF DiscloseKit
    <3>3. stage'[req[r].ceremony] # "new"
      BY <2>7 DEF DiscloseKit
    <3> QED
      BY <2>7, <3>1, <3>2, <3>3
         DEF DiscloseKit, Finish, Goto, RowsAreCeremonies, Progress, RowOf, ShownHasRow, SessionsAreOfOwners
  <2> QED
    BY <1>3, <2>1, <2>2, <2>3, <2>4, <2>5, <2>6, <2>7 DEF Setup
<1> QED
  BY <1>1, <1>2, <1>3 DEF Next

LEMMA Invariance == Spec => []IInv
  BY InitIInv, NextIInv, PTL DEF Spec

(* Type correctness of the setup state.                                    *)
THEOREM TypeCorrect == Spec => []TypeOK
<1>1. IInv => TypeOK
  BY DEF IInv
<1> QED
  BY <1>1, Invariance, PTL

(* A displayed kit opens the only account of its name.                     *)
THEOREM ShownKitWorksHolds == Spec => []ShownKitWorks
<1>1. IInv => ShownKitWorks
  BY DEF IInv, ShownHasRow, RowsAreCeremonies, ShownKitWorks, Named
<1> QED
  BY <1>1, Invariance, PTL

(* No session without its audit entry, no entry without its operator.      *)
THEOREM SessionsAreOfOwnersHolds == Spec => []SessionsAreOfOwners
<1>1. IInv => SessionsAreOfOwners
  BY DEF IInv
<1> QED
  BY <1>1, Invariance, PTL

-----------------------------------------------------------------------------
(* Until two calls race, the count a call has read is still true when it   *)
(* inserts.                                                                *)
Serial ==
  ~raced =>
    /\ \A r, q \in Requests : ~At(r, "idle") /\ ~At(q, "idle") => r = q
    /\ \A r \in Requests : At(r, "insert") => operators = {}
    /\ \A row1, row2 \in operators : row1 = row2

LEMMA NextSerial ==
  ASSUME IInv, Serial, [Next]_vars
  PROVE  Serial'
<1> SUFFICES ASSUME ~raced' PROVE Serial'
  BY DEF Serial
<1> USE DEF IInv, TypeOK, Serial, At, Goto, Finish
<1>1. CASE UNCHANGED vars
  BY <1>1 DEF vars
<1>2. ASSUME NEW c \in Ceremonies, Visit(c) PROVE Serial'
  BY <1>2 DEF Visit, MintCeremony, ForgetCeremony
<1>3. ASSUME NEW r \in Requests, Setup(r) PROVE Serial'
  <2>1. CASE \E c \in Ceremonies : Verify(r, c)
    <3>1. PICK c \in Ceremonies : Verify(r, c)
      BY <2>1
    <3>2. ~raced /\ \A q \in Requests : q # r => req[q].step = "idle"
      BY <3>1 DEF Verify
    <3> QED
      BY <3>1, <3>2 DEF Verify
  <2>2. CASE ~\E c \in Ceremonies : Verify(r, c)
    <3>1. ~raced /\ ~At(r, "idle") /\ \A q \in Requests : q # r => req[q].step = "idle" /\ req'[q] = req[q]
      BY <1>3, <2>2 DEF Setup, CountNone, RefuseCompleted, InsertOperator, RefuseTakenName,
                        AuditBootstrap, IssueSession, DiscloseKit, Cancel
    <3>2. CASE InsertOperator(r)
      BY <3>1, <3>2 DEF InsertOperator
    <3>3. CASE ~InsertOperator(r)
      BY <1>3, <2>2, <3>1, <3>3 DEF Setup, CountNone, RefuseCompleted, RefuseTakenName,
                                    AuditBootstrap, IssueSession, DiscloseKit, Cancel
    <3> QED
      BY <3>2, <3>3
  <2> QED
    BY <2>1, <2>2
<1> QED
  BY <1>1, <1>2, <1>3 DEF Next

(* Until two calls of the verify route race, setup creates one operator    *)
(* however many ceremonies and names were used.                            *)
THEOREM SerialSetupHasOneOwnerHolds == Spec => []SerialSetupHasOneOwner
<1>1. Init => Serial
  BY DEF Init, Serial, At
<1>2. IInv /\ Serial /\ [Next]_vars => Serial'
  BY NextSerial
<1>3. Serial => SerialSetupHasOneOwner
  BY DEF Serial, SerialSetupHasOneOwner
<1> QED
  BY <1>1, <1>2, <1>3, Invariance, PTL DEF Spec

-----------------------------------------------------------------------------
(* The refinement: a call is let in when its count finds no operator, and  *)
(* it claims the panel with its insert.                                    *)
Inserting == {r \in Requests : At(r, "insert")}

(* Requests that keep their step keep their place, and one changes.        *)
LEMMA StepOf ==
  ASSUME TypeOK, NEW r \in Requests, NEW step \in Steps, Goto(r, step)
  PROVE  Inserting' = IF step = "insert" THEN Inserting \cup {r} ELSE Inserting \ {r}
BY DEF TypeOK, Goto, Inserting, At

LEMMA VisitRefines ==
  ASSUME NEW c \in Ceremonies, Visit(c)
  PROVE  UNCHANGED <<operators, Inserting, shown, raced>>
BY DEF Visit, MintCeremony, ForgetCeremony, Inserting, At

LEMMA VerifyRefines ==
  ASSUME TypeOK, NEW r \in Requests, NEW c \in Ceremonies, Verify(r, c)
  PROVE  Owner!Next \/ UNCHANGED <<operators, Inserting, shown, raced>>
<1>1. Inserting' = Inserting
  BY DEF TypeOK, Verify, Inserting, At
<1>2. UNCHANGED <<operators, shown>> /\ raced' \in {TRUE, raced}
  BY DEF Verify, TypeOK
<1>3. CASE raced' = TRUE
  BY <1>1, <1>2, <1>3 DEF Owner!Next, Owner!Race, Inserting
<1> QED
  BY <1>1, <1>2, <1>3

(* Until two calls race the one that counts is alone.                      *)
LEMMA CountRefines ==
  ASSUME IInv, Serial, NEW r \in Requests, CountNone(r)
  PROVE  Owner!Next
<1>1. Inserting' = Inserting \cup {r}
  BY StepOf DEF IInv, CountNone, Steps
<1>2. operators = {} /\ UNCHANGED <<operators, shown, raced>>
  BY DEF CountNone
<1>3. raced \/ Inserting = {}
  <2> SUFFICES ASSUME ~raced, NEW q \in Requests, At(q, "insert") PROVE FALSE
    BY DEF Inserting
  <2>1. ~At(r, "idle") /\ ~At(q, "idle") /\ q # r
    BY DEF CountNone, At
  <2> QED
    BY <2>1 DEF Serial
<1>4. Owner!Enter(r)
  BY <1>1, <1>2, <1>3 DEF Owner!Enter, Inserting
<1> QED
  BY <1>4 DEF Owner!Next

LEMMA EndRefines ==
  ASSUME IInv, NEW r \in Requests, RefuseCompleted(r) \/ RefuseTakenName(r) \/ Cancel(r)
  PROVE  Owner!Next \/ UNCHANGED <<operators, Inserting, shown, raced>>
<1>1. Inserting' = Inserting \ {r}
  BY StepOf DEF IInv, RefuseCompleted, RefuseTakenName, Cancel, Finish, Steps
<1>2. UNCHANGED <<operators, shown, raced>>
  BY DEF RefuseCompleted, RefuseTakenName, Cancel
<1>3. CASE r \in Inserting
  BY <1>1, <1>2, <1>3 DEF Owner!Next, Owner!Leave, Inserting
<1>4. CASE r \notin Inserting
  BY <1>1, <1>2, <1>4
<1> QED
  BY <1>3, <1>4

(* The UNIQUE constraint is on the name; the kit is new as well, since a   *)
(* kit is only ever stored under the one name it was minted for.           *)
LEMMA InsertRefines ==
  ASSUME IInv, NEW r \in Requests, InsertOperator(r)
  PROVE  Owner!Next
<1> DEFINE c == req[r].ceremony
           u == username[c]
<1>1. c \in Ceremonies /\ u \in Usernames
  BY DEF IInv, TypeOK
<1>2. Inserting' = Inserting \ {r} /\ r \in Inserting
  BY StepOf DEF IInv, InsertOperator, Inserting, Steps
<1>3. operators' = operators \cup {[username |-> u, kit |-> c]} /\ UNCHANGED <<shown, raced>>
  BY DEF InsertOperator, RowOf
<1>4. \A row \in operators : row.username # u /\ row.kit # c
  BY DEF IInv, RowsAreCeremonies, InsertOperator, Named
<1> HIDE DEF c, u
<1>5. Owner!Claim(r, u, c)
  BY <1>2, <1>3, <1>4 DEF Owner!Claim, Inserting
<1> QED
  BY <1>1, <1>5 DEF Owner!Next

LEMMA RecordRefines ==
  ASSUME TypeOK, NEW r \in Requests, AuditBootstrap(r) \/ IssueSession(r)
  PROVE  UNCHANGED <<operators, Inserting, shown, raced>>
<1>1. PICK step \in Steps : step # "insert" /\ Goto(r, step)
  BY DEF AuditBootstrap, IssueSession, Steps
<1>2. r \notin Inserting
  BY DEF AuditBootstrap, IssueSession, Inserting, At
<1>3. Inserting' = Inserting
  BY <1>1, <1>2, StepOf
<1> QED
  BY <1>3 DEF AuditBootstrap, IssueSession

LEMMA DiscloseRefines ==
  ASSUME IInv, NEW r \in Requests, DiscloseKit(r)
  PROVE  Owner!Next
<1>1. RowOf(r) \in operators /\ RowOf(r).kit = req[r].ceremony
  BY DEF IInv, Progress, DiscloseKit, At, RowOf
<1>2. r \notin Inserting
  BY DEF DiscloseKit, Inserting, At
<1>3. Inserting' = Inserting
  BY <1>2, StepOf DEF IInv, DiscloseKit, Finish, Steps
<1>4. shown' = shown \cup {RowOf(r).kit} /\ UNCHANGED <<operators, raced>>
  BY <1>1 DEF DiscloseKit
<1>5. Owner!Disclose(RowOf(r))
  BY <1>1, <1>3, <1>4 DEF Owner!Disclose, Inserting
<1> QED
  BY <1>1, <1>5 DEF Owner!Next

(* Setup is open until there is an operator: every insert is by a call     *)
(* that counted before, under a new name and with a new kit, one at a time *)
(* until two calls race; and only kits of operators are displayed.         *)
THEOREM RefinesFirstOwner == Spec => ImplementsFirstOwner
<1>1. Init => Owner!Init
  BY DEF Init, Owner!Init, At
<1>2. Init => Serial
  BY DEF Init, Serial, At
<1>3. IInv /\ Serial /\ [Next]_vars => Serial'
  BY NextSerial
<1>4. IInv /\ Serial /\ [Next]_vars
        => [Owner!Next]_<<operators, {r \in Requests : At(r, "insert")}, shown, raced>>
  <2> SUFFICES ASSUME IInv, Serial, [Next]_vars
               PROVE  Owner!Next \/ UNCHANGED <<operators, Inserting, shown, raced>>
    BY DEF Inserting
  <2>0. TypeOK
    BY DEF IInv
  <2>1. CASE UNCHANGED vars
    BY <2>1 DEF vars, Inserting, At
  <2>2. ASSUME NEW r \in Requests, Setup(r)
        PROVE  Owner!Next \/ UNCHANGED <<operators, Inserting, shown, raced>>
    BY <2>0, <2>2, VerifyRefines, CountRefines, EndRefines, InsertRefines, RecordRefines,
       DiscloseRefines, Zenon DEF Setup
  <2> QED
    BY <2>1, <2>2, VisitRefines DEF Next
<1> QED
  BY <1>1, <1>2, <1>3, <1>4, Invariance, PTL DEF Spec, ImplementsFirstOwner, Owner!Spec
=============================================================================
