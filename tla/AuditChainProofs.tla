-------------------------- MODULE AuditChainProofs --------------------------
(***************************************************************************)
(* The audit log never breaks its own chain, for any number of concurrent  *)
(* callers and entries, as long as nobody edits the table from outside;    *)
(* and nobody without the key makes up a row that Verify accepts.          *)
(***************************************************************************)
EXTENDS AuditChain, SequenceTheorems, WellFoundedInduction, TLAPS

(* Each HMAC covers its entry, and each entry points at the one before it  *)
(* unless the read of that one failed; until somebody edits the table.     *)
Linked ==
  edits = 0 => \A i \in 1..Len(table) :
    /\ table[i].mac = Mac(Canonical(table[i].entry), table[i].prev)
    /\ \/ table[i].prev = ExpectedPrev(i)
       \/ faulted /\ table[i].prev = Genesis

(* While a caller holds the connection, nobody appends behind its back.    *)
ReaderIsCurrent ==
  edits = 0 => \A c \in Callers : call[c].step = "read" =>
    \/ call[c].prev = LastMac
    \/ faulted /\ call[c].prev = Genesis

IInv == TypeOK /\ Linked /\ ReaderIsCurrent

-----------------------------------------------------------------------------
LEMMA IdleTyped == IdleCall \in Call /\ Genesis \in Hash
<1>1. (CHOOSE e \in Loggable : TRUE) \in Entries
  BY AuditAssumption DEF Loggable
<1>2. Genesis \in Hash
  BY EmptySeq DEF Hash, Genesis
<1> QED
  BY <1>1, <1>2 DEF IdleCall, Call

(* An HMAC is neither the genesis value nor junk, and stands for one text  *)
(* and one previous HMAC.                                                  *)
LEMMA NoShorter ==
  ASSUME NEW S, NEW s \in Seq(S), NEW t \in Seq(S)
  PROVE  s \o t \in Seq(S) /\ Len(s \o t) = Len(s) + Len(t) /\ Len(s) \in Nat /\ Len(t) \in Nat
<1>1. s \o t \in Seq(S) /\ Len(s \o t) = Len(s) + Len(t)
  BY ConcatProperties
<1>2. Len(s) \in Nat /\ Len(t) \in Nat
  BY LenProperties
<1> QED
  BY <1>1, <1>2

LEMMA TextIsNotEmpty == ASSUME NEW e \in Entries PROVE Canonical(e) # <<>>
<1> DEFINE bar == <<"|">>
<1>1. bar \in Seq(Pieces) /\ Len(bar) > 0
  <2>1. "|" \in Pieces
    BY AuditAssumption
  <2>2. <<"|">> = Append(<<>>, "|") /\ <<>> \in Seq(Pieces)
    BY EmptySeq
  <2>3. Append(<<>>, "|") \in Seq(Pieces) /\ Len(Append(<<>>, "|")) = Len(<<>>) + 1
    BY <2>1, <2>2, AppendProperties
  <2> QED
    BY <2>2, <2>3, EmptySeq
<1>2. PICK a \in Seq(Pieces), b \in Seq(Pieces), d \in Seq(Pieces) :
        a = e.actor /\ b = e.resource /\ d = Reread(e.after)
  <2>1. e \in [actor: Text, resource: Text, after: Column]
    BY AuditAssumption DEF Entry
  <2>2. e.actor \in Text /\ e.resource \in Text /\ e.after \in Column
    BY <2>1
  <2>3. e.after.document \in Text
    BY <2>2 DEF Column
  <2>4. <<"null">> \in Seq(Pieces)
    <3>1. "null" \in Pieces
      BY AuditAssumption
    <3>2. <<"null">> = Append(<<>>, "null") /\ <<>> \in Seq(Pieces)
      BY EmptySeq
    <3> QED
      BY <3>1, <3>2, AppendProperties
  <2>5. Reread(e.after) \in Seq(Pieces)
    BY <2>3, <2>4 DEF Reread, Text
  <2> QED
    BY <2>2, <2>5 DEF Text
<1>3. Canonical(e) = a \o bar \o b \o bar \o d
  BY <1>2 DEF Canonical
<1> HIDE DEF bar
<1>4. a \o bar \in Seq(Pieces) /\ Len(a \o bar) > 0
  BY <1>1, NoShorter
<1>5. a \o bar \o b \in Seq(Pieces) /\ Len(a \o bar \o b) > 0
  BY <1>4, NoShorter
<1>6. a \o bar \o b \o bar \in Seq(Pieces) /\ Len(a \o bar \o b \o bar) > 0
  BY <1>1, <1>5, NoShorter
<1>7. Len(a \o bar \o b \o bar \o d) > 0
  BY <1>6, NoShorter
<1> QED
  BY <1>3, <1>7, EmptySeq

LEMMA MacTyped ==
  ASSUME NEW e \in Entries, NEW prev \in Hash
  PROVE  /\ Mac(Canonical(e), prev) \in Hash
         /\ Mac(Canonical(e), prev) # Genesis
         /\ Mac(Canonical(e), prev) # Junk
<1> DEFINE S == {Canonical(x) : x \in Entries} \cup {<<>>}
<1>1. Canonical(e) \in S /\ <<>> \in S /\ prev \in Seq(S) /\ Hash = Seq(S)
  BY DEF Hash
<1>2. PICK text \in S, none \in S : text = Canonical(e) /\ none = <<>> /\ text # none
  BY <1>1, TextIsNotEmpty
<1> HIDE DEF S
<1>3. Append(prev, text) \in Seq(S) /\ Append(prev, text) # <<>>
  BY <1>1, AppendProperties
<1>4. Append(prev, text) # <<none>>
  <2>1. PICK nil \in Seq(S) : nil = <<>>
    BY EmptySeq
  <2>2. <<none>> = Append(nil, none)
    BY <2>1
  <2>3. Append(prev, text) = Append(nil, none) <=> prev = nil /\ text = none
    <3>1. prev \in Seq(S) /\ text \in S /\ none \in S /\ nil \in Seq(S)
      BY <1>1
    <3> QED
      BY <3>1, AppendInjective
  <2> QED
    BY <1>2, <2>2, <2>3, Zenon
<1> QED
  BY <1>1, <1>2, <1>3, <1>4 DEF Mac, Genesis, Junk

LEMMA MacInjective ==
  ASSUME NEW e \in Entries, NEW f \in Entries, NEW p \in Hash, NEW q \in Hash,
         Mac(Canonical(e), p) = Mac(Canonical(f), q)
  PROVE  p = q /\ Canonical(e) = Canonical(f)
<1> DEFINE S == {Canonical(x) : x \in Entries} \cup {<<>>}
<1>1. Canonical(e) \in S /\ Canonical(f) \in S /\ p \in Seq(S) /\ q \in Seq(S)
  BY DEF Hash
<1>2. Append(p, Canonical(e)) = Append(q, Canonical(f))
  BY DEF Mac
<1> HIDE DEF S
<1>3. PICK x \in S, y \in S : x = Canonical(e) /\ y = Canonical(f)
  BY <1>1
<1>4. Append(p, x) = Append(q, y) <=> p = q /\ x = y
  BY <1>1, AppendInjective
<1> QED
  BY <1>2, <1>3, <1>4

LEMMA KnownMacsTyped == TypeOK => KnownMacs \subseteq Hash
<1>1. Junk \in Hash
  BY DEF Junk, Hash
<1>2. ASSUME TypeOK PROVE \A k \in 1..Len(written) : written[k].mac \in Hash
  <2>1. \A k \in 1..Len(written) : written[k] \in Row
    BY <1>2, ElementOfSeq DEF TypeOK
  <2> QED
    BY <2>1 DEF Row
<1> QED
  BY <1>1, <1>2, IdleTyped DEF KnownMacs

LEMMA EditedTyped ==
  ASSUME TypeOK, NEW i \in 1..Len(table), NEW row \in Edited(table[i])
  PROVE  row \in Row /\ row.id = table[i].id /\ row.mac \in KnownMacs \cup {table[i].mac}
<1>1. table[i] \in Row
  BY ElementOfSeq DEF TypeOK
<1>2. CASE \E e \in Entries : row = [table[i] EXCEPT !.entry = e]
  BY <1>1, <1>2 DEF Row
<1>3. CASE \E m \in KnownMacs : row = [table[i] EXCEPT !.prev = m]
  BY <1>1, <1>3, KnownMacsTyped DEF Row
<1>4. CASE \E m \in KnownMacs : row = [table[i] EXCEPT !.mac = m]
  BY <1>1, <1>4, KnownMacsTyped DEF Row
<1> QED
  BY <1>2, <1>3, <1>4 DEF Edited

LEMMA LastMacTyped == TypeOK => LastMac \in Hash
<1> SUFFICES ASSUME TypeOK PROVE LastMac \in Hash
  OBVIOUS
<1>1. CASE table = <<>>
  BY <1>1, IdleTyped DEF LastMac
<1>2. CASE table # <<>>
  <2>1. Len(table) \in 1..Len(table)
    BY <1>2, EmptySeq, LenProperties DEF TypeOK
  <2>2. table[Len(table)] \in Row
    BY <2>1, ElementOfSeq DEF TypeOK
  <2> QED
    BY <1>2, <2>2 DEF LastMac, Row
<1> QED
  BY <1>1, <1>2

LEMMA InitIInv == Init => IInv
<1> SUFFICES ASSUME Init PROVE IInv
  OBVIOUS
<1>1. TypeOK
  <2>1. table \in Seq(Row) /\ lastId \in 0..MaxId
    BY AuditAssumption, EmptySeq DEF Init
  <2>2. call \in [Callers -> Call] /\ \A c \in Callers : call[c].step = "idle"
    BY IdleTyped DEF Init, IdleCall
  <2>3. conn = Nobody /\ Nobody \notin Callers
    BY AuditAssumption DEF Init, Nobody
  <2>4. faulted \in BOOLEAN
    BY DEF Init
  <2>6. edits \in 0..MaxEdits
    BY AuditAssumption DEF Init
  <2>5. written \in Seq(Row)
    BY EmptySeq DEF Init
  <2> QED
    BY <2>1, <2>2, <2>3, <2>4, <2>5, <2>6 DEF TypeOK
<1>2. Linked /\ ReaderIsCurrent
  BY DEF Init, Linked, ReaderIsCurrent, IdleCall
<1> QED
  BY <1>1, <1>2 DEF IInv

LEMMA BeginStep ==
  ASSUME IInv, NEW c \in Callers, NEW e \in Loggable, Begin(c, e)
  PROVE  IInv'
<1> USE DEF IInv
<1> DEFINE new == [IdleCall EXCEPT !.step = "begun", !.entry = e]
<1>1. new \in Call /\ new.step = "begun"
  BY IdleTyped DEF Call, IdleCall, Loggable
<1>2. call' = [call EXCEPT ![c] = new] /\ conn = Nobody /\ conn' = c
  BY DEF Begin
<1> HIDE DEF new
<1>3. \A d \in Callers : call[d].step = "idle"
  BY <1>2, AuditAssumption DEF TypeOK, Nobody
<1>4. TypeOK'
  BY <1>1, <1>2, <1>3 DEF Begin, TypeOK, history
<1>5. Linked' /\ ReaderIsCurrent'
  BY <1>1, <1>2, <1>3 DEF Begin, TypeOK, Linked, ReaderIsCurrent, ExpectedPrev, LastMac, history
<1> QED
  BY <1>4, <1>5

LEMMA ReadStep ==
  ASSUME IInv, NEW c \in Callers, ReadPrev(c) \/ ReadPrevFails(c)
  PROVE  IInv'
<1> USE DEF IInv
<1>1. PICK p \in Hash :
        /\ call' = [call EXCEPT ![c] = [@ EXCEPT !.step = "read", !.prev = p]]
        /\ p = LastMac \/ (faulted' /\ p = Genesis)
  <2>1. CASE ReadPrev(c)
    <3>1. LastMac \in Hash
      BY LastMacTyped
    <3> QED
      BY <2>1, <3>1 DEF ReadPrev
  <2>2. CASE ReadPrevFails(c)
    BY <2>2, IdleTyped DEF ReadPrevFails
  <2> QED
    BY <2>1, <2>2
<1>2. /\ call[c].step = "begun" /\ UNCHANGED <<table, lastId, conn, written, edits>>
      /\ faulted' \in BOOLEAN /\ (faulted => faulted')
  BY DEF ReadPrev, ReadPrevFails, history, TypeOK
<1> DEFINE new == [call[c] EXCEPT !.step = "read", !.prev = p]
<1>3. new \in Call /\ new.step = "read" /\ new.prev = p /\ call' = [call EXCEPT ![c] = new]
  <2>1. call[c] \in [step: {"idle", "begun", "read"}, entry: Entries, prev: Hash]
    BY DEF TypeOK, Call
  <2>2. new \in [step: {"idle", "begun", "read"}, entry: Entries, prev: Hash]
    BY <1>1, <2>1
  <2>3. new.step = "read" /\ new.prev = p
    BY <1>1, <2>1
  <2> QED
    BY <1>1, <2>2, <2>3 DEF Call
<1>4. TypeOK'
  BY <1>2, <1>3 DEF TypeOK
<1>5. Linked'
  BY <1>2 DEF Linked, ExpectedPrev
<1>6. ReaderIsCurrent'
  <2>1. LastMac' = LastMac
    BY <1>2 DEF LastMac
  <2>2. call'[c].prev = p /\ \A d \in Callers \ {c} : call'[d] = call[d]
    BY <1>3 DEF TypeOK
  <2> QED
    BY <1>1, <1>2, <2>1, <2>2 DEF ReaderIsCurrent
<1> QED
  BY <1>4, <1>5, <1>6

LEMMA CommitStep ==
  ASSUME IInv, NEW c \in Callers, InsertAndCommit(c)
  PROVE  IInv'
<1> USE DEF IInv
<1> DEFINE n == Len(table)
           new == [id |-> lastId + 1, entry |-> call[c].entry, prev |-> call[c].prev,
                   mac |-> Mac(Canonical(call[c].entry), call[c].prev)]
<1>1. call[c] \in Call /\ call[c].step = "read"
  BY DEF InsertAndCommit, TypeOK
<1>2. new \in Row
  <2>1. Mac(Canonical(call[c].entry), call[c].prev) \in Hash
    BY <1>1, MacTyped DEF Call
  <2>2. lastId + 1 \in Nat
    BY AuditAssumption DEF TypeOK
  <2> QED
    BY <1>1, <2>1, <2>2 DEF Call, Row
<1>3. /\ table' = Append(table, new) /\ call' = [call EXCEPT ![c] = IdleCall] /\ conn' = Nobody
      /\ written' = Append(written, new) /\ UNCHANGED <<faulted, edits>>
  BY DEF InsertAndCommit, history
<1>4. new.prev = call[c].prev /\ new.mac = Mac(Canonical(new.entry), new.prev)
  OBVIOUS
<1> HIDE DEF new
<1>5. n \in Nat /\ table' \in Seq(Row) /\ Len(table') = n + 1 /\ table'[n + 1] = new
      /\ \A i \in 1..n : table'[i] = table[i]
  BY <1>2, <1>3, AppendProperties, LenProperties DEF TypeOK
<1>6. \A d \in Callers : call'[d].step = "idle"
  BY <1>1, <1>3 DEF TypeOK, IdleCall
<1>7. TypeOK'
  <2>1. lastId' \in 0..MaxId
    BY AuditAssumption DEF InsertAndCommit, TypeOK
  <2>2. call' \in [Callers -> Call]
    BY <1>3, IdleTyped DEF TypeOK
  <2>3. written' \in Seq(Row)
    BY <1>2, <1>3, AppendProperties DEF TypeOK
  <2> QED
    BY <1>3, <1>5, <1>6, <2>1, <2>2, <2>3, AuditAssumption DEF TypeOK, Nobody
<1>8. Linked'
  <2> SUFFICES ASSUME edits = 0, NEW i \in 1..Len(table')
               PROVE  /\ table'[i].mac = Mac(Canonical(table'[i].entry), table'[i].prev)
                      /\ \/ table'[i].prev = (IF i = 1 THEN Genesis ELSE table'[i - 1].mac)
                         \/ faulted /\ table'[i].prev = Genesis
    BY <1>3 DEF Linked, ExpectedPrev
  <2>1. CASE i \in 1..n
    BY <1>5, <2>1 DEF Linked, ExpectedPrev
  <2>2. CASE i = n + 1
    <3>1. LastMac = IF i = 1 THEN Genesis ELSE table'[i - 1].mac
      BY <1>5, <2>2, EmptySeq DEF LastMac, TypeOK
    <3>2. new.prev = LastMac \/ (faulted /\ new.prev = Genesis)
      BY <1>1, <1>4 DEF ReaderIsCurrent
    <3> QED
      BY <1>4, <1>5, <2>2, <3>1, <3>2
  <2> QED
    BY <1>5, <2>1, <2>2
<1>9. ReaderIsCurrent'
  BY <1>6 DEF ReaderIsCurrent
<1> QED
  BY <1>7, <1>8, <1>9

LEMMA RollbackStep ==
  ASSUME IInv, NEW c \in Callers, Rollback(c)
  PROVE  IInv'
<1> USE DEF IInv
<1>1. conn = c /\ \A d \in Callers : call'[d].step = "idle"
  BY DEF Rollback, TypeOK, IdleCall
<1>2. TypeOK'
  BY <1>1, IdleTyped, AuditAssumption DEF Rollback, TypeOK, Nobody, history
<1>3. Linked' /\ ReaderIsCurrent'
  BY <1>1 DEF Rollback, Linked, ReaderIsCurrent, ExpectedPrev, history
<1> QED
  BY <1>2, <1>3

LEMMA TamperStep ==
  ASSUME IInv, Tamper
  PROVE  IInv'
<1> USE DEF IInv
<1>1. PICK i \in 1..Len(table) : TamperRow(i)
  BY DEF Tamper
<1>2. /\ edits' = edits + 1 /\ edits < MaxEdits
      /\ UNCHANGED <<lastId, conn, call, written, faulted>>
  BY <1>1 DEF TamperRow, DeleteRow, EditRow
<1>3. table' \in Seq(Row)
  <2>1. ASSUME NEW row \in Edited(table[i]), EditRow(i, row) PROVE table' \in Seq(Row)
    <3>1. row \in Row /\ table \in Seq(Row)
      BY EditedTyped DEF TypeOK
    <3>2. table' = [table EXCEPT ![i] = row]
      BY <2>1 DEF EditRow
    <3> HIDE DEF IInv
    <3>3. [table EXCEPT ![i] = row] \in Seq(Row)
      BY <3>1, ExceptSeq
    <3> QED
      BY <3>2, <3>3
  <2>2. CASE DeleteRow(i)
    <3> DEFINE n == Len(table)
    <3>1. n \in Nat /\ table \in Seq(Row)
      BY LenProperties DEF TypeOK
    <3>2. SubSeq(table, 1, i - 1) \in Seq(Row)
      <4>1. \A k \in 1..(i - 1) : k \in 1..n
        BY <1>2, <3>1
      <4>2. \A k \in 1..(i - 1) : table[k] \in Row
        BY <3>1, <4>1, ElementOfSeq
      <4>3. 1 \in Int /\ i - 1 \in Int
        BY <1>2, <3>1
      <4> HIDE DEF n
      <4> QED
        BY <4>2, <4>3, SubSeqProperties
    <3>3. SubSeq(table, i + 1, n) \in Seq(Row)
      <4>1. \A k \in (i + 1)..n : k \in 1..n
        BY <1>2, <3>1
      <4>2. \A k \in (i + 1)..n : table[k] \in Row
        BY <3>1, <4>1, ElementOfSeq
      <4>3. n \in Int /\ i + 1 \in Int
        BY <1>2, <3>1
      <4> HIDE DEF n
      <4> QED
        BY <4>2, <4>3, SubSeqProperties
    <3> QED
      BY <2>2, <3>2, <3>3, ConcatProperties DEF DeleteRow
  <2> QED
    BY <1>1, <2>1, <2>2 DEF TamperRow
<1>4. edits' \in 0..MaxEdits /\ edits' # 0
  BY <1>2, AuditAssumption DEF TypeOK
<1>5. TypeOK'
  BY <1>2, <1>3, <1>4 DEF TypeOK
<1> QED
  BY <1>4, <1>5 DEF Linked, ReaderIsCurrent

LEMMA NextIInv == IInv /\ [Next]_vars => IInv'
<1> SUFFICES ASSUME IInv, [Next]_vars PROVE IInv'
  OBVIOUS
<1>1. CASE UNCHANGED vars
  BY <1>1 DEF vars, history, IInv, TypeOK, Linked, ReaderIsCurrent, ExpectedPrev, LastMac
<1>2. CASE Next
  BY <1>2, BeginStep, ReadStep, CommitStep, RollbackStep, TamperStep
     DEF Next, Log
<1> QED
  BY <1>1, <1>2

LEMMA Invariance == Spec => []IInv
BY InitIInv, NextIInv, PTL DEF Spec

LEMMA BrokenMeansRestarted ==
  ASSUME IInv, edits = 0
  PROVE  /\ \A i \in 1..Len(table) : BrokenAt(i) <=> i # 1 /\ table[i].prev = Genesis
         /\ \A i \in 1..Len(table) : BrokenAt(i) => faulted
<1> SUFFICES ASSUME NEW i \in 1..Len(table)
             PROVE  /\ BrokenAt(i) <=> i # 1 /\ table[i].prev = Genesis
                    /\ BrokenAt(i) => faulted
  OBVIOUS
<1>1. /\ table[i].mac = Mac(Canonical(table[i].entry), table[i].prev)
      /\ table[i].prev = ExpectedPrev(i) \/ (faulted /\ table[i].prev = Genesis)
  BY DEF IInv, Linked
<1>2. CASE i = 1
  BY <1>1, <1>2 DEF BrokenAt, ExpectedPrev
<1>3. CASE i # 1
  <2>1. i - 1 \in 1..Len(table)
    BY <1>3, LenProperties DEF IInv, TypeOK
  <2>2. table[i - 1] \in Row /\ table[i - 1].mac = Mac(Canonical(table[i - 1].entry), table[i - 1].prev)
    BY <2>1, ElementOfSeq DEF IInv, TypeOK, Linked
  <2>3. ExpectedPrev(i) # Genesis
    BY <1>3, <2>2, MacTyped DEF ExpectedPrev, Row
  <2> QED
    BY <1>1, <1>3, <2>3 DEF BrokenAt
<1> QED
  BY <1>2, <1>3

(* The connection is held exactly by the call that is inside its           *)
(* transaction, whatever is done to the rows.                              *)
THEOREM TypeCorrect == Spec => []TypeOK
<1>1. IInv => TypeOK
  BY DEF IInv
<1> QED
  BY <1>1, Invariance, PTL

(* Concurrent callers of Log, failures and rollbacks never make Verify     *)
(* report a broken chain, if the read of the previous HMAC does not fail.  *)
THEOREM ChainIntactHolds == Spec => []ChainIntact
<1>1. IInv => ChainIntact
  <2> SUFFICES ASSUME IInv, edits = 0, ~faulted PROVE Verify = 0
    BY DEF ChainIntact
  <2>1. {i \in 1..Len(table) : BrokenAt(i)} = {}
    BY BrokenMeansRestarted
  <2> QED
    BY <2>1 DEF Verify, FirstIdOf
<1> QED
  BY <1>1, Invariance, PTL

(* If it does fail, Verify reports the first entry, after the very first   *)
(* one, whose read failed, and nothing else.                               *)
THEOREM BreaksOnlyWhereReadFailedHolds == Spec => []BreaksOnlyWhereReadFailed
<1>1. IInv => BreaksOnlyWhereReadFailed
  <2> SUFFICES ASSUME IInv, edits = 0
               PROVE  Verify = FirstIdOf({i \in 2..Len(table) : table[i].prev = Genesis})
    BY DEF BreaksOnlyWhereReadFailed
  <2>1. Len(table) \in Nat
    BY LenProperties DEF IInv, TypeOK
  <2>2. {i \in 1..Len(table) : BrokenAt(i)} = {i \in 2..Len(table) : table[i].prev = Genesis}
    BY <2>1, BrokenMeansRestarted
  <2> QED
    BY <2>2 DEF Verify
<1> QED
  BY <1>1, Invariance, PTL
-----------------------------------------------------------------------------
(* The positions a deletion at k moves.                                    *)
LEMMA Positions ==
  ASSUME NEW n \in Nat, NEW k \in 1..n, NEW i \in 1..(n - 1)
  PROVE  /\ i \in Nat /\ i + 1 \in 1..n /\ i \in 1..n /\ i + 1 # 1 /\ i + 1 - 1 = i
         /\ i # 1 => i - 1 \in 1..(n - 1) /\ i - 1 \in 1..n /\ i - 1 + 1 = i
         /\ i <= k /\ i # 1 => i - 1 < k
         /\ i > k => i # 1 /\ ~(i - 1 < k) /\ ~(i < k)
         /\ i < k => i \in 1..(k - 1) /\ i <= k - 1
         /\ ~(i < k) => i - (k - 1) \in 1..(n - k) /\ i - (k - 1) + k = i + 1 /\ ~(i <= k - 1)
         /\ (k - 1) + (n - k) = n - 1
OBVIOUS

(* What is left when row k is deleted.                                     *)
LEMMA DeleteIndices ==
  ASSUME NEW S, NEW t \in Seq(S), NEW k \in 1..Len(t), NEW u,
         u = SubSeq(t, 1, k - 1) \o SubSeq(t, k + 1, Len(t))
  PROVE  /\ Len(t) \in Nat /\ Len(u) = Len(t) - 1
         /\ \A i \in 1..(Len(t) - 1) : u[i] = t[IF i < k THEN i ELSE i + 1]
<1> DEFINE n == Len(t)
           a == SubSeq(t, 1, k - 1)
           b == SubSeq(t, k + 1, n)
<1>1. n \in Nat /\ k \in 1..n
  BY LenProperties
<1>2. a \in Seq(S) /\ Len(a) = k - 1 /\ \A i \in 1..(k - 1) : a[i] = t[i]
  <2>1. \A i \in 1..(k - 1) : t[i] \in S
    <3>1. \A i \in 1..(k - 1) : i \in 1..n
      BY <1>1
    <3> QED
      BY <3>1, ElementOfSeq
  <2>2. 1 \in Int /\ k - 1 \in Int
    BY <1>1
  <2>3. a \in Seq(S) /\ Len(a) = (IF 1 <= k - 1 THEN (k - 1) - 1 + 1 ELSE 0)
        /\ \A i \in 1..((k - 1) - 1 + 1) : a[i] = t[1 + i - 1]
    BY <2>1, <2>2, SubSeqProperties
  <2> HIDE DEF a
  <2>4. Len(a) = k - 1
    BY <1>1, <2>3
  <2>5. \A i \in 1..(k - 1) : a[i] = t[i]
    <3>1. \A i \in 1..(k - 1) : i \in 1..((k - 1) - 1 + 1) /\ 1 + i - 1 = i
      BY <1>1
    <3> QED
      BY <2>3, <3>1
  <2> QED
    BY <2>3, <2>4, <2>5
<1>3. b \in Seq(S) /\ Len(b) = n - k /\ \A i \in 1..(n - k) : b[i] = t[i + k]
  <2>1. \A i \in (k + 1)..n : t[i] \in S
    <3>1. \A i \in (k + 1)..n : i \in 1..n
      BY <1>1
    <3> QED
      BY <3>1, ElementOfSeq
  <2>2. k + 1 \in Int /\ n \in Int
    BY <1>1
  <2>3. b \in Seq(S) /\ Len(b) = (IF k + 1 <= n THEN n - (k + 1) + 1 ELSE 0)
        /\ \A i \in 1..(n - (k + 1) + 1) : b[i] = t[k + 1 + i - 1]
    BY <2>1, <2>2, SubSeqProperties
  <2> HIDE DEF b
  <2>4. Len(b) = n - k
    BY <1>1, <2>3
  <2>5. \A i \in 1..(n - k) : b[i] = t[i + k]
    <3>1. \A i \in 1..(n - k) : i \in 1..(n - (k + 1) + 1) /\ k + 1 + i - 1 = i + k
      BY <1>1
    <3> QED
      BY <2>3, <3>1
  <2> QED
    BY <2>3, <2>4, <2>5
<1>4. u = a \o b
  OBVIOUS
<1>5. k - 1 \in Nat /\ n - k \in Nat /\ (k - 1) + (n - k) = n - 1
  BY <1>1
<1> HIDE DEF n, a, b
<1>6. Len(u) = n - 1 /\ \A i \in 1..(n - 1) : u[i] = IF i <= k - 1 THEN a[i] ELSE b[i - (k - 1)]
  <2>1. PICK x \in Seq(S), y \in Seq(S) : x = a /\ y = b /\ Len(x) = k - 1 /\ Len(y) = n - k
    BY <1>2, <1>3, Zenon
  <2>2. PICK p \in Nat, q \in Nat : p = k - 1 /\ q = n - k
    BY <1>5, Zenon
  <2>3. Len(x) = p /\ Len(y) = q
    BY <2>1, <2>2, Zenon
  <2>4. Len(x \o y) = p + q /\ \A i \in 1..(p + q) : (x \o y)[i] = IF i <= p THEN x[i] ELSE y[i - p]
    <3>1. x \in Seq(S) /\ y \in Seq(S) /\ p \in Nat /\ q \in Nat
      BY <2>1, <2>2
    <3>2. Len(x \o y) = p + q
      <4>1. Len(x \o y) = Len(x) + Len(y)
        BY <3>1, ConcatProperties, Zenon
      <4> QED
        BY <2>3, <4>1, Zenon
    <3>3. ASSUME NEW i \in 1..(p + q) PROVE (x \o y)[i] = IF i <= p THEN x[i] ELSE y[i - p]
      <4>1. i \in 1..(Len(x) + Len(y))
        BY <2>3, Zenon
      <4>2. (x \o y)[i] = IF i <= Len(x) THEN x[i] ELSE y[i - Len(x)]
        BY <3>1, <4>1, ConcatProperties, Zenon
      <4> QED
        BY <2>3, <4>2, Zenon
    <3> QED
      BY <3>2, <3>3
  <2>5. p + q = n - 1
    BY <1>5, <2>2, Zenon
  <2>6. u = x \o y
    BY <1>4, <2>1, Zenon
  <2>7. Len(u) = n - 1 /\ \A i \in 1..(n - 1) : u[i] = IF i <= p THEN x[i] ELSE y[i - p]
    BY <2>4, <2>5, <2>6, Zenon
  <2> QED
    BY <2>1, <2>2, <2>7, Zenon
<1>7. ASSUME NEW i \in 1..(n - 1) PROVE u[i] = t[IF i < k THEN i ELSE i + 1]
  <2>1. u[i] = IF i <= k - 1 THEN a[i] ELSE b[i - (k - 1)]
    BY <1>6
  <2>2. CASE i < k
    <3>1. i \in 1..(k - 1) /\ i <= k - 1
      BY <1>1, <2>2, Positions
    <3> QED
      BY <1>2, <2>1, <2>2, <3>1, Zenon
  <2>3. CASE ~(i < k)
    <3>1. i - (k - 1) \in 1..(n - k) /\ i - (k - 1) + k = i + 1 /\ ~(i <= k - 1)
      BY <1>1, <2>3, Positions
    <3> QED
      BY <1>3, <2>1, <2>3, <3>1, Zenon
  <2> QED
    BY <2>2, <2>3
<1> QED
  BY <1>1, <1>6, <1>7 DEF n

-----------------------------------------------------------------------------
(* What outside edits cannot do.  Log wrote every HMAC it wrote from one   *)
(* entry and one previous HMAC, and whoever edits the table can only put   *)
(* one of those, zeros or junk where an HMAC belongs.                      *)
Provenance ==
  /\ \A k \in 1..Len(written) :
       written[k].mac = Mac(Canonical(written[k].entry), written[k].prev)
  /\ \A i \in 1..Len(table) : table[i].mac \in KnownMacs

LEMMA NextProvenance == IInv /\ Provenance /\ [Next]_vars => Provenance'
<1> SUFFICES ASSUME IInv, Provenance, [Next]_vars PROVE Provenance'
  OBVIOUS
<1>0. TypeOK /\ Len(table) \in Nat /\ Len(written) \in Nat
  BY LenProperties DEF IInv, TypeOK
<1>1. CASE UNCHANGED <<table, written>>
  BY <1>1 DEF Provenance, KnownMacs
<1>2. ASSUME NEW c \in Callers, InsertAndCommit(c) PROVE Provenance'
  <2> DEFINE new == [id |-> lastId + 1, entry |-> call[c].entry, prev |-> call[c].prev,
                     mac |-> Mac(Canonical(call[c].entry), call[c].prev)]
  <2>1. table' = Append(table, new) /\ written' = Append(written, new)
    BY <1>2 DEF InsertAndCommit
  <2>2. new.mac = Mac(Canonical(new.entry), new.prev)
    OBVIOUS
  <2>3. PICK n \in Nat, m \in Nat : n = Len(table) /\ m = Len(written)
    BY <1>0
  <2> HIDE DEF new
  <2>4. /\ Len(table') = n + 1 /\ table'[n + 1] = new
        /\ \A i \in 1..n : table'[i] = table[i]
    BY <1>0, <2>1, <2>3, AppendProperties DEF TypeOK
  <2>5. /\ Len(written') = m + 1 /\ written'[m + 1] = new
        /\ \A k \in 1..m : written'[k] = written[k]
    BY <1>0, <2>1, <2>3, AppendProperties DEF TypeOK
  <2>6. \A k \in 1..(m + 1) : written'[k].mac = Mac(Canonical(written'[k].entry), written'[k].prev)
    <3>1. \A k \in 1..m : written'[k].mac = Mac(Canonical(written'[k].entry), written'[k].prev)
      BY <2>3, <2>5 DEF Provenance
    <3>2. \A k \in 1..(m + 1) : k \in 1..m \/ k = m + 1
      OBVIOUS
    <3> QED
      BY <2>2, <2>5, <3>1, <3>2
  <2>7. \A x : x \in KnownMacs => x \in KnownMacs'
    <3>1. \A k \in 1..m : k \in 1..(m + 1)
      OBVIOUS
    <3> QED
      BY <2>3, <2>5, <3>1 DEF KnownMacs
  <2>8. new.mac \in KnownMacs'
    <3>1. m + 1 \in 1..(m + 1)
      OBVIOUS
    <3> QED
      BY <2>5, <3>1 DEF KnownMacs
  <2>9. \A i \in 1..(n + 1) : table'[i].mac \in KnownMacs'
    <3>1. \A i \in 1..n : table'[i].mac \in KnownMacs'
      BY <2>3, <2>4, <2>7 DEF Provenance
    <3>2. \A i \in 1..(n + 1) : i \in 1..n \/ i = n + 1
      OBVIOUS
    <3> QED
      BY <2>4, <2>8, <3>1, <3>2
  <2> QED
    BY <2>4, <2>5, <2>6, <2>9 DEF Provenance
<1>3. ASSUME NEW k \in 1..Len(table), TamperRow(k) PROVE Provenance'
  <2>1. written' = written
    BY <1>3 DEF TamperRow, DeleteRow, EditRow
  <2>2. KnownMacs' = KnownMacs
    BY <2>1 DEF KnownMacs
  <2>3. ASSUME NEW row \in Edited(table[k]), EditRow(k, row)
        PROVE  \A i \in 1..Len(table') : table'[i].mac \in KnownMacs
    <3>1. Len(table') = Len(table) /\ \A i \in 1..Len(table) : table'[i] = IF i = k THEN row ELSE table[i]
      BY <1>0, <2>3 DEF EditRow, TypeOK
    <3>2. row.mac \in KnownMacs
      BY <1>0, EditedTyped DEF Provenance
    <3> QED
      BY <3>1, <3>2 DEF Provenance
  <2>4. ASSUME DeleteRow(k) PROVE \A i \in 1..Len(table') : table'[i].mac \in KnownMacs
    <3>1. PICK t, u : t \in Seq(Row) /\ t = table /\ u = table'
      BY <1>0 DEF TypeOK
    <3>2. u = SubSeq(t, 1, k - 1) \o SubSeq(t, k + 1, Len(t)) /\ k \in 1..Len(t)
      BY <2>4, <3>1 DEF DeleteRow
    <3>3. PICK n \in Nat : n = Len(t)
      BY <1>0, <3>1
    <3>4. Len(u) = n - 1 /\ \A i \in 1..(n - 1) : u[i] = t[IF i < k THEN i ELSE i + 1]
      BY <3>1, <3>2, <3>3, DeleteIndices
    <3>5. \A i \in 1..n : t[i].mac \in KnownMacs
      BY <3>1, <3>3 DEF Provenance
    <3>6. \A i \in 1..(n - 1) : (IF i < k THEN i ELSE i + 1) \in 1..n
      BY <3>2, <3>3
    <3>7. \A i \in 1..(n - 1) : u[i].mac \in KnownMacs
      BY <3>4, <3>5, <3>6
    <3>8. \A i \in 1..Len(u) : u[i].mac \in KnownMacs
      BY <3>4, <3>7
    <3> QED
      BY <3>1, <3>8
  <2>5. \A i \in 1..Len(table') : table'[i].mac \in KnownMacs
    BY <1>3, <2>3, <2>4 DEF TamperRow
  <2> QED
    BY <2>1, <2>2, <2>5 DEF Provenance
<1> QED
  BY <1>1, <1>2, <1>3
     DEF Next, Log, Tamper, Begin, ReadPrev, ReadPrevFails, Rollback, vars

(* Whatever is edited and deleted from outside, in whatever order with new *)
(* entries: a row that Verify accepts has the canonical text and the HMAC  *)
(* of an entry that Log wrote behind the same previous HMAC.               *)
THEOREM AcceptedRowsWereLoggedHolds == Spec => []AcceptedRowsWereLogged
<1>1. Init => Provenance
  BY EmptySeq DEF Init, Provenance
<1>2. IInv /\ Provenance => AcceptedRowsWereLogged
  <2> SUFFICES ASSUME IInv, Provenance, NEW i \in 1..Len(table), ~BrokenAt(i)
               PROVE  \E k \in 1..Len(written) :
                        /\ written[k].mac = table[i].mac
                        /\ written[k].prev = ExpectedPrev(i)
                        /\ Canonical(written[k].entry) = Canonical(table[i].entry)
    BY DEF AcceptedRowsWereLogged
  <2>1. table[i] \in Row /\ \A k \in 1..Len(written) : written[k] \in Row
    BY ElementOfSeq DEF IInv, TypeOK
  <2>2. /\ table[i].prev = ExpectedPrev(i)
        /\ table[i].mac = Mac(Canonical(table[i].entry), table[i].prev)
    BY DEF BrokenAt
  <2>3. table[i].mac # Genesis /\ table[i].mac # Junk
    BY <2>1, <2>2, MacTyped DEF Row
  <2>4. PICK k \in 1..Len(written) : written[k].mac = table[i].mac
    BY <2>3 DEF Provenance, KnownMacs
  <2>5. Mac(Canonical(written[k].entry), written[k].prev) = Mac(Canonical(table[i].entry), table[i].prev)
    BY <2>2, <2>4 DEF Provenance
  <2>6. written[k].prev = table[i].prev /\ Canonical(written[k].entry) = Canonical(table[i].entry)
    BY <2>1, <2>5, MacInjective DEF Row
  <2> QED
    BY <2>2, <2>4, <2>6
<1> QED
  BY <1>1, <1>2, Invariance, InitIInv, NextIInv, NextProvenance, PTL DEF Spec

-----------------------------------------------------------------------------
(* How long an answer of Verify stands.  It needs two more facts, true     *)
(* whatever was edited: ids grow along the table, and the reader of the    *)
(* previous HMAC has the current one or the genesis value.                 *)
Grows(t, top) ==
  \A i \in 1..Len(t) : /\ t[i].id \in 1..top
                       /\ \A k \in 1..Len(t) : i < k => t[i].id < t[k].id

ReaderFollows ==
  \A c \in Callers : call[c].step = "read" =>
    call[c].prev = LastMac \/ (faulted /\ call[c].prev = Genesis)

OrderInv == Grows(table, lastId) /\ ReaderFollows

(* The HMAC before position i of the rows t.                               *)
MacBefore(t, i) == IF i = 1 THEN Genesis ELSE t[i - 1].mac

Breaks(t, i) == t[i].prev # MacBefore(t, i) \/ t[i].mac # Mac(Canonical(t[i].entry), t[i].prev)

FirstBreak(t, p) ==
  p \in 1..Len(t) /\ Breaks(t, p) /\ \A i \in 1..Len(t) : Breaks(t, i) => p <= i

Names(t, v) ==
  \/ v = 0 /\ \A i \in 1..Len(t) : ~Breaks(t, i)
  \/ \E p \in 1..Len(t) : FirstBreak(t, p) /\ v = t[p].id

LEMMA SmallestOf ==
  ASSUME NEW T, T \in SUBSET Nat, T # {}
  PROVE  \E x \in T : \A y \in T : x <= y
<1> DEFINE R == OpToRel(<, Nat)
<1>1. IsWellFoundedOn(R, Nat)
  BY NatLessThanWellFounded
<1>2. \A x, y \in Nat : <<x, y>> \in R <=> x < y
  BY DEF OpToRel
<1> HIDE DEF R
<1>3. PICK x \in T : \A y \in T : ~(<<y, x>> \in R)
  BY <1>1, WFMin
<1>4. \A y \in T : ~(y < x)
  BY <1>2, <1>3
<1> QED
  BY <1>4

(* Verify names the first broken row, or answers 0 if there is none.       *)
LEMMA VerifyNames == TypeOK => Names(table, Verify)
<1> SUFFICES ASSUME TypeOK PROVE Names(table, Verify)
  OBVIOUS
<1> DEFINE B == {i \in 1..Len(table) : BrokenAt(i)}
<1>1. Len(table) \in Nat
  BY LenProperties DEF TypeOK
<1>2. \A i \in 1..Len(table) : BrokenAt(i) <=> Breaks(table, i)
  BY DEF BrokenAt, Breaks, ExpectedPrev, MacBefore
<1>3. CASE B = {}
  BY <1>2, <1>3 DEF Verify, FirstIdOf, Names
<1>4. CASE B # {}
  <2>1. B \in SUBSET Nat
    BY <1>1
  <2> DEFINE p == CHOOSE i \in B : \A k \in B : i <= k
  <2>2. p \in B /\ \A k \in B : p <= k
    <3> HIDE DEF B
    <3> QED
      BY <1>4, <2>1, SmallestOf
  <2>3. Verify = table[p].id
    BY <1>4 DEF Verify, FirstIdOf
  <2> HIDE DEF p
  <2> QED
    BY <1>2, <2>2, <2>3 DEF Names, FirstBreak
<1> QED
  BY <1>3, <1>4

LEMMA NamesOne ==
  ASSUME NEW t, NEW v, NEW w, Len(t) \in Nat, Names(t, v), Names(t, w)
  PROVE  v = w
<1>1. CASE \A i \in 1..Len(t) : ~Breaks(t, i)
  BY <1>1 DEF Names, FirstBreak
<1>2. CASE ~\A i \in 1..Len(t) : ~Breaks(t, i)
  <2>1. PICK p \in 1..Len(t) : FirstBreak(t, p) /\ v = t[p].id
    BY <1>2 DEF Names
  <2>2. PICK q \in 1..Len(t) : FirstBreak(t, q) /\ w = t[q].id
    BY <1>2 DEF Names
  <2>3. p <= q /\ q <= p
    BY <2>1, <2>2 DEF FirstBreak
  <2> QED
    BY <2>1, <2>2, <2>3
<1> QED
  BY <1>1, <1>2

(* Rows before k decide about each other: as long as they stay, so does    *)
(* a first break among them.                                               *)
LEMMA SameBefore ==
  ASSUME NEW t, NEW u, NEW k \in Nat,
         \A i \in 1..Len(u) : i < k => u[i] = t[i],
         NEW i \in 1..Len(u), i < k, Len(u) \in Nat
  PROVE  Breaks(u, i) <=> Breaks(t, i)
<1>1. i # 1 => i - 1 \in 1..Len(u) /\ i - 1 < k
  OBVIOUS
<1>2. u[i] = t[i] /\ MacBefore(u, i) = MacBefore(t, i)
  BY <1>1 DEF MacBefore
<1> QED
  BY <1>2 DEF Breaks

LEMMA FirstBreakStays ==
  ASSUME NEW t, NEW u, NEW k \in Nat, NEW p \in Nat, p < k, p <= Len(u),
         Len(t) \in Nat, Len(u) \in Nat,
         \A i \in 1..Len(u) : i < k => i <= Len(t) /\ u[i] = t[i],
         FirstBreak(t, p)
  PROVE  Names(u, t[p].id)
<1>1. p \in 1..Len(u) /\ u[p] = t[p]
  BY DEF FirstBreak
<1>2. Breaks(u, p)
  BY <1>1, SameBefore DEF FirstBreak
<1>3. ASSUME NEW i \in 1..Len(u), Breaks(u, i) PROVE p <= i
  <2>1. CASE i < k
    <3>1. Breaks(t, i) /\ i \in 1..Len(t)
      BY <1>3, <2>1, SameBefore
    <3> QED
      BY <3>1 DEF FirstBreak
  <2>2. CASE ~(i < k)
    BY <2>2
  <2> QED
    BY <2>1, <2>2
<1> QED
  BY <1>1, <1>2, <1>3 DEF Names, FirstBreak

(* One entry more, one row edited, one row less: the ids go on growing.    *)
LEMMA NextOrderInv == IInv /\ OrderInv /\ [Next]_vars => OrderInv'
<1> SUFFICES ASSUME IInv, OrderInv, [Next]_vars PROVE OrderInv'
  OBVIOUS
<1>0. TypeOK /\ Len(table) \in Nat /\ lastId \in Nat /\ \A i \in 1..Len(table) : table[i] \in Row
  BY ElementOfSeq, LenProperties, AuditAssumption DEF IInv, TypeOK
<1>1. CASE UNCHANGED vars
  BY <1>1 DEF vars, history, OrderInv, ReaderFollows, LastMac
<1>2. ASSUME NEW c \in Callers, (\E e \in Loggable : Begin(c, e)) \/ Rollback(c)
      PROVE OrderInv'
  <2>1. UNCHANGED <<table, lastId, faulted>>
    BY <1>2 DEF Begin, Rollback, history
  <2>2. PICK new : call' = [call EXCEPT ![c] = new] /\ new.step # "read"
    <3>1. ASSUME NEW e \in Loggable, Begin(c, e)
          PROVE  \E new : call' = [call EXCEPT ![c] = new] /\ new.step # "read"
      <4> DEFINE started == [IdleCall EXCEPT !.step = "begun", !.entry = e]
      <4>1. started.step # "read"
        BY DEF IdleCall
      <4>2. call' = [call EXCEPT ![c] = started]
        BY <3>1 DEF Begin
      <4> HIDE DEF started
      <4> QED
        BY <4>1, <4>2
    <3>2. CASE Rollback(c)
      <4>1. IdleCall.step # "read"
        BY DEF IdleCall
      <4> QED
        BY <3>2, <4>1, Zenon DEF Rollback
    <3> QED
      BY <1>2, <3>1, <3>2
  <2>3. \A d \in Callers : call'[d].step = "read" => call'[d] = call[d]
    BY <1>0, <2>2 DEF TypeOK
  <2> QED
    BY <2>1, <2>3 DEF OrderInv, ReaderFollows, LastMac
<1>3. ASSUME NEW c \in Callers, ReadPrev(c) \/ ReadPrevFails(c)
      PROVE OrderInv'
  <2>1. UNCHANGED <<table, lastId>> /\ (faulted => faulted') /\ LastMac' = LastMac
    BY <1>3 DEF ReadPrev, ReadPrevFails, history, LastMac
  <2>2. PICK prev : /\ call' = [call EXCEPT ![c] = [@ EXCEPT !.step = "read", !.prev = prev]]
                    /\ prev = LastMac \/ (faulted' /\ prev = Genesis)
    BY <1>3 DEF ReadPrev, ReadPrevFails
  <2>3. call'[c].prev = prev /\ \A d \in Callers \ {c} : call'[d] = call[d]
    BY <1>0, <2>2 DEF TypeOK, Call
  <2>4. ReaderFollows'
    BY <2>1, <2>2, <2>3 DEF OrderInv, ReaderFollows
  <2> QED
    BY <2>1, <2>4 DEF OrderInv
<1>4. ASSUME NEW c \in Callers, InsertAndCommit(c)
      PROVE OrderInv'
  <2> DEFINE n == Len(table)
             new == [id |-> lastId + 1, entry |-> call[c].entry, prev |-> call[c].prev,
                     mac |-> Mac(Canonical(call[c].entry), call[c].prev)]
  <2>1. table' = Append(table, new) /\ lastId' = lastId + 1 /\ new.id = lastId + 1
    BY <1>4 DEF InsertAndCommit
  <2>2. /\ Len(table') = n + 1 /\ table'[n + 1].id = lastId + 1
        /\ \A i \in 1..n : table'[i] = table[i]
    <3> HIDE DEF new
    <3> QED
      BY <1>0, <2>1, AppendProperties DEF TypeOK
  <2>3. \A i \in 1..n : /\ table'[i].id \in 1..lastId
                        /\ \A k \in 1..n : i < k => table'[i].id < table'[k].id
    BY <2>2 DEF OrderInv, Grows
  <2> HIDE DEF n, new
  <2>4. Grows(table', lastId')
    <3> SUFFICES ASSUME NEW i \in 1..(n + 1)
                 PROVE  /\ table'[i].id \in 1..(lastId + 1)
                        /\ \A k \in 1..(n + 1) : i < k => table'[i].id < table'[k].id
      BY <2>1, <2>2 DEF Grows
    <3>1. i \in 1..n \/ i = n + 1
      BY <1>0 DEF n
    <3>2. CASE i \in 1..n
      <4>1. \A k \in 1..(n + 1) : k \in 1..n \/ k = n + 1
        BY <1>0 DEF n
      <4>2. table'[i].id \in 1..lastId
        BY <2>3, <3>2
      <4>3. \A k \in 1..n : i < k => table'[i].id < table'[k].id
        BY <2>3, <3>2
      <4>4. table'[i].id < table'[n + 1].id /\ table'[i].id \in 1..(lastId + 1)
        BY <1>0, <2>2, <4>2
      <4> QED
        BY <4>1, <4>3, <4>4
    <3>3. CASE i = n + 1
      BY <1>0, <2>2, <3>3 DEF n
    <3> QED
      BY <3>1, <3>2, <3>3
  <2>5. \A d \in Callers : call'[d].step # "read"
    <3>1. IdleCall.step = "idle"
      BY DEF IdleCall
    <3>2. \A d \in Callers \ {c} : call[d].step = "idle"
      BY <1>0, <1>4 DEF InsertAndCommit, TypeOK
    <3> QED
      BY <1>0, <1>4, <3>1, <3>2 DEF InsertAndCommit, TypeOK
  <2> QED
    BY <2>4, <2>5 DEF OrderInv, ReaderFollows
<1>5. ASSUME NEW k \in 1..Len(table), TamperRow(k)
      PROVE OrderInv'
  <2>1. conn = Nobody /\ k \in 1..Len(table) /\ UNCHANGED <<lastId, call, faulted>>
    BY <1>5 DEF TamperRow, DeleteRow, EditRow
  <2>2. ReaderFollows'
    <3>1. \A c \in Callers : call[c].step = "idle"
      BY <1>0, <2>1, AuditAssumption DEF TypeOK, Nobody
    <3> QED
      BY <2>1, <3>1 DEF ReaderFollows
  <2>3. ASSUME NEW row \in Edited(table[k]), EditRow(k, row) PROVE Grows(table', lastId)
    <3>1. Len(table') = Len(table) /\ \A i \in 1..Len(table) : table'[i].id = table[i].id
      <4>1. row.id = table[k].id
        BY <1>0, EditedTyped
      <4> QED
        BY <1>0, <2>3, <4>1 DEF EditRow, TypeOK
    <3> QED
      BY <3>1 DEF OrderInv, Grows
  <2>4. CASE DeleteRow(k)
    <3>1. PICK t \in Seq(Row) : t = table
      BY <1>0 DEF TypeOK
    <3>2. PICK u : u = table'
      OBVIOUS
    <3>3. /\ Len(u) = Len(t) - 1
          /\ \A i \in 1..(Len(t) - 1) : u[i] = t[IF i < k THEN i ELSE i + 1]
      <4>1. u = SubSeq(t, 1, k - 1) \o SubSeq(t, k + 1, Len(t)) /\ k \in 1..Len(t)
        BY <2>1, <2>4, <3>1, <3>2 DEF DeleteRow
      <4> QED
        BY <4>1, DeleteIndices
    <3> DEFINE Source(i) == IF i < k THEN i ELSE i + 1
    <3>4. \A i \in 1..Len(u) : /\ Source(i) \in 1..Len(t) /\ u[i] = t[Source(i)]
                               /\ \A j \in 1..Len(u) : i < j => Source(i) < Source(j)
      BY <1>0, <2>1, <3>1, <3>3
    <3>5. Grows(t, lastId)
      BY <3>1 DEF OrderInv
    <3> HIDE DEF Source
    <3>6. \A i \in 1..Len(u) : u[i].id \in 1..lastId
      BY <3>4, <3>5 DEF Grows
    <3>7. ASSUME NEW i \in 1..Len(u), NEW j \in 1..Len(u), i < j PROVE u[i].id < u[j].id
      <4>1. PICK a, b \in 1..Len(t) : a = Source(i) /\ b = Source(j)
        BY <3>4
      <4>2. a < b /\ u[i] = t[a] /\ u[j] = t[b]
        BY <3>4, <3>7, <4>1
      <4> QED
        BY <3>5, <4>2 DEF Grows
    <3>8. Grows(u, lastId)
      BY <3>6, <3>7 DEF Grows
    <3> QED
      BY <2>1, <2>2, <3>2, <3>8 DEF OrderInv
  <2> QED
    BY <1>5, <2>1, <2>2, <2>3, <2>4 DEF TamperRow, OrderInv
<1> QED
  BY <1>1, <1>2, <1>3, <1>4, <1>5 DEF Next, Log, Tamper

(* What each step does to a log that Verify finds intact or broken at p.   *)
LEMMA CommitVerdict ==
  ASSUME IInv, OrderInv, Names(table, Verify), NEW c \in Callers, InsertAndCommit(c)
  PROVE  \/ Names(table', Verify)
         \/ Verify = 0 /\ faulted /\ Names(table', lastId')
<1> DEFINE n == Len(table)
           new == [id |-> lastId + 1, entry |-> call[c].entry, prev |-> call[c].prev,
                   mac |-> Mac(Canonical(call[c].entry), call[c].prev)]
<1>1. table' = Append(table, new) /\ lastId' = lastId + 1 /\ new.id = lastId + 1
      /\ new.prev = call[c].prev /\ new.mac = Mac(Canonical(new.entry), new.prev)
  BY DEF InsertAndCommit
<1>2. new.prev = LastMac \/ faulted
  BY DEF InsertAndCommit, OrderInv, ReaderFollows
<1> HIDE DEF new
<1>3. n \in Nat /\ Len(table') = n + 1 /\ table'[n + 1] = new /\ \A i \in 1..n : table'[i] = table[i]
  BY <1>1, AppendProperties, LenProperties DEF IInv, TypeOK
<1>4. PICK t : t = table
  OBVIOUS
<1>5. PICK u : u = table'
  OBVIOUS
<1>6. ASSUME NEW p \in 1..Len(table), FirstBreak(table, p), Verify = table[p].id
      PROVE  Names(table', Verify)
  <2>1. FirstBreak(t, p) /\ p \in Nat /\ n + 1 \in Nat /\ p < n + 1 /\ p <= Len(u)
        /\ Len(t) = n /\ Len(u) = n + 1
    BY <1>3, <1>4, <1>5, <1>6
  <2>2. \A i \in 1..Len(u) : i < n + 1 => i <= Len(t) /\ u[i] = t[i]
    <3>1. \A i \in 1..(n + 1) : i < n + 1 => i \in 1..n /\ i <= n
      BY <1>3
    <3> HIDE DEF n
    <3> QED
      BY <1>3, <1>4, <1>5, <2>1, <3>1
  <2> HIDE DEF n
  <2>3. Names(u, t[p].id)
    BY <1>3, <2>1, <2>2, FirstBreakStays
  <2> QED
    BY <1>4, <1>5, <1>6, <2>3
<1>7. ASSUME Verify = 0, \A i \in 1..Len(table) : ~Breaks(table, i)
      PROVE  Names(table', 0) \/ (faulted /\ Names(table', lastId'))
  <2>1. \A i \in 1..n : ~Breaks(u, i)
    <3>1. n + 1 \in Nat /\ Len(u) = n + 1 /\ Len(u) \in Nat
          /\ \A i \in 1..n : i \in 1..(n + 1) /\ i < n + 1
      BY <1>3, <1>5
    <3>2. \A i \in 1..(n + 1) : i < n + 1 => i \in 1..n
      BY <1>3
    <3>3. \A i \in 1..Len(u) : i < n + 1 => u[i] = t[i]
      BY <1>3, <1>4, <1>5, <3>1, <3>2
    <3>4. \A i \in 1..n : ~Breaks(t, i)
      BY <1>4, <1>7
    <3> HIDE DEF n
    <3> QED
      BY <3>1, <3>3, <3>4, SameBefore
  <2>2. MacBefore(u, n + 1) = LastMac
    <3>1. n + 1 # 1 => n \in 1..n /\ (n + 1) - 1 = n
      BY <1>3
    <3>2. table = <<>> <=> n + 1 = 1
      BY <1>3, EmptySeq DEF IInv, TypeOK
    <3> QED
      BY <1>3, <1>5, <3>1, <3>2 DEF MacBefore, LastMac
  <2>3. Breaks(u, n + 1) => faulted
    BY <1>1, <1>2, <1>3, <1>5, <2>2 DEF Breaks
  <2>4. \A i \in 1..Len(u) : i \in 1..n \/ i = n + 1
    BY <1>3, <1>5
  <2>5. CASE Breaks(u, n + 1)
    <3>1. n + 1 \in 1..Len(u) /\ \A i \in 1..Len(u) : Breaks(u, i) => n + 1 <= i
      BY <1>3, <1>5, <2>1, <2>4
    <3>2. lastId' = u[n + 1].id
      BY <1>1, <1>3, <1>5
    <3> HIDE DEF n
    <3> QED
      BY <1>5, <2>3, <2>5, <3>1, <3>2 DEF Names, FirstBreak
  <2>6. CASE ~Breaks(u, n + 1)
    <3> HIDE DEF n
    <3> QED
      BY <1>5, <2>1, <2>4, <2>6 DEF Names
  <2> QED
    BY <2>5, <2>6
<1> QED
  BY <1>6, <1>7 DEF Names

LEMMA TamperVerdict ==
  ASSUME IInv, OrderInv, Names(table, Verify), NEW k \in 1..Len(table), TamperRow(k)
  PROVE  \/ \E i \in 1..Len(table) : (Verify = 0 \/ table[i].id <= Verify) /\ TamperRow(i)
         \/ Names(table', Verify)
<1>0. TypeOK /\ Len(table) \in Nat /\ k \in 1..Len(table) /\ lastId \in Nat
  BY LenProperties, AuditAssumption DEF IInv, TypeOK, TamperRow, DeleteRow, EditRow
<1>1. CASE Verify = 0
  BY <1>0, <1>1
<1>2. CASE Verify # 0
  <2>1. PICK p \in 1..Len(table) : FirstBreak(table, p) /\ Verify = table[p].id
    BY <1>2 DEF Names
  <2>2. CASE k <= p
    <3>1. table[k].id \in 1..lastId /\ table[p].id \in 1..lastId /\ (k < p => table[k].id < table[p].id)
      BY <1>0, <2>1 DEF OrderInv, Grows
    <3>2. table[k].id <= Verify
      BY <1>0, <2>1, <2>2, <3>1
    <3> QED
      BY <1>0, <3>2
  <2>3. CASE p < k
    <3>1. PICK t \in Seq(Row) : t = table
      BY <1>0 DEF TypeOK
    <3>2. PICK u : u = table'
      OBVIOUS
    <3>3. /\ Len(u) \in Nat /\ p <= Len(u) /\ k \in 1..Len(t) /\ Len(t) \in Nat
          /\ \A i \in 1..Len(u) : i < k => i <= Len(t) /\ u[i] = t[i]
      <4>1. ASSUME NEW row \in Edited(table[k]), EditRow(k, row)
            PROVE  Len(u) = Len(t) /\ \A i \in 1..Len(t) : i < k => u[i] = t[i]
        <5>1. table' = [table EXCEPT ![k] = row] /\ table \in Seq(Row)
          BY <1>0, <4>1 DEF EditRow, TypeOK
        <5>2. Len(table') = Len(table)
          BY <1>0, <5>1
        <5>3. \A i \in 1..Len(table) : i < k => table'[i] = table[i]
          BY <1>0, <5>1
        <5> QED
          BY <3>1, <3>2, <5>2, <5>3
      <4>2. CASE DeleteRow(k)
        <5>1. u = SubSeq(t, 1, k - 1) \o SubSeq(t, k + 1, Len(t)) /\ k \in 1..Len(t)
          BY <1>0, <3>1, <3>2, <4>2 DEF DeleteRow
        <5>2. Len(u) = Len(t) - 1
              /\ \A i \in 1..(Len(t) - 1) : u[i] = t[IF i < k THEN i ELSE i + 1]
          BY <5>1, DeleteIndices
        <5>3. PICK n \in Nat : n = Len(t)
          BY <1>0, <3>1
        <5>4. Len(u) = n - 1 /\ \A i \in 1..(n - 1) : u[i] = t[IF i < k THEN i ELSE i + 1]
          BY <5>2, <5>3
        <5>5. k \in 1..n
          BY <5>1, <5>3
        <5>6. n - 1 \in Nat /\ p <= n - 1
          BY <2>3, <5>5
        <5>7. \A i \in 1..(n - 1) : i < k => i <= n /\ u[i] = t[i]
          BY <5>4, <5>5
        <5> QED
          BY <5>3, <5>4, <5>5, <5>6, <5>7
      <4> QED
        BY <1>0, <2>3, <3>1, <4>1, <4>2 DEF TamperRow
    <3>4. FirstBreak(t, p) /\ p \in Nat /\ k \in Nat
      BY <1>0, <2>1, <3>1
    <3>5. Names(u, t[p].id)
      BY <2>3, <3>3, <3>4, FirstBreakStays
    <3> QED
      BY <2>1, <3>1, <3>2, <3>5
  <2> QED
    BY <1>0, <2>2, <2>3
<1> QED
  BY <1>1, <1>2

(* The answer of Verify changes only when a row up to the one it names is  *)
(* edited or deleted, or, from 0, when an entry whose read failed is       *)
(* committed; no caller of Log and no later edit hides a broken row.       *)
THEOREM VerdictStandsHolds == Spec => VerdictStands
<1>1. Init => OrderInv
  <2> SUFFICES ASSUME Init PROVE OrderInv
    OBVIOUS
  <2>1. Len(table) = 0 /\ \A c \in Callers : call[c].step = "idle"
    BY EmptySeq DEF Init, IdleCall
  <2> QED
    BY <2>1 DEF OrderInv, Grows, ReaderFollows
<1>2. IInv => Names(table, Verify)
  BY VerifyNames DEF IInv
<1>3. IInv /\ IInv' /\ OrderInv /\ Names(table, Verify) /\ Names(table, Verify)' /\ [Next]_vars =>
        [Verify' # Verify =>
           \/ \E i \in 1..Len(table) : (Verify = 0 \/ table[i].id <= Verify) /\ TamperRow(i)
           \/ Verify = 0 /\ faulted /\ Verify' = lastId']_vars
  <2> SUFFICES ASSUME IInv, IInv', OrderInv, Names(table, Verify), Names(table', Verify'), Next,
                      Verify' # Verify
               PROVE  \/ \E i \in 1..Len(table) : (Verify = 0 \/ table[i].id <= Verify) /\ TamperRow(i)
                      \/ Verify = 0 /\ faulted /\ Verify' = lastId'
    OBVIOUS
  <2>0. Len(table') \in Nat
    BY LenProperties DEF IInv, TypeOK
  <2>1. ASSUME NEW w, Names(table', w) PROVE Verify' = w
    <3>1. PICK u : u = table'
      OBVIOUS
    <3>2. PICK v : v = Verify'
      OBVIOUS
    <3> QED
      BY <2>0, <2>1, <3>1, <3>2, NamesOne
  <2>2. ASSUME NEW c \in Callers, Log(c) PROVE Verify = 0 /\ faulted /\ Verify' = lastId'
    <3>1. CASE InsertAndCommit(c)
      BY <2>1, <3>1, CommitVerdict
    <3>2. CASE ~InsertAndCommit(c)
      <4>1. table' = table
        BY <2>2, <3>2 DEF Log, Begin, ReadPrev, ReadPrevFails, Rollback
      <4> QED
        BY <2>1, <4>1
    <3> QED
      BY <3>1, <3>2
  <2>3. ASSUME NEW k \in 1..Len(table), TamperRow(k)
        PROVE  \E i \in 1..Len(table) : (Verify = 0 \/ table[i].id <= Verify) /\ TamperRow(i)
    BY <2>1, <2>3, TamperVerdict
  <2> QED
    BY <2>2, <2>3 DEF Next, Tamper
<1> QED
  BY <1>1, <1>2, <1>3, Invariance, InitIInv, NextIInv, NextOrderInv, PTL DEF Spec, VerdictStands
=============================================================================
