----------------------------- MODULE AuditChain -----------------------------
(***************************************************************************)
(* The HMAC-chained audit log (internal/audit/audit.go): Log and Verify    *)
(* against the audit table, with concurrent callers that compete for the   *)
(* one pooled connection (internal/store/store.go), and with somebody who  *)
(* edits the table from outside but does not have the master key.          *)
(*                                                                         *)
(* An HMAC is collision free in the text it is computed from, and that     *)
(* text ends with the previous HMAC: it is represented by the sequence of  *)
(* canonical texts it covers, and the 32 zero bytes by the empty sequence. *)
(* The canonical text itself is not collision free: it joins the columns   *)
(* with bars that it does not escape, and Verify takes a column that is no *)
(* JSON for an absent one.                                                 *)
(***************************************************************************)
EXTENDS Naturals, Sequences

CONSTANTS
  Callers,     \* goroutines that call Log
  Pieces,      \* what texts are made of, the bar among them
  Entries,     \* entries a row can hold: two of its text columns, and `after'
  MaxId,       \* bound on the AUTOINCREMENT id
  MaxEdits     \* bound on the edits and deletions from outside

(* A text is a sequence of pieces, "|" one of them; a column of JSON is    *)
(* absent, a document as json.Marshal spells it, the same document spelled *)
(* otherwise, or no JSON at all.                                           *)
Text == Seq(Pieces)
Column == [spelling: {"null", "encoded", "respelled", "invalid"}, document: Text]
Entry == [actor: Text, resource: Text, after: Column]

(* What Log stores: nothing, or what json.Marshal made.                    *)
Loggable == {e \in Entries : e.after.spelling \in {"null", "encoded"}}

ASSUME AuditAssumption ==
  /\ MaxId \in Nat
  /\ MaxEdits \in Nat
  /\ {"|", "null"} \subseteq Pieces
  /\ Entries \subseteq Entry
  /\ Loggable # {}
  /\ "nobody" \notin Callers

VARIABLES
  table,    \* the rows, in the order of their ids
  lastId,   \* sqlite_sequence: the largest id ever given out
  conn,     \* who has the connection, or Nobody
  call,     \* per caller: its step, the entry and the previous HMAC it read
  written,  \* the rows Log committed, as it committed them
  faulted,  \* has a SELECT of the previous HMAC failed?
  edits     \* rows edited or deleted from outside so far

history == <<faulted, edits>>
vars == <<table, lastId, conn, call, written, history>>

-----------------------------------------------------------------------------
Nobody == "nobody"
Genesis == <<>>

(* The text an HMAC covers: Verify reads a document back before it writes  *)
(* it out, and ignores the error of json.Unmarshal.                        *)
Reread(column) ==
  IF column.spelling \in {"encoded", "respelled"} THEN column.document ELSE <<"null">>

Canonical(e) == e.actor \o <<"|">> \o e.resource \o <<"|">> \o Reread(e.after)

Mac(text, prev) == Append(prev, text)

(* Bytes that are no HMAC of any row.                                      *)
Junk == << <<>> >>

Hash == Seq({Canonical(e) : e \in Entries} \cup {<<>>})
Row == [id: Nat, entry: Entries, prev: Hash, mac: Hash]
Call == [step: {"idle", "begun", "read"}, entry: Entries, prev: Hash]

IdleCall == [step |-> "idle", entry |-> CHOOSE e \in Loggable : TRUE, prev |-> Genesis]

LastMac == IF table = <<>> THEN Genesis ELSE table[Len(table)].mac

Init ==
  /\ table = <<>>
  /\ lastId = 0
  /\ conn = Nobody
  /\ call = [c \in Callers |-> IdleCall]
  /\ written = <<>>
  /\ faulted = FALSE
  /\ edits = 0

-----------------------------------------------------------------------------
(* Log: BeginTx takes the connection and keeps it until Commit or Rollback.*)
Begin(c, e) ==
  /\ call[c].step = "idle"
  /\ conn = Nobody
  /\ conn' = c
  /\ call' = [call EXCEPT ![c] = [IdleCall EXCEPT !.step = "begun", !.entry = e]]
  /\ UNCHANGED <<table, lastId, written, history>>

(* Slip: ORDER BY id ASC.                                                  *)
ReadPrev_Oldest(c) ==
  /\ call[c].step = "begun"
  /\ call' = [call EXCEPT ![c] =
                [@ EXCEPT !.step = "read",
                          !.prev = IF table = <<>> THEN Genesis ELSE table[1].mac]]
  /\ UNCHANGED <<table, lastId, conn, written, history>>

ReadPrev(c) ==
  /\ call[c].step = "begun"
  /\ call' = [call EXCEPT ![c] = [@ EXCEPT !.step = "read", !.prev = LastMac]]
  /\ UNCHANGED <<table, lastId, conn, written, history>>

(* Every error of the Scan is taken for "no rows".                         *)
ReadPrevFails(c) ==
  /\ call[c].step = "begun"
  /\ call' = [call EXCEPT ![c] = [@ EXCEPT !.step = "read", !.prev = Genesis]]
  /\ faulted' = TRUE
  /\ UNCHANGED <<table, lastId, conn, written, edits>>

InsertAndCommit(c) ==
  /\ call[c].step = "read"
  /\ lastId < MaxId
  /\ lastId' = lastId + 1
  /\ LET row == [id |-> lastId + 1, entry |-> call[c].entry, prev |-> call[c].prev,
                 mac |-> Mac(Canonical(call[c].entry), call[c].prev)]
     IN  table' = Append(table, row) /\ written' = Append(written, row)
  /\ conn' = Nobody
  /\ call' = [call EXCEPT ![c] = IdleCall]
  /\ UNCHANGED history

(* Slip: the deferred Rollback is missing, the connection is never freed.  *)
Rollback_Leaks(c) ==
  /\ call[c].step # "idle"
  /\ call' = [call EXCEPT ![c] = IdleCall]
  /\ UNCHANGED <<table, lastId, conn, written, history>>

(* A statement fails or the caller's context is cancelled.                 *)
Rollback(c) ==
  /\ call[c].step # "idle"
  /\ conn' = Nobody
  /\ call' = [call EXCEPT ![c] = IdleCall]
  /\ UNCHANGED <<table, lastId, written, history>>

(* Outside the program: one column of a row at a time.  Without the master *)
(* key the only bytes to put where an HMAC belongs are those that Log      *)
(* wrote, zeros or junk.  The single connection does not stop it, but      *)
(* SQLite shows a transaction the table as it was when it first read it.   *)
KnownMacs == {written[k].mac : k \in 1..Len(written)} \cup {Genesis, Junk}

Edited(row) ==
  UNION {{[row EXCEPT !.entry = e] : e \in Entries},
         {[row EXCEPT !.prev = m] : m \in KnownMacs},
         {[row EXCEPT !.mac = m] : m \in KnownMacs}}

EditRow(i, row) ==
  /\ conn = Nobody
  /\ edits < MaxEdits
  /\ table' = [table EXCEPT ![i] = row]
  /\ edits' = edits + 1
  /\ UNCHANGED <<lastId, conn, call, written, faulted>>

DeleteRow(i) ==
  /\ conn = Nobody
  /\ edits < MaxEdits
  /\ table' = SubSeq(table, 1, i - 1) \o SubSeq(table, i + 1, Len(table))
  /\ edits' = edits + 1
  /\ UNCHANGED <<lastId, conn, call, written, faulted>>

Log(c) ==
  \/ \E e \in Loggable : Begin(c, e)
  \/ ReadPrev(c)
  \/ ReadPrevFails(c)
  \/ InsertAndCommit(c)
  \/ Rollback(c)

TamperRow(i) == DeleteRow(i) \/ \E row \in Edited(table[i]) : EditRow(i, row)

Tamper == \E i \in 1..Len(table) : TamperRow(i)

Next == Tamper \/ \E c \in Callers : Log(c)

Spec == Init /\ [][Next]_vars

-----------------------------------------------------------------------------
(* Verify: the rows whose prev_hmac is not the HMAC of the row before, or  *)
(* whose own HMAC does not come out; the id of the first one, or 0.        *)
ExpectedPrev(i) == IF i = 1 THEN Genesis ELSE table[i - 1].mac

(* Slip: each row is checked alone, not against the one before it.         *)
BrokenAt_RowAlone(i) == table[i].mac # Mac(Canonical(table[i].entry), table[i].prev)

BrokenAt(i) ==
  \/ table[i].prev # ExpectedPrev(i)
  \/ table[i].mac # Mac(Canonical(table[i].entry), table[i].prev)

(* Slip: the loop goes on and the last broken row is the one reported.     *)
FirstIdOf_KeepsLast(rowsOut) ==
  IF rowsOut = {} THEN 0
  ELSE table[CHOOSE i \in rowsOut : \A k \in rowsOut : i >= k].id

FirstIdOf(rowsOut) ==
  IF rowsOut = {} THEN 0
  ELSE table[CHOOSE i \in rowsOut : \A k \in rowsOut : i <= k].id

Verify == FirstIdOf({i \in 1..Len(table) : BrokenAt(i)})

-----------------------------------------------------------------------------
(* Every variable has its type; a call of Log has the connection exactly   *)
(* while it is open, so a failed call does not keep it.                    *)
TypeOK ==
  /\ table \in Seq(Row)
  /\ lastId \in 0..MaxId
  /\ conn \in Callers \cup {Nobody}
  /\ call \in [Callers -> Call]
  /\ \A c \in Callers : call[c].step # "idle" <=> conn = c
  /\ written \in Seq(Row)
  /\ faulted \in BOOLEAN /\ edits \in 0..MaxEdits

(* Unless somebody tampers or a read fails, Verify finds nothing: callers  *)
(* that interleave and roll back never break the chain themselves.         *)
ChainIntact == edits = 0 /\ ~faulted => Verify = 0

(* A failed read of the previous HMAC restarts the chain at the entry it   *)
(* happened for, and breaks it nowhere else.                               *)
BreaksOnlyWhereReadFailed ==
  edits = 0 => Verify = FirstIdOf({i \in 2..Len(table) : table[i].prev = Genesis})

(* A row that Verify accepts has the HMAC of an entry that Log wrote, with *)
(* the same canonical text, behind the same previous HMAC: nobody without  *)
(* the key makes up a row, or moves or copies one, that Verify accepts.    *)
(* What an edit can do is to leave the canonical text as it is, and what a *)
(* deletion can do is to take the newest rows: less than the promise of    *)
(* aegis-ui/lib/modules.ts:278, to flag a row "if tampering occurred".     *)
AcceptedRowsWereLogged ==
  \A i \in 1..Len(table) : ~BrokenAt(i) =>
    \E k \in 1..Len(written) :
      /\ written[k].mac = table[i].mac
      /\ written[k].prev = ExpectedPrev(i)
      /\ Canonical(written[k].entry) = Canonical(table[i].entry)

(* What Verify answers stands until somebody changes the row it names or   *)
(* one before it: nothing logged later and nothing done behind that row    *)
(* hides it.  An intact log is broken from outside, or by an entry whose   *)
(* read failed, which is then the one that Verify names.                   *)
VerdictStands ==
  [][Verify' # Verify =>
       \/ \E i \in 1..Len(table) : (Verify = 0 \/ table[i].id <= Verify) /\ TamperRow(i)
       \/ Verify = 0 /\ faulted /\ Verify' = lastId']_vars
=============================================================================
