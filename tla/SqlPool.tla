------------------------------- MODULE SqlPool -------------------------------
(***************************************************************************)
(* Who holds the agent's only SQLite connection.  store.Open limits the    *)
(* pool of database/sql to one connection; every statement, transaction    *)
(* and open cursor keeps it until it ends.  Runner.List keeps its cursor   *)
(* open over the job ids while it asks the pool for another connection to  *)
(* read each job.                                                          *)
(*                                                                         *)
(* A call of the agent is the list of database operations its handler      *)
(* still has to do.  "listing" is Runner.List, "insert" the INSERT of      *)
(* Runner.Submit; "plain" is any operation that needs one connection once: *)
(* a statement, a transaction, or a cursor read to its end.                *)
(***************************************************************************)
EXTENDS Naturals, Sequences, FiniteSets

CONSTANTS
  Calls,          \* concurrent calls
  Kinds,          \* the calls clients make, a subset of DOMAIN Plans
  PoolSizes,      \* values of MaxOpenConns; {1} in store.Open
  MaxJobs         \* bound: no job is submitted once the table holds so many

Plans ==
  [status       |-> <<"plain", "listing">>,
   jobs         |-> <<"listing">>,
   audit        |-> <<"plain", "plain">>,
   saveSettings |-> <<"plain", "plain", "plain", "plain">>,
   submit       |-> <<"insert">>]

ASSUME PoolAssumption ==
  /\ Kinds \subseteq DOMAIN Plans
  /\ PoolSizes \subseteq Nat \ {0}
  /\ MaxJobs \in Nat
  /\ IsFiniteSet(Calls)

VARIABLES
  maxOpen,   \* the size of the pool, set once
  jobs,      \* rows of table jobs
  call       \* per call: operations left, its step, rows its cursor has left

poolVars == <<maxOpen, jobs, call>>

-----------------------------------------------------------------------------
Operations == {"plain", "listing", "insert"}
Steps == {"idle", "want", "use", "wantMore", "useMore"}

Idle == [left |-> <<>>, step |-> "idle", rows |-> 0]

At(c, step) == call[c].step = step
Doing(c, operation) == At(c, "use") /\ Head(call[c].left) = operation
Goto(c, step) == call' = [call EXCEPT ![c].step = step]

(* The connection is given back; the handler goes on to its next operation.*)
Advance(c) ==
  LET left == Tail(call[c].left)
  IN  call' = [call EXCEPT ![c] = [left |-> left, step |-> IF left = <<>> THEN "idle" ELSE "want", rows |-> 0]]

(* A call holds one connection for its operation, and a listing a second   *)
(* one while it reads a job.                                               *)
Holding == {c \in Calls : call[c].step \in {"use", "wantMore", "useMore"}}
HoldingTwo == {c \in Calls : At(c, "useMore")}

InUse == Cardinality(Holding) + Cardinality(HoldingTwo)

Free == InUse < maxOpen

PoolInit == maxOpen \in PoolSizes /\ jobs = 0 /\ call = [c \in Calls |-> Idle]

-----------------------------------------------------------------------------
Arrive(c, kind) ==
  /\ At(c, "idle")
  /\ kind = "submit" => jobs < MaxJobs
  /\ call' = [call EXCEPT ![c].left = Plans[kind], ![c].step = "want"]
  /\ UNCHANGED <<maxOpen, jobs>>

(* The pool gives a free connection to any of those who wait.  A listing   *)
(* runs its query at once and sees the rows of that moment.                *)
Acquire(c) ==
  /\ At(c, "want")
  /\ Free
  /\ call' = [call EXCEPT ![c].step = "use",
                          ![c].rows = IF Head(call[c].left) = "listing" THEN jobs ELSE 0]
  /\ UNCHANGED <<maxOpen, jobs>>

FinishPlain(c) ==
  /\ Doing(c, "plain")
  /\ Advance(c)
  /\ UNCHANGED <<maxOpen, jobs>>

FinishInsert(c) ==
  /\ Doing(c, "insert")
  /\ jobs' = jobs + 1
  /\ Advance(c)
  /\ UNCHANGED maxOpen

(* Slip: off by one, a row after the last one is asked for.                *)
NextRow_OneMore(c) ==
  /\ Doing(c, "listing")
  /\ call[c].rows >= 0
  /\ Goto(c, "wantMore")
  /\ UNCHANGED <<maxOpen, jobs>>

(* rows.Next and Scan; then Runner.Get, through the pool.                  *)
NextRow(c) ==
  /\ Doing(c, "listing")
  /\ call[c].rows > 0
  /\ Goto(c, "wantMore")
  /\ UNCHANGED <<maxOpen, jobs>>

AcquireForGet(c) ==
  /\ At(c, "wantMore")
  /\ Free
  /\ Goto(c, "useMore")
  /\ UNCHANGED <<maxOpen, jobs>>

(* Slip: the cursor is moved again after the job was read.                 *)
ReturnFromGet_SkipsRow(c) ==
  /\ At(c, "useMore")
  /\ call' = [call EXCEPT ![c].step = "use", ![c].rows = @ - 2]
  /\ UNCHANGED <<maxOpen, jobs>>

(* Runner.Get is done; a job it could not read is left out.                *)
ReturnFromGet(c) ==
  /\ At(c, "useMore")
  /\ call' = [call EXCEPT ![c].step = "use", ![c].rows = @ - 1]
  /\ UNCHANGED <<maxOpen, jobs>>

CloseRows(c) ==
  /\ Doing(c, "listing")
  /\ call[c].rows = 0
  /\ Advance(c)
  /\ UNCHANGED <<maxOpen, jobs>>

(* A statement or the Scan of a row fails: the handler returns the error,  *)
(* and a deferred Close gives the connection back.                         *)
Fail(c) ==
  /\ At(c, "use")
  /\ call' = [call EXCEPT ![c] = Idle]
  /\ UNCHANGED <<maxOpen, jobs>>

(* The client goes away: its context ends the wait and closes the cursor.  *)
Cancel(c) ==
  /\ ~At(c, "idle")
  /\ call' = [call EXCEPT ![c] = Idle]
  /\ UNCHANGED <<maxOpen, jobs>>

-----------------------------------------------------------------------------
UseConnection(c) ==
  \/ FinishPlain(c)
  \/ FinishInsert(c)
  \/ NextRow(c)
  \/ ReturnFromGet(c)
  \/ CloseRows(c)

PoolNext ==
  \E c \in Calls :
    \/ \E kind \in Kinds : Arrive(c, kind)
    \/ Acquire(c)
    \/ AcquireForGet(c)
    \/ UseConnection(c)
    \/ Fail(c)
    \/ Cancel(c)

PoolSpec == PoolInit /\ [][PoolNext]_poolVars

(* Handlers run; database/sql hands a connection that is given back to one *)
(* of those who wait, so nobody is passed over for ever.  Nothing makes a  *)
(* client give up: the UI sets no timeout on its requests and the agent    *)
(* none on its handlers.                                                   *)
PoolFairSpec ==
  /\ PoolSpec
  /\ \A c \in Calls : WF_poolVars(UseConnection(c)) /\ SF_poolVars(Acquire(c)) /\ SF_poolVars(AcquireForGet(c))

-----------------------------------------------------------------------------
(* Every variable has its type. *)
PoolTypeOK ==
  /\ maxOpen \in PoolSizes
  /\ jobs \in Nat
  /\ call \in [Calls -> [left: Seq(Operations), step: Steps, rows: Nat]]

(* Listings that have a job left to read hold every connection, and each   *)
(* of them waits for one more.                                             *)
ListingsHoldAll ==
  /\ ~Free
  /\ \A c \in Holding : At(c, "wantMore") /\ call[c].rows > 0

(* The pool never hands out more connections than it may open.             *)
PoolRespected == InUse <= maxOpen

(* Is there anything a call can do now, short of giving up?                *)
CanGoOn(c) ==
  \/ call[c].step \in {"want", "wantMore"} /\ Free
  \/ \E operation \in Operations : Doing(c, operation)
  \/ At(c, "useMore")

(* While any call is under way, all of them are stuck exactly when         *)
(* listings that have a job left to read hold every connection.            *)
StuckOnlyByListings ==
  (\E c \in Calls : ~At(c, "idle")) =>
    (ListingsHoldAll <=> \A c \in Calls : ~CanGoOn(c))

Listing(c) == c \in Holding /\ Head(call[c].left) = "listing"

(* With the one connection of store.Open a listing that has found a job    *)
(* never moves on to the next and never ends: it can only fail or be       *)
(* cancelled.                                                              *)
ListingNeverEnds ==
  [][maxOpen = 1 => \A c \in Calls : Listing(c) /\ call[c].rows > 0 =>
       \/ Listing(c)' /\ call'[c].rows = call[c].rows
       \/ call'[c] = Idle]_poolVars

(* Nearer its end, in this order: fewer operations left, a connection for  *)
(* the next one instead of waiting for it, fewer rows left to read, and    *)
(* further with the job of one row.                                        *)
Nearer(c) ==
  \/ Len(call'[c].left) < Len(call[c].left)
  \/ /\ call'[c].left = call[c].left
     /\ ~At(c, "want")'
     /\ \/ At(c, "want")
        \/ call'[c].rows < call[c].rows
        \/ /\ call'[c].rows = call[c].rows
           /\ <<call[c].step, call'[c].step>> \in {<<"use", "wantMore">>, <<"wantMore", "useMore">>}

(* Nothing that happens, to a call or to those it competes with, sends a   *)
(* call back: its handler never repeats an operation, a query or the read  *)
(* of a job, so that a call that is served again and again comes to an end.*)
CallsAdvance ==
  [][\A c \in Calls : ~At(c, "idle") =>
       call'[c] = call[c] \/ call'[c] = Idle \/ Nearer(c)]_poolVars

(* Every call ends, however many compete for the connections, unless       *)
(* listings of jobs come to hold all of them: nothing else of what the     *)
(* agent does can block it, and a larger pool only needs more listings.    *)
OnlyListingsBlock == \A c \in Calls : ~At(c, "idle") ~> At(c, "idle") \/ ListingsHoldAll
=============================================================================
