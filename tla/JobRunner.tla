----------------------------- MODULE JobRunner ------------------------------
(***************************************************************************)
(* The durable job runner of the agent (internal/jobs/jobs.go): Submit,    *)
(* the bounded channel of ids, the workers, the status column of the jobs  *)
(* table, and what Start does with the rows of an earlier process.         *)
(*                                                                         *)
(* The process can be killed at any point.  Any SQL statement of Start and *)
(* of the workers may fail (a busy database, a full disk, an I/O error),   *)
(* and the code drops each of these errors: a job that cannot be read is   *)
(* left where it is, a handler whose row could not be marked runs all the  *)
(* same, and a result that could not be written is gone.  A graceful stop  *)
(* cancels the context of the workers first: from then on each of their    *)
(* statements does fail.  Submit uses the context of its own caller.       *)
(***************************************************************************)
EXTENDS Naturals, Sequences, FiniteSets

CONSTANTS
  Jobs,               \* job ids (uuid.NewString)
  Handled,            \* the jobs whose kind has a registered handler
  Workers,            \* worker goroutines
  QueueCap,           \* capacity of the queue channel (256)
  NullErrorReadable,  \* can Get scan a row whose error column is NULL?
                      \* FALSE in the code: Submit leaves the column NULL and
                      \* Get scans it into a plain string
  MaxBoots            \* bound on process starts; the last process stays up

ASSUME JobsAssumption ==
  /\ Handled \subseteq Jobs
  /\ QueueCap \in Nat \ {0}
  /\ NullErrorReadable \in BOOLEAN
  /\ MaxBoots \in Nat
ASSUME FiniteJobs == IsFiniteSet(Jobs)

VARIABLES
  status,      \* the status column, "none" before the INSERT
  errorSet,    \* is the error column non-NULL?
  submitting,  \* jobs inserted by a Submit that has not reached the channel
  queue,       \* the queue channel
  pc, holds,   \* each worker's step and the id it took from the channel
  up,          \* is the process running?
  stopping,    \* has its context been cancelled?
  boots,
  (* What happened to the jobs, for the properties: no step depends on it. *)
  starts,      \* how many times the handler of a job was called
  unmarked,    \* how many of these calls left the row at "queued"
  dropped,     \* ids a full channel refused since the process started
  failures     \* jobs given up since then because a statement failed

disk == <<status, errorSet>>
history == <<starts, unmarked, dropped, failures>>
vars == <<status, errorSet, submitting, queue, pc, holds, up, stopping,
          boots, starts, unmarked, dropped, failures>>

-----------------------------------------------------------------------------
Statuses == {"none", "queued", "running", "succeeded", "failed", "cancelled"}
Final == {"succeeded", "failed", "cancelled"}
WorkerSteps == {"gone", "idle", "get", "loaded", "handler"}

NoJob == "no job"

InQueue(j) == \E i \in 1..Len(queue) : queue[i] = j
Busy(w) == pc[w] \in {"get", "loaded", "handler"}
HeldBy(w, j) == Busy(w) /\ holds[w] = j

(* row.Scan of Get can read the row.                                       *)
Readable(j) == NullErrorReadable \/ errorSet[j]

Init ==
  /\ status = [j \in Jobs |-> "none"]
  /\ errorSet = [j \in Jobs |-> FALSE]
  /\ submitting = {}
  /\ queue = <<>>
  /\ pc = [w \in Workers |-> "gone"]
  /\ holds = [w \in Workers |-> NoJob]
  /\ up = FALSE
  /\ stopping = FALSE
  /\ boots = 0
  /\ starts = [j \in Jobs |-> 0]
  /\ unmarked = [j \in Jobs |-> 0]
  /\ dropped = {}
  /\ failures = {}

-----------------------------------------------------------------------------
(* Start: the select loop over the queued rows never blocks, so a channel  *)
(* that is full leaves rows behind; the order of the rows is SQLite's.     *)
QueuedRows == {j \in Jobs : status[j] = "queued"}

IsLoadOf(q, ids) ==
  /\ Len(q) = IF Cardinality(ids) <= QueueCap THEN Cardinality(ids) ELSE QueueCap
  /\ \A i \in 1..Len(q) : q[i] \in ids
  /\ \A i, k \in 1..Len(q) : q[i] = q[k] => i = k

Load(ids) ==
  /\ \E n \in 0..QueueCap : queue' \in [1..n -> ids] /\ IsLoadOf(queue', ids)
  /\ dropped' = {j \in ids : \A i \in 1..Len(queue') : queue'[i] # j}

Boot ==
  /\ ~up
  /\ boots < MaxBoots
  /\ pc' = [w \in Workers |-> "idle"]
  /\ up' = TRUE
  /\ stopping' = FALSE
  /\ boots' = boots + 1
  /\ UNCHANGED <<submitting, holds, starts, unmarked>>

(* Slip: a restart resumes the running rows instead of failing them.       *)
Start_Resumes ==
  /\ Boot
  /\ Load({j \in Jobs : status[j] \in {"queued", "running"}})
  /\ failures' = {}
  /\ UNCHANGED disk

(* Slip: the UPDATE of a restart fails every job that has not ended.       *)
Start_FailsUnfinished ==
  /\ Boot
  /\ status' = [j \in Jobs |-> IF status[j] \in {"queued", "running"} THEN "failed" ELSE status[j]]
  /\ errorSet' = [j \in Jobs |-> errorSet[j] \/ status[j] \in {"queued", "running"}]
  /\ Load({})
  /\ failures' = {}

(* The UPDATE of the running rows applies or fails; so does the SELECT,    *)
(* which may also break off after any of its rows.                         *)
Start ==
  /\ Boot
  /\ \E read \in SUBSET QueuedRows :
       /\ Load(read)
       /\ \/ /\ status' = [j \in Jobs |-> IF status[j] = "running" THEN "failed" ELSE status[j]]
             /\ errorSet' = [j \in Jobs |-> errorSet[j] \/ status[j] = "running"]
             /\ failures' = QueuedRows \ read
          \/ /\ failures' = {j \in Jobs : status[j] = "running"} \cup (QueuedRows \ read)
             /\ UNCHANGED disk

(* Submit: the INSERT, which names no error column...                      *)
SubmitInsert(j) ==
  /\ up
  /\ status[j] = "none"
  /\ status' = [status EXCEPT ![j] = "queued"]
  /\ submitting' = submitting \cup {j}
  /\ UNCHANGED <<errorSet, queue, pc, holds, up, stopping, boots, history>>

(* Slip: Submit sends again because it does not notice that it has sent.   *)
SubmitEnqueue_Resends(j) ==
  /\ j \in submitting
  /\ Len(queue) < QueueCap
  /\ queue' = Append(queue, j)
  /\ UNCHANGED <<disk, submitting, pc, holds, up, stopping, boots, history>>

(* ... then a send that does not wait; the caller is told "queued" anyway. *)
SubmitEnqueue(j) ==
  /\ j \in submitting
  /\ submitting' = submitting \ {j}
  /\ \/ /\ Len(queue) < QueueCap
        /\ queue' = Append(queue, j)
        /\ UNCHANGED dropped
     \/ /\ Len(queue) >= QueueCap
        /\ dropped' = dropped \cup {j}
        /\ UNCHANGED queue
  /\ UNCHANGED <<disk, pc, holds, up, stopping, boots, starts, unmarked, failures>>

(* Slip: the id is taken off the channel and not kept.                     *)
Dequeue_ForgetsId(w) ==
  /\ pc[w] = "idle"
  /\ queue # <<>>
  /\ queue' = Tail(queue)
  /\ pc' = [pc EXCEPT ![w] = "get"]
  /\ UNCHANGED <<disk, submitting, holds, up, stopping, boots, history>>

(* worker: select picks any ready case, so a cancelled worker may still    *)
(* take an id.                                                             *)
Dequeue(w) ==
  /\ pc[w] = "idle"
  /\ queue # <<>>
  /\ holds' = [holds EXCEPT ![w] = Head(queue)]
  /\ queue' = Tail(queue)
  /\ pc' = [pc EXCEPT ![w] = "get"]
  /\ UNCHANGED <<disk, submitting, up, stopping, boots, history>>

WorkerReturns(w) ==
  /\ pc[w] = "idle"
  /\ stopping
  /\ pc' = [pc EXCEPT ![w] = "gone"]
  /\ UNCHANGED <<disk, submitting, queue, holds, up, stopping, boots, history>>

(* run: Get the row, or return without a trace.                            *)
Get(w) ==
  /\ pc[w] = "get"
  /\ \/ /\ ~stopping
        /\ pc' = [pc EXCEPT ![w] = IF Readable(holds[w]) THEN "loaded" ELSE "idle"]
        /\ UNCHANGED failures
     \/ /\ failures' = failures \cup {holds[w]}
        /\ pc' = [pc EXCEPT ![w] = "idle"]
  /\ UNCHANGED <<disk, submitting, queue, holds, up, stopping, boots, starts, unmarked, dropped>>

(* The UPDATE that ends a job, or an error of it that nobody looks at;     *)
(* success leaves the error column alone.                                  *)
Finalize(j, result) ==
  \/ /\ ~stopping
     /\ status' = [status EXCEPT ![j] = result]
     /\ errorSet' = [errorSet EXCEPT ![j] = @ \/ result # "succeeded"]
     /\ UNCHANGED failures
  \/ /\ failures' = failures \cup {j}
     /\ UNCHANGED disk

(* Slip: a job of an unknown kind is skipped without finalize.             *)
RejectUnhandled_Skips(w) ==
  /\ pc[w] = "loaded"
  /\ holds[w] \notin Handled
  /\ pc' = [pc EXCEPT ![w] = "idle"]
  /\ UNCHANGED <<disk, submitting, queue, holds, up, stopping, boots, history>>

(* finalize of a job of an unknown kind.                                   *)
RejectUnhandled(w) ==
  /\ pc[w] = "loaded"
  /\ holds[w] \notin Handled
  /\ Finalize(holds[w], "failed")
  /\ pc' = [pc EXCEPT ![w] = "idle"]
  /\ UNCHANGED <<submitting, queue, holds, up, stopping, boots, starts, unmarked, dropped>>

(* UPDATE status='running', its error dropped, and the call of the handler.*)
RunHandler(w) ==
  /\ pc[w] = "loaded"
  /\ holds[w] \in Handled
  /\ \/ /\ ~stopping
        /\ status' = [status EXCEPT ![holds[w]] = "running"]
        /\ UNCHANGED unmarked
     \/ /\ unmarked' = [unmarked EXCEPT ![holds[w]] = @ + 1]
        /\ UNCHANGED status
  /\ starts' = [starts EXCEPT ![holds[w]] = @ + 1]
  /\ pc' = [pc EXCEPT ![w] = "handler"]
  /\ UNCHANGED <<errorSet, submitting, queue, holds, up, stopping, boots, dropped, failures>>

(* Slip: an error return skips the final UPDATE.                           *)
HandlerReturns_SuccessOnly(w) ==
  /\ pc[w] = "handler"
  /\ Finalize(holds[w], "succeeded") \/ UNCHANGED <<disk, failures>>
  /\ pc' = [pc EXCEPT ![w] = "idle"]
  /\ UNCHANGED <<submitting, queue, holds, up, stopping, boots, starts, unmarked, dropped>>

(* The handler returns nil, an error, or context.Canceled, and the row is  *)
(* told: a stop or a kill in between finds the row as the handler left it. *)
HandlerReturns(w) ==
  /\ pc[w] = "handler"
  /\ \E result \in Final : Finalize(holds[w], result)
  /\ pc' = [pc EXCEPT ![w] = "idle"]
  /\ UNCHANGED <<submitting, queue, holds, up, stopping, boots, starts, unmarked, dropped>>

(* SIGTERM or SIGINT: main's context is cancelled.                         *)
Stop ==
  /\ up
  /\ ~stopping
  /\ boots < MaxBoots
  /\ stopping' = TRUE
  /\ UNCHANGED <<disk, submitting, queue, pc, holds, up, boots, history>>

(* The process ends: killed, or main returned with workers still running.  *)
Die ==
  /\ up
  /\ boots < MaxBoots
  /\ up' = FALSE
  /\ queue' = <<>>
  /\ submitting' = {}
  /\ pc' = [w \in Workers |-> "gone"]
  /\ UNCHANGED <<disk, holds, stopping, boots, history>>

Work(w) ==
  \/ Dequeue(w)
  \/ WorkerReturns(w)
  \/ Get(w)
  \/ RejectUnhandled(w)
  \/ RunHandler(w)
  \/ HandlerReturns(w)

Next ==
  \/ Start
  \/ Stop
  \/ Die
  \/ \E j \in Jobs : SubmitInsert(j) \/ SubmitEnqueue(j)
  \/ \E w \in Workers : Work(w)

Spec == Init /\ [][Next]_vars

(* The Go scheduler lets every goroutine run and handlers return; the      *)
(* service manager starts the agent again, and a stopping one ends.        *)
FairSpec ==
  /\ Spec
  /\ WF_vars(Start)
  /\ WF_vars(stopping /\ Die)
  /\ \A j \in Jobs : WF_vars(SubmitEnqueue(j))
  /\ \A w \in Workers : WF_vars(Work(w))

-----------------------------------------------------------------------------
(* Every variable has its type. *)
TypeOK ==
  /\ status \in [Jobs -> Statuses]
  /\ errorSet \in [Jobs -> BOOLEAN]
  /\ submitting \subseteq Jobs
  /\ queue \in Seq(Jobs)
  /\ pc \in [Workers -> WorkerSteps]
  /\ holds \in [Workers -> Jobs \cup {NoJob}]
  /\ \A w \in Workers : Busy(w) => holds[w] \in Jobs
  /\ up \in BOOLEAN /\ stopping \in BOOLEAN
  /\ boots \in Nat
  /\ starts \in [Jobs -> Nat] /\ unmarked \in [Jobs -> Nat]
  /\ dropped \subseteq Jobs /\ failures \subseteq Jobs

(* Two workers never work on the same job: an id enters the channel once   *)
(* per process, from Submit or from Start but not from both.               *)
NoDoubleExecution ==
  \A w1, w2 \in Workers : Busy(w1) /\ Busy(w2) /\ holds[w1] = holds[w2] => w1 = w2

(* The handler of a job is never called once its row says it has run.      *)
OnlyQueuedJobsStart ==
  [][\A j \in Jobs : starts'[j] # starts[j] => status[j] = "queued"]_vars

(* While the process is up, stopping or not, a job is lost in two ways     *)
(* only: a full channel refuses its id, or the very statement that reads   *)
(* it or ends it fails.  A failing statement of one job never strands      *)
(* another: a running row has a worker in its handler, and a queued row    *)
(* that Get can read is in the channel, with a worker or with Submit.      *)
NoJobIsLost ==
  up => \A j \in Jobs \ failures :
    /\ status[j] = "running" => \E w \in Workers : HeldBy(w, j) /\ pc[w] = "handler"
    /\ status[j] = "queued" /\ Readable(j) /\ j \notin dropped =>
         InQueue(j) \/ j \in submitting \/ \E w \in Workers : HeldBy(w, j)

(* Kills, stops, restarts and failing statements never make one process    *)
(* call the handler of a job twice, and a call whose row was marked        *)
(* 'running' is the last one: a handler is repeated only by a later        *)
(* process, once for each earlier call that left the row at 'queued'.      *)
HandlerRunsOnce ==
  \A j \in Jobs : starts[j] <= 1 + unmarked[j] /\ starts[j] <= boots

(* "'queued' jobs are picked up": every queued job leaves that status,     *)
(* unless a full channel refuses its id or a statement on it fails.        *)
QueuedJobsArePickedUp ==
  \A j \in Jobs :
    status[j] = "queued" ~> status[j] # "queued" \/ j \in dropped \/ j \in failures

(* The jobs whose handler runs behind a row that still says "queued".      *)
Adrift ==
  {j \in Jobs : /\ status[j] = "queued"
                /\ \E w \in Workers : HeldBy(w, j) /\ pc[w] = "handler"}

(* The runner implements the life cycle its header promises, as far as     *)
(* dropped errors leave it.                                                *)
Lifecycle == INSTANCE JobLifecycle WITH adrift <- Adrift
ImplementsLifecycle == Lifecycle!Spec
=============================================================================
