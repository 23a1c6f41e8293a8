-------------------------- MODULE JobRunnerProofs ---------------------------
(***************************************************************************)
(* What JobRunner guarantees for any set of jobs, number of workers and    *)
(* channel capacity, with kills, graceful stops and failing statements at  *)
(* any point, whether or not Get can read a row without an error; and, at  *)
(* the end, what its List does to the pool of connections.                 *)
(***************************************************************************)
EXTENDS JobRunner, SqlPool, SequenceTheorems, FiniteSetTheorems, TLAPS

(* Who may hand a job to a worker: one place at a time has its id.         *)
QueueUnique == \A i, k \in 1..Len(queue) : queue[i] = queue[k] => i = k

QueueApart ==
  \A i \in 1..Len(queue) : /\ queue[i] \notin submitting
                           /\ \A w \in Workers : ~HeldBy(w, queue[i])

SubmittingApart == \A w \in Workers : Busy(w) => holds[w] \notin submitting

(* The status of a job that some part of the process is responsible for.   *)
WaitingIsQueued ==
  /\ \A i \in 1..Len(queue) : status[queue[i]] = "queued"
  /\ \A j \in submitting : status[j] = "queued"

WorkedOn ==
  \A w \in Workers :
    /\ pc[w] \in {"get", "loaded"} => status[holds[w]] = "queued"
    /\ pc[w] = "handler" => status[holds[w]] \in {"running", "queued"}

RunningHeld(j) ==
  status[j] = "running" => \E w \in Workers : HeldBy(w, j) /\ pc[w] = "handler"

QueuedHeld(j) ==
  status[j] = "queued" /\ Readable(j) /\ j \notin dropped =>
    InQueue(j) \/ j \in submitting \/ \E w \in Workers : HeldBy(w, j)

JobHeld(j) == j \in failures \/ (RunningHeld(j) /\ QueuedHeld(j))

DownIsEmpty ==
  ~up => /\ queue = <<>> /\ submitting = {}
         /\ \A w \in Workers : pc[w] = "gone"

IInv ==
  /\ TypeOK
  /\ QueueUnique
  /\ QueueApart
  /\ SubmittingApart
  /\ NoDoubleExecution
  /\ WaitingIsQueued
  /\ WorkedOn
  /\ DownIsEmpty
  /\ NoJobIsLost

(* What HandlerRunsOnce needs on top: a job on its way to its handler has  *)
(* not been called by this process yet, and every earlier call of a job    *)
(* that is queued left no mark.                                            *)
Waiting(j) ==
  \/ InQueue(j)
  \/ j \in submitting
  \/ \E w \in Workers : HeldBy(w, j) /\ pc[w] \in {"get", "loaded"}

RunsAccounted(j) ==
  /\ status[j] = "none" => starts[j] = 0
  /\ status[j] = "queued" => starts[j] <= unmarked[j]
  /\ Waiting(j) => starts[j] + 1 <= boots
  /\ starts[j] <= 1 + unmarked[j]
  /\ starts[j] <= boots

RunInv ==
  /\ up => boots >= 1
  /\ \A j \in Jobs : RunsAccounted(j)

(* As the code is written, Get fails on every row of a waiting job.        *)
NothingReadable ==
  ~NullErrorReadable =>
    /\ \A j \in Jobs : status[j] \in {"none", "queued"} /\ ~errorSet[j]
    /\ \A w \in Workers : pc[w] \in {"gone", "idle", "get"}

-----------------------------------------------------------------------------
LEMMA NoJobIsLostByJob ==
  NoJobIsLost <=> (up => \A j \in Jobs : JobHeld(j))
BY DEF NoJobIsLost, JobHeld, RunningHeld, QueuedHeld

LEMMA InitIInv == Init => IInv
<1> SUFFICES ASSUME Init PROVE IInv
  OBVIOUS
<1>1. TypeOK
  BY EmptySeq DEF Init, TypeOK, Statuses, WorkerSteps, Busy
<1>2. QueueUnique /\ QueueApart /\ SubmittingApart /\ NoDoubleExecution
  BY DEF Init, QueueUnique, QueueApart, SubmittingApart, NoDoubleExecution, Busy
<1>3. WaitingIsQueued /\ WorkedOn /\ DownIsEmpty /\ NoJobIsLost
  BY DEF Init, WaitingIsQueued, WorkedOn, DownIsEmpty, NoJobIsLost
<1> QED
  BY <1>1, <1>2, <1>3 DEF IInv

(* The channel as the four steps that touch it see it. *)
LEMMA AppendFacts ==
  ASSUME queue \in Seq(Jobs), NEW j \in Jobs
  PROVE  /\ Append(queue, j) \in Seq(Jobs)
         /\ Len(Append(queue, j)) = Len(queue) + 1
         /\ \A i \in 1..Len(queue) : Append(queue, j)[i] = queue[i]
         /\ Append(queue, j)[Len(queue) + 1] = j
BY AppendProperties

LEMMA LastOrBefore == \A n \in Nat : \A i \in 1..(n + 1) : i \in 1..n \/ i = n + 1
  OBVIOUS

LEMMA TailFacts ==
  ASSUME queue \in Seq(Jobs), queue # <<>>
  PROVE  /\ Head(queue) \in Jobs /\ Head(queue) = queue[1]
         /\ Tail(queue) \in Seq(Jobs)
         /\ Len(queue) \in Nat /\ Len(queue) >= 1
         /\ Len(Tail(queue)) = Len(queue) - 1
         /\ \A i \in 1..Len(Tail(queue)) : Tail(queue)[i] = queue[i + 1]
BY HeadTailProperties, EmptySeq

LEMMA LoadFacts ==
  ASSUME NEW ids \in SUBSET Jobs, Load(ids)
  PROVE  /\ queue' \in Seq(Jobs)
         /\ \A i \in 1..Len(queue)' : queue'[i] \in ids
         /\ QueueUnique'
         /\ dropped' \in SUBSET Jobs
         /\ \A j \in ids : j \in dropped' \/ InQueue(j)'
<1>1. PICK n \in 0..QueueCap : queue' \in [1..n -> ids] /\ IsLoadOf(queue', ids)
  BY DEF Load
<1>2. n \in Nat
  BY JobsAssumption
<1>3. queue' \in Seq(Jobs)
  BY <1>1, <1>2, SeqDef
<1>4. \A i \in 1..Len(queue)' : queue'[i] \in ids
  BY <1>1 DEF IsLoadOf
<1>5. QueueUnique'
  BY <1>1 DEF IsLoadOf, QueueUnique
<1>6. dropped' \in SUBSET Jobs /\ \A j \in ids : j \in dropped' \/ InQueue(j)'
  BY DEF Load, InQueue
<1> QED
  BY <1>3, <1>4, <1>5, <1>6

LEMMA StartStep ==
  ASSUME IInv, Start
  PROVE  IInv'
<1> USE DEF IInv, TypeOK, Busy, disk, history
<1>1. Boot
  BY DEF Start
<1>2. PICK read \in SUBSET QueuedRows : Load(read)
        /\ \/ /\ status' = [j \in Jobs |-> IF status[j] = "running" THEN "failed" ELSE status[j]]
              /\ errorSet' = [j \in Jobs |-> errorSet[j] \/ status[j] = "running"]
              /\ failures' = QueuedRows \ read
           \/ /\ failures' = {j \in Jobs : status[j] = "running"} \cup (QueuedRows \ read)
              /\ UNCHANGED disk
  BY DEF Start
<1>3. read \in SUBSET Jobs /\ \A j \in read : status[j] = "queued"
  BY DEF QueuedRows
<1>4. /\ queue' \in Seq(Jobs)
      /\ \A i \in 1..Len(queue)' : queue'[i] \in read
      /\ QueueUnique'
      /\ dropped' \in SUBSET Jobs
      /\ \A j \in read : j \in dropped' \/ InQueue(j)'
  BY <1>2, <1>3, LoadFacts
<1>5. /\ status' \in [Jobs -> Statuses] /\ errorSet' \in [Jobs -> BOOLEAN]
      /\ failures' \subseteq Jobs
      /\ \A j \in Jobs : status[j] = "queued" => status'[j] = "queued"
      /\ \A j \in Jobs : status'[j] = "running" => j \in failures'
      /\ \A j \in Jobs : status'[j] = "queued" => j \in read \/ j \in failures'
  <2>1. CASE UNCHANGED disk /\ failures' = {j \in Jobs : status[j] = "running"} \cup (QueuedRows \ read)
    BY <2>1 DEF QueuedRows
  <2>2. CASE /\ status' = [j \in Jobs |-> IF status[j] = "running" THEN "failed" ELSE status[j]]
             /\ errorSet' = [j \in Jobs |-> errorSet[j] \/ status[j] = "running"]
             /\ failures' = QueuedRows \ read
    BY <2>2 DEF QueuedRows, Statuses
  <2> QED
    BY <1>2, <2>1, <2>2
<1>6. /\ pc' \in [Workers -> WorkerSteps] /\ \A v \in Workers : pc'[v] = "idle"
      /\ submitting = {} /\ submitting' = {} /\ up' /\ boots' \in Nat /\ up' \in BOOLEAN
      /\ stopping' \in BOOLEAN /\ UNCHANGED <<holds, starts, unmarked>>
  <2>1. ~up /\ up' = TRUE /\ stopping' = FALSE /\ UNCHANGED <<submitting, holds, starts, unmarked>>
    BY <1>1 DEF Boot
  <2>2. submitting = {} /\ submitting' = {}
    BY <2>1 DEF DownIsEmpty
  <2>3. pc' = [w \in Workers |-> "idle"] /\ boots' = boots + 1
    BY <1>1 DEF Boot
  <2>4. pc' \in [Workers -> WorkerSteps] /\ (\A v \in Workers : pc'[v] = "idle") /\ boots' \in Nat
    BY <2>3 DEF WorkerSteps
  <2> QED
    BY <2>1, <2>2, <2>4
<1>7. TypeOK'
  BY <1>4, <1>5, <1>6
<1>8. (QueueApart /\ SubmittingApart /\ NoDoubleExecution /\ WorkedOn /\ DownIsEmpty)'
  BY <1>6 DEF QueueApart, SubmittingApart, NoDoubleExecution, WorkedOn, DownIsEmpty, HeldBy
<1>9. WaitingIsQueued'
  BY <1>3, <1>4, <1>5, <1>6 DEF WaitingIsQueued
<1>10. NoJobIsLost'
  BY <1>4, <1>5, <1>6 DEF NoJobIsLost
<1> QED
  BY <1>4, <1>7, <1>8, <1>9, <1>10

LEMMA SubmitInsertStep ==
  ASSUME IInv, NEW j \in Jobs, SubmitInsert(j)
  PROVE  IInv'
<1> USE DEF IInv, TypeOK, Busy, disk, history
<1>1. TypeOK'
  BY DEF SubmitInsert, Statuses, WorkerSteps, QueuedRows
<1>2. (QueueUnique /\ QueueApart /\ SubmittingApart /\ NoDoubleExecution)'
  BY DEF SubmitInsert, QueueUnique, QueueApart, SubmittingApart, NoDoubleExecution, HeldBy, WaitingIsQueued, WorkedOn, DownIsEmpty
<1>3. (WaitingIsQueued /\ WorkedOn /\ DownIsEmpty)'
  BY DEF SubmitInsert, WaitingIsQueued, WorkedOn, DownIsEmpty, QueueApart, SubmittingApart, NoDoubleExecution, HeldBy, QueuedRows
<1>4. NoJobIsLost'
  <2> SUFFICES ASSUME up', NEW k \in Jobs, k \notin failures' PROVE (RunningHeld(k) /\ QueuedHeld(k))'
    BY DEF NoJobIsLost, RunningHeld, QueuedHeld
  <2>1. RunningHeld(k) /\ QueuedHeld(k)
    BY NoJobIsLostByJob DEF SubmitInsert, JobHeld
  <2> QED
    BY <2>1 DEF SubmitInsert, RunningHeld, QueuedHeld, InQueue, HeldBy, Readable
<1> QED
  BY <1>1, <1>2, <1>3, <1>4

LEMMA SubmitEnqueueStep ==
  ASSUME IInv, NEW j \in Jobs, SubmitEnqueue(j)
  PROVE  IInv'
<1> USE DEF IInv, TypeOK, Busy, disk, history
<1>1. TypeOK'
  BY AppendFacts DEF SubmitEnqueue, Statuses, WorkerSteps, QueuedRows
<1>2. (QueueUnique /\ QueueApart /\ SubmittingApart /\ NoDoubleExecution)'
  <2>1. CASE queue' = queue
    BY <2>1 DEF SubmitEnqueue, QueueUnique, QueueApart, SubmittingApart, NoDoubleExecution, HeldBy
  <2>2. CASE queue' = Append(queue, j)
    <3>1. /\ Len(queue') = Len(queue) + 1 /\ Len(queue) \in Nat
          /\ \A i \in 1..Len(queue) : queue'[i] = queue[i] /\ queue[i] # j
          /\ queue'[Len(queue) + 1] = j
      BY <2>2, AppendFacts, LenProperties DEF SubmitEnqueue, QueueApart
    <3>2. \A i \in 1..Len(queue') : i \in 1..Len(queue) \/ (i = Len(queue) + 1 /\ queue'[i] = j)
      BY <3>1
    <3>3. QueueUnique'
      <4> SUFFICES ASSUME NEW i \in 1..Len(queue'), NEW k \in 1..Len(queue'), queue'[i] = queue'[k]
                   PROVE  i = k
        BY DEF QueueUnique
      <4> QED
        BY <3>1, <3>2 DEF QueueUnique
    <3>4. QueueApart'
      <4> SUFFICES ASSUME NEW i \in 1..Len(queue')
                   PROVE  queue'[i] \notin submitting' /\ \A w \in Workers : ~HeldBy(w, queue'[i])
        BY DEF SubmitEnqueue, QueueApart, HeldBy
      <4>1. CASE i \in 1..Len(queue)
        BY <3>1, <4>1 DEF SubmitEnqueue, QueueApart, HeldBy
      <4>2. CASE queue'[i] = j
        BY <4>2 DEF SubmitEnqueue, SubmittingApart, HeldBy
      <4> QED
        BY <3>2, <4>1, <4>2
    <3> QED
      BY <3>3, <3>4 DEF SubmitEnqueue, SubmittingApart, NoDoubleExecution
  <2> QED
    BY <2>1, <2>2 DEF SubmitEnqueue
<1>3. (WaitingIsQueued /\ WorkedOn /\ DownIsEmpty)'
  <2>1. \A i \in 1..Len(queue') : queue'[i] = j \/ \E k \in 1..Len(queue) : queue'[i] = queue[k]
    <3>1. CASE queue' = queue
      BY <3>1
    <3>2. CASE queue' = Append(queue, j)
      BY <3>2, AppendFacts, LenProperties
    <3> QED
      BY <3>1, <3>2 DEF SubmitEnqueue
  <2>2. WaitingIsQueued'
    <3>1. status' = status /\ submitting' \subseteq submitting /\ status[j] = "queued"
      BY DEF SubmitEnqueue, WaitingIsQueued
    <3>2. ASSUME NEW i \in 1..Len(queue') PROVE status[queue'[i]] = "queued"
      BY <2>1, <3>1 DEF WaitingIsQueued
    <3> QED
      BY <3>1, <3>2 DEF WaitingIsQueued
  <2>3. up
    BY DEF SubmitEnqueue, DownIsEmpty
  <2> QED
    BY <2>2, <2>3 DEF SubmitEnqueue, WorkedOn, DownIsEmpty
<1>4. NoJobIsLost'
  <2> SUFFICES ASSUME up', NEW k \in Jobs, k \notin failures' PROVE (RunningHeld(k) /\ QueuedHeld(k))'
    BY DEF NoJobIsLost, RunningHeld, QueuedHeld
  <2>1. RunningHeld(k) /\ QueuedHeld(k)
    BY NoJobIsLostByJob DEF SubmitEnqueue, JobHeld
  <2>2. RunningHeld(k)'
    BY <2>1 DEF SubmitEnqueue, RunningHeld, HeldBy
  <2>3. CASE queue' = queue
    BY <2>1, <2>2, <2>3, AppendFacts DEF SubmitEnqueue, QueuedHeld, InQueue, HeldBy, Readable
  <2>4. CASE queue' = Append(queue, j)
    <3>1. InQueue(k) => InQueue(k)'
      BY <2>4, AppendFacts, LenProperties DEF InQueue
    <3>2. InQueue(j)'
      <4>1. Len(queue') = Len(queue) + 1 /\ Len(queue) \in Nat /\ queue'[Len(queue) + 1] = j
        BY <2>4, AppendFacts, LenProperties
      <4>2. Len(queue) + 1 \in 1..Len(queue')
        BY <4>1
      <4> QED
        BY <4>1, <4>2 DEF InQueue
    <3> QED
      BY <2>1, <2>2, <3>1, <3>2 DEF SubmitEnqueue, QueuedHeld, HeldBy, Readable
  <2> QED
    BY <2>3, <2>4 DEF SubmitEnqueue
<1> QED
  BY <1>1, <1>2, <1>3, <1>4

LEMMA DequeueStep ==
  ASSUME IInv, NEW w \in Workers, Dequeue(w)
  PROVE  IInv'
<1> USE DEF IInv, TypeOK, Busy, disk, history
<1>1. TypeOK'
  BY TailFacts DEF Dequeue, Statuses, WorkerSteps, QueuedRows
<1>2. (QueueUnique /\ QueueApart /\ SubmittingApart /\ NoDoubleExecution)'
  BY TailFacts DEF Dequeue, QueueUnique, QueueApart, SubmittingApart, NoDoubleExecution, HeldBy, WaitingIsQueued, WorkedOn, DownIsEmpty
<1>3. (WaitingIsQueued /\ WorkedOn /\ DownIsEmpty)'
  BY TailFacts DEF Dequeue, WaitingIsQueued, WorkedOn, DownIsEmpty, QueueApart, SubmittingApart, NoDoubleExecution, HeldBy, QueuedRows
<1>4. NoJobIsLost'
  <2> SUFFICES ASSUME up', NEW k \in Jobs, k \notin failures' PROVE (RunningHeld(k) /\ QueuedHeld(k))'
    BY DEF NoJobIsLost, RunningHeld, QueuedHeld
  <2>1. RunningHeld(k) /\ QueuedHeld(k)
    BY NoJobIsLostByJob DEF Dequeue, JobHeld
  <2>2. \A v \in Workers : HeldBy(v, k) => v # w /\ HeldBy(v, k)' /\ pc'[v] = pc[v]
    BY DEF Dequeue, HeldBy
  <2>3. RunningHeld(k)'
    BY <2>1, <2>2 DEF Dequeue, RunningHeld
  <2>4. InQueue(k) => InQueue(k)' \/ HeldBy(w, k)'
    <3> SUFFICES ASSUME NEW i \in 1..Len(queue), queue[i] = k PROVE InQueue(k)' \/ HeldBy(w, k)'
      BY DEF InQueue
    <3>1. CASE i = 1
      BY <3>1, TailFacts DEF Dequeue, HeldBy
    <3>2. CASE i # 1
      <4>1. i - 1 \in 1..Len(queue)' /\ queue'[i - 1] = queue[(i - 1) + 1]
        BY <3>2, TailFacts DEF Dequeue
      <4> QED
        BY <4>1 DEF InQueue
    <3> QED
      BY <3>1, <3>2
  <2> QED
    BY <2>1, <2>2, <2>3, <2>4 DEF Dequeue, QueuedHeld, Readable
<1> QED
  BY <1>1, <1>2, <1>3, <1>4

LEMMA WorkerReturnsStep ==
  ASSUME IInv, NEW w \in Workers, WorkerReturns(w)
  PROVE  IInv'
<1> USE DEF IInv, TypeOK, Busy, disk, history
<1>1. TypeOK'
  BY DEF WorkerReturns, Statuses, WorkerSteps, QueuedRows
<1>2. (QueueUnique /\ QueueApart /\ SubmittingApart /\ NoDoubleExecution)'
  BY DEF WorkerReturns, QueueUnique, QueueApart, SubmittingApart, NoDoubleExecution, HeldBy, WaitingIsQueued, WorkedOn, DownIsEmpty
<1>3. (WaitingIsQueued /\ WorkedOn /\ DownIsEmpty)'
  BY DEF WorkerReturns, WaitingIsQueued, WorkedOn, DownIsEmpty, QueueApart, SubmittingApart, NoDoubleExecution, HeldBy, QueuedRows
<1>4. NoJobIsLost'
  <2> SUFFICES ASSUME up', NEW k \in Jobs, k \notin failures' PROVE (RunningHeld(k) /\ QueuedHeld(k))'
    BY DEF NoJobIsLost, RunningHeld, QueuedHeld
  <2>1. RunningHeld(k) /\ QueuedHeld(k)
    BY NoJobIsLostByJob DEF WorkerReturns, JobHeld
  <2> QED
    BY <2>1 DEF WorkerReturns, RunningHeld, QueuedHeld, InQueue, HeldBy, Readable
<1> QED
  BY <1>1, <1>2, <1>3, <1>4

LEMMA GetStep ==
  ASSUME IInv, NEW w \in Workers, Get(w)
  PROVE  IInv'
<1> USE DEF IInv, TypeOK, Busy, disk, history
<1>0. holds[w] \in Jobs /\ up
  BY DEF Get, DownIsEmpty
<1>1. TypeOK'
  BY <1>0 DEF Get, Statuses, WorkerSteps, Final
<1>2. (QueueUnique /\ QueueApart /\ SubmittingApart /\ NoDoubleExecution)'
  <2>1. /\ UNCHANGED <<queue, submitting, holds>>
        /\ \A v \in Workers : Busy(v)' => Busy(v)
    BY DEF Get
  <2> HIDE DEF Busy
  <2> QED
    BY <2>1 DEF QueueUnique, QueueApart, SubmittingApart, NoDoubleExecution, HeldBy
<1>3. (WaitingIsQueued /\ WorkedOn /\ DownIsEmpty)'
  <2>1. \A j \in Jobs \ {holds[w]} : status'[j] = status[j]
    BY <1>0 DEF Get
  <2>2. \A i \in 1..Len(queue) : queue[i] \in Jobs \ {holds[w]}
    BY DEF Get, QueueApart, HeldBy
  <2>3. submitting \subseteq Jobs \ {holds[w]}
    BY DEF Get, SubmittingApart
  <2>4. \A v \in Workers \ {w} : Busy(v) => holds[v] \in Jobs \ {holds[w]}
    BY DEF Get, NoDoubleExecution
  <2>5. WaitingIsQueued'
    BY <2>1, <2>2, <2>3 DEF Get, WaitingIsQueued
  <2>6. WorkedOn'
    BY <1>0, <2>1, <2>4 DEF Get, WorkedOn
  <2> QED
    BY <1>0, <2>5, <2>6 DEF Get, DownIsEmpty
<1>4. NoJobIsLost'
  <2> SUFFICES ASSUME NEW k \in Jobs, k \notin failures' PROVE (RunningHeld(k) /\ QueuedHeld(k))'
    BY DEF NoJobIsLost, RunningHeld, QueuedHeld
  <2>1. RunningHeld(k) /\ QueuedHeld(k)
    BY <1>0, NoJobIsLostByJob DEF Get, JobHeld
  <2>2. CASE k = holds[w]
    BY <1>0, <2>2 DEF Get, RunningHeld, QueuedHeld, HeldBy, WorkedOn, Readable
  <2>3. CASE k # holds[w]
    <3>1. status'[k] = status[k] /\ errorSet'[k] = errorSet[k] /\ UNCHANGED <<queue, submitting, dropped>>
      BY <1>0, <2>3 DEF Get
    <3>2. \A v \in Workers : HeldBy(v, k) => HeldBy(v, k)' /\ pc'[v] = pc[v]
      BY <2>3 DEF Get, HeldBy
    <3>3. InQueue(k) => InQueue(k)'
      BY <3>1 DEF InQueue
    <3> QED
      BY <2>1, <3>1, <3>2, <3>3 DEF RunningHeld, QueuedHeld, Readable
  <2> QED
    BY <2>2, <2>3
<1> QED
  BY <1>1, <1>2, <1>3, <1>4

LEMMA RejectUnhandledStep ==
  ASSUME IInv, NEW w \in Workers, RejectUnhandled(w)
  PROVE  IInv'
<1> USE DEF IInv, TypeOK, Busy, disk, history, Finalize
<1>0. holds[w] \in Jobs /\ up
  BY DEF RejectUnhandled, DownIsEmpty
<1>1. TypeOK'
  BY <1>0 DEF RejectUnhandled, Statuses, WorkerSteps, Final
<1>2. (QueueUnique /\ QueueApart /\ SubmittingApart /\ NoDoubleExecution)'
  <2>1. /\ UNCHANGED <<queue, submitting, holds>>
        /\ \A v \in Workers : Busy(v)' => Busy(v)
    BY DEF RejectUnhandled
  <2> HIDE DEF Busy
  <2> QED
    BY <2>1 DEF QueueUnique, QueueApart, SubmittingApart, NoDoubleExecution, HeldBy
<1>3. (WaitingIsQueued /\ WorkedOn /\ DownIsEmpty)'
  <2>1. \A j \in Jobs \ {holds[w]} : status'[j] = status[j]
    BY <1>0 DEF RejectUnhandled
  <2>2. \A i \in 1..Len(queue) : queue[i] \in Jobs \ {holds[w]}
    BY DEF RejectUnhandled, QueueApart, HeldBy
  <2>3. submitting \subseteq Jobs \ {holds[w]}
    BY DEF RejectUnhandled, SubmittingApart
  <2>4. \A v \in Workers \ {w} : Busy(v) => holds[v] \in Jobs \ {holds[w]}
    BY DEF RejectUnhandled, NoDoubleExecution
  <2>5. WaitingIsQueued'
    BY <2>1, <2>2, <2>3 DEF RejectUnhandled, WaitingIsQueued
  <2>6. WorkedOn'
    BY <1>0, <2>1, <2>4 DEF RejectUnhandled, WorkedOn
  <2> QED
    BY <1>0, <2>5, <2>6 DEF RejectUnhandled, DownIsEmpty
<1>4. NoJobIsLost'
  <2> SUFFICES ASSUME NEW k \in Jobs, k \notin failures' PROVE (RunningHeld(k) /\ QueuedHeld(k))'
    BY DEF NoJobIsLost, RunningHeld, QueuedHeld
  <2>1. RunningHeld(k) /\ QueuedHeld(k)
    BY <1>0, NoJobIsLostByJob DEF RejectUnhandled, JobHeld
  <2>2. CASE k = holds[w]
    BY <1>0, <2>2 DEF RejectUnhandled, RunningHeld, QueuedHeld
  <2>3. CASE k # holds[w]
    <3>1. status'[k] = status[k] /\ errorSet'[k] = errorSet[k] /\ UNCHANGED <<queue, submitting, dropped>>
      BY <1>0, <2>3 DEF RejectUnhandled
    <3>2. \A v \in Workers : HeldBy(v, k) => HeldBy(v, k)' /\ pc'[v] = pc[v]
      BY <2>3 DEF RejectUnhandled, HeldBy
    <3>3. InQueue(k) => InQueue(k)'
      BY <3>1 DEF InQueue
    <3> QED
      BY <2>1, <3>1, <3>2, <3>3 DEF RunningHeld, QueuedHeld, Readable
  <2> QED
    BY <2>2, <2>3
<1> QED
  BY <1>1, <1>2, <1>3, <1>4

LEMMA RunHandlerStep ==
  ASSUME IInv, NEW w \in Workers, RunHandler(w)
  PROVE  IInv'
<1> USE DEF IInv, TypeOK, Busy, disk, history
<1>0. holds[w] \in Jobs /\ up
  BY DEF RunHandler, DownIsEmpty
<1>1. TypeOK'
  <2>1. status' \in [Jobs -> Statuses]
    BY <1>0 DEF RunHandler, Statuses
  <2>2. starts' \in [Jobs -> Nat] /\ unmarked' \in [Jobs -> Nat]
    BY <1>0 DEF RunHandler
  <2>3. pc' \in [Workers -> WorkerSteps]
    BY DEF RunHandler, WorkerSteps
  <2> QED
    BY <2>1, <2>2, <2>3 DEF RunHandler
<1>2. (QueueUnique /\ QueueApart /\ SubmittingApart /\ NoDoubleExecution)'
  <2>1. /\ UNCHANGED <<queue, submitting, holds>>
        /\ \A v \in Workers : Busy(v)' => Busy(v)
    BY DEF RunHandler
  <2> HIDE DEF Busy
  <2> QED
    BY <2>1 DEF QueueUnique, QueueApart, SubmittingApart, NoDoubleExecution, HeldBy
<1>3. (WaitingIsQueued /\ WorkedOn /\ DownIsEmpty)'
  <2>1. \A j \in Jobs \ {holds[w]} : status'[j] = status[j]
    BY <1>0 DEF RunHandler
  <2>2. \A i \in 1..Len(queue) : queue[i] \in Jobs \ {holds[w]}
    BY DEF RunHandler, QueueApart, HeldBy
  <2>3. submitting \subseteq Jobs \ {holds[w]}
    BY DEF RunHandler, SubmittingApart
  <2>4. \A v \in Workers \ {w} : Busy(v) => holds[v] \in Jobs \ {holds[w]}
    BY DEF RunHandler, NoDoubleExecution
  <2>5. WaitingIsQueued'
    BY <2>1, <2>2, <2>3 DEF RunHandler, WaitingIsQueued
  <2>6. WorkedOn'
    BY <1>0, <2>1, <2>4 DEF RunHandler, WorkedOn
  <2> QED
    BY <1>0, <2>5, <2>6 DEF RunHandler, DownIsEmpty
<1>4. NoJobIsLost'
  <2> SUFFICES ASSUME NEW k \in Jobs, k \notin failures' PROVE (RunningHeld(k) /\ QueuedHeld(k))'
    BY DEF NoJobIsLost, RunningHeld, QueuedHeld
  <2>1. RunningHeld(k) /\ QueuedHeld(k)
    BY <1>0, NoJobIsLostByJob DEF RunHandler, JobHeld
  <2>2. CASE k = holds[w]
    BY <1>0, <2>2 DEF RunHandler, RunningHeld, QueuedHeld, HeldBy
  <2>3. CASE k # holds[w]
    <3>1. status'[k] = status[k] /\ errorSet'[k] = errorSet[k] /\ UNCHANGED <<queue, submitting, dropped>>
      BY <1>0, <2>3 DEF RunHandler
    <3>2. \A v \in Workers : HeldBy(v, k) => HeldBy(v, k)' /\ pc'[v] = pc[v]
      BY <2>3 DEF RunHandler, HeldBy
    <3>3. InQueue(k) => InQueue(k)'
      BY <3>1 DEF InQueue
    <3> QED
      BY <2>1, <3>1, <3>2, <3>3 DEF RunningHeld, QueuedHeld, Readable
  <2> QED
    BY <2>2, <2>3
<1> QED
  BY <1>1, <1>2, <1>3, <1>4

LEMMA HandlerReturnsStep ==
  ASSUME IInv, NEW w \in Workers, HandlerReturns(w)
  PROVE  IInv'
<1> USE DEF IInv, TypeOK, Busy, disk, history, Finalize
<1>0. holds[w] \in Jobs /\ up
  BY DEF HandlerReturns, DownIsEmpty
<1>1. TypeOK'
  BY <1>0 DEF HandlerReturns, Statuses, WorkerSteps, Final
<1>2. (QueueUnique /\ QueueApart /\ SubmittingApart /\ NoDoubleExecution)'
  <2>1. /\ UNCHANGED <<queue, submitting, holds>>
        /\ \A v \in Workers : Busy(v)' => Busy(v)
    BY DEF HandlerReturns
  <2> HIDE DEF Busy
  <2> QED
    BY <2>1 DEF QueueUnique, QueueApart, SubmittingApart, NoDoubleExecution, HeldBy
<1>3. (WaitingIsQueued /\ WorkedOn /\ DownIsEmpty)'
  <2>1. \A j \in Jobs \ {holds[w]} : status'[j] = status[j]
    BY <1>0 DEF HandlerReturns
  <2>2. \A i \in 1..Len(queue) : queue[i] \in Jobs \ {holds[w]}
    BY DEF HandlerReturns, QueueApart, HeldBy
  <2>3. submitting \subseteq Jobs \ {holds[w]}
    BY DEF HandlerReturns, SubmittingApart
  <2>4. \A v \in Workers \ {w} : Busy(v) => holds[v] \in Jobs \ {holds[w]}
    BY DEF HandlerReturns, NoDoubleExecution
  <2>5. WaitingIsQueued'
    BY <2>1, <2>2, <2>3 DEF HandlerReturns, WaitingIsQueued
  <2>6. WorkedOn'
    BY <1>0, <2>1, <2>4 DEF HandlerReturns, WorkedOn
  <2> QED
    BY <1>0, <2>5, <2>6 DEF HandlerReturns, DownIsEmpty
<1>4. NoJobIsLost'
  <2> SUFFICES ASSUME NEW k \in Jobs, k \notin failures' PROVE (RunningHeld(k) /\ QueuedHeld(k))'
    BY DEF NoJobIsLost, RunningHeld, QueuedHeld
  <2>1. RunningHeld(k) /\ QueuedHeld(k)
    BY <1>0, NoJobIsLostByJob DEF HandlerReturns, JobHeld
  <2>2. CASE k = holds[w]
    BY <1>0, <2>2 DEF HandlerReturns, RunningHeld, QueuedHeld, Final
  <2>3. CASE k # holds[w]
    <3>1. status'[k] = status[k] /\ errorSet'[k] = errorSet[k] /\ UNCHANGED <<queue, submitting, dropped>>
      BY <1>0, <2>3 DEF HandlerReturns
    <3>2. \A v \in Workers : HeldBy(v, k) => HeldBy(v, k)' /\ pc'[v] = pc[v]
      BY <2>3 DEF HandlerReturns, HeldBy
    <3>3. InQueue(k) => InQueue(k)'
      BY <3>1 DEF InQueue
    <3> QED
      BY <2>1, <3>1, <3>2, <3>3 DEF RunningHeld, QueuedHeld, Readable
  <2> QED
    BY <2>2, <2>3
<1> QED
  BY <1>1, <1>2, <1>3, <1>4

LEMMA StopStep ==
  ASSUME IInv, Stop
  PROVE  IInv'
<1> USE DEF IInv, TypeOK, Busy, disk, history
<1>1. TypeOK'
  BY DEF Stop, Statuses, WorkerSteps, QueuedRows
<1>2. (QueueUnique /\ QueueApart /\ SubmittingApart /\ NoDoubleExecution)'
  BY DEF Stop, QueueUnique, QueueApart, SubmittingApart, NoDoubleExecution, HeldBy, WaitingIsQueued, WorkedOn, DownIsEmpty
<1>3. (WaitingIsQueued /\ WorkedOn /\ DownIsEmpty)'
  BY DEF Stop, WaitingIsQueued, WorkedOn, DownIsEmpty, QueueApart, SubmittingApart, NoDoubleExecution, HeldBy, QueuedRows
<1>4. NoJobIsLost'
  <2> SUFFICES ASSUME up', NEW k \in Jobs, k \notin failures' PROVE (RunningHeld(k) /\ QueuedHeld(k))'
    BY DEF NoJobIsLost, RunningHeld, QueuedHeld
  <2>1. RunningHeld(k) /\ QueuedHeld(k)
    BY NoJobIsLostByJob DEF Stop, JobHeld
  <2> QED
    BY <2>1 DEF Stop, RunningHeld, QueuedHeld, InQueue, HeldBy, Readable
<1> QED
  BY <1>1, <1>2, <1>3, <1>4

LEMMA DieStep ==
  ASSUME IInv, Die
  PROVE  IInv'
<1> USE DEF IInv, TypeOK, Busy, disk, history
<1>1. TypeOK'
  BY EmptySeq DEF Die, WorkerSteps
<1>2. (QueueUnique /\ QueueApart /\ SubmittingApart /\ NoDoubleExecution)'
  BY DEF Die, QueueUnique, QueueApart, SubmittingApart, NoDoubleExecution, HeldBy, WaitingIsQueued, WorkedOn, DownIsEmpty
<1>3. (WaitingIsQueued /\ WorkedOn /\ DownIsEmpty)'
  BY DEF Die, WaitingIsQueued, WorkedOn, DownIsEmpty, QueueApart, SubmittingApart, NoDoubleExecution, HeldBy, QueuedRows
<1>4. NoJobIsLost'
  BY DEF Die, NoJobIsLost, InQueue, HeldBy, Readable
<1> QED
  BY <1>1, <1>2, <1>3, <1>4

LEMMA NextIInv == IInv /\ [Next]_vars => IInv'
<1> SUFFICES ASSUME IInv, [Next]_vars PROVE IInv'
  OBVIOUS
<1>1. CASE UNCHANGED vars
  BY <1>1 DEF vars, IInv, TypeOK, QueueUnique, QueueApart, SubmittingApart, NoDoubleExecution,
     WaitingIsQueued, WorkedOn, DownIsEmpty, NoJobIsLost, Busy, HeldBy, InQueue, Readable
<1>2. CASE Next
  BY <1>2, StartStep, StopStep, DieStep, SubmitInsertStep, SubmitEnqueueStep, DequeueStep,
     WorkerReturnsStep, GetStep, RejectUnhandledStep, RunHandlerStep, HandlerReturnsStep
     DEF Next, Work
<1> QED
  BY <1>1, <1>2

LEMMA Invariance == Spec => []IInv
<1> QED
  BY InitIInv, NextIInv, PTL DEF Spec

-----------------------------------------------------------------------------
(* Every variable of the runner always has its type; a busy worker always  *)
(* knows which job it is busy with.                                        *)
THEOREM TypeCorrect == Spec => []TypeOK
<1>1. IInv => TypeOK
  BY DEF IInv
<1> QED
  BY <1>1, Invariance, PTL

(* No two workers ever have the same job: Submit, Start and the channel    *)
(* hand an id out once per process.                                        *)
THEOREM NoDoubleExecutionHolds == Spec => []NoDoubleExecution
<1>1. IInv => NoDoubleExecution
  BY DEF IInv
<1> QED
  BY <1>1, Invariance, PTL

(* In a process that is up, whatever fails around it, a job whose own      *)
(* statements succeeded is not lost: a running row has a worker, and a     *)
(* readable queued row is on its way to one unless the channel was full.   *)
THEOREM NoJobIsLostHolds == Spec => []NoJobIsLost
<1>1. IInv => NoJobIsLost
  BY DEF IInv
<1> QED
  BY <1>1, Invariance, PTL

(* A handler is only ever called for a job whose row still says "queued":  *)
(* never after a row of it said running, in this process or an earlier one.*)
THEOREM OnlyQueuedJobsStartHolds == Spec => OnlyQueuedJobsStart
<1>1. IInv /\ [Next]_vars => [\A j \in Jobs : starts'[j] # starts[j] => status[j] = "queued"]_vars
  <2> SUFFICES ASSUME IInv, [Next]_vars, NEW j \in Jobs, starts'[j] # starts[j]
               PROVE  status[j] = "queued"
    OBVIOUS
  <2>1. PICK w \in Workers : RunHandler(w)
    BY DEF Next, Start, Boot, Stop, Die, SubmitInsert, SubmitEnqueue, Work, Dequeue, WorkerReturns,
       Get, RejectUnhandled, HandlerReturns, history, vars
  <2>2. holds[w] = j
    BY <2>1 DEF RunHandler, IInv, TypeOK
  <2> QED
    BY <2>1, <2>2 DEF RunHandler, IInv, WorkedOn
<1> QED
  BY <1>1, Invariance, PTL DEF Spec, OnlyQueuedJobsStart

(* Who is adrift, for a step that moves no row.                            *)
LEMMA SameAdrift ==
  ASSUME UNCHANGED status,
         \A w \in Workers, j \in Jobs :
           (HeldBy(w, j) /\ pc[w] = "handler") <=> (HeldBy(w, j)' /\ pc'[w] = "handler")
  PROVE  UNCHANGED Adrift
BY DEF Adrift

(* Each step of the runner is a step of the life cycle, or one it does not *)
(* see.                                                                    *)
LEMMA StepRefines == IInv /\ [Next]_vars => [Lifecycle!Next]_<<status, Adrift>>
<1> SUFFICES ASSUME IInv, [Next]_vars PROVE [Lifecycle!Next]_<<status, Adrift>>
  OBVIOUS
<1> USE DEF IInv, TypeOK, disk, history
<1> DEFINE Ok == [Lifecycle!Next]_<<status, Adrift>>
<1> HIDE DEF Ok
<1>1. ASSUME Start PROVE Ok
  <2>1. Adrift = {} /\ Adrift' = {}
    BY <1>1 DEF Start, Boot, Adrift, DownIsEmpty
  <2>2. UNCHANGED status \/ Lifecycle!Restart
    BY <1>1, <2>1 DEF Start, Lifecycle!Restart
  <2> QED
    BY <2>1, <2>2 DEF Ok, Lifecycle!Next
<1>2. ASSUME Die PROVE Ok
  <2>1. Adrift' = {} /\ UNCHANGED status
    BY <1>2 DEF Die, Adrift
  <2> QED
    BY <2>1 DEF Ok, Lifecycle!Next, Lifecycle!Crash
<1>3. ASSUME NEW j \in Jobs, SubmitInsert(j) PROVE Ok
  <2>1. UNCHANGED Adrift
    <3>1. ASSUME NEW w \in Workers PROVE ~HeldBy(w, j) \/ pc[w] # "handler"
      BY <1>3 DEF SubmitInsert, WorkedOn, HeldBy
    <3> QED
      BY <1>3, <3>1 DEF SubmitInsert, Adrift, HeldBy, Busy
  <2>2. Lifecycle!Submit(j)
    BY <1>3, <2>1 DEF SubmitInsert, Lifecycle!Submit, Lifecycle!Moves
  <2> QED
    BY <2>2 DEF Ok, Lifecycle!Next
<1>4. ASSUME NEW w \in Workers, Work(w) PROVE Ok
  <2>1. ASSUME Dequeue(w) \/ WorkerReturns(w) \/ Get(w) PROVE Ok
    <3>1. /\ UNCHANGED status
          /\ pc[w] # "handler" /\ pc'[w] # "handler"
          /\ \A v \in Workers \ {w} : pc'[v] = pc[v] /\ holds'[v] = holds[v]
      BY <2>1 DEF Dequeue, WorkerReturns, Get
    <3>2. UNCHANGED Adrift
      BY <3>1, SameAdrift DEF HeldBy, Busy
    <3> QED
      BY <3>1, <3>2 DEF Ok
  <2> SUFFICES ASSUME RejectUnhandled(w) \/ RunHandler(w) \/ HandlerReturns(w) PROVE Ok
    BY <1>4, <2>1 DEF Work
  <2>2. holds[w] \in Jobs
    BY DEF RejectUnhandled, RunHandler, HandlerReturns, Busy
  <2> PICK j \in Jobs : j = holds[w]
    BY <2>2
  <2>3. /\ \A v \in Workers \ {w} : pc'[v] = pc[v] /\ ~HeldBy(v, j)
        /\ UNCHANGED holds /\ HeldBy(w, j)
        /\ \A k \in Jobs \ {j} : status'[k] = status[k]
    BY DEF RejectUnhandled, RunHandler, HandlerReturns, Finalize, HeldBy, Busy, NoDoubleExecution
  <2>4. \A k \in Jobs \ {j} : k \in Adrift' <=> k \in Adrift
    BY <2>3 DEF Adrift, HeldBy, Busy
  <2>5. /\ j \in Adrift <=> status[j] = "queued" /\ pc[w] = "handler"
        /\ j \in Adrift' <=> status'[j] = "queued" /\ pc'[w] = "handler"
    BY <2>3 DEF Adrift, HeldBy, Busy
  <2>6. Adrift \subseteq Jobs /\ Adrift' \subseteq Jobs
    BY DEF Adrift
  <2>7. ASSUME RejectUnhandled(w) PROVE Ok
    <3>1. status[j] = "queued" /\ pc[w] = "loaded" /\ pc'[w] = "idle"
      BY <2>7 DEF RejectUnhandled, WorkedOn
    <3>2. j \notin Adrift /\ j \notin Adrift'
      BY <2>5, <3>1
    <3> UNCHANGED Adrift
      <4>1. \A k \in Jobs : k \in Adrift' <=> k \in Adrift
        BY <2>4, <3>2
      <4> QED
        BY <2>6, <4>1
    <3>3. UNCHANGED status \/ Lifecycle!Reject(j)
      BY <2>7, <3>1, <3>2 DEF RejectUnhandled, Finalize, Lifecycle!Reject, Lifecycle!Moves
    <3> QED
      BY <3>2, <3>3 DEF Ok, Lifecycle!Next
  <2>8. ASSUME RunHandler(w) PROVE Ok
    <3>1. status[j] = "queued" /\ pc[w] = "loaded" /\ pc'[w] = "handler"
      BY <2>8 DEF RunHandler, WorkedOn
    <3>2. j \notin Adrift
      BY <2>5, <3>1
    <3>3. CASE status' = [status EXCEPT ![j] = "running"]
      <4>1. UNCHANGED Adrift
        <5>1. j \notin Adrift'
          BY <2>5, <3>3
        <5>2. \A k \in Jobs : k \in Adrift' <=> k \in Adrift
          BY <2>4, <3>2, <5>1
        <5> QED
          BY <2>6, <5>2
      <4> QED
        BY <3>1, <3>2, <3>3, <4>1 DEF Ok, Lifecycle!Next, Lifecycle!Begin, Lifecycle!Moves
    <3>4. CASE UNCHANGED status
      <4>1. Adrift' = Adrift \cup {j}
        BY <2>4, <2>5, <2>6, <3>1, <3>4
      <4> QED
        BY <3>1, <3>2, <3>4, <4>1 DEF Ok, Lifecycle!Next, Lifecycle!Drift
    <3> QED
      BY <2>8, <3>3, <3>4 DEF RunHandler
  <2>9. ASSUME HandlerReturns(w) PROVE Ok
    <3>1. status[j] \in {"running", "queued"} /\ pc[w] = "handler" /\ pc'[w] = "idle"
      BY <2>9 DEF HandlerReturns, WorkedOn
    <3>2. j \in Adrift <=> status[j] = "queued"
      BY <2>5, <3>1
    <3>3. Adrift' = Adrift \ {j}
      BY <2>4, <2>5, <2>6, <3>1
    <3>4. CASE UNCHANGED status
      BY <3>2, <3>3, <3>4 DEF Ok, Lifecycle!Next, Lifecycle!Lose
    <3>5. ASSUME NEW result \in Final, status' = [status EXCEPT ![j] = result] PROVE Ok
      <4>1. Lifecycle!End(j)
        BY <3>1, <3>2, <3>3, <3>5 DEF Lifecycle!End, Lifecycle!Moves, Final
      <4> QED
        BY <4>1 DEF Ok, Lifecycle!Next
    <3> QED
      BY <2>9, <3>4, <3>5 DEF HandlerReturns, Finalize
  <2> QED
    BY <2>7, <2>8, <2>9
<1>5. ASSUME UNCHANGED <<status, pc, holds>> PROVE Ok
  BY <1>5, SameAdrift DEF Ok, HeldBy, Busy
<1> QED
  BY <1>1, <1>2, <1>3, <1>4, <1>5 DEF Ok, Next, Stop, SubmitEnqueue, vars

(* The runner implements the life cycle of JobLifecycle for every number   *)
(* of jobs and workers: no restart, stop, kill or failing statement takes  *)
(* a row back to an earlier status or changes a final one, and a row that  *)
(* skips "running" is one whose handler runs in this process.              *)
THEOREM RefinesLifecycle == Spec => ImplementsLifecycle
<1>1. Init => Lifecycle!Init
  BY DEF Init, Adrift, HeldBy, Busy, Lifecycle!Init
<1> QED
  BY <1>1, StepRefines, Invariance, PTL DEF Spec, ImplementsLifecycle, Lifecycle!Spec
-----------------------------------------------------------------------------
(* Only Submit, Dequeue and a restart put a job on its way; a job whose    *)
(* handler is being called is not on its way to another worker.            *)
LEMMA WaitingComesFromWaiting ==
  ASSUME IInv, NEW j \in Jobs, Waiting(j)',
         \/ \E k \in Jobs : SubmitEnqueue(k)
         \/ \E w \in Workers : Work(w)
  PROVE  Waiting(j)
<1> USE DEF IInv, TypeOK, Busy, history, disk
<1>1. ASSUME NEW k \in Jobs, SubmitEnqueue(k) PROVE Waiting(j)
  <2>1. CASE InQueue(j)'
    <3>1. CASE queue' = queue
      BY <2>1, <3>1 DEF InQueue, Waiting
    <3>2. CASE queue' = Append(queue, k)
      <4>1. PICK i \in 1..Len(queue)' : queue'[i] = j
        BY <2>1 DEF InQueue
      <4>2. Len(queue) \in Nat /\ Len(queue') = Len(queue) + 1
        BY <3>2, AppendFacts, LenProperties
      <4>3. i \in 1..Len(queue) \/ i = Len(queue) + 1
        <5>1. i \in 1..(Len(queue) + 1)
          BY <4>1, <4>2
        <5>2. PICK n \in Nat : n = Len(queue)
          BY <4>2
        <5> QED
          BY <5>1, <5>2, LastOrBefore
      <4>4. i \in 1..Len(queue) => queue[i] = j
        BY <3>2, <4>1, AppendFacts
      <4>5. i = Len(queue) + 1 => j = k
        BY <3>2, <4>1, AppendFacts
      <4> QED
        BY <1>1, <4>3, <4>4, <4>5 DEF SubmitEnqueue, InQueue, Waiting
    <3> QED
      BY <1>1, <3>1, <3>2 DEF SubmitEnqueue
  <2>2. CASE j \in submitting'
    BY <1>1, <2>2 DEF SubmitEnqueue, Waiting
  <2>3. CASE \E w \in Workers : HeldBy(w, j)' /\ pc'[w] \in {"get", "loaded"}
    BY <1>1, <2>3 DEF SubmitEnqueue, Waiting, HeldBy
  <2> QED
    BY <2>1, <2>2, <2>3 DEF Waiting
<1>2. ASSUME NEW w \in Workers, Dequeue(w) PROVE Waiting(j)
  <2>1. CASE InQueue(j)'
    <3>1. PICK i \in 1..Len(queue)' : queue'[i] = j
      BY <2>1 DEF InQueue
    <3>2. i + 1 \in 1..Len(queue) /\ queue[i + 1] = j
      BY <1>2, <3>1, TailFacts DEF Dequeue
    <3> QED
      BY <3>2 DEF InQueue, Waiting
  <2>2. CASE HeldBy(w, j)'
    <3>1. 1 \in 1..Len(queue) /\ queue[1] = j
      BY <1>2, <2>2, TailFacts DEF Dequeue, HeldBy
    <3> QED
      BY <3>1 DEF InQueue, Waiting
  <2>3. CASE j \in submitting \/ \E v \in Workers \ {w} : HeldBy(v, j)' /\ pc'[v] \in {"get", "loaded"}
    BY <1>2, <2>3 DEF Dequeue, Waiting, HeldBy
  <2> QED
    BY <1>2, <2>1, <2>2, <2>3 DEF Dequeue, Waiting
<1>3. ASSUME NEW w \in Workers, ~Dequeue(w), Work(w) PROVE Waiting(j)
  <2>1. /\ queue' = queue /\ submitting' = submitting /\ holds' = holds
        /\ \A v \in Workers : pc'[v] \in {"get", "loaded"} => pc[v] \in {"get", "loaded"}
    BY <1>3 DEF Work, WorkerReturns, Get, RejectUnhandled, RunHandler, HandlerReturns
  <2> QED
    BY <2>1 DEF Waiting, InQueue, HeldBy
<1> QED
  BY <1>1, <1>2, <1>3

LEMMA WaitingIsQueuedRow ==
  ASSUME IInv, NEW j \in Jobs, Waiting(j)
  PROVE  status[j] = "queued"
BY DEF IInv, Waiting, InQueue, HeldBy, WaitingIsQueued, WorkedOn

(* The job of a worker that is about to call the handler waits nowhere     *)
(* else.                                                                   *)
LEMMA CalledIsNotWaiting ==
  ASSUME IInv, NEW w \in Workers, RunHandler(w), NEW j \in Jobs, holds[w] = j
  PROVE  ~Waiting(j)'
<1> USE DEF IInv, TypeOK, Busy, history
<1>1. /\ HeldBy(w, j)
      /\ queue' = queue /\ submitting' = submitting /\ holds' = holds
      /\ pc' = [pc EXCEPT ![w] = "handler"]
  BY DEF RunHandler, HeldBy
<1>2. ~InQueue(j)' /\ j \notin submitting'
  BY <1>1 DEF QueueApart, SubmittingApart, InQueue, HeldBy
<1>3. ASSUME NEW v \in Workers, HeldBy(v, j)', pc'[v] \in {"get", "loaded"} PROVE FALSE
  BY <1>1, <1>3 DEF NoDoubleExecution, HeldBy
<1> QED
  BY <1>2, <1>3 DEF Waiting

LEMMA InitRunInv == Init => RunInv
<1> SUFFICES ASSUME Init PROVE RunInv
  OBVIOUS
<1>1. up = FALSE /\ boots = 0 /\ \A j \in Jobs : starts[j] = 0 /\ unmarked[j] = 0
  BY DEF Init
<1>2. \A j \in Jobs : ~Waiting(j)
  BY EmptySeq DEF Init, Waiting, InQueue, HeldBy, Busy
<1> QED
  BY <1>1, <1>2 DEF RunInv, RunsAccounted

LEMMA NextRunInv == IInv /\ RunInv /\ [Next]_vars => RunInv'
<1> SUFFICES ASSUME IInv, RunInv, [Next]_vars PROVE RunInv'
  OBVIOUS
<1> USE DEF IInv, TypeOK, history, disk
<1>0. boots \in Nat /\ \A j \in Jobs : starts[j] \in Nat /\ unmarked[j] \in Nat
  OBVIOUS
<1>1. CASE UNCHANGED vars
  BY <1>1 DEF vars, RunInv, RunsAccounted, Waiting, InQueue, HeldBy, Busy
<1>2. CASE Start
  <2>1. boots' = boots + 1 /\ UNCHANGED <<starts, unmarked>>
    BY <1>2 DEF Start, Boot
  <2>2. \A j \in Jobs : status'[j] \in {"none", "queued"} => status'[j] = status[j]
    BY <1>2 DEF Start
  <2>3. \A j \in Jobs : starts[j] <= boots
    BY DEF RunInv, RunsAccounted
  <2> QED
    BY <1>0, <2>1, <2>2, <2>3 DEF RunInv, RunsAccounted
<1>3. CASE Stop
  <2>1. UNCHANGED <<status, boots, starts, unmarked, up>>
    BY <1>3 DEF Stop
  <2>2. \A j \in Jobs : Waiting(j)' => Waiting(j)
    BY <1>3 DEF Stop, Waiting, InQueue, HeldBy, Busy
  <2> QED
    BY <2>1, <2>2 DEF RunInv, RunsAccounted
<1>4. CASE Die
  <2>1. UNCHANGED <<status, boots, starts, unmarked>> /\ ~up'
    BY <1>4 DEF Die
  <2>2. \A j \in Jobs : ~Waiting(j)'
    <3>1. Len(queue') = 0
      BY <1>4, EmptySeq DEF Die
    <3> QED
      BY <1>4, <3>1 DEF Die, Waiting, InQueue, HeldBy, Busy
  <2> QED
    BY <2>1, <2>2 DEF RunInv, RunsAccounted
<1>5. ASSUME NEW k \in Jobs, SubmitInsert(k) PROVE RunInv'
  <2>1. /\ UNCHANGED <<boots, starts, unmarked, up>>
        /\ starts[k] = 0 /\ boots >= 1
        /\ \A j \in Jobs \ {k} : status'[j] = status[j]
    BY <1>5 DEF SubmitInsert, RunInv, RunsAccounted
  <2>2. \A j \in Jobs \ {k} : Waiting(j)' => Waiting(j)
    BY <1>5 DEF SubmitInsert, Waiting, InQueue, HeldBy, Busy
  <2>3. ASSUME NEW j \in Jobs \ {k} PROVE RunsAccounted(j)'
    BY <2>1, <2>2 DEF RunInv, RunsAccounted
  <2>4. RunsAccounted(k)'
    BY <1>0, <2>1 DEF RunsAccounted
  <2> QED
    BY <1>0, <2>1, <2>3, <2>4 DEF RunInv
<1>6. ASSUME NEW k \in Jobs, SubmitEnqueue(k) PROVE RunInv'
  <2>1. UNCHANGED <<status, boots, starts, unmarked, up>>
    BY <1>6 DEF SubmitEnqueue
  <2>2. \A j \in Jobs : Waiting(j)' => Waiting(j)
    BY <1>6, WaitingComesFromWaiting
  <2> QED
    BY <2>1, <2>2 DEF RunInv, RunsAccounted
<1>7. ASSUME NEW w \in Workers, Work(w) PROVE RunInv'
  <2>1. \A j \in Jobs : Waiting(j)' => Waiting(j)
    BY <1>7, WaitingComesFromWaiting
  <2>2. UNCHANGED <<boots, up>>
    BY <1>7 DEF Work, Dequeue, WorkerReturns, Get, RejectUnhandled, RunHandler, HandlerReturns
  <2>3. CASE RunHandler(w)
    <3>0. holds[w] \in Jobs
      BY <2>3 DEF RunHandler, Busy
    <3> PICK id \in Jobs : id = holds[w]
      BY <3>0
    <3>1. id \in Jobs /\ status[id] = "queued" /\ Waiting(id)
      BY <2>3 DEF RunHandler, Busy, WorkedOn, Waiting, HeldBy
    <3>2. ~Waiting(id)'
      BY <2>3, CalledIsNotWaiting
    <3>3. /\ starts'[id] = starts[id] + 1
          /\ \/ status'[id] = "running" /\ unmarked'[id] = unmarked[id]
             \/ unmarked'[id] = unmarked[id] + 1
          /\ \A j \in Jobs \ {id} : /\ starts'[j] = starts[j] /\ status'[j] = status[j]
                                   /\ unmarked'[j] = unmarked[j]
      BY <2>3, <3>1 DEF RunHandler
    <3>4. starts[id] <= unmarked[id] /\ starts[id] + 1 <= boots
      BY <3>1 DEF RunInv, RunsAccounted
    <3>5. starts[id] \in Nat /\ unmarked[id] \in Nat /\ starts'[id] # 0
      BY <1>0, <3>1, <3>3
    <3>6. RunsAccounted(id)'
      <4>1. /\ starts'[id] <= boots'
            /\ starts'[id] <= 1 + unmarked'[id]
            /\ status'[id] # "running" => starts'[id] <= unmarked'[id]
        BY <1>0, <2>2, <3>3, <3>4, <3>5
      <4>2. status'[id] # "none"
        BY <2>3, <3>1 DEF RunHandler
      <4> QED
        BY <3>2, <4>1, <4>2 DEF RunsAccounted
    <3>7. ASSUME NEW j \in Jobs \ {id} PROVE RunsAccounted(j)'
      BY <2>1, <2>2, <3>3 DEF RunInv, RunsAccounted
    <3> QED
      BY <2>2, <3>6, <3>7 DEF RunInv
  <2>4. CASE ~RunHandler(w)
    <3>1. /\ UNCHANGED <<starts, unmarked>>
          /\ \A j \in Jobs : status'[j] = status[j] \/ status'[j] \in Final
      BY <1>7, <2>4 DEF Work, Dequeue, WorkerReturns, Get, RejectUnhandled, HandlerReturns,
         Finalize, Final
    <3> QED
      BY <2>1, <2>2, <3>1 DEF RunInv, RunsAccounted, Final
  <2> QED
    BY <2>3, <2>4
<1> QED
  BY <1>1, <1>2, <1>3, <1>4, <1>5, <1>6, <1>7 DEF Next

(* However often the process is killed, stopped and started again and      *)
(* whatever statements fail, no process calls the handler of a job twice,  *)
(* and a handler is repeated only after calls that left the row at         *)
(* "queued" (run, finalize and Start of jobs.go).                          *)
THEOREM HandlerRunsOnceHolds == Spec => []HandlerRunsOnce
<1>1. RunInv => HandlerRunsOnce
  BY DEF RunInv, RunsAccounted, HandlerRunsOnce
<1> QED
  BY <1>1, InitRunInv, NextRunInv, Invariance, PTL DEF Spec

(* Submit leaves the error column NULL and Get cannot scan that.           *)
NothingRuns ==
  ~NullErrorReadable => \A j \in Jobs : starts[j] = 0 /\ status[j] \in {"none", "queued"}

LEMMA NextNothingReadable ==
  IInv /\ NothingReadable /\ NothingRuns /\ [Next]_vars => NothingReadable' /\ NothingRuns'
<1> SUFFICES ASSUME IInv, NothingReadable, NothingRuns, [Next]_vars, ~NullErrorReadable
             PROVE  NothingReadable' /\ NothingRuns'
  BY DEF NothingReadable, NothingRuns
<1> USE DEF IInv, TypeOK, NothingReadable, NothingRuns, history, disk, Busy
<1>1. CASE Start
  BY <1>1 DEF Start, Boot
<1>2. ASSUME NEW j \in Jobs, SubmitInsert(j) PROVE NothingReadable' /\ NothingRuns'
  BY <1>2 DEF SubmitInsert
<1>3. ASSUME NEW w \in Workers, Work(w) PROVE NothingReadable' /\ NothingRuns'
  <2>1. pc[w] \in {"gone", "idle", "get"}
    OBVIOUS
  <2>2. CASE Get(w)
    <3>1. holds[w] \in Jobs /\ ~errorSet[holds[w]]
      BY <2>2 DEF Get
    <3>2. ~Readable(holds[w])
      BY <3>1 DEF Readable
    <3>3. pc'[w] = "idle" /\ \A v \in Workers \ {w} : pc'[v] = pc[v]
      BY <2>2, <3>2 DEF Get
    <3> QED
      BY <2>2, <3>3 DEF Get
  <2>3. CASE Dequeue(w) \/ WorkerReturns(w)
    BY <2>3 DEF Dequeue, WorkerReturns
  <2> QED
    BY <1>3, <2>1, <2>2, <2>3 DEF Work, RejectUnhandled, RunHandler, HandlerReturns
<1>4. CASE UNCHANGED <<status, errorSet, starts>> /\ \A w \in Workers : pc'[w] \in {pc[w], "gone"}
  BY <1>4
<1> QED
  BY <1>1, <1>2, <1>3, <1>4 DEF Next, Stop, Die, SubmitEnqueue, vars

(* With Get as it is written no handler is ever called and every job that  *)
(* was submitted stays queued, for any number of workers and restarts: the *)
(* error column Submit leaves NULL is never written before Get reads it.   *)
THEOREM AsWrittenNothingRuns == Spec => []NothingRuns
<1>1. Init => NothingReadable /\ NothingRuns
  BY DEF Init, NothingReadable, NothingRuns
<1> QED
  BY <1>1, NextNothingReadable, Invariance, PTL DEF Spec
-----------------------------------------------------------------------------
(***************************************************************************)
(* Runner.List and the connections of the pool: what module SqlPool        *)
(* guarantees for any finite set of calls, any table and any size of the   *)
(* pool.                                                                   *)
(***************************************************************************)
(* A call under way has an operation left, and only a listing with a row   *)
(* left asks for a second connection.                                      *)
CallsInOrder ==
  \A c \in Calls :
    /\ At(c, "idle") <=> call[c].left = <<>>
    /\ call[c].step \in {"wantMore", "useMore"} =>
         Head(call[c].left) = "listing" /\ call[c].rows > 0

PoolInv == PoolTypeOK /\ CallsInOrder /\ PoolRespected
-----------------------------------------------------------------------------
LEMMA PlansTyped ==
  ASSUME NEW kind \in Kinds
  PROVE  Plans[kind] \in Seq(Operations) /\ Plans[kind] # <<>>
<1>1. kind \in {"status", "jobs", "audit", "saveSettings", "submit"}
  BY PoolAssumption DEF Plans
<1>2. /\ Plans["status"] = <<"plain", "listing">> /\ Plans["jobs"] = <<"listing">>
      /\ Plans["audit"] = <<"plain", "plain">> /\ Plans["submit"] = <<"insert">>
      /\ Plans["saveSettings"] = <<"plain", "plain", "plain", "plain">>
  BY DEF Plans
<1>3. /\ <<"plain", "listing">> \in Seq(Operations) /\ <<"listing">> \in Seq(Operations)
      /\ <<"plain", "plain">> \in Seq(Operations) /\ <<"insert">> \in Seq(Operations)
      /\ <<"plain", "plain", "plain", "plain">> \in Seq(Operations)
  BY DEF Operations
<1>4. /\ <<"plain", "listing">> # <<>> /\ <<"listing">> # <<>> /\ <<"plain", "plain">> # <<>>
      /\ <<"insert">> # <<>> /\ <<"plain", "plain", "plain", "plain">> # <<>>
  OBVIOUS
<1>5. \A k \in {"status", "jobs", "audit", "saveSettings", "submit"} :
        Plans[k] \in Seq(Operations) /\ Plans[k] # <<>>
  BY <1>2, <1>3, <1>4, Zenon
<1> QED
  BY <1>1, <1>5, Zenon

(* A call moves between these steps only, and it takes a connection only   *)
(* when one is free.                                                       *)
Moves(c) ==
  \/ call'[c].step \in {"idle", "want"}
  \/ call'[c].step = "wantMore" /\ At(c, "use")
  \/ call'[c].step = "use" /\ (At(c, "useMore") \/ (At(c, "want") /\ Free))
  \/ call'[c].step = "useMore" /\ At(c, "wantMore") /\ Free

Serves(c) ==
  \/ \E kind \in Kinds : Arrive(c, kind)
  \/ Acquire(c) \/ AcquireForGet(c) \/ UseConnection(c) \/ Cancel(c)

(* A handler that fails gives back what one that is cancelled does.        *)
LEMMA FailEndsCall == \A c \in Calls : Fail(c) => Cancel(c)
BY DEF Fail, Cancel, At

(* Every step is one of one call, and leaves that call in order. *)
LEMMA OneCallSteps ==
  ASSUME PoolTypeOK, CallsInOrder, NEW c \in Calls, Serves(c)
  PROVE  /\ PoolTypeOK' /\ CallsInOrder' /\ Moves(c) /\ maxOpen' = maxOpen
         /\ \A d \in Calls \ {c} : call'[d] = call[d]
<1> USE DEF PoolTypeOK, CallsInOrder, At, Doing, Moves
<1> DEFINE Goal == /\ PoolTypeOK' /\ CallsInOrder' /\ Moves(c) /\ maxOpen' = maxOpen
                   /\ \A d \in Calls \ {c} : call'[d] = call[d]
<1>0. /\ call[c].left \in Seq(Operations)
      /\ call[c].step \in Steps /\ call[c].rows \in Nat
  OBVIOUS
<1>1. ASSUME NEW kind \in Kinds, Arrive(c, kind) PROVE Goal
  BY <1>1, PlansTyped DEF Arrive, Steps
<1>2. CASE Acquire(c)
  BY <1>0, <1>2 DEF Acquire, Steps
<1>3. CASE AcquireForGet(c)
  BY <1>0, <1>3 DEF AcquireForGet, Goto, Steps
<1>4. CASE NextRow(c)
  BY <1>0, <1>4 DEF NextRow, Goto, Steps
<1>5. CASE ReturnFromGet(c)
  BY <1>0, <1>5 DEF ReturnFromGet, Steps
<1>6. CASE FinishPlain(c) \/ FinishInsert(c) \/ CloseRows(c)
  <2>1. /\ Advance(c) /\ call[c].step = "use" /\ call[c].left # <<>>
        /\ jobs' \in Nat /\ maxOpen' = maxOpen
    BY <1>6 DEF FinishPlain, FinishInsert, CloseRows
  <2>2. Tail(call[c].left) \in Seq(Operations)
    BY <1>0, <2>1, HeadTailProperties
  <2>3. PICK left \in Seq(Operations) :
          call' = [call EXCEPT ![c] = [left |-> left,
                                       step |-> IF left = <<>> THEN "idle" ELSE "want", rows |-> 0]]
    BY <2>1, <2>2 DEF Advance
  <2> QED
    BY <2>1, <2>3 DEF Steps
<1>7. CASE Cancel(c)
  <2>1. <<>> \in Seq(Operations)
    BY EmptySeq
  <2> QED
    BY <1>7, <2>1 DEF Cancel, Idle, Steps
<1> QED
  BY <1>1, <1>2, <1>3, <1>4, <1>5, <1>6, <1>7 DEF Serves, UseConnection

LEMMA CountsTyped ==
  /\ IsFiniteSet(Holding) /\ IsFiniteSet(HoldingTwo)
  /\ Cardinality(Holding) \in Nat /\ Cardinality(HoldingTwo) \in Nat
  /\ InUse = Cardinality(Holding) + Cardinality(HoldingTwo)
<1>1. Holding \in SUBSET Calls /\ HoldingTwo \in SUBSET Calls
  BY DEF Holding, HoldingTwo
<1>2. IsFiniteSet(Calls)
  BY PoolAssumption
<1>3. IsFiniteSet(Holding) /\ IsFiniteSet(HoldingTwo)
  BY <1>1, <1>2, FS_Subset
<1>4. InUse = Cardinality(Holding) + Cardinality(HoldingTwo)
  BY DEF InUse
<1> QED
  BY <1>3, <1>4, FS_CardinalityType

(* What taking and giving back do to the number of connections in use. *)
LEMMA AddOrRemove ==
  ASSUME NEW S, NEW x, IsFiniteSet(S)
  PROVE  /\ Cardinality(S) \in Nat
         /\ Cardinality(S \cup {x}) \in {Cardinality(S), Cardinality(S) + 1}
         /\ x \in S => Cardinality(S \cup {x}) = Cardinality(S)
         /\ Cardinality(S \ {x}) \in Nat /\ Cardinality(S \ {x}) <= Cardinality(S)
         /\ x \in S => Cardinality(S \ {x}) = Cardinality(S) - 1
         /\ x \notin S => Cardinality(S \ {x}) = Cardinality(S)
<1>1. Cardinality(S) \in Nat
  BY FS_CardinalityType
<1>2. Cardinality(S \cup {x}) = IF x \in S THEN Cardinality(S) ELSE Cardinality(S) + 1
  BY FS_AddElement
<1>3. IsFiniteSet(S \ {x})
      /\ Cardinality(S \ {x}) = IF x \in S THEN Cardinality(S) - 1 ELSE Cardinality(S)
  BY FS_RemoveElement
<1>4. Cardinality(S \ {x}) \in Nat
  BY <1>3, FS_CardinalityType
<1> QED
  BY <1>1, <1>2, <1>3, <1>4

(* A call that takes a connection takes a free one, so no step breaks the  *)
(* limit of the pool.                                                      *)
LEMMA CallStepPoolInv ==
  ASSUME PoolInv, NEW c \in Calls, Serves(c)
  PROVE  PoolInv'
<1> USE DEF PoolInv, PoolTypeOK
<1>1. /\ PoolTypeOK' /\ CallsInOrder' /\ Moves(c) /\ maxOpen' = maxOpen
      /\ \A d \in Calls \ {c} : call'[d] = call[d]
  BY OneCallSteps
<1> DEFINE to == call'[c].step
<1>2. PoolRespected'
  <2> DEFINE H == Cardinality(Holding)
             T == Cardinality(HoldingTwo)
  <2>1. H \in Nat /\ T \in Nat /\ maxOpen \in Nat /\ H + T <= maxOpen
    BY CountsTyped, PoolAssumption DEF PoolRespected
  <2>2. Holding' = IF to \in {"use", "wantMore", "useMore"}
                   THEN Holding \cup {c} ELSE Holding \ {c}
    BY <1>1 DEF Holding
  <2>3. HoldingTwo' = IF to = "useMore"
                   THEN HoldingTwo \cup {c} ELSE HoldingTwo \ {c}
    BY <1>1 DEF HoldingTwo, At
  <2>4. /\ c \in Holding <=> call[c].step \in {"use", "wantMore", "useMore"}
        /\ c \in HoldingTwo <=> call[c].step = "useMore"
    BY DEF Holding, HoldingTwo, At
  <2>5. /\ Cardinality(Holding \cup {c}) \in {H, H + 1}
        /\ c \in Holding => Cardinality(Holding \cup {c}) = H
        /\ Cardinality(Holding \ {c}) \in Nat /\ Cardinality(Holding \ {c}) <= H
        /\ Cardinality(HoldingTwo \cup {c}) \in {T, T + 1}
        /\ Cardinality(HoldingTwo \ {c}) \in Nat /\ Cardinality(HoldingTwo \ {c}) <= T
        /\ c \in HoldingTwo => Cardinality(HoldingTwo \ {c}) = T - 1
    BY CountsTyped, AddOrRemove
  <2>6. Free => H + T < maxOpen
    BY CountsTyped DEF Free
  <2>7. InUse' = Cardinality(Holding)' + Cardinality(HoldingTwo)'
    BY DEF InUse
  <2> HIDE DEF H, T
  <2>8. CASE to \in {"idle", "want"}
    BY <2>1, <2>2, <2>3, <2>5, <2>8, <2>7, <1>1 DEF PoolRespected
  <2>9. CASE to = "wantMore" /\ At(c, "use")
    BY <2>1, <2>2, <2>3, <2>4, <2>5, <2>9, <2>7, <1>1 DEF PoolRespected, At
  <2>10. CASE to = "use" /\ At(c, "useMore")
    BY <2>1, <2>2, <2>3, <2>4, <2>5, <2>10, <2>7, <1>1 DEF PoolRespected, At
  <2>11. CASE to = "use" /\ At(c, "want") /\ Free
    BY <2>1, <2>2, <2>3, <2>5, <2>6, <2>11, <2>7, <1>1 DEF PoolRespected
  <2>12. CASE to = "useMore" /\ At(c, "wantMore") /\ Free
    BY <2>1, <2>2, <2>3, <2>4, <2>5, <2>6, <2>12, <2>7, <1>1 DEF PoolRespected, At
  <2> QED
    BY <1>1, <2>8, <2>9, <2>10, <2>11, <2>12 DEF Moves
<1> QED
  BY <1>1, <1>2

LEMMA InitPoolInv ==
  PoolInit => PoolInv
<1> SUFFICES ASSUME PoolInit PROVE PoolInv
  OBVIOUS
<1>1. PoolTypeOK
  BY EmptySeq DEF PoolInit, PoolTypeOK, Idle, Steps
<1>2. CallsInOrder
  BY DEF PoolInit, CallsInOrder, At, Idle
<1>3. PoolRespected
  <2>1. Holding = {} /\ HoldingTwo = {}
    BY DEF PoolInit, Holding, HoldingTwo, At, Idle
  <2>2. InUse = 0
    BY <2>1, CountsTyped, FS_EmptySet
  <2> QED
    BY <1>1, <2>2, PoolAssumption DEF PoolRespected, PoolTypeOK
<1> QED
  BY <1>1, <1>2, <1>3 DEF PoolInv

LEMMA NextPoolInv ==
  PoolInv /\ [PoolNext]_poolVars => PoolInv'
<1> SUFFICES ASSUME PoolInv, [PoolNext]_poolVars PROVE PoolInv'
  OBVIOUS
<1>1. CASE UNCHANGED poolVars
  BY <1>1 DEF poolVars, PoolInv, PoolTypeOK, CallsInOrder, PoolRespected,
              InUse, Holding, HoldingTwo, At
<1>2. CASE PoolNext
  BY <1>2, CallStepPoolInv, FailEndsCall DEF PoolNext, Serves
<1> QED
  BY <1>1, <1>2

LEMMA PoolInvariance == PoolSpec => []PoolInv
<1> QED
  BY InitPoolInv, NextPoolInv, PTL DEF PoolSpec

(* Every call keeps a plan of known operations and a step of Runner.List   *)
(* or of one statement, whatever calls arrive and are cancelled.           *)
THEOREM PoolTypeCorrect == PoolSpec => []PoolTypeOK
<1>1. PoolInv => PoolTypeOK
  BY DEF PoolInv
<1> QED
  BY <1>1, PoolInvariance, PTL

(* However many calls arrive, are served or are cancelled, database/sql    *)
(* never has more connections in use than store.Open allows it.            *)
THEOREM PoolRespectedHolds == PoolSpec => []PoolRespected
<1>1. PoolInv => PoolRespected
  BY DEF PoolInv
<1> QED
  BY <1>1, PoolInvariance, PTL

(* Once a call is under way, no call can go on exactly when every          *)
(* connection is the cursor of a listing of jobs whose Runner.Get waits    *)
(* for another one: there is no other way to exhaust the pool.             *)
THEOREM StuckOnlyByListingsHolds == PoolSpec => []StuckOnlyByListings
<1>1. PoolInv => StuckOnlyByListings
  <2> SUFFICES ASSUME PoolInv, NEW c \in Calls, ~At(c, "idle")
               PROVE  ListingsHoldAll <=> \A d \in Calls : ~CanGoOn(d)
    BY DEF StuckOnlyByListings
  <2> USE DEF PoolInv, PoolTypeOK
  <2>1. ASSUME ListingsHoldAll, NEW d \in Calls, CanGoOn(d) PROVE FALSE
    <3>1. call[d].step \in {"use", "useMore"} /\ d \in Holding
      BY <2>1 DEF ListingsHoldAll, CanGoOn, Doing, At, Holding
    <3> QED
      BY <2>1, <3>1 DEF ListingsHoldAll, At
  <2>2. ASSUME \A d \in Calls : ~CanGoOn(d) PROVE ListingsHoldAll
    <3>1. \A d \in Calls : call[d].step \in {"idle", "want", "wantMore"}
      <4> SUFFICES ASSUME NEW d \in Calls, call[d].step \in {"use", "useMore"} PROVE FALSE
        BY DEF Steps
      <4>1. CASE call[d].step = "useMore"
        BY <2>2, <4>1 DEF CanGoOn, At
      <4>2. CASE call[d].step = "use"
        <5>1. call[d].left # <<>> /\ call[d].left \in Seq(Operations)
          BY <4>2 DEF CallsInOrder, At
        <5>2. Head(call[d].left) \in Operations
          BY <5>1, HeadTailProperties
        <5> QED
          BY <2>2, <4>2, <5>2 DEF CanGoOn, Doing, At
      <4> QED
        BY <4>1, <4>2
    <3>2. \A d \in Holding : At(d, "wantMore") /\ call[d].rows > 0
      BY <3>1 DEF Holding, At, CallsInOrder
    <3>3. ~Free
      BY <2>2, <3>1 DEF CanGoOn, At
    <3> QED
      BY <3>2, <3>3 DEF ListingsHoldAll
  <2> QED
    BY <2>1, <2>2
<1> QED
  BY <1>1, PoolInvariance, PTL

(* With one connection nobody ever holds two. *)
LEMMA OneConnectionIsNotTwo ==
  ASSUME PoolInv, maxOpen = 1
  PROVE  \A c \in Calls : ~At(c, "useMore")
<1> SUFFICES ASSUME NEW c \in Calls, At(c, "useMore") PROVE FALSE
  OBVIOUS
<1>1. Holding # {} /\ HoldingTwo # {}
  BY DEF Holding, HoldingTwo, At
<1>2. Cardinality(Holding) # 0 /\ Cardinality(HoldingTwo) # 0
  BY <1>1, CountsTyped, FS_EmptySet
<1> QED
  BY <1>2, CountsTyped DEF PoolInv, PoolRespected

(* With the single connection of store.Open, a Runner.List that has found  *)
(* a job never reads past its first row: it keeps its cursor and its row   *)
(* until the caller gives up, whatever other calls do.                     *)
THEOREM ListingNeverEndsHolds == PoolSpec => ListingNeverEnds
<1>1. PoolInv /\ [PoolNext]_poolVars =>
        [maxOpen = 1 => \A c \in Calls : Listing(c) /\ call[c].rows > 0 =>
           \/ Listing(c)' /\ call'[c].rows = call[c].rows
           \/ call'[c] = Idle]_poolVars
  <2> SUFFICES ASSUME PoolInv, PoolNext, maxOpen = 1,
                      NEW c \in Calls, Listing(c), call[c].rows > 0
               PROVE  \/ Listing(c)' /\ call'[c].rows = call[c].rows
                      \/ call'[c] = Idle
    OBVIOUS
  <2> USE DEF PoolInv, PoolTypeOK
  <2>1. PICK d \in Calls : Serves(d)
    BY FailEndsCall DEF PoolNext, Serves
  <2>2. \A e \in Calls \ {d} : call'[e] = call[e]
    BY <2>1, OneCallSteps
  <2>3. CASE d # c
    BY <2>2, <2>3 DEF Listing, Holding
  <2>4. CASE d = c
    <3>1. call[c].step \in {"use", "wantMore"} /\ Head(call[c].left) = "listing"
      BY OneConnectionIsNotTwo DEF Listing, Holding, At
    <3>2. AcquireForGet(c) \/ NextRow(c) \/ Cancel(c)
      <4>1. ~\E kind \in Kinds : Arrive(c, kind)
        BY <3>1 DEF Arrive, At
      <4>2. ~Acquire(c) /\ ~ReturnFromGet(c)
        BY <3>1 DEF Acquire, ReturnFromGet, At
      <4>3. ~FinishPlain(c) /\ ~FinishInsert(c) /\ ~CloseRows(c)
        BY <3>1 DEF FinishPlain, FinishInsert, CloseRows, Doing
      <4> QED
        BY <2>1, <2>4, <4>1, <4>2, <4>3 DEF Serves, UseConnection
    <3>3. CASE AcquireForGet(c) \/ NextRow(c)
      <4>1. PICK step \in {"useMore", "wantMore"} : call' = [call EXCEPT ![c].step = step]
        BY <3>3 DEF AcquireForGet, NextRow, Goto
      <4>2. /\ call'[c].step = step /\ call'[c].left = call[c].left
            /\ call'[c].rows = call[c].rows
        BY <4>1
      <4> QED
        BY <3>1, <4>2 DEF Listing, Holding
    <3>4. CASE Cancel(c)
      BY <3>4 DEF Cancel
    <3> QED
      BY <3>2, <3>3, <3>4
  <2> QED
    BY <2>3, <2>4
<1> QED
  BY <1>1, PoolInvariance, PTL DEF PoolSpec, ListingNeverEnds

(* The variant behind OnlyListingsBlock: whatever a call and those it      *)
(* competes with do, the call only comes nearer to its end, so that it     *)
(* fails to return in one way only, by not being served.                   *)
THEOREM CallsAdvanceHolds == PoolSpec => CallsAdvance
<1> DEFINE Onward(c) == call'[c] = call[c] \/ call'[c] = Idle \/ Nearer(c)
<1>1. PoolInv /\ [PoolNext]_poolVars =>
        [\A c \in Calls : ~At(c, "idle") => Onward(c)]_poolVars
  <2> SUFFICES ASSUME PoolInv, PoolNext, NEW c \in Calls, ~At(c, "idle")
               PROVE  Onward(c)
    OBVIOUS
  <2> USE DEF PoolInv, PoolTypeOK
  <2>1. PICK d \in Calls : Serves(d)
    BY FailEndsCall DEF PoolNext, Serves
  <2>2. CASE d # c
    BY <2>1, <2>2, OneCallSteps
  <2>3. CASE d = c
    <3>1. /\ call[c] \in [left: Seq(Operations), step: Steps, rows: Nat]
          /\ call[c].left # <<>>
      BY DEF CallsInOrder
    <3>2. ~\E kind \in Kinds : Arrive(c, kind)
      BY DEF Arrive
    <3>3. CASE Acquire(c)
      BY <3>1, <3>3 DEF Acquire, Nearer, At
    <3>4. CASE AcquireForGet(c) \/ NextRow(c)
      BY <3>1, <3>4 DEF AcquireForGet, NextRow, Goto, Nearer, At, Doing
    <3>5. CASE ReturnFromGet(c)
      BY <3>1, <3>5 DEF ReturnFromGet, Nearer, At
    <3>6. CASE FinishPlain(c) \/ FinishInsert(c) \/ CloseRows(c)
      <4>1. call'[c].left = Tail(call[c].left)
        <5>1. Advance(c)
          BY <3>6 DEF FinishPlain, FinishInsert, CloseRows
        <5>2. PICK step \in Steps :
                call' = [call EXCEPT ![c] = [left |-> Tail(call[c].left), step |-> step, rows |-> 0]]
          BY <5>1 DEF Advance, Steps
        <5> QED
          BY <5>2
      <4>2. /\ Len(Tail(call[c].left)) = Len(call[c].left) - 1
            /\ Len(call[c].left) \in Nat
        BY <3>1, HeadTailProperties, LenProperties
      <4> QED
        BY <4>1, <4>2 DEF Nearer
    <3>7. CASE Cancel(c)
      BY <3>7 DEF Cancel
    <3> QED
      BY <2>1, <2>3, <3>2, <3>3, <3>4, <3>5, <3>6, <3>7 DEF Serves, UseConnection
  <2> QED
    BY <2>2, <2>3
<1> QED
  BY <1>1, PoolInvariance, PTL DEF PoolSpec, CallsAdvance
=============================================================================
