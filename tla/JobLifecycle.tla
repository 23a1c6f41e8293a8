---------------------------- MODULE JobLifecycle ----------------------------
(***************************************************************************)
(* What the header of internal/jobs/jobs.go promises of a durable job,     *)
(* whatever the workers, the queue and the restarts do underneath, with    *)
(* what is left of the promise when an UPDATE fails unnoticed: a job is    *)
(* recorded as queued, then running, then with exactly one final status; a *)
(* restart fails the running jobs and touches no other.  A job whose       *)
(* handler runs without the mark of it is adrift: it ends like a running   *)
(* one, or is queued again as if it had never run.                         *)
(***************************************************************************)
CONSTANT Jobs

VARIABLES status, adrift

Statuses == {"none", "queued", "running", "succeeded", "failed", "cancelled"}

Init ==
  /\ status = [j \in Jobs |-> "none"]
  /\ adrift = {}

Moves(j, from, to) ==
  /\ status[j] = from
  /\ status' = [status EXCEPT ![j] = to]

Submit(j) == Moves(j, "none", "queued") /\ UNCHANGED adrift

Begin(j) == j \notin adrift /\ Moves(j, "queued", "running") /\ UNCHANGED adrift

(* A job whose kind nobody handles fails without having run.               *)
Reject(j) == j \notin adrift /\ Moves(j, "queued", "failed") /\ UNCHANGED adrift

(* The handler is called and the row goes on saying "queued".              *)
Drift(j) ==
  /\ status[j] = "queued"
  /\ j \notin adrift
  /\ adrift' = adrift \cup {j}
  /\ UNCHANGED status

End(j) ==
  /\ \E outcome \in {"succeeded", "failed", "cancelled"} :
       Moves(j, IF j \in adrift THEN "queued" ELSE "running", outcome)
  /\ adrift' = adrift \ {j}

(* The result of a handler is lost, and nothing shows that it was called.  *)
Lose(j) ==
  /\ j \in adrift
  /\ adrift' = adrift \ {j}
  /\ UNCHANGED status

Crash == adrift' = {} /\ UNCHANGED status

Restart ==
  /\ adrift = {}
  /\ status' = [j \in Jobs |-> IF status[j] = "running" THEN "failed" ELSE status[j]]
  /\ UNCHANGED adrift

Next ==
  \/ Crash
  \/ Restart
  \/ \E j \in Jobs : Submit(j) \/ Begin(j) \/ Reject(j) \/ Drift(j) \/ End(j) \/ Lose(j)

Spec == Init /\ [][Next]_<<status, adrift>>
=============================================================================
