------------------------------ MODULE JobTable ------------------------------
(***************************************************************************)
(* What the job pipeline promises about one upload job, without queues,     *)
(* messages, tasks or timers: a row of job_queue with its status, and the   *)
(* worker that is working on the job.  A job is worked on by one worker at  *)
(* a time, a worker takes it only while it is pending, only the worker that *)
(* holds it completes it, and it goes back to pending only when nobody      *)
(* works on it.  JobLifecycle is shown to implement this specification.     *)
(***************************************************************************)
CONSTANTS Jobs,      \* upload jobs
          Workers,   \* GPU worker processes
          Nobody     \* no worker

VARIABLES status,    \* job_queue.status, "none" before the row exists
          holder     \* the worker whose pipeline is running on the job

vars == <<status, holder>>

Init == /\ status = [j \in Jobs |-> "none"]
        /\ holder = [j \in Jobs |-> Nobody]

Submit(j) == /\ status[j] = "none"
             /\ status' = [status EXCEPT ![j] = "pending"]
             /\ UNCHANGED holder

Claim(j, w) == /\ status[j] = "pending"
               /\ holder[j] = Nobody
               /\ status' = [status EXCEPT ![j] = "running"]
               /\ holder' = [holder EXCEPT ![j] = w]

Complete(j) == /\ holder[j] # Nobody
               /\ status' = [status EXCEPT ![j] = "completed"]
               /\ UNCHANGED holder

\* A job may fail at any time: in its pipeline, or by the sweeper's decision.
Fail(j) == /\ status[j] # "none"
           /\ status' = [status EXCEPT ![j] = "failed"]
           /\ UNCHANGED holder

\* The pipeline ends, or the worker dies, for any number of jobs of a worker.
Release(w) == \E S \in SUBSET {j \in Jobs : holder[j] = w} :
                 /\ holder' = [j \in Jobs |-> IF j \in S THEN Nobody ELSE holder[j]]
                 /\ UNCHANGED status

\* Running jobs that nobody works on become pending again.
Recover == \E S \in SUBSET {j \in Jobs : status[j] = "running" /\ holder[j] = Nobody} :
              /\ status' = [j \in Jobs |-> IF j \in S THEN "pending" ELSE status[j]]
              /\ UNCHANGED holder

Next == \/ \E j \in Jobs : Submit(j) \/ Complete(j) \/ Fail(j)
        \/ \E j \in Jobs, w \in Workers : Claim(j, w)
        \/ \E w \in Workers : Release(w)
        \/ Recover

Spec == Init /\ [][Next]_vars
=============================================================================
