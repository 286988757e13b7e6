---------------------------- MODULE JobLifecycle ----------------------------
(***************************************************************************)
(* The life of an upload job, from the backend's upload handler through     *)
(* RabbitMQ to the GPU worker's pipeline and into the catalogue:            *)
(*                                                                          *)
(*   backend   stores the MP3, inserts the job_queue row, publishes to      *)
(*             "jobs"; its JobSweeper republishes or fails old pending rows *)
(*   broker    jobs.process with unacknowledged deliveries, jobs.dlq, rec   *)
(*   worker    consumer handlers (one asyncio task per delivery), each with *)
(*             the pipeline and its background instrumental upload;         *)
(*             startup resets the rows a crash left running                 *)
(*                                                                          *)
(* A handler step is one action when nothing is awaited between its reads   *)
(* and writes; every await that another process can be seen across is a     *)
(* step boundary.  Failures of the environment (crashes, lost connections,  *)
(* database or broker errors) are actions that spend the budget MaxFaults;  *)
(* a pipeline step that fails by itself is always possible.                 *)
(***************************************************************************)
EXTENDS Naturals

CONSTANTS Jobs,        \* uploads
          Workers,     \* GPU worker processes, by worker_id
          Tasks,       \* slots for message handlers running in the workers
          WorkerOf,    \* the worker process a handler slot belongs to
          Nobody,      \* NULL in locked_by
          FaultKinds,  \* the environment failures that may happen
          MaxFaults,   \* bound: how many of them
          MaxCopies    \* bound: copies of a job's message waiting in jobs.process

AllFaults == {"publish", "crash", "channel", "lock_error", "read_error",
              "write_error", "mark_error", "rec_error", "sweep_error"}

ASSUME NobodyAssumption == Nobody \notin Workers \cup Jobs
ASSUME WorkerOfAssumption == WorkerOf \in [Tasks -> Workers]
ASSUME FaultAssumption == FaultKinds \subseteq AllFaults /\ MaxFaults \in Nat
ASSUME CopiesAssumption == MaxCopies \in Nat \ {0}

VARIABLES
  upload,    \* [Jobs -> stage of the upload request]
  status,    \* job_queue.status, "none" before the INSERT
  lockedBy,  \* job_queue.locked_by
  linked,    \* jobs whose row has its track_id
  tracks,    \* number of ready tracks created for a job
  instr,     \* jobs with an object instrumentals/{job}.mp3 in S3
  ready,     \* [Jobs -> copies of the job's message ready in jobs.process]
  dlq,       \* jobs with a message in jobs.dlq, which nothing reads
  recq,      \* jobs whose track was published to rec.index
  up,        \* worker processes that are running
  pc,        \* [Tasks -> where the handler is]
  job,       \* [Tasks -> the job of its message]
  tagged,    \* handlers whose delivery is still open on the channel
  enc,       \* [Tasks -> state of the background instrumental upload]
  stale,     \* pending jobs not updated for job_sweeper_pending_ttl
  expired,   \* jobs created longer than the hard-fail TTL ago
  cand,      \* candidates the running sweep read and has not handled yet
  faults     \* environment failures so far

backendVars == <<upload, stale, expired, cand>>
rowVars     == <<status, lockedBy>>
resultVars  == <<linked, tracks, instr, recq>>
brokerVars  == <<ready, dlq>>
taskVars    == <<pc, job, tagged, enc>>
vars == <<backendVars, rowVars, resultVars, brokerVars, up, taskVars, faults>>

Terminal == {"completed", "failed"}
Statuses == {"none", "pending", "running"} \cup Terminal
Steps    == {"separating", "analysing", "awaiting_upload"}
Final    == {"creating_track", "linking_track", "completing"}
Pipeline == Steps \cup Final \cup
              {"fetching", "publishing_rec", "failing", "cleaning", "unwinding"}
Phases   == Pipeline \cup {"idle", "locking", "cooldown", "acking", "nacking"}

Processing(t) == pc[t] \in Pipeline
TasksOf(w)    == {t \in Tasks : WorkerOf[t] = w}

Fault(kind) == /\ kind \in FaultKinds
               /\ faults < MaxFaults
               /\ faults' = faults + 1

Goto(t, phase) == pc' = [pc EXCEPT ![t] = phase]

-----------------------------------------------------------------------------
Init == /\ upload = [j \in Jobs |-> "idle"]
        /\ status = [j \in Jobs |-> "none"]
        /\ lockedBy = [j \in Jobs |-> Nobody]
        /\ linked = {} /\ instr = {} /\ recq = {} /\ dlq = {}
        /\ tracks = [j \in Jobs |-> 0]
        /\ ready = [j \in Jobs |-> 0]
        /\ up = {} /\ tagged = {}
        /\ pc = [t \in Tasks |-> "idle"]
        /\ job = [t \in Tasks |-> Nobody]
        /\ enc = [t \in Tasks |-> "none"]
        /\ stale = {} /\ expired = {} /\ cand = {}
        /\ faults = 0

-----------------------------------------------------------------------------
(* Backend: TrackService.upload_mp3 *)

\* The MP3 goes to S3 under a key nobody knows before the row is inserted.
CreateJob(j) ==
  /\ upload[j] = "idle"
  /\ upload' = [upload EXCEPT ![j] = "inserted"]
  /\ status' = [status EXCEPT ![j] = "pending"]
  /\ UNCHANGED <<stale, expired, cand, lockedBy, resultVars, brokerVars, up, taskVars, faults>>

PublishJob(j) ==
  /\ upload[j] = "inserted"
  /\ upload' = [upload EXCEPT ![j] = "sent"]
  /\ ready' = [ready EXCEPT ![j] = @ + 1]
  /\ UNCHANGED <<stale, expired, cand, rowVars, resultVars, dlq, up, taskVars, faults>>

\* No broker connection, the publish raises, or the backend dies before it: the
\* row stays pending and no message exists.
PublishJobLost(j) ==
  /\ Fault("publish")
  /\ upload[j] = "inserted"
  /\ upload' = [upload EXCEPT ![j] = "unsent"]
  /\ UNCHANGED <<stale, expired, cand, rowVars, resultVars, brokerVars, up, taskVars>>

-----------------------------------------------------------------------------
(* Worker: JobConsumer._on_message *)

\* Mutant: a delivery that does not check that a message is there.
DeliverNothing(t, j) ==
  /\ WorkerOf[t] \in up
  /\ pc[t] = "idle"
  /\ ready' = [ready EXCEPT ![j] = @ - 1]
  /\ tagged' = tagged \cup {t}
  /\ job' = [job EXCEPT ![t] = j]
  /\ Goto(t, "locking")
  /\ UNCHANGED <<backendVars, rowVars, resultVars, dlq, up, enc, faults>>

\* prefetch_count=1: a channel holds one unacknowledged delivery.
Deliver(t, j) ==
  /\ WorkerOf[t] \in up
  /\ pc[t] = "idle"
  /\ TasksOf(WorkerOf[t]) \cap tagged = {}
  /\ ready[j] > 0
  /\ ready' = [ready EXCEPT ![j] = @ - 1]
  /\ tagged' = tagged \cup {t}
  /\ job' = [job EXCEPT ![t] = j]
  /\ Goto(t, "locking")
  /\ UNCHANGED <<backendVars, rowVars, resultVars, dlq, up, enc, faults>>

\* The effect of lock_job's UPDATE, and the handler's next step.
TakeLock(t, owner) ==
  /\ status' = [status EXCEPT ![job[t]] = "running"]
  /\ lockedBy' = [lockedBy EXCEPT ![job[t]] = owner]
  /\ stale' = stale \ {job[t]}
  /\ Goto(t, "fetching")
  /\ UNCHANGED <<upload, expired, cand, resultVars, brokerVars, up, job, tagged, enc, faults>>

\* Mutants: the UPDATE without its status condition, and without locked_by.
LockJobAnyStatus(t) == pc[t] = "locking" /\ TakeLock(t, WorkerOf[t])
LockJobUnowned(t) == pc[t] = "locking" /\ status[job[t]] = "pending" /\ TakeLock(t, Nobody)

\* lock_job: UPDATE ... WHERE id = job AND status = 'pending'
LockJob(t) ==
  /\ pc[t] = "locking"
  /\ status[job[t]] = "pending"
  /\ TakeLock(t, WorkerOf[t])

LockRefused(t) ==
  /\ pc[t] = "locking"
  /\ status[job[t]] # "pending"
  /\ Goto(t, "cooldown")
  /\ UNCHANGED <<backendVars, rowVars, resultVars, brokerVars, up, job, tagged, enc, faults>>

LockRaises(t) ==
  /\ Fault("lock_error")
  /\ pc[t] = "locking"
  /\ Goto(t, "nacking")
  /\ UNCHANGED <<backendVars, rowVars, resultVars, brokerVars, up, job, tagged, enc>>

\* The handler ends: its slot is free and its delivery, if still open, settled.
Settle(t) ==
  /\ Goto(t, "idle")
  /\ job' = [job EXCEPT ![t] = Nobody]
  /\ tagged' = tagged \ {t}

\* Mutant: the duplicate is acknowledged instead of requeued.
NackRequeueAck(t) ==
  /\ pc[t] = "cooldown"
  /\ Settle(t)
  /\ UNCHANGED <<backendVars, rowVars, resultVars, brokerVars, up, enc, faults>>

\* After the 0.5 s cooldown: nack(requeue=True).  On a channel that was lost the
\* broker has redelivered the message already and the nack only raises.
NackRequeue(t) ==
  /\ pc[t] = "cooldown"
  /\ Settle(t)
  /\ ready' = [ready EXCEPT ![job[t]] = IF t \in tagged THEN @ + 1 ELSE @]
  /\ UNCHANGED <<backendVars, rowVars, resultVars, dlq, up, enc, faults>>

\* nack(requeue=False) in the except branch: the broker dead-letters the message.
NackToDlq(t) ==
  /\ pc[t] = "nacking"
  /\ Settle(t)
  /\ dlq' = IF t \in tagged THEN dlq \cup {job[t]} ELSE dlq
  /\ UNCHANGED <<backendVars, rowVars, resultVars, ready, up, enc, faults>>

Ack(t) ==
  /\ pc[t] = "acking"
  /\ Settle(t)
  /\ UNCHANGED <<backendVars, rowVars, resultVars, brokerVars, up, enc, faults>>

\* get_job after the lock; rows are never deleted, so it finds the job.
FetchJob(t) ==
  /\ pc[t] = "fetching"
  /\ Goto(t, "separating")
  /\ UNCHANGED <<backendVars, rowVars, resultVars, brokerVars, up, job, tagged, enc, faults>>

FetchRaises(t) ==
  /\ Fault("read_error")
  /\ pc[t] = "fetching"
  /\ Goto(t, "nacking")
  /\ UNCHANGED <<backendVars, rowVars, resultVars, brokerVars, up, job, tagged, enc>>

-----------------------------------------------------------------------------
(* Worker: GpuPipeline.process *)

\* Download, probe and UVR separation end; the instrumental upload is launched.
Separated(t) ==
  /\ pc[t] = "separating"
  /\ Goto(t, "analysing")
  /\ enc' = [enc EXCEPT ![t] = "running"]
  /\ UNCHANGED <<backendVars, rowVars, resultVars, brokerVars, up, job, tagged, faults>>

\* Back vocals, VAD, ASR, lyrics search, alignment and line breaking, in order.
Analysed(t) ==
  /\ pc[t] = "analysing"
  /\ Goto(t, "awaiting_upload")
  /\ UNCHANGED <<backendVars, rowVars, resultVars, brokerVars, up, job, tagged, enc, faults>>

\* A step times out or raises; awaiting_upload re-raises the upload's exception.
StepRaises(t) ==
  /\ pc[t] \in Steps
  /\ pc[t] = "awaiting_upload" => enc[t] = "failed"
  /\ Goto(t, "failing")
  /\ UNCHANGED <<backendVars, rowVars, resultVars, brokerVars, up, job, tagged, enc, faults>>

\* Background _encode_and_upload_instrumental: the object lands in S3, then the
\* task records the key in the row's data and ends.
EncodeUpload(t) ==
  /\ enc[t] = "running"
  /\ enc' = [enc EXCEPT ![t] = "stored"]
  /\ instr' = instr \cup {job[t]}
  /\ UNCHANGED <<backendVars, rowVars, linked, tracks, recq, brokerVars, up, pc, job, tagged, faults>>

EncodeEnd(t) ==
  /\ \/ enc[t] = "stored" /\ enc' = [enc EXCEPT ![t] = "done"]
     \/ enc[t] \in {"running", "stored"} /\ enc' = [enc EXCEPT ![t] = "failed"]
  /\ UNCHANGED <<backendVars, rowVars, resultVars, brokerVars, up, pc, job, tagged, faults>>

\* Mutant: finalisation does not wait for the background upload.
AwaitUploadNot(t) ==
  /\ pc[t] = "awaiting_upload"
  /\ Goto(t, "creating_track")
  /\ UNCHANGED <<backendVars, rowVars, resultVars, brokerVars, up, job, tagged, enc, faults>>

AwaitUpload(t) ==
  /\ pc[t] = "awaiting_upload"
  /\ enc[t] = "done"
  /\ Goto(t, "creating_track")
  /\ UNCHANGED <<backendVars, rowVars, resultVars, brokerVars, up, job, tagged, enc, faults>>

CreateTrack(t) ==
  /\ pc[t] = "creating_track"
  /\ tracks' = [tracks EXCEPT ![job[t]] = @ + 1]
  /\ Goto(t, "linking_track")
  /\ UNCHANGED <<backendVars, rowVars, linked, instr, recq, brokerVars, up, job, tagged, enc, faults>>

LinkTrack(t) ==
  /\ pc[t] = "linking_track"
  /\ linked' = linked \cup {job[t]}
  /\ Goto(t, "completing")
  /\ UNCHANGED <<backendVars, rowVars, tracks, instr, recq, brokerVars, up, job, tagged, enc, faults>>

\* complete_job does not look at the status it overwrites and keeps locked_by.
CompleteJob(t) ==
  /\ pc[t] = "completing"
  /\ status' = [status EXCEPT ![job[t]] = "completed"]
  /\ Goto(t, "publishing_rec")
  /\ UNCHANGED <<backendVars, lockedBy, resultVars, brokerVars, up, job, tagged, enc, faults>>

FinalRaises(t) ==
  /\ Fault("write_error")
  /\ pc[t] \in Final
  /\ Goto(t, "failing")
  /\ UNCHANGED <<backendVars, rowVars, resultVars, brokerVars, up, job, tagged, enc>>

PublishRec(t) ==
  /\ pc[t] = "publishing_rec"
  /\ recq' = recq \cup {job[t]}
  /\ Goto(t, "cleaning")
  /\ UNCHANGED <<backendVars, rowVars, linked, tracks, instr, brokerVars, up, job, tagged, enc, faults>>

PublishRecRaises(t) ==
  /\ Fault("rec_error")
  /\ pc[t] = "publishing_rec"
  /\ Goto(t, "failing")
  /\ UNCHANGED <<backendVars, rowVars, resultVars, brokerVars, up, job, tagged, enc>>

\* fail_job_permanently, likewise unconditional, clears locked_by.
Failed(j) ==
  /\ status' = [status EXCEPT ![j] = "failed"]
  /\ lockedBy' = [lockedBy EXCEPT ![j] = Nobody]
  /\ stale' = stale \ {j}

MarkFailed(t) ==
  /\ pc[t] = "failing"
  /\ Failed(job[t])
  /\ Goto(t, "cleaning")
  /\ UNCHANGED <<upload, expired, cand, resultVars, brokerVars, up, job, tagged, enc, faults>>

MarkFailedRaises(t) ==
  /\ Fault("mark_error")
  /\ pc[t] = "failing"
  /\ Goto(t, "unwinding")
  /\ UNCHANGED <<backendVars, rowVars, resultVars, brokerVars, up, job, tagged, enc>>

\* finally: cancel an upload that is not done; what reached S3 stays there.
Cleanup(t) ==
  /\ \/ pc[t] = "cleaning" /\ Goto(t, "acking")
     \/ pc[t] = "unwinding" /\ Goto(t, "nacking")
  /\ enc' = [enc EXCEPT ![t] = "none"]
  /\ UNCHANGED <<backendVars, rowVars, resultVars, brokerVars, up, job, tagged, faults>>

-----------------------------------------------------------------------------
(* Worker processes and their connection *)

\* The broker puts back what a closed channel held unacknowledged.
Redeliver(w) ==
  /\ ready' = [j \in Jobs |->
       IF \E t \in TasksOf(w) \cap tagged : job[t] = j THEN ready[j] + 1 ELSE ready[j]]
  /\ tagged' = tagged \ TasksOf(w)

\* The robust connection drops and reconnects; handlers keep running without
\* a delivery to acknowledge, and the channel takes a new one.
ChannelLost(w) ==
  /\ Fault("channel")
  /\ TasksOf(w) \cap tagged # {}
  /\ Redeliver(w)
  /\ UNCHANGED <<backendVars, rowVars, resultVars, dlq, up, pc, job, enc>>

\* x-message-ttl: the broker drops what has been in jobs.dlq for 72 hours.  The
\* model does not measure them, a dead letter may go at any time.
DropDead(j) ==
  /\ j \in dlq
  /\ dlq' = dlq \ {j}
  /\ UNCHANGED <<backendVars, rowVars, resultVars, ready, up, taskVars, faults>>

\* Killed, or stopped by SIGTERM with a handler in flight.
Crash(w) ==
  /\ Fault("crash")
  /\ w \in up
  /\ up' = up \ {w}
  /\ Redeliver(w)
  /\ pc' = [t \in Tasks |-> IF WorkerOf[t] = w THEN "idle" ELSE pc[t]]
  /\ job' = [t \in Tasks |-> IF WorkerOf[t] = w THEN Nobody ELSE job[t]]
  /\ enc' = [t \in Tasks |-> IF WorkerOf[t] = w THEN "none" ELSE enc[t]]
  /\ UNCHANGED <<backendVars, rowVars, resultVars, dlq>>

\* Mutants: the reset without its status condition, and without its owner condition.
LeftLockedBy(w) == {j \in Jobs : lockedBy[j] = w}
LeftRunning(w) == {j \in Jobs : status[j] = "running"}

\* WHERE status = 'running' AND locked_by = worker_id
LeftRunningBy(w) == {j \in Jobs : status[j] = "running" /\ lockedBy[j] = w}

\* Mutant: no reset at startup.
StartWorkerNoReset(w) ==
  /\ w \notin up
  /\ up' = up \cup {w}
  /\ UNCHANGED <<backendVars, rowVars, resultVars, brokerVars, taskVars, faults>>

\* main(): connect, reset the rows of this worker_id, then consume.
StartWorker(w) ==
  /\ w \notin up
  /\ up' = up \cup {w}
  /\ status' = [j \in Jobs |-> IF j \in LeftRunningBy(w) THEN "pending" ELSE status[j]]
  /\ lockedBy' = [j \in Jobs |-> IF j \in LeftRunningBy(w) THEN Nobody ELSE lockedBy[j]]
  /\ stale' = stale \ LeftRunningBy(w)
  /\ UNCHANGED <<upload, expired, cand, resultVars, brokerVars, taskVars, faults>>

-----------------------------------------------------------------------------
(* Backend: JobSweeper, and the clocks it reads *)

\* The TTLs, ten minutes and a day, outlast the request that inserts the row.
RequestOver(j) == upload[j] \in {"sent", "unsent"}

\* updated_at falls behind the pending TTL.
GrowStale(j) ==
  /\ RequestOver(j)
  /\ status[j] = "pending"
  /\ j \notin stale
  /\ stale' = stale \cup {j}
  /\ UNCHANGED <<upload, expired, cand, rowVars, resultVars, brokerVars, up, taskVars, faults>>

\* created_at falls behind the hard-fail TTL.  A sweep compares it once, with the
\* clock it read together with the candidates, and only for pending rows.
Expire(j) ==
  /\ RequestOver(j)
  /\ status[j] = "pending"
  /\ j \notin expired \cup cand
  /\ expired' = expired \cup {j}
  /\ UNCHANGED <<upload, stale, cand, rowVars, resultVars, brokerVars, up, taskVars, faults>>

StalePending == {j \in stale : status[j] = "pending"}

\* _sweep_once reads its candidates, then handles them one await at a time.
SweepRead ==
  /\ cand = {}
  /\ StalePending # {}
  /\ cand' = StalePending
  /\ UNCHANGED <<upload, stale, expired, rowVars, resultVars, brokerVars, up, taskVars, faults>>

\* Mutant: the candidate is logged and skipped.
SweepHardFailSkip(j) ==
  /\ j \in cand \cap expired
  /\ cand' = cand \ {j}
  /\ UNCHANGED <<upload, stale, expired, rowVars, resultVars, brokerVars, up, taskVars, faults>>

SweepHardFail(j) ==
  /\ j \in cand \cap expired
  /\ cand' = cand \ {j}
  /\ Failed(j)
  /\ UNCHANGED <<upload, expired, resultVars, brokerVars, up, taskVars, faults>>

SweepRepublish(j) ==
  /\ j \in cand \ expired
  /\ ready[j] < MaxCopies
  /\ cand' = cand \ {j}
  /\ ready' = [ready EXCEPT ![j] = @ + 1]
  /\ UNCHANGED <<upload, stale, expired, rowVars, resultVars, dlq, up, taskVars, faults>>

\* An exception, or a backend restart, drops the rest of the cycle.
SweepAbort ==
  /\ Fault("sweep_error")
  /\ cand # {}
  /\ cand' = {}
  /\ UNCHANGED <<upload, stale, expired, rowVars, resultVars, brokerVars, up, taskVars>>

-----------------------------------------------------------------------------
Upload(j) == CreateJob(j) \/ PublishJob(j) \/ PublishJobLost(j)

Consume(t) == \/ LockJob(t) \/ LockRefused(t) \/ LockRaises(t)
              \/ FetchJob(t) \/ FetchRaises(t)
              \/ NackRequeue(t) \/ NackToDlq(t) \/ Ack(t)

Process(t) == \/ Separated(t) \/ Analysed(t) \/ StepRaises(t) \/ AwaitUpload(t)
              \/ CreateTrack(t) \/ LinkTrack(t) \/ CompleteJob(t) \/ FinalRaises(t)
              \/ PublishRec(t) \/ PublishRecRaises(t)
              \/ MarkFailed(t) \/ MarkFailedRaises(t) \/ Cleanup(t)

Encode(t) == EncodeUpload(t) \/ EncodeEnd(t)

Sweep == SweepRead \/ SweepAbort \/ \E j \in Jobs : SweepHardFail(j) \/ SweepRepublish(j)

Next == \/ \E j \in Jobs : Upload(j) \/ GrowStale(j) \/ Expire(j) \/ DropDead(j)
        \/ \E t \in Tasks : Consume(t) \/ Process(t) \/ Encode(t)
        \/ \E t \in Tasks, j \in Jobs : Deliver(t, j)
        \/ \E w \in Workers : ChannelLost(w) \/ Crash(w) \/ StartWorker(w)
        \/ Sweep

Spec == Init /\ [][Next]_vars

\* A request that started goes on; a running event loop runs its tasks; the
\* broker delivers what is ready to a free consumer; the container runtime
\* restarts a worker; the sweeper loop runs; time passes.  Faults and new
\* uploads are never owed.
Fairness ==
  /\ \A j \in Jobs : /\ WF_vars(upload[j] # "idle" /\ Upload(j))
                     /\ WF_vars(GrowStale(j))
                     /\ WF_vars(Expire(j))
  /\ \A t \in Tasks : WF_vars(Consume(t)) /\ WF_vars(Process(t)) /\ WF_vars(Encode(t))
  /\ WF_vars(\E t \in Tasks, j \in Jobs : Deliver(t, j))
  /\ \A w \in Workers : WF_vars(StartWorker(w))
  /\ WF_vars(Sweep)

FairSpec == Spec /\ Fairness

-----------------------------------------------------------------------------
(* Properties *)

TypeOK ==
  /\ upload \in [Jobs -> {"idle", "inserted", "sent", "unsent"}]
  /\ status \in [Jobs -> Statuses]
  /\ lockedBy \in [Jobs -> Workers \cup {Nobody}]
  /\ linked \subseteq Jobs /\ instr \subseteq Jobs /\ recq \subseteq Jobs
  /\ tracks \in [Jobs -> Nat]
  /\ ready \in [Jobs -> Nat]
  /\ dlq \subseteq Jobs
  /\ up \subseteq Workers
  /\ pc \in [Tasks -> Phases]
  /\ job \in [Tasks -> Jobs \cup {Nobody}]
  /\ tagged \subseteq Tasks
  /\ enc \in [Tasks -> {"none", "running", "stored", "done", "failed"}]
  /\ stale \subseteq Jobs /\ expired \subseteq Jobs /\ cand \subseteq Jobs
  /\ faults \in 0..MaxFaults

\* However a job's message is duplicated, redelivered or requeued, and whatever
\* crashed and restarted, at most one handler runs the pipeline on the job.
ExclusiveProcessing ==
  \A t, u \in Tasks :
    Processing(t) /\ Processing(u) /\ job[t] = job[u] => t = u

\* A pipeline works under its own lock: while the row says running, locked_by is
\* the process of the handler that works on the job.
LockIsHeldByProcessor ==
  \A t \in Tasks :
    Processing(t) /\ status[job[t]] = "running" => lockedBy[job[t]] = WorkerOf[t]

\* The copies of a job's message that will reach a handler: ready, or held
\* unacknowledged by one.
HasCopy(j) == ready[j] > 0 \/ \E t \in tagged : job[t] = j

\* However copies are acknowledged, requeued and redelivered, the last one of an
\* unfinished job goes only when a handler whose call raised rejects it.  It is then
\* a dead letter, until the broker drops it: a pending job is left to the sweeper
\* (EveryJobSettles), a running one to nobody.
NoMessageLost ==
  [][\A j \in Jobs : HasCopy(j) /\ ~HasCopy(j)' =>
       \/ status'[j] \in Terminal
       \/ j \in dlq' /\ \E t \in tagged : job[t] = j /\ pc[t] = "nacking"]_vars

\* A job is shown as completed only when its catalogue track is ready, linked to
\* the row, and its instrumental is in S3 -- even after a sweep or a restart.
CompletedHasArtifacts ==
  \A j \in Jobs :
    status[j] = "completed" => tracks[j] > 0 /\ j \in linked /\ j \in instr

\* However many copies of its message the sweeper made, a job yields one track,
\* and one more for each failure at most: a worker that dies between create_track
\* and complete_job leaves a track behind, and the restart makes another.
ExtraTracksCostFaults == \A j \in Jobs : tracks[j] <= 1 + faults

\* If the database never refuses the row read after the lock or the final
\* failure write, a running job is being worked on by its owner, or its owner
\* is down and will reset it when it starts.
RunningIsOwned ==
  {"read_error", "mark_error"} \cap FaultKinds = {} =>
    \A j \in Jobs : status[j] = "running" =>
      \/ lockedBy[j] \in Workers \ up
      \/ \E t \in Tasks : Processing(t) /\ job[t] = j /\ WorkerOf[t] = lockedBy[j]

\* A job that ended never becomes pending or running again.
NoResurrection ==
  [][\A j \in Jobs : status[j] \in Terminal => status'[j] \in Terminal]_vars

\* The worker whose pipeline runs on a job, which ExclusiveProcessing makes unique.
Holder == [j \in Jobs |->
  IF \E t \in Tasks : Processing(t) /\ job[t] = j
  THEN WorkerOf[CHOOSE t \in Tasks : Processing(t) /\ job[t] = j]
  ELSE Nobody]

Table == INSTANCE JobTable WITH holder <- Holder

\* Queues, copies, handlers, sweeps and restarts implement the job table.
ImplementsJobTable == Table!Spec

\* Every job that was inserted ends, even if its message was never published.
EveryJobSettles ==
  \A j \in Jobs : status[j] # "none" ~> status[j] \in Terminal

-----------------------------------------------------------------------------
(* The inductive strengthening of the invariants above *)

\* A handler that is not idle has a job and a running process; an open delivery
\* belongs to such a handler, a background upload to a pipeline past separation.
HandlerInv ==
  \A t \in Tasks :
    /\ pc[t] # "idle" => job[t] \in Jobs /\ WorkerOf[t] \in up
    /\ t \in tagged => pc[t] # "idle"
    /\ enc[t] # "none" => pc[t] \in Pipeline \ {"fetching", "separating"}
    /\ enc[t] \in {"stored", "done"} => job[t] \in instr

\* What the row looks like while a handler is at a given place.
RowInv ==
  /\ \A j \in Jobs : /\ status[j] = "none" <=> upload[j] = "idle"
                     /\ status[j] = "running" => lockedBy[j] \in Workers
                     /\ j \in stale \cup cand => status[j] # "none"
  /\ \A t \in Tasks :
       /\ Processing(t) => status[job[t]] \in Terminal \cup {"running"}
       /\ pc[t] \in {"publishing_rec", "cleaning", "acking"} => status[job[t]] \in Terminal

\* What finalisation has already written.
ProgressInv ==
  \A t \in Tasks :
    /\ pc[t] \in Final => job[t] \in instr
    /\ pc[t] \in {"linking_track", "completing"} => tracks[job[t]] > 0
    /\ pc[t] = "completing" => job[t] \in linked

\* The database has answered so far, or never refuses the two critical calls.
DatabaseAnswers == faults = 0 \/ {"read_error", "mark_error"} \cap FaultKinds = {}

OwnedInv ==
  DatabaseAnswers =>
    /\ \A t \in Tasks : pc[t] # "unwinding"
    /\ \A j \in Jobs : status[j] = "running" =>
         \/ lockedBy[j] \in Workers \ up
         \/ \E t \in Tasks : Processing(t) /\ job[t] = j /\ WorkerOf[t] = lockedBy[j]

\* A pipeline that has yet to create its track, and a row that waits for a pipeline
\* or has lost its own, have no more tracks than there were failures.
Abandoned(j) == status[j] = "running" /\ ~\E t \in Tasks : Processing(t) /\ job[t] = j
Trackless == Steps \cup {"fetching", "creating_track", "unwinding"}
TracksInv ==
  /\ ExtraTracksCostFaults
  /\ \A j \in Jobs : status[j] \in {"none", "pending"} \/ Abandoned(j) => tracks[j] <= faults
  /\ \A t \in Tasks : pc[t] \in Trackless => tracks[job[t]] <= faults

IInv == /\ TypeOK
        /\ HandlerInv /\ RowInv /\ ProgressInv
        /\ ExclusiveProcessing /\ LockIsHeldByProcessor
        /\ CompletedHasArtifacts /\ OwnedInv /\ TracksInv

-----------------------------------------------------------------------------
(* What the repository says of the program and the program does not do *)

\* job_sweeper.py: a duplicate is nacked by the second consumer and gone.
DuplicatesDrain ==
  \A j \in Jobs : status[j] \in Terminal
    ~> ready[j] = 0 /\ \A t \in tagged : job[t] # j

\* gpu_pipeline.py: failed jobs leave no orphan instrumental in S3.
NoOrphanInstrumental ==
  \A j \in instr : status[j] = "failed" => \E t \in Tasks : Processing(t) /\ job[t] = j
=============================================================================
