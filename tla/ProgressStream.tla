--------------------------- MODULE ProgressStream ---------------------------
(***************************************************************************)
(* How a browser follows an upload job: the worker (or the sweeper) writes  *)
(* the job_queue row and then publishes the news to the job.progress        *)
(* fanout; the backend's event stream reads the row once, then listens on a *)
(* queue of its own; the upload card shows what arrives and ends with the   *)
(* job, with a timeout or with a connection the browser gives up.           *)
(*                                                                          *)
(* The job table is the environment: its steps are those of JobTable, which *)
(* JobLifecycle implements, with a publish after each write.  The row is    *)
(* represented by its status and by the number of writes to it so far, its  *)
(* version: progress on the screen must never go back to an older version.  *)
(*                                                                          *)
(* An event yielded to the HTTP response and the card's handler for it are  *)
(* one action: losing what is on the wire is losing the connection earlier. *)
(***************************************************************************)
EXTENDS Naturals, Sequences, Functions

CONSTANTS Jobs, Workers, Nobody,
          Sweeper,     \* the backend's sweeper, which also fails jobs
          Cards,       \* upload cards in browsers
          CardJob,     \* the job a card follows
          MaxWrites,   \* bound: writes to one row
          Timeout,     \* silent waits (5 s) before a stream gives up
          MaxFaults    \* bound: environment failures

ASSUME WriterAssumption == Nobody \notin Workers /\ Sweeper \notin Workers \cup {Nobody}
ASSUME CardAssumption == CardJob \in [Cards -> Jobs]
ASSUME BoundAssumption == MaxWrites \in Nat /\ Timeout \in Nat \ {0} /\ MaxFaults \in Nat

VARIABLES
  status, holder,  \* the job table
  version,         \* [Jobs -> writes to the row so far]
  unsent,          \* news written to a row and not published yet
  card,            \* [Cards -> what the card shows: absent, processing, done, error]
  cause,           \* [Cards -> why it shows an error: job, timeout, connection]
  shown,           \* [Cards -> version of the last progress shown]
  conn,            \* [Cards -> where the stream's generator is]
  buf,             \* [Cards -> messages in the stream's own queue]
  elapsed,         \* [Cards -> waits since the stream's last activity]
  heard,           \* cards whose stream listened before the job ended
  faults

rowVars  == <<status, holder, version>>
cardVars == <<card, cause, shown, conn, elapsed, heard>>
vars == <<rowVars, unsent, cardVars, buf, faults>>

Table == INSTANCE JobTable

Terminal == {"completed", "failed"}
Kinds    == {"running"} \cup Terminal
News     == [by : Workers \cup {Sweeper}, job : Jobs, kind : Kinds, version : 1..MaxWrites]

Fault == faults < MaxFaults /\ faults' = faults + 1

Init == /\ Table!Init
        /\ version = [j \in Jobs |-> 0]
        /\ unsent = {}
        /\ card = [c \in Cards |-> "absent"]
        /\ cause = [c \in Cards |-> "none"]
        /\ shown = [c \in Cards |-> 0]
        /\ conn = [c \in Cards |-> "none"]
        /\ buf = [c \in Cards |-> <<>>]
        /\ elapsed = [c \in Cards |-> 0]
        /\ heard = {}
        /\ faults = 0

-----------------------------------------------------------------------------
(* The job table, with JobService's publish after each write *)

Submit(j) == Table!Submit(j) /\ UNCHANGED <<version, unsent, cardVars, buf, faults>>

Claim(j, w) == Table!Claim(j, w) /\ UNCHANGED <<version, unsent, cardVars, buf, faults>>

Recover == Table!Recover /\ UNCHANGED <<version, unsent, cardVars, buf, faults>>

\* A pipeline awaits the publish of a write before its next write.
Quiet(p) == \A e \in unsent : e.by # p

Write(p, j, kind) ==
  /\ version[j] < MaxWrites
  /\ version' = [version EXCEPT ![j] = @ + 1]
  /\ unsent' = unsent \cup {[by |-> p, job |-> j, kind |-> kind, version |-> version[j] + 1]}
  /\ UNCHANGED <<cardVars, buf, faults>>

\* Mutant: the news is published by a task nobody waits for.
MarkStepUnordered(j) ==
  /\ holder[j] # Nobody
  /\ status[j] # "completed"
  /\ Write(holder[j], j, "running")
  /\ UNCHANGED <<status, holder>>

\* mark_step writes whatever the status is.
MarkStep(j) ==
  /\ holder[j] # Nobody
  /\ status[j] # "completed"
  /\ Quiet(holder[j])
  /\ Write(holder[j], j, "running")
  /\ UNCHANGED <<status, holder>>

Complete(j) ==
  /\ Table!Complete(j)
  /\ status[j] # "completed"
  /\ Quiet(holder[j])
  /\ Write(holder[j], j, "completed")

Fail(j, p) ==
  /\ Table!Fail(j)
  /\ p \in {holder[j], Sweeper} \ {Nobody}
  /\ Quiet(p)
  /\ Write(p, j, "failed")

\* The pipeline is over, or its process died; then what it had not published is
\* never published.
Leave(w) ==
  /\ Table!Release(w)
  /\ IF Quiet(w) THEN UNCHANGED faults ELSE Fault
  /\ unsent' = {e \in unsent : e.by # w}
  /\ UNCHANGED <<version, cardVars, buf>>

\* The fanout copies a message to every queue bound at that moment.
Publish(e) ==
  /\ e \in unsent
  /\ unsent' = unsent \ {e}
  /\ buf' = [c \in Cards |-> IF conn[c] = "bound" THEN Append(buf[c], e) ELSE buf[c]]
  /\ UNCHANGED <<rowVars, cardVars, faults>>

\* JobService logs a failed publish and goes on.
PublishLost(e) ==
  /\ Fault
  /\ e \in unsent
  /\ unsent' = unsent \ {e}
  /\ UNCHANGED <<rowVars, cardVars, buf>>

-----------------------------------------------------------------------------
(* The stream and the card *)

\* The card ends; its client closes the stream.
Settle(c, phase, why) ==
  /\ card' = [card EXCEPT ![c] = phase]
  /\ cause' = [cause EXCEPT ![c] = why]
  /\ conn' = [conn EXCEPT ![c] = "none"]
  /\ buf' = [buf EXCEPT ![c] = <<>>]
  /\ heard' = heard \ {c}
  /\ UNCHANGED <<shown, elapsed>>

ShowEnd(c, kind) ==
  IF kind = "completed" THEN Settle(c, "done", "none") ELSE Settle(c, "error", "job")

\* The upload request returned the job's id.
OpenCard(c) ==
  /\ card[c] = "absent"
  /\ status[CardJob[c]] # "none"
  /\ card' = [card EXCEPT ![c] = "processing"]
  /\ UNCHANGED <<rowVars, unsent, cause, shown, conn, elapsed, heard, buf, faults>>

\* subscribeToJobStatus, EventSource's own reconnect, or a reloaded page that
\* restores the card.
Connect(c) ==
  /\ card[c] = "processing"
  /\ conn[c] = "none"
  /\ conn' = [conn EXCEPT ![c] = "asked"]
  /\ elapsed' = [elapsed EXCEPT ![c] = 0]
  /\ UNCHANGED <<rowVars, unsent, card, cause, shown, heard, buf, faults>>

\* A response that is not a stream: the browser closes the EventSource for good.
ConnectRefused(c) ==
  /\ Fault
  /\ conn[c] = "asked"
  /\ Settle(c, "error", "connection")
  /\ UNCHANGED <<rowVars, unsent>>

\* get_job: an ended job ends the card, else the current step is shown.
CheckRow(c) ==
  /\ conn[c] = "asked"
  /\ \/ /\ status[CardJob[c]] \in Terminal
        /\ ShowEnd(c, status[CardJob[c]])
     \/ /\ status[CardJob[c]] \notin Terminal
        /\ conn' = [conn EXCEPT ![c] = "known"]
        /\ shown' = [shown EXCEPT ![c] = version[CardJob[c]]]
        /\ UNCHANGED <<card, cause, elapsed, heard, buf>>
  /\ UNCHANGED <<rowVars, unsent, faults>>

\* create_exclusive_queue and consume: only what is published from now on arrives.
Subscribe(c) ==
  /\ conn[c] = "known"
  /\ conn' = [conn EXCEPT ![c] = "bound"]
  /\ heard' = IF status[CardJob[c]] \in Terminal THEN heard ELSE heard \cup {c}
  /\ UNCHANGED <<rowVars, unsent, card, cause, shown, elapsed, buf, faults>>

\* RabbitMQ is not there: the stream polls the row.
SubscribeFails(c) ==
  /\ Fault
  /\ conn[c] = "known"
  /\ conn' = [conn EXCEPT ![c] = "polling"]
  /\ UNCHANGED <<rowVars, unsent, card, cause, shown, elapsed, heard, buf>>

\* Mutants: messages of other jobs are not told apart, or end the buffer.
ReceiveAny(c) ==
  /\ conn[c] = "bound"
  /\ buf[c] # <<>>
  /\ ShowEnd(c, Head(buf[c]).kind)
  /\ UNCHANGED <<rowVars, unsent, faults>>

ReceiveLast(c) ==
  /\ conn[c] = "bound"
  /\ buf[c] # <<>>
  /\ buf' = [buf EXCEPT ![c] = <<>>]
  /\ UNCHANGED <<rowVars, unsent, cardVars, faults>>

\* One message of the stream's queue; those of other jobs are skipped.
Receive(c) ==
  /\ conn[c] = "bound"
  /\ elapsed[c] < Timeout
  /\ buf[c] # <<>>
  /\ LET e == Head(buf[c]) IN
       \/ /\ e.job = CardJob[c] /\ e.kind \in Terminal
          /\ ShowEnd(c, e.kind)
       \/ /\ e.job = CardJob[c] /\ e.kind = "running"
          /\ shown' = [shown EXCEPT ![c] = e.version]
          /\ elapsed' = [elapsed EXCEPT ![c] = 0]
          /\ buf' = [buf EXCEPT ![c] = Tail(@)]
          /\ UNCHANGED <<card, cause, conn, heard>>
       \/ /\ e.job # CardJob[c]
          /\ buf' = [buf EXCEPT ![c] = Tail(@)]
          /\ UNCHANGED cardVars
  /\ UNCHANGED <<rowVars, unsent, faults>>

\* Mutants: the limit is not checked; the keepalive does not count.
SilenceUnlimited(c) ==
  /\ conn[c] = "bound"
  /\ buf[c] = <<>>
  /\ elapsed' = [elapsed EXCEPT ![c] = @ + 1]
  /\ UNCHANGED <<rowVars, unsent, card, cause, shown, conn, heard, buf, faults>>

SilenceUncounted(c) ==
  /\ conn[c] = "bound"
  /\ buf[c] = <<>>
  /\ elapsed[c] < Timeout
  /\ UNCHANGED vars

\* Five seconds without a message: a keepalive.
Silence(c) ==
  /\ conn[c] = "bound"
  /\ buf[c] = <<>>
  /\ elapsed[c] < Timeout
  /\ elapsed' = [elapsed EXCEPT ![c] = @ + 1]
  /\ UNCHANGED <<rowVars, unsent, card, cause, shown, conn, heard, buf, faults>>

\* The fallback reads the row every other second; activity does not reset elapsed.
Poll(c) ==
  /\ conn[c] = "polling"
  /\ elapsed[c] < Timeout
  /\ \/ /\ status[CardJob[c]] \in Terminal
        /\ ShowEnd(c, status[CardJob[c]])
     \/ /\ status[CardJob[c]] \notin Terminal
        /\ shown' = [shown EXCEPT ![c] = version[CardJob[c]]]
        /\ elapsed' = [elapsed EXCEPT ![c] = @ + 1]
        /\ UNCHANGED <<card, cause, conn, heard, buf>>
  /\ UNCHANGED <<rowVars, unsent, faults>>

\* The stream's last event is an "error" event.
GiveUp(c) ==
  /\ conn[c] \in {"bound", "polling"}
  /\ elapsed[c] = Timeout
  /\ Settle(c, "error", "timeout")
  /\ UNCHANGED <<rowVars, unsent, faults>>

\* The connection drops, the backend restarts, or the page is reloaded.
Disconnect(c) ==
  /\ Fault
  /\ conn[c] # "none"
  /\ conn' = [conn EXCEPT ![c] = "none"]
  /\ buf' = [buf EXCEPT ![c] = <<>>]
  /\ heard' = heard \ {c}
  /\ UNCHANGED <<rowVars, unsent, card, cause, shown, elapsed>>

\* The backend's broker connection is restored with a new, empty queue.
QueueLost(c) ==
  /\ Fault
  /\ conn[c] = "bound"
  /\ buf' = [buf EXCEPT ![c] = <<>>]
  /\ UNCHANGED <<rowVars, unsent, cardVars>>

-----------------------------------------------------------------------------
Row == \/ Recover
       \/ \E j \in Jobs : Submit(j) \/ MarkStep(j) \/ Complete(j)
       \/ \E j \in Jobs, w \in Workers : Claim(j, w)
       \/ \E j \in Jobs, p \in Workers \cup {Sweeper} : Fail(j, p)
       \/ \E w \in Workers : Leave(w)
       \/ \E e \in unsent : Publish(e) \/ PublishLost(e)

Stream(c) == \/ Connect(c) \/ CheckRow(c) \/ Subscribe(c)
             \/ Receive(c) \/ Silence(c) \/ Poll(c) \/ GiveUp(c)

Broken(c) == ConnectRefused(c) \/ SubscribeFails(c) \/ Disconnect(c) \/ QueueLost(c)

Next == Row \/ \E c \in Cards : OpenCard(c) \/ Stream(c) \/ Broken(c)

Spec == Init /\ [][Next]_vars

\* A stream is a coroutine of a running event loop and its waits time out; other
\* jobs' messages leave it a silent wait now and then.
FairSpec == Spec /\ \A c \in Cards : WF_vars(Stream(c))

-----------------------------------------------------------------------------
(* Properties *)

TypeOK ==
  /\ status \in [Jobs -> {"none", "pending", "running"} \cup Terminal]
  /\ holder \in [Jobs -> Workers \cup {Nobody}]
  /\ version \in [Jobs -> 0..MaxWrites]
  /\ unsent \subseteq News
  /\ card \in [Cards -> {"absent", "processing", "done", "error"}]
  /\ cause \in [Cards -> {"none", "job", "timeout", "connection"}]
  /\ shown \in [Cards -> 0..MaxWrites]
  /\ conn \in [Cards -> {"none", "asked", "known", "bound", "polling"}]
  /\ buf \in [Cards -> Seq(News)]
  /\ elapsed \in [Cards -> 0..Timeout]
  /\ heard \subseteq Cards
  /\ faults \in 0..MaxFaults

\* A card that says its job is done, or failed, follows a job that has ended:
\* neither a snapshot of the row nor another job's message ends it early.
EndIsReal ==
  \A c \in Cards :
    card[c] = "done" \/ cause[c] = "job" => status[CardJob[c]] \in Terminal

\* As long as nothing fails, a stream that listened before its job ended has the
\* end before it: in its queue, or written and about to be published.
EndIsOnItsWay ==
  faults = 0 =>
    \A c \in heard :
      status[CardJob[c]] \in Terminal =>
        \E e \in unsent \cup Range(buf[c]) : e.job = CardJob[c] /\ e.kind \in Terminal

\* The progress on the screen never goes back to an older write of the row, over
\* the first snapshot, the published news, polling and reconnects.
ProgressNeverGoesBack == [][\A c \in Cards : shown[c] <= shown'[c]]_vars

\* A card does not say "processing" for ever, whatever becomes of its job.
EveryCardSettles ==
  \A c \in Cards : card[c] = "processing" ~> card[c] \in {"done", "error"}
=============================================================================
