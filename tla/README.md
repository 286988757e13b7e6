# A TLA+ model of the karaoke system

This directory models the parts of the karaoke system in which several
processes, messages and failures meet, checks them with TLC on small instances,
and proves their main safety properties with TLAPS for every instance.
`PROJECT.json` lists the runs, the mutants, the lines each definition
translates, the hazards and the theorems.

## 1. The system

An upload becomes a karaoke track in four processes around PostgreSQL,
RabbitMQ, S3 (MinIO) and QDrant; a party then plays tracks from a shared queue.

| Component (source) | State | Operations | What makes it correct |
| --- | --- | --- | --- |
| Upload API (`backend/.../track_service.py`) | none of its own | store the MP3, insert the job row, publish to `jobs` | every accepted upload ends, even if the publish is lost |
| Job table (`shared/.../pg_repository.py`, `job_service.py`) | `job_queue`: status, step, locked_by, track_id, timestamps | create, lock, mark step, complete, fail, reset after restart, read stale | ended jobs stay ended; a lock has one owner |
| Broker (`shared/.../rabbitmq.py`) | jobs.process, jobs.dlq, rec.index, rec.dlq, rec.indexed, one queue per event stream | publish, deliver (prefetch 1), ack, nack, reconnect | only a handler whose call raised takes the last message of an unfinished job away |
| Job sweeper (`backend/.../job_sweeper.py`) | none between cycles | every cycle: read stale pending rows, fail the old, republish the others | duplicates do no harm |
| Worker and consumer (`worker/app`) | handlers in flight | reset at start, lock, run the pipeline, ack or nack | one pipeline per job |
| GPU pipeline (`worker/gpu/gpu_pipeline.py`) | temporary files, the background upload | separate, analyse, upload the instrumental, create and link the track, complete, publish to rec | a completed job has its track and its instrumental |
| Progress stream (`backend/.../sse.py`, `progress_publisher.py`) | position, own queue, silent time | snapshot, subscribe, forward, keep alive, poll, time out | the end of a job reaches its card; progress does not go back |
| Upload card (`frontend/.../UploadTab.tsx`, `sseService.ts`) | phase, progress, error | follow, reconnect, restore after a reload | a card always ends |
| Recommendation indexing (`rec-service/app`) | handlers in flight | download, two upserts, announce, delete the original | an original goes only after its track is searchable |
| rec.indexed consumer (`backend/app/main.py`) | none | mark the row as synced | synced means searchable |
| Recommendation engine (`rec-service/.../recommendation_engine.py`, `backend/.../recommendations.py`, `popular_service.py`) | none; the page counts what it has shown | share the page among clusters, search, rank, exclude, fall back to popular songs | no stale song, one per artist, a full page, popular songs last |
| Play queue (`backend/.../queue_service.py`, `api/v1/queue.py`) | entries, statuses, positions, play counts | add, skip, start, finish, play now, delete | one current song, no lost turn, counts equal plays |
| Sessions (`backend/.../session_service.py`, `sessions.py`) | session status, participants | create, join, terminate | unique nicknames, no join after the end |
| Lyrics search (`worker/common/lyrics`, `lyrics_agent.py`) | the expander's cache | name parsing, providers, expansion, ranking, agent, transcript | the best candidate is answered, last resorts come last, it ends |
| Alignment and lines (`worker/gpu/torch_ctc_aligner.py`, `shared/.../line_breaker.py`) | none | trim, align, correct starts and ends, split into syllables, break lines | times in order and in place; lines begin with words |
| Lyrics display (`frontend/.../LyricHighlight.tsx`) | clock, line shown | frames, seeks, countdowns | the line on the screen is the one that is sung |
| Catalogue, search, tags, moods (`backend/app`) | none | read | not modelled, but for the popular songs |

### How they interact

1. The upload handler inserts a row (`pending`) and publishes the job's id. The
   two are separate calls: a lost publish leaves a row that only the sweeper
   can bring back.
2. A worker's handler locks the row with a conditional UPDATE, which is the only
   mutual exclusion there is: the broker may deliver a message again and the
   sweeper publishes it again.
3. The pipeline writes progress to the row and publishes it to a fanout; an
   event stream reads the row once and then listens on a queue of its own.
4. A completed job's track is published to the rec-service, which indexes it,
   deletes the original MP3 and answers on `rec.indexed`.
5. Participants' browsers read and change the play queue through requests that
   each consist of several database calls without a transaction.

### What is hard

- **Duplicates.** Redelivery after a lost channel or a crash, requeue of a
  refused message and the sweeper's republish all produce copies of a message
  whose job may be pending, running or ended.
- **Ownership after a crash.** A row left `running` is reset only by the process
  with the same worker id; the conditions of that UPDATE decide whether another
  worker's job is taken away.
- **Partial failures.** `complete_job` succeeds and the next publish raises; the
  instrumental lands in S3 and the analysis fails; one upsert of two is stored.
- **Read, then listen.** A job may end between the snapshot and the
  subscription of a stream.
- **Deleting before acknowledging.** The rec-service deletes its input before
  the message is acknowledged.

- **Chains of corrections.** Three passes move the times of the same words, each
  from what the aligner said; the line breaker and the player take the result.
- **Stages and fallbacks.** Searches for lyrics and for songs fall back stage by
  stage while services fail; a fallback taken too early gives a worse answer,
  and no test sees that a better one was there.

The hazards, one by one and at their lines, are in `PROJECT.json`.

## 2. The modules

    JobTable            what the pipeline promises about a job row (abstract)
      ^  implemented by           ^  used as the environment of
    JobLifecycle                ProgressStream          RecIndexing          PlayQueue
      ^                           ^                       ^                    ^
    JobLifecycleProofs          ProgressStreamProofs    RecIndexingProofs    PlayQueueProofs
    MCJobLifecycle              MCProgressStream        MCRecIndexing        MCPlayQueue

    WordTiming              LyricsMatching          Recommendations
      ^ extended by           ^ extended by           ^
    KaraokeLines            LyricsSearch            RecommendationsProofs
      ^                       ^                     MCRecommendations
    KaraokeLinesProofs      LyricsSearchProofs
    MCKaraokeLines          MCLyricsSearch

OrderLemmas holds what the proofs need to know of the community modules'
operators: it extends no module of the system, and PlayQueueProofs,
KaraokeLinesProofs, LyricsSearchProofs and RecommendationsProofs extend it.

A handler's code between two awaits across which another process can be seen is
one action. A call that can fail has an action of its own for the failure; where
the failure comes from the environment it spends the budget `MaxFaults`.
Operators whose comment starts with *Mutant* are variants of the operator after
them with a plausible bug. No specification uses them; `PROJECT.json` says which
property each of them breaks.

### JobTable

One record per job: the row's status, and the worker whose pipeline runs on it.
A worker claims a pending job nobody works on; only a held job is completed;
a running job nobody holds may go back to pending; a job may fail at any time.
It has no queues, messages, tasks or timers.

### JobLifecycle

Backend, broker and workers for the life of a job.

| Variables | In the code |
| --- | --- |
| `upload` | where `TrackService.upload_mp3` is |
| `status`, `lockedBy`, `linked` | columns of `job_queue` |
| `tracks`, `instr`, `recq` | tracks created for a job, `instrumentals/{job}.mp3` in S3, messages to rec.index |
| `ready`, `dlq`, `tagged` | messages in jobs.process and jobs.dlq, unacknowledged deliveries |
| `up`, `pc`, `job`, `enc` | worker processes; each handler's place and job; its background upload |
| `stale`, `expired`, `cand` | what the sweeper's two time limits say of a row, and its running cycle |
| `faults` | environment failures so far |

`Deliver` to `Ack` are `JobConsumer._on_message`; `Separated` to `Cleanup` are
`GpuPipeline.process`, with `EncodeUpload` and `EncodeEnd` the task it starts;
`StartWorker` is `main` with `reset_stale_running_jobs`; `SweepRead`
to `SweepAbort` are `JobSweeper`. A worker has several handler slots because a
channel that was replaced takes a new delivery while the old handler still runs.

Abstractions:

- jobs.process is a count of copies per job. Its order and its priorities are
  left out: every order is allowed. `prefetch_count=1` is one open delivery per
  worker. jobs.dlq is a set.
- The broker drops a dead letter after 72 hours (`x-message-ttl`,
  `rabbitmq.py:57-69`). The model does not measure them: `DropDead` drops one at any
  time, so nothing may rely on it. Nothing in the repository reads the queue either.
- The pipeline's computations are three steps that may each end or raise.
- `tracks` is a number; the faults bound it, which `ExtraTracksCostFaults` states.
- The time limits of the sweeper outlast the request that inserts a row, and are
  otherwise passed at any moment.
- SIGTERM during a handler is a crash: the broker requeues the delivery and the
  row stays running. A loss of the broker's disk is not modelled.
- A lock whose answer is lost is `LockJob` followed by `FetchRaises`; a
  completion whose answer is lost is `CompleteJob` followed by
  `PublishRecRaises`.
- A body that cannot be parsed, a `get_job` that finds no row and a job without
  an `mp3_key` do not occur: bodies come from this code, and rows are not deleted.
- `poll_and_lock` and `poll_pending` have no caller and are left out.

### ProgressStream

How a card in a browser follows a job. The rows change by the steps of
`JobTable`, to which each write adds a version number and the publish that
follows it, so this module allows every order of writes the pipeline,
the sweeper and restarts can produce, and more.

| Variables | In the code |
| --- | --- |
| `status`, `holder`, `version` | the row, its pipeline, and how often it was written |
| `unsent` | news between the write and the publish in `JobService` |
| `card`, `cause`, `shown` | the card's phase, why it is an error, and the last progress on it |
| `conn`, `buf`, `elapsed` | `event_generator`: where it is, its queue, its silent time |
| `heard` | history: streams that listened before their job ended |

`CheckRow` is the first read of the row, `Subscribe` the exclusive queue and its
consumer, `Receive` and `Silence` the loop's two branches, `Poll` the fallback
without RabbitMQ, `GiveUp` the timeout event. Writers are pipelines, which await
the publish of one write before the next, and the sweeper. Abstractions: a
yielded event and the card's handler for it are one step, because losing it on
the wire equals losing the connection before it; a card starts with the upload's
answer; an error answer to the connection closes the EventSource for good, as
browsers do; a lost publish is logged and dropped, as in the code.

### RecIndexing

How a track becomes searchable: `Deliver` to `Reject` are the rec-service's
consumer and `RecIndexer.index`, `MarkSynced` the backend's consumer, and `DropDead` drops a message of rec.dlq, which has the same limit of
72 hours. The
feature extraction, the embeddings and the cluster assignment are data.
`ChannelLost` and `Crash` redeliver the open message; the second delivery may
find the original deleted, which is an exception like any other. `erred` is
history: the tracks a failing call was about, for which the code promises
nothing (their messages are dead-lettered and nothing reads that queue).

### PlayQueue

The queue of one session. A request holds one of the slots `Requests` from its
first statement to its answer; every database call after the first is an action,
because each is a transaction of its own and other requests run between them.

| Variables | In the code |
| --- | --- |
| `session` | `sessions.status` |
| `status`, `position`, `song` | columns of `queue_entries`; "deleted" and "none" stand for no row |
| `history`, `playCount`, `played` | rows of `play_history`, `tracks.play_count`, `participants.tracks_played` |
| `op`, `pc`, `at`, `ask`, `place` | a request: what it does, its next statement, the entry and the song it has read, the position its INSERT has computed |
| `turn`, `gone`, `seen` | the past: the entry a turn began with, turns deleted or lost, the rows a request found |

`AddRequest` to `FinishRequest` are the routes with the checks they make before
they write; `MarkSkipped`, `ReadMax` and `Insert` are `skip_turn`; `ReadMax` and
`Insert` alone are an addition, followed by `MarkPlaying` for
`direct_play`; `MarkDone` to `CountSinger` are `finish_playing`. `Fail` ends a
request anywhere, after a failed statement or when the backend stops, and what it
has written stays.

Abstractions:

- The INSERT computes `MAX(order_position) + 1` in a subselect. It sees the rows
  committed when the statement began, so the subselect (`ReadMax`) and the commit
  (`Insert`) are two steps.
- A browser may name any row that is there, in any state: the pages poll and
  several are open at once. A row that is not there gives a 404 and changes
  nothing, so requests for one are left out.
- The row read back after an INSERT matters only for `direct_play`, which goes
  on with it; for the others it is part of `Insert`.
- Entry ids are a finite set and are not used again; `RoomToInsert` admits an
  insert when an id is left for it, which is a bound.
- The history rows of an entry are counted at the entry although the table has no
  such column. Reads by the pages change nothing.
- Participants and tracks are there from the beginning; joins are not modelled.

### WordTiming and KaraokeLines

From a recording to the line on the screen. WordTiming is
`TorchCTCAligner.align`, one action per pass (`Trim`, `Align`, `AdjustStarts`,
`TrimEnds`, `ExtendEnds`, `ToSyllables`); KaraokeLines goes on with
`detect_line_breaks` (`BreakLines`) and the player (`PlayFrame`, `Seek`).

| Variables | In the code |
| --- | --- |
| `sound`, `offset` | loudness of the lead vocals, frame by frame; what was trimmed |
| `words`, `spans` | the lyrics; the aligner's frames for each phoneme |
| `starts`, `ends` | `line_adjustments`; `end_adjustments` with the extensions |
| `timings` | the syllables with their times |
| `crossed` | history: the words `align` gave 50 ms because their end was not behind their start |
| `breaks`, `clock`, `shown`, `seeking` | how lines were found; the player's time, line, and whether it was set |

The passes are written by what they look for and not by how they scan: "the
first frame above a fifth of the peak behind the first silence" is a set of at most
one frame. Abstractions:

- The emission model, the forced alignment and the speech detector are external.
  They may give any ordered placement, and any frame that is not silent.
- A frame of the aligner and a frame of the loudness are both 20 ms; in the code
  their ratio differs from that by rounding. Times are integers, in milliseconds.
- How a word is split into syllables is data: the lengths of the syllables.
- Beats are any of a set of rhythms. Once the lines are found the recording is
  cleared from the state, as `align` has returned.
- The player's clock only takes the values in `Clock`; fonts and colours are
  left out.

A word whose only gap is subject to two corrections may start behind its end;
the code gives it 50 ms, which may overlap with the next words. `crossed` is the set of
exactly those words; a word that lasts 50 ms by itself is none. `InOrder` lets a crossed
word last into the next ones for less than 50 ms. `SingersSeeTheirLine`
holds of a crossed word too, until a later word has begun (`Overtaken`): only the rest of
the crossed word may sound while another line is shown, or the countdown to it. A frame of 20 ms is split
among the letters of a word in whole milliseconds, so a word of more than twenty
letters on one frame may have syllables that take no time; `InOrder` excepts those
too (`Letters`).

### LyricsMatching and LyricsSearch

LyricsMatching holds the pure parts: the expander's algorithmic pass, the
score with its seven components and the ranking. LyricsSearch is
`LyricsProviderChain.search`.

| Variables | In the code |
| --- | --- |
| `asr`, `key`, `engines`, `web` | the transcript, the configuration, what is on the web |
| `artists`, `titles` | spellings given or parsed from the file name |
| `phase`, `questions`, `agentRan` | the stage, provider calls not answered, whether the pool is the agent's |
| `pool`, `written`, `scores` | candidates, their texts written out, their scores |
| `cache` | `LyricsExpander._cache` |
| `pass`, `round`, `searches` | the agent: engine, round, searches in a row |
| `result`, `passes` | the answer; history of the agent's passes |

Expansions run at once: `Expand` decides for all of them from the cache as it
is, then `Rewrite` answers them in any order. Abstractions: words are compared
through constants for normal forms, sounds and similarity; rates are permille,
rounded down, and scores, their sums weighted by percents, are hundredths of a
permille (the thresholds 0.65, 0.45 and 0.05 are 65000, 45000 and 5000); the web is a function from queries to candidates; providers asked
together answer in the order of the questions, as `gather` returns them; what a
tool of the agent returns is data, and only the kind of tool is kept; a model may
answer anything in `Rewrites` or `Findings`, fail, or choose either of the best two.

### Recommendations

The queue page, the backend's route, the recommendation service and the popular
songs, for the requests of one session.

| Variables | In the code |
| --- | --- |
| `history` | `play_history` of the session |
| `shown` | `shownCounts` in the page |
| `req` | a request: phase, parameters, the history it has read, clusters and shares left, the answer |
| `came` | requests so far, a bound |

`Ask`, `Arrive`, `Fail` and `Choose` are the page; `ReadHistory`, `Returned` and
`OfferPopular` the route; `ShareAmongClusters`, `SearchCluster` and `SearchMood`
the engine, whose searches, vectors and payloads may each fail. A list of songs
is its set, and the properties are about who is offered. Similarities are tenths,
from a given set of functions; equal scores come in a fixed order.

## 3. The runs

Every pass run but `lyrics_search` says CHECK_DEADLOCK FALSE because the system
may really stop: a song ends, a session asks for nothing more, or, once every job has ended, every card has settled and no fault is left to
inject, nothing has to happen. The liveness properties show that it does not
stop earlier.

| Run | Instance | States | What it shows |
| --- | --- | --- | --- |
| `jobs_safety` | 1 job, 2 workers (w1 with two handlers), any 2 of all faults, 2 ready copies | 264,548 | exclusive processing, lock ownership, no lost message, artifacts of completed jobs, a track more for each fault at most, no resurrection, refinement of JobTable |
| `jobs_settle` | the same, 1 fault of those the system recovers from, fair | 89,664 | every inserted job ends; a running row has an owner |
| `progress_stream` | 2 jobs, 1 worker and the sweeper, 1 card, 2 writes per row, 2 silent waits, 1 fault, fair | 445,712 | ends are real and on their way, progress never goes back, every card settles |
| `rec_indexing` | 2 tracks, 2 handlers, 2 faults, fair | 35,269 | the original outlives indexing, synced is searchable, dead letters are done, every track is indexed |
| `play_queue` | 3 entries, 2 requests at a time of 5, 2 singers, 1 track, 1 failed request | 1,533,460 | no lost turn, order of arrival, no new turn after the end, history and counters agree but for what the failed request had still to write |
| `karaoke_lines` | 13 frames in three stretches of three levels, 2 songs, all pauses among their phonemes, 2 rhythms, 17 clock times | 247,072 | corrected times in place and in order, whole lines, the sung line is shown, lines go forward |
| `lyrics_search` | 3 transcripts, 6 webs, 8 texts, 0 to 2 engines, with and without a model, 3 rounds, fair | 107,083 | the best candidate is answered, what an exact text can lose to, last resorts, every search ends |
| `recommendations` | 6 songs, 2 clusters, 2 songs sung, 2 requests, pages of 1 and 2, any failures | 143,758 | no stale song, one song per artist, shares fit, popular songs fill the page and come last |
| `jobs_duplicates` | 1 job, 1 handler, no fault, fair | violation | a duplicate of an ended job's message never drains |
| `jobs_orphan` | 1 job, 1 handler, no fault | violation | a failed job's instrumental stays in S3 |
| `play_queue_current` | 2 entries, 2 requests, no fault | violation | the current entry is not the one that plays |
| `rec_limit` | the instance of `recommendations` | violation | a page of one song is answered with two |

Why the bounds are enough for the questions:

- Jobs share nothing but the broker's and the workers' capacity, so the hazards
  of one job are about its copies, handlers and crashes. Three handlers in two
  processes give a second handler in the same process and one in another;
  two copies beyond the deliveries give every handler a message; two faults
  combine any two kinds, such as a crash during a republish or a lost channel
  before a refused write. With two jobs and crashes the instance has
  millions of states; the proofs cover that case.
- The only counter the sweeper could drive up is the number of ready copies,
  which `MaxCopies` bounds in `SweepRepublish`; requeues and redeliveries are
  not bounded.
- A stream tells its own job's messages from another's, so two jobs; order and
  loss show with two writes per row; a third write repeats the second.
- An instance of RecIndexing needs two handlers for a redelivery that overlaps
  the first, and two faults for a failure during the recovery from a failure.
- Two requests interleave in every pair of operations; five in all are enough
  for add, add, delete, add, where a count of rows and their greatest position
  differ, and for a skip beside a finish of the same entry with a deletion after
  it. Three ids give a turn two skips. A second failed request repeats the
  first one; who sings matters only to the counters, so two singers and a track.

- Word times: seven frames of phonemes with one or two pauses put a gap
  below, between and above the thresholds of both branches of the correction of
  starts; three stretches of sound give a silence before, between or after
  attacks. A line of two phonemes before one of four has the two-phoneme word
  whose corrections cross and the inner gaps the median needs. The thresholds of
  the lines are scaled to a recording of 13 frames: pauses of 60 ms (400 ms in
  the code), two of them (5), lines of 4 characters (50), countdowns of 60 ms
  (5 s). The times of the clock include every frame and the first ones after the end.
- Lyrics: the webs are chosen so that the exact text is found first, last, in
  the same answer as a longer one that contains it, under a name that hides it,
  or not at all, and so that two candidates share a text with an instruction. Three
  rounds (15 in the worker's settings) leave room for two searches in a row and a fetch.
- Recommendations: with no spare points (10 in the code) and one neighbour per
  song to offer (3), a catalogue of six songs already has searches that are cut
  short; two songs sung give one cluster, two, or none with a centroid; a page of
  one leaves a cluster without a share; a song is dismissed when it was
  shown once (2). One request at a time is enough, because requests share only the
  counts of the page, which are read when a request is sent; songs are sung in between.

**Fairness.** Handlers, background uploads and streams are coroutines of a
running event loop whose waits have timeouts (`asyncio.wait_for` around the
pipeline's GPU steps, five seconds in a stream), hence weak fairness on their
steps. The broker delivers a ready message to a free consumer. The container
runtime restarts a process (`restart: unless-stopped`), under its old worker id.
The sweeper loops and catches what a cycle raises. Time passes, so a row does
become old. Faults and new uploads are owed nothing. `Deliver` is fair as a whole,
not per job or per worker: the broker owes no message its turn. The lyrics search is
one coroutine whose calls all have timeouts: weak fairness of its next step,
written out in `FairSpec` because its next step is enabled until it is done, which
the run's deadlock check shows.

## 4. What the violation runs say

Each quotes a sentence of the repository the code does not keep; the full text
is in `PROJECT.json`.

- **Duplicates are requeued for ever.** The sweeper's comment says a duplicate is
  refused and gone; the refusal is `nack(requeue=True)` whatever the row's
  status, so a copy of an ended job's message circulates, and holds the
  worker's only delivery for half a second each round.
- **Failed jobs may leave an instrumental.** The comment promises none; only an
  upload that is still running is cancelled.
- **The current entry is not the one that plays.** `get_queue` documents the
  playing entry as the current one; it returns the first active one by position,
  and a song played at once is appended behind those that wait.
- **A page of one song holds two.** The route documents `limit` as the most results;
  the popular songs take at least one of the most played, and then add one at
  random before they look at their number.

Four smaller disagreements were met and have no run. `consumer.py:126` says that
the pipeline wrote the error before a message is dead-lettered, although the pipeline
swallows what it records, so that only unrecorded failures get there. One of them
strands a job: when `get_job` raises after the lock (`consumer.py:113`), or the final failure
write does, the row stays running under a live owner, its only message is a dead letter,
and 72 hours later there is none. `NoMessageLost` names this way out and
`RunningIsOwned` excepts it; only a restart of that worker brings the job back. `sse.py:94`
documents `error` as a failure or an unknown job; it is also sent after a silence.
`rec-service/app/consumer.py:25` documents an `artist` which the pipeline
(`gpu_pipeline.py:375-379`) does not send, so points of uploads have an empty one
and count as one artist. Between close candidates the model may choose the
runner-up even when its score is below the threshold for acceptance (`matcher.py:113-159`),
which is why `AnswerIsBest` speaks of the margin and not of the threshold.

## 5. What is proved

All safety invariants and action properties that the pass runs check, and the
refinement, are theorems; they hold for every value of the constants, under the
assumptions the modules name. No worker and no job is called `Nobody`; every
handler slot belongs to a worker; the bounds are natural numbers; the sweeper is
not a worker; every card follows a job; entries, requests and tracks are finitely
many. A recording has a loudness for each of its frames, a song has a word, a word
has phonemes and syllables of at least one letter (`LyricsAssumption`, which is
what `_tokenize_lyrics` and the syllabifier return), and clocks are numbers. Texts
consist of words with a normal form, providers and agent answer with sequences of
candidates whose texts exist, a useful text has a word, and the threshold of a
sure answer is at most the 0.70 that coverage and matches alone can score
(`ScoreAssumption`; the code has 0.65).
Each theorem follows the usual argument:
`Init => IInv`, `IInv /\ [Next]_vars => IInv'`, and `IInv` implies the property.

**JobLifecycleProofs.** `IInv` is the conjunction of

- `HandlerInv`: a busy handler has a job and a running process, an open delivery
  a busy handler, and a finished background upload an object;
- `RowInv`: a row being worked on is running or ended, one whose message is
  about to be acknowledged has ended;
- `ProgressInv`: what the last steps of the pipeline have already written;
- the safety properties of the run, and `OwnedInv`, `TracksInv`, which
  strengthen `RunningIsOwned` and `ExtraTracksCostFaults`: jobs that wait for a pipeline,
  or were abandoned by one, have no more tracks than there were faults.

They need each other. A handler that takes the lock finds a pending row; by
`RowInv` no pipeline works on it, which is `ExclusiveProcessing`. A restarting
worker resets the running rows of its own id; by `LockIsHeldByProcessor` a
pipeline at work on one of them would be its own, and by `HandlerInv` its
process would be up, which it is not. `NoMessageLost` is about steps: the last copy of a
message goes only with a handler that settles it (`SettleKeepsOthers`, `LastCopyStep`),
an acknowledgement happens only at places where `RowInv` says the row has ended, and
a refusal puts the copy back, so what remains is the handler that rejects it because a call
raised. Whether the dead letter survives plays no part. Before
`complete_job`, `ProgressInv` has collected the three artifacts of
`CompletedHasArtifacts`, and nothing takes one of them away.

The same module proves the refinement, `Spec => ImplementsJobTable`. Its mapping keeps
`status` and reads the holder off the handlers with a CHOOSE;
`ExclusiveProcessing` makes the choice unique, so `HolderInv` states the
function the mapping computes, and `SameHolder` and `Releases` say which steps
keep it and which drop jobs from it. `LockJob` is `Claim`, `CompleteJob` is
`Complete`, failures of the pipeline and of the sweeper are `Fail`, the end of a
pipeline and a crash are `Release`, a restart is `Recover`; everything else
stutters.

**ProgressStreamProofs.** `NewsInv` says a writer has at most one write it has
not published, and that it is the row's last while the job runs; `CardInv` says
what waits in a stream's queue is in the order of the writes, not older than
what is shown and not newer than what is unpublished. `EndIsReal` and
`ProgressNeverGoesBack` follow. `EndIsOnItsWay` is preserved by every step from
`IInv` (`WayStep`): the write of an end puts it into `unsent`, its publish puts
it into the queue of a bound stream, and its receipt ends the stream.

**RecIndexingProofs.** `HandlerFacts` says what each place of a handler implies
about its track: behind an upsert the point is stored, behind the announcement
the backend knows or will know. Points are never removed, so the facts survive
whatever other handlers, crashes and redeliveries do.

**PlayQueueProofs.** Assumptions: there are finitely many entries, `NoEntry` is
none of them and `NoSong` is no song. `SongInv` says every entry of a turn
carries the song of its first one; `RequestInv` says, place by place, what a
request is about and that what it has read of its entry is still true; `PlaceInv` says the position an INSERT has
computed is greater than that of every row the request found when it came and
that is still there. The last one needs the middle
one and gives `OrderKept`: rows never move, so a position computed from an old
snapshot still lies behind the rows of a still older one. `TurnsStay` follows
every turn through the three statements of a skip: between the mark and the insert
the request itself carries the turn, and the entry it adds inherits it.
`CountersFollow` is about sums over all entries of a song or of a singer. `CountInv`
adds to it that an id that was never a row has no song and no history, so that an
insert adds nothing to any sum; each of the three statements of a finish then moves
one between history, requests under way and counter (`RecordedCount`,
`CountedCount`), and a failure takes at most one request out of those under way
(`FailedCount`). `DoneRecorded` bounds the songs without a record by the failures
in the same way.

**KaraokeLinesProofs.** Five theorems on four layers, each of which needs only
the one before.

- `CorrectionsStayInside` holds for every placement of the phonemes. `SpansOK`
  says phonemes are in order and take time, which `Unflatten` gives for any
  ordered placement; each of the three corrections then chooses a frame from a
  set that `NewStartInside`, `TrimmedEndInside` and `ExtendedEndInside` bound by the
  word's own phonemes and the next word's onset. `Trim` keeps the recording a
  function on 0..n-1.
- `SyllablesInOrder`. `WordsInv` says the words' phonemes follow one another, hence
  their corrected times (`FramesInOrder`, `TimesInOrder`); a word's time is shared
  by the partial sums of its letters, which grow (`SharesInOrder`); and the
  syllables of all words, one list, keep both orders (`SyllablesFollow`).
  `SyllablesInv` adds what the lines need: words come in order, a prefix begins
  a word, and nothing behind a syllable with a prefix begins before it.
- `SingersSee` and `LinesScrollForward` rest on `SyllablesInv` alone. Lines are
  intervals of syllables that begin in order (`LinesIncrease`, `LinesInTime`), so
  the active line is the last one begun, or the one before while it lasts
  (`ActiveLineIs`), and grows with the clock. `PlayInv` says the line that is
  shown is the active line of the clock.
- `LinesWhole`. `RunsExist` gives the counter of `_gap_mode` as a function with a
  value for every syllable, `RunSums` that it is the letters since the last break,
  `GapModeShort` that a break comes in time. `WholeInv` keeps this while the song plays.

**LyricsSearchProofs.** `AnswersAreBest` needs no fact about the scores: `Rank` is
the only step that answers, and nothing changes the pool after it. `TurnsAreTaken`
states the first part of `LastResorts`, by an invariant on the agent's history of
passes. `TranscriptsComeLast` needs that the first of the ranking has the highest
score, which is true only if scores are numbers: `AllScoresAreNumbers` follows the
composite down to counts, quotients, logarithms and the rare phrases' weights.
`ResortInv` says pools hold candidates with texts, that what is written out can be
scored, and that a search is rejected with nothing acceptable.

`ExactTextsWin` says how far the ranking can be trusted. `ExactScoresMost` compares
a text with the transcript itself, component by component: each share is at
most 1000 and reaches it only for a text that holds all words, the similarity of
sounds is highest with itself (`MostSimilar`), the length costs nothing. So with
no hints and no more rare phrases no text scores more, and one that scores as
much echoes the transcript; and an exact text scores at least 0.70, so the model
is asked only within the margin. `ExactInv` keeps the scores together with the
texts they were computed from until the ranking.

**RecommendationsProofs.** `RequestInv` follows a request from its parameters to
its answer: the neighbours are taken from what is not excluded
(`NeighboursAreClean`), so are the popular songs (`PopularSongsAreClean`), and a
cluster's picks are one per artist and of no artist seen (`PicksAreFresh`), of
which those picked before are a part. The argument for one song per artist is
that of two equal songs one is ahead (`BestIsOne`), from the assumption that
`TieOrder` is injective. `PagesInv` adds what the counting properties need while
the clusters are searched one after another: the shares that wait are the
last ones of `Slots` (`Partway`), the answer is no larger than the shares before
them (`Taken`, `SharesAddUp`), and if nothing was picked nothing was left
(`NothingLeft`). `SharesFit` is the last of these steps. `PopularFills` counts the
rows read against the exclusions (`PopularSongsFill`). `PopularComesLast` shows of a
search that enough points are read: the open songs are among the nearest
(`BestReachBeyond`, `OpenIsFound`), so a pick is made wherever one is open.

**OrderLemmas.** A fact about a finite set, a sum or a fold is an induction, and the
library's induction theorems take an operator. The proofs here are the same
arguments about sets: the set of counterexamples has a least element, in the naturals
(`LeastNatural`, `CountingUp`) or among finite subsets (`FirstOfFinite`), and that one
is none. `SumStep` is the equation of `MapThenSumSet`, whose CHOSEN function is
shown to exist (`AddsExists`) and to be unique (`AddsUnique`); the lemmas on
`FlattenSeq`, on the n-th of a set (`NthPlace`) and on least and greatest elements
(`Extremes`) are found the same way.

**What the attempts found.** Two properties were false as first stated, on
instances larger than the run's, and now say what holds:

- `InOrder` said every syllable takes time. Twenty-one letters on one frame refute it.
- `ExactTextWins` said no other text wins but by the margin. A transcript whose two
  halves have the same words in another order scores less against the exact text
  than against the first half sung twice, when eight other candidates are the second
  half alone: phrases of the first are then rare, and the exact text is less densely
  set with them (932.8 to 948.5 permille with halves of 100 words). The property
  now names this case, and that of a text that echoes the transcript, which ties.

The proofs about lines and clocks also needed assumptions nobody had written down:
a song has a word and a word a syllable (`LyricsAssumption`), and the player's clock
shows numbers (`PlayerAssumption`).

**Only model-checked.** The liveness properties (`EveryJobSettles`,
`EveryCardSettles`, `EveryTrackIsIndexed`, `EverySearchEnds`), which need fairness and
ENABLED and are out of the prover's reach, and the four violation runs, each of
which is one behaviour.

## 6. What is not modelled

Computations whose result is data (separation, transcription, emissions,
embeddings, clusters, the words' normal forms and sounds, the split of a word into
syllables); the GPU threads that outlive a timed-out step and the separator's
fallback to the CPU; S3 and QDrant beyond which objects exist and which points a
search finds; joining a session and nicknames; the catalogue's reads, full-text
search, mood expansion and tags; the upload request before a card has a job; rate
limits, metrics, logs, health checks and scripts; a worker that restarts under another
id; the loss of a broker's disk; how often a model is called.

## 7. The plan

1. Done: the job pipeline (JobTable, JobLifecycle), the progress stream, the
   recommendation indexing, the play queue, word times and lines, the lyrics search
   and the recommendations, with the proofs of section 5.
2. **Sessions**: join and rejoin with a chosen or a generated nickname, the list
   of the taken ones read before the insert, the end of the session in between.
   The API calls a nickname unique within its session (`sessions.py:135`); the
   table has no such constraint, so the question is what two joins can do.
3. **Front-end request**: the upload card before it has a job id, and the player
   page's order of start, finish and skip on PlayQueue's operations.
4. Theorems: a refinement from PlayQueue to a list of turns; one from LyricsSearch to
   a chain of stages; the safety half of the liveness properties, which is what
   enables the next step of a job, a card and a search.

Sentences of the sources to look at when these parts are modelled: `direct_play`
calls itself one atomic call (`queue.py:302`), and `finish_playing` of the API lists
side effects the service does not have (`queue.py:265-266`).
