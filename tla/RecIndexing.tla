---------------------------- MODULE RecIndexing ----------------------------
(***************************************************************************)
(* How a new track becomes searchable: the worker publishes it to rec.index, *)
(* the rec-service downloads the original MP3, writes the track's audio and *)
(* lyrics points to QDrant, announces it on rec.indexed and deletes the     *)
(* original; the backend's consumer marks the track's row as synced.        *)
(*                                                                          *)
(* The original is deleted before the message is acknowledged, so a message *)
(* that is delivered again finds no original and is dead-lettered; what the *)
(* module is about is that by then the track is searchable.                 *)
(***************************************************************************)
EXTENDS Naturals

CONSTANTS Tracks,     \* tracks made from uploads, each with its original MP3
          Handlers,   \* slots for message handlers in the rec-service
          NoTrack,    \* an idle handler's track
          MaxFaults   \* bound: failures of the environment

ASSUME NoTrackAssumption == NoTrack \notin Tracks
ASSUME FaultsAssumption == MaxFaults \in Nat

VARIABLES
  sent,       \* tracks whose message the pipeline published
  originals,  \* tracks whose original MP3 is in S3
  recq,       \* [Tracks -> messages ready in rec.index]
  recdlq,     \* tracks with a message in rec.dlq, which nothing reads
  indexedq,   \* [Tracks -> messages in rec.indexed]
  audio,      \* tracks with a point in the audio collection
  lyrics,     \* tracks with a point in the lyrics collection
  synced,     \* tracks with qdrant_synced in PostgreSQL
  up,         \* the rec-service is running
  pc,         \* [Handlers -> where the handler is]
  track,      \* [Handlers -> the track of its message]
  tagged,     \* handlers whose delivery is still open
  erred,      \* tracks a failing call was about
  faults

pointVars   == <<audio, lyrics>>
handlerVars == <<pc, track, tagged>>
queueVars   == <<recq, recdlq, indexedq>>
vars == <<sent, originals, queueVars, pointVars, synced, up, handlerVars, erred, faults>>

Indexing == {"downloading", "upserting_audio", "upserting_lyrics", "announcing", "deleting"}
Searchable == audio \cap lyrics

Fault == faults < MaxFaults /\ faults' = faults + 1

Goto(h, phase) == pc' = [pc EXCEPT ![h] = phase]

Init == /\ sent = {}
        /\ originals = Tracks
        /\ recq = [t \in Tracks |-> 0]
        /\ recdlq = {}
        /\ indexedq = [t \in Tracks |-> 0]
        /\ audio = {} /\ lyrics = {}
        /\ synced = {}
        /\ up = FALSE
        /\ pc = [h \in Handlers |-> "idle"]
        /\ track = [h \in Handlers |-> NoTrack]
        /\ tagged = {}
        /\ erred = {}
        /\ faults = 0

\* The pipeline's rec publish, once for a completed job.
PublishTrack(t) ==
  /\ t \notin sent
  /\ sent' = sent \cup {t}
  /\ recq' = [recq EXCEPT ![t] = @ + 1]
  /\ UNCHANGED <<originals, recdlq, indexedq, pointVars, synced, up, handlerVars, erred, faults>>

-----------------------------------------------------------------------------
(* rec-service: RecConsumer.on_message and RecIndexer.index *)

\* Mutants: an empty queue delivers; a delivery that needs no acknowledgement.
DeliverNothing(h, t) ==
  /\ up
  /\ pc[h] = "idle"
  /\ tagged = {}
  /\ recq' = [recq EXCEPT ![t] = @ - 1]
  /\ tagged' = tagged \cup {h}
  /\ track' = [track EXCEPT ![h] = t]
  /\ Goto(h, "downloading")
  /\ UNCHANGED <<sent, originals, recdlq, indexedq, pointVars, synced, up, erred, faults>>

DeliverUntagged(h, t) ==
  /\ up
  /\ pc[h] = "idle"
  /\ recq[t] > 0
  /\ recq' = [recq EXCEPT ![t] = @ - 1]
  /\ track' = [track EXCEPT ![h] = t]
  /\ Goto(h, "downloading")
  /\ UNCHANGED <<sent, originals, recdlq, indexedq, pointVars, synced, up, tagged, erred, faults>>

\* prefetch_count=1
Deliver(h, t) ==
  /\ up
  /\ pc[h] = "idle"
  /\ tagged = {}
  /\ recq[t] > 0
  /\ recq' = [recq EXCEPT ![t] = @ - 1]
  /\ tagged' = tagged \cup {h}
  /\ track' = [track EXCEPT ![h] = t]
  /\ Goto(h, "downloading")
  /\ UNCHANGED <<sent, originals, recdlq, indexedq, pointVars, synced, up, erred, faults>>

\* The original is there, or the download raises.
Download(h) ==
  /\ pc[h] = "downloading"
  /\ Goto(h, IF track[h] \in originals THEN "upserting_audio" ELSE "nacking")
  /\ UNCHANGED <<sent, originals, queueVars, pointVars, synced, up, track, tagged, erred, faults>>

\* Mutant: the track is announced after its first point.
UpsertAudioOnly(h) ==
  /\ pc[h] = "upserting_audio"
  /\ audio' = audio \cup {track[h]}
  /\ Goto(h, "announcing")
  /\ UNCHANGED <<sent, originals, queueVars, lyrics, synced, up, track, tagged, erred, faults>>

\* Feature extraction, embedding, cluster assignment, then the first upsert.
UpsertAudio(h) ==
  /\ pc[h] = "upserting_audio"
  /\ audio' = audio \cup {track[h]}
  /\ Goto(h, "upserting_lyrics")
  /\ UNCHANGED <<sent, originals, queueVars, lyrics, synced, up, track, tagged, erred, faults>>

UpsertLyrics(h) ==
  /\ pc[h] = "upserting_lyrics"
  /\ lyrics' = lyrics \cup {track[h]}
  /\ Goto(h, "announcing")
  /\ UNCHANGED <<sent, originals, queueVars, audio, synced, up, track, tagged, erred, faults>>

PublishIndexed(h) ==
  /\ pc[h] = "announcing"
  /\ indexedq' = [indexedq EXCEPT ![track[h]] = @ + 1]
  /\ Goto(h, "deleting")
  /\ UNCHANGED <<sent, originals, recq, recdlq, pointVars, synced, up, track, tagged, erred, faults>>

\* Mutant: the original goes as soon as it has been downloaded.
DeleteEarly(h) ==
  /\ pc[h] \in {"upserting_audio", "deleting"}
  /\ originals' = originals \ {track[h]}
  /\ IF pc[h] = "deleting" THEN Goto(h, "acking") ELSE UNCHANGED pc
  /\ UNCHANGED <<sent, queueVars, pointVars, synced, up, track, tagged, erred, faults>>

DeleteOriginal(h) ==
  /\ pc[h] = "deleting"
  /\ originals' = originals \ {track[h]}
  /\ Goto(h, "acking")
  /\ UNCHANGED <<sent, queueVars, pointVars, synced, up, track, tagged, erred, faults>>

\* S3, QDrant, the broker or a model raises.
IndexRaises(h) ==
  /\ Fault
  /\ pc[h] \in Indexing
  /\ Goto(h, "nacking")
  /\ erred' = erred \cup {track[h]}
  /\ UNCHANGED <<sent, originals, queueVars, pointVars, synced, up, track, tagged>>

Settle(h) ==
  /\ Goto(h, "idle")
  /\ track' = [track EXCEPT ![h] = NoTrack]
  /\ tagged' = tagged \ {h}

Ack(h) ==
  /\ pc[h] = "acking"
  /\ Settle(h)
  /\ UNCHANGED <<sent, originals, queueVars, pointVars, synced, up, erred, faults>>

\* process(requeue=False): an exception rejects the message, which is dead-lettered.
Reject(h) ==
  /\ pc[h] = "nacking"
  /\ Settle(h)
  /\ recdlq' = IF h \in tagged THEN recdlq \cup {track[h]} ELSE recdlq
  /\ UNCHANGED <<sent, originals, recq, indexedq, pointVars, synced, up, erred, faults>>

\* The broker puts back the open delivery.
Redeliver ==
  /\ recq' = [t \in Tracks |->
                IF \E h \in tagged : track[h] = t THEN recq[t] + 1 ELSE recq[t]]
  /\ tagged' = {}

ChannelLost ==
  /\ Fault
  /\ tagged # {}
  /\ Redeliver
  /\ UNCHANGED <<sent, originals, recdlq, indexedq, pointVars, synced, up, pc, track, erred>>

\* x-message-ttl: the broker drops what has been in rec.dlq for 72 hours.  The
\* model does not measure them, a dead letter may go at any time.
DropDead(t) ==
  /\ t \in recdlq
  /\ recdlq' = recdlq \ {t}
  /\ UNCHANGED <<sent, originals, recq, indexedq, pointVars, synced, up, handlerVars, erred, faults>>

Crash ==
  /\ Fault
  /\ up
  /\ up' = FALSE
  /\ Redeliver
  /\ pc' = [h \in Handlers |-> "idle"]
  /\ track' = [h \in Handlers |-> NoTrack]
  /\ UNCHANGED <<sent, originals, recdlq, indexedq, pointVars, synced, erred>>

Start ==
  /\ ~up
  /\ up' = TRUE
  /\ UNCHANGED <<sent, originals, queueVars, pointVars, synced, handlerVars, erred, faults>>

-----------------------------------------------------------------------------
(* Backend: the rec.indexed consumer *)

MarkSynced(t) ==
  /\ indexedq[t] > 0
  /\ indexedq' = [indexedq EXCEPT ![t] = @ - 1]
  /\ synced' = synced \cup {t}
  /\ UNCHANGED <<sent, originals, recq, recdlq, pointVars, up, handlerVars, erred, faults>>

\* The exception is logged inside message.process: the message is acknowledged.
MarkSyncedRaises(t) ==
  /\ Fault
  /\ indexedq[t] > 0
  /\ indexedq' = [indexedq EXCEPT ![t] = @ - 1]
  /\ erred' = erred \cup {t}
  /\ UNCHANGED <<sent, originals, recq, recdlq, pointVars, synced, up, handlerVars>>

-----------------------------------------------------------------------------
Index(h) == \/ Download(h) \/ UpsertAudio(h) \/ UpsertLyrics(h) \/ PublishIndexed(h)
            \/ DeleteOriginal(h) \/ Ack(h) \/ Reject(h)

Next == \/ \E t \in Tracks : PublishTrack(t) \/ MarkSynced(t) \/ MarkSyncedRaises(t) \/ DropDead(t)
        \/ \E h \in Handlers, t \in Tracks : Deliver(h, t)
        \/ \E h \in Handlers : Index(h) \/ IndexRaises(h)
        \/ ChannelLost \/ Crash \/ Start

Spec == Init /\ [][Next]_vars

\* The event loops run, the broker delivers, the container is restarted.
FairSpec == /\ Spec
            /\ \A h \in Handlers : WF_vars(Index(h))
            /\ \A t \in Tracks : WF_vars(MarkSynced(t))
            /\ WF_vars(\E h \in Handlers, t \in Tracks : Deliver(h, t))
            /\ WF_vars(Start)

-----------------------------------------------------------------------------
(* Properties *)

TypeOK ==
  /\ sent \subseteq Tracks /\ originals \subseteq Tracks
  /\ recq \in [Tracks -> Nat] /\ indexedq \in [Tracks -> Nat]
  /\ recdlq \subseteq Tracks
  /\ audio \subseteq Tracks /\ lyrics \subseteq Tracks
  /\ synced \subseteq Tracks /\ erred \subseteq Tracks
  /\ up \in BOOLEAN
  /\ pc \in [Handlers -> Indexing \cup {"idle", "acking", "nacking"}]
  /\ track \in [Handlers -> Tracks \cup {NoTrack}]
  /\ tagged \subseteq Handlers
  /\ faults \in 0..MaxFaults

\* The original MP3, which cannot be had again, is deleted only when both points
\* of its track are stored and the backend knows it or is about to.
OriginalOutlivesIndexing ==
  \A t \in Tracks \ originals :
    t \in Searchable /\ (t \in synced \/ indexedq[t] > 0 \/ t \in erred)

\* Only a searchable track is marked, or about to be marked, as synced.
SyncedIsSearchable ==
  \A t \in Tracks : t \in synced \/ indexedq[t] > 0 => t \in Searchable

\* A message that is dead-lettered although no call failed belongs to a track that
\* is searchable: it was delivered again after its original was deleted.
DeadLettersAreDone == recdlq \subseteq erred \cup Searchable

\* Every published track becomes searchable and synced, over crashes and
\* redeliveries, unless one of the calls made for it failed.
EveryTrackIsIndexed ==
  \A t \in Tracks : t \in sent ~> t \in erred \/ t \in Searchable \cap synced
=============================================================================
