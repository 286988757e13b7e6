------------------------- MODULE RecIndexingProofs -------------------------
(***************************************************************************)
(* Proofs about RecIndexing, for any tracks, handlers and number of faults. *)
(*                                                                          *)
(* Points are never removed from QDrant and nothing told to the backend is  *)
(* forgotten unnoticed, so what a handler has done stays done while it goes *)
(* on; HandlerFacts says what each place of its program implies about the   *)
(* track, and the three safety properties follow from it at the steps that  *)
(* delete, announce and reject.                                             *)
(***************************************************************************)
EXTENDS RecIndexing, TLAPS

\* The backend has marked the track, has the message to do so, or a call failed.
Told(t) == t \in synced \/ indexedq[t] > 0 \/ t \in erred

\* What a handler's place says about the track of its message.
HandlerFacts ==
  \A h \in Handlers :
    /\ pc[h] # "idle" => track[h] \in Tracks
    /\ pc[h] = "upserting_lyrics" => track[h] \in audio
    /\ pc[h] \in {"announcing", "deleting", "acking"} => track[h] \in Searchable
    /\ pc[h] \in {"deleting", "acking"} => Told(track[h])
    /\ pc[h] = "nacking" => track[h] \in erred \cup Searchable

Safe == OriginalOutlivesIndexing /\ SyncedIsSearchable /\ DeadLettersAreDone

IInv == TypeOK /\ HandlerFacts /\ Safe

-----------------------------------------------------------------------------
\* No track is announced, deleted or dead-lettered in the initial state.
LEMMA InitInv == Init => IInv
<1> SUFFICES ASSUME Init  PROVE IInv
  OBVIOUS
<1> USE FaultsAssumption DEF Init
<1>1. TypeOK
  <2>1. recq \in [Tracks -> Nat] /\ indexedq \in [Tracks -> Nat] /\ faults \in 0..MaxFaults
    OBVIOUS
  <2>2. /\ pc \in [Handlers -> Indexing \cup {"idle", "acking", "nacking"}]
        /\ track \in [Handlers -> Tracks \cup {NoTrack}]
    OBVIOUS
  <2> QED BY <2>1, <2>2 DEF TypeOK
<1>2. HandlerFacts
  BY DEF HandlerFacts
<1>3. Safe
  BY DEF Safe, OriginalOutlivesIndexing, SyncedIsSearchable, DeadLettersAreDone
<1> QED BY <1>1, <1>2, <1>3 DEF IInv

\* The pipeline, the broker and the process itself touch no handler's work.
LEMMA OutsideStep ==
  ASSUME IInv,
         \/ \E t \in Tracks : PublishTrack(t) \/ DropDead(t)
         \/ ChannelLost \/ Crash \/ Start
  PROVE  IInv'
<1> USE FaultsAssumption DEF IInv, TypeOK, HandlerFacts, Safe, OriginalOutlivesIndexing,
        SyncedIsSearchable, DeadLettersAreDone, Searchable, Indexing, Told, Fault
<1>1. ASSUME NEW t \in Tracks, PublishTrack(t)  PROVE IInv'
  <2> USE <1>1 DEF PublishTrack, pointVars, handlerVars
  <2>1. TypeOK' OBVIOUS
  <2>2. (HandlerFacts /\ Safe)' OBVIOUS
  <2> QED BY <2>1, <2>2
<1>2. CASE ChannelLost
  BY <1>2 DEF ChannelLost, Redeliver, pointVars
<1>3. CASE Crash
  <2>1. /\ recq' \in [Tracks -> Nat]
        /\ tagged' \subseteq Handlers
    BY <1>3 DEF Crash, Redeliver
  <2>2. /\ pc' \in [Handlers -> Indexing \cup {"idle", "acking", "nacking"}]
        /\ track' \in [Handlers -> Tracks \cup {NoTrack}]
    BY <1>3 DEF Crash
  <2>3. UNCHANGED <<sent, originals, recdlq, indexedq, audio, lyrics, synced, erred>>
    BY <1>3 DEF Crash, pointVars
  <2>4. \A h \in Handlers : pc'[h] = "idle"
    BY <1>3 DEF Crash
  <2>5. /\ up' \in BOOLEAN
        /\ faults' \in 0..MaxFaults
    <3>1. up' = FALSE
      BY <1>3 DEF Crash
    <3>2. faults' \in 0..MaxFaults
      BY <1>3 DEF Crash
    <3> QED BY <3>1, <3>2
  <2>6. TypeOK'
    BY <2>1, <2>2, <2>3, <2>5
  <2>7. (HandlerFacts /\ Safe)'
    BY <2>3, <2>4
  <2> QED BY <2>6, <2>7
<1>4. CASE Start
  BY <1>4 DEF Start, queueVars, pointVars, handlerVars
<1>5. ASSUME NEW t \in Tracks, DropDead(t)  PROVE IInv'
  BY <1>5 DEF DropDead, pointVars, handlerVars
<1> QED BY <1>1, <1>2, <1>3, <1>4, <1>5

\* A message goes to the backend's knowledge, or to the failed calls.
LEMMA BackendStep ==
  ASSUME IInv, NEW t \in Tracks, MarkSynced(t) \/ MarkSyncedRaises(t)
  PROVE  IInv'
<1> USE FaultsAssumption DEF IInv, TypeOK, HandlerFacts, Safe, OriginalOutlivesIndexing,
        SyncedIsSearchable, DeadLettersAreDone, Searchable, Indexing, Told, Fault
<1>1. CASE MarkSynced(t)
  BY <1>1 DEF MarkSynced, pointVars, handlerVars
<1>2. CASE MarkSyncedRaises(t)
  BY <1>2 DEF MarkSyncedRaises, pointVars, handlerVars
<1> QED BY <1>1, <1>2

\* One step of a handler: each place's facts give those of the next.
LEMMA HandlerStep ==
  ASSUME IInv, NEW h \in Handlers,
         \/ \E t \in Tracks : Deliver(h, t)
         \/ Index(h) \/ IndexRaises(h)
  PROVE  IInv'
<1> USE FaultsAssumption DEF IInv, TypeOK, HandlerFacts, Safe, OriginalOutlivesIndexing,
        SyncedIsSearchable, DeadLettersAreDone, Searchable, Indexing, Told, Goto
<1>1. ASSUME NEW t \in Tracks, Deliver(h, t)  PROVE IInv'
  BY <1>1 DEF Deliver, pointVars
<1>2. CASE Download(h)
  BY <1>2 DEF Download, queueVars, pointVars
<1>3. CASE UpsertAudio(h)
  BY <1>3 DEF UpsertAudio, queueVars
<1>4. CASE UpsertLyrics(h)
  BY <1>4 DEF UpsertLyrics, queueVars
<1>5. CASE PublishIndexed(h)
  BY <1>5 DEF PublishIndexed, pointVars
<1>6. CASE DeleteOriginal(h)
  BY <1>6 DEF DeleteOriginal, queueVars, pointVars
<1>7. CASE Ack(h)
  BY <1>7 DEF Ack, Settle, queueVars, pointVars
<1>8. CASE Reject(h)
  BY <1>8 DEF Reject, Settle, pointVars
<1>9. CASE IndexRaises(h)
  BY <1>9 DEF IndexRaises, Fault, queueVars, pointVars
<1> QED BY <1>1, <1>2, <1>3, <1>4, <1>5, <1>6, <1>7, <1>8, <1>9 DEF Index

\* The invariant is inductive.
LEMMA NextInv == IInv /\ [Next]_vars => IInv'
<1> SUFFICES ASSUME IInv, [Next]_vars  PROVE IInv'
  OBVIOUS
<1>1. CASE Next
  BY <1>1, OutsideStep, BackendStep, HandlerStep DEF Next
<1>2. CASE UNCHANGED vars
  BY <1>2 DEF vars, queueVars, pointVars, handlerVars, IInv, TypeOK, HandlerFacts, Safe,
     OriginalOutlivesIndexing, SyncedIsSearchable, DeadLettersAreDone, Searchable, Told
<1> QED BY <1>1, <1>2

-----------------------------------------------------------------------------
\* The invariant holds in every reachable state.
THEOREM Invariance == Spec => []IInv
<1> QED BY InitInv, NextInv, PTL DEF Spec

\* rec-service and backend keep every variable's type; no queue goes below empty.
THEOREM TypeCorrect == Spec => []TypeOK
<1>1. IInv => TypeOK
  BY DEF IInv
<1> QED BY Invariance, <1>1, PTL

\* RecIndexer.index deletes an original only when its track is stored and announced.
THEOREM OriginalKept == Spec => []OriginalOutlivesIndexing
<1>1. IInv => OriginalOutlivesIndexing
  BY DEF IInv, Safe
<1> QED BY Invariance, <1>1, PTL

\* A track the backend marks as synced has both its points.
THEOREM SyncedSearchable == Spec => []SyncedIsSearchable
<1>1. IInv => SyncedIsSearchable
  BY DEF IInv, Safe
<1> QED BY Invariance, <1>1, PTL

\* A message rejected into rec.dlq without a failing call is about a searchable track.
THEOREM DeadLettersDone == Spec => []DeadLettersAreDone
<1>1. IInv => DeadLettersAreDone
  BY DEF IInv, Safe
<1> QED BY Invariance, <1>1, PTL
=============================================================================
