----------------------------- MODULE PlayQueue -----------------------------
(***************************************************************************)
(* The play queue of one session.  Browsers send requests to add a song,    *)
(* skip a turn, start and finish a song, play at once and delete an entry;  *)
(* an administrator ends the session.  A request is a sequence of database  *)
(* statements, each a transaction of its own: requests interleave between   *)
(* any two of them, and one that fails leaves what it has written.          *)
(*                                                                          *)
(* A browser may address any entry it has ever seen, a deleted one too.     *)
(***************************************************************************)
EXTENDS Naturals, FiniteSets, FiniteSetsExt

CONSTANTS Requests,   \* slots for requests in progress
          Entries,    \* ids of queue entries
          Singers, Tracks,
          NoEntry, NoSong,
          MaxRequests, \* bound: requests that come
          MaxFaults   \* bound: requests that fail halfway

Songs == Singers \X Tracks

ASSUME EntriesAssumption == IsFiniteSet(Entries) /\ NoEntry \notin Entries
ASSUME SlotsAssumption == IsFiniteSet(Requests)
ASSUME SongsAssumption == NoSong \notin Songs
ASSUME BoundsAssumption == MaxRequests \in Nat /\ MaxFaults \in Nat

VARIABLES
  session,    \* sessions.status
  status,     \* queue_entries.status, "none" before the INSERT, "deleted" after
  position,   \* queue_entries.order_position
  song,       \* queue_entries.participant_id and track_id
  history,    \* [Entries -> play_history records written when it was finished]
  playCount,  \* tracks.play_count
  played,     \* participants.tracks_played
  op,         \* [Requests -> the operation asked for]
  pc,         \* [Requests -> its next statement]
  at,         \* [Requests -> the entry it is about]
  ask,        \* [Requests -> the singer and track it inserts]
  place,      \* [Requests -> the order_position its INSERT uses]
  came,       \* requests so far
  faults,     \* requests that failed halfway
  turn,       \* past: [Entries -> the entry its singer's turn began with]
  seen,       \* past: [Requests -> rows there when it came]
  gone        \* past: turns deleted on request or lost by a failed request

rowVars   == <<session, status, position, song>>
countVars == <<history, playCount, played>>
argVars   == <<op, at, ask, place, seen>>
pastVars  == <<turn, gone>>
vars == <<rowVars, countVars, argVars, pc, came, faults, pastVars>>

Places == 1..Cardinality(Entries)
Rows   == {e \in Entries : status[e] \notin {"none", "deleted"}}
Unused == {e \in Entries : status[e] = "none"}

Goto(r, phase) == pc' = [pc EXCEPT ![r] = phase]

Init == /\ session = "active"
        /\ status = [e \in Entries |-> "none"]
        /\ position = [e \in Entries |-> 0]
        /\ song = [e \in Entries |-> NoSong]
        /\ history = [e \in Entries |-> 0]
        /\ playCount = [t \in Tracks |-> 0]
        /\ played = [p \in Singers |-> 0]
        /\ op = [r \in Requests |-> "none"]
        /\ pc = [r \in Requests |-> "idle"]
        /\ at = [r \in Requests |-> NoEntry]
        /\ ask = [r \in Requests |-> NoSong]
        /\ place = [r \in Requests |-> 0]
        /\ came = 0 /\ faults = 0
        /\ turn = [e \in Entries |-> e]
        /\ seen = [r \in Requests |-> {}]
        /\ gone = {}

-----------------------------------------------------------------------------
(* Requests come and go; a request comes with its first statement *)

Come(r, o, phase, e, s) ==
  /\ came < MaxRequests
  /\ came' = came + 1
  /\ pc[r] = "idle"
  /\ Goto(r, phase)
  /\ op' = [op EXCEPT ![r] = o]
  /\ at' = [at EXCEPT ![r] = e]
  /\ ask' = [ask EXCEPT ![r] = s]
  /\ seen' = [seen EXCEPT ![r] = Rows]
  /\ UNCHANGED <<rowVars, countVars, place, faults, pastVars>>

\* Bound: every INSERT under way has an id to use.
RoomToInsert ==
  Cardinality({r \in Requests : op[r] \in {"add", "play", "skip"}}) < Cardinality(Unused)

\* Mutant: the status of the session is not looked at.
AddRequestAnytime(r, o, s) ==
  /\ o \in {"add", "play"}
  /\ RoomToInsert
  /\ Come(r, o, "placing", NoEntry, s)

\* add_to_queue and direct_play: get_session, 409 unless it is active.
AddRequest(r, o, s) ==
  /\ o \in {"add", "play"}
  /\ session = "active"
  /\ RoomToInsert
  /\ Come(r, o, "placing", NoEntry, s)

\* Mutant: the new entry does not get the old one's singer and track.
SkipRequestBlank(r, e) == /\ e \in Rows
                          /\ RoomToInsert
                          /\ Come(r, "skip", "skipping", e, NoSong)

\* get_queue_entry, 404 unless it is there; what it returns is kept.
SkipRequest(r, e) == /\ e \in Rows
                     /\ RoomToInsert
                     /\ Come(r, "skip", "skipping", e, song[e])

StartRequest(r, e) == e \in Rows /\ Come(r, "start", "starting", e, song[e])

DeleteRequest(r, e) == e \in Rows /\ Come(r, "delete", "deleting", e, song[e])

\* The route reads the entry, and then finish_playing does.
FinishRequest(r, e) == e \in Rows /\ Come(r, "finish", "rereading", e, song[e])

\* The response is sent, or an exception is.
Leave(r) ==
  /\ Goto(r, "idle")
  /\ op' = [op EXCEPT ![r] = "none"]
  /\ at' = [at EXCEPT ![r] = NoEntry]
  /\ ask' = [ask EXCEPT ![r] = NoSong]
  /\ place' = [place EXCEPT ![r] = 0]
  /\ seen' = [seen EXCEPT ![r] = {}]

\* A statement fails, or the backend stops: the rest of the request is not done.
Fail(r) ==
  /\ faults < MaxFaults
  /\ faults' = faults + 1
  /\ pc[r] # "idle"
  /\ Leave(r)
  /\ gone' = IF op[r] = "skip" /\ pc[r] \in {"placing", "inserting"}
             THEN gone \cup {turn[at[r]]} ELSE gone
  /\ UNCHANGED <<rowVars, countVars, came, turn>>

-----------------------------------------------------------------------------
(* The statements that follow *)

\* UPDATE ... SET status WHERE id: it changes no row when there is none.
SetStatus(e, new) == status' = IF e \in Rows THEN [status EXCEPT ![e] = new] ELSE status

\* Mutant: the number of rows instead of the greatest position.
NextPlaceByCount(p) == p = Cardinality(Rows) + 1

\* The INSERT's subselect, COALESCE(MAX(order_position), 0) + 1, sees the rows
\* committed when the statement began.
NextPlace(p) == /\ \A e \in Rows : position[e] < p
                /\ p = 1 \/ \E e \in Rows : position[e] + 1 = p

ReadMax(r) ==
  /\ pc[r] = "placing"
  /\ \E p \in Places : NextPlace(p) /\ place' = [place EXCEPT ![r] = p]
  /\ Goto(r, "inserting")
  /\ UNCHANGED <<rowVars, countVars, op, at, ask, seen, came, faults, pastVars>>

\* A skipped turn goes on in the new entry.  The row is read back at once; of the
\* three operations only direct_play goes on, and not if it is gone already.
TurnOf(r, e) == IF op[r] = "skip" THEN turn[at[r]] ELSE e

Insert(r, e) ==
  /\ pc[r] = "inserting"
  /\ e \in Unused
  /\ status' = [status EXCEPT ![e] = "queued"]
  /\ position' = [position EXCEPT ![e] = place[r]]
  /\ song' = [song EXCEPT ![e] = ask[r]]
  /\ turn' = [turn EXCEPT ![e] = TurnOf(r, e)]
  /\ IF op[r] = "play"
     THEN /\ Goto(r, "rereading")
          /\ at' = [at EXCEPT ![r] = e]
          /\ UNCHANGED <<op, ask, place, seen>>
     ELSE Leave(r)
  /\ UNCHANGED <<session, countVars, came, faults, gone>>

\* The second read: create_queue_entry's own, or the one of finish_playing.
ReadAgain(r) ==
  /\ pc[r] = "rereading"
  /\ IF at[r] \in Rows
     THEN Goto(r, IF op[r] = "play" THEN "starting" ELSE "finishing") /\ UNCHANGED argVars
     ELSE Leave(r)
  /\ UNCHANGED <<rowVars, countVars, came, faults, pastVars>>

\* Mutant: the turn is marked and nothing is inserted for it.
MarkSkippedOnly(r) ==
  /\ pc[r] = "skipping"
  /\ SetStatus(at[r], "skipped")
  /\ Leave(r)
  /\ UNCHANGED <<session, position, song, countVars, came, faults, pastVars>>

MarkSkipped(r) ==
  /\ pc[r] = "skipping"
  /\ SetStatus(at[r], "skipped")
  /\ Goto(r, "placing")
  /\ UNCHANGED <<session, position, song, countVars, argVars, came, faults, pastVars>>

MarkPlaying(r) ==
  /\ pc[r] = "starting"
  /\ SetStatus(at[r], "playing")
  /\ Leave(r)
  /\ UNCHANGED <<session, position, song, countVars, came, faults, pastVars>>

MarkDone(r) ==
  /\ pc[r] = "finishing"
  /\ SetStatus(at[r], "done")
  /\ Goto(r, "recording")
  /\ UNCHANGED <<session, position, song, countVars, argVars, came, faults, pastVars>>

\* Mutants: the play is counted and not recorded; the track is not counted.
RecordNothing(r) ==
  /\ pc[r] = "recording"
  /\ Goto(r, "counting_track")
  /\ UNCHANGED <<rowVars, countVars, argVars, came, faults, pastVars>>

RecordUncounted(r) ==
  /\ pc[r] = "recording"
  /\ history' = [history EXCEPT ![at[r]] = @ + 1]
  /\ Goto(r, "counting_singer")
  /\ UNCHANGED <<rowVars, playCount, played, argVars, came, faults, pastVars>>

RecordPlay(r) ==
  /\ pc[r] = "recording"
  /\ history' = [history EXCEPT ![at[r]] = @ + 1]
  /\ Goto(r, "counting_track")
  /\ UNCHANGED <<rowVars, playCount, played, argVars, came, faults, pastVars>>

CountTrack(r) ==
  /\ pc[r] = "counting_track"
  /\ playCount' = [playCount EXCEPT ![ask[r][2]] = @ + 1]
  /\ Goto(r, "counting_singer")
  /\ UNCHANGED <<rowVars, history, played, argVars, came, faults, pastVars>>

\* The last statement that writes; the next entry is read and returned.
CountSinger(r) ==
  /\ pc[r] = "counting_singer"
  /\ played' = [played EXCEPT ![ask[r][1]] = @ + 1]
  /\ Leave(r)
  /\ UNCHANGED <<rowVars, history, playCount, came, faults, pastVars>>

Delete(r) ==
  /\ pc[r] = "deleting"
  /\ SetStatus(at[r], "deleted")
  /\ gone' = IF at[r] \in Rows /\ status[at[r]] # "skipped"
             THEN gone \cup {turn[at[r]]} ELSE gone
  /\ Leave(r)
  /\ UNCHANGED <<session, position, song, countVars, came, faults, turn>>

\* terminate_session, by the administrator.
Terminate ==
  /\ session' = "terminated"
  /\ UNCHANGED <<status, position, song, countVars, argVars, pc, came, faults, pastVars>>

-----------------------------------------------------------------------------
Arrive(r) == \/ \E o \in {"add", "play"}, s \in Songs : AddRequest(r, o, s)
             \/ \E e \in Entries : \/ SkipRequest(r, e) \/ StartRequest(r, e)
                                   \/ FinishRequest(r, e) \/ DeleteRequest(r, e)

Statement(r) == \/ ReadMax(r) \/ (\E e \in Entries : Insert(r, e)) \/ ReadAgain(r)
                \/ MarkSkipped(r) \/ MarkPlaying(r) \/ MarkDone(r) \/ Delete(r)
                \/ RecordPlay(r) \/ CountTrack(r) \/ CountSinger(r)

Next == Terminate \/ \E r \in Requests : Arrive(r) \/ Statement(r) \/ Fail(r)

Spec == Init /\ [][Next]_vars

-----------------------------------------------------------------------------
(* What the clients are told *)

\* get_queue: the first of the active entries by position; entries that share a
\* position come in any order.
Listed == {e \in Entries : status[e] \in {"queued", "playing"}}
MayBeCurrent(e) == e \in Listed /\ \A d \in Listed : position[e] <= position[d]

-----------------------------------------------------------------------------
(* Properties *)

Phases == {"idle", "rereading", "placing", "inserting", "starting",
           "skipping", "finishing", "recording", "counting_track", "counting_singer", "deleting"}

TypeOK ==
  /\ session \in {"active", "terminated"}
  /\ status \in [Entries -> {"none", "queued", "playing", "done", "skipped", "deleted"}]
  /\ position \in [Entries -> {0} \cup Places]
  /\ song \in [Entries -> Songs \cup {NoSong}]
  /\ \A e \in Rows : position[e] \in Places /\ song[e] \in Songs
  /\ history \in [Entries -> Nat]
  /\ playCount \in [Tracks -> Nat]
  /\ played \in [Singers -> Nat]
  /\ op \in [Requests -> {"none", "add", "play", "skip", "start", "finish", "delete"}]
  /\ pc \in [Requests -> Phases]
  /\ at \in [Requests -> Entries \cup {NoEntry}]
  /\ ask \in [Requests -> Songs \cup {NoSong}]
  /\ place \in [Requests -> {0} \cup Places]
  /\ came \in 0..MaxRequests /\ faults \in 0..MaxFaults
  /\ turn \in [Entries -> Entries]
  /\ seen \in [Requests -> SUBSET Entries]
  /\ gone \subseteq Entries

\* A singer's turn is never lost: whoever skips, starts, finishes or deletes its
\* entries at the same time, one of them still stands or was sung, for the same
\* singer and song -- unless a request deleted it or a skip failed halfway.
NoTurnLost ==
  \A e \in Entries :
    status[e] # "none" /\ turn[e] \notin gone =>
      \/ \E d \in Rows : turn[d] = turn[e] /\ song[d] = song[e] /\ status[d] # "skipped"
      \/ \E r \in Requests : /\ op[r] = "skip" /\ pc[r] \in {"placing", "inserting"}
                             /\ turn[at[r]] = turn[e] /\ ask[r] = song[e]

\* The queue keeps the order of arrival: a request puts its entry behind every row
\* that was there when it came, whatever is inserted or deleted meanwhile.
ArrivalOrder ==
  [][\A r \in Requests, e \in Unused :
       pc[r] = "inserting" /\ pc'[r] # pc[r] /\ status'[e] = "queued" =>
         \A d \in seen[r] \cap Rows : position[d] < position'[e]]_vars

\* After the end of the session no new turn enters its queue, but for the requests
\* that were already admitted; skips only prolong old turns.
Turns == {turn[e] : e \in Entries \ Unused}
Admitted == {r \in Requests : op[r] \in {"add", "play"} /\ pc[r] \in {"placing", "inserting"}}
NoTurnAfterTheEnd ==
  [][session = "terminated" => /\ Turns' = Turns \/ Admitted' # Admitted
                               /\ Admitted' \subseteq Admitted]_vars

\* Songs that are marked as done, not in the history and about to be recorded by nobody.
Unrecorded ==
  {e \in Entries : status[e] = "done" /\ history[e] = 0
                     /\ ~ \E r \in Requests : pc[r] = "recording" /\ at[r] = e}

\* A song that is marked as done is in the history, or is about to be: each request
\* that failed halfway costs at most one record, and none is missing otherwise.
DoneIsRecorded == Cardinality(Unrecorded) <= faults

\* What was recorded of some entries, and the requests that have yet to count one of them.
Plays(S)       == MapThenSumSet(LAMBDA e : history[e], S)
UnderWay(S, P) == {r \in Requests : pc[r] \in P /\ at[r] \in S}
OfTrack(t)     == {e \in Entries : song[e] # NoSong /\ song[e][2] = t}
OfSinger(p)    == {e \in Entries : song[e] # NoSong /\ song[e][1] = p}
Counted(n, S, P) == Plays(S) = n + Cardinality(UnderWay(S, P))

\* The counters of tracks and singers are the number of history records, but for the
\* requests that are about to count.  Nothing is counted twice or without a record, and
\* each request that failed halfway loses at most one count of a track and of a singer.
CountersFollowHistory ==
  /\ \A t \in Tracks : \E lost \in 0..faults :
       Counted(playCount[t] + lost, OfTrack(t), {"counting_track"})
  /\ \A p \in Singers : \E lost \in 0..faults :
       Counted(played[p] + lost, OfSinger(p), {"counting_track", "counting_singer"})

\* api/v1/queue.py: the current entry is the one that is playing.
CurrentIsPlaying ==
  (\E e \in Listed : status[e] = "playing") =>
    \A e \in Listed : MayBeCurrent(e) => status[e] = "playing"
=============================================================================
