-------------------------- MODULE PlayQueueProofs --------------------------
(***************************************************************************)
(* Proofs about PlayQueue, for any number of requests, entries, singers and *)
(* songs.                                                                   *)
(*                                                                          *)
(* Rows of a turn carry one song (SongInv), and a request keeps what it     *)
(* read of an entry, whose song never changes (RequestInv); so when a skip  *)
(* takes the last standing entry of a turn out of the queue, the request    *)
(* itself stands for the turn until its INSERT.  A position read for an     *)
(* INSERT stays behind every row the request had found, because positions   *)
(* never change and new rows were not among them (PlaceInv).                *)
(***************************************************************************)
EXTENDS PlayQueue, OrderLemmas

\* Entries that are or were rows: their songs and turns.
SongInv ==
  /\ \A e \in Unused : turn[e] = e
  /\ \A e \in Entries \ Unused : /\ song[e] \in Songs
                                 /\ turn[e] \in Entries \ Unused
                                 /\ song[turn[e]] = song[e]

\* What a request in progress knows.
RequestInv ==
  \A r \in Requests :
    /\ pc[r] = "skipping" => op[r] = "skip"
    /\ pc[r] \in {"placing", "inserting"} =>
         op[r] \in {"add", "play", "skip"} /\ ask[r] \in Songs
    /\ op[r] = "skip" \/ pc[r] \in {"finishing", "recording", "counting_track",
                                    "counting_singer", "starting", "deleting"} =>
         /\ at[r] \in Entries \ Unused
         /\ ask[r] = song[at[r]]
    /\ pc[r] = "rereading" => /\ op[r] \in {"play", "finish"}
                              /\ at[r] \in Entries \ Unused
                              /\ ask[r] = song[at[r]]

\* A place that was read is behind the rows the request had found.
PlaceInv ==
  \A r \in Requests :
    /\ seen[r] \subseteq Entries \ Unused
    /\ pc[r] = "inserting" => /\ place[r] \in Places
                              /\ \A d \in seen[r] \cap Rows : position[d] < place[r]

IInv == TypeOK /\ SongInv /\ RequestInv /\ PlaceInv

USE EntriesAssumption, SongsAssumption, BoundsAssumption DEF Songs

-----------------------------------------------------------------------------
\* Positions are natural numbers.
LEMMA PlacesAreNumbers == Places \subseteq Nat \ {0}
BY FS_CardinalityType DEF Places

\* In the empty queue there is nothing to relate.
LEMMA InitInv == Init => IInv
BY DEF Init, IInv, TypeOK, SongInv, RequestInv, PlaceInv, Rows, Unused, Phases

\* A request arrives, and has read the row it is about.
LEMMA ArriveStep ==
  ASSUME IInv, NEW r \in Requests, Arrive(r)
  PROVE  IInv'
<1> USE DEF IInv
<1>1. PICK o \in {"add", "play", "skip", "start", "finish", "delete"},
           phase \in {"placing", "skipping", "starting", "rereading", "deleting"},
           e \in Entries \cup {NoEntry}, s \in Songs :
        /\ Come(r, o, phase, e, s)
        /\ \/ o \in {"add", "play"} /\ phase = "placing"
           \/ /\ e \in Rows /\ s = song[e]
              /\ <<o, phase>> \in {<<"skip", "skipping">>, <<"start", "starting">>,
                                   <<"finish", "rereading">>, <<"delete", "deleting">>}
  BY DEF Arrive, AddRequest, SkipRequest, StartRequest, FinishRequest, DeleteRequest,
         TypeOK
<1> USE <1>1 DEF Come, Goto, rowVars, countVars, pastVars, Rows, Unused
<1>2. TypeOK' BY DEF TypeOK, Phases
<1>3. SongInv' BY DEF SongInv
<1>4. RequestInv' BY DEF RequestInv, TypeOK
<1>5. PlaceInv' BY DEF PlaceInv, TypeOK
<1> QED BY <1>2, <1>3, <1>4, <1>5

\* A request that is over knows nothing.
LEMMA LeaveStep ==
  ASSUME IInv, NEW r \in Requests, Leave(r),
         UNCHANGED <<position, song, turn>>, Unused' = Unused, Rows' \subseteq Rows,
         TypeOK'
  PROVE  IInv'
<1> USE DEF IInv, Leave, Goto, TypeOK
<1>1. SongInv' BY DEF SongInv
<1>2. RequestInv' BY DEF RequestInv
<1>3. PlaceInv' BY DEF PlaceInv
<1> QED BY <1>1, <1>2, <1>3

\* A status is written: rows may go, unused ids stay unused.
LEMMA SetStatusFacts ==
  ASSUME IInv, NEW e \in Entries,
         NEW new \in {"playing", "done", "skipped", "deleted"}, SetStatus(e, new)
  PROVE  /\ Unused' = Unused
         /\ Rows' \subseteq Rows
         /\ status' \in [Entries -> {"none", "queued", "playing", "done", "skipped", "deleted"}]
         /\ \A d \in Entries : d # e => status'[d] = status[d]
BY DEF IInv, TypeOK, SetStatus, Rows, Unused

\* The two statements of an INSERT and the second read.
LEMMA InsertStep ==
  ASSUME IInv, NEW r \in Requests,
         ReadMax(r) \/ (\E e \in Entries : Insert(r, e)) \/ ReadAgain(r)
  PROVE  IInv'
<1>1. CASE ReadMax(r)
  <2> USE <1>1 DEF IInv, ReadMax, Goto, rowVars, countVars, pastVars, Rows, Unused
  <2>1. TypeOK' BY DEF TypeOK, Phases
  <2>2. SongInv' BY DEF SongInv
  <2>3. RequestInv' BY DEF RequestInv, TypeOK
  <2>4. PlaceInv' BY DEF PlaceInv, NextPlace, TypeOK
  <2> QED BY <2>1, <2>2, <2>3, <2>4
<1>2. ASSUME NEW e \in Entries, Insert(r, e) PROVE IInv'
  <2> USE <1>2 DEF IInv, Insert, Leave, Goto, countVars
  <2>1. /\ e \in Unused /\ Unused' = Unused \ {e} /\ Rows' = Rows \cup {e}
        /\ op[r] \in {"add", "play", "skip"} /\ ask[r] \in Songs
    BY DEF TypeOK, Rows, Unused, RequestInv
  <2>2. TypeOK'
    <3>1. place[r] \in Places /\ TurnOf(r, e) \in Entries
      BY DEF PlaceInv, RequestInv, TypeOK, TurnOf
    <3>2. status' \in [Entries -> {"none", "queued", "playing", "done", "skipped", "deleted"}]
      BY DEF TypeOK
    <3>3. \A d \in Rows' : position'[d] \in Places /\ song'[d] \in Songs
      BY <2>1, <3>1 DEF TypeOK
    <3>4. /\ position' \in [Entries -> {0} \cup Places]
          /\ song' \in [Entries -> Songs \cup {NoSong}]
          /\ turn' \in [Entries -> Entries]
      BY <2>1, <3>1 DEF TypeOK
    <3>5. CASE op[r] = "play"
      <4>1. pc' \in [Requests -> Phases] /\ at' \in [Requests -> Entries \cup {NoEntry}]
        BY <3>5 DEF TypeOK, Phases
      <4>2. UNCHANGED <<op, ask, place, seen>>
        BY <3>5
      <4> QED BY <3>2, <3>3, <3>4, <4>1, <4>2 DEF TypeOK
    <3>6. CASE Leave(r)
      BY <3>1, <3>2, <3>3, <3>4, <3>6 DEF TypeOK, Phases
    <3> QED BY <3>5, <3>6
  <2>3. SongInv'
    <3>1. op[r] = "skip" => /\ at[r] \in Entries \ Unused
                            /\ ask[r] = song[at[r]]
      BY DEF RequestInv
    <3>2. TurnOf(r, e) \in Entries \ Unused' /\ song'[TurnOf(r, e)] = ask[r]
      BY <2>1, <3>1 DEF TurnOf, SongInv, TypeOK
    <3> QED BY <2>1, <3>2 DEF SongInv, TypeOK
  <2>4. RequestInv' BY <2>1 DEF RequestInv, TypeOK
  <2>5. PlaceInv'
    <3>1. ASSUME NEW q \in Requests, pc'[q] = "inserting"
          PROVE  q # r /\ seen'[q] = seen[q] /\ place'[q] = place[q] /\ pc[q] = "inserting"
      BY <3>1 DEF TypeOK
    <3>2. \A q \in Requests : seen'[q] \subseteq seen[q] /\ e \notin seen[q]
      BY <2>1 DEF TypeOK, PlaceInv
    <3>3. \A d \in Entries \ {e} : position'[d] = position[d]
      BY DEF TypeOK
    <3> QED BY <2>1, <3>1, <3>2, <3>3 DEF PlaceInv
  <2> QED BY <2>2, <2>3, <2>4, <2>5
<1>3. CASE ReadAgain(r)
  <2>1. CASE Leave(r)
    <3> USE <1>3, <2>1 DEF ReadAgain, rowVars, countVars, pastVars
    <3>1. TypeOK' BY DEF IInv, TypeOK, Leave, Goto, Phases, Rows
    <3>2. Unused' = Unused /\ Rows' = Rows BY DEF Unused, Rows
    <3> QED BY <3>1, <3>2, LeaveStep
  <2>2. CASE at[r] \in Rows
    <3> USE <1>3, <2>2 DEF IInv, ReadAgain, Goto, rowVars, countVars, argVars, pastVars, Rows, Unused
    <3>1. TypeOK' BY DEF TypeOK, Phases
    <3>2. SongInv' BY DEF SongInv
    <3>3. RequestInv' BY DEF RequestInv, TypeOK
    <3>4. PlaceInv' BY DEF PlaceInv, TypeOK
    <3> QED BY <3>1, <3>2, <3>3, <3>4
  <2> QED BY <1>3, <2>1, <2>2 DEF ReadAgain
<1> QED BY <1>1, <1>2, <1>3

\* The statements that change a status and go on.
LEMMA MarkStep ==
  ASSUME IInv, NEW r \in Requests, MarkSkipped(r) \/ MarkDone(r)
  PROVE  IInv'
<1> USE DEF IInv, MarkSkipped, MarkDone, Goto, countVars, argVars, pastVars
<1>1. at[r] \in Entries
  BY DEF RequestInv
<1>2. /\ Unused' = Unused /\ Rows' \subseteq Rows
      /\ status' \in [Entries -> {"none", "queued", "playing", "done", "skipped", "deleted"}]
  BY <1>1, SetStatusFacts
<1>3. TypeOK' BY <1>2 DEF TypeOK, Phases
<1>4. SongInv' BY <1>2 DEF SongInv
<1>5. RequestInv' BY <1>2 DEF RequestInv, TypeOK, SongInv
<1>6. PlaceInv' BY <1>2 DEF PlaceInv, TypeOK
<1> QED BY <1>3, <1>4, <1>5, <1>6

\* The statements that change a status and end the request.
LEMMA LastStep ==
  ASSUME IInv, NEW r \in Requests, MarkPlaying(r) \/ Delete(r)
  PROVE  IInv'
<1>1. at[r] \in Entries
  BY DEF IInv, RequestInv, MarkPlaying, Delete
<1>2. /\ Unused' = Unused /\ Rows' \subseteq Rows
      /\ status' \in [Entries -> {"none", "queued", "playing", "done", "skipped", "deleted"}]
  BY <1>1, SetStatusFacts DEF MarkPlaying, Delete
<1>3. Leave(r) /\ UNCHANGED <<position, song, turn>>
  BY DEF MarkPlaying, Delete, pastVars
<1>4. turn[at[r]] \in Entries
  BY <1>1 DEF IInv, TypeOK
<1>5. TypeOK'
  BY <1>1, <1>2, <1>4 DEF IInv, TypeOK, MarkPlaying, Delete, Leave, Goto, countVars, pastVars, Phases
<1> QED BY <1>2, <1>3, <1>5, LeaveStep

\* The history record and the two counters.
LEMMA CountStep ==
  ASSUME IInv, NEW r \in Requests, RecordPlay(r) \/ CountTrack(r) \/ CountSinger(r)
  PROVE  IInv'
<1> USE DEF rowVars, argVars, pastVars
<1>1. at[r] \in Entries /\ ask[r] \in Singers \X Tracks
  BY DEF IInv, RequestInv, SongInv, RecordPlay, CountTrack, CountSinger
<1>2. ask[r][1] \in Singers /\ ask[r][2] \in Tracks
  BY <1>1
<1>3. CASE RecordPlay(r) \/ CountTrack(r)
  <2> USE <1>3 DEF IInv, RecordPlay, CountTrack, Goto, Rows, Unused
  <2>1. TypeOK'
    <3>1. CASE RecordPlay(r) BY <1>1, <1>2, <3>1 DEF TypeOK, Phases
    <3>2. CASE CountTrack(r) BY <1>1, <1>2, <3>2 DEF TypeOK, Phases
    <3> QED BY <3>1, <3>2
  <2>2. SongInv' BY DEF SongInv
  <2>3. RequestInv' BY DEF RequestInv, TypeOK
  <2>4. PlaceInv' BY DEF PlaceInv, TypeOK
  <2> QED BY <2>1, <2>2, <2>3, <2>4
<1>4. CASE CountSinger(r)
  <2>1. TypeOK'
    BY <1>2, <1>4 DEF IInv, TypeOK, CountSinger, Leave, Goto, Phases, Rows
  <2>2. Unused' = Unused /\ Rows' = Rows
    BY <1>4 DEF CountSinger, Unused, Rows
  <2> QED BY <1>4, <2>1, <2>2, LeaveStep DEF CountSinger
<1> QED BY <1>3, <1>4

\* A request fails halfway, or the session ends.
LEMMA BreakStep ==
  ASSUME IInv, Terminate \/ \E r \in Requests : Fail(r)
  PROVE  IInv'
<1>1. ASSUME NEW r \in Requests, Fail(r) PROVE IInv'
  <2> USE <1>1 DEF Fail, rowVars, countVars
  <2>1. Unused' = Unused /\ Rows' = Rows
    BY DEF Unused, Rows
  <2>2. gone' \subseteq Entries
    BY DEF IInv, TypeOK, RequestInv
  <2>3. TypeOK'
    BY <2>1, <2>2 DEF IInv, TypeOK, Leave, Goto, Phases
  <2> QED BY <2>1, <2>3, LeaveStep
<1>2. CASE Terminate
  BY <1>2 DEF IInv, TypeOK, SongInv, RequestInv, PlaceInv, Terminate, countVars, argVars,
              pastVars, Rows, Unused
<1> QED BY <1>1, <1>2

\* Every step keeps the invariant.
LEMMA NextInv == IInv /\ [Next]_vars => IInv'
<1>1. ASSUME IInv, Next PROVE IInv'
  BY <1>1, ArriveStep, InsertStep, MarkStep, LastStep, CountStep, BreakStep
     DEF Next, Statement
<1>2. ASSUME IInv, UNCHANGED vars PROVE IInv'
  BY <1>2 DEF vars, rowVars, countVars, argVars, pastVars, IInv, TypeOK, SongInv, RequestInv,
              PlaceInv, Rows, Unused
<1> QED BY <1>1, <1>2

\* The inductive invariant holds in every reachable state.
THEOREM Invariance == Spec => []IInv
BY InitInv, NextInv, PTL DEF Spec

\* Every variable keeps its type, and every row has a position and a song.
THEOREM TypeCorrect == Spec => []TypeOK
BY Invariance, PTL DEF IInv

-----------------------------------------------------------------------------
\* A step that inserts is the INSERT of the request that was about to.
LEMMA ArrivalStep ==
  ASSUME IInv, [Next]_vars, NEW r \in Requests, NEW e \in Unused,
         pc[r] = "inserting", pc'[r] # pc[r], status'[e] = "queued",
         NEW d \in seen[r] \cap Rows
  PROVE  position[d] < position'[e]
<1> USE DEF IInv, TypeOK, Unused
<1>1. ~ UNCHANGED vars /\ status[e] = "none"
  BY DEF vars
<1>2. PICK q \in Requests : Insert(q, e) \/ (\E f \in Entries : Insert(q, f))
  <2>1. ASSUME NEW q \in Requests, ~ \E f \in Entries : Insert(q, f),
               Arrive(q) \/ Statement(q) \/ Fail(q)
        PROVE  status'[e] = "none"
    <3>1. at[q] \in Entries \/ status' = status
      BY <2>1 DEF Arrive, AddRequest, SkipRequest, StartRequest, FinishRequest, DeleteRequest,
                  Come, Fail, Statement, ReadMax, ReadAgain, MarkSkipped, MarkPlaying, MarkDone,
                  Delete, RecordPlay, CountTrack, CountSinger, rowVars, RequestInv
    <3>2. status'[e] = status[e]
      BY <2>1, <3>1 DEF Arrive, AddRequest, SkipRequest, StartRequest, FinishRequest,
                  DeleteRequest, Come, Fail, Statement, ReadMax, ReadAgain, MarkSkipped,
                  MarkPlaying, MarkDone, Delete, RecordPlay, CountTrack, CountSinger, rowVars,
                  SetStatus, Rows
    <3> QED BY <1>1, <3>2
  <2>2. Next /\ ~ Terminate
    BY <1>1 DEF Next, Terminate
  <2> QED BY <2>1, <2>2 DEF Next
<1>3. PICK f \in Entries : Insert(q, f)
  BY <1>2
<1>4. f = e /\ q = r
  BY <1>1, <1>3 DEF Insert, Leave, Goto
<1> QED BY <1>3, <1>4 DEF Insert, PlaceInv

\* The queue keeps the order of arrival.
THEOREM OrderKept == Spec => ArrivalOrder
<1>1. IInv /\ [Next]_vars =>
        [\A r \in Requests, e \in Unused :
           pc[r] = "inserting" /\ pc'[r] # pc[r] /\ status'[e] = "queued" =>
             \A d \in seen[r] \cap Rows : position[d] < position'[e]]_vars
  BY ArrivalStep
<1> QED BY <1>1, Invariance, PTL DEF Spec, ArrivalOrder

-----------------------------------------------------------------------------
(* Turns *)

\* An entry that stands for the turn of e, and a skip that carries it.
Stands(d, e)  == d \in Rows /\ turn[d] = turn[e] /\ song[d] = song[e] /\ status[d] # "skipped"
Carries(r, e) == /\ op[r] = "skip" /\ pc[r] \in {"placing", "inserting"}
                 /\ turn[at[r]] = turn[e] /\ ask[r] = song[e]
Kept(e) == \/ turn[e] \in gone
           \/ \E d \in Entries : Stands(d, e)
           \/ \E r \in Requests : Carries(r, e)

AllKept == \A e \in Entries \ Unused : Kept(e)

\* The property in these words, in the current state.
LEMMA TurnsKept == NoTurnLost <=> AllKept
BY DEF NoTurnLost, AllKept, Kept, Stands, Carries, Rows, Unused

\* The same in the next state.
LEMMA TurnsKeptNext == NoTurnLost' <=> AllKept'
BY TurnsKept, PTL

\* Two entries of one turn have one song.
LEMMA OneSong ==
  ASSUME IInv, NEW d \in Entries \ Unused, NEW e \in Entries \ Unused, turn[d] = turn[e]
  PROVE  song[d] = song[e]
BY DEF IInv, SongInv

\* A step that takes at most the row a from the queue, and ends no skip with a turn.
LEMMA KeptStep ==
  ASSUME IInv, NEW e \in Entries \ Unused, Kept(e), NEW r \in Requests,
         UNCHANGED <<song, turn>>, gone \subseteq gone',
         \A d \in Entries : d # at[r] => status'[d] = status[d],
         Stands(at[r], e) /\ at[r] \in Entries => Kept(e)',
         \A q \in Requests : q # r =>
           op'[q] = op[q] /\ pc'[q] = pc[q] /\ at'[q] = at[q] /\ ask'[q] = ask[q],
         Carries(r, e) => Kept(e)'
  PROVE  Kept(e)'
<1>1. CASE turn[e] \in gone
  BY <1>1 DEF Kept
<1>2. ASSUME NEW d \in Entries, Stands(d, e) PROVE Kept(e)'
  <2>1. CASE d = at[r]
    BY <1>2, <2>1
  <2>2. CASE d # at[r]
    <3>1. Stands(d, e)'
      BY <1>2, <2>2 DEF Stands, Rows
    <3> QED BY <3>1 DEF Kept
  <2> QED BY <2>1, <2>2
<1>3. ASSUME NEW q \in Requests, Carries(q, e) PROVE Kept(e)'
  <2>1. CASE q = r
    BY <1>3, <2>1
  <2>2. CASE q # r
    <3>1. Carries(q, e)'
      BY <1>3, <2>2 DEF Carries
    <3> QED BY <3>1 DEF Kept
  <2> QED BY <2>1, <2>2
<1> QED BY <1>1, <1>2, <1>3 DEF Kept

\* Statements that write no status, and arrivals.
LEMMA QuietTurnStep ==
  ASSUME IInv, NEW e \in Entries \ Unused, Kept(e), NEW r \in Requests,
         Arrive(r) \/ ReadMax(r) \/ ReadAgain(r) \/ RecordPlay(r) \/ CountTrack(r)
           \/ CountSinger(r)
  PROVE  Kept(e)'
<1> USE DEF IInv, TypeOK
<1>1. UNCHANGED <<status, song, turn, gone>>
  BY DEF Arrive, AddRequest, SkipRequest, StartRequest, FinishRequest, DeleteRequest, Come,
         ReadMax, ReadAgain, RecordPlay, CountTrack, CountSinger, rowVars, pastVars
<1>2. \A q \in Requests : q # r =>
        op'[q] = op[q] /\ pc'[q] = pc[q] /\ at'[q] = at[q] /\ ask'[q] = ask[q]
  BY DEF Arrive, AddRequest, SkipRequest, StartRequest, FinishRequest, DeleteRequest, Come,
         ReadMax, ReadAgain, RecordPlay, CountTrack, CountSinger, argVars, Leave, Goto
<1>3. Carries(r, e) => Carries(r, e)'
  BY <1>1 DEF Carries, Arrive, AddRequest, SkipRequest, StartRequest, FinishRequest,
         DeleteRequest, Come, ReadMax, ReadAgain, RecordPlay, CountTrack, CountSinger, Goto
<1>4. \A d \in Entries : Stands(d, e) => Stands(d, e)'
  BY <1>1 DEF Stands, Rows
<1>5. (\E d \in Entries : Stands(d, e)) => Kept(e)'
  BY <1>4 DEF Kept
<1>6. Carries(r, e) => Kept(e)'
  BY <1>3 DEF Kept
<1> QED BY <1>1, <1>2, <1>5, <1>6, KeptStep

\* Statements that write a status.
LEMMA StatusTurnStep ==
  ASSUME IInv, NEW e \in Entries \ Unused, Kept(e), NEW r \in Requests,
         MarkSkipped(r) \/ MarkPlaying(r) \/ MarkDone(r) \/ Delete(r)
  PROVE  Kept(e)'
<1> USE DEF IInv, TypeOK
<1>1. at[r] \in Entries \ Unused /\ ask[r] = song[at[r]]
  BY DEF RequestInv, MarkSkipped, MarkPlaying, MarkDone, Delete
<1>2. UNCHANGED <<song, turn>> /\ gone \subseteq gone'
  BY DEF MarkSkipped, MarkPlaying, MarkDone, Delete, pastVars
<1>3. \A d \in Entries : d # at[r] => status'[d] = status[d]
  BY <1>1 DEF MarkSkipped, MarkPlaying, MarkDone, Delete, SetStatus
<1>4. \A q \in Requests : q # r =>
        op'[q] = op[q] /\ pc'[q] = pc[q] /\ at'[q] = at[q] /\ ask'[q] = ask[q]
  BY DEF MarkSkipped, MarkPlaying, MarkDone, Delete, argVars, Leave, Goto
<1>5. ~ Carries(r, e)
  BY DEF Carries, MarkSkipped, MarkPlaying, MarkDone, Delete
<1>6. ASSUME Stands(at[r], e) PROVE Kept(e)'
  <2> USE <1>6 DEF Stands
  <2>1. CASE MarkSkipped(r)
    <3>1. Carries(r, e)'
      BY <1>1, <2>1 DEF MarkSkipped, Carries, RequestInv, argVars, pastVars, Goto
    <3> QED BY <3>1 DEF Kept
  <2>2. CASE MarkPlaying(r) \/ MarkDone(r)
    <3>1. status'[at[r]] \in {"playing", "done"}
      BY <1>1, <2>2 DEF MarkPlaying, MarkDone, SetStatus
    <3>2. at[r] \in Rows' /\ status'[at[r]] # "skipped"
      BY <1>1, <3>1 DEF Rows
    <3>3. \E d \in Entries : Stands(d, e)'
      BY <1>1, <1>2, <3>2
    <3> QED BY <3>3 DEF Kept
  <2>3. CASE Delete(r)
    BY <1>1, <1>2, <2>3 DEF Delete, Kept
  <2> QED BY <2>1, <2>2, <2>3
<1> QED BY <1>2, <1>3, <1>4, <1>5, <1>6, KeptStep

\* The INSERT: a new turn stands for itself, a carried one stands again.
LEMMA InsertTurnStep ==
  ASSUME IInv, \A e \in Entries \ Unused : Kept(e),
         NEW r \in Requests, NEW f \in Entries, Insert(r, f),
         NEW e \in Entries \ Unused'
  PROVE  Kept(e)'
<1> USE DEF IInv, TypeOK, Insert
<1>1. f \in Unused /\ Unused' = Unused \ {f} /\ gone' = gone
  BY DEF Unused
<1>2. \A d \in Entries : d # f =>
        /\ status'[d] = status[d] /\ song'[d] = song[d] /\ turn'[d] = turn[d]
  OBVIOUS
<1>3. status'[f] = "queued" /\ song'[f] = ask[r] /\ turn'[f] = TurnOf(r, f)
  BY DEF TurnOf, RequestInv
<1>4. CASE e = f
  <2>1. Stands(f, e)'
    BY <1>3, <1>4 DEF Stands, Rows
  <2> QED BY <2>1 DEF Kept
<1>5. CASE e # f
  <2>1. Kept(e)
    BY <1>1, <1>5
  <2>2. CASE turn[e] \in gone
    BY <1>1, <1>2, <1>5, <2>2 DEF Kept
  <2>3. ASSUME NEW d \in Entries, Stands(d, e) PROVE Kept(e)'
    <3>1. d # f
      BY <1>1, <2>3 DEF Stands, Rows, Unused
    <3>2. Stands(d, e)'
      BY <1>2, <1>5, <2>3, <3>1 DEF Stands, Rows
    <3> QED BY <3>2 DEF Kept
  <2>4. ASSUME NEW q \in Requests, Carries(q, e) PROVE Kept(e)'
    <3>1. CASE q = r
      <4>1. Stands(f, e)'
        BY <1>2, <1>3, <1>5, <2>4, <3>1 DEF Carries, Stands, Rows, TurnOf
      <4> QED BY <4>1 DEF Kept
    <3>2. CASE q # r
      <4>1. at[q] \in Entries \ Unused
        BY <2>4 DEF Carries, RequestInv
      <4>2. op'[q] = op[q] /\ pc'[q] = pc[q] /\ at'[q] = at[q] /\ ask'[q] = ask[q]
        BY <3>2 DEF Leave, Goto
      <4>3. Carries(q, e)'
        BY <1>1, <1>2, <1>5, <2>4, <4>1, <4>2 DEF Carries
      <4> QED BY <4>3 DEF Kept
    <3> QED BY <3>1, <3>2
  <2> QED BY <2>1, <2>2, <2>3, <2>4 DEF Kept
<1> QED BY <1>4, <1>5

\* A request fails: the turn a skip was carrying counts as lost.
LEMMA FailTurnStep ==
  ASSUME IInv, NEW e \in Entries \ Unused, Kept(e), NEW r \in Requests, Fail(r)
  PROVE  Kept(e)'
<1> USE DEF IInv, TypeOK, Fail
<1>1. UNCHANGED <<status, song, turn>> /\ gone \subseteq gone'
  BY DEF rowVars
<1>2. \A q \in Requests : q # r =>
        op'[q] = op[q] /\ pc'[q] = pc[q] /\ at'[q] = at[q] /\ ask'[q] = ask[q]
  BY DEF Leave, Goto
<1>3. \A d \in Entries : Stands(d, e) => Stands(d, e)'
  BY <1>1 DEF Stands, Rows
<1>4. (\E d \in Entries : Stands(d, e)) => Kept(e)'
  BY <1>3 DEF Kept
<1>5. Carries(r, e) => Kept(e)'
  BY <1>1 DEF Carries, Kept
<1> QED BY <1>1, <1>2, <1>4, <1>5, KeptStep

\* Every step keeps every turn.
LEMMA TurnStep == IInv /\ NoTurnLost /\ [Next]_vars => NoTurnLost'
<1> SUFFICES ASSUME IInv, NoTurnLost, [Next]_vars PROVE NoTurnLost'
  OBVIOUS
<1>1. NoTurnLost' <=> \A e \in Entries \ Unused' : Kept(e)'
  BY TurnsKeptNext DEF AllKept
<1>2. \A e \in Entries \ Unused : Kept(e)
  BY TurnsKept DEF AllKept
<1>3. ASSUME NEW r \in Requests, NEW f \in Entries, Insert(r, f) PROVE NoTurnLost'
  BY <1>1, <1>2, <1>3, InsertTurnStep
<1>4. ASSUME NEW r \in Requests, Arrive(r) \/ Statement(r) \/ Fail(r),
             ~ \E f \in Entries : Insert(r, f)
      PROVE  NoTurnLost'
  <2>1. \A e \in Entries \ Unused : Kept(e)'
    BY <1>2, <1>4, QuietTurnStep, StatusTurnStep, FailTurnStep DEF Statement
  <2>2. Unused \subseteq Unused'
    <3>1. status' = status \/ (at[r] \in Entries /\ \E new \in
             {"playing", "done", "skipped", "deleted"} : SetStatus(at[r], new))
      BY <1>4 DEF Arrive, AddRequest, SkipRequest, StartRequest, FinishRequest, DeleteRequest,
             Come, Fail, Statement, ReadMax, ReadAgain, MarkSkipped, MarkPlaying, MarkDone,
             Delete, RecordPlay, CountTrack, CountSinger, rowVars, IInv, RequestInv
    <3>2. CASE status' = status
      BY <3>2 DEF Unused
    <3> QED BY <3>1, <3>2, SetStatusFacts
  <2> QED BY <1>1, <2>1, <2>2
<1>5. CASE Terminate \/ UNCHANGED vars
  BY <1>5 DEF NoTurnLost, Terminate, vars, rowVars, argVars, pastVars, Rows
<1> QED BY <1>3, <1>4, <1>5 DEF Next

\* No turn is lost, unless it was deleted or a skip failed halfway.
THEOREM TurnsStay == Spec => []NoTurnLost
<1>1. Init => NoTurnLost
  BY DEF Init, NoTurnLost
<1> QED BY <1>1, TurnStep, Invariance, PTL DEF Spec

-----------------------------------------------------------------------------
\* Only a request that fails leaves a song without its record, and only the one it records.
LEMMA RecordStep == IInv /\ DoneIsRecorded /\ [Next]_vars => DoneIsRecorded'
<1> SUFFICES ASSUME IInv, DoneIsRecorded, [Next]_vars PROVE DoneIsRecorded'
  OBVIOUS
<1> USE DEF IInv, TypeOK
<1>1. /\ IsFiniteSet(Unrecorded) /\ Cardinality(Unrecorded) \in Nat
      /\ Unrecorded \subseteq Entries /\ Cardinality(Unrecorded) <= faults /\ faults \in Nat
  <2>1. Unrecorded \subseteq Entries
    BY DEF Unrecorded
  <2> QED BY <2>1, EntriesAssumption, FS_Subset, FS_CardinalityType DEF DoneIsRecorded
<1>2. ASSUME faults' = faults, Unrecorded' \subseteq Unrecorded
      PROVE  DoneIsRecorded'
  <2> HIDE DEF IInv, TypeOK
  <2>1. Cardinality(Unrecorded') <= Cardinality(Unrecorded) /\ Cardinality(Unrecorded') \in Nat
    BY <1>1, <1>2, FS_Subset, FS_CardinalityType
  <2> QED BY <1>1, <1>2, <2>1 DEF DoneIsRecorded
<1>3. CASE Terminate \/ UNCHANGED vars
  BY <1>2, <1>3 DEF Unrecorded, Terminate, vars, rowVars, countVars, argVars
<1>4. ASSUME NEW r \in Requests, Arrive(r) \/ Statement(r)
      PROVE  DoneIsRecorded'
  <2> SUFFICES ASSUME NEW e \in Entries, e \in Unrecorded' PROVE e \in Unrecorded
    <3>1. faults' = faults
      BY <1>4 DEF Arrive, AddRequest, SkipRequest, StartRequest, FinishRequest, DeleteRequest,
             Come, Statement, ReadMax, Insert, ReadAgain, MarkSkipped, MarkPlaying, MarkDone,
             Delete, RecordPlay, CountTrack, CountSinger
    <3> QED BY <1>2, <3>1 DEF Unrecorded
  <2>1. ~ (MarkDone(r) /\ at[r] = e)
    BY DEF MarkDone, Goto, argVars, Unrecorded
  <2>2. ~ (RecordPlay(r) /\ at[r] = e)
    BY DEF RecordPlay, Unrecorded
  <2>3. history'[e] = history[e]
    BY <1>4, <2>2 DEF Arrive, AddRequest, SkipRequest, StartRequest, FinishRequest, DeleteRequest,
           Come, Statement, ReadMax, Insert, ReadAgain, MarkSkipped, MarkPlaying, MarkDone, Delete,
           RecordPlay, CountTrack, CountSinger, countVars
  <2>4. status[e] = "done"
    BY <1>4, <2>1 DEF Unrecorded, Arrive, AddRequest, SkipRequest, StartRequest, FinishRequest,
           DeleteRequest, Come, Statement, ReadMax, Insert, ReadAgain, MarkSkipped, MarkPlaying,
           MarkDone, Delete, RecordPlay, CountTrack, CountSinger, rowVars, SetStatus, RequestInv
  <2>5. ASSUME NEW q \in Requests, pc[q] = "recording", at[q] = e
        PROVE  pc'[q] = "recording" /\ at'[q] = e
    BY <1>4, <2>2, <2>5 DEF Arrive, AddRequest, SkipRequest, StartRequest, FinishRequest,
           DeleteRequest, Come, Statement, ReadMax, Insert, ReadAgain, MarkSkipped,
           MarkPlaying, MarkDone, Delete, RecordPlay, CountTrack, CountSinger, argVars, Leave, Goto
  <2> QED BY <2>3, <2>4, <2>5 DEF Unrecorded
<1>5. ASSUME NEW r \in Requests, Fail(r)
      PROVE  DoneIsRecorded'
  <2>1. faults' = faults + 1
    BY <1>5 DEF Fail
  <2>2. Unrecorded' \subseteq Unrecorded \cup {at[r]}
    BY <1>5 DEF Fail, Leave, Goto, Unrecorded, rowVars, countVars
  <2> HIDE DEF IInv, TypeOK
  <2>3. /\ IsFiniteSet(Unrecorded \cup {at[r]})
        /\ Cardinality(Unrecorded \cup {at[r]}) <= Cardinality(Unrecorded) + 1
    <3>1. Cardinality(Unrecorded \cup {at[r]})
            = IF at[r] \in Unrecorded THEN Cardinality(Unrecorded) ELSE Cardinality(Unrecorded) + 1
      BY <1>1, FS_AddElement
    <3> QED BY <1>1, <3>1, FS_AddElement
  <2>4. /\ Cardinality(Unrecorded') <= Cardinality(Unrecorded \cup {at[r]})
        /\ Cardinality(Unrecorded') \in Nat /\ Cardinality(Unrecorded \cup {at[r]}) \in Nat
    BY <2>2, <2>3, FS_Subset, FS_CardinalityType
  <2> QED BY <1>1, <2>1, <2>3, <2>4 DEF DoneIsRecorded
<1> QED BY <1>3, <1>4, <1>5 DEF Next

\* What is done is in the history or about to be: a failed request costs one record at most.
THEOREM DoneRecorded == Spec => []DoneIsRecorded
<1>1. Init => DoneIsRecorded
  <2> SUFFICES ASSUME Init PROVE DoneIsRecorded
    OBVIOUS
  <2>1. Unrecorded = {}
    BY DEF Init, Unrecorded
  <2>2. Cardinality({}) = 0
    BY FS_EmptySet
  <2> QED BY <2>1, <2>2 DEF Init, DoneIsRecorded
<1> QED BY <1>1, RecordStep, Invariance, PTL DEF Spec

-----------------------------------------------------------------------------
\* After the end nobody is admitted, and only an admitted request or a skip inserts.
LEMMA ClosedStep ==
  ASSUME IInv, [Next]_vars, session = "terminated"
  PROVE  /\ Turns' = Turns \/ Admitted' # Admitted
         /\ Admitted' \subseteq Admitted
<1> USE DEF IInv, TypeOK
<1>1. CASE Terminate \/ UNCHANGED vars
  <2>1. UNCHANGED <<status, turn, op, pc>>
    BY <1>1 DEF Terminate, vars, rowVars, argVars, pastVars
  <2> QED BY <2>1 DEF Turns, Admitted, Unused
<1>2. ASSUME NEW r \in Requests, Arrive(r) \/ Statement(r) \/ Fail(r)
      PROVE  Admitted' \subseteq Admitted
  BY <1>2 DEF Admitted, Arrive, AddRequest, SkipRequest, StartRequest, FinishRequest,
         DeleteRequest, Come, Fail, Statement, ReadMax, Insert, ReadAgain, MarkSkipped,
         MarkPlaying, MarkDone, Delete, RecordPlay, CountTrack, CountSinger, argVars, Leave,
         Goto, RequestInv
<1>3. ASSUME NEW r \in Requests, NEW f \in Entries, Insert(r, f), op[r] # "skip"
      PROVE  Admitted' # Admitted
  <2>1. r \in Admitted /\ r \notin Admitted'
    BY <1>3 DEF Admitted, Insert, Leave, Goto, RequestInv
  <2> QED BY <2>1
<1>4. ASSUME NEW r \in Requests, NEW f \in Entries, Insert(r, f), op[r] = "skip"
      PROVE  Turns' = Turns
  <2>1. /\ f \in Unused /\ Unused' = Unused \ {f}
        /\ \A e \in Entries \ {f} : turn'[e] = turn[e]
        /\ turn'[f] = turn[at[r]] /\ at[r] \in Entries \ Unused
    BY <1>4 DEF Insert, Unused, TurnOf, RequestInv
  <2> QED BY <2>1 DEF Turns
<1>5. ASSUME NEW r \in Requests, Arrive(r) \/ Statement(r) \/ Fail(r),
             ~ \E f \in Entries : Insert(r, f)
      PROVE  Turns' = Turns
  <2>1. status' = status \/ (at[r] \in Entries /\ \E new \in
             {"playing", "done", "skipped", "deleted"} : SetStatus(at[r], new))
    BY <1>5 DEF Arrive, AddRequest, SkipRequest, StartRequest, FinishRequest, DeleteRequest,
           Come, Fail, Statement, ReadMax, ReadAgain, MarkSkipped, MarkPlaying, MarkDone,
           Delete, RecordPlay, CountTrack, CountSinger, rowVars, RequestInv
  <2>2. Unused' = Unused
    BY <2>1, SetStatusFacts DEF Unused
  <2>3. turn' = turn
    BY <1>5 DEF Arrive, AddRequest, SkipRequest, StartRequest, FinishRequest, DeleteRequest,
           Come, Fail, Statement, ReadMax, ReadAgain, MarkSkipped, MarkPlaying, MarkDone,
           Delete, RecordPlay, CountTrack, CountSinger, pastVars
  <2> QED BY <2>2, <2>3 DEF Turns
<1> QED BY <1>1, <1>2, <1>3, <1>4, <1>5 DEF Next, Statement

\* The queue of a session that has ended takes no new turn.
THEOREM Closed == Spec => NoTurnAfterTheEnd
<1>1. IInv /\ [Next]_vars =>
        [session = "terminated" => /\ Turns' = Turns \/ Admitted' # Admitted
                                   /\ Admitted' \subseteq Admitted]_vars
  BY ClosedStep
<1> QED BY <1>1, Invariance, PTL DEF Spec, NoTurnAfterTheEnd

-----------------------------------------------------------------------------
(* The counters *)

\* What was never a row was never sung; and the counters are what they have to be.
CountInv ==
  /\ \A e \in Unused : song[e] = NoSong /\ history[e] = 0
  /\ CountersFollowHistory

LEMMA PlaysAreSums == \A S : Plays(S) = SumOf(history, S)
BY DEF Plays, SumOf, MapThenSumSet, MapThenFoldSet

LEMMA PlaysAreSumsNext == \A S : Plays(S)' = SumOf(history', S')
BY DEF Plays, SumOf, MapThenSumSet, MapThenFoldSet

\* The entries of a track or a singer; finitely many, as are the requests.
LEMMA FewEnough ==
  ASSUME NEW S \in SUBSET Entries, NEW P
  PROVE  /\ IsFiniteSet(S) /\ IsFiniteSet(UnderWay(S, P)) /\ Cardinality(UnderWay(S, P)) \in Nat
<1>1. IsFiniteSet(S)
  BY FS_Subset
<1>2. UnderWay(S, P) \subseteq Requests
  BY DEF UnderWay
<1>3. IsFiniteSet(UnderWay(S, P))
  BY <1>2, SlotsAssumption, FS_Subset
<1> QED BY <1>1, <1>3, FS_CardinalityType

\* A step that neither records nor counts, for entries that stay the same.
LEMMA SameCount ==
  ASSUME NEW S \in SUBSET Entries, NEW P, NEW n, Counted(n, S, P), history' = history,
         \A q \in Requests : /\ pc'[q] \in P <=> pc[q] \in P
                             /\ pc[q] \in P => at'[q] = at[q]
  PROVE  Plays(S)' = n + Cardinality(UnderWay(S, P)')
<1>1. UnderWay(S, P)' = UnderWay(S, P)
  BY DEF UnderWay
<1>2. Plays(S)' = Plays(S)
  BY PlaysAreSums, PlaysAreSumsNext
<1> QED BY <1>1, <1>2 DEF Counted

\* A request records a play, and is about to count it.
LEMMA RecordedCount ==
  ASSUME TypeOK, NEW S \in SUBSET Entries, NEW P, NEW n \in Nat, Counted(n, S, P), NEW r \in Requests,
         at[r] \in Entries, history' = [history EXCEPT ![at[r]] = @ + 1], at' = at,
         pc[r] \notin P, pc'[r] \in P, \A q \in Requests \ {r} : pc'[q] = pc[q]
  PROVE  Plays(S)' = n + Cardinality(UnderWay(S, P)')
<1>1. history \in [Entries -> Nat]
  BY DEF TypeOK
<1>2. /\ \A e \in S : history[e] \in Int
      /\ \A e \in S \ {at[r]} : history'[e] = history[e]
      /\ history'[at[r]] = history[at[r]] + 1
  BY <1>1
<1>3. Plays(S)' = IF at[r] \in S THEN Plays(S) + 1 ELSE Plays(S)
  <2>1. IsFiniteSet(S)
    BY FewEnough
  <2>2. SumOf(history', S) = IF at[r] \in S THEN SumOf(history, S) + 1 ELSE SumOf(history, S)
    <3> DEFINE new == history'
    <3>1. /\ \A e \in S \ {at[r]} : new[e] = history[e]
          /\ new[at[r]] = history[at[r]] + 1
      BY <1>2
    <3> HIDE DEF new
    <3>2. SumOf(new, S) = IF at[r] \in S THEN SumOf(history, S) + 1 ELSE SumOf(history, S)
      BY <1>2, <2>1, <3>1, SumOneMore
    <3> QED BY <3>2 DEF new
  <2> QED BY <2>2, PlaysAreSums, PlaysAreSumsNext
<1>4. UnderWay(S, P)' = IF at[r] \in S THEN UnderWay(S, P) \cup {r} ELSE UnderWay(S, P)
  BY DEF UnderWay
<1>5. r \notin UnderWay(S, P) /\ IsFiniteSet(UnderWay(S, P)) /\ Cardinality(UnderWay(S, P)) \in Nat
  BY FewEnough DEF UnderWay
<1>6. Cardinality(UnderWay(S, P) \cup {r}) = Cardinality(UnderWay(S, P)) + 1
  BY <1>5, FS_AddElement
<1>7. Cardinality(UnderWay(S, P)') = IF at[r] \in S THEN Cardinality(UnderWay(S, P)) + 1
                                                   ELSE Cardinality(UnderWay(S, P))
  <2>1. CASE at[r] \in S
    BY <1>4, <1>6, <2>1, Zenon
  <2>2. CASE at[r] \notin S
    BY <1>4, <2>2, Zenon
  <2> QED BY <2>1, <2>2
<1> DEFINE few == Cardinality(UnderWay(S, P))
<1>8. Plays(S) = n + few /\ few \in Nat
  BY <1>5 DEF Counted
<1> QED BY <1>3, <1>7, <1>8

\* A request has counted what it recorded.
LEMMA CountedCount ==
  ASSUME NEW S \in SUBSET Entries, NEW P, NEW n \in Nat, Counted(n, S, P), NEW r \in Requests,
         at[r] \in S, history' = history,
         pc[r] \in P, pc'[r] \notin P,
         \A q \in Requests \ {r} : pc'[q] = pc[q] /\ at'[q] = at[q]
  PROVE  Plays(S)' = (n + 1) + Cardinality(UnderWay(S, P)')
<1>1. Plays(S)' = Plays(S)
  BY PlaysAreSums, PlaysAreSumsNext
<1>2. UnderWay(S, P)' = UnderWay(S, P) \ {r} /\ r \in UnderWay(S, P)
  BY DEF UnderWay
<1>3. IsFiniteSet(UnderWay(S, P)) /\ Cardinality(UnderWay(S, P)) \in Nat
  BY FewEnough
<1>4. Cardinality(UnderWay(S, P) \ {r}) = Cardinality(UnderWay(S, P)) - 1
  BY <1>2, <1>3, FS_RemoveElement
<1> QED BY <1>1, <1>2, <1>3, <1>4 DEF Counted

LEMMA QuietCountStep ==
  ASSUME IInv, CountInv, faults' = faults, NEW r \in Requests,
         Arrive(r) \/ ReadMax(r) \/ ReadAgain(r) \/ MarkSkipped(r) \/ MarkPlaying(r)
           \/ MarkDone(r) \/ Delete(r)
  PROVE  CountInv'
<1> DEFINE Counting == {"counting_track", "counting_singer"}
<1> USE DEF IInv, TypeOK
<1>1. UNCHANGED <<song, history, playCount, played>>
  BY DEF Arrive, AddRequest, SkipRequest, StartRequest, FinishRequest, DeleteRequest, Come,
         ReadMax, ReadAgain, MarkSkipped, MarkPlaying, MarkDone, Delete, rowVars, countVars
<1>2. \A q \in Requests \ {r} : pc'[q] = pc[q] /\ at'[q] = at[q]
  BY DEF Arrive, AddRequest, SkipRequest, StartRequest, FinishRequest, DeleteRequest, Come,
         ReadMax, ReadAgain, MarkSkipped, MarkPlaying, MarkDone, Delete, argVars, Leave, Goto
<1>3. pc[r] \notin Counting /\ pc'[r] \notin Counting
  BY DEF Arrive, AddRequest, SkipRequest, StartRequest, FinishRequest, DeleteRequest, Come,
         ReadMax, ReadAgain, MarkSkipped, MarkPlaying, MarkDone, Delete, argVars, Leave, Goto
<1>4. Unused' \subseteq Unused
  BY DEF Arrive, AddRequest, SkipRequest, StartRequest, FinishRequest, DeleteRequest, Come,
         ReadMax, ReadAgain, MarkSkipped, MarkPlaying, MarkDone, Delete, rowVars, Unused,
         SetStatus
<1>5. \A P \in {{"counting_track"}, Counting} :
        \A q \in Requests : (pc'[q] \in P <=> pc[q] \in P) /\ (pc[q] \in P => at'[q] = at[q])
  BY <1>2, <1>3
<1> HIDE DEF IInv, TypeOK
<1>6. CountersFollowHistory'
  <2>1. ASSUME NEW t \in Tracks
        PROVE  (\E lost \in 0..faults : Counted(playCount[t] + lost, OfTrack(t), {"counting_track"}))'
    <3> DEFINE S == OfTrack(t)
    <3>1. S \in SUBSET Entries /\ S' = S
      BY <1>1 DEF OfTrack
    <3>2. PICK lost \in 0..faults : Counted(playCount[t] + lost, S, {"counting_track"})
      BY <1>1 DEF CountInv, CountersFollowHistory
    <3> HIDE DEF S
    <3>3. Plays(S)' = (playCount[t] + lost) + Cardinality(UnderWay(S, {"counting_track"})')
      BY <1>1, <1>5, <3>1, <3>2, SameCount
    <3> QED BY <1>1, <3>1, <3>3 DEF Counted, S
  <2>2. ASSUME NEW p \in Singers
        PROVE  (\E lost \in 0..faults : Counted(played[p] + lost, OfSinger(p), Counting))'
    <3> DEFINE S == OfSinger(p)
    <3>1. S \in SUBSET Entries /\ S' = S
      BY <1>1 DEF OfSinger
    <3>2. PICK lost \in 0..faults : Counted(played[p] + lost, S, Counting)
      BY <1>1 DEF CountInv, CountersFollowHistory
    <3> HIDE DEF S, Counting
    <3>3. Plays(S)' = (played[p] + lost) + Cardinality(UnderWay(S, Counting)')
      BY <1>1, <1>5, <3>1, <3>2, SameCount
    <3> QED BY <1>1, <3>1, <3>3 DEF Counted, S
  <2> QED BY <2>1, <2>2 DEF CountersFollowHistory
<1> QED BY <1>1, <1>4, <1>6 DEF CountInv

\* A new row was never sung, and nobody is about to count it.
LEMMA GrownCount ==
  ASSUME TypeOK, NEW S \in SUBSET Entries, NEW P, NEW n, Counted(n, S, P),
         NEW e \in Entries, history[e] = 0, history' = history,
         NEW T, T = S \/ T = S \cup {e},
         \A q \in Requests : /\ pc'[q] \in P <=> pc[q] \in P
                             /\ pc[q] \in P => at'[q] = at[q] /\ at[q] # e
  PROVE  Plays(T)' = n + Cardinality(UnderWay(T, P)')
<1>1. UnderWay(T, P)' = UnderWay(S, P)
  BY DEF UnderWay
<1>2. \A d \in S : history[d] \in Int
  BY DEF TypeOK
<1>3. SumOf(history, T) = SumOf(history, S)
  BY <1>2, FewEnough, SumNewcomer
<1> QED BY <1>1, <1>3, PlaysAreSums, PlaysAreSumsNext DEF Counted

LEMMA InsertCountStep ==
  ASSUME IInv, CountInv, faults' = faults, NEW r \in Requests, NEW e \in Entries, Insert(r, e)
  PROVE  CountInv'
<1> DEFINE Counting == {"counting_track", "counting_singer"}
<1>1. /\ UNCHANGED <<history, playCount, played>>
      /\ e \in Unused /\ history[e] = 0 /\ song[e] = NoSong
      /\ song \in [Entries -> Songs \cup {NoSong}] /\ ask[r] \in Songs
  BY DEF Insert, countVars, CountInv, IInv, TypeOK, RequestInv
<1>2. song' = [song EXCEPT ![e] = ask[r]] /\ Unused' \subseteq Unused \ {e}
  BY DEF Insert, Unused, IInv, TypeOK
<1>3. \A q \in Requests \ {r} : pc'[q] = pc[q] /\ at'[q] = at[q]
  BY DEF Insert, Leave, Goto, IInv, TypeOK
<1>4. pc[r] \notin Counting /\ pc'[r] \notin Counting
  BY DEF Insert, Leave, Goto, IInv, TypeOK
<1>5. \A q \in Requests : pc[q] \in Counting => at[q] # e
  BY <1>1 DEF IInv, RequestInv
<1>6. \A P \in {{"counting_track"}, Counting} :
        \A q \in Requests : /\ pc'[q] \in P <=> pc[q] \in P
                            /\ pc[q] \in P => at'[q] = at[q] /\ at[q] # e
  BY <1>3, <1>4, <1>5
<1>7. \A d \in Unused' : song'[d] = NoSong /\ history'[d] = 0
  BY <1>1, <1>2 DEF CountInv, Unused
<1>8. TypeOK
  BY DEF IInv
<1>9. CountersFollowHistory'
  <2>1. ASSUME NEW t \in Tracks
        PROVE  (\E lost \in 0..faults : Counted(playCount[t] + lost, OfTrack(t), {"counting_track"}))'
    <3>1. OfTrack(t)' = OfTrack(t) \/ OfTrack(t)' = OfTrack(t) \cup {e}
      BY <1>1, <1>2 DEF OfTrack
    <3>2. PICK lost \in 0..faults : Counted(playCount[t] + lost, OfTrack(t), {"counting_track"})
      BY <1>1 DEF CountInv, CountersFollowHistory, OfTrack
    <3>3. OfTrack(t) \in SUBSET Entries
      BY DEF OfTrack
    <3>4. PICK T : T = OfTrack(t)'
      OBVIOUS
    <3>5. Plays(T)' = (playCount[t] + lost) + Cardinality(UnderWay(T, {"counting_track"})')
      BY <1>1, <1>6, <1>8, <3>1, <3>2, <3>4, <3>3, GrownCount
    <3> QED BY <1>1, <3>4, <3>5 DEF Counted
  <2>2. ASSUME NEW p \in Singers
        PROVE  (\E lost \in 0..faults : Counted(played[p] + lost, OfSinger(p), Counting))'
    <3>1. OfSinger(p)' = OfSinger(p) \/ OfSinger(p)' = OfSinger(p) \cup {e}
      BY <1>1, <1>2 DEF OfSinger
    <3>2. PICK lost \in 0..faults : Counted(played[p] + lost, OfSinger(p), Counting)
      BY <1>1 DEF CountInv, CountersFollowHistory, OfSinger
    <3>3. OfSinger(p) \in SUBSET Entries
      BY DEF OfSinger
    <3>4. PICK T : T = OfSinger(p)'
      OBVIOUS
    <3> HIDE DEF Counting
    <3>5. Plays(T)' = (played[p] + lost) + Cardinality(UnderWay(T, Counting)')
      BY <1>1, <1>6, <1>8, <3>1, <3>2, <3>4, <3>3, GrownCount
    <3> QED BY <1>1, <3>4, <3>5 DEF Counted, Counting
  <2> QED BY <2>1, <2>2 DEF CountersFollowHistory
<1> QED BY <1>7, <1>9 DEF CountInv

LEMMA RecordCountStep ==
  ASSUME IInv, CountInv, faults' = faults, NEW r \in Requests, RecordPlay(r)
  PROVE  CountInv'
<1> DEFINE Counting == {"counting_track", "counting_singer"}
<1>1. /\ UNCHANGED <<status, song, playCount, played, at>>
      /\ at[r] \in Entries \ Unused
      /\ history' = [history EXCEPT ![at[r]] = @ + 1]
      /\ \A q \in Requests \ {r} : pc'[q] = pc[q]
      /\ pc[r] = "recording" /\ pc'[r] = "counting_track"
  BY DEF RecordPlay, rowVars, argVars, Goto, IInv, TypeOK, RequestInv
<1>2. /\ playCount \in [Tracks -> Nat] /\ played \in [Singers -> Nat]
      /\ history \in [Entries -> Nat] /\ faults \in Nat
      /\ TypeOK
  BY BoundsAssumption DEF IInv, TypeOK
<1>3. \A d \in Unused' : song'[d] = NoSong /\ history'[d] = 0
  BY <1>1, <1>2 DEF CountInv, Unused
<1>4. CountersFollowHistory'
  <2>1. ASSUME NEW t \in Tracks
        PROVE  (\E lost \in 0..faults : Counted(playCount[t] + lost, OfTrack(t), {"counting_track"}))'
    <3> DEFINE S == OfTrack(t)
    <3>1. S \in SUBSET Entries /\ S' = S
      BY <1>1 DEF OfTrack
    <3>2. PICK lost \in 0..faults : Counted(playCount[t] + lost, S, {"counting_track"})
      BY <1>1, <1>2 DEF CountInv, CountersFollowHistory
    <3>nat. playCount[t] + lost \in Nat
      BY <1>2, <3>2
    <3> HIDE DEF S
    <3>3. Plays(S)' = (playCount[t] + lost) + Cardinality(UnderWay(S, {"counting_track"})')
      BY <1>1, <1>2, <3>1, <3>2, <3>nat, RecordedCount
    <3> QED BY <1>1, <3>1, <3>3 DEF Counted, S
  <2>2. ASSUME NEW p \in Singers
        PROVE  (\E lost \in 0..faults : Counted(played[p] + lost, OfSinger(p), Counting))'
    <3> DEFINE S == OfSinger(p)
    <3>1. S \in SUBSET Entries /\ S' = S
      BY <1>1 DEF OfSinger
    <3>2. PICK lost \in 0..faults : Counted(played[p] + lost, S, Counting)
      BY <1>1, <1>2 DEF CountInv, CountersFollowHistory
    <3>nat. played[p] + lost \in Nat
      BY <1>2, <3>2
    <3>3. pc[r] \notin Counting /\ pc'[r] \in Counting
      BY <1>1
    <3> HIDE DEF S, Counting
    <3>4. Plays(S)' = (played[p] + lost) + Cardinality(UnderWay(S, Counting)')
      BY <1>1, <1>2, <3>1, <3>2, <3>nat, <3>3, RecordedCount
    <3> QED BY <1>1, <3>1, <3>4 DEF Counted, S, Counting
  <2> QED BY <2>1, <2>2 DEF CountersFollowHistory
<1> QED BY <1>3, <1>4 DEF CountInv

LEMMA TrackCountStep ==
  ASSUME IInv, CountInv, faults' = faults, NEW r \in Requests, CountTrack(r)
  PROVE  CountInv'
<1> DEFINE Counting == {"counting_track", "counting_singer"}
<1>1. /\ UNCHANGED <<status, song, history, played, at>>
      /\ at[r] \in Entries \ Unused /\ ask[r] = song[at[r]] /\ ask[r] \in Songs
      /\ playCount' = [playCount EXCEPT ![ask[r][2]] = @ + 1]
      /\ \A q \in Requests \ {r} : pc'[q] = pc[q] /\ at'[q] = at[q]
      /\ pc[r] = "counting_track" /\ pc'[r] = "counting_singer"
  BY DEF CountTrack, rowVars, argVars, Goto, IInv, TypeOK, RequestInv, SongInv
<1>2. /\ playCount \in [Tracks -> Nat] /\ played \in [Singers -> Nat]
      /\ NoSong \notin Songs /\ faults \in Nat
  BY BoundsAssumption DEF IInv, TypeOK
<1>3. \A d \in Unused' : song'[d] = NoSong /\ history'[d] = 0
  BY <1>1 DEF CountInv, Unused
<1>4. CountersFollowHistory'
  <2>1. ASSUME NEW t \in Tracks
        PROVE  (\E lost \in 0..faults : Counted(playCount[t] + lost, OfTrack(t), {"counting_track"}))'
    <3> DEFINE S == OfTrack(t)
    <3>1. S \in SUBSET Entries /\ S' = S /\ (at[r] \in S <=> ask[r][2] = t)
      BY <1>1, <1>2 DEF OfTrack
    <3>2. PICK lost \in 0..faults : Counted(playCount[t] + lost, S, {"counting_track"})
      BY <1>1, <1>2 DEF CountInv, CountersFollowHistory
    <3>nat. playCount[t] + lost \in Nat
      BY <1>2, <3>2
    <3>3. playCount'[t] = IF ask[r][2] = t THEN playCount[t] + 1 ELSE playCount[t]
      BY <1>1, <1>2
    <3> HIDE DEF S
    <3>4. CASE at[r] \in S
      <4>1. Plays(S)' = ((playCount[t] + lost) + 1) + Cardinality(UnderWay(S, {"counting_track"})')
        BY <1>1, <3>1, <3>2, <3>4, <3>nat, CountedCount
      <4>2. (playCount[t] + lost) + 1 = playCount'[t] + lost
        BY <1>2, <3>1, <3>2, <3>3, <3>4
      <4> QED BY <3>1, <3>2, <4>1, <4>2 DEF Counted, S
    <3>5. CASE at[r] \notin S
      <4>1. UnderWay(S, {"counting_track"})' = UnderWay(S, {"counting_track"})
        BY <1>1, <3>1, <3>5 DEF UnderWay
      <4>2. Plays(S)' = Plays(S)
        BY <1>1, <3>1, PlaysAreSums, PlaysAreSumsNext
      <4>3. Plays(S)' = (playCount[t] + lost) + Cardinality(UnderWay(S, {"counting_track"})')
        BY <3>2, <4>1, <4>2 DEF Counted
      <4> QED BY <3>1, <3>3, <3>5, <4>3 DEF Counted, S
    <3> QED BY <3>4, <3>5
  <2>2. ASSUME NEW p \in Singers
        PROVE  (\E lost \in 0..faults : Counted(played[p] + lost, OfSinger(p), Counting))'
    <3> DEFINE S == OfSinger(p)
    <3>1. S \in SUBSET Entries /\ S' = S
      BY <1>1 DEF OfSinger
    <3>2. PICK lost \in 0..faults : Counted(played[p] + lost, S, Counting)
      BY <1>1 DEF CountInv, CountersFollowHistory
    <3>nat. played[p] + lost \in Nat
      BY <1>2, <3>2
    <3>3. \A q \in Requests : (pc'[q] \in Counting <=> pc[q] \in Counting)
                             /\ (pc[q] \in Counting => at'[q] = at[q])
      BY <1>1
    <3> HIDE DEF S, Counting
    <3>4. Plays(S)' = (played[p] + lost) + Cardinality(UnderWay(S, Counting)')
      BY <1>1, <3>1, <3>2, <3>3, SameCount
    <3> QED BY <1>1, <3>1, <3>4 DEF Counted, S, Counting
  <2> QED BY <2>1, <2>2 DEF CountersFollowHistory
<1> QED BY <1>3, <1>4 DEF CountInv

LEMMA SingerCountStep ==
  ASSUME IInv, CountInv, faults' = faults, NEW r \in Requests, CountSinger(r)
  PROVE  CountInv'
<1> DEFINE Counting == {"counting_track", "counting_singer"}
<1>1. /\ UNCHANGED <<status, song, history, playCount>>
      /\ at[r] \in Entries \ Unused /\ ask[r] = song[at[r]] /\ ask[r] \in Songs
      /\ played' = [played EXCEPT ![ask[r][1]] = @ + 1]
      /\ \A q \in Requests \ {r} : pc'[q] = pc[q] /\ at'[q] = at[q]
      /\ pc[r] = "counting_singer" /\ pc'[r] = "idle"
  BY DEF CountSinger, rowVars, Leave, Goto, IInv, TypeOK, RequestInv, SongInv
<1>2. /\ playCount \in [Tracks -> Nat] /\ played \in [Singers -> Nat]
      /\ NoSong \notin Songs /\ faults \in Nat
  BY BoundsAssumption DEF IInv, TypeOK
<1>3. \A d \in Unused' : song'[d] = NoSong /\ history'[d] = 0
  BY <1>1 DEF CountInv, Unused
<1>4. CountersFollowHistory'
  <2>1. ASSUME NEW t \in Tracks
        PROVE  (\E lost \in 0..faults : Counted(playCount[t] + lost, OfTrack(t), {"counting_track"}))'
    <3> DEFINE S == OfTrack(t)
    <3>1. S \in SUBSET Entries /\ S' = S
      BY <1>1 DEF OfTrack
    <3>2. PICK lost \in 0..faults : Counted(playCount[t] + lost, S, {"counting_track"})
      BY <1>1 DEF CountInv, CountersFollowHistory
    <3>nat. playCount[t] + lost \in Nat
      BY <1>2, <3>2
    <3> HIDE DEF S
    <3>3. Plays(S)' = (playCount[t] + lost) + Cardinality(UnderWay(S, {"counting_track"})')
      BY <1>1, <3>1, <3>2, SameCount
    <3> QED BY <1>1, <3>1, <3>3 DEF Counted, S
  <2>2. ASSUME NEW p \in Singers
        PROVE  (\E lost \in 0..faults : Counted(played[p] + lost, OfSinger(p), Counting))'
    <3> DEFINE S == OfSinger(p)
    <3>1. S \in SUBSET Entries /\ S' = S /\ (at[r] \in S <=> ask[r][1] = p)
      BY <1>1, <1>2 DEF OfSinger
    <3>2. PICK lost \in 0..faults : Counted(played[p] + lost, S, Counting)
      BY <1>1, <1>2 DEF CountInv, CountersFollowHistory
    <3>nat. played[p] + lost \in Nat
      BY <1>2, <3>2
    <3>3. played'[p] = IF ask[r][1] = p THEN played[p] + 1 ELSE played[p]
      BY <1>1, <1>2
    <3>4. pc[r] \in Counting /\ pc'[r] \notin Counting
      BY <1>1
    <3> HIDE DEF S, Counting
    <3>5. CASE at[r] \in S
      <4>1. Plays(S)' = ((played[p] + lost) + 1) + Cardinality(UnderWay(S, Counting)')
        BY <1>1, <3>1, <3>2, <3>4, <3>5, <3>nat, CountedCount
      <4>2. (played[p] + lost) + 1 = played'[p] + lost
        BY <1>2, <3>1, <3>2, <3>3, <3>5
      <4> QED BY <3>1, <3>2, <4>1, <4>2 DEF Counted, S, Counting
    <3>6. CASE at[r] \notin S
      <4>1. UnderWay(S, Counting)' = UnderWay(S, Counting)
        BY <1>1, <3>1, <3>4, <3>6 DEF UnderWay
      <4>2. Plays(S)' = Plays(S)
        BY <1>1, <3>1, PlaysAreSums, PlaysAreSumsNext
      <4>3. Plays(S)' = (played[p] + lost) + Cardinality(UnderWay(S, Counting)')
        BY <3>2, <4>1, <4>2 DEF Counted
      <4> QED BY <3>1, <3>3, <3>6, <4>3 DEF Counted, S, Counting
    <3> QED BY <3>5, <3>6
  <2> QED BY <2>1, <2>2 DEF CountersFollowHistory
<1> QED BY <1>3, <1>4 DEF CountInv

\* A request that fails while it counts leaves one play uncounted.
LEMMA FailedCount ==
  ASSUME NEW S \in SUBSET Entries, NEW P, NEW n \in Nat, Counted(n, S, P), NEW r \in Requests,
         history' = history, pc'[r] \notin P,
         \A q \in Requests \ {r} : pc'[q] = pc[q] /\ at'[q] = at[q]
  PROVE  \E more \in {0, 1} : Plays(S)' = (n + more) + Cardinality(UnderWay(S, P)')
<1>1. CASE r \in UnderWay(S, P)
  BY <1>1, CountedCount DEF UnderWay
<1>2. CASE r \notin UnderWay(S, P)
  <2>1. UnderWay(S, P)' = UnderWay(S, P)
    BY <1>2 DEF UnderWay
  <2>2. Plays(S)' = Plays(S)
    BY PlaysAreSums, PlaysAreSumsNext
  <2> QED BY <2>1, <2>2 DEF Counted
<1> QED BY <1>1, <1>2

LEMMA FailCountStep ==
  ASSUME IInv, CountInv, NEW r \in Requests, Fail(r)
  PROVE  CountInv'
<1> DEFINE Counting == {"counting_track", "counting_singer"}
<1>1. /\ faults' = faults + 1 /\ UNCHANGED <<status, song, history, playCount, played>>
      /\ \A q \in Requests \ {r} : pc'[q] = pc[q] /\ at'[q] = at[q]
      /\ pc'[r] = "idle"
  BY DEF Fail, rowVars, countVars, Leave, Goto, IInv, TypeOK
<1>2. playCount \in [Tracks -> Nat] /\ played \in [Singers -> Nat] /\ faults \in Nat
  BY BoundsAssumption DEF IInv, TypeOK
<1>3. \A d \in Unused' : song'[d] = NoSong /\ history'[d] = 0
  BY <1>1 DEF CountInv, Unused
<1>4. CountersFollowHistory'
  <2>1. ASSUME NEW t \in Tracks
        PROVE  (\E lost \in 0..faults : Counted(playCount[t] + lost, OfTrack(t), {"counting_track"}))'
    <3> DEFINE S == OfTrack(t)
    <3>1. S \in SUBSET Entries /\ S' = S
      BY <1>1 DEF OfTrack
    <3>2. PICK lost \in 0..faults : Counted(playCount[t] + lost, S, {"counting_track"})
      BY DEF CountInv, CountersFollowHistory
    <3>3. playCount[t] + lost \in Nat /\ lost \in Nat
      BY <1>2, <3>2
    <3> HIDE DEF S
    <3>4. PICK more \in {0, 1} :
            Plays(S)' = ((playCount[t] + lost) + more) + Cardinality(UnderWay(S, {"counting_track"})')
      BY <1>1, <3>1, <3>2, <3>3, FailedCount
    <3>5. lost + more \in 0..faults' /\ (playCount[t] + lost) + more = playCount'[t] + (lost + more)
      BY <1>1, <1>2, <3>2, <3>3
    <3> QED BY <3>1, <3>4, <3>5 DEF Counted, S
  <2>2. ASSUME NEW p \in Singers
        PROVE  (\E lost \in 0..faults : Counted(played[p] + lost, OfSinger(p), Counting))'
    <3> DEFINE S == OfSinger(p)
    <3>1. S \in SUBSET Entries /\ S' = S
      BY <1>1 DEF OfSinger
    <3>2. PICK lost \in 0..faults : Counted(played[p] + lost, S, Counting)
      BY DEF CountInv, CountersFollowHistory
    <3>3. played[p] + lost \in Nat /\ lost \in Nat /\ pc'[r] \notin Counting
      BY <1>1, <1>2, <3>2
    <3> HIDE DEF S, Counting
    <3>4. PICK more \in {0, 1} :
            Plays(S)' = ((played[p] + lost) + more) + Cardinality(UnderWay(S, Counting)')
      BY <1>1, <3>1, <3>2, <3>3, FailedCount
    <3>5. lost + more \in 0..faults' /\ (played[p] + lost) + more = played'[p] + (lost + more)
      BY <1>1, <1>2, <3>2, <3>3
    <3> QED BY <3>1, <3>4, <3>5 DEF Counted, S, Counting
  <2> QED BY <2>1, <2>2 DEF CountersFollowHistory
<1> QED BY <1>3, <1>4 DEF CountInv

LEMMA InitCountInv == Init => CountInv
<1> SUFFICES ASSUME Init PROVE CountInv
  OBVIOUS
<1>1. /\ \A e \in Entries : song[e] = NoSong /\ history[e] = 0
      /\ \A r \in Requests : pc[r] = "idle"
      /\ \A t \in Tracks : playCount[t] = 0
      /\ \A p \in Singers : played[p] = 0
      /\ faults = 0
  BY DEF Init
<1>2. ASSUME NEW S, S = {}, NEW P, P \subseteq {"counting_track", "counting_singer"}
      PROVE  Counted(0 + 0, S, P)
  <2>1. IsFiniteSet(S) /\ Cardinality(S) = 0
    BY <1>2, FS_EmptySet
  <2>2. UnderWay(S, P) = S
    BY <1>2 DEF UnderWay
  <2>3. SumOf(history, S) = 0
    BY <1>2, <2>1, SumOfNothing
  <2> QED BY <2>1, <2>2, <2>3, PlaysAreSums DEF Counted
<1>3. \A t \in Tracks : OfTrack(t) = {}
  BY <1>1 DEF OfTrack
<1>4. \A p \in Singers : OfSinger(p) = {}
  BY <1>1 DEF OfSinger
<1>5. \A e \in Unused : song[e] = NoSong /\ history[e] = 0
  BY <1>1 DEF Unused
<1>6. 0 \in 0..faults /\ 0 + 0 = 0
  BY <1>1
<1>7. CountersFollowHistory
  <2>1. \A t \in Tracks : Counted(playCount[t] + 0, OfTrack(t), {"counting_track"})
    BY <1>1, <1>2, <1>3
  <2>2. \A p \in Singers : Counted(played[p] + 0, OfSinger(p), {"counting_track", "counting_singer"})
    BY <1>1, <1>2, <1>4
  <2> QED BY <1>6, <2>1, <2>2 DEF CountersFollowHistory
<1> QED BY <1>5, <1>7 DEF CountInv

LEMMA CountInvStep == IInv /\ CountInv /\ [Next]_vars => CountInv'
<1> SUFFICES ASSUME IInv, CountInv, [Next]_vars PROVE CountInv'
  OBVIOUS
<1>1. ASSUME NEW r \in Requests, Fail(r)
      PROVE  CountInv'
  BY <1>1, FailCountStep
<1>2. ASSUME Terminate \/ UNCHANGED vars
      PROVE  CountInv'
  <2>1. UNCHANGED <<status, song, history, playCount, played, pc, at, faults>>
    BY <1>2 DEF Terminate, countVars, argVars, rowVars, vars
  <2>2. \A S, P : UnderWay(S, P)' = UnderWay(S, P)
    BY <2>1 DEF UnderWay
  <2>3. (\A t : OfTrack(t)' = OfTrack(t)) /\ (\A p : OfSinger(p)' = OfSinger(p))
    BY <2>1 DEF OfTrack, OfSinger
  <2>4. \A n, S, P : Counted(n, S, P)' = Counted(n, S, P)
    <3>1. \A S : Plays(S)' = Plays(S)
      BY <2>1, PlaysAreSums, PlaysAreSumsNext
    <3> QED BY <2>2, <3>1 DEF Counted
  <2> QED BY <2>1, <2>3, <2>4 DEF CountInv, CountersFollowHistory, Unused
<1>3. ASSUME NEW r \in Requests, Arrive(r) \/ Statement(r)
      PROVE  CountInv'
  <2>1. faults' = faults
    BY <1>3 DEF Arrive, AddRequest, SkipRequest, StartRequest, FinishRequest, DeleteRequest, Come,
         Statement, ReadMax, Insert, ReadAgain, MarkSkipped, MarkPlaying, MarkDone, Delete,
         RecordPlay, CountTrack, CountSinger
  <2> QED
    BY <1>3, <2>1, QuietCountStep, InsertCountStep, RecordCountStep, TrackCountStep,
       SingerCountStep DEF Statement
<1> QED BY <1>1, <1>2, <1>3 DEF Next

\* The counters of tracks and singers never double a song that is in the history, and lose
\* one for a failed request at most: they lag behind it by the requests about to count and
\* those that failed, whatever else is added, skipped or deleted meanwhile.
THEOREM CountersFollow == Spec => []CountersFollowHistory
<1>1. Spec => []CountInv
  BY Invariance, InitCountInv, CountInvStep, PTL DEF Spec
<1> QED BY <1>1, PTL DEF CountInv
=============================================================================
