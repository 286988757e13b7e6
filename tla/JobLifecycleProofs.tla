------------------------- MODULE JobLifecycleProofs -------------------------
(***************************************************************************)
(* Machine-checked proofs about JobLifecycle, for any number of jobs,       *)
(* workers, handler slots, faults and message copies.                       *)
(*                                                                          *)
(* IInv is the inductive invariant.  Each lemma below takes one group of    *)
(* actions; under it there is one step per action, and under that one step  *)
(* per conjunct of IInv the action can disturb, with the conjuncts that do  *)
(* not mention what it changes taken together at the end.                   *)
(*                                                                          *)
(* The conjuncts lean on each other: a restart resets no job that is being  *)
(* worked on because LockIsHeldByProcessor and HandlerInv say its owner is  *)
(* running; a lock is taken only by one handler because RowInv says that a  *)
(* job being worked on is not pending; completion finds its artifacts       *)
(* because ProgressInv follows the handler through the last steps.          *)
(***************************************************************************)
EXTENDS JobLifecycle, TLAPS

USE NobodyAssumption, WorkerOfAssumption, FaultAssumption
    DEF Processing, Pipeline, Steps, Final, Phases, Terminal, Statuses,
        Trackless, Abandoned, ExtraTracksCostFaults

-----------------------------------------------------------------------------
(* The inductive invariant *)

\* Before the first upload nothing runs and every row is absent.
LEMMA InitInv == Init => IInv
<1> SUFFICES ASSUME Init PROVE IInv
  OBVIOUS
<1> USE DEF Init
<1>1. TypeOK
  BY DEF TypeOK
<1>2. HandlerInv /\ RowInv /\ ProgressInv
  BY DEF HandlerInv, RowInv, ProgressInv
<1>3. ExclusiveProcessing /\ LockIsHeldByProcessor /\ CompletedHasArtifacts
  BY DEF ExclusiveProcessing, LockIsHeldByProcessor, CompletedHasArtifacts
<1>4. OwnedInv /\ TracksInv
  BY DEF OwnedInv, TracksInv
<1> QED BY <1>1, <1>2, <1>3, <1>4 DEF IInv


\* The backend's upload handler: the INSERT and the publish.
LEMMA UploadStep ==
  ASSUME IInv, NEW j \in Jobs, Upload(j)
  PROVE  IInv'
<1> USE DEF IInv, TypeOK, HandlerInv, RowInv
<1>1. CASE CreateJob(j)
  <2> USE <1>1 DEF CreateJob, resultVars, brokerVars, taskVars
  <2>1. TypeOK' OBVIOUS
  <2>2. RowInv' OBVIOUS
  <2>3. LockIsHeldByProcessor' BY DEF LockIsHeldByProcessor
  <2>4. CompletedHasArtifacts' BY DEF CompletedHasArtifacts
  <2>5. OwnedInv' BY DEF OwnedInv, DatabaseAnswers
  <2>6. TracksInv' BY DEF TracksInv
  <2>7. (HandlerInv /\ ProgressInv /\ ExclusiveProcessing)'
    BY DEF ProgressInv, ExclusiveProcessing
  <2> QED BY <2>1, <2>2, <2>3, <2>4, <2>5, <2>6, <2>7
<1>2. CASE PublishJob(j)
  <2> USE <1>2 DEF PublishJob, rowVars, resultVars, taskVars
  <2>1. TypeOK' OBVIOUS
  <2>2. RowInv' OBVIOUS
  <2>3. (HandlerInv /\ ProgressInv /\ ExclusiveProcessing /\ LockIsHeldByProcessor /\
         CompletedHasArtifacts /\ OwnedInv /\ TracksInv)'
    BY DEF ProgressInv, ExclusiveProcessing, LockIsHeldByProcessor, CompletedHasArtifacts,
           OwnedInv, TracksInv, DatabaseAnswers
  <2> QED BY <2>1, <2>2, <2>3
<1>3. CASE PublishJobLost(j)
  <2> USE <1>3 DEF PublishJobLost, Fault, rowVars, resultVars, brokerVars, taskVars
  <2>1. TypeOK' OBVIOUS
  <2>2. RowInv' OBVIOUS
  <2>3. OwnedInv' BY DEF OwnedInv, DatabaseAnswers
  <2>4. TracksInv' BY DEF TracksInv
  <2>5. (HandlerInv /\ ProgressInv /\ ExclusiveProcessing /\ LockIsHeldByProcessor /\
         CompletedHasArtifacts)'
    BY DEF ProgressInv, ExclusiveProcessing, LockIsHeldByProcessor, CompletedHasArtifacts
  <2> QED BY <2>1, <2>2, <2>3, <2>4, <2>5
<1> QED BY <1>1, <1>2, <1>3 DEF Upload

\* The broker hands a message to a free consumer.
LEMMA DeliverStep ==
  ASSUME IInv, NEW t \in Tasks, NEW j \in Jobs, Deliver(t, j)
  PROVE  IInv'
<1> USE DEF IInv, TypeOK, HandlerInv, RowInv
<1> USE DEF Deliver, Goto, backendVars, rowVars, resultVars, TasksOf
<1>1. TypeOK' OBVIOUS
<1>2. HandlerInv' OBVIOUS
<1>3. RowInv' OBVIOUS
<1>4. ProgressInv' BY DEF ProgressInv
<1>5. ExclusiveProcessing' BY DEF ExclusiveProcessing
<1>6. LockIsHeldByProcessor' BY DEF LockIsHeldByProcessor
<1>7. OwnedInv' BY DEF OwnedInv, DatabaseAnswers
<1>8. TracksInv' BY DEF TracksInv
<1>9. CompletedHasArtifacts' BY DEF CompletedHasArtifacts
<1> QED BY <1>1, <1>2, <1>3, <1>4, <1>5, <1>6, <1>7, <1>8, <1>9

\* The consumer's handler around the pipeline: lock, fetch, settle.
LEMMA ConsumeStep ==
  ASSUME IInv, NEW t \in Tasks, Consume(t)
  PROVE  IInv'
<1> USE DEF IInv, TypeOK, HandlerInv, RowInv
<1>1. CASE LockJob(t)
  <2> USE <1>1 DEF LockJob, TakeLock, Goto, resultVars, brokerVars
  <2>1. TypeOK' OBVIOUS
  <2>2. HandlerInv' OBVIOUS
  <2>3. RowInv' OBVIOUS
  <2>4. ProgressInv' BY DEF ProgressInv
  <2>5. ExclusiveProcessing' BY DEF ExclusiveProcessing
  <2>6. LockIsHeldByProcessor' BY DEF LockIsHeldByProcessor
  <2>7. CompletedHasArtifacts' BY DEF CompletedHasArtifacts
  <2>8. OwnedInv' BY DEF OwnedInv, DatabaseAnswers
  <2>9. TracksInv' BY DEF TracksInv
  <2> QED BY <2>1, <2>2, <2>3, <2>4, <2>5, <2>6, <2>7, <2>8, <2>9
<1>2. CASE LockRefused(t)
  <2> USE <1>2 DEF LockRefused, Goto, backendVars, rowVars, resultVars, brokerVars
  <2>1. TypeOK' OBVIOUS
  <2>2. HandlerInv' OBVIOUS
  <2>3. RowInv' OBVIOUS
  <2>4. ProgressInv' BY DEF ProgressInv
  <2>5. ExclusiveProcessing' BY DEF ExclusiveProcessing
  <2>6. LockIsHeldByProcessor' BY DEF LockIsHeldByProcessor
  <2>7. OwnedInv' BY DEF OwnedInv, DatabaseAnswers
  <2>8. TracksInv' BY DEF TracksInv
  <2>9. CompletedHasArtifacts' BY DEF CompletedHasArtifacts
  <2> QED BY <2>1, <2>2, <2>3, <2>4, <2>5, <2>6, <2>7, <2>8, <2>9
<1>3. CASE LockRaises(t)
  <2> USE <1>3 DEF LockRaises, Fault, Goto, backendVars, rowVars, resultVars, brokerVars
  <2>1. TypeOK' OBVIOUS
  <2>2. HandlerInv' OBVIOUS
  <2>3. RowInv' OBVIOUS
  <2>4. ProgressInv' BY DEF ProgressInv
  <2>5. ExclusiveProcessing' BY DEF ExclusiveProcessing
  <2>6. LockIsHeldByProcessor' BY DEF LockIsHeldByProcessor
  <2>7. OwnedInv' BY DEF OwnedInv, DatabaseAnswers
  <2>8. TracksInv' BY DEF TracksInv
  <2>9. CompletedHasArtifacts' BY DEF CompletedHasArtifacts
  <2> QED BY <2>1, <2>2, <2>3, <2>4, <2>5, <2>6, <2>7, <2>8, <2>9
<1>4. CASE FetchJob(t)
  <2> USE <1>4 DEF FetchJob, Goto, backendVars, rowVars, resultVars, brokerVars
  <2>1. TypeOK' OBVIOUS
  <2>2. HandlerInv' OBVIOUS
  <2>3. RowInv' OBVIOUS
  <2>4. ProgressInv' BY DEF ProgressInv
  <2>5. ExclusiveProcessing' BY DEF ExclusiveProcessing
  <2>6. LockIsHeldByProcessor' BY DEF LockIsHeldByProcessor
  <2>7. OwnedInv' BY DEF OwnedInv, DatabaseAnswers
  <2>8. TracksInv' BY DEF TracksInv
  <2>9. CompletedHasArtifacts' BY DEF CompletedHasArtifacts
  <2> QED BY <2>1, <2>2, <2>3, <2>4, <2>5, <2>6, <2>7, <2>8, <2>9
<1>5. CASE FetchRaises(t)
  <2> USE <1>5 DEF FetchRaises, Fault, Goto, backendVars, rowVars, resultVars, brokerVars
  <2>1. TypeOK' OBVIOUS
  <2>2. HandlerInv' OBVIOUS
  <2>3. RowInv' OBVIOUS
  <2>4. ProgressInv' BY DEF ProgressInv
  <2>5. ExclusiveProcessing' BY DEF ExclusiveProcessing
  <2>6. LockIsHeldByProcessor' BY DEF LockIsHeldByProcessor
  <2>7. OwnedInv' BY DEF OwnedInv, DatabaseAnswers
  <2>8. TracksInv' BY DEF TracksInv
  <2>9. CompletedHasArtifacts' BY DEF CompletedHasArtifacts
  <2> QED BY <2>1, <2>2, <2>3, <2>4, <2>5, <2>6, <2>7, <2>8, <2>9
<1>6. CASE NackRequeue(t)
  <2> USE <1>6 DEF NackRequeue, Settle, Goto, backendVars, rowVars, resultVars
  <2>1. TypeOK' OBVIOUS
  <2>2. HandlerInv' OBVIOUS
  <2>3. RowInv' OBVIOUS
  <2>4. ProgressInv' BY DEF ProgressInv
  <2>5. ExclusiveProcessing' BY DEF ExclusiveProcessing
  <2>6. LockIsHeldByProcessor' BY DEF LockIsHeldByProcessor
  <2>7. OwnedInv' BY DEF OwnedInv, DatabaseAnswers
  <2>8. TracksInv' BY DEF TracksInv
  <2>9. CompletedHasArtifacts' BY DEF CompletedHasArtifacts
  <2> QED BY <2>1, <2>2, <2>3, <2>4, <2>5, <2>6, <2>7, <2>8, <2>9
<1>7. CASE NackToDlq(t)
  <2> USE <1>7 DEF NackToDlq, Settle, Goto, backendVars, rowVars, resultVars
  <2>1. TypeOK' OBVIOUS
  <2>2. HandlerInv' OBVIOUS
  <2>3. RowInv' OBVIOUS
  <2>4. ProgressInv' BY DEF ProgressInv
  <2>5. ExclusiveProcessing' BY DEF ExclusiveProcessing
  <2>6. LockIsHeldByProcessor' BY DEF LockIsHeldByProcessor
  <2>7. OwnedInv' BY DEF OwnedInv, DatabaseAnswers
  <2>8. TracksInv' BY DEF TracksInv
  <2>9. CompletedHasArtifacts' BY DEF CompletedHasArtifacts
  <2> QED BY <2>1, <2>2, <2>3, <2>4, <2>5, <2>6, <2>7, <2>8, <2>9
<1>8. CASE Ack(t)
  <2> USE <1>8 DEF Ack, Settle, Goto, backendVars, rowVars, resultVars, brokerVars
  <2>1. TypeOK' OBVIOUS
  <2>2. HandlerInv' OBVIOUS
  <2>3. RowInv' OBVIOUS
  <2>4. ProgressInv' BY DEF ProgressInv
  <2>5. ExclusiveProcessing' BY DEF ExclusiveProcessing
  <2>6. LockIsHeldByProcessor' BY DEF LockIsHeldByProcessor
  <2>7. OwnedInv' BY DEF OwnedInv, DatabaseAnswers
  <2>8. TracksInv' BY DEF TracksInv
  <2>9. CompletedHasArtifacts' BY DEF CompletedHasArtifacts
  <2> QED BY <2>1, <2>2, <2>3, <2>4, <2>5, <2>6, <2>7, <2>8, <2>9
<1> QED BY <1>1, <1>2, <1>3, <1>4, <1>5, <1>6, <1>7, <1>8 DEF Consume

\* The pipeline, from separation to its finally block.
LEMMA ProcessStep ==
  ASSUME IInv, NEW t \in Tasks, Process(t)
  PROVE  IInv'
<1> USE DEF IInv, TypeOK, HandlerInv, RowInv
<1>1. CASE Separated(t)
  <2> USE <1>1 DEF Separated, Goto, backendVars, rowVars, resultVars, brokerVars
  <2>1. TypeOK' OBVIOUS
  <2>2. HandlerInv' OBVIOUS
  <2>3. RowInv' OBVIOUS
  <2>4. ProgressInv' BY DEF ProgressInv
  <2>5. ExclusiveProcessing' BY DEF ExclusiveProcessing
  <2>6. LockIsHeldByProcessor' BY DEF LockIsHeldByProcessor
  <2>7. OwnedInv' BY DEF OwnedInv, DatabaseAnswers
  <2>8. TracksInv' BY DEF TracksInv
  <2>9. CompletedHasArtifacts' BY DEF CompletedHasArtifacts
  <2> QED BY <2>1, <2>2, <2>3, <2>4, <2>5, <2>6, <2>7, <2>8, <2>9
<1>2. CASE Analysed(t)
  <2> USE <1>2 DEF Analysed, Goto, backendVars, rowVars, resultVars, brokerVars
  <2>1. TypeOK' OBVIOUS
  <2>2. HandlerInv' OBVIOUS
  <2>3. RowInv' OBVIOUS
  <2>4. ProgressInv' BY DEF ProgressInv
  <2>5. ExclusiveProcessing' BY DEF ExclusiveProcessing
  <2>6. LockIsHeldByProcessor' BY DEF LockIsHeldByProcessor
  <2>7. OwnedInv' BY DEF OwnedInv, DatabaseAnswers
  <2>8. TracksInv' BY DEF TracksInv
  <2>9. CompletedHasArtifacts' BY DEF CompletedHasArtifacts
  <2> QED BY <2>1, <2>2, <2>3, <2>4, <2>5, <2>6, <2>7, <2>8, <2>9
<1>3. CASE StepRaises(t)
  <2> USE <1>3 DEF StepRaises, Goto, backendVars, rowVars, resultVars, brokerVars
  <2>1. TypeOK' OBVIOUS
  <2>2. HandlerInv' OBVIOUS
  <2>3. RowInv' OBVIOUS
  <2>4. ProgressInv' BY DEF ProgressInv
  <2>5. ExclusiveProcessing' BY DEF ExclusiveProcessing
  <2>6. LockIsHeldByProcessor' BY DEF LockIsHeldByProcessor
  <2>7. OwnedInv' BY DEF OwnedInv, DatabaseAnswers
  <2>8. TracksInv' BY DEF TracksInv
  <2>9. CompletedHasArtifacts' BY DEF CompletedHasArtifacts
  <2> QED BY <2>1, <2>2, <2>3, <2>4, <2>5, <2>6, <2>7, <2>8, <2>9
<1>4. CASE AwaitUpload(t)
  <2> USE <1>4 DEF AwaitUpload, Goto, backendVars, rowVars, resultVars, brokerVars
  <2>1. TypeOK' OBVIOUS
  <2>2. HandlerInv' OBVIOUS
  <2>3. RowInv' OBVIOUS
  <2>4. ProgressInv' BY DEF ProgressInv
  <2>5. ExclusiveProcessing' BY DEF ExclusiveProcessing
  <2>6. LockIsHeldByProcessor' BY DEF LockIsHeldByProcessor
  <2>7. OwnedInv' BY DEF OwnedInv, DatabaseAnswers
  <2>8. TracksInv' BY DEF TracksInv
  <2>9. CompletedHasArtifacts' BY DEF CompletedHasArtifacts
  <2> QED BY <2>1, <2>2, <2>3, <2>4, <2>5, <2>6, <2>7, <2>8, <2>9
<1>5. CASE CreateTrack(t)
  <2> USE <1>5 DEF CreateTrack, Goto, backendVars, rowVars, brokerVars
  <2>1. TypeOK' OBVIOUS
  <2>2. HandlerInv' OBVIOUS
  <2>3. RowInv' OBVIOUS
  <2>4. ProgressInv' BY DEF ProgressInv
  <2>5. ExclusiveProcessing' BY DEF ExclusiveProcessing
  <2>6. LockIsHeldByProcessor' BY DEF LockIsHeldByProcessor
  <2>7. CompletedHasArtifacts' BY DEF CompletedHasArtifacts
  <2>8. OwnedInv' BY DEF OwnedInv, DatabaseAnswers
  <2>9. TracksInv'
    <3>1. job[t] \in Jobs /\ status[job[t]] \notin {"none", "pending"}
      OBVIOUS
    <3>2. tracks[job[t]] <= faults
      BY DEF TracksInv
    <3>3. \A u \in Tasks : u # t /\ Processing(u) => job[u] # job[t]
      BY DEF ExclusiveProcessing
    <3> QED BY <3>1, <3>2, <3>3 DEF TracksInv
  <2> QED BY <2>1, <2>2, <2>3, <2>4, <2>5, <2>6, <2>7, <2>8, <2>9
<1>6. CASE LinkTrack(t)
  <2> USE <1>6 DEF LinkTrack, Goto, backendVars, rowVars, brokerVars
  <2>1. TypeOK' OBVIOUS
  <2>2. HandlerInv' OBVIOUS
  <2>3. RowInv' OBVIOUS
  <2>4. ProgressInv' BY DEF ProgressInv
  <2>5. ExclusiveProcessing' BY DEF ExclusiveProcessing
  <2>6. LockIsHeldByProcessor' BY DEF LockIsHeldByProcessor
  <2>7. CompletedHasArtifacts' BY DEF CompletedHasArtifacts
  <2>8. OwnedInv' BY DEF OwnedInv, DatabaseAnswers
  <2>9. TracksInv' BY DEF TracksInv
  <2> QED BY <2>1, <2>2, <2>3, <2>4, <2>5, <2>6, <2>7, <2>8, <2>9
<1>7. CASE CompleteJob(t)
  <2> USE <1>7 DEF CompleteJob, Goto, backendVars, resultVars, brokerVars
  <2>1. TypeOK' OBVIOUS
  <2>2. HandlerInv' OBVIOUS
  <2>3. RowInv' OBVIOUS
  <2>4. ProgressInv' BY DEF ProgressInv
  <2>5. ExclusiveProcessing' BY DEF ExclusiveProcessing
  <2>6. LockIsHeldByProcessor' BY DEF LockIsHeldByProcessor
  <2>7. CompletedHasArtifacts'
    BY DEF CompletedHasArtifacts, ProgressInv
  <2>8. OwnedInv' BY DEF OwnedInv, DatabaseAnswers
  <2>9. TracksInv' BY DEF TracksInv
  <2> QED BY <2>1, <2>2, <2>3, <2>4, <2>5, <2>6, <2>7, <2>8, <2>9
<1>8. CASE FinalRaises(t)
  <2> USE <1>8 DEF FinalRaises, Fault, Goto, backendVars, rowVars, resultVars, brokerVars
  <2>1. TypeOK' OBVIOUS
  <2>2. HandlerInv' OBVIOUS
  <2>3. RowInv' OBVIOUS
  <2>4. ProgressInv' BY DEF ProgressInv
  <2>5. ExclusiveProcessing' BY DEF ExclusiveProcessing
  <2>6. LockIsHeldByProcessor' BY DEF LockIsHeldByProcessor
  <2>7. OwnedInv' BY DEF OwnedInv, DatabaseAnswers
  <2>8. TracksInv' BY DEF TracksInv
  <2>9. CompletedHasArtifacts' BY DEF CompletedHasArtifacts
  <2> QED BY <2>1, <2>2, <2>3, <2>4, <2>5, <2>6, <2>7, <2>8, <2>9
<1>9. CASE PublishRec(t)
  <2> USE <1>9 DEF PublishRec, Goto, backendVars, rowVars, brokerVars
  <2>1. TypeOK' OBVIOUS
  <2>2. HandlerInv' OBVIOUS
  <2>3. RowInv' OBVIOUS
  <2>4. ProgressInv' BY DEF ProgressInv
  <2>5. ExclusiveProcessing' BY DEF ExclusiveProcessing
  <2>6. LockIsHeldByProcessor' BY DEF LockIsHeldByProcessor
  <2>7. OwnedInv' BY DEF OwnedInv, DatabaseAnswers
  <2>8. TracksInv' BY DEF TracksInv
  <2>9. CompletedHasArtifacts' BY DEF CompletedHasArtifacts
  <2> QED BY <2>1, <2>2, <2>3, <2>4, <2>5, <2>6, <2>7, <2>8, <2>9
<1>10. CASE PublishRecRaises(t)
  <2> USE <1>10 DEF PublishRecRaises, Fault, Goto, backendVars, rowVars, resultVars, brokerVars
  <2>1. TypeOK' OBVIOUS
  <2>2. HandlerInv' OBVIOUS
  <2>3. RowInv' OBVIOUS
  <2>4. ProgressInv' BY DEF ProgressInv
  <2>5. ExclusiveProcessing' BY DEF ExclusiveProcessing
  <2>6. LockIsHeldByProcessor' BY DEF LockIsHeldByProcessor
  <2>7. OwnedInv' BY DEF OwnedInv, DatabaseAnswers
  <2>8. TracksInv' BY DEF TracksInv
  <2>9. CompletedHasArtifacts' BY DEF CompletedHasArtifacts
  <2> QED BY <2>1, <2>2, <2>3, <2>4, <2>5, <2>6, <2>7, <2>8, <2>9
<1>11. CASE MarkFailed(t)
  <2> USE <1>11 DEF MarkFailed, Failed, Goto, resultVars, brokerVars
  <2>1. TypeOK' OBVIOUS
  <2>2. HandlerInv' OBVIOUS
  <2>3. RowInv' OBVIOUS
  <2>4. ProgressInv' BY DEF ProgressInv
  <2>5. ExclusiveProcessing' BY DEF ExclusiveProcessing
  <2>6. LockIsHeldByProcessor' BY DEF LockIsHeldByProcessor
  <2>7. CompletedHasArtifacts' BY DEF CompletedHasArtifacts
  <2>8. OwnedInv' BY DEF OwnedInv, DatabaseAnswers
  <2>9. TracksInv' BY DEF TracksInv
  <2> QED BY <2>1, <2>2, <2>3, <2>4, <2>5, <2>6, <2>7, <2>8, <2>9
<1>12. CASE MarkFailedRaises(t)
  <2> USE <1>12 DEF MarkFailedRaises, Fault, Goto, backendVars, rowVars, resultVars, brokerVars
  <2>1. TypeOK' OBVIOUS
  <2>2. HandlerInv' OBVIOUS
  <2>3. RowInv' OBVIOUS
  <2>4. ProgressInv' BY DEF ProgressInv
  <2>5. ExclusiveProcessing' BY DEF ExclusiveProcessing
  <2>6. LockIsHeldByProcessor' BY DEF LockIsHeldByProcessor
  <2>7. OwnedInv' BY DEF OwnedInv, DatabaseAnswers
  <2>8. TracksInv' BY DEF TracksInv
  <2>9. CompletedHasArtifacts' BY DEF CompletedHasArtifacts
  <2> QED BY <2>1, <2>2, <2>3, <2>4, <2>5, <2>6, <2>7, <2>8, <2>9
<1>13. CASE Cleanup(t)
  <2> USE <1>13 DEF Cleanup, Goto, backendVars, rowVars, resultVars, brokerVars
  <2>1. TypeOK' OBVIOUS
  <2>2. HandlerInv' OBVIOUS
  <2>3. RowInv' OBVIOUS
  <2>4. ProgressInv' BY DEF ProgressInv
  <2>5. ExclusiveProcessing' BY DEF ExclusiveProcessing
  <2>6. LockIsHeldByProcessor' BY DEF LockIsHeldByProcessor
  <2>7. OwnedInv' BY DEF OwnedInv, DatabaseAnswers
  <2>8. TracksInv' BY DEF TracksInv
  <2>9. CompletedHasArtifacts' BY DEF CompletedHasArtifacts
  <2> QED BY <2>1, <2>2, <2>3, <2>4, <2>5, <2>6, <2>7, <2>8, <2>9
<1> QED BY <1>1, <1>2, <1>3, <1>4, <1>5, <1>6, <1>7, <1>8, <1>9, <1>10, <1>11, <1>12,
       <1>13 DEF Process

\* The background upload of the instrumental.
LEMMA EncodeStep ==
  ASSUME IInv, NEW t \in Tasks, Encode(t)
  PROVE  IInv'
<1> USE DEF IInv, TypeOK, HandlerInv, RowInv
<1>1. CASE EncodeUpload(t)
  <2> USE <1>1 DEF EncodeUpload, backendVars, rowVars, brokerVars
  <2>1. TypeOK' OBVIOUS
  <2>2. HandlerInv' OBVIOUS
  <2>3. ProgressInv' BY DEF ProgressInv
  <2>4. CompletedHasArtifacts' BY DEF CompletedHasArtifacts
  <2>5. (RowInv /\ ExclusiveProcessing /\ LockIsHeldByProcessor /\ OwnedInv
         /\ TracksInv)'
    BY DEF ExclusiveProcessing, LockIsHeldByProcessor, OwnedInv, TracksInv,
           DatabaseAnswers
  <2> QED BY <2>1, <2>2, <2>3, <2>4, <2>5
<1>2. CASE EncodeEnd(t)
  <2> USE <1>2 DEF EncodeEnd, backendVars, rowVars, resultVars, brokerVars
  <2>1. TypeOK' OBVIOUS
  <2>2. HandlerInv' OBVIOUS
  <2>3. (RowInv /\ ProgressInv /\ ExclusiveProcessing /\ LockIsHeldByProcessor /\
         CompletedHasArtifacts /\ OwnedInv /\ TracksInv)'
    BY DEF ProgressInv, ExclusiveProcessing, LockIsHeldByProcessor, CompletedHasArtifacts, OwnedInv, TracksInv, DatabaseAnswers
  <2> QED BY <2>1, <2>2, <2>3
<1> QED BY <1>1, <1>2 DEF Encode

\* A worker process loses its channel, dies or starts.
LEMMA WorkerStep ==
  ASSUME IInv, NEW w \in Workers, ChannelLost(w) \/ Crash(w) \/ StartWorker(w)
  PROVE  IInv'
<1> USE DEF IInv, TypeOK, HandlerInv, RowInv
<1>1. CASE ChannelLost(w)
  <2> USE <1>1 DEF ChannelLost, Redeliver, Fault, backendVars, rowVars, resultVars, TasksOf
  <2>1. TypeOK' OBVIOUS
  <2>2. HandlerInv' OBVIOUS
  <2>3. OwnedInv' BY DEF OwnedInv, DatabaseAnswers
  <2>4. TracksInv' BY DEF TracksInv
  <2>5. (RowInv /\ ProgressInv /\ ExclusiveProcessing /\ LockIsHeldByProcessor /\
         CompletedHasArtifacts)'
    BY DEF ProgressInv, ExclusiveProcessing, LockIsHeldByProcessor, CompletedHasArtifacts
  <2> QED BY <2>1, <2>2, <2>3, <2>4, <2>5
<1>2. CASE Crash(w)
  <2> USE <1>2 DEF Crash, Redeliver, Fault, backendVars, rowVars, resultVars, TasksOf
  <2>1. TypeOK' OBVIOUS
  <2>2. HandlerInv' OBVIOUS
  <2>3. RowInv' OBVIOUS
  <2>4. ProgressInv' BY DEF ProgressInv
  <2>5. ExclusiveProcessing' BY DEF ExclusiveProcessing
  <2>6. LockIsHeldByProcessor' BY DEF LockIsHeldByProcessor
  <2>7. OwnedInv' BY DEF OwnedInv, DatabaseAnswers
  <2>8. TracksInv' BY DEF TracksInv
  <2>9. CompletedHasArtifacts' BY DEF CompletedHasArtifacts
  <2> QED BY <2>1, <2>2, <2>3, <2>4, <2>5, <2>6, <2>7, <2>8, <2>9
<1>3. CASE StartWorker(w)
  <2> USE <1>3 DEF StartWorker, LeftRunningBy, resultVars, brokerVars, taskVars
  <2>1. TypeOK' OBVIOUS
  <2>2. HandlerInv' OBVIOUS
  <2>3. RowInv'
    <3>1. \A t \in Tasks : Processing(t) => job[t] \in Jobs /\ job[t] \notin LeftRunningBy(w)
      BY DEF LockIsHeldByProcessor
    <3>2. \A t \in Tasks : pc[t] = "acking" => job[t] \in Jobs /\ job[t] \notin LeftRunningBy(w)
      OBVIOUS
    <3> QED BY <3>1, <3>2
  <2>4. LockIsHeldByProcessor' BY DEF LockIsHeldByProcessor
  <2>5. CompletedHasArtifacts' BY DEF CompletedHasArtifacts
  <2>6. OwnedInv' BY DEF OwnedInv, DatabaseAnswers
  <2>7. TracksInv'
    <3>1. \A j \in LeftRunningBy(w) : Abandoned(j)
      BY DEF LockIsHeldByProcessor
    <3>2. \A j \in LeftRunningBy(w) : tracks[j] <= faults
      BY <3>1 DEF TracksInv
    <3> QED BY <3>2 DEF TracksInv
  <2>8. (ProgressInv /\ ExclusiveProcessing)'
    BY DEF ProgressInv, ExclusiveProcessing
  <2> QED BY <2>1, <2>2, <2>3, <2>4, <2>5, <2>6, <2>7, <2>8
<1> QED BY <1>1, <1>2, <1>3

\* The clocks the sweeper compares with its limits, and the dead letters' own.
LEMMA ClockStep ==
  ASSUME IInv, NEW j \in Jobs, GrowStale(j) \/ Expire(j) \/ DropDead(j)
  PROVE  IInv'
<1> USE DEF IInv, TypeOK, HandlerInv, RowInv
<1>1. CASE GrowStale(j)
  <2> USE <1>1 DEF GrowStale, RequestOver, rowVars, resultVars, brokerVars, taskVars
  <2>1. TypeOK' OBVIOUS
  <2>2. RowInv' OBVIOUS
  <2>3. (HandlerInv /\ ProgressInv /\ ExclusiveProcessing /\ LockIsHeldByProcessor /\
         CompletedHasArtifacts /\ OwnedInv /\ TracksInv)'
    BY DEF ProgressInv, ExclusiveProcessing, LockIsHeldByProcessor, CompletedHasArtifacts, OwnedInv, TracksInv, DatabaseAnswers
  <2> QED BY <2>1, <2>2, <2>3
<1>2. CASE Expire(j)
  <2> USE <1>2 DEF Expire, RequestOver, rowVars, resultVars, brokerVars, taskVars
  <2>1. TypeOK' OBVIOUS
  <2>2. (HandlerInv /\ RowInv /\ ProgressInv /\ ExclusiveProcessing /\ LockIsHeldByProcessor
         /\ CompletedHasArtifacts /\ OwnedInv /\ TracksInv)'
    BY DEF ProgressInv, ExclusiveProcessing, LockIsHeldByProcessor, CompletedHasArtifacts, OwnedInv, TracksInv, DatabaseAnswers
  <2> QED BY <2>1, <2>2
<1>3. CASE DropDead(j)
  <2> USE <1>3 DEF DropDead, backendVars, rowVars, resultVars, taskVars
  <2>1. TypeOK' OBVIOUS
  <2>2. (HandlerInv /\ RowInv /\ ProgressInv /\ ExclusiveProcessing /\ LockIsHeldByProcessor
         /\ CompletedHasArtifacts /\ OwnedInv /\ TracksInv)'
    BY DEF ProgressInv, ExclusiveProcessing, LockIsHeldByProcessor, CompletedHasArtifacts,
           OwnedInv, TracksInv, DatabaseAnswers
  <2> QED BY <2>1, <2>2
<1> QED BY <1>1, <1>2, <1>3

\* The sweeper's cycle, one candidate at a time.
LEMMA SweepStep ==
  ASSUME IInv, Sweep
  PROVE  IInv'
<1> USE DEF IInv, TypeOK, HandlerInv, RowInv
<1>1. CASE SweepRead
  <2> USE <1>1 DEF SweepRead, StalePending, rowVars, resultVars, brokerVars, taskVars
  <2>1. TypeOK' OBVIOUS
  <2>2. RowInv' OBVIOUS
  <2>3. (HandlerInv /\ ProgressInv /\ ExclusiveProcessing /\ LockIsHeldByProcessor /\
         CompletedHasArtifacts /\ OwnedInv /\ TracksInv)'
    BY DEF ProgressInv, ExclusiveProcessing, LockIsHeldByProcessor, CompletedHasArtifacts, OwnedInv, TracksInv, DatabaseAnswers
  <2> QED BY <2>1, <2>2, <2>3
<1>2. CASE SweepAbort
  <2> USE <1>2 DEF SweepAbort, Fault, rowVars, resultVars, brokerVars, taskVars
  <2>1. TypeOK' OBVIOUS
  <2>2. RowInv' OBVIOUS
  <2>3. OwnedInv' BY DEF OwnedInv, DatabaseAnswers
  <2>4. TracksInv' BY DEF TracksInv
  <2>5. (HandlerInv /\ ProgressInv /\ ExclusiveProcessing /\ LockIsHeldByProcessor /\
         CompletedHasArtifacts)'
    BY DEF ProgressInv, ExclusiveProcessing, LockIsHeldByProcessor, CompletedHasArtifacts
  <2> QED BY <2>1, <2>2, <2>3, <2>4, <2>5
<1>3. ASSUME NEW j \in Jobs, SweepHardFail(j) PROVE IInv'
  <2> USE <1>3 DEF SweepHardFail, Failed, resultVars, brokerVars, taskVars
  <2>1. TypeOK' OBVIOUS
  <2>2. RowInv' OBVIOUS
  <2>3. LockIsHeldByProcessor' BY DEF LockIsHeldByProcessor
  <2>4. CompletedHasArtifacts' BY DEF CompletedHasArtifacts
  <2>5. OwnedInv' BY DEF OwnedInv, DatabaseAnswers
  <2>6. TracksInv' BY DEF TracksInv
  <2>7. (HandlerInv /\ ProgressInv /\ ExclusiveProcessing)'
    BY DEF ProgressInv, ExclusiveProcessing
  <2> QED BY <2>1, <2>2, <2>3, <2>4, <2>5, <2>6, <2>7
<1>4. ASSUME NEW j \in Jobs, SweepRepublish(j) PROVE IInv'
  <2> USE <1>4 DEF SweepRepublish, rowVars, resultVars, taskVars
  <2>1. TypeOK' OBVIOUS
  <2>2. RowInv' OBVIOUS
  <2>3. (HandlerInv /\ ProgressInv /\ ExclusiveProcessing /\ LockIsHeldByProcessor /\
         CompletedHasArtifacts /\ OwnedInv /\ TracksInv)'
    BY DEF ProgressInv, ExclusiveProcessing, LockIsHeldByProcessor, CompletedHasArtifacts,
           OwnedInv, TracksInv, DatabaseAnswers
  <2> QED BY <2>1, <2>2, <2>3
<1> QED BY <1>1, <1>2, <1>3, <1>4 DEF Sweep

\* A step that changes nothing keeps the invariant.
LEMMA StutterStep == IInv /\ UNCHANGED vars => IInv'
<1> SUFFICES ASSUME IInv, UNCHANGED vars PROVE IInv'
  OBVIOUS
<1> USE DEF IInv, vars, backendVars, rowVars, resultVars, brokerVars, taskVars
<1>1. (TypeOK /\ HandlerInv /\ RowInv /\ ProgressInv)'
  BY DEF TypeOK, HandlerInv, RowInv, ProgressInv
<1>2. (ExclusiveProcessing /\ LockIsHeldByProcessor /\ CompletedHasArtifacts)'
  BY DEF ExclusiveProcessing, LockIsHeldByProcessor, CompletedHasArtifacts
<1>3. (OwnedInv /\ TracksInv)'
  BY DEF OwnedInv, TracksInv, DatabaseAnswers
<1> QED BY <1>1, <1>2, <1>3

\* Every step of the system keeps the invariant.
LEMMA NextInv == IInv /\ [Next]_vars => IInv'
<1> SUFFICES ASSUME IInv, [Next]_vars PROVE IInv'
  OBVIOUS
<1>1. ASSUME NEW j \in Jobs, Upload(j) PROVE IInv'
  BY <1>1, UploadStep
<1>2. ASSUME NEW j \in Jobs, GrowStale(j) \/ Expire(j) \/ DropDead(j) PROVE IInv'
  BY <1>2, ClockStep
<1>3. ASSUME NEW t \in Tasks, Consume(t) PROVE IInv'
  BY <1>3, ConsumeStep
<1>4. ASSUME NEW t \in Tasks, Process(t) PROVE IInv'
  BY <1>4, ProcessStep
<1>5. ASSUME NEW t \in Tasks, Encode(t) PROVE IInv'
  BY <1>5, EncodeStep
<1>6. ASSUME NEW t \in Tasks, NEW j \in Jobs, Deliver(t, j) PROVE IInv'
  BY <1>6, DeliverStep
<1>7. ASSUME NEW w \in Workers, ChannelLost(w) \/ Crash(w) \/ StartWorker(w) PROVE IInv'
  BY <1>7, WorkerStep
<1>8. CASE Sweep
  BY <1>8, SweepStep
<1>9. CASE UNCHANGED vars
  BY <1>9, StutterStep
<1> QED BY <1>1, <1>2, <1>3, <1>4, <1>5, <1>6, <1>7, <1>8, <1>9 DEF Next

\* The inductive invariant holds in every reachable state.
THEOREM Invariance == Spec => []IInv
<1>1. Init => IInv
  BY InitInv
<1>2. IInv /\ [Next]_vars => IInv'
  BY NextInv
<1> QED BY <1>1, <1>2, PTL DEF Spec

-----------------------------------------------------------------------------
(* The invariants of JobLifecycle *)

\* Every variable keeps its type; no job's message count goes below zero.
THEOREM TypeCorrect == Spec => []TypeOK
<1>1. IInv => TypeOK
  BY DEF IInv
<1> QED BY <1>1, Invariance, PTL

\* At most one handler runs the pipeline on a job, whatever was redelivered,
\* duplicated, requeued, crashed or restarted.
THEOREM Exclusive == Spec => []ExclusiveProcessing
<1>1. IInv => ExclusiveProcessing
  BY DEF IInv
<1> QED BY <1>1, Invariance, PTL

\* A pipeline whose row says running works under its own process's lock, so the
\* startup reset of any worker leaves it alone.
THEOREM LockHeld == Spec => []LockIsHeldByProcessor
<1>1. IInv => LockIsHeldByProcessor
  BY DEF IInv
<1> QED BY <1>1, Invariance, PTL

\* A completed job has a ready track, a link to it and an instrumental.
THEOREM ArtifactsThere == Spec => []CompletedHasArtifacts
<1>1. IInv => CompletedHasArtifacts
  BY DEF IInv
<1> QED BY <1>1, Invariance, PTL

\* A job makes one track, and at most one more for each environment failure.
THEOREM OneTrack == Spec => []ExtraTracksCostFaults
<1>1. IInv => ExtraTracksCostFaults
  BY DEF IInv, TracksInv
<1> QED BY <1>1, Invariance, PTL

\* If the database answers the two critical calls, a running job is being worked
\* on by its owner or waits for its owner's restart.
THEOREM RunningOwned == Spec => []RunningIsOwned
<1>1. IInv => RunningIsOwned
  BY DEF IInv, OwnedInv, DatabaseAnswers, RunningIsOwned
<1> QED BY <1>1, Invariance, PTL

-----------------------------------------------------------------------------
(* The action properties *)

\* Only the lock, the reset, the upload and the writes of an end state change a
\* status, and the first three never touch a job that ended.
LEMMA TerminalStep ==
  ASSUME IInv, [Next]_vars, NEW j \in Jobs, status[j] \in Terminal
  PROVE  status'[j] \in Terminal
<1> USE DEF IInv, TypeOK, rowVars
<1>1. ASSUME NEW k \in Jobs, Upload(k) \/ GrowStale(k) \/ Expire(k) \/ DropDead(k)
      PROVE  status'[j] \in Terminal
  BY <1>1 DEF Upload, CreateJob, PublishJob, PublishJobLost, GrowStale, Expire, DropDead, RowInv
<1>2. ASSUME NEW t \in Tasks, Consume(t) PROVE status'[j] \in Terminal
  BY <1>2 DEF Consume, LockJob, TakeLock, LockRefused, LockRaises, FetchJob, FetchRaises,
              NackRequeue, NackToDlq, Ack
<1>3. ASSUME NEW t \in Tasks, Process(t) \/ Encode(t) PROVE status'[j] \in Terminal
  BY <1>3 DEF Process, Separated, Analysed, StepRaises, AwaitUpload, CreateTrack, LinkTrack,
              CompleteJob, FinalRaises, PublishRec, PublishRecRaises, MarkFailed, Failed,
              MarkFailedRaises, Cleanup, Encode, EncodeUpload, EncodeEnd
<1>4. ASSUME NEW t \in Tasks, NEW k \in Jobs, Deliver(t, k) PROVE status'[j] \in Terminal
  BY <1>4 DEF Deliver
<1>5. ASSUME NEW w \in Workers, ChannelLost(w) \/ Crash(w) \/ StartWorker(w)
      PROVE  status'[j] \in Terminal
  BY <1>5 DEF ChannelLost, Crash, StartWorker, LeftRunningBy
<1>6. CASE Sweep
  BY <1>6 DEF Sweep, SweepRead, SweepAbort, SweepHardFail, SweepRepublish, Failed
<1>7. CASE UNCHANGED vars
  BY <1>7 DEF vars
<1> QED BY <1>1, <1>2, <1>3, <1>4, <1>5, <1>6, <1>7 DEF Next

\* A job that ended never becomes pending or running again.
THEOREM EndedStaysEnded == Spec => NoResurrection
<1>1. IInv /\ [Next]_vars => [\A j \in Jobs : status[j] \in Terminal => status'[j] \in Terminal]_vars
  BY TerminalStep
<1> QED BY <1>1, Invariance, PTL DEF Spec, NoResurrection

\* A settled delivery takes at most the handler's own copy away.
LEMMA SettleKeepsOthers ==
  ASSUME IInv, NEW t \in Tasks, Settle(t), NEW j \in Jobs, HasCopy(j),
         ready'[j] \in Nat, ready'[j] >= ready[j], ~HasCopy(j)'
  PROVE  t \in tagged /\ job[t] = j /\ ready'[j] = 0
<1> USE DEF IInv, TypeOK, Settle, HasCopy
<1>1. ready[j] \in Nat /\ ready'[j] \in Nat /\ ready'[j] >= ready[j] /\ ready'[j] = 0
  OBVIOUS
<1>2. \E u \in tagged : job[u] = j
  BY <1>1
<1>3. PICK u \in tagged : job[u] = j
  BY <1>2
<1>4. (u \in Tasks /\ job'[u] # j) \/ u \notin tagged'
  BY <1>3
<1>5. u = t
  BY <1>3, <1>4
<1> QED BY <1>1, <1>3, <1>5

\* Only a handler that acknowledges or rejects takes the last copy of a job's message
\* away: an acknowledged job has ended, and every other call puts a copy somewhere.
LEMMA LastCopyStep ==
  ASSUME IInv, [Next]_vars, NEW j \in Jobs, HasCopy(j), ~HasCopy(j)'
  PROVE  \/ status'[j] \in Terminal
         \/ j \in dlq' /\ \E t \in tagged : job[t] = j /\ pc[t] = "nacking"
<1> DEFINE Goal == \/ status'[j] \in Terminal
                   \/ j \in dlq' /\ \E t \in tagged : job[t] = j /\ pc[t] = "nacking"
<1> USE DEF IInv, TypeOK, brokerVars, taskVars
<1>1. ASSUME ready' = ready \/ \E k \in Jobs : ready' = [ready EXCEPT ![k] = @ + 1],
             UNCHANGED <<tagged, job>>
      PROVE  FALSE
  BY <1>1 DEF HasCopy
<1>2. ASSUME NEW k \in Jobs, Upload(k) \/ GrowStale(k) \/ Expire(k) \/ DropDead(k) PROVE Goal
  BY <1>1, <1>2 DEF Upload, CreateJob, PublishJob, PublishJobLost, GrowStale, Expire, DropDead
<1>3. ASSUME NEW t \in Tasks, Consume(t) PROVE Goal
  <2>1. CASE LockJob(t) \/ LockRefused(t) \/ LockRaises(t) \/ FetchJob(t) \/ FetchRaises(t)
    BY <1>1, <2>1 DEF LockJob, TakeLock, LockRefused, LockRaises, FetchJob, FetchRaises
  <2>2. CASE NackRequeue(t)
    <3>1. job[t] \in Jobs
      BY <2>2 DEF NackRequeue, HandlerInv
    <3>2. t \in tagged /\ job[t] = j /\ ready'[j] = 0
      BY <2>2, <3>1, SettleKeepsOthers DEF NackRequeue
    <3> QED BY <2>2, <3>2 DEF NackRequeue
  <2>3. CASE NackToDlq(t)
    BY <2>3, SettleKeepsOthers DEF NackToDlq
  <2>4. CASE Ack(t)
    <3>1. t \in tagged /\ job[t] = j
      BY <2>4, SettleKeepsOthers DEF Ack
    <3> QED BY <2>4, <3>1 DEF Ack, RowInv, rowVars
  <2> QED BY <1>3, <2>1, <2>2, <2>3, <2>4 DEF Consume
<1>4. ASSUME NEW t \in Tasks, Process(t) \/ Encode(t) PROVE Goal
  BY <1>1, <1>4 DEF Process, Separated, Analysed, StepRaises, AwaitUpload, CreateTrack, LinkTrack,
              CompleteJob, FinalRaises, PublishRec, PublishRecRaises, MarkFailed,
              MarkFailedRaises, Cleanup, Encode, EncodeUpload, EncodeEnd
<1>5. ASSUME NEW t \in Tasks, NEW k \in Jobs, Deliver(t, k) PROVE Goal
  <2>1. CASE k = j
    BY <1>5, <2>1 DEF Deliver, HasCopy
  <2>2. CASE k # j
    BY <1>5, <2>2 DEF Deliver, HasCopy, HandlerInv
  <2> QED BY <2>1, <2>2
<1>6. ASSUME NEW w \in Workers, ChannelLost(w) \/ Crash(w) PROVE Goal
  <2>1. Redeliver(w) /\ \A u \in Tasks : WorkerOf[u] # w => job'[u] = job[u]
    BY <1>6 DEF ChannelLost, Crash
  <2>2. CASE \E t \in TasksOf(w) \cap tagged : job[t] = j
    BY <2>1, <2>2 DEF Redeliver, HasCopy
  <2>3. CASE ~\E t \in TasksOf(w) \cap tagged : job[t] = j
    BY <2>1, <2>3 DEF Redeliver, HasCopy, TasksOf
  <2> QED BY <2>2, <2>3
<1>7. ASSUME NEW w \in Workers, StartWorker(w) PROVE Goal
  BY <1>1, <1>7 DEF StartWorker
<1>8. CASE Sweep
  BY <1>1, <1>8 DEF Sweep, SweepRead, SweepAbort, SweepHardFail, SweepRepublish
<1>9. CASE UNCHANGED vars
  BY <1>1, <1>9 DEF vars
<1> QED BY <1>2, <1>3, <1>4, <1>5, <1>6, <1>7, <1>8, <1>9 DEF Next

\* However copies are acknowledged, requeued and redelivered, an unfinished job loses
\* the last one only to a handler whose call raised, which makes it a dead letter.
THEOREM MessageKept == Spec => NoMessageLost
<1>1. IInv /\ [Next]_vars =>
        [\A j \in Jobs : HasCopy(j) /\ ~HasCopy(j)' =>
           \/ status'[j] \in Terminal
           \/ j \in dlq' /\ \E t \in tagged : job[t] = j /\ pc[t] = "nacking"]_vars
  BY LastCopyStep
<1> QED BY <1>1, Invariance, PTL DEF Spec, NoMessageLost

-----------------------------------------------------------------------------
(* JobLifecycle implements JobTable: with the holder of a job read off the  *)
(* handlers, every step of the queues, handlers, sweeper and restarts is a  *)
(* step of the table or leaves it alone.                                    *)

\* Nobody holds a job no pipeline works on.
LEMMA HolderNobody ==
  ASSUME NEW j \in Jobs, \A t \in Tasks : Processing(t) => job[t] # j
  PROVE  Holder[j] = Nobody
BY DEF Holder

\* The process of the pipeline that works on a job holds it.
LEMMA HolderOwner ==
  ASSUME IInv, NEW t \in Tasks, Processing(t)
  PROVE  job[t] \in Jobs /\ Holder[job[t]] = WorkerOf[t]
<1>1. job[t] \in Jobs
  BY DEF IInv, HandlerInv
<1> DEFINE u == CHOOSE u \in Tasks : Processing(u) /\ job[u] = job[t]
<1>2. u \in Tasks /\ Processing(u) /\ job[u] = job[t]
  OBVIOUS
<1>3. u = t
  BY <1>2 DEF IInv, ExclusiveProcessing
<1> QED BY <1>1, <1>3 DEF Holder

\* The two facts above as one formula, which holds in the next state too.
HolderInv ==
  /\ \A t \in Tasks : Processing(t) => job[t] \in Jobs /\ Holder[job[t]] = WorkerOf[t]
  /\ \A j \in Jobs : (\A t \in Tasks : Processing(t) => job[t] # j) => Holder[j] = Nobody

\* Both facts, in the current state.
LEMMA HolderFacts == IInv => HolderInv
BY HolderNobody, HolderOwner DEF HolderInv

\* Both facts, in the next state.
LEMMA HolderFactsNext == IInv' => HolderInv'
BY HolderFacts, PTL

\* Steps that start and end no pipeline leave the holders alone.
LEMMA SameHolder ==
  ASSUME IInv, IInv',
         \A t \in Tasks : (pc'[t] \in Pipeline) <=> Processing(t),
         \A t \in Tasks : Processing(t) => job'[t] = job[t]
  PROVE  Holder' = Holder
<1>1. HolderInv /\ HolderInv'
  BY HolderFacts, HolderFactsNext
<1>2. ASSUME NEW j \in Jobs PROVE Holder'[j] = Holder[j]
  <2>1. CASE \E t \in Tasks : Processing(t) /\ job[t] = j
    <3>1. PICK t \in Tasks : Processing(t) /\ job[t] = j
      BY <2>1
    <3> QED BY <1>1, <3>1 DEF HolderInv
  <2>2. CASE \A t \in Tasks : Processing(t) => job[t] # j
    BY <1>1, <2>2 DEF HolderInv
  <2> QED BY <2>1, <2>2
<1> QED BY <1>2 DEF Holder

-----------------------------------------------------------------------------
(* The steps that are steps of the table *)

\* The INSERT is a Submit.
LEMMA CreateJobSubmits ==
  ASSUME IInv, IInv', NEW j \in Jobs, CreateJob(j)
  PROVE  Table!Submit(j)
<1>1. Holder' = Holder
  BY SameHolder DEF CreateJob, taskVars
<1>2. status[j] = "none"
  BY DEF CreateJob, IInv, RowInv, TypeOK
<1> QED BY <1>1, <1>2 DEF CreateJob, Table!Submit

\* A successful lock_job is a Claim by the handler's process.
LEMMA LockJobClaims ==
  ASSUME IInv, IInv', NEW t \in Tasks, LockJob(t)
  PROVE  job[t] \in Jobs /\ Table!Claim(job[t], WorkerOf[t])
<1> USE DEF LockJob, TakeLock, Goto
<1>1. HolderInv /\ HolderInv'
  BY HolderFacts, HolderFactsNext
<1>2. job[t] \in Jobs /\ \A u \in Tasks : Processing(u) => job[u] # job[t]
  BY DEF IInv, HandlerInv, RowInv
<1>3. Holder[job[t]] = Nobody
  BY <1>1, <1>2 DEF HolderInv
<1>4. \A u \in Tasks : (pc'[u] \in Pipeline) <=> (Processing(u) \/ u = t)
  BY DEF IInv, TypeOK
<1>5. ASSUME NEW j \in Jobs
      PROVE  Holder'[j] = IF j = job[t] THEN WorkerOf[t] ELSE Holder[j]
  <2>1. CASE j = job[t]
    BY <1>1, <1>4, <2>1 DEF HolderInv
  <2>2. CASE j # job[t] /\ \A u \in Tasks : Processing(u) => job[u] # j
    BY <1>1, <1>4, <2>2 DEF HolderInv
  <2>3. CASE j # job[t] /\ \E u \in Tasks : Processing(u) /\ job[u] = j
    <3>1. PICK u \in Tasks : Processing(u) /\ job[u] = j
      BY <2>3
    <3> QED BY <1>1, <1>4, <2>3, <3>1 DEF HolderInv
  <2> QED BY <2>1, <2>2, <2>3
<1>6. Holder' = [Holder EXCEPT ![job[t]] = WorkerOf[t]]
  <2>1. DOMAIN Holder = Jobs /\ DOMAIN Holder' = Jobs
    BY DEF Holder
  <2>2. Holder = [j \in Jobs |-> Holder[j]] /\ Holder' = [j \in Jobs |-> Holder'[j]]
    BY DEF Holder
  <2> QED BY <1>2, <1>5, <2>1, <2>2
<1> QED BY <1>2, <1>3, <1>6 DEF Table!Claim

\* complete_job is a Complete by the pipeline that holds the job.
LEMMA CompleteJobCompletes ==
  ASSUME IInv, IInv', NEW t \in Tasks, CompleteJob(t)
  PROVE  job[t] \in Jobs /\ Table!Complete(job[t])
<1>1. Holder' = Holder
  BY SameHolder DEF CompleteJob, Goto, IInv, TypeOK
<1>2. job[t] \in Jobs /\ Holder[job[t]] = WorkerOf[t]
  BY HolderOwner DEF CompleteJob
<1> QED BY <1>1, <1>2 DEF CompleteJob, Table!Complete

\* The pipeline's failure write and the sweeper's are a Fail.
LEMMA MarkFailedFails ==
  ASSUME IInv, IInv', NEW t \in Tasks, MarkFailed(t)
  PROVE  job[t] \in Jobs /\ Table!Fail(job[t])
<1>1. Holder' = Holder
  BY SameHolder DEF MarkFailed, Goto, IInv, TypeOK
<1>2. job[t] \in Jobs /\ status[job[t]] # "none"
  BY DEF MarkFailed, IInv, HandlerInv, RowInv
<1> QED BY <1>1, <1>2 DEF MarkFailed, Failed, Table!Fail

\* The sweeper's failure write is a Fail, also when a worker has taken the job
\* since the sweep read its candidates.
LEMMA SweepHardFailFails ==
  ASSUME IInv, IInv', NEW j \in Jobs, SweepHardFail(j)
  PROVE  Table!Fail(j)
<1>1. Holder' = Holder
  BY SameHolder DEF SweepHardFail, taskVars
<1>2. status[j] # "none"
  BY DEF SweepHardFail, IInv, RowInv
<1> QED BY <1>1, <1>2 DEF SweepHardFail, Failed, Table!Fail

\* A step that ends pipelines of one worker, and only of that worker, is a
\* Release of the jobs they worked on.
LEMMA Releases ==
  ASSUME IInv, IInv', NEW w \in Workers, status' = status,
         \A t \in Tasks : pc'[t] \in Pipeline => Processing(t),
         \A t \in Tasks : Processing(t) /\ WorkerOf[t] # w => pc'[t] \in Pipeline,
         \A t \in Tasks : pc'[t] \in Pipeline => job'[t] = job[t]
  PROVE  Table!Release(w)
<1> DEFINE S == {j \in Jobs : Holder[j] = w /\ Holder'[j] = Nobody}
<1>1. HolderInv /\ HolderInv'
  BY HolderFacts, HolderFactsNext
<1>2. ASSUME NEW j \in Jobs PROVE Holder'[j] = IF j \in S THEN Nobody ELSE Holder[j]
  <2>1. CASE \E t \in Tasks : pc'[t] \in Pipeline /\ job'[t] = j
    <3>1. PICK t \in Tasks : pc'[t] \in Pipeline /\ job'[t] = j
      BY <2>1
    <3>2. Holder'[j] = WorkerOf[t] /\ Holder[j] = WorkerOf[t]
      BY <1>1, <3>1 DEF HolderInv
    <3> QED BY <3>2
  <2>2. CASE \A t \in Tasks : pc'[t] \in Pipeline => job'[t] # j
    <3>1. Holder'[j] = Nobody
      BY <1>1, <2>2 DEF HolderInv
    <3>2. CASE \A t \in Tasks : Processing(t) => job[t] # j
      BY <1>1, <3>1, <3>2 DEF HolderInv
    <3>3. CASE \E t \in Tasks : Processing(t) /\ job[t] = j
      <4>1. PICK t \in Tasks : Processing(t) /\ job[t] = j
        BY <3>3
      <4>2. Holder[j] = WorkerOf[t] /\ WorkerOf[t] = w
        BY <1>1, <2>2, <4>1 DEF HolderInv
      <4> QED BY <3>1, <4>2
    <3> QED BY <3>2, <3>3
  <2> QED BY <2>1, <2>2
<1>3. Holder' = [j \in Jobs |-> IF j \in S THEN Nobody ELSE Holder[j]]
  BY <1>2 DEF Holder
<1>4. S \in SUBSET {j \in Jobs : Holder[j] = w}
  OBVIOUS
<1> HIDE DEF S
<1> QED BY <1>3, <1>4 DEF Table!Release

\* The finally block, and a read that fails after the lock, end one pipeline.
LEMMA CleanupReleases ==
  ASSUME IInv, IInv', NEW t \in Tasks, Cleanup(t) \/ FetchRaises(t)
  PROVE  Table!Release(WorkerOf[t])
<1>1. WorkerOf[t] \in Workers /\ status' = status
  BY DEF Cleanup, FetchRaises, rowVars
<1>2. \A u \in Tasks : pc'[u] \in Pipeline => Processing(u)
  BY DEF Cleanup, FetchRaises, Goto, IInv, TypeOK
<1>3. \A u \in Tasks : Processing(u) /\ WorkerOf[u] # WorkerOf[t] => pc'[u] \in Pipeline
  BY DEF Cleanup, FetchRaises, Goto, IInv, TypeOK
<1>4. \A u \in Tasks : pc'[u] \in Pipeline => job'[u] = job[u]
  BY DEF Cleanup, FetchRaises
<1> QED BY <1>1, <1>2, <1>3, <1>4, Releases

\* A crash ends the pipelines of its worker.
LEMMA CrashReleases ==
  ASSUME IInv, IInv', NEW w \in Workers, Crash(w)
  PROVE  Table!Release(w)
<1>1. status' = status
  BY DEF Crash, rowVars
<1>2. \A t \in Tasks : pc'[t] \in Pipeline => Processing(t)
  BY DEF Crash
<1>3. \A t \in Tasks : Processing(t) /\ WorkerOf[t] # w => pc'[t] \in Pipeline
  BY DEF Crash
<1>4. \A t \in Tasks : pc'[t] \in Pipeline => job'[t] = job[t]
  BY DEF Crash
<1> QED BY <1>1, <1>2, <1>3, <1>4, Releases

\* The startup reset touches only running jobs nobody works on: it is a Recover.
LEMMA StartWorkerRecovers ==
  ASSUME IInv, IInv', NEW w \in Workers, StartWorker(w)
  PROVE  Table!Recover
<1> DEFINE S == LeftRunningBy(w)
<1>1. Holder' = Holder
  BY SameHolder DEF StartWorker, taskVars
<1>2. ASSUME NEW j \in S PROVE j \in Jobs /\ status[j] = "running" /\ Holder[j] = Nobody
  <2>1. \A t \in Tasks : Processing(t) => job[t] # j
    BY DEF LeftRunningBy, StartWorker, IInv, HandlerInv, LockIsHeldByProcessor
  <2> QED BY <2>1, HolderNobody DEF LeftRunningBy
<1>3. status' = [j \in Jobs |-> IF j \in S THEN "pending" ELSE status[j]]
  BY DEF StartWorker
<1>4. S \in SUBSET {j \in Jobs : status[j] = "running" /\ Holder[j] = Nobody}
  BY <1>2
<1> HIDE DEF S
<1> QED BY <1>1, <1>3, <1>4 DEF Table!Recover

-----------------------------------------------------------------------------
(* The refinement *)

\* Steps of the handler, the upload, the broker and the sweeper that the table
\* does not see.
LEMMA Stutters ==
  ASSUME IInv, IInv', status' = status,
         \A t \in Tasks : (pc'[t] \in Pipeline) <=> Processing(t),
         \A t \in Tasks : Processing(t) => job'[t] = job[t]
  PROVE  UNCHANGED Table!vars
BY SameHolder DEF Table!vars

\* Every step of the system is a step of the table or a stutter.
LEMMA TableStep == IInv /\ IInv' /\ [Next]_vars => [Table!Next]_Table!vars
<1> SUFFICES ASSUME IInv, IInv', [Next]_vars PROVE [Table!Next]_Table!vars
  OBVIOUS
<1> USE DEF rowVars, taskVars, Goto
<1>1. ASSUME NEW j \in Jobs, CreateJob(j) PROVE Table!Next
  BY <1>1, CreateJobSubmits DEF Table!Next
<1>2. ASSUME NEW t \in Tasks, LockJob(t) PROVE Table!Next
  BY <1>2, LockJobClaims DEF Table!Next
<1>3. ASSUME NEW t \in Tasks, CompleteJob(t) PROVE Table!Next
  BY <1>3, CompleteJobCompletes DEF Table!Next
<1>4. ASSUME NEW t \in Tasks, MarkFailed(t) PROVE Table!Next
  BY <1>4, MarkFailedFails DEF Table!Next
<1>5. ASSUME NEW j \in Jobs, SweepHardFail(j) PROVE Table!Next
  BY <1>5, SweepHardFailFails DEF Table!Next
<1>6. ASSUME NEW t \in Tasks, Cleanup(t) \/ FetchRaises(t) PROVE Table!Next
  BY <1>6, CleanupReleases DEF Table!Next
<1>7. ASSUME NEW w \in Workers, Crash(w) PROVE Table!Next
  BY <1>7, CrashReleases DEF Table!Next
<1>8. ASSUME NEW w \in Workers, StartWorker(w) PROVE Table!Next
  BY <1>8, StartWorkerRecovers DEF Table!Next
<1>9. ASSUME NEW j \in Jobs,
             PublishJob(j) \/ PublishJobLost(j) \/ GrowStale(j) \/ Expire(j) \/ DropDead(j)
               \/ SweepRepublish(j) \/ SweepRead \/ SweepAbort
      PROVE  UNCHANGED Table!vars
  BY <1>9, Stutters DEF PublishJob, PublishJobLost, GrowStale, Expire, DropDead,
                        SweepRepublish, SweepRead, SweepAbort
<1>10. ASSUME NEW t \in Tasks, NEW j \in Jobs, Deliver(t, j) PROVE UNCHANGED Table!vars
  BY <1>10, Stutters DEF Deliver, IInv, TypeOK
<1>11. ASSUME NEW t \in Tasks,
              LockRefused(t) \/ LockRaises(t) \/ NackRequeue(t) \/ NackToDlq(t) \/ Ack(t)
       PROVE  UNCHANGED Table!vars
  <2>1. status' = status
    BY <1>11 DEF LockRefused, LockRaises, NackRequeue, NackToDlq, Ack
  <2>2. \A u \in Tasks : (pc'[u] \in Pipeline) <=> Processing(u)
    BY <1>11 DEF LockRefused, LockRaises, NackRequeue, NackToDlq, Ack, Settle, IInv, TypeOK
  <2>3. \A u \in Tasks : Processing(u) => job'[u] = job[u]
    BY <1>11 DEF LockRefused, LockRaises, NackRequeue, NackToDlq, Ack, Settle, IInv, TypeOK
  <2> QED BY <2>1, <2>2, <2>3, Stutters
<1>12. ASSUME NEW t \in Tasks,
              FetchJob(t) \/ Separated(t) \/ Analysed(t) \/ StepRaises(t) \/ AwaitUpload(t)
                \/ CreateTrack(t) \/ LinkTrack(t) \/ FinalRaises(t) \/ PublishRec(t)
                \/ PublishRecRaises(t) \/ MarkFailedRaises(t)
       PROVE  UNCHANGED Table!vars
  <2> USE DEF FetchJob, Separated, Analysed, StepRaises, AwaitUpload, CreateTrack, LinkTrack,
              FinalRaises, PublishRec, PublishRecRaises, MarkFailedRaises
  <2>1. status' = status /\ job' = job
    BY <1>12
  <2>2. \A u \in Tasks : (pc'[u] \in Pipeline) <=> Processing(u)
    BY <1>12 DEF IInv, TypeOK
  <2> QED BY <2>1, <2>2, Stutters
<1>13. ASSUME NEW t \in Tasks, Encode(t) PROVE UNCHANGED Table!vars
  BY <1>13, Stutters DEF Encode, EncodeUpload, EncodeEnd
<1>14. ASSUME NEW w \in Workers, ChannelLost(w) PROVE UNCHANGED Table!vars
  BY <1>14, Stutters DEF ChannelLost
<1>15. CASE UNCHANGED vars
  BY <1>15, Stutters DEF vars
<1>16. CASE Next
  <2>1. ASSUME NEW j \in Jobs, Upload(j) \/ GrowStale(j) \/ Expire(j) \/ DropDead(j)
        PROVE  [Table!Next]_Table!vars
    BY <2>1, <1>1, <1>9 DEF Upload
  <2>2. ASSUME NEW t \in Tasks, Consume(t) PROVE [Table!Next]_Table!vars
    BY <2>2, <1>2, <1>6, <1>11, <1>12 DEF Consume
  <2>3. ASSUME NEW t \in Tasks, Process(t) PROVE [Table!Next]_Table!vars
    BY <2>3, <1>3, <1>4, <1>6, <1>12 DEF Process
  <2>4. CASE Sweep
    <3>1. CASE SweepRead \/ SweepAbort
      BY <3>1, Stutters DEF SweepRead, SweepAbort
    <3>2. ASSUME NEW j \in Jobs, SweepHardFail(j) \/ SweepRepublish(j)
          PROVE  [Table!Next]_Table!vars
      BY <3>2, <1>5, <1>9
    <3> QED BY <2>4, <3>1, <3>2 DEF Sweep
  <2> QED BY <1>16, <2>1, <2>2, <2>3, <2>4, <1>7, <1>8, <1>10, <1>13, <1>14 DEF Next
<1> QED BY <1>15, <1>16

\* Queues, copies, handlers, sweeps, faults and restarts implement the job table.
THEOREM ImplementsTable == Spec => ImplementsJobTable
<1>1. Init => Table!Init
  <2> SUFFICES ASSUME Init PROVE Table!Init
    OBVIOUS
  <2>1. Holder = [j \in Jobs |-> Nobody]
    BY DEF Init, Holder
  <2> QED BY <2>1 DEF Init, Table!Init
<1>2. IInv /\ IInv' /\ [Next]_vars => [Table!Next]_Table!vars
  BY TableStep
<1> QED BY <1>1, <1>2, Invariance, PTL DEF Spec, ImplementsJobTable, Table!Spec
=============================================================================
