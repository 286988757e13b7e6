------------------------ MODULE ProgressStreamProofs ------------------------
(***************************************************************************)
(* Proofs about ProgressStream, for any jobs, workers, cards and bounds.    *)
(*                                                                          *)
(* NewsInv is about what is written and not published yet: a writer has at  *)
(* most one such news, and the news of a step comes from the job's holder   *)
(* and is the row's last write unless the job has ended.  CardInv follows a *)
(* card: what is in its stream's queue is in the order of the writes, none  *)
(* of it is older than what is shown, and none is newer than what is still  *)
(* unpublished.  So neither a snapshot of the row nor a message taken from  *)
(* the queue can set the card back.                                         *)
(***************************************************************************)
EXTENDS ProgressStream, TLAPS

\* News of a step of the job that card c follows.
StepFor(c, e) == e.job = CardJob[c] /\ e.kind = "running"

NewsInv ==
  /\ \A e \in unsent : /\ e.version <= version[e.job]
                       /\ e.kind \in Terminal => status[e.job] \in Terminal
  /\ \A d, e \in unsent : d.by = e.by => d = e
  /\ \A e \in unsent : e.kind = "running" =>
       /\ e.by = holder[e.job]
       /\ status[e.job] \in Terminal \/ e.version = version[e.job]

QueueInv(c) ==
  /\ \A i \in 1..Len(buf[c]) :
       /\ buf[c][i].kind \in Terminal => status[buf[c][i].job] \in Terminal
       /\ StepFor(c, buf[c][i]) =>
            /\ shown[c] <= buf[c][i].version
            /\ buf[c][i].version <= version[CardJob[c]]
            /\ \A e \in unsent : StepFor(c, e) => buf[c][i].version <= e.version
  /\ \A i \in 1..Len(buf[c]), k \in 1..Len(buf[c]) :
       i < k /\ StepFor(c, buf[c][i]) /\ StepFor(c, buf[c][k]) =>
         buf[c][i].version <= buf[c][k].version

CardInv ==
  \A c \in Cards :
    /\ conn[c] # "bound" => buf[c] = <<>> /\ c \notin heard
    /\ shown[c] <= version[CardJob[c]]
    /\ \A e \in unsent : StepFor(c, e) => shown[c] <= e.version
    /\ QueueInv(c)

IInv == TypeOK /\ NewsInv /\ CardInv /\ EndIsReal

USE WriterAssumption, CardAssumption, BoundAssumption DEF Terminal, Kinds, News

\* What a stream's queue holds is news.
LEMMA InQueue ==
  ASSUME NEW q \in Seq(News), NEW i \in 1..Len(q)
  PROVE  q[i] \in News /\ q[i].job \in Jobs /\ q[i].kind \in Kinds /\ q[i].version \in 1..MaxWrites
<1>1. q[i] \in News
  <2> HIDE DEF News
  <2> QED OBVIOUS
<1> QED BY <1>1

-----------------------------------------------------------------------------
\* No row is written and no card is open in the initial state.
LEMMA InitInv == Init => IInv
<1> SUFFICES ASSUME Init  PROVE IInv
  OBVIOUS
<1> USE DEF Init, Table!Init
<1>1. TypeOK
  BY DEF TypeOK
<1>2. NewsInv
  BY DEF NewsInv
<1>3. CardInv
  BY DEF CardInv, QueueInv
<1>4. EndIsReal
  BY DEF EndIsReal
<1> QED BY <1>1, <1>2, <1>3, <1>4 DEF IInv

\* Changes of the row that write no news: they neither start from nor lead to an
\* ended job, and a holder is replaced only when it has nothing unpublished.
LEMMA SilentRowStep ==
  ASSUME IInv,
         \/ Recover
         \/ \E j \in Jobs : Submit(j)
         \/ \E j \in Jobs, w \in Workers : Claim(j, w)
  PROVE  IInv'
<1> USE DEF IInv
<1>1. UNCHANGED <<version, unsent, cardVars, buf, faults>>
  BY DEF Recover, Submit, Claim
<1>2. TypeOK'
  <2> DEFINE Rows == status' \in [Jobs -> {"none", "pending", "running"} \cup Terminal]
  <2> DEFINE Holders == holder' \in [Jobs -> Workers \cup {Nobody}]
  <2>1. CASE Recover
    <3>1. Rows
      BY <2>1 DEF TypeOK, Recover, Table!Recover
    <3>2. Holders
      BY <2>1 DEF TypeOK, Recover, Table!Recover
    <3> QED BY <3>1, <3>2, <1>1 DEF TypeOK, cardVars
  <2>2. ASSUME NEW j \in Jobs, Submit(j)  PROVE Rows /\ Holders
    BY <2>2 DEF TypeOK, Submit, Table!Submit
  <2>3. ASSUME NEW j \in Jobs, NEW w \in Workers, Claim(j, w)  PROVE Rows /\ Holders
    BY <2>3 DEF TypeOK, Claim, Table!Claim
  <2> QED BY <2>1, <2>2, <2>3, <1>1 DEF TypeOK, cardVars
<1>3. \A j \in Jobs : status'[j] \in Terminal <=> status[j] \in Terminal
  BY DEF TypeOK, Recover, Submit, Claim, Table!Recover, Table!Submit, Table!Claim
<1>4. \A j \in Jobs : holder[j] # Nobody => holder'[j] = holder[j]
  BY DEF TypeOK, Recover, Submit, Claim, Table!Recover, Table!Submit, Table!Claim
<1>5. NewsInv'
  BY <1>1, <1>3, <1>4 DEF NewsInv, TypeOK
<1>6. CardInv'
  <2>1. \A c \in Cards : \A i \in 1..Len(buf[c]) : buf[c][i].job \in Jobs
    BY InQueue DEF TypeOK
  <2>2. ASSUME NEW c \in Cards  PROVE QueueInv(c)'
    <3>1. UNCHANGED <<buf, shown, unsent, version>> /\ QueueInv(c)
      BY <1>1 DEF CardInv, cardVars
    <3> QED BY <3>1, <1>3, <2>1 DEF QueueInv, StepFor
  <2> QED BY <1>1, <2>2 DEF CardInv, StepFor, cardVars
<1>7. EndIsReal'
  BY <1>1, <1>3 DEF EndIsReal, cardVars, TypeOK
<1> QED BY <1>2, <1>5, <1>6, <1>7

\* A write with its news: the news is newer than all that went before it.
LEMMA WriteStep ==
  ASSUME IInv, NEW j \in Jobs, NEW p \in Workers \cup {Sweeper}, NEW kind \in Kinds,
         Write(p, j, kind), Quiet(p),
         holder' = holder,
         \/ kind = "running" /\ p = holder[j] /\ status' = status
         \/ kind \in Terminal /\ status' = [status EXCEPT ![j] = kind]
  PROVE  IInv'
<1> USE DEF IInv, Write
<1> DEFINE new == [by |-> p, job |-> j, kind |-> kind, version |-> version[j] + 1]
<1>1. /\ unsent' = unsent \cup {new}
      /\ version[j] + 1 \in 1..MaxWrites
      /\ new \in News
  BY DEF TypeOK
<1>2. UNCHANGED <<cardVars, buf, faults>>
  OBVIOUS
<1>3. TypeOK'
  <2>1. status' \in [Jobs -> {"none", "pending", "running"} \cup Terminal]
    BY DEF TypeOK
  <2>2. version' \in [Jobs -> 0..MaxWrites]
    BY DEF TypeOK
  <2>3. unsent' \subseteq News
    BY <1>1 DEF TypeOK
  <2>4. UNCHANGED <<card, cause, shown, conn, elapsed, heard, buf, faults>>
    BY <1>2 DEF cardVars
  <2>5. TypeOK
    OBVIOUS
  <2> HIDE DEF Write, IInv, News
  <2> QED BY <2>1, <2>2, <2>3, <2>4, <2>5 DEF TypeOK
<1>4. /\ \A k \in Jobs : status[k] \in Terminal => status'[k] \in Terminal
      /\ \A k \in Jobs : version[k] <= version'[k]
      /\ \A k \in Jobs : k # j => version'[k] = version[k]
      /\ version'[j] = version[j] + 1
      /\ kind \in Terminal => status'[j] \in Terminal
  BY DEF TypeOK
<1>5. NewsInv'
  <2>1. \A e \in unsent' : /\ e.version <= version'[e.job]
                           /\ e.kind \in Terminal => status'[e.job] \in Terminal
    BY <1>1, <1>4 DEF NewsInv, TypeOK
  <2>2. \A d, e \in unsent' : d.by = e.by => d = e
    BY <1>1 DEF NewsInv, Quiet
  <2>3. ASSUME NEW e \in unsent', e.kind = "running"
        PROVE  /\ e.by = holder'[e.job]
               /\ status'[e.job] \in Terminal \/ e.version = version'[e.job]
    <3>1. CASE e = new
      BY <2>3, <3>1, <1>4
    <3>2. CASE e \in unsent
      BY <2>3, <3>2, <1>4 DEF NewsInv, TypeOK, Quiet
    <3> QED BY <3>1, <3>2, <1>1
  <2> QED BY <2>1, <2>2, <2>3 DEF NewsInv
<1>6. CardInv'
  <2> SUFFICES ASSUME NEW c \in Cards
      PROVE  /\ conn[c] # "bound" => buf[c] = <<>> /\ c \notin heard
             /\ shown[c] <= version'[CardJob[c]]
             /\ \A e \in unsent' : StepFor(c, e) => shown[c] <= e.version
             /\ QueueInv(c)'
    BY <1>2 DEF CardInv, cardVars
  <2>1. /\ conn[c] # "bound" => buf[c] = <<>> /\ c \notin heard
        /\ shown[c] <= version'[CardJob[c]]
    BY <1>4 DEF CardInv, TypeOK
  <2>2. \A e \in unsent' : StepFor(c, e) => shown[c] <= e.version
    BY <1>1 DEF CardInv, StepFor, TypeOK
  <2>3. QueueInv(c)'
    <3>1. UNCHANGED <<buf, shown>> /\ buf[c] \in Seq(News) /\ QueueInv(c)
      BY <1>2 DEF CardInv, cardVars, TypeOK
    <3>2. ASSUME NEW i \in 1..Len(buf[c])
          PROVE  buf[c][i].kind \in Terminal => status'[buf[c][i].job] \in Terminal
      BY <3>1, <1>4, InQueue DEF QueueInv
    <3>3. ASSUME NEW i \in 1..Len(buf[c]), StepFor(c, buf[c][i])
          PROVE  /\ shown[c] <= buf[c][i].version
                 /\ buf[c][i].version <= version'[CardJob[c]]
                 /\ \A e \in unsent' : StepFor(c, e) => buf[c][i].version <= e.version
      <4>1. /\ buf[c][i].version <= version[CardJob[c]]
            /\ buf[c][i].version \in 1..MaxWrites
        <5>1. buf[c][i].version <= version[CardJob[c]]
          BY <3>1, <3>3 DEF QueueInv
        <5>2. buf[c][i].version \in 1..MaxWrites
          BY <3>1, InQueue
        <5> QED BY <5>1, <5>2
      <4>2. version[CardJob[c]] <= version'[CardJob[c]]
            /\ version[CardJob[c]] \in Nat /\ version'[CardJob[c]] \in Nat
        BY <1>4, SMTT(20) DEF TypeOK
      <4>3. buf[c][i].version <= version'[CardJob[c]]
        BY <4>1, <4>2
      <4>4. ASSUME NEW e \in unsent', StepFor(c, e)  PROVE buf[c][i].version <= e.version
        <5>1. CASE e \in unsent
          BY <5>1, <4>4, <3>1, <3>3 DEF QueueInv
        <5>2. CASE e = new
          BY <5>2, <4>4, <4>1, <4>2 DEF StepFor
        <5> QED BY <5>1, <5>2, <1>1
      <4> QED BY <4>3, <4>4, <3>1, <3>3 DEF QueueInv
    <3> QED BY <3>1, <3>2, <3>3 DEF QueueInv, StepFor
  <2> QED BY <2>1, <2>2, <2>3
<1>7. EndIsReal'
  BY <1>2, <1>4 DEF EndIsReal, cardVars, TypeOK
<1> QED BY <1>3, <1>5, <1>6, <1>7

\* JobService's writes: a step's, the completion's, a failure's.
LEMMA NewsStep ==
  ASSUME IInv, NEW j \in Jobs,
         \/ MarkStep(j) \/ Complete(j)
         \/ \E p \in Workers \cup {Sweeper} : Fail(j, p)
  PROVE  IInv'
<1>1. holder[j] \in Workers \cup {Nobody}
  BY DEF IInv, TypeOK
<1>2. CASE MarkStep(j)
  BY <1>1, <1>2, WriteStep DEF MarkStep
<1>3. CASE Complete(j)
  BY <1>1, <1>3, WriteStep DEF Complete, Table!Complete
<1>4. ASSUME NEW p \in Workers \cup {Sweeper}, Fail(j, p)  PROVE IInv'
  BY <1>4, WriteStep DEF Fail, Table!Fail
<1> QED BY <1>2, <1>3, <1>4

\* A pipeline that ends takes its unpublished news with it.
LEMMA LeaveStep ==
  ASSUME IInv, NEW w \in Workers, Leave(w)
  PROVE  IInv'
<1> USE DEF IInv, Leave, Table!Release
<1>1. /\ unsent' \subseteq unsent
      /\ \A e \in unsent' : e.by # w
      /\ UNCHANGED <<status, version, cardVars, buf>>
  OBVIOUS
<1>2. \A j \in Jobs : holder'[j] = holder[j] \/ holder[j] = w
  BY DEF TypeOK
<1>3. TypeOK'
  <2>1. holder' \in [Jobs -> Workers \cup {Nobody}]
    BY DEF TypeOK
  <2>2. faults' \in 0..MaxFaults
    BY DEF TypeOK, Fault
  <2> QED BY <1>1, <2>1, <2>2 DEF TypeOK, cardVars
<1>4. NewsInv'
  BY <1>1, <1>2 DEF NewsInv, TypeOK
<1>5. CardInv'
  <2>1. ASSUME NEW c \in Cards  PROVE QueueInv(c)'
    <3>1. QueueInv(c) /\ UNCHANGED <<status, version, buf, shown>>
      BY <1>1 DEF CardInv, cardVars
    <3> QED BY <3>1, <1>1 DEF QueueInv, StepFor
  <2> QED BY <1>1, <2>1 DEF CardInv, StepFor, cardVars
<1>6. EndIsReal'
  BY <1>1 DEF EndIsReal, cardVars
<1> QED BY <1>3, <1>4, <1>5, <1>6

\* News that is published is the only news its writer had.
LEMMA PublishStep ==
  ASSUME IInv, NEW e \in unsent, Publish(e) \/ PublishLost(e)
  PROVE  IInv'
<1> USE DEF IInv
<1>1. /\ unsent' = unsent \ {e}
      /\ UNCHANGED <<rowVars, cardVars>>
  BY DEF Publish, PublishLost
<1>2. ASSUME NEW c \in Cards
      PROVE  buf'[c] = buf[c] \/ (conn[c] = "bound" /\ buf'[c] = Append(buf[c], e))
  BY DEF Publish, PublishLost, TypeOK
<1>3. e \in News /\ e.job \in Jobs /\ e.version \in 1..MaxWrites
  BY DEF TypeOK
<1>4. TypeOK'
  <2>1. buf' \in [Cards -> Seq(News)]
    <3>1. buf \in [Cards -> Seq(News)]
      BY DEF TypeOK
    <3>2. \A c \in Cards : Append(buf[c], e) \in Seq(News)
      <4> HIDE DEF News
      <4> QED BY <3>1, <1>3
    <3> HIDE DEF News
    <3>3. CASE Publish(e)
      BY <3>1, <3>2, <3>3 DEF Publish
    <3> QED BY <3>1, <3>3 DEF PublishLost
  <2>2. faults' \in 0..MaxFaults
    BY DEF TypeOK, Fault, Publish, PublishLost
  <2> QED BY <1>1, <2>1, <2>2 DEF TypeOK, rowVars, cardVars
<1>5. NewsInv'
  BY <1>1 DEF NewsInv, rowVars
<1>6. ASSUME NEW c \in Cards  PROVE QueueInv(c)'
  <2>1. QueueInv(c) /\ UNCHANGED <<status, version, holder, shown>> /\ buf[c] \in Seq(News)
    BY <1>1 DEF CardInv, TypeOK, rowVars, cardVars
  <2>2. CASE buf'[c] = buf[c]
    BY <2>1, <2>2, <1>1 DEF QueueInv, StepFor
  <2>3. CASE buf'[c] = Append(buf[c], e)
    <3>1. /\ Len(buf'[c]) = Len(buf[c]) + 1
          /\ Len(buf[c]) \in Nat
          /\ buf'[c][Len(buf[c]) + 1] = e
          /\ \A i \in 1..Len(buf[c]) : buf'[c][i] = buf[c][i]
      BY <2>1, <2>3
    <3>2. \A i \in 1..Len(buf'[c]) : i \in 1..Len(buf[c]) \/ i = Len(buf[c]) + 1
      BY <3>1
    <3>3. /\ e.kind \in Terminal => status[e.job] \in Terminal
          /\ StepFor(c, e) => /\ shown[c] <= e.version
                              /\ e.version <= version[CardJob[c]]
                              /\ \A d \in unsent' : ~StepFor(c, d)
      BY <1>1 DEF NewsInv, CardInv, StepFor
    <3>4. ASSUME NEW i \in 1..Len(buf'[c])
          PROVE  /\ buf'[c][i].kind \in Terminal => status[buf'[c][i].job] \in Terminal
                 /\ StepFor(c, buf'[c][i]) =>
                      /\ shown[c] <= buf'[c][i].version
                      /\ buf'[c][i].version <= version[CardJob[c]]
                      /\ \A d \in unsent' : StepFor(c, d) => buf'[c][i].version <= d.version
      <4>1. CASE i \in 1..Len(buf[c])
        BY <4>1, <3>1, <2>1, <1>1 DEF QueueInv
      <4>2. CASE i = Len(buf[c]) + 1
        BY <4>2, <3>1, <3>3
      <4> QED BY <4>1, <4>2, <3>2
    <3>5. ASSUME NEW i \in 1..Len(buf'[c]), NEW k \in 1..Len(buf'[c]), i < k,
                 StepFor(c, buf'[c][i]), StepFor(c, buf'[c][k])
          PROVE  buf'[c][i].version <= buf'[c][k].version
      <4>1. i \in 1..Len(buf[c])
        BY <3>5, <3>1
      <4>2. CASE k \in 1..Len(buf[c])
        BY <4>1, <4>2, <3>5, <3>1, <2>1 DEF QueueInv
      <4>3. CASE k = Len(buf[c]) + 1
        BY <4>1, <4>3, <3>5, <3>1, <2>1 DEF QueueInv
      <4> QED BY <4>2, <4>3, <3>2
    <3> QED BY <3>4, <3>5, <2>1 DEF QueueInv, StepFor
  <2> QED BY <2>2, <2>3, <1>2
<1>7. CardInv'
  BY <1>1, <1>2, <1>6 DEF CardInv, StepFor, rowVars, cardVars
<1>8. EndIsReal'
  BY <1>1 DEF EndIsReal, rowVars, cardVars
<1> QED BY <1>4, <1>5, <1>7, <1>8

-----------------------------------------------------------------------------
\* A card that ends shows a real end, or says that it lost sight of the job.
LEMMA SettleStep ==
  ASSUME IInv, NEW c \in Cards, NEW phase, NEW why,
         Settle(c, phase, why),
         \/ phase \in {"done", "error"} /\ why \in {"none", "job"}
              /\ status[CardJob[c]] \in Terminal
         \/ phase = "error" /\ why \in {"timeout", "connection"},
         UNCHANGED <<rowVars, unsent>>,
         faults' \in 0..MaxFaults
  PROVE  IInv'
<1> USE DEF IInv, Settle, rowVars
<1>1. TypeOK'
  <2>1. card' \in [Cards -> {"absent", "processing", "done", "error"}]
    BY DEF TypeOK
  <2>2. cause' \in [Cards -> {"none", "job", "timeout", "connection"}]
    BY DEF TypeOK
  <2>3. conn' \in [Cards -> {"none", "asked", "known", "bound", "polling"}]
    BY DEF TypeOK
  <2>4. buf' \in [Cards -> Seq(News)]
    <3> HIDE DEF News
    <3> QED BY DEF TypeOK
  <2> QED BY <2>1, <2>2, <2>3, <2>4 DEF TypeOK
<1>2. NewsInv'
  BY DEF NewsInv
<1>3. CardInv'
  <2>1. ASSUME NEW d \in Cards  PROVE QueueInv(d)'
    <3>1. CASE d = c
      BY <3>1 DEF QueueInv, TypeOK
    <3>2. CASE d # c
      <4>1. QueueInv(d) /\ buf'[d] = buf[d] /\ UNCHANGED <<status, version, unsent, shown>>
        BY <3>2 DEF CardInv, TypeOK
      <4> QED BY <4>1 DEF QueueInv, StepFor
    <3> QED BY <3>1, <3>2
  <2>2. \A d \in Cards : d # c => conn'[d] = conn[d] /\ buf'[d] = buf[d]
    BY DEF TypeOK
  <2>3. buf'[c] = <<>> /\ heard' = heard \ {c}
    BY DEF TypeOK
  <2>4. \A d \in Cards : conn'[d] # "bound" => buf'[d] = <<>> /\ d \notin heard'
    BY <2>2, <2>3 DEF CardInv
  <2> QED BY <2>1, <2>4 DEF CardInv, StepFor
<1>4. EndIsReal'
  BY DEF EndIsReal, TypeOK
<1> QED BY <1>1, <1>2, <1>3, <1>4

\* A snapshot of the row, by the first read or by polling: nothing is queued then,
\* and what is unpublished is the row's last write.
LEMMA SnapshotStep ==
  ASSUME IInv, NEW c \in Cards, conn[c] # "bound",
         status[CardJob[c]] \notin Terminal,
         shown' = [shown EXCEPT ![c] = version[CardJob[c]]],
         conn' = conn \/ conn' = [conn EXCEPT ![c] = "known"],
         elapsed' \in [Cards -> 0..Timeout],
         UNCHANGED <<rowVars, unsent, card, cause, heard, buf, faults>>
  PROVE  IInv'
<1> USE DEF IInv, rowVars
<1>1. TypeOK'
  <2>1. shown' \in [Cards -> 0..MaxWrites]
    BY DEF TypeOK
  <2>2. conn' \in [Cards -> {"none", "asked", "known", "bound", "polling"}]
    BY DEF TypeOK
  <2> QED BY <2>1, <2>2 DEF TypeOK
<1>2. NewsInv'
  BY DEF NewsInv
<1>3. CardInv'
  <2>1. \A d \in Cards : d # c => shown'[d] = shown[d] /\ conn'[d] = conn[d]
    BY DEF TypeOK
  <2>2. /\ shown'[c] = version[CardJob[c]]
        /\ version[CardJob[c]] \in Nat
        /\ conn'[c] # "bound" /\ buf[c] = <<>> /\ c \notin heard
    BY DEF TypeOK, CardInv
  <2>3. \A e \in unsent : StepFor(c, e) => e.version = version[CardJob[c]]
    BY DEF NewsInv, StepFor
  <2>4. ASSUME NEW d \in Cards  PROVE QueueInv(d)'
    <3>1. CASE d = c
      BY <3>1, <2>2 DEF QueueInv
    <3>2. CASE d # c
      <4>1. QueueInv(d) /\ shown'[d] = shown[d] /\ UNCHANGED <<status, version, unsent, buf>>
        BY <3>2, <2>1 DEF CardInv
      <4> QED BY <4>1 DEF QueueInv, StepFor
    <3> QED BY <3>1, <3>2
  <2>5. \A d \in Cards : /\ conn'[d] # "bound" => buf[d] = <<>> /\ d \notin heard
                        /\ shown'[d] <= version[CardJob[d]]
                        /\ \A e \in unsent : StepFor(d, e) => shown'[d] <= e.version
    BY <2>1, <2>2, <2>3 DEF CardInv
  <2> QED BY <2>4, <2>5 DEF CardInv, StepFor
<1>4. EndIsReal'
  BY DEF EndIsReal
<1> QED BY <1>1, <1>2, <1>3, <1>4

\* A message is taken from the queue; one about a step of the card's job is shown.
LEMMA TakeStep ==
  ASSUME IInv, NEW c \in Cards, conn[c] = "bound", buf[c] # <<>>,
         buf' = [buf EXCEPT ![c] = Tail(@)],
         \/ UNCHANGED <<shown, elapsed>>
         \/ /\ StepFor(c, Head(buf[c]))
            /\ shown' = [shown EXCEPT ![c] = Head(buf[c]).version]
            /\ elapsed' = [elapsed EXCEPT ![c] = 0],
         UNCHANGED <<rowVars, unsent, card, cause, conn, heard, faults>>
  PROVE  IInv'
<1> USE DEF IInv, rowVars
<1> DEFINE q == buf[c]
<1>1. /\ q \in Seq(News) /\ Len(q) \in Nat \ {0} /\ q[1] = Head(q)
      /\ Tail(q) \in Seq(News) /\ Len(Tail(q)) = Len(q) - 1
      /\ \A i \in 1..Len(Tail(q)) : Tail(q)[i] = q[i + 1]
  <2> HIDE DEF News
  <2>1. q \in Seq(News)
    BY DEF TypeOK
  <2> QED BY <2>1
<1>2. q[1].version \in 1..MaxWrites
  <2> HIDE DEF q
  <2>1. 1 \in 1..Len(q)
    BY <1>1
  <2> QED BY <1>1, <2>1, InQueue
<1>3. /\ buf'[c] = Tail(q)
      /\ \A d \in Cards : d # c => buf'[d] = buf[d] /\ shown'[d] = shown[d]
  BY DEF TypeOK
<1>4. \/ shown'[c] = shown[c]
      \/ StepFor(c, q[1]) /\ shown'[c] = q[1].version
  BY <1>1 DEF TypeOK
<1>5. TypeOK'
  <2>1. buf' \in [Cards -> Seq(News)]
    <3> HIDE DEF News
    <3> QED BY <1>1 DEF TypeOK
  <2>2. shown' \in [Cards -> 0..MaxWrites]
    <3>1. shown' = shown \/ shown' = [shown EXCEPT ![c] = q[1].version]
      BY <1>1
    <3>2. shown \in [Cards -> 0..MaxWrites] /\ q[1].version \in 0..MaxWrites
      BY <1>2 DEF TypeOK
    <3> HIDE DEF q
    <3> QED BY <3>1, <3>2
  <2>3. elapsed' \in [Cards -> 0..Timeout]
    <3>1. elapsed' = elapsed \/ elapsed' = [elapsed EXCEPT ![c] = 0]
      OBVIOUS
    <3>2. elapsed \in [Cards -> 0..Timeout] /\ 0 \in 0..Timeout
      BY DEF TypeOK
    <3> QED BY <3>1, <3>2
  <2> QED BY <2>1, <2>2, <2>3 DEF TypeOK
<1>6. NewsInv'
  BY DEF NewsInv
<1>7. CardInv'
  <2>1. QueueInv(c) /\ shown[c] \in Nat
    BY DEF CardInv, TypeOK
  <2>2. /\ shown'[c] <= version[CardJob[c]]
        /\ \A e \in unsent : StepFor(c, e) => shown'[c] <= e.version
        /\ \A i \in 2..Len(q) : StepFor(c, q[i]) => shown'[c] <= q[i].version
    <3>1. 1 \in 1..Len(q) /\ \A i \in 2..Len(q) : i \in 1..Len(q) /\ 1 < i
      BY <1>1
    <3>2. CASE shown'[c] = shown[c]
      BY <3>1, <3>2, <2>1 DEF CardInv, QueueInv
    <3>3. CASE StepFor(c, q[1]) /\ shown'[c] = q[1].version
      <4>1. /\ q[1].version <= version[CardJob[c]]
            /\ \A e \in unsent : StepFor(c, e) => q[1].version <= e.version
        BY <3>1, <3>3, <2>1 DEF QueueInv
      <4>2. \A i \in 2..Len(q) : StepFor(c, q[i]) => q[1].version <= q[i].version
        BY <3>1, <3>3, <2>1 DEF QueueInv
      <4> QED BY <4>1, <4>2, <3>3
    <3> QED BY <3>2, <3>3, <1>4
  <2>3. QueueInv(c)'
    <3>1. ASSUME NEW i \in 1..Len(Tail(q))
          PROVE  /\ i + 1 \in 2..Len(q) /\ i + 1 \in 1..Len(q)
                 /\ buf'[c][i] = q[i + 1]
      <4> HIDE DEF q, News
      <4> QED BY <1>1, <1>3
    <3>2. UNCHANGED <<status, version, unsent>>
      OBVIOUS
    <3>3. ASSUME NEW i \in 1..Len(Tail(q))
          PROVE  /\ q[i + 1].kind \in Terminal => status[q[i + 1].job] \in Terminal
                 /\ StepFor(c, q[i + 1]) =>
                      /\ shown'[c] <= q[i + 1].version
                      /\ q[i + 1].version <= version[CardJob[c]]
                      /\ \A e \in unsent : StepFor(c, e) => q[i + 1].version <= e.version
      BY <3>1, <2>1, <2>2 DEF QueueInv
    <3>4. ASSUME NEW i \in 1..Len(Tail(q)), NEW k \in 1..Len(Tail(q)), i < k,
                 StepFor(c, q[i + 1]), StepFor(c, q[k + 1])
          PROVE  q[i + 1].version <= q[k + 1].version
      <4>1. i + 1 < k + 1 /\ i + 1 \in 1..Len(q) /\ k + 1 \in 1..Len(q)
        BY <3>1, <3>4
      <4> QED BY <4>1, <3>4, <2>1 DEF QueueInv
    <3>5. \A i \in 1..Len(buf'[c]) : i \in 1..Len(Tail(q)) /\ buf'[c][i] = q[i + 1]
      BY <1>3, <3>1
    <3>6. ASSUME NEW i \in 1..Len(buf'[c])
          PROVE  /\ buf'[c][i].kind \in Terminal => status'[buf'[c][i].job] \in Terminal
                 /\ StepFor(c, buf'[c][i]) =>
                      /\ shown'[c] <= buf'[c][i].version
                      /\ buf'[c][i].version <= version'[CardJob[c]]
                      /\ \A e \in unsent' : StepFor(c, e) => buf'[c][i].version <= e.version
      <4> HIDE DEF q
      <4> QED BY <3>2, <3>3, <3>5
    <3>7. ASSUME NEW i \in 1..Len(buf'[c]), NEW k \in 1..Len(buf'[c]), i < k,
                 StepFor(c, buf'[c][i]), StepFor(c, buf'[c][k])
          PROVE  buf'[c][i].version <= buf'[c][k].version
      <4> HIDE DEF q
      <4> QED BY <3>4, <3>5, <3>7
    <3> QED BY <3>6, <3>7 DEF QueueInv, StepFor
  <2>4. ASSUME NEW d \in Cards, d # c  PROVE QueueInv(d)'
    <3>1. QueueInv(d) /\ buf'[d] = buf[d] /\ shown'[d] = shown[d]
      BY <2>4, <1>3 DEF CardInv
    <3> QED BY <3>1 DEF QueueInv, StepFor
  <2>5. \A d \in Cards : conn[d] # "bound" => buf'[d] = <<>> /\ d \notin heard
    BY <1>3 DEF CardInv
  <2>6. \A d \in Cards : /\ shown'[d] <= version[CardJob[d]]
                        /\ \A e \in unsent : StepFor(d, e) => shown'[d] <= e.version
    BY <1>3, <2>2 DEF CardInv
  <2> QED BY <2>3, <2>4, <2>5, <2>6 DEF CardInv, StepFor
<1>8. EndIsReal'
  BY DEF EndIsReal
<1> QED BY <1>5, <1>6, <1>7, <1>8

\* The other steps of a card and its stream change nothing that is shown or queued,
\* except that a stream may begin to listen with, or be left with, an empty queue.
LEMMA ConnectionStep ==
  ASSUME IInv, NEW c \in Cards,
         \/ OpenCard(c) \/ Connect(c) \/ Subscribe(c) \/ SubscribeFails(c)
         \/ Silence(c) \/ Disconnect(c) \/ QueueLost(c)
  PROVE  IInv'
<1> USE DEF IInv, rowVars
<1>1. UNCHANGED <<status, holder, version, unsent, cause, shown>>
  BY DEF OpenCard, Connect, Subscribe, SubscribeFails, Silence, Disconnect, QueueLost, cardVars
<1>2. \A d \in Cards :
        /\ buf'[d] \in {buf[d], <<>>}
        /\ conn'[d] # "bound" => buf'[d] = <<>> /\ d \notin heard'
        /\ card'[d] = "done" => card[d] = "done"
  <2>1. CASE OpenCard(c)
    BY <2>1 DEF OpenCard, CardInv, TypeOK
  <2>2. CASE Connect(c)
    BY <2>2 DEF Connect, CardInv, TypeOK
  <2>3. CASE Subscribe(c)
    BY <2>3 DEF Subscribe, CardInv, TypeOK
  <2>4. CASE SubscribeFails(c)
    BY <2>4 DEF SubscribeFails, CardInv, TypeOK
  <2>5. CASE Silence(c)
    BY <2>5 DEF Silence, CardInv, TypeOK
  <2>6. CASE Disconnect(c)
    BY <2>6 DEF Disconnect, CardInv, TypeOK
  <2>7. CASE QueueLost(c)
    BY <2>7 DEF QueueLost, cardVars, CardInv, TypeOK
  <2> QED BY <2>1, <2>2, <2>3, <2>4, <2>5, <2>6, <2>7
<1>3. TypeOK'
  <2>1. card' \in [Cards -> {"absent", "processing", "done", "error"}]
    BY DEF TypeOK, OpenCard, Connect, Subscribe, SubscribeFails, Silence, Disconnect, QueueLost, cardVars
  <2> DEFINE Places == {"none", "asked", "known", "bound", "polling"}
  <2>2. conn' \in [Cards -> Places]
    <3>1. conn' = conn \/ \E s \in Places : conn' = [conn EXCEPT ![c] = s]
      BY DEF OpenCard, Connect, Subscribe, SubscribeFails, Silence, Disconnect, QueueLost, cardVars
    <3>2. conn \in [Cards -> Places]
      BY DEF TypeOK
    <3> HIDE DEF Places
    <3> QED BY <3>1, <3>2
  <2>3. buf' = buf \/ buf' = [buf EXCEPT ![c] = <<>>]
    BY DEF OpenCard, Connect, Subscribe, SubscribeFails, Silence, Disconnect, QueueLost
  <2>4. buf' \in [Cards -> Seq(News)]
    <3> HIDE DEF News
    <3>1. buf \in [Cards -> Seq(News)] /\ <<>> \in Seq(News)
      BY DEF TypeOK
    <3>2. CASE buf' = [buf EXCEPT ![c] = <<>>]
      BY <3>1, <3>2
    <3> QED BY <2>3, <3>1, <3>2
  <2>5. elapsed' \in [Cards -> 0..Timeout]
    <3>1. elapsed \in [Cards -> 0..Timeout]
      BY DEF TypeOK
    <3>2. \/ elapsed' = elapsed
          \/ elapsed' = [elapsed EXCEPT ![c] = 0]
          \/ elapsed[c] < Timeout /\ elapsed' = [elapsed EXCEPT ![c] = elapsed[c] + 1]
      BY DEF OpenCard, Connect, Subscribe, SubscribeFails, Silence, Disconnect, QueueLost, cardVars
    <3>3. 0 \in 0..Timeout /\ (elapsed[c] < Timeout => elapsed[c] + 1 \in 0..Timeout)
      BY <3>1
    <3> QED BY <3>1, <3>2, <3>3
  <2>6. heard' \subseteq Cards
    BY DEF TypeOK, OpenCard, Connect, Subscribe, SubscribeFails, Silence, Disconnect, QueueLost, cardVars
  <2>7. faults' \in 0..MaxFaults
    BY DEF TypeOK, Fault, OpenCard, Connect, Subscribe, SubscribeFails, Silence, Disconnect, QueueLost
  <2> QED BY <1>1, <2>1, <2>2, <2>4, <2>5, <2>6, <2>7 DEF TypeOK
<1>4. NewsInv'
  BY <1>1 DEF NewsInv
<1>5. CardInv'
  <2>1. ASSUME NEW d \in Cards  PROVE QueueInv(d)'
    <3>1. CASE buf'[d] = buf[d]
      <4>1. QueueInv(d)
        BY DEF CardInv
      <4> QED BY <3>1, <4>1, <1>1 DEF QueueInv, StepFor
    <3>2. CASE buf'[d] = <<>>
      BY <3>2 DEF QueueInv
    <3> QED BY <3>1, <3>2, <1>2
  <2> QED BY <1>1, <1>2, <2>1 DEF CardInv, StepFor
<1>6. EndIsReal'
  BY <1>1, <1>2 DEF EndIsReal
<1> QED BY <1>3, <1>4, <1>5, <1>6

\* Every step of a stream is one of the kinds above.
LEMMA CardStep ==
  ASSUME IInv, NEW c \in Cards, OpenCard(c) \/ Stream(c) \/ Broken(c)
  PROVE  IInv'
<1> USE DEF IInv
<1>1. faults \in 0..MaxFaults /\ elapsed \in [Cards -> 0..Timeout]
  BY DEF TypeOK
<1>2. CASE CheckRow(c)
  <2>1. CASE status[CardJob[c]] \in Terminal
    BY <1>1, <1>2, <2>1, SettleStep DEF CheckRow, ShowEnd
  <2>2. CASE status[CardJob[c]] \notin Terminal
    BY <1>1, <1>2, <2>2, SnapshotStep DEF CheckRow
  <2> QED BY <2>1, <2>2
<1>3. CASE Poll(c)
  <2>1. CASE status[CardJob[c]] \in Terminal
    BY <1>1, <1>3, <2>1, SettleStep DEF Poll, ShowEnd
  <2>2. CASE status[CardJob[c]] \notin Terminal
    <3>1. elapsed' \in [Cards -> 0..Timeout]
      BY <1>1, <1>3, <2>2 DEF Poll
    <3> QED BY <1>3, <2>2, <3>1, SnapshotStep DEF Poll
  <2> QED BY <2>1, <2>2
<1>4. CASE Receive(c)
  <2>1. QueueInv(c) /\ Len(buf[c]) \in Nat \ {0} /\ Head(buf[c]) = buf[c][1]
    <3> HIDE DEF News
    <3>1. buf[c] \in Seq(News) /\ buf[c] # <<>>
      BY <1>4 DEF Receive, TypeOK
    <3> QED BY <3>1 DEF CardInv
  <2>2. CASE Head(buf[c]).job = CardJob[c] /\ Head(buf[c]).kind \in Terminal
    <3>1. status[CardJob[c]] \in Terminal
      BY <2>1, <2>2 DEF QueueInv
    <3> QED BY <1>1, <1>4, <2>2, <3>1, SettleStep DEF Receive, ShowEnd
  <2>3. CASE Head(buf[c]).job = CardJob[c] /\ Head(buf[c]).kind = "running"
    BY <1>4, <2>3, TakeStep DEF Receive, StepFor
  <2>4. CASE Head(buf[c]).job # CardJob[c]
    BY <1>4, <2>4, TakeStep DEF Receive, cardVars
  <2> QED BY <1>4, <2>2, <2>3, <2>4 DEF Receive
<1>5. CASE GiveUp(c)
  BY <1>1, <1>5, SettleStep DEF GiveUp
<1>6. CASE ConnectRefused(c)
  <2>1. faults' \in 0..MaxFaults
    BY <1>1, <1>6 DEF ConnectRefused, Fault
  <2> QED BY <1>6, <2>1, SettleStep DEF ConnectRefused
<1>7. CASE OpenCard(c) \/ Connect(c) \/ Subscribe(c) \/ SubscribeFails(c)
           \/ Silence(c) \/ Disconnect(c) \/ QueueLost(c)
  BY <1>7, ConnectionStep
<1> QED BY <1>2, <1>3, <1>4, <1>5, <1>6, <1>7 DEF Stream, Broken

\* The invariant is inductive.
LEMMA NextInv == IInv /\ [Next]_vars => IInv'
<1> SUFFICES ASSUME IInv, [Next]_vars  PROVE IInv'
  OBVIOUS
<1>1. CASE Row
  BY <1>1, SilentRowStep, NewsStep, LeaveStep, PublishStep DEF Row
<1>2. ASSUME NEW c \in Cards, OpenCard(c) \/ Stream(c) \/ Broken(c)  PROVE IInv'
  BY <1>2, CardStep
<1>3. CASE UNCHANGED vars
  <2>1. UNCHANGED <<status, holder, version, unsent, card, cause, shown, conn, elapsed, heard,
                    buf, faults>>
    BY <1>3 DEF vars, rowVars, cardVars
  <2> HIDE DEF News, Terminal, Kinds
  <2>2. TypeOK'
    BY <2>1 DEF IInv, TypeOK
  <2>3. NewsInv'
    BY <2>1 DEF IInv, NewsInv
  <2>4. CardInv'
    <3>1. ASSUME NEW c \in Cards  PROVE QueueInv(c)'
      <4>1. QueueInv(c)
        BY DEF IInv, CardInv
      <4> QED BY <2>1, <4>1 DEF QueueInv, StepFor
    <3> QED BY <2>1, <3>1 DEF IInv, CardInv, StepFor
  <2>5. EndIsReal'
    BY <2>1 DEF IInv, EndIsReal
  <2> QED BY <2>2, <2>3, <2>4, <2>5 DEF IInv
<1> QED BY <1>1, <1>2, <1>3 DEF Next

-----------------------------------------------------------------------------
\* The invariant holds in every reachable state.
THEOREM Invariance == Spec => []IInv
<1> QED BY InitInv, NextInv, PTL DEF Spec

\* Rows, streams and cards keep their types; no stream waits past its limit.
THEOREM TypeCorrect == Spec => []TypeOK
<1>1. IInv => TypeOK
  BY DEF IInv
<1> QED BY Invariance, <1>1, PTL

\* A card shows the end of a job, or its failure, only when the row has ended.
THEOREM EndReal == Spec => []EndIsReal
<1>1. IInv => EndIsReal
  BY DEF IInv
<1> QED BY Invariance, <1>1, PTL

\* In every step a card shows what is at least as new as what it showed before: the
\* snapshot of the row, or the oldest message of its queue.
LEMMA ForwardStep ==
  ASSUME IInv, [Next]_vars, NEW c \in Cards
  PROVE  shown[c] <= shown'[c]
<1> USE DEF IInv
<1>1. shown \in [Cards -> 0..MaxWrites] /\ shown[c] \in Nat
  BY DEF TypeOK
<1>2. CASE UNCHANGED shown
  BY <1>1, <1>2
<1>3. ASSUME NEW d \in Cards,
             shown' = [shown EXCEPT ![d] = version[CardJob[d]]]
      PROVE  shown[c] <= shown'[c]
  BY <1>1, <1>3 DEF CardInv
<1>4. ASSUME NEW d \in Cards, Receive(d), ~UNCHANGED shown
      PROVE  shown[c] <= shown'[c]
  <2>1. /\ StepFor(d, Head(buf[d]))
        /\ shown' = [shown EXCEPT ![d] = Head(buf[d]).version]
    BY <1>4 DEF Receive, ShowEnd, Settle, cardVars, StepFor
  <2>2. QueueInv(d) /\ Len(buf[d]) \in Nat \ {0} /\ Head(buf[d]) = buf[d][1]
    <3> HIDE DEF News
    <3>1. buf[d] \in Seq(News) /\ buf[d] # <<>>
      BY <1>4 DEF Receive, TypeOK
    <3> QED BY <3>1 DEF CardInv
  <2>3. shown[d] <= Head(buf[d]).version
    BY <2>1, <2>2 DEF QueueInv
  <2> QED BY <1>1, <2>1, <2>3
<1>5. CASE Row
  BY <1>2, <1>5 DEF Row, Recover, Submit, Claim, MarkStep, Complete, Fail, Write, Leave,
                    Publish, PublishLost, cardVars
<1>6. ASSUME NEW d \in Cards, OpenCard(d) \/ Broken(d)  PROVE UNCHANGED shown
  BY <1>6 DEF OpenCard, Broken, ConnectRefused, SubscribeFails, Disconnect, QueueLost,
              Settle, cardVars
<1>7. ASSUME NEW d \in Cards, Stream(d), ~Receive(d)
      PROVE  \/ UNCHANGED shown
             \/ shown' = [shown EXCEPT ![d] = version[CardJob[d]]]
  BY <1>7 DEF Stream, Connect, CheckRow, Subscribe, Silence, Poll, GiveUp, ShowEnd, Settle
<1>8. CASE UNCHANGED vars
  BY <1>2, <1>8 DEF vars, cardVars
<1> QED BY <1>2, <1>3, <1>4, <1>5, <1>6, <1>7, <1>8 DEF Next

\* Neither a late message nor a reconnect sets the progress of a card back.
THEOREM ProgressForward == Spec => ProgressNeverGoesBack
<1>1. IInv /\ [Next]_vars => [\A c \in Cards : shown[c] <= shown'[c]]_vars
  BY ForwardStep
<1> QED BY <1>1, Invariance, PTL DEF Spec, ProgressNeverGoesBack

-----------------------------------------------------------------------------
\* A message that is not the queue's head stays in the queue when the head is taken.
LEMMA InTail ==
  ASSUME NEW q \in Seq(News), q # <<>>, NEW e \in Range(q), e # Head(q)
  PROVE  e \in Range(Tail(q))
<1> HIDE DEF News
<1>1. PICK i \in 1..Len(q) : q[i] = e
  BY DEF Range
<1>2. i # 1 /\ i - 1 \in 1..Len(Tail(q)) /\ Tail(q)[i - 1] = e
  BY <1>1
<1>3. DOMAIN Tail(q) = 1..Len(Tail(q))
  OBVIOUS
<1> QED BY <1>2, <1>3 DEF Range

\* A message stays in the queue when another one is appended, and so does that one.
LEMMA InAppended ==
  ASSUME NEW q \in Seq(News), NEW e \in News
  PROVE  Range(q) \cup {e} \subseteq Range(Append(q, e))
<1> HIDE DEF News
<1>1. /\ DOMAIN q = 1..Len(q) /\ Len(q) \in Nat
      /\ DOMAIN Append(q, e) = 1..(Len(q) + 1)
      /\ Append(q, e)[Len(q) + 1] = e
      /\ \A i \in 1..Len(q) : Append(q, e)[i] = q[i]
  OBVIOUS
<1>2. \A i \in 1..Len(q) : i \in 1..(Len(q) + 1)
  BY <1>1
<1>3. Len(q) + 1 \in 1..(Len(q) + 1)
  BY <1>1
<1> QED BY <1>1, <1>2, <1>3 DEF Range

\* The end of the job that card c follows.
EndFor(c, e) == e.job = CardJob[c] /\ e.kind \in Terminal

EndWaits(c) == \E e \in unsent \cup Range(buf[c]) : EndFor(c, e)

\* Only a fault takes the end of a job away from a stream that listens.
LEMMA WayStep ==
  ASSUME IInv, EndIsOnItsWay, [Next]_vars
  PROVE  EndIsOnItsWay'
<1> SUFFICES ASSUME faults' = 0, NEW c \in Cards, c \in heard', status'[CardJob[c]] \in Terminal
             PROVE  EndWaits(c)'
  <2>1. heard' \subseteq Cards
    BY NextInv DEF IInv, TypeOK
  <2> QED BY <2>1 DEF EndIsOnItsWay, EndWaits, EndFor
<1> USE DEF IInv
<1>1. faults \in Nat /\ ~Fault
  BY DEF TypeOK, Fault
<1>2. faults = 0
  BY <1>1 DEF Next, Row, Stream, Broken, Submit, Claim, Recover, MarkStep, Complete, Fail, Write,
       Leave, Publish, PublishLost, OpenCard, Connect, CheckRow, Subscribe, Receive, Silence, Poll,
       GiveUp, ConnectRefused, SubscribeFails, Disconnect, QueueLost, vars
<1>3. ASSUME c \in heard, status[CardJob[c]] \in Terminal  PROVE EndWaits(c)
  BY <1>2, <1>3 DEF EndIsOnItsWay, EndWaits, EndFor
<1>4. c \in heard => conn[c] = "bound"
  BY DEF CardInv
<1>5. buf[c] \in Seq(News) /\ CardJob[c] \in Jobs
  BY DEF TypeOK
<1>6. ASSUME UNCHANGED <<unsent, buf, heard>>, status[CardJob[c]] \in Terminal  PROVE EndWaits(c)'
  BY <1>3, <1>6 DEF EndWaits, EndFor
<1>7. CASE Row
  <2>1. ASSUME \/ Recover
               \/ \E j \in Jobs : Submit(j)
               \/ \E j \in Jobs, w \in Workers : Claim(j, w)
        PROVE  EndWaits(c)'
    <3>1. status[CardJob[c]] \in Terminal
      BY <2>1, <1>5 DEF TypeOK, Recover, Submit, Claim, Table!Recover, Table!Submit, Table!Claim
    <3> QED BY <2>1, <3>1, <1>6 DEF Recover, Submit, Claim, cardVars
  <2>2. ASSUME NEW j \in Jobs, NEW p \in Workers \cup {Nobody, Sweeper}, NEW kind \in Kinds,
               Write(p, j, kind),
               \/ status' = status
               \/ kind \in Terminal /\ status' = [status EXCEPT ![j] = kind]
        PROVE  EndWaits(c)'
    <3>1. /\ unsent \subseteq unsent' /\ UNCHANGED <<buf, heard>>
          /\ [by |-> p, job |-> j, kind |-> kind, version |-> version[j] + 1] \in unsent'
      BY <2>2 DEF Write, cardVars
    <3>2. CASE status[CardJob[c]] \in Terminal
      BY <3>1, <3>2, <1>3 DEF EndWaits, EndFor
    <3>3. CASE status[CardJob[c]] \notin Terminal
      <4>1. j = CardJob[c] /\ kind \in Terminal
        BY <2>2, <3>3, <1>5 DEF TypeOK
      <4> QED BY <3>1, <4>1 DEF EndWaits, EndFor
    <3> QED BY <3>2, <3>3
  <2>3. ASSUME NEW j \in Jobs, \/ MarkStep(j) \/ Complete(j)
                               \/ \E p \in Workers \cup {Sweeper} : Fail(j, p)
        PROVE  EndWaits(c)'
    <3>1. holder[j] \in Workers \cup {Nobody}
      BY DEF TypeOK
    <3>2. CASE MarkStep(j)
      BY <3>1, <3>2, <2>2 DEF MarkStep
    <3>3. CASE Complete(j)
      BY <3>1, <3>3, <2>2 DEF Complete, Table!Complete
    <3>4. ASSUME NEW p \in Workers \cup {Sweeper}, Fail(j, p)  PROVE EndWaits(c)'
      BY <3>4, <2>2 DEF Fail, Table!Fail
    <3> QED BY <2>3, <3>2, <3>3, <3>4
  <2>4. ASSUME NEW w \in Workers, Leave(w)  PROVE EndWaits(c)'
    <3>1. unsent' = unsent
      BY <2>4, <1>1 DEF Leave, Quiet
    <3> QED BY <2>4, <3>1, <1>6 DEF Leave, Table!Release, cardVars
  <2>5. ASSUME NEW e \in unsent, Publish(e)  PROVE EndWaits(c)'
    <3>1. c \in heard /\ status[CardJob[c]] \in Terminal /\ e \in News
      BY <2>5 DEF Publish, rowVars, cardVars, TypeOK
    <3>2. buf'[c] = Append(buf[c], e) /\ unsent' = unsent \ {e}
      BY <2>5, <3>1, <1>4 DEF Publish
    <3>3. unsent \cup Range(buf[c]) \subseteq unsent' \cup Range(buf'[c])
      <4> HIDE DEF News
      <4> QED BY <3>1, <3>2, <1>5, InAppended
    <3> QED BY <3>1, <3>3, <1>3 DEF EndWaits, EndFor
  <2>6. \A e \in unsent : ~PublishLost(e)
    BY <1>1 DEF PublishLost
  <2> QED BY <1>7, <2>1, <2>3, <2>4, <2>5, <2>6 DEF Row
<1>8. ASSUME NEW d \in Cards, OpenCard(d) \/ Stream(d) \/ Broken(d)  PROVE EndWaits(c)'
  <2>1. UNCHANGED <<status, unsent>> /\ ~Broken(d)
    BY <1>1, <1>8 DEF OpenCard, Stream, Broken, Connect, CheckRow, Subscribe, Receive, Silence,
         Poll, GiveUp, ConnectRefused, SubscribeFails, Disconnect, QueueLost, rowVars
  <2>2. CASE c \notin heard
    <3>1. Subscribe(d) /\ c = d
      BY <1>8, <2>1, <2>2 DEF OpenCard, Stream, Connect, CheckRow, Subscribe, Receive, Silence,
           Poll, GiveUp, ShowEnd, Settle, cardVars
    <3> QED BY <3>1, <2>1, <2>2 DEF Subscribe
  <2>3. CASE c \in heard /\ buf'[c] = buf[c]
    BY <2>1, <2>3, <1>3 DEF EndWaits, EndFor
  <2>4. CASE c \in heard /\ buf'[c] # buf[c]
    <3>1. /\ c = d /\ Receive(c)
          /\ ~EndFor(c, Head(buf[c]))
          /\ buf'[c] = Tail(buf[c])
      <4> HIDE DEF News
      <4>1. buf \in [Cards -> Seq(News)]
        BY DEF TypeOK
      <4>2. ASSUME NEW phase, NEW why, Settle(d, phase, why)  PROVE FALSE
        BY <4>1, <4>2, <2>4 DEF Settle
      <4>3. CASE OpenCard(d) \/ Connect(d) \/ Subscribe(d) \/ Silence(d)
        BY <4>3, <2>4 DEF OpenCard, Connect, Subscribe, Silence
      <4>4. CASE CheckRow(d) \/ Poll(d) \/ GiveUp(d)
        BY <4>2, <4>4, <2>4 DEF CheckRow, Poll, GiveUp, ShowEnd
      <4>5. CASE Receive(d)
        BY <4>1, <4>2, <4>5, <2>4 DEF Receive, ShowEnd, EndFor
      <4> QED BY <1>8, <2>1, <4>3, <4>4, <4>5 DEF Stream
    <3>2. PICK e \in unsent \cup Range(buf[c]) : EndFor(c, e)
      BY <2>1, <2>4, <1>3 DEF EndWaits
    <3>3. e \in unsent' \cup Range(buf'[c])
      <4> HIDE DEF News
      <4> QED BY <2>1, <3>1, <3>2, <1>5, InTail DEF Receive
    <3> QED BY <3>2, <3>3 DEF EndWaits, EndFor
  <2> QED BY <2>2, <2>3, <2>4
<1>9. CASE UNCHANGED vars
  BY <1>9, <1>6 DEF vars, rowVars, cardVars
<1> QED BY <1>7, <1>8, <1>9 DEF Next

\* Without a fault, the end of a job reaches every stream that listened before it.
THEOREM EndOnItsWay == Spec => []EndIsOnItsWay
<1>1. Init => EndIsOnItsWay
  BY DEF Init, EndIsOnItsWay
<1> QED BY <1>1, WayStep, Invariance, PTL DEF Spec
=============================================================================
