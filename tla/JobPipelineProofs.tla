------------------------- MODULE JobPipelineProofs -------------------------
(***************************************************************************)
(* Theorems about JobPipeline for any set of jobs, workers and faults.     *)
(***************************************************************************)
EXTENDS JobPipeline, TLAPS

----------------------------------------------------------------------------
(* Type correctness *)

\* A report is a percentage between 5 and 100, and the next one is larger.
LEMMA ProgressStepsGrow ==
    ASSUME NEW t
    PROVE  /\ \A n \in 1..LastReport : ProgressSteps(t)[n] \in 6..99
           /\ \A n \in 1..(LastReport - 1) : ProgressSteps(t)[n] < ProgressSteps(t)[n + 1]
BY DEF ProgressSteps, LastReport

\* The three writes of the store keep the columns in their domains.
LEMMA StoreTypes ==
    ASSUME DbTypeOK, NEW j, NEW outcome,
           \/ \E p \in 0..100 : UpdateStatus(j, p, outcome)
           \/ WriteDone(j, outcome)
           \/ WriteFailed(j, outcome)
    PROVE  DbTypeOK'
<1> USE DEF DbTypeOK, Lifecycle!TypeOK, Lifecycle!Statuses, db
<1>1. CASE \E p \in 0..100 : UpdateStatus(j, p, outcome)
  BY <1>1 DEF UpdateStatus
<1>2. CASE WriteDone(j, outcome)
  <2>1. Lifecycle!TypeOK'
    BY <1>2 DEF WriteDone
  <2>2. error' \in [Jobs -> BOOLEAN] /\ result' \in [Jobs -> BOOLEAN]
    BY <1>2 DEF WriteDone
  <2> QED  BY <2>1, <2>2
<1>3. CASE WriteFailed(j, outcome)
  BY <1>3 DEF WriteFailed
<1> QED  BY <1>1, <1>2, <1>3

\* PublishJob, the only step that changes the stream, makes it longer by one
\* message or two of the same job.
LEMMA PublishExtends ==
    ASSUME NEW j \in Jobs, PublishJob(j), RedisTypeOK
    PROVE  /\ stream' \in Seq(Jobs)
           /\ Len(stream') \in {Len(stream) + 1, Len(stream) + 2}
           /\ \A i \in 1..Len(stream) : stream'[i] = stream[i]
           /\ \A i \in 1..Len(stream') : i > Len(stream) => stream'[i] = j
           /\ "publish_resent" \notin Faults => Len(stream') = Len(stream) + 1
<1>1. CASE stream' = Append(stream, j)
  BY <1>1 DEF RedisTypeOK
<1>2. CASE stream' = stream \o <<j, j>> /\ "publish_resent" \in Faults
  <2>1. <<j, j>> \in Seq(Jobs) /\ Len(<<j, j>>) = 2
    OBVIOUS
  <2>2. /\ stream' \in Seq(Jobs)
        /\ Len(stream') = Len(stream) + 2
        /\ \A i \in 1..Len(stream') :
              stream'[i] = IF i <= Len(stream) THEN stream[i] ELSE <<j, j>>[i - Len(stream)]
    BY <1>2, <2>1 DEF RedisTypeOK
  <2> QED  BY <1>2, <2>2 DEF RedisTypeOK
<1> QED  BY <1>1, <1>2 DEF PublishJob

\* No step takes a variable out of its domain, whatever fails.
LEMMA TypeStep == TypeOK /\ [Next]_vars => TypeOK'
<1>1. ASSUME TypeOK, NEW j \in Jobs,
             SubmitJob(j) \/ CommitJob(j) \/ EnsureGroup(j) \/ RequestFails(j)
      PROVE  TypeOK'
  BY <1>1 DEF TypeOK, DbTypeOK, Lifecycle!TypeOK, Lifecycle!Statuses, RedisTypeOK, WorkerTypeOK,
     Requests, SubmitJob, CommitJob, EnsureGroup, RequestFails, CreateGroup, db, redis, worker
<1>2. ASSUME TypeOK, NEW j \in Jobs, PublishJob(j) PROVE TypeOK'
  <2>1. RedisTypeOK'
    BY <1>2, PublishExtends DEF TypeOK, RedisTypeOK, PublishJob
  <2>2. DbTypeOK' /\ WorkerTypeOK'
    BY <1>2 DEF TypeOK, DbTypeOK, Lifecycle!TypeOK, WorkerTypeOK, PublishJob, db, worker
  <2> QED  BY <1>2, <2>1, <2>2 DEF TypeOK, PublishJob, Requests
<1>3. ASSUME TypeOK, NEW w \in Workers,
             StartWorker(w) \/ PipelineFails(w) \/ Shutdown(w) \/ Vanish(w)
      PROVE  TypeOK'
  <2>1. WorkerTypeOK'
    BY <1>3 DEF TypeOK, WorkerTypeOK, Pcs, Contexts, LastReport, GoTo,
       StartWorker, PipelineFails, Shutdown, Vanish
  <2>2. UNCHANGED <<db, request, redis>>
    BY <1>3 DEF StartWorker, PipelineFails, Shutdown, Vanish
  <2> QED
    BY <1>3, <2>1, <2>2 DEF TypeOK, DbTypeOK, Lifecycle!TypeOK, RedisTypeOK, db, redis
<1>4. ASSUME TypeOK, NEW w \in Workers,
             EnsureConsumerGroup(w) \/ ReadMessage(w) \/ LoseMessage(w) \/ Acknowledge(w)
      PROVE  TypeOK'
  <2> USE <1>4 DEF TypeOK, RedisTypeOK, WorkerTypeOK, Pcs, Contexts, LastReport, GoTo, SettleContext
  <2>1. CASE EnsureConsumerGroup(w)
    <3>1. RedisTypeOK'
      BY <2>1 DEF EnsureConsumerGroup, CreateGroup, redis
    <3> QED  BY <2>1, <3>1 DEF EnsureConsumerGroup, DbTypeOK, Lifecycle!TypeOK, db
  <2>2. CASE ReadMessage(w)
    <3>1. RedisTypeOK' /\ WorkerTypeOK'
      BY <2>2 DEF ReadMessage, Deliver
    <3> QED  BY <2>2, <3>1 DEF ReadMessage, DbTypeOK, Lifecycle!TypeOK, db
  <2>3. CASE LoseMessage(w)
    <3>1. RedisTypeOK' /\ WorkerTypeOK'
      BY <2>3 DEF LoseMessage, Deliver
    <3> QED  BY <2>3, <3>1 DEF LoseMessage, DbTypeOK, Lifecycle!TypeOK, db
  <2>4. CASE Acknowledge(w)
    <3>1. pel' \subseteq Nat
      BY <2>4 DEF Acknowledge
    <3>2. WorkerTypeOK'
      BY <2>4 DEF Acknowledge
    <3> QED  BY <2>4, <3>1, <3>2 DEF Acknowledge, DbTypeOK, Lifecycle!TypeOK, db
  <2> QED  BY <2>1, <2>2, <2>3, <2>4
<1>5. ASSUME TypeOK, NEW w \in Workers,
             BeginJob(w) \/ ReportProgress(w) \/ MarkDone(w) \/ MarkFailed(w)
      PROVE  TypeOK'
  <2>1. DbTypeOK'
    <3>1. CASE BeginJob(w)
      BY <1>5, <3>1, StoreTypes DEF TypeOK, BeginJob
    <3>2. CASE ReportProgress(w)
      <4>1. reports[w] + 1 \in 1..LastReport
        BY <1>5, <3>2 DEF TypeOK, WorkerTypeOK, ReportProgress, LastReport
      <4>2. ProgressSteps(JobType[JobOf(w)])[reports[w] + 1] \in 0..100
        BY <4>1, ProgressStepsGrow
      <4> QED  BY <1>5, <3>2, <4>2, StoreTypes DEF TypeOK, ReportProgress
    <3>3. CASE MarkDone(w)
      BY <1>5, <3>3, StoreTypes DEF TypeOK, MarkDone
    <3>4. CASE MarkFailed(w)
      BY <1>5, <3>4, StoreTypes DEF TypeOK, MarkFailed
    <3> QED  BY <1>5, <3>1, <3>2, <3>3, <3>4
  <2>2. WorkerTypeOK'
    BY <1>5 DEF TypeOK, WorkerTypeOK, Pcs, Contexts, LastReport, GoTo, SettleContext,
       BeginJob, ReportProgress, MarkDone, MarkFailed
  <2>3. UNCHANGED <<request, redis>>
    BY <1>5 DEF BeginJob, ReportProgress, MarkDone, MarkFailed
  <2> QED  BY <1>5, <2>1, <2>2, <2>3 DEF TypeOK, RedisTypeOK, redis
<1>6. ASSUME TypeOK, WipeRedis PROVE TypeOK'
  <2> USE <1>6 DEF TypeOK, RedisTypeOK, WipeRedis
  <2>1. stream' \in Seq(Jobs) /\ wiped' \in Nat /\ cursor' \in Nat
    OBVIOUS
  <2>2. group' \in BOOLEAN /\ pel' \subseteq Nat
    OBVIOUS
  <2> QED
    BY <2>1, <2>2 DEF DbTypeOK, Lifecycle!TypeOK, WorkerTypeOK, db, worker
<1>7. ASSUME TypeOK, UNCHANGED vars PROVE TypeOK'
  BY <1>7 DEF TypeOK, DbTypeOK, Lifecycle!TypeOK, RedisTypeOK, WorkerTypeOK,
     vars, db, redis, worker
<1> QED
  BY <1>1, <1>2, <1>3, <1>4, <1>5, <1>6, <1>7
     DEF Next, RequestStep, WorkerStep, ReadNothing, Exit, Crash

\* Every variable stays in its domain, whatever fails.
THEOREM TypeCorrect == Spec => []TypeOK
<1>1. Init => TypeOK
  <2>1. Init => stream \in Seq(Jobs) /\ wiped \in Nat /\ cursor \in Nat
    BY DEF Init
  <2>2. Init => group \in BOOLEAN /\ pel \subseteq Nat
    BY DEF Init
  <2> QED
  BY <2>1, <2>2 DEF Init, RedisTypeOK, Lifecycle!Init, TypeOK, DbTypeOK, Lifecycle!TypeOK, Lifecycle!Statuses,
     WorkerTypeOK, Requests, Pcs, Contexts, LastReport
<1> QED  BY <1>1, TypeStep, PTL DEF Spec

----------------------------------------------------------------------------
(* A message never runs ahead of its row *)

\* No handler or worker deletes a row.
LEMMA RowsStay ==
    ASSUME TypeOK, [Next]_vars, NEW j \in Jobs, status[j] # "absent"
    PROVE  status'[j] # "absent"
<1>1. ASSUME NEW k, NEW p, NEW outcome,
             UpdateStatus(k, p, outcome) \/ WriteDone(k, outcome) \/ WriteFailed(k, outcome)
      PROVE  status'[j] # "absent"
  BY <1>1 DEF TypeOK, DbTypeOK, Lifecycle!TypeOK, UpdateStatus, WriteDone, WriteFailed, db
<1>2. ASSUME NEW w \in Workers, BeginJob(w) \/ ReportProgress(w) \/ MarkDone(w) \/ MarkFailed(w)
      PROVE  status'[j] # "absent"
  BY <1>1, <1>2 DEF BeginJob, ReportProgress, MarkDone, MarkFailed
<1>3. ASSUME NEW k \in Jobs, CommitJob(k) PROVE status'[j] # "absent"
  BY <1>3 DEF TypeOK, DbTypeOK, Lifecycle!TypeOK, CommitJob
<1>4. ASSUME UNCHANGED db PROVE status'[j] # "absent"
  BY <1>4 DEF db
<1> QED
  BY <1>2, <1>3, <1>4
     DEF Next, RequestStep, WorkerStep, vars, SubmitJob, EnsureGroup, PublishJob, RequestFails,
         StartWorker, EnsureConsumerGroup, ReadMessage, LoseMessage, PipelineFails, Acknowledge,
         ReadNothing, Shutdown, Exit, Crash, Vanish, WipeRedis

RowBeforeMessage ==
    /\ MessageHasRow
    /\ \A j \in Jobs : request[j] \in {"ensure", "xadd"} => status[j] # "absent"

\* The worker's "job not found" is unreachable: create_job publishes a job only
\* after its row is committed, whatever fails in between.
THEOREM MessagesHaveRows == Spec => []MessageHasRow
<1>1. Init => RowBeforeMessage
  BY DEF Init, RowBeforeMessage, MessageHasRow
<1>2. ASSUME TypeOK, RowBeforeMessage, [Next]_vars PROVE RowBeforeMessage'
  <2> USE <1>2 DEF RowBeforeMessage
  <2>1. \A j \in Jobs : status[j] # "absent" => status'[j] # "absent"
    BY RowsStay
  <2>2. ASSUME NEW j \in Jobs, PublishJob(j) PROVE RowBeforeMessage'
    <3>1. \A k \in Jobs : request'[k] \in {"ensure", "xadd"} => request[k] \in {"ensure", "xadd"}
      BY <2>2 DEF PublishJob, TypeOK
    <3>2. request[j] = "xadd"
      BY <2>2 DEF PublishJob
    <3>3. \A i \in 1..Len(stream') : stream'[i] = j \/ (i \in 1..Len(stream) /\ stream'[i] = stream[i])
      BY <2>2, PublishExtends DEF TypeOK, RedisTypeOK
    <3>4. \A i \in 1..Len(stream) : stream[i] \in Jobs
      BY DEF TypeOK, RedisTypeOK
    <3> QED  BY <2>1, <3>1, <3>2, <3>3, <3>4 DEF MessageHasRow
  <2>3. ASSUME NEW j \in Jobs, CommitJob(j) PROVE RowBeforeMessage'
    <3>1. UNCHANGED stream /\ status'[j] = "pending"
      BY <2>3 DEF CommitJob, redis, TypeOK, DbTypeOK, Lifecycle!TypeOK
    <3>2. \A k \in Jobs : k # j => request'[k] = request[k]
      BY <2>3 DEF CommitJob, TypeOK
    <3>3. \A i \in 1..Len(stream) : stream[i] \in Jobs
      BY DEF TypeOK, RedisTypeOK
    <3> QED  BY <2>1, <3>1, <3>2, <3>3 DEF MessageHasRow
  <2>4. ASSUME UNCHANGED stream,
               \A k \in Jobs : request'[k] \in {"ensure", "xadd"} => request[k] \in {"ensure", "xadd"}
        PROVE  RowBeforeMessage'
    <3>1. \A i \in 1..Len(stream) : stream[i] \in Jobs
      BY DEF TypeOK, RedisTypeOK
    <3> QED  BY <2>1, <2>4, <3>1 DEF MessageHasRow
  <2>5. ASSUME NEW j \in Jobs, SubmitJob(j) \/ EnsureGroup(j) \/ RequestFails(j)
        PROVE  RowBeforeMessage'
    BY <2>4, <2>5 DEF SubmitJob, EnsureGroup, CreateGroup, RequestFails, redis, TypeOK
  <2>6. ASSUME UNCHANGED <<request, stream>> PROVE RowBeforeMessage'
    BY <2>4, <2>6
  <2> QED
    BY <2>2, <2>3, <2>5, <2>6
       DEF Next, RequestStep, WorkerStep, vars, redis, CreateGroup, Deliver,
           StartWorker, EnsureConsumerGroup, ReadMessage, LoseMessage, BeginJob, ReportProgress,
           PipelineFails, MarkDone, MarkFailed, Acknowledge,
           ReadNothing, Shutdown, Exit, Crash, Vanish, WipeRedis
<1>3. RowBeforeMessage => MessageHasRow
  BY DEF RowBeforeMessage
<1> QED  BY <1>1, <1>2, <1>3, TypeCorrect, PTL DEF Spec
----------------------------------------------------------------------------
(* Delivery: the group and its workers *)

\* Steps that leave Redis alone and no message changes hands.
LEMMA DeliveriesUnchanged ==
    ASSUME TypeOK, DeliveriesConsistent, UNCHANGED <<wiped, group, cursor, pel, held>>,
           Len(stream') >= Len(stream),
           \A w \in Workers : Busy(w)' <=> Busy(w)
    PROVE  DeliveriesConsistent'
BY DEF TypeOK, RedisTypeOK, DeliveriesConsistent, GroupConsistent, OneWorkerPerMessage

LEMMA GroupStep == TypeOK /\ DeliveriesConsistent /\ [Next]_vars => DeliveriesConsistent'
<1> SUFFICES ASSUME TypeOK, DeliveriesConsistent, [Next]_vars PROVE DeliveriesConsistent'
  OBVIOUS
<1> USE DEF TypeOK, RedisTypeOK, WorkerTypeOK, Pcs
<1>1. ASSUME NEW j \in Jobs, SubmitJob(j) \/ CommitJob(j) \/ RequestFails(j) PROVE DeliveriesConsistent'
  BY <1>1, DeliveriesUnchanged DEF SubmitJob, CommitJob, RequestFails, redis, worker, Busy
<1>2. ASSUME CreateGroup, UNCHANGED held, \A w \in Workers : Busy(w)' <=> Busy(w)
      PROVE  DeliveriesConsistent'
  BY <1>2 DEF CreateGroup, DeliveriesConsistent, GroupConsistent, OneWorkerPerMessage
<1>3. ASSUME NEW j \in Jobs, EnsureGroup(j) PROVE DeliveriesConsistent'
  BY <1>2, <1>3 DEF EnsureGroup, worker, Busy
<1>4. ASSUME NEW j \in Jobs, PublishJob(j) PROVE DeliveriesConsistent'
  <2>1. Len(stream) \in Nat /\ Len(stream') \in {Len(stream) + 1, Len(stream) + 2}
    BY <1>4, PublishExtends
  <2> QED  BY <1>4, <2>1, DeliveriesUnchanged DEF PublishJob, worker, Busy
<1>5. ASSUME NEW w \in Workers,
             StartWorker(w) \/ BeginJob(w) \/ ReportProgress(w) \/ PipelineFails(w)
               \/ MarkDone(w) \/ MarkFailed(w) \/ Shutdown(w)
      PROVE  DeliveriesConsistent'
  <2>1. UNCHANGED <<redis, held>>
    BY <1>5 DEF StartWorker, BeginJob, ReportProgress, PipelineFails, MarkDone, MarkFailed, Shutdown
  <2>2. \A v \in Workers : Busy(v)' <=> Busy(v)
    BY <1>5 DEF StartWorker, BeginJob, ReportProgress, PipelineFails, MarkDone, MarkFailed,
       Shutdown, GoTo, Busy
  <2> QED  BY <2>1, <2>2, DeliveriesUnchanged DEF redis
<1>6. ASSUME NEW w \in Workers, EnsureConsumerGroup(w) PROVE DeliveriesConsistent'
  <2>1. UNCHANGED held /\ \A v \in Workers : Busy(v)' <=> Busy(v)
    BY <1>6 DEF EnsureConsumerGroup, GoTo, Busy
  <2>2. CreateGroup \/ UNCHANGED redis
    BY <1>6 DEF EnsureConsumerGroup
  <2> QED  BY <1>2, <2>1, <2>2, DeliveriesUnchanged DEF redis
<1>7. ASSUME NEW w \in Workers, ReadMessage(w) PROVE DeliveriesConsistent'
  <2>1. /\ cursor < Len(stream) /\ cursor' = cursor + 1
        /\ UNCHANGED <<stream, wiped, group>> /\ group
        /\ pel' = pel \cup {cursor + 1}
    BY <1>7 DEF ReadMessage, Deliver, CanDeliver
  <2>2. \A v \in Workers : held'[v] = IF v = w THEN cursor + 1 ELSE held[v]
    BY <1>7 DEF ReadMessage
  <2>3. \A v \in Workers : Busy(v)' <=> (v = w \/ Busy(v))
    BY <1>7 DEF ReadMessage, GoTo, Busy
  <2>4. GroupConsistent'
    <3>1. wiped' <= cursor' /\ cursor' <= Len(stream')
      BY <2>1 DEF DeliveriesConsistent, GroupConsistent
    <3>2. pel' \subseteq (wiped' + 1)..cursor'
      BY <2>1 DEF DeliveriesConsistent, GroupConsistent
    <3>3. ASSUME NEW v \in Workers PROVE held'[v] <= cursor' /\ (Busy(v)' <=> held'[v] # 0)
      <4>1. held[v] <= cursor /\ (Busy(v) <=> held[v] # 0)
        BY DEF DeliveriesConsistent, GroupConsistent
      <4>2. CASE v = w
        BY <2>1, <2>2, <2>3, <4>2
      <4>3. CASE v # w
        BY <2>1, <2>2, <2>3, <4>1, <4>3
      <4> QED  BY <4>2, <4>3
    <3> QED  BY <2>1, <3>1, <3>2, <3>3 DEF GroupConsistent
  <2>5. \A v \in Workers : held[v] <= cursor
    BY DEF DeliveriesConsistent, GroupConsistent
  <2>6. OneWorkerPerMessage'
    BY <2>2, <2>5 DEF DeliveriesConsistent, OneWorkerPerMessage
  <2> QED  BY <2>4, <2>6 DEF DeliveriesConsistent
<1>8. ASSUME NEW w \in Workers, LoseMessage(w) PROVE DeliveriesConsistent'
  BY <1>8 DEF LoseMessage, Deliver, CanDeliver, Busy, DeliveriesConsistent, GroupConsistent, OneWorkerPerMessage
<1>9. ASSUME NEW w \in Workers, Acknowledge(w) \/ Vanish(w) PROVE DeliveriesConsistent'
  <2>1. \A v \in Workers : held'[v] = IF v = w THEN 0 ELSE held[v]
    BY <1>9 DEF Acknowledge, Vanish
  <2>2. \A v \in Workers : Busy(v)' <=> (v # w /\ Busy(v))
    BY <1>9 DEF Acknowledge, Vanish, GoTo, Busy
  <2>3. UNCHANGED <<stream, wiped, group, cursor>> /\ pel' \subseteq pel
    BY <1>9 DEF Acknowledge, Vanish, redis
  <2>4. GroupConsistent'
    BY <2>1, <2>2, <2>3 DEF DeliveriesConsistent, GroupConsistent
  <2>5. OneWorkerPerMessage'
    BY <2>1 DEF DeliveriesConsistent, OneWorkerPerMessage
  <2> QED  BY <2>4, <2>5 DEF DeliveriesConsistent
<1>10. ASSUME WipeRedis PROVE DeliveriesConsistent'
  <2>1. /\ wiped' = Len(stream) /\ cursor' = Len(stream) /\ pel' = {}
        /\ UNCHANGED <<stream, held, pc>>
    BY <1>10 DEF WipeRedis, worker
  <2> QED  BY <2>1 DEF DeliveriesConsistent, GroupConsistent, OneWorkerPerMessage, Busy
<1>11. ASSUME UNCHANGED vars PROVE DeliveriesConsistent'
  BY <1>11, DeliveriesUnchanged DEF vars, redis, worker, Busy
<1> QED
  BY <1>1, <1>3, <1>4, <1>5, <1>6, <1>7, <1>8, <1>9, <1>10, <1>11
     DEF Next, RequestStep, WorkerStep, ReadNothing, Exit, Crash

\* What is wiped, read, pending and in hand always lines up, and the consumer group
\* hands every message to one worker at most: ">" never returns an entry again,
\* through crashes, lost replies and a wiped and recreated group.
THEOREM DeliveriesStayConsistent == Spec => []DeliveriesConsistent
<1>1. Init => DeliveriesConsistent
  BY DEF Init, DeliveriesConsistent, GroupConsistent, OneWorkerPerMessage, Busy
<1> QED  BY <1>1, GroupStep, TypeCorrect, PTL DEF Spec
----------------------------------------------------------------------------
(* Verdicts: each row has one owner at a time *)

\* Every reported write is heard of and no message is doubled.
Reliable == "db_lost" \notin Faults /\ "publish_resent" \notin Faults

LEMMA OutcomeCases ==
    ASSUME Reliable, TypeOK, NEW w \in Workers, NEW j, NEW outcome \in UpdateOutcomes(w, j)
    PROVE  /\ outcome \in {"ok", "error", "lost"}
           /\ outcome = "ok" => ctx[w] = "live"
           /\ outcome = "lost" => ctx[w] = "interrupted"
BY DEF Reliable, UpdateOutcomes, Outcomes, TypeOK, WorkerTypeOK, Contexts

\* The job in a busy worker's hands belongs to no request, to no other worker and
\* to no message that is still to be read.
LEMMA BusyJob ==
    ASSUME TypeOK, DeliveriesConsistent, RowsConsistent, NEW w \in Workers, Busy(w)
    PROVE  /\ held[w] \in 1..Len(stream)
           /\ JobOf(w) \in Jobs
           /\ request[JobOf(w)] \in {"created", "failed"}
           /\ \A v \in Workers : v # w /\ Busy(v) => JobOf(v) # JobOf(w)
           /\ \A i \in 1..Len(stream) : cursor < i => stream[i] # JobOf(w)
<1>1. \A v \in Workers : Busy(v) => held[v] \in 1..Len(stream) /\ held[v] <= cursor
  BY DEF TypeOK, RedisTypeOK, WorkerTypeOK, DeliveriesConsistent, GroupConsistent
<1>2. \A i, k \in 1..Len(stream) : stream[i] = stream[k] => i = k
  BY DEF RowsConsistent, RowHasOneOwner, OneMessagePerJob
<1>3. \A v \in Workers : v # w /\ Busy(v) => held[v] # held[w]
  BY <1>1 DEF DeliveriesConsistent, OneWorkerPerMessage
<1>4. JobOf(w) \in Jobs /\ request[JobOf(w)] \in {"created", "failed"}
  BY <1>1 DEF JobOf, TypeOK, RedisTypeOK, RowsConsistent, RowHasOneOwner, OneMessagePerJob
<1>5. \A i \in 1..Len(stream) : cursor < i => i # held[w]
  BY <1>1 DEF TypeOK, RedisTypeOK
<1> QED  BY <1>1, <1>2, <1>3, <1>4, <1>5 DEF JobOf

\* A busy worker that writes its own row and keeps owning it disturbs nobody.
LEMMA OwnerWrites ==
    ASSUME TypeOK, DeliveriesConsistent, RowsConsistent, NEW w \in Workers, Busy(w),
           UNCHANGED <<request, stream, cursor, held>>,
           \A v \in Workers : v # w =>
               pc'[v] = pc[v] /\ reports'[v] = reports[v] /\ ctx'[v] = ctx[v],
           \A k \in Jobs : k # JobOf(w) =>
               /\ status'[k] = status[k] /\ progress'[k] = progress[k]
               /\ error'[k] = error[k] /\ result'[k] = result[k],
           status'[JobOf(w)] # "absent",
           OwnsRow(w)', ColumnsAgree(JobOf(w))'
    PROVE  RowsConsistent'
<1>1. OneMessagePerJob'
  BY DEF RowsConsistent, RowHasOneOwner, OneMessagePerJob
<1>2. RequestOwnsRow'
  BY BusyJob DEF RowsConsistent, RowHasOneOwner, RequestOwnsRow, Untouched
<1>3. UnreadIsUntouched'
  <2>1. \A i \in 1..Len(stream) : stream[i] \in Jobs
    BY DEF TypeOK, RedisTypeOK
  <2> QED  BY <2>1, BusyJob DEF RowsConsistent, RowHasOneOwner, UnreadIsUntouched, Untouched
<1>4. ASSUME NEW v \in Workers PROVE OwnsRow(v)'
  <2>1. CASE v = w
    BY <2>1
  <2>2. CASE v # w /\ Busy(v)
    <3>1. JobOf(v) \in Jobs /\ JobOf(v) # JobOf(w) /\ JobOf(v)' = JobOf(v)
      BY <2>2, BusyJob DEF JobOf
    <3> QED  BY <2>2, <3>1 DEF RowsConsistent, RowHasOneOwner, OwnsRow, Untouched
  <2>3. CASE v # w /\ ~Busy(v)
    BY <2>3 DEF OwnsRow, Busy
  <2> QED  BY <2>1, <2>2, <2>3
<1>5. ASSUME NEW k \in Jobs PROVE ColumnsAgree(k)'
  <2>1. CASE k = JobOf(w)
    BY <2>1 DEF JobOf
  <2>2. CASE k # JobOf(w)
    BY <2>2 DEF RowsConsistent, VerdictColumnsAgree, ColumnsAgree
  <2> QED  BY <2>1, <2>2
<1> QED  BY <1>1, <1>2, <1>3, <1>4, <1>5 DEF RowsConsistent, RowHasOneOwner, VerdictColumnsAgree

\* A step that writes no row and publishes nothing only has to keep the workers'
\* ownership.
LEMMA NoWrite ==
    ASSUME TypeOK, RowsConsistent, UNCHANGED <<db, request, stream>>, cursor' \in Nat, cursor' >= cursor,
           \A v \in Workers : OwnsRow(v)'
    PROVE  RowsConsistent'
BY DEF TypeOK, RedisTypeOK, RowsConsistent, VerdictColumnsAgree, ColumnsAgree, RowHasOneOwner,
   OneMessagePerJob, RequestOwnsRow, UnreadIsUntouched, Untouched, db

\* What the three writes do to the row they name, and that they touch no other.
Elsewhere(j) ==
    \A k \in Jobs : k # j =>
        /\ status'[k] = status[k] /\ progress'[k] = progress[k]
        /\ error'[k] = error[k] /\ result'[k] = result[k]

LEMMA RowWrites ==
    ASSUME DbTypeOK, NEW j \in Jobs, NEW p, NEW outcome
    PROVE  /\ UpdateStatus(j, p, outcome) =>
                /\ Elsewhere(j) /\ (error'[j] <=> error[j]) /\ (result'[j] <=> result[j])
                /\ IF outcome = "error"
                   THEN status'[j] = status[j] /\ progress'[j] = progress[j]
                   ELSE status'[j] = "processing" /\ progress'[j] = p
           /\ WriteDone(j, outcome) =>
                /\ Elsewhere(j)
                /\ IF outcome = "error"
                   THEN UNCHANGED db
                   ELSE status'[j] = "done" /\ ~error'[j] /\ result'[j] /\ progress'[j] = 100
           /\ WriteFailed(j, outcome) =>
                /\ Elsewhere(j) /\ UNCHANGED <<result, progress>>
                /\ IF outcome = "error"
                   THEN UNCHANGED db
                   ELSE status'[j] = "failed" /\ error'[j]
<1> USE DEF DbTypeOK, Lifecycle!TypeOK, Elsewhere, db
<1>1. UpdateStatus(j, p, outcome) =>
        /\ Elsewhere(j) /\ (error'[j] <=> error[j]) /\ (result'[j] <=> result[j])
        /\ IF outcome = "error"
           THEN status'[j] = status[j] /\ progress'[j] = progress[j]
           ELSE status'[j] = "processing" /\ progress'[j] = p
  BY DEF UpdateStatus
<1>2. WriteDone(j, outcome) =>
        /\ Elsewhere(j)
        /\ IF outcome = "error"
           THEN UNCHANGED db
           ELSE status'[j] = "done" /\ ~error'[j] /\ result'[j] /\ progress'[j] = 100
  BY DEF WriteDone
<1>3. WriteFailed(j, outcome) =>
        /\ Elsewhere(j) /\ UNCHANGED <<result, progress>>
        /\ IF outcome = "error"
           THEN UNCHANGED db
           ELSE status'[j] = "failed" /\ error'[j]
  BY DEF WriteFailed
<1> QED  BY <1>1, <1>2, <1>3

\* Each of the four writing steps keeps the invariant and is a step of the
\* abstract lifecycle, or changes neither status nor progress.
LEMMA BeginKeeps ==
    ASSUME Reliable, TypeOK, DeliveriesConsistent, RowsConsistent, NEW w \in Workers, BeginJob(w)
    PROVE  RowsConsistent' /\ (UNCHANGED <<status, progress>> \/ Lifecycle!Advance(JobOf(w)))
<1>1. Busy(w) /\ JobOf(w) \in Jobs
  BY BusyJob DEF BeginJob, Busy
<1>2. PICK outcome \in UpdateOutcomes(w, JobOf(w)) :
          /\ UpdateStatus(JobOf(w), 5, outcome)
          /\ GoTo(w, IF outcome = "ok" THEN "run" ELSE "fail")
  BY DEF BeginJob
<1>3. Untouched(JobOf(w)) /\ ColumnsAgree(JobOf(w)) /\ OwnsRow(w)
  BY <1>1 DEF BeginJob, RowsConsistent, RowHasOneOwner, OwnsRow, VerdictColumnsAgree
<1>4. JobOf(w)' = JobOf(w) /\ UNCHANGED <<request, stream, cursor, held, reports>>
  BY DEF BeginJob, JobOf, redis
<1>5. Elsewhere(JobOf(w)) /\ status'[JobOf(w)] # "absent" /\ ColumnsAgree(JobOf(w))'
  BY <1>1, <1>2, <1>3, <1>4, RowWrites DEF TypeOK, Untouched, ColumnsAgree
<1>6. pc'[w] \in {"run", "fail"} /\ (pc'[w] = "run" => outcome = "ok")
  BY <1>2 DEF GoTo, TypeOK, WorkerTypeOK
<1>7. status'[JobOf(w)] \in {"pending", "processing"} /\ progress'[JobOf(w)] \in {0, 5}
      /\ (outcome = "ok" => status'[JobOf(w)] = "processing")
  BY <1>1, <1>2, <1>3, RowWrites DEF TypeOK, Untouched
<1>8. OwnsRow(w)'
  <2>1. progress'[JobOf(w)] <= Reached(JobType[JobOf(w)], reports[w])
    <3>1. reports[w] = 0 \/ reports[w] \in 1..LastReport
      BY DEF TypeOK, WorkerTypeOK, LastReport
    <3> QED  BY <1>7, <3>1, ProgressStepsGrow DEF Reached
  <2> QED  BY <1>4, <1>6, <1>7, <2>1 DEF OwnsRow
<1>9. \A v \in Workers : v # w => pc'[v] = pc[v] /\ reports'[v] = reports[v] /\ ctx'[v] = ctx[v]
  BY DEF BeginJob, GoTo, SettleContext, TypeOK, WorkerTypeOK
<1>10. RowsConsistent'
  BY <1>1, <1>4, <1>5, <1>8, <1>9, OwnerWrites DEF Elsewhere
<1>11. UNCHANGED <<status, progress>> \/ Lifecycle!Advance(JobOf(w))
  BY <1>1, <1>2, <1>3 DEF UpdateStatus, db, Untouched, Lifecycle!Advance
<1> QED  BY <1>10, <1>11

LEMMA ReportKeeps ==
    ASSUME Reliable, TypeOK, DeliveriesConsistent, RowsConsistent, NEW w \in Workers, ReportProgress(w)
    PROVE  RowsConsistent' /\ (UNCHANGED <<status, progress>> \/ Lifecycle!Advance(JobOf(w)))
<1> DEFINE j == JobOf(w)
           p == ProgressSteps(JobType[j])[reports[w] + 1]
<1>1. Busy(w) /\ j \in Jobs
  BY BusyJob DEF ReportProgress, Busy
<1>2. PICK outcome \in UpdateOutcomes(w, j) : UpdateStatus(j, p, outcome)
  BY DEF ReportProgress
<1>3. /\ status[j] = "processing" /\ progress[j] <= Reached(JobType[j], reports[w])
      /\ ColumnsAgree(j) /\ progress[j] \in 0..100
  BY <1>1 DEF ReportProgress, RowsConsistent, RowHasOneOwner, OwnsRow, VerdictColumnsAgree,
     TypeOK, DbTypeOK, Lifecycle!TypeOK
<1>4. j' = j /\ UNCHANGED <<request, stream, cursor, held, pc>>
  BY DEF ReportProgress, JobOf, redis
<1>5. Elsewhere(j) /\ status'[j] # "absent" /\ ColumnsAgree(j)'
  BY <1>1, <1>2, <1>3, <1>4, RowWrites DEF TypeOK, ColumnsAgree
<1>6. /\ reports[w] \in 0..(LastReport - 1)
      /\ reports' = [reports EXCEPT ![w] = reports[w] + 1]
      /\ reports'[w] = reports[w] + 1
  BY DEF ReportProgress, TypeOK, WorkerTypeOK, LastReport
<1>7. /\ p \in 6..99 /\ Reached(JobType[j], reports[w]) \in 5..99
      /\ Reached(JobType[j], reports[w]) < p /\ p = Reached(JobType[j], reports[w] + 1)
  BY <1>6, ProgressStepsGrow DEF Reached, LastReport
<1>8. status'[j] = "processing" /\ progress'[j] \in {progress[j], p}
  BY <1>1, <1>2, <1>3, RowWrites DEF TypeOK
<1>9. OwnsRow(w)'
  <2> HIDE DEF p
  <2>1. progress'[j] <= Reached(JobType[j], reports[w] + 1)
    BY <1>3, <1>7, <1>8
  <2>2. pc'[w] = "run"
    BY <1>4 DEF ReportProgress
  <2> QED  BY <1>4, <1>6, <1>8, <2>1, <2>2 DEF OwnsRow
<1>10. \A v \in Workers : v # w => pc'[v] = pc[v] /\ reports'[v] = reports[v] /\ ctx'[v] = ctx[v]
  BY DEF ReportProgress, SettleContext, TypeOK, WorkerTypeOK
<1>11. RowsConsistent'
  BY <1>1, <1>4, <1>5, <1>9, <1>10, OwnerWrites DEF Elsewhere
<1>12. p \in progress[j]..99
  BY <1>3, <1>7
<1>13. UNCHANGED <<status, progress>> \/ Lifecycle!Advance(j)
  BY <1>1, <1>2, <1>3, <1>12 DEF UpdateStatus, db, Lifecycle!Advance
<1> QED  BY <1>11, <1>13

LEMMA DoneKeeps ==
    ASSUME Reliable, TypeOK, DeliveriesConsistent, RowsConsistent, NEW w \in Workers, MarkDone(w)
    PROVE  RowsConsistent' /\ (UNCHANGED <<status, progress>> \/ Lifecycle!Complete(JobOf(w)))
<1> DEFINE j == JobOf(w)
<1>1. Busy(w) /\ j \in Jobs
  BY BusyJob DEF MarkDone, Busy
<1>2. PICK outcome \in UpdateOutcomes(w, j) :
          /\ WriteDone(j, outcome)
          /\ GoTo(w, IF outcome = "ok" THEN "ack" ELSE "fail")
  BY DEF MarkDone
<1>3. status[j] = "processing" /\ ColumnsAgree(j)
  BY <1>1 DEF MarkDone, RowsConsistent, RowHasOneOwner, OwnsRow, VerdictColumnsAgree
<1>4. j' = j /\ UNCHANGED <<request, stream, cursor, held, reports>>
  BY DEF MarkDone, JobOf, redis
<1>5. Elsewhere(j) /\ (IF outcome = "error" THEN UNCHANGED db
                       ELSE status'[j] = "done" /\ ~error'[j] /\ result'[j])
  BY <1>1, <1>2, RowWrites DEF TypeOK
<1>6. status'[j] # "absent" /\ ColumnsAgree(j)'
  <2>1. CASE outcome = "error"
    BY <1>3, <1>4, <1>5, <2>1 DEF ColumnsAgree, db
  <2>2. CASE outcome # "error"
    BY <1>4, <1>5, <2>2 DEF ColumnsAgree
  <2> QED  BY <2>1, <2>2
<1>7. /\ pc'[w] = IF outcome = "ok" THEN "ack" ELSE "fail"
      /\ ctx[w] = "interrupted" => ctx'[w] = "cancelled"
  BY <1>2 DEF MarkDone, GoTo, SettleContext, TypeOK, WorkerTypeOK
<1>8. OwnsRow(w)'
  <2>1. outcome \in {"ok", "error", "lost"} /\ (outcome = "lost" => ctx[w] = "interrupted")
    BY OutcomeCases
  <2>2. outcome = "error" => status'[j] = "processing"
    BY <1>3, <1>5 DEF db
  <2> QED  BY <1>4, <1>7, <2>1, <2>2 DEF OwnsRow
<1>9. \A v \in Workers : v # w => pc'[v] = pc[v] /\ reports'[v] = reports[v] /\ ctx'[v] = ctx[v]
  BY DEF MarkDone, GoTo, SettleContext, TypeOK, WorkerTypeOK
<1>10. RowsConsistent'
  BY <1>1, <1>4, <1>5, <1>6, <1>8, <1>9, OwnerWrites DEF Elsewhere
<1>11. UNCHANGED <<status, progress>> \/ Lifecycle!Complete(j)
  BY <1>2, <1>3 DEF WriteDone, db, Lifecycle!Complete
<1> QED  BY <1>10, <1>11

LEMMA FailedKeeps ==
    ASSUME Reliable, TypeOK, DeliveriesConsistent, MessageHasRow, RowsConsistent,
           NEW w \in Workers, MarkFailed(w)
    PROVE  RowsConsistent' /\ (UNCHANGED <<status, progress>> \/ Lifecycle!Fail(JobOf(w)))
<1> DEFINE j == JobOf(w)
<1>1. Busy(w) /\ j \in Jobs
  BY BusyJob DEF MarkFailed, Busy
<1>2. PICK outcome \in UpdateOutcomes(w, j) : WriteFailed(j, outcome)
  BY DEF MarkFailed
<1>3. /\ status[j] \in {"pending", "processing"} \/ outcome = "error"
      /\ ColumnsAgree(j)
  BY <1>1, OutcomeCases DEF MarkFailed, RowsConsistent, RowHasOneOwner, OwnsRow, VerdictColumnsAgree
<1>4. j' = j /\ UNCHANGED <<request, stream, cursor, held, reports>>
  BY DEF MarkFailed, JobOf, redis
<1>5. Elsewhere(j) /\ UNCHANGED result
      /\ (IF outcome = "error" THEN UNCHANGED db ELSE status'[j] = "failed" /\ error'[j])
  <2>1. WriteFailed(j, outcome) => Elsewhere(j)
    BY <1>1, RowWrites DEF TypeOK
  <2>2. outcome # "error" => status'[j] = "failed" /\ error'[j]
    BY <1>1, <1>2 DEF WriteFailed, TypeOK, DbTypeOK, Lifecycle!TypeOK
  <2>3. UNCHANGED result /\ (outcome = "error" => UNCHANGED db)
    BY <1>2 DEF WriteFailed, db
  <2> QED  BY <1>2, <2>1, <2>2, <2>3
<1>6. status'[j] # "absent" /\ ColumnsAgree(j)'
  <2>1. CASE outcome = "error"
    <3>1. status[j] # "absent"
      BY <1>1, BusyJob DEF MessageHasRow, JobOf
    <3> QED  BY <1>3, <1>4, <1>5, <2>1, <3>1 DEF ColumnsAgree, db
  <2>2. CASE outcome # "error"
    BY <1>3, <1>4, <1>5, <2>2 DEF ColumnsAgree
  <2> QED  BY <2>1, <2>2
<1>7. pc'[w] = "ack"
  BY DEF MarkFailed, GoTo, TypeOK, WorkerTypeOK
<1>8. OwnsRow(w)'
  BY <1>7 DEF OwnsRow
<1>9. \A v \in Workers : v # w => pc'[v] = pc[v] /\ reports'[v] = reports[v] /\ ctx'[v] = ctx[v]
  BY DEF MarkFailed, GoTo, SettleContext, TypeOK, WorkerTypeOK
<1>10. RowsConsistent'
  BY <1>1, <1>4, <1>5, <1>6, <1>8, <1>9, OwnerWrites DEF Elsewhere
<1>11. UNCHANGED <<status, progress>> \/ Lifecycle!Fail(j)
  BY <1>2, <1>3 DEF WriteFailed, db, Lifecycle!Fail
<1> QED  BY <1>10, <1>11

\* The remaining steps write no verdict: they create a row, publish its message,
\* or only change what the group or a worker knows.
LEMMA CommitKeeps ==
    ASSUME Reliable, TypeOK, DeliveriesConsistent, MessageHasRow, RowsConsistent, NEW j \in Jobs, CommitJob(j)
    PROVE  RowsConsistent' /\ Lifecycle!Create(j)
<1>1. /\ status[j] = "absent" /\ progress[j] = 0
      /\ request' = [request EXCEPT ![j] = "ensure"] /\ request[j] = "commit"
      /\ status' = [status EXCEPT ![j] = "pending"]
      /\ UNCHANGED <<progress, error, result, stream, cursor, pc, held, reports, ctx>>
  BY DEF CommitJob, RowsConsistent, RowHasOneOwner, RequestOwnsRow, redis, worker
<1>2. \A i \in 1..Len(stream) : stream[i] \in Jobs /\ stream[i] # j
  BY <1>1 DEF TypeOK, RedisTypeOK, RowsConsistent, RowHasOneOwner, OneMessagePerJob
<1>3. OneMessagePerJob'
  BY <1>1, <1>2 DEF RowsConsistent, RowHasOneOwner, OneMessagePerJob, TypeOK
<1>4. RequestOwnsRow'
  BY <1>1 DEF RowsConsistent, RowHasOneOwner, RequestOwnsRow, Untouched,
     TypeOK, DbTypeOK, Lifecycle!TypeOK
<1>5. UnreadIsUntouched'
  BY <1>1, <1>2 DEF RowsConsistent, RowHasOneOwner, UnreadIsUntouched, Untouched,
     TypeOK, DbTypeOK, Lifecycle!TypeOK
<1>6. ASSUME NEW w \in Workers PROVE OwnsRow(w)'
  <2>1. CASE Busy(w)
    <3>1. JobOf(w) \in Jobs /\ JobOf(w) # j /\ JobOf(w)' = JobOf(w)
      BY <1>1, <1>2, <2>1, BusyJob DEF JobOf
    <3> QED
      BY <1>1, <2>1, <3>1 DEF RowsConsistent, RowHasOneOwner, OwnsRow, Untouched,
         TypeOK, DbTypeOK, Lifecycle!TypeOK
  <2>2. CASE ~Busy(w)
    BY <1>1, <2>2 DEF OwnsRow, Busy
  <2> QED  BY <2>1, <2>2
<1>7. VerdictColumnsAgree'
  BY <1>1 DEF RowsConsistent, VerdictColumnsAgree, ColumnsAgree, TypeOK, DbTypeOK, Lifecycle!TypeOK
<1> QED
  BY <1>1, <1>3, <1>4, <1>5, <1>6, <1>7 DEF RowsConsistent, RowHasOneOwner, Lifecycle!Create

LEMMA PublishKeeps ==
    ASSUME Reliable, TypeOK, DeliveriesConsistent, RowsConsistent, NEW j \in Jobs, PublishJob(j)
    PROVE  RowsConsistent'
<1>1. /\ request[j] = "xadd" /\ request'[j] \in {"created", "failed"}
      /\ \A k \in Jobs : k # j => request'[k] = request[k]
      /\ UNCHANGED <<status, progress, error, result, cursor, pc, held, reports, ctx>>
  BY DEF PublishJob, TypeOK, db, worker
<1>2. /\ Len(stream) \in Nat /\ Len(stream') = Len(stream) + 1
      /\ stream'[Len(stream) + 1] = j
      /\ \A i \in 1..Len(stream) : stream'[i] = stream[i] /\ stream[i] \in Jobs
  BY PublishExtends DEF Reliable, TypeOK, RedisTypeOK
<1>3. Untouched(j) /\ \A i \in 1..Len(stream) : stream[i] # j
  BY <1>1 DEF RowsConsistent, RowHasOneOwner, RequestOwnsRow, OneMessagePerJob
<1>4. OneMessagePerJob'
  BY <1>1, <1>2, <1>3 DEF RowsConsistent, RowHasOneOwner, OneMessagePerJob
<1>5. RequestOwnsRow'
  BY <1>1 DEF RowsConsistent, RowHasOneOwner, RequestOwnsRow, Untouched
<1>6. UnreadIsUntouched'
  BY <1>1, <1>2, <1>3 DEF RowsConsistent, RowHasOneOwner, UnreadIsUntouched, Untouched
<1>7. ASSUME NEW w \in Workers PROVE OwnsRow(w)'
  <2>1. CASE Busy(w)
    <3>1. JobOf(w)' = JobOf(w)
      BY <1>1, <1>2, <2>1, BusyJob DEF JobOf
    <3> QED  BY <1>1, <3>1 DEF RowsConsistent, RowHasOneOwner, OwnsRow, Untouched
  <2>2. CASE ~Busy(w)
    BY <1>1, <2>2 DEF OwnsRow, Busy
  <2> QED  BY <2>1, <2>2
<1> QED
  BY <1>1, <1>4, <1>5, <1>6, <1>7
     DEF RowsConsistent, RowHasOneOwner, VerdictColumnsAgree, ColumnsAgree

\* A worker that leaves its row alone: the step changes no database row and no
\* message, and only worker w, which still owns its row if it owned one.
LEMMA SilentKeeps ==
    ASSUME TypeOK, DeliveriesConsistent, RowsConsistent, NEW w \in Workers,
           \/ StartWorker(w) \/ EnsureConsumerGroup(w) \/ ReadMessage(w) \/ LoseMessage(w)
           \/ PipelineFails(w) \/ Acknowledge(w) \/ Shutdown(w) \/ Vanish(w)
    PROVE  RowsConsistent' /\ UNCHANGED <<status, progress>>
<1>1. UNCHANGED <<db, request, stream>>
  BY DEF StartWorker, EnsureConsumerGroup, CreateGroup, ReadMessage, LoseMessage, Deliver,
     PipelineFails, Acknowledge, Shutdown, Vanish, redis
<1>2. cursor' \in Nat /\ cursor' >= cursor
  BY DEF StartWorker, EnsureConsumerGroup, CreateGroup, ReadMessage, LoseMessage, Deliver,
     PipelineFails, Acknowledge, Shutdown, Vanish, redis, TypeOK, RedisTypeOK,
     DeliveriesConsistent, GroupConsistent
<1>3. ASSUME NEW v \in Workers, v # w PROVE OwnsRow(v)'
  <2>1. pc'[v] = pc[v] /\ held'[v] = held[v] /\ reports'[v] = reports[v] /\ ctx'[v] = ctx[v]
    BY <1>3 DEF StartWorker, EnsureConsumerGroup, ReadMessage, LoseMessage, PipelineFails,
       Acknowledge, Shutdown, Vanish, GoTo, SettleContext, TypeOK, WorkerTypeOK
  <2> QED
    BY <1>1, <2>1 DEF RowsConsistent, RowHasOneOwner, OwnsRow, Untouched, JobOf, db
<1>4. OwnsRow(w)'
  <2>1. CASE ReadMessage(w)
    <3>1. /\ pc'[w] = "begin" /\ held'[w] = cursor + 1
          /\ cursor + 1 \in 1..Len(stream) /\ cursor < cursor + 1
      BY <2>1 DEF ReadMessage, Deliver, CanDeliver, GoTo, TypeOK, RedisTypeOK, WorkerTypeOK
    <3>2. Untouched(stream[cursor + 1])
      BY <3>1 DEF RowsConsistent, RowHasOneOwner, UnreadIsUntouched
    <3> QED  BY <1>1, <3>1, <3>2 DEF OwnsRow, JobOf, Untouched, db
  <2>2. CASE PipelineFails(w)
    <3>1. pc[w] = "run" /\ pc'[w] = "fail" /\ UNCHANGED held
      BY <2>2 DEF PipelineFails, GoTo, TypeOK, WorkerTypeOK
    <3> QED  BY <1>1, <3>1 DEF RowsConsistent, RowHasOneOwner, OwnsRow, JobOf, db
  <2>3. CASE Shutdown(w)
    <3>1. ctx[w] = "live" /\ UNCHANGED <<pc, held, reports>>
      BY <2>3 DEF Shutdown
    <3> QED
      BY <1>1, <3>1 DEF RowsConsistent, RowHasOneOwner, OwnsRow, Untouched, JobOf, db
  <2>4. CASE StartWorker(w) \/ EnsureConsumerGroup(w) \/ LoseMessage(w) \/ Acknowledge(w) \/ Vanish(w)
    <3>1. pc'[w] \in {"down", "ensure", "poll"}
      BY <2>4 DEF StartWorker, EnsureConsumerGroup, LoseMessage, Acknowledge, Vanish, GoTo,
         TypeOK, WorkerTypeOK
    <3> QED  BY <3>1 DEF OwnsRow
  <2> QED  BY <2>1, <2>2, <2>3, <2>4
<1> QED  BY <1>1, <1>2, <1>3, <1>4, NoWrite DEF db

LEMMA RequestKeeps ==
    ASSUME TypeOK, DeliveriesConsistent, RowsConsistent, NEW j \in Jobs,
           SubmitJob(j) \/ EnsureGroup(j) \/ RequestFails(j)
    PROVE  RowsConsistent' /\ UNCHANGED <<status, progress>>
<1>1. UNCHANGED <<db, stream, worker>>
  BY DEF SubmitJob, EnsureGroup, CreateGroup, RequestFails, redis
<1>2. /\ \A k \in Jobs : k # j => request'[k] = request[k]
      /\ \/ request[j] = "none" /\ request'[j] = "commit"
         \/ request[j] = "ensure" /\ request'[j] = "xadd"
         \/ request[j] \in {"commit", "ensure", "xadd"} /\ request'[j] = "failed"
  BY DEF SubmitJob, EnsureGroup, RequestFails, TypeOK
<1>3. cursor' \in Nat /\ cursor' >= cursor
  BY DEF SubmitJob, EnsureGroup, CreateGroup, RequestFails, redis, TypeOK, RedisTypeOK,
     DeliveriesConsistent, GroupConsistent
<1>4. OneMessagePerJob'
  <2>1. \A i \in 1..Len(stream) : stream[i] \in Jobs
    BY DEF TypeOK, RedisTypeOK
  <2> QED  BY <1>1, <1>2, <2>1 DEF RowsConsistent, RowHasOneOwner, OneMessagePerJob
<1>5. RequestOwnsRow'
  BY <1>1, <1>2 DEF RowsConsistent, RowHasOneOwner, RequestOwnsRow, Untouched, db
<1>6. UnreadIsUntouched'
  BY <1>1, <1>3 DEF RowsConsistent, RowHasOneOwner, UnreadIsUntouched, Untouched, db, TypeOK, RedisTypeOK
<1>7. ASSUME NEW w \in Workers PROVE OwnsRow(w)'
  BY <1>1 DEF RowsConsistent, RowHasOneOwner, OwnsRow, Untouched, JobOf, db, worker
<1> QED
  BY <1>1, <1>4, <1>5, <1>6, <1>7
     DEF RowsConsistent, RowHasOneOwner, VerdictColumnsAgree, ColumnsAgree, db

LEMMA WipeKeeps ==
    ASSUME TypeOK, DeliveriesConsistent, RowsConsistent, WipeRedis \/ UNCHANGED vars
    PROVE  RowsConsistent' /\ UNCHANGED <<status, progress>>
<1>1. UNCHANGED <<db, request, stream, worker>>
  BY DEF WipeRedis, vars, redis
<1>2. cursor' \in Nat /\ cursor' >= cursor
  BY DEF WipeRedis, vars, redis, TypeOK, RedisTypeOK, DeliveriesConsistent, GroupConsistent
<1>3. ASSUME NEW w \in Workers PROVE OwnsRow(w)'
  BY <1>1 DEF RowsConsistent, RowHasOneOwner, OwnsRow, Untouched, JobOf, db, worker
<1> QED  BY <1>1, <1>2, <1>3, NoWrite DEF db

LEMMA VerdictStep ==
    ASSUME Reliable, TypeOK, DeliveriesConsistent, MessageHasRow, RowsConsistent, [Next]_vars
    PROVE  RowsConsistent' /\ [Lifecycle!Next]_(Lifecycle!vars)
<1>1. ASSUME NEW w \in Workers, BeginJob(w) \/ ReportProgress(w) \/ MarkDone(w) \/ MarkFailed(w)
      PROVE  RowsConsistent' /\ [Lifecycle!Next]_(Lifecycle!vars)
  <2>1. JobOf(w) \in Jobs
    BY <1>1, BusyJob DEF BeginJob, ReportProgress, MarkDone, MarkFailed, Busy
  <2> QED
    BY <1>1, <2>1, BeginKeeps, ReportKeeps, DoneKeeps, FailedKeeps
       DEF Lifecycle!Next, Lifecycle!vars
<1>2. ASSUME NEW j \in Jobs, CommitJob(j)
      PROVE  RowsConsistent' /\ [Lifecycle!Next]_(Lifecycle!vars)
  BY <1>2, CommitKeeps DEF Lifecycle!Next
<1>3. ASSUME NEW j \in Jobs, PublishJob(j)
      PROVE  RowsConsistent' /\ [Lifecycle!Next]_(Lifecycle!vars)
  BY <1>3, PublishKeeps DEF PublishJob, db, Lifecycle!vars
<1>4. ASSUME NEW j \in Jobs, SubmitJob(j) \/ EnsureGroup(j) \/ RequestFails(j)
      PROVE  RowsConsistent' /\ [Lifecycle!Next]_(Lifecycle!vars)
  BY <1>4, RequestKeeps DEF Lifecycle!vars
<1>5. ASSUME NEW w \in Workers,
             \/ StartWorker(w) \/ EnsureConsumerGroup(w) \/ ReadMessage(w) \/ LoseMessage(w)
             \/ PipelineFails(w) \/ Acknowledge(w) \/ Shutdown(w) \/ Vanish(w)
      PROVE  RowsConsistent' /\ [Lifecycle!Next]_(Lifecycle!vars)
  BY <1>5, SilentKeeps DEF Lifecycle!vars
<1>6. ASSUME WipeRedis \/ UNCHANGED vars
      PROVE  RowsConsistent' /\ [Lifecycle!Next]_(Lifecycle!vars)
  BY <1>6, WipeKeeps DEF Lifecycle!vars
<1> QED
  BY <1>1, <1>2, <1>3, <1>4, <1>5, <1>6
     DEF Next, RequestStep, WorkerStep, ReadNothing, Exit, Crash

LEMMA VerdictInit == Init => RowsConsistent
BY DEF Init, Lifecycle!Init, RowsConsistent, RowHasOneOwner, OneMessagePerJob, RequestOwnsRow, Untouched,
   UnreadIsUntouched, OwnsRow, VerdictColumnsAgree, ColumnsAgree

\* If no applied write is reported as failed and no message is doubled, a row
\* belongs, until its message is read, to the request that creates it, then to one
\* worker, whose progress it mirrors; and it shows a result exactly when done and
\* an error exactly when failed.
THEOREM RowsStayConsistent == ASSUME Reliable PROVE Spec => []RowsConsistent
<1>1. TypeOK /\ DeliveriesConsistent /\ MessageHasRow /\ RowsConsistent /\ [Next]_vars
      => RowsConsistent'
  BY VerdictStep
<1> QED  BY <1>1, VerdictInit, TypeCorrect, DeliveriesStayConsistent, MessagesHaveRows, PTL DEF Spec

\* Under the same condition the whole pipeline implements the abstract lifecycle:
\* one verdict per job, never revised, and progress that never goes back, through
\* crashes, shutdowns, database errors and a wiped Redis.
THEOREM PipelineImplementsLifecycle == ASSUME Reliable PROVE Spec => ImplementsLifecycle
<1>1. Init => Lifecycle!Init
  BY DEF Init
<1>2. TypeOK /\ DeliveriesConsistent /\ MessageHasRow /\ RowsConsistent /\ [Next]_vars
        => [Lifecycle!Next]_(Lifecycle!vars)
  BY VerdictStep
<1> QED
  BY <1>1, <1>2, TypeCorrect, DeliveriesStayConsistent, MessagesHaveRows, RowsStayConsistent, PTL
     DEF Spec, ImplementsLifecycle, Lifecycle!Spec
----------------------------------------------------------------------------
(* Overlapping attempts *)

\* Steps that write no row.
LEMMA NoRowWritten ==
    ASSUME UNCHANGED db, DoneIsClean
    PROVE  DoneIsClean'
BY DEF db, DoneIsClean

\* Whatever fails, is lost, doubled or tried again by other workers at the same
\* time: a row that reads done is a clean, complete success, because MarkDone
\* writes all its columns and every other write of an attempt takes "done" away.
THEOREM DoneStaysClean == Spec => []DoneIsClean
<1>1. Init => DoneIsClean
  BY DEF Init, Lifecycle!Init, DoneIsClean
<1>2. ASSUME TypeOK, DoneIsClean, [Next]_vars
      PROVE  DoneIsClean'
  <2> USE DEF TypeOK, DbTypeOK, Lifecycle!TypeOK
  <2>1. ASSUME NEW j, NEW p, NEW outcome, UpdateStatus(j, p, outcome)
        PROVE  DoneIsClean'
    BY <1>2, <2>1, NoRowWritten DEF UpdateStatus, DoneIsClean
  <2>2. ASSUME NEW j, NEW outcome, WriteDone(j, outcome)
        PROVE  DoneIsClean'
    BY <1>2, <2>2, NoRowWritten DEF WriteDone, DoneIsClean
  <2>3. ASSUME NEW j, NEW outcome, WriteFailed(j, outcome)
        PROVE  DoneIsClean'
    BY <1>2, <2>3, NoRowWritten DEF WriteFailed, DoneIsClean
  <2>4. ASSUME NEW w \in Workers, BeginJob(w) \/ ReportProgress(w) \/ MarkDone(w) \/ MarkFailed(w)
        PROVE  DoneIsClean'
    BY <2>1, <2>2, <2>3, <2>4 DEF BeginJob, ReportProgress, MarkDone, MarkFailed
  <2>5. ASSUME NEW j \in Jobs, CommitJob(j)
        PROVE  DoneIsClean'
    BY <1>2, <2>5 DEF CommitJob, DoneIsClean
  <2>6. CASE UNCHANGED db
    BY <1>2, <2>6, NoRowWritten
  <2> QED
    BY <1>2, <2>4, <2>5, <2>6
       DEF Next, RequestStep, WorkerStep, vars, SubmitJob, EnsureGroup, PublishJob, RequestFails,
           StartWorker, EnsureConsumerGroup, ReadMessage, LoseMessage, ReadNothing, PipelineFails,
           Acknowledge, Shutdown, Exit, Crash, Vanish, WipeRedis
<1> QED  BY <1>1, <1>2, TypeCorrect, PTL DEF Spec
----------------------------------------------------------------------------
(* What the group has passed *)

\* No UPDATE fails without a shutdown.
DbAnswers == "db_error" \notin Faults

\* A message in hand is pending unless Redis has lost it, and it is acknowledged
\* with its verdict written, or with a context that lets XACK fail as well.
Terminated(w) == status[JobOf(w)] \in Terminal \/ ctx[w] = "cancelled"

PassedInv ==
    /\ PassedJobHasVerdict
    /\ \A w \in Workers : held[w] # 0 => held[w] \in pel \/ held[w] <= wiped
    /\ \A w \in Workers : pc[w] = "ack" => Terminated(w)

\* JobLifecycle takes no verdict back.
LEMMA VerdictsAreFinal ==
    ASSUME TypeOK, [Lifecycle!Next]_(Lifecycle!vars), NEW j \in Jobs, status[j] \in Terminal
    PROVE  status'[j] \in Terminal
BY DEF TypeOK, DbTypeOK, Lifecycle!TypeOK, Lifecycle!Next, Lifecycle!vars, Lifecycle!Create, Lifecycle!Advance,
   Lifecycle!Complete, Lifecycle!Fail, Terminal, Lifecycle!Terminal

\* Messages already passed stay so: the step neither moves the group on nor
\* takes pending entries away.
LEMMA PassedStay ==
    ASSUME TypeOK, DeliveriesConsistent, PassedJobHasVerdict, [Lifecycle!Next]_(Lifecycle!vars),
           wiped' = wiped, cursor' = cursor, pel' = pel,
           Len(stream') \in Nat, \A i \in 1..Len(stream) : stream'[i] = stream[i]
    PROVE  PassedJobHasVerdict'
<1> SUFFICES ASSUME NEW i \in 1..Len(stream'), wiped < i, i <= cursor, i \notin pel
             PROVE  status'[stream'[i]] \in Terminal
  BY DEF PassedJobHasVerdict, Terminal, Lifecycle!Terminal
<1>1. i \in 1..Len(stream) /\ stream[i] \in Jobs
  BY DEF TypeOK, RedisTypeOK, DeliveriesConsistent, GroupConsistent
<1>2. status[stream[i]] \in Terminal
  BY <1>1 DEF PassedJobHasVerdict
<1> QED  BY <1>1, <1>2, VerdictsAreFinal

\* A worker the step does not touch keeps what it promises.
LEMMA OthersKeep ==
    ASSUME TypeOK, DeliveriesConsistent, RowsConsistent, PassedInv, [Lifecycle!Next]_(Lifecycle!vars),
           NEW v \in Workers, UNCHANGED <<pc[v], held[v], ctx[v]>>,
           \A i \in 1..Len(stream) : stream'[i] = stream[i]
    PROVE  pc'[v] = "ack" => Terminated(v)'
<1>1. SUFFICES ASSUME pc[v] = "ack"
               PROVE  Terminated(v)'
  OBVIOUS
<1>2. held[v] \in 1..Len(stream) /\ JobOf(v) \in Jobs
  BY <1>1, BusyJob DEF Busy
<1>3. JobOf(v)' = JobOf(v)
  BY <1>2 DEF JobOf
<1>4. Terminated(v)
  BY <1>1 DEF PassedInv
<1> QED
  BY <1>2, <1>3, <1>4, VerdictsAreFinal DEF Terminated, Terminal, Lifecycle!Terminal

\* Steps that leave the books of the group and every worker's message alone.
LEMMA BooksUnchanged ==
    ASSUME TypeOK, DeliveriesConsistent, RowsConsistent, PassedInv, [Lifecycle!Next]_(Lifecycle!vars),
           UNCHANGED <<wiped, cursor, pel, held>>,
           Len(stream') \in Nat, \A i \in 1..Len(stream) : stream'[i] = stream[i],
           \A v \in Workers :
              pc'[v] = "ack" => UNCHANGED <<pc[v], ctx[v]>> \/ Terminated(v)'
    PROVE  PassedInv'
<1>1. PassedJobHasVerdict'
  BY PassedStay DEF PassedInv
<1>2. \A v \in Workers : held'[v] # 0 => held'[v] \in pel' \/ held'[v] <= wiped'
  BY DEF PassedInv
<1>3. ASSUME NEW v \in Workers, pc'[v] = "ack" PROVE Terminated(v)'
  BY <1>3, OthersKeep
<1> QED  BY <1>1, <1>2, <1>3 DEF PassedInv

\* The verdict is written: by MarkDone, or by MarkFailed unless its context is
\* cancelled, since the row is there and the database answers.
LEMMA VerdictWritten ==
    ASSUME Reliable, DbAnswers, TypeOK, DeliveriesConsistent, MessageHasRow, RowsConsistent,
           NEW w \in Workers, MarkDone(w) \/ MarkFailed(w), pc'[w] = "ack"
    PROVE  Terminated(w)'
<1> USE DEF Terminated, Terminal, Lifecycle!Terminal
<1>1. Busy(w) /\ JobOf(w) \in Jobs /\ held[w] \in 1..Len(stream)
  BY BusyJob DEF MarkDone, MarkFailed, Busy
<1>2. JobOf(w)' = JobOf(w) /\ status[JobOf(w)] # "absent"
  BY <1>1 DEF MarkDone, MarkFailed, redis, JobOf, MessageHasRow
<1>3. PICK outcome \in UpdateOutcomes(w, JobOf(w)) :
        \/ WriteDone(JobOf(w), outcome) /\ outcome = "ok"
        \/ WriteFailed(JobOf(w), outcome)
  BY DEF MarkDone, MarkFailed, GoTo, TypeOK, WorkerTypeOK
<1>4. CASE outcome = "error"
  <2>1. ctx[w] \in {"interrupted", "cancelled"}
    BY <1>2, <1>4 DEF UpdateOutcomes, Outcomes, DbAnswers, TypeOK, WorkerTypeOK, Contexts
  <2>2. ctx'[w] = "cancelled"
    BY <2>1 DEF MarkDone, MarkFailed, SettleContext, TypeOK, WorkerTypeOK
  <2> QED  BY <2>2
<1>5. CASE outcome # "error"
  BY <1>1, <1>2, <1>3, <1>5 DEF WriteDone, WriteFailed, TypeOK, DbTypeOK, Lifecycle!TypeOK
<1> QED  BY <1>4, <1>5

\* Steps of a worker between two calls of the group.
LEMMA WorkingKeepsPassed ==
    ASSUME Reliable, DbAnswers, TypeOK, DeliveriesConsistent, MessageHasRow, RowsConsistent, PassedInv,
           [Lifecycle!Next]_(Lifecycle!vars), NEW w \in Workers,
           \/ StartWorker(w) \/ EnsureConsumerGroup(w) \/ BeginJob(w) \/ ReportProgress(w)
           \/ PipelineFails(w) \/ MarkDone(w) \/ MarkFailed(w) \/ Shutdown(w)
    PROVE  PassedInv'
<1>1. UNCHANGED <<stream, wiped, cursor, pel, held>>
  BY DEF StartWorker, EnsureConsumerGroup, CreateGroup, BeginJob, ReportProgress, PipelineFails,
     MarkDone, MarkFailed, Shutdown, redis, DeliveriesConsistent, GroupConsistent
<1>2. ASSUME NEW v \in Workers, v # w
      PROVE  UNCHANGED <<pc[v], ctx[v]>>
  BY <1>2 DEF StartWorker, EnsureConsumerGroup, BeginJob, ReportProgress, PipelineFails, MarkDone,
     MarkFailed, Shutdown, GoTo, SettleContext, TypeOK, WorkerTypeOK
<1>3. pc'[w] = "ack" => Terminated(w)'
  <2>1. CASE MarkDone(w) \/ MarkFailed(w)
    BY <2>1, VerdictWritten
  <2>2. CASE Shutdown(w)
    <3>1. SUFFICES ASSUME pc'[w] = "ack"
                   PROVE  Terminated(w)'
      OBVIOUS
    <3>2. pc[w] = "ack" /\ ctx[w] = "live"
      BY <2>2, <3>1 DEF Shutdown
    <3>3. status[JobOf(w)] \in Terminal /\ JobOf(w) \in Jobs /\ JobOf(w)' = JobOf(w)
      BY <1>1, <3>2, BusyJob DEF Busy, PassedInv, Terminated, JobOf
    <3> QED  BY <3>3, VerdictsAreFinal DEF Terminated, Terminal, Lifecycle!Terminal
  <2>3. CASE StartWorker(w) \/ EnsureConsumerGroup(w) \/ BeginJob(w) \/ ReportProgress(w) \/ PipelineFails(w)
    BY <2>3 DEF StartWorker, EnsureConsumerGroup, BeginJob, ReportProgress, PipelineFails, GoTo,
       TypeOK, WorkerTypeOK
  <2> QED  BY <2>1, <2>2, <2>3
<1>4. Len(stream') \in Nat
  BY <1>1 DEF TypeOK, RedisTypeOK
<1> QED  BY <1>1, <1>2, <1>3, <1>4, BooksUnchanged

\* Steps of a request.
LEMMA RequestKeepsPassed ==
    ASSUME TypeOK, DeliveriesConsistent, RowsConsistent, PassedInv,
           [Lifecycle!Next]_(Lifecycle!vars), NEW j \in Jobs,
           SubmitJob(j) \/ CommitJob(j) \/ EnsureGroup(j) \/ PublishJob(j) \/ RequestFails(j)
    PROVE  PassedInv'
<1>1. UNCHANGED <<wiped, cursor, pel, held, pc, ctx>>
  BY DEF SubmitJob, CommitJob, EnsureGroup, CreateGroup, PublishJob, RequestFails, redis, worker,
     DeliveriesConsistent, GroupConsistent
<1>2. Len(stream') \in Nat /\ \A i \in 1..Len(stream) : stream'[i] = stream[i]
  <2>1. CASE PublishJob(j)
    BY <2>1, PublishExtends DEF TypeOK, RedisTypeOK
  <2>2. CASE ~PublishJob(j)
    BY <2>2 DEF SubmitJob, CommitJob, EnsureGroup, CreateGroup, RequestFails, redis, TypeOK, RedisTypeOK
  <2> QED  BY <2>1, <2>2
<1> QED  BY <1>1, <1>2, BooksUnchanged

\* Deliver passes one more message and makes it pending.
LEMMA DeliverKeepsPassed ==
    ASSUME TypeOK, DeliveriesConsistent, RowsConsistent, PassedInv, NEW w \in Workers,
           ReadMessage(w) \/ LoseMessage(w)
    PROVE  PassedInv'
<1>1. /\ UNCHANGED <<db, stream, wiped>> /\ cursor' = cursor + 1 /\ pel' = pel \cup {cursor + 1}
      /\ cursor \in Nat /\ pc'[w] # "ack" /\ held'[w] \in {held[w], cursor + 1}
  BY DEF ReadMessage, LoseMessage, Deliver, GoTo, TypeOK, RedisTypeOK, WorkerTypeOK
<1>2. ASSUME NEW v \in Workers, v # w
      PROVE  UNCHANGED <<pc[v], held[v], ctx[v]>>
  BY <1>2 DEF ReadMessage, LoseMessage, GoTo, SettleContext, TypeOK, WorkerTypeOK
<1>3. PassedJobHasVerdict'
  BY <1>1 DEF PassedInv, PassedJobHasVerdict, db, Terminal, Lifecycle!Terminal, TypeOK, RedisTypeOK
<1>4. \A v \in Workers : held'[v] # 0 => held'[v] \in pel' \/ held'[v] <= wiped'
  BY <1>1, <1>2 DEF PassedInv
<1>5. ASSUME NEW v \in Workers, pc'[v] = "ack" PROVE Terminated(v)'
  BY <1>1, <1>2, <1>5 DEF PassedInv, Terminated, JobOf, db, Terminal, Lifecycle!Terminal
<1> QED  BY <1>3, <1>4, <1>5 DEF PassedInv

\* XACK takes away the entry of a job with its verdict.
LEMMA AcknowledgeKeepsPassed ==
    ASSUME TypeOK, DeliveriesConsistent, RowsConsistent, PassedInv, NEW w \in Workers, Acknowledge(w)
    PROVE  PassedInv'
<1>1. /\ UNCHANGED <<db, stream, wiped, cursor>> /\ pc'[w] = "poll" /\ held'[w] = 0
      /\ \A v \in Workers \ {w} : UNCHANGED <<pc[v], held[v], ctx[v]>>
  BY DEF Acknowledge, GoTo, SettleContext, TypeOK, WorkerTypeOK
<1>2. /\ held[w] # 0 /\ Terminated(w)
      /\ \/ pel' = pel
         \/ pel' = pel \ {held[w]} /\ ctx[w] # "cancelled"
  BY DEF Acknowledge, RedisOutcomes, Outcomes, DeliveriesConsistent, GroupConsistent, Busy, PassedInv
<1>3. PassedJobHasVerdict'
  BY <1>1, <1>2 DEF PassedInv, PassedJobHasVerdict, Terminated, JobOf, db, Terminal, Lifecycle!Terminal
<1>4. ASSUME NEW v \in Workers, held'[v] # 0
      PROVE  held'[v] \in pel' \/ held'[v] <= wiped'
  <2>1. v # w /\ held'[v] = held[v] /\ held[v] # held[w]
    BY <1>1, <1>2, <1>4 DEF DeliveriesConsistent, OneWorkerPerMessage
  <2> QED  BY <1>1, <1>2, <1>4, <2>1 DEF PassedInv
<1>5. ASSUME NEW v \in Workers, pc'[v] = "ack" PROVE Terminated(v)'
  BY <1>1, <1>5 DEF PassedInv, Terminated, JobOf, db, Terminal, Lifecycle!Terminal
<1> QED  BY <1>3, <1>4, <1>5 DEF PassedInv

\* A worker that vanishes holds nothing any more; a wiped Redis has passed, but
\* also wiped, every message.
LEMMA LossKeepsPassed ==
    ASSUME TypeOK, DeliveriesConsistent, RowsConsistent, PassedInv,
           (\E w \in Workers : Vanish(w)) \/ WipeRedis \/ UNCHANGED vars
    PROVE  PassedInv'
<1>1. CASE \E w \in Workers : Vanish(w)
  <2>1. PICK w \in Workers : Vanish(w)
    BY <1>1
  <2>2. /\ UNCHANGED <<db, stream, wiped, cursor, pel>> /\ pc'[w] = "down" /\ held'[w] = 0
        /\ \A v \in Workers \ {w} : UNCHANGED <<pc[v], held[v], ctx[v]>>
    BY <2>1 DEF Vanish, GoTo, redis, TypeOK, WorkerTypeOK
  <2> QED
    BY <2>2 DEF PassedInv, PassedJobHasVerdict, Terminated, JobOf, db, Terminal, Lifecycle!Terminal
<1>2. CASE WipeRedis
  <2>1. /\ UNCHANGED <<db, stream, worker>> /\ wiped' = Len(stream) /\ cursor' = Len(stream)
    BY <1>2 DEF WipeRedis
  <2>2. \A v \in Workers : held[v] <= Len(stream)
    BY DEF DeliveriesConsistent, GroupConsistent, TypeOK, RedisTypeOK, WorkerTypeOK
  <2>3. PassedJobHasVerdict'
    BY <2>1 DEF PassedJobHasVerdict, TypeOK, RedisTypeOK
  <2> QED
    BY <2>1, <2>2, <2>3 DEF PassedInv, Terminated, JobOf, db, worker, Terminal, Lifecycle!Terminal
<1>3. CASE UNCHANGED vars
  BY <1>3 DEF vars, db, redis, worker, PassedInv, PassedJobHasVerdict, Terminated, JobOf,
     Terminal, Lifecycle!Terminal
<1> QED  BY <1>1, <1>2, <1>3

\* If besides UPDATEs fail only when a shutdown interrupts them, no job is dropped
\* by the way the group is created or by XACK: what the group has passed and keeps
\* no entry of has its verdict.
THEOREM NothingDropped ==
    ASSUME Reliable, DbAnswers
    PROVE  Spec => []PassedJobHasVerdict
<1>1. Init => PassedInv
  BY DEF Init, PassedInv, PassedJobHasVerdict
<1>2. ASSUME TypeOK, DeliveriesConsistent, MessageHasRow, RowsConsistent, PassedInv, [Next]_vars
      PROVE  PassedInv'
  <2>1. [Lifecycle!Next]_(Lifecycle!vars)
    BY <1>2, VerdictStep
  <2> QED
    BY <1>2, <2>1, WorkingKeepsPassed, RequestKeepsPassed, DeliverKeepsPassed,
       AcknowledgeKeepsPassed, LossKeepsPassed
       DEF Next, RequestStep, WorkerStep, ReadNothing, Exit, Crash
<1>3. PassedInv => PassedJobHasVerdict
  BY DEF PassedInv
<1> QED
  BY <1>1, <1>2, <1>3, TypeCorrect, DeliveriesStayConsistent, MessagesHaveRows, RowsStayConsistent,
     PTL DEF Spec
============================================================================
