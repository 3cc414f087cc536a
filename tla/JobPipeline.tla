---------------------------- MODULE JobPipeline ----------------------------
(***************************************************************************)
(* The life of a job, across its three processes and two stores:           *)
(*                                                                         *)
(*   backend   POST /api/v1/jobs: insert and commit a core.jobs row, make  *)
(*             sure the consumer group exists, XADD the message, answer.   *)
(*   Redis     the stream, its consumer group (read position) and the      *)
(*             group's pending entries list (PEL).                         *)
(*   worker    XREADGROUP ">" one message at a time, run the pipeline,     *)
(*             write the verdict to core.jobs, XACK.                       *)
(*                                                                         *)
(* Every call that leaves a process is a step of its own, so the processes *)
(* interleave between calls.  The set Faults says which failures a         *)
(* behaviour may contain; a run names the ones its question is about.      *)
(***************************************************************************)
EXTENDS Integers, Sequences

CONSTANTS
    Jobs,          \* job ids; each is submitted by one POST
    Workers,       \* worker processes of the consumer group
    JobType,       \* JobType[j]: "import" or "anonymize"
    Faults         \* the failures that may happen

FaultKinds ==
    {"request_error",  \* a request dies between two calls (exception, process killed)
     "publish_lost",   \* XADD is applied, its reply is lost: the request fails
     "publish_resent", \* XADD is applied, its reply is lost, the client library resends it
     "redis_error",    \* the worker's Redis call is not applied and returns an error
     "redis_lost",     \* the worker's Redis call is applied and returns an error
     "redis_wiped",    \* Redis loses its data (the service has no volume)
     "db_error",       \* the worker's UPDATE is not applied and returns an error
     "db_lost",        \* the worker's UPDATE is applied and returns an error
     "crash",          \* a worker process is killed
     "shutdown"}       \* a worker process receives SIGTERM

ASSUME JobTypeAssumption == JobType \in [Jobs -> {"import", "anonymize"}]
ASSUME FaultsAssumption == Faults \subseteq FaultKinds

VARIABLES
    \* core.jobs
    status, progress, error, result,
    \* the request that creates each job: where it is, or how it was answered
    request,
    \* Redis: every message ever added (its id is its index), how many of them
    \* were wiped, the group, its read position and its pending entries
    stream, wiped, group, cursor, pel,
    \* each worker: program counter, message in hand (0: none), number of
    \* progress reports made, state of its context
    pc, held, reports, ctx

db     == <<status, progress, error, result>>
redis  == <<stream, wiped, group, cursor, pel>>
worker == <<pc, held, reports, ctx>>
vars   == <<db, request, redis, worker>>

Lifecycle == INSTANCE JobLifecycle

Requests == {"none", "commit", "ensure", "xadd", "created", "failed"}
Pcs      == {"down", "ensure", "poll", "begin", "run", "fail", "ack"}
Contexts == {"live", "interrupted", "cancelled"}

\* Variant (bug): the last report overshoots.
ProgressStepsOvershoot(type) == <<10, 45, 70, 101>>

\* Variant (bug): two reports in the wrong order.
ProgressStepsSwapped(type) == <<10, 70, 45, 95>>

\* The percentages a pipeline reports between its start (5) and MarkDone (100).
ProgressSteps(type) == IF type = "import" THEN <<10, 45, 70, 95>> ELSE <<10, 35, 70, 95>>

LastReport == 4

DbTypeOK ==
    /\ Lifecycle!TypeOK
    /\ error \in [Jobs -> BOOLEAN]
    /\ result \in [Jobs -> BOOLEAN]

RedisTypeOK ==
    /\ stream \in Seq(Jobs)
    /\ wiped \in Nat
    /\ group \in BOOLEAN
    /\ cursor \in Nat
    /\ pel \subseteq Nat

WorkerTypeOK ==
    /\ pc \in [Workers -> Pcs]
    /\ held \in [Workers -> Nat]
    /\ reports \in [Workers -> 0..LastReport]
    /\ ctx \in [Workers -> Contexts]

TypeOK ==
    /\ DbTypeOK
    /\ request \in [Jobs -> Requests]
    /\ RedisTypeOK
    /\ WorkerTypeOK

Init ==
    /\ Lifecycle!Init
    /\ error = [j \in Jobs |-> FALSE]
    /\ result = [j \in Jobs |-> FALSE]
    /\ request = [j \in Jobs |-> "none"]
    /\ stream = <<>>
    /\ wiped = 0
    /\ group = FALSE
    /\ cursor = 0
    /\ pel = {}
    /\ pc = [w \in Workers |-> "down"]
    /\ held = [w \in Workers |-> 0]
    /\ reports = [w \in Workers |-> 0]
    /\ ctx = [w \in Workers |-> "live"]

----------------------------------------------------------------------------
(* Backend: create_job and publish_job *)

\* Variant (bug): the message is published without waiting for the commit.
SubmitJobPublishesFirst(j) ==
    /\ request[j] = "none"
    /\ request' = [request EXCEPT ![j] = "ensure"]
    /\ UNCHANGED <<db, redis, worker>>

\* The validated body reaches create_job; the row is flushed, not yet visible.
SubmitJob(j) ==
    /\ request[j] = "none"
    /\ request' = [request EXCEPT ![j] = "commit"]
    /\ UNCHANGED <<db, redis, worker>>

CommitJob(j) ==
    /\ request[j] = "commit"
    /\ request' = [request EXCEPT ![j] = "ensure"]
    /\ status' = [status EXCEPT ![j] = "pending"]
    /\ UNCHANGED <<progress, error, result, redis, worker>>

\* Variant (bug): the group starts at "$" instead of "0".
CreateGroupAtEnd ==
    /\ group' = TRUE
    /\ cursor' = IF group THEN cursor ELSE Len(stream)
    /\ UNCHANGED <<stream, wiped, pel>>

\* Variant (bug): an existing group is set back to the first message.
CreateGroupResets ==
    /\ group' = TRUE
    /\ cursor' = wiped
    /\ UNCHANGED <<stream, wiped, pel>>

\* XGROUP CREATE <stream> <group> 0 MKSTREAM: the group starts before the first
\* message Redis still has; an existing group (BUSYGROUP) is left as it is.
CreateGroup ==
    /\ group' = TRUE
    /\ cursor' = IF group THEN cursor ELSE wiped
    /\ UNCHANGED <<stream, wiped, pel>>

EnsureGroup(j) ==
    /\ request[j] = "ensure"
    /\ request' = [request EXCEPT ![j] = "xadd"]
    /\ CreateGroup
    /\ UNCHANGED <<db, worker>>

\* Variant (bug): an error of XADD is swallowed and the client gets its 201.
PublishJobSwallowsError(j) ==
    /\ request[j] = "xadd"
    /\ request' = [request EXCEPT ![j] = "created"]
    /\ stream' \in {stream, Append(stream, j)}
    /\ UNCHANGED <<db, wiped, group, cursor, pel, worker>>

\* XADD and the answer to it: "ok" is a 201, "lost" and "resent" as in FaultKinds.
PublishJob(j) ==
    /\ request[j] = "xadd"
    /\ \/ /\ stream' = Append(stream, j)
          /\ request' = [request EXCEPT ![j] = "created"]
       \/ /\ "publish_lost" \in Faults
          /\ stream' = Append(stream, j)
          /\ request' = [request EXCEPT ![j] = "failed"]
       \/ /\ "publish_resent" \in Faults
          /\ stream' = stream \o <<j, j>>
          /\ request' = [request EXCEPT ![j] = "created"]
    /\ UNCHANGED <<db, wiped, group, cursor, pel, worker>>

\* The handler dies before its next call takes effect: an uncommitted row is
\* rolled back, a committed one stays, and the client sees an error.
RequestFails(j) ==
    /\ "request_error" \in Faults
    /\ request[j] \in {"commit", "ensure", "xadd"}
    /\ request' = [request EXCEPT ![j] = "failed"]
    /\ UNCHANGED <<db, redis, worker>>

----------------------------------------------------------------------------
(* Worker: outcomes of a call and writes to core.jobs *)

\* What a call of worker w may come to: "ok", "error" (not applied, error
\* returned) or "lost" (applied, error returned).  A cancelled context makes
\* every call fail; the one it interrupts may have been applied already.
Outcomes(w, fails, loses) ==
    CASE ctx[w] = "cancelled"   -> {"error"}
      [] ctx[w] = "interrupted" -> {"error", "lost"}
      [] OTHER -> {"ok"} \cup (IF fails \in Faults THEN {"error"} ELSE {})
                         \cup (IF loses \in Faults THEN {"lost"} ELSE {})

RedisOutcomes(w) == Outcomes(w, "redis_error", "redis_lost")

\* An UPDATE that matches no row is an error ("job not found") as well.
UpdateOutcomes(w, j) ==
    IF status[j] = "absent" THEN {"error"} ELSE Outcomes(w, "db_error", "db_lost")

\* After the call that a cancellation interrupted, no call can be in flight.
SettleContext(w) ==
    ctx' = [ctx EXCEPT ![w] = IF @ = "interrupted" THEN "cancelled" ELSE @]

UpdateStatus(j, p, outcome) ==
    IF outcome = "error"
    THEN UNCHANGED db
    ELSE /\ status' = [status EXCEPT ![j] = "processing"]
         /\ progress' = [progress EXCEPT ![j] = p]
         /\ UNCHANGED <<error, result>>

\* Variant (bug): MarkDone without "error = NULL".
WriteDoneKeepsError(j, outcome) ==
    IF outcome = "error"
    THEN UNCHANGED db
    ELSE /\ status' = [status EXCEPT ![j] = "done"]
         /\ progress' = [progress EXCEPT ![j] = 100]
         /\ result' = [result EXCEPT ![j] = TRUE]
         /\ UNCHANGED error

WriteDone(j, outcome) ==
    IF outcome = "error"
    THEN UNCHANGED db
    ELSE /\ status' = [status EXCEPT ![j] = "done"]
         /\ progress' = [progress EXCEPT ![j] = 100]
         /\ error' = [error EXCEPT ![j] = FALSE]
         /\ result' = [result EXCEPT ![j] = TRUE]

WriteFailed(j, outcome) ==
    IF outcome = "error"
    THEN UNCHANGED db
    ELSE /\ status' = [status EXCEPT ![j] = "failed"]
         /\ error' = [error EXCEPT ![j] = TRUE]
         /\ UNCHANGED <<progress, result>>

GoTo(w, label) == pc' = [pc EXCEPT ![w] = label]

\* The job of the message worker w is processing.
JobOf(w) == stream[held[w]]

----------------------------------------------------------------------------
(* Worker: main, Start and the consumption loop *)

StartWorker(w) ==
    /\ pc[w] = "down"
    /\ GoTo(w, "ensure")
    /\ UNCHANGED <<db, request, redis, held, reports, ctx>>

\* An error other than BUSYGROUP ends Start and with it the process.
EnsureConsumerGroup(w) ==
    /\ pc[w] = "ensure"
    /\ \E outcome \in RedisOutcomes(w) :
        /\ IF outcome = "error" THEN UNCHANGED redis ELSE CreateGroup
        /\ GoTo(w, IF outcome = "ok" THEN "poll" ELSE "down")
    /\ ctx' = [ctx EXCEPT ![w] = "live"]
    /\ UNCHANGED <<db, request, held, reports>>

\* XREADGROUP ">" COUNT 1 has something to deliver.
CanDeliver == group /\ cursor < Len(stream)

Deliver ==
    /\ CanDeliver
    /\ cursor' = cursor + 1
    /\ pel' = pel \cup {cursor + 1}
    /\ UNCHANGED <<stream, wiped, group>>

\* Variant (bug): the group's pending entries are read as well as the new ones.
ReadMessageOrPending(w) ==
    /\ pc[w] = "poll"
    /\ ctx[w] = "live"
    /\ \/ Deliver /\ held' = [held EXCEPT ![w] = cursor + 1]
       \/ /\ \E i \in pel : held' = [held EXCEPT ![w] = i]
          /\ UNCHANGED redis
    /\ GoTo(w, "begin")
    /\ UNCHANGED <<db, request, reports, ctx>>

ReadMessage(w) ==
    /\ pc[w] = "poll"
    /\ ctx[w] = "live"
    /\ Deliver
    /\ held' = [held EXCEPT ![w] = cursor + 1]
    /\ GoTo(w, "begin")
    /\ UNCHANGED <<db, request, reports, ctx>>

\* The entry is delivered to this consumer, but the reply never reaches it; the
\* loop (or the client library) reads again, and ">" only returns newer entries.
LoseMessage(w) ==
    /\ pc[w] = "poll"
    /\ "lost" \in RedisOutcomes(w)
    /\ Deliver
    /\ SettleContext(w)
    /\ UNCHANGED <<db, request, pc, held, reports>>

\* Nothing to read (redis.Nil after 2 s), or NOGROUP until someone creates the
\* group again: the loop goes round.
ReadNothing(w) ==
    /\ pc[w] = "poll"
    /\ ctx[w] = "live"
    /\ ~CanDeliver
    /\ UNCHANGED vars

----------------------------------------------------------------------------
(* Worker: processMessage, executeJob, runImport and runAnonymize *)

\* UPDATE ... 'processing', 5: an error fails the job before its pipeline runs.
BeginJob(w) ==
    /\ pc[w] = "begin"
    /\ \E outcome \in UpdateOutcomes(w, JobOf(w)) :
        /\ UpdateStatus(JobOf(w), 5, outcome)
        /\ GoTo(w, IF outcome = "ok" THEN "run" ELSE "fail")
    /\ SettleContext(w)
    /\ UNCHANGED <<request, redis, held, reports>>

\* The progress callback: a failed update is logged and the pipeline goes on.
ReportProgress(w) ==
    /\ pc[w] = "run"
    /\ reports[w] < LastReport
    /\ reports' = [reports EXCEPT ![w] = @ + 1]
    /\ \E outcome \in UpdateOutcomes(w, JobOf(w)) :
        UpdateStatus(JobOf(w), ProgressSteps(JobType[JobOf(w)])[reports[w] + 1], outcome)
    /\ SettleContext(w)
    /\ UNCHANGED <<request, redis, pc, held>>

\* The pipeline returns an error.  Before its first report only the import can
\* (its directory is missing); after the last one nothing can fail.
PipelineFails(w) ==
    /\ pc[w] = "run"
    /\ reports[w] < LastReport
    /\ reports[w] = 0 => JobType[JobOf(w)] = "import"
    /\ GoTo(w, "fail")
    /\ UNCHANGED <<db, request, redis, held, reports, ctx>>

\* Variant (bug): the failure branch runs after a success as well.
MarkDoneFallsThrough(w) ==
    /\ pc[w] = "run"
    /\ reports[w] = LastReport
    /\ \E outcome \in UpdateOutcomes(w, JobOf(w)) : WriteDone(JobOf(w), outcome)
    /\ GoTo(w, "fail")
    /\ SettleContext(w)
    /\ UNCHANGED <<request, redis, held, reports>>

MarkDone(w) ==
    /\ pc[w] = "run"
    /\ reports[w] = LastReport
    /\ \E outcome \in UpdateOutcomes(w, JobOf(w)) :
        /\ WriteDone(JobOf(w), outcome)
        /\ GoTo(w, IF outcome = "ok" THEN "ack" ELSE "fail")
    /\ SettleContext(w)
    /\ UNCHANGED <<request, redis, held, reports>>

\* The verdict's own failure is only logged.
MarkFailed(w) ==
    /\ pc[w] = "fail"
    /\ \E outcome \in UpdateOutcomes(w, JobOf(w)) : WriteFailed(JobOf(w), outcome)
    /\ GoTo(w, "ack")
    /\ SettleContext(w)
    /\ UNCHANGED <<request, redis, held, reports>>

\* XACK, whatever became of the job; its failure is only logged.
Acknowledge(w) ==
    /\ pc[w] = "ack"
    /\ \E outcome \in RedisOutcomes(w) :
        pel' = IF outcome = "error" THEN pel ELSE pel \ {held[w]}
    /\ GoTo(w, "poll")
    /\ held' = [held EXCEPT ![w] = 0]
    /\ reports' = [reports EXCEPT ![w] = 0]
    /\ SettleContext(w)
    /\ UNCHANGED <<db, request, stream, wiped, group, cursor>>

----------------------------------------------------------------------------
(* Failures *)

\* SIGTERM cancels the root context; main closes its pools and returns without
\* waiting for the consumer's goroutine.
Shutdown(w) ==
    /\ "shutdown" \in Faults
    /\ pc[w] # "down"
    /\ ctx[w] = "live"
    /\ ctx' = [ctx EXCEPT ![w] = "interrupted"]
    /\ UNCHANGED <<db, request, redis, pc, held, reports>>

\* A process that is gone keeps nothing; docker restarts it (StartWorker).
Vanish(w) ==
    /\ pc[w] # "down"
    /\ GoTo(w, "down")
    /\ held' = [held EXCEPT ![w] = 0]
    /\ reports' = [reports EXCEPT ![w] = 0]
    /\ ctx' = [ctx EXCEPT ![w] = "live"]
    /\ UNCHANGED <<db, request, redis>>

\* main returns, wherever the consumer's goroutine is.
Exit(w) == ctx[w] # "live" /\ Vanish(w)

Crash(w) == "crash" \in Faults /\ Vanish(w)

\* Redis comes back empty: no stream, no group.  Message ids are never reused.
WipeRedis ==
    /\ "redis_wiped" \in Faults
    /\ wiped' = Len(stream)
    /\ cursor' = Len(stream)
    /\ group' = FALSE
    /\ pel' = {}
    /\ UNCHANGED <<db, request, stream, worker>>

----------------------------------------------------------------------------

RequestStep(j) ==
    \/ CommitJob(j)
    \/ EnsureGroup(j)
    \/ PublishJob(j)

WorkerStep(w) ==
    \/ StartWorker(w)
    \/ EnsureConsumerGroup(w)
    \/ ReadMessage(w)
    \/ BeginJob(w)
    \/ ReportProgress(w)
    \/ PipelineFails(w)
    \/ MarkDone(w)
    \/ MarkFailed(w)
    \/ Acknowledge(w)
    \/ Exit(w)

Next ==
    \/ \E j \in Jobs : SubmitJob(j) \/ RequestStep(j) \/ RequestFails(j)
    \/ \E w \in Workers :
        WorkerStep(w) \/ ReadNothing(w) \/ LoseMessage(w) \/ Shutdown(w) \/ Crash(w)
    \/ WipeRedis

Spec == Init /\ [][Next]_vars

\* asyncio keeps running a request, docker restarts a worker that ended
\* (restart: unless-stopped) and a running worker keeps executing.
Fairness ==
    /\ \A j \in Jobs : WF_vars(RequestStep(j))
    /\ \A w \in Workers : WF_vars(WorkerStep(w))

FairSpec == Spec /\ Fairness

----------------------------------------------------------------------------
(* Properties *)

Terminal == Lifecycle!Terminal

\* A worker never receives a message whose row it cannot see: publish_job runs
\* only after the commit, so "job not found" cannot happen.
MessageHasRow == \A i \in 1..Len(stream) : status[stream[i]] # "absent"

\* Bookkeeping of the group: what is wiped, read and pending lines up, a group
\* that does not exist has read nothing Redis still holds, and a worker holds a
\* message, one the group has read, exactly while it is busy.
Busy(w) == pc[w] \in {"begin", "run", "fail", "ack"}

GroupConsistent ==
    /\ wiped <= cursor /\ cursor <= Len(stream)
    /\ ~group => cursor = wiped
    /\ pel \subseteq (wiped + 1)..cursor
    /\ \A w \in Workers : held[w] <= cursor /\ (Busy(w) <=> held[w] # 0)

OneWorkerPerMessage ==
    \A v, w \in Workers : v # w /\ held[v] # 0 => held[v] # held[w]

\* Whatever is read, lost, acknowledged or wiped by workers that come and go, the
\* group's books line up and no two workers process the same message.
DeliveriesConsistent == GroupConsistent /\ OneWorkerPerMessage

\* A message the group has moved past and no longer keeps as pending belongs to
\* a job with its verdict: neither the group's creation nor XACK drops a job.
PassedJobHasVerdict ==
    \A i \in 1..Len(stream) :
        wiped < i /\ i <= cursor /\ i \notin pel => status[stream[i]] \in Terminal

\* A row has a result exactly when it is done and an error exactly when it
\* failed: no order of updates and failures mixes the two verdicts.
ColumnsAgree(j) ==
    /\ result[j] <=> status[j] = "done"
    /\ error[j] <=> status[j] = "failed"

VerdictColumnsAgree == \A j \in Jobs : ColumnsAgree(j)

\* Why verdicts are final when no write is lost and no message doubled: a job has
\* one message; until that is read, only the request knows the row; then one
\* worker owns it, and the row mirrors how far that worker has come.
Reached(type, n) == IF n = 0 THEN 5 ELSE ProgressSteps(type)[n]

Untouched(j) == status[j] = "pending" /\ progress[j] = 0

OneMessagePerJob ==
    /\ \A i, k \in 1..Len(stream) : stream[i] = stream[k] => i = k
    /\ \A i \in 1..Len(stream) : request[stream[i]] \in {"created", "failed"}

RequestOwnsRow ==
    \A j \in Jobs :
        /\ request[j] \in {"none", "commit"} => status[j] = "absent"
        /\ request[j] \in {"ensure", "xadd"} => Untouched(j)
        /\ status[j] = "absent" => progress[j] = 0

UnreadIsUntouched == \A i \in 1..Len(stream) : cursor < i => Untouched(stream[i])

OwnsRow(w) ==
    /\ pc[w] = "begin" => Untouched(JobOf(w))
    /\ pc[w] = "run" => /\ status[JobOf(w)] = "processing"
                        /\ progress[JobOf(w)] <= Reached(JobType[JobOf(w)], reports[w])
    /\ pc[w] = "fail" => status[JobOf(w)] \in {"pending", "processing"} \/ ctx[w] = "cancelled"

RowHasOneOwner ==
    /\ OneMessagePerJob
    /\ RequestOwnsRow
    /\ UnreadIsUntouched
    /\ \A w \in Workers : OwnsRow(w)

\* Each row follows its one owner, and no order of updates and failures mixes the
\* columns of the two verdicts.
RowsConsistent == RowHasOneOwner /\ VerdictColumnsAgree

\* Even when a message is delivered twice, a job that ends well shows no error
\* of an earlier attempt (MarkDone clears it) and 100 %.
DoneIsClean ==
    \A j \in Jobs : status[j] = "done" => ~error[j] /\ result[j] /\ progress[j] = 100

\* The whole pipeline keeps the promise of JobLifecycle: a verdict is final and
\* progress never goes back.
ImplementsLifecycle == Lifecycle!Spec

\* A job the API accepted gets a verdict and keeps it.
AcceptedJobFinishes ==
    \A j \in Jobs : <>[](request[j] = "created" => status[j] \in Terminal)

\* Some message of job j is delivered and not acknowledged.
Unacknowledged(j) == \E i \in pel : stream[i] = j

\* At-least-once delivery: if the workers eventually stay up, a job whose message
\* was delivered is processed, if need be again, until XACK.
AtLeastOnce ==
    <>[](\A w \in Workers : pc[w] # "down" /\ ctx[w] = "live") =>
        \A j \in Jobs : Unacknowledged(j) ~> ~Unacknowledged(j)
============================================================================
