# Formal model of Sirius 27

TLA+ specifications of Sirius 27 (FastAPI backend, Redis Streams, Go worker,
PostgreSQL, Next.js frontend), the TLC configurations that model-check them and
proofs that TLAPS checks. They cover the job queue from the request to the verdict,
the page that polls it, the import and the anonymizer, enrollments and group
transfers, the privacy registers, migrations with the backend's start and seed,
accounts and roles, and the session of the frontend.

Checking, in this directory (section 3 says what each run asks):

    tlc -workers 2 -config JobPipelineOutage.cfg   MCJobPipeline.tla
    tlc -workers 2 -config JobPipelineLiveness.cfg MCJobPipeline.tla
    tlc -workers 2 -config JobPipelineShutdown.cfg MCJobPipeline.tla     (violated)
    tlc -workers 2 -config JobPollingPage.cfg      MCJobPolling.tla
    tlc -workers 2 -config JobPollingSlow.cfg      MCJobPolling.tla      (violated)
    tlc -workers 2 -config ImportJobs.cfg          MCImportPipeline.tla
    tlc -workers 2 -config AnonymizerRuns.cfg      MCAnonymizer.tla
    tlc -workers 2 -config LearningRequests.cfg    MCLearning.tla
    tlc -workers 2 -config PrivacyCalls.cfg        MCPrivacy.tla
    tlc -workers 2 -config DeploymentStarts.cfg    MCDeployment.tla
    tlc -workers 2 -config SessionTab.cfg          MCSession.tla
    tlc -workers 2 -config SessionExpired.cfg      MCSession.tla         (violated)
    tlapm JobPipelineProofs.tla     (and JobPollingProofs, ImportPipelineProofs,
                                     AnonymizerProofs, LearningProofs, PrivacyProofs,
                                     DeploymentProofs, SessionProofs)

## 1. The system

| Part | State it keeps | Operations | Talks to |
|---|---|---|---|
| Backend: jobs (`job_service.py`, `queue/publisher.py`, `api/v1/jobs.py`, `api/v1/data.py`) | rows of `core.jobs`, uploaded files | create a job (insert, commit, create group, XADD), upload a dataset, read a job | Postgres, Redis |
| Redis | the stream, the consumer group's position, its pending entries (PEL) | XADD, XGROUP CREATE, XREADGROUP, XACK | backend, worker |
| Worker (`consumer.go`, `main.go`, `store.go`) | message in hand, progress, context | read one message, run its pipeline, write the verdict, acknowledge; SIGTERM | Redis, Postgres, shared directory |
| Importer (`importer/`) | rows of students, guardians, links; a report | validate rows, insert them in batches of 500, link them | Postgres, files |
| Anonymizer (`anonymizer/`) | `vault.pseudonym_map`, output CSV, a report | load and decrypt, tokenize or mask, measure k | Postgres, files |
| Polling hook (`useJobPolling.ts`, Import and Anonymize pages) | shown job, timer, requests in flight | start, poll every second, stop, reset, unmount | backend |
| Session (`AuthProvider.tsx`, `apiClient.ts`, guards) | token in localStorage, current user | restore, login, logout, 401 | backend |
| Accounts (`auth_service.py`, `deps.py`) | users, roles | register, replace roles, bootstrap admin | Postgres |
| Privacy (`privacy_service.py`) | consents, subject requests | sync consents, KPIs, create and move requests, cards | Postgres |
| Learning (`learning_service.py`, `api/v1/portal.py`, `schedule.py`) | courses, groups, enrollments | create and publish courses, transfer members, enroll, the portal's and the staff's reads | Postgres |
| Start of the backend (`Dockerfile`, `main.py`, `seed_demo.py`) | the same tables | migrate, make the bootstrap admin, seed in stages | Postgres |
| Migrations (`migrations/versions/`) | the schema, the PII key, grants, encrypted rows | upgrade, downgrade | Postgres |

What is hard in it:

* The backend and the worker meet only through two stores, and a job needs both:
  a row in Postgres and a message in Redis. Any call may fail, or succeed and
  lose its reply; Redis has no volume; worker processes crash, are stopped and
  restart under the same consumer name.
* `UPDATE core.jobs` has no guard on the old status, so nothing in the database
  keeps a verdict final. That verdicts are final rests on the order of events.
* XACK follows whatever happened, and the pending list is never read again.
* In the browser, polls and other requests overlap and answer in any order.
* Most services run several statements under READ COMMITTED without locks: what one
  read is stale when it writes, and two writers wait for each other's rows and keys.
* The start of the backend is a sequence of transactions that containers and people
  begin at any time, and that crashes cut anywhere; it must complete what it finds.
* Guards look at the user in memory, requests at the token in localStorage.

What makes each part correct is stated in section 3. `PROJECT.json` lists the hazards,
each at the line where it bites, with the properties that watch it.

## 2. Modules

| Module | What it is |
|---|---|
| `JobLifecycle` | What the queue promises to whoever polls a job: pending, processing, progress that only grows, then done at 100 % or failed, once. |
| `JobPipeline` | The code: request, stream and group, workers, `core.jobs`, and their failures. Implements `JobLifecycle`. |
| `JobPolling` | The polling hook inside the pages; its server is `JobLifecycle` (an INSTANCE), so what it proves holds over `JobPipeline`. |
| `ImportPipeline` | Import jobs over PostgreSQL: batches as transactions, links, reports. |
| `Anonymizer` | Anonymize jobs: snapshot, `vault.pseudonym_map`, output, k-anonymity. |
| `Learning` | Requests about courses, groups and enrollments at once, statement by statement under READ COMMITTED. |
| `Privacy` | Calls of the privacy contour at once: consents, KPI, subjects' requests, cards. |
| `Schema` | The migrations as operations on tables, keys, columns, functions and grants; the ORM's models. |
| `Deployment` | Starts of the backend, seeds and accounts on one database; extends `Schema`. |
| `Session` | One tab of the frontend: token, user, login form, guards, requests in flight. |
| `MC...` | Values of the constants for TLC. |
| `...Proofs` | Theorems about the module of that name and their proofs. |

In `JobPipeline` the pipelines are the sequence of their progress reports and may
fail between any two; `ImportPipeline` and `Anonymizer` are what happens between
those reports. They share with it that a job can be cut off at any call.

Definitions marked "Variant (bug)" are not part of any specification. Each is a
definition with a plausible mistake, and a property fails when it takes the place
of the original; `PROJECT.json` (`mutants`) pairs them with the properties.

### JobPipeline and the code

Every call that leaves a process is one step, so everything between two calls
interleaves with the other processes.

| Variables | In the program |
|---|---|
| `status progress error result` | the columns of `core.jobs`; `error` and `result` are "is not NULL" |
| `request` | where `create_job` is for this job: before the commit, before XGROUP CREATE, before XADD, answered 201, failed |
| `stream wiped group cursor pel` | every message ever added (its index is its id), how many of them a restart of Redis lost, the group, its last delivered id, its pending entries |
| `pc held reports ctx` | per worker: where the goroutine is, the message in hand, progress reports made, state of the root context |

| Action | Code |
|---|---|
| `SubmitJob`, `CommitJob`, `EnsureGroup`, `PublishJob` | `create_job` (flush, commit), then `publish_job` (`ensure_consumer_group`, `xadd`) |
| `StartWorker`, `EnsureConsumerGroup` | `main`, `Start`, `ensureConsumerGroup` |
| `ReadMessage`, `ReadNothing`, `LoseMessage` | XREADGROUP ">" COUNT 1: a message, nothing (or NOGROUP), a message whose reply is lost |
| `BeginJob`, `ReportProgress`, `PipelineFails`, `MarkDone` | `runImport` / `runAnonymize`: UPDATE to 5 %, progress callbacks, an error of the pipeline, the final UPDATE |
| `MarkFailed`, `Acknowledge` | the rest of `processMessage` |
| `RequestFails`, `Shutdown`, `Exit`, `Crash`, `WipeRedis` | a request that dies, SIGTERM, the end of `main`, a killed process, a restart of Redis |

Abstractions: the payload is its type only (both types carry what the validator
of `JobCreate` demands); error texts and results are booleans. Cancelling the
context makes the call in progress fail, applied or not, and every later one fail
without effect. `Faults` names the failures a behaviour may contain. It is a
parameter because properties differ in what they survive, and the runs say which.

### JobPolling and the code

| Variables | In the program |
|---|---|
| `shown timer` | the hook's `job` state and `timer.current` |
| `intervals` | the intervals the browser really runs, which the ref may or may not know |
| `polls` | the GETs in flight, each sent, then answered with the row of that moment, then arrived or failed |
| `posting mounted` | the POST in flight, the page |
| `status` | the rows at the server |

`Run`, `PostAnswered` and `PostFails` are `handleUpload` and `handleRun`, `Tick` the
callback of `setInterval`, `PollArrives` and `PollFails` the two ends of its promise,
`Stop`, `Start` and `Reset` the functions of the hook, `Unmount` its effect's clean-up.
`Slots` bounds the polls in flight. `prompt` is chosen once: when it is TRUE an answer
comes before the next tick, and the user starts a job only when no poll is in flight
and the last job shown has its verdict. `Prompts` says which values a run considers.

### ImportPipeline and the code

| Variables | In the program |
|---|---|
| `outcome file next` | where `Importer.Run` is: the entity being loaded and its next row |
| `size open` | the batch the server executes for it: rows so far, ids it inserted and holds |
| `table` | committed rows of students, guardians and links |
| `inserted` | `EntityReport.Inserted` |
| `report` | `Failed`, `Errors` and `ErrorsTruncated` of the links |

pgx sends a batch as one implicit transaction; it runs at the server row by row, so
`InsertRow` is one step and `CommitBatch` another. `Cut` is the job losing its
connection: the orphan batch goes on, and is committed or rolled back. A row is an
id and what becomes of it: valid, refused by `validate*`, or accepted there and
refused by PostgreSQL. Waiting for another transaction's id, the deadlock detector,
the refusal of a text that is no UTF-8 and the fate of an orphan are PostgreSQL's and
marked external.

### Anonymizer and the code

| Variables | In the program |
|---|---|
| `rows` | the people committed; imports only add to them and nothing changes or deletes one |
| `map` | `vault.pseudonym_map`: the token of each cell <person, field> |
| `pc snapshot todo out` | per run: where it is, the rows it loaded, the cells it has to tokenize, the tokens of the output |
| `check report` | `reversibility_check`, and the two values of k |

`Load` is the one SELECT, `Tokenize` one cell with its upsert, `WriteCSV` the file,
`Finish` the self-check and the report, `Fails` an error, a shutdown or a crash
anywhere. A token is named after the run and the cell it was drawn for, which says
that 64 random bits do not collide. `ComputeK` takes records and a key; the minimum
over records of the class size is the minimum over classes. Masks, hashes of
originals and the record number are formatting and left out.

### Learning and the code

| Variables | In the program |
|---|---|
| `rows courses` | `core.enrollments` and `core.courses`, committed |
| `pc todo byStudent` | per request: its statement, the students it still has to write, `by_student` of `update_group_members` |
| `writes` | what its open transaction wrote: nobody else sees it, and it holds its rows and keys |
| `found` | what it has read for its answer |
| `past` | the enrollments there were when it came (history) |

A request is one handler of `learning_service.py` with its router. `ReadTransfer` is
the SELECT of a transfer, `SkipMember`, `WriteRow` and `RowRefused` one round of its
loop, `Commit` its end, `ReadSummary` and `ReadMembers` the answer;
`ResolveStudent` leads an enrollment into the same loop with one student. Each reading
statement is an action of its own with its own snapshot. `WaitsFor`, `Violates` and
`DeadlockVictim` are PostgreSQL's row locks, keys and deadlock detector; `Dies` is a
lost connection. Modules, lessons and achievements are left
out: nothing changes them after the seed. Groups are made by the seed alone.

### Privacy and the code

| Variables | In the program |
|---|---|
| `subjects consents requests` | students and guardians, `vault.consent`, `vault.subject_request` |
| `pc found` | per call: its statement, what it has computed and read |
| `inserts` | the rows of an open `sync_consents` |
| `day` | the clock, in days |
| `past` | the registers when the call came (history) |

`SyncInsert` and `SyncCommit` are `sync_consents`, `KpiRead` the five statements of
`consent_kpi`, `ComputeDue`, `CreateRequest`, `AnswerCreate` one request,
`ResolveTime`, `UpdateStatus`, `ReadRequests` a change of status and its answer,
`ReadCard` the subject card. Times are taken in the process, before the statement that
writes them. Names are decrypted by a function of PostgreSQL and stand for themselves.

### Schema, Deployment and the code

`Schema` has no variables. `Up` and `Down` are the bodies of each revision's `upgrade`
and `downgrade` as sequences of operations, in the order of the code; `Possible` says
when PostgreSQL accepts one (a table with references is not dropped, a function without
EXECUTE not called, a row not decrypted with another key), `Effect` what it changes,
rows included. Columns and indexes that follow their table are left out.

| Variables of `Deployment` | In the program |
|---|---|
| `db` | the committed database: revision, schema, rows |
| `pc local` | per container, run by hand or call: stage and step, what it read before |
| `tx` | uncommitted: a user, badges, deleted role rows |
| `scenario crashes downgrades` | what is considered together, and the bounds |
| `refused overlapped` | a migration failed that nobody raced; two seeds ran at once (history) |

`StartUpgrade`, `Upgrade` are `alembic upgrade head` before uvicorn starts;
`FindAccount`, `InsertUser`, `EmailTaken`, `CommitUser` are `get_user_by_email` and
`register_user`, for the bootstrap admin, the seed's accounts and registrations;
`InsertBadges` to `SeedContent` the stages of `seed`, each with the commit that ends
it; `SeeRoles`, `DeleteRoles`, `ReplaceRoles` are `assign_roles` and `set_user_roles`.
A crash ends the container and the API's calls with it.

Assumed: the application role owns the functions and is no superuser (the role the
docker image makes is one, and would never be refused; the migrations are written for
one that is not); downgrades happen while nothing runs; there are calls only where a
single backend serves; the locks of a DELETE of several rows are taken at once. Which
names, courses and grades the seed picks does not matter to any property.

### Session and the code

| Variables | In the program |
|---|---|
| `token` | localStorage |
| `user loading restoring` | the state of `AuthProvider`, the GET /me that restores it |
| `path form` | the page, and the login its form has submitted |
| `logins asked` | logins in flight (POST, then GET /me), tokens carried by requests in flight |
| `server` | which tokens the server accepts |
| `loads early denied broken` | page loads, and what happened since the last one (history) |

`Goal` is what the effects of `RoleGuard`, `AdminGuard`, the login page and the start
page lead to, `Redirect` one such step; `LoadPage` mounts everything anew and keeps
localStorage only. `apiFetch` clears the token at any 401 (`AskDenied`, `MeFails`,
`RestoreFails`, `LoginFails`). Left out: pages within a contour, the history of the
browser, and other tabs that write the same localStorage.

## 3. What is checked

| Run | Question | Faults | Result |
|---|---|---|---|
| `job_outage` | Do rows, messages and workers stay consistent, and does the pipeline implement `JobLifecycle`? | requests die, XADD reply lost, Redis errors, lost replies and loss of data, crash, SIGTERM | holds |
| `job_liveness` | Does an accepted job end, and cleanly, when messages are doubled? | requests die, lost reply, resent XADD, lost reply of UPDATE | holds |
| `job_shutdown` | Is delivery at-least-once, as documented? | SIGTERM | violated |
| `polling_page` | Does polling stay under the hook's control and end, and does who waits see the verdict? | answers in any order, failing requests, leaving the page | holds |
| `polling_slow` | Does polling go on to the verdict when polls overlap, as documented? | two polls in flight | violated |
| `import_jobs` | What do imports of overlapping datasets leave behind? | lost connections, orphan batches, deadlocks, database errors, bad files | holds |
| `anonymizer_runs` | Do overlapping runs agree on tokens, and reports with files? | any call fails, crash | holds |
| `learning` | What do transfers, enrollments and reads at once do to enrollments and answers? | lost connections, deadlocks, violated keys | holds |
| `privacy` | Is the consent sync idempotent, and are answers of several statements sound? | syncs at once, lost connections, days passing | holds |
| `deployment` | Does any history of migrations, starts, seeds and role changes leave a whole database? | crashes anywhere, failing seeds, races of two starts, downgrades | holds |
| `session_tab` | Do token and user agree, and do guards come to rest? | tokens expire, any request fails, late answers, reloads | holds |
| `session_expired` | Does a 401 lead to the login form, as documented? | a token expires | violated |

### The properties

`JobPipeline`:

* `MessageHasRow`: a message in the stream always has a committed row, so the
  worker's "job not found" cannot happen.
* `DeliveriesConsistent`: the group's position, its pending entries and what the
  workers hold line up, and no message is in two hands.
* `PassedJobHasVerdict`: a message the group has passed and no longer keeps
  pending has its verdict: neither XACK nor the way the group is created, by
  whoever comes first, drops a job.
* `RowsConsistent`: a job has one message; until it is read only the request knows
  the row; then one worker owns it and the row mirrors its progress; `result` goes
  with done and `error` with failed.
* `ImplementsLifecycle`: the refinement of `JobLifecycle`.
* `DoneIsClean`: even if attempts overlap, a row that reads done has its result,
  100 % and no error of another attempt.
* `AcceptedJobFinishes`: a job answered with 201 gets a verdict and keeps it.

`JobPolling`:

* `PollingTracked`: the browser runs the interval the ref knows and no other, and
  while answers are prompt a job shown without a verdict is being polled, whatever
  polls and POSTs fail.
* `VerdictShownIsFinal`: a verdict on the page is the one in that job's row,
  however old the answer that brought it.
* `PollingEnds`: also when the page was left during a POST and `start` then set an
  interval after the clean-up.
* `VerdictGetsShown`: while answers are prompt, who stays on the page sees the verdict.

`ImportPipeline`:

* `EachRowCountedOnce`: the sum of the "inserted" counts of all jobs never exceeds
  the rows there, and equals the people there while no job has failed.
* `OwnRowsPresent`: a row skipped as a duplicate is really there: a job that has
  loaded an entity finds each of its valid rows, whatever others roll back.
* `LinksAccounted`: a finished job has written each link or listed it with a reason,
  and one whose ends its own files hold is missing only where the report blames the
  database or is full. A report that is full says so, lists only rows before the
  missing ones, and its count of failures covers what it lists and what it does not.
* `ImportsEnd`: though imports wait for each other, all of them end.

`Anonymizer`:

* `OneTokenForever`: any token ever put into an output is the one the map keeps, so
  repeated runs agree and outputs can be restored.
* `SelfCheckPasses`: no run finds its own token missing or restored to another value.
* `OutputComplete`: a file has a token in each filled cell, or none.
* `AnonymityReported`: the reported k is that of the file's own records, compliant
  exactly if each has enough companions, and not lowered by generalization.

`Learning`:

* `EnrollmentsKept` ("preserving progress"): no step takes an enrollment away or
  changes its student, its progress or its course.
* `TransferDelivers`: after a transfer that succeeded each listed student is in the
  target, or where another transfer of the same student took it; the answer names
  each student nobody else was moving.
* `FreshOnlyWhenNew`: a transfer enrolls afresh only who had no enrollment in the
  course when it came: transfers after each other move and never double.
* `AnswersAddUp`: the directions of the analytics account for all of the totals, and
  no course drops out of a dashboard, a registry or a timetable because its student
  is being moved at that moment.
* `RequestsEnd`: though transfers wait for each other, every request is answered.

`Privacy`:

* `ConsentsCover`: a sync that answered left nobody it found without a consent and
  reports its own rows; two consents of one subject come only from overlapping syncs.
* `AnswersTruthful`: no KPI figure is negative or beyond what there was; an update is
  answered with its own status or that of one that overlapped or followed it; a card
  keeps what was there; a request is overdue exactly while it is open and late.

`Deployment`:

* `TypeOK` says that a revision has the schema of a fresh installation, however it
  was reached, and that a backend serves only where the ORM's models fit.
* `PiiReadable`: no migration is refused, up or down, and each stored name and
  contact can be decrypted, by functions the application role may call.
* `StartLeavesAll`: a serving backend has its admin; a seed that ran through leaves
  its accounts, student, badges and catalogue, however many stopped half-way; only
  overlapping seeds leave two of anything. (A person who registers under a demo
  email before the first seed keeps the roles they asked for; the seed takes the
  account as it is. Nobody can register under the admin's, because only a backend
  that serves answers.) What a seed left is there until a downgrade.
* `RolesReplaced`: of role changes at once no role a finished one saw survives it, and
  one finished change has all it asked for, until a downgrade; an account nobody
  changed has the role of the start or seed that made it, or exactly what its
  registration asked for, which may be nothing; nobody registers as staff.
* `ServesInTheEnd`: crashes, lost races and downgrades past, every backend serves.

`Session`:

* `SessionAgrees`: unless a login was submitted over another session, the user shown
  owns the stored token or a 401 took it, and without a user no token is kept but for
  a login on its way or broken off.
* `ComesToRest`: wherever it was opened, the tab settles at the login form or in a
  contour that lets its user stay: guards and homes never send anyone round in circles.

The other modules have a `TypeOK` besides.

### The violations

Three runs find a disagreement between a document or comment and the code:

1. `AtLeastOnce` (`job_shutdown`): the worker reads only new entries. After one
   SIGTERM in the middle of a job its message stays in the pending list, though the
   worker runs again; a comment at `consumer.go:89` and `worker/README.md:8` promise
   at-least-once delivery. A crash or a lost reply does the same.
2. `PollingContinues` (`polling_slow`): with two polls in flight an answer older than
   the verdict may arrive after it. The page then goes back to pending while nothing
   polls, though the comment at `useJobPolling.ts:10` promises polling until a
   terminal state. A user who starts the next job while a poll of the last is in
   flight meets the same.
3. `DeniedGoesToLogin` (`session_expired`): a 401 clears the token and not the user
   the guards look at, though the comment at `apiClient.ts:36` says that the guard
   redirects to the login form. The next page load does.

What the properties had to except shows more, met while modelling:

* With failing UPDATEs `processMessage` acknowledges a job whose `MarkFailed` failed;
  `worker/README.md:9-10` describes the status first and XACK then. With lost
  UPDATE replies or doubled messages a finished job may turn failed.
* Two imports that list the same people in opposite orders wait for each other;
  PostgreSQL aborts one and its job fails, though the comment at `importer.go:33-36`
  limits errors to files, database and context.
* A student who is in two groups of one course (an enrollment of their own puts them
  there) makes a transfer into one of them fail on the unique key when the row of the
  other was read last, though the docstring at `learning_service.py:264-270` leaves
  "a student already in the target group" untouched. Two transfers at once
  of a student new to the course can enroll them in two of its groups.
* Overlapping consent syncs doubles consents; the granted and revoked counts of the
  KPI come from different snapshots than the total.
* Overlapping seeds leave two catalogues. A course made by staff before the seed makes
  it skip the content for good; after a downgrade below d4e5f6a7b8c9 courses have no
  modules, and no seed brings them back.
* After its downgrade revision b2c3d4e5f6a7 leaves an owner whose own EXECUTE is gone,
  though lines 12-13 of its docstring say the owner keeps it implicitly; the grant to
  PUBLIC beside it is what the next upgrade lives on.
* A login submitted while a session is being restored may lose its token to the
  restoring request's 401, or show the old user. A registration with an empty list of
  roles is accepted; such a user ends at the login form.

### Bounds

* `JobPipeline`: two jobs, one of each type, and two workers are the smallest
  instance with a race of two messages, of two workers and of two requests creating
  the group; a message is doubled at most once per job, so no counter needs a bound
  and every run is exhaustive. Workers are interchangeable and a symmetry set in the
  run that checks safety only (`job_outage`). A doubled message of `job_liveness` is
  two attempts on one row by two workers; lost replies of UPDATEs meet them at every
  step. `DoneIsClean` is proved for all faults.
* `JobPolling`: two jobs and two polls in flight; a third slot adds no order between
  an old answer and a new one that two do not show. Prompt answers leave one
  poll in flight, slow ones two: one run considers both.
* `ImportPipeline`: three jobs over three ids in batches of two (500 in the code), two
  listed errors per report (100 in the code; the theorems hold for any number).
  Two jobs list the same people in opposite orders, with a duplicate inside a file,
  an invalid row, a row only PostgreSQL refuses, a link to a refused student; the
  third has no guardians and a broken links file. Of the four links of the first two
  always and all in the worst case fail, so its report is just full or overflows. A
  deadlock, a skip of an id that is still uncommitted and a partial last batch all need
  no more.
* `Anonymizer`: three students, two of them born in one band on two dates and one
  without a date or an email, and a guardian; two pseudonymize runs and one
  anonymize run per dataset, threshold 2 (5 in the code). Exact dates give k = 1,
  bands 1 or 2, and every subset of the people is loaded by some run.
* `Learning`: two students, two groups of a course and one of another, a course
  without groups; nine sets of requests considered together: two transfers in opposite
  orders (a circle), repeated in another order, with a student twice or unknown, with a
  self-enrollment between, and each read beside two writers. A circle, a lost update
  and a doubled row need two writers over two students, a skewed read one writer.
* `Privacy`: two subjects, one imported meanwhile; two syncs, the KPI with both, one
  request with two updates and each reader. `DueDays` is 1 (10 in the code) and
  `LastDay` 3: the deadline passes before, between and after the updates.
* `Deployment`: eight scenarios: two backends that start and seed at once; a start, a
  seed by hand and a new course; upgrades and two downgrades with an import, from an
  empty database and from one with old rows in the clear; role changes of one account
  two at a time, and one of an unknown account; registrations of one email; a registration
  without roles, the account's role change and downgrades. One crash
  with two backends, otherwise two: one of a stage and one of its repetition.
* `Session`: four logins by users of each contour and one without roles, one reload.
  A late answer needs two logins, a restored session one reload.

`CHECK_DEADLOCK FALSE` stands where the system really stops: all jobs have ended, the
page is closed, the runs are done, requests are answered, every backend serves, the
tokens are used up. `JobPipeline` has workers that read for ever.

### Fairness

* `JobPipeline`: weak fairness of each request's next step (asyncio runs every
  task) and of each worker's next step (the process runs, and docker restarts it,
  `restart: unless-stopped`). `AtLeastOnce` assumes besides that the workers
  eventually stay up.
* `JobPolling`: weak fairness of the POST's end, of the server's work (what
  `AcceptedJobFinishes` shows) and of each interval; strong fairness of answering and
  arriving per slot, which says that poll errors are transient: among endlessly many
  polls one gets through.
* `ImportPipeline`: weak fairness of each job's next step; PostgreSQL's deadlock
  detector is one of them.

* `Learning`: weak fairness of "some request goes on": asyncio runs every handler and
  PostgreSQL answers. `Deployment`: the same of "some start, seed or call goes on";
  docker restarts containers (`restart: unless-stopped`).
* `Session`: React runs effects (`Redirect`), and the fetch that restores the session
  ends one way or the other. Logins and other requests may hang for ever.

Failures, SIGTERM, submissions and what the user does are never forced to happen.

## 4. What is proved

The theorems hold for every value of the constants: any jobs, workers, polls,
datasets, people, batch sizes, students, groups, requests, calls, containers, seeds,
numbers of crashes and downgrades, tokens and users.

| Module | Theorem | Statement | Assumes |
|---|---|---|---|
| `JobPipelineProofs` | `TypeCorrect` | `Spec => []TypeOK` | the ASSUMEs on `JobType` and `Faults` |
| | `MessagesHaveRows` | `Spec => []MessageHasRow` | same |
| | `DeliveriesStayConsistent` | `Spec => []DeliveriesConsistent` | same |
| | `DoneStaysClean` | `Spec => []DoneIsClean` | same |
| | `RowsStayConsistent` | `Spec => []RowsConsistent` | `Reliable` |
| | `PipelineImplementsLifecycle` | `Spec => ImplementsLifecycle` | `Reliable` |
| | `NothingDropped` | `Spec => []PassedJobHasVerdict` | `Reliable`, `DbAnswers` |
| `JobPollingProofs` | `PollingTypeCorrect` | `Spec => []TypeOK` | None is no job |
| | `PollingStaysTracked` | `Spec => []PollingTracked` | same |
| | `VerdictShownIsTrue` | `Spec => []VerdictShownIsFinal` | same |
| `ImportPipelineProofs` | `TypeCorrect` | `Spec => []TypeOK` | finitely many jobs and ids, well-formed files, `Chunk` > 0 |
| | `SkippedRowsArePresent` | `Spec => []OwnRowsPresent` | same |
| | `NoLinkIsLost` | `Spec => []LinksAccounted` | same, any `MaxErrors` |
| | `NoRowIsCountedTwice` | `Spec => []EachRowCountedOnce` | same |
| `AnonymizerProofs` | `GeneralizationNeverLowersK` | k of the bands >= k of the dates | finitely many people |
| | `TypeCorrect` | `Spec => []TypeOK` | the module's ASSUMEs |
| | `TokensAreStable` | `Spec => []OneTokenForever` | same |
| | `OutputsAreComplete` | `Spec => []OutputComplete` | same |
| | `SelfCheckNeverFails` | `Spec => []SelfCheckPasses` | same |
| | `ReportsAreTrue` | `Spec => []AnonymityReported` | same |
| `LearningProofs` | `TablesTyped` | `Spec => []TypeOK` | the module's ASSUMEs |
| | `EnrollmentsStay` | `Spec => EnrollmentsKept` | same |
| | `NobodyEnrolledTwice` | `Spec => []FreshOnlyWhenNew` | same |
| | `TransfersDeliver` | `Spec => []TransferDelivers` | same |
| | `ReadsAddUp` | `Spec => []AnswersAddUp` | same; requests, students, courses and enrollments are finitely many |
| `PrivacyProofs` | `RegistersTyped` | `Spec => []TypeOK` | the module's ASSUMEs |
| | `SyncCoversEveryone` | `Spec => []ConsentsCover` | same |
| | `AnswersAreTruthful` | `Spec => []AnswersTruthful` | same; calls and subjects are finitely many |
| `DeploymentProofs` | `DatabaseIsAtItsRevision` | `Spec => []TypeOK` | the module's ASSUMEs |
| | `PersonalDataStaysReadable` | `Spec => []PiiReadable` | same |
| | `StartsLeaveAll` | `Spec => []StartLeavesAll` | same |
| | `RoleChangesReplace` | `Spec => []RolesReplaced` | same |
| `SessionProofs` | `TypeCorrect` | `Spec => []TypeOK` | each token has an owner, None is neither |
| | `SessionStaysConsistent` | `Spec => []SessionAgrees` | same |
| | `RedirectsOnce` | `Spec => [][Redirect => Goal' = path']_vars` | same |

`Reliable` says that neither `db_lost` nor `publish_resent` is among the faults:
no UPDATE is applied and then reported as failed, and no message is doubled. All
other faults are allowed. The assumption is needed: with a doubled message or a
lost UPDATE reply, `MarkFailed` overwrites a finished job. `DbAnswers` says that no
UPDATE fails without a shutdown, which is needed because XACK follows a failed one.

### The arguments

*JobPipeline.* `MessageHasRow` is inductive together with "a request past its
commit has a row". `OneWorkerPerMessage` is not inductive alone: a read returns
`cursor + 1`, so one has to know that no worker holds more than `cursor`, which
is `GroupConsistent`. Finality of verdicts cannot be seen from the UPDATEs, which
have no guard; it follows from ownership. `RowHasOneOwner` says that a job has one
message, that the row of an unread message is untouched, and that the row of the
message in a worker's hand has the status and at most the progress this worker
gave it. With `OneWorkerPerMessage` no other step touches that row, so each UPDATE
finds the status that `JobLifecycle` demands. `PassedJobHasVerdict` needs
`PassedInv`: a job a worker is about to acknowledge has its verdict, or the worker's
context is cancelled and XACK will fail as well.

*JobPolling.* `VerdictShownIsFinal` needs that answers under way are true
(`AnswersAreTrue`): a verdict in a poll is the row's verdict. Both survive any order
of arrival because the server never takes a verdict back (`VerdictsStay`), which is
what `PipelineImplementsLifecycle` gives. `PollingTracked` rests on `PromptInv`: while
answers are prompt one poll at most is in flight, it asks for the job shown, and
nothing is polled during a POST.

*ImportPipeline.* Neither safety property is inductive, as both speak of finished
files. The invariant says what is behind the cursor: each valid row already passed is
in the table or in the job's open batch (`PeopleBehind`), the rows of earlier files
are in the table (`PeopleLoaded`), each link passed is accounted for, or came when
the report was full (`LinksBehind`: the links that are neither, `Unlisted`, lie behind
all that is listed, and the count of failures covers both). The next bad link
either finds room, and then there is no such link yet, or is one more
(`OneMoreError`, from `Listing`: the list never exceeds `MaxErrors` or the count, and
is full once truncated). `ON CONFLICT DO NOTHING` keeps it because it skips only committed ids
or the batch's own; every step of another job only adds rows (`StepIsLocal`).

*Anonymizer.* `OneTokenForever` is inductive once the map is known to keep what it
has (`UpsertKeepsTokens`). The self-check needs besides that the map names, for each
cell, a token drawn for that cell, and what a run has put out so far (`RunState`).
k-anonymity is a statement about sets: a coarser key makes each class grow
(`CoarserKeyNeverLowersK`), the minimum exists because < is well-founded on the
naturals, and the bands are coarser than the dates.

*Learning.* Requests write what they read before others committed, so the properties
need what stays true of old notes. `Matched`: an enrollment a transfer remembers is
still there and still in its course, because nothing ever leaves its course.
`WritesKeep`: an open transaction's row either keeps the committed one's student,
progress and course or is new and its own; so a commit keeps every row
(`CommitRows`). For `FreshOnlyWhenNew`, whom the first read did not find was not in
the course when the request came (`Newcomers`), and which of those early enrollments
are in the course no later step changes (`PastKept`). `TransferDelivers` rests on
`DeliverInv`: each student a transfer lists is still to do, written, or at home, which
is a row in one of the groups the transfers of that student in that course lead to.
Whoever is at home stays there (`HomeStays`), because only such a transfer moves the row
on, and it moves it to its own target.

*Privacy.* `ConsentInv`: consents are never taken away (`PastKept`), and the rows of an
open sync are for everyone it found without a consent and for nobody who had one when
it came (`InsertsComplete`), so a second consent of a subject means that neither sync
saw the other's rows. The dates are well typed because a call keeps what it computed
until its statement (`Computed`). `AnswersTruthful` needs `TruthInv`, which says what
the notes of an unfinished call have to do with the registers now: `KpiTrue` bounds
each figure by the present number of consents, which only grows, so a later statement
cannot fall below an earlier one; `UpdateTrue` says that the request's status is one
that an update not over when the call came has given it, because only updates write
it; `CardTrue` that a list read earlier has all that was there at the call's arrival.

*Deployment.* The migrations come first, without a state. One lemma for each kind of
operation says when PostgreSQL accepts it and what it leaves; from them, for each
revision, that its `upgrade` and its `downgrade` lead from what a database of one
revision has (`Level`: tables, keys, columns, functions, rights, and people that can be
read with its key) to what the other has, operation by operation along the sequence;
and by induction over the revisions that a run from any revision to any other does
(`UpgradeWorks`, `DowngradeWorks`), keeps the rows of tables that stay and brings the
others empty.

On that rest four invariants. `Typed` says where actors are and what they have open.
`Levels` says that the database is at a revision, refused nothing, and is at the last
one wherever somebody works behind a migration: a downgrade waits until all have
stopped. With both, the schema and the keys are what `TypeOK` and `PiiReadable` say.
`Accounts` is for the roles: each row was given by a start, a seed, a registration as
child or parent, or a finished role change; an account nobody changed is `AsMade`,
because a flushed email is nobody else's and not there yet (`Flushed`); and what a role
change saw is never inserted again, so what is left of it when it commits is what it
deletes (`Replacements`). `Seeded` is for the seeds: what each stage has behind it
(`KnownBy`, `Filled`), what a row of a seed implies about others in whatever order
seeds stopped (`Whole`), and that a seed that meets no other finds nothing it is about
to make (`Alone`). `AdminFirst` says that a registration comes after the admin.

*Session.* `OneSession`: unless a login was submitted over a session there is one login
at most, only where nobody is signed in, the token it stored is still there unless a
late 401 took it, and while a session is being restored nothing but its own request
touches the token. `RedirectsOnce` is the safety behind `ComesToRest`: where a guard
sends a user is a page that lets the user stay.

*Sums and runs.* `SumFunction` of the library and the runs of operations of `Schema` are
recursive. Their functions are shown to exist up to each size and then to obey their
recursion. The induction behind it, over naturals, cannot be had from the library's
theorems, whose predicate parameter no prover here can instantiate; it is done once
more for sets: a number outside a set that has 0 and all successors would have to be a
smallest one, and < is well-founded (`SetInduction`). `SumChanges`, that a sum changes
by what one summand changes, then carries `EachRowCountedOnce` (with `Batches`: what an
open batch inserted is in no table and in no other batch, so a commit adds to the table
exactly what its job counts), and `PartsAddUp`, that a sum over parts is the size of
the whole, `AnswersAddUp`: there it remains to know that a second statement of an
answer finds at least what the first found (`TotalsRead`), since no row ever leaves its
course. The lemmas on sums stand in both modules.

Every invariant and every action property that a passing run checks is proved.
Model-checked only are the liveness properties `AcceptedJobFinishes`, `PollingEnds`,
`VerdictGetsShown`, `ImportsEnd`, `RequestsEnd`, `ServesInTheEnd` and `ComesToRest`,
since fairness and ENABLED are beyond the prover. What the proofs do not replace: they
hold for the operations of the migrations as `Schema` lists them, and for the sets of
actors together that `Scenarios` admits.

## 5. Not modelled

* The upload of a dataset (`data.py`): one handler writes the files of one request into
  a directory of its own, which nobody reads before it has answered. What the importer
  finds there is `Files` of `ImportPipeline`.
* Passwords, tokens and their expiry beside "accepted" and "expired", encryption:
  cryptography and a clock.
* Modules, lessons, badges and statistics of the portal: nothing changes them once the
  seed has written them, and each endpoint only reads them.
* Pages and widgets beside the job pages and the session: each loads once and keeps no
  state that another part reads.
* The synthetic data generator: a pure program used by hand.
* The worker's five connection attempts at start: the process starts or ends.
* Several tabs of one browser, which share the token and not the user.
* A crash of the PostgreSQL server itself, and two attempts of one anonymize job that
  write the same file (only a doubled message makes them).
