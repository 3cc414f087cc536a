--------------------------- MODULE ImportPipeline ---------------------------
(***************************************************************************)
(* Import jobs of overlapping datasets: each loads students, guardians and *)
(* their links into PostgreSQL.  People go in batches; pgx sends a batch   *)
(* as one implicit transaction, which the server runs row by row, and an   *)
(* INSERT of an id another open transaction holds waits for its end.       *)
(* Links go one by one.                                                    *)
(*                                                                         *)
(* A job that loses its connection (crash, SIGTERM, network) leaves its    *)
(* batch behind: the server completes it or rolls it back.                 *)
(***************************************************************************)
EXTENDS Integers, Sequences, FiniteSets, Functions

CONSTANTS
    Imports,     \* the import jobs
    Ids,         \* ids of people
    Files,       \* Files[i][e]: the file of entity e in the dataset of job i
    Chunk,       \* insertChunkSize
    MaxErrors,   \* maxErrorsPerEntity
    Faults       \* which failures happen: see below

People   == {"students", "guardians"}
Entities == People \cup {"links"}

\* valid, refused by validate*, or accepted there and refused by PostgreSQL
\* (a name that is no UTF-8)
RowKinds == {"valid", "invalid", "refused"}

Reasons == {"invalid", "foreign_key", "database"}
Reports == [failed : Nat, errors : SUBSET (Nat \X Reasons), truncated : BOOLEAN]

ASSUME ImportsAssumption == IsFiniteSet(Imports)
ASSUME IdsAssumption == IsFiniteSet(Ids)    \* UUIDs
ASSUME ChunkAssumption == Chunk \in Nat \ {0}
ASSUME MaxErrorsAssumption == MaxErrors \in Nat
ASSUME FaultsAssumption == Faults \subseteq {"cut", "db_error"}

Keys(e)  == IF e = "links" THEN Ids \X Ids ELSE Ids
FileOf(e) == [found : BOOLEAN, readable : BOOLEAN,
             rows : Seq([id : Keys(e), kind : RowKinds])]

ASSUME FilesAssumption ==
    \A i \in Imports, e \in Entities : Files[i][e] \in FileOf(e)

VARIABLES
    outcome,     \* of each job: new, running, done, failed
    file,        \* the entity being loaded
    next,        \* its next row
    size, open,  \* the open batch: rows executed so far, ids it inserted
    table,       \* the committed rows of each entity
    inserted,    \* inserted[i][e]: EntityReport.Inserted
    report       \* EntityReport of the links: Failed, Errors as <<row, reason>>,
                 \* ErrorsTruncated

job  == <<outcome, file, next>>
vars == <<job, size, open, table, inserted, report>>

TypeOK ==
    /\ outcome \in [Imports -> {"new", "running", "done", "failed"}]
    /\ file \in [Imports -> Entities]
    /\ next \in [Imports -> Nat \ {0}]
    /\ size \in [Imports -> 0..Chunk]
    /\ open \in [Imports -> SUBSET Ids]
    /\ DOMAIN table = Entities
    /\ \A e \in Entities : table[e] \subseteq Keys(e)
    /\ inserted \in [Imports -> [Entities -> Nat]]
    /\ report \in [Imports -> Reports]

Init ==
    /\ outcome = [i \in Imports |-> "new"]
    /\ file = [i \in Imports |-> "students"]
    /\ next = [i \in Imports |-> 1]
    /\ size = [i \in Imports |-> 0]
    /\ open = [i \in Imports |-> {}]
    /\ table = [e \in Entities |-> {}]
    /\ inserted = [i \in Imports |-> [e \in Entities |-> 0]]
    /\ report = [i \in Imports |-> [failed |-> 0, errors |-> {}, truncated |-> FALSE]]

Rows(i)    == Files[i][file[i]].rows
Row(i)     == Rows(i)[next[i]]
HasRow(i)  == next[i] <= Len(Rows(i))
Running(i) == outcome[i] = "running"

\* A batch of the job is being executed, with or without the job.
Executing(i) ==
    /\ file[i] \in People
    /\ Running(i) \/ (outcome[i] = "failed" /\ size[i] > 0)

Fail(i)    == outcome' = [outcome EXCEPT ![i] = "failed"]
Advance(i) == next' = [next EXCEPT ![i] = @ + 1]
NoBatch(i) == size' = [size EXCEPT ![i] = 0] /\ open' = [open EXCEPT ![i] = {}]

\* Variant (bug): a report that is full stops counting.
AddErrorWhileRoom(i, reason) ==
    report' = [report EXCEPT ![i] =
        IF Cardinality(@.errors) < MaxErrors
        THEN [failed |-> @.failed + 1, errors |-> @.errors \cup {<<next[i], reason>>},
              truncated |-> @.truncated]
        ELSE [failed |-> @.failed, errors |-> @.errors, truncated |-> TRUE]]

\* addError: each failed row is counted, the first MaxErrors of them are listed.
AddError(i, reason) ==
    report' = [report EXCEPT ![i] =
        IF Cardinality(@.errors) < MaxErrors
        THEN [failed |-> @.failed + 1, errors |-> @.errors \cup {<<next[i], reason>>},
              truncated |-> @.truncated]
        ELSE [failed |-> @.failed + 1, errors |-> @.errors, truncated |-> TRUE]]

----------------------------------------------------------------------------
(* The files of the dataset *)

Begin(i) ==
    /\ outcome[i] = "new"
    /\ outcome' = [outcome EXCEPT ![i] =
                      IF Files[i]["students"].found THEN "running" ELSE "failed"]
    /\ UNCHANGED <<file, next, size, open, table, inserted, report>>

\* readRecords: no rows are touched before the whole file is parsed.
Unreadable(i) ==
    /\ Running(i)
    /\ next[i] = 1 /\ size[i] = 0
    /\ Files[i][file[i]].found /\ ~Files[i][file[i]].readable
    /\ Fail(i)
    /\ UNCHANGED <<file, next, size, open, table, inserted, report>>

\* There is something to read: an optional file that is absent has no rows.
Loading(i) == Files[i][file[i]].found /\ Files[i][file[i]].readable

FinishFile(i) ==
    /\ Running(i) /\ size[i] = 0
    /\ Files[i][file[i]].found => Files[i][file[i]].readable /\ ~HasRow(i)
    /\ next' = [next EXCEPT ![i] = 1]
    /\ \/ file[i] = "students" /\ file' = [file EXCEPT ![i] = "guardians"] /\ UNCHANGED outcome
       \/ file[i] = "guardians" /\ file' = [file EXCEPT ![i] = "links"] /\ UNCHANGED outcome
       \/ file[i] = "links" /\ outcome' = [outcome EXCEPT ![i] = "done"] /\ UNCHANGED file
    /\ UNCHANGED <<size, open, table, inserted, report>>

----------------------------------------------------------------------------
(* Students and guardians: batches *)

\* An INSERT waits for an open transaction that inserted the same id.
Holds(k, e, id) == file[k] = e /\ id \in open[k]
WaitsFor(i, k)  == k # i /\ Executing(i) /\ HasRow(i) /\ Holds(k, file[i], Row(i).id)

\* validateStudent, validateGuardian, validateLink refuse the row.
SkipInvalid(i) ==
    /\ Executing(i) \/ (Running(i) /\ file[i] = "links")
    /\ Loading(i) /\ HasRow(i) /\ size[i] < Chunk
    /\ Row(i).kind = "invalid"
    /\ Advance(i)
    /\ IF file[i] = "links" THEN AddError(i, "invalid") ELSE UNCHANGED report
    /\ UNCHANGED <<outcome, file, size, open, table, inserted>>

\* Variant (bug): an id in another open transaction counts as a duplicate.
InsertWithoutWaiting(i) ==
    /\ Executing(i) /\ Loading(i) /\ HasRow(i) /\ size[i] < Chunk
    /\ Row(i).kind = "valid"
    /\ open' = [open EXCEPT ![i] =
                  IF Row(i).id \in table[file[i]] \/ \E k \in Imports : WaitsFor(i, k)
                  THEN @ ELSE @ \cup {Row(i).id}]
    /\ size' = [size EXCEPT ![i] = @ + 1]
    /\ Advance(i)
    /\ UNCHANGED <<outcome, file, table, inserted, report>>

\* Variant (bug): the batches are not cut.
InsertForgetsChunk(i) ==
    /\ Executing(i) /\ Loading(i) /\ HasRow(i)
    /\ Row(i).kind = "valid"
    /\ ~ \E k \in Imports : WaitsFor(i, k)
    /\ open' = [open EXCEPT ![i] =
                  IF Row(i).id \in table[file[i]] THEN @ ELSE @ \cup {Row(i).id}]
    /\ size' = [size EXCEPT ![i] = @ + 1]
    /\ Advance(i)
    /\ UNCHANGED <<outcome, file, table, inserted, report>>

\* INSERT ... ON CONFLICT (id) DO NOTHING
InsertRow(i) ==
    /\ Executing(i) /\ Loading(i) /\ HasRow(i) /\ size[i] < Chunk
    /\ Row(i).kind = "valid"
    /\ ~ \E k \in Imports : WaitsFor(i, k)
    /\ open' = [open EXCEPT ![i] =
                  IF Row(i).id \in table[file[i]] THEN @ ELSE @ \cup {Row(i).id}]
    /\ size' = [size EXCEPT ![i] = @ + 1]
    /\ Advance(i)
    /\ UNCHANGED <<outcome, file, table, inserted, report>>

\* Variant (bug): the rows sent are counted, not the rows affected.
CommitCountsStatements(i) ==
    /\ Executing(i) /\ size[i] > 0
    /\ size[i] = Chunk \/ ~HasRow(i)
    /\ table' = [table EXCEPT ![file[i]] = @ \cup open[i]]
    /\ inserted' = [inserted EXCEPT ![i][file[i]] = IF Running(i) THEN @ + size[i] ELSE @]
    /\ NoBatch(i)
    /\ UNCHANGED <<job, report>>

\* Variant (bug): a last batch that is not full is never sent.
CommitOnlyFull(i) ==
    /\ Executing(i) /\ size[i] = Chunk
    /\ table' = [table EXCEPT ![file[i]] = @ \cup open[i]]
    /\ inserted' = [inserted EXCEPT ![i][file[i]] =
                      IF Running(i) THEN @ + Cardinality(open[i]) ELSE @]
    /\ NoBatch(i)
    /\ UNCHANGED <<job, report>>

\* The end of the batch: its transaction commits and execBatch has its count.
CommitBatch(i) ==
    /\ Executing(i) /\ size[i] > 0
    /\ size[i] = Chunk \/ ~HasRow(i)
    /\ table' = [table EXCEPT ![file[i]] = @ \cup open[i]]
    /\ inserted' = [inserted EXCEPT ![i][file[i]] =
                      IF Running(i) THEN @ + Cardinality(open[i]) ELSE @]
    /\ NoBatch(i)
    /\ UNCHANGED <<job, report>>

\* The transaction is rolled back and the import returns its error.
Abort(i) ==
    /\ NoBatch(i)
    /\ Fail(i)
    /\ UNCHANGED <<file, next, table, inserted, report>>

RowRefused(i) ==
    /\ Executing(i) /\ Loading(i) /\ HasRow(i) /\ size[i] < Chunk
    /\ Row(i).kind = "refused"
    /\ Abort(i)

\* PostgreSQL ends a circle of waiting transactions by aborting a member.
DeadlockVictim(i) ==
    /\ \E circle \in SUBSET Imports :
        /\ i \in circle
        /\ \A a \in circle : /\ \E b \in circle : WaitsFor(a, b)
                             /\ \E b \in circle : WaitsFor(b, a)
    /\ Abort(i)

BatchFails(i) ==
    /\ "db_error" \in Faults
    /\ Running(i) /\ file[i] \in People /\ Loading(i)
    /\ HasRow(i) \/ size[i] > 0
    /\ Abort(i)

----------------------------------------------------------------------------
(* Links: one by one *)

AtLink(i) == Running(i) /\ file[i] = "links" /\ Loading(i) /\ HasRow(i)

ParentsPresent(id) == id[1] \in table["students"] /\ id[2] \in table["guardians"]

InsertLink(i) ==
    /\ AtLink(i)
    /\ Row(i).kind = "valid" /\ ParentsPresent(Row(i).id)
    /\ table' = [table EXCEPT !["links"] = @ \cup {Row(i).id}]
    /\ inserted' = [inserted EXCEPT ![i]["links"] =
                      IF Row(i).id \in table["links"] THEN @ ELSE @ + 1]
    /\ Advance(i)
    /\ UNCHANGED <<outcome, file, size, open, report>>

\* Variant (bug): a row that breaks a foreign key is counted as skipped.
LinkRefusedSilently(i) ==
    /\ AtLink(i)
    /\ Row(i).kind = "valid" /\ ~ParentsPresent(Row(i).id)
    /\ Advance(i)
    /\ UNCHANGED <<outcome, file, size, open, table, inserted, report>>

\* A foreign key is violated: the row is reported, the import goes on.
LinkRefused(i) ==
    /\ AtLink(i)
    /\ Row(i).kind = "valid" /\ ~ParentsPresent(Row(i).id)
    /\ AddError(i, "foreign_key")
    /\ Advance(i)
    /\ UNCHANGED <<outcome, file, size, open, table, inserted>>

\* Any other error of the database is reported alike; the INSERT may have been
\* applied.
LinkFails(i) ==
    /\ "db_error" \in Faults
    /\ AtLink(i)
    /\ Row(i).kind = "valid"
    /\ \/ UNCHANGED table
       \/ /\ ParentsPresent(Row(i).id)
          /\ table' = [table EXCEPT !["links"] = @ \cup {Row(i).id}]
    /\ AddError(i, "database")
    /\ Advance(i)
    /\ UNCHANGED <<outcome, file, size, open, inserted>>

----------------------------------------------------------------------------
(* The job ends between two answers of the database *)

Cut(i) ==
    /\ "cut" \in Faults
    /\ Running(i)
    /\ Fail(i)
    /\ UNCHANGED <<file, next, size, open, table, inserted, report>>

\* The server notices that nobody is there.
RollBack(i) ==
    /\ outcome[i] = "failed" /\ size[i] > 0
    /\ NoBatch(i)
    /\ UNCHANGED <<job, table, inserted, report>>

Step(i) ==
    \/ Begin(i) \/ Unreadable(i) \/ FinishFile(i) \/ SkipInvalid(i)
    \/ InsertRow(i) \/ CommitBatch(i) \/ RowRefused(i) \/ DeadlockVictim(i)
    \/ InsertLink(i) \/ LinkRefused(i) \/ RollBack(i)

Fault(i) == BatchFails(i) \/ LinkFails(i) \/ Cut(i)

Next == \E i \in Imports : Step(i) \/ Fault(i)

Spec == Init /\ [][Next]_vars

\* The worker and PostgreSQL go on, and an orphan batch ends one way or the
\* other; nothing forces a fault.
FairSpec == Spec /\ \A i \in Imports : WF_vars(Step(i))

----------------------------------------------------------------------------
(* Properties *)

\* The counts of newly written rows, over all jobs, never exceed the rows that
\* are there; for people they are exactly those rows while no job has failed.
EachRowCountedOnce ==
    \A e \in Entities :
        LET counted == SumFunction([i \in Imports |-> inserted[i][e]])
        IN  /\ counted <= Cardinality(table[e])
            /\ e \in People /\ (\A i \in Imports : outcome[i] # "failed")
                => counted = Cardinality(table[e])

\* The rows of job i's file of entity e are all behind it.
Loaded(i, e) ==
    \/ outcome[i] = "done"
    \/ Running(i) /\ file[i] = "links" /\ e \in People
    \/ Running(i) /\ file[i] = "guardians" /\ e = "students"

\* A row skipped as a duplicate is really there: whatever other jobs roll back,
\* a job that has loaded an entity finds each valid row of it in the table.
OwnRowsPresent ==
    \A i \in Imports, e \in People :
        Loaded(i, e) /\ Files[i][e].found =>
            \A k \in 1..Len(Files[i][e].rows) :
                Files[i][e].rows[k].kind = "valid" => Files[i][e].rows[k].id \in table[e]

ValidIds(i, e) ==
    {Files[i][e].rows[k].id : k \in {n \in 1..Len(Files[i][e].rows) :
                                        Files[i][e].rows[n].kind = "valid"}}

OwnParents(i, id) == id[1] \in ValidIds(i, "students") /\ id[2] \in ValidIds(i, "guardians")

Listed(i, k, reason) == <<k, reason>> \in report[i].errors

LinkAccounted(i, k) ==
    LET row == Files[i]["links"].rows[k]
    IN  \/ row.id \in table["links"]
        \/ Listed(i, k, "database")
        \/ Listed(i, k, "invalid") /\ row.kind = "invalid"
        \/ Listed(i, k, "foreign_key") /\ ~OwnParents(i, row.id)

\* Rows are missing from report r only where it was full: all it lists come before
\* them, and its count of failures covers them.
OnlyOverflow(unlisted, r) ==
    /\ unlisted # {} => r.truncated /\ Cardinality(r.errors) = MaxErrors
    /\ \A k \in unlisted : \A e \in r.errors : e[1] < k
    /\ Cardinality(unlisted) + Cardinality(r.errors) <= r.failed

\* A job that is done has written or reported each link: with its reason, where a
\* valid link whose student and guardian its own files hold is missing only if
\* the report blames the database, or, once the report is full, in its count.
LinksAccounted ==
    \A i \in Imports :
        outcome[i] = "done" /\ (\A e \in Entities : Files[i][e].found) =>
            OnlyOverflow({k \in 1..Len(Files[i]["links"].rows) : ~LinkAccounted(i, k)}, report[i])

\* Every import ends, though imports wait for each other.
ImportsEnd == <>(\A i \in Imports : outcome[i] \in {"done", "failed"})
============================================================================
