------------------------ MODULE ImportPipelineProofs ------------------------
(***************************************************************************)
(* Theorems about ImportPipeline, for any jobs, datasets, batch size and   *)
(* overlap.                                                                *)
(***************************************************************************)
EXTENDS ImportPipeline, FiniteSetTheorems, WellFoundedInduction, TLAPS

LEMMA FilesTyped ==
    ASSUME NEW i \in Imports, NEW e \in Entities
    PROVE  /\ Files[i][e].found \in BOOLEAN
           /\ Len(Files[i][e].rows) \in Nat
           /\ \A k \in 1..Len(Files[i][e].rows) :
                /\ Files[i][e].rows[k].id \in Keys(e)
                /\ Files[i][e].rows[k].kind \in RowKinds
<1> DEFINE R == [id : Keys(e), kind : RowKinds]
<1>1. Files[i][e] \in [found : BOOLEAN, readable : BOOLEAN, rows : Seq(R)]
  BY FilesAssumption DEF FileOf
<1>2. Files[i][e].rows \in Seq(R)
  <2> HIDE DEF R
  <2> QED
    BY <1>1
<1>3. /\ Len(Files[i][e].rows) \in Nat
      /\ \A k \in 1..Len(Files[i][e].rows) : Files[i][e].rows[k] \in R
  <2> HIDE DEF R
  <2> QED
    BY <1>2
<1> QED
  BY <1>1, <1>3

\* The row under the cursor, spelled out.
LEMMA RowTyped ==
    ASSUME TypeOK, NEW i \in Imports, HasRow(i)
    PROVE  /\ Row(i) = Files[i][file[i]].rows[next[i]]
           /\ next[i] \in 1..Len(Files[i][file[i]].rows)
           /\ Row(i).id \in Keys(file[i])
BY FilesTyped DEF TypeOK, HasRow, Row, Rows

LEMMA OpenFinite ==
    ASSUME TypeOK, NEW i \in Imports
    PROVE  Cardinality(open[i]) \in Nat
BY IdsAssumption, FS_Subset, FS_CardinalityType DEF TypeOK

\* What addError does to the report of its job, and to no other.
LEMMA ErrorAdded ==
    ASSUME TypeOK, NEW i \in Imports, NEW reason \in Reasons, AddError(i, reason)
    PROVE  /\ report' \in [Imports -> Reports]
           /\ \A j \in Imports \ {i} : report'[j] = report[j]
           /\ report'[i].failed = report[i].failed + 1
           /\ IF Cardinality(report[i].errors) < MaxErrors
              THEN /\ report'[i].errors = report[i].errors \cup {<<next[i], reason>>}
                   /\ report'[i].truncated = report[i].truncated
              ELSE report'[i].errors = report[i].errors /\ report'[i].truncated
<1>. DEFINE r    == report[i]
            room == Cardinality(r.errors) < MaxErrors
            s    == [failed |-> r.failed + 1, errors |-> r.errors \cup {<<next[i], reason>>},
                     truncated |-> r.truncated]
            t    == [failed |-> r.failed + 1, errors |-> r.errors, truncated |-> TRUE]
<1>1. report \in [Imports -> Reports] /\ next[i] \in Nat
  BY DEF TypeOK
<1>2. /\ r.failed \in Nat /\ r.errors \in SUBSET (Nat \X Reasons) /\ r.truncated \in BOOLEAN
  BY <1>1 DEF Reports
<1>3. s \in Reports /\ t \in Reports
  BY <1>1, <1>2 DEF Reports
<1>4. /\ s.failed = r.failed + 1 /\ t.failed = r.failed + 1
      /\ s.errors = r.errors \cup {<<next[i], reason>>} /\ s.truncated = r.truncated
      /\ t.errors = r.errors /\ t.truncated
  OBVIOUS
<1>5. report' = [report EXCEPT ![i] = IF room THEN s ELSE t]
  BY <1>1 DEF AddError
<1>. HIDE DEF s, t, room
<1>6. /\ report' \in [Imports -> Reports] /\ report'[i] = IF room THEN s ELSE t
      /\ \A j \in Imports \ {i} : report'[j] = report[j]
  BY <1>1, <1>3, <1>5
<1>7. CASE room
  BY <1>4, <1>6, <1>7 DEF room
<1>8. CASE ~room
  BY <1>4, <1>6, <1>8 DEF room
<1> QED
  BY <1>7, <1>8

----------------------------------------------------------------------------
(* Types *)

LEMMA InitType == Init => TypeOK
BY ChunkAssumption DEF Init, TypeOK, Entities, People, Keys, Reports

LEMMA AbortType ==
    ASSUME TypeOK, NEW i \in Imports, Abort(i)
    PROVE  TypeOK'
BY ChunkAssumption DEF TypeOK, Abort, NoBatch, Fail

LEMMA StepType ==
    ASSUME TypeOK, NEW i \in Imports, Step(i) \/ Fault(i)
    PROVE  TypeOK'
<1>1. CASE Begin(i)
  BY <1>1 DEF Begin, TypeOK
<1>2. CASE Unreadable(i)
  BY <1>2 DEF Unreadable, TypeOK, Fail
<1>3. CASE FinishFile(i)
  <2>1. /\ file' \in [Imports -> Entities]
        /\ outcome' \in [Imports -> {"new", "running", "done", "failed"}]
    BY <1>3 DEF FinishFile, TypeOK, Entities, People
  <2> QED
    BY <1>3, <2>1 DEF FinishFile, TypeOK
<1>4. CASE SkipInvalid(i)
  <2>1. next[i] \in Nat /\ next' \in [Imports -> Nat \ {0}]
    BY <1>4 DEF SkipInvalid, TypeOK, Advance
  <2>2. report' \in [Imports -> Reports]
    BY <1>4, ErrorAdded DEF SkipInvalid, TypeOK, Reasons
  <2> QED
    BY <1>4, <2>1, <2>2 DEF SkipInvalid, TypeOK
<1>5. CASE InsertRow(i)
  <2>1. Row(i).id \in Ids
    BY <1>5, RowTyped DEF InsertRow, Executing, Keys, People
  <2>2. open' \in [Imports -> SUBSET Ids]
    BY <1>5, <2>1 DEF InsertRow, TypeOK
  <2>3. size' \in [Imports -> 0..Chunk]
    BY <1>5, ChunkAssumption DEF InsertRow, TypeOK
  <2> QED
    BY <1>5, <2>2, <2>3 DEF InsertRow, TypeOK, Advance
<1>6. CASE CommitBatch(i)
  <2>1. file[i] \in People /\ open[i] \subseteq Ids
    BY <1>6 DEF CommitBatch, Executing, TypeOK
  <2>2. DOMAIN table' = Entities /\ \A e \in Entities : table'[e] \subseteq Keys(e)
    BY <1>6, <2>1 DEF CommitBatch, TypeOK, Keys, Entities, People
  <2>3. inserted' \in [Imports -> [Entities -> Nat]]
    <3>1. PICK n \in Nat : n = Cardinality(open[i])
      BY OpenFinite
    <3>2. inserted' = [inserted EXCEPT ![i][file[i]] = IF Running(i) THEN @ + n ELSE @]
      BY <1>6, <3>1 DEF CommitBatch
    <3> QED
      BY <3>2 DEF TypeOK
  <2> QED
    BY <1>6, <2>2, <2>3, ChunkAssumption DEF CommitBatch, TypeOK, NoBatch, job
<1>7. CASE RowRefused(i)
  BY <1>7, AbortType DEF RowRefused
<1>8. CASE DeadlockVictim(i)
  BY <1>8, AbortType DEF DeadlockVictim
<1>9. CASE BatchFails(i)
  BY <1>9, AbortType DEF BatchFails
<1>10. CASE InsertLink(i)
  <2>1. Row(i).id \in Ids \X Ids
    BY <1>10, RowTyped DEF InsertLink, AtLink, Keys
  <2>2. DOMAIN table' = Entities /\ \A e \in Entities : table'[e] \subseteq Keys(e)
    BY <1>10, <2>1 DEF InsertLink, TypeOK, Keys, Entities, People
  <2>3. inserted' \in [Imports -> [Entities -> Nat]]
    BY <1>10 DEF InsertLink, TypeOK, Entities, People
  <2> QED
    BY <1>10, <2>2, <2>3 DEF InsertLink, TypeOK, Advance
<1>11. CASE LinkRefused(i)
  <2>1. report' \in [Imports -> Reports]
    BY <1>11, ErrorAdded DEF LinkRefused, Reasons
  <2>2. next' \in [Imports -> Nat \ {0}]
    BY <1>11 DEF LinkRefused, TypeOK, Advance
  <2> QED
    BY <1>11, <2>1, <2>2 DEF LinkRefused, TypeOK
<1>12. CASE LinkFails(i)
  <2>1. Row(i).id \in Ids \X Ids
    BY <1>12, RowTyped DEF LinkFails, AtLink, Keys
  <2>2. DOMAIN table' = Entities /\ \A e \in Entities : table'[e] \subseteq Keys(e)
    BY <1>12, <2>1 DEF LinkFails, TypeOK, Keys, Entities, People
  <2>3. report' \in [Imports -> Reports]
    BY <1>12, ErrorAdded DEF LinkFails, Reasons
  <2>4. next' \in [Imports -> Nat \ {0}]
    BY <1>12 DEF LinkFails, TypeOK, Advance
  <2> QED
    BY <1>12, <2>2, <2>3, <2>4 DEF LinkFails, TypeOK
<1>13. CASE Cut(i)
  BY <1>13 DEF Cut, TypeOK, Fail
<1>14. CASE RollBack(i)
  BY <1>14, ChunkAssumption DEF RollBack, TypeOK, NoBatch, job
<1> QED
  BY <1>1, <1>2, <1>3, <1>4, <1>5, <1>6, <1>7, <1>8, <1>9, <1>10, <1>11, <1>12,
     <1>13, <1>14 DEF Step, Fault

LEMMA NextType == TypeOK /\ [Next]_vars => TypeOK'
<1> SUFFICES ASSUME TypeOK, [Next]_vars PROVE TypeOK'
  OBVIOUS
<1>1. CASE UNCHANGED vars
  BY <1>1 DEF vars, job, TypeOK
<1>2. CASE Next
  BY <1>2, StepType DEF Next
<1> QED
  BY <1>1, <1>2

\* Cursors stay positive, batches within Chunk, and every table keeps its keys,
\* for any datasets.
THEOREM TypeCorrect == Spec => []TypeOK
<1> QED
  BY InitType, NextType, PTL DEF Spec

----------------------------------------------------------------------------
(* What a job knows about the rows behind its cursor *)

Fresh(i) == outcome[i] = "new" => file[i] = "students" /\ next[i] = 1

NothingOpen(i) == size[i] = 0 => open[i] = {}

\* The valid rows behind the cursor are committed or in the open batch.
PeopleBehind(i) ==
    Running(i) /\ file[i] \in People =>
        \A k \in 1..Len(Files[i][file[i]].rows) :
            k < next[i] /\ Files[i][file[i]].rows[k].kind = "valid" =>
                Files[i][file[i]].rows[k].id \in table[file[i]] \cup open[i]

PeopleLoaded(i) ==
    \A e \in People :
        Loaded(i, e) /\ Files[i][e].found =>
            \A k \in 1..Len(Files[i][e].rows) :
                Files[i][e].rows[k].kind = "valid" => Files[i][e].rows[k].id \in table[e]

\* The job has dealt with row k of its link file.
Passed(i, k) == outcome[i] = "done" \/ (Running(i) /\ file[i] = "links" /\ k < next[i])

\* Of such rows only those are neither written nor listed, with a reason that
\* holds, that found the report full.
Unlisted(i) == {k \in 1..Len(Files[i]["links"].rows) : Passed(i, k) /\ ~LinkAccounted(i, k)}
LinksBehind(i) == (\A e \in Entities : Files[i][e].found) => OnlyOverflow(Unlisted(i), report[i])

\* The report lists rows behind the cursor, is full when it says so, and empty
\* before the links.
Listing(r) ==
    /\ IsFiniteSet(r.errors) /\ Cardinality(r.errors) <= MaxErrors
    /\ Cardinality(r.errors) <= r.failed
    /\ r.truncated => Cardinality(r.errors) = MaxErrors
ListedBehind(i) ==
    /\ Listing(report[i])
    /\ Running(i) /\ file[i] = "links" => \A e \in report[i].errors : e[1] < next[i]
    /\ outcome[i] = "new" \/ (Running(i) /\ file[i] \in People) => report[i].errors = {}

JobInv(i) ==
    /\ Fresh(i) /\ NothingOpen(i) /\ PeopleBehind(i) /\ PeopleLoaded(i)
    /\ ListedBehind(i) /\ LinksBehind(i)

Inv == TypeOK /\ \A i \in Imports : JobInv(i)

\* Every step belongs to one job and only adds rows.
LEMMA StepIsLocal ==
    ASSUME TypeOK, NEW i \in Imports, Step(i) \/ Fault(i)
    PROVE  /\ \A e \in Entities : table[e] \subseteq table'[e]
           /\ report[i].errors \subseteq report'[i].errors
           /\ \A j \in Imports \ {i} :
                /\ outcome'[j] = outcome[j] /\ file'[j] = file[j] /\ next'[j] = next[j]
                /\ size'[j] = size[j] /\ open'[j] = open[j] /\ report'[j] = report[j]
<1>1. CASE Begin(i)
  BY <1>1 DEF Begin, TypeOK
<1>2. CASE Unreadable(i)
  BY <1>2 DEF Unreadable, TypeOK, Fail
<1>3. CASE FinishFile(i)
  BY <1>3 DEF FinishFile, TypeOK
<1>4. CASE SkipInvalid(i)
  BY <1>4, ErrorAdded DEF SkipInvalid, TypeOK, Advance, Reasons
<1>5. CASE InsertRow(i)
  BY <1>5 DEF InsertRow, TypeOK, Advance
<1>6. CASE CommitBatch(i)
  BY <1>6 DEF CommitBatch, TypeOK, NoBatch, job
<1>7. CASE Abort(i)
  BY <1>7 DEF Abort, TypeOK, NoBatch, Fail
<1>8. CASE InsertLink(i)
  BY <1>8 DEF InsertLink, TypeOK, Advance
<1>9. CASE LinkRefused(i)
  BY <1>9, ErrorAdded DEF LinkRefused, TypeOK, Advance, Reasons
<1>10. CASE LinkFails(i)
  <2>1. /\ report[i].errors \subseteq report'[i].errors
        /\ \A j \in Imports \ {i} : report'[j] = report[j]
    BY <1>10, ErrorAdded DEF LinkFails, Reasons
  <2>2. \A e \in Entities : table[e] \subseteq table'[e]
    BY <1>10 DEF LinkFails, TypeOK
  <2> QED
    BY <1>10, <2>1, <2>2 DEF LinkFails, TypeOK, Advance
<1>11. CASE Cut(i)
  BY <1>11 DEF Cut, TypeOK, Fail
<1>12. CASE RollBack(i)
  BY <1>12 DEF RollBack, TypeOK, NoBatch, job
<1> QED
  BY <1>1, <1>2, <1>3, <1>4, <1>5, <1>6, <1>7, <1>8, <1>9, <1>10, <1>11, <1>12
     DEF Step, Fault, RowRefused, DeadlockVictim, BatchFails

LEMMA UnlistedFinite ==
    ASSUME NEW i \in Imports
    PROVE  IsFiniteSet(Unlisted(i)) /\ IsFiniteSet(Unlisted(i)')
<1>1. IsFiniteSet(1..Len(Files[i]["links"].rows))
  <2>1. Len(Files[i]["links"].rows) \in Nat
    BY FilesTyped DEF Entities
  <2> QED
    BY <2>1, FS_Interval
<1>2. /\ Unlisted(i) \subseteq 1..Len(Files[i]["links"].rows)
      /\ Unlisted(i)' \subseteq 1..Len(Files[i]["links"].rows)
  BY DEF Unlisted
<1> QED
  BY <1>1, <1>2, FS_Subset

\* A report that does not change covers fewer rows as well.
LEMMA FewerUnlisted ==
    ASSUME TypeOK, NEW i \in Imports, ListedBehind(i), LinksBehind(i),
           report'[i] = report[i], Unlisted(i)' \subseteq Unlisted(i)
    PROVE  LinksBehind(i)'
<1>. DEFINE r == report[i]
            U == Unlisted(i)
            V == Unlisted(i)'
<1>1. IsFiniteSet(U)
  BY UnlistedFinite
<1>2. /\ Cardinality(U) \in Nat /\ Cardinality(V) \in Nat /\ Cardinality(V) <= Cardinality(U)
      /\ Cardinality(r.errors) \in Nat /\ r.failed \in Nat
  <2>1. IsFiniteSet(V) /\ Cardinality(V) <= Cardinality(U)
    BY <1>1, FS_Subset
  <2>2. IsFiniteSet(r.errors) /\ r.failed \in Nat
    BY DEF ListedBehind, Listing, TypeOK, Reports
  <2> QED
    BY <1>1, <2>1, <2>2, FS_CardinalityType
<1>3. ASSUME OnlyOverflow(U, r)
      PROVE  OnlyOverflow(V, r)
  <2>. HIDE DEF r, U, V
  <2>1. V \subseteq U
    BY DEF U, V
  <2> QED
    BY <1>2, <1>3, <2>1 DEF OnlyOverflow
<1> QED
  BY <1>3 DEF LinksBehind

\* One more row, dealt with by addError: it is listed with a reason that holds,
\* or there was no room for it.
LEMMA OneMoreError ==
    ASSUME TypeOK, NEW i \in Imports, ListedBehind(i), LinksBehind(i),
           Running(i), file[i] = "links", NEW reason \in Reasons, AddError(i, reason),
           (\A e \in Entities : Files[i][e].found) =>
               /\ Unlisted(i)' \subseteq Unlisted(i) \cup {next[i]}
               /\ <<next[i], reason>> \in report'[i].errors => next[i] \notin Unlisted(i)'
    PROVE  /\ LinksBehind(i)' /\ Listing(report'[i])
           /\ \A e \in report'[i].errors : e[1] < next[i] + 1
<1>. DEFINE r == report[i]
            s == report'[i]
            n == next[i]
            U == Unlisted(i)
            V == Unlisted(i)'
            c == Cardinality(r.errors)
<1>1. /\ n \in Nat /\ r.failed \in Nat /\ MaxErrors \in Nat
      /\ \A e \in r.errors : e[1] \in Nat /\ e[1] < n
      /\ IsFiniteSet(r.errors) /\ c \in Nat /\ c <= MaxErrors /\ c <= r.failed
      /\ r.truncated => c = MaxErrors
  <2>1. n \in Nat /\ r \in Reports
    BY DEF TypeOK
  <2>2. r.failed \in Nat /\ \A e \in r.errors : e[1] \in Nat
    BY <2>1 DEF Reports
  <2> QED
    BY <2>1, <2>2, MaxErrorsAssumption, FS_CardinalityType DEF ListedBehind, Listing
<1>2. /\ s.failed = r.failed + 1
      /\ IF c < MaxErrors
         THEN s.errors = r.errors \cup {<<n, reason>>} /\ s.truncated = r.truncated
         ELSE s.errors = r.errors /\ s.truncated
  BY ErrorAdded
<1>3. <<n, reason>> \notin r.errors
  BY <1>1
<1>4. /\ IsFiniteSet(U) /\ IsFiniteSet(V) /\ Cardinality(U) \in Nat /\ Cardinality(V) \in Nat
      /\ Cardinality(U \cup {n}) \in Nat /\ Cardinality(U \cup {n}) <= Cardinality(U) + 1
      /\ V \subseteq U => Cardinality(V) <= Cardinality(U)
      /\ V \subseteq U \cup {n} => Cardinality(V) <= Cardinality(U \cup {n})
  <2>1. /\ IsFiniteSet(U) /\ IsFiniteSet(V)
    BY UnlistedFinite
  <2>. HIDE DEF U, V, n
  <2>2. IsFiniteSet(U \cup {n}) /\ Cardinality(U \cup {n}) <= Cardinality(U) + 1
    <3>1. /\ IsFiniteSet(U \cup {n})
          /\ \/ Cardinality(U \cup {n}) = Cardinality(U)
             \/ Cardinality(U \cup {n}) = Cardinality(U) + 1
      BY <2>1, FS_AddElement
    <3>2. Cardinality(U) \in Nat
      BY <2>1, FS_CardinalityType
    <3> QED
      BY <3>1, <3>2
  <2> QED
    BY <2>1, <2>2, FS_Subset, FS_CardinalityType
<1>5. c < MaxErrors => Cardinality(s.errors) = c + 1
  <2>1. c < MaxErrors => s.errors = r.errors \cup {<<n, reason>>}
    BY <1>2
  <2>2. IsFiniteSet(r.errors) /\ <<n, reason>> \notin r.errors
    BY <1>1, <1>3
  <2>. HIDE DEF r, n
  <2>3. Cardinality(r.errors \cup {<<n, reason>>}) = c + 1
    BY <2>2, FS_AddElement
  <2>. HIDE DEF s, c
  <2> QED
    BY <2>1, <2>3
<1>6. Listing(s) /\ \A e \in s.errors : e[1] < n + 1
  <2>. HIDE DEF s, r, c, n
  <2>1. CASE c < MaxErrors
    <3>1. IsFiniteSet(s.errors)
      <4>1. s.errors = r.errors \cup {<<n, reason>>} /\ IsFiniteSet(r.errors)
        BY <1>1, <1>2, <2>1
      <4>2. IsFiniteSet(r.errors \cup {<<n, reason>>})
        BY <4>1, FS_AddElement
      <4> QED
        BY <4>1, <4>2
    <3>2. ~r.truncated
      BY <1>1, <2>1
    <3>3. \A e \in s.errors : e[1] < n + 1
      BY <1>1, <1>2, <2>1
    <3> QED
      BY <1>1, <1>2, <1>5, <2>1, <3>1, <3>2, <3>3 DEF Listing
  <2>2. CASE ~(c < MaxErrors)
    BY <1>1, <1>2, <2>2 DEF Listing, c
  <2> QED
    BY <2>1, <2>2
<1>7. ASSUME OnlyOverflow(U, r), V \subseteq U \cup {n}, <<n, reason>> \in s.errors => n \notin V
      PROVE  OnlyOverflow(V, s)
  <2>1. c < MaxErrors => V \subseteq U /\ U = {}
    <3>1. c < MaxErrors => U = {}
      BY <1>1, <1>7 DEF OnlyOverflow
    <3> QED
      BY <1>2, <1>7, <3>1
  <2>2. /\ \A k \in U : r.truncated /\ \A e \in r.errors : e[1] < k
        /\ Cardinality(U) + c <= r.failed
    BY <1>7 DEF OnlyOverflow
  <2>. HIDE DEF s, r, n, U, V
  <2>3. CASE c < MaxErrors
    <3>1. V = {} /\ Cardinality(V) = 0 /\ Cardinality(U) = 0
      BY <2>1, <2>3, FS_EmptySet
    <3> QED
      BY <1>1, <1>2, <1>5, <2>2, <2>3, <3>1 DEF OnlyOverflow
  <2>4. CASE ~(c < MaxErrors)
    <3>1. s.truncated /\ s.errors = r.errors /\ Cardinality(s.errors) = MaxErrors
      BY <1>1, <1>2, <2>4
    <3>2. \A k \in V : \A e \in s.errors : e[1] < k
      BY <1>1, <1>7, <2>2, <3>1
    <3>3. Cardinality(V) + Cardinality(s.errors) <= s.failed
      BY <1>1, <1>2, <1>4, <1>7, <2>2, <3>1
    <3> QED
      BY <3>1, <3>2, <3>3 DEF OnlyOverflow
  <2> QED
    BY <2>3, <2>4
<1>8. LinksBehind(i)'
  BY <1>7 DEF LinksBehind
<1> QED
  BY <1>6, <1>8

LEMMA OthersKeep ==
    ASSUME Inv, NEW i \in Imports, Step(i) \/ Fault(i),
           NEW j \in Imports \ {i}
    PROVE  JobInv(j)'
<1>1. /\ outcome'[j] = outcome[j] /\ file'[j] = file[j] /\ next'[j] = next[j]
      /\ size'[j] = size[j] /\ open'[j] = open[j] /\ report'[j] = report[j]
  BY StepIsLocal DEF Inv
<1>2. \A e \in Entities : table[e] \subseteq table'[e]
  BY StepIsLocal DEF Inv
<1>3. JobInv(j)
  BY DEF Inv
<1>4. (Fresh(j) /\ NothingOpen(j))'
  BY <1>1, <1>3 DEF JobInv, Fresh, NothingOpen
<1>5. PeopleBehind(j)'
  BY <1>1, <1>2, <1>3 DEF JobInv, PeopleBehind, Running, Entities
<1>6. PeopleLoaded(j)'
  BY <1>1, <1>2, <1>3 DEF JobInv, PeopleLoaded, Loaded, Running, Entities
<1>7. (ListedBehind(j) /\ LinksBehind(j))'
  <2>1. ListedBehind(j)'
    BY <1>1, <1>3 DEF JobInv, ListedBehind, Running
  <2>2. Unlisted(j)' \subseteq Unlisted(j)
    BY <1>1, <1>2 DEF Unlisted, LinkAccounted, Listed, Passed, Running, Entities
  <2> QED
    BY <1>1, <1>3, <2>1, <2>2, FewerUnlisted DEF Inv, JobInv
<1> QED
  BY <1>4, <1>5, <1>6, <1>7 DEF JobInv

\* Nobody reads the report of a job that failed.
LEMMA FailedKeeps ==
    ASSUME Inv, NEW i \in Imports, outcome'[i] = "failed", size'[i] = 0 => open'[i] = {},
           report' = report
    PROVE  JobInv(i)'
<1>1. (Fresh(i) /\ NothingOpen(i) /\ PeopleBehind(i) /\ PeopleLoaded(i))'
  BY DEF Fresh, NothingOpen, PeopleBehind, PeopleLoaded, Loaded, Running
<1>2. ListedBehind(i)'
  BY DEF Inv, JobInv, ListedBehind, Running
<1>3. Unlisted(i)' = {}
  BY DEF Unlisted, Passed, Running
<1> QED
  BY <1>1, <1>2, <1>3, FewerUnlisted DEF Inv, JobInv

LEMMA AbortKeeps ==
    ASSUME Inv, NEW i \in Imports, Abort(i)
    PROVE  JobInv(i)'
<1>1. outcome'[i] = "failed" /\ open'[i] = {} /\ report' = report
  BY DEF Abort, Fail, NoBatch, Inv, TypeOK
<1> QED
  BY <1>1, FailedKeeps

----------------------------------------------------------------------------
(* The job that takes the step *)

LEMMA FinishFileKeeps ==
    ASSUME Inv, NEW i \in Imports, FinishFile(i)
    PROVE  JobInv(i)'
<1> USE DEF Inv, JobInv, FinishFile, TypeOK
<1>1. /\ next'[i] = 1 /\ open'[i] = {} /\ size'[i] = 0
      /\ table' = table /\ report' = report
  BY DEF NothingOpen
<1>2. Files[i][file[i]].found => next[i] > Len(Files[i][file[i]].rows)
  BY FilesTyped DEF HasRow, Rows
<1>3. (Fresh(i) /\ NothingOpen(i) /\ PeopleBehind(i))'
  BY <1>1 DEF Fresh, NothingOpen, PeopleBehind, Running
<1>4. PeopleLoaded(i)'
  <2> SUFFICES ASSUME NEW e \in People, Loaded(i, e)', Files[i][e].found,
                      NEW k \in 1..Len(Files[i][e].rows), Files[i][e].rows[k].kind = "valid"
               PROVE  Files[i][e].rows[k].id \in table'[e]
    BY DEF PeopleLoaded
  <2>1. CASE Loaded(i, e)
    BY <2>1, <1>1 DEF PeopleLoaded
  <2>2. CASE file[i] = e
    <3>1. k < next[i]
      BY <2>2, <1>2, FilesTyped DEF Entities
    <3> QED
      BY <2>2, <3>1, <1>1 DEF PeopleBehind, NothingOpen
  <2>3. Loaded(i, e) \/ file[i] = e
    BY DEF Loaded, Running, People, Entities
  <2> QED
    BY <2>1, <2>2, <2>3
<1>5. ListedBehind(i)'
  BY <1>1 DEF ListedBehind, Running, People, Entities
<1>6. CASE Files[i]["links"].found
  <2>1. ASSUME NEW k \in Unlisted(i)'
        PROVE  k \in Unlisted(i)
    <3>1. k \in 1..Len(Files[i]["links"].rows) /\ Passed(i, k)' /\ ~LinkAccounted(i, k)
      BY <1>1, <2>1 DEF Unlisted, LinkAccounted, Listed
    <3>2. file[i] = "links"
      BY <1>1, <3>1 DEF Passed, Running, Entities, People
    <3>3. k < next[i]
      BY <3>1, <3>2, <1>2, <1>6, FilesTyped DEF Entities
    <3> QED
      BY <3>1, <3>2, <3>3 DEF Unlisted, Passed
  <2> QED
    BY <1>1, <1>3, <1>4, <1>5, <2>1, FewerUnlisted
<1>7. CASE ~Files[i]["links"].found
  BY <1>3, <1>4, <1>5, <1>7 DEF LinksBehind, Entities
<1> QED
  BY <1>6, <1>7

\* A step at a link deals with the row under the cursor; the rows before it stay
\* written or listed.
LEMMA NextUnlisted ==
    ASSUME TypeOK, NEW i \in Imports, Running(i), file[i] = "links",
           next'[i] = next[i] + 1, outcome' = outcome, file' = file,
           \A e \in Entities : table[e] \subseteq table'[e],
           report[i].errors \subseteq report'[i].errors
    PROVE  Unlisted(i)' \subseteq Unlisted(i) \cup {next[i]}
<1> SUFFICES ASSUME NEW k \in Unlisted(i)', k # next[i]
             PROVE  k \in Unlisted(i)
  OBVIOUS
<1>1. /\ k \in 1..Len(Files[i]["links"].rows) /\ Passed(i, k)' /\ ~LinkAccounted(i, k)'
      /\ next[i] \in Nat
  BY DEF Unlisted, TypeOK
<1>2. k < next[i]
  BY <1>1, FilesTyped DEF Passed, Running, Entities
<1>3. ~LinkAccounted(i, k)
  BY <1>1 DEF LinkAccounted, Listed, Entities
<1> QED
  BY <1>1, <1>2, <1>3 DEF Unlisted, Passed

LEMMA SkipInvalidKeeps ==
    ASSUME Inv, NEW i \in Imports, SkipInvalid(i)
    PROVE  JobInv(i)'
<1> USE DEF Inv, JobInv, SkipInvalid, TypeOK
<1>1. /\ Row(i) = Files[i][file[i]].rows[next[i]] /\ Row(i).kind = "invalid"
      /\ next'[i] = next[i] + 1
      /\ table' = table /\ outcome' = outcome /\ file' = file /\ open' = open /\ size' = size
  BY RowTyped DEF Advance
<1>2. (Fresh(i) /\ NothingOpen(i))'
  BY <1>1 DEF Fresh, NothingOpen, Executing, Running
<1>3. PeopleBehind(i)'
  <2> SUFFICES ASSUME Running(i), file[i] \in People,
                      NEW k \in 1..Len(Files[i][file[i]].rows), k < next[i] + 1,
                      Files[i][file[i]].rows[k].kind = "valid"
               PROVE  Files[i][file[i]].rows[k].id \in table[file[i]] \cup open[i]
    BY <1>1 DEF PeopleBehind, Running
  <2>1. k # next[i]
    BY <1>1
  <2>2. k < next[i]
    BY <2>1, FilesTyped
  <2> QED
    BY <2>2 DEF PeopleBehind
<1>4. PeopleLoaded(i)'
  BY <1>1 DEF PeopleLoaded, Loaded, Running
<1>5. (ListedBehind(i) /\ LinksBehind(i))'
  <2>1. CASE Running(i) /\ file[i] = "links"
    <3>1. AddError(i, "invalid") /\ next[i] \in Nat
      BY <2>1 DEF People
    <3>2. Unlisted(i)' \subseteq Unlisted(i) \cup {next[i]}
      BY <1>1, <2>1, StepIsLocal, NextUnlisted DEF Step
    <3>3. <<next[i], "invalid">> \in report'[i].errors => next[i] \notin Unlisted(i)'
      BY <1>1, <2>1 DEF LinkAccounted, Listed, Unlisted
    <3>4. /\ LinksBehind(i)' /\ Listing(report'[i])
          /\ \A e \in report'[i].errors : e[1] < next[i] + 1
      <4>1. "invalid" \in Reasons /\ TypeOK /\ ListedBehind(i) /\ LinksBehind(i)
        BY DEF Reasons
      <4> QED
        BY ONLY <2>1, <3>1, <3>2, <3>3, <4>1, OneMoreError
    <3> QED
      BY <1>1, <2>1, <3>4 DEF ListedBehind, Running, People
  <2>2. CASE ~(Running(i) /\ file[i] = "links")
    <3>1. report' = report /\ file[i] \in People
      BY <2>2 DEF Executing, People
    <3>2. Unlisted(i)' \subseteq Unlisted(i)
      BY <1>1, <2>2, <3>1 DEF Unlisted, Passed, LinkAccounted, Listed, Running
    <3>3. ListedBehind(i)'
      BY <1>1, <2>2, <3>1 DEF ListedBehind, Running
    <3> QED
      BY <3>1, <3>2, <3>3, FewerUnlisted
  <2> QED
    BY <2>1, <2>2
<1> QED
  BY <1>2, <1>3, <1>4, <1>5

LEMMA InsertRowKeeps ==
    ASSUME Inv, NEW i \in Imports, InsertRow(i)
    PROVE  JobInv(i)'
<1>0. TypeOK /\ JobInv(i)
  BY DEF Inv
<1>1. /\ Row(i) = Files[i][file[i]].rows[next[i]]
      /\ next'[i] = next[i] + 1 /\ size'[i] = size[i] + 1
      /\ table' = table /\ outcome' = outcome /\ file' = file /\ report' = report
      /\ file[i] \in People /\ open[i] \subseteq open'[i]
      /\ Row(i).id \in table[file[i]] \cup open'[i]
  BY <1>0, RowTyped DEF InsertRow, TypeOK, Advance, Executing
<1>2. (Fresh(i) /\ NothingOpen(i))'
  <2>1. outcome[i] # "new" /\ size[i] \in Nat
    <3>1. Executing(i) /\ size \in [Imports -> 0..Chunk]
      BY <1>0 DEF InsertRow, TypeOK
    <3> QED
      BY <3>1, ChunkAssumption DEF Executing, Running
  <2> QED
    BY <1>1, <2>1 DEF Fresh, NothingOpen
<1>3. PeopleBehind(i)'
  <2> SUFFICES ASSUME Running(i), file[i] \in People,
                      NEW k \in 1..Len(Files[i][file[i]].rows), k < next[i] + 1,
                      Files[i][file[i]].rows[k].kind = "valid"
               PROVE  Files[i][file[i]].rows[k].id \in table[file[i]] \cup open'[i]
    BY <1>1 DEF PeopleBehind, Running
  <2>1. CASE k < next[i]
    BY <1>0, <1>1, <2>1 DEF JobInv, PeopleBehind
  <2>2. CASE k = next[i]
    BY <2>2, <1>1
  <2> QED
    BY <1>0, <2>1, <2>2, FilesTyped DEF TypeOK
<1>4. (PeopleLoaded(i) /\ ListedBehind(i))'
  <2>1. PeopleLoaded(i) /\ ListedBehind(i)
    BY <1>0 DEF JobInv
  <2> QED
    BY <1>1, <2>1 DEF PeopleLoaded, Loaded, Running, ListedBehind, People
<1>5. Unlisted(i)' \subseteq Unlisted(i)
  BY <1>1 DEF Unlisted, LinkAccounted, Listed, Passed, Running, People
<1> QED
  BY <1>0, <1>1, <1>2, <1>3, <1>4, <1>5, FewerUnlisted DEF JobInv

LEMMA CommitBatchKeeps ==
    ASSUME Inv, NEW i \in Imports, CommitBatch(i)
    PROVE  JobInv(i)'
<1> USE DEF Inv, JobInv, CommitBatch, TypeOK
<1>1. /\ outcome' = outcome /\ file' = file /\ next' = next /\ report' = report
      /\ open'[i] = {} /\ file[i] \in People
      /\ table'[file[i]] = table[file[i]] \cup open[i]
  BY DEF job, NoBatch, Executing, Entities
<1>2. \A e \in Entities : table[e] \subseteq table'[e]
  BY StepIsLocal DEF Step, Fault
<1>3. (Fresh(i) /\ NothingOpen(i) /\ PeopleBehind(i))'
  BY <1>1 DEF Fresh, NothingOpen, PeopleBehind, Running
<1>4. PeopleLoaded(i)'
  BY <1>1, <1>2 DEF PeopleLoaded, Loaded, Running, Entities
<1>5. ListedBehind(i)'
  BY <1>1 DEF ListedBehind, Running
<1>6. Unlisted(i)' \subseteq Unlisted(i)
  BY <1>1, <1>2 DEF Unlisted, LinkAccounted, Listed, Passed, Running, Entities
<1> QED
  BY <1>1, <1>3, <1>4, <1>5, <1>6, FewerUnlisted

\* Once a job is at its links, the parents its own files hold are in the tables.
LEMMA OwnParentsPresent ==
    ASSUME Inv, NEW i \in Imports, Running(i), file[i] = "links",
           \A e \in Entities : Files[i][e].found,
           NEW id, OwnParents(i, id)
    PROVE  ParentsPresent(id)
<1>1. PeopleLoaded(i) /\ \A e \in People : Loaded(i, e) /\ Files[i][e].found
  BY DEF Inv, JobInv, Loaded, Entities
<1>2. \A e \in People : ValidIds(i, e) \subseteq table[e]
  BY <1>1 DEF PeopleLoaded, ValidIds
<1> QED
  BY <1>2 DEF OwnParents, ParentsPresent, People

\* The three steps that deal with one link.
LEMMA LinkKeeps ==
    ASSUME Inv, NEW i \in Imports, InsertLink(i) \/ LinkRefused(i) \/ LinkFails(i)
    PROVE  JobInv(i)'
<1> USE DEF Inv, JobInv, TypeOK
<1>1. /\ Row(i) = Files[i]["links"].rows[next[i]] /\ next[i] \in Nat
      /\ file[i] = "links" /\ Running(i)
      /\ next'[i] = next[i] + 1
      /\ outcome' = outcome /\ file' = file /\ open' = open /\ size' = size
      /\ report[i].errors \subseteq report'[i].errors
  <2>1. /\ file[i] = "links" /\ Running(i) /\ HasRow(i)
        /\ next'[i] = next[i] + 1
        /\ outcome' = outcome /\ file' = file /\ open' = open /\ size' = size
    BY DEF InsertLink, LinkRefused, LinkFails, AtLink, Advance
  <2>2. report[i].errors \subseteq report'[i].errors
    BY StepIsLocal DEF Step, Fault
  <2> QED
    BY <2>1, <2>2, RowTyped
<1>2. \A e \in Entities : table[e] \subseteq table'[e]
  BY StepIsLocal DEF Step, Fault
<1>3. (Fresh(i) /\ NothingOpen(i) /\ PeopleBehind(i))'
  BY <1>1 DEF Fresh, NothingOpen, PeopleBehind, Running, People
<1>4. PeopleLoaded(i)'
  BY <1>1, <1>2 DEF PeopleLoaded, Loaded, Running, Entities
<1>5. Unlisted(i)' \subseteq Unlisted(i) \cup {next[i]}
  BY <1>1, <1>2, NextUnlisted
<1>6. CASE InsertLink(i)
  <2>1. report' = report /\ Row(i).id \in table'["links"]
    BY <1>6 DEF InsertLink, Entities
  <2>2. next[i] \notin Unlisted(i)'
    BY <1>1, <2>1 DEF Unlisted, LinkAccounted
  <2>3. ListedBehind(i)'
    <3>1. \A e \in report[i].errors : e[1] < next[i] /\ e[1] \in Nat
      BY <1>1 DEF ListedBehind, Reports
    <3> QED
      BY <1>1, <2>1, <3>1 DEF ListedBehind, Running, People
  <2> QED
    BY <1>3, <1>4, <1>5, <2>1, <2>2, <2>3, FewerUnlisted
<1>. PICK n \in Nat : n = next[i]
  BY <1>1
<1>. DEFINE id == Files[i]["links"].rows[n].id
<1>7. ASSUME NEW reason \in Reasons, AddError(i, reason),
             (\A e \in Entities : Files[i][e].found) /\ <<n, reason>> \in report'[i].errors =>
                 LinkAccounted(i, n)'
      PROVE  JobInv(i)'
  <2>1. /\ LinksBehind(i)' /\ Listing(report'[i])
        /\ \A e \in report'[i].errors : e[1] < next[i] + 1
    <3>1. (\A e \in Entities : Files[i][e].found) =>
              (<<next[i], reason>> \in report'[i].errors => next[i] \notin Unlisted(i)')
      BY <1>7 DEF Unlisted
    <3>2. TypeOK /\ ListedBehind(i) /\ LinksBehind(i)
      OBVIOUS
    <3> QED
      BY ONLY <1>1, <1>5, <1>7, <3>1, <3>2, OneMoreError, i \in Imports
  <2>2. ListedBehind(i)'
    BY <1>1, <2>1 DEF ListedBehind, Running, People
  <2> QED
    BY <1>3, <1>4, <2>1, <2>2
<1>8. CASE LinkRefused(i)
  <2>1. AddError(i, "foreign_key") /\ ~ParentsPresent(Row(i).id)
    BY <1>8 DEF LinkRefused
  <2>2. (\A e \in Entities : Files[i][e].found) => ~OwnParents(i, id)
    BY <1>1, <2>1, OwnParentsPresent
  <2>3. (\A e \in Entities : Files[i][e].found) /\ <<n, "foreign_key">> \in report'[i].errors =>
            LinkAccounted(i, n)'
    BY <2>2 DEF LinkAccounted, Listed, OwnParents, ValidIds
  <2> QED
    BY <1>7, <2>1, <2>3 DEF Reasons
<1>9. CASE LinkFails(i)
  BY <1>7, <1>9 DEF LinkFails, LinkAccounted, Listed, Reasons
<1> QED
  BY <1>6, <1>8, <1>9

LEMMA StepKeeps ==
    ASSUME Inv, NEW i \in Imports, Step(i) \/ Fault(i)
    PROVE  JobInv(i)'
<1>1. CASE Begin(i)
  <2>1. /\ file'[i] = "students" /\ next'[i] = 1 /\ outcome'[i] \in {"running", "failed"}
        /\ table' = table /\ open' = open /\ size' = size /\ report' = report
        /\ outcome[i] = "new"
    BY <1>1 DEF Begin, Inv, JobInv, TypeOK, Fresh
  <2>2. NothingOpen(i)'
    BY <2>1 DEF Inv, JobInv, NothingOpen
  <2>3. ListedBehind(i)'
    BY <2>1 DEF Inv, JobInv, ListedBehind, Running
  <2>4. Unlisted(i)' = {}
    BY <2>1 DEF Unlisted, Passed, Running
  <2>5. (Fresh(i) /\ PeopleBehind(i) /\ PeopleLoaded(i))'
    BY <2>1 DEF Fresh, PeopleBehind, PeopleLoaded, Loaded, Running, People
  <2> QED
    BY <2>1, <2>2, <2>3, <2>4, <2>5, FewerUnlisted DEF Inv, JobInv
<1>2. CASE Unreadable(i) \/ Cut(i)
  <2>1. outcome'[i] = "failed" /\ open' = open /\ size' = size /\ report' = report
    BY <1>2 DEF Unreadable, Cut, Fail, Inv, TypeOK
  <2> QED
    BY <2>1, FailedKeeps DEF Inv, JobInv, NothingOpen
<1>3. CASE Abort(i)
  BY <1>3, AbortKeeps
<1>4. CASE RollBack(i)
  <2>1. outcome'[i] = "failed" /\ open'[i] = {} /\ report' = report
    BY <1>4 DEF RollBack, NoBatch, Inv, TypeOK, job
  <2> QED
    BY <2>1, FailedKeeps
<1> QED
  BY <1>1, <1>2, <1>3, <1>4, FinishFileKeeps, SkipInvalidKeeps, InsertRowKeeps,
     CommitBatchKeeps, LinkKeeps
     DEF Step, Fault, RowRefused, DeadlockVictim, BatchFails

LEMMA InvInit == Init => Inv
<1> SUFFICES ASSUME Init, NEW i \in Imports PROVE JobInv(i)
  BY InitType DEF Inv
<1>1. (Fresh(i) /\ NothingOpen(i) /\ PeopleBehind(i) /\ PeopleLoaded(i))
  BY DEF Init, Fresh, NothingOpen, PeopleBehind, PeopleLoaded, Loaded, Running
<1>2. /\ Unlisted(i) = {} /\ outcome[i] = "new"
      /\ report[i] = [failed |-> 0, errors |-> {}, truncated |-> FALSE]
  BY DEF Init, Unlisted, Passed, Running
<1>3. ListedBehind(i)
  BY <1>2, FS_EmptySet, MaxErrorsAssumption DEF ListedBehind, Listing, Running
<1>4. LinksBehind(i)
  BY <1>2, FS_EmptySet DEF LinksBehind, OnlyOverflow
<1> QED
  BY <1>1, <1>3, <1>4 DEF JobInv

LEMMA InvNext == Inv /\ [Next]_vars => Inv'
<1> SUFFICES ASSUME Inv, [Next]_vars PROVE Inv'
  OBVIOUS
<1>1. CASE UNCHANGED vars
  <2>1. TypeOK'
    BY <1>1, NextType DEF Inv
  <2>2. ASSUME NEW i \in Imports PROVE JobInv(i)'
    <3> USE <1>1 DEF vars, job, Inv, JobInv
    <3>1. (Fresh(i) /\ NothingOpen(i) /\ PeopleBehind(i))'
      BY DEF Fresh, NothingOpen, PeopleBehind, Running
    <3>2. PeopleLoaded(i)'
      BY DEF PeopleLoaded, Loaded, Running
    <3>3. (ListedBehind(i) /\ LinksBehind(i))'
      BY DEF ListedBehind, LinksBehind, Unlisted, LinkAccounted, Listed, Passed, Running
    <3> QED
      BY <3>1, <3>2, <3>3
  <2> QED
    BY <2>1, <2>2 DEF Inv
<1>2. ASSUME NEW i \in Imports, Step(i) \/ Fault(i) PROVE Inv'
  BY <1>2, StepType, OthersKeep, StepKeeps DEF Inv
<1> QED
  BY <1>1, <1>2 DEF Next

LEMMA InvHolds == Spec => []Inv
BY InvInit, InvNext, PTL DEF Spec

----------------------------------------------------------------------------
(* Sums of natural numbers: what SumFunction of the library computes *)

\* Induction over the natural numbers, for a set instead of a predicate: a
\* number outside the set would have to be a smallest one.
LEMMA SetInduction ==
    ASSUME NEW F, 0 \in F, \A n \in Nat : n \in F => n + 1 \in F
    PROVE  Nat \subseteq F
<1>. DEFINE T == Nat \ F
            R == OpToRel(<, Nat)
<1>1. SUFFICES ASSUME T # {}
               PROVE  FALSE
  OBVIOUS
<1>2. IsWellFoundedOn(R, Nat)
  BY NatLessThanWellFounded
<1>3. \A m, n \in Nat : m < n => <<m, n>> \in R
  BY DEF OpToRel
<1>. HIDE DEF R
<1>4. PICK m \in T : \A n \in T : ~(<<n, m>> \in R)
  BY <1>1, <1>2, WFMin
<1>5. m \in Nat /\ m \notin F /\ m # 0
  OBVIOUS
<1>6. m - 1 \in Nat /\ m - 1 < m /\ (m - 1) + 1 = m
  BY <1>5
<1>7. m - 1 \in F
  BY <1>3, <1>4, <1>5, <1>6
<1>. QED
  BY <1>5, <1>6, <1>7

\* Sums over the subsets of D, as the fold of the library computes them.
Chosen(s) == CHOOSE x \in s : TRUE
SumsUpTo(n, D, w, g) ==
    g = [s \in {t \in SUBSET D : Cardinality(t) <= n} |->
            IF s = {} THEN 0 ELSE w[Chosen(s)] + g[s \ {Chosen(s)}]]
Sums(D, w, g) ==
    g = [s \in SUBSET D |-> IF s = {} THEN 0 ELSE w[Chosen(s)] + g[s \ {Chosen(s)}]]

LEMMA SubsetSizes ==
    ASSUME NEW D, IsFiniteSet(D)
    PROVE  \A s \in SUBSET D :
            /\ IsFiniteSet(s) /\ Cardinality(s) \in Nat /\ Cardinality(s) <= Cardinality(D)
            /\ Cardinality(s) = 0 <=> s = {}
            /\ \A x \in s : Cardinality(s \ {x}) = Cardinality(s) - 1
<1>1. ASSUME NEW s \in SUBSET D
      PROVE  /\ IsFiniteSet(s) /\ Cardinality(s) \in Nat /\ Cardinality(s) <= Cardinality(D)
             /\ Cardinality(s) = 0 <=> s = {}
  BY FS_Subset, FS_CardinalityType, FS_EmptySet
<1>2. ASSUME NEW s \in SUBSET D, NEW x \in s
      PROVE  Cardinality(s \ {x}) = Cardinality(s) - 1
  BY <1>1, FS_RemoveElement
<1>. QED
  BY <1>1, <1>2

LEMMA SubsetInduction ==
    ASSUME NEW D, IsFiniteSet(D), NEW F, {} \in F,
           \A s \in SUBSET D : \A x \in s : s \ {x} \in F => s \in F
    PROVE  D \in F
<1>. DEFINE N == {n \in Nat : \A s \in SUBSET D : Cardinality(s) <= n => s \in F}
<1>1. 0 \in N
  <2>1. \A s \in SUBSET D : Cardinality(s) <= 0 => s = {}
    BY SubsetSizes
  <2>. QED
    BY <2>1
<1>2. ASSUME NEW n \in Nat, n \in N
      PROVE  n + 1 \in N
  <2>1. ASSUME NEW s \in SUBSET D, Cardinality(s) <= n + 1, NEW x \in s
        PROVE  s \in F
    <3>1. s \ {x} \in SUBSET D /\ Cardinality(s \ {x}) <= n
      BY <2>1, SubsetSizes
    <3>. QED
      BY <1>2, <3>1
  <2>2. ASSUME NEW s \in SUBSET D, Cardinality(s) <= n + 1
        PROVE  s \in F
    <3>1. CASE s = {}
      BY <3>1
    <3>2. CASE s # {}
      BY <2>1, <2>2, <3>2
    <3>. QED
      BY <3>1, <3>2
  <2>. QED
    BY <2>2
<1>. HIDE DEF N
<1>3. Cardinality(D) \in N
  BY <1>1, <1>2, SetInduction, FS_CardinalityType
<1>. QED
  BY <1>3, FS_CardinalityType DEF N

LEMMA SumsExist ==
    ASSUME NEW D, IsFiniteSet(D), NEW w
    PROVE  \E g : Sums(D, w, g)
<1>. DEFINE Small(n) == {t \in SUBSET D : Cardinality(t) <= n}
            F == {n \in Nat : \E g : SumsUpTo(n, D, w, g)}
<1>1. 0 \in F
  <2>1. \A s \in Small(0) : s = {}
    BY SubsetSizes
  <2>. DEFINE g == [s \in Small(0) |-> 0]
  <2>2. SumsUpTo(0, D, w, g)
    BY <2>1 DEF SumsUpTo
  <2>. QED
    BY <2>2
<1>2. ASSUME NEW n \in Nat, n \in F
      PROVE  n + 1 \in F
  <2>1. PICK g : SumsUpTo(n, D, w, g)
    BY <1>2
  <2>. DEFINE h == [s \in Small(n + 1) |-> IF s = {} THEN 0 ELSE w[Chosen(s)] + g[s \ {Chosen(s)}]]
  <2>2. \A s \in Small(n) : h[s] = g[s]
    <3>1. \A s \in Small(n) : s \in Small(n + 1)
      BY SubsetSizes
    <3>. QED
      BY <2>1, <3>1 DEF SumsUpTo
  <2>3. ASSUME NEW s \in Small(n + 1), s # {}
        PROVE  s \ {Chosen(s)} \in Small(n)
    <3>1. Chosen(s) \in s
      BY <2>3 DEF Chosen
    <3>. QED
      BY <2>3, <3>1, SubsetSizes
  <2>4. h = [s \in Small(n + 1) |-> IF s = {} THEN 0 ELSE w[Chosen(s)] + h[s \ {Chosen(s)}]]
    BY <2>2, <2>3
  <2>5. SumsUpTo(n + 1, D, w, h)
    BY <2>4 DEF SumsUpTo
  <2>. QED
    BY <2>5
<1>. HIDE DEF F
<1>3. Nat \subseteq F
  BY <1>1, <1>2, SetInduction
<1>4. Cardinality(D) \in F
  BY <1>3, FS_CardinalityType
<1>5. PICK g : SumsUpTo(Cardinality(D), D, w, g)
  BY <1>4 DEF F
<1>6. Small(Cardinality(D)) = SUBSET D
  BY SubsetSizes
<1>. QED
  BY <1>5, <1>6 DEF SumsUpTo, Sums

Adds(D, w, g) ==
    /\ g \in [SUBSET D -> Nat] /\ g[{}] = 0
    /\ \A s \in SUBSET D : \A x \in s : g[s] = w[x] + g[s \ {x}]

\* The order of the summands does not matter.
LEMMA AnySummand ==
    ASSUME NEW D, IsFiniteSet(D), NEW w \in [D -> Nat], NEW g, Sums(D, w, g)
    PROVE  Adds(D, w, g)
<1>. DEFINE Good(s) == g[s] \in Nat /\ \A x \in s : g[s] = w[x] + g[s \ {x}]
            F == {n \in Nat : \A s \in SUBSET D : Cardinality(s) <= n => Good(s)}
<1>0. /\ DOMAIN g = SUBSET D /\ g = [s \in SUBSET D |-> g[s]] /\ g[{}] = 0
      /\ \A s \in SUBSET D : s # {} => g[s] = w[Chosen(s)] + g[s \ {Chosen(s)}]
  BY DEF Sums
<1>1. 0 \in F
  <2>1. \A s \in SUBSET D : Cardinality(s) <= 0 => s = {}
    BY SubsetSizes
  <2>2. Good({})
    BY <1>0
  <2>. QED
    BY <2>1, <2>2
<1>2. ASSUME NEW n \in Nat, n \in F
      PROVE  n + 1 \in F
  <2>1. ASSUME NEW s \in SUBSET D, Cardinality(s) <= n + 1, s # {}
        PROVE  Good(s)
    <3>. DEFINE c == Chosen(s)
                rest == s \ {c}
    <3>1. c \in s
      BY <2>1 DEF Chosen
    <3>. HIDE DEF c
    <3>2. \A x \in s : s \ {x} \in SUBSET D /\ Cardinality(s \ {x}) <= n /\ w[x] \in Nat
      BY <2>1, SubsetSizes
    <3>3. \A x \in s : Good(s \ {x})
      BY <1>2, <3>2
    <3>4. g[s] = w[c] + g[rest] /\ g[rest] \in Nat /\ w[c] \in Nat
      BY <1>0, <2>1, <3>1, <3>2, <3>3 DEF c
    <3>5. ASSUME NEW x \in s, x # c
          PROVE  g[s] = w[x] + g[s \ {x}]
      <4>1. rest \ {x} = (s \ {x}) \ {c}
        OBVIOUS
      <4>2. g[rest] = w[x] + g[rest \ {x}]
        BY <3>1, <3>3, <3>5
      <4>3. g[s \ {x}] = w[c] + g[(s \ {x}) \ {c}]
        BY <3>1, <3>3, <3>5
      <4>4. g[rest \ {x}] \in Nat
        <5>1. rest \ {x} \in SUBSET D /\ Cardinality(rest) <= n /\ x \in rest
          BY <3>1, <3>2, <3>5
        <5>2. Cardinality(rest \ {x}) <= n
          BY <3>1, <3>2, <5>1, SubsetSizes
        <5>. QED
          BY <1>2, <5>1, <5>2
      <4>. QED
        BY <3>2, <3>4, <4>1, <4>2, <4>3, <4>4
    <3>6. \A x \in s : g[s] = w[x] + g[s \ {x}]
      <4>1. ASSUME NEW x \in s
            PROVE  g[s] = w[x] + g[s \ {x}]
        <5>1. CASE x = c
          BY <3>4, <5>1
        <5>2. CASE x # c
          BY <3>5, <5>2
        <5>. QED
          BY <5>1, <5>2
      <4>. QED
        BY <4>1
    <3>7. g[s] \in Nat
      BY <3>4
    <3>. QED
      BY <3>6, <3>7
  <2>2. Good({})
    BY <1>0
  <2>. HIDE DEF Good
  <2>. QED
    BY <2>1, <2>2
<1>. HIDE DEF F
<1>3. Nat \subseteq F
  BY <1>1, <1>2, SetInduction
<1>4. \A s \in SUBSET D : Good(s)
  BY <1>3, FS_CardinalityType, SubsetSizes DEF F
<1>. QED
  BY <1>0, <1>4 DEF Adds

LEMMA SumIsSums ==
    ASSUME NEW D, IsFiniteSet(D), NEW w \in [D -> Nat]
    PROVE  \E g : Adds(D, w, g) /\ SumFunction(w) = g[D]
<1>1. \E g : Sums(DOMAIN w, w, g)
  BY SumsExist
<1>2. \E g : Sums(DOMAIN w, w, g) /\ SumFunction(w) = g[DOMAIN w]
  BY <1>1 DEF SumFunction, SumFunctionOnSet, FoldFunctionOnSet, MapThenFoldSet, Sums, Chosen
<1>3. DOMAIN w = D
  OBVIOUS
<1>4. PICK g : Sums(D, w, g) /\ SumFunction(w) = g[D]
  BY <1>2, <1>3
<1>5. Adds(D, w, g)
  BY <1>4, AnySummand, Zenon
<1>. QED
  BY <1>4, <1>5

LEMMA SumOfNone ==
    ASSUME NEW D, IsFiniteSet(D), NEW w \in [D -> Nat], \A x \in D : w[x] = 0
    PROVE  SumFunction(w) = 0
<1>1. PICK g : Adds(D, w, g) /\ SumFunction(w) = g[D]
  BY SumIsSums
<1>2. /\ g \in [SUBSET D -> Nat] /\ g[{}] = 0
      /\ \A s \in SUBSET D : \A x \in s : g[s] = w[x] + g[s \ {x}]
  BY <1>1 DEF Adds
<1>. DEFINE F == {s \in SUBSET D : g[s] = 0}
<1>3. {} \in F
  BY <1>2
<1>4. ASSUME NEW s \in SUBSET D, NEW x \in s, s \ {x} \in F
      PROVE  s \in F
  BY <1>2, <1>4
<1>. HIDE DEF F
<1>5. D \in F
  BY <1>3, <1>4, SubsetInduction
<1>. QED
  BY <1>1, <1>5 DEF F

\* A sum changes by what one summand changes.
LEMMA SumChanges ==
    ASSUME NEW D, IsFiniteSet(D), NEW w \in [D -> Nat], NEW v \in [D -> Nat],
           NEW x \in D, \A y \in D : y # x => v[y] = w[y]
    PROVE  /\ SumFunction(v) \in Nat /\ SumFunction(w) \in Nat
           /\ SumFunction(v) = SumFunction(w) + v[x] - w[x]
<1>1. PICK g : Adds(D, w, g) /\ SumFunction(w) = g[D]
  BY SumIsSums
<1>2. PICK h : Adds(D, v, h) /\ SumFunction(v) = h[D]
  BY SumIsSums
<1>3. /\ g \in [SUBSET D -> Nat] /\ g[{}] = 0
      /\ \A s \in SUBSET D : \A y \in s : g[s] = w[y] + g[s \ {y}]
  BY <1>1 DEF Adds
<1>4. /\ h \in [SUBSET D -> Nat] /\ h[{}] = 0
      /\ \A s \in SUBSET D : \A y \in s : h[s] = v[y] + h[s \ {y}]
  BY <1>2 DEF Adds
<1>. DEFINE F == {s \in SUBSET D : x \notin s => g[s] = h[s]}
<1>5. {} \in F
  BY <1>3, <1>4
<1>6. ASSUME NEW s \in SUBSET D, NEW y \in s, s \ {y} \in F
      PROVE  s \in F
  BY <1>3, <1>4, <1>6
<1>. HIDE DEF F
<1>7. D \ {x} \in F
  <2>1. IsFiniteSet(D \ {x}) /\ \A s \in SUBSET (D \ {x}) : s \in SUBSET D
    BY FS_Subset
  <2>. QED
    BY <1>5, <1>6, <2>1, SubsetInduction
<1>8. g[D \ {x}] = h[D \ {x}]
  BY <1>7 DEF F
<1>9. g[D] = w[x] + g[D \ {x}] /\ h[D] = v[x] + h[D \ {x}]
  BY <1>3, <1>4
<1>10. g[D \ {x}] \in Nat /\ g[D] \in Nat /\ h[D] \in Nat /\ w[x] \in Nat /\ v[x] \in Nat
  BY <1>3, <1>4
<1>. QED
  BY <1>1, <1>2, <1>8, <1>9, <1>10
----------------------------------------------------------------------------
(* Counts *)

Count(e) == SumFunction([i \in Imports |-> inserted[i][e]])

\* A batch is of people, and what it inserted no table and no other batch has.
BatchOfPeople(i) == size[i] > 0 => file[i] \in People
NotInTable(i) == open[i] \cap table[file[i]] = {}
ApartFrom(i, j) == file[j] = file[i] => open[i] \cap open[j] = {}

NobodyFailed == \A i \in Imports : outcome[i] # "failed"
Counted(e) ==
    /\ Count(e) <= Cardinality(table[e])
    /\ e \in People /\ NobodyFailed => Count(e) = Cardinality(table[e])

Batches ==
    \A i \in Imports :
        /\ BatchOfPeople(i) /\ NotInTable(i)
        /\ \A j \in Imports \ {i} : ApartFrom(i, j)
Counts == \A e \in Entities : Counted(e)

CountInv == Inv /\ Batches /\ Counts

LEMMA TablesFinite ==
    ASSUME TypeOK, NEW e \in Entities
    PROVE  IsFiniteSet(table[e]) /\ Cardinality(table[e]) \in Nat
<1>1. IsFiniteSet(Keys(e))
  BY IdsAssumption, FS_Product DEF Keys
<1>. QED
  BY <1>1, FS_Subset, FS_CardinalityType DEF TypeOK

LEMMA CountStep ==
    ASSUME TypeOK, TypeOK', NEW i \in Imports, NEW e \in Entities,
           \A j \in Imports \ {i} : inserted'[j][e] = inserted[j][e]
    PROVE  /\ Count(e) \in Nat /\ Count(e)' \in Nat
           /\ Count(e)' = Count(e) + inserted'[i][e] - inserted[i][e]
<1>. DEFINE w == [j \in Imports |-> inserted[j][e]]
            v == [j \in Imports |-> inserted'[j][e]]
<1>1. w \in [Imports -> Nat] /\ v \in [Imports -> Nat]
  BY DEF TypeOK
<1>2. \A j \in Imports : j # i => v[j] = w[j]
  OBVIOUS
<1>3. v[i] = inserted'[i][e] /\ w[i] = inserted[i][e]
  OBVIOUS
<1>4. Count(e) = SumFunction(w) /\ Count(e)' = SumFunction(v)
  BY DEF Count
<1>. HIDE DEF w, v
<1>5. /\ SumFunction(v) \in Nat /\ SumFunction(w) \in Nat
      /\ SumFunction(v) = SumFunction(w) + v[i] - w[i]
  BY <1>1, <1>2, ImportsAssumption, SumChanges
<1>. QED
  BY <1>3, <1>4, <1>5

LEMMA CountInit == Init => CountInv
<1>. SUFFICES ASSUME Init PROVE CountInv
  OBVIOUS
<1>1. Inv
  BY InvInit
<1>2. Batches
  BY DEF Init, Batches, BatchOfPeople, NotInTable, ApartFrom
<1>3. ASSUME NEW e \in Entities
      PROVE  Counted(e)
  <2>. DEFINE w == [i \in Imports |-> inserted[i][e]]
  <2>1. w \in [Imports -> Nat] /\ \A i \in Imports : w[i] = 0
    BY DEF Init
  <2>2. Count(e) = SumFunction(w)
    BY DEF Count
  <2>. HIDE DEF w
  <2>3. Count(e) = 0
    BY <2>1, <2>2, ImportsAssumption, SumOfNone
  <2>4. Cardinality(table[e]) = 0
    BY FS_EmptySet DEF Init
  <2>. QED
    BY <2>3, <2>4 DEF Counted
<1>. QED
  BY <1>1, <1>2, <1>3 DEF CountInv, Counts

\* Who has failed stays failed.
LEMMA FailureStays ==
    ASSUME TypeOK, NEW i \in Imports, Step(i) \/ Fault(i)
    PROVE  NobodyFailed' => NobodyFailed
<1>1. \A j \in Imports \ {i} : outcome'[j] = outcome[j]
  BY StepIsLocal
<1>2. outcome[i] = "failed" => outcome'[i] = "failed"
  BY DEF TypeOK, Step, Fault, Begin, Unreadable, FinishFile, SkipInvalid, InsertRow, CommitBatch,
         RowRefused, DeadlockVictim, BatchFails, Abort, InsertLink, LinkRefused, LinkFails, Cut,
         RollBack, Fail, Running, AtLink, job
<1>. QED
  BY <1>1, <1>2 DEF NobodyFailed

\* A step that neither opens a batch nor writes a table.
LEMMA QuietStep ==
    ASSUME CountInv, NEW i \in Imports, Step(i) \/ Fault(i),
           table' = table, inserted' = inserted, BatchOfPeople(i)',
           open'[i] = {} \/ (open'[i] = open[i] /\ file'[i] = file[i])
    PROVE  Batches' /\ Counts'
<1>. USE DEF CountInv, Inv
<1>1. \A j \in Imports \ {i} : size'[j] = size[j] /\ open'[j] = open[j] /\ file'[j] = file[j]
  BY StepIsLocal
<1>2. ASSUME NEW j \in Imports
      PROVE  (BatchOfPeople(j) /\ NotInTable(j))'
  <2>1. CASE j = i
    BY <2>1 DEF Batches, NotInTable
  <2>2. CASE j # i
    BY <1>1, <2>2 DEF Batches, BatchOfPeople, NotInTable
  <2>. QED
    BY <2>1, <2>2
<1>3. ASSUME NEW j \in Imports, NEW k \in Imports \ {j}
      PROVE  ApartFrom(j, k)'
  BY <1>1 DEF Batches, ApartFrom
<1>4. Counts'
  BY FailureStays DEF Counts, Counted, Count
<1>. QED
  BY <1>2, <1>3, <1>4 DEF Batches

LEMMA InsertRowCounts ==
    ASSUME CountInv, NEW i \in Imports, InsertRow(i)
    PROVE  Batches' /\ Counts'
<1>. USE DEF CountInv, Inv
<1>1. \A j \in Imports \ {i} : size'[j] = size[j] /\ open'[j] = open[j] /\ file'[j] = file[j]
  BY StepIsLocal DEF Step
<1>2. /\ table' = table /\ inserted' = inserted /\ file' = file /\ outcome' = outcome
      /\ file[i] \in People
      /\ \/ open'[i] = open[i]
         \/ open'[i] = open[i] \cup {Row(i).id} /\ Row(i).id \notin table[file[i]]
      /\ \A k \in Imports \ {i} : ~WaitsFor(i, k)
  BY DEF InsertRow, TypeOK, Executing, Advance
<1>3. \A k \in Imports \ {i} : file[k] = file[i] => Row(i).id \notin open[k]
  BY <1>2 DEF InsertRow, WaitsFor, Holds
<1>4. (BatchOfPeople(i) /\ NotInTable(i))'
  BY <1>2 DEF Batches, BatchOfPeople, NotInTable
<1>5. ASSUME NEW j \in Imports \ {i}
      PROVE  (BatchOfPeople(j) /\ NotInTable(j) /\ ApartFrom(i, j) /\ ApartFrom(j, i))'
  BY <1>1, <1>2, <1>3 DEF Batches, BatchOfPeople, NotInTable, ApartFrom
<1>6. ASSUME NEW j \in Imports \ {i}, NEW k \in Imports \ {i, j}
      PROVE  ApartFrom(j, k)'
  BY <1>1 DEF Batches, ApartFrom
<1>7. Counts'
  BY <1>2 DEF Counts, Counted, Count, NobodyFailed
<1>. QED
  BY <1>4, <1>5, <1>6, <1>7 DEF Batches

\* What a batch inserted is new to the table: the count grows with the table.
LEMMA CommitCounts ==
    ASSUME CountInv, TypeOK', NEW i \in Imports, CommitBatch(i)
    PROVE  Batches' /\ Counts'
<1>. USE DEF CountInv, Inv
<1>1. \A j \in Imports \ {i} : size'[j] = size[j] /\ open'[j] = open[j] /\ file'[j] = file[j]
  BY StepIsLocal DEF Step
<1>. DEFINE f == file[i]
            n == Cardinality(open[i])
<1>2. /\ f \in People /\ f \in Entities /\ file' = file /\ outcome' = outcome
      /\ size'[i] = 0 /\ open'[i] = {}
      /\ table'[f] = table[f] \cup open[i] /\ \A e \in Entities \ {f} : table'[e] = table[e]
      /\ \A e \in Entities \ {f} : inserted'[i][e] = inserted[i][e]
      /\ \A j \in Imports \ {i} : inserted'[j] = inserted[j]
      /\ inserted'[i][f] = IF Running(i) THEN inserted[i][f] + n ELSE inserted[i][f]
  BY DEF CommitBatch, TypeOK, Executing, NoBatch, job, Entities
<1>3. ASSUME NEW j \in Imports
      PROVE  (BatchOfPeople(j) /\ NotInTable(j))'
  <2>1. CASE j = i
    BY <1>2, <2>1 DEF BatchOfPeople, NotInTable
  <2>2. CASE j # i
    <3>1. file[j] \in Entities
      BY DEF TypeOK
    <3>. QED
      BY <1>1, <1>2, <2>2, <3>1 DEF Batches, BatchOfPeople, NotInTable, ApartFrom
  <2>. QED
    BY <2>1, <2>2
<1>4. ASSUME NEW j \in Imports, NEW k \in Imports \ {j}
      PROVE  ApartFrom(j, k)'
  BY <1>1, <1>2 DEF Batches, ApartFrom
<1>5. ASSUME NEW e \in Entities
      PROVE  Counted(e)'
  <2>1. /\ Count(e) \in Nat /\ Count(e)' \in Nat
        /\ Count(e)' = Count(e) + inserted'[i][e] - inserted[i][e]
    BY <1>2, CountStep
  <2>2. CASE e # f
    <3>1. Count(e)' = Count(e)
      BY <1>2, <2>1, <2>2 DEF TypeOK
    <3>. QED
      BY <1>2, <2>2, <3>1 DEF Counts, Counted, NobodyFailed
  <2>3. CASE e = f
    <3>1. Cardinality(table'[f]) = Cardinality(table[f]) + n /\ n \in Nat
      <4>1. IsFiniteSet(open[i]) /\ IsFiniteSet(table[f]) /\ open[i] \cap table[f] = {}
        BY <1>2, TablesFinite, IdsAssumption, FS_Subset DEF TypeOK, Batches, NotInTable
      <4>. QED
        <5>1. Cardinality(open[i]) \in Nat /\ Cardinality(table[f]) \in Nat
          BY <4>1, FS_CardinalityType
        <5>2. Cardinality(table[f] \cup open[i])
                = Cardinality(table[f]) + Cardinality(open[i]) - Cardinality(table[f] \cap open[i])
          BY <4>1, FS_Union
        <5>3. table[f] \cap open[i] = {}
          BY <4>1
        <5>4. Cardinality(table[f] \cap open[i]) = 0
          BY <5>3, FS_EmptySet
        <5>. QED
          BY <1>2, <5>1, <5>2, <5>4
    <3>2. Cardinality(table[f]) \in Nat /\ inserted[i][f] \in Nat
      BY <1>2, TablesFinite DEF TypeOK
    <3>3. /\ Count(f) <= Cardinality(table[f])
          /\ NobodyFailed' => Count(f) = Cardinality(table[f])
      BY <1>2 DEF Counts, Counted, NobodyFailed
    <3>. DEFINE c == Count(f)
                t == Cardinality(table[f])
    <3>6. /\ c \in Nat /\ t \in Nat /\ n \in Nat /\ c <= t
          /\ Cardinality(table[f])' = t + n
      BY <1>2, <2>1, <2>3, <3>1, <3>2, <3>3
    <3>. HIDE DEF c, t
    <3>4. CASE Running(i)
      <4>1. Count(f)' = Count(f) + n
        BY <1>2, <2>1, <2>3, <3>1, <3>2, <3>4
      <4>2. Count(f)' = c + n /\ (NobodyFailed' => c = t)
        BY <3>3, <4>1 DEF c, t
      <4>. HIDE DEF n, f
      <4>3. /\ Count(f)' <= Cardinality(table[f])'
            /\ NobodyFailed' => Count(f)' = Cardinality(table[f])'
        BY <3>6, <4>2
      <4>. QED
        BY <1>2, <2>3, <4>3 DEF Counted, f
    <3>5. CASE ~Running(i)
      <4>1. Count(f)' = Count(f) /\ ~NobodyFailed'
        BY <1>2, <2>1, <2>3, <3>2, <3>5 DEF CommitBatch, Executing, NobodyFailed
      <4>2. Count(f)' = c
        BY <4>1 DEF c
      <4>. HIDE DEF n, f
      <4>3. Count(f)' <= Cardinality(table[f])'
        BY <3>6, <4>2
      <4>. QED
        BY <1>2, <2>3, <4>1, <4>3 DEF Counted, f
    <3>. QED
      BY <3>4, <3>5
  <2>. QED
    BY <2>2, <2>3
<1>. QED
  BY <1>3, <1>4, <1>5 DEF Batches, Counts

\* A link is counted when its INSERT adds a row; one that fails may have added
\* a row nobody counts.
LEMMA LinkCounts ==
    ASSUME CountInv, TypeOK', NEW i \in Imports, InsertLink(i) \/ LinkFails(i)
    PROVE  Batches' /\ Counts'
<1>. USE DEF CountInv, Inv
<1>. DEFINE id == Row(i).id
            T  == table["links"]
<1>1. /\ file' = file /\ open' = open /\ size' = size /\ outcome' = outcome
      /\ \A e \in People : table'[e] = table[e]
      /\ \A j \in Imports, e \in People : inserted'[j][e] = inserted[j][e]
      /\ \A j \in Imports \ {i} : inserted'[j] = inserted[j]
  <2>1. CASE InsertLink(i)
    BY <2>1 DEF InsertLink, TypeOK, People, Entities
  <2>2. CASE LinkFails(i)
    <3>1. table' = table \/ table' = [table EXCEPT !["links"] = T \cup {id}]
      BY <2>2 DEF LinkFails
    <3>2. \A e \in People : table'[e] = table[e]
      BY <3>1 DEF TypeOK, People, Entities
    <3>. QED
      BY <2>2, <3>2 DEF LinkFails
  <2>. QED
    BY <2>1, <2>2
<1>2. Batches'
  <2>1. ASSUME NEW j \in Imports
        PROVE  (BatchOfPeople(j) /\ NotInTable(j))'
    <3>1. BatchOfPeople(j)'
      BY <1>1 DEF Batches, BatchOfPeople
    <3>2. CASE file[j] \in People
      <4>1. NotInTable(j)
        BY DEF Batches
      <4>2. NotInTable(j)'
        BY <1>1, <3>2, <4>1 DEF NotInTable
      <4>. QED
        BY <3>1, <4>2
    <3>3. CASE file[j] \notin People
      <4>1. open[j] = {}
        BY <3>3 DEF Batches, BatchOfPeople, JobInv, NothingOpen, TypeOK
      <4>. QED
        BY <1>1, <3>1, <4>1 DEF NotInTable
    <3>. QED
      BY <3>1, <3>2, <3>3
  <2>2. ASSUME NEW j \in Imports, NEW k \in Imports \ {j}
        PROVE  ApartFrom(j, k)'
    BY <1>1 DEF Batches, ApartFrom
  <2>. QED
    BY <2>1, <2>2 DEF Batches
<1>3. ASSUME NEW e \in People
      PROVE  Counted(e)'
  <2>1. e \in Entities /\ inserted'[i][e] = inserted[i][e] /\ inserted[i][e] \in Nat
    BY <1>1 DEF Entities, TypeOK
  <2>2. Count(e)' = Count(e)
    BY <1>1, <2>1, CountStep
  <2>. QED
    BY <1>1, <2>1, <2>2 DEF Counts, Counted, NobodyFailed
<1>4. Counted("links")'
  <2>1. "links" \in Entities /\ IsFiniteSet(T) /\ Cardinality(T) \in Nat
    BY TablesFinite DEF Entities
  <2>2. /\ Count("links") \in Nat /\ Count("links")' \in Nat
        /\ Count("links")' = Count("links") + inserted'[i]["links"] - inserted[i]["links"]
        /\ inserted[i]["links"] \in Nat
    <3>1. \A j \in Imports \ {i} : inserted'[j]["links"] = inserted[j]["links"]
      BY <1>1
    <3>2. inserted[i]["links"] \in Nat
      BY <2>1 DEF TypeOK
    <3>. QED
      BY <2>1, <3>1, <3>2, CountStep
  <2>3. Count("links") <= Cardinality(T) /\ "links" \notin People
    BY <2>1 DEF Counts, Counted, People
  <2>4. Cardinality(T \cup {id}) = IF id \in T THEN Cardinality(T) ELSE Cardinality(T) + 1
    BY <2>1, FS_AddElement
  <2>5. CASE InsertLink(i)
    <3>1. /\ table'["links"] = T \cup {id}
          /\ inserted'[i]["links"] = IF id \in T THEN inserted[i]["links"] ELSE inserted[i]["links"] + 1
      BY <2>1, <2>5 DEF InsertLink, TypeOK
    <3>2. Count("links")' <= Cardinality(table'["links"])
      BY <2>1, <2>2, <2>3, <2>4, <3>1
    <3>. QED
      BY <2>3, <3>2 DEF Counted
  <2>6. CASE LinkFails(i)
    <3>1. (table'["links"] = T \/ table'["links"] = T \cup {id}) /\ inserted' = inserted
      BY <2>1, <2>6 DEF LinkFails, TypeOK
    <3>2. Count("links")' = Count("links")
      BY <2>2, <3>1
    <3>3. Cardinality(table'["links"]) = Cardinality(T) \/ Cardinality(table'["links"]) = Cardinality(T) + 1
      BY <2>4, <3>1
    <3>4. Count("links")' <= Cardinality(table'["links"])
      <4>. DEFINE c == Count("links")
      <4>. HIDE DEF c, T
      <4>1. c \in Nat /\ Cardinality(T) \in Nat /\ c <= Cardinality(T) /\ Count("links")' = c
        BY <2>1, <2>2, <2>3, <3>2 DEF c
      <4>. QED
        BY <3>3, <4>1
    <3>. QED
      BY <2>3, <3>4 DEF Counted
  <2>. QED
    BY <2>5, <2>6
<1>. QED
  BY <1>2, <1>3, <1>4 DEF Counts, Entities

LEMMA StepCounts ==
    ASSUME CountInv, NEW i \in Imports, Step(i) \/ Fault(i)
    PROVE  Batches' /\ Counts'
<1>. USE DEF CountInv, Inv
<1>0. TypeOK'
  BY StepType
<1>1. size[i] = 0 => open[i] = {}
  BY DEF JobInv, NothingOpen
<1>2. CASE Begin(i) \/ Unreadable(i) \/ Cut(i) \/ SkipInvalid(i) \/ LinkRefused(i)
  <2>1. table' = table /\ inserted' = inserted /\ open' = open /\ file' = file /\ size' = size
    BY <1>2 DEF Begin, Unreadable, Cut, SkipInvalid, LinkRefused, Fail, Advance
  <2>2. BatchOfPeople(i)'
    BY <2>1 DEF Batches, BatchOfPeople
  <2>. QED
    BY <2>1, <2>2, QuietStep
<1>3. CASE FinishFile(i)
  <2>1. /\ table' = table /\ inserted' = inserted /\ open'[i] = {} /\ size'[i] = 0
    BY <1>1, <1>3 DEF FinishFile
  <2>2. BatchOfPeople(i)'
    BY <2>1 DEF BatchOfPeople
  <2>. QED
    BY <2>1, <2>2, QuietStep
<1>4. CASE Abort(i) \/ RollBack(i)
  <2>1. /\ table' = table /\ inserted' = inserted /\ open'[i] = {} /\ size'[i] = 0
    BY <1>4 DEF Abort, RollBack, NoBatch, TypeOK, job
  <2>2. BatchOfPeople(i)'
    BY <2>1 DEF BatchOfPeople
  <2>. QED
    BY <2>1, <2>2, QuietStep
<1>. QED
  BY <1>0, <1>2, <1>3, <1>4, InsertRowCounts, CommitCounts, LinkCounts
     DEF Step, Fault, RowRefused, DeadlockVictim, BatchFails

LEMMA CountNext == CountInv /\ [Next]_vars => CountInv'
<1>. SUFFICES ASSUME CountInv, [Next]_vars PROVE CountInv'
  OBVIOUS
<1>1. Inv'
  BY InvNext DEF CountInv
<1>2. CASE UNCHANGED vars
  <2>1. Batches'
    BY <1>2 DEF vars, job, CountInv, Batches, BatchOfPeople, NotInTable, ApartFrom
  <2>2. Counts'
    BY <1>2 DEF vars, job, CountInv, Counts, Counted, Count, NobodyFailed
  <2>. QED
    BY <1>1, <2>1, <2>2 DEF CountInv
<1>3. CASE Next
  BY <1>1, <1>3, StepCounts DEF Next, CountInv
<1>. QED
  BY <1>2, <1>3

----------------------------------------------------------------------------
(* Results *)

\* A row skipped as a duplicate is there, whatever the other jobs roll back.
THEOREM SkippedRowsArePresent == Spec => []OwnRowsPresent
<1>1. Inv => OwnRowsPresent
  BY DEF Inv, JobInv, PeopleLoaded, OwnRowsPresent
<1> QED
  BY <1>1, InvHolds, PTL

\* A job that is done has written or listed each of its links, and blames a
\* foreign key only for parents its own files do not hold; what it does not list
\* comes after a full list and is counted (importLinks, addError).
THEOREM NoLinkIsLost == Spec => []LinksAccounted
<1>1. ASSUME Inv, NEW i \in Imports, outcome[i] = "done", \A e \in Entities : Files[i][e].found
      PROVE  OnlyOverflow({k \in 1..Len(Files[i]["links"].rows) : ~LinkAccounted(i, k)}, report[i])
  <2>1. OnlyOverflow(Unlisted(i), report[i])
    BY <1>1 DEF Inv, JobInv, LinksBehind
  <2>2. Unlisted(i) = {k \in 1..Len(Files[i]["links"].rows) : ~LinkAccounted(i, k)}
    BY <1>1 DEF Unlisted, Passed
  <2> QED
    BY <2>1, <2>2
<1>2. Inv => LinksAccounted
  BY <1>1 DEF LinksAccounted
<1> QED
  BY <1>2, InvHolds, PTL

\* The counts of newly written rows over all jobs never exceed the rows that are
\* there, and for people they are exactly those rows while no job has failed:
\* execBatch counts the rows affected, a row another job wrote first is none.
THEOREM NoRowIsCountedTwice == Spec => []EachRowCountedOnce
<1>1. CountInv => EachRowCountedOnce
  BY DEF CountInv, Counts, Counted, Count, NobodyFailed, EachRowCountedOnce
<1> QED
  BY <1>1, CountInit, CountNext, PTL DEF Spec
============================================================================
