----------------------------- MODULE Anonymizer -----------------------------
(***************************************************************************)
(* Anonymize jobs over students and guardians, while imports add people:   *)
(* each loads one snapshot, replaces the identifying fields by tokens kept *)
(* in vault.pseudonym_map (mode pseudonymize) or drops and masks them      *)
(* (mode anonymize), writes one file, and reports k-anonymity.             *)
(*                                                                         *)
(* No code changes or deletes a person, so a cell <<person, field>> stands *)
(* for its value.  A token is named after the run that drew it and the     *)
(* cell it was drawn for: newToken's random tokens do not collide.         *)
(***************************************************************************)
EXTENDS Integers, FiniteSetsExt

CONSTANTS
    Runs,        \* attempts of anonymize jobs
    Mode,        \* Mode[r]: payload.mode
    Dataset,     \* Dataset[r]: payload.dataset
    People,      \* ids of students and guardians; loading orders by id
    Kind,        \* Kind[p]: the table person p belongs to
    Filled,      \* the cells that are neither NULL nor empty
    Birth,       \* Birth[p]: birth_date as [year, day], or Missing
    Relation,    \* Relation[p]: relation_type, or Missing
    Missing,     \* the key "*"
    None,
    KThreshold   \* kThreshold

Modes    == {"pseudonymize", "anonymize"}
Datasets == {"students", "guardians"}

\* last_name, first_name, middle_name, email, phone
Fields == 1..5
Email  == 4

birthBandSize == 5

Dates == [year : Nat, day : Nat] \cup {Missing}

ASSUME RunsAssumption == Mode \in [Runs -> Modes] /\ Dataset \in [Runs -> Datasets]
ASSUME PeopleAssumption ==
    /\ IsFiniteSet(People) /\ People \subseteq Nat
    /\ Kind \in [People -> Datasets]
    /\ Filled \subseteq People \X Fields
    /\ Birth \in [People -> Dates]
    /\ DOMAIN Relation = People
ASSUME ThresholdAssumption == KThreshold \in Nat \ {0}

Tokens == Runs \X Filled

ASSUME NoneAssumption == None \notin Tokens
ASSUME MissingAssumption == Missing \notin [year : Nat, day : Nat]

VARIABLES
    rows,        \* the people committed to core.students and core.guardians
    map,         \* vault.pseudonym_map: the token of each cell, or None
    pc,          \* where each run is
    snapshot,    \* the people it loaded
    todo,        \* the cells it has still to tokenize
    out,         \* out[r][c]: the token in the output cell, or None
    check,       \* reversibility_check
    report       \* k_anonymity: k and k_before_generalization

vars == <<rows, map, pc, snapshot, todo, out, check, report>>

TypeOK ==
    /\ rows \subseteq People
    /\ map \in [Filled -> Tokens \cup {None}]
    /\ pc \in [Runs -> {"new", "transform", "written", "done", "failed"}]
    /\ snapshot \in [Runs -> SUBSET People]
    /\ todo \in [Runs -> SUBSET Filled]
    /\ out \in [Runs -> [Filled -> Tokens \cup {None}]]
    /\ check \in [Runs -> {"none", "ok", "missing", "mismatch", "error"}]
    /\ report \in [Runs -> [k : Nat, before : Nat]]

NothingOut == [c \in Filled |-> None]

Init ==
    /\ rows = {}
    /\ map = NothingOut
    /\ pc = [r \in Runs |-> "new"]
    /\ snapshot = [r \in Runs |-> {}]
    /\ todo = [r \in Runs |-> {}]
    /\ out = [r \in Runs |-> NothingOut]
    /\ check = [r \in Runs |-> "none"]
    /\ report = [r \in Runs |-> [k |-> 0, before |-> 0]]

----------------------------------------------------------------------------
(* k-anonymity *)

\* The records that share their quasi-identifier with p.
Class(records, key, p) == {q \in records : key[q] = key[p]}

\* Variant (bug): no records are not a case of their own.
ComputeKWithoutGuard(records, key) ==
    IF records = {} THEN -1
    ELSE Min({Cardinality(Class(records, key, p)) : p \in records})

\* The size of the smallest class.
ComputeK(records, key) ==
    IF records = {} THEN 0
    ELSE Min({Cardinality(Class(records, key, p)) : p \in records})

GeneralizeBirth(date) ==
    IF date = Missing THEN Missing ELSE date.year - (date.year % birthBandSize)

Bands == [p \in People |-> GeneralizeBirth(Birth[p])]

\* The quasi-identifier that the rows of the output carry.
QuasiIdentifier(r) ==
    IF Dataset[r] = "guardians" THEN Relation
    ELSE IF Mode[r] = "anonymize" THEN Bands ELSE Birth

Generalizes(r) == Mode[r] = "anonymize" /\ Dataset[r] = "students"

\* Variant (bug): k is measured on the rows of the database, not of the output.
MeasureCurrentRows(r) ==
    LET current == {p \in rows : Kind[p] = Dataset[r]}
    IN  [k |-> ComputeK(current, QuasiIdentifier(r)),
         before |-> IF Generalizes(r) THEN ComputeK(current, Birth) ELSE 0]

\* Pseudonymized guardians get no such report.
KAnonReport(r) ==
    [k |-> IF Mode[r] = "pseudonymize" /\ Dataset[r] = "guardians" THEN 0
           ELSE ComputeK(snapshot[r], QuasiIdentifier(r)),
     before |-> IF Generalizes(r) THEN ComputeK(snapshot[r], Birth) ELSE 0]

Compliant(r) == report[r].k >= KThreshold

----------------------------------------------------------------------------
(* vault.pseudonym_map *)

\* Variant (bug): ON CONFLICT DO UPDATE SET pseudonym.
UpsertOverwrites(cell, token) == map' = [map EXCEPT ![cell] = token]

\* INSERT ... ON CONFLICT DO UPDATE SET original_hash: the first token stays.
UpsertPseudonym(cell, token) ==
    map' = [map EXCEPT ![cell] = IF @ = None THEN token ELSE @]

\* The cells of students that a token restores.
RestorePseudonym(token) == {c \in Filled : Kind[c[1]] = "students" /\ map[c] = token}

----------------------------------------------------------------------------
(* A run *)

CellsOf(people) == {c \in Filled : c[1] \in people}

\* Persons are taken by id, fields in their order.
Before(c, d) == c[1] < d[1] \/ (c[1] = d[1] /\ c[2] <= d[2])
First(cells) == CHOOSE c \in cells : \A d \in cells : Before(c, d)

\* Imports commit batches of people.
Import(batch) ==
    /\ batch # {}
    /\ rows' = rows \cup batch
    /\ UNCHANGED <<map, pc, snapshot, todo, out, check, report>>

\* LoadStudents, LoadGuardians: one statement, one snapshot.
Load(r) ==
    /\ pc[r] = "new"
    /\ pc' = [pc EXCEPT ![r] = "transform"]
    /\ snapshot' = [snapshot EXCEPT ![r] = {p \in rows : Kind[p] = Dataset[r]}]
    /\ todo' = [todo EXCEPT ![r] =
                   IF Mode[r] = "pseudonymize" THEN CellsOf(snapshot'[r]) ELSE {}]
    /\ UNCHANGED <<rows, map, out, check, report>>

\* Variant (bug): the output gets the token just drawn.
TokenizeIgnoresMap(r) ==
    /\ pc[r] = "transform" /\ todo[r] # {}
    /\ LET cell == First(todo[r])
       IN  /\ UpsertPseudonym(cell, <<r, cell>>)
           /\ out' = [out EXCEPT ![r][cell] = <<r, cell>>]
           /\ todo' = [todo EXCEPT ![r] = @ \ {cell}]
    /\ UNCHANGED <<rows, pc, snapshot, check, report>>

\* Variant (bug): a cell whose upsert fails is left empty.
TokenizeSkipsErrors(r) ==
    /\ pc[r] = "transform" /\ todo[r] # {}
    /\ LET cell == First(todo[r])
       IN  /\ todo' = [todo EXCEPT ![r] = @ \ {cell}]
           /\ \/ /\ UpsertPseudonym(cell, <<r, cell>>)
                 /\ out' = [out EXCEPT ![r][cell] = map'[cell]]
              \/ UNCHANGED <<map, out>>
    /\ UNCHANGED <<rows, pc, snapshot, check, report>>

Tokenize(r) ==
    /\ pc[r] = "transform" /\ todo[r] # {}
    /\ LET cell == First(todo[r])
       IN  /\ UpsertPseudonym(cell, <<r, cell>>)
           /\ out' = [out EXCEPT ![r][cell] = map'[cell]]
           /\ todo' = [todo EXCEPT ![r] = @ \ {cell}]
    /\ UNCHANGED <<rows, pc, snapshot, check, report>>

WriteCSV(r) ==
    /\ pc[r] = "transform" /\ todo[r] = {}
    /\ pc' = [pc EXCEPT ![r] = "written"]
    /\ UNCHANGED <<rows, map, snapshot, todo, out, check, report>>

\* The first email emitted is restored through the map, students only.
Sampled(r) == {c \in CellsOf(snapshot[r]) : c[2] = Email}

VerifyReversible(r) ==
    IF Mode[r] = "anonymize" \/ Dataset[r] = "guardians" \/ Sampled(r) = {}
    THEN {"none"}
    ELSE LET sample   == First(Sampled(r))
             restored == RestorePseudonym(out[r][sample])
         IN  {IF restored = {} THEN "missing"
              ELSE IF restored = {sample} THEN "ok" ELSE "mismatch",
              "error"}     \* a failing query is reported, too

Finish(r) ==
    /\ pc[r] = "written"
    /\ pc' = [pc EXCEPT ![r] = "done"]
    /\ \E verdict \in VerifyReversible(r) : check' = [check EXCEPT ![r] = verdict]
    /\ report' = [report EXCEPT ![r] = KAnonReport(r)]
    /\ UNCHANGED <<rows, map, snapshot, todo, out>>

\* A query or the file fails, or the worker dies: an upsert under way may have
\* been applied, what the run had in memory is gone.
Fails(r) ==
    /\ pc[r] \in {"new", "transform", "written"}
    /\ pc' = [pc EXCEPT ![r] = "failed"]
    /\ \/ UNCHANGED map
       \/ /\ pc[r] = "transform" /\ todo[r] # {}
          /\ UpsertPseudonym(First(todo[r]), <<r, First(todo[r])>>)
    /\ snapshot' = [snapshot EXCEPT ![r] = {}]
    /\ todo' = [todo EXCEPT ![r] = {}]
    /\ out' = [out EXCEPT ![r] = NothingOut]
    /\ UNCHANGED <<rows, check, report>>

Next ==
    \/ \E batch \in SUBSET (People \ rows) : Import(batch)
    \/ \E r \in Runs : Load(r) \/ Tokenize(r) \/ WriteCSV(r) \/ Finish(r) \/ Fails(r)

Spec == Init /\ [][Next]_vars

----------------------------------------------------------------------------
(* Properties *)

Written(r) == pc[r] \in {"written", "done"}

\* A token that any run ever put into its output is, from then on, the one the
\* map holds for that field: runs that overlap, fail half-way or are repeated
\* agree on every field, and every token written can be restored.
OneTokenForever ==
    \A r \in Runs, c \in Filled : out[r][c] # None => out[r][c] = map[c]

\* No run that ends reports its own output as not restorable, whatever other
\* runs do between its upserts and the check.
SelfCheckPasses ==
    \A r \in Runs : check[r] \notin {"missing", "mismatch"}

\* A written file has a token in every filled cell of every record in pseudonymize
\* mode, and in anonymize mode none.
OutputComplete ==
    \A r \in Runs, c \in Filled :
        Written(r) =>
            (out[r][c] # None <=> Mode[r] = "pseudonymize" /\ c \in CellsOf(snapshot[r]))

\* The report of an anonymized dataset describes the file: it is compliant exactly
\* if each record of the file shares its quasi-identifier with KThreshold - 1 others,
\* and generalization never made things worse.
AnonymityReported ==
    \A r \in Runs :
        pc[r] = "done" /\ Mode[r] = "anonymize" =>
            /\ report[r].before <= report[r].k
            /\ Compliant(r) <=>
                 /\ snapshot[r] # {}
                 /\ \A p \in snapshot[r] :
                        Cardinality(Class(snapshot[r], QuasiIdentifier(r), p)) >= KThreshold
============================================================================
