-------------------------------- MODULE Privacy --------------------------------
(***************************************************************************)
(* The privacy contour: the register of consents and the register of       *)
(* subjects' requests (vault.consent, vault.subject_request), while        *)
(* imports add people and days pass.  Calls of the admin API run at once;  *)
(* each statement sees what is committed when it starts.                   *)
(***************************************************************************)
EXTENDS Integers, FiniteSets

CONSTANTS
    Subjects,   \* people that are or will be imported
    TypeOf,     \* "student" or "guardian": the table a subject is in
    Imported,   \* the subjects at the start
    Ask,        \* Ask[r]: what the call r asks for
    Loads,      \* the sets of calls considered together
    DueDays,    \* _DUE_DAYS, scaled
    LastDay     \* bound on the clock

Calls    == DOMAIN Ask
Open     == {"new", "in_progress"}
Resolved == {"done", "rejected"}
Never    == -1

ASSUME CallsAssumption   == Loads \subseteq SUBSET Calls
ASSUME SubjectAssumption == Imported \subseteq Subjects /\ Subjects \subseteq DOMAIN TypeOf
ASSUME AskAssumption ==
    \A r \in Calls :
        /\ Ask[r].kind \in {"create", "import"} => Ask[r].subject \in Subjects
        /\ Ask[r].kind = "create" => Ask[r].type \in {"student", "guardian"}
        /\ Ask[r].kind = "update" => Ask[r].status \in Open \cup Resolved
ASSUME FiniteAssumption  == IsFiniteSet(Calls) /\ IsFiniteSet(Subjects)
ASSUME DaysAssumption    == DueDays \in Nat /\ LastDay \in Nat

VARIABLES
    day,        \* now()
    subjects,   \* rows of core.students and core.guardians
    consents,   \* rows of vault.consent, all granted: <<call, subject>>
    requests,   \* rows of vault.subject_request, by the call that made them
    pc,         \* where each call is: the statement it comes to, or its answer
    inserts,    \* the rows an open sync has inserted
    found,      \* what the call has computed and read so far
    past        \* the registers when the call arrived (history)

vars == <<day, subjects, consents, requests, pc, inserts, found, past>>

Active  == DOMAIN pc
\* pc: 1..5 are the statements of a call
New      == 0
Ok       == 6
NotFound == 7
Failed   == 8

Empty   == [x \in {} |-> x]
Request == [subject : Subjects, type : {"student", "guardian"}, status : Open \cup Resolved,
            due : DueDays..(LastDay + DueDays), resolved : {Never} \cup 0..LastDay]

TypeOK ==
    /\ day \in 0..LastDay /\ subjects \subseteq Subjects
    /\ consents \subseteq Active \X subjects
    /\ DOMAIN requests \subseteq Active /\ requests \in [DOMAIN requests -> Request]
    /\ \A id \in DOMAIN requests :
        requests[id].resolved # Never <=> requests[id].status \in Resolved
    /\ pc \in [Active -> New..Failed]
    /\ \A r \in Active : inserts[r] # {} => Ask[r].kind = "sync" /\ pc[r] = 2

Init ==
    /\ day = 0 /\ subjects = Imported /\ consents = {} /\ requests = Empty
    /\ \E load \in Loads :
        /\ pc = [r \in load |-> New]
        /\ inserts = [r \in load |-> {}]
        /\ found = [r \in load |-> Empty]
        /\ past = [r \in load |-> Empty]

\* Function f, and g where f is not defined.
Merge(f, g) == [x \in DOMAIN f \cup DOMAIN g |-> IF x \in DOMAIN f THEN f[x] ELSE g[x]]

At(r, kind, place) == pc[r] = place /\ Ask[r].kind = kind
Goto(r, place)     == pc' = [pc EXCEPT ![r] = place]
Found(r, data)     == found' = [found EXCEPT ![r] = Merge(data, @)]
Covered            == {c[2] : c \in consents}

Arrive(r) ==
    /\ pc[r] = New
    /\ past' = [past EXCEPT ![r] = [subjects |-> subjects, consents |-> consents,
                                    requests |-> DOMAIN requests, answered |-> {q \in Active : pc[q] = Ok}]]
    /\ Goto(r, 1)
    /\ UNCHANGED <<day, subjects, consents, requests, inserts, found>>

\* An import of the worker commits a subject.
ImportSubject(r) ==
    /\ At(r, "import", 1)
    /\ subjects' = subjects \cup {Ask[r].subject}
    /\ Goto(r, Ok)
    /\ UNCHANGED <<day, consents, requests, inserts, found, past>>

\* Days matter only to requests that are there or on their way.
Midnight ==
    /\ day < LastDay
    /\ \E r \in Active : Ask[r].kind = "create" /\ pc[r] > New
    /\ day' = day + 1
    /\ UNCHANGED <<subjects, consents, requests, pc, inserts, found, past>>

----------------------------------------------------------------------------
(* sync_consents *)

\* Variant (bug): no WHERE NOT EXISTS.
EverySubject == subjects

\* Students and guardians without any consent.
LackingConsent == subjects \ Covered

\* INSERT ... SELECT: no unique key stops two of them from taking one subject.
SyncInsert(r) ==
    /\ At(r, "sync", 1)
    /\ inserts' = [inserts EXCEPT ![r] = {<<r, s>> : s \in LackingConsent}]
    /\ Goto(r, 2)
    /\ UNCHANGED <<day, subjects, consents, requests, found, past>>

SyncCommit(r) ==
    /\ At(r, "sync", 2)
    /\ consents' = consents \cup inserts[r]
    /\ Found(r, [created |-> Cardinality(inserts[r])])
    /\ inserts' = [inserts EXCEPT ![r] = {}]
    /\ Goto(r, Ok)
    /\ UNCHANGED <<day, subjects, requests, past>>

\* The process or its connection dies before the commit.
SyncLost(r) ==
    /\ At(r, "sync", 2)
    /\ inserts' = [inserts EXCEPT ![r] = {}]
    /\ Goto(r, Failed)
    /\ UNCHANGED <<day, subjects, consents, requests, found, past>>

----------------------------------------------------------------------------
(* consent_kpi: five statements *)

\* Variant (bug): without max(..., 0).
PlainDifference(total, with) == total - with

SubjectsWithout(total, with) == IF total > with THEN total - with ELSE 0

\* No call revokes a consent, nor is one inserted that is not granted.
KpiRead(r) ==
    /\ Ask[r].kind = "kpi" /\ pc[r] \in 1..5
    /\ Found(r, CASE pc[r] = 1 -> [total |-> Cardinality(subjects), missing |-> Cardinality(LackingConsent)]
                  [] pc[r] = 2 -> [consents |-> Cardinality(consents)]
                  [] pc[r] = 3 -> [granted |-> Cardinality(consents)]
                  [] pc[r] = 4 -> [revoked |-> 0]
                  [] pc[r] = 5 -> [without |-> SubjectsWithout(found[r].total, Cardinality(Covered))])
    /\ Goto(r, IF pc[r] = 5 THEN Ok ELSE pc[r] + 1)
    /\ UNCHANGED <<day, subjects, consents, requests, inserts, past>>

----------------------------------------------------------------------------
(* Subjects' requests *)

Named(type, s) == s \in subjects /\ TypeOf[s] = type

\* The answer to create and to update: _request_item at the time of the read.
Item(id) ==
    LET row == requests[id]
    IN  Merge([id |-> id, read |-> day, named |-> Named(row.type, row.subject),
               overdue |-> row.resolved = Never /\ row.due < day /\ row.status \in Open], row)

\* now is taken before the INSERT; the subject is not checked.
ComputeDue(r) ==
    /\ At(r, "create", 1)
    /\ Found(r, [due |-> day + DueDays])
    /\ Goto(r, 2)
    /\ UNCHANGED <<day, subjects, consents, requests, inserts, past>>

CreateRequest(r) ==
    /\ At(r, "create", 2)
    /\ LET row == [subject |-> Ask[r].subject, type |-> Ask[r].type, status |-> "new",
                   due |-> found[r].due, resolved |-> Never]
       IN  requests' = Merge([q \in {r} |-> row], requests)
    /\ Goto(r, 3)
    /\ UNCHANGED <<day, subjects, consents, inserts, found, past>>

AnswerCreate(r) ==
    /\ At(r, "create", 3)
    /\ Found(r, [named |-> Named(Ask[r].type, Ask[r].subject), overdue |-> FALSE])
    /\ Goto(r, Ok)
    /\ UNCHANGED <<day, subjects, consents, requests, inserts, past>>

ResolveTime(r) ==
    /\ At(r, "update", 1)
    /\ Found(r, [resolved |-> IF Ask[r].status \in Resolved THEN day ELSE Never])
    /\ Goto(r, 2)
    /\ UNCHANGED <<day, subjects, consents, requests, inserts, past>>

\* Variant (bug): a resolution date once set is kept.
KeepResolved(r, row) ==
    [row EXCEPT !.status = Ask[r].status,
                !.resolved = IF found[r].resolved = Never THEN @ ELSE found[r].resolved]

Updated(r, row) == [row EXCEPT !.status = Ask[r].status, !.resolved = found[r].resolved]

\* Any status may follow any other.
UpdateStatus(r) ==
    /\ At(r, "update", 2)
    /\ LET id == Ask[r].request
       IN  /\ requests' = [q \in DOMAIN requests |->
                              IF q = id THEN Updated(r, requests[q]) ELSE requests[q]]
           /\ Goto(r, IF id \in DOMAIN requests THEN 3 ELSE NotFound)
    /\ UNCHANGED <<day, subjects, consents, inserts, found, past>>

\* The answer is looked up in a list of all requests, read later.
ReadRequests(r) ==
    /\ At(r, "update", 3) \/ At(r, "requests", 1)
    /\ Found(r, [items |-> {Item(id) : id \in IF Ask[r].kind = "update" THEN {Ask[r].request}
                                              ELSE DOMAIN requests}])
    /\ Goto(r, Ok)
    /\ UNCHANGED <<day, subjects, consents, requests, inserts, past>>

----------------------------------------------------------------------------
(* The card of a subject: its name, all consents, all requests *)

ReadCard(r) ==
    /\ Ask[r].kind = "card" /\ pc[r] \in 1..3
    /\ LET s == Ask[r].subject
       IN  Found(r, CASE pc[r] = 1 -> [named |-> Named(Ask[r].type, s)]
                      [] pc[r] = 2 -> [consents |-> {c \in consents : c[2] = s}]
                      [] pc[r] = 3 -> [items |-> {Item(id) : id \in
                                         {q \in DOMAIN requests : requests[q].subject = s}}])
    /\ Goto(r, IF pc[r] = 3 THEN Ok ELSE pc[r] + 1)
    /\ UNCHANGED <<day, subjects, consents, requests, inserts, past>>

\* list_consents, list_subjects: one statement each.
ReadRegister(r) ==
    /\ \/ At(r, "consents", 1) /\ Found(r, [register |-> consents])
       \/ At(r, "subjects", 1) /\ Found(r, [directory |-> subjects])
    /\ Goto(r, Ok)
    /\ UNCHANGED <<day, subjects, consents, requests, inserts, past>>

Next ==
    \/ Midnight
    \/ \E r \in Active :
        \/ Arrive(r) \/ ImportSubject(r)
        \/ SyncInsert(r) \/ SyncCommit(r) \/ SyncLost(r) \/ KpiRead(r)
        \/ ComputeDue(r) \/ CreateRequest(r) \/ AnswerCreate(r)
        \/ ResolveTime(r) \/ UpdateStatus(r) \/ ReadRequests(r)
        \/ ReadCard(r) \/ ReadRegister(r)

Spec == Init /\ [][Next]_vars

----------------------------------------------------------------------------
(* Properties *)

Answered(kind) == {r \in Active : Ask[r].kind = kind /\ pc[r] = Ok}

\* "Idempotently": a sync that answered left no subject it found without a
\* consent and reports its own rows, and two consents of one subject come only
\* from syncs that overlapped.
ConsentsCover ==
    /\ \A r \in Answered("sync") :
        /\ past[r].subjects \subseteq Covered
        /\ found[r].created = Cardinality({c \in consents : c[1] = r})
    /\ \A c, d \in consents :
        c # d /\ c[2] = d[2] => c \notin past[d[1]].consents /\ d \notin past[c[1]].consents

\* A request is reported overdue exactly while it is open and past the day it
\* was due, however often it was resolved and reopened before.
Deadline(item) == item.overdue <=> item.status \in Open /\ item.read > item.due

\* Answers made of several statements are never absurd: no KPI figure is
\* negative or counts more people without consent than there were; an update is
\* answered with its own status or that of an update that overlapped or followed
\* it; a card keeps every consent and request that was there; deadlines are shown.
AnswersTruthful ==
    /\ \A r \in Answered("kpi") :
        LET f == found[r]
        IN  /\ 0 <= f.without /\ f.without <= f.missing
            /\ f.consents + f.revoked <= f.granted
    /\ \A r \in Answered("update") : \A item \in found[r].items :
        \E q \in Active \ past[r].answered :
            /\ Ask[q].kind = "update" /\ Ask[q].request = Ask[r].request
            /\ Ask[q].status = item.status
    /\ \A r \in Answered("card") :
        /\ {c \in past[r].consents : c[2] = Ask[r].subject} \subseteq found[r].consents
        /\ {q \in past[r].requests : requests[q].subject = Ask[r].subject}
               \subseteq {item.id : item \in found[r].items}
    /\ \A r \in Answered("update") \cup Answered("requests") \cup Answered("card") :
        \A item \in found[r].items : Deadline(item)
=============================================================================
