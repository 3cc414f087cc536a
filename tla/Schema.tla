--------------------------------- MODULE Schema ---------------------------------
(***************************************************************************)
(* The database schema as Alembic's migrations make and unmake it: what    *)
(* each revision creates, alters and drops, in the order of the code, and  *)
(* what that does to the rows.  A migration that meets an object it did    *)
(* not expect fails as a whole.  Columns and indexes that follow their     *)
(* table are left out; the five PII columns of a table stand for one.      *)
(***************************************************************************)
EXTENDS Integers, Sequences, FiniteSets

\* Before the first migration: the schemas and extensions only.
EmptyDatabase ==
    [revision |-> 0, ok |-> TRUE, tables |-> {}, refs |-> {}, parts |-> {},
     execute |-> [f \in {} |-> {}], key |-> 0, keys |-> 0, vault |-> {},
     data |-> [t \in {} |-> {}]]

----------------------------------------------------------------------------
(* Operations *)

Op(kind, what, on)  == [kind |-> kind, what |-> what, on |-> on]
Create(t, refs)     == Op("create", t, refs)
Drop(t)             == Op("drop", t, {})
AddPart(t, part)        == Op("add", part, t)
DropPart(t, part)     == Op("remove", part, t)
Reference(t, other) == Op("reference", other, t)
Unlink(t, other)    == Op("unlink", other, t)
Function(f)         == Op("function", f, {})
DropFunction(f)     == Op("dropFunction", f, {})
Grant(f, role)      == Op("grant", f, role)
Revoke(f, role)     == Op("revoke", f, role)
VaultGrant(t)       == Op("vaultGrant", t, {})
VaultRevoke(t)      == Op("vaultRevoke", t, {})
NewKey              == Op("newKey", "pii", {})
Encrypt(t)          == Op("encrypt", t, {})
Decrypt(t)          == Op("decrypt", t, {})

\* The application role owns the functions, but is no superuser: without a
\* grant to itself or to PUBLIC it may not call them.
Executable(db, f) == f \in DOMAIN db.execute /\ db.execute[f] \cap {"PUBLIC", "CURRENT_USER"} # {}

Possible(op, db) ==
    CASE op.kind = "create"       -> op.what \notin db.tables /\ op.on \subseteq db.tables
      [] op.kind = "drop"         -> op.what \in db.tables /\ ~ \E t \in db.tables : <<t, op.what>> \in db.refs
      [] op.kind = "add"          -> op.on \in db.tables /\ <<op.on, op.what>> \notin db.parts
      [] op.kind = "remove"       -> <<op.on, op.what>> \in db.parts
      [] op.kind = "reference"    -> {op.on, op.what} \subseteq db.tables
      [] op.kind = "unlink"       -> <<op.on, op.what>> \in db.refs
      [] op.kind \in {"grant", "revoke"} -> op.what \in DOMAIN db.execute
      [] op.kind \in {"vaultGrant", "vaultRevoke"} -> op.what \in db.tables
      [] op.kind = "newKey"       -> "encryption_keys" \in db.tables
      [] op.kind = "encrypt"      -> Executable(db, "encrypt_pii") /\ \A row \in db.data[op.what] : row.key = 0
      [] op.kind = "decrypt"      -> Executable(db, "decrypt_pii") /\ \A row \in db.data[op.what] : row.key = db.key
      [] OTHER                    -> TRUE

Keyed(rows, key) == {[row EXCEPT !.key = key] : row \in rows}

Effect(op, db) ==
    CASE op.kind = "create" ->
            [db EXCEPT !.tables = @ \cup {op.what}, !.refs = @ \cup {<<op.what, t>> : t \in op.on},
                       !.data = [t \in DOMAIN @ \cup {op.what} |-> IF t = op.what THEN {} ELSE @[t]]]
      [] op.kind = "drop" ->
            [db EXCEPT !.tables = @ \ {op.what}, !.refs = {r \in @ : r[1] # op.what},
                       !.parts = {p \in @ : p[1] # op.what}, !.vault = @ \ {op.what},
                       !.key = IF op.what = "encryption_keys" THEN 0 ELSE @,
                       !.data = [t \in DOMAIN @ \ {op.what} |-> @[t]]]
      [] op.kind = "add"          -> [db EXCEPT !.parts = @ \cup {<<op.on, op.what>>}]
      [] op.kind = "remove" ->
            [db EXCEPT !.parts = @ \ {<<op.on, op.what>>},
                       !.data[op.on] = IF op.what = "user_id" THEN {[row EXCEPT !.user = "none"] : row \in @} ELSE @]
      [] op.kind = "reference"    -> [db EXCEPT !.refs = @ \cup {<<op.on, op.what>>}]
      [] op.kind = "unlink"       -> [db EXCEPT !.refs = @ \ {<<op.on, op.what>>}]
      [] op.kind = "function"     -> [db EXCEPT !.execute = [f \in DOMAIN @ \cup {op.what} |->
                                         IF f = op.what THEN {"PUBLIC", "CURRENT_USER"} ELSE @[f]]]
      [] op.kind = "dropFunction" -> [db EXCEPT !.execute = [f \in DOMAIN @ \ {op.what} |-> @[f]]]
      [] op.kind = "grant"        -> [db EXCEPT !.execute[op.what] = @ \cup {op.on}]
      [] op.kind = "revoke"       -> [db EXCEPT !.execute[op.what] = @ \ {op.on}]
      [] op.kind = "vaultGrant"   -> [db EXCEPT !.vault = @ \cup {op.what}]
      [] op.kind = "vaultRevoke"  -> [db EXCEPT !.vault = @ \ {op.what}]
      [] op.kind = "newKey"       -> [db EXCEPT !.key = db.keys + 1, !.keys = @ + 1]
      [] op.kind = "encrypt"      -> [db EXCEPT !.data[op.what] = Keyed(@, db.key), !.parts = @ \cup {<<op.what, "bytea">>}]
      [] op.kind = "decrypt"      -> [db EXCEPT !.data[op.what] = Keyed(@, 0), !.parts = @ \ {<<op.what, "bytea">>}]

RunOp(db, op)  == IF db.ok /\ Possible(op, db) THEN Effect(op, db) ELSE [db EXCEPT !.ok = FALSE]
\* Makes TLC evaluate what a step starts from once.
TheOne(S) == CHOOSE x \in S : TRUE
RunOps(ops, db) ==
    LET after[k \in 0..Len(ops)] == IF k = 0 THEN db ELSE TheOne({RunOp(d, ops[k]) : d \in {after[k - 1]}})
    IN  after[Len(ops)]

----------------------------------------------------------------------------
(* Revisions *)

\* c1a2b3d4e5f6
InitialUp ==
    << Create("jobs", {}), AddPart("jobs", "idx_jobs_status"), Create("students", {}), Create("guardians", {}),
       Create("student_guardian", {"students", "guardians"}), Create("pseudonym_map", {}), VaultGrant("pseudonym_map") >>
InitialDown ==
    << VaultRevoke("pseudonym_map"), Drop("pseudonym_map"), Drop("student_guardian"), Drop("guardians"),
       Drop("students"), DropPart("jobs", "idx_jobs_status"), Drop("jobs") >>

\* a1b2c3d4e5f6: access and learning
AccountTables ==
    << Create("roles", {}), Create("users", {}), Create("user_roles", {"users", "roles"}),
       AddPart("students", "user_id"), Reference("students", "users"),
       AddPart("guardians", "user_id"), Reference("guardians", "users") >>
LearningTables ==
    << Create("courses", {"users"}), Create("groups", {"courses", "users"}),
       Create("enrollments", {"students", "groups"}), Create("activities", {}) >>

\* a1b2c3d4e5f6: the key, the functions and the columns they encrypt
EncryptionOfPii ==
    << Create("encryption_keys", {}), NewKey, Function("encrypt_pii"), Function("decrypt_pii"),
       Grant("encrypt_pii", "PUBLIC"), Grant("decrypt_pii", "PUBLIC"), VaultGrant("encryption_keys"),
       Encrypt("students"), Encrypt("guardians") >>
ConsentTable == << Create("consent", {}), VaultGrant("consent") >>

AccountsDown ==
    << VaultRevoke("consent"), Drop("consent"), Decrypt("guardians"), Decrypt("students"),
       DropFunction("decrypt_pii"), DropFunction("encrypt_pii"),
       VaultRevoke("encryption_keys"), Drop("encryption_keys"),
       Drop("activities"), Drop("enrollments"), Drop("groups"), Drop("courses"),
       Unlink("students", "users"), DropPart("students", "user_id"),
       Unlink("guardians", "users"), DropPart("guardians", "user_id"),
       Drop("user_roles"), Drop("users"), Drop("roles") >>

\* Variant (bug): the owner is taken to keep EXECUTE, as the docstring has it.
GrantsUpImplicit == << Revoke("encrypt_pii", "PUBLIC"), Revoke("decrypt_pii", "PUBLIC") >>

\* b2c3d4e5f6a7
GrantsUp ==
    << Revoke("encrypt_pii", "PUBLIC"), Revoke("decrypt_pii", "PUBLIC"),
       Grant("encrypt_pii", "CURRENT_USER"), Grant("decrypt_pii", "CURRENT_USER") >>
GrantsDown ==
    << Revoke("encrypt_pii", "CURRENT_USER"), Revoke("decrypt_pii", "CURRENT_USER"),
       Grant("encrypt_pii", "PUBLIC"), Grant("decrypt_pii", "PUBLIC") >>

\* c3d4e5f6a7b8
RequestsUp ==
    << Create("subject_request", {}), AddPart("subject_request", "idx_subject_request_status"), VaultGrant("subject_request") >>
RequestsDown ==
    << VaultRevoke("subject_request"), DropPart("subject_request", "idx_subject_request_status"), Drop("subject_request") >>

\* d4e5f6a7b8c9
PortalUp ==
    << Create("modules", {"courses"}), AddPart("modules", "ix_modules_course_id"),
       Create("lessons", {"modules"}), AddPart("lessons", "ix_lessons_module_id"),
       AddPart("enrollments", "progress"), AddPart("enrollments", "ck_enrollments_progress"),
       Create("schedule_slots", {"groups"}), AddPart("schedule_slots", "ix_schedule_slots_group_id"),
       Create("student_stats", {"students"}), Create("badges", {}), Create("student_badges", {"students", "badges"}) >>

\* Variant (bug): a table is forgotten.
PortalDownShort ==
    << Drop("student_badges"), Drop("badges"),
       DropPart("schedule_slots", "ix_schedule_slots_group_id"), Drop("schedule_slots"),
       DropPart("enrollments", "ck_enrollments_progress"), DropPart("enrollments", "progress"),
       DropPart("lessons", "ix_lessons_module_id"), Drop("lessons"),
       DropPart("modules", "ix_modules_course_id"), Drop("modules") >>

PortalDown ==
    << Drop("student_badges"), Drop("badges"), Drop("student_stats"),
       DropPart("schedule_slots", "ix_schedule_slots_group_id"), Drop("schedule_slots"),
       DropPart("enrollments", "ck_enrollments_progress"), DropPart("enrollments", "progress"),
       DropPart("lessons", "ix_lessons_module_id"), Drop("lessons"),
       DropPart("modules", "ix_modules_course_id"), Drop("modules") >>

Up   == << InitialUp, AccountTables \o LearningTables \o EncryptionOfPii \o ConsentTable, GrantsUp, RequestsUp, PortalUp >>
Down == << InitialDown, AccountsDown, GrantsDown, RequestsDown, PortalDown >>
LastRevision == Len(Up)

\* One transaction for all revisions of a run.
Upgraded(db, to) ==
    LET after[r \in db.revision..to] == IF r = db.revision THEN db ELSE RunOps(Up[r], after[r - 1])
        done == after[to]
    IN  [done EXCEPT !.revision = to]
Downgraded(db, to) ==
    LET after[r \in to..db.revision] == IF r = db.revision THEN db ELSE RunOps(Down[r + 1], after[r + 1])
        done == after[to]
    IN  [done EXCEPT !.revision = to]

\* What the tables, keys and constraints of a fresh database at a revision are.
Fresh == [to \in 0..LastRevision |-> Upgraded(EmptyDatabase, to)]
Shape(db) == <<db.tables, db.refs, db.parts, db.vault, DOMAIN db.execute>>
ShapeAt   == [to \in 0..LastRevision |-> Shape(Fresh[to])]

----------------------------------------------------------------------------
(* The ORM's models, written by hand beside the migrations: each table with *)
(* the tables its foreign keys name.  The code at the last revision reads   *)
(* and writes through them.                                                 *)

AccountModels == [roles |-> {}, users |-> {}, user_roles |-> {"users", "roles"}]
PersonModels  == [students |-> {"users"}, guardians |-> {"users"}, student_guardian |-> {"students", "guardians"}]
CourseModels  == [courses |-> {"users"}, groups |-> {"courses", "users"}, enrollments |-> {"students", "groups"}]
PortalModels ==
    [activities |-> {}, modules |-> {"courses"}, lessons |-> {"modules"}, schedule_slots |-> {"groups"},
     student_stats |-> {"students"}, badges |-> {}, student_badges |-> {"students", "badges"}]
JobModel     == [jobs |-> {}]
MappingModel == [pseudonym_map |-> {}]
PrivacyModels == [consent |-> {}, subject_request |-> {}]

Models == {AccountModels, PersonModels, CourseModels, PortalModels, JobModel, MappingModel, PrivacyModels}
FitsModels(db) ==
    \A model \in Models : \A t \in DOMAIN model :
        t \in db.tables /\ {ref[2] : ref \in {r \in db.refs : r[1] = t}} = model[t]
=============================================================================
