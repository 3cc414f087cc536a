------------------------------- MODULE Deployment -------------------------------
(***************************************************************************)
(* The backend's start, again and again, on one database: migrations, the  *)
(* bootstrap admin, the demo seed, which may also run by hand; and what    *)
(* changes accounts meanwhile.  Containers restart when they end (restart: *)
(* unless-stopped).  A transaction's writes show at its commit; INSERT     *)
(* waits for an uncommitted row with the same unique key, DELETE for a row *)
(* another transaction has deleted.                                        *)
(***************************************************************************)
EXTENDS Schema

CONSTANTS
    Backends,       \* containers that run migrations, then the API
    Seeders,        \* runs of python -m app.seed_demo
    Ask,            \* Ask[c]: a registration, role change, new course, import
    Scenarios,      \* what is considered together, with a bound on crashes
    AdminEmail,     \* settings.bootstrap_admin_email
    MaxDowngrades   \* bound on downgrades

Actors == Backends \cup Seeders \cup DOMAIN Ask

ASSUME ScenariosAssumption ==
    \A s \in Scenarios : /\ s.actors \subseteq Actors /\ s.seed \in BOOLEAN
                         /\ s.from \in {0, 1} /\ s.downgrades \in BOOLEAN /\ s.crashes \in Nat
                         \* One backend takes all the calls there are.
                         /\ s.actors \cap DOMAIN Ask # {} => Cardinality(s.actors \cap Backends) = 1
ASSUME BoundsAssumption == MaxDowngrades \in Nat
\* Whoever registers or is given roles has an email.  A role change names some
\* role (AssignRolesRequest: min_length=1), a registration may name none.
ASSUME AskAssumption ==
    /\ Backends \cap Seeders = {} /\ (Backends \cup Seeders) \cap DOMAIN Ask = {}
    /\ \A c \in DOMAIN Ask :
        \/ Ask[c].kind = "register" /\ Ask[c].email # "none"
        \/ Ask[c].kind = "roles" /\ Ask[c].email # "none" /\ Ask[c].roles # {}
        \/ Ask[c].kind \in {"course", "import"}
\* The bootstrap admin is not configured to be one of the demo accounts.
ASSUME AdminAssumption == AdminEmail \notin {"none", "teacher@demo", "child@demo", "parent@demo"}

VARIABLES
    scenario,
    db,          \* the committed database
    pc,          \* where each actor is
    local,       \* what it read before
    tx,          \* uncommitted: [user, badges, deleted]
    crashes, downgrades,
    refused,     \* a migration failed that nobody raced
    overlapped   \* two seeds ran at once (history)

vars == <<scenario, db, pc, local, tx, crashes, downgrades, refused, overlapped>>

Active    == DOMAIN pc
Running   == Active \cap (Backends \cup Seeders)
Calls     == Active \cap DOMAIN Ask
NoWrites  == [user |-> "none", badges |-> {}, deleted |-> {}]
Nothing   == [x \in {} |-> x]
Badges    == {"first_step", "explorer"}
DemoEmail == [teacher |-> "teacher@demo", child |-> "child@demo", parent |-> "parent@demo"]

\* The accounts a start or a seed sees to, in this order.
Account(a) ==
    CASE pc[a].stage = "admin"                        -> [email |-> AdminEmail, roles |-> {"admin"}]
      [] pc[a].stage \in {"teacher", "child", "parent"} -> [email |-> DemoEmail[pc[a].stage], roles |-> {pc[a].stage}]
      [] OTHER                                        -> [email |-> Ask[a].email, roles |-> Ask[a].roles]

At(a, stage, step) == pc[a] = [stage |-> stage, step |-> step]
Goto(a, stage)     == pc' = [pc EXCEPT ![a] = [stage |-> stage, step |-> "look"]]
Step(a, step)      == pc' = [pc EXCEPT ![a].step = step]
Seeding(a)         == a \in Running /\ pc[a].stage \in {"badges", "teacher", "child", "parent", "settle", "student", "content"}
Stopped(a)         == pc[a].stage \in {"down", "ready", "done", "failed"}
Serving            == \E b \in Active \cap Backends : pc[b].stage = "serving"

Legacy == [Fresh[1] EXCEPT !.data["students"] = {[id |-> <<"old", 1>>, user |-> "none", key |-> 0]}]

Init ==
    /\ scenario \in Scenarios
    /\ db = IF scenario.from = 0 THEN EmptyDatabase ELSE Legacy
    /\ pc = [a \in scenario.actors |-> [stage |-> IF a \in Backends THEN "down" ELSE "ready", step |-> "look"]]
    /\ local = [a \in scenario.actors |-> Nothing]
    /\ tx = [a \in scenario.actors |-> NoWrites]
    /\ crashes = 0 /\ downgrades = 0 /\ refused = FALSE /\ overlapped = FALSE

----------------------------------------------------------------------------
(* Migrations *)

\* Variant (bug): restart: "no".
StaysDown == "failed"

\* restart: unless-stopped
AfterTheEnd == "down"

\* alembic upgrade head: reads the revision.
StartUpgrade(b) ==
    /\ b \in Backends /\ pc[b].stage = "down"
    /\ local' = [local EXCEPT ![b] = [revision |-> db.revision]]
    /\ Goto(b, "migrate")
    /\ UNCHANGED <<scenario, db, tx, crashes, downgrades, refused, overlapped>>

\* All missing revisions in one transaction; of two backends that migrate at
\* once the later one fails on what the first created.
Upgrade(b) ==
    /\ b \in Backends /\ pc[b].stage = "migrate"
    /\ LET next  == Upgraded(db, LastRevision)
           raced == local[b].revision # db.revision
       IN  /\ db' = IF ~raced /\ next.ok THEN next ELSE db
           /\ refused' = (refused \/ (~raced /\ ~next.ok))
           /\ Goto(b, IF ~raced /\ next.ok THEN "admin" ELSE AfterTheEnd)
    /\ UNCHANGED <<scenario, local, tx, crashes, downgrades, overlapped>>

\* alembic downgrade, by hand, while nothing runs.
Downgrade(to) ==
    /\ scenario.downgrades /\ downgrades < MaxDowngrades
    /\ \A a \in Active : Stopped(a)
    /\ to < db.revision
    /\ LET next == Downgraded(db, to)
       IN  db' = (IF next.ok THEN next ELSE db) /\ refused' = (refused \/ ~next.ok)
    /\ downgrades' = downgrades + 1
    /\ UNCHANGED <<scenario, pc, local, tx, crashes, overlapped>>

----------------------------------------------------------------------------
(* Accounts: get_user_by_email, then register_user *)

Users           == db.data["users"]
RoleRows(email) == {row \in db.data["user_roles"] : row.user = email}
NextStage(a) ==
    CASE pc[a].stage = "admin"   -> IF scenario.seed THEN "badges" ELSE "serving"
      [] pc[a].stage = "teacher" -> "child"
      [] pc[a].stage = "child"   -> "parent"
      [] pc[a].stage = "parent"  -> "settle"
      [] OTHER                   -> "done"

\* A seed begins: by hand, or in a start.
Overlaps(a) == overlapped' = (overlapped \/ \E b \in Running \ {a} : Seeding(b))

FindAccount(a) ==
    /\ pc[a].stage \in {"admin", "teacher", "child", "parent"} /\ pc[a].step = "look"
    /\ IF Account(a).email \in Users THEN Goto(a, NextStage(a)) ELSE Step(a, "insert")
    /\ UNCHANGED <<scenario, db, local, tx, crashes, downgrades, refused, overlapped>>

SelfAssignable == {"child", "parent"}

\* A call comes in: POST /register, PUT /users/.../roles, POST /courses, or a
\* finished import.  Nobody registers as staff: 403.
Arrive(c) ==
    /\ c \in Calls /\ pc[c].stage = "ready"
    /\ Serving
    /\ IF Ask[c].kind = "register" /\ ~(Ask[c].roles \subseteq SelfAssignable)
       THEN Goto(c, "failed")
       ELSE pc' = [pc EXCEPT ![c] = [stage |-> Ask[c].kind, step |-> "insert"]]
    /\ UNCHANGED <<scenario, db, local, tx, crashes, downgrades, refused, overlapped>>

Registers(a) == pc[a].stage \in {"admin", "teacher", "child", "parent", "register"}

\* flush(): the unique key on the email.
InsertUser(a) ==
    /\ Registers(a) /\ pc[a].step = "insert"
    /\ \A b \in Active \ {a} : tx[b].user # Account(a).email
    /\ Account(a).email \notin Users
    /\ tx' = [tx EXCEPT ![a].user = Account(a).email]
    /\ Step(a, "commit")
    /\ UNCHANGED <<scenario, db, local, crashes, downgrades, refused, overlapped>>

\* IntegrityError: AuthError ends a start (nothing catches it), is logged by the
\* start that seeds, and answers a call with 409.
EmailTaken(a) ==
    /\ Registers(a) /\ pc[a].step = "insert"
    /\ Account(a).email \in Users
    /\ tx' = [tx EXCEPT ![a] = NoWrites]
    /\ Goto(a, IF a \in Backends THEN (IF pc[a].stage = "admin" THEN AfterTheEnd ELSE "serving") ELSE "failed")
    /\ UNCHANGED <<scenario, db, local, crashes, downgrades, refused, overlapped>>

\* Variant (bug): who asks for no role is made a child.
WithDefaultRole(a) ==
    LET roles == IF Account(a).roles = {} THEN {"child"} ELSE Account(a).roles
    IN  [db.data EXCEPT !["users"] = @ \cup {tx[a].user}, !["badges"] = @ \cup tx[a].badges,
                        !["user_roles"] = @ \cup {[user |-> tx[a].user, role |-> r, by |-> a] : r \in roles}]

WithUser(a) ==
    [db.data EXCEPT !["users"] = @ \cup {tx[a].user}, !["badges"] = @ \cup tx[a].badges,
                    !["user_roles"] = @ \cup {[user |-> tx[a].user, role |-> r, by |-> a] : r \in Account(a).roles}]

CommitUser(a) ==
    /\ Registers(a) /\ pc[a].step = "commit"
    /\ db' = [db EXCEPT !.data = WithUser(a)]
    /\ tx' = [tx EXCEPT ![a] = NoWrites]
    /\ Goto(a, NextStage(a))
    /\ UNCHANGED <<scenario, local, crashes, downgrades, refused, overlapped>>

----------------------------------------------------------------------------
(* set_user_roles: DELETE, INSERT, commit *)

\* The statement's snapshot; the account must be there.
SeeRoles(c) ==
    /\ At(c, "roles", "insert")
    /\ IF Ask[c].email \in Users
       THEN Step(c, "delete") /\ local' = [local EXCEPT ![c] = [seen |-> RoleRows(Ask[c].email)]]
       ELSE Goto(c, "failed") /\ local' = local
    /\ UNCHANGED <<scenario, db, tx, crashes, downgrades, refused, overlapped>>

\* Variant (bug): the roles asked for are added to the old ones.
NothingDeleted(c) == {}

\* Rows another transaction deleted and committed meanwhile are skipped; rows it
\* inserted are not seen.
Deletes(c) == local[c].seen \cap db.data["user_roles"]

DeleteRoles(c) ==
    /\ At(c, "roles", "delete")
    /\ \A b \in Calls \ {c} : tx[b].deleted \cap local[c].seen = {}
    /\ tx' = [tx EXCEPT ![c].deleted = Deletes(c)]
    /\ Step(c, "commit")
    /\ UNCHANGED <<scenario, db, local, crashes, downgrades, refused, overlapped>>

InsertedRoles(c) == {[user |-> Ask[c].email, role |-> r, by |-> c] : r \in Ask[c].roles}
SameKey(v, w)    == v.user = w.user /\ v.role = w.role

\* A role another replacement committed after the snapshot violates the primary
\* key: 500, and nothing of this one stays.
ReplaceRoles(c) ==
    /\ At(c, "roles", "commit")
    /\ LET left    == db.data["user_roles"] \ tx[c].deleted
           clashes == {row \in left : \E new \in InsertedRoles(c) : SameKey(row, new)}
       IN  /\ \A b \in Calls \ {c} : tx[b].deleted \cap clashes = {}
           /\ IF clashes = {}
              THEN db' = [db EXCEPT !.data["user_roles"] = left \cup InsertedRoles(c)] /\ Goto(c, "done")
              ELSE db' = db /\ Goto(c, "failed")
    /\ tx' = [tx EXCEPT ![c] = NoWrites]
    /\ UNCHANGED <<scenario, local, crashes, downgrades, refused, overlapped>>

----------------------------------------------------------------------------
(* Other calls *)

CreateCourse(c) ==
    /\ At(c, "course", "insert")
    /\ db' = [db EXCEPT !.data["courses"] = @ \cup {c}]
    /\ Goto(c, "done")
    /\ UNCHANGED <<scenario, local, tx, crashes, downgrades, refused, overlapped>>

Pii(id, user) == [id |-> id, user |-> user, key |-> db.key]

\* The worker writes through vault.encrypt_pii.
ImportStudent(c) ==
    /\ At(c, "import", "insert")
    /\ IF Executable(db, "encrypt_pii")
       THEN db' = [db EXCEPT !.data["students"] = @ \cup {Pii(<<c, 1>>, "none")}] /\ Goto(c, "done")
       ELSE db' = db /\ Goto(c, "failed")
    /\ UNCHANGED <<scenario, local, tx, crashes, downgrades, refused, overlapped>>

\* A call's transaction is rolled back.
LoseCall(c) ==
    /\ c \in Calls /\ ~Stopped(c)
    /\ tx' = [tx EXCEPT ![c] = NoWrites]
    /\ Goto(c, "failed")
    /\ UNCHANGED <<scenario, db, local, crashes, downgrades, refused, overlapped>>

----------------------------------------------------------------------------
(* The demo seed *)

StartSeeder(a) ==
    /\ a \in Seeders /\ pc[a].stage = "ready"
    /\ Serving
    /\ Goto(a, "badges")
    /\ UNCHANGED <<scenario, db, local, tx, crashes, downgrades, refused, overlapped>>

\* INSERT ... ON CONFLICT DO NOTHING, left open.
InsertBadges(a) ==
    /\ a \in Running /\ pc[a].stage = "badges"
    /\ \A b \in Active \ {a} : tx[b].badges = {}
    /\ tx' = [tx EXCEPT ![a].badges = Badges \ db.data["badges"]]
    /\ Goto(a, "teacher")
    /\ Overlaps(a)
    /\ UNCHANGED <<scenario, db, local, crashes, downgrades, refused>>

Settle(a) ==
    /\ a \in Running /\ pc[a].stage = "settle"
    /\ db' = [db EXCEPT !.data["badges"] = @ \cup tx[a].badges]
    /\ tx' = [tx EXCEPT ![a] = NoWrites]
    /\ Goto(a, "student")
    /\ UNCHANGED <<scenario, local, crashes, downgrades, refused, overlapped>>

DemoStudents == {s \in db.data["students"] : s.user = DemoEmail.child}

LookForStudent(a) ==
    /\ At(a, "student", "look")
    /\ IF DemoStudents = {} THEN Step(a, "commit") ELSE Goto(a, "content")
    /\ UNCHANGED <<scenario, db, local, tx, crashes, downgrades, refused, overlapped>>

\* Student, guardian and their link in one transaction.
SeedStudent(a) ==
    /\ At(a, "student", "commit")
    /\ db' = [db EXCEPT !.data["students"]  = @ \cup {Pii(<<a, crashes>>, DemoEmail.child)},
                        !.data["guardians"] = @ \cup {Pii(<<a, crashes>>, DemoEmail.parent)},
                        !.data["student_guardian"] = @ \cup {<<a, crashes>>}]
    /\ Goto(a, "content")
    /\ UNCHANGED <<scenario, local, tx, crashes, downgrades, refused, overlapped>>

EndOfSeed(a) == IF a \in Backends THEN "serving" ELSE "done"

\* Variant (bug): content is seeded whatever is there.
NoCourses == TRUE

\* The guard of the content: any course, a teacher's too.
CatalogueEmpty == db.data["courses"] = {}

CountCourses(a) ==
    /\ At(a, "content", "look")
    /\ IF CatalogueEmpty THEN Step(a, "commit") ELSE Goto(a, EndOfSeed(a))
    /\ UNCHANGED <<scenario, db, local, tx, crashes, downgrades, refused, overlapped>>

\* A student who has no account.
Other(a) == <<a, -1>>

\* Students, courses with their modules, groups and enrollments, activities,
\* statistics: one transaction.  Which demo student it takes does not matter.
SeedContent(a) ==
    /\ At(a, "content", "commit")
    /\ db' = [db EXCEPT !.data["courses"]  = @ \cup {a}, !.data["modules"] = @ \cup {a},
                        !.data["groups"]   = @ \cup {a}, !.data["schedule_slots"] = @ \cup {a},
                        !.data["students"] = @ \cup {Pii(Other(a), "none")},
                        !.data["enrollments"]   = @ \cup {<<a, Other(a)>>} \cup {<<a, s.id>> : s \in DemoStudents},
                        !.data["student_stats"] = @ \cup {s.id : s \in DemoStudents}]
    /\ Goto(a, EndOfSeed(a))
    /\ UNCHANGED <<scenario, local, tx, crashes, downgrades, refused, overlapped>>

\* Any other error of a seed is logged by a start and ends a run by hand.
SeedFails(a) ==
    /\ Seeding(a)
    /\ tx' = [tx EXCEPT ![a] = NoWrites]
    /\ crashes < scenario.crashes /\ crashes' = crashes + 1
    /\ Goto(a, IF a \in Backends THEN "serving" ELSE "failed")
    /\ UNCHANGED <<scenario, db, local, downgrades, refused, overlapped>>

\* What ends with the backend: the API's calls, not the worker's import.
EndWith(b) == {b} \cup {c \in Calls : Ask[c].kind # "import" /\ ~Stopped(c)}

\* The container ends and is started again.
Crash(b) ==
    /\ b \in Backends /\ pc[b].stage \notin {"down", "failed"}
    /\ crashes < scenario.crashes /\ crashes' = crashes + 1
    /\ tx' = [a \in Active |-> IF a \in EndWith(b) THEN NoWrites ELSE tx[a]]
    /\ pc' = [a \in Active |->
                IF a \notin EndWith(b) THEN pc[a]
                ELSE [stage |-> IF a = b THEN AfterTheEnd ELSE "failed", step |-> "look"]]
    /\ UNCHANGED <<scenario, db, local, downgrades, refused, overlapped>>

Progress(a) ==
    \/ StartUpgrade(a) \/ Upgrade(a)
    \/ FindAccount(a) \/ InsertUser(a) \/ EmailTaken(a) \/ CommitUser(a)
    \/ StartSeeder(a) \/ InsertBadges(a) \/ Settle(a)
    \/ LookForStudent(a) \/ SeedStudent(a) \/ CountCourses(a) \/ SeedContent(a)
    \/ SeeRoles(a) \/ DeleteRoles(a) \/ ReplaceRoles(a)
    \/ CreateCourse(a) \/ ImportStudent(a)

Next ==
    \/ \E a \in Active : Progress(a) \/ Arrive(a) \/ LoseCall(a) \/ SeedFails(a) \/ Crash(a)
    \/ \E to \in 0..(LastRevision - 1) : Downgrade(to)

Spec == Init /\ [][Next]_vars

\* Docker restarts a container, and PostgreSQL answers every statement.  Less is
\* enough: while something can go on, something does.
SomeProgress == \E a \in Active : Progress(a)
FairSpec == Spec /\ WF_vars(SomeProgress)

----------------------------------------------------------------------------
(* Properties *)

\* Whatever upgrades and downgrades led to it, a revision has the tables, keys,
\* columns and functions of a fresh installation, one key from the second
\* revision on, and room for transactions only while their actors run.
TypeOK ==
    /\ db.ok /\ db.revision \in 0..LastRevision /\ Shape(db) = ShapeAt[db.revision]
    /\ DOMAIN db.data = db.tables /\ (db.key # 0 <=> db.revision >= 2)
    /\ \A a \in Active :
        /\ Stopped(a) => tx[a] = NoWrites
        /\ tx[a].deleted # {} => At(a, "roles", "commit")
        /\ tx[a].user # "none" => Registers(a) /\ pc[a].step = "commit"
    /\ \A b \in Active \cap Backends : pc[b].stage \notin {"down", "migrate", "failed"} => FitsModels(db)

\* No migration is refused, up or down, and every stored name and contact can be
\* read: in the clear below the second revision, and from there on encrypted with
\* the key there is, through functions the application role may call.
PiiReadable ==
    /\ ~refused
    /\ \A t \in {"students", "guardians"} \cap db.tables : \A row \in db.data[t] : row.key = db.key
    /\ db.revision >= 2 => Executable(db, "encrypt_pii") /\ Executable(db, "decrypt_pii")

Replaced(email) == \E c \in Calls : Ask[c].kind = "roles" /\ Ask[c].email = email /\ pc[c].stage = "done"
Registered(email) == \E c \in Calls : Ask[c].kind = "register" /\ Ask[c].email = email /\ pc[c].stage = "done"
HasRole(email, role) ==
    email \in Users /\ (Replaced(email) \/ \E row \in RoleRows(email) : row.role = role)

\* Past its admin stage a backend has its admin.  A seed that ran through leaves
\* all three accounts, the child's student with its guardian, the badges and a
\* catalogue, however many seeds stopped half-way before; only seeds that
\* overlapped leave two of anything, and each catalogue is whole.  (A downgrade
\* takes any of it away again, and the content of the courses for good: they are
\* there, so no seed looks.  Whoever was given other roles since has those
\* instead, and so has who registered under a demo email before the seed; nobody
\* can register under the admin's.)
StartLeavesAll ==
    /\ \A b \in Active \cap Backends : pc[b].stage = "serving" => HasRole(AdminEmail, "admin")
    /\ \A a \in Active \cap Seeders : pc[a].stage = "done" /\ downgrades = 0 =>
        /\ \A role \in DOMAIN DemoEmail : HasRole(DemoEmail[role], role) \/ Registered(DemoEmail[role])
        /\ \E s \in DemoStudents : s.id \in db.data["student_guardian"]
        /\ db.data["badges"] = Badges /\ db.data["courses"] # {}
    /\ db.revision = LastRevision =>
        LET seeded == db.data["courses"] \cap Running
        IN  /\ ~overlapped => Cardinality(DemoStudents) <= 1 /\ Cardinality(seeded) <= 1
            /\ seeded = db.data["groups"]
            /\ downgrades = 0 => seeded = db.data["modules"] /\ seeded = db.data["schedule_slots"]
            /\ (downgrades = 0 /\ seeded # {}) => db.data["student_stats"] # {}
            /\ seeded # {} => \E e \in db.data["enrollments"] : e[2] # Other(e[1])

\* What an account has that nobody changed: some role a start or a seed gave it,
\* or exactly what its registration asked for, which may be nothing.
AsMade(email) ==
    \/ \E a \in Running : RoleRows(email) # {} /\ \A row \in RoleRows(email) : row.by = a
    \/ \E c \in Calls : /\ Ask[c].kind = "register" /\ Ask[c].email = email /\ pc[c].stage = "done"
                        /\ RoleRows(email) = InsertedRoles(c)

\* Role changes at once: no role a finished one saw survives it, and one of the
\* finished has all it asked for, until a downgrade drops the table.  An account
\* nobody changed has the roles of the one registration, start or seed that made
\* it, and nobody made themselves staff.
RolesReplaced ==
    /\ "users" \in db.tables => \A row \in db.data["user_roles"] :
        row.role \in SelfAssignable \/ row.by \in Running \/ Ask[row.by].kind = "roles"
    /\ "users" \in db.tables => \A email \in Users :
        Replaced(email) \/ AsMade(email)
    /\ \A c \in Calls : (Ask[c].kind = "roles" /\ pc[c].stage = "done" /\ downgrades = 0) =>
        LET email == Ask[c].email
        IN  /\ RoleRows(email) \cap local[c].seen = {}
            /\ \E d \in Calls : /\ Ask[d].kind = "roles" /\ Ask[d].email = email /\ pc[d].stage = "done"
                                /\ InsertedRoles(d) \subseteq RoleRows(email)

\* Crashes, races of two starts and downgrades end: then every backend serves
\* for good and every run by hand comes to an end.
ServesInTheEnd ==
    <>[](/\ \A b \in Active \cap Backends : pc[b].stage = "serving"
         /\ \A a \in Active \cap Seeders : Stopped(a))
=============================================================================
