------------------------------- MODULE Learning -------------------------------
(***************************************************************************)
(* Requests about courses, groups and enrollments that run at once:        *)
(* transfers between groups, self-enrollment, new and published courses,   *)
(* the portal's and the staff's reads.  Each request is a transaction of   *)
(* PostgreSQL under READ COMMITTED: a statement sees what is committed     *)
(* when it starts and what its own transaction wrote, and waits for a row  *)
(* or a unique key that another open transaction has written.              *)
(*                                                                         *)
(* Groups are created by the demo seed alone and never change course.      *)
(***************************************************************************)
EXTENDS Integers, Sequences, FiniteSets, Functions

CONSTANTS
    Students,    \* ids in core.students
    CourseOf,    \* the course of each group
    Direction,   \* of each course, also of those created here
    Courses,     \* the courses at the start: their status
    Enrolled,    \* the enrollments at the start: id -> row
    Roles,       \* roles of each account
    Profile,     \* Profile[u]: students whose user_id is the account u
    Children,    \* Children[u]: students a parent's account observes
    Ask,         \* Ask[r]: what the request r asks for
    Loads        \* the sets of requests considered together

Requests == DOMAIN Ask
Groups   == DOMAIN CourseOf
Statuses == {"active", "completed"}
Rows     == [student : Students, group : Groups, status : Statuses]

\* ids of enrollments: those at the start, and one per request and student
Fresh == Requests \X Students
Ids   == DOMAIN Enrolled \cup Fresh

\* the students a transfer lists, whether there are such or not
Listed(r) == {Ask[r].students[k] : k \in DOMAIN Ask[r].students}

ASSUME StudentsAssumption == IsFiniteSet(Students)
ASSUME AskAssumption ==
    /\ IsFiniteSet(Requests)
    /\ \A r \in Requests : Ask[r].kind = "transfer" => Ask[r].students \in Seq(Listed(r))
ASSUME LoadsAssumption == Loads \subseteq SUBSET Requests
ASSUME EnrolledAssumption ==
    /\ IsFiniteSet(DOMAIN Enrolled) /\ Enrolled \in [DOMAIN Enrolled -> Rows]
    /\ DOMAIN Enrolled \cap Fresh = {}
\* A group's course is there: a foreign key.
ASSUME CoursesAssumption ==
    /\ IsFiniteSet(DOMAIN Courses)
    /\ \A c \in DOMAIN Courses : Courses[c] \in {"draft", "published", "archived"}
    /\ \A g \in Groups : CourseOf[g] \in DOMAIN Courses
ASSUME AccountsAssumption ==
    \A u \in DOMAIN Roles :
        /\ Roles[u] \subseteq {"child", "parent", "teacher", "admin"}
        /\ Profile[u] \subseteq Students /\ Children[u] \subseteq Students

VARIABLES
    pc,          \* where each request is
    rows,        \* core.enrollments, committed: id -> row
    courses,     \* core.courses, committed: id -> status
    todo,        \* students the request still has to write
    byStudent,   \* by_student of a transfer: student -> (enrollment id, group)
    writes,      \* what the open transaction wrote: id -> row
    found,       \* what the request has read for its answer
    past         \* ids of the enrollments when it arrived (history)

vars == <<pc, rows, courses, todo, byStudent, writes, found, past>>

\* the requests considered
Active == DOMAIN pc

Answers == {"ok", "not_found", "conflict", "error"}
Empty   == [x \in {} |-> x]

WritesTyped(r) ==
    /\ DOMAIN writes[r] \subseteq Ids /\ writes[r] \in [DOMAIN writes[r] -> Rows]
    /\ writes[r] # Empty => pc[r] = "write"

TypeOK ==
    /\ Active \in Loads
    /\ pc \in [Active -> {"new", "start", "write", "second", "third"} \cup Answers]
    /\ DOMAIN rows \subseteq Ids /\ rows \in [DOMAIN rows -> Rows]
    /\ \A c \in DOMAIN courses : courses[c] \in {"draft", "published", "archived"}
    /\ \A r \in Active :
        /\ WritesTyped(r)
        /\ \A s \in DOMAIN byStudent[r] : byStudent[r][s].id \in DOMAIN rows
        /\ past[r] \subseteq DOMAIN rows

Init ==
    /\ \E load \in Loads :
        /\ pc = [r \in load |-> "new"]
        /\ todo = [r \in load |-> <<>>]
        /\ byStudent = [r \in load |-> Empty]
        /\ writes = [r \in load |-> Empty]
        /\ found = [r \in load |-> Empty]
        /\ past = [r \in load |-> {}]
    /\ rows = Enrolled
    /\ courses = Courses

\* Function f, and g where f is not defined.
Merge(f, g) == [x \in DOMAIN f \cup DOMAIN g |-> IF x \in DOMAIN f THEN f[x] ELSE g[x]]

At(r, place, kind) == pc[r] = place /\ Ask[r].kind = kind
Goto(r, place)     == pc' = [pc EXCEPT ![r] = place]
Found(r, data)     == found' = [found EXCEPT ![r] = data]
FoundMore(r, data) == Found(r, Merge(data, found[r]))

RowsOf(s)    == {id \in DOMAIN rows : rows[id].student = s}
RowsIn(s, c) == {id \in RowsOf(s) : CourseOf[rows[id].group] = c}
Members(g)   == {id \in DOMAIN rows : rows[id].group = g}

Arrive(r) ==
    /\ pc[r] = "new"
    /\ Goto(r, "start")
    /\ past' = [past EXCEPT ![r] = DOMAIN rows]
    /\ UNCHANGED <<rows, courses, todo, byStudent, writes, found>>

\* _resolve_target_student: the student a child's account owns, unless another
\* is asked for; else a child of the parent.  An account with several students
\* gets any of them.
Asked(r, s)  == Ask[r].student \in {"first", s}
OwnTarget(r) == IF "child" \in Roles[Ask[r].user]
                THEN {s \in Profile[Ask[r].user] : Asked(r, s)} ELSE {}
OwnMissed(r) == OwnTarget(r) = {} \/ OwnTarget(r) # Profile[Ask[r].user]
ChildTarget(r) == IF "parent" \in Roles[Ask[r].user] /\ OwnMissed(r)
                  THEN {s \in Children[Ask[r].user] : Asked(r, s)} ELSE {}
MayRefuse(r) == OwnMissed(r) /\ ChildTarget(r) = {}

\* No such group, no student behind the account, no child of the parent.
Unknown(r) ==
    /\ \/ At(r, "start", "transfer") /\ Ask[r].group \notin Groups
       \/ At(r, "start", "group") /\ Ask[r].group \notin Groups
       \/ At(r, "start", "enroll") /\ Profile[Ask[r].user] = {}
       \/ At(r, "start", "dashboard") /\ MayRefuse(r)
    /\ Goto(r, "not_found")
    /\ UNCHANGED <<rows, courses, todo, byStudent, writes, found, past>>

----------------------------------------------------------------------------
(* Writing: transfers and self-enrollment *)

\* Variant (bug): the enrollments in the target group only.
OwnGroupRows(r, s) == {id \in RowsOf(s) : rows[id].group = Ask[r].group}

\* The enrollments of a listed student in the course of the group.
ExistingRows(r, s) == RowsIn(s, CourseOf[Ask[r].group])

\* by_student keeps the last row of a student, in whatever order rows come.
ReadTransfer(r) ==
    /\ At(r, "start", "transfer")
    /\ Ask[r].group \in Groups
    /\ LET enrolled == {s \in Listed(r) : ExistingRows(r, s) # {}}
       IN  \E last \in [enrolled -> DOMAIN rows] :
            /\ \A s \in enrolled : last[s] \in ExistingRows(r, s)
            /\ byStudent' = [byStudent EXCEPT ![r] =
                  [s \in enrolled |-> [id |-> last[s], group |-> rows[last[s]].group]]]
    /\ todo' = [todo EXCEPT ![r] = Ask[r].students]
    /\ Goto(r, "write")
    /\ UNCHANGED <<rows, courses, writes, found, past>>

\* resolve_student_for_user takes any student of the account.
ResolveStudent(r) ==
    /\ At(r, "start", "enroll")
    /\ \E s \in Profile[Ask[r].user] : todo' = [todo EXCEPT ![r] = <<s>>]
    /\ Goto(r, IF Ask[r].group \in Groups THEN "write" ELSE "conflict")
    /\ UNCHANGED <<rows, courses, byStudent, writes, found, past>>

Writing(r) == pc[r] = "write" /\ todo[r] # <<>>
Student(r) == Head(todo[r])
Known(r)   == Student(r) \in DOMAIN byStudent[r]
Target(r)  == IF Known(r) THEN byStudent[r][Student(r)].id ELSE <<r, Student(r)>>

\* Variant (bug): a student with an enrollment in the course is left alone.
AnyEnrollment(r) == Known(r)

\* Already in the target group when the request read.
Untouched(r) == Known(r) /\ byStudent[r][Student(r)].group = Ask[r].group

Key(row)  == <<row.student, row.group>>
NewKey(r) == <<Student(r), Ask[r].group>>
View(r)   == Merge(writes[r], rows)

\* A statement waits for an open transaction that wrote its row, or a row with
\* its key, now or before.
WaitsFor(r, k) ==
    /\ k # r /\ Writing(r) /\ ~Untouched(r)
    /\ \/ Target(r) \in DOMAIN writes[k]
       \/ \E id \in DOMAIN writes[k] :
            NewKey(r) = Key(writes[k][id]) \/ (id \in DOMAIN rows /\ NewKey(r) = Key(rows[id]))

\* The foreign key on the student, or the unique key (student, group).
Violates(r) ==
    \/ Student(r) \notin Students
    \/ \E id \in DOMAIN View(r) \ {Target(r)} : Key(View(r)[id]) = NewKey(r)
    \/ ~Known(r) /\ Target(r) \in DOMAIN View(r)

NextStudent(r) == todo' = [todo EXCEPT ![r] = Tail(@)]

SkipMember(r) ==
    /\ Writing(r) /\ Untouched(r)
    /\ NextStudent(r)
    /\ UNCHANGED <<pc, rows, courses, byStudent, writes, found, past>>

\* Variant (bug): the row is replaced by a new one.
RowAfterReset(r) == [student |-> Student(r), group |-> Ask[r].group, status |-> "active"]

\* INSERT gives the defaults, UPDATE ... SET group_id keeps the rest of the row.
RowAfter(r) ==
    IF Known(r) THEN [View(r)[Target(r)] EXCEPT !.group = Ask[r].group]
    ELSE [student |-> Student(r), group |-> Ask[r].group, status |-> "active"]

WriteRow(r) ==
    /\ Writing(r) /\ ~Untouched(r)
    /\ ~ \E k \in Active : WaitsFor(r, k)
    /\ ~Violates(r)
    /\ writes' = [writes EXCEPT ![r] = Merge([id \in {Target(r)} |-> RowAfter(r)], @)]
    /\ NextStudent(r)
    /\ UNCHANGED <<pc, rows, courses, byStudent, found, past>>

\* Variant (bug): no rollback.
NoRollback(r, answer) ==
    /\ Goto(r, answer)
    /\ UNCHANGED <<rows, courses, todo, byStudent, writes, found, past>>

Abort(r, answer) ==
    /\ writes' = [writes EXCEPT ![r] = Empty]
    /\ Goto(r, answer)
    /\ UNCHANGED <<rows, courses, todo, byStudent, found, past>>

\* Variant (bug): a refused row is tried again from the start.
RefusalRetried(r) ==
    /\ Writing(r) /\ ~Untouched(r)
    /\ ~ \E k \in Active : WaitsFor(r, k)
    /\ Violates(r)
    /\ Abort(r, "start")

\* create_enrollment turns an IntegrityError into 409; a transfer lets it pass
\* to get_db, which rolls back.
RowRefused(r) ==
    /\ Writing(r) /\ ~Untouched(r)
    /\ ~ \E k \in Active : WaitsFor(r, k)
    /\ Violates(r)
    /\ Abort(r, IF Ask[r].kind = "enroll" THEN "conflict" ELSE "error")

\* PostgreSQL ends a circle of waiting transactions by aborting a member.
DeadlockVictim(r) ==
    /\ \E circle \in SUBSET {q \in Active : Writing(q)} :
        /\ r \in circle
        /\ \A a \in circle : /\ \E b \in circle : WaitsFor(a, b)
                             /\ \E b \in circle : WaitsFor(b, a)
    /\ Abort(r, "error")

\* The process dies or loses its connection while a transaction is open, which
\* undoes it; at other times that would only end the request.
Dies(r) ==
    /\ pc[r] = "write"
    /\ Abort(r, "error")

Commit(r) ==
    /\ pc[r] = "write" /\ todo[r] = <<>>
    /\ rows' = View(r)
    /\ writes' = [writes EXCEPT ![r] = Empty]
    /\ Goto(r, "second")
    /\ UNCHANGED <<courses, todo, byStudent, found, past>>

\* The row is read again, in a transaction of its own: it may have been moved.
ReadBack(r) ==
    /\ At(r, "second", "enroll")
    /\ Found(r, [own |-> {id \in DOMAIN rows : id \in {r} \X Students}])
    /\ Goto(r, "ok")
    /\ UNCHANGED <<rows, courses, todo, byStudent, writes, past>>

----------------------------------------------------------------------------
(* Courses *)

CreateCourse(r) ==
    /\ At(r, "start", "create")
    /\ courses' = Merge([c \in {Ask[r].course} |-> "draft"], courses)
    /\ Goto(r, "ok")
    /\ UNCHANGED <<rows, todo, byStudent, writes, found, past>>

\* UPDATE ... WHERE status <> 'archived', commit; the answer is a later read.
PublishCourse(r) ==
    /\ At(r, "start", "publish")
    /\ LET c == Ask[r].course
           hit == c \in DOMAIN courses /\ courses[c] # "archived"
       IN  /\ courses' = IF hit THEN [courses EXCEPT ![c] = "published"] ELSE courses
           /\ Goto(r, IF hit THEN "second" ELSE "not_found")
    /\ UNCHANGED <<rows, todo, byStudent, writes, found, past>>

ReadCourses(r) ==
    /\ At(r, "second", "publish") \/ At(r, "start", "catalogue")
    /\ Found(r, [catalogue |-> courses])
    /\ Goto(r, "ok")
    /\ UNCHANGED <<rows, courses, todo, byStudent, writes, past>>

----------------------------------------------------------------------------
(* Reads: one action per statement *)

\* get_group_detail: the summary with its count, then the members.
ReadSummary(r) ==
    /\ \/ At(r, "second", "transfer")
       \/ At(r, "start", "group") /\ Ask[r].group \in Groups
    /\ Found(r, [count |-> Cardinality(Members(Ask[r].group))])
    /\ Goto(r, "third")
    /\ UNCHANGED <<rows, courses, todo, byStudent, writes, past>>

ReadMembers(r) ==
    /\ At(r, "third", "transfer") \/ At(r, "third", "group")
    /\ FoundMore(r, [members |-> {rows[id].student : id \in Members(Ask[r].group)}])
    /\ Goto(r, "ok")
    /\ UNCHANGED <<rows, courses, todo, byStudent, writes, past>>

CoursesOf(d) == {c \in DOMAIN courses : Direction[c] = d}

\* analytics_summary, first statement: the totals.
ReadTotals(r) ==
    /\ At(r, "start", "analytics")
    /\ Found(r, [courses |-> Cardinality(DOMAIN courses),
                 published |-> Cardinality({c \in DOMAIN courses : courses[c] = "published"}),
                 enrollments |-> Cardinality(DOMAIN rows),
                 completed |-> Cardinality({id \in DOMAIN rows : rows[id].status = "completed"})])
    /\ Goto(r, "second")
    /\ UNCHANGED <<rows, courses, todo, byStudent, writes, past>>

\* Variant (bug): JOIN instead of LEFT JOIN drops the courses without groups.
JoinedCourses(d) == {c \in CoursesOf(d) : \E g \in Groups : CourseOf[g] = c}

\* The courses of a direction, with or without groups and enrollments.
GroupedCourses(d) == CoursesOf(d)

\* ... second statement: the same by direction, from a later snapshot.
ReadDirections(r) ==
    /\ At(r, "second", "analytics")
    /\ FoundMore(r,
         [byDirection |->
            [d \in {Direction[c] : c \in DOMAIN courses} |->
                [courses |-> Cardinality(GroupedCourses(d)),
                 enrollments |->
                    Cardinality({id \in DOMAIN rows : CourseOf[rows[id].group] \in CoursesOf(d)})]]])
    /\ Goto(r, "ok")
    /\ UNCHANGED <<rows, courses, todo, byStudent, writes, past>>

\* list_student_registry: one statement, the status derived from it.
ReadRegistry(r) ==
    /\ At(r, "start", "registry")
    /\ Found(r, [s \in Students |->
         [courses |-> Cardinality({CourseOf[rows[id].group] : id \in RowsOf(s)}),
          status  |-> IF \E id \in RowsOf(s) : rows[id].status = "active" THEN "active"
                      ELSE IF RowsOf(s) # {} THEN "completed" ELSE "none"]])
    /\ Goto(r, "ok")
    /\ UNCHANGED <<rows, courses, todo, byStudent, writes, past>>

\* list_children: one statement over the children of a parent's account.
ReadChildren(r) ==
    /\ At(r, "start", "children")
    /\ Found(r, [s \in Children[Ask[r].user] |-> [courses |-> Cardinality(RowsOf(s))]])
    /\ Goto(r, "ok")
    /\ UNCHANGED <<rows, courses, todo, byStudent, writes, past>>

\* The dashboard: the student first, its name and stats, then its courses.
ResolveTarget(r) ==
    /\ At(r, "start", "dashboard")
    /\ \E s \in OwnTarget(r) \cup ChildTarget(r) : Found(r, [student |-> s])
    /\ Goto(r, "second")
    /\ UNCHANGED <<rows, courses, todo, byStudent, writes, past>>

ReadDashboard(r) ==
    /\ At(r, "second", "dashboard")
    /\ LET own == RowsOf(found[r].student)
       IN  FoundMore(r,
             [rows |-> own,
              active |-> Cardinality({id \in own : rows[id].status = "active"}),
              completed |-> Cardinality({id \in own : rows[id].status = "completed"})])
    /\ Goto(r, "ok")
    /\ UNCHANGED <<rows, courses, todo, byStudent, writes, past>>

\* The timetable: all groups for staff, else those of the account's students.
ResolveStudents(r) ==
    /\ At(r, "start", "schedule")
    /\ LET u     == Ask[r].user
           staff == Roles[u] \cap {"teacher", "admin"} # {}
           own   == IF "child" \in Roles[u] /\ Profile[u] # {}
                    THEN {{s} : s \in Profile[u]} ELSE {{}}
           kids  == IF "parent" \in Roles[u] THEN Children[u] ELSE {}
       IN  \E mine \in own : Found(r, [students |-> IF staff THEN Students ELSE mine \cup kids])
    /\ Goto(r, "second")
    /\ UNCHANGED <<rows, courses, todo, byStudent, writes, past>>

ReadSchedule(r) ==
    /\ At(r, "second", "schedule")
    /\ FoundMore(r, [groups |-> IF Roles[Ask[r].user] \cap {"teacher", "admin"} # {} THEN Groups
                            ELSE {rows[id].group : id \in UNION {RowsOf(s) : s \in found[r].students}}])
    /\ Goto(r, "ok")
    /\ UNCHANGED <<rows, courses, todo, byStudent, writes, past>>

Step(r) ==
    \/ Arrive(r) \/ Unknown(r)
    \/ ReadTransfer(r) \/ ResolveStudent(r) \/ SkipMember(r) \/ WriteRow(r)
    \/ RowRefused(r) \/ DeadlockVictim(r) \/ Commit(r) \/ ReadBack(r)
    \/ CreateCourse(r) \/ PublishCourse(r) \/ ReadCourses(r)
    \/ ReadSummary(r) \/ ReadMembers(r) \/ ReadTotals(r) \/ ReadDirections(r)
    \/ ReadRegistry(r) \/ ReadChildren(r) \/ ResolveTarget(r) \/ ReadDashboard(r)
    \/ ResolveStudents(r) \/ ReadSchedule(r)

Next == \E r \in Active : Step(r) \/ Dies(r)

Spec == Init /\ [][Next]_vars

\* asyncio runs every handler and PostgreSQL answers every statement.
FairSpec == Spec /\ WF_vars(\E r \in Active : Step(r))

----------------------------------------------------------------------------
(* Properties *)

\* "Preserving progress": whatever transfers, refusals and rollbacks happen, an
\* enrollment stays with its student, in its course, at its progress.
EnrollmentsKept ==
    [][\A id \in DOMAIN rows :
        /\ id \in DOMAIN rows'
        /\ rows'[id].student = rows[id].student /\ rows'[id].status = rows[id].status
        /\ CourseOf[rows'[id].group] = CourseOf[rows[id].group]]_vars

Transfers == {r \in Active : Ask[r].kind = "transfer"}
Course(r) == CourseOf[Ask[r].group]
\* Transfers of s within the course of r, r among them.
Moving(r, s) == {q \in Transfers : Ask[q].group \in Groups /\ Course(q) = Course(r) /\ s \in Listed(q)}

\* A transfer that succeeds delivers: each listed student ends in the target or
\* where another transfer of the same student took it, and the answer names each
\* student nobody else was moving.
TransferDelivers ==
    \A r \in Transfers : pc[r] = "ok" =>
        \A s \in Listed(r) :
            LET goals == {Ask[q].group : q \in Moving(r, s)}
            IN  /\ \E id \in RowsOf(s) : rows[id].group \in goals
                /\ goals = {Ask[r].group} => s \in found[r].members

\* A transfer enrolls afresh only a student who had no enrollment in the course
\* when the request came: one transfer after another moves and never doubles.
FreshOnlyWhenNew ==
    \A r \in Transfers, s \in Students :
        <<r, s>> \in DOMAIN rows => past[r] \cap RowsIn(s, Course(r)) = {}

\* What was a student's when the request came.
Earlier(r, s) == past[r] \cap RowsOf(s)

AnalyticsAddUp(r) ==
    LET parts == found[r].byDirection
    IN  /\ found[r].courses <= SumFunction([d \in DOMAIN parts |-> parts[d].courses])
        /\ found[r].enrollments <= SumFunction([d \in DOMAIN parts |-> parts[d].enrollments])
        /\ Cardinality(past[r]) <= found[r].enrollments
RegistryAddsUp(r) ==
    \A s \in Students : Earlier(r, s) # {} =>
        /\ found[r][s].status # "none"
        /\ Cardinality({CourseOf[rows[id].group] : id \in Earlier(r, s)}) <= found[r][s].courses
ChildrenAddUp(r) ==
    \A s \in Children[Ask[r].user] : Cardinality(Earlier(r, s)) <= found[r][s].courses
DashboardAddsUp(r) ==
    /\ Earlier(r, found[r].student) \subseteq found[r].rows
    /\ found[r].active + found[r].completed = Cardinality(found[r].rows)
ScheduleAddsUp(r) ==
    \A s \in found[r].students : \A id \in Earlier(r, s) :
        \E g \in found[r].groups : CourseOf[g] = CourseOf[rows[id].group]

\* Answers put together from several statements still add up: the directions
\* account for every course and enrollment of the totals, and no course or
\* enrollment that was there before drops out of a dashboard, a registry or a
\* timetable because its student is being moved.
AnswersAddUp ==
    \A r \in Active : pc[r] = "ok" =>
        /\ Ask[r].kind = "analytics" => AnalyticsAddUp(r)
        /\ Ask[r].kind = "registry"  => RegistryAddsUp(r)
        /\ Ask[r].kind = "children"  => ChildrenAddUp(r)
        /\ Ask[r].kind = "dashboard" => DashboardAddsUp(r)
        /\ Ask[r].kind = "schedule"  => ScheduleAddsUp(r)

\* Every request is answered, though transfers wait for each other.
RequestsEnd == <>(\A r \in Active : pc[r] \in Answers)
=============================================================================
