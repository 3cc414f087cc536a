--------------------------- MODULE LearningProofs ---------------------------
(***************************************************************************)
(* Safety of Learning for any students, groups, courses and requests at    *)
(* once: the tables are well typed, no step loses or alters an enrollment, *)
(* a transfer enrolls afresh only who had none in the course, and leaves   *)
(* its students in the target or where another transfer took them.         *)
(***************************************************************************)
EXTENDS Learning, FiniteSetTheorems, WellFoundedInduction, TLAPS

Places == {"new", "start", "write", "second", "third"} \cup Answers

\* Every request has its own notes, and whoever writes has a group to write.
Shape ==
    /\ Active \subseteq Requests
    /\ DOMAIN todo = Active /\ DOMAIN byStudent = Active
    /\ DOMAIN writes = Active /\ DOMAIN past = Active
    /\ \A r \in Active : pc[r] = "write" => Ask[r].group \in Groups

\* The enrollments a transfer has found are those of its course.
Matched ==
    \A r \in Active : \A s \in DOMAIN byStudent[r] :
        /\ byStudent[r][s].id \in DOMAIN rows
        /\ CourseOf[rows[byStudent[r][s].id].group] = CourseOf[Ask[r].group]

\* The same student, progress and course.
Same(a, b) ==
    a.student = b.student /\ a.status = b.status /\ CourseOf[a.group] = CourseOf[b.group]

\* What an open transaction has written keeps the committed rows, or is new and its own.
WritesKeep ==
    \A r \in Active : \A id \in DOMAIN writes[r] :
        IF id \in DOMAIN rows THEN Same(writes[r][id], rows[id]) ELSE id \in {r} \X Students

Inv == TypeOK /\ Shape /\ Matched /\ WritesKeep

LEMMA InitInv == Init => Inv
<1>. SUFFICES ASSUME Init
              PROVE  Inv
  OBVIOUS
<1>1. PICK load \in Loads : /\ pc = [r \in load |-> "new"]
                            /\ todo = [r \in load |-> <<>>]
                            /\ byStudent = [r \in load |-> Empty]
                            /\ writes = [r \in load |-> Empty]
                            /\ past = [r \in load |-> {}]
  BY DEF Init
<1>2. Active = load /\ load \subseteq Requests
  BY <1>1, LoadsAssumption DEF Active
<1>3. DOMAIN Empty = {} /\ Empty \in [DOMAIN Empty -> Rows]
  BY DEF Empty
<1>4. Shape /\ Matched /\ WritesKeep
  BY <1>1, <1>2, <1>3 DEF Shape, Matched, WritesKeep
<1>5. TypeOK
  <2>1. pc \in [Active -> {"new", "start", "write", "second", "third"} \cup Answers]
    BY <1>1, <1>2
  <2>2. DOMAIN rows \subseteq Ids /\ rows \in [DOMAIN rows -> Rows]
    BY EnrolledAssumption DEF Init, Ids
  <2>3. \A c \in DOMAIN courses : courses[c] \in {"draft", "published", "archived"}
    BY CoursesAssumption DEF Init
  <2>. QED
    BY <1>1, <1>2, <1>3, <2>1, <2>2, <2>3 DEF TypeOK, WritesTyped
<1>. QED
  BY <1>4, <1>5 DEF Inv

----------------------------------------------------------------------------
(* Steps that write no enrollment *)

LEMMA Moves ==
    ASSUME Inv, NEW r \in Active, NEW place \in Places, Goto(r, place)
    PROVE  /\ Active' = Active /\ Active \in Loads
           /\ pc' \in [Active -> Places] /\ pc'[r] = place
           /\ \A q \in Active : q # r => pc'[q] = pc[q]
BY DEF Inv, TypeOK, Goto, Active, Places

\* Reads, refusals and changes of courses.
Quiet(r) ==
    \/ Unknown(r) \/ ReadBack(r) \/ CreateCourse(r) \/ PublishCourse(r) \/ ReadCourses(r)
    \/ ReadSummary(r) \/ ReadMembers(r) \/ ReadTotals(r) \/ ReadDirections(r)
    \/ ReadRegistry(r) \/ ReadChildren(r) \/ ResolveTarget(r) \/ ReadDashboard(r)
    \/ ResolveStudents(r) \/ ReadSchedule(r)

LEMMA QuietSteps ==
    ASSUME NEW r \in Active, Quiet(r)
    PROVE  /\ \E place \in {"second", "third", "ok", "not_found"} : Goto(r, place)
           /\ pc[r] \in {"start", "second", "third"}
           /\ UNCHANGED <<rows, todo, byStudent, writes, past>>
BY DEF Quiet, Unknown, ReadBack, CreateCourse, PublishCourse, ReadCourses, ReadSummary,
       ReadMembers, ReadTotals, ReadDirections, ReadRegistry, ReadChildren, ResolveTarget,
       ReadDashboard, ResolveStudents, ReadSchedule, At

LEMMA QuietCourses ==
    ASSUME Inv, NEW r \in Active, Quiet(r)
    PROVE  \A c \in DOMAIN courses' : courses'[c] \in {"draft", "published", "archived"}
<1>0. \A c \in DOMAIN courses : courses[c] \in {"draft", "published", "archived"}
  BY DEF Inv, TypeOK
<1>1. CASE CreateCourse(r)
  BY <1>0, <1>1 DEF CreateCourse, Merge
<1>2. CASE PublishCourse(r)
  BY <1>0, <1>2 DEF PublishCourse
<1>3. CASE UNCHANGED courses
  BY <1>0, <1>3
<1>. QED
  BY <1>1, <1>2, <1>3
     DEF Quiet, Unknown, ReadBack, ReadCourses, ReadSummary, ReadMembers, ReadTotals,
         ReadDirections, ReadRegistry, ReadChildren, ResolveTarget, ReadDashboard,
         ResolveStudents, ReadSchedule

LEMMA QuietInv ==
    ASSUME Inv, NEW r \in Active, Quiet(r)
    PROVE  Inv'
<1>1. PICK place \in {"second", "third", "ok", "not_found"} : Goto(r, place)
  BY QuietSteps
<1>2. /\ Active' = Active /\ Active \in Loads
      /\ pc' \in [Active -> Places] /\ pc'[r] = place
      /\ \A q \in Active : q # r => pc'[q] = pc[q]
  BY <1>1, Moves DEF Places, Answers
<1>3. UNCHANGED <<rows, todo, byStudent, writes, past>> /\ pc[r] # "write"
  BY QuietSteps
<1>4. TypeOK'
  <2>1. \A q \in Active : WritesTyped(q)'
    BY <1>2, <1>3 DEF Inv, TypeOK, WritesTyped
  <2>. QED
    BY <1>2, <1>3, <2>1, QuietCourses DEF Inv, TypeOK, Places
<1>5. Shape' /\ Matched' /\ WritesKeep'
  BY <1>2, <1>3 DEF Inv, Shape, Matched, WritesKeep
<1>. QED
  BY <1>4, <1>5 DEF Inv

----------------------------------------------------------------------------
(* Steps of transfers and enrollments *)

LEMMA ArriveInv ==
    ASSUME Inv, NEW r \in Active, Arrive(r)
    PROVE  Inv'
<1>1. /\ Active' = Active /\ Active \in Loads
      /\ pc' \in [Active -> Places] /\ pc[r] = "new" /\ pc'[r] = "start"
      /\ \A q \in Active : q # r => pc'[q] = pc[q]
      /\ UNCHANGED <<rows, courses, todo, byStudent, writes>>
  BY Moves DEF Arrive, Places
<1>2. /\ DOMAIN past' = Active /\ past'[r] = DOMAIN rows
      /\ \A q \in Active : q # r => past'[q] = past[q]
  BY DEF Arrive, Inv, Shape
<1>3. TypeOK'
  <2>1. \A q \in Active : WritesTyped(q)'
    BY <1>1 DEF Inv, TypeOK, WritesTyped
  <2>2. \A q \in Active : past'[q] \subseteq DOMAIN rows'
    BY <1>1, <1>2 DEF Inv, TypeOK
  <2>. QED
    BY <1>1, <2>1, <2>2 DEF Inv, TypeOK, Places
<1>. QED
  BY <1>1, <1>2, <1>3 DEF Inv, Shape, Matched, WritesKeep

LEMMA ReadTransferInv ==
    ASSUME Inv, NEW r \in Active, ReadTransfer(r)
    PROVE  Inv'
<1>. DEFINE enrolled == {s \in Listed(r) : ExistingRows(r, s) # {}}
<1>1. /\ Active' = Active /\ Active \in Loads
      /\ pc' \in [Active -> Places] /\ pc[r] = "start" /\ pc'[r] = "write"
      /\ \A q \in Active : q # r => pc'[q] = pc[q]
      /\ UNCHANGED <<rows, courses, writes, past>>
      /\ Ask[r].group \in Groups
      /\ DOMAIN todo' = Active /\ DOMAIN byStudent' = Active
  BY Moves DEF ReadTransfer, At, Places, Inv, Shape
<1>2. PICK last \in [enrolled -> DOMAIN rows] :
        /\ \A s \in enrolled : last[s] \in ExistingRows(r, s)
        /\ byStudent' = [byStudent EXCEPT ![r] =
              [s \in enrolled |-> [id |-> last[s], group |-> rows[last[s]].group]]]
  BY DEF ReadTransfer
<1>. HIDE DEF enrolled
<1>3. /\ DOMAIN byStudent'[r] = enrolled
      /\ \A s \in enrolled : byStudent'[r][s].id = last[s]
      /\ \A q \in Active : q # r => byStudent'[q] = byStudent[q]
  BY <1>2 DEF Inv, Shape
<1>4. \A s \in enrolled : last[s] \in DOMAIN rows /\ CourseOf[rows[last[s]].group] = CourseOf[Ask[r].group]
  BY <1>2 DEF ExistingRows, RowsIn, RowsOf
<1>5. TypeOK'
  <2>1. \A q \in Active : WritesTyped(q)'
    BY <1>1 DEF Inv, TypeOK, WritesTyped
  <2>2. \A q \in Active : \A s \in DOMAIN byStudent'[q] : byStudent'[q][s].id \in DOMAIN rows'
    BY <1>1, <1>3, <1>4 DEF Inv, TypeOK
  <2>. QED
    BY <1>1, <2>1, <2>2 DEF Inv, TypeOK, Places
<1>6. Matched'
  BY <1>1, <1>3, <1>4 DEF Inv, Matched
<1>. QED
  BY <1>1, <1>5, <1>6 DEF Inv, Shape, WritesKeep

LEMMA ResolveInv ==
    ASSUME Inv, NEW r \in Active, ResolveStudent(r)
    PROVE  Inv'
<1>1. PICK place \in {"write", "conflict"} : Goto(r, place) /\ (place = "write" => Ask[r].group \in Groups)
  BY DEF ResolveStudent
<1>2. /\ Active' = Active /\ Active \in Loads
      /\ pc' \in [Active -> Places] /\ pc[r] = "start" /\ pc'[r] = place
      /\ \A q \in Active : q # r => pc'[q] = pc[q]
      /\ UNCHANGED <<rows, courses, byStudent, writes, past>>
      /\ DOMAIN todo' = Active
  BY <1>1, Moves DEF ResolveStudent, At, Places, Answers, Inv, Shape
<1>3. TypeOK'
  <2>1. \A q \in Active : WritesTyped(q)'
    BY <1>2 DEF Inv, TypeOK, WritesTyped
  <2>. QED
    BY <1>2, <2>1 DEF Inv, TypeOK, Places
<1>. QED
  BY <1>1, <1>2, <1>3 DEF Inv, Shape, Matched, WritesKeep

LEMMA AbortInv ==
    ASSUME Inv, NEW r \in Active, NEW answer \in Answers, Abort(r, answer)
    PROVE  Inv'
<1>1. /\ Active' = Active /\ Active \in Loads
      /\ pc' \in [Active -> Places] /\ pc'[r] = answer
      /\ \A q \in Active : q # r => pc'[q] = pc[q]
      /\ UNCHANGED <<rows, courses, todo, byStudent, past>>
      /\ DOMAIN writes' = Active /\ writes'[r] = Empty
      /\ \A q \in Active : q # r => writes'[q] = writes[q]
  BY Moves DEF Abort, Places, Inv, Shape
<1>2. DOMAIN Empty = {} /\ Empty \in [DOMAIN Empty -> Rows]
  BY DEF Empty
<1>3. TypeOK'
  <2>1. \A q \in Active : WritesTyped(q)'
    <3>1. \A q \in Active : WritesTyped(q)
      BY DEF Inv, TypeOK
    <3>. QED
      BY <1>1, <1>2, <3>1 DEF WritesTyped
  <2>3. /\ Active' \in Loads /\ pc' \in [Active' -> Places]
        /\ DOMAIN rows' \subseteq Ids /\ rows' \in [DOMAIN rows' -> Rows]
        /\ \A c \in DOMAIN courses' : courses'[c] \in {"draft", "published", "archived"}
    BY <1>1 DEF Inv, TypeOK, Places
  <2>4. \A q \in Active : /\ \A s \in DOMAIN byStudent'[q] : byStudent'[q][s].id \in DOMAIN rows'
                         /\ past'[q] \subseteq DOMAIN rows'
    BY <1>1 DEF Inv, TypeOK
  <2>. QED
    BY <1>1, <2>1, <2>3, <2>4 DEF TypeOK, Places
<1>4. Shape'
  BY <1>1 DEF Inv, Shape, Answers
<1>5. Matched'
  BY <1>1 DEF Inv, Matched
<1>6. WritesKeep'
  BY <1>1, <1>2 DEF Inv, WritesKeep
<1>. QED
  BY <1>3, <1>4, <1>5, <1>6 DEF Inv

\* The row written replaces one of the same student and course, or is new.
LEMMA RowWritten ==
    ASSUME Inv, NEW r \in Active, WriteRow(r)
    PROVE  /\ Target(r) \in Ids /\ RowAfter(r) \in Rows
           /\ IF Target(r) \in DOMAIN rows
              THEN Same(RowAfter(r), rows[Target(r)])
              ELSE Target(r) \in {r} \X Students
<1>1. Student(r) \in Students /\ Ask[r].group \in Groups /\ r \in Requests
  BY DEF WriteRow, Violates, Writing, Inv, Shape
<1>2. CASE ~Known(r)
  <2>1. Target(r) = <<r, Student(r)>> /\ Target(r) \notin DOMAIN View(r)
    BY <1>2 DEF Target, WriteRow, Violates
  <2>2. Target(r) \notin DOMAIN rows
    BY <2>1 DEF View, Merge
  <2>3. RowAfter(r) \in Rows
    BY <1>1, <1>2 DEF RowAfter, Rows, Statuses
  <2>. QED
    BY <1>1, <2>1, <2>2, <2>3 DEF Ids, Fresh
<1>3. CASE Known(r)
  <2>. DEFINE id == Target(r)
  <2>1. /\ id = byStudent[r][Student(r)].id /\ id \in DOMAIN rows
        /\ CourseOf[rows[id].group] = CourseOf[Ask[r].group]
    BY <1>3 DEF Known, Target, Inv, Matched
  <2>2. rows[id] \in Rows /\ id \in Ids
    BY <2>1 DEF Inv, TypeOK
  <2>3. View(r)[id] = IF id \in DOMAIN writes[r] THEN writes[r][id] ELSE rows[id]
    BY <2>1 DEF View, Merge
  <2>4. View(r)[id] \in Rows /\ Same(View(r)[id], rows[id])
    BY <2>1, <2>2, <2>3 DEF Inv, TypeOK, WritesTyped, WritesKeep, Same
  <2>5. RowAfter(r) = [View(r)[id] EXCEPT !.group = Ask[r].group]
    BY <1>3 DEF RowAfter
  <2>. HIDE DEF id
  <2>6. RowAfter(r) \in Rows /\ Same(RowAfter(r), rows[id])
    BY <1>1, <2>1, <2>4, <2>5 DEF Rows, Same
  <2>. QED
    BY <2>1, <2>2, <2>6 DEF id
<1>. QED
  BY <1>2, <1>3

LEMMA WriteInv ==
    ASSUME Inv, NEW r \in Active, WriteRow(r)
    PROVE  Inv'
<1>1. /\ Active' = Active /\ pc[r] = "write" /\ DOMAIN todo' = Active
      /\ UNCHANGED <<pc, rows, courses, byStudent, past>>
  BY DEF WriteRow, Writing, NextStudent, Active, Inv, Shape
<1>. DEFINE id == Target(r)
            row == RowAfter(r)
<1>2. /\ DOMAIN writes' = Active
      /\ \A q \in Active : q # r => writes'[q] = writes[q]
      /\ writes'[r] = [x \in {id} \cup DOMAIN writes[r] |-> IF x = id THEN row ELSE writes[r][x]]
  BY DEF WriteRow, Merge, Inv, Shape
<1>3. /\ id \in Ids /\ row \in Rows
      /\ IF id \in DOMAIN rows THEN Same(row, rows[id]) ELSE id \in {r} \X Students
  BY RowWritten
<1>. HIDE DEF id, row
<1>4. DOMAIN writes'[r] = {id} \cup DOMAIN writes[r]
  BY <1>2
<1>5. TypeOK'
  <2>1. /\ DOMAIN writes'[r] \subseteq Ids /\ writes'[r] \in [DOMAIN writes'[r] -> Rows]
        /\ pc'[r] = "write"
    BY <1>1, <1>2, <1>3, <1>4 DEF Inv, TypeOK, WritesTyped
  <2>2. \A q \in Active : WritesTyped(q)'
    <3>1. \A q \in Active : WritesTyped(q)
      BY DEF Inv, TypeOK
    <3>. QED
      BY <1>1, <1>2, <2>1, <3>1 DEF WritesTyped
  <2>3. /\ Active' \in Loads /\ pc' \in [Active' -> Places]
        /\ DOMAIN rows' \subseteq Ids /\ rows' \in [DOMAIN rows' -> Rows]
        /\ \A c \in DOMAIN courses' : courses'[c] \in {"draft", "published", "archived"}
    BY <1>1 DEF Inv, TypeOK, Places
  <2>4. \A q \in Active : /\ \A s \in DOMAIN byStudent'[q] : byStudent'[q][s].id \in DOMAIN rows'
                         /\ past'[q] \subseteq DOMAIN rows'
    BY <1>1 DEF Inv, TypeOK
  <2>. QED
    BY <1>1, <2>2, <2>3, <2>4 DEF TypeOK, Places
<1>6. Shape'
  BY <1>1, <1>2 DEF Inv, Shape
<1>7. Matched'
  BY <1>1 DEF Inv, Matched
<1>8. WritesKeep'
  BY <1>1, <1>2, <1>3, <1>4 DEF Inv, WritesKeep
<1>. QED
  BY <1>5, <1>6, <1>7, <1>8 DEF Inv

\* A commit adds what its own transaction wrote and changes only rows it keeps the
\* student, the progress and the course of.
LEMMA CommitRows ==
    ASSUME Inv, NEW r \in Active, Commit(r)
    PROVE  /\ DOMAIN rows' = DOMAIN writes[r] \cup DOMAIN rows
           /\ \A id \in DOMAIN rows' :
                rows'[id] = IF id \in DOMAIN writes[r] THEN writes[r][id] ELSE rows[id]
           /\ \A id \in DOMAIN rows : Same(rows'[id], rows[id])
<1>1. rows' = [x \in DOMAIN writes[r] \cup DOMAIN rows |->
                 IF x \in DOMAIN writes[r] THEN writes[r][x] ELSE rows[x]]
  BY DEF Commit, View, Merge
<1>. QED
  BY <1>1 DEF Inv, WritesKeep, Same

LEMMA CommitInv ==
    ASSUME Inv, NEW r \in Active, Commit(r)
    PROVE  Inv'
<1>1. /\ Active' = Active /\ Active \in Loads
      /\ pc' \in [Active -> Places] /\ pc'[r] = "second"
      /\ \A q \in Active : q # r => pc'[q] = pc[q]
      /\ UNCHANGED <<courses, todo, byStudent, past>>
      /\ DOMAIN writes' = Active /\ writes'[r] = Empty
      /\ \A q \in Active : q # r => writes'[q] = writes[q]
  BY Moves DEF Commit, Places, Inv, Shape
<1>2. DOMAIN Empty = {} /\ Empty \in [DOMAIN Empty -> Rows]
  BY DEF Empty
<1>3. /\ DOMAIN rows' = DOMAIN writes[r] \cup DOMAIN rows
      /\ \A id \in DOMAIN rows' :
           rows'[id] = IF id \in DOMAIN writes[r] THEN writes[r][id] ELSE rows[id]
      /\ \A id \in DOMAIN rows : Same(rows'[id], rows[id])
  BY CommitRows
<1>4. TypeOK'
  <2>1. \A q \in Active : WritesTyped(q)'
    <3>1. \A q \in Active : WritesTyped(q)
      BY DEF Inv, TypeOK
    <3>. QED
      BY <1>1, <1>2, <3>1 DEF WritesTyped
  <2>2. DOMAIN rows' \subseteq Ids /\ rows' \in [DOMAIN rows' -> Rows]
    <3>1. rows' = [x \in DOMAIN rows' |-> rows'[x]]
      BY DEF Commit, View, Merge
    <3>2. \A x \in DOMAIN rows' : rows'[x] \in Rows /\ x \in Ids
      BY <1>3 DEF Inv, TypeOK, WritesTyped
    <3>. QED
      BY <3>1, <3>2
  <2>3. /\ Active' \in Loads /\ pc' \in [Active' -> Places]
        /\ \A c \in DOMAIN courses' : courses'[c] \in {"draft", "published", "archived"}
    BY <1>1 DEF Inv, TypeOK
  <2>4. \A q \in Active : /\ \A s \in DOMAIN byStudent'[q] : byStudent'[q][s].id \in DOMAIN rows'
                         /\ past'[q] \subseteq DOMAIN rows'
    BY <1>1, <1>3 DEF Inv, TypeOK
  <2>. QED
    BY <1>1, <2>1, <2>2, <2>3, <2>4 DEF TypeOK, Places
<1>5. Shape'
  BY <1>1 DEF Inv, Shape
<1>6. Matched'
  BY <1>1, <1>3 DEF Inv, Matched, Same
<1>7. WritesKeep'
  <2>1. ASSUME NEW q \in Active, q # r, NEW id \in DOMAIN writes[q]
        PROVE  IF id \in DOMAIN rows' THEN Same(writes[q][id], rows'[id]) ELSE id \in {q} \X Students
    <3>1. CASE id \in DOMAIN rows
      BY <1>3, <3>1 DEF Inv, WritesKeep, Same
    <3>2. CASE id \notin DOMAIN rows
      <4>1. id \in {q} \X Students
        BY <3>2 DEF Inv, WritesKeep
      <4>2. id \notin DOMAIN writes[r]
        BY <2>1, <3>2, <4>1 DEF Inv, WritesKeep
      <4>. QED
        BY <1>3, <3>2, <4>1, <4>2
    <3>. QED
      BY <3>1, <3>2
  <2>. QED
    BY <1>1, <1>2, <2>1 DEF WritesKeep
<1>. QED
  BY <1>4, <1>5, <1>6, <1>7 DEF Inv

\* The steps that leave the committed enrollments alone.
LEMMA OthersInv ==
    ASSUME Inv, NEW r \in Active, Step(r) \/ Dies(r), ~Commit(r)
    PROVE  Inv' /\ UNCHANGED rows
<1>1. CASE Quiet(r)
  BY <1>1, QuietInv, QuietSteps
<1>2. CASE Arrive(r)
  BY <1>2, ArriveInv DEF Arrive
<1>3. CASE ReadTransfer(r)
  BY <1>3, ReadTransferInv DEF ReadTransfer
<1>4. CASE ResolveStudent(r)
  BY <1>4, ResolveInv DEF ResolveStudent
<1>5. CASE SkipMember(r)
  <2>1. UNCHANGED <<pc, rows, courses, byStudent, writes, past>> /\ DOMAIN todo' = DOMAIN todo
    BY <1>5 DEF SkipMember, NextStudent
  <2>. QED
    BY <2>1 DEF Inv, TypeOK, WritesTyped, Shape, Matched, WritesKeep, Active
<1>6. CASE WriteRow(r)
  BY <1>6, WriteInv DEF WriteRow
<1>7. CASE RowRefused(r) \/ DeadlockVictim(r) \/ Dies(r)
  <2>1. PICK answer \in Answers : Abort(r, answer)
    BY <1>7 DEF RowRefused, DeadlockVictim, Dies, Answers
  <2>. QED
    BY <2>1, AbortInv DEF Abort
<1>. QED
  BY <1>1, <1>2, <1>3, <1>4, <1>5, <1>6, <1>7 DEF Step, Quiet

LEMMA NextInv == Inv /\ [Next]_vars => Inv'
<1>. SUFFICES ASSUME Inv, [Next]_vars
              PROVE  Inv'
  OBVIOUS
<1>1. CASE UNCHANGED vars
  BY <1>1 DEF vars, Inv, TypeOK, WritesTyped, Shape, Matched, WritesKeep, Active
<1>2. CASE Next
  BY <1>2, OthersInv, CommitInv DEF Next
<1>. QED
  BY <1>1, <1>2

THEOREM InvHolds == Spec => []Inv
BY InitInv, NextInv, PTL DEF Spec

\* Whatever requests run at once, the tables and the open transactions' writes are
\* well typed, and what a transfer remembers of a row is a row.
THEOREM TablesTyped == Spec => []TypeOK
BY InvHolds, PTL DEF Inv

\* update_group_members preserves progress: no step of any request takes an
\* enrollment away or changes its student, its progress or its course.
THEOREM EnrollmentsStay == Spec => EnrollmentsKept
<1>1. Inv /\ [Next]_vars =>
        [\A id \in DOMAIN rows :
            /\ id \in DOMAIN rows'
            /\ rows'[id].student = rows[id].student /\ rows'[id].status = rows[id].status
            /\ CourseOf[rows'[id].group] = CourseOf[rows[id].group]]_vars
  <2>. SUFFICES ASSUME Inv, Next, NEW id \in DOMAIN rows
                PROVE  /\ id \in DOMAIN rows'
                       /\ rows'[id].student = rows[id].student /\ rows'[id].status = rows[id].status
                       /\ CourseOf[rows'[id].group] = CourseOf[rows[id].group]
    OBVIOUS
  <2>1. PICK r \in Active : Step(r) \/ Dies(r)
    BY DEF Next
  <2>2. CASE Commit(r)
    BY <2>2, CommitRows DEF Same
  <2>3. CASE ~Commit(r)
    BY <2>1, <2>3, OthersInv
  <2>. QED
    BY <2>2, <2>3
<1>. QED
  BY InvHolds, <1>1, PTL DEF Spec, EnrollmentsKept

----------------------------------------------------------------------------
(* Who is enrolled afresh *)

\* A request that has not read anything has no enrollment of its own yet.
Untold == \A r \in Active : pc[r] \in {"new", "start"} => DOMAIN rows \cap ({r} \X Students) = {}

\* s had no enrollment in the course of r when r came.
NewTo(r, s) == past[r] \cap RowsIn(s, Course(r)) = {}

\* A transfer writes students it lists; those it found no enrollment of are new to
\* the course, and so is everyone it has enrolled.
Newcomers ==
    \A r \in Transfers :
        /\ pc[r] = "write" =>
            /\ todo[r] \in Seq(Listed(r))
            /\ \A s \in Listed(r) \ DOMAIN byStudent[r] : NewTo(r, s)
        /\ \A s \in Students : <<r, s>> \in DOMAIN rows \cup DOMAIN writes[r] => NewTo(r, s)

FreshInv == Inv /\ Untold /\ Newcomers

\* No step changes which of a request's earlier enrollments are a student's in a course.
LEMMA PastKept ==
    ASSUME Inv, NEW r \in Active, Step(r) \/ Dies(r)
    PROVE  /\ \A id \in DOMAIN rows : id \in DOMAIN rows' /\ Same(rows'[id], rows[id])
           /\ \A q \in Active : \A s, c :
                past'[q] = past[q] => (past[q] \cap RowsIn(s, c))' = past[q] \cap RowsIn(s, c)
<1>1. \A id \in DOMAIN rows : id \in DOMAIN rows' /\ Same(rows'[id], rows[id])
  <2>1. CASE Commit(r)
    BY <2>1, CommitRows
  <2>2. CASE ~Commit(r)
    BY <2>2, OthersInv DEF Same
  <2>. QED
    BY <2>1, <2>2
<1>2. ASSUME NEW q \in Active, NEW s, NEW c, past'[q] = past[q]
      PROVE  (past[q] \cap RowsIn(s, c))' = past[q] \cap RowsIn(s, c)
  <2>1. \A id \in past[q] : id \in DOMAIN rows
    BY DEF Inv, TypeOK
  <2>. QED
    BY <1>1, <1>2, <2>1 DEF RowsIn, RowsOf, Same
<1>. QED
  BY <1>1, <1>2

\* Nothing is enrolled afresh at the start.
LEMMA InitFresh == Init => FreshInv
<1>. SUFFICES ASSUME Init
              PROVE  FreshInv
  OBVIOUS
<1>1. PICK load \in Loads : /\ pc = [r \in load |-> "new"]
                            /\ writes = [r \in load |-> Empty]
  BY DEF Init
<1>2. Active = load /\ load \subseteq Requests
  BY <1>1, LoadsAssumption DEF Active
<1>3. \A r \in Active : DOMAIN rows \cap ({r} \X Students) = {} /\ DOMAIN writes[r] = {}
  BY <1>1, <1>2, EnrolledAssumption DEF Init, Fresh, Empty
<1>4. Untold
  BY <1>3 DEF Untold
<1>5. Newcomers
  BY <1>1, <1>2, <1>3 DEF Newcomers, Transfers
<1>. QED
  BY <1>4, <1>5, InitInv DEF FreshInv

\* What a step of r does to the ids of enrollments that requests have made.
LEMMA OwnIds ==
    ASSUME Inv, NEW r \in Active, Step(r) \/ Dies(r), NEW q \in Active, NEW s \in Students,
           <<q, s>> \in DOMAIN rows', <<q, s>> \notin DOMAIN rows
    PROVE  Commit(r) /\ q = r /\ <<q, s>> \in DOMAIN writes[r]
<1>1. Commit(r)
  BY OthersInv
<1>2. <<q, s>> \in DOMAIN writes[r]
  BY <1>1, CommitRows
<1>3. <<q, s>> \in {r} \X Students
  BY <1>2 DEF Inv, WritesKeep
<1>. QED
  BY <1>1, <1>2, <1>3

\* A step of r leaves the other requests where they are.
LEMMA OthersStay ==
    ASSUME Inv, NEW r \in Active, Step(r) \/ Dies(r)
    PROVE  /\ Active' = Active
           /\ \A q \in Active : q # r =>
                /\ pc'[q] = pc[q] /\ todo'[q] = todo[q] /\ byStudent'[q] = byStudent[q]
                /\ writes'[q] = writes[q] /\ past'[q] = past[q]
<1>1. CASE Quiet(r)
  BY <1>1, QuietSteps, Moves DEF Places, Answers
<1>2. CASE Arrive(r)
  BY <1>2, Moves DEF Arrive, Places, Inv, Shape
<1>3. CASE ReadTransfer(r)
  BY <1>3, Moves DEF ReadTransfer, Places, Inv, Shape
<1>4. CASE ResolveStudent(r)
  BY <1>4, Moves DEF ResolveStudent, Places, Answers, Inv, Shape
<1>5. CASE SkipMember(r)
  BY <1>5 DEF SkipMember, NextStudent, Active, Inv, Shape
<1>6. CASE WriteRow(r)
  BY <1>6 DEF WriteRow, NextStudent, Active, Inv, Shape
<1>7. CASE RowRefused(r) \/ DeadlockVictim(r) \/ Dies(r)
  <2>1. PICK answer \in Answers : Abort(r, answer)
    BY <1>7 DEF RowRefused, DeadlockVictim, Dies, Answers
  <2>. QED
    BY <2>1, Moves DEF Abort, Places, Inv, Shape
<1>8. CASE Commit(r)
  BY <1>8, Moves DEF Commit, Places, Inv, Shape
<1>. QED
  BY <1>1, <1>2, <1>3, <1>4, <1>5, <1>6, <1>7, <1>8 DEF Step, Quiet

LEMMA UntoldKept ==
    ASSUME FreshInv, NEW r \in Active, Step(r) \/ Dies(r)
    PROVE  Untold'
<1>. SUFFICES ASSUME NEW q \in Active, pc'[q] \in {"new", "start"}, NEW s \in Students,
                     <<q, s>> \in DOMAIN rows'
              PROVE  FALSE
  BY OthersStay DEF Untold, FreshInv
<1>1. pc[q] \in {"new", "start"} /\ ~Commit(q)
  <2>1. CASE q # r
    BY <2>1, OthersStay DEF FreshInv, Commit
  <2>2. CASE q = r
    <3>1. CASE Quiet(r)
      BY <2>2, <3>1, QuietSteps, Moves DEF Places, Answers, FreshInv
    <3>2. CASE Arrive(r)
      BY <2>2, <3>2 DEF Arrive, Commit
    <3>3. CASE ReadTransfer(r) \/ ResolveStudent(r) \/ Commit(r)
      BY <2>2, <3>3, Moves DEF ReadTransfer, ResolveStudent, Commit, Places, Answers, FreshInv
    <3>4. CASE SkipMember(r) \/ WriteRow(r)
      BY <2>2, <3>4 DEF SkipMember, WriteRow, Writing
    <3>5. CASE RowRefused(r) \/ DeadlockVictim(r) \/ Dies(r)
      <4>1. PICK answer \in Answers : Abort(r, answer)
        BY <3>5 DEF RowRefused, DeadlockVictim, Dies, Answers
      <4>. QED
        BY <2>2, <4>1, Moves DEF Abort, Places, Answers, FreshInv
    <3>. QED
      BY <3>1, <3>2, <3>3, <3>4, <3>5 DEF Step, Quiet
  <2>. QED
    BY <2>1, <2>2
<1>2. <<q, s>> \notin DOMAIN rows
  BY <1>1 DEF FreshInv, Untold
<1>. QED
  BY <1>1, <1>2, OwnIds DEF FreshInv

\* What Newcomers says of one transfer.
Newcomer(r) ==
    /\ pc[r] = "write" =>
        /\ todo[r] \in Seq(Listed(r))
        /\ \A s \in Listed(r) \ DOMAIN byStudent[r] : NewTo(r, s)
    /\ \A s \in Students : <<r, s>> \in DOMAIN rows \cup DOMAIN writes[r] => NewTo(r, s)

\* The transfer that arrives has nothing of its own.
LEMMA ArriveFresh ==
    ASSUME FreshInv, NEW r \in Transfers, Arrive(r)
    PROVE  Newcomer(r)'
<1>1. r \in Active /\ pc[r] = "new" /\ pc'[r] = "start" /\ UNCHANGED <<rows, writes>>
  BY Moves DEF Arrive, Places, Transfers, FreshInv
<1>2. DOMAIN writes[r] = {}
  BY <1>1 DEF FreshInv, Inv, TypeOK, WritesTyped, Empty
<1>3. \A s \in Students : <<r, s>> \notin DOMAIN rows
  BY <1>1 DEF FreshInv, Untold
<1>. QED
  BY <1>1, <1>2, <1>3 DEF Newcomer

\* Every other step of a transfer keeps what it was new to, and enrolls no one else.
LEMMA TransferFresh ==
    ASSUME FreshInv, NEW r \in Transfers, Step(r) \/ Dies(r), ~Arrive(r)
    PROVE  Newcomer(r)'
<1>1. r \in Active /\ r \in Requests /\ Ask[r].kind = "transfer" /\ Newcomer(r) /\ Inv
  BY LoadsAssumption DEF Transfers, FreshInv, Newcomers, Newcomer, Inv, TypeOK
<1>2. past'[r] = past[r]
  <2>1. CASE Quiet(r)
    BY <1>1, <2>1, QuietSteps
  <2>2. CASE ~Quiet(r)
    BY <2>2 DEF Step, Quiet, ReadTransfer, ResolveStudent, SkipMember, WriteRow, RowRefused,
                DeadlockVictim, Dies, Abort, Commit
  <2>. QED
    BY <2>1, <2>2
<1>3. \A s : NewTo(r, s) => NewTo(r, s)'
  BY <1>1, <1>2, PastKept DEF NewTo, Course
<1>4. \A s \in Students : <<r, s>> \in DOMAIN rows' => <<r, s>> \in DOMAIN rows \cup DOMAIN writes[r]
  BY <1>1, OwnIds
<1>. SUFFICES /\ pc'[r] = "write" =>
                  /\ todo'[r] \in Seq(Listed(r))
                  /\ \A s \in Listed(r) \ DOMAIN byStudent'[r] : NewTo(r, s)
              /\ \A s \in Students : <<r, s>> \in DOMAIN writes'[r] => NewTo(r, s)
  BY <1>1, <1>3, <1>4 DEF Newcomer, Listed
<1>5. CASE Quiet(r)
  BY <1>1, <1>5, QuietSteps, Moves DEF Newcomer, Places, Answers
<1>6. CASE ReadTransfer(r)
  <2>1. todo'[r] = Ask[r].students /\ writes' = writes
    BY <1>1, <1>6 DEF ReadTransfer, Inv, Shape
  <2>2. \A s \in Listed(r) : ExistingRows(r, s) # {} => s \in DOMAIN byStudent'[r]
    BY <1>1, <1>6 DEF ReadTransfer, Inv, Shape
  <2>. QED
    BY <1>1, <2>1, <2>2, AskAssumption DEF Newcomer, NewTo, ExistingRows, Course
<1>7. CASE SkipMember(r)
  <2>1. todo'[r] = Tail(todo[r]) /\ todo[r] # <<>> /\ UNCHANGED <<pc, byStudent, writes>>
    BY <1>1, <1>7 DEF SkipMember, Writing, NextStudent, Inv, Shape
  <2>. QED
    BY <1>1, <2>1 DEF Newcomer
<1>8. CASE WriteRow(r)
  <2>1. /\ todo'[r] = Tail(todo[r]) /\ todo[r] # <<>> /\ UNCHANGED <<pc, byStudent>>
        /\ pc[r] = "write" /\ DOMAIN writes'[r] = {Target(r)} \cup DOMAIN writes[r]
    BY <1>1, <1>8 DEF WriteRow, Writing, NextStudent, Merge, Inv, Shape
  <2>2. Student(r) \in Listed(r) /\ todo'[r] \in Seq(Listed(r))
    BY <1>1, <2>1 DEF Newcomer, Student
  <2>3. ASSUME NEW s \in Students, <<r, s>> = Target(r)
        PROVE  NewTo(r, s)
    <3>1. CASE Known(r)
      BY <1>1, <2>3, <3>1 DEF Known, Target, Inv, Matched, Newcomer
    <3>2. CASE ~Known(r)
      BY <1>1, <2>1, <2>2, <2>3, <3>2 DEF Known, Target, Newcomer
    <3>. QED
      BY <3>1, <3>2
  <2>. QED
    BY <1>1, <2>1, <2>2, <2>3 DEF Newcomer
<1>9. CASE RowRefused(r) \/ DeadlockVictim(r) \/ Dies(r)
  <2>1. PICK answer \in Answers : Abort(r, answer)
    BY <1>9 DEF RowRefused, DeadlockVictim, Dies, Answers
  <2>2. pc'[r] = answer /\ DOMAIN writes'[r] = {}
    BY <1>1, <2>1 DEF Abort, Goto, Active, Empty, Inv, Shape
  <2>. QED
    BY <2>2 DEF Answers
<1>10. CASE Commit(r)
  BY <1>1, <1>10 DEF Commit, Goto, Active, Empty, Inv, Shape
<1>11. CASE ResolveStudent(r)
  BY <1>1, <1>11 DEF ResolveStudent, At
<1>. QED
  BY <1>5, <1>6, <1>7, <1>8, <1>9, <1>10, <1>11 DEF Step, Quiet

LEMMA NextFresh == FreshInv /\ [Next]_vars => FreshInv'
<1>. SUFFICES ASSUME FreshInv, [Next]_vars
              PROVE  FreshInv'
  OBVIOUS
<1>1. CASE UNCHANGED vars
  BY <1>1, NextInv DEF vars, FreshInv, Untold, Newcomers, NewTo, RowsIn, RowsOf, Transfers, Active
<1>2. CASE Next
  <2>1. PICK r \in Active : Step(r) \/ Dies(r)
    BY <1>2 DEF Next
  <2>2. Inv' /\ Untold'
    BY <1>2, <2>1, NextInv, UntoldKept DEF FreshInv
  <2>3. Transfers' = Transfers
    BY <2>1, OthersStay DEF Transfers, FreshInv
  <2>4. ASSUME NEW q \in Transfers, q # r
        PROVE  Newcomer(q)'
    <3>1. q \in Active /\ Newcomer(q) /\ Inv
      BY DEF Transfers, FreshInv, Newcomers, Newcomer
    <3>2. /\ pc'[q] = pc[q] /\ todo'[q] = todo[q] /\ byStudent'[q] = byStudent[q]
          /\ writes'[q] = writes[q] /\ past'[q] = past[q]
      BY <2>1, <2>4, <3>1, OthersStay
    <3>3. \A s : NewTo(q, s) => NewTo(q, s)'
      BY <2>1, <3>1, <3>2, PastKept DEF NewTo, Course
    <3>4. \A s \in Students : <<q, s>> \in DOMAIN rows' => <<q, s>> \in DOMAIN rows
      BY <2>1, <2>4, <3>1, OwnIds
    <3>. QED
      BY <3>1, <3>2, <3>3, <3>4 DEF Newcomer, Listed
  <2>5. r \in Transfers => Newcomer(r)'
    BY <2>1, ArriveFresh, TransferFresh
  <2>6. Newcomers'
    BY <2>3, <2>4, <2>5 DEF Newcomers, Newcomer
  <2>. QED
    BY <2>2, <2>6 DEF FreshInv
<1>. QED
  BY <1>1, <1>2

\* One transfer after another moves a student and never doubles the enrollment: who
\* was in the course when the request came gets no new row from it, whatever other
\* transfers, enrollments and rollbacks happen meanwhile.
THEOREM NobodyEnrolledTwice == Spec => []FreshOnlyWhenNew
<1>1. FreshInv => FreshOnlyWhenNew
  BY DEF FreshInv, Newcomers, NewTo, FreshOnlyWhenNew
<1>. QED
  BY InitFresh, NextFresh, <1>1, PTL DEF Spec

----------------------------------------------------------------------------
(* Where transfers leave their students *)

\* The groups that transfers of s in the course of r lead to.
Goals(r, s) == {Ask[q].group : q \in Moving(r, s)}

\* s is in one of them.
Home(r, s) == \E id \in RowsOf(s) : rows[id].group \in Goals(r, s)

\* Open transactions put rows into the group they ask for, transfers those of the
\* students they list; only transfers write rows that are there already.
WritesOwn ==
    \A r \in Active : \A id \in DOMAIN writes[r] :
        /\ writes[r][id].group = Ask[r].group
        /\ Ask[r].kind = "transfer" => writes[r][id].student \in Listed(r)
        /\ id \in DOMAIN rows => Ask[r].kind = "transfer"

\* What by_student says: a row of that student; nobody else has notes.
NotesOwn ==
    \A r \in Active :
        /\ Ask[r].kind # "transfer" => DOMAIN byStudent[r] = {}
        /\ \A s \in DOMAIN byStudent[r] : rows[byStudent[r][s].id].student = s

ToDo(r, s)    == \E k \in DOMAIN todo[r] : todo[r][k] = s
Written(r, s) == \E id \in DOMAIN writes[r] : writes[r][id].student = s

\* While a transfer writes, each student is still to do, written, or at home; who was
\* found in the target is at home; and once it has committed everyone is, which the
\* answer shows.
Delivered(r) ==
    /\ pc[r] \in {"write", "second", "third", "ok"} => Ask[r].group \in Groups
    /\ pc[r] = "write" =>
        /\ \A s \in Listed(r) : ToDo(r, s) \/ Written(r, s) \/ Home(r, s)
        /\ \A s \in DOMAIN byStudent[r] :
            s \in Listed(r) /\ (byStudent[r][s].group = Ask[r].group => Home(r, s))
    /\ pc[r] \in {"second", "third", "ok"} => \A s \in Listed(r) : Home(r, s)
    /\ pc[r] = "ok" =>
        \A s \in Listed(r) : Goals(r, s) = {Ask[r].group} => s \in found[r].members

Delivering ==
    /\ DOMAIN found = Active
    /\ WritesOwn /\ NotesOwn
    /\ \A r \in Transfers : Delivered(r)

DeliverInv == FreshInv /\ Delivering

LEMMA InitDeliver == Init => DeliverInv
<1>. SUFFICES ASSUME Init
              PROVE  Delivering
  BY InitFresh DEF DeliverInv
<1>1. PICK load \in Loads : /\ pc = [r \in load |-> "new"]
                            /\ byStudent = [r \in load |-> Empty]
                            /\ writes = [r \in load |-> Empty]
                            /\ found = [r \in load |-> Empty]
  BY DEF Init
<1>2. Active = load /\ DOMAIN found = Active
  BY <1>1 DEF Active
<1>3. \A r \in Active : DOMAIN writes[r] = {} /\ DOMAIN byStudent[r] = {} /\ pc[r] = "new"
  BY <1>1, <1>2 DEF Empty
<1>. QED
  BY <1>2, <1>3 DEF Delivering, WritesOwn, NotesOwn, Transfers, Delivered

\* A step of r leaves alone what the others have found.
LEMMA FoundStays ==
    ASSUME DOMAIN found = Active, NEW r \in Active, Step(r) \/ Dies(r)
    PROVE  DOMAIN found' = Active /\ \A q \in Active : q # r => found'[q] = found[q]
<1>1. CASE \E data : found' = [found EXCEPT ![r] = data]
  BY <1>1
<1>2. CASE UNCHANGED found
  BY <1>2
<1>. QED
  BY <1>1, <1>2
     DEF Step, Dies, Arrive, Unknown, ReadTransfer, ResolveStudent, SkipMember, WriteRow,
         RowRefused, DeadlockVictim, Abort, Commit, ReadBack, CreateCourse, PublishCourse,
         ReadCourses, ReadSummary, ReadMembers, ReadTotals, ReadDirections, ReadRegistry,
         ReadChildren, ResolveTarget, ReadDashboard, ResolveStudents, ReadSchedule,
         FoundMore, Found

\* A student at home is moved only by a transfer that leads to one of the goals.
LEMMA HomeStays ==
    ASSUME DeliverInv, NEW r \in Active, Step(r) \/ Dies(r), NEW q \in Transfers, NEW s,
           Home(q, s)
    PROVE  Home(q, s)'
<1>1. Inv /\ WritesOwn /\ Transfers' = Transfers /\ r \in Requests
  BY OthersStay, LoadsAssumption DEF DeliverInv, FreshInv, Delivering, Transfers, Inv, TypeOK
<1>2. Goals(q, s)' = Goals(q, s)
  BY <1>1 DEF Goals, Moving, Course, Listed
<1>3. PICK id \in DOMAIN rows : rows[id].student = s /\ rows[id].group \in Goals(q, s)
  BY DEF Home, RowsOf
<1>4. id \in DOMAIN rows' /\ Same(rows'[id], rows[id])
  BY <1>1, PastKept
<1>5. CASE rows'[id] = rows[id]
  BY <1>2, <1>3, <1>4, <1>5 DEF Home, RowsOf
<1>6. CASE rows'[id] # rows[id]
  <2>1. Commit(r)
    BY <1>1, <1>6, OthersInv
  <2>2. id \in DOMAIN writes[r] /\ rows'[id] = writes[r][id]
    BY <1>1, <1>4, <1>6, <2>1, CommitRows
  <2>3. rows'[id].student = s /\ rows'[id].group = Ask[r].group /\ r \in Transfers /\ s \in Listed(r)
    BY <1>1, <1>3, <1>4, <2>2 DEF WritesOwn, Same, Transfers
  <2>4. CourseOf[Ask[r].group] = CourseOf[rows[id].group] /\ Ask[r].group \in Groups
    BY <1>1, <1>4, <2>1, <2>3 DEF Same, Commit, Inv, Shape
  <2>5. PICK x \in Moving(q, s) : rows[id].group = Ask[x].group
    BY <1>3 DEF Goals
  <2>6. Course(r) = Course(q)
    BY <2>4, <2>5 DEF Moving, Course
  <2>7. Ask[r].group \in Goals(q, s)
    BY <2>3, <2>4, <2>6 DEF Goals, Moving
  <2>. QED
    BY <1>2, <1>4, <2>3, <2>7 DEF Home, RowsOf
<1>. QED
  BY <1>5, <1>6

\* A transfer's own group is one of its goals.
LEMMA OwnGoal ==
    ASSUME NEW r \in Transfers, Ask[r].group \in Groups, NEW s \in Listed(r)
    PROVE  Ask[r].group \in Goals(r, s)
BY DEF Goals, Moving

\* What WriteRow adds to the writes of its transaction: it keeps the students written.
LEMMA WrittenRow ==
    ASSUME DeliverInv, NEW r \in Active, WriteRow(r)
    PROVE  /\ DOMAIN writes'[r] = {Target(r)} \cup DOMAIN writes[r]
           /\ \A id \in DOMAIN writes[r] : id # Target(r) => writes'[r][id] = writes[r][id]
           /\ writes'[r][Target(r)].group = Ask[r].group
           /\ writes'[r][Target(r)].student = Student(r)
           /\ Target(r) \in DOMAIN writes[r] => writes[r][Target(r)].student = Student(r)
           /\ Target(r) \in DOMAIN rows => Known(r)
<1>. DEFINE id == Target(r)
<1>1. Inv /\ NotesOwn /\ WritesOwn
  BY DEF DeliverInv, FreshInv, Delivering
<1>2. writes'[r] = [x \in {id} \cup DOMAIN writes[r] |-> IF x = id THEN RowAfter(r) ELSE writes[r][x]]
  BY <1>1 DEF WriteRow, Merge, Inv, Shape
<1>3. CASE ~Known(r)
  <2>1. id \notin DOMAIN rows /\ id \notin DOMAIN writes[r]
    BY <1>3 DEF WriteRow, Violates, View, Merge
  <2>2. RowAfter(r).group = Ask[r].group /\ RowAfter(r).student = Student(r)
    BY <1>3 DEF RowAfter
  <2>. HIDE DEF id
  <2>3. /\ DOMAIN writes'[r] = {id} \cup DOMAIN writes[r]
        /\ writes'[r][id] = RowAfter(r)
        /\ \A x \in DOMAIN writes[r] : x # id => writes'[r][x] = writes[r][x]
    BY <1>2
  <2>. QED
    BY <2>1, <2>2, <2>3 DEF id
<1>4. CASE Known(r)
  <2>1. id \in DOMAIN rows /\ rows[id].student = Student(r) /\ rows[id] \in Rows
    BY <1>1, <1>4 DEF Known, Target, NotesOwn, Inv, TypeOK
  <2>2. View(r)[id] = IF id \in DOMAIN writes[r] THEN writes[r][id] ELSE rows[id]
    BY <2>1 DEF View, Merge
  <2>3. id \in DOMAIN writes[r] => writes[r][id] \in Rows /\ writes[r][id].student = Student(r)
    BY <1>1, <2>1 DEF Inv, TypeOK, WritesTyped, WritesKeep, Same
  <2>4. RowAfter(r) = [View(r)[id] EXCEPT !.group = Ask[r].group]
    BY <1>4 DEF RowAfter
  <2>. HIDE DEF id
  <2>5. RowAfter(r).group = Ask[r].group /\ RowAfter(r).student = Student(r)
    BY <2>1, <2>2, <2>3, <2>4 DEF Rows
  <2>6. /\ DOMAIN writes'[r] = {id} \cup DOMAIN writes[r]
        /\ writes'[r][id] = RowAfter(r)
        /\ \A x \in DOMAIN writes[r] : x # id => writes'[r][x] = writes[r][x]
    BY <1>2
  <2>. QED
    BY <1>4, <2>3, <2>5, <2>6 DEF id
<1>. QED
  BY <1>3, <1>4

\* The student written next is one the transfer lists.
LEMMA NextListed ==
    ASSUME DeliverInv, NEW r \in Transfers, Writing(r)
    PROVE  /\ todo[r] \in Seq(Listed(r)) /\ Student(r) \in Listed(r)
           /\ \A s : ToDo(r, s) =>
                s = Student(r) \/ \E k \in DOMAIN Tail(todo[r]) : Tail(todo[r])[k] = s
<1>1. todo[r] \in Seq(Listed(r)) /\ todo[r] # <<>>
  BY DEF DeliverInv, FreshInv, Newcomers, Writing
<1>2. Student(r) = todo[r][1] /\ Student(r) \in Listed(r)
  BY <1>1 DEF Student
<1>3. ASSUME NEW s, NEW k \in DOMAIN todo[r], todo[r][k] = s, k # 1
      PROVE  \E i \in DOMAIN Tail(todo[r]) : Tail(todo[r])[i] = s
  <2>1. k - 1 \in DOMAIN Tail(todo[r]) /\ Tail(todo[r])[k - 1] = s
    BY <1>1, <1>3
  <2>. QED
    BY <2>1
<1>. QED
  BY <1>1, <1>2, <1>3 DEF ToDo

LEMMA WritesOwnKept ==
    ASSUME DeliverInv, NEW r \in Active, Step(r) \/ Dies(r)
    PROVE  WritesOwn'
<1>1. Inv /\ WritesOwn /\ NotesOwn /\ Active' = Active
  BY OthersStay DEF DeliverInv, FreshInv, Delivering
<1>2. ASSUME NEW q \in Active, NEW id \in DOMAIN writes'[q], id \in DOMAIN writes[q],
             writes'[q][id] = writes[q][id]
      PROVE  /\ writes'[q][id].group = Ask[q].group
             /\ Ask[q].kind = "transfer" => writes'[q][id].student \in Listed(q)
             /\ id \in DOMAIN rows' => Ask[q].kind = "transfer"
  <2>1. CASE id \in DOMAIN rows
    BY <1>1, <1>2, <2>1 DEF WritesOwn
  <2>2. CASE id \notin DOMAIN rows
    <3>1. id \in {q} \X Students
      BY <1>1, <1>2, <2>2 DEF Inv, WritesKeep
    <3>2. id \in DOMAIN rows' => Commit(r) /\ q = r
      BY <1>1, <2>2, <3>1, OwnIds
    <3>3. Commit(r) => DOMAIN writes'[r] = {}
      BY <1>1 DEF Commit, Empty, Inv, Shape
    <3>. QED
      BY <1>1, <1>2, <3>2, <3>3 DEF WritesOwn
  <2>. QED
    BY <2>1, <2>2
<1>3. ASSUME NEW q \in Active, q # r
      PROVE  writes'[q] = writes[q]
  BY <1>1, <1>3, OthersStay
<1>4. CASE writes'[r] = writes[r]
  BY <1>1, <1>2, <1>3, <1>4 DEF WritesOwn, Listed
<1>5. CASE DOMAIN writes'[r] = {}
  BY <1>1, <1>2, <1>3, <1>5 DEF WritesOwn, Listed
<1>6. CASE WriteRow(r)
  <2>1. rows' = rows /\ Writing(r)
    BY <1>6 DEF WriteRow
  <2>2. Ask[r].kind = "transfer" => Student(r) \in Listed(r)
    BY <2>1, NextListed DEF Transfers
  <2>3. Known(r) => Ask[r].kind = "transfer"
    BY <1>1 DEF Known, NotesOwn
  <2>4. ASSUME NEW id \in DOMAIN writes'[r]
        PROVE  /\ writes'[r][id].group = Ask[r].group
               /\ Ask[r].kind = "transfer" => writes'[r][id].student \in Listed(r)
               /\ id \in DOMAIN rows' => Ask[r].kind = "transfer"
    BY <1>2, <1>6, <2>1, <2>2, <2>3, WrittenRow
  <2>. QED
    BY <1>1, <1>2, <1>3, <2>4 DEF WritesOwn, Listed
<1>7. CASE Quiet(r)
  BY <1>1, <1>4, <1>7, QuietSteps
<1>. QED
  BY <1>1, <1>4, <1>5, <1>6, <1>7
     DEF Step, Quiet, Dies, Arrive, ReadTransfer, ResolveStudent, SkipMember, RowRefused,
         DeadlockVictim, Abort, Commit, Empty, Inv, Shape

LEMMA NotesOwnKept ==
    ASSUME DeliverInv, NEW r \in Active, Step(r) \/ Dies(r)
    PROVE  NotesOwn'
<1>1. Inv /\ NotesOwn /\ Active' = Active
  BY OthersStay DEF DeliverInv, FreshInv, Delivering
<1>2. ASSUME NEW q \in Active, byStudent'[q] = byStudent[q]
      PROVE  /\ Ask[q].kind # "transfer" => DOMAIN byStudent'[q] = {}
             /\ \A s \in DOMAIN byStudent'[q] : rows'[byStudent'[q][s].id].student = s
  BY <1>1, <1>2, PastKept DEF NotesOwn, Inv, Matched, Same
<1>3. \A q \in Active : q # r => byStudent'[q] = byStudent[q]
  BY <1>1, OthersStay
<1>4. CASE byStudent'[r] = byStudent[r]
  BY <1>1, <1>2, <1>3, <1>4 DEF NotesOwn
<1>5. CASE ReadTransfer(r)
  <2>1. /\ Ask[r].kind = "transfer" /\ rows' = rows
        /\ \A s \in DOMAIN byStudent'[r] : byStudent'[r][s].id \in ExistingRows(r, s)
    BY <1>1, <1>5 DEF ReadTransfer, At, Inv, Shape
  <2>. QED
    BY <1>1, <1>2, <1>3, <2>1 DEF NotesOwn, ExistingRows, RowsIn, RowsOf
<1>6. CASE Quiet(r)
  BY <1>1, <1>4, <1>6, QuietSteps
<1>. QED
  BY <1>4, <1>5, <1>6
     DEF Step, Quiet, Dies, Arrive, ResolveStudent, SkipMember, WriteRow, RowRefused,
         DeadlockVictim, Abort, Commit

LEMMA GoalsStay ==
    ASSUME Inv, NEW r \in Active, Step(r) \/ Dies(r)
    PROVE  Transfers' = Transfers /\ \A q, s : Goals(q, s)' = Goals(q, s)
BY OthersStay DEF Goals, Moving, Course, Listed, Transfers

\* The step of another request.
LEMMA OthersDelivered ==
    ASSUME DeliverInv, NEW r \in Active, Step(r) \/ Dies(r), NEW q \in Transfers, q # r
    PROVE  Delivered(q)'
<1>1. Inv /\ Delivered(q) /\ q \in Active
  BY DEF DeliverInv, FreshInv, Delivering, Transfers
<1>2. /\ pc'[q] = pc[q] /\ todo'[q] = todo[q] /\ byStudent'[q] = byStudent[q]
      /\ writes'[q] = writes[q] /\ found'[q] = found[q]
  BY <1>1, OthersStay, FoundStays DEF DeliverInv, Delivering
<1>3. \A s : Home(q, s) => Home(q, s)'
  BY HomeStays
<1>4. \A s : Goals(q, s)' = Goals(q, s)
  BY <1>1, GoalsStay
<1>5. \A s : (ToDo(q, s) => ToDo(q, s)') /\ (Written(q, s) => Written(q, s)')
  BY <1>2 DEF ToDo, Written
<1>. QED
  BY <1>1, <1>2, <1>3, <1>4, <1>5 DEF Delivered, Listed

\* The transfer's own step.
LEMMA StepDelivered ==
    ASSUME DeliverInv, NEW r \in Transfers, Step(r) \/ Dies(r)
    PROVE  Delivered(r)'
<1>1. /\ Inv /\ Delivered(r) /\ r \in Active /\ Ask[r].kind = "transfer" /\ DOMAIN found = Active
      /\ WritesOwn
  BY DEF DeliverInv, FreshInv, Delivering, Transfers
<1>2. \A s : Home(r, s) => Home(r, s)'
  BY <1>1, HomeStays
<1>3. \A s : Goals(r, s)' = Goals(r, s)
  BY <1>1, GoalsStay
<1>4. CASE pc'[r] \notin {"write", "second", "third", "ok"}
  BY <1>4 DEF Delivered
<1>5. CASE ReadSummary(r)
  <2>1. pc[r] = "second" /\ pc'[r] = "third"
    BY <1>1, <1>5, Moves DEF ReadSummary, At, Places
  <2>. QED
    BY <1>1, <1>2, <2>1 DEF Delivered, Listed
<1>6. CASE ReadMembers(r)
  <2>1. pc[r] = "third" /\ pc'[r] = "ok" /\ rows' = rows
    BY <1>1, <1>6, Moves DEF ReadMembers, At, Places, Answers
  <2>2. found'[r].members = {rows[id].student : id \in Members(Ask[r].group)}
    BY <1>1, <1>6 DEF ReadMembers, FoundMore, Found, Merge
  <2>3. ASSUME NEW s \in Listed(r), Goals(r, s) = {Ask[r].group}
        PROVE  s \in found'[r].members
    <3>1. PICK id \in RowsOf(s) : rows[id].group = Ask[r].group
      BY <1>1, <2>1, <2>3 DEF Delivered, Home
    <3>. QED
      BY <2>2, <3>1 DEF RowsOf, Members
  <2>. QED
    BY <1>1, <1>2, <1>3, <2>1, <2>3 DEF Delivered, Listed
<1>7. CASE ReadTransfer(r)
  <2>1. /\ pc'[r] = "write" /\ Ask[r].group \in Groups /\ todo'[r] = Ask[r].students
        /\ rows' = rows
        /\ \A s \in DOMAIN byStudent'[r] :
            /\ s \in Listed(r) /\ byStudent'[r][s].id \in ExistingRows(r, s)
            /\ byStudent'[r][s].group = rows[byStudent'[r][s].id].group
    BY <1>1, <1>7, Moves DEF ReadTransfer, Places, Inv, Shape
  <2>2. \A s \in Listed(r) : ToDo(r, s)'
    BY <2>1 DEF ToDo, Listed
  <2>3. ASSUME NEW s \in DOMAIN byStudent'[r], byStudent'[r][s].group = Ask[r].group
        PROVE  Home(r, s)
    <3>1. byStudent'[r][s].id \in RowsOf(s) /\ rows[byStudent'[r][s].id].group = Ask[r].group
      BY <2>1, <2>3 DEF ExistingRows, RowsIn
    <3>. QED
      BY <2>1, <3>1, OwnGoal DEF Home
  <2>. QED
    BY <1>2, <2>1, <2>2, <2>3 DEF Delivered, Listed
<1>8. CASE SkipMember(r)
  <2>1. /\ Writing(r) /\ Untouched(r) /\ todo'[r] = Tail(todo[r])
        /\ UNCHANGED <<pc, byStudent, writes>>
    BY <1>1, <1>8 DEF SkipMember, NextStudent, Inv, Shape
  <2>2. Home(r, Student(r))
    BY <1>1, <2>1 DEF Untouched, Known, Writing, Delivered
  <2>3. \A s : ToDo(r, s) => s = Student(r) \/ ToDo(r, s)'
    BY <2>1, NextListed DEF ToDo
  <2>4. \A s : Written(r, s) => Written(r, s)'
    BY <2>1 DEF Written
  <2>5. pc'[r] = "write" /\ pc[r] = "write"
    BY <2>1 DEF Writing
  <2>6. \A s \in Listed(r) : ToDo(r, s)' \/ Written(r, s)' \/ Home(r, s)'
    BY <1>1, <1>2, <2>2, <2>3, <2>4, <2>5 DEF Delivered
  <2>. QED
    BY <1>1, <1>2, <2>1, <2>5, <2>6 DEF Delivered, Listed
<1>9. CASE WriteRow(r)
  <2>1. Writing(r) /\ todo'[r] = Tail(todo[r]) /\ UNCHANGED <<pc, byStudent>>
    BY <1>1, <1>9 DEF WriteRow, NextStudent, Inv, Shape
  <2>2. \A s : ToDo(r, s) => s = Student(r) \/ ToDo(r, s)'
    BY <2>1, NextListed DEF ToDo
  <2>3. \A s : s = Student(r) => Written(r, s)'
    BY <1>1, <1>9, WrittenRow DEF Written
  <2>4. \A s : Written(r, s) => Written(r, s)'
    <3>1. \A id \in DOMAIN writes[r] :
            id \in DOMAIN writes'[r] /\ writes'[r][id].student = writes[r][id].student
      BY <1>1, <1>9, WrittenRow
    <3>. QED
      BY <3>1 DEF Written
  <2>5. pc'[r] = "write" /\ pc[r] = "write"
    BY <2>1 DEF Writing
  <2>6. \A s \in Listed(r) : ToDo(r, s)' \/ Written(r, s)' \/ Home(r, s)'
    <3>1. ASSUME NEW s \in Listed(r), s # Student(r)
          PROVE  ToDo(r, s)' \/ Written(r, s)' \/ Home(r, s)'
      BY <1>1, <1>2, <2>2, <2>4, <2>5, <3>1 DEF Delivered
    <3>. QED
      BY <2>3, <3>1
  <2>. QED
    BY <1>1, <1>2, <2>1, <2>5, <2>6 DEF Delivered, Listed
<1>10. CASE Commit(r)
  <2>1. pc[r] = "write" /\ pc'[r] = "second" /\ todo[r] = <<>> /\ Ask[r].group \in Groups
    BY <1>1, <1>10, Moves DEF Commit, Places, Delivered
  <2>2. ASSUME NEW s \in Listed(r), Written(r, s)
        PROVE  Home(r, s)'
    <3>1. PICK id \in DOMAIN writes[r] : writes[r][id].student = s
      BY <2>2 DEF Written
    <3>2. id \in DOMAIN rows' /\ rows'[id].student = s /\ rows'[id].group = Ask[r].group
      BY <1>1, <1>10, <3>1, CommitRows DEF WritesOwn
    <3>. QED
      BY <1>3, <2>1, <3>2, OwnGoal DEF Home, RowsOf
  <2>3. \A s \in Listed(r) : ~ToDo(r, s)
    BY <2>1 DEF ToDo
  <2>. QED
    BY <1>1, <1>2, <2>1, <2>2, <2>3 DEF Delivered, Listed
<1>11. CASE RowRefused(r) \/ DeadlockVictim(r) \/ Dies(r)
  <2>1. PICK answer \in {"conflict", "error"} : Abort(r, answer)
    BY <1>11 DEF RowRefused, DeadlockVictim, Dies
  <2>. QED
    BY <1>1, <1>4, <2>1, Moves DEF Abort, Places, Answers
<1>12. CASE Unknown(r)
  BY <1>1, <1>4, <1>12, Moves DEF Unknown, Places, Answers
<1>13. CASE Arrive(r)
  BY <1>1, <1>4, <1>13, Moves DEF Arrive, Places
<1>. QED
  BY <1>1, <1>5, <1>6, <1>7, <1>8, <1>9, <1>10, <1>11, <1>12, <1>13
     DEF Step, At, ResolveStudent, ReadBack, CreateCourse, PublishCourse, ReadCourses,
         ReadTotals, ReadDirections, ReadRegistry, ReadChildren, ResolveTarget, ReadDashboard,
         ResolveStudents, ReadSchedule

LEMMA NextDeliver == DeliverInv /\ [Next]_vars => DeliverInv'
<1>. SUFFICES ASSUME DeliverInv, [Next]_vars
              PROVE  Delivering'
  BY NextFresh DEF DeliverInv
<1>1. CASE UNCHANGED vars
  <2>1. UNCHANGED <<pc, rows, todo, byStudent, writes, found>>
    BY <1>1 DEF vars
  <2>2. Active' = Active /\ Transfers' = Transfers /\ \A q, s : Goals(q, s)' = Goals(q, s)
    BY <2>1 DEF Active, Transfers, Goals, Moving, Course, Listed
  <2>3. \A q, s : /\ Home(q, s) => Home(q, s)'
                  /\ ToDo(q, s) => ToDo(q, s)'
                  /\ Written(q, s) => Written(q, s)'
    BY <2>1, <2>2 DEF Home, ToDo, Written, RowsOf
  <2>4. \A q \in Transfers : Delivered(q) => Delivered(q)'
    BY <2>1, <2>2, <2>3 DEF Delivered, Listed
  <2>5. DOMAIN found' = Active'
    BY <2>1, <2>2 DEF DeliverInv, Delivering
  <2>6. \A q \in Transfers : Delivered(q)
    BY DEF DeliverInv, Delivering
  <2>7. \A q \in Transfers : Delivered(q)'
    BY <2>4, <2>6
  <2>8. WritesOwn'
    BY <2>1, <2>2 DEF DeliverInv, Delivering, WritesOwn, Listed
  <2>9. NotesOwn'
    BY <2>1, <2>2 DEF DeliverInv, Delivering, NotesOwn
  <2>. QED
    BY <2>2, <2>5, <2>7, <2>8, <2>9 DEF Delivering
<1>2. CASE Next
  <2>1. PICK r \in Active : Step(r) \/ Dies(r)
    BY <1>2 DEF Next
  <2>2. Inv /\ DOMAIN found = Active
    BY DEF DeliverInv, FreshInv, Delivering
  <2>3. DOMAIN found' = Active'
    BY <2>1, <2>2, FoundStays, OthersStay
  <2>4. Transfers' = Transfers
    BY <2>1, <2>2, GoalsStay
  <2>5. \A q \in Transfers : Delivered(q)'
    BY <2>1, OthersDelivered, StepDelivered
  <2>. QED
    BY <2>1, <2>3, <2>4, <2>5, WritesOwnKept, NotesOwnKept DEF Delivering
<1>. QED
  BY <1>1, <1>2

\* A transfer that succeeds delivers its students to the target, or to where another
\* transfer of the same student took it, and its answer names whom nobody else moved:
\* skipping who was found in the target and overwriting stale rows loses nobody.
THEOREM TransfersDeliver == Spec => []TransferDelivers
<1>1. DeliverInv => TransferDelivers
  BY DEF DeliverInv, Delivering, Delivered, Home, Goals, TransferDelivers
<1>. QED
  BY InitDeliver, NextDeliver, <1>1, PTL DEF Spec

----------------------------------------------------------------------------
(* Sums of natural numbers: what SumFunction of the library computes *)

\* Induction over the natural numbers, for a set instead of a predicate: a
\* number outside the set would have to be a smallest one.
LEMMA SetInduction ==
    ASSUME NEW F, 0 \in F, \A n \in Nat : n \in F => n + 1 \in F
    PROVE  Nat \subseteq F
<1>. DEFINE T == Nat \ F
            R == OpToRel(<, Nat)
<1>1. SUFFICES ASSUME T # {}
               PROVE  FALSE
  OBVIOUS
<1>2. IsWellFoundedOn(R, Nat)
  BY NatLessThanWellFounded
<1>3. \A m, n \in Nat : m < n => <<m, n>> \in R
  BY DEF OpToRel
<1>. HIDE DEF R
<1>4. PICK m \in T : \A n \in T : ~(<<n, m>> \in R)
  BY <1>1, <1>2, WFMin
<1>5. m \in Nat /\ m \notin F /\ m # 0
  OBVIOUS
<1>6. m - 1 \in Nat /\ m - 1 < m /\ (m - 1) + 1 = m
  BY <1>5
<1>7. m - 1 \in F
  BY <1>3, <1>4, <1>5, <1>6
<1>. QED
  BY <1>5, <1>6, <1>7

\* Sums over the subsets of D, as the fold of the library computes them.
Chosen(s) == CHOOSE x \in s : TRUE
SumsUpTo(n, D, w, g) ==
    g = [s \in {t \in SUBSET D : Cardinality(t) <= n} |->
            IF s = {} THEN 0 ELSE w[Chosen(s)] + g[s \ {Chosen(s)}]]
Sums(D, w, g) ==
    g = [s \in SUBSET D |-> IF s = {} THEN 0 ELSE w[Chosen(s)] + g[s \ {Chosen(s)}]]

LEMMA SubsetSizes ==
    ASSUME NEW D, IsFiniteSet(D)
    PROVE  \A s \in SUBSET D :
            /\ IsFiniteSet(s) /\ Cardinality(s) \in Nat /\ Cardinality(s) <= Cardinality(D)
            /\ Cardinality(s) = 0 <=> s = {}
            /\ \A x \in s : Cardinality(s \ {x}) = Cardinality(s) - 1
<1>1. ASSUME NEW s \in SUBSET D
      PROVE  /\ IsFiniteSet(s) /\ Cardinality(s) \in Nat /\ Cardinality(s) <= Cardinality(D)
             /\ Cardinality(s) = 0 <=> s = {}
  BY FS_Subset, FS_CardinalityType, FS_EmptySet
<1>2. ASSUME NEW s \in SUBSET D, NEW x \in s
      PROVE  Cardinality(s \ {x}) = Cardinality(s) - 1
  BY <1>1, FS_RemoveElement
<1>. QED
  BY <1>1, <1>2

LEMMA SubsetInduction ==
    ASSUME NEW D, IsFiniteSet(D), NEW F, {} \in F,
           \A s \in SUBSET D : \A x \in s : s \ {x} \in F => s \in F
    PROVE  D \in F
<1>. DEFINE N == {n \in Nat : \A s \in SUBSET D : Cardinality(s) <= n => s \in F}
<1>1. 0 \in N
  <2>1. \A s \in SUBSET D : Cardinality(s) <= 0 => s = {}
    BY SubsetSizes
  <2>. QED
    BY <2>1
<1>2. ASSUME NEW n \in Nat, n \in N
      PROVE  n + 1 \in N
  <2>1. ASSUME NEW s \in SUBSET D, Cardinality(s) <= n + 1, NEW x \in s
        PROVE  s \in F
    <3>1. s \ {x} \in SUBSET D /\ Cardinality(s \ {x}) <= n
      BY <2>1, SubsetSizes
    <3>. QED
      BY <1>2, <3>1
  <2>2. ASSUME NEW s \in SUBSET D, Cardinality(s) <= n + 1
        PROVE  s \in F
    <3>1. CASE s = {}
      BY <3>1
    <3>2. CASE s # {}
      BY <2>1, <2>2, <3>2
    <3>. QED
      BY <3>1, <3>2
  <2>. QED
    BY <2>2
<1>. HIDE DEF N
<1>3. Cardinality(D) \in N
  BY <1>1, <1>2, SetInduction, FS_CardinalityType
<1>. QED
  BY <1>3, FS_CardinalityType DEF N

LEMMA SumsExist ==
    ASSUME NEW D, IsFiniteSet(D), NEW w
    PROVE  \E g : Sums(D, w, g)
<1>. DEFINE Small(n) == {t \in SUBSET D : Cardinality(t) <= n}
            F == {n \in Nat : \E g : SumsUpTo(n, D, w, g)}
<1>1. 0 \in F
  <2>1. \A s \in Small(0) : s = {}
    BY SubsetSizes
  <2>. DEFINE g == [s \in Small(0) |-> 0]
  <2>2. SumsUpTo(0, D, w, g)
    BY <2>1 DEF SumsUpTo
  <2>. QED
    BY <2>2
<1>2. ASSUME NEW n \in Nat, n \in F
      PROVE  n + 1 \in F
  <2>1. PICK g : SumsUpTo(n, D, w, g)
    BY <1>2
  <2>. DEFINE h == [s \in Small(n + 1) |-> IF s = {} THEN 0 ELSE w[Chosen(s)] + g[s \ {Chosen(s)}]]
  <2>2. \A s \in Small(n) : h[s] = g[s]
    <3>1. \A s \in Small(n) : s \in Small(n + 1)
      BY SubsetSizes
    <3>. QED
      BY <2>1, <3>1 DEF SumsUpTo
  <2>3. ASSUME NEW s \in Small(n + 1), s # {}
        PROVE  s \ {Chosen(s)} \in Small(n)
    <3>1. Chosen(s) \in s
      BY <2>3 DEF Chosen
    <3>. QED
      BY <2>3, <3>1, SubsetSizes
  <2>4. h = [s \in Small(n + 1) |-> IF s = {} THEN 0 ELSE w[Chosen(s)] + h[s \ {Chosen(s)}]]
    BY <2>2, <2>3
  <2>5. SumsUpTo(n + 1, D, w, h)
    BY <2>4 DEF SumsUpTo
  <2>. QED
    BY <2>5
<1>. HIDE DEF F
<1>3. Nat \subseteq F
  BY <1>1, <1>2, SetInduction
<1>4. Cardinality(D) \in F
  BY <1>3, FS_CardinalityType
<1>5. PICK g : SumsUpTo(Cardinality(D), D, w, g)
  BY <1>4 DEF F
<1>6. Small(Cardinality(D)) = SUBSET D
  BY SubsetSizes
<1>. QED
  BY <1>5, <1>6 DEF SumsUpTo, Sums

Adds(D, w, g) ==
    /\ g \in [SUBSET D -> Nat] /\ g[{}] = 0
    /\ \A s \in SUBSET D : \A x \in s : g[s] = w[x] + g[s \ {x}]

\* The order of the summands does not matter.
LEMMA AnySummand ==
    ASSUME NEW D, IsFiniteSet(D), NEW w \in [D -> Nat], NEW g, Sums(D, w, g)
    PROVE  Adds(D, w, g)
<1>. DEFINE Good(s) == g[s] \in Nat /\ \A x \in s : g[s] = w[x] + g[s \ {x}]
            F == {n \in Nat : \A s \in SUBSET D : Cardinality(s) <= n => Good(s)}
<1>0. /\ DOMAIN g = SUBSET D /\ g = [s \in SUBSET D |-> g[s]] /\ g[{}] = 0
      /\ \A s \in SUBSET D : s # {} => g[s] = w[Chosen(s)] + g[s \ {Chosen(s)}]
  BY DEF Sums
<1>1. 0 \in F
  <2>1. \A s \in SUBSET D : Cardinality(s) <= 0 => s = {}
    BY SubsetSizes
  <2>2. Good({})
    BY <1>0
  <2>. QED
    BY <2>1, <2>2
<1>2. ASSUME NEW n \in Nat, n \in F
      PROVE  n + 1 \in F
  <2>1. ASSUME NEW s \in SUBSET D, Cardinality(s) <= n + 1, s # {}
        PROVE  Good(s)
    <3>. DEFINE c == Chosen(s)
                rest == s \ {c}
    <3>1. c \in s
      BY <2>1 DEF Chosen
    <3>. HIDE DEF c
    <3>2. \A x \in s : s \ {x} \in SUBSET D /\ Cardinality(s \ {x}) <= n /\ w[x] \in Nat
      BY <2>1, SubsetSizes
    <3>3. \A x \in s : Good(s \ {x})
      BY <1>2, <3>2
    <3>4. g[s] = w[c] + g[rest] /\ g[rest] \in Nat /\ w[c] \in Nat
      BY <1>0, <2>1, <3>1, <3>2, <3>3 DEF c
    <3>5. ASSUME NEW x \in s, x # c
          PROVE  g[s] = w[x] + g[s \ {x}]
      <4>1. rest \ {x} = (s \ {x}) \ {c}
        OBVIOUS
      <4>2. g[rest] = w[x] + g[rest \ {x}]
        BY <3>1, <3>3, <3>5
      <4>3. g[s \ {x}] = w[c] + g[(s \ {x}) \ {c}]
        BY <3>1, <3>3, <3>5
      <4>4. g[rest \ {x}] \in Nat
        <5>1. rest \ {x} \in SUBSET D /\ Cardinality(rest) <= n /\ x \in rest
          BY <3>1, <3>2, <3>5
        <5>2. Cardinality(rest \ {x}) <= n
          BY <3>1, <3>2, <5>1, SubsetSizes
        <5>. QED
          BY <1>2, <5>1, <5>2
      <4>. QED
        BY <3>2, <3>4, <4>1, <4>2, <4>3, <4>4
    <3>6. \A x \in s : g[s] = w[x] + g[s \ {x}]
      <4>1. ASSUME NEW x \in s
            PROVE  g[s] = w[x] + g[s \ {x}]
        <5>1. CASE x = c
          BY <3>4, <5>1
        <5>2. CASE x # c
          BY <3>5, <5>2
        <5>. QED
          BY <5>1, <5>2
      <4>. QED
        BY <4>1
    <3>7. g[s] \in Nat
      BY <3>4
    <3>. QED
      BY <3>6, <3>7
  <2>2. Good({})
    BY <1>0
  <2>. HIDE DEF Good
  <2>. QED
    BY <2>1, <2>2
<1>. HIDE DEF F
<1>3. Nat \subseteq F
  BY <1>1, <1>2, SetInduction
<1>4. \A s \in SUBSET D : Good(s)
  BY <1>3, FS_CardinalityType, SubsetSizes DEF F
<1>. QED
  BY <1>0, <1>4 DEF Adds

LEMMA SumIsSums ==
    ASSUME NEW D, IsFiniteSet(D), NEW w \in [D -> Nat]
    PROVE  \E g : Adds(D, w, g) /\ SumFunction(w) = g[D]
<1>1. \E g : Sums(DOMAIN w, w, g)
  BY SumsExist
<1>2. \E g : Sums(DOMAIN w, w, g) /\ SumFunction(w) = g[DOMAIN w]
  BY <1>1 DEF SumFunction, SumFunctionOnSet, FoldFunctionOnSet, MapThenFoldSet, Sums, Chosen
<1>3. DOMAIN w = D
  OBVIOUS
<1>4. PICK g : Sums(D, w, g) /\ SumFunction(w) = g[D]
  BY <1>2, <1>3
<1>5. Adds(D, w, g)
  BY <1>4, AnySummand, Zenon
<1>. QED
  BY <1>4, <1>5

LEMMA SumOfNone ==
    ASSUME NEW D, IsFiniteSet(D), NEW w \in [D -> Nat], \A x \in D : w[x] = 0
    PROVE  SumFunction(w) = 0
<1>1. PICK g : Adds(D, w, g) /\ SumFunction(w) = g[D]
  BY SumIsSums
<1>2. /\ g \in [SUBSET D -> Nat] /\ g[{}] = 0
      /\ \A s \in SUBSET D : \A x \in s : g[s] = w[x] + g[s \ {x}]
  BY <1>1 DEF Adds
<1>. DEFINE F == {s \in SUBSET D : g[s] = 0}
<1>3. {} \in F
  BY <1>2
<1>4. ASSUME NEW s \in SUBSET D, NEW x \in s, s \ {x} \in F
      PROVE  s \in F
  BY <1>2, <1>4
<1>. HIDE DEF F
<1>5. D \in F
  BY <1>3, <1>4, SubsetInduction
<1>. QED
  BY <1>1, <1>5 DEF F

\* A sum changes by what one summand changes.
LEMMA SumChanges ==
    ASSUME NEW D, IsFiniteSet(D), NEW w \in [D -> Nat], NEW v \in [D -> Nat],
           NEW x \in D, \A y \in D : y # x => v[y] = w[y]
    PROVE  /\ SumFunction(v) \in Nat /\ SumFunction(w) \in Nat
           /\ SumFunction(v) = SumFunction(w) + v[x] - w[x]
<1>1. PICK g : Adds(D, w, g) /\ SumFunction(w) = g[D]
  BY SumIsSums
<1>2. PICK h : Adds(D, v, h) /\ SumFunction(v) = h[D]
  BY SumIsSums
<1>3. /\ g \in [SUBSET D -> Nat] /\ g[{}] = 0
      /\ \A s \in SUBSET D : \A y \in s : g[s] = w[y] + g[s \ {y}]
  BY <1>1 DEF Adds
<1>4. /\ h \in [SUBSET D -> Nat] /\ h[{}] = 0
      /\ \A s \in SUBSET D : \A y \in s : h[s] = v[y] + h[s \ {y}]
  BY <1>2 DEF Adds
<1>. DEFINE F == {s \in SUBSET D : x \notin s => g[s] = h[s]}
<1>5. {} \in F
  BY <1>3, <1>4
<1>6. ASSUME NEW s \in SUBSET D, NEW y \in s, s \ {y} \in F
      PROVE  s \in F
  BY <1>3, <1>4, <1>6
<1>. HIDE DEF F
<1>7. D \ {x} \in F
  <2>1. IsFiniteSet(D \ {x}) /\ \A s \in SUBSET (D \ {x}) : s \in SUBSET D
    BY FS_Subset
  <2>. QED
    BY <1>5, <1>6, <2>1, SubsetInduction
<1>8. g[D \ {x}] = h[D \ {x}]
  BY <1>7 DEF F
<1>9. g[D] = w[x] + g[D \ {x}] /\ h[D] = v[x] + h[D \ {x}]
  BY <1>3, <1>4
<1>10. g[D \ {x}] \in Nat /\ g[D] \in Nat /\ h[D] \in Nat /\ w[x] \in Nat /\ v[x] \in Nat
  BY <1>3, <1>4
<1>. QED
  BY <1>1, <1>2, <1>8, <1>9, <1>10

----------------------------------------------------------------------------
(* Answers put together from several statements *)

\* Cardinalities of the parts of a finite set add up to its own.
LEMMA PartsAddUp ==
    ASSUME NEW S, IsFiniteSet(S), NEW D, IsFiniteSet(D), NEW h, \A x \in S : h[x] \in D
    PROVE  SumFunction([d \in D |-> Cardinality({x \in S : h[x] = d})]) = Cardinality(S)
<1>. DEFINE Part(s, d) == {x \in s : h[x] = d}
            Sizes(s)   == [d \in D |-> Cardinality(Part(s, d))]
            F == {s \in SUBSET S : SumFunction(Sizes(s)) = Cardinality(s)}
<1>1. ASSUME NEW s \in SUBSET S
      PROVE  Sizes(s) \in [D -> Nat] /\ \A d \in D : Sizes(s)[d] = Cardinality(Part(s, d))
  BY FS_Subset, FS_CardinalityType
<1>2. {} \in F
  <2>1. \A d \in D : Part({}, d) = {}
    OBVIOUS
  <2>2. \A d \in D : Sizes({})[d] = 0
    BY <2>1, FS_EmptySet
  <2>3. Sizes({}) \in [D -> Nat]
    BY <2>1, FS_EmptySet
  <2>. HIDE DEF Sizes
  <2>4. SumFunction(Sizes({})) = 0
    BY <2>2, <2>3, SumOfNone
  <2>. QED
    BY <2>4, FS_EmptySet
<1>3. ASSUME NEW s \in SUBSET S, NEW x \in s, s \ {x} \in F
      PROVE  s \in F
  <2>. DEFINE t == s \ {x}
  <2>1. /\ IsFiniteSet(s) /\ Cardinality(s) \in Nat /\ t \in SUBSET S
        /\ Cardinality(t) = Cardinality(s) - 1
    BY SubsetSizes
  <2>2. Sizes(s) \in [D -> Nat] /\ Sizes(t) \in [D -> Nat] /\ h[x] \in D
    BY <1>1, <2>1
  <2>3. \A d \in D : d # h[x] => Sizes(s)[d] = Sizes(t)[d]
    <3>1. \A d \in D : d # h[x] => Part(s, d) = Part(t, d)
      OBVIOUS
    <3>. QED
      BY <1>1, <2>1, <3>1
  <2>4. Sizes(s)[h[x]] = Sizes(t)[h[x]] + 1
    <3>1. Part(t, h[x]) = Part(s, h[x]) \ {x} /\ x \in Part(s, h[x]) /\ Part(s, h[x]) \in SUBSET S
      OBVIOUS
    <3>. HIDE DEF Part
    <3>2. /\ Cardinality(Part(t, h[x])) = Cardinality(Part(s, h[x])) - 1
          /\ Cardinality(Part(s, h[x])) \in Nat
      BY <3>1, SubsetSizes
    <3>3. Sizes(s)[h[x]] = Cardinality(Part(s, h[x])) /\ Sizes(t)[h[x]] = Cardinality(Part(t, h[x]))
      BY <2>2
    <3>. HIDE DEF Sizes
    <3>. QED
      BY <3>2, <3>3
  <2>5. SumFunction(Sizes(t)) = Cardinality(t)
    BY <1>3
  <2>. DEFINE v == Sizes(s)
              w == Sizes(t)
              p == h[x]
  <2>6. v \in [D -> Nat] /\ w \in [D -> Nat] /\ p \in D /\ \A d \in D : d # p => v[d] = w[d]
    BY <2>2, <2>3
  <2>. HIDE DEF v, w, p
  <2>7. /\ SumFunction(v) \in Nat /\ SumFunction(w) \in Nat
        /\ SumFunction(v) = SumFunction(w) + v[p] - w[p]
    BY <2>6, SumChanges
  <2>8. v[p] \in Nat /\ w[p] \in Nat /\ v[p] = w[p] + 1
    BY <2>4, <2>6 DEF v, w, p
  <2>9. SumFunction(v) = Cardinality(s)
    BY <2>1, <2>5, <2>7, <2>8 DEF w
  <2>. QED
    BY <2>9 DEF v
<1>4. S \in F
  <2>. HIDE DEF F
  <2>. QED
    BY <1>2, <1>3, SubsetInduction
<1>. QED
  BY <1>4

\* Courses are added one by one, and every group's is there.
CoursesKnown ==
    /\ IsFiniteSet(DOMAIN courses)
    /\ \A g \in Groups : CourseOf[g] \in DOMAIN courses

\* What a request that reads in two statements has found by the first.
TotalsRead(r) ==
    /\ {"courses", "enrollments"} \subseteq DOMAIN found[r]
    /\ found[r].courses <= Cardinality(DOMAIN courses) /\ found[r].courses \in Nat
    /\ found[r].enrollments <= Cardinality(DOMAIN rows) /\ found[r].enrollments \in Nat
    /\ Cardinality(past[r]) <= found[r].enrollments

FirstRead(r) ==
    /\ Ask[r].kind = "analytics" => TotalsRead(r)
    /\ Ask[r].kind = "dashboard" => "student" \in DOMAIN found[r]
    /\ Ask[r].kind = "schedule"  => "students" \in DOMAIN found[r]

AddsUp(r) ==
    /\ Ask[r].kind = "analytics" => AnalyticsAddUp(r)
    /\ Ask[r].kind = "registry"  => RegistryAddsUp(r)
    /\ Ask[r].kind = "children"  => ChildrenAddUp(r)
    /\ Ask[r].kind = "dashboard" => DashboardAddsUp(r)
    /\ Ask[r].kind = "schedule"  => ScheduleAddsUp(r)

Reading(r) ==
    /\ pc[r] = "write"  => Ask[r].kind \in {"transfer", "enroll"}
    /\ pc[r] = "second" => FirstRead(r)
    /\ pc[r] = "ok"     => AddsUp(r)

AnswerInv == DeliverInv /\ CoursesKnown /\ \A r \in Active : Reading(r)

LEMMA IdsFinite ==
    ASSUME NEW R \in SUBSET Ids
    PROVE  IsFiniteSet(R) /\ Cardinality(R) \in Nat
<1>1. IsFiniteSet(Ids)
  BY StudentsAssumption, AskAssumption, EnrolledAssumption, FS_Product, FS_Union DEF Ids, Fresh
<1>. QED
  BY <1>1, FS_Subset, FS_CardinalityType

LEMMA RowsFinite ==
    ASSUME Inv
    PROVE  /\ IsFiniteSet(DOMAIN rows) /\ Cardinality(DOMAIN rows) \in Nat
           /\ \A S \in SUBSET DOMAIN rows : /\ IsFiniteSet(S) /\ Cardinality(S) \in Nat
                                            /\ Cardinality(S) <= Cardinality(DOMAIN rows)
<1>1. DOMAIN rows \in SUBSET Ids
  BY DEF Inv, TypeOK
<1>. QED
  BY <1>1, IdsFinite, FS_Subset

\* Courses and enrollments are never taken away.
LEMMA OnlyAdded ==
    ASSUME Inv, CoursesKnown, NEW r \in Active, Step(r) \/ Dies(r)
    PROVE  /\ CoursesKnown' /\ DOMAIN courses \subseteq DOMAIN courses'
           /\ Cardinality(DOMAIN courses) <= Cardinality(DOMAIN courses')
           /\ Cardinality(DOMAIN rows) <= Cardinality(DOMAIN rows')
<1>1. DOMAIN courses' = DOMAIN courses \/ DOMAIN courses' = DOMAIN courses \cup {Ask[r].course}
  <2>1. CASE CreateCourse(r)
    BY <2>1 DEF CreateCourse, Merge
  <2>2. CASE PublishCourse(r)
    BY <2>2 DEF PublishCourse
  <2>3. CASE UNCHANGED courses
    BY <2>3
  <2>. QED
    BY <2>1, <2>2, <2>3
       DEF Step, Dies, Arrive, Unknown, ReadTransfer, ResolveStudent, SkipMember, WriteRow,
           RowRefused, DeadlockVictim, Abort, Commit, ReadBack, ReadCourses, ReadSummary,
           ReadMembers, ReadTotals, ReadDirections, ReadRegistry, ReadChildren, ResolveTarget,
           ReadDashboard, ResolveStudents, ReadSchedule
<1>2. IsFiniteSet(DOMAIN courses') /\ DOMAIN courses \subseteq DOMAIN courses'
  BY <1>1, FS_AddElement DEF CoursesKnown
<1>3. Cardinality(DOMAIN courses) <= Cardinality(DOMAIN courses')
  BY <1>2, FS_Subset
<1>4. CoursesKnown'
  BY <1>2 DEF CoursesKnown
<1>5. DOMAIN rows \in SUBSET DOMAIN rows' /\ Inv'
  BY PastKept, OthersInv, CommitInv
<1>6. IsFiniteSet(DOMAIN rows')
  BY <1>5, IdsFinite DEF Inv, TypeOK
<1>. QED
  BY <1>2, <1>3, <1>4, <1>5, <1>6, FS_Subset

LEMMA EarlierKept ==
    ASSUME Inv, NEW r \in Active, Step(r) \/ Dies(r), NEW q \in Active, past'[q] = past[q]
    PROVE  /\ \A s : Earlier(q, s)' = Earlier(q, s)
           /\ \A id \in past[q] : id \in DOMAIN rows /\ id \in DOMAIN rows' /\ Same(rows'[id], rows[id])
<1>1. \A id \in past[q] : id \in DOMAIN rows /\ id \in DOMAIN rows' /\ Same(rows'[id], rows[id])
  BY PastKept DEF Inv, TypeOK
<1>. QED
  BY <1>1 DEF Earlier, RowsOf, Same

\* An answer that adds up goes on doing so.
LEMMA AnswerKept ==
    ASSUME Inv, NEW r \in Active, Step(r) \/ Dies(r), NEW q \in Active, past'[q] = past[q],
           found'[q] = found[q], AddsUp(q)
    PROVE  AddsUp(q)'
<1>1. /\ \A s : Earlier(q, s)' = Earlier(q, s)
      /\ \A s : \A id \in Earlier(q, s) : CourseOf[rows'[id].group] = CourseOf[rows[id].group]
  BY EarlierKept DEF Same, Earlier
<1>2. AnalyticsAddUp(q) => AnalyticsAddUp(q)'
  BY DEF AnalyticsAddUp
<1>3. RegistryAddsUp(q) => RegistryAddsUp(q)'
  <2>. SUFFICES ASSUME RegistryAddsUp(q), NEW s \in Students, Earlier(q, s)' # {}
                PROVE  /\ found'[q][s].status # "none"
                       /\ Cardinality({CourseOf[rows'[id].group] : id \in Earlier(q, s)'}) <= found'[q][s].courses
    BY DEF RegistryAddsUp
  <2>1. {CourseOf[rows'[id].group] : id \in Earlier(q, s)'} = {CourseOf[rows[id].group] : id \in Earlier(q, s)}
    BY <1>1
  <2>. QED
    BY <1>1, <2>1 DEF RegistryAddsUp
<1>4. ChildrenAddUp(q) => ChildrenAddUp(q)'
  BY <1>1 DEF ChildrenAddUp
<1>5. DashboardAddsUp(q) => DashboardAddsUp(q)'
  BY <1>1 DEF DashboardAddsUp
<1>6. ScheduleAddsUp(q) => ScheduleAddsUp(q)'
  BY <1>1 DEF ScheduleAddsUp
<1>. QED
  BY <1>2, <1>3, <1>4, <1>5, <1>6 DEF AddsUp

LEMMA FirstReadKept ==
    ASSUME Inv, CoursesKnown, NEW r \in Active, Step(r) \/ Dies(r), NEW q \in Active,
           past'[q] = past[q], found'[q] = found[q], FirstRead(q)
    PROVE  FirstRead(q)'
<1>1. /\ Cardinality(DOMAIN courses) <= Cardinality(DOMAIN courses')
      /\ Cardinality(DOMAIN rows) <= Cardinality(DOMAIN rows')
      /\ CoursesKnown' /\ Inv'
  BY OnlyAdded, OthersInv, CommitInv
<1>2. /\ Cardinality(DOMAIN courses) \in Nat /\ Cardinality(DOMAIN courses') \in Nat
      /\ Cardinality(DOMAIN rows) \in Nat /\ Cardinality(DOMAIN rows') \in Nat
  BY <1>1, IdsFinite, FS_CardinalityType DEF CoursesKnown, Inv, TypeOK
<1>3. TotalsRead(q) => TotalsRead(q)'
  BY <1>1, <1>2 DEF TotalsRead
<1>. QED
  BY <1>3 DEF FirstRead

\* The second statement of the analytics: every course has one direction, every
\* enrollment is in a group of a course that is there.
LEMMA DirectionsAddUp ==
    ASSUME Inv, CoursesKnown, DOMAIN found = Active, NEW r \in Active, ReadDirections(r),
           TotalsRead(r)
    PROVE  AnalyticsAddUp(r)'
<1>. DEFINE D == {Direction[c] : c \in DOMAIN courses}
            C == DOMAIN courses
            R == DOMAIN rows
            of == [id \in R |-> Direction[CourseOf[rows[id].group]]]
            parts == [d \in D |->
                        [courses |-> Cardinality({c \in C : Direction[c] = d}),
                         enrollments |-> Cardinality({id \in R : of[id] = d})]]
<1>1. ASSUME NEW id \in R
      PROVE  CourseOf[rows[id].group] \in C /\ of[id] \in D
  BY DEF Inv, TypeOK, Rows, CoursesKnown
<1>2. ASSUME NEW d
      PROVE  /\ GroupedCourses(d) = {c \in C : Direction[c] = d}
             /\ {id \in R : CourseOf[rows[id].group] \in CoursesOf(d)} = {id \in R : of[id] = d}
  BY <1>1 DEF GroupedCourses, CoursesOf
<1>3. found' = [found EXCEPT ![r] = Merge([byDirection |-> parts], found[r])]
  BY <1>2 DEF ReadDirections, FoundMore, Found
<1>4. /\ found'[r].byDirection = parts
      /\ found'[r].courses = found[r].courses /\ found'[r].enrollments = found[r].enrollments
  BY <1>3 DEF Merge, TotalsRead
<1>5. IsFiniteSet(C) /\ IsFiniteSet(R) /\ IsFiniteSet(D)
  <2>1. IsFiniteSet(C)
    BY DEF CoursesKnown
  <2>2. IsFiniteSet({Direction[c] : c \in C})
    <3>. HIDE DEF C
    <3>. DEFINE f == [c \in C |-> Direction[c]]
    <3>1. {Direction[c] : c \in C} = {f[c] : c \in C}
      OBVIOUS
    <3>2. f \in [C -> {f[c] : c \in C}] /\ \A y \in {f[c] : c \in C} : \E c \in C : f[c] = y
      OBVIOUS
    <3>. HIDE DEF f
    <3>3. f \in Surjection(C, {f[c] : c \in C})
      BY <3>2 DEF Surjection
    <3>. QED
      BY <2>1, <3>1, <3>3, FS_Surjection
  <2>. QED
    BY <2>1, <2>2, RowsFinite
<1>6. SumFunction([d \in D |-> Cardinality({c \in C : Direction[c] = d})]) = Cardinality(C)
  <2>1. \A c \in C : Direction[c] \in D
    OBVIOUS
  <2>. HIDE DEF C, D
  <2>. QED
    BY <1>5, <2>1, PartsAddUp
<1>7. SumFunction([d \in D |-> Cardinality({id \in R : of[id] = d})]) = Cardinality(R)
  <2>. HIDE DEF of, R, D
  <2>. QED
    BY <1>1, <1>5, PartsAddUp
<1>8. /\ [d \in DOMAIN parts |-> parts[d].courses] = [d \in D |-> Cardinality({c \in C : Direction[c] = d})]
      /\ [d \in DOMAIN parts |-> parts[d].enrollments] = [d \in D |-> Cardinality({id \in R : of[id] = d})]
  <2>. HIDE DEF C, D, R, of
  <2>. QED
    OBVIOUS
<1>9. past' = past
  BY DEF ReadDirections
<1>10. /\ SumFunction([d \in DOMAIN parts |-> parts[d].courses]) = Cardinality(C)
       /\ SumFunction([d \in DOMAIN parts |-> parts[d].enrollments]) = Cardinality(R)
  BY <1>6, <1>7, <1>8
<1>. HIDE DEF parts
<1>. QED
  BY <1>4, <1>9, <1>10 DEF AnalyticsAddUp, TotalsRead

LEMMA RegistryAnswer ==
    ASSUME Inv, DOMAIN found = Active, NEW r \in Active, ReadRegistry(r)
    PROVE  RegistryAddsUp(r)'
<1>. SUFFICES ASSUME NEW s \in Students, Earlier(r, s)' # {}
              PROVE  /\ found'[r][s].status # "none"
                     /\ Cardinality({CourseOf[rows'[id].group] : id \in Earlier(r, s)'}) <= found'[r][s].courses
  BY DEF RegistryAddsUp
<1>. DEFINE all  == {CourseOf[rows[id].group] : id \in RowsOf(s)}
            part == {CourseOf[rows[id].group] : id \in Earlier(r, s)}
<1>1. /\ found'[r][s].courses = Cardinality(all)
      /\ found'[r][s].status = IF \E id \in RowsOf(s) : rows[id].status = "active" THEN "active"
                               ELSE IF RowsOf(s) # {} THEN "completed" ELSE "none"
  BY DEF ReadRegistry, Found
<1>2. rows' = rows /\ Earlier(r, s)' = Earlier(r, s) /\ Earlier(r, s) \subseteq RowsOf(s)
  BY DEF ReadRegistry, Earlier, RowsOf
<1>3. found'[r][s].status # "none"
  BY <1>1, <1>2
<1>4. IsFiniteSet(all) /\ part \subseteq all
  <2>. DEFINE S == RowsOf(s)
              f == [id \in S |-> CourseOf[rows[id].group]]
  <2>1. IsFiniteSet(S)
    BY RowsFinite DEF RowsOf
  <2>2. f \in [S -> all] /\ \A y \in all : \E id \in S : f[id] = y
    OBVIOUS
  <2>. HIDE DEF f, all, S
  <2>3. f \in Surjection(S, all)
    BY <2>2 DEF Surjection
  <2>4. IsFiniteSet(all)
    BY <2>1, <2>3, FS_Surjection
  <2>. QED
    BY <1>2, <2>4 DEF all
<1>5. Cardinality(part) <= Cardinality(all)
  <2>. HIDE DEF part, all
  <2>. QED
    BY <1>4, FS_Subset
<1>. QED
  BY <1>1, <1>2, <1>3, <1>5

LEMMA ChildrenAnswer ==
    ASSUME Inv, DOMAIN found = Active, NEW r \in Active, ReadChildren(r)
    PROVE  ChildrenAddUp(r)'
<1>. SUFFICES ASSUME NEW s \in Children[Ask[r].user]
              PROVE  Cardinality(Earlier(r, s)') <= found'[r][s].courses
  BY DEF ChildrenAddUp
<1>1. found'[r][s].courses = Cardinality(RowsOf(s))
  BY DEF ReadChildren, Found
<1>2. Earlier(r, s)' = Earlier(r, s) /\ Earlier(r, s) \subseteq RowsOf(s)
  BY DEF ReadChildren, Earlier, RowsOf
<1>3. IsFiniteSet(RowsOf(s))
  BY RowsFinite DEF RowsOf
<1>. QED
  BY <1>1, <1>2, <1>3, FS_Subset

\* An enrollment is active or completed, so the two lists of the dashboard are all.
LEMMA DashboardAnswer ==
    ASSUME Inv, DOMAIN found = Active, NEW r \in Active, ReadDashboard(r),
           "student" \in DOMAIN found[r]
    PROVE  DashboardAddsUp(r)'
<1>. DEFINE own    == RowsOf(found[r].student)
            active == {id \in own : rows[id].status = "active"}
            done   == {id \in own : rows[id].status = "completed"}
<1>1. /\ found'[r].student = found[r].student /\ found'[r].rows = own
      /\ found'[r].active = Cardinality(active) /\ found'[r].completed = Cardinality(done)
      /\ rows' = rows /\ past' = past
  BY DEF ReadDashboard, FoundMore, Found, Merge
<1>2. (Earlier(r, found[r].student))' \subseteq own
  BY <1>1 DEF Earlier, RowsOf
<1>3. Cardinality(active) + Cardinality(done) = Cardinality(own)
  <2>1. /\ IsFiniteSet(active) /\ IsFiniteSet(done)
        /\ Cardinality(active) \in Nat /\ Cardinality(done) \in Nat
    BY RowsFinite DEF RowsOf
  <2>2. own = active \cup done /\ active \cap done = {}
    BY DEF Inv, TypeOK, Rows, Statuses, RowsOf
  <2>3. Cardinality(active \cup done)
          = Cardinality(active) + Cardinality(done) - Cardinality(active \cap done)
    BY <2>1, FS_Union
  <2>4. Cardinality(active \cap done) = 0
    BY <2>2, FS_EmptySet
  <2>. HIDE DEF own, active, done
  <2>. QED
    BY <2>1, <2>2, <2>3, <2>4
<1>. QED
  BY <1>1, <1>2, <1>3 DEF DashboardAddsUp

LEMMA ScheduleAnswer ==
    ASSUME Inv, DOMAIN found = Active, NEW r \in Active, ReadSchedule(r),
           "students" \in DOMAIN found[r]
    PROVE  ScheduleAddsUp(r)'
<1>. DEFINE groups == IF Roles[Ask[r].user] \cap {"teacher", "admin"} # {} THEN Groups
                      ELSE {rows[id].group : id \in UNION {RowsOf(s) : s \in found[r].students}}
<1>1. /\ found'[r].students = found[r].students /\ found'[r].groups = groups
      /\ rows' = rows /\ past' = past
  BY DEF ReadSchedule, FoundMore, Found, Merge
<1>2. ASSUME NEW s \in found[r].students, NEW id \in RowsOf(s)
      PROVE  rows[id].group \in groups
  BY DEF RowsOf, Inv, TypeOK, Rows
<1>. HIDE DEF groups
<1>. QED
  BY <1>1, <1>2 DEF ScheduleAddsUp, Earlier, RowsOf

\* What the request's own step makes of its answer.
LEMMA OwnReading ==
    ASSUME AnswerInv, NEW r \in Active, Step(r) \/ Dies(r)
    PROVE  Reading(r)'
<1>1. Inv /\ CoursesKnown /\ DOMAIN found = Active /\ Reading(r)
  BY DEF AnswerInv, DeliverInv, FreshInv, Delivering
<1>2. CASE pc'[r] \notin {"write", "second", "ok"}
  BY <1>2 DEF Reading
<1>3. CASE ReadTransfer(r) \/ ResolveStudent(r)
  <2>1. Ask[r].kind \in {"transfer", "enroll"} /\ pc'[r] \in {"write", "conflict"}
    BY <1>1, <1>3, Moves DEF ReadTransfer, ResolveStudent, At, Places, Answers
  <2>. QED
    BY <2>1 DEF Reading
<1>4. CASE SkipMember(r) \/ WriteRow(r)
  <2>1. pc[r] = "write" /\ pc' = pc
    BY <1>4 DEF SkipMember, WriteRow, Writing
  <2>. QED
    BY <1>1, <2>1 DEF Reading
<1>5. CASE Commit(r) \/ PublishCourse(r)
  <2>1. Ask[r].kind \in {"transfer", "enroll", "publish"} /\ pc'[r] \in {"second", "not_found"}
    BY <1>1, <1>5, Moves DEF Commit, PublishCourse, At, Places, Answers, Reading
  <2>. QED
    BY <2>1 DEF Reading, FirstRead
<1>6. CASE ReadBack(r) \/ CreateCourse(r) \/ ReadCourses(r) \/ ReadMembers(r)
  <2>1. /\ Ask[r].kind \in {"transfer", "group", "enroll", "create", "publish", "catalogue"}
        /\ pc'[r] = "ok"
    BY <1>1, <1>6, Moves DEF ReadBack, CreateCourse, ReadCourses, ReadMembers, At, Places, Answers
  <2>. QED
    BY <2>1 DEF Reading, AddsUp
<1>7. CASE ReadTotals(r)
  <2>1. Ask[r].kind = "analytics" /\ pc'[r] = "second" /\ UNCHANGED <<rows, courses, past>>
    BY <1>1, <1>7, Moves DEF ReadTotals, At, Places
  <2>2. /\ {"courses", "enrollments"} \subseteq DOMAIN found'[r]
        /\ found'[r].courses = Cardinality(DOMAIN courses)
        /\ found'[r].enrollments = Cardinality(DOMAIN rows)
    BY <1>1, <1>7 DEF ReadTotals, Found
  <2>3. /\ Cardinality(DOMAIN courses) \in Nat /\ Cardinality(DOMAIN rows) \in Nat
        /\ Cardinality(past[r]) <= Cardinality(DOMAIN rows)
    BY <1>1, RowsFinite, FS_CardinalityType DEF CoursesKnown, Inv, TypeOK
  <2>4. TotalsRead(r)'
    BY <2>1, <2>2, <2>3 DEF TotalsRead
  <2>. QED
    BY <2>1, <2>4 DEF Reading, FirstRead
<1>8. CASE ReadDirections(r)
  <2>1. Ask[r].kind = "analytics" /\ pc[r] = "second" /\ pc'[r] = "ok"
    BY <1>1, <1>8, Moves DEF ReadDirections, At, Places, Answers
  <2>2. AnalyticsAddUp(r)'
    BY <1>1, <1>8, <2>1, DirectionsAddUp DEF Reading, FirstRead
  <2>. QED
    BY <2>1, <2>2 DEF Reading, AddsUp
<1>9. CASE ReadRegistry(r) \/ ReadChildren(r)
  <2>1. /\ pc'[r] = "ok"
        /\ ReadRegistry(r) => Ask[r].kind = "registry"
        /\ ReadChildren(r) => Ask[r].kind = "children"
    BY <1>1, <1>9, Moves DEF ReadRegistry, ReadChildren, At, Places, Answers
  <2>2. (ReadRegistry(r) => RegistryAddsUp(r)') /\ (ReadChildren(r) => ChildrenAddUp(r)')
    BY <1>1, RegistryAnswer, ChildrenAnswer
  <2>. QED
    BY <1>9, <2>1, <2>2 DEF Reading, AddsUp
<1>10. CASE ResolveTarget(r) \/ ResolveStudents(r)
  <2>1. /\ pc'[r] = "second"
        /\ ResolveTarget(r) => Ask[r].kind = "dashboard" /\ "student" \in DOMAIN found'[r]
        /\ ResolveStudents(r) => Ask[r].kind = "schedule" /\ "students" \in DOMAIN found'[r]
    BY <1>1, <1>10, Moves DEF ResolveTarget, ResolveStudents, At, Places, Found
  <2>. QED
    BY <1>10, <2>1 DEF Reading, FirstRead
<1>11. CASE ReadDashboard(r) \/ ReadSchedule(r)
  <2>1. /\ pc[r] = "second" /\ pc'[r] = "ok"
        /\ ReadDashboard(r) => Ask[r].kind = "dashboard"
        /\ ReadSchedule(r) => Ask[r].kind = "schedule"
    BY <1>1, <1>11, Moves DEF ReadDashboard, ReadSchedule, At, Places, Answers
  <2>2. FirstRead(r)
    BY <1>1, <2>1 DEF Reading
  <2>3. /\ Ask[r].kind = "dashboard" => "student" \in DOMAIN found[r]
        /\ Ask[r].kind = "schedule" => "students" \in DOMAIN found[r]
    BY <2>2 DEF FirstRead
  <2>4. (ReadDashboard(r) => DashboardAddsUp(r)') /\ (ReadSchedule(r) => ScheduleAddsUp(r)')
    BY <1>1, <2>1, <2>3, DashboardAnswer, ScheduleAnswer
  <2>. QED
    BY <1>11, <2>1, <2>4 DEF Reading, AddsUp
<1>12. CASE Arrive(r) \/ Unknown(r) \/ ReadSummary(r)
  <2>1. pc'[r] \in {"start", "not_found", "third"}
    BY <1>1, <1>12, Moves DEF Arrive, Unknown, ReadSummary, Places, Answers
  <2>. QED
    BY <1>2, <2>1
<1>13. CASE RowRefused(r) \/ DeadlockVictim(r) \/ Dies(r)
  <2>1. PICK answer \in {"conflict", "error"} : Abort(r, answer)
    BY <1>13 DEF RowRefused, DeadlockVictim, Dies
  <2>2. pc'[r] = answer
    BY <1>1, <2>1, Moves DEF Abort, Places, Answers
  <2>. QED
    BY <1>2, <2>2
<1>. QED
  BY <1>3, <1>4, <1>5, <1>6, <1>7, <1>8, <1>9, <1>10, <1>11, <1>12, <1>13 DEF Step

LEMMA InitAnswer == Init => AnswerInv
<1>. SUFFICES ASSUME Init
              PROVE  CoursesKnown /\ \A r \in Active : Reading(r)
  BY InitDeliver DEF AnswerInv
<1>1. \A r \in Active : pc[r] = "new"
  BY DEF Init, Active
<1>. QED
  BY <1>1, CoursesAssumption DEF Init, CoursesKnown, Reading

LEMMA NextAnswer == AnswerInv /\ [Next]_vars => AnswerInv'
<1>. SUFFICES ASSUME AnswerInv, [Next]_vars
              PROVE  CoursesKnown' /\ \A r \in Active' : Reading(r)'
  BY NextDeliver DEF AnswerInv
<1>1. CASE UNCHANGED vars
  <2>1. UNCHANGED <<pc, rows, courses, found, past>> /\ Active' = Active
    BY <1>1 DEF vars, Active
  <2>2. ASSUME NEW r \in Active
        PROVE  Reading(r)'
    <3>1. Reading(r)
      BY DEF AnswerInv
    <3>2. FirstRead(r) => FirstRead(r)'
      BY <2>1 DEF FirstRead, TotalsRead
    <3>3. AddsUp(r) => AddsUp(r)'
      BY <2>1 DEF AddsUp, AnalyticsAddUp, RegistryAddsUp, ChildrenAddUp, DashboardAddsUp,
                  ScheduleAddsUp, Earlier, RowsOf
    <3>. QED
      BY <2>1, <3>1, <3>2, <3>3 DEF Reading
  <2>. QED
    BY <2>1, <2>2 DEF AnswerInv, CoursesKnown
<1>2. CASE Next
  <2>1. PICK r \in Active : Step(r) \/ Dies(r)
    BY <1>2 DEF Next
  <2>2. Inv /\ CoursesKnown /\ DOMAIN found = Active /\ \A q \in Active : Reading(q)
    BY DEF AnswerInv, DeliverInv, FreshInv, Delivering
  <2>3. /\ Active' = Active
        /\ \A q \in Active : q # r => pc'[q] = pc[q] /\ past'[q] = past[q] /\ found'[q] = found[q]
    BY <2>1, <2>2, OthersStay, FoundStays
  <2>4. ASSUME NEW q \in Active, q # r
        PROVE  Reading(q)'
    <3>1. FirstRead(q) => FirstRead(q)'
      BY <2>1, <2>2, <2>3, <2>4, FirstReadKept
    <3>2. AddsUp(q) => AddsUp(q)'
      BY <2>1, <2>2, <2>3, <2>4, AnswerKept
    <3>. QED
      BY <2>2, <2>3, <2>4, <3>1, <3>2 DEF Reading
  <2>5. Reading(r)'
    BY <2>1, OwnReading
  <2>6. CoursesKnown'
    BY <2>1, <2>2, OnlyAdded
  <2>. QED
    BY <2>3, <2>4, <2>5, <2>6
<1>. QED
  BY <1>1, <1>2

\* The analytics, registry, dashboard and timetable are read in several statements,
\* each with its own snapshot, while transfers commit between them: still the
\* directions account for the totals, and nobody's earlier course drops out.
THEOREM ReadsAddUp == Spec => []AnswersAddUp
<1>1. AnswerInv => AnswersAddUp
  BY DEF AnswerInv, Reading, AddsUp, AnswersAddUp
<1>. QED
  BY InitAnswer, NextAnswer, <1>1, PTL DEF Spec
============================================================================
