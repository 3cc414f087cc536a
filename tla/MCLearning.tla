----------------------------- MODULE MCLearning -----------------------------
(***************************************************************************)
(* Learning for TLC: two groups of one course, one of another, a course    *)
(* without groups; transfers of the same students in opposite orders, a    *)
(* repeated one in another order, one with a student listed twice or       *)
(* unknown; children who enroll themselves; reads meanwhile.               *)
(***************************************************************************)
EXTENDS Learning, TLC

TwoStudents == {"s1", "s2"}
MCCourseOf  == "a1" :> "A" @@ "a2" :> "A" @@ "b1" :> "B"
MCDirection == "A" :> "art" @@ "B" :> "none" @@ "C" :> "none"
MCCourses   == "A" :> "published" @@ "B" :> "draft"

Row(s, g, status) == [student |-> s, group |-> g, status |-> status]
MCEnrolled  == <<"seed", "s1">> :> Row("s1", "a1", "completed") @@ <<"seed", "s2">> :> Row("s2", "b1", "active")

MCRoles    == "kid" :> {"child"} @@ "mum" :> {"parent", "child"} @@ "new" :> {"child"}
              @@ "staff" :> {"teacher"}
MCProfile  == "kid" :> {"s1"} @@ "mum" :> {} @@ "new" :> {} @@ "staff" :> {}
MCChildren == "kid" :> {} @@ "mum" :> {"s1", "s2"} @@ "new" :> {} @@ "staff" :> {}

Transfer(g, list)  == [kind |-> "transfer", group |-> g, students |-> list]
Enroll(u, g)       == [kind |-> "enroll", user |-> u, group |-> g]
Dashboard(u, s)    == [kind |-> "dashboard", user |-> u, student |-> s]
Schedule(u)        == [kind |-> "schedule", user |-> u]
Plain(kind)        == [kind |-> kind]

MCAsk ==
    "there" :> Transfer("a2", <<"s1", "s2">>) @@ "back" :> Transfer("a1", <<"s2", "s1">>)
    @@ "again" :> Transfer("a2", <<"s2", "s1">>)
    @@ "twice" :> Transfer("a1", <<"s2", "s2">>) @@ "ghost" :> Transfer("a2", <<"s1", "s9">>)
    @@ "lost" :> Transfer("z", <<"s1">>)
    @@ "join" :> Enroll("kid", "a2") @@ "joinNowhere" :> Enroll("kid", "z")
    @@ "joinNobody" :> Enroll("new", "a1")
    @@ "group" :> [kind |-> "group", group |-> "a2"] @@ "noGroup" :> [kind |-> "group", group |-> "z"]
    @@ "create" :> [kind |-> "create", course |-> "C"] @@ "publish" :> [kind |-> "publish", course |-> "B"]
    @@ "publishNew" :> [kind |-> "publish", course |-> "C"]
    @@ "catalogue" :> Plain("catalogue")
    @@ "analytics" :> Plain("analytics") @@ "registry" :> Plain("registry")
    @@ "dashboard" :> Dashboard("kid", "first") @@ "child" :> Dashboard("mum", "s2")
    @@ "children" :> [kind |-> "children", user |-> "mum"] @@ "stranger" :> Dashboard("kid", "s2")
    @@ "schedule" :> Schedule("mum") @@ "timetable" :> Schedule("staff")

MCLoads == {
    {"there", "back", "join"},
    {"there", "again", "join"},
    {"there", "back", "dashboard"},
    {"there", "back", "schedule", "registry"},
    {"there", "group", "join", "children"},
    {"twice", "join", "ghost"},
    {"create", "publish", "publishNew", "analytics", "join"},
    {"create", "catalogue", "timetable", "child", "stranger"},
    {"lost", "joinNowhere", "joinNobody", "noGroup", "publishNew"}}
=============================================================================
