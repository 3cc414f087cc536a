------------------------------- MODULE MCPrivacy -------------------------------
(***************************************************************************)
(* Privacy for TLC: a student imported before, a guardian imported         *)
(* meanwhile; syncs at once and after each other, the KPI between them, a  *)
(* request that is resolved and reopened while its deadline passes.        *)
(***************************************************************************)
EXTENDS Privacy, TLC

MCTypeOf == "s" :> "student" @@ "g" :> "guardian"

Call(kind)        == [kind |-> kind]
Ticket(s, type)   == [kind |-> "create", subject |-> s, type |-> type]
Update(q, status) == [kind |-> "update", request |-> q, status |-> status]
Card(s)           == [kind |-> "card", subject |-> s, type |-> "student"]

MCAsk ==
    "sync" :> Call("sync") @@ "sync2" :> Call("sync") @@ "kpi" :> Call("kpi")
    @@ "ticket" :> Ticket("s", "student") @@ "other" :> Ticket("g", "student")
    @@ "resolve" :> Update("ticket", "done") @@ "reopen" :> Update("ticket", "in_progress")
    @@ "reject" :> Update("ticket", "rejected") @@ "lost" :> Update("gone", "done")
    @@ "card" :> Card("s")
    @@ "import" :> [kind |-> "import", subject |-> "g"]
    @@ "consents" :> Call("consents") @@ "subjects" :> Call("subjects")
    @@ "requests" :> Call("requests")

MCLoads == {
    {"sync", "sync2", "kpi", "import"},
    {"ticket", "resolve", "reopen"},
    {"ticket", "resolve", "requests"},
    {"ticket", "reject", "card"},
    {"sync", "card", "consents"},
    {"other", "import"},
    {"lost", "subjects", "import"}}
=============================================================================
