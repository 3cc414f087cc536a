------------------------------ MODULE MCDeployment ------------------------------
(***************************************************************************)
(* Deployment for TLC: two backends that start at once; a start and a seed *)
(* by hand, with a new course between; one backend with an import, crashes *)
(* and downgrades, from an empty database and from one with old rows in    *)
(* the clear; role changes of one account at once; a registration without  *)
(* roles.                                                                  *)
(***************************************************************************)
EXTENDS Deployment, TLC

MCAsk ==
    "signup" :> [kind |-> "register", email |-> "kid", roles |-> {"child"}]
    @@ "twin" :> [kind |-> "register", email |-> "kid", roles |-> {"parent"}]
    @@ "newTeacher" :> [kind |-> "register", email |-> "kid", roles |-> {"teacher"}]
    @@ "bare" :> [kind |-> "register", email |-> "ghost", roles |-> {}]
    @@ "promote" :> [kind |-> "roles", email |-> "teacher@demo", roles |-> {"admin", "teacher"}]
    @@ "demote" :> [kind |-> "roles", email |-> "teacher@demo", roles |-> {"parent"}]
    @@ "staff" :> [kind |-> "roles", email |-> "teacher@demo", roles |-> {"teacher"}]
    @@ "nobody" :> [kind |-> "roles", email |-> "ghost", roles |-> {"child"}]
    @@ "course" :> [kind |-> "course"]
    @@ "import" :> [kind |-> "import"]

Case(actors, seed, from, down, n) ==
    [actors |-> actors, seed |-> seed, from |-> from, downgrades |-> down, crashes |-> n]

MCScenarios == {
    Case({"api", "api2"}, TRUE, 0, FALSE, 1),
    Case({"api", "cli", "course"}, TRUE, 0, FALSE, 2),
    Case({"api", "import"}, FALSE, 0, TRUE, 2),
    Case({"api", "import"}, TRUE, 1, TRUE, 2),
    Case({"api", "promote", "demote"}, TRUE, 0, FALSE, 2),
    Case({"api", "promote", "staff", "nobody"}, TRUE, 0, FALSE, 2),
    Case({"api", "signup", "twin", "newTeacher"}, FALSE, 0, FALSE, 2),
    Case({"api", "bare", "nobody"}, FALSE, 0, TRUE, 2)}
=============================================================================
