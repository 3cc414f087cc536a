------------------------------- MODULE MCSession -------------------------------
(***************************************************************************)
(* Session for TLC: a user of each contour and one without a role.         *)
(***************************************************************************)
EXTENDS Session, TLC

FourTokens == {"t1", "t2", "t3", "t4"}
MCOwner    == "t1" :> "admin" @@ "t2" :> "teacher" @@ "t3" :> "kid" @@ "t4" :> "nobody"

OneToken   == {"t1"}
OneOwner   == "t1" :> "admin"

MCRoles ==
    "admin" :> {"admin", "teacher"} @@ "teacher" :> {"teacher"} @@ "kid" :> {"child"} @@ "nobody" :> {}
================================================================================
