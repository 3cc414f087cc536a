---------------------------- MODULE MCAnonymizer ----------------------------
(***************************************************************************)
(* Anonymizer for TLC: three students, two of them born on two dates of    *)
(* one band and one without a date or an email, and a guardian; two runs   *)
(* pseudonymize the students, one anonymizes them and one the guardians.   *)
(***************************************************************************)
EXTENDS Anonymizer, TLC

FourRuns     == {"p", "q", "a", "g"}
ModeOf       == [r \in FourRuns |-> IF r \in {"p", "q"} THEN "pseudonymize" ELSE "anonymize"]
DatasetOf    == [r \in FourRuns |-> IF r = "g" THEN "guardians" ELSE "students"]

FourPeople   == 1..4
KindOf       == [p \in FourPeople |-> IF p = 4 THEN "guardians" ELSE "students"]
FilledCells  == {<<1, 1>>, <<1, 4>>, <<2, 4>>, <<4, 4>>}
Date(y, d)   == [year |-> y, day |-> d]
BirthOf      == <<Date(2010, 7), Date(2014, 1), Missing, Missing>>
RelationOf   == [p \in FourPeople |-> IF p = 4 THEN "mother" ELSE Missing]
============================================================================
