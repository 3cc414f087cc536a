-------------------------- MODULE MCImportPipeline --------------------------
(***************************************************************************)
(* ImportPipeline for TLC: datasets that overlap, in opposite orders, with *)
(* duplicates, bad rows, links that lead nowhere and a broken file.        *)
(***************************************************************************)
EXTENDS ImportPipeline, TLC

People1to3 == 1..3

Valid(ids) == [k \in DOMAIN ids |-> [id |-> ids[k], kind |-> "valid"]]
Bad(id)    == <<[id |-> id, kind |-> "invalid"]>>

File(rows) == [found |-> TRUE, readable |-> TRUE, rows |-> rows]
Absent     == [found |-> FALSE, readable |-> TRUE, rows |-> <<>>]
Broken     == [found |-> TRUE, readable |-> FALSE, rows |-> <<>>]

Dataset(s, g, l) == [students |-> s, guardians |-> g, links |-> l]

\* Three students in batches of two, with a duplicate, a bad row and a link to
\* the student it would have been.
Forward == Dataset(
    File(Valid(<<1, 2, 1>>) \o Bad(3)),
    File(Valid(<<1, 2>>)),
    File(Valid(<<<<1, 1>>, <<3, 2>>, <<1, 1>>>>) \o Bad(<<1, 2>>)))

\* The last guardian passes validation and is refused by the database.
Backward == Dataset(
    File(Valid(<<2, 1, 3>>)),
    File(Valid(<<2, 1>>) \o <<[id |-> 3, kind |-> "refused"]>>),
    File(Valid(<<<<2, 2>>>>)))

Partial == Dataset(File(Valid(<<2>>)), Absent, Broken)

Faulty    == "a" :> Forward @@ "b" :> Backward @@ "c" :> Partial
ThreeJobs == {"a", "b", "c"}
============================================================================
