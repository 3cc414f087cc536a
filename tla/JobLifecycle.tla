--------------------------- MODULE JobLifecycle ---------------------------
(***************************************************************************)
(* What the job queue promises to whoever polls GET /api/v1/jobs/{id}: a   *)
(* job appears as "pending", may be picked up once ("processing"), its     *)
(* progress only grows, and it ends at most once, as "done" at 100 % or as *)
(* "failed".  Nothing moves a job out of "done" or "failed".               *)
(*                                                                         *)
(* The module knows nothing of the database, the stream or the worker; the *)
(* module JobPipeline implements it.                                       *)
(***************************************************************************)
EXTENDS Integers

CONSTANT Jobs        \* the ids of core.jobs rows

VARIABLES
    status,          \* status[j]: the status column, "absent" before the insert
    progress         \* progress[j]: the progress column

vars == <<status, progress>>

Statuses == {"absent", "pending", "processing", "done", "failed"}
Terminal == {"done", "failed"}

TypeOK ==
    /\ status \in [Jobs -> Statuses]
    /\ progress \in [Jobs -> 0..100]

Init ==
    /\ status = [j \in Jobs |-> "absent"]
    /\ progress = [j \in Jobs |-> 0]

Create(j) ==
    /\ status[j] = "absent"
    /\ status' = [status EXCEPT ![j] = "pending"]
    /\ UNCHANGED progress

\* The worker takes the job, or reports how far the job has come.
Advance(j) ==
    /\ status[j] \in {"pending", "processing"}
    /\ status' = [status EXCEPT ![j] = "processing"]
    /\ \E p \in progress[j]..99 : progress' = [progress EXCEPT ![j] = p]

\* Variant (bug): a failed job is completed after all.
CompleteAfterFailure(j) ==
    /\ status[j] \in {"processing", "failed"}
    /\ status' = [status EXCEPT ![j] = "done"]
    /\ progress' = [progress EXCEPT ![j] = 100]

Complete(j) ==
    /\ status[j] = "processing"
    /\ status' = [status EXCEPT ![j] = "done"]
    /\ progress' = [progress EXCEPT ![j] = 100]

Fail(j) ==
    /\ status[j] \in {"pending", "processing"}
    /\ status' = [status EXCEPT ![j] = "failed"]
    /\ UNCHANGED progress

Next == \E j \in Jobs : Create(j) \/ Advance(j) \/ Complete(j) \/ Fail(j)

Spec == Init /\ [][Next]_vars
============================================================================
