--------------------------- MODULE MCJobPipeline ---------------------------
(***************************************************************************)
(* JobPipeline for TLC: an import job and an anonymize job.                *)
(***************************************************************************)
EXTENDS JobPipeline, TLC

CONSTANTS ImportJob, AnonymizeJob

MCJobs == {ImportJob, AnonymizeJob}

\* Workers are interchangeable: no definition names one, and no run that uses
\* the symmetry checks liveness.
WorkerSymmetry == Permutations(Workers)

MCJobType == [j \in Jobs |-> IF j = ImportJob THEN "import" ELSE "anonymize"]

\* Everything the pipeline withstands with a final, consistent verdict.
OutageFaults ==
    {"request_error", "publish_lost", "redis_error", "redis_lost", "redis_wiped",
     "crash", "shutdown"}

\* Requests that die or publish twice and UPDATEs that are applied without a reply,
\* while the stores and workers stay up.
ReplyFaults == {"request_error", "publish_lost", "publish_resent", "db_lost"}

ShutdownOnly == {"shutdown"}
============================================================================
