SPECIFICATION FairSpec
CONSTANTS
    ImportJob = ImportJob
    AnonymizeJob = AnonymizeJob
    Workers = {w1, w2}
    Jobs <- MCJobs
    JobType <- MCJobType
    Faults <- ReplyFaults
INVARIANTS
    DoneIsClean
PROPERTIES
    AcceptedJobFinishes
