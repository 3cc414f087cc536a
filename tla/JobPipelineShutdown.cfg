SPECIFICATION FairSpec
CONSTANTS
    ImportJob = ImportJob
    AnonymizeJob = AnonymizeJob
    Workers = {w1}
    Jobs <- MCJobs
    JobType <- MCJobType
    Faults <- ShutdownOnly
PROPERTIES
    AtLeastOnce
