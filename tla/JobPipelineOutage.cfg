SPECIFICATION Spec
CONSTANTS
    ImportJob = ImportJob
    AnonymizeJob = AnonymizeJob
    Workers = {w1, w2}
    Jobs <- MCJobs
    JobType <- MCJobType
    Faults <- OutageFaults
INVARIANTS
    TypeOK
    MessageHasRow
    DeliveriesConsistent
    PassedJobHasVerdict
    RowsConsistent
PROPERTIES
    ImplementsLifecycle
SYMMETRY WorkerSymmetry
