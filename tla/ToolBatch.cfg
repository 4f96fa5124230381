SPECIFICATION Spec
CONSTANTS
    Request <- MCRequest
    ParallelSafe <- MCParallelSafe
    PathScoped <- MCPathScoped
    NeverParallel <- MCNeverParallel
    Path <- MCPath
    Existing <- MCExisting
    RealPath <- MCRealPath
    MaxConcurrent = 2
    MaxBatch = 4
INVARIANTS
    TypeOK
    SlotAccounting
    MutationsOrdered
    ResultsExpected
PROPERTIES
    NoStartAfterAbort
    KeepsSafeBatch
    Returns
