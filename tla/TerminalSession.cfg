SPECIFICATION Spec
CONSTANTS
    Call <- MCCall
    Parallel <- MCParallel
    WithDiff <- MCWithDiff
    MaxPrompts = 2
INVARIANTS
    TypeOK
    DialogMatchesWaiter
    BusyMatchesRun
PROPERTY
    SessionAdvances
CHECK_DEADLOCK FALSE
