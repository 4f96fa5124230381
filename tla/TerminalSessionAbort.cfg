SPECIFICATION Spec
CONSTANTS
    Call <- MCCall
    Parallel <- MCParallel
    WithDiff <- MCWithDiff
    MaxPrompts = 2
PROPERTY
    AbortDismisses
