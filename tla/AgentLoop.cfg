SPECIFICATION Spec
CONSTANTS
    Call <- MCCall
    Malformed <- MCMalformed
    FailingTool <- MCFailingTool
    Response <- MCResponse
    Headless = TRUE
    MaxIterations = 4
    MaxTokens = 5
    MaxContextTokens = 4
    MaxRetries = 1
    StallThreshold = 3
    MaxParseFailures = 2
    ContentThreshold = 2
    ToolCallThreshold = 4
    CycleThreshold = 2
    MaxCycleLength = 2
    BlockAfter = 2
    MaxRuns = 2
INVARIANTS
    TypeOK
    AbortReported
    AbortStopsSoon
    EngineBoundsRun
    AnsweredBeforeNextCall
    StuckRunsStop
PROPERTIES
    CompactionKept
    RunReturns
