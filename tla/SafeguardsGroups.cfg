SPECIFICATION Spec
CONSTANTS
    Signature <- MCSignature
    StallThreshold = 3
    StallWindow = 5
    MaxStallHistory = 8
    Item <- MCItem
    ToolCallThreshold = 4
    ContentThreshold = 3
    CycleThreshold = 2
    MaxCycleLength = 3
    MaxLoopCalls = 8
    MaxLoopTexts = 3
    Call <- MCCall
    Tool <- MCTool
    ToolOf <- MCToolOf
    ExactWarn = 2
    ExactBlock = 3
    ToolWarn = 2
    ToolHalt = 3
    MaxTurn = 3
    MaxFailures = 5
    ToolCall = {t1, t2}
    Hook = {"outside", "plugin"}
    Priority <- MCPriority
    Permanent = {"outside"}
    Args = {x, y, bad}
    ValidArgs = {x, y}
    NotModified = asis
    Process = {p, q, r}
    None = none
    MaxAppends = 3
    MaxCrashes = 1
    Kill = {k1, k2}
    MaxShells = 2
    Runner = {r1, r2}
    Nobody = nobody
    Jobs <- MCJobs
    HardInterrupt = 3
    StaleAfter = 4
    MinCatchup = 2
    MaxCatchup = 3
    OneShotGrace = 2
    MaxClock = 5
    MaxDeaths = 1
    Editor = {e1, e2}
    Task = {"job1", "job2"}
    MaxEdits = 4
    Caller = {c1, c2}
    Deployment = {"cloud", "orchestrator"}
    Rank <- MCRank
    Local = {"orchestrator"}
    Profiles <- MCProfiles
    GatingOff = FALSE
    FailThreshold = 2
    Window = 2
    Cooldown = 1
    MaxTime = 2
    ProtectFirst = 3
    EvictAge = 2
    MaxRuns = 2
    MaxTurns = 4
    MaxCalls = 2
    Manager = {"m1", "m2"}
    Workspace = {"home", "copy"}
    RootOf <- MCRootOf
    ProjectOf <- MCProjectOf
    NoTree = notree
    MaxVersion = 1
    MaxCommits = 2
    MaxEvents = 2
CHECK_DEADLOCK FALSE
INVARIANT
    GroupsTogether
