SPECIFICATION Spec
CONSTANTS
    Stream = {s1, s2}
    Client = {c1}
    MaxRuns = 1
    MaxCreated = 2
    MaxActions = 1
    Configs <- MCConfigs
    Transport <- MCTransport
    Broken = {"broken"}
    MaxVersion = 2
    MaxCalls = 1
CHECK_DEADLOCK FALSE
INVARIANTS
    TypeOK
    StreamsFaithful
    RunsAccounted
    ExitSettles
    ToolsFresh
PROPERTY
    EverythingSettles
