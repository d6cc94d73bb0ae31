SPECIFICATION Spec
CONSTANTS
    SessionSpace = 4
    MaxSessions = 2
    Timeout = 1
    Interval = 1
    SweepEnabled = TRUE
    ConnLimit = 4
    LagLimit = 1
INVARIANTS
    TypeOK
    SweepLoopRuns
    PromptSessionsKept
    ClosedOnce
PROPERTIES
    SilentSessionsClosed
CHECK_DEADLOCK FALSE
