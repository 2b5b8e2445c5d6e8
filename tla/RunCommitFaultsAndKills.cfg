CONSTANTS
    MaxRuns = 3
    MaxCommands = 4
    MaxFaults = 2
    MaxKills = 1
    Isolated = TRUE
    NoSnapshot = NoSnapshot
SPECIFICATION Spec
\* The bounded number of commands is used up.
CHECK_DEADLOCK FALSE
INVARIANTS
    SettledRunsStaySettled
    SettledRunsKeepEvidence
    PendingWasTraced
    FailedCommandShowsNoSuccess
    MemoryClaimsNoSuccess
    FailedCommandLeavesSnapshot
PROPERTIES WaitingRunLeavesTraced
