CONSTANTS
    MaxGoalPlanSteps = 8
    Queues = {1, 2, 3, 4, 6, 7}
    StepBudgets = {0, 4, 5, 6, 7, 10}
    Commands = {"run"}
    noTokens = noTokens
    noPack = noPack
    NoTokens = noTokens
    NoPack = noPack
    Flags <- MCFlags
    Unsafe <- MCUnsafe
    Upward <- MCUpward
    PathOf <- MCPathOf
    Files <- MCScopeFiles
    Allowlists <- MCAllowlists
SPECIFICATION GrSpec
\* The command returns.
CHECK_DEADLOCK FALSE
INVARIANTS ConstraintsAreEnforced
