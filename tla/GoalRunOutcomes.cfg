CONSTANTS
    MaxGoalPlanSteps = 8
    Queues = {1, 2, 3, 4, 6, 7}
    StepBudgets = {0, 4, 5, 6, 7, 10}
    Commands = {"run", "resume"}
    noTokens = noTokens
    noPack = noPack
    NoTokens = noTokens
    NoPack = noPack
    Flags <- MCFlags
    Unsafe <- MCUnsafe
    Upward <- MCUpward
    PathOf <- MCPathOf
    Files <- MCFiles
    Allowlists <- MCAllowlists
SPECIFICATION GrSpec
\* The command returns.
CHECK_DEADLOCK FALSE
INVARIANTS RanWithinPolicy SuccessIsEarned NothingRunsUnapproved RepairsWithinStepBudget
    SuccessRanEveryVerifier NothingIsDeniedMidRun
PROPERTIES CommandsEnd
