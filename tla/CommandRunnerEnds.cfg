CONSTANTS
    Procs = {leader, child}
    Leader = leader
    Limit = 2
    PipeSize = 2
    ReadSize = 2
    MaxWritten = 3
    Reaches = {"group", "leader", "nobody"}
    IoErrors = TRUE
SPECIFICATION FairSpec
\* The call returns and the processes end.
CHECK_DEADLOCK FALSE
INVARIANTS OnlySurvivorsBlock TimeoutLeavesNobody OutputIsComplete
PROPERTIES CommandEnds
