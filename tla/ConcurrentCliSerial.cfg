CONSTANTS
    Procs = {p1, p2, p3, p4}
    Workspaces = {here, there}
    Home = Home
    NoOwner = NoOwner
SPECIFICATION Spec
SYMMETRY Symmetry
\* Every process ends.
CHECK_DEADLOCK FALSE
INVARIANTS CommitsAreSerial SecondTimeNeedsStaleLoad EndsWhereItStarted
PROPERTIES EveryWorkspaceHasItsLock
