CONSTANTS
    Procs = {p1, p2, p3}
    Workspaces = {here}
    Home = Home
    NoOwner = NoOwner
SPECIFICATION Spec
SYMMETRY Symmetry
\* Every process ends.
CHECK_DEADLOCK FALSE
INVARIANTS AbortedRunIsNotResumed
