CONSTANTS
    Procs = {p1, p2, p3}
    Absent = Absent
    Platforms = {TRUE, FALSE}
SPECIFICATION FairSpec
INVARIANTS FailClosedExclusion HolderIsVisible RefusedOnlyWhenUndecidable
PROPERTIES AcquireEnds ImplementsSingleWriter
