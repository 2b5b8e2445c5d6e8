CONSTANTS
    Procs = {p1, p2, p3}
    Absent = Absent
    Platforms = {TRUE}
SPECIFICATION Spec
INVARIANTS MutualExclusion
SYMMETRY ProcSymmetry
