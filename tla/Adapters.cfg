CONSTANTS
    k1 = k1
    k2 = k2
    v1 = v1
    v2 = v2
    NoValue = none
    CutValue = cut
    Keys <- MCKeys
    Values = {v1, v2}
    Terms <- MCTerms
    TermsOf <- MCTermsOf
    MdAdapters = {m1, m2}
    MdRenames = {TRUE, FALSE}
    NoFile = NoFile
    Unreadable = Unreadable
    MaxMdOps = 4
    MaxMdFaults = 1
    MaxMdKills = 1
    SqAdapters = {s1, s2}
    MaxSqOps = 4
    MaxSqFaults = 1
    Callers = {c1, c2}
    Targets = {t1, t2}
    NoCaller = NoCaller
    NoClient = 0
    PvHosts <- MCHosts
    MaxPvCalls = 3
    MaxPvFaults = 1
    moduleA = moduleA
    moduleB = moduleB
    Paths <- MCPaths
    FileNames = {"mod.rs"}
    FileName <- MCFileName
    textA = textA
    textB = textB
    Contents = {textA, textB}
    Absent = Absent
    Cut = Cut
    FlRenames = {TRUE, FALSE}
    MaxFlOps = 3
    MaxFlFaults = 1
    MaxMillis = 1
SPECIFICATION Spec
INVARIANTS
    NoCallIsStuck
    MdRecallFindsWhatIsStored
    MdAckedChangesSurvive
    SqRecallFindsWhatIsStored
    NoCodexIsForgotten
    AsksAloneInItsTarget
    UndoRestoresFiles
PROPERTIES CallsReturn
CHECK_DEADLOCK FALSE
