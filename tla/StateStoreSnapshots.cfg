CONSTANTS
    Runs = {r1}
    NoRun = NoRun
    MaxSeq = 1
    Missing = Missing
    Empty = Empty
    Unreadable = Unreadable
    Nothing = Nothing
    Savers = {p1, p2}
    Settings <- MCSettings
SPECIFICATION Spec
INVARIANTS LoadsWhatWasSaved NextCommandLoads
PROPERTIES ImplementsRegister
