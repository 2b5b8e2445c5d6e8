CONSTANTS
    Intents = {i1, i2}
    MaxEvents = 4
    Malformed = Malformed
    NoTail = NoTail
    Part = Part
    Glued = Glued
    NoEvent = NoEvent
    Rewrites = TRUE
    IoErrors = TRUE
    MaxKills = 1
SPECIFICATION Spec
\* The bounded number of events is used up.
CHECK_DEADLOCK FALSE
INVARIANTS AckedEventsLoadUntilGlued
