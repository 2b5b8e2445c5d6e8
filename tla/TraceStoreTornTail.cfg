CONSTANTS
    Intents = {i1, i2}
    MaxEvents = 2
    Malformed = Malformed
    NoTail = NoTail
    Part = Part
    Glued = Glued
    NoEvent = NoEvent
    Rewrites = FALSE
    IoErrors = FALSE
    MaxKills = 1
SPECIFICATION Spec
\* The bounded number of events is used up.
CHECK_DEADLOCK FALSE
INVARIANTS AckedEventsLoad
