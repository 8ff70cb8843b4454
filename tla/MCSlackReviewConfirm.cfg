SPECIFICATION FairSpec
CONSTANTS
    s1 = s1
    s2 = s2
    NoSession = NoSession
    Sessions = {s1}
    MaxCrashes = 2
CHECK_DEADLOCK FALSE
PROPERTIES
    ConfirmEnds
