SPECIFICATION Spec
CONSTANTS
    root = root
    reply = reply
    alone = alone
    stray = stray
    s = s
    NoNotification = NoNotification
    NoSubject = NoSubject
    Notifications = {root, reply, alone, stray}
    Subjects = {s}
    SubjectOf <- MCSubjectOf
    Actionable = {root}
    Misrouted = {stray}
    Capacity = 2
    MaxGeneration = 2
    MaxCrashes = 1
    MaxRearms = 1
CHECK_DEADLOCK FALSE
INVARIANTS
    ActivationAccounted
    ThreadsAccounted
PROPERTIES
    UnknownStopsOutput
    LedgerSpec
