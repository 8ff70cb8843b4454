SPECIFICATION FairSpec
CONSTANTS
    a = a
    rb = rb
    Work = {a, rb}
    Recoveries = {rb}
    Conv <- MCConv
    MsgId <- MCMsgId
    Procs = {p1, p2}
    MaxAttempts = 2
    MaxAdmissions = 3
    MaxCrashes = 2
INVARIANTS CompletedWasAnswered NoOlderReplay
PROPERTIES  EveryAdmissionEnds
CHECK_DEADLOCK FALSE
