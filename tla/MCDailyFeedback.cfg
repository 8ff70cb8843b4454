SPECIFICATION FeedbackSpec
CONSTANTS
    o1 = o1
    o2 = o2
    p1 = p1
    p2 = p2
    None = None
    NumItems = 2
    DecisionTypes = {"correct_with_feedback", "skip"}
    Owners = {o1, o2}
    Callers = {p1, p2}
    MaxFence = 2
    MaxObserved = 2
    MaxDeaths = 1
SYMMETRY Symmetry
CHECK_DEADLOCK FALSE
INVARIANTS
    FeedbackTypeOK
    OwnFilesAccepted
    DecisionRecoverable
    DecidedWasDeliveredOnce
PROPERTIES
    NothingUndone
