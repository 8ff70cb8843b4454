SPECIFICATION FairSpec
CONSTANTS
    w1 = w1
    w2 = w2
    Worker = {w1}
    MaxMessages = 1
    MaxRetries = 1
    MaxRepeats = 1
    MaxHandoffs = 1
    MaxGen = 3
PROPERTIES
    ActionSettles
CHECK_DEADLOCK FALSE
