SPECIFICATION Spec
CONSTANTS
    w1 = w1
    w2 = w2
    Worker = {w1, w2}
    MaxMessages = 2
    MaxRetries = 1
    MaxRepeats = 0
    MaxHandoffs = 1
    MaxGen = 2
SYMMETRY Dispatchers
INVARIANTS
    TypeOK
    
    
    StoppedLeavesNothing
CHECK_DEADLOCK FALSE
