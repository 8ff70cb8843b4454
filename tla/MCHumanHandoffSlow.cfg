\* The same with leases that lapse under the workers.
CONSTANTS
    w1 = w1
    w2 = w2
    Worker <- TwoWorkers
    MaxAttempts = 2
    MaxResumes = 1
    SlowWorkers = TRUE
    MaxRequests = 1
    MaxAborts = 0
    MaxGen = 3
SPECIFICATION Spec
SYMMETRY Symmetry
INVARIANTS TypeOK RequestSummarises LiveMeansPaused
