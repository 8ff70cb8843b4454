\* The projection of one request by two workers that keep their leases; one may die.
CONSTANTS
    w1 = w1
    w2 = w2
    Worker <- TwoWorkers
    MaxAttempts = 2
    MaxResumes = 1
    SlowWorkers = FALSE
    MaxRequests = 1
    MaxAborts = 1
    MaxGen = 4
SPECIFICATION FairSpec
 
PROPERTIES EffectsSettle
