\* One fault, one change of a flow, any number of admissions without an answer.
SPECIFICATION FairSpec
CONSTANTS
    Carts <- TwoCarts
    Purchases <- OnePurchase
    ForceAfter = 1
    MaxAttempts = 1
    MaxFaults = 1
    MaxEdits = 1
INVARIANTS NoDoubleCase WelcomeAfterStop
PROPERTIES TakenIsNotPaused WorkEnds
