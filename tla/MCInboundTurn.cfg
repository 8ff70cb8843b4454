SPECIFICATION FairSpec
CONSTANTS
    MaxMessages = 2
    Parts = 2
    MaxResumes = 1
    MaxFaults = 2
    MaxPeople = 1
INVARIANTS PartsOnceInOrder OvertakenOnce  LinkAccounted
PROPERTIES TurnEnds
CHECK_DEADLOCK FALSE
