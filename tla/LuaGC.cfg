SPECIFICATION FairSpec
CONSTANTS
    NIL = NIL
    Addr <- MCAddr
    Profiles <- MCProfiles
    SweepMax = 1
INVARIANTS TypeOK ReachableKept MarksInStep
PROPERTIES GarbageGoes FinalizedRight
CHECK_DEADLOCK FALSE
