SPECIFICATION FairSpec
INVARIANTS
    TypeOK
    AlwaysElectsDr
    OneRole
    ElectedAreEligible
    AdjacentIffWanted
    ElectionIsStable
PROPERTIES
    OnlyJoinsGoUnnoticed
    DrIsNotPreempted
    AtMostTwoPasses
    WaitingEnds
CONSTANTS
    Peer = {1, 3}
    MyIp = 2
    Id <- MCId
    MyPriority = 1
    Priority = {0, 1}
CHECK_DEADLOCK FALSE
