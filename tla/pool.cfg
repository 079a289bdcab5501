SPECIFICATION FairSpec
CONSTANTS
    Guards <- MCGuards
    Callbacks <- MCCallbacks
    Apis <- MCApis
    MaxStarts = 2
INVARIANTS
    NoOrphan
    NotSilent
PROPERTIES
    JoinedOrSpent
    Restarted
CHECK_DEADLOCK FALSE
