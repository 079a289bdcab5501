SPECIFICATION FairSpec
CONSTANTS
    None = None
    MaxGen = 1
    MaxQueue = 2
INVARIANTS
    ChecksHold
    ClientCurrent
PROPERTIES
    ClientForgotten
CHECK_DEADLOCK FALSE
