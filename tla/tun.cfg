SPECIFICATION FairSpec
CONSTANTS
    TCP_WND = 2
    TCP_SND_BUF = 1
    RECV_BUF = 2
    MaxUp = 3
    MaxDown = 3
INVARIANTS
    NoFault
    WindowCredit
    Driven
PROPERTIES
    Reclaimed
CHECK_DEADLOCK FALSE
