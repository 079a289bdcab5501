SPECIFICATION LiveSpec
CONSTANTS
    Client = {c1}
    Len_ <- MCLen
    Methods = {"none", "pass"}
    LIMIT = 2
    RECV_BUF = 2
    Faults = {"reset", "close", "memory", "refuse"}
    MaxUp = 2
    MaxDown = 2
INVARIANTS
    AssertsHold
    Watched
    DataIntact
PROPERTIES
    Carries
