SPECIFICATION FairSpec
CONSTANTS
    Sessions = {s1, s2}
    Stops = {k1, k2}
    None = None
    Commands = {"start", "close", "reload"}
    Persist = {FALSE}
    MaxTries = 1
    MaxMain = 1
PROPERTIES
    ChangesEnd
    DeadProcessEndsSession
