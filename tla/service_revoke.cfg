SPECIFICATION RevokeSpec
CONSTANTS
    Sessions = {s1, s2}
    Stops = {k1, k2}
    None = None
    Commands = {"start", "close", "reload"}
    Persist = {TRUE, FALSE}
    MaxTries = 1
    MaxMain = 2
SYMMETRY Symmetry
INVARIANT StopWins
