SPECIFICATION FairSpec
CONSTANTS
    Keys = {k1, k2}
    OtherKey = other
    Networks = {wifi, cell}
    None = None
    Threads = {TRUE, FALSE}
    MaxEvents = 2
INVARIANTS
    ActorLives
    ListenersCurrent
    NetworkTrue
PROPERTIES
    GetAnswered
