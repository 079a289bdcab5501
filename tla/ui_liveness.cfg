SPECIFICATION FairSpec
CONSTANTS
    Faults = {"recreate"}
    Prompt = TRUE
    MaxTaps = 1
    MaxNews = 3
    MaxDialogs = 9
PROPERTY Executed
