SPECIFICATION Spec
CONSTANTS
    Faults = {"fail", "crash", "recreate"}
    Prompt = FALSE
    MaxTaps = 2
    MaxNews = 2
    MaxDialogs = 2
INVARIANTS
    ShownTrue
    DialogGone
