SPECIFICATION FairSpec
CONSTANTS
    MaxTraffic = 1
    MaxCounted = 2
PROPERTIES
    MissedOnlyByReset
    RatesSettle
CHECK_DEADLOCK FALSE
