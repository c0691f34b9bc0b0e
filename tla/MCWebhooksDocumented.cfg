SPECIFICATION Spec
CONSTANTS
    a1 = a1
    a2 = a2
    h1 = h1
    NoEntry = NoEntry
    Autoposts <- MCAutoposts
    Hooks <- MCHooks
    MaxDeliveries = 2
    MaxRestarts = 1
    MarkTtl = 1
    MaxEntries = 2
    EvictCount = 1
    Threshold = 5
    Timeout = 1
    MaxTime = 4
PROPERTY RecognisedForSevenDays
CHECK_DEADLOCK FALSE
