SPECIFICATION Spec
CONSTANTS
    k1 = k1
    k2 = k2
    k3 = k3
    NoEntry = NoEntry
    Keys <- MCKeys
    Prefixes <- MCPrefixes
    Ttls = {0, 1}
    Versions = {1, 2}
    MaxEntries = 2
    EvictCount = 1
    Threshold = 2
    Timeout = 2
    MaxTime = 3
INVARIANTS TypeOK CapacityBound BreakerCoherent
PROPERTIES BreakerPromise EvictsLeastRecentlyUsed LiveEntriesStay ExpiredAreRemoved RefusalEnds
CHECK_DEADLOCK FALSE
