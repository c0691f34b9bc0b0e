SPECIFICATION Spec
CONSTANTS
    k1 = k1
    k2 = k2
    NoToken = NoToken
    Keys <- TwoKeys
    MaxAttempts = 2
    RetryOn <- UnsureAnswers
    GatewayTimeout = 1
    Lifetimes <- OneLifetime
    Timeout = 1
    Buffer = 2
    MaxTime = 4
INVARIANTS OneTransferPerKey
CHECK_DEADLOCK FALSE
