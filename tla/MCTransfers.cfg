SPECIFICATION Spec
CONSTANTS
    k1 = k1
    k2 = k2
    NoToken = NoToken
    Keys <- OneKey
    MaxAttempts = 3
    RetryOn <- UnsureAnswers
    GatewayTimeout = 1
    Lifetimes <- OneLifetime
    Timeout = 1
    Buffer = 2
    MaxTime = 6
INVARIANTS TypeOK DuplicatesNeedDoubt AnswersAreTrue
PROPERTY EveryoneIsAnswered
CHECK_DEADLOCK FALSE
