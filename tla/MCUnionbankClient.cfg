SPECIFICATION Spec
CONSTANTS
    c1 = c1
    c2 = c2
    c3 = c3
    NoToken = NoToken
    Calls <- ThreeCalls
    Lifetimes <- TwoLifetimes
    Timeout = 1
    Buffer = 2
    MaxTime = 5
INVARIANTS TypeOK TokenOutlivesRequest EndsInTime
PROPERTY CallsEnd
CHECK_DEADLOCK FALSE
