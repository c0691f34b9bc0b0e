SPECIFICATION Spec
CONSTANTS
    c1 = c1
    c2 = c2
    c3 = c3
    None = None
    Callers <- ThreeCallers
    MaxLosses = 2
INVARIANTS TypeOK OneFillPerMiss NoLostWakeup RecordedFlightIsOpen
PROPERTY OwnerIsAnswered
CHECK_DEADLOCK FALSE
