SPECIFICATION Spec
CONSTANTS
    d1 = d1
    d2 = d2
    c1 = c1
    c2 = c2
    c3 = c3
    NoDoc = NoDoc
    Ids <- TwoIds
    Calls <- ThreeCalls
    Kinds <- SomeKinds
SYMMETRY Symmetry
INVARIANTS TypeOK CompletedIsDated NotFoundLasts 
PROPERTY StorePromise
CHECK_DEADLOCK FALSE
