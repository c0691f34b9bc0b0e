SPECIFICATION Spec
CONSTANTS
    d1 = d1
    d2 = d2
    c1 = c1
    c2 = c2
    NoDoc = NoDoc
    Ids <- TwoIds
    Document <- Deposit
    Calls <- TwoCalls
    Kinds <- SomeKinds
SYMMETRY Symmetry
INVARIANTS TypeOK CountIsExact SaveIsComing CompletedIsDated
PROPERTY RestartRestores
