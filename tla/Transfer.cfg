SPECIFICATION Spec
CONSTANTS
    NumPrograms = 2
    Tree <- TwoFiles
    Directions <- AnyDirection
    ReadOnly <- LastFile
    MaxWire = 1
    MaxEdits = 1
    MaxFaults = 2
INVARIANTS
    TypeOK
    UntroubledAttemptSucceeds
    EofMeansWhole
PROPERTIES
    SuccessMeansDelivered
    TransferEnds
    ServesAgain
CHECK_DEADLOCK FALSE
