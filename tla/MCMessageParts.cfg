CONSTANTS
    a1 = a1
    a2 = a2
    a3 = a3
    Msg = {1}
    MaxUserMsgs = 4
    Addr = {a1, a2, a3}
    MaxRegistered = 1
    MaxDepth = 2
SPECIFICATION PartSpec
SYMMETRY Addresses
CONSTRAINT InPart
INVARIANTS
    TypeOK
    ActiveIsInnermost
    ListedAreAlive
    HandleStaysInList
    NoHookRunsTwice
    WithheldOnDemand
PROPERTY
    OnlyActiveMessageChanges
