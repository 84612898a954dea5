CONSTANTS
    MaxForwards = 4
    Func <- Both
    VoidFunc <- OneVoid
    RefFunc <- None
    StringFunc <- None
    StringsMax = 0
    MaxHandlers = 4
    MaxRegistered = 4
    MaxDepth = 1
SPECIFICATION Spec
INVARIANTS
    HandleNamesItsHandler
    SkippedOnDemand
PROPERTIES
    LoopsRunDown
