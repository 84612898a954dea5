CONSTANTS
    MaxForwards = 2
    Func <- OneVoid
    VoidFunc <- OneVoid
    RefFunc <- None
    StringFunc <- OneVoid
    StringsMax = 2
    MaxHandlers = 2
    MaxRegistered = 2
    MaxDepth = 2
SPECIFICATION Spec
INVARIANTS
    WasCalledExact
