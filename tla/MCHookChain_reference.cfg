CONSTANTS
    MaxForwards = 2
    Func <- OneValue
    VoidFunc <- None
    RefFunc <- OneValue
    StringFunc <- None
    StringsMax = 2
    MaxHandlers = 2
    MaxRegistered = 2
    MaxDepth = 2
SPECIFICATION Spec
INVARIANTS
    CallersGetValues
