CONSTANTS
    MaxForwards = 2
    Func <- Both
    VoidFunc <- OneVoid
    RefFunc <- None
    StringFunc <- OneVoid
    StringsMax = 2
    MaxHandlers = 2
    MaxRegistered = 2
    MaxDepth = 2
SPECIFICATION Spec
INVARIANTS
    TypeOK
    RegisteredOnce
    ContextIsInnermost
    TempStringsSound
    ReturnValueSound
    CallAnswersSound
PROPERTIES
    OnlyTheCurrentCallChanges
    ImplementsHookCalls
