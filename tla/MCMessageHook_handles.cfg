CONSTANTS
    a1 = a1
    a2 = a2
    Msg = {1}
    MaxUserMsgs = 4
    Addr = {a1, a2}
    MaxRegistered = 1
    MaxDepth = 1
SPECIFICATION Spec
INVARIANT
    HandleNamesItsHook
