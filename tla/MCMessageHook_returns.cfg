CONSTANTS
    a1 = a1
    a2 = a2
    Msg = {1}
    MaxUserMsgs = 4
    Addr = {a1, a2}
    MaxRegistered = 2
    MaxDepth = 1
SPECIFICATION FairSpec
INVARIANT
    HookedIsRegistered
PROPERTY
    EveryDispatchReturns
