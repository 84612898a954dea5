CONSTANTS
    door = door
    box = box
    Think = Think
    MoveDone = MoveDone
    a1 = a1
    a2 = a2
    a3 = a3
    Ent <- DoorAndBox
    Toggle <- Door
    Type = {Think, MoveDone}
    Addr = {a1, a2, a3}
    MaxDepth = 2
SPECIFICATION FairSpec
INVARIANTS
    TypeOK
    MarksAreListed
    OneCallbackPerSlot
    ProtectedUntilReentered
PROPERTY
    MarkedAreDeleted
