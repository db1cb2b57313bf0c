SPECIFICATION Spec
CONSTANTS
    MaxRef = 3
    Keys = {x, y}
    Clients <- AnyClient
SYMMETRY AnyKey
INVARIANTS TypeOK NoDangling BackrefsCover BackrefsExact MarkedOnce CopiesReached
PROPERTIES ImplementsNodeGraph CleanComplete
CHECK_DEADLOCK FALSE
