SPECIFICATION SavedSpec
CONSTANTS
    MaxRef = 3
    Keys = {x}
    Clients <- Careful
PROPERTY ReachableKept
CHECK_DEADLOCK FALSE
