SPECIFICATION VecSpec
CHECK_DEADLOCK FALSE
CONSTANTS
    Widths = {3}
    Lengths = {5}
    MaxCount = 10
    MaxOnes = 1
INVARIANT CapacityHeld
