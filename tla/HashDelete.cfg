SPECIFICATION Spec
CONSTANTS
    Keys = {1, 5}
    Vals = {1}
    MinSize = 4
    MaxCap = 8
    Overwrites = TRUE
PROPERTY DelDeletes
