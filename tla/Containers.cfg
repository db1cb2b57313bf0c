SPECIFICATION ContainersSpec
\* A table or a vector that is used past what the code defines ends there.
CHECK_DEADLOCK FALSE
CONSTANTS
    Keys = {1, 2, 3, 5, 9}
    Vals = {1, 2}
    MinSize = 2
    MaxCap = 8
    Overwrites = FALSE
    Widths = {1, 3}
    Lengths = {0, 2, 5}
    MaxCount = 10
    MaxOnes = 2
    BlockSize = 2
    MaxBlocks = 3
    Runtimes = {r1, r2, r3}
    Byte = 2
    Pools <- SomePools
    Guess = 0
    Buffers = {0, 3, 4, 9, 10, 20, 26, 27, 43, 44, 60, 61, 66, 67, 80}
INVARIANTS TypeOK Reachable Counted SweepCovers HeldInPlace ListLike ItemsExact
           TablesHeld FileKeepsGraph
PROPERTY IsMap
