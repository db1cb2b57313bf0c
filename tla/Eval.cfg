SPECIFICATION Spec
CONSTANTS
    MaxRef = 6
    MaxProcs = 2
    Ints <- SomeInts
    Syms = {"x"}
    ExCalls = {"log"}
    Programs <- Code
VIEW Seen
INVARIANTS TypeOK FrameRooted
PROPERTIES ModsCover Confined
CHECK_DEADLOCK FALSE
