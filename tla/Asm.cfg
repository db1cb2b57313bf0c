SPECIFICATION Spec
CONSTANTS
    Names <- Symbols
    Sources <- Texts
    Users <- Graphs
INVARIANTS TypeOK Assembled DelayedFreed FailureFrees
PROPERTY GetsOn
CHECK_DEADLOCK FALSE
