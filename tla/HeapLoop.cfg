SPECIFICATION Spec
CONSTANTS
    Cap = 6
    Ids = {a, b, c, d, e, f}
    Times = {1, 2}
    None = None
    Careless = FALSE
VIEW Seen
INVARIANT OrderedButNode
PROPERTIES ImplementsHeap OnlyTheLastIsLost IsPriorityQueue
