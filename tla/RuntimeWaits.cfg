SPECIFICATION FairSpec
CONSTANTS
    Cap = 3
    MaxPid = 3
    Nodes = {1}
    Durations = {0, 1}
    MaxClock = 3
    MinCycles = 0
    Ends = {0, 2}
    Mods <- SomeMods
    Programs <- Several
INVARIANTS TypeOK ClockedCount PidsAreOld
PROPERTIES StateDiagram PassEnds
CHECK_DEADLOCK FALSE
