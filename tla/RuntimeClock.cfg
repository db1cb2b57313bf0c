SPECIFICATION ForSpec
CONSTANTS
    Cap = 3
    MaxPid = 3
    Nodes = {}
    Durations = {0, 2}
    MaxClock = 5
    MinCycles = 2
    Ends = {2}
    Mods <- NoMods
    Programs <- NodelRun
    Kilo = 1
    Mega = 3
    Timeouts = {0, 2}
    MinSleep = 2
INVARIANTS HeapOrdered NapsEndInTime
PROPERTIES PassDrains ForRunsOut
CHECK_DEADLOCK FALSE
