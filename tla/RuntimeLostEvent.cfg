SPECIFICATION Spec
CONSTANTS
    Cap = 2
    MaxPid = 2
    Nodes = {}
    Durations = {1, 2}
    MaxClock = 4
    MinCycles = 2
    Ends = {0, 2, 4, 5}
    Mods <- NoMods
    Programs <- NodelRun
INVARIANT ClockRegistered
CHECK_DEADLOCK FALSE
