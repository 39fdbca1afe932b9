SPECIFICATION FairSpec
CONSTANTS
    g1 = g1  g2 = g2  g3 = g3  g4 = g4
    Goroutines = {g1, g2, g3, g4}
    Targets <- Sizes
    Ceiling = 2
    MaxResizes = 3
INVARIANTS PoolInv BusyWithinPeak NoWorkAfterStop
PROPERTIES SurplusLeaves StopDrains
CHECK_DEADLOCK FALSE
