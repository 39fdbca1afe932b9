SPECIFICATION Spec
CONSTANTS
    g1 = g1  g2 = g2  g3 = g3  g4 = g4
    Goroutines = {g1, g2, g3}
    Targets = {1, 2}
    Ceiling = 2
    MaxResizes = 2
INVARIANTS NeverShort
CHECK_DEADLOCK FALSE
