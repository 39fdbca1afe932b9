SPECIFICATION Spec
CONSTANTS
    Keys = {k1}
    Models = {m1}
    Titles = {t1}
    Limits = {1}
    Nothing = Nothing
    MaxActs = 5
    MaxFailures = 0
INVARIANTS MaskNeverStored
CHECK_DEADLOCK FALSE
