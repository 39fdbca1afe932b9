SPECIFICATION Spec
CONSTANTS
    Ids = {1}
    Accounts = {u1, u2}
    Slots = {c1, c2}
    NoUser = NoUser
    NoId = NoId
    MaxCalls = 3
    MaxFaults = 1
    MaxSwitches = 3
    MaxRemote = 1
SYMMETRY Symm
INVARIANTS OnlyOwnRecords
CHECK_DEADLOCK FALSE
