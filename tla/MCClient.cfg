SPECIFICATION MCSpec
CONSTANTS
    Ids = {1}
    Accounts = {u1, u2}
    Slots = {c1, c2}
    NoUser = NoUser
    NoId = NoId
    MaxCalls = 2
    MaxFaults = 0
    MaxSwitches = 2
    MaxRemote = 1
    Tabs = {t1, t2}
    Flows = {f1, f2}
    Tokens = {k1, k2, k3}
    NoToken = NoToken
    MaxMishaps = 0
SYMMETRY Symm
INVARIANTS
    ClientInv UnfinishedIsPolled ShownImageIsLive SessionInv RefusedOnlyWhenOver
CHECK_DEADLOCK FALSE
