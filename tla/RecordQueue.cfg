SPECIFICATION Spec
CONSTANTS
    u1 = u1  u2 = u2  w1 = w1  w2 = w2  c1 = c1  c2 = c2  png = png  webp = webp
    Users = {u1, u2}
    Workers = {w1, w2}
    Requests = {c1, c2}
    Extensions = {png}
    Caps = {1, 2}
    Limits = {2}
    MaxRecords = 3
    MaxRequests = 3
    MaxFaults = 1
    MaxCrashes = 1
    NoUser = NoUser
    NoPath = NoPath
    NoHolder = NoHolder
SYMMETRY Symm
INVARIANTS
    RunningIsWorkedOn ExclusiveJob CompletedIsServable
PROPERTIES ImplementsQueue ClaimWithinCapRead AdmitWithinLimitRead
