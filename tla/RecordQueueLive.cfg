SPECIFICATION FairSpec
CONSTANTS
    u1 = u1  u2 = u2  w1 = w1  w2 = w2  c1 = c1  c2 = c2  png = png  webp = webp
    Users = {u1}
    Workers = {w1, w2}
    Requests = {c1, c2}
    Extensions = {png, webp}
    Caps = {1}
    Limits = {2}
    MaxRecords = 2
    MaxRequests = 3
    MaxFaults = 0
    MaxCrashes = 1
    NoUser = NoUser
    NoPath = NoPath
    NoHolder = NoHolder
PROPERTIES EveryRecordSettles EveryRequestAnswered
