SPECIFICATION FairSpec
CONSTANTS
    a1 = a1  a2 = a2  four = four  eight = eight  reg = reg  demo = demo
    url1 = url1  nokey = nokey  key1 = key1
    Admins = {a1, a2}
    RuntimeValues = {four, eight}
    Toggles = {reg}
    Urls = {url1}
    Keys = {nokey, key1}
    Keep = Keep
    Nobody = Nobody
    Default <- Fresh
    MaxUpdates = 4
    MaxFaults = 1
    MaxCrashes = 1
INVARIANTS StoreInv UpstreamInStep
PROPERTIES KeyKept EveryUpdateAnswered
CHECK_DEADLOCK FALSE
