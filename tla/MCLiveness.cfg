SPECIFICATION SumFairSpec
CONSTANTS
    Queries = {"a", "b"}
    Records = {1, 2, 3}
    Matching <- Searches
    Profiles <- Profiled
    NoRecord = 0
    PageSize = 1
    MaxChanges = 1
    MaxTurns = 1
    MaxMoves = 2
    MaxMishaps = 1
    Nil = Nil  t1 = t1  k1 = k1  k2 = k2  n1 = n1  c1 = c1  c2 = c2
INVARIANTS
    NothingWaitsInVain AllShown
PROPERTIES
    EveryWaitEnds ListsSettle RecordsPaged CommunityPaged
CHECK_DEADLOCK FALSE
