SPECIFICATION MCSpec
CONSTANTS
    p1 = p1  n2 = n2  r1 = r1
    LibraryCards = {r1}
    ProjectIds = {p1, p2}
    ProjectNames = {n1}
    Given = {n2}
    None = Nil
    LibraryActs = 2
    Prompts = {n1}
    Links = {r1}
    MaxReferences = 2
    Qualities = {q1}
    Backgrounds = {q1}
    Moderations = {q1}
    Formats = {q1}
    Compressions = {q1}
    MaxReads = 2
    MaxSubmits = 2
    MaxMoves = 2
    Pictures = {1, 2}
    Natural <- Sizes
    Viewports = {8, 16}
    ZoomStep = 4
    Drags <- Moved
    NoPicture = 0
    MaxResizes = 1
    MaxLosses = 1
    Ids = {r1, r2}
    NoRecord = Nil
    Skews <- Shifts
    MaxTime = 4
    StageActs = 2
    Names = {n1, n2}
    NoUser = Nil
    MaxEdits = 4
    MaxConfigs = 1
    AccountSubmits = 3
    Rows <- SevenPages
    Admins = {1}
    Matching <- Searches
    Start = "a"
    Cards = {"users", "records"}
    PageSize = 2
    Nobody = 0
    ListActs = 4
    Leaving = {2}
    MaxChanges = 1
    Keys = {n1}
    Models = {r1}
    Titles = {n1}
    Limits = {1, 2}
    Nothing = Nil
    SettingsActs = 4
    MaxFailures = 1
INVARIANTS
    ProjectsExist DraftIsValid LinkOpensOnce PanWithinLimits FormIsCurrent OneAttempt
    MarkedIsUnderWay PaginationIsTrue BusyWhileCalling
PROPERTIES ProgressNeverFalls
CHECK_DEADLOCK FALSE
