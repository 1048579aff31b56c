SPECIFICATION PagingSpec
CONSTANTS
    Ids = {1, 2, 3}
    PageSize = 1
    MaxClock = 2
    PerHour = 2
    NoCursor = NoCursor
    Walks = {"id"}
INVARIANT WalkIsComplete
CHECK_DEADLOCK FALSE
