SPECIFICATION MCSpec
CONSTANTS
    Ids = {"a", "b", "c", "jobs"}
    NoId = NoId
    Tables = {"log", "tokens", "media"}
    Jobs = {"publish", "notify", "sweep", "cleanup"}
    Arrays <- MCArrays
    Names = {"x", "y"}
    Admins = {w1, w2}
    MaxChanges = 3
    Removable = TRUE
    Procs = {w1, w2}
    Consenting = {w1}
    Features = {1, 2}
    Faults = {"crash", "interrupt"}
    MaxEdits = 3
    MaxApplies = 3
    MaxSeconds = 1
    Lefts = {1}
    Rights = {2, 3}
    Clerks = {w1, w2}
    Bodies <- MCBodies
    MaxCalls = 3
    Documents = {1, 2, 3}
    NRelations = 2
    Lists <- MCLists
    Listed = {1, 2}
    MaxNodes = 3
    MaxDepth = 2
    MaxAsked = 3
    FilteredRows = {1, 2}
    Numbers = {0, 1}
    Dates = {1, 2}
    Queries <- MCQueries
    Declarable = {1, 2}
    Duties = {w1, w2}
    MaxSaves = 2
    MaxStarts = 2
INVARIANTS
    TypeOK
    SortIsRight
    InstallIsOrdered
    BootIsWhole
    TypesAreSound
    AppliesAreSound
    LinksAreTheLastList
    PopulateHoldsItsLimits
    AdaptersDifferAsNamed
    DevServerKeepsUp
CHECK_DEADLOCK FALSE
