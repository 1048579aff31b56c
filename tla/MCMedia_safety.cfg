SPECIFICATION Spec
CONSTANTS
    f1 = f1
    f2 = f2
    f3 = f3
    r1 = r1
    r2 = r2
    r3 = r3
    Folders <- MCFolders
    Requests <- MCRequests
    Presigns = {"p"}
    Names = {"a", "b"}
    Null = Null
    Blank = Blank
    NoMedia = NoMedia
    Collections = 2
    Quotas <- MCQuotas
INVARIANTS
    TypeOK
    TreeIsSound
    PathsAreTrue
    BlobsAreExplained
    InUseIsKept
PROPERTY NothingLeftInDeletedFolder
SYMMETRY Symmetry
CHECK_DEADLOCK FALSE
