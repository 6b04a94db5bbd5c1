SPECIFICATION FtSpec
CONSTANTS
    Clients = {a, b}
    NumTokens = 2
    SweepFrom = 2
    StaleDeletes = FALSE
    MaxObjects = 3
    Chunks = 2
    SameNames = FALSE
    Reconnecting = {a}
    MaxUploads = 2
    MaxFailing = 1
INVARIANTS OneHolder Reachable UploadIntact
PROPERTIES TokensReturn
CHECK_DEADLOCK FALSE
