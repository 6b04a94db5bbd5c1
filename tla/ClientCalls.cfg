SPECIFICATION FairSpec
CONSTANTS
    Kinds = {"twoway", "oneway"}
    Connects = "clean"
    UseFilters = TRUE
    MessageFilters = FALSE
    Pinged = TRUE
    AutoVersioning = TRUE
    ClientVersion = 6
    ServerVersion = 5
    MaxCalls = 2
    MaxConns = 2
    MaxPings = 1
INVARIANTS StreamClean FiltersAgree
PROPERTIES KeepsPromise CallsEnd
CHECK_DEADLOCK FALSE
