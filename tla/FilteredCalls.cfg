SPECIFICATION FilterFairSpec
CONSTANTS
    Packages <- SomePackages
    Refusals = {0, 1, 3}
    Messages <- Shapes
    Transport = "iocp"
    MaxMessageLength = 3
    HeaderLen = 2
    TokenLen = 1
    StatusLen = 2
    ReadAhead = 5
    MaxCalls = 2
    MaxAborts = 1
INVARIANTS Delivered Agreement
PROPERTIES ExchangeEnds
CHECK_DEADLOCK FALSE
