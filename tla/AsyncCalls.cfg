SPECIFICATION AsyncFairSpec
CONSTANTS
    Kinds = {"callback", "future", "wait"}
    AppOps = {"cancel", "disconnect"}
    Answers = {"answer", "mismatch", "ping", "garbage"}
    MaxCalls = 2
    MaxAppOps = 1
    MaxPings = 1
INVARIANTS EndedOnce
PROPERTIES CallsEnd
CHECK_DEADLOCK FALSE
