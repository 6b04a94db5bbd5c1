SPECIFICATION FairSpec
CONSTANTS
    Transport = transport
    Cleanup = cleanup
    Services <- TwoServices
    Callers = {c1, c2, c3}
    Initial <- First
    OwnFlag = {cleanup}
    Resets = {cleanup}
    Ops = {"open", "start", "stop", "close", "add"}
INVARIANTS QuietWhenStopped ServicesRun
PROPERTIES CallsReturn
VIEW View
CHECK_DEADLOCK FALSE
