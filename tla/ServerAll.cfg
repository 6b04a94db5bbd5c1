SPECIFICATION Spec
CONSTANTS
    Transport = transport
    Cleanup = cleanup
    Services <- TwoServices
    Callers = {c1, c2}
    Initial <- Both
    OwnFlag = {cleanup}
    Resets = {}
    Ops = {"start", "stop", "close", "remove", "runHere", "runHereJoined", "waitStart", "waitStop"}
INVARIANTS StartedIsOpen NoLostWakeUp
VIEW View
CHECK_DEADLOCK FALSE
