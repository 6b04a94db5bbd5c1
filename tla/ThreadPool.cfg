SPECIFICATION FairSpec
CONSTANTS
    Threads = {t1, t2, t3}
    TargetCount = 1
    MaxCount = 2
    ReserveLast = TRUE
    Events = {"throws"}
    MaxStarts = 2
INVARIANTS SpareThread QuietAfterStop
PROPERTIES StopReturns
CHECK_DEADLOCK FALSE
