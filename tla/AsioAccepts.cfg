SPECIFICATION FairSpec
CONSTANTS
    Sessions = {s1, s2, s3, s4, s5, s6}
    Limit = 2
    Faults = {"peerGone", "acceptError", "restart"}
INVARIANTS OneAccept LimitHolds
PROPERTIES AcceptsAgain CloseEnds
