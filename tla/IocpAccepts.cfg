SPECIFICATION FairSpec
CONSTANTS
    Sessions = {s1, s2, s3, s4}
    Limit = 1
    Threshold = 2
    Augment = 2
    Modulus = 16
    Faults = {"denied", "throws", "converts", "held"}
    MaxFaults = 1
INVARIANTS LimitHolds
PROPERTIES AcceptsAgain StopReturns
CHECK_DEADLOCK FALSE
