SPECIFICATION Spec
CONSTANTS
    Subscribers = {s1, s2}
    MaxConns = 2
    MaxPublished = 2
    Window = 2
    ReusesFds = FALSE
    Resubscribes = FALSE
INVARIANTS InOrder NoCallAfterEnd
PROPERTIES Informed
CHECK_DEADLOCK FALSE
