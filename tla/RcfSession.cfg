SPECIFICATION UnmixedSpec
CONSTANTS
    Workers = {w1, w2}
    App = app
    Pinger = pinger
    NoThread = none
    HasPingBackService = TRUE
    PeerKinds = {"oneway", "twoway", "pinged", "callback", "convert", "mismatch", "close"}
    AmdThrows = FALSE
    MaxRequests = 2
    MaxEntries = 3
INVARIANTS IoStateAssertions OneOperation ServantQuiet CallbackAfterReply
PROPERTIES ExchangeSpec HeapDrains ServesEveryRequest
CHECK_DEADLOCK FALSE
