SPECIFICATION Spec
CONSTANTS
    Sessions = {s1, s2}
    Intervals = {1, 3}
    Modulus = 21
    Second = 2
    Slack = 1
    RebaseAfter = 3
    MaxDelay = 1
    PromptSessions = TRUE
INVARIANTS InTime CallHasEntry
SYMMETRY Symmetry
VIEW View
