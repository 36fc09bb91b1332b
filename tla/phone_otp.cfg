SPECIFICATION Spec
CONSTANTS
    Rows = {r1, r2, r3}
    Workers = {w1, w2}
    Cooldown = 1
    Hour = 2
    HourlyLimit = 2
    OtpTtl = 1
    TokenTtl = 2
    MaxAttempts = 1
    Horizon = 3
    TriesCap = 2
    MaxParallel = 2
SYMMETRY Symmetry
INVARIANTS
    OverSentByInFlight
    SpacedSerially
    TriesCountedSerially
    FirstEntryInTime
CHECK_DEADLOCK FALSE
