\* A slow host, and a user who waits for the unlock.
SPECIFICATION Spec
CONSTANTS
    Rows = {secret, plain}
    Protected = {secret}
    secret = secret
    plain = plain
    NoRow = NoRow
    MaxOps = 2
    InFlight = 4
    CancelDuringUnlock = FALSE
INVARIANTS
    OneCopyAtATime
    MarksAreFeedback
PROPERTIES
    RetryIsOriginal
    CopyEnds
    UnlockEnds
