\* A user who cancels while the unlock is on its way.
SPECIFICATION Spec
CONSTANTS
    Rows = {secret, plain}
    Protected = {secret}
    secret = secret
    plain = plain
    NoRow = NoRow
    MaxOps = 3
    InFlight = 3
    CancelDuringUnlock = TRUE
PROPERTIES
    RetryIsOriginal
