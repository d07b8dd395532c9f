\* A slow host, and a user who may cancel at any time.
SPECIFICATION Spec
CONSTANTS
    Rows = {secret, plain}
    Protected = {secret}
    secret = secret
    plain = plain
    NoRow = NoRow
    MaxOps = 2
    InFlight = 3
    CancelDuringUnlock = TRUE
INVARIANTS
    TypeOK
    NeverWedged
    DisabledMeansBusy
    Truthful
