\* Messages of up to two bits, and of three, which is too long; two of them and a torn one.
SPECIFICATION Spec
CONSTANTS
    Base = 2
    MaxRequest = 2
    Version = 1
    Arguments <- MCArguments
    MaxFrames = 2
INVARIANTS
    TypeOK
    NothingSkipped
PROPERTIES
    EveryFrameAnswered
    Refinement
\* The loop ends.
CHECK_DEADLOCK FALSE
