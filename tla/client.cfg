\* Three requests, two ports, arbitrary messages.
SPECIFICATION Spec
CONSTANTS
    Ids = {i1, i2, i3}
    Ports = {c1, c2}
    i1 = i1
    i2 = i2
    i3 = i3
    c1 = c1
    c2 = c2
    NoPort = NoPort
    NoId = NoId
INVARIANTS
    IInv
    AnsweredByItsHost
PROPERTIES
    SettledOnce
    EveryRequestSettles
