\* Two hosts, files for both names and both hosts, lines that fit and one that never does.
SPECIFICATION Spec
CONSTANTS
    Hosts = {h1, h2}
    Files = {f1, f2, f3, f4}
    NoFile = NoFile
    MaxLog = 3
    Lines = {1, 2, 4}
    MaxLine = 2
    Inherited = 5
SYMMETRY Symmetry
INVARIANTS
    IInv
PROPERTIES
    GrowthIsBounded
