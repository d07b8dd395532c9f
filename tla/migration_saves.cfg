\* Two processes, and an old desktop that saves without the lock.
SPECIFICATION Spec
CONSTANTS
    Procs = {p1, p2}
    Content = {good, bad, odd}
    Corrupt = {bad}
    Unimportable = {odd}
    DesktopWrites = {good}
    OldBackups = {good}
    BackupNames = {n1}
    p1 = p1
    p2 = p2
    good = good
    bad = bad
    odd = odd
    n1 = n1
    Absent = Absent
    Blank = Blank
    Tables = Tables
    NoOwner = NoOwner
SYMMETRY Symmetry
INVARIANTS
    IInv
    SeedOnlyWhenEmpty
    NothingUnique
PROPERTIES
    SourcesNeverLost
    Refinement
