\* Two processes race for one directory; no old desktop is running;
\* every call returns.
SPECIFICATION Spec
CONSTANTS
    Procs = {p1, p2}
    Content = {good, bad, odd}
    Corrupt = {bad}
    Unimportable = {odd}
    DesktopWrites = {}
    OldBackups = {}
    BackupNames = {n1}
    p1 = p1
    p2 = p2
    good = good
    bad = bad
    odd = odd
    n1 = n1
    Absent = Absent
    Blank = Blank
    Tables = Tables
    NoOwner = NoOwner
INVARIANTS
    LibraryComplete
PROPERTIES
    InstallOnce
    EveryCallReturns
