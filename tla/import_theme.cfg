\* A library of at most one snippet, whatever the theme.
SPECIFICATION Spec
CONSTANTS
    Raw = {"git", "GIT", "prompt", "uncategorized", "all"}
    Normal <- MCNormal
    Width = 2
    MaxSnippets = 1
\* The transaction ends.
CHECK_DEADLOCK FALSE
INVARIANTS
    ValidIsImported
