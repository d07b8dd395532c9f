\* Every library of up to two snippets with two-bit ids.
SPECIFICATION Spec
CONSTANTS
    Raw = {"git", "GIT", "prompt", "uncategorized", "all"}
    Normal <- MCNormal
    Width = 2
    MaxSnippets = 2
\* The transaction ends.
CHECK_DEADLOCK FALSE
INVARIANTS
    CommittedIsFaithful
    RefusedForAReason
    MenuCoversRows
