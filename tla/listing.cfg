\* Three snippets, pages of one row, three loads, a desktop that edits twice.
SPECIFICATION Spec
CONSTANTS
    Snippets = {1, 2, 3}
    Texts <- MCTexts
    CategoryOf <- MCCategoryOf
    Queries <- MCQueries
    Categories = {"all", "one"}
    All = "all"
    PageSize = 1
    MaxLoads = 3
    MaxEdits = 2
INVARIANTS
    ListOK
    RowsMatchFilter
    RowsArePrefix
    DriftIsBounded
PROPERTIES
    LoadEnds
