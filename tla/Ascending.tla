------------------------------- MODULE Ascending -------------------------------
(***************************************************************************)
(* A finite set of numbers in ascending order, for the code's sorts: the   *)
(* ORDER BY of list_snippets and list_categories (native-host/src/db.rs)   *)
(* and the sort of sanitize_categories (native-host/src/legacy.rs).        *)
(***************************************************************************)
EXTENDS Integers, FiniteSets

Before(s, found) == {t \in found : t < s}

\* The n-th has n - 1 before it.
Sorted(found) ==
    [n \in 1..Cardinality(found) |->
        CHOOSE s \in found : Cardinality(Before(s, found)) = n - 1]
==============================================================================
