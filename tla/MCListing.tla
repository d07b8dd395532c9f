------------------------------ MODULE MCListing ------------------------------
(***************************************************************************)
(* Small instances of Listing: three snippets, two of them in one category *)
(* and two with a "_" in their text, in the title of one and the body of   *)
(* the other.                                                              *)
(***************************************************************************)
EXTENDS Listing

MCTexts == [s \in 1..3 |->
               CASE s = 1 -> {<<"a">>, <<"a", " ", "a">>}
                 [] s = 2 -> {<<"A", "_">>}
                 [] s = 3 -> {<<"a">>, <<"_", "a">>}]
MCQueries == {<< >>, <<" ", "_", " ">>}
MCCategoryOf == [s \in 1..3 |-> IF s = 3 THEN "other" ELSE "one"]

\* The search means what it says, for short queries and texts.
ASSUME SearchIsOccurrence == SearchMeans(2, 3)
==============================================================================
