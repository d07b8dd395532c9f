--------------------------- MODULE MCLegacyImport ---------------------------
(***************************************************************************)
(* Small instances of LegacyImport: two spellings of one category, another *)
(* one, "Uncategorized" itself and the reserved "All"; ids of two bits.    *)
(***************************************************************************)
EXTENDS LegacyImport

MCNormal == [c \in {"git", "GIT", "prompt", "uncategorized", "all"} |->
                CASE c \in {"git", "GIT"} -> 2
                  [] c = "prompt" -> 3
                  [] c = "uncategorized" -> Uncategorized
                  [] c = "all" -> Reserved]
==============================================================================
