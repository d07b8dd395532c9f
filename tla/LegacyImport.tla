---------------------------- MODULE LegacyImport ----------------------------
(***************************************************************************)
(* What build_and_install and verify_imported (native-host/src/            *)
(* migration.rs) do with the rows of a legacy library, inside the one      *)
(* transaction that module Migration takes as a step: insert the           *)
(* categories, the snippets one by one and the settings, read everything   *)
(* back, and commit or roll back.                                          *)
(*                                                                         *)
(* Names are numbers, in the order they sort.  A raw category stands for   *)
(* its spelling; what normalize_category makes of it is given.  A theme is *)
(* its name and whether it is surrounded by spaces.                        *)
(***************************************************************************)
EXTENDS Integers, Sequences, FiniteSets, SequencesExt, Ascending

CONSTANTS
    Raw,         \* spellings of categories found in legacy files
    Normal,      \* normalize_category: the name, or Reserved (blank or "All")
    Width,       \* bits of an id (64 in the code)
    MaxSnippets  \* bound: snippets in snippets.json

Reserved == 0
Uncategorized == 9      \* "Uncategorized", which a category can also be named

ASSUME ImportAssumption ==
    /\ Normal \in [Raw -> Nat]
    /\ Width \in Nat \ {0}
    /\ MaxSnippets \in Nat

Absent == "absent"
Cipher == "cipher"      \* a protection record: hint, nonce and ciphertext
Empty == ""

\* What the parser accepts: it does not ask a protected snippet to have no
\* plaintext body, as the schema of the database does.
LegacySnippets == [id : 0..(2^Width - 1), category : Raw,
                   body : {Empty, "text"}, protection : {Absent, Cipher}]

\* config.json: its categories (in any order), theme and vault.
Themes == [name : {Empty, "Dark", "Nord"}, padded : BOOLEAN]
Configs == [categories : {<< >>} \cup {<<c>> : c \in Raw},
            theme : Themes, vault : {Absent, "vault"}]

VARIABLES
    snippets,    \* the parsed snippets.json
    config,      \* the parsed config.json
    step,        \* where the transaction is
    rows,        \* table snippets, in insertion order
    categories,  \* table categories, by sort_order
    settings     \* table app_config

inputs == <<snippets, config>>
tables == <<rows, categories, settings>>
vars == <<inputs, step, tables>>

NoSettings == [theme |-> Empty, vault |-> Absent]

Init ==
    /\ snippets \in UNION {[1..n -> LegacySnippets] : n \in 0..MaxSnippets}
    /\ config \in Configs
    /\ step = "begin"
    /\ rows = << >>
    /\ categories = << >>
    /\ settings = NoSettings

------------------------------------------------------------------------------
\* A plausible bug: an id that loses its top bit.
Truncated(id) == id % 2^(Width - 1)

\* s.id as i64: two's complement.
Signed(id) == IF id < 2^(Width - 1) THEN id ELSE id - 2^Width

\* canonical_category.
CanonicalCategory(raw) ==
    IF Normal[raw] = Reserved THEN Uncategorized ELSE Normal[raw]

\* sanitize_categories: normalized, without the reserved ones, once each,
\* sorted.
Sanitized(raws) ==
    Sorted({Normal[raws[n]] : n \in DOMAIN raws} \ {Reserved})

\* The configured categories, then those of the snippets.
CategorySource ==
    config.categories \o [n \in DOMAIN snippets |-> snippets[n].category]

\* An empty theme is replaced before the import (line 347), and one of spaces
\* only while inserting it (line 497).
Default(theme) == IF theme = [name |-> Empty, padded |-> FALSE]
                  THEN [name |-> "Dark", padded |-> FALSE] ELSE theme
Trimmed(theme) == [theme EXCEPT !.padded = FALSE]
StoredTheme(theme) == IF theme.name = Empty
                      THEN [name |-> "Dark", padded |-> FALSE]
                      ELSE Trimmed(theme)

Row(s, order) ==
    [id |-> Signed(s.id), category |-> CanonicalCategory(s.category),
     body |-> IF s.protection = Absent THEN s.body ELSE Empty,
     protection |-> s.protection, order |-> order]

------------------------------------------------------------------------------
\* An error rolls everything back; the temporary database is removed.
Rollback ==
    /\ step' = "rejected"
    /\ rows' = << >>
    /\ categories' = << >>
    /\ settings' = NoSettings
    /\ UNCHANGED inputs

InsertCategories ==
    /\ step = "begin"
    /\ categories' = Sanitized(CategorySource)
    /\ step' = "snippets"
    /\ UNCHANGED <<inputs, rows, settings>>

NextSnippet == snippets[Len(rows) + 1]
Taken == {rows[n].id : n \in DOMAIN rows}

\* A plausible bug: the row of a protected snippet is not protected.
InsertPlain ==
    /\ step = "snippets"
    /\ Len(rows) < Len(snippets)
    /\ IF Signed(NextSnippet.id) \in Taken
       THEN Rollback
       ELSE /\ rows' = Append(rows, [Row(NextSnippet, Len(rows)) EXCEPT
                                         !.protection = Absent])
            /\ UNCHANGED <<inputs, step, categories, settings>>

\* id is the primary key.
InsertSnippet ==
    /\ step = "snippets"
    /\ Len(rows) < Len(snippets)
    /\ IF Signed(NextSnippet.id) \in Taken
       THEN Rollback
       ELSE /\ rows' = Append(rows, Row(NextSnippet, Len(rows)))
            /\ UNCHANGED <<inputs, step, categories, settings>>

InsertSettings ==
    /\ step = "snippets"
    /\ Len(rows) = Len(snippets)
    /\ settings' = [theme |-> StoredTheme(Default(config.theme)),
                    vault |-> config.vault]
    /\ step' = "verify"
    /\ UNCHANGED <<inputs, rows, categories>>

\* verify_imported reads each snippet back by its id.
RowMatches(s) ==
    \E n \in DOMAIN rows :
        /\ rows[n].id = Signed(s.id)
        /\ rows[n].category = CanonicalCategory(s.category)
        /\ rows[n].protection = s.protection
        /\ rows[n].body = IF s.protection = Absent THEN s.body ELSE Empty

ThemeMatches(theme) ==
    \/ settings.theme = theme
    \/ theme.name = Empty /\ settings.theme.name = "Dark"

Verified ==
    /\ Len(rows) = Len(snippets)
    /\ \A n \in DOMAIN snippets : RowMatches(snippets[n])
    /\ categories = Sanitized(CategorySource)
    /\ ThemeMatches(Default(config.theme))
    /\ settings.vault = config.vault

Verify ==
    /\ step = "verify"
    /\ IF Verified THEN step' = "committed" /\ UNCHANGED <<inputs, tables>>
       ELSE Rollback

Next == InsertCategories \/ InsertSnippet \/ InsertSettings \/ Verify

Spec == Init /\ [][Next]_vars

------------------------------------------------------------------------------
\* list_categories (db.rs), over the library that was committed: the table's
\* categories in their order, then those that only snippets have.
Count(name) == Cardinality({n \in DOMAIN rows : rows[n].category = name})
Listed == [n \in DOMAIN categories |->
              [name |-> categories[n], count |-> Count(categories[n])]]
Unlisted == {rows[n].category : n \in DOMAIN rows} \ ToSet(categories)
Missing == [n \in DOMAIN Sorted(Unlisted) |->
               [name |-> Sorted(Unlisted)[n], count |-> Count(Sorted(Unlisted)[n])]]

\* A plausible bug: only the table is asked.
MenuOfTable == Listed

Menu == Listed \o Missing

------------------------------------------------------------------------------
DistinctIds == \A m, n \in DOMAIN snippets :
                   m # n => snippets[m].id # snippets[n].id

\* What the library is to be, said without the code's helpers: each snippet at
\* its place, under an id of its own, with its category (or "Uncategorized")
\* and its ciphertext or, if it is not protected, its text (what text stands
\* next to a ciphertext is dropped, line 471); each category once, sorted; the
\* vault as it was.
Faithful ==
    /\ DOMAIN rows = DOMAIN snippets
    /\ \A n \in DOMAIN snippets :
           /\ rows[n].order = n - 1
           /\ (rows[n].id - snippets[n].id) % 2^Width = 0
           /\ rows[n].category = IF Normal[snippets[n].category] = Reserved
                                 THEN Uncategorized
                                 ELSE Normal[snippets[n].category]
           /\ rows[n].protection = snippets[n].protection
           /\ snippets[n].protection = Absent => rows[n].body = snippets[n].body
           /\ snippets[n].protection # Absent => rows[n].body = Empty
    /\ \A m, n \in DOMAIN categories : m < n => categories[m] < categories[n]
    /\ {categories[n] : n \in DOMAIN categories} =
           {Normal[c] : c \in {CategorySource[n] : n \in DOMAIN CategorySource}}
               \ {Reserved}
    /\ settings.vault = config.vault

\* What is committed is the user's library, the ids that do not fit the signed
\* column included, and no plaintext of a protected snippet: verification lets
\* nothing else through.
CommittedIsFaithful == step = "committed" => Faithful

\* The import itself is refused for two reasons only: two snippets share an id,
\* or the theme has spaces around it.  No id, category or protection makes
\* verification refuse what it was given.
RefusedForAReason ==
    step = "rejected" =>
        \/ ~DistinctIds
        \/ config.theme.padded /\ config.theme.name # Empty

\* "Valid legacy JSON imported, verified, installed, sources backed up"
\* (migration.rs:248): a library whose ids are distinct is imported.
ValidIsImported == step = "rejected" => ~DistinctIds

\* Every snippet of the library can be found through exactly one entry of the
\* category menu, and the counts shown add up to the library (as many as the
\* places counted, entry by entry): none is hidden by a category the
\* configuration does not name, "Uncategorized" included.
MenuCoversRows ==
    step = "committed" =>
        /\ \A n \in DOMAIN rows :
               Cardinality({k \in DOMAIN Menu : Menu[k].name = rows[n].category}) = 1
        /\ Cardinality(UNION {{k} \X (1..Menu[k].count) : k \in DOMAIN Menu}) = Len(rows)
==============================================================================
