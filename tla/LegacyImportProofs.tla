-------------------------- MODULE LegacyImportProofs --------------------------
(***************************************************************************)
(* Proofs about module LegacyImport, for any categories and normalization, *)
(* any width of an id and any number of snippets.                          *)
(***************************************************************************)
EXTENDS LegacyImport, FiniteSetTheorems, SequenceTheorems, TLAPS

------------------------------------------------------------------------------
\* Sets of numbers, in ascending order.

\* A greater member has more before it, and each has fewer than there are.
LEMMA RankGrows ==
    ASSUME NEW found \in SUBSET Nat, IsFiniteSet(found)
    PROVE  /\ Cardinality(found) \in Nat
           /\ \A s \in found : Cardinality(Before(s, found)) \in 0..(Cardinality(found) - 1)
           /\ \A s, t \in found : s < t =>
                  Cardinality(Before(s, found)) < Cardinality(Before(t, found))
<1>1. ASSUME NEW s \in found
      PROVE  /\ IsFiniteSet(Before(s, found))
             /\ Cardinality(Before(s, found)) \in Nat
             /\ Cardinality(Before(s, found) \cup {s}) = Cardinality(Before(s, found)) + 1
  <2>1. Before(s, found) \in SUBSET found /\ s \notin Before(s, found)
    BY DEF Before
  <2>2. IsFiniteSet(Before(s, found))
    BY <2>1, FS_Subset
  <2> QED
    BY <2>1, <2>2, FS_AddElement, FS_CardinalityType
<1>2. Cardinality(found) \in Nat
  BY FS_CardinalityType
<1>3. ASSUME NEW s \in found
      PROVE  Cardinality(Before(s, found)) \in 0..(Cardinality(found) - 1)
  <2>1. Before(s, found) \cup {s} \in SUBSET found
    BY DEF Before
  <2>2. Cardinality(Before(s, found) \cup {s}) <= Cardinality(found)
    BY <2>1, FS_Subset
  <2> QED
    BY <1>1, <1>2, <2>2
<1>4. ASSUME NEW s \in found, NEW t \in found, s < t
      PROVE  Cardinality(Before(s, found)) < Cardinality(Before(t, found))
  <2>1. Before(s, found) \cup {s} \in SUBSET Before(t, found)
    <3>1. \A u \in found : u \in Nat /\ s \in Nat /\ t \in Nat /\ (u < s => u < t)
      BY <1>4
    <3> QED
      BY <1>4, <3>1 DEF Before
  <2>2. Cardinality(Before(s, found) \cup {s}) <= Cardinality(Before(t, found))
    BY <1>1, <2>1, FS_Subset
  <2>3. /\ Cardinality(Before(s, found)) \in Nat /\ Cardinality(Before(t, found)) \in Nat
        /\ Cardinality(Before(s, found) \cup {s}) = Cardinality(Before(s, found)) + 1
    BY <1>1
  <2> QED
    BY <2>2, <2>3
<1> QED
  BY <1>2, <1>3, <1>4

LEMMA RanksDiffer ==
    ASSUME NEW found \in SUBSET Nat, IsFiniteSet(found),
           NEW s \in found, NEW t \in found,
           Cardinality(Before(s, found)) = Cardinality(Before(t, found))
    PROVE  s = t
<1> SUFFICES ASSUME s # t PROVE FALSE
  OBVIOUS
<1>1. s < t \/ t < s
  OBVIOUS
<1>2. Cardinality(Before(s, found)) \in Nat
  BY RankGrows
<1> QED
  BY <1>1, <1>2, RankGrows

\* So there is an n-th for each n up to their number.
LEMMA NthExists ==
    ASSUME NEW found \in SUBSET Nat, IsFiniteSet(found),
           NEW n \in 1..Cardinality(found)
    PROVE  \E s \in found : Cardinality(Before(s, found)) = n - 1
<1> DEFINE places == 1..Cardinality(found)
           rank == [s \in found |-> Cardinality(Before(s, found)) + 1]
<1>1. /\ Cardinality(found) \in Nat
      /\ IsFiniteSet(places)
      /\ Cardinality(places) = Cardinality(found)
  <2>1. Cardinality(found) \in Nat
    BY RankGrows
  <2> QED
    BY <2>1, FS_Interval
<1>2. rank \in Injection(found, places)
  <2>1. rank \in [found -> places]
    BY RankGrows
  <2>2. \A s, t \in found : rank[s] = rank[t] => s = t
    BY RankGrows, RanksDiffer
  <2> QED
    BY <2>1, <2>2 DEF Injection, IsInjective
<1>3. rank \in Surjection(found, places)
  BY <1>1, <1>2, FS_Injection
<1>4. PICK s \in found : rank[s] = n
  BY <1>3 DEF Surjection
<1>5. Cardinality(Before(s, found)) \in Nat
  BY RankGrows
<1> QED
  BY <1>4, <1>5

\* A sorted set: ascending, and its members.
LEMMA SortedProperties ==
    ASSUME NEW found \in SUBSET Nat, IsFiniteSet(found)
    PROVE  /\ DOMAIN Sorted(found) = 1..Cardinality(found)
           /\ Cardinality(found) \in Nat
           /\ Sorted(found) \in Seq(Nat)
           /\ \A n \in DOMAIN Sorted(found) : Sorted(found)[n] \in found
           /\ \A m, n \in DOMAIN Sorted(found) :
                  m < n => Sorted(found)[m] < Sorted(found)[n]
           /\ \A s \in found : \E n \in DOMAIN Sorted(found) : Sorted(found)[n] = s
<1>1. /\ Cardinality(found) \in Nat
      /\ DOMAIN Sorted(found) = 1..Cardinality(found)
  BY RankGrows DEF Sorted
<1>2. ASSUME NEW n \in 1..Cardinality(found)
      PROVE  /\ Sorted(found)[n] \in found
             /\ Cardinality(Before(Sorted(found)[n], found)) = n - 1
  <2>1. \E s \in found : Cardinality(Before(s, found)) = n - 1
    BY NthExists
  <2> QED
    BY <2>1 DEF Sorted
<1>3. Sorted(found) \in Seq(Nat)
  <2>1. Sorted(found) \in [1..Cardinality(found) -> Nat]
    BY <1>2 DEF Sorted
  <2> QED
    BY <1>1, <2>1, SeqDef
<1>4. ASSUME NEW m \in 1..Cardinality(found), NEW n \in 1..Cardinality(found), m < n
      PROVE  Sorted(found)[m] < Sorted(found)[n]
  <2> DEFINE s == Sorted(found)[m]
             t == Sorted(found)[n]
  <2>1. s \in found /\ t \in found /\ Cardinality(Before(s, found)) = m - 1
        /\ Cardinality(Before(t, found)) = n - 1
    BY <1>2
  <2> HIDE DEF s, t
  <2>2. s # t /\ ~(t < s)
    BY <1>1, <1>4, <2>1, RankGrows
  <2>3. s < t
    BY <2>1, <2>2
  <2> QED
    BY <2>3 DEF s, t
<1>5. ASSUME NEW s \in found
      PROVE  \E n \in 1..Cardinality(found) : Sorted(found)[n] = s
  <2>1. PICK n \in 1..Cardinality(found) : n = Cardinality(Before(s, found)) + 1
    BY <1>1, RankGrows
  <2>2. PICK t : t = Sorted(found)[n]
    OBVIOUS
  <2>3. t \in found /\ Cardinality(Before(t, found)) = n - 1
    BY <1>2, <2>2
  <2>4. Cardinality(Before(s, found)) \in Nat
    BY RankGrows
  <2>5. ~(s < t) /\ ~(t < s)
    BY <2>1, <2>3, <2>4, RankGrows
  <2>6. s = t
    BY <2>3, <2>5
  <2> QED
    BY <2>2, <2>6
<1> QED
  BY <1>1, <1>2, <1>3, <1>4, <1>5

------------------------------------------------------------------------------
\* What is imported.

\* 2^n counts the subsets of 1..n, and there is one at least.
LEMMA PowersOfTwo ==
    ASSUME NEW n \in Nat
    PROVE  2^n \in Nat \ {0}
<1>1. IsFiniteSet(1..n) /\ Cardinality(1..n) = n
  BY FS_Interval
<1>2. IsFiniteSet(SUBSET (1..n)) /\ Cardinality(SUBSET (1..n)) = 2^n
  BY <1>1, FS_SUBSET
<1>3. Cardinality(SUBSET (1..n)) \in Nat
  BY <1>2, FS_CardinalityType
<1>4. SUBSET (1..n) # {}
  OBVIOUS
<1>5. Cardinality(SUBSET (1..n)) # 0
  BY <1>2, <1>4, FS_EmptySet
<1> QED
  BY <1>2, <1>3, <1>5

\* The cast of an id to a signed column loses nothing: it is the same number
\* modulo 2^Width, and no two ids become one.
LEMMA SignedProperties ==
    /\ \A i \in 0..(2^Width - 1) : /\ Signed(i) \in Int
                                   /\ (Signed(i) - i) % 2^Width = 0
    /\ \A i, j \in 0..(2^Width - 1) : Signed(i) = Signed(j) => i = j
<1>1. PICK w \in Nat \ {0} : w = 2^Width
  BY ImportAssumption, PowersOfTwo
<1>2. PICK h \in Nat \ {0} : h = 2^(Width - 1)
  <2>1. Width - 1 \in Nat
    BY ImportAssumption
  <2> QED
    BY <2>1, PowersOfTwo
<1>3. \A i : Signed(i) = IF i < h THEN i ELSE i - w
  BY <1>1, <1>2 DEF Signed
<1>4. 0 % w = 0 /\ (-w) % w = 0
  OBVIOUS
<1>5. \A i \in 0..(w - 1) : Signed(i) \in Int /\ (Signed(i) - i = 0 \/ Signed(i) - i = -w)
  BY <1>3
<1>6. \A i \in 0..(w - 1) : (Signed(i) - i) % w = 0
  BY <1>4, <1>5
<1>7. \A i, j \in 0..(w - 1) : Signed(i) = Signed(j) => i = j
  BY <1>3
<1> QED
  BY <1>1, <1>5, <1>6, <1>7

LEMMA SnippetType ==
    ASSUME NEW s \in LegacySnippets
    PROVE  /\ s.id \in 0..(2^Width - 1)
           /\ s.category \in Raw
           /\ s.body \in {Empty, "text"}
           /\ s.protection \in {Absent, Cipher}
BY DEF LegacySnippets

AnyRow == [id : Int, category : Nat, body : {Empty, "text"},
           protection : {Absent, Cipher}, order : Nat]

LEMMA RowType ==
    ASSUME NEW s \in LegacySnippets, NEW order \in Nat
    PROVE  Row(s, order) \in AnyRow
<1>1. Signed(s.id) \in Int
  BY SnippetType, SignedProperties
<1>2. CanonicalCategory(s.category) \in Nat
  BY SnippetType, ImportAssumption DEF CanonicalCategory, Uncategorized
<1>3. /\ s.body \in {Empty, "text"}
      /\ s.protection \in {Absent, Cipher}
  BY SnippetType
<1> QED
  BY <1>1, <1>2, <1>3 DEF Row, AnyRow

\* The members of a sequence, without some, are finitely many.
LEMMA NamesAreFinite ==
    ASSUME NEW names \in Seq(Nat), NEW without
    PROVE  /\ IsFiniteSet({names[n] : n \in DOMAIN names} \ without)
           /\ {names[n] : n \in DOMAIN names} \ without \in SUBSET Nat
<1> DEFINE all == {names[n] : n \in DOMAIN names}
<1>1. DOMAIN names = 1..Len(names) /\ Len(names) \in Nat
  BY LenProperties
<1>2. IsFiniteSet(DOMAIN names)
  BY <1>1, FS_Interval
<1>3. names \in Surjection(DOMAIN names, all)
  BY <1>1 DEF Surjection
<1>4. IsFiniteSet(all)
  BY <1>2, <1>3, FS_Surjection
<1>5. all \in SUBSET Nat
  BY <1>1, ElementOfSeq
<1> QED
  BY <1>4, <1>5, FS_Subset

\* sanitize_categories: ascending, and the names without the reserved ones.
LEMMA SanitizedProperties ==
    ASSUME NEW raws \in Seq(Raw)
    PROVE  /\ Sanitized(raws) \in Seq(Nat)
           /\ \A m, n \in DOMAIN Sanitized(raws) :
                  m < n => Sanitized(raws)[m] < Sanitized(raws)[n]
           /\ \A x : (\E n \in DOMAIN Sanitized(raws) : Sanitized(raws)[n] = x)
                        <=> x # Reserved /\ \E n \in DOMAIN raws : Normal[raws[n]] = x
<1> DEFINE names == [n \in DOMAIN raws |-> Normal[raws[n]]]
           found == {Normal[raws[n]] : n \in DOMAIN raws} \ {Reserved}
<1>1. names \in Seq(Nat)
  <2>1. DOMAIN raws = 1..Len(raws) /\ Len(raws) \in Nat
    BY LenProperties
  <2>2. \A n \in 1..Len(raws) : raws[n] \in Raw
    BY ElementOfSeq
  <2>3. names \in [1..Len(raws) -> Nat]
    BY <2>1, <2>2, ImportAssumption
  <2> QED
    BY <2>1, <2>3, SeqDef
<1>2. found = {names[n] : n \in DOMAIN names} \ {Reserved}
  OBVIOUS
<1>3. IsFiniteSet(found) /\ found \in SUBSET Nat
  BY <1>1, <1>2, NamesAreFinite
<1>4. Sanitized(raws) = Sorted(found)
  BY DEF Sanitized
<1>5. \A x : x \in found <=> x # Reserved /\ \E n \in DOMAIN raws : Normal[raws[n]] = x
  OBVIOUS
<1> HIDE DEF names, found
<1>6. PICK sorted : sorted = Sorted(found)
  OBVIOUS
<1>7. /\ sorted \in Seq(Nat)
      /\ \A m, n \in DOMAIN sorted : m < n => sorted[m] < sorted[n]
      /\ \A n \in DOMAIN sorted : sorted[n] \in found
      /\ \A s \in found : \E n \in DOMAIN sorted : sorted[n] = s
  BY <1>3, <1>6, SortedProperties
<1>8. \A x : (\E n \in DOMAIN sorted : sorted[n] = x) <=> x \in found
  BY <1>7
<1> QED
  BY <1>4, <1>5, <1>6, <1>7, <1>8

------------------------------------------------------------------------------
\* The inductive invariant.

Types ==
    /\ snippets \in Seq(LegacySnippets)
    /\ config \in Configs
    /\ step \in {"begin", "snippets", "verify", "committed", "rejected"}

\* The rows are those of the first snippets, each under an id of its own.
RowsAreInserted ==
    /\ rows \in Seq(AnyRow)
    /\ Len(rows) <= Len(snippets)
    /\ \A n \in 1..Len(rows) : rows[n] = Row(snippets[n], n - 1)
    /\ \A m, n \in 1..Len(rows) : m # n => rows[m].id # rows[n].id

CategoriesAreInserted ==
    categories = IF step \in {"begin", "rejected"} THEN << >>
                 ELSE Sanitized(CategorySource)

SettingsAreInserted ==
    step \in {"verify", "committed"} =>
        /\ Len(rows) = Len(snippets)
        /\ settings = [theme |-> StoredTheme(Default(config.theme)),
                       vault |-> config.vault]

Inv ==
    /\ Types
    /\ RowsAreInserted
    /\ CategoriesAreInserted
    /\ SettingsAreInserted
    /\ RefusedForAReason

\* A library whose ids are distinct has distinct rows: only equal ids make the
\* primary key refuse a snippet.
LEMMA TakenIsEqual ==
    ASSUME Types, RowsAreInserted, Len(rows) < Len(snippets),
           Signed(NextSnippet.id) \in Taken
    PROVE  ~DistinctIds
<1>1. PICK n \in 1..Len(rows) : rows[n].id = Signed(NextSnippet.id)
  <2>1. DOMAIN rows = 1..Len(rows)
    BY LenProperties DEF RowsAreInserted
  <2> QED
    BY <2>1 DEF Taken
<1>2. PICK m : m = Len(rows) + 1
  OBVIOUS
<1>3. /\ DOMAIN snippets = 1..Len(snippets) /\ Len(snippets) \in Nat
      /\ Len(rows) \in Nat
  BY LenProperties DEF Types, RowsAreInserted
<1>4. m \in DOMAIN snippets /\ n \in DOMAIN snippets /\ m # n
  BY <1>2, <1>3
<1>5. rows[n].id = Signed(snippets[n].id)
  <2>1. rows[n] = Row(snippets[n], n - 1)
    BY <1>1 DEF RowsAreInserted
  <2> QED
    BY <2>1 DEF Row
<1>6. snippets[m] \in LegacySnippets /\ snippets[n] \in LegacySnippets
  BY <1>3, <1>4, ElementOfSeq DEF Types
<1>7. snippets[m].id = snippets[n].id
  <2>1. /\ snippets[m].id \in 0..(2^Width - 1)
        /\ snippets[n].id \in 0..(2^Width - 1)
    BY <1>6, SnippetType
  <2>2. Signed(snippets[m].id) = Signed(snippets[n].id)
    BY <1>1, <1>2, <1>5 DEF NextSnippet
  <2> QED
    BY <2>1, <2>2, SignedProperties
<1> QED
  BY <1>4, <1>7 DEF DistinctIds

\* Verification refuses nothing but a theme with spaces around it.
LEMMA VerifiedUnlessPadded ==
    ASSUME Inv, step = "verify"
    PROVE  Verified \/ (config.theme.padded /\ config.theme.name # Empty)
<1>1. Len(rows) = Len(snippets)
  BY DEF Inv, SettingsAreInserted
<1>2. ASSUME NEW n \in DOMAIN snippets
      PROVE  RowMatches(snippets[n])
  <2>1. n \in 1..Len(rows) /\ n \in DOMAIN rows
    BY <1>1, LenProperties DEF Inv, Types, RowsAreInserted
  <2>2. rows[n] = Row(snippets[n], n - 1)
    BY <2>1 DEF Inv, RowsAreInserted
  <2> QED
    BY <2>1, <2>2 DEF RowMatches, Row
<1>3. categories = Sanitized(CategorySource)
  BY DEF Inv, CategoriesAreInserted
<1>4. settings.vault = config.vault
  BY DEF Inv, SettingsAreInserted
<1>5. config.theme \in Themes
  BY DEF Inv, Types, Configs
<1>6. ASSUME ~config.theme.padded \/ config.theme.name = Empty
      PROVE  ThemeMatches(Default(config.theme))
  <2>1. settings.theme = StoredTheme(Default(config.theme))
    BY DEF Inv, SettingsAreInserted
  <2>2. CASE config.theme.name = Empty
    <3>1. Default(config.theme).name = Empty \/ Default(config.theme) = [name |-> "Dark", padded |-> FALSE]
      BY <2>2, <1>5 DEF Default
    <3>2. StoredTheme([name |-> "Dark", padded |-> FALSE]) = [name |-> "Dark", padded |-> FALSE]
      BY DEF StoredTheme, Trimmed, Empty
    <3> QED
      BY <2>1, <3>1, <3>2 DEF ThemeMatches, StoredTheme
  <2>3. CASE config.theme.name # Empty
    <3>1. Default(config.theme) = config.theme
      BY <2>3 DEF Default
    <3>2. config.theme.padded = FALSE
      BY <1>5, <1>6, <2>3 DEF Themes
    <3>3. Trimmed(config.theme) = config.theme
      BY <1>5, <3>2 DEF Trimmed, Themes
    <3> QED
      BY <2>1, <2>3, <3>1, <3>3 DEF ThemeMatches, StoredTheme
  <2> QED
    BY <2>2, <2>3
<1>7. ASSUME ~config.theme.padded \/ config.theme.name = Empty
      PROVE  Verified
  BY <1>1, <1>2, <1>3, <1>4, <1>6, <1>7 DEF Verified
<1>8. config.theme.padded \in BOOLEAN
  BY <1>5 DEF Themes
<1> QED
  BY <1>7, <1>8

LEMMA InvInit == Init => Inv
<1> SUFFICES ASSUME Init PROVE Inv
  OBVIOUS
<1>1. Types
  <2>1. PICK n \in 0..MaxSnippets : snippets \in [1..n -> LegacySnippets]
    BY DEF Init
  <2>2. snippets \in Seq(LegacySnippets)
    BY <2>1, SeqDef
  <2> QED
    BY <2>2 DEF Init, Types
<1>2. RowsAreInserted
  <2>1. rows = << >> /\ Len(rows) = 0 /\ rows \in Seq(AnyRow)
    BY DEF Init
  <2>2. Len(snippets) \in Nat
    BY <1>1, LenProperties DEF Types
  <2> QED
    BY <2>1, <2>2 DEF RowsAreInserted
<1> QED
  BY <1>1, <1>2 DEF Init, Inv, CategoriesAreInserted, SettingsAreInserted, RefusedForAReason

\* A rollback leaves empty tables, and is for a reason.
LEMMA RollbackKeepsInv ==
    ASSUME Inv, Rollback, ~DistinctIds \/ (config.theme.padded /\ config.theme.name # Empty)
    PROVE  Inv'
<1>1. snippets' = snippets /\ config' = config /\ step' = "rejected"
      /\ rows' = << >> /\ categories' = << >>
  BY DEF Rollback, inputs
<1>2. Types'
  BY <1>1 DEF Inv, Types
<1>3. RowsAreInserted'
  <2>1. Len(rows') = 0 /\ rows' \in Seq(AnyRow)
    BY <1>1
  <2>2. Len(snippets') \in Nat
    BY <1>2, LenProperties DEF Types
  <2> QED
    BY <2>1, <2>2 DEF RowsAreInserted
<1>4. CategoriesAreInserted' /\ SettingsAreInserted'
  BY <1>1 DEF CategoriesAreInserted, SettingsAreInserted
<1>5. RefusedForAReason'
  BY <1>1 DEF RefusedForAReason, DistinctIds
<1> QED
  BY <1>2, <1>3, <1>4, <1>5 DEF Inv

LEMMA InsertCategoriesKeepsInv ==
    ASSUME Inv, InsertCategories
    PROVE  Inv'
<1>1. UNCHANGED <<snippets, config, rows>> /\ step' = "snippets"
      /\ categories' = Sanitized(CategorySource)
  BY DEF InsertCategories, inputs
<1>2. CategorySource' = CategorySource
  BY <1>1 DEF CategorySource
<1>3. categories' = Sanitized(CategorySource')
  BY <1>1, <1>2
<1>4. Types' /\ RowsAreInserted'
  BY <1>1 DEF Inv, Types, RowsAreInserted
<1>5. CategoriesAreInserted'
  BY <1>1, <1>3 DEF CategoriesAreInserted
<1> QED
  BY <1>1, <1>4, <1>5 DEF Inv, SettingsAreInserted, RefusedForAReason

LEMMA InsertSnippetKeepsInv ==
    ASSUME Inv, InsertSnippet
    PROVE  Inv'
<1>1. Types /\ RowsAreInserted /\ step = "snippets" /\ Len(rows) < Len(snippets)
  BY DEF Inv, InsertSnippet
<1>2. CASE Signed(NextSnippet.id) \in Taken
  <2>1. ~DistinctIds
    BY <1>1, <1>2, TakenIsEqual
  <2>2. Rollback
    BY <1>2 DEF InsertSnippet
  <2> QED
    BY <2>1, <2>2, RollbackKeepsInv
<1>3. CASE Signed(NextSnippet.id) \notin Taken
  <2>1. PICK row : row = Row(NextSnippet, Len(rows))
    OBVIOUS
  <2>2. UNCHANGED <<snippets, config, step, categories, settings>>
        /\ rows' = Append(rows, row)
    BY <1>3, <2>1 DEF InsertSnippet, inputs
  <2>3. PICK k \in Nat : k = Len(rows)
    BY LenProperties DEF Inv, RowsAreInserted
  <2>4. Len(snippets) \in Nat /\ DOMAIN snippets = 1..Len(snippets)
    BY LenProperties DEF Inv, Types
  <2>5. snippets[k + 1] \in LegacySnippets /\ row = Row(snippets[k + 1], k)
    BY <1>1, <2>1, <2>3, <2>4, ElementOfSeq DEF NextSnippet, Types
  <2>6. row \in AnyRow
    BY <2>5, RowType
  <2>7. /\ rows' \in Seq(AnyRow) /\ Len(rows') = k + 1
        /\ \A n \in 1..k : rows'[n] = rows[n]
        /\ rows'[k + 1] = row
    BY <1>1, <2>2, <2>3, <2>6, AppendProperties DEF RowsAreInserted
  <2>8. \A n \in 1..k : rows[n].id # row.id
    <3>1. row.id = Signed(NextSnippet.id)
      BY <2>1 DEF Row
    <3>2. DOMAIN rows = 1..k
      BY <1>1, <2>3, LenProperties DEF RowsAreInserted
    <3> QED
      BY <1>3, <3>1, <3>2 DEF Taken
  <2>9. RowsAreInserted'
    <3>1. Len(rows') <= Len(snippets')
      BY <1>1, <2>2, <2>3, <2>4, <2>7
    <3>2. \A n \in 1..(k + 1) : rows'[n] = Row(snippets[n], n - 1)
      <4> TAKE n \in 1..(k + 1)
      <4>1. CASE n = k + 1
        BY <2>3, <2>5, <2>7, <4>1
      <4>2. CASE n # k + 1
        <5>1. n \in 1..k
          BY <2>3, <4>2
        <5> QED
          BY <1>1, <2>3, <2>7, <5>1 DEF RowsAreInserted
      <4> QED
        BY <4>1, <4>2
    <3>3. \A m, n \in 1..(k + 1) : m # n => rows'[m].id # rows'[n].id
      <4>1. \A n \in 1..(k + 1) : n \in 1..k \/ n = k + 1
        BY <2>3
      <4>2. \A m, n \in 1..k : m # n => rows[m].id # rows[n].id
        BY <1>1, <2>3 DEF RowsAreInserted
      <4> QED
        BY <2>7, <2>8, <4>1, <4>2
    <3> QED
      BY <2>2, <2>7, <3>1, <3>2, <3>3 DEF RowsAreInserted
  <2>10. Types'
    BY <1>1, <2>2 DEF Types
  <2>11. CategorySource' = CategorySource
    BY <2>2 DEF CategorySource
  <2>12. CategoriesAreInserted' /\ SettingsAreInserted' /\ RefusedForAReason'
    BY <1>1, <2>2, <2>11 DEF Inv, CategoriesAreInserted, SettingsAreInserted, RefusedForAReason
  <2> QED
    BY <2>9, <2>10, <2>12 DEF Inv
<1> QED
  BY <1>2, <1>3

LEMMA InsertSettingsKeepsInv ==
    ASSUME Inv, InsertSettings
    PROVE  Inv'
<1>1. /\ UNCHANGED <<snippets, config, rows, categories>>
      /\ step = "snippets" /\ step' = "verify" /\ Len(rows) = Len(snippets)
      /\ settings' = [theme |-> StoredTheme(Default(config.theme)), vault |-> config.vault]
  BY DEF InsertSettings, inputs
<1>2. CategorySource' = CategorySource
  BY <1>1 DEF CategorySource
<1>3. Types' /\ RowsAreInserted'
  BY <1>1 DEF Inv, Types, RowsAreInserted
<1>4. CategoriesAreInserted' /\ SettingsAreInserted' /\ RefusedForAReason'
  BY <1>1, <1>2 DEF Inv, CategoriesAreInserted, SettingsAreInserted, RefusedForAReason
<1> QED
  BY <1>3, <1>4 DEF Inv

LEMMA VerifyKeepsInv ==
    ASSUME Inv, Verify
    PROVE  Inv'
<1>1. CASE Verified
  <2>1. /\ UNCHANGED <<snippets, config, rows, categories, settings>>
        /\ step = "verify" /\ step' = "committed"
    BY <1>1 DEF Verify, inputs, tables
  <2>2. CategorySource' = CategorySource
    BY <2>1 DEF CategorySource
  <2>3. Types' /\ RowsAreInserted'
    BY <2>1 DEF Inv, Types, RowsAreInserted
  <2>4. CategoriesAreInserted' /\ SettingsAreInserted' /\ RefusedForAReason'
    BY <2>1, <2>2 DEF Inv, CategoriesAreInserted, SettingsAreInserted, RefusedForAReason
  <2> QED
    BY <2>3, <2>4 DEF Inv
<1>2. CASE ~Verified
  BY <1>2, VerifiedUnlessPadded, RollbackKeepsInv DEF Verify
<1> QED
  BY <1>1, <1>2

LEMMA InvStep == Inv /\ [Next]_vars => Inv'
<1> SUFFICES ASSUME Inv, [Next]_vars PROVE Inv'
  OBVIOUS
<1>1. CASE UNCHANGED vars
  <2>1. UNCHANGED <<snippets, config, step, rows, categories, settings>>
    BY <1>1 DEF vars, inputs, tables
  <2>2. CategorySource' = CategorySource
    BY <2>1 DEF CategorySource
  <2> QED
    BY <2>1, <2>2 DEF Inv, Types, RowsAreInserted, CategoriesAreInserted,
                      SettingsAreInserted, RefusedForAReason, DistinctIds
<1> QED
  BY <1>1, InsertCategoriesKeepsInv, InsertSnippetKeepsInv, InsertSettingsKeepsInv,
     VerifyKeepsInv DEF Next

LEMMA AlwaysInv == Spec => []Inv
  BY InvInit, InvStep, PTL DEF Spec

\* Nothing but equal ids or a theme with spaces around it makes the import of
\* a library fail: neither the cast of an id, nor a category, nor protection
\* (build_and_install and verify_imported).
THEOREM RefusalHasAReason == Spec => []RefusedForAReason
<1>1. Inv => RefusedForAReason
  BY DEF Inv
<1> QED
  BY <1>1, AlwaysInv, PTL

------------------------------------------------------------------------------
\* What is committed.

LEMMA SourceType ==
    ASSUME Types
    PROVE  CategorySource \in Seq(Raw)
<1>1. config.categories \in Seq(Raw)
  <2>1. config.categories = << >> \/ \E c \in Raw : config.categories = <<c>>
    BY DEF Types, Configs
  <2>2. << >> \in Seq(Raw) /\ \A c \in Raw : <<c>> \in Seq(Raw)
    OBVIOUS
  <2> QED
    BY <2>1, <2>2
<1>2. [n \in DOMAIN snippets |-> snippets[n].category] \in Seq(Raw)
  <2>1. DOMAIN snippets = 1..Len(snippets) /\ Len(snippets) \in Nat
    BY LenProperties DEF Types
  <2>2. \A n \in 1..Len(snippets) : snippets[n].category \in Raw
    BY ElementOfSeq, SnippetType DEF Types
  <2> QED
    BY <2>1, <2>2, SeqDef
<1> QED
  BY <1>1, <1>2, ConcatProperties DEF CategorySource

LEMMA InvImpliesFaithful ==
    ASSUME Inv, step = "committed"
    PROVE  Faithful
<1>1. /\ DOMAIN rows = 1..Len(rows) /\ DOMAIN snippets = 1..Len(snippets)
      /\ Len(rows) = Len(snippets)
  BY LenProperties DEF Inv, Types, RowsAreInserted, SettingsAreInserted
<1>2. ASSUME NEW n \in DOMAIN snippets
      PROVE  /\ rows[n].order = n - 1
             /\ (rows[n].id - snippets[n].id) % 2^Width = 0
             /\ rows[n].category = IF Normal[snippets[n].category] = Reserved
                                   THEN Uncategorized
                                   ELSE Normal[snippets[n].category]
             /\ rows[n].protection = snippets[n].protection
             /\ snippets[n].protection = Absent => rows[n].body = snippets[n].body
             /\ snippets[n].protection # Absent => rows[n].body = Empty
  <2>1. PICK s \in LegacySnippets : s = snippets[n]
    BY <1>1, ElementOfSeq DEF Inv, Types
  <2>2. rows[n] = Row(s, n - 1)
    BY <1>1, <2>1 DEF Inv, RowsAreInserted
  <2>3. (Signed(s.id) - s.id) % 2^Width = 0
    BY SnippetType, SignedProperties
  <2> QED
    BY <2>1, <2>2, <2>3 DEF Row, CanonicalCategory
<1>3. PICK source \in Seq(Raw) : source = CategorySource
  BY SourceType DEF Inv
<1>4. categories = Sanitized(source)
  BY <1>3 DEF Inv, CategoriesAreInserted
<1>5. \A m, n \in DOMAIN categories : m < n => categories[m] < categories[n]
  BY <1>4, SanitizedProperties
<1>6. \A x : (\E n \in DOMAIN categories : categories[n] = x)
                <=> x # Reserved /\ \E n \in DOMAIN source : Normal[source[n]] = x
  BY <1>4, SanitizedProperties
<1>7. {categories[n] : n \in DOMAIN categories} =
          {Normal[c] : c \in {source[n] : n \in DOMAIN source}} \ {Reserved}
  BY <1>6
<1>8. settings.vault = config.vault
  BY DEF Inv, SettingsAreInserted
<1>9. {categories[n] : n \in DOMAIN categories} =
          {Normal[c] : c \in {CategorySource[n] : n \in DOMAIN CategorySource}} \ {Reserved}
  BY <1>3, <1>7
<1>10. DOMAIN rows = DOMAIN snippets
  BY <1>1
<1> QED
  BY <1>2, <1>5, <1>8, <1>9, <1>10, Zenon DEF Faithful

\* What build_and_install commits is the user's library, whatever the ids, the
\* spelling of its categories and the text left next to a ciphertext.
THEOREM CommittedLibraryIsFaithful == Spec => []CommittedIsFaithful
<1>1. Inv => CommittedIsFaithful
  BY InvImpliesFaithful DEF CommittedIsFaithful
<1> QED
  BY <1>1, AlwaysInv, PTL

------------------------------------------------------------------------------
\* The category menu.

RowsOf(name) == {n \in DOMAIN rows : rows[n].category = name}

\* The entries of the menu have names of their own, count the rows of their
\* name, and name every category of a row.
MenuIsRight(menu) ==
    /\ menu \in Seq([name : Nat, count : Nat])
    /\ \A k \in DOMAIN menu : menu[k].count = Cardinality(RowsOf(menu[k].name))
    /\ \A j, k \in DOMAIN menu : menu[j].name = menu[k].name => j = k
    /\ \A n \in DOMAIN rows : \E k \in DOMAIN menu : menu[k].name = rows[n].category

LEMMA RowsOfAreFinite ==
    ASSUME RowsAreInserted, NEW name
    PROVE  /\ IsFiniteSet(RowsOf(name))
           /\ Cardinality(RowsOf(name)) \in Nat
<1>1. DOMAIN rows = 1..Len(rows) /\ Len(rows) \in Nat
  BY LenProperties DEF RowsAreInserted
<1>2. IsFiniteSet(DOMAIN rows)
  BY <1>1, FS_Interval
<1>3. RowsOf(name) \in SUBSET DOMAIN rows
  BY DEF RowsOf
<1> QED
  BY <1>2, <1>3, FS_Subset, FS_CardinalityType

\* The places counted, entry by entry, are as many as the rows: numbering the
\* rows of each entry maps them to the rows, one to one.
LEMMA CountsAddUp ==
    ASSUME RowsAreInserted, NEW menu, MenuIsRight(menu)
    PROVE  Cardinality(UNION {{k} \X (1..menu[k].count) : k \in DOMAIN menu}) = Len(rows)
<1> DEFINE places == UNION {{k} \X (1..menu[k].count) : k \in DOMAIN menu}
           numbering == [k \in DOMAIN menu |->
               CHOOSE g : g \in Bijection(1..menu[k].count, RowsOf(menu[k].name))]
           rowAt == [p \in places |-> numbering[p[1]][p[2]]]
<1>1. /\ DOMAIN rows = 1..Len(rows) /\ Len(rows) \in Nat
      /\ IsFiniteSet(DOMAIN rows) /\ Cardinality(DOMAIN rows) = Len(rows)
  <2>1. DOMAIN rows = 1..Len(rows) /\ Len(rows) \in Nat
    BY LenProperties DEF RowsAreInserted
  <2>2. ASSUME NEW n \in Nat
        PROVE  IsFiniteSet(1..n) /\ Cardinality(1..n) = n
    BY FS_Interval
  <2> QED
    BY <2>1, <2>2
<1>2. ASSUME NEW k \in DOMAIN menu
      PROVE  numbering[k] \in Bijection(1..menu[k].count, RowsOf(menu[k].name))
  <2>1. menu[k].count = Cardinality(RowsOf(menu[k].name))
    BY DEF MenuIsRight
  <2>2. ExistsBijection(1..menu[k].count, RowsOf(menu[k].name))
    BY <2>1, RowsOfAreFinite, FS_CardinalityType
  <2> QED
    BY <2>2 DEF ExistsBijection
<1> HIDE DEF numbering
<1>3. \A p : p \in places <=>
          \E k \in DOMAIN menu : \E j \in 1..menu[k].count : p = <<k, j>>
  OBVIOUS
<1> HIDE DEF places
<1>4. ASSUME NEW k \in DOMAIN menu, NEW j \in 1..menu[k].count
      PROVE  <<k, j>> \in places /\ rowAt[<<k, j>>] = numbering[k][j]
  BY <1>3, <1>4
<1>5. ASSUME NEW k \in DOMAIN menu, NEW j \in 1..menu[k].count
      PROVE  numbering[k][j] \in DOMAIN rows /\ rows[numbering[k][j]].category = menu[k].name
  <2>1. numbering[k][j] \in RowsOf(menu[k].name)
    BY <1>2, <1>5 DEF Bijection, Injection
  <2> QED
    BY <2>1 DEF RowsOf
<1>6. rowAt \in [places -> DOMAIN rows]
  <2>1. ASSUME NEW p \in places
        PROVE  rowAt[p] \in DOMAIN rows
    <3>1. PICK k \in DOMAIN menu : \E j \in 1..menu[k].count : p = <<k, j>>
      BY <1>3
    <3>2. PICK j \in 1..menu[k].count : p = <<k, j>>
      BY <3>1
    <3> QED
      BY <1>4, <1>5, <3>1, <3>2
  <2> QED
    BY <2>1
<1>7. rowAt \in Injection(places, DOMAIN rows)
  <2>1. ASSUME NEW p \in places, NEW q \in places, rowAt[p] = rowAt[q]
        PROVE  p = q
    <3>1. PICK k \in DOMAIN menu : \E j \in 1..menu[k].count : p = <<k, j>>
      BY <1>3
    <3>2. PICK j \in 1..menu[k].count : p = <<k, j>>
      BY <3>1
    <3>3. PICK l \in DOMAIN menu : \E i \in 1..menu[l].count : q = <<l, i>>
      BY <1>3
    <3>4. PICK i \in 1..menu[l].count : q = <<l, i>>
      BY <3>3
    <3>5. numbering[k][j] = numbering[l][i]
      BY <1>4, <2>1, <3>2, <3>4
    <3>6. menu[k].name = menu[l].name
      BY <1>5, <3>2, <3>4, <3>5
    <3>7. k = l
      BY <3>2, <3>4, <3>6 DEF MenuIsRight
    <3>8. IsInjective(numbering[k]) /\ DOMAIN numbering[k] = 1..menu[k].count
      BY <1>2 DEF Bijection, Injection
    <3>9. j = i
      BY <3>2, <3>4, <3>5, <3>7, <3>8 DEF IsInjective
    <3> QED
      BY <3>2, <3>4, <3>7, <3>9
  <2> QED
    BY <1>6, <2>1 DEF Injection, IsInjective
<1>8. rowAt \in Surjection(places, DOMAIN rows)
  <2>1. ASSUME NEW n \in DOMAIN rows
        PROVE  \E p \in places : rowAt[p] = n
    <3>1. PICK k \in DOMAIN menu : menu[k].name = rows[n].category
      BY DEF MenuIsRight
    <3>2. n \in RowsOf(menu[k].name)
      BY <3>1 DEF RowsOf
    <3>3. PICK j \in 1..menu[k].count : numbering[k][j] = n
      BY <1>2, <3>2 DEF Bijection, Surjection
    <3> QED
      BY <1>4, <3>3
  <2> QED
    BY <1>6, <2>1 DEF Surjection
<1> HIDE DEF rowAt
<1>9. Cardinality(places) = Cardinality(DOMAIN rows)
  BY <1>1, <1>7, <1>8, FS_Injection
<1> QED
  BY <1>1, <1>9 DEF places

Entry == [name : Nat, count : Nat]

\* The members of two sequences put together.
LEMMA Joined ==
    ASSUME NEW a \in Seq(Entry), NEW b \in Seq(Entry), NEW both, both = a \o b
    PROVE  /\ both \in Seq(Entry)
           /\ Len(a) \in Nat
           /\ \A k \in DOMAIN both : \/ k \in DOMAIN a /\ both[k] = a[k]
                                     \/ k - Len(a) \in DOMAIN b /\ both[k] = b[k - Len(a)]
           /\ \A k \in DOMAIN a : k \in DOMAIN both /\ both[k] = a[k]
           /\ \A k \in DOMAIN b : k + Len(a) \in DOMAIN both /\ both[k + Len(a)] = b[k]
<1>1. PICK m \in Nat, n \in Nat : m = Len(a) /\ n = Len(b)
  BY LenProperties
<1>2. DOMAIN a = 1..m /\ DOMAIN b = 1..n
  BY <1>1, LenProperties
<1>3. /\ both \in Seq(Entry) /\ Len(both) = m + n
      /\ \A k \in 1..(m + n) : both[k] = IF k <= m THEN a[k] ELSE b[k - m]
  BY <1>1, ConcatProperties
<1>4. DOMAIN both = 1..(m + n)
  BY <1>3, LenProperties
<1>5. \A k \in 1..(m + n) : (k <= m /\ k \in 1..m) \/ (~(k <= m) /\ k - m \in 1..n)
  OBVIOUS
<1>6. \A k \in 1..n : k + m \in 1..(m + n) /\ ~(k + m <= m) /\ (k + m) - m = k
  OBVIOUS
<1> QED
  BY <1>1, <1>2, <1>3, <1>4, <1>5, <1>6

\* list_categories over what was committed: first the table's categories, each
\* once, then those that only snippets have, each once.
LEMMA MenuIsRightWhenCommitted ==
    ASSUME Inv, step = "committed"
    PROVE  MenuIsRight(Menu)
<1>1. RowsAreInserted
  BY DEF Inv
<1>2. PICK names \in Seq(Nat) :
          /\ names = categories
          /\ \A m, n \in DOMAIN names : m < n => names[m] < names[n]
  <2>1. PICK source \in Seq(Raw) : source = CategorySource
    BY SourceType DEF Inv
  <2>2. categories = Sanitized(source)
    BY <2>1 DEF Inv, CategoriesAreInserted
  <2> QED
    BY <2>2, SanitizedProperties
<1>3. DOMAIN rows = 1..Len(rows) /\ Len(rows) \in Nat
      /\ \A n \in DOMAIN rows : rows[n].category \in Nat
  <2>1. rows \in Seq(AnyRow)
    BY <1>1 DEF RowsAreInserted
  <2>2. DOMAIN rows = 1..Len(rows) /\ Len(rows) \in Nat
    BY <2>1, LenProperties
  <2>3. \A n \in DOMAIN rows : rows[n] \in AnyRow
    BY <2>1, <2>2, ElementOfSeq
  <2> QED
    BY <2>2, <2>3 DEF AnyRow
<1>4. PICK others : others = Unlisted
  OBVIOUS
<1>5. IsFiniteSet(others) /\ others \in SUBSET Nat
  <2> DEFINE used == [n \in DOMAIN rows |-> rows[n].category]
  <2>1. used \in Seq(Nat)
    <3>1. used \in [1..Len(rows) -> Nat]
      BY <1>3
    <3> QED
      BY <1>3, <3>1, SeqDef
  <2>2. others = {used[n] : n \in DOMAIN used} \ ToSet(categories)
    BY <1>4 DEF Unlisted
  <2> HIDE DEF used
  <2> QED
    BY <2>1, <2>2, NamesAreFinite
<1>6. PICK rest : rest = Sorted(others)
  OBVIOUS
<1>7. /\ rest \in Seq(Nat)
      /\ \A m, n \in DOMAIN rest : m < n => rest[m] < rest[n]
      /\ \A n \in DOMAIN rest : rest[n] \in others
      /\ \A x \in others : \E n \in DOMAIN rest : rest[n] = x
  BY <1>5, <1>6, SortedProperties
<1>8. \A x : x \in others <=> /\ \E n \in DOMAIN rows : rows[n].category = x
                              /\ ~ \E n \in DOMAIN names : names[n] = x
  BY <1>2, <1>4 DEF Unlisted, ToSet
<1>9. \A x : Count(x) = Cardinality(RowsOf(x)) /\ Count(x) \in Nat
  BY <1>1, RowsOfAreFinite DEF Count, RowsOf
<1>10. PICK a \in Seq(Entry) :
           /\ a = Listed /\ DOMAIN a = DOMAIN names
           /\ \A n \in DOMAIN a : a[n].name = names[n] /\ a[n].count = Count(names[n])
  <2>1. DOMAIN names = 1..Len(names) /\ Len(names) \in Nat
    BY LenProperties
  <2>2. \A n \in DOMAIN names : names[n] \in Nat
    BY <2>1, ElementOfSeq
  <2>3. Listed = [n \in DOMAIN names |-> [name |-> names[n], count |-> Count(names[n])]]
    BY <1>2 DEF Listed
  <2>4. Listed \in [1..Len(names) -> Entry]
    BY <1>9, <2>1, <2>2, <2>3 DEF Entry
  <2>5. Listed \in Seq(Entry)
    BY <2>1, <2>4, SeqDef
  <2> QED
    BY <2>3, <2>5
<1>11. PICK b \in Seq(Entry) :
           /\ b = Missing /\ DOMAIN b = DOMAIN rest
           /\ \A n \in DOMAIN b : b[n].name = rest[n] /\ b[n].count = Count(rest[n])
  <2>1. DOMAIN rest = 1..Len(rest) /\ Len(rest) \in Nat
    BY <1>7, LenProperties
  <2>2. \A n \in DOMAIN rest : rest[n] \in Nat
    BY <1>5, <1>7
  <2>3. Missing = [n \in DOMAIN rest |-> [name |-> rest[n], count |-> Count(rest[n])]]
    BY <1>4, <1>6 DEF Missing
  <2>4. Missing \in [1..Len(rest) -> Entry]
    BY <1>9, <2>1, <2>2, <2>3 DEF Entry
  <2>5. Missing \in Seq(Entry)
    BY <2>1, <2>4, SeqDef
  <2> QED
    BY <2>3, <2>5
<1>12. PICK menu : menu = Menu
  OBVIOUS
<1>13. menu = a \o b
  BY <1>10, <1>11, <1>12 DEF Menu
<1>14. /\ menu \in Seq(Entry) /\ Len(a) \in Nat
       /\ \A k \in DOMAIN menu : \/ k \in DOMAIN a /\ menu[k] = a[k]
                                 \/ k - Len(a) \in DOMAIN b /\ menu[k] = b[k - Len(a)]
       /\ \A k \in DOMAIN a : k \in DOMAIN menu /\ menu[k] = a[k]
       /\ \A k \in DOMAIN b : k + Len(a) \in DOMAIN menu /\ menu[k + Len(a)] = b[k]
  BY <1>13, Joined
<1>15. \A k \in DOMAIN menu : menu[k].count = Cardinality(RowsOf(menu[k].name))
  <2>1. \A k \in DOMAIN a : a[k].count = Cardinality(RowsOf(a[k].name))
    BY <1>9, <1>10
  <2>2. \A k \in DOMAIN b : b[k].count = Cardinality(RowsOf(b[k].name))
    BY <1>9, <1>11
  <2> QED
    BY <1>14, <2>1, <2>2
<1>16. ASSUME NEW j \in DOMAIN menu, NEW k \in DOMAIN menu, menu[j].name = menu[k].name
       PROVE  j = k
  <2>1. \A m, n \in DOMAIN names : names[m] = names[n] => m = n
    <3>1. DOMAIN names = 1..Len(names) /\ \A n \in DOMAIN names : names[n] \in Nat
      BY LenProperties, ElementOfSeq
    <3>2. \A m, n \in DOMAIN names : m < n => names[m] < names[n]
      BY <1>2
    <3>3. \A m, n \in DOMAIN names : m < n \/ n < m \/ m = n
      BY <3>1
    <3> QED
      BY <3>1, <3>2, <3>3
  <2>2. \A m, n \in DOMAIN rest : rest[m] = rest[n] => m = n
    <3>1. DOMAIN rest = 1..Len(rest) /\ \A n \in DOMAIN rest : rest[n] \in Nat
      BY <1>7, LenProperties, ElementOfSeq
    <3>2. \A m, n \in DOMAIN rest : m < n => rest[m] < rest[n]
      BY <1>7
    <3>3. \A m, n \in DOMAIN rest : m < n \/ n < m \/ m = n
      BY <3>1
    <3> QED
      BY <3>1, <3>2, <3>3
  <2>3. \A m \in DOMAIN names, n \in DOMAIN rest : names[m] # rest[n]
    BY <1>7, <1>8
  <2>4. \A i \in DOMAIN menu : \/ i \in DOMAIN names /\ menu[i].name = names[i]
                               \/ i - Len(a) \in DOMAIN rest /\ menu[i].name = rest[i - Len(a)]
    BY <1>10, <1>11, <1>14
  <2>5. j \in Nat /\ k \in Nat /\ Len(a) \in Nat
    BY <1>14, LenProperties
  <2>6. CASE j \in DOMAIN names /\ menu[j].name = names[j]
    <3>1. k \in DOMAIN names /\ menu[k].name = names[k]
      BY <1>16, <2>3, <2>4, <2>6
    <3> QED
      BY <1>16, <2>1, <2>6, <3>1
  <2>7. CASE j - Len(a) \in DOMAIN rest /\ menu[j].name = rest[j - Len(a)]
    <3>1. k - Len(a) \in DOMAIN rest /\ menu[k].name = rest[k - Len(a)]
      BY <1>16, <2>3, <2>4, <2>7
    <3>2. j - Len(a) = k - Len(a)
      BY <1>16, <2>2, <2>7, <3>1
    <3> QED
      BY <2>5, <3>2
  <2> QED
    BY <2>4, <2>6, <2>7
<1>17. ASSUME NEW n \in DOMAIN rows
       PROVE  \E k \in DOMAIN menu : menu[k].name = rows[n].category
  <2>1. CASE \E m \in DOMAIN names : names[m] = rows[n].category
    BY <1>10, <1>14, <2>1
  <2>2. CASE ~ \E m \in DOMAIN names : names[m] = rows[n].category
    <3>1. rows[n].category \in others
      BY <1>8, <2>2
    <3>2. PICK m \in DOMAIN rest : rest[m] = rows[n].category
      BY <1>7, <3>1
    <3> QED
      BY <1>11, <1>14, <3>2
  <2> QED
    BY <2>1, <2>2
<1>18. MenuIsRight(menu)
  BY <1>14, <1>15, <1>16, <1>17 DEF MenuIsRight, Entry
<1> QED
  BY <1>12, <1>18

\* Every snippet of a committed library is under exactly one entry of the
\* category menu, and the counts of the menu add up to the library
\* (list_categories).
THEOREM MenuCoversTheLibrary == Spec => []MenuCoversRows
<1>1. ASSUME Inv, step = "committed"
      PROVE  /\ \A n \in DOMAIN rows :
                    Cardinality({k \in DOMAIN Menu : Menu[k].name = rows[n].category}) = 1
             /\ Cardinality(UNION {{k} \X (1..Menu[k].count) : k \in DOMAIN Menu}) = Len(rows)
  <2>1. MenuIsRight(Menu) /\ RowsAreInserted
    BY <1>1, MenuIsRightWhenCommitted DEF Inv
  <2>2. ASSUME NEW n \in DOMAIN rows
        PROVE  Cardinality({k \in DOMAIN Menu : Menu[k].name = rows[n].category}) = 1
    <3>1. PICK k \in DOMAIN Menu : Menu[k].name = rows[n].category
      BY <2>1 DEF MenuIsRight
    <3>2. {j \in DOMAIN Menu : Menu[j].name = rows[n].category} = {k}
      BY <2>1, <3>1 DEF MenuIsRight
    <3> QED
      BY <3>2, FS_Singleton
  <2>3. Cardinality(UNION {{k} \X (1..Menu[k].count) : k \in DOMAIN Menu}) = Len(rows)
    BY <2>1, CountsAddUp
  <2> QED
    BY <2>2, <2>3
<1>2. Inv => MenuCoversRows
  BY <1>1 DEF MenuCoversRows
<1> QED
  BY <1>2, AlwaysInv, PTL
==============================================================================
