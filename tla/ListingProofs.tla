----------------------------- MODULE ListingProofs -----------------------------
(***************************************************************************)
(* Proofs about module Listing, for any snippets, filters and page size.   *)
(***************************************************************************)
EXTENDS Listing, FiniteSetTheorems, SequenceTheorems, TLAPS

------------------------------------------------------------------------------
\* The order of the list.

\* A greater member has more before it, and each has fewer than there are.
LEMMA RankGrows ==
    ASSUME NEW found \in SUBSET Nat, IsFiniteSet(found)
    PROVE  /\ Cardinality(found) \in Nat
           /\ \A s \in found : Cardinality(Before(s, found)) \in 0..(Cardinality(found) - 1)
           /\ \A s, t \in found : s < t =>
                  Cardinality(Before(s, found)) < Cardinality(Before(t, found))
<1>1. ASSUME NEW s \in found
      PROVE  /\ IsFiniteSet(Before(s, found))
             /\ Cardinality(Before(s, found)) \in Nat
             /\ Cardinality(Before(s, found) \cup {s}) = Cardinality(Before(s, found)) + 1
  <2>1. Before(s, found) \in SUBSET found /\ s \notin Before(s, found)
    BY DEF Before
  <2>2. IsFiniteSet(Before(s, found))
    BY <2>1, FS_Subset
  <2> QED
    BY <2>1, <2>2, FS_AddElement, FS_CardinalityType
<1>2. Cardinality(found) \in Nat
  BY FS_CardinalityType
<1>3. ASSUME NEW s \in found
      PROVE  Cardinality(Before(s, found)) \in 0..(Cardinality(found) - 1)
  <2>1. Before(s, found) \cup {s} \in SUBSET found
    BY DEF Before
  <2>2. Cardinality(Before(s, found) \cup {s}) <= Cardinality(found)
    BY <2>1, FS_Subset
  <2> QED
    BY <1>1, <1>2, <2>2
<1>4. ASSUME NEW s \in found, NEW t \in found, s < t
      PROVE  Cardinality(Before(s, found)) < Cardinality(Before(t, found))
  <2>1. Before(s, found) \cup {s} \in SUBSET Before(t, found)
    <3>1. \A u \in found : u \in Nat /\ s \in Nat /\ t \in Nat /\ (u < s => u < t)
      BY <1>4
    <3> QED
      BY <1>4, <3>1 DEF Before
  <2>2. Cardinality(Before(s, found) \cup {s}) <= Cardinality(Before(t, found))
    BY <1>1, <2>1, FS_Subset
  <2>3. /\ Cardinality(Before(s, found)) \in Nat /\ Cardinality(Before(t, found)) \in Nat
        /\ Cardinality(Before(s, found) \cup {s}) = Cardinality(Before(s, found)) + 1
    BY <1>1
  <2> QED
    BY <2>2, <2>3
<1> QED
  BY <1>2, <1>3, <1>4

LEMMA RanksDiffer ==
    ASSUME NEW found \in SUBSET Nat, IsFiniteSet(found),
           NEW s \in found, NEW t \in found,
           Cardinality(Before(s, found)) = Cardinality(Before(t, found))
    PROVE  s = t
<1> SUFFICES ASSUME s # t PROVE FALSE
  OBVIOUS
<1>1. s < t \/ t < s
  OBVIOUS
<1>2. Cardinality(Before(s, found)) \in Nat
  BY RankGrows
<1> QED
  BY <1>1, <1>2, RankGrows

\* So there is an n-th for each n up to their number.
LEMMA NthExists ==
    ASSUME NEW found \in SUBSET Nat, IsFiniteSet(found),
           NEW n \in 1..Cardinality(found)
    PROVE  \E s \in found : Cardinality(Before(s, found)) = n - 1
<1> DEFINE places == 1..Cardinality(found)
           rank == [s \in found |-> Cardinality(Before(s, found)) + 1]
<1>1. /\ Cardinality(found) \in Nat
      /\ IsFiniteSet(places)
      /\ Cardinality(places) = Cardinality(found)
  <2>1. Cardinality(found) \in Nat
    BY RankGrows
  <2> QED
    BY <2>1, FS_Interval
<1>2. rank \in Injection(found, places)
  <2>1. rank \in [found -> places]
    BY RankGrows
  <2>2. \A s, t \in found : rank[s] = rank[t] => s = t
    BY RankGrows, RanksDiffer
  <2> QED
    BY <2>1, <2>2 DEF Injection, IsInjective
<1>3. rank \in Surjection(found, places)
  BY <1>1, <1>2, FS_Injection
<1>4. PICK s \in found : rank[s] = n
  BY <1>3 DEF Surjection
<1>5. Cardinality(Before(s, found)) \in Nat
  BY RankGrows
<1> QED
  BY <1>4, <1>5

------------------------------------------------------------------------------
\* The search.

\* Induction over the numbers, for sets: the first number that is not a member
\* would follow a member.
LEMMA Induction ==
    ASSUME NEW S, 0 \in S, \A n \in Nat : n \in S => n + 1 \in S
    PROVE  Nat \subseteq S
<1> SUFFICES ASSUME NEW k \in Nat, k \notin S PROVE FALSE
  OBVIOUS
<1> DEFINE found == (0..k) \ S
<1>1. /\ found \in SUBSET Nat /\ IsFiniteSet(found)
      /\ k \in found /\ 0 \notin found
      /\ \A n \in found : n - 1 \in Nat /\ (n - 1 \notin S => n - 1 \in found)
  <2>1. IsFiniteSet(0..k)
    BY FS_Interval
  <2>2. found \subseteq 0..k
    OBVIOUS
  <2> QED
    BY <2>1, <2>2, FS_Subset
<1>2. Cardinality(found) \in Nat /\ Cardinality(found) # 0
  BY <1>1, FS_EmptySet, FS_CardinalityType
<1>3. PICK s \in found : Cardinality(Before(s, found)) = 0
  <2> HIDE DEF found
  <2>1. 1 \in 1..Cardinality(found)
    BY <1>2
  <2> QED
    BY <1>1, <2>1, NthExists
<1>4. Before(s, found) = {}
  <2>1. Before(s, found) \in SUBSET found
    BY DEF Before
  <2>2. IsFiniteSet(Before(s, found))
    BY <1>1, <2>1, FS_Subset
  <2> QED
    BY <1>3, <2>2, FS_EmptySet
<1>5. s - 1 \in Nat /\ s - 1 \in S
  BY <1>1, <1>4 DEF Before
<1> QED
  BY <1>1, <1>5

\* A recursion: F gives a value at x that only depends on those at places of lower
\* rank.
Determined(D, V, rank, bound, F) ==
    /\ V # {} /\ bound \in Nat
    /\ rank \in [D -> Nat] /\ \A x \in D : rank[x] < bound
    /\ F \in [[D -> V] -> [D -> V]]
    /\ \A g, h \in [D -> V] : \A x \in D :
           (\A y \in D : rank[y] < rank[x] => g[y] = h[y]) => F[g][x] = F[h][x]

\* Such a recursion has a solution, which applying F often enough reaches.
LEMMA FixedPoint ==
    ASSUME NEW D, NEW V, NEW rank, NEW bound, NEW F, Determined(D, V, rank, bound, F)
    PROVE  \E g \in [D -> V] : F[g] = g
<1> USE DEF Determined
<1> DEFINE Upto(n, g) == \A x \in D : rank[x] < n => F[g][x] = g[x]
           S == {n \in Nat : \E g \in [D -> V] : Upto(n, g)}
<1>1. 0 \in S
  <2>1. PICK v \in V : TRUE
    OBVIOUS
  <2>2. [x \in D |-> v] \in [D -> V]
    OBVIOUS
  <2>3. Upto(0, [x \in D |-> v])
    <3> SUFFICES ASSUME NEW x \in D PROVE ~(rank[x] < 0)
      OBVIOUS
    <3> rank[x] \in Nat
      OBVIOUS
    <3> QED OBVIOUS
  <2> QED
    BY <2>2, <2>3
<1>2. ASSUME NEW n \in Nat, n \in S PROVE n + 1 \in S
  <2>1. PICK g \in [D -> V] : Upto(n, g)
    BY <1>2
  <2>2. F[g] \in [D -> V]
    OBVIOUS
  <2>3. Upto(n + 1, F[g])
    <3> SUFFICES ASSUME NEW x \in D, rank[x] < n + 1 PROVE F[F[g]][x] = F[g][x]
      OBVIOUS
    <3>1. \A y \in D : rank[y] < rank[x] => F[g][y] = g[y]
      <4> SUFFICES ASSUME NEW y \in D, rank[y] < rank[x] PROVE rank[y] < n
        BY <2>1
      <4> rank[x] \in Nat /\ rank[y] \in Nat
        OBVIOUS
      <4> QED OBVIOUS
    <3> QED
      BY <2>2, <3>1
  <2> QED
    BY <2>2, <2>3
<1>3. bound \in S
  <2> HIDE DEF S
  <2> QED BY <1>1, <1>2, Induction
<1>4. PICK g \in [D -> V] : Upto(bound, g)
  BY <1>3
<1>5. F[g] = g
  <2>1. F[g] \in [D -> V] /\ \A x \in D : F[g][x] = g[x]
    BY <1>4
  <2> QED BY <2>1
<1> QED
  BY <1>5

\* The recursion of Like, for one character of the pattern.
StartsAt(text, pattern, starts, i) ==
    IF i > Len(pattern) THEN {Len(text) + 1}
    ELSE IF pattern[i] = "%"
    THEN {j \in 1..Len(text) + 1 : \E k \in starts[i + 1] : j <= k}
    ELSE {j \in 1..Len(text) :
             IF pattern[i] = "_" THEN j + 1 \in starts[i + 1]
             ELSE IF pattern[i] = Escape
             THEN /\ i < Len(pattern)
                  /\ Same(pattern[i + 1], text[j])
                  /\ j + 1 \in starts[i + 2]
             ELSE Same(pattern[i], text[j]) /\ j + 1 \in starts[i + 1]}

\* The recursion of Like ends: its table exists, and Like reads it.
LEMMA LikeIsDefined ==
    ASSUME NEW text \in Seq(Characters), NEW pattern \in Seq(Characters)
    PROVE  \E starts \in [1..Len(pattern) + 1 -> SUBSET (1..Len(text) + 1)] :
               /\ \A i \in 1..Len(pattern) + 1 :
                      starts[i] = StartsAt(text, pattern, starts, i)
               /\ Like(text, pattern) <=> 1 \in starts[1]
<1> DEFINE D == 1..Len(pattern) + 1
           V == SUBSET (1..Len(text) + 1)
           Table(g) == [i \in D |-> StartsAt(text, pattern, g, i)]
           F == [g \in [D -> V] |-> Table(g)]
           rank == [i \in D |-> Len(pattern) + 1 - i]
<1>1. Len(pattern) \in Nat /\ Len(text) \in Nat
  BY LenProperties
<1>2. /\ rank \in [D -> Nat]
      /\ \A i \in D : rank[i] < Len(pattern) + 1
      /\ \A i, k \in D : i < k => rank[k] < rank[i]
  BY <1>1
<1>3. \A g : \A i : StartsAt(text, pattern, g, i) \in V
  <2> SUFFICES ASSUME NEW g, NEW i PROVE StartsAt(text, pattern, g, i) \in V
    OBVIOUS
  <2>1. 1..Len(text) \subseteq 1..Len(text) + 1 /\ Len(text) + 1 \in 1..Len(text) + 1
    BY <1>1
  <2> QED
    BY <2>1 DEF StartsAt
<1>4. F \in [[D -> V] -> [D -> V]]
  BY <1>3
<1>5. ASSUME NEW g \in [D -> V], NEW h \in [D -> V], NEW i \in D,
             \A k \in D : rank[k] < rank[i] => g[k] = h[k]
      PROVE  F[g][i] = F[h][i]
  <2>1. /\ i <= Len(pattern) => g[i + 1] = h[i + 1]
        /\ i < Len(pattern) => g[i + 2] = h[i + 2]
    BY <1>1, <1>2, <1>5
  <2>2. StartsAt(text, pattern, g, i) = StartsAt(text, pattern, h, i)
    <3>1. CASE i > Len(pattern)
      BY <3>1 DEF StartsAt
    <3>2. CASE i <= Len(pattern) /\ i < Len(pattern)
      BY <3>2, <2>1, <1>1 DEF StartsAt
    <3>3. CASE i = Len(pattern)
      <4>1. i <= Len(pattern) /\ ~(i < Len(pattern)) /\ g[i + 1] = h[i + 1]
        BY <3>3, <2>1, <1>1
      <4> HIDE DEF D
      <4> QED
        BY <4>1, Zenon DEF StartsAt
    <3> QED
      BY <1>1, <3>1, <3>2, <3>3
  <2> QED
    BY <2>2
<1>6. PICK g \in [D -> V] : F[g] = g
  <2> HIDE DEF D, F, V, rank
  <2>1. Len(pattern) + 1 \in Nat /\ V # {}
    BY <1>1 DEF V
  <2>2. \A g, h \in [D -> V] : \A i \in D :
            (\A k \in D : rank[k] < rank[i] => g[k] = h[k]) => F[g][i] = F[h][i]
    BY <1>5
  <2>3. Determined(D, V, rank, Len(pattern) + 1, F)
    BY <1>2, <1>4, <2>1, <2>2, Zenon DEF Determined
  <2> QED
    BY <2>3, FixedPoint
<1> DEFINE like == CHOOSE starts : starts = Table(starts)
<1>7. like = Table(like)
  <2>1. g = Table(g)
    BY <1>6
  <2> HIDE DEF Table
  <2> QED
    BY <2>1, Zenon
<1>8. Like(text, pattern) <=> 1 \in like[1]
  BY DEF Like, StartsAt
<1> QED
  <2> HIDE DEF like
  <2>1. \A i : StartsAt(text, pattern, like, i) \in V
    BY <1>3
  <2>2. like = [i \in D |-> StartsAt(text, pattern, like, i)]
    BY <1>7
  <2>3. like \in [D -> V] /\ \A i \in D : like[i] = StartsAt(text, pattern, like, i)
    <3> HIDE DEF D, V
    <3> QED BY <2>1, <2>2
  <2> QED
    BY <1>8, <2>3

\* The recursion of FlattenSeq ends as well: each part is appended in turn.
LEMMA FlattenIsDefined ==
    ASSUME NEW V, NEW seqs \in Seq(Seq(V)), Len(seqs) # 0
    PROVE  \E flat \in [1..Len(seqs) -> Seq(V)] :
               /\ flat[1] = seqs[1]
               /\ \A i \in 2..Len(seqs) : flat[i] = flat[i - 1] \o seqs[i]
               /\ FlattenSeq(seqs) = flat[Len(seqs)]
<1> DEFINE D == 1..Len(seqs)
           Table(g) == [i \in D |-> IF i = 1 THEN seqs[i] ELSE g[i - 1] \o seqs[i]]
           F == [g \in [D -> Seq(V)] |-> Table(g)]
           rank == [i \in D |-> i]
<1>1. Len(seqs) \in Nat /\ \A i \in D : seqs[i] \in Seq(V)
  BY LenProperties, ElementOfSeq
<1>2. rank \in [D -> Nat] /\ \A i \in D : rank[i] < Len(seqs) + 1
  BY <1>1
<1>3. \A g \in [D -> Seq(V)] : Table(g) \in [D -> Seq(V)]
  <2> SUFFICES ASSUME NEW g \in [D -> Seq(V)], NEW i \in D, i # 1
               PROVE  g[i - 1] \o seqs[i] \in Seq(V)
    BY <1>1
  <2>1. i - 1 \in D
    BY <1>1
  <2> QED
    BY <1>1, <2>1, ConcatProperties
<1>4. F \in [[D -> Seq(V)] -> [D -> Seq(V)]]
  BY <1>3
<1>5. ASSUME NEW g \in [D -> Seq(V)], NEW h \in [D -> Seq(V)], NEW i \in D,
             \A k \in D : rank[k] < rank[i] => g[k] = h[k]
      PROVE  F[g][i] = F[h][i]
  <2>1. i # 1 => i - 1 \in D /\ g[i - 1] = h[i - 1]
    BY <1>1, <1>5
  <2> QED
    BY <2>1
<1>6. PICK g \in [D -> Seq(V)] : F[g] = g
  <2> HIDE DEF D, F, rank
  <2>1. Len(seqs) + 1 \in Nat /\ Seq(V) # {}
    BY <1>1, EmptySeq
  <2>2. \A g, h \in [D -> Seq(V)] : \A i \in D :
            (\A k \in D : rank[k] < rank[i] => g[k] = h[k]) => F[g][i] = F[h][i]
    BY <1>5
  <2>3. Determined(D, Seq(V), rank, Len(seqs) + 1, F)
    BY <1>2, <1>4, <2>1, <2>2, Zenon DEF Determined
  <2> QED
    BY <2>3, FixedPoint
<1> DEFINE flat == CHOOSE flatten : flatten = Table(flatten)
<1>7. flat = Table(flat)
  <2>1. g = Table(g)
    BY <1>6
  <2> HIDE DEF Table
  <2> QED
    BY <2>1, Zenon
<1>8. FlattenSeq(seqs) = flat[Len(seqs)]
  BY DEF FlattenSeq
<1>9. PICK f : f = Table(f) /\ FlattenSeq(seqs) = f[Len(seqs)]
  <2> HIDE DEF flat, Table
  <2> QED
    BY <1>7, <1>8
<1>10. /\ f = [i \in D |-> f[i]]
       /\ f[1] = seqs[1]
       /\ \A i \in D : i # 1 => f[i] = f[i - 1] \o seqs[i]
  <2>1. f = Table(f)
    BY <1>9
  <2>2. 1 \in D
    BY <1>1
  <2> HIDE DEF D
  <2>3. \A i \in D : f[i] = IF i = 1 THEN seqs[i] ELSE f[i - 1] \o seqs[i]
    BY <2>1
  <2>4. f = [i \in D |-> f[i]]
    BY <2>1, <2>3
  <2> QED
    BY <2>2, <2>3, <2>4
<1>11. \A n \in Nat : \A i \in D : i <= n => f[i] \in Seq(V)
  <2> DEFINE S == {n \in Nat : \A i \in D : i <= n => f[i] \in Seq(V)}
  <2>1. 0 \in S
    BY <1>1
  <2>2. ASSUME NEW n \in Nat, n \in S PROVE n + 1 \in S
    <3> SUFFICES ASSUME NEW i \in D, i = n + 1, i # 1 PROVE f[i] \in Seq(V)
      BY <1>1, <1>10, <2>2
    <3>1. i - 1 \in D /\ i - 1 <= n
      BY <1>1
    <3>2. f[i - 1] \in Seq(V) /\ seqs[i] \in Seq(V)
      BY <1>1, <2>2, <3>1
    <3>3. f[i - 1] \o seqs[i] \in Seq(V)
      BY <3>2, ConcatProperties
    <3> QED
      BY <1>10, <3>3
  <2>3. Nat \subseteq S
    <3> HIDE DEF S
    <3> QED BY <2>1, <2>2, Induction
  <2> QED
    BY <2>3
<1>12. f \in [D -> Seq(V)]
  <2>1. \A i \in D : f[i] \in Seq(V)
    <3>1. \A i \in D : i \in Nat /\ i <= i
      BY <1>1
    <3> QED
      BY <1>11, <3>1
  <2> HIDE DEF D
  <2> QED BY <1>10, <2>1
<1>13. \A i \in 2..Len(seqs) : i \in D /\ i # 1
  BY <1>1
<1>14. FlattenSeq(seqs) = f[Len(seqs)]
  BY <1>9
<1> QED
  BY <1>10, <1>12, <1>13, <1>14

\* Each sequence stands in the flat one after those before it.
LEMMA FlattenProperties ==
    ASSUME NEW V, NEW seqs \in Seq(Seq(V)), Len(seqs) # 0
    PROVE  /\ FlattenSeq(seqs) \in Seq(V)
           /\ \E end \in [0..Len(seqs) -> Nat] :
                 /\ end[0] = 0 /\ end[Len(seqs)] = Len(FlattenSeq(seqs))
                 /\ \A k \in 1..Len(seqs) : end[k] = end[k - 1] + Len(seqs[k])
                 /\ \A k \in 1..Len(seqs) : \A n \in 1..Len(seqs[k]) :
                        /\ end[k - 1] + n <= Len(FlattenSeq(seqs))
                        /\ FlattenSeq(seqs)[end[k - 1] + n] = seqs[k][n]
<1> DEFINE last == Len(seqs)
<1>1. /\ last \in Nat /\ last # 0
      /\ \A k \in 1..last : seqs[k] \in Seq(V) /\ Len(seqs[k]) \in Nat
  BY LenProperties, ElementOfSeq
<1>2. PICK flat \in [1..last -> Seq(V)] :
          /\ flat[1] = seqs[1]
          /\ \A i \in 2..last : flat[i] = flat[i - 1] \o seqs[i]
          /\ FlattenSeq(seqs) = flat[last]
  BY FlattenIsDefined
<1>3. \A i \in 1..last : flat[i] \in Seq(V) /\ Len(flat[i]) \in Nat
  BY LenProperties
<1>4. PICK end \in [0..last -> Nat] :
          end[0] = 0 /\ \A i \in 1..last : end[i] = Len(flat[i])
  <2> DEFINE end == [i \in 0..last |-> IF i = 0 THEN 0 ELSE Len(flat[i])]
  <2>1. \A i \in 0..last : i # 0 => i \in 1..last
    BY <1>1
  <2>2. \A i \in 1..last : i \in 0..last /\ i # 0
    BY <1>1
  <2>3. 0 \in 0..last
    BY <1>1
  <2> HIDE DEF last
  <2>4. end \in [0..last -> Nat] /\ end[0] = 0 /\ \A i \in 1..last : end[i] = Len(flat[i])
    BY <1>3, <2>1, <2>2, <2>3
  <2> QED
    BY <2>4
<1> HIDE DEF last
<1>5. ASSUME NEW i \in 1..last, i # 1
      PROVE  /\ i - 1 \in 1..last
             /\ end[i] = end[i - 1] + Len(seqs[i])
             /\ \A n \in 1..end[i - 1] : flat[i][n] = flat[i - 1][n]
             /\ \A n \in 1..Len(seqs[i]) : flat[i][end[i - 1] + n] = seqs[i][n]
  <2>1. i - 1 \in 1..last /\ i \in 2..last
    BY <1>1, <1>5
  <2>2. PICK a \in Seq(V), b \in Seq(V) : a = flat[i - 1] /\ b = seqs[i]
    BY <1>1, <1>3, <2>1
  <2>3. flat[i] = a \o b
    BY <1>2, <2>1, <2>2
  <2>4. Len(a \o b) = Len(a) + Len(b) /\ Len(a) \in Nat /\ Len(b) \in Nat
    BY ConcatProperties, LenProperties
  <2>5. /\ \A n \in 1..Len(a) : (a \o b)[n] = a[n]
        /\ \A n \in 1..Len(b) : (a \o b)[Len(a) + n] = b[n]
    BY <2>4
  <2>6. end[i] = Len(flat[i]) /\ end[i - 1] = Len(a)
    BY <1>4, <2>1, <2>2
  <2> QED
    BY <2>1, <2>2, <2>3, <2>4, <2>5, <2>6
<1>6. end[1] = Len(seqs[1]) /\ end[0] = 0 /\ 1 \in 1..last
  BY <1>1, <1>2, <1>4
<1>7. \A k \in 1..last : /\ end[k] = end[k - 1] + Len(seqs[k])
                         /\ end[k] \in Nat /\ end[k - 1] \in Nat /\ Len(seqs[k]) \in Nat
  <2> SUFFICES ASSUME NEW k \in 1..last
               PROVE  /\ end[k] = end[k - 1] + Len(seqs[k])
                      /\ end[k] \in Nat /\ end[k - 1] \in Nat /\ Len(seqs[k]) \in Nat
    OBVIOUS
  <2>1. k - 1 \in 0..last /\ k \in 0..last
    BY <1>1
  <2>2. end[k] \in Nat /\ end[k - 1] \in Nat /\ Len(seqs[k]) \in Nat
    BY <1>1, <2>1
  <2>3. end[k] = end[k - 1] + Len(seqs[k])
    BY <1>5, <1>6, <2>2
  <2> QED
    BY <2>2, <2>3
<1> DEFINE Holds(i) == \A k \in 1..i : \A n \in 1..Len(seqs[k]) :
                           /\ end[k - 1] + n <= end[i]
                           /\ flat[i][end[k - 1] + n] = seqs[k][n]
           S == {i \in Nat : i \in 1..last => Holds(i)}
<1>8. ASSUME NEW i \in Nat, i \in S, i + 1 \in 1..last,
             NEW k \in 1..i + 1, NEW n \in 1..Len(seqs[k])
      PROVE  /\ end[k - 1] + n <= end[i + 1]
             /\ flat[i + 1][end[k - 1] + n] = seqs[k][n]
  <2>1. k \in 1..last
    BY <1>1, <1>8
  <2>2. /\ end[k] = end[k - 1] + Len(seqs[k])
        /\ end[k - 1] \in Nat /\ Len(seqs[k]) \in Nat /\ n \in Nat /\ 1 <= n /\ n <= Len(seqs[k])
    BY <1>7, <2>1
  <2>3. CASE k = i + 1
    <3>1. end[k - 1] + n <= end[i + 1]
      BY <2>2, <2>3
    <3>2. CASE k = 1
      BY <1>2, <1>6, <2>2, <2>3, <3>1, <3>2
    <3>3. CASE k # 1
      BY <1>5, <2>1, <2>2, <2>3, <3>1, <3>3
    <3> QED
      BY <3>2, <3>3
  <2>4. CASE k # i + 1
    <3>1. /\ i + 1 # 1 /\ (i + 1) - 1 = i /\ i \in 1..last /\ k \in 1..i
      <4> HIDE DEF S
      <4>1. k \in Nat /\ 1 <= k /\ k <= i /\ i + 1 <= last
        BY <1>1, <1>8, <2>4
      <4> QED
        BY <1>1, <4>1
    <3>2. /\ end[k - 1] + n <= end[i]
          /\ flat[i][end[k - 1] + n] = seqs[k][n]
      BY <1>8, <3>1
    <3>3. /\ end[i + 1] = end[i] + Len(seqs[i + 1])
          /\ end[i] \in Nat /\ Len(seqs[i + 1]) \in Nat
      BY <1>7, <1>8, <3>1
    <3>4. PICK p \in Nat : p = end[k - 1] + n
      BY <2>2
    <3>5. p \in 1..end[i]
      BY <2>2, <3>2, <3>3, <3>4
    <3>6. flat[i + 1][p] = flat[i][p]
      BY <1>5, <1>8, <3>1, <3>5
    <3>7. p <= end[i + 1]
      BY <3>2, <3>3, <3>4
    <3> QED
      BY <3>2, <3>4, <3>6, <3>7
  <2> QED
    BY <2>3, <2>4
<1>9. Nat \subseteq S
  <2>1. 0 \in S
    BY <1>1
  <2>2. ASSUME NEW i \in Nat, i \in S PROVE i + 1 \in S
    <3>1. i + 1 \in 1..last => Holds(i + 1)
      <4> HIDE DEF S
      <4> QED BY <1>8, <2>2
    <3> HIDE DEF Holds
    <3> QED
      BY <3>1
  <2> HIDE DEF S
  <2> QED
    BY <2>1, <2>2, Induction
<1>10. last \in 1..last /\ last \in S
  <2>1. last \in 1..last
    BY <1>1
  <2> HIDE DEF S
  <2> QED
    BY <1>1, <1>9, <2>1
<1>11. Holds(last)
  BY <1>10
<1>12. end[last] = Len(FlattenSeq(seqs)) /\ FlattenSeq(seqs) \in Seq(V)
  BY <1>2, <1>3, <1>4, <1>10
<1> HIDE DEF Holds
<1>13. \A k \in 1..last : \A n \in 1..Len(seqs[k]) :
           /\ end[k - 1] + n <= Len(FlattenSeq(seqs))
           /\ FlattenSeq(seqs)[end[k - 1] + n] = seqs[k][n]
  BY <1>2, <1>11, <1>12 DEF Holds
<1> QED
  BY <1>6, <1>7, <1>12, <1>13 DEF last

\* What escape_like makes of one character.
Escaped(c) == IF c \in Wildcards \cup {Escape} THEN <<Escape, c>> ELSE <<c>>

\* A special character is preceded by the escape, any other stands alone.
LEMMA EscapedProperties ==
    ASSUME NEW c \in Characters
    PROVE  /\ Escaped(c) \in Seq(Characters)
           /\ c \in Wildcards \cup {Escape} =>
                  Len(Escaped(c)) = 2 /\ Escaped(c)[1] = Escape /\ Escaped(c)[2] = c
           /\ c \notin Wildcards \cup {Escape} => Len(Escaped(c)) = 1 /\ Escaped(c)[1] = c
<1>1. Escape \in Characters
  BY DEF Characters
<1> QED
  BY <1>1 DEF Escaped

\* The pattern of search_filter.
Pattern(q) == <<"%">> \o EscapeLike(q) \o <<"%">>

\* The character c of the query stands in the pattern, and the next one after it.
StandsAt(pattern, c, here, next) ==
    \/ /\ c \in Wildcards \cup {Escape}
       /\ pattern[here] = Escape /\ pattern[here + 1] = c
       /\ next = here + 2
    \/ /\ c \notin Wildcards \cup {Escape}
       /\ pattern[here] = c
       /\ next = here + 1

\* The pattern is the query, character by character, between two "%".
LEMMA PatternProperties ==
    ASSUME NEW q \in Seq(Characters), q # << >>
    PROVE  /\ Pattern(q) \in Seq(Characters)
           /\ Pattern(q)[1] = "%" /\ Pattern(q)[Len(Pattern(q))] = "%"
           /\ \E at \in [1..Len(q) + 1 -> 2..Len(Pattern(q))] :
                 /\ at[1] = 2 /\ at[Len(q) + 1] = Len(Pattern(q))
                 /\ \A k \in 1..Len(q) : StandsAt(Pattern(q), q[k], at[k], at[k + 1])
<1> DEFINE seqs == [k \in DOMAIN q |-> Escaped(q[k])]
           E == EscapeLike(q)
           P == Pattern(q)
<1>1. /\ Len(q) \in Nat /\ Len(q) # 0 /\ DOMAIN q = 1..Len(q)
      /\ \A k \in 1..Len(q) : q[k] \in Characters
  BY LenProperties, EmptySeq, ElementOfSeq
<1>2. /\ seqs \in Seq(Seq(Characters)) /\ Len(seqs) = Len(q)
      /\ \A k \in 1..Len(q) : seqs[k] = Escaped(q[k])
  BY <1>1, EscapedProperties
<1>3. E = FlattenSeq(seqs)
  BY DEF EscapeLike, Escaped
<1>4. /\ E \in Seq(Characters)
      /\ \E end \in [0..Len(q) -> Nat] :
            /\ end[0] = 0 /\ end[Len(q)] = Len(E)
            /\ \A k \in 1..Len(q) : end[k] = end[k - 1] + Len(seqs[k])
            /\ \A k \in 1..Len(q) : \A n \in 1..Len(seqs[k]) :
                   end[k - 1] + n <= Len(E) /\ E[end[k - 1] + n] = seqs[k][n]
  <2> HIDE DEF seqs, E
  <2>1. seqs \in Seq(Seq(Characters)) /\ Len(seqs) # 0
    BY <1>1, <1>2
  <2>2. /\ FlattenSeq(seqs) \in Seq(Characters)
        /\ \E end \in [0..Len(seqs) -> Nat] :
              /\ end[0] = 0 /\ end[Len(seqs)] = Len(FlattenSeq(seqs))
              /\ \A k \in 1..Len(seqs) : end[k] = end[k - 1] + Len(seqs[k])
              /\ \A k \in 1..Len(seqs) : \A n \in 1..Len(seqs[k]) :
                     /\ end[k - 1] + n <= Len(FlattenSeq(seqs))
                     /\ FlattenSeq(seqs)[end[k - 1] + n] = seqs[k][n]
    BY <2>1, FlattenProperties
  <2>3. PICK end \in [0..Len(seqs) -> Nat] :
            /\ end[0] = 0 /\ end[Len(seqs)] = Len(FlattenSeq(seqs))
            /\ \A k \in 1..Len(seqs) : end[k] = end[k - 1] + Len(seqs[k])
            /\ \A k \in 1..Len(seqs) : \A n \in 1..Len(seqs[k]) :
                   /\ end[k - 1] + n <= Len(FlattenSeq(seqs))
                   /\ FlattenSeq(seqs)[end[k - 1] + n] = seqs[k][n]
    BY <2>2
  <2>4. Len(seqs) = Len(q) /\ FlattenSeq(seqs) = E
    BY <1>2, <1>3
  <2>5. /\ end \in [0..Len(q) -> Nat]
        /\ end[0] = 0 /\ end[Len(q)] = Len(E)
        /\ \A k \in 1..Len(q) : end[k] = end[k - 1] + Len(seqs[k])
    BY <2>3, <2>4
  <2>6. \A k \in 1..Len(q) : \A n \in 1..Len(seqs[k]) :
            end[k - 1] + n <= Len(E) /\ E[end[k - 1] + n] = seqs[k][n]
    BY <2>3, <2>4
  <2> QED
    BY <2>2, <2>4, <2>5, <2>6
<1>5. PICK end \in [0..Len(q) -> Nat] :
          /\ end[0] = 0 /\ end[Len(q)] = Len(E)
          /\ \A k \in 1..Len(q) : end[k] = end[k - 1] + Len(seqs[k])
          /\ \A k \in 1..Len(q) : \A n \in 1..Len(seqs[k]) :
                 end[k - 1] + n <= Len(E) /\ E[end[k - 1] + n] = seqs[k][n]
  BY <1>4
<1> HIDE DEF seqs, E
<1>6. /\ P \in Seq(Characters) /\ Len(P) = Len(E) + 2 /\ Len(E) \in Nat
      /\ P[1] = "%" /\ P[Len(P)] = "%"
      /\ \A n \in 1..Len(E) : P[n + 1] = E[n]
  <2>1. "%" \in Characters
    BY DEF Characters, Wildcards
  <2>2. <<"%">> \in Seq(Characters) /\ Len(<<"%">>) = 1 /\ <<"%">>[1] = "%"
    BY <2>1
  <2>3. PICK a \in Seq(Characters) : a = <<"%">> /\ Len(a) = 1 /\ a[1] = "%"
    BY <2>2
  <2>4. PICK b \in Seq(Characters) : b = a \o E
    BY <1>4, ConcatProperties
  <2>5. /\ Len(b) = Len(E) + 1 /\ Len(E) \in Nat
        /\ b[1] = "%"
        /\ \A n \in 1..Len(E) : b[n + 1] = E[n]
    BY <1>4, <2>3, <2>4, ConcatProperties, LenProperties
  <2>6. P = b \o a
    BY <2>3, <2>4 DEF Pattern, E
  <2>7. /\ P \in Seq(Characters) /\ Len(P) = Len(E) + 2
        /\ \A n \in 1..Len(E) + 1 : P[n] = b[n]
        /\ P[Len(E) + 2] = "%"
    BY <2>3, <2>5, <2>6, ConcatProperties, LenProperties
  <2> QED
    BY <2>5, <2>7
<1> HIDE DEF P
<1> DEFINE at == [k \in 1..Len(q) + 1 |-> end[k - 1] + 2]
<1>7. \A k \in 1..Len(q) : /\ k - 1 \in 0..Len(q) /\ end[k - 1] \in Nat
                           /\ Len(seqs[k]) \in {1, 2}
                           /\ end[k - 1] + Len(seqs[k]) <= Len(E)
                           /\ end[k - 1] + 1 <= Len(E)
  <2> SUFFICES ASSUME NEW k \in 1..Len(q)
               PROVE  /\ k - 1 \in 0..Len(q) /\ end[k - 1] \in Nat
                      /\ Len(seqs[k]) \in {1, 2}
                      /\ end[k - 1] + Len(seqs[k]) <= Len(E)
                      /\ end[k - 1] + 1 <= Len(E)
    OBVIOUS
  <2>1. k - 1 \in 0..Len(q) /\ end[k - 1] \in Nat
    BY <1>1
  <2>2. Len(seqs[k]) \in {1, 2}
    BY <1>1, <1>2, EscapedProperties
  <2>3. end[k] = end[k - 1] + Len(seqs[k])
    BY <1>5
  <2>4. \A n \in 1..Len(seqs[k]) : end[k - 1] + n <= Len(E)
    BY <1>5
  <2>5. 1 \in 1..Len(seqs[k]) /\ Len(seqs[k]) \in 1..Len(seqs[k])
    BY <2>2
  <2> QED
    BY <2>1, <2>2, <2>4, <2>5
<1>8. at \in [1..Len(q) + 1 -> 2..Len(P)] /\ at[1] = 2 /\ at[Len(q) + 1] = Len(P)
  <2>1. \A k \in 1..Len(q) + 1 : k - 1 \in 0..Len(q) /\ end[k - 1] + 2 \in 2..Len(P)
    <3> SUFFICES ASSUME NEW k \in 1..Len(q) + 1
                 PROVE  k - 1 \in 0..Len(q) /\ end[k - 1] + 2 \in 2..Len(P)
      OBVIOUS
    <3>1. CASE k = Len(q) + 1
      BY <1>1, <1>5, <1>6, <3>1
    <3>2. CASE k # Len(q) + 1
      <4>1. k \in 1..Len(q)
        BY <1>1, <3>2
      <4>2. k - 1 \in 0..Len(q) /\ end[k - 1] \in Nat /\ end[k - 1] + 1 <= Len(E)
        BY <1>7, <4>1
      <4> QED
        BY <1>6, <4>2
    <3> QED
      BY <3>1, <3>2
  <2>2. 1 \in 1..Len(q) + 1 /\ Len(q) + 1 \in 1..Len(q) + 1 /\ (Len(q) + 1) - 1 = Len(q)
    BY <1>1
  <2> QED
    BY <1>5, <1>6, <2>1, <2>2
<1>9. ASSUME NEW k \in 1..Len(q) PROVE StandsAt(P, q[k], at[k], at[k + 1])
  <2>1. at[k] = end[k - 1] + 2 /\ at[k + 1] = end[k] + 2
    BY <1>1
  <2> HIDE DEF at
  <2>2. PICK e \in Nat : e = end[k - 1]
    BY <1>7
  <2>3. /\ end[k] = e + Len(seqs[k]) /\ e + Len(seqs[k]) <= Len(E) /\ Len(E) \in Nat
        /\ \A n \in 1..Len(seqs[k]) : e + n <= Len(E) /\ E[e + n] = seqs[k][n]
    BY <1>5, <1>6, <1>7, <2>2
  <2>4. CASE q[k] \in Wildcards \cup {Escape}
    <3>1. Len(seqs[k]) = 2 /\ seqs[k][1] = Escape /\ seqs[k][2] = q[k]
      BY <1>1, <1>2, <2>4, EscapedProperties
    <3>2. E[e + 1] = Escape /\ E[e + 2] = q[k] /\ e + 1 \in 1..Len(E) /\ e + 2 \in 1..Len(E)
      BY <2>3, <3>1
    <3>3. P[(e + 1) + 1] = Escape /\ P[(e + 2) + 1] = q[k]
      BY <1>6, <3>2
    <3>4. /\ at[k] = (e + 1) + 1 /\ at[k] + 1 = (e + 2) + 1
          /\ at[k + 1] = at[k] + 2
      BY <2>1, <2>2, <2>3, <3>1
    <3> QED
      BY <2>4, <3>3, <3>4 DEF StandsAt
  <2>5. CASE q[k] \notin Wildcards \cup {Escape}
    <3>1. Len(seqs[k]) = 1 /\ seqs[k][1] = q[k]
      BY <1>1, <1>2, <2>5, EscapedProperties
    <3>2. E[e + 1] = q[k] /\ e + 1 \in 1..Len(E)
      BY <2>3, <3>1
    <3>3. P[(e + 1) + 1] = q[k]
      BY <1>6, <3>2
    <3>4. /\ at[k] = (e + 1) + 1
          /\ at[k + 1] = at[k] + 1
      BY <2>1, <2>2, <2>3, <3>1
    <3> QED
      BY <2>5, <3>3, <3>4 DEF StandsAt
  <2> QED
    BY <2>4, <2>5
<1> HIDE DEF at
<1> QED
  BY <1>6, <1>8, <1>9 DEF P

\* The query stands in the text from j on, its character k first.
MatchesFrom(q, text, k, j) ==
    /\ j + (Len(q) + 1 - k) <= Len(text) + 1
    /\ \A l \in k..Len(q) : Same(q[l], text[j + (l - k)])

\* What a pattern from i on matches, for each kind of character there.
LEMMA StartsAtEnd ==
    ASSUME NEW text, NEW pattern, NEW starts, NEW i, i > Len(pattern)
    PROVE  StartsAt(text, pattern, starts, i) = {Len(text) + 1}
  BY DEF StartsAt

\* The places up to one of these.
UpTo(text, places) == {j \in 1..Len(text) + 1 : \E k \in places : j <= k}

LEMMA StartsAtPercent ==
    ASSUME NEW text, NEW pattern, NEW starts, NEW i, ~(i > Len(pattern)), pattern[i] = "%"
    PROVE  StartsAt(text, pattern, starts, i) = UpTo(text, starts[i + 1])
  BY Zenon DEF StartsAt, UpTo

\* The places of such a character, with one of these after it.
OneOf(text, c, places) == {j \in 1..Len(text) : Same(c, text[j]) /\ j + 1 \in places}

LEMMA StartsAtEscape ==
    ASSUME NEW text, NEW pattern, NEW starts, NEW i,
           ~(i > Len(pattern)), i < Len(pattern), pattern[i] = Escape
    PROVE  StartsAt(text, pattern, starts, i) = OneOf(text, pattern[i + 1], starts[i + 2])
<1>1. pattern[i] # "%" /\ pattern[i] # "_"
  BY DEF Escape
<1> QED
  BY <1>1 DEF StartsAt, OneOf

LEMMA StartsAtCharacter ==
    ASSUME NEW text, NEW pattern, NEW starts, NEW i,
           ~(i > Len(pattern)), pattern[i] \notin Wildcards \cup {Escape}
    PROVE  StartsAt(text, pattern, starts, i) = OneOf(text, pattern[i], starts[i + 1])
<1>1. pattern[i] # "%" /\ pattern[i] # "_" /\ pattern[i] # Escape
  BY DEF Wildcards
<1> QED
  BY <1>1 DEF StartsAt, OneOf

\* The pattern made of a query matches exactly the texts in which the query
\* occurs: backwards from the last "%", which matches anything, one character of
\* the query after the other.
LEMMA LikeFinds ==
    ASSUME NEW q \in Seq(Characters), q # << >>, NEW text \in Seq(Characters)
    PROVE  Like(text, Pattern(q)) <=> Occurs(q, text)
<1> DEFINE P == Pattern(q)
           T == Len(text)
           m == Len(q)
<1>1. /\ m \in Nat /\ m # 0 /\ T \in Nat
      /\ \A k \in 1..m : q[k] \in Characters
  BY LenProperties, EmptySeq, ElementOfSeq
<1>2. P \in Seq(Characters) /\ P[1] = "%" /\ P[Len(P)] = "%"
  BY PatternProperties
<1>3. PICK at \in [1..m + 1 -> 2..Len(P)] :
          /\ at[1] = 2 /\ at[m + 1] = Len(P)
          /\ \A k \in 1..m : StandsAt(P, q[k], at[k], at[k + 1])
  BY PatternProperties
<1> HIDE DEF P
<1>4. Len(P) \in Nat /\ 2 <= Len(P)
  <2>1. Len(P) \in Nat
    BY <1>2, LenProperties
  <2>2. at[1] \in 2..Len(P)
    BY <1>1, <1>3
  <2> QED
    BY <2>1, <2>2
<1>5. PICK starts \in [1..Len(P) + 1 -> SUBSET (1..T + 1)] :
          /\ \A i \in 1..Len(P) + 1 : starts[i] = StartsAt(text, P, starts, i)
          /\ Like(text, P) <=> 1 \in starts[1]
  BY <1>2, LikeIsDefined
<1>6. starts[Len(P)] = 1..T + 1
  <2>1. starts[Len(P) + 1] = {T + 1}
    <3>1. Len(P) + 1 \in 1..Len(P) + 1 /\ Len(P) + 1 > Len(P)
      BY <1>4
    <3> QED
      BY <1>5, <3>1, StartsAtEnd
  <2>2. starts[Len(P)] = {j \in 1..T + 1 : \E k \in starts[Len(P) + 1] : j <= k}
    <3>1. Len(P) \in 1..Len(P) + 1 /\ ~(Len(P) > Len(P))
      BY <1>4
    <3>2. StartsAt(text, P, starts, Len(P)) = UpTo(text, starts[Len(P) + 1])
      BY <1>2, <3>1, StartsAtPercent
    <3> QED
      BY <1>5, <3>1, <3>2 DEF UpTo
  <2> QED
    BY <1>1, <2>1, <2>2
<1>7. 1 \in starts[1] <=> starts[2] # {}
  <2>1. starts[1] = {j \in 1..T + 1 : \E k \in starts[2] : j <= k}
    <3>1. 1 \in 1..Len(P) + 1 /\ ~(1 > Len(P)) /\ 1 + 1 = 2
      BY <1>4
    <3>2. StartsAt(text, P, starts, 1) = UpTo(text, starts[1 + 1])
      BY <1>2, <3>1, StartsAtPercent
    <3>3. starts[1] = StartsAt(text, P, starts, 1)
      BY <1>5, <3>1
    <3> QED
      BY <3>1, <3>2, <3>3 DEF UpTo
  <2>2. starts[2] \in SUBSET (1..T + 1)
    <3>1. 2 \in 1..Len(P) + 1
      BY <1>4
    <3> QED
      BY <3>1
  <2> QED
    BY <1>1, <2>1, <2>2
<1>8. ASSUME NEW k \in 1..m
      PROVE  starts[at[k]] = {j \in 1..T : Same(q[k], text[j]) /\ j + 1 \in starts[at[k + 1]]}
  <2>1. k + 1 \in 1..m + 1 /\ k \in 1..m + 1
    BY <1>1
  <2>2. PICK here \in 2..Len(P), next \in 2..Len(P) : here = at[k] /\ next = at[k + 1]
    BY <1>3, <2>1
  <2>3. StandsAt(P, q[k], here, next)
    BY <1>3, <2>2
  <2>4. starts[here] = StartsAt(text, P, starts, here)
    BY <1>4, <1>5, <2>2
  <2>5. CASE q[k] \in Wildcards \cup {Escape}
    <3>1. P[here] = Escape /\ P[here + 1] = q[k] /\ next = here + 2
      BY <2>3, <2>5 DEF StandsAt
    <3>2. ~(here > Len(P)) /\ here < Len(P)
      BY <1>4, <2>2, <3>1
    <3>3. StartsAt(text, P, starts, here) = OneOf(text, P[here + 1], starts[here + 2])
      BY <3>1, <3>2, StartsAtEscape
    <3> QED
      BY <2>2, <2>4, <3>1, <3>3 DEF OneOf
  <2>6. CASE q[k] \notin Wildcards \cup {Escape}
    <3>1. P[here] = q[k] /\ next = here + 1
      BY <2>3, <2>6 DEF StandsAt
    <3>2. ~(here > Len(P))
      BY <1>4, <2>2
    <3>3. P[here] \notin Wildcards \cup {Escape}
      BY <2>6, <3>1
    <3>4. StartsAt(text, P, starts, here) = OneOf(text, P[here], starts[here + 1])
      BY <3>2, <3>3, StartsAtCharacter
    <3> QED
      BY <2>2, <2>4, <3>1, <3>4 DEF OneOf
  <2> QED
    BY <2>5, <2>6
<1> DEFINE Right(k) == starts[at[k]] = {j \in 1..T + 1 : MatchesFrom(q, text, k, j)}
           S == {n \in Nat : n <= m => Right(m + 1 - n)}
<1>9. 0 \in S
  <2>1. at[m + 1 - 0] = Len(P)
    BY <1>1, <1>3
  <2>2. \A j \in 1..T + 1 : MatchesFrom(q, text, m + 1 - 0, j)
    BY <1>1 DEF MatchesFrom
  <2> QED
    BY <1>6, <2>1, <2>2
<1>10. ASSUME NEW n \in Nat, n \in S PROVE n + 1 \in S
  <2> SUFFICES ASSUME n + 1 <= m PROVE Right(m + 1 - (n + 1))
    <3> HIDE DEF Right
    <3> QED OBVIOUS
  <2>1. PICK k \in 1..m : k = m + 1 - (n + 1) /\ k + 1 = m + 1 - n
    BY <1>1
  <2>2. Right(k + 1)
    <3> HIDE DEF Right
    <3>1. n <= m
      BY <1>1
    <3> QED
      BY <1>10, <2>1, <3>1
  <2>3. ASSUME NEW j \in 1..T + 1
        PROVE  j \in starts[at[k]] <=> MatchesFrom(q, text, k, j)
    <3>1. j \in starts[at[k]] <=>
              j \in 1..T /\ Same(q[k], text[j]) /\ MatchesFrom(q, text, k + 1, j + 1)
      <4>1. j \in 1..T => j + 1 \in 1..T + 1
        BY <1>1
      <4> QED
        BY <1>8, <2>2, <4>1
    <3>2. ASSUME j \in 1..T, Same(q[k], text[j]), MatchesFrom(q, text, k + 1, j + 1)
          PROVE  MatchesFrom(q, text, k, j)
      <4>1. (j + 1) + (m + 1 - (k + 1)) <= T + 1
        BY <3>2 DEF MatchesFrom
      <4>2. j + (m + 1 - k) <= T + 1
        BY <1>1, <3>2, <4>1
      <4>3. ASSUME NEW l \in k..m PROVE Same(q[l], text[j + (l - k)])
        <5>1. CASE l = k
          <6>1. j + (l - k) = j
            BY <1>1, <3>2, <5>1
          <6> QED
            BY <3>2, <5>1, <6>1
        <5>2. CASE l # k
          <6>1. l \in k + 1..m /\ (j + 1) + (l - (k + 1)) = j + (l - k)
            BY <1>1, <3>2, <5>2
          <6> QED
            BY <3>2, <6>1 DEF MatchesFrom
        <5> QED
          BY <5>1, <5>2
      <4> QED
        BY <4>2, <4>3 DEF MatchesFrom
    <3>3. ASSUME MatchesFrom(q, text, k, j)
          PROVE  j \in 1..T /\ Same(q[k], text[j]) /\ MatchesFrom(q, text, k + 1, j + 1)
      <4>1. j + (m + 1 - k) <= T + 1 /\ \A l \in k..m : Same(q[l], text[j + (l - k)])
        BY <3>3 DEF MatchesFrom
      <4>2. j \in 1..T /\ (j + 1) + (m + 1 - (k + 1)) <= T + 1
        BY <1>1, <4>1
      <4>3. k \in k..m /\ j + (k - k) = j
        BY <1>1
      <4>4. \A l \in k + 1..m : l \in k..m /\ (j + 1) + (l - (k + 1)) = j + (l - k)
        BY <1>1
      <4>5. MatchesFrom(q, text, k + 1, j + 1)
        BY <4>1, <4>2, <4>4 DEF MatchesFrom
      <4> QED
        BY <4>1, <4>2, <4>3, <4>5
    <3> QED
      BY <3>1, <3>2, <3>3
  <2>4. starts[at[k]] \subseteq 1..T + 1
    <3>1. k \in 1..m + 1
      BY <1>1
    <3>2. at[k] \in 2..Len(P)
      BY <1>3, <3>1
    <3>3. at[k] \in 1..Len(P) + 1
      BY <1>4, <3>2
    <3> QED
      BY <1>5, <3>3
  <2> QED
    BY <2>1, <2>3, <2>4
<1>11. m \in S
  <2> HIDE DEF S
  <2> QED
    BY <1>1, <1>9, <1>10, Induction
<1>12. starts[2] = {j \in 1..T + 1 : MatchesFrom(q, text, 1, j)}
  <2>1. m + 1 - m = 1 /\ m <= m
    BY <1>1
  <2>2. Right(1)
    <3> HIDE DEF Right
    <3> QED BY <1>11, <2>1
  <2> QED
    BY <1>3, <2>2
<1>13. Occurs(q, text) <=> \E j \in 1..T + 1 : MatchesFrom(q, text, 1, j)
  <2>0. DOMAIN q = 1..m
    BY LenProperties
  <2>1. ASSUME NEW k \in 0..T - m, \A n \in DOMAIN q : Same(q[n], text[k + n])
        PROVE  k + 1 \in 1..T + 1 /\ MatchesFrom(q, text, 1, k + 1)
    <3>1. k + 1 \in 1..T + 1 /\ (k + 1) + (m + 1 - 1) <= T + 1
      BY <1>1
    <3>2. \A l \in 1..m : (k + 1) + (l - 1) = k + l
      BY <1>1
    <3> QED
      BY <2>0, <2>1, <3>1, <3>2 DEF MatchesFrom
  <2>2. ASSUME NEW j \in 1..T + 1, MatchesFrom(q, text, 1, j)
        PROVE  j - 1 \in 0..T - m /\ \A n \in DOMAIN q : Same(q[n], text[(j - 1) + n])
    <3>1. j + (m + 1 - 1) <= T + 1 /\ \A l \in 1..m : Same(q[l], text[j + (l - 1)])
      BY <2>2 DEF MatchesFrom
    <3>2. j - 1 \in 0..T - m
      BY <1>1, <3>1
    <3>3. \A l \in 1..m : j + (l - 1) = (j - 1) + l
      BY <1>1
    <3> QED
      BY <2>0, <3>1, <3>2, <3>3
  <2> QED
    BY <2>1, <2>2 DEF Occurs
<1> QED
  BY <1>5, <1>7, <1>12, <1>13 DEF P

\* A set of numbers has a least and a greatest member.
LEMMA Extremes ==
    ASSUME NEW found \in SUBSET Nat, IsFiniteSet(found), found # {}
    PROVE  /\ \E n \in found : \A k \in found : n <= k
           /\ \E n \in found : \A k \in found : k <= n
<1> DEFINE size == Cardinality(found)
<1>1. size \in Nat /\ size # 0
  BY FS_EmptySet, FS_CardinalityType
<1>2. \A s \in found : Cardinality(Before(s, found)) \in 0..size - 1 /\ s \in Nat
  BY RankGrows
<1>3. \A s, t \in found : s < t => Cardinality(Before(s, found)) < Cardinality(Before(t, found))
  BY RankGrows
<1>4. PICK n \in found : Cardinality(Before(n, found)) = 1 - 1
  <2>1. 1 \in 1..size
    BY <1>1
  <2> QED BY <2>1, NthExists
<1>5. PICK m \in found : Cardinality(Before(m, found)) = size - 1
  <2>1. size \in 1..size
    BY <1>1
  <2> QED BY <2>1, NthExists
<1>6. \A k \in found : n <= k /\ k <= m
  <2> SUFFICES ASSUME NEW k \in found PROVE n <= k /\ k <= m
    OBVIOUS
  <2> HIDE DEF size
  <2> QED
    BY <1>1, <1>2, <1>3, <1>4, <1>5
<1> QED
  BY <1>6

\* A trimmed text is a text.
LEMMA TrimType == \A q \in Seq(Characters) : TrimText(q) \in Seq(Characters)
<1> SUFFICES ASSUME NEW q \in Seq(Characters) PROVE TrimText(q) \in Seq(Characters)
  OBVIOUS
<1> DEFINE kept == {n \in DOMAIN q : q[n] # Space}
           first == CHOOSE n \in kept : \A k \in kept : n <= k
           last == CHOOSE n \in kept : \A k \in kept : k <= n
<1>1. DOMAIN q = 1..Len(q) /\ Len(q) \in Nat
  BY LenProperties
<1>2. CASE kept = {}
  BY <1>2, EmptySeq DEF TrimText
<1>3. CASE kept # {}
  <2>1. kept \in SUBSET Nat /\ kept \subseteq 1..Len(q) /\ IsFiniteSet(1..Len(q))
    BY <1>1, FS_Interval
  <2>2. IsFiniteSet(kept)
    BY <2>1, FS_Subset
  <2>3. first \in kept /\ last \in kept
    <3> HIDE DEF kept
    <3> QED BY <1>3, <2>1, <2>2, Extremes
  <2>4. \A n \in first..last : q[n] \in Characters
    <3> HIDE DEF first, last
    <3> QED BY <1>1, <2>1, <2>3, ElementOfSeq
  <2>5. SubSeq(q, first, last) \in Seq(Characters)
    <3> HIDE DEF first, last
    <3> QED BY <1>1, <2>1, <2>3, <2>4
  <2> QED
    BY <1>3, <2>5 DEF TrimText
<1> QED
  BY <1>2, <1>3

\* search_filter and escape_like find exactly what the user means: for every query
\* and all texts, with "%", "_" and "\" anywhere in them, a text matches the
\* pattern if and only if the trimmed query occurs in it (native-host/src/db.rs).
THEOREM SearchFindsWhatIsMeant ==
    ASSUME NEW q \in Seq(Characters), NEW texts, texts \subseteq Seq(Characters)
    PROVE  Matches(q, texts) = Meant(q, texts)
<1>1. TrimText(q) \in Seq(Characters)
  BY TrimType
<1>2. CASE TrimText(q) = << >>
  BY <1>2 DEF Matches, Meant
<1>3. CASE TrimText(q) # << >>
  <2>1. \A text \in texts : Like(text, Pattern(TrimText(q))) <=> Occurs(TrimText(q), text)
    BY <1>1, <1>3, LikeFinds
  <2> QED
    BY <1>3, <2>1 DEF Matches, Meant, Pattern
<1> QED
  BY <1>2, <1>3

\* So what the host finds is what the list is specified with.
LEMMA FoundIsMeant == Found = MeantBy
<1>1. \A q \in Queries, s \in Snippets : Matches(q, Texts[s]) = Meant(q, Texts[s])
  BY ListAssumption, SearchFindsWhatIsMeant
<1> QED
  BY <1>1 DEF Found, MeantBy

\* A sorted set is a sequence of its members, as long as the set.
LEMMA SortedType ==
    ASSUME NEW found \in SUBSET Snippets
    PROVE  /\ Sorted(found) \in Seq(Snippets)
           /\ Len(Sorted(found)) = Cardinality(found)
           /\ Len(Sorted(found)) <= Cardinality(Snippets)
           /\ Cardinality(Snippets) \in Nat
<1>1. /\ IsFiniteSet(found) /\ Cardinality(found) \in Nat /\ found \in SUBSET Nat
      /\ Cardinality(found) <= Cardinality(Snippets)
      /\ Cardinality(Snippets) \in Nat
  BY ListAssumption, FS_Subset, FS_CardinalityType
<1>2. \A n \in 1..Cardinality(found) : Sorted(found)[n] \in Snippets
  <2> TAKE n \in 1..Cardinality(found)
  <2>1. \E s \in found : Cardinality(Before(s, found)) = n - 1
    BY <1>1, NthExists
  <2> QED
    BY <2>1 DEF Sorted
<1>3. Sorted(found) \in [1..Cardinality(found) -> Snippets]
  BY <1>2 DEF Sorted
<1> QED
  BY <1>1, <1>3, SeqDef, LenProperties

\* The n-th has n - 1 before it.
LEMMA SortedRanks ==
    ASSUME NEW found \in SUBSET Snippets, NEW n \in 1..Cardinality(found)
    PROVE  /\ Sorted(found)[n] \in found
           /\ Cardinality(Before(Sorted(found)[n], found)) = n - 1
<1>1. \E s \in found : Cardinality(Before(s, found)) = n - 1
  BY ListAssumption, FS_Subset, NthExists
<1> QED
  BY <1>1 DEF Sorted

LEMMA ResultType ==
    ASSUME TypeOK, NEW view
    PROVE  /\ Result(view) \in Seq(Snippets)
           /\ Len(Result(view)) \in Nat
           /\ Len(Result(view)) <= Cardinality(Snippets)
           /\ Cardinality(Snippets) \in Nat
<1>1. db \cap Found[view[1]] \cap InCategory(view[2]) \in SUBSET Snippets
  BY DEF TypeOK
<1> QED
  BY <1>1, SortedType, LenProperties DEF Result

LEMMA MinOf ==
    ASSUME NEW a \in Int, NEW b \in Int
    PROVE  Min({a, b}) = IF a <= b THEN a ELSE b
BY DEF Min

\* What a page is: the rows of the result after the offset.
LEMMA PageType ==
    ASSUME TypeOK, NEW view, NEW from \in Nat
    PROVE  LET page == Page(view, from) IN
           /\ page \in Seq(Snippets)
           /\ Len(page) \in Nat
           /\ from + Len(page) <= Len(Result(view)) \/ Len(page) = 0
           /\ \A n \in 1..Len(page) : page[n] = Result(view)[from + n]
<1> DEFINE result == Result(view)
           last == Min({from + PageSize, Len(result)})
           page == Page(view, from)
<1>1. result \in Seq(Snippets) /\ Len(result) \in Nat
  BY ResultType
<1>2. last \in Int /\ last <= Len(result)
  BY <1>1, ListAssumption, MinOf
<1>3. \A n \in (from + 1)..last : result[n] \in Snippets
  BY <1>1, <1>2, ElementOfSeq
<1>4. /\ page \in Seq(Snippets)
      /\ Len(page) = IF from + 1 <= last THEN last - (from + 1) + 1 ELSE 0
      /\ \A n \in 1..last - (from + 1) + 1 : page[n] = result[(from + 1) + n - 1]
  <2> HIDE DEF result, last
  <2>1. from + 1 \in Int
    OBVIOUS
  <2>2. page = SubSeq(result, from + 1, last)
    BY DEF Page, result, last
  <2> QED
    BY <1>2, <1>3, <2>1, <2>2, SubSeqProperties
<1> HIDE DEF page, last, result
<1>5. \A n \in 1..Len(page) : page[n] = result[from + n]
  <2> TAKE n \in 1..Len(page)
  <2>1. n \in 1..last - (from + 1) + 1 /\ (from + 1) + n - 1 = from + n
    BY <1>2, <1>4
  <2> QED
    BY <1>4, <2>1
<1>6. Len(page) \in Nat /\ (from + Len(page) <= Len(result) \/ Len(page) = 0)
  BY <1>1, <1>2, <1>4
<1> QED
  BY <1>4, <1>5, <1>6 DEF page, result

------------------------------------------------------------------------------
\* The invariant, action by action.

LEMMA InitIInv == Init => IInv
<1> SUFFICES ASSUME Init PROVE IInv
  OBVIOUS
<1>1. Cardinality(Snippets) \in Nat
  BY ListAssumption, FS_CardinalityType
<1>2. TypeOK
  <2>1. << >> \in Seq(Requests) /\ << >> \in Seq(Answers) /\ << >> \in Seq(Rows)
    BY EmptySeq
  <2>2. << >> \in Queries /\ All \in Categories /\ 0 \in 0..MaxLoads /\ 0 \in 0..MaxEdits
    BY ListAssumption
  <2> QED
    BY <2>1, <2>2 DEF Init, TypeOK
<1>3. LoadsLeft
  BY ListAssumption DEF Init, LoadsLeft, Due
<1>4. OffsetsInRange /\ LatestGoesOn /\ SpinnerIsLatest /\ RowsMatchFilter
  BY <1>1 DEF Init, OffsetsInRange, LatestGoesOn, SpinnerIsLatest, RowsMatchFilter
<1>5. AnswersStand /\ RowsStand
  BY DEF Init, AnswersStand, RowsStand
<1> QED
  BY <1>2, <1>3, <1>4, <1>5 DEF IInv

\* The popup is opened again.
LEMMA ReopenIInv ==
    ASSUME IInv, Reopen
    PROVE  IInv'
<1>1. Cardinality(Snippets) \in Nat
  BY ListAssumption, FS_CardinalityType
<1>2. TypeOK'
  <2>1. << >> \in Seq(Requests) /\ << >> \in Seq(Answers) /\ << >> \in Seq(Rows)
    BY EmptySeq
  <2>2. << >> \in Queries /\ All \in Categories /\ 0 \in 0..MaxLoads /\ 0 \in 0..MaxEdits
    BY ListAssumption
  <2> QED
    BY <2>1, <2>2 DEF IInv, Reopen, TypeOK
<1>3. LoadsLeft'
  BY ListAssumption DEF Reopen, LoadsLeft, Due
<1>4. (OffsetsInRange /\ LatestGoesOn /\ SpinnerIsLatest /\ RowsMatchFilter)'
  BY <1>1 DEF Reopen, OffsetsInRange, LatestGoesOn, SpinnerIsLatest, RowsMatchFilter
<1>5. (AnswersStand /\ RowsStand)'
  BY DEF Reopen, AnswersStand, RowsStand
<1> QED
  BY <1>2, <1>3, <1>4, <1>5 DEF IInv

\* A load: a new list for the filter there is now, or more of the same list.
LEMMA LoadIInv ==
    ASSUME IInv, NEW reset \in BOOLEAN, Load(reset, <<query', category'>>),
           <<query', category'>> \in Views, timer' \in BOOLEAN,
           opening' \in {"hello", "categories", "done"}, menu' \in BOOLEAN,
           menu' => opening' = "done",
           generation + 1 + Due' <= MaxLoads,
           ~reset => UNCHANGED <<filter, timer>>
    PROVE  IInv'
<1> DEFINE from == IF reset THEN 0 ELSE offset
           request == [gen |-> generation + 1, reset |-> reset,
                       view |-> <<query', category'>>, from |-> from]
<1> USE DEF IInv
<1>1. Due' \in Nat /\ generation + 1 \in Generations
  BY ListAssumption DEF Due, TypeOK, Generations
<1>2. from \in 0..Cardinality(Snippets)
  BY ListAssumption, FS_CardinalityType DEF OffsetsInRange, TypeOK
<1>3. request \in Requests
  BY <1>1, <1>2 DEF Requests
<1>4. /\ inbox' = Append(inbox, request)
      /\ waiting' = waiting \cup {request}
      /\ generation' = generation + 1
      /\ offset' = from
      /\ loading' = TRUE /\ failed' = FALSE
      /\ items' = IF reset THEN << >> ELSE items
      /\ hasMore' = (hasMore /\ ~reset)
      /\ UNCHANGED <<db, edits, counted, outbox>>
  BY DEF Load, desktop
<1> HIDE DEF request, from
<1>5. TypeOK'
  <2>1. query' \in Queries /\ category' \in Categories
    BY DEF Views
  <2>2. inbox' \in Seq(Requests) /\ waiting' \subseteq Requests
    BY <1>3, <1>4 DEF TypeOK
  <2>3. generation' \in 0..MaxLoads /\ offset' \in Nat /\ items' \in Seq(Rows)
    BY <1>1, <1>2, <1>4 DEF TypeOK, Generations
  <2> QED
    BY <1>4, <2>1, <2>2, <2>3 DEF TypeOK
<1>6. LoadsLeft'
  BY <1>4 DEF LoadsLeft
<1>7. OffsetsInRange'
  BY <1>2, <1>4 DEF OffsetsInRange, from
<1>8. LatestGoesOn'
  <2>1. \A r \in waiting : r.gen <= generation /\ r.gen \in Nat /\ generation \in Nat
    BY DEF LatestGoesOn, TypeOK, Requests, Generations
  <2>2. request.gen = generation' /\ request.from = offset'
        /\ (request.reset => items' = << >>) /\ request.view = <<query', category'>>
    BY <1>4 DEF request
  <2>3. \A r \in waiting' : r.gen <= generation' /\ (r.gen = generation' => r = request)
    <3> TAKE r \in waiting'
    <3>1. CASE r \in waiting
      BY <3>1, <1>4, <2>1
    <3>2. CASE r = request
      BY <3>2, <1>1, <1>4, <2>2 DEF Generations
    <3> QED
      BY <3>1, <3>2, <1>4
  <2> QED
    BY <2>2, <2>3 DEF LatestGoesOn, Latest
<1>9. SpinnerIsLatest'
  BY <1>4 DEF SpinnerIsLatest, Latest, request
<1>10. RowsMatchFilter'
  BY <1>4 DEF RowsMatchFilter, filter
<1>11. AnswersStand'
  <2>1. inbox # << >> => inbox' # << >> /\ Head(inbox') = Head(inbox)
    BY <1>3, <1>4 DEF TypeOK
  <2> QED
    BY <1>4, <2>1 DEF AnswersStand, Stands, Result, Page
<1>12. RowsStand'
  <2>1. CASE reset
    BY <1>4, <2>1 DEF RowsStand
  <2>2. CASE ~reset
    <3>1. UNCHANGED <<timer, edits, db, items, query, category>> /\ loading'
      BY <1>4, <2>2 DEF filter
    <3> QED
      BY <3>1 DEF RowsStand, Result
  <2> QED
    BY <2>1, <2>2
<1> QED
  BY <1>5, <1>6, <1>7, <1>8, <1>9, <1>10, <1>11, <1>12

\* The popup's own steps.
LEMMA PopupIInv ==
    ASSUME IInv,
           \/ Hello \/ FirstLoad \/ SearchNow \/ LoadMore
           \/ \E q \in Queries : Type(q)
           \/ \E c \in Categories : Choose(c)
    PROVE  IInv'
<1> USE DEF IInv, filter, start
<1>0. generation \in Nat /\ MaxLoads \in Nat /\ timer \in BOOLEAN
  BY ListAssumption DEF TypeOK
<1>1. CASE Hello
  <2> USE <1>1 DEF Hello, desktop, server
  <2>1. TypeOK'
    BY DEF TypeOK
  <2>2. LoadsLeft'
    BY <1>0 DEF LoadsLeft, Due
  <2>3. (OffsetsInRange /\ LatestGoesOn /\ SpinnerIsLatest /\ RowsMatchFilter)'
    BY DEF OffsetsInRange, LatestGoesOn, Latest, SpinnerIsLatest, RowsMatchFilter
  <2>4. AnswersStand'
    BY DEF AnswersStand, Stands, Result, Page
  <2>5. RowsStand'
    BY DEF RowsStand, Result, TypeOK
  <2> QED
    BY <2>1, <2>2, <2>3, <2>4, <2>5
<1>2. CASE FirstLoad
  <2>1. generation + 1 + Due' <= MaxLoads
    BY <1>0, <1>2 DEF FirstLoad, LoadsLeft, Due
  <2>2. Load(TRUE, <<query', category'>>) /\ <<query', category'>> \in Views
    BY <1>2 DEF FirstLoad, TypeOK, Views
  <2> QED
    BY <1>0, <1>2, <2>1, <2>2, LoadIInv DEF FirstLoad
<1>3. CASE SearchNow
  <2>1. generation + 1 + Due' <= MaxLoads
    BY <1>0, <1>3 DEF SearchNow, LoadsLeft, Due
  <2>2. Load(TRUE, <<query', category'>>) /\ <<query', category'>> \in Views
    BY <1>3 DEF SearchNow, TypeOK, Views
  <2> QED
    BY <1>3, <2>1, <2>2, LoadIInv DEF SearchNow, TypeOK
<1>4. CASE LoadMore
  <2>1. generation + 1 + Due' <= MaxLoads
    BY <1>0, <1>4 DEF LoadMore, Room, Due
  <2>2. Load(FALSE, <<query', category'>>) /\ <<query', category'>> \in Views
    BY <1>4 DEF LoadMore, TypeOK, Views
  <2> QED
    BY <1>4, <2>1, <2>2, LoadIInv DEF LoadMore, TypeOK
<1>5. ASSUME NEW c \in Categories, Choose(c)
      PROVE  IInv'
  <2>1. generation + 1 + Due' <= MaxLoads
    BY <1>0, <1>5 DEF Choose, Room, Due
  <2>2. Load(TRUE, <<query', category'>>) /\ <<query', category'>> \in Views
    BY <1>5 DEF Choose, TypeOK, Views
  <2> QED
    BY <1>5, <2>1, <2>2, LoadIInv DEF Choose, TypeOK
<1>6. ASSUME NEW q \in Queries, Type(q)
      PROVE  IInv'
  <2> USE <1>6 DEF Type, desktop, server, list
  <2>1. TypeOK'
    BY DEF TypeOK
  <2>2. LoadsLeft'
    BY <1>0 DEF LoadsLeft, Room, Due
  <2>3. (OffsetsInRange /\ LatestGoesOn /\ SpinnerIsLatest /\ RowsMatchFilter)'
    BY DEF OffsetsInRange, LatestGoesOn, Latest, SpinnerIsLatest, RowsMatchFilter
  <2>4. AnswersStand'
    BY DEF AnswersStand, Stands, Result, Page
  <2>5. RowsStand'
    BY DEF RowsStand
  <2> QED
    BY <2>1, <2>2, <2>3, <2>4, <2>5
<1> QED
  BY <1>1, <1>2, <1>3, <1>4, <1>5, <1>6

\* The host counts, and the desktop edits.
LEMMA CountEditIInv ==
    ASSUME IInv, Count \/ \E s \in Snippets : Edit(s)
    PROVE  IInv'
<1> USE DEF IInv, filter, start
<1>1. CASE Count
  <2> USE <1>1 DEF Count, desktop, list
  <2>1. Len(Result(Head(inbox).view)) \in Nat
    BY ResultType
  <2>2. TypeOK'
    BY <2>1 DEF TypeOK
  <2>3. (LoadsLeft /\ OffsetsInRange /\ LatestGoesOn)'
    BY DEF LoadsLeft, Due, OffsetsInRange, LatestGoesOn, Latest
  <2>4. (SpinnerIsLatest /\ RowsMatchFilter)'
    BY DEF SpinnerIsLatest, Latest, RowsMatchFilter
  <2>5. AnswersStand'
    <3>1. \A n \in DOMAIN outbox : edits = 0 => Stands(outbox[n])
      BY DEF AnswersStand
    <3>2. inbox # << >> /\ counted' = Len(Result(Head(inbox).view))
      OBVIOUS
    <3> QED
      BY <3>1, <3>2 DEF AnswersStand, Stands, Result, Page
  <2>6. RowsStand'
    BY DEF RowsStand, Result
  <2> QED
    BY <2>2, <2>3, <2>4, <2>5, <2>6
<1>2. ASSUME NEW s \in Snippets, Edit(s)
      PROVE  IInv'
  <2> USE <1>2 DEF Edit, server, list
  <2>1. edits' \in 1..MaxEdits
    BY ListAssumption DEF TypeOK
  <2>2. TypeOK'
    BY <2>1 DEF TypeOK
  <2>3. (LoadsLeft /\ OffsetsInRange /\ LatestGoesOn)'
    BY DEF LoadsLeft, Due, OffsetsInRange, LatestGoesOn, Latest
  <2>4. (SpinnerIsLatest /\ RowsMatchFilter)'
    BY DEF SpinnerIsLatest, Latest, RowsMatchFilter
  <2>5. (AnswersStand /\ RowsStand)'
    BY <2>1 DEF AnswersStand, RowsStand
  <2> QED
    BY <2>2, <2>3, <2>4, <2>5
<1> QED
  BY <1>1, <1>2

\* The host answers.
LEMMA SelectPageIInv ==
    ASSUME IInv, SelectPage
    PROVE  IInv'
<1> DEFINE request == Head(inbox)
           page == Page(request.view, request.from)
           answer == [request |-> request, page |-> page,
                      hasMore |-> More(request.from, page, counted)]
<1> USE DEF IInv
<1>1. /\ inbox # << >> /\ counted # NoCount
      /\ outbox' = Append(outbox, answer)
      /\ inbox' = Tail(inbox)
      /\ counted' = NoCount
      /\ UNCHANGED <<db, edits, waiting, opening, menu, query, category, timer, generation,
                     loading, failed, items, offset, hasMore>>
  BY DEF SelectPage, desktop, start, filter, list
<1>2. request \in Requests /\ inbox' \in Seq(Requests)
  BY <1>1, HeadTailProperties DEF TypeOK
<1>3. request.from \in Nat /\ request.from <= Cardinality(Snippets)
  BY <1>2, ListAssumption, FS_CardinalityType DEF Requests
<1>4. /\ page \in Seq(Snippets) /\ Len(page) \in Nat
      /\ request.from + Len(page) <= Cardinality(Snippets)
  <2>1. Len(Result(request.view)) \in Nat
        /\ Len(Result(request.view)) <= Cardinality(Snippets)
        /\ Cardinality(Snippets) \in Nat
    BY ResultType
  <2>2. /\ page \in Seq(Snippets) /\ Len(page) \in Nat
        /\ request.from + Len(page) <= Len(Result(request.view)) \/ Len(page) = 0
    BY <1>3, PageType
  <2> HIDE DEF page, request
  <2> QED
    BY <1>3, <2>1, <2>2
<1>5. answer \in Answers
  BY <1>2, <1>4 DEF Answers, More
<1>6. /\ outbox' \in Seq(Answers)
      /\ \A n \in DOMAIN outbox' : \/ outbox'[n] = answer
                                   \/ n \in DOMAIN outbox /\ outbox'[n] = outbox[n]
  <2> HIDE DEF answer
  <2> QED
    BY <1>1, <1>5 DEF TypeOK
<1>7. edits = 0 =>
          answer.hasMore = (request.from + Len(page) < Len(Result(request.view)))
  BY <1>1 DEF AnswersStand, More
<1>8. /\ answer.request = request /\ answer.page = page
  OBVIOUS
<1> HIDE DEF answer, page
<1>9. TypeOK'
  BY <1>1, <1>2, <1>6 DEF TypeOK
<1>10. LoadsLeft' /\ LatestGoesOn'
  BY <1>1 DEF LoadsLeft, Due, LatestGoesOn, Latest
<1>11. OffsetsInRange'
  BY <1>1, <1>4, <1>6, <1>8 DEF OffsetsInRange
<1>12. SpinnerIsLatest' /\ RowsMatchFilter'
  BY <1>1 DEF SpinnerIsLatest, Latest, RowsMatchFilter
<1>13. AnswersStand'
  <2>1. ASSUME edits = 0, NEW n \in DOMAIN outbox'
        PROVE  Stands(outbox'[n])
    <3>1. CASE outbox'[n] = answer
      BY <1>7, <1>8, <2>1, <3>1 DEF page, Stands
    <3>2. CASE n \in DOMAIN outbox /\ outbox'[n] = outbox[n]
      BY <2>1, <3>2 DEF AnswersStand
    <3> QED
      BY <1>6, <3>1, <3>2
  <2> QED
    BY <1>1, <2>1 DEF AnswersStand, Stands, Page, Result
<1>14. RowsStand'
  BY <1>1 DEF RowsStand, Result
<1> QED
  BY <1>9, <1>10, <1>11, <1>12, <1>13, <1>14

\* A load fails.
LEMMA FailIInv ==
    ASSUME IInv, NEW request \in waiting, Fail(request)
    PROVE  IInv'
<1> USE DEF IInv, Fail, desktop, server, start, filter
<1>1. TypeOK'
  BY DEF TypeOK
<1>2. (LoadsLeft /\ OffsetsInRange /\ LatestGoesOn)'
  BY DEF LoadsLeft, Due, OffsetsInRange, LatestGoesOn, Latest
<1>3. SpinnerIsLatest'
  <2>1. CASE Latest(request)
    BY <2>1 DEF SpinnerIsLatest, LatestGoesOn, Latest
  <2>2. CASE ~Latest(request)
    BY <2>2 DEF SpinnerIsLatest, Latest
  <2> QED
    BY <2>1, <2>2
<1>4. RowsMatchFilter'
  BY DEF RowsMatchFilter
<1>5. AnswersStand'
  BY DEF AnswersStand, Stands, Result, Page
<1>6. RowsStand'
  <2>1. CASE Latest(request)
    BY <2>1 DEF RowsStand, Result
  <2>2. CASE ~Latest(request)
    BY <2>2 DEF RowsStand, Result, TypeOK
  <2> QED
    BY <2>1, <2>2
<1> QED
  BY <1>1, <1>2, <1>3, <1>4, <1>5, <1>6

\* An answer comes, and is shown if it is the latest load's.
LEMMA ShowIInv ==
    ASSUME IInv, Show
    PROVE  IInv'
<1> DEFINE answer == Head(outbox)
           request == answer.request
           page == answer.page
           shown == [n \in DOMAIN page |-> [id |-> page[n], view |-> request.view]]
           taken == request \in waiting /\ Latest(request)
<1> USE DEF IInv
<1>1. /\ outbox # << >> /\ outbox' = Tail(outbox)
      /\ waiting' = waiting \ {request}
      /\ UNCHANGED <<db, edits, inbox, counted, opening, menu, query, category, timer,
                     generation, failed>>
      /\ taken => /\ items' = IF request.reset THEN shown ELSE items \o shown
                  /\ hasMore' = answer.hasMore
                  /\ offset' = request.from + Len(page)
                  /\ loading' = FALSE
      /\ ~taken => UNCHANGED <<items, hasMore, offset, loading>>
  BY DEF Show, desktop, start, filter, list
<1>2. answer \in Answers /\ outbox' \in Seq(Answers)
  BY <1>1, HeadTailProperties DEF TypeOK
<1>3. 1 \in DOMAIN outbox /\ outbox[1] = answer
  BY <1>1 DEF TypeOK
<1>4. \A n \in DOMAIN outbox' : n + 1 \in DOMAIN outbox /\ outbox'[n] = outbox[n + 1]
  BY <1>1, <1>2 DEF TypeOK
<1> HIDE DEF answer
<1>5. /\ request \in Requests /\ request.from \in Nat
      /\ page \in Seq(Snippets) /\ Len(page) \in Nat /\ DOMAIN page = 1..Len(page)
  BY <1>2, ListAssumption, FS_CardinalityType DEF Answers, Requests
<1>6. shown \in Seq(Rows) /\ Len(shown) = Len(page)
  <2>1. \A n \in 1..Len(page) : [id |-> page[n], view |-> request.view] \in Rows
    BY <1>5, ElementOfSeq DEF Rows, Requests
  <2>2. shown \in [1..Len(page) -> Rows]
    BY <1>5, <2>1
  <2> HIDE DEF shown, page
  <2> QED
    BY <1>5, <2>2, SeqDef, LenProperties
<1>7. AnswersStand'
  <2>1. \A n \in DOMAIN outbox' : edits = 0 => Stands(outbox'[n])
    BY <1>4 DEF AnswersStand
  <2> QED
    BY <1>1, <2>1 DEF AnswersStand, Stands, Result, Page
<1>8. /\ request.from + Len(page) <= Cardinality(Snippets)
      /\ \A n \in DOMAIN outbox' :
             outbox'[n].request.from + Len(outbox'[n].page) <= Cardinality(Snippets)
  BY <1>3, <1>4 DEF OffsetsInRange
<1>9. LoadsLeft'
  BY <1>1 DEF LoadsLeft, Due
<1>10. SpinnerIsLatest'
  <2>1. CASE taken
    BY <1>1, <2>1 DEF SpinnerIsLatest, LatestGoesOn, Latest
  <2>2. CASE ~taken
    BY <1>1, <2>2 DEF SpinnerIsLatest, Latest
  <2> QED
    BY <2>1, <2>2
<1>11. CASE ~taken
  <2>1. TypeOK'
    BY <1>1, <1>2, <1>11 DEF TypeOK
  <2>2. OffsetsInRange'
    BY <1>1, <1>8, <1>11 DEF OffsetsInRange
  <2>3. LatestGoesOn' /\ RowsMatchFilter'
    BY <1>1, <1>11 DEF LatestGoesOn, Latest, RowsMatchFilter
  <2>4. RowsStand'
    <3>1. UNCHANGED <<db, edits, timer, query, category, generation, loading, failed,
                      items, hasMore>>
      BY <1>1, <1>11
    <3> HIDE DEF request, page, shown, taken
    <3> QED
      BY <3>1 DEF RowsStand, Result
  <2> QED
    BY <1>7, <1>9, <1>10, <2>1, <2>2, <2>3, <2>4
<1>12. CASE taken
  <2>1. /\ request.from = offset /\ offset = Len(items)
        /\ request.reset => items = << >>
        /\ ~timer => request.view = <<query, category>>
    BY <1>12 DEF LatestGoesOn, OffsetsInRange
  <2>2. items \in Seq(Rows) /\ Len(items) \in Nat
    BY DEF TypeOK
  <2>3. /\ items' \in Seq(Rows)
        /\ Len(items') = Len(items) + Len(page)
        /\ \A n \in 1..Len(items') :
               \/ n \in 1..Len(items) /\ items'[n] = items[n]
               \/ n - Len(items) \in 1..Len(page) /\ items'[n] = shown[n - Len(items)]
    <3> HIDE DEF shown, page, request
    <3>1. CASE request.reset
      BY <1>1, <1>5, <1>6, <1>12, <2>1, <2>2, <3>1
    <3>2. CASE ~request.reset
      <4>1. items' = items \o shown
        BY <1>1, <1>12, <3>2
      <4> QED
        BY <1>5, <1>6, <2>2, <4>1, ConcatProperties
    <3> QED
      BY <3>1, <3>2
  <2>4. \A n \in 1..Len(items') :
            \/ n \in 1..Len(items) /\ items'[n] = items[n]
            \/ /\ n - Len(items) \in 1..Len(page)
               /\ items'[n].id = page[n - Len(items)]
               /\ items'[n].view = request.view
    <3>1. \A n \in 1..Len(page) : shown[n].id = page[n] /\ shown[n].view = request.view
      BY <1>5
    <3> HIDE DEF shown, page, request
    <3> QED
      BY <2>3, <3>1
  <2>5. DOMAIN items' = 1..Len(items') /\ DOMAIN items = 1..Len(items)
    BY <2>2, <2>3, LenProperties
  <2> HIDE DEF shown, page, request
  <2>6. TypeOK'
    <3>1. offset' \in Nat /\ hasMore' \in BOOLEAN /\ loading' \in BOOLEAN
      <4>1. answer.hasMore \in BOOLEAN /\ request.from + Len(page) \in Nat
        BY <1>2, <1>5 DEF Answers
      <4>2. /\ offset' = request.from + Len(page)
            /\ hasMore' = answer.hasMore /\ loading' = FALSE
        BY <1>1, <1>12
      <4> QED
        BY <4>1, <4>2
    <3> QED
      BY <1>1, <1>2, <2>3, <3>1 DEF TypeOK
  <2>7. OffsetsInRange'
    BY <1>1, <1>8, <1>12, <2>1, <2>3 DEF OffsetsInRange
  <2>8. LatestGoesOn'
    BY <1>1, <1>12 DEF LatestGoesOn, Latest
  <2>9. RowsMatchFilter'
    BY <1>1, <2>1, <2>4, <2>5 DEF RowsMatchFilter
  <2>10. RowsStand'
    <3> DEFINE result == Result(<<query, category>>)
    <3> SUFFICES ASSUME ~timer, edits = 0
                 PROVE  /\ \A n \in DOMAIN items' :
                               n <= Len(result) /\ items'[n].id = result[n]
                        /\ hasMore' <=> Len(items') < Len(result)
      BY <1>1 DEF RowsStand, Result
    <3>1. /\ page = Page(<<query, category>>, offset)
          /\ answer.hasMore <=> offset + Len(page) < Len(result)
      BY <1>3, <2>1 DEF AnswersStand, Stands, page, request
    <3>2. /\ offset + Len(page) <= Len(result) \/ Len(page) = 0
          /\ \A n \in 1..Len(page) : page[n] = result[offset + n]
          /\ Len(result) \in Nat
      <4>1. offset \in Nat
        BY <2>1, <2>2
      <4>2. LET rows == Page(<<query, category>>, offset) IN
            /\ offset + Len(rows) <= Len(Result(<<query, category>>)) \/ Len(rows) = 0
            /\ \A n \in 1..Len(rows) : rows[n] = Result(<<query, category>>)[offset + n]
        BY <4>1, PageType
      <4>3. Len(result) \in Nat
        BY ResultType
      <4> QED
        BY <3>1, <4>2, <4>3
    <3>3. \A n \in DOMAIN items : n <= Len(result) /\ items[n].id = result[n]
      BY DEF RowsStand
    <3> HIDE DEF result
    <3>4. ASSUME NEW n \in 1..Len(items')
          PROVE  n <= Len(result) /\ items'[n].id = result[n]
      <4>1. CASE n \in 1..Len(items) /\ items'[n] = items[n]
        BY <2>5, <3>3, <4>1
      <4>2. CASE /\ n - Len(items) \in 1..Len(page)
                 /\ items'[n].id = page[n - Len(items)]
        <5>1. offset + (n - Len(items)) = n
          BY <1>5, <2>1, <2>2, <2>3
        <5> QED
          BY <1>5, <2>1, <2>2, <2>3, <3>2, <4>2, <5>1
      <4> QED
        BY <2>4, <4>1, <4>2
    <3> QED
      BY <1>1, <1>12, <2>1, <2>3, <2>5, <3>1, <3>4
  <2> QED
    BY <1>7, <1>9, <1>10, <2>6, <2>7, <2>8, <2>9, <2>10
<1> QED
  BY <1>11, <1>12

\* Nothing happens.
LEMMA StutterIInv ==
    ASSUME IInv, UNCHANGED vars
    PROVE  IInv'
<1> USE DEF IInv, vars, desktop, server, start, filter, list
<1>1. TypeOK'
  BY DEF TypeOK
<1>2. (LoadsLeft /\ OffsetsInRange /\ LatestGoesOn)'
  BY DEF LoadsLeft, Due, OffsetsInRange, LatestGoesOn, Latest
<1>3. (SpinnerIsLatest /\ RowsMatchFilter)'
  BY DEF SpinnerIsLatest, Latest, RowsMatchFilter
<1>4. AnswersStand'
  BY DEF AnswersStand, Stands, Result, Page
<1>5. RowsStand'
  BY DEF RowsStand, Result
<1> QED
  BY <1>1, <1>2, <1>3, <1>4, <1>5

------------------------------------------------------------------------------
\* The inductive invariant of the list holds, however loads, failures, edits and
\* the user's typing interleave.
THEOREM Invariance == Spec => []IInv
<1>1. IInv /\ [Next]_vars => IInv'
  BY PopupIInv, CountEditIInv, SelectPageIInv, ShowIInv, FailIInv, ReopenIInv, StutterIInv
     DEF Next
<1> QED
  BY <1>1, InitIInv, PTL DEF Spec

\* The types, and the spinner: it is on exactly as long as the latest load is
\* pending (the generation checks of loadSnippets and its catch).
THEOREM SpinnerIsRight == Spec => []ListOK
<1>1. IInv => ListOK
  BY DEF IInv, ListOK
<1> QED
  BY <1>1, Invariance, PTL

\* Without a debounce running, the rows belong to the filter the user sees.
THEOREM RowsAreOfTheFilter == Spec => []RowsMatchFilter
<1>1. IInv => RowsMatchFilter
  BY DEF IInv
<1> QED
  BY <1>1, Invariance, PTL

\* Over an unedited database the rows are a prefix of what the search means,
\* whatever the page size and however many pages are asked for.
THEOREM PagesFitTogether == Spec => []RowsArePrefix
<1>1. ASSUME IInv PROVE RowsArePrefix
  <2> DEFINE result == Wanted(<<query, category>>)
  <2> SUFFICES ASSUME ~timer, edits = 0
               PROVE  /\ IsPrefix(Ids, result)
                      /\ generation > 0 /\ ~loading /\ ~failed =>
                             (hasMore <=> Len(Ids) < Len(result))
    BY DEF RowsArePrefix
  <2>1. result = Result(<<query, category>>)
    BY FoundIsMeant DEF Wanted, Result
  <2>2. result \in Seq(Snippets) /\ Len(result) \in Nat
    BY <1>1, <2>1, ResultType DEF IInv
  <2>3. /\ items \in Seq(Rows) /\ Len(items) \in Nat /\ DOMAIN items = 1..Len(items)
    BY <1>1, LenProperties DEF IInv, TypeOK
  <2>4. Ids \in Seq(Snippets) /\ Len(Ids) = Len(items)
    <3>1. Ids \in [1..Len(items) -> Snippets]
      <4>1. \A n \in 1..Len(items) : items[n].id \in Snippets
        <5>1. \A n \in 1..Len(items) : items[n] \in Rows
          BY <2>3, ElementOfSeq
        <5> QED
          BY <5>1 DEF Rows
      <4> QED
        BY <2>3, <4>1 DEF Ids
    <3> QED
      BY <2>3, <3>1, SeqDef, LenProperties
  <2>5. \A n \in 1..Len(items) : n <= Len(result) /\ Ids[n] = result[n]
    BY <1>1, <2>1, <2>3 DEF IInv, RowsStand, Ids
  <2>6. generation > 0 /\ ~loading /\ ~failed => (hasMore <=> Len(Ids) < Len(result))
    BY <1>1, <2>1, <2>4 DEF IInv, RowsStand
  <2> HIDE DEF result
  <2>7. Len(Ids) <= Len(result)
    BY <2>2, <2>3, <2>4, <2>5
  <2>8. IsPrefix(Ids, result)
    BY <2>2, <2>3, <2>4, <2>5, <2>7 DEF IsPrefix
  <2> QED
    BY <2>6, <2>8
<1> QED
  BY <1>1, Invariance, PTL

------------------------------------------------------------------------------
\* A desktop that edits.

\* The first n of a set of numbers.
First(n, found) == {s \in found : Cardinality(Before(s, found)) < n}

\* n rows show the members of ids.  The rows shown twice, with those shown that
\* are still to come, are at most bound; so are those missed on the way.
Within(n, ids, found, bound) ==
    /\ (n - Cardinality(ids)) + Cardinality((ids \cap found) \ First(n, found)) <= bound
    /\ Cardinality(First(n, found) \ ids) <= bound

\* A set with one more member at most.
LEMMA OneMore ==
    ASSUME NEW S, IsFiniteSet(S), NEW x, NEW T, T \subseteq S \cup {x}
    PROVE  /\ IsFiniteSet(T)
           /\ Cardinality(T) \in Nat /\ Cardinality(S) \in Nat
           /\ Cardinality(T) <= Cardinality(S) + 1
<1>1. /\ IsFiniteSet(S \cup {x})
      /\ Cardinality(S \cup {x}) = IF x \in S THEN Cardinality(S) ELSE Cardinality(S) + 1
  BY FS_AddElement
<1>2. IsFiniteSet(T) /\ Cardinality(T) <= Cardinality(S \cup {x})
  BY <1>1, FS_Subset
<1>3. Cardinality(T) \in Nat /\ Cardinality(S) \in Nat
  BY <1>2, FS_CardinalityType
<1> QED
  BY <1>1, <1>2, <1>3

\* One number more in the set moves one number at most out of the first n.
LEMMA AddMovesOne ==
    ASSUME NEW found \in SUBSET Nat, IsFiniteSet(found), NEW s \in Nat, s \notin found,
           NEW n \in Nat, NEW more, more = found \cup {s}
    PROVE  /\ First(n, more) \subseteq First(n, found) \cup {s}
           /\ found \ First(n, found) \subseteq more \ First(n, more)
           /\ \E y : /\ more \ First(n, more) \subseteq (found \ First(n, found)) \cup {y}
                     /\ First(n, found) \subseteq First(n, more) \cup {y}
<1>1. more \in SUBSET Nat /\ IsFiniteSet(more)
  BY FS_AddElement
<1>2. \A x \in found : /\ Cardinality(Before(x, found)) \in Nat
                       /\ Cardinality(Before(x, more)) \in Nat
                       /\ Cardinality(Before(x, found)) <= Cardinality(Before(x, more))
                       /\ Cardinality(Before(x, more)) <= Cardinality(Before(x, found)) + 1
  <2> TAKE x \in found
  <2>1. IsFiniteSet(Before(x, found)) /\ IsFiniteSet(Before(x, more))
    BY <1>1, FS_Subset DEF Before
  <2>2. Before(x, found) \in SUBSET Before(x, more)
        /\ Before(x, more) \subseteq Before(x, found) \cup {s}
    BY DEF Before
  <2>3. Cardinality(Before(x, found)) <= Cardinality(Before(x, more))
    BY <2>1, <2>2, FS_Subset
  <2> QED
    BY <2>1, <2>2, <2>3, OneMore
<1>3. \A x \in found : x \in First(n, more) => x \in First(n, found)
  BY <1>2 DEF First
\* The one that goes out was the last of the first n.
<1>4. \A x \in found : x \in First(n, found) /\ x \notin First(n, more) =>
          /\ Cardinality(Before(x, found)) = n - 1
          /\ Cardinality(Before(x, more)) = n
  <2> SUFFICES ASSUME NEW x \in found, x \in First(n, found), x \notin First(n, more)
               PROVE  /\ Cardinality(Before(x, found)) = n - 1
                      /\ Cardinality(Before(x, more)) = n
    OBVIOUS
  <2>1. Cardinality(Before(x, found)) < n /\ ~(Cardinality(Before(x, more)) < n)
    BY DEF First
  <2> QED
    BY <1>2, <2>1
<1>5. \A x, y \in found : Cardinality(Before(x, found)) = Cardinality(Before(y, found)) => x = y
  BY RanksDiffer
<1>6. CASE \E x \in found : x \in First(n, found) /\ x \notin First(n, more)
  <2>1. PICK x \in found : x \in First(n, found) /\ x \notin First(n, more)
    BY <1>6
  <2>2. \A y \in found : y \in First(n, found) /\ y \notin First(n, more) => y = x
    BY <1>4, <1>5, <2>1
  \* The new one came before it, among the first n.
  <2>3. s \in First(n, more)
    <3>1. s < x
      <4>1. Before(x, more) # Before(x, found)
        BY <1>4, <2>1
      <4> QED
        BY <4>1 DEF Before
    <3>2. Cardinality(Before(s, more)) < Cardinality(Before(x, more))
      BY <1>1, <3>1, RankGrows
    <3> QED
      BY <1>4, <2>1, <3>2 DEF First
  <2> QED
    BY <1>3, <2>2, <2>3 DEF First
<1>7. CASE ~ \E x \in found : x \in First(n, found) /\ x \notin First(n, more)
  BY <1>3, <1>7 DEF First
<1> QED
  BY <1>3, <1>6, <1>7 DEF First

\* An edit of the desktop costs one row at most.
LEMMA EditCostsOne ==
    ASSUME NEW found \in SUBSET Snippets, NEW s \in Snippets,
           NEW other, other \in {found, found \cup {s}, found \ {s}},
           NEW n \in Nat, NEW ids \in SUBSET Snippets, NEW bound \in Nat,
           Within(n, ids, found, bound)
    PROVE  Within(n, ids, other, bound + 1)
<1> DEFINE again(set) == (ids \cap set) \ First(n, set)
           missed(set) == First(n, set) \ ids
<1>1. /\ found \in SUBSET Nat /\ s \in Nat
      /\ \A set \in SUBSET Snippets : IsFiniteSet(set)
  BY ListAssumption, FS_Subset
<1>2. Cardinality(ids) \in Nat
  BY <1>1, FS_CardinalityType
<1>3. IsFiniteSet(again(found)) /\ IsFiniteSet(missed(found))
  BY <1>1 DEF First
<1>4. SUFFICES ASSUME NEW y, NEW z, again(other) \subseteq again(found) \cup {y},
                      missed(other) \subseteq missed(found) \cup {z}
               PROVE  Within(n, ids, other, bound + 1)
  <2>1. CASE other = found
    BY <2>1, <1>4
  <2>2. CASE other = found \cup {s} /\ s \notin found
    <3>0. found \in SUBSET Nat /\ IsFiniteSet(found) /\ s \in Nat
      BY <1>1
    <3> HIDE DEF again, missed
    <3>1. PICK y : other \ First(n, other) \subseteq (found \ First(n, found)) \cup {y}
      BY <3>0, <2>2, AddMovesOne
    <3>2. First(n, other) \subseteq First(n, found) \cup {s}
      BY <3>0, <2>2, AddMovesOne
    <3> USE DEF again, missed
    <3>3. again(other) \subseteq again(found) \cup {y} /\ missed(other) \subseteq missed(found) \cup {s}
      BY <3>1, <3>2
    <3> QED
      BY <1>4, <3>3
  <2>3. CASE other = found \ {s} /\ s \in found
    <3>1. found = other \cup {s} /\ s \notin other /\ other \in SUBSET Nat /\ IsFiniteSet(other)
      BY <1>1, <2>3
    <3>2. PICK y : First(n, other) \subseteq First(n, found) \cup {y}
      BY <1>1, <3>1, AddMovesOne
    <3>3. other \ First(n, other) \subseteq found \ First(n, found)
      BY <1>1, <3>1, AddMovesOne
    <3>4. again(other) \subseteq again(found) \cup {y} /\ missed(other) \subseteq missed(found) \cup {y}
      BY <3>2, <3>3
    <3> QED
      BY <1>4, <3>4
  <2> QED
    BY <2>1, <2>2, <2>3
<1> HIDE DEF again, missed
<1>5. /\ Cardinality(again(other)) \in Nat /\ Cardinality(again(found)) \in Nat
      /\ Cardinality(again(other)) <= Cardinality(again(found)) + 1
  BY <1>3, <1>4, OneMore
<1>6. /\ Cardinality(missed(other)) \in Nat /\ Cardinality(missed(found)) \in Nat
      /\ Cardinality(missed(other)) <= Cardinality(missed(found)) + 1
  BY <1>3, <1>4, OneMore
<1>7. /\ (n - Cardinality(ids)) + Cardinality(again(found)) <= bound
      /\ Cardinality(missed(found)) <= bound
  BY DEF Within, again, missed
<1>8. /\ (n - Cardinality(ids)) + Cardinality(again(other)) <= bound + 1
      /\ Cardinality(missed(other)) <= bound + 1
  BY <1>2, <1>5, <1>6, <1>7
<1> QED
  BY <1>8 DEF Within, again, missed

\* Showing the page that follows costs nothing: what it repeats was still to
\* come, and what it does not show comes later.
LEMMA PageCostsNothing ==
    ASSUME NEW found \in SUBSET Snippets, NEW n \in Nat, NEW ids \in SUBSET Snippets,
           NEW bound \in Nat, Within(n, ids, found, bound),
           NEW size \in Nat, NEW page, page = First(n + size, found) \ First(n, found),
           Cardinality(page) = size
    PROVE  Within(n + size, ids \cup page, found, bound)
<1> DEFINE again == (ids \cap found) \ First(n, found)
           later == ((ids \cup page) \cap found) \ First(n + size, found)
<1>1. \A set \in SUBSET Snippets : IsFiniteSet(set) /\ Cardinality(set) \in Nat
  BY ListAssumption, FS_Subset, FS_CardinalityType
<1>2. \A x \in found : x \in First(n, found) => x \in First(n + size, found)
  <2>1. \A x \in found : Cardinality(Before(x, found)) \in Nat
    BY <1>1 DEF Before
  <2> QED
    BY <2>1 DEF First
<1>3. page \in SUBSET found /\ again \in SUBSET Snippets /\ later \in SUBSET Snippets
  BY DEF First
<1>4. later = again \ page
  BY <1>2 DEF First
<1>5. ids \cap page = again \cap page
  BY <1>3
<1> HIDE DEF again, later
<1>6. Cardinality(later) = Cardinality(again) - Cardinality(ids \cap page)
  BY <1>1, <1>3, <1>4, <1>5, FS_Difference
<1>7. Cardinality(ids \cup page) = Cardinality(ids) + size - Cardinality(ids \cap page)
  <2>1. IsFiniteSet(ids) /\ IsFiniteSet(page)
    BY <1>1, <1>3
  <2> QED
    BY <2>1, FS_Union
<1>8. ids \cup page \in SUBSET Snippets /\ ids \cap page \in SUBSET Snippets
  BY <1>3
<1>9. ((n + size) - Cardinality(ids \cup page)) + Cardinality(later) <= bound
  <2>1. (n - Cardinality(ids)) + Cardinality(again) <= bound
    BY DEF Within, again
  <2>2. /\ Cardinality(again) \in Nat /\ Cardinality(later) \in Nat /\ Cardinality(ids) \in Nat
        /\ Cardinality(ids \cup page) \in Nat /\ Cardinality(ids \cap page) \in Nat
    BY <1>1, <1>3, <1>8
  <2> QED
    BY <1>6, <1>7, <2>1, <2>2
<1>10. Cardinality(First(n + size, found) \ (ids \cup page)) <= bound
  <2>1. First(n + size, found) \ (ids \cup page) \in SUBSET (First(n, found) \ ids)
    BY <1>2 DEF First
  <2>2. First(n, found) \ ids \in SUBSET Snippets
    BY DEF First
  <2>3. Cardinality(First(n + size, found) \ (ids \cup page)) <= Cardinality(First(n, found) \ ids)
    BY <1>1, <2>1, <2>2, FS_Subset
  <2>4. Cardinality(First(n, found) \ ids) <= bound
    BY DEF Within
  <2>5. Cardinality(First(n + size, found) \ (ids \cup page)) \in Nat
        /\ Cardinality(First(n, found) \ ids) \in Nat
    BY <1>1, <2>1, <2>2
  <2> QED
    BY <2>3, <2>4, <2>5
<1> QED
  BY <1>9, <1>10 DEF Within, later

InView(view) == db \cap Found[view[1]] \cap InCategory(view[2])

LEMMA InViewType ==
    ASSUME TypeOK, NEW view
    PROVE  /\ InView(view) \in SUBSET Snippets
           /\ InView(view) \in SUBSET Nat /\ IsFiniteSet(InView(view))
           /\ Cardinality(InView(view)) \in Nat
           /\ Result(view) = Sorted(InView(view))
           /\ Len(Result(view)) = Cardinality(InView(view))
<1>1. InView(view) \in SUBSET Snippets
  BY DEF TypeOK, InView
<1>2. InView(view) \in SUBSET Nat /\ IsFiniteSet(InView(view))
  BY <1>1, ListAssumption, FS_Subset
<1>3. Result(view) = Sorted(InView(view))
  BY DEF Result, InView
<1> QED
  BY <1>1, <1>2, <1>3, SortedType, FS_CardinalityType

\* A page shows each of the snippets that follow the offset once.
LEMMA PageIsNext ==
    ASSUME TypeOK, NEW view, NEW from \in Nat, NEW page, page = Page(view, from)
    PROVE  /\ ToSet(page) = First(from + Len(page), InView(view)) \ First(from, InView(view))
           /\ Cardinality(ToSet(page)) = Len(page)
           /\ Len(page) \in Nat
<1>1. PICK found : found = InView(view)
  OBVIOUS
<1>2. PICK size \in Nat : size = Len(page)
  BY PageType
<1>3. /\ found \in SUBSET Snippets /\ found \in SUBSET Nat /\ IsFiniteSet(found)
      /\ Cardinality(found) \in Nat
      /\ Result(view) = Sorted(found) /\ Len(Result(view)) = Cardinality(found)
  BY <1>1, InViewType
<1>4. /\ DOMAIN page = 1..size
      /\ from + size <= Cardinality(found) \/ size = 0
      /\ \A n \in 1..size : page[n] = Sorted(found)[from + n]
  BY <1>2, <1>3, PageType, LenProperties
<1>5. ASSUME NEW n \in 1..size
      PROVE  page[n] \in found /\ Cardinality(Before(page[n], found)) = from + n - 1
  <2>1. PICK k : k = from + n
    OBVIOUS
  <2>2. k \in 1..Cardinality(found)
    BY <1>3, <1>4, <1>5, <2>1
  <2> QED
    BY <1>3, <1>4, <1>5, <2>1, <2>2, SortedRanks
<1>6. \A x \in found : Cardinality(Before(x, found)) \in Nat
  BY <1>3, RankGrows
<1>7. ASSUME NEW x \in ToSet(page)
      PROVE  x \in First(from + size, found) \ First(from, found)
  <2>1. PICK n \in 1..size : x = page[n]
    BY <1>4 DEF ToSet
  <2> QED
    BY <1>5, <2>1 DEF First
<1>8. ASSUME NEW x \in First(from + size, found) \ First(from, found)
      PROVE  x \in ToSet(page)
  <2>1. /\ x \in found /\ Cardinality(Before(x, found)) \in Nat
        /\ Cardinality(Before(x, found)) < from + size
        /\ ~(Cardinality(Before(x, found)) < from)
    BY <1>6 DEF First
  <2>2. PICK n \in 1..size : from + n - 1 = Cardinality(Before(x, found))
    <3>1. Cardinality(Before(x, found)) - from + 1 \in 1..size
      BY <2>1
    <3>2. from + (Cardinality(Before(x, found)) - from + 1) - 1 = Cardinality(Before(x, found))
      BY <2>1
    <3> QED
      BY <3>1, <3>2
  <2>3. page[n] \in found /\ Cardinality(Before(page[n], found)) = Cardinality(Before(x, found))
    BY <1>5, <2>2
  <2>4. page[n] = x
    BY <1>3, <2>1, <2>3, RanksDiffer
  <2> QED
    BY <1>4, <2>4 DEF ToSet
<1>9. Cardinality(ToSet(page)) = size
  <2>1. page \in Bijection(1..size, ToSet(page))
    <3>1. page \in [1..size -> ToSet(page)]
      <4>1. page \in Seq(Snippets)
        BY PageType
      <4>2. page = [n \in 1..size |-> page[n]]
        BY <1>2, <4>1
      <4> QED
        BY <1>4, <4>2 DEF ToSet
    <3>2. \A m, n \in 1..size : page[m] = page[n] => m = n
      <4> SUFFICES ASSUME NEW m \in 1..size, NEW n \in 1..size, page[m] = page[n]
                   PROVE  m = n
        OBVIOUS
      <4>1. from + m - 1 = from + n - 1
        BY <1>5
      <4> QED
        BY <4>1
    <3>3. \A x \in ToSet(page) : \E n \in 1..size : page[n] = x
      BY <1>4 DEF ToSet
    <3> QED
      BY <3>1, <3>2, <3>3, <1>4 DEF Bijection, Injection, IsInjective, Surjection
  <2> QED
    BY <2>1, FS_CountingElements DEF ExistsBijection
<1>10. ToSet(page) = First(from + size, found) \ First(from, found)
  BY <1>7, <1>8
<1> QED
  BY <1>1, <1>2, <1>9, <1>10

------------------------------------------------------------------------------
\* The invariant of the drift: within as many rows as edits, not only now but
\* also once the page on its way to the popup is shown.
Shown == ToSet(Ids)
Drift(n, ids) == Within(n, ids, InView(<<query, category>>), edits)
IsAwaited(request) == request \in waiting /\ Latest(request)

DriftInv ==
    /\ \A n \in DOMAIN inbox : inbox[n].gen <= generation
    /\ \A n \in DOMAIN outbox : outbox[n].request.gen <= generation
    /\ ~timer =>
        /\ Drift(Len(items), Shown)
        /\ \A n \in DOMAIN outbox :
               IsAwaited(outbox[n].request) =>
                   Drift(Len(items) + Len(outbox[n].page),
                         Shown \cup ToSet(outbox[n].page))

LEMMA NothingDrifts ==
    ASSUME NEW found \in SUBSET Snippets, NEW bound \in Nat
    PROVE  Within(0, {}, found, bound)
<1>1. \A s \in found : Cardinality(Before(s, found)) \in Nat
  <2>1. found \in SUBSET Nat /\ IsFiniteSet(found)
    BY ListAssumption, FS_Subset
  <2> QED
    BY <2>1, RankGrows
<1>2. First(0, found) = {}
  BY <1>1 DEF First
<1>3. /\ ({} \cap found) \ First(0, found) = {} /\ First(0, found) \ {} = {}
      /\ Cardinality({}) = 0
  BY <1>2, FS_EmptySet
<1> QED
  BY <1>3 DEF Within

LEMMA ShownType ==
    ASSUME TypeOK
    PROVE  /\ Shown \in SUBSET Snippets /\ Len(items) \in Nat
           /\ items = << >> => Shown = {} /\ Len(items) = 0
<1>1. items \in Seq(Rows) /\ Len(items) \in Nat /\ DOMAIN items = 1..Len(items)
  BY LenProperties DEF TypeOK
<1>2. \A n \in 1..Len(items) : items[n].id \in Snippets
  <2>1. \A n \in 1..Len(items) : items[n] \in Rows
    BY <1>1, ElementOfSeq
  <2> QED
    BY <2>1 DEF Rows
<1> QED
  BY <1>1, <1>2 DEF Shown, ToSet, Ids

LEMMA InitDrift ==
    ASSUME Init
    PROVE  DriftInv
<1>1. TypeOK
  BY InitIInv DEF IInv
<1>2. Within(0, {}, InView(<<query, category>>), 0)
  BY <1>1, NothingDrifts, InViewType
<1>3. Shown = {} /\ Len(items) = 0
  BY <1>1, ShownType DEF Init
<1> QED
  BY <1>2, <1>3 DEF Init, DriftInv, Drift

LEMMA ReopenDrift ==
    ASSUME IInv, Reopen
    PROVE  DriftInv'
<1>1. TypeOK'
  BY ReopenIInv DEF IInv
<1>2. InView(<<query, category>>)' \in SUBSET Snippets
  BY <1>1 DEF InView, TypeOK
<1>3. Within(0, {}, InView(<<query, category>>)', 0)
  BY <1>2, NothingDrifts
<1>4. Shown' = {} /\ Len(items') = 0 /\ edits' = 0
  BY DEF Reopen, Shown, Ids, ToSet
<1> QED
  BY <1>3, <1>4 DEF Reopen, DriftInv, Drift, InView

\* Steps that change neither the rows, nor what is asked for, nor what is on its
\* way, and await nothing new.
LEMMA QuietDrift ==
    ASSUME DriftInv, UNCHANGED <<db, edits, inbox, outbox, items, query, category, generation>>,
           timer' = TRUE \/ timer' = timer,
           waiting' \subseteq waiting
    PROVE  DriftInv'
<1>1. Shown' = Shown
  BY DEF Shown, Ids
<1>2. InView(<<query, category>>)' = InView(<<query, category>>)
  BY DEF InView
<1>3. \A n, ids : Drift(n, ids)' <=> Drift(n, ids)
  BY <1>2 DEF Drift
<1> QED
  BY <1>1, <1>3 DEF DriftInv, IsAwaited, Latest

\* A new load: the page on its way is not its own.
LEMMA LoadDrift ==
    ASSUME IInv, IInv', DriftInv, NEW reset \in BOOLEAN, NEW view, Load(reset, view),
           ~reset => UNCHANGED <<filter, timer>>
    PROVE  DriftInv'
<1>1. /\ generation' = generation + 1 /\ generation \in Nat
      /\ outbox' = outbox /\ db' = db /\ edits' = edits /\ edits \in Nat
      /\ items' = IF reset THEN << >> ELSE items
  BY DEF Load, desktop, IInv, TypeOK
<1>2. /\ inbox \in Seq(Requests) /\ \E request \in Requests :
             inbox' = Append(inbox, request) /\ request.gen = generation + 1
  <2>1. PICK request : inbox' = Append(inbox, request) /\ request.gen = generation + 1
                       /\ request \in waiting'
    BY DEF Load
  <2> QED
    BY <2>1 DEF IInv, TypeOK
<1>3. \A n \in DOMAIN inbox' : inbox'[n].gen <= generation'
  <2>1. PICK request \in Requests : inbox' = Append(inbox, request) /\ request.gen = generation + 1
    BY <1>2
  <2>2. \A n \in DOMAIN inbox' : \/ inbox'[n] = request
                                 \/ n \in DOMAIN inbox /\ inbox'[n] = inbox[n]
    BY <1>2, <2>1
  <2>3. \A n \in DOMAIN inbox : inbox[n].gen \in Nat /\ inbox[n].gen <= generation
    <3>1. \A n \in DOMAIN inbox : inbox[n] \in Requests
      BY <1>2
    <3> QED
      BY <3>1 DEF DriftInv, Requests, Generations
  <2> QED
    BY <1>1, <2>1, <2>2, <2>3
<1>4. \A n \in DOMAIN outbox : /\ outbox[n].request.gen <= generation'
                               /\ ~(outbox[n].request.gen = generation')
  <2>1. \A n \in DOMAIN outbox : outbox[n].request.gen \in Nat
    <3>1. \A n \in DOMAIN outbox : outbox[n] \in Answers
      BY DEF IInv, TypeOK
    <3> QED
      BY <3>1 DEF Answers, Requests, Generations
  <2> QED
    BY <1>1, <2>1 DEF DriftInv
<1>5. ASSUME ~timer'
      PROVE  Drift(Len(items), Shown)'
  <2>1. CASE reset
    <3>1. Shown' = {} /\ Len(items') = 0
      BY <1>1, <2>1 DEF Shown, Ids, ToSet
    <3>2. InView(<<query, category>>)' \in SUBSET Snippets
      BY DEF InView, IInv, TypeOK
    <3>3. Within(0, {}, InView(<<query, category>>)', edits)
      BY <1>1, <3>2, NothingDrifts
    <3> QED
      BY <1>1, <3>1, <3>3 DEF Drift
  <2>2. CASE ~reset
    <3>1. UNCHANGED <<items, query, category, timer, db, edits>>
      BY <1>1, <2>2 DEF filter
    <3>2. Drift(Len(items), Shown)
      BY <1>5, <3>1 DEF DriftInv
    <3> QED
      BY <3>1, <3>2 DEF Drift, Shown, Ids, InView
  <2> QED
    BY <2>1, <2>2
<1> QED
  BY <1>1, <1>3, <1>4, <1>5 DEF DriftInv, IsAwaited, Latest

\* The host selects the page that follows the rows shown.
LEMMA SelectPageDrift ==
    ASSUME IInv, DriftInv, SelectPage
    PROVE  DriftInv'
<1>1. PICK request, page, answer :
          /\ request = Head(inbox)
          /\ page = Page(request.view, request.from)
          /\ answer.request = request /\ answer.page = page
          /\ answer = [request |-> request, page |-> page,
                       hasMore |-> More(request.from, page, counted)]
  OBVIOUS
<1>2. /\ inbox # << >> /\ outbox' = Append(outbox, answer) /\ inbox' = Tail(inbox)
      /\ UNCHANGED <<db, edits, waiting, query, category, timer, generation, items>>
  BY <1>1 DEF SelectPage, desktop, filter, list
<1>3. /\ inbox \in Seq(Requests) /\ outbox \in Seq(Answers)
      /\ request \in Requests /\ request.from \in Nat
  <2>1. request \in Requests
    BY <1>1, <1>2 DEF IInv, TypeOK
  <2> QED
    BY <2>1, ListAssumption, FS_CardinalityType DEF IInv, TypeOK, Requests
<1>4. \A n \in DOMAIN inbox' : n + 1 \in DOMAIN inbox /\ inbox'[n] = inbox[n + 1]
  BY <1>2, <1>3
<1>5. \A n \in DOMAIN outbox' : \/ outbox'[n] = answer
                                \/ n \in DOMAIN outbox /\ outbox'[n] = outbox[n]
  BY <1>2, <1>3
<1>6. request.gen <= generation
  <2>1. 1 \in DOMAIN inbox /\ inbox[1] = request
    BY <1>1, <1>2, <1>3
  <2> QED
    BY <2>1 DEF DriftInv
<1>7. /\ Shown' = Shown
      /\ \A n, ids : Drift(n, ids)' <=> Drift(n, ids)
      /\ \A r : IsAwaited(r)' <=> IsAwaited(r)
  BY <1>2 DEF Shown, Ids, Drift, InView, IsAwaited, Latest
<1>8. ASSUME ~timer, IsAwaited(request)
      PROVE  Drift(Len(items) + Len(page), Shown \cup ToSet(page))
  <2>1. request.from = Len(items) /\ request.view = <<query, category>>
    BY <1>8 DEF IInv, LatestGoesOn, OffsetsInRange, IsAwaited
  <2>2. PICK found, ids : found = InView(<<query, category>>) /\ ids = Shown
    OBVIOUS
  <2>3. PICK n \in Nat, size \in Nat : n = Len(items) /\ size = Len(page)
    BY <1>1, <1>3, <2>1, PageType DEF IInv
  <2>4. /\ ToSet(page) = First(n + size, found) \ First(n, found)
        /\ Cardinality(ToSet(page)) = size
    <3>1. TypeOK /\ page = Page(<<query, category>>, n)
      BY <1>1, <2>1, <2>3 DEF IInv
    <3>2. /\ ToSet(page) = First(n + Len(page), InView(<<query, category>>))
                                \ First(n, InView(<<query, category>>))
          /\ Cardinality(ToSet(page)) = Len(page)
      BY <3>1, PageIsNext
    <3> QED
      BY <2>2, <2>3, <3>2
  <2>5. found \in SUBSET Snippets /\ ids \in SUBSET Snippets /\ edits \in Nat
    BY <2>2, InViewType, ShownType DEF IInv, TypeOK
  <2>6. Within(n, ids, found, edits)
    BY <1>8, <2>2, <2>3 DEF DriftInv, Drift
  <2>7. Within(n + size, ids \cup ToSet(page), found, edits)
    BY <2>4, <2>5, <2>6, PageCostsNothing
  <2> QED
    BY <2>2, <2>3, <2>7 DEF Drift
<1>9. ASSUME NEW n \in DOMAIN outbox'
      PROVE  /\ outbox'[n].request.gen <= generation
             /\ ~timer /\ IsAwaited(outbox'[n].request) =>
                    Drift(Len(items) + Len(outbox'[n].page), Shown \cup ToSet(outbox'[n].page))
  <2>1. CASE outbox'[n] = answer
    BY <1>1, <1>6, <1>8, <2>1
  <2>2. CASE n \in DOMAIN outbox /\ outbox'[n] = outbox[n]
    BY <2>2 DEF DriftInv
  <2> QED
    BY <1>5, <2>1, <2>2
<1>10. \A n \in DOMAIN inbox' : inbox'[n].gen <= generation
  BY <1>4 DEF DriftInv
<1> QED
  BY <1>2, <1>7, <1>9, <1>10 DEF DriftInv

\* The page comes: the rows and the page become the rows shown.
LEMMA ShowDrift ==
    ASSUME IInv, DriftInv, Show
    PROVE  DriftInv'
<1>1. PICK answer, request, page :
          answer = Head(outbox) /\ request = answer.request /\ page = answer.page
  OBVIOUS
<1> DEFINE taken == request \in waiting /\ Latest(request)
           shown == [n \in DOMAIN page |-> [id |-> page[n], view |-> request.view]]
<1>2. /\ outbox # << >> /\ outbox' = Tail(outbox)
      /\ waiting' = waiting \ {request}
      /\ UNCHANGED <<db, edits, inbox, query, category, timer, generation>>
      /\ taken => items' = IF request.reset THEN shown ELSE items \o shown
      /\ ~taken => UNCHANGED items
  BY <1>1 DEF Show, desktop, filter, list
<1>3. outbox \in Seq(Answers) /\ answer \in Answers
      /\ 1 \in DOMAIN outbox /\ outbox[1] = answer
  BY <1>1, <1>2 DEF IInv, TypeOK
<1>4. \A n \in DOMAIN outbox' : n + 1 \in DOMAIN outbox /\ outbox'[n] = outbox[n + 1]
  BY <1>2, <1>3
<1>5. /\ \A n \in DOMAIN inbox' : inbox'[n].gen <= generation'
      /\ \A n \in DOMAIN outbox' : outbox'[n].request.gen <= generation'
  BY <1>2, <1>4 DEF DriftInv
<1>6. /\ \A n, ids : Drift(n, ids)' <=> Drift(n, ids)
      /\ \A r : IsAwaited(r)' => IsAwaited(r) /\ r # request
  BY <1>2 DEF Drift, InView, IsAwaited, Latest
<1>7. CASE ~taken
  <2>1. Shown' = Shown /\ items' = items
    BY <1>2, <1>7 DEF Shown, Ids
  <2> HIDE DEF taken, shown
  <2> QED
    BY <1>2, <1>4, <1>5, <1>6, <2>1 DEF DriftInv
<1>8. CASE taken
  <2>1. ASSUME NEW r, IsAwaited(r)'
        PROVE  FALSE
    BY <1>6, <1>8, <2>1 DEF IInv, LatestGoesOn, IsAwaited
  <2>2. /\ page \in Seq(Snippets) /\ Len(page) \in Nat /\ DOMAIN page = 1..Len(page)
        /\ request \in Requests
    <3>1. page \in Seq(Snippets) /\ request \in Requests
      BY <1>1, <1>3 DEF Answers
    <3> QED
      BY <3>1, LenProperties
  <2>3. /\ items \in Seq(Rows) /\ Len(items) \in Nat /\ DOMAIN items = 1..Len(items)
        /\ request.reset => items = << >>
    <3>1. items \in Seq(Rows)
      BY DEF IInv, TypeOK
    <3> QED
      BY <3>1, <1>8, LenProperties DEF IInv, LatestGoesOn
  <2>4. shown \in Seq(Rows) /\ Len(shown) = Len(page)
        /\ \A n \in 1..Len(page) : shown[n].id = page[n]
    <3>1. \A n \in 1..Len(page) : page[n] \in Snippets
      BY <2>2, ElementOfSeq
    <3>2. shown \in [1..Len(page) -> Rows]
      BY <2>2, <3>1 DEF Rows, Requests
    <3>3. \A n \in 1..Len(page) : shown[n].id = page[n]
      BY <2>2
    <3> HIDE DEF shown
    <3> QED
      BY <2>2, <3>2, <3>3, SeqDef, LenProperties
  <2>5. items' = IF request.reset THEN shown ELSE items \o shown
    BY <1>2, <1>8
  <2> HIDE DEF shown, taken
  <2>6. /\ Len(items') = Len(items) + Len(page)
        /\ items' \in Seq(Rows)
        /\ \A n \in 1..Len(items) : items'[n] = items[n]
        /\ \A n \in 1..Len(page) : items'[Len(items) + n] = shown[n]
    <3>1. CASE request.reset
      BY <2>2, <2>3, <2>4, <2>5, <3>1
    <3>2. CASE ~request.reset
      <4>1. PICK m \in Nat, size \in Nat : m = Len(items) /\ size = Len(page)
        BY <2>2, <2>3
      <4>2. /\ Len(items') = m + size /\ items' \in Seq(Rows)
            /\ \A n \in 1..(m + size) : items'[n] = IF n <= m THEN items[n] ELSE shown[n - m]
        <5>1. ASSUME NEW a \in Seq(Rows), NEW b \in Seq(Rows), m = Len(a), size = Len(b)
              PROVE  /\ Len(a \o b) = m + size /\ a \o b \in Seq(Rows)
                     /\ \A n \in 1..(m + size) : (a \o b)[n] = IF n <= m THEN a[n] ELSE b[n - m]
          BY <5>1, ConcatProperties
        <5> QED
          BY <2>3, <2>4, <2>5, <3>2, <4>1, <5>1
      <4>3. \A n \in 1..m : n \in 1..(m + size) /\ n <= m
        OBVIOUS
      <4>4. \A n \in 1..size : m + n \in 1..(m + size) /\ ~(m + n <= m) /\ (m + n) - m = n
        OBVIOUS
      <4> QED
        BY <4>1, <4>2, <4>3, <4>4
    <3> QED
      BY <3>1, <3>2
  <2>7. Shown' = Shown \cup ToSet(page)
    <3>1. PICK m \in Nat, size \in Nat : m = Len(items) /\ size = Len(page)
      BY <2>2, <2>3
    <3>2. DOMAIN items' = 1..(m + size)
      BY <2>6, <3>1, LenProperties
    <3>3. Shown' = {items'[n].id : n \in 1..(m + size)}
      BY <3>2 DEF Shown, Ids, ToSet
    <3>4. Shown = {items[n].id : n \in 1..m} /\ ToSet(page) = {page[n] : n \in 1..size}
      BY <2>2, <2>3, <3>1 DEF Shown, Ids, ToSet
    <3>5. \A n \in 1..(m + size) : n \in 1..m \/ (n - m \in 1..size /\ m + (n - m) = n)
      OBVIOUS
    <3>6. /\ \A n \in 1..m : n \in 1..(m + size) /\ items'[n].id = items[n].id
          /\ \A n \in 1..size : m + n \in 1..(m + size) /\ items'[m + n].id = page[n]
      BY <2>4, <2>6, <3>1
    <3> QED
      BY <3>3, <3>4, <3>5, <3>6
  <2>8. ~timer => Drift(Len(items) + Len(page), Shown \cup ToSet(page))
    BY <1>1, <1>3, <1>8 DEF DriftInv, IsAwaited, taken
  <2> QED
    BY <1>2, <1>5, <1>6, <2>1, <2>6, <2>7, <2>8 DEF DriftInv
<1> QED
  BY <1>7, <1>8

\* The desktop adds or deletes a snippet.
LEMMA EditDrift ==
    ASSUME IInv, DriftInv, NEW s \in Snippets, Edit(s)
    PROVE  DriftInv'
<1>1. /\ edits' = edits + 1 /\ edits \in Nat
      /\ db' = IF s \in db THEN db \ {s} ELSE db \cup {s}
      /\ UNCHANGED <<inbox, outbox, waiting, query, category, timer, generation, items>>
  BY DEF Edit, server, filter, list, IInv, TypeOK
<1>2. PICK found, other : found = InView(<<query, category>>)
                          /\ other = InView(<<query, category>>)'
  OBVIOUS
<1>3. found \in SUBSET Snippets /\ other \in {found, found \cup {s}, found \ {s}}
  <2>1. found \in SUBSET Snippets
    BY <1>2, InViewType DEF IInv
  <2>2. PICK view : found = db \cap view /\ other = db' \cap view
    <3>1. /\ found = db \cap (Found[query] \cap InCategory(category))
          /\ other = db' \cap (Found[query] \cap InCategory(category))
      BY <1>1, <1>2 DEF InView
    <3> QED
      BY <3>1
  <2>3. other = found \/ other = found \cup {s} \/ other = found \ {s}
    BY <1>1, <2>2
  <2> QED
    BY <2>1, <2>3
<1>4. ASSUME NEW n \in Nat, NEW ids \in SUBSET Snippets, Drift(n, ids)
      PROVE  Drift(n, ids)'
  <2>1. Within(n, ids, found, edits)
    BY <1>2, <1>4 DEF Drift
  <2>2. Within(n, ids, other, edits + 1)
    BY <1>1, <1>3, <2>1, EditCostsOne
  <2> QED
    BY <1>1, <1>2, <2>2 DEF Drift
<1>5. Shown' = Shown /\ Shown \in SUBSET Snippets /\ Len(items) \in Nat
  BY <1>1, ShownType DEF Shown, Ids, IInv
<1>6. ASSUME NEW n \in DOMAIN outbox
      PROVE  /\ Len(items) + Len(outbox[n].page) \in Nat
             /\ Shown \cup ToSet(outbox[n].page) \in SUBSET Snippets
  <2>1. PICK page \in Seq(Snippets) : page = outbox[n].page
    <3>1. outbox[n] \in Answers
      BY <1>6 DEF IInv, TypeOK
    <3> QED
      BY <3>1 DEF Answers
  <2>2. DOMAIN page = 1..Len(page) /\ Len(page) \in Nat
    BY LenProperties
  <2>3. ToSet(page) \in SUBSET Snippets
    BY <2>2, ElementOfSeq DEF ToSet
  <2> QED
    BY <1>5, <2>1, <2>2, <2>3
<1> QED
  BY <1>1, <1>4, <1>5, <1>6 DEF DriftInv, IsAwaited, Latest

LEMMA NextDrift ==
    ASSUME IInv, IInv', DriftInv, [Next]_vars
    PROVE  DriftInv'
<1>1. CASE Reopen
  BY <1>1, ReopenDrift
<1>2. CASE Hello
  BY <1>2, QuietDrift DEF Hello, desktop, server, filter
<1>3. CASE FirstLoad
  BY <1>3, LoadDrift DEF FirstLoad
<1>4. CASE SearchNow
  BY <1>4, LoadDrift DEF SearchNow
<1>5. CASE LoadMore
  BY <1>5, LoadDrift DEF LoadMore
<1>6. ASSUME NEW q \in Queries, Type(q)
      PROVE  DriftInv'
  BY <1>6 DEF Type, desktop, server, list, DriftInv
<1>7. ASSUME NEW c \in Categories, Choose(c)
      PROVE  DriftInv'
  BY <1>7, LoadDrift DEF Choose
<1>8. CASE Count
  BY <1>8, QuietDrift DEF Count, desktop, filter, list
<1>9. CASE SelectPage
  BY <1>9, SelectPageDrift
<1>10. CASE Show
  BY <1>10, ShowDrift
<1>11. ASSUME NEW request \in waiting, Fail(request)
       PROVE  DriftInv'
  BY <1>11, QuietDrift DEF Fail, desktop, server, filter
<1>12. ASSUME NEW s \in Snippets, Edit(s)
       PROVE  DriftInv'
  BY <1>12, EditDrift
<1>13. CASE UNCHANGED vars
  BY <1>13, QuietDrift DEF vars, desktop, server, filter, list
<1> QED
  BY <1>1, <1>2, <1>3, <1>4, <1>5, <1>6, <1>7, <1>8, <1>9, <1>10, <1>11, <1>12, <1>13 DEF Next

LEMMA DriftInvariance == Spec => []DriftInv
<1>1. Init => DriftInv
  BY InitDrift
<1>2. IInv /\ IInv' /\ DriftInv /\ [Next]_vars => DriftInv'
  BY NextDrift
<1> QED
  BY <1>1, <1>2, Invariance, PTL DEF Spec

\* The rows to be reached are the first of what the user asks for.
LEMMA ReachedIsFirst ==
    ASSUME NEW found \in SUBSET Snippets, NEW n \in Nat
    PROVE  ToSet(SubSeq(Sorted(found), 1, Min({n, Len(Sorted(found))}))) = First(n, found)
<1>1. PICK sorted : sorted = Sorted(found)
  OBVIOUS
<1>2. PICK size \in Nat : size = Len(sorted) /\ size = Cardinality(found)
  BY <1>1, SortedType, LenProperties
<1>3. PICK last \in 0..size : last = Min({n, size}) /\ last = IF n <= size THEN n ELSE size
  BY MinOf
<1>4. sorted \in Seq(Snippets) /\ DOMAIN sorted = 1..size
  BY <1>1, <1>2, SortedType, LenProperties
<1>5. ToSet(SubSeq(sorted, 1, last)) = {sorted[k] : k \in 1..last}
  <2>1. \A k \in 1..last : sorted[k] \in Snippets
    BY <1>2, <1>4, ElementOfSeq
  <2>2. /\ SubSeq(sorted, 1, last) \in Seq(Snippets)
        /\ Len(SubSeq(sorted, 1, last)) = last
        /\ \A k \in 1..last : SubSeq(sorted, 1, last)[k] = sorted[k]
    BY <1>4, <2>1
  <2>3. DOMAIN SubSeq(sorted, 1, last) = 1..last
    BY <2>2, LenProperties
  <2> QED
    BY <2>2, <2>3 DEF ToSet
<1>6. \A k \in 1..size : sorted[k] \in found /\ Cardinality(Before(sorted[k], found)) = k - 1
  BY <1>1, <1>2, SortedRanks
<1>7. found \in SUBSET Nat /\ IsFiniteSet(found)
  BY ListAssumption, FS_Subset
<1>8. ASSUME NEW x \in First(n, found)
      PROVE  \E k \in 1..last : sorted[k] = x
  <2>1. x \in found /\ Cardinality(Before(x, found)) < n
        /\ Cardinality(Before(x, found)) \in 0..(size - 1)
    BY <1>2, <1>7, RankGrows DEF First
  <2>2. PICK k \in 1..last : k = Cardinality(Before(x, found)) + 1
    BY <1>3, <2>1
  <2>3. sorted[k] \in found /\ Cardinality(Before(sorted[k], found)) = Cardinality(Before(x, found))
    BY <1>3, <1>6, <2>1, <2>2
  <2> QED
    BY <1>7, <2>1, <2>3, RanksDiffer
<1>9. \A k \in 1..last : sorted[k] \in First(n, found)
  BY <1>3, <1>6 DEF First
<1> QED
  BY <1>1, <1>2, <1>3, <1>5, <1>8, <1>9

\* Each edit of the desktop costs one row at most, shown twice or missed, for
\* any page size and however edits, loads and answers interleave (the offsets
\* of loadMore and list_snippets).
THEOREM DriftStaysBounded == Spec => []DriftIsBounded
<1>1. ASSUME IInv, DriftInv PROVE DriftIsBounded
  <2> SUFFICES ASSUME ~timer
               PROVE  LET result == Wanted(<<query, category>>)
                          reached == SubSeq(result, 1, Min({Len(Ids), Len(result)}))
                      IN  /\ Len(Ids) - Cardinality(ToSet(Ids)) <= edits
                          /\ Cardinality(ToSet(reached) \ ToSet(Ids)) <= edits
    BY DEF DriftIsBounded
  <2>1. PICK found, ids, n : /\ found = InView(<<query, category>>) /\ ids = ToSet(Ids)
                             /\ n = Len(items)
    OBVIOUS
  <2>2. found \in SUBSET Snippets /\ ids \in SUBSET Snippets /\ n \in Nat /\ edits \in Nat
    BY <1>1, <2>1, InViewType, ShownType DEF Shown, IInv, TypeOK
  <2>3. Wanted(<<query, category>>) = Sorted(found)
    BY <2>1, FoundIsMeant DEF Wanted, InView
  <2>4. Len(Ids) = n
    <3>1. items \in Seq(Rows)
      BY <1>1 DEF IInv, TypeOK
    <3> QED
      BY <2>1, <2>2, <3>1 DEF Ids
  <2>5. ToSet(SubSeq(Sorted(found), 1, Min({n, Len(Sorted(found))}))) = First(n, found)
    BY <2>2, ReachedIsFirst
  <2>6. Within(n, ids, found, edits)
    BY <1>1, <2>1 DEF DriftInv, Drift, Shown
  <2>7. /\ Cardinality(ids) \in Nat
        /\ Cardinality((ids \cap found) \ First(n, found)) \in Nat
    BY <2>2, ListAssumption, FS_Subset, FS_CardinalityType
  <2>8. n - Cardinality(ids) <= edits /\ Cardinality(First(n, found) \ ids) <= edits
    BY <2>2, <2>6, <2>7 DEF Within
  <2> QED
    BY <2>1, <2>3, <2>4, <2>5, <2>8
<1> QED
  BY <1>1, Invariance, DriftInvariance, PTL
==============================================================================
