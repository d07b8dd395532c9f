-------------------------------- MODULE Search --------------------------------
(***************************************************************************)
(* The search of list_snippets (search_filter and escape_like,             *)
(* native-host/src/db.rs) over SQLite's LIKE.  A text is a sequence of     *)
(* characters; the only letter is one with two cases, for the comparison.  *)
(***************************************************************************)
EXTENDS Integers, Sequences, SequencesExt

Letters == {"a", "A"}
Wildcards == {"%", "_"}
Escape == "\\"
Space == " "
Characters == Letters \cup Wildcards \cup {Escape, Space}

\* NOCASE folds ASCII letters.
Same(c, d) == c = d \/ {c, d} \subseteq Letters

\* str::trim.
TrimText(q) ==
    LET kept == {n \in DOMAIN q : q[n] # Space}
    IN  IF kept = {} THEN << >>
        ELSE SubSeq(q, CHOOSE n \in kept : \A k \in kept : n <= k,
                       CHOOSE n \in kept : \A k \in kept : k <= n)

EscapeLike(q) ==
    FlattenSeq([n \in DOMAIN q |->
                   IF q[n] \in Wildcards \cup {Escape} THEN <<Escape, q[n]>> ELSE <<q[n]>>])

\* text LIKE pattern ESCAPE '\' COLLATE NOCASE: starts[i] are the places from
\* which on the text matches the pattern from i on.
Like(text, pattern) ==
    LET starts[i \in 1..Len(pattern) + 1] ==
            IF i > Len(pattern) THEN {Len(text) + 1}
            ELSE IF pattern[i] = "%"
            THEN {j \in 1..Len(text) + 1 : \E k \in starts[i + 1] : j <= k}
            ELSE {j \in 1..Len(text) :
                     IF pattern[i] = "_" THEN j + 1 \in starts[i + 1]
                     ELSE IF pattern[i] = Escape
                     THEN /\ i < Len(pattern)
                          /\ Same(pattern[i + 1], text[j])
                          /\ j + 1 \in starts[i + 2]
                     ELSE Same(pattern[i], text[j]) /\ j + 1 \in starts[i + 1]}
    IN  1 \in starts[1]

\* search_filter: any of title, description, category and body.
Matches(query, texts) ==
    LET q == TrimText(query) IN
    \/ q = << >>
    \/ \E text \in texts : Like(text, <<"%">> \o EscapeLike(q) \o <<"%">>)

------------------------------------------------------------------------------
\* What a user means by a search: the query, without the spaces around it,
\* stands somewhere in one of the texts, with letters of either case.
Occurs(q, text) ==
    \E k \in 0..Len(text) - Len(q) : \A n \in DOMAIN q : Same(q[n], text[k + n])

Meant(query, texts) ==
    TrimText(query) = << >> \/ \E text \in texts : Occurs(TrimText(query), text)

\* The code and the meaning agree for every query of up to m characters and
\* every text of up to n.
SearchMeans(m, n) ==
    \A query \in UNION {[1..k -> Characters] : k \in 0..m},
       text \in UNION {[1..k -> Characters] : k \in 0..n} :
        Matches(query, {text}) = Meant(query, {text})
==============================================================================
