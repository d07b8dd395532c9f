------------------------------- MODULE Listing -------------------------------
(***************************************************************************)
(* The popup's list (init, loadSnippets, loadMore, search and category in  *)
(* extension/src/popup.ts) over the host's pages (list_snippets in main.rs *)
(* and db.rs), while the desktop edits the database.  Each load has a      *)
(* generation; only the answer to the latest is shown.  The host counts    *)
(* and selects in two statements, outside a transaction.  The answers to   *)
(* hello and listCategories come at any time, also out of turn.            *)
(***************************************************************************)
EXTENDS Integers, Sequences, FiniteSets, SequencesExt, Ascending, Search

CONSTANTS
    Snippets,      \* the snippets there can be, numbered in list order
    Texts,         \* the title, description, category and body of each
    CategoryOf,
    Queries,       \* what can be typed in the search field
    Categories,    \* what the category filter can be set to
    All,           \* "All categories"
    PageSize,
    MaxLoads,      \* bound: generations
    MaxEdits       \* bound: edits of the desktop while the popup is open

ASSUME ListAssumption ==
    /\ Snippets \subseteq Nat /\ IsFiniteSet(Snippets)
    /\ \A s \in Snippets : Texts[s] \subseteq Seq(Characters)
    /\ \A s \in Snippets : CategoryOf[s] # All
    /\ Queries \subseteq Seq(Characters) /\ << >> \in Queries
    /\ All \in Categories
    /\ PageSize \in Nat \ {0}
    /\ MaxLoads \in Nat \ {0} /\ MaxEdits \in Nat

Views == Queries \X Categories
Generations == 1..MaxLoads
NoCount == -1

VARIABLES
    db,          \* the snippets in the database
    edits,       \* history: how often the desktop has since the popup opened
    inbox,       \* the list requests the host has not answered
    counted,     \* the total the host has counted for the first of them
    outbox,      \* the pages on their way to the popup
    waiting,     \* the requests pending in the client
    opening,     \* init waits for "hello", for its "categories", or is "done"
    menu,        \* the category menu is filled
    query,       \* state.query
    category,    \* state.category
    timer,       \* the debounce timer runs
    generation,
    loading,
    failed,      \* state.error
    items,       \* the rows shown, each with the view it was asked for
    offset,
    hasMore

desktop == <<db, edits>>
start == <<opening, menu>>
server == <<inbox, counted, outbox>>
filter == <<query, category>>
list == <<loading, failed, items, offset, hasMore>>
vars == <<desktop, server, waiting, start, filter, timer, generation, list>>

Init ==
    /\ db \in SUBSET Snippets
    /\ edits = 0
    /\ inbox = << >>
    /\ counted = NoCount
    /\ outbox = << >>
    /\ waiting = {}
    /\ opening = "hello"
    /\ menu = FALSE
    /\ query = << >>
    /\ category = All
    /\ timer = FALSE
    /\ generation = 0
    /\ loading = FALSE
    /\ failed = FALSE
    /\ items = << >>
    /\ offset = 0
    /\ hasMore = FALSE

\* search_filter.
Found == [q \in Queries |-> {s \in Snippets : Matches(q, Texts[s])}]
InCategory(c) == {s \in Snippets : c \in {All, CategoryOf[s]}}

\* WHERE ... ORDER BY sort_order, id
Result(view) == Sorted(db \cap Found[view[1]] \cap InCategory(view[2]))

\* A plausible bug: each page begins with the last row of the one before.
PageOverlapping(view, from) ==
    SubSeq(Result(view), Max({from, 1}), Min({from + PageSize, Len(Result(view))}))

\* LIMIT ? OFFSET ?
Page(view, from) ==
    SubSeq(Result(view), from + 1, Min({from + PageSize, Len(Result(view))}))

------------------------------------------------------------------------------
\* loadSnippets, from the start (reset) or from the current offset, for the
\* filter as it is now.
Load(reset, view) ==
    LET from == IF reset THEN 0 ELSE offset
        request == [gen |-> generation + 1, reset |-> reset, view |-> view,
                    from |-> from]
    IN
    /\ generation' = generation + 1
    /\ loading' = TRUE
    /\ failed' = FALSE
    /\ inbox' = Append(inbox, request)
    /\ waiting' = waiting \cup {request}
    /\ offset' = from
    /\ items' = IF reset THEN << >> ELSE items
    /\ hasMore' = (hasMore /\ ~reset)
    /\ UNCHANGED <<desktop, counted, outbox>>

\* The bound on generations leaves room for the loads that are due.
Due == (IF timer THEN 1 ELSE 0) + (IF opening = "done" THEN 0 ELSE 1)
Room == generation + Due < MaxLoads

\* init: hello is answered, with a database or without; or it fails, and that
\* is all that init does.
Hello ==
    /\ opening = "hello"
    /\ \/ opening' = "categories" /\ failed' \in {failed, TRUE}
       \/ opening' = "done" /\ failed' = TRUE
    /\ UNCHANGED <<desktop, server, waiting, menu, filter, timer, generation,
                   loading, items, offset, hasMore>>

\* refreshCategories ends, with or without a menu, and init loads the list.
FirstLoad ==
    /\ opening = "categories"
    /\ opening' = "done"
    /\ menu' \in BOOLEAN
    /\ Load(TRUE, <<query, category>>)
    /\ UNCHANGED <<filter, timer>>

\* onSearchInput: the query changes now, the list after the debounce.
Type(q) ==
    /\ timer \/ Room
    /\ query' = q
    /\ timer' = TRUE
    /\ UNCHANGED <<desktop, server, waiting, start, category, generation, list>>

SearchNow ==
    /\ timer
    /\ timer' = FALSE
    /\ Load(TRUE, <<query, category>>)
    /\ UNCHANGED <<start, filter>>

\* onCategoryChange: at once, with the query as typed so far; a running
\* debounce timer goes on and loads again.
Choose(c) ==
    /\ menu
    /\ Room
    /\ category' = c
    /\ Load(TRUE, <<query, c>>)
    /\ UNCHANGED <<start, query, timer>>

\* The button at the end of the list, or scrolling near it.
LoadMore ==
    /\ Room
    /\ hasMore
    /\ ~loading
    /\ Load(FALSE, <<query, category>>)
    /\ UNCHANGED <<start, filter, timer>>

------------------------------------------------------------------------------
\* The host: SELECT COUNT(*), then the page.
Count ==
    /\ inbox # << >>
    /\ counted = NoCount
    /\ counted' = Len(Result(Head(inbox).view))
    /\ UNCHANGED <<desktop, inbox, outbox, waiting, start, filter, timer,
                   generation, list>>

\* A plausible bug: a full page means that there is more.
MoreIfFull(from, page, total) == Len(page) = PageSize

\* has_more of list_snippets.
More(from, page, total) == from + Len(page) < total

SelectPage ==
    LET request == Head(inbox) IN
    /\ inbox # << >>
    /\ counted # NoCount
    /\ LET page == Page(request.view, request.from) IN
       outbox' = Append(outbox,
           [request |-> request, page |-> page,
            hasMore |-> More(request.from, page, counted)])
    /\ inbox' = Tail(inbox)
    /\ counted' = NoCount
    /\ UNCHANGED <<desktop, waiting, start, filter, timer, generation, list>>

------------------------------------------------------------------------------
\* A plausible bug: every answer that is waited for is shown.
Always(request) == TRUE

\* The generation check: a newer load has been started since.
Latest(request) == request.gen = generation

\* The page arrives.  If nobody waits for it any more it is late, and ignored
\* by the client; if it is not the latest load's, by the popup.
Show ==
    LET answer == Head(outbox)
        request == answer.request
        shown == [n \in DOMAIN answer.page |->
                     [id |-> answer.page[n], view |-> request.view]]
    IN
    /\ outbox # << >>
    /\ outbox' = Tail(outbox)
    /\ waiting' = waiting \ {request}
    /\ IF request \in waiting /\ Latest(request)
       THEN /\ items' = IF request.reset THEN shown ELSE items \o shown
            /\ hasMore' = answer.hasMore
            /\ offset' = request.from + Len(answer.page)
            /\ loading' = FALSE
            /\ UNCHANGED failed
       ELSE UNCHANGED list
    /\ UNCHANGED <<desktop, inbox, counted, start, filter, timer, generation>>

\* A plausible bug: a failed load leaves the spinner on.
FailSpinning(request) ==
    /\ request \in waiting
    /\ waiting' = waiting \ {request}
    /\ failed' = (failed \/ Latest(request))
    /\ UNCHANGED <<desktop, server, start, filter, timer, generation,
                   loading, items, offset, hasMore>>

\* An error answer, the client's timeout, the end of the port.
Fail(request) ==
    /\ request \in waiting
    /\ waiting' = waiting \ {request}
    /\ loading' = (loading /\ ~Latest(request))
    /\ failed' = (failed \/ Latest(request))
    /\ UNCHANGED <<desktop, server, start, filter, timer, generation,
                   items, offset, hasMore>>

\* The desktop adds or deletes a snippet.
Edit(s) ==
    /\ edits < MaxEdits
    /\ edits' = edits + 1
    /\ db' = IF s \in db THEN db \ {s} ELSE db \cup {s}
    /\ UNCHANGED <<server, waiting, start, filter, timer, generation, list>>

\* The popup closes, its host ends, and it is opened again.
Reopen ==
    /\ inbox' = << >>
    /\ counted' = NoCount
    /\ outbox' = << >>
    /\ waiting' = {}
    /\ opening' = "hello"
    /\ menu' = FALSE
    /\ query' = << >>
    /\ category' = All
    /\ timer' = FALSE
    /\ generation' = 0
    /\ loading' = FALSE
    /\ failed' = FALSE
    /\ items' = << >>
    /\ offset' = 0
    /\ hasMore' = FALSE
    /\ edits' = 0
    /\ UNCHANGED db

Next ==
    \/ Reopen
    \/ Hello \/ FirstLoad \/ SearchNow \/ LoadMore
    \/ \E q \in Queries : Type(q)
    \/ \E c \in Categories : Choose(c)
    \/ Count \/ SelectPage \/ Show
    \/ \E request \in waiting : Fail(request)
    \/ \E s \in Snippets : Edit(s)

\* The client's timer ends every request; the debounce timer fires.
Fairness ==
    /\ WF_vars(\E request \in waiting : Fail(request))
    /\ WF_vars(SearchNow)

Spec == Init /\ [][Next]_vars /\ Fairness

------------------------------------------------------------------------------
Requests == [gen : Generations, reset : BOOLEAN, view : Views,
             from : 0..Cardinality(Snippets)]
Answers == [request : Requests, page : Seq(Snippets), hasMore : BOOLEAN]
Rows == [id : Snippets, view : Views]

TypeOK ==
    /\ db \subseteq Snippets
    /\ edits \in 0..MaxEdits
    /\ inbox \in Seq(Requests)
    /\ counted \in Nat \cup {NoCount}
    /\ outbox \in Seq(Answers)
    /\ waiting \subseteq Requests
    /\ opening \in {"hello", "categories", "done"}
    /\ menu \in BOOLEAN
    /\ menu => opening = "done"
    /\ query \in Queries
    /\ category \in Categories
    /\ timer \in BOOLEAN
    /\ generation \in 0..MaxLoads
    /\ loading \in BOOLEAN
    /\ failed \in BOOLEAN
    /\ items \in Seq(Rows)
    /\ offset \in Nat
    /\ hasMore \in BOOLEAN

\* The spinner is on exactly as long as the latest load is pending: no answer,
\* late, failed or overtaken, leaves it on or turns it off early.
SpinnerIsLatest == loading <=> \E request \in waiting : Latest(request)

\* The types, and the spinner.
ListOK == TypeOK /\ SpinnerIsLatest

\* Once no debounce is running, every row shown belongs to the filter the user
\* sees, whatever older loads were answered in the meantime.
RowsMatchFilter ==
    ~timer => \A n \in DOMAIN items : items[n].view = <<query, category>>

\* What the user asks for: the snippets the search means (module Search).
MeantBy == [q \in Queries |-> {s \in Snippets : Meant(q, Texts[s])}]

Wanted(view) == Sorted(db \cap MeantBy[view[1]] \cap InCategory(view[2]))

Ids == [n \in DOMAIN items |-> items[n].id]

\* Over a database nobody has edited since the popup opened, the rows are the
\* beginning of what the user asks for, none twice and none missing; and there
\* is more exactly when the popup says so.
RowsArePrefix ==
    ~timer /\ edits = 0 =>
        LET result == Wanted(<<query, category>>) IN
        /\ IsPrefix(Ids, result)
        /\ generation > 0 /\ ~loading /\ ~failed =>
               (hasMore <=> Len(Ids) < Len(result))

\* Pages are offsets into a list that the desktop changes in between: each edit
\* costs at most one row, shown twice or missed on the way to the last one.
DriftIsBounded ==
    ~timer =>
        LET result == Wanted(<<query, category>>)
            reached == SubSeq(result, 1, Min({Len(Ids), Len(result)}))
        IN
        /\ Len(Ids) - Cardinality(ToSet(Ids)) <= edits
        /\ Cardinality(ToSet(reached) \ ToSet(Ids)) <= edits

\* Every load ends, whatever the host does.
LoadEnds == loading ~> ~loading

------------------------------------------------------------------------------
\* The inductive invariant behind the first three.

\* The loads that are due find a generation.
LoadsLeft == generation + Due <= MaxLoads

\* The offset counts the rows, and no page reaches beyond the snippets.
OffsetsInRange ==
    /\ offset = Len(items)
    /\ offset <= Cardinality(Snippets)
    /\ \A n \in DOMAIN outbox :
           outbox[n].request.from + Len(outbox[n].page) <= Cardinality(Snippets)

\* The latest load is one; it asks for the rows that follow those shown and,
\* without a timer, for the filter the user sees.
LatestGoesOn ==
    \A r \in waiting :
        /\ r.gen <= generation
        /\ Latest(r) =>
               /\ \A q \in waiting : Latest(q) => q = r
               /\ r.from = offset
               /\ r.reset => items = << >>
               /\ ~timer => r.view = <<query, category>>

\* Over an unedited database the answers on their way are still true,
Stands(answer) ==
    LET from == answer.request.from
        view == answer.request.view
    IN  /\ answer.page = Page(view, from)
        /\ answer.hasMore <=> from + Len(answer.page) < Len(Result(view))

AnswersStand ==
    edits = 0 =>
        /\ counted # NoCount =>
               inbox # << >> /\ counted = Len(Result(Head(inbox).view))
        /\ \A n \in DOMAIN outbox : Stands(outbox[n])

\* and the rows shown begin what the host finds.
RowsStand ==
    ~timer /\ edits = 0 =>
        LET result == Result(<<query, category>>) IN
        /\ \A n \in DOMAIN items : n <= Len(result) /\ items[n].id = result[n]
        /\ generation > 0 /\ ~loading /\ ~failed =>
               (hasMore <=> Len(items) < Len(result))

IInv ==
    /\ TypeOK
    /\ LoadsLeft
    /\ OffsetsInRange
    /\ LatestGoesOn
    /\ SpinnerIsLatest
    /\ RowsMatchFilter
    /\ AnswersStand
    /\ RowsStand
==============================================================================
