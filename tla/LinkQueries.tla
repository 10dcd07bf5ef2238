---------------------------- MODULE LinkQueries ----------------------------
(***************************************************************************)
(* The reads of backend/src/links/links.service.ts: findAll, which a       *)
(* client calls page by page, and listTags.  One client walks the pages    *)
(* of one query while the rows under it come, go and change: between two   *)
(* pages the server keeps nothing, and all the client hands back is the id *)
(* of the last link it was given.                                          *)
(*                                                                         *)
(* A link is its rank in the order (createdAt, id) the pages are sorted    *)
(* by, and a search text q is the set of provenances (see LinkTables)      *)
(* whose text contains it.                                                 *)
(***************************************************************************)
EXTENDS LinkTables, FiniteSets

CONSTANTS
    Queries,      \* the filters a client may ask for
    Limits        \* and the page sizes

Query == [tags : SUBSET Names, q : SUBSET Reqs \cup {NULL}]

ASSUME QueriesAssumption ==
    /\ LinkIds \subseteq Nat
    /\ IsFiniteSet(LinkIds)
    /\ Queries \subseteq Query
    /\ Limits \subseteq Nat \ {0}

VARIABLES
    walk,         \* the client's way through the pages
    steady,       \* history: the links that have matched since the first page
    slipped       \* history: a cursor no longer stood for a link that matches

vars == <<tables, walk, steady, slipped>>

\* page is what the last answer held, before what the earlier ones did.
Walk == [pc     : {"idle", "next", "ended"},
         user   : Users \cup {NULL},
         query  : Queries \cup {NULL},
         limit  : Limits \cup {NULL},
         cursor : LinkIds \cup {NULL},
         page   : SUBSET LinkIds,
         before : SUBSET LinkIds]

TypeOK ==
    /\ TablesTypeOK
    /\ walk \in Walk
    /\ walk.pc = "next" <=> walk.cursor # NULL
    /\ steady \subseteq LinkIds
    /\ slipped \in BOOLEAN

Init ==
    /\ TablesInit
    /\ walk = [pc |-> "idle", user |-> NULL, query |-> NULL, limit |-> NULL,
               cursor |-> NULL, page |-> {}, before |-> {}]
    /\ steady = {}
    /\ slipped = FALSE

-----------------------------------------------------------------------------
(* The query                                                               *)

TagNames(l) == {t[2] : t \in TagsOf(l)}

\* Variant for TagCountsListed: `every` in place of `some` for each tag.
MatchesEvery(u, query, l) ==
    /\ Live(l)
    /\ links[l].userId = u
    /\ query.tags # {} => TagNames(l) \subseteq query.tags
    /\ query.q # NULL => links[l].title \in query.q \/ links[l].summary \in query.q

\* The where clause of findAll; a column that is NULL contains no text.
Matches(u, query, l) ==
    /\ Live(l)
    /\ links[l].userId = u
    /\ query.tags \subseteq TagNames(l)
    /\ query.q # NULL => links[l].title \in query.q \/ links[l].summary \in query.q

Listed(u, query) == {l \in LinkIds : Matches(u, query, l)}

Above(R, l) == {k \in R : k > l}

\* The first n rows of R, newest first.
Top(R, n) == {l \in R : Cardinality(Above(R, l)) < n}

\* Variant for PagesDescend: cursor without skip.
FromNoSkip(cursor, R) ==
    IF cursor = NULL THEN R ELSE {l \in R : Live(cursor) /\ l <= cursor}

\* The rows from the cursor on, skip 1.  Without a row under the cursor there
\* is nothing to compare with and no row; what skip drops is the first row, be
\* it the cursor's or not.
From(cursor, R) ==
    LET rest == {l \in R : Live(cursor) /\ l <= cursor}
    IN  IF cursor = NULL THEN R ELSE rest \ Top(rest, 1)

\* Variant for WalkComplete: take limit.
RowsNoExtra(R, limit) == Top(R, limit)

\* One row more than asked for, to see whether there is a next page.
Rows(R, limit) == Top(R, limit + 1)

\* Variant for TypeOK: every page that is not empty comes with a cursor.
AskPageAlwaysCursor(u, query, limit, cursor, R) ==
    LET rows  == Rows(From(cursor, R), limit)
        items == Top(rows, limit)
    IN  \E last \in items \cup {NULL} :
            /\ last = NULL => items = {}
            /\ \A l \in items : last <= l
            /\ walk' = [walk EXCEPT !.pc = IF rows = items THEN "ended" ELSE "next",
                                    !.user = u, !.query = query, !.limit = limit,
                                    !.cursor = last, !.page = items,
                                    !.before = @ \cup walk.page]

\* The client asks for a page of R, the rows that match at this moment.
AskPage(u, query, limit, cursor, R) ==
    LET rows  == Rows(From(cursor, R), limit)
        items == Top(rows, limit)
        fresh == [walk EXCEPT !.user = u, !.query = query, !.limit = limit,
                              !.before = @ \cup walk.page, !.page = items]
    IN  \/ /\ rows = items
           /\ walk' = [fresh EXCEPT !.pc = "ended", !.cursor = NULL]
        \/ /\ rows # items
           /\ \E last \in items :
                 /\ \A l \in items : last <= l
                 /\ walk' = [fresh EXCEPT !.pc = "next", !.cursor = last]

FirstPage(u, query, limit) ==
    /\ walk.pc = "idle"
    /\ AskPage(u, query, limit, NULL, Listed(u, query))
    /\ steady' = Listed(u, query)
    /\ UNCHANGED <<tables, slipped>>

NextPage ==
    LET R == Listed(walk.user, walk.query)
    IN  /\ walk.pc = "next"
        /\ AskPage(walk.user, walk.query, walk.limit, walk.cursor, R)
        /\ slipped' = (slipped \/ walk.cursor \notin R)
        /\ UNCHANGED <<tables, steady>>

-----------------------------------------------------------------------------
(* What LinksService and the pipeline runs do to the rows meanwhile.  The  *)
(* rank of a new link is mostly, but not always, the highest: createdAt is *)
(* taken before the row can be seen.                                       *)

Save(l, u) ==
    /\ links[l].status = "unborn"
    /\ InsertLink(l, u)
    /\ UNCHANGED <<tags, tagsOnLinks>>

Delete(l) ==
    /\ Live(l)
    /\ DeleteLinkRow(l)
    /\ UNCHANGED tags

\* A PATCH or a run writes a text.
Write(l, r) ==
    /\ Live(l)
    /\ \/ links' = [links EXCEPT ![l].title = r]
       \/ links' = [links EXCEPT ![l].summary = r]
    /\ UNCHANGED <<tags, tagsOnLinks>>

\* The tags of a link are deleted, or tags of its owner's are attached.
Untag(l) ==
    /\ tagsOnLinks' = {p \in tagsOnLinks : p[1] # l}
    /\ UNCHANGED <<links, tags>>

Attach(l, n) ==
    /\ Live(l)
    /\ tags' = tags \cup {<<links[l].userId, n>>}
    /\ tagsOnLinks' = tagsOnLinks \cup {<<l, <<links[l].userId, n>>>>}
    /\ UNCHANGED links

RowsChange(l) ==
    \/ \E u \in Users : Save(l, u)
    \/ Delete(l)
    \/ \E r \in Reqs : Write(l, r)
    \/ Untag(l)
    \/ \E n \in Names : Attach(l, n)

Change ==
    /\ \E l \in LinkIds : RowsChange(l)
    /\ UNCHANGED <<dbErrors, walk, slipped>>
    /\ steady' = {l \in steady : Matches(walk.user, walk.query, l)'}

Next ==
    \/ Change
    \/ NextPage
    \/ \E u \in Users, query \in Queries, limit \in Limits :
          FirstPage(u, query, limit)

Spec == Init /\ [][Next]_vars

-----------------------------------------------------------------------------
(* Properties                                                              *)

\* However links come, go and change between two pages, no page repeats a
\* link, and every page is older than all the pages before it.
PagesDescend == \A l \in walk.page, k \in walk.before : l < k

\* A client that has walked to the end has seen every link that matched its
\* query all the while, unless the link it handed back as cursor was deleted
\* or stopped matching: then pages may be missing (links.service.ts:70).
WalkComplete ==
    walk.pc = "ended" /\ ~slipped => steady \subseteq walk.before \cup walk.page

\* listTags: the rows of TagsOnLinks that _count counts for a tag.
TagCount(t) == Cardinality({p \in tagsOnLinks : p[2] = t})

\* The number the filter shows beside a tag is the number of links the list
\* shows when the tag is chosen: same tenant, same links, though one is a
\* count of join rows that checks no user and the other a query on links.
TagCountsListed ==
    \A t \in tags :
        TagCount(t) = Cardinality(Listed(t[1], [tags |-> {t[2]}, q |-> NULL]))

=============================================================================
