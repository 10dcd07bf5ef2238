------------------------- MODULE LinkQueriesProofs -------------------------
(***************************************************************************)
(* Proofs about LinkQueries.  The heart of it is Top, which is what take   *)
(* and the page size come to: it is upward closed (TopUpward), it drops    *)
(* the cursor's own row when asked for one (TopOne), and asking for one    *)
(* row more than the page holds tells whether there is another (TopWhole). *)
(***************************************************************************)
EXTENDS LinkQueries, FiniteSetTheorems, WellFoundedInduction, TLAPS

-----------------------------------------------------------------------------
(* Finite sets of ranks                                                    *)

\* Links are numbered, the newest highest.
LEMMA RanksAreNumbers ==
    ASSUME NEW R, R \subseteq LinkIds
    PROVE  \A l \in R : l \in Nat
  BY QueriesAssumption

\* The rows above a row can be counted.
LEMMA AboveCounts ==
    ASSUME NEW R, R \subseteq LinkIds, NEW l
    PROVE  /\ IsFiniteSet(Above(R, l))
           /\ Cardinality(Above(R, l)) \in Nat
<1>1. Above(R, l) \in SUBSET LinkIds
  BY DEF Above
<1>2. QED
  BY <1>1, QueriesAssumption, FS_Subset, FS_CardinalityType

\* A set of ranks that is not empty has a greatest member ...
LEMMA Newest ==
    ASSUME NEW R, R \subseteq LinkIds, R # {}
    PROVE  \E l \in R : \A k \in R : k <= l
<1> DEFINE Aboves == {Above(R, l) : l \in R}
<1>1. Aboves \subseteq SUBSET LinkIds /\ Aboves # {}
  BY DEF Above
<1>2. FiniteSubsetsOf(LinkIds) = SUBSET LinkIds
  BY QueriesAssumption, FS_FiniteSubsetsOfFinite
<1>3. IsWellFoundedOn(StrictSubsetOrdering(LinkIds), SUBSET LinkIds)
  BY <1>2, FS_StrictSubsetOrderingWellFounded
<1>4. PICK A \in Aboves :
          \A B \in Aboves : ~ (<<B, A>> \in StrictSubsetOrdering(LinkIds))
  BY <1>1, <1>3, WFMin
<1>5. PICK l \in R : A = Above(R, l)
  BY <1>4
<1>6. ASSUME NEW k \in R, ~ (k <= l)
      PROVE  FALSE
  <2>1. k \in Nat /\ l \in Nat /\ k > l
    BY <1>6, RanksAreNumbers
  <2>2. ASSUME NEW j \in Above(R, k)
        PROVE  j \in Above(R, l)
    <3>1. j \in R /\ j \in Nat
      BY RanksAreNumbers DEF Above
    <3>2. QED
      BY <2>1, <3>1 DEF Above
  <2>3. k \in Above(R, l) /\ k \notin Above(R, k)
    BY <2>1 DEF Above
  <2>4. Above(R, k) \in SUBSET LinkIds /\ Above(R, l) \in SUBSET LinkIds
    BY DEF Above
  <2>5. Above(R, k) # Above(R, l)
    BY <2>3
  <2>6. <<Above(R, k), Above(R, l)>> \in StrictSubsetOrdering(LinkIds)
    BY <2>2, <2>4, <2>5 DEF StrictSubsetOrdering
  <2>7. QED
    BY <1>4, <1>5, <1>6, <2>6
<1>7. QED
  BY <1>6

\* ... and a least one.
LEMMA Oldest ==
    ASSUME NEW R, R \subseteq LinkIds, R # {}
    PROVE  \E l \in R : \A k \in R : l <= k
<1> DEFINE Below(l) == {k \in R : k < l}
           Belows == {Below(l) : l \in R}
<1>1. Belows \subseteq SUBSET LinkIds /\ Belows # {}
  OBVIOUS
<1>2. FiniteSubsetsOf(LinkIds) = SUBSET LinkIds
  BY QueriesAssumption, FS_FiniteSubsetsOfFinite
<1>3. IsWellFoundedOn(StrictSubsetOrdering(LinkIds), SUBSET LinkIds)
  BY <1>2, FS_StrictSubsetOrderingWellFounded
<1>4. PICK A \in Belows :
          \A B \in Belows : ~ (<<B, A>> \in StrictSubsetOrdering(LinkIds))
  BY <1>1, <1>3, WFMin
<1>5. PICK l \in R : A = Below(l)
  BY <1>4
<1>6. ASSUME NEW k \in R, ~ (l <= k)
      PROVE  FALSE
  <2>1. k \in Nat /\ l \in Nat /\ k < l
    BY <1>6, RanksAreNumbers
  <2>2. ASSUME NEW j \in Below(k)
        PROVE  j \in Below(l)
    <3>1. j \in R /\ j \in Nat
      BY RanksAreNumbers
    <3>2. QED
      BY <2>1, <3>1
  <2>3. k \in Below(l) /\ k \notin Below(k)
    BY <2>1
  <2>4. Below(k) \in SUBSET LinkIds /\ Below(l) \in SUBSET LinkIds
    OBVIOUS
  <2>5. Below(k) # Below(l)
    BY <2>3
  <2> HIDE DEF Below
  <2>6. <<Below(k), Below(l)>> \in StrictSubsetOrdering(LinkIds)
    BY <2>2, <2>4, <2>5 DEF StrictSubsetOrdering
  <2>7. QED
    BY <1>4, <1>5, <1>6, <2>6
<1>7. QED
  BY <1>6

-----------------------------------------------------------------------------
(* Top                                                                     *)

\* The page is the rows with fewer than n rows above them.
LEMMA TopIs ==
    ASSUME NEW R, NEW n
    PROVE  Top(R, n) = {l \in R : Cardinality(Above(R, l)) < n}
  BY DEF Top

\* What is newer than a row on the page is on the page.
LEMMA TopUpward ==
    ASSUME NEW R, R \subseteq LinkIds, NEW n \in Nat,
           NEW k \in Top(R, n), NEW l \in R, l > k
    PROVE  l \in Top(R, n)
<1>1. k \in R /\ Cardinality(Above(R, k)) < n
  BY TopIs
<1>2. Above(R, l) \in SUBSET Above(R, k)
  BY <1>1, RanksAreNumbers DEF Above
<1>3. Cardinality(Above(R, l)) <= Cardinality(Above(R, k))
  <2>1. IsFiniteSet(Above(R, k))
    BY AboveCounts
  <2>2. QED
    BY <1>2, <2>1, FS_Subset
<1>4. /\ Cardinality(Above(R, l)) \in Nat
      /\ Cardinality(Above(R, k)) \in Nat
  BY AboveCounts
<1>5. Cardinality(Above(R, l)) < n
  BY <1>1, <1>3, <1>4
<1>6. QED
  BY <1>5, TopIs

\* One row of the rows up to c, c among them, is c.
LEMMA TopOne ==
    ASSUME NEW R, R \subseteq LinkIds, NEW c \in R, \A l \in R : l <= c
    PROVE  Top(R, 1) = {c}
<1>1. Above(R, c) = {}
  BY RanksAreNumbers DEF Above
<1>2. c \in Top(R, 1)
  BY <1>1, FS_EmptySet, TopIs
<1>3. ASSUME NEW l \in Top(R, 1), l # c
      PROVE  FALSE
  <2>1. l \in R /\ Cardinality(Above(R, l)) < 1
    BY <1>3, TopIs
  <2>2. c \in Above(R, l)
    BY <1>3, <2>1, RanksAreNumbers DEF Above
  <2>3. Cardinality(Above(R, l)) # 0
    BY <2>2, AboveCounts, FS_EmptySet
  <2>4. Cardinality(Above(R, l)) \in Nat
    BY AboveCounts
  <2>5. QED
    BY <2>1, <2>3, <2>4
<1>4. QED
  BY <1>2, <1>3

\* Asking for one row more tells whether there are more: if the rows asked for
\* fit on the page, they are all the rows.
LEMMA TopWhole ==
    ASSUME NEW R, R \subseteq LinkIds, NEW n \in Nat \ {0},
           Top(Top(R, n + 1), n) = Top(R, n + 1)
    PROVE  Top(R, n + 1) = R
<1> DEFINE T == Top(R, n + 1)
<1>1. T \subseteq R /\ T \subseteq LinkIds
  BY TopIs
<1> HIDE DEF T
<1>2. SUFFICES ASSUME R \ T # {}
               PROVE  FALSE
  BY <1>1 DEF T
<1>3. PICK l \in R \ T : \A k \in R \ T : k <= l
  BY <1>2, Newest
<1>4. Cardinality(Above(R, l)) >= n + 1
  BY <1>3, AboveCounts, TopIs DEF T
<1>5. Above(R, l) \subseteq T
  BY <1>3, RanksAreNumbers DEF Above
<1>6. Above(R, l) # {}
  BY <1>4, FS_EmptySet
<1>7. PICK k \in Above(R, l) : \A j \in Above(R, l) : k <= j
  BY <1>1, <1>5, <1>6, Oldest
<1>8. Above(R, l) \ {k} \in SUBSET Above(T, k)
  BY <1>1, <1>5, <1>7, RanksAreNumbers DEF Above
<1>9. Cardinality(Above(R, l) \ {k}) <= Cardinality(Above(T, k))
  <2>1. IsFiniteSet(Above(T, k))
    BY <1>1, AboveCounts
  <2>2. QED
    BY <1>8, <2>1, FS_Subset
<1>10. Cardinality(Above(R, l) \ {k}) = Cardinality(Above(R, l)) - 1
  <2>1. IsFiniteSet(Above(R, l))
    BY AboveCounts
  <2>2. QED
    BY <1>7, <2>1, FS_RemoveElement
<1>11. /\ Cardinality(Above(R, l)) \in Nat
       /\ Cardinality(Above(T, k)) \in Nat
  BY <1>1, AboveCounts
<1>12. ~ (Cardinality(Above(T, k)) < n)
  BY <1>4, <1>9, <1>10, <1>11
<1>13. k \in Top(T, n)
  BY <1>5, <1>7 DEF T
<1>14. QED
  BY <1>12, <1>13, TopIs

-----------------------------------------------------------------------------
(* A page                                                                  *)

\* The rows from a cursor on are older than the cursor; if the cursor still
\* matches, they are all the older ones.
LEMMA FromIs ==
    ASSUME NEW R, R \subseteq LinkIds, NEW c \in LinkIds
    PROVE  /\ From(c, R) \subseteq R
           /\ \A l \in From(c, R) : l < c
           /\ c \in R /\ Live(c) => \A l \in R : l < c => l \in From(c, R)
<1> DEFINE Rest == {l \in R : Live(c) /\ l <= c}
<1>1. c # NULL
  BY TablesAssumption
<1>2. From(c, R) = Rest \ Top(Rest, 1)
  BY <1>1 DEF From
<1>3. Rest \subseteq LinkIds /\ Rest \subseteq R /\ \A l \in Rest : l <= c
  OBVIOUS
<1>4. c \in Nat /\ \A l \in R : l \in Nat
  BY RanksAreNumbers
<1>5. c \in Rest <=> c \in R /\ Live(c)
  BY <1>4
<1>6. c \in R /\ Live(c) => \A l \in R : l < c => l \in Rest
  BY <1>4
<1> HIDE DEF Rest
<1>7. c \in Rest => Top(Rest, 1) = {c}
  BY <1>3, TopOne
<1>8. ASSUME NEW l \in From(c, R)
      PROVE  l < c
  <2>1. l \in Rest /\ l <= c /\ l \in Nat /\ l # c
    BY <1>2, <1>3, <1>4, <1>7, <1>8
  <2>2. QED
    BY <1>4, <2>1
<1>9. ASSUME c \in R, Live(c), NEW l \in R, l < c
      PROVE  l \in From(c, R)
  <2>1. l \in Rest /\ c \in Rest /\ l # c
    BY <1>4, <1>5, <1>6, <1>9
  <2>2. QED
    BY <1>2, <1>7, <2>1
<1>10. QED
  BY <1>2, <1>3, <1>8, <1>9

\* What an answer holds: the newest rows of F, all of them on the last page,
\* and a cursor with the rest of F below it on the others.
PageGiven(u, query, limit, F) ==
    /\ walk'.user = u /\ walk'.query = query /\ walk'.limit = limit
    /\ walk'.before = walk.before \cup walk.page
    /\ walk'.page \subseteq F
    /\ \/ walk'.pc = "ended" /\ walk'.cursor = NULL /\ walk'.page = F
       \/ /\ walk'.pc = "next"
          /\ walk'.cursor \in walk'.page
          /\ \A l \in walk'.page : walk'.cursor <= l
          /\ \A l \in F \ walk'.page : l < walk'.cursor
    /\ walk' = [pc |-> walk'.pc, user |-> walk'.user, query |-> walk'.query,
                limit |-> walk'.limit, cursor |-> walk'.cursor,
                page |-> walk'.page, before |-> walk'.before]

\* What a page asked for at cursor c gives, when rows are listed from c on.
LEMMA AskPageGives ==
    ASSUME NEW u, NEW query, NEW limit \in Nat \ {0}, NEW c, NEW R,
           walk \in Walk, From(c, R) \subseteq LinkIds,
           AskPage(u, query, limit, c, R)
    PROVE  PageGiven(u, query, limit, From(c, R))
<1> DEFINE F     == From(c, R)
           rows  == Rows(F, limit)
           items == Top(rows, limit)
<1>1. /\ rows \subseteq F /\ items \subseteq rows
      /\ F \subseteq LinkIds /\ rows \subseteq LinkIds
  BY TopIs DEF Rows
<1>2. limit + 1 \in Nat /\ limit \in Nat
  OBVIOUS
<1>3. CASE /\ rows = items
           /\ walk' = [walk EXCEPT !.user = u, !.query = query, !.limit = limit,
                           !.before = @ \cup walk.page, !.page = items,
                           !.pc = "ended", !.cursor = NULL]
  <2>1. items = F
    BY <1>1, <1>3, TopWhole DEF Rows
  <2> HIDE DEF items, rows, F
  <2>2. QED
    BY <1>3, <2>1 DEF Walk, F, PageGiven
<1>4. ASSUME NEW last \in items, \A l \in items : last <= l,
             walk' = [walk EXCEPT !.user = u, !.query = query, !.limit = limit,
                         !.before = @ \cup walk.page, !.page = items,
                         !.pc = "next", !.cursor = last]
      PROVE  /\ walk'.user = u /\ walk'.query = query /\ walk'.limit = limit
             /\ walk'.before = walk.before \cup walk.page
             /\ walk'.page = items /\ walk'.pc = "next" /\ walk'.cursor = last
             /\ \A l \in F \ items : l < last
             /\ walk' = [pc |-> walk'.pc, user |-> walk'.user, query |-> walk'.query,
                         limit |-> walk'.limit, cursor |-> walk'.cursor,
                         page |-> walk'.page, before |-> walk'.before]
  <2>1. ASSUME NEW l \in F \ items, ~ (l < last)
        PROVE  FALSE
    <3>1. l \in Nat /\ last \in Nat /\ l # last
      BY <1>1, RanksAreNumbers
    <3>2. l > last
      BY <2>1, <3>1
    <3>3. l \in rows
      BY <1>1, <1>2, <3>2, TopUpward DEF Rows
    <3>4. l \in items
      BY <1>1, <1>2, <3>2, <3>3, TopUpward
    <3>5. QED
      BY <3>4
  <2> HIDE DEF items, rows, F
  <2>2. QED
    BY <1>4, <2>1 DEF Walk
<1>5. \/ /\ rows = items
         /\ walk' = [walk EXCEPT !.user = u, !.query = query, !.limit = limit,
                         !.before = @ \cup walk.page, !.page = items,
                         !.pc = "ended", !.cursor = NULL]
      \/ \E last \in items :
            /\ \A l \in items : last <= l
            /\ walk' = [walk EXCEPT !.user = u, !.query = query, !.limit = limit,
                            !.before = @ \cup walk.page, !.page = items,
                            !.pc = "next", !.cursor = last]
  BY DEF AskPage
<1> HIDE DEF items, rows
<1>6. CASE \E last \in items :
              /\ \A l \in items : last <= l
              /\ walk' = [walk EXCEPT !.user = u, !.query = query, !.limit = limit,
                              !.before = @ \cup walk.page, !.page = items,
                              !.pc = "next", !.cursor = last]
  <2>1. PICK last \in items :
              /\ \A l \in items : last <= l
              /\ walk' = [walk EXCEPT !.user = u, !.query = query, !.limit = limit,
                              !.before = @ \cup walk.page, !.page = items,
                              !.pc = "next", !.cursor = last]
    BY <1>6
  <2> HIDE DEF F
  <2>2. /\ walk'.user = u /\ walk'.query = query /\ walk'.limit = limit
        /\ walk'.before = walk.before \cup walk.page
        /\ walk'.page = items /\ walk'.pc = "next" /\ walk'.cursor = last
        /\ \A l \in F \ items : l < last
        /\ walk' = [pc |-> walk'.pc, user |-> walk'.user, query |-> walk'.query,
                    limit |-> walk'.limit, cursor |-> walk'.cursor,
                    page |-> walk'.page, before |-> walk'.before]
    BY <1>4, <2>1
  <2>3. QED
    BY <1>1, <2>1, <2>2 DEF F, PageGiven
<1>7. QED
  BY <1>3, <1>5, <1>6

-----------------------------------------------------------------------------
(* The invariant                                                           *)

\* A row belongs to a user.
RowsOwned == \A l \in LinkIds : Live(l) => links[l].userId \in Users

\* The cursor is below all that was handed out, and a steady link was handed
\* out or is below the cursor.
IInv ==
    /\ TypeOK
    /\ RowsOwned
    /\ PagesDescend
    /\ WalkComplete
    /\ walk.pc = "idle" => walk.page = {} /\ walk.before = {}
    /\ walk.pc # "idle" =>
          /\ walk.user \in Users
          /\ walk.query \in Queries
          /\ walk.limit \in Limits
          /\ steady \subseteq Listed(walk.user, walk.query)
    /\ walk.pc = "next" =>
          /\ \A k \in walk.before \cup walk.page : walk.cursor <= k
          /\ ~slipped => \A l \in steady : \/ l \in walk.before \cup walk.page
                                          \/ l < walk.cursor

\* The invariant holds before any page is asked for.
LEMMA InitInv == Init => IInv
<1> SUFFICES ASSUME Init
             PROVE  IInv
  OBVIOUS
<1>1. EmptyRow("unborn") \in LinkRow
  BY DEF EmptyRow, LinkRow
<1>2. TablesTypeOK
  BY <1>1, TablesAssumption DEF Init, TablesInit, TablesTypeOK
<1>3. walk \in Walk /\ walk.pc = "idle" /\ walk.cursor = NULL
      /\ walk.page = {} /\ walk.before = {}
  BY DEF Init, Walk
<1>4. QED
  BY <1>2, <1>3 DEF Init, TablesInit, EmptyRow, RowsOwned, Live, LinkStatus, IInv, TypeOK,
                    PagesDescend, WalkComplete

\* A page keeps the type of the walk.
LEMMA WalkType ==
    ASSUME NEW u \in Users, NEW query \in Queries, NEW limit \in Limits, NEW c, NEW R,
           walk \in Walk, R \subseteq LinkIds, From(c, R) \subseteq R,
           AskPage(u, query, limit, c, R)
    PROVE  walk' \in Walk /\ (walk'.pc = "next" <=> walk'.cursor # NULL)
<1>1. limit \in Nat \ {0}
  BY QueriesAssumption
<1>2. From(c, R) \subseteq LinkIds
  OBVIOUS
<1>3. /\ walk'.user = u /\ walk'.query = query /\ walk'.limit = limit
      /\ walk'.before = walk.before \cup walk.page
      /\ walk'.page \subseteq LinkIds
      /\ \/ walk'.pc = "ended" /\ walk'.cursor = NULL
         \/ walk'.pc = "next" /\ walk'.cursor \in walk'.page
      /\ walk' = [pc |-> walk'.pc, user |-> walk'.user, query |-> walk'.query,
                  limit |-> walk'.limit, cursor |-> walk'.cursor,
                  page |-> walk'.page, before |-> walk'.before]
  <2>1. PageGiven(u, query, limit, From(c, R))
    BY <1>1, <1>2, AskPageGives
  <2>2. QED
    BY <1>2, <2>1 DEF PageGiven
<1>4. walk.before \subseteq LinkIds /\ walk.page \subseteq LinkIds
  BY DEF Walk
<1>5. QED
  BY <1>3, <1>4, TablesAssumption DEF Walk

\* The first page keeps the invariant: nothing has been passed over.
LEMMA FirstPageInv ==
    ASSUME IInv, NEW u \in Users, NEW query \in Queries, NEW limit \in Limits,
           FirstPage(u, query, limit)
    PROVE  IInv'
<1> DEFINE R == Listed(u, query)
<1>1. R \subseteq LinkIds /\ From(NULL, R) = R
  BY DEF Listed, From
<1>2. /\ walk \in Walk /\ limit \in Nat \ {0}
      /\ walk.before \cup walk.page = {}
      /\ AskPage(u, query, limit, NULL, R)
      /\ steady' = R /\ slipped' = slipped /\ UNCHANGED tables
  BY QueriesAssumption DEF IInv, TypeOK, FirstPage
<1>3. ASSUME walk'.user = u, walk'.query = query
      PROVE  Listed(walk.user, walk.query)' = R
  BY <1>2, <1>3 DEF tables, Listed, Matches, Live, TagNames, TagsOf
<1> HIDE DEF R
<1>4. From(NULL, R) \subseteq LinkIds
  BY <1>1
<1>5. /\ walk'.user = u /\ walk'.query = query /\ walk'.limit = limit
      /\ walk'.before = {}
      /\ walk'.page \subseteq R
      /\ \/ walk'.pc = "ended" /\ walk'.cursor = NULL /\ walk'.page = R
         \/ /\ walk'.pc = "next"
            /\ walk'.cursor \in walk'.page
            /\ \A l \in walk'.page : walk'.cursor <= l
            /\ \A l \in R \ walk'.page : l < walk'.cursor
  <2>1. PageGiven(u, query, limit, R)
    BY <1>1, <1>2, <1>4, AskPageGives
  <2>2. QED
    BY <1>2, <2>1 DEF PageGiven
<1>6. walk' \in Walk /\ (walk'.pc = "next" <=> walk'.cursor # NULL)
  BY <1>1, <1>2, WalkType
<1>7. TypeOK'
  BY <1>1, <1>2, <1>6 DEF IInv, TypeOK, TablesTypeOK, tables
<1>8. steady' \subseteq Listed(walk.user, walk.query)'
  BY <1>2, <1>3, <1>5
<1>9. PagesDescend' /\ WalkComplete'
  BY <1>2, <1>5 DEF PagesDescend, WalkComplete
<1>10. walk'.pc = "next" =>
          /\ \A k \in walk'.before \cup walk'.page : walk'.cursor <= k
          /\ \A l \in steady' : l \in walk'.before \cup walk'.page \/ l < walk'.cursor
  BY <1>2, <1>5
<1>11. QED
  BY <1>2, <1>5, <1>7, <1>8, <1>9, <1>10 DEF IInv, RowsOwned, Live, tables

\* A further page keeps the invariant, whatever became of the cursor's link.
LEMMA NextPageInv ==
    ASSUME IInv, NextPage
    PROVE  IInv'
<1> DEFINE R == Listed(walk.user, walk.query)
<1>0. PICK c \in LinkIds : c = walk.cursor
  BY DEF IInv, TypeOK, Walk, NextPage
<1>1. /\ R \subseteq LinkIds
      /\ \A l \in R : Live(l)
  BY DEF Listed, Matches
<1>2. /\ walk \in Walk /\ walk.limit \in Nat \ {0} /\ walk.pc = "next"
      /\ walk.user \in Users /\ walk.query \in Queries /\ walk.limit \in Limits
      /\ steady \subseteq R
      /\ \A k \in walk.before \cup walk.page : c <= k
      /\ ~slipped => \A l \in steady : l \in walk.before \cup walk.page \/ l < c
  BY <1>0, QueriesAssumption DEF IInv, TypeOK, NextPage
<1>3. /\ AskPage(walk.user, walk.query, walk.limit, c, R)
      /\ slipped' = (slipped \/ c \notin R)
      /\ steady' = steady /\ UNCHANGED tables
  BY <1>0 DEF NextPage
<1>4. ASSUME walk'.user = walk.user, walk'.query = walk.query
      PROVE  Listed(walk.user, walk.query)' = R
  BY <1>3, <1>4 DEF tables, Listed, Matches, Live, TagNames, TagsOf
<1> DEFINE u == walk.user  query == walk.query  limit == walk.limit  F == From(c, R)
<1>5. /\ F \subseteq R /\ F \subseteq LinkIds
      /\ \A l \in F : l < c
      /\ c \in R => \A l \in R : l < c => l \in F
  BY <1>1, FromIs
<1>6. \A l \in LinkIds : l \in Nat
  BY RanksAreNumbers
<1>7. walk.before \subseteq LinkIds /\ walk.page \subseteq LinkIds
  BY <1>2 DEF Walk
<1> HIDE DEF R, F
<1>8. /\ walk'.user = u /\ walk'.query = query /\ walk'.limit = limit
      /\ walk'.before = walk.before \cup walk.page
      /\ walk'.page \subseteq F
      /\ \/ walk'.pc = "ended" /\ walk'.cursor = NULL /\ walk'.page = F
         \/ /\ walk'.pc = "next"
            /\ walk'.cursor \in walk'.page
            /\ \A l \in walk'.page : walk'.cursor <= l
            /\ \A l \in F \ walk'.page : l < walk'.cursor
  <2>1. PageGiven(u, query, limit, F)
    BY <1>2, <1>3, <1>5, AskPageGives DEF F
  <2>2. QED
    BY <2>1 DEF PageGiven
<1>9. walk' \in Walk /\ (walk'.pc = "next" <=> walk'.cursor # NULL)
  BY <1>1, <1>2, <1>3, <1>5, WalkType DEF F
<1>10. TypeOK'
  BY <1>1, <1>3, <1>9 DEF IInv, TypeOK, TablesTypeOK, tables
<1>11. steady' \subseteq Listed(walk.user, walk.query)'
  BY <1>2, <1>3, <1>4, <1>8
<1>12. PagesDescend'
  <2>1. ASSUME NEW l \in walk'.page, NEW k \in walk'.before
        PROVE  l < k
    <3>1. l < c /\ c <= k /\ l \in Nat /\ c \in Nat /\ k \in Nat
      BY <1>2, <1>5, <1>6, <1>7, <1>8
    <3>2. QED
      BY <3>1
  <2>2. QED
    BY <2>1 DEF PagesDescend
<1>13. ASSUME ~slipped', NEW l \in steady'
       PROVE  l \in walk'.before \/ l \in F
  BY <1>2, <1>3, <1>5, <1>8, <1>13
<1>14. WalkComplete'
  BY <1>8, <1>13, TablesAssumption DEF WalkComplete
<1>15. ASSUME walk'.pc = "next", NEW k \in walk'.before \cup walk'.page
       PROVE  walk'.cursor <= k
  <2>1. CASE k \in walk'.before
    <3>1. walk'.cursor < c /\ c <= k /\ walk'.cursor \in Nat /\ c \in Nat /\ k \in Nat
      BY <1>2, <1>5, <1>6, <1>7, <1>8, <1>15, <2>1
    <3>2. QED
      BY <3>1
  <2>2. CASE k \in walk'.page
    BY <1>8, <1>15, <2>2
  <2>3. QED
    BY <1>15, <2>1, <2>2
<1>16. ASSUME walk'.pc = "next", ~slipped', NEW l \in steady'
       PROVE  l \in walk'.before \cup walk'.page \/ l < walk'.cursor
  BY <1>8, <1>13, <1>16
<1>17. QED
  BY <1>2, <1>3, <1>8, <1>10, <1>11, <1>12, <1>14, <1>15, <1>16
     DEF IInv, RowsOwned, Live, tables

\* A change of the rows keeps the types and the owners.
LEMMA ChangeType ==
    ASSUME TypeOK, RowsOwned, NEW l \in LinkIds, RowsChange(l), dbErrors' = dbErrors
    PROVE  TablesTypeOK' /\ RowsOwned'
<1>1. /\ links \in [LinkIds -> LinkRow] /\ tags \subseteq Tag
      /\ tagsOnLinks \subseteq LinkIds \X Tag /\ dbErrors' \in 0 .. MaxDbErrors
  BY DEF TypeOK, TablesTypeOK
<1>2. CASE \E u \in Users : Save(l, u)
  <2>1. PICK u \in Users : Save(l, u)
    BY <1>2
  <2>2. [EmptyRow("PENDING") EXCEPT !.userId = u] \in LinkRow
    BY DEF EmptyRow, LinkRow, LinkStatus
  <2>3. QED
    BY <1>1, <2>1, <2>2 DEF Save, InsertLink, EmptyRow, TablesTypeOK, RowsOwned, Live
<1>3. CASE Delete(l)
  <2>1. EmptyRow("deleted") \in LinkRow
    BY DEF EmptyRow, LinkRow
  <2>2. QED
    BY <1>1, <1>3, <2>1 DEF Delete, DeleteLinkRow, EmptyRow, TablesTypeOK, RowsOwned, Live,
                            LinkStatus
<1>4. CASE \E r \in Reqs : Write(l, r)
  <2>1. PICK r \in Reqs : Write(l, r)
    BY <1>4
  <2>2. links' \in [LinkIds -> LinkRow]
    BY <1>1, <2>1 DEF Write, LinkRow
  <2>3. \A k \in LinkIds : /\ links'[k].status = links[k].status
                          /\ links'[k].userId = links[k].userId
    BY <1>1, <2>1 DEF Write, LinkRow
  <2>4. QED
    BY <1>1, <2>1, <2>2, <2>3 DEF Write, TablesTypeOK, RowsOwned, Live
<1>5. CASE Untag(l)
  BY <1>1, <1>5 DEF Untag, TablesTypeOK, RowsOwned, Live
<1>6. CASE \E n \in Names : Attach(l, n)
  <2>1. PICK n \in Names : Attach(l, n)
    BY <1>6
  <2>2. links[l].userId \in Users
    BY <2>1 DEF Attach, RowsOwned
  <2>3. QED
    BY <1>1, <2>1, <2>2 DEF Attach, TablesTypeOK, Tag, RowsOwned, Live
<1>7. QED
  BY <1>2, <1>3, <1>4, <1>5, <1>6 DEF RowsChange

\* Creating, deleting and tagging links between two pages keep the invariant.
LEMMA ChangeInv ==
    ASSUME IInv, Change
    PROVE  IInv'
<1>1. PICK l \in LinkIds : RowsChange(l)
  BY DEF Change
<1>2. /\ walk' = walk /\ slipped' = slipped /\ dbErrors' = dbErrors
      /\ steady' \subseteq steady
      /\ \A k \in steady' : Matches(walk.user, walk.query, k)'
  BY DEF Change
<1>3. TypeOK' /\ RowsOwned'
  BY <1>1, <1>2, ChangeType DEF IInv, TypeOK
<1>4. steady \subseteq LinkIds
  BY DEF IInv, TypeOK
<1>5. steady' \subseteq Listed(walk.user, walk.query)'
  BY <1>2, <1>4 DEF Listed
<1>6. QED
  BY <1>2, <1>3, <1>5 DEF IInv, PagesDescend, WalkComplete

\* The invariant of a walk is kept by every step of client and database.
THEOREM WalkInvariant == Spec => []IInv
<1>1. ASSUME IInv, [Next]_vars
      PROVE  IInv'
  <2>1. CASE Change
    BY <1>1, <2>1, ChangeInv
  <2>2. CASE NextPage
    BY <1>1, <2>2, NextPageInv
  <2>3. CASE \E u \in Users, query \in Queries, limit \in Limits :
                FirstPage(u, query, limit)
    BY <1>1, <2>3, FirstPageInv
  <2>4. CASE UNCHANGED vars
    BY <1>1, <2>4 DEF vars, tables, IInv, RowsOwned, TypeOK, TablesTypeOK, PagesDescend, WalkComplete,
                      Listed, Matches, Live, TagNames, TagsOf
  <2>5. QED
    BY <1>1, <2>1, <2>2, <2>3, <2>4 DEF Next
<1>2. QED
  BY <1>1, InitInv, PTL DEF Spec

\* Type correctness of the reads.
THEOREM QueriesTypeCorrect == Spec => []TypeOK
<1>1. IInv => TypeOK
  BY DEF IInv
<1>2. QED
  BY <1>1, WalkInvariant, PTL

\* No page repeats a link, whatever is saved, deleted or changed between two
\* pages, for every page size and number of links.
THEOREM PagesAlwaysDescend == Spec => []PagesDescend
<1>1. IInv => PagesDescend
  BY DEF IInv
<1>2. QED
  BY <1>1, WalkInvariant, PTL

\* A walk whose cursors all still matched has shown every link that matched
\* all the while.
THEOREM WalkAlwaysComplete == Spec => []WalkComplete
<1>1. IInv => WalkComplete
  BY DEF IInv
<1>2. QED
  BY <1>1, WalkInvariant, PTL

-----------------------------------------------------------------------------
(* Tag counts                                                              *)

\* A tag is attached only to links of its user.
TagsSound ==
    \A p \in tagsOnLinks : Live(p[1]) /\ p[2][1] = links[p[1]].userId

\* No change attaches a tag of one user to a link of another.
LEMMA TagsSoundKept ==
    ASSUME TypeOK, TagsSound, NEW l \in LinkIds, RowsChange(l)
    PROVE  TagsSound'
<1>1. /\ links \in [LinkIds -> LinkRow]
      /\ \A p \in tagsOnLinks : p[1] \in LinkIds
  BY DEF TypeOK, TablesTypeOK
<1>2. CASE \E u \in Users : Save(l, u)
  <2>1. \A p \in tagsOnLinks : p[1] # l
    BY <1>2 DEF Save, TagsSound, Live, LinkStatus
  <2>2. QED
    BY <1>1, <1>2, <2>1 DEF Save, InsertLink, TagsSound, Live
<1>3. CASE Delete(l)
  BY <1>1, <1>3 DEF Delete, DeleteLinkRow, TagsSound, Live
<1>4. CASE \E r \in Reqs : Write(l, r)
  <2>1. /\ tagsOnLinks' = tagsOnLinks
        /\ \A k \in LinkIds : /\ links'[k].status = links[k].status
                              /\ links'[k].userId = links[k].userId
    BY <1>1, <1>4 DEF Write, LinkRow
  <2>2. QED
    BY <1>1, <2>1 DEF TagsSound, Live
<1>5. CASE Untag(l)
  BY <1>5 DEF Untag, TagsSound, Live
<1>6. CASE \E n \in Names : Attach(l, n)
  BY <1>6 DEF Attach, TagsSound, Live
<1>7. QED
  BY <1>2, <1>3, <1>4, <1>5, <1>6 DEF RowsChange

\* The join rows of a tag and the links listed under it are as many.
LEMMA SoundCountsAgree ==
    ASSUME TypeOK, TagsSound
    PROVE  TagCountsListed
<1> SUFFICES ASSUME NEW t \in tags
             PROVE  TagCount(t) = Cardinality(Listed(t[1], [tags |-> {t[2]}, q |-> NULL]))
  BY DEF TagCountsListed
<1> DEFINE Q     == [tags |-> {t[2]}, q |-> NULL]
           Links == Listed(t[1], Q)
           JoinRows == {p \in tagsOnLinks : p[2] = t}
           f     == [l \in Links |-> <<l, t>>]
<1>1. t \in Tag /\ tagsOnLinks \subseteq LinkIds \X Tag
  BY DEF TypeOK, TablesTypeOK
<1>2. Links = {l \in LinkIds : Live(l) /\ links[l].userId = t[1] /\ t[2] \in TagNames(l)}
  BY DEF Listed, Matches
<1>3. ASSUME NEW l \in LinkIds
      PROVE  l \in Links <=> <<l, t>> \in tagsOnLinks
  <2>1. ASSUME l \in Links
        PROVE  <<l, t>> \in tagsOnLinks
    <3>0. t[2] \in TagNames(l)
      BY <1>2, <2>1
    <3>1. PICK s \in Tag : <<l, s>> \in tagsOnLinks /\ t[2] = s[2]
      BY <3>0 DEF TagNames, TagsOf
    <3>2. s[1] = t[1]
      BY <1>2, <2>1, <3>1 DEF TagsSound
    <3>3. s = t
      BY <1>1, <3>1, <3>2 DEF Tag
    <3>4. QED
      BY <3>1, <3>3
  <2>2. ASSUME <<l, t>> \in tagsOnLinks
        PROVE  l \in Links
    BY <1>1, <1>2, <2>2 DEF TagsSound, TagNames, TagsOf
  <2>3. QED
    BY <2>1, <2>2
<1>4. Links \subseteq LinkIds
  BY DEF Listed
<1> HIDE DEF Links
<1>5. f \in Bijection(Links, JoinRows)
  <2>1. f \in [Links -> JoinRows]
    BY <1>3, <1>4
  <2>2. \A k, l \in Links : f[k] = f[l] => k = l
    OBVIOUS
  <2>3. \A p \in JoinRows : \E l \in Links : f[l] = p
    BY <1>1, <1>3
  <2>4. QED
    BY <2>1, <2>2, <2>3 DEF Bijection, Injection, Surjection, IsInjective
<1>6. ExistsBijection(Links, JoinRows)
  BY <1>5 DEF ExistsBijection
<1>7. IsFiniteSet(Links)
  BY <1>4, QueriesAssumption, FS_Subset
<1>8. Cardinality(JoinRows) = Cardinality(Links)
  BY <1>6, <1>7, FS_Bijection
<1>9. QED
  BY <1>8 DEF TagCount, Links

\* The count beside a tag is always the number of links listed under it.
THEOREM TagCountsAlwaysListed == Spec => []TagCountsListed
<1>1. Init => TagsSound
  BY DEF Init, TablesInit, TagsSound
<1>2. ASSUME TypeOK, TagsSound, [Next]_vars
      PROVE  TagsSound'
  <2>1. CASE Change
    BY <1>2, <2>1, TagsSoundKept DEF Change
  <2>2. CASE UNCHANGED tables
    BY <1>2, <2>2 DEF tables, TagsSound, Live
  <2>3. QED
    BY <1>2, <2>1, <2>2 DEF Next, NextPage, FirstPage, vars
<1>3. QED
  BY <1>1, <1>2, SoundCountsAgree, QueriesTypeCorrect, PTL DEF Spec

=============================================================================
