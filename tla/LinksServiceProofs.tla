------------------------- MODULE LinksServiceProofs -------------------------
(***************************************************************************)
(* Proofs about the link service, for any number of users, links, requests *)
(* and tags, any number of lost statements and any number of restarts.     *)
(***************************************************************************)
EXTENDS LinksServiceProps, TLAPS

-----------------------------------------------------------------------------
(* Types.  TypeOK lets a variable be NULL, so it is not inductive: a step  *)
(* that uses an argument must know that it is set by then.                 *)

RowsOwned == \A l \in LinkIds : Live(l) => links[l].userId \in Users

ReplArgsSet ==
    \A r \in Reqs :
        Replacing(r) => repl[r].user \in Users /\ repl[r].link \in LinkIds

JobArgsSet ==
    \A r \in Reqs :
        /\ job[r].pc \in Running => job[r].link \in LinkIds
        /\ job[r].pc \in Running \ {"find"} => job[r].owner \in Users

ReqArgsSet ==
    \A r \in Reqs :
        req[r].pc \in InHandler =>
            req[r].user \in Users /\ req[r].link \in LinkIds

TypeInv ==
    /\ TypeOK
    /\ RowsOwned
    /\ ReplArgsSet
    /\ JobArgsSet
    /\ ReqArgsSet

\* Whatever a statement does, the count of lost ones stays in its bounds.
LEMMA ErrorCount ==
    ASSUME TablesTypeOK,
           \/ UNCHANGED dbErrors
           \/ dbErrors < MaxDbErrors /\ dbErrors' = dbErrors + 1
    PROVE  dbErrors' \in 0 .. MaxDbErrors
BY TablesAssumption DEF TablesTypeOK

\* A row without contents is a row.
LEMMA EmptyRowType ==
    ASSUME NEW s \in LinkStatus \cup {"unborn", "deleted"}
    PROVE  EmptyRow(s) \in LinkRow
BY DEF EmptyRow, LinkRow

\* Calling replaceLinkTags makes a well-formed call with its arguments set.
LEMMA StartReplaceType ==
    ASSUME ReplTypeOK, ReplArgsSet, NEW r \in Reqs, NEW u \in Users,
           NEW l \in LinkIds, NEW raw, StartReplace(r, u, l, raw)
    PROVE  ReplTypeOK' /\ ReplArgsSet'
<1>1. ReplTypeOK'
  BY DEF StartReplace, ReplTypeOK, Repl, ReplPc, UpsertPc
<1>2. ReplArgsSet'
  BY DEF StartReplace, ReplArgsSet, Replacing, ReplTypeOK, Repl
<1>3. QED
  BY <1>1, <1>2

\* An upsert that goes on keeps its call well formed and its arguments set.
LEMMA UpsertKeeps ==
    ASSUME ReplTypeOK, ReplArgsSet, NEW r \in Reqs, NEW n \in Names,
           repl[r].up[n] \in {"select", "insert", "refind"},
           NEW up \in UpsertPc, NEW pc \in ReplPc, Upsert(r, n, up, pc)
    PROVE  ReplTypeOK' /\ ReplArgsSet'
<1>1. repl[r] \in Repl
  BY DEF ReplTypeOK
<1>2. [repl[r].up EXCEPT ![n] = up] \in [Names -> UpsertPc]
  BY <1>1 DEF Repl
<1>3. ReplTypeOK'
  BY <1>1, <1>2 DEF Upsert, ReplTypeOK, Repl
<1>4. /\ \A s \in Reqs \ {r} : repl'[s] = repl[s]
      /\ repl'[r].user = repl[r].user
      /\ repl'[r].link = repl[r].link
  BY DEF Upsert, ReplTypeOK, Repl
<1>5. Replacing(r)
  BY DEF Replacing
<1>6. ASSUME NEW s \in Reqs, Replacing(s)'
      PROVE  repl'[s].user \in Users /\ repl'[s].link \in LinkIds
  <2>1. CASE s # r
    BY <1>4, <1>6, <2>1 DEF ReplArgsSet, Replacing
  <2>2. CASE s = r
    BY <1>4, <1>5, <2>2 DEF ReplArgsSet
  <2>3. QED
    BY <2>1, <2>2
<1>7. QED
  BY <1>3, <1>6 DEF ReplArgsSet

\* The three ways an upsert goes on.
LEMMA UpsertType ==
    ASSUME ReplTypeOK, ReplArgsSet, NEW r \in Reqs, NEW n \in Names,
           repl[r].up[n] \in {"select", "insert", "refind"},
           \/ UpsertResolves(r, n)
           \/ UpsertRejects(r, n)
           \/ \E up \in UpsertPc : UpsertGoesTo(r, n, up)
    PROVE  ReplTypeOK' /\ ReplArgsSet'
<1>1. repl[r].pc \in ReplPc
  BY DEF ReplTypeOK, Repl
<1>2. \E up \in UpsertPc, pc \in ReplPc : Upsert(r, n, up, pc)
  BY <1>1 DEF UpsertResolves, UpsertRejects, UpsertGoesTo, UpsertPc, ReplPc
<1>3. QED
  BY <1>2, UpsertKeeps

\* So does a change of the pc of a call that is under way.
LEMMA PcType ==
    ASSUME ReplTypeOK, ReplArgsSet, NEW r \in Reqs, Replacing(r),
           NEW pc \in ReplPc, repl' = [repl EXCEPT ![r].pc = pc]
    PROVE  ReplTypeOK' /\ ReplArgsSet'
<1>1. ReplTypeOK'
  BY DEF ReplTypeOK, Repl
<1>2. /\ \A s \in Reqs \ {r} : repl'[s] = repl[s]
      /\ repl'[r].user = repl[r].user
      /\ repl'[r].link = repl[r].link
  BY DEF ReplTypeOK, Repl
<1>3. ReplArgsSet'
  BY <1>2 DEF ReplArgsSet, Replacing
<1>4. QED
  BY <1>1, <1>3

\* A step of replaceLinkTags keeps the types of the tables and of the calls.
LEMMA ReplStepType ==
    ASSUME TablesTypeOK, ReplTypeOK, ReplArgsSet, NEW r \in Reqs, ReplStep(r)
    PROVE  TablesTypeOK' /\ ReplTypeOK' /\ ReplArgsSet' /\ UNCHANGED links
<1> USE TablesAssumption
<1>1. ASSUME NEW n \in Names, UpsertSelect(r, n)
      PROVE  TablesTypeOK' /\ ReplTypeOK' /\ ReplArgsSet' /\ UNCHANGED links
  <2>1. ReplTypeOK' /\ ReplArgsSet'
    BY <1>1, UpsertType DEF UpsertSelect, UpsertPc
  <2>2. TablesTypeOK' /\ UNCHANGED links
    BY <1>1 DEF UpsertSelect, TablesTypeOK, Succeeds, Throws
  <2>3. QED
    BY <2>1, <2>2
<1>2. ASSUME NEW n \in Names, UpsertInsert(r, n)
      PROVE  TablesTypeOK' /\ ReplTypeOK' /\ ReplArgsSet' /\ UNCHANGED links
  <2>1. ReplTypeOK' /\ ReplArgsSet'
    BY <1>2, UpsertType DEF UpsertInsert, UpsertPc
  <2>2. TagOf(r, n) \in Tag
    BY <1>2 DEF UpsertInsert, ReplArgsSet, Replacing, TagOf, Tag
  <2>3. TablesTypeOK' /\ UNCHANGED links
    BY <1>2, <2>2 DEF UpsertInsert, TablesTypeOK, Succeeds, Throws, AnswerLost
  <2>4. QED
    BY <2>1, <2>3
<1>3. ASSUME NEW n \in Names, UpsertRefind(r, n)
      PROVE  TablesTypeOK' /\ ReplTypeOK' /\ ReplArgsSet' /\ UNCHANGED links
  <2>1. ReplTypeOK' /\ ReplArgsSet'
    BY <1>3, UpsertType DEF UpsertRefind
  <2>2. TablesTypeOK' /\ UNCHANGED links
    BY <1>3 DEF UpsertRefind, TablesTypeOK, Succeeds, Throws
  <2>3. QED
    BY <2>1, <2>2
<1>4. ASSUME DeleteTagRows(r)
      PROVE  TablesTypeOK' /\ ReplTypeOK' /\ ReplArgsSet' /\ UNCHANGED links
  <2>1. ReplTypeOK' /\ ReplArgsSet'
    BY <1>4, PcType DEF DeleteTagRows, Replacing, ReplPc, ReplGoesTo
  <2>2. TablesTypeOK' /\ UNCHANGED links
    BY <1>4 DEF DeleteTagRows, TablesTypeOK, Succeeds, Throws, AnswerLost, ReplGoesTo
  <2>3. QED
    BY <2>1, <2>2
<1>5. ASSUME CreateTagRows(r)
      PROVE  TablesTypeOK' /\ ReplTypeOK' /\ ReplArgsSet' /\ UNCHANGED links
  <2>1. ReplTypeOK' /\ ReplArgsSet'
    BY <1>5, PcType DEF CreateTagRows, Replacing, ReplPc, ReplGoesTo
  <2>2. NewTags(r) \subseteq Tag /\ repl[r].link \in LinkIds
    BY <1>5 DEF CreateTagRows, ReplArgsSet, Replacing, NewTags, TagOf, Tag, ReplGoesTo
  <2>3. TablesTypeOK' /\ UNCHANGED links
    BY <1>5, <2>2 DEF CreateTagRows, TablesTypeOK, Succeeds, Throws, AnswerLost, ReplGoesTo
  <2>4. QED
    BY <2>1, <2>3
<1>6. QED
  BY <1>1, <1>2, <1>3, <1>4, <1>5 DEF ReplStep

\* The rows that the statements write: their type and what they hold.
LEMMA ReadyRowIs ==
    ASSUME NEW row \in LinkRow, NEW r \in Reqs
    PROVE  /\ ReadyRow(row, r) \in LinkRow
           /\ ReadyRow(row, r).status = "READY"
           /\ ReadyRow(row, r).userId = row.userId
           /\ ReadyRow(row, r).failReason = NULL
           /\ ReadyRow(row, r).title = r
           /\ ReadyRow(row, r).summary = r
BY DEF ReadyRow, LinkRow, LinkStatus

\* A row written by markFailed.
LEMMA FailedRowIs ==
    ASSUME NEW row \in LinkRow, NEW reason \in FailReason \cup {NULL}
    PROVE  /\ FailedRow(row, reason) \in LinkRow
           /\ FailedRow(row, reason).status = "FAILED"
           /\ FailedRow(row, reason).userId = row.userId
           /\ FailedRow(row, reason).failReason = reason
           /\ FailedRow(row, reason).title = row.title
BY DEF FailedRow, LinkRow, LinkStatus

\* A row written by reprocess.
LEMMA PendingRowIs ==
    ASSUME NEW row \in LinkRow
    PROVE  /\ PendingRow(row) \in LinkRow
           /\ PendingRow(row).status = "PENDING"
           /\ PendingRow(row).userId = row.userId
           /\ PendingRow(row).failReason = NULL
BY DEF PendingRow, LinkRow, LinkStatus

\* A row whose title was written.
LEMMA TitledRowIs ==
    ASSUME NEW row \in LinkRow, NEW r \in Reqs
    PROVE  /\ [row EXCEPT !.title = r] \in LinkRow
           /\ [row EXCEPT !.title = r].status = row.status
           /\ [row EXCEPT !.title = r].userId = row.userId
           /\ [row EXCEPT !.title = r].failReason = row.failReason
           /\ [row EXCEPT !.title = r].title = r
           /\ [row EXCEPT !.title = r].summary = row.summary
BY DEF LinkRow

\* Updating a live row to one of the same owner keeps the table.
LEMMA UpdateType ==
    ASSUME TablesTypeOK, RowsOwned, NEW l \in LinkIds, Live(l),
           NEW row \in LinkRow, row.userId = links[l].userId,
           links' = [links EXCEPT ![l] = row]
    PROVE  links' \in [LinkIds -> LinkRow] /\ RowsOwned'
BY DEF TablesTypeOK, RowsOwned, Live

\* A run that has read its link's owner is well formed.
LEMMA JobFinds ==
    ASSUME JobTypeOK, JobArgsSet, NEW r \in Reqs, NEW u \in Users,
           job[r].link \in LinkIds,
           job' = [job EXCEPT ![r].pc = "crawl", ![r].owner = u]
    PROVE  JobTypeOK' /\ JobArgsSet'
<1>1. JobTypeOK'
  <2>1. job[r] \in Job
    BY DEF JobTypeOK
  <2>2. [job[r] EXCEPT !.pc = "crawl", !.owner = u] \in Job
    BY <2>1 DEF Job, JobPc, Running, Unsettled
  <2>3. QED
    BY <2>2 DEF JobTypeOK
<1>2. JobArgsSet'
  BY DEF JobTypeOK, JobArgsSet, Job
<1>3. QED
  BY <1>1, <1>2

\* A step of a pipeline run keeps the types of what it changes.
LEMMA JobStepType ==
    ASSUME TypeInv, NEW r \in Reqs, JobStep(r)
    PROVE  /\ TablesTypeOK' /\ RowsOwned'
           /\ ReplTypeOK' /\ ReplArgsSet'
           /\ JobTypeOK' /\ JobArgsSet'
<1> USE TablesAssumption DEF TypeInv, TypeOK
<1>1. CASE Find(r)
  <2>1. TablesTypeOK' /\ RowsOwned' /\ ReplTypeOK' /\ ReplArgsSet'
    BY <1>1 DEF Find, TablesTypeOK, RowsOwned, Live, ReplTypeOK, ReplArgsSet,
                Replacing, Succeeds, Throws
  <2>2. Live(job[r].link) => JobRow(r).userId \in Users
    BY <1>1 DEF Find, RowsOwned, JobArgsSet, JobRow, Running, Unsettled
  <2>3. JobTypeOK' /\ JobArgsSet'
    <3>1. CASE /\ Live(job[r].link)
               /\ job' = [job EXCEPT ![r].pc = "crawl", ![r].owner = JobRow(r).userId]
      <4>1. JobRow(r).userId \in Users /\ job[r].link \in LinkIds
        BY <1>1, <2>2, <3>1 DEF Find, JobArgsSet, Running, Unsettled
      <4>2. QED
        BY <3>1, <4>1, JobFinds
    <3>2. CASE JobGoesTo(r, "resolved") \/ JobGoesTo(r, "rejected")
      BY <3>2 DEF JobGoesTo, JobTypeOK, JobArgsSet, Job, JobPc, Running, Unsettled
    <3>3. QED
      BY <1>1, <3>1, <3>2 DEF Find, Succeeds
  <2>4. QED
    BY <2>1, <2>3
<1>2. CASE Crawl(r) \/ ReadBody(r)
  <2>1. TablesTypeOK' /\ RowsOwned' /\ ReplTypeOK' /\ ReplArgsSet'
    BY <1>2 DEF Crawl, ReadBody, CrawlFails, tables, TablesTypeOK, RowsOwned, Live, ReplTypeOK,
                ReplArgsSet, Replacing
  <2>2. JobTypeOK' /\ JobArgsSet'
    BY <1>2 DEF Crawl, ReadBody, CrawlFails, JobGoesTo, JobTypeOK, JobArgsSet, Job, JobPc, Running,
                Unsettled, FailReason
  <2>3. QED
    BY <2>1, <2>2
<1>3. CASE Summarize(r)
  <2>1. TablesTypeOK' /\ RowsOwned' /\ ReplTypeOK' /\ ReplArgsSet'
    BY <1>3 DEF Summarize, tables, TablesTypeOK, RowsOwned, Live, ReplTypeOK,
                ReplArgsSet, Replacing
  <2>2. JobTypeOK' /\ JobArgsSet'
    BY <1>3, LlmAssumption DEF Summarize, JobGoesTo, JobTypeOK, JobArgsSet, Job,
                               JobPc, Running, Unsettled
  <2>3. QED
    BY <2>1, <2>2
<1>4. CASE UpdateReady(r)
  <2>1. job[r].link \in LinkIds /\ job[r].owner \in Users
    BY <1>4 DEF UpdateReady, JobArgsSet, Running, Unsettled
  <2>2. links' \in [LinkIds -> LinkRow] /\ RowsOwned'
    <3>1. CASE UNCHANGED links
      BY <3>1 DEF TablesTypeOK, RowsOwned, Live
    <3>2. CASE /\ Live(job[r].link)
               /\ links' = [links EXCEPT ![job[r].link] = ReadyRow(@, r)]
      <4> DEFINE row == ReadyRow(links[job[r].link], r)
      <4>1. links[job[r].link] \in LinkRow
        BY <2>1 DEF TablesTypeOK
      <4>2. row \in LinkRow /\ row.userId = links[job[r].link].userId
        BY <4>1, ReadyRowIs
      <4>3. links' = [links EXCEPT ![job[r].link] = row]
        BY <3>2
      <4> HIDE DEF row
      <4>4. QED
        BY <2>1, <3>2, <4>2, <4>3, UpdateType
    <3>3. QED
      BY <1>4, <3>1, <3>2 DEF UpdateReady, Succeeds, AnswerLost
  <2>3. TablesTypeOK'
    BY <1>4, <2>2 DEF UpdateReady, TablesTypeOK, Succeeds, Throws, AnswerLost
  <2>4. ReplTypeOK' /\ ReplArgsSet'
    <3>1. CASE UNCHANGED repl
      BY <3>1 DEF ReplTypeOK, ReplArgsSet, Replacing
    <3>2. CASE StartReplace(r, job[r].owner, job[r].link, job[r].names)
      BY <2>1, <3>2, StartReplaceType
    <3>3. QED
      BY <1>4, <3>1, <3>2 DEF UpdateReady
  <2>5. JobTypeOK' /\ JobArgsSet'
    BY <1>4 DEF UpdateReady, JobGoesTo, JobTypeOK, JobArgsSet, Job, JobPc,
                Running, Unsettled
  <2>6. QED
    BY <2>2, <2>3, <2>4, <2>5
<1>5. CASE TagsReplaced(r)
  <2>1. TablesTypeOK' /\ RowsOwned' /\ ReplTypeOK' /\ ReplArgsSet'
    BY <1>5 DEF TagsReplaced, tables, TablesTypeOK, RowsOwned, Live, ReplTypeOK,
                ReplArgsSet, Replacing
  <2>2. JobTypeOK' /\ JobArgsSet'
    BY <1>5 DEF TagsReplaced, JobGoesTo, JobTypeOK, JobArgsSet, Job, JobPc,
                Running, Unsettled
  <2>3. QED
    BY <2>1, <2>2
<1>6. CASE KeepCrawled(r)
  <2>1. job[r].link \in LinkIds
    BY <1>6 DEF KeepCrawled, JobArgsSet, Running, Unsettled
  <2>2. TablesTypeOK' /\ RowsOwned'
    BY <1>6, <2>1 DEF KeepCrawled, TablesTypeOK, RowsOwned, Live, LinkRow,
                      Succeeds, Throws, AnswerLost
  <2>3. ReplTypeOK' /\ ReplArgsSet'
    BY <1>6 DEF KeepCrawled, ReplTypeOK, ReplArgsSet, Replacing
  <2>4. JobTypeOK' /\ JobArgsSet'
    BY <1>6 DEF KeepCrawled, JobGoesTo, JobTypeOK, JobArgsSet, Job, JobPc,
                Running, Unsettled, FailReason
  <2>5. QED
    BY <2>2, <2>3, <2>4
<1>7. CASE MarkFailed(r)
  <2>1. job[r].link \in LinkIds /\ job[r].reason \in FailReason \cup {NULL}
    BY <1>7 DEF MarkFailed, JobArgsSet, Running, Unsettled, JobTypeOK, Job
  <2>2. links' \in [LinkIds -> LinkRow] /\ RowsOwned'
    <3>1. CASE UNCHANGED links
      BY <3>1 DEF TablesTypeOK, RowsOwned, Live
    <3>2. CASE /\ Live(job[r].link)
               /\ links' = [links EXCEPT ![job[r].link] = FailedRow(@, job[r].reason)]
      <4> DEFINE row == FailedRow(links[job[r].link], job[r].reason)
      <4>1. links[job[r].link] \in LinkRow
        BY <2>1 DEF TablesTypeOK
      <4>2. row \in LinkRow /\ row.userId = links[job[r].link].userId
        BY <2>1, <4>1, FailedRowIs
      <4>3. links' = [links EXCEPT ![job[r].link] = row]
        BY <3>2
      <4> HIDE DEF row
      <4>4. QED
        BY <2>1, <3>2, <4>2, <4>3, UpdateType
    <3>3. QED
      BY <1>7, <3>1, <3>2 DEF MarkFailed, Succeeds, AnswerLost
  <2>3. TablesTypeOK'
    BY <1>7, <2>2 DEF MarkFailed, TablesTypeOK, Succeeds, Throws, AnswerLost
  <2>4. ReplTypeOK' /\ ReplArgsSet'
    BY <1>7 DEF MarkFailed, ReplTypeOK, ReplArgsSet, Replacing
  <2>5. JobTypeOK' /\ JobArgsSet'
    BY <1>7 DEF MarkFailed, JobGoesTo, JobTypeOK, JobArgsSet, Job, JobPc,
                Running, Unsettled
  <2>6. QED
    BY <2>2, <2>3, <2>4, <2>5
<1>8. QED
  BY <1>1, <1>2, <1>3, <1>4, <1>5, <1>6, <1>7 DEF JobStep

ReqTypeOK == req \in [Reqs -> Request]

\* How a handler goes on keeps its request well formed and its arguments set.
LEMMA ReqType ==
    ASSUME ReqTypeOK, ReqArgsSet, NEW r \in Reqs,
           \/ \E op \in Op, u \in Users, l \in LinkIds, title \in BOOLEAN, pc \in InHandler :
                 Arrive(r, op, u, l, title, pc)
           \/ \E op \in Op, u \in Users, l \in LinkIds \cup {NULL}, code \in Code :
                 Refuse(r, op, u, l, code)
           \/ req[r].pc \in InHandler /\ \E pc \in InHandler : ReqGoesTo(r, pc)
           \/ \E code \in Code : Answer(r, code)
    PROVE  ReqTypeOK' /\ ReqArgsSet'
<1>1. ASSUME NEW op \in Op, NEW u \in Users, NEW l \in LinkIds,
             NEW title \in BOOLEAN, NEW pc \in InHandler,
             Arrive(r, op, u, l, title, pc)
      PROVE  ReqTypeOK' /\ ReqArgsSet'
  <2> DEFINE q == [NewRequest EXCEPT !.pc = pc, !.op = op, !.user = u,
                                     !.link = l, !.title = title]
  <2>1. q \in Request /\ q.user = u /\ q.link = l
    BY DEF NewRequest, Request
  <2>2. req' = [req EXCEPT ![r] = q]
    BY <1>1 DEF Arrive
  <2> HIDE DEF q
  <2>3. QED
    BY <2>1, <2>2 DEF ReqTypeOK, ReqArgsSet
<1>2. ASSUME NEW op \in Op, NEW u \in Users, NEW l \in LinkIds \cup {NULL},
             NEW code \in Code, Refuse(r, op, u, l, code)
      PROVE  ReqTypeOK' /\ ReqArgsSet'
  <2> DEFINE q == [NewRequest EXCEPT !.pc = "done", !.op = op, !.user = u,
                                     !.link = l, !.code = code]
  <2>1. q \in Request /\ q.pc = "done"
    BY DEF NewRequest, Request
  <2>2. req' = [req EXCEPT ![r] = q]
    BY <1>2 DEF Refuse
  <2> HIDE DEF q
  <2>3. QED
    BY <2>1, <2>2 DEF ReqTypeOK, ReqArgsSet, InHandler
<1>3. ASSUME req[r].pc \in InHandler, NEW pc \in InHandler, ReqGoesTo(r, pc)
      PROVE  ReqTypeOK' /\ ReqArgsSet'
  BY <1>3 DEF ReqGoesTo, ReqTypeOK, ReqArgsSet, Request
<1>4. ASSUME NEW code \in Code, Answer(r, code)
      PROVE  ReqTypeOK' /\ ReqArgsSet'
  <2>1. [req[r] EXCEPT !.pc = "done", !.code = code] \in Request
    BY DEF ReqTypeOK, Request
  <2>2. ReqTypeOK'
    BY <1>4, <2>1 DEF Answer, ReqTypeOK
  <2>3. req'[r].pc = "done" /\ \A s \in Reqs \ {r} : req'[s] = req[s]
    BY <1>4 DEF Answer, ReqTypeOK, Request
  <2>4. ReqArgsSet'
    BY <2>3 DEF ReqArgsSet, InHandler
  <2>5. QED
    BY <2>2, <2>4
<1>5. QED
  BY <1>1, <1>2, <1>3, <1>4

\* A request that is refused changes nothing but itself.
LEMMA RefusedType ==
    ASSUME TypeInv, NEW r \in Reqs, NEW op \in Op, NEW u \in Users,
           NEW l \in LinkIds, Refused(r, op, u, l)
    PROVE  /\ UNCHANGED <<links, tags, tagsOnLinks, repl>>
           /\ dbErrors' \in 0 .. MaxDbErrors
           /\ ReqTypeOK' /\ ReqArgsSet'
<1>1. \E code \in Code : Refuse(r, op, u, l, code)
  BY DEF Refused, RefusalCode, Code
<1>2. ReqTypeOK' /\ ReqArgsSet'
  BY <1>1, ReqType DEF TypeInv, TypeOK, ReqTypeOK
<1>3. dbErrors' \in 0 .. MaxDbErrors
  BY TablesAssumption DEF Refused, Succeeds, Throws, TypeInv, TypeOK, TablesTypeOK
<1>4. QED
  BY <1>2, <1>3 DEF Refused

\* With links and repl as they were, what is known of them stays known.
LEMMA SameRows == ASSUME RowsOwned, UNCHANGED links PROVE RowsOwned'
BY DEF RowsOwned, Live

\* The same of the calls, when no row and no call changes.
LEMMA SameCalls ==
    ASSUME ReplTypeOK, ReplArgsSet, UNCHANGED repl
    PROVE  ReplTypeOK' /\ ReplArgsSet'
BY DEF ReplTypeOK, ReplArgsSet, Replacing

\* The same of the runs.
LEMMA SameJobs ==
    ASSUME JobTypeOK, JobArgsSet, UNCHANGED job
    PROVE  JobTypeOK' /\ JobArgsSet'
BY DEF JobTypeOK, JobArgsSet

\* A request that arrives keeps the types.
LEMMA ArrivalType ==
    ASSUME TypeInv, NEW r \in Reqs, Arrival(r)
    PROVE  TypeInv'
<1> USE TablesAssumption DEF TypeInv, TypeOK
<1>1. ReqTypeOK /\ UNCHANGED <<job, restarts>>
  BY DEF ReqTypeOK, Arrival, Create, Update, Remove, Reprocess
<1>2. ASSUME NEW u \in Users, Create(r, u)
      PROVE  TypeInv'
  <2>1. ReqTypeOK' /\ ReqArgsSet'
    BY <1>1, <1>2, ReqType DEF Create, Op, Code, InHandler
  <2>2. links' \in [LinkIds -> LinkRow] /\ RowsOwned'
    <3>1. CASE UNCHANGED links
      BY <3>1, SameRows DEF TablesTypeOK
    <3>2. ASSUME NEW l \in LinkIds, InsertLink(l, u)
          PROVE  links' \in [LinkIds -> LinkRow] /\ RowsOwned'
      <4> DEFINE row == [EmptyRow("PENDING") EXCEPT !.userId = u]
      <4>1. row \in LinkRow /\ row.userId = u
        BY DEF EmptyRow, LinkRow, LinkStatus
      <4>2. links' = [links EXCEPT ![l] = row]
        BY <3>2 DEF InsertLink
      <4> HIDE DEF row
      <4>3. QED
        BY <4>1, <4>2 DEF TablesTypeOK, RowsOwned, Live
    <3>3. QED
      BY <1>2, <3>1, <3>2 DEF Create
  <2>3. dbErrors' \in 0 .. MaxDbErrors
    BY <1>2, ErrorCount DEF Create, Succeeds, Throws, AnswerLost
  <2>4. TablesTypeOK'
    BY <1>2, <2>2, <2>3 DEF Create, TablesTypeOK
  <2>5. QED
    BY <1>1, <1>2, <2>1, <2>2, <2>4, SameCalls, SameJobs DEF Create, ReqTypeOK
<1>3. ASSUME NEW u \in Users, NEW l \in LinkIds, NEW title \in BOOLEAN,
             Update(r, u, l, title)
      PROVE  TypeInv'
  <2>1. ReqTypeOK' /\ ReqArgsSet'
    BY <1>1, <1>3, ReqType, RefusedType DEF Update, Op, InHandler
  <2>2. ReplTypeOK' /\ ReplArgsSet'
    BY <1>3, SameCalls, StartReplaceType, RefusedType DEF Update, Op
  <2>3. UNCHANGED <<links, tags, tagsOnLinks>>
    BY <1>3 DEF Update, Refused
  <2>4. dbErrors' \in 0 .. MaxDbErrors
    BY <1>3, ErrorCount DEF Update, Refused, Succeeds, Throws
  <2>5. QED
    BY <1>1, <2>1, <2>2, <2>3, <2>4, SameRows, SameJobs DEF TablesTypeOK, ReqTypeOK
<1>4. ASSUME NEW u \in Users, NEW l \in LinkIds, Remove(r, u, l)
      PROVE  TypeInv'
  <2>1. ReqTypeOK' /\ ReqArgsSet'
    BY <1>1, <1>4, ReqType, RefusedType DEF Remove, Op, InHandler
  <2>2. UNCHANGED <<links, tags, tagsOnLinks, repl>>
    BY <1>4 DEF Remove, Refused
  <2>3. dbErrors' \in 0 .. MaxDbErrors
    BY <1>4, ErrorCount DEF Remove, Refused, Succeeds, Throws
  <2>4. QED
    BY <1>1, <2>1, <2>2, <2>3, SameRows, SameCalls, SameJobs DEF TablesTypeOK, ReqTypeOK
<1>5. ASSUME NEW u \in Users, NEW l \in LinkIds, Reprocess(r, u, l)
      PROVE  TypeInv'
  <2>1. ReqTypeOK' /\ ReqArgsSet'
    BY <1>1, <1>5, ReqType, RefusedType DEF Reprocess, Op, InHandler
  <2>2. UNCHANGED <<links, tags, tagsOnLinks, repl>>
    BY <1>5 DEF Reprocess, Refused
  <2>3. dbErrors' \in 0 .. MaxDbErrors
    BY <1>5, ErrorCount DEF Reprocess, Refused, Succeeds, Throws
  <2>4. QED
    BY <1>1, <2>1, <2>2, <2>3, SameRows, SameCalls, SameJobs DEF TablesTypeOK, ReqTypeOK
<1>6. QED
  BY <1>2, <1>3, <1>4, <1>5 DEF Arrival

\* A handler that goes on keeps the types.
LEMMA HandlerStepType ==
    ASSUME TypeInv, NEW r \in Reqs, HandlerStep(r)
    PROVE  TypeInv'
<1> USE TablesAssumption DEF TypeInv, TypeOK
<1>1. req[r].pc \in InHandler
  BY DEF HandlerStep, PatchTagsReplaced, PatchLink, DeleteLink, ResetLink, Launch,
         InHandler
<1>2. ReqTypeOK /\ req[r].user \in Users /\ req[r].link \in LinkIds
  BY <1>1 DEF ReqTypeOK, ReqArgsSet
<1>3. CASE PatchTagsReplaced(r)
  <2>1. ReqTypeOK' /\ ReqArgsSet'
    BY <1>1, <1>2, <1>3, ReqType DEF PatchTagsReplaced, Code, InHandler
  <2>2. UNCHANGED <<tables, repl, job, restarts>>
    BY <1>3 DEF PatchTagsReplaced
  <2>3. QED
    BY <2>1, <2>2, SameRows, SameCalls, SameJobs DEF TablesTypeOK, tables, ReqTypeOK
<1>4. CASE PatchLink(r)
  <2>1. ReqTypeOK' /\ ReqArgsSet'
    BY <1>2, <1>4, ReqType DEF PatchLink, Code
  <2>2. links' \in [LinkIds -> LinkRow] /\ RowsOwned'
    <3>1. CASE UNCHANGED links
      BY <3>1, SameRows DEF TablesTypeOK
    <3>2. CASE /\ Live(req[r].link)
               /\ links' = [links EXCEPT ![req[r].link].title =
                               IF req[r].title THEN r ELSE @]
      BY <1>2, <3>2 DEF TablesTypeOK, RowsOwned, Live, LinkRow
    <3>3. QED
      BY <1>4, <3>1, <3>2 DEF PatchLink, Succeeds, AnswerLost
  <2>3. dbErrors' \in 0 .. MaxDbErrors
    BY <1>4, ErrorCount DEF PatchLink, Succeeds, Throws, AnswerLost
  <2>4. UNCHANGED <<tags, tagsOnLinks, repl, job, restarts>>
    BY <1>4 DEF PatchLink
  <2>5. QED
    BY <2>1, <2>2, <2>3, <2>4, SameCalls, SameJobs DEF TablesTypeOK, ReqTypeOK
<1>5. CASE DeleteLink(r)
  <2>1. ReqTypeOK' /\ ReqArgsSet'
    BY <1>2, <1>5, ReqType DEF DeleteLink, Code
  <2>2. /\ links' \in [LinkIds -> LinkRow] /\ RowsOwned'
        /\ tagsOnLinks' \subseteq LinkIds \X Tag
    <3>1. CASE UNCHANGED <<links, tagsOnLinks>>
      BY <3>1, SameRows DEF TablesTypeOK
    <3>2. CASE DeleteLinkRow(req[r].link)
      <4>1. EmptyRow("deleted") \in LinkRow /\ EmptyRow("deleted").status = "deleted"
        BY EmptyRowType DEF EmptyRow
      <4>2. QED
        BY <1>2, <3>2, <4>1 DEF DeleteLinkRow, TablesTypeOK, RowsOwned, Live, LinkStatus
    <3>3. QED
      BY <1>5, <3>1, <3>2 DEF DeleteLink
  <2>3. dbErrors' \in 0 .. MaxDbErrors
    BY <1>5, ErrorCount DEF DeleteLink, Succeeds, Throws, AnswerLost
  <2>4. UNCHANGED <<tags, repl, job, restarts>>
    BY <1>5 DEF DeleteLink
  <2>5. QED
    BY <2>1, <2>2, <2>3, <2>4, SameCalls, SameJobs DEF TablesTypeOK, ReqTypeOK
<1>6. CASE ResetLink(r)
  <2>1. ReqTypeOK' /\ ReqArgsSet'
    BY <1>1, <1>2, <1>6, ReqType DEF ResetLink, Code, InHandler
  <2>2. links' \in [LinkIds -> LinkRow] /\ RowsOwned'
    <3>1. CASE UNCHANGED links
      BY <3>1, SameRows DEF TablesTypeOK
    <3>2. CASE /\ Live(req[r].link)
               /\ links' = [links EXCEPT ![req[r].link] = PendingRow(@)]
      <4> DEFINE row == PendingRow(links[req[r].link])
      <4>1. links[req[r].link] \in LinkRow
        BY <1>2 DEF TablesTypeOK
      <4>2. row \in LinkRow /\ row.userId = links[req[r].link].userId
        BY <4>1, PendingRowIs
      <4>3. links' = [links EXCEPT ![req[r].link] = row]
        BY <3>2
      <4> HIDE DEF row
      <4>4. QED
        BY <1>2, <3>2, <4>2, <4>3, UpdateType
    <3>3. QED
      BY <1>6, <3>1, <3>2 DEF ResetLink, Succeeds, AnswerLost
  <2>3. dbErrors' \in 0 .. MaxDbErrors
    BY <1>6, ErrorCount DEF ResetLink, Succeeds, Throws, AnswerLost
  <2>4. UNCHANGED <<tags, tagsOnLinks, repl, job, restarts>>
    BY <1>6 DEF ResetLink
  <2>5. QED
    BY <2>1, <2>2, <2>3, <2>4, SameCalls, SameJobs DEF TablesTypeOK, ReqTypeOK
<1>7. CASE Launch(r)
  <2>1. ReqTypeOK' /\ ReqArgsSet'
    BY <1>2, <1>7, ReqType DEF Launch, Code
  <2>2. JobTypeOK' /\ JobArgsSet'
    <3> DEFINE j == [NoJob EXCEPT !.pc = "find", !.link = req[r].link]
    <3>1. j \in Job /\ j.pc = "find" /\ j.link = req[r].link
      BY <1>2 DEF NoJob, Job, JobPc, Running, Unsettled
    <3>2. job' = [job EXCEPT ![r] = j]
      BY <1>7 DEF Launch, StartEnrich
    <3> HIDE DEF j
    <3>3. QED
      BY <1>2, <3>1, <3>2 DEF JobTypeOK, JobArgsSet
  <2>3. UNCHANGED <<tables, repl, restarts>>
    BY <1>7 DEF Launch
  <2>4. QED
    BY <2>1, <2>2, <2>3, SameRows, SameCalls DEF TablesTypeOK, tables, ReqTypeOK
<1>8. QED
  BY <1>3, <1>4, <1>5, <1>6, <1>7 DEF HandlerStep

\* A restart keeps the types.
LEMMA RestartType ==
    ASSUME TypeInv, Restart
    PROVE  TypeInv'
<1> USE DEF TypeInv, TypeOK
<1>1. TablesTypeOK' /\ RowsOwned'
  BY SameRows DEF Restart, tables, TablesTypeOK
<1>2. IdleRepl \in Repl
  BY DEF IdleRepl, Repl, ReplPc, UpsertPc
<1>3. ReplTypeOK' /\ ReplArgsSet'
  <2>1. \A r \in Reqs : repl'[r] = IdleRepl
    BY DEF Restart
  <2>2. IdleRepl.pc = "idle" /\ \A n \in Names : IdleRepl.up[n] = "none"
    BY DEF IdleRepl
  <2>3. ReplTypeOK'
    BY <1>2 DEF Restart, ReplTypeOK
  <2>4. ReplArgsSet'
    BY <2>1, <2>2 DEF ReplArgsSet, Replacing
  <2>5. QED
    BY <2>3, <2>4
<1>4. JobTypeOK' /\ JobArgsSet'
  <2>1. ASSUME NEW r \in Reqs
        PROVE  job'[r] \in Job /\ job'[r].pc \notin Running
    <3>1. CASE job[r].pc \in Running
      <4>1. job'[r] = [job[r] EXCEPT !.pc = "killed"]
        BY <3>1 DEF Restart
      <4>2. job[r] \in Job
        BY DEF JobTypeOK
      <4>3. QED
        BY <4>1, <4>2 DEF Job, JobPc, Running, Unsettled
    <3>2. CASE job[r].pc \notin Running
      BY <3>2 DEF Restart, JobTypeOK
    <3>3. QED
      BY <3>1, <3>2
  <2>2. JobTypeOK'
    BY <2>1 DEF Restart, JobTypeOK
  <2>3. JobArgsSet'
    BY <2>1 DEF JobArgsSet
  <2>4. QED
    BY <2>2, <2>3
<1>5. (req \in [Reqs -> Request])' /\ ReqArgsSet'
  <2>1. ASSUME NEW r \in Reqs
        PROVE  req'[r] \in Request /\ req'[r].pc \notin InHandler
    <3>1. CASE req[r].pc \in InHandler
      <4>1. req'[r] = [req[r] EXCEPT !.pc = "done", !.code = "dropped"]
        BY <3>1 DEF Restart
      <4>2. req[r] \in Request
        OBVIOUS
      <4>3. QED
        BY <4>1, <4>2 DEF Request, Code, InHandler
    <3>2. CASE req[r].pc \notin InHandler
      BY <3>2 DEF Restart
    <3>3. QED
      BY <3>1, <3>2
  <2>2. (req \in [Reqs -> Request])'
    BY <2>1 DEF Restart
  <2>3. ReqArgsSet'
    BY <2>1 DEF ReqArgsSet
  <2>4. QED
    BY <2>2, <2>3
<1>6. (restarts \in 0 .. MaxRestarts)'
  <2>1. /\ restarts \in 0 .. MaxRestarts
        /\ restarts < MaxRestarts
        /\ restarts' = restarts + 1
    BY DEF Restart
  <2>2. QED
    BY <2>1, ServiceAssumption
<1>7. QED
  BY <1>1, <1>3, <1>4, <1>5, <1>6

\* Every step keeps the types.
LEMMA TypeStep == TypeInv /\ [Next]_vars => TypeInv'
<1> SUFFICES ASSUME TypeInv, [Next]_vars PROVE TypeInv'
  OBVIOUS
<1> USE DEF TypeInv, TypeOK
<1>1. CASE UNCHANGED vars
  BY <1>1, SameRows, SameCalls, SameJobs
     DEF vars, tables, TablesTypeOK, ReqArgsSet
<1>2. CASE Restart
  BY <1>2, RestartType
<1>3. ASSUME NEW r \in Reqs, Arrival(r)
      PROVE  TypeInv'
  BY <1>3, ArrivalType
<1>4. ASSUME NEW r \in Reqs, HandlerStep(r)
      PROVE  TypeInv'
  BY <1>4, HandlerStepType
<1>5. ASSUME NEW r \in Reqs, JobStep(r), UNCHANGED <<req, restarts>>
      PROVE  TypeInv'
  <2>1. ReqArgsSet'
    BY <1>5 DEF ReqArgsSet
  <2>2. QED
    BY <1>5, <2>1, JobStepType
<1>6. ASSUME NEW r \in Reqs, ReplStep(r), UNCHANGED <<job, req, restarts>>
      PROVE  TypeInv'
  <2>1. ReqArgsSet'
    BY <1>6 DEF ReqArgsSet
  <2>2. QED
    BY <1>6, <2>1, ReplStepType, SameRows, SameJobs
<1>7. QED
  BY <1>1, <1>2, <1>3, <1>4, <1>5, <1>6 DEF Next, Step

\* Type correctness of the link service, with every argument set before a
\* statement uses it.
THEOREM TypeInvariant == Spec => []TypeInv
<1>1. Init => TypeInv
  <2> SUFFICES ASSUME Init PROVE TypeInv
    OBVIOUS
  <2>1. TablesTypeOK /\ RowsOwned
    BY EmptyRowType, TablesAssumption DEF Init, TablesInit, TablesTypeOK, RowsOwned, Live,
                                          EmptyRow, LinkStatus
  <2>2. ReplTypeOK /\ ReplArgsSet
    BY DEF Init, ReplInit, ReplTypeOK, ReplArgsSet, Replacing, IdleRepl, Repl, ReplPc,
           UpsertPc
  <2>3. JobTypeOK /\ JobArgsSet
    BY DEF Init, JobInit, NoJob, JobTypeOK, JobArgsSet, Job, JobPc, Running, Unsettled
  <2>4. req \in [Reqs -> Request] /\ ReqArgsSet
    BY DEF Init, NewRequest, Request, ReqArgsSet, InHandler
  <2>5. restarts \in 0 .. MaxRestarts
    BY ServiceAssumption DEF Init
  <2>6. QED
    BY <2>1, <2>2, <2>3, <2>4, <2>5 DEF TypeInv, TypeOK
<1>2. QED
  BY <1>1, TypeStep, PTL DEF Spec

\* Every state the service reaches is well typed.
THEOREM TypeCorrect == Spec => []TypeOK
BY TypeInvariant, PTL DEF TypeInv

-----------------------------------------------------------------------------
(* What a step may do to the table Link, and that tags are only added.     *)

\* Every write of the table is one of these, to a row that is there.
Writes(l) ==
    \/ \E r \in Reqs : links' = [links EXCEPT ![l] = ReadyRow(@, r)]
    \/ \E r \in Reqs : /\ job[r].pc = "markFailed" /\ job[r].link = l
                       /\ links' = [links EXCEPT ![l] = FailedRow(@, job[r].reason)]
    \/ \E r \in Reqs : links' = [links EXCEPT ![l].title = r]
    \/ links' = [links EXCEPT ![l] = PendingRow(@)]
    \/ DeleteLinkRow(l)

\* What a step can do to the table Link: nothing, one new row, or one write to
\* one live row.
LEMMA LinkWrites ==
    ASSUME TypeInv, [Next]_vars
    PROVE  \/ UNCHANGED links
           \/ \E l \in LinkIds, u \in Users :
                 links[l].status = "unborn" /\ InsertLink(l, u)
           \/ \E l \in LinkIds : Live(l) /\ Writes(l)
<1> DEFINE Goal == \/ UNCHANGED links
                   \/ \E l \in LinkIds, u \in Users :
                         links[l].status = "unborn" /\ InsertLink(l, u)
                   \/ \E l \in LinkIds : Live(l) /\ Writes(l)
<1>1. CASE UNCHANGED vars \/ Restart
  BY <1>1 DEF vars, tables, Restart
<1>2. ASSUME NEW r \in Reqs, Arrival(r)
      PROVE  Goal
  BY <1>2 DEF Arrival, Create, Update, Remove, Reprocess, Refused
<1>3. ASSUME NEW r \in Reqs, HandlerStep(r)
      PROVE  Goal
  <2>1. req[r].link \in LinkIds
    BY <1>3 DEF HandlerStep, PatchTagsReplaced, PatchLink, DeleteLink, ResetLink,
                Launch, InHandler, TypeInv, ReqArgsSet
  <2>2. CASE PatchLink(r)
    <3>1. links \in [LinkIds -> LinkRow]
      BY DEF TypeInv, TypeOK, TablesTypeOK
    <3>2. req[r].title => (links' = [links EXCEPT ![req[r].link].title = r] \/ UNCHANGED links)
      BY <2>2 DEF PatchLink
    <3>3. ~req[r].title => UNCHANGED links
      BY <2>1, <2>2, <3>1 DEF PatchLink, LinkRow
    <3>4. UNCHANGED links \/ Live(req[r].link)
      BY <2>2 DEF PatchLink, Succeeds, AnswerLost
    <3>5. QED
      BY <2>1, <3>2, <3>3, <3>4 DEF Writes
  <2>3. CASE DeleteLink(r)
    BY <2>1, <2>3 DEF DeleteLink, Succeeds, Writes, AnswerLost
  <2>4. CASE ResetLink(r)
    BY <2>1, <2>4 DEF ResetLink, Succeeds, Writes, AnswerLost
  <2>5. CASE PatchTagsReplaced(r) \/ Launch(r)
    BY <2>5 DEF PatchTagsReplaced, Launch, tables
  <2>6. QED
    BY <1>3, <2>2, <2>3, <2>4, <2>5 DEF HandlerStep
<1>4. ASSUME NEW r \in Reqs, JobStep(r)
      PROVE  Goal
  <2>1. job[r].link \in LinkIds
    BY <1>4 DEF JobStep, Find, Crawl, ReadBody, CrawlFails, Summarize, UpdateReady, TagsReplaced, KeepCrawled,
                MarkFailed, Running, Unsettled, TypeInv, JobArgsSet
  <2>2. CASE UpdateReady(r)
    BY <2>1, <2>2 DEF UpdateReady, Succeeds, Writes, AnswerLost
  <2>3. CASE KeepCrawled(r)
    BY <2>1, <2>3 DEF KeepCrawled, Succeeds, Writes, AnswerLost
  <2>4. CASE MarkFailed(r)
    BY <2>1, <2>4 DEF MarkFailed, Succeeds, Writes, AnswerLost
  <2>5. CASE Find(r) \/ Crawl(r) \/ ReadBody(r) \/ Summarize(r) \/ TagsReplaced(r)
    BY <2>5 DEF Find, Crawl, ReadBody, CrawlFails, Summarize, TagsReplaced, tables
  <2>6. QED
    BY <1>4, <2>2, <2>3, <2>4, <2>5 DEF JobStep
<1>5. ASSUME NEW r \in Reqs, ReplStep(r)
      PROVE  Goal
  BY <1>5, ReplStepType DEF TypeInv, TypeOK
<1>6. QED
  BY <1>1, <1>2, <1>3, <1>4, <1>5 DEF Next, Step

\* A row keeps its owner as long as it is there, and does not come back.
LEMMA RowFate ==
    ASSUME TypeInv, [Next]_vars, NEW l \in LinkIds
    PROVE  \/ links'[l] = links[l]
           \/ links[l].status = "unborn" /\ links'[l].status = "PENDING"
           \/ /\ Live(l)
              /\ links'[l].status \in LinkStatus
              /\ links'[l].userId = links[l].userId
           \/ Live(l) /\ links'[l] = EmptyRow("deleted") /\ DeleteLinkRow(l)
<1>1. links \in [LinkIds -> LinkRow] /\ links[l] \in LinkRow
  BY DEF TypeInv, TypeOK, TablesTypeOK
<1>2. ASSUME NEW k \in LinkIds, NEW u \in Users,
             links[k].status = "unborn", InsertLink(k, u)
      PROVE  \/ links'[l] = links[l]
             \/ links[l].status = "unborn" /\ links'[l].status = "PENDING"
  <2> DEFINE row == [EmptyRow("PENDING") EXCEPT !.userId = u]
  <2>1. row.status = "PENDING"
    BY DEF EmptyRow
  <2>2. links' = [links EXCEPT ![k] = row]
    BY <1>2 DEF InsertLink
  <2> HIDE DEF row
  <2>3. QED
    BY <1>1, <1>2, <2>1, <2>2
<1>3. ASSUME NEW k \in LinkIds, Live(k), Writes(k)
      PROVE  \/ links'[l] = links[l]
             \/ /\ Live(l)
                /\ links'[l].status \in LinkStatus
                /\ links'[l].userId = links[l].userId
             \/ Live(l) /\ links'[l] = EmptyRow("deleted") /\ DeleteLinkRow(l)
  <2>1. CASE k # l
    BY <1>1, <1>3, <2>1 DEF Writes, DeleteLinkRow
  <2>2. CASE k = l
    <3>1. ASSUME NEW r \in Reqs, links' = [links EXCEPT ![l] = ReadyRow(@, r)]
          PROVE  links'[l].status \in LinkStatus /\ links'[l].userId = links[l].userId
      BY <1>1, <3>1, ReadyRowIs DEF LinkStatus
    <3>2. ASSUME NEW r \in Reqs, links' = [links EXCEPT ![l] = FailedRow(@, job[r].reason)]
          PROVE  links'[l].status \in LinkStatus /\ links'[l].userId = links[l].userId
      <4>1. job[r].reason \in FailReason \cup {NULL}
        BY DEF TypeInv, TypeOK, JobTypeOK, Job
      <4>2. QED
        BY <1>1, <3>2, <4>1, FailedRowIs DEF LinkStatus
    <3>3. ASSUME NEW r \in Reqs, links' = [links EXCEPT ![l].title = r]
          PROVE  links'[l].status \in LinkStatus /\ links'[l].userId = links[l].userId
      BY <1>1, <1>3, <2>2, <3>3 DEF Live, LinkRow
    <3>4. ASSUME links' = [links EXCEPT ![l] = PendingRow(@)]
          PROVE  links'[l].status \in LinkStatus /\ links'[l].userId = links[l].userId
      BY <1>1, <3>4, PendingRowIs DEF LinkStatus
    <3>5. ASSUME DeleteLinkRow(l)
          PROVE  links'[l] = EmptyRow("deleted")
      BY <1>1, <3>5 DEF DeleteLinkRow
    <3>6. QED
      BY <1>3, <2>2, <3>1, <3>2, <3>3, <3>4, <3>5 DEF Writes
  <2>3. QED
    BY <2>1, <2>2
<1>4. QED
  BY <1>2, <1>3, LinkWrites

\* No step removes a tag.
LEMMA TagsGrow == ASSUME [Next]_vars PROVE tags \subseteq tags'
<1>1. CASE UNCHANGED vars \/ Restart
  BY <1>1 DEF vars, tables, Restart
<1>2. ASSUME NEW r \in Reqs, Arrival(r) \/ HandlerStep(r)
      PROVE  tags \subseteq tags'
  BY <1>2 DEF Arrival, Create, Update, Remove, Reprocess, Refused, HandlerStep,
              PatchTagsReplaced, PatchLink, DeleteLink, ResetLink, Launch, tables
<1>3. ASSUME NEW r \in Reqs, JobStep(r)
      PROVE  tags \subseteq tags'
  <2>1. CASE Find(r) \/ UpdateReady(r) \/ KeepCrawled(r) \/ MarkFailed(r)
    BY <2>1 DEF Find, UpdateReady, KeepCrawled, MarkFailed
  <2>2. CASE Crawl(r) \/ ReadBody(r) \/ Summarize(r) \/ TagsReplaced(r)
    BY <2>2 DEF Crawl, ReadBody, CrawlFails, Summarize, TagsReplaced, tables
  <2>3. QED
    BY <1>3, <2>1, <2>2 DEF JobStep
<1>4. ASSUME NEW r \in Reqs, NEW n \in Names,
             UpsertSelect(r, n) \/ UpsertInsert(r, n) \/ UpsertRefind(r, n)
      PROVE  tags \subseteq tags'
  BY <1>4 DEF UpsertSelect, UpsertInsert, UpsertRefind
<1>5. ASSUME NEW r \in Reqs, DeleteTagRows(r) \/ CreateTagRows(r)
      PROVE  tags \subseteq tags'
  BY <1>5 DEF DeleteTagRows, CreateTagRows, ReplGoesTo
<1>6. QED
  BY <1>1, <1>2, <1>3, <1>4, <1>5 DEF Next, Step, ReplStep

-----------------------------------------------------------------------------
(* Ownership.  Whoever acts on a link was checked against its row before;  *)
(* the check stays right because a row never changes its owner and a       *)
(* deleted id never comes back.                                            *)

\* As far as the row of l is there, it belongs to u.
Holds(l, u) ==
    /\ links[l].status # "unborn"
    /\ Live(l) => links[l].userId = u

ReqHolds ==
    \A r \in Reqs : req[r].pc \in InHandler => Holds(req[r].link, req[r].user)

JobHolds ==
    \A r \in Reqs :
        /\ job[r].pc \in Running => links[job[r].link].status # "unborn"
        /\ job[r].pc \in Running \ {"find"} => Holds(job[r].link, job[r].owner)

ReplHolds ==
    \A r \in Reqs :
        /\ Replacing(r) => Holds(repl[r].link, repl[r].user)
        /\ \A n \in Names : repl[r].up[n] = "done" => TagOf(r, n) \in tags

OwnerInv == ReqHolds /\ JobHolds /\ ReplHolds /\ TagRowsSound

\* Once checked, always right.
LEMMA HoldsStays ==
    ASSUME TypeInv, [Next]_vars, NEW l \in LinkIds, NEW u, Holds(l, u)
    PROVE  Holds(l, u)'
<1>1. links[l].status # "unborn" /\ (Live(l) => links[l].userId = u)
  BY DEF Holds
<1>2. EmptyRow("deleted").status = "deleted"
  BY DEF EmptyRow
<1>3. links'[l].status # "unborn"
  BY <1>1, <1>2, RowFate DEF LinkStatus
<1>4. links'[l].status \in LinkStatus => links'[l].userId = u
  BY <1>1, <1>2, RowFate DEF LinkStatus, Live
<1>5. QED
  BY <1>3, <1>4 DEF Holds, Live

\* A handler's step changes no other request.
LEMMA OneRequest ==
    ASSUME NEW s \in Reqs, Arrival(s) \/ HandlerStep(s)
    PROVE  \E q : req' = [req EXCEPT ![s] = q]
<1>1. ASSUME NEW op, NEW u, NEW l, NEW title, NEW pc, Arrive(s, op, u, l, title, pc)
      PROVE  \E q : req' = [req EXCEPT ![s] = q]
  BY <1>1 DEF Arrive
<1>2. ASSUME NEW op, NEW u, NEW l, NEW code, Refuse(s, op, u, l, code)
      PROVE  \E q : req' = [req EXCEPT ![s] = q]
  BY <1>2 DEF Refuse
<1>3. ASSUME NEW pc, ReqGoesTo(s, pc)
      PROVE  \E q : req' = [req EXCEPT ![s] = q]
  BY <1>3 DEF ReqGoesTo
<1>4. ASSUME NEW code, Answer(s, code)
      PROVE  \E q : req' = [req EXCEPT ![s] = q]
  <2>1. req' = [req EXCEPT ![s] = [req[s] EXCEPT !.pc = "done", !.code = code]]
    BY <1>4 DEF Answer
  <2>2. QED
    BY <2>1
<1>5. CASE Arrival(s)
  <2>1. CASE \E u \in Users : Create(s, u)
    BY <1>1, <1>2, <2>1 DEF Create
  <2>2. CASE \E u \in Users, l \in LinkIds, title \in BOOLEAN : Update(s, u, l, title)
    BY <1>1, <1>2, <2>2 DEF Update, Refused
  <2>3. CASE \E u \in Users, l \in LinkIds : Remove(s, u, l) \/ Reprocess(s, u, l)
    BY <1>1, <1>2, <2>3 DEF Remove, Reprocess, Refused
  <2>4. QED
    BY <1>5, <2>1, <2>2, <2>3 DEF Arrival
<1>6. CASE HandlerStep(s)
  BY <1>3, <1>4, <1>6 DEF HandlerStep, PatchTagsReplaced, PatchLink, DeleteLink,
                          ResetLink, Launch
<1>7. QED
  BY <1>5, <1>6

\* A request in a handler was there before the step, or its check passed or its
\* link was inserted in this step.
LEMMA ReqOrigin ==
    ASSUME TypeInv, [Next]_vars, NEW r \in Reqs, req'[r].pc \in InHandler
    PROVE  \/ /\ req[r].pc \in InHandler
              /\ req'[r].link = req[r].link
              /\ req'[r].user = req[r].user
           \/ /\ Owned(req'[r].link, req'[r].user)
              /\ UNCHANGED links
           \/ InsertLink(req'[r].link, req'[r].user)
<1> DEFINE Goal == \/ /\ req[r].pc \in InHandler
                      /\ req'[r].link = req[r].link
                      /\ req'[r].user = req[r].user
                   \/ /\ Owned(req'[r].link, req'[r].user)
                      /\ UNCHANGED links
                   \/ InsertLink(req'[r].link, req'[r].user)
<1>1. req \in [Reqs -> Request]
  BY DEF TypeInv, TypeOK
<1>2. CASE UNCHANGED req
  BY <1>2
<1>3. CASE Restart
  BY <1>1, <1>3 DEF Restart, Request, InHandler
<1>4. ASSUME NEW s \in Reqs, Arrival(s) \/ HandlerStep(s), s # r
      PROVE  Goal
  <2>1. req'[r] = req[r]
    BY <1>1, <1>4, OneRequest
  <2>2. QED
    BY <2>1
<1>5. CASE Arrival(r)
  <2>1. ASSUME NEW op, NEW u, NEW l, NEW title, NEW pc, Arrive(r, op, u, l, title, pc)
        PROVE  req'[r].link = l /\ req'[r].user = u
    BY <1>1, <2>1 DEF Arrive, NewRequest
  <2>2. ASSUME NEW op, NEW u, NEW l, NEW code, Refuse(r, op, u, l, code)
        PROVE  req'[r].pc \notin InHandler
    BY <1>1, <2>2 DEF Refuse, NewRequest, InHandler
  <2>3. ASSUME NEW u \in Users, Create(r, u)
        PROVE  Goal
    BY <2>1, <2>2, <2>3 DEF Create
  <2>4. ASSUME NEW u \in Users, NEW l \in LinkIds, NEW title \in BOOLEAN,
               Update(r, u, l, title)
        PROVE  Goal
    BY <2>1, <2>2, <2>4 DEF Update, Refused, Succeeds
  <2>5. ASSUME NEW u \in Users, NEW l \in LinkIds, Remove(r, u, l) \/ Reprocess(r, u, l)
        PROVE  Goal
    BY <2>1, <2>2, <2>5 DEF Remove, Reprocess, Refused, Succeeds
  <2>6. QED
    BY <1>5, <2>3, <2>4, <2>5 DEF Arrival
<1>6. CASE HandlerStep(r)
  <2>1. req[r].pc \in InHandler
    BY <1>6 DEF HandlerStep, PatchTagsReplaced, PatchLink, DeleteLink, ResetLink,
                Launch, InHandler
  <2>2. req'[r].link = req[r].link /\ req'[r].user = req[r].user
    BY <1>1, <1>6 DEF HandlerStep, PatchTagsReplaced, PatchLink, DeleteLink, ResetLink,
                Launch, ReqGoesTo, Answer, Request
  <2>3. QED
    BY <2>1, <2>2
<1>7. QED
  BY <1>2, <1>3, <1>4, <1>5, <1>6 DEF Next, Step, vars

\* A run's step changes no other run.
LEMMA OneJob ==
    ASSUME NEW s \in Reqs, JobStep(s)
    PROVE  \E q : job' = [job EXCEPT ![s] = q]
<1>1. ASSUME NEW pc, JobGoesTo(s, pc)
      PROVE  \E q : job' = [job EXCEPT ![s] = q]
  BY <1>1 DEF JobGoesTo
<1>2. ASSUME NEW pc, NEW x, job' = [job EXCEPT ![s].pc = pc, ![s].owner = x]
      PROVE  \E q : job' = [job EXCEPT ![s] = q]
  <2>1. job' = [job EXCEPT ![s] = [job[s] EXCEPT !.pc = pc, !.owner = x]]
    BY <1>2
  <2>2. QED
    BY <2>1
<1>3. ASSUME NEW pc, NEW x, job' = [job EXCEPT ![s].pc = pc, ![s].reason = x]
      PROVE  \E q : job' = [job EXCEPT ![s] = q]
  <2>1. job' = [job EXCEPT ![s] = [job[s] EXCEPT !.pc = pc, !.reason = x]]
    BY <1>3
  <2>2. QED
    BY <2>1
<1>4. ASSUME NEW pc, NEW x, job' = [job EXCEPT ![s].pc = pc, ![s].names = x]
      PROVE  \E q : job' = [job EXCEPT ![s] = q]
  <2>1. job' = [job EXCEPT ![s] = [job[s] EXCEPT !.pc = pc, !.names = x]]
    BY <1>4
  <2>2. QED
    BY <2>1
<1>5. QED
  BY <1>1, <1>2, <1>3, <1>4 DEF JobStep, Find, Crawl, ReadBody, CrawlFails, Summarize, UpdateReady,
                               TagsReplaced, KeepCrawled, MarkFailed

\* A running run was running before the step on the same link for the same
\* owner, or was launched in it, or read its owner in it.
LEMMA JobOrigin ==
    ASSUME TypeInv, [Next]_vars, NEW r \in Reqs, job'[r].pc \in Running
    PROVE  \/ /\ job[r].pc \in Running
              /\ job[r].pc = "find" => job'[r].pc = "find"
              /\ job'[r].link = job[r].link
              /\ job'[r].owner = job[r].owner
           \/ /\ req[r].pc = "launch"
              /\ job'[r].pc = "find"
              /\ job'[r].link = req[r].link
           \/ /\ job[r].pc = "find"
              /\ job'[r].link = job[r].link
              /\ Live(job[r].link)
              /\ job'[r].owner = links[job[r].link].userId
<1> DEFINE Goal == \/ /\ job[r].pc \in Running
                      /\ job[r].pc = "find" => job'[r].pc = "find"
                      /\ job'[r].link = job[r].link
                      /\ job'[r].owner = job[r].owner
                   \/ /\ req[r].pc = "launch"
                      /\ job'[r].pc = "find"
                      /\ job'[r].link = req[r].link
                   \/ /\ job[r].pc = "find"
                      /\ job'[r].link = job[r].link
                      /\ Live(job[r].link)
                      /\ job'[r].owner = links[job[r].link].userId
<1>1. job \in [Reqs -> Job]
  BY DEF TypeInv, TypeOK, JobTypeOK
<1>2. CASE UNCHANGED job
  BY <1>2
<1>3. CASE Restart
  <2>1. CASE job[r].pc \in Running
    <3>1. job'[r] = [job[r] EXCEPT !.pc = "killed"]
      BY <1>3, <2>1 DEF Restart
    <3>2. QED
      BY <1>1, <3>1 DEF Job, Running, Unsettled
  <2>2. CASE job[r].pc \notin Running
    BY <1>3, <2>2 DEF Restart
  <2>3. QED
    BY <2>1, <2>2
<1>4. ASSUME NEW s \in Reqs, HandlerStep(s)
      PROVE  Goal
  <2>1. CASE Launch(s)
    <3> DEFINE j == [NoJob EXCEPT !.pc = "find", !.link = req[s].link]
    <3>1. j.pc = "find" /\ j.link = req[s].link
      BY DEF NoJob
    <3>2. job' = [job EXCEPT ![s] = j] /\ req[s].pc = "launch"
      BY <2>1 DEF Launch, StartEnrich
    <3> HIDE DEF j
    <3>3. QED
      BY <1>1, <3>1, <3>2
  <2>2. CASE ~Launch(s)
    BY <1>2, <1>4, <2>2 DEF HandlerStep, PatchTagsReplaced, PatchLink, DeleteLink, ResetLink
  <2>3. QED
    BY <2>1, <2>2
<1>5. ASSUME NEW s \in Reqs, JobStep(s), s # r
      PROVE  Goal
  BY <1>1, <1>2, <1>5, OneJob
<1>6. CASE JobStep(r)
  <2>1. CASE Find(r)
    <3>1. /\ job[r].pc = "find"
          /\ \/ /\ Live(job[r].link)
                /\ job' = [job EXCEPT ![r].pc = "crawl", ![r].owner = JobRow(r).userId]
             \/ job' = [job EXCEPT ![r].pc = "resolved"]
             \/ job' = [job EXCEPT ![r].pc = "rejected"]
      BY <2>1 DEF Find, JobGoesTo, Succeeds
    <3>2. job[r] \in Job
      BY <1>1
    <3>3. \/ /\ Live(job[r].link)
             /\ job'[r] = [job[r] EXCEPT !.pc = "crawl", !.owner = JobRow(r).userId]
          \/ job'[r] = [job[r] EXCEPT !.pc = "resolved"]
          \/ job'[r] = [job[r] EXCEPT !.pc = "rejected"]
      BY <1>1, <3>1
    <3>4. QED
      BY <3>1, <3>2, <3>3 DEF JobRow, Job, Running, Unsettled
  <2>2. CASE Crawl(r) \/ ReadBody(r) \/ Summarize(r)
    BY <1>1, <2>2 DEF Crawl, ReadBody, CrawlFails, Summarize, JobGoesTo, Job, Running, Unsettled
  <2>3. CASE UpdateReady(r) \/ TagsReplaced(r)
    BY <1>1, <2>3 DEF UpdateReady, TagsReplaced, JobGoesTo, Job, Running, Unsettled
  <2>4. CASE KeepCrawled(r) \/ MarkFailed(r)
    BY <1>1, <2>4 DEF KeepCrawled, MarkFailed, JobGoesTo, Job, Running, Unsettled
  <2>5. QED
    BY <1>6, <2>1, <2>2, <2>3, <2>4 DEF JobStep
<1>7. ASSUME NEW s \in Reqs, Arrival(s)
      PROVE  UNCHANGED job
  BY <1>7 DEF Arrival, Create, Update, Remove, Reprocess
<1>8. QED
  BY <1>2, <1>3, <1>4, <1>5, <1>6, <1>7 DEF Next, Step, vars

\* A call of replaceLinkTags is started by a PATCH that passed its check or by
\* a run that has written READY.
PatchStarts(r, u, l) == Owned(l, u) /\ \E raw : StartReplace(r, u, l, raw)

RunStarts(r) ==
    /\ job[r].pc = "ready"
    /\ StartReplace(r, job[r].owner, job[r].link, job[r].names)

\* What a step does to the calls of replaceLinkTags.
LEMMA ReplSteps ==
    ASSUME [Next]_vars
    PROVE  \/ UNCHANGED repl
           \/ repl' = [r \in Reqs |-> IdleRepl]
           \/ \E r \in Reqs : ReplStep(r) /\ UNCHANGED <<job, req, restarts>>
           \/ \E r \in Reqs, u \in Users, l \in LinkIds : PatchStarts(r, u, l)
           \/ \E r \in Reqs : RunStarts(r)
<1> DEFINE Goal == \/ UNCHANGED repl
                   \/ repl' = [r \in Reqs |-> IdleRepl]
                   \/ \E r \in Reqs : ReplStep(r) /\ UNCHANGED <<job, req, restarts>>
                   \/ \E r \in Reqs, u \in Users, l \in LinkIds : PatchStarts(r, u, l)
                   \/ \E r \in Reqs : RunStarts(r)
<1>1. CASE UNCHANGED vars \/ Restart
  BY <1>1 DEF vars, Restart
<1>2. ASSUME NEW r \in Reqs, Arrival(r)
      PROVE  Goal
  <2>1. ASSUME NEW u \in Users, NEW l \in LinkIds, NEW title \in BOOLEAN,
               Update(r, u, l, title)
        PROVE  Goal
    BY <2>1 DEF Update, Refused, Succeeds, PatchStarts
  <2>2. ASSUME NEW u \in Users, NEW l \in LinkIds, Remove(r, u, l) \/ Reprocess(r, u, l)
        PROVE  Goal
    BY <2>2 DEF Remove, Reprocess, Refused
  <2>3. ASSUME NEW u \in Users, Create(r, u)
        PROVE  Goal
    BY <2>3 DEF Create
  <2>4. QED
    BY <1>2, <2>1, <2>2, <2>3 DEF Arrival
<1>3. ASSUME NEW r \in Reqs, HandlerStep(r)
      PROVE  Goal
  BY <1>3 DEF HandlerStep, PatchTagsReplaced, PatchLink, DeleteLink, ResetLink, Launch
<1>4. ASSUME NEW r \in Reqs, JobStep(r)
      PROVE  Goal
  BY <1>4 DEF JobStep, Find, Crawl, ReadBody, CrawlFails, Summarize, UpdateReady, TagsReplaced, KeepCrawled,
              MarkFailed, RunStarts
<1>5. QED
  BY <1>1, <1>2, <1>3, <1>4 DEF Next, Step

\* A step of a call keeps its link and user, starts no new upsert, and counts
\* an upsert as done only when its tag is there.
LEMMA ReplStepKeeps ==
    ASSUME TypeInv, NEW s \in Reqs, ReplStep(s), NEW r \in Reqs
    PROVE  /\ repl'[r].user = repl[r].user
           /\ repl'[r].link = repl[r].link
           /\ Replacing(r)' => Replacing(r)
           /\ \A n \in Names :
                 repl'[r].up[n] = "done" => repl[r].up[n] = "done" \/ TagOf(r, n) \in tags'
<1> DEFINE Goal == /\ repl'[r].user = repl[r].user
                   /\ repl'[r].link = repl[r].link
                   /\ Replacing(r)' => Replacing(r)
                   /\ \A n \in Names :
                         repl'[r].up[n] = "done" =>
                             repl[r].up[n] = "done" \/ TagOf(r, n) \in tags'
<1>1. repl \in [Reqs -> Repl]
  BY DEF TypeInv, TypeOK, ReplTypeOK
<1>2. ASSUME NEW n \in Names, NEW up, NEW pc, Upsert(s, n, up, pc),
             repl[s].up[n] \in {"select", "insert", "refind"},
             up = "done" => TagOf(s, n) \in tags'
      PROVE  Goal
  <2>1. CASE s # r
    BY <1>1, <1>2, <2>1 DEF Upsert, Replacing, Repl
  <2>2. CASE s = r
    <3>1. /\ repl'[r].user = repl[r].user
          /\ repl'[r].link = repl[r].link
          /\ repl'[r].up = [repl[r].up EXCEPT ![n] = up]
      BY <1>1, <1>2, <2>2 DEF Upsert, Repl
    <3>2. Replacing(r)
      BY <1>2, <2>2 DEF Replacing
    <3>3. repl[r].up \in [Names -> UpsertPc]
      BY <1>1 DEF Repl
    <3>4. \A m \in Names : repl'[r].up[m] = "done" =>
                                repl[r].up[m] = "done" \/ TagOf(r, m) \in tags'
      BY <1>2, <2>2, <3>1, <3>3
    <3>5. QED
      BY <3>1, <3>2, <3>4
  <2>3. QED
    BY <2>1, <2>2
<1>3. ASSUME NEW pc, repl' = [repl EXCEPT ![s].pc = pc], Replacing(s)
      PROVE  Goal
  <2>1. /\ repl'[r].user = repl[r].user
        /\ repl'[r].link = repl[r].link
        /\ repl'[r].up = repl[r].up
    BY <1>1, <1>3 DEF Repl
  <2>2. Replacing(r)' => Replacing(r)
    BY <1>1, <1>3 DEF Replacing, Repl
  <2>3. QED
    BY <2>1, <2>2
<1>4. ASSUME NEW n \in Names, UpsertSelect(s, n) \/ UpsertInsert(s, n) \/ UpsertRefind(s, n)
      PROVE  Goal
  <2>1. repl[s].up[n] \in {"select", "insert", "refind"}
    BY <1>4 DEF UpsertSelect, UpsertInsert, UpsertRefind
  <2>2. CASE UpsertResolves(s, n) /\ TagOf(s, n) \in tags'
    BY <1>2, <2>1, <2>2 DEF UpsertResolves
  <2>3. CASE UpsertRejects(s, n)
    BY <1>2, <2>1, <2>3 DEF UpsertRejects
  <2>4. CASE UpsertGoesTo(s, n, "insert") \/ UpsertGoesTo(s, n, "refind")
    BY <1>2, <2>1, <2>4 DEF UpsertGoesTo
  <2>5. QED
    BY <1>4, <2>2, <2>3, <2>4 DEF UpsertSelect, UpsertInsert, UpsertRefind, Succeeds,
                                  AnswerLost
<1>5. CASE DeleteTagRows(s) \/ CreateTagRows(s)
  BY <1>3, <1>5 DEF DeleteTagRows, CreateTagRows, Replacing, ReplGoesTo
<1>6. QED
  BY <1>4, <1>5 DEF ReplStep

\* Every step keeps what the handlers have checked.
LEMMA ReqHoldsStep ==
    ASSUME TypeInv, OwnerInv, [Next]_vars
    PROVE  ReqHolds'
<1> SUFFICES ASSUME NEW r \in Reqs, req'[r].pc \in InHandler
             PROVE  Holds(req[r].link, req[r].user)'
  BY DEF ReqHolds
<1>1. TypeInv'
  BY TypeStep
<1>2. req'[r].link \in LinkIds /\ req'[r].user \in Users
  BY <1>1 DEF TypeInv, ReqArgsSet
<1>3. CASE /\ req[r].pc \in InHandler
           /\ req'[r].link = req[r].link
           /\ req'[r].user = req[r].user
  <2>1. Holds(req[r].link, req[r].user)
    BY <1>3 DEF OwnerInv, ReqHolds
  <2>2. \A l \in LinkIds : \A u : Holds(l, u) => Holds(l, u)'
    BY HoldsStays
  <2>3. QED
    BY <1>2, <1>3, <2>1, <2>2 DEF Holds, Live
<1>4. CASE Owned(req'[r].link, req'[r].user) /\ UNCHANGED links
  BY <1>4 DEF Owned, Holds, Live, LinkStatus
<1>5. CASE InsertLink(req'[r].link, req'[r].user)
  <2> DEFINE row == [EmptyRow("PENDING") EXCEPT !.userId = req'[r].user]
  <2>1. row.status = "PENDING" /\ row.userId = req'[r].user
    BY DEF EmptyRow
  <2>2. links' = [links EXCEPT ![req'[r].link] = row]
    BY <1>5 DEF InsertLink
  <2>3. links \in [LinkIds -> LinkRow]
    BY DEF TypeInv, TypeOK, TablesTypeOK
  <2> HIDE DEF row
  <2>4. QED
    BY <1>2, <2>1, <2>2, <2>3 DEF Holds, Live, LinkStatus
<1>6. QED
  BY <1>3, <1>4, <1>5, ReqOrigin

\* Every step keeps what the runs have read.
LEMMA JobHoldsStep ==
    ASSUME TypeInv, OwnerInv, [Next]_vars
    PROVE  JobHolds'
<1> SUFFICES ASSUME NEW r \in Reqs, job'[r].pc \in Running
             PROVE  /\ (links[job[r].link].status # "unborn")'
                    /\ job'[r].pc # "find" => Holds(job[r].link, job[r].owner)'
  BY DEF JobHolds
<1>1. TypeInv'
  BY TypeStep
<1>2. job'[r].link \in LinkIds
  BY <1>1 DEF TypeInv, JobArgsSet
<1>3. \A l \in LinkIds : \A u : Holds(l, u) => Holds(l, u)'
  BY HoldsStays
<1>4. \A l \in LinkIds : links[l].status # "unborn" => Holds(l, links[l].userId)
  BY DEF Holds
<1>5. \A l \in LinkIds : links[l].status # "unborn" => links'[l].status # "unborn"
  BY <1>3, <1>4 DEF Holds
<1>6. CASE /\ job[r].pc \in Running
           /\ job[r].pc = "find" => job'[r].pc = "find"
           /\ job'[r].link = job[r].link
           /\ job'[r].owner = job[r].owner
  <2>1. /\ links[job[r].link].status # "unborn"
        /\ job'[r].pc # "find" => Holds(job[r].link, job[r].owner)
    BY <1>6 DEF OwnerInv, JobHolds
  <2>2. QED
    BY <1>2, <1>3, <1>5, <1>6, <2>1 DEF Holds, Live
<1>7. CASE /\ req[r].pc = "launch"
           /\ job'[r].pc = "find"
           /\ job'[r].link = req[r].link
  <2>1. links[req[r].link].status # "unborn"
    BY <1>7 DEF OwnerInv, ReqHolds, Holds, InHandler
  <2>2. QED
    BY <1>2, <1>5, <1>7, <2>1
<1>8. CASE /\ job[r].pc = "find"
           /\ job'[r].link = job[r].link
           /\ Live(job[r].link)
           /\ job'[r].owner = links[job[r].link].userId
  <2>1. links[job[r].link].status # "unborn"
    BY <1>8 DEF Live, LinkStatus
  <2>2. Holds(job[r].link, links[job[r].link].userId)
    BY <1>2, <1>4, <1>8, <2>1
  <2>3. QED
    BY <1>2, <1>3, <1>5, <1>8, <2>1, <2>2 DEF Holds, Live
<1>9. QED
  BY <1>6, <1>7, <1>8, JobOrigin

\* Every step keeps what the calls of replaceLinkTags know.
LEMMA ReplHoldsStep ==
    ASSUME TypeInv, OwnerInv, [Next]_vars
    PROVE  ReplHolds'
<1>1. TypeInv' /\ repl \in [Reqs -> Repl]
  BY TypeStep DEF TypeInv, TypeOK, ReplTypeOK
<1>2. \A l \in LinkIds : \A u : Holds(l, u) => Holds(l, u)'
  BY HoldsStays
<1>3. tags \subseteq tags'
  BY TagsGrow
<1> SUFFICES ASSUME NEW r \in Reqs
             PROVE  /\ Replacing(r)' => Holds(repl[r].link, repl[r].user)'
                    /\ \A n \in Names : repl'[r].up[n] = "done" => TagOf(r, n)' \in tags'
  BY DEF ReplHolds
<1>4. CASE /\ repl'[r].user = repl[r].user
           /\ repl'[r].link = repl[r].link
           /\ Replacing(r)' => Replacing(r)
           /\ \A n \in Names :
                 repl'[r].up[n] = "done" => repl[r].up[n] = "done" \/ TagOf(r, n) \in tags'
  <2>1. ASSUME Replacing(r)'
        PROVE  Holds(repl[r].link, repl[r].user)'
    <3>1. Holds(repl[r].link, repl[r].user) /\ repl[r].link \in LinkIds
      BY <1>4, <2>1 DEF OwnerInv, ReplHolds, TypeInv, ReplArgsSet
    <3>2. QED
      BY <1>2, <1>4, <3>1 DEF Holds, Live
  <2>2. ASSUME NEW n \in Names, repl'[r].up[n] = "done"
        PROVE  TagOf(r, n)' \in tags'
    BY <1>3, <1>4, <2>2 DEF OwnerInv, ReplHolds, TagOf
  <2>3. QED
    BY <2>1, <2>2
<1>5. CASE repl' = [s \in Reqs |-> IdleRepl]
  BY <1>5 DEF IdleRepl, Replacing
<1>6. ASSUME NEW u \in Users, NEW l \in LinkIds, NEW raw, StartReplace(r, u, l, raw),
             Holds(l, u)
      PROVE  /\ Replacing(r)' => Holds(repl[r].link, repl[r].user)'
             /\ \A n \in Names : repl'[r].up[n] = "done" => TagOf(r, n)' \in tags'
  <2>1. /\ repl'[r].user = u
        /\ repl'[r].link = l
        /\ \A n \in Names : repl'[r].up[n] \in {"select", "none"}
    BY <1>1, <1>6 DEF StartReplace
  <2>2. Holds(l, u)'
    BY <1>2, <1>6
  <2>3. QED
    BY <2>1, <2>2 DEF Holds, Live
<1>7. ASSUME NEW u \in Users, NEW l \in LinkIds, PatchStarts(r, u, l)
      PROVE  /\ Replacing(r)' => Holds(repl[r].link, repl[r].user)'
             /\ \A n \in Names : repl'[r].up[n] = "done" => TagOf(r, n)' \in tags'
  <2>1. Holds(l, u)
    BY <1>7 DEF PatchStarts, Owned, Holds, Live, LinkStatus
  <2>2. QED
    BY <1>6, <1>7, <2>1 DEF PatchStarts
<1>8. CASE RunStarts(r)
  <2>1. /\ Holds(job[r].link, job[r].owner)
        /\ job[r].link \in LinkIds
        /\ job[r].owner \in Users
    BY <1>8 DEF RunStarts, OwnerInv, JobHolds, TypeInv, JobArgsSet, Running, Unsettled
  <2>2. QED
    BY <1>6, <1>8, <2>1 DEF RunStarts
<1>9. ASSUME NEW s \in Reqs, ReplStep(s)
      PROVE  /\ Replacing(r)' => Holds(repl[r].link, repl[r].user)'
             /\ \A n \in Names : repl'[r].up[n] = "done" => TagOf(r, n)' \in tags'
  BY <1>4, <1>9, ReplStepKeeps
<1>10. ASSUME NEW s \in Reqs, s # r, NEW u, NEW l, PatchStarts(s, u, l) \/ RunStarts(s)
       PROVE  repl'[r] = repl[r]
  BY <1>1, <1>10 DEF PatchStarts, RunStarts, StartReplace
<1>11. ASSUME repl'[r] = repl[r]
       PROVE  /\ Replacing(r)' => Holds(repl[r].link, repl[r].user)'
              /\ \A n \in Names : repl'[r].up[n] = "done" => TagOf(r, n)' \in tags'
  BY <1>4, <1>11 DEF Replacing
<1>12. QED
  BY <1>5, <1>7, <1>8, <1>9, <1>10, <1>11, ReplSteps

\* What a step does to the table TagsOnLinks: rows go, or a call adds its tags
\* to a link that is there.
LEMMA TagRowWrites ==
    ASSUME [Next]_vars
    PROVE  \/ tagsOnLinks' \subseteq tagsOnLinks
           \/ \E r \in Reqs :
                 /\ repl[r].pc = "create"
                 /\ Live(repl[r].link)
                 /\ UNCHANGED links
                 /\ tagsOnLinks' = tagsOnLinks \cup {<<repl[r].link, t>> : t \in NewTags(r)}
<1> DEFINE Goal == \/ tagsOnLinks' \subseteq tagsOnLinks
                   \/ \E r \in Reqs :
                         /\ repl[r].pc = "create"
                         /\ Live(repl[r].link)
                         /\ UNCHANGED links
                         /\ tagsOnLinks' = tagsOnLinks \cup
                                              {<<repl[r].link, t>> : t \in NewTags(r)}
<1>1. CASE UNCHANGED vars \/ Restart
  BY <1>1 DEF vars, tables, Restart
<1>2. ASSUME NEW r \in Reqs, Arrival(r) \/ HandlerStep(r)
      PROVE  Goal
  BY <1>2 DEF Arrival, Create, Update, Remove, Reprocess, Refused, HandlerStep,
              PatchTagsReplaced, PatchLink, DeleteLink, DeleteLinkRow, ResetLink,
              Launch, tables
<1>3. ASSUME NEW r \in Reqs, JobStep(r)
      PROVE  Goal
  <2>1. CASE Find(r) \/ UpdateReady(r) \/ KeepCrawled(r) \/ MarkFailed(r)
    BY <2>1 DEF Find, UpdateReady, KeepCrawled, MarkFailed
  <2>2. CASE Crawl(r) \/ ReadBody(r) \/ Summarize(r) \/ TagsReplaced(r)
    BY <2>2 DEF Crawl, ReadBody, CrawlFails, Summarize, TagsReplaced, tables
  <2>3. QED
    BY <1>3, <2>1, <2>2 DEF JobStep
<1>4. ASSUME NEW r \in Reqs, ReplStep(r)
      PROVE  Goal
  <2>1. ASSUME NEW n \in Names,
               UpsertSelect(r, n) \/ UpsertInsert(r, n) \/ UpsertRefind(r, n)
        PROVE  Goal
    BY <2>1 DEF UpsertSelect, UpsertInsert, UpsertRefind
  <2>2. CASE DeleteTagRows(r)
    BY <2>2 DEF DeleteTagRows, ReplGoesTo
  <2>3. CASE CreateTagRows(r)
    BY <2>3 DEF CreateTagRows, Succeeds, AnswerLost, ReplGoesTo
  <2>4. QED
    BY <1>4, <2>1, <2>2, <2>3 DEF ReplStep
<1>5. QED
  BY <1>1, <1>2, <1>3, <1>4 DEF Next, Step

\* Every step keeps the rows of TagsOnLinks sound.
LEMMA TagRowsStep ==
    ASSUME TypeInv, OwnerInv, [Next]_vars
    PROVE  TagRowsSound'
<1> SUFFICES ASSUME NEW p \in tagsOnLinks'
             PROVE  /\ Live(p[1])'
                    /\ p[2] \in tags'
                    /\ p[2][1] = links'[p[1]].userId
  BY DEF TagRowsSound, Live
<1>1. tags \subseteq tags' /\ tagsOnLinks \subseteq LinkIds \X Tag
  BY TagsGrow DEF TypeInv, TypeOK, TablesTypeOK
<1>2. CASE p \in tagsOnLinks
  <2>1. /\ Live(p[1]) /\ p[1] \in LinkIds
        /\ p[2] \in tags
        /\ p[2][1] = links[p[1]].userId
    BY <1>1, <1>2 DEF OwnerInv, TagRowsSound
  <2>2. ~DeleteLinkRow(p[1])
    BY DEF DeleteLinkRow
  <2>3. Live(p[1])' /\ links'[p[1]].userId = links[p[1]].userId
    BY <2>1, <2>2, RowFate DEF Live, LinkStatus
  <2>4. QED
    BY <1>1, <2>1, <2>3
<1>3. ASSUME NEW r \in Reqs,
             repl[r].pc = "create",
             Live(repl[r].link),
             UNCHANGED links,
             p \in {<<repl[r].link, t>> : t \in NewTags(r)}
      PROVE  /\ Live(p[1])'
             /\ p[2] \in tags'
             /\ p[2][1] = links'[p[1]].userId
  <2>1. Holds(repl[r].link, repl[r].user)
    BY <1>3 DEF OwnerInv, ReplHolds, Replacing
  <2>2. links[repl[r].link].userId = repl[r].user
    BY <1>3, <2>1 DEF Holds
  <2>3. PICK n \in Names : p = <<repl[r].link, TagOf(r, n)>> /\ repl[r].up[n] = "done"
    BY <1>3 DEF NewTags
  <2>4. TagOf(r, n) \in tags
    BY <2>3 DEF OwnerInv, ReplHolds
  <2>5. QED
    BY <1>1, <1>3, <2>2, <2>3, <2>4 DEF TagOf, Live
<1>4. QED
  BY <1>2, <1>3, TagRowWrites

\* Tenancy holds of every reachable state: whoever is acting on a link, and
\* every tag attached to it, belongs to its owner.
THEOREM OwnershipKept == Spec => []OwnerInv
<1>1. Init => OwnerInv
  <2> SUFFICES ASSUME Init PROVE OwnerInv
    OBVIOUS
  <2>1. ReqHolds
    BY DEF Init, NewRequest, ReqHolds, InHandler
  <2>2. JobHolds
    BY DEF Init, JobInit, NoJob, JobHolds, Running, Unsettled
  <2>3. ReplHolds
    BY DEF Init, ReplInit, IdleRepl, ReplHolds, Replacing
  <2>4. TagRowsSound
    BY DEF Init, TablesInit, TagRowsSound
  <2>5. QED
    BY <2>1, <2>2, <2>3, <2>4 DEF OwnerInv
<1>2. TypeInv /\ OwnerInv /\ [Next]_vars => OwnerInv'
  BY ReqHoldsStep, JobHoldsStep, ReplHoldsStep, TagRowsStep DEF OwnerInv
<1>3. QED
  BY <1>1, <1>2, TypeInvariant, PTL DEF Spec

\* Every attached tag exists and belongs to the owner of a link that exists.
THEOREM TagRowsAlwaysSound == Spec => []TagRowsSound
BY OwnershipKept, PTL DEF OwnerInv

\* Whoever passed an ownership check, or read the owner of a link, may rely on it
\* at every later statement.
THEOREM OwnerAlwaysValid == Spec => []OwnerStillValid
<1>1. OwnerInv => OwnerStillValid
  BY DEF OwnerInv, OwnerStillValid, ReqHolds, JobHolds, ReplHolds, Holds, Acting, InHandler
<1>2. QED
  BY <1>1, OwnershipKept, PTL

=============================================================================
