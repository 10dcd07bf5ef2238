------------------------- MODULE LinksStatusProofs -------------------------
(***************************************************************************)
(* Proofs that the columns of a link stay coherent and that a delete       *)
(* lasts, again for any number of users, links, requests, lost statements  *)
(* and restarts.                                                           *)
(***************************************************************************)
EXTENDS LinksServiceProofs

-----------------------------------------------------------------------------
(* Coherent columns.  FAILED is written with the reason a run carries, so  *)
(* the invariant must know what a run about to write it carries: a reason, *)
(* and after LLM_ERROR a link that still has the crawled title.            *)

\* Link l has been saved, and has a title unless it has been deleted.
Titled(l) ==
    /\ links[l].status # "unborn"
    /\ Live(l) => links[l].title # NULL

FailureGrounded ==
    \A r \in Reqs :
        job[r].pc = "markFailed" =>
            /\ job[r].reason \in FailReason
            /\ job[r].reason = "LLM_ERROR" => Titled(job[r].link)

StatusInv == StatusCoherent /\ FailureGrounded

\* What StatusCoherent says of one row.
Coherent(row) ==
    /\ (row.status = "FAILED") <=> (row.failReason # NULL)
    /\ row.status = "READY" => row.summary # NULL
    /\ row.failReason = "LLM_ERROR" => row.title # NULL

\* The rows that a run or a PATCH writes are coherent.
LEMMA WrittenCoherent ==
    ASSUME NEW row \in LinkRow, Coherent(row), NEW r \in Reqs
    PROVE  /\ Coherent(ReadyRow(row, r)) /\ ReadyRow(row, r).title # NULL
           /\ Coherent([row EXCEPT !.title = r]) /\ [row EXCEPT !.title = r].title # NULL
           /\ \A reason \in FailReason :
                 /\ (reason = "LLM_ERROR" => row.title # NULL) =>
                        Coherent(FailedRow(row, reason))
                 /\ FailedRow(row, reason).title = row.title
<1>1. r # NULL /\ NULL \notin FailReason
  BY TablesAssumption
<1>2. Coherent(ReadyRow(row, r)) /\ ReadyRow(row, r).title # NULL
  BY <1>1 DEF ReadyRow, LinkRow, Coherent, FailReason
<1>3. Coherent([row EXCEPT !.title = r]) /\ [row EXCEPT !.title = r].title # NULL
  BY <1>1 DEF LinkRow, Coherent
<1>4. ASSUME NEW reason \in FailReason
      PROVE  /\ (reason = "LLM_ERROR" => row.title # NULL) => Coherent(FailedRow(row, reason))
             /\ FailedRow(row, reason).title = row.title
  BY <1>1 DEF FailedRow, LinkRow, Coherent
<1>5. QED
  BY <1>2, <1>3, <1>4

\* The row reprocess writes is coherent, and keeps the title.
LEMMA PendingCoherent ==
    ASSUME NEW row \in LinkRow, Coherent(row)
    PROVE  Coherent(PendingRow(row)) /\ PendingRow(row).title = row.title
BY TablesAssumption DEF PendingRow, LinkRow, Coherent, FailReason

\* A new row and the mark of a deleted one are coherent.
LEMMA NewCoherent ==
    /\ Coherent(EmptyRow("deleted"))
    /\ \A u : Coherent([EmptyRow("PENDING") EXCEPT !.userId = u])
<1>1. NULL # "LLM_ERROR"
  BY TablesAssumption DEF FailReason
<1>2. QED
  BY <1>1 DEF EmptyRow, Coherent

\* A step keeps every row coherent, and a title, once there, stays.
LEMMA RowsStep ==
    ASSUME TypeInv, StatusInv, [Next]_vars, NEW l \in LinkIds
    PROVE  Coherent(links'[l]) /\ (Titled(l) => Titled(l)')
<1>1. /\ links \in [LinkIds -> LinkRow] /\ links[l] \in LinkRow
      /\ Coherent(links[l])
  BY DEF TypeInv, TypeOK, TablesTypeOK, StatusInv, StatusCoherent, Coherent
<1>2. CASE UNCHANGED links
  BY <1>1, <1>2 DEF Titled, Live
<1>3. ASSUME NEW k \in LinkIds, NEW u \in Users,
             links[k].status = "unborn", InsertLink(k, u)
      PROVE  Coherent(links'[l]) /\ (Titled(l) => Titled(l)')
  <2> DEFINE row == [EmptyRow("PENDING") EXCEPT !.userId = u]
  <2>1. links' = [links EXCEPT ![k] = row] /\ Coherent(row)
    BY <1>3, NewCoherent DEF InsertLink
  <2> HIDE DEF row
  <2>2. QED
    BY <1>1, <1>3, <2>1 DEF Titled, Live
<1>4. ASSUME NEW k \in LinkIds, Live(k), Writes(k)
      PROVE  Coherent(links'[l]) /\ (Titled(l) => Titled(l)')
  <2>1. CASE k # l
    <3>1. links'[l] = links[l]
      BY <1>1, <1>4, <2>1 DEF Writes, DeleteLinkRow
    <3>2. QED
      BY <1>1, <3>1 DEF Titled, Live
  <2>2. ASSUME k = l, NEW row, links' = [links EXCEPT ![l] = row], Coherent(row),
               row.status # "unborn",
               row.status \in LinkStatus /\ links[l].title # NULL => row.title # NULL
        PROVE  Coherent(links'[l]) /\ (Titled(l) => Titled(l)')
    <3>1. links'[l] = row
      BY <1>1, <2>2
    <3>2. QED
      BY <1>4, <2>2, <3>1 DEF Titled, Live
  <2>3. ASSUME k = l, NEW r \in Reqs, links' = [links EXCEPT ![l] = ReadyRow(@, r)]
        PROVE  Coherent(links'[l]) /\ (Titled(l) => Titled(l)')
    BY <1>1, <2>2, <2>3, WrittenCoherent, ReadyRowIs
  <2>4. ASSUME k = l, NEW r \in Reqs, job[r].pc = "markFailed", job[r].link = l,
               links' = [links EXCEPT ![l] = FailedRow(@, job[r].reason)]
        PROVE  Coherent(links'[l]) /\ (Titled(l) => Titled(l)')
    <3>1. /\ job[r].reason \in FailReason
          /\ job[r].reason = "LLM_ERROR" => links[l].title # NULL
      BY <1>4, <2>4 DEF StatusInv, FailureGrounded, Titled
    <3>2. /\ Coherent(FailedRow(links[l], job[r].reason))
          /\ FailedRow(links[l], job[r].reason).title = links[l].title
          /\ FailedRow(links[l], job[r].reason).status = "FAILED"
      BY <1>1, <3>1, WrittenCoherent, FailedRowIs
    <3>3. QED
      BY <1>1, <2>2, <2>4, <3>2
  <2>5. ASSUME k = l, NEW r \in Reqs, links' = [links EXCEPT ![l].title = r]
        PROVE  Coherent(links'[l]) /\ (Titled(l) => Titled(l)')
    <3> DEFINE row == [links[l] EXCEPT !.title = r]
    <3>1. links' = [links EXCEPT ![l] = row] /\ row.status = links[l].status
      BY <1>1, <2>5 DEF LinkRow
    <3>2. Coherent(row) /\ row.title # NULL
      BY <1>1, WrittenCoherent
    <3> HIDE DEF row
    <3>3. QED
      BY <1>4, <2>2, <2>5, <3>1, <3>2 DEF Live, LinkStatus
  <2>6. ASSUME k = l, links' = [links EXCEPT ![l] = PendingRow(@)]
        PROVE  Coherent(links'[l]) /\ (Titled(l) => Titled(l)')
    <3>1. Coherent(PendingRow(links[l])) /\ PendingRow(links[l]).title = links[l].title
      BY <1>1, PendingCoherent
    <3>2. PendingRow(links[l]).status = "PENDING"
      BY <1>1, PendingRowIs
    <3>3. QED
      BY <1>1, <2>2, <2>6, <3>1, <3>2
  <2>7. ASSUME k = l, DeleteLinkRow(l)
        PROVE  Coherent(links'[l]) /\ (Titled(l) => Titled(l)')
    <3>1. links' = [links EXCEPT ![l] = EmptyRow("deleted")] /\ EmptyRow("deleted").status = "deleted"
      BY <2>7 DEF DeleteLinkRow, EmptyRow
    <3>2. QED
      BY <2>2, <2>7, <3>1, NewCoherent DEF LinkStatus
  <2>8. QED
    BY <1>4, <2>1, <2>3, <2>4, <2>5, <2>6, <2>7 DEF Writes
<1>5. QED
  BY <1>2, <1>3, <1>4, LinkWrites

\* How a run comes to be about to mark its link failed.
LEMMA FailureOrigin ==
    ASSUME TypeInv, [Next]_vars, NEW r \in Reqs, job'[r].pc = "markFailed"
    PROVE  \/ /\ job[r].pc = "markFailed"
              /\ job'[r].link = job[r].link
              /\ job'[r].reason = job[r].reason
           \/ job'[r].reason = "CRAWL_ERROR"
           \/ /\ job'[r].reason = "LLM_ERROR"
              /\ job[r].pc = "keep"
              /\ job'[r].link = job[r].link
              /\ Live(job[r].link)
              /\ links' = [links EXCEPT ![job[r].link].title = r]
<1> DEFINE Goal == \/ /\ job[r].pc = "markFailed"
                      /\ job'[r].link = job[r].link
                      /\ job'[r].reason = job[r].reason
                   \/ job'[r].reason = "CRAWL_ERROR"
                   \/ /\ job'[r].reason = "LLM_ERROR"
                      /\ job[r].pc = "keep"
                      /\ job'[r].link = job[r].link
                      /\ Live(job[r].link)
                      /\ links' = [links EXCEPT ![job[r].link].title = r]
<1>1. job \in [Reqs -> Job]
  BY DEF TypeInv, TypeOK, JobTypeOK
<1>2. CASE UNCHANGED job
  BY <1>2
<1>3. CASE Restart
  <2>1. CASE job[r].pc \in Running
    BY <1>1, <1>3, <2>1 DEF Restart, Job
  <2>2. CASE job[r].pc \notin Running
    BY <1>3, <2>2 DEF Restart
  <2>3. QED
    BY <2>1, <2>2
<1>4. ASSUME NEW s \in Reqs, HandlerStep(s)
      PROVE  Goal
  <2>1. CASE Launch(s)
    <3> DEFINE j == [NoJob EXCEPT !.pc = "find", !.link = req[s].link]
    <3>1. j.pc = "find"
      BY DEF NoJob
    <3>2. job' = [job EXCEPT ![s] = j]
      BY <2>1 DEF Launch, StartEnrich
    <3> HIDE DEF j
    <3>3. QED
      BY <1>1, <3>1, <3>2
  <2>2. CASE ~Launch(s)
    BY <1>2, <1>4, <2>2 DEF HandlerStep, PatchTagsReplaced, PatchLink, DeleteLink, ResetLink
  <2>3. QED
    BY <2>1, <2>2
<1>5. ASSUME NEW s \in Reqs, JobStep(s), s # r
      PROVE  Goal
  BY <1>1, <1>2, <1>5, OneJob
<1>6. CASE JobStep(r)
  <2>1. CASE Find(r)
    <3>1. \/ job' = [job EXCEPT ![r].pc = "crawl", ![r].owner = JobRow(r).userId]
          \/ job' = [job EXCEPT ![r].pc = "resolved"]
          \/ job' = [job EXCEPT ![r].pc = "rejected"]
      BY <2>1 DEF Find, JobGoesTo
    <3>2. job'[r].pc \in {"crawl", "resolved", "rejected"}
      BY <1>1, <3>1 DEF Job
    <3>3. QED
      BY <3>2
  <2>2. CASE Crawl(r) \/ ReadBody(r)
    BY <1>1, <2>2 DEF Crawl, ReadBody, CrawlFails, JobGoesTo, Job
  <2>3. CASE Summarize(r)
    BY <1>1, <2>3 DEF Summarize, JobGoesTo, Job
  <2>4. CASE UpdateReady(r) \/ TagsReplaced(r) \/ MarkFailed(r)
    BY <1>1, <2>4 DEF UpdateReady, TagsReplaced, MarkFailed, JobGoesTo, Job
  <2>5. CASE KeepCrawled(r)
    BY <1>1, <2>5 DEF KeepCrawled, JobGoesTo, Job, Succeeds, AnswerLost
  <2>6. QED
    BY <1>6, <2>1, <2>2, <2>3, <2>4, <2>5 DEF JobStep
<1>7. ASSUME NEW s \in Reqs, Arrival(s)
      PROVE  UNCHANGED job
  BY <1>7 DEF Arrival, Create, Update, Remove, Reprocess
<1>8. QED
  BY <1>2, <1>3, <1>4, <1>5, <1>6, <1>7 DEF Next, Step, vars

\* Every step keeps what is known of a run about to mark its link failed.
LEMMA FailureStep ==
    ASSUME TypeInv, StatusInv, [Next]_vars
    PROVE  FailureGrounded'
<1> SUFFICES ASSUME NEW r \in Reqs, job'[r].pc = "markFailed"
             PROVE  /\ job'[r].reason \in FailReason
                    /\ job'[r].reason = "LLM_ERROR" => Titled(job[r].link)'
  BY DEF FailureGrounded
<1>1. job'[r].link \in LinkIds
  BY TypeStep DEF TypeInv, JobArgsSet, Running, Unsettled
<1>2. CASE /\ job[r].pc = "markFailed"
           /\ job'[r].link = job[r].link
           /\ job'[r].reason = job[r].reason
  <2>1. Titled(job[r].link) => links'[job[r].link].status # "unborn" /\
                               (links'[job[r].link].status \in LinkStatus =>
                                   links'[job[r].link].title # NULL)
    BY <1>1, <1>2, RowsStep DEF Titled, Live
  <2>2. QED
    BY <1>2, <2>1 DEF StatusInv, FailureGrounded, Titled, Live
<1>3. CASE job'[r].reason = "CRAWL_ERROR"
  BY <1>3 DEF FailReason
<1>4. CASE /\ job'[r].reason = "LLM_ERROR"
           /\ job[r].pc = "keep"
           /\ job'[r].link = job[r].link
           /\ Live(job[r].link)
           /\ links' = [links EXCEPT ![job[r].link].title = r]
  <2>1. links \in [LinkIds -> LinkRow] /\ r # NULL
    BY TablesAssumption DEF TypeInv, TypeOK, TablesTypeOK
  <2>2. /\ links'[job[r].link].title = r
        /\ links'[job[r].link].status = links[job[r].link].status
    BY <1>1, <1>4, <2>1 DEF LinkRow
  <2>3. QED
    BY <1>4, <2>1, <2>2 DEF Titled, Live, LinkStatus, FailReason
<1>5. QED
  BY <1>2, <1>3, <1>4, FailureOrigin

\* The columns of every link tell one story, and every run that is about to
\* mark a link failed has what it takes to keep it so.
THEOREM ColumnsCoherent == Spec => []StatusInv
<1>1. Init => StatusInv
  <2> SUFFICES ASSUME Init PROVE StatusInv
    OBVIOUS
  <2>1. StatusCoherent
    BY TablesAssumption DEF Init, TablesInit, EmptyRow, StatusCoherent, FailReason
  <2>2. FailureGrounded
    BY DEF Init, JobInit, NoJob, FailureGrounded
  <2>3. QED
    BY <2>1, <2>2 DEF StatusInv
<1>2. TypeInv /\ StatusInv /\ [Next]_vars => StatusInv'
  <2> SUFFICES ASSUME TypeInv, StatusInv, [Next]_vars PROVE StatusInv'
    OBVIOUS
  <2>1. \A l \in LinkIds : Coherent(links'[l])
    BY RowsStep
  <2>2. StatusCoherent'
    BY <2>1 DEF StatusCoherent, Coherent
  <2>3. QED
    BY <2>2, FailureStep DEF StatusInv
<1>3. QED
  BY <1>1, <1>2, TypeInvariant, PTL DEF Spec

\* Status, reason, title and summary of a link agree, whatever runs overlap.
THEOREM StatusAlwaysCoherent == Spec => []StatusCoherent
BY ColumnsCoherent, PTL DEF StatusInv

-----------------------------------------------------------------------------
(* Deletes.  An answer 204 comes with the deletion of a live row, in one   *)
(* step, and no row comes back.                                            *)

DeleteInv ==
    /\ DeletedForGood
    /\ \A r \in Reqs : req[r].code = "204" => req[r].link \in LinkIds

\* A request answered 204 was answered before, or deletes its link now.
LEMMA DeleteOrigin ==
    ASSUME TypeInv, [Next]_vars, NEW r \in Reqs, req'[r].code = "204"
    PROVE  \/ req[r].code = "204" /\ req'[r].link = req[r].link
           \/ /\ req'[r].link = req[r].link
              /\ req[r].link \in LinkIds
              /\ Live(req[r].link)
              /\ DeleteLinkRow(req[r].link)
              /\ \A s \in Reqs \ {r} : req'[s] = req[s]
<1> DEFINE Goal == \/ req[r].code = "204" /\ req'[r].link = req[r].link
                   \/ /\ req'[r].link = req[r].link
                      /\ req[r].link \in LinkIds
                      /\ Live(req[r].link)
                      /\ DeleteLinkRow(req[r].link)
                      /\ \A s \in Reqs \ {r} : req'[s] = req[s]
<1>1. req \in [Reqs -> Request]
  BY DEF TypeInv, TypeOK
<1>2. CASE UNCHANGED req
  BY <1>2
<1>3. CASE Restart
  <2>1. CASE req[r].pc \in InHandler
    BY <1>1, <1>3, <2>1 DEF Restart, Request
  <2>2. CASE req[r].pc \notin InHandler
    BY <1>3, <2>2 DEF Restart
  <2>3. QED
    BY <2>1, <2>2
<1>4. ASSUME NEW s \in Reqs, Arrival(s) \/ HandlerStep(s), s # r
      PROVE  Goal
  BY <1>1, <1>4, OneRequest
<1>5. CASE Arrival(r)
  <2>1. ASSUME NEW op, NEW u, NEW l, NEW title, NEW pc, Arrive(r, op, u, l, title, pc)
        PROVE  req'[r].code = NULL
    BY <1>1, <2>1 DEF Arrive, NewRequest
  <2>2. ASSUME NEW op, NEW u, NEW l, NEW code, Refuse(r, op, u, l, code)
        PROVE  req'[r].code = code
    BY <1>1, <2>2 DEF Refuse, NewRequest
  <2>3. NULL # "204"
    BY ServiceAssumption DEF Code
  <2>4. ASSUME NEW op, NEW u, NEW l, Refused(r, op, u, l)
        PROVE  req'[r].code # "204"
    BY <2>2, <2>4 DEF Refused, RefusalCode
  <2>5. QED
    BY <1>5, <2>1, <2>2, <2>3, <2>4 DEF Arrival, Create, Update, Remove, Reprocess
<1>6. CASE DeleteLink(r)
  <2>1. req[r].link \in LinkIds
    BY <1>6 DEF DeleteLink, TypeInv, ReqArgsSet, InHandler
  <2>2. QED
    BY <1>1, <1>6, <2>1 DEF DeleteLink, Answer, Request, Succeeds, AnswerLost
<1>7. CASE PatchTagsReplaced(r) \/ PatchLink(r) \/ ResetLink(r) \/ Launch(r)
  BY <1>1, <1>7 DEF PatchTagsReplaced, PatchLink, ResetLink, Launch, ReqGoesTo, Answer,
                    Request
<1>8. QED
  BY <1>2, <1>3, <1>4, <1>5, <1>6, <1>7 DEF Next, Step, HandlerStep, vars

\* The inductive form: also, an answer 204 names a link.
THEOREM DeletedAlwaysForGood == Spec => []DeleteInv
<1>1. Init => DeleteInv
  BY ServiceAssumption DEF Init, NewRequest, DeleteInv, DeletedForGood, Code
<1>2. TypeInv /\ DeleteInv /\ [Next]_vars => DeleteInv'
  <2> SUFFICES ASSUME TypeInv, DeleteInv, [Next]_vars PROVE DeleteInv'
    OBVIOUS
  <2>1. \A l \in LinkIds : links[l].status = "deleted" => links'[l].status = "deleted"
    BY RowFate DEF Live, LinkStatus
  <2>2. \A l \in LinkIds : DeleteLinkRow(l) => links'[l].status = "deleted"
    BY DEF DeleteLinkRow, EmptyRow, TypeInv, TypeOK, TablesTypeOK
  <2>3. ASSUME NEW r \in Reqs, req'[r].code = "204"
        PROVE  req'[r].link \in LinkIds /\ links'[req'[r].link].status = "deleted"
    BY <2>1, <2>2, <2>3, DeleteOrigin DEF DeleteInv, DeletedForGood
  <2>4. ASSUME NEW r \in Reqs, NEW s \in Reqs, r # s,
               req'[r].code = "204", req'[s].code = "204"
        PROVE  req'[r].link # req'[s].link
    <3>1. ASSUME NEW p \in Reqs, NEW q \in Reqs, p # q,
                 req'[p].code = "204",
                 req'[q].link = req[q].link, req[q].link \in LinkIds, Live(req[q].link),
                 \A x \in Reqs \ {q} : req'[x] = req[x]
          PROVE  req'[p].link # req'[q].link
      BY <3>1 DEF DeleteInv, DeletedForGood, Live, LinkStatus
    <3>2. CASE /\ req[r].code = "204" /\ req'[r].link = req[r].link
               /\ req[s].code = "204" /\ req'[s].link = req[s].link
      BY <2>4, <3>2 DEF DeleteInv, DeletedForGood
    <3>3. QED
      BY <2>4, <3>1, <3>2, DeleteOrigin
  <2>5. QED
    BY <2>3, <2>4 DEF DeleteInv, DeletedForGood
<1>3. QED
  BY <1>1, <1>2, TypeInvariant, PTL DEF Spec

\* At most one DELETE of a link is answered 204, and the link stays away.
THEOREM DeletesLast == Spec => []DeletedForGood
BY DeletedAlwaysForGood, PTL DEF DeleteInv

=============================================================================
