------------------------- MODULE LinksPendingProofs -------------------------
(***************************************************************************)
(* Proofs about links that are PENDING, for any number of overlapping      *)
(* runs: without faults there is always a request or run that will still   *)
(* write the status, and with faults one was lost to them.                 *)
(***************************************************************************)
EXTENDS LinksServiceProofs

\* A request that has not been answered has launched no run, so a launch never
\* overwrites one.
LaunchesOnce == \A r \in Reqs : req[r].pc # "done" => job[r].pc = "none"

PendingInv == LaunchesOnce /\ PendingHasRun

-----------------------------------------------------------------------------
(* Which steps change a request, and which a run.                          *)

\* What a step does to one request.
LEMMA ReqMoves ==
    ASSUME TypeInv, [Next]_vars, NEW r \in Reqs
    PROVE  \/ req'[r] = req[r]
           \/ /\ Restart /\ req[r].pc \in InHandler
              /\ req'[r].pc = "done" /\ req'[r].code = "dropped"
              /\ req'[r].op = req[r].op /\ req'[r].link = req[r].link
           \/ Arrival(r)
           \/ HandlerStep(r)
<1>1. req \in [Reqs -> Request]
  BY DEF TypeInv, TypeOK
<1>2. CASE UNCHANGED req
  BY <1>2
<1>3. CASE Restart
  <2>1. CASE req[r].pc \in InHandler
    <3>1. req'[r] = [req[r] EXCEPT !.pc = "done", !.code = "dropped"]
      BY <1>3, <2>1 DEF Restart
    <3>2. QED
      BY <1>1, <1>3, <2>1, <3>1 DEF Request
  <2>2. CASE req[r].pc \notin InHandler
    BY <1>3, <2>2 DEF Restart
  <2>3. QED
    BY <2>1, <2>2
<1>4. ASSUME NEW s \in Reqs, Arrival(s) \/ HandlerStep(s), s # r
      PROVE  req'[r] = req[r]
  BY <1>1, <1>4, OneRequest
<1>5. QED
  BY <1>2, <1>3, <1>4 DEF Next, Step, vars

\* What a step does to one run.
LEMMA JobMoves ==
    ASSUME TypeInv, [Next]_vars, NEW r \in Reqs
    PROVE  \/ job'[r] = job[r]
           \/ /\ Restart /\ job[r].pc \in Running
              /\ job'[r].pc = "killed" /\ job'[r].link = job[r].link
           \/ Launch(r)
           \/ JobStep(r)
<1>1. job \in [Reqs -> Job]
  BY DEF TypeInv, TypeOK, JobTypeOK
<1>2. CASE UNCHANGED job
  BY <1>2
<1>3. CASE Restart
  <2>1. CASE job[r].pc \in Running
    <3>1. job'[r] = [job[r] EXCEPT !.pc = "killed"]
      BY <1>3, <2>1 DEF Restart
    <3>2. QED
      BY <1>1, <1>3, <2>1, <3>1 DEF Job
  <2>2. CASE job[r].pc \notin Running
    BY <1>3, <2>2 DEF Restart
  <2>3. QED
    BY <2>1, <2>2
<1>4. ASSUME NEW s \in Reqs, Launch(s), s # r
      PROVE  job'[r] = job[r]
  BY <1>1, <1>4 DEF Launch, StartEnrich
<1>5. ASSUME NEW s \in Reqs, JobStep(s), s # r
      PROVE  job'[r] = job[r]
  BY <1>1, <1>5, OneJob
<1>6. ASSUME NEW s \in Reqs, Arrival(s) \/ HandlerStep(s), ~Launch(s)
      PROVE  UNCHANGED job
  BY <1>6 DEF Arrival, Create, Update, Remove, Reprocess, HandlerStep, PatchTagsReplaced,
              PatchLink, DeleteLink, ResetLink
<1>7. QED
  BY <1>2, <1>3, <1>4, <1>5, <1>6 DEF Next, Step, vars

\* Once it has arrived, a request is never new again and keeps its arguments.
LEMMA ArgsStay ==
    ASSUME TypeInv, [Next]_vars, NEW r \in Reqs, req[r].pc # "new"
    PROVE  /\ req'[r].pc # "new"
           /\ req'[r].op = req[r].op
           /\ req'[r].user = req[r].user
           /\ req'[r].link = req[r].link
<1> DEFINE Goal == /\ req'[r].pc # "new"
                   /\ req'[r].op = req[r].op
                   /\ req'[r].user = req[r].user
                   /\ req'[r].link = req[r].link
<1>1. req \in [Reqs -> Request]
  BY DEF TypeInv, TypeOK
<1>2. CASE UNCHANGED req
  BY <1>2
<1>3. CASE Restart
  <2>1. CASE req[r].pc \in InHandler
    <3>1. req'[r] = [req[r] EXCEPT !.pc = "done", !.code = "dropped"]
      BY <1>3, <2>1 DEF Restart
    <3>2. QED
      BY <1>1, <3>1 DEF Request
  <2>2. CASE req[r].pc \notin InHandler
    BY <1>3, <2>2 DEF Restart
  <2>3. QED
    BY <2>1, <2>2
<1>4. ASSUME NEW s \in Reqs, Arrival(s) \/ HandlerStep(s), s # r
      PROVE  req'[r] = req[r]
  BY <1>1, <1>4, OneRequest
<1>5. ~Arrival(r)
  BY DEF Arrival, Create, Update, Remove, Reprocess
<1>6. CASE HandlerStep(r)
  <2>1. ASSUME NEW pc, pc # "new", ReqGoesTo(r, pc)
        PROVE  Goal
    BY <1>1, <2>1 DEF ReqGoesTo, Request
  <2>2. ASSUME NEW code, Answer(r, code)
        PROVE  Goal
    BY <1>1, <2>2 DEF Answer, Request
  <2>3. QED
    BY <1>6, <2>1, <2>2 DEF HandlerStep, PatchTagsReplaced, PatchLink, DeleteLink, ResetLink,
                            Launch
<1>7. QED
  BY <1>2, <1>3, <1>4, <1>5, <1>6 DEF Next, Step, vars

\* A request leaves "new" or a handler's step only by a step of its own, and is
\* never new again.
LEMMA NotDone ==
    ASSUME TypeInv, [Next]_vars, NEW r \in Reqs, req'[r].pc # "done"
    PROVE  req[r].pc # "done"
<1>1. req \in [Reqs -> Request]
  BY DEF TypeInv, TypeOK
<1>2. CASE UNCHANGED req
  BY <1>2
<1>3. CASE Restart
  BY <1>1, <1>3 DEF Restart, Request, InHandler
<1>4. ASSUME NEW s \in Reqs, Arrival(s) \/ HandlerStep(s), s # r
      PROVE  req[r].pc # "done"
  BY <1>1, <1>4, OneRequest
<1>5. CASE Arrival(r) \/ HandlerStep(r)
  BY <1>5 DEF Arrival, Create, Update, Remove, Reprocess, HandlerStep, PatchTagsReplaced,
              PatchLink, DeleteLink, ResetLink, Launch
<1>6. QED
  BY <1>2, <1>3, <1>4, <1>5 DEF Next, Step, vars

\* A run that has not been launched is only touched by its launch, which
\* answers its request.
LEMMA NoRunYet ==
    ASSUME TypeInv, [Next]_vars, NEW r \in Reqs, job[r].pc = "none", req'[r].pc # "done"
    PROVE  job'[r].pc = "none"
<1>1. job \in [Reqs -> Job] /\ req \in [Reqs -> Request]
  BY DEF TypeInv, TypeOK, JobTypeOK
<1>2. CASE UNCHANGED job
  BY <1>2
<1>3. CASE Restart
  BY <1>3 DEF Restart, Running, Unsettled
<1>4. ASSUME NEW s \in Reqs, Launch(s), s # r
      PROVE  job'[r].pc = "none"
  BY <1>1, <1>4 DEF Launch, StartEnrich
<1>5. CASE Launch(r)
  BY <1>1, <1>5 DEF Launch, Answer, Request
<1>6. ASSUME NEW s \in Reqs, JobStep(s)
      PROVE  job'[r].pc = "none"
  <2>1. CASE s = r
    BY <1>6, <2>1 DEF JobStep, Find, Crawl, ReadBody, CrawlFails, Summarize, UpdateReady, TagsReplaced,
                      KeepCrawled, MarkFailed
  <2>2. CASE s # r
    BY <1>1, <1>6, <2>2, OneJob
  <2>3. QED
    BY <2>1, <2>2
<1>7. ASSUME NEW s \in Reqs, Arrival(s) \/ PatchTagsReplaced(s) \/ PatchLink(s)
                             \/ DeleteLink(s) \/ ResetLink(s)
      PROVE  UNCHANGED job
  BY <1>7 DEF Arrival, Create, Update, Remove, Reprocess, PatchTagsReplaced, PatchLink,
              DeleteLink, ResetLink
<1>8. QED
  BY <1>2, <1>3, <1>4, <1>5, <1>6, <1>7 DEF Next, Step, HandlerStep, vars

\* A step loses one statement at most.
LEMMA ErrorsGrow ==
    ASSUME [Next]_vars
    PROVE  UNCHANGED dbErrors \/ dbErrors' = dbErrors + 1
<1>1. CASE UNCHANGED vars \/ Restart
  BY <1>1 DEF vars, tables, Restart
<1>2. ASSUME NEW r \in Reqs, Arrival(r)
      PROVE  UNCHANGED dbErrors \/ dbErrors' = dbErrors + 1
  <2>1. CASE \E u \in Users : Create(r, u)
    BY <2>1 DEF Create, Succeeds, Throws, AnswerLost
  <2>2. CASE \E u \in Users, l \in LinkIds, title \in BOOLEAN : Update(r, u, l, title)
    BY <2>2 DEF Update, Refused, Succeeds, Throws
  <2>3. CASE \E u \in Users, l \in LinkIds : Remove(r, u, l) \/ Reprocess(r, u, l)
    BY <2>3 DEF Remove, Reprocess, Refused, Succeeds, Throws
  <2>4. QED
    BY <1>2, <2>1, <2>2, <2>3 DEF Arrival
<1>3. ASSUME NEW r \in Reqs, HandlerStep(r)
      PROVE  UNCHANGED dbErrors \/ dbErrors' = dbErrors + 1
  BY <1>3 DEF HandlerStep, PatchTagsReplaced, PatchLink, DeleteLink, ResetLink, Launch,
              tables, Succeeds, Throws, AnswerLost
<1>4. ASSUME NEW r \in Reqs, JobStep(r)
      PROVE  UNCHANGED dbErrors \/ dbErrors' = dbErrors + 1
  BY <1>4 DEF JobStep, Find, Crawl, ReadBody, CrawlFails, Summarize, UpdateReady,
              TagsReplaced, KeepCrawled, MarkFailed, tables, Succeeds, Throws, AnswerLost
<1>5. ASSUME NEW r \in Reqs, ReplStep(r)
      PROVE  UNCHANGED dbErrors \/ dbErrors' = dbErrors + 1
  BY <1>5 DEF ReplStep, UpsertSelect, UpsertInsert, UpsertRefind, DeleteTagRows,
              CreateTagRows, Succeeds, Throws, AnswerLost, ReplGoesTo
<1>6. QED
  BY <1>1, <1>2, <1>3, <1>4, <1>5 DEF Next, Step

\* Only a restart is counted as one.
LEMMA RestartsGrow ==
    ASSUME [Next]_vars, ~Restart
    PROVE  UNCHANGED restarts
<1>1. ASSUME NEW r \in Reqs, Arrival(r)
      PROVE  UNCHANGED restarts
  BY <1>1 DEF Arrival, Create, Update, Remove, Reprocess
<1>2. ASSUME NEW r \in Reqs, HandlerStep(r)
      PROVE  UNCHANGED restarts
  BY <1>2 DEF HandlerStep, PatchTagsReplaced, PatchLink, DeleteLink, ResetLink, Launch
<1>3. QED
  BY <1>1, <1>2 DEF Next, Step, vars

\* Every fault is counted, and the counters never go back.
LEMMA FaultsCount ==
    ASSUME TypeInv, [Next]_vars
    PROVE  /\ Restart \/ restarts > 0 => restarts' > 0
           /\ Throws(FALSE) \/ dbErrors > 0 => dbErrors' > 0
<1>1. restarts \in Nat /\ dbErrors \in Nat
  BY TablesAssumption, ServiceAssumption DEF TypeInv, TypeOK, TablesTypeOK
<1>2. Restart => restarts' = restarts + 1
  BY DEF Restart
<1>3. UNCHANGED restarts \/ Restart
  BY RestartsGrow
<1>4. UNCHANGED dbErrors \/ dbErrors' = dbErrors + 1
  BY ErrorsGrow
<1>5. Restart \/ restarts > 0 => restarts' > 0
  BY <1>1, <1>2, <1>3
<1>6. Throws(FALSE) \/ dbErrors > 0 => dbErrors' > 0
  BY <1>1, <1>4 DEF Throws
<1>7. QED
  BY <1>5, <1>6

\* A fault leaves its mark.
LEMMA FaultsStay ==
    ASSUME TypeInv, [Next]_vars, Undisturbed'
    PROVE  Undisturbed /\ ~Restart /\ ~Throws(FALSE)
<1>1. restarts \in Nat /\ dbErrors \in Nat
  BY TablesAssumption, ServiceAssumption DEF TypeInv, TypeOK, TablesTypeOK
<1>2. dbErrors' = 0 /\ restarts' = 0
  BY DEF Undisturbed
<1>3. ~Restart
  <2>1. Restart => restarts' = restarts + 1
    BY DEF Restart
  <2>2. QED
    BY <1>1, <1>2, <2>1
<1>4. ~Throws(FALSE)
  BY <1>1, <1>2 DEF Throws
<1>5. UNCHANGED restarts
  BY <1>3, RestartsGrow
<1>6. UNCHANGED dbErrors \/ dbErrors' = dbErrors + 1
  BY ErrorsGrow
<1>7. dbErrors = 0 /\ restarts = 0
  BY <1>1, <1>2, <1>5, <1>6
<1>8. Undisturbed
  BY <1>7 DEF Undisturbed
<1>9. QED
  BY <1>3, <1>4, <1>8

-----------------------------------------------------------------------------
(* What r owes a PENDING link stays owed until it is paid.                 *)

\* Request r has made link l PENDING and is not told so: it answers 500.
Untold(r, l) ==
    /\ Throws(FALSE)
    /\ req'[r].link = l /\ req'[r].code = "500"
    /\ req'[r].op = "create" \/ req[r].pc = "reset"

\* A link that was not PENDING becomes so by a step that owes it a run, or
\* whose answer is lost.
LEMMA NewlyPending ==
    ASSUME TypeInv, [Next]_vars, NEW l \in LinkIds,
           links[l].status # "PENDING", links'[l].status = "PENDING"
    PROVE  \E r \in Reqs : (req'[r].pc = "launch" /\ req'[r].link = l) \/ Untold(r, l)
<1> DEFINE Goal(r) == (req'[r].pc = "launch" /\ req'[r].link = l) \/ Untold(r, l)
<1>1. /\ links \in [LinkIds -> LinkRow] /\ links[l] \in LinkRow
      /\ req \in [Reqs -> Request]
  BY DEF TypeInv, TypeOK, TablesTypeOK
<1>2. ASSUME NEW r \in Reqs, NEW u \in Users, Create(r, u)
      PROVE  Goal(r)
  <2>1. PICK k \in LinkIds :
            /\ InsertLink(k, u)
            /\ \/ Arrive(r, "create", u, k, FALSE, "launch")
               \/ AnswerLost(TRUE) /\ Refuse(r, "create", u, k, "500")
    BY <1>2 DEF Create
  <2>2. k = l
    BY <1>1, <2>1 DEF InsertLink
  <2>3. CASE Arrive(r, "create", u, l, FALSE, "launch")
    BY <1>1, <2>3 DEF Arrive, NewRequest
  <2>4. CASE AnswerLost(TRUE) /\ Refuse(r, "create", u, l, "500")
    <3>1. Throws(FALSE)
      BY <2>4 DEF AnswerLost, Throws
    <3>2. req'[r].link = l /\ req'[r].code = "500" /\ req'[r].op = "create"
      BY <1>1, <2>4 DEF Refuse, NewRequest
    <3>3. QED
      BY <3>1, <3>2 DEF Untold
  <2>5. QED
    BY <2>1, <2>2, <2>3, <2>4
<1>3. ASSUME NEW r \in Reqs, ResetLink(r)
      PROVE  Goal(r)
  <2> DEFINE lost == AnswerLost(Live(req[r].link)) /\ Answer(r, "500")
  <2>1. req[r].link = l /\ (ReqGoesTo(r, "launch") \/ lost)
    BY <1>1, <1>3 DEF ResetLink
  <2>2. CASE ReqGoesTo(r, "launch")
    BY <1>1, <2>1, <2>2 DEF ReqGoesTo, Request
  <2>3. CASE lost
    <3>1. Throws(FALSE)
      BY <2>3 DEF AnswerLost, Throws
    <3>2. req'[r].link = l /\ req'[r].code = "500"
      BY <1>1, <2>1, <2>3 DEF Answer, Request
    <3>3. QED
      BY <1>3, <3>1, <3>2 DEF Untold, ResetLink
  <2>4. QED
    BY <2>1, <2>2, <2>3
<1>4. ASSUME NEW r \in Reqs, JobStep(r)
      PROVE  FALSE
  <2>1. CASE UpdateReady(r)
    <3>1. ReadyRow(links[l], r).status = "READY"
      BY <1>1, ReadyRowIs
    <3>2. QED
      BY <1>1, <2>1, <3>1 DEF UpdateReady
  <2>2. CASE KeepCrawled(r)
    BY <1>1, <2>2 DEF KeepCrawled, LinkRow
  <2>3. CASE MarkFailed(r)
    <3>1. FailedRow(links[l], job[r].reason).status = "FAILED"
      BY <1>1 DEF FailedRow, LinkRow
    <3>2. QED
      BY <1>1, <2>3, <3>1 DEF MarkFailed
  <2>4. CASE Find(r) \/ Crawl(r) \/ ReadBody(r) \/ Summarize(r) \/ TagsReplaced(r)
    BY <2>4 DEF Find, Crawl, ReadBody, CrawlFails, Summarize, TagsReplaced, tables
  <2>5. QED
    BY <1>4, <2>1, <2>2, <2>3, <2>4 DEF JobStep
<1>5. ASSUME NEW r \in Reqs, PatchLink(r) \/ DeleteLink(r)
      PROVE  FALSE
  <2>1. CASE PatchLink(r)
    BY <1>1, <2>1 DEF PatchLink, LinkRow
  <2>2. CASE DeleteLink(r)
    BY <1>1, <2>2 DEF DeleteLink, DeleteLinkRow, EmptyRow
  <2>3. QED
    BY <1>5, <2>1, <2>2
<1>6. ASSUME \/ UNCHANGED vars \/ Restart
             \/ \E r \in Reqs : PatchTagsReplaced(r) \/ Launch(r)
      PROVE  FALSE
  BY <1>6 DEF vars, tables, Restart, PatchTagsReplaced, Launch
<1>7. ASSUME NEW r \in Reqs, NEW u \in Users, NEW k \in LinkIds,
             \/ \E title \in BOOLEAN : Update(r, u, k, title)
             \/ Remove(r, u, k)
             \/ Reprocess(r, u, k)
      PROVE  FALSE
  BY <1>7 DEF Update, Remove, Reprocess, Refused
<1>8. ASSUME NEW r \in Reqs, ReplStep(r)
      PROVE  FALSE
  BY <1>8 DEF ReplStep, UpsertSelect, UpsertInsert, UpsertRefind, DeleteTagRows,
              CreateTagRows, ReplGoesTo
<1>9. QED
  BY <1>2, <1>3, <1>4, <1>5, <1>6, <1>7, <1>8 DEF Next, Step, Arrival, HandlerStep

\* The controller launches the run it owes.
LEMMA LaunchOwed ==
    ASSUME TypeInv, [Next]_vars, ~Restart,
           NEW r \in Reqs, req[r].pc = "launch"
    PROVE  \/ req'[r].pc = "launch" /\ req'[r].link = req[r].link
           \/ job'[r].pc = "find" /\ job'[r].link = req[r].link
<1>1. job \in [Reqs -> Job] /\ req \in [Reqs -> Request]
  BY DEF TypeInv, TypeOK, JobTypeOK
<1>2. CASE UNCHANGED req
  BY <1>2
<1>3. ASSUME NEW s \in Reqs, Arrival(s) \/ HandlerStep(s), s # r
      PROVE  req'[r] = req[r]
  BY <1>1, <1>3, OneRequest
<1>4. CASE Launch(r)
  <2> DEFINE j == [NoJob EXCEPT !.pc = "find", !.link = req[r].link]
  <2>1. job' = [job EXCEPT ![r] = j]
    BY <1>4 DEF Launch, StartEnrich
  <2>2. j.pc = "find" /\ j.link = req[r].link
    BY DEF NoJob
  <2> HIDE DEF j
  <2>3. QED
    BY <1>1, <2>1, <2>2
<1>5. CASE (Arrival(r) \/ HandlerStep(r)) /\ ~Launch(r)
  BY <1>5 DEF Arrival, Create, Update, Remove, Reprocess, HandlerStep, PatchTagsReplaced,
              PatchLink, DeleteLink, ResetLink
<1>6. QED
  BY <1>2, <1>3, <1>4, <1>5 DEF Next, Step, vars

\* A run stops owing its link an outcome only by writing one, or because the
\* link is gone, or by a fault.
LEMMA RunOwed ==
    ASSUME TypeInv, LaunchesOnce, [Next]_vars,
           NEW r \in Reqs, job[r].pc \in Unsettled,
           links'[job[r].link].status = "PENDING", Live(job[r].link)
    PROVE  /\ job'[r].link = job[r].link
           /\ \/ job'[r].pc \in Unsettled
              \/ Restart /\ job'[r].pc = "killed"
              \/ Throws(FALSE) /\ job'[r].pc = "rejected"
<1>1. /\ job \in [Reqs -> Job] /\ links \in [LinkIds -> LinkRow]
      /\ job[r].link \in LinkIds
  BY DEF TypeInv, TypeOK, JobTypeOK, TablesTypeOK, JobArgsSet, Running
<1>2. CASE job'[r] = job[r]
  BY <1>2
<1>3. ~Launch(r)
  BY DEF Launch, LaunchesOnce, Unsettled
<1>4. CASE JobStep(r)
  <2>1. Throws(~Live(job[r].link)) => Throws(FALSE)
    BY DEF Throws
  <2>2. CASE Find(r)
    <3>1. \/ job' = [job EXCEPT ![r].pc = "crawl", ![r].owner = JobRow(r).userId]
          \/ Throws(FALSE) /\ job' = [job EXCEPT ![r].pc = "rejected"]
      BY <2>2 DEF Find, JobGoesTo, Succeeds
    <3>2. \/ job'[r] = [job[r] EXCEPT !.pc = "crawl", !.owner = JobRow(r).userId]
          \/ Throws(FALSE) /\ job'[r] = [job[r] EXCEPT !.pc = "rejected"]
      BY <1>1, <3>1
    <3>3. job[r] \in Job
      BY <1>1
    <3>4. QED
      BY <3>2, <3>3 DEF Job, Unsettled
  <2>3. CASE Crawl(r) \/ ReadBody(r) \/ Summarize(r)
    <3>1. CASE Crawl(r) \/ ReadBody(r)
      <4>1. \/ job' = [job EXCEPT ![r].pc = "body"]
            \/ job' = [job EXCEPT ![r].pc = "summarize"]
            \/ job' = [job EXCEPT ![r].pc = "markFailed", ![r].reason = "CRAWL_ERROR"]
        BY <3>1 DEF Crawl, ReadBody, CrawlFails, JobGoesTo
      <4>2. job'[r].pc \in {"body", "summarize", "markFailed"} /\ job'[r].link = job[r].link
        BY <1>1, <4>1 DEF Job
      <4>3. QED
        BY <4>2 DEF Unsettled
    <3>2. CASE Summarize(r)
      <4>1. \/ \E raw : job' = [job EXCEPT ![r].pc = "ready", ![r].names = raw]
            \/ job' = [job EXCEPT ![r].pc = "keep"]
        BY <3>2 DEF Summarize, JobGoesTo
      <4>2. job'[r].pc \in {"ready", "keep"} /\ job'[r].link = job[r].link
        BY <1>1, <4>1 DEF Job
      <4>3. QED
        BY <4>2 DEF Unsettled
    <3>3. QED
      BY <2>3, <3>1, <3>2
  <2>4. CASE UpdateReady(r)
    <3>1. ReadyRow(links[job[r].link], r).status = "READY"
      BY <1>1, ReadyRowIs
    <3>2. job' = [job EXCEPT ![r].pc = "keep"]
      BY <1>1, <2>4, <3>1 DEF UpdateReady, JobGoesTo
    <3>3. QED
      BY <1>1, <3>2 DEF Job, Unsettled
  <2>5. CASE TagsReplaced(r)
    BY <2>5 DEF TagsReplaced, Unsettled
  <2>6. CASE KeepCrawled(r)
    <3>1. \/ job' = [job EXCEPT ![r].pc = "markFailed", ![r].reason = "LLM_ERROR"]
          \/ Throws(FALSE) /\ job' = [job EXCEPT ![r].pc = "rejected"]
      BY <2>1, <2>6 DEF KeepCrawled, JobGoesTo, AnswerLost, Throws
    <3>2. \/ job'[r] = [job[r] EXCEPT !.pc = "markFailed", !.reason = "LLM_ERROR"]
          \/ Throws(FALSE) /\ job'[r] = [job[r] EXCEPT !.pc = "rejected"]
      BY <1>1, <3>1
    <3>3. job[r] \in Job
      BY <1>1
    <3>4. QED
      BY <3>2, <3>3 DEF Job, Unsettled
  <2>7. CASE MarkFailed(r)
    <3>1. FailedRow(links[job[r].link], job[r].reason).status = "FAILED"
      BY <1>1 DEF FailedRow, LinkRow
    <3>2. Throws(FALSE) /\ job' = [job EXCEPT ![r].pc = "rejected"]
      BY <1>1, <2>1, <2>7, <3>1 DEF MarkFailed, JobGoesTo
    <3>3. QED
      BY <1>1, <3>2 DEF Job
  <2>8. QED
    BY <1>4, <2>2, <2>3, <2>4, <2>5, <2>6, <2>7 DEF JobStep
<1>5. QED
  BY <1>2, <1>3, <1>4, JobMoves

\* The inductive form: also, a request launches its run in its last step, so
\* that no other run is overwritten by the launch.
THEOREM PendingNeverOrphaned == Spec => []PendingInv
<1>1. Init => PendingInv
  BY DEF Init, JobInit, NoJob, TablesInit, EmptyRow, PendingInv, LaunchesOnce, PendingHasRun
<1>2. TypeInv /\ PendingInv /\ [Next]_vars => PendingInv'
  <2> SUFFICES ASSUME TypeInv, PendingInv, [Next]_vars PROVE PendingInv'
    OBVIOUS
  <2>1. LaunchesOnce'
    BY NotDone, NoRunYet DEF PendingInv, LaunchesOnce
  <2>2. ASSUME Undisturbed', NEW l \in LinkIds, links'[l].status = "PENDING"
        PROVE  \E r \in Reqs : Owes(r, l)'
    <3>1. Undisturbed /\ ~Restart /\ ~Throws(FALSE)
      BY <2>2, FaultsStay
    <3>2. CASE links[l].status # "PENDING"
      BY <2>2, <3>1, <3>2, NewlyPending DEF Owes, Untold
    <3>3. CASE links[l].status = "PENDING"
      <4>1. PICK r \in Reqs : Owes(r, l)
        BY <3>1, <3>3 DEF PendingInv, PendingHasRun
      <4>2. CASE req[r].pc = "launch" /\ req[r].link = l
        BY <3>1, <4>2, LaunchOwed DEF Owes, Unsettled
      <4>3. CASE job[r].pc \in Unsettled /\ job[r].link = l
        BY <2>2, <3>1, <3>3, <4>3, RunOwed DEF PendingInv, Owes, Live, LinkStatus
      <4>4. QED
        BY <4>1, <4>2, <4>3 DEF Owes
    <3>4. QED
      BY <3>2, <3>3
  <2>3. QED
    BY <2>1, <2>2 DEF PendingInv, PendingHasRun
<1>3. QED
  BY <1>1, <1>2, TypeInvariant, PTL DEF Spec

\* Without faults, a PENDING link always has something that will settle it.
THEOREM PendingAlwaysHasRun == Spec => []PendingHasRun
BY PendingNeverOrphaned, PTL DEF PendingInv

-----------------------------------------------------------------------------
(* With faults, what a PENDING link is owed may be lost.  The invariant    *)
(* must know that a request that lost its launch says so for ever, and     *)
(* that a run that ended is never started again.                           *)

DropsTold ==
    \A r \in Reqs :
        /\ req[r].pc \in {"reset", "launch"} => req[r].op \in {"create", "reprocess"}
        /\ req[r].code # NULL => req[r].pc = "done"

ExplainedInv == DropsTold /\ PendingExplained

\* An answered request is not touched any more.
LEMMA DoneStays ==
    ASSUME TypeInv, [Next]_vars, NEW r \in Reqs, req[r].pc = "done"
    PROVE  req'[r] = req[r]
<1>1. ~Arrival(r) /\ ~HandlerStep(r)
  BY DEF Arrival, Create, Update, Remove, Reprocess, HandlerStep, PatchTagsReplaced,
         PatchLink, DeleteLink, ResetLink, Launch
<1>2. QED
  BY <1>1, ReqMoves DEF InHandler

\* Neither is a run that ended badly.
LEMMA EndedStays ==
    ASSUME TypeInv, LaunchesOnce, [Next]_vars, NEW r \in Reqs,
           job[r].pc \in {"killed", "rejected"}
    PROVE  job'[r] = job[r]
<1>1. ~Launch(r)
  BY DEF Launch, LaunchesOnce
<1>2. ~JobStep(r)
  BY DEF JobStep, Find, Crawl, ReadBody, Summarize, UpdateReady, TagsReplaced, KeepCrawled,
         MarkFailed
<1>3. QED
  BY <1>1, <1>2, JobMoves DEF Running, Unsettled

\* What was lost stays lost.
LEMMA LostStays ==
    ASSUME TypeInv, LaunchesOnce, DropsTold, [Next]_vars,
           NEW r \in Reqs, NEW l \in LinkIds, Lost(r, l)
    PROVE  Lost(r, l)'
<1>1. CASE req[r].code \in {"dropped", "500"}
  <2>1. req'[r] = req[r]
    BY <1>1, DoneStays, ServiceAssumption DEF DropsTold, Code
  <2>2. CASE job[r].pc \in {"killed", "rejected"} /\ job[r].link = l
    BY <2>1, <2>2, EndedStays, FaultsCount DEF Lost
  <2>3. CASE ~(job[r].pc \in {"killed", "rejected"} /\ job[r].link = l)
    BY <2>1, <2>3, FaultsCount DEF Lost
  <2>4. QED
    BY <2>2, <2>3
<1>2. CASE job[r].pc \in {"killed", "rejected"} /\ job[r].link = l /\ req[r].code \notin {"dropped", "500"}
  BY <1>2, EndedStays, FaultsCount DEF Lost
<1>3. QED
  BY <1>1, <1>2 DEF Lost

\* A request on its way to a launch saves a link or reprocesses one, and an
\* unanswered request was not dropped.
LEMMA DropsToldStep ==
    ASSUME TypeInv, DropsTold, [Next]_vars
    PROVE  DropsTold'
<1> SUFFICES ASSUME NEW r \in Reqs
             PROVE  /\ req'[r].pc \in {"reset", "launch"} => req'[r].op \in {"create", "reprocess"}
                    /\ req'[r].code # NULL => req'[r].pc = "done"
  BY DEF DropsTold
<1> DEFINE Goal == /\ req'[r].pc \in {"reset", "launch"} =>
                          req'[r].op \in {"create", "reprocess"}
                   /\ req'[r].code # NULL => req'[r].pc = "done"
<1>1. /\ req \in [Reqs -> Request]
      /\ req[r].pc \in {"reset", "launch"} => req[r].op \in {"create", "reprocess"}
      /\ req[r].code # NULL => req[r].pc = "done"
  BY DEF TypeInv, TypeOK, DropsTold
<1>2. CASE req'[r] = req[r]
  BY <1>1, <1>2
<1>3. CASE req'[r].pc = "done"
  BY <1>3
<1>4. ASSUME NEW op, NEW u, NEW l, NEW title, NEW pc, Arrive(r, op, u, l, title, pc),
             pc \in {"reset", "launch"} => op \in {"create", "reprocess"}
      PROVE  Goal
  BY <1>1, <1>4 DEF Arrive, NewRequest
<1>5. ASSUME NEW op, NEW u, NEW l, NEW code, Refuse(r, op, u, l, code)
      PROVE  Goal
  BY <1>1, <1>5 DEF Refuse, NewRequest
<1>6. CASE Arrival(r)
  <2> HIDE DEF Goal
  <2>1. ASSUME NEW op, NEW u, NEW l, Refused(r, op, u, l)
        PROVE  Goal
    BY <1>5, <2>1 DEF Refused
  <2>2. PICK u \in Users :
            \/ Create(r, u)
            \/ \E l \in LinkIds, title \in BOOLEAN :
                  Update(r, u, l, title) \/ Remove(r, u, l) \/ Reprocess(r, u, l)
    BY <1>6 DEF Arrival
  <2>3. CASE Create(r, u)
    <3>1. \/ \E l : Arrive(r, "create", u, l, FALSE, "launch")
          \/ \E l : Refuse(r, "create", u, l, "500")
      BY <2>3 DEF Create
    <3>2. Goal
      BY <3>1, <1>4, <1>5
    <3>3. QED
      BY <3>2 DEF Goal
  <2>4. ASSUME NEW l \in LinkIds, NEW title \in BOOLEAN,
               Update(r, u, l, title) \/ Remove(r, u, l) \/ Reprocess(r, u, l)
        PROVE  Goal
    BY <1>4, <2>1, <2>4 DEF Update, Remove, Reprocess
  <2>5. QED
    BY <2>2, <2>3, <2>4 DEF Goal
<1>7. ASSUME NEW code, Answer(r, code)
      PROVE  Goal
  BY <1>1, <1>7 DEF Answer, Request
<1>8. ASSUME NEW pc, req[r].pc \in {"tags", "reset"},
             pc = "launch" => req[r].pc = "reset", pc # "reset", ReqGoesTo(r, pc)
      PROVE  Goal
  BY <1>1, <1>8 DEF ReqGoesTo, Request
<1>9. CASE HandlerStep(r)
  BY <1>7, <1>8, <1>9 DEF HandlerStep, PatchTagsReplaced, PatchLink, DeleteLink, ResetLink, Launch
<1>10. QED
  BY <1>2, <1>3, <1>6, <1>9, ReqMoves

\* What was owed is owed, paid or lost.
LEMMA OwedOrLost ==
    ASSUME TypeInv, LaunchesOnce, DropsTold, [Next]_vars, NEW r \in Reqs, NEW l \in LinkIds,
           Owes(r, l), links[l].status = "PENDING", links'[l].status = "PENDING"
    PROVE  Owes(r, l)' \/ Lost(r, l)'
<1>1. CASE req[r].pc = "launch" /\ req[r].link = l /\ ~Restart
  BY <1>1, LaunchOwed DEF Owes, Unsettled
<1>2. CASE req[r].pc = "launch" /\ req[r].link = l /\ Restart
  <2>1. /\ req[r] \in Request /\ req[r].op \in {"create", "reprocess"}
        /\ req'[r] = [req[r] EXCEPT !.pc = "done", !.code = "dropped"]
    BY <1>2 DEF TypeInv, TypeOK, Restart, InHandler, DropsTold
  <2>2. req'[r].code = "dropped" /\ req'[r].link = l /\ req'[r].op = req[r].op
    BY <1>2, <2>1 DEF Request
  <2>3. QED
    BY <1>2, <2>1, <2>2, FaultsCount DEF Lost
<1>3. CASE job[r].pc \in Unsettled /\ job[r].link = l
  BY <1>3, RunOwed, FaultsCount DEF Owes, Lost, Live, LinkStatus
<1>4. QED
  BY <1>1, <1>2, <1>3 DEF Owes

\* The inductive form.
THEOREM PendingAlwaysTold == Spec => []ExplainedInv
<1>1. Init => ExplainedInv
  <2> SUFFICES ASSUME Init PROVE ExplainedInv
    OBVIOUS
  <2>1. DropsTold
    BY DEF Init, NewRequest, DropsTold
  <2>2. PendingExplained
    BY DEF Init, TablesInit, EmptyRow, PendingExplained
  <2>3. QED
    BY <2>1, <2>2 DEF ExplainedInv
<1>2. TypeInv /\ PendingInv /\ ExplainedInv /\ [Next]_vars => ExplainedInv'
  <2> SUFFICES ASSUME TypeInv, PendingInv, ExplainedInv, [Next]_vars PROVE ExplainedInv'
    OBVIOUS
  <2>1. LaunchesOnce /\ DropsTold
    BY DEF PendingInv, ExplainedInv
  <2>2. ASSUME NEW l \in LinkIds, links'[l].status = "PENDING"
        PROVE  \E r \in Reqs : Owes(r, l)' \/ Lost(r, l)'
    <3>1. CASE links[l].status # "PENDING"
      <4>1. PICK r \in Reqs : (req'[r].pc = "launch" /\ req'[r].link = l) \/ Untold(r, l)
        BY <2>2, <3>1, NewlyPending
      <4>2. CASE Untold(r, l)
        <5>1. req[r].pc = "reset" => req'[r].op \in {"create", "reprocess"}
          BY <2>1, ArgsStay DEF DropsTold
        <5>2. QED
          BY <4>2, <5>1, FaultsCount DEF Untold, Lost
      <4>3. QED
        BY <4>1, <4>2 DEF Owes
    <3>2. CASE links[l].status = "PENDING"
      <4>1. PICK r \in Reqs : Owes(r, l) \/ Lost(r, l)
        BY <3>2 DEF ExplainedInv, PendingExplained
      <4>2. CASE Owes(r, l)
        BY <2>1, <2>2, <3>2, <4>2, OwedOrLost
      <4>3. CASE Lost(r, l)
        BY <2>1, <4>3, LostStays
      <4>4. QED
        BY <4>1, <4>2, <4>3
    <3>3. QED
      BY <3>1, <3>2
  <2>3. DropsTold'
    BY <2>1, DropsToldStep
  <2>4. QED
    BY <2>2, <2>3 DEF ExplainedInv, PendingExplained
<1>3. QED
  BY <1>1, <1>2, TypeInvariant, PendingNeverOrphaned, PTL DEF Spec

\* A PENDING link that nobody owes an outcome lost it to a fault that hit it.
THEOREM PendingAlwaysExplained == Spec => []PendingExplained
BY PendingAlwaysTold, PTL DEF ExplainedInv

-----------------------------------------------------------------------------
(* Why enrich throws.                                                      *)

\* No statement was lost, so a run that threw has lost its link.
RejectsGrounded ==
    dbErrors = 0 =>
        \A r \in Reqs :
            job[r].pc = "rejected" =>
                job[r].link \in LinkIds /\ links[job[r].link].status = "deleted"

\* A run throws for a lost statement, or because its row is gone.
LEMMA RejectOrigin ==
    ASSUME TypeInv, [Next]_vars, ~Throws(FALSE), NEW r \in Reqs, job'[r].pc = "rejected"
    PROVE  /\ job'[r].link = job[r].link
           /\ \/ job'[r] = job[r]
              \/ job[r].pc \in Running /\ ~Live(job[r].link) /\ UNCHANGED links
<1>1. job \in [Reqs -> Job]
  BY DEF TypeInv, TypeOK, JobTypeOK
<1>2. ~Launch(r)
  BY <1>1 DEF Launch, StartEnrich, NoJob
<1>3. ASSUME JobStep(r)
      PROVE  /\ job'[r].link = job[r].link
             /\ job[r].pc \in Running /\ ~Live(job[r].link) /\ UNCHANGED links
  <2>1. /\ Throws(~Live(job[r].link)) => ~Live(job[r].link)
        /\ ~AnswerLost(Live(job[r].link))
    BY DEF Throws, AnswerLost
  <2>2. ~(Find(r) \/ Crawl(r) \/ ReadBody(r) \/ Summarize(r) \/ UpdateReady(r) \/ TagsReplaced(r))
    BY <1>1 DEF Find, Crawl, ReadBody, CrawlFails, Summarize, UpdateReady, TagsReplaced,
                JobGoesTo, Job
  <2>3. CASE KeepCrawled(r)
    BY <1>1, <2>1, <2>3 DEF KeepCrawled, JobGoesTo, Job, Running, Unsettled
  <2>4. CASE MarkFailed(r)
    BY <1>1, <2>1, <2>4 DEF MarkFailed, JobGoesTo, Job, Running, Unsettled
  <2>5. QED
    BY <1>3, <2>2, <2>3, <2>4 DEF JobStep
<1>4. QED
  BY <1>2, <1>3, JobMoves

\* The inductive form: the run also keeps the name of its link.
THEOREM RejectsAlwaysGrounded == Spec => []RejectsGrounded
<1>1. Init => RejectsGrounded
  BY DEF Init, JobInit, NoJob, RejectsGrounded
<1>2. TypeInv /\ OwnerInv /\ RejectsGrounded /\ [Next]_vars => RejectsGrounded'
  <2> SUFFICES ASSUME TypeInv, OwnerInv, RejectsGrounded, [Next]_vars, dbErrors' = 0,
                      NEW r \in Reqs, job'[r].pc = "rejected"
               PROVE  job'[r].link \in LinkIds /\ links'[job'[r].link].status = "deleted"
    BY DEF RejectsGrounded
  <2>1. dbErrors = 0 /\ ~Throws(FALSE)
    BY ErrorsGrow, TablesAssumption DEF Throws, TypeInv, TypeOK, TablesTypeOK
  <2>2. CASE job'[r] = job[r]
    <3>1. job[r].link \in LinkIds /\ links[job[r].link].status = "deleted"
      BY <2>1, <2>2 DEF RejectsGrounded
    <3>2. QED
      BY <2>2, <3>1, RowFate DEF Live, LinkStatus
  <2>3. CASE job[r].pc \in Running /\ ~Live(job[r].link) /\ UNCHANGED links
    <3>1. job[r].link \in LinkIds /\ links[job[r].link].status # "unborn"
      BY <2>3 DEF TypeInv, JobArgsSet, OwnerInv, JobHolds
    <3>2. links[job[r].link].status = "deleted"
      BY <2>3, <3>1 DEF TypeInv, TypeOK, TablesTypeOK, LinkRow, Live
    <3>3. QED
      BY <2>1, <2>3, <3>1, <3>2, RejectOrigin
  <2>4. QED
    BY <2>1, <2>2, <2>3, RejectOrigin
<1>3. QED
  BY <1>1, <1>2, TypeInvariant, OwnershipKept, PTL DEF Spec

\* While no statement was lost, enrich throws only when its link was deleted.
THEOREM RejectsAlwaysGone == Spec => []RejectedMeansGone
<1>1. RejectsGrounded => RejectedMeansGone
  BY DEF RejectsGrounded, RejectedMeansGone
<1>2. QED
  BY <1>1, RejectsAlwaysGrounded, PTL

=============================================================================
