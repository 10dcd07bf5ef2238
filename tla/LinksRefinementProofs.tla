----------------------- MODULE LinksRefinementProofs -----------------------
(***************************************************************************)
(* Proof that, without faults, every step of the link service is a step of *)
(* LinkLifecycle or leaves it alone: the safety half of                    *)
(* ImplementsLifecycle, for any number of links and requests.              *)
(***************************************************************************)
EXTENDS LinksPendingProofs

\* r is one of the runs that the lifecycle knows of link l.
IsRun(r, l) ==
    \/ req[r].pc = "launch" /\ req[r].link = l
    \/ job[r].pc \in Running /\ job[r].link = l

-----------------------------------------------------------------------------
(* What a step does to the abstract state, said link by link and run by    *)
(* run.                                                                    *)

StatusStays == \A k \in LinkIds : links'[k].status = links[k].status

StatusMoves(l, s) ==
    /\ links'[l].status = s
    /\ \A k \in LinkIds \ {l} : links'[k].status = links[k].status

RunsStay == \A r \in Reqs, k \in LinkIds : IsRun(r, k)' <=> IsRun(r, k)

RunAdded(l, r) ==
    /\ IsRun(r, l)'
    /\ \A s \in Reqs, k \in LinkIds : <<s, k>> # <<r, l>> => (IsRun(s, k)' <=> IsRun(s, k))

RunGone(l, r) ==
    /\ IsRun(r, l) /\ ~IsRun(r, l)'
    /\ \A s \in Reqs, k \in LinkIds : <<s, k>> # <<r, l>> => (IsRun(s, k)' <=> IsRun(s, k))

\* The abstract state in these words.
LEMMA Abstracts ==
    ASSUME NEW l \in LinkIds, NEW r \in Reqs
    PROVE  /\ StatusStays /\ RunsStay => UNCHANGED Lifecycle!vars
           /\ /\ links[l].status = "unborn"
              /\ \A s \in Reqs : ~IsRun(s, l)
              /\ StatusMoves(l, "PENDING")
              /\ RunAdded(l, r)
              => Lifecycle!Save(l, r)
           /\ Live(l) /\ StatusMoves(l, "PENDING") /\ RunAdded(l, r)
              => Lifecycle!Reprocess(l, r)
           /\ /\ Live(l) /\ IsRun(r, l)
              /\ StatusMoves(l, "READY") \/ StatusMoves(l, "FAILED")
              /\ RunsStay \/ RunGone(l, r)
              => Lifecycle!Settle(l, r)
           /\ /\ links[l].status = "PENDING" => \E s \in Reqs \ {r} : IsRun(s, l)
              /\ StatusStays
              /\ RunGone(l, r)
              => Lifecycle!Retire(l, r)
           /\ Live(l) /\ StatusMoves(l, "deleted") /\ RunsStay
              => Lifecycle!Delete(l)
<1> DEFINE st == [k \in LinkIds |-> links[k].status]
           runs == [k \in LinkIds |-> {s \in Reqs : IsRun(s, k)}]
<1>1. StatusStays => st' = st
  BY DEF StatusStays
<1>2. \A x : StatusMoves(l, x) => st' = [st EXCEPT ![l] = x]
  BY DEF StatusMoves
<1>3. RunsStay => runs' = runs
  BY DEF RunsStay
<1>4. RunAdded(l, r) => runs' = [runs EXCEPT ![l] = @ \cup {r}]
  BY DEF RunAdded
<1>5. RunGone(l, r) => runs' = [runs EXCEPT ![l] = @ \ {r}]
  BY DEF RunGone
<1>6. /\ st[l] = links[l].status
      /\ runs[l] = {s \in Reqs : IsRun(s, l)}
  OBVIOUS
<1>7. /\ runs = [k \in LinkIds |->
                   {s \in Reqs : \/ req[s].pc = "launch" /\ req[s].link = k
                                 \/ job[s].pc \in Running /\ job[s].link = k}]
      /\ runs' = [k \in LinkIds |->
                   {s \in Reqs : \/ req'[s].pc = "launch" /\ req'[s].link = k
                                 \/ job'[s].pc \in Running /\ job'[s].link = k}]
  BY DEF IsRun
<1>8. Live(l) <=> st[l] \in {"PENDING", "READY", "FAILED"}
  BY DEF Live, LinkStatus
<1> HIDE DEF st, runs
<1>9. StatusStays /\ RunsStay => UNCHANGED Lifecycle!vars
  BY <1>1, <1>3, <1>7 DEF Lifecycle!vars, st
<1>10. ASSUME links[l].status = "unborn", \A s \in Reqs : ~IsRun(s, l),
              StatusMoves(l, "PENDING"), RunAdded(l, r)
       PROVE  Lifecycle!Save(l, r)
  <2>1. runs[l] \cup {r} = {r}
    BY <1>6, <1>10
  <2>2. runs' = [runs EXCEPT ![l] = {r}]
    BY <1>4, <1>10, <2>1
  <2>3. st[l] = "unborn" /\ st' = [st EXCEPT ![l] = "PENDING"]
    BY <1>2, <1>6, <1>10
  <2>4. QED
    BY <1>7, <2>2, <2>3 DEF Lifecycle!Save, st
<1>11. ASSUME Live(l), StatusMoves(l, "PENDING"), RunAdded(l, r)
       PROVE  Lifecycle!Reprocess(l, r)
  BY <1>2, <1>4, <1>7, <1>8, <1>11 DEF Lifecycle!Reprocess, Lifecycle!Live, st
<1>12. ASSUME Live(l), IsRun(r, l), StatusMoves(l, "READY") \/ StatusMoves(l, "FAILED"),
              RunsStay \/ RunGone(l, r)
       PROVE  Lifecycle!Settle(l, r)
  BY <1>2, <1>3, <1>5, <1>6, <1>7, <1>8, <1>12 DEF Lifecycle!Settle, Lifecycle!Live, st
<1>13. ASSUME links[l].status = "PENDING" => \E s \in Reqs \ {r} : IsRun(s, l),
              StatusStays, RunGone(l, r)
       PROVE  Lifecycle!Retire(l, r)
  <2>1. r \in runs[l] /\ (st[l] = "PENDING" => runs[l] # {r})
    BY <1>6, <1>13 DEF RunGone
  <2>2. QED
    BY <1>1, <1>5, <1>7, <1>13, <2>1 DEF Lifecycle!Retire, st
<1>14. ASSUME Live(l), StatusMoves(l, "deleted"), RunsStay
       PROVE  Lifecycle!Delete(l)
  BY <1>2, <1>3, <1>7, <1>8, <1>14 DEF Lifecycle!Delete, Lifecycle!Live, st
<1>15. QED
  BY <1>9, <1>10, <1>11, <1>12, <1>13, <1>14

-----------------------------------------------------------------------------
(* Every step, without faults.                                             *)

Faultless ==
    /\ TypeInv /\ OwnerInv /\ PendingInv
    /\ Undisturbed
    /\ ~Restart /\ ~Throws(FALSE)

Maps == Lifecycle!Next \/ UNCHANGED Lifecycle!vars

\* The link and the runs of the others are as they were.
LEMMA OtherRuns ==
    ASSUME NEW r \in Reqs, \A s \in Reqs \ {r} : req'[s] = req[s] /\ job'[s] = job[s]
    PROVE  /\ (\A k \in LinkIds : IsRun(r, k)' <=> IsRun(r, k)) => RunsStay
           /\ \A l \in LinkIds :
                 (\A k \in LinkIds \ {l} : IsRun(r, k)' <=> IsRun(r, k)) =>
                     /\ IsRun(r, l)' => RunAdded(l, r)
                     /\ IsRun(r, l) /\ ~IsRun(r, l)' => RunGone(l, r)
<1>1. \A s \in Reqs \ {r}, k \in LinkIds : IsRun(s, k)' <=> IsRun(s, k)
  BY DEF IsRun
<1>2. QED
  BY <1>1 DEF RunsStay, RunAdded, RunGone

\* A step that changes neither status nor runs leaves the lifecycle alone.
LEMMA Stutters ==
    ASSUME UNCHANGED <<links, req, job>>
    PROVE  UNCHANGED Lifecycle!vars
BY DEF Lifecycle!vars

\* Only a create saves a link; the other arrivals leave the lifecycle alone.
LEMMA ArrivalMaps ==
    ASSUME Faultless, NEW r \in Reqs, Arrival(r)
    PROVE  Maps
<1>1. /\ req \in [Reqs -> Request] /\ job \in [Reqs -> Job]
      /\ links \in [LinkIds -> LinkRow]
  BY DEF Faultless, TypeInv, TypeOK, TablesTypeOK, JobTypeOK
<1>2. UNCHANGED job /\ job[r].pc = "none" /\ req[r].pc = "new"
  BY DEF Faultless, PendingInv, LaunchesOnce, Arrival, Create, Update, Remove, Reprocess
<1>3. \A s \in Reqs \ {r} : req'[s] = req[s] /\ job'[s] = job[s]
  BY <1>1, <1>2, OneRequest
<1>4. \A k \in LinkIds : ~IsRun(r, k)
  BY <1>2 DEF IsRun, Running, Unsettled
<1>5. ASSUME UNCHANGED links, req'[r].pc # "launch"
      PROVE  Maps
  <2>1. \A k \in LinkIds : ~IsRun(r, k)'
    BY <1>2, <1>5 DEF IsRun, Running, Unsettled
  <2>2. RunsStay /\ StatusStays
    BY <1>3, <1>4, <1>5, <2>1, OtherRuns DEF StatusStays
  <2>3. CASE LinkIds # {}
    <3>1. PICK l \in LinkIds : TRUE
      BY <2>3
    <3>2. QED
      BY <2>2, <3>1, Abstracts DEF Maps
  <2>4. CASE LinkIds = {}
    BY <2>4 DEF Maps, Lifecycle!vars
  <2>5. QED
    BY <2>3, <2>4
<1>6. ASSUME NEW op, NEW u, NEW l, NEW title, NEW pc, Arrive(r, op, u, l, title, pc)
      PROVE  req'[r].pc = pc /\ req'[r].link = l
  BY <1>1, <1>6 DEF Arrive, NewRequest
<1>7. ASSUME NEW op, NEW u, NEW l, Refused(r, op, u, l)
      PROVE  Maps
  <2>1. ASSUME NEW code, Refuse(r, op, u, l, code)
        PROVE  req'[r].pc # "launch"
    BY <1>1, <2>1 DEF Refuse, NewRequest
  <2>2. QED
    BY <1>5, <1>7, <2>1 DEF Refused
<1>8. ASSUME NEW u \in Users, Create(r, u)
      PROVE  Maps
  <2>1. PICK l \in LinkIds : /\ links[l].status = "unborn"
                             /\ InsertLink(l, u)
                             /\ Arrive(r, "create", u, l, FALSE, "launch")
    BY <1>8 DEF Create, Faultless, AnswerLost, Throws
  <2> DEFINE row == [EmptyRow("PENDING") EXCEPT !.userId = u]
  <2>2. links' = [links EXCEPT ![l] = row] /\ row.status = "PENDING"
    BY <2>1 DEF InsertLink, EmptyRow
  <2> HIDE DEF row
  <2>3. StatusMoves(l, "PENDING")
    BY <1>1, <2>2 DEF StatusMoves
  <2>4. IsRun(r, l)' /\ \A k \in LinkIds \ {l} : ~IsRun(r, k)'
    BY <1>2, <1>6, <2>1 DEF IsRun, Running, Unsettled
  <2>5. RunAdded(l, r)
    BY <1>3, <1>4, <2>4, OtherRuns
  <2>6. \A s \in Reqs : ~IsRun(s, l)
    BY <2>1 DEF Faultless, OwnerInv, ReqHolds, JobHolds, Holds, IsRun, InHandler
  <2>7. Lifecycle!Save(l, r)
    BY <2>1, <2>3, <2>5, <2>6, Abstracts
  <2>8. QED
    BY <2>7 DEF Maps, Lifecycle!Next
<1>9. ASSUME NEW u \in Users, NEW l \in LinkIds, NEW title \in BOOLEAN, Update(r, u, l, title)
      PROVE  Maps
  BY <1>5, <1>6, <1>7, <1>9 DEF Update
<1>10. ASSUME NEW u \in Users, NEW l \in LinkIds, Remove(r, u, l) \/ Reprocess(r, u, l)
       PROVE  Maps
  <2>1. CASE Refused(r, "remove", u, l) \/ Refused(r, "reprocess", u, l)
    BY <1>7, <2>1
  <2>2. CASE /\ UNCHANGED links
             /\ \/ Arrive(r, "remove", u, l, FALSE, "delete")
                \/ Arrive(r, "reprocess", u, l, FALSE, "reset")
    <3>1. ASSUME Arrive(r, "remove", u, l, FALSE, "delete")
          PROVE  req'[r].pc # "launch"
      BY <1>1, <3>1 DEF Arrive, NewRequest
    <3>2. ASSUME Arrive(r, "reprocess", u, l, FALSE, "reset")
          PROVE  req'[r].pc # "launch"
      BY <1>1, <3>2 DEF Arrive, NewRequest
    <3>3. req'[r].pc # "launch"
      BY <2>2, <3>1, <3>2
    <3>4. QED
      BY <1>5, <2>2, <3>3
  <2>3. QED
    BY <1>10, <2>1, <2>2 DEF Remove, Reprocess
<1>11. QED
  BY <1>8, <1>9, <1>10 DEF Arrival

\* A handler's later steps reprocess or delete a link, or leave the lifecycle alone.
LEMMA HandlerMaps ==
    ASSUME Faultless, NEW r \in Reqs, HandlerStep(r)
    PROVE  Maps
<1>1. /\ req \in [Reqs -> Request] /\ job \in [Reqs -> Job]
      /\ links \in [LinkIds -> LinkRow]
  BY DEF Faultless, TypeInv, TypeOK, TablesTypeOK, JobTypeOK
<1>2. PICK l \in LinkIds : l = req[r].link /\ req[r].pc \in InHandler
  BY DEF HandlerStep, PatchTagsReplaced, PatchLink, DeleteLink, ResetLink, Launch,
         InHandler, Faultless, TypeInv, ReqArgsSet
<1>3. job[r].pc = "none"
  BY <1>2 DEF Faultless, PendingInv, LaunchesOnce, InHandler
<1>4. \A s \in Reqs \ {r} : req'[s] = req[s]
  BY <1>1, OneRequest
<1>5. ASSUME UNCHANGED job, req[r].pc # "launch", req'[r].pc # "launch"
      PROVE  RunsStay
  <2>1. \A k \in LinkIds : ~IsRun(r, k) /\ ~IsRun(r, k)'
    BY <1>3, <1>5 DEF IsRun, Running, Unsettled
  <2>2. QED
    BY <1>4, <1>5, <2>1, OtherRuns
<1>6. ASSUME NEW pc, ReqGoesTo(r, pc)
      PROVE  req'[r].pc = pc /\ req'[r].link = l
  BY <1>1, <1>2, <1>6 DEF ReqGoesTo, Request
<1>7. ASSUME NEW code, Answer(r, code)
      PROVE  req'[r].pc = "done"
  BY <1>1, <1>7 DEF Answer, Request
<1>8. StatusStays /\ RunsStay => Maps
  BY <1>2, Abstracts DEF Maps
<1>9. CASE PatchTagsReplaced(r)
  BY <1>5, <1>6, <1>7, <1>8, <1>9 DEF PatchTagsReplaced, tables, StatusStays
<1>10. CASE PatchLink(r)
  <2>1. StatusStays
    BY <1>1, <1>10 DEF PatchLink, StatusStays, LinkRow
  <2>2. QED
    BY <1>5, <1>7, <1>8, <1>10, <2>1 DEF PatchLink
<1>11. CASE DeleteLink(r)
  <2>1. RunsStay
    BY <1>5, <1>7, <1>11 DEF DeleteLink
  <2>2. CASE UNCHANGED links
    BY <1>8, <2>1, <2>2 DEF StatusStays
  <2>3. CASE Live(l) /\ DeleteLinkRow(l)
    <3>1. StatusMoves(l, "deleted")
      BY <1>1, <1>2, <2>3 DEF DeleteLinkRow, EmptyRow, StatusMoves
    <3>2. Lifecycle!Delete(l)
      BY <1>2, <2>1, <2>3, <3>1, Abstracts
    <3>3. QED
      BY <1>2, <3>2 DEF Maps, Lifecycle!Next
  <2>4. QED
    BY <1>2, <1>11, <2>2, <2>3 DEF DeleteLink, Succeeds, AnswerLost
<1>12. CASE ResetLink(r)
  <2>1. CASE UNCHANGED links /\ Answer(r, "500")
    BY <1>5, <1>7, <1>8, <1>12, <2>1 DEF ResetLink, StatusStays
  <2>2. CASE Live(l) /\ links' = [links EXCEPT ![l] = PendingRow(@)] /\ ReqGoesTo(r, "launch")
    <3>1. PendingRow(links[l]).status = "PENDING"
      BY <1>1, <1>2, PendingRowIs
    <3>2. StatusMoves(l, "PENDING")
      BY <1>1, <1>2, <2>2, <3>1 DEF StatusMoves
    <3>3. UNCHANGED job /\ req[r].pc # "launch"
      BY <1>12 DEF ResetLink
    <3>4. IsRun(r, l)' /\ \A k \in LinkIds \ {l} : IsRun(r, k)' <=> IsRun(r, k)
      BY <1>2, <1>3, <1>6, <2>2, <3>3 DEF IsRun, Running, Unsettled
    <3>5. RunAdded(l, r)
      BY <1>2, <1>4, <3>3, <3>4, OtherRuns
    <3>6. Lifecycle!Reprocess(l, r)
      BY <1>2, <2>2, <3>2, <3>5, Abstracts
    <3>7. QED
      BY <1>2, <3>6 DEF Maps, Lifecycle!Next
  <2>3. ~AnswerLost(Live(l))
    BY DEF Faultless, AnswerLost, Throws
  <2>4. QED
    BY <1>2, <1>12, <2>1, <2>2, <2>3 DEF ResetLink, Succeeds
<1>13. CASE Launch(r)
  <2> DEFINE j == [NoJob EXCEPT !.pc = "find", !.link = l]
  <2>1. j.pc = "find" /\ j.link = l
    BY DEF NoJob
  <2>2. job' = [job EXCEPT ![r] = j] /\ UNCHANGED links /\ req[r].pc = "launch"
    BY <1>2, <1>13 DEF Launch, StartEnrich, tables
  <2> HIDE DEF j
  <2>3. job'[r] = j /\ \A s \in Reqs \ {r} : job'[s] = job[s]
    BY <1>1, <2>2
  <2>4. req'[r].pc = "done"
    BY <1>7, <1>13 DEF Launch
  <2>5. \A k \in LinkIds : IsRun(r, k)' <=> IsRun(r, k)
    BY <1>2, <1>3, <2>1, <2>2, <2>3, <2>4 DEF IsRun, Running, Unsettled
  <2>6. QED
    BY <1>4, <1>8, <2>2, <2>3, <2>5, OtherRuns DEF StatusStays
<1>14. QED
  BY <1>9, <1>10, <1>11, <1>12, <1>13 DEF HandlerStep

\* A run settles its link, ends without a word, or leaves the lifecycle alone.
LEMMA JobMaps ==
    ASSUME Faultless, NEW r \in Reqs, JobStep(r), UNCHANGED req
    PROVE  Maps
<1>1. job \in [Reqs -> Job] /\ links \in [LinkIds -> LinkRow]
  BY DEF Faultless, TypeInv, TypeOK, TablesTypeOK, JobTypeOK
<1>2. job[r].pc \in Running
  BY DEF JobStep, Find, Crawl, ReadBody, CrawlFails, Summarize, UpdateReady, TagsReplaced, KeepCrawled, MarkFailed,
         Running, Unsettled
<1>3. PICK l \in LinkIds : l = job[r].link
  BY <1>2 DEF Faultless, TypeInv, JobArgsSet
<1>4. req[r].pc # "launch" /\ IsRun(r, l)
  BY <1>2, <1>3 DEF Faultless, PendingInv, LaunchesOnce, IsRun, Running, Unsettled
<1>5. \A s \in Reqs \ {r} : req'[s] = req[s] /\ job'[s] = job[s]
  BY <1>1, OneJob
<1>6. ~Throws(~Live(l)) \/ ~Live(l)
  BY DEF Faultless, Throws
<1>7. ASSUME job'[r].pc \in Running, job'[r].link = job[r].link
      PROVE  RunsStay
  <2>1. \A k \in LinkIds : IsRun(r, k)' <=> IsRun(r, k)
    BY <1>2, <1>7 DEF IsRun
  <2>2. QED
    BY <1>5, <2>1, OtherRuns
<1>8. ASSUME job'[r].pc \notin Running
      PROVE  RunGone(l, r)
  <2>1. \A k \in LinkIds \ {l} : ~IsRun(r, k)
    BY <1>3, <1>4 DEF IsRun
  <2>2. \A k \in LinkIds : ~IsRun(r, k)'
    BY <1>4, <1>8 DEF IsRun
  <2>3. QED
    BY <1>4, <1>5, <2>1, <2>2, OtherRuns
<1>9. ASSUME StatusStays, RunsStay
      PROVE  Maps
  BY <1>9, Abstracts DEF Maps
<1>10. ASSUME StatusStays, job'[r].pc \notin Running,
              links[l].status = "PENDING" => \E s \in Reqs \ {r} : IsRun(s, l)
       PROVE  Maps
  <2>1. Lifecycle!Retire(l, r)
    BY <1>8, <1>10, Abstracts
  <2>2. QED
    BY <2>1 DEF Maps, Lifecycle!Next
<1>11. ASSUME NEW pc, JobGoesTo(r, pc)
       PROVE  job'[r].pc = pc /\ job'[r].link = job[r].link
  BY <1>1, <1>11 DEF JobGoesTo, Job
<1>12. ASSUME NEW row \in LinkRow, row.status \in {"READY", "FAILED"},
              Live(l), links' = [links EXCEPT ![l] = row],
              RunsStay \/ RunGone(l, r)
       PROVE  Maps
  <2>1. StatusMoves(l, "READY") \/ StatusMoves(l, "FAILED")
    BY <1>1, <1>12 DEF StatusMoves
  <2>2. Lifecycle!Settle(l, r)
    BY <1>4, <1>12, <2>1, Abstracts
  <2>3. QED
    BY <2>2 DEF Maps, Lifecycle!Next
<1>13. CASE Find(r)
  <2>1. UNCHANGED links /\ (Live(l) \/ ~Live(l))
    BY <1>13 DEF Find
  <2>2. CASE job' = [job EXCEPT ![r].pc = "crawl", ![r].owner = JobRow(r).userId]
    <3>1. job'[r].pc \in Running /\ job'[r].link = job[r].link
      BY <1>1, <2>2 DEF Job, Running, Unsettled
    <3>2. QED
      BY <1>7, <1>9, <2>1, <3>1 DEF StatusStays
  <2>3. CASE JobGoesTo(r, "resolved") /\ ~Live(l)
    BY <1>10, <1>11, <2>1, <2>3 DEF StatusStays, Live, LinkStatus, Running, Unsettled
  <2>4. QED
    BY <1>3, <1>13, <2>2, <2>3 DEF Find, Succeeds, Faultless
<1>14. CASE Crawl(r) \/ ReadBody(r) \/ Summarize(r)
  <2>1. job'[r].pc \in Running /\ job'[r].link = job[r].link
    BY <1>1, <1>14 DEF Crawl, ReadBody, CrawlFails, Summarize, JobGoesTo, Job, Running, Unsettled
  <2>2. UNCHANGED links
    BY <1>14 DEF Crawl, ReadBody, CrawlFails, Summarize, tables
  <2>3. QED
    BY <1>7, <1>9, <2>1, <2>2 DEF StatusStays
<1>15. CASE UpdateReady(r)
  <2>1. RunsStay
    BY <1>7, <1>11, <1>15 DEF UpdateReady, Running, Unsettled
  <2>2. CASE UNCHANGED links
    BY <1>9, <2>1, <2>2 DEF StatusStays
  <2>3. CASE Live(l) /\ links' = [links EXCEPT ![l] = ReadyRow(@, r)]
    <3> DEFINE row == ReadyRow(links[l], r)
    <3>1. row \in LinkRow /\ row.status = "READY" /\ links' = [links EXCEPT ![l] = row]
      BY <1>1, <2>3, ReadyRowIs
    <3> HIDE DEF row
    <3>2. QED
      BY <1>12, <2>1, <2>3, <3>1
  <2>4. QED
    BY <1>3, <1>15, <2>2, <2>3 DEF UpdateReady, Succeeds, AnswerLost
<1>16. CASE TagsReplaced(r)
  <2>1. UNCHANGED links /\ job[r].pc = "tags"
    BY <1>16 DEF TagsReplaced, tables
  <2>2. CASE JobGoesTo(r, "keep")
    BY <1>7, <1>9, <1>11, <2>1, <2>2 DEF StatusStays, Running, Unsettled
  <2>3. CASE JobGoesTo(r, "resolved")
    <3>1. ASSUME links[l].status = "PENDING"
          PROVE  \E s \in Reqs \ {r} : IsRun(s, l)
      <4>1. PICK s \in Reqs : Owes(s, l)
        BY <3>1 DEF Faultless, PendingInv, PendingHasRun
      <4>2. s # r
        BY <1>4, <2>1, <4>1 DEF Owes, Unsettled
      <4>3. IsRun(s, l)
        BY <4>1 DEF Owes, IsRun, Running
      <4>4. QED
        BY <4>2, <4>3
    <3>2. job'[r].pc \notin Running
      BY <1>11, <2>3 DEF Running, Unsettled
    <3>3. QED
      BY <1>10, <2>1, <3>1, <3>2 DEF StatusStays
  <2>4. QED
    BY <1>16, <2>2, <2>3 DEF TagsReplaced
<1>17. CASE KeepCrawled(r)
  <2>1. CASE /\ links' = [links EXCEPT ![l].title = r]
             /\ job' = [job EXCEPT ![r].pc = "markFailed", ![r].reason = "LLM_ERROR"]
    <3>1. StatusStays
      BY <1>1, <2>1 DEF StatusStays, LinkRow
    <3>2. job'[r].pc \in Running /\ job'[r].link = job[r].link
      BY <1>1, <2>1 DEF Job, Running, Unsettled
    <3>3. QED
      BY <1>7, <1>9, <3>1, <3>2
  <2>2. CASE UNCHANGED links /\ JobGoesTo(r, "rejected") /\ ~Live(l)
    BY <1>10, <1>11, <2>2 DEF StatusStays, Live, LinkStatus, Running, Unsettled
  <2>3. ~AnswerLost(Live(l))
    BY DEF Faultless, AnswerLost, Throws
  <2>4. QED
    BY <1>3, <1>6, <1>17, <2>1, <2>2, <2>3 DEF KeepCrawled
<1>18. CASE MarkFailed(r)
  <2>1. job'[r].pc \notin Running
    BY <1>11, <1>18 DEF MarkFailed, Running, Unsettled
  <2>2. CASE Live(l) /\ links' = [links EXCEPT ![l] = FailedRow(@, job[r].reason)]
    <3> DEFINE row == FailedRow(links[l], job[r].reason)
    <3>1. job[r].reason \in FailReason \cup {NULL}
      BY <1>1 DEF Job
    <3>2. row \in LinkRow /\ row.status = "FAILED" /\ links' = [links EXCEPT ![l] = row]
      BY <1>1, <2>2, <3>1, FailedRowIs
    <3> HIDE DEF row
    <3>3. QED
      BY <1>8, <1>12, <2>1, <2>2, <3>2
  <2>3. CASE UNCHANGED links /\ ~Live(l)
    BY <1>10, <2>1, <2>3 DEF StatusStays, Live, LinkStatus
  <2>4. QED
    BY <1>3, <1>6, <1>18, <2>2, <2>3 DEF MarkFailed, Succeeds, AnswerLost
<1>19. QED
  BY <1>13, <1>14, <1>15, <1>16, <1>17, <1>18 DEF JobStep

\* With no fault to come, the service implements the lifecycle of a link, up
\* to its fairness.
THEOREM ServiceRefinesLifecycle ==
    ASSUME MaxDbErrors = 0, MaxRestarts = 0
    PROVE  Spec => Lifecycle!Init /\ [][Lifecycle!Next]_(Lifecycle!vars)
<1>1. Init => Lifecycle!Init
  BY DEF Init, TablesInit, EmptyRow, JobInit, NoJob, NewRequest, Running, Unsettled,
         Lifecycle!Init
<1>2. TypeInv => Undisturbed /\ ~Restart /\ ~Throws(FALSE)
  <2> SUFFICES ASSUME TypeInv PROVE Undisturbed /\ ~Restart /\ ~Throws(FALSE)
    OBVIOUS
  <2>1. dbErrors = 0 /\ restarts = 0
    BY DEF TypeInv, TypeOK, TablesTypeOK
  <2>2. ~Restart
    BY <2>1 DEF Restart
  <2>3. ~Throws(FALSE)
    BY <2>1 DEF Throws
  <2>4. QED
    BY <2>1, <2>2, <2>3 DEF Undisturbed
<1>3. TypeInv /\ OwnerInv /\ PendingInv /\ [Next]_vars => [Lifecycle!Next]_(Lifecycle!vars)
  <2> SUFFICES ASSUME TypeInv, OwnerInv, PendingInv, [Next]_vars PROVE Maps
    BY DEF Maps
  <2>1. Faultless
    BY <1>2 DEF Faultless
  <2>2. CASE UNCHANGED vars
    BY <2>2, Stutters DEF vars, tables, Maps
  <2>3. ASSUME NEW r \in Reqs, ReplStep(r), UNCHANGED <<job, req, restarts>>
        PROVE  Maps
    <3>1. UNCHANGED links
      BY <2>3 DEF ReplStep, UpsertSelect, UpsertInsert, UpsertRefind, DeleteTagRows,
                  CreateTagRows, ReplGoesTo
    <3>2. QED
      BY <2>3, <3>1, Stutters DEF Maps
  <2>4. QED
    BY <2>1, <2>2, <2>3, ArrivalMaps, HandlerMaps, JobMaps DEF Faultless, Next, Step
<1>4. QED
  BY <1>1, <1>3, TypeInvariant, OwnershipKept, PendingNeverOrphaned, PTL DEF Spec

=============================================================================
