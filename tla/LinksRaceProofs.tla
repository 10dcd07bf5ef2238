--------------------------- MODULE LinksRaceProofs ---------------------------
(***************************************************************************)
(* Proofs about overlapping requests: only the owner's requests change a   *)
(* link, what goes amiss when runs or tag replacements overlap goes amiss  *)
(* for nothing else, and a READY link shows the outcome of one run and has *)
(* its tags.                                                               *)
(***************************************************************************)
EXTENDS LinksPendingProofs, LinksStatusProofs, LinksOverlap

-----------------------------------------------------------------------------
(* A request, its run and its call of replaceLinkTags.                     *)

\* A run that has yet to write READY: only then may it start a call.
BeforeTags == {"find", "crawl", "body", "summarize", "ready"}

\* Upserts that are under way, and those of a call that has got past them.
InFlight == {"select", "insert", "refind"}
Settled == {"none", "done"}

\* A request makes one call at most: until it gets there, the call is idle.
CallsOnce ==
    \A r \in Reqs :
        req[r].pc \in {"new", "reset", "launch"} \/ job[r].pc \in BeforeTags =>
            repl[r].pc = "idle"

\* A call deletes and creates rows when all its upserts are done, so that none
\* can fail it later.
UpsertsFirst ==
    \A r \in Reqs : \A n \in Names :
        /\ repl[r].pc = "idle" => repl[r].up[n] = "none"
        /\ repl[r].pc \in {"delete", "create", "ok"} => repl[r].up[n] \in Settled

\* What the catch of upsertTag looks up is there.
RefindFinds ==
    \A r \in Reqs : \A n \in Names : repl[r].up[n] = "refind" => TagOf(r, n) \in tags

\* A PATCH waits for its own call, on its own link.
PatchShape ==
    \A r \in Reqs :
        /\ req[r].pc \in {"tags", "patch"} => req[r].op = "update"
        /\ req[r].pc = "tags" => repl[r].link = req[r].link

CallInv == CallsOnce /\ UpsertsFirst /\ RefindFinds /\ PatchShape

\* A restart leaves no handler, no run and no call.
LEMMA RestartDrops ==
    ASSUME TypeInv, Restart, NEW r \in Reqs
    PROVE  /\ req'[r].pc \notin InHandler
           /\ job'[r].pc \notin Running
           /\ repl'[r].pc = "idle"
           /\ \A n \in Names : repl'[r].up[n] = "none"
<1>1. /\ req'[r] = IF req[r].pc \in InHandler
                    THEN [req[r] EXCEPT !.pc = "done", !.code = "dropped"]
                    ELSE req[r]
      /\ job'[r] = IF job[r].pc \in Running
                    THEN [job[r] EXCEPT !.pc = "killed"]
                    ELSE job[r]
      /\ repl'[r] = IdleRepl
  BY DEF Restart
<1>2. req[r] \in Request /\ job[r] \in Job
  BY DEF TypeInv, TypeOK, JobTypeOK
<1>3. [req[r] EXCEPT !.pc = "done", !.code = "dropped"].pc = "done"
  BY <1>2 DEF Request
<1>4. [job[r] EXCEPT !.pc = "killed"].pc = "killed"
  BY <1>2 DEF Job
<1>5. IdleRepl.pc = "idle" /\ \A n \in Names : IdleRepl.up[n] = "none"
  BY DEF IdleRepl
<1>6. "done" \notin InHandler /\ "killed" \notin Running
  BY DEF InHandler, Running, Unsettled
<1>7. req'[r].pc \notin InHandler
  BY <1>1, <1>3, <1>6
<1>8. job'[r].pc \notin Running
  BY <1>1, <1>4, <1>6
<1>9. QED
  BY <1>1, <1>5, <1>7, <1>8

\* The request of a PATCH with tags arrives and makes its call.
PatchCalls(r) ==
    \E u \in Users, l \in LinkIds :
        /\ req[r].pc = "new"
        /\ \E raw \in SUBSET RawNames : StartReplace(r, u, l, raw)
        /\ Owned(l, u)
        /\ req'[r].pc = "tags"
        /\ req'[r].op = "update"
        /\ req'[r].user = u
        /\ req'[r].link = l
        /\ UNCHANGED <<links, tags, tagsOnLinks, job>>

\* A run makes its call.
RunCalls(r) ==
    /\ RunStarts(r)
    /\ job'[r].pc = "tags"
    /\ UNCHANGED <<req, tags, tagsOnLinks>>

CallSteps(r) == ReplStep(r) /\ UNCHANGED <<job, req, restarts>>

\* What a step does to one call of replaceLinkTags.
LEMMA CallMoves ==
    ASSUME TypeInv, [Next]_vars, NEW r \in Reqs
    PROVE  \/ repl'[r] = repl[r]
           \/ Restart
           \/ CallSteps(r)
           \/ PatchCalls(r)
           \/ RunCalls(r)
<1> DEFINE Goal == repl'[r] = repl[r] \/ Restart \/ CallSteps(r) \/ PatchCalls(r) \/ RunCalls(r)
<1>1. /\ repl \in [Reqs -> Repl] /\ job \in [Reqs -> Job] /\ req \in [Reqs -> Request]
  BY DEF TypeInv, TypeOK, ReplTypeOK, JobTypeOK
<1>2. CASE UNCHANGED repl
  BY <1>2
<1>3. ASSUME NEW s \in Reqs, s # r, NEW u, NEW l, NEW raw, StartReplace(s, u, l, raw)
      PROVE  repl'[r] = repl[r]
  BY <1>1, <1>3 DEF StartReplace
<1>4. ASSUME NEW s \in Reqs, NEW u \in Users, NEW l \in LinkIds, NEW title \in BOOLEAN,
             Update(s, u, l, title)
      PROVE  Goal
  <2>1. ASSUME NEW raw \in PatchTagLists, req[s].pc = "new", StartReplace(s, u, l, raw), Owned(l, u),
               UNCHANGED <<links, tags, tagsOnLinks, job>>,
               Arrive(s, "update", u, l, title, "tags")
        PROVE  Goal
    <3>1. CASE s = r
      <4> DEFINE q == [NewRequest EXCEPT !.pc = "tags", !.op = "update", !.user = u,
                                         !.link = l, !.title = title]
      <4>1. q.pc = "tags" /\ q.op = "update" /\ q.user = u /\ q.link = l
        BY DEF NewRequest
      <4>2. req'[r] = q
        BY <1>1, <2>1, <3>1 DEF Arrive
      <4> HIDE DEF q
      <4>3. PatchCalls(r)
        BY <2>1, <3>1, <4>1, <4>2, ServiceAssumption DEF PatchCalls
      <4>4. QED
        BY <4>3
    <3>2. QED
      BY <1>3, <2>1, <3>1
  <2>2. CASE UNCHANGED repl
    BY <1>2, <2>2
  <2>3. QED
    BY <1>4, <2>1, <2>2 DEF Update, Refused, Succeeds
<1>5. ASSUME NEW s \in Reqs, Arrival(s)
      PROVE  Goal
  <2>1. ASSUME NEW u \in Users, NEW l \in LinkIds,
               Create(s, u) \/ Remove(s, u, l) \/ Reprocess(s, u, l)
        PROVE  UNCHANGED repl
    BY <2>1 DEF Create, Remove, Reprocess, Refused
  <2>2. ASSUME NEW u \in Users, Create(s, u)
        PROVE  UNCHANGED repl
    BY <2>2 DEF Create
  <2>3. QED
    BY <1>2, <1>4, <1>5, <2>1, <2>2 DEF Arrival
<1>6. ASSUME NEW s \in Reqs, HandlerStep(s)
      PROVE  UNCHANGED repl
  BY <1>6 DEF HandlerStep, PatchTagsReplaced, PatchLink, DeleteLink, ResetLink, Launch
<1>7. ASSUME NEW s \in Reqs, JobStep(s), UNCHANGED <<req, restarts>>
      PROVE  Goal
  <2>1. CASE UpdateReady(s) /\ ~UNCHANGED repl
    <3>1. CASE s = r
      <4>1. job' = [job EXCEPT ![r].pc = "tags"] /\ RunStarts(r)
        BY <2>1, <3>1 DEF UpdateReady, RunStarts, JobGoesTo
      <4>2. job'[r].pc = "tags"
        BY <1>1, <4>1 DEF Job
      <4>3. RunCalls(r)
        BY <1>7, <2>1, <3>1, <4>1, <4>2 DEF RunCalls, UpdateReady
      <4>4. QED
        BY <4>3
    <3>2. CASE s # r
      BY <1>3, <2>1, <3>2 DEF UpdateReady
    <3>3. QED
      BY <3>1, <3>2
  <2>2. QED
    BY <1>2, <1>7, <2>1 DEF JobStep, Find, Crawl, ReadBody, CrawlFails, Summarize,
                            TagsReplaced, KeepCrawled, MarkFailed
<1>8. ASSUME NEW s \in Reqs, CallSteps(s)
      PROVE  Goal
  <2>1. CASE s = r
    BY <1>8, <2>1
  <2>2. CASE s # r
    BY <1>1, <1>8, <2>2 DEF CallSteps, ReplStep, UpsertSelect, UpsertInsert, UpsertRefind,
                            DeleteTagRows, CreateTagRows, UpsertResolves, UpsertRejects,
                            UpsertGoesTo, Upsert, ReplGoesTo
  <2>3. QED
    BY <2>1, <2>2
<1>9. QED
  BY <1>2, <1>5, <1>6, <1>7, <1>8 DEF Next, Step, vars, CallSteps

\* An upsert of call r goes on: it gets to its next statement, it resolves and
\* may be the last to do so, or a lost connection makes it and the call fail.
UpsertMoves(r) ==
    \E n \in Names, up \in UpsertPc :
        /\ repl[r].up[n] \in InFlight
        /\ repl'[r].up = [repl[r].up EXCEPT ![n] = up]
        /\ up = "refind" => TagOf(r, n) \in tags
        /\ \/ /\ repl'[r].pc = repl[r].pc /\ up # "failed"
              /\ up = "done" /\ repl[r].pc = "upsert" =>
                     \E m \in Names \ {n} : repl[r].up[m] \notin Settled
           \/ /\ up = "done" /\ repl[r].pc = "upsert" /\ repl'[r].pc = "delete"
              /\ \A m \in Names \ {n} : repl[r].up[m] \in Settled
           \/ repl'[r].pc = "err" /\ Throws(FALSE)
        /\ UNCHANGED tagsOnLinks

\* A step of a call keeps its arguments and the links, and is a step of an
\* upsert or one of the two statements that follow.
LEMMA CallStepIs ==
    ASSUME TypeInv, CallInv, NEW r \in Reqs, ReplStep(r)
    PROVE  /\ repl'[r].user = repl[r].user
           /\ repl'[r].link = repl[r].link
           /\ UNCHANGED links
           /\ \/ UpsertMoves(r)
              \/ DeleteTagRows(r) /\ repl'[r].up = repl[r].up
              \/ CreateTagRows(r) /\ repl'[r].up = repl[r].up
<1>1. repl \in [Reqs -> Repl] /\ repl[r] \in Repl /\ repl[r].up \in [Names -> UpsertPc]
  BY DEF TypeInv, TypeOK, ReplTypeOK, Repl
<1>2. repl'[r].user = repl[r].user /\ repl'[r].link = repl[r].link
  BY ReplStepKeeps
<1>3. UNCHANGED links
  BY DEF ReplStep, UpsertSelect, UpsertInsert, UpsertRefind, DeleteTagRows, CreateTagRows,
         ReplGoesTo
<1>4. ASSUME NEW n \in Names, NEW up, NEW pc, Upsert(r, n, up, pc)
      PROVE  repl'[r].pc = pc /\ repl'[r].up = [repl[r].up EXCEPT ![n] = up]
  BY <1>1, <1>4 DEF Upsert
<1>5. ASSUME NEW n \in Names, UpsertSelect(r, n) \/ UpsertInsert(r, n) \/ UpsertRefind(r, n)
      PROVE  UpsertMoves(r)
  <2>1. repl[r].up[n] \in InFlight /\ UNCHANGED tagsOnLinks
    BY <1>5 DEF UpsertSelect, UpsertInsert, UpsertRefind, InFlight
  <2>2. CASE UpsertResolves(r, n)
    <3> DEFINE last == repl[r].pc = "upsert" /\ \A m \in Names \ {n} : repl[r].up[m] \in Settled
    <3>1. Upsert(r, n, "done", IF last THEN "delete" ELSE repl[r].pc)
      BY <2>2 DEF UpsertResolves, Settled
    <3>2. /\ repl'[r].pc = IF last THEN "delete" ELSE repl[r].pc
          /\ repl'[r].up = [repl[r].up EXCEPT ![n] = "done"]
      BY <1>4, <3>1
    <3>3. "done" \in UpsertPc /\ "done" # "refind"
      BY DEF UpsertPc
    <3>4. QED
      BY <2>1, <3>2, <3>3 DEF UpsertMoves
  <2>3. CASE UpsertRejects(r, n) /\ Throws(FALSE)
    <3>1. "failed" \in UpsertPc
      BY DEF UpsertPc
    <3>2. repl'[r].pc = "err" /\ repl'[r].up = [repl[r].up EXCEPT ![n] = "failed"]
      BY <1>4, <2>3 DEF UpsertRejects
    <3>3. QED
      BY <2>1, <2>3, <3>1, <3>2 DEF UpsertMoves
  <2>4. ASSUME NEW up \in {"insert", "refind"}, UpsertGoesTo(r, n, up),
               up = "refind" => TagOf(r, n) \in tags
        PROVE  UpsertMoves(r)
    <3>1. repl'[r].pc = repl[r].pc /\ repl'[r].up = [repl[r].up EXCEPT ![n] = up]
      BY <1>4, <2>4 DEF UpsertGoesTo
    <3>2. up \in UpsertPc
      BY <2>4 DEF UpsertPc
    <3>3. QED
      BY <2>1, <2>4, <3>1, <3>2 DEF UpsertMoves
  <2>5. /\ UpsertGoesTo(r, n, "insert") => UpsertMoves(r)
        /\ UpsertGoesTo(r, n, "refind") /\ TagOf(r, n) \in tags => UpsertMoves(r)
    BY <2>4
  <2>6. UpsertRefind(r, n) => TagOf(r, n) \in tags
    BY DEF UpsertRefind, CallInv, RefindFinds
  <2>7. /\ Throws(TagOf(r, n) \notin tags) /\ TagOf(r, n) \in tags => Throws(FALSE)
        /\ AnswerLost(TagOf(r, n) \notin tags) => Throws(FALSE)
    BY DEF AnswerLost, Throws
  <2>8. QED
    BY <1>5, <2>2, <2>3, <2>4, <2>5, <2>6, <2>7
       DEF UpsertSelect, UpsertInsert, UpsertRefind, Succeeds, AnswerLost
<1>6. CASE DeleteTagRows(r) \/ CreateTagRows(r)
  <2>1. ASSUME NEW pc, repl' = [repl EXCEPT ![r].pc = pc]
        PROVE  repl'[r].up = repl[r].up
    BY <1>1, <2>1 DEF Repl
  <2>2. QED
    BY <1>2, <1>3, <1>6, <2>1 DEF DeleteTagRows, CreateTagRows, ReplGoesTo
<1>7. QED
  BY <1>2, <1>3, <1>5, <1>6 DEF ReplStep

\* Every step keeps what is known of the upserts.
LEMMA UpsertsStep ==
    ASSUME TypeInv, CallInv, [Next]_vars
    PROVE  UpsertsFirst' /\ RefindFinds'
<1>1. repl \in [Reqs -> Repl] /\ \A r \in Reqs : repl[r].up \in [Names -> UpsertPc]
  BY DEF TypeInv, TypeOK, ReplTypeOK, Repl
<1>2. tags \subseteq tags'
  BY TagsGrow
<1> SUFFICES ASSUME NEW r \in Reqs, NEW m \in Names
             PROVE  /\ repl'[r].pc = "idle" => repl'[r].up[m] = "none"
                    /\ repl'[r].pc \in {"delete", "create", "ok"} =>
                           repl'[r].up[m] \in Settled
                    /\ repl'[r].up[m] = "refind" => TagOf(r, m)' \in tags'
  BY DEF UpsertsFirst, RefindFinds
<1> DEFINE Goal == /\ repl'[r].pc = "idle" => repl'[r].up[m] = "none"
                   /\ repl'[r].pc \in {"delete", "create", "ok"} =>
                          repl'[r].up[m] \in Settled
                   /\ repl'[r].up[m] = "refind" => TagOf(r, m)' \in tags'
<1>3. /\ repl[r].pc = "idle" => repl[r].up[m] = "none"
      /\ repl[r].pc \in {"delete", "create", "ok"} => repl[r].up[m] \in Settled
      /\ repl[r].up[m] = "refind" => TagOf(r, m) \in tags
  BY DEF CallInv, UpsertsFirst, RefindFinds
<1>4. CASE repl'[r] = repl[r]
  BY <1>2, <1>3, <1>4 DEF TagOf
<1>5. CASE Restart
  <2>1. repl'[r].up[m] = "none"
    BY <1>5 DEF Restart, IdleRepl
  <2>2. QED
    BY <2>1 DEF Settled
<1>6. ASSUME NEW u, NEW l, NEW raw, StartReplace(r, u, l, raw)
      PROVE  Goal
  <2>1. /\ repl'[r].pc = IF Normalized(raw) = {} THEN "delete" ELSE "upsert"
        /\ repl'[r].up = [n \in Names |-> IF n \in Normalized(raw) THEN "select" ELSE "none"]
    BY <1>1, <1>6 DEF StartReplace
  <2>2. QED
    BY <2>1 DEF Settled
<1>7. CASE CallSteps(r)
  <2>1. repl'[r].user = repl[r].user
    BY <1>7, CallStepIs DEF CallSteps
  <2>2. CASE UpsertMoves(r)
    <3>1. PICK n \in Names, up \in UpsertPc :
              /\ repl[r].up[n] \in InFlight
              /\ repl'[r].up = [repl[r].up EXCEPT ![n] = up]
              /\ up = "refind" => TagOf(r, n) \in tags
              /\ \/ repl'[r].pc = repl[r].pc
                 \/ /\ up = "done" /\ repl'[r].pc = "delete"
                    /\ \A k \in Names \ {n} : repl[r].up[k] \in Settled
                 \/ repl'[r].pc = "err"
      BY <2>2 DEF UpsertMoves
    <3>2. repl[r].pc \notin {"idle", "delete", "create", "ok"}
      BY <3>1 DEF CallInv, UpsertsFirst, InFlight, Settled
    <3>3. repl'[r].up[m] = IF m = n THEN up ELSE repl[r].up[m]
      BY <1>1, <3>1
    <3>4. repl'[r].up[m] = "refind" => TagOf(r, m)' \in tags'
      BY <1>2, <1>3, <2>1, <3>1, <3>3 DEF TagOf
    <3>5. /\ repl'[r].pc = "idle" => repl'[r].up[m] = "none"
          /\ repl'[r].pc \in {"delete", "create", "ok"} => repl'[r].up[m] \in Settled
      BY <3>1, <3>2, <3>3 DEF Settled
    <3>6. QED
      BY <3>4, <3>5
  <2>3. CASE DeleteTagRows(r) \/ CreateTagRows(r)
    <3>1. repl[r].pc \in {"delete", "create"}
      BY <2>3 DEF DeleteTagRows, CreateTagRows, ReplGoesTo
    <3>2. repl'[r].up = repl[r].up \/ UpsertMoves(r)
      BY <1>7, CallStepIs DEF CallSteps
    <3>3. repl'[r].pc # "idle"
      BY <1>1, <2>3 DEF DeleteTagRows, CreateTagRows, Repl, ReplGoesTo
    <3>4. QED
      BY <1>3, <2>2, <3>1, <3>2, <3>3 DEF Settled
  <2>4. QED
    BY <1>7, <2>2, <2>3, CallStepIs DEF CallSteps
<1>8. QED
  BY <1>4, <1>5, <1>6, <1>7, CallMoves DEF PatchCalls, RunCalls, RunStarts

\* A run that has yet to write READY was such a run before, or is launched.
LEMMA EarlyOrigin ==
    ASSUME TypeInv, [Next]_vars, NEW r \in Reqs, job'[r].pc \in BeforeTags
    PROVE  job[r].pc \in BeforeTags \/ req[r].pc = "launch"
<1>1. job \in [Reqs -> Job]
  BY DEF TypeInv, TypeOK, JobTypeOK
<1>2. CASE UNCHANGED job
  BY <1>2
<1>3. CASE Restart
  <2>1. CASE job[r].pc \in Running
    BY <1>1, <1>3, <2>1 DEF Restart, Job, BeforeTags
  <2>2. CASE job[r].pc \notin Running
    BY <1>3, <2>2 DEF Restart
  <2>3. QED
    BY <2>1, <2>2
<1>4. ASSUME NEW s \in Reqs, HandlerStep(s)
      PROVE  job'[r] = job[r] \/ req[r].pc = "launch"
  <2>1. Launch(s) => job'[r] = job[r] \/ req[r].pc = "launch"
    BY <1>1 DEF Launch, StartEnrich
  <2>2. QED
    BY <1>4, <2>1 DEF HandlerStep, PatchTagsReplaced, PatchLink, DeleteLink, ResetLink
<1>5. ASSUME NEW s \in Reqs, JobStep(s), s # r
      PROVE  job'[r] = job[r]
  BY <1>1, <1>5, OneJob
<1>6. CASE JobStep(r)
  <2>1. CASE Find(r) \/ Crawl(r) \/ ReadBody(r) \/ Summarize(r) \/ UpdateReady(r)
    BY <2>1 DEF Find, Crawl, ReadBody, Summarize, UpdateReady, BeforeTags
  <2>2. CASE TagsReplaced(r) \/ KeepCrawled(r) \/ MarkFailed(r)
    BY <1>1, <2>2 DEF TagsReplaced, KeepCrawled, MarkFailed, JobGoesTo, Job, BeforeTags
  <2>3. QED
    BY <1>6, <2>1, <2>2 DEF JobStep
<1>7. ASSUME NEW s \in Reqs, Arrival(s)
      PROVE  UNCHANGED job
  BY <1>7 DEF Arrival, Create, Update, Remove, Reprocess
<1>8. QED
  BY <1>2, <1>3, <1>4, <1>5, <1>6, <1>7 DEF Next, Step, vars

\* A request that is to launch a run has neither checked nor called anything
\* but its own reset before.
LEMMA LaunchOrigin ==
    ASSUME TypeInv, [Next]_vars, NEW r \in Reqs, req'[r].pc \in {"new", "reset", "launch"}
    PROVE  req[r].pc \in {"new", "reset", "launch"}
<1>1. req \in [Reqs -> Request]
  BY DEF TypeInv, TypeOK
<1>2. CASE UNCHANGED req
  BY <1>2
<1>3. CASE Restart
  BY <1>1, <1>3 DEF Restart, Request, InHandler
<1>4. ASSUME NEW s \in Reqs, Arrival(s) \/ HandlerStep(s), s # r
      PROVE  req'[r] = req[r]
  BY <1>1, <1>4, OneRequest
<1>5. CASE Arrival(r)
  BY <1>5 DEF Arrival, Create, Update, Remove, Reprocess
<1>6. CASE HandlerStep(r)
  BY <1>1, <1>6 DEF HandlerStep, PatchTagsReplaced, PatchLink, DeleteLink, ResetLink,
                    Launch, ReqGoesTo, Answer, Request
<1>7. QED
  BY <1>2, <1>3, <1>4, <1>5, <1>6 DEF Next, Step, vars

\* No call is made before its time, and none twice.
LEMMA CallsOnceStep ==
    ASSUME TypeInv, LaunchesOnce, CallInv, [Next]_vars
    PROVE  CallsOnce'
<1> SUFFICES ASSUME NEW r \in Reqs,
                    \/ req'[r].pc \in {"new", "reset", "launch"}
                    \/ job'[r].pc \in BeforeTags
             PROVE  repl'[r].pc = "idle"
  BY DEF CallsOnce
<1>1. repl[r].pc = "idle"
  BY EarlyOrigin, LaunchOrigin DEF CallInv, CallsOnce
<1>2. \A n \in Names : repl[r].up[n] = "none"
  BY <1>1 DEF CallInv, UpsertsFirst
<1>3. ~CallSteps(r)
  BY <1>1, <1>2 DEF CallSteps, ReplStep, UpsertSelect, UpsertInsert, UpsertRefind,
                    DeleteTagRows, CreateTagRows, ReplGoesTo
<1>4. ~PatchCalls(r)
  BY DEF PatchCalls, LaunchesOnce, BeforeTags
<1>5. ~RunCalls(r)
  BY DEF RunCalls, RunStarts, LaunchesOnce, BeforeTags
<1>6. Restart => repl'[r].pc = "idle"
  BY RestartDrops
<1>7. repl'[r] = repl[r] \/ Restart
  BY <1>3, <1>4, <1>5, CallMoves
<1>8. QED
  BY <1>1, <1>6, <1>7

\* A PATCH in a handler was there before, or has just passed its check.
LEMMA PatchOrigin ==
    ASSUME TypeInv, [Next]_vars, NEW r \in Reqs, req'[r].pc \in {"tags", "patch"}
    PROVE  \/ /\ req[r].pc \in {"tags", "patch"}
              /\ req'[r].pc = "tags" => req[r].pc = "tags"
           \/ /\ req'[r].op = "update"
              /\ req'[r].pc = "tags" => repl'[r].link = req'[r].link
<1> DEFINE Goal == \/ /\ req[r].pc \in {"tags", "patch"}
                      /\ req'[r].pc = "tags" => req[r].pc = "tags"
                   \/ /\ req'[r].op = "update"
                      /\ req'[r].pc = "tags" => repl'[r].link = req'[r].link
<1>1. req \in [Reqs -> Request] /\ repl \in [Reqs -> Repl]
  BY DEF TypeInv, TypeOK, ReplTypeOK
<1>2. CASE UNCHANGED req
  BY <1>2
<1>3. CASE Restart
  BY <1>1, <1>3 DEF Restart, Request, InHandler
<1>4. ASSUME NEW s \in Reqs, Arrival(s) \/ HandlerStep(s), s # r
      PROVE  req'[r] = req[r]
  BY <1>1, <1>4, OneRequest
<1>5. ASSUME NEW op, NEW u, NEW l, NEW title, NEW pc, Arrive(r, op, u, l, title, pc)
      PROVE  req'[r].pc = pc /\ req'[r].op = op /\ req'[r].link = l
  BY <1>1, <1>5 DEF Arrive, NewRequest
<1>6. ASSUME NEW op, NEW u, NEW l, NEW code, Refuse(r, op, u, l, code)
      PROVE  FALSE
  BY <1>1, <1>6 DEF Refuse, NewRequest
<1>7. ASSUME NEW u, NEW l, NEW raw, StartReplace(r, u, l, raw)
      PROVE  repl'[r].link = l
  BY <1>1, <1>7 DEF StartReplace
<1>8. ASSUME NEW u \in Users, NEW l \in LinkIds, NEW title \in BOOLEAN,
             Update(r, u, l, title)
      PROVE  Goal
  <2>1. ASSUME NEW pc, Arrive(r, "update", u, l, title, pc)
        PROVE  req'[r].op = "update" /\ req'[r].link = l /\ req'[r].pc = pc
    BY <1>5, <2>1
  <2>2. CASE Arrive(r, "update", u, l, title, "patch")
    <3>1. req'[r].op = "update" /\ req'[r].pc = "patch"
      BY <2>1, <2>2
    <3>2. QED
      BY <3>1
  <2>3. ASSUME NEW raw, StartReplace(r, u, l, raw), Arrive(r, "update", u, l, title, "tags")
        PROVE  Goal
    <3>1. req'[r].op = "update" /\ req'[r].link = l
      BY <2>1, <2>3
    <3>2. QED
      BY <1>7, <2>3, <3>1
  <2>4. ~Refused(r, "update", u, l)
    BY <1>6 DEF Refused
  <2>5. QED
    BY <1>8, <2>2, <2>3, <2>4 DEF Update
<1>9. ASSUME NEW op, NEW u, NEW l, NEW pc \in {"delete", "reset", "launch"},
             Arrive(r, op, u, l, FALSE, pc)
      PROVE  FALSE
  <2>1. req'[r].pc = pc
    BY <1>5, <1>9
  <2>2. QED
    BY <2>1
<1>10. ASSUME NEW u \in Users, NEW l \in LinkIds
       PROVE  ~Create(r, u) /\ ~Remove(r, u, l) /\ ~Reprocess(r, u, l)
  <2>1. /\ \A k : ~Arrive(r, "create", u, k, FALSE, "launch")
        /\ ~Arrive(r, "remove", u, l, FALSE, "delete")
        /\ ~Arrive(r, "reprocess", u, l, FALSE, "reset")
    BY <1>9
  <2>2. /\ \A k : ~Refuse(r, "create", u, k, "500")
        /\ ~Refused(r, "remove", u, l)
        /\ ~Refused(r, "reprocess", u, l)
    BY <1>6 DEF Refused
  <2>3. QED
    BY <2>1, <2>2 DEF Create, Remove, Reprocess
<1>11. CASE HandlerStep(r)
  BY <1>1, <1>11 DEF HandlerStep, PatchTagsReplaced, PatchLink, DeleteLink, ResetLink,
                     Launch, ReqGoesTo, Answer, Request
<1>12. LinkIds # {} \/ \A u \in Users : ~Create(r, u)
  BY <1>6 DEF Create
<1>13. QED
  BY <1>2, <1>3, <1>4, <1>8, <1>10, <1>11, <1>12 DEF Next, Step, Arrival, vars

\* A PATCH goes on waiting for its own call.
LEMMA PatchShapeStep ==
    ASSUME TypeInv, LaunchesOnce, CallInv, [Next]_vars
    PROVE  PatchShape'
<1> SUFFICES ASSUME NEW r \in Reqs, req'[r].pc \in {"tags", "patch"}
             PROVE  /\ req'[r].op = "update"
                    /\ req'[r].pc = "tags" => repl'[r].link = req'[r].link
  BY DEF PatchShape
<1>1. CASE req[r].pc \in {"tags", "patch"} /\ (req'[r].pc = "tags" => req[r].pc = "tags")
  <2>1. req'[r].op = req[r].op /\ req'[r].link = req[r].link
    BY <1>1, ArgsStay
  <2>2. req[r].op = "update" /\ (req[r].pc = "tags" => repl[r].link = req[r].link)
    BY <1>1 DEF CallInv, PatchShape
  <2>3. ~PatchCalls(r) /\ ~RunCalls(r)
    BY <1>1 DEF PatchCalls, RunCalls, RunStarts, LaunchesOnce
  <2>4. ~Restart
    BY RestartDrops DEF InHandler
  <2>5. repl'[r].link = repl[r].link
    BY <2>3, <2>4, CallMoves, CallStepIs DEF CallSteps
  <2>6. QED
    BY <1>1, <2>1, <2>2, <2>5
<1>2. QED
  BY <1>1, PatchOrigin

\* The calls of replaceLinkTags are made in order, and none of them twice.
THEOREM CallsInOrder == Spec => []CallInv
<1>1. Init => CallInv
  <2> SUFFICES ASSUME Init PROVE CallInv
    OBVIOUS
  <2>1. \A r \in Reqs : repl[r].pc = "idle" /\ \A n \in Names : repl[r].up[n] = "none"
    BY DEF Init, ReplInit, IdleRepl
  <2>2. \A r \in Reqs : req[r].pc = "new"
    BY DEF Init, NewRequest
  <2>3. QED
    BY <2>1, <2>2 DEF CallInv, CallsOnce, UpsertsFirst, RefindFinds, PatchShape
<1>2. TypeInv /\ PendingInv /\ CallInv /\ [Next]_vars => CallInv'
  <2> SUFFICES ASSUME TypeInv, PendingInv, CallInv, [Next]_vars PROVE CallInv'
    OBVIOUS
  <2>1. LaunchesOnce
    BY DEF PendingInv
  <2>2. QED
    BY <2>1, UpsertsStep, CallsOnceStep, PatchShapeStep DEF CallInv
<1>3. QED
  BY <1>1, <1>2, TypeInvariant, PendingNeverOrphaned, PTL DEF Spec

\* The steps of a run.
LEMMA RunSteps ==
    ASSUME TypeInv, NEW r \in Reqs, JobStep(r)
    PROVE  \/ job[r].pc = "find" /\ job'[r].pc \in {"crawl", "resolved", "rejected"}
           \/ job[r].pc = "crawl" /\ job'[r].pc \in {"body", "markFailed"}
           \/ job[r].pc = "body" /\ job'[r].pc \in {"summarize", "markFailed"}
           \/ job[r].pc = "summarize" /\ job'[r].pc \in {"ready", "keep"}
           \/ job[r].pc = "ready" /\ job'[r].pc \in {"tags", "keep"}
           \/ job[r].pc = "tags" /\ job'[r].pc \in {"resolved", "keep"}
           \/ job[r].pc = "keep" /\ job'[r].pc \in {"markFailed", "rejected"}
           \/ job[r].pc = "markFailed" /\ job'[r].pc \in {"resolved", "rejected"}
<1>1. job \in [Reqs -> Job]
  BY DEF TypeInv, TypeOK, JobTypeOK
<1>2. CASE Find(r)
  <2>1. \/ job' = [job EXCEPT ![r].pc = "crawl", ![r].owner = JobRow(r).userId]
        \/ \E pc \in {"resolved", "rejected"} : job' = [job EXCEPT ![r].pc = pc]
    BY <1>2 DEF Find, JobGoesTo
  <2>2. job'[r].pc \in {"crawl", "resolved", "rejected"}
    BY <1>1, <2>1 DEF Job
  <2>3. QED
    BY <1>2, <2>2 DEF Find
<1>3. CASE Crawl(r) \/ ReadBody(r) \/ Summarize(r)
  BY <1>1, <1>3 DEF Crawl, ReadBody, CrawlFails, Summarize, JobGoesTo, Job
<1>4. CASE UpdateReady(r) \/ TagsReplaced(r)
  BY <1>1, <1>4 DEF UpdateReady, TagsReplaced, JobGoesTo, Job
<1>5. CASE KeepCrawled(r) \/ MarkFailed(r)
  BY <1>1, <1>5 DEF KeepCrawled, MarkFailed, JobGoesTo, Job
<1>6. QED
  BY <1>2, <1>3, <1>4, <1>5 DEF JobStep

-----------------------------------------------------------------------------
(* Only requests of the owner.  A run and a call of replaceLinkTags act    *)
(* for the user of their request: what that user was found to own stays    *)
(* theirs.                                                                 *)

ActorsHold ==
    \A r \in Reqs :
        /\ job[r].pc \in Running => Holds(job[r].link, req[r].user)
        /\ Replacing(r) => Holds(repl[r].link, req[r].user)

\* A request with a run or a call has arrived.
LEMMA ActorsArrived ==
    ASSUME LaunchesOnce, CallInv, NEW r \in Reqs,
           job[r].pc \in Running \/ Replacing(r)
    PROVE  req[r].pc # "new"
<1>1. job[r].pc \in Running => req[r].pc # "new"
  BY DEF LaunchesOnce, Running, Unsettled
<1>2. Replacing(r) => repl[r].pc # "idle"
  BY DEF CallInv, UpsertsFirst, Replacing
<1>3. QED
  BY <1>1, <1>2 DEF CallInv, CallsOnce

\* Every step keeps what is known of the runs ...
LEMMA RunsHoldStep ==
    ASSUME TypeInv, OwnerInv, LaunchesOnce, CallInv, ActorsHold, [Next]_vars,
           NEW r \in Reqs, job'[r].pc \in Running
    PROVE  Holds(job[r].link, req[r].user)'
<1>1. job'[r].link \in LinkIds
  BY TypeStep DEF TypeInv, JobArgsSet
<1>2. \A l \in LinkIds : \A u : Holds(l, u) => Holds(l, u)'
  BY HoldsStays
<1>3. ASSUME NEW l, job'[r].link = l, Holds(l, req[r].user), req[r].pc # "new"
      PROVE  Holds(job[r].link, req[r].user)'
  <2>1. Holds(l, req[r].user)' \/ ~(req'[r].user = req[r].user)
    BY <1>1, <1>2, <1>3 DEF Holds, Live
  <2>2. req'[r].user = req[r].user
    BY <1>3, ArgsStay
  <2>3. QED
    BY <1>1, <1>2, <1>3, <2>2 DEF Holds, Live
<1>4. CASE job[r].pc \in Running /\ job'[r].link = job[r].link
  BY <1>3, <1>4, ActorsArrived DEF ActorsHold
<1>5. CASE req[r].pc = "launch" /\ job'[r].link = req[r].link
  BY <1>3, <1>5 DEF OwnerInv, ReqHolds, InHandler
<1>6. QED
  BY <1>4, <1>5, JobOrigin DEF Running, Unsettled

\* ... and of the calls.
LEMMA CallsHoldStep ==
    ASSUME TypeInv, OwnerInv, LaunchesOnce, CallInv, ActorsHold, [Next]_vars,
           NEW r \in Reqs, Replacing(r)'
    PROVE  Holds(repl[r].link, req[r].user)'
<1>1. repl'[r].link \in LinkIds /\ repl \in [Reqs -> Repl]
  BY TypeStep DEF TypeInv, ReplArgsSet, TypeOK, ReplTypeOK
<1>2. \A l \in LinkIds : \A u : Holds(l, u) => Holds(l, u)'
  BY HoldsStays
<1>3. ASSUME NEW l, NEW u, repl'[r].link = l, req'[r].user = u, Holds(l, u)
      PROVE  Holds(repl[r].link, req[r].user)'
  BY <1>1, <1>2, <1>3 DEF Holds, Live
<1>4. CASE Replacing(r) /\ repl'[r].link = repl[r].link
  BY <1>3, <1>4, ActorsArrived, ArgsStay DEF ActorsHold
<1>5. CASE PatchCalls(r)
  <2>1. PICK u \in Users, l \in LinkIds :
            (\E raw : StartReplace(r, u, l, raw)) /\ Owned(l, u) /\ req'[r].user = u
    BY <1>5 DEF PatchCalls
  <2>2. repl'[r].link = l
    BY <1>1, <2>1 DEF StartReplace
  <2>3. Holds(l, u)
    BY <2>1 DEF Owned, Holds, Live, LinkStatus
  <2>4. QED
    BY <1>3, <2>1, <2>2, <2>3
<1>6. CASE RunCalls(r)
  <2>1. job[r].pc \in Running /\ req'[r].user = req[r].user
    BY <1>6 DEF RunCalls, RunStarts, Running, Unsettled
  <2>2. repl'[r].link = job[r].link
    BY <1>1, <1>6 DEF RunCalls, RunStarts, StartReplace
  <2>3. QED
    BY <1>3, <2>1, <2>2 DEF ActorsHold
<1>7. CASE repl'[r] = repl[r]
  BY <1>4, <1>7 DEF Replacing
<1>8. CASE CallSteps(r)
  BY <1>4, <1>8, ReplStepKeeps DEF CallSteps
<1>9. ~Restart
  BY RestartDrops DEF Replacing
<1>10. QED
  BY <1>5, <1>6, <1>7, <1>8, <1>9, CallMoves

\* Runs and tag replacements hold what the user of their request held.
THEOREM ActorsAlwaysHold == Spec => []ActorsHold
<1>1. Init => ActorsHold
  <2> SUFFICES ASSUME Init PROVE ActorsHold
    OBVIOUS
  <2>1. \A r \in Reqs : job[r].pc = "none"
    BY DEF Init, JobInit, NoJob
  <2>2. \A r \in Reqs : ~Replacing(r)
    BY DEF Init, ReplInit, IdleRepl, Replacing
  <2>3. QED
    BY <2>1, <2>2 DEF ActorsHold, Running, Unsettled
<1>2. /\ TypeInv /\ OwnerInv /\ PendingInv /\ CallInv /\ ActorsHold /\ [Next]_vars
      => ActorsHold'
  <2> SUFFICES ASSUME TypeInv, OwnerInv, PendingInv, CallInv, ActorsHold, [Next]_vars
               PROVE  ActorsHold'
    OBVIOUS
  <2>1. LaunchesOnce
    BY DEF PendingInv
  <2>2. \A r \in Reqs : job'[r].pc \in Running => Holds(job[r].link, req[r].user)'
    BY <2>1, RunsHoldStep
  <2>3. \A r \in Reqs : Replacing(r)' => Holds(repl[r].link, req[r].user)'
    BY <2>1, CallsHoldStep
  <2>4. QED
    BY <2>2, <2>3 DEF ActorsHold
<1>3. QED
  BY <1>1, <1>2, TypeInvariant, OwnershipKept, PendingNeverOrphaned, CallsInOrder, PTL
     DEF Spec

\* A step of request r, or of what it started.
Moves(r) == <<req[r], job[r], repl[r]>>' # <<req[r], job[r], repl[r]>>

\* A step that changes a live row, or takes tags from a link or gives it some,
\* is a step of a request, run or call that is about this link.
LEMMA ChangeOrigin ==
    ASSUME TypeInv, [Next]_vars, NEW l \in LinkIds, Live(l),
           links'[l] # links[l] \/ TagsOf(l)' # TagsOf(l)
    PROVE  \E r \in Reqs :
              /\ Moves(r)
              /\ \/ req[r].pc \in InHandler /\ req[r].link = l
                 \/ job[r].pc \in Running /\ job[r].link = l
                 \/ Replacing(r) /\ repl[r].link = l
<1> DEFINE Goal == \E r \in Reqs :
                      /\ Moves(r)
                      /\ \/ req[r].pc \in InHandler /\ req[r].link = l
                         \/ job[r].pc \in Running /\ job[r].link = l
                         \/ Replacing(r) /\ repl[r].link = l
<1>1. /\ links \in [LinkIds -> LinkRow] /\ req \in [Reqs -> Request]
      /\ job \in [Reqs -> Job] /\ repl \in [Reqs -> Repl]
  BY DEF TypeInv, TypeOK, TablesTypeOK, JobTypeOK, ReplTypeOK
<1>2. ~UNCHANGED <<links, tagsOnLinks>>
  BY DEF TagsOf
<1>3. ASSUME NEW r \in Reqs, NEW u \in Users, Create(r, u)
      PROVE  FALSE
  <2>1. PICK k \in LinkIds : links[k].status = "unborn" /\ InsertLink(k, u)
    BY <1>2, <1>3 DEF Create
  <2>2. k # l
    BY <2>1 DEF Live, LinkStatus
  <2>3. links'[l] = links[l] /\ UNCHANGED tagsOnLinks
    BY <1>1, <1>3, <2>1, <2>2 DEF InsertLink, Create
  <2>4. QED
    BY <2>3 DEF TagsOf
<1>4. ASSUME NEW r \in Reqs, NEW u \in Users, NEW k \in LinkIds,
             \/ \E title \in BOOLEAN : Update(r, u, k, title)
             \/ Remove(r, u, k)
             \/ Reprocess(r, u, k)
      PROVE  FALSE
  BY <1>2, <1>4 DEF Update, Remove, Reprocess, Refused
<1>5. ASSUME NEW r \in Reqs, HandlerStep(r)
      PROVE  Goal
  <2>1. req[r].link = l /\ req[r].pc \in InHandler
    <3>1. CASE PatchLink(r) \/ ResetLink(r)
      BY <1>1, <3>1 DEF PatchLink, ResetLink, InHandler, TagsOf
    <3>2. CASE DeleteLink(r)
      <4>1. DeleteLinkRow(req[r].link)
        BY <1>2, <3>2 DEF DeleteLink
      <4>2. links'[l] = links[l] \/ req[r].link = l
        BY <1>1, <4>1 DEF DeleteLinkRow
      <4>3. TagsOf(l)' = TagsOf(l) \/ req[r].link = l
        BY <4>1 DEF DeleteLinkRow, TagsOf
      <4>4. QED
        BY <3>2, <4>2, <4>3 DEF DeleteLink, InHandler
    <3>3. QED
      BY <1>2, <1>5, <3>1, <3>2 DEF HandlerStep, PatchTagsReplaced, Launch, tables
  <2>2. req'[r].pc # req[r].pc
    BY <1>1, <1>5 DEF HandlerStep, PatchTagsReplaced, PatchLink, DeleteLink, ResetLink,
                      Launch, ReqGoesTo, Answer, Request
  <2>3. Moves(r)
    BY <2>2 DEF Moves
  <2>4. QED
    BY <2>1, <2>3
<1>6. ASSUME NEW r \in Reqs, JobStep(r)
      PROVE  Goal
  <2>1. CASE UpdateReady(r) \/ KeepCrawled(r) \/ MarkFailed(r)
    <3>1. job[r].pc \in Running
      BY <2>1 DEF UpdateReady, KeepCrawled, MarkFailed, Running, Unsettled
    <3>2. job[r].link = l
      BY <1>1, <2>1 DEF UpdateReady, KeepCrawled, MarkFailed, TagsOf
    <3>3. job'[r].pc # job[r].pc
      BY <1>1, <2>1 DEF UpdateReady, KeepCrawled, MarkFailed, JobGoesTo, Job
    <3>4. Moves(r)
      BY <3>3 DEF Moves
    <3>5. QED
      BY <3>1, <3>2, <3>4
  <2>2. QED
    BY <1>2, <1>6, <2>1 DEF JobStep, Find, Crawl, ReadBody, CrawlFails, Summarize,
                            TagsReplaced, tables
<1>7. ASSUME NEW r \in Reqs, ReplStep(r)
      PROVE  Goal
  <2>1. CASE DeleteTagRows(r) \/ CreateTagRows(r)
    <3>1. Replacing(r)
      BY <2>1 DEF DeleteTagRows, CreateTagRows, Replacing, ReplGoesTo
    <3>2. UNCHANGED links
      BY <2>1 DEF DeleteTagRows, CreateTagRows, ReplGoesTo
    <3>3. repl[r].link = l
      <4>1. \/ UNCHANGED tagsOnLinks
            \/ tagsOnLinks' = {p \in tagsOnLinks : p[1] # repl[r].link}
            \/ tagsOnLinks' = tagsOnLinks \cup {<<repl[r].link, t>> : t \in NewTags(r)}
        BY <2>1 DEF DeleteTagRows, CreateTagRows, ReplGoesTo
      <4>2. repl[r].link # l => \A t : <<l, t>> \in tagsOnLinks' <=> <<l, t>> \in tagsOnLinks
        BY <4>1
      <4>3. QED
        BY <3>2, <4>2 DEF TagsOf
    <3>4. repl'[r].pc # repl[r].pc
      <4>1. ASSUME NEW pc, repl' = [repl EXCEPT ![r].pc = pc]
            PROVE  repl'[r].pc = pc
        BY <1>1, <4>1 DEF Repl
      <4>2. CASE DeleteTagRows(r)
        <5>1. /\ repl[r].pc = "delete"
              /\ \E pc \in {"ok", "create", "err"} : repl' = [repl EXCEPT ![r].pc = pc]
          BY <4>2 DEF DeleteTagRows, ReplGoesTo
        <5>2. QED
          BY <4>1, <5>1
      <4>3. CASE CreateTagRows(r)
        <5>1. /\ repl[r].pc = "create"
              /\ \E pc \in {"ok", "err"} : repl' = [repl EXCEPT ![r].pc = pc]
          BY <4>3 DEF CreateTagRows, ReplGoesTo
        <5>2. QED
          BY <4>1, <5>1
      <4>4. QED
        BY <2>1, <4>2, <4>3
    <3>5. Moves(r)
      BY <3>4 DEF Moves
    <3>6. QED
      BY <3>1, <3>3, <3>5
  <2>2. QED
    BY <1>2, <1>7, <2>1 DEF ReplStep, UpsertSelect, UpsertInsert, UpsertRefind
<1>8. QED
  BY <1>2, <1>3, <1>4, <1>5, <1>6, <1>7 DEF Next, Step, Arrival, Restart, vars, tables

\* Only requests of its owner, and what they started, ever change a link.
THEOREM OwnersOnly == Spec => OwnerOnly
<1> DEFINE Owners == \A l \in LinkIds :
                        Live(l) /\ (links'[l] # links[l] \/ TagsOf(l)' # TagsOf(l)) =>
                            \E r \in Reqs : /\ req[r].user = links[l].userId
                                            /\ Moves(r)
<1>1. TypeInv /\ OwnerInv /\ ActorsHold /\ [Next]_vars => [Owners]_vars
  <2> SUFFICES ASSUME TypeInv, OwnerInv, ActorsHold, [Next]_vars, NEW l \in LinkIds,
                      Live(l), links'[l] # links[l] \/ TagsOf(l)' # TagsOf(l)
               PROVE  \E r \in Reqs : req[r].user = links[l].userId /\ Moves(r)
    OBVIOUS
  <2>1. PICK r \in Reqs : /\ Moves(r)
                          /\ \/ req[r].pc \in InHandler /\ req[r].link = l
                             \/ job[r].pc \in Running /\ job[r].link = l
                             \/ Replacing(r) /\ repl[r].link = l
    BY ChangeOrigin
  <2>2. Holds(l, req[r].user)
    BY <2>1 DEF OwnerInv, ReqHolds, ActorsHold
  <2>3. QED
    BY <2>1, <2>2 DEF Holds
<1>2. OwnerOnly <=> [][Owners]_vars
  BY DEF OwnerOnly, Moves
<1>3. QED
  BY <1>1, <1>2, TypeInvariant, OwnershipKept, ActorsAlwaysHold, PTL DEF Spec

-----------------------------------------------------------------------------
(* The memory of overlaps.  It only watches: the service with it behaves   *)
(* as without, so whatever was proved of the service holds of it.          *)

OverlapNext == Next /\ Remember

\* With the memory, every step is a step of the service.
LEMMA OverlapStep == ASSUME [OverlapNext]_overlapVars PROVE [Next]_vars
BY DEF OverlapNext, overlapVars

\* With the memory, the service is the service.
THEOREM OverlapIsService == OverlapSpec => Spec
<1>1. OverlapInit => Init
  BY DEF OverlapInit
<1>2. [Next /\ Remember]_overlapVars => [Next]_vars
  BY OverlapStep DEF OverlapNext
<1>3. QED
  BY <1>1, <1>2, PTL DEF OverlapSpec, Spec

\* Nothing is forgotten.
LEMMA MeetingsStay ==
    ASSUME [OverlapNext]_overlapVars, NEW r \in Reqs
    PROVE  /\ runsMet \subseteq runsMet' /\ callsMet \subseteq callsMet'
           /\ RunMet(r) => RunMet(r)'
           /\ CallMet(r) => CallMet(r)'
<1>1. runsMet \subseteq runsMet' /\ callsMet \subseteq callsMet'
  BY DEF OverlapNext, Remember, overlapVars
<1>2. QED
  BY <1>1 DEF RunMet, CallMet

\* Runs and calls that overlap are remembered.
Remembered ==
    \A r, s \in Reqs :
        /\ RunsOverlap(r, s) => <<r, s>> \in runsMet
        /\ CallsOverlap(r, s) => <<r, s>> \in callsMet

THEOREM AlwaysRemembered == OverlapSpec => []Remembered
<1>1. OverlapInit => Remembered
  <2> SUFFICES ASSUME OverlapInit PROVE Remembered
    OBVIOUS
  <2>1. \A r \in Reqs : req[r].pc = "new" /\ job[r].pc = "none" /\ repl[r].pc = "idle"
    BY DEF OverlapInit, Init, NewRequest, JobInit, NoJob, ReplInit, IdleRepl
  <2>2. QED
    BY <2>1 DEF Remembered, RunsOverlap, AtWork, CallsOverlap, Called, Running, Unsettled
<1>2. Remembered /\ [OverlapNext]_overlapVars => Remembered'
  <2> SUFFICES ASSUME Remembered, [OverlapNext]_overlapVars, NEW r \in Reqs, NEW s \in Reqs
               PROVE  /\ RunsOverlap(r, s)' => <<r, s>> \in runsMet'
                      /\ CallsOverlap(r, s)' => <<r, s>> \in callsMet'
    BY DEF Remembered
  <2>1. CASE UNCHANGED overlapVars
    BY <2>1 DEF Remembered, RunsOverlap, AtWork, CallsOverlap, Called, overlapVars, vars
  <2>2. CASE Remember
    <3>1. <<r, s>> \in Reqs \X Reqs /\ <<r, s>>[1] = r /\ <<r, s>>[2] = s
      OBVIOUS
    <3>2. QED
      BY <2>2, <3>1 DEF Remember, RunsOverlap, AtWork, CallsOverlap, Called
  <2>3. QED
    BY <2>1, <2>2 DEF OverlapNext
<1>3. QED
  BY <1>1, <1>2, PTL DEF OverlapSpec, OverlapNext

-----------------------------------------------------------------------------
(* Failed replacements and answers 500.  A call that meets tags on its     *)
(* link after it has deleted them overlaps with the call that wrote them.  *)

TagsExplained ==
    \A r \in Reqs :
        repl[r].pc = "create" /\ TagsOf(repl[r].link) # {} => CallMet(r)

Deleted(l) == l \in LinkIds /\ links[l].status = "deleted"

RejectsExplained ==
    Undisturbed =>
        \A r \in Reqs : repl[r].pc = "err" => Deleted(repl[r].link) \/ CallMet(r)

ErrorsExplained ==
    Undisturbed =>
        \A r \in Reqs :
            req[r].code = "500" =>
                /\ req[r].pc # "new"
                /\ \/ Deleted(req[r].link)
                   \/ req[r].op = "update" /\ CallMet(r)

\* A deleted link stays deleted.
LEMMA DeletedStays ==
    ASSUME TypeInv, [Next]_vars, NEW l, Deleted(l)
    PROVE  Deleted(l)'
BY RowFate DEF Deleted, Live, LinkStatus

\* A link that someone was found to own is there or deleted.
LEMMA HeldOrDeleted ==
    ASSUME TypeInv, NEW l \in LinkIds, NEW u, Holds(l, u), ~Live(l)
    PROVE  Deleted(l)
BY DEF TypeInv, TypeOK, TablesTypeOK, LinkRow, Holds, Live, Deleted

\* Every step keeps the tags that a call meets explained.
LEMMA TagsExplainedStep ==
    ASSUME TypeInv, CallInv, Remembered, TagsExplained, [OverlapNext]_overlapVars
    PROVE  TagsExplained'
<1> SUFFICES ASSUME NEW r \in Reqs, repl'[r].pc = "create", TagsOf(repl[r].link)' # {}
             PROVE  CallMet(r)'
  BY DEF TagsExplained
<1>0. [Next]_vars
  BY OverlapStep
<1>1. repl \in [Reqs -> Repl]
  BY DEF TypeInv, TypeOK, ReplTypeOK
<1>2. ~Restart /\ ~PatchCalls(r) /\ ~RunCalls(r)
  <2>1. ~Restart
    BY RestartDrops
  <2>2. ASSUME NEW u, NEW l, NEW raw, StartReplace(r, u, l, raw)
        PROVE  FALSE
    BY <1>1, <2>2 DEF StartReplace
  <2>3. QED
    BY <2>1, <2>2 DEF PatchCalls, RunCalls, RunStarts
<1>3. ~DeleteTagRows(r)
  <2>1. ASSUME DeleteTagRows(r)
        PROVE  TagsOf(repl[r].link)' = {}
    <3>1. tagsOnLinks' = {p \in tagsOnLinks : p[1] # repl[r].link}
      BY <1>1, <2>1 DEF DeleteTagRows, Repl, ReplGoesTo
    <3>2. repl'[r].link = repl[r].link
      BY <1>1, <2>1 DEF DeleteTagRows, Repl, ReplGoesTo
    <3>3. QED
      BY <3>1, <3>2 DEF TagsOf
  <2>2. QED
    BY <2>1
<1>4. ~CreateTagRows(r)
  BY <1>1 DEF CreateTagRows, Repl, ReplGoesTo
<1>5. repl[r].pc = "create" /\ repl'[r].link = repl[r].link
  BY <1>0, <1>2, <1>3, <1>4, CallMoves, CallStepIs DEF CallSteps, UpsertMoves
<1>6. CASE TagsOf(repl[r].link) # {}
  BY <1>5, <1>6, MeetingsStay DEF TagsExplained
<1>7. ASSUME NEW s \in Reqs, CreateTagRows(s), TagsOf(repl[r].link) = {}
      PROVE  CallMet(r)'
  <2>1. s # r
    BY <1>4, <1>7
  <2>2. ~UNCHANGED tagsOnLinks
    BY <1>5, <1>7 DEF TagsOf
  <2>3. /\ repl[s].pc = "create"
        /\ tagsOnLinks' = tagsOnLinks \cup {<<repl[s].link, t>> : t \in NewTags(s)}
    BY <1>7, <2>2 DEF CreateTagRows, ReplGoesTo
  <2>4. repl[s].link = repl[r].link
    BY <1>5, <1>7, <2>3 DEF TagsOf
  <2>5. CallsOverlap(r, s)
    BY <1>5, <2>1, <2>3, <2>4 DEF CallsOverlap, Called
  <2>6. CallMet(r)
    BY <2>5 DEF Remembered, CallMet
  <2>7. QED
    BY <2>6, MeetingsStay
<1>8. ASSUME TagsOf(repl[r].link) = {}
      PROVE  \E s \in Reqs : CreateTagRows(s)
  <2>1. ~(tagsOnLinks' \subseteq tagsOnLinks)
    BY <1>5, <1>8 DEF TagsOf
  <2>2. ASSUME NEW s \in Reqs, Arrival(s) \/ HandlerStep(s)
        PROVE  FALSE
    <3>1. CASE DeleteLink(s)
      BY <2>1, <3>1 DEF DeleteLink, DeleteLinkRow
    <3>2. Arrival(s) => UNCHANGED tagsOnLinks
      BY DEF Arrival, Create, Update, Remove, Reprocess, Refused
    <3>3. QED
      BY <2>1, <2>2, <3>1, <3>2 DEF HandlerStep, PatchTagsReplaced, PatchLink, ResetLink,
                                    Launch, tables
  <2>3. ASSUME NEW s \in Reqs, JobStep(s)
        PROVE  FALSE
    BY <2>1, <2>3 DEF JobStep, Find, Crawl, ReadBody, CrawlFails, Summarize, UpdateReady,
                      TagsReplaced, KeepCrawled, MarkFailed, tables
  <2>4. ASSUME NEW s \in Reqs, ReplStep(s)
        PROVE  CreateTagRows(s)
    BY <2>1, <2>4 DEF ReplStep, UpsertSelect, UpsertInsert, UpsertRefind, DeleteTagRows,
                      ReplGoesTo
  <2>5. QED
    BY <1>0, <1>2, <2>1, <2>2, <2>3, <2>4 DEF Next, Step, vars, tables
<1>9. QED
  BY <1>6, <1>7, <1>8

\* A call rejects for a lost connection, because its link is gone, or because
\* another call overlapped.
LEMMA RejectCause ==
    ASSUME TypeInv, CallInv, TagsExplained, [Next]_vars, NEW r \in Reqs,
           repl[r].pc # "err", repl'[r].pc = "err", ~Throws(FALSE)
    PROVE  /\ ~Restart
           /\ Replacing(r)
           /\ repl'[r].link = repl[r].link
           /\ ~Live(repl[r].link) \/ CallMet(r)
<1>1. repl \in [Reqs -> Repl]
  BY DEF TypeInv, TypeOK, ReplTypeOK
<1>2. ~Restart /\ ~PatchCalls(r) /\ ~RunCalls(r)
  <2>1. ~Restart
    BY RestartDrops
  <2>2. ASSUME NEW u, NEW l, NEW raw, StartReplace(r, u, l, raw)
        PROVE  FALSE
    BY <1>1, <2>2 DEF StartReplace
  <2>3. QED
    BY <2>1, <2>2 DEF PatchCalls, RunCalls, RunStarts
<1>3. CallSteps(r)
  BY <1>2, CallMoves
<1>4. ~UpsertMoves(r)
  BY DEF UpsertMoves
<1>5. ~DeleteTagRows(r)
  BY <1>1 DEF DeleteTagRows, AnswerLost, Throws, Repl, ReplGoesTo
<1>6. CreateTagRows(r) /\ repl'[r].link = repl[r].link
  BY <1>3, <1>4, <1>5, CallStepIs DEF CallSteps
<1>7. repl[r].pc = "create"
  BY <1>6 DEF CreateTagRows, ReplGoesTo
<1>8. ~Live(repl[r].link) \/ TagsOf(repl[r].link) # {}
  BY <1>1, <1>6 DEF CreateTagRows, Throws, Repl, AnswerLost, ReplGoesTo
<1>9. QED
  BY <1>2, <1>6, <1>7, <1>8 DEF TagsExplained, Replacing

\* A call that is to create its rows meets other tags only if another call has
\* overlapped with it.
THEOREM TagsAlwaysExplained == OverlapSpec => []TagsExplained
<1>1. OverlapInit => TagsExplained
  BY DEF OverlapInit, Init, ReplInit, IdleRepl, TagsExplained
<1>2. TypeInv /\ CallInv /\ Remembered /\ TagsExplained /\ [OverlapNext]_overlapVars
      => TagsExplained'
  BY TagsExplainedStep
<1>3. QED
  BY <1>1, <1>2, OverlapIsService, TypeInvariant, CallsInOrder, AlwaysRemembered, PTL
     DEF OverlapSpec, OverlapNext

\* With the connection up, every failed replacement has its cause.
THEOREM ReplaceFailures == OverlapSpec => ReplaceFailsOnlyInARace
<1> DEFINE Caused == \A r \in Reqs :
                        /\ repl[r].pc # "err"
                        /\ repl'[r].pc = "err"
                        /\ dbErrors' = dbErrors
                        => ~Live(repl[r].link) \/ CallMet(r)
<1>1. TypeInv /\ CallInv /\ TagsExplained /\ [OverlapNext]_overlapVars => [Caused]_overlapVars
  <2> SUFFICES ASSUME TypeInv, CallInv, TagsExplained, [OverlapNext]_overlapVars,
                      NEW r \in Reqs,
                      repl[r].pc # "err", repl'[r].pc = "err", dbErrors' = dbErrors
               PROVE  ~Live(repl[r].link) \/ CallMet(r)
    OBVIOUS
  <2>1. ~Throws(FALSE)
    BY TablesAssumption DEF Throws, TypeInv, TypeOK, TablesTypeOK
  <2>2. QED
    BY <2>1, OverlapStep, RejectCause
<1>2. ReplaceFailsOnlyInARace <=> [][Caused]_overlapVars
  BY DEF ReplaceFailsOnlyInARace
<1>3. QED
  BY <1>1, <1>2, OverlapIsService, TypeInvariant, CallsInOrder, TagsAlwaysExplained, PTL
     DEF OverlapSpec, OverlapNext

\* A call that succeeds and that no other has overlapped leaves its tags only.
LEMMA AloneIsWhole ==
    ASSUME TypeInv, CallInv, TagsExplained, [Next]_vars, NEW r \in Reqs,
           repl[r].pc # "ok", repl'[r].pc = "ok"
    PROVE  TagsOf(repl[r].link)' = NewTags(r) \/ CallMet(r)
<1>1. repl \in [Reqs -> Repl]
  BY DEF TypeInv, TypeOK, ReplTypeOK
<1>2. ~Restart
  BY RestartDrops
<1>3. ASSUME NEW u, NEW l, NEW raw, StartReplace(r, u, l, raw)
      PROVE  FALSE
  BY <1>1, <1>3 DEF StartReplace
<1>4. CallSteps(r)
  BY <1>2, <1>3, CallMoves DEF PatchCalls, RunCalls, RunStarts
<1>5. ~UpsertMoves(r)
  BY DEF UpsertMoves
<1>6. repl'[r].link = repl[r].link
  BY <1>4, CallStepIs DEF CallSteps
<1>7. CASE DeleteTagRows(r)
  <2>1. ASSUME NEW pc, repl' = [repl EXCEPT ![r].pc = pc]
        PROVE  pc = "ok"
    BY <1>1, <2>1 DEF Repl
  <2>2. repl' # [repl EXCEPT ![r].pc = "err"]
    BY <2>1
  <2>3. repl' = [repl EXCEPT ![r].pc = IF NewTags(r) = {} THEN "ok" ELSE "create"]
        /\ tagsOnLinks' = {p \in tagsOnLinks : p[1] # repl[r].link}
    BY <1>7, <2>2 DEF DeleteTagRows, ReplGoesTo
  <2>4. NewTags(r) = {}
    BY <2>1, <2>3
  <2>5. TagsOf(repl[r].link)' = {}
    BY <1>6, <2>3 DEF TagsOf
  <2>6. QED
    BY <2>4, <2>5
<1>8. CASE CreateTagRows(r) /\ ~CallMet(r)
  <2>1. repl' # [repl EXCEPT ![r].pc = "err"]
    BY <1>1 DEF Repl
  <2>2. /\ repl[r].pc = "create"
        /\ tagsOnLinks' = tagsOnLinks \cup {<<repl[r].link, t>> : t \in NewTags(r)}
    BY <1>8, <2>1 DEF CreateTagRows, ReplGoesTo
  <2>3. TagsOf(repl[r].link) = {}
    BY <1>8, <2>2 DEF TagsExplained
  <2>4. repl[r].user \in Users
    BY <2>2 DEF TypeInv, ReplArgsSet, Replacing
  <2>5. NewTags(r) \subseteq Tag
    BY <2>4 DEF NewTags, TagOf, Tag
  <2>6. \A t \in Tag : <<repl[r].link, t>> \in tagsOnLinks' <=> t \in NewTags(r)
    BY <2>2, <2>3 DEF TagsOf
  <2>7. QED
    BY <1>6, <2>5, <2>6 DEF TagsOf
<1>9. QED
  BY <1>4, <1>5, <1>7, <1>8, CallStepIs DEF CallSteps

\* Unless another one overlaps with it, a replacement leaves the link with the
\* given tags only.
THEOREM AloneReplaceAlwaysWhole == OverlapSpec => AloneReplaceIsWhole
<1> DEFINE Whole == \A r \in Reqs :
                       repl[r].pc # "ok" /\ repl'[r].pc = "ok" =>
                           TagsOf(repl[r].link)' = NewTags(r) \/ CallMet(r)
<1>1. TypeInv /\ CallInv /\ TagsExplained /\ [OverlapNext]_overlapVars => [Whole]_overlapVars
  BY OverlapStep, AloneIsWhole
<1>2. AloneReplaceIsWhole <=> [][Whole]_overlapVars
  BY DEF AloneReplaceIsWhole
<1>3. QED
  BY <1>1, <1>2, OverlapIsService, TypeInvariant, CallsInOrder, TagsAlwaysExplained, PTL
     DEF OverlapSpec, OverlapNext

\* Without faults, every failed call goes on having its cause.
LEMMA RejectsStep ==
    ASSUME TypeInv, OwnerInv, CallInv, TagsExplained, RejectsExplained,
           [OverlapNext]_overlapVars
    PROVE  RejectsExplained'
<1> SUFFICES ASSUME Undisturbed', NEW r \in Reqs, repl'[r].pc = "err"
             PROVE  Deleted(repl[r].link)' \/ CallMet(r)'
  BY DEF RejectsExplained
<1>0. [Next]_vars
  BY OverlapStep
<1>1. Undisturbed /\ ~Restart /\ ~Throws(FALSE)
  BY <1>0, FaultsStay
<1>2. ASSUME NEW l, repl'[r].link = l, Deleted(l) \/ CallMet(r)
      PROVE  Deleted(repl[r].link)' \/ CallMet(r)'
  <2>1. Deleted(l) => Deleted(l)'
    BY <1>0, DeletedStays
  <2>2. QED
    BY <1>2, <2>1, MeetingsStay DEF Deleted
<1>3. CASE repl[r].pc = "err"
  <2>1. Deleted(repl[r].link) \/ CallMet(r)
    BY <1>1, <1>3 DEF RejectsExplained
  <2>2. repl'[r].link = repl[r].link
    <3>1. ~PatchCalls(r) /\ ~RunCalls(r)
      BY <1>3 DEF PatchCalls, RunCalls, RunStarts, CallInv, CallsOnce, BeforeTags
    <3>2. QED
      BY <1>0, <1>1, <3>1, CallMoves, CallStepIs DEF CallSteps
  <2>3. QED
    BY <1>2, <2>1, <2>2
<1>4. CASE repl[r].pc # "err"
  <2>1. /\ Replacing(r)
        /\ repl'[r].link = repl[r].link
        /\ ~Live(repl[r].link) \/ CallMet(r)
    BY <1>0, <1>1, <1>4, RejectCause
  <2>2. repl[r].link \in LinkIds /\ Holds(repl[r].link, repl[r].user)
    BY <2>1 DEF TypeInv, ReplArgsSet, OwnerInv, ReplHolds
  <2>3. QED
    BY <1>2, <2>1, <2>2, HeldOrDeleted
<1>5. QED
  BY <1>3, <1>4

\* A request is answered 500 for a lost connection, because its link is gone, or
\* because its tag replacement failed.
LEMMA ErrorOrigin ==
    ASSUME TypeInv, [Next]_vars, ~Restart, ~Throws(FALSE),
           NEW r \in Reqs, req'[r].code = "500"
    PROVE  \/ req[r].code = "500"
           \/ /\ req[r].pc \in InHandler
              /\ ~Live(req[r].link)
           \/ req[r].pc = "tags" /\ repl[r].pc = "err"
<1> DEFINE Goal == \/ req[r].code = "500"
                   \/ req[r].pc \in InHandler /\ ~Live(req[r].link)
                   \/ req[r].pc = "tags" /\ repl[r].pc = "err"
<1>1. req \in [Reqs -> Request] /\ NULL # "500"
  BY ServiceAssumption DEF TypeInv, TypeOK, Code
<1>2. CASE UNCHANGED req
  BY <1>2
<1>3. ASSUME NEW s \in Reqs, Arrival(s) \/ HandlerStep(s), s # r
      PROVE  req'[r] = req[r]
  BY <1>1, <1>3, OneRequest
<1>4. ASSUME NEW op, NEW u, NEW l, NEW title, NEW pc, Arrive(r, op, u, l, title, pc)
      PROVE  FALSE
  BY <1>1, <1>4 DEF Arrive, NewRequest
<1>5. ASSUME NEW op, NEW u, NEW l, Refuse(r, op, u, l, RefusalCode(l))
      PROVE  FALSE
  BY <1>1, <1>5 DEF Refuse, RefusalCode, NewRequest
<1>6. ASSUME NEW op, NEW u, NEW l, Refused(r, op, u, l)
      PROVE  FALSE
  BY <1>5, <1>6 DEF Refused
<1>7. ASSUME NEW u \in Users, Create(r, u)
      PROVE  FALSE
  <2>1. ~AnswerLost(TRUE)
    BY DEF AnswerLost, Throws
  <2>2. QED
    BY <1>4, <1>7, <2>1 DEF Create
<1>8. ASSUME NEW u \in Users, NEW l \in LinkIds, NEW title \in BOOLEAN,
             Update(r, u, l, title)
      PROVE  FALSE
  BY <1>4, <1>6, <1>8 DEF Update
<1>9. ASSUME NEW u \in Users, NEW l \in LinkIds, Remove(r, u, l) \/ Reprocess(r, u, l)
      PROVE  FALSE
  BY <1>4, <1>6, <1>9 DEF Remove, Reprocess
<1>10. ASSUME NEW code, code # "500", Answer(r, code)
       PROVE  FALSE
  BY <1>1, <1>10 DEF Answer, Request
<1>11. ASSUME NEW pc, ReqGoesTo(r, pc)
       PROVE  req[r].code = "500"
  BY <1>1, <1>11 DEF ReqGoesTo, Request
<1>12. CASE HandlerStep(r)
  <2>1. /\ Throws(~Live(req[r].link)) => ~Live(req[r].link)
        /\ ~AnswerLost(Live(req[r].link))
    BY DEF AnswerLost, Throws
  <2>2. CASE PatchTagsReplaced(r)
    BY <1>11, <2>2 DEF PatchTagsReplaced
  <2>3. CASE PatchLink(r)
    BY <1>10, <2>1, <2>3 DEF PatchLink, InHandler
  <2>4. CASE DeleteLink(r)
    BY <1>10, <2>1, <2>4 DEF DeleteLink, InHandler
  <2>5. CASE ResetLink(r)
    BY <1>11, <2>1, <2>5 DEF ResetLink, InHandler
  <2>6. ~Launch(r)
    <3>1. ASSUME Launch(r)
          PROVE  \E code : code # "500" /\ Answer(r, code)
      <4>1. Answer(r, IF req[r].op = "create" THEN "201" ELSE "202")
        BY <3>1 DEF Launch
      <4>2. QED
        BY <4>1
    <3>2. QED
      BY <1>10, <3>1
  <2>7. QED
    BY <1>12, <2>2, <2>3, <2>4, <2>5, <2>6 DEF HandlerStep
<1>13. QED
  BY <1>2, <1>3, <1>7, <1>8, <1>9, <1>12 DEF Next, Step, Arrival, vars

\* Without faults, every 500 goes on having its cause.
LEMMA ErrorsStep ==
    ASSUME TypeInv, OwnerInv, CallInv, RejectsExplained, ErrorsExplained,
           [OverlapNext]_overlapVars
    PROVE  ErrorsExplained'
<1> SUFFICES ASSUME Undisturbed', NEW r \in Reqs, req'[r].code = "500"
             PROVE  /\ req'[r].pc # "new"
                    /\ \/ Deleted(req[r].link)'
                       \/ req'[r].op = "update" /\ CallMet(r)'
  BY DEF ErrorsExplained
<1>0. [Next]_vars
  BY OverlapStep
<1>1. Undisturbed /\ ~Restart /\ ~Throws(FALSE)
  BY <1>0, FaultsStay
<1>2. ASSUME req[r].pc # "new",
             \/ Deleted(req[r].link)
             \/ req[r].op = "update" /\ CallMet(r)
      PROVE  /\ req'[r].pc # "new"
             /\ \/ Deleted(req[r].link)'
                \/ req'[r].op = "update" /\ CallMet(r)'
  <2>1. /\ req'[r].pc # "new"
        /\ req'[r].op = req[r].op
        /\ req'[r].link = req[r].link
    BY <1>0, <1>2, ArgsStay
  <2>2. ASSUME NEW l, req[r].link = l, Deleted(l)
        PROVE  Deleted(req[r].link)'
    <3>1. Deleted(l)'
      BY <1>0, <2>2, DeletedStays
    <3>2. QED
      BY <2>1, <2>2, <3>1 DEF Deleted
  <2>3. QED
    BY <1>2, <2>1, <2>2, MeetingsStay
<1>3. CASE req[r].code = "500"
  BY <1>1, <1>2, <1>3 DEF ErrorsExplained
<1>4. CASE req[r].pc \in InHandler /\ ~Live(req[r].link)
  <2>1. req[r].link \in LinkIds /\ Holds(req[r].link, req[r].user)
    BY <1>4 DEF TypeInv, ReqArgsSet, OwnerInv, ReqHolds
  <2>2. QED
    BY <1>2, <1>4, <2>1, HeldOrDeleted DEF InHandler
<1>5. CASE req[r].pc = "tags" /\ repl[r].pc = "err"
  <2>1. req[r].op = "update" /\ repl[r].link = req[r].link
    BY <1>5 DEF CallInv, PatchShape
  <2>2. Deleted(repl[r].link) \/ CallMet(r)
    BY <1>1, <1>5 DEF RejectsExplained
  <2>3. QED
    BY <1>2, <1>5, <2>1, <2>2
<1>6. QED
  BY <1>0, <1>1, <1>3, <1>4, <1>5, ErrorOrigin

\* The inductive form: every failed call, and every 500, has its cause.
THEOREM FailuresAlwaysExplained == OverlapSpec => [](RejectsExplained /\ ErrorsExplained)
<1>1. OverlapInit => RejectsExplained /\ ErrorsExplained
  <2> SUFFICES ASSUME Init PROVE RejectsExplained /\ ErrorsExplained
    BY DEF OverlapInit
  <2>1. \A r \in Reqs : repl[r].pc # "err"
    BY DEF Init, ReplInit, IdleRepl
  <2>2. \A r \in Reqs : req[r].code # "500"
    BY ServiceAssumption DEF Init, NewRequest, Code
  <2>3. QED
    BY <2>1, <2>2 DEF RejectsExplained, ErrorsExplained
<1>2. /\ TypeInv /\ OwnerInv /\ CallInv /\ TagsExplained
      /\ RejectsExplained /\ ErrorsExplained /\ [OverlapNext]_overlapVars
      => (RejectsExplained /\ ErrorsExplained)'
  BY RejectsStep, ErrorsStep
<1>3. QED
  BY <1>1, <1>2, OverlapIsService, TypeInvariant, OwnershipKept, CallsInOrder,
     TagsAlwaysExplained, PTL DEF OverlapSpec, OverlapNext

\* Without faults, a 500 means that the link is gone or that another replacement
\* of its tags overlapped.
THEOREM ServerErrorsExplained == OverlapSpec => []ServerErrorMeansRace
<1>1. ErrorsExplained => ServerErrorMeansRace
  BY DEF ErrorsExplained, ServerErrorMeansRace, Deleted
<1>2. QED
  BY <1>1, FailuresAlwaysExplained, PTL

-----------------------------------------------------------------------------
(* Outcomes over outcomes.  A run is at work from the answer that makes    *)
(* its link PENDING to its last write, so an outcome that stands while it  *)
(* is at work is its own or that of a run it has overlapped with.          *)

OutcomeOf(r, l) ==
    /\ links[l].status = "READY"
    /\ links[l].summary = r

OutcomesExplained ==
    \A r \in Reqs, l \in LinkIds :
        AtWork(r, l) /\ links[l].status \in {"READY", "FAILED"} =>
            RunMet(r) \/ OutcomeOf(r, l)

\* A request is about to launch a run on a link it has just made PENDING, or
\* was so before.
LEMMA LaunchMakesPending ==
    ASSUME TypeInv, [Next]_vars, NEW r \in Reqs, req'[r].pc = "launch",
           req'[r].link \in LinkIds
    PROVE  \/ req[r].pc = "launch" /\ req'[r].link = req[r].link
           \/ links'[req'[r].link].status = "PENDING"
<1> DEFINE Goal == links'[req'[r].link].status = "PENDING"
<1>1. /\ req \in [Reqs -> Request] /\ links \in [LinkIds -> LinkRow]
  BY DEF TypeInv, TypeOK, TablesTypeOK
<1>2. ASSUME NEW op, NEW u, NEW l, NEW title, NEW pc, Arrive(r, op, u, l, title, pc)
      PROVE  pc = "launch" /\ req'[r].link = l
  BY <1>1, <1>2 DEF Arrive, NewRequest
<1>3. ASSUME NEW op, NEW u, NEW l, NEW code, Refuse(r, op, u, l, code)
      PROVE  FALSE
  BY <1>1, <1>3 DEF Refuse, NewRequest
<1>4. ASSUME NEW op, NEW u, NEW l, Refused(r, op, u, l)
      PROVE  FALSE
  BY <1>3, <1>4 DEF Refused
<1>5. ASSUME NEW u \in Users, Create(r, u)
      PROVE  Goal
  <2>1. PICK l \in LinkIds : InsertLink(l, u) /\ Arrive(r, "create", u, l, FALSE, "launch")
    BY <1>3, <1>5 DEF Create
  <2>2. [EmptyRow("PENDING") EXCEPT !.userId = u].status = "PENDING"
    BY DEF EmptyRow
  <2>3. links'[l].status = "PENDING"
    BY <1>1, <2>1, <2>2 DEF InsertLink
  <2>4. QED
    BY <1>2, <2>1, <2>3
<1>6. ASSUME NEW u \in Users, NEW l \in LinkIds,
             \/ \E title \in BOOLEAN : Update(r, u, l, title)
             \/ Remove(r, u, l)
             \/ Reprocess(r, u, l)
      PROVE  FALSE
  <2>1. ASSUME NEW title, Arrive(r, "update", u, l, title, "patch")
                              \/ Arrive(r, "update", u, l, title, "tags")
        PROVE  FALSE
    <3>1. "patch" = "launch" \/ "tags" = "launch"
      BY <1>2, <2>1
    <3>2. QED
      BY <3>1
  <2>2. ASSUME \/ Arrive(r, "remove", u, l, FALSE, "delete")
               \/ Arrive(r, "reprocess", u, l, FALSE, "reset")
        PROVE  FALSE
    <3>1. "delete" = "launch" \/ "reset" = "launch"
      BY <1>2, <2>2
    <3>2. QED
      BY <3>1
  <2>3. QED
    BY <1>4, <1>6, <2>1, <2>2 DEF Update, Remove, Reprocess
<1>7. CASE Arrival(r)
  BY <1>5, <1>6, <1>7 DEF Arrival
<1>8. CASE HandlerStep(r)
  <2>1. ASSUME NEW code, Answer(r, code)
        PROVE  FALSE
    BY <1>1, <2>1 DEF Answer, Request
  <2>2. ASSUME NEW pc, ReqGoesTo(r, pc)
        PROVE  pc = "launch" /\ req'[r].link = req[r].link
    BY <1>1, <2>2 DEF ReqGoesTo, Request
  <2>3. ReqGoesTo(r, "patch") => "patch" = "launch"
    BY <2>2
  <2>4. ResetLink(r)
    BY <1>8, <2>1, <2>3 DEF HandlerStep, PatchTagsReplaced, PatchLink, DeleteLink, Launch
  <2>5. ReqGoesTo(r, "launch") /\ links' = [links EXCEPT ![req[r].link] = PendingRow(@)]
    BY <2>1, <2>4 DEF ResetLink
  <2>6. req'[r].link = req[r].link
    BY <2>2, <2>5
  <2>7. links'[req[r].link] = PendingRow(links[req[r].link])
    BY <1>1, <2>5, <2>6
  <2>8. QED
    BY <1>1, <2>6, <2>7, PendingRowIs
<1>9. CASE Restart
  BY <1>9, RestartDrops DEF InHandler
<1>10. CASE req'[r] = req[r]
  BY <1>10
<1>11. QED
  BY <1>7, <1>8, <1>9, <1>10, ReqMoves

\* A run is at work on a link that has just become PENDING, or was so before.
LEMMA WorkOrigin ==
    ASSUME TypeInv, [Next]_vars, NEW r \in Reqs, NEW l \in LinkIds, AtWork(r, l)'
    PROVE  AtWork(r, l) \/ links'[l].status = "PENDING"
<1>1. CASE req'[r].pc = "launch" /\ req'[r].link = l
  BY <1>1, LaunchMakesPending DEF AtWork
<1>2. CASE job'[r].pc \in Running /\ job'[r].link = l
  <2>1. \/ job[r].pc \in Running /\ job'[r].link = job[r].link
        \/ req[r].pc = "launch" /\ job'[r].link = req[r].link
    BY <1>2, JobOrigin DEF Running, Unsettled
  <2>2. QED
    BY <1>2, <2>1 DEF AtWork
<1>3. QED
  BY <1>1, <1>2 DEF AtWork

\* An outcome stood before, or a run that was at work on the link has just
\* written it: its own READY, or FAILED as its last step.
LEMMA OutcomeOrigin ==
    ASSUME TypeInv, [Next]_vars, NEW l \in LinkIds, links'[l].status \in {"READY", "FAILED"}
    PROVE  \/ /\ links'[l].status = links[l].status
              /\ links'[l].summary = links[l].summary
           \/ \E s \in Reqs :
                 /\ job[s].pc \in Running
                 /\ job[s].link = l
                 /\ job'[s] # job[s]
                 /\ \/ job[s].pc = "ready" /\ OutcomeOf(s, l)'
                    \/ /\ job'[s].pc \in {"resolved", "rejected"}
                       /\ links'[l].status = "FAILED"
<1> DEFINE Same == /\ links'[l].status = links[l].status
                   /\ links'[l].summary = links[l].summary
           Wrote(s) == /\ job[s].pc \in Running
                       /\ job[s].link = l
                       /\ job'[s] # job[s]
                       /\ \/ job[s].pc = "ready" /\ OutcomeOf(s, l)'
                          \/ /\ job'[s].pc \in {"resolved", "rejected"}
                             /\ links'[l].status = "FAILED"
           Goal == Same \/ \E s \in Reqs : Wrote(s)
<1>1. /\ links \in [LinkIds -> LinkRow] /\ links[l] \in LinkRow
      /\ job \in [Reqs -> Job] /\ \A r \in Reqs : job[r] \in Job
  BY DEF TypeInv, TypeOK, TablesTypeOK, JobTypeOK
<1>2. CASE UNCHANGED links
  BY <1>2
<1>3. ASSUME NEW k \in LinkIds, k # l, NEW row, links' = [links EXCEPT ![k] = row]
      PROVE  Goal
  BY <1>1, <1>3
<1>4. ASSUME NEW k, NEW r \in Reqs, links' = [links EXCEPT ![k].title = r]
      PROVE  Goal
  BY <1>1, <1>4 DEF LinkRow
<1>5. ASSUME NEW r \in Reqs, NEW u \in Users, Create(r, u)
      PROVE  Goal
  <2>1. ASSUME NEW k \in LinkIds, InsertLink(k, u)
        PROVE  Goal
    <3> DEFINE row == [EmptyRow("PENDING") EXCEPT !.userId = u]
    <3>1. links' = [links EXCEPT ![k] = row] /\ row.status = "PENDING"
      BY <2>1 DEF InsertLink, EmptyRow
    <3> HIDE DEF row
    <3>2. k # l
      BY <1>1, <3>1
    <3>3. QED
      BY <1>3, <3>1, <3>2
  <2>2. QED
    BY <1>2, <1>5, <2>1 DEF Create
<1>6. ASSUME NEW r \in Reqs, NEW u \in Users, NEW k \in LinkIds,
             \/ \E title \in BOOLEAN : Update(r, u, k, title)
             \/ Remove(r, u, k)
             \/ Reprocess(r, u, k)
      PROVE  Goal
  BY <1>2, <1>6 DEF Update, Remove, Reprocess, Refused
<1>7. ASSUME NEW r \in Reqs, HandlerStep(r)
      PROVE  Goal
  <2>1. CASE PatchLink(r)
    <3>1. \/ UNCHANGED links
          \/ links' = [links EXCEPT ![req[r].link].title = r]
          \/ links' = [links EXCEPT ![req[r].link].title = @]
      BY <2>1 DEF PatchLink
    <3>2. links' = [links EXCEPT ![req[r].link].title = @] => Same
      BY <1>1 DEF LinkRow
    <3>3. QED
      BY <1>2, <1>4, <3>1, <3>2
  <2>2. CASE ResetLink(r)
    <3>1. links' = [links EXCEPT ![req[r].link] = PendingRow(@)] \/ UNCHANGED links
      BY <2>2 DEF ResetLink
    <3>2. PendingRow(links[l]).status = "PENDING"
      BY <1>1, PendingRowIs
    <3>3. QED
      BY <1>1, <1>2, <3>1, <3>2
  <2>3. CASE DeleteLink(r)
    <3>1. links' = [links EXCEPT ![req[r].link] = EmptyRow("deleted")] \/ UNCHANGED links
      BY <2>3 DEF DeleteLink, DeleteLinkRow
    <3>2. EmptyRow("deleted").status = "deleted"
      BY DEF EmptyRow
    <3>3. QED
      BY <1>1, <1>2, <3>1, <3>2
  <2>4. QED
    BY <1>2, <1>7, <2>1, <2>2, <2>3 DEF HandlerStep, PatchTagsReplaced, Launch, tables
<1>8. ASSUME NEW r \in Reqs, JobStep(r)
      PROVE  Goal
  <2>1. job'[r] # job[r]
    BY <1>8, RunSteps
  <2>2. CASE UpdateReady(r)
    <3>1. \/ links' = [links EXCEPT ![job[r].link] = ReadyRow(@, r)]
          \/ UNCHANGED links
      BY <2>2 DEF UpdateReady
    <3>2. CASE links' = [links EXCEPT ![job[r].link] = ReadyRow(@, r)] /\ job[r].link = l
      <4>1. links'[l] = ReadyRow(links[l], r)
        BY <1>1, <3>2
      <4>2. OutcomeOf(r, l)'
        BY <1>1, <4>1, ReadyRowIs DEF OutcomeOf
      <4>3. Wrote(r)
        BY <2>1, <2>2, <3>2, <4>2 DEF UpdateReady, Running, Unsettled
      <4>4. QED
        BY <4>3
    <3>3. CASE links' = [links EXCEPT ![job[r].link] = ReadyRow(@, r)] /\ job[r].link # l
      BY <1>1, <3>3
    <3>4. QED
      BY <1>2, <3>1, <3>2, <3>3
  <2>3. CASE MarkFailed(r) /\ ~UNCHANGED links
    <3>1. /\ links' = [links EXCEPT ![job[r].link] = FailedRow(@, job[r].reason)]
          /\ \E pc \in {"resolved", "rejected"} : job' = [job EXCEPT ![r].pc = pc]
      BY <2>3 DEF MarkFailed, JobGoesTo
    <3>2. CASE job[r].link = l
      <4>1. job'[r].pc \in {"resolved", "rejected"}
        BY <1>1, <3>1 DEF Job
      <4>2. links'[l].status = "FAILED"
        BY <1>1, <3>1, <3>2 DEF FailedRow, LinkRow
      <4>3. Wrote(r)
        BY <2>1, <2>3, <3>2, <4>1, <4>2 DEF MarkFailed, Running, Unsettled
      <4>4. QED
        BY <4>3
    <3>3. CASE job[r].link # l
      BY <1>1, <3>1, <3>3
    <3>4. QED
      BY <3>2, <3>3
  <2>4. CASE KeepCrawled(r)
    BY <1>2, <1>4, <2>4 DEF KeepCrawled
  <2>5. QED
    BY <1>2, <1>8, <2>2, <2>3, <2>4 DEF JobStep, Find, Crawl, ReadBody, Summarize, TagsReplaced,
                                        tables
<1>9. ASSUME NEW r \in Reqs, ReplStep(r)
      PROVE  Goal
  BY <1>2, <1>9 DEF ReplStep, UpsertSelect, UpsertInsert, UpsertRefind, DeleteTagRows,
                    CreateTagRows, ReplGoesTo
<1>10. QED
  BY <1>2, <1>5, <1>6, <1>7, <1>8, <1>9 DEF Next, Step, Arrival, Restart, vars, tables

\* Outcomes go on being those of the run itself or of one it has met.
LEMMA OutcomesStep ==
    ASSUME TypeInv, LaunchesOnce, Remembered, OutcomesExplained, [OverlapNext]_overlapVars
    PROVE  OutcomesExplained'
<1> SUFFICES ASSUME NEW r \in Reqs, NEW l \in LinkIds, AtWork(r, l)',
                    links'[l].status \in {"READY", "FAILED"}
             PROVE  RunMet(r)' \/ OutcomeOf(r, l)'
  BY DEF OutcomesExplained
<1>0. [Next]_vars
  BY OverlapStep
<1>1. AtWork(r, l)
  BY <1>0, WorkOrigin
<1>2. CASE links'[l].status = links[l].status /\ links'[l].summary = links[l].summary
  <2>1. RunMet(r) \/ OutcomeOf(r, l)
    BY <1>1, <1>2 DEF OutcomesExplained
  <2>2. QED
    BY <1>2, <2>1, MeetingsStay DEF OutcomeOf
<1>3. ASSUME NEW s \in Reqs, s # r, job[s].pc \in Running, job[s].link = l
      PROVE  RunMet(r)'
  <2>1. RunsOverlap(r, s)
    BY <1>1, <1>3 DEF RunsOverlap, AtWork
  <2>2. RunMet(r)
    BY <2>1 DEF Remembered, RunMet
  <2>3. QED
    BY <2>2, MeetingsStay
<1>4. ASSUME job[r].pc \in Running, job'[r].pc \in {"resolved", "rejected"}
      PROVE  FALSE
  <2>1. req'[r].pc = "launch"
    BY <1>4 DEF AtWork, Running, Unsettled
  <2>2. req[r].pc # "done"
    BY <1>0, <2>1, NotDone
  <2>3. QED
    BY <1>4, <2>2 DEF LaunchesOnce, Running, Unsettled
<1>5. QED
  BY <1>0, <1>2, <1>3, <1>4, OutcomeOrigin

THEOREM OutcomesAlwaysExplained == OverlapSpec => []OutcomesExplained
<1>1. OverlapInit => OutcomesExplained
  BY DEF OverlapInit, Init, TablesInit, EmptyRow, OutcomesExplained
<1>2. /\ TypeInv /\ PendingInv /\ Remembered /\ OutcomesExplained /\ [OverlapNext]_overlapVars
      => OutcomesExplained'
  BY OutcomesStep DEF PendingInv
<1>3. QED
  BY <1>1, <1>2, OverlapIsService, TypeInvariant, PendingNeverOrphaned, AlwaysRemembered, PTL
     DEF OverlapSpec, OverlapNext

\* An outcome is written over an outcome only by a run that has overlapped with
\* another one of its link, or over the run's own READY.
THEOREM OverwritesMeanOverlap == OverlapSpec => OverwriteMeansOverlap
<1> DEFINE Meant == \A l \in LinkIds :
                       /\ links[l].status # "PENDING"
                       /\ links'[l].status # links[l].status
                       /\ links'[l].status \in {"READY", "FAILED"}
                       => \E r \in Reqs :
                             /\ job'[r] # job[r] /\ job[r].link = l
                             /\ \/ RunMet(r)
                                \/ links[l].status = "READY" /\ links[l].summary = r
<1>1. TypeInv /\ OutcomesExplained /\ [OverlapNext]_overlapVars => [Meant]_overlapVars
  <2> SUFFICES ASSUME TypeInv, OutcomesExplained, [OverlapNext]_overlapVars,
                      NEW l \in LinkIds,
                      links[l].status # "PENDING",
                      links'[l].status # links[l].status,
                      links'[l].status \in {"READY", "FAILED"}
               PROVE  \E r \in Reqs :
                         /\ job'[r] # job[r] /\ job[r].link = l
                         /\ \/ RunMet(r)
                            \/ links[l].status = "READY" /\ links[l].summary = r
    OBVIOUS
  <2>0. [Next]_vars
    BY OverlapStep
  <2>1. links[l].status \in {"READY", "FAILED"}
    <3>1. EmptyRow("deleted").status = "deleted"
      BY DEF EmptyRow
    <3>2. QED
      BY <2>0, <3>1, RowFate DEF Live, LinkStatus
  <2>2. PICK r \in Reqs : job[r].pc \in Running /\ job[r].link = l /\ job'[r] # job[r]
    BY <2>0, OutcomeOrigin
  <2>3. RunMet(r) \/ OutcomeOf(r, l)
    BY <2>1, <2>2 DEF OutcomesExplained, AtWork
  <2>4. QED
    BY <2>2, <2>3 DEF OutcomeOf
<1>2. OverwriteMeansOverlap <=> [][Meant]_overlapVars
  BY DEF OverwriteMeansOverlap
<1>3. QED
  BY <1>1, <1>2, OverlapIsService, TypeInvariant, OutcomesAlwaysExplained, PTL
     DEF OverlapSpec, OverlapNext

-----------------------------------------------------------------------------
(* One run, one story.  Title and summary of a READY link are written      *)
(* together; a run that has failed since writes its title one step before  *)
(* it marks the link, and what a PATCH writes is told by its request.      *)

\* A PATCH wrote the title of link l.
Patched(l) ==
    /\ links[l].title \in Reqs
    /\ req[links[l].title].pc # "new"
    /\ req[links[l].title].op = "update"

\* A run has left its title on link l and is about to mark it failed.
Failing(r, l) ==
    /\ job[r].link = l
    /\ job[r].pc = "markFailed"
    /\ job[r].reason = "LLM_ERROR"

ReadyInv ==
    Undisturbed =>
        \A l \in LinkIds :
            links[l].status = "READY" =>
                \/ links[l].title = links[l].summary
                \/ Patched(l)
                \/ \E r \in Reqs : Failing(r, l)

\* A READY row was so before, or a run or a PATCH has just written it.
LEMMA ReadyOrigin ==
    ASSUME TypeInv, [Next]_vars, ~Throws(FALSE), NEW l \in LinkIds,
           links'[l].status = "READY"
    PROVE  \/ links'[l] = links[l]
           \/ links'[l].title = links'[l].summary
           \/ \E r \in Reqs :
                 /\ links'[l].title = r
                 /\ req[r].pc = "patch"
           \/ \E r \in Reqs : Failing(r, l)'
<1> DEFINE Goal == \/ links'[l] = links[l]
                   \/ links'[l].title = links'[l].summary
                   \/ \E r \in Reqs : links'[l].title = r /\ req[r].pc = "patch"
                   \/ \E r \in Reqs : Failing(r, l)'
<1>1. /\ links \in [LinkIds -> LinkRow] /\ links[l] \in LinkRow
      /\ job \in [Reqs -> Job]
  BY DEF TypeInv, TypeOK, TablesTypeOK, JobTypeOK
<1>2. CASE UNCHANGED links
  BY <1>2
<1>3. ASSUME NEW k \in LinkIds, k # l, NEW row, links' = [links EXCEPT ![k] = row]
      PROVE  Goal
  BY <1>1, <1>3
<1>4. ASSUME NEW r \in Reqs, NEW u \in Users, Create(r, u)
      PROVE  Goal
  <2>1. ASSUME NEW k \in LinkIds, InsertLink(k, u)
        PROVE  Goal
    <3> DEFINE row == [EmptyRow("PENDING") EXCEPT !.userId = u]
    <3>1. links' = [links EXCEPT ![k] = row] /\ row.status = "PENDING"
      BY <2>1 DEF InsertLink, EmptyRow
    <3> HIDE DEF row
    <3>2. k # l
      BY <1>1, <3>1
    <3>3. QED
      BY <1>3, <3>1, <3>2
  <2>2. QED
    BY <1>2, <1>4, <2>1 DEF Create
<1>5. ASSUME NEW r \in Reqs, NEW u \in Users, NEW k \in LinkIds,
             \/ \E title \in BOOLEAN : Update(r, u, k, title)
             \/ Remove(r, u, k)
             \/ Reprocess(r, u, k)
      PROVE  Goal
  BY <1>2, <1>5 DEF Update, Remove, Reprocess, Refused
<1>6. ASSUME NEW r \in Reqs, HandlerStep(r)
      PROVE  Goal
  <2>1. req[r].pc \in InHandler => req[r].link \in LinkIds
    BY DEF TypeInv, ReqArgsSet
  <2>2. CASE PatchLink(r)
    BY <1>1, <2>2 DEF PatchLink, LinkRow
  <2>3. CASE ResetLink(r)
    <3>1. links' = [links EXCEPT ![req[r].link] = PendingRow(@)] \/ UNCHANGED links
      BY <2>3 DEF ResetLink
    <3>2. PendingRow(links[l]).status = "PENDING"
      BY <1>1, PendingRowIs
    <3>3. QED
      BY <1>1, <1>2, <3>1, <3>2
  <2>4. CASE DeleteLink(r)
    <3>1. links' = [links EXCEPT ![req[r].link] = EmptyRow("deleted")] \/ UNCHANGED links
      BY <2>4 DEF DeleteLink, DeleteLinkRow
    <3>2. EmptyRow("deleted").status = "deleted"
      BY DEF EmptyRow
    <3>3. QED
      BY <1>1, <1>2, <3>1, <3>2
  <2>5. QED
    BY <1>2, <1>6, <2>2, <2>3, <2>4 DEF HandlerStep, PatchTagsReplaced, Launch, tables
<1>7. ASSUME NEW r \in Reqs, JobStep(r)
      PROVE  Goal
  <2>1. CASE UpdateReady(r)
    <3>1. links' = [links EXCEPT ![job[r].link] = ReadyRow(@, r)] \/ UNCHANGED links
      BY <2>1 DEF UpdateReady
    <3>2. ReadyRow(links[l], r).title = ReadyRow(links[l], r).summary
      BY <1>1, ReadyRowIs
    <3>3. QED
      BY <1>1, <1>2, <3>1, <3>2
  <2>2. CASE KeepCrawled(r) /\ ~UNCHANGED links
    <3>1. /\ links' = [links EXCEPT ![job[r].link].title = r]
          /\ job' = [job EXCEPT ![r].pc = "markFailed", ![r].reason = "LLM_ERROR"]
      BY <2>2 DEF KeepCrawled, AnswerLost, Throws
    <3>2. CASE job[r].link = l
      <4>1. /\ job'[r].link = l
            /\ job'[r].pc = "markFailed"
            /\ job'[r].reason = "LLM_ERROR"
        BY <1>1, <3>1, <3>2 DEF Job
      <4>2. QED
        BY <4>1 DEF Failing
    <3>3. CASE job[r].link # l
      BY <1>1, <3>1, <3>3
    <3>4. QED
      BY <3>2, <3>3
  <2>3. CASE MarkFailed(r)
    <3>1. \/ links' = [links EXCEPT ![job[r].link] = FailedRow(@, job[r].reason)]
          \/ UNCHANGED links
      BY <2>3 DEF MarkFailed
    <3>2. FailedRow(links[l], job[r].reason).status = "FAILED"
      BY <1>1 DEF FailedRow, LinkRow
    <3>3. QED
      BY <1>1, <1>2, <3>1, <3>2
  <2>4. QED
    BY <1>2, <1>7, <2>1, <2>2, <2>3 DEF JobStep, Find, Crawl, ReadBody, CrawlFails, Summarize,
                                        TagsReplaced, tables
<1>8. ASSUME NEW r \in Reqs, ReplStep(r)
      PROVE  Goal
  BY <1>2, <1>8 DEF ReplStep, UpsertSelect, UpsertInsert, UpsertRefind, DeleteTagRows,
                    CreateTagRows, ReplGoesTo
<1>9. QED
  BY <1>2, <1>4, <1>5, <1>6, <1>7, <1>8 DEF Next, Step, Arrival, Restart, vars, tables

\* A run that is about to mark a link failed goes on to do so.
LEMMA FailingStays ==
    ASSUME TypeInv, LaunchesOnce, [Next]_vars, ~Restart, ~Throws(FALSE),
           NEW l \in LinkIds, NEW r \in Reqs, Failing(r, l),
           Live(l), links'[l].status = "READY"
    PROVE  Failing(r, l)'
<1>1. job \in [Reqs -> Job] /\ links \in [LinkIds -> LinkRow]
  BY DEF TypeInv, TypeOK, TablesTypeOK, JobTypeOK
<1>2. CASE UNCHANGED job
  BY <1>2 DEF Failing
<1>3. ASSUME NEW s \in Reqs, s # r, JobStep(s)
      PROVE  job'[r] = job[r]
  BY <1>1, <1>3, OneJob
<1>4. ASSUME NEW s \in Reqs, Launch(s)
      PROVE  job'[r] = job[r]
  <2>1. s # r
    BY <1>4 DEF Launch, LaunchesOnce, Failing
  <2>2. QED
    BY <1>1, <1>4, <2>1 DEF Launch, StartEnrich
<1>5. ~JobStep(r)
  <2>1. ~MarkFailed(r)
    <3>1. FailedRow(links[l], job[r].reason).status = "FAILED"
      BY <1>1 DEF FailedRow, LinkRow
    <3>2. ~Throws(~Live(l))
      BY DEF Throws
    <3>3. QED
      BY <1>1, <3>1, <3>2 DEF MarkFailed, Failing
  <2>2. QED
    BY <2>1 DEF Failing, JobStep, Find, Crawl, ReadBody, Summarize, UpdateReady, TagsReplaced,
                KeepCrawled
<1>6. ASSUME NEW s \in Reqs, Arrival(s) \/ HandlerStep(s), ~Launch(s)
      PROVE  UNCHANGED job
  BY <1>6 DEF Arrival, Create, Update, Remove, Reprocess, HandlerStep, PatchTagsReplaced,
              PatchLink, DeleteLink, ResetLink
<1>7. job'[r] = job[r]
  BY <1>2, <1>3, <1>4, <1>5, <1>6 DEF Next, Step, vars
<1>8. QED
  BY <1>7 DEF Failing

\* The inductive form: also, what a PATCH wrote is told by a request that came.
THEOREM ReadyAlwaysTold == Spec => []ReadyInv
<1>1. Init => ReadyInv
  BY DEF Init, TablesInit, EmptyRow, ReadyInv
<1>2. TypeInv /\ PendingInv /\ CallInv /\ ReadyInv /\ [Next]_vars => ReadyInv'
  <2> SUFFICES ASSUME TypeInv, PendingInv, CallInv, ReadyInv, [Next]_vars, Undisturbed',
                      NEW l \in LinkIds, links'[l].status = "READY"
               PROVE  \/ links'[l].title = links'[l].summary
                      \/ Patched(l)'
                      \/ \E r \in Reqs : Failing(r, l)'
    BY DEF ReadyInv
  <2>1. Undisturbed /\ ~Restart /\ ~Throws(FALSE) /\ LaunchesOnce
    BY FaultsStay DEF PendingInv
  <2>2. ASSUME NEW r \in Reqs, links'[l].title = r, req[r].pc # "new", req[r].op = "update"
        PROVE  Patched(l)'
    <3>1. req'[r].pc # "new" /\ req'[r].op = "update"
      BY <2>2, ArgsStay
    <3>2. QED
      BY <2>2, <3>1 DEF Patched
  <2>3. CASE links'[l] = links[l]
    <3>1. \/ links[l].title = links[l].summary
          \/ Patched(l)
          \/ \E r \in Reqs : Failing(r, l)
      BY <2>1, <2>3 DEF ReadyInv
    <3>2. ASSUME NEW r \in Reqs, Failing(r, l)
          PROVE  Failing(r, l)'
      BY <2>1, <2>3, <3>2, FailingStays DEF Live, LinkStatus
    <3>3. Patched(l) => Patched(l)'
      BY <2>2, <2>3 DEF Patched
    <3>4. QED
      BY <2>3, <3>1, <3>2, <3>3
  <2>4. ASSUME NEW r \in Reqs, links'[l].title = r, req[r].pc = "patch"
        PROVE  Patched(l)'
    BY <2>2, <2>4 DEF CallInv, PatchShape
  <2>5. QED
    BY <2>1, <2>3, <2>4, ReadyOrigin
<1>3. QED
  BY <1>1, <1>2, TypeInvariant, PendingNeverOrphaned, CallsInOrder, PTL DEF Spec

\* Without faults, a READY link shows title and summary of one run, but for a
\* title from a PATCH or from a run about to mark it failed.
THEOREM ReadyAlwaysFromOneRun == Spec => []ReadyFromOneRun
<1>1. ReadyInv => ReadyFromOneRun
  BY DEF ReadyInv, ReadyFromOneRun, Patched, Failing
<1>2. QED
  BY <1>1, ReadyAlwaysTold, PTL

-----------------------------------------------------------------------------
(* A READY link has its tags.  Only the run whose summary it shows brings  *)
(* them; from its update to READY on, that run is where it can still bring *)
(* them or take READY back, unless a fault that is counted stopped it.     *)

TagsTold(r) ==
    \/ job[r].pc \in {"tags", "keep", "markFailed"}
    \/ job[r].pc = "resolved" /\ (repl[r].pc = "ok" \/ restarts > 0)
    \/ job[r].pc = "killed" /\ restarts > 0
    \/ job[r].pc = "rejected" /\ dbErrors > 0

\* Only a restart forgets the call of a run that has ended.
LEMMA EndedCallStays ==
    ASSUME TypeInv, LaunchesOnce, CallInv, [Next]_vars, ~Restart, NEW r \in Reqs,
           job[r].pc = "resolved", repl[r].pc = "ok"
    PROVE  repl'[r] = repl[r]
<1>1. ~PatchCalls(r) /\ ~RunCalls(r)
  BY DEF PatchCalls, RunCalls, RunStarts, LaunchesOnce
<1>2. \A n \in Names : repl[r].up[n] \in Settled
  BY DEF CallInv, UpsertsFirst
<1>3. ~CallSteps(r)
  BY <1>2 DEF CallSteps, ReplStep, UpsertSelect, UpsertInsert, UpsertRefind, DeleteTagRows,
              CreateTagRows, Settled
<1>4. QED
  BY <1>1, <1>3, CallMoves

\* While its link stays READY, a run does not lose its tags unheard.
LEMMA TagsToldStep ==
    ASSUME TypeInv, LaunchesOnce, CallInv, [Next]_vars, NEW l \in LinkIds, NEW r \in Reqs,
           links[l].status = "READY", links'[l].status = "READY",
           job[r].link = l, TagsTold(r)
    PROVE  job'[r].link = l /\ TagsTold(r)'
<1>1. job \in [Reqs -> Job] /\ links \in [LinkIds -> LinkRow]
  BY DEF TypeInv, TypeOK, TablesTypeOK, JobTypeOK
<1>2. CASE Restart
  <2>1. restarts' > 0 /\ job'[r].pc \notin Running
    BY <1>2, RestartDrops, FaultsCount
  <2>2. CASE job'[r] = job[r]
    BY <2>1, <2>2, FaultsCount DEF TagsTold, Running, Unsettled
  <2>3. CASE job'[r].pc = "killed" /\ job'[r].link = job[r].link
    BY <2>1, <2>3 DEF TagsTold
  <2>4. job'[r] = job[r] \/ (job'[r].pc = "killed" /\ job'[r].link = job[r].link)
    BY <1>1, <1>2 DEF Restart, Job
  <2>5. QED
    BY <2>2, <2>3, <2>4
<1>3. CASE ~Restart /\ job'[r] = job[r]
  <2>1. job[r].pc = "resolved" /\ repl[r].pc = "ok" => repl'[r].pc = "ok"
    BY <1>3, EndedCallStays
  <2>2. /\ restarts > 0 => restarts' > 0
        /\ dbErrors > 0 => dbErrors' > 0
    BY FaultsCount
  <2>3. QED
    BY <1>3, <2>1, <2>2 DEF TagsTold
<1>4. CASE JobStep(r)
  <2>1. Live(job[r].link)
    BY DEF Live, LinkStatus
  <2>2. CASE TagsReplaced(r)
    <3>1. \/ job' = [job EXCEPT ![r].pc = "resolved"] /\ repl'[r].pc = "ok"
          \/ job' = [job EXCEPT ![r].pc = "keep"]
      BY <2>2 DEF TagsReplaced, JobGoesTo
    <3>2. QED
      BY <1>1, <3>1 DEF Job, TagsTold
  <2>3. CASE KeepCrawled(r)
    <3>1. \/ job' = [job EXCEPT ![r].pc = "markFailed", ![r].reason = "LLM_ERROR"]
          \/ Throws(FALSE) /\ job' = [job EXCEPT ![r].pc = "rejected"]
      BY <2>1, <2>3 DEF KeepCrawled, JobGoesTo, AnswerLost, Throws
    <3>2. Throws(FALSE) => dbErrors' > 0
      BY FaultsCount
    <3>3. \/ job'[r] = [job[r] EXCEPT !.pc = "markFailed", !.reason = "LLM_ERROR"]
          \/ dbErrors' > 0 /\ job'[r] = [job[r] EXCEPT !.pc = "rejected"]
      BY <1>1, <3>1, <3>2
    <3>4. job[r] \in Job
      BY <1>1
    <3>5. QED
      BY <3>3, <3>4 DEF Job, TagsTold
  <2>4. CASE MarkFailed(r)
    <3>1. FailedRow(links[l], job[r].reason).status = "FAILED"
      BY <1>1 DEF FailedRow, LinkRow
    <3>2. Throws(FALSE) /\ job' = [job EXCEPT ![r].pc = "rejected"]
      BY <1>1, <2>1, <2>4, <3>1 DEF MarkFailed, JobGoesTo, Throws
    <3>3. dbErrors' > 0
      BY <3>2, FaultsCount
    <3>4. QED
      BY <1>1, <3>2, <3>3 DEF Job, TagsTold
  <2>5. job[r].pc \in {"tags", "keep", "markFailed"}
    BY <1>4, RunSteps DEF TagsTold
  <2>6. QED
    BY <1>4, <2>2, <2>3, <2>4, <2>5
       DEF JobStep, Find, Crawl, ReadBody, Summarize, UpdateReady
<1>5. ~Launch(r)
  BY DEF Launch, LaunchesOnce, TagsTold
<1>6. QED
  BY <1>2, <1>3, <1>4, <1>5, JobMoves

\* A READY link has, or will have, the tags of the run that made it READY,
\* however handlers, runs and their calls interleave; only a restart or a lost
\* statement leaves it without.
THEOREM ReadyAlwaysGetsTags == Spec => []ReadyGetsItsTags
<1> DEFINE Told(l) == \E r \in Reqs :
                         /\ links[l].summary = r
                         /\ job[r].link = l
                         /\ TagsTold(r)
<1>1. ReadyGetsItsTags <=> \A l \in LinkIds : links[l].status = "READY" => Told(l)
  BY DEF ReadyGetsItsTags, TagsTold
<1>2. Init => ReadyGetsItsTags
  BY DEF Init, TablesInit, EmptyRow, ReadyGetsItsTags
<1>3. TypeInv /\ PendingInv /\ CallInv /\ ReadyGetsItsTags /\ [Next]_vars => ReadyGetsItsTags'
  <2> SUFFICES ASSUME TypeInv, LaunchesOnce, CallInv, ReadyGetsItsTags, [Next]_vars,
                      NEW l \in LinkIds, links'[l].status = "READY"
               PROVE  \E r \in Reqs : /\ links'[l].summary = r
                                      /\ job'[r].link = l
                                      /\ TagsTold(r)'
    BY DEF PendingInv, ReadyGetsItsTags, TagsTold
  <2>1. CASE links'[l].status = links[l].status /\ links'[l].summary = links[l].summary
    <3>1. PICK r \in Reqs : links[l].summary = r /\ job[r].link = l /\ TagsTold(r)
      BY <1>1, <2>1
    <3>2. job'[r].link = l /\ TagsTold(r)'
      BY <2>1, <3>1, TagsToldStep
    <3>3. QED
      BY <2>1, <3>1, <3>2
  <2>2. ASSUME NEW s \in Reqs, job[s].pc = "ready", job[s].link = l, job'[s] # job[s],
               OutcomeOf(s, l)'
        PROVE  links'[l].summary = s /\ job'[s].link = l /\ TagsTold(s)'
    <3>1. job \in [Reqs -> Job]
      BY DEF TypeInv, TypeOK, JobTypeOK
    <3>2. ~Launch(s)
      BY <2>2 DEF Launch, LaunchesOnce
    <3>3. CASE JobStep(s)
      <4>1. UpdateReady(s)
        BY <2>2, <3>3 DEF JobStep, Find, Crawl, ReadBody, Summarize, TagsReplaced, KeepCrawled,
                          MarkFailed
      <4>2. job'[s].link = l /\ job'[s].pc \in {"tags", "keep"}
        BY <2>2, <3>1, <4>1 DEF UpdateReady, JobGoesTo, Job
      <4>3. QED
        BY <2>2, <4>2 DEF OutcomeOf, TagsTold
    <3>4. CASE Restart /\ job'[s].pc = "killed" /\ job'[s].link = job[s].link
      <4>1. restarts' > 0
        BY <3>4, FaultsCount
      <4>2. QED
        BY <2>2, <3>4, <4>1 DEF OutcomeOf, TagsTold
    <3>5. QED
      BY <2>2, <3>2, <3>3, <3>4, JobMoves
  <2>3. QED
    BY <2>1, <2>2, OutcomeOrigin
<1>4. QED
  BY <1>2, <1>3, TypeInvariant, PendingNeverOrphaned, CallsInOrder, PTL DEF Spec

=============================================================================
