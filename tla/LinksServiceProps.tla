-------------------------- MODULE LinksServiceProps --------------------------
(***************************************************************************)
(* What should hold of the link service, and five things its comments and  *)
(* its README say that do not.                                             *)
(***************************************************************************)
EXTENDS LinksService

\* No statement failed for want of a connection and the process never stopped.
Undisturbed == dbErrors = 0 /\ restarts = 0

\* r has checked that its user owns its link and is about to act on it.
Acting(r) == req[r].pc \in {"tags", "patch", "delete", "reset"}

\* Call r of replaceLinkTags is under way.
Replacing(r) == \/ repl[r].pc \in {"upsert", "delete", "create"}
                \/ \E n \in Names : repl[r].up[n] \in {"select", "insert", "refind"}

\* r still owes link l an outcome: its run may yet write a status, or the
\* controller is about to launch the run.
Owes(r, l) ==
    \/ req[r].pc = "launch" /\ req[r].link = l
    \/ job[r].pc \in Unsettled /\ job[r].link = l

\* What r owed link l is lost: the process stopped in its handler or its run,
\* or a lost statement made the handler answer 500 or the run throw.
Lost(r, l) ==
    \/ /\ req[r].op \in {"create", "reprocess"} /\ req[r].link = l
       /\ \/ req[r].code = "dropped" /\ restarts > 0
          \/ req[r].code = "500" /\ dbErrors > 0
    \/ /\ job[r].link = l
       /\ \/ job[r].pc = "killed" /\ restarts > 0
          \/ job[r].pc = "rejected" /\ dbErrors > 0

-----------------------------------------------------------------------------
(* Invariants                                                              *)

\* The columns of a row tell one story whatever runs, edits and faults were
\* interleaved: FAILED has a reason and no other status has one, READY has a
\* summary, and LLM_ERROR keeps the crawled title for a later reprocess
\* (enrichment.service.ts:75).
StatusCoherent ==
    \A l \in LinkIds :
        /\ (links[l].status = "FAILED") <=> (links[l].failReason # NULL)
        /\ links[l].status = "READY" => links[l].summary # NULL
        /\ links[l].failReason = "LLM_ERROR" => links[l].title # NULL

\* Undisturbed, a PENDING link always has a request or run that will still
\* write its status, however many reprocess requests and late runs overlap.
PendingHasRun ==
    Undisturbed =>
        \A l \in LinkIds :
            links[l].status = "PENDING" => \E r \in Reqs : Owes(r, l)

\* Undisturbed, a READY link shows title and summary of one and the same run,
\* unless a PATCH wrote the title or a run that failed later has left its
\* crawled title and is about to mark the link FAILED (lines 76-80).
ReadyFromOneRun ==
    Undisturbed =>
        \A l \in LinkIds :
            links[l].status = "READY" =>
                \/ links[l].title = links[l].summary
                \/ req[links[l].title].op = "update"
                \/ \E r \in Reqs : /\ job[r].link = l
                                   /\ job[r].pc = "markFailed"
                                   /\ job[r].reason = "LLM_ERROR"

\* A row of TagsOnLinks joins a link and a tag of the same user, both there.
\* The database does not check the user; the handlers and the run, which
\* read the owner many steps before they attach a tag, must get it right.
TagRowsSound ==
    \A p \in tagsOnLinks :
        /\ Live(p[1])
        /\ p[2] \in tags
        /\ p[2][1] = links[p[1]].userId

\* The ownership a handler checked and the owner a run read at its start are
\* still right at every later step, as long as the link is there.
OwnerStillValid ==
    \A r \in Reqs :
        /\ Acting(r) /\ Live(req[r].link) =>
              links[req[r].link].userId = req[r].user
        /\ job[r].pc \in Running \ {"find"} /\ Live(job[r].link) =>
              links[job[r].link].userId = job[r].owner
        /\ Replacing(r) /\ Live(repl[r].link) =>
              links[repl[r].link].userId = repl[r].user

\* At most one DELETE of a link is answered 204, and the link stays away
\* afterwards, whatever late runs and edits still write.
DeletedForGood ==
    \A r, s \in Reqs :
        req[r].code = "204" =>
            /\ links[req[r].link].status = "deleted"
            /\ req[s].code = "204" /\ req[s].link = req[r].link => s = r

\* A PENDING link that nobody owes an outcome any more lost it to a fault that
\* hit this very link: the process stopped between its reset and its launch or
\* during its run; or a statement was lost and its run threw
\* (enrichment.service.ts:36, :76 and :91), or the INSERT or the reset was
\* carried out and its caller, told 500, launched nothing
\* (links.service.ts:26 and :155).
PendingExplained ==
    \A l \in LinkIds :
        links[l].status = "PENDING" => \E r \in Reqs : Owes(r, l) \/ Lost(r, l)

\* A READY link has the tags of the run that made it READY, or will: the tag
\* replacement of the run is under way or went through, or the run is about to
\* take READY back (enrichment.service.ts:61-80).  Only a restart, or a lost
\* statement that made the run throw, leaves a READY link without them.
ReadyGetsItsTags ==
    \A l \in LinkIds :
        links[l].status = "READY" =>
            \E r \in Reqs :
                /\ links[l].summary = r
                /\ job[r].link = l
                /\ \/ job[r].pc \in {"tags", "keep", "markFailed"}
                   \/ job[r].pc = "resolved" /\ (repl[r].pc = "ok" \/ restarts > 0)
                   \/ job[r].pc = "killed" /\ restarts > 0
                   \/ job[r].pc = "rejected" /\ dbErrors > 0

\* While no statement was lost, enrich throws for one reason only: its link was
\* deleted under it (enrichment.service.ts:76 and :91), so nobody misses the
\* outcome.  (The comment at enrichment.service.ts:17 says that it never throws.)
RejectedMeansGone ==
    dbErrors = 0 =>
        \A r \in Reqs :
            job[r].pc = "rejected" => links[job[r].link].status = "deleted"

-----------------------------------------------------------------------------
(* Action properties                                                       *)

\* Only requests of its owner, and the runs and tag writes they started, ever
\* change a link or its tags (README.md, ownership).
OwnerOnly ==
    [][\A l \in LinkIds :
          Live(l) /\ (links'[l] # links[l] \/ TagsOf(l)' # TagsOf(l)) =>
              \E r \in Reqs :
                  /\ req[r].user = links[l].userId
                  /\ <<req[r], job[r], repl[r]>>' # <<req[r], job[r], repl[r]>>]_vars

-----------------------------------------------------------------------------
(* Liveness                                                                *)

\* A saved or reprocessed link leaves PENDING.
PendingSettles ==
    \A l \in LinkIds :
        links[l].status = "PENDING" ~> links[l].status # "PENDING"

\* A request in a handler gets its answer, and a run ends.
EverythingEnds ==
    \A r \in Reqs :
        (req[r].pc \in InHandler \/ job[r].pc \in Running \/ Replacing(r))
            ~> (req[r].pc = "done" /\ job[r].pc \notin Running /\ ~Replacing(r))

-----------------------------------------------------------------------------
(* Undisturbed, the service implements the lifecycle of a link.            *)

Lifecycle == INSTANCE LinkLifecycle WITH
    Runs   <- Reqs,
    status <- [l \in LinkIds |-> links[l].status],
    runs   <- [l \in LinkIds |->
                 {r \in Reqs : \/ req[r].pc = "launch" /\ req[r].link = l
                               \/ job[r].pc \in Running /\ job[r].link = l}]

\* Every save, reprocess, outcome and delete is one the lifecycle allows.
ImplementsLifecycle == Lifecycle!Spec

-----------------------------------------------------------------------------
(* What the source says and the code does not do                           *)

\* crawler.service.ts:38-39: whatever site is crawled, a run does not go on for
\* ever.
RunsEnd == \A r \in Reqs : job[r].pc \in Running ~> job[r].pc \notin Running

\* README.md:5, enrichment.service.ts:56 and :84: READY and FAILED are entered
\* from PENDING.
SettledOnlyFromPending ==
    [][\A l \in LinkIds :
          links'[l].status # links[l].status /\ links'[l].status \in {"READY", "FAILED"}
              => links[l].status = "PENDING"]_vars

\* tags.util.ts:40: a replacement leaves the link with the given names only.
ReplaceIsWhole ==
    [][\A r \in Reqs :
          repl[r].pc # "ok" /\ repl'[r].pc = "ok" =>
              TagsOf(repl[r].link)' = NewTags(r)]_vars

=============================================================================
