---------------------------- MODULE LinksService ----------------------------
(***************************************************************************)
(* backend/src/links/links.service.ts and links.controller.ts: the four    *)
(* requests that change a link, interleaved with the pipeline runs they    *)
(* launch and with restarts of the server process, which keeps nothing but *)
(* the database.  A handler's first step is its arrival up to the answer   *)
(* of its first statement.                                                 *)
(***************************************************************************)
EXTENDS EnrichmentService

CONSTANTS
    PatchTagLists,    \* the tag lists a PATCH body may carry
    MaxRestarts       \* bound on restarts of the server process

\* HTTP status codes; "dropped" is a connection the process left unanswered.
Code == {"201", "202", "200", "204", "403", "404", "500", "dropped"}

ASSUME ServiceAssumption ==
    /\ PatchTagLists \subseteq SUBSET RawNames
    /\ NULL \notin Code
    /\ MaxRestarts \in Nat

VARIABLES
    req,              \* the handler of each request
    restarts          \* how often the process has been restarted

vars == <<tables, repl, job, req, restarts>>

Op == {"create", "update", "remove", "reprocess"}

\* Between arrival and answer.  "launch": the link is PENDING in the
\* database, the controller is yet to call enrich.
InHandler == {"tags", "patch", "delete", "reset", "launch"}

Request == [pc    : InHandler \cup {"new", "done"},
            op    : Op \cup {NULL},
            user  : Users \cup {NULL},
            link  : LinkIds \cup {NULL},
            title : BOOLEAN,              \* dto.title is there
            code  : Code \cup {NULL}]

NewRequest == [pc |-> "new", op |-> NULL, user |-> NULL, link |-> NULL,
               title |-> FALSE, code |-> NULL]

TypeOK ==
    /\ TablesTypeOK
    /\ ReplTypeOK
    /\ JobTypeOK
    /\ req \in [Reqs -> Request]
    /\ restarts \in 0 .. MaxRestarts

Init ==
    /\ TablesInit
    /\ ReplInit
    /\ JobInit
    /\ req = [r \in Reqs |-> NewRequest]
    /\ restarts = 0

ReqGoesTo(r, pc) == req' = [req EXCEPT ![r].pc = pc]

Answer(r, code) ==
    req' = [req EXCEPT ![r].pc = "done", ![r].code = code]

\* Request r of user u for an operation on link l arrives and gets to pc ...
Arrive(r, op, u, l, title, pc) ==
    req' = [req EXCEPT ![r] = [NewRequest EXCEPT !.pc = pc, !.op = op,
                                  !.user = u, !.link = l, !.title = title]]

\* ... or is answered straight away.
Refuse(r, op, u, l, code) ==
    req' = [req EXCEPT ![r] = [NewRequest EXCEPT !.pc = "done", !.op = op,
                                  !.user = u, !.link = l, !.code = code]]

\* Variant for OwnerStillValid and OwnerOnly: 404 but no 403.
OwnedByAnyone(l, u) == Live(l)

\* assertOwnership on the row that findUnique returned.
Owned(l, u) == Live(l) /\ links[l].userId = u

RefusalCode(l) == IF Live(l) THEN "403" ELSE "404"

\* findUnique and assertOwnership let the request down.
Refused(r, op, u, l) ==
    /\ \/ /\ Succeeds(~Owned(l, u))
          /\ Refuse(r, op, u, l, RefusalCode(l))
       \/ /\ Throws(FALSE)
          /\ Refuse(r, op, u, l, "500")
    /\ UNCHANGED <<links, tags, tagsOnLinks, repl>>

-----------------------------------------------------------------------------

\* A request whose INSERT was carried out keeps the id, also when the handler
\* was not told it: that is for the properties only.
Create(r, u) ==
    /\ req[r].pc = "new"
    /\ \/ \E l \in LinkIds :
             /\ links[l].status = "unborn"
             /\ \/ Succeeds(TRUE) /\ Arrive(r, "create", u, l, FALSE, "launch")
                \/ AnswerLost(TRUE) /\ Refuse(r, "create", u, l, "500")
             /\ InsertLink(l, u)
       \/ /\ Throws(FALSE)
          /\ Refuse(r, "create", u, NULL, "500")
          /\ UNCHANGED links
    /\ UNCHANGED <<tags, tagsOnLinks, repl, job, restarts>>

\* dto.tags, when it is there, is replaced first; [] is there.
Update(r, u, l, title) ==
    /\ req[r].pc = "new"
    /\ \/ /\ Succeeds(Owned(l, u))
          /\ \/ /\ Arrive(r, "update", u, l, title, "patch")
                /\ UNCHANGED repl
             \/ \E raw \in PatchTagLists :
                   /\ StartReplace(r, u, l, raw)
                   /\ Arrive(r, "update", u, l, title, "tags")
          /\ UNCHANGED <<links, tags, tagsOnLinks>>
       \/ Refused(r, "update", u, l)
    /\ UNCHANGED <<job, restarts>>

PatchTagsReplaced(r) ==
    /\ req[r].pc = "tags"
    /\ \/ repl[r].pc = "ok" /\ ReqGoesTo(r, "patch")
       \/ repl[r].pc = "err" /\ Answer(r, "500")
    /\ UNCHANGED <<tables, repl, job, restarts>>

PatchLink(r) ==
    LET l == req[r].link
    IN  /\ req[r].pc = "patch"
        /\ \/ /\ \/ Succeeds(Live(l)) /\ Answer(r, "200")
                 \/ AnswerLost(Live(l)) /\ Answer(r, "500")
              /\ links' = [links EXCEPT ![l].title =
                              IF req[r].title THEN r ELSE @]
           \/ /\ Throws(~Live(l))
              /\ Answer(r, "500")
              /\ UNCHANGED links
        /\ UNCHANGED <<tags, tagsOnLinks, repl, job, restarts>>

Remove(r, u, l) ==
    /\ req[r].pc = "new"
    /\ \/ /\ Succeeds(Owned(l, u))
          /\ Arrive(r, "remove", u, l, FALSE, "delete")
          /\ UNCHANGED <<links, tags, tagsOnLinks, repl>>
       \/ Refused(r, "remove", u, l)
    /\ UNCHANGED <<job, restarts>>

\* Variant for DeletedForGood: deleteMany, which is content with no row.
DeleteLinkMany(r) ==
    /\ req[r].pc = "delete"
    /\ Succeeds(TRUE)
    /\ DeleteLinkRow(req[r].link)
    /\ Answer(r, "204")
    /\ UNCHANGED <<tags, repl, job, restarts>>

DeleteLink(r) ==
    LET l == req[r].link
    IN  /\ req[r].pc = "delete"
        /\ \/ /\ \/ Succeeds(Live(l)) /\ Answer(r, "204")
                 \/ AnswerLost(Live(l)) /\ Answer(r, "500")
              /\ DeleteLinkRow(l)
           \/ /\ Throws(~Live(l))
              /\ Answer(r, "500")
              /\ UNCHANGED <<links, tagsOnLinks>>
        /\ UNCHANGED <<tags, repl, job, restarts>>

Reprocess(r, u, l) ==
    /\ req[r].pc = "new"
    /\ \/ /\ Succeeds(Owned(l, u))
          /\ Arrive(r, "reprocess", u, l, FALSE, "reset")
          /\ UNCHANGED <<links, tags, tagsOnLinks, repl>>
       \/ Refused(r, "reprocess", u, l)
    /\ UNCHANGED <<job, restarts>>

PendingRow(row) == [row EXCEPT !.status = "PENDING", !.failReason = NULL]

\* Variant for StatusCoherent: the reason of the last failure stays.
ResetLinkKeepsReason(r) ==
    LET l == req[r].link
    IN  /\ req[r].pc = "reset"
        /\ \/ /\ Succeeds(Live(l))
              /\ links' = [links EXCEPT ![l].status = "PENDING"]
              /\ ReqGoesTo(r, "launch")
           \/ /\ Throws(~Live(l))
              /\ Answer(r, "500")
              /\ UNCHANGED links
        /\ UNCHANGED <<tags, repl, job, restarts, tagsOnLinks>>

\* Variant for OverwriteMeansOverlap: the run is launched with no reset.
ResetLinkLaunchesOnly(r) ==
    /\ req[r].pc = "reset"
    /\ Succeeds(Live(req[r].link))
    /\ ReqGoesTo(r, "launch")
    /\ UNCHANGED <<links, tags, tagsOnLinks, repl, job, restarts>>

ResetLink(r) ==
    LET l == req[r].link
    IN  /\ req[r].pc = "reset"
        /\ \/ /\ \/ Succeeds(Live(l)) /\ ReqGoesTo(r, "launch")
                 \/ AnswerLost(Live(l)) /\ Answer(r, "500")
              /\ links' = [links EXCEPT ![l] = PendingRow(@)]
           \/ /\ Throws(~Live(l))
              /\ Answer(r, "500")
              /\ UNCHANGED links
        /\ UNCHANGED <<tags, tagsOnLinks, repl, job, restarts>>

\* The controller calls enrich without awaiting it and answers.
Launch(r) ==
    /\ req[r].pc = "launch"
    /\ StartEnrich(r, req[r].link)
    /\ Answer(r, IF req[r].op = "create" THEN "201" ELSE "202")
    /\ UNCHANGED <<tables, repl, restarts>>

\* The process stops and starts again; what it held in memory is gone.
Restart ==
    /\ restarts < MaxRestarts
    /\ restarts' = restarts + 1
    /\ req' = [r \in Reqs |->
                  IF req[r].pc \in InHandler
                  THEN [req[r] EXCEPT !.pc = "done", !.code = "dropped"]
                  ELSE req[r]]
    /\ job' = [r \in Reqs |->
                  IF job[r].pc \in Running
                  THEN [job[r] EXCEPT !.pc = "killed"]
                  ELSE job[r]]
    /\ repl' = [r \in Reqs |-> IdleRepl]
    /\ UNCHANGED tables

-----------------------------------------------------------------------------

Arrival(r) ==
    \E u \in Users :
        \/ Create(r, u)
        \/ \E l \in LinkIds :
              \/ \E title \in BOOLEAN : Update(r, u, l, title)
              \/ Remove(r, u, l)
              \/ Reprocess(r, u, l)

HandlerStep(r) ==
    \/ PatchTagsReplaced(r)
    \/ PatchLink(r)
    \/ DeleteLink(r)
    \/ ResetLink(r)
    \/ Launch(r)

Step(r) ==
    \/ Arrival(r)
    \/ HandlerStep(r)
    \/ JobStep(r) /\ UNCHANGED <<req, restarts>>
    \/ ReplStep(r) /\ UNCHANGED <<job, req, restarts>>

Next == Restart \/ \E r \in Reqs : Step(r)

Spec == Init /\ [][Next]_vars

\* Requests need not arrive and the process need not restart.  Once a handler
\* or a run is under way, the event loop gets to it, the database answers,
\* and so do the crawled site and the LLM.
FairSpec ==
    /\ Spec
    /\ \A r \in Reqs :
          /\ WF_vars(HandlerStep(r))
          /\ WF_vars(JobStep(r) /\ UNCHANGED <<req, restarts>>)
          /\ WF_vars(ReplStep(r) /\ UNCHANGED <<job, req, restarts>>)

\* The same, but a crawled site may send its body for ever: only the steps of
\* a run that some timeout or the server itself brings about are fair.
SlowSiteSpec ==
    /\ Spec
    /\ \A r \in Reqs :
          /\ WF_vars(HandlerStep(r))
          /\ WF_vars(JobStep(r) /\ job[r].pc # "body" /\ UNCHANGED <<req, restarts>>)
          /\ WF_vars(ReplStep(r) /\ UNCHANGED <<job, req, restarts>>)

=============================================================================
