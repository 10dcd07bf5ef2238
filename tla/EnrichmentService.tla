-------------------------- MODULE EnrichmentService --------------------------
(***************************************************************************)
(* backend/src/enrichment/enrichment.service.ts, with crawler.service.ts   *)
(* and summarizer.service.ts, which it awaits: the background run that     *)
(* crawls a link, has it summarized and writes the outcome.  The           *)
(* controller starts it and does not await it.  A run is named by the      *)
(* request that launched it; its steps are what happens between two        *)
(* awaits, each a statement or the answer of the crawled site or the LLM.  *)
(***************************************************************************)
EXTENDS TagsUtil

CONSTANT LlmTagLists    \* the tag lists a structured LLM answer may carry

ASSUME LlmAssumption == LlmTagLists \subseteq SUBSET RawNames

VARIABLE job            \* one pipeline run per request that launches one

\* Where a run may still write the status of its link ...
Unsettled == {"find", "crawl", "body", "summarize", "ready", "keep", "markFailed"}
\* ... and where it is still running.
Running == Unsettled \cup {"tags"}
\* "resolved" and "rejected" are the outcomes of the promise, "killed" says
\* that the process stopped.
JobPc == Running \cup {"none", "resolved", "rejected", "killed"}

Job == [pc     : JobPc,
        link   : LinkIds \cup {NULL},
        owner  : Users \cup {NULL},       \* link.userId as read by findUnique
        names  : SUBSET RawNames,         \* result.tags
        reason : FailReason \cup {NULL}]

NoJob == [pc |-> "none", link |-> NULL, owner |-> NULL, names |-> {},
          reason |-> NULL]

JobTypeOK == job \in [Reqs -> Job]

JobInit == job = [r \in Reqs |-> NoJob]

\* enrichAndIgnore calls enrich, which sends its findUnique and yields.
StartEnrich(r, l) ==
    job' = [job EXCEPT ![r] = [NoJob EXCEPT !.pc = "find", !.link = l]]

JobGoesTo(r, pc) == job' = [job EXCEPT ![r].pc = pc]

\* The row of the run's link.
JobRow(r) == links[job[r].link]

\* The rows that a run writes over a row.
ReadyRow(row, r) ==
    [row EXCEPT !.status = "READY", !.failReason = NULL, !.title = r, !.summary = r]

FailedRow(row, reason) == [row EXCEPT !.status = "FAILED", !.failReason = reason]

-----------------------------------------------------------------------------

\* Variant for TypeOK: the run forgets whose link it read.
FindForgetsOwner(r) ==
    /\ job[r].pc = "find"
    /\ Succeeds(TRUE)
    /\ JobGoesTo(r, IF Live(job[r].link) THEN "crawl" ELSE "resolved")
    /\ UNCHANGED <<links, tags, tagsOnLinks, repl>>

\* findUnique stands outside every try: if it throws, so does enrich.
Find(r) ==
    /\ job[r].pc = "find"
    /\ \/ /\ Succeeds(Live(job[r].link))
          /\ job' = [job EXCEPT ![r].pc = "crawl", ![r].owner = JobRow(r).userId]
       \/ /\ Succeeds(~Live(job[r].link))
          /\ JobGoesTo(r, "resolved")
       \/ /\ Throws(FALSE)
          /\ JobGoesTo(r, "rejected")
    /\ UNCHANGED <<links, tags, tagsOnLinks, repl>>

\* Variant for PendingHasRun and PendingExplained: a failed crawl returns.
CrawlReturns(r) ==
    /\ job[r].pc = "crawl"
    /\ \/ JobGoesTo(r, "body")
       \/ JobGoesTo(r, "resolved")
    /\ UNCHANGED <<tables, repl>>

\* CrawlerService.crawl throws and enrich catches it.
CrawlFails(r) ==
    job' = [job EXCEPT ![r].pc = "markFailed", ![r].reason = "CRAWL_ERROR"]

\* The headers of an ok answer are there, and the timer is cleared; or the
\* timer has aborted the fetch, the network failed or the status is not ok.
Crawl(r) ==
    /\ job[r].pc = "crawl"
    /\ JobGoesTo(r, "body") \/ CrawlFails(r)
    /\ UNCHANGED <<tables, repl>>

\* res.text() and extract: the body is there and has text, or it has none or
\* the connection broke.  No timer runs any more.
ReadBody(r) ==
    /\ job[r].pc = "body"
    /\ JobGoesTo(r, "summarize") \/ CrawlFails(r)
    /\ UNCHANGED <<tables, repl>>

\* Variant for PendingSettles: a failed summary is logged and forgotten.
SummarizeForgets(r) ==
    /\ job[r].pc = "summarize"
    /\ \/ \E raw \in LlmTagLists :
             job' = [job EXCEPT ![r].pc = "ready", ![r].names = raw]
       \/ JobGoesTo(r, "resolved")
    /\ UNCHANGED <<tables, repl>>

\* Variant for RejectedMeansGone: the summary stands outside every try.
SummarizeThrows(r) ==
    /\ job[r].pc = "summarize"
    /\ \/ \E raw \in LlmTagLists :
             job' = [job EXCEPT ![r].pc = "ready", ![r].names = raw]
       \/ JobGoesTo(r, "rejected")
    /\ UNCHANGED <<tables, repl>>

Summarize(r) ==
    /\ job[r].pc = "summarize"
    /\ \/ \E raw \in LlmTagLists :
             job' = [job EXCEPT ![r].pc = "ready", ![r].names = raw]
       \/ JobGoesTo(r, "keep")
    /\ UNCHANGED <<tables, repl>>

\* Variant for ReadyFromOneRun: a title that is already there is kept.
UpdateReadyKeepsTitle(r) ==
    /\ job[r].pc = "ready"
    /\ \/ /\ Succeeds(Live(job[r].link))
          /\ links' = [links EXCEPT ![job[r].link] =
                          [ReadyRow(@, r) EXCEPT
                              !.title = IF JobRow(r).title = NULL
                                        THEN r ELSE JobRow(r).title]]
          /\ StartReplace(r, job[r].owner, job[r].link, job[r].names)
          /\ JobGoesTo(r, "tags")
       \/ /\ Throws(~Live(job[r].link))
          /\ JobGoesTo(r, "keep")
          /\ UNCHANGED <<links, repl>>
    /\ UNCHANGED <<tags, tagsOnLinks>>

\* The update to READY; its answer starts replaceLinkTags for the owner read
\* at the start of the run.
UpdateReady(r) ==
    /\ job[r].pc = "ready"
    /\ \/ /\ \/ /\ Succeeds(Live(job[r].link))
                /\ StartReplace(r, job[r].owner, job[r].link, job[r].names)
                /\ JobGoesTo(r, "tags")
             \/ /\ AnswerLost(Live(job[r].link))
                /\ JobGoesTo(r, "keep")
                /\ UNCHANGED repl
          /\ links' = [links EXCEPT ![job[r].link] = ReadyRow(@, r)]
       \/ /\ Throws(~Live(job[r].link))
          /\ JobGoesTo(r, "keep")
          /\ UNCHANGED <<links, repl>>
    /\ UNCHANGED <<tags, tagsOnLinks>>

\* Variant for EverythingEnds: nobody hears of the rejection.
TagsReplacedOkOnly(r) ==
    /\ job[r].pc = "tags"
    /\ repl[r].pc = "ok"
    /\ JobGoesTo(r, "resolved")
    /\ UNCHANGED <<tables, repl>>

\* Variant for ReadyGetsItsTags: the rejection is logged and forgotten.
TagsReplacedSwallows(r) ==
    /\ job[r].pc = "tags"
    /\ repl[r].pc \in {"ok", "err"}
    /\ JobGoesTo(r, "resolved")
    /\ UNCHANGED <<tables, repl>>

TagsReplaced(r) ==
    /\ job[r].pc = "tags"
    /\ \/ /\ repl[r].pc = "ok"
          /\ JobGoesTo(r, "resolved")
       \/ /\ repl[r].pc = "err"
          /\ JobGoesTo(r, "keep")
    /\ UNCHANGED <<tables, repl>>

\* The catch keeps what was crawled, then marks the link failed.
KeepCrawled(r) ==
    /\ job[r].pc = "keep"
    /\ \/ /\ \/ /\ Succeeds(Live(job[r].link))
                /\ job' = [job EXCEPT ![r].pc = "markFailed",
                                      ![r].reason = "LLM_ERROR"]
             \/ AnswerLost(Live(job[r].link)) /\ JobGoesTo(r, "rejected")
          /\ links' = [links EXCEPT ![job[r].link].title = r]
       \/ /\ Throws(~Live(job[r].link))
          /\ JobGoesTo(r, "rejected")
          /\ UNCHANGED links
    /\ UNCHANGED <<tags, tagsOnLinks, repl>>

\* Variant for ImplementsLifecycle: an upsert in place of the update.
MarkFailedUpserts(r) ==
    /\ job[r].pc = "markFailed"
    /\ Succeeds(TRUE)
    /\ links' = [links EXCEPT ![job[r].link] = FailedRow(@, job[r].reason)]
    /\ JobGoesTo(r, "resolved")
    /\ UNCHANGED <<tags, tagsOnLinks, repl>>

MarkFailed(r) ==
    /\ job[r].pc = "markFailed"
    /\ \/ /\ \/ Succeeds(Live(job[r].link)) /\ JobGoesTo(r, "resolved")
             \/ AnswerLost(Live(job[r].link)) /\ JobGoesTo(r, "rejected")
          /\ links' = [links EXCEPT ![job[r].link] = FailedRow(@, job[r].reason)]
       \/ /\ Throws(~Live(job[r].link))
          /\ JobGoesTo(r, "rejected")
          /\ UNCHANGED links
    /\ UNCHANGED <<tags, tagsOnLinks, repl>>

JobStep(r) ==
    \/ Find(r)
    \/ Crawl(r)
    \/ ReadBody(r)
    \/ Summarize(r)
    \/ UpdateReady(r)
    \/ TagsReplaced(r)
    \/ KeepCrawled(r)
    \/ MarkFailed(r)

=============================================================================
