---------------------------- MODULE LinksOverlap ----------------------------
(***************************************************************************)
(* The link service with a memory of its overlaps, which the code does not *)
(* keep: which runs were at work on one link at the same time, and which   *)
(* tag replacements.  With it the properties can say that something goes   *)
(* amiss only for an overlap, not merely for another run at some time.     *)
(***************************************************************************)
EXTENDS LinksServiceProps

VARIABLES
    runsMet,          \* pairs of requests whose runs have overlapped
    callsMet          \* pairs of requests whose tag replacements have

overlapVars == <<vars, runsMet, callsMet>>

\* r is to launch a run for link l, or its run is under way.
AtWork(r, l) ==
    \/ req[r].pc = "launch" /\ req[r].link = l
    \/ job[r].pc \in Running /\ job[r].link = l

RunsOverlap(r, s) == r # s /\ \E l \in LinkIds : AtWork(r, l) /\ AtWork(s, l)

\* The caller of replaceLinkTags is still waiting for it.
Called(r) == repl[r].pc \in {"upsert", "delete", "create"}

CallsOverlap(r, s) ==
    r # s /\ Called(r) /\ Called(s) /\ repl[r].link = repl[s].link

OverlapInit ==
    /\ Init
    /\ runsMet = {}
    /\ callsMet = {}

Remember ==
    /\ runsMet' = runsMet \cup {p \in Reqs \X Reqs : RunsOverlap(p[1], p[2])'}
    /\ callsMet' = callsMet \cup {p \in Reqs \X Reqs : CallsOverlap(p[1], p[2])'}

OverlapSpec == OverlapInit /\ [][Next /\ Remember]_overlapVars

\* Some other run, or call, has overlapped with that of r on its link.
RunMet(r) == \E s \in Reqs : <<r, s>> \in runsMet
CallMet(r) == \E s \in Reqs : <<r, s>> \in callsMet

-----------------------------------------------------------------------------
\* Undisturbed, a 500 means that the link was deleted since the check, or, to
\* a PATCH, that another replacement of the tags of the link overlapped with it.
ServerErrorMeansRace ==
    \A r \in Reqs :
        Undisturbed /\ req[r].code = "500" =>
            \/ links[req[r].link].status = "deleted"
            \/ req[r].op = "update" /\ CallMet(r)

\* With its connection up, a tag replacement rejects only because the link is
\* gone or another replacement on the same link overlapped with it: tags that
\* other links of the user gain at the same time never make it fail (the P2002
\* catch of upsertTag), and neither do replacements that ended before.
ReplaceFailsOnlyInARace ==
    [][\A r \in Reqs :
          /\ repl[r].pc # "err"
          /\ repl'[r].pc = "err"
          /\ dbErrors' = dbErrors
          => ~Live(repl[r].link) \/ CallMet(r)]_overlapVars

\* A replacement leaves the link with the given tags only (tags.util.ts:40),
\* unless another one on the same link overlapped with it: then the deleteMany
\* and createMany of the two may have interleaved.
AloneReplaceIsWhole ==
    [][\A r \in Reqs :
          repl[r].pc # "ok" /\ repl'[r].pc = "ok" =>
              TagsOf(repl[r].link)' = NewTags(r) \/ CallMet(r)]_overlapVars

\* A run writes READY or FAILED over READY or FAILED only if another run of the
\* link overlapped with it, or over its own READY, when its tags failed
\* (enrichment.service.ts:61-80); reprocesses that come one after the other
\* always start from PENDING.
OverwriteMeansOverlap ==
    [][\A l \in LinkIds :
          /\ links[l].status # "PENDING"
          /\ links'[l].status # links[l].status
          /\ links'[l].status \in {"READY", "FAILED"}
          => \E r \in Reqs :
                /\ job'[r] # job[r] /\ job[r].link = l
                /\ \/ RunMet(r)
                   \/ links[l].status = "READY" /\ links[l].summary = r]_overlapVars

=============================================================================
