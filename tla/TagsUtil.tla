------------------------------ MODULE TagsUtil ------------------------------
(***************************************************************************)
(* backend/src/links/tags.util.ts: replaceLinkTags, called by the PATCH    *)
(* handler and by the enrichment pipeline, and the upsertTag calls it      *)
(* starts in parallel with Promise.all.  When one upsert rejects, the      *)
(* caller sees the rejection at once while the other upserts go on.        *)
(*                                                                         *)
(* A request makes at most one call of replaceLinkTags (a PATCH launches   *)
(* no pipeline run), so the calls are indexed by the request.              *)
(***************************************************************************)
EXTENDS LinkTables

CONSTANTS
    RawNames,     \* tag names as a client or the LLM spells them
    Fold,         \* what trim().toLowerCase() makes of each
    Blank         \* the empty string

ASSUME FoldAssumption ==
    /\ Fold \in [RawNames -> Names \cup {Blank}]
    /\ Blank \notin Names

VARIABLE repl     \* one call of replaceLinkTags per request

ReplPc == {"idle", "upsert", "delete", "create", "ok", "err"}
UpsertPc == {"none", "select", "insert", "refind", "done", "failed"}

Repl == [pc   : ReplPc,
         user : Users \cup {NULL},
         link : LinkIds \cup {NULL},
         up   : [Names -> UpsertPc]]

IdleRepl == [pc |-> "idle", user |-> NULL, link |-> NULL,
             up |-> [n \in Names |-> "none"]]

ReplTypeOK == repl \in [Reqs -> Repl]

ReplInit == repl = [r \in Reqs |-> IdleRepl]

\* trim, lower-case, drop the empty ones, and a Set to drop the duplicates.
Normalized(raw) == {Fold[x] : x \in raw} \ {Blank}

\* The synchronous part of the call: the upserts are sent, or none is.
StartReplace(r, u, l, raw) ==
    repl' = [repl EXCEPT ![r] =
                [pc   |-> IF Normalized(raw) = {} THEN "delete" ELSE "upsert",
                 user |-> u,
                 link |-> l,
                 up   |-> [n \in Names |->
                             IF n \in Normalized(raw) THEN "select" ELSE "none"]]]

TagOf(r, n) == <<repl[r].user, n>>

\* The tags call r attaches.
NewTags(r) == {TagOf(r, n) : n \in {m \in Names : repl[r].up[m] = "done"}}

\* Upsert n of call r gets to up, and the call itself to pc.
Upsert(r, n, up, pc) ==
    repl' = [repl EXCEPT ![r] =
                [pc |-> pc, user |-> @.user, link |-> @.link,
                 up |-> [@.up EXCEPT ![n] = up]]]

UpsertGoesTo(r, n, up) == Upsert(r, n, up, repl[r].pc)

\* An upsert resolves; the last one lets Promise.all resolve.
UpsertResolves(r, n) ==
    LET allDone == \A m \in Names \ {n} : repl[r].up[m] \in {"none", "done"}
    IN  Upsert(r, n, "done", IF repl[r].pc = "upsert" /\ allDone
                             THEN "delete" ELSE repl[r].pc)

\* An upsert rejects, and Promise.all with it.
UpsertRejects(r, n) == Upsert(r, n, "failed", "err")

-----------------------------------------------------------------------------
(* tag.upsert has an empty update, so Prisma runs it as a SELECT and, when *)
(* the row is missing, an INSERT.                                          *)

UpsertSelect(r, n) ==
    /\ repl[r].up[n] = "select"
    /\ \/ /\ Succeeds(TagOf(r, n) \in tags)
          /\ UpsertResolves(r, n)
       \/ /\ Succeeds(TagOf(r, n) \notin tags)
          /\ UpsertGoesTo(r, n, "insert")
       \/ /\ Throws(FALSE)
          /\ UpsertRejects(r, n)
    /\ UNCHANGED <<links, tags, tagsOnLinks>>

\* Variant for ReplaceFailsOnlyInARace and ServerErrorMeansRace: no catch.
UpsertInsertNoCatch(r, n) ==
    /\ repl[r].up[n] = "insert"
    /\ \/ /\ Succeeds(TagOf(r, n) \notin tags)
          /\ tags' = tags \cup {TagOf(r, n)}
          /\ UpsertResolves(r, n)
       \/ /\ Throws(TagOf(r, n) \in tags)
          /\ UpsertRejects(r, n)
          /\ UNCHANGED tags
    /\ UNCHANGED <<links, tagsOnLinks>>

\* P2002: the row came into being since the SELECT, and the catch looks it up.
UpsertInsert(r, n) ==
    /\ repl[r].up[n] = "insert"
    /\ \/ /\ \/ Succeeds(TagOf(r, n) \notin tags) /\ UpsertResolves(r, n)
             \/ AnswerLost(TagOf(r, n) \notin tags) /\ UpsertRejects(r, n)
          /\ tags' = tags \cup {TagOf(r, n)}
       \/ /\ Succeeds(TagOf(r, n) \in tags)
          /\ UpsertGoesTo(r, n, "refind")
          /\ UNCHANGED tags
       \/ /\ Throws(FALSE)
          /\ UpsertRejects(r, n)
          /\ UNCHANGED tags
    /\ UNCHANGED <<links, tagsOnLinks>>

\* findUniqueOrThrow in the catch.
UpsertRefind(r, n) ==
    /\ repl[r].up[n] = "refind"
    /\ \/ /\ Succeeds(TagOf(r, n) \in tags)
          /\ UpsertResolves(r, n)
       \/ /\ Throws(TagOf(r, n) \notin tags)
          /\ UpsertRejects(r, n)
    /\ UNCHANGED <<links, tags, tagsOnLinks>>

ReplGoesTo(r, pc) == repl' = [repl EXCEPT ![r].pc = pc]

\* Variant for AloneReplaceIsWhole: with no tag to attach, nothing is deleted.
DeleteTagRowsUnlessNone(r) ==
    /\ repl[r].pc = "delete"
    /\ Succeeds(TRUE)
    /\ tagsOnLinks' = IF NewTags(r) = {} THEN tagsOnLinks
                      ELSE {p \in tagsOnLinks : p[1] # repl[r].link}
    /\ ReplGoesTo(r, IF NewTags(r) = {} THEN "ok" ELSE "create")
    /\ UNCHANGED <<links, tags>>

\* deleteMany is content with no row; createMany is skipped for no tag.
DeleteTagRows(r) ==
    /\ repl[r].pc = "delete"
    /\ \/ /\ \/ /\ Succeeds(TRUE)
                /\ ReplGoesTo(r, IF NewTags(r) = {} THEN "ok" ELSE "create")
             \/ AnswerLost(TRUE) /\ ReplGoesTo(r, "err")
          /\ tagsOnLinks' = {p \in tagsOnLinks : p[1] # repl[r].link}
       \/ /\ Throws(FALSE)
          /\ ReplGoesTo(r, "err")
          /\ UNCHANGED tagsOnLinks
    /\ UNCHANGED <<links, tags>>

\* createMany is one INSERT: a row already there (P2002) or a missing link
\* (P2003) makes all of it fail.
CreateTagRows(r) ==
    LET l == repl[r].link
        clash == \/ ~Live(l)
                 \/ NewTags(r) \cap TagsOf(l) # {}
    IN  /\ repl[r].pc = "create"
        /\ \/ /\ \/ Succeeds(~clash) /\ ReplGoesTo(r, "ok")
                 \/ AnswerLost(~clash) /\ ReplGoesTo(r, "err")
              /\ tagsOnLinks' = tagsOnLinks \cup {<<l, t>> : t \in NewTags(r)}
           \/ /\ Throws(clash)
              /\ ReplGoesTo(r, "err")
              /\ UNCHANGED tagsOnLinks
        /\ UNCHANGED <<links, tags>>

ReplStep(r) ==
    \/ \E n \in Names : UpsertSelect(r, n) \/ UpsertInsert(r, n) \/ UpsertRefind(r, n)
    \/ DeleteTagRows(r)
    \/ CreateTagRows(r)

=============================================================================
