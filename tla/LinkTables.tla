----------------------------- MODULE LinkTables -----------------------------
(***************************************************************************)
(* The tables of the Postgres database (backend/prisma/schema.prisma) that *)
(* the link pipeline reads and writes, and the statements Prisma sends to  *)
(* them.  The database runs one statement at a time: the code opens no     *)
(* transaction that spans two statements, so a statement is a step.        *)
(*                                                                         *)
(* A text column holds the request whose pipeline run or PATCH wrote it    *)
(* (its provenance), which is all the properties need to tell apart: NULL  *)
(* is a column nothing has written yet, not a crawled page without title.  *)
(* ogImage is always written together with the crawled title and is left   *)
(* out.                                                                    *)
(***************************************************************************)
EXTENDS Naturals

CONSTANTS
    Users,        \* primary keys of User; no code deletes a user
    LinkIds,      \* the cuids link.create may generate
    Names,        \* normalized, non-empty tag names
    Reqs,         \* HTTP requests that may change a link; each arrives once
    NULL,         \* SQL NULL, or "not set" in a program variable
    MaxDbErrors   \* bound on statements that throw for no reason of the data

FailReason == {"CRAWL_ERROR", "LLM_ERROR"}

ASSUME TablesAssumption ==
    /\ NULL \notin Users
    /\ NULL \notin LinkIds
    /\ NULL \notin Reqs
    /\ NULL \notin FailReason
    /\ MaxDbErrors \in Nat

VARIABLES
    links,        \* table Link: one row per id, or the mark that there is none
    tags,         \* table Tag: the pairs <<userId, name>> (@@unique)
    tagsOnLinks,  \* table TagsOnLinks: the pairs <<linkId, tag>> (@@id)
    dbErrors      \* statements that so far threw for a dropped connection

tables == <<links, tags, tagsOnLinks, dbErrors>>

LinkStatus == {"PENDING", "READY", "FAILED"}

\* "unborn" and "deleted" say that the table has no row under this id: a cuid
\* is never generated twice.
LinkRow == [status     : LinkStatus \cup {"unborn", "deleted"},
            userId     : Users \cup {NULL},
            failReason : FailReason \cup {NULL},
            title      : Reqs \cup {NULL},
            summary    : Reqs \cup {NULL}]

EmptyRow(status) == [status |-> status, userId |-> NULL, failReason |-> NULL,
                     title |-> NULL, summary |-> NULL]

Tag == Users \X Names

Live(l) == links[l].status \in LinkStatus

TagsOf(l) == {t \in Tag : <<l, t>> \in tagsOnLinks}

TablesTypeOK ==
    /\ links \in [LinkIds -> LinkRow]
    /\ tags \subseteq Tag
    /\ tagsOnLinks \subseteq LinkIds \X Tag
    /\ dbErrors \in 0 .. MaxDbErrors

TablesInit ==
    /\ links = [l \in LinkIds |-> EmptyRow("unborn")]
    /\ tags = {}
    /\ tagsOnLinks = {}
    /\ dbErrors = 0

-----------------------------------------------------------------------------
(* The outcome of a statement.  It throws when a constraint or a missing   *)
(* row makes it fail, and at any time when the connection drops: before    *)
(* the database has carried it out, or after, when only the answer is      *)
(* lost.  A lost statement is carried out at once or never.                *)

Succeeds(possible) ==
    /\ possible
    /\ UNCHANGED dbErrors

Throws(impossible) ==
    \/ /\ impossible
       /\ UNCHANGED dbErrors
    \/ /\ dbErrors < MaxDbErrors
       /\ dbErrors' = dbErrors + 1

\* The statement is carried out and its caller sees it throw.
AnswerLost(possible) ==
    /\ possible
    /\ dbErrors < MaxDbErrors
    /\ dbErrors' = dbErrors + 1

\* link.create: status and the nullable columns take their schema defaults.
InsertLink(l, u) ==
    links' = [links EXCEPT ![l] = [EmptyRow("PENDING") EXCEPT !.userId = u]]

\* Variant for TagRowsSound: the relation is declared without Cascade.
DeleteLinkRowNoCascade(l) ==
    /\ links' = [links EXCEPT ![l] = EmptyRow("deleted")]
    /\ UNCHANGED tagsOnLinks

\* link.delete: TagsOnLinks.link is declared onDelete: Cascade.
DeleteLinkRow(l) ==
    /\ links' = [links EXCEPT ![l] = EmptyRow("deleted")]
    /\ tagsOnLinks' = {p \in tagsOnLinks : p[1] # l}

=============================================================================
