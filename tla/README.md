# linkstash-ai: a verification project

TLA+ modules, TLC runs and TLAPS proofs about linkstash-ai, a bookmark service: a
user saves a URL, the server crawls the page, asks an LLM for a summary and tags,
and the client polls until the link is `READY` or `FAILED`. Paths below are
relative to the repository; `PROJECT.json` maps every definition to its lines.

## The system

| Component | State | Operations | Interacts with |
| --- | --- | --- | --- |
| Database (`backend/prisma/schema.prisma`) | tables `User`, `Link`, `Tag`, `TagsOnLinks` | single statements; no transaction spans two | everything on the server |
| `LinksService`, `LinksController`, `TagsController` | handlers in flight | create, update, remove, reprocess; findAll, findOne, listTags | calls `replaceLinkTags`; starts `enrich` without awaiting it |
| `tags.util.ts` | calls in flight | `upsertTag`, `replaceLinkTags` | called by PATCH, by the pipeline, by the demo script |
| `EnrichmentService` | pipeline runs in flight, in memory only | `enrich`, `markFailed` | crawler, summarizer, tags.util, database |
| `CrawlerService` | one timer per crawl | `crawl`, `extract` | the crawled site |
| `SummarizerService` | none | `summarize` | OpenAI |
| `AuthService`, `AuthController`, `JwtStrategy` | rows of `User`, tokens | register, login, me, validate | database |
| Demo script (`backend/scripts/seed-demo.ts`) | rows it writes | one script, may be run again | database, tags.util |
| Frontend session | token and user, persisted; the forms | login, register, logout, interceptors | auth API |
| Frontend link list | query cache, polling timer | list, quick-add, retry, filters | links API, session |
| Wiring, validation, presentation | none of interest | | |

What is hard in it:

* **Interleaving.** A handler and a pipeline run are sequences of statements with
  awaits in between; nothing locks a link. A PATCH, a DELETE, a second reprocess
  and any number of runs of one link overlap freely, and inside one tag
  replacement the upserts run in parallel.
* **Stale knowledge.** Ownership is checked on a row read before the write; the
  pipeline attaches tags for an owner it read many seconds earlier.
* **Partial effects.** Tags are deleted and created in two statements; `READY` is
  written before the tags; a PATCH changes tags, then the title.
* **Failure.** Any statement may lose its connection, before it is carried out or before
  its answer is back; the crawl and the LLM fail at will, and the process may stop:
  runs are kept in memory only.
* **Ordering at the client.** Answers arrive after a logout, after another login, or
  after a newer answer; a form that was left goes on with its requests.
* **Pages.** The server keeps nothing between two pages of a list; all it gets back is
  the id of a link that may have changed or gone.

What makes each part correct:

* database and tags: an attached tag exists and belongs to the owner of a link that
  exists; concurrent upserts of one name never fail;
* handlers: only the owner's requests change a link; a 500 has a cause that can be
  named; a deleted link stays deleted;
* pipeline: a row's columns tell one story; a `PENDING` link always has something
  that will settle it, a `READY` link the tags that came with its summary; every run ends;
* crawler: a crawl ends;
* reads: a walk through the pages repeats nothing and misses nothing that was there all
  the while; the counts of the tag filter agree with the lists;
* auth: one account per address, and no answer that turns out wrong; demo script: however
  often it is run, one set of links;
* client: token and user belong together; polling goes on while a card is `PENDING`; an
  older list never stays over a newer save; no form stays disabled.

`PROJECT.json` lists the hazards behind these at their lines.

## Modules

| Module | What it is |
| --- | --- |
| `LinkTables` | the tables, how a statement fails, the cascade of a link delete |
| `TagsUtil` (extends `LinkTables`) | `upsertTag` and `replaceLinkTags` |
| `EnrichmentService` (extends `TagsUtil`) | `enrich` and `markFailed` |
| `LinksService` (extends `EnrichmentService`) | the four changing requests, the launch of a run, restarts; `Spec` and `FairSpec` of the whole |
| `LinkLifecycle` | abstract: what becomes of a link, without requests, statements or tags |
| `LinksServiceProps` (extends `LinksService`) | properties, and the refinement mapping to `LinkLifecycle` |
| `LinksOverlap` (extends `LinksServiceProps`) | the service with a memory of its overlaps, and the properties that need it |
| `LinkQueries` (extends `LinkTables`) | `findAll` page by page, and `listTags`, while rows change |
| `AuthService` (extends `LinkTables`) | register, login, me |
| `SeedDemo` (extends `AuthService`, `TagsUtil`) | the demo script beside the auth API; properties of both |
| `SessionStore` | the client's store, interceptors, forms and logins; properties of the session |
| `LinksView` (extends `SessionStore`, instantiates `LinkLifecycle`) | the client's list, polling, quick-add and retry, against the abstract server |
| `MCLinks`, `MCOverlap`, `MCLinkQueries`, `MCSeedDemo`, `MCClient` | instances for TLC |
| `LinksServiceProofs` | theorems: types and ownership |
| `LinksStatusProofs`, `LinksPendingProofs` (extend `LinksServiceProofs`) | theorems: coherent columns and lasting deletes; `PENDING` links have a run, or lost one to a fault; why `enrich` throws |
| `LinksRefinementProofs` (extends `LinksPendingProofs`) | theorem: the steps of the service are steps of `LinkLifecycle` |
| `LinksRaceProofs` (extends `LinksPendingProofs`, `LinksStatusProofs`, `LinksOverlap`) | theorems: whose requests change a link; why a replacement fails or is partial, a 500 is answered, an outcome overwritten; one run behind a `READY` row, and its tags |
| `LinkQueriesProofs`, `SeedDemoProofs`, `LinksViewProofs` | theorems about pages and counts; accounts and script; the client |

The modules meet in two places: everything on the server stands on `LinkTables` and
`TagsUtil`, and the client stands on `LinkLifecycle`, which `LinksService` is shown to
implement. What the client is checked against is thus what the server does.

### How state and actions correspond to the code

* **A step is what happens between two awaits**, up to and including the effect of
  the statement that was awaited. Postgres runs each statement atomically, the
  process is single-threaded, so this is the finest interleaving there is.
* `links[l]` is a row of `Link`; `"unborn"` and `"deleted"` stand for no row. A text
  column holds the request that wrote it, which tells apart whose title and whose
  summary a row shows. `tags` and `tagsOnLinks` are the sets of keys of their tables.
* `req[r]` is a handler: `pc` is the statement it is at, `code` the HTTP status it
  answered. `job[r]` is the pipeline run request `r` launched, `repl[r]` the one
  call of `replaceLinkTags` that the request or its run makes (a PATCH launches no
  run, so there is never a second). `repl[r].up[n]` is the upsert of tag `n`: after one
  rejects, `Promise.all` rejects at once while the others go on, and so they do here.
* `tag.upsert` with an empty `update` is a SELECT and, when the row is missing, an
  INSERT; the INSERT may meet P2002, and the catch looks the row up. `createMany` is
  one INSERT that fails as a whole on a duplicate key or a missing link.
* `Succeeds`, `AnswerLost` and `Throws` are the outcomes of a statement. Apart from the
  failures the data forces (P2002, P2003, P2025), a statement throws when the connection is
  lost, at most `MaxDbErrors` times: before it was carried out (`Throws`, no effect) or after, when
  only its answer is lost (`AnswerLost`, the effect of a success and the control flow of a
  failure). A read has no effect to lose. A lost statement is carried out at once or
  never; one that Postgres carries out later, when its caller has gone on, is not modelled.
* `Restart` drops every handler, run and call and keeps the tables. `main.ts` does
  nothing at start-up about links left `PENDING`, so neither does the model.
* `Normalized` is trim, lower-case, drop the empty and duplicate names; `Fold` gives
  for each spelling what trim and lower-case make of it.
* `runsMet` and `callsMet` of `LinksOverlap` are history variables that the code does not have:
  the pairs of requests whose runs, or whose calls of `replaceLinkTags`, were under way on one
  link at the same time. A run counts from the moment its request is to launch it, a call as
  long as its caller waits. `OverlapSpec` takes the steps of `Next` and takes notes, no more
  (`OverlapIsService`), so that a property can name an overlap as the only cause of a mishap.
* A crawl is two awaits: `Crawl` is the fetch that the timer may abort, `ReadBody` the body
  that is read after the timer was cleared, with `extract`.

Reads (`LinkQueries`):

* A link **is** its rank in the order `(createdAt, id)`. A search text is the set of
  provenances whose text contains it, so any text column matches or not.
* `AskPage` is `findMany` with `take: limit + 1`, the cut to `limit`, and the cursor. The
  cursor's semantics are Prisma's: rows from the cursor's row on, by the sort columns of that
  row wherever it is now, none if there is no such row, and `skip: 1` drops the first
  of them, the cursor's or not.
* `RowsChange` is every change the other modules can make to what a query reads, coarser
  than there: any link saved, deleted, written, untagged or tagged, at any moment.
* `steady` and `slipped` are history variables, for the properties only.

Accounts (`AuthService`, `SeedDemo`):

* A call of the API is one of `Calls`. `register` is two steps, its findUnique and its
  INSERT with the hash between them; `login` and `me` have one statement each and are one
  step, as accounts never change. A hash is the password, a token the login that got it.
* A run of the script is one of `Reqs`; `made` is how far it has come in `DEMO_LINKS`, whose
  tag lists are the constant `DemoTags`. `Kill` ends its process between two statements.

Client (`SessionStore`, `LinksView`):

* `store` is the persisted token and user; the token of a login is the login itself, and
  `UserOf` says whose it is. A login goes through `register` (RegisterPage only), `login`, `me`;
  `bearer` is the token that `GET /auth/me` really carries, which the request interceptor
  decides. Any answer may be an error, and a 401 empties the store (`Unauthorized`).
* `form` is the submit a form on the page waits for. A quick-add waits longer than its POST:
  `onSuccess` returns the promise of `invalidateQueries`, so `isPending` lasts until the list
  that was asked for again has come or has failed for good (`AwaitsList`, `ListSettled`). When
  another save has that request given up for a new one, TanStack Query passes the wait
  on at a first cancellation only, so `SaveAnswered` may keep the form or let it go. Where the
  session makes the dashboard or the forms appear, the other page goes, and with it `form`,
  while its requests go on.
* `fetch` is the one request for the list, `list` the cached list, `list.of` whose links it
  has. `Join`, `Invalidate`, `FetchFails`, `Refocus` and `Collect` are what TanStack Query does
  with the defaults that `main.tsx` leaves: a mount joins a request under way; an
  invalidation gives it up when there is data and joins it when there is none; a failed
  request is retried three times and leaves the data; a focus fetches anew; data no page uses is
  dropped after five minutes. These are external to the repository.
* `save[m]` is a quick-add or a click on retry. `done` and `list.seen` are history: which
  saves the server has carried out, and which of them a list has seen.

Left out because no property tells them apart: url, ogImage (always written with the
title), timestamps, the body of an answer. A request that fails validation (400) or
authentication (401) changes nothing and is left out too.

## Runs

Deadlock is checked in `pages` only: requests, logins and saves run out in the others.

| Run | Module | Bounds | Shows |
| --- | --- | --- | --- |
| `race` | `MCOverlap` | 3 requests, 2 users, 2 links, 2 tags | types; tags and edits stay with the owner; 500s, failed or partial replacements and overwritten outcomes have an overlap behind them |
| `faults` | `MCLinks` | 3 requests, 1 link, 1 lost statement or answer, 1 restart | coherent rows, deletes that last; an orphaned `PENDING`, a `READY` without its tags or a run that throws has its fault or delete; without a fault, no orphan and no mixed `READY` row |
| `live` | `MCLinks` | 3 requests, 1 link, fairness | `PENDING` settles, everything ends, `LinkLifecycle` is implemented |
| `pages` | `MCLinkQueries` | 3 links, 2 users, 1 tag, pages of 1 and 2 | pages descend, walks are complete, counts agree |
| `accounts` | `MCSeedDemo` | 3 calls, 2 runs of the script, 2 accounts, 2 demo links, 1 lost statement or answer, 1 kill | one account per address, answers stand, one set of demo links |
| `client` | `MCClient` | 2 logins of 2 users, 1 quick-add, 1 retry, 1 link, 1 fault, fairness | pending cards settle, answered saves are shown, forms wait for what is under way (submits, and the refetch of a quick-add) and are released, a mixed session has a login that is over behind it |
| `restart` | `MCLinks` | 2 requests, 1 restart, fairness | counterexample: `PENDING` for good |
| `status_race` | `MCLinks` | 3 requests | counterexample: `READY` and `FAILED` turn into each other |
| `tags_race` | `MCLinks` | 3 requests | counterexample: union of two tag lists |
| `slow_site` | `MCLinks` | 2 requests, fairness but for the body of a page | counterexample: a run that never ends |
| `client_session` | `MCClient` | 2 logins of 2 users | counterexample: one user's token, the other's name |
| `register_race` | `MCSeedDemo` | 2 registrations of 1 address | counterexample: 500 where 409 is documented |

**Why the bounds are enough.** A request is a handler, plus a run, plus a tag
replacement, so three of them are up to nine concurrent activities: a create and its
run, overlapped by two of PATCH, DELETE and reprocess with their own runs, which is
every pair of conflicting writers on a link that exists. Two tags, one spelled in two
ways and one blank name, give a replacement with no, one or two upserts and two
replacements that share one, both or none. Two users and two links are needed only
where ownership is at stake (`race`). One fault is enough to reach every error path;
what two faults do is two such paths one after the other.

Three links and pages of one and two give walks of up to three pages, last pages that are
full and that are not, a cursor that is deleted and one that only stops matching, and a link
saved above or below the cursor. Three calls and two runs of the script give two
registrations that race and a third that comes after or logs in, and every overlap of two runs of
two links each; a demo link that shares a tag with another makes the second upsert find
the first one's row. Two logins of two users are the least that can mix up sessions; a quick-add
and a retry of its link are two runs that overlap; a fault is a request without answer, a
token that expires, or a reload of the tab. One filter is one query; a second adds a second
list that knows nothing of the first.

**Fairness.** `FairSpec` is weakly fair in what the event loop and Postgres get to:
the next step of a handler, of a run, and of a tag replacement under way. No fairness
is assumed of arrivals, faults or restarts. For the crawl it assumes that the site
answers or the timer fires and that the body ends, and for the LLM that the SDK's own
timeout ends the call. The second of these the code does not see to, as the body is read
outside the timer: `SlowSiteSpec` drops it, and `slow_site` shows what follows.
A disjunction of a run's actions needs no more than weak fairness, as a run has one current
statement. `pages` and `accounts` check safety only.

`LinksView!Spec` is weakly fair in the answers of the server, to lists, saves and logins, in
a run that settles a link, and in `Poll`. The third is the fairness of `LinkLifecycle`, which
`live` shows the server to have. The polling timer runs as long as the window is in front
(TanStack Query does not poll in the background), so `ShownPendingSettles` is about a user who
looks. Nobody has to submit, click, log out or look back, and nothing has to fail.

### What the counterexamples say

1. `restart`: README says a saved link moves on to `READY` or `FAILED`. After a restart
   nothing takes up the lost runs, and the client offers a retry for `FAILED` only.
2. `status_race`: README and comments draw `PENDING → READY/FAILED`. Updates name the
   link by id only, so two runs overwrite each other, and a run whose tags fail
   turns its own `READY` into `FAILED`. (The code's comment on the missing transaction
   accepts the gap before the tags, not that transition.)
3. `tags_race`: `tags.util.ts:40` promises a full replacement. Two interleaved ones
   leave the union, or fail one of them.
4. `slow_site`: `crawler.service.ts:38-39` sets the timer so that a run cannot go on for
   ever. It is cleared when the headers are there, before the body is read (line 66).
   (Node's fetch gives up on silence, not on a body that trickles.)
5. `client_session`: `api/auth.ts:22-23` stores a token with the user fetched by it. A login
   whose form was left for the other one goes on; when it fills the store while the second
   login is under way, the interceptor sends the second `GET /auth/me` with the first
   token, and the second token is stored with the first user.
6. `register_race`: `auth.service.ts:24` and `auth.controller.ts:25` document 409 for a taken
   address. Of two registrations that both found nobody, the second meets the unique
   key in its INSERT, and nothing turns that P2002 into anything but a 500.

To each of these there is a property of what the code does do, checked by a passing run and
proved: a link is orphaned in `PENDING` only by a fault that hit its own request
or run (`PendingExplained`); an outcome overwrites an outcome only where two runs of the link
overlapped, or a run its own `READY` (`OverwriteMeansOverlap`); a replacement is partial only
where another overlapped (`AloneReplaceIsWhole`); the name beside another user's token is
that of a login of the same tab that is over (`SessionExplained`); however registrations race,
there is one account and one 201 (`AddressTakenOnce`), and 409 is told for an address that has an
account only (`RefusalMeansTaken`). To `slow_site`, `EverythingEnds` is the counterpart: every run
ends if every body does.

One more sentence of the source is not quite so: `enrichment.service.ts:17` says that `enrich` never
throws. It does when its link is deleted during the run, since the update in the catch block, or
the one in `markFailed`, then finds no row, and only the controller's `.catch` keeps that from being
an unhandled rejection. `RejectedMeansGone`, checked and proved, says that this and a lost
statement are the only causes.

Not called a divergence, but worth knowing, and in the models: a link that was saved or
reset is `PENDING` without a run when only the answer of that statement is lost, and its
user is told 500 (`PendingExplained`); a PATCH whose title update fails leaves the tags changed;
a run of the demo script that is killed leaves an account that makes every later run skip
(`SeedWhole` excludes it); after a logout and another login the list of the previous user is on
the page until the next answer; a 401 that comes late ends the session that has begun since.

## Proofs

The theorems hold for any number of users, links, requests, tags, lost statements
and restarts, from the assumptions named in the modules: of the link service, that `NULL` is
not a user, link, request, reason or status code, that `Fold` maps spellings to tag names or to
blank, and that LLM and PATCH lists are made of spellings; of the others, the likes of it
(`QueriesAssumption`, `AuthAssumption`, `SeedAssumption`, `SessionAssumption`,
`ViewAssumption`). All are safety. Those of the link service rest on `TypeInv`, the others on
an invariant of their own: `WalkInvariant`, `RunsInvariant`, `ClientInvariant`.

* `TypeInvariant`, `TypeCorrect`. `TypeOK` allows `NULL` in arguments and is not
  inductive: a statement on link `NULL` would break it. `TypeInv` adds that a handler,
  a run past its `find`, and a replacement under way have their arguments set, and that
  a live row has an owner.
* `OwnershipKept`, `TagRowsAlwaysSound`, `OwnerAlwaysValid`. Neither property is
  inductive alone: to attach a tag soundly, the replacement must still have the right
  owner, which it has from the run or the PATCH that started it, which has it from its
  own check. `OwnerInv` chains these by `Holds(l, u)`: link `l` has existed, and if it
  still does, `u` owns it. `Holds` is stable (`HoldsStays`), because a row keeps its
  owner and an id is never used again (`RowFate`). Each step then either keeps an actor
  or creates one with `Holds` established in that very step (`ReqOrigin`, `JobOrigin`,
  `ReplSteps`).
* `ColumnsCoherent`, `StatusAlwaysCoherent`. `StatusCoherent` needs to know what a run
  in `markFailed` is about to write. `FailureGrounded` says it: a reason, and for
  `LLM_ERROR` a link that, if it still exists, has a title. The run that lost the LLM wrote that
  title one step before, no statement ever clears a title, and `READY`, `PENDING` and
  `FAILED` rows are each written whole (`WrittenCoherent`, `PendingCoherent`).
* `DeletedAlwaysForGood`, `DeletesLast`. A request is answered 204 only by the step that
  takes a live row away (`DeleteOrigin`), and a row that is gone stays gone (`RowFate`),
  so no second request can take that step.
* `PendingNeverOrphaned`, `PendingAlwaysHasRun`. The property is almost inductive; `LaunchesOnce`
  adds that a request yet to be answered has launched nothing, so a launch overwrites no
  run. A link becomes `PENDING` by a step that owes it a run (`NewlyPending`); the
  launch turns that debt into a run (`LaunchOwed`); the run keeps it until it writes a
  status or the link is gone (`RunOwed`). A lost statement or a restart voids the
  hypothesis for good (`FaultsStay`).
* `PendingAlwaysTold`, `PendingAlwaysExplained`: the same with any number of faults. A debt
  ends in a written status, in a deleted link, or in a loss (`OwedOrLost`): a request
  that is dropped between its reset and its launch, a run that is killed or rejected. A step that
  makes a link `PENDING` either owes it a run or is itself a loss, as the caller of an INSERT or
  reset whose answer is lost launches nothing. Losses stay (`LostStays`); for dropped requests, `DropsTold` says that only creates and reprocesses get to a
  launch, and that a dropped request is over.
* `RejectsAlwaysGrounded`, `RejectsAlwaysGone`. A run is rejected by the very step that finds its
  link gone, or by a lost statement (`RejectOrigin`); its link is set, which `RejectsGrounded`
  keeps, and what is deleted stays so.
* `OwnersOnly`. `ActorsHold` says that a run or a tag replacement holds its link for the *user of
  its request*, not only for the owner it has read: it is launched by a request that holds the
  link (`ReqHolds`), and the request keeps its user (`ArgsStay`). Every step that changes a
  row or the tags of a link is a step of a request, run or call about this link
  (`ChangeOrigin`).
* `OverlapIsService`, `AlwaysRemembered`. What is proved of `Spec` holds of `OverlapSpec`, and
  whatever overlaps is in the memory, which only grows.
* `CallsInOrder`, `ReplaceFailures`, `ServerErrorsExplained`. A replacement is started once
  (`CallsOnce`), and when it deletes rows its upserts are done (`UpsertsFirst`), so one that
  has succeeded is over. `RefindFinds`: a tag that made an INSERT fail is never removed, so
  the catch finds it. A call that meets tags on its link after its own delete has met
  the call that wrote them (`TagsExplained`); with a deleted link that is all that can
  fail it, and from there the cause is carried to the 500 that it makes (`PatchShape`,
  `RejectsExplained`, `ErrorsExplained`).
* `AloneReplaceAlwaysWhole`. A call that ends well has just deleted all rows and had no names,
  or has created its rows on a link that, by `TagsExplained`, had none or was shared.
* `OutcomesAlwaysExplained`, `OverwritesMeanOverlap`. A request comes to its
  launch by the step that sets the link to `PENDING` (`LaunchMakesPending`), so an outcome that
  its run finds on the link was written since, by itself or by a run at work at that
  moment, which the memory has (`OutcomeOrigin`, `WorkOrigin`). Were the reset left out of
  reprocess, this would be wrong, and the run `race` shows it on that variant.
* `ReadyAlwaysFromOneRun`. A row is `READY` because it was, or because a run wrote title and
  summary, a PATCH the title, or a failing run its title (`ReadyOrigin`); the last goes
  on to mark the link failed (`FailingStays`), as nothing launches over a run.
* `ReadyAlwaysGetsTags`. The summary of a `READY` row names the run that wrote it. From that
  update on, as long as the row stays `READY`, the run awaits its tags, has them, or is in the
  catch block on its way to take `READY` back (`TagsToldStep`); what a run that has resolved
  achieved is forgotten by a restart only (`EndedCallStays`).
* `ServiceRefinesLifecycle`, under `MaxDbErrors = 0` and `MaxRestarts = 0`, as in the run
  `live`: the lifecycle promises that a run ends by settling its link, which a lost
  statement breaks. The abstract state is a status and a set of runs per link; each step
  is described by what it does to the two (`StatusMoves`, `RunAdded`, `RunGone`), and
  `Abstracts` turns such a description into an action of `LinkLifecycle`. `ArrivalMaps`,
  `HandlerMaps` and `JobMaps` then go through the steps. A run whose tags are
  in place retires, possibly from a link that is `PENDING` again: `PendingInv` gives the
  other run that must then remain. `OwnerInv` gives that an unborn id has no run.

* `WalkInvariant`, `QueriesTypeCorrect`, `PagesAlwaysDescend`, `WalkAlwaysComplete`. The
  invariant adds where a walk stands: everything handed out is at or above the cursor, and a
  steady link was handed out or is below it. What a page does follows from lemmas about
  `Top`, the first `n` rows: it is upward closed (`TopUpward`), `Top(R, 1)` is the greatest
  row (`TopOne`), and asking for one row too many tells whether there are more
  (`TopWhole`). They rest on finite sets of numbers having a greatest and a least member,
  which is proved by well-founded induction on an instance (`Newest`, `Oldest`).
* `TagCountsAlwaysListed`. Join rows and matching links are equally many because
  `l |-> <<l, t>>` is a bijection between them, provided that a tag is attached to links of its
  owner only (`TagsSound`).
* `AccountsInvariant`, `AddressesTakenOnce`, `AnswersAlwaysStand`, `RefusalsMeanTaken`. The
  unique key gives the first half of `AddressTakenOnce`. The rest needs to know where
  accounts come from: `AccountsTold` says that each account with an address that can be
  registered was told to a 201, or that the answer of its INSERT was lost and its maker told
  500; so a 409 finds the call that made the account.
* `SeededOnce`. A run is given its account by the one INSERT of `DemoEmail` there can be,
  so two runs with an account are one; its links are new ids, so no two of them are equal.
* `RunsInvariant`, `SeedTypes`, `SeededWhole`. `RunsInv` adds tables and tag replacements to the
  two invariants above. `WholeInv` goes on from there: the links behind a run are complete
  (`MadeOK`); the replacement it awaits is for its newest link, for the names wanted, and
  finds no rows after its delete, so only a lost statement fails it (`CallFits`); a run that was
  skipped or rejected without one found the address taken (`EndOK`), hence a run that has the
  account, or a statement was lost (`AccountMade`); without that, the run that has it can only
  have ended well. That the tag lists overlap does not matter:
  one run at a time asks for tags of the demo account (`OneRunSteps`).
* `ClientInvariant`, `ClientTypeCorrect`, `AnsweredAlwaysShown`. For a list that comes
  later to have seen an answered save, the request under way must be one that the server
  has not answered yet, or has answered after the save; the invariant says so of `fetch`, and
  that a save a page was told of is done.
* `SessionAlwaysExplained`. `TokensEarned`: a login that is asking for its user does so with its own
  token or with the token of a login that is over (`LoginFate`), since the store holds no
  other; logins that are over stay so (`OverStays`), so the witness, once there, remains.
* `FormsAlwaysWait`. Each step that ends a submit or changes the session sets `form` as well; what it
  leaves there is the same form as before, on the same page, of another submit (`FormSet`). A
  quick-add that waits for the list keeps a request to wait for: one that the page has sent goes
  on, or is given up for another, until `ListSettled` or until the page is left (`FetchStays`).
Only model-checked: liveness under fairness (`PendingSettles`, `EverythingEnds`, `FormReleased`,
`ShownPendingSettles`, the fairness of `LinkLifecycle`), as the prover handles neither ENABLED
nor such arguments; and the counterexamples. Every other property of a passing run is proved.

## Not modelled

* The tag filter, the search box and its debounce, and the tags query: a filter chooses
  another key of the same cache, and the reads behind it are `LinkQueries`. That the tags
  query is never invalidated is listed as a hazard.
* `useDeleteLink`, which no component uses, and pages after the first, which the client
  never asks for.
* More than one tab. The store is shared between tabs by reload only.
* `findOne`, an ownership check without a statement after it.
* `CRAWL_TIMEOUT_MS` and other start-up constants; bcrypt, JWT and cheerio.
* Presentation, validation, wiring, Swagger and the health check keep no state.
