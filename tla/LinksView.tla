----------------------------- MODULE LinksView -----------------------------
(***************************************************************************)
(* LinksPage and frontend/src/api/links.ts: the list of links a logged-in  *)
(* client shows, its polling, and the quick-add and retry that change it.  *)
(* TanStack Query keeps the list under a key that knows the filter only    *)
(* (one filter here), for as long as the tab lives.  The server is the     *)
(* abstract lifecycle of a link, which LinksService implements.            *)
(***************************************************************************)
EXTENDS SessionStore, Naturals

CONSTANTS
    LinkIds,
    Owner,        \* of each link, who may save it
    QuickAdds,    \* the saves that are quick-adds; the others are retries
    MaxFaults     \* bound on requests without an answer, tokens that run out
                  \* and reloads of the tab, together

ASSUME ViewAssumption ==
    /\ Owner \in [LinkIds -> Users]
    /\ QuickAdds \subseteq Saves
    /\ MaxFaults \in Nat

VARIABLES
    status,       \* server: of each link
    runs,         \* server: of each link, the runs that may still settle it
    save,         \* the submits of quick-add and clicks on retry
    fetch,        \* the request for the list that is under way
    list,         \* the cached list (data of useLinks)
    failed,       \* the last request for it failed (isError)
    faults

server == <<status, runs>>
view == <<save, fetch, list, failed, faults>>
vars == <<session, server, view>>

Server == INSTANCE LinkLifecycle WITH Runs <- Saves

\* of is whose links the list has; seen the saves the server had carried out
\* when it was read.  The list nobody has loaded yet is NoList.
List == [of   : Users \cup {NULL},
         card : [LinkIds -> {"none", "PENDING", "READY", "FAILED"}],
         seen : SUBSET Saves]

NoList == [of |-> NULL, card |-> [l \in LinkIds |-> "none"], seen |-> {}]

Loaded == list # NoList

Fetch == [pc : {"idle", "sent", "200", "401"}, token : Logins \cup {NULL}, list : List]

IdleFetch == [pc |-> "idle", token |-> NULL, list |-> NoList]

Fetching == fetch # IdleFetch

SendFetch(token) == [IdleFetch EXCEPT !.pc = "sent", !.token = token]

\* "told" is a save that was answered while a list was on the page; "orphan"
\* one whose page is gone before the server has seen it.
Save == [pc    : {"new", "sent", "200", "401", "error", "told", "over", "orphan"},
         link  : LinkIds \cup {NULL},
         token : Logins \cup {NULL},
         done  : BOOLEAN]

TypeOK ==
    /\ SessionTypeOK
    /\ Server!TypeOK
    /\ save \in [Saves -> Save]
    /\ fetch \in Fetch
    /\ list \in List
    /\ failed \in BOOLEAN
    /\ faults \in 0 .. MaxFaults

Init ==
    /\ SessionInit
    /\ Server!Init
    /\ save = [m \in Saves |-> [pc |-> "new", link |-> NULL, token |-> NULL, done |-> FALSE]]
    /\ fetch = IdleFetch
    /\ list = NoList
    /\ failed = FALSE
    /\ faults = 0

Fault == faults < MaxFaults /\ faults' = faults + 1

\* The request has settled: nobody waits for it any more, and a quick-add whose
\* POST was answered waits for nothing else (onSuccess returns the promise of
\* invalidateQueries, and isPending lasts until it resolves).
AwaitsList(x) == x \in Saves /\ save[x].pc \in {"told", "over"}

ListSettled == form' = IF AwaitsList(form) THEN NULL ELSE form

\* A component that uses the list is mounted, or a query that polls is due:
\* a request that is under way is joined, whoever sent it.
Join(token) == fetch' = IF Fetching THEN fetch ELSE SendFetch(token)

-----------------------------------------------------------------------------
(* The list                                                                *)

\* The dashboard, when the session makes it appear, asks for the list.
Mount ==
    /\ IF ~Home /\ AtHome(store'.token) THEN Join(store'.token) ELSE UNCHANGED fetch
    /\ UNCHANGED <<server, save, list, failed, faults>>

Session == SessionStep /\ Mount

TokenExpires ==
    /\ Fault
    /\ Expire
    /\ UNCHANGED <<server, save, fetch, list, failed>>

\* GET /links at the server.
ServeList ==
    /\ fetch.pc = "sent"
    /\ \/ LET u == UserOf[fetch.token]
          IN  fetch' = [fetch EXCEPT !.pc = "200", !.list =
                  [of   |-> u,
                   card |-> [l \in LinkIds |-> IF Owner[l] = u /\ Server!Live(l)
                                                  THEN status[l] ELSE "none"],
                   seen |-> {m \in Saves : save[m].done}]]
       \/ fetch.token \in expired /\ fetch' = [fetch EXCEPT !.pc = "401"]
    /\ UNCHANGED <<session, server, save, list, failed, faults>>

\* The answer: data is replaced.
Deliver ==
    /\ fetch.pc = "200"
    /\ list' = fetch.list
    /\ fetch' = IdleFetch
    /\ failed' = FALSE
    /\ ListSettled
    /\ UNCHANGED <<store, login, expired, server, save, faults>>

\* A 401 empties the store whatever token is in it by now; the retry of the
\* query ends with its page.
DeliverUnauthorized ==
    /\ fetch.pc = "401"
    /\ Unauthorized(NULL)
    /\ fetch' = IdleFetch
    /\ failed' = TRUE
    /\ UNCHANGED <<login, expired, server, save, list, faults>>

\* No answer, or a 500: on the dashboard the query tries again, with the token
\* of the day, and gives up after three times; data stays.
FetchFails ==
    /\ Fetching
    /\ Fault
    /\ \/ Home /\ fetch' = SendFetch(store.token) /\ UNCHANGED <<form, failed>>
       \/ fetch' = IdleFetch /\ failed' = TRUE /\ ListSettled
    /\ UNCHANGED <<store, login, expired, server, save, list>>

\* Variant for ShownPendingSettles: polling stops at an error.
PollUntilError ==
    /\ Home /\ ~Fetching /\ ~failed
    /\ \E l \in LinkIds : list.card[l] = "PENDING"
    /\ fetch' = SendFetch(store.token)
    /\ UNCHANGED <<session, server, save, list, failed, faults>>

\* refetchInterval: every 2.5 s while a card is PENDING.
Poll ==
    /\ Home /\ ~Fetching
    /\ \E l \in LinkIds : list.card[l] = "PENDING"
    /\ fetch' = SendFetch(store.token)
    /\ UNCHANGED <<session, server, save, list, failed, faults>>

\* The window gets the focus, or the network comes back.
Refocus ==
    /\ Home /\ ~Fetching
    /\ fetch' = SendFetch(store.token)
    /\ UNCHANGED <<session, server, save, list, failed, faults>>

\* Five minutes after its page was left, the cached list is dropped.
Collect ==
    /\ ~Home /\ ~Fetching
    /\ list' = NoList
    /\ failed' = FALSE
    /\ UNCHANGED <<session, server, save, fetch, faults>>

-----------------------------------------------------------------------------
(* Quick-add and retry                                                     *)

Send(m, l) ==
    /\ Home
    /\ save[m].pc = "new"
    /\ save' = [save EXCEPT ![m] =
                   [pc |-> "sent", link |-> l, token |-> store.token, done |-> FALSE]]
    /\ UNCHANGED <<store, login, expired, server, fetch, list, failed, faults>>

\* handleSubmit of QuickAddInput, disabled while the last one is pending.
QuickAdd(m) ==
    /\ m \in QuickAdds
    /\ form = NULL
    /\ form' = m
    /\ Send(m, NULL)

\* The button of a FAILED card, which is never disabled.
Retry(m, l) ==
    /\ m \notin QuickAdds
    /\ list.card[l] = "FAILED"
    /\ Send(m, l)
    /\ UNCHANGED form

\* The answer goes to the page that asked, if it is still there.
Answered(m, code, done) ==
    save' = [save EXCEPT ![m].pc = IF @ = "orphan" THEN "over" ELSE code,
                ![m].done = done, ![m].link = NULL, ![m].token = NULL]

\* A quick-add takes an id of its own; a retry has the owner of its link.
Acceptable(m, l) ==
    /\ Owner[l] = UserOf[save[m].token]
    /\ IF save[m].link = NULL THEN status[l] = "unborn" ELSE save[m].link = l

\* POST /links or POST /links/:id/reprocess at the server.
ServeSave(m) ==
    /\ save[m].pc \in {"sent", "orphan"}
    /\ \/ /\ \E l \in LinkIds :
                 /\ Acceptable(m, l)
                 /\ IF save[m].link = NULL THEN Server!Save(l, m) ELSE Server!Reprocess(l, m)
          /\ Answered(m, "200", TRUE)
          /\ UNCHANGED faults
       \/ /\ save[m].token \in expired
          /\ Answered(m, "401", FALSE)
          /\ UNCHANGED <<server, faults>>
       \/ /\ IF \E l \in LinkIds : Acceptable(m, l) THEN Fault ELSE UNCHANGED faults
          /\ Answered(m, "error", FALSE)
          /\ UNCHANGED server
    /\ UNCHANGED <<session, fetch, list, failed>>

\* Variant for AnsweredIsShown: invalidateQueries with cancelRefetch: false.
InvalidateJoins == Join(store.token)

\* onSuccess: the query on the page is fetched anew; a request under way is
\* given up when there is data, and joined when there is none.
Invalidate == IF Loaded THEN fetch' = SendFetch(store.token) ELSE Join(store.token)

\* The quick-add stays disabled: it waits for the list now.  One that waited
\* already, and whose request is given up, waits for the new one or is let go
\* (TanStack Query passes the wait on at a first cancellation only).
SaveAnswered(m) ==
    /\ save[m].pc \in {"200", "401", "error"}
    /\ \/ /\ save[m].pc = "200"
          /\ save' = [save EXCEPT ![m].pc = IF Home /\ Loaded THEN "told" ELSE "over"]
          /\ IF Home THEN Invalidate ELSE UNCHANGED fetch
          /\ UNCHANGED store
          /\ UNCHANGED form \/ (Loaded /\ Fetching /\ ListSettled)
       \/ /\ save' = [save EXCEPT ![m].pc = "over"]
          /\ IF save[m].pc = "401" THEN Unauthorized(m) ELSE EndSubmit(m)
          /\ UNCHANGED fetch
    /\ UNCHANGED <<login, expired, server, list, failed, faults>>

\* The tab is reloaded: cache and requests are gone, and on the dashboard the
\* list is asked for.
Reload ==
    /\ Fault
    /\ ReloadSession
    /\ save' = [m \in Saves |-> [save[m] EXCEPT !.pc =
                   CASE @ = "sent" -> "orphan"
                     [] @ \in {"200", "401", "error"} -> "over"
                     [] OTHER -> @]]
    /\ fetch' = IF Home THEN SendFetch(store.token) ELSE IdleFetch
    /\ list' = NoList
    /\ failed' = FALSE
    /\ UNCHANGED server

\* A run of the pipeline settles a link or ends.
Enrich(l) ==
    /\ \E m \in Saves : Server!Settle(l, m) \/ Server!Retire(l, m)
    /\ UNCHANGED <<session, view>>

SaveStep(m) == ServeSave(m) \/ SaveAnswered(m)

ListStep == ServeList \/ Deliver \/ DeliverUnauthorized

Next ==
    \/ Session
    \/ TokenExpires
    \/ ListStep \/ FetchFails \/ Poll \/ Refocus \/ Collect \/ Reload
    \/ \E m \in Saves : QuickAdd(m) \/ SaveStep(m) \/ \E l \in LinkIds : Retry(m, l)
    \/ \E l \in LinkIds : Enrich(l)

\* The server answers what it gets, a run that can settle a link does, and the
\* client polls as long as its window is in front.  Nobody has to submit,
\* click or log out, and no token has to expire.
Fairness ==
    /\ WF_vars(ListStep)
    /\ WF_vars(Poll)
    /\ WF_vars(\E m \in Saves : SaveStep(m))
    /\ WF_vars((\E f \in Logins : LoginStep(f)) /\ Mount)
    /\ \A l \in LinkIds :
          WF_vars((\E m \in Saves : Server!Settle(l, m)) /\ UNCHANGED <<session, view>>)

Spec == Init /\ [][Next]_vars /\ Fairness

-----------------------------------------------------------------------------
(* Properties                                                              *)

\* A card that is PENDING on the page does not stay so: polling goes on until
\* the list that shows it settled has come, through failed requests, other
\* logins in the same tab and reprocesses, unless the dashboard is left.
ShownPendingSettles ==
    \A l \in LinkIds :
        Home /\ list.card[l] = "PENDING" ~> ~Home \/ list.card[l] # "PENDING"

\* A form that is disabled waits for a submit whose request is under way, or
\* whose answer is about to be handled; the quick-add also for the list that
\* is asked for after its answer (api/links.ts:47).  None is left waiting for
\* a request that is over, whichever page it was sent from, whoever logged in
\* or out since, and whichever other save had the list asked for again.
FormWaits ==
    /\ form \in Logins => ~Home /\ login[form].pc \in {"register", "login", "me"}
    /\ form \in Saves =>
          /\ Home
          /\ \/ save[form].pc \in {"sent", "200", "401", "error"}
             \/ AwaitsList(form) /\ Fetching

\* Once a save was answered while a list was on the page, a list that is shown
\* with no request under way and no error message was read after that save:
\* the answer of a request sent before never comes to stay.
AnsweredIsShown ==
    Home /\ Loaded /\ ~Fetching /\ ~failed =>
        {m \in Saves : save[m].pc = "told"} \subseteq list.seen

=============================================================================
