-------------------------- MODULE LinksViewProofs --------------------------
(***************************************************************************)
(* Proofs about the web client (SessionStore, LinksView): its types, that  *)
(* a list that is shown for good was read after every save the page was    *)
(* told of, whose user a session can show, and that no form waits for what *)
(* is over.                                                                *)
(***************************************************************************)
EXTENDS LinksView, TLAPS

-----------------------------------------------------------------------------
(* The session                                                             *)

\* A request for the user of a token has a token.
SessionInv ==
    /\ SessionTypeOK
    /\ \A f \in Logins : login[f].pc = "me" => login[f].bearer \in Logins

\* On the dashboard there is a token, and it is not NULL.
LEMMA HomeHasToken ==
    ASSUME SessionInv
    PROVE  /\ Home <=> store.token \in Logins
           /\ ~Home => store = LoggedOut
  BY SessionAssumption DEF SessionInv, SessionTypeOK, Home, AtHome, LoggedOut

\* A login moves on.
LEMMA LoginMoves ==
    ASSUME SessionInv, NEW f \in Logins, NEW pc \in {"register", "login", "me", "over"},
           NEW b \in Logins \cup {NULL}, pc = "me" => b \in Logins,
           login' = [login EXCEPT ![f].pc = pc, ![f].bearer = b]
    PROVE  /\ login' \in [Logins -> Login]
           /\ \A g \in Logins : login'[g].pc = "me" => login'[g].bearer \in Logins
<1>1. login \in [Logins -> Login]
  BY DEF SessionInv, SessionTypeOK
<1>2. [login[f] EXCEPT !.pc = pc, !.bearer = b] \in Login
  BY <1>1 DEF Login
<1>3. login' = [login EXCEPT ![f] = [login[f] EXCEPT !.pc = pc, !.bearer = b]]
  OBVIOUS
<1>4. /\ login' \in [Logins -> Login]
      /\ \A g \in Logins \ {f} : login'[g] = login[g]
      /\ login'[f].pc = pc /\ login'[f].bearer = b
  BY <1>1, <1>2, <1>3 DEF Login
<1>5. QED
  BY <1>4 DEF SessionInv

\* The store is emptied, filled, or left, and the form with it.
LEMMA StoreSet ==
    ASSUME SessionInv, NEW x, NEW new \in [token : Logins, user : Users] \cup {LoggedOut},
           SetStore(x, new)
    PROVE  /\ store' \in [token : Logins, user : Users] \cup {LoggedOut}
           /\ form' \in Logins \cup Saves \cup {NULL}
  BY DEF SessionInv, SessionTypeOK, SetStore, FormAfter

\* A 401 and the end of a submit leave the store well-formed.
LEMMA StoreKept ==
    ASSUME SessionInv, NEW x, Unauthorized(x) \/ EndSubmit(x)
    PROVE  /\ store' \in [token : Logins, user : Users] \cup {LoggedOut}
           /\ form' \in Logins \cup Saves \cup {NULL}
<1>1. store \in [token : Logins, user : Users] \cup {LoggedOut}
  BY DEF SessionInv, SessionTypeOK
<1>2. QED
  BY <1>1, StoreSet DEF Unauthorized, EndSubmit

\* The steps of the session keep its invariant.
LEMMA SessionStepKeeps == SessionInv /\ SessionStep => SessionInv'
<1> SUFFICES ASSUME SessionInv, SessionStep PROVE SessionInv'
  OBVIOUS
<1>1. SessionTypeOK
  BY DEF SessionInv
<1>2. ASSUME NEW f \in Logins, Submit(f) PROVE SessionInv'
  <2>1. \E pc \in {"register", "login"} :
            login' = [login EXCEPT ![f].pc = pc, ![f].bearer = NULL]
    BY <1>2 DEF Submit, LoginGoesTo
  <2>2. QED
    BY <1>1, <1>2, <2>1, LoginMoves DEF Submit, SessionInv, SessionTypeOK
<1>3. ASSUME NEW f \in Logins, RegisterAnswered(f) PROVE SessionInv'
  <2>1. \E pc \in {"login", "over"} :
            login' = [login EXCEPT ![f].pc = pc, ![f].bearer = NULL]
    BY <1>3 DEF RegisterAnswered, LoginGoesTo
  <2>2. UNCHANGED <<store, form>> \/ EndSubmit(f)
    BY <1>3 DEF RegisterAnswered
  <2>3. QED
    BY <1>1, <1>3, <2>1, <2>2, LoginMoves, StoreKept
       DEF RegisterAnswered, SessionInv, SessionTypeOK
<1>4. ASSUME NEW f \in Logins, LoginAnswered(f) PROVE SessionInv'
  <2>1. \E pc \in {"me", "over"}, b \in Logins \cup {NULL} :
            /\ pc = "me" => b \in Logins
            /\ login' = [login EXCEPT ![f].pc = pc, ![f].bearer = b]
    BY <1>4, HomeHasToken DEF LoginAnswered, LoginGoesTo
  <2>2. UNCHANGED <<store, form>> \/ Unauthorized(f) \/ EndSubmit(f)
    BY <1>4 DEF LoginAnswered
  <2>3. /\ login' \in [Logins -> Login]
        /\ \A g \in Logins :
              login'[g].pc = "me" => login'[g].bearer \in Logins
    <3>1. PICK pc \in {"me", "over"}, b \in Logins \cup {NULL} :
              /\ pc = "me" => b \in Logins
              /\ login' = [login EXCEPT ![f].pc = pc, ![f].bearer = b]
      BY <2>1
    <3>2. QED BY <1>1, <3>1, LoginMoves
  <2>4. /\ store' \in [token : Logins, user : Users] \cup {LoggedOut}
        /\ form' \in Logins \cup Saves \cup {NULL}
    BY <1>1, <2>2, StoreKept DEF SessionTypeOK
  <2>5. expired' \subseteq Logins
    BY <1>1, <1>4 DEF LoginAnswered, SessionTypeOK
  <2>6. QED BY <2>3, <2>4, <2>5 DEF SessionInv, SessionTypeOK
<1>5. ASSUME NEW f \in Logins, MeAnswered(f) PROVE SessionInv'
  <2>1. login' = [login EXCEPT ![f].pc = "over", ![f].bearer = NULL]
    BY <1>5 DEF MeAnswered, LoginGoesTo
  <2>2. UserOf[login[f].bearer] \in Users
    BY <1>5, SessionAssumption DEF MeAnswered, SessionInv
  <2>3. \/ SetStore(f, [token |-> f, user |-> UserOf[login[f].bearer]])
        \/ Unauthorized(f) \/ EndSubmit(f)
    BY <1>5 DEF MeAnswered
  <2>4. [token |-> f, user |-> UserOf[login[f].bearer]] \in [token : Logins, user : Users]
    BY <2>2
  <2>5. /\ store' \in [token : Logins, user : Users] \cup {LoggedOut}
        /\ form' \in Logins \cup Saves \cup {NULL}
    BY <2>3, <2>4, StoreKept, StoreSet
  <2>6. QED
    BY <1>1, <1>5, <2>1, <2>5, LoginMoves DEF MeAnswered, SessionInv, SessionTypeOK
<1>6. CASE SwitchForm
  BY <1>6 DEF SwitchForm, SessionInv, SessionTypeOK
<1>7. CASE Logout
  BY <1>7, StoreKept DEF Logout, SessionInv, SessionTypeOK
<1>8. QED
  BY <1>2, <1>3, <1>4, <1>5, <1>6, <1>7 DEF SessionStep, LoginStep

\* A reload of the page keeps the invariant of the session.
LEMMA ReloadKeeps == SessionInv /\ ReloadSession => SessionInv'
<1> SUFFICES ASSUME SessionInv, ReloadSession PROVE SessionInv'
  OBVIOUS
<1>1. login \in [Logins -> Login]
  BY DEF SessionInv, SessionTypeOK
<1>2. ASSUME NEW f \in Logins
      PROVE  /\ login'[f] \in Login
             /\ login'[f].pc # "me"
  BY <1>1 DEF ReloadSession, Login
<1>3. login' \in [Logins -> Login]
  BY <1>2 DEF ReloadSession
<1>4. QED
  BY <1>2, <1>3 DEF ReloadSession, SessionInv, SessionTypeOK

\* Every step keeps the invariant of the session.
LEMMA SessionInvStep == SessionInv /\ [Next]_vars => SessionInv'
<1> SUFFICES ASSUME SessionInv, [Next]_vars PROVE SessionInv'
  OBVIOUS
<1>1. CASE Session
  BY <1>1, SessionStepKeeps DEF Session
<1>2. CASE TokenExpires
  <2>1. store.token \in Logins
    BY <1>2, HomeHasToken DEF TokenExpires, Expire
  <2>2. QED
    BY <1>2, <2>1 DEF TokenExpires, Expire, SessionInv, SessionTypeOK
<1>3. CASE DeliverUnauthorized
  BY <1>3, StoreKept DEF DeliverUnauthorized, SessionInv, SessionTypeOK
<1>4. CASE Reload
  BY <1>4, ReloadKeeps DEF Reload
<1>5. ASSUME NEW m \in Saves, QuickAdd(m) PROVE SessionInv'
  BY <1>5 DEF QuickAdd, Send, SessionInv, SessionTypeOK
<1>6. ASSUME NEW m \in Saves, SaveAnswered(m) PROVE SessionInv'
  <2>1. UNCHANGED <<login, expired>>
    BY <1>6 DEF SaveAnswered
  <2>2. \/ Unauthorized(m) \/ EndSubmit(m)
        \/ UNCHANGED store /\ form' \in {form, NULL}
    BY <1>6 DEF SaveAnswered, ListSettled
  <2>3. QED
    BY <2>1, <2>2, StoreKept DEF SessionInv, SessionTypeOK
<1>7. CASE UNCHANGED <<store, login, expired>> /\ form' \in {form, NULL}
  BY <1>7 DEF SessionInv, SessionTypeOK
<1>8. ASSUME NEW m \in Saves, NEW l \in LinkIds, Retry(m, l) PROVE UNCHANGED session
  BY <1>8 DEF Retry, Send, session
<1>9. CASE Deliver \/ FetchFails
  BY <1>7, <1>9 DEF Deliver, FetchFails, ListSettled
<1>10. CASE UNCHANGED session
  BY <1>7, <1>10 DEF session
<1>11. QED
  BY <1>1, <1>2, <1>3, <1>4, <1>5, <1>6, <1>8, <1>9, <1>10
     DEF Next, ListStep, SaveStep, ServeList, Poll, Refocus, Collect, ServeSave, Enrich, vars

-----------------------------------------------------------------------------
(* The saves                                                               *)

\* A save the server has not answered has a token and is not done; the page
\* was told only of saves that are.
SaveOK(m) ==
    /\ save[m].pc \in {"sent", "orphan"} => save[m].token \in Logins
    /\ save[m].pc \in {"new", "sent", "orphan"} => ~save[m].done
    /\ save[m].pc \in {"200", "told"} => save[m].done

SaveInv ==
    /\ save \in [Saves -> Save]
    /\ \A m \in Saves : SaveOK(m)

Told == {m \in Saves : save[m].pc = "told"}

Carried == {m \in Saves : save[m].done}

\* One save changes, the others do not.
LEMMA SaveSet ==
    ASSUME SaveInv, NEW m \in Saves, NEW rec \in Save, save' = [save EXCEPT ![m] = rec],
           rec.pc \in {"sent", "orphan"} => rec.token \in Logins,
           rec.pc \in {"new", "sent", "orphan"} => ~rec.done,
           rec.pc \in {"200", "told"} => rec.done,
           save[m].done => rec.done
    PROVE  /\ SaveInv'
           /\ Carried \subseteq Carried'
           /\ rec.pc # "told" => Told' \subseteq Told
  BY DEF SaveInv, SaveOK, Carried, Told

\* Sending a mutation keeps the invariant of the mutations.
LEMMA SendKeeps ==
    ASSUME SessionInv, SaveInv, NEW m \in Saves, NEW l \in LinkIds \cup {NULL}, Send(m, l)
    PROVE  SaveInv' /\ Carried \subseteq Carried' /\ Told' \subseteq Told
<1> DEFINE rec == [pc |-> "sent", link |-> l, token |-> store.token, done |-> FALSE]
<1>1. store.token \in Logins
  BY HomeHasToken DEF Send
<1>2. /\ rec \in Save /\ rec.pc = "sent" /\ rec.token \in Logins /\ ~rec.done
      /\ save' = [save EXCEPT ![m] = rec]
  BY <1>1 DEF Save, Send
<1>3. ~save[m].done
  BY DEF Send, SaveInv, SaveOK
<1> HIDE DEF rec
<1>4. QED
  BY <1>2, <1>3, SaveSet

\* Serving a mutation keeps the invariant of the mutations.
LEMMA ServeSaveKeeps ==
    ASSUME SaveInv, NEW m \in Saves, ServeSave(m)
    PROVE  SaveInv' /\ Carried \subseteq Carried' /\ Told' \subseteq Told
<1>1. \E code \in {"200", "401", "error"}, done \in BOOLEAN :
          (code = "200" => done) /\ Answered(m, code, done)
  BY DEF ServeSave
<1>2. PICK code \in {"200", "401", "error"}, done \in BOOLEAN :
          (code = "200" => done) /\ Answered(m, code, done)
  BY <1>1
<1>3. save[m] \in Save /\ save[m].pc \in {"sent", "orphan"} /\ ~save[m].done
  BY DEF ServeSave, SaveInv, SaveOK
<1> DEFINE pc == IF save[m].pc = "orphan" THEN "over" ELSE code
           rec == [save[m] EXCEPT !.pc = pc, !.done = done, !.link = NULL, !.token = NULL]
<1>4. pc \in {"200", "401", "error", "over"} /\ (pc = "200" => done)
  BY <1>2
<1>5. save' = [save EXCEPT ![m] = rec]
  BY <1>2 DEF Answered
<1> HIDE DEF pc
<1>6. rec \in Save /\ rec.pc = pc /\ rec.done = done
  BY <1>3, <1>4 DEF Save
<1> HIDE DEF rec
<1>7. QED
  BY <1>3, <1>4, <1>5, <1>6, SaveSet

\* The page is told of a save only when its list is asked for anew.
LEMMA SaveAnsweredKeeps ==
    ASSUME SaveInv, NEW m \in Saves, SaveAnswered(m)
    PROVE  /\ SaveInv'
           /\ Carried \subseteq Carried'
           /\ Told' \subseteq Told \/ (Home /\ fetch' = SendFetch(store.token))
<1>1. save[m] \in Save /\ save[m].pc \in {"200", "401", "error"} /\ SaveOK(m)
  BY DEF SaveAnswered, SaveInv
<1>2. ASSUME NEW pc \in {"told", "over"}, save' = [save EXCEPT ![m].pc = pc],
             pc = "told" => save[m].pc = "200"
      PROVE  SaveInv' /\ Carried \subseteq Carried' /\ (pc = "over" => Told' \subseteq Told)
  <2> DEFINE rec == [save[m] EXCEPT !.pc = pc]
  <2>1. rec \in Save /\ rec.pc = pc /\ rec.done = save[m].done
    BY <1>1 DEF Save
  <2>2. save' = [save EXCEPT ![m] = rec]
    BY <1>2
  <2> HIDE DEF rec
  <2>3. pc = "told" => rec.done
    BY <1>1, <1>2, <2>1 DEF SaveOK
  <2>4. QED
    BY <2>1, <2>2, <2>3, SaveSet
<1>3. CASE save' = [save EXCEPT ![m].pc = "over"]
  BY <1>2, <1>3
<1>4. CASE /\ save[m].pc = "200" /\ Home /\ Loaded
           /\ save' = [save EXCEPT ![m].pc = "told"]
           /\ Invalidate
  BY <1>2, <1>4 DEF Invalidate
<1>5. QED
  BY <1>3, <1>4 DEF SaveAnswered

\* A reload drops the mutations under way, and what was told with them.
LEMMA ReloadSaves ==
    ASSUME SaveInv, Reload
    PROVE  SaveInv' /\ Carried \subseteq Carried' /\ Told' \subseteq Told
<1>1. ASSUME NEW m \in Saves
      PROVE  /\ save'[m] \in Save /\ SaveOK(m)'
             /\ save'[m].done = save[m].done
             /\ save'[m].pc = "told" => save[m].pc = "told"
  <2> DEFINE pc == CASE save[m].pc = "sent" -> "orphan"
                     [] save[m].pc \in {"200", "401", "error"} -> "over"
                     [] OTHER -> save[m].pc
  <2>1. save[m] \in Save /\ SaveOK(m)
    BY DEF SaveInv
  <2>2. save'[m] = [save[m] EXCEPT !.pc = pc]
    BY DEF Reload
  <2>3. /\ pc \in {"new", "orphan", "over", "told"}
        /\ pc \in {"new", "told"} => pc = save[m].pc
        /\ pc = "orphan" => save[m].pc \in {"sent", "orphan"}
    BY <2>1 DEF Save
  <2> HIDE DEF pc
  <2>4. /\ save'[m] \in Save
        /\ save'[m].pc = pc /\ save'[m].done = save[m].done /\ save'[m].token = save[m].token
    BY <2>1, <2>2, <2>3 DEF Save
  <2>5. QED
    BY <2>1, <2>3, <2>4 DEF SaveOK
<1>2. save' \in [Saves -> Save]
  BY <1>1 DEF Reload
<1>3. QED
  BY <1>1, <1>2 DEF SaveInv, Carried, Told

\* What is done stays done.
LEMMA SaveInvStep ==
    ASSUME SessionInv, SaveInv, [Next]_vars
    PROVE  /\ SaveInv'
           /\ Carried \subseteq Carried'
           /\ Told' \subseteq Told \/ (Home /\ fetch' = SendFetch(store.token))
<1>1. ASSUME UNCHANGED save
      PROVE  SaveInv' /\ Carried' = Carried /\ Told' = Told
  BY <1>1 DEF SaveInv, SaveOK, Carried, Told
<1>2. ASSUME NEW m \in Saves, QuickAdd(m) \/ \E l \in LinkIds : Retry(m, l)
      PROVE  SaveInv' /\ Carried \subseteq Carried' /\ Told' \subseteq Told
  BY <1>2, SendKeeps DEF QuickAdd, Retry
<1>3. ASSUME NEW m \in Saves, ServeSave(m)
      PROVE  SaveInv' /\ Carried \subseteq Carried' /\ Told' \subseteq Told
  BY <1>3, ServeSaveKeeps
<1>4. ASSUME NEW m \in Saves, SaveAnswered(m)
      PROVE  /\ SaveInv'
             /\ Carried \subseteq Carried'
             /\ Told' \subseteq Told \/ (Home /\ fetch' = SendFetch(store.token))
  BY <1>4, SaveAnsweredKeeps
<1>5. CASE Reload
  BY <1>5, ReloadSaves
<1>6. CASE \/ Session \/ TokenExpires \/ ListStep \/ FetchFails \/ Poll \/ Refocus \/ Collect
           \/ \E l \in LinkIds : Enrich(l)
           \/ UNCHANGED vars
  <2>1. UNCHANGED save
    BY <1>6 DEF Session, Mount, TokenExpires, ListStep, ServeList, Deliver, DeliverUnauthorized,
                FetchFails, Poll, Refocus, Collect, Enrich, view, vars
  <2>2. QED
    BY <1>1, <2>1
<1>7. QED
  BY <1>2, <1>3, <1>4, <1>5, <1>6 DEF Next, SaveStep

-----------------------------------------------------------------------------
(* The list                                                                *)

\* An answer that is on its way was read after every save the page was told
\* of, and so was the list, unless it is asked for anew or failed.
ViewInv ==
    /\ fetch \in Fetch /\ list \in List
    /\ failed \in BOOLEAN /\ faults \in 0 .. MaxFaults
    /\ fetch.pc = "sent" => fetch.token \in Logins
    /\ fetch.pc = "idle" => fetch = IdleFetch
    /\ fetch.pc = "200" => Told \subseteq fetch.list.seen
    /\ Loaded /\ fetch.pc = "idle" /\ ~failed => Told \subseteq list.seen

\* No list and no request are well-formed.
LEMMA EmptyList == NoList \in List /\ IdleFetch \in Fetch /\ IdleFetch.pc = "idle"
<1>1. NoList \in List
  BY DEF NoList, List
<1>2. QED
  BY <1>1 DEF IdleFetch, Fetch

\* A request that was just sent is well-formed.
LEMMA SentFetch ==
    ASSUME NEW t \in Logins
    PROVE  SendFetch(t) \in Fetch /\ SendFetch(t).pc = "sent" /\ SendFetch(t).token = t
  BY EmptyList DEF SendFetch, IdleFetch, Fetch

\* Faults are counted up to their bound.
LEMMA FaultsBounded ==
    ASSUME faults \in 0 .. MaxFaults, Fault \/ UNCHANGED faults
    PROVE  faults' \in 0 .. MaxFaults
  BY ViewAssumption DEF Fault

\* Every step keeps the faults within their bound.
LEMMA FaultsStep ==
    ASSUME ViewInv, [Next]_vars
    PROVE  faults' \in 0 .. MaxFaults
<1>1. Fault \/ UNCHANGED faults
  BY DEF Next, Session, Mount, TokenExpires, ListStep, ServeList, Deliver, DeliverUnauthorized,
         FetchFails, Poll, Refocus, Collect, Reload, QuickAdd, Retry, Send, SaveStep, ServeSave,
         SaveAnswered, Enrich, view, vars
<1>2. QED
  BY <1>1, FaultsBounded DEF ViewInv

\* The list is asked for.
LEMMA Asked ==
    ASSUME ViewInv, NEW t \in Logins, fetch' = SendFetch(t), list' \in {list, NoList},
           failed' \in BOOLEAN, faults' \in 0 .. MaxFaults
    PROVE  ViewInv'
  BY SentFetch, EmptyList DEF ViewInv

\* Nothing happens to the list, and the page is told nothing.
LEMMA ListStays ==
    ASSUME ViewInv, UNCHANGED <<fetch, list, failed>>, Told' \subseteq Told,
           faults' \in 0 .. MaxFaults
    PROVE  ViewInv'
<1>1. Loaded' = Loaded
  BY DEF Loaded
<1>2. QED
  BY <1>1 DEF ViewInv

\* The request ends without an answer, or there is no list any more.
LEMMA ListLost ==
    ASSUME ViewInv, fetch' = IdleFetch, list' \in {list, NoList}, failed' \in BOOLEAN,
           failed' \/ list' = NoList, faults' \in 0 .. MaxFaults
    PROVE  ViewInv'
  BY EmptyList DEF ViewInv, Loaded

\* An answer of the server holds at least what was told when it was made.
LEMMA ServeListKeeps ==
    ASSUME ViewInv, SaveInv, ServeList, faults' \in 0 .. MaxFaults
    PROVE  ViewInv'
<1>1. Told' = Told /\ Told \subseteq Carried /\ fetch \in Fetch /\ fetch.token \in Logins
  BY DEF ServeList, Told, Carried, ViewInv, SaveInv, SaveOK
<1>2. UNCHANGED <<list, failed>>
  BY DEF ServeList
<1>3. CASE fetch' = [fetch EXCEPT !.pc = "401"]
  BY <1>1, <1>2, <1>3 DEF ViewInv, Fetch
<1>4. ASSUME NEW card, fetch' = [fetch EXCEPT !.pc = "200", !.list =
                 [of |-> UserOf[fetch.token], card |-> card, seen |-> Carried]],
             card \in [LinkIds -> {"none", "PENDING", "READY", "FAILED"}]
      PROVE  ViewInv'
  <2> DEFINE new == [of |-> UserOf[fetch.token], card |-> card, seen |-> Carried]
  <2>1. new \in List /\ new.seen = Carried
    BY <1>1, <1>4, SessionAssumption DEF List, Carried
  <2>2. fetch' = [fetch EXCEPT !.pc = "200", !.list = new]
    BY <1>4
  <2> HIDE DEF new
  <2>3. fetch' \in Fetch /\ fetch'.pc = "200" /\ fetch'.list = new
    BY <1>1, <2>1, <2>2 DEF Fetch
  <2>4. QED
    BY <1>1, <1>2, <2>1, <2>3 DEF ViewInv
<1>5. QED
  <2> DEFINE card == [l \in LinkIds |-> IF Owner[l] = UserOf[fetch.token] /\ Server!Live(l)
                                           THEN status[l] ELSE "none"]
  <2>1. card \in [LinkIds -> {"none", "PENDING", "READY", "FAILED"}]
    BY DEF Server!Live
  <2>2. QED
    BY <1>3, <1>4, <2>1 DEF ServeList, Carried

\* Delivering an answer keeps the invariant of the list.
LEMMA DeliverKeeps ==
    ASSUME ViewInv, Deliver, Told' = Told, faults' \in 0 .. MaxFaults
    PROVE  ViewInv'
  BY EmptyList DEF ViewInv, Deliver, Fetch

\* Every step keeps the invariant of the list.
LEMMA ViewInvStep ==
    ASSUME SessionInv, SaveInv, ViewInv, [Next]_vars
    PROVE  ViewInv'
<1>1. faults' \in 0 .. MaxFaults
  BY FaultsStep
<1>3. CASE Session
  <2>1. UNCHANGED <<save, list, failed>> /\ Told' = Told
    BY <1>3 DEF Session, Mount, Told
  <2>2. CASE AtHome(store'.token) /\ fetch' = SendFetch(store'.token)
    <3>1. store'.token \in Logins
      BY <1>3, <2>2, SessionInvStep, SessionAssumption
         DEF SessionInv, SessionTypeOK, AtHome, LoggedOut
    <3>2. QED
      BY <1>1, <2>1, <2>2, <3>1, Asked DEF ViewInv
  <2>3. CASE UNCHANGED fetch
    BY <1>1, <2>1, <2>3, ListStays
  <2>4. QED
    BY <1>3, <2>2, <2>3 DEF Session, Mount, Join
<1>4. CASE TokenExpires
  BY <1>1, <1>4, ListStays DEF TokenExpires, Told
<1>5. CASE ServeList
  BY <1>1, <1>5, ServeListKeeps
<1>6. CASE Deliver
  BY <1>1, <1>6, DeliverKeeps DEF Deliver, Told
<1>7. CASE DeliverUnauthorized
  BY <1>1, <1>7, ListLost DEF DeliverUnauthorized
<1>8. CASE FetchFails \/ Poll \/ Refocus
  <2>1. UNCHANGED list /\ failed' \in BOOLEAN
    BY <1>8 DEF FetchFails, Poll, Refocus, ViewInv
  <2>2. \/ fetch' = SendFetch(store.token) /\ store.token \in Logins
        \/ fetch' = IdleFetch /\ failed' = TRUE
    BY <1>8, HomeHasToken DEF FetchFails, Poll, Refocus
  <2>3. QED
    BY <1>1, <2>1, <2>2, Asked, ListLost
<1>9. CASE Collect
  BY <1>1, <1>9, ListLost DEF Collect, Fetching
<1>10. CASE Reload
  <2>1. list' = NoList /\ failed' = FALSE
    BY <1>10 DEF Reload
  <2>2. \/ fetch' = SendFetch(store.token) /\ store.token \in Logins
        \/ fetch' = IdleFetch
    BY <1>10, HomeHasToken DEF Reload
  <2>3. QED
    BY <1>1, <2>1, <2>2, Asked, ListLost
<1>11. ASSUME NEW m \in Saves, QuickAdd(m) \/ \E l \in LinkIds : Retry(m, l)
       PROVE  ViewInv'
  <2>1. Told' \subseteq Told
    BY <1>11, SendKeeps DEF QuickAdd, Retry
  <2>2. QED
    BY <1>1, <1>11, <2>1, ListStays DEF QuickAdd, Retry, Send
<1>12. ASSUME NEW m \in Saves, ServeSave(m) PROVE ViewInv'
  BY <1>1, <1>12, ServeSaveKeeps, ListStays DEF ServeSave
<1>13. ASSUME NEW m \in Saves, SaveAnswered(m) PROVE ViewInv'
  <2>1. UNCHANGED <<list, failed>> /\ failed \in BOOLEAN
    BY <1>13 DEF SaveAnswered, ViewInv
  <2>2. CASE Home /\ fetch' = SendFetch(store.token)
    BY <1>1, <2>1, <2>2, HomeHasToken, Asked
  <2>3. CASE UNCHANGED fetch /\ Told' \subseteq Told
    BY <1>1, <2>1, <2>3, ListStays
  <2>4. UNCHANGED fetch \/ (Home /\ fetch' = SendFetch(store.token))
    BY <1>13 DEF SaveAnswered, Invalidate, Join
  <2>5. QED
    BY <1>13, <2>2, <2>3, <2>4, SaveAnsweredKeeps
<1>14. ASSUME UNCHANGED view PROVE ViewInv'
  BY <1>1, <1>14, ListStays DEF view, Told
<1>15. QED
  BY <1>3, <1>4, <1>5, <1>6, <1>7, <1>8, <1>9, <1>10, <1>11, <1>12, <1>13, <1>14
     DEF Next, ListStep, SaveStep, Enrich, vars

-----------------------------------------------------------------------------
(* Whose user is shown.  A token in the store, and a bearer that is not    *)
(* the login's own token, come from a login that is over.                  *)

Over(f) == f \in Logins /\ login[f].pc = "over"

TokensEarned ==
    /\ Home => Over(store.token)
    /\ \A f \in Logins :
          login[f].pc = "me" => login[f].bearer = f \/ Over(login[f].bearer)

StoryInv == TokensEarned /\ SessionExplained

\* A login goes nowhere from "over", and each goes on by its own answers only.
LEMMA LoginFate ==
    ASSUME SessionInv, [Next]_vars, NEW f \in Logins
    PROVE  \/ login'[f] = login[f]
           \/ Submit(f) /\ login'[f].pc # "me"
           \/ RegisterAnswered(f) /\ login'[f].pc # "me"
           \/ /\ LoginAnswered(f)
              /\ login'[f].pc = "me" =>
                     login'[f].bearer = IF Home THEN store.token ELSE f
           \/ MeAnswered(f) /\ login'[f].pc = "over"
           \/ Reload /\ login'[f].pc = "over"
<1> DEFINE Goal == \/ login'[f] = login[f]
                   \/ Submit(f) /\ login'[f].pc # "me"
                   \/ RegisterAnswered(f) /\ login'[f].pc # "me"
                   \/ /\ LoginAnswered(f)
                      /\ login'[f].pc = "me" =>
                             login'[f].bearer = IF Home THEN store.token ELSE f
                   \/ MeAnswered(f) /\ login'[f].pc = "over"
                   \/ Reload /\ login'[f].pc = "over"
<1>1. login \in [Logins -> Login]
  BY DEF SessionInv, SessionTypeOK
<1>2. ASSUME NEW g \in Logins, NEW pc, NEW b,
             login' = [login EXCEPT ![g].pc = pc, ![g].bearer = b]
      PROVE  /\ g # f => login'[f] = login[f]
             /\ g = f => login'[f].pc = pc /\ login'[f].bearer = b
  BY <1>1, <1>2 DEF Login
<1>3. ASSUME NEW g \in Logins, NEW pc, LoginGoesTo(g, pc)
      PROVE  /\ g # f => login'[f] = login[f]
             /\ g = f => login'[f].pc = pc
  BY <1>2, <1>3 DEF LoginGoesTo
<1>4. ASSUME NEW g \in Logins, Submit(g) PROVE Goal
  <2>1. PICK pc \in {"register", "login"} : LoginGoesTo(g, pc)
    BY <1>4 DEF Submit
  <2>2. QED
    BY <1>3, <1>4, <2>1
<1>5. ASSUME NEW g \in Logins, RegisterAnswered(g) PROVE Goal
  <2>1. PICK pc \in {"login", "over"} : LoginGoesTo(g, pc)
    BY <1>5 DEF RegisterAnswered
  <2>2. QED
    BY <1>3, <1>5, <2>1
<1>6. ASSUME NEW g \in Logins, LoginAnswered(g) PROVE Goal
  <2>1. CASE login' = [login EXCEPT ![g].pc = "me",
                          ![g].bearer = IF Home THEN store.token ELSE g]
    BY <1>2, <1>6, <2>1
  <2>2. CASE LoginGoesTo(g, "over")
    <3>1. /\ g # f => login'[f] = login[f]
          /\ g = f => login'[f].pc = "over"
      BY <1>3, <2>2
    <3>2. QED
      BY <1>6, <3>1
  <2>3. QED
    BY <1>6, <2>1, <2>2 DEF LoginAnswered
<1>7. ASSUME NEW g \in Logins, MeAnswered(g) PROVE Goal
  <2>1. /\ g # f => login'[f] = login[f]
        /\ g = f => login'[f].pc = "over"
    BY <1>3, <1>7 DEF MeAnswered
  <2>2. QED
    BY <1>7, <2>1
<1>8. CASE Reload
  <2>1. login'[f] = login[f] \/ login'[f] = [login[f] EXCEPT !.pc = "over", !.bearer = NULL]
    BY <1>8 DEF Reload, ReloadSession
  <2>2. [login[f] EXCEPT !.pc = "over", !.bearer = NULL].pc = "over"
    BY <1>1 DEF Login
  <2>3. QED
    BY <1>8, <2>1, <2>2
<1>9. CASE Session
  BY <1>4, <1>5, <1>6, <1>7, <1>9 DEF Session, SessionStep, LoginStep, SwitchForm, Logout
<1>10. CASE ~Session /\ ~Reload
  BY <1>10 DEF Next, TokenExpires, Expire, ListStep, ServeList, Deliver, DeliverUnauthorized,
     FetchFails, Poll, Refocus, Collect, QuickAdd, Retry, Send, SaveStep, ServeSave,
     SaveAnswered, Enrich, vars, session
<1>11. QED
  BY <1>8, <1>9, <1>10

\* What is over stays over.
LEMMA OverStays ==
    ASSUME SessionInv, [Next]_vars, NEW f, Over(f)
    PROVE  Over(f)'
  BY LoginFate DEF Over, Submit, RegisterAnswered, LoginAnswered, MeAnswered

\* The store keeps what it has, is emptied, or gets the token of a login whose
\* user is the one of its bearer.
LEMMA StoreFate ==
    ASSUME SessionInv, [Next]_vars
    PROVE  \/ store' = store
           \/ store' = LoggedOut
           \/ \E f \in Logins :
                 /\ MeAnswered(f)
                 /\ login[f].pc = "me"
                 /\ store' = [token |-> f, user |-> UserOf[login[f].bearer]]
<1>1. ASSUME NEW x, Unauthorized(x) \/ EndSubmit(x)
      PROVE  store' = store \/ store' = LoggedOut
  BY <1>1 DEF Unauthorized, EndSubmit, SetStore
<1>2. ASSUME NEW f \in Logins, LoginStep(f), ~MeAnswered(f)
      PROVE  store' = store \/ store' = LoggedOut
  BY <1>1, <1>2 DEF LoginStep, RegisterAnswered, LoginAnswered
<1>3. ASSUME NEW f \in Logins, MeAnswered(f)
      PROVE  \/ store' \in {store, LoggedOut}
             \/ login[f].pc = "me" /\ store' = [token |-> f, user |-> UserOf[login[f].bearer]]
  BY <1>1, <1>3 DEF MeAnswered, SetStore
<1>4. CASE Session
  BY <1>1, <1>2, <1>3, <1>4 DEF Session, SessionStep, Submit, SwitchForm, Logout
<1>5. CASE ~Session
  BY <1>1, <1>5 DEF Next, TokenExpires, Expire, ListStep, ServeList, Deliver,
     DeliverUnauthorized, FetchFails, Poll, Refocus, Collect, Reload, ReloadSession, QuickAdd,
     Retry, Send, SaveStep, ServeSave, SaveAnswered, Enrich, vars, session
<1>6. QED
  BY <1>4, <1>5

\* The user in the store goes on having a login behind it.
LEMMA StoryStep ==
    ASSUME SessionInv, StoryInv, [Next]_vars
    PROVE  StoryInv'
<1>1. SessionInv'
  BY SessionInvStep
<1>2. Home <=> store.token \in Logins
  BY HomeHasToken
<1>3. ASSUME NEW f \in Logins, login'[f].pc = "me"
      PROVE  login'[f].bearer = f \/ Over(login[f].bearer)'
  <2>1. CASE login'[f] = login[f]
    <3>1. login[f].bearer = f \/ Over(login[f].bearer)
      BY <1>3, <2>1 DEF StoryInv, TokensEarned
    <3>2. ASSUME NEW b, b = login[f].bearer, Over(b)
          PROVE  Over(login[f].bearer)'
      <4>1. Over(b)'
        BY <3>2, OverStays
      <4>2. QED
        BY <2>1, <3>2, <4>1 DEF Over
    <3>3. QED
      BY <2>1, <3>1, <3>2
  <2>2. CASE login'[f].bearer = IF Home THEN store.token ELSE f
    <3>1. ASSUME NEW b, b = store.token, Home, login'[f].bearer = b
          PROVE  Over(login[f].bearer)'
      <4>1. Over(b)'
        BY <3>1, OverStays DEF StoryInv, TokensEarned
      <4>2. QED
        BY <3>1, <4>1 DEF Over
    <3>2. QED
      BY <2>2, <3>1
  <2>3. QED
    BY <1>3, <2>1, <2>2, LoginFate
<1>4. CASE store' = LoggedOut
  <2>1. ~Home'
    BY <1>4 DEF Home, AtHome, LoggedOut
  <2>2. QED
    BY <1>3, <2>1 DEF StoryInv, TokensEarned, SessionExplained
<1>5. CASE store' = store
  <2>1. Home' = Home
    BY <1>5 DEF Home
  <2>2. ASSUME Home PROVE Over(store.token)'
    <3>1. ASSUME NEW t, t = store.token PROVE Over(t)'
      BY <2>2, <3>1, OverStays DEF StoryInv, TokensEarned
    <3>2. QED
      BY <1>5, <3>1 DEF Over
  <2>3. ASSUME Home, store.user # UserOf[store.token]
        PROVE  \E f \in Logins \ {store.token} : login'[f].pc = "over" /\ UserOf[f] = store.user
    BY <2>3, OverStays DEF StoryInv, SessionExplained, Over
  <2>4. QED
    BY <1>3, <1>5, <2>1, <2>2, <2>3 DEF StoryInv, TokensEarned, SessionExplained
<1>6. ASSUME NEW f \in Logins, MeAnswered(f), login[f].pc = "me",
             store' = [token |-> f, user |-> UserOf[login[f].bearer]]
      PROVE  StoryInv'
  <2> DEFINE b == login[f].bearer
  <2>1. store'.token = f /\ store'.user = UserOf[b]
    BY <1>6
  <2>2. login'[f].pc = "over"
    BY <1>6 DEF MeAnswered, LoginGoesTo, SessionInv, SessionTypeOK, Login
  <2>3. b # f => b \in Logins \ {f} /\ login'[b].pc = "over"
    <3>1. ASSUME NEW c, c = b, b # f
          PROVE  c \in Logins /\ login'[c].pc = "over"
      <4>1. Over(c)
        BY <1>6, <3>1 DEF StoryInv, TokensEarned
      <4>2. QED
        BY <4>1, OverStays DEF Over
    <3>2. QED
      BY <3>1
  <2>4. Over(store.token)'
    BY <2>1, <2>2 DEF Over
  <2> HIDE DEF b
  <2>5. SessionExplained'
    BY <2>1, <2>3 DEF SessionExplained
  <2>6. QED
    BY <1>3, <2>4, <2>5 DEF StoryInv, TokensEarned
<1>7. QED
  BY <1>4, <1>5, <1>6, StoreFate

-----------------------------------------------------------------------------
(* No form waits for nothing.                                              *)

Unanswered(x) == x \in Saves /\ save[x].pc \in {"sent", "200", "401", "error"}

\* What a form may wait for.
Awaited(x) ==
    \/ x \in Logins /\ ~Home /\ login[x].pc \in {"register", "login", "me"}
    \/ Home /\ Unanswered(x)
    \/ Home /\ AwaitsList(x) /\ Fetching

LEMMA FormWaitsIs ==
    ASSUME SessionInv
    PROVE  FormWaits <=> (form = NULL \/ Awaited(form))
  BY SessionAssumption DEF SessionInv, SessionTypeOK, FormWaits, Awaited, Unanswered, AwaitsList

\* A request that was sent is one, and one that is joined goes on.
LEMMA SentIsFetching ==
    /\ \A t : fetch' = SendFetch(t) \/ Join(t) => Fetching'
    /\ Invalidate => Fetching'
<1>1. \A t : SendFetch(t) # IdleFetch
  BY DEF SendFetch, IdleFetch
<1>2. QED
  BY <1>1 DEF Join, Invalidate, Fetching

\* The request for the list goes on, until it has settled or its page is left.
LEMMA FetchStays ==
    ASSUME ViewInv, [Next]_vars, Fetching
    PROVE  Fetching' \/ DeliverUnauthorized \/ Reload \/ ListSettled
<1>1. UNCHANGED fetch => Fetching'
  BY DEF Fetching
<1>2. CASE ServeList
  BY <1>2, EmptyList DEF ServeList, ViewInv, Fetch, Fetching
<1>3. CASE Session
  BY <1>1, <1>3, SentIsFetching DEF Session, Mount
<1>4. CASE Deliver \/ FetchFails
  BY <1>4, SentIsFetching DEF Deliver, FetchFails
<1>5. ASSUME NEW m \in Saves, SaveAnswered(m) PROVE Fetching'
  BY <1>1, <1>5, SentIsFetching DEF SaveAnswered
<1>6. CASE Poll \/ Refocus \/ Collect
  BY <1>6 DEF Poll, Refocus, Collect
<1>7. QED
  BY <1>1, <1>2, <1>3, <1>4, <1>5, <1>6 DEF Next, TokenExpires, ListStep, QuickAdd, Retry, Send,
     SaveStep, ServeSave, Enrich, view, vars

\* After an answer the form waits only for what it waited for before.
LEMMA FormSet ==
    ASSUME NEW x, Unauthorized(x) \/ EndSubmit(x) \/ \E new : SetStore(x, new), form' # NULL
    PROVE  form' = form /\ form # x /\ Home' = Home
  BY DEF Unauthorized, EndSubmit, SetStore, FormAfter, Home

\* No form is left waiting for what is over.
LEMMA FormStep ==
    ASSUME SessionInv, SaveInv, ViewInv, FormWaits, [Next]_vars
    PROVE  FormWaits'
<1>1. SessionInv' /\ login \in [Logins -> Login] /\ save \in [Saves -> Save]
  BY SessionInvStep DEF SessionInv, SessionTypeOK, SaveInv
<1> SUFFICES ASSUME form' # NULL PROVE Awaited(form)'
  BY SessionAssumption DEF FormWaits, Awaited, Unanswered, AwaitsList
<1>2. form # NULL => Awaited(form)
  BY FormWaitsIs
<1>3. /\ form \in Logins => /\ ~Home /\ login[form].pc \in {"register", "login", "me"}
                            /\ ~Unanswered(form) /\ ~AwaitsList(form)
      /\ form \in Saves => Home
  BY <1>2, SessionAssumption DEF Awaited, Unanswered, AwaitsList
<1>4. ListSettled => form' = form /\ ~AwaitsList(form)
  BY DEF ListSettled
<1>5. AwaitsList(form) => Fetching' \/ Reload \/ DeliverUnauthorized
  BY <1>2, <1>3, <1>4, FetchStays, SessionAssumption DEF Awaited, Unanswered, AwaitsList, SaveInv
<1>6. ASSUME form' = form, Home' = Home, UNCHANGED save,
             form \in Logins => login'[form].pc \in {"register", "login", "me"},
             AwaitsList(form) => Fetching'
      PROVE  Awaited(form)'
  BY <1>2, <1>6, SessionAssumption DEF Awaited, Unanswered, AwaitsList
<1>7. ASSUME form' = form, Home' = Home, UNCHANGED login,
             Unanswered(form) => Unanswered(form)',
             AwaitsList(form) => AwaitsList(form)' /\ Fetching'
      PROVE  Awaited(form)'
  BY <1>2, <1>7 DEF Awaited
<1>8. ASSUME NEW f \in Logins, NEW pc, LoginGoesTo(f, pc)
      PROVE  \A g \in Logins : login'[g].pc = IF g = f THEN pc ELSE login[g].pc
  BY <1>1, <1>8 DEF LoginGoesTo, Login
<1>9. ASSUME NEW f \in Logins, Submit(f) PROVE Awaited(form)'
  <2>1. form' = f /\ ~Home' /\ ~Home
    BY <1>9 DEF Submit, Home
  <2>2. PICK pc \in {"register", "login"} : LoginGoesTo(f, pc)
    BY <1>9 DEF Submit
  <2>3. login'[f].pc = pc
    BY <1>8, <2>2
  <2>4. QED
    BY <2>1, <2>2, <2>3 DEF Awaited
<1>10. ASSUME NEW f \in Logins, LoginStep(f), UNCHANGED save, AwaitsList(form) => Fetching'
       PROVE  Awaited(form)'
  <2>1. CASE UNCHANGED <<store, form>>
    <3>1. \/ LoginGoesTo(f, "login")
          \/ \E b : login' = [login EXCEPT ![f].pc = "me", ![f].bearer = b]
          \/ \E x : SetStore(x, store) /\ LoginGoesTo(f, "over") /\ x = f
          \/ \E x : SetStore(x, LoggedOut) /\ LoginGoesTo(f, "over") /\ x = f
          \/ \E x, new : SetStore(x, new) /\ LoginGoesTo(f, "over") /\ x = f
      BY <1>10 DEF LoginStep, RegisterAnswered, LoginAnswered, MeAnswered, Unauthorized,
                   EndSubmit
    <3>2. \/ \E pc \in {"login", "me"} :
                \A g \in Logins : login'[g].pc = IF g = f THEN pc ELSE login[g].pc
          \/ form # f /\ \A g \in Logins \ {f} : login'[g].pc = login[g].pc
      <4>1. ASSUME NEW b, login' = [login EXCEPT ![f].pc = "me", ![f].bearer = b]
            PROVE  \A g \in Logins : login'[g].pc = IF g = f THEN "me" ELSE login[g].pc
        BY <1>1, <4>1 DEF Login
      <4>2. QED
        BY <1>8, <2>1, <3>1, <4>1, FormSet
    <3>3. Home' = Home /\ form' = form
      BY <2>1 DEF Home
    <3>4. QED
      BY <1>3, <1>6, <1>10, <3>2, <3>3
  <2>2. CASE LoginGoesTo(f, "over") /\ (Unauthorized(f) \/ EndSubmit(f) \/ \E new : SetStore(f, new))
    <3>1. form' = form /\ form # f /\ Home' = Home
      BY <2>2, FormSet
    <3>2. QED
      BY <1>3, <1>6, <1>8, <1>10, <2>2, <3>1
  <2>3. QED
    BY <1>10, <2>1, <2>2 DEF LoginStep, RegisterAnswered, LoginAnswered, MeAnswered
<1>11. ASSUME UNCHANGED save, form' = form, Home' = Home, UNCHANGED login,
              ~Reload, ~DeliverUnauthorized
       PROVE  Awaited(form)'
  BY <1>3, <1>5, <1>6, <1>11
<1>12. ~Reload
  BY DEF Reload, ReloadSession
<1>13. CASE DeliverUnauthorized
  <2>1. form' = form /\ Home' = Home /\ UNCHANGED <<login, save>>
    BY <1>13, FormSet DEF DeliverUnauthorized
  <2>2. ~Home'
    BY <1>13 DEF DeliverUnauthorized, Unauthorized, SetStore, LoggedOut, Home, AtHome
  <2>3. ~AwaitsList(form)
    BY <1>3, <2>1, <2>2 DEF AwaitsList
  <2>4. QED
    BY <1>3, <1>6, <2>1, <2>3
<1>14. CASE Session /\ ~DeliverUnauthorized
  <2>1. UNCHANGED save
    BY <1>14 DEF Session, Mount
  <2>2. ~SwitchForm
    BY DEF SwitchForm
  <2>3. CASE Logout
    <3>1. form' = form /\ Home' = Home /\ UNCHANGED login
      BY <2>3, FormSet DEF Logout
    <3>2. QED
      BY <1>11, <1>12, <1>14, <2>1, <3>1
  <2>4. QED
    BY <1>5, <1>9, <1>10, <1>12, <1>14, <2>1, <2>2, <2>3 DEF Session, SessionStep
<1>15. ASSUME NEW m \in Saves, NEW l \in LinkIds \cup {NULL}, Send(m, l)
       PROVE  /\ save[m].pc = "new" /\ save'[m].pc = "sent"
              /\ \A n \in Saves \ {m} : save'[n] = save[n]
              /\ Home /\ Home' /\ UNCHANGED <<login, fetch>>
  BY <1>1, <1>15 DEF Send, Home
<1>16. ASSUME NEW m \in Saves, QuickAdd(m) PROVE Awaited(form)'
  BY <1>15, <1>16 DEF QuickAdd, Awaited, Unanswered
<1>17. ASSUME NEW m \in Saves, NEW l \in LinkIds, Retry(m, l), ~DeliverUnauthorized
       PROVE  Awaited(form)'
  <2>1. form' = form /\ Send(m, l)
    BY <1>17 DEF Retry
  <2>2. /\ Unanswered(form) => Unanswered(form)'
        /\ AwaitsList(form) => AwaitsList(form)'
    BY <1>15, <2>1 DEF Unanswered, AwaitsList
  <2>3. Home' = Home /\ UNCHANGED login
    BY <2>1 DEF Send, Home
  <2>4. QED
    BY <1>5, <1>7, <1>12, <1>17, <2>1, <2>2, <2>3
<1>18. ASSUME NEW m \in Saves, ServeSave(m), ~DeliverUnauthorized PROVE Awaited(form)'
  <2>1. PICK code \in {"200", "401", "error"}, done \in BOOLEAN : Answered(m, code, done)
    BY <1>18 DEF ServeSave
  <2>2. /\ save[m].pc = "sent" => save'[m].pc = code
        /\ \A n \in Saves \ {m} : save'[n] = save[n]
    BY <1>1, <2>1 DEF Answered, Save
  <2>3. save[m].pc \in {"sent", "orphan"} /\ UNCHANGED session
    BY <1>18 DEF ServeSave
  <2>4. form' = form /\ Home' = Home /\ UNCHANGED login
    BY <2>3 DEF session, Home
  <2>5. /\ Unanswered(form) => Unanswered(form)'
        /\ AwaitsList(form) => AwaitsList(form)'
    BY <2>1, <2>2, <2>3, <2>4 DEF Unanswered, AwaitsList
  <2>6. QED
    BY <1>5, <1>7, <1>12, <1>18, <2>4, <2>5
<1>19. ASSUME NEW m \in Saves, SaveAnswered(m) PROVE Awaited(form)'
  <2>1. UNCHANGED login /\ \A n \in Saves \ {m} : save'[n] = save[n]
    BY <1>1, <1>19 DEF SaveAnswered
  <2>2. CASE form' = form /\ form # m /\ Home' = Home
    <3>1. /\ Unanswered(form) => Unanswered(form)'
          /\ AwaitsList(form) => AwaitsList(form)'
      BY <2>1, <2>2 DEF Unanswered, AwaitsList
    <3>2. Fetching => Fetching'
      BY <1>19, SentIsFetching DEF SaveAnswered, Fetching
    <3>3. AwaitsList(form) => Fetching
      BY <1>2, <1>3, <2>2 DEF Awaited, Unanswered, AwaitsList
    <3>4. QED
      BY <1>7, <2>1, <2>2, <3>1, <3>2, <3>3
  <2>3. CASE /\ UNCHANGED store /\ form' = form /\ form = m
             /\ save' = [save EXCEPT ![m].pc = IF Home /\ Loaded THEN "told" ELSE "over"]
             /\ IF Home THEN Invalidate ELSE UNCHANGED fetch
    <3>1. Home /\ Home'
      BY <1>3, <2>3 DEF Home
    <3>2. Fetching'
      BY <2>3, <3>1, SentIsFetching
    <3>3. save'[m].pc \in {"told", "over"}
      BY <1>1, <2>3 DEF Save
    <3>4. QED
      BY <2>3, <3>1, <3>2, <3>3 DEF Awaited, AwaitsList
  <2>4. \/ /\ UNCHANGED store /\ form' = form
           /\ save' = [save EXCEPT ![m].pc = IF Home /\ Loaded THEN "told" ELSE "over"]
           /\ IF Home THEN Invalidate ELSE UNCHANGED fetch
        \/ Unauthorized(m) \/ EndSubmit(m)
    BY <1>4, <1>19 DEF SaveAnswered
  <2>5. UNCHANGED store => Home' = Home
    BY DEF Home
  <2>6. QED
    BY <2>2, <2>3, <2>4, <2>5, FormSet
<1>20. CASE Deliver \/ FetchFails
  <2>1. UNCHANGED <<store, login, save>> /\ form' = form
    BY <1>4, <1>20 DEF Deliver, FetchFails
  <2>2. Home' = Home
    BY <2>1 DEF Home
  <2>3. AwaitsList(form) => Fetching'
    BY <1>4, <1>20, SentIsFetching DEF Deliver, FetchFails
  <2>4. QED
    BY <1>3, <1>6, <2>1, <2>2, <2>3
<1>21. ASSUME UNCHANGED <<store, login, form, save>>, ~DeliverUnauthorized PROVE Awaited(form)'
  BY <1>11, <1>12, <1>21 DEF Home
<1>22. QED
  <2>1. CASE \/ TokenExpires \/ ServeList \/ Poll \/ Refocus \/ Collect
             \/ \E l \in LinkIds : Enrich(l)
             \/ UNCHANGED vars
    <3>1. UNCHANGED <<store, login, form, save>>
      BY <2>1 DEF TokenExpires, Expire, ServeList, Poll, Refocus, Collect, Enrich, session,
                  view, vars
    <3>2. QED
      BY <1>13, <1>21, <3>1
  <2>2. QED
    BY <1>12, <1>13, <1>14, <1>16, <1>17, <1>18, <1>19, <1>20, <2>1 DEF Next, ListStep, SaveStep

-----------------------------------------------------------------------------
(* The theorems                                                            *)

ClientInv ==
    /\ SessionInv
    /\ SaveInv
    /\ ViewInv
    /\ Server!TypeOK

\* Every step of the client leaves the rows of the server well-formed.
LEMMA ServerStep ==
    ASSUME Server!TypeOK, [Next]_vars
    PROVE  Server!TypeOK'
<1>1. ASSUME NEW l \in LinkIds, NEW m \in Saves,
             \/ Server!Save(l, m) \/ Server!Reprocess(l, m)
             \/ Server!Settle(l, m) \/ Server!Retire(l, m)
      PROVE  Server!TypeOK'
  BY <1>1 DEF Server!TypeOK, Server!Save, Server!Reprocess, Server!Settle, Server!Retire
<1>2. ASSUME UNCHANGED server PROVE Server!TypeOK'
  BY <1>2 DEF server, Server!TypeOK
<1>3. ASSUME NEW m \in Saves, ServeSave(m) PROVE Server!TypeOK'
  BY <1>1, <1>2, <1>3 DEF ServeSave
<1>4. ASSUME NEW l \in LinkIds, Enrich(l) PROVE Server!TypeOK'
  BY <1>1, <1>4 DEF Enrich
<1>5. QED
  BY <1>2, <1>3, <1>4 DEF Next, Session, Mount, TokenExpires, ListStep, ServeList, Deliver,
     DeliverUnauthorized, FetchFails, Poll, Refocus, Collect, Reload, QuickAdd, Retry, Send,
     SaveStep, SaveAnswered, vars

\* The invariant of the client holds at the start.
LEMMA ClientInit == Init => ClientInv
<1> SUFFICES ASSUME Init PROVE ClientInv
  OBVIOUS
<1>1. SessionInv
  BY DEF Init, SessionInit, SessionInv, SessionTypeOK, Login
<1>2. SaveInv /\ Told = {}
  BY DEF Init, SaveInv, SaveOK, Save, Told
<1>3. ViewInv
  <2>1. fetch = IdleFetch /\ list = NoList /\ failed = FALSE /\ faults \in 0 .. MaxFaults
    BY ViewAssumption DEF Init
  <2>2. fetch.pc = "idle" /\ ~Loaded
    BY <2>1, EmptyList DEF Loaded
  <2>3. QED
    BY <2>1, <2>2, EmptyList DEF ViewInv
<1>4. Server!TypeOK
  BY DEF Init, Server!Init, Server!TypeOK
<1>5. QED
  BY <1>1, <1>2, <1>3, <1>4 DEF ClientInv

\* The inductive invariant of the client: a request for the list that is
\* answered, and a list no request will replace, has every save in it the page
\* was told of.
THEOREM ClientInvariant == Spec => []ClientInv
<1>1. ClientInv /\ [Next]_vars => ClientInv'
  BY SessionInvStep, SaveInvStep, ViewInvStep, ServerStep DEF ClientInv
<1>2. QED
  BY <1>1, ClientInit, PTL DEF Spec

\* Type correctness of session, list and saves.
THEOREM ClientTypeCorrect == Spec => []TypeOK
<1>1. ClientInv => TypeOK
  BY DEF ClientInv, SessionInv, SaveInv, ViewInv, TypeOK
<1>2. QED
  BY <1>1, ClientInvariant, PTL

\* What the page was told was saved is in the list it shows, once no request
\* is under way and no error is shown, whatever logins, reloads, failed
\* requests and other saves come between.
THEOREM AnsweredAlwaysShown == Spec => []AnsweredIsShown
<1>1. ClientInv => AnsweredIsShown
  BY EmptyList DEF ClientInv, ViewInv, AnsweredIsShown, Fetching, Told, Fetch
<1>2. QED
  BY <1>1, ClientInvariant, PTL

\* Where the user shown is not the one of the token, it is that of another
\* login of the tab that is over: of none that is under way, or never was.
THEOREM SessionAlwaysExplained == Spec => []SessionExplained
<1>1. Init => StoryInv
  <2> SUFFICES ASSUME Init PROVE StoryInv
    OBVIOUS
  <2>1. ~Home /\ \A f \in Logins : login[f].pc = "new"
    BY DEF Init, SessionInit, LoggedOut, Home, AtHome
  <2>2. QED
    BY <2>1 DEF StoryInv, TokensEarned, SessionExplained
<1>2. ClientInv /\ StoryInv /\ [Next]_vars => StoryInv'
  BY StoryStep DEF ClientInv
<1>3. StoryInv => SessionExplained
  BY DEF StoryInv
<1>4. QED
  BY <1>1, <1>2, <1>3, ClientInvariant, PTL DEF Spec

\* A form that is disabled waits for a request that is under way: its submit,
\* or, once a quick-add is answered, the list asked for after it.
THEOREM FormsAlwaysWait == Spec => []FormWaits
<1>1. Init => FormWaits
  BY SessionAssumption DEF Init, SessionInit, FormWaits
<1>2. ClientInv /\ FormWaits /\ [Next]_vars => FormWaits'
  BY FormStep DEF ClientInv
<1>3. QED
  BY <1>1, <1>2, ClientInvariant, PTL DEF Spec

=============================================================================
