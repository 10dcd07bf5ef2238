---------------------------- MODULE SessionStore ----------------------------
(***************************************************************************)
(* The session of the web client (one tab): the persisted store of         *)
(* frontend/src/store/auth.store.ts, the interceptors of lib/axios.ts and  *)
(* the logins of api/auth.ts, started by LoginPage and RegisterPage.  A    *)
(* login is one of Logins and names the token it is given.  Its answers    *)
(* come in their own time, also when the page that asked has gone.         *)
(***************************************************************************)

CONSTANTS
    Users,
    Logins,    \* submits of a login or register form; each happens once
    UserOf,    \* of each login, whose credentials it sends
    Registers, \* those of RegisterPage
    Saves,     \* submits of the quick-add form and clicks on retry (LinksView)
    NULL

ASSUME SessionAssumption ==
    /\ NULL \notin Users
    /\ NULL \notin Logins
    /\ NULL \notin Saves
    /\ Logins \cap Saves = {}
    /\ UserOf \in [Logins -> Users]
    /\ Registers \subseteq Logins

VARIABLES
    store,     \* accessToken and user, persisted
    login,     \* the logins
    form,      \* the submit the form on the page is waiting for (isPending)
    expired    \* tokens the server answers with 401

session == <<store, login, form, expired>>

\* bearer is the token GET /auth/me was sent with.
Login == [pc     : {"new", "register", "login", "me", "over"},
          bearer : Logins \cup {NULL}]

LoggedOut == [token |-> NULL, user |-> NULL]

SessionTypeOK ==
    /\ store \in [token : Logins, user : Users] \cup {LoggedOut}
    /\ login \in [Logins -> Login]
    /\ form \in Logins \cup Saves \cup {NULL}
    /\ expired \subseteq Logins

SessionInit ==
    /\ store = LoggedOut
    /\ login = [f \in Logins |-> [pc |-> "new", bearer |-> NULL]]
    /\ form = NULL
    /\ expired = {}

\* ProtectedRoute, and the effect of the two forms: the token alone decides
\* between the dashboard and the forms.
AtHome(token) == token # NULL

Home == AtHome(store.token)

\* A page that is left takes its form along, and the pending state of it.
FormAfter(token, ended) ==
    IF form = ended \/ AtHome(token) # Home THEN NULL ELSE form

\* bearer is kept only while GET /auth/me is under way.
LoginGoesTo(f, pc) == login' = [login EXCEPT ![f].pc = pc, ![f].bearer = NULL]

\* set() of the store, by an answer that ends submit x.
SetStore(x, new) ==
    /\ store' = new
    /\ form' = FormAfter(new.token, x)

\* The response interceptor: a 401 to any request empties the store.
Unauthorized(x) == SetStore(x, LoggedOut)

\* An answer that ends submit x and is not a 401.
EndSubmit(x) == SetStore(x, store)

-----------------------------------------------------------------------------

\* handleSubmit and handleDemoLogin; the button is disabled while it waits.
Submit(f) ==
    /\ ~Home /\ form = NULL
    /\ login[f].pc = "new"
    /\ LoginGoesTo(f, IF f \in Registers THEN "register" ELSE "login")
    /\ form' = f
    /\ UNCHANGED <<store, expired>>

\* To the other form by its link: the mutation goes on without its page.
SwitchForm ==
    /\ form \in Logins
    /\ form' = NULL
    /\ UNCHANGED <<store, login, expired>>

\* RegisterPage: the login follows by itself; 409 and errors end the submit.
RegisterAnswered(f) ==
    /\ login[f].pc = "register"
    /\ \/ LoginGoesTo(f, "login") /\ UNCHANGED <<store, form>>
       \/ LoginGoesTo(f, "over") /\ EndSubmit(f)
    /\ UNCHANGED expired

\* Variant for FormReleased and FormWaits: a login that fails does not end the
\* submit.
LoginAnsweredHangs(f) ==
    /\ login[f].pc = "login"
    /\ \/ /\ login' = [login EXCEPT ![f].pc = "me",
                 ![f].bearer = IF Home THEN store.token ELSE f]
          /\ UNCHANGED <<store, form>>
       \/ LoginGoesTo(f, "over") /\ UNCHANGED <<store, form>>
    /\ UNCHANGED expired

\* POST /auth/login.  The request interceptor puts the token of the store, if
\* there is one, over the header useLogin gives to GET /auth/me.
LoginAnswered(f) ==
    /\ login[f].pc = "login"
    /\ \/ /\ login' = [login EXCEPT ![f].pc = "me",
                 ![f].bearer = IF Home THEN store.token ELSE f]
          /\ UNCHANGED <<store, form>>
       \/ /\ LoginGoesTo(f, "over")
          /\ Unauthorized(f) \/ EndSubmit(f)
    /\ UNCHANGED expired

\* Variant for TypeOK and SessionExplained: the store is set before the answer
\* of GET /auth/me.
MeAnsweredTokenOnly(f) ==
    /\ login[f].pc = "me"
    /\ LoginGoesTo(f, "over")
    /\ SetStore(f, [token |-> f, user |-> NULL])
    /\ UNCHANGED expired

\* GET /auth/me: the token is f's, the user is the one of the bearer.
MeAnswered(f) ==
    /\ login[f].pc = "me"
    /\ LoginGoesTo(f, "over")
    /\ \/ SetStore(f, [token |-> f, user |-> UserOf[login[f].bearer]])
       \/ login[f].bearer \in expired /\ Unauthorized(f)
       \/ EndSubmit(f)
    /\ UNCHANGED expired

\* The button of UserBadge.
Logout ==
    /\ Home
    /\ Unauthorized(NULL)
    /\ UNCHANGED <<login, expired>>

\* The token runs out on the server; the client is not told.
Expire ==
    /\ Home
    /\ store.token \notin expired
    /\ expired' = expired \cup {store.token}
    /\ UNCHANGED <<store, login, form>>

\* The tab is reloaded: logins under way are gone, the store is not.
ReloadSession ==
    /\ login' = [f \in Logins |->
                    IF login[f].pc = "new" THEN login[f]
                        ELSE [login[f] EXCEPT !.pc = "over", !.bearer = NULL]]
    /\ form' = NULL
    /\ UNCHANGED <<store, expired>>

LoginStep(f) == RegisterAnswered(f) \/ LoginAnswered(f) \/ MeAnswered(f)

SessionStep ==
    \/ \E f \in Logins : Submit(f) \/ LoginStep(f)
    \/ SwitchForm
    \/ Logout

-----------------------------------------------------------------------------
(* Properties                                                              *)

\* api/auth.ts:22-23: useLogin gets the user that belongs to the token and
\* stores the two together, so the badge names whose links the token shows.
SessionConsistent == Home => store.user = UserOf[store.token]

\* Where token and user do not belong together, the user is that of another
\* login of this tab that is over (lib/axios.ts:11-13 puts the token of the
\* store over that of the login): never of one under way, or of none.
SessionExplained ==
    Home /\ store.user # UserOf[store.token] =>
        \E f \in Logins \ {store.token} :
            login[f].pc = "over" /\ UserOf[f] = store.user

\* No form stays disabled: each submit ends, or its page is left.
FormReleased == form # NULL ~> form = NULL

=============================================================================
