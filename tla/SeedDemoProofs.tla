--------------------------- MODULE SeedDemoProofs ---------------------------
(***************************************************************************)
(* Proofs about the accounts (AuthService) and the demo script (SeedDemo): *)
(* an address has one account, answers stay true, a refused registration   *)
(* lost to another, one run of the script at most makes links, and a run   *)
(* that ends well leaves every one of them complete.                       *)
(***************************************************************************)
EXTENDS SeedDemo, SequenceTheorems, TLAPS

-----------------------------------------------------------------------------
(* The table User                                                          *)

UsersOK ==
    /\ users \in [Users -> Account \cup {NoAccount}]
    /\ \A u, v \in Users : users[u] # NoAccount /\ HasAccount(v, users[u].email) => u = v

\* No address and no password is NULL.
LEMMA AccountSet ==
    ASSUME NEW a \in Account \cup {NoAccount}
    PROVE  /\ a = NoAccount <=> a.email = NULL
           /\ a # NoAccount => a.email \in AnyEmail /\ a.password \in AnyPassword
  BY AuthAssumption DEF Account, NoAccount

\* What an INSERT does that breaks no constraint.
LEMMA InsertKeeps ==
    ASSUME UsersOK, NEW e \in AnyEmail, NEW p \in AnyPassword, NEW u \in Users,
           InsertUser(u, e, p), ~Taken(e)
    PROVE  /\ UsersOK'
           /\ users'[u].email = e /\ users'[u].password = p
           /\ \A v \in Users \ {u} : users'[v] = users[v]
           /\ users[u].email = NULL
<1> DEFINE row == [email |-> e, password |-> p]
<1>1. /\ row \in Account /\ row # NoAccount /\ row.email = e /\ row.password = p
      /\ NoAccount.email = NULL
  BY AuthAssumption DEF Account, NoAccount
<1> HIDE DEF row
<1>2. /\ users \in [Users -> Account \cup {NoAccount}]
      /\ users' = [users EXCEPT ![u] = row]
      /\ users[u] = NoAccount
  BY DEF UsersOK, InsertUser, row
<1>3. /\ users'[u] = row
      /\ \A v \in Users \ {u} : users'[v] = users[v]
      /\ users' \in [Users -> Account \cup {NoAccount}]
  BY <1>1, <1>2
<1>4. ASSUME NEW v \in Users, NEW w \in Users, users'[v] # NoAccount,
             users'[w].email = users'[v].email
      PROVE  v = w
  <2>1. users'[v].email # NULL
    BY <1>3, <1>4, AccountSet
  <2>2. \A x \in Users : users[x].email # e
    BY DEF Taken, HasAccount
  <2>3. CASE v # u /\ w # u
    BY <1>3, <1>4, <2>3 DEF UsersOK, HasAccount
  <2>4. CASE v = u /\ w # u
    BY <1>1, <1>3, <1>4, <2>2, <2>4
  <2>5. CASE v # u /\ w = u
    BY <1>1, <1>3, <1>4, <2>2, <2>5
  <2>6. QED
    BY <2>3, <2>4, <2>5
<1>5. QED
  BY <1>1, <1>2, <1>3, <1>4 DEF UsersOK, HasAccount

-----------------------------------------------------------------------------
(* The calls                                                               *)

\* What is known of one call.
CallOK(c) ==
    /\ call[c].pc # "done" => call[c].user = NULL /\ call[c].code = NULL
    /\ call[c].pc = "insert" =>
          call[c].op = "register" /\ call[c].email \in Emails /\ call[c].password \in Passwords
    /\ call[c].code \in {"200", "201"} => call[c].user # NULL
    /\ call[c].code \in {"201", "409"} => call[c].op = "register"
    /\ call[c].code = "409" => call[c].email \in Emails /\ Taken(call[c].email)
    /\ call[c].user # NULL =>
          /\ HasAccount(call[c].user, call[c].email)
          /\ call[c].email \in AnyEmail
          /\ call[c].op # "me" => users[call[c].user].password = call[c].password

\* Every account for an address that can be registered was told to a 201, or
\* the answer of its INSERT was lost.
AccountsTold ==
    \A u \in Users : users[u].email \in Emails =>
        \E d \in Calls : MayHaveMade(d, users[u].email)

ToldOnce ==
    \A c, d \in Calls :
        call[c].code = "201" /\ call[d].code = "201" /\ call[c].email = call[d].email => c = d

AuthInv ==
    /\ UsersOK
    /\ call \in [Calls -> Call]
    /\ dbErrors \in Nat
    /\ \A c \in Calls : CallOK(c)
    /\ AccountsTold
    /\ ToldOnce

\* NULL is no account, no address and no code.
LEMMA NullIsNoAnswer ==
    /\ NULL \notin Users /\ NULL \notin AnyEmail
    /\ NULL # "200" /\ NULL # "201" /\ NULL # "409" /\ NULL # "500"
  BY TablesAssumption, AuthAssumption DEF AuthCode

\* Statements that fail are only ever counted up.
LEMMA ErrorsGrow ==
    ASSUME [Next]_vars, dbErrors \in Nat
    PROVE  dbErrors' \in Nat /\ (dbErrors' = 0 => dbErrors = 0)
<1>1. ASSUME NEW c \in Calls, CallStep(c)
      PROVE  dbErrors' \in Nat /\ (dbErrors' = 0 => dbErrors = 0)
  <2>1. ASSUME NEW email \in Emails, NEW password \in Passwords,
               Register(c, email, password)
        PROVE  dbErrors' \in {dbErrors, dbErrors + 1}
    BY <2>1 DEF Register, Succeeds, Throws
  <2>2. ASSUME NEW email \in AnyEmail, NEW password \in AnyPassword,
               Login(c, email, password)
        PROVE  dbErrors' \in {dbErrors, dbErrors + 1}
    BY <2>2 DEF Login, Succeeds, Throws
  <2>3. CreateUser(c) => dbErrors' \in {dbErrors, dbErrors + 1}
    BY DEF CreateUser, Succeeds, Throws, AnswerLost
  <2>4. ASSUME NEW d \in Calls, Me(c, d)
        PROVE  dbErrors' \in {dbErrors, dbErrors + 1}
    BY <2>4 DEF Me, Succeeds, Throws
  <2>5. dbErrors' \in {dbErrors, dbErrors + 1}
    BY <1>1, <2>1, <2>2, <2>3, <2>4 DEF CallStep
  <2>6. QED
    BY <2>5
<1>2. ASSUME NEW s \in Reqs, SeedStep(s)
      PROVE  dbErrors' \in Nat /\ (dbErrors' = 0 => dbErrors = 0)
  BY <1>2 DEF SeedStep, Start, CreateDemoUser, CreateDemoLink, TagsReplaced, Succeeds,
              Throws, tables, AnswerLost
<1>3. ASSUME NEW s \in Reqs, ReplStep(s)
      PROVE  dbErrors' \in Nat /\ (dbErrors' = 0 => dbErrors = 0)
  BY <1>3 DEF ReplStep, UpsertSelect, UpsertInsert, UpsertRefind, DeleteTagRows,
              CreateTagRows, Succeeds, Throws, AnswerLost, ReplGoesTo
<1>4. CASE (\E s \in Reqs : Kill(s)) \/ UNCHANGED vars
  BY <1>4 DEF Kill, tables, vars
<1>5. QED
  BY <1>1, <1>2, <1>3, <1>4 DEF Next

\* Calls that are there stay as they are when one is answered that names an
\* account that is there, or nobody.
LEMMA AnswerKeeps ==
    ASSUME AuthInv, UNCHANGED users, [Next]_vars, NEW c \in Calls, NEW rec \in Call,
           call' = [call EXCEPT ![c] = rec], call[c].code = NULL,
           rec.code # "201", CallOK(c)'
    PROVE  AuthInv'
<1>1. /\ call \in [Calls -> Call]
      /\ call'[c] = rec
      /\ \A d \in Calls \ {c} : call'[d] = call[d]
      /\ call' \in [Calls -> Call]
  BY DEF AuthInv
<1>2. UsersOK'
  BY DEF AuthInv, UsersOK, HasAccount
<1>3. ASSUME NEW d \in Calls
      PROVE  CallOK(d)'
  BY <1>1 DEF AuthInv, CallOK, HasAccount, Taken
<1>4. dbErrors' \in Nat /\ (dbErrors > 0 => dbErrors' > 0)
  BY ErrorsGrow DEF AuthInv
<1>5. ASSUME NEW d \in Calls, NEW e, MayHaveMade(d, e)
      PROVE  MayHaveMade(d, e)'
  <2>1. d # c
    BY <1>5, NullIsNoAnswer DEF MayHaveMade
  <2>2. QED
    BY <1>1, <1>4, <1>5, <2>1 DEF MayHaveMade, HasAccount
<1>6. AccountsTold'
  BY <1>5 DEF AuthInv, AccountsTold
<1>7. ToldOnce'
  BY <1>1 DEF AuthInv, ToldOnce
<1>8. QED
  BY <1>1, <1>2, <1>3, <1>4, <1>6, <1>7 DEF AuthInv

\* The step leaves accounts and calls alone.
LEMMA OthersKeep ==
    ASSUME AuthInv, [Next]_vars, UNCHANGED <<users, call>>
    PROVE  AuthInv'
<1>1. dbErrors' \in Nat /\ (dbErrors > 0 => dbErrors' > 0)
  BY ErrorsGrow DEF AuthInv
<1>2. UsersOK' /\ (call \in [Calls -> Call])' /\ ToldOnce'
  BY DEF AuthInv, UsersOK, ToldOnce, HasAccount
<1>3. \A c \in Calls : CallOK(c)'
  BY DEF AuthInv, CallOK, HasAccount, Taken
<1>4. AccountsTold'
  BY <1>1 DEF AuthInv, AccountsTold, MayHaveMade, HasAccount
<1>5. QED
  BY <1>1, <1>2, <1>3, <1>4 DEF AuthInv

-----------------------------------------------------------------------------
(* The steps of the API                                                    *)

Done(op, email, password, user, code) ==
    [pc |-> "done", op |-> op, email |-> email, password |-> password,
     user |-> user, code |-> code]

\* A call that names nobody is answered.
LEMMA NobodyNamed ==
    ASSUME AuthInv, UNCHANGED users, [Next]_vars, NEW c \in Calls, call[c].code = NULL,
           NEW op \in {"register", "login", "me"}, NEW email \in AnyEmail \cup {NULL},
           NEW password \in AnyPassword \cup {NULL}, NEW code \in {"401", "409", "500"},
           AnswerCall(c, op, email, password, NULL, code),
           code = "409" => op = "register" /\ email \in Emails /\ Taken(email)
    PROVE  AuthInv'
<1> DEFINE rec == Done(op, email, password, NULL, code)
<1>1. /\ rec \in Call
      /\ rec.pc = "done" /\ rec.op = op /\ rec.email = email
      /\ rec.user = NULL /\ rec.code = code
  BY DEF Done, Call, AuthCode
<1>2. call' = [call EXCEPT ![c] = rec]
  BY DEF AnswerCall, Done
<1> HIDE DEF rec
<1>3. call'[c] = rec
  BY <1>2 DEF AuthInv
<1>4. CallOK(c)'
  BY <1>1, <1>3 DEF CallOK, Taken, HasAccount
<1>5. QED
  BY <1>1, <1>2, <1>4, AnswerKeeps

\* A call is answered that names an account with what it was given.
LEMMA AccountNamed ==
    ASSUME AuthInv, UNCHANGED users, [Next]_vars, NEW c \in Calls, call[c].code = NULL,
           NEW op \in {"login", "me"}, NEW u \in Users, NEW email \in AnyEmail,
           NEW password \in AnyPassword \cup {NULL}, users[u].email = email,
           op = "login" => users[u].password = password,
           AnswerCall(c, op, email, password, u, "200")
    PROVE  AuthInv'
<1> DEFINE rec == Done(op, email, password, u, "200")
<1>1. /\ rec \in Call
      /\ rec.pc = "done" /\ rec.op = op /\ rec.email = email /\ rec.password = password
      /\ rec.user = u /\ rec.code = "200"
  BY DEF Done, Call, AuthCode
<1>2. call' = [call EXCEPT ![c] = rec]
  BY DEF AnswerCall, Done
<1> HIDE DEF rec
<1>3. call'[c] = rec
  BY <1>2 DEF AuthInv
<1>4. CallOK(c)'
  BY <1>1, <1>3, NullIsNoAnswer DEF CallOK, HasAccount
<1>5. QED
  BY <1>1, <1>2, <1>4, AnswerKeeps

\* The first statement of a registration keeps the invariant.
LEMMA RegisterKeeps ==
    ASSUME AuthInv, [Next]_vars, NEW c \in Calls, NEW email \in Emails,
           NEW password \in Passwords, Register(c, email, password)
    PROVE  AuthInv'
<1>1. /\ call[c].pc = "new"
      /\ UNCHANGED users
      /\ call[c].code = NULL
      /\ email \in AnyEmail /\ password \in AnyPassword
  BY DEF Register, AuthInv, CallOK, AnyEmail, AnyPassword
<1>2. CASE HoldCall(c, email, password)
  <2> DEFINE rec == [pc |-> "insert", op |-> "register", email |-> email,
                     password |-> password, user |-> NULL, code |-> NULL]
  <2>1. /\ rec \in Call
        /\ rec.pc = "insert" /\ rec.op = "register" /\ rec.email = email
        /\ rec.password = password /\ rec.user = NULL /\ rec.code = NULL
    BY <1>1 DEF Call
  <2>2. call' = [call EXCEPT ![c] = rec]
    BY <1>2 DEF HoldCall
  <2> HIDE DEF rec
  <2>3. call'[c] = rec
    BY <2>2 DEF AuthInv
  <2>4. CallOK(c)'
    BY <2>1, <2>3, NullIsNoAnswer DEF CallOK
  <2>5. QED
    BY <1>1, <2>1, <2>2, <2>4, NullIsNoAnswer, AnswerKeeps
<1>3. CASE Taken(email) /\ AnswerCall(c, "register", email, password, NULL, "409")
  BY <1>1, <1>3, NobodyNamed
<1>4. CASE AnswerCall(c, "register", email, password, NULL, "500")
  BY <1>1, <1>4, NobodyNamed
<1>5. QED
  BY <1>2, <1>3, <1>4 DEF Register, Succeeds

\* A login keeps the invariant.
LEMMA LoginKeeps ==
    ASSUME AuthInv, [Next]_vars, NEW c \in Calls, NEW email \in AnyEmail,
           NEW password \in AnyPassword, Login(c, email, password)
    PROVE  AuthInv'
<1>1. UNCHANGED users /\ call[c].code = NULL
  BY DEF Login, AuthInv, CallOK
<1>2. ASSUME NEW u \in Users, users[u] = [email |-> email, password |-> password],
             AnswerCall(c, "login", email, password, u, "200")
      PROVE  AuthInv'
  BY <1>1, <1>2, AccountNamed
<1>3. ASSUME NEW code \in {"401", "500"}, AnswerCall(c, "login", email, password, NULL, code)
      PROVE  AuthInv'
  BY <1>1, <1>3, NobodyNamed
<1>4. QED
  BY <1>2, <1>3 DEF Login, Succeeds

\* A me keeps the invariant.
LEMMA MeKeeps ==
    ASSUME AuthInv, [Next]_vars, NEW c \in Calls, NEW d \in Calls, Me(c, d)
    PROVE  AuthInv'
<1>1. UNCHANGED users /\ call[c].code = NULL
  BY DEF Me, AuthInv, CallOK
<1>2. PICK u \in Users : u = call[d].user
  BY DEF Me, AuthInv, CallOK, Call
<1>3. ASSUME users[u] # NoAccount, AnswerCall(c, "me", users[u].email, NULL, u, "200")
      PROVE  AuthInv'
  <2>1. users[u] \in Account \cup {NoAccount}
    BY DEF AuthInv, UsersOK
  <2>2. PICK email \in AnyEmail : email = users[u].email
    BY <1>3, <2>1, AccountSet
  <2>3. AnswerCall(c, "me", email, NULL, u, "200")
    BY <1>3, <2>2
  <2>4. QED
    BY <1>1, <2>2, <2>3, AccountNamed
<1>4. ASSUME NEW code \in {"401", "500"}, AnswerCall(c, "me", NULL, NULL, NULL, code)
      PROVE  AuthInv'
  BY <1>1, <1>4, NobodyNamed
<1>5. QED
  BY <1>2, <1>3, <1>4 DEF Me, Succeeds

-----------------------------------------------------------------------------
(* The two INSERTs                                                         *)

\* An INSERT disturbs no account a call was told.
LEMMA InsertKeepsCalls ==
    ASSUME AuthInv, NEW e \in AnyEmail, NEW p \in AnyPassword, NEW u \in Users,
           InsertUser(u, e, p), ~Taken(e), NEW d \in Calls, call[d].user # NULL
    PROVE  /\ call[d].user \in Users
           /\ users'[call[d].user] = users[call[d].user]
<1>1. call[d].user \in Users
  BY DEF AuthInv, Call
<1>2. users[call[d].user].email # NULL
  BY NullIsNoAnswer DEF AuthInv, CallOK, HasAccount
<1>3. users[u].email = NULL /\ \A v \in Users \ {u} : users'[v] = users[v]
  BY InsertKeeps DEF AuthInv
<1>4. QED
  BY <1>1, <1>2, <1>3

\* A taken address stays taken.
LEMMA TakenStays ==
    ASSUME AuthInv, NEW e \in AnyEmail, NEW p \in AnyPassword, NEW u \in Users,
           InsertUser(u, e, p), ~Taken(e), NEW x \in AnyEmail, Taken(x)
    PROVE  Taken(x)'
<1>1. PICK v \in Users : users[v].email = x
  BY DEF Taken, HasAccount
<1>2. v # u
  BY <1>1, InsertKeeps, NullIsNoAnswer DEF AuthInv
<1>3. users'[v] = users[v]
  BY <1>2, InsertKeeps DEF AuthInv
<1>4. QED
  BY <1>1, <1>3 DEF Taken, HasAccount

\* The INSERT of a registration keeps the invariant.
LEMMA CreateUserKeeps ==
    ASSUME AuthInv, [Next]_vars, NEW c \in Calls, CreateUser(c)
    PROVE  AuthInv'
<1>1. /\ call[c].pc = "insert" /\ call[c].op = "register" /\ call[c].code = NULL
      /\ dbErrors \in Nat
  BY DEF CreateUser, AuthInv, CallOK
<1>2. PICK e \in Emails, p \in Passwords : e = call[c].email /\ p = call[c].password
  BY <1>1 DEF AuthInv, CallOK
<1>3. e \in AnyEmail /\ p \in AnyPassword
  BY DEF AnyEmail, AnyPassword
<1>4. ASSUME AnswerCall(c, "register", e, p, NULL, "500"), UNCHANGED users
      PROVE  AuthInv'
  BY <1>1, <1>3, <1>4, NobodyNamed
<1>5. ASSUME NEW u \in Users, ~Taken(e), InsertUser(u, e, p),
             NEW k \in {u, NULL}, NEW code \in {"201", "500"},
             AnswerCall(c, "register", e, p, k, code),
             \/ k = u /\ code = "201"
             \/ k = NULL /\ code = "500" /\ dbErrors' > 0
      PROVE  AuthInv'
  <2> DEFINE rec == Done("register", e, p, k, code)
  <2>1. /\ rec \in Call
        /\ rec.pc = "done" /\ rec.op = "register" /\ rec.email = e /\ rec.password = p
        /\ rec.user = k /\ rec.code = code
    BY <1>3, <1>5 DEF Done, Call, AuthCode
  <2>2. call' = [call EXCEPT ![c] = rec]
    BY <1>5 DEF AnswerCall, Done
  <2> HIDE DEF rec
  <2>3. /\ call' \in [Calls -> Call]
        /\ call'[c] = rec
        /\ \A d \in Calls \ {c} : call'[d] = call[d]
    BY <2>1, <2>2 DEF AuthInv
  <2>4. /\ UsersOK'
        /\ users'[u].email = e /\ users'[u].password = p
        /\ \A v \in Users \ {u} : users'[v] = users[v]
    BY <1>3, <1>5, InsertKeeps DEF AuthInv
  <2>5. \A d \in Calls : call[d].user # NULL =>
            call[d].user \in Users /\ users'[call[d].user] = users[call[d].user]
    BY <1>3, <1>5, InsertKeepsCalls
  <2>6. \A x \in AnyEmail : Taken(x) => Taken(x)'
    BY <1>3, <1>5, TakenStays
  <2>7. ASSUME NEW d \in Calls PROVE CallOK(d)'
    <3>1. CASE d = c
      BY <1>3, <1>5, <2>1, <2>3, <2>4, <3>1, NullIsNoAnswer DEF CallOK, HasAccount
    <3>2. CASE d # c
      BY <2>3, <2>5, <2>6, <3>2 DEF AuthInv, CallOK, HasAccount, AnyEmail
    <3>3. QED
      BY <3>1, <3>2
  <2>8. dbErrors' \in Nat /\ (dbErrors > 0 => dbErrors' > 0)
    BY ErrorsGrow DEF AuthInv
  <2>9. ASSUME NEW d \in Calls, NEW x, MayHaveMade(d, x)
        PROVE  MayHaveMade(d, x)'
    <3>1. d # c
      BY <1>1, <2>9, NullIsNoAnswer DEF MayHaveMade
    <3>2. call[d].code = "201" => call[d].user # NULL
      BY DEF AuthInv, CallOK
    <3>3. QED
      BY <2>3, <2>5, <2>8, <2>9, <3>1, <3>2 DEF MayHaveMade, HasAccount
  <2>10. MayHaveMade(c, e)'
    BY <1>5, <2>1, <2>3, <2>4 DEF MayHaveMade, HasAccount
  <2>11. AccountsTold'
    BY <2>4, <2>9, <2>10 DEF AuthInv, AccountsTold
  <2>12. ASSUME NEW d \in Calls, call[d].code = "201" PROVE call[d].email # e
    <3>1. call[d].user # NULL /\ users[call[d].user].email = call[d].email
      BY <2>12 DEF AuthInv, CallOK, HasAccount
    <3>2. QED
      BY <1>5, <2>5, <3>1 DEF Taken, HasAccount
  <2>13. ToldOnce'
    BY <2>1, <2>3, <2>12 DEF AuthInv, ToldOnce
  <2>14. QED
    BY <2>3, <2>4, <2>7, <2>8, <2>11, <2>13 DEF AuthInv
<1>6. AnswerLost(~Taken(e)) => ~Taken(e) /\ dbErrors' > 0
  BY <1>1 DEF AnswerLost
<1>7. QED
  BY <1>2, <1>4, <1>5, <1>6 DEF CreateUser, Succeeds

\* The account of the demo is nobody's registration.
LEMMA DemoAccountKeeps ==
    ASSUME AuthInv, [Next]_vars, NEW u \in Users, ~Taken(DemoEmail),
           InsertUser(u, DemoEmail, DemoPassword), UNCHANGED call
    PROVE  AuthInv'
<1>1. DemoEmail \in AnyEmail /\ DemoPassword \in AnyPassword /\ DemoEmail \notin Emails
  BY AuthAssumption DEF AnyEmail, AnyPassword
<1>2. /\ UsersOK'
      /\ users'[u].email = DemoEmail
      /\ \A v \in Users \ {u} : users'[v] = users[v]
  BY <1>1, InsertKeeps DEF AuthInv
<1>3. \A d \in Calls : call[d].user # NULL =>
          call[d].user \in Users /\ users'[call[d].user] = users[call[d].user]
  BY <1>1, InsertKeepsCalls
<1>4. \A d \in Calls : CallOK(d)'
  BY <1>1, <1>3, TakenStays DEF AuthInv, CallOK, HasAccount, AnyEmail
<1>5. dbErrors' \in Nat /\ (dbErrors > 0 => dbErrors' > 0)
  BY ErrorsGrow DEF AuthInv
<1>6. ASSUME NEW d \in Calls, NEW x, MayHaveMade(d, x)
      PROVE  MayHaveMade(d, x)'
  <2>1. call[d].code = "201" => call[d].user # NULL
    BY DEF AuthInv, CallOK
  <2>2. QED
    BY <1>3, <1>5, <1>6, <2>1 DEF MayHaveMade, HasAccount
<1>7. AccountsTold' /\ ToldOnce'
  BY <1>1, <1>2, <1>6 DEF AuthInv, AccountsTold, ToldOnce
<1>8. QED
  BY <1>2, <1>4, <1>5, <1>7 DEF AuthInv

-----------------------------------------------------------------------------
(* The theorems about accounts                                             *)

\* The invariant of the accounts holds at the start.
LEMMA AuthInvInit == Init => AuthInv
<1> SUFFICES ASSUME Init PROVE AuthInv
  OBVIOUS
<1>1. /\ users = [u \in Users |-> NoAccount]
      /\ call = [c \in Calls |-> NewCall]
      /\ dbErrors = 0
  BY DEF Init, AuthInit, TablesInit
<1>2. NewCall \in Call /\ NewCall.user = NULL /\ NewCall.code = NULL /\ NewCall.pc = "new"
  BY DEF NewCall, Call
<1>3. \A u \in Users : users[u] = NoAccount /\ users[u].email = NULL
  BY <1>1 DEF NoAccount
<1>4. UsersOK
  BY <1>1, <1>3 DEF UsersOK
<1>5. call \in [Calls -> Call] /\ \A c \in Calls : call[c] = NewCall
  BY <1>1, <1>2
<1>6. \A c \in Calls : CallOK(c)
  BY <1>2, <1>5, NullIsNoAnswer DEF CallOK
<1>7. AccountsTold
  BY <1>3, NullIsNoAnswer DEF AccountsTold, AnyEmail
<1>8. ToldOnce
  BY <1>2, <1>5, NullIsNoAnswer DEF ToldOnce
<1>9. QED
  BY <1>1, <1>4, <1>5, <1>6, <1>7, <1>8 DEF AuthInv

\* Every step keeps the invariant of the accounts.
LEMMA AuthInvStep == AuthInv /\ [Next]_vars => AuthInv'
<1> SUFFICES ASSUME AuthInv, [Next]_vars PROVE AuthInv'
  OBVIOUS
<1>1. ASSUME NEW c \in Calls, CallStep(c) PROVE AuthInv'
  BY <1>1, RegisterKeeps, LoginKeeps, CreateUserKeeps, MeKeeps DEF CallStep
<1>2. ASSUME NEW s \in Reqs, SeedStep(s), UNCHANGED call PROVE AuthInv'
  <2>1. CASE UNCHANGED users
    BY <1>2, <2>1, OthersKeep
  <2>2. CASE \E u \in Users : ~Taken(DemoEmail) /\ InsertUser(u, DemoEmail, DemoPassword)
    BY <1>2, <2>2, DemoAccountKeeps
  <2>3. QED
    BY <1>2, <2>1, <2>2 DEF SeedStep, Start, CreateDemoUser, CreateDemoLink, TagsReplaced,
                            Succeeds, AnswerLost
<1>3. CASE UNCHANGED <<users, call>>
  BY <1>3, OthersKeep
<1>4. QED
  BY <1>1, <1>2, <1>3 DEF Next, Kill, vars

\* The inductive invariant of the accounts: besides what is promised below,
\* an account that can be registered was told to the call that made it, or lost
\* its answer, so that a call that finds its address taken has somebody to lose
\* to.
THEOREM AccountsInvariant == Spec => []AuthInv
<1>1. QED
  BY AuthInvInit, AuthInvStep, PTL DEF Spec

\* However registrations and runs of the script overlap, an address has one
\* account, told to one registration.
THEOREM AddressesTakenOnce == Spec => []AddressTakenOnce
<1>1. AuthInv => AddressTakenOnce
  BY DEF AuthInv, UsersOK, ToldOnce, AddressTakenOnce
<1>2. QED
  BY <1>1, AccountsInvariant, PTL

\* What register, login and me answered stays true.
THEOREM AnswersAlwaysStand == Spec => []AnswersStand
<1>1. AuthInv => AnswersStand
  BY DEF AuthInv, CallOK, AnswersStand
<1>2. QED
  BY <1>1, AccountsInvariant, PTL

\* A registration is told 409 only if another one has made the account of its
\* address, told or unheard.
THEOREM RefusalsMeanTaken == Spec => []RefusalMeansTaken
<1>1. ASSUME AuthInv, NEW c \in Calls, call[c].code = "409"
      PROVE  /\ Taken(call[c].email)
             /\ \E d \in Calls \ {c} : MayHaveMade(d, call[c].email)
  <2>1. call[c].email \in Emails /\ Taken(call[c].email)
    BY <1>1 DEF AuthInv, CallOK
  <2>2. PICK d \in Calls : MayHaveMade(d, call[c].email)
    BY <1>1, <2>1 DEF AuthInv, AccountsTold, Taken, HasAccount
  <2>3. d # c
    BY <1>1, <2>2 DEF MayHaveMade
  <2>4. QED
    BY <2>1, <2>2, <2>3
<1>2. AuthInv => RefusalMeansTaken
  BY <1>1 DEF RefusalMeansTaken
<1>3. QED
  BY <1>2, AccountsInvariant, PTL

-----------------------------------------------------------------------------
(* The runs of the demo script                                             *)

\* What is known of one run: the account it made is the demo account, and its
\* links are there, different from each other and of that account.
RunOK(s) ==
    /\ seed[s].user # NULL => HasAccount(seed[s].user, DemoEmail)
    /\ seed[s].pc \in {"link", "tags"} \/ seed[s].made # <<>> => seed[s].user # NULL
    /\ \A i \in 1 .. Len(seed[s].made) :
          /\ links[seed[s].made[i]].userId = seed[s].user
          /\ links[seed[s].made[i]].status # "unborn"
          /\ \A j \in 1 .. Len(seed[s].made) : seed[s].made[i] = seed[s].made[j] => i = j

SeedInv ==
    /\ seed \in [Reqs -> Seed]
    /\ links \in [LinkIds -> LinkRow]
    /\ \A s \in Reqs : RunOK(s)
    /\ \A s, t \in Reqs : seed[s].user # NULL /\ seed[t].user # NULL => s = t

\* Accounts keep their address.
LEMMA AddressesStay ==
    ASSUME AuthInv, [Next]_vars, NEW u \in Users, users[u].email # NULL
    PROVE  users'[u] = users[u]
<1>1. ASSUME NEW e \in AnyEmail, NEW p \in AnyPassword, NEW v \in Users, InsertUser(v, e, p),
             ~Taken(e)
      PROVE  users'[u] = users[u]
  BY <1>1, InsertKeeps DEF AuthInv
<1>2. ASSUME NEW c \in Calls, CreateUser(c) PROVE users'[u] = users[u]
  <2>1. call[c].email \in AnyEmail /\ call[c].password \in AnyPassword
    BY <1>2 DEF CreateUser, AuthInv, CallOK, AnyEmail, AnyPassword
  <2>2. QED
    BY <1>1, <1>2, <2>1 DEF CreateUser, Succeeds, AnswerLost
<1>3. ASSUME NEW s \in Reqs, CreateDemoUser(s) PROVE users'[u] = users[u]
  <2>1. DemoEmail \in AnyEmail /\ DemoPassword \in AnyPassword
    BY DEF AnyEmail, AnyPassword
  <2>2. QED
    BY <1>1, <1>3, <2>1 DEF CreateDemoUser, Succeeds, AnswerLost
<1>4. ASSUME NEW c \in Calls, CallStep(c) PROVE users'[u] = users[u]
  BY <1>2, <1>4 DEF CallStep, Register, Login, Me
<1>5. ASSUME NEW s \in Reqs, SeedStep(s) PROVE users'[u] = users[u]
  BY <1>3, <1>5 DEF SeedStep, Start, CreateDemoLink, TagsReplaced
<1>6. QED
  BY <1>4, <1>5 DEF Next, Kill, vars

\* A run that only moves on, or does not move.
LEMMA SeedMovesKeep ==
    ASSUME AuthInv, SeedInv, [Next]_vars, UNCHANGED links, NEW s \in Reqs, NEW pc \in SeedPc,
           SeedGoesTo(s, pc) \/ UNCHANGED seed,
           pc \in {"link", "tags"} => seed[s].user # NULL
    PROVE  SeedInv'
<1>1. /\ seed' \in [Reqs -> Seed]
      /\ \A t \in Reqs : seed'[t].user = seed[t].user /\ seed'[t].made = seed[t].made
      /\ \A t \in Reqs : seed'[t].pc = seed[t].pc \/ (t = s /\ seed'[t].pc = pc)
  <2>1. seed \in [Reqs -> Seed] /\ \A t \in Reqs : seed[t] \in Seed
    BY DEF SeedInv
  <2>2. CASE UNCHANGED seed
    BY <2>1, <2>2
  <2>3. CASE SeedGoesTo(s, pc)
    <3>1. [seed[s] EXCEPT !.pc = pc] \in Seed
      BY <2>1 DEF Seed
    <3>2. seed' = [seed EXCEPT ![s] = [seed[s] EXCEPT !.pc = pc]]
      BY <2>3 DEF SeedGoesTo
    <3>3. QED
      BY <2>1, <3>1, <3>2 DEF Seed
  <2>4. QED
    BY <2>2, <2>3
<1>2. ASSUME NEW t \in Reqs, seed[t].user # NULL
      PROVE  users'[seed[t].user].email = DemoEmail
  <2>1. PICK u \in Users : u = seed[t].user
    BY <1>2 DEF SeedInv, Seed
  <2>2. users[u].email = DemoEmail
    BY <1>2, <2>1 DEF SeedInv, RunOK, HasAccount
  <2>3. users'[u] = users[u]
    BY <2>2, AddressesStay, AuthAssumption DEF AnyEmail
  <2>4. QED
    BY <2>1, <2>2, <2>3
<1>3. ASSUME NEW t \in Reqs PROVE RunOK(t)'
  BY <1>1, <1>2 DEF SeedInv, RunOK, HasAccount
<1>4. QED
  BY <1>1, <1>3 DEF SeedInv

\* The run that makes the demo account keeps the invariant: it is the first.
LEMMA CreateDemoUserKeeps ==
    ASSUME AuthInv, SeedInv, [Next]_vars, NEW s \in Reqs, NEW u \in Users, ~Taken(DemoEmail),
           InsertUser(u, DemoEmail, DemoPassword), UNCHANGED links,
           seed' = [seed EXCEPT ![s].pc = Remaining(<<>>), ![s].user = u]
    PROVE  SeedInv'
<1>1. /\ seed' \in [Reqs -> Seed]
      /\ seed'[s].user = u /\ seed'[s].made = seed[s].made
      /\ \A t \in Reqs \ {s} : seed'[t] = seed[t]
  BY DEF SeedInv, Seed, Remaining, SeedPc
<1>2. users'[u].email = DemoEmail
  BY InsertKeeps DEF AuthInv, AnyEmail, AnyPassword
<1>3. \A t \in Reqs : seed[t].user = NULL /\ seed[t].made = <<>>
  BY DEF SeedInv, RunOK, Seed, Taken, HasAccount
<1>4. u # NULL
  BY TablesAssumption
<1>5. ASSUME NEW t \in Reqs PROVE RunOK(t)'
  <2>1. seed'[t].made = <<>>
    BY <1>1, <1>3
  <2>2. CASE t = s
    BY <1>1, <1>2, <1>4, <2>1, <2>2 DEF RunOK, HasAccount
  <2>3. CASE t # s
    BY <1>1, <1>3, <2>1, <2>3 DEF SeedInv, RunOK, HasAccount
  <2>4. QED
    BY <2>2, <2>3
<1>6. QED
  BY <1>1, <1>3, <1>5 DEF SeedInv

\* A new demo link is not one of those made before.
LEMMA CreateDemoLinkKeeps ==
    ASSUME AuthInv, SeedInv, [Next]_vars, NEW s \in Reqs, seed[s].pc = "link",
           NEW l \in LinkIds, links[l].status = "unborn", UNCHANGED users,
           links' = [links EXCEPT ![l] =
                        [status |-> "READY", userId |-> seed[s].user,
                         failReason |-> NULL, title |-> s, summary |-> s]],
           seed' = [seed EXCEPT ![s].pc = "tags", ![s].made = Append(@, l)]
    PROVE  SeedInv'
<1> DEFINE made == seed[s].made
           row == [status |-> "READY", userId |-> seed[s].user, failReason |-> NULL,
                   title |-> s, summary |-> s]
<1>1. made \in Seq(LinkIds) /\ seed[s].user \in Users
  BY DEF SeedInv, RunOK, Seed
<1>2. row \in LinkRow /\ row.userId = seed[s].user /\ row.status # "unborn"
  BY <1>1 DEF LinkRow, LinkStatus
<1>3. links' = [links EXCEPT ![l] = row]
  OBVIOUS
<1> HIDE DEF row
<1>4. /\ links' \in [LinkIds -> LinkRow]
      /\ links'[l] = row
      /\ \A k \in LinkIds \ {l} : links'[k] = links[k]
  BY <1>2, <1>3 DEF SeedInv
<1>5. /\ Append(made, l) \in Seq(LinkIds)
      /\ Len(Append(made, l)) = Len(made) + 1
      /\ \A i \in 1 .. Len(made) : Append(made, l)[i] = made[i]
      /\ Append(made, l)[Len(made) + 1] = l
      /\ Len(made) \in Nat
  BY <1>1, AppendProperties, LenProperties
<1>6. /\ seed' \in [Reqs -> Seed]
      /\ seed'[s].user = seed[s].user /\ seed'[s].made = Append(made, l)
      /\ \A t \in Reqs \ {s} : seed'[t] = seed[t]
  BY <1>5 DEF SeedInv, Seed, SeedPc
<1> HIDE DEF made
<1>7. \A t \in Reqs : \A i \in 1 .. Len(seed[t].made) :
          seed[t].made[i] \in LinkIds \ {l}
  <2>1. ASSUME NEW t \in Reqs, NEW i \in 1 .. Len(seed[t].made)
        PROVE  seed[t].made[i] \in LinkIds
    <3>1. seed[t].made \in Seq(LinkIds)
      BY DEF SeedInv, Seed
    <3>2. QED
      BY <3>1, ElementOfSeq
  <2>2. QED
    BY <2>1 DEF SeedInv, RunOK
<1>8. RunOK(s)'
  <2>1. seed[s].user # NULL /\ users'[seed[s].user].email = DemoEmail
    BY <1>1, TablesAssumption DEF SeedInv, RunOK, HasAccount
  <2>2. ASSUME NEW i \in 1 .. Len(made) + 1
        PROVE  /\ links'[Append(made, l)[i]].userId = seed[s].user
               /\ links'[Append(made, l)[i]].status # "unborn"
    <3>1. CASE i = Len(made) + 1
      BY <1>2, <1>4, <1>5, <3>1
    <3>2. CASE i \in 1 .. Len(made)
      BY <1>4, <1>5, <1>7, <3>2 DEF SeedInv, RunOK, made
    <3>3. QED
      BY <1>5, <3>1, <3>2
  <2>3. ASSUME NEW i \in 1 .. Len(made) + 1, NEW j \in 1 .. Len(made) + 1,
               Append(made, l)[i] = Append(made, l)[j]
        PROVE  i = j
    <3>1. CASE i \in 1 .. Len(made) /\ j \in 1 .. Len(made)
      BY <1>5, <2>3, <3>1 DEF SeedInv, RunOK, made
    <3>2. CASE i \in 1 .. Len(made) /\ j = Len(made) + 1
      BY <1>5, <1>7, <2>3, <3>2 DEF made
    <3>3. CASE i = Len(made) + 1 /\ j \in 1 .. Len(made)
      BY <1>5, <1>7, <2>3, <3>3 DEF made
    <3>4. QED
      BY <1>5, <3>1, <3>2, <3>3
  <2>4. QED
    BY <1>5, <1>6, <2>1, <2>2, <2>3 DEF RunOK, HasAccount
<1>9. ASSUME NEW t \in Reqs \ {s} PROVE RunOK(t)'
  BY <1>4, <1>6, <1>7 DEF SeedInv, RunOK, HasAccount
<1>10. QED
  BY <1>4, <1>6, <1>8, <1>9 DEF SeedInv

\* A demo link whose run does not hear of it is nobody's.
LEMMA DemoLinkUnheardKeeps ==
    ASSUME AuthInv, SeedInv, [Next]_vars, NEW s \in Reqs, seed[s].pc = "link",
           NEW l \in LinkIds, links[l].status = "unborn", UNCHANGED users,
           links' = [links EXCEPT ![l] =
                        [status |-> "READY", userId |-> seed[s].user,
                         failReason |-> NULL, title |-> s, summary |-> s]],
           SeedGoesTo(s, "rejected")
    PROVE  SeedInv'
<1> DEFINE row == [status |-> "READY", userId |-> seed[s].user, failReason |-> NULL,
                   title |-> s, summary |-> s]
<1>1. seed[s] \in Seed /\ seed[s].user \in Users
  BY DEF SeedInv, RunOK, Seed
<1>2. row \in LinkRow
  BY <1>1 DEF LinkRow, LinkStatus
<1>3. links' = [links EXCEPT ![l] = row]
  OBVIOUS
<1> HIDE DEF row
<1>4. links' \in [LinkIds -> LinkRow] /\ \A k \in LinkIds \ {l} : links'[k] = links[k]
  BY <1>2, <1>3 DEF SeedInv
<1>5. /\ seed' \in [Reqs -> Seed]
      /\ seed'[s].pc = "rejected"
      /\ seed'[s].user = seed[s].user /\ seed'[s].made = seed[s].made
      /\ \A t \in Reqs \ {s} : seed'[t] = seed[t]
  <2>1. [seed[s] EXCEPT !.pc = "rejected"] \in Seed
    BY <1>1 DEF Seed, SeedPc
  <2>2. seed' = [seed EXCEPT ![s] = [seed[s] EXCEPT !.pc = "rejected"]]
    BY DEF SeedGoesTo
  <2>3. QED
    BY <1>1, <2>1, <2>2 DEF SeedInv, Seed
<1>6. ASSUME NEW t \in Reqs, NEW i \in 1 .. Len(seed[t].made)
      PROVE  links'[seed[t].made[i]] = links[seed[t].made[i]]
  <2>1. seed[t].made \in Seq(LinkIds)
    BY DEF SeedInv, Seed
  <2>2. seed[t].made[i] \in LinkIds \ {l}
    BY <2>1, ElementOfSeq DEF SeedInv, RunOK
  <2>3. QED
    BY <1>4, <2>2
<1>7. ASSUME NEW t \in Reqs PROVE RunOK(t)'
  <2>1. /\ seed'[t].user = seed[t].user /\ seed'[t].made = seed[t].made
        /\ seed'[t].pc = seed[t].pc \/ seed'[t].pc = "rejected"
    BY <1>5
  <2>2. QED
    BY <1>6, <2>1 DEF SeedInv, RunOK, HasAccount
<1>8. QED
  BY <1>4, <1>5, <1>7 DEF SeedInv

\* The invariant of the runs holds at the start.
LEMMA SeedInvInit == Init => SeedInv
<1> SUFFICES ASSUME Init PROVE SeedInv
  OBVIOUS
<1>1. [pc |-> "new", user |-> NULL, made |-> <<>>] \in Seed
  BY EmptySeq DEF Seed, SeedPc
<1>2. seed = [s \in Reqs |-> [pc |-> "new", user |-> NULL, made |-> <<>>]]
  BY DEF Init
<1>3. EmptyRow("unborn") \in LinkRow
  BY DEF EmptyRow, LinkRow
<1>4. links \in [LinkIds -> LinkRow]
  BY <1>3 DEF Init, TablesInit
<1>5. seed \in [Reqs -> Seed]
  BY <1>1, <1>2
<1>6. \A s \in Reqs : seed[s].user = NULL /\ seed[s].made = <<>> /\ seed[s].pc = "new"
  BY <1>2
<1>7. QED
  BY <1>4, <1>5, <1>6 DEF SeedInv, RunOK

\* Every step keeps the invariant of the runs.
LEMMA SeedInvStep == AuthInv /\ SeedInv /\ [Next]_vars => SeedInv'
<1> SUFFICES ASSUME AuthInv, SeedInv, [Next]_vars PROVE SeedInv'
  OBVIOUS
<1>1. ASSUME NEW s \in Reqs, Start(s) PROVE SeedInv'
  <2>1. UNCHANGED links /\ \E pc \in {"skipped", "user", "rejected"} : SeedGoesTo(s, pc)
    BY <1>1 DEF Start
  <2>2. QED
    BY <2>1, SeedMovesKeep DEF SeedPc
<1>2. ASSUME NEW s \in Reqs, CreateDemoUser(s) PROVE SeedInv'
  <2>1. CASE SeedGoesTo(s, "rejected")
    BY <1>2, <2>1, SeedMovesKeep DEF CreateDemoUser, SeedPc
  <2>2. QED
    BY <1>2, <2>1, CreateDemoUserKeeps DEF CreateDemoUser, Succeeds, AnswerLost
<1>3. ASSUME NEW s \in Reqs, CreateDemoLink(s) PROVE SeedInv'
  <2>1. CASE SeedGoesTo(s, "rejected") /\ UNCHANGED links
    BY <1>3, <2>1, SeedMovesKeep DEF SeedPc
  <2>2. CASE SeedGoesTo(s, "rejected") /\ ~ UNCHANGED links
    BY <1>3, <2>2, DemoLinkUnheardKeeps DEF CreateDemoLink
  <2>3. QED
    BY <1>3, <2>1, <2>2, CreateDemoLinkKeeps DEF CreateDemoLink
<1>4. ASSUME NEW s \in Reqs, TagsReplaced(s) PROVE SeedInv'
  <2>1. UNCHANGED links /\ seed[s].user # NULL
    BY <1>4 DEF TagsReplaced, tables, SeedInv, RunOK
  <2>2. \E pc \in {"resolved", "link", "rejected"} : SeedGoesTo(s, pc)
    BY <1>4 DEF TagsReplaced, Remaining
  <2>3. QED
    BY <2>1, <2>2, SeedMovesKeep DEF SeedPc
<1>5. ASSUME NEW s \in Reqs, Kill(s) PROVE SeedInv'
  BY <1>5, SeedMovesKeep DEF Kill, tables, SeedPc
<1>6. ASSUME UNCHANGED <<links, seed>> PROVE SeedInv'
  <2>1. CASE Reqs = {}
    BY <1>6, <2>1 DEF SeedInv
  <2>2. ASSUME NEW s \in Reqs PROVE SeedInv'
    BY <1>6, SeedMovesKeep DEF SeedPc
  <2>3. QED
    BY <2>1, <2>2
<1>7. ASSUME NEW c \in Calls, CallStep(c) PROVE UNCHANGED links
  BY <1>7 DEF CallStep, Register, Login, CreateUser, Me
<1>8. ASSUME NEW s \in Reqs, ReplStep(s) PROVE UNCHANGED links
  BY <1>8 DEF ReplStep, UpsertSelect, UpsertInsert, UpsertRefind, DeleteTagRows, CreateTagRows,
              ReplGoesTo
<1>9. QED
  BY <1>1, <1>2, <1>3, <1>4, <1>5, <1>6, <1>7, <1>8 DEF Next, SeedStep, vars, tables

\* However often the script is run, killed and run again, one run at most
\* makes links, each once and for the demo account.
THEOREM SeededOnce == Spec => []SeedOnce
<1>1. SeedInv => SeedOnce
  <2> SUFFICES ASSUME SeedInv PROVE SeedOnce
    OBVIOUS
  <2>1. \A s \in Reqs : DOMAIN seed[s].made = 1 .. Len(seed[s].made)
    BY DEF SeedInv, Seed
  <2>2. \A s \in Reqs : \A i \in DOMAIN seed[s].made : seed[s].user # NULL
    BY <2>1 DEF SeedInv, RunOK
  <2>3. QED
    BY <2>1, <2>2 DEF SeedInv, RunOK, SeedOnce, HasAccount
<1>2. AuthInv /\ SeedInv /\ [Next]_vars => (AuthInv /\ SeedInv)'
  BY AuthInvStep, SeedInvStep
<1>3. Init => AuthInv /\ SeedInv
  BY AuthInvInit, SeedInvInit
<1>4. QED
  BY <1>1, <1>2, <1>3, PTL DEF Spec

-----------------------------------------------------------------------------
(* The tables and the calls of replaceLinkTags                             *)

InFlight == {"select", "insert", "refind"}
Settled == {"none", "done"}

\* A call that was started has its arguments; it touches the rows of its link
\* when all upserts are done; and what an upsert looks up again is there.
CallWell(s) ==
    /\ repl[s].pc = "idle" => \A n \in Names : repl[s].up[n] = "none"
    /\ repl[s].pc # "idle" => repl[s].user \in Users /\ repl[s].link \in LinkIds
    /\ repl[s].pc \in {"delete", "create", "ok"} => \A n \in Names : repl[s].up[n] \in Settled
    /\ \A n \in Names : repl[s].up[n] = "refind" => TagOf(s, n) \in tags

StoreInv ==
    /\ TablesTypeOK
    /\ ReplTypeOK
    /\ \A s \in Reqs : CallWell(s)
    /\ kills \in 0 .. MaxKills

\* Statements that fail are counted within their bound.
LEMMA ErrorsBounded ==
    ASSUME dbErrors \in 0 .. MaxDbErrors, [Next]_vars
    PROVE  dbErrors' \in 0 .. MaxDbErrors
<1>1. ASSUME NEW x, Succeeds(x) PROVE dbErrors' \in 0 .. MaxDbErrors
  BY <1>1 DEF Succeeds
<1>2. ASSUME NEW x, Throws(x) PROVE dbErrors' \in 0 .. MaxDbErrors
  BY <1>2, TablesAssumption DEF Throws
<1>3. ASSUME NEW x, AnswerLost(x) PROVE dbErrors' \in 0 .. MaxDbErrors
  BY <1>3, TablesAssumption DEF AnswerLost
<1>4. ASSUME NEW c \in Calls, CallStep(c) PROVE dbErrors' \in 0 .. MaxDbErrors
  <2>1. CASE CreateUser(c)
    BY <1>1, <1>2, <1>3, <2>1 DEF CreateUser
  <2>2. CASE \E email \in Emails, password \in Passwords : Register(c, email, password)
    BY <1>1, <1>2, <2>2 DEF Register
  <2>3. CASE \E email \in AnyEmail, password \in AnyPassword : Login(c, email, password)
    BY <1>1, <1>2, <2>3 DEF Login
  <2>4. CASE \E d \in Calls : Me(c, d)
    BY <1>1, <1>2, <2>4 DEF Me
  <2>5. QED
    BY <1>4, <2>1, <2>2, <2>3, <2>4 DEF CallStep
<1>5. ASSUME NEW s \in Reqs, SeedStep(s) PROVE dbErrors' \in 0 .. MaxDbErrors
  BY <1>1, <1>2, <1>3, <1>5 DEF SeedStep, Start, CreateDemoUser, CreateDemoLink, TagsReplaced,
                                tables
<1>6. ASSUME NEW s \in Reqs, ReplStep(s) PROVE dbErrors' \in 0 .. MaxDbErrors
  BY <1>1, <1>2, <1>3, <1>6 DEF ReplStep, UpsertSelect, UpsertInsert, UpsertRefind, DeleteTagRows,
                          CreateTagRows, ReplGoesTo
<1>7. CASE (\E s \in Reqs : Kill(s)) \/ UNCHANGED vars
  BY <1>7 DEF Kill, tables, vars
<1>8. QED
  BY <1>4, <1>5, <1>6, <1>7 DEF Next

\* What one upsert does to its call: it gets on, or it is the last one to
\* resolve, or its connection drops.
UpsertMoves(s) ==
    \E n \in Names, up \in UpsertPc \ {"none"}, pc \in ReplPc :
        /\ repl[s].up[n] \in InFlight
        /\ Upsert(s, n, up, pc)
        /\ up = "refind" => TagOf(s, n) \in tags
        /\ \/ pc = repl[s].pc
           \/ /\ pc = "delete" /\ repl[s].pc = "upsert" /\ up = "done"
              /\ \A m \in Names \ {n} : repl[s].up[m] \in Settled
           \/ pc = "err" /\ Throws(FALSE)

\* A step of replaceLinkTags is one of an upsert, or one of the two statements
\* on the rows of the link.
LEMMA ReplStepIs ==
    ASSUME ReplTypeOK, NEW s \in Reqs, CallWell(s), ReplStep(s)
    PROVE  /\ UNCHANGED links
           /\ \/ UpsertMoves(s) /\ UNCHANGED tagsOnLinks
              \/ (DeleteTagRows(s) \/ CreateTagRows(s)) /\ UNCHANGED tags
<1>1. repl[s].pc \in ReplPc
  BY DEF ReplTypeOK, Repl
<1>2. ASSUME NEW n \in Names, repl[s].up[n] \in InFlight, UpsertResolves(s, n)
      PROVE  UpsertMoves(s)
  <2>1. CASE repl[s].pc = "upsert" /\ \A m \in Names \ {n} : repl[s].up[m] \in {"none", "done"}
    <3>1. Upsert(s, n, "done", "delete")
      BY <1>2, <2>1 DEF UpsertResolves
    <3>2. QED
      BY <1>2, <2>1, <3>1 DEF UpsertMoves, UpsertPc, ReplPc, Settled
  <2>2. CASE ~(repl[s].pc = "upsert" /\ \A m \in Names \ {n} : repl[s].up[m] \in {"none", "done"})
    <3>1. Upsert(s, n, "done", repl[s].pc)
      BY <1>2, <2>2 DEF UpsertResolves
    <3>2. "done" \in UpsertPc \ {"none"}
      BY DEF UpsertPc
    <3>3. QED
      BY <1>1, <1>2, <3>1, <3>2 DEF UpsertMoves
  <2>3. QED
    BY <2>1, <2>2
<1>3. ASSUME NEW n \in Names, repl[s].up[n] \in InFlight, UpsertRejects(s, n), Throws(FALSE)
      PROVE  UpsertMoves(s)
  BY <1>3 DEF UpsertRejects, UpsertMoves, UpsertPc, ReplPc
<1>4. ASSUME NEW n \in Names, repl[s].up[n] \in InFlight, NEW up \in {"insert", "refind"},
             UpsertGoesTo(s, n, up), up = "refind" => TagOf(s, n) \in tags
      PROVE  UpsertMoves(s)
  BY <1>1, <1>4 DEF UpsertGoesTo, UpsertMoves, UpsertPc
<1>5. ASSUME NEW n \in Names, UpsertSelect(s, n)
      PROVE  UpsertMoves(s) /\ UNCHANGED <<links, tagsOnLinks>>
  BY <1>2, <1>3, <1>4, <1>5 DEF UpsertSelect, InFlight
<1>6. ASSUME NEW n \in Names, UpsertInsert(s, n)
      PROVE  UpsertMoves(s) /\ UNCHANGED <<links, tagsOnLinks>>
  <2>1. AnswerLost(TagOf(s, n) \notin tags) => Throws(FALSE)
    BY DEF AnswerLost, Throws
  <2>2. QED
    BY <1>2, <1>3, <1>4, <1>6, <2>1 DEF UpsertInsert, Succeeds, InFlight
<1>7. ASSUME NEW n \in Names, UpsertRefind(s, n)
      PROVE  UpsertMoves(s) /\ UNCHANGED <<links, tagsOnLinks>>
  <2>1. TagOf(s, n) \in tags
    BY <1>7 DEF UpsertRefind, CallWell
  <2>2. QED
    BY <1>2, <1>3, <1>7, <2>1 DEF UpsertRefind, Throws, InFlight
<1>8. QED
  BY <1>5, <1>6, <1>7 DEF ReplStep, DeleteTagRows, CreateTagRows, ReplGoesTo

\* A step of an upsert, seen from its call.
LEMMA UpsertMoved ==
    ASSUME ReplTypeOK, NEW s \in Reqs, CallWell(s), UpsertMoves(s)
    PROVE  /\ ReplTypeOK'
           /\ \A t \in Reqs \ {s} : repl'[t] = repl[t]
           /\ repl'[s].user = repl[s].user /\ repl'[s].link = repl[s].link
           /\ repl[s].pc \in {"upsert", "err"}
           /\ \A n \in Names : repl'[s].up[n] = "none" <=> repl[s].up[n] = "none"
           /\ \A n \in Names : repl'[s].up[n] = "refind" => TagOf(s, n) \in tags
           /\ \/ repl'[s].pc = repl[s].pc
              \/ /\ repl'[s].pc = "delete" /\ repl[s].pc = "upsert"
                 /\ \A n \in Names : repl'[s].up[n] \in Settled
              \/ repl'[s].pc = "err" /\ Throws(FALSE)
<1>1. PICK n \in Names, up \in UpsertPc \ {"none"}, pc \in ReplPc :
          /\ repl[s].up[n] \in InFlight
          /\ Upsert(s, n, up, pc)
          /\ up = "refind" => TagOf(s, n) \in tags
          /\ \/ pc = repl[s].pc
             \/ /\ pc = "delete" /\ repl[s].pc = "upsert" /\ up = "done"
                /\ \A m \in Names \ {n} : repl[s].up[m] \in Settled
             \/ pc = "err" /\ Throws(FALSE)
  BY DEF UpsertMoves
<1>2. repl[s] \in Repl /\ repl[s].up \in [Names -> UpsertPc]
  BY DEF ReplTypeOK, Repl
<1> DEFINE ups == [repl[s].up EXCEPT ![n] = up]
           rec == [pc |-> pc, user |-> repl[s].user, link |-> repl[s].link, up |-> ups]
<1>3. /\ ups \in [Names -> UpsertPc]
      /\ ups[n] = up
      /\ \A m \in Names \ {n} : ups[m] = repl[s].up[m]
  BY <1>2
<1> HIDE DEF ups
<1>4. /\ rec \in Repl
      /\ rec.pc = pc /\ rec.user = repl[s].user /\ rec.link = repl[s].link /\ rec.up = ups
  BY <1>2, <1>3 DEF Repl
<1>5. repl' = [repl EXCEPT ![s] = rec]
  BY <1>1 DEF Upsert, ups
<1> HIDE DEF rec
<1>6. /\ ReplTypeOK'
      /\ repl'[s] = rec
      /\ \A t \in Reqs \ {s} : repl'[t] = repl[t]
  BY <1>4, <1>5 DEF ReplTypeOK
<1>7. repl[s].pc \in {"upsert", "err"}
  BY <1>1, <1>2 DEF CallWell, InFlight, Settled, Repl, ReplPc
<1>8. \A m \in Names : repl'[s].up[m] = IF m = n THEN up ELSE repl[s].up[m]
  BY <1>3, <1>4, <1>6
<1>9. \A m \in Names : repl'[s].up[m] = "none" <=> repl[s].up[m] = "none"
  BY <1>1, <1>8 DEF InFlight
<1>10. \A m \in Names : repl'[s].up[m] = "refind" => TagOf(s, m) \in tags
  BY <1>1, <1>8 DEF CallWell
<1>11. up = "done" /\ (\A m \in Names \ {n} : repl[s].up[m] \in Settled) =>
           \A m \in Names : repl'[s].up[m] \in Settled
  BY <1>8 DEF Settled
<1>12. QED
  BY <1>1, <1>4, <1>6, <1>7, <1>9, <1>10, <1>11

\* So is one of the two statements on the rows of the link.
LEMMA RowsMoved ==
    ASSUME TablesTypeOK, ReplTypeOK, NEW s \in Reqs, CallWell(s),
           DeleteTagRows(s) \/ CreateTagRows(s)
    PROVE  /\ ReplTypeOK'
           /\ tagsOnLinks' \subseteq LinkIds \X Tag
           /\ \A t \in Reqs \ {s} : repl'[t] = repl[t]
           /\ repl'[s].user = repl[s].user /\ repl'[s].link = repl[s].link
           /\ repl'[s].up = repl[s].up
           /\ repl[s].pc \in {"delete", "create"}
           /\ repl'[s].pc \in {"create", "ok", "err"}
           /\ \A l \in LinkIds \ {repl[s].link} : TagsOf(l)' = TagsOf(l)
<1>1. PICK pc \in {"create", "ok", "err"} : repl' = [repl EXCEPT ![s].pc = pc]
  BY DEF DeleteTagRows, CreateTagRows, ReplGoesTo
<1>2. repl[s] \in Repl /\ [repl[s] EXCEPT !.pc = pc] \in Repl
  BY DEF ReplTypeOK, Repl, ReplPc
<1>3. /\ ReplTypeOK'
      /\ \A t \in Reqs \ {s} : repl'[t] = repl[t]
      /\ repl'[s].user = repl[s].user /\ repl'[s].link = repl[s].link
      /\ repl'[s].up = repl[s].up
      /\ repl'[s].pc = pc
  BY <1>1, <1>2 DEF ReplTypeOK, Repl
<1>4. repl[s].pc \in {"delete", "create"}
  BY DEF DeleteTagRows, CreateTagRows, ReplGoesTo
<1>5. repl[s].user \in Users /\ repl[s].link \in LinkIds
  BY <1>4 DEF CallWell
<1>6. NewTags(s) \subseteq Tag
  BY <1>5 DEF NewTags, TagOf, Tag
<1>7. \/ tagsOnLinks' = tagsOnLinks
      \/ tagsOnLinks' = {p \in tagsOnLinks : p[1] # repl[s].link}
      \/ tagsOnLinks' = tagsOnLinks \cup {<<repl[s].link, t>> : t \in NewTags(s)}
  BY DEF DeleteTagRows, CreateTagRows, ReplGoesTo
<1>8. tagsOnLinks' \subseteq LinkIds \X Tag
  BY <1>5, <1>6, <1>7 DEF TablesTypeOK
<1>9. ASSUME NEW l \in LinkIds \ {repl[s].link} PROVE TagsOf(l)' = TagsOf(l)
  BY <1>7, <1>9 DEF TagsOf
<1>10. QED
  BY <1>3, <1>4, <1>8, <1>9

\* A call as it starts is well formed.
LEMMA CallStarts ==
    ASSUME ReplTypeOK, NEW s \in Reqs, NEW u \in Users, NEW l \in LinkIds, NEW raw,
           StartReplace(s, u, l, raw)
    PROVE  /\ ReplTypeOK' /\ CallWell(s)'
           /\ \A t \in Reqs \ {s} : repl'[t] = repl[t]
           /\ repl'[s].user = u /\ repl'[s].link = l
           /\ repl'[s].pc \in {"upsert", "delete"}
           /\ \A n \in Names : repl'[s].up[n] # "none" <=> n \in Normalized(raw)
<1> DEFINE ups == [n \in Names |-> IF n \in Normalized(raw) THEN "select" ELSE "none"]
           pc == IF Normalized(raw) = {} THEN "delete" ELSE "upsert"
           rec == [pc |-> pc, user |-> u, link |-> l, up |-> ups]
<1>1. /\ ups \in [Names -> UpsertPc]
      /\ \A n \in Names : ups[n] = IF n \in Normalized(raw) THEN "select" ELSE "none"
  BY DEF UpsertPc
<1>2. pc \in ReplPc /\ pc \in {"upsert", "delete"} /\ (pc = "delete" => Normalized(raw) = {})
  BY DEF ReplPc
<1>3. repl' = [repl EXCEPT ![s] = rec]
  BY DEF StartReplace
<1> HIDE DEF ups, pc
<1>4. rec \in Repl /\ rec.pc = pc /\ rec.user = u /\ rec.link = l /\ rec.up = ups
  BY <1>1, <1>2 DEF Repl
<1> HIDE DEF rec
<1>5. ReplTypeOK' /\ repl'[s] = rec /\ \A t \in Reqs \ {s} : repl'[t] = repl[t]
  BY <1>3, <1>4 DEF ReplTypeOK
<1>6. CallWell(s)'
  BY <1>1, <1>2, <1>4, <1>5 DEF CallWell, Settled
<1>7. QED
  BY <1>1, <1>2, <1>4, <1>5, <1>6

\* The step keeps the calls, the tags and who was killed.
LEMMA StoreFrame ==
    ASSUME StoreInv, [Next]_vars, links' \in [LinkIds -> LinkRow],
           UNCHANGED <<tags, tagsOnLinks, repl, kills>>
    PROVE  StoreInv'
<1>1. TablesTypeOK'
  BY ErrorsBounded DEF StoreInv, TablesTypeOK
<1>2. ASSUME NEW s \in Reqs PROVE CallWell(s)'
  BY DEF StoreInv, CallWell, TagOf
<1>3. QED
  BY <1>1, <1>2 DEF StoreInv, ReplTypeOK

\* Tags are only added, and only tags of the user of the call.
LEMMA TagsAdded ==
    ASSUME StoreInv, NEW s \in Reqs, ReplStep(s)
    PROVE  tags \subseteq tags' /\ tags' \subseteq Tag
<1>1. tags \subseteq Tag
  BY DEF StoreInv, TablesTypeOK
<1>2. ASSUME NEW n \in Names, UpsertInsert(s, n)
      PROVE  tags \subseteq tags' /\ tags' \subseteq Tag
  <2>1. repl[s].pc # "idle"
    BY <1>2 DEF UpsertInsert, StoreInv, CallWell
  <2>2. TagOf(s, n) \in Tag
    BY <2>1 DEF StoreInv, CallWell, TagOf, Tag
  <2>3. tags' = tags \/ tags' = tags \cup {TagOf(s, n)}
    BY <1>2 DEF UpsertInsert
  <2>4. QED
    BY <1>1, <2>2, <2>3
<1>3. QED
  BY <1>1, <1>2 DEF ReplStep, UpsertSelect, UpsertRefind, DeleteTagRows, CreateTagRows,
                    ReplGoesTo

\* replaceLinkTags keeps its calls well formed.
LEMMA ReplStepKeeps ==
    ASSUME StoreInv, [Next]_vars, NEW s \in Reqs, ReplStep(s), UNCHANGED kills
    PROVE  StoreInv'
<1>1. TablesTypeOK /\ ReplTypeOK /\ CallWell(s) /\ dbErrors' \in 0 .. MaxDbErrors
  BY ErrorsBounded DEF StoreInv, TablesTypeOK
<1>2. tags \subseteq tags' /\ tags' \subseteq Tag
  BY TagsAdded
<1>3. UNCHANGED links
  BY <1>1, ReplStepIs
<1>4. ASSUME NEW t \in Reqs, repl'[t] = repl[t] PROVE CallWell(t)'
  BY <1>2, <1>4 DEF StoreInv, CallWell, TagOf
<1>5. CASE UpsertMoves(s) /\ UNCHANGED tagsOnLinks
  <2>1. /\ ReplTypeOK'
        /\ \A t \in Reqs \ {s} : repl'[t] = repl[t]
        /\ repl'[s].user = repl[s].user /\ repl'[s].link = repl[s].link
        /\ repl[s].pc \in {"upsert", "err"}
        /\ \A n \in Names : repl'[s].up[n] = "refind" => TagOf(s, n) \in tags
        /\ \/ repl'[s].pc = repl[s].pc
           \/ repl'[s].pc = "delete" /\ \A n \in Names : repl'[s].up[n] \in Settled
           \/ repl'[s].pc = "err"
    BY <1>1, <1>5, UpsertMoved
  <2>2. CallWell(s)'
    BY <1>1, <1>2, <2>1 DEF CallWell, TagOf
  <2>3. QED
    BY <1>1, <1>2, <1>3, <1>4, <1>5, <2>1, <2>2 DEF StoreInv, TablesTypeOK
<1>6. CASE (DeleteTagRows(s) \/ CreateTagRows(s)) /\ UNCHANGED tags
  <2>1. /\ ReplTypeOK'
        /\ tagsOnLinks' \subseteq LinkIds \X Tag
        /\ \A t \in Reqs \ {s} : repl'[t] = repl[t]
        /\ repl'[s].user = repl[s].user /\ repl'[s].link = repl[s].link
        /\ repl'[s].up = repl[s].up
        /\ repl[s].pc \in {"delete", "create"}
        /\ repl'[s].pc \in {"create", "ok", "err"}
    BY <1>1, <1>6, RowsMoved
  <2>2. CallWell(s)'
    BY <1>1, <1>6, <2>1 DEF CallWell, TagOf
  <2>3. QED
    BY <1>1, <1>2, <1>3, <1>4, <2>1, <2>2 DEF StoreInv, TablesTypeOK
<1>7. QED
  BY <1>1, <1>5, <1>6, ReplStepIs

\* Every step keeps the tables and the calls well formed.
LEMMA StoreInvStep ==
    ASSUME AuthInv, SeedInv, StoreInv, [Next]_vars
    PROVE  StoreInv'
<1>1. links' \in [LinkIds -> LinkRow] /\ SeedInv'
  BY SeedInvStep DEF SeedInv
<1>2. ASSUME NEW c \in Calls, CallStep(c), UNCHANGED <<repl, seed, kills>>
      PROVE  StoreInv'
  <2>1. UNCHANGED <<tags, tagsOnLinks>>
    BY <1>2 DEF CallStep, Register, Login, CreateUser, Me
  <2>2. QED
    BY <1>1, <1>2, <2>1, StoreFrame
<1>3. ASSUME NEW s \in Reqs, SeedStep(s), UNCHANGED <<call, kills>>
      PROVE  StoreInv'
  <2>1. CASE UNCHANGED repl
    <3>1. UNCHANGED <<tags, tagsOnLinks>>
      BY <1>3 DEF SeedStep, Start, CreateDemoUser, CreateDemoLink, TagsReplaced, tables
    <3>2. QED
      BY <1>1, <1>3, <2>1, <3>1, StoreFrame
  <2>2. CASE CreateDemoLink(s)
    <3>1. seed[s].user \in Users /\ UNCHANGED <<tags, tagsOnLinks>>
      BY <2>2 DEF CreateDemoLink, SeedInv, RunOK, Seed
    <3>2. ASSUME NEW l \in LinkIds, NEW raw, StartReplace(s, seed[s].user, l, raw)
          PROVE  StoreInv'
      <4>1. /\ ReplTypeOK' /\ CallWell(s)'
            /\ \A t \in Reqs \ {s} : repl'[t] = repl[t]
        BY <3>1, <3>2, CallStarts DEF StoreInv
      <4>2. ASSUME NEW t \in Reqs \ {s} PROVE CallWell(t)'
        BY <3>1, <4>1 DEF StoreInv, CallWell, TagOf
      <4>3. TablesTypeOK'
        BY <1>1, <3>1, ErrorsBounded DEF StoreInv, TablesTypeOK
      <4>4. QED
        BY <1>3, <4>1, <4>2, <4>3 DEF StoreInv
    <3>3. QED
      BY <2>1, <2>2, <3>2 DEF CreateDemoLink
  <2>3. QED
    BY <1>3, <2>1, <2>2 DEF SeedStep, Start, CreateDemoUser, TagsReplaced
<1>4. ASSUME NEW s \in Reqs, ReplStep(s), UNCHANGED kills PROVE StoreInv'
  BY <1>4, ReplStepKeeps
<1>5. ASSUME NEW s \in Reqs, Kill(s) PROVE StoreInv'
  <2>1. /\ IdleRepl \in Repl /\ IdleRepl.pc = "idle"
        /\ \A n \in Names : IdleRepl.up[n] = "none"
    BY DEF IdleRepl, Repl, ReplPc, UpsertPc
  <2>2. repl' = [repl EXCEPT ![s] = IdleRepl] /\ UNCHANGED tables
    BY <1>5 DEF Kill
  <2>3. /\ ReplTypeOK' /\ repl'[s] = IdleRepl
        /\ \A t \in Reqs \ {s} : repl'[t] = repl[t]
    BY <2>1, <2>2 DEF StoreInv, ReplTypeOK
  <2>4. CallWell(s)'
    BY <2>1, <2>3 DEF CallWell
  <2>5. ASSUME NEW t \in Reqs \ {s} PROVE CallWell(t)'
    BY <2>2, <2>3 DEF StoreInv, CallWell, TagOf, tables
  <2>6. kills' \in 0 .. MaxKills
    BY <1>5, SeedAssumption DEF Kill, StoreInv
  <2>7. QED
    BY <2>2, <2>3, <2>4, <2>5, <2>6 DEF StoreInv, TablesTypeOK, tables
<1>6. CASE UNCHANGED vars
  BY <1>1, <1>6, StoreFrame DEF vars, tables
<1>7. QED
  BY <1>2, <1>3, <1>4, <1>5, <1>6 DEF Next

\* The tables and the calls are well formed at the start.
LEMMA StoreInvInit == Init => StoreInv
<1> SUFFICES ASSUME Init PROVE StoreInv
  OBVIOUS
<1>1. /\ IdleRepl \in Repl /\ IdleRepl.pc = "idle"
      /\ \A n \in Names : IdleRepl.up[n] = "none"
  BY DEF IdleRepl, Repl, ReplPc, UpsertPc
<1>2. \A s \in Reqs : repl[s] = IdleRepl
  BY DEF Init, ReplInit
<1>3. ReplTypeOK
  BY <1>1 DEF Init, ReplInit, ReplTypeOK
<1>4. ASSUME NEW s \in Reqs PROVE CallWell(s)
  BY <1>1, <1>2 DEF CallWell
<1>5. links \in [LinkIds -> LinkRow]
  BY SeedInvInit DEF SeedInv
<1>6. TablesTypeOK
  BY <1>5, TablesAssumption DEF Init, TablesInit, TablesTypeOK
<1>7. kills \in 0 .. MaxKills
  BY SeedAssumption DEF Init
<1>8. QED
  BY <1>3, <1>4, <1>6, <1>7 DEF StoreInv

\* The inductive invariant of the accounts, the runs and the tables.
RunsInv == AuthInv /\ SeedInv /\ StoreInv

\* It holds in every state the server and the script reach.
THEOREM RunsInvariant == Spec => []RunsInv
<1>1. Init => RunsInv
  BY AuthInvInit, SeedInvInit, StoreInvInit DEF RunsInv
<1>2. RunsInv /\ [Next]_vars => RunsInv'
  BY AuthInvStep, SeedInvStep, StoreInvStep DEF RunsInv
<1>3. QED
  BY <1>1, <1>2, PTL DEF Spec

\* Every state is well typed; a run that makes links knows for whom.
THEOREM SeedTypes == Spec => []TypeOK
<1>1. RunsInv => TypeOK
  <2> SUFFICES ASSUME RunsInv PROVE TypeOK
    OBVIOUS
  <2>1. TablesTypeOK /\ ReplTypeOK /\ kills \in 0 .. MaxKills
    BY DEF RunsInv, StoreInv
  <2>2. AuthTypeOK
    BY DEF RunsInv, AuthInv, UsersOK, AuthTypeOK
  <2>3. /\ seed \in [Reqs -> Seed]
        /\ \A s \in Reqs : seed[s].pc \in {"link", "tags"} => seed[s].user \in Users
    BY DEF RunsInv, SeedInv, RunOK, Seed
  <2>4. QED
    BY <2>1, <2>2, <2>3 DEF TypeOK
<1>2. QED
  BY <1>1, RunsInvariant, PTL

-----------------------------------------------------------------------------
(* The links of a run are complete when it goes on                         *)

Count(s) == Len(seed[s].made)
Newest(s) == seed[s].made[Count(s)]
Wanted(s) == Normalized(DemoTags[Count(s)])

Complete(s, i) ==
    /\ links[seed[s].made[i]].status = "READY"
    /\ TagsOf(seed[s].made[i]) = {seed[s].user} \X Normalized(DemoTags[i])

\* How far a run is: all links behind it are complete.
MadeOK(s) ==
    /\ seed[s].pc = "link" => Count(s) < Len(DemoTags)
    /\ seed[s].pc = "resolved" => Count(s) = Len(DemoTags) /\ seed[s].user # NULL
    /\ seed[s].pc \in {"link", "resolved"} => \A i \in 1 .. Count(s) : Complete(s, i)
    /\ seed[s].pc = "tags" =>
          /\ Count(s) \in 1 .. Len(DemoTags)
          /\ links[Newest(s)].status = "READY"
          /\ \A i \in 1 .. Count(s) : i # Count(s) => Complete(s, i)

\* The call a run awaits is for its newest link, and meets nobody else's rows.
CallFits(s) ==
    /\ seed[s].pc = "tags" =>
          /\ repl[s].pc # "idle"
          /\ repl[s].user = seed[s].user /\ repl[s].link = Newest(s)
          /\ \A n \in Names : repl[s].up[n] # "none" <=> n \in Wanted(s)
          /\ repl[s].pc = "err" => dbErrors # 0
          /\ repl[s].pc = "create" => TagsOf(Newest(s)) = {}
          /\ repl[s].pc = "ok" => TagsOf(Newest(s)) = {seed[s].user} \X Wanted(s)
    /\ seed[s].pc # "tags" => repl[s].pc \in {"idle", "ok", "err"}

\* Why a run ended.
EndOK(s) ==
    /\ seed[s].user # NULL => seed[s].pc \notin {"new", "user", "skipped"}
    /\ seed[s].pc = "skipped" => Taken(DemoEmail)
    /\ seed[s].pc = "rejected" /\ dbErrors = 0 => Taken(DemoEmail) /\ seed[s].user = NULL
    /\ seed[s].pc = "killed" => kills # 0

\* The account is one a run knows it made, or the answer of its INSERT was lost.
AccountMade ==
    Taken(DemoEmail) => dbErrors # 0 \/ \E s \in Reqs : seed[s].user # NULL

WholeInv ==
    /\ \A s \in Reqs : MadeOK(s) /\ CallFits(s) /\ EndOK(s)
    /\ AccountMade

\* Which links run s made, and for whom, in the types the provers need.
LEMMA MadeTyped ==
    ASSUME SeedInv, NEW s \in Reqs
    PROVE  /\ Count(s) \in Nat
           /\ \A i \in 1 .. Count(s) : seed[s].made[i] \in LinkIds
           /\ Count(s) # 0 => seed[s].user \in Users
           /\ seed[s].pc \in {"link", "tags"} => seed[s].user \in Users
<1>1. seed[s] \in Seed /\ seed[s].made \in Seq(LinkIds)
  BY DEF SeedInv, Seed
<1>2. Count(s) \in Nat
  BY <1>1, LenProperties DEF Count
<1>3. \A i \in 1 .. Count(s) : seed[s].made[i] \in LinkIds
  BY <1>1, ElementOfSeq DEF Count
<1>4. Count(s) # 0 => seed[s].made # <<>>
  BY <1>1, EmptySeq DEF Count
<1>5. QED
  BY <1>1, <1>2, <1>3, <1>4 DEF SeedInv, RunOK, Seed

\* What is known of a run stays known when neither the run, nor its call, nor
\* its links and their tags change.
LEMMA RunStays ==
    ASSUME RunsInv, WholeInv, [Next]_vars, NEW s \in Reqs,
           seed'[s] = seed[s], repl'[s] = repl[s],
           \A i \in 1 .. Count(s) : /\ links'[seed[s].made[i]] = links[seed[s].made[i]]
                                    /\ TagsOf(seed[s].made[i])' = TagsOf(seed[s].made[i])
    PROVE  MadeOK(s)' /\ CallFits(s)' /\ EndOK(s)'
<1>1. Count(s)' = Count(s) /\ Newest(s)' = Newest(s) /\ Wanted(s)' = Wanted(s)
  BY DEF Count, Newest, Wanted, Normalized
<1>2. \A i \in 1 .. Count(s) : Complete(s, i)' <=> Complete(s, i)
  BY DEF Complete, Normalized
<1>3. MadeOK(s)'
  <2>1. MadeOK(s) /\ (seed[s].pc = "tags" => Newest(s) = seed[s].made[Count(s)])
    BY DEF WholeInv, Newest
  <2>2. seed[s].pc = "tags" => links'[Newest(s)] = links[Newest(s)]
    BY <2>1, MadeTyped DEF MadeOK, RunsInv
  <2>3. QED
    BY <1>1, <1>2, <2>1, <2>2 DEF MadeOK
<1>4. dbErrors' = 0 => dbErrors = 0
  BY ErrorsGrow DEF RunsInv, AuthInv
<1>5. CallFits(s)'
  <2>1. seed[s].pc = "tags" => TagsOf(Newest(s))' = TagsOf(Newest(s))
    <3>1. seed[s].pc = "tags" => Count(s) \in 1 .. Count(s)
      BY MadeTyped DEF WholeInv, MadeOK, RunsInv
    <3>2. QED
      BY <1>1, <3>1 DEF Newest
  <2>2. QED
    BY <1>1, <1>4, <2>1 DEF WholeInv, CallFits
<1>6. Taken(DemoEmail) => Taken(DemoEmail)'
  BY AddressesStay, NullIsNoAnswer DEF RunsInv, Taken, HasAccount, AnyEmail
<1>7. kills # 0 => kills' # 0
  BY SeedAssumption DEF Next, Kill, vars, RunsInv, StoreInv
<1>8. EndOK(s)'
  BY <1>4, <1>6, <1>7 DEF WholeInv, EndOK
<1>9. QED
  BY <1>3, <1>5, <1>8

\* A step of one run leaves what is known of the others.
LEMMA OneRunSteps ==
    ASSUME RunsInv, WholeInv, [Next]_vars, NEW s \in Reqs,
           \A t \in Reqs \ {s} : seed'[t] = seed[t] /\ repl'[t] = repl[t],
           \A t \in Reqs \ {s} : \A i \in 1 .. Count(t) :
              /\ links'[seed[t].made[i]] = links[seed[t].made[i]]
              /\ TagsOf(seed[t].made[i])' = TagsOf(seed[t].made[i]),
           MadeOK(s)', CallFits(s)', EndOK(s)', AccountMade'
    PROVE  WholeInv'
<1>1. ASSUME NEW t \in Reqs PROVE MadeOK(t)' /\ CallFits(t)' /\ EndOK(t)'
  <2>1. CASE t = s
    BY <2>1
  <2>2. CASE t # s
    BY <2>2, RunStays
  <2>3. QED
    BY <2>1, <2>2
<1>2. QED
  BY <1>1 DEF WholeInv

\* The account is accounted for when no step makes it and the runs keep theirs.
LEMMA AccountStaysMade ==
    ASSUME RunsInv, WholeInv, [Next]_vars, Taken(DemoEmail)' => Taken(DemoEmail),
           \A t \in Reqs : seed'[t].user = seed[t].user
    PROVE  AccountMade'
  BY ErrorsGrow DEF RunsInv, AuthInv, WholeInv, AccountMade

\* A run that moves on and nothing else.
LEMMA SeedMoved ==
    ASSUME SeedInv, NEW s \in Reqs, NEW pc, SeedGoesTo(s, pc)
    PROVE  /\ seed'[s].pc = pc
           /\ seed'[s].user = seed[s].user /\ seed'[s].made = seed[s].made
           /\ \A t \in Reqs \ {s} : seed'[t] = seed[t]
  BY DEF SeedInv, Seed, SeedGoesTo

\* Only the script takes the address of the demo account.
LEMMA DemoAddress ==
    ASSUME RunsInv, [Next]_vars, ~ \E s \in Reqs : CreateDemoUser(s), Taken(DemoEmail)'
    PROVE  Taken(DemoEmail)
<1>1. CASE UNCHANGED users
  BY <1>1 DEF Taken, HasAccount
<1>2. ASSUME NEW c \in Calls, CreateUser(c) PROVE Taken(DemoEmail)
  <2>1. PICK u \in Users : users'[u].email = DemoEmail
    BY DEF Taken, HasAccount
  <2>2. call[c].email # DemoEmail
    BY <1>2, AuthAssumption DEF CreateUser, RunsInv, AuthInv, CallOK
  <2>3. users \in [Users -> Account \cup {NoAccount}]
    BY DEF RunsInv, AuthInv, UsersOK
  <2>4. ASSUME NEW v \in Users, InsertUser(v, call[c].email, call[c].password)
        PROVE  users[u].email = DemoEmail
    BY <2>1, <2>2, <2>3, <2>4 DEF InsertUser
  <2>5. QED
    BY <1>1, <1>2, <2>4 DEF CreateUser, Taken, HasAccount
<1>3. ASSUME NEW c \in Calls, CallStep(c) PROVE Taken(DemoEmail)
  BY <1>1, <1>2, <1>3 DEF CallStep, Register, Login, Me
<1>4. QED
  BY <1>1, <1>3 DEF Next, SeedStep, Start, CreateDemoLink, TagsReplaced, Kill, vars, tables

\* An address that is taken stays taken, and errors and kills stay counted.
LEMMA NothingForgotten ==
    ASSUME RunsInv, [Next]_vars
    PROVE  /\ Taken(DemoEmail) => Taken(DemoEmail)'
           /\ dbErrors # 0 => dbErrors' # 0
           /\ Throws(FALSE) => dbErrors' # 0
           /\ \A x : AnswerLost(x) => dbErrors' # 0
           /\ Throws(Taken(DemoEmail)) => Taken(DemoEmail) \/ dbErrors' # 0
<1>1. Taken(DemoEmail) => Taken(DemoEmail)'
  BY AddressesStay, NullIsNoAnswer DEF RunsInv, Taken, HasAccount, AnyEmail
<1>2. dbErrors \in Nat /\ (dbErrors # 0 => dbErrors' # 0)
  BY ErrorsGrow DEF RunsInv, AuthInv
<1>3. /\ Throws(FALSE) => dbErrors' # 0
      /\ \A x : AnswerLost(x) => dbErrors' # 0
      /\ Throws(Taken(DemoEmail)) => Taken(DemoEmail) \/ dbErrors' # 0
  BY <1>2 DEF Throws, AnswerLost
<1>4. QED
  BY <1>1, <1>2, <1>3

\* A run that starts finds the account or goes on to make it.
LEMMA StartWhole ==
    ASSUME RunsInv, WholeInv, [Next]_vars, NEW s \in Reqs, Start(s)
    PROVE  WholeInv'
<1>1. /\ seed[s].pc = "new" /\ UNCHANGED <<links, tagsOnLinks, users, repl>>
      /\ SeedInv
  BY DEF Start, RunsInv
<1>2. PICK pc \in {"skipped", "user", "rejected"} :
          /\ SeedGoesTo(s, pc)
          /\ pc = "skipped" => Taken(DemoEmail)
          /\ pc = "rejected" => Throws(FALSE)
  BY DEF Start, Succeeds
<1>3. /\ seed'[s].pc = pc
      /\ seed'[s].user = seed[s].user /\ seed'[s].made = seed[s].made
      /\ \A t \in Reqs \ {s} : seed'[t] = seed[t]
  BY <1>1, <1>2, SeedMoved
<1>4. seed[s].user = NULL /\ repl[s].pc \in {"idle", "ok", "err"}
  BY <1>1 DEF WholeInv, EndOK, CallFits
<1>5. MadeOK(s)' /\ CallFits(s)'
  BY <1>1, <1>2, <1>3, <1>4 DEF MadeOK, CallFits
<1>6. EndOK(s)'
  BY <1>2, <1>3, <1>4, NothingForgotten DEF EndOK
<1>7. AccountMade'
  BY <1>1, <1>3, AccountStaysMade DEF Taken, HasAccount
<1>8. \A l : links'[l] = links[l] /\ TagsOf(l)' = TagsOf(l)
  BY <1>1 DEF TagsOf
<1>9. QED
  BY <1>1, <1>3, <1>5, <1>6, <1>7, <1>8, OneRunSteps

\* A run that makes the account goes on to its links, and one that cannot has
\* lost the address to another or the connection.
LEMMA CreateDemoUserWhole ==
    ASSUME RunsInv, WholeInv, [Next]_vars, NEW s \in Reqs, CreateDemoUser(s)
    PROVE  WholeInv'
<1>1. /\ seed[s].pc = "user" /\ UNCHANGED <<links, tagsOnLinks, repl>>
      /\ SeedInv
  BY DEF CreateDemoUser, RunsInv
<1>2. seed[s].user = NULL /\ repl[s].pc \in {"idle", "ok", "err"} /\ seed[s].made = <<>>
  BY <1>1 DEF WholeInv, EndOK, CallFits, SeedInv, RunOK
<1>3. \A l : links'[l] = links[l] /\ TagsOf(l)' = TagsOf(l)
  BY <1>1 DEF TagsOf
<1>4. ASSUME SeedGoesTo(s, "rejected"), Throws(Taken(DemoEmail)), UNCHANGED users
      PROVE  WholeInv'
  <2>1. /\ seed'[s].pc = "rejected"
        /\ seed'[s].user = seed[s].user /\ seed'[s].made = seed[s].made
        /\ \A t \in Reqs \ {s} : seed'[t] = seed[t]
    BY <1>1, <1>4, SeedMoved
  <2>2. MadeOK(s)' /\ CallFits(s)'
    BY <1>1, <1>2, <2>1 DEF MadeOK, CallFits
  <2>3. Taken(DemoEmail)' \/ dbErrors' # 0
    BY <1>4, NothingForgotten
  <2>4. EndOK(s)'
    BY <1>2, <2>1, <2>3 DEF EndOK
  <2>5. AccountMade'
    BY <1>4, <2>1, AccountStaysMade DEF Taken, HasAccount
  <2>6. QED
    BY <1>1, <1>3, <2>1, <2>2, <2>4, <2>5, OneRunSteps
<1>5. ASSUME NEW u \in Users,
             seed' = [seed EXCEPT ![s].pc = Remaining(<<>>), ![s].user = u]
      PROVE  WholeInv'
  <2>1. /\ seed'[s].pc = Remaining(<<>>)
        /\ seed'[s].user = u /\ seed'[s].made = <<>>
        /\ \A t \in Reqs \ {s} : seed'[t] = seed[t]
    BY <1>1, <1>2, <1>5 DEF SeedInv, Seed
  <2>2. Len(DemoTags) \in Nat /\ Len(<<>>) = 0
    BY SeedAssumption, LenProperties, EmptySeq
  <2>3. /\ seed'[s].pc \in {"link", "resolved"}
        /\ seed'[s].pc = "link" => 0 < Len(DemoTags)
        /\ seed'[s].pc = "resolved" => 0 = Len(DemoTags)
    BY <2>1, <2>2 DEF Remaining
  <2>4. u # NULL /\ Count(s)' = 0
    BY <2>1, <2>2, TablesAssumption DEF Count
  <2>5. MadeOK(s)' /\ CallFits(s)' /\ EndOK(s)'
    BY <1>1, <1>2, <2>1, <2>3, <2>4 DEF MadeOK, CallFits, EndOK
  <2>6. AccountMade'
    BY <2>1, <2>4 DEF AccountMade
  <2>7. QED
    BY <1>1, <1>3, <2>1, <2>5, <2>6, OneRunSteps
<1>6. ASSUME SeedGoesTo(s, "rejected"), AnswerLost(~Taken(DemoEmail)) PROVE WholeInv'
  <2>1. /\ seed'[s].pc = "rejected"
        /\ seed'[s].user = seed[s].user /\ seed'[s].made = seed[s].made
        /\ \A t \in Reqs \ {s} : seed'[t] = seed[t]
    BY <1>1, <1>6, SeedMoved
  <2>2. MadeOK(s)' /\ CallFits(s)'
    BY <1>1, <1>2, <2>1 DEF MadeOK, CallFits
  <2>3. dbErrors' # 0
    BY <1>6, NothingForgotten
  <2>4. EndOK(s)' /\ AccountMade'
    BY <1>2, <2>1, <2>3 DEF EndOK, AccountMade
  <2>5. QED
    BY <1>1, <1>3, <2>1, <2>2, <2>4, OneRunSteps
<1>7. QED
  BY <1>4, <1>5, <1>6 DEF CreateDemoUser

\* A run that makes a link calls replaceLinkTags for it.
LEMMA CreateDemoLinkWhole ==
    ASSUME RunsInv, WholeInv, [Next]_vars, NEW s \in Reqs, CreateDemoLink(s)
    PROVE  WholeInv'
<1>1. /\ seed[s].pc = "link" /\ UNCHANGED <<tags, tagsOnLinks, users>>
      /\ SeedInv /\ ReplTypeOK
      /\ MadeOK(s) /\ CallFits(s)
  BY DEF CreateDemoLink, RunsInv, StoreInv, WholeInv
<1>2. \A l : TagsOf(l)' = TagsOf(l)
  BY <1>1 DEF TagsOf
<1>3. /\ seed[s].user \in Users /\ seed[s].user # NULL /\ Count(s) \in Nat
      /\ \A i \in 1 .. Count(s) : seed[s].made[i] \in LinkIds
  BY <1>1, MadeTyped, TablesAssumption
<1>4. ASSUME UNCHANGED <<links, repl>>, SeedGoesTo(s, "rejected"), Throws(FALSE)
      PROVE  WholeInv'
  <2>1. /\ seed'[s].pc = "rejected"
        /\ seed'[s].user = seed[s].user /\ seed'[s].made = seed[s].made
        /\ \A t \in Reqs \ {s} : seed'[t] = seed[t]
    BY <1>1, <1>4, SeedMoved
  <2>2. dbErrors' # 0
    BY <1>4, NothingForgotten
  <2>3. MadeOK(s)' /\ CallFits(s)' /\ EndOK(s)'
    BY <1>1, <1>4, <2>1, <2>2 DEF MadeOK, CallFits, EndOK
  <2>4. AccountMade'
    BY <1>3, <2>1 DEF AccountMade
  <2>5. QED
    BY <1>2, <1>4, <2>1, <2>3, <2>4, OneRunSteps
<1>5. ASSUME NEW l \in LinkIds, links[l].status = "unborn",
             links' = [links EXCEPT ![l] =
                          [status |-> "READY", userId |-> seed[s].user,
                           failReason |-> NULL, title |-> s, summary |-> s]],
             seed' = [seed EXCEPT ![s].pc = "tags", ![s].made = Append(@, l)],
             StartReplace(s, seed[s].user, l, DemoTags[Len(seed[s].made) + 1])
      PROVE  WholeInv'
  <2>1. /\ links'[l].status = "READY"
        /\ \A k \in LinkIds \ {l} : links'[k] = links[k]
    BY <1>1, <1>5 DEF SeedInv
  <2>2. seed[s].made \in Seq(LinkIds)
    BY <1>1 DEF SeedInv, Seed
  <2>3. /\ Len(Append(seed[s].made, l)) = Count(s) + 1
        /\ \A i \in 1 .. Count(s) : Append(seed[s].made, l)[i] = seed[s].made[i]
        /\ Append(seed[s].made, l)[Count(s) + 1] = l
    BY <2>2, AppendProperties, LenProperties DEF Count
  <2>4. /\ seed'[s].pc = "tags" /\ seed'[s].user = seed[s].user
        /\ seed'[s].made = Append(seed[s].made, l)
        /\ \A t \in Reqs \ {s} : seed'[t] = seed[t]
    BY <1>1, <1>5 DEF SeedInv, Seed
  <2>5. Count(s)' = Count(s) + 1 /\ Newest(s)' = l
    BY <2>3, <2>4 DEF Count, Newest
  <2>6. Wanted(s)' = Normalized(DemoTags[Count(s) + 1])
    BY <2>5 DEF Wanted, Normalized
  <2>7. /\ \A t \in Reqs \ {s} : repl'[t] = repl[t]
        /\ repl'[s].user = seed[s].user /\ repl'[s].link = l
        /\ repl'[s].pc \in {"upsert", "delete"}
        /\ \A n \in Names : repl'[s].up[n] # "none" <=> n \in Normalized(DemoTags[Count(s) + 1])
    BY <1>1, <1>3, <1>5, CallStarts DEF Count
  <2>8. ASSUME NEW t \in Reqs, NEW i \in 1 .. Count(t)
        PROVE  links'[seed[t].made[i]] = links[seed[t].made[i]]
    <3>1. seed[t].made[i] \in LinkIds /\ links[seed[t].made[i]].status # "unborn"
      BY <1>1, MadeTyped DEF SeedInv, RunOK, Count
    <3>2. QED
      BY <1>5, <2>1, <3>1
  <2>9. \A i \in 1 .. Count(s) : Complete(s, i)'
    <3>1. ASSUME NEW i \in 1 .. Count(s) PROVE Complete(s, i)'
      <4>1. Complete(s, i)
        BY <1>1 DEF MadeOK
      <4>2. seed'[s].made[i] = seed[s].made[i]
        BY <2>3, <2>4
      <4>3. links'[seed[s].made[i]] = links[seed[s].made[i]]
        BY <2>8
      <4>4. QED
        BY <1>2, <2>4, <4>1, <4>2, <4>3 DEF Complete, Normalized
    <3>2. QED
      BY <3>1
  <2>10. MadeOK(s)'
    <3>1. Count(s) + 1 \in 1 .. Len(DemoTags)
      BY <1>1, <1>3, SeedAssumption, LenProperties DEF MadeOK
    <3>2. \A i \in 1 .. Count(s) + 1 : i # Count(s) + 1 => Complete(s, i)'
      BY <1>3, <2>9
    <3>3. QED
      BY <2>1, <2>4, <2>5, <3>1, <3>2 DEF MadeOK
  <2>11. CallFits(s)'
    BY <2>4, <2>5, <2>6, <2>7 DEF CallFits
  <2>12. EndOK(s)'
    BY <2>4 DEF EndOK
  <2>13. AccountMade'
    BY <1>3, <2>4 DEF AccountMade
  <2>14. QED
    BY <1>2, <2>4, <2>7, <2>8, <2>10, <2>11, <2>12, <2>13, OneRunSteps
<1>6. ASSUME NEW l \in LinkIds, links[l].status = "unborn", UNCHANGED repl,
             SeedGoesTo(s, "rejected"), AnswerLost(TRUE),
             links' = [links EXCEPT ![l] =
                          [status |-> "READY", userId |-> seed[s].user,
                           failReason |-> NULL, title |-> s, summary |-> s]]
      PROVE  WholeInv'
  <2>1. /\ seed'[s].pc = "rejected"
        /\ seed'[s].user = seed[s].user /\ seed'[s].made = seed[s].made
        /\ \A t \in Reqs \ {s} : seed'[t] = seed[t]
    BY <1>1, <1>6, SeedMoved
  <2>2. dbErrors' # 0
    BY <1>6, NothingForgotten
  <2>3. MadeOK(s)' /\ CallFits(s)' /\ EndOK(s)'
    BY <1>1, <1>6, <2>1, <2>2 DEF MadeOK, CallFits, EndOK
  <2>4. AccountMade'
    BY <1>3, <2>1 DEF AccountMade
  <2>5. \A k \in LinkIds \ {l} : links'[k] = links[k]
    BY <1>1, <1>6 DEF SeedInv
  <2>6. ASSUME NEW t \in Reqs, NEW i \in 1 .. Count(t)
        PROVE  links'[seed[t].made[i]] = links[seed[t].made[i]]
    <3>1. seed[t].made[i] \in LinkIds /\ links[seed[t].made[i]].status # "unborn"
      BY <1>1, MadeTyped DEF SeedInv, RunOK, Count
    <3>2. QED
      BY <1>6, <2>5, <3>1
  <2>7. QED
    BY <1>2, <1>6, <2>1, <2>3, <2>4, <2>6, OneRunSteps
<1>7. QED
  BY <1>4, <1>5, <1>6 DEF CreateDemoLink

\* A run whose call resolved has a complete link more.
LEMMA TagsReplacedWhole ==
    ASSUME RunsInv, WholeInv, [Next]_vars, NEW s \in Reqs, TagsReplaced(s)
    PROVE  WholeInv'
<1>1. /\ seed[s].pc = "tags" /\ UNCHANGED <<links, tagsOnLinks, users, repl, dbErrors>>
      /\ SeedInv
      /\ MadeOK(s) /\ CallFits(s)
  BY DEF TagsReplaced, RunsInv, WholeInv, tables
<1>2. \A l : links'[l] = links[l] /\ TagsOf(l)' = TagsOf(l)
  BY <1>1 DEF TagsOf
<1>3. seed[s].user # NULL /\ Count(s) \in Nat
  BY <1>1, MadeTyped, TablesAssumption
<1>4. PICK pc \in {"link", "resolved", "rejected"} :
          /\ SeedGoesTo(s, pc)
          /\ \/ repl[s].pc = "ok" /\ pc = Remaining(seed[s].made)
             \/ repl[s].pc = "err" /\ pc = "rejected"
  BY DEF TagsReplaced, Remaining
<1>5. /\ seed'[s].pc = pc
      /\ seed'[s].user = seed[s].user /\ seed'[s].made = seed[s].made
      /\ \A t \in Reqs \ {s} : seed'[t] = seed[t]
  BY <1>1, <1>4, SeedMoved
<1>6. CallFits(s)'
  BY <1>1, <1>4, <1>5 DEF CallFits
<1>7. MadeOK(s)'
  <2>1. CASE pc = "rejected"
    BY <1>5, <2>1 DEF MadeOK
  <2>2. CASE repl[s].pc = "ok" /\ pc = Remaining(seed[s].made)
    <3>1. Count(s) \in 1 .. Len(DemoTags) /\ Len(DemoTags) \in Nat
      BY <1>1, SeedAssumption, LenProperties DEF MadeOK
    <3>2. /\ pc = "link" => Count(s) < Len(DemoTags)
          /\ pc = "resolved" => Count(s) = Len(DemoTags)
          /\ pc \in {"link", "resolved"}
      BY <2>2, <3>1 DEF Remaining, Count
    <3>3. Complete(s, Count(s))
      BY <1>1, <2>2 DEF MadeOK, CallFits, Complete, Newest, Wanted
    <3>4. \A i \in 1 .. Count(s) : Complete(s, i)
      BY <1>1, <3>3 DEF MadeOK
    <3>5. Count(s)' = Count(s) /\ \A i \in 1 .. Count(s) : Complete(s, i)'
      BY <1>2, <1>5, <3>4 DEF Count, Complete, Normalized
    <3>6. QED
      BY <1>3, <1>5, <3>2, <3>5 DEF MadeOK
  <2>3. QED
    BY <1>4, <2>1, <2>2
<1>8. EndOK(s)'
  <2>1. pc = "rejected" => repl[s].pc = "err"
    BY <1>4 DEF Remaining
  <2>2. QED
    BY <1>1, <1>4, <1>5, <2>1 DEF CallFits, EndOK
<1>9. AccountMade'
  BY <1>3, <1>5 DEF AccountMade
<1>10. QED
  BY <1>1, <1>2, <1>5, <1>6, <1>7, <1>8, <1>9, OneRunSteps

\* A call under way for one run leaves the links of all others, and those
\* behind its own run.
LEMMA ReplWhole ==
    ASSUME RunsInv, WholeInv, [Next]_vars, NEW s \in Reqs, ReplStep(s),
           UNCHANGED <<users, seed, kills>>
    PROVE  WholeInv'
<1>1. /\ TablesTypeOK /\ ReplTypeOK /\ CallWell(s) /\ SeedInv
      /\ MadeOK(s) /\ CallFits(s) /\ EndOK(s)
  BY DEF RunsInv, StoreInv, WholeInv
<1>2. /\ UNCHANGED links
      /\ \/ UpsertMoves(s) /\ UNCHANGED tagsOnLinks
         \/ (DeleteTagRows(s) \/ CreateTagRows(s)) /\ UNCHANGED tags
  BY <1>1, ReplStepIs
<1>3. AccountMade'
  BY AccountStaysMade DEF Taken, HasAccount
<1>4. /\ Count(s)' = Count(s) /\ Newest(s)' = Newest(s) /\ Wanted(s)' = Wanted(s)
      /\ Count(s) \in Nat
      /\ \A i \in 1 .. Count(s) : seed[s].made[i] \in LinkIds
      /\ seed[s].pc \in {"link", "tags"} => seed[s].user \in Users
  BY <1>1, MadeTyped DEF Count, Newest, Wanted, Normalized
<1>5. EndOK(s)'
  BY <1>1, NothingForgotten DEF EndOK
<1>6. CASE UpsertMoves(s) /\ UNCHANGED tagsOnLinks
  <2>1. /\ \A t \in Reqs \ {s} : repl'[t] = repl[t]
        /\ repl'[s].user = repl[s].user /\ repl'[s].link = repl[s].link
        /\ repl[s].pc \in {"upsert", "err"}
        /\ \A n \in Names : repl'[s].up[n] = "none" <=> repl[s].up[n] = "none"
        /\ \/ repl'[s].pc = repl[s].pc
           \/ repl'[s].pc = "delete" /\ repl[s].pc = "upsert"
           \/ repl'[s].pc = "err" /\ Throws(FALSE)
    BY <1>1, <1>6, UpsertMoved
  <2>2. \A l : links'[l] = links[l] /\ TagsOf(l)' = TagsOf(l)
    BY <1>2, <1>6 DEF TagsOf
  <2>3. MadeOK(s)'
    BY <1>1, <1>4, <2>2 DEF MadeOK, Complete, Normalized
  <2>4. CallFits(s)'
    BY <1>1, <1>4, <2>1, NothingForgotten DEF CallFits
  <2>5. QED
    BY <1>3, <1>5, <2>1, <2>2, <2>3, <2>4, OneRunSteps
<1>7. CASE (DeleteTagRows(s) \/ CreateTagRows(s)) /\ UNCHANGED tags
  <2>1. /\ \A t \in Reqs \ {s} : repl'[t] = repl[t]
        /\ repl'[s].user = repl[s].user /\ repl'[s].link = repl[s].link
        /\ repl'[s].up = repl[s].up
        /\ repl[s].pc \in {"delete", "create"}
        /\ repl'[s].pc \in {"create", "ok", "err"}
        /\ \A l \in LinkIds \ {repl[s].link} : TagsOf(l)' = TagsOf(l)
    BY <1>1, <1>7, RowsMoved
  <2>2. /\ seed[s].pc = "tags" /\ repl[s].link = Newest(s) /\ repl[s].user = seed[s].user
        /\ seed[s].user \in Users
        /\ Count(s) \in 1 .. Count(s) /\ Newest(s) = seed[s].made[Count(s)]
        /\ Newest(s) \in LinkIds
    BY <1>1, <1>4, <2>1 DEF CallFits, MadeOK, Newest
  <2>3. ASSUME NEW t \in Reqs \ {s}, NEW i \in 1 .. Count(t)
        PROVE  /\ links'[seed[t].made[i]] = links[seed[t].made[i]]
               /\ TagsOf(seed[t].made[i])' = TagsOf(seed[t].made[i])
    <3>1. Count(t) # 0 => seed[t].user # NULL
      BY <1>1, MadeTyped, TablesAssumption
    <3>2. seed[s].user # NULL
      BY <2>2, TablesAssumption
    <3>3. QED
      BY <1>1, <3>1, <3>2, MadeTyped DEF SeedInv
  <2>4. ASSUME NEW i \in 1 .. Count(s), i # Count(s) PROVE Complete(s, i)'
    <3>0. MadeOK(s) /\ RunOK(s)
      BY <1>1 DEF SeedInv
    <3>1. Complete(s, i)
      BY <2>2, <2>4, <3>0 DEF MadeOK
    <3>2. seed[s].made[i] # Newest(s)
      BY <2>2, <2>4, <3>0 DEF RunOK, Count
    <3>3. TagsOf(seed[s].made[i])' = TagsOf(seed[s].made[i])
      BY <1>4, <2>1, <2>2, <3>2
    <3>4. QED
      BY <1>2, <3>1, <3>3 DEF Complete, Normalized
  <2>5. MadeOK(s)'
    BY <1>1, <1>2, <1>4, <2>2, <2>4 DEF MadeOK
  <2>6. NewTags(s) = {seed[s].user} \X Wanted(s)
    <3>1. \A n \in Names : repl[s].up[n] = "done" <=> n \in Wanted(s)
      BY <1>1, <2>1, <2>2 DEF CallWell, CallFits, Settled
    <3>2. Wanted(s) \subseteq Names
      <4>1. Count(s) \in 1 .. Len(DemoTags)
        BY <1>1, <2>2 DEF MadeOK
      <4>2. DemoTags[Count(s)] \in SUBSET RawNames
        BY <4>1, SeedAssumption, ElementOfSeq
      <4>3. QED
        BY <4>2, FoldAssumption DEF Wanted, Normalized
    <3>3. QED
      BY <2>2, <3>1, <3>2 DEF NewTags, TagOf
  <2>7. NewTags(s) \subseteq Tag
    BY <2>2 DEF NewTags, TagOf, Tag
  <2>8. CallFits(s)'
    <3>1. CASE repl'[s].pc = "err"
      <4>1. Throws(FALSE)
        <5>1. CASE DeleteTagRows(s)
          BY <1>1, <3>1, <5>1 DEF DeleteTagRows, ReplTypeOK, Repl, ReplGoesTo, AnswerLost, Throws
        <5>2. CASE CreateTagRows(s)
          <6>1. TagsOf(repl[s].link) = {} /\ Live(repl[s].link)
            BY <1>1, <2>2, <5>2 DEF CreateTagRows, CallFits, MadeOK, Live, LinkStatus,
                                    ReplGoesTo
          <6>2. Throws(~Live(repl[s].link) \/ NewTags(s) \cap TagsOf(repl[s].link) # {})
            BY <1>1, <3>1, <5>2 DEF CreateTagRows, ReplTypeOK, Repl, ReplGoesTo, AnswerLost,
                                    Throws
          <6>3. QED
            BY <6>1, <6>2 DEF Throws
        <5>3. QED
          BY <1>7, <5>1, <5>2
      <4>2. QED
        BY <1>1, <1>4, <2>1, <2>2, <3>1, <4>1, NothingForgotten DEF CallFits
    <3>2. CASE DeleteTagRows(s) /\ repl'[s].pc # "err"
      <4>1. /\ tagsOnLinks' = {p \in tagsOnLinks : p[1] # repl[s].link}
            /\ repl'[s].pc = IF NewTags(s) = {} THEN "ok" ELSE "create"
        BY <1>1, <3>2 DEF DeleteTagRows, ReplTypeOK, Repl, ReplGoesTo
      <4>2. TagsOf(Newest(s))' = {}
        BY <1>4, <2>2, <4>1 DEF TagsOf
      <4>3. repl'[s].pc = "ok" => {seed[s].user} \X Wanted(s) = {}
        BY <2>6, <4>1
      <4>4. QED
        BY <1>1, <1>4, <2>1, <2>2, <4>1, <4>2, <4>3 DEF CallFits
    <3>3. CASE CreateTagRows(s) /\ repl'[s].pc # "err"
      <4>1. /\ tagsOnLinks' = tagsOnLinks \cup {<<repl[s].link, t>> : t \in NewTags(s)}
            /\ repl'[s].pc = "ok"
            /\ repl[s].pc = "create"
        BY <1>1, <3>3 DEF CreateTagRows, ReplTypeOK, Repl, ReplGoesTo
      <4>2. TagsOf(Newest(s)) = {}
        BY <1>1, <2>2, <4>1 DEF CallFits
      <4>3. TagsOf(Newest(s))' = NewTags(s)
        BY <1>4, <2>2, <2>7, <4>1, <4>2 DEF TagsOf
      <4>4. QED
        BY <1>1, <1>4, <2>1, <2>2, <2>6, <4>1, <4>3 DEF CallFits
    <3>4. QED
      BY <1>7, <3>1, <3>2, <3>3
  <2>9. QED
    BY <1>3, <1>5, <2>1, <2>3, <2>5, <2>8, OneRunSteps
<1>8. QED
  BY <1>2, <1>6, <1>7

\* A run that is killed is counted.
LEMMA KillWhole ==
    ASSUME RunsInv, WholeInv, [Next]_vars, NEW s \in Reqs, Kill(s)
    PROVE  WholeInv'
<1>1. /\ SeedGoesTo(s, "killed") /\ UNCHANGED <<links, tagsOnLinks, users>>
      /\ repl' = [repl EXCEPT ![s] = IdleRepl] /\ kills' = kills + 1
      /\ SeedInv /\ ReplTypeOK /\ kills \in Nat
  BY SeedAssumption DEF Kill, RunsInv, StoreInv, tables
<1>2. /\ seed'[s].pc = "killed"
      /\ seed'[s].user = seed[s].user /\ seed'[s].made = seed[s].made
      /\ \A t \in Reqs \ {s} : seed'[t] = seed[t]
  BY <1>1, SeedMoved
<1>3. repl'[s].pc = "idle" /\ \A t \in Reqs \ {s} : repl'[t] = repl[t]
  BY <1>1 DEF ReplTypeOK, IdleRepl
<1>4. MadeOK(s)' /\ CallFits(s)' /\ EndOK(s)'
  BY <1>1, <1>2, <1>3 DEF MadeOK, CallFits, EndOK
<1>5. AccountMade'
  BY <1>1, <1>2, AccountStaysMade DEF Taken, HasAccount
<1>6. \A l : links'[l] = links[l] /\ TagsOf(l)' = TagsOf(l)
  BY <1>1 DEF TagsOf
<1>7. QED
  BY <1>2, <1>3, <1>4, <1>5, <1>6, OneRunSteps

\* Every step keeps the runs' links complete.
LEMMA WholeInvStep == RunsInv /\ WholeInv /\ [Next]_vars => WholeInv'
<1> SUFFICES ASSUME RunsInv, WholeInv, [Next]_vars PROVE WholeInv'
  OBVIOUS
<1>1. ASSUME UNCHANGED <<links, tagsOnLinks, seed, repl>>, Taken(DemoEmail)' => Taken(DemoEmail)
      PROVE  WholeInv'
  <2>1. \A l : links'[l] = links[l] /\ TagsOf(l)' = TagsOf(l)
    BY <1>1 DEF TagsOf
  <2>2. \A s \in Reqs : MadeOK(s)' /\ CallFits(s)' /\ EndOK(s)'
    BY <1>1, <2>1, RunStays
  <2>3. AccountMade'
    BY <1>1, AccountStaysMade
  <2>4. QED
    BY <2>2, <2>3 DEF WholeInv
<1>2. ASSUME NEW c \in Calls, CallStep(c), UNCHANGED <<repl, seed, kills>> PROVE WholeInv'
  <2>1. UNCHANGED <<links, tagsOnLinks>>
    BY <1>2 DEF CallStep, Register, Login, CreateUser, Me
  <2>2. ~ \E s \in Reqs : CreateDemoUser(s)
    <3>1. ASSUME NEW s \in Reqs, CreateDemoUser(s) PROVE FALSE
      <4>1. seed[s].pc = "user" /\ seed' = seed
        BY <1>2, <3>1 DEF CreateDemoUser
      <4>2. seed'[s].pc \in {"rejected", "link", "resolved"}
        BY <3>1 DEF CreateDemoUser, SeedGoesTo, Remaining, RunsInv, SeedInv, Seed
      <4>3. QED
        BY <4>1, <4>2
    <3>2. QED
      BY <3>1
  <2>3. QED
    BY <1>1, <1>2, <2>1, <2>2, DemoAddress
<1>3. ASSUME NEW s \in Reqs, SeedStep(s) PROVE WholeInv'
  BY <1>3, StartWhole, CreateDemoUserWhole, CreateDemoLinkWhole, TagsReplacedWhole DEF SeedStep
<1>4. ASSUME NEW s \in Reqs, ReplStep(s), UNCHANGED <<users, seed, kills>> PROVE WholeInv'
  BY <1>4, ReplWhole
<1>5. ASSUME NEW s \in Reqs, Kill(s) PROVE WholeInv'
  BY <1>5, KillWhole
<1>6. CASE UNCHANGED vars
  BY <1>1, <1>6 DEF vars, tables, Taken, HasAccount
<1>7. QED
  BY <1>2, <1>3, <1>4, <1>5, <1>6 DEF Next

\* What a run that ended well leaves, and what a set of runs does that nothing
\* disturbed: the invariant says enough for both.
THEOREM SeededWhole == Spec => []SeedWhole
<1>1. Init => WholeInv
  <2> SUFFICES ASSUME Init PROVE WholeInv
    OBVIOUS
  <2>1. \A s \in Reqs : /\ seed[s].pc = "new" /\ seed[s].user = NULL
                        /\ repl[s].pc = "idle"
    BY DEF Init, ReplInit, IdleRepl
  <2>2. ~Taken(DemoEmail)
    BY NullIsNoAnswer DEF Init, AuthInit, NoAccount, Taken, HasAccount, AnyEmail
  <2>3. QED
    BY <2>1, <2>2 DEF WholeInv, MadeOK, CallFits, EndOK, AccountMade
<1>2. RunsInv /\ WholeInv => SeedWhole
  <2> SUFFICES ASSUME RunsInv, WholeInv PROVE SeedWhole
    OBVIOUS
  <2>1. ASSUME NEW s \in Reqs, seed[s].pc = "resolved" PROVE Whole(s)
    <3>1. /\ Count(s) = Len(DemoTags) /\ seed[s].user # NULL
          /\ \A i \in 1 .. Count(s) : Complete(s, i)
      BY <2>1 DEF WholeInv, MadeOK
    <3>2. DOMAIN DemoTags = 1 .. Len(DemoTags)
      BY SeedAssumption, LenProperties
    <3>3. ASSUME NEW i \in DOMAIN DemoTags
          PROVE  /\ links[seed[s].made[i]].status = "READY"
                 /\ {t[2] : t \in TagsOf(seed[s].made[i])} = Normalized(DemoTags[i])
      <4> DEFINE N == Normalized(DemoTags[i])
                 T == {seed[s].user} \X N
      <4>1. links[seed[s].made[i]].status = "READY" /\ TagsOf(seed[s].made[i]) = T
        BY <3>1, <3>2, <3>3 DEF Complete
      <4>2. \A n \in N : <<seed[s].user, n>> \in T /\ <<seed[s].user, n>>[2] = n
        OBVIOUS
      <4>3. \A t \in T : t[2] \in N
        OBVIOUS
      <4> HIDE DEF N, T
      <4>4. {t[2] : t \in T} = N
        BY <4>2, <4>3
      <4>5. QED
        BY <4>1, <4>4 DEF N
    <3>4. QED
      BY <3>1, <3>3 DEF Whole, Count
  <2>2. ASSUME dbErrors = 0, kills = 0, \A s \in Reqs : Over(s), Reqs # {}
        PROVE  \E s \in Reqs : Whole(s)
    <3>1. ASSUME NEW s \in Reqs
          PROVE  /\ seed[s].pc \in {"resolved", "skipped", "rejected"}
                 /\ seed[s].pc # "resolved" => Taken(DemoEmail) /\ seed[s].user = NULL
      <4>1. seed[s].pc \in SeedPc
        BY DEF RunsInv, SeedInv, Seed
      <4>2. QED
        BY <2>2, <4>1 DEF Over, SeedPc, WholeInv, EndOK
    <3>2. \E s \in Reqs : seed[s].pc = "resolved"
      BY <2>2, <3>1 DEF WholeInv, AccountMade
    <3>3. QED
      BY <2>1, <3>2
  <2>3. QED
    BY <2>1, <2>2 DEF SeedWhole
<1>3. QED
  BY <1>1, <1>2, WholeInvStep, RunsInvariant, PTL DEF Spec

=============================================================================
