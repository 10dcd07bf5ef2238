----------------------------- MODULE AuthService -----------------------------
(***************************************************************************)
(* backend/src/auth: register, login and me, over the table User.  Each    *)
(* call of the API is one of Calls.  An account is never changed or        *)
(* deleted, so a login, which works on the row its one statement read, is  *)
(* a single step; a registration is two statements with a bcrypt.hash      *)
(* between them.                                                           *)
(***************************************************************************)
EXTENDS LinkTables

CONSTANTS
    Emails,       \* the addresses and ...
    Passwords,    \* ... passwords RegisterSchema lets through
    DemoEmail,    \* "admin" and "admin", which only LoginSchema does
    DemoPassword,
    Calls         \* API calls; each is made once

AnyEmail == Emails \cup {DemoEmail}
AnyPassword == Passwords \cup {DemoPassword}

AuthCode == {"200", "201", "401", "409", "500"}

ASSUME AuthAssumption ==
    /\ DemoEmail \notin Emails
    /\ NULL \notin AnyEmail
    /\ NULL \notin AnyPassword
    /\ NULL \notin AuthCode

VARIABLES
    users,        \* table User: email (@unique) and password behind each key
    call          \* the API calls

Account == [email : AnyEmail, password : AnyPassword]

NoAccount == [email |-> NULL, password |-> NULL]

\* user is the account the answer names: the id of a 201 and of a me, the sub
\* of the token of a login.
Call == [pc       : {"new", "insert", "done"},
         op       : {"register", "login", "me", NULL},
         email    : AnyEmail \cup {NULL},
         password : AnyPassword \cup {NULL},
         user     : Users \cup {NULL},
         code     : AuthCode \cup {NULL}]

NewCall == [pc |-> "new", op |-> NULL, email |-> NULL, password |-> NULL,
            user |-> NULL, code |-> NULL]

AuthTypeOK ==
    /\ users \in [Users -> Account \cup {NoAccount}]
    /\ call \in [Calls -> Call]

AuthInit ==
    /\ users = [u \in Users |-> NoAccount]
    /\ call = [c \in Calls |-> NewCall]

HasAccount(u, email) == users[u].email = email

Taken(email) == \E u \in Users : HasAccount(u, email)

\* Call c is answered; user is whom the answer names, if anyone.
AnswerCall(c, op, email, password, user, code) ==
    call' = [call EXCEPT ![c] =
                [pc |-> "done", op |-> op, email |-> email, password |-> password,
                 user |-> user, code |-> code]]

\* Registration c goes on to its INSERT.
HoldCall(c, email, password) ==
    call' = [call EXCEPT ![c] =
                [pc |-> "insert", op |-> "register", email |-> email,
                 password |-> password, user |-> NULL, code |-> NULL]]

\* INSERT INTO User: the key is new and the address unique.
InsertUser(u, email, password) ==
    /\ users[u] = NoAccount
    /\ users' = [users EXCEPT ![u] = [email |-> email, password |-> password]]

-----------------------------------------------------------------------------

\* Variant for RefusalMeansTaken: a lock in memory on the addresses that are
\* being registered, which need not come to be.
RegisterLocks(c, email, password) ==
    LET locked == \E d \in Calls : call[d].pc = "insert" /\ call[d].email = email
    IN  /\ call[c].pc = "new"
        /\ Succeeds(TRUE)
        /\ IF Taken(email) \/ locked
           THEN AnswerCall(c, "register", email, password, NULL, "409")
           ELSE HoldCall(c, email, password)
        /\ UNCHANGED <<links, tags, tagsOnLinks, users>>

\* findUnique: 409 if the address is taken, else on to hash and INSERT.
Register(c, email, password) ==
    /\ call[c].pc = "new"
    /\ \/ /\ Succeeds(~Taken(email))
          /\ HoldCall(c, email, password)
       \/ /\ Succeeds(Taken(email))
          /\ AnswerCall(c, "register", email, password, NULL, "409")
       \/ /\ Throws(FALSE)
          /\ AnswerCall(c, "register", email, password, NULL, "500")
    /\ UNCHANGED <<links, tags, tagsOnLinks, users>>

\* Variant for AddressTakenOnce: email is an index, but not @unique.
CreateUserNotUnique(c) ==
    LET email == call[c].email
    IN  /\ call[c].pc = "insert"
        /\ \E u \in Users :
              /\ Succeeds(TRUE)
              /\ InsertUser(u, email, call[c].password)
              /\ AnswerCall(c, "register", email, call[c].password, u, "201")
        /\ UNCHANGED <<links, tags, tagsOnLinks>>

\* Variant for AnswersStand: an upsert in place of the create.
CreateUserUpserts(c) ==
    LET email == call[c].email
        password == call[c].password
    IN  /\ call[c].pc = "insert"
        /\ Succeeds(TRUE)
        /\ \E u \in Users :
              /\ HasAccount(u, IF Taken(email) THEN email ELSE NULL)
              /\ users' = [users EXCEPT ![u] = [email |-> email, password |-> password]]
              /\ AnswerCall(c, "register", email, password, u, "201")
        /\ UNCHANGED <<links, tags, tagsOnLinks>>

\* The INSERT; an address taken meanwhile is P2002, and nobody catches it.
CreateUser(c) ==
    LET email == call[c].email
        password == call[c].password
    IN  /\ call[c].pc = "insert"
        /\ \/ \E u \in Users :
                 /\ InsertUser(u, email, password)
                 /\ \/ /\ Succeeds(~Taken(email))
                       /\ AnswerCall(c, "register", email, password, u, "201")
                    \/ /\ AnswerLost(~Taken(email))
                       /\ AnswerCall(c, "register", email, password, NULL, "500")
           \/ /\ Throws(Taken(email))
              /\ AnswerCall(c, "register", email, password, NULL, "500")
              /\ UNCHANGED users
        /\ UNCHANGED <<links, tags, tagsOnLinks>>

\* findUnique, bcrypt.compare and a token for the account.
Login(c, email, password) ==
    /\ call[c].pc = "new"
    /\ \/ \E u \in Users :
             /\ Succeeds(users[u] = [email |-> email, password |-> password])
             /\ AnswerCall(c, "login", email, password, u, "200")
       \/ /\ Succeeds([email |-> email, password |-> password]
                         \notin {users[u] : u \in Users})
          /\ AnswerCall(c, "login", email, password, NULL, "401")
       \/ /\ Throws(FALSE)
          /\ AnswerCall(c, "login", email, password, NULL, "500")
    /\ UNCHANGED <<links, tags, tagsOnLinks, users>>

\* GET /auth/me with the token login d was answered, which may have expired.
Me(c, d) ==
    LET u == call[d].user
    IN  /\ call[c].pc = "new"
        /\ call[d].op = "login" /\ call[d].code = "200"
        /\ \/ /\ Succeeds(users[u] # NoAccount)
              /\ AnswerCall(c, "me", users[u].email, NULL, u, "200")
           \/ /\ Succeeds(TRUE)
              /\ AnswerCall(c, "me", NULL, NULL, NULL, "401")
           \/ /\ Throws(users[u] = NoAccount)
              /\ AnswerCall(c, "me", NULL, NULL, NULL, "500")
        /\ UNCHANGED <<links, tags, tagsOnLinks, users>>

CallStep(c) ==
    \/ \E email \in Emails, password \in Passwords : Register(c, email, password)
    \/ \E email \in AnyEmail, password \in AnyPassword : Login(c, email, password)
    \/ CreateUser(c)
    \/ \E d \in Calls : Me(c, d)

=============================================================================
