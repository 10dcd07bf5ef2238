------------------------------ MODULE SeedDemo ------------------------------
(***************************************************************************)
(* backend/scripts/seed-demo.ts: a script an operator runs against the     *)
(* database of a live server.  It makes the account DemoEmail and its      *)
(* links, one statement after the other, and skips everything when the     *)
(* account is there.  Reqs are here the runs of the script, each a process *)
(* of its own that may be killed; the API's registrations and logins go on *)
(* beside them.                                                            *)
(***************************************************************************)
EXTENDS AuthService, TagsUtil, Sequences

CONSTANTS
    DemoTags,     \* DEMO_LINKS: the tag list of each
    MaxKills      \* bound on runs that are killed half-way

ASSUME SeedAssumption ==
    /\ DemoTags \in Seq(SUBSET RawNames)
    /\ MaxKills \in Nat

VARIABLES
    seed,         \* the runs of the script
    kills         \* how many were killed

vars == <<tables, users, call, repl, seed, kills>>

SeedPc == {"new", "user", "link", "tags", "resolved", "skipped", "rejected", "killed"}

\* user is the account the run made, made its links so far, in the order of
\* DEMO_LINKS.
Seed == [pc : SeedPc, user : Users \cup {NULL}, made : Seq(LinkIds)]

TypeOK ==
    /\ TablesTypeOK
    /\ AuthTypeOK
    /\ ReplTypeOK
    /\ seed \in [Reqs -> Seed]
    /\ \A s \in Reqs : seed[s].pc \in {"link", "tags"} => seed[s].user \in Users
    /\ kills \in 0 .. MaxKills

Init ==
    /\ TablesInit
    /\ AuthInit
    /\ ReplInit
    /\ seed = [s \in Reqs |-> [pc |-> "new", user |-> NULL, made |-> <<>>]]
    /\ kills = 0

SeedGoesTo(s, pc) == seed' = [seed EXCEPT ![s].pc = pc]

\* Where a run goes when the next thing to do is the next link.
Remaining(made) == IF Len(made) = Len(DemoTags) THEN "resolved" ELSE "link"

-----------------------------------------------------------------------------

\* findUnique of the demo account, and the hash.
Start(s) ==
    /\ seed[s].pc = "new"
    /\ \/ Succeeds(Taken(DemoEmail)) /\ SeedGoesTo(s, "skipped")
       \/ Succeeds(~Taken(DemoEmail)) /\ SeedGoesTo(s, "user")
       \/ Throws(FALSE) /\ SeedGoesTo(s, "rejected")
    /\ UNCHANGED <<links, tags, tagsOnLinks, users, repl>>

\* Variant for SeedOnce: an upsert in place of the create.
CreateDemoUserUpserts(s) ==
    /\ seed[s].pc = "user"
    /\ Succeeds(TRUE)
    /\ \E u \in Users :
          /\ HasAccount(u, IF Taken(DemoEmail) THEN DemoEmail ELSE NULL)
          /\ users' = [users EXCEPT ![u] =
                          [email |-> DemoEmail, password |-> DemoPassword]]
          /\ seed' = [seed EXCEPT ![s].pc = "link", ![s].user = u]
    /\ UNCHANGED <<links, tags, tagsOnLinks, repl>>

\* Variant for TypeOK: the answer of the create is thrown away.
CreateDemoUserForgets(s) ==
    /\ seed[s].pc = "user"
    /\ \E u \in Users :
          /\ Succeeds(~Taken(DemoEmail))
          /\ InsertUser(u, DemoEmail, DemoPassword)
          /\ SeedGoesTo(s, "link")
    /\ UNCHANGED <<links, tags, tagsOnLinks, repl>>

CreateDemoUser(s) ==
    /\ seed[s].pc = "user"
    /\ \/ \E u \in Users :
             /\ \/ /\ Succeeds(~Taken(DemoEmail))
                   /\ seed' = [seed EXCEPT ![s].pc = Remaining(<<>>), ![s].user = u]
                \/ AnswerLost(~Taken(DemoEmail)) /\ SeedGoesTo(s, "rejected")
             /\ InsertUser(u, DemoEmail, DemoPassword)
       \/ /\ Throws(Taken(DemoEmail))
          /\ SeedGoesTo(s, "rejected")
          /\ UNCHANGED users
    /\ UNCHANGED <<links, tags, tagsOnLinks, repl>>

\* link.create with all columns; its answer starts replaceLinkTags.
CreateDemoLink(s) ==
    /\ seed[s].pc = "link"
    /\ \/ \E l \in LinkIds :
             /\ links[l].status = "unborn"
             /\ \/ /\ Succeeds(TRUE)
                   /\ seed' = [seed EXCEPT ![s].pc = "tags", ![s].made = Append(@, l)]
                   /\ StartReplace(s, seed[s].user, l,
                                   DemoTags[Len(seed[s].made) + 1])
                \/ /\ AnswerLost(TRUE)
                   /\ SeedGoesTo(s, "rejected")
                   /\ UNCHANGED repl
             /\ links' = [links EXCEPT ![l] =
                             [status |-> "READY", userId |-> seed[s].user,
                              failReason |-> NULL, title |-> s, summary |-> s]]
       \/ /\ Throws(FALSE)
          /\ SeedGoesTo(s, "rejected")
          /\ UNCHANGED <<links, repl>>
    /\ UNCHANGED <<tags, tagsOnLinks, users>>

\* Variant for SeedWhole: the replacement is not awaited.
TagsNotAwaited(s) ==
    /\ seed[s].pc = "tags"
    /\ SeedGoesTo(s, Remaining(seed[s].made))
    /\ UNCHANGED <<tables, users, repl>>

TagsReplaced(s) ==
    /\ seed[s].pc = "tags"
    /\ \/ repl[s].pc = "ok" /\ SeedGoesTo(s, Remaining(seed[s].made))
       \/ repl[s].pc = "err" /\ SeedGoesTo(s, "rejected")
    /\ UNCHANGED <<tables, users, repl>>

\* The operator stops the script, or its machine does.
Kill(s) ==
    /\ seed[s].pc \in {"user", "link", "tags"}
    /\ kills < MaxKills
    /\ kills' = kills + 1
    /\ SeedGoesTo(s, "killed")
    /\ repl' = [repl EXCEPT ![s] = IdleRepl]
    /\ UNCHANGED <<tables, users>>

SeedStep(s) ==
    \/ Start(s)
    \/ CreateDemoUser(s)
    \/ CreateDemoLink(s)
    \/ TagsReplaced(s)

Next ==
    \/ \E c \in Calls : CallStep(c) /\ UNCHANGED <<repl, seed, kills>>
    \/ \E s \in Reqs :
          \/ SeedStep(s) /\ UNCHANGED <<call, kills>>
          \/ ReplStep(s) /\ UNCHANGED <<users, call, seed, kills>>
          \/ Kill(s) /\ UNCHANGED call

Spec == Init /\ [][Next]_vars

-----------------------------------------------------------------------------
(* Properties                                                              *)

\* However registrations and runs of the script overlap, an address has one
\* account, and of the registrations of one address at most one is told 201.
AddressTakenOnce ==
    /\ \A u, v \in Users : users[u] # NoAccount /\ HasAccount(v, users[u].email) => u = v
    /\ \A c, d \in Calls :
          call[c].code = "201" /\ call[d].code = "201" /\ call[c].email = call[d].email
              => c = d

\* What an answer said stays true: the account of a 201 has the address and
\* the password it was asked for, whoever asks for the address later; a token
\* and a me name the account whose address and password were given.
AnswersStand ==
    \A c \in Calls :
        call[c].user # NULL =>
            /\ HasAccount(call[c].user, call[c].email)
            /\ call[c].op # "me" => users[call[c].user].password = call[c].password

\* Registration d was told 201 for the account of the address, or told 500 and
\* may have made it: the answer of its INSERT was lost.
MayHaveMade(d, email) ==
    /\ call[d].op = "register" /\ call[d].email = email
    /\ \/ call[d].code = "201" /\ HasAccount(call[d].user, email)
       \/ call[d].code = "500" /\ dbErrors > 0

\* A registration is told 409 only for an address that has an account, and only
\* if another registration made it (auth.service.ts:24); one that has yet to
\* make it, and may fail, is no reason.
RefusalMeansTaken ==
    \A c \in Calls :
        call[c].code = "409" =>
            /\ Taken(call[c].email)
            /\ \E d \in Calls \ {c} : MayHaveMade(d, call[c].email)

\* However often the script is run, killed and run again, also two runs at a
\* time, one run at most makes links, all for the account it made.
SeedOnce ==
    /\ \A s, t \in Reqs : seed[s].made # <<>> /\ seed[t].made # <<>> => s = t
    /\ \A s \in Reqs : \A i, j \in DOMAIN seed[s].made :
          /\ HasAccount(links[seed[s].made[i]].userId, DemoEmail)
          /\ seed[s].made[i] = seed[s].made[j] => i = j

Whole(s) ==
    /\ Len(seed[s].made) = Len(DemoTags)
    /\ \A i \in DOMAIN DemoTags :
          /\ links[seed[s].made[i]].status = "READY"
          /\ {t[2] : t \in TagsOf(seed[s].made[i])} = Normalized(DemoTags[i])

Over(s) == seed[s].pc \notin {"new", "user", "link", "tags"}

\* seed-demo.ts:8: a run that ends well has made every link with its tags.
\* When no statement failed and no run was killed, the runs that found the
\* account, or lost it to another run, find the links complete once all are
\* over; a killed run leaves an account that later runs skip, and they are not.
SeedWhole ==
    /\ \A s \in Reqs : seed[s].pc = "resolved" => Whole(s)
    /\ dbErrors = 0 /\ kills = 0 /\ (\A s \in Reqs : Over(s)) /\ Reqs # {} =>
          \E s \in Reqs : Whole(s)

-----------------------------------------------------------------------------
(* What the source says and the code does not do                           *)

\* auth.service.ts:24, auth.controller.ts:25: a registration whose address is
\* taken is told 409.  Nothing else can stop one while the connection holds.
TakenTold409 ==
    dbErrors = 0 =>
        \A c \in Calls :
            call[c].op = "register" /\ call[c].pc = "done" =>
                call[c].code \in {"201", "409"}

=============================================================================
