\* Two registrations of one address, and a connection that holds.
SPECIFICATION Spec
CONSTANTS
    Users = {u1, u2}
    LinkIds = {l1}
    Names <- MCNames
    Reqs = {}
    NULL = NULL
    MaxDbErrors = 0
    RawNames <- MCNames
    Fold <- MCFold
    Blank = ""
    Emails = {e1}
    DemoEmail = admin
    Passwords = {p1}
    DemoPassword = pw0
    Calls = {c1, c2}
    DemoTags <- MCDemoTags
    MaxKills = 0
\* The calls run out.
CHECK_DEADLOCK FALSE
INVARIANTS
    TakenTold409
