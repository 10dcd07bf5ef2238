\* Three calls for one address beside two runs of the script, with a dropped
\* connection or a killed run.
SPECIFICATION Spec
CONSTANTS
    Users = {u1, u2}
    LinkIds = {l1, l2, l3}
    Names <- MCNames
    Reqs = {s1, s2}
    NULL = NULL
    MaxDbErrors = 1
    RawNames <- MCNames
    Fold <- MCFold
    Blank = ""
    Emails = {e1}
    DemoEmail = admin
    Passwords = {p1, p2}
    DemoPassword = pw0
    Calls = {c1, c2, c3}
    DemoTags <- MCDemoTags
    MaxKills = 1
SYMMETRY Symmetry
\* The calls and the runs run out.
CHECK_DEADLOCK FALSE
INVARIANTS
    TypeOK
    AddressTakenOnce
    AnswersStand
    RefusalMeansTaken
    SeedOnce
    SeedWhole
