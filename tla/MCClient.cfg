\* Two logins of two users in one tab, a quick-add and a retry on a link of one
\* of them, and a request without an answer, an expired token or a reload.
SPECIFICATION Spec
CONSTANTS
    Users = {u1, u2}
    Logins = {f1, f2}
    Saves = {m1, m2}
    NULL = NULL
    LinkIds = {l1}
    f1 = f1
    f2 = f2
    u1 = u1
    u2 = u2
    UserOf <- MCUserOf
    Registers = {f2}
    Owner <- MCOwner
    QuickAdds = {m1}
    MaxFaults = 1
\* Every submit is used up in the end.
CHECK_DEADLOCK FALSE
INVARIANTS
    TypeOK
    AnsweredIsShown
    FormWaits
    SessionExplained
PROPERTIES
    FormReleased
    ShownPendingSettles
