\* Two logins of two users in one tab that overlap, and no faults.
SPECIFICATION Spec
CONSTANTS
    Users = {u1, u2}
    Logins = {f1, f2}
    Saves = {m1}
    NULL = NULL
    LinkIds = {l1}
    f1 = f1
    f2 = f2
    u1 = u1
    u2 = u2
    UserOf <- MCUserOf
    Registers = {f2}
    Owner <- MCOwner
    QuickAdds = {m1}
    MaxFaults = 0
\* Every submit is used up in the end.
CHECK_DEADLOCK FALSE
INVARIANT
    SessionConsistent
