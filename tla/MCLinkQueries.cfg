\* Three links of two users, pages of one and two.
SPECIFICATION Spec
CONSTANTS
    Users = {u1, u2}
    LinkIds = {1, 2, 3}
    Names = {n1}
    Reqs = {r1}
    NULL = NULL
    MaxDbErrors = 0
    Queries <- MCQueries
    Limits = {1, 2}
SYMMETRY UserSymmetry
INVARIANTS
    TypeOK
    PagesDescend
    WalkComplete
    TagCountsListed
