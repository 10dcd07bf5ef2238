\* Two runs of one link overlap.
SPECIFICATION Spec
CONSTANTS
    Users = {u1}
    LinkIds = {l1}
    Names <- MCNames
    Reqs = {r1, r2, r3}
    NULL = NULL
    MaxDbErrors = 0
    RawNames <- MCRawNames
    Fold <- MCFold
    Blank = ""
    LlmTagLists <- OneTag
    PatchTagLists <- Clear
    MaxRestarts = 0
SYMMETRY RequestSymmetry
\* The requests run out.
CHECK_DEADLOCK FALSE
PROPERTIES
    SettledOnlyFromPending
