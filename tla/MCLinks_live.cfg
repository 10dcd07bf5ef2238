\* Three requests on one link, under fairness (so without symmetry).
SPECIFICATION FairSpec
CONSTANTS
    Users = {u1}
    LinkIds = {l1}
    Names <- MCNames
    Reqs = {r1, r2, r3}
    NULL = NULL
    MaxDbErrors = 0
    RawNames <- MCRawNames
    Fold <- MCFold
    Blank = ""
    LlmTagLists <- OneTag
    PatchTagLists <- Clear
    MaxRestarts = 0
\* The requests run out.
CHECK_DEADLOCK FALSE
PROPERTIES
    PendingSettles
    EverythingEnds
    ImplementsLifecycle
