\* The process restarts while a run is under way.
SPECIFICATION FairSpec
CONSTANTS
    Users = {u1}
    LinkIds = {l1}
    Names <- MCNames
    Reqs = {r1, r2}
    NULL = NULL
    MaxDbErrors = 0
    RawNames <- MCRawNames
    Fold <- MCFold
    Blank = ""
    LlmTagLists <- OneTag
    PatchTagLists <- Clear
    MaxRestarts = 1
\* The requests run out.
CHECK_DEADLOCK FALSE
PROPERTIES
    PendingSettles
