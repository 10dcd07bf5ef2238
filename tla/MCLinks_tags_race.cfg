\* A PATCH and a run replace the tags of one link at the same time.
SPECIFICATION Spec
CONSTANTS
    Users = {u1}
    LinkIds = {l1}
    Names <- MCNames
    Reqs = {r1, r2, r3}
    NULL = NULL
    MaxDbErrors = 0
    RawNames <- MCRawNames
    Fold <- MCFold
    Blank = ""
    LlmTagLists <- OneTag
    PatchTagLists <- ClearOrTs
    MaxRestarts = 0
SYMMETRY RequestSymmetry
\* The requests run out.
CHECK_DEADLOCK FALSE
PROPERTIES
    ReplaceIsWhole
