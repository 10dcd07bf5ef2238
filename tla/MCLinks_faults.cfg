\* A dropped connection and a restart at any point of three requests on one link.
SPECIFICATION Spec
CONSTANTS
    Users = {u1}
    LinkIds = {l1}
    Names <- MCNames
    Reqs = {r1, r2, r3}
    NULL = NULL
    MaxDbErrors = 1
    RawNames <- MCRawNames
    Fold <- MCFold
    Blank = ""
    LlmTagLists <- OneTag
    PatchTagLists <- ClearOrTs
    MaxRestarts = 1
SYMMETRY RequestSymmetry
\* The requests run out.
CHECK_DEADLOCK FALSE
INVARIANTS
    PendingHasRun
    ReadyFromOneRun
    StatusCoherent
    DeletedForGood
    PendingExplained
    RejectedMeansGone
    ReadyGetsItsTags
