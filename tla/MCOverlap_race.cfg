\* Three requests of two users on two links; the connection and the process hold.
SPECIFICATION OverlapSpec
CONSTANTS
    Users = {u1, u2}
    LinkIds = {l1, l2}
    Names <- MCNames
    Reqs = {r1, r2, r3}
    NULL = NULL
    MaxDbErrors = 0
    RawNames <- MCRawNames
    Fold <- MCFold
    Blank = ""
    LlmTagLists <- OneOrTwoTags
    PatchTagLists <- ClearOrTs
    MaxRestarts = 0
SYMMETRY Symmetry
\* The requests run out.
CHECK_DEADLOCK FALSE
INVARIANTS
    TypeOK
    TagRowsSound
    OwnerStillValid
    ServerErrorMeansRace
PROPERTIES
    OwnerOnly
    ReplaceFailsOnlyInARace
    AloneReplaceIsWhole
    OverwriteMeansOverlap
