SPECIFICATION HereSpec
CONSTANTS
    Trees <- MCTrees
    Operations <- MCOperations
    MaxLinks = 2
    Batch = 2
    None = None
    Desired = {"top", "archive"}
    MaxOthers = 2
INVARIANTS
    ListedWhole
    CopiedOrFailedUnless
    ExtractedHereUnless
PROPERTIES
    EndsHere
\* One operation is asked for.
CHECK_DEADLOCK FALSE
