SPECIFICATION Spec
CONSTANTS
    Archives = {"plain", "encrypted", "read_only", "absent", "foreign", "unsupported"}
    Files = {"new", "one", "two", "dir"}
    None = None
    Kind <- MCKind
    There <- MCThere
    Selections <- MCSelections
INVARIANTS
    AddsAskedAndOneAtATimeUnless
    OverwritesOnlyAllowedUnlessAll
    DoneMeansDone
    LivesWhileNeededUnless
PROPERTY
    ResumesWhatAskedUnlessEdit
CHECK_DEADLOCK FALSE
