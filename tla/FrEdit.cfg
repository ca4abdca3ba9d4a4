SPECIFICATION Spec
CONSTANTS
    NameOrder <- MCNameOrder
    NewNames = {"a", "ab", "x"}
    Archives <- MCArchives
    Texts = {"a"}
    Begins <- MCBegins
    MaxActs = 2
    MaxEdits = 2
    MaxOpens = 1
    Garbled = Garbled
    None = None
INVARIANTS
    NothingLostUnless ClipboardNamesMembersUnlessPasted
    ShowsLocationUnlessGone ActsOnWhatIsShownUnless
PROPERTY StaysNear
CHECK_DEADLOCK FALSE
