SPECIFICATION StreamSpec
CONSTANTS
    References = {"k1", "k2"}
    Invented = "invented"
    Numerals <- MCNumerals
    Replies <- MCReplies
    Shapes <- MCShapes
    MaxMarkerLength = 6
INVARIANTS
    StreamTypeOK
    ReaderSeesABeginning
    NothingIsLost
    BrowserConverges
CHECK_DEADLOCK FALSE
