SPECIFICATION Spec
CONSTANTS
    Files = {f1}
    Pages = {a, b}
    Filters = {bw, gray, magic}
    BlackWhite = bw
    GrayScale = gray
    Passwords = {p1, p2, p3}
    kMagicPassword = p3
    None = None
    MaxPages = 2
INVARIANTS
    SwitchShowsLock
    LaunchKeepsData
PROPERTIES
    SavedAsTypedTwice
