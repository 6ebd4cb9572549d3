CONSTANTS
    noRectangleThreshold = 1
    autoScanThreshold = 1
    MaxQueue = 2
    MaxPictures = 3
SPECIFICATION Spec
INVARIANTS ShutterOwned AutoScanOffUnlessOverlap OneEditUnlessOverlap
PROPERTY ShutterComesBack
