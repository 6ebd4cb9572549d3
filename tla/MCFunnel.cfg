CONSTANTS
    Quadrilaterals <- Positions
    None = None
    maxNumberOfRectangles = 4
    minNumberOfRectangles = 3
    matchingThreshold = 4
    minNumberOfMatches = 3
    autoScanThreshold = 2
    autoScanMatchingThreshold = 2
SPECIFICATION Spec
INVARIANTS BestAsDocumented  
PROPERTY AutoScanComes
