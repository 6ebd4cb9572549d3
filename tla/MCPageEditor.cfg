CONSTANTS
    Pages = {p1, p2, p3, p4}
    NoPage = NoPage
    imageNumMax = 4
SPECIFICATION Spec
SYMMETRY Symmetry
INVARIANTS TypeOK SelectionStored MirrorUnlessFarDrop ThumbnailsMatch
PROPERTIES StoredPagesKept DeletesPageOnDisplay
