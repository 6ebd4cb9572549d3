CONSTANTS
    Pages = {p1, p2, p3, p4, p5}
    NoPage = NoPage
    imageNumMax = 3
SPECIFICATION Spec
SYMMETRY Symmetry
INVARIANT StoreMirrorsScreen
