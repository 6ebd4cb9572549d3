CONSTANTS
    Items = {i1, i2, i3, i4, i5}
    Root = Root
    Contents = {c1, c2, c3}
    NoContent = NoContent
SPECIFICATION Spec
SYMMETRY Symmetry
INVARIANTS TypeOK OneParent TwoLevels MarksOwned ContentsDistinct
PROPERTY PagesKept
