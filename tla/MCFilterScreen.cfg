SPECIFICATION Spec
CONSTANTS
    Filters = {Original, f1, f2}
    Original = Original
    Slider = Slider
    NoPicture = NoPicture
    MaxLook = 3
INVARIANTS LabelTrue QualityBest
PROPERTIES TurnedAsAsked
