CONSTANTS
    Langs = {eng, l1, l2, l3, l4}
    Eng = eng
    kMaxSelectLanguageCount = 3
SPECIFICATION Spec
SYMMETRY Symmetry
INVARIANTS TypeOK OneDownload ChosenOnDisk FatalExplained
