SPECIFICATION Spec
CONSTANTS
    Notifiers = {n1}
    Suppressible = {n1}
    MaxVersion = 3
INVARIANTS
    NotToldAgain
CHECK_DEADLOCK FALSE
