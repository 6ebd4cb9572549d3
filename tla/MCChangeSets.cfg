SPECIFICATION ListSpec
CONSTANTS
    MaxLength = 4
    MaxEntries = 4
INVARIANTS
    AppliesExactly
    MovesTrue
    ModificationsAgree
CHECK_DEADLOCK FALSE
