SPECIFICATION Spec
CONSTANTS
    Notifiers = {n1, n2}
    Suppressible = {}
    MaxVersion = 3
INVARIANTS
    WriterSeesAll
    WorkerForward
PROPERTIES
    KeepsFeedPromise
    EveryChangeTold
    BeginReturns
CHECK_DEADLOCK FALSE
