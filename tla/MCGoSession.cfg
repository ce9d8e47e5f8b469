SPECIFICATION MCFairSpec
CONSTANTS
    Sessions = {A, B}
    Clients = {c, d}
    Handles = {h, i}
    None = None
    MaxCalls = 4
    MaxCallbacks = 2
INVARIANTS
    FreedAlone
    NoWaitCycle
PROPERTIES
    ImplementsSerial
    EveryCallReturns
CHECK_DEADLOCK FALSE
