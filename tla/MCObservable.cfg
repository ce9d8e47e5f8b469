SPECIFICATION MCFairSpec
CONSTANTS
    a = a
    b = b
    l = l
    x = x
    y = y
    Observers <- MCObservers
    Observables <- MCObservables
    DeferReentrant <- MCDefer
    Wirings <- MCWirings
    MaxCalls = 4
INVARIANTS
    NoSecondBorrow
    GuardsMatchStack
PROPERTIES
    NothingLost
    RoundReachesAll
    OnlyBusyStayQueued
    ComesToRest
CHECK_DEADLOCK FALSE
