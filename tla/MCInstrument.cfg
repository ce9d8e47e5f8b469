SPECIFICATION MCFairSpec
CONSTANTS
    Quotes = {p, q}
    Values = {1, 2}
    Engines = {e, f}
    Readers = {r}
    Writers = {w}
    Forwarders = {g}
    Fed = {"updater"}
    Watching = {"instrument", q}
    Forwarding = {"instrument"}
    Declining = {g}
    EnginesWriteBack = TRUE
    MayPanic = TRUE
    MaxCalls = 3
    MaxCallsRead = 4
    Null = Null
    Wirings <- MCApart
INVARIANTS
    TypeOK
    FreshUnlessPanicked
    GuardHeldOnce
    ReadersConverge
PROPERTIES
    ComesToRest
CHECK_DEADLOCK FALSE
