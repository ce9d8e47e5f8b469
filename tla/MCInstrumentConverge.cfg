SPECIFICATION MCSpec
CONSTANTS
    Quotes = {p, q}
    Values = {1, 2}
    Engines = {e, f}
    Readers = {r}
    Writers = {w}
    Forwarders = {}
    Fed = {}
    Watching = {"instrument"}
    Forwarding = {}
    Declining = {}
    EnginesWriteBack = FALSE
    MayPanic = FALSE
    MaxCalls = 3
    MaxCallsRead = 3
    Null = Null
    Wirings <- MCTogether
INVARIANTS
    FreshAtRest
CHECK_DEADLOCK FALSE
