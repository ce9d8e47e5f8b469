SPECIFICATION MCFairSpec
CONSTANTS
    Quotes = {p, q}
    Values = {1, 2}
    Engines = {e, f}
    Readers = {r}
    Writers = {}
    Forwarders = {g}
    Fed = {e, f}
    Watching = {"instrument"}
    Forwarding = {"instrument"}
    Declining = {}
    EnginesWriteBack = FALSE
    MayPanic = FALSE
    MaxCalls = 1
    MaxCallsRead = 1
    Null = Null
    Wirings <- MCTogether
PROPERTIES
    ComesToRest
CHECK_DEADLOCK FALSE
