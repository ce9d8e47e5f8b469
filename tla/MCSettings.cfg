SPECIFICATION MCFairSpec
CONSTANTS
    euribor = euribor
    EURIBOR = EURIBOR
    BMA = BMA
    past = past
    latest = latest
    Null = Null
    Error = error
    Forecast = forecast
    Names = {euribor, EURIBOR, BMA}
    Uppercase <- MCUppercase
    MinDate = 1
    MaxDate = 2
    Rates <- MCRates
    Close <- MCClose
    Batches <- MCBatches
    Readers = {past, latest}
    Reads <- MCReads
    Users = {user}
    MaxCalls = 5
INVARIANTS
    FreshAtRest
PROPERTIES
    
    ComesToRest
CHECK_DEADLOCK FALSE
