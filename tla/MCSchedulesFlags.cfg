CONSTANTS
    IsTradingDay <- MCIsTradingDay
    Horizon = 6
    Requests <- MCRequests
    Lists <- MCLists
    CutDates <- MCCutDates
    MaxCuts = 2
    EditDates <- MCEditDates
    MaxEdits = 2

SPECIFICATION Spec

INVARIANT
    FlagsFit

CHECK_DEADLOCK FALSE
