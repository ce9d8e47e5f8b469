CONSTANTS
    IsTradingDay <- MCIsTradingDay
    Horizon = 6
    Requests <- MCRequests
    Lists <- MCLists
    CutDates <- MCCutDates
    MaxCuts = 2
    EditDates <- MCEditDates
    MaxEdits = 2

SPECIFICATION FairSpec

INVARIANTS
    TypeOK
    LastEditHolds
    FlagsMatch
    PeriodsKeepFlags
    Ordered
    CutToWindow
    RegularSpansTenor

PROPERTIES
    
    PaysOnBusinessDays
    EveryBuildEnds

CHECK_DEADLOCK FALSE
