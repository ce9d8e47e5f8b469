SPECIFICATION FairSpec
CONSTANTS
    Runs = {a, b}
    Contents = {x, y}
    Retries = 2
    None = None
INVARIANTS
    SuccessIsInstallable
PROPERTIES
    RerunsDoNotUpload
    YankedIsNeverConfirmed
    RerunsFinish
CHECK_DEADLOCK FALSE
