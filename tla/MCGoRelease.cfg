SPECIFICATION MCSpec
CONSTANTS
    linux = linux
    darwin = darwin
    windows = windows
    a = a
    b = b
    c = c
    None = None
    Revision = revision
    OtherRevision = other
    Required <- MCRequired
    Optional = windows
    Builds = {a, b, c}
    Sound = {a, b}
    Locals <- MCLocals
    MaxRuns = 2
INVARIANTS
    DoneIsComplete
PROPERTIES
    TagsCompleteReleases
    StaysRepairable
    RerunsComplete
CHECK_DEADLOCK FALSE
