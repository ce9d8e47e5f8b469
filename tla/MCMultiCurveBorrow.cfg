SPECIFICATION MCSpec
CONSTANTS
    A = A
    B = B
    N = N
    hA = hA
    hB = hB
    qA = qA
    qB = qB
    qN = qN
    kN = kN
    Contributors = {A, B}
    Passives = {N}
    Helpers = {hA, hB}
    Fits <- MCFits
    Base <- MCBase
    Quotes = {qA, qB, qN}
    Feeds <- MCFeeds
    Values = {1, 2}
    Moving = {A}
    Kept = {A}
    Consumers = {kN}
    Consumes <- MCConsumes
    Users = {user}
    Watched = {A, N}
    MaxPoints = 2
    Trial = Trial
    Null = Null
    MaxCalls = 3
INVARIANTS
    NoSecondBorrow
CHECK_DEADLOCK FALSE
