CONSTANTS
    MaxInvestors = 3
    PageStarts = {0, 1, 2}
    PageSizes = {1, 2}
    MAX_PAGE_SIZE = 3
    BITMAP_BITS = 3
    SECONDS_PER_DAY = 2
    BASIS_POINTS_DIVISOR = 8
    MIN_PAYOUT_THRESHOLD = 2
    Policies <- MCGrowthPolicies
    InitialLocked <- MCLocked
    FeeSteps = {9}
    MaxFees = 18
    MaxTime = 5
    MaxDrops = 0
    StreamsMayGrow = TRUE
    NoPolicy = NoPolicy
SPECIFICATION Spec
CHECK_DEADLOCK FALSE
INVARIANTS
    ServedOnce
    NoDustStranded
PROPERTY DayProtocol
