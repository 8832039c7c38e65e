CONSTANTS
    MaxInvestors = 3
    PageStarts = {0, 1, 2}
    PageSizes = {1, 2, 3}
    MAX_PAGE_SIZE = 3
    BITMAP_BITS = 2
    SECONDS_PER_DAY = 2
    BASIS_POINTS_DIVISOR = 8
    MIN_PAYOUT_THRESHOLD = 2
    Policies <- MCPolicies
    InitialLocked <- MCLocked
    FeeSteps = {18}
    MaxFees = 18
    MaxTime = 2
    MaxDrops = 0
    StreamsMayGrow = FALSE
    NoPolicy = NoPolicy
SPECIFICATION FairSpec
CHECK_DEADLOCK FALSE
PROPERTY EveryDayCloses
