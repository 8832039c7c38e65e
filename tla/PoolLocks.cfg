CONSTANTS
    p1 = p1
    p2 = p2
    p3 = p3
    v1 = v1
    v2 = v2
    Positions = {p1, p2}
    Creator = p1
    VestingAccounts = {v1, v2}
    PRICE_UNIT = 256
    FEE_DENOMINATOR = 16
    PERCENT = 100
    LIQUIDITY_UNIT = 8192
    SPLIT_DENOMINATOR = 4
    MaxVestingDuration = 4
    PreActivationBuffer = 1
    MaxFeeNumerator = 8
    MAX_FEE_BASIS_POINTS = 16
    TransferFees <- MCNoFees
    TransferFee <- MCNoFeeOfMints
    PoolConfigs <- MCLockConfigs
    Liquidities = {2600}
    SwapAmounts = {60}
    SplitNumerators <- MCSplits
    VestingSchedules <- MCSchedules
    ClaimCaps = {}
    MaxMoves = 1
    MaxPoint = 3
    NoVesting = NoVesting
SPECIFICATION FairSpec
CHECK_DEADLOCK FALSE
INVARIANTS
    LiquidityBacked
    VestedBacked
PROPERTY VestingEnds
