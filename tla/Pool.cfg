CONSTANTS
    p1 = p1
    p2 = p2
    p3 = p3
    v1 = v1
    v2 = v2
    Positions = {p1, p2}
    Creator = p1
    VestingAccounts = {}
    PRICE_UNIT = 256
    FEE_DENOMINATOR = 16
    PERCENT = 100
    LIQUIDITY_UNIT = 7000
    SPLIT_DENOMINATOR = 4
    MaxVestingDuration = 4
    PreActivationBuffer = 1
    MaxFeeNumerator = 8
    MAX_FEE_BASIS_POINTS = 16
    TransferFees <- MCTransferFees
    TransferFee <- MCFeeOfMints
    PoolConfigs <- MCSwapConfigs
    Liquidities = {2600}
    SwapAmounts = {7, 60}
    SplitNumerators <- MCHalf
    VestingSchedules = {}
    ClaimCaps <- MCAll
    MaxMoves = 2
    MaxPoint = 0
    NoVesting = NoVesting
SPECIFICATION Spec
CHECK_DEADLOCK FALSE
INVARIANTS
    TypeOK
    Solvent
    FeesCovered
    FeesBacked
    QuotesAreKept
PROPERTY FeesStay
