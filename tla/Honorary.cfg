CONSTANTS
    p1 = p1
    h = h
    Positions = {p1, h}
    Creator = p1
    Honorary = h
    Mints <- MCMints
    Thresholds <- MCThresholds
    NoOwner = NoOwner
    VestingAccounts = {}
    PRICE_UNIT = 256
    FEE_DENOMINATOR = 16
    PERCENT = 100
    LIQUIDITY_UNIT = 8200
    SPLIT_DENOMINATOR = 4
    MaxVestingDuration = 4
    PreActivationBuffer = 1
    MaxFeeNumerator = 8
    MAX_FEE_BASIS_POINTS = 16
    TransferFees <- MCNoFees
    TransferFee <- MCNoFeeOfMints
    PoolConfigs <- MCPools
    Liquidities = {4096}
    SwapAmounts = {60}
    SplitNumerators = {}
    VestingSchedules = {}
    ClaimCaps = {}
    MaxMoves = 3
    MaxPoint = 0
    NoVesting = NoVesting

SPECIFICATION HonorarySpec
CHECK_DEADLOCK FALSE

INVARIANTS
    HonoraryTypeOK
    QuoteFeesOnly
    ClaimNeverFails
    FeesCovered
PROPERTY DeliversFees
