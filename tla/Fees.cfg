CONSTANTS
    PRICE_UNIT = 1024
    FEE_DENOMINATOR = 1000
    PERCENT = 100
    BASIS_POINT_MAX = 100
    ONE = 16
    EXPONENT_BITS = 3
    SQRT_BITS = 16
    MIN_FEE_NUMERATOR = 10
    MAX_FEE_NUMERATOR = 900
    VARIABLE_FEE_SCALE = 10000
    MAX_AMOUNT = 80
    MAX_LIMITER_DURATION = 4
    ActivationPoint = 2
    MaxPoint = 8
    CollectFeeMode = "OnlyB"
    BaseFees <- MCBaseFees
    DynamicFees <- MCDynamicFees
    Prices = {32, 33, 40}
    PoolLiquidities = {1280, 8192}

SPECIFICATION FairSpec
INVARIANTS TypeOK EveryTradeHasAFee SchedulesFall LimiterSumsTokens LimiterInverts OneFeeForAllModes
PROPERTY VolatilityFades
