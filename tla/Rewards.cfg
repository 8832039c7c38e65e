CONSTANTS
    p1 = p1
    p2 = p2
    admin = admin
    creator = creator
    funder = funder
    Positions = {p1, p2}
    First = p1
    Admins = {admin}
    Creator = creator
    Funders = {creator, funder}
    NoFunder = NoFunder
    REWARD_INDEX = 0
    MAX_FEE_BASIS_POINTS = 4
    TransferFees <- MCTransferFees
    RewardFee <- MCRewardFee
    RATE_UNIT = 4
    LIQUIDITY_UNIT = 8
    SPLIT_DENOMINATOR = 2
    Durations = {1, 2}
    Amounts = {6}
    Liquidities = {1, 2}
    SplitNumerators <- MCSplits
    MaxLiquidity = 3
    MaxFundings = 2
    MaxMoves = 2
    MaxTime = 4
    SHARES = 6
SPECIFICATION Spec
CHECK_DEADLOCK FALSE
INVARIANTS
    TypeOK
    RewardsCovered
    EarnsOnlyItsTime
PROPERTY RewardsStay
