CONSTANTS
    Users = {alice, bob}
    NoUser = NoUser
    Mints = {odd, quote}
    SupportedMints = {quote}
    QuoteMints = {quote}
    Indexes = {c1}
    BUFFER <- MCBuffer
    FIVE_MINUTES <- MCFiveMinutes
    MAX_ACTIVATION <- MCMaxActivation
    MaxPools = 1
    LastCreation = 1
    MaxPoint = 5
    NoConfig = NoConfig
    NoPool = NoPool
SPECIFICATION FairSpec
CHECK_DEADLOCK FALSE
INVARIANTS
    TypeOK
    VaultTradesFirst
PROPERTY EveryPoolOpens
