CONSTANTS
    WordBits = 16
    UIntBits = 16
    COIN = 100
    MaxCoins = 35
    DEFAULT_BLOCK_PRIORITY_SIZE = 27000
    FeeSettings <- MCFeeSettings
    Transactions <- MCTransactions
    Amounts <- MCAmounts
    Sizes <- MCSizes
    Rates <- MCRates
    Priorities <- MCPriorities
    PriorityDeltas <- MCPriorityDeltas
    FeeDeltas <- MCFeeDeltas

SPECIFICATION Spec

INVARIANT TypeOK
INVARIANT FeeWithinOneOfExact
INVARIANT RateReproducesFee
PROPERTY MinRelayFeeGrowsWithSize
