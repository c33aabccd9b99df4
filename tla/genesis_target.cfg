CONSTANTS
    NULL = NULL
    FarFuture = FarFuture
    ChainNames <- MCChainNames
    BIP9Times <- MCBIP9Times
    Heights <- MCHeights
    NonceLimit <- MCNonceLimit
    GetHash <- MCGetHash
    BlockMerkleRoot <- MCBlockMerkleRoot
SPECIFICATION Spec
INVARIANT GenesisMeetsTarget
