CONSTANTS
    NULL = NULL
    RpcThreads = {"rpc1", "rpc2"}
    Requests <- MCRequests
    StartUps <- MCStartUps
    CompiledIndexes <- MCCompiledIndexes
    mapBlockIndex <- MCmapBlockIndex
    mapTx <- MCmapTx
    hashGenesisBlock = "G"
    Destinations <- MCDestinations
    PubKeys <- MCPubKeys
    PrivateKeys <- MCPrivateKeys
    WalletKeys = {"K"}
SPECIFICATION Spec
INVARIANT NoOrphansAnswerOnOneChain
