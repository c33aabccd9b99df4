----------------------------- MODULE ChainParams -----------------------------
(***************************************************************************)
(* The network profile registry of src/src/chainparams.cpp: the three      *)
(* static objects mainParams, testNetParams and regTestParams, built in    *)
(* that order by their constructors during static initialisation, the      *)
(* process-wide selection pCurrentParams, and the regtest-only override of *)
(* BIP9 deployment times.                                                  *)
(*                                                                         *)
(* Data abstraction: a 256-bit digest or target is a natural number (in    *)
(* the model-checking modules: its leading 16 bits), amounts are in whole  *)
(* coins, the seed lists and base58 prefixes are left out.                 *)
(***************************************************************************)
EXTENDS ChainEras, ChainProfile, Sequences

CONSTANTS
    ChainNames,         \* the names SelectParams may be called with
    BIP9Times,          \* the times UpdateRegtestBIP9Parameters is called with
    Heights,            \* the block heights the properties resolve
    NonceLimit,         \* nNonce and nTime are uint32_t: they wrap at this
    GetHash(_),         \* CBlockHeader::GetHash, as a number
    BlockMerkleRoot(_)  \* BlockMerkleRoot of a block's transactions, as a number

ASSUME /\ Networks \subseteq ChainNames
       /\ BIP9Times \subseteq BIP9Time
       /\ Heights \subseteq Nat
       /\ NonceLimit \in Nat \ {0}

VARIABLES
    params,          \* params[n][m]: member m of the object of network n
    pConsensusRoot,  \* pConsensusRoot[n]: the root of n's tree of members
    genesis,         \* genesis[n]: the genesis block of n
    profile,         \* profile[n]: the other members of the object of n
    pc,              \* the static object under construction, or "main"
    pCurrentParams,  \* the selected network, or NULL
    exception        \* what the last call of SelectParams threw

vars == <<params, pConsensusRoot, genesis, profile, pc, pCurrentParams, exception>>

\* The static objects in their order of definition, which is their order of
\* construction; then main() runs, unless an assertion aborted the process.
ProgramPoints == {"mainParams", "testNetParams", "regTestParams", "main", "aborted"}

\* The networks whose object has been constructed.
Constructed ==
    CASE pc = "mainParams"    -> {}
      [] pc = "testNetParams" -> {"main"}
      [] pc = "regTestParams" -> {"main", "test"}
      [] pc = "main"          -> Networks
      [] pc = "aborted"       -> {}

ZeroBlock ==
    [ nVersion |-> 0, nTime |-> 0, nBits |-> 0, nNonce |-> 0,
      hashPrevBlock |-> 0, hashMerkleRoot |-> 0, vtx |-> <<>> ]

----------------------------------------------------------------------------
(* Genesis construction.                                                   *)

\* CreateGenesisBlock: one coinbase transaction paying genesisReward, with
\* the fixed timestamp text and output script (the same on every network).
CreateGenesisBlock(nTime, nNonce, nBits, nVersion, genesisReward) ==
    LET txNew == [nVersion |-> 1, nValue |-> genesisReward]
        vtx   == <<txNew>>
    IN  [ nVersion |-> nVersion, nTime |-> nTime, nBits |-> nBits,
          nNonce |-> nNonce, hashPrevBlock |-> 0,
          hashMerkleRoot |-> BlockMerkleRoot(vtx), vtx |-> vtx ]

\* arith_uint256().SetCompact(nBits), as the leading 16 bits of the target:
\* the mantissa nWord shifted left by 8*(nSize-3) bits, seen from bit 240.
SetCompact(nBits) ==
    LET nSize == nBits \div 2^24
        nWord == nBits % 2^23
        drop  == 8 * (33 - nSize)
    IN  IF drop >= 24 THEN 0 ELSE nWord \div 2^drop

\* The search loop of the test and regtest constructors: try the block as
\* it is, then the next nonce, and the next second when the nonce wraps.
RECURSIVE MineGenesis(_, _)
MineGenesis(block, hashTarget) ==
    IF GetHash(block) > hashTarget
    THEN LET nNonce == (block.nNonce + 1) % NonceLimit
             nTime  == IF nNonce = 0 THEN (block.nTime + 1) % NonceLimit
                                     ELSE block.nTime
         IN  MineGenesis([block EXCEPT !.nNonce = nNonce, !.nTime = nTime],
                         hashTarget)
    ELSE block

\* The guarded search as the constructors state it: the block is searched
\* from nonce 0 when its hash differs from the hash just taken of it.
CalculateGenesis(block, hashGenesisBlock) ==
    IF GetHash(block) # hashGenesisBlock
    THEN MineGenesis([block EXCEPT !.nNonce = 0], SetCompact(block.nBits))
    ELSE block

----------------------------------------------------------------------------
(* The state machine: static initialisation, then the calls main() makes.  *)

Init ==
    /\ params = [n \in Networks |-> [m \in Members[n] |-> ZeroParams]]
    /\ pConsensusRoot = [n \in Networks |-> NULL]
    /\ genesis = [n \in Networks |-> ZeroBlock]
    /\ profile = [n \in Networks |-> ZeroProfile]
    /\ pc = "mainParams"
    /\ pCurrentParams = NULL
    /\ exception = "none"

\* The end of every constructor: the members are as computed, and the two
\* assertions on the genesis block either hold or abort the process.
Construct(n, eras, root, block, prof, hashExpected, next) ==
    /\ params' = [params EXCEPT ![n] = eras]
    /\ pConsensusRoot' = [pConsensusRoot EXCEPT ![n] = root]
    /\ genesis' = [genesis EXCEPT ![n] = block]
    /\ profile' = [profile EXCEPT ![n] = prof]
    /\ pc' = IF /\ eras.consensus.hashGenesisBlock = hashExpected
                /\ block.hashMerkleRoot = 41539
             THEN next ELSE "aborted"
    /\ UNCHANGED <<pCurrentParams, exception>>

CMainParams ==
    /\ pc = "mainParams"
    /\ LET block == CreateGenesisBlock(1752628444, 516343, 504365040, 1, 50)
           eras  == MainGenesisHash(MainEras(params.main), GetHash(block))
       IN  Construct("main", eras, "digishieldConsensus", block, MainProfile,
                     59420, "testNetParams")

CTestNetParams ==
    /\ pc = "testNetParams"
    /\ LET block == CreateGenesisBlock(1752628605, 1383086, 504365040, 1, 50)
           eras  == TestNetGenesisHash(TestNetEras(params.test), GetHash(block))
           mined == CalculateGenesis(block, eras.consensus.hashGenesisBlock)
       IN  Construct("test", eras, "digishieldConsensus", mined, TestNetProfile,
                     40791, "regTestParams")

CRegTestParams ==
    /\ pc = "regTestParams"
    /\ LET block == CreateGenesisBlock(1752629103, 3, 545259519, 1, 50)
           eras  == RegTestGenesisHash(RegTestEras(params.regtest), GetHash(block))
           mined == CalculateGenesis(block, eras.consensus.hashGenesisBlock)
       IN  Construct("regtest", eras, "digishieldConsensus", mined, RegTestProfile,
                     2780, "main")

(* Mutation of SelectParams: the name is stored without being looked up.   *)
SelectParamsUnchecked(network) ==
    /\ pc = "main"
    /\ pCurrentParams' = network
    /\ exception' = "none"
    /\ UNCHANGED <<params, pConsensusRoot, genesis, profile, pc>>

\* SelectParams(network): Params(network) throws on a name that is none of
\* the three, and the selection stays as it was.
SelectParams(network) ==
    /\ pc = "main"
    /\ \/ /\ network \in Networks
          /\ pCurrentParams' = network
          /\ exception' = "none"
       \/ /\ network \notin Networks
          /\ exception' = "runtime_error"
          /\ UNCHANGED pCurrentParams
    /\ UNCHANGED <<params, pConsensusRoot, genesis, profile, pc>>

(* Mutation of UpdateRegtestBIP9Parameters: the override lands in the      *)
(* selected object instead of regTestParams.                               *)
UpdateSelectedBIP9Parameters(d, nStartTime, nTimeout) ==
    /\ pc = "main"
    /\ pCurrentParams # NULL
    /\ params' = [params EXCEPT
          ![pCurrentParams].consensus.vDeployments[d].nStartTime = nStartTime,
          ![pCurrentParams].consensus.vDeployments[d].nTimeout = nTimeout]
    /\ UNCHANGED <<pConsensusRoot, genesis, profile, pc, pCurrentParams, exception>>

\* UpdateRegtestBIP9Parameters -> CRegTestParams::UpdateBIP9Parameters: the
\* times of deployment d are overwritten in the member `consensus`.
UpdateRegtestBIP9Parameters(d, nStartTime, nTimeout) ==
    /\ pc = "main"
    /\ params' = [params EXCEPT
          !.regtest.consensus.vDeployments[d].nStartTime = nStartTime,
          !.regtest.consensus.vDeployments[d].nTimeout = nTimeout]
    /\ UNCHANGED <<pConsensusRoot, genesis, profile, pc, pCurrentParams, exception>>

Next ==
    \/ CMainParams
    \/ CTestNetParams
    \/ CRegTestParams
    \/ \E network \in ChainNames : SelectParams(network)
    \/ \E d \in Deployments, nStartTime, nTimeout \in BIP9Times :
          UpdateRegtestBIP9Parameters(d, nStartTime, nTimeout)

Spec == Init /\ [][Next]_vars

----------------------------------------------------------------------------
(* What the rest of the node reads.                                        *)

\* CChainParams::GetConsensus(nTargetHeight) of the object of network n.
ConsensusAt(n, nTargetHeight) ==
    params[n][GetConsensus(params[n], pConsensusRoot[n], nTargetHeight)]

----------------------------------------------------------------------------
(* Properties.                                                             *)

BlockType ==
    [ nVersion : Nat, nTime : Nat, nBits : Nat, nNonce : Nat,
      hashPrevBlock : Nat, hashMerkleRoot : Nat,
      vtx : Seq([nVersion : Nat, nValue : Nat]) ]

\* The type invariant: every member of every object holds a well-formed
\* record whose links stay inside its own object, and the selection is one
\* of the three networks or none (SelectParams never stores another name).
TypeOK ==
    /\ \A n \in Networks :
          /\ params[n] \in [Members[n] -> ParamsOver(Members[n])]
          /\ pConsensusRoot[n] \in Members[n] \cup {NULL}
          /\ genesis[n] \in BlockType
          /\ profile[n].strNetworkID \in {"", n}
    /\ pc \in ProgramPoints
    /\ pCurrentParams \in Networks \cup {NULL}
    /\ exception \in {"none", "runtime_error"}

\* Resolver totality, uniqueness and inclusive-low boundaries: in every
\* constructed object, the walk of GetConsensus over the hand-assembled
\* pLeft/pRight tree ends, at every height, in the era of the schedule that
\* is in force there - the member with the greatest nHeightEffective not
\* above the height.  It fails if a constructor links the members wrongly,
\* leaves one out, or if GetConsensus takes a right-hand candidate that is
\* not yet active.
ResolvesToFloorEra ==
    \A n \in Constructed, h \in Heights :
        GetConsensus(params[n], pConsensusRoot[n], h) = FloorEra(params[n], h)

\* One genesis per network: whatever the height, the record GetConsensus
\* returns carries the hash of the network's genesis block, and so does the
\* checkpoint at height 0.  The constructors take the hash after the era
\* records were copied from one another, so every copy needs its own
\* assignment of hashGenesisBlock.
OneGenesisPerNetwork ==
    \A n \in Constructed :
        /\ \A h \in Heights : ConsensusAt(n, h).hashGenesisBlock = GetHash(genesis[n])
        /\ profile[n].checkpointData[1].hash = GetHash(genesis[n])

\* A fork, once active, stays active at every greater height: Digishield
\* retargeting is not switched off again, legacy (non-AuxPoW) blocks are not
\* allowed again, and coinbase maturity does not shrink.  The era records
\* are copies of copies, so this depends on each being copied from its
\* predecessor and on GetConsensus reaching it.
ForksNeverRevert ==
    \A n \in Constructed, h1, h2 \in Heights :
        h1 <= h2 =>
            LET lo == ConsensusAt(n, h1)
                hi == ConsensusAt(n, h2)
            IN  /\ lo.fDigishieldDifficultyCalculation => hi.fDigishieldDifficultyCalculation
                /\ hi.fAllowLegacyBlocks => lo.fAllowLegacyBlocks
                /\ lo.nCoinbaseMaturity <= hi.nCoinbaseMaturity

\* A record without its BIP9 deployment times.
Rules(record) == [record EXCEPT !.vDeployments = ZeroParams.vDeployments]

\* Read-only after start-up: once an object is constructed, no call changes
\* the rules in force at any height of its network; the one exception is
\* that UpdateRegtestBIP9Parameters rewrites deployment times, and only of
\* the regtest network, whichever network is selected at the time.
RulesFixedAfterStartup ==
    [][\A n \in Constructed, h \in Heights :
          /\ Rules(ConsensusAt(n, h))' = Rules(ConsensusAt(n, h))
          /\ n # "regtest" => ConsensusAt(n, h)' = ConsensusAt(n, h)]_vars

----------------------------------------------------------------------------
(* What the specification says and the code does not do.                   *)

\* "Soft-fork Deployment entries [are] versioning metadata, not itself
\* height-indexed": the deployment times in force are the same at every
\* height of a network, also after the regtest override.
DeploymentsSameAtEveryHeight ==
    \A n \in Constructed, h1, h2 \in Heights :
        ConsensusAt(n, h1).vDeployments = ConsensusAt(n, h2).vDeployments

\* The genesis constructor "mines the genesis locally" on the test and
\* regtest networks until "the hash numerically is <= the decoded target":
\* the header hash of their genesis block is not above the target that its
\* nBits encode.
GenesisMeetsTarget ==
    \A n \in Constructed \ {"main"} :
        GetHash(genesis[n]) <= SetCompact(genesis[n].nBits)

=============================================================================
