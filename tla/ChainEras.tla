------------------------------ MODULE ChainEras ------------------------------
(***************************************************************************)
(* The fork eras of the three networks: the Consensus::Params members that *)
(* the constructors CMainParams, CTestNetParams and CRegTestParams of      *)
(* src/src/chainparams.cpp fill, copy from one another and link into a     *)
(* tree.  Every operator is a run of assignments of one constructor; the   *)
(* module has no state, and both the registry and the proof-of-work model  *)
(* read the rules from it.                                                 *)
(***************************************************************************)
EXTENDS ConsensusParams, TLC

\* The Consensus::Params members of each of the three classes.
Members ==
    [ main    |-> {"consensus", "digishieldConsensus", "auxpowConsensus"},
      test    |-> {"consensus", "digishieldConsensus", "auxpowConsensus",
                   "minDifficultyConsensus"},
      regtest |-> {"consensus", "digishieldConsensus", "auxpowConsensus"} ]

Deployment(bit, nStartTime, nTimeout) ==
    [bit |-> bit, nStartTime |-> nStartTime, nTimeout |-> nTimeout]

----------------------------------------------------------------------------
(* CMainParams.  Each operator is a run of assignments of the constructor, *)
(* applied to the members as the assignments before it left them.          *)

\* The base era: the assignments to `consensus`; a field never assigned
\* keeps what the member held before (zero, for a static object).
MainConsensus(consensus) ==
    [ nSubsidyHalvingInterval |-> 150000, nMajorityEnforceBlockUpgrade |-> 1500,
      nMajorityRejectBlockOutdated |-> 1900, nMajorityWindow |-> 2000,
      BIP34Height |-> 1000, BIP34Hash |-> 0, BIP65Height |-> 1000,
      BIP66Height |-> 1000, powLimit |-> 20,
      nPowTargetTimespan |-> 60, nPowTargetSpacing |-> 60,
      fDigishieldDifficultyCalculation |-> TRUE, nCoinbaseMaturity |-> 100,
      fPowAllowMinDifficultyBlocks |-> FALSE,
      fPowAllowDigishieldMinDifficultyBlocks |-> FALSE,
      fPowNoRetargeting |-> FALSE,
      nRuleChangeActivationThreshold |-> 9576, nMinerConfirmationWindow |-> 10080,
      vDeployments |-> [ TESTDUMMY |-> Deployment(28, 1199145601, 1230767999),
                         CSV       |-> Deployment(0, 1462060800, 1493596800),
                         SEGWIT    |-> Deployment(1, 1479168000, 0) ],
      nMinimumChainWork |-> 65537, defaultAssumeValid |-> 59420,
      nAuxpowChainId |-> 168, fStrictChainId |-> TRUE,
      fAllowLegacyBlocks |-> TRUE, nHeightEffective |-> 0,
      fSimplifiedRewards |-> TRUE ] @@ consensus

\* Blocks 1000 - 59,999: a copy of `consensus` with the Digishield values.
MainDigishieldConsensus(eras) ==
    [eras.consensus EXCEPT !.nHeightEffective = 1000,
                           !.fSimplifiedRewards = TRUE,
                           !.fDigishieldDifficultyCalculation = TRUE,
                           !.nPowTargetTimespan = 60,
                           !.nCoinbaseMaturity = 240]

\* Blocks 60,000+: a copy of `digishieldConsensus` without legacy blocks.
MainAuxpowConsensus(eras) ==
    [eras.digishieldConsensus EXCEPT !.nHeightEffective = 60000,
                                     !.fAllowLegacyBlocks = FALSE]

\* "Assemble the binary search tree of consensus parameters".
MainTree(eras) ==
    [eras EXCEPT !.digishieldConsensus.pLeft  = "consensus",
                 !.digishieldConsensus.pRight = "auxpowConsensus"]

\* The genesis hash, taken once and handed from `consensus` to the copies.
MainGenesisHash(eras, hash) ==
    [eras EXCEPT !.consensus.hashGenesisBlock = hash,
                 !.digishieldConsensus.hashGenesisBlock = hash,
                 !.auxpowConsensus.hashGenesisBlock = hash]

\* The members as the constructor leaves them, from what they held before.
MainEras(eras) ==
    LET base       == [eras EXCEPT !.consensus = MainConsensus(@)]
        digishield == [base EXCEPT !.digishieldConsensus = MainDigishieldConsensus(base)]
        auxpow     == [digishield EXCEPT !.auxpowConsensus = MainAuxpowConsensus(digishield)]
    IN  MainTree(auxpow)

----------------------------------------------------------------------------
(* CTestNetParams: four eras.                                              *)

TestNetConsensus(consensus) ==
    [ nSubsidyHalvingInterval |-> 150000, nMajorityEnforceBlockUpgrade |-> 501,
      nMajorityRejectBlockOutdated |-> 750, nMajorityWindow |-> 1000,
      BIP34Height |-> 1000, BIP34Hash |-> 0, BIP65Height |-> 1000,
      BIP66Height |-> 1000, powLimit |-> 20,
      nPowTargetTimespan |-> 60, nPowTargetSpacing |-> 60,
      fDigishieldDifficultyCalculation |-> TRUE, nCoinbaseMaturity |-> 30,
      fPowAllowMinDifficultyBlocks |-> TRUE,
      fPowAllowDigishieldMinDifficultyBlocks |-> FALSE,
      fPowNoRetargeting |-> FALSE,
      nRuleChangeActivationThreshold |-> 2880, nMinerConfirmationWindow |-> 10080,
      vDeployments |-> [ TESTDUMMY |-> Deployment(28, 1199145601, 1230767999),
                         CSV       |-> Deployment(0, 1456790400, 1493596800),
                         SEGWIT    |-> Deployment(1, 1462060800, 0) ],
      nMinimumChainWork |-> 65537, defaultAssumeValid |-> 40791,
      nAuxpowChainId |-> 168, fStrictChainId |-> FALSE,
      nHeightEffective |-> 0, fAllowLegacyBlocks |-> TRUE,
      fSimplifiedRewards |-> TRUE ] @@ consensus

\* Blocks 1000 - 1249: Digishield without minimum difficulty on all blocks.
TestNetDigishieldConsensus(eras) ==
    [eras.consensus EXCEPT !.nHeightEffective = 1000,
                           !.nPowTargetTimespan = 60,
                           !.fDigishieldDifficultyCalculation = TRUE,
                           !.fSimplifiedRewards = TRUE,
                           !.fPowAllowMinDifficultyBlocks = FALSE,
                           !.nCoinbaseMaturity = 240]

\* Blocks 1250 - 59,999: Digishield with minimum difficulty on all blocks.
TestNetMinDifficultyConsensus(eras) ==
    [eras.digishieldConsensus EXCEPT
        !.nHeightEffective = 1250,
        !.fPowAllowDigishieldMinDifficultyBlocks = TRUE,
        !.fPowAllowMinDifficultyBlocks = TRUE]

\* AuxPoW from 60,000.
TestNetAuxpowConsensus(eras) ==
    [eras.minDifficultyConsensus EXCEPT
        !.nHeightEffective = 60000,
        !.fPowAllowDigishieldMinDifficultyBlocks = TRUE,
        !.fAllowLegacyBlocks = FALSE]

\* The tree: the last era hangs to the right of the third.
TestNetTree(eras) ==
    [eras EXCEPT !.digishieldConsensus.pLeft     = "consensus",
                 !.digishieldConsensus.pRight    = "minDifficultyConsensus",
                 !.minDifficultyConsensus.pRight = "auxpowConsensus"]

(* Mutation of TestNetGenesisHash: the era added last to the class is left *)
(* out of the hand-written list of copies.                                 *)
TestNetGenesisHashThreeEras(eras, hash) ==
    [eras EXCEPT !.consensus.hashGenesisBlock = hash,
                 !.digishieldConsensus.hashGenesisBlock = hash,
                 !.auxpowConsensus.hashGenesisBlock = hash]

TestNetGenesisHash(eras, hash) ==
    [eras EXCEPT !.consensus.hashGenesisBlock = hash,
                 !.digishieldConsensus.hashGenesisBlock = hash,
                 !.minDifficultyConsensus.hashGenesisBlock = hash,
                 !.auxpowConsensus.hashGenesisBlock = hash]

TestNetEras(eras) ==
    LET base       == [eras EXCEPT !.consensus = TestNetConsensus(@)]
        digishield == [base EXCEPT !.digishieldConsensus = TestNetDigishieldConsensus(base)]
        minDiff    == [digishield EXCEPT
                          !.minDifficultyConsensus = TestNetMinDifficultyConsensus(digishield)]
        auxpow     == [minDiff EXCEPT !.auxpowConsensus = TestNetAuxpowConsensus(minDiff)]
    IN  TestNetTree(auxpow)

----------------------------------------------------------------------------
(* CRegTestParams: three eras.  nHeightEffective of the base era and       *)
(* fPowAllowDigishieldMinDifficultyBlocks are never assigned: they are     *)
(* what the member held before the constructor ran.                        *)

RegTestConsensus(consensus) ==
    [ nSubsidyHalvingInterval |-> 150, nMajorityEnforceBlockUpgrade |-> 750,
      nMajorityRejectBlockOutdated |-> 950, nMajorityWindow |-> 1000,
      BIP34Height |-> 100000000, BIP34Hash |-> 0, BIP65Height |-> 1351,
      BIP66Height |-> 1251, powLimit |-> 1,
      nPowTargetTimespan |-> 4 * 60 * 60, nPowTargetSpacing |-> 1,
      fDigishieldDifficultyCalculation |-> FALSE,
      fPowAllowMinDifficultyBlocks |-> TRUE, fPowNoRetargeting |-> TRUE,
      nRuleChangeActivationThreshold |-> 540, nMinerConfirmationWindow |-> 720,
      vDeployments |-> [ TESTDUMMY |-> Deployment(28, 0, FarFuture),
                         CSV       |-> Deployment(0, 0, FarFuture),
                         SEGWIT    |-> Deployment(1, 0, FarFuture) ],
      nMinimumChainWork |-> 0, defaultAssumeValid |-> 0,
      nAuxpowChainId |-> 168, fStrictChainId |-> TRUE,
      fAllowLegacyBlocks |-> TRUE, fSimplifiedRewards |-> TRUE,
      nCoinbaseMaturity |-> 60 ] @@ consensus

(* Mutation of RegTestDigishieldConsensus: the era that switches           *)
(* Digishield on also switches retargeting on.                             *)
RegTestDigishieldRetargeting(eras) ==
    [eras.consensus EXCEPT !.nHeightEffective = 10,
                           !.nPowTargetTimespan = 1,
                           !.fDigishieldDifficultyCalculation = TRUE,
                           !.fPowNoRetargeting = FALSE]

RegTestDigishieldConsensus(eras) ==
    [eras.consensus EXCEPT !.nHeightEffective = 10,
                           !.nPowTargetTimespan = 1,
                           !.fDigishieldDifficultyCalculation = TRUE]

(* Mutation of RegTestAuxpowConsensus: the era is copied from the base     *)
(* record, not from the era before it.                                     *)
RegTestAuxpowFromBase(eras) ==
    [eras.consensus EXCEPT !.fAllowLegacyBlocks = FALSE,
                           !.nHeightEffective = 20]

RegTestAuxpowConsensus(eras) ==
    [eras.digishieldConsensus EXCEPT !.fAllowLegacyBlocks = FALSE,
                                     !.nHeightEffective = 20]

RegTestTree(eras) ==
    [eras EXCEPT !.digishieldConsensus.pLeft  = "consensus",
                 !.digishieldConsensus.pRight = "auxpowConsensus"]

RegTestGenesisHash(eras, hash) ==
    [eras EXCEPT !.consensus.hashGenesisBlock = hash,
                 !.digishieldConsensus.hashGenesisBlock = hash,
                 !.auxpowConsensus.hashGenesisBlock = hash]

RegTestEras(eras) ==
    LET base       == [eras EXCEPT !.consensus = RegTestConsensus(@)]
        digishield == [base EXCEPT !.digishieldConsensus = RegTestDigishieldConsensus(base)]
        auxpow     == [digishield EXCEPT !.auxpowConsensus = RegTestAuxpowConsensus(digishield)]
    IN  RegTestTree(auxpow)

=============================================================================
