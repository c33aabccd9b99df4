---------------------------- MODULE ChainProfile ----------------------------
(***************************************************************************)
(* The members of a CChainParams object other than its rule sets, as the   *)
(* three constructors of src/src/chainparams.cpp assign them: the network  *)
(* name, the message start, the port and the policy flags that the rest of *)
(* the node reads through Params().  Seed lists and base58 prefixes are    *)
(* left out.  A digest is abstracted to its leading 16 bits.               *)
(***************************************************************************)

Networks == {"main", "test", "regtest"}   \* CBaseChainParams::MAIN, TESTNET, REGTEST

\* What static zero-initialisation leaves before a constructor runs.
ZeroProfile ==
    [ strNetworkID |-> "", pchMessageStart |-> "", nDefaultPort |-> 0,
      nPruneAfterHeight |-> 0, fMiningRequiresPeers |-> FALSE,
      fDefaultConsistencyChecks |-> FALSE, fRequireStandard |-> FALSE,
      fMineBlocksOnDemand |-> FALSE, checkpointData |-> <<>> ]

MainProfile ==
    [ strNetworkID |-> "main", pchMessageStart |-> "TRMP",
      nDefaultPort |-> 33884, nPruneAfterHeight |-> 200000,
      fMiningRequiresPeers |-> TRUE, fDefaultConsistencyChecks |-> FALSE,
      fRequireStandard |-> TRUE, fMineBlocksOnDemand |-> FALSE,
      checkpointData |-> <<[height |-> 0, hash |-> 59420]>> ]

TestNetProfile ==
    [ strNetworkID |-> "test", pchMessageStart |-> "TRMP",
      nDefaultPort |-> 44884, nPruneAfterHeight |-> 1000,
      fMiningRequiresPeers |-> TRUE, fDefaultConsistencyChecks |-> FALSE,
      fRequireStandard |-> FALSE, fMineBlocksOnDemand |-> FALSE,
      checkpointData |-> <<[height |-> 0, hash |-> 40791]>> ]

RegTestProfile ==
    [ strNetworkID |-> "regtest", pchMessageStart |-> "TRMP",
      nDefaultPort |-> 16329, nPruneAfterHeight |-> 1000,
      fMiningRequiresPeers |-> FALSE, fDefaultConsistencyChecks |-> TRUE,
      fRequireStandard |-> FALSE, fMineBlocksOnDemand |-> TRUE,
      checkpointData |-> <<[height |-> 0, hash |-> 2780]>> ]

\* The profile of each network once its object is constructed.
ProfileOf ==
    [ main |-> MainProfile, test |-> TestNetProfile, regtest |-> RegTestProfile ]

=============================================================================
