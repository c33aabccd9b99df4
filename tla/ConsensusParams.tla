-------------------------- MODULE ConsensusParams --------------------------
(***************************************************************************)
(* Consensus::Params records and the rule-set resolver                     *)
(* Consensus::Params::GetConsensus of src/src/chainparams.cpp.             *)
(*                                                                         *)
(* A CChainParams object owns a few Consensus::Params members ("consensus",*)
(* "digishieldConsensus", ...), one per fork era, linked by pLeft/pRight   *)
(* into a hand-built search tree.  Here such an object's members are a     *)
(* STORE: a function from member names to records, and a pointer is a      *)
(* member name or NULL.                                                    *)
(***************************************************************************)
EXTENDS Naturals, FiniteSets

CONSTANTS
    NULL,        \* the null pointer
    FarFuture    \* 999999999999ULL, a deployment timeout beyond TLC's integers

Deployments == {"TESTDUMMY", "CSV", "SEGWIT"}

\* A BIP9 time is a number of seconds, or the regtest "never" value.
BIP9Time == Nat \cup {FarFuture}

\* What static zero-initialisation leaves in a Consensus::Params member
\* before the constructor of the enclosing object runs.  Hashes and targets
\* are abstracted: a 256-bit digest by its leading 16 bits, powLimit by the
\* right shift of ~uint256(0) that the source comments give.
ZeroParams ==
    [ nSubsidyHalvingInterval |-> 0, nMajorityEnforceBlockUpgrade |-> 0,
      nMajorityRejectBlockOutdated |-> 0, nMajorityWindow |-> 0,
      BIP34Height |-> 0, BIP34Hash |-> 0, BIP65Height |-> 0, BIP66Height |-> 0,
      powLimit |-> 0, nPowTargetTimespan |-> 0, nPowTargetSpacing |-> 0,
      fDigishieldDifficultyCalculation |-> FALSE, nCoinbaseMaturity |-> 0,
      fPowAllowMinDifficultyBlocks |-> FALSE,
      fPowAllowDigishieldMinDifficultyBlocks |-> FALSE,
      fPowNoRetargeting |-> FALSE,
      nRuleChangeActivationThreshold |-> 0, nMinerConfirmationWindow |-> 0,
      vDeployments |-> [d \in Deployments |->
                          [bit |-> 0, nStartTime |-> 0, nTimeout |-> 0]],
      nMinimumChainWork |-> 0, defaultAssumeValid |-> 0,
      nAuxpowChainId |-> 0, fStrictChainId |-> FALSE,
      fAllowLegacyBlocks |-> FALSE, fSimplifiedRewards |-> FALSE,
      nHeightEffective |-> 0, hashGenesisBlock |-> 0,
      pLeft |-> NULL, pRight |-> NULL ]

\* The records a store over the members M may hold.
ParamsOver(M) ==
    [ nSubsidyHalvingInterval : Nat, nMajorityEnforceBlockUpgrade : Nat,
      nMajorityRejectBlockOutdated : Nat, nMajorityWindow : Nat,
      BIP34Height : Nat, BIP34Hash : Nat, BIP65Height : Nat, BIP66Height : Nat,
      powLimit : Nat, nPowTargetTimespan : Nat, nPowTargetSpacing : Nat,
      fDigishieldDifficultyCalculation : BOOLEAN, nCoinbaseMaturity : Nat,
      fPowAllowMinDifficultyBlocks : BOOLEAN,
      fPowAllowDigishieldMinDifficultyBlocks : BOOLEAN,
      fPowNoRetargeting : BOOLEAN,
      nRuleChangeActivationThreshold : Nat, nMinerConfirmationWindow : Nat,
      vDeployments : [Deployments ->
                        [bit : 0..28, nStartTime : BIP9Time, nTimeout : BIP9Time]],
      nMinimumChainWork : Nat, defaultAssumeValid : Nat,
      nAuxpowChainId : Nat, fStrictChainId : BOOLEAN,
      fAllowLegacyBlocks : BOOLEAN, fSimplifiedRewards : BOOLEAN,
      nHeightEffective : Nat, hashGenesisBlock : Nat,
      pLeft : M \cup {NULL}, pRight : M \cup {NULL} ]

----------------------------------------------------------------------------
(* Mutation of GetConsensus: the candidate found to the right is returned  *)
(* without the test that its own activation height has been reached.       *)
RECURSIVE GetConsensusUnchecked(_, _, _)
GetConsensusUnchecked(store, this, nTargetHeight) ==
    LET node == store[this] IN
    CASE nTargetHeight < node.nHeightEffective /\ node.pLeft # NULL ->
            GetConsensusUnchecked(store, node.pLeft, nTargetHeight)
      [] nTargetHeight > node.nHeightEffective /\ node.pRight # NULL ->
            GetConsensusUnchecked(store, node.pRight, nTargetHeight)
      [] OTHER -> this

(* Consensus::Params::GetConsensus, called on member `this` of `store`.    *)
(* The result is the member whose parameters apply at nTargetHeight.       *)
RECURSIVE GetConsensus(_, _, _)
GetConsensus(store, this, nTargetHeight) ==
    LET node == store[this] IN
    CASE nTargetHeight < node.nHeightEffective /\ node.pLeft # NULL ->
            GetConsensus(store, node.pLeft, nTargetHeight)
      [] nTargetHeight > node.nHeightEffective /\ node.pRight # NULL ->
            LET pCandidate == GetConsensus(store, node.pRight, nTargetHeight)
            IN  IF store[pCandidate].nHeightEffective <= nTargetHeight
                THEN pCandidate
                ELSE this
      [] OTHER -> this

----------------------------------------------------------------------------
(* The reference the tree walk is compared with: the eras of a store as a  *)
(* schedule ordered by activation height, and the era in force at a height *)
(* the one with the greatest activation height not above it.               *)
Activated(store, h) == {m \in DOMAIN store : store[m].nHeightEffective <= h}

FloorEra(store, h) ==
    CHOOSE m \in Activated(store, h) :
        \A k \in Activated(store, h) :
            store[k].nHeightEffective <= store[m].nHeightEffective

=============================================================================
