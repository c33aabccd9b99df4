-------------------------------- MODULE Pow --------------------------------
(***************************************************************************)
(* The difficulty retargeter on a growing chain.                           *)
(*                                                                         *)
(* The retargeter (pow.cpp) is outside the files under src/: it is         *)
(* modelled from spec.md section 4.3.  What it is given comes from the     *)
(* sources: the rules of every era are the records the constructors of     *)
(* src/src/chainparams.cpp build (module ChainEras), resolved for a height *)
(* by Consensus::Params::GetConsensus from pConsensusRoot; the first block *)
(* of each chain is the genesis block those constructors create; and the   *)
(* values src/src/test/pow_tests.cpp expects of CalculateNextWorkRequired  *)
(* are checked against the model of it.                                    *)
(***************************************************************************)
EXTENDS ChainEras, Uint256, Sequences

CONSTANTS
    Networks,      \* the networks whose chains are followed
    StartChains,   \* StartChains[n]: the ends of chain n the model starts from
    Gaps,          \* seconds from the tip's timestamp to a new block's
    MaxBlocks,     \* BOUND: blocks added to a start chain
    TestBlocks     \* BOUND: blocks of the chain that
                   \* GetBlockProofEquivalentTime_test builds (10000 there)

VARIABLES
    network,       \* the network selected with SelectParams
    chain,         \* the block index: the last blocks of the active chain
    results        \* test binary: what each case run so far was returned

vars == <<network, chain, results>>

BlockIndex(nHeight, nTime, nBits) ==
    [nHeight |-> nHeight, nTime |-> nTime, nBits |-> nBits]

pindexLast == chain[Len(chain)]

----------------------------------------------------------------------------
(* What chainparams.cpp hands to the retargeter.                           *)

\* The members of the three objects once their constructors have run.
Eras ==
    [ main    |-> MainEras([m \in Members.main |-> ZeroParams]),
      test    |-> TestNetEras([m \in Members.test |-> ZeroParams]),
      regtest |-> RegTestEras([m \in Members.regtest |-> ZeroParams]) ]

\* "pConsensusRoot = &digishieldConsensus", in each of the constructors.
ConsensusRoot == "digishieldConsensus"

\* Params().GetConsensus(nTargetHeight) on network n.
ConsensusAt(n, nTargetHeight) ==
    Eras[n][GetConsensus(Eras[n], ConsensusRoot, nTargetHeight)]

\* nTime and nBits of the calls of CreateGenesisBlock.
GenesisIndex ==
    [ main    |-> BlockIndex(0, 1752628444, \H1e0ffff0),
      test    |-> BlockIndex(0, 1752628605, \H1e0ffff0),
      regtest |-> BlockIndex(0, 1752629103, \H207fffff) ]

\* consensus.powLimit, written in the source as a shift of ~uint256(0).
PowLimit(params) == OnesShiftedRight(params.powLimit)

----------------------------------------------------------------------------
(* The retargeter of spec.md 4.3.                                          *)

\* Division of C++: a negative quotient is rounded towards zero.
Truncated(a, b) == IF a >= 0 THEN a \div b ELSE -((-a) \div b)

Clamp(n, lowest, highest) == Max({lowest, Min({n, highest})})

\* nPowTargetTimespan / nPowTargetSpacing: blocks between two retargets.
DifficultyAdjustmentInterval(params) ==
    params.nPowTargetTimespan \div params.nPowTargetSpacing

(* Mutation of AtMostPowLimit: the result is not compared with the limit.  *)
NotLimited(bnNew, params) == bnNew

\* "clamping the result to the network's PoW limit"
AtMostPowLimit(bnNew, params) ==
    IF LessEq(bnNew, PowLimit(params)) THEN bnNew ELSE PowLimit(params)

\* The target of nBits scaled by nTimespan / nPowTargetTimespan: multiplied
\* first, then divided, on the 256-bit number, and encoded again at the end.
Retargeted(nBits, nTimespan, params) ==
    LET bnNew == ScaledQuotient(CompactWord(nBits) * nTimespan,
                                CompactShift(nBits), params.nPowTargetTimespan)
    IN  GetCompact(AtMostPowLimit(bnNew, params))

(* Mutation of CalculateNextWorkRequired: the time the window took is held *)
(* within the bounds of the Digishield retarget.                           *)
CalculateNextWorkRequiredNarrow(last, nFirstBlockTime, params) ==
    LET T == params.nPowTargetTimespan
    IN  Retargeted(last.nBits,
                   Clamp(last.nTime - nFirstBlockTime, (T * 3) \div 4, (T * 4) \div 3),
                   params)

\* The legacy retarget, the function pow_tests.cpp calls: the time the
\* window took, held within [T/4, 4T].
CalculateNextWorkRequired(last, nFirstBlockTime, params) ==
    LET T == params.nPowTargetTimespan
        nActualTimespan == Clamp(last.nTime - nFirstBlockTime, T \div 4, T * 4)
    IN  Retargeted(last.nBits, nActualTimespan, params)

(* Mutation of CalculateDigishieldNextWorkRequired: the damped timespan is *)
(* bounded from below only.                                                *)
CalculateDigishieldNoUpperBound(last, nFirstBlockTime, params) ==
    LET T == params.nPowTargetTimespan
        nModulated == Truncated(3 * T + (last.nTime - nFirstBlockTime), 4)
    IN  Retargeted(last.nBits, Max({nModulated, (T * 3) \div 4}), params)

\* The Digishield retarget: (3T + actual) / 4, held within [3T/4, 4T/3].
CalculateDigishieldNextWorkRequired(last, nFirstBlockTime, params) ==
    LET T == params.nPowTargetTimespan
        nModulated == Truncated(3 * T + (last.nTime - nFirstBlockTime), 4)
    IN  Retargeted(last.nBits,
                   Clamp(nModulated, (T * 3) \div 4, (T * 4) \div 3), params)

\* The easiest target is granted to a block that comes late.
MinDifficultyGranted(last, nTime, params) ==
    /\ \/ params.fPowAllowMinDifficultyBlocks
       \/ params.fPowAllowDigishieldMinDifficultyBlocks
    /\ nTime > last.nTime + 2 * params.nPowTargetSpacing

\* The block nBlocks before the end of index, or the oldest block held.
Ancestor(index, nBlocks) == index[Max({1, Len(index) - nBlocks})]

\* nextTarget: the nBits required of the block that follows the end of
\* index and carries the timestamp nTime.
GetNextWorkRequired(index, nTime, params) ==
    LET last == index[Len(index)]
        nInterval == DifficultyAdjustmentInterval(params)
    IN  CASE params.fPowNoRetargeting -> last.nBits
          [] MinDifficultyGranted(last, nTime, params) ->
                GetCompact(PowLimit(params))
          [] params.fDigishieldDifficultyCalculation ->
                CalculateDigishieldNextWorkRequired(
                    last, Ancestor(index, nInterval).nTime, params)
          [] (last.nHeight + 1) % nInterval # 0 -> last.nBits
          [] OTHER ->
                CalculateNextWorkRequired(
                    last, Ancestor(index, nInterval - 1).nTime, params)

----------------------------------------------------------------------------
(* The chain.                                                              *)

\* SelectParams(network), and a chain of that network: its genesis block,
\* or the two blocks at the end of a longer chain.
Init ==
    /\ network \in Networks
    /\ chain \in StartChains[network]
    /\ results = <<>>

AcceptBlock(nTime) ==
    /\ results = <<>>
    /\ Len(chain) < MaxBlocks + 2
    /\ chain' = Append(chain, BlockIndex(pindexLast.nHeight + 1, nTime,
                    GetNextWorkRequired(chain, nTime,
                        ConsensusAt(network, pindexLast.nHeight + 1))))
    /\ UNCHANGED <<network, results>>

\* The cases of pow_tests.cpp that call CalculateNextWorkRequired: the
\* block index and the time each one builds, and the value it expects.
PowTests ==
    [ get_next_work |->
        [ pindexLast        |-> BlockIndex(30479, 1388163922, \H1c00974f),
          nLastRetargetTime |-> 1388149872,
          expected          |-> \H1c025d3c ],
      get_next_work_pow_limit |->
        [ pindexLast        |-> BlockIndex(2015, 1233061996, \H1d00ffff),
          nLastRetargetTime |-> 1231006505,
          expected          |-> \H1d03fffc ],
      get_next_work_lower_limit_actual |->
        [ pindexLast        |-> BlockIndex(66767,
                                    1279008237 + ((239 * 60) \div 4 - 1),
                                    \H1c05a3f4),
          nLastRetargetTime |-> 1279008237,
          expected          |-> \H1c168fd0 ] ]

\* One case of the test binary, which holds no block but the genesis:
\* SelectParams(MAIN), Params().GetConsensus(0), and the call whose result
\* BOOST_CHECK_EQUAL compares.
RunPowTest(name) ==
    /\ name \notin DOMAIN results
    /\ chain = <<GenesisIndex[network]>>
    /\ network' = "main"
    /\ chain' = <<GenesisIndex.main>>
    /\ results' = results @@
         (name :> [ returned |-> CalculateNextWorkRequired(
                                    PowTests[name].pindexLast,
                                    PowTests[name].nLastRetargetTime,
                                    ConsensusAt("main", 0)),
                    expected |-> PowTests[name].expected ])

\* GetBlockProof of spec.md 4.3, the work of one block: 2^256 / (target + 1)
\* rounded down, nothing for a target that is zero, negative or too wide.
\* The target is nWord * 256^shift, and the model follows targets of at
\* least 29 bytes: there 2^256 / (target + 1) is 2^k / nWord rounded down
\* with k = 8 * (32 - shift) <= 24, one less when the division is exact.
GetBlockProof(block) ==
    LET bnTarget == SetCompact(block.nBits)
        nWord == CompactWord(block.nBits)
        whole == 2^(8 * (Width - CompactShift(block.nBits)))
    IN  IF bnTarget.fNegative \/ bnTarget.fOverflow \/ nWord = 0 THEN 0
        ELSE IF whole % nWord = 0 THEN whole \div nWord - 1
        ELSE whole \div nWord

\* "workDelta * spacing / proofOfWork(reference)" of spec.md 4.3: the time
\* the work between two blocks would take at the work of a third, negative
\* when the first block has less work behind it.  The chains of the model
\* stay far from the 63 bits at which the result is cut.
GetBlockProofEquivalentTime(to, from, tip, params) ==
    LET sign == IF to.nChainWork > from.nChainWork THEN 1 ELSE -1
        r == IF to.nChainWork > from.nChainWork
             THEN to.nChainWork - from.nChainWork
             ELSE from.nChainWork - to.nChainWork
    IN  sign * ((r * params.nPowTargetSpacing) \div GetBlockProof(tip))

\* The chain GetBlockProofEquivalentTime_test builds: block i one spacing
\* after block i - 1, each with the target 0x207fffff, and behind each the
\* work of the blocks before it.
blocks[i \in 0 .. TestBlocks - 1] ==
    LET params == ConsensusAt("main", 0)
        block == BlockIndex(i, 1269211443 + i * params.nPowTargetSpacing,
                            \H207fffff)
    IN  [ nHeight |-> block.nHeight, nTime |-> block.nTime,
          nBits |-> block.nBits,
          nChainWork |-> IF i = 0 THEN 0
                         ELSE blocks[i - 1].nChainWork
                                + GetBlockProof(blocks[i - 1]) ]

\* One round of the loop of GetBlockProofEquivalentTime_test: three blocks
\* drawn with GetRand, and the two numbers BOOST_CHECK_EQUAL compares.
RunEquivalentTimeTest(p1, p2, p3) ==
    /\ "GetBlockProofEquivalentTime_test" \notin DOMAIN results
    /\ chain = <<GenesisIndex[network]>>
    /\ network' = "main"
    /\ chain' = <<GenesisIndex.main>>
    /\ results' = results @@
         ("GetBlockProofEquivalentTime_test" :>
            [ returned |-> GetBlockProofEquivalentTime(p1, p2, p3,
                                ConsensusAt("main", 0)),
              expected |-> p1.nTime - p2.nTime ])

Next ==
    \/ \E gap \in Gaps : AcceptBlock(pindexLast.nTime + gap)
    \/ \E name \in DOMAIN PowTests : RunPowTest(name)
    \/ \E p1, p2, p3 \in Range(blocks) : RunEquivalentTimeTest(p1, p2, p3)

Spec == Init /\ [][Next]_vars

----------------------------------------------------------------------------
(* Properties.                                                             *)

Target(block) == SetCompact(block.nBits).value

RulesOf(block) == ConsensusAt(network, block.nHeight)

(* TypeOK: the index holds consecutive heights of one chain, with          *)
(* timestamps and compact targets that fit their 32-bit fields.            *)
TypeOK ==
    /\ network \in Networks
    /\ chain \in Seq([nHeight : Nat, nTime : Nat, nBits : Nat])
    /\ Len(chain) \in 1 .. MaxBlocks + 2
    /\ \A i \in 2 .. Len(chain) : chain[i].nHeight = chain[i - 1].nHeight + 1
    /\ DOMAIN results \subseteq
          DOMAIN PowTests \cup {"GetBlockProofEquivalentTime_test"}
    /\ \A name \in DOMAIN results :
          results[name] \in [returned : Int, expected : Int]

(* Every case of src/src/test/pow_tests.cpp that has run compared two      *)
(* equal numbers: CalculateNextWorkRequired, under the rules the           *)
(* CMainParams constructor gives height 0, returns the compact targets of  *)
(* get_next_work, get_next_work_pow_limit and                              *)
(* get_next_work_lower_limit_actual, and GetBlockProofEquivalentTime gives *)
(* for any three blocks of a chain of constant target the difference of    *)
(* the timestamps of the first two, with its sign.                         *)
PowTestsPass ==
    \A name \in DOMAIN results : results[name].returned = results[name].expected

(* No block of the chain carries a target that is zero, negative, too wide *)
(* for 256 bits or easier than the powLimit of the era of its height,      *)
(* however the timestamps before it were chosen: the clamp at the end of   *)
(* every retarget.                                                         *)
TargetWithinPowLimit ==
    \A i \in DOMAIN chain :
        LET decoded == SetCompact(chain[i].nBits)
        IN  /\ ~decoded.fNegative /\ ~decoded.fOverflow
            /\ SizeInBytes(decoded.value) > 0
            /\ LessEq(decoded.value, PowLimit(RulesOf(chain[i])))

(* Every nBits of the chain is the encoding GetCompact gives its own       *)
(* target: decoding and encoding again changes nothing, the round trip of  *)
(* SetCompact and GetCompact at the end of every retarget.                 *)
CompactRoundTrip ==
    \A i \in DOMAIN chain : GetCompact(Target(chain[i])) = chain[i].nBits

\* m times the target of nBits, and m times the target one unit in the
\* last place of the mantissa above it.
Times(nBits, m) == Scaled(CompactWord(nBits) * m, CompactShift(nBits))
TimesNext(nBits, m) == Scaled((CompactWord(nBits) + 1) * m, CompactShift(nBits))

(* From one block to the next the target moves by a factor within          *)
(* [3/4, 4/3], up to the unit in the last place that the compact encoding  *)
(* drops, unless the era of the new block grants minimum difficulty and    *)
(* the block came more than two spacings late: the bounds of               *)
(* CalculateDigishieldNextWorkRequired, and the eras in which              *)
(* fPowAllowMinDifficultyBlocks is set by the constructors.                *)
RetargetStepBounded ==
    \A i \in 2 .. Len(chain) :
        LET before == chain[i - 1]
            block  == chain[i]
        IN  \/ block.nBits = before.nBits
            \/ MinDifficultyGranted(before, block.nTime, RulesOf(block))
            \/ /\ LessEq(Times(block.nBits, 3), Times(before.nBits, 4))
               /\ LessEq(Times(before.nBits, 3), TimesNext(block.nBits, 4))

(* On regtest the target never moves from the one of the genesis block, at *)
(* any height and whatever the timestamps: fPowNoRetargeting, set on the   *)
(* base era by CRegTestParams, reaches the Digishield and AuxPoW eras      *)
(* through the copies the constructor makes.                               *)
RegTestTargetNeverMoves ==
    network = "regtest" =>
        \A i \in DOMAIN chain : chain[i].nBits = GenesisIndex.regtest.nBits

=============================================================================
