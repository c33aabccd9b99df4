------------------------------- MODULE MCPow -------------------------------
(***************************************************************************)
(* Pow for TLC: the three networks, each followed from its genesis block   *)
(* and from tips two blocks before each of its fork heights, with block    *)
(* timestamps on both sides of every threshold of the retargeter.          *)
(***************************************************************************)
EXTENDS Pow

MCNetworks == {"main", "test", "regtest"}

\* The end of chain n at height nHeight: a tip that came one spacing after
\* its predecessor, both with the target nBits.
Tip(n, nHeight, nBits) ==
    LET nSpacing == ConsensusAt(n, nHeight).nPowTargetSpacing
        nTime    == GenesisIndex[n].nTime + nHeight * nSpacing
    IN  << BlockIndex(nHeight - 1, nTime - nSpacing, nBits),
           BlockIndex(nHeight, nTime, nBits) >>

\* Targets a chain can have arrived at: the powLimit, a target whose
\* mantissa fills all three bytes, and the targets pow_tests.cpp starts from.
MCStartChains ==
    [ main    |-> {<<GenesisIndex.main>>}
                    \cup {Tip("main", h, nBits) :
                            h \in {998, 59998},
                            nBits \in {\H1e0fffff, \H1d00ffff, \H1c05a3f4}},
      test    |-> {<<GenesisIndex.test>>}
                    \cup {Tip("test", h, nBits) :
                            h \in {998, 1248, 59998},
                            nBits \in {\H1e0fffff, \H1c00974f}},
      regtest |-> {<<GenesisIndex.regtest>>}
                    \cup {Tip("regtest", h, \H207fffff) : h \in {8, 18}} ]

\* A timestamp before the tip's, the same second, on schedule, at and past
\* twice the spacing of main and test, and past every bound.
MCGaps == {-200, 0, 60, 120, 121, 400}

=============================================================================
