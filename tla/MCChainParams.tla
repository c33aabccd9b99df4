---------------------------- MODULE MCChainParams ----------------------------
(***************************************************************************)
(* ChainParams for TLC: the heights around every activation height of the  *)
(* three networks, one unknown chain name, and the digests the source      *)
(* itself states for the three genesis blocks.                             *)
(***************************************************************************)
EXTENDS ChainParams

\* The three names and one that Params(chain) does not know.
MCChainNames == Networks \cup {"signet"}

\* The regtest default times and one more value to override them with.
MCBIP9Times == {0, 1, FarFuture}

\* 0, both neighbours of every nHeightEffective (10, 20, 1000, 1250, 60000)
\* and the largest height TLC can represent.
MCHeights ==
    {0, 1, 9, 10, 11, 19, 20, 21, 999, 1000, 1001, 1249, 1250, 1251,
     59999, 60000, 60001, 2147483647}

\* uint32_t wraps at 2^32; TLC's integers end at 2^31 - 1, and no run of
\* this module reaches the search loop that would wrap.
MCNonceLimit == 2147483647

\* GetHash of the three genesis headers, by their leading 16 bits: the
\* digests the constructors assert (0xe81c..., 0x9f57..., 0x0adc...).  No
\* other header is ever hashed; TLC would stop if one were.
MCGetHash(block) ==
    CASE block.nTime = 1752628444 /\ block.nNonce = 516343  -> 59420
      [] block.nTime = 1752628605 /\ block.nNonce = 1383086 -> 40791
      [] block.nTime = 1752629103 /\ block.nNonce = 3       -> 2780

\* The merkle root of the one genesis transaction (0xa243...), asserted by
\* all three constructors.
MCBlockMerkleRoot(vtx) ==
    CASE vtx = <<[nVersion |-> 1, nValue |-> 50]>> -> 41539

=============================================================================
