----------------------------- MODULE MCFeeRate -----------------------------
(***************************************************************************)
(* FeeRate for TLC: 16-bit amounts.  MAX_MONEY is to the greatest 16-bit   *)
(* word what 10^18 is to the greatest 64-bit word, a little more than a    *)
(* ninth, so a fee of MAX_MONEY / 100 times 1000 is the first to leave the *)
(* word in the model as in the code.                                       *)
(***************************************************************************)
EXTENDS FeeRate

\* A default-like start, a wallet minimum above 5.21 coins per 100, rates
\* whose products leave the word, and everything zero.
MCFeeSettings ==
    { [minTxFee |-> 1,   minRelayTxFeeRate |-> 1,  nDustLimit |-> 1],
      [minTxFee |-> 6,   minRelayTxFeeRate |-> 3,  nDustLimit |-> 10],
      [minTxFee |-> 400, minRelayTxFeeRate |-> 40, nDustLimit |-> 10],
      [minTxFee |-> 0,   minRelayTxFeeRate |-> 0,  nDustLimit |-> 0] }

\* One output below a dust limit of 10 and one above; two equal outputs
\* below it.
MCTransactions ==
    { [hash |-> "t1", vout |-> <<[nValue |-> 5], [nValue |-> 20]>>],
      [hash |-> "t2", vout |-> <<[nValue |-> 5], [nValue |-> 5]>>] }

\* Fees paid: negative (a fee delta), zero, one, both sides of the first
\* product that leaves the word (32 * 1000 < 2^15 <= 33 * 1000), MAX_MONEY.
MCAmounts == {-33, -1, 0, 1, 32, 33, 1000, MAX_MONEY}

\* Sizes: empty, one byte, around one kB, around the free area of
\* DEFAULT_BLOCK_PRIORITY_SIZE - 1000 bytes, the greatest.
MCSizes == {0, 1, 999, 1000, 1001, 25999, 26000, MaxWord}

MCRates == {-33, -1, 0, 1, 3, 32, 33, 70}

\* The six presets and an int on either side of them.
MCPriorities == -1 .. 6

\* A transaction is prioritised at most once by priority; its fee delta
\* is raised or lowered by one unit.
MCPriorityDeltas == {0, 1}

MCFeeDeltas == {-1, 0, 1}

=============================================================================
