\* The retargeter on the chains of the three networks.
CONSTANTS
    NULL = NULL
    FarFuture = FarFuture
    Networks <- MCNetworks
    StartChains <- MCStartChains
    Gaps <- MCGaps
    MaxBlocks = 4
    TestBlocks = 4
SPECIFICATION Spec
CHECK_DEADLOCK FALSE
 
INVARIANT PowTestsPass
INVARIANT CompactRoundTrip
INVARIANT RegTestTargetNeverMoves
INVARIANT RetargetStepBounded
INVARIANT TargetWithinPowLimit
