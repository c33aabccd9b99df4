# TLA+ models of the Trumpow node: consensus rules, retargeting, fees and RPC handlers

This directory holds TLA+ specifications of parts of the Trumpow full node
(a Dogecoin-derived proof-of-work chain), the TLC configurations that check
them, and `PROJECT.json`, which maps every definition to the source lines it
models and lists the runs, the mutations that each property detects, the
findings and the hazards.

Run a check from this directory with, for example,
`tlc -workers 2 -config chainparams.cfg MCChainParams`,
`tlc -workers 2 -config pow.cfg MCPow`,
`tlc -workers 2 -config miscrpc.cfg MCMiscRpc` or
`tlc -workers 2 -config relayfee.cfg MCRelayFee`.

## 1. Inventory of the system

| Part | Source | State | Operations |
|---|---|---|---|
| Rule-set record | `chainparams.cpp` (fields assigned at 81-125, 203-248, 353-392) | one `Consensus::Params` per fork era: activation height `nHeightEffective`, retarget flags, maturity, BIP9 deployments, genesis hash, `pLeft`/`pRight` | copied and edited by the constructors |
| Rule-set resolver | `chainparams.cpp:488-500` | none | `GetConsensus(nTargetHeight)`: recursive walk of the `pLeft`/`pRight` tree |
| Network profile registry | `chainparams.cpp:73-523` | three static objects `mainParams`, `testNetParams`, `regTestParams`; the global `pCurrentParams` | the three constructors (static initialisation, in definition order), `Params(chain)`, `SelectParams`, `Params()`, `UpdateRegtestBIP9Parameters` |
| Genesis constructor | `chainparams.cpp:23-60`, `284-314`, `415-445` | the `genesis` block of each object | `CreateGenesisBlock`, the guarded nonce search, two assertions |
| Target arithmetic, difficulty retargeter | not in these sources (`arith_uint256`, `pow.cpp`); fed by the rules and the genesis blocks of `chainparams.cpp`, exercised by `test/pow_tests.cpp` | the block index (height, time, `nBits` of each block) | compact decoding/encoding, `GetNextWorkRequired`, `CalculateNextWorkRequired`, the Digishield retarget |
| Fee rate | `amount.h`, `amount.cpp` | `ntrumpowtoshisPerK` | constructor from fee and size, `GetFee`, `GetFeePerK`, comparisons |
| Fee policy | `trumpow-fees.cpp` | reads `CWallet::minTxFee`, `minRelayTxFeeRate`, `nDustLimit`, mempool deltas | `GetTrumpowFeeRate`, `GetTrumpowMinRelayFee`, `GetTrumpowDustFee` |
| Miscellaneous RPC | `rpc/misc.cpp` | reads the active chain, address/timestamp/spent indexes, mempool; writes the mock time | `getinfo`, `validateaddress`, `createmultisig`, `getaddress*`, `getblockhashes`, `getspentinfo`, `verifymessage`, `signmessagewithprivkey`, `setmocktime`, `getmocktime`, `getmemoryinfo`, `echo`, `getindexinfo` |

How the parts interact. Static initialisation runs the three constructors.
Each fills its base record `consensus`, copies it into the later eras and
edits the copies, links the records into a tree, builds the genesis block and
stores its hash in every record, then asserts the expected digests. `main()`
calls `SelectParams` once; every other subsystem reads the rules for a block
through `Params().GetConsensus(height)`. Test set-up may call
`UpdateRegtestBIP9Parameters`. The RPC handlers run on RPC threads and read
chain state that the validation thread changes under the mutex `cs_main`.

What is hard here, and what each part must guarantee:

* **Resolver** - for every height exactly the era in force is returned: the
  one with the greatest activation height not above the height, boundaries
  inclusive below. The tree is built by hand and, on testnet, is a chain of
  right links in which a candidate that is not yet active must be rejected.
* **Registry** - the era records are *copies*; anything assigned to the base
  record after the copies were made (the genesis hash, a BIP9 override) is in
  the other eras only if it is assigned to each of them. Forks must never
  revert at a greater height. After start-up nothing but the regtest override
  changes a rule, and that override touches regtest only.
* **Regtest** - `nHeightEffective` of the base era, one flag and the links of
  all leaves are never assigned: the code relies on static storage being
  zeroed.
* **Genesis** - the block must be the expected one; the search exists to
  make a non-mainnet genesis meet its own target.
* **Retargeter** - whatever timestamps the miners choose, the target stays
  encodable, at or below the powLimit of the era and within the step the
  algorithm allows; the flags that switch it (no retargeting, minimum
  difficulty, Digishield) are read from the era of the block's own height.
* **Fees** - 64-bit products that overflow below `MAX_MONEY`, rounding away
  from zero, the `MoneyRange` clamp; a minimum relay fee computed after
  `mempool.cs` was released, while another thread prioritises.
* **RPC** - index reads outside `cs_main` combined with chain reads inside
  it; a lock taken in the scope of an `if` statement.

## 2. Plan

Modules, in the order they are built; the most consensus-critical first.

1. `ConsensusParams` - the record and `GetConsensus`, with the era schedule
   (`FloorEra`) as the reference the walk is compared with. **Done.**
2. `ChainProfile` - the non-consensus profile of each network (network id,
   ports, flags) and the table `Params(chain)` looks a name up in. It has no
   state and is shared by the registry and the RPC model. **Done.**
3. `ChainParams` - the registry as a state machine over the three objects,
   composed of one operator per block of assignments of each constructor.
   Extends `ConsensusParams` and `ChainProfile`. **Done.**
4. `MCChainParams` - constants for TLC. **Done.**
5. `MiscRpc` - RPC threads and a validation thread around the mutexes
   `cs_main` and `cs_wallet`; every handler of `rpc/misc.cpp` is an action,
   split at each lock acquisition. `MCMiscRpc` gives it a block tree, four
   transactions and the calls. **Done.**
6. `FeeRate` - `CFeeRate` and the fee policy at a reduced word width;
   `MCFeeRate` gives it fee settings, sizes and amounts at every boundary.
   **Done.**
7. `ChainEras` - the era operators of the three constructors, taken out of
   `ChainParams` into a module without state, so that the registry and the
   retargeter read the same constructed rules. **Done.**
8. `Uint256` and `Pow` - the 256-bit target with its compact encoding, and
   the retargeter on a growing chain of each network, modelled from the
   specification, composed with `ChainEras` and `ConsensusParams`, with the
   three expected values of `pow_tests.cpp`. **Done.**
9. `RelayFee` - `GetTrumpowMinRelayFee` in the two parts the release of
   `mempool.cs` divides it into, beside a thread that prioritises
   transactions, with `FeeRate` as the abstract specification it is shown to
   implement under a refinement mapping. **Done.**
10. `GetBlockProof` and `GetBlockProofEquivalentTime` with the fourth case of
    `pow_tests.cpp`, for the targets whose work fits a machine word.
    **Done.**
11. `getblockhashes`: the range of its two bounds after their conversion to
    `unsigned int`, from the cursor to the answer. **Done.**

Two items of the first plan were dropped. An abstract specification of an
RPC call that answers from one snapshot of the chain would have to repeat
each handler to say what it answers; the handlers that read the chain more
than once are the ones runs `noorphans` and `utxos_tip` show not to answer
from one snapshot, and the others hold `cs_main` from their first read to
their return, which `HeldLocksAreReleased` and the split of the actions
already cover. A reader of the BIP9 deployment times to race with
`UpdateRegtestBIP9Parameters` is not part of these sources, and the
specification makes the caller apply the override before any reader runs
(section 7).

A stepwise model of the genesis nonce search was planned and dropped: the
guard of the search compares the hash of the block with a field assigned
from that very hash one statement earlier, so no execution enters the loop
(run `genesis_target`). The search is kept as the operator `MineGenesis`.

## 3. The modules and the code

### ConsensusParams

A `CChainParams` object owns a few `Consensus::Params` members. The module
calls the members of one object a *store*: a function from member names
(`"consensus"`, `"digishieldConsensus"`, ...) to records. A pointer is a
member name or the model value `NULL`. `GetConsensus(store, this, h)` is the
method called on member `this`; its three `CASE` arms are the three branches
of the source, the second with the candidate test of line 493. `ZeroParams`
is what static zero-initialisation leaves in a member.

Data abstraction: a 256-bit digest is its leading 16 bits; `powLimit` is the
right shift that the source comments give (`~uint256(0) >> 20`); the
timeout `999999999999ULL`, beyond TLC's integers, is the model value
`FarFuture`.

### ChainParams

| Variable | Code |
|---|---|
| `params[n][m]` | member `m` of the static object of network `n` |
| `pConsensusRoot[n]` | `CChainParams::pConsensusRoot` |
| `genesis[n]`, `profile[n]` | `genesis`; `strNetworkID`, `pchMessageStart`, ports, flags, `checkpointData` (the values are in `ChainProfile`) |
| `pc` | which static object is constructed next, `"main"` once `main()` runs, `"aborted"` after a failed assertion |
| `pCurrentParams` | the global of line 481 |
| `exception` | whether the last `SelectParams` threw |

| Action | Code |
|---|---|
| `CMainParams`, `CTestNetParams`, `CRegTestParams` | the constructors, each one atomic step: nothing observes a half-built object during static initialisation |
| `SelectParams(network)` | `SelectParams` with `Params(chain)` inlined: a known name sets `pCurrentParams`, an unknown one throws and leaves it |
| `UpdateRegtestBIP9Parameters(d, nStartTime, nTimeout)` | lines 473-477 and 520-523 |

A constructor is a composition of operators, one per block of assignments:
`MainConsensus`, `MainDigishieldConsensus`, `MainAuxpowConsensus`,
`MainTree`, `MainGenesisHash` (and likewise `TestNet...`, `RegTest...`).
Each takes the members as the assignments before it left them, so a copy
sees exactly what had been assigned when the source makes it. The base
record is built as `[assigned fields] @@ consensus`: a field that the
constructor never assigns keeps what the member held before, which for a
static object is zero.

`CalculateGenesis` is the guarded search as written: it compares the block's
hash with `consensus.hashGenesisBlock`, which was assigned from that very
hash. `MCGetHash` is defined on the three genesis headers only, so TLC would
stop with an error if the search ever hashed another header; it never does.

### ChainEras

The operators named above, one per block of assignments, and `MainEras`,
`TestNetEras`, `RegTestEras`, which apply them in the order of the source to
the members as they were before the constructor ran. The module has no
variables: `ChainParams` applies it to the state of the static objects,
`Pow` to zeroed members, which is what the objects are when their
constructors start.

### ChainProfile

The constants each constructor assigns outside the consensus records
(`MainProfile`, `TestNetProfile`, `RegTestProfile`), what a static object
holds before its constructor ran (`ZeroProfile`), and `ProfileOf`, the
name-to-object table of `Params(chain)`. `MiscRpc` reads `strNetworkID` and
`fMineBlocksOnDemand` from it, so `getinfo` and `setmocktime` answer from
the same values the registry model constructs.

### MiscRpc

The handlers of `rpc/misc.cpp` run on RPC worker threads; the validation
thread changes the chain under `cs_main`. The module has one process per
RPC thread and one validation process.

| Variable | Code |
|---|---|
| `chainActive` | the active chain, a sequence of block hashes from the genesis block |
| `timestampIndex` | the timestamp index: one entry per block ever connected, never removed on a disconnect |
| `cs_main`, `cs_wallet` | the two mutexes: `NULL` or the owner |
| `nMockTime` | the mock clock `SetMockTime` writes |
| `mapArgs` | how the node was started: network, wallet, the four index switches |
| `pc[t]` | where thread `t` is: `idle`, waiting at `LOCK_cs_main` or `LOCK_cs_wallet`, `locked`, or inside `GetTimestampIndex` |
| `request[t]` | the call in progress, and after the answer the call that was answered |
| `local[t]` | the handler's local variables that live across a lock acquisition |
| `result[t]` | the answer: `[value |-> v]` or `[error |-> code]` |

The address, spent and unspent indexes and the mempool are functions of
`chainActive` and the block tree (`GetAddressIndex`, `GetAddressUnspent`,
`GetSpentIndex`, `MempoolAddressIndex`): their code is outside these
sources, and what they return is modelled from what the handlers expect of
them. The same holds for the validation thread (`ValidationLock`,
`ConnectTip`, `DisconnectTip`, `ValidationUnlock`), which connects and
disconnects one block per step while it holds `cs_main`.

A handler that takes no lock is one action (`getmocktime`, `echo`,
`createmultisig`, `getaddressbalance`, ...): nothing another thread does
can be observed in its middle except through the chain, which it reads in
one call. A handler that takes a lock is split where it may block:

| Actions | Code |
|---|---|
| `getinfo`, `LOCK2`/`LOCK`, `getinfo_locked` | help test 48-75; `LOCK2(cs_main, pwalletMain ? &cs_wallet : NULL)` 77-80; body 82-113 |
| `validateaddress`, `LOCK2`/`LOCK`, `validateaddress_locked` | 157-181; 183-187; 189-229, with the throw of `get_str` (189) while both mutexes are held |
| `DescribeAddressVisitor(dest)` | 115-152: what the wallet adds to the answer of `validateaddress`, script or key, and whether the wallet holds the key |
| `verifymessage`, `LOCK`, `verifymessage_locked` | 952-971; 973; 975-1001: the throws of `get_str` (975-977) and the three of 981-991, all under the lock |
| `setmocktime`, `LOCK`, `setmocktime_locked` | help and `MineBlocksOnDemand` tests 1048-1058, before the lock; 1065; `RPCTypeCheck` and `SetMockTime` 1067-1070 |
| `getindexinfo`, `LOCK`, `getindexinfo_locked` | 1149-1167; 1169; 1171-1221, the throw of `get_str` under the lock (1174) included, with the `#ifdef ENABLE_*_INDEX` sections chosen by `CompiledIndexes` |
| `getaddressutxos`, `LOCK`, `getaddressutxos_locked` | parameter tests 541-584, the throw of `get_bool` on a third parameter that is no boolean included; index read, sort and selection 586-619, unlocked, with the throw of 606-608 when `getAddressFromIndex` knows no address for an output taken; `LOCK(cs_main)` 625; tip read 626-629 |
| `getblockhashes`, `LOCK`, `getblockhashes_locked`, `GetTimestampIndex` | 707-753; the lock of 755-756, released in the same statement; the index walk 758-776, one entry per step |

`Return` ends a call: it stores the answer and releases whatever the thread
holds, which is what the scoped locks do on a return and on a throw alike.
`LOCK2` takes `cs_main` and then `cs_wallet`; with no wallet the second
mutex is skipped.

Data abstraction. A JSON value is a record `[typ, val]`; `Typed` says
whether the parameters have the types that `get_str`, `get_int` and
`get_array` are about to read, which throw `std::runtime_error` on any
other. An address, a
public key, a private key or a signature is a short string, and what
decoding it gives (a destination, a key of some length, nothing) is a
constant table of `MCMiscRpc`. Amounts are integers of satoshis; `COIN` is
that of `amount.h`. Help texts and error messages are reduced to the error
code, except where a property is about them.

`getAddressFromIndex` (343-353) decides whether an index entry's type
names an address. `getaddressutxos` asks it for every output it takes and
`getaddressmempool` for every mempool entry; one entry of an unknown type
fails the whole call with `RPC_INVALID_ADDRESS_OR_KEY`, whatever was
collected before it.

Not every line of a handler is reachable. `getaddressdeltas` requires its
first parameter to be an object (357) and then hands the parameters to
`getAddressesFromParams`, which requires a string or an object with
`addresses`; the lines after every path has thrown (417-477) are not
modelled because no call reaches them, and run `deltas_help` shows it.

### FeeRate

| Variable | Code |
|---|---|
| `minTxFee` | `CWallet::minTxFee`, a `CFeeRate` held as its `ntrumpowtoshisPerK` |
| `minRelayTxFeeRate` | `::minRelayTxFeeRate` |
| `nDustLimit` | `nDustLimit` |
| `mapDeltas` | the priority and fee deltas of the mempool, by transaction |
| `call`, `answer` | the last call with its arguments, and what it returned |

| Operator, action | Code |
|---|---|
| `CFeeRate(nFeePaid, nBytes)`, action `NewFeeRate` | `amount.cpp:13-22`: the size is asserted to fit `int64_t`, the fee is multiplied by 1000 *before* the division |
| `GetFee`, action `Fee` | `amount.cpp:24-39`: multiply, divide, and a result of zero for a size that is not zero becomes one unit with the sign of the rate |
| `GetFeePerK`, `PlusAssign`, `ToString` (actions `Add`, `Format`) | `amount.h:59`, `65`, `66`, `amount.cpp:41-44` |
| `Compare` (action `Compared`) | `amount.h:60-64`: the five comparison operators, answered together as one record of five booleans |
| `GetTrumpowFeeRate`, `GetTrumpowPriorityLabel` (actions `WalletFeeRate`, `PriorityLabel`) | `trumpow-fees.cpp:23-64`: the preset table, the fixed rate of the highest preset, the fall-through to `minTxFee` |
| `GetTrumpowMinRelayFee`, `InFreeArea` (action `MinRelayFee`) | `trumpow-fees.cpp:68-96`: deltas applied, zero for a prioritised transaction, the free area, the `MoneyRange` clamp |
| `GetTrumpowDustFee` (action `DustFee`) | `trumpow-fees.cpp:98-108` |
| `PrioritiseTransaction` | the mempool's side of `ApplyDeltas`; its code is outside these sources |

Data abstraction. `CAmount` is `int64_t`; the model keeps two's-complement
wrap-around at `WordBits` bits (`Wrap`), the truncating division of C++
(`Quot`, `Rem`) and the unsigned wrap of `DEFAULT_BLOCK_PRIORITY_SIZE - 1000`
at `UIntBits` bits. With `WordBits` = 16, `COIN` = 100 and `MaxCoins` = 35,
`MAX_MONEY` is to the largest word what 10^18 is to 2^63, so a product
overflows for amounts below `MAX_MONEY` in the model exactly where it does
in the code. `DEFAULT_BLOCK_PRIORITY_SIZE` is defined outside these sources
and is a constant. `ToString` is the pair (whole coins, fraction) that the
format string prints. `GetRelayFee` is declared in `amount.h` and defined
nowhere in these sources.

### RelayFee

`GetTrumpowMinRelayFee` reads the deltas of the transaction in a block that
holds `mempool.cs` (`trumpow-fees.cpp:70-78`) and computes the fee after the
block (80-95). `RelayFee` extends `FeeRate` with the thread of
`prioritisetransaction` and splits both functions where another thread can
run.

| Variable | Code |
|---|---|
| `pc` | where the thread that asks for a fee stands: `idle`, or `unlocked` between the block of `mempool.cs` and the return |
| `cs` | `mempool.cs`: `NoSection`, or the critical section of `PrioritiseTransaction` that holds it, with the fee delta it has yet to store |
| `committed` | history variable: `mapDeltas` as the last completed critical section left it |

| Action | Code |
|---|---|
| `MinRelayFeeLocked(tx, nBytes, fAllowFree)` | lines 68-78: waits for `mempool.cs`, reads the deltas, returns 0 for a prioritised transaction |
| `MinRelayFeeUnlocked` | lines 80-95: the fee of the size and the dust, the free area, the clamp, the return |
| `PrioritiseStorePriority`, `PrioritiseStoreFee` | `CTxMemPool::PrioritiseTransaction` (outside these sources): the lock and the first store; the second store and the release |

`answer` is `NoAnswer` while a call is between its two parts. The pure
functions of `FeeRate` are not repeated here: they read their arguments and
the start-up settings only, and run `feerate` checks them.

The refinement mapping (`Abs == INSTANCE FeeRate WITH ...`) reads
`mapDeltas` as `committed` and `answer` as `Linearized`: the answer already
returned, or, for a call between its two parts, the fee its second part is
going to return. The abstract step `MinRelayFee` is taken at the step
`MinRelayFeeLocked`, the abstract `PrioritiseTransaction` at
`PrioritiseStoreFee`; `MinRelayFeeUnlocked` and `PrioritiseStorePriority`
are stuttering steps of `FeeRate`.

### Uint256

A 256-bit number is the function from `1..32` to its bytes, least
significant first. `SetCompact` gives the number and the two flags the
callers test; `GetCompact` takes the three most significant bytes and adds a
size byte when the top bit of the mantissa would be set. A decoded target is
a word of at most 23 bits shifted by whole bytes, so the product with a
small factor is again a shifted word (`Scaled`) and the bytes of the
quotient by a small divisor are computed one by one (`ScaledQuotient`): the
bytes above the shift from the integer quotient, the bytes below from the
digits of the remaining fraction. The result is the exact 256-bit quotient,
not an approximation in the compact form. The bounds: the factor times the
mantissa, and the square of the divisor, stay below 2^31; both hold for
every timespan of the three networks on which a retarget is computed.

### Pow

| Variable | Code |
|---|---|
| `network` | the network chosen with `SelectParams` |
| `chain` | the end of the active chain: `nHeight`, `nTime`, `nBits` per block |
| `results` | in the test binary, the two numbers each case run so far compared |

| Operator, action | Code |
|---|---|
| `Eras`, `ConsensusRoot`, `ConsensusAt` | the members the three constructors leave, `pConsensusRoot`, and `Params().GetConsensus(height)` |
| `GenesisIndex`, `PowLimit` | time and `nBits` of the `CreateGenesisBlock` calls; `powLimit` |
| `GetNextWorkRequired` | specification 4.3: no retargeting; minimum difficulty for a late block; Digishield on every block; legacy at the interval |
| `CalculateNextWorkRequired` | the legacy retarget that `pow_tests.cpp` calls: the timespan within `[T/4, 4T]` |
| `CalculateDigishieldNextWorkRequired` | `(3T + actual) / 4` within `[3T/4, 4T/3]` |
| `AcceptBlock(nTime)` | a block with that timestamp is accepted on the tip, with the `nBits` that `GetNextWorkRequired` asks for under the rules of its height |
| `RunPowTest(name)` | one case of `pow_tests.cpp`: `SelectParams(MAIN)`, `GetConsensus(0)`, the call |
| `GetBlockProof`, `GetBlockProofEquivalentTime` | specification 4.3: the work of a block, 2^256 / (target + 1), and the time the work between two blocks takes at the work of a third |
| `blocks`, `RunEquivalentTimeTest(p1, p2, p3)` | `pow_tests.cpp:72-97`: the chain of constant target the case builds, and one round of its loop with three blocks drawn at random |

`GetBlockProof` is exact for the targets the model gives it: for a target
`nWord * 256^shift` with `shift` >= 29, 2^256 / (target + 1) rounded down
is 2^k / `nWord` rounded down with k = 8 * (32 - `shift`), less one when
`nWord` divides 2^k. Targets with more work than a machine word holds are
outside the model.

The node and the test binary are two programs: `AcceptBlock` is taken only
while no test has run, and a test only on a chain that holds nothing but its
genesis block.

Reading the constructed rules through the retargeter shows which branches
the networks use: every era of main and test has
`fDigishieldDifficultyCalculation` set (the base era included, lines 93 and
215), and every era of regtest has `fPowNoRetargeting`. The legacy branch is
reached on no network; `CalculateNextWorkRequired` is exercised by the
tests alone, which take the rules of main at height 0 and expect the legacy
bounds.

## 4. Runs

| Run | Module, cfg | Result | What it shows |
|---|---|---|---|
| `chainparams` | `MCChainParams`, `chainparams.cfg` | passes, 5,835 states | the five properties below |
| `bip9_override` | `MCChainParams`, `bip9_override.cfg` | violation | the regtest BIP9 override is visible below height 10 only |
| `genesis_target` | `MCChainParams`, `genesis_target.cfg` | violation | the testnet genesis hash is above its own target; the search is dead code |
| `miscrpc` | `MCMiscRpc`, `miscrpc.cfg` | passes, 26,071 states | the five properties below |
| `noorphans` | `MCMiscRpc`, `noorphans.cfg` | violation | `getblockhashes` with `noOrphans` can return blocks of two competing chains |
| `utxos_tip` | `MCMiscRpc`, `utxos_tip.cfg` | violation | `getaddressutxos` with `chainInfo` can return an output spent at the tip it reports |
| `deltas_help` | `MCMiscRpc`, `deltas_help.cfg` | violation | `getaddressdeltas` answers no call with a value |
| `feerate` | `MCFeeRate`, `feerate.cfg` | passes, 51,632 states | the four properties below |
| `fee_overflow` | `MCFeeRate`, `fee_overflow.cfg` | violation | a fee within `MoneyRange` gives a negative fee rate |
| `fee_presets` | `MCFeeRate`, `fee_presets.cfg` | violation | the Very High preset can exceed the Maximum preset |
| `relayfee` | `MCRelayFee`, `relayfee.cfg` | passes, 166,936 states | the two-part `GetTrumpowMinRelayFee` implements the one-step function of `FeeRate` |
| `pow` | `MCPow`, `pow.cfg` | passes, 49,826 states | the six properties below |

Properties of `chainparams`:

* `TypeOK` - records are well-formed, links stay inside their own object,
  the selection is a known network or none.
* `ResolvesToFloorEra` - at every height of `Heights`, the tree walk returns
  the era with the greatest activation height not above the height.
* `OneGenesisPerNetwork` - the record returned at any height carries the
  hash of the network's genesis block, and so does the checkpoint at 0.
* `ForksNeverRevert` - between any two heights, Digishield is not switched
  off, legacy blocks are not re-allowed, maturity does not shrink.
* `RulesFixedAfterStartup` (action property) - no step changes the rules at
  any height of a constructed network, except the deployment times of
  regtest.

Properties of `miscrpc`:

* `TypeOK` - the active chain is a path of the block tree, a mutex has at
  most one owner, `cs_wallet` is held only when there is a wallet, a busy
  thread has a request and no answer yet.
* `MockTimeStableDuringValidation` (action property) - the mock clock does
  not change while the validation thread holds `cs_main`: the guarantee the
  comment at 1060-1064 gives for the lock of `setmocktime`.
* `HeldLocksAreReleased` (liveness) - whoever holds `cs_main` or
  `cs_wallet` gives it up, on every path of every handler, the throwing
  ones included.
* `UtxosCoverRequiredAmount` (action property) - what `getaddressutxos`
  returns is a lowest-heights-first selection of the unspent outputs it
  read, complete when no amount is required, and otherwise reaching the
  amount with no output more than needed, whatever order `std::sort` leaves
  outputs of equal height in.

* `BlockHashesOfUnsignedRange` (action property) - the walk of
  `getblockhashes` starts from every indexed block whose time is at least
  `low` and below `high` as `unsigned int` (735-736), so that a `high` of -1
  is a bound above every time; from there to the answer no block is added,
  and none is dropped but a block found off the active chain by a call with
  `noOrphans`.

Properties of `feerate`:

* `TypeOK` - the settings, the deltas and every answer stay within the word;
  a minimum relay fee is within `MoneyRange`.
* `FeeWithinOneOfExact` - where the product does not overflow, `GetFee` is
  the exact fee rounded towards zero, or one unit when that would be zero.
* `RateReproducesFee` - a rate built from a fee and a size gives back, for
  that size, a fee that differs from the one paid by less than one unit per
  1000 bytes of rounding.
* `MinRelayFeeGrowsWithSize` (action property) - with the same deltas, a
  smaller transaction is never asked a higher relay fee, on both sides of
  the free area.

Properties of `relayfee`:

* `RelayTypeOK` - `FeeRate`'s type invariant under the refinement mapping,
  and the shape of `pc`, `cs` and `committed`.
* `MinRelayFeeIsAtomic` (refinement) - `Abs!Spec`: every behaviour of
  `RelayFee` is, under the mapping, a behaviour of `FeeRate`. Whatever
  `prioritisetransaction` does before, between and after the two parts of a
  call, the answer is the one the one-step function gives for the deltas a
  completed `PrioritiseTransaction` left: never for a priority delta
  already stored with its fee delta still to come, which is what a read
  without `mempool.cs` can see.

Properties of `pow`:

* `TypeOK` - the index holds consecutive heights; the test results are those
  of known cases.
* `PowTestsPass` - every case of `pow_tests.cpp` that has run compared two
  equal numbers: the three compact targets, and for any three blocks of the
  chain of `GetBlockProofEquivalentTime_test` the equivalent time and the
  difference of the timestamps, with its sign.
* `CompactRoundTrip` - every `nBits` on the chain is the encoding
  `GetCompact` gives its own target.
* `RegTestTargetNeverMoves` - on regtest the target is the one of the
  genesis block at every height, across the forks at 10 and 20.
* `RetargetStepBounded` - from one block to the next the target moves by a
  factor within [3/4, 4/3], up to the unit in the last place the encoding
  drops, unless the era of the new block grants minimum difficulty and the
  block came more than two spacings late.
* `TargetWithinPowLimit` - no block carries a target that is zero,
  negative, too wide or above the powLimit of its era.

The violations:

* `noorphans` - `if (fActiveOnly) LOCK(cs_main);` (755-756) makes the lock
  the body of the `if`: it is released before the walk starts. The trace
  connects A1, lets the walk accept A1, reorganises to B1 and lets the walk
  accept B1: the answer holds two blocks of height 1.
* `utxos_tip` - the unspent index is read at 589 and the tip at 626, under
  a lock taken only at 625. A block connected in between spends an output
  that the answer lists together with the new tip.
* `deltas_help` - the help text of `getaddressdeltas` promises a list of
  deltas; every call ends in an error.
* `fee_overflow` - `CFeeRate(nFeePaid, nBytes)` multiplies the fee by 1000
  in `int64_t` before dividing (`amount.cpp:19`): a fee above a thousandth of
  the largest word, which is far below `MAX_MONEY`, wraps to a negative
  rate. In the model the fee is 33 units at 16 bits; in the code it is any
  fee above 2^63 / 1000.
* `fee_presets` - the highest preset is the fixed rate `COIN / 100 * 521`
  per kB, the one below it is 100 times `minTxFee` (`trumpow-fees.cpp:28-36`):
  with a configured minimum above 0.0521 coins per kB the order of the
  presets is reversed.

Each property of a passing run is paired in `PROJECT.json` with a mutation
of the model that stands for a plausible slip in the code (a missing copy
line, a copy from the wrong era, a dropped guard, a lock taken too late, a
`>` for a `>=`) and makes TLC report the property violated.

The violations of the registry are disagreements between the source and
its specification, those of the RPC model are defects of the code;
`PROJECT.json` records each under `findings`.

One more disagreement needs no run of its own: the specification lists two
eras for regtest, base and Digishield, and `CRegTestParams` builds three
(`consensus` at height 0, `digishieldConsensus` at 10, `auxpowConsensus` at
20). `ResolvesToFloorEra` and `ForksNeverRevert` are checked on the three.

## 5. Bounds

Registry:

* `Heights` = 0, both neighbours of every activation height of the three
  networks (10, 20, 1000, 1250, 60000) and 2^31 - 1. `GetConsensus` compares
  a height with activation heights only, so two heights between the same two
  activation heights take the same path: the set covers every path.
* `BIP9Times` = {0, 1, `FarFuture`}: the regtest defaults and one other
  value, enough to tell an overridden record from a fresh one.
* `ChainNames` = the three networks and one unknown name.
* `NonceLimit` = 2^31 - 1 stands for 2^32 (TLC's integers are 32-bit signed);
  no run reaches the wrap.

RPC:

* `RpcThreads` = two threads. `rpc1` may make any call of `ControlCalls`,
  `UtilCalls` and `IndexCalls` (51 calls: every handler, with and without
  its optional parameters, with a parameter of the wrong type, and with the
  wrong number of parameters); `rpc2` makes one call, `setmocktime 1`. Two
  threads are what a lock needs to be contended, and `setmocktime` is the
  only handler that writes shared state, so a second general thread would
  add states and no behaviour the properties tell apart.
  The larger instance in which `rpc2` may also call `getinfo` and
  `validateaddress 1` (both threads then wait at `LOCK2`, and one throws
  while it holds both mutexes) has 104,068 distinct states; the same
  properties hold and there is no deadlock. It takes five minutes, so the
  configuration kept is the smaller one.
* `mapBlockIndex` = genesis G, a chain A1-A2 and a competing block B1 at
  height 1: the smallest tree with a reorganisation. The validation thread
  may connect any child of the tip and disconnect the tip, so every active
  chain of the tree is reached, in every order.
* `mapTx` = three coinbases and one transaction that spends the coinbase of
  A1 in A2 and pays two addresses: one output becomes spent, one address has
  outputs at two heights and one has two candidates for a required amount.
* `StartUps` = regtest with a wallet and every index, and mainnet with
  none: both sides of every `GetBoolArg`, `pwalletMain` and
  `MineBlocksOnDemand` test.
* `nMockTime` takes the values the calls pass (0 and 1). One call of
  `getblockhashes` passes -1 as `high`, which the conversion to
  `unsigned int` (735) turns into a bound above every time
  (`UnsignedLess`).

Fees:

* `FeeSettings`: four settings of (`minTxFee`, `minRelayTxFeeRate`,
  `nDustLimit`): the smallest, a typical one, one whose products overflow
  the word, and all zero.
* `Sizes` = 0, 1, both neighbours of 1000, both neighbours of the free area
  (`DEFAULT_BLOCK_PRIORITY_SIZE - 1000` = 26000) and the largest word;
  `Amounts` and `Rates` hold negative values, zero, one, both neighbours of
  the overflow of `x * 1000` (32, 33) and `MAX_MONEY`.
* `Priorities` = -1 .. 6: every preset and one value on either side.
* Two transactions, one with a dust output and one with two; priority
  deltas 0 and 1, fee deltas -1, 0, 1: a prioritised and a plain transaction.
  A call of `PrioritiseTransaction` adds any amount that leads from one of
  these sums to another, so one call can lower the priority delta and raise
  the fee delta: the case in which a transaction is prioritised before and
  after the call and looks plain between its two stores.
* `relayfee.cfg` takes the constants of `feerate.cfg`. One thread asks for
  fees and one prioritises: the first has one call in progress at a time,
  and a second critical section cannot start while `mempool.cs` is held, so
  more threads of either kind add no interleaving of the steps.

Retargeter:

* Every network is followed from its genesis block and from tips two blocks
  below each of its fork heights (998, 1248, 59998; 8 and 18 on regtest),
  with targets at the powLimit, with a mantissa that fills three bytes, and
  the targets `pow_tests.cpp` starts from.
* `MaxBlocks` = 4 blocks are added to a start chain: a chain crosses its
  fork height with blocks on both sides, and, since a Digishield retarget
  reads the timestamps of the tip and of the block before it, every pair of
  consecutive gaps is tried on both sides of the fork.
* `TestBlocks` = 4 blocks in the chain of
  `GetBlockProofEquivalentTime_test` (10000 in the source): every order of
  three blocks, equal ones included, so both signs of the difference of
  work and the difference zero.
* `Gaps` = -200, 0, 60, 120, 121, 400 seconds: a timestamp before the
  tip's (the damped timespan goes negative before it is bounded), the same
  second, on schedule, exactly twice the spacing and one second more (the
  minimum-difficulty rule), and beyond the upper bound.

## 6. Fairness and deadlock

`ChainParams` has safety properties only and no fairness condition. After
static initialisation `SelectParams` is always enabled, so the run checks
deadlock, and there is none.

`MiscRpc` assumes weak fairness of `ValidationUnlock` and, for every RPC
thread, of the steps it takes inside a handler (`InHandler`): a thread that
is runnable is scheduled, and the validation thread leaves its critical
section. Nothing is assumed about requests arriving or blocks being found.
A thread waiting for a mutex is not promised to win it against the others
(that would be strong fairness, which a `std::mutex` does not give); the
properties do not need it, because the holder's release does not depend on
the waiters. An idle thread can always take a call, so the run checks
deadlock.

`FeeRate`, `RelayFee` and `Pow` have safety properties only. `FeeRate` and
`RelayFee` check deadlock (a call is always possible, a critical section
can always be left). `RelayFee` assumes no fairness: the refinement is of
the safety part of `FeeRate`, which has no liveness to preserve. `pow.cfg` does not: nothing obliges a block to
arrive, and the model stops adding blocks at `MaxBlocks`.

## 7. Not modelled

* Seed lists, base58 prefixes, `chainTxData`: constants that no code in
  these sources reads.
* The exact 256-bit digests: a hash function is out of TLC's reach; the
  three digests the source asserts are given as constants.
* Cryptography of `verifymessage`, `signmessagewithprivkey` and
  `createmultisig`: a signature verifies or not by a constant table.
* The wording of help texts and of the JSON answers' field layout.
* The fields of `getinfo` other than `blocks`, `testnet` and the presence
  of the wallet (`relayfee`, `paytxfee`, the connection count, ...): they
  are read-only reports of values no handler changes, and `MiscRpc` is not
  composed with `FeeRate`.
* `CheckProofOfWork`: `pow.cpp` is outside these sources and nothing in
  them calls it. `GetBlockProof` for targets whose work exceeds a machine
  word, and the cut of `GetBlockProofEquivalentTime` at 63 bits. The case
  `get_next_work_upper_limit_actual` of `pow_tests.cpp`, which the source
  holds inside a comment.
* The genesis nonce search step by step: no execution enters it. Its
  guard compares the digest of the block with the digest the source goes
  on to assert, so a state inside the loop is a state the program is
  never in; the loop is the operator `MineGenesis`, and the constructors
  evaluate its guard.
* The serialisation of `CFeeRate` (`amount.h:68-73`): one field written
  and read as it is.
* An abstract specification of the registry. The era schedule `FloorEra`
  of `ConsensusParams` already is the abstract form of the parameter tree
  (the ordered list of activation heights of section 9 of the
  specification), and `ResolvesToFloorEra` compares the tree walk with it
  at every boundary height; a refinement would state the same again.
* Liveness of the RPC handlers. That every call is answered needs every
  thread waiting at `LOCK(cs_main)` to get the mutex in the end, which is
  strong fairness of the acquisition; the mutex of the code promises no
  such thing, and a validation thread that takes the lock again and again
  can keep a handler waiting. What holds without it is
  `HeldLocksAreReleased`.
* Deadlock between the two mutexes by lock order: every handler of these
  sources that takes both takes `cs_main` first (`LOCK2`), and the threads
  that might take them in the other order are outside these sources. The
  runs check deadlock of the handlers as they are.
* A reader racing with `UpdateRegtestBIP9Parameters`. The two stores of
  the override are unsynchronised, but the readers of the deployment times
  (the version bits computation) are outside these sources, and the
  specification (section 5) requires the override to be applied in
  single-threaded set-up, before any reader exists. In the model the
  override is one step.
* The pure functions of `FeeRate` interleaved with the two-part
  `GetTrumpowMinRelayFee`: they share no state with it but the start-up
  settings, which nothing writes.
* `wallet/rpcutil.h`: declarations only.
