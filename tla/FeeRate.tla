------------------------------ MODULE FeeRate ------------------------------
(***************************************************************************)
(* Fee rates and the fee policy: class CFeeRate of src/src/amount.h and    *)
(* src/src/amount.cpp, and GetTrumpowFeeRate, GetTrumpowMinRelayFee and    *)
(* GetTrumpowDustFee of src/src/trumpow-fees.cpp.                          *)
(*                                                                         *)
(* An amount is a CAmount, a signed machine word.  The code computes with  *)
(* 64 bits; the model computes with WordBits bits and wraps every product  *)
(* and sum the way the 64-bit instructions do, so that the boundary where  *)
(* a product stops to fit is inside what TLC can enumerate.  COIN and      *)
(* MAX_MONEY are constants of the model for the same reason; the literals  *)
(* 1000 (bytes per kB), 100, 521 and the preset multipliers are those of   *)
(* the source.                                                             *)
(*                                                                         *)
(* The functions are pure: they read three settings fixed at start-up and  *)
(* the mempool's priority deltas.  The module keeps the settings and the   *)
(* deltas as state, and every function is an action that records the call  *)
(* and its answer.                                                         *)
(***************************************************************************)
EXTENDS Integers, Sequences

CONSTANTS
    WordBits,                     \* bits of CAmount and int64_t (64 in the code)
    UIntBits,                     \* bits of unsigned int (32 in the code)
    COIN,                         \* trumpowtoshis per coin
    MaxCoins,                     \* MAX_MONEY in coins
    DEFAULT_BLOCK_PRIORITY_SIZE,  \* policy.h: bytes of a block kept for free transactions
    FeeSettings,                  \* the [minTxFee, minRelayTxFeeRate, nDustLimit] a node may start with
    Transactions,                 \* transactions: [hash, vout], vout a sequence of [nValue]
    Amounts, Sizes, Rates,        \* the arguments the callers pass
    Priorities,
    PriorityDeltas, FeeDeltas     \* what prioritisetransaction may add up to

VARIABLES
    minTxFee,            \* CWallet::minTxFee
    minRelayTxFeeRate,   \* ::minRelayTxFeeRate
    nDustLimit,          \* ::nDustLimit
    mapDeltas,           \* CTxMemPool::mapDeltas: hash -> [dPriorityDelta, nFeeDelta]
    call,                \* the function called last, with its arguments
    answer               \* what it returned

settings == <<minTxFee, minRelayTxFeeRate, nDustLimit>>
vars == <<minTxFee, minRelayTxFeeRate, nDustLimit, mapDeltas, call, answer>>

----------------------------------------------------------------------------
(* Machine arithmetic.                                                     *)

MaxWord == 2^(WordBits - 1) - 1
Word == -MaxWord - 1 .. MaxWord

\* The two's complement word a result is stored as.
Wrap(n) == ((n + MaxWord + 1) % 2^WordBits) - MaxWord - 1

\* a / b and a % b of C++ for b > 0: the quotient is truncated towards
\* zero and the remainder has the sign of a.
Quot(a, b) == IF a >= 0 THEN a \div b ELSE -((-a) \div b)
Rem(a, b) == a - b * Quot(a, b)

MAX_MONEY == MaxCoins * COIN

MoneyRange(nValue) == nValue >= 0 /\ nValue <= MAX_MONEY

----------------------------------------------------------------------------
(* CFeeRate.  A rate is its ntrumpowtoshisPerK.                            *)

\* Mutation of CFeeRate: the division is done before the multiplication.
CFeeRateDividedFirst(nFeePaid, nBytes) ==
    IF nBytes > 0 THEN Wrap(Quot(nFeePaid, nBytes) * 1000) ELSE 0

\* CFeeRate(nFeePaid, nBytes): the rate a fee paid for nBytes amounts to.
CFeeRate(nFeePaid, nBytes) ==
    IF nBytes > 0 THEN Quot(Wrap(nFeePaid * 1000), nBytes) ELSE 0

\* Mutation of GetFee: the fee is not rounded away from zero.
GetFeeTruncated(rate, nBytes) == Quot(Wrap(rate * nBytes), 1000)

\* GetFee(nBytes): a fee of zero for a transaction that has bytes becomes
\* one unit with the sign of the rate.
GetFee(rate, nBytes) ==
    LET nFee == Quot(Wrap(rate * nBytes), 1000)
    IN  IF nFee = 0 /\ nBytes # 0
        THEN CASE rate > 0 -> 1 [] rate < 0 -> -1 [] OTHER -> 0
        ELSE nFee

GetFeePerK(rate) == GetFee(rate, 1000)

\* operator<, >, ==, <= and >=: the order of two rates is the order of
\* their amounts per kB.
Compare(a, b) ==
    [lt |-> a < b, gt |-> a > b, eq |-> a = b, le |-> a <= b, ge |-> a >= b]

\* operator+=
PlusAssign(a, b) == Wrap(a + b)

\* ToString prints "%d.%08d" of these two numbers.
ToString(rate) == [whole |-> Quot(rate, COIN), fraction |-> Rem(rate, COIN)]

----------------------------------------------------------------------------
(* The fee policy.                                                         *)

\* enum FeeRatePreset
FeeRatePreset ==
    [ MINIMUM |-> 0, LOW |-> 1, MODERATE |-> 2, HIGH |-> 3, VERY_HIGH |-> 4,
      MAXIMUM |-> 5 ]

\* The presets LOW to VERY_HIGH are a multiple of the wallet's minimum rate.
Multiple == <<2, 5, 10, 100>>

GetTrumpowFeeRate(priority) ==
    CASE priority = FeeRatePreset.MAXIMUM -> Wrap(Quot(COIN, 100) * 521)
      [] priority \in DOMAIN Multiple ->
            Wrap(GetFeePerK(minTxFee) * Multiple[priority])
      [] OTHER -> minTxFee

GetTrumpowPriorityLabel(priority) ==
    LET label == <<"Minimum", "Low", "Moderate", "High", "Very High", "Maximum">>
    IN  IF priority + 1 \in DOMAIN label THEN label[priority + 1] ELSE "Default"

\* CTxOut::IsDust with the soft dust limit.
IsDust(txout, dustLimit) == txout.nValue < dustLimit

\* The dust limit once for every output below it.
GetTrumpowDustFee(vout, dustLimit) ==
    Wrap(dustLimit * Len(SelectSeq(vout, LAMBDA txout : IsDust(txout, dustLimit))))

\* CTxMemPool::ApplyDeltas: the deltas of a transaction, zero when it has none.
ApplyDeltas(hash) ==
    IF hash \in DOMAIN mapDeltas THEN mapDeltas[hash]
    ELSE [dPriorityDelta |-> 0, nFeeDelta |-> 0]

\* Mutation of InFreeArea: the comparison is the other way round.
InFreeAreaSwapped(nBytes) ==
    nBytes > (DEFAULT_BLOCK_PRIORITY_SIZE - 1000) % 2^UIntBits

\* nBytes < (DEFAULT_BLOCK_PRIORITY_SIZE - 1000), computed in unsigned int.
InFreeArea(nBytes) ==
    nBytes < (DEFAULT_BLOCK_PRIORITY_SIZE - 1000) % 2^UIntBits

\* The test of the deltas, made inside the critical section of mempool.cs.
Prioritised(deltas) == deltas.dPriorityDelta > 0 \/ deltas.nFeeDelta > 0

\* Mutation of MinFee: the result is not clamped.
MinFeeUnclamped(tx, nBytes, fAllowFree) ==
    IF fAllowFree /\ InFreeArea(nBytes) THEN 0
    ELSE Wrap(GetFee(minRelayTxFeeRate, nBytes)
                + GetTrumpowDustFee(tx.vout, nDustLimit))

\* What GetTrumpowMinRelayFee computes once mempool.cs is released: the fee
\* of the size and of the dust outputs, nothing in the free area, and
\* MAX_MONEY for a sum that is no amount of money.
MinFee(tx, nBytes, fAllowFree) ==
    LET nMinFee == IF fAllowFree /\ InFreeArea(nBytes) THEN 0
                   ELSE Wrap(GetFee(minRelayTxFeeRate, nBytes)
                               + GetTrumpowDustFee(tx.vout, nDustLimit))
    IN  IF MoneyRange(nMinFee) THEN nMinFee ELSE MAX_MONEY

\* The function as one step: the deltas and the fee of one moment.
GetTrumpowMinRelayFee(tx, nBytes, fAllowFree) ==
    IF Prioritised(ApplyDeltas(tx.hash)) THEN 0
    ELSE MinFee(tx, nBytes, fAllowFree)

----------------------------------------------------------------------------
(* The state machine.                                                      *)

Init ==
    /\ \E s \in FeeSettings :
          /\ minTxFee = s.minTxFee
          /\ minRelayTxFeeRate = s.minRelayTxFeeRate
          /\ nDustLimit = s.nDustLimit
    /\ mapDeltas = <<>>
    /\ call = [op |-> "none"]
    /\ answer = 0

\* What the two deltas of a transaction become when a call adds to them.
Raised(hash, dPriorityDelta, nFeeDelta) ==
    [ dPriorityDelta |-> ApplyDeltas(hash).dPriorityDelta + dPriorityDelta,
      nFeeDelta |-> ApplyDeltas(hash).nFeeDelta + nFeeDelta ]

\* A call the model follows: it changes a delta and leaves both sums
\* within the bound.
Bounded(hash, dPriorityDelta, nFeeDelta) ==
    /\ Raised(hash, dPriorityDelta, nFeeDelta).dPriorityDelta \in PriorityDeltas
    /\ Raised(hash, dPriorityDelta, nFeeDelta).nFeeDelta \in FeeDeltas
    /\ Raised(hash, dPriorityDelta, nFeeDelta) # ApplyDeltas(hash)

\* mapDeltas[hash] = deltas
Stored(hash, deltas) ==
    [h \in DOMAIN mapDeltas \cup {hash} |->
        IF h = hash THEN deltas ELSE mapDeltas[h]]

\* CTxMemPool::PrioritiseTransaction adds to the deltas of a transaction,
\* both under mempool.cs: one step here.  The sums stay within
\* PriorityDeltas and FeeDeltas, the bound of the model on how often a
\* transaction is prioritised.
PrioritiseTransaction(hash, dPriorityDelta, nFeeDelta) ==
    /\ UNCHANGED <<settings, call, answer>>
    /\ Bounded(hash, dPriorityDelta, nFeeDelta)
    /\ mapDeltas' = Stored(hash, Raised(hash, dPriorityDelta, nFeeDelta))

\* The amounts a call may add: whatever leads from one sum within the bound
\* to another, a negative amount included.
Steps(sums) == {a - b : a, b \in sums}

\* A call of a function, and what it returns.
Returns(c, value) ==
    /\ call' = c
    /\ answer' = value
    /\ UNCHANGED <<settings, mapDeltas>>

\* The assertion of CFeeRate and GetFee on the size_t they are given.
SizeAsserted(nBytes) == nBytes <= MaxWord

NewFeeRate(nFeePaid, nBytes) ==
    /\ SizeAsserted(nBytes)
    /\ Returns([op |-> "CFeeRate", nFeePaid |-> nFeePaid, nBytes |-> nBytes],
               CFeeRate(nFeePaid, nBytes))

Fee(rate, nBytes) ==
    /\ SizeAsserted(nBytes)
    /\ Returns([op |-> "GetFee", rate |-> rate, nBytes |-> nBytes],
               GetFee(rate, nBytes))

Compared(a, b) ==
    Returns([op |-> "compare", rate |-> a, other |-> b], Compare(a, b))

Add(a, b) ==
    Returns([op |-> "operator+=", rate |-> a, other |-> b], PlusAssign(a, b))

Format(rate) ==
    Returns([op |-> "ToString", rate |-> rate], ToString(rate))

WalletFeeRate(priority) ==
    Returns([op |-> "GetTrumpowFeeRate", priority |-> priority],
            GetTrumpowFeeRate(priority))

PriorityLabel(priority) ==
    Returns([op |-> "GetTrumpowPriorityLabel", priority |-> priority],
            GetTrumpowPriorityLabel(priority))

DustFee(tx, dustLimit) ==
    Returns([op |-> "GetTrumpowDustFee", tx |-> tx, dustLimit |-> dustLimit],
            GetTrumpowDustFee(tx.vout, dustLimit))

MinRelayFee(tx, nBytes, fAllowFree) ==
    Returns([op |-> "GetTrumpowMinRelayFee", tx |-> tx, nBytes |-> nBytes,
             fAllowFree |-> fAllowFree],
            GetTrumpowMinRelayFee(tx, nBytes, fAllowFree))

\* The calls that read no more than their arguments and the settings.
PureCall ==
    \/ \E nFeePaid \in Amounts, nBytes \in Sizes : NewFeeRate(nFeePaid, nBytes)
    \/ \E rate \in Rates, nBytes \in Sizes : Fee(rate, nBytes)
    \/ \E a \in Rates, b \in Rates : Compared(a, b) \/ Add(a, b)
    \/ \E rate \in Rates : Format(rate)
    \/ \E priority \in Priorities :
          WalletFeeRate(priority) \/ PriorityLabel(priority)
    \/ \E tx \in Transactions : DustFee(tx, nDustLimit)

Next ==
    \/ \E tx \in Transactions, p \in Steps(PriorityDeltas), f \in Steps(FeeDeltas) :
          PrioritiseTransaction(tx.hash, p, f)
    \/ \E tx \in Transactions, nBytes \in Sizes, fAllowFree \in BOOLEAN :
          MinRelayFee(tx, nBytes, fAllowFree)
    \/ PureCall

Spec == Init /\ [][Next]_vars

----------------------------------------------------------------------------
(* Properties.                                                             *)

Answered(op) == call.op = op

\* The settings and every amount returned are machine words, a minimum
\* relay fee is an amount of money (the clamp of GetTrumpowMinRelayFee,
\* lines 93-94), a label is one of the seven.
TypeOK ==
    /\ {minTxFee, minRelayTxFeeRate, nDustLimit} \subseteq Word
    /\ \A hash \in DOMAIN mapDeltas :
          /\ mapDeltas[hash].dPriorityDelta \in PriorityDeltas
          /\ mapDeltas[hash].nFeeDelta \in FeeDeltas
    /\ CASE Answered("GetTrumpowMinRelayFee") -> MoneyRange(answer)
         [] Answered("GetTrumpowPriorityLabel") ->
               answer \in {"Minimum", "Low", "Moderate", "High", "Very High",
                           "Maximum", "Default"}
         [] Answered("compare") ->
               answer \in [{"lt", "gt", "eq", "le", "ge"} -> BOOLEAN]
         [] Answered("ToString") ->
               answer.whole \in Word /\ answer.fraction \in -COIN + 1 .. COIN - 1
         [] OTHER -> answer \in Word

\* The product a computation forms fits the machine word.
Fits(n) == n \in Word

\* GetFee against the exact fee rate * nBytes / 1000: whenever the product
\* fits the word, the fee GetFee returns is less than one unit away from
\* the exact one, has its sign, and is zero only when the exact fee is.
\* A rate that is not zero never lets a transaction with bytes pass free
\* (amount.cpp, lines 29-36).
FeeWithinOneOfExact ==
    Answered("GetFee") /\ Fits(call.rate * call.nBytes) =>
        LET exact == call.rate * call.nBytes
        IN  /\ answer * 1000 - exact \in -999 .. 999
            /\ (answer = 0) = (exact = 0)
            /\ (answer > 0) = (exact > 0)

\* The constructor and GetFee together: the rate computed from a fee paid
\* for nBytes gives back, for the same nBytes, a fee that is never above
\* the fee paid and below it by less than one unit per kB plus one, as
\* long as the product of the constructor fits the word (amount.cpp, lines
\* 18-19 with 29-36).
RateReproducesFee ==
    Answered("CFeeRate") /\ call.nFeePaid >= 0 /\ call.nBytes > 0
        /\ Fits(call.nFeePaid * 1000) =>
        LET nFee == GetFee(answer, call.nBytes)
        IN  /\ nFee <= call.nFeePaid
            /\ (call.nFeePaid - nFee) * 1000 < call.nBytes + 1000

\* The minimum relay fee grows with the size: with the same settings,
\* deltas and outputs, no smaller transaction is asked for more than the
\* one a step answers, as long as the fee of the larger one fits the word.
\* It joins the deltas test, GetFee, the dust fee, the free area and the
\* clamp of GetTrumpowMinRelayFee (trumpow-fees.cpp, lines 76-94).
MinRelayFeeGrowsWithSize ==
    [][ /\ mapDeltas' = mapDeltas
        /\ call'.op = "GetTrumpowMinRelayFee"
        /\ Fits(minRelayTxFeeRate * call'.nBytes)
        => \A nBytes \in Sizes :
              nBytes <= call'.nBytes =>
                  GetTrumpowMinRelayFee(call'.tx, nBytes, call'.fAllowFree)
                      <= answer' ]_vars

\* Every fee the consensus rules accept is a fee the constructor can turn
\* into a rate: the rate of a fee in MoneyRange is not negative.  amount.h
\* states one requirement of CFeeRate(nFeePaid, nBytes), on the size.
RateOfValidFeeIsNotNegative ==
    Answered("CFeeRate") /\ MoneyRange(call.nFeePaid) => answer >= 0

\* The presets are named in rising order, from Minimum to Maximum: a
\* higher priority never gives a lower rate, as long as the multiples of
\* the wallet's minimum rate fit the word (trumpow-fees.cpp, lines 27-41).
PresetsGrowWithPriority ==
    minTxFee >= 0 /\ Fits(minTxFee * 1000) =>
        \A p, q \in 0 .. 5 :
            p <= q => GetTrumpowFeeRate(p) <= GetTrumpowFeeRate(q)

=============================================================================
