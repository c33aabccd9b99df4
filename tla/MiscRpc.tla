------------------------------ MODULE MiscRpc ------------------------------
(***************************************************************************)
(* The RPC handlers of src/src/rpc/misc.cpp, run by the threads of the RPC *)
(* server while the validation thread connects and disconnects blocks.     *)
(*                                                                         *)
(* A handler is one action where it touches shared state once, and one     *)
(* action per step where it blocks on a mutex or reads shared state more   *)
(* than once.  The chain, the indexes and the mempool belong to code       *)
(* outside this file (validation, txdb, txmempool); they are modelled only *)
(* as far as the handlers read them.                                       *)
(*                                                                         *)
(* Data.  A JSON value is a record [typ, val].  An address string, a key   *)
(* or a signature is a name that the tables Destinations, PubKeys and      *)
(* PrivateKeys decode.  Outputs of a transaction are numbered from 1.      *)
(***************************************************************************)
EXTENDS ChainProfile, Integers, Sequences, FiniteSets, SequencesExt

CONSTANTS
    NULL,            \* a null pointer, a null JSON value, "no answer yet"
    RpcThreads,      \* the worker threads of the RPC server
    Requests,        \* Requests[t]: the calls thread t may be handed
    StartUps,        \* the ways the node may have been started: records [chain,
                     \* wallet, txindex, addressindex, timestampindex, spentindex]
    CompiledIndexes, \* the optional indexes compiled in (ENABLE_..._INDEX)
    mapBlockIndex,   \* block hash |-> [pprev, nTime, vtx], every block ever seen
    mapTx,           \* txid |-> [vin, vout, nTime]
    hashGenesisBlock,
    Destinations,    \* address string |-> [type, hashBytes], NULL if it does not decode
    PubKeys,         \* hex string |-> [size, fullyValid, id]
    PrivateKeys,     \* WIF string |-> [valid, signs, id]
    WalletKeys       \* key ids whose public key the wallet knows

VARIABLES
    chainActive,     \* the active chain, a sequence of block hashes from genesis
    timestampIndex,  \* the blocks ever connected (entries are never erased)
    cs_main,         \* the thread that holds the mutex, or NULL
    cs_wallet,       \* likewise for pwalletMain->cs_wallet
    nMockTime,       \* 0: use the system time
    mapArgs,         \* the start-up options: network, wallet, index flags
    pc,              \* where each RPC thread is
    request,         \* the call an RPC thread is executing or has answered last
    local,           \* the handler's local variables that outlive a step
    result           \* the last answer each RPC thread gave

chain  == <<chainActive, timestampIndex>>
locks  == <<cs_main, cs_wallet>>
thread == <<pc, request, local, result>>
vars   == <<chain, locks, nMockTime, mapArgs, thread>>

Validation == "validation"     \* the thread that runs ActivateBestChain

COIN == 100000000              \* amount.h

----------------------------------------------------------------------------
(* JSON values (UniValue).                                                 *)
Str(s)  == [typ |-> "VSTR",  val |-> s]
Num(n)  == [typ |-> "VNUM",  val |-> n]
Bool(b) == [typ |-> "VBOOL", val |-> b]
Obj(o)  == [typ |-> "VOBJ",  val |-> o]

\* params[i] of a request: indexing past the end yields the null value.
Param(r, i) == IF i <= Len(r.params) THEN r.params[i] ELSE NULL

\* find_value(obj, name): the member, or the null value.
find_value(obj, name) ==
    IF name \in DOMAIN obj.val THEN obj.val[name] ELSE NULL

isNum(v)  == v # NULL /\ v.typ = "VNUM"
isStr(v)  == v # NULL /\ v.typ = "VSTR"
isBool(v) == v # NULL /\ v.typ = "VBOOL"
isObject(v) == v # NULL /\ v.typ = "VOBJ"

\* get_str, get_int and get_array throw std::runtime_error on a value of
\* another type: whether the first parameters have the types read of them.
Typed(r, types) == \A i \in DOMAIN types : r.params[i].typ = types[i]

\* The answers.  An exception is a record with the error code only.
Error(code) == [error |-> code]
Value(v)    == [value |-> v]

\* ValueFromAmount: an amount as a decimal number of coins.
ValueFromAmount(amount) ==
    LET n_abs == IF amount < 0 THEN -amount ELSE amount
    IN  [sign |-> amount < 0, quotient |-> n_abs \div COIN,
         remainder |-> n_abs % COIN]

----------------------------------------------------------------------------
(* The chain and its indexes, as validation maintains them.                *)
Height(c) == Len(c) - 1
Tip(c)    == Last(c)

\* The output an outpoint [hash, n] refers to.
Prevout(outpoint) == mapTx[outpoint.hash].vout[outpoint.n]

\* The address index entries of one transaction confirmed at a height (or
\* in the mempool, height NULL): one per input, then one per output.
TxDeltas(txid, height) ==
    LET tx == mapTx[txid]
        Entry(address, i, spending, amount, prev) ==
            [ type |-> address.type, hashBytes |-> address.hashBytes,
              blockHeight |-> height, txhash |-> txid, index |-> i,
              spending |-> spending, amount |-> amount, prev |-> prev,
              time |-> tx.nTime ]
    IN  [i \in DOMAIN tx.vin |->
            LET out == Prevout(tx.vin[i])
            IN  Entry(out.address, i, TRUE, -out.nValue, tx.vin[i])]
        \o
        [i \in DOMAIN tx.vout |->
            Entry(tx.vout[i].address, i, FALSE, tx.vout[i].nValue, NULL)]

\* Every entry of the blocks of chain c, in key order (height, position).
ChainDeltas(c) ==
    FlattenSeq([h \in DOMAIN c |->
        LET vtx == mapBlockIndex[c[h]].vtx
        IN  FlattenSeq([k \in DOMAIN vtx |-> TxDeltas(vtx[k], h - 1)])])

IsFor(e, address) ==
    e.type = address.type /\ e.hashBytes = address.hashBytes

\* GetAddressIndex(hash, type, addressIndex): the entries of one address.
GetAddressIndex(c, address) ==
    SelectSeq(ChainDeltas(c), LAMBDA e : IsFor(e, address))

\* The outpoints that the blocks of c spend.
SpentOn(c) == {e.prev : e \in {d \in ToSet(ChainDeltas(c)) : d.spending}}

\* GetAddressUnspent: the outputs of one address that c has not spent.
GetAddressUnspent(c, address) ==
    { [ type |-> e.type, hashBytes |-> e.hashBytes, txhash |-> e.txhash,
        index |-> e.index, satoshis |-> e.amount,
        blockHeight |-> e.blockHeight ] :
      e \in { d \in ToSet(ChainDeltas(c)) :
                /\ IsFor(d, address) /\ ~d.spending
                /\ [hash |-> d.txhash, n |-> d.index] \notin SpentOn(c) } }

\* GetSpentIndex(key, value): who spent an outpoint, NULL if nobody did.
GetSpentIndex(c, key) ==
    LET spenders == {d \in ToSet(ChainDeltas(c)) : d.spending /\ d.prev = key}
    IN  IF spenders = {} THEN NULL
        ELSE LET d == CHOOSE s \in spenders : TRUE
             IN  [txid |-> d.txhash, inputIndex |-> d.index,
                  blockHeight |-> d.blockHeight]

\* The transactions confirmed by c, and the mempool: every known
\* transaction that is not a coinbase, is not confirmed, and spends only
\* outputs that c created and has not spent.
Confirmed(c) == UNION {ToSet(mapBlockIndex[c[h]].vtx) : h \in DOMAIN c}

mempool(c) ==
    { txid \in DOMAIN mapTx \ Confirmed(c) :
        /\ mapTx[txid].vin # <<>>
        /\ \A i \in DOMAIN mapTx[txid].vin :
              /\ mapTx[txid].vin[i].hash \in Confirmed(c)
              /\ mapTx[txid].vin[i] \notin SpentOn(c) }

\* CTxMemPool::getAddressIndex: the mempool's entries of one address.
MempoolAddressIndex(c, address) ==
    UNION { {e \in ToSet(TxDeltas(txid, NULL)) : IsFor(e, address)} :
            txid \in mempool(c) }

----------------------------------------------------------------------------
(* Start-up: the genesis block alone, nobody in a critical section.        *)
Init ==
    /\ chainActive = <<hashGenesisBlock>>
    /\ timestampIndex = {}
    /\ cs_main = NULL /\ cs_wallet = NULL
    /\ nMockTime = 0
    /\ mapArgs \in StartUps
    /\ pc = [t \in RpcThreads |-> "idle"]
    /\ request = [t \in RpcThreads |-> NULL]
    /\ local = [t \in RpcThreads |-> NULL]
    /\ result = [t \in RpcThreads |-> NULL]

\* Params(): the profile of the selected network.
Params == ProfileOf[mapArgs.chain]

\* Built with ENABLE_WALLET and started with a wallet.
pwalletMain == mapArgs.wallet

----------------------------------------------------------------------------
(* The validation thread: ActivateBestChain holds cs_main while it         *)
(* disconnects and connects blocks, one tip at a time.                     *)
ValidationLock ==
    /\ cs_main = NULL
    /\ cs_main' = Validation
    /\ UNCHANGED <<chain, cs_wallet, nMockTime, mapArgs, thread>>

ConnectTip(hash) ==
    /\ cs_main = Validation
    /\ mapBlockIndex[hash].pprev = Tip(chainActive)
    /\ chainActive' = Append(chainActive, hash)
    /\ timestampIndex' = timestampIndex \cup {hash}
    /\ UNCHANGED <<locks, nMockTime, mapArgs, thread>>

DisconnectTip ==
    /\ cs_main = Validation
    /\ Len(chainActive) > 1
    /\ chainActive' = Front(chainActive)
    /\ UNCHANGED <<timestampIndex, locks, nMockTime, mapArgs, thread>>

ValidationUnlock ==
    /\ cs_main = Validation
    /\ cs_main' = NULL
    /\ UNCHANGED <<chain, cs_wallet, nMockTime, mapArgs, thread>>

----------------------------------------------------------------------------
(* What every handler does on its way in and out.                          *)

\* The dispatch table: the handler behind each method name.
commands ==
    [ m \in { "getinfo", "getmemoryinfo", "validateaddress", "createmultisig",
              "verifymessage", "signmessagewithprivkey", "getindexinfo",
              "getaddresstxids", "getaddressdeltas", "getaddressbalance",
              "getaddressutxos", "getaddressmempool", "getblockhashes",
              "getspentinfo", "setmocktime", "getmocktime", "echo" } |-> m ]
    @@ [ m \in {"echojson"} |-> "echo" ]

\* Thread t is handed request r, for the handler named h.
Called(t, r, h) ==
    /\ pc[t] = "idle"
    /\ r \in Requests[t]
    /\ commands[r.method] = h

\* Thread t has reached program point p of handler h.
At(t, p, h) == pc[t] = p /\ commands[request[t].method] = h

\* The test every handler starts with.
Usage(r, sizes) == r.fHelp \/ Len(r.params) \notin sizes

\* Leaving the handler, by return or by exception: the CCriticalBlock
\* objects of its scope are destroyed, which unlocks what they hold.
Unlocked(t, mutex) == IF mutex = t THEN NULL ELSE mutex

Return(t, r, answer) ==
    /\ pc' = [pc EXCEPT ![t] = "idle"]
    /\ request' = [request EXCEPT ![t] = r]
    /\ local' = [local EXCEPT ![t] = NULL]
    /\ result' = [result EXCEPT ![t] = answer]
    /\ cs_main' = Unlocked(t, cs_main)
    /\ cs_wallet' = Unlocked(t, cs_wallet)

\* The handler goes on at program point p with locals l.
Goto(t, r, p, l) ==
    /\ pc' = [pc EXCEPT ![t] = p]
    /\ request' = [request EXCEPT ![t] = r]
    /\ local' = [local EXCEPT ![t] = l]
    /\ result' = [result EXCEPT ![t] = NULL]

\* Mutation of LOCK: the wallet's mutex is asked for without the test
\* that there is a wallet.
LOCKWithoutWalletTest(t) ==
    /\ pc[t] = "LOCK_cs_main"
    /\ cs_main = NULL
    /\ cs_main' = t
    /\ pc' = [pc EXCEPT ![t] =
                IF commands[request[t].method] \in {"getinfo", "validateaddress"}
                THEN "LOCK_cs_wallet" ELSE "locked"]
    /\ UNCHANGED <<chain, cs_wallet, nMockTime, mapArgs, request, local, result>>

\* LOCK(cs_main): block until the mutex is free, then own it.  The handlers
\* that use LOCK2 go on to take the wallet's mutex when there is a wallet.
LOCK(t) ==
    /\ pc[t] = "LOCK_cs_main"
    /\ cs_main = NULL
    /\ cs_main' = t
    /\ pc' = [pc EXCEPT ![t] =
                IF /\ commands[request[t].method] \in {"getinfo", "validateaddress"}
                   /\ pwalletMain
                THEN "LOCK_cs_wallet" ELSE "locked"]
    /\ UNCHANGED <<chain, cs_wallet, nMockTime, mapArgs, request, local, result>>

LOCK2(t) ==
    /\ pc[t] = "LOCK_cs_wallet"
    /\ cs_wallet = NULL
    /\ cs_wallet' = t
    /\ pc' = [pc EXCEPT ![t] = "locked"]
    /\ UNCHANGED <<chain, cs_main, nMockTime, mapArgs, request, local, result>>

\* getAddressesFromParams: the one address of a string parameter, NULL
\* where the source throws "Invalid address".
getAddressesFromParams(params) ==
    IF isStr(params[1]) THEN Destinations[params[1].val] ELSE NULL

\* getAddressFromIndex: whether an index entry's type names an address.
getAddressFromIndex(type) == type \in {1, 2}

RuntimeError == Error("RPC_MISC_ERROR")     \* a std::runtime_error, the help text
InvalidAddressOrKey == Error("RPC_INVALID_ADDRESS_OR_KEY")
TypeError == Error("RPC_TYPE_ERROR")

Throw(t, r, exception) == Return(t, r, exception)

\* The sum of the field `amount` of the entries of a sequence.
Total(entries) == FoldLeft(LAMBDA sum, e : sum + e.amount, 0, entries)

----------------------------------------------------------------------------
(* Handlers that take cs_main.  Each has an action for the way in, which   *)
(* ends blocked at LOCK, and one for the critical section.                 *)

getinfo(t, r) ==
    /\ Called(t, r, "getinfo")
    /\ IF Usage(r, {0})
       THEN Throw(t, r, RuntimeError)
       ELSE Goto(t, r, "LOCK_cs_main", NULL) /\ UNCHANGED locks
    /\ UNCHANGED <<chain, nMockTime, mapArgs>>

getinfo_locked(t) ==
    /\ At(t, "locked", "getinfo")
    /\ Return(t, request[t], Value([ wallet |-> pwalletMain,
                         blocks |-> Height(chainActive),
                         testnet |-> Params.strNetworkID = "test" ]))
    /\ UNCHANGED <<chain, nMockTime, mapArgs>>

validateaddress(t, r) ==
    /\ Called(t, r, "validateaddress")
    /\ IF Usage(r, {1})
       THEN Throw(t, r, RuntimeError)
       ELSE Goto(t, r, "LOCK_cs_main", NULL) /\ UNCHANGED locks
    /\ UNCHANGED <<chain, nMockTime, mapArgs>>

\* What the wallet tells of a destination: whether it is a script, and
\* for a key whether the wallet holds its public key.  The wallet of the
\* model holds keys only, so a script is never described further.
DescribeAddressVisitor(dest) ==
    [ isscript |-> dest.type = 2,
      pubkey   |-> pwalletMain /\ dest.type = 1
                               /\ dest.hashBytes \in WalletKeys ]

validateaddress_locked(t) ==
    /\ At(t, "locked", "validateaddress")
    /\ LET address == Destinations[request[t].params[1].val]
           ismine == pwalletMain /\ address.type = 1
                                 /\ address.hashBytes \in WalletKeys
       IN  Return(t, request[t],
             CASE ~Typed(request[t], <<"VSTR">>) -> RuntimeError
               [] address = NULL -> Value([isvalid |-> FALSE])
               [] OTHER -> Value([isvalid |-> TRUE, address |-> address,
                                  ismine |-> ismine]
                                 @@ DescribeAddressVisitor(address)))
    /\ UNCHANGED <<chain, nMockTime, mapArgs>>

verifymessage(t, r) ==
    /\ Called(t, r, "verifymessage")
    /\ IF Usage(r, {3})
       THEN Throw(t, r, RuntimeError)
       ELSE Goto(t, r, "LOCK_cs_main", NULL) /\ UNCHANGED locks
    /\ UNCHANGED <<chain, nMockTime, mapArgs>>

\* The answer of verifymessage.  A signature names the key that made it and
\* the message it was made for; recovery over another message yields some
\* other key.
VerifyMessage(r) ==
    LET addr == Destinations[r.params[1].val]
        vchSig == r.params[2].val
    IN  CASE ~Typed(r, <<"VSTR", "VSTR", "VSTR">>) -> RuntimeError
          [] addr = NULL         -> TypeError
          [] addr.type # 1       -> TypeError
          [] ~vchSig.base64      -> InvalidAddressOrKey
          [] ~vchSig.recoverable -> Value(FALSE)
          [] OTHER -> Value(/\ vchSig.message = r.params[3].val
                            /\ vchSig.id = addr.hashBytes)

\* Mutation of verifymessage_locked: an exception leaves the handler with
\* cs_main still held.
verifymessage_throws_locked(t) ==
    /\ At(t, "locked", "verifymessage")
    /\ LET answer == VerifyMessage(request[t])
       IN  IF "error" \in DOMAIN answer
           THEN /\ pc' = [pc EXCEPT ![t] = "idle"]
                /\ result' = [result EXCEPT ![t] = answer]
                /\ UNCHANGED <<request, local, locks>>
           ELSE Return(t, request[t], answer)
    /\ UNCHANGED <<chain, nMockTime, mapArgs>>

verifymessage_locked(t) ==
    /\ At(t, "locked", "verifymessage")
    /\ Return(t, request[t], VerifyMessage(request[t]))
    /\ UNCHANGED <<chain, nMockTime, mapArgs>>

\* Mutation of setmocktime: the time is set without taking cs_main.
setmocktime_unlocked(t, r) ==
    /\ Called(t, r, "setmocktime")
    /\ CASE Usage(r, {1}) \/ ~Params.fMineBlocksOnDemand ->
                Throw(t, r, RuntimeError) /\ UNCHANGED nMockTime
         [] ~isNum(r.params[1]) -> Throw(t, r, TypeError) /\ UNCHANGED nMockTime
         [] OTHER -> nMockTime' = r.params[1].val /\ Return(t, r, Value(NULL))
    /\ UNCHANGED <<chain, mapArgs>>

setmocktime(t, r) ==
    /\ Called(t, r, "setmocktime")
    /\ IF Usage(r, {1}) \/ ~Params.fMineBlocksOnDemand
       THEN Throw(t, r, RuntimeError)
       ELSE Goto(t, r, "LOCK_cs_main", NULL) /\ UNCHANGED locks
    /\ UNCHANGED <<chain, nMockTime, mapArgs>>

setmocktime_locked(t) ==
    /\ At(t, "locked", "setmocktime")
    /\ LET timestamp == request[t].params[1]
       IN  IF isNum(timestamp)
           THEN nMockTime' = timestamp.val /\ Return(t, request[t], Value(NULL))
           ELSE Throw(t, request[t], TypeError) /\ UNCHANGED nMockTime
    /\ UNCHANGED <<chain, mapArgs>>

getindexinfo(t, r) ==
    /\ Called(t, r, "getindexinfo")
    /\ IF Usage(r, {0, 1})
       THEN Throw(t, r, RuntimeError)
       ELSE Goto(t, r, "LOCK_cs_main", NULL) /\ UNCHANGED locks
    /\ UNCHANGED <<chain, nMockTime, mapArgs>>

getindexinfo_locked(t) ==
    /\ At(t, "locked", "getindexinfo")
    /\ LET index_name == IF Param(request[t], 1) # NULL
                         THEN request[t].params[1].val ELSE ""
           createIndexSummary(enabled) ==
               [ synced |-> enabled,
                 best_block_height |->
                     IF enabled THEN Height(chainActive) ELSE 0 ]
       IN  Return(t, request[t],
             IF Param(request[t], 1) # NULL /\ ~Typed(request[t], <<"VSTR">>)
             THEN RuntimeError
             ELSE Value(
               [ name \in { n \in {"txindex"} \cup CompiledIndexes :
                              index_name \in {"", n} } |->
                   createIndexSummary(mapArgs[name]) ]))
    /\ UNCHANGED <<chain, nMockTime, mapArgs>>

----------------------------------------------------------------------------
(* Handlers that answer in one step: they read one index once, or nothing  *)
(* that is shared.                                                         *)

getmocktime(t, r) ==
    /\ Called(t, r, "getmocktime")
    /\ Return(t, r, IF Usage(r, {0}) THEN RuntimeError ELSE Value(nMockTime))
    /\ UNCHANGED <<chain, nMockTime, mapArgs>>

getmemoryinfo(t, r) ==
    /\ Called(t, r, "getmemoryinfo")
    /\ Return(t, r, IF Usage(r, {0}) THEN RuntimeError ELSE Value("locked"))
    /\ UNCHANGED <<chain, nMockTime, mapArgs>>

echo(t, r) ==
    /\ Called(t, r, "echo")
    /\ Return(t, r, IF r.fHelp THEN RuntimeError ELSE Value(r.params))
    /\ UNCHANGED <<chain, nMockTime, mapArgs>>

\* _createmultisig_redeemScript.  A key is given as an address of the
\* wallet, when there is a wallet, or as a hex public key.
KeyGiven(ks) ==
    IF pwalletMain /\ ks \in DOMAIN Destinations /\ Destinations[ks] # NULL
    THEN LET address == Destinations[ks]
         IN  IF address.type = 1 /\ address.hashBytes \in WalletKeys
             THEN [size |-> 33, id |-> address.hashBytes]
             ELSE NULL
    ELSE IF ks \in DOMAIN PubKeys /\ PubKeys[ks].fullyValid
         THEN [size |-> PubKeys[ks].size, id |-> PubKeys[ks].id]
         ELSE NULL

MAX_SCRIPT_ELEMENT_SIZE == 520

createmultisig_redeemScript(nRequired, keys) ==
    LET pubkeys == [i \in DOMAIN keys |-> KeyGiven(keys[i])]
        \* OP_m, a push of every key, OP_n, OP_CHECKMULTISIG
        size == 3 + FoldLeft(LAMBDA n, key : n + 1 + key.size, 0, pubkeys)
    IN  CASE nRequired < 1 -> NULL
          [] Len(keys) < nRequired -> NULL
          [] Len(keys) > 16 -> NULL
          [] \E i \in DOMAIN keys : pubkeys[i] = NULL -> NULL
          [] size > MAX_SCRIPT_ELEMENT_SIZE -> NULL
          [] OTHER -> [ nRequired |-> nRequired,
                        pubkeys |-> [i \in DOMAIN keys |-> pubkeys[i].id] ]

createmultisig(t, r) ==
    /\ Called(t, r, "createmultisig")
    /\ LET inner == createmultisig_redeemScript(r.params[1].val, r.params[2].val)
       IN  Return(t, r, IF \/ Usage(r, {2})
                           \/ ~Typed(r, <<"VNUM", "VARR">>)
                           \/ inner = NULL
                     THEN RuntimeError
                     ELSE Value([ address |-> [type |-> 2, hashBytes |-> inner],
                                  redeemScript |-> inner ]))
    /\ UNCHANGED <<chain, nMockTime, mapArgs>>

signmessagewithprivkey(t, r) ==
    /\ Called(t, r, "signmessagewithprivkey")
    /\ LET strPrivkey == r.params[1].val
           key == PrivateKeys[strPrivkey]
       IN  Return(t, r,
             CASE Usage(r, {2}) -> RuntimeError
               [] ~Typed(r, <<"VSTR", "VSTR">>) -> RuntimeError
               [] strPrivkey \notin DOMAIN PrivateKeys -> InvalidAddressOrKey
               [] ~key.valid -> InvalidAddressOrKey
               [] ~key.signs -> InvalidAddressOrKey
               [] OTHER -> Value([ base64 |-> TRUE, recoverable |-> TRUE,
                                   id |-> key.id,
                                   message |-> r.params[2].val ]))
    /\ UNCHANGED <<chain, nMockTime, mapArgs>>

getaddressbalance(t, r) ==
    /\ Called(t, r, "getaddressbalance")
    /\ LET address == getAddressesFromParams(r.params)
           addressIndex == GetAddressIndex(chainActive, address)
           received == SelectSeq(addressIndex, LAMBDA e : e.amount > 0)
       IN  Return(t, r,
             CASE Usage(r, {1}) -> RuntimeError
               [] address = NULL -> InvalidAddressOrKey
               [] ~mapArgs.addressindex -> InvalidAddressOrKey
               [] OTHER -> Value([ balance |-> ValueFromAmount(Total(addressIndex)),
                                   received |-> ValueFromAmount(Total(received)) ]))
    /\ UNCHANGED <<chain, nMockTime, mapArgs>>

\* The loop of getaddresstxids: a transaction is listed where its first
\* entry stands, once for each (height, txid).
ListedOnce(addressIndex) ==
    LET Insert(txids, e) ==
            IF \E i \in DOMAIN txids : txids[i] = <<e.blockHeight, e.txhash>>
            THEN txids
            ELSE Append(txids, <<e.blockHeight, e.txhash>>)
        txids == FoldLeft(Insert, <<>>, addressIndex)
    IN  [i \in DOMAIN txids |-> txids[i][2]]

getaddresstxids(t, r) ==
    /\ Called(t, r, "getaddresstxids")
    /\ LET address == getAddressesFromParams(r.params)
       IN  Return(t, r,
             CASE Usage(r, {1}) -> RuntimeError
               [] address = NULL -> InvalidAddressOrKey
               [] ~mapArgs.addressindex -> InvalidAddressOrKey
               [] OTHER ->
                    Value(ListedOnce(GetAddressIndex(chainActive, address))))
    /\ UNCHANGED <<chain, nMockTime, mapArgs>>

\* getaddressdeltas.  There is no arm for an address that decodes: line 357
\* demands an object and getAddressesFromParams accepts a string only, so
\* the handler always leaves by an exception.
getaddressdeltas(t, r) ==
    /\ Called(t, r, "getaddressdeltas")
    /\ LET startValue == find_value(r.params[1], "start")
           endValue == find_value(r.params[1], "end")
           ranged == isNum(startValue) /\ isNum(endValue)
       IN  Throw(t, r,
             CASE Usage(r, {1}) \/ ~isObject(r.params[1]) -> RuntimeError
               [] ranged /\ (startValue.val <= 0 \/ endValue.val <= 0) ->
                    InvalidAddressOrKey
               [] ranged /\ endValue.val < startValue.val -> InvalidAddressOrKey
               [] getAddressesFromParams(r.params) = NULL -> InvalidAddressOrKey)
    /\ UNCHANGED <<chain, nMockTime, mapArgs>>

\* The comparators, and the ways std::sort may leave a container under
\* one: no entry before one that is less, equal entries in any order.
heightSort(a, b) == a.blockHeight < b.blockHeight

timestampSort(a, b) == a.time < b.time

Sorted(entries, less(_, _)) ==
    { s \in SetToSeqs(entries) :
        \A i, j \in DOMAIN s : i < j => ~less(s[j], s[i]) }

getaddressmempool(t, r) ==
    /\ Called(t, r, "getaddressmempool")
    /\ LET address == getAddressesFromParams(r.params)
           delta(e) == [ type |-> e.type, hashBytes |-> e.hashBytes,
                         txid |-> e.txhash, index |-> e.index,
                         satoshis |-> e.amount, timestamp |-> e.time,
                         prev |-> IF e.amount < 0 THEN e.prev ELSE NULL ]
       IN  CASE Usage(r, {1}) -> Throw(t, r, RuntimeError)
             [] address = NULL -> Throw(t, r, InvalidAddressOrKey)
             [] OTHER ->
                  \E indexes \in Sorted(MempoolAddressIndex(chainActive, address),
                                        timestampSort) :
                      Return(t, r,
                        IF \A i \in DOMAIN indexes :
                              getAddressFromIndex(indexes[i].type)
                        THEN Value([i \in DOMAIN indexes |-> delta(indexes[i])])
                        ELSE InvalidAddressOrKey)
    /\ UNCHANGED <<chain, nMockTime, mapArgs>>

getspentinfo(t, r) ==
    /\ Called(t, r, "getspentinfo")
    /\ LET txidValue == find_value(r.params[1], "txid")
           indexValue == find_value(r.params[1], "index")
           value == GetSpentIndex(chainActive,
                                  [hash |-> txidValue.val, n |-> indexValue.val])
       IN  Return(t, r,
             CASE Usage(r, {1}) \/ ~isObject(r.params[1]) -> RuntimeError
               [] ~isStr(txidValue) \/ ~isNum(indexValue) -> InvalidAddressOrKey
               [] ~mapArgs.spentindex \/ value = NULL -> InvalidAddressOrKey
               [] OTHER -> Value(value))
    /\ UNCHANGED <<chain, nMockTime, mapArgs>>

----------------------------------------------------------------------------
(* getaddressutxos: the unspent index is read without cs_main; the tip is  *)
(* read later, under cs_main, when the caller asks for it.                 *)

\* AmountFromValue of a number of whole coins; NULL where it throws.
AmountFromValue(value) ==
    IF isNum(value) /\ value.val >= 0 THEN value.val * COIN ELSE NULL

Satoshis(outputs) == FoldLeft(LAMBDA sum, o : sum + o.satoshis, 0, outputs)

\* Mutation of Taken: the loop stops only when the amount is exceeded.
TakenGreedily(unspentOutputs, requiredAmount) ==
    LET Reached(n) == /\ requiredAmount > 0
                      /\ Satoshis(SubSeq(unspentOutputs, 1, n)) > requiredAmount
        stops == {n \in 0..Len(unspentOutputs) : Reached(n)}
    IN  SubSeq(unspentOutputs, 1,
               IF stops = {} THEN Len(unspentOutputs) ELSE Min(stops))

\* The loop of lines 597-619: outputs are taken in order until what was
\* taken reaches requiredAmount, when one is asked for.
Taken(unspentOutputs, requiredAmount) ==
    LET Reached(n) == /\ requiredAmount > 0
                      /\ Satoshis(SubSeq(unspentOutputs, 1, n)) >= requiredAmount
        stops == {n \in 0..Len(unspentOutputs) : Reached(n)}
    IN  SubSeq(unspentOutputs, 1,
               IF stops = {} THEN Len(unspentOutputs) ELSE Min(stops))

getaddressutxos(t, r) ==
    /\ Called(t, r, "getaddressutxos")
    /\ LET requiredAmount == IF Param(r, 2) = NULL THEN 0
                             ELSE AmountFromValue(r.params[2])
           includeChainInfo == Param(r, 3) # NULL /\ r.params[3].val
           address == getAddressesFromParams(r.params)
       IN  CASE Usage(r, {1, 2, 3}) -> Throw(t, r, RuntimeError)
             [] requiredAmount = NULL -> Throw(t, r, TypeError)
             [] Param(r, 3) # NULL /\ r.params[3].typ # "VBOOL" ->
                  Throw(t, r, RuntimeError)
             [] address = NULL -> Throw(t, r, InvalidAddressOrKey)
             [] ~mapArgs.addressindex -> Throw(t, r, InvalidAddressOrKey)
             [] OTHER ->
                  \E unspentOutputs \in
                        Sorted(GetAddressUnspent(chainActive, address),
                               heightSort) :
                      LET utxos == Taken(unspentOutputs, requiredAmount)
                      IN  CASE \E i \in DOMAIN utxos :
                                  ~getAddressFromIndex(utxos[i].type) ->
                                 Throw(t, r, InvalidAddressOrKey)
                            [] includeChainInfo ->
                                 Goto(t, r, "LOCK_cs_main", utxos)
                                 /\ UNCHANGED locks
                            [] OTHER -> Return(t, r, Value(utxos))
    /\ UNCHANGED <<chain, nMockTime, mapArgs>>

getaddressutxos_locked(t) ==
    /\ At(t, "locked", "getaddressutxos")
    /\ Return(t, request[t], Value([ utxos |-> local[t], hash |-> Tip(chainActive),
                         height |-> Height(chainActive) ]))
    /\ UNCHANGED <<chain, nMockTime, mapArgs>>

----------------------------------------------------------------------------
(* getblockhashes: cs_main is taken and given back by the if statement of  *)
(* lines 755-756; GetTimestampIndex then walks the index and, when only    *)
(* active blocks are wanted, looks each block up in the active chain.      *)

\* Mutation of UnsignedLess: the bounds are compared as the ints they
\* were read as.
SignedLess(a, b) == a < b

\* a < b for two ints converted to unsigned int.
UnsignedLess(a, b) ==
    IF (a < 0) = (b < 0) THEN a < b ELSE b < 0

\* The options of the third parameter, FALSE when absent or no boolean.
Option(r, name) ==
    /\ isObject(Param(r, 3))
    /\ isBool(find_value(r.params[3], name))
    /\ find_value(r.params[3], name).val

\* The cursor of GetTimestampIndex: the entries with low <= time < high, by
\* time.
Seek(high, low) ==
    LET inRange == { hash \in timestampIndex :
                       /\ ~UnsignedLess(mapBlockIndex[hash].nTime, low)
                       /\ UnsignedLess(mapBlockIndex[hash].nTime, high) }
    IN  [ cursor |-> SetToSortSeq(inRange,
                        LAMBDA a, b : mapBlockIndex[a].nTime < mapBlockIndex[b].nTime),
          blockHashes |-> <<>> ]

getblockhashes(t, r) ==
    /\ Called(t, r, "getblockhashes")
    /\ CASE r.fHelp \/ Len(r.params) < 2 -> Throw(t, r, RuntimeError)
         [] ~Typed(r, <<"VNUM", "VNUM">>) -> Throw(t, r, RuntimeError)
         [] Option(r, "noOrphans") ->
              Goto(t, r, "LOCK_cs_main", NULL) /\ UNCHANGED locks
         [] OTHER ->
              /\ Goto(t, r, "GetTimestampIndex",
                      Seek(r.params[1].val, r.params[2].val))
              /\ UNCHANGED locks
    /\ UNCHANGED <<chain, nMockTime, mapArgs>>

\* LOCK(cs_main) is the whole body of the if statement: the mutex is given
\* back at the end of that statement.
getblockhashes_locked(t) ==
    /\ At(t, "locked", "getblockhashes")
    /\ cs_main' = NULL
    /\ Goto(t, request[t], "GetTimestampIndex",
            Seek(request[t].params[1].val, request[t].params[2].val))
    /\ UNCHANGED <<chain, cs_wallet, nMockTime, mapArgs>>

\* One round of the loop of GetTimestampIndex, or the handler's return when
\* the cursor is at its end.
GetTimestampIndex(t) ==
    /\ pc[t] = "GetTimestampIndex"
    /\ LET r == request[t]
           cursor == local[t].cursor
           blockHashes == local[t].blockHashes
           item(hash) == IF Option(r, "logicalTimes")
                         THEN [ blockhash |-> hash,
                                logicalts |-> mapBlockIndex[hash].nTime ]
                         ELSE hash
       IN  CASE ~mapArgs.timestampindex -> Throw(t, request[t], InvalidAddressOrKey)
             [] cursor = <<>> ->
                  Return(t, request[t], Value([i \in DOMAIN blockHashes |->
                                      item(blockHashes[i])]))
             [] OTHER ->
                  /\ Goto(t, r, "GetTimestampIndex",
                          [ cursor |-> Tail(cursor),
                            blockHashes |->
                              IF Option(r, "noOrphans")
                                 /\ ~Contains(chainActive, Head(cursor))
                              THEN blockHashes
                              ELSE Append(blockHashes, Head(cursor)) ])
                  /\ UNCHANGED locks
    /\ UNCHANGED <<chain, nMockTime, mapArgs>>

----------------------------------------------------------------------------
RpcStep(t) ==
    \/ \E r \in Requests[t] :
          \/ getinfo(t, r)           \/ validateaddress(t, r)
          \/ verifymessage(t, r)     \/ setmocktime(t, r)
          \/ getindexinfo(t, r)      \/ getmocktime(t, r)
          \/ getmemoryinfo(t, r)     \/ echo(t, r)
          \/ createmultisig(t, r)    \/ signmessagewithprivkey(t, r)
          \/ getaddressbalance(t, r) \/ getaddresstxids(t, r)
          \/ getaddressdeltas(t, r)  \/ getaddressmempool(t, r)
          \/ getspentinfo(t, r)      \/ getaddressutxos(t, r)
          \/ getblockhashes(t, r)
    \/ LOCK(t) \/ LOCK2(t)
    \/ getinfo_locked(t)         \/ validateaddress_locked(t)
    \/ verifymessage_locked(t)   \/ setmocktime_locked(t)
    \/ getindexinfo_locked(t)    \/ getaddressutxos_locked(t)
    \/ getblockhashes_locked(t)  \/ GetTimestampIndex(t)

ValidationStep ==
    \/ ValidationLock
    \/ \E hash \in DOMAIN mapBlockIndex : ConnectTip(hash)
    \/ DisconnectTip
    \/ ValidationUnlock

Next == ValidationStep \/ \E t \in RpcThreads : RpcStep(t)

\* A thread that is inside a handler and not blocked goes on; so does the
\* validation thread once it holds cs_main.  Nothing makes a request arrive
\* or a block be found.
InHandler(t) ==
    \/ LOCK(t) \/ LOCK2(t)
    \/ getinfo_locked(t)         \/ validateaddress_locked(t)
    \/ verifymessage_locked(t)   \/ setmocktime_locked(t)
    \/ getindexinfo_locked(t)    \/ getaddressutxos_locked(t)
    \/ getblockhashes_locked(t)  \/ GetTimestampIndex(t)

Fairness ==
    /\ WF_vars(ValidationUnlock)
    /\ \A t \in RpcThreads : WF_vars(InHandler(t))

Spec == Init /\ [][Next]_vars /\ Fairness

----------------------------------------------------------------------------
(* Properties.                                                             *)

ProgramPoints ==
    {"idle", "LOCK_cs_main", "LOCK_cs_wallet", "locked", "GetTimestampIndex"}

\* The chain from the genesis block to a block.
RECURSIVE ChainTo(_)
ChainTo(hash) ==
    IF hash = hashGenesisBlock THEN <<hash>>
    ELSE Append(ChainTo(mapBlockIndex[hash].pprev), hash)

\* The state is well-formed: the active chain is a path of the block tree
\* from the genesis block, a mutex is free or has one owner, the wallet's
\* mutex is taken only when there is a wallet (LOCK2 of getinfo and
\* validateaddress), a busy thread has a request of its own and no answer
\* yet, and an answer is a value or an error.
TypeOK ==
    /\ chainActive = ChainTo(Tip(chainActive))
    /\ timestampIndex \subseteq DOMAIN mapBlockIndex
    /\ cs_main \in RpcThreads \cup {Validation, NULL}
    /\ cs_wallet \in RpcThreads \cup {NULL}
    /\ cs_wallet # NULL => pwalletMain
    /\ nMockTime \in Int
    /\ mapArgs \in StartUps
    /\ pc \in [RpcThreads -> ProgramPoints]
    /\ \A t \in RpcThreads :
          /\ request[t] # NULL => request[t] \in Requests[t]
          /\ pc[t] # "idle" => request[t] # NULL /\ result[t] = NULL
          /\ result[t] # NULL => DOMAIN result[t] \in {{"error"}, {"value"}}

\* The mock time does not change while validation is under way: no step
\* taken while the validation thread holds cs_main changes nMockTime.  This
\* is what the comment above LOCK(cs_main) in setmocktime asks for.
MockTimeStableDuringValidation ==
    [][cs_main = Validation => nMockTime' = nMockTime]_vars

\* A mutex that a thread holds is given back: whichever way a handler
\* leaves its critical section (return or exception, in verifymessage,
\* setmocktime, getinfo, validateaddress, getindexinfo, getaddressutxos and
\* the if statement of getblockhashes), and whenever validation ends.
HeldLocksAreReleased ==
    \A t \in RpcThreads \cup {Validation} :
        /\ (cs_main = t) ~> (cs_main # t)
        /\ (cs_wallet = t) ~> (cs_wallet # t)

\* What getaddressutxos selects, against the unspent index it read: the
\* outputs are unspent outputs of the address, each once, lowest heights
\* first with none of a lower height left out; without a required amount
\* they are all of them; with one, they reach it unless all are taken, and
\* they would not reach it without the last one (lines 594-619).
Covers(utxos, unspent, requiredAmount) ==
    /\ ToSet(utxos) \subseteq unspent
    /\ Cardinality(ToSet(utxos)) = Len(utxos)
    /\ \A o \in ToSet(utxos), u \in unspent \ ToSet(utxos) :
          o.blockHeight <= u.blockHeight
    /\ \/ ToSet(utxos) = unspent
       \/ requiredAmount > 0 /\ Satoshis(utxos) >= requiredAmount
    /\ requiredAmount > 0 /\ utxos # <<>> =>
          Satoshis(Front(utxos)) < requiredAmount

UtxosCoverRequiredAmount ==
    [][\A t \in RpcThreads :
          /\ pc[t] = "idle"
          /\ <<pc[t], request[t], result[t]>>' # <<pc[t], request[t], result[t]>>
          /\ commands[request'[t].method] = "getaddressutxos"
          /\ pc'[t] = "idle" => "value" \in DOMAIN result'[t]
          => LET r == request'[t]
                 utxos == IF pc'[t] = "idle" THEN result'[t].value
                          ELSE local'[t]
                 required == IF Param(r, 2) = NULL THEN 0
                             ELSE r.params[2].val * COIN
             IN  Covers(utxos,
                        GetAddressUnspent(chainActive,
                                          Destinations[r.params[1].val]),
                        required)]_vars

----------------------------------------------------------------------------
(* What the help texts promise and the handlers do not keep.               *)

\* getblockhashes with noOrphans "will only include blocks on the main
\* chain": the blocks collected for one answer lie on one chain.
NoOrphansAnswerOnOneChain ==
    \A t \in RpcThreads :
        pc[t] = "GetTimestampIndex" /\ Option(request[t], "noOrphans") =>
            \A a, b \in ToSet(local[t].blockHashes) :
                Contains(ChainTo(a), b) \/ Contains(ChainTo(b), a)

\* getaddressutxos with chainInfo: the outputs reported are unspent on the
\* chain whose tip is reported with them.
UtxosMatchReportedTip ==
    \A t \in RpcThreads :
        At(t, "locked", "getaddressutxos") =>
            ToSet(local[t]) \subseteq
                GetAddressUnspent(chainActive,
                                  Destinations[request[t].params[1].val])

\* getaddressdeltas "returns all changes for an address": a call with the
\* object its help text describes, naming addresses that decode, is
\* answered with a value.
AsDeltasHelpSays(r) ==
    /\ ~r.fHelp /\ Len(r.params) = 1 /\ isObject(r.params[1])
    /\ "addresses" \in DOMAIN r.params[1].val
    /\ \A a \in ToSet(r.params[1].val.addresses) : Destinations[a] # NULL
    /\ DOMAIN r.params[1].val = {"addresses"}

DeltasRequestIsAnswered ==
    \A t \in RpcThreads :
        /\ pc[t] = "idle" /\ request[t] # NULL
        /\ commands[request[t].method] = "getaddressdeltas"
        /\ AsDeltasHelpSays(request[t])
        => "value" \in DOMAIN result[t]

\* An int as the unsigned int it is converted to, less 2^31: the order of
\* these numbers is the order of the unsigned ints.
Biased(n) == IF n < 0 THEN (n + 2^30) + 2^30 ELSE (n - 2^30) - 2^30

\* The blocks a call of getblockhashes has taken or has yet to look at.
Collected(l) == Range(l.cursor) \cup Range(l.blockHashes)

\* The block the next round of the walk looks at, if there is one.
Looked(l) == {l.cursor[i] : i \in DOMAIN l.cursor \cap {1}}

\* getblockhashes answers with the blocks of the range its two bounds name
\* once they are unsigned ints, as lines 735-736 make them: the walk starts
\* from every indexed block whose time is at least low and below high in
\* the order of unsigned ints, so that a high of -1 is a bound above every
\* time; from there to the answer no block is added, and none is dropped
\* but a block that is off the active chain when a call with noOrphans
\* looks at it.
BlockHashesOfUnsignedRange ==
    [][\A t \in RpcThreads :
          pc'[t] = "GetTimestampIndex" =>
              IF pc[t] = "GetTimestampIndex"
              THEN /\ Collected(local'[t]) \subseteq Collected(local[t])
                   /\ Collected(local[t]) \ Collected(local'[t]) \subseteq
                          IF Option(request[t], "noOrphans")
                          THEN Looked(local[t]) \ Range(chainActive)
                          ELSE {}
              ELSE Collected(local'[t]) =
                     { hash \in timestampIndex :
                         LET nTime == Biased(mapBlockIndex[hash].nTime)
                         IN  /\ Biased(request'[t].params[2].val) <= nTime
                             /\ nTime < Biased(request'[t].params[1].val) }
      ]_vars

=============================================================================
