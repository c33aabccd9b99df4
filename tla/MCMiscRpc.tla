----------------------------- MODULE MCMiscRpc -----------------------------
(***************************************************************************)
(* MiscRpc for TLC: two RPC threads, a block tree with two branches, four  *)
(* transactions that pay and spend one key, and a set of calls that takes  *)
(* every handler through each of its ways out.                             *)
(***************************************************************************)
EXTENDS MiscRpc

K == [type |-> 1, hashBytes |-> "K"]     \* the key whose address is watched
S == [type |-> 2, hashBytes |-> "S"]     \* a script address

\* Genesis, then the branches A1-A2 and B1.
MCmapBlockIndex ==
    [ G  |-> [pprev |-> NULL, nTime |-> 0,  vtx |-> <<>>],
      A1 |-> [pprev |-> "G",  nTime |-> 10, vtx |-> <<"cbA1">>],
      B1 |-> [pprev |-> "G",  nTime |-> 20, vtx |-> <<"cbB1">>],
      A2 |-> [pprev |-> "A1", nTime |-> 30, vtx |-> <<"cbA2", "tx1">>] ]

\* Three coinbases to K; tx1 spends the first, pays S and gives change to K,
\* so that on A2 the key has two unspent outputs of one height.
MCmapTx ==
    [ cbA1 |-> [vin |-> <<>>, nTime |-> 10,
                vout |-> <<[address |-> K, nValue |-> 5 * COIN]>>],
      cbB1 |-> [vin |-> <<>>, nTime |-> 20,
                vout |-> <<[address |-> K, nValue |-> 3 * COIN]>>],
      cbA2 |-> [vin |-> <<>>, nTime |-> 30,
                vout |-> <<[address |-> K, nValue |-> 2 * COIN]>>],
      tx1  |-> [vin |-> <<[hash |-> "cbA1", n |-> 1]>>, nTime |-> 25,
                vout |-> <<[address |-> S, nValue |-> 4 * COIN],
                           [address |-> K, nValue |-> 1 * COIN]>>] ]

MCDestinations == [TKey |-> K, TScript |-> S, garbage |-> NULL]

MCPubKeys ==
    [ c0ffee |-> [size |-> 33, fullyValid |-> TRUE,  id |-> "P1"],
      decade |-> [size |-> 65, fullyValid |-> TRUE,  id |-> "P2"],
      facade |-> [size |-> 33, fullyValid |-> FALSE, id |-> "P3"] ]

MCPrivateKeys ==
    [ WifK    |-> [valid |-> TRUE,  signs |-> TRUE,  id |-> "K"],
      WifZero |-> [valid |-> FALSE, signs |-> FALSE, id |-> "Z"] ]

\* A regtest node with a wallet and every index, a mainnet node with none.
MCStartUps ==
    { [ chain |-> "regtest", wallet |-> TRUE, txindex |-> TRUE,
        addressindex |-> TRUE, timestampindex |-> TRUE, spentindex |-> TRUE ],
      [ chain |-> "main", wallet |-> FALSE, txindex |-> FALSE,
        addressindex |-> FALSE, timestampindex |-> FALSE, spentindex |-> FALSE ] }

MCCompiledIndexes == {"addressindex", "timestampindex", "spentindex"}

Arr(a) == [typ |-> "VARR", val |-> a]
Call(method, params) == [method |-> method, fHelp |-> FALSE, params |-> params]
Sig(id, message) ==
    [base64 |-> TRUE, recoverable |-> TRUE, id |-> id, message |-> message]
Addresses(a) == Obj([addresses |-> a])
FromTo(start, end) ==
    Obj([addresses |-> <<"TKey">>, start |-> Num(start), end |-> Num(end)])
Heavy(n) == [i \in 1..n |-> "decade"]

ControlCalls ==
    { Call("getinfo", <<>>),
      Call("getmemoryinfo", <<>>), Call("getmocktime", <<>>),
      Call("echo", <<Str("x")>>),
      [method |-> "echojson", fHelp |-> TRUE, params |-> <<>>],
      Call("setmocktime", <<Num(1)>>), Call("setmocktime", <<Str("soon")>>),
      Call("getindexinfo", <<>>), Call("getindexinfo", <<Str("spentindex")>>),
      Call("getindexinfo", <<Num(1)>>),
      Call("getindexinfo", <<Str("a"), Str("b")>>) }

UtilCalls ==
    { Call("validateaddress", <<Str("TKey")>>),
      Call("validateaddress", <<Str("garbage")>>),
      Call("validateaddress", <<Num(1)>>),
      Call("createmultisig", <<Str("2"), Arr(<<"c0ffee">>)>>),
      Call("createmultisig", <<Num(2), Arr(<<"c0ffee", "TKey">>)>>),
      Call("createmultisig", <<Num(0), Arr(<<"c0ffee">>)>>),
      Call("createmultisig", <<Num(1), Arr(<<"facade">>)>>),
      Call("createmultisig", <<Num(1), Arr(Heavy(8))>>),
      Call("createmultisig", <<Num(1), Arr(Heavy(17))>>),
      Call("verifymessage", <<Str("TKey"), Str(Sig("K", "m")), Str("m")>>),
      Call("verifymessage", <<Str("TKey"), Str(Sig("K", "n")), Str("m")>>),
      Call("verifymessage", <<Str("TKey"),
              Str([Sig("K", "m") EXCEPT !.recoverable = FALSE]), Str("m")>>),
      Call("verifymessage", <<Str("TKey"),
              Str([Sig("K", "m") EXCEPT !.base64 = FALSE]), Str("m")>>),
      Call("verifymessage", <<Str("TScript"), Str(Sig("K", "m")), Str("m")>>),
      Call("verifymessage", <<Str("TKey"), Str(Sig("K", "m")), Num(1)>>),
      Call("signmessagewithprivkey", <<Str("WifK"), Num(1)>>),
      Call("signmessagewithprivkey", <<Str("WifK"), Str("m")>>),
      Call("signmessagewithprivkey", <<Str("WifZero"), Str("m")>>),
      Call("signmessagewithprivkey", <<Str("nonsense"), Str("m")>>) }

IndexCalls ==
    { Call("getaddressbalance", <<Str("TKey")>>),
      Call("getaddressbalance", <<Addresses(<<"TKey">>)>>),
      Call("getaddresstxids", <<Str("TKey")>>),
      Call("getaddressdeltas", <<Addresses(<<"TKey">>)>>),
      Call("getaddressdeltas", <<FromTo(1, 2)>>),
      Call("getaddressdeltas", <<FromTo(2, 1)>>),
      Call("getaddressdeltas", <<FromTo(0, 1)>>),
      Call("getaddressmempool", <<Str("TKey")>>),
      Call("getspentinfo", <<Obj([txid |-> Str("cbA1"), index |-> Num(1)])>>),
      Call("getspentinfo", <<Obj([txid |-> Str("cbA1")])>>),
      Call("getaddressutxos", <<Str("TKey")>>),
      Call("getaddressutxos", <<Str("TKey"), Num(1)>>),
      Call("getaddressutxos", <<Str("TKey"), Num(3)>>),
      Call("getaddressutxos", <<Str("TKey"), Num(-1)>>),
      Call("getaddressutxos", <<Str("TKey"), Num(1), Bool(TRUE)>>),
      Call("getaddressutxos", <<Str("TKey"), Num(1), Num(1)>>),
      Call("getblockhashes", <<Num(40), Num(0)>>),
      Call("getblockhashes", <<Num(-1), Num(20),
                               Obj([noOrphans |-> Bool(TRUE)])>>),
      Call("getblockhashes", <<Num(25), Num(10),
              Obj([noOrphans |-> Bool(TRUE), logicalTimes |-> Bool(TRUE)])>>),
      Call("getblockhashes", <<Num(40), Str("0")>>),
      Call("getblockhashes", <<Num(40)>>) }

\* The first thread may be handed any call; the second sets the mock time,
\* so that two handlers meet at cs_main and the time changes while the
\* first is at work.
MCRequests ==
    [ t \in RpcThreads |->
        IF t = "rpc1" THEN ControlCalls \cup UtilCalls \cup IndexCalls
        ELSE { Call("setmocktime", <<Num(1)>>) } ]

=============================================================================
