----------------------------- MODULE MCFormats -----------------------------
(* The instance of Formats and TextFormats that TLC checks: every variant   *)
(* of every message, with the values at the limits of their widths, and     *)
(* every operation of a script.                                             *)
EXTENDS TextFormats

Top == INT - 1
MaxAmount == (I64 \div 2) - 1

MCPerms == [threshold |-> 1, keys |-> <<7, 8>>]

MCAccount ==
    [id |-> Top, balance |-> MaxAmount, script |-> <<0>>, permissions |-> MCPerms,
     destroyed |-> TRUE]

Sig(k) == [pub_key |-> k, signature |-> k + 1]

Enum(type, val) == [type |-> type, val |-> val]
Unit(types) == {Enum(t, <<>>) : t \in types}

MCTx(type, fee, val, sigs) ==
    [type |-> type, base |-> [nonce |-> 5, expiry |-> BYTE, fee |-> fee], val |-> val,
     sigs |-> sigs]

MCOwner == MCTx("OwnerTx", 0, [minter |-> 9, wallet |-> 1], <<Sig(3)>>)

MCTransfer(args, memo, sigs) ==
    MCTx("TransferTx", 65,
         [from |-> 2, call_fn |-> 1, args |-> args, amount |-> MaxAmount, memo |-> memo], sigs)

MCUpdate(code, perms) ==
    MCTx("UpdateAccountTx", 1,
         [account_id |-> 0, new_script |-> code, new_permissions |-> perms], <<Sig(1), Sig(2)>>)

MCTxs ==
    { MCOwner,
      MCTx("MintTx", -64, [to |-> 1, amount |-> -MaxAmount - 1, attachment |-> <<BYTE - 1>>,
                           attachment_name |-> <<1>>], <<>>),
      MCTx("CreateAccountTx", 63, [creator |-> 1, account |-> MCAccount], <<>>),
      MCTransfer(<<1>>, <<>>, <<Sig(1)>>), MCTransfer(<<>>, <<0, 1>>, <<>>),
      MCTransfer(<<>>, <<>>, [i \in 1..BYTE |-> Sig(1)]),
      MCTransfer(<<>>, <<>>, [i \in 1..(BYTE + 1) |-> Sig(1)]),
      MCUpdate(<<>>, <<>>), MCUpdate(<< <<0>> >>, <<>>), MCUpdate(<<>>, <<MCPerms>>),
      MCUpdate(<< <<>> >>, << [threshold |-> BYTE - 1, keys |-> <<>>] >>) }

MCHeader == [previous_hash |-> 1, height |-> 2, timestamp |-> Top, receipt_root |-> 3]

MCBlock(receipts) ==
    [header |-> MCHeader, signer |-> Sig(4), rewards |-> 64, receipts |-> receipts]

MCReceipt(log) == [tx |-> MCTransfer(<<>>, <<>>, <<Sig(1)>>), log |-> log]

MCReceipts ==
    <<MCReceipt(<<>>),
      MCReceipt(<<Enum("Transfer", [account |-> 1, amount |-> -1]), Enum("Destroy", 2)>>)>>

Requests ==
    {Enum("Broadcast", tx) : tx \in MCTxs}
    \cup {Enum("SetBlockFilter", f) : f \in {{}, {3, BYTE, 200}, 1..BYTE}}
    \cup Unit({"ClearBlockFilter", "Subscribe", "Unsubscribe", "GetProperties"})
    \cup {Enum(t, Top) : t \in {"GetBlock", "GetFullBlock"}}
    \cup {Enum("GetBlockRange", [min_height |-> 1, max_height |-> 2]), Enum("GetAccountInfo", 9)}

Responses ==
    Unit({"Broadcast", "SetBlockFilter", "ClearBlockFilter", "Subscribe", "Unsubscribe",
          "GetBlockRange"})
    \cup {Enum("GetProperties", [height |-> 1, owner |-> MCOwner, network_fee |-> 1,
                                 token_supply |-> MaxAmount]),
          Enum("GetBlock", Enum("Header", [header |-> MCHeader, signer |-> Sig(4)])),
          Enum("GetBlock", Enum("Block", MCBlock(<<>>))),
          Enum("GetFullBlock", MCBlock(MCReceipts)),
          Enum("GetAccountInfo", [account |-> MCAccount, net_fee |-> 1, account_fee |-> 2])}

TxErrs ==
    Unit(DOMAIN TxErrCodesWritten \ {"ScriptEval"})
    \cup {Enum("ScriptEval", [pos |-> Top, kind |-> k]) : k \in {0, 14}}

Errors ==
    Unit(DOMAIN ErrorCodesWritten \ {"TxValidation"})
    \cup {Enum("TxValidation", e) : e \in TxErrs}

Bodies ==
    {Enum("Request", r) : r \in Requests} \cup {Enum("Response", r) : r \in Responses}
    \cup {Enum("Error", e) : e \in Errors} \cup {Enum(t, BYTE) : t \in {"Ping", "Pong"}}

MCMessages == {[id |-> Top, body |-> b] : b \in Bodies}

MCGarbage == {0, 1, 2, 64, BYTE - 1}

-----------------------------------------------------------------------------
Frame(op, args) == [op |-> op, args |-> args]

MCCommon == {Frame("True", <<>>), Frame("OpCheckMultiPerms", <<0, 1>>)}

MCRare ==
    {Frame(op, <<>>) : op \in DOMAIN Operand \ ({"OpDefine", "True", "AccountId", "Asset"}
                                                   \cup MultiPerms \cup Times)}
    \cup {Frame("AccountId", <<id>>) : id \in {0, Top}}
    \cup {Frame("Asset", <<a>>) :
              a \in {0, 7, 99, 100, 4095, -1, -9, -10, -99, -100, -999, -1000, -4096}}
    \cup {Frame(op, <<BYTE>>) : op \in Times}
    \cup {Frame("OpCheckMultiPermsFastFail", <<1, BYTE - 1>>), Frame("OP_UNKNOWN", <<>>)}

-----------------------------------------------------------------------------
(* Messages and scripts have nothing in common: one is at work at a time.  *)
Idle == state = <<"typing">> /\ wanted = <<>>

Init == FormatsInit /\ TextInit

Next ==
    \/ Idle /\ FormatsNext /\ UNCHANGED tvars
    \/ sent = <<>> /\ TextNext /\ UNCHANGED fvars

Spec == Init /\ [][Next]_<<fvars, tvars>>
=============================================================================
