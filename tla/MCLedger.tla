------------------------------ MODULE MCLedger ------------------------------
(* Small instances of Ledger for TLC.                                      *)
EXTENDS Ledger

CONSTANTS k0, k1

Key(k) == [threshold |-> 1, keys |-> <<k>>]

\* Threshold above the number of keys.
BadPerms == [threshold |-> 2, keys |-> <<k1>>]

Genesis == [kind |-> "genesis", acc |-> 0]
Default(id) == [kind |-> "default", acc |-> id]
Destroying(id, to) == [kind |-> "destroy", acc |-> id, to |-> to]

MintTx(to, amount) ==
    [type |-> "Mint", fee |-> 0, sigs |-> <<k0>>, to |-> to, amount |-> amount]
OwnerTx(wallet) ==
    [type |-> "Owner", fee |-> 0, sigs |-> <<k0>>, wallet |-> wallet]
CreateTx(creator, k, id, fee, balance) ==
    [type |-> "Create", fee |-> fee, sigs |-> <<k>>, creator |-> creator,
     account |-> [id |-> id, balance |-> balance, script |-> Default(id),
                  perms |-> Key(k1), destroyed |-> FALSE]]
UpdateTx(id, k, fee, script, perms) ==
    [type |-> "Update", fee |-> fee, sigs |-> <<k>>, account_id |-> id,
     new_script |-> script, new_permissions |-> perms]
TransferTx(from, k, fee, amount, to, sent) ==
    [type |-> "Transfer", fee |-> fee, sigs |-> <<k>>, from |-> from, amount |-> amount,
     arg_to |-> to, arg_amount |-> sent]

\* The chain at the start: genesis, a mint, the creation of account 1 by the
\* owner, and a quiet block, which does not yet reset the owner's fee.
MCInitAccounts ==
    [id \in Ids |-> IF id = 0 THEN [balance |-> 0, script |-> Genesis, perms |-> Key(k0),
                                    destroyed |-> FALSE]
                    ELSE None]
GenesisTx ==
    [CreateTx(0, k0, 0, 0, 0) EXCEPT !.sigs = <<>>, !.account.script = Genesis,
                                     !.account.perms = Key(k0)]
MCInitBlocks ==
    << <<Receipt(GenesisTx, <<>>), Receipt([OwnerTx(0) EXCEPT !.sigs = <<>>], <<>>)>>,
       <<Receipt(MintTx(0, 60), <<>>)>>,
       <<Receipt(CreateTx(0, k0, 1, 10, 25), <<>>)>>,
       <<>> >>

MCNetFee == [n \in 0..30 |-> 1 + (n \div 2)]

\* GRAEL_FEE_MIN is 1, GRAEL_FEE_MULT is 2, and a fourth transaction in a row
\* has no fee any more.
MCAccountFee == [n \in 0..3 |-> 2 ^ n]

\* The fees suffice for the first (3, 6), the second (5) or the third (9)
\* transaction of an account, and the balances for some of the orders only.  A transfer from
\* account 1 destroys the account once the update is in force.
MCTxs ==
    {MintTx(0, 30), MintTx(2, 5), OwnerTx(1),
     CreateTx(1, k1, 2, 6, 12), CreateTx(0, k0, 2, 6, 12),
     UpdateTx(1, k1, 6, Destroying(1, 0), None),
     UpdateTx(1, k1, 6, Default(1), BadPerms), UpdateTx(1, k1, 6, None, BadPerms),
     TransferTx(0, k0, 9, 4, 1, 3),
     TransferTx(1, k1, 5, 2, 0, 2), TransferTx(1, k1, 3, 20, 2, 20)}
=============================================================================
