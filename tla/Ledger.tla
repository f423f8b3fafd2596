------------------------------- MODULE Ledger -------------------------------
(***************************************************************************)
(* Accounts, the five kinds of transaction, fees, and the two ways the     *)
(* effect of a transaction is computed: as an overlay of the pool on an    *)
(* account of the index (get_account, against which the next transaction   *)
(* is validated), and for good when a block is indexed (index_block).      *)
(*                                                                         *)
(* Sources: blockchain/mod.rs (get_account, get_account_fee,               *)
(* get_network_fee, execute_tx, index_block, index_receipt), the           *)
(* WriteBatch of blockchain/index.rs, account.rs (Permissions), the        *)
(* transfer and destroy operations of script/engine.rs, server/minter.rs.  *)
(*                                                                         *)
(* Expiry and duplicate ids are the business of module ReceiptPool, the    *)
(* block log that of BlockStore.  Two equal transactions here differ in    *)
(* their nonce.  Scripts are the ones the program itself builds and the    *)
(* one that destroys an account.                                           *)
(***************************************************************************)
EXTENDS Integers, Sequences, FiniteSetsExt, SequencesExt

CONSTANTS
    Ids,                    \* account ids
    Keys,                   \* public keys
    Txs,                    \* the transactions clients may broadcast
    None,                   \* Rust's None
    MAX_AMOUNT,             \* i64::MAX
    MAX_PERM_KEYS,
    IMMUTABLE_ACCOUNT_THRESHOLD,
    FEE_RESET_WINDOW,
    NETWORK_FEE_AVG_WINDOW,
    FEE_ADJUST_BLOCKS,      \* the 5 of get_network_fee
    NetFee,                 \* NetFee[n]: GRAEL_FEE_MIN * GRAEL_FEE_NET_MULT ^ n, and
    AccountFee,             \* AccountFee[n]: ... GRAEL_FEE_MULT ^ n, for the n that fit
    InitBlocks,             \* receipts of the blocks below the head at the start
    InitAccounts,           \* the accounts as the genesis block leaves them
    GenesisWallet,          \* the wallet its owner transaction names
    MaxPool,                \* bound on the receipts in the pool
    MaxBlocks               \* bound on the number of blocks

-----------------------------------------------------------------------------
(* Accounts, transactions, receipts.                                       *)

\* i64.
Amount == -MAX_AMOUNT - 1 .. MAX_AMOUNT

InRange(x) == x \in Amount

Permissions == [threshold : Nat, keys : Seq(Keys)]

\* "genesis" checks the permissions of acc, and its other function transfers;
\* "default" only transfers; "destroy" sends everything to the account it names.
Script == [kind : {"genesis", "default"}, acc : Ids]
          \cup [kind : {"destroy"}, acc : Ids, to : Ids]

Account == [balance : Int, script : Script, perms : Permissions, destroyed : BOOLEAN]

NewAccount == [id : Ids, balance : Amount, script : Script, perms : Permissions,
               destroyed : BOOLEAN]

\* sigs: the keys whose signatures, all good, the transaction carries.
OwnerTxs == [type : {"Owner"}, fee : Amount, sigs : Seq(Keys), wallet : Ids]
MintTxs == [type : {"Mint"}, fee : Amount, sigs : Seq(Keys), to : Ids, amount : Amount]
CreateTxs == [type : {"Create"}, fee : Amount, sigs : Seq(Keys), creator : Ids,
              account : NewAccount]
UpdateTxs == [type : {"Update"}, fee : Amount, sigs : Seq(Keys), account_id : Ids,
              new_script : Script \cup {None}, new_permissions : Permissions \cup {None}]
TransferTxs == [type : {"Transfer"}, fee : Amount, sigs : Seq(Keys), from : Ids,
                amount : Amount, arg_to : Ids, arg_amount : Amount]

Tx == OwnerTxs \cup MintTxs \cup CreateTxs \cup UpdateTxs \cup TransferTxs

Transfer(to, amount) == [entry |-> "Transfer", to |-> to, amount |-> amount]

Destroy(to) == [entry |-> "Destroy", to |-> to]

LogEntry == [entry : {"Transfer"}, to : Ids, amount : Int]
            \cup [entry : {"Destroy"}, to : Ids]

Receipts == [tx : Tx, log : Seq(LogEntry)]

Receipt(tx, log) == [tx |-> tx, log |-> log]

ASSUME LedgerAssumption ==
    /\ MAX_AMOUNT \in Nat
    /\ FEE_RESET_WINDOW \in Nat \ {0}
    /\ NETWORK_FEE_AVG_WINDOW \in Nat \ {0} /\ FEE_ADJUST_BLOCKS \in Nat \ {0}
    /\ \A n \in DOMAIN NetFee : NetFee[n] \in Nat
    /\ \A n \in DOMAIN AccountFee : AccountFee[n] \in Nat
    /\ IsFiniteSet(Ids) /\ GenesisWallet \in Ids
    /\ None \notin Account /\ None \notin Script /\ None \notin Permissions
    /\ Txs \subseteq Tx
    /\ InitAccounts \in [Ids -> Account \cup {None}]
    /\ InitBlocks \in Seq(Seq(Receipts)) /\ InitBlocks # <<>>
    /\ MaxPool \in Nat /\ MaxBlocks \in Nat

VARIABLES
    accounts,   \* index: the account of each id, or None
    supply,     \* index: token supply
    owner,      \* index: the wallet named by the current owner transaction
    pool,       \* ReceiptPool.receipts
    chain,      \* the receipts of each block, genesis first
    aborted     \* history: a panic has aborted the process

vars == <<accounts, supply, owner, pool, chain, aborted>>

Height == Len(chain) - 1

-----------------------------------------------------------------------------
(* The overlay: get_account with the receipts of the pool.                 *)

Credited(acc, amount) == [acc EXCEPT !.balance = @ + amount]

\* checked_add and checked_sub on the balance of an overlaid account.
Adjust(acc, amount) ==
    IF InRange(acc.balance + amount)
    THEN Credited(acc, amount)
    ELSE None

Gone(acc) == [acc EXCEPT !.destroyed = TRUE, !.balance = 0]

\* One log entry of a transfer from `from`, as account id sees it.  Funds of a
\* destroyed account are not seen by their receiver before they are indexed.
OverlayEntry(id, from, acc, e) ==
    CASE acc = None -> None
      [] acc # None /\ e.entry = "Transfer" ->
            IF e.to = id THEN Adjust(acc, e.amount) ELSE acc
      [] acc # None /\ e.entry = "Destroy" ->
            IF from = id THEN Gone(acc) ELSE acc

\* Mutant: the fee is not taken off.
OverlayTransferWithoutFee(id, acc, r) ==
    LET debited == IF r.tx.from = id THEN Adjust(acc, -r.tx.amount) ELSE acc
    IN  FoldLeft(LAMBDA a, e : OverlayEntry(id, r.tx.from, a, e), debited, r.log)

OverlayTransfer(id, acc, r) ==
    LET debited == IF r.tx.from = id THEN Adjust(acc, -(r.tx.fee + r.tx.amount)) ELSE acc
    IN  FoldLeft(LAMBDA a, e : OverlayEntry(id, r.tx.from, a, e), debited, r.log)

Renewed(acc, tx) ==
    [acc EXCEPT !.script = IF tx.new_script = None THEN @ ELSE tx.new_script,
                !.perms  = IF tx.new_permissions = None THEN @ ELSE tx.new_permissions]

\* The new script and permissions are laid over whatever account is asked for.
OverlayUpdate(id, acc, tx) ==
    LET charged == IF tx.account_id = id THEN Adjust(acc, -tx.fee) ELSE acc
    IN  IF charged = None THEN None
        ELSE Renewed(charged, tx)

OverlayReceipt(id, acc, r) ==
    IF acc = None THEN None
    ELSE CASE r.tx.type = "Owner"  -> acc
           [] r.tx.type = "Mint"   -> IF r.tx.to = id THEN Adjust(acc, r.tx.amount) ELSE acc
           [] r.tx.type = "Create" -> IF r.tx.creator = id
                                      THEN Adjust(acc, -(r.tx.account.balance + r.tx.fee))
                                      ELSE acc
           [] r.tx.type = "Update"   -> OverlayUpdate(id, acc, r.tx)
           [] r.tx.type = "Transfer" -> OverlayTransfer(id, acc, r)

Overlay(id, acc, receipts) ==
    FoldLeft(LAMBDA a, r : OverlayReceipt(id, a, r), acc, receipts)

GetAccount(id, receipts) == Overlay(id, accounts[id], receipts)

\* Mutants: the pool is not looked at; the account need not exist.
LiveInIndex(id, receipts) == accounts[id] # None /\ ~accounts[id].destroyed

LiveOrMissing(id, receipts) ==
    LET acc == GetAccount(id, receipts) IN acc = None \/ ~acc.destroyed

\* What scripts ask of a receiving account.
Live(id, receipts) ==
    LET acc == GetAccount(id, receipts) IN acc # None /\ ~acc.destroyed

-----------------------------------------------------------------------------
(* Fees.                                                                   *)

\* The account a receipt counts against, None for the owner's transactions.
Payer(r) ==
    CASE r.tx.type \in {"Owner", "Mint"} -> None
      [] r.tx.type = "Create"   -> r.tx.creator
      [] r.tx.type = "Update"   -> r.tx.account_id
      [] r.tx.type = "Transfer" -> r.tx.from

Matches(id, receipts) == Cardinality({i \in DOMAIN receipts : Payer(receipts[i]) = id})

\* Mutant: a match does not reset the count of quiet blocks.
ScanBlockNoReset(id, scan, receipts) ==
    IF scan.delta = FEE_RESET_WINDOW THEN scan
    ELSE [count |-> scan.count + Matches(id, receipts), delta |-> scan.delta + 1]

\* The scan of get_account_fee from the head down: how many receipts of the
\* account it finds before FEE_RESET_WINDOW blocks in a row have none.
ScanBlock(id, scan, receipts) ==
    IF scan.delta = FEE_RESET_WINDOW THEN scan
    ELSE LET n == Matches(id, receipts)
         IN  [count |-> scan.count + n,
              delta |-> IF n > 0 THEN 0 ELSE scan.delta + 1]

ScanBlocks(id, scan, blocks) ==
    FoldLeft(LAMBDA sc, rs : ScanBlock(id, sc, rs), scan, blocks)

FeeCount(id, receipts) ==
    ScanBlocks(id, [count |-> 1 + Matches(id, receipts), delta |-> 0], Reverse(chain)).count

\* The count of get_network_fee.
NetworkCount ==
    LET max_height == Height - (Height % FEE_ADJUST_BLOCKS)
        min_height == IF max_height > NETWORK_FEE_AVG_WINDOW
                      THEN max_height - NETWORK_FEE_AVG_WINDOW ELSE 0
        window     == SubSeq(chain, min_height + 1, max_height + 1)
    IN  (1 + Len(FlattenSeq(window))) \div NETWORK_FEE_AVG_WINDOW

\* get_account_info has a fee to give: neither power overflows.
HasFee(id, receipts) ==
    NetworkCount \in DOMAIN NetFee /\ FeeCount(id, receipts) \in DOMAIN AccountFee

TotalFee(id, receipts) == NetFee[NetworkCount] + AccountFee[FeeCount(id, receipts)]

\* GRAEL_ACC_CREATE_FEE_MULT and GRAEL_ACC_CREATE_MIN_BAL_MULT are both 2.
AccountTxFee(id, receipts) == 2 * TotalFee(id, receipts)

MinBalance(id, receipts) == 2 * AccountTxFee(id, receipts)

-----------------------------------------------------------------------------
(* Permissions.                                                            *)

Verify(perms, sigs) ==
    \/ perms.threshold = 0
    \/ /\ perms.threshold <= Len(sigs)
       /\ LET valid == Len(SelectSeq(sigs, LAMBDA k : k \in ToSet(perms.keys)))
          IN  valid > 0 /\ valid >= perms.threshold

IsValid(perms) ==
    IF perms.threshold = IMMUTABLE_ACCOUNT_THRESHOLD
    THEN perms.keys = <<>>
    ELSE Len(perms.keys) <= MAX_PERM_KEYS /\ perms.threshold <= Len(perms.keys)

-----------------------------------------------------------------------------
(* Scripts.                                                                *)

CheckPerms(id, sigs, receipts) ==
    LET acc == GetAccount(id, receipts) IN acc # None /\ Verify(acc.perms, sigs)

\* A script run for an owner or mint transaction: function 0, no arguments.
AllowsOwner(script, tx, receipts) ==
    script.kind = "genesis" /\ CheckPerms(script.acc, tx.sigs, receipts)

\* A script run for a transfer succeeds, and the log it leaves.
AllowsTransfer(script, tx, receipts) ==
    /\ CheckPerms(script.acc, tx.sigs, receipts)
    /\ \/ /\ script.kind \in {"genesis", "default"}
          /\ tx.arg_amount >= 0 /\ tx.arg_amount <= tx.amount
          /\ Live(tx.arg_to, receipts)
       \/ /\ script.kind = "destroy"
          /\ script.to # tx.from
          /\ Live(script.to, receipts)

\* What is not sent goes back, or to the receiver of a destroyed account.
TransferLog(script, tx) ==
    IF script.kind = "destroy"
    THEN <<Destroy(script.to)>>
         \o (IF tx.amount > 0 THEN <<Transfer(script.to, tx.amount)>> ELSE <<>>)
    ELSE <<Transfer(tx.arg_to, tx.arg_amount)>>
         \o (IF tx.amount > tx.arg_amount
             THEN <<Transfer(tx.from, tx.amount - tx.arg_amount)>> ELSE <<>>)

-----------------------------------------------------------------------------
(* execute_tx: when it returns Ok, and the log.                            *)

OwnerOk(tx, receipts) ==
    /\ tx.fee = 0
    /\ GetAccount(tx.wallet, receipts) # None
    /\ AllowsOwner(GetAccount(owner, receipts).script, tx, receipts)

\* The sanity check on the supply looks at the index only.
MintOk(tx, receipts) ==
    /\ tx.fee = 0
    /\ tx.amount >= 0
    /\ AllowsOwner(GetAccount(owner, receipts).script, tx, receipts)
    /\ InRange(supply + tx.amount)

\* Mutant: accounts created by the pool are not looked at.
CreateOkTwice(tx, receipts) ==
    LET creator == GetAccount(tx.creator, receipts)
    IN  /\ ~tx.account.destroyed
        /\ IsValid(tx.account.perms)
        /\ accounts[tx.account.id] = None
        /\ creator # None /\ HasFee(tx.creator, receipts)
        /\ tx.fee >= AccountTxFee(tx.creator, receipts)
        /\ tx.account.balance >= MinBalance(tx.creator, receipts)
        /\ creator.balance - tx.fee - tx.account.balance >= 0
        /\ Verify(creator.perms, tx.sigs)

CreateOk(tx, receipts) ==
    LET creator == GetAccount(tx.creator, receipts)
    IN  /\ ~tx.account.destroyed
        /\ IsValid(tx.account.perms)
        /\ accounts[tx.account.id] = None
        /\ \A i \in DOMAIN receipts :
              receipts[i].tx.type = "Create" => receipts[i].tx.account.id # tx.account.id
        /\ creator # None /\ HasFee(tx.creator, receipts)
        /\ tx.fee >= AccountTxFee(tx.creator, receipts)
        /\ tx.account.balance >= MinBalance(tx.creator, receipts)
        /\ creator.balance - tx.fee - tx.account.balance >= 0
        /\ Verify(creator.perms, tx.sigs)

\* Mutant: new permissions are not checked.
UpdateOkAnyPermissions(tx, receipts) ==
    LET acc == GetAccount(tx.account_id, receipts)
    IN  /\ acc # None /\ HasFee(tx.account_id, receipts)
        /\ ~acc.destroyed
        /\ tx.fee >= AccountTxFee(tx.account_id, receipts)
        /\ acc.balance - tx.fee >= 0
        /\ Verify(acc.perms, tx.sigs)

\* New permissions are checked only when there is no new script.
UpdateOk(tx, receipts) ==
    LET acc == GetAccount(tx.account_id, receipts)
    IN  /\ acc # None /\ HasFee(tx.account_id, receipts)
        /\ ~acc.destroyed
        /\ tx.new_script = None /\ tx.new_permissions # None => IsValid(tx.new_permissions)
        /\ tx.fee >= AccountTxFee(tx.account_id, receipts)
        /\ acc.balance - tx.fee >= 0
        /\ Verify(acc.perms, tx.sigs)

\* Mutant: the balance has to cover the amount only.
TransferOkWithoutFee(tx, receipts) ==
    LET from == GetAccount(tx.from, receipts)
    IN  /\ tx.amount >= 0
        /\ from # None /\ HasFee(tx.from, receipts)
        /\ tx.fee >= TotalFee(tx.from, receipts)
        /\ from.balance - tx.amount >= 0
        /\ AllowsTransfer(from.script, tx, receipts)

TransferOk(tx, receipts) ==
    LET from == GetAccount(tx.from, receipts)
    IN  /\ tx.amount >= 0
        /\ from # None /\ HasFee(tx.from, receipts)
        /\ tx.fee >= TotalFee(tx.from, receipts)
        /\ from.balance - tx.fee - tx.amount >= 0
        /\ AllowsTransfer(from.script, tx, receipts)

\* "failed to get owner wallet account": an owner transaction or a mint finds
\* that the wallet's balance, with the pool on top, has overflowed.
ExecutePanics(tx, receipts) ==
    /\ \/ tx.type = "Owner" /\ GetAccount(tx.wallet, receipts) # None
       \/ tx.type = "Mint" /\ tx.amount >= 0
    /\ tx.fee = 0
    /\ GetAccount(owner, receipts) = None

ExecuteOk(tx, receipts) ==
    /\ ~ExecutePanics(tx, receipts)
    /\ \/ tx.type = "Owner" /\ OwnerOk(tx, receipts)
       \/ tx.type = "Mint" /\ MintOk(tx, receipts)
       \/ tx.type = "Create" /\ CreateOk(tx, receipts)
       \/ tx.type = "Update" /\ UpdateOk(tx, receipts)
       \/ tx.type = "Transfer" /\ TransferOk(tx, receipts)

ExecuteLog(tx, receipts) ==
    IF tx.type = "Transfer"
    THEN TransferLog(GetAccount(tx.from, receipts).script, tx)
    ELSE <<>>

-----------------------------------------------------------------------------
(* index_block on a WriteBatch: batch.ok turns FALSE where the code        *)
(* unwraps a missing account or an overflow.                               *)

AddBal(batch, id, amount) ==
    IF batch.ok /\ batch.accounts[id] # None
                /\ InRange(batch.accounts[id].balance + amount)
    THEN [batch EXCEPT !.accounts[id] = Credited(@, amount)]
    ELSE [batch EXCEPT !.ok = FALSE]

AddTokenSupply(batch, amount) ==
    IF InRange(batch.supply + amount)
    THEN [batch EXCEPT !.supply = @ + amount]
    ELSE [batch EXCEPT !.ok = FALSE]

IndexUpdate(batch, tx) ==
    LET charged == AddBal(batch, tx.account_id, -tx.fee)
    IN  IF ~charged.ok THEN charged
        ELSE [charged EXCEPT !.accounts[tx.account_id] = Renewed(@, tx)]

IndexCreate(batch, tx) ==
    LET paid == AddBal(batch, tx.creator, -(tx.fee + tx.account.balance))
    IN  [paid EXCEPT !.accounts[tx.account.id] =
            [balance |-> tx.account.balance, script |-> tx.account.script,
             perms |-> tx.account.perms, destroyed |-> tx.account.destroyed]]

IndexDestroy(batch, from, to) ==
    IF ~batch.ok THEN batch
    ELSE LET bal == batch.accounts[from].balance
         IN  AddBal([batch EXCEPT !.accounts[from] = Gone(@)], to, bal)

IndexEntry(batch, from, e) ==
    IF e.entry = "Transfer" THEN AddBal(batch, e.to, e.amount)
    ELSE IndexDestroy(batch, from, e.to)

IndexTransfer(batch, r) ==
    FoldLeft(LAMBDA b, e : IndexEntry(b, r.tx.from, e),
             AddBal(batch, r.tx.from, -(r.tx.fee + r.tx.amount)), r.log)

IndexReceipt(batch, r) ==
    IF ~batch.ok THEN batch
    ELSE CASE r.tx.type = "Owner" -> [batch EXCEPT !.owner = r.tx.wallet]
           [] r.tx.type = "Mint" -> AddBal(AddTokenSupply(batch, r.tx.amount),
                                           r.tx.to, r.tx.amount)
           [] r.tx.type = "Create" -> IndexCreate(batch, r.tx)
           [] r.tx.type = "Update" -> IndexUpdate(batch, r.tx)
           [] r.tx.type = "Transfer" -> IndexTransfer(batch, r)

\* The fees of a block.
Rewards(receipts) == FoldLeft(LAMBDA sum, r : sum + r.tx.fee, 0, receipts)

IndexReceipts(batch, receipts) == FoldLeft(IndexReceipt, batch, receipts)

\* The rewards go to the owner the block itself may have named.
IndexBlock(batch, receipts) ==
    LET indexed == IndexReceipts(batch, receipts)
    IN  AddBal(indexed, indexed.owner, Rewards(receipts))

Batch == [accounts |-> accounts, supply |-> supply, owner |-> owner, ok |-> TRUE]

-----------------------------------------------------------------------------
(* The chain starts with InitBlocks, indexed on top of the genesis state.  *)

InitBatch ==
    FoldLeft(IndexBlock,
             [accounts |-> InitAccounts, supply |-> 0, owner |-> GenesisWallet, ok |-> TRUE],
             Tail(InitBlocks))

Init ==
    /\ accounts = InitBatch.accounts
    /\ supply = InitBatch.supply
    /\ owner = InitBatch.owner
    /\ pool = <<>>
    /\ chain = InitBlocks
    /\ aborted = FALSE

\* push_tx: the transaction joins the pool with its log.
Push(tx) ==
    /\ Len(pool) < MaxPool
    /\ ExecuteOk(tx, pool)
    /\ pool' = Append(pool, Receipt(tx, ExecuteLog(tx, pool)))
    /\ UNCHANGED <<accounts, supply, owner, chain, aborted>>

\* The process aborts and is started again: the pool is gone.
Abort ==
    /\ pool' = <<>>
    /\ aborted' = TRUE
    /\ UNCHANGED <<accounts, supply, owner, chain>>

PushPanics(tx) ==
    /\ ExecutePanics(tx, pool)
    /\ Abort

\* verify_block: every receipt executes again on the ones before it.
VerifyBlock(receipts) ==
    \A i \in DOMAIN receipts : ExecuteOk(receipts[i].tx, SubSeq(receipts, 1, i - 1))

Producible(receipts) == VerifyBlock(receipts) /\ IndexBlock(Batch, receipts).ok

\* produce, with enable_stale_production: the pool becomes a block.
Produce ==
    /\ Len(chain) < MaxBlocks
    /\ Producible(pool)
    /\ LET batch == IndexBlock(Batch, pool)
       IN  /\ accounts' = batch.accounts
           /\ supply' = batch.supply
           /\ owner' = batch.owner
    /\ chain' = Append(chain, pool)
    /\ pool' = <<>>
    /\ UNCHANGED aborted

\* The block is refused or indexing it panics, before anything is written.
ProducePanics ==
    /\ Len(chain) < MaxBlocks
    /\ ~Producible(pool)
    /\ Abort

\* The process dies and is started again.
Restart ==
    /\ pool' = <<>>
    /\ UNCHANGED <<accounts, supply, owner, chain, aborted>>

-----------------------------------------------------------------------------
(* What a client with a filter is shown of a block: get_filtered_block.    *)

\* Mutant: the log of a transfer is not looked at.
NamesWithoutLog(r) ==
    CASE r.tx.type = "Owner"    -> {r.tx.wallet}
      [] r.tx.type = "Mint"     -> {r.tx.to}
      [] r.tx.type = "Create"   -> {r.tx.creator, r.tx.account.id}
      [] r.tx.type = "Update"   -> {r.tx.account_id}
      [] r.tx.type = "Transfer" -> {r.tx.from}

\* The accounts for which a receipt makes the block match.
Names(r) ==
    CASE r.tx.type = "Owner"    -> {r.tx.wallet}
      [] r.tx.type = "Mint"     -> {r.tx.to}
      [] r.tx.type = "Create"   -> {r.tx.creator, r.tx.account.id}
      [] r.tx.type = "Update"   -> {r.tx.account_id}
      [] r.tx.type = "Transfer" -> {r.tx.from} \cup {r.log[i].to : i \in DOMAIN r.log}

\* The whole block is shown; otherwise the header alone.
HasMatch(filter, receipts) ==
    \E i \in DOMAIN receipts : Names(receipts[i]) \cap filter # {}

Next ==
    \/ \E tx \in Txs : Push(tx)
    \/ \E tx \in Txs : PushPanics(tx)
    \/ Produce
    \/ ProducePanics
    \/ Restart

Spec == Init /\ [][Next]_vars

-----------------------------------------------------------------------------
(* Properties.                                                             *)

Existing == {id \in Ids : accounts[id] # None}

\* Types.  No balance is ever negative: a debit was checked, at push, against
\* an overlaid balance that the index is not below.
TypeOK ==
    /\ \A id \in Existing :
          /\ accounts[id].balance \in 0..MAX_AMOUNT
          /\ accounts[id].destroyed \in BOOLEAN
    /\ supply \in 0..MAX_AMOUNT
    /\ owner \in Existing
    /\ Len(pool) <= MaxPool
    /\ aborted \in BOOLEAN

BalanceOf(acc) == IF acc = None THEN 0 ELSE acc.balance

Total(accs) == MapThenSumSet(LAMBDA id : BalanceOf(accs[id]), Ids)

\* Every coin is in exactly one account: fees come back as rewards, a destroyed
\* account's balance moves, what a script does not send returns.
Conservation == Total(accounts) = supply

Settled == IndexBlock(Batch, pool)

UpdatedElsewhere(id, receipts) ==
    \E i \in DOMAIN receipts :
        receipts[i].tx.type = "Update" /\ receipts[i].tx.account_id # id

\* What get_account promises about the pool ("must perform the same actions as
\* when a receipt is indexed"), as far as the code keeps it: an account has,
\* once the block is indexed, at least the balance it showed before, it is
\* destroyed exactly if it showed as destroyed, and it has the script and the
\* permissions it showed, unless the pool holds an update of another account.
OverlayNeverOverstates ==
    Settled.ok =>
        \A id \in Existing :
            LET seen == GetAccount(id, pool)
                left == Settled.accounts[id]
            IN  seen # None =>
                    /\ seen.balance <= left.balance
                    /\ seen.destroyed = left.destroyed
                    /\ ~UpdatedElsewhere(id, pool) =>
                          seen.script = left.script /\ seen.perms = left.perms

\* The pool holds a mint to an account the index does not know, or mints that
\* together exceed what the supply can hold.
MintedTo(id, receipts) ==
    \E i \in DOMAIN receipts : receipts[i].tx.type = "Mint" /\ receipts[i].tx.to = id

Minted(receipts) ==
    FoldLeft(LAMBDA sum, r : IF r.tx.type = "Mint" THEN sum + r.tx.amount ELSE sum, 0, receipts)

BadMints(receipts) ==
    \/ \E id \in Ids : accounts[id] = None /\ MintedTo(id, receipts)
    \/ ~InRange(supply + Minted(receipts))

\* Nothing but the owner's own mints can make the minter panic: whatever else
\* was accepted into the pool is accepted again by verify_block, and indexing
\* it meets neither a missing account nor an overflow.
OnlyMintsPanic ==
    ~Producible(pool) \/ (\E tx \in Txs : ExecutePanics(tx, pool)) => BadMints(pool)

\* Below height h no run of FEE_RESET_WINDOW blocks is free of id's receipts.
Linked(id, h) ==
    \A low \in (h + 1)..(Height - FEE_RESET_WINDOW + 1) :
        \E m \in low..(low + FEE_RESET_WINDOW - 1) : Matches(id, chain[m + 1]) > 0

HeightsDown == [j \in 1 .. Len(chain) |-> Len(chain) - j]

CountLinked(id, sum, h) == IF Linked(id, h) THEN sum + Matches(id, chain[h + 1]) ELSE sum

LinkedCount(id, base) ==
    FoldLeft(LAMBDA sum, h : CountLinked(id, sum, h), base, HeightsDown)

\* The scan of get_account_fee counts the receipts of the pool and of exactly
\* the blocks that are not cut off by a quiet window: a busy account keeps its
\* fee, one that pauses for FEE_RESET_WINDOW blocks starts over.
FeeCountsLinkedBlocks ==
    \A id \in Existing :
        FeeCount(id, pool) = LinkedCount(id, 1 + Matches(id, pool))

\* A destroyed account stays destroyed, its balance is gone, and only a mint or
\* the rewards of an owner's wallet put coins into it again: scripts check the receiver against the
\* pool, so not even a destruction earlier in the same block is missed.
DestroyedReceivesNothing ==
    [][\A id \in Existing : accounts[id].destroyed \/ accounts'[id].destroyed =>
          LET left == IF accounts[id].destroyed THEN accounts[id].balance ELSE 0
          IN  /\ accounts'[id].destroyed
              /\ accounts'[id].balance > left =>
                    id = owner' \/ MintedTo(id, pool)]_vars

\* A client that is shown the header alone has missed nothing: no account of
\* its filter has changed with the block, except an owner's wallet by rewards
\* (get_filtered_block leaves those out).
HeaderHidesNothing ==
    [][\A filter \in SUBSET Ids :
          Len(chain') > Len(chain) /\ ~HasMatch(filter, chain'[Len(chain')]) =>
              \A id \in filter \ {owner'} : accounts'[id] = accounts[id]]_vars

\* An update among the receipts brought the permissions together with a script.
GivenUnchecked(id, perms, receipts) ==
    \E i \in DOMAIN receipts :
        LET tx == receipts[i].tx
        IN  /\ tx.type = "Update" /\ tx.account_id = id
            /\ tx.new_permissions = perms
            /\ tx.new_script # None

\* The rules of Permissions::is_valid hold for every account that has not been
\* given its permissions by an update that brought a script as well: execute_tx
\* looks at new permissions only when there is no new script.
PermissionsValid ==
    \A id \in Existing :
        \/ IsValid(accounts[id].perms)
        \/ \E i \in DOMAIN chain : GivenUnchecked(id, accounts[id].perms, chain[i])

-----------------------------------------------------------------------------
(* The inductive invariant.  The index is sound; so are, as long as        *)
(* indexing the pool does not panic, the accounts it would leave behind,   *)
(* and they relate to what get_account shows of the same pool.             *)

SoundIndex(accs, sup, own) ==
    /\ accs \in [Ids -> Account \cup {None}]
    /\ \A id \in Ids : BalanceOf(accs[id]) \in 0..MAX_AMOUNT
    /\ sup \in 0..MAX_AMOUNT
    /\ own \in Ids /\ accs[own] # None
    /\ Total(accs) = sup

\* The blocks below the head have left a sound index and valid permissions.
ASSUME StartAssumption ==
    /\ SoundIndex(InitBatch.accounts, InitBatch.supply, InitBatch.owner)
    /\ \A id \in Ids : InitBatch.accounts[id] # None => IsValid(InitBatch.accounts[id].perms)

CreatedIn(id, receipts) ==
    \E i \in DOMAIN receipts :
        receipts[i].tx.type = "Create" /\ receipts[i].tx.account.id = id

\* An account acc of the index, seen with the receipts on top, left by indexing
\* them.
Agree(id, acc, seen, left, receipts) ==
    /\ acc = None => seen = None /\ (left # None => CreatedIn(id, receipts))
    /\ acc # None =>
          /\ seen # None /\ left # None
          /\ 0 <= seen.balance /\ seen.balance <= left.balance
          /\ seen.destroyed = left.destroyed
          /\ acc.destroyed => left.destroyed
          /\ ~UpdatedElsewhere(id, receipts) =>
                seen.script = left.script /\ seen.perms = left.perms
          /\ left.destroyed /\ ~MintedTo(id, receipts) =>
                left.balance <= IF acc.destroyed THEN acc.balance ELSE 0
    /\ (\A i \in DOMAIN receipts : id \notin Names(receipts[i])) => left = acc

PermsInv(id, acc, receipts) ==
    acc # None =>
        \/ IsValid(acc.perms)
        \/ \E i \in DOMAIN chain : GivenUnchecked(id, acc.perms, chain[i])
        \/ GivenUnchecked(id, acc.perms, receipts)

Left(receipts) == IndexReceipts(Batch, receipts)

\* The fees of the receipts are in no account until the rewards are paid.
SettledInv(receipts) ==
    /\ \A id \in Ids :
          /\ Agree(id, accounts[id], GetAccount(id, receipts), Left(receipts).accounts[id],
                   receipts)
          /\ BalanceOf(Left(receipts).accounts[id]) >= 0
          /\ PermsInv(id, Left(receipts).accounts[id], receipts)
    /\ accounts[Left(receipts).owner] # None
    /\ Left(receipts).supply = supply + Minted(receipts)
    /\ Left(receipts).supply \in 0..MAX_AMOUNT
    /\ Total(Left(receipts).accounts) + Rewards(receipts) = Left(receipts).supply

LedgerInv ==
    /\ SoundIndex(accounts, supply, owner)
    /\ pool \in Seq(Receipts) /\ Len(pool) <= MaxPool
    /\ chain \in Seq(Seq(Receipts))
    /\ aborted \in BOOLEAN
    /\ Rewards(pool) >= 0 /\ Minted(pool) >= 0
    /\ VerifyBlock(pool)
    /\ Left(pool).ok => SettledInv(pool)
    /\ ~Left(pool).ok => BadMints(pool)
    /\ \A id \in Ids : PermsInv(id, accounts[id], <<>>)

=============================================================================
