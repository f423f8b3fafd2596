# A TLA+ model of GODcoin

GODcoin is a centralised ledger: one server (the *minter*) validates transactions, collects
them in a pool, and turns the pool into a block every few seconds. This directory models
that server: who may execute a transaction and how often, what a crash leaves behind, where the
coins are, what account scripts can do with them, and what connected clients see; the bytes and
texts that its parts exchange; and the command line wallet that talks to it.

## 1. Inventory

Paths are relative to `src/crates/`.

| Component | Code | State | Operations | What makes it correct |
|---|---|---|---|---|
| Receipt pool | `godcoin/src/blockchain/receipt.rs` | receipts executed and not yet in a block (memory) | `push`, `flush` | a transaction executes at most once; an accepted one reaches a block |
| Transaction ids | `blockchain/index.rs`, column family `tx_expiry` | id to expiry (disk) | `has_txid`, `insert_txid`, `purge_expired_txids`, rebuilt by `reindex` | an id is forgotten only when `push` can no longer accept the transaction |
| Minter | `server/src/server/minter.rs` | pool mutex, production timer | `push_tx`, `produce` | the tip of the chain settles; nothing is lost between flush and insert |
| Block store | `blockchain/store.rs` | log file, cache, height, tail | `insert`, `insert_genesis`, `get`, `reindex_blocks`, `init_state` | every height up to the head can be read; committed blocks survive crashes |
| Index | `blockchain/index.rs` | status, height, positions, accounts, supply, owner (RocksDB) | `WriteBatch` and `commit` | agrees with the log |
| Blockchain | `blockchain/mod.rs` | the two above | `get_account`, fees, `execute_tx`, `verify_block`, `index_block`, `insert_block`, `reindex` | coins are conserved; validation agrees with indexing |
| Accounts, permissions | `account.rs` | balance, script, keys and threshold, destroyed | `verify`, `is_valid` | only valid permissions are stored |
| Script engine | `script/*.rs` | stack, branch marker, log, amounts | `eval` | a script never sends more than the transfer brings |
| Assets | `asset/*.rs` | none | checked arithmetic, parsing, formatting | no wrap-around; parsing inverts formatting |
| Node life cycle | `server/src/server/lib.rs`, `server/src/bin/server/main.rs` | none of its own | start, genesis, `--reindex`, panic hook | a stopped node can be started again |
| Client sessions | `server/src/server/client/*.rs`, `pool.rs` | needs-pong flag, queues, subscriptions | requests, heartbeat, block ranges, broadcast | replies match requests; subscriptions end with the connection |
| Wallet | `cli/src/wallet/**` | encrypted key store, lock state, id of the next request | 22 commands, the exchange with a node | imported keys stay readable; an answer is the answer to its request; a command does not kill the process |
| Byte formats | `net/*.rs`, `tx/mod.rs`, `serializer.rs`, `account.rs`, `blockchain/block.rs`, `receipt.rs`, `error.rs` | none | encode, decode, what is hashed | decoding inverts encoding; damage is noticed or changes the hash |
| Texts | `asset/mod.rs`, `crypto/wif.rs`, `script/builder.rs`, `cli/src/wallet/parser.rs`, `script_builder.rs` | the function being built | format, parse, build | the engine runs what was typed |

**How they interact.** Client tasks call `Minter::push_tx`, which locks the pool, checks expiry
and id, asks `Blockchain::execute_tx` (with the pool as *additional receipts*) and records the id
on disk and the receipt in memory. A timer calls `produce`, which holds the pool's mutex from
`flush` to the end of `insert_block`; `insert_block` verifies, computes the effect of the block on
a `WriteBatch`, writes the log, then commits the batch. Readers only take the store's mutex or
read RocksDB, so they see the states in between. A panic anywhere aborts the process
(`install_panic_hook`).

**What is hard.** Log and index are two files written one after the other. The record itself is
two writes. Ids are purged by a wall clock that may be set back. The expiry index is rebuilt after
the index has been declared complete. Everything sent to a client goes through one bounded
channel, on which reader, heartbeat and block ranges wait. Nested branches of a script are tracked
by one counter and one flag. The effect of a pending transaction is computed twice, by
different code (`get_account` and `index_receipt`). Indexing unwraps in the middle of a block.
Writers and readers of every format are separate functions, counts are cut to a byte without a
check, and script functions are reached through computed pointers. The wallet unwraps what a grammar
elsewhere promises, and does not compare the id of an answer with its request. The
list, line by line, is `hazards` in `PROJECT.json`.

## 2. Modules

| Module | Models | Checked by |
|---|---|---|
| `ReceiptPool` | pool, transaction ids, minter, rebuild of the expiry index, the clock | `MCReceiptPool` with three configurations |
| `OnceLog` | what `ReceiptPool` promises: every transaction once, the pool kept or lost together, one fork at most | `ReceiptPool` implements it (`OnceSpec`) |
| `ReceiptPoolProofs` | proofs about `ReceiptPool`, the implementation of `OnceLog` included | tlapm |
| `BlockStore` | log, positions, cache, genesis, crashes, start, `--reindex` | three configurations of the module itself |
| `BlockStoreProofs` | proofs about `BlockStore` | tlapm |
| `Ledger` | accounts, transactions, fees, overlay and indexing | `MCLedger` with one configuration |
| `LedgerProofs` | proofs about `Ledger`: first what its operators compute (folds, totals, overlay and indexing of one receipt, the fee scan), then the invariant | tlapm |
| `FoldTheory` | what `FoldLeft` computes, for any operation; used by `LedgerProofs`, `ScriptEngineProofs` and `FormatsProofs` | tlapm |
| `ScriptEngine` | the interpreter of account scripts: `call_fn`, stack, branches, log | `MCScriptEngine` with two configurations |
| `ScriptEngineProofs` | proofs about `ScriptEngine` | tlapm |
| `ClientSession` | connections, channel, block ranges, subscriptions, broadcasts | one configuration of the module itself |
| `ClientSessionProofs` | proofs about `ClientSession` | tlapm |
| `Formats` | bytes of transactions, accounts, receipts, blocks and messages, and a message on its way | `MCFormats` |
| `FormatsProofs` | proofs about `Formats` | tlapm |
| `TextFormats` | texts of amounts and addresses, the lines and scripts a user types, the script builder, and how the engine reads what it built; extends `Formats` | `MCFormats` |
| `Wallet` | commands, database, lock, transaction texts, requests to a node | `MCWallet` |
| `WalletProofs` | proofs about `Wallet` | tlapm |

Each module keeps what the others decide open: `ReceiptPool` may accept or refuse any transaction
that passes the expiry and duplicate checks, `BlockStore` does not look into blocks, `Ledger`
does not know expiry or the log and takes the outcome of three kinds of script from the
interpreter, `ScriptEngine` takes the accounts as given, `ClientSession` knows of the chain only
its heights, `Wallet` takes a node that answers as `ClientSession` does, and `Formats` and
`TextFormats` are about values and not about what is done with them. Definitions named `...Without...`, `...Anywhere`, `...OffByOne` and the like and
commented as mutants are not part of a specification: each is a plausible bug, used to make sure
that the property next to it in `PROJECT.json` can fail.

### ReceiptPool

State: `now` (the clock), `txids` (disk), `receipts` (the pool), `flushed` (what `produce` holds
between `flush` and the commit), `chain` (timestamps and transactions of the blocks the index knows),
`log` and `behind` (the blocks that `reindex_blocks` would take in, and what follows them in the
file), `stamp` (the timestamp of a block that is written and not committed), `indexed`
(`index_status() = Complete`), and `scan`/`current_time` of the rebuild loop. `high`, the latest
time shown by the clock, is a history variable. Actions: `Push`, `Flush` (with purge and decision),
`WriteBlock` and `CommitBlock` (the two writes of `insert_block`), `ProduceFails` (the block is
refused because an owner transaction of an earlier block moved the minter role; the process aborts),
`Crash` (also between the two writes), `CrashWriting` (inside the first), `Restart`, `DeleteIndex`,
`ReindexBlocks`, `RebuildBlock` (one round of the loop), `Tick`, `SetClockBack`.

`ReindexBlocks` makes the chain what the log holds. So a block that was written and lost before its
commit comes back with the next reindex; and if the node has gone on without one, the blocks behind it
do not follow in height and are cut off: the chain is then the one at the crash and the lost block. How
records are read and cut is `BlockStore`; here it matters which transactions are in them.

The environment is a parameter: how far the clock is ever set back (`ClockSlack`, at most
`TX_EXPIRY_ADJUSTMENT`, which is what that constant is for), whether the operator may reindex, and
whether a crash may hit the rebuild.

`OnceLog` is the same component as its clients see it: a list of blocks, a list of pending
transactions, and a fork: the chain to which everything may fall back. `ReceiptPool` implements it
with `blocks` the transactions of `chain`, and `pending` the pool or, between `flush` and the commit,
what `produce` has taken out of it: the mutex keeps the pool empty meanwhile, so there is one list at
any time; the fork is the content of `log` once that is not the chain. Expiry, ids, purges, the
clock and restarts are stutters of the abstract log; a crash and a refused block lose the whole list
(`Lose`). A crash inside an insertion loses it too and leaves a fork (`LoseMidway`), the chain at that
moment with or without the block being inserted; a reindex falls back to it (`FallBack`), and
to nothing else, however many blocks are committed and crashes happen in between. That such a fork
costs committed blocks is what `store_orphan` shows; that no transaction executes twice on the way,
the pool of the next start and the ids rebuilt by the reindex included, is what `OnceSpec` says.

### BlockStore

The log is a sequence of records; a byte position is the number of a record. A record is full, or
what an interrupted write left: part of the 8 byte header, or the header and part of the block.
`ReadOutcomes` says what `raw_read_from_disk` can make of each, including reading unfinished bytes
together with the records behind them (the length read is then arbitrary: either too long, a
corrupt block, or a failed CRC assertion). `insert_block` and `create_genesis_block` are split at
each write that a crash can separate. `committed` is a history variable, the chain as the index
last held it; `dirty` says that the operator has gone on over an unfinished or orphaned record.

`Tears` and `CarefulOperator` are the environment. A careful operator reindexes with
`--reindex-trim-corrupt` after a crash that interrupted an insertion, rather than going on over
the rest of it. A crash is the death of the process; what was written stays written (the code
flushes and does not sync, so a loss of power is outside the model).

### Ledger

`accounts`, `supply` and `owner` are the index, `pool` the receipts, `chain` the receipts of every
block (the fees look back). `GetAccount` is the overlay of the pool that validation uses;
`ExecuteOk`/`ExecuteLog` are `execute_tx`, one operator per kind of transaction; `IndexBlock` is
the effect of a block on a `WriteBatch`, whose `ok` turns false where the code unwraps. `Produce`
re-executes the receipts (`verify_block`), indexes and commits; `ProducePanics` and `PushPanics`
abort the process and lose the pool. `HasMatch` is `get_filtered_block`, compared by
`HeaderHidesNothing` with what indexing really changed.

Scripts are the three kinds that matter to balances: the genesis script, the default script
(transfer after a permission check) and one that destroys the account. The signatures of a
transaction are the sequence of keys that signed it, all of them good. Assets are integers with
the range of an `i64` shrunk to `MAX_AMOUNT`; the multipliers `GRAEL_FEE_MULT`,
`GRAEL_ACC_CREATE_FEE_MULT` and `GRAEL_ACC_CREATE_MIN_BAL_MULT` are exactly 2; the powers in the
fees are tables (`AccountFee`, `NetFee`) that end where the powers no longer fit, and `HasFee` is
false beyond them, where `checked_pow` gives `None` and the transaction is refused. The chain may
start with blocks below the head; `StartAssumption` says that they have left a sound index. Limits on sizes (scripts, memos, signatures) are left out: they refuse
a transaction whatever the state is.

### ScriptEngine

One run of `call_fn`. Scripts have no backward jump, so the script is the stream of operations the
interpreter reads: every step reads one operation and the model chooses which, with its operands.
State: `stack` (frames of three kinds), `if_marker`, `ignore_else` and the level `req_if_marker` at
which skipping stops, `log`, `total_amt`, `remaining_amt`, and `mode`, which is `run`, `skip`
(inside `consume_op_until`), `ok`, `panic` or the error returned. One action per operation or group
of operations that share their code; `Finish` is everything behind the loop. Errors carry their
kind and not their position. Cut-off or unknown operations are `BadOp` and `EnterFails`.

Amounts have a width (`MAX_AMOUNT`) and a scale (`UNIT`), so that `checked_mul` and `checked_div`
round towards zero, fail and wrap where the code does. Accounts do not change during a run:
`Found` is what `get_account` returns, `Verified` what `Permissions::verify` says of the signatures.
`blocks`, `wellFormed` and `crossed` are history: the open IF blocks by the text of the script, also
through what is skipped, and whether a search for an ELSE or ENDIF has run over the definition of the
next function (`SkippedDefine`), where `consume_op_until` does not stop. `NestedThen` says
whether scripts may hold an IF in a THEN part that has an ELSE.

### ClientSession

Each connection is one task that polls reader, writer and heartbeat in a `select!`, plus one task
per accepted block range. `queue` and `parked` are the `futures` channel as the code uses it: a
`send().await` queues its message and, beyond the bound, parks that sender until a later receive
wakes it, oldest first; a clone is a sender of its own that is not parked, which is why a broadcast
(`client.clone().try_send`) always gets through. `Beat` is a tick of the heartbeat, `Write` one
message forwarded to the socket, `Close` the end of the `select!` with the removal of the
subscription, `Read...` one message through `process_ws_msg`, `RangeStep` one poll of a range with
its send. `StoreBlock`, `CommitBlock` and `Broadcast` are the steps of `produce` that clients can
tell apart. `seen`, `since`, `asked` and `unreachable` are history.

Each connection has an address of its own, messages are their kind, id, height and filter flag, and
a peer is up or silent; a silent peer takes nothing more (the buffers of the network are empty or
full, nothing in between). Requests that only query the chain or push a transaction are one action.

### Formats and TextFormats

Every `serialize` is an operator from a value to its bytes, every `deserialize` one from a stream of
bytes to a value and the bytes behind it, or to an error. They are separate functions in the code and
nothing but their agreement makes the format work, so each is translated by itself, field by field in
its own order. What the formats have in common is shared: `PutList` and `TakeList` for counted lists
(`TakeAll` is the loop of a reader), `PutOption` and `TakeOption`, and `TakeTag` with `Variant` for
enums, whose tables of codes are read by writer and reader, or are two tables where the code has two.
The sets `Tx`, `Receipt`, `Block`, `Request`, ..., `Msg` are the values that can be sent;
`OversizedRequest` are the requests with more elements than their count can tell, which the code
writes all the same, cutting the count to its low bits as `as u8` does. Widths are scaled: a byte has
`BYTE` values, integers take two bytes, keys, signatures and digests one, and amounts have `I64`
values, chosen so that the last group of a variable-length integer is a partial one as it is with 64
bits. A digest is the bytes that are hashed. A message is written, may be cut, garbled in a byte or
extended, and is read by `Deserialize`, which is `Msg::deserialize` with the rule of `process_ws_msg`
about bytes that remain; that rule is the node's, and a message that only the wallet reads
(`ReadByWallet`) is taken with whatever follows it, as `send_req` takes it. Nothing in a message is
checked before room is made for it: `Block::deserialize` gives the count of receipts, 32 bits wide, to
`Vec::with_capacity`. `ROOM` is the number of receipts there is memory for, enough for every block
sent; a larger count ends the process (`NoRoom`, outcome `Aborted`). The other counts have 8 or 16
bits, and the buffers of `take_bytes` at most 4 GiB that are given back when the read fails: they are
taken to fit.

`TextFormats` builds a script word by word (`script_builder::build`, `Builder`, `FnBuilder`), next
to `wanted`, the frames the user meant. `Word` goes through the text of each argument: amounts are
printed and parsed digit by digit (`to_string`, `from_str`), addresses by prefix, length and
checksum (`to_wif`, `from_wif`), which panics when its third byte is inside a character
(`from_wif_panics`, for the address `garbled`). `ReadFrames` is `consume_op` on the bytes of the result.

### Wallet

`init` and `accounts` are the database on disk: the key of the wallet sealed under the password
(`PROP_INIT`), and the accounts sealed under that key. `db`, `prompt` and `req_id` are memory, lost
with the process. `text` is the transaction the user copies from one command to the next. `rpc` is
the open request with its connection. There is one action per command; `Grammar` is the table of
commands, required, defaulted and optional arguments that `process_line` gives to clap, and
`Missing` compares it with what the handlers unwrap. The text typed for an account is a name, an
address, something else, or `garbled`, where `from_wif` cuts inside a character (`OffBoundary`);
`import` reads it before it looks into the database, the other handlers behind that, and the keys of
permissions come behind the account (`KeysPanic`). The expiry typed is added to the time, which panics
on overflow in builds that check for it (`ExpiryOverflows`). A panic ends the process, as does `Killed`, at
any moment; `Start` reads the disk. `owned` is history, the accounts that the user imported and did
not delete. The node is external: it answers once, may ping, send what the wallet cannot read or
what is not for it, and the connection may break. RocksDB puts are atomic; keys from `gen_key` do
not repeat; opening a box with another key fails.

## 3. Runs

| Run | Shows | Bounds |
|---|---|---|
| `pool_serving` | `NoReplay`, `AcceptedReachesChain`, `TipSettles` | 2 transactions (one changes the minter), clock 2..6, one crash, clock set back by the whole adjustment |
| `pool_reindex` | `ExecutedAreRemembered`, and that the node implements `OnceLog` (`OnceSpec`) | the same, clock 2..8 and not set back, two crashes, also inside an insertion, with or without `--reindex` behind them |
| `pool_rebuild_crash` | violated: `NoReplay` | a crash during the rebuild |
| `store_any` | `EveryHeightReadable`, `IndexFindsCommitted`, `CacheWindow` | 7 blocks, 3 crashes, every kind of tear, any operator; cache of 2 |
| `store_careful` | `StartsSucceed`, `CommittedSurvives`, `NodeComesBack` | the same without tears inside the header, careful operator |
| `store_orphan` | violated: `CommittedSurvives` | crashes between log and index, then a plain start |
| `ledger_pool` | `TypeOK`, `Conservation`, `OverlayNeverOverstates`, `OnlyMintsPanic`, `FeeCountsLinkedBlocks`, `PermissionsValid`, `DestroyedReceivesNothing`, `HeaderHidesNothing` | 3 accounts, 11 transactions of all kinds, pool of 2, three blocks on top of four; fee window 2 |
| `script_eval` | `TypeOK`, `AmountsAddUp`, `LogPaysTotal`, `DestroyIsLast`, `BranchesFollowBlocks`, `NoIfLeftOpen` | scripts of up to 8 operations, stack of 3, amounts of 4 bits, 4 accounts; no IF in a THEN part that has an ELSE |
| `script_nested` | violated: `BranchesFollowBlocks` | the same with such an IF |
| `client_sessions` | `TypeOK`, `PoolIsLive`, `SubscriptionHasNoGap`, `RangeInOrder`, `RangeFindsBlocks`, `SilentPeerDropped`, `RangeEnds` | a connection with two requests and any number of pongs, channel of 1, two new blocks |
| `formats` | `RoundTrip`, `DamagedInput`, `HashTellsApart`, `ScriptReadsBack` | every variant of every message, one fault on the way, memory for 200 receipts; scripts of up to 5 words, 3 functions and 20 bytes, and what exceeds them |
| `wallet` | `PanicsAreKnown`, `AccountsRecoverable`, `AnswerMatchesRequest`, `RequestEnds` | two names, one of them the text of an address, two accounts, one with two keys; counts of signatures below 3, ids below 2; 2 messages of the node unread; any number of commands and restarts |

**Why the bounds are enough for the cases they are for.** The clock of `ReceiptPool` runs past the
expiry of one transaction by more than the adjustment, so its id is purged while the clock can
still be set back; the other transaction lies beyond `TX_MAX_EXPIRY_TIME` until time has passed.
Two crashes allow a fork, blocks committed
beside it, and a reindex that falls back to it; or a reindex of a chain that an earlier one has seen. In `BlockStore` seven
blocks are two more than cache, genesis and one eviction need, and three crashes allow damage,
damage behind damage, and damage during repair. In `Ledger` two receipts in one block are what
a destruction followed by a payment to the destroyed account needs, behind an update in an earlier
block; the chain is longer than both fee windows. In `ScriptEngine` eight operations hold two
nested blocks with both parts, or two payments and a destruction with their arguments; sums and
products leave the four bits in both directions, and argument lists and pushes fill the stack. In
`ClientSession` an action of one connection neither reads nor writes anything of another, and the
minter waits for none, so every behaviour of a connection among others is one of a connection
alone; two requests allow a filter or a subscription to change while a range runs, or two ranges at
once, and a channel of one message is full after two. In `Formats` the values sit at the edges: the
least and greatest amounts and integers, empty and full lists, and lists one and two longer than
their count can tell; garbled bytes include the codes of other variants and of counts. Five words
hold two functions with bodies, or four, one more than the table takes; 20 bytes are reached from below and
from above; the amounts have every length around the number of decimals, with both signs. In
`Wallet` an account whose name is another one's address makes look-ups ambiguous, three keys wrap
the count of signatures, and the second request wraps the ids.

**Violations.** The three `violation` runs are disagreements between the code and what a test says
of it; `findings` in `PROJECT.json` quotes each. In short: reindexing forgets transaction ids if it
is interrupted; a block whose commit was lost can come back in place of a committed one; an IF
inside a THEN part can make the ELSE execute as well.

**Exceptions.** Where the code has a gap that a property would trip over, the property names it, and
holds only up to it:

- `ClockSlack = 1` with reindexing violates `NoReplay`: with the clock behind the head's timestamp
  the unsigned subtraction in `reindex` wraps and the rebuild stops at once.
- `"header"` added to `Tears` in `BlockStore_careful.cfg` violates `CommittedSurvives`: a record torn
  inside its header reads as the end of the log, is not trimmed, and blocks behind it are lost by
  the next reindex.
- `OnlyMintsPanic` excepts mints that fit the supply one by one and not together, and mints to
  accounts that do not exist yet: they are accepted and abort the process when the block is indexed.
- `OverlayNeverOverstates` excepts script and permissions of an account while an update of *another*
  account is pending: `get_account` lays the update over whatever account it was asked for
  (`blockchain/mod.rs:259-264`), although the comment at `mod.rs:237` wants what indexing does.
- `PermissionsValid` excepts permissions that came together with a script: the checks are an
  else-if chain (`mod.rs:609-617`) and the script's size is the only one made.
- `SilentPeerDropped` excepts a peer that goes silent with a full channel: its ping waits for room
  and the connection is never closed.
- `HeaderHidesNothing` excepts the rewards of the owner's wallet, which no filter sees. Nor are the
  rewards of a block covered by its header hash.
- `RoundTrip` excepts messages with more signatures or ids than their count can tell; it says that
  they are refused. An account with as many keys is not covered: the wallet does not check the
  permissions of an account it creates, and what its bytes are read as depends on the keys.
- `ScriptReadsBack` excepts negative amounts as long as the decimals (`Asset::to_string` puts
  the dot before the sign) and those whose text is longer than the parser takes. The parser also
  removes every dot of a text, not only the first.
- `PanicsAreKnown` names the ways to kill the wallet with a line (`KnownPanics`): one without a
  command; a script of more than 255 functions; an address or a key that `from_wif` cuts inside a
  character (`crypto/wif.rs:55`, `:99`), in the seven commands of `ReadsWif`; an expiry that overflows
  when it is added to the time (`cmd/mod.rs:202`, `:275`, `account.rs:39`, `:120`), in the four of
  `AddsExpiry`; a connection that fails after it was made; a block whose count of receipts is
  garbled; and `build_update_account_tx` while locked, the one command without `check_unlocked`.
- `DamagedInput` says that the node refuses what has bytes behind it; the wallet does not look
  (`cmd/util.rs:99-104`) and reads the message as it was sent. A garbled count of receipts may end the
  process that reads it; no other damage does.
- `NoIfLeftOpen` does not say that a function that leaves an IF open fails: when its part is not
  taken, `consume_op_until` goes on over the definition of the next function, and the run with it
  (`engine.rs:367-379`). It says that this is the only way into another function, and that a run
  which ends at the end of a function succeeds only if every IF has met its ENDIF.
- `OnceSpec` does not say that what is in a block stays: see `FallBack` above.

Two more that no property is about: the help text of `--expiry` speaks of milliseconds
(`cli/src/wallet/mod.rs:293` and others, with the default 60000) and `get_epoch_time` counts
seconds; and `Permissions::verify` counts signatures, not distinct keys.

**Fairness.** `ReceiptPool`: weak fairness of `Flush` (the production loop re-arms its timer after
every round) and of the rest of a `produce` that has begun (it runs to its end under the mutex);
none for clients, clock, crashes or restarts, and the liveness properties except a process death.
`BlockStore`: weak fairness of the steps of a running process and of an operator who starts a
stopped node, plainly or with `--reindex-trim-corrupt`; none for insertions and crashes.
`NodeComesBack` depends on that operator. `ClientSession`: weak fairness of the heartbeat (an
interval timer), of the writer while the peer is up (the peer keeps reading) and of the range tasks
(the runtime polls tasks that were woken); none for requests, hang-ups or the minter. `Wallet`: weak
fairness of `read_message` (a blocking loop) and strong fairness of `NodeAnswers`; a node's handler
returns an answer to every request, and the fairness has to be strong only because the bound
`MaxInbox` may disable an answer while pings fill the inbox. None for the user. `Ledger`,
`ScriptEngine`, `Formats` and `TextFormats` have no liveness property.

## 4. Proofs

`ReceiptPoolProofs` proves, for every set of transactions, all expiry times, any bound on clock and
restarts, and any values of the two time constants:

- `TypeCorrect`: `Spec => []TypeOK`, in every environment.
- `RememberedTheorem` and `NoReplayTheorem`: `Spec => []ExecutedAreRemembered` and
  `Spec => []NoReplay`, assuming `SafeEnvironment`: either the node is never reindexed and the
  clock is set back by at most `TX_EXPIRY_ADJUSTMENT` (an assumption on `ClockSlack`), or it may be
  reindexed, the clock is never set back and no crash hits the rebuild. Neither half of the second
  case can be dropped (section 3).
- `OnceTheorem`: `Spec => OnceSpec`, `ReceiptPool` implements `OnceLog`, under the same assumption,
  crashes inside an insertion and reindexes behind them included.

The argument. `NoReplay` is not inductive: it needs that whatever was executed is *remembered*, by
its id or because every clock reading still possible is at or past its expiry
(`ExecutedAreRemembered`). Purging keeps this because an id goes only when its expiry is more than
the adjustment behind the clock, and the clock stays within `ClockSlack` of its highest value
(`ClockInv`). Rebuilding keeps it because the loop may stop at the first old block: timestamps grow
along the chain and no transaction outlives the timestamp of its block by more than
`TX_MAX_EXPIRY_TIME` (`TimestampInv`); the blocks already passed are remembered (`RebuildInv`).
`PhaseInv` says where receipts can be. `LogInv` and `LogNoReplay` carry the rest from the chain to the
log, because the next reindex will make it the chain: the log repeats no transaction, and as long as
nothing lies behind its blocks it is the chain or one block longer. What is in the log only need not be
remembered: the reindex that brings it back removes all ids first and rebuilds them. `IInv` is
the conjunction; each action has a step, each conjunct it can disturb a step below it. The refinement rests on the same invariant: a step of
`Push` is an `Accept` because its guard (not in the index, not expired) excludes, by
`ExecutedAreRemembered`, everything pending or in a block; `CommitBlock` is a `Commit` and
`ProduceFails` a `Lose` because, by `PhaseInv`, nothing is in the pool while `produce` holds
`flushed`; a crash is a `Lose`, or a `LoseMidway` if the log was the chain and no longer is;
`ReindexBlocks` is a `FallBack` to the log, or a stutter; everything else is a stutter (`OnceStep`
has one step per action).

`ScriptEngineProofs` proves, for all accounts, argument lists, amounts, widths, stack limits and
scripts of any length:

- `TypeCorrect`, `AmountsTheorem`, `LogTheorem`, `DestroyTheorem`: `TypeOK`, `AmountsAddUp`,
  `LogPaysTotal` and `DestroyIsLast`.
- `BranchesTheorem`, `NoIfLeftOpenTheorem`: `BranchesFollowBlocks` and `NoIfLeftOpen`, assuming
  `~NestedThen`; `script_nested` shows that the assumption is needed.

The argument. `StepKinds` sorts the steps by what they do to the amounts: nothing (`Quiet`), a
payment (`Pays`), or the end of the script (`Ends`); `AmountsAddUp` is then inductive, because a
payment lies between 0 and what remains. For `LogPaysTotal`, `PaidInv` says that the log adds up to
`sent`, entry by entry (`PaidSteps`, from `FoldTheory`), and that every receiver was found alive, the
one of a destruction too, since the remaining funds may go there. `DestroyIsLast` needs that no destruction is in the log
while the script runs (`NoDestroyYet`). For the branches, `BranchInv` says whose flag `ignore_else`
is: it belongs to the innermost block as long as the ELSE of that block may come, every outer block
is past its ELSE or will have none, and while skipping, `req_if_marker` is the outermost block whose
part is not taken. `BranchKinds` reduces the induction to the six branch operations.

`BlockStoreProofs` proves, for logs, chains and caches of any size and any number of crashes:

- In every environment - any tears, any operator - `TypeCorrect`, `Readable`, `IndexFinds` and
  `CacheHolds`: `TypeOK`, `EveryHeightReadable`, `IndexFindsCommitted` and `CacheWindow`.
- `Starts` and `Survives`: `Spec => []StartsSucceed` and `Spec => CommittedSurvives`, assuming
  `CarefulEnvironment` (a careful operator, and no tear inside a header). Neither half can be
  dropped: `store_orphan` and the second exception of section 3 show why.

The argument. `StoreInv` is inductive in every environment. Its heart is `ChainInv`: the positions
of a complete index point at full records that form the committed chain, however many torn or orphaned
records lie between them; writes only append, so a position stays good (`FullAt` survives
`Append`), and a trim cuts only what is behind the records already taken in, since `ReindexInv` says
that the reindex has found consecutive blocks up to where it stands. `PhaseInv` ties each step of an
insertion or a start to how far log, store and index have come, and `CacheInv` says that the cache is
a window of heights and at most the block inserted last. Under `CarefulEnvironment`, `CarefulInv`
adds `CleanLog`: the log is the committed chain and at most one record more, which is cut inside its
body or is the next block; so a reindex finds at least what was committed, and nothing it reads can
fail the CRC.

`ClientSessionProofs` proves, for any number of connections, any bound of the channel, any length of
the chain and any number of requests: `TypeCorrect`, `PoolLive`, `NoGapInSubscription`,
`RangesInOrder` and `RangesFindBlocks`, that is `TypeOK`, `PoolIsLive`, `SubscriptionHasNoGap`,
`RangeInOrder` and `RangeFindsBlocks`. So what the run of one connection shows does not rest on the
argument of section 3 that connections are independent.

The argument. `SessionInv` is inductive. A message carries an id, and `IdInv` says that ids and
heights to come are not in use yet: a new range starts from nothing, and the next broadcast is above
all others. `Underway` is what the answer to a range and its task know of each other: the messages
hold every height below the task's next one, none above, and no end. `OneBlockAhead` makes the height
announced next the successor of the last. The state of one connection is a parameter of `ConnInv`, with
one lemma per kind of message (`ConnSend`, `ConnBroadcast`, `ConnRangeBlock`, `ConnRangeEnd`);
the writer, which takes messages from the channel to the record and drops the ones that are no blocks,
is an order-preserving selection (`Thinned`).

`WalletProofs` proves, for any passwords, names, addresses, keys and any size of the id counter:
`KnownPanicsOnly`, `Recoverable` and `AnswersMatch`, that is `PanicsAreKnown`, `AccountsRecoverable`
and `AnswerMatchesRequest`. `WalletInv` adds that the key in memory is that of `PROP_INIT` and is there
only while unlocked (`DbInv`), and that what waits on a connection is an answer to its request
(`RpcInv`). `NothingMissing` compares the grammar with the handlers command by command.

`LedgerProofs` proves, for any accounts, keys and transactions, any fee tables, any width of amounts
and any size of pool and chain:

- `LedgerTypes`, `CoinsConserved`, `OverlayIsSafe`, `PanicsNeedBadMints`, `PermissionsStayValid` and
  `FeesCountLinked`: `TypeOK`, `Conservation`, `OverlayNeverOverstates`, `OnlyMintsPanic`,
  `PermissionsValid` and `FeeCountsLinkedBlocks`, that is every invariant of its run;
- `DestroyedStaysEmpty` and `HeaderIsEnough`: the action properties `DestroyedReceivesNothing` and
  `HeaderHidesNothing`.

They assume `LedgerAssumption` (types; fees are natural numbers) and `StartAssumption`: the blocks
below the head have left a sound index with valid permissions. TLC evaluates both on its instance.

The argument. None of the invariants is inductive by itself: a transaction is checked against the
overlay of the pool, and what decides is what indexing the pool will do later. `LedgerInv` therefore
compares three versions of every account (`Agree`): in the index, as `get_account` shows it, and as
indexing the pool would leave it (`Left`). The shown balance is never below zero nor above the one
left, both agree on destruction and, updates of other accounts apart, on script and permissions;
what no receipt names is left as it was. `SettledInv` adds that what is left and the fees not yet paid out make up the supply with
the pool's mints, so that no credit can overflow as long as the supply fits. If indexing fails,
`BadMints` is the reason. One lemma per kind of receipt (`PushOwner`, `PushMint`, `PushCreate`,
`PushUpdate`, `PushSend`, `PushDestroy`) shows that an accepted transaction keeps the comparison,
`SettledStep` puts them together, `BlockIndexed` adds the rewards, and `VerifyBlock(pool)` is kept
because the index and the chain, on which the verdict of `execute_tx` depends, change only when the
pool is emptied (`SameVerdict`).

`FeeCountsLinkedBlocks` is about every chain and needs only its type. `Trail` is what the scan of
`get_account_fee` knows after each block: how many blocks in a row were quiet, and whether a quiet
window lies behind it; `LinkedIff` says that a height is linked exactly if the scan has not stopped
above it, and `ScanCounts` that scan and sum then go along, block by block.

Sums and folds. The overlay, indexing, rewards and mints are folds over receipts, `Total` is a sum over
accounts. The libraries' induction theorems take an operator, which the provers cannot instantiate,
so `FoldTheory` proves what `FoldLeft` does for an operation given as a constant of the module, by
induction over a *set* of numbers (`CountUp`, from the least number principle of
`WellFoundedInduction`), and `LedgerProofs` instantiates it once per fold. For `Total` the same is done
over the cardinality of subsets (`SubsetInduction`), because `MapThenSumSet` takes the accounts in an
order of its own.

`FormatsProofs` proves, for both widths of a byte, every set of messages and garbage, and values of any
size that the formats allow:

- `MsgCodec` and `BlockCodec`: writer and reader of messages and of blocks agree.
- `WireInvariant`: `FormatsSpec => []WireInv`.
- `MessagesAreReadAsWritten`, `DamageIsNoticed` and `HashesTellApart`: `RoundTrip`, `DamagedInput` and
  `HashTellsApart`.

They assume `WidthAssumption` and `MessagesAssumption`: the messages sent are values of `Msg` or of
`OversizedMsg`. TLC evaluates both on its instance.

The argument. `Codec(P, T, V)` says of a writer, a reader and a set of values: what `P` writes of a value
in `V` is read back by `T` whatever bytes follow (`Writes`), and whatever `T` reads is a value of `V`
and a suffix of the stream, and stays so if other bytes follow instead (`Reads`). The second
half is what makes the first compose, and what `DamagedInput` needs: a reader that accepted a part of a
message would accept the message with something behind it. Codecs are proved for bytes, integers,
amounts (the three lengths of a variable-length integer, and its partial last group) and byte strings;
`OptionWrites`, `ListWrites` and `TagWrites` with their counterparts for reading carry them over to
options, lists and enums; one lemma per struct follows its fields, one per enum its variants, up to
`MsgCodec`. The loop of a list is unfolded by `FoldTheory`; that an element is never empty
(a codec says so too) is why a count larger than what follows runs into the end of the stream. `ListWrites` also
covers lists too long for their count, from which `MsgOverflows` follows: the reader stops at the
shorter list and bytes remain. `JoinedTellsApart` says that pieces without a count are still told apart,
because each is read by a codec: so a receipt root has one list of receipts.

`WireInv` is inductive: the wire holds the bytes of the message sent, or these with the one fault that
`fault` names, and `got` is what the reader makes of them. The three properties follow
from it and the codecs; no property needs to look at single bytes. That only garbled bytes make the
reader abort is `RoomForSent` (the count of a block sent is the length of its receipts, whatever bytes
follow) and `NoRoomGrows` (what has no room when cut has none when whole).

The specifications of `ReceiptPool`, `BlockStore`, `ClientSession` and `Wallet` state fairness; the
theorems do not use it. `TypeOK` of `ReceiptPool` and of `BlockStore` are proved and part of no run.

Only model-checked: `ScriptReadsBack`, whose texts and frames are read by RECURSIVE operators (the
provers do not reason about those), and all liveness, because fairness and `ENABLED` are outside what
the prover does. Every other invariant and action property of a passing run is stated by a theorem.

## 5. Not modelled, and the plan

Not modelled, and why:

- libsodium: signatures, hashes, key derivation and boxes are taken to do what they promise. A
  signature is the key that made it, so bad signatures, and the order in which `verify` meets them,
  are out; a digest is its pre-image.
- `Asset::checked_pow` and its 128-bit rounding: out of reach of small widths; fees are a table.
- Limits that refuse a transaction whatever the state is (sizes of scripts, memos, attachments, the
  number of signatures) in `Ledger`; metrics, which nothing reads back; the WebSocket and TLS
  handshakes; the layout of what the wallet prints, its history of lines, and the bytes of its
  records.
- Loss of power: the code flushes and does not sync, so what is left of the log is up to the system.
- Four facts with no property. `get_properties` (`blockchain/mod.rs:145`) reads height, owner, supply
  and fee one after the other and may mix two blocks; nobody promises that it does not. The keys of
  a new chain are logged after its genesis block is committed (`server/src/server/lib.rs:63`). An
  M-of-N check of a script ends with false at the first account that was signed for and is not met
  (`script/engine.rs:509`), even when enough others are. A subscription is removed by address after
  its channel is gone (`server/client/mod.rs:160`), which is safe as long as the operating system does
  not reuse the port of an open socket.

The plan, in this order:

1. An abstract promise of `ScriptEngine` (a log that distributes the amount, or an error) that the
   interpreter implements and `Ledger` relies on, as a refinement proved step by step.
2. `ScriptReadsBack` as a theorem: the readers of `TextFormats` without recursion, the digits of an
   amount for every width, and the pointers of the builder for every number of functions.
