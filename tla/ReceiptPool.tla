---------------------------- MODULE ReceiptPool ----------------------------
(***************************************************************************)
(* The pool of executed transactions, the index of transaction ids that    *)
(* makes each of them execute at most once, and the minter that turns the  *)
(* pool into blocks.                                                       *)
(*                                                                         *)
(* Sources: blockchain/receipt.rs (ReceiptPool), blockchain/index.rs (the  *)
(* tx_expiry column family), blockchain/mod.rs (insert_block, reindex),    *)
(* blockchain/store.rs (insert, reindex_blocks) and server/minter.rs       *)
(* (produce, push_tx).                                                     *)
(*                                                                         *)
(* A transaction is executed when push accepts it.  The only thing that    *)
(* stops a second execution is its id in the tx_expiry index, and ids      *)
(* leave the index: they are purged once expired, and the whole index is   *)
(* thrown away and rebuilt by a reindex.  The wall clock that decides      *)
(* "expired" is an input.                                                  *)
(*                                                                         *)
(* A block is written to the block log first and committed to the index    *)
(* next.  The node serves what the index says; a reindex goes by the log.  *)
(* Of the log, record by record in BlockStore, this module keeps what a    *)
(* reindex would take in and what kind of bytes follow it.                 *)
(*                                                                         *)
(* What execute_tx decides is left open here: a transaction that passes    *)
(* the expiry and duplicate checks may be accepted or refused.             *)
(***************************************************************************)
EXTENDS Integers, Sequences, FiniteSets

CONSTANTS
    Txs,                   \* the transactions clients may broadcast (their ids)
    GenesisTx,             \* stands for the two receipts of the genesis block
    OwnerTxs,              \* those of Txs that hand the minter role to another key
    Expiry,                \* Expiry[tx]: the expiry field of a transaction
    StartTime,             \* epoch time when the genesis block is created
    MaxTime,               \* bound: the clock stops here
    TX_MAX_EXPIRY_TIME,    \* furthest expiry accepted, counted from now
    TX_EXPIRY_ADJUSTMENT,  \* how long an expired id stays in the index
    U64,                   \* number of values of a u64
    ClockSlack,            \* environment: how far the clock is ever set back
    AllowReindex,          \* environment: the operator may restart with --reindex
    AllowRebuildCrash,     \* environment: a crash may hit the expiry rebuild
    MaxRestarts            \* bound on the number of process deaths

ASSUME TxsAssumption ==
    /\ GenesisTx \notin Txs
    /\ OwnerTxs \subseteq Txs

ASSUME TimeAssumption ==
    /\ StartTime \in Nat /\ MaxTime \in Nat /\ U64 \in Nat
    /\ TX_MAX_EXPIRY_TIME \in Nat /\ TX_EXPIRY_ADJUSTMENT \in Nat
    /\ MaxRestarts \in Nat
    /\ Expiry \in [Txs \cup {GenesisTx} -> Nat]
    /\ Expiry[GenesisTx] = StartTime + 1
    /\ MaxTime + TX_MAX_EXPIRY_TIME < U64

ASSUME EnvironmentAssumption ==
    /\ ClockSlack \in 0..TX_EXPIRY_ADJUSTMENT
    \* purge_expired_txids subtracts the adjustment from an epoch time
    /\ TX_EXPIRY_ADJUSTMENT + ClockSlack <= StartTime
    /\ AllowReindex \in BOOLEAN /\ AllowRebuildCrash \in BOOLEAN

VARIABLES
    now,        \* what get_epoch_time returns
    high,       \* history: the latest time the clock has shown
    phase,      \* what the process is doing, see Phases
    txids,      \* keys of the tx_expiry column family, on disk
    receipts,   \* ReceiptPool.receipts, in memory
    flushed,    \* the receipts produce has taken and not yet inserted
    stamp,      \* timestamp of the block that is written and not committed
    chain,      \* blocks the index knows of, or knew of before it was removed:
                \* chain[h + 1] is the block at height h
    log,        \* block log: the blocks reindex_blocks would take in
    behind,     \* block log: what follows them, see Behinds
    indexed,    \* index_status() = Complete, on disk
    scan,       \* height the expiry rebuild of reindex has reached
    current_time, \* the clock as reindex read it before that rebuild
    keyIsMinter,\* the configured key is the minter of the current owner tx
    restarts    \* number of times the process died, for the bound

vars == <<now, high, phase, txids, receipts, flushed, stamp, chain, log, behind,
          indexed, scan, current_time, keyIsMinter, restarts>>

\* Most operations leave the blocks alone, in the log and in the index.
disk == <<chain, log, behind>>

(***************************************************************************)
(* serving    the pool mutex is free, requests and the timer are handled   *)
(* producing  produce holds the pool mutex, between flush and insert_block *)
(* inserted   it is between the write to the log and the commit            *)
(* rebuilding reindex is past reindex_blocks, refilling the expiry index   *)
(* stopped    the process is not running                                   *)
(***************************************************************************)
Phases == {"serving", "producing", "inserted", "rebuilding", "stopped"}

\* The blocks in log are followed by nothing, by bytes of writes that a crash
\* cut short, or by something that has a whole block in it.
Behinds == {"nothing", "torn", "records"}

AllTxs == Txs \cup {GenesisTx}

Blocks == [timestamp : Nat, receipts : Seq(AllTxs)]

\* The height of the last block of the chain; a block's height is its place.
Height == Len(chain) - 1

ChainHead == chain[Len(chain)]

\* The transactions of a block, of the chain, and all that were executed and
\* have not been lost.
Contents(s) == {s[i] : i \in DOMAIN s}

OnChain == UNION {Contents(chain[i].receipts) : i \in DOMAIN chain}

Executed == OnChain \cup Contents(flushed) \cup Contents(receipts)

-----------------------------------------------------------------------------
(* create_genesis_block has run and the server has started.                *)

Init ==
    /\ now = StartTime
    /\ high = StartTime
    /\ phase = "serving"
    /\ txids = {}
    /\ receipts = <<>>
    /\ flushed = <<>>
    /\ stamp = 0
    /\ chain = <<[timestamp |-> StartTime, receipts |-> <<GenesisTx>>]>>
    /\ log = chain
    /\ behind = "nothing"
    /\ indexed = TRUE
    /\ scan = 0
    /\ current_time = 0
    /\ keyIsMinter = TRUE
    /\ restarts = 0

-----------------------------------------------------------------------------
(* The clock.                                                              *)

\* Time passes.
Tick ==
    /\ now < MaxTime
    /\ now' = now + 1
    /\ high' = IF now + 1 > high THEN now + 1 ELSE high
    /\ UNCHANGED <<phase, txids, receipts, flushed, stamp, disk, indexed, scan,
                   current_time, keyIsMinter, restarts>>

\* The system time is adjusted, never to more than ClockSlack before the
\* latest time it has shown.
SetClockBack ==
    /\ \E t \in (high - ClockSlack)..(now - 1) : now' = t
    /\ UNCHANGED <<high, phase, txids, receipts, flushed, stamp, disk, indexed, scan,
                   current_time, keyIsMinter, restarts>>

-----------------------------------------------------------------------------
(* ReceiptPool::push, called by Minter::push_tx under the pool mutex.      *)

TxExpired(tx) ==
    \/ Expiry[tx] <= now
    \/ Expiry[tx] - now > TX_MAX_EXPIRY_TIME

HasTxid(tx) == tx \in txids

\* The transaction is executed: its id is put in the index, on disk, before
\* the receipt joins the pool, in memory.  A refusal changes nothing.
Push(tx) ==
    /\ phase = "serving"
    /\ ~TxExpired(tx)
    /\ ~HasTxid(tx)
    /\ txids' = txids \cup {tx}
    /\ receipts' = Append(receipts, tx)
    /\ UNCHANGED <<now, high, phase, flushed, stamp, disk, indexed, scan,
                   current_time, keyIsMinter, restarts>>

-----------------------------------------------------------------------------
(* Minter::produce on the production timer, enable_stale_production off.   *)

\* Mutant: ids are purged as soon as they have expired.
UnpurgedWithoutAdjustment(ids) == {tx \in ids : Expiry[tx] > now}

\* purge_expired_txids: what stays in the index.
Unpurged(ids) == {tx \in ids : ~(Expiry[tx] < now - TX_EXPIRY_ADJUSTMENT)}

\* Mutants: only an unsettled head makes a block due; only receipts do.
ShouldProduceForHead(rs, head) == head.receipts # <<>>
ShouldProduceForReceipts(rs, head) == rs # <<>>

\* A block is due when there is something to put in it, or when the head has
\* receipts, so that the tip of the chain ends up without any.
ShouldProduce(rs, head) == rs # <<>> \/ head.receipts # <<>>

\* ReceiptPool::flush, with the purge, and the decision to produce.  When
\* nothing is due the mutex is released; the purge has been done all the same.
Flush ==
    /\ phase = "serving"
    /\ txids' = Unpurged(txids)
    /\ receipts' = <<>>
    /\ IF ShouldProduce(receipts, ChainHead)
       THEN phase' = "producing" /\ flushed' = receipts
       ELSE UNCHANGED <<phase, flushed>>
    /\ UNCHANGED <<now, high, stamp, disk, indexed, scan, current_time, keyIsMinter,
                   restarts>>

\* BlockV0::new_child: the timestamp is the clock's, whatever the head's is.
NewChild(time) == [timestamp |-> time, receipts |-> flushed]

\* Mutant: the record is taken in whatever its height.
FollowsAlways(h) == TRUE

\* reindex_blocks takes a record in behind those of log when the last height is
\* 0 or the one below the record's.
Follows(h) == Len(log) - 1 = 0 \/ h = Len(log)

\* insert_block accepts the block and BlockStore::insert has written it at the
\* end of the log; the index knows nothing of it.
WriteBlock ==
    /\ phase = "producing"
    /\ keyIsMinter
    /\ stamp' = now
    /\ IF behind = "nothing" /\ Follows(Height + 1)
       THEN log' = Append(log, NewChild(now)) /\ UNCHANGED behind
       ELSE behind' = "records" /\ UNCHANGED log
    /\ phase' = "inserted"
    /\ UNCHANGED <<now, high, txids, receipts, flushed, chain, indexed, scan,
                   current_time, keyIsMinter, restarts>>

\* batch.commit(), atomic; then the mutex is released.  An owner transaction in
\* the block moves the minter role away from the configured key.
CommitBlock ==
    /\ phase = "inserted"
    /\ chain' = Append(chain, NewChild(stamp))
    /\ flushed' = <<>>
    /\ stamp' = 0
    /\ phase' = "serving"
    /\ keyIsMinter' = (Contents(flushed) \cap OwnerTxs = {})
    /\ UNCHANGED <<now, high, txids, receipts, log, behind, indexed, scan,
                   current_time, restarts>>

\* verify_block refuses a block not signed by the minter of the owner tx: the
\* unwrap in start_production_loop panics and the panic hook aborts.
ProduceFails ==
    /\ phase = "producing"
    /\ ~keyIsMinter
    /\ phase' = "stopped"
    /\ receipts' = <<>>
    /\ flushed' = <<>>
    /\ restarts' = restarts + 1
    /\ UNCHANGED <<now, high, txids, stamp, disk, indexed, scan, current_time,
                   keyIsMinter>>

-----------------------------------------------------------------------------
(* Process death and restart.  Memory is lost, the index and the log stay: *)
(* a block that was written and not committed stays in the log.            *)

Crash ==
    /\ phase # "stopped"
    /\ phase = "rebuilding" => AllowRebuildCrash
    /\ restarts < MaxRestarts
    /\ phase' = "stopped"
    /\ receipts' = <<>>
    /\ flushed' = <<>>
    /\ stamp' = 0
    /\ restarts' = restarts + 1
    /\ UNCHANGED <<now, high, txids, disk, indexed, scan, current_time,
                   keyIsMinter>>

\* The crash hits write_to_disk: part of the record is at the end of the log.
CrashWriting ==
    /\ phase = "producing"
    /\ keyIsMinter
    /\ restarts < MaxRestarts
    /\ behind' = IF behind = "records" THEN "records" ELSE "torn"
    /\ phase' = "stopped"
    /\ receipts' = <<>>
    /\ flushed' = <<>>
    /\ restarts' = restarts + 1
    /\ UNCHANGED <<now, high, txids, stamp, chain, log, indexed, scan, current_time,
                   keyIsMinter>>

\* start with a complete index.  Minter::new asserts that the configured key
\* is the minter, so the operator has put the right one in the configuration.
Restart ==
    /\ phase = "stopped"
    /\ indexed
    /\ phase' = "serving"
    /\ keyIsMinter' = TRUE
    /\ UNCHANGED <<now, high, txids, receipts, flushed, stamp, disk, indexed, scan,
                   current_time, restarts>>

\* --reindex removes the index directory, the tx_expiry family with it.
DeleteIndex ==
    /\ AllowReindex
    /\ phase = "stopped"
    /\ indexed' = FALSE
    /\ txids' = {}
    /\ UNCHANGED <<now, high, phase, receipts, flushed, stamp, disk, scan,
                   current_time, keyIsMinter, restarts>>

\* Mutant: the rebuild starts one block below the head.
ReindexBlocksBelowHead ==
    /\ phase = "stopped"
    /\ ~indexed
    /\ chain' = log
    /\ behind' \in {"nothing"} \cup ({behind} \ {"records"})
    /\ indexed' = TRUE
    /\ phase' = "rebuilding"
    /\ scan' = IF Len(log) > 1 THEN Len(log) - 2 ELSE 0
    /\ current_time' = now
    /\ UNCHANGED <<now, high, txids, receipts, flushed, stamp, log, keyIsMinter,
                   restarts>>

\* reindex up to the end of reindex_blocks, which cuts off what it does not take
\* in, commits the rest and marks the index Complete; then the clock is read,
\* once for the whole rebuild.  Less than a header at the end of the log is not
\* cut off.  Without --auto-trim a reindex that has something to cut off panics,
\* and so may one that trips over the checksum; nothing has changed then.  A
\* crash before the end leaves the index None and is a DeleteIndex again.
ReindexBlocks ==
    /\ phase = "stopped"
    /\ ~indexed
    /\ chain' = log
    /\ behind' \in {"nothing"} \cup ({behind} \ {"records"})
    /\ indexed' = TRUE
    /\ phase' = "rebuilding"
    /\ scan' = Len(log) - 1
    /\ current_time' = now
    /\ UNCHANGED <<now, high, txids, receipts, flushed, stamp, log, keyIsMinter,
                   restarts>>

\* current_time - block.timestamp() in u64 arithmetic.
Age(block) ==
    LET age == current_time - block.timestamp
    IN  IF age >= 0 THEN age ELSE age + U64

\* insert_txid for every receipt of the block that has not expired.
Unexpired(block) == {tx \in Contents(block.receipts) : Expiry[tx] > current_time}

\* One round of the rebuild loop of reindex, from the head down; a block that
\* is old enough ends the loop, and so does the genesis block.
RebuildBlock ==
    /\ phase = "rebuilding"
    /\ LET block  == chain[scan + 1]
           recent == Age(block) <= TX_MAX_EXPIRY_TIME
       IN  /\ txids' = IF recent THEN txids \cup Unexpired(block) ELSE txids
           /\ IF recent /\ scan > 0
              THEN scan' = scan - 1 /\ UNCHANGED <<phase, keyIsMinter>>
              ELSE scan' = 0 /\ phase' = "serving" /\ keyIsMinter' = TRUE
    /\ UNCHANGED <<now, high, receipts, flushed, stamp, disk, indexed, current_time,
                   restarts>>

-----------------------------------------------------------------------------
Next ==
    \/ Tick
    \/ SetClockBack
    \/ \E tx \in Txs : Push(tx)
    \/ Flush
    \/ WriteBlock
    \/ CommitBlock
    \/ ProduceFails
    \/ Crash
    \/ CrashWriting
    \/ Restart
    \/ DeleteIndex
    \/ ReindexBlocks
    \/ RebuildBlock

Spec == Init /\ [][Next]_vars

\* The production timer fires again and again, and a produce that has taken
\* the mutex runs to its end.
Fairness ==
    /\ WF_vars(Flush)
    /\ WF_vars(WriteBlock)
    /\ WF_vars(CommitBlock)
    /\ WF_vars(ProduceFails)

FairSpec == Spec /\ Fairness

-----------------------------------------------------------------------------
(* Properties.                                                             *)

TypeOK ==
    /\ now \in Nat /\ high \in Nat /\ StartTime <= high
    /\ phase \in Phases
    /\ txids \subseteq AllTxs
    /\ receipts \in Seq(Txs)
    /\ flushed \in Seq(Txs)
    /\ stamp \in Nat
    /\ chain \in Seq(Blocks) /\ Len(chain) > 0
    /\ log \in Seq(Blocks) /\ Len(log) > 0
    /\ behind \in Behinds
    /\ indexed \in BOOLEAN
    /\ scan \in 0..Height
    /\ current_time \in Nat
    /\ keyIsMinter \in BOOLEAN
    /\ restarts \in Nat

Distinct(s) == \A i, j \in DOMAIN s : s[i] = s[j] => i = j

NoRepeats(blocks) ==
    /\ \A i \in DOMAIN blocks : Distinct(blocks[i].receipts)
    /\ \A i, j \in DOMAIN blocks :
          i # j => Contents(blocks[i].receipts) \cap Contents(blocks[j].receipts) = {}

\* No transaction executes twice: none appears twice in a block, in two blocks,
\* or in a block and in the pool or in what produce is about to insert.  This
\* is what the TxDupe check of ReceiptPool::push is for, across purges, clock
\* adjustments, crashes and reindexing.
NoReplay ==
    /\ Distinct(receipts)
    /\ Distinct(flushed)
    /\ NoRepeats(chain)
    /\ \A i \in DOMAIN chain :
          Contents(chain[i].receipts) \cap (Contents(flushed) \cup Contents(receipts)) = {}
    /\ Contents(flushed) \cap Contents(receipts) = {}

\* The id of tx is in the index, or no clock reading that is still possible
\* lets push pass its expiry check.
Remembered(tx) == tx \in txids \/ Expiry[tx] <= high - ClockSlack

\* Whenever a process with a complete index runs or may start, every executed
\* transaction is remembered: neither purge_expired_txids nor the rebuild of
\* reindex, which stops at the first old block, forgets one that push would
\* still accept.
ExecutedAreRemembered ==
    indexed /\ phase # "rebuilding" =>
        \A tx \in Executed \cap Txs : Remembered(tx)

\* A receipt in the pool reaches a block, unless the process dies first:
\* produce loses none of the receipts that flush takes out of the pool.
AcceptedReachesChain ==
    \A tx \in Txs :
        tx \in Contents(receipts) ~> (tx \in OnChain \/ phase = "stopped")

\* The tip of the chain ends up without receipts (the comment on finality in
\* Minter::produce): a head with receipts is followed by another block,
\* whether or not a client sends anything more, unless the process dies.
TipSettles ==
    \A n \in 1..(2 * Cardinality(Txs) + 1) :
        (Len(chain) = n /\ ChainHead.receipts # <<>> /\ phase = "serving")
            ~> (Len(chain) > n \/ phase = "stopped")

-----------------------------------------------------------------------------
(* The abstract specification this one implements.                         *)

\* The accepted transactions no block holds yet: in the pool, or taken out of
\* it by produce, which holds the mutex until they are in a block or lost.
Pending == IF phase \in {"producing", "inserted"} THEN flushed ELSE receipts

Receipts(blocks) == [i \in DOMAIN blocks |-> blocks[i].receipts]

\* A reindex of the log would leave the chain as it is, or as it is going to be
\* when the block being inserted is committed.
LogIsChain == behind = "nothing" /\ (phase = "inserted" \/ log = chain)

Fork == IF LogIsChain THEN <<>> ELSE <<Receipts(log)>>

Once == INSTANCE OnceLog
          WITH blocks <- Receipts(chain), pending <- Pending, fork <- Fork

\* Seen from outside, push, the production timer, crashes, purges, clock
\* adjustments and reindexing are a log that accepts each transaction at most
\* once and turns everything accepted, in that order, into the next block or
\* loses all of it.  Only a reindex changes blocks, and only after a crash has
\* hit an insertion: to the chain at that crash, with or without the block
\* being inserted (ReceiptPool::push and flush, Minter::produce,
\* Blockchain::insert_block and reindex, BlockStore::reindex_blocks).
OnceSpec == Once!Spec

-----------------------------------------------------------------------------
(* The inductive invariant behind NoReplay, proved in ReceiptPoolProofs.   *)

\* The environments in which replay is excluded: without reindexing the clock
\* may be set back by up to TX_EXPIRY_ADJUSTMENT; with reindexing it may not be
\* set back at all, and no crash may hit the rebuild of the expiry index.
SafeEnvironment == AllowReindex => ClockSlack = 0 /\ ~AllowRebuildCrash

ClockInv == high - ClockSlack <= now /\ now <= high

\* Where receipts may be in each phase; only a stopped process lacks an index.
PhaseInv ==
    /\ phase # "serving" => receipts = <<>>
    /\ phase \notin {"producing", "inserted"} => flushed = <<>>
    /\ phase # "stopped" => indexed
    /\ ~AllowReindex => indexed /\ phase # "rebuilding"

\* What lets the rebuild stop at the first old block: timestamps grow along
\* the chain, and no transaction of a block outlives its timestamp by more
\* than TX_MAX_EXPIRY_TIME.
Timestamps(blocks) ==
    /\ \A i \in DOMAIN blocks : blocks[i].timestamp <= now
    /\ \A i, j \in DOMAIN blocks : i <= j => blocks[i].timestamp <= blocks[j].timestamp
    /\ \A i \in DOMAIN blocks : \A tx \in Contents(blocks[i].receipts) \cap Txs :
          Expiry[tx] <= blocks[i].timestamp + TX_MAX_EXPIRY_TIME

\* It is so in the chain and in the log, with the block being inserted too.
TimestampInv ==
    AllowReindex =>
        /\ Timestamps(chain)
        /\ Timestamps(log)
        /\ \A tx \in Contents(receipts) \cup Contents(flushed) :
              Expiry[tx] <= now + TX_MAX_EXPIRY_TIME
        /\ phase = "inserted" =>
              /\ stamp <= now
              /\ \A i \in DOMAIN chain : chain[i].timestamp <= stamp
              /\ \A tx \in Contents(flushed) : Expiry[tx] <= stamp + TX_MAX_EXPIRY_TIME
        /\ phase = "rebuilding" =>
              /\ current_time <= now
              /\ \A i \in DOMAIN chain : chain[i].timestamp <= current_time

\* The log, as far as reindex_blocks takes it in, is the chain, or the chain and
\* the block being inserted or left behind by a crash, unless other bytes follow:
\* then nothing is added to it any more.
LogInv ==
    behind = "nothing" =>
        IF phase = "inserted" THEN log = Append(chain, NewChild(stamp))
        ELSE log = chain \/ \E i \in DOMAIN log : log = Append(chain, log[i])

\* No transaction is twice in the blocks a reindex would take in.
LogNoReplay == AllowReindex => NoRepeats(log)

\* The blocks the rebuild has passed are remembered.
RebuildInv ==
    phase = "rebuilding" =>
        \A i \in DOMAIN chain : i > scan + 1 =>
            \A tx \in Contents(chain[i].receipts) \cap Txs : Remembered(tx)

IInv ==
    /\ TypeOK
    /\ ClockInv
    /\ PhaseInv
    /\ TimestampInv
    /\ LogInv
    /\ RebuildInv
    /\ ExecutedAreRemembered
    /\ NoReplay
    /\ LogNoReplay

============================================================================
