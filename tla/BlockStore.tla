----------------------------- MODULE BlockStore -----------------------------
(***************************************************************************)
(* The append-only block log, the index that says where each block lies in *)
(* it, the block cache, and the life of a node around them: creation of    *)
(* the genesis block, insertion, crashes, restart, reindexing.             *)
(*                                                                         *)
(* Sources: blockchain/store.rs (BlockStore), blockchain/mod.rs (reindex,  *)
(* insert_block, create_genesis_block), blockchain/index.rs (WriteBatch),  *)
(* server/lib.rs (start), bin/server/main.rs (--reindex).                  *)
(*                                                                         *)
(* The log is a sequence of records and a byte position is the number of   *)
(* a record.  A record is full, or it is what a write interrupted by a     *)
(* crash left: less than the 8 bytes of length and CRC ("header"), or      *)
(* those and a part of the block ("body").  Records are appended behind    *)
(* such bytes, since the log is opened for appending.                      *)
(*                                                                         *)
(* A crash is the death of the process: what was written stays written.    *)
(***************************************************************************)
EXTENDS Integers, Sequences, FiniteSets

CONSTANTS
    MAX_CACHE_SIZE,   \* blocks kept in memory
    None,             \* Rust's None
    Tears,            \* environment: which interrupted insertions happen
    CarefulOperator,  \* environment: see StartReindex
    MaxBlocks,        \* bound on the number of blocks ever made
    MaxCrashes        \* bound on the number of crashes

ASSUME StoreAssumption ==
    /\ MAX_CACHE_SIZE \in Nat \ {0}
    /\ MaxBlocks \in Nat /\ MaxCrashes \in Nat
    /\ Tears \subseteq {"header", "body", "full"}
    /\ CarefulOperator \in BOOLEAN

\* None is no block.
ASSUME NoneAssumption == None \notin [height : Nat, id : Nat \ {0}, parent : Nat]

VARIABLES
    log,        \* the file blklog
    status,     \* index: index_status
    idxHeight,  \* index: chain height
    idxPos,     \* index: block_byte_pos, height to position
    phase,      \* what the process is doing, see Phases
    height,     \* BlockStore.height
    blocks,     \* BlockStore.blocks, the cache
    genesis,    \* BlockStore.genesis_block
    tail,       \* BlockStore.byte_pos_tail
    batch,      \* the WriteBatch not yet committed: positions by height
    pos,        \* reindex_blocks: where it reads next
    lastGood,   \* reindex_blocks: last_known_good_height
    autoTrim,   \* ReindexOpts.auto_trim
    made,       \* number of blocks made, gives each its identity
    committed,  \* history: the blocks the index has held, by height
    dirty,      \* history: the operator has started over an unfinished record
    panic,      \* history: why a start on a chain panicked, "" if none did
    crashes     \* number of crashes

disk == <<log, status, idxHeight, idxPos>>
memory == <<height, blocks, genesis, tail, batch, pos, lastGood, autoTrim>>
history == <<made, committed, dirty, panic, crashes>>
vars == <<disk, phase, memory, history>>

(***************************************************************************)
(* stopped     the process is not running                                  *)
(* genesis     create_genesis_block, about to write the block              *)
(* genesisWritten, genesisIndexed   the same, after its two further writes *)
(* serving     the node is up                                              *)
(* inserted    insert_block, between the write to the log and the commit   *)
(* reindexing  in the loop of reindex_blocks                               *)
(* reindexed   behind that loop, before the commit                         *)
(* completing  the batch is committed, the status not yet Complete         *)
(***************************************************************************)
Phases == {"stopped", "genesis", "genesisWritten", "genesisIndexed", "serving",
           "inserted", "reindexing", "reindexed", "completing"}

\* A block: its height, its identity and the identity of the block it extends.
Block(h, id, parent) == [height |-> h, id |-> id, parent |-> parent]

Record(kind, block) == [kind |-> kind, block |-> block]

-----------------------------------------------------------------------------
(* Functions as maps.                                                      *)

EmptyMap == [h \in {} |-> 0]

Merge(f, g) == [h \in DOMAIN f \cup DOMAIN g |->
                    IF h \in DOMAIN g THEN g[h] ELSE f[h]]

Put(f, k, v) == [h \in DOMAIN f \cup {k} |-> IF h = k THEN v ELSE f[h]]

Without(f, k) == [h \in DOMAIN f \ {k} |-> f[h]]

-----------------------------------------------------------------------------
(* Reading.                                                                *)

FileEnd == Len(log) + 1

(***************************************************************************)
(* What raw_read_from_disk may find at p.  Bytes of an unfinished record   *)
(* are read together with whatever follows them: too few bytes for the     *)
(* header are an end of file, too few for the length read are a corrupt    *)
(* block, and enough bytes fail the CRC, which is an assertion.            *)
(***************************************************************************)
ReadOutcomes(p) ==
    IF p >= FileEnd THEN {"Eof"}
    ELSE CASE log[p].kind = "full" -> {"Ok"}
           [] log[p].kind = "body" ->
                IF p = Len(log) THEN {"CorruptBlock"} ELSE {"CorruptBlock", "panic"}
           [] log[p].kind = "header" ->
                IF p = Len(log) THEN {"Eof"}
                ELSE IF \A q \in p..Len(log) : log[q].kind = "header"
                THEN {"Eof", "CorruptBlock"}
                ELSE {"CorruptBlock", "panic"}

\* raw_read_from_disk(p).ok() where no assertion fails.
RawRead(p) == IF ReadOutcomes(p) = {"Ok"} THEN log[p].block ELSE None

\* read_from_disk with the index (p, top) and the height the store holds.
ReadFromDisk(p, top, h) ==
    IF h > top \/ h \notin DOMAIN p THEN None ELSE RawRead(p[h])

\* BlockStore::get.
Get(h) ==
    IF h > height THEN None
    ELSE IF h = 0 /\ genesis # None THEN genesis
    ELSE IF h \in DOMAIN blocks THEN blocks[h]
    ELSE ReadFromDisk(idxPos, height, h)

-----------------------------------------------------------------------------
(* init_state, for the index (p, top, st): the heights it loads into the   *)
(* cache, one more than MAX_CACHE_SIZE; it panics if one cannot be read.   *)

CacheHeights(top) == {h \in 0..top : h >= top - MAX_CACHE_SIZE}

InitCache(p, top) == [h \in CacheHeights(top) |-> ReadFromDisk(p, top, h)]

InitReadable(p, top, st) ==
    log # <<>> /\ st = "Complete" =>
        \A h \in CacheHeights(top) : ReadFromDisk(p, top, h) # None

InitState(p, top, st) ==
    /\ height' = top
    /\ genesis' = ReadFromDisk(p, top, 0)
    /\ blocks' = IF log # <<>> /\ st = "Complete" THEN InitCache(p, top) ELSE EmptyMap

-----------------------------------------------------------------------------
Init ==
    /\ log = <<>> /\ status = "None" /\ idxHeight = 0 /\ idxPos = EmptyMap
    /\ phase = "stopped"
    /\ height = 0 /\ blocks = EmptyMap /\ genesis = None /\ tail = 1
    /\ batch = EmptyMap /\ pos = 1 /\ lastGood = 0 /\ autoTrim = FALSE
    /\ made = 0 /\ committed = <<>> /\ dirty = FALSE /\ panic = "" /\ crashes = 0

-----------------------------------------------------------------------------
(* Creation of the genesis block, when start finds the log empty.          *)

\* insert_genesis: the write.
WriteGenesis ==
    /\ phase = "genesis"
    /\ made < MaxBlocks
    /\ LET block == Block(0, made + 1, 0)
       IN  /\ log' = Append(log, Record("full", block))
           /\ genesis' = block
    /\ batch' = Put(EmptyMap, 0, 1)
    /\ tail' = tail + 1
    /\ made' = made + 1
    /\ phase' = "genesisWritten"
    /\ UNCHANGED <<status, idxHeight, idxPos, height, blocks, pos, lastGood,
                   autoTrim, committed, dirty, panic, crashes>>

\* batch.commit().  The chain height is not part of this batch.
CommitGenesis ==
    /\ phase = "genesisWritten"
    /\ idxPos' = Merge(idxPos, batch)
    /\ batch' = EmptyMap
    /\ committed' = <<genesis>>
    /\ phase' = "genesisIndexed"
    /\ UNCHANGED <<log, status, idxHeight, height, blocks, genesis, tail, pos,
                   lastGood, autoTrim, made, dirty, panic, crashes>>

\* set_index_status(Complete); the node goes on to serve.
CompleteGenesis ==
    /\ phase = "genesisIndexed"
    /\ status' = "Complete"
    /\ phase' = "serving"
    /\ UNCHANGED <<log, idxHeight, idxPos, memory, history>>

-----------------------------------------------------------------------------
(* Blockchain::insert_block with a block made on top of the chain head.    *)

\* Mutant: the eviction is off by one.
CacheInsertOffByOne(h, block) ==
    LET grown == Put(blocks, h, block)
    IN  IF Cardinality(DOMAIN grown) > MAX_CACHE_SIZE
        THEN Without(grown, h - MAX_CACHE_SIZE + 1)
        ELSE grown

\* BlockStore::insert on the cache.
CacheInsert(h, block) ==
    LET grown == Put(blocks, h, block)
    IN  IF Cardinality(DOMAIN grown) > MAX_CACHE_SIZE
        THEN Without(grown, h - MAX_CACHE_SIZE)
        ELSE grown

\* Mutant: the position is taken after the write.
InsertWriteAtEnd ==
    /\ phase = "serving"
    /\ made < MaxBlocks
    /\ LET h     == height + 1
           block == Block(h, made + 1, Get(height).id)
       IN  /\ log' = Append(log, Record("full", block))
           /\ height' = h
           /\ batch' = Put(EmptyMap, h, tail + 1)
           /\ blocks' = CacheInsert(h, block)
    /\ tail' = tail + 1
    /\ made' = made + 1
    /\ phase' = "inserted"
    /\ UNCHANGED <<status, idxHeight, idxPos, genesis, pos, lastGood, autoTrim,
                   committed, dirty, panic, crashes>>

\* The block is in the log and in memory, and readers see it, before the index
\* knows of it.
InsertWrite ==
    /\ phase = "serving"
    /\ made < MaxBlocks
    /\ LET h     == height + 1
           block == Block(h, made + 1, Get(height).id)
       IN  /\ log' = Append(log, Record("full", block))
           /\ height' = h
           /\ batch' = Put(EmptyMap, h, tail)
           /\ blocks' = CacheInsert(h, block)
    /\ tail' = tail + 1
    /\ made' = made + 1
    /\ phase' = "inserted"
    /\ UNCHANGED <<status, idxHeight, idxPos, genesis, pos, lastGood, autoTrim,
                   committed, dirty, panic, crashes>>

\* batch.commit(), atomic.
InsertCommit ==
    /\ phase = "inserted"
    /\ idxPos' = Merge(idxPos, batch)
    /\ idxHeight' = height
    /\ batch' = EmptyMap
    /\ committed' = Append(committed, Get(height))
    /\ phase' = "serving"
    /\ UNCHANGED <<log, status, height, blocks, genesis, tail, pos, lastGood,
                   autoTrim, made, dirty, panic, crashes>>

-----------------------------------------------------------------------------
(* Process death.                                                          *)

Die ==
    /\ phase' = "stopped"
    /\ height' = 0 /\ blocks' = EmptyMap /\ genesis' = None /\ tail' = 1
    /\ batch' = EmptyMap /\ pos' = 1 /\ lastGood' = 0 /\ autoTrim' = FALSE

\* A panic on start is on record once there is a chain to lose.
RecordPanic(why) == panic' = IF committed = <<>> THEN panic ELSE why

\* A block was written and its index entries were not.
Orphaning == phase \in {"genesisWritten", "inserted"}

Crash ==
    /\ phase # "stopped"
    /\ crashes < MaxCrashes
    /\ Orphaning => "full" \in Tears
    /\ Die
    /\ crashes' = crashes + 1
    /\ UNCHANGED <<disk, made, committed, dirty, panic>>

\* ctrl-c: the runtime is dropped, after the insertion it may be in.
Shutdown ==
    /\ phase = "serving"
    /\ Die
    /\ UNCHANGED <<disk, history>>

\* The crash hits write_to_disk, which writes the header and then the block.
CrashWriting(tear) ==
    /\ phase \in {"genesis", "serving"}
    /\ made < MaxBlocks
    /\ crashes < MaxCrashes
    /\ log' = Append(log, Record(tear, None))
    /\ Die
    /\ made' = made + 1
    /\ crashes' = crashes + 1
    /\ UNCHANGED <<status, idxHeight, idxPos, committed, dirty, panic>>

-----------------------------------------------------------------------------
(* start.                                                                  *)

\* The log ends with the last block the index knows of.
TailClean == log = <<>> \/ \E h \in DOMAIN idxPos : idxPos[h] = Len(log)

\* Mutant: the tail is put behind the last block the index knows of.
StartAtIndexedTail ==
    /\ phase = "stopped"
    /\ log = <<>> \/ status = "Complete"
    /\ InitReadable(idxPos, idxHeight, status)
    /\ InitState(idxPos, idxHeight, status)
    /\ tail' = IF idxHeight \in DOMAIN idxPos THEN idxPos[idxHeight] + 1 ELSE 1
    /\ phase' = IF log = <<>> THEN "genesis" ELSE "serving"
    /\ dirty' = (dirty \/ ~TailClean)
    /\ UNCHANGED <<disk, batch, pos, lastGood, autoTrim, made, committed, panic, crashes>>

\* Without --reindex: a complete index, or an empty log and a new chain.  A log
\* with an incomplete index panics and changes nothing.
Start ==
    /\ phase = "stopped"
    /\ log = <<>> \/ status = "Complete"
    /\ InitReadable(idxPos, idxHeight, status)
    /\ InitState(idxPos, idxHeight, status)
    /\ tail' = FileEnd
    /\ phase' = IF log = <<>> THEN "genesis" ELSE "serving"
    /\ dirty' = (dirty \/ ~TailClean)
    /\ UNCHANGED <<disk, batch, pos, lastGood, autoTrim, made, committed, panic, crashes>>

\* BlockStore::new panics while it fills the cache.
StartPanics ==
    /\ phase = "stopped"
    /\ ~InitReadable(idxPos, idxHeight, status)
    /\ RecordPanic("unreadable")
    /\ UNCHANGED <<disk, phase, memory, made, committed, dirty, crashes>>

\* With --reindex: the index directory is removed first.  A careful operator
\* reindexes with trimming after a crash that interrupted an insertion, and does
\* not reindex a log to which blocks were added behind an unfinished record.
StartReindex(trim) ==
    /\ phase = "stopped"
    /\ log # <<>>
    /\ CarefulOperator => ~dirty /\ (trim \/ TailClean)
    /\ status' = "None" /\ idxHeight' = 0 /\ idxPos' = EmptyMap
    /\ InitState(EmptyMap, 0, "None")
    /\ tail' = FileEnd
    /\ autoTrim' = trim
    /\ phase' = "reindexing"
    /\ UNCHANGED <<log, batch, pos, lastGood, history>>

-----------------------------------------------------------------------------
(* reindex: the loop of reindex_blocks, one record at a time.              *)

\* Mutant: the first block is not excepted.
HeightFollowsAlways(h) == h = lastGood + 1

HeightFollows(h) == lastGood = 0 \/ h = lastGood + 1

Panic(why) ==
    /\ Die
    /\ RecordPanic(why)
    /\ UNCHANGED <<disk, made, committed, dirty, crashes>>

\* Mutants: the last good block is cut off too; trimming is never done.
TruncateTooMuch ==
    IF autoTrim
    THEN /\ log' = SubSeq(log, 1, pos - 2)
         /\ tail' = pos - 1
         /\ phase' = "reindexed"
         /\ UNCHANGED <<status, idxHeight, idxPos, height, blocks, genesis, batch,
                        pos, lastGood, autoTrim, history>>
    ELSE Panic("noTrim")

NeverTruncate == Panic("noTrim")

\* f.set_len(pos), or a panic when trimming is off.
TruncateOrPanic ==
    IF autoTrim
    THEN /\ log' = SubSeq(log, 1, pos - 1)
         /\ tail' = pos
         /\ phase' = "reindexed"
         /\ UNCHANGED <<status, idxHeight, idxPos, height, blocks, genesis, batch,
                        pos, lastGood, autoTrim, history>>
    ELSE Panic("noTrim")

\* The record is a block of the expected height: index it.
ReindexBlock ==
    /\ phase = "reindexing"
    /\ "Ok" \in ReadOutcomes(pos)
    /\ HeightFollows(log[pos].block.height)
    /\ batch' = Put(batch, log[pos].block.height, pos)
    /\ lastGood' = log[pos].block.height
    /\ pos' = pos + 1
    /\ UNCHANGED <<disk, phase, height, blocks, genesis, tail, autoTrim, history>>

ReindexBadHeight ==
    /\ phase = "reindexing"
    /\ "Ok" \in ReadOutcomes(pos)
    /\ ~HeightFollows(log[pos].block.height)
    /\ TruncateOrPanic

ReindexCorrupt ==
    /\ phase = "reindexing"
    /\ "CorruptBlock" \in ReadOutcomes(pos)
    /\ TruncateOrPanic

ReindexEof ==
    /\ phase = "reindexing"
    /\ "Eof" \in ReadOutcomes(pos)
    /\ phase' = "reindexed"
    /\ UNCHANGED <<disk, memory, history>>

ReindexBadCrc ==
    /\ phase = "reindexing"
    /\ "panic" \in ReadOutcomes(pos)
    /\ Panic("crc")

\* batch.commit(): set_chain_height was called for every block.
ReindexCommit ==
    /\ phase = "reindexed"
    /\ idxPos' = Merge(idxPos, batch)
    /\ idxHeight' = lastGood
    /\ batch' = EmptyMap
    /\ phase' = "completing"
    /\ UNCHANGED <<log, status, height, blocks, genesis, tail, pos, lastGood,
                   autoTrim, history>>

\* set_index_status(Complete), init_state, and the reads of the expiry rebuild,
\* which unwraps every block down to genesis.
ReindexComplete ==
    /\ phase = "completing"
    /\ status' = "Complete"
    /\ IF 0 \in DOMAIN idxPos /\ InitReadable(idxPos, idxHeight, "Complete")
       THEN /\ InitState(idxPos, idxHeight, "Complete")
            /\ phase' = "serving"
            /\ committed' = [i \in 1..(idxHeight + 1) |->
                                ReadFromDisk(idxPos, idxHeight, i - 1)]
            /\ dirty' = (dirty /\ ~autoTrim)
            /\ pos' = 1 /\ lastGood' = 0 /\ autoTrim' = FALSE
            /\ UNCHANGED <<tail, batch, panic>>
       ELSE /\ Die
            /\ RecordPanic(IF log = <<>> THEN "noGenesis" ELSE "unreadable")
            /\ UNCHANGED <<committed, dirty>>
    /\ UNCHANGED <<log, idxHeight, idxPos, made, crashes>>

-----------------------------------------------------------------------------
Next ==
    \/ WriteGenesis \/ CommitGenesis \/ CompleteGenesis
    \/ InsertWrite \/ InsertCommit
    \/ Crash \/ Shutdown
    \/ \E tear \in Tears \ {"full"} : CrashWriting(tear)
    \/ Start \/ StartPanics
    \/ \E trim \in BOOLEAN : StartReindex(trim)
    \/ ReindexBlock \/ ReindexBadHeight \/ ReindexCorrupt \/ ReindexEof
    \/ ReindexBadCrc \/ ReindexCommit \/ ReindexComplete

Spec == Init /\ [][Next]_vars

\* A running process goes on, and an operator starts a stopped node: plainly,
\* or with --reindex when that is what it takes.  Insertions and crashes need
\* not happen.
Fairness ==
    /\ WF_vars(WriteGenesis) /\ WF_vars(CommitGenesis) /\ WF_vars(CompleteGenesis)
    /\ WF_vars(InsertCommit)
    /\ WF_vars(Start) /\ WF_vars(StartReindex(TRUE))
    /\ WF_vars(ReindexBlock) /\ WF_vars(ReindexBadHeight) /\ WF_vars(ReindexCorrupt)
    /\ WF_vars(ReindexEof) /\ WF_vars(ReindexBadCrc) /\ WF_vars(ReindexCommit)
    /\ WF_vars(ReindexComplete)

FairSpec == Spec /\ Fairness

-----------------------------------------------------------------------------
(* Properties.                                                             *)

BlockSet == [height : Nat, id : Nat \ {0}, parent : Nat]

RecordSet == [kind : {"full"}, block : BlockSet] \cup [kind : {"header", "body"}, block : {None}]

\* The end of the log as the store remembers it is where the file ends, so that
\* the next record is written behind the last one.
StoreTypes ==
    /\ log \in Seq(RecordSet)
    /\ status \in {"None", "Complete"}
    /\ idxHeight \in Nat
    /\ DOMAIN idxPos \subseteq Nat /\ \A h \in DOMAIN idxPos : idxPos[h] \in Nat \ {0}
    /\ phase \in Phases
    /\ height \in Nat
    /\ DOMAIN blocks \subseteq Nat /\ \A h \in DOMAIN blocks : blocks[h] \in BlockSet
    /\ genesis \in BlockSet \cup {None}
    /\ phase = "stopped" => tail = 1
    /\ phase # "stopped" => tail = FileEnd
    /\ DOMAIN batch \subseteq Nat /\ \A h \in DOMAIN batch : batch[h] \in Nat \ {0}
    /\ pos \in Nat \ {0} /\ lastGood \in Nat
    /\ made \in Nat /\ committed \in Seq(BlockSet)
    /\ crashes \in Nat

Panics == {"noTrim", "crc", "unreadable", "noGenesis"}

FlagTypes ==
    /\ autoTrim \in BOOLEAN /\ dirty \in BOOLEAN
    /\ panic = "" \/ panic \in Panics

\* Types of the variables.
TypeOK == StoreTypes /\ FlagTypes

Up == phase \in {"serving", "inserted"}

\* While the node is up, BlockStore::get answers every height up to the store's
\* with the block of that height, and each block extends the one below: the
\* unwrap in get_chain_head and the unreachable! in the block range stream are
\* safe, from the cache or from the log, between write and commit too.
EveryHeightReadable ==
    Up => \A h \in 0..height :
            /\ Get(h) # None
            /\ Get(h).height = h
            /\ h > 0 => Get(h).parent = Get(h - 1).id

\* The index of a node that is up, or that would start without reindexing,
\* finds every committed block at its recorded position in the log.
IndexFindsCommitted ==
    status = "Complete" /\ committed # <<>> =>
        /\ Len(committed) = idxHeight + 1
        /\ \A i \in DOMAIN committed :
              /\ i - 1 \in DOMAIN idxPos
              /\ RawRead(idxPos[i - 1]) = committed[i]

\* The cache holds the newest blocks, is at most one over its limit, and agrees
\* with the chain.  The two debug assertions of BlockStore::insert (the block is
\* new to the cache, the evicted one was there) follow from this.
CacheWindow ==
    Up =>
        /\ {h \in 1..height : h > height - MAX_CACHE_SIZE} \subseteq DOMAIN blocks
        /\ Cardinality(DOMAIN blocks) <= MAX_CACHE_SIZE + 1
        /\ \A h \in DOMAIN blocks : h <= height
        /\ \A h \in DOMAIN blocks : h < Len(committed) => blocks[h] = committed[h + 1]

\* A block that was committed stays at its height for good: no crash, restart
\* or reindex, trimming or not, removes or replaces it.
CommittedSurvives ==
    [][\A i \in DOMAIN committed :
          i \in DOMAIN committed' /\ committed'[i] = committed[i]]_vars

\* Once there is a chain, no start and no reindex ends in a panic about what
\* the block log holds.
StartsSucceed == panic = ""

\* Whatever the crashes left behind, the node serves again.
NodeComesBack == []<>Up

-----------------------------------------------------------------------------
(* The inductive invariants behind them, proved in BlockStoreProofs.       *)

FullAt(p) == p \in 1..Len(log) /\ log[p].kind = "full"

\* The first p records are blocks of consecutive heights, genesis first: what
\* reindex_blocks accepts.
ConsecutiveTo(p) == \A q \in 1..p : FullAt(q) /\ log[q].block.height = q - 1

\* Nothing in reindex_blocks looks at parents; that consecutive blocks at the
\* beginning of the log extend one another is due to how they were written.
\* The same goes for the height of the second record, which is not checked.
LogInv ==
    /\ FullAt(1) => log[1].block.height = 0
    /\ FullAt(1) /\ FullAt(2) => log[2].block.height = 1
    /\ \A p \in 2..Len(log) :
          ConsecutiveTo(p) => log[p].block.parent = log[p - 1].block.id

\* The index of a chain that was committed finds its blocks, each on top of the
\* one below; without one it is empty.  It never points at an unfinished record.
ChainInv ==
    /\ \A h \in DOMAIN idxPos : FullAt(idxPos[h])
    /\ committed # <<>> => FullAt(1)
    /\ log = <<>> => DOMAIN idxPos = {} /\ idxHeight = 0
    /\ status = "Complete" /\ committed = <<>> => DOMAIN idxPos = {} /\ idxHeight = 0
    /\ status = "Complete" /\ committed # <<>> =>
          /\ Len(committed) = idxHeight + 1
          /\ DOMAIN idxPos = 0..idxHeight
          /\ \A h \in 0..idxHeight :
                /\ FullAt(idxPos[h])
                /\ log[idxPos[h]].block = committed[h + 1]
                /\ committed[h + 1].height = h
          /\ \A h \in 1..idxHeight : committed[h + 1].parent = committed[h].id

\* The loop of reindex_blocks: the records behind it are consecutive, and the
\* batch has them all; it stops before the first one for a log without chain only.
ReindexInv ==
    /\ phase \in {"stopped", "genesis"} => DOMAIN batch = {} /\ pos = 1 /\ lastGood = 0
    /\ phase \in {"reindexing", "reindexed", "completing"} =>
          /\ status = "None"
          /\ pos \in 1..FileEnd
          /\ ConsecutiveTo(pos - 1)
          /\ lastGood = IF pos = 1 THEN 0 ELSE pos - 2
    /\ phase \in {"reindexing", "reindexed"} =>
          /\ DOMAIN idxPos = {} /\ idxHeight = 0
          /\ DOMAIN batch = 0..(pos - 2)
          /\ \A h \in 0..(pos - 2) : batch[h] = h + 1
    /\ phase = "completing" =>
          /\ idxHeight = lastGood
          /\ DOMAIN batch = {}
          /\ DOMAIN idxPos = 0..(pos - 2)
          /\ \A h \in 0..(pos - 2) : idxPos[h] = h + 1
    /\ phase \in {"reindexed", "completing"} /\ pos = 1 => committed = <<>>

\* What the steps of create_genesis_block and insert_block have done so far.
PhaseInv ==
    /\ phase = "genesis" => log = <<>>
    /\ phase \in {"genesis", "genesisWritten", "genesisIndexed"} =>
          height = 0 /\ idxHeight = 0 /\ DOMAIN blocks = {}
    /\ phase \in {"genesisWritten", "genesisIndexed"} =>
          Len(log) = 1 /\ FullAt(1) /\ genesis = log[1].block
    /\ phase = "genesisWritten" =>
          /\ committed = <<>> /\ DOMAIN idxPos = {}
          /\ DOMAIN batch = {0} /\ batch[0] = 1
    /\ phase = "genesisIndexed" =>
          /\ committed = <<genesis>> /\ DOMAIN idxPos = {0} /\ idxPos[0] = 1
    /\ Up => status = "Complete" /\ committed # <<>> /\ genesis = committed[1]
    /\ phase = "serving" => height = idxHeight
    /\ phase = "inserted" =>
          /\ height = idxHeight + 1
          /\ DOMAIN batch = {height} /\ batch[height] = Len(log)
          /\ FullAt(Len(log))
          /\ log[Len(log)].block.height = height
          /\ log[Len(log)].block.parent = committed[height].id
          /\ height \in DOMAIN blocks /\ blocks[height] = log[Len(log)].block

\* The newest MAX_CACHE_SIZE blocks, without genesis.
Window(top) == {h \in 1..top : h > top - MAX_CACHE_SIZE}

\* Heights hs are the window and at most one more: init_state loads a block
\* that no insertion evicts.
WindowAndOne(hs, top) ==
    \E older \in SUBSET (0..top) :
        /\ hs = Window(top) \cup older
        /\ \A g, h \in older : g = h

CacheInv ==
    Up =>
        /\ WindowAndOne(DOMAIN blocks, height)
        /\ \A h \in DOMAIN blocks : h <= idxHeight => blocks[h] = committed[h + 1]

StoreInv == TypeOK /\ LogInv /\ ChainInv /\ ReindexInv /\ PhaseInv /\ CacheInv

\* The environment in which committed blocks survive.
CarefulEnvironment == CarefulOperator /\ "header" \notin Tears

\* The log is the committed chain and at most one record more, which is cut off
\* or is the next block.
CleanLog ==
    /\ Len(log) = Len(committed) \/ Len(log) = Len(committed) + 1
    /\ \A i \in 1..Len(committed) :
          FullAt(i) /\ log[i].block = committed[i] /\ committed[i].height = i - 1
    /\ Len(log) = Len(committed) + 1 =>
          \/ log[Len(log)].kind = "body"
          \/ FullAt(Len(log)) /\ log[Len(log)].block.height = Len(committed)
    /\ phase \in {"genesis", "genesisIndexed", "serving"} => Len(log) = Len(committed)
    /\ phase \in {"reindexed", "completing"} => pos = FileEnd

AllFull == \A p \in 1..Len(log) : FullAt(p)

\* So it is as long as the operator has not gone on over an unfinished
\* insertion.  Reindexing without trimming meets full records only.
CarefulInv ==
    /\ phase \in {"reindexing", "reindexed", "completing"} => ~dirty
    /\ ~dirty => CleanLog
    /\ phase = "reindexing" /\ ~autoTrim => AllFull

=============================================================================
