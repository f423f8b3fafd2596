-------------------------- MODULE BlockStoreProofs --------------------------
(***************************************************************************)
(* Proofs about the block store, for every cache size, every number of     *)
(* blocks and crashes and every environment: what the store reads, what    *)
(* the index finds and what the cache holds follow from StoreInv, which    *)
(* every step preserves.  With a careful operator and no torn headers, the *)
(* committed blocks also survive and no start panics, by CarefulInv.       *)
(***************************************************************************)
EXTENDS BlockStore, FiniteSetTheorems, TLAPS

-----------------------------------------------------------------------------
(* Maps.                                                                   *)

\* The keys and values of the map of no keys and of two maps.
LEMMA EmptyMapFacts == DOMAIN EmptyMap = {}
  BY DEF EmptyMap

LEMMA MergeFacts ==
  ASSUME NEW f, NEW g
  PROVE  /\ DOMAIN Merge(f, g) = DOMAIN f \cup DOMAIN g
         /\ \A h \in DOMAIN g : Merge(f, g)[h] = g[h]
         /\ \A h \in DOMAIN f : h \notin DOMAIN g => Merge(f, g)[h] = f[h]
  BY DEF Merge

-----------------------------------------------------------------------------
(* Records, and what raw_read_from_disk makes of them.                     *)

\* A full record holds a block, which is not None.
LEMMA RecordFacts ==
  ASSUME log \in Seq(RecordSet), NEW p, FullAt(p)
  PROVE  /\ p \in 1..Len(log) /\ p \in Nat \ {0}
         /\ log[p].block \in BlockSet
         /\ log[p].block # None
         /\ log[p].block.height \in Nat
         /\ log[p].block.id \in Nat \ {0}
         /\ log[p].block.parent \in Nat
  <1>1. log[p] \in RecordSet /\ log[p].kind = "full" /\ p \in 1..Len(log) /\ p \in Nat \ {0}
    BY DEF FullAt
  <1>2. log[p].block \in BlockSet
    BY <1>1 DEF RecordSet
  <1> QED
    BY <1>1, <1>2, NoneAssumption DEF BlockSet

\* A full record is read.
LEMMA ReadFull ==
  ASSUME log \in Seq(RecordSet), NEW p, FullAt(p)
  PROVE  ReadOutcomes(p) = {"Ok"} /\ RawRead(p) = log[p].block
  <1>1. ReadOutcomes(p) = {"Ok"}
    BY DEF ReadOutcomes, FullAt, FileEnd
  <1> QED
    BY <1>1 DEF RawRead

\* Nothing else is.
LEMMA ReadOk ==
  ASSUME log \in Seq(RecordSet), NEW p \in Nat \ {0}, "Ok" \in ReadOutcomes(p)
  PROVE  FullAt(p)
  <1>1. p \in 1..Len(log)
    BY DEF ReadOutcomes, FileEnd
  <1>2. log[p] \in RecordSet
    BY <1>1
  <1>3. log[p].kind \in {"full", "header", "body"}
    BY <1>2 DEF RecordSet
  <1> QED
    BY <1>1, <1>3 DEF ReadOutcomes, FileEnd, FullAt

-----------------------------------------------------------------------------
(* How the log changes.                                                    *)

\* A record appended leaves the records before it where they are.
LEMMA AppendFacts ==
  ASSUME log \in Seq(RecordSet), NEW r \in RecordSet, log' = Append(log, r)
  PROVE  /\ log' \in Seq(RecordSet)
         /\ Len(log') = Len(log) + 1 /\ Len(log) \in Nat
         /\ log'[Len(log) + 1] = r
         /\ \A p \in 1..Len(log) : log'[p] = log[p]
         /\ \A p : FullAt(p) => FullAt(p)' /\ log'[p] = log[p]
         /\ \A p \in 1..Len(log) : FullAt(p)' => FullAt(p)
         /\ \A p \in 1..Len(log) : ConsecutiveTo(p)' <=> ConsecutiveTo(p)
  <1>1. /\ log' \in Seq(RecordSet)
        /\ Len(log') = Len(log) + 1 /\ Len(log) \in Nat
        /\ log'[Len(log) + 1] = r
        /\ \A p \in 1..Len(log) : log'[p] = log[p]
    OBVIOUS
  <1>2. \A p : FullAt(p) => FullAt(p)' /\ log'[p] = log[p]
    BY <1>1 DEF FullAt
  <1>3. \A p \in 1..Len(log) : FullAt(p)' => FullAt(p)
    BY <1>1 DEF FullAt
  <1>4. \A p \in 1..Len(log) : ConsecutiveTo(p)' <=> ConsecutiveTo(p)
    BY <1>1, <1>2, <1>3 DEF ConsecutiveTo
  <1> QED
    BY <1>1, <1>2, <1>3, <1>4

\* So does a cut for the records that stay.
LEMMA CutFacts ==
  ASSUME log \in Seq(RecordSet), NEW n \in 0..Len(log), log' = SubSeq(log, 1, n)
  PROVE  /\ log' \in Seq(RecordSet)
         /\ Len(log') = n /\ Len(log) \in Nat
         /\ \A p \in 1..n : log'[p] = log[p]
         /\ \A p \in 1..n : FullAt(p) <=> FullAt(p)'
         /\ \A p : FullAt(p)' => FullAt(p) /\ p \in 1..n
         /\ \A p \in 0..n : ConsecutiveTo(p)' <=> ConsecutiveTo(p)
  <1>1. /\ log' \in Seq(RecordSet)
        /\ Len(log') = n /\ Len(log) \in Nat
        /\ \A p \in 1..n : log'[p] = log[p]
    OBVIOUS
  <1>2. \A p \in 1..n : FullAt(p) <=> FullAt(p)'
    BY <1>1 DEF FullAt
  <1>3. \A p : FullAt(p)' => FullAt(p) /\ p \in 1..n
    BY <1>1 DEF FullAt
  <1>4. \A p \in 0..n : ConsecutiveTo(p)' <=> ConsecutiveTo(p)
    BY <1>1, <1>2 DEF ConsecutiveTo
  <1> QED
    BY <1>1, <1>2, <1>3, <1>4

\* What a block must be for the log to stay in order with it.
LEMMA LogInvAppend ==
  ASSUME log \in Seq(RecordSet), LogInv, NEW r \in RecordSet, log' = Append(log, r),
         r.kind = "full" =>
            /\ Len(log) = 0 => r.block.height = 0
            /\ Len(log) = 1 /\ FullAt(1) => r.block.height = 1
            /\ Len(log) > 0 /\ ConsecutiveTo(Len(log)) /\ r.block.height = Len(log) =>
                  r.block.parent = log[Len(log)].block.id
  PROVE  LogInv'
  <1>1. /\ Len(log') = Len(log) + 1 /\ Len(log) \in Nat
        /\ log'[Len(log) + 1] = r
        /\ \A p \in 1..Len(log) : log'[p] = log[p]
        /\ \A p \in 1..Len(log) : FullAt(p)' <=> FullAt(p)
        /\ \A p \in 1..Len(log) : ConsecutiveTo(p)' <=> ConsecutiveTo(p)
    BY AppendFacts
  <1>2. FullAt(Len(log) + 1)' => r.kind = "full"
    BY <1>1 DEF FullAt
  <1>3. FullAt(1)' => log'[1].block.height = 0
    BY <1>1, <1>2 DEF LogInv, FullAt
  <1>4. FullAt(1)' /\ FullAt(2)' => log'[2].block.height = 1
    <2>1. CASE Len(log) = 0
      BY <2>1, <1>1 DEF FullAt
    <2>2. CASE Len(log) = 1
      BY <2>2, <1>1 DEF FullAt
    <2>3. CASE 2 \in 1..Len(log)
      BY <2>3, <1>1 DEF LogInv
    <2>4. 2 \in 1..Len(log) \/ Len(log) = 1 \/ Len(log) = 0
      <3>1. PICK n \in Nat : n = Len(log)
        BY <1>1
      <3>2. 2 \in 1..n \/ n = 1 \/ n = 0
        OBVIOUS
      <3> QED
        BY <3>1, <3>2
    <2> QED
      BY <2>1, <2>2, <2>3, <2>4
  <1>5. ASSUME NEW p \in 2..Len(log'), ConsecutiveTo(p)'
        PROVE  log'[p].block.parent = log'[p - 1].block.id
    <2>1. CASE p \in 1..Len(log)
      BY <2>1, <1>1, <1>5 DEF LogInv
    <2>2. CASE p = Len(log) + 1
      <3>1. ConsecutiveTo(Len(log))' /\ FullAt(p)' /\ log'[p].block.height = p - 1
        BY <2>2, <1>1, <1>5 DEF ConsecutiveTo, FullAt
      <3>2. Len(log) > 0 /\ p - 1 = Len(log) /\ log'[Len(log)] = log[Len(log)]
        BY <2>2, <1>1
      <3>3. ASSUME NEW q \in 1..Len(log)
            PROVE  FullAt(q) /\ log[q].block.height = q - 1
        <4>1. q \in 1..p /\ log'[q] = log[q]
          BY <1>1, <2>2
        <4>2. FullAt(q)' /\ log'[q].block.height = q - 1
          BY <1>5, <4>1 DEF ConsecutiveTo
        <4> QED
          BY <4>1, <4>2, <1>1
      <3>4. ConsecutiveTo(Len(log))
        BY <3>3 DEF ConsecutiveTo
      <3> QED
        BY <3>1, <3>2, <3>4, <2>2, <1>1 DEF FullAt
    <2> QED
      BY <2>1, <2>2, <1>1
  <1> QED
    BY <1>3, <1>4, <1>5 DEF LogInv

LEMMA LogInvCut ==
  ASSUME log \in Seq(RecordSet), LogInv, NEW n \in 0..Len(log), log' = SubSeq(log, 1, n)
  PROVE  LogInv'
  <1>1. /\ Len(log') = n /\ Len(log) \in Nat
        /\ \A p \in 1..n : log'[p] = log[p]
        /\ \A p : FullAt(p)' => FullAt(p) /\ p \in 1..n
        /\ \A p \in 0..n : ConsecutiveTo(p)' <=> ConsecutiveTo(p)
    BY CutFacts
  <1>2. FullAt(1)' => log'[1].block.height = 0
    BY <1>1 DEF LogInv
  <1>3. FullAt(1)' /\ FullAt(2)' => log'[2].block.height = 1
    BY <1>1 DEF LogInv
  <1>4. ASSUME NEW p \in 2..Len(log'), ConsecutiveTo(p)'
        PROVE  log'[p].block.parent = log'[p - 1].block.id
    <2>1. p \in 1..n /\ p - 1 \in 1..n /\ p \in 2..Len(log) /\ ConsecutiveTo(p)
      BY <1>1, <1>4
    <2> QED
      BY <2>1, <1>1 DEF LogInv
  <1> QED
    BY <1>2, <1>3, <1>4 DEF LogInv

-----------------------------------------------------------------------------
(* What a store with an index finds.                                       *)

\* A complete index of a committed chain reads each of its blocks.
LEMMA IndexReads ==
  ASSUME TypeOK, ChainInv, status = "Complete", committed # <<>>,
         NEW h \in 0..idxHeight, NEW top \in Nat, h <= top
  PROVE  /\ ReadFromDisk(idxPos, top, h) = committed[h + 1]
         /\ RawRead(idxPos[h]) = committed[h + 1]
         /\ committed[h + 1] \in BlockSet /\ committed[h + 1] # None
         /\ committed[h + 1].height = h
  <1>1. /\ FullAt(idxPos[h]) /\ log[idxPos[h]].block = committed[h + 1]
        /\ committed[h + 1].height = h
        /\ h \in DOMAIN idxPos
    BY DEF ChainInv
  <1>2. log \in Seq(RecordSet) /\ idxHeight \in Nat /\ h \in Nat
    BY DEF TypeOK, StoreTypes
  <1>3. /\ RawRead(idxPos[h]) = committed[h + 1]
        /\ committed[h + 1] \in BlockSet /\ committed[h + 1] # None
    BY <1>1, <1>2, ReadFull, RecordFacts
  <1>4. ReadFromDisk(idxPos, top, h) = RawRead(idxPos[h])
    BY <1>1, <1>2 DEF ReadFromDisk
  <1> QED
    BY <1>1, <1>3, <1>4

\* So does the store of a node that is up, from the cache or from the log.
LEMMA GetCommitted ==
  ASSUME StoreInv, Up, NEW h \in 0..idxHeight
  PROVE  /\ Get(h) = committed[h + 1]
         /\ committed[h + 1] \in BlockSet /\ committed[h + 1] # None
         /\ committed[h + 1].height = h
  <1>1. TypeOK /\ ChainInv /\ PhaseInv /\ CacheInv
    BY DEF StoreInv
  <1>2. status = "Complete" /\ committed # <<>> /\ genesis = committed[1]
    BY <1>1 DEF PhaseInv
  <1>3. idxHeight \in Nat /\ height \in Nat /\ height >= idxHeight /\ h \in Nat
    BY <1>1 DEF TypeOK, StoreTypes, PhaseInv, Up
  <1>4. /\ ReadFromDisk(idxPos, height, h) = committed[h + 1]
        /\ committed[h + 1] \in BlockSet /\ committed[h + 1] # None
        /\ committed[h + 1].height = h
    BY <1>1, <1>2, <1>3, IndexReads
  <1>5. h \in DOMAIN blocks => blocks[h] = committed[h + 1]
    BY <1>1, <1>3 DEF CacheInv
  <1>6. Get(h) = committed[h + 1]
    BY <1>2, <1>3, <1>4, <1>5 DEF Get
  <1> QED
    BY <1>4, <1>6

\* Between the write and the commit the new block is in the cache.
LEMMA GetInserted ==
  ASSUME StoreInv, phase = "inserted"
  PROVE  /\ Get(height) = log[Len(log)].block
         /\ Get(height) \in BlockSet /\ Get(height) # None
         /\ Get(height).height = height
         /\ Get(height).parent = committed[height].id
         /\ height = idxHeight + 1 /\ idxHeight \in Nat
  <1>1. TypeOK /\ PhaseInv
    BY DEF StoreInv
  <1>2. /\ idxHeight \in Nat /\ height \in Nat /\ log \in Seq(RecordSet)
        /\ height = idxHeight + 1 /\ FullAt(Len(log))
        /\ log[Len(log)].block.height = height
        /\ log[Len(log)].block.parent = committed[height].id
        /\ height \in DOMAIN blocks /\ blocks[height] = log[Len(log)].block
    BY <1>1 DEF TypeOK, StoreTypes, PhaseInv
  <1>3. Get(height) = log[Len(log)].block
    BY <1>2 DEF Get
  <1> QED
    BY <1>2, <1>3, RecordFacts

-----------------------------------------------------------------------------
(* Init and the steps that end the process.                                *)

LEMMA StoreInit == Init => StoreInv
  <1> SUFFICES ASSUME Init PROVE StoreInv
    OBVIOUS
  <1>1. /\ log = <<>> /\ DOMAIN idxPos = {} /\ DOMAIN blocks = {} /\ DOMAIN batch = {}
        /\ Len(log) = 0 /\ committed = <<>>
        /\ status = "None" /\ phase = "stopped" /\ genesis = None
        /\ idxHeight = 0 /\ height = 0 /\ tail = 1 /\ pos = 1 /\ lastGood = 0
        /\ made = 0 /\ crashes = 0
    BY EmptyMapFacts DEF Init
  <1>2. StoreTypes
    BY <1>1 DEF StoreTypes, Phases, FileEnd
  <1>6. FlagTypes
    BY DEF Init, FlagTypes
  <1>3. LogInv
    BY <1>1 DEF LogInv, FullAt
  <1>4. ChainInv
    BY <1>1 DEF Init, ChainInv
  <1>5. ReindexInv /\ PhaseInv /\ CacheInv
    BY <1>1 DEF Init, ReindexInv, PhaseInv, CacheInv, Up
  <1> QED
    BY <1>2, <1>3, <1>4, <1>5, <1>6 DEF StoreInv, TypeOK

\* Death of the process, the log as it was.
LEMMA DieInv ==
  ASSUME StoreInv, Die, UNCHANGED <<log, idxHeight, idxPos, committed>>,
         status' \in {"None", "Complete"},
         ChainInv', FlagTypes', made' \in Nat, crashes' \in Nat
  PROVE  StoreInv'
  <1>1. TypeOK /\ LogInv
    BY DEF StoreInv
  <1>2. /\ phase' = "stopped" /\ height' = 0 /\ genesis' = None /\ tail' = 1
        /\ DOMAIN blocks' = {} /\ DOMAIN batch' = {}
        /\ pos' = 1 /\ lastGood' = 0
    BY EmptyMapFacts DEF Die
  <1>3. StoreTypes'
    BY <1>1, <1>2 DEF TypeOK, StoreTypes, Phases
  <1>4. LogInv'
    BY <1>1 DEF LogInv, FullAt, ConsecutiveTo
  <1>5. ReindexInv' /\ PhaseInv' /\ CacheInv'
    BY <1>2 DEF ReindexInv, PhaseInv, CacheInv, Up
  <1> QED
    BY <1>3, <1>4, <1>5 DEF StoreInv, TypeOK

LEMMA ChainInvSame ==
  ASSUME ChainInv, UNCHANGED <<log, status, idxHeight, idxPos, committed>>
  PROVE  ChainInv'
  BY DEF ChainInv, FullAt

LEMMA CrashStep == StoreInv /\ Crash => StoreInv'
  <1> SUFFICES ASSUME StoreInv, Crash PROVE StoreInv'
    OBVIOUS
  <1>1. UNCHANGED <<log, status, idxHeight, idxPos, committed, made, dirty, panic>> /\ Die
    BY DEF Crash, disk
  <1>2. ChainInv'
    BY <1>1, ChainInvSame DEF StoreInv
  <1>3. /\ status' \in {"None", "Complete"} /\ made' \in Nat /\ crashes' \in Nat
    BY <1>1 DEF Crash, StoreInv, TypeOK, StoreTypes
  <1>4. FlagTypes'
    BY <1>1 DEF StoreInv, TypeOK, FlagTypes, Die
  <1> QED
    BY <1>1, <1>2, <1>3, <1>4, DieInv

LEMMA ShutdownStep == StoreInv /\ Shutdown => StoreInv'
  <1> SUFFICES ASSUME StoreInv, Shutdown PROVE StoreInv'
    OBVIOUS
  <1>1. /\ UNCHANGED <<log, status, idxHeight, idxPos, committed, made, dirty, panic, crashes>>
        /\ Die
    BY DEF Shutdown, disk, history
  <1>2. ChainInv'
    BY <1>1, ChainInvSame DEF StoreInv
  <1>3. /\ status' \in {"None", "Complete"} /\ made' \in Nat /\ crashes' \in Nat
    BY <1>1 DEF StoreInv, TypeOK, StoreTypes
  <1>4. FlagTypes'
    BY <1>1 DEF StoreInv, TypeOK, FlagTypes, Die
  <1> QED
    BY <1>1, <1>2, <1>3, <1>4, DieInv

\* An assertion or an unwrap that ends a reindex.
LEMMA PanicStep ==
  ASSUME StoreInv, NEW why \in {"noTrim", "crc"}, Panic(why)
  PROVE  StoreInv'
  <1>1. /\ UNCHANGED <<log, status, idxHeight, idxPos, committed, made, dirty, crashes>>
        /\ Die /\ (panic' = panic \/ panic' = why) /\ why \in Panics
    BY DEF Panic, disk, RecordPanic, Panics
  <1>2. ChainInv'
    BY <1>1, ChainInvSame DEF StoreInv
  <1>3. /\ status' \in {"None", "Complete"} /\ made' \in Nat /\ crashes' \in Nat
    BY <1>1 DEF StoreInv, TypeOK, StoreTypes
  <1>4. FlagTypes'
    BY <1>1 DEF StoreInv, TypeOK, FlagTypes, Die
  <1> QED
    BY <1>1, <1>2, <1>3, <1>4, DieInv

LEMMA LongerThanEmpty == \A s : Len(s) # 0 => s # <<>>
  OBVIOUS

\* More records do not change what the index finds.
LEMMA ChainInvAppend ==
  ASSUME ChainInv, log \in Seq(RecordSet), NEW r \in RecordSet, log' = Append(log, r),
         UNCHANGED <<status, idxHeight, idxPos, committed>>
  PROVE  ChainInv'
  <1>1. \A p : FullAt(p) => FullAt(p)' /\ log'[p] = log[p]
    BY AppendFacts, Zenon
  <1>2. log' # <<>>
    <2>1. Len(log') = Len(log) + 1 /\ Len(log) \in Nat
      BY AppendFacts, Zenon
    <2>2. Len(log') # 0
      BY <2>1
    <2> QED
      BY <2>2, LongerThanEmpty, Zenon
  <1> QED
    BY <1>1, <1>2, ZenonT(60) DEF ChainInv

\* An unfinished record is never a block.
LEMMA CrashWritingStep ==
  ASSUME StoreInv, NEW tear \in Tears \ {"full"}, CrashWriting(tear)
  PROVE  StoreInv'
  <1> DEFINE r == Record(tear, None)
  <1>1. /\ log \in Seq(RecordSet) /\ made \in Nat /\ crashes \in Nat
        /\ LogInv /\ ChainInv /\ TypeOK
    BY DEF StoreInv, TypeOK, StoreTypes
  <1>2. r \in RecordSet /\ r.kind # "full"
    BY StoreAssumption DEF Record, RecordSet
  <1>3. /\ log' = Append(log, r) /\ Die /\ made' = made + 1 /\ crashes' = crashes + 1
        /\ UNCHANGED <<status, idxHeight, idxPos, committed, dirty, panic>>
    BY DEF CrashWriting
  <1> HIDE DEF r
  <1>4. log' \in Seq(RecordSet)
    BY <1>1, <1>2, <1>3, AppendFacts
  <1>5. /\ phase' = "stopped" /\ height' = 0 /\ genesis' = None /\ tail' = 1
        /\ DOMAIN blocks' = {} /\ DOMAIN batch' = {}
        /\ pos' = 1 /\ lastGood' = 0
    BY <1>3, EmptyMapFacts DEF Die
  <1>6. StoreTypes'
    BY <1>1, <1>3, <1>4, <1>5 DEF TypeOK, StoreTypes, Phases
  <1>10. FlagTypes'
    BY <1>1, <1>3 DEF TypeOK, FlagTypes, Die
  <1>7. LogInv'
    BY <1>1, <1>2, <1>3, LogInvAppend
  <1>8. ChainInv'
    BY <1>1, <1>2, <1>3, ChainInvAppend
  <1>9. ReindexInv' /\ PhaseInv' /\ CacheInv'
    BY <1>5 DEF ReindexInv, PhaseInv, CacheInv, Up
  <1> QED
    BY <1>6, <1>7, <1>8, <1>9, <1>10 DEF StoreInv, TypeOK

-----------------------------------------------------------------------------
(* create_genesis_block.                                                   *)

LEMMA WriteGenesisStep == StoreInv /\ WriteGenesis => StoreInv'
  <1> SUFFICES ASSUME StoreInv, WriteGenesis PROVE StoreInv'
    OBVIOUS
  <1> DEFINE block == Block(0, made + 1, 0)
             r == Record("full", block)
  <1>1. StoreTypes /\ FlagTypes /\ LogInv /\ ChainInv /\ ReindexInv /\ PhaseInv
    BY DEF StoreInv, TypeOK
  <1>2. /\ log \in Seq(RecordSet) /\ made \in Nat /\ Len(log) = 0 /\ log = <<>>
        /\ height = 0 /\ idxHeight = 0 /\ DOMAIN blocks = {}
        /\ DOMAIN idxPos = {} /\ ~FullAt(1) /\ committed = <<>>
        /\ tail = FileEnd /\ pos = 1 /\ lastGood = 0
    BY <1>1 DEF StoreTypes, PhaseInv, ReindexInv, ChainInv, FullAt, WriteGenesis
  <1>3. /\ block \in BlockSet /\ r \in RecordSet /\ r.kind = "full" /\ r.block = block
        /\ block.height = 0
    BY <1>2 DEF Block, Record, BlockSet, RecordSet
  <1>4. /\ log' = Append(log, r) /\ genesis' = block
        /\ batch' = Put(EmptyMap, 0, 1) /\ tail' = tail + 1 /\ made' = made + 1
        /\ phase' = "genesisWritten"
        /\ UNCHANGED <<status, idxHeight, idxPos, height, blocks, pos, lastGood,
                       committed, crashes>>
    BY DEF WriteGenesis
  <1>5. UNCHANGED <<autoTrim, dirty, panic>>
    BY DEF WriteGenesis
  <1> HIDE DEF block, r
  <1>6. DOMAIN batch' = {0} /\ batch'[0] = 1
    BY <1>4 DEF EmptyMap, Put
  <1>7. log' \in Seq(RecordSet) /\ Len(log') = 1 /\ log'[1] = r /\ log' # <<>>
    BY <1>2, <1>3, <1>4
  <1>8. FullAt(1)'
    BY <1>3, <1>7 DEF FullAt
  <1>9. StoreTypes'
    BY <1>1, <1>2, <1>3, <1>4, <1>6, <1>7 DEF StoreTypes, Phases, FileEnd
  <1>10. FlagTypes'
    BY <1>1, <1>5 DEF FlagTypes
  <1>11. LogInv'
    BY <1>1, <1>2, <1>3, <1>4, LogInvAppend
  <1>12. ChainInv'
    BY <1>1, <1>2, <1>4, <1>7, <1>8 DEF ChainInv
  <1>13. ReindexInv'
    BY <1>4 DEF ReindexInv
  <1>14. PhaseInv' /\ CacheInv'
    BY <1>2, <1>3, <1>4, <1>6, <1>7, <1>8 DEF PhaseInv, CacheInv, Up
  <1> QED
    BY <1>9, <1>10, <1>11, <1>12, <1>13, <1>14 DEF StoreInv, TypeOK

\* Steps that leave the log alone.
LEMMA SameLog ==
  ASSUME log' = log
  PROVE  /\ LogInv => LogInv'
         /\ \A p : FullAt(p)' <=> FullAt(p)
         /\ \A p : ConsecutiveTo(p)' <=> ConsecutiveTo(p)
         /\ FileEnd' = FileEnd
  BY DEF LogInv, FullAt, ConsecutiveTo, FileEnd

LEMMA CommitGenesisStep == StoreInv /\ CommitGenesis => StoreInv'
  <1> SUFFICES ASSUME StoreInv, CommitGenesis PROVE StoreInv'
    OBVIOUS
  <1>1. StoreTypes /\ FlagTypes /\ LogInv /\ ChainInv /\ PhaseInv
    BY DEF StoreInv, TypeOK
  <1>2. /\ phase = "genesisWritten" /\ phase' = "genesisIndexed"
        /\ idxPos' = Merge(idxPos, batch) /\ batch' = EmptyMap /\ committed' = <<genesis>>
        /\ UNCHANGED <<log, status, idxHeight, height, blocks, genesis, tail, pos,
                       lastGood, made, crashes>>
    BY DEF CommitGenesis
  <1>3. UNCHANGED <<autoTrim, dirty, panic>>
    BY DEF CommitGenesis
  <1>4. /\ log \in Seq(RecordSet) /\ Len(log) = 1 /\ log # <<>>
        /\ height = 0 /\ idxHeight = 0 /\ DOMAIN blocks = {} /\ FullAt(1)
        /\ genesis = log[1].block /\ DOMAIN idxPos = {} /\ DOMAIN batch = {0} /\ batch[0] = 1
    BY <1>1, <1>2 DEF StoreTypes, PhaseInv
  <1>5. DOMAIN idxPos' = {0} /\ idxPos'[0] = 1 /\ DOMAIN batch' = {}
    BY <1>2, <1>4, MergeFacts, EmptyMapFacts
  <1>6. genesis \in BlockSet /\ genesis.height = 0
    BY <1>1, <1>4, RecordFacts DEF LogInv
  <1>7. committed' \in Seq(BlockSet) /\ Len(committed') = 1 /\ committed'[1] = genesis
    BY <1>2, <1>6
  <1>8. StoreTypes'
    BY <1>1, <1>2, <1>5, <1>7, SameLog DEF StoreTypes, Phases
  <1>9. FlagTypes'
    BY <1>1, <1>3 DEF FlagTypes
  <1>10. LogInv' /\ FullAt(1)'
    BY <1>1, <1>2, <1>4, SameLog
  <1>11. ChainInv'
    BY <1>2, <1>4, <1>5, <1>6, <1>7, <1>10 DEF ChainInv
  <1>12. ReindexInv'
    BY <1>2 DEF ReindexInv
  <1>13. PhaseInv' /\ CacheInv'
    BY <1>2, <1>4, <1>5, <1>10 DEF PhaseInv, CacheInv, Up
  <1> QED
    BY <1>8, <1>9, <1>10, <1>11, <1>12, <1>13 DEF StoreInv, TypeOK

LEMMA CompleteGenesisStep == StoreInv /\ CompleteGenesis => StoreInv'
  <1> SUFFICES ASSUME StoreInv, CompleteGenesis PROVE StoreInv'
    OBVIOUS
  <1>1. StoreTypes /\ FlagTypes /\ LogInv /\ ChainInv /\ PhaseInv
    BY DEF StoreInv, TypeOK
  <1>2. /\ phase = "genesisIndexed" /\ phase' = "serving" /\ status' = "Complete"
        /\ UNCHANGED <<log, idxHeight, idxPos, height, blocks, genesis, tail, batch, pos,
                       lastGood, made, committed, crashes>>
    BY DEF CompleteGenesis, memory, history
  <1>3. UNCHANGED <<autoTrim, dirty, panic>>
    BY DEF CompleteGenesis, memory, history
  <1>4. /\ log \in Seq(RecordSet) /\ Len(log) = 1 /\ log # <<>>
        /\ height = 0 /\ idxHeight = 0 /\ DOMAIN blocks = {} /\ FullAt(1)
        /\ genesis = log[1].block /\ DOMAIN idxPos = {0} /\ idxPos[0] = 1
        /\ committed = <<genesis>>
    BY <1>1, <1>2 DEF StoreTypes, PhaseInv
  <1>5. genesis.height = 0 /\ Len(committed) = 1 /\ committed[1] = genesis /\ committed # <<>>
    BY <1>1, <1>4 DEF LogInv
  <1>6. StoreTypes'
    BY <1>1, <1>2, SameLog DEF StoreTypes, Phases
  <1>7. FlagTypes'
    BY <1>1, <1>3 DEF FlagTypes
  <1>8. LogInv' /\ FullAt(1)'
    BY <1>1, <1>2, <1>4, SameLog
  <1>9. ChainInv'
    BY <1>2, <1>4, <1>5, <1>8 DEF ChainInv
  <1>10. ReindexInv'
    BY <1>2 DEF ReindexInv
  <1>11. PhaseInv'
    BY <1>2, <1>4, <1>5 DEF PhaseInv, Up
  <1>12. DOMAIN blocks' = Window(height') \cup {}
    BY <1>2, <1>4 DEF Window
  <1>13. CacheInv'
    <2>1. WindowAndOne(DOMAIN blocks', height')
      <3>1. {} \in SUBSET (0..height')
        OBVIOUS
      <3> QED
        BY <3>1, <1>12 DEF WindowAndOne
    <2> QED
      BY <2>1, <1>2, <1>4 DEF CacheInv, Window
  <1> QED
    BY <1>6, <1>7, <1>8, <1>9, <1>10, <1>11, <1>13 DEF StoreInv, TypeOK

-----------------------------------------------------------------------------
(* insert_block.                                                           *)

\* The heights of the cache are finitely many.
LEMMA CacheFinite ==
  ASSUME NEW top \in Nat, NEW older \in SUBSET (0..top)
  PROVE  IsFiniteSet(Window(top) \cup older)
  <1>1. IsFiniteSet(0..top)
    <2>1. 0 \in Int /\ top \in Int
      OBVIOUS
    <2> QED
      BY <2>1, FS_Interval
  <1>2. Window(top) \subseteq 0..top
    BY DEF Window
  <1>3. Window(top) \cup older \in SUBSET (0..top)
    BY <1>2
  <1> QED
    BY <1>1, <1>3, FS_Subset

\* The cache after an insertion on top of the chain.
LEMMA CacheInsertFacts ==
  ASSUME NEW top \in Nat, NEW next \in Nat, next = top + 1, NEW block,
         WindowAndOne(DOMAIN blocks, top)
  PROVE  /\ next \in DOMAIN CacheInsert(next, block)
         /\ CacheInsert(next, block)[next] = block
         /\ \A h \in DOMAIN CacheInsert(next, block) :
               h # next => h \in DOMAIN blocks /\ CacheInsert(next, block)[h] = blocks[h]
         /\ WindowAndOne(DOMAIN CacheInsert(next, block), next)
  <1>7. PICK older \in SUBSET (0..top) :
           DOMAIN blocks = Window(top) \cup older /\ \A g, h \in older : g = h
    BY DEF WindowAndOne
  <1>8. IsFiniteSet(DOMAIN blocks)
    BY <1>7, CacheFinite
  <1> DEFINE grown == Put(blocks, next, block)
             out == next - MAX_CACHE_SIZE
             after == CacheInsert(next, block)
  <1>1. /\ DOMAIN grown = DOMAIN blocks \cup {next}
        /\ grown[next] = block
        /\ \A h \in DOMAIN blocks : h # next => grown[h] = blocks[h]
    BY DEF Put
  <1>2. next \notin DOMAIN blocks
    BY <1>7 DEF Window
  <1>3. /\ Window(next) = (Window(top) \cup {next}) \ {out}
        /\ Window(top) \subseteq 1..top /\ 0 \notin Window(top)
        /\ out # next
    BY StoreAssumption DEF Window
  <1>4. \/ after = grown /\ ~(Cardinality(DOMAIN grown) > MAX_CACHE_SIZE)
        \/ after = Without(grown, out) /\ Cardinality(DOMAIN grown) > MAX_CACHE_SIZE
    BY Zenon DEF CacheInsert
  <1>5. CASE after = Without(grown, out)
    <2>1. /\ DOMAIN after = DOMAIN grown \ {out}
          /\ \A h \in DOMAIN grown : h # out => after[h] = grown[h]
      BY <1>5 DEF Without
    <2>2. DOMAIN after = Window(next) \cup (older \ {out})
      BY <2>1, <1>1, <1>3, <1>7
    <2>3. older \ {out} \in SUBSET (0..next)
      <3>1. 0..top \subseteq 0..next
        OBVIOUS
      <3> QED
        BY <3>1
    <2> HIDE DEF grown, after, out
    <2>4. /\ next \in DOMAIN after /\ after[next] = block
          /\ \A h \in DOMAIN after :
                h # next => h \in DOMAIN blocks /\ after[h] = blocks[h]
      BY <2>1, <1>1, <1>3
    <2>5. WindowAndOne(DOMAIN after, next)
      <3>1. \A g, h \in older \ {out} : g = h
        BY <1>7
      <3> QED
        BY <2>2, <2>3, <3>1, Zenon DEF WindowAndOne
    <2> QED
      BY <2>4, <2>5 DEF after
  <1>6. CASE after = grown /\ ~(Cardinality(DOMAIN grown) > MAX_CACHE_SIZE)
    <2>1. Window(top) \cup {next} = Window(next)
      <3>1. out \notin Window(top) \cup {next}
        <4>1. SUFFICES ASSUME out \in Window(top) PROVE FALSE
          BY <1>3
        <4>2. Window(top) \cup {next} = out..next /\ out \in Int /\ out >= 1
          BY <4>1, StoreAssumption DEF Window
        <4>3. /\ IsFiniteSet(Window(top) \cup {next})
              /\ Cardinality(Window(top) \cup {next}) = MAX_CACHE_SIZE + 1
          <5>1. out \in Int /\ next \in Int /\ ~(out > next)
                /\ next - out + 1 = MAX_CACHE_SIZE + 1
            BY StoreAssumption
          <5>2. IsFiniteSet(out..next) /\ Cardinality(out..next) = next - out + 1
            BY <5>1, FS_Interval
          <5> QED
            BY <5>1, <5>2, <4>2
        <4>4. Window(top) \cup {next} \subseteq DOMAIN grown /\ IsFiniteSet(DOMAIN grown)
          BY <1>1, <1>7, <1>8, FS_AddElement
        <4>5. MAX_CACHE_SIZE + 1 <= Cardinality(DOMAIN grown) /\ Cardinality(DOMAIN grown) \in Nat
          BY <4>3, <4>4, FS_Subset, FS_CardinalityType
        <4> QED
          BY <4>5, <1>6, StoreAssumption
      <3> QED
        BY <3>1, <1>3
    <2> HIDE DEF grown, after, out
    <2>2. DOMAIN after = Window(next) \cup older
      BY <2>1, <1>1, <1>6, <1>7
    <2>3. /\ next \in DOMAIN after /\ after[next] = block
          /\ \A h \in DOMAIN after :
                h # next => h \in DOMAIN blocks /\ after[h] = blocks[h]
      BY <1>1, <1>6
    <2>4. older \in SUBSET (0..next)
      OBVIOUS
    <2>5. WindowAndOne(DOMAIN after, next)
      BY <2>2, <2>4, <1>7 DEF WindowAndOne
    <2> QED
      BY <2>3, <2>5 DEF after
  <1> QED
    BY <1>4, <1>5, <1>6

LEMMA InsertWriteStep == StoreInv /\ InsertWrite => StoreInv'
  <1> SUFFICES ASSUME StoreInv, InsertWrite PROVE StoreInv'
    OBVIOUS
  <1> DEFINE next == height + 1
             block == Block(next, made + 1, Get(height).id)
             r == Record("full", block)
  <1>1. /\ StoreTypes /\ FlagTypes /\ LogInv /\ ChainInv /\ PhaseInv /\ CacheInv
        /\ phase = "serving" /\ Up
    BY DEF StoreInv, TypeOK, InsertWrite, Up
  <1>2. /\ log \in Seq(RecordSet) /\ made \in Nat /\ height \in Nat /\ height = idxHeight
        /\ status = "Complete" /\ committed # <<>> /\ genesis = committed[1]
        /\ tail = FileEnd /\ next \in Nat
        /\ Len(committed) = idxHeight + 1
    BY <1>1 DEF StoreTypes, PhaseInv, ChainInv
  <1>3. /\ Get(height) = committed[height + 1] /\ Get(height) \in BlockSet
        /\ Get(height).height = height
    BY <1>1, <1>2, GetCommitted
  <1>4. Get(height).id \in Nat
    BY <1>3 DEF BlockSet
  <1>5. /\ block \in BlockSet /\ r \in RecordSet /\ r.kind = "full" /\ r.block = block
        /\ block.height = next /\ block.parent = Get(height).id
    BY <1>2, <1>4 DEF Block, Record, BlockSet, RecordSet
  <1>6. /\ log' = Append(log, r) /\ height' = next /\ batch' = Put(EmptyMap, next, tail)
        /\ blocks' = CacheInsert(next, block) /\ tail' = tail + 1 /\ made' = made + 1
        /\ phase' = "inserted"
        /\ UNCHANGED <<status, idxHeight, idxPos, genesis, pos, lastGood, committed, crashes>>
    BY Zenon DEF InsertWrite
  <1>7. UNCHANGED <<autoTrim, dirty, panic>>
    BY DEF InsertWrite
  <1>8. next = height + 1
    OBVIOUS
  <1> HIDE DEF next, block, r
  <1>9. /\ log' \in Seq(RecordSet) /\ Len(log') = Len(log) + 1 /\ Len(log) \in Nat
        /\ log'[Len(log) + 1] = r
    BY <1>2, <1>5, <1>6, AppendFacts
  <1>10. FullAt(Len(log))' /\ log'[Len(log')] = r
    <2>1. Len(log') \in 1..Len(log') /\ log'[Len(log')] = r
      BY <1>9
    <2> QED
      BY <2>1, <1>5 DEF FullAt
  <1>11. /\ FullAt(idxPos[height]) /\ log[idxPos[height]].block = committed[height + 1]
         /\ height \in 0..idxHeight
    BY <1>1, <1>2 DEF ChainInv
  <1>12. LogInv'
    <2>1. Len(log) # 0
      BY <1>9, <1>11 DEF FullAt
    <2>2. Len(log) = 1 /\ FullAt(1) => block.height = 1
      <3>1. SUFFICES ASSUME Len(log) = 1, FullAt(1) PROVE block.height = 1
        OBVIOUS
      <3>2. idxPos[height] = 1
        BY <3>1, <1>11 DEF FullAt
      <3>3. height = 0
        BY <3>1, <3>2, <1>11, <1>1, <1>3 DEF LogInv
      <3> QED
        BY <3>3, <1>5, <1>8
    <2>3. ASSUME ConsecutiveTo(Len(log)), block.height = Len(log)
          PROVE  block.parent = log[Len(log)].block.id
      <3>1. PICK q \in 1..Len(log) : q = idxPos[height]
        BY <1>11 DEF FullAt
      <3>2. log[q].block.height = q - 1 /\ log[q].block.height = height
        BY <3>1, <2>3, <1>11, <1>3 DEF ConsecutiveTo
      <3>3. q = Len(log)
        BY <3>1, <3>2, <2>3, <1>5, <1>8, <1>9, <1>2
      <3> QED
        BY <3>1, <3>3, <1>11, <1>3, <1>5
    <2> QED
      BY <2>1, <2>2, <2>3, <1>1, <1>2, <1>5, <1>6, LogInvAppend
  <1>13. ChainInv'
    BY <1>1, <1>2, <1>5, <1>6, ChainInvAppend
  <1>14. WindowAndOne(DOMAIN blocks, height)
    BY <1>1 DEF CacheInv
  <1>16. /\ next \in DOMAIN blocks' /\ blocks'[next] = block
         /\ \A h \in DOMAIN blocks' : h # next => h \in DOMAIN blocks /\ blocks'[h] = blocks[h]
         /\ WindowAndOne(DOMAIN blocks', next)
    <2> DEFINE after == CacheInsert(next, block)
    <2>1. /\ next \in DOMAIN after /\ after[next] = block
          /\ \A h \in DOMAIN after : h # next => h \in DOMAIN blocks /\ after[h] = blocks[h]
          /\ WindowAndOne(DOMAIN after, next)
      BY <1>2, <1>8, <1>14, CacheInsertFacts
    <2>2. blocks' = after
      BY <1>6
    <2> HIDE DEF after
    <2> QED
      BY <2>1, <2>2
  <1>17. DOMAIN batch' = {next} /\ batch'[next] = tail
    BY <1>6 DEF EmptyMap, Put
  <1>18. tail = Len(log') /\ tail \in Nat \ {0} /\ tail' = FileEnd'
    BY <1>2, <1>6, <1>9 DEF FileEnd
  <1>19. StoreTypes'
    <2>1. DOMAIN blocks' \subseteq Nat /\ \A h \in DOMAIN blocks' : blocks'[h] \in BlockSet
      BY <1>1, <1>2, <1>5, <1>16 DEF StoreTypes
    <2>2. DOMAIN batch' \subseteq Nat /\ \A h \in DOMAIN batch' : batch'[h] \in Nat \ {0}
      BY <1>2, <1>17, <1>18
    <2> QED
      BY <2>1, <2>2, <1>1, <1>2, <1>6, <1>9, <1>18 DEF StoreTypes, Phases
  <1>20. FlagTypes'
    BY <1>1, <1>7 DEF FlagTypes
  <1>21. ReindexInv'
    BY <1>6 DEF ReindexInv
  <1>22. PhaseInv'
    <2>1. /\ log'[Len(log')].block.height = height'
          /\ log'[Len(log')].block.parent = committed'[height'].id
      BY <1>3, <1>5, <1>6, <1>8, <1>10
    <2>2. DOMAIN batch' = {height'} /\ batch'[height'] = Len(log')
      BY <1>6, <1>17, <1>18
    <2>3. height' \in DOMAIN blocks' /\ blocks'[height'] = log'[Len(log')].block
      BY <1>5, <1>6, <1>10, <1>16
    <2> QED
      BY <2>1, <2>2, <2>3, <1>2, <1>6, <1>8, <1>10 DEF PhaseInv, Up
  <1>23. CacheInv'
    <2>1. \A h \in DOMAIN blocks' : h <= idxHeight' => blocks'[h] = committed'[h + 1]
      BY <1>1, <1>2, <1>6, <1>8, <1>16 DEF CacheInv
    <2> QED
      BY <2>1, <1>6, <1>16 DEF CacheInv
  <1> QED
    BY <1>12, <1>13, <1>19, <1>20, <1>21, <1>22, <1>23 DEF StoreInv, TypeOK

LEMMA InsertCommitStep == StoreInv /\ InsertCommit => StoreInv'
  <1> SUFFICES ASSUME StoreInv, InsertCommit PROVE StoreInv'
    OBVIOUS
  <1> DEFINE block == Get(height)
  <1>1. /\ StoreTypes /\ FlagTypes /\ LogInv /\ ChainInv /\ PhaseInv /\ CacheInv
        /\ phase = "inserted" /\ Up
    BY DEF StoreInv, TypeOK, InsertCommit, Up
  <1>2. /\ log \in Seq(RecordSet) /\ committed \in Seq(BlockSet)
        /\ height \in Nat /\ idxHeight \in Nat /\ height = idxHeight + 1
        /\ status = "Complete" /\ committed # <<>> /\ genesis = committed[1]
        /\ Len(committed) = height
        /\ DOMAIN batch = {height} /\ batch[height] = Len(log) /\ FullAt(Len(log))
        /\ height \in DOMAIN blocks /\ blocks[height] = log[Len(log)].block
        /\ DOMAIN idxPos = 0..idxHeight
    BY <1>1 DEF StoreTypes, PhaseInv, ChainInv
  <1>3. /\ block = log[Len(log)].block /\ block \in BlockSet
        /\ block.height = height /\ block.parent = committed[height].id
    BY <1>1, GetInserted
  <1>4. /\ idxPos' = Merge(idxPos, batch) /\ idxHeight' = height /\ batch' = EmptyMap
        /\ committed' = Append(committed, block) /\ phase' = "serving"
        /\ UNCHANGED <<log, status, height, blocks, genesis, tail, pos, lastGood, made, crashes>>
    BY Zenon DEF InsertCommit
  <1>5. UNCHANGED <<autoTrim, dirty, panic>>
    BY DEF InsertCommit
  <1> HIDE DEF block
  <1>6. /\ DOMAIN idxPos' = 0..height /\ idxPos'[height] = Len(log)
        /\ \A h \in 0..idxHeight : idxPos'[h] = idxPos[h]
    <2>1. height \notin 0..idxHeight /\ 0..height = (0..idxHeight) \cup {height}
      BY <1>2
    <2> QED
      BY <2>1, <1>2, <1>4 DEF Merge
  <1>7. /\ committed' \in Seq(BlockSet) /\ Len(committed') = height + 1
        /\ committed'[height + 1] = block
        /\ \A i \in 1..height : committed'[i] = committed[i]
        /\ committed' # <<>>
    BY <1>2, <1>3, <1>4
  <1>8. DOMAIN batch' = {}
    BY <1>4, EmptyMapFacts
  <1>9. StoreTypes'
    <2>1. DOMAIN idxPos' \subseteq Nat /\ \A h \in DOMAIN idxPos' : idxPos'[h] \in Nat \ {0}
      <3>1. ASSUME NEW h \in DOMAIN idxPos' PROVE h \in Nat /\ idxPos'[h] \in Nat \ {0}
        <4>1. h \in 0..idxHeight \/ h = height
          BY <3>1, <1>2, <1>6
        <4>2. Len(log) \in Nat \ {0}
          BY <1>2 DEF FullAt
        <4> QED
          BY <4>1, <4>2, <1>1, <1>2, <1>6 DEF StoreTypes
      <3> QED
        BY <3>1
    <2>2. (tail = FileEnd)'
      BY <1>1, <1>4, SameLog DEF StoreTypes
    <2> QED
      BY <2>1, <2>2, <1>1, <1>2, <1>4, <1>7, <1>8 DEF StoreTypes, Phases
  <1>10. FlagTypes'
    BY <1>1, <1>5 DEF FlagTypes
  <1>11. LogInv' /\ \A p : FullAt(p)' <=> FullAt(p)
    BY <1>1, <1>4, SameLog
  <1>12. ChainInv'
    <2>1. log' # <<>> /\ FullAt(1)'
      <3>1. FullAt(1)
        BY <1>1, <1>2 DEF ChainInv
      <3> QED
        BY <3>1, <1>11, <1>4, <1>2 DEF FullAt
    <2>2. ASSUME NEW h \in 0..height
          PROVE  /\ idxPos'[h] \in 1..Len(log) /\ log[idxPos'[h]].kind = "full"
                 /\ log[idxPos'[h]].block = committed'[h + 1]
                 /\ committed'[h + 1].height = h
      <3>1. CASE h \in 0..idxHeight
        <4>1. /\ FullAt(idxPos[h]) /\ log[idxPos[h]].block = committed[h + 1]
              /\ committed[h + 1].height = h
          BY <3>1, <1>1, <1>2 DEF ChainInv
        <4>2. idxPos'[h] = idxPos[h] /\ h + 1 \in 1..height
          BY <3>1, <1>2, <1>6
        <4>3. committed'[h + 1] = committed[h + 1]
          BY <4>2, <1>7
        <4> QED
          BY <4>1, <4>2, <4>3 DEF FullAt
      <3>2. CASE h = height
        BY <3>2, <1>2, <1>3, <1>6, <1>7 DEF FullAt
      <3> QED
        BY <3>1, <3>2, <1>2
    <2>3. ASSUME NEW h \in 1..height
          PROVE  committed'[h + 1].parent = committed'[h].id
      <3>1. CASE h \in 1..idxHeight
        <4>1. committed[h + 1].parent = committed[h].id
          BY <3>1, <1>1, <1>2 DEF ChainInv
        <4>2. h \in 1..height /\ h + 1 \in 1..height
          BY <3>1, <1>2
        <4> QED
          BY <4>1, <4>2, <1>7
      <3>2. CASE h = height
        BY <3>2, <1>2, <1>3, <1>7
      <3> QED
        BY <3>1, <3>2, <1>2
    <2> QED
      BY <2>1, <2>2, <2>3, <1>4, <1>6, <1>7 DEF ChainInv, FullAt
  <1>13. ReindexInv'
    BY <1>4 DEF ReindexInv
  <1>14. PhaseInv'
    BY <1>2, <1>4, <1>7 DEF PhaseInv, Up
  <1>15. CacheInv'
    <2>1. ASSUME NEW h \in DOMAIN blocks', h <= idxHeight'
          PROVE  blocks'[h] = committed'[h + 1]
      <3>1. CASE h = height
        BY <3>1, <1>2, <1>3, <1>4, <1>7
      <3>2. CASE h # height
        <4>1. h \in Nat /\ h \in DOMAIN blocks
          BY <2>1, <1>1, <1>4 DEF StoreTypes
        <4>2. h <= idxHeight /\ h + 1 \in 1..height
          BY <4>1, <3>2, <2>1, <1>2, <1>4
        <4> QED
          BY <4>1, <4>2, <1>1, <1>4, <1>7 DEF CacheInv
      <3> QED
        BY <3>1, <3>2
    <2>2. WindowAndOne(DOMAIN blocks', height')
      BY <1>1, <1>4 DEF CacheInv
    <2> QED
      BY <2>1, <2>2 DEF CacheInv
  <1> QED
    BY <1>9, <1>10, <1>11, <1>12, <1>13, <1>14, <1>15 DEF StoreInv, TypeOK

-----------------------------------------------------------------------------
(* init_state.                                                             *)

\* It loads one block more than the window.
LEMMA CacheHeightsShape ==
  ASSUME NEW top \in Nat
  PROVE  WindowAndOne(CacheHeights(top), top) /\ CacheHeights(top) \subseteq 0..top
  <1>1. CASE top >= MAX_CACHE_SIZE
    <2>1. CacheHeights(top) = Window(top) \cup {top - MAX_CACHE_SIZE}
      BY <1>1, StoreAssumption DEF CacheHeights, Window
    <2>2. {top - MAX_CACHE_SIZE} \in SUBSET (0..top)
      BY <1>1, StoreAssumption
    <2> QED
      BY <2>1, <2>2 DEF WindowAndOne, CacheHeights
  <1>2. CASE top < MAX_CACHE_SIZE
    <2>1. CacheHeights(top) = Window(top) \cup {0}
      BY <1>2, StoreAssumption DEF CacheHeights, Window
    <2>2. {0} \in SUBSET (0..top)
      OBVIOUS
    <2> QED
      BY <2>1, <2>2 DEF WindowAndOne, CacheHeights
  <1> QED
    BY <1>1, <1>2, StoreAssumption

\* A store whose index reads the blocks c starts with them.
LEMMA InitStateFacts ==
  ASSUME NEW p, NEW top \in Nat, NEW c, log # <<>>, InitState(p, top, "Complete"),
         \A h \in 0..top : ReadFromDisk(p, top, h) = c[h + 1] /\ c[h + 1] \in BlockSet
  PROVE  /\ height' = top /\ genesis' = c[1] /\ genesis' \in BlockSet
         /\ DOMAIN blocks' \subseteq 0..top
         /\ \A h \in DOMAIN blocks' : blocks'[h] = c[h + 1] /\ blocks'[h] \in BlockSet
         /\ WindowAndOne(DOMAIN blocks', height')
  <1>1. /\ height' = top /\ genesis' = ReadFromDisk(p, top, 0)
        /\ blocks' = [h \in CacheHeights(top) |-> ReadFromDisk(p, top, h)]
    BY DEF InitState, InitCache
  <1>2. 0 \in 0..top /\ 0 + 1 = 1
    OBVIOUS
  <1>3. genesis' = c[1] /\ genesis' \in BlockSet
    BY <1>1, <1>2
  <1>4. DOMAIN blocks' = CacheHeights(top)
    BY <1>1
  <1>5. WindowAndOne(CacheHeights(top), top) /\ CacheHeights(top) \subseteq 0..top
    BY CacheHeightsShape
  <1>6. WindowAndOne(DOMAIN blocks', height')
    BY <1>1, <1>4, <1>5
  <1> QED
    BY <1>1, <1>3, <1>4, <1>5, <1>6

LEMMA StartStep == StoreInv /\ Start => StoreInv'
  <1> SUFFICES ASSUME StoreInv, Start PROVE StoreInv'
    OBVIOUS
  <1>1. /\ StoreTypes /\ FlagTypes /\ LogInv /\ ChainInv /\ ReindexInv /\ TypeOK
        /\ phase = "stopped"
    BY DEF StoreInv, TypeOK, Start
  <1>2. /\ log = <<>> \/ status = "Complete"
        /\ InitReadable(idxPos, idxHeight, status)
        /\ InitState(idxPos, idxHeight, status)
        /\ tail' = FileEnd /\ phase' = IF log = <<>> THEN "genesis" ELSE "serving"
        /\ UNCHANGED <<log, status, idxHeight, idxPos, batch, pos, lastGood, made,
                       committed, crashes>>
    BY DEF Start, disk
  <1>3. autoTrim' = autoTrim /\ panic' = panic /\ (dirty' = (dirty \/ ~TailClean))
    BY DEF Start
  <1>4. FlagTypes'
    BY <1>1, <1>3 DEF FlagTypes
  <1>5. LogInv' /\ ChainInv' /\ FileEnd' = FileEnd
    BY <1>1, <1>2, ChainInvSame, SameLog
  <1>6. idxHeight \in Nat /\ DOMAIN batch = {} /\ pos = 1 /\ lastGood = 0
    BY <1>1 DEF StoreTypes, ReindexInv
  <1>7. CASE log = <<>>
    <2>1. /\ phase' = "genesis" /\ DOMAIN idxPos = {} /\ idxHeight = 0
          /\ height' = 0 /\ genesis' = None /\ DOMAIN blocks' = {}
      <3>1. phase' = "genesis" /\ DOMAIN idxPos = {} /\ idxHeight = 0
        BY <1>1, <1>2, <1>7 DEF ChainInv
      <3>2. /\ height' = idxHeight /\ genesis' = ReadFromDisk(idxPos, idxHeight, 0)
            /\ blocks' = EmptyMap
        BY <1>2, <1>7 DEF InitState
      <3> QED
        BY <3>1, <3>2, EmptyMapFacts DEF ReadFromDisk
    <2>2. StoreTypes'
      BY <2>1, <1>1, <1>2, <1>5 DEF StoreTypes, Phases
    <2>3. ReindexInv'
      BY <2>1, <1>2, <1>6 DEF ReindexInv
    <2>4. PhaseInv' /\ CacheInv'
      BY <2>1, <1>2, <1>7 DEF PhaseInv, CacheInv, Up
    <2> QED
      BY <2>2, <2>3, <2>4, <1>4, <1>5 DEF StoreInv, TypeOK
  <1>8. CASE log # <<>>
    <2>1. status = "Complete" /\ phase' = "serving"
      BY <1>2, <1>8
    <2>2. committed # <<>>
      <3>1. SUFFICES ASSUME committed = <<>> PROVE FALSE
        OBVIOUS
      <3>2. DOMAIN idxPos = {} /\ idxHeight = 0
        BY <3>1, <2>1, <1>1 DEF ChainInv
      <3>3. 0 \in CacheHeights(idxHeight)
        BY <3>2, StoreAssumption DEF CacheHeights
      <3>4. ReadFromDisk(idxPos, idxHeight, 0) # None
        BY <3>3, <2>1, <1>2, <1>8 DEF InitReadable
      <3> QED
        BY <3>2, <3>4 DEF ReadFromDisk
    <2>3. \A h \in 0..idxHeight :
             ReadFromDisk(idxPos, idxHeight, h) = committed[h + 1] /\ committed[h + 1] \in BlockSet
      BY <2>1, <2>2, <1>1, <1>6, IndexReads
    <2>4. InitState(idxPos, idxHeight, "Complete")
      BY <1>2, <2>1
    <2>5. /\ height' = idxHeight /\ genesis' = committed[1] /\ genesis' \in BlockSet
          /\ DOMAIN blocks' \subseteq 0..idxHeight
          /\ \A h \in DOMAIN blocks' : blocks'[h] = committed[h + 1] /\ blocks'[h] \in BlockSet
          /\ WindowAndOne(DOMAIN blocks', height')
      BY <2>3, <2>4, <1>6, <1>8, InitStateFacts
    <2>6. DOMAIN blocks' \subseteq Nat
      BY <2>5, <1>6
    <2>7. StoreTypes'
      BY <2>1, <2>5, <2>6, <1>1, <1>2, <1>5, <1>6 DEF StoreTypes, Phases
    <2>8. ReindexInv'
      BY <2>1 DEF ReindexInv
    <2>9. PhaseInv' /\ CacheInv'
      BY <2>1, <2>2, <2>5, <1>2 DEF PhaseInv, CacheInv, Up
    <2> QED
      BY <2>7, <2>8, <2>9, <1>4, <1>5 DEF StoreInv, TypeOK
  <1> QED
    BY <1>7, <1>8

\* Nothing changes but the record of the panic.
LEMMA StartPanicsStep == StoreInv /\ StartPanics => StoreInv'
  <1> SUFFICES ASSUME StoreInv, StartPanics PROVE StoreInv'
    OBVIOUS
  <1>1. UNCHANGED <<log, status, idxHeight, idxPos, phase, height, blocks, genesis, tail,
                    batch, pos, lastGood, made, committed, crashes>>
    BY DEF StartPanics, disk, memory
  <1>2. autoTrim' = autoTrim /\ dirty' = dirty /\ (panic' = panic \/ panic' = "unreadable")
    BY DEF StartPanics, memory, RecordPanic
  <1>3. FlagTypes'
    BY <1>2 DEF StoreInv, TypeOK, FlagTypes, Panics
  <1>4. StoreTypes'
    BY <1>1 DEF StoreInv, TypeOK, StoreTypes, FileEnd
  <1>5. LogInv' /\ ChainInv'
    BY <1>1, SameLog, ChainInvSame DEF StoreInv
  <1>6. ReindexInv'
    BY <1>1 DEF StoreInv, ReindexInv, FileEnd, ConsecutiveTo, FullAt
  <1>7. PhaseInv'
    BY <1>1 DEF StoreInv, PhaseInv, Up, FullAt
  <1>8. CacheInv'
    BY <1>1 DEF StoreInv, CacheInv, Up
  <1> QED
    BY <1>3, <1>4, <1>5, <1>6, <1>7, <1>8 DEF StoreInv, TypeOK

LEMMA StartReindexStep ==
  ASSUME StoreInv, NEW trim \in BOOLEAN, StartReindex(trim)
  PROVE  StoreInv'
  <1>1. StoreTypes /\ FlagTypes /\ LogInv /\ ChainInv /\ ReindexInv /\ phase = "stopped"
    BY DEF StoreInv, TypeOK, StartReindex
  <1>2. /\ log # <<>> /\ status' = "None" /\ idxHeight' = 0 /\ idxPos' = EmptyMap
        /\ InitState(EmptyMap, 0, "None") /\ tail' = FileEnd /\ phase' = "reindexing"
        /\ UNCHANGED <<log, batch, pos, lastGood, made, committed, crashes>>
    BY DEF StartReindex, history
  <1>3. autoTrim' = trim /\ dirty' = dirty /\ panic' = panic
    BY DEF StartReindex, history
  <1>4. height' = 0 /\ genesis' = None /\ DOMAIN blocks' = {} /\ DOMAIN idxPos' = {}
    BY <1>2, EmptyMapFacts DEF InitState, ReadFromDisk
  <1>5. /\ DOMAIN batch = {} /\ pos = 1 /\ lastGood = 0 /\ log \in Seq(RecordSet)
        /\ Len(log) \in Nat
    BY <1>1 DEF ReindexInv, StoreTypes
  <1>6. StoreTypes'
    BY <1>1, <1>2, <1>4, SameLog DEF StoreTypes, Phases
  <1>7. FlagTypes'
    BY <1>1, <1>3 DEF FlagTypes
  <1>8. LogInv' /\ FileEnd' = FileEnd /\ (FullAt(1)' <=> FullAt(1))
    BY <1>1, <1>2, SameLog
  <1>9. ChainInv'
    BY <1>1, <1>2, <1>4, <1>8 DEF ChainInv
  <1>10. ReindexInv'
    <2>1. pos' \in 1..FileEnd'
      BY <1>2, <1>5, <1>8 DEF FileEnd
    <2>2. ConsecutiveTo(pos - 1)'
      BY <1>2, <1>5 DEF ConsecutiveTo
    <2> QED
      BY <2>1, <2>2, <1>2, <1>4, <1>5 DEF ReindexInv
  <1>11. PhaseInv' /\ CacheInv'
    BY <1>2 DEF PhaseInv, CacheInv, Up
  <1> QED
    BY <1>6, <1>7, <1>8, <1>9, <1>10, <1>11 DEF StoreInv, TypeOK

-----------------------------------------------------------------------------
(* reindex_blocks.                                                         *)

\* Where the loop stands.
LEMMA ReindexFacts ==
  ASSUME StoreInv, phase \in {"reindexing", "reindexed", "completing"}
  PROVE  /\ status = "None" /\ pos \in 1..(Len(log) + 1) /\ pos \in Nat \ {0}
         /\ ConsecutiveTo(pos - 1) /\ log \in Seq(RecordSet) /\ Len(log) \in Nat
         /\ pos = 1 => lastGood = 0
         /\ pos # 1 => lastGood = pos - 2
         /\ tail = FileEnd /\ ~Up
  <1>1. StoreTypes /\ ReindexInv
    BY DEF StoreInv, TypeOK
  <1>2. log \in Seq(RecordSet) /\ Len(log) \in Nat /\ pos \in Nat \ {0} /\ tail = FileEnd
    BY <1>1 DEF StoreTypes
  <1> QED
    BY <1>1, <1>2 DEF ReindexInv, FileEnd, Up

\* A block that reindex_blocks accepts has the height of its place in the log,
\* the second one too, which HeightFollows does not check.
LEMMA AcceptedHeight ==
  ASSUME StoreInv, phase = "reindexing", FullAt(pos), HeightFollows(log[pos].block.height)
  PROVE  log[pos].block.height = pos - 1
  <1>1. /\ pos \in Nat \ {0} /\ ConsecutiveTo(pos - 1) /\ log \in Seq(RecordSet)
        /\ pos = 1 => lastGood = 0
        /\ pos # 1 => lastGood = pos - 2
    BY ReindexFacts
  <1>2. LogInv
    BY DEF StoreInv
  <1>3. CASE pos = 1
    BY <1>2, <1>3 DEF LogInv
  <1>4. CASE pos = 2
    <2>1. FullAt(1)
      BY <1>1, <1>4 DEF ConsecutiveTo
    <2> QED
      BY <2>1, <1>2, <1>4 DEF LogInv
  <1>5. CASE pos # 1 /\ pos # 2
    BY <1>1, <1>5 DEF HeightFollows
  <1> QED
    BY <1>3, <1>4, <1>5

\* The first block of a committed chain is always accepted.
LEMMA FirstAccepted ==
  ASSUME StoreInv, phase = "reindexing", pos = 1, committed # <<>>
  PROVE  /\ ReadOutcomes(pos) = {"Ok"}
         /\ HeightFollows(log[pos].block.height)
  <1>1. log \in Seq(RecordSet) /\ lastGood = 0
    BY ReindexFacts
  <1>2. FullAt(1)
    BY DEF StoreInv, ChainInv
  <1> QED
    BY <1>1, <1>2, ReadFull DEF HeightFollows

LEMMA ReindexBlockStep == StoreInv /\ ReindexBlock => StoreInv'
  <1> SUFFICES ASSUME StoreInv, ReindexBlock PROVE StoreInv'
    OBVIOUS
  <1>1. /\ StoreTypes /\ FlagTypes /\ LogInv /\ ChainInv /\ ReindexInv
        /\ phase = "reindexing"
    BY DEF StoreInv, TypeOK, ReindexBlock
  <1>2. /\ "Ok" \in ReadOutcomes(pos) /\ HeightFollows(log[pos].block.height)
        /\ batch' = Put(batch, log[pos].block.height, pos)
        /\ lastGood' = log[pos].block.height /\ pos' = pos + 1
        /\ UNCHANGED <<log, status, idxHeight, idxPos, phase, height, blocks, genesis, tail,
                       made, committed, crashes>>
    BY DEF ReindexBlock, disk, history
  <1>3. UNCHANGED <<autoTrim, dirty, panic>>
    BY DEF ReindexBlock, history
  <1>4. /\ status = "None" /\ pos \in 1..(Len(log) + 1) /\ pos \in Nat \ {0}
        /\ ConsecutiveTo(pos - 1) /\ log \in Seq(RecordSet) /\ Len(log) \in Nat
    BY <1>1, ReindexFacts
  <1>5. FullAt(pos) /\ pos \in 1..Len(log)
    BY <1>2, <1>4, ReadOk DEF FullAt
  <1>6. log[pos].block.height = pos - 1
    BY <1>1, <1>2, <1>5, AcceptedHeight
  <1>7. /\ DOMAIN idxPos = {} /\ idxHeight = 0
        /\ DOMAIN batch = 0..(pos - 2) /\ \A h \in 0..(pos - 2) : batch[h] = h + 1
    BY <1>1 DEF ReindexInv
  <1>8. DOMAIN batch' = 0..(pos - 1) /\ \A h \in 0..(pos - 1) : batch'[h] = h + 1
    <2>1. batch' = Put(batch, pos - 1, pos)
      BY <1>2, <1>6
    <2>2. 0..(pos - 1) = (0..(pos - 2)) \cup {pos - 1}
      BY <1>4
    <2>3. DOMAIN batch' = 0..(pos - 1)
      BY <2>1, <2>2, <1>7 DEF Put
    <2>4. ASSUME NEW h \in 0..(pos - 1) PROVE batch'[h] = h + 1
      <3>1. CASE h = pos - 1
        BY <3>1, <2>1, <1>4 DEF Put
      <3>2. CASE h # pos - 1
        <4>1. h \in 0..(pos - 2)
          BY <3>2, <1>4
        <4> QED
          BY <4>1, <3>2, <2>1, <1>7 DEF Put
      <3> QED
        BY <3>1, <3>2
    <2> QED
      BY <2>3, <2>4
  <1>9. ConsecutiveTo(pos)
    <2>1. ASSUME NEW q \in 1..pos PROVE FullAt(q) /\ log[q].block.height = q - 1
      <3>1. CASE q = pos
        BY <3>1, <1>5, <1>6
      <3>2. CASE q # pos
        <4>1. q \in 1..(pos - 1)
          BY <3>2, <1>4
        <4> QED
          BY <4>1, <1>4 DEF ConsecutiveTo
      <3> QED
        BY <3>1, <3>2
    <2> QED
      BY <2>1 DEF ConsecutiveTo
  <1>10. StoreTypes'
    <2>1. DOMAIN batch' \subseteq Nat /\ \A h \in DOMAIN batch' : batch'[h] \in Nat \ {0}
      BY <1>4, <1>8
    <2>2. pos' \in Nat \ {0} /\ lastGood' \in Nat
      BY <1>2, <1>4, <1>6
    <2>3. FileEnd' = FileEnd
      BY <1>2, SameLog
    <2> QED
      BY <2>1, <2>2, <2>3, <1>1, <1>2 DEF StoreTypes
  <1>11. FlagTypes'
    BY <1>1, <1>3 DEF FlagTypes
  <1>12. LogInv' /\ ChainInv'
    BY <1>1, <1>2, SameLog, ChainInvSame
  <1>13. ReindexInv'
    <2>1. ConsecutiveTo(pos - 1)'
      <3>1. pos' - 1 = pos /\ log' = log
        BY <1>2, <1>4
      <3> QED
        BY <3>1, <1>9 DEF ConsecutiveTo, FullAt
    <2>2. pos' \in 1..FileEnd' /\ pos' # 1 /\ lastGood' = pos' - 2 /\ pos' - 2 = pos - 1
      BY <1>2, <1>4, <1>5, <1>6 DEF FileEnd
    <2> QED
      BY <2>1, <2>2, <1>1, <1>2, <1>4, <1>7, <1>8 DEF ReindexInv
  <1>14. PhaseInv' /\ CacheInv'
    BY <1>1, <1>2 DEF PhaseInv, CacheInv, Up
  <1> QED
    BY <1>10, <1>11, <1>12, <1>13, <1>14 DEF StoreInv, TypeOK

\* The log is cut behind the blocks accepted; a committed chain keeps at least
\* its first block.
LEMMA TruncateStep ==
  ASSUME StoreInv, phase = "reindexing", TruncateOrPanic, autoTrim, committed # <<>> => pos # 1
  PROVE  StoreInv'
  <1>1. /\ StoreTypes /\ FlagTypes /\ LogInv /\ ChainInv /\ ReindexInv
    BY DEF StoreInv, TypeOK
  <1>2. /\ log' = SubSeq(log, 1, pos - 1) /\ tail' = pos /\ phase' = "reindexed"
        /\ UNCHANGED <<status, idxHeight, idxPos, height, blocks, genesis, batch,
                       pos, lastGood, made, committed, crashes>>
    BY Zenon DEF TruncateOrPanic, history
  <1>3. UNCHANGED <<autoTrim, dirty, panic>>
    BY Zenon DEF TruncateOrPanic, history
  <1>4. /\ status = "None" /\ pos \in 1..(Len(log) + 1) /\ pos \in Nat \ {0}
        /\ ConsecutiveTo(pos - 1) /\ log \in Seq(RecordSet) /\ Len(log) \in Nat
        /\ pos = 1 => lastGood = 0
        /\ pos # 1 => lastGood = pos - 2
    BY ReindexFacts
  <1>5. pos - 1 \in 0..Len(log) /\ pos - 1 \in 0..(pos - 1)
    BY <1>4
  <1>6. /\ log' \in Seq(RecordSet) /\ Len(log') = pos - 1
        /\ \A p \in 1..(pos - 1) : log'[p] = log[p]
        /\ \A p \in 1..(pos - 1) : FullAt(p) <=> FullAt(p)'
    BY <1>2, <1>4, <1>5, CutFacts
  <1>7. FileEnd' = pos
    BY <1>4, <1>6 DEF FileEnd
  <1>8. LogInv'
    BY <1>1, <1>2, <1>4, <1>5, LogInvCut
  <1>9. ChainInv'
    <2>1. committed' # <<>> => FullAt(1)'
      <3>1. SUFFICES ASSUME committed # <<>> PROVE FullAt(1)'
        BY <1>2
      <3>2. 1 \in 1..(pos - 1) /\ FullAt(1)
        BY <3>1, <1>1, <1>4 DEF ChainInv
      <3> QED
        BY <3>2, <1>6
    <2>2. DOMAIN idxPos' = {} /\ idxHeight' = 0 /\ status' = "None"
      BY <1>1, <1>2, <1>4 DEF ReindexInv
    <2> QED
      BY <2>1, <2>2 DEF ChainInv
  <1>10. StoreTypes'
    BY <1>1, <1>2, <1>6, <1>7 DEF StoreTypes, Phases
  <1>11. FlagTypes'
    BY <1>1, <1>3 DEF FlagTypes
  <1>12. ReindexInv'
    <2>1. ASSUME NEW q \in 1..(pos - 1)
          PROVE  q \in 1..Len(log') /\ log'[q].kind = "full" /\ log'[q].block.height = q - 1
      BY <2>1, <1>4, <1>6 DEF ConsecutiveTo, FullAt
    <2>2. ConsecutiveTo(pos - 1)'
      BY <2>1, <1>2 DEF ConsecutiveTo, FullAt
    <2>3. pos' \in 1..FileEnd'
      BY <1>2, <1>4, <1>7
    <2> QED
      BY <2>2, <2>3, <1>1, <1>2, <1>4 DEF ReindexInv
  <1>13. PhaseInv' /\ CacheInv'
    BY <1>2 DEF PhaseInv, CacheInv, Up
  <1> QED
    BY <1>8, <1>9, <1>10, <1>11, <1>12, <1>13 DEF StoreInv, TypeOK

LEMMA TruncateOrPanicStep ==
  ASSUME StoreInv, phase = "reindexing", TruncateOrPanic, committed # <<>> => pos # 1
  PROVE  StoreInv'
  <1>1. CASE autoTrim
    BY <1>1, TruncateStep
  <1>2. CASE ~autoTrim
    <2>1. Panic("noTrim") /\ "noTrim" \in {"noTrim", "crc"}
      BY <1>2 DEF TruncateOrPanic
    <2> QED
      BY <2>1, PanicStep
  <1> QED
    BY <1>1, <1>2

LEMMA ReindexBadHeightStep == StoreInv /\ ReindexBadHeight => StoreInv'
  <1> SUFFICES ASSUME StoreInv, ReindexBadHeight PROVE StoreInv'
    OBVIOUS
  <1>1. phase = "reindexing" /\ TruncateOrPanic /\ ~HeightFollows(log[pos].block.height)
    BY DEF ReindexBadHeight
  <1> QED
    BY <1>1, FirstAccepted, TruncateOrPanicStep

LEMMA ReindexCorruptStep == StoreInv /\ ReindexCorrupt => StoreInv'
  <1> SUFFICES ASSUME StoreInv, ReindexCorrupt PROVE StoreInv'
    OBVIOUS
  <1>1. phase = "reindexing" /\ TruncateOrPanic /\ "CorruptBlock" \in ReadOutcomes(pos)
    BY DEF ReindexCorrupt
  <1>2. ReadOutcomes(pos) # {"Ok"}
    BY <1>1
  <1> QED
    BY <1>1, <1>2, FirstAccepted, TruncateOrPanicStep

LEMMA ReindexEofStep == StoreInv /\ ReindexEof => StoreInv'
  <1> SUFFICES ASSUME StoreInv, ReindexEof PROVE StoreInv'
    OBVIOUS
  <1>1. /\ StoreTypes /\ FlagTypes /\ LogInv /\ ChainInv /\ ReindexInv
        /\ phase = "reindexing" /\ "Eof" \in ReadOutcomes(pos) /\ phase' = "reindexed"
    BY DEF StoreInv, TypeOK, ReindexEof
  <1>2. UNCHANGED <<log, status, idxHeight, idxPos, height, blocks, genesis, tail, batch,
                    pos, lastGood, made, committed, crashes>>
    BY DEF ReindexEof, disk, memory, history
  <1>3. UNCHANGED <<autoTrim, dirty, panic>>
    BY DEF ReindexEof, memory, history
  <1>4. pos = 1 => committed = <<>>
    BY <1>1, FirstAccepted
  <1>5. StoreTypes'
    BY <1>1, <1>2, SameLog DEF StoreTypes, Phases
  <1>6. FlagTypes'
    BY <1>1, <1>3 DEF FlagTypes
  <1>7. LogInv' /\ ChainInv'
    BY <1>1, <1>2, SameLog, ChainInvSame
  <1>8. ReindexInv'
    BY <1>1, <1>2, <1>4 DEF ReindexInv, ConsecutiveTo, FullAt, FileEnd
  <1>9. PhaseInv' /\ CacheInv'
    BY <1>1 DEF PhaseInv, CacheInv, Up
  <1> QED
    BY <1>5, <1>6, <1>7, <1>8, <1>9 DEF StoreInv, TypeOK

LEMMA ReindexBadCrcStep == StoreInv /\ ReindexBadCrc => StoreInv'
  BY PanicStep DEF ReindexBadCrc

LEMMA ReindexCommitStep == StoreInv /\ ReindexCommit => StoreInv'
  <1> SUFFICES ASSUME StoreInv, ReindexCommit PROVE StoreInv'
    OBVIOUS
  <1>1. /\ StoreTypes /\ FlagTypes /\ LogInv /\ ChainInv /\ ReindexInv
        /\ phase = "reindexed"
    BY DEF StoreInv, TypeOK, ReindexCommit
  <1>2. /\ idxPos' = Merge(idxPos, batch) /\ idxHeight' = lastGood /\ batch' = EmptyMap
        /\ phase' = "completing"
        /\ UNCHANGED <<log, status, height, blocks, genesis, tail, pos, lastGood,
                       made, committed, crashes>>
    BY DEF ReindexCommit, history
  <1>3. UNCHANGED <<autoTrim, dirty, panic>>
    BY DEF ReindexCommit, history
  <1>4. /\ status = "None" /\ pos \in 1..(Len(log) + 1) /\ pos \in Nat \ {0}
        /\ ConsecutiveTo(pos - 1) /\ log \in Seq(RecordSet) /\ Len(log) \in Nat
        /\ pos = 1 => lastGood = 0
        /\ pos # 1 => lastGood = pos - 2
    BY <1>1, ReindexFacts
  <1>5. /\ DOMAIN idxPos = {} /\ DOMAIN batch = 0..(pos - 2)
        /\ \A h \in 0..(pos - 2) : batch[h] = h + 1
        /\ pos = 1 => committed = <<>>
    BY <1>1 DEF ReindexInv
  <1>6. /\ DOMAIN idxPos' = 0..(pos - 2) /\ DOMAIN batch' = {}
        /\ \A h \in 0..(pos - 2) : idxPos'[h] = h + 1
    BY <1>2, <1>5, EmptyMapFacts DEF Merge
  <1>7. StoreTypes'
    <2>1. DOMAIN idxPos' \subseteq Nat /\ \A h \in DOMAIN idxPos' : idxPos'[h] \in Nat \ {0}
      BY <1>4, <1>6
    <2>2. lastGood \in Nat
      BY <1>1 DEF StoreTypes
    <2> QED
      BY <2>1, <2>2, <1>1, <1>2, <1>6, SameLog DEF StoreTypes, Phases
  <1>8. FlagTypes'
    BY <1>1, <1>3 DEF FlagTypes
  <1>9. LogInv'
    BY <1>1, <1>2, SameLog
  <1>10. ChainInv'
    <2>1. committed' # <<>> => FullAt(1)'
      BY <1>1, <1>2 DEF ChainInv, FullAt
    <2>2. log' = <<>> => DOMAIN idxPos' = {} /\ idxHeight' = 0
      <3>1. SUFFICES ASSUME log = <<>> PROVE DOMAIN idxPos' = {} /\ idxHeight' = 0
        BY <1>2
      <3>2. pos = 1
        BY <3>1, <1>4
      <3> QED
        BY <3>2, <1>2, <1>4, <1>6
    <2>3. ASSUME NEW h \in DOMAIN idxPos' PROVE FullAt(idxPos[h])'
      <3>1. idxPos'[h] = h + 1 /\ h + 1 \in 1..(pos - 1)
        BY <1>4, <1>6
      <3>2. FullAt(h + 1)
        BY <3>1, <1>4 DEF ConsecutiveTo
      <3> QED
        BY <3>1, <3>2, <1>2 DEF FullAt
    <2> QED
      BY <2>1, <2>2, <2>3, <1>2, <1>4 DEF ChainInv
  <1>11. ReindexInv'
    <2>1. ConsecutiveTo(pos - 1)' /\ FileEnd' = Len(log) + 1
      BY <1>2, <1>4 DEF ConsecutiveTo, FullAt, FileEnd
    <2> QED
      BY <2>1, <1>2, <1>4, <1>5, <1>6 DEF ReindexInv
  <1>12. PhaseInv' /\ CacheInv'
    BY <1>2 DEF PhaseInv, CacheInv, Up
  <1> QED
    BY <1>7, <1>8, <1>9, <1>10, <1>11, <1>12 DEF StoreInv, TypeOK

\* The index that a reindex has committed reads the log from its beginning.
LEMMA CompletingReads ==
  ASSUME StoreInv, phase = "completing", 0 \in DOMAIN idxPos
  PROVE  /\ pos # 1 /\ idxHeight = pos - 2 /\ idxHeight \in Nat
         /\ DOMAIN idxPos = 0..idxHeight /\ log # <<>>
         /\ \A h \in 0..idxHeight :
               /\ ReadFromDisk(idxPos, idxHeight, h) = log[h + 1].block
               /\ idxPos[h] = h + 1
               /\ FullAt(h + 1) /\ log[h + 1].block \in BlockSet
               /\ log[h + 1].block # None
               /\ log[h + 1].block.height = h
         /\ InitReadable(idxPos, idxHeight, "Complete")
  <1>1. /\ pos \in 1..(Len(log) + 1) /\ pos \in Nat \ {0}
        /\ ConsecutiveTo(pos - 1) /\ log \in Seq(RecordSet) /\ Len(log) \in Nat
        /\ pos = 1 => lastGood = 0
        /\ pos # 1 => lastGood = pos - 2
    BY ReindexFacts
  <1>2. /\ idxHeight = lastGood /\ DOMAIN idxPos = 0..(pos - 2)
        /\ \A h \in 0..(pos - 2) : idxPos[h] = h + 1
    BY DEF StoreInv, ReindexInv
  <1>3. pos # 1 /\ idxHeight = pos - 2 /\ idxHeight \in Nat /\ DOMAIN idxPos = 0..idxHeight
    BY <1>1, <1>2
  <1>4. ASSUME NEW h \in 0..idxHeight
        PROVE  /\ ReadFromDisk(idxPos, idxHeight, h) = log[h + 1].block
               /\ idxPos[h] = h + 1
               /\ FullAt(h + 1) /\ log[h + 1].block \in BlockSet
               /\ log[h + 1].block # None
               /\ log[h + 1].block.height = h
    <2>1. idxPos[h] = h + 1 /\ h + 1 \in 1..(pos - 1) /\ h <= idxHeight
      <3>1. h \in 0..(pos - 2)
        BY <1>3
      <3> QED
        BY <3>1, <1>1, <1>2, <1>3
    <2>2. FullAt(h + 1) /\ log[h + 1].block.height = h
      BY <2>1, <1>1 DEF ConsecutiveTo
    <2>3. RawRead(h + 1) = log[h + 1].block
      BY <2>2, <1>1, ReadFull
    <2>4. ReadFromDisk(idxPos, idxHeight, h) = RawRead(idxPos[h])
      BY <1>3, <2>1 DEF ReadFromDisk
    <2>5. log[h + 1].block \in BlockSet /\ log[h + 1].block # None
      BY <2>2, <1>1, RecordFacts
    <2> QED
      BY <2>1, <2>2, <2>3, <2>4, <2>5
  <1>5. log # <<>>
    <2>1. 0 \in 0..idxHeight
      BY <1>3
    <2> QED
      BY <2>1, <1>4 DEF FullAt
  <1>6. InitReadable(idxPos, idxHeight, "Complete")
    <2>1. CacheHeights(idxHeight) \subseteq 0..idxHeight
      BY <1>3, CacheHeightsShape
    <2> QED
      BY <2>1, <1>4 DEF InitReadable
  <1> QED
    BY <1>3, <1>4, <1>5, <1>6

LEMMA ReindexCompleteStep == StoreInv /\ ReindexComplete => StoreInv'
  <1> SUFFICES ASSUME StoreInv, ReindexComplete PROVE StoreInv'
    OBVIOUS
  <1>1. /\ StoreTypes /\ FlagTypes /\ LogInv /\ ChainInv /\ ReindexInv /\ TypeOK
        /\ phase = "completing" /\ status' = "Complete"
        /\ UNCHANGED <<log, idxHeight, idxPos, made, crashes>>
    BY DEF StoreInv, TypeOK, ReindexComplete
  <1>2. /\ log \in Seq(RecordSet) /\ tail = FileEnd
        /\ idxHeight = lastGood /\ DOMAIN batch = {} /\ DOMAIN idxPos = 0..(pos - 2)
        /\ pos = 1 => committed = <<>> /\ lastGood = 0
        /\ pos \in Nat \ {0}
    BY <1>1, ReindexFacts DEF ReindexInv
  <1>3. CASE 0 \in DOMAIN idxPos
    <2>1. /\ pos # 1 /\ idxHeight = pos - 2 /\ idxHeight \in Nat
          /\ DOMAIN idxPos = 0..idxHeight /\ log # <<>>
          /\ \A h \in 0..idxHeight :
                /\ ReadFromDisk(idxPos, idxHeight, h) = log[h + 1].block
                /\ idxPos[h] = h + 1
                /\ FullAt(h + 1) /\ log[h + 1].block \in BlockSet
                /\ log[h + 1].block.height = h
          /\ InitReadable(idxPos, idxHeight, "Complete")
      BY <1>1, <1>3, CompletingReads
    <2>2. /\ InitState(idxPos, idxHeight, "Complete") /\ phase' = "serving"
          /\ committed' = [i \in 1..(idxHeight + 1) |-> ReadFromDisk(idxPos, idxHeight, i - 1)]
          /\ pos' = 1 /\ lastGood' = 0 /\ UNCHANGED <<tail, batch>>
      BY <2>1, <1>3 DEF ReindexComplete
    <2>3. autoTrim' = FALSE /\ panic' = panic /\ (dirty' = (dirty /\ ~autoTrim))
      BY <2>1, <1>3, Zenon DEF ReindexComplete
    <2>4. /\ committed' \in Seq(BlockSet) /\ Len(committed') = idxHeight + 1
          /\ \A h \in 0..idxHeight : committed'[h + 1] = log[h + 1].block
      <3>1. ASSUME NEW i \in 1..(idxHeight + 1)
            PROVE  committed'[i] = log[i].block /\ committed'[i] \in BlockSet
        <4>1. i - 1 \in 0..idxHeight /\ (i - 1) + 1 = i
          BY <2>1
        <4>2. /\ ReadFromDisk(idxPos, idxHeight, i - 1) = log[i].block
              /\ log[i].block \in BlockSet
          BY <4>1, <2>1
        <4> QED
          BY <4>2, <2>2
      <3>2. /\ idxHeight + 1 \in Nat
            /\ committed' = [i \in 1..(idxHeight + 1) |-> committed'[i]]
        BY <2>1, <2>2
      <3>3. committed' \in Seq(BlockSet) /\ Len(committed') = idxHeight + 1
        BY <3>1, <3>2
      <3>4. \A h \in 0..idxHeight : h + 1 \in 1..(idxHeight + 1)
        BY <2>1
      <3> QED
        BY <3>1, <3>3, <3>4
    <2>5. committed' # <<>> /\ committed'[1] = log[1].block
      <3>1. 0 \in 0..idxHeight /\ 0 + 1 = 1
        BY <2>1
      <3> QED
        BY <2>1, <2>4, <3>1
    <2>6. \A h \in 0..idxHeight :
             /\ ReadFromDisk(idxPos, idxHeight, h) = committed'[h + 1]
             /\ committed'[h + 1] \in BlockSet /\ committed'[h + 1].height = h
      BY <2>1, <2>4
    <2>7. /\ height' = idxHeight /\ genesis' = committed'[1] /\ genesis' \in BlockSet
          /\ DOMAIN blocks' \subseteq 0..idxHeight
          /\ \A h \in DOMAIN blocks' : blocks'[h] = committed'[h + 1] /\ blocks'[h] \in BlockSet
          /\ WindowAndOne(DOMAIN blocks', height')
      <3>1. PICK c : c = committed'
        OBVIOUS
      <3>2. \A h \in 0..idxHeight :
               ReadFromDisk(idxPos, idxHeight, h) = c[h + 1] /\ c[h + 1] \in BlockSet
        BY <3>1, <2>6
      <3>3. /\ height' = idxHeight /\ genesis' = c[1] /\ genesis' \in BlockSet
            /\ DOMAIN blocks' \subseteq 0..idxHeight
            /\ \A h \in DOMAIN blocks' : blocks'[h] = c[h + 1] /\ blocks'[h] \in BlockSet
            /\ WindowAndOne(DOMAIN blocks', height')
        <4>1. idxHeight \in Nat /\ log # <<>> /\ InitState(idxPos, idxHeight, "Complete")
          BY <2>1, <2>2
        <4> QED
          BY <4>1, <3>2, InitStateFacts
      <3> QED
        BY <3>1, <3>3
    <2>8. LogInv' /\ FileEnd' = FileEnd
      BY <1>1, SameLog
    <2>9. StoreTypes'
      <3>1. DOMAIN blocks' \subseteq Nat
        BY <2>1, <2>7
      <3>2. /\ \A h \in DOMAIN blocks' : blocks'[h] \in BlockSet
            /\ height' \in Nat /\ genesis' \in BlockSet /\ committed' \in Seq(BlockSet)
        BY <2>1, <2>4, <2>7
      <3>3. /\ phase' = "serving" /\ pos' = 1 /\ lastGood' = 0 /\ DOMAIN batch' = {}
            /\ tail' = FileEnd'
        BY <1>2, <2>2, <2>8
      <3> QED
        BY <3>1, <3>2, <3>3, <1>1 DEF StoreTypes, Phases
    <2>10. FlagTypes'
      BY <1>1, <2>3 DEF FlagTypes
    <2>11. ChainInv'
      <3>1. FullAt(1)'
        <4>1. 0 \in 0..idxHeight /\ 0 + 1 = 1
          BY <2>1
        <4>2. FullAt(1)
          BY <4>1, <2>1
        <4> QED
          BY <4>2, <1>1 DEF FullAt
      <3>2. ASSUME NEW h \in 0..idxHeight
            PROVE  /\ idxPos[h] \in 1..Len(log) /\ log[idxPos[h]].kind = "full"
                   /\ log[idxPos[h]].block = committed'[h + 1]
                   /\ committed'[h + 1].height = h
        BY <2>1, <2>4 DEF FullAt
      <3>3. ASSUME NEW h \in 1..idxHeight
            PROVE  committed'[h + 1].parent = committed'[h].id
        <4>1. /\ h \in 0..idxHeight /\ h - 1 \in 0..idxHeight /\ (h - 1) + 1 = h
              /\ h + 1 \in 2..Len(log) /\ (h + 1) - 1 = h
          <5>1. h \in 0..idxHeight /\ h - 1 \in 0..idxHeight /\ (h - 1) + 1 = h /\ h + 1 >= 2
            BY <2>1
          <5>2. h + 1 \in 1..Len(log)
            BY <5>1, <2>1 DEF FullAt
          <5> QED
            BY <5>1, <5>2, <2>1
        <4>2. ConsecutiveTo(h + 1)
          <5>1. ASSUME NEW q \in 1..(h + 1)
                PROVE  FullAt(q) /\ log[q].block.height = q - 1
            <6>1. q - 1 \in 0..idxHeight /\ (q - 1) + 1 = q
              BY <2>1
            <6> QED
              BY <6>1, <2>1
          <5> QED
            BY <5>1 DEF ConsecutiveTo
        <4>3. log[h + 1].block.parent = log[h].block.id
          BY <4>1, <4>2, <1>1 DEF LogInv
        <4>4. committed'[h + 1] = log[h + 1].block /\ committed'[h] = log[h].block
          BY <4>1, <2>4
        <4> QED
          BY <4>3, <4>4
      <3> QED
        BY <3>1, <3>2, <3>3, <1>1, <2>1, <2>4, <2>5 DEF ChainInv, FullAt
    <2>12. ReindexInv'
      BY <2>2 DEF ReindexInv
    <2>13. PhaseInv' /\ CacheInv'
      BY <1>1, <2>2, <2>5, <2>7 DEF PhaseInv, CacheInv, Up
    <2> QED
      BY <2>8, <2>9, <2>10, <2>11, <2>12, <2>13 DEF StoreInv, TypeOK
  <1>4. CASE 0 \notin DOMAIN idxPos
    <2>1. pos = 1 /\ committed = <<>> /\ DOMAIN idxPos = {} /\ idxHeight = 0
      BY <1>2, <1>4
    <2>2. /\ Die /\ committed' = committed
      BY <1>4 DEF ReindexComplete
    <2>3. dirty' = dirty /\ panic' = panic
      BY <1>4, <2>1 DEF ReindexComplete, RecordPanic
    <2>4. FlagTypes'
      BY <1>1, <2>2, <2>3 DEF FlagTypes, Die
    <2>5. ChainInv'
      BY <1>1, <2>1, <2>2 DEF ChainInv
    <2>6. made' \in Nat /\ crashes' \in Nat /\ status' \in {"None", "Complete"}
      BY <1>1 DEF StoreTypes
    <2> QED
      BY <1>1, <2>2, <2>4, <2>5, <2>6, DieInv
  <1> QED
    BY <1>3, <1>4

-----------------------------------------------------------------------------
(* StoreInv.                                                               *)

LEMMA StoreStutter == StoreInv /\ UNCHANGED vars => StoreInv'
  <1> SUFFICES ASSUME StoreInv, UNCHANGED vars PROVE StoreInv'
    OBVIOUS
  <1>1. UNCHANGED <<log, status, idxHeight, idxPos, phase, height, blocks, genesis, tail,
                    batch, pos, lastGood, made, committed, crashes>>
    BY DEF vars, disk, memory, history
  <1>2. UNCHANGED <<autoTrim, dirty, panic>>
    BY DEF vars, memory, history
  <1>3. FlagTypes'
    BY <1>2 DEF StoreInv, TypeOK, FlagTypes
  <1>4. StoreTypes'
    BY <1>1 DEF StoreInv, TypeOK, StoreTypes, FileEnd
  <1>5. LogInv' /\ ChainInv'
    BY <1>1, SameLog, ChainInvSame DEF StoreInv
  <1>6. ReindexInv'
    BY <1>1 DEF StoreInv, ReindexInv, FileEnd, ConsecutiveTo, FullAt
  <1>7. PhaseInv'
    BY <1>1 DEF StoreInv, PhaseInv, Up, FullAt
  <1>8. CacheInv'
    BY <1>1 DEF StoreInv, CacheInv, Up
  <1> QED
    BY <1>3, <1>4, <1>5, <1>6, <1>7, <1>8 DEF StoreInv, TypeOK

LEMMA StoreStep == StoreInv /\ [Next]_vars => StoreInv'
  <1> SUFFICES ASSUME StoreInv, [Next]_vars PROVE StoreInv'
    OBVIOUS
  <1>1. CASE WriteGenesis       BY <1>1, WriteGenesisStep
  <1>2. CASE CommitGenesis      BY <1>2, CommitGenesisStep
  <1>3. CASE CompleteGenesis    BY <1>3, CompleteGenesisStep
  <1>4. CASE InsertWrite        BY <1>4, InsertWriteStep
  <1>5. CASE InsertCommit       BY <1>5, InsertCommitStep
  <1>6. CASE Crash              BY <1>6, CrashStep
  <1>7. CASE Shutdown           BY <1>7, ShutdownStep
  <1>8. CASE \E tear \in Tears \ {"full"} : CrashWriting(tear)
    BY <1>8, CrashWritingStep
  <1>9. CASE Start              BY <1>9, StartStep
  <1>10. CASE StartPanics       BY <1>10, StartPanicsStep
  <1>11. CASE \E trim \in BOOLEAN : StartReindex(trim)
    BY <1>11, StartReindexStep
  <1>12. CASE ReindexBlock      BY <1>12, ReindexBlockStep
  <1>13. CASE ReindexBadHeight  BY <1>13, ReindexBadHeightStep
  <1>14. CASE ReindexCorrupt    BY <1>14, ReindexCorruptStep
  <1>15. CASE ReindexEof        BY <1>15, ReindexEofStep
  <1>16. CASE ReindexBadCrc     BY <1>16, ReindexBadCrcStep
  <1>17. CASE ReindexCommit     BY <1>17, ReindexCommitStep
  <1>18. CASE ReindexComplete   BY <1>18, ReindexCompleteStep
  <1>19. CASE UNCHANGED vars    BY <1>19, StoreStutter
  <1> QED
    BY <1>1, <1>2, <1>3, <1>4, <1>5, <1>6, <1>7, <1>8, <1>9, <1>10, <1>11, <1>12,
       <1>13, <1>14, <1>15, <1>16, <1>17, <1>18, <1>19 DEF Next

\* In every environment the log, the index, the cache and the position of the
\* running operation stay consistent: the invariant behind what follows.
THEOREM StoreInvariant == Spec => []StoreInv
  <1>1. Init => StoreInv
    BY StoreInit
  <1>2. StoreInv /\ [Next]_vars => StoreInv'
    BY StoreStep
  <1> QED
    BY <1>1, <1>2, PTL DEF Spec

\* The variables have their types, and the store writes where the log ends.
THEOREM TypeCorrect == Spec => []TypeOK
  <1>1. StoreInv => TypeOK
    BY DEF StoreInv
  <1> QED
    BY <1>1, StoreInvariant, PTL

\* BlockStore::get answers every height of a node that is up, with the block
\* of that height on top of the one below, whatever crashes, torn writes and
\* reindexing went before.
THEOREM Readable == Spec => []EveryHeightReadable
  <1>1. StoreInv => EveryHeightReadable
    <2> SUFFICES ASSUME StoreInv, Up, NEW h \in 0..height
                 PROVE  /\ Get(h) # None
                        /\ Get(h).height = h
                        /\ h > 0 => Get(h).parent = Get(h - 1).id
      BY DEF EveryHeightReadable
    <2>1. /\ height \in Nat /\ idxHeight \in Nat /\ status = "Complete" /\ committed # <<>>
          /\ phase = "serving" => height = idxHeight
          /\ phase = "serving" \/ phase = "inserted"
          /\ ChainInv
      BY DEF StoreInv, TypeOK, StoreTypes, PhaseInv, Up
    <2>2. CASE h \in 0..idxHeight
      <3>1. Get(h) = committed[h + 1] /\ Get(h) # None /\ Get(h).height = h
        BY <2>2, GetCommitted
      <3>2. ASSUME h > 0 PROVE Get(h).parent = Get(h - 1).id
        <4>1. h - 1 \in 0..idxHeight /\ (h - 1) + 1 = h /\ h \in 1..idxHeight
          BY <3>2, <2>1, <2>2
        <4>2. Get(h - 1) = committed[h]
          BY <4>1, GetCommitted
        <4> QED
          BY <4>1, <4>2, <3>1, <2>1 DEF ChainInv
      <3> QED
        BY <3>1, <3>2
    <2>3. CASE h \notin 0..idxHeight
      <3>1. phase = "inserted"
        BY <2>1, <2>3
      <3>2. /\ Get(height) # None /\ Get(height).height = height
            /\ Get(height).parent = committed[height].id /\ height = idxHeight + 1
        BY <3>1, GetInserted
      <3>3. h = height /\ h - 1 \in 0..idxHeight /\ (h - 1) + 1 = h
        BY <3>2, <2>1, <2>3
      <3>4. Get(h - 1) = committed[h]
        BY <3>3, GetCommitted
      <3> QED
        BY <3>2, <3>3, <3>4
    <2> QED
      BY <2>2, <2>3
  <1> QED
    BY <1>1, StoreInvariant, PTL

\* The index of a node that is up, or would start without reindexing, finds
\* every committed block where it says.
THEOREM IndexFinds == Spec => []IndexFindsCommitted
  <1>1. StoreInv => IndexFindsCommitted
    <2> SUFFICES ASSUME StoreInv, status = "Complete", committed # <<>>
                 PROVE  /\ Len(committed) = idxHeight + 1
                        /\ \A i \in DOMAIN committed :
                              /\ i - 1 \in DOMAIN idxPos
                              /\ RawRead(idxPos[i - 1]) = committed[i]
      BY DEF IndexFindsCommitted
    <2>1. /\ TypeOK /\ ChainInv /\ idxHeight \in Nat /\ committed \in Seq(BlockSet)
          /\ Len(committed) = idxHeight + 1 /\ DOMAIN idxPos = 0..idxHeight
      BY DEF StoreInv, TypeOK, StoreTypes, ChainInv
    <2>2. ASSUME NEW i \in DOMAIN committed
          PROVE  i - 1 \in DOMAIN idxPos /\ RawRead(idxPos[i - 1]) = committed[i]
      <3>1. i - 1 \in 0..idxHeight /\ (i - 1) + 1 = i /\ i - 1 <= idxHeight
        BY <2>1
      <3> QED
        BY <3>1, <2>1, IndexReads
    <2> QED
      BY <2>1, <2>2
  <1> QED
    BY <1>1, StoreInvariant, PTL

\* The cache holds the newest blocks of the chain and at most one over its
\* limit: the debug assertions of BlockStore::insert hold.
THEOREM CacheHolds == Spec => []CacheWindow
  <1>1. StoreInv => CacheWindow
    <2> SUFFICES ASSUME StoreInv, Up
                 PROVE  /\ {h \in 1..height : h > height - MAX_CACHE_SIZE} \subseteq DOMAIN blocks
                        /\ Cardinality(DOMAIN blocks) <= MAX_CACHE_SIZE + 1
                        /\ \A h \in DOMAIN blocks : h <= height
                        /\ \A h \in DOMAIN blocks : h < Len(committed) =>
                              blocks[h] = committed[h + 1]
      BY DEF CacheWindow
    <2>1. /\ height \in Nat /\ idxHeight \in Nat /\ Len(committed) = idxHeight + 1
          /\ DOMAIN blocks \subseteq Nat
      BY DEF StoreInv, TypeOK, StoreTypes, PhaseInv, ChainInv
    <2>2. /\ WindowAndOne(DOMAIN blocks, height)
          /\ \A h \in DOMAIN blocks : h <= idxHeight => blocks[h] = committed[h + 1]
      BY DEF StoreInv, CacheInv
    <2>3. PICK older \in SUBSET (0..height) :
             DOMAIN blocks = Window(height) \cup older /\ \A g, h \in older : g = h
      BY <2>2 DEF WindowAndOne
    <2>4. /\ {h \in 1..height : h > height - MAX_CACHE_SIZE} \subseteq DOMAIN blocks
          /\ \A h \in DOMAIN blocks : h <= height
      BY <2>1, <2>3 DEF Window
    <2>5. \A h \in DOMAIN blocks : h < Len(committed) => blocks[h] = committed[h + 1]
      BY <2>1, <2>2
    <2>6. Cardinality(DOMAIN blocks) <= MAX_CACHE_SIZE + 1
      <3> DEFINE low == height - MAX_CACHE_SIZE + 1
      <3>1. low \in Int /\ height \in Int /\ height - low + 1 = MAX_CACHE_SIZE /\ ~(low > height)
        BY <2>1, StoreAssumption
      <3>2. IsFiniteSet(low..height) /\ Cardinality(low..height) = MAX_CACHE_SIZE
        BY <3>1, FS_Interval
      <3>3. Window(height) \in SUBSET (low..height)
        BY <2>1, StoreAssumption DEF Window
      <3>4. IsFiniteSet(Window(height)) /\ Cardinality(Window(height)) <= MAX_CACHE_SIZE
        BY <3>2, <3>3, FS_Subset
      <3>5. Cardinality(Window(height)) \in Nat
        BY <3>4, FS_CardinalityType
      <3>6. CASE older = {}
        <4>1. DOMAIN blocks = Window(height)
          BY <3>6, <2>3
        <4> QED
          BY <4>1, <3>4, <3>5, StoreAssumption
      <3>7. CASE older # {}
        <4>1. PICK x : x \in older
          BY <3>7
        <4>2. DOMAIN blocks = Window(height) \cup {x}
          BY <4>1, <2>3
        <4>3. Cardinality(DOMAIN blocks) <= Cardinality(Window(height)) + 1
          <5>1. Cardinality(Window(height) \cup {x}) =
                   IF x \in Window(height) THEN Cardinality(Window(height))
                   ELSE Cardinality(Window(height)) + 1
            BY <3>4, FS_AddElement
          <5> QED
            BY <5>1, <4>2, <3>5
        <4>4. Cardinality(DOMAIN blocks) \in Nat
          BY <4>2, <3>4, FS_AddElement, FS_CardinalityType
        <4> QED
          BY <4>3, <4>4, <3>4, <3>5, StoreAssumption
      <3> QED
        BY <3>6, <3>7
    <2> QED
      BY <2>4, <2>5, <2>6
  <1> QED
    BY <1>1, StoreInvariant, PTL

-----------------------------------------------------------------------------
(* The careful environment.                                                *)

\* What a step never does to the committed chain.
CommittedStays == \A i \in DOMAIN committed : i \in DOMAIN committed' /\ committed'[i] = committed[i]

LEMMA StaysSame == committed' = committed => CommittedStays
  BY DEF CommittedStays

LEMMA CarefulInit == Init => CarefulInv
  <1> SUFFICES ASSUME Init PROVE CarefulInv
    OBVIOUS
  <1>1. log = <<>> /\ committed = <<>> /\ phase = "stopped"
    BY DEF Init
  <1>2. Len(log) = 0 /\ Len(committed) = 0
    BY <1>1
  <1>3. CleanLog
    BY <1>1, <1>2 DEF CleanLog
  <1> QED
    BY <1>1, <1>3 DEF CarefulInv

\* A log that stays as it is stays clean, in a phase that asks for nothing more.
LEMMA CleanSame ==
  ASSUME CleanLog, UNCHANGED <<log, committed>>,
         phase' \notin {"genesis", "genesisIndexed", "serving", "reindexed", "completing"}
  PROVE  CleanLog'
  BY DEF CleanLog, FullAt

\* Once the process is dead, a log that is as it was is as clean as before.
LEMMA CarefulDie ==
  ASSUME CarefulInv, Die, UNCHANGED <<log, committed>>, dirty' = dirty
  PROVE  CarefulInv'
  <1>1. phase' = "stopped"
    BY DEF Die
  <1>2. CleanLog => CleanLog'
    BY <1>1, CleanSame
  <1>3. ~dirty' => CleanLog'
    BY <1>2 DEF CarefulInv
  <1> QED
    BY <1>1, <1>3 DEF CarefulInv

\* A clean log has a full record wherever the index finds one, and elsewhere
\* too unless it is the last.
LEMMA CleanFull ==
  ASSUME StoreInv, CleanLog, NEW p \in 1..Len(log)
  PROVE  \/ FullAt(p) /\ log[p].block.height = p - 1
         \/ ~FullAt(p) /\ p = Len(log) /\ p = Len(committed) + 1 /\ log[p].kind = "body"
  <1>1. log \in Seq(RecordSet) /\ committed \in Seq(BlockSet)
    BY DEF StoreInv, TypeOK, StoreTypes
  <1>2. PICK n \in Nat : n = Len(committed)
    BY <1>1
  <1>3. CASE p \in 1..n
    BY <1>2, <1>3 DEF CleanLog
  <1>4. CASE p \notin 1..n
    <2>1. p = n + 1 /\ p = Len(log)
      BY <1>1, <1>2, <1>4 DEF CleanLog
    <2>2. log[p].kind = "body" \/ (FullAt(p) /\ log[p].block.height = n)
      BY <2>1, <1>2 DEF CleanLog
    <2>3. log[p].kind = "body" => ~FullAt(p)
      BY DEF FullAt
    <2> QED
      BY <2>1, <2>2, <2>3, <1>2
  <1> QED
    BY <1>3, <1>4

\* When a clean log ends with a block of the index, all its records are full;
\* with a complete index they are the committed blocks.
LEMMA CleanTail ==
  ASSUME StoreInv, CleanLog, TailClean
  PROVE  /\ AllFull
         /\ status = "Complete" \/ log = <<>> => Len(log) = Len(committed)
  <1>1. /\ log \in Seq(RecordSet) /\ committed \in Seq(BlockSet) /\ Len(committed) \in Nat
        /\ ChainInv /\ idxHeight \in Nat
    BY DEF StoreInv, TypeOK, StoreTypes
  <1>2. CASE log = <<>>
    BY <1>1, <1>2 DEF AllFull, CleanLog
  <1>3. CASE log # <<>>
    <2>1. PICK h \in DOMAIN idxPos : idxPos[h] = Len(log)
      BY <1>3 DEF TailClean
    <2>2. FullAt(Len(log))
      BY <2>1, <1>1 DEF ChainInv
    <2>3. AllFull
      BY <2>2, CleanFull DEF AllFull
    <2>4. ASSUME status = "Complete" PROVE Len(log) = Len(committed)
      <3>1. committed # <<>>
        BY <2>1, <2>4, <1>1 DEF ChainInv
      <3>2. /\ Len(committed) = idxHeight + 1 /\ h \in 0..idxHeight
            /\ log[Len(log)].block.height = h
        BY <3>1, <2>1, <2>4, <1>1 DEF ChainInv
      <3>3. Len(log) \in 1..Len(log) /\ Len(log) \in Nat
        BY <2>2, <1>1 DEF FullAt
      <3>4. log[Len(log)].block.height = Len(log) - 1
        BY <3>3, <2>2, CleanFull
      <3>5. Len(log) = Len(committed) \/ Len(log) = Len(committed) + 1
        BY DEF CleanLog
      <3> QED
        BY <3>2, <3>3, <3>4, <3>5, <1>1
    <2> QED
      BY <2>3, <2>4, <1>3
  <1> QED
    BY <1>2, <1>3

-----------------------------------------------------------------------------
(* Its steps.                                                              *)

LEMMA WriteGenesisCareful ==
  ASSUME StoreInv, CarefulInv, WriteGenesis
  PROVE  CarefulInv' /\ CommittedStays
  <1>1. /\ phase = "genesis" /\ phase' = "genesisWritten" /\ committed' = committed
        /\ log' = Append(log, Record("full", Block(0, made + 1, 0)))
    BY DEF WriteGenesis
  <1>2. dirty' = dirty
    BY DEF WriteGenesis
  <1>3. log = <<>> /\ committed = <<>>
    BY <1>1 DEF StoreInv, PhaseInv, ChainInv, FullAt
  <1>4. Len(log') = 1 /\ log'[1].kind = "full" /\ log'[1].block.height = 0
    BY <1>1, <1>3 DEF Record, Block
  <1>5. Len(committed') = 0
    BY <1>1, <1>3
  <1>6. CleanLog'
    BY <1>1, <1>4, <1>5 DEF CleanLog, FullAt
  <1> QED
    BY <1>1, <1>2, <1>6, StaysSame DEF CarefulInv

LEMMA CommitGenesisCareful ==
  ASSUME StoreInv, CarefulInv, CommitGenesis
  PROVE  CarefulInv' /\ CommittedStays
  <1>1. /\ phase = "genesisWritten" /\ phase' = "genesisIndexed" /\ committed' = <<genesis>>
        /\ log' = log
    BY DEF CommitGenesis
  <1>3. /\ committed = <<>> /\ Len(log) = 1 /\ FullAt(1) /\ genesis = log[1].block
        /\ genesis.height = 0
    BY <1>1 DEF StoreInv, PhaseInv, LogInv
  <1>4. Len(committed') = 1 /\ committed'[1] = log[1].block
    BY <1>1, <1>3
  <1>5. CleanLog'
    BY <1>1, <1>3, <1>4 DEF CleanLog, FullAt
  <1>6. CommittedStays
    BY <1>3 DEF CommittedStays
  <1> QED
    BY <1>1, <1>5, <1>6 DEF CarefulInv

LEMMA CompleteGenesisCareful ==
  ASSUME StoreInv, CarefulInv, CompleteGenesis
  PROVE  CarefulInv' /\ CommittedStays
  <1>1. /\ phase = "genesisIndexed" /\ phase' = "serving" /\ committed' = committed
        /\ log' = log
    BY DEF CompleteGenesis, history
  <1>2. dirty' = dirty
    BY DEF CompleteGenesis, history
  <1>3. CleanLog => CleanLog'
    BY <1>1 DEF CleanLog, FullAt
  <1> QED
    BY <1>1, <1>2, <1>3, StaysSame DEF CarefulInv

LEMMA InsertWriteCareful ==
  ASSUME StoreInv, CarefulInv, InsertWrite
  PROVE  CarefulInv' /\ CommittedStays
  <1> DEFINE r == Record("full", Block(height + 1, made + 1, Get(height).id))
  <1>1. /\ phase = "serving" /\ phase' = "inserted" /\ committed' = committed
        /\ log' = Append(log, r) /\ r.kind = "full" /\ r.block.height = height + 1
    BY DEF InsertWrite, Record, Block
  <1>2. dirty' = dirty
    BY DEF InsertWrite
  <1>3. /\ log \in Seq(RecordSet) /\ committed \in Seq(BlockSet)
        /\ Len(committed) = height + 1 /\ height \in Nat
    BY <1>1 DEF StoreInv, TypeOK, StoreTypes, PhaseInv, ChainInv, Up
  <1> HIDE DEF r
  <1>4. ASSUME CleanLog PROVE CleanLog'
    <2>1. Len(log) = Len(committed)
      BY <1>1, <1>4 DEF CleanLog
    <2>2. /\ Len(log') = Len(log) + 1 /\ log'[Len(log')] = r
          /\ \A p \in 1..Len(log) : log'[p] = log[p]
      BY <1>1, <1>3
    <2>3. \A i \in 1..Len(committed) :
             i \in 1..Len(log') /\ log'[i].kind = "full" /\ log'[i].block = committed[i]
               /\ committed[i].height = i - 1
      <3>1. \A i \in 1..Len(committed) :
               i \in 1..Len(log) /\ log[i].kind = "full" /\ log[i].block = committed[i]
                 /\ committed[i].height = i - 1
        BY <1>4 DEF CleanLog, FullAt
      <3> QED
        BY <3>1, <2>1, <2>2, <1>3
    <2>4. Len(log') \in 1..Len(log') /\ log'[Len(log')].kind = "full"
          /\ log'[Len(log')].block.height = Len(committed)
      BY <2>1, <2>2, <1>1, <1>3
    <2> QED
      BY <2>1, <2>2, <2>3, <2>4, <1>1 DEF CleanLog, FullAt
  <1> QED
    BY <1>1, <1>2, <1>4, StaysSame DEF CarefulInv

LEMMA InsertCommitCareful ==
  ASSUME StoreInv, CarefulInv, InsertCommit
  PROVE  CarefulInv' /\ CommittedStays
  <1>1. /\ phase = "inserted" /\ phase' = "serving" /\ log' = log
        /\ committed' = Append(committed, Get(height))
    BY DEF InsertCommit
  <1>2. dirty' = dirty
    BY DEF InsertCommit
  <1>3. /\ Get(height) = log[Len(log)].block /\ Get(height) \in BlockSet
        /\ Get(height).height = height
    BY <1>1, GetInserted
  <1>4. /\ log \in Seq(RecordSet) /\ committed \in Seq(BlockSet) /\ Len(committed) = height
        /\ height \in Nat /\ FullAt(Len(log))
    BY <1>1 DEF StoreInv, TypeOK, StoreTypes, PhaseInv, ChainInv, Up
  <1>5. /\ committed' \in Seq(BlockSet) /\ Len(committed') = height + 1
        /\ committed'[height + 1] = Get(height)
        /\ \A i \in 1..height : committed'[i] = committed[i]
    BY <1>1, <1>3, <1>4
  <1>6. CommittedStays
    BY <1>4, <1>5 DEF CommittedStays
  <1>7. ASSUME CleanLog PROVE CleanLog'
    <2>1. Len(log) \in 1..Len(log) /\ Len(log) \in Nat
      BY <1>4 DEF FullAt
    <2>2. log[Len(log)].block.height = Len(log) - 1
      BY <2>1, <1>4, <1>7, CleanFull
    <2>3. Len(log) = height + 1
      BY <2>1, <2>2, <1>3, <1>4
    <2>4. ASSUME NEW i \in 1..Len(committed')
          PROVE  FullAt(i)' /\ log'[i].block = committed'[i] /\ committed'[i].height = i - 1
      <3>1. CASE i \in 1..height
        BY <3>1, <1>1, <1>4, <1>5, <1>7 DEF CleanLog, FullAt
      <3>2. CASE i = height + 1
        BY <3>2, <2>2, <2>3, <1>1, <1>3, <1>4, <1>5 DEF FullAt
      <3> QED
        BY <3>1, <3>2, <1>4, <1>5
    <2> QED
      BY <2>3, <2>4, <1>1, <1>4, <1>5 DEF CleanLog
  <1> QED
    BY <1>1, <1>2, <1>6, <1>7 DEF CarefulInv

LEMMA CrashCareful ==
  ASSUME CarefulInv, Crash \/ Shutdown
  PROVE  CarefulInv' /\ CommittedStays
  <1>1. Die /\ UNCHANGED <<log, committed>> /\ dirty' = dirty
    BY DEF Crash, Shutdown, disk, history
  <1> QED
    BY <1>1, CarefulDie, StaysSame

\* Only a part of the block is missing.
LEMMA CrashWritingCareful ==
  ASSUME CarefulEnvironment, StoreInv, CarefulInv, NEW tear \in Tears \ {"full"},
         CrashWriting(tear)
  PROVE  CarefulInv' /\ CommittedStays
  <1> DEFINE r == Record(tear, None)
  <1>1. /\ phase \in {"genesis", "serving"} /\ phase' = "stopped" /\ committed' = committed
        /\ log' = Append(log, r)
    BY DEF CrashWriting, Die
  <1>2. dirty' = dirty
    BY DEF CrashWriting
  <1>3. r \in RecordSet /\ r.kind = "body"
    BY StoreAssumption DEF CarefulEnvironment, Record, RecordSet
  <1>4. log \in Seq(RecordSet) /\ committed \in Seq(BlockSet)
    BY DEF StoreInv, TypeOK, StoreTypes
  <1> HIDE DEF r
  <1>5. ASSUME CleanLog PROVE CleanLog'
    <2>1. Len(log) = Len(committed)
      BY <1>1, <1>5 DEF CleanLog
    <2>2. /\ Len(log') = Len(log) + 1 /\ log'[Len(log')] = r
          /\ \A p \in 1..Len(log) : log'[p] = log[p]
      BY <1>1, <1>3, <1>4
    <2>3. \A i \in 1..Len(committed) :
             i \in 1..Len(log') /\ log'[i].kind = "full" /\ log'[i].block = committed[i]
               /\ committed[i].height = i - 1
      BY <2>1, <2>2, <1>4, <1>5 DEF CleanLog, FullAt
    <2> QED
      BY <2>1, <2>2, <2>3, <1>1, <1>3 DEF CleanLog, FullAt
  <1> QED
    BY <1>1, <1>2, <1>5, StaysSame DEF CarefulInv

\* Whoever starts over an unfinished insertion is no longer careful.
LEMMA StartCareful ==
  ASSUME StoreInv, CarefulInv, Start
  PROVE  CarefulInv' /\ CommittedStays
  <1>1. /\ UNCHANGED <<log, committed>> /\ phase' \in {"genesis", "serving"}
        /\ log = <<>> \/ status = "Complete"
    BY DEF Start, disk
  <1>2. dirty' = (dirty \/ ~TailClean)
    BY DEF Start
  <1>3. ASSUME CleanLog, TailClean PROVE CleanLog'
    <2>1. Len(log) = Len(committed)
      BY <1>1, <1>3, CleanTail
    <2> QED
      BY <2>1, <1>1, <1>3 DEF CleanLog, FullAt
  <1>4. ~dirty' => CleanLog'
    BY <1>2, <1>3 DEF CarefulInv
  <1> QED
    BY <1>1, <1>4, StaysSame DEF CarefulInv

LEMMA StartPanicsCareful ==
  ASSUME StoreInv, CarefulInv, StartPanics
  PROVE  CarefulInv' /\ CommittedStays
  <1>1. UNCHANGED <<log, phase, committed, pos>>
    BY DEF StartPanics, disk, memory
  <1>2. UNCHANGED <<dirty, autoTrim>>
    BY DEF StartPanics, memory
  <1>3. CleanLog => CleanLog'
    BY <1>1 DEF CleanLog, FullAt, FileEnd
  <1>4. AllFull => AllFull'
    BY <1>1 DEF AllFull, FullAt
  <1> QED
    BY <1>1, <1>2, <1>3, <1>4, StaysSame DEF CarefulInv

LEMMA StartReindexCareful ==
  ASSUME CarefulEnvironment, StoreInv, CarefulInv, NEW trim \in BOOLEAN, StartReindex(trim)
  PROVE  CarefulInv' /\ CommittedStays
  <1>1. UNCHANGED <<log, committed>> /\ phase' = "reindexing"
    BY DEF StartReindex, history
  <1>2. dirty' = dirty /\ autoTrim' = trim /\ ~dirty /\ (trim \/ TailClean)
    BY DEF StartReindex, history, CarefulEnvironment
  <1>3. CleanLog
    BY <1>2 DEF CarefulInv
  <1>4. CleanLog'
    BY <1>1, <1>3, CleanSame
  <1>5. TailClean => AllFull'
    <2>1. AllFull => AllFull'
      BY <1>1 DEF AllFull, FullAt
    <2> QED
      BY <2>1, <1>3, CleanTail
  <1> QED
    BY <1>1, <1>2, <1>4, <1>5, StaysSame DEF CarefulInv

\* In a reindex, the next record of a clean log is a block to accept, or the
\* part of a block that ends the log, or the end of the log.
LEMMA ReindexMeets ==
  ASSUME StoreInv, CleanLog, phase = "reindexing"
  PROVE  \/ /\ FullAt(pos) /\ ReadOutcomes(pos) = {"Ok"}
            /\ HeightFollows(log[pos].block.height)
         \/ /\ pos = Len(log) /\ pos = Len(committed) + 1
            /\ ~FullAt(pos) /\ ReadOutcomes(pos) = {"CorruptBlock"}
         \/ pos = FileEnd /\ ReadOutcomes(pos) = {"Eof"}
  <1>1. /\ pos \in 1..(Len(log) + 1) /\ pos \in Nat \ {0}
        /\ log \in Seq(RecordSet) /\ Len(log) \in Nat
        /\ pos = 1 => lastGood = 0
        /\ pos # 1 => lastGood = pos - 2
    BY ReindexFacts
  <1>2. CASE pos = Len(log) + 1
    BY <1>1, <1>2 DEF ReadOutcomes, FileEnd
  <1>3. CASE pos # Len(log) + 1
    <2>1. pos \in 1..Len(log)
      BY <1>1, <1>3
    <2>2. CASE FullAt(pos) /\ log[pos].block.height = pos - 1
      <3>1. ReadOutcomes(pos) = {"Ok"}
        BY <2>2, <1>1, ReadFull
      <3>2. HeightFollows(log[pos].block.height)
        BY <2>2, <1>1 DEF HeightFollows
      <3> QED
        BY <3>1, <3>2, <2>2
    <2>3. CASE ~FullAt(pos) /\ pos = Len(log) /\ pos = Len(committed) + 1
               /\ log[pos].kind = "body"
      <3>1. ReadOutcomes(pos) = {"CorruptBlock"}
        BY <2>1, <2>3, <1>1 DEF ReadOutcomes, FileEnd
      <3> QED
        BY <3>1, <2>3
    <2> QED
      BY <2>1, <2>2, <2>3, CleanFull
  <1> QED
    BY <1>2, <1>3

LEMMA ReindexBlockCareful ==
  ASSUME StoreInv, CarefulInv, ReindexBlock
  PROVE  CarefulInv' /\ CommittedStays
  <1>1. phase = "reindexing" /\ phase' = "reindexing" /\ UNCHANGED <<log, committed>>
    BY DEF ReindexBlock, disk, history
  <1>2. dirty' = dirty /\ autoTrim' = autoTrim
    BY DEF ReindexBlock, history
  <1>3. CleanLog => CleanLog'
    BY <1>1, CleanSame
  <1>4. AllFull => AllFull'
    BY <1>1 DEF AllFull, FullAt
  <1> QED
    BY <1>1, <1>2, <1>3, <1>4, StaysSame DEF CarefulInv

LEMMA NoBadHeight ==
  ASSUME StoreInv, CarefulInv
  PROVE  ~ReindexBadHeight
  <1> SUFFICES ASSUME ReindexBadHeight PROVE FALSE
    OBVIOUS
  <1>1. /\ phase = "reindexing" /\ "Ok" \in ReadOutcomes(pos)
        /\ ~HeightFollows(log[pos].block.height)
    BY DEF ReindexBadHeight
  <1>2. CleanLog
    BY <1>1 DEF CarefulInv
  <1> QED
    BY <1>1, <1>2, ReindexMeets

LEMMA NoBadCrc ==
  ASSUME StoreInv, CarefulInv
  PROVE  ~ReindexBadCrc
  <1> SUFFICES ASSUME ReindexBadCrc PROVE FALSE
    OBVIOUS
  <1>1. phase = "reindexing" /\ "panic" \in ReadOutcomes(pos)
    BY DEF ReindexBadCrc
  <1>2. CleanLog
    BY <1>1 DEF CarefulInv
  <1> QED
    BY <1>1, <1>2, ReindexMeets

\* Without trimming there is nothing to trim.
LEMMA CorruptTrims ==
  ASSUME StoreInv, CarefulInv, ReindexCorrupt
  PROVE  autoTrim /\ pos = Len(log) /\ pos = Len(committed) + 1 /\ CleanLog
  <1>1. phase = "reindexing" /\ "CorruptBlock" \in ReadOutcomes(pos)
    BY DEF ReindexCorrupt
  <1>2. CleanLog
    BY <1>1 DEF CarefulInv
  <1>3. log \in Seq(RecordSet)
    BY <1>1, ReindexFacts
  <1>4. pos = Len(log) /\ pos = Len(committed) + 1 /\ ~FullAt(pos)
    BY <1>1, <1>2, ReindexMeets
  <1>5. committed \in Seq(BlockSet)
    BY DEF StoreInv, TypeOK, StoreTypes
  <1>6. pos \in 1..Len(log)
    BY <1>3, <1>4, <1>5
  <1>7. ~AllFull
    BY <1>4, <1>6 DEF AllFull
  <1> QED
    BY <1>1, <1>2, <1>4, <1>7 DEF CarefulInv

LEMMA ReindexCorruptCareful ==
  ASSUME StoreInv, CarefulInv, ReindexCorrupt
  PROVE  CarefulInv' /\ CommittedStays
  <1>1. autoTrim /\ pos = Len(log) /\ pos = Len(committed) + 1 /\ CleanLog
    BY CorruptTrims
  <1>2. TruncateOrPanic /\ phase = "reindexing"
    BY DEF ReindexCorrupt
  <1>3. /\ log' = SubSeq(log, 1, pos - 1) /\ phase' = "reindexed"
        /\ UNCHANGED <<pos, committed>>
    BY <1>1, <1>2, Zenon DEF TruncateOrPanic, history
  <1>4. dirty' = dirty
    BY <1>1, <1>2, Zenon DEF TruncateOrPanic, history
  <1>5. log \in Seq(RecordSet) /\ committed \in Seq(BlockSet)
    BY DEF StoreInv, TypeOK, StoreTypes
  <1>6. pos - 1 \in 0..Len(log) /\ pos - 1 = Len(committed) /\ Len(committed) \in Nat
    BY <1>1, <1>5
  <1>7. Len(log') = Len(committed) /\ \A p \in 1..Len(committed) : log'[p] = log[p]
    BY <1>3, <1>5, <1>6, CutFacts
  <1>8. CleanLog'
    <2>1. \A i \in 1..Len(committed) :
             i \in 1..Len(log) /\ log[i].kind = "full" /\ log[i].block = committed[i]
               /\ committed[i].height = i - 1
      BY <1>1 DEF CleanLog, FullAt
    <2>2. \A i \in 1..Len(committed) :
             i \in 1..Len(log') /\ log'[i].kind = "full" /\ log'[i].block = committed[i]
               /\ committed[i].height = i - 1
      BY <2>1, <1>7
    <2>3. pos' = FileEnd'
      BY <1>1, <1>3, <1>7 DEF FileEnd
    <2>4. Len(log') # Len(committed) + 1
      BY <1>6, <1>7
    <2> QED
      BY <2>2, <2>3, <2>4, <1>3, <1>7 DEF CleanLog, FullAt
  <1> QED
    BY <1>2, <1>3, <1>4, <1>8, StaysSame DEF CarefulInv

LEMMA ReindexEofCareful ==
  ASSUME StoreInv, CarefulInv, ReindexEof
  PROVE  CarefulInv' /\ CommittedStays
  <1>1. /\ phase = "reindexing" /\ phase' = "reindexed" /\ UNCHANGED <<log, committed, pos>>
        /\ "Eof" \in ReadOutcomes(pos)
    BY DEF ReindexEof, disk, memory, history
  <1>2. dirty' = dirty /\ ~dirty /\ CleanLog
    BY <1>1 DEF ReindexEof, history, CarefulInv
  <1>3. pos = FileEnd
    BY <1>1, <1>2, ReindexMeets
  <1>4. CleanLog'
    BY <1>1, <1>2, <1>3 DEF CleanLog, FullAt, FileEnd
  <1> QED
    BY <1>1, <1>2, <1>4, StaysSame DEF CarefulInv

LEMMA ReindexCommitCareful ==
  ASSUME StoreInv, CarefulInv, ReindexCommit
  PROVE  CarefulInv' /\ CommittedStays
  <1>1. phase = "reindexed" /\ phase' = "completing" /\ UNCHANGED <<log, committed, pos>>
    BY DEF ReindexCommit, history
  <1>2. dirty' = dirty /\ ~dirty /\ CleanLog
    BY <1>1 DEF ReindexCommit, history, CarefulInv
  <1>3. CleanLog'
    BY <1>1, <1>2 DEF CleanLog, FullAt, FileEnd
  <1> QED
    BY <1>1, <1>2, <1>3, StaysSame DEF CarefulInv

\* The chain of a completed reindex is all of the log, and so the one that was
\* committed before or that one and its next block.
LEMMA ReindexCompleteCareful ==
  ASSUME StoreInv, CarefulInv, ReindexComplete
  PROVE  CarefulInv' /\ CommittedStays
  <1>1. phase = "completing" /\ UNCHANGED <<log, idxHeight, idxPos>>
    BY DEF ReindexComplete
  <1>2. ~dirty /\ CleanLog
    BY <1>1 DEF CarefulInv
  <1>3. /\ log \in Seq(RecordSet) /\ committed \in Seq(BlockSet) /\ pos \in Nat \ {0}
        /\ Len(log) \in Nat /\ Len(committed) \in Nat
    BY DEF StoreInv, TypeOK, StoreTypes
  <1>4. pos = Len(log) + 1
    BY <1>1, <1>2 DEF CleanLog, FileEnd
  <1>5. CASE 0 \in DOMAIN idxPos
    <2>1. /\ pos # 1 /\ idxHeight = pos - 2 /\ idxHeight \in Nat
          /\ \A h \in 0..idxHeight :
                /\ ReadFromDisk(idxPos, idxHeight, h) = log[h + 1].block
                /\ FullAt(h + 1)
                /\ log[h + 1].block.height = h
          /\ InitReadable(idxPos, idxHeight, "Complete")
      BY <1>1, <1>5, CompletingReads
    <2>2. /\ phase' = "serving"
          /\ committed' = [i \in 1..(idxHeight + 1) |-> ReadFromDisk(idxPos, idxHeight, i - 1)]
      BY <2>1, <1>5 DEF ReindexComplete
    <2>3. idxHeight + 1 = Len(log)
      BY <2>1, <1>3, <1>4
    <2>4. DOMAIN committed' = 1..Len(log) /\ Len(committed') = Len(log)
      BY <2>2, <2>3, <1>3
    <2>5. ASSUME NEW i \in 1..Len(log)
          PROVE  /\ committed'[i] = log[i].block /\ committed'[i].height = i - 1
                 /\ log[i].kind = "full"
      <3>1. i - 1 \in 0..idxHeight /\ (i - 1) + 1 = i
        BY <2>3, <2>1, <1>3
      <3>2. /\ ReadFromDisk(idxPos, idxHeight, i - 1) = log[i].block
            /\ log[i].block.height = i - 1 /\ FullAt(i)
        BY <3>1, <2>1
      <3> QED
        BY <3>2, <2>2, <2>3 DEF FullAt
    <2>6. CleanLog'
      <3>1. Len(log') # Len(committed') + 1
        <4>1. PICK n \in Nat : n = Len(log)
          BY <1>3
        <4>2. n # n + 1
          OBVIOUS
        <4> QED
          BY <4>1, <4>2, <2>4, <1>1
      <3> QED
        BY <3>1, <2>2, <2>4, <2>5, <1>1 DEF CleanLog, FullAt
    <2>7. CommittedStays
      <3>1. DOMAIN committed = 1..Len(committed)
        BY <1>3
      <3>2. \A i \in 1..Len(committed) : i \in 1..Len(log) /\ log[i].block = committed[i]
        BY <1>2 DEF CleanLog, FullAt
      <3> QED
        BY <3>1, <3>2, <2>4, <2>5 DEF CommittedStays
    <2> QED
      BY <2>2, <2>6, <2>7 DEF CarefulInv
  <1>6. CASE 0 \notin DOMAIN idxPos
    <2>1. Die /\ committed' = committed /\ dirty' = dirty
      BY <1>6 DEF ReindexComplete
    <2> QED
      BY <2>1, <1>1, CarefulDie, StaysSame
  <1> QED
    BY <1>5, <1>6

LEMMA CarefulStutter ==
  ASSUME CarefulInv, UNCHANGED vars
  PROVE  CarefulInv' /\ CommittedStays
  <1>1. UNCHANGED <<log, phase, committed, pos>>
    BY DEF vars, disk, memory, history
  <1>2. UNCHANGED <<dirty, autoTrim>>
    BY DEF vars, memory, history
  <1>3. CleanLog => CleanLog'
    BY <1>1 DEF CleanLog, FullAt, FileEnd
  <1>4. AllFull => AllFull'
    BY <1>1 DEF AllFull, FullAt
  <1> QED
    BY <1>1, <1>2, <1>3, <1>4, StaysSame DEF CarefulInv

LEMMA CarefulStep ==
  ASSUME CarefulEnvironment, StoreInv, CarefulInv, [Next]_vars
  PROVE  CarefulInv' /\ CommittedStays
  <1>1. CASE WriteGenesis       BY <1>1, WriteGenesisCareful
  <1>2. CASE CommitGenesis      BY <1>2, CommitGenesisCareful
  <1>3. CASE CompleteGenesis    BY <1>3, CompleteGenesisCareful
  <1>4. CASE InsertWrite        BY <1>4, InsertWriteCareful
  <1>5. CASE InsertCommit       BY <1>5, InsertCommitCareful
  <1>6. CASE Crash              BY <1>6, CrashCareful
  <1>7. CASE Shutdown           BY <1>7, CrashCareful
  <1>8. CASE \E tear \in Tears \ {"full"} : CrashWriting(tear)
    BY <1>8, CrashWritingCareful
  <1>9. CASE Start              BY <1>9, StartCareful
  <1>10. CASE StartPanics       BY <1>10, StartPanicsCareful
  <1>11. CASE \E trim \in BOOLEAN : StartReindex(trim)
    BY <1>11, StartReindexCareful
  <1>12. CASE ReindexBlock      BY <1>12, ReindexBlockCareful
  <1>13. CASE ReindexBadHeight  BY <1>13, NoBadHeight
  <1>14. CASE ReindexCorrupt    BY <1>14, ReindexCorruptCareful
  <1>15. CASE ReindexEof        BY <1>15, ReindexEofCareful
  <1>16. CASE ReindexBadCrc     BY <1>16, NoBadCrc
  <1>17. CASE ReindexCommit     BY <1>17, ReindexCommitCareful
  <1>18. CASE ReindexComplete   BY <1>18, ReindexCompleteCareful
  <1>19. CASE UNCHANGED vars    BY <1>19, CarefulStutter
  <1> QED
    BY <1>1, <1>2, <1>3, <1>4, <1>5, <1>6, <1>7, <1>8, <1>9, <1>10, <1>11, <1>12,
       <1>13, <1>14, <1>15, <1>16, <1>17, <1>18, <1>19 DEF Next

\* A start that panics finds no chain, whatever the environment.
LEMMA StartPanicsUnrecorded ==
  ASSUME StoreInv, StartPanics
  PROVE  panic' = panic
  <1>1. ~InitReadable(idxPos, idxHeight, status)
    BY DEF StartPanics
  <1>2. status = "Complete" /\ \E h \in CacheHeights(idxHeight) : ReadFromDisk(idxPos, idxHeight, h) = None
    BY <1>1 DEF InitReadable
  <1>3. TypeOK /\ ChainInv /\ idxHeight \in Nat
    BY DEF StoreInv, TypeOK, StoreTypes
  <1>4. committed = <<>>
    <2>1. SUFFICES ASSUME committed # <<>> PROVE FALSE
      OBVIOUS
    <2>2. PICK h \in CacheHeights(idxHeight) : ReadFromDisk(idxPos, idxHeight, h) = None
      BY <1>2
    <2>3. h \in 0..idxHeight /\ h <= idxHeight
      BY <2>2, <1>3, CacheHeightsShape
    <2> QED
      BY <2>1, <2>2, <2>3, <1>2, <1>3, IndexReads
  <1> QED
    BY <1>4 DEF StartPanics, RecordPanic

LEMMA NoPanic ==
  ASSUME CarefulEnvironment, StoreInv, CarefulInv, [Next]_vars
  PROVE  panic' = panic
  <1>1. CASE WriteGenesis \/ CommitGenesis \/ CompleteGenesis \/ InsertWrite \/ InsertCommit
    BY <1>1 DEF WriteGenesis, CommitGenesis, CompleteGenesis, InsertWrite, InsertCommit, history
  <1>2. CASE Crash \/ Shutdown \/ Start \/ \E tear \in Tears \ {"full"} : CrashWriting(tear)
    BY <1>2 DEF Crash, Shutdown, Start, CrashWriting, history
  <1>3. CASE StartPanics
    BY <1>3, StartPanicsUnrecorded
  <1>4. CASE \E trim \in BOOLEAN : StartReindex(trim)
    BY <1>4 DEF StartReindex, history
  <1>5. CASE ReindexBlock \/ ReindexEof \/ ReindexCommit
    BY <1>5 DEF ReindexBlock, ReindexEof, ReindexCommit, history
  <1>6. CASE ReindexBadHeight \/ ReindexBadCrc
    BY <1>6, NoBadHeight, NoBadCrc
  <1>7. CASE ReindexCorrupt
    <2>1. autoTrim /\ TruncateOrPanic
      BY <1>7, CorruptTrims DEF ReindexCorrupt
    <2> QED
      BY <2>1, Zenon DEF TruncateOrPanic, history
  <1>8. CASE ReindexComplete
    <2>1. phase = "completing"
      BY <1>8 DEF ReindexComplete
    <2>2. CASE 0 \in DOMAIN idxPos
      <3>1. InitReadable(idxPos, idxHeight, "Complete")
        BY <2>1, <2>2, CompletingReads
      <3> QED
        BY <3>1, <2>2, <1>8 DEF ReindexComplete
    <2>3. CASE 0 \notin DOMAIN idxPos
      <3>1. pos \in Nat \ {0} /\ DOMAIN idxPos = 0..(pos - 2)
        BY <2>1, ReindexFacts DEF StoreInv, ReindexInv
      <3>2. pos = 1
        BY <3>1, <2>3
      <3>3. committed = <<>>
        BY <3>2, <2>1 DEF StoreInv, ReindexInv
      <3> QED
        BY <3>3, <2>3, <1>8 DEF ReindexComplete, RecordPanic
    <2> QED
      BY <2>2, <2>3
  <1>9. CASE UNCHANGED vars
    BY <1>9 DEF vars, history
  <1> QED
    BY <1>1, <1>2, <1>3, <1>4, <1>5, <1>6, <1>7, <1>8, <1>9 DEF Next

\* As long as the operator is careful and no header is torn, the log is the
\* committed chain and at most one record more.
THEOREM CarefulInvariant == ASSUME CarefulEnvironment PROVE Spec => []CarefulInv
  <1>1. Init => CarefulInv
    BY CarefulInit
  <1>2. StoreInv /\ CarefulInv /\ [Next]_vars => CarefulInv'
    BY CarefulStep
  <1> QED
    BY <1>1, <1>2, StoreInvariant, PTL DEF Spec

\* With a careful operator and no torn header, no start and no reindex of a
\* committed chain ends in a panic.
THEOREM Starts == ASSUME CarefulEnvironment PROVE Spec => []StartsSucceed
  <1>1. Init => StartsSucceed
    BY DEF Init, StartsSucceed
  <1>2. StoreInv /\ CarefulInv /\ StartsSucceed /\ [Next]_vars => StartsSucceed'
    BY NoPanic DEF StartsSucceed
  <1> QED
    BY <1>1, <1>2, StoreInvariant, CarefulInvariant, PTL DEF Spec

\* In the same environment, no crash, restart or reindex removes or replaces a
\* committed block.
THEOREM Survives == ASSUME CarefulEnvironment PROVE Spec => CommittedSurvives
  <1>1. StoreInv /\ CarefulInv /\ [Next]_vars =>
           [\A i \in DOMAIN committed :
               i \in DOMAIN committed' /\ committed'[i] = committed[i]]_vars
    BY CarefulStep DEF CommittedStays
  <1> QED
    BY <1>1, StoreInvariant, CarefulInvariant, PTL DEF Spec, CommittedSurvives

=============================================================================
