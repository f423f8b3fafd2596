------------------------- MODULE ReceiptPoolProofs -------------------------
(***************************************************************************)
(* Proofs about ReceiptPool, for every set of transactions, every          *)
(* assignment of expiries and every value of the time constants.           *)
(*                                                                         *)
(* The main result: in a safe environment no transaction executes twice.   *)
(* The invariant is built up one conjunct at a time, each from the ones    *)
(* before it: types, clock, phases, log, timestamps, remembered ids, no    *)
(* replay.                                                                 *)
(***************************************************************************)
EXTENDS ReceiptPool, TLAPS

-----------------------------------------------------------------------------
(* Contents and Distinct.                                                  *)

\* The empty sequence has no contents.
LEMMA ContentsEmpty == Contents(<<>>) = {}
  BY DEF Contents

\* Appending adds one element to the contents.
LEMMA ContentsAppend ==
    ASSUME NEW S, NEW s \in Seq(S), NEW e \in S
    PROVE  Contents(Append(s, e)) = Contents(s) \cup {e}
<1>1. \A x \in Contents(Append(s, e)) : x \in Contents(s) \cup {e}
  BY DEF Contents
<1>2. \A x \in Contents(s) : x \in Contents(Append(s, e))
  <2>1. SUFFICES ASSUME NEW i \in DOMAIN s
                 PROVE  s[i] \in Contents(Append(s, e))
    BY DEF Contents
  <2>2. i \in DOMAIN Append(s, e) /\ Append(s, e)[i] = s[i]
    OBVIOUS
  <2>3. QED  BY <2>2 DEF Contents
<1>3. e \in Contents(Append(s, e))
  <2>1. Len(s) + 1 \in DOMAIN Append(s, e) /\ Append(s, e)[Len(s) + 1] = e
    OBVIOUS
  <2>2. QED  BY <2>1 DEF Contents
<1>4. QED  BY <1>1, <1>2, <1>3

\* The contents of a sequence over S are in S.
LEMMA ContentsType ==
    ASSUME NEW S, NEW s \in Seq(S)
    PROVE  Contents(s) \subseteq S
  BY DEF Contents

\* Appending something new keeps the elements distinct.
LEMMA DistinctAppend ==
    ASSUME NEW S, NEW s \in Seq(S), NEW e \in S,
           Distinct(s), e \notin Contents(s)
    PROVE  Distinct(Append(s, e))
  BY DEF Distinct, Contents

LEMMA DistinctEmpty == Distinct(<<>>)
  BY DEF Distinct

-----------------------------------------------------------------------------
(* Blocks behind blocks.                                                   *)

\* What a list of blocks is after one more.
LEMMA AppendBlock ==
    ASSUME NEW c \in Seq(Blocks), NEW b \in Blocks
    PROVE  /\ Append(c, b) \in Seq(Blocks)
           /\ Len(c) \in Nat /\ Len(Append(c, b)) = Len(c) + 1
           /\ DOMAIN c = 1..Len(c)
           /\ DOMAIN Append(c, b) = 1..(Len(c) + 1)
           /\ \A i \in DOMAIN c : Append(c, b)[i] = c[i]
           /\ Append(c, b)[Len(c) + 1] = b
  OBVIOUS

\* The block being made.
LEMMA ChildType ==
    ASSUME TypeOK, NEW t \in Nat
    PROVE  /\ NewChild(t) \in Blocks
           /\ NewChild(t).timestamp = t /\ NewChild(t).receipts = flushed
  BY DEF NewChild, Blocks, TypeOK, AllTxs

\* What the blocks of a list are made of.
LEMMA BlocksType ==
    ASSUME NEW c \in Seq(Blocks)
    PROVE  \A i \in DOMAIN c :
             /\ c[i].timestamp \in Nat
             /\ c[i].receipts \in Seq(AllTxs)
             /\ Contents(c[i].receipts) \subseteq AllTxs
<1>1. \A i \in DOMAIN c : c[i] \in Blocks
  OBVIOUS
<1>2. \A i \in DOMAIN c : c[i].timestamp \in Nat /\ c[i].receipts \in Seq(AllTxs)
  BY <1>1 DEF Blocks
<1>3. QED  BY <1>2, ContentsType

\* A block that repeats no transaction may be added.
LEMMA NoRepeatsAppend ==
    ASSUME NEW c \in Seq(Blocks), NEW b \in Blocks,
           NoRepeats(c), Distinct(b.receipts),
           \A i \in DOMAIN c : Contents(c[i].receipts) \cap Contents(b.receipts) = {}
    PROVE  NoRepeats(Append(c, b))
<1> DEFINE d == Append(c, b)
<1>1. \A i \in DOMAIN d : \/ i \in DOMAIN c /\ d[i] = c[i]
                          \/ i = Len(c) + 1 /\ d[i] = b
  BY AppendBlock
<1> HIDE DEF d
<1>2. NoRepeats(d)
  BY <1>1 DEF NoRepeats
<1>3. QED  BY <1>2 DEF d

\* A block that is the youngest may be added.
LEMMA TimestampsAppend ==
    ASSUME NEW c \in Seq(Blocks), NEW b \in Blocks, now \in Nat,
           Timestamps(c), b.timestamp <= now,
           \A i \in DOMAIN c : c[i].timestamp <= b.timestamp,
           \A tx \in Contents(b.receipts) \cap Txs :
               Expiry[tx] <= b.timestamp + TX_MAX_EXPIRY_TIME
    PROVE  Timestamps(Append(c, b))
<1> DEFINE d == Append(c, b)
<1>1. \A i \in DOMAIN d : \/ i \in DOMAIN c /\ d[i] = c[i] /\ i <= Len(c)
                          \/ i = Len(c) + 1 /\ d[i] = b
  BY AppendBlock
<1>2. Len(c) \in Nat /\ DOMAIN c = 1..Len(c) /\ b.timestamp \in Nat
  BY DEF Blocks
<1> HIDE DEF d
<1>3. \A i \in DOMAIN d : d[i].timestamp <= now
  BY <1>1 DEF Timestamps
<1>4. \A i, j \in DOMAIN d : i <= j => d[i].timestamp <= d[j].timestamp
  BY <1>1, <1>2 DEF Timestamps
<1>5. \A i \in DOMAIN d : \A tx \in Contents(d[i].receipts) \cap Txs :
          Expiry[tx] <= d[i].timestamp + TX_MAX_EXPIRY_TIME
  BY <1>1 DEF Timestamps
<1>6. QED  BY <1>3, <1>4, <1>5 DEF Timestamps, d

-----------------------------------------------------------------------------
(* Types.                                                                  *)

LEMMA TypeInit == Init => TypeOK
  BY TimeAssumption DEF Init, TypeOK, Phases, Behinds, Blocks, AllTxs, Height

LEMMA TypeStep == TypeOK /\ [Next]_vars => TypeOK'
<1> SUFFICES ASSUME TypeOK, [Next]_vars
             PROVE  TypeOK'
  OBVIOUS
<1> USE TimeAssumption, EnvironmentAssumption DEF TypeOK, Phases, Behinds, Height, AllTxs, disk
<1>1. CASE Tick
  BY <1>1 DEF Tick
<1>2. CASE SetClockBack
  BY <1>2 DEF SetClockBack
<1>3. ASSUME NEW tx \in Txs, Push(tx)
      PROVE  TypeOK'
  BY <1>3 DEF Push
<1>4. CASE Flush
  BY <1>4 DEF Flush, Unpurged
<1>5. CASE WriteBlock
  <2>1. NewChild(now) \in Blocks
    BY ChildType
  <2>2. log' \in Seq(Blocks) /\ Len(log') > 0 /\ behind' \in Behinds
    <3>1. Append(log, NewChild(now)) \in Seq(Blocks) /\ Len(Append(log, NewChild(now))) > 0
      BY <2>1
    <3>2. QED  BY <1>5, <3>1 DEF WriteBlock
  <2>3. QED  BY <1>5, <2>2 DEF WriteBlock
<1>13. CASE CommitBlock
  <2>1. NewChild(stamp) \in Blocks
    BY ChildType
  <2>2. chain' \in Seq(Blocks) /\ Len(chain') = Len(chain) + 1
    BY <1>13, <2>1 DEF CommitBlock
  <2>3. QED  BY <1>13, <2>2 DEF CommitBlock
<1>14. CASE CrashWriting
  BY <1>14 DEF CrashWriting
<1>6. CASE ProduceFails
  BY <1>6 DEF ProduceFails
<1>7. CASE Crash
  BY <1>7 DEF Crash
<1>8. CASE Restart
  BY <1>8 DEF Restart
<1>9. CASE DeleteIndex
  BY <1>9 DEF DeleteIndex
<1>10. CASE ReindexBlocks
  BY <1>10 DEF ReindexBlocks
<1>11. CASE RebuildBlock
  <2>1. chain[scan + 1] \in Blocks
    OBVIOUS
  <2>2. Unexpired(chain[scan + 1]) \subseteq AllTxs
    BY <2>1, ContentsType DEF Blocks, Unexpired
  <2>3. txids' \subseteq AllTxs
    BY <1>11, <2>2 DEF RebuildBlock
  <2>4. scan' \in 0..Height'
    BY <1>11 DEF RebuildBlock
  <2>5. phase' \in Phases /\ keyIsMinter' \in BOOLEAN
    BY <1>11, Zenon DEF RebuildBlock
  <2>6. UNCHANGED <<now, high, receipts, flushed, stamp, disk, indexed, current_time, restarts>>
    BY <1>11 DEF RebuildBlock
  <2>7. QED  BY <2>3, <2>4, <2>5, <2>6
<1>12. CASE UNCHANGED vars
  BY <1>12 DEF vars
<1>15. QED
  BY <1>1, <1>2, <1>3, <1>4, <1>5, <1>6, <1>7, <1>8, <1>9, <1>10, <1>11, <1>12, <1>13, <1>14
  DEF Next

\* Every variable of the pool, the index and the chain keeps its type; in
\* particular the rebuild loop of reindex never leaves the chain.
THEOREM TypeCorrect == Spec => []TypeOK
<1>1. QED  BY TypeInit, TypeStep, PTL DEF Spec

-----------------------------------------------------------------------------
(* The clock and the phases.                                               *)

LEMMA ClockStep == TypeOK /\ ClockInv /\ [Next]_vars => ClockInv'
<1> SUFFICES ASSUME TypeOK, ClockInv, [Next]_vars
             PROVE  ClockInv'
  OBVIOUS
<1> USE EnvironmentAssumption, TimeAssumption DEF ClockInv, TypeOK
<1>1. CASE Tick
  BY <1>1 DEF Tick
<1>2. CASE SetClockBack
  BY <1>2 DEF SetClockBack
<1>3. CASE UNCHANGED <<now, high>>
  BY <1>3
<1>4. QED
  BY <1>1, <1>2, <1>3
  DEF Next, vars, Push, Flush, WriteBlock, CommitBlock, ProduceFails, Crash,
      CrashWriting, Restart, DeleteIndex, ReindexBlocks, RebuildBlock

LEMMA PhaseStep == TypeOK /\ PhaseInv /\ [Next]_vars => PhaseInv'
  BY EnvironmentAssumption
  DEF TypeOK, PhaseInv, Phases, Next, vars, Tick, SetClockBack, Push, Flush,
      WriteBlock, CommitBlock, ProduceFails, Crash, CrashWriting, Restart,
      DeleteIndex, ReindexBlocks, RebuildBlock

-----------------------------------------------------------------------------
(* The chain and the log a block is appended to.                           *)

\* CommitBlock adds one block at the end and leaves the others alone.
LEMMA ChainAppend ==
    ASSUME TypeOK, CommitBlock
    PROVE  /\ DOMAIN chain = 1..Len(chain)
           /\ DOMAIN chain' = 1..(Len(chain) + 1)
           /\ \A i \in DOMAIN chain : chain'[i] = chain[i]
           /\ chain'[Len(chain) + 1] = [timestamp |-> stamp, receipts |-> flushed]
           /\ Len(chain) \in Nat
<1>1. NewChild(stamp) \in Blocks /\ chain \in Seq(Blocks)
  BY ChildType DEF TypeOK
<1>2. chain' = Append(chain, NewChild(stamp))
  BY DEF CommitBlock
<1>3. QED  BY <1>1, <1>2, AppendBlock DEF NewChild

\* What the blocks of the chain are made of.
LEMMA ChainBlocks ==
    ASSUME TypeOK
    PROVE  \A i \in DOMAIN chain :
             /\ chain[i].timestamp \in Nat
             /\ chain[i].receipts \in Seq(AllTxs)
             /\ Contents(chain[i].receipts) \subseteq AllTxs
  BY BlocksType DEF TypeOK

\* A log that is a block ahead of the chain is not the chain.
LEMMA LogAhead ==
    ASSUME TypeOK, NEW b \in Blocks, log = Append(chain, b)
    PROVE  Len(log) = Len(chain) + 1 /\ log # chain
<1>1. Len(log) = Len(chain) + 1 /\ Len(chain) \in Nat
  BY AppendBlock DEF TypeOK
<1>2. QED  BY <1>1

\* The written block joins what a reindex takes in just when a reindex would
\* have left the chain as it was.
LEMMA WriteLands ==
    ASSUME TypeOK, LogInv, WriteBlock
    PROVE  \/ /\ behind = "nothing" /\ log = chain
              /\ behind' = "nothing" /\ log' = Append(chain, NewChild(now))
           \/ /\ ~(behind = "nothing" /\ log = chain)
              /\ behind' = "records" /\ log' = log
<1>1. /\ phase = "producing"
      /\ Len(log) \in Nat /\ Len(log) > 0 /\ Len(chain) \in Nat /\ Len(chain) > 0
  BY DEF TypeOK, WriteBlock
<1>2. CASE behind = "nothing" /\ log = chain
  <2>1. Follows(Height + 1)
    BY <1>1, <1>2 DEF Follows, Height
  <2>2. QED  BY <1>2, <2>1 DEF WriteBlock
<1>3. CASE ~(behind = "nothing" /\ log = chain)
  <2>1. ~(behind = "nothing" /\ Follows(Height + 1))
    <3>1. SUFFICES ASSUME behind = "nothing", Follows(Height + 1) PROVE FALSE
      OBVIOUS
    <3>2. PICK i \in DOMAIN log : log = Append(chain, log[i])
      BY <1>1, <1>3, <3>1 DEF LogInv
    <3>3. log[i] \in Blocks
      BY DEF TypeOK
    <3>4. Len(log) = Len(chain) + 1
      BY <3>2, <3>3, LogAhead
    <3>5. QED  BY <1>1, <3>1, <3>4 DEF Follows, Height
  <2>2. QED  BY <1>3, <2>1 DEF WriteBlock
<1>4. QED  BY <1>2, <1>3

LEMMA LogStep == TypeOK /\ LogInv /\ [Next]_vars => LogInv'
<1> SUFFICES ASSUME TypeOK, LogInv, [Next]_vars, behind' = "nothing"
             PROVE  LogInv'
  BY DEF LogInv
<1>1. CASE WriteBlock
  <2>1. log' = Append(chain, NewChild(now))
    BY <1>1, WriteLands
  <2>2. /\ phase' = "inserted" /\ stamp' = now /\ flushed' = flushed /\ chain' = chain
    BY <1>1 DEF WriteBlock
  <2>3. QED  BY <2>1, <2>2 DEF LogInv, NewChild
<1>2. CASE CommitBlock
  <2>1. behind = "nothing" /\ phase = "inserted" /\ phase' = "serving" /\ log' = log
    BY <1>2 DEF CommitBlock
  <2>2. chain' = Append(chain, NewChild(stamp))
    BY <1>2 DEF CommitBlock
  <2>3. QED  BY <2>1, <2>2 DEF LogInv
<1>3. CASE ReindexBlocks
  BY <1>3 DEF ReindexBlocks, LogInv
<1>4. CASE Crash
  <2>1. UNCHANGED disk /\ phase' = "stopped"
    BY <1>4 DEF Crash
  <2>2. CASE phase = "inserted"
    <3>1. log = Append(chain, NewChild(stamp)) /\ NewChild(stamp) \in Blocks
      BY <2>1, <2>2, ChildType DEF LogInv, disk, TypeOK
    <3>2. /\ Len(log) = Len(chain) + 1 /\ log[Len(chain) + 1] = NewChild(stamp)
          /\ Len(chain) + 1 \in DOMAIN log
      BY <3>1, AppendBlock DEF TypeOK
    <3>3. QED  BY <2>1, <3>1, <3>2 DEF LogInv, disk
  <2>3. CASE phase # "inserted"
    BY <2>1, <2>3 DEF LogInv, disk
  <2>4. QED  BY <2>2, <2>3
<1>5. CASE CrashWriting
  BY <1>5 DEF CrashWriting
<1>6. CASE UNCHANGED disk /\ phase # "inserted" /\ phase' # "inserted"
  BY <1>6 DEF LogInv, disk
<1>7. CASE UNCHANGED <<disk, phase, flushed, stamp>>
  BY <1>7 DEF LogInv, disk, NewChild
<1>8. QED
  BY <1>1, <1>2, <1>3, <1>4, <1>5, <1>6, <1>7
  DEF Next, vars, disk, Tick, SetClockBack, Push, Flush, ProduceFails, Restart,
      DeleteIndex, RebuildBlock

-----------------------------------------------------------------------------
(* Timestamps: why the rebuild may stop at the first old block.            *)

LEMMA TimestampStep ==
    SafeEnvironment /\ TypeOK /\ ClockInv /\ PhaseInv /\ LogInv /\ TimestampInv
    /\ [Next]_vars
        => TimestampInv'
<1> SUFFICES ASSUME SafeEnvironment, TypeOK, ClockInv, PhaseInv, LogInv, TimestampInv,
                    [Next]_vars, AllowReindex
             PROVE  TimestampInv'
  BY DEF TimestampInv
<1>0. /\ ClockSlack = 0 /\ now = high /\ now \in Nat /\ TX_MAX_EXPIRY_TIME \in Nat
      /\ chain \in Seq(Blocks) /\ log \in Seq(Blocks) /\ stamp \in Nat
      /\ current_time \in Nat
  BY TimeAssumption DEF SafeEnvironment, ClockInv, TypeOK
<1>e. \A tx \in Txs : Expiry[tx] \in Nat
  BY TimeAssumption
<1>c. \A tx \in Contents(receipts) \cup Contents(flushed) : tx \in Txs
  BY ContentsType DEF TypeOK
<1>s. ASSUME now' = now, UNCHANGED disk
      PROVE  Timestamps(chain)' /\ Timestamps(log)'
  BY <1>s DEF TimestampInv, Timestamps, disk
<1>1. CASE Tick
  <2>1. now' = now + 1 /\ UNCHANGED <<receipts, flushed, stamp, disk, phase, current_time>>
    BY <1>1 DEF Tick
  <2>2. Timestamps(chain)' /\ Timestamps(log)'
    <3>1. chain' = chain /\ log' = log
      BY <2>1 DEF disk
    <3>2. now' \in Nat /\ now <= now'
      BY <1>0, <2>1
    <3>3. Timestamps(chain) /\ Timestamps(log)
      BY DEF TimestampInv
    <3>4. \A c \in Seq(Blocks) : Timestamps(c) =>
            /\ \A i \in DOMAIN c : c[i].timestamp <= now'
            /\ \A i, j \in DOMAIN c : i <= j => c[i].timestamp <= c[j].timestamp
            /\ \A i \in DOMAIN c : \A tx \in Contents(c[i].receipts) \cap Txs :
                  Expiry[tx] <= c[i].timestamp + TX_MAX_EXPIRY_TIME
      BY <1>0, <3>2, BlocksType DEF Timestamps
    <3>5. QED  BY <1>0, <3>1, <3>3, <3>4 DEF Timestamps
  <2>3. \A tx \in Contents(receipts) \cup Contents(flushed) :
          Expiry[tx] <= now + 1 + TX_MAX_EXPIRY_TIME
    BY <1>0, <1>c, <1>e DEF TimestampInv
  <2>4. phase = "rebuilding" => current_time <= now + 1
    BY <1>0 DEF TimestampInv
  <2>5. phase = "inserted" => stamp <= now + 1
    BY <1>0 DEF TimestampInv
  <2>6. QED  BY <2>1, <2>2, <2>3, <2>4, <2>5 DEF TimestampInv, disk
<1>2. CASE SetClockBack
  <2>1. \E t \in (high - ClockSlack)..(now - 1) : now' = t
    BY <1>2 DEF SetClockBack
  <2>2. QED  BY <1>0, <2>1
<1>3. ASSUME NEW tx \in Txs, Push(tx)
      PROVE  TimestampInv'
  <2>1. Expiry[tx] <= now + TX_MAX_EXPIRY_TIME
    BY <1>0, <1>3, <1>e DEF Push, TxExpired
  <2>2. Contents(receipts') = Contents(receipts) \cup {tx}
    BY <1>3, ContentsAppend DEF Push, TypeOK
  <2>3. UNCHANGED <<now, flushed, stamp, disk, phase, current_time>>
    BY <1>3 DEF Push
  <2>4. QED  BY <1>s, <2>1, <2>2, <2>3 DEF TimestampInv, disk
<1>4. CASE Flush
  <2>1. /\ UNCHANGED <<now, stamp, disk, current_time>>
        /\ phase' # "rebuilding" /\ phase' # "inserted"
    BY <1>4 DEF Flush
  <2>2. receipts' = <<>> /\ (flushed' = receipts \/ flushed' = flushed)
    BY <1>4 DEF Flush
  <2>3. QED  BY <1>s, <2>1, <2>2, ContentsEmpty DEF TimestampInv
<1>5. CASE WriteBlock
  <2>1. /\ UNCHANGED <<now, receipts, flushed, chain>> /\ phase' = "inserted"
        /\ stamp' = now
    BY <1>5 DEF WriteBlock
  <2>2. Timestamps(chain)
    BY DEF TimestampInv
  <2>3. \A i \in DOMAIN chain : chain[i].timestamp <= now
    BY <2>2 DEF Timestamps
  <2>4. \A tx \in Contents(flushed) : Expiry[tx] <= now + TX_MAX_EXPIRY_TIME
    BY DEF TimestampInv
  <2>5. Timestamps(log')
    <3>1. CASE log' = log
      BY <3>1 DEF TimestampInv
    <3>2. CASE log' = Append(chain, NewChild(now))
      <4>1. Timestamps(Append(chain, NewChild(now)))
        BY <1>0, <2>2, <2>3, <2>4, ChildType, TimestampsAppend
      <4>2. QED  BY <3>2, <4>1
    <3>3. QED  BY <1>5, <3>1, <3>2, WriteLands
  <2>6. Timestamps(chain)' /\ Timestamps(log)'
    BY <2>1, <2>2, <2>5 DEF Timestamps
  <2>7. QED  BY <1>0, <2>1, <2>3, <2>4, <2>6 DEF TimestampInv
<1>6. CASE CommitBlock
  <2>1. /\ UNCHANGED <<now, receipts, log>> /\ phase = "inserted" /\ phase' = "serving"
        /\ flushed' = <<>> /\ chain' = Append(chain, NewChild(stamp))
    BY <1>6 DEF CommitBlock
  <2>2. Timestamps(Append(chain, NewChild(stamp)))
    BY <1>0, <2>1, ChildType, TimestampsAppend DEF TimestampInv
  <2>3. Timestamps(chain)' /\ Timestamps(log)'
    BY <2>1, <2>2 DEF Timestamps, TimestampInv
  <2>4. QED  BY <2>1, <2>3, ContentsEmpty DEF TimestampInv
<1>7. CASE ProduceFails \/ Crash
  <2>1. /\ UNCHANGED <<now, disk>> /\ receipts' = <<>> /\ flushed' = <<>>
        /\ phase' = "stopped"
    BY <1>7 DEF ProduceFails, Crash
  <2>2. QED  BY <1>s, <2>1, ContentsEmpty DEF TimestampInv
<1>8. CASE CrashWriting
  <2>1. /\ UNCHANGED <<now, chain, log>> /\ receipts' = <<>> /\ flushed' = <<>>
        /\ phase' = "stopped"
    BY <1>8 DEF CrashWriting
  <2>2. Timestamps(chain)' /\ Timestamps(log)'
    BY <2>1 DEF TimestampInv, Timestamps
  <2>3. QED  BY <2>1, <2>2, ContentsEmpty DEF TimestampInv
<1>9. CASE Restart \/ DeleteIndex
  <2>1. /\ UNCHANGED <<now, disk, receipts, flushed, stamp, current_time>>
        /\ phase' # "rebuilding" /\ phase' # "inserted"
    BY <1>9 DEF Restart, DeleteIndex
  <2>2. QED  BY <1>s, <2>1 DEF TimestampInv
<1>10. CASE ReindexBlocks
  <2>1. /\ UNCHANGED <<now, receipts, flushed, log>> /\ chain' = log
        /\ phase' = "rebuilding" /\ current_time' = now
    BY <1>10 DEF ReindexBlocks
  <2>2. Timestamps(chain)' /\ Timestamps(log)'
    BY <2>1 DEF TimestampInv, Timestamps
  <2>3. QED  BY <1>0, <2>1, <2>2 DEF TimestampInv, Timestamps
<1>11. CASE RebuildBlock
  <2>1. /\ UNCHANGED <<now, disk, receipts, flushed, stamp, current_time>>
        /\ phase = "rebuilding" /\ phase' # "inserted"
    BY <1>11 DEF RebuildBlock
  <2>2. QED  BY <1>s, <2>1 DEF TimestampInv, disk
<1>12. CASE UNCHANGED vars
  BY <1>s, <1>12 DEF vars, disk, TimestampInv
<1>13. QED
  BY <1>1, <1>2, <1>3, <1>4, <1>5, <1>6, <1>7, <1>8, <1>9, <1>10, <1>11, <1>12 DEF Next

-----------------------------------------------------------------------------
(* Executed transactions are remembered.                                   *)

\* What is remembered stays so while ids are only added and time passes.
LEMMA RememberedGrows ==
    ASSUME TypeOK, high' \in Nat, high <= high', txids \subseteq txids'
    PROVE  \A tx \in Txs : Remembered(tx) => Remembered(tx)'
  BY TimeAssumption, EnvironmentAssumption DEF Remembered, TypeOK

\* Executed is unchanged or smaller when the chain is the same and the
\* receipts in memory only move or disappear.
LEMMA ExecutedShrinks ==
    ASSUME chain' = chain,
           Contents(receipts)' \cup Contents(flushed)'
               \subseteq Contents(receipts) \cup Contents(flushed)
    PROVE  Executed' \subseteq Executed
<1>1. OnChain' = OnChain
  BY DEF OnChain
<1>2. QED  BY <1>1 DEF Executed

\* One round of the rebuild: the block it visits is remembered afterwards, and
\* when it ends the loop every lower block is.
LEMMA RebuildRound ==
    ASSUME SafeEnvironment, TypeOK, ClockInv, PhaseInv, TimestampInv, RebuildInv,
           RebuildBlock, AllowReindex
    PROVE  \A i \in DOMAIN chain : (i > scan' + 1 \/ phase' = "serving") =>
               \A tx \in Contents(chain[i].receipts) \cap Txs : Remembered(tx)'
<1> DEFINE block == chain[scan + 1]
           recent == Age(block) <= TX_MAX_EXPIRY_TIME
<1>0. /\ ClockSlack = 0 /\ now = high /\ now \in Nat /\ high' = high
      /\ current_time \in Nat /\ current_time <= now
      /\ TX_MAX_EXPIRY_TIME \in Nat
      /\ scan \in 0..Height /\ DOMAIN chain = 1..Len(chain) /\ Len(chain) \in Nat
      /\ scan + 1 \in DOMAIN chain
      /\ phase = "rebuilding"
  BY TimeAssumption
  DEF SafeEnvironment, ClockInv, TypeOK, TimestampInv, RebuildBlock, Height
<1>e. \A tx \in Txs : Expiry[tx] \in Nat
  BY TimeAssumption
<1>1. \A i \in DOMAIN chain : i > scan + 1 =>
          \A tx \in Contents(chain[i].receipts) \cap Txs : Remembered(tx)'
  <2>1. txids \subseteq txids'
    BY DEF RebuildBlock
  <2>2. \A tx \in Txs : Remembered(tx) => Remembered(tx)'
    BY <1>0, <2>1, RememberedGrows
  <2>3. QED  BY <1>0, <2>2 DEF RebuildInv
<1>2. CASE recent
  <2>1. \A tx \in Contents(block.receipts) \cap Txs : Remembered(tx)'
    <3>1. txids' = txids \cup Unexpired(block)
      BY <1>2 DEF RebuildBlock
    <3>2. \A tx \in Contents(block.receipts) \cap Txs :
             tx \in txids' \/ Expiry[tx] <= current_time
      BY <3>1, <1>0, <1>e DEF Unexpired
    <3>3. QED  BY <3>2, <1>0, <1>e DEF Remembered
  <2>2. \/ scan' = scan - 1 /\ phase' = phase
        \/ scan = 0 /\ scan' = 0 /\ phase' = "serving"
    BY <1>2, <1>0 DEF RebuildBlock
  <2>3. QED  BY <1>0, <1>1, <2>1, <2>2
<1>3. CASE ~recent
  <2>1. \A i \in DOMAIN chain : i <= scan + 1 =>
          \A tx \in Contents(chain[i].receipts) \cap Txs : Remembered(tx)'
    <3> SUFFICES ASSUME NEW i \in DOMAIN chain, i <= scan + 1,
                        NEW tx \in Contents(chain[i].receipts) \cap Txs
                 PROVE  Remembered(tx)'
      OBVIOUS
    <3>1. /\ chain[i].timestamp \in Nat /\ block.timestamp \in Nat
          /\ chain[i].timestamp <= block.timestamp
          /\ block.timestamp <= current_time
          /\ Expiry[tx] <= chain[i].timestamp + TX_MAX_EXPIRY_TIME
      BY <1>0, ChainBlocks DEF TimestampInv, Timestamps
    <3>2. current_time - block.timestamp > TX_MAX_EXPIRY_TIME
      BY <1>3, <1>0, <3>1 DEF Age
    <3>3. Expiry[tx] <= high'
      BY <1>0, <1>e, <3>1, <3>2
    <3>4. QED  BY <3>3, <1>0, <1>e DEF Remembered
  <2>2. \A i \in DOMAIN chain : i > scan + 1 \/ i <= scan + 1
    BY <1>0
  <2>3. QED  BY <1>1, <2>1, <2>2
<1>4. QED  BY <1>2, <1>3

LEMMA RememberedStep ==
    SafeEnvironment /\ TypeOK /\ ClockInv /\ PhaseInv /\ TimestampInv
    /\ RebuildInv /\ ExecutedAreRemembered /\ [Next]_vars
        => RebuildInv' /\ ExecutedAreRemembered'
<1> SUFFICES ASSUME SafeEnvironment, TypeOK, ClockInv, PhaseInv, TimestampInv,
                    RebuildInv, ExecutedAreRemembered, [Next]_vars
             PROVE  RebuildInv' /\ ExecutedAreRemembered'
  OBVIOUS
<1>0. /\ high \in Nat /\ now \in Nat /\ ClockSlack \in Nat
      /\ \A tx \in Txs : Expiry[tx] \in Nat
      /\ TX_EXPIRY_ADJUSTMENT \in Nat /\ ClockSlack <= TX_EXPIRY_ADJUSTMENT
  BY TimeAssumption, EnvironmentAssumption DEF TypeOK
<1>1. CASE Tick \/ SetClockBack \/ UNCHANGED vars
  <2>1. /\ UNCHANGED <<phase, txids, receipts, flushed, chain, indexed, scan>>
        /\ high' \in Nat /\ high <= high'
    BY <1>0, <1>1 DEF Tick, SetClockBack, vars, disk
  <2>2. \A tx \in Txs : Remembered(tx) => Remembered(tx)'
    BY <2>1, RememberedGrows
  <2>3. Executed' \subseteq Executed
    BY <2>1, ExecutedShrinks DEF Contents
  <2>4. QED  BY <2>1, <2>2, <2>3 DEF RebuildInv, ExecutedAreRemembered
<1>2. ASSUME NEW tx \in Txs, Push(tx)
      PROVE  RebuildInv' /\ ExecutedAreRemembered'
  <2>1. /\ UNCHANGED <<high, phase, flushed, chain, indexed>> /\ phase = "serving"
        /\ txids' = txids \cup {tx}
        /\ Contents(receipts)' = Contents(receipts) \cup {tx}
    BY <1>2, ContentsAppend DEF Push, TypeOK, disk
  <2>2. \A x \in Txs : Remembered(x) => Remembered(x)'
    BY <2>1, <1>0, RememberedGrows
  <2>3. Executed' = Executed \cup {tx}
    <3>1. OnChain' = OnChain /\ Contents(flushed)' = Contents(flushed)
      BY <2>1 DEF OnChain, Contents
    <3>2. QED  BY <3>1, <2>1 DEF Executed
  <2>4. Remembered(tx)'
    BY <2>1 DEF Remembered
  <2>5. QED  BY <2>1, <2>2, <2>3, <2>4 DEF RebuildInv, ExecutedAreRemembered
<1>3. CASE Flush
  <2>1. /\ UNCHANGED <<high, chain, indexed>> /\ phase = "serving"
        /\ phase' \in {"serving", "producing"} /\ receipts' = <<>>
        /\ flushed' \in {flushed, receipts} /\ txids' = Unpurged(txids)
    BY <1>3 DEF Flush, disk
  <2>2. \A tx \in Txs : Remembered(tx) => Remembered(tx)'
    BY <2>1, <1>0 DEF Remembered, Unpurged, ClockInv
  <2>3. Executed' \subseteq Executed
    BY <2>1, ExecutedShrinks, ContentsEmpty
  <2>4. QED  BY <2>1, <2>2, <2>3 DEF RebuildInv, ExecutedAreRemembered
<1>4. CASE CommitBlock
  <2>1. /\ UNCHANGED <<high, txids, indexed, receipts>> /\ flushed' = <<>>
        /\ phase = "inserted" /\ phase' = "serving"
    BY <1>4 DEF CommitBlock
  <2>2. OnChain' \subseteq OnChain \cup Contents(flushed)
    <3>1. \A i \in DOMAIN chain' :
            \/ i \in DOMAIN chain /\ chain'[i] = chain[i]
            \/ chain'[i].receipts = flushed
      BY <1>4, ChainAppend
    <3>2. QED  BY <3>1 DEF OnChain
  <2>3. Executed' \subseteq Executed
    BY <2>1, <2>2, ContentsEmpty DEF Executed
  <2>4. \A tx \in Txs : Remembered(tx) => Remembered(tx)'
    BY <2>1 DEF Remembered
  <2>5. QED  BY <2>1, <2>3, <2>4 DEF RebuildInv, ExecutedAreRemembered
<1>5. CASE ProduceFails \/ Crash \/ CrashWriting
  <2>1. /\ UNCHANGED <<high, txids, indexed, chain>>
        /\ flushed' = <<>> /\ receipts' = <<>> /\ phase' = "stopped"
        /\ phase # "stopped"
    BY <1>5 DEF ProduceFails, Crash, CrashWriting, disk
  <2>2. phase # "rebuilding"
    BY <1>5 DEF ProduceFails, Crash, CrashWriting, SafeEnvironment, PhaseInv
  <2>3. Executed' \subseteq Executed
    BY <2>1, ExecutedShrinks, ContentsEmpty
  <2>4. \A tx \in Txs : Remembered(tx) => Remembered(tx)'
    BY <2>1 DEF Remembered
  <2>5. QED  BY <2>1, <2>2, <2>3, <2>4 DEF RebuildInv, ExecutedAreRemembered
<1>6. CASE Restart
  <2>1. /\ UNCHANGED <<high, txids, indexed, chain, receipts, flushed>>
        /\ phase = "stopped" /\ phase' = "serving"
    BY <1>6 DEF Restart, disk
  <2>2. Executed' \subseteq Executed
    BY <2>1, ExecutedShrinks
  <2>3. \A tx \in Txs : Remembered(tx) => Remembered(tx)'
    BY <2>1 DEF Remembered
  <2>4. QED  BY <2>1, <2>2, <2>3 DEF RebuildInv, ExecutedAreRemembered
<1>7. CASE DeleteIndex
  BY <1>7 DEF DeleteIndex, RebuildInv, ExecutedAreRemembered
<1>11. CASE WriteBlock
  <2>1. /\ UNCHANGED <<high, txids, indexed, chain, receipts, flushed>>
        /\ phase = "producing" /\ phase' = "inserted"
    BY <1>11 DEF WriteBlock
  <2>2. Executed' \subseteq Executed
    BY <2>1, ExecutedShrinks
  <2>3. \A tx \in Txs : Remembered(tx) => Remembered(tx)'
    BY <2>1 DEF Remembered
  <2>4. QED  BY <2>1, <2>2, <2>3 DEF RebuildInv, ExecutedAreRemembered
<1>8. CASE ReindexBlocks
  <2>1. chain' = log /\ scan' = Len(log) - 1 /\ phase' = "rebuilding"
    BY <1>8 DEF ReindexBlocks
  <2>2. \A i \in DOMAIN log : ~(i > Len(log) - 1 + 1)
    BY DEF TypeOK
  <2>3. QED  BY <2>1, <2>2 DEF RebuildInv, ExecutedAreRemembered
<1>9. CASE RebuildBlock
  <2>1. AllowReindex
    BY <1>9 DEF RebuildBlock, PhaseInv
  <2>2. /\ chain' = chain /\ receipts' = <<>> /\ flushed' = <<>>
        /\ phase' \in {"serving", "rebuilding"}
    BY <1>9 DEF RebuildBlock, PhaseInv, disk
  <2>3. Executed' = OnChain
    <3>1. OnChain' = OnChain
      BY <2>2 DEF OnChain
    <3>2. QED  BY <3>1, <2>2, ContentsEmpty DEF Executed
  <2>4. phase' = "serving" => \A tx \in OnChain \cap Txs : Remembered(tx)'
    BY <1>9, <2>1, RebuildRound DEF OnChain
  <2>5. RebuildInv'
    BY <1>9, <2>1, <2>2, RebuildRound DEF RebuildInv
  <2>6. QED  BY <2>2, <2>3, <2>4, <2>5 DEF ExecutedAreRemembered
<1>10. QED
  BY <1>1, <1>2, <1>3, <1>4, <1>5, <1>6, <1>7, <1>8, <1>9, <1>11 DEF Next

-----------------------------------------------------------------------------
(* No replay.                                                              *)

\* push accepts only what has not been executed.
LEMMA PushIsNew ==
    ASSUME TypeOK, ClockInv, PhaseInv, ExecutedAreRemembered,
           NEW tx \in Txs, Push(tx)
    PROVE  tx \notin Executed
<1>1. indexed /\ phase # "rebuilding"
  BY DEF Push, PhaseInv
<1>2. tx \notin txids /\ Expiry[tx] > now
  BY TimeAssumption DEF Push, HasTxid, TxExpired, TypeOK
<1>3. ~Remembered(tx)
  BY <1>2, TimeAssumption, EnvironmentAssumption DEF Remembered, ClockInv, TypeOK
<1>4. QED  BY <1>1, <1>3 DEF ExecutedAreRemembered

LEMMA NoReplayStep ==
    TypeOK /\ ClockInv /\ PhaseInv /\ LogInv /\ ExecutedAreRemembered /\ NoReplay
    /\ LogNoReplay /\ [Next]_vars
        => NoReplay' /\ LogNoReplay'
<1> SUFFICES ASSUME TypeOK, ClockInv, PhaseInv, LogInv, ExecutedAreRemembered, NoReplay,
                    LogNoReplay, [Next]_vars
             PROVE  NoReplay' /\ LogNoReplay'
  OBVIOUS
<1>l. ASSUME log' = log
      PROVE  LogNoReplay'
  BY <1>l DEF LogNoReplay, NoRepeats
<1>1. ASSUME NEW tx \in Txs, Push(tx)
      PROVE  NoReplay' /\ LogNoReplay'
  <2>1. /\ UNCHANGED <<flushed, chain, log>> /\ receipts' = Append(receipts, tx)
        /\ receipts \in Seq(Txs)
    BY <1>1 DEF Push, TypeOK, disk
  <2>2. /\ tx \notin Contents(receipts) /\ tx \notin Contents(flushed)
        /\ \A i \in DOMAIN chain : tx \notin Contents(chain[i].receipts)
    BY <1>1, PushIsNew DEF Executed, OnChain
  <2>3. Distinct(receipts') /\ Contents(receipts') = Contents(receipts) \cup {tx}
    BY <2>1, <2>2, ContentsAppend, DistinctAppend DEF NoReplay
  <2>4. NoReplay'
    BY <2>1, <2>2, <2>3 DEF NoReplay, NoRepeats
  <2>5. QED  BY <1>l, <2>1, <2>4
<1>2. CASE Flush
  <2>1. chain' = chain /\ receipts' = <<>> /\ log' = log
    BY <1>2 DEF Flush, disk
  <2>2. flushed' = flushed \/ flushed' = receipts
    BY <1>2 DEF Flush
  <2>3. NoReplay'
    BY <2>1, <2>2, ContentsEmpty, DistinctEmpty DEF NoReplay, NoRepeats
  <2>4. QED  BY <1>l, <2>1, <2>3
<1>3. CASE WriteBlock
  <2>1. UNCHANGED <<receipts, flushed, chain>>
    BY <1>3 DEF WriteBlock
  <2>2. NoReplay'
    BY <2>1 DEF NoReplay, NoRepeats
  <2>3. NoRepeats(Append(chain, NewChild(now)))
    <3>1. /\ NewChild(now) \in Blocks /\ NewChild(now).receipts = flushed
          /\ chain \in Seq(Blocks)
      BY ChildType DEF TypeOK
    <3>2. /\ NoRepeats(chain) /\ Distinct(flushed)
          /\ \A i \in DOMAIN chain : Contents(chain[i].receipts) \cap Contents(flushed) = {}
      BY DEF NoReplay
    <3>3. QED  BY <3>1, <3>2, NoRepeatsAppend
  <2>4. log' = log \/ log' = Append(chain, NewChild(now))
    BY <1>3, WriteLands
  <2>5. AllowReindex => NoRepeats(log')
    BY <2>3, <2>4 DEF LogNoReplay
  <2>6. QED  BY <2>2, <2>5 DEF LogNoReplay, NoRepeats
<1>4. CASE CommitBlock
  <2>1. receipts' = receipts /\ flushed' = <<>> /\ log' = log
    BY <1>4 DEF CommitBlock
  <2>2. \A i \in DOMAIN chain' :
          \/ i \in DOMAIN chain /\ chain'[i] = chain[i]
          \/ i = Len(chain) + 1 /\ chain'[i].receipts = flushed
    BY <1>4, ChainAppend
  <2>3. \A i \in DOMAIN chain' : Distinct(chain'[i].receipts)
    BY <2>2 DEF NoReplay, NoRepeats
  <2>4. \A i, j \in DOMAIN chain' :
          i # j => Contents(chain'[i].receipts) \cap Contents(chain'[j].receipts) = {}
    BY <2>2 DEF NoReplay, NoRepeats
  <2>5. \A i \in DOMAIN chain' : Contents(chain'[i].receipts) \cap Contents(receipts) = {}
    BY <2>2 DEF NoReplay
  <2>6. NoReplay'
    BY <2>1, <2>3, <2>4, <2>5, ContentsEmpty, DistinctEmpty DEF NoReplay, NoRepeats
  <2>7. QED  BY <1>l, <2>1, <2>6
<1>5. CASE ProduceFails \/ Crash \/ CrashWriting
  <2>1. chain' = chain /\ receipts' = <<>> /\ flushed' = <<>> /\ log' = log
    BY <1>5 DEF ProduceFails, Crash, CrashWriting, disk
  <2>2. NoReplay'
    BY <2>1, ContentsEmpty, DistinctEmpty DEF NoReplay, NoRepeats
  <2>3. QED  BY <1>l, <2>1, <2>2
<1>6. CASE ReindexBlocks
  <2>1. /\ chain' = log /\ log' = log /\ receipts' = <<>> /\ flushed' = <<>>
        /\ AllowReindex
    BY <1>6 DEF ReindexBlocks, PhaseInv
  <2>2. NoRepeats(log)
    BY <2>1 DEF LogNoReplay
  <2>3. NoReplay'
    BY <2>1, <2>2, ContentsEmpty, DistinctEmpty DEF NoReplay, NoRepeats
  <2>4. QED  BY <1>l, <2>1, <2>3
<1>7. CASE UNCHANGED <<receipts, flushed, chain, log>>
  BY <1>l, <1>7 DEF NoReplay, NoRepeats
<1>8. QED
  BY <1>1, <1>2, <1>3, <1>4, <1>5, <1>6, <1>7
  DEF Next, vars, disk, Tick, SetClockBack, Restart, DeleteIndex, RebuildBlock

-----------------------------------------------------------------------------
(* The theorems.                                                           *)

LEMMA InvInit == Init => IInv
<1> SUFFICES ASSUME Init PROVE IInv
  OBVIOUS
<1>1. TypeOK
  BY TypeInit
<1>2. ClockInv
  BY TimeAssumption, EnvironmentAssumption DEF Init, ClockInv
<1>3. PhaseInv
  BY DEF Init, PhaseInv
<1>4. /\ DOMAIN chain = {1} /\ chain[1].timestamp = StartTime
      /\ chain[1].receipts = <<GenesisTx>>
      /\ Contents(receipts) = {} /\ Contents(flushed) = {}
      /\ Contents(chain[1].receipts) = {GenesisTx}
  BY ContentsEmpty DEF Init, Contents
<1>5. Contents(chain[1].receipts) \cap Txs = {}
  BY <1>4, TxsAssumption
<1>6. TimestampInv
  <2>1. Timestamps(chain)
    BY <1>4, <1>5, TimeAssumption DEF Init, Timestamps
  <2>2. log = chain /\ phase = "serving"
    BY DEF Init
  <2>3. QED  BY <1>4, <2>1, <2>2 DEF TimestampInv
<1>l. LogInv
  BY DEF Init, LogInv
<1>7. RebuildInv
  BY DEF Init, RebuildInv
<1>8. ExecutedAreRemembered
  BY <1>4, <1>5 DEF ExecutedAreRemembered, Executed, OnChain
<1>9. NoReplay
  BY <1>4, DistinctEmpty DEF Init, NoReplay, NoRepeats, Distinct
<1>10. LogNoReplay
  BY <1>9 DEF Init, NoReplay, LogNoReplay
<1>11. QED  BY <1>1, <1>2, <1>3, <1>6, <1>l, <1>7, <1>8, <1>9, <1>10 DEF IInv

LEMMA InvStep == SafeEnvironment /\ IInv /\ [Next]_vars => IInv'
  BY TypeStep, ClockStep, PhaseStep, LogStep, TimestampStep, RememberedStep, NoReplayStep
  DEF IInv

\* The inductive invariant holds in every safe environment.
LEMMA Invariance == ASSUME SafeEnvironment PROVE Spec => []IInv
<1>1. IInv /\ [Next]_vars => IInv'
  BY InvStep
<1>2. QED  BY InvInit, <1>1, PTL DEF Spec

\* Neither the purge nor the rebuild of reindex ever forgets the id of an
\* executed transaction that ReceiptPool::push would still accept.
THEOREM RememberedTheorem == ASSUME SafeEnvironment PROVE Spec => []ExecutedAreRemembered
<1>1. IInv => ExecutedAreRemembered
  BY DEF IInv
<1>2. QED  BY Invariance, <1>1, PTL

\* No transaction executes twice, for any set of transactions and expiries:
\* with the clock set back by up to TX_EXPIRY_ADJUSTMENT and crashes at any
\* time when there is no reindexing, and across any number of reindexings when
\* the clock is not set back and no crash hits the rebuild of the expiry index.
THEOREM NoReplayTheorem == ASSUME SafeEnvironment PROVE Spec => []NoReplay
<1>1. IInv => NoReplay
  BY DEF IInv
<1>2. QED  BY Invariance, <1>1, PTL

-----------------------------------------------------------------------------
(* The refinement: ReceiptPool implements OnceLog.                         *)

LEMMA OnceInit == Init => Once!Init
<1> SUFFICES ASSUME Init PROVE Once!Init
  OBVIOUS
<1>1. chain = <<[timestamp |-> StartTime, receipts |-> <<GenesisTx>>]>>
  BY DEF Init
<1>2. Receipts(chain) = <<<<GenesisTx>>>>
  BY <1>1 DEF Receipts
<1>3. Pending = <<>> /\ Fork = <<>>
  BY DEF Init, Pending, Fork, LogIsChain
<1>4. QED  BY <1>2, <1>3 DEF Once!Init

\* Steps that leave the blocks and what is pending alone are invisible.
LEMMA OnceStutter ==
    ASSUME UNCHANGED disk, phase' = "inserted" <=> phase = "inserted", Pending' = Pending
    PROVE  UNCHANGED Once!vars
<1>1. Receipts(chain)' = Receipts(chain)
  BY DEF disk, Receipts
<1>2. Fork' = Fork
  <2>1. LogIsChain' = LogIsChain
    BY DEF disk, LogIsChain
  <2>2. Receipts(log)' = Receipts(log)
    BY DEF disk, Receipts
  <2>3. QED  BY <2>1, <2>2, Zenon DEF Fork
<1>3. QED  BY <1>1, <1>2 DEF Once!vars

\* The receipts of a list of blocks, one more block included.
LEMMA ReceiptsAppend ==
    ASSUME NEW c \in Seq(Blocks), NEW b \in Blocks
    PROVE  Receipts(Append(c, b)) = Append(Receipts(c), b.receipts)
<1> DEFINE d == Append(c, b)
           D == Receipts(d)
           A == Append(Receipts(c), b.receipts)
<1>1. /\ Len(c) \in Nat /\ DOMAIN c = 1..Len(c) /\ DOMAIN d = 1..(Len(c) + 1)
      /\ \A i \in 1..Len(c) : d[i] = c[i]
      /\ d[Len(c) + 1] = b
  BY AppendBlock
<1>2. Receipts(c) \in Seq(Seq(AllTxs)) /\ Len(Receipts(c)) = Len(c) /\ b.receipts \in Seq(AllTxs)
  <2>1. b.receipts \in Seq(AllTxs)
    BY DEF Blocks
  <2>2. Receipts(c) \in [1..Len(c) -> Seq(AllTxs)]
    BY <1>1, BlocksType DEF Receipts
  <2>3. QED  BY <1>1, <2>1, <2>2
<1>3. /\ DOMAIN A = 1..(Len(c) + 1)
      /\ \A i \in 1..Len(c) : A[i] = Receipts(c)[i]
      /\ A[Len(c) + 1] = b.receipts
      /\ A \in Seq(Seq(AllTxs))
  BY <1>1, <1>2
<1>4. DOMAIN D = 1..(Len(c) + 1) /\ \A i \in 1..(Len(c) + 1) : D[i] = d[i].receipts
  BY <1>1 DEF Receipts
<1>5. \A i \in 1..Len(c) : Receipts(c)[i] = c[i].receipts
  BY <1>1 DEF Receipts
<1>6. D = [i \in 1..(Len(c) + 1) |-> D[i]]
  BY <1>4 DEF Receipts
<1> HIDE DEF D, A, d
<1>7. \A i \in 1..(Len(c) + 1) : D[i] = A[i]
  <2>1. \A i \in 1..Len(c) : i \in 1..(Len(c) + 1)
    BY <1>1
  <2>2. \A i \in 1..(Len(c) + 1) : i \in 1..Len(c) \/ i = Len(c) + 1
    BY <1>1
  <2>3. QED  BY <1>1, <1>3, <1>4, <1>5, <2>1, <2>2
<1>8. A = [i \in 1..(Len(c) + 1) |-> A[i]]
  BY <1>3
<1>9. D = A
  BY <1>6, <1>7, <1>8
<1>10. QED  BY <1>9 DEF D, A, d

\* A push that the index lets through accepts a fresh transaction.
LEMMA OnceAccepts ==
    ASSUME TypeOK, ClockInv, PhaseInv, ExecutedAreRemembered,
           NEW tx \in Txs, Push(tx)
    PROVE  Once!Accept(tx)
<1>1. /\ UNCHANGED disk /\ phase = "serving" /\ phase' = "serving"
      /\ Pending = receipts /\ Pending' = Append(receipts, tx)
  BY DEF Push, Pending
<1>2. tx \notin Contents(receipts) /\ tx \notin OnChain
  BY PushIsNew DEF Executed
<1>3. ~Once!In(tx, Pending)
  BY <1>1, <1>2 DEF Once!In, Contents
<1>4. \A i \in DOMAIN Receipts(chain) : ~Once!In(tx, Receipts(chain)[i])
  <2>1. \A i \in DOMAIN chain : ~Once!In(tx, chain[i].receipts)
    BY <1>2 DEF Once!In, OnChain, Contents
  <2>2. QED  BY <2>1 DEF Receipts
<1>5. Once!Fresh(tx)
  BY <1>3, <1>4 DEF Once!Fresh
<1>6. Receipts(chain)' = Receipts(chain) /\ Fork' = Fork
  BY <1>1 DEF Receipts, Fork, LogIsChain, disk
<1>7. QED  BY <1>1, <1>5, <1>6 DEF Once!Accept

\* The write of a block is invisible.
LEMMA OnceWrites ==
    ASSUME TypeOK, LogInv, WriteBlock
    PROVE  UNCHANGED Once!vars
<1>1. /\ UNCHANGED <<chain, flushed>> /\ phase = "producing" /\ phase' = "inserted"
  BY DEF WriteBlock
<1>2. Receipts(chain)' = Receipts(chain) /\ Pending' = Pending
  BY <1>1 DEF Receipts, Pending
<1>3. CASE behind = "nothing" /\ log = chain /\ behind' = "nothing"
  <2>1. Fork = <<>> /\ Fork' = <<>>
    BY <1>1, <1>3 DEF Fork, LogIsChain
  <2>2. QED  BY <1>2, <2>1 DEF Once!vars
<1>4. CASE ~(behind = "nothing" /\ log = chain) /\ behind' = "records" /\ log' = log
  <2>1. ~LogIsChain /\ ~LogIsChain'
    BY <1>1, <1>4 DEF LogIsChain
  <2>2. Fork' = Fork
    BY <1>4, <2>1 DEF Fork, Receipts
  <2>3. QED  BY <1>2, <2>2 DEF Once!vars
<1>5. QED  BY <1>3, <1>4, WriteLands

\* The commit of a block commits what is pending.
LEMMA OnceCommits ==
    ASSUME TypeOK, PhaseInv, LogInv, CommitBlock
    PROVE  Once!Commit
<1>1. /\ UNCHANGED <<receipts, log, behind>> /\ phase = "inserted" /\ phase' = "serving"
      /\ chain' = Append(chain, NewChild(stamp))
  BY DEF CommitBlock
<1>2. Pending = flushed /\ Pending' = <<>>
  BY <1>1 DEF PhaseInv, Pending
<1>3. Receipts(chain') = Append(Receipts(chain), flushed)
  <2>1. /\ NewChild(stamp) \in Blocks /\ NewChild(stamp).receipts = flushed
        /\ chain \in Seq(Blocks)
    BY ChildType DEF TypeOK
  <2>2. QED  BY <1>1, <2>1, ReceiptsAppend
<1>4. Fork' = Fork
  <2>1. LogIsChain' = LogIsChain
    BY <1>1 DEF LogIsChain, LogInv
  <2>2. Receipts(log)' = Receipts(log)
    BY <1>1 DEF Receipts
  <2>3. QED  BY <2>1, <2>2, Zenon DEF Fork
<1>5. Receipts(chain)' = Receipts(chain')
  BY DEF Receipts
<1>6. QED  BY <1>2, <1>3, <1>4, <1>5 DEF Once!Commit

\* The death of the process loses what is pending, and in the middle of an
\* insertion it leaves another chain behind.
LEMMA OnceDies ==
    ASSUME TypeOK, LogInv, ProduceFails \/ Crash \/ CrashWriting
    PROVE  Once!Lose \/ Once!LoseMidway
<1>1. /\ UNCHANGED <<chain, log>> /\ receipts' = <<>> /\ phase' = "stopped"
  BY DEF ProduceFails, Crash, CrashWriting, disk
<1>2. /\ Receipts(chain)' = Receipts(chain) /\ Receipts(log)' = Receipts(log)
      /\ Pending' = <<>>
  BY <1>1 DEF Receipts, Pending
<1>3. CASE LogIsChain
  <2>1. Fork = <<>>
    BY <1>3 DEF Fork
  <2>2. CASE phase = "inserted"
    <3>1. /\ log = Append(chain, NewChild(stamp)) /\ NewChild(stamp) \in Blocks
          /\ NewChild(stamp).receipts = flushed /\ chain \in Seq(Blocks)
      BY <1>3, <2>2, ChildType DEF LogIsChain, LogInv, TypeOK
    <3>2. log # chain
      BY <3>1, LogAhead
    <3>3. Receipts(log) = Append(Receipts(chain), Pending)
      BY <2>2, <3>1, ReceiptsAppend DEF Pending
    <3>4. ~LogIsChain'
      BY <1>1, <3>2 DEF LogIsChain
    <3>5. Fork' = <<Append(Receipts(chain), Pending)>>
      BY <1>2, <3>3, <3>4 DEF Fork
    <3>6. QED  BY <1>2, <2>1, <3>5 DEF Once!LoseMidway
  <2>3. CASE phase # "inserted"
    <3>1. log = chain
      BY <1>3, <2>3 DEF LogIsChain
    <3>2. Fork' = <<>> \/ Fork' = <<Receipts(chain)>>
      BY <1>2, <3>1 DEF Fork
    <3>3. QED  BY <1>2, <2>1, <3>2 DEF Once!LoseMidway, Once!Lose
  <2>4. QED  BY <2>2, <2>3
<1>4. CASE ~LogIsChain
  <2>1. ~LogIsChain'
    <3>1. CASE UNCHANGED behind
      <4>1. ~(behind = "nothing" /\ log = chain)
        BY <1>4 DEF LogIsChain
      <4>2. QED  BY <1>1, <3>1, <4>1 DEF LogIsChain
    <3>2. CASE CrashWriting
      BY <3>2 DEF CrashWriting, LogIsChain
    <3>3. QED  BY <3>1, <3>2 DEF ProduceFails, Crash, disk
  <2>2. Fork' = Fork
    BY <1>2, <1>4, <2>1 DEF Fork
  <2>3. QED  BY <1>2, <2>2 DEF Once!Lose
<1>5. QED  BY <1>3, <1>4

\* A reindex is invisible, or falls back to the other chain.
LEMMA OnceReindexes ==
    ASSUME TypeOK, PhaseInv, LogInv, ReindexBlocks
    PROVE  Once!FallBack \/ UNCHANGED Once!vars
<1>1. /\ log' = log /\ chain' = log /\ phase = "stopped" /\ phase' = "rebuilding"
      /\ behind' \in {"nothing", behind}
  BY DEF ReindexBlocks
<1>2. Pending = <<>> /\ Pending' = <<>>
  BY <1>1 DEF Pending, PhaseInv, ReindexBlocks
<1>3. Receipts(log)' = Receipts(log) /\ Receipts(chain)' = Receipts(log)
  BY <1>1 DEF Receipts
<1>4. CASE LogIsChain
  <2>1. log = chain /\ behind = "nothing"
    BY <1>1, <1>4 DEF LogIsChain
  <2>2. LogIsChain'
    BY <1>1, <2>1 DEF LogIsChain
  <2>3. Fork = <<>> /\ Fork' = <<>>
    BY <1>4, <2>2 DEF Fork
  <2>4. Receipts(chain)' = Receipts(chain)
    BY <1>3, <2>1
  <2>5. QED  BY <1>2, <2>3, <2>4 DEF Once!vars
<1>5. CASE ~LogIsChain
  <2>1. Fork = <<Receipts(log)>>
    BY <1>5 DEF Fork
  <2>2. Fork # <<>> /\ Fork[1] = Receipts(log)
    BY <2>1
  <2>3. Fork' = <<>> \/ Fork' = Fork
    BY <1>3, <2>1 DEF Fork
  <2>4. QED  BY <1>2, <1>3, <2>2, <2>3 DEF Once!FallBack
<1>6. QED  BY <1>4, <1>5

LEMMA OnceStep == IInv /\ [Next]_vars => [Once!Next]_Once!vars
<1> SUFFICES ASSUME IInv, [Next]_vars
             PROVE  Once!Next \/ UNCHANGED Once!vars
  OBVIOUS
<1> USE DEF IInv
<1>1. ASSUME NEW tx \in Txs, Push(tx)
      PROVE  Once!Next
  BY <1>1, OnceAccepts DEF Once!Next
<1>2. CASE Flush
  <2>1. /\ UNCHANGED disk /\ Pending = receipts
        /\ phase # "inserted" /\ phase' # "inserted"
    BY <1>2 DEF Flush, Pending
  <2>2. Pending' = receipts
    <3>1. CASE ShouldProduce(receipts, ChainHead)
      BY <1>2, <3>1 DEF Flush, Pending
    <3>2. CASE ~ShouldProduce(receipts, ChainHead)
      BY <1>2, <3>2 DEF Flush, Pending, ShouldProduce
    <3>3. QED  BY <3>1, <3>2
  <2>3. QED  BY <2>1, <2>2, OnceStutter
<1>3. CASE WriteBlock
  BY <1>3, OnceWrites
<1>4. CASE CommitBlock
  BY <1>4, OnceCommits DEF Once!Next
<1>5. CASE ProduceFails \/ Crash \/ CrashWriting
  BY <1>5, OnceDies DEF Once!Next
<1>6. CASE ReindexBlocks
  BY <1>6, OnceReindexes DEF Once!Next
<1>7. CASE Tick \/ SetClockBack \/ DeleteIndex \/ UNCHANGED vars
  <2>1. UNCHANGED <<disk, phase, flushed, receipts>>
    BY <1>7 DEF Tick, SetClockBack, DeleteIndex, vars, disk
  <2>2. Pending' = Pending
    BY <2>1 DEF Pending
  <2>3. QED  BY <2>1, <2>2, OnceStutter
<1>8. CASE Restart \/ RebuildBlock
  <2>1. /\ UNCHANGED <<disk, receipts>>
        /\ phase \notin {"producing", "inserted"} /\ phase' \notin {"producing", "inserted"}
    BY <1>8 DEF Restart, RebuildBlock
  <2>2. QED  BY <2>1, OnceStutter DEF Pending
<1>9. QED
  BY <1>1, <1>2, <1>3, <1>4, <1>5, <1>6, <1>7, <1>8 DEF Next

\* The node implements the promise of OnceLog: in a safe environment its pool,
\* index, minter, log, crashes and reindexing are, through the mapping of chain,
\* Pending and Fork, a log that accepts each transaction at most once and commits
\* or loses the accepted ones as a whole and in their order; and the one other
\* chain a reindex can bring is the one that a crash in the middle of an insertion
\* has left, the first such crash since the log was last cut back to the chain.
THEOREM OnceTheorem == ASSUME SafeEnvironment PROVE Spec => OnceSpec
<1>1. Init => Once!Init
  BY OnceInit
<1>2. IInv /\ [Next]_vars => [Once!Next]_Once!vars
  BY OnceStep
<1>3. QED  BY Invariance, <1>1, <1>2, PTL DEF Spec, OnceSpec, Once!Spec

============================================================================
