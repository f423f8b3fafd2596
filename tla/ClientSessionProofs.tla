------------------------ MODULE ClientSessionProofs ------------------------
(***************************************************************************)
(* Proofs about the connections of the server, for every number of them,   *)
(* every bound of the channel, every length of the chain and any number of *)
(* requests.  SessionInv is inductive; the subscription and the range      *)
(* answers follow from what may still be on its way (Underway).            *)
(***************************************************************************)
EXTENDS ClientSession, TLAPS

-----------------------------------------------------------------------------
(* Message sequences.                                                      *)

\* A message that is no block with id leaves the blocks with id where they are.
LEMMA BlocksAppendOther ==
  ASSUME NEW s \in Seq(Message), NEW m \in Message, NEW id,
         ~(m.kind = "Block" /\ m.id = id)
  PROVE  /\ Blocks(Append(s, m), id) = Blocks(s, id)
         /\ \A i \in Blocks(s, id) : Append(s, m)[i] = s[i]
  BY DEF Blocks

LEMMA BlocksAppend ==
  ASSUME NEW s \in Seq(Message), NEW m \in Message, NEW id,
         m.kind = "Block" /\ m.id = id
  PROVE  /\ Blocks(Append(s, m), id) = Blocks(s, id) \cup {Len(s) + 1}
         /\ \A i \in Blocks(s, id) : Append(s, m)[i] = s[i] /\ i < Len(s) + 1 /\ i \in Nat
         /\ Append(s, m)[Len(s) + 1] = m
  BY DEF Blocks

\* What came before comes before still, whatever is appended.
LEMMA ComesBeforeAppend ==
  ASSUME NEW s \in Seq(Message), NEW m \in Message, NEW id, NEW h, NEW i \in Nat,
         ComesBefore(s, id, h, i)
  PROVE  ComesBefore(Append(s, m), id, h, i)
  BY DEF ComesBefore, Blocks

LEMMA ComesBeforeLater ==
  ASSUME NEW s \in Seq(Message), NEW id, NEW h, NEW i \in Nat, NEW k \in Nat, i <= k,
         ComesBefore(s, id, h, i)
  PROVE  ComesBefore(s, id, h, k)
  BY DEF ComesBefore, Blocks

LEMMA MessageTypes ==
  ASSUME NEW s \in Seq(Message), NEW id, NEW i \in Blocks(s, id)
  PROVE  i \in 1..Len(s) /\ i \in Nat /\ s[i].height \in Nat /\ s[i].kind = "Block"
  <1>1. i \in 1..Len(s) /\ s[i] \in Message /\ s[i].kind = "Block"
    BY DEF Blocks
  <1>2. MaxHeight \in Nat
    BY SessionAssumption
  <1> QED
    BY <1>1, <1>2 DEF Message

\* Messages of others.
LEMMA AscendingAppendOther ==
  ASSUME NEW s \in Seq(Message), NEW m \in Message, NEW id,
         ~(m.kind = "Block" /\ m.id = id), Ascending(s, id)
  PROVE  Ascending(Append(s, m), id)
  <1> DEFINE t == Append(s, m)
  <1>1. Blocks(t, id) = Blocks(s, id) /\ \A i \in Blocks(s, id) : t[i] = s[i]
    BY BlocksAppendOther
  <1> HIDE DEF t
  <1>2. Ascending(t, id)
    BY <1>1 DEF Ascending
  <1> QED
    BY <1>2 DEF t

\* A block above all the others.
LEMMA AscendingAppend ==
  ASSUME NEW s \in Seq(Message), NEW m \in Message, NEW id,
         m.kind = "Block" /\ m.id = id, Ascending(s, id),
         \A i \in Blocks(s, id) : s[i].height < m.height
  PROVE  Ascending(Append(s, m), id)
  <1> DEFINE t == Append(s, m)
             n == Len(s) + 1
  <1>1. /\ Blocks(t, id) = Blocks(s, id) \cup {n}
        /\ \A i \in Blocks(s, id) : t[i] = s[i] /\ i < n /\ i \in Nat
        /\ t[n] = m
    BY BlocksAppend
  <1>3. n \in Nat
    OBVIOUS
  <1> HIDE DEF t, n
  <1>2. Ascending(t, id)
    BY <1>1, <1>3 DEF Ascending
  <1> QED
    BY <1>2 DEF t

\* What others get leaves an answer as it is.
LEMMA AnswersAppendOther ==
  ASSUME NEW s \in Seq(Message), NEW m \in Message, NEW r \in RangeTask, Answers(s, r),
         ~(m.kind = "Block" /\ m.id = r.id), m # RangeEnd(r.id)
  PROVE  Answers(Append(s, m), r)
  <1> DEFINE t == Append(s, m)
  <1>1. /\ Blocks(t, r.id) = Blocks(s, r.id)
        /\ \A i \in Blocks(s, r.id) : t[i] = s[i] /\ i \in Nat
    BY BlocksAppendOther, MessageTypes
  <1>2. /\ DOMAIN t = DOMAIN s \cup {Len(s) + 1} /\ t[Len(s) + 1] = m
        /\ \A i \in DOMAIN s : t[i] = s[i] /\ i \in Nat
    OBVIOUS
  <1>3. \A h : \A i \in Nat : ComesBefore(s, r.id, h, i) => ComesBefore(t, r.id, h, i)
    BY ComesBeforeAppend
  <1>4. Ascending(t, r.id)
    BY AscendingAppendOther DEF Answers
  <1> HIDE DEF t
  <1>5. Answers(t, r)
    BY <1>1, <1>2, <1>3, <1>4 DEF Answers
  <1> QED
    BY <1>5 DEF t

LEMMA UnderwayAppendOther ==
  ASSUME NEW s \in Seq(Message), NEW m \in Message, NEW a \in RangeTask, NEW r \in RangeTask,
         Underway(s, a, r), ~(m.kind = "Block" /\ m.id = r.id), m # RangeEnd(r.id)
  PROVE  Underway(Append(s, m), a, r)
  <1> DEFINE t == Append(s, m)
  <1>1. /\ Blocks(t, r.id) = Blocks(s, r.id)
        /\ \A i \in Blocks(s, r.id) : t[i] = s[i]
    BY BlocksAppendOther
  <1>2. /\ DOMAIN t = DOMAIN s \cup {Len(s) + 1} /\ t[Len(s) + 1] = m
        /\ \A i \in DOMAIN s : t[i] = s[i]
        /\ Len(t) = Len(s) + 1 /\ Len(s) \in Nat
    OBVIOUS
  <1>3. \A h : ComesBefore(s, r.id, h, Len(s) + 1) => ComesBefore(t, r.id, h, Len(t) + 1)
    <2> SUFFICES ASSUME NEW h, ComesBefore(s, r.id, h, Len(s) + 1)
                 PROVE  ComesBefore(t, r.id, h, Len(t) + 1)
      OBVIOUS
    <2>1. ComesBefore(t, r.id, h, Len(s) + 1)
      BY <1>2, ComesBeforeAppend
    <2>2. t \in Seq(Message) /\ Len(s) + 1 \in Nat /\ Len(t) + 1 \in Nat /\ Len(s) + 1 <= Len(t) + 1
      BY <1>2
    <2> QED
      BY <2>1, <2>2, ComesBeforeLater
  <1> HIDE DEF t
  <1>4. Underway(t, a, r)
    BY <1>1, <1>2, <1>3 DEF Underway
  <1> QED
    BY <1>4 DEF t

\* The next block of a task.
LEMMA NextBlock ==
  ASSUME NEW s \in Seq(Message), NEW a \in RangeTask, NEW r \in RangeTask,
         NEW m \in Message, m.kind = "Block", m.id = r.id, m.height = r.next,
         m.filtered = r.filtered,
         a.id = r.id, Answers(s, a), Underway(s, a, r), r.next <= r.max
  PROVE  /\ Answers(Append(s, m), a)
         /\ Underway(Append(s, m), a, [r EXCEPT !.next = r.next + 1])
  <1> DEFINE t == Append(s, m)
             q == [r EXCEPT !.next = r.next + 1]
  <1>1. /\ m.kind = "Block" /\ m.id = r.id /\ m.height = r.next /\ m.filtered = r.filtered
        /\ \A x : m # RangeEnd(x)
    BY DEF RangeEnd
  <1>2. /\ r.next \in Nat /\ r.max \in Nat /\ a.next \in Nat /\ a.max \in Nat
        /\ q.id = r.id /\ q.max = r.max /\ q.filtered = r.filtered /\ q.next = r.next + 1
    BY SessionAssumption DEF RangeTask
  <1>3. /\ r.max = a.max /\ r.filtered = a.filtered /\ a.next <= r.next
        /\ \A i \in Blocks(s, r.id) : s[i].height < r.next
        /\ \A h \in a.next .. r.next - 1 : ComesBefore(s, r.id, h, Len(s) + 1)
        /\ \A i \in DOMAIN s : s[i] # RangeEnd(r.id)
    BY DEF Underway
  <1>4. /\ Blocks(t, r.id) = Blocks(s, r.id) \cup {Len(s) + 1}
        /\ \A i \in Blocks(s, r.id) : t[i] = s[i] /\ i < Len(s) + 1 /\ i \in Nat
        /\ t[Len(s) + 1] = m
    BY <1>1, BlocksAppend
  <1>5. /\ DOMAIN t = DOMAIN s \cup {Len(s) + 1} /\ t \in Seq(Message)
        /\ \A i \in DOMAIN s : t[i] = s[i]
        /\ Len(t) = Len(s) + 1 /\ Len(s) \in Nat
    OBVIOUS
  <1>6. \A h : \A i \in Nat : ComesBefore(s, r.id, h, i) => ComesBefore(t, r.id, h, i)
    BY ComesBeforeAppend
  <1>7. ComesBefore(t, r.id, r.next, Len(t) + 1)
    BY <1>1, <1>4, <1>5 DEF ComesBefore
  <1>8. \A i \in DOMAIN t : t[i] # RangeEnd(r.id)
    BY <1>1, <1>3, <1>4, <1>5
  <1>9. Ascending(t, r.id)
    BY <1>1, <1>3, AscendingAppend DEF Answers
  <1> HIDE DEF t, q
  <1>10. ASSUME NEW i \in Blocks(t, a.id)
         PROVE  /\ t[i].filtered = a.filtered
                /\ t[i].height \in a.next .. a.max
                /\ \A h \in a.next .. t[i].height - 1 : ComesBefore(t, a.id, h, i)
    <2>1. CASE i \in Blocks(s, a.id)
      BY <2>1, <1>4, <1>6 DEF Answers
    <2>2. CASE i = Len(s) + 1
      <3>1. t[i].filtered = a.filtered /\ t[i].height = r.next /\ i \in Nat
        BY <2>2, <1>1, <1>3, <1>4, <1>5
      <3>2. \A h \in a.next .. r.next - 1 : ComesBefore(t, a.id, h, i)
        BY <2>2, <1>3, <1>5, <1>6
      <3> QED
        BY <3>1, <3>2, <1>2, <1>3
    <2> QED
      BY <2>1, <2>2, <1>4
  <1>11. Answers(t, a)
    BY <1>8, <1>9, <1>10 DEF Answers
  <1>12. \A h \in a.next .. q.next - 1 : ComesBefore(t, q.id, h, Len(t) + 1)
    <2> SUFFICES ASSUME NEW h \in a.next .. q.next - 1
                 PROVE  ComesBefore(t, r.id, h, Len(t) + 1)
      BY <1>2
    <2>1. CASE h = r.next
      BY <2>1, <1>7
    <2>2. CASE h # r.next
      <3>1. h \in a.next .. r.next - 1
        BY <2>2, <1>2
      <3>2. ComesBefore(t, r.id, h, Len(s) + 1)
        BY <3>1, <1>3, <1>5, <1>6
      <3>3. Len(s) + 1 \in Nat /\ Len(t) + 1 \in Nat /\ Len(s) + 1 <= Len(t) + 1
        BY <1>5
      <3> QED
        BY <3>2, <3>3, <1>5, ComesBeforeLater
    <2> QED
      BY <2>1, <2>2
  <1>13. \A i \in Blocks(t, q.id) : t[i].height < q.next
    BY <1>1, <1>2, <1>3, <1>4, MessageTypes
  <1>14. Underway(t, a, q)
    BY <1>2, <1>3, <1>8, <1>12, <1>13 DEF Underway
  <1> QED
    BY <1>11, <1>14 DEF t, q

\* The end of a task that has sent its last height.
LEMMA LastMessage ==
  ASSUME NEW s \in Seq(Message), NEW a \in RangeTask, NEW r \in RangeTask,
         NEW m \in Message, m = RangeEnd(r.id),
         a.id = r.id, Answers(s, a), Underway(s, a, r), r.next > r.max
  PROVE  Answers(Append(s, m), a)
  <1> DEFINE t == Append(s, m)
  <1>1. m.kind # "Block"
    BY DEF RangeEnd
  <1>2. r.next \in Nat /\ r.max \in Nat /\ a.next \in Nat /\ a.max = r.max
    BY SessionAssumption DEF RangeTask, Underway
  <1>3. /\ Blocks(t, r.id) = Blocks(s, r.id)
        /\ \A i \in Blocks(s, r.id) : t[i] = s[i] /\ i \in Nat
    BY <1>1, BlocksAppendOther, MessageTypes
  <1>4. /\ DOMAIN t = DOMAIN s \cup {Len(s) + 1} /\ Len(s) + 1 \in Nat
        /\ \A i \in DOMAIN s : t[i] = s[i] /\ i \in Nat
    OBVIOUS
  <1>5. \A h : \A i \in Nat : ComesBefore(s, r.id, h, i) => ComesBefore(t, r.id, h, i)
    BY ComesBeforeAppend
  <1>6. Ascending(t, r.id)
    BY <1>1, AscendingAppendOther DEF Answers
  <1>7. \A h \in a.next .. a.max : ComesBefore(t, r.id, h, Len(s) + 1)
    <2>1. \A h \in a.next .. a.max : h \in a.next .. r.next - 1
      BY <1>2
    <2> QED
      BY <2>1, <1>4, <1>5 DEF Underway
  <1> HIDE DEF t
  <1>8. ASSUME NEW i \in DOMAIN t, t[i] = RangeEnd(a.id)
        PROVE  \A h \in a.next .. a.max : ComesBefore(t, a.id, h, i)
    BY <1>4, <1>5, <1>7, <1>8 DEF Answers
  <1> QED
    BY <1>3, <1>5, <1>6, <1>8 DEF Answers, t

-----------------------------------------------------------------------------
(* What the writer takes from the channel: a block or the end of a range   *)
(* is on record, the rest is left out of the record.                       *)

Told == {"Block", "GetBlockRange"}

\* Messages t are those of s, in order, without some that are not told; up says
\* where each of them was.
Positions(t, s, up) ==
    /\ up \in [DOMAIN t -> DOMAIN s]
    /\ \A i \in DOMAIN t : t[i] = s[up[i]]
    /\ \A i, j \in DOMAIN t : i < j <=> up[i] < up[j]
    /\ \A j \in DOMAIN s : s[j].kind \in Told => \E i \in DOMAIN t : up[i] = j

Thinned(t, s) == \E up : Positions(t, s, up)

LEMMA WriterThins ==
  ASSUME NEW a \in Seq(Message), NEW q \in Seq(Message), q # <<>>, Head(q).kind \notin Told
  PROVE  Thinned(a \o Tail(q), a \o q)
  <1> DEFINE s == a \o q
             t == a \o Tail(q)
             n == Len(a)
             up == [i \in DOMAIN t |-> IF i <= n THEN i ELSE i + 1]
  <1>1. /\ s \in Seq(Message) /\ t \in Seq(Message) /\ n \in Nat
        /\ Len(t) \in Nat /\ Len(s) = Len(t) + 1 /\ n <= Len(t)
        /\ \A i \in 1..n : t[i] = s[i]
        /\ \A i \in (n + 1)..Len(t) : t[i] = s[i + 1]
        /\ s[n + 1] = Head(q)
    OBVIOUS
  <1> HIDE DEF s, t, n
  <1>2. DOMAIN t = 1..Len(t) /\ DOMAIN s = 1..Len(s)
    BY <1>1
  <1>3. up \in [DOMAIN t -> DOMAIN s]
    BY <1>1, <1>2
  <1>4. \A i \in DOMAIN t : t[i] = s[up[i]]
    BY <1>1, <1>2
  <1>5. \A i, j \in DOMAIN t : i < j <=> up[i] < up[j]
    BY <1>1, <1>2
  <1>6. ASSUME NEW j \in DOMAIN s, s[j].kind \in Told
        PROVE  \E i \in DOMAIN t : up[i] = j
    <2>1. j # n + 1
      BY <1>1, <1>6
    <2>2. CASE j <= n
      <3>1. j \in DOMAIN t /\ up[j] = j
        BY <2>2, <1>1, <1>2
      <3> QED
        BY <3>1
    <2>3. CASE ~(j <= n)
      <3>1. j - 1 \in DOMAIN t /\ up[j - 1] = j
        BY <2>1, <2>3, <1>1, <1>2, SMTT(30)
      <3> QED
        BY <3>1
    <2> QED
      BY <2>2, <2>3
  <1>7. Thinned(t, s)
    <2> HIDE DEF up
    <2>1. Positions(t, s, up)
      BY <1>3, <1>4, <1>5, <1>6 DEF Positions
    <2> QED
      BY <2>1 DEF Thinned
  <1> QED
    BY <1>7 DEF s, t

\* Thinning keeps the blocks, their order and the ends of ranges.
LEMMA ThinnedBlocks ==
  ASSUME NEW s \in Seq(Message), NEW t \in Seq(Message), NEW up, Positions(t, s, up), NEW id
  PROVE  /\ \A i \in Blocks(t, id) : i \in DOMAIN t /\ up[i] \in Blocks(s, id) /\ t[i] = s[up[i]]
         /\ \A j \in Blocks(s, id) : \E i \in Blocks(t, id) : up[i] = j
         /\ Ascending(s, id) => Ascending(t, id)
         /\ \A h : \A i \in DOMAIN t : ComesBefore(s, id, h, up[i]) => ComesBefore(t, id, h, i)
         /\ \A h : ComesBefore(s, id, h, Len(s) + 1) => ComesBefore(t, id, h, Len(t) + 1)
  <1> USE DEF Positions
  <1>1. \A i \in Blocks(t, id) : i \in DOMAIN t /\ up[i] \in Blocks(s, id) /\ t[i] = s[up[i]]
    BY DEF Blocks
  <1>2. ASSUME NEW j \in Blocks(s, id) PROVE \E i \in Blocks(t, id) : up[i] = j
    <2>1. j \in DOMAIN s /\ s[j].kind \in Told /\ s[j].kind = "Block" /\ s[j].id = id
      BY DEF Blocks, Told
    <2>2. PICK i \in DOMAIN t : up[i] = j
      BY <2>1
    <2>3. i \in Blocks(t, id)
      BY <2>1, <2>2 DEF Blocks
    <2> QED
      BY <2>2, <2>3
  <1>3. Ascending(s, id) => Ascending(t, id)
    BY <1>1 DEF Ascending
  <1>4. ASSUME NEW h, NEW i \in DOMAIN t, ComesBefore(s, id, h, up[i])
        PROVE  ComesBefore(t, id, h, i)
    <2>1. PICK j \in Blocks(s, id) : j < up[i] /\ s[j].height = h
      BY <1>4 DEF ComesBefore
    <2>2. PICK k \in Blocks(t, id) : up[k] = j
      BY <1>2
    <2> QED
      BY <2>1, <2>2, <1>1 DEF ComesBefore
  <1>5. ASSUME NEW h, ComesBefore(s, id, h, Len(s) + 1)
        PROVE  ComesBefore(t, id, h, Len(t) + 1)
    <2>1. PICK j \in Blocks(s, id) : s[j].height = h
      BY <1>5 DEF ComesBefore
    <2>2. PICK k \in Blocks(t, id) : up[k] = j
      BY <1>2
    <2>3. k < Len(t) + 1 /\ t[k].height = h
      BY <2>1, <2>2, <1>1
    <2> QED
      BY <2>3 DEF ComesBefore
  <1> QED
    BY <1>1, <1>2, <1>3, <1>4, <1>5

LEMMA ThinnedAnswers ==
  ASSUME NEW s \in Seq(Message), NEW t \in Seq(Message), Thinned(t, s)
  PROVE  /\ \A id : Ascending(s, id) => Ascending(t, id)
         /\ \A id, h : ComesBefore(s, id, h, Len(s) + 1) => ComesBefore(t, id, h, Len(t) + 1)
         /\ \A i \in DOMAIN t : \E j \in DOMAIN s : t[i] = s[j]
         /\ \A r : Answers(s, r) => Answers(t, r)
         /\ \A a, r : Underway(s, a, r) => Underway(t, a, r)
  <1>1. PICK up : Positions(t, s, up)
    BY DEF Thinned
  <1>2. ASSUME NEW id
        PROVE  /\ \A i \in Blocks(t, id) : i \in DOMAIN t /\ up[i] \in Blocks(s, id) /\ t[i] = s[up[i]]
               /\ Ascending(s, id) => Ascending(t, id)
               /\ \A h : \A i \in DOMAIN t : ComesBefore(s, id, h, up[i]) => ComesBefore(t, id, h, i)
               /\ \A h : ComesBefore(s, id, h, Len(s) + 1) => ComesBefore(t, id, h, Len(t) + 1)
    BY <1>1, ThinnedBlocks
  <1>3. \A i \in DOMAIN t : up[i] \in DOMAIN s /\ t[i] = s[up[i]]
    BY <1>1 DEF Positions
  <1>4. ASSUME NEW r, Answers(s, r) PROVE Answers(t, r)
    <2>1. ASSUME NEW i \in Blocks(t, r.id)
          PROVE  /\ t[i].filtered = r.filtered
                 /\ t[i].height \in r.next .. r.max
                 /\ \A h \in r.next .. t[i].height - 1 : ComesBefore(t, r.id, h, i)
      <3>1. i \in DOMAIN t /\ up[i] \in Blocks(s, r.id) /\ t[i] = s[up[i]]
        BY <1>2
      <3> QED
        BY <3>1, <1>2, <1>4 DEF Answers
    <2>2. ASSUME NEW i \in DOMAIN t, t[i] = RangeEnd(r.id), NEW h \in r.next .. r.max
          PROVE  ComesBefore(t, r.id, h, i)
      BY <2>2, <1>2, <1>3, <1>4 DEF Answers
    <2> QED
      BY <2>1, <2>2, <1>2, <1>4 DEF Answers
  <1>5. ASSUME NEW a, NEW r, Underway(s, a, r) PROVE Underway(t, a, r)
    <2>1. \A i \in Blocks(t, r.id) : t[i].height < r.next
      BY <1>2, <1>5 DEF Underway
    <2>2. \A h \in a.next .. r.next - 1 : ComesBefore(t, r.id, h, Len(t) + 1)
      BY <1>2, <1>5 DEF Underway
    <2>3. \A i \in DOMAIN t : t[i] # RangeEnd(r.id)
      BY <1>3, <1>5 DEF Underway
    <2> QED
      BY <2>1, <2>2, <2>3, <1>5 DEF Underway
  <1> QED
    BY <1>2, <1>3, <1>4, <1>5

-----------------------------------------------------------------------------
(* One connection, with its state as parameters: s are its messages, P the *)
(* pool, A the ranges asked for, R its range tasks.                        *)

MessagesKnown(s, req, ann) ==
    \A i \in DOMAIN s :
        /\ i \in Blocks(s, BROADCAST_ID) => s[i].height <= ann
        /\ s[i].kind \in Told => s[i].id <= req

NoGap(s, c, P, from, ann) ==
    /\ Ascending(s, BROADCAST_ID)
    /\ c \in P => \A h \in from + 1 .. ann : ComesBefore(s, BROADCAST_ID, h, Len(s) + 1)

Answered(s, A, R, req) ==
    \A a \in A :
        /\ Answers(s, a) /\ a.id <= req
        /\ \A r \in R : r.id = a.id => Underway(s, a, r)

ConnInv(s, c, P, from, ann, A, R, req) ==
    MessagesKnown(s, req, ann) /\ NoGap(s, c, P, from, ann) /\ Answered(s, A, R, req)

ConnsInv ==
    \A c \in Conns :
        ConnInv(seen[c] \o queue[c], c, pool, since[c], announced, asked[c], ranges[c], requests[c])

BaseInv ==
    TypeOK /\ OneBlockAhead /\ IdleInv /\ TaskInv /\ PoolIsLive /\ RangeFindsBlocks

\* The invariant, connection by connection.
LEMMA Parts == SessionInv <=> BaseInv /\ ConnsInv
  <1> USE DEF Messages, Told, ConnsInv, ConnInv, SessionInv, BaseInv
  <1>1. ASSUME SessionInv PROVE ConnsInv
    <2> SUFFICES ASSUME NEW c \in Conns
                 PROVE  ConnInv(seen[c] \o queue[c], c, pool, since[c], announced,
                                asked[c], ranges[c], requests[c])
      OBVIOUS
    <2> DEFINE s == seen[c] \o queue[c]
    <2>1. MessagesKnown(s, requests[c], announced)
      BY <1>1 DEF IdInv, MessagesKnown
    <2>2. NoGap(s, c, pool, since[c], announced)
      BY <1>1 DEF SubscriptionHasNoGap, NoGap
    <2>3. Answered(s, asked[c], ranges[c], requests[c])
      <3>1. CASE task[c] = "open"
        BY <1>1, <3>1 DEF RangeInOrder, UnderwayInv, Answered
      <3>2. CASE task[c] # "open"
        BY <1>1, <3>2 DEF IdleInv, Answered
      <3> QED
        BY <3>1, <3>2
    <2> QED
      BY <2>1, <2>2, <2>3
  <1>2. ASSUME BaseInv, ConnsInv PROVE SessionInv
    <2>1. IdInv
      BY <1>2 DEF IdInv, MessagesKnown
    <2>2. SubscriptionHasNoGap
      BY <1>2 DEF SubscriptionHasNoGap, NoGap
    <2>3. RangeInOrder /\ UnderwayInv
      BY <1>2 DEF RangeInOrder, UnderwayInv, Answered
    <2> QED
      BY <1>2, <2>1, <2>2, <2>3
  <1>3. SessionInv => BaseInv
    OBVIOUS
  <1> QED
    BY <1>1, <1>2, <1>3

\* A message that is not told: a reply, a ping or a close frame.
LEMMA ConnSend ==
  ASSUME NEW s \in Seq(Message), NEW m \in Message, m.kind \notin Told,
         NEW req \in Nat, NEW more \in Nat, req <= more,
         NEW c, NEW P, NEW from, NEW ann, NEW A \in SUBSET RangeTask, NEW R \in SUBSET RangeTask,
         ConnInv(s, c, P, from, ann, A, R, req)
  PROVE  ConnInv(Append(s, m), c, P, from, ann, A, R, more)
  <1> DEFINE t == Append(s, m)
  <1>1. m.kind # "Block" /\ \A id : m # RangeEnd(id)
    BY DEF Told, RangeEnd
  <1>2. /\ DOMAIN t = DOMAIN s \cup {Len(s) + 1} /\ t[Len(s) + 1] = m /\ t \in Seq(Message)
        /\ \A i \in DOMAIN s : t[i] = s[i] /\ s[i] \in Message
        /\ Len(t) = Len(s) + 1 /\ Len(s) \in Nat
    OBVIOUS
  <1>3. \A id : Blocks(t, id) = Blocks(s, id) /\ \A i \in Blocks(s, id) : i \in DOMAIN s
    BY <1>1, BlocksAppendOther DEF Blocks
  <1>4. \A id, h : ComesBefore(s, id, h, Len(s) + 1) => ComesBefore(t, id, h, Len(t) + 1)
    <2> SUFFICES ASSUME NEW id, NEW h, ComesBefore(s, id, h, Len(s) + 1)
                 PROVE  ComesBefore(t, id, h, Len(t) + 1)
      OBVIOUS
    <2>1. ComesBefore(t, id, h, Len(s) + 1)
      BY <1>2, ComesBeforeAppend
    <2>2. Len(s) + 1 \in Nat /\ Len(t) + 1 \in Nat /\ Len(s) + 1 <= Len(t) + 1
      BY <1>2
    <2> QED
      BY <2>1, <2>2, <1>2, ComesBeforeLater
  <1>5. Ascending(t, BROADCAST_ID)
    BY <1>1, AscendingAppendOther DEF ConnInv, NoGap
  <1>6. \A a \in A : Answers(t, a) /\ \A r \in R : r.id = a.id => Underway(t, a, r)
    BY <1>1, AnswersAppendOther, UnderwayAppendOther DEF ConnInv, Answered
  <1>7. \A i \in DOMAIN s : s[i].id \in Nat
    BY SessionAssumption DEF Message
  <1>8. \A a \in A : a.id <= more
    BY SessionAssumption DEF ConnInv, Answered, RangeTask
  <1> HIDE DEF t
  <1>9. MessagesKnown(t, more, ann)
    BY <1>2, <1>3, <1>7 DEF ConnInv, MessagesKnown, BROADCAST_ID
  <1>10. NoGap(t, c, P, from, ann)
    BY <1>4, <1>5 DEF ConnInv, NoGap
  <1>11. Answered(t, A, R, more)
    BY <1>6, <1>8 DEF Answered
  <1>12. ConnInv(t, c, P, from, ann, A, R, more)
    BY <1>9, <1>10, <1>11 DEF ConnInv
  <1> QED
    BY <1>12 DEF t

\* Subscribing and unsubscribing.
LEMMA ConnPool ==
  ASSUME NEW s, NEW c, NEW P, NEW Q, NEW from, NEW start, NEW ann \in Nat, NEW A, NEW R, NEW req,
         c \in Q => (c \in P /\ start = from) \/ start = ann,
         ConnInv(s, c, P, from, ann, A, R, req)
  PROVE  ConnInv(s, c, Q, start, ann, A, R, req)
  <1>1. NoGap(s, c, Q, start, ann)
    BY DEF ConnInv, NoGap
  <1> QED
    BY <1>1 DEF ConnInv

\* A range accepted under an id that no message names yet.
LEMMA ConnAsk ==
  ASSUME NEW s \in Seq(Message), NEW c, NEW P, NEW from, NEW ann, NEW req \in Nat,
         NEW A \in SUBSET RangeTask, NEW R \in SUBSET RangeTask,
         \A r \in R : r.id <= req,
         NEW n \in RangeTask, n.id = req + 1,
         ConnInv(s, c, P, from, ann, A, R, req)
  PROVE  ConnInv(s, c, P, from, ann, A \cup {n}, R \cup {n}, req + 1)
  <1>1. \A i \in DOMAIN s : s[i].id \in Nat /\ (s[i].kind \in Told => s[i].id <= req)
    BY SessionAssumption DEF Message, ConnInv, MessagesKnown
  <1>2. Blocks(s, n.id) = {}
    BY <1>1 DEF Blocks, Told
  <1>3. \A i \in DOMAIN s : s[i] # RangeEnd(n.id)
    BY <1>1 DEF RangeEnd, Told
  <1>4. n.next \in Nat /\ n.max \in Nat
    BY SessionAssumption DEF RangeTask
  <1>5. Answers(s, n) /\ Underway(s, n, n)
    BY <1>2, <1>3, <1>4 DEF Answers, Underway, Ascending
  <1>6. \A a \in A : a.id \in Nat /\ a.id <= req
    BY SessionAssumption DEF RangeTask, ConnInv, Answered
  <1>7. \A r \in R : r.id \in Nat /\ r.id <= req
    BY SessionAssumption DEF RangeTask
  <1>8. Answered(s, A \cup {n}, R \cup {n}, req + 1)
    BY <1>5, <1>6, <1>7 DEF ConnInv, Answered
  <1>9. MessagesKnown(s, req + 1, ann)
    BY <1>1 DEF ConnInv, MessagesKnown
  <1> QED
    BY <1>8, <1>9 DEF ConnInv

\* The broadcast of the next block to a subscriber, and to another connection.
LEMMA ConnBroadcast ==
  ASSUME NEW s \in Seq(Message), NEW c, NEW P, NEW from \in Nat, NEW ann \in Nat, NEW req \in Nat,
         NEW A \in SUBSET RangeTask, NEW R \in SUBSET RangeTask,
         NEW m \in Message, m.kind = "Block", m.id = BROADCAST_ID, m.height = ann + 1,
         ConnInv(s, c, P, from, ann, A, R, req)
  PROVE  /\ ConnInv(Append(s, m), c, P, from, ann + 1, A, R, req)
         /\ c \notin P => ConnInv(s, c, P, from, ann + 1, A, R, req)
  <1> DEFINE t == Append(s, m)
  <1>1. /\ m.kind = "Block" /\ m.id = BROADCAST_ID /\ m.id = 0 /\ m.height = ann + 1
        /\ \A id : m # RangeEnd(id)
    BY DEF RangeEnd, BROADCAST_ID
  <1>2. /\ DOMAIN t = DOMAIN s \cup {Len(s) + 1} /\ t[Len(s) + 1] = m /\ t \in Seq(Message)
        /\ \A i \in DOMAIN s : t[i] = s[i] /\ s[i] \in Message
        /\ Len(t) = Len(s) + 1 /\ Len(s) \in Nat
    OBVIOUS
  <1>3. /\ Blocks(t, BROADCAST_ID) = Blocks(s, BROADCAST_ID) \cup {Len(s) + 1}
        /\ \A i \in Blocks(s, BROADCAST_ID) : t[i] = s[i]
    <2>1. m.kind = "Block" /\ m.id = BROADCAST_ID
      BY <1>1
    <2> QED
      BY <2>1, <1>2 DEF Blocks
  <1>4. \A i \in Blocks(s, BROADCAST_ID) :
           i \in DOMAIN s /\ s[i].height \in Nat /\ s[i].height <= ann
    BY MessageTypes DEF ConnInv, MessagesKnown, Blocks
  <1>5. Ascending(t, BROADCAST_ID)
    <2>1. Ascending(s, BROADCAST_ID) /\ \A i \in Blocks(s, BROADCAST_ID) : s[i].height < m.height
      BY <1>1, <1>4 DEF ConnInv, NoGap
    <2> QED
      BY <2>1, <1>1, AscendingAppend
  <1>6. \A h : ComesBefore(s, BROADCAST_ID, h, Len(s) + 1) => ComesBefore(t, BROADCAST_ID, h, Len(t) + 1)
    <2> SUFFICES ASSUME NEW h, ComesBefore(s, BROADCAST_ID, h, Len(s) + 1)
                 PROVE  ComesBefore(t, BROADCAST_ID, h, Len(t) + 1)
      OBVIOUS
    <2>1. ComesBefore(t, BROADCAST_ID, h, Len(s) + 1)
      BY <1>2, ComesBeforeAppend
    <2>2. Len(s) + 1 \in Nat /\ Len(t) + 1 \in Nat /\ Len(s) + 1 <= Len(t) + 1
      BY <1>2
    <2> QED
      BY <2>1, <2>2, <1>2, ComesBeforeLater
  <1>7. ComesBefore(t, BROADCAST_ID, ann + 1, Len(t) + 1)
    BY <1>1, <1>2, <1>3 DEF ComesBefore
  <1>8. \A a \in A : Answers(t, a) /\ \A r \in R : r.id = a.id => Underway(t, a, r)
    <2>1. \A a \in RangeTask : a.id # 0
      BY SessionAssumption DEF RangeTask
    <2> QED
      BY <2>1, <1>1, AnswersAppendOther, UnderwayAppendOther DEF ConnInv, Answered
  <1> HIDE DEF t
  <1>9. Answered(t, A, R, req)
    BY <1>8 DEF ConnInv, Answered
  <1>10. MessagesKnown(t, req, ann + 1)
    <2>1. \A i \in DOMAIN s : s[i].kind \in Told => s[i].id <= req
      BY DEF ConnInv, MessagesKnown
    <2> QED
      BY <2>1, <1>1, <1>2, <1>3, <1>4 DEF MessagesKnown
  <1>11. MessagesKnown(s, req, ann + 1)
    BY <1>4 DEF ConnInv, MessagesKnown
  <1>12. NoGap(t, c, P, from, ann + 1)
    <2>1. ASSUME c \in P, NEW h \in from + 1 .. ann + 1
          PROVE  ComesBefore(t, BROADCAST_ID, h, Len(t) + 1)
      <3>1. h = ann + 1 \/ h \in from + 1 .. ann
        OBVIOUS
      <3> QED
        BY <2>1, <3>1, <1>6, <1>7 DEF ConnInv, NoGap
    <2> QED
      BY <2>1, <1>5 DEF NoGap
  <1>13. ConnInv(t, c, P, from, ann + 1, A, R, req)
    BY <1>9, <1>10, <1>12 DEF ConnInv
  <1>14. c \notin P => ConnInv(s, c, P, from, ann + 1, A, R, req)
    BY <1>11 DEF ConnInv, NoGap
  <1> QED
    BY <1>13, <1>14 DEF t

\* A task that ends without a word, its connection being closed.
LEMMA ConnDrop ==
  ASSUME NEW s, NEW c, NEW P, NEW from, NEW ann, NEW A, NEW R, NEW Q \in SUBSET R, NEW req,
         ConnInv(s, c, P, from, ann, A, R, req)
  PROVE  ConnInv(s, c, P, from, ann, A, Q, req)
  BY DEF ConnInv, Answered

\* A told message of a task: what the others and the subscription see of it.
LEMMA ConnTold ==
  ASSUME NEW s \in Seq(Message), NEW c, NEW P, NEW from, NEW ann, NEW req \in Nat,
         NEW A \in SUBSET RangeTask, NEW R \in SUBSET RangeTask,
         NEW m \in Message, m.id # 0, m.id <= req,
         ConnInv(s, c, P, from, ann, A, R, req)
  PROVE  /\ MessagesKnown(Append(s, m), req, ann) /\ NoGap(Append(s, m), c, P, from, ann)
         /\ \A a \in A : a.id # m.id =>
               /\ Answers(Append(s, m), a)
               /\ \A r \in R : r.id = a.id => Underway(Append(s, m), a, r)
  <1> DEFINE t == Append(s, m)
  <1>1. \A id : m.id # id => m # RangeEnd(id)
    BY DEF RangeEnd
  <1>2. /\ DOMAIN t = DOMAIN s \cup {Len(s) + 1} /\ t[Len(s) + 1] = m /\ t \in Seq(Message)
        /\ \A i \in DOMAIN s : t[i] = s[i] /\ s[i] \in Message
        /\ Len(t) = Len(s) + 1 /\ Len(s) \in Nat
    OBVIOUS
  <1>3. /\ Blocks(t, BROADCAST_ID) = Blocks(s, BROADCAST_ID)
        /\ \A i \in Blocks(s, BROADCAST_ID) : i \in DOMAIN s
    BY BlocksAppendOther DEF Blocks, BROADCAST_ID
  <1>4. \A h : ComesBefore(s, BROADCAST_ID, h, Len(s) + 1) => ComesBefore(t, BROADCAST_ID, h, Len(t) + 1)
    <2> SUFFICES ASSUME NEW h, ComesBefore(s, BROADCAST_ID, h, Len(s) + 1)
                 PROVE  ComesBefore(t, BROADCAST_ID, h, Len(t) + 1)
      OBVIOUS
    <2>1. ComesBefore(t, BROADCAST_ID, h, Len(s) + 1)
      BY <1>2, ComesBeforeAppend
    <2>2. Len(s) + 1 \in Nat /\ Len(t) + 1 \in Nat /\ Len(s) + 1 <= Len(t) + 1
      BY <1>2
    <2> QED
      BY <2>1, <2>2, <1>2, ComesBeforeLater
  <1>5. Ascending(t, BROADCAST_ID)
    BY AscendingAppendOther DEF ConnInv, NoGap, BROADCAST_ID
  <1>6. \A a \in A : a.id # m.id =>
           Answers(t, a) /\ \A r \in R : r.id = a.id => Underway(t, a, r)
    BY <1>1, AnswersAppendOther, UnderwayAppendOther DEF ConnInv, Answered
  <1> HIDE DEF t
  <1>7. MessagesKnown(t, req, ann)
    BY <1>2, <1>3 DEF ConnInv, MessagesKnown
  <1>8. NoGap(t, c, P, from, ann)
    BY <1>4, <1>5 DEF ConnInv, NoGap
  <1> QED
    BY <1>6, <1>7, <1>8 DEF t

\* The next block of a task, and its last message.
LEMMA ConnRangeBlock ==
  ASSUME NEW s \in Seq(Message), NEW c, NEW P, NEW from, NEW ann, NEW req \in Nat,
         NEW A \in SUBSET RangeTask, NEW R \in SUBSET RangeTask, NEW r \in R,
         \A p, q \in R : p.id = q.id => p = q,
         NEW m \in Message, m.kind = "Block", m.id = r.id, m.height = r.next,
         m.filtered = r.filtered,
         r.id <= req, r.next <= r.max,
         ConnInv(s, c, P, from, ann, A, R, req)
  PROVE  ConnInv(Append(s, m), c, P, from, ann, A,
                 (R \ {r}) \cup {[r EXCEPT !.next = r.next + 1]}, req)
  <1> DEFINE t == Append(s, m)
             n == [r EXCEPT !.next = r.next + 1]
  <1>1. m.id = r.id /\ r.id # 0 /\ n.id = r.id
    BY SessionAssumption DEF RangeTask
  <1>2. /\ MessagesKnown(t, req, ann) /\ NoGap(t, c, P, from, ann)
        /\ \A a \in A : a.id # r.id =>
              Answers(t, a) /\ \A q \in R : q.id = a.id => Underway(t, a, q)
    BY <1>1, ConnTold
  <1>3. \A a \in A : a.id = r.id => Answers(t, a) /\ Underway(t, a, n)
    BY NextBlock DEF ConnInv, Answered
  <1> HIDE DEF t, n
  <1>4. Answered(t, A, (R \ {r}) \cup {n}, req)
    BY <1>1, <1>2, <1>3 DEF ConnInv, Answered
  <1>5. ConnInv(t, c, P, from, ann, A, (R \ {r}) \cup {n}, req)
    BY <1>2, <1>4 DEF ConnInv
  <1> QED
    BY <1>5 DEF t, n

LEMMA ConnRangeEnd ==
  ASSUME NEW s \in Seq(Message), NEW c, NEW P, NEW from, NEW ann, NEW req \in Nat,
         NEW A \in SUBSET RangeTask, NEW R \in SUBSET RangeTask, NEW r \in R,
         \A p, q \in R : p.id = q.id => p = q,
         NEW m \in Message, m = RangeEnd(r.id),
         r.id <= req, r.next > r.max,
         ConnInv(s, c, P, from, ann, A, R, req)
  PROVE  ConnInv(Append(s, m), c, P, from, ann, A, R \ {r}, req)
  <1> DEFINE t == Append(s, m)
  <1>1. m.id = r.id /\ r.id # 0
    BY SessionAssumption DEF RangeEnd, RangeTask
  <1>2. /\ MessagesKnown(t, req, ann) /\ NoGap(t, c, P, from, ann)
        /\ \A a \in A : a.id # r.id =>
              Answers(t, a) /\ \A q \in R : q.id = a.id => Underway(t, a, q)
    BY <1>1, ConnTold
  <1>3. \A a \in A : a.id = r.id => Answers(t, a)
    BY LastMessage DEF ConnInv, Answered
  <1> HIDE DEF t
  <1>4. Answered(t, A, R \ {r}, req)
    BY <1>1, <1>2, <1>3 DEF ConnInv, Answered
  <1>5. ConnInv(t, c, P, from, ann, A, R \ {r}, req)
    BY <1>2, <1>4 DEF ConnInv
  <1> QED
    BY <1>5 DEF t

\* What the writer leaves out of the record.
LEMMA ConnThinned ==
  ASSUME NEW s \in Seq(Message), NEW t \in Seq(Message), Thinned(t, s),
         NEW c, NEW P, NEW from, NEW ann, NEW A, NEW R, NEW req,
         ConnInv(s, c, P, from, ann, A, R, req)
  PROVE  ConnInv(t, c, P, from, ann, A, R, req)
  <1>1. /\ \A id : Ascending(s, id) => Ascending(t, id)
        /\ \A id, h : ComesBefore(s, id, h, Len(s) + 1) => ComesBefore(t, id, h, Len(t) + 1)
        /\ \A i \in DOMAIN t : \E j \in DOMAIN s : t[i] = s[j]
        /\ \A r : Answers(s, r) => Answers(t, r)
        /\ \A a, r : Underway(s, a, r) => Underway(t, a, r)
    BY ThinnedAnswers
  <1>2. MessagesKnown(t, req, ann)
    BY <1>1 DEF ConnInv, MessagesKnown, Blocks
  <1>3. NoGap(t, c, P, from, ann)
    BY <1>1 DEF ConnInv, NoGap
  <1>4. Answered(t, A, R, req)
    BY <1>1 DEF ConnInv, Answered
  <1> QED
    BY <1>2, <1>3, <1>4 DEF ConnInv

-----------------------------------------------------------------------------
(* The channel and the messages as state.                                  *)

\* No hypothesis of the lemmas below is more than the types.
LEMMA MessageKinds ==
  ASSUME NEW id \in 0 .. MaxRequests
  PROVE  /\ Reply(id) \in Message /\ Reply(id).kind \notin Told
         /\ Ping \in Message /\ Ping.kind \notin Told
         /\ CloseFrame \in Message /\ CloseFrame.kind \notin Told
         /\ RangeEnd(id) \in Message /\ RangeEnd(id).id = id
  BY SessionAssumption DEF Message, Reply, Ping, CloseFrame, RangeEnd, BROADCAST_ID, Told

LEMMA SendTypes ==
  ASSUME TypeOK, NEW c \in Conns, NEW sender \in Sender, NEW msg \in Message,
         Send(c, sender, msg)
  PROVE  /\ queue' \in [Conns -> Seq(Message)] /\ parked' \in [Conns -> Seq(Sender)]
         /\ queue'[c] = Append(queue[c], msg)
         /\ \A d \in Conns : d # c => queue'[d] = queue[d]
         /\ \A d \in Conns : Len(parked'[d]) <= Len(queue'[d])
  <1>1. /\ queue \in [Conns -> Seq(Message)] /\ parked \in [Conns -> Seq(Sender)]
        /\ \A d \in Conns : Len(parked[d]) <= Len(queue[d])
    BY DEF TypeOK, ConnTypes
  <1>2. /\ queue' = [queue EXCEPT ![c] = Append(queue[c], msg)]
        /\ parked' = [parked EXCEPT ![c] = ParkedAfter(c, sender)]
    BY DEF Send
  <1>3. ParkedAfter(c, sender) \in Seq(Sender) /\ Len(ParkedAfter(c, sender)) <= Len(queue[c]) + 1
    BY <1>1 DEF ParkedAfter
  <1>4. Append(queue[c], msg) \in Seq(Message) /\ Len(Append(queue[c], msg)) = Len(queue[c]) + 1
    BY <1>1
  <1> QED
    BY <1>1, <1>2, <1>3, <1>4

LEMMA SendersKnown ==
  /\ Reader \in Sender /\ Heartbeat \in Sender /\ Dropped \in Sender
  /\ \A id \in 1 .. MaxRequests : RangeOf(id) \in Sender
  BY DEF Sender

\* The messages of a connection after a message has been sent to it.
LEMMA SendMessages ==
  ASSUME NEW a \in Seq(Message), NEW q \in Seq(Message), NEW m
  PROVE  a \o Append(q, m) = Append(a \o q, m)
  OBVIOUS

LEMMA TypedMessages ==
  ASSUME TypeOK, NEW c \in Conns
  PROVE  /\ seen[c] \in Seq(Message) /\ queue[c] \in Seq(Message)
         /\ seen[c] \o queue[c] \in Seq(Message)
         /\ requests[c] \in Nat /\ requests[c] <= MaxRequests
         /\ ranges[c] \in SUBSET RangeTask /\ asked[c] \in SUBSET RangeTask
         /\ since[c] \in Nat /\ announced \in Nat
  BY SessionAssumption DEF TypeOK, ConnTypes, ChainTypes

LEMMA SendTo ==
  ASSUME TypeOK, NEW c \in Conns, NEW m
  PROVE  seen[c] \o Append(queue[c], m) = Append(seen[c] \o queue[c], m)
  <1>1. seen[c] \in Seq(Message) /\ queue[c] \in Seq(Message)
    BY TypedMessages
  <1> QED
    BY <1>1, SendMessages

LEMMA InitSession == Init => SessionInv
  <1> SUFFICES ASSUME Init PROVE SessionInv
    OBVIOUS
  <1> USE SessionAssumption DEF Init
  <1>1. ConnTypes /\ ChainTypes
    BY DEF ConnTypes, ChainTypes
  <1>2. FlagTypes
    BY DEF FlagTypes
  <1>3. TypeOK
    BY <1>1, <1>2 DEF TypeOK
  <1>4. OneBlockAhead /\ IdleInv /\ TaskInv /\ PoolIsLive
    BY DEF OneBlockAhead, IdleInv, TaskInv, PoolIsLive
  <1>5. RangeFindsBlocks
    BY DEF RangeFindsBlocks
  <1>6. BaseInv
    BY <1>3, <1>4, <1>5 DEF BaseInv
  <1>7. ConnsInv
    <2> SUFFICES ASSUME NEW c \in Conns
                 PROVE  ConnInv(seen[c] \o queue[c], c, pool, since[c], announced,
                                asked[c], ranges[c], requests[c])
      BY DEF ConnsInv
    <2> DEFINE s == seen[c] \o queue[c]
    <2>1. s = <<>> /\ DOMAIN s = {} /\ asked[c] = {} /\ c \notin pool
      OBVIOUS
    <2> HIDE DEF s
    <2>2. ConnInv(s, c, pool, since[c], announced, asked[c], ranges[c], requests[c])
      BY <2>1 DEF ConnInv, MessagesKnown, NoGap, Answered, Ascending, Blocks
    <2> QED
      BY <2>2 DEF s
  <1> QED
    BY <1>6, <1>7, Parts

\* What a step of one connection leaves alone.
OthersSame(c) ==
    \A d \in Conns \ {c} :
        /\ task'[d] = task[d] /\ queue'[d] = queue[d] /\ seen'[d] = seen[d]
        /\ asked'[d] = asked[d] /\ ranges'[d] = ranges[d] /\ requests'[d] = requests[d]
        /\ since'[d] = since[d] /\ (d \in pool' <=> d \in pool)

\* A step of one connection preserves the invariant when that connection's part
\* is preserved.
LEMMA OneConnection ==
  ASSUME SessionInv, NEW c \in Conns, TypeOK', OthersSame(c), UNCHANGED chain,
         unreachable' => unreachable,
         c \in pool' => task'[c] = "open",
         task'[c] # "open" => queue'[c] = <<>> /\ seen'[c] = <<>> /\ asked'[c] = {},
         task'[c] = "none" => ranges'[c] = {},
         \A r \in ranges'[c] : r.id <= requests'[c] /\ r.next <= r.max + 1 /\ r.max <= height,
         \A q, r \in ranges'[c] : q.id = r.id => q = r,
         ConnInv(seen'[c] \o queue'[c], c, pool', since'[c], announced, asked'[c], ranges'[c],
                 requests'[c])
  PROVE  SessionInv'
  <1>1. BaseInv /\ ConnsInv
    BY Parts
  <1>2. announced' = announced /\ height' = height /\ stored' = stored
    BY DEF chain
  <1>3. OneBlockAhead'
    BY <1>1, <1>2 DEF BaseInv, OneBlockAhead
  <1>4. IdleInv'
    BY <1>1 DEF BaseInv, IdleInv, OthersSame
  <1>5. TaskInv'
    BY <1>1, <1>2 DEF BaseInv, TaskInv, OthersSame
  <1>6. PoolIsLive'
    <2>1. pool' \subseteq Conns
      BY DEF TypeOK, ConnTypes
    <2> QED
      BY <2>1, <1>1 DEF BaseInv, PoolIsLive, OthersSame
  <1>7. RangeFindsBlocks'
    BY <1>1 DEF BaseInv, RangeFindsBlocks
  <1>8. ConnsInv'
    <2> SUFFICES ASSUME NEW d \in Conns
                 PROVE  ConnInv(seen'[d] \o queue'[d], d, pool', since'[d], announced,
                                asked'[d], ranges'[d], requests'[d])
      BY <1>2 DEF ConnsInv
    <2>1. CASE d = c
      BY <2>1
    <2>2. CASE d # c
      <3>1. ConnInv(seen[d] \o queue[d], d, pool, since[d], announced,
                    asked[d], ranges[d], requests[d])
        BY <1>1 DEF ConnsInv
      <3>2. ConnInv(seen[d] \o queue[d], d, pool', since[d], announced,
                    asked[d], ranges[d], requests[d])
        BY <3>1, <2>2 DEF OthersSame, ConnInv, NoGap
      <3> QED
        BY <3>2, <2>2 DEF OthersSame
    <2> QED
      BY <2>1, <2>2
  <1>9. BaseInv'
    BY <1>3, <1>4, <1>5, <1>6, <1>7 DEF BaseInv
  <1> QED
    BY <1>8, <1>9, Parts, PTL

-----------------------------------------------------------------------------
(* The steps of a connection.                                              *)

\* What SessionInv says of one connection.
LEMMA Facts ==
  ASSUME SessionInv, NEW c \in Conns
  PROVE  /\ TypeOK
         /\ c \in pool => task[c] = "open"
         /\ task[c] # "open" => queue[c] = <<>> /\ seen[c] = <<>> /\ asked[c] = {}
         /\ task[c] = "none" => ranges[c] = {}
         /\ \A r \in ranges[c] : r.id <= requests[c] /\ r.next <= r.max + 1 /\ r.max <= height
         /\ \A q, r \in ranges[c] : q.id = r.id => q = r
         /\ ConnInv(seen[c] \o queue[c], c, pool, since[c], announced,
                    asked[c], ranges[c], requests[c])
  BY Parts DEF BaseInv, ConnsInv, PoolIsLive, IdleInv, TaskInv

\* Steps that change nothing but the flags and the peer, or open the connection.
LEMMA QuietStep ==
  ASSUME SessionInv, NEW c \in Conns,
         task' \in [Conns -> {"none", "open", "closed"}], \A d \in Conns \ {c} : task'[d] = task[d],
         task'[c] = "open", peer' \in [Conns -> {"up", "silent"}], FlagTypes',
         UNCHANGED <<queue, parked, ranges, requests, pool, chain, history>>
  PROVE  SessionInv'
  <1>1. /\ TypeOK
        /\ \A r \in ranges[c] : r.id <= requests[c] /\ r.next <= r.max + 1 /\ r.max <= height
        /\ \A q, r \in ranges[c] : q.id = r.id => q = r
        /\ ConnInv(seen[c] \o queue[c], c, pool, since[c], announced,
                   asked[c], ranges[c], requests[c])
    BY Facts
  <1>2. /\ queue' = queue /\ parked' = parked /\ ranges' = ranges /\ requests' = requests
        /\ pool' = pool /\ chain' = chain /\ seen' = seen /\ since' = since /\ asked' = asked
        /\ unreachable' = unreachable
    BY DEF history
  <1>3. TypeOK'
    <2>1. ConnTypes'
      BY <1>1, <1>2 DEF TypeOK, ConnTypes
    <2>2. ChainTypes'
      BY <1>1, <1>2 DEF TypeOK, ChainTypes, chain
    <2> QED
      BY <2>1, <2>2, <1>1, <1>2 DEF TypeOK
  <1>4. OthersSame(c)
    BY <1>2 DEF OthersSame
  <1> QED
    BY <1>1, <1>2, <1>3, <1>4, OneConnection

\* The end of the connection's task.
LEMMA CloseStep ==
  ASSUME SessionInv, NEW c \in Conns, Close(c), task[c] = "open",
         UNCHANGED <<peer, ranges, requests, chain, since, unreachable>>
  PROVE  SessionInv'
  <1>1. /\ TypeOK
        /\ \A r \in ranges[c] : r.id <= requests[c] /\ r.next <= r.max + 1 /\ r.max <= height
        /\ \A q, r \in ranges[c] : q.id = r.id => q = r
    BY Facts
  <1>2. /\ task' = [task EXCEPT ![c] = "closed"]
        /\ queue' = [queue EXCEPT ![c] = <<>>] /\ parked' = [parked EXCEPT ![c] = <<>>]
        /\ seen' = [seen EXCEPT ![c] = <<>>] /\ asked' = [asked EXCEPT ![c] = {}]
        /\ pool' = pool \ {c}
        /\ peer' = peer /\ ranges' = ranges /\ requests' = requests /\ chain' = chain
        /\ since' = since /\ unreachable' = unreachable
    BY DEF Close, DropClient
  <1>3. /\ ConnTypes /\ ChainTypes
        /\ \A d \in Conns : Len(parked[d]) <= Len(queue[d])
    BY <1>1 DEF TypeOK
  <1>4. FlagTypes'
    <2>1. FlagTypes
      BY <1>1 DEF TypeOK
    <2> QED
      BY <2>1, Zenon DEF FlagTypes, Close, DropClient
  <1>5. ConnTypes'
    BY <1>2, <1>3 DEF ConnTypes
  <1>6. ChainTypes'
    BY <1>2, <1>3 DEF ChainTypes, chain
  <1>7. \A d \in Conns : Len(parked'[d]) <= Len(queue'[d])
    BY <1>2, <1>3 DEF ConnTypes
  <1>8. TypeOK'
    BY <1>4, <1>5, <1>6, <1>7 DEF TypeOK
  <1>9. /\ task'[c] = "closed" /\ queue'[c] = <<>> /\ seen'[c] = <<>> /\ asked'[c] = {}
        /\ c \notin pool' /\ OthersSame(c)
    BY <1>2, <1>3 DEF ConnTypes, OthersSame
  <1>10. ConnInv(seen'[c] \o queue'[c], c, pool', since'[c], announced, asked'[c], ranges'[c],
                 requests'[c])
    <2> DEFINE s == seen'[c] \o queue'[c]
    <2>1. DOMAIN s = {}
      BY <1>9
    <2> HIDE DEF s
    <2>2. ConnInv(s, c, pool', since'[c], announced, asked'[c], ranges'[c], requests'[c])
      BY <2>1, <1>9 DEF ConnInv, MessagesKnown, NoGap, Answered, Ascending, Blocks
    <2> QED
      BY <2>2 DEF s
  <1>11. /\ \A r \in ranges'[c] : r.id <= requests'[c] /\ r.next <= r.max + 1 /\ r.max <= height
         /\ \A q, r \in ranges'[c] : q.id = r.id => q = r
         /\ UNCHANGED chain /\ (unreachable' => unreachable) /\ task'[c] # "none"
    BY <1>1, <1>2, <1>9
  <1> QED
    BY <1>8, <1>9, <1>10, <1>11, OneConnection

\* A reply, a ping or a close frame, of a step that may change the subscription.
LEMMA SendStep ==
  ASSUME SessionInv, NEW c \in Conns, task[c] = "open",
         NEW sender \in Sender, NEW m \in Message, m.kind \notin Told, Send(c, sender, m),
         FlagTypes', UNCHANGED <<task, peer, ranges, chain, seen, asked, unreachable>>,
         requests' \in [Conns -> 0 .. MaxRequests], requests[c] <= requests'[c],
         \A d \in Conns \ {c} : requests'[d] = requests[d],
         pool' \subseteq Conns, since' \in [Conns -> 0 .. MaxHeight],
         \A d \in Conns \ {c} : (d \in pool' <=> d \in pool) /\ since'[d] = since[d],
         c \in pool' => (c \in pool /\ since'[c] = since[c]) \/ since'[c] = announced
  PROVE  SessionInv'
  <1>1. /\ TypeOK
        /\ \A r \in ranges[c] : r.id <= requests[c] /\ r.next <= r.max + 1 /\ r.max <= height
        /\ \A q, r \in ranges[c] : q.id = r.id => q = r
        /\ ConnInv(seen[c] \o queue[c], c, pool, since[c], announced,
                   asked[c], ranges[c], requests[c])
    BY Facts
  <1>2. /\ task' = task /\ peer' = peer /\ ranges' = ranges /\ chain' = chain
        /\ seen' = seen /\ asked' = asked /\ unreachable' = unreachable
    OBVIOUS
  <1>3. /\ queue' \in [Conns -> Seq(Message)] /\ parked' \in [Conns -> Seq(Sender)]
        /\ queue'[c] = Append(queue[c], m)
        /\ \A d \in Conns : d # c => queue'[d] = queue[d]
        /\ \A d \in Conns : Len(parked'[d]) <= Len(queue'[d])
    BY <1>1, SendTypes
  <1>4. TypeOK'
    <2>1. ConnTypes'
      BY <1>1, <1>2, <1>3 DEF TypeOK, ConnTypes
    <2>2. ChainTypes'
      BY <1>1, <1>2 DEF TypeOK, ChainTypes, chain
    <2> QED
      BY <2>1, <2>2, <1>3 DEF TypeOK
  <1>5. OthersSame(c)
    BY <1>2, <1>3 DEF OthersSame
  <1>6. /\ seen[c] \in Seq(Message) /\ queue[c] \in Seq(Message)
        /\ seen[c] \o queue[c] \in Seq(Message)
        /\ requests[c] \in Nat /\ announced \in Nat
        /\ ranges[c] \in SUBSET RangeTask /\ asked[c] \in SUBSET RangeTask
    BY <1>1, TypedMessages
  <1>7. requests'[c] \in Nat
    BY SessionAssumption
  <1>8. ConnInv(Append(seen[c] \o queue[c], m), c, pool, since[c], announced,
                asked[c], ranges[c], requests'[c])
    BY <1>1, <1>6, <1>7, ConnSend
  <1>9. ConnInv(Append(seen[c] \o queue[c], m), c, pool', since'[c], announced,
                asked[c], ranges[c], requests'[c])
    BY <1>6, <1>8, ConnPool
  <1>10. ConnInv(seen'[c] \o queue'[c], c, pool', since'[c], announced,
                 asked'[c], ranges'[c], requests'[c])
    <2>1. seen'[c] \o queue'[c] = Append(seen[c] \o queue[c], m)
      <3>1. seen[c] \o Append(queue[c], m) = Append(seen[c] \o queue[c], m)
        BY <1>1, SendTo, Zenon
      <3>2. seen'[c] = seen[c] /\ queue'[c] = Append(queue[c], m)
        BY <1>2, <1>3
      <3> QED
        BY <3>1, <3>2, Zenon
    <2> QED
      BY <2>1, <1>2, <1>9
  <1>11. \A r \in ranges'[c] : r.id <= requests'[c] /\ r.next <= r.max + 1 /\ r.max <= height
    BY <1>1, <1>2, <1>6, <1>7, SessionAssumption DEF RangeTask
  <1> QED
    BY <1>1, <1>2, <1>4, <1>5, <1>10, <1>11, OneConnection

LEMMA StepConnect == ASSUME SessionInv, NEW c \in Conns, Connect(c) PROVE SessionInv'
  <1>1. TypeOK
    BY Facts
  <1>2. FlagTypes'
    BY <1>1 DEF Connect, TypeOK, FlagTypes
  <1>3. /\ task' \in [Conns -> {"none", "open", "closed"}]
        /\ \A d \in Conns \ {c} : task'[d] = task[d]
        /\ task'[c] = "open" /\ peer' \in [Conns -> {"up", "silent"}]
    BY <1>1 DEF Connect, TypeOK, ConnTypes
  <1>4. UNCHANGED <<queue, parked, ranges, requests, pool, chain, history>>
    BY DEF Connect
  <1> QED
    BY <1>2, <1>3, <1>4, QuietStep

LEMMA StepFallSilent == ASSUME SessionInv, NEW c \in Conns, FallSilent(c) PROVE SessionInv'
  <1>1. TypeOK
    BY Facts
  <1>2. FlagTypes'
    BY <1>1 DEF FallSilent, TypeOK, FlagTypes
  <1>3. /\ task' \in [Conns -> {"none", "open", "closed"}]
        /\ \A d \in Conns \ {c} : task'[d] = task[d]
        /\ task'[c] = "open" /\ peer' \in [Conns -> {"up", "silent"}]
    BY <1>1 DEF FallSilent, TypeOK, ConnTypes
  <1>4. UNCHANGED <<queue, parked, ranges, requests, pool, chain, history>>
    BY DEF FallSilent
  <1> QED
    BY <1>2, <1>3, <1>4, QuietStep

LEMMA StepReadPong == ASSUME SessionInv, NEW c \in Conns, ReadPong(c) PROVE SessionInv'
  <1>1. TypeOK
    BY Facts
  <1>2. FlagTypes'
    <2>1. FlagTypes
      BY <1>1 DEF TypeOK
    <2> QED
      BY <2>1, Zenon DEF ReadPong, SignOfLife, FlagTypes
  <1>3. /\ task' \in [Conns -> {"none", "open", "closed"}]
        /\ \A d \in Conns \ {c} : task'[d] = task[d]
        /\ task'[c] = "open" /\ peer' \in [Conns -> {"up", "silent"}]
    BY <1>1 DEF ReadPong, CanRead, TypeOK, ConnTypes
  <1>4. UNCHANGED <<queue, parked, ranges, requests, pool, chain, history>>
    BY DEF ReadPong
  <1> QED
    BY <1>2, <1>3, <1>4, QuietStep

LEMMA StepHangUp == ASSUME SessionInv, NEW c \in Conns, HangUp(c) PROVE SessionInv'
  BY CloseStep DEF HangUp

LEMMA StepBeat == ASSUME SessionInv, NEW c \in Conns, Beat(c) PROVE SessionInv'
  <1>1. CASE needs_pong[c]
    <2>1. task[c] = "open" /\ Close(c) /\ UNCHANGED <<peer, ranges, requests, chain, since, unreachable>>
      BY <1>1 DEF Beat
    <2> QED
      BY <2>1, CloseStep
  <1>2. CASE ~needs_pong[c]
    <2>1. /\ task[c] = "open" /\ Send(c, Heartbeat, Ping)
          /\ needs_pong' = [needs_pong EXCEPT ![c] = TRUE]
          /\ UNCHANGED <<task, filter, pool, seen, asked>>
          /\ UNCHANGED <<peer, ranges, requests, chain, since, unreachable>>
      BY <1>2 DEF Beat
    <2>2. TypeOK
      BY Facts
    <2>3. FlagTypes'
      <3>1. FlagTypes
        BY <2>2 DEF TypeOK
      <3> QED
        BY <3>1, <2>1, Zenon DEF FlagTypes
    <2>4. /\ requests' \in [Conns -> 0 .. MaxRequests] /\ requests[c] <= requests'[c]
          /\ \A d \in Conns \ {c} : requests'[d] = requests[d]
          /\ pool' = pool /\ pool' \subseteq Conns /\ since' = since
          /\ since' \in [Conns -> 0 .. MaxHeight]
      BY <2>1, <2>2, SessionAssumption DEF TypeOK, ConnTypes
    <2>5. Ping \in Message /\ Ping.kind \notin Told /\ Heartbeat \in Sender
      <3>1. 0 \in 0 .. MaxRequests
        BY SessionAssumption
      <3> QED
        BY <3>1, MessageKinds, SendersKnown
    <2>6. UNCHANGED <<task, peer, ranges, chain, seen, asked, unreachable>>
      BY <2>1
    <2> QED
      BY <2>1, <2>3, <2>4, <2>5, <2>6, SendStep
  <1> QED
    BY <1>1, <1>2

\* What the reader does before it looks at the message.
LEMMA ReadFacts ==
  ASSUME SessionInv, NEW c \in Conns, Read(c)
  PROVE  /\ task[c] = "open" /\ TypeOK
         /\ requests' = [requests EXCEPT ![c] = requests[c] + 1]
         /\ requests'[c] = requests[c] + 1 /\ requests[c] <= requests'[c]
         /\ requests' \in [Conns -> 0 .. MaxRequests]
         /\ \A d \in Conns \ {c} : requests'[d] = requests[d]
         /\ Id(c) = requests[c] + 1 /\ Id(c) \in 0 .. MaxRequests /\ Id(c) \in 1 .. MaxRequests
         /\ task' = task /\ peer' = peer /\ chain' = chain /\ seen' = seen
         /\ unreachable' = unreachable
         /\ pool \subseteq Conns /\ since \in [Conns -> 0 .. MaxHeight]
         /\ announced \in 0 .. MaxHeight
  <1>1. TypeOK
    BY Facts
  <1>2. /\ requests \in [Conns -> 0 .. MaxRequests] /\ requests[c] \in 0 .. MaxRequests
        /\ pool \subseteq Conns /\ since \in [Conns -> 0 .. MaxHeight]
        /\ announced \in 0 .. MaxHeight
    BY <1>1, SessionAssumption DEF TypeOK, ConnTypes, ChainTypes
  <1>3. /\ task[c] = "open" /\ requests[c] < MaxRequests
        /\ requests' = [requests EXCEPT ![c] = requests[c] + 1]
        /\ task' = task /\ peer' = peer /\ chain' = chain /\ seen' = seen
        /\ unreachable' = unreachable
    BY DEF Read, CanRead
  <1> QED
    BY <1>1, <1>2, <1>3, SessionAssumption DEF Id

LEMMA SignOfLifeTypes ==
  ASSUME TypeOK, NEW c \in Conns, SignOfLife(c), filter' \in [Conns -> BOOLEAN]
  PROVE  FlagTypes'
  <1>1. FlagTypes
    BY DEF TypeOK
  <1> QED
    BY <1>1, Zenon DEF FlagTypes, SignOfLife

LEMMA FilterKept ==
  ASSUME TypeOK, UNCHANGED filter
  PROVE  filter' \in [Conns -> BOOLEAN]
  <1>1. FlagTypes
    BY DEF TypeOK
  <1> QED
    BY <1>1, Zenon DEF FlagTypes

\* A message that is answered at once and changes nothing but the subscription.
LEMMA AnsweredAtOnce ==
  ASSUME SessionInv, NEW c \in Conns, Read(c), FlagTypes',
         NEW m \in Message, m.kind \notin Told, Send(c, Reader, m),
         UNCHANGED <<ranges, asked>>,
         pool' \subseteq Conns, since' \in [Conns -> 0 .. MaxHeight],
         \A d \in Conns \ {c} : (d \in pool' <=> d \in pool) /\ since'[d] = since[d],
         c \in pool' => (c \in pool /\ since'[c] = since[c]) \/ since'[c] = announced
  PROVE  SessionInv'
  <1>1. /\ task[c] = "open"
        /\ requests' \in [Conns -> 0 .. MaxRequests] /\ requests[c] <= requests'[c]
        /\ \A d \in Conns \ {c} : requests'[d] = requests[d]
        /\ task' = task /\ peer' = peer /\ chain' = chain /\ seen' = seen
        /\ unreachable' = unreachable
    BY ReadFacts
  <1>2. UNCHANGED <<task, peer, ranges, chain, seen, asked, unreachable>>
    BY <1>1
  <1>3. Reader \in Sender
    BY SendersKnown
  <1> QED
    BY <1>1, <1>2, <1>3, SendStep

LEMMA StepReadRequest == ASSUME SessionInv, NEW c \in Conns, ReadRequest(c) PROVE SessionInv'
  <1>1. Read(c) /\ SignOfLife(c) /\ Send(c, Reader, Reply(Id(c)))
        /\ UNCHANGED filter /\ UNCHANGED <<ranges, asked>> /\ pool' = pool /\ since' = since
    BY DEF ReadRequest
  <1>2. TypeOK /\ pool \subseteq Conns /\ since \in [Conns -> 0 .. MaxHeight]
        /\ Id(c) \in 0 .. MaxRequests
    BY <1>1, ReadFacts
  <1>3. FlagTypes'
    BY <1>1, <1>2, SignOfLifeTypes, FilterKept
  <1>4. Reply(Id(c)) \in Message /\ Reply(Id(c)).kind \notin Told
    BY <1>2, MessageKinds
  <1> QED
    BY <1>1, <1>2, <1>3, <1>4, AnsweredAtOnce

LEMMA StepReadText == ASSUME SessionInv, NEW c \in Conns, ReadText(c) PROVE SessionInv'
  <1>1. Read(c) /\ Send(c, Reader, CloseFrame) /\ UNCHANGED <<needs_pong, filter>>
        /\ UNCHANGED <<ranges, asked>> /\ pool' = pool /\ since' = since
    BY DEF ReadText
  <1>2. TypeOK /\ pool \subseteq Conns /\ since \in [Conns -> 0 .. MaxHeight]
        /\ Id(c) \in 0 .. MaxRequests
    BY <1>1, ReadFacts
  <1>3. FlagTypes'
    BY <1>1, <1>2 DEF TypeOK, FlagTypes
  <1>4. CloseFrame \in Message /\ CloseFrame.kind \notin Told
    BY <1>2, MessageKinds
  <1> QED
    BY <1>1, <1>2, <1>3, <1>4, AnsweredAtOnce

LEMMA StepReadFilter == ASSUME SessionInv, NEW c \in Conns, ReadFilter(c) PROVE SessionInv'
  <1>1. Read(c) /\ SignOfLife(c) /\ Send(c, Reader, Reply(Id(c)))
        /\ UNCHANGED <<ranges, asked>> /\ pool' = pool /\ since' = since
    BY DEF ReadFilter
  <1>2. TypeOK /\ pool \subseteq Conns /\ since \in [Conns -> 0 .. MaxHeight]
        /\ Id(c) \in 0 .. MaxRequests
    BY <1>1, ReadFacts
  <1>3. FlagTypes'
    <2>1. filter \in [Conns -> BOOLEAN]
      BY <1>2 DEF TypeOK, FlagTypes
    <2>2. PICK set \in BOOLEAN : filter' = [filter EXCEPT ![c] = set]
      BY DEF ReadFilter
    <2>3. filter' \in [Conns -> BOOLEAN]
      BY <2>1, <2>2, Zenon
    <2> QED
      BY <2>3, <1>1, <1>2, SignOfLifeTypes
  <1>4. Reply(Id(c)) \in Message /\ Reply(Id(c)).kind \notin Told
    BY <1>2, MessageKinds
  <1> QED
    BY <1>1, <1>2, <1>3, <1>4, AnsweredAtOnce

LEMMA StepReadSubscribe == ASSUME SessionInv, NEW c \in Conns, ReadSubscribe(c) PROVE SessionInv'
  <1>1. Read(c) /\ SignOfLife(c) /\ Send(c, Reader, Reply(Id(c)))
        /\ UNCHANGED filter /\ UNCHANGED <<ranges, asked>> /\ pool' = pool \cup {c}
        /\ since' = IF c \in pool THEN since ELSE [since EXCEPT ![c] = announced]
    BY DEF ReadSubscribe
  <1>2. TypeOK /\ pool \subseteq Conns /\ since \in [Conns -> 0 .. MaxHeight]
        /\ Id(c) \in 0 .. MaxRequests /\ announced \in 0 .. MaxHeight
    BY <1>1, ReadFacts
  <1>3. FlagTypes'
    BY <1>1, <1>2, SignOfLifeTypes, FilterKept
  <1>4. Reply(Id(c)) \in Message /\ Reply(Id(c)).kind \notin Told
    BY <1>2, MessageKinds
  <1>5. /\ pool' \subseteq Conns /\ since' \in [Conns -> 0 .. MaxHeight]
        /\ \A d \in Conns \ {c} : (d \in pool' <=> d \in pool) /\ since'[d] = since[d]
        /\ (c \in pool /\ since'[c] = since[c]) \/ since'[c] = announced
    BY <1>1, <1>2
  <1> QED
    BY <1>1, <1>3, <1>4, <1>5, AnsweredAtOnce

LEMMA StepReadUnsubscribe == ASSUME SessionInv, NEW c \in Conns, ReadUnsubscribe(c) PROVE SessionInv'
  <1>1. Read(c) /\ SignOfLife(c) /\ Send(c, Reader, Reply(Id(c)))
        /\ UNCHANGED filter /\ UNCHANGED <<ranges, asked>> /\ pool' = pool \ {c}
        /\ since' = since
    BY DEF ReadUnsubscribe
  <1>2. TypeOK /\ pool \subseteq Conns /\ since \in [Conns -> 0 .. MaxHeight]
        /\ Id(c) \in 0 .. MaxRequests
    BY <1>1, ReadFacts
  <1>3. FlagTypes'
    BY <1>1, <1>2, SignOfLifeTypes, FilterKept
  <1>4. Reply(Id(c)) \in Message /\ Reply(Id(c)).kind \notin Told
    BY <1>2, MessageKinds
  <1>5. /\ pool' \subseteq Conns /\ since' \in [Conns -> 0 .. MaxHeight]
        /\ \A d \in Conns \ {c} : (d \in pool' <=> d \in pool) /\ since'[d] = since[d]
        /\ c \notin pool'
    BY <1>1, <1>2
  <1> QED
    BY <1>1, <1>3, <1>4, <1>5, AnsweredAtOnce

\* A range refused is answered at once; one accepted becomes a task, and no
\* message of the connection has its id.
LEMMA StepReadBlockRange == ASSUME SessionInv, NEW c \in Conns, ReadBlockRange(c) PROVE SessionInv'
  <1>1. Read(c) /\ SignOfLife(c) /\ UNCHANGED filter /\ pool' = pool /\ since' = since
    BY DEF ReadBlockRange
  <1>2. /\ task[c] = "open" /\ TypeOK
        /\ requests'[c] = requests[c] + 1 /\ requests[c] <= requests'[c]
        /\ requests' \in [Conns -> 0 .. MaxRequests]
        /\ \A d \in Conns \ {c} : requests'[d] = requests[d]
        /\ Id(c) = requests[c] + 1 /\ Id(c) \in 0 .. MaxRequests /\ Id(c) \in 1 .. MaxRequests
        /\ task' = task /\ peer' = peer /\ chain' = chain /\ seen' = seen
        /\ unreachable' = unreachable
        /\ pool \subseteq Conns /\ since \in [Conns -> 0 .. MaxHeight]
    BY <1>1, ReadFacts
  <1>3. FlagTypes'
    BY <1>1, <1>2, SignOfLifeTypes, FilterKept
  <1>4. PICK min \in RangeFrom, max \in RangeTo :
           LET range == [id |-> Id(c), next |-> min, max |-> max, filtered |-> filter[c]]
           IN \/ /\ ~ValidRange(min, max)
                 /\ Send(c, Reader, Reply(Id(c)))
                 /\ UNCHANGED <<ranges, asked>>
              \/ /\ ValidRange(min, max)
                 /\ ranges' = [ranges EXCEPT ![c] = @ \cup {range}]
                 /\ asked' = [asked EXCEPT ![c] = @ \cup {range}]
                 /\ UNCHANGED <<queue, parked>>
    BY DEF ReadBlockRange
  <1> DEFINE n == [id |-> Id(c), next |-> min, max |-> max, filtered |-> filter[c]]
  <1>5. CASE Send(c, Reader, Reply(Id(c))) /\ UNCHANGED <<ranges, asked>>
    <2>1. Reply(Id(c)) \in Message /\ Reply(Id(c)).kind \notin Told
      BY <1>2, MessageKinds
    <2> QED
      BY <1>1, <1>2, <1>3, <1>5, <2>1, AnsweredAtOnce
  <1>6. CASE /\ ValidRange(min, max)
             /\ ranges' = [ranges EXCEPT ![c] = ranges[c] \cup {n}]
             /\ asked' = [asked EXCEPT ![c] = asked[c] \cup {n}]
             /\ UNCHANGED <<queue, parked>>
    <2>1. filter[c] \in BOOLEAN
      BY <1>2, Zenon DEF TypeOK, FlagTypes
    <2>2. min \in 0 .. MaxHeight + 1 /\ max \in 0 .. MaxHeight /\ min <= max /\ max <= height
      BY <1>6, SessionAssumption DEF ValidRange
    <2>3. /\ n \in RangeTask /\ n.id = requests[c] + 1 /\ n.id <= requests'[c]
          /\ n.next <= n.max + 1 /\ n.max <= height
      BY <2>1, <2>2, <1>2, SessionAssumption DEF RangeTask
    <2> HIDE DEF n
    <2>4. /\ \A r \in ranges[c] : r.id <= requests[c] /\ r.next <= r.max + 1 /\ r.max <= height
          /\ \A q, r \in ranges[c] : q.id = r.id => q = r
          /\ ConnInv(seen[c] \o queue[c], c, pool, since[c], announced,
                     asked[c], ranges[c], requests[c])
      BY Facts
    <2>5. /\ seen[c] \o queue[c] \in Seq(Message) /\ requests[c] \in Nat
          /\ ranges[c] \in SUBSET RangeTask /\ asked[c] \in SUBSET RangeTask
      BY <1>2, TypedMessages
    <2>6. ConnInv(seen[c] \o queue[c], c, pool, since[c], announced,
                  asked[c] \cup {n}, ranges[c] \cup {n}, requests[c] + 1)
      BY <2>3, <2>4, <2>5, ConnAsk
    <2>7. /\ ranges'[c] = ranges[c] \cup {n} /\ asked'[c] = asked[c] \cup {n}
          /\ ranges' \in [Conns -> SUBSET RangeTask] /\ asked' \in [Conns -> SUBSET RangeTask]
          /\ queue' = queue /\ parked' = parked /\ OthersSame(c)
      BY <1>1, <1>2, <1>6, <2>3 DEF TypeOK, ConnTypes, OthersSame
    <2>8. TypeOK'
      <3>1. ConnTypes'
        BY <1>1, <1>2, <2>7 DEF TypeOK, ConnTypes
      <3>2. ChainTypes'
        BY <1>2 DEF TypeOK, ChainTypes, chain
      <3> QED
        BY <3>1, <3>2, <1>2, <1>3, <2>7 DEF TypeOK
    <2>9. \A r \in ranges[c] : r.id \in Nat
      BY <2>5, SessionAssumption DEF RangeTask
    <2>10. \A r \in ranges'[c] : r.id <= requests'[c] /\ r.next <= r.max + 1 /\ r.max <= height
      BY <1>2, <2>3, <2>4, <2>5, <2>7, <2>9
    <2>11. \A q, r \in ranges'[c] : q.id = r.id => q = r
      BY <2>3, <2>4, <2>5, <2>7, <2>9
    <2>12. ConnInv(seen'[c] \o queue'[c], c, pool', since'[c], announced, asked'[c], ranges'[c],
                   requests'[c])
      BY <1>1, <1>2, <2>6, <2>7
    <2> QED
      BY <1>1, <1>2, <2>7, <2>8, <2>10, <2>11, <2>12, OneConnection
  <1> QED
    BY <1>4, <1>5, <1>6

\* The writer moves a told message to the record and leaves out the others.
LEMMA StepWrite == ASSUME SessionInv, NEW c \in Conns, Write(c) PROVE SessionInv'
  <1>1. /\ TypeOK
        /\ \A r \in ranges[c] : r.id <= requests[c] /\ r.next <= r.max + 1 /\ r.max <= height
        /\ \A q, r \in ranges[c] : q.id = r.id => q = r
        /\ ConnInv(seen[c] \o queue[c], c, pool, since[c], announced,
                   asked[c], ranges[c], requests[c])
    BY Facts
  <1>2. /\ task[c] = "open" /\ queue[c] # <<>>
        /\ queue' = [queue EXCEPT ![c] = Tail(queue[c])]
        /\ parked' = [parked EXCEPT ![c] = IF parked[c] = <<>> THEN parked[c] ELSE Tail(parked[c])]
        /\ seen' = IF Head(queue[c]).kind \in Told
                   THEN [seen EXCEPT ![c] = Append(seen[c], Head(queue[c]))]
                   ELSE seen
        /\ task' = task /\ peer' = peer /\ ranges' = ranges /\ requests' = requests
        /\ pool' = pool /\ chain' = chain /\ since' = since /\ asked' = asked
        /\ unreachable' = unreachable
    BY DEF Write, Told
  <1>3. /\ seen[c] \in Seq(Message) /\ queue[c] \in Seq(Message) /\ parked[c] \in Seq(Sender)
        /\ seen \in [Conns -> Seq(Message)] /\ queue \in [Conns -> Seq(Message)]
        /\ parked \in [Conns -> Seq(Sender)]
        /\ \A d \in Conns : Len(parked[d]) <= Len(queue[d])
    BY <1>1 DEF TypeOK, ConnTypes
  <1>4. /\ Head(queue[c]) \in Message /\ Tail(queue[c]) \in Seq(Message)
        /\ Len(Tail(queue[c])) = Len(queue[c]) - 1 /\ Len(queue[c]) \in Nat /\ Len(queue[c]) # 0
    BY <1>2, <1>3
  <1>5. parked[c] # <<>> => /\ Tail(parked[c]) \in Seq(Sender)
                            /\ Len(Tail(parked[c])) = Len(parked[c]) - 1 /\ Len(parked[c]) \in Nat
    BY <1>3
  <1>6. queue' \in [Conns -> Seq(Message)] /\ parked' \in [Conns -> Seq(Sender)]
    BY <1>2, <1>3, <1>4, <1>5
  <1>7. seen' \in [Conns -> Seq(Message)]
    BY <1>2, <1>3, <1>4
  <1>8. \A d \in Conns : Len(parked'[d]) <= Len(queue'[d])
    BY <1>2, <1>3, <1>4, <1>5
  <1>9. TypeOK'
    <2>1. ConnTypes'
      BY <1>1, <1>2, <1>6, <1>7 DEF TypeOK, ConnTypes
    <2>2. ChainTypes'
      BY <1>1, <1>2 DEF TypeOK, ChainTypes, chain
    <2>3. FlagTypes'
      BY <1>1 DEF TypeOK, FlagTypes, Write
    <2> QED
      BY <2>1, <2>2, <2>3, <1>8 DEF TypeOK
  <1>10. OthersSame(c) /\ queue'[c] = Tail(queue[c])
    BY <1>2, <1>3 DEF OthersSame
  <1>11. ConnInv(seen'[c] \o queue'[c], c, pool, since[c], announced,
                 asked[c], ranges[c], requests[c])
    <2>1. CASE Head(queue[c]).kind \in Told
      <3>1. seen'[c] = Append(seen[c], Head(queue[c]))
        BY <2>1, <1>2, <1>3
      <3>2. Append(seen[c], Head(queue[c])) \o Tail(queue[c]) = seen[c] \o queue[c]
        BY <1>2, <1>3, SMTT(30)
      <3> QED
        BY <3>1, <3>2, <1>1, <1>10
    <2>2. CASE Head(queue[c]).kind \notin Told
      <3>1. seen'[c] = seen[c]
        BY <2>2, <1>2
      <3>2. Thinned(seen[c] \o Tail(queue[c]), seen[c] \o queue[c])
        BY <2>2, <1>2, <1>3, WriterThins
      <3>3. seen[c] \o Tail(queue[c]) \in Seq(Message) /\ seen[c] \o queue[c] \in Seq(Message)
        BY <1>3, <1>4
      <3>4. ConnInv(seen[c] \o Tail(queue[c]), c, pool, since[c], announced,
                    asked[c], ranges[c], requests[c])
        BY <3>2, <3>3, <1>1, ConnThinned
      <3> QED
        BY <3>1, <3>4, <1>10
    <2> QED
      BY <2>1, <2>2
  <1>12. ConnInv(seen'[c] \o queue'[c], c, pool', since'[c], announced, asked'[c], ranges'[c],
                 requests'[c])
    BY <1>2, <1>11
  <1> QED
    BY <1>1, <1>2, <1>9, <1>10, <1>12, OneConnection

\* A task sends its next block, its last message, or ends with its connection;
\* the store has the block, the request having been checked against the index.
LEMMA StepRangeStep == ASSUME SessionInv, NEW c \in Conns, RangeStep(c) PROVE SessionInv'
  <1>1. /\ TypeOK
        /\ task[c] # "open" => queue[c] = <<>> /\ seen[c] = <<>> /\ asked[c] = {}
        /\ task[c] = "none" => ranges[c] = {}
        /\ c \in pool => task[c] = "open"
        /\ \A r \in ranges[c] : r.id <= requests[c] /\ r.next <= r.max + 1 /\ r.max <= height
        /\ \A q, r \in ranges[c] : q.id = r.id => q = r
        /\ ConnInv(seen[c] \o queue[c], c, pool, since[c], announced,
                   asked[c], ranges[c], requests[c])
    BY Facts
  <1>2. /\ task' = task /\ peer' = peer /\ requests' = requests /\ pool' = pool
        /\ chain' = chain /\ seen' = seen /\ since' = since /\ asked' = asked
    BY DEF RangeStep
  <1>3. FlagTypes'
    BY <1>1 DEF TypeOK, FlagTypes, RangeStep
  <1>4. ChainTypes'
    BY <1>1, <1>2 DEF TypeOK, ChainTypes, chain
  <1>5. /\ seen[c] \in Seq(Message) /\ queue[c] \in Seq(Message)
        /\ seen[c] \o queue[c] \in Seq(Message) /\ requests[c] \in Nat
        /\ ranges[c] \in SUBSET RangeTask /\ asked[c] \in SUBSET RangeTask
    BY <1>1, TypedMessages
  <1>6. PICK r \in ranges[c] :
          \/ /\ task[c] = "closed"
             /\ ranges' = [ranges EXCEPT ![c] = @ \ {r}]
             /\ UNCHANGED <<queue, parked, unreachable>>
          \/ /\ task[c] = "open" /\ ~RangeDone(r)
             /\ unreachable' = (unreachable \/ r.next > stored)
             /\ IF r.next > stored
                THEN /\ ranges' = [ranges EXCEPT ![c] = @ \ {r}]
                     /\ UNCHANGED <<queue, parked>>
                ELSE /\ ranges' = [ranges EXCEPT ![c] =
                                      (@ \ {r}) \cup {[r EXCEPT !.next = @ + 1]}]
                     /\ Send(c, RangeOf(r.id), RangeBlock(c, r))
          \/ /\ task[c] = "open" /\ RangeDone(r)
             /\ ranges' = [ranges EXCEPT ![c] = @ \ {r}]
             /\ Send(c, RangeOf(r.id), RangeEnd(r.id))
             /\ UNCHANGED unreachable
    BY DEF RangeStep
  <1>7. /\ r \in RangeTask /\ r.id \in 1 .. MaxRequests /\ r.id \in 0 .. MaxRequests
        /\ r.next \in 0 .. MaxHeight + 1 /\ r.max \in 0 .. MaxHeight /\ r.filtered \in BOOLEAN
    BY <1>5, SessionAssumption DEF RangeTask
  <1>8. RangeOf(r.id) \in Sender
    BY <1>7, SendersKnown
  <1>9. ranges \in [Conns -> SUBSET RangeTask]
    BY <1>1 DEF TypeOK, ConnTypes
  <1>10. CASE /\ task[c] = "closed"
              /\ ranges' = [ranges EXCEPT ![c] = ranges[c] \ {r}]
              /\ UNCHANGED <<queue, parked, unreachable>>
    <2>1. /\ ranges'[c] = ranges[c] \ {r} /\ ranges' \in [Conns -> SUBSET RangeTask]
          /\ OthersSame(c)
      BY <1>2, <1>9, <1>10 DEF OthersSame
    <2>2. TypeOK'
      <3>1. ConnTypes'
        BY <1>1, <1>2, <1>10, <2>1 DEF TypeOK, ConnTypes
      <3> QED
        BY <3>1, <1>1, <1>3, <1>4, <1>10 DEF TypeOK
    <2>3. ConnInv(seen[c] \o queue[c], c, pool, since[c], announced,
                  asked[c], ranges[c] \ {r}, requests[c])
      BY <1>1, ConnDrop
    <2>4. ConnInv(seen'[c] \o queue'[c], c, pool', since'[c], announced, asked'[c], ranges'[c],
                  requests'[c])
      BY <1>2, <1>10, <2>1, <2>3
    <2> QED
      BY <1>1, <1>2, <1>10, <2>1, <2>2, <2>4, OneConnection
  <1>11. CASE /\ task[c] = "open" /\ ~RangeDone(r)
              /\ unreachable' = (unreachable \/ r.next > stored)
              /\ IF r.next > stored
                 THEN /\ ranges' = [ranges EXCEPT ![c] = ranges[c] \ {r}]
                      /\ UNCHANGED <<queue, parked>>
                 ELSE /\ ranges' = [ranges EXCEPT ![c] =
                                       (ranges[c] \ {r}) \cup {[r EXCEPT !.next = r.next + 1]}]
                      /\ Send(c, RangeOf(r.id), RangeBlock(c, r))
    <2> DEFINE m == RangeBlock(c, r)
               n == [r EXCEPT !.next = r.next + 1]
    <2>1. r.next <= r.max
      BY <1>7, <1>11 DEF RangeDone
    <2>2. ~(r.next > stored)
      <3>1. height \in 0 .. stored /\ stored \in 0 .. MaxHeight
        BY <1>1 DEF TypeOK, ChainTypes
      <3> QED
        BY <2>1, <3>1, <1>1, <1>7, SessionAssumption
    <2>3. /\ ranges' = [ranges EXCEPT ![c] = (ranges[c] \ {r}) \cup {n}]
          /\ Send(c, RangeOf(r.id), m) /\ (unreachable' => unreachable)
      BY <1>11, <2>2
    <2>4. /\ m \in Message /\ m.kind = "Block" /\ m.id = r.id /\ m.height = r.next
          /\ m.filtered = r.filtered
      BY <1>7, <2>1, SessionAssumption DEF RangeBlock, Block, Message
    <2>5. n \in RangeTask /\ n.id = r.id /\ n.max = r.max /\ n.next = r.next + 1
      BY <1>7, <2>1, SessionAssumption DEF RangeTask
    <2>6. ConnInv(Append(seen[c] \o queue[c], m), c, pool, since[c], announced, asked[c],
                  (ranges[c] \ {r}) \cup {n}, requests[c])
      BY <1>1, <1>5, <2>1, <2>4, ConnRangeBlock
    <2> HIDE DEF m, n
    <2>7. /\ queue' \in [Conns -> Seq(Message)] /\ parked' \in [Conns -> Seq(Sender)]
          /\ queue'[c] = Append(queue[c], m)
          /\ \A d \in Conns : d # c => queue'[d] = queue[d]
          /\ \A d \in Conns : Len(parked'[d]) <= Len(queue'[d])
      BY <1>1, <1>8, <2>3, <2>4, SendTypes
    <2>8. /\ ranges'[c] = (ranges[c] \ {r}) \cup {n} /\ ranges' \in [Conns -> SUBSET RangeTask]
          /\ \A d \in Conns : d # c => ranges'[d] = ranges[d]
      BY <1>9, <2>3, <2>5
    <2>9. TypeOK'
      <3>1. ConnTypes'
        BY <1>1, <1>2, <2>7, <2>8 DEF TypeOK, ConnTypes
      <3> QED
        BY <3>1, <1>3, <1>4, <2>7 DEF TypeOK
    <2>10. OthersSame(c)
      BY <1>2, <2>7, <2>8 DEF OthersSame
    <2>11. /\ \A q \in ranges'[c] : q.id <= requests'[c] /\ q.next <= q.max + 1 /\ q.max <= height
           /\ \A p, q \in ranges'[c] : p.id = q.id => p = q
      BY <1>1, <1>2, <1>7, <2>1, <2>5, <2>8
    <2>12. ConnInv(seen'[c] \o queue'[c], c, pool', since'[c], announced, asked'[c], ranges'[c],
                   requests'[c])
      <3>1. seen[c] \o Append(queue[c], m) = Append(seen[c] \o queue[c], m)
        BY <1>1, SendTo, Zenon
      <3> QED
        BY <3>1, <1>2, <2>6, <2>7, <2>8
    <2> QED
      BY <1>2, <1>11, <2>3, <2>9, <2>10, <2>11, <2>12, OneConnection
  <1>12. CASE /\ task[c] = "open" /\ RangeDone(r)
              /\ ranges' = [ranges EXCEPT ![c] = ranges[c] \ {r}]
              /\ Send(c, RangeOf(r.id), RangeEnd(r.id))
              /\ UNCHANGED unreachable
    <2> DEFINE m == RangeEnd(r.id)
    <2>1. r.next > r.max
      BY <1>12 DEF RangeDone
    <2>2. m \in Message
      BY <1>7, MessageKinds
    <2>3. ConnInv(Append(seen[c] \o queue[c], m), c, pool, since[c], announced, asked[c],
                  ranges[c] \ {r}, requests[c])
      BY <1>1, <1>5, <2>1, <2>2, ConnRangeEnd
    <2>4. Send(c, RangeOf(r.id), m)
      BY <1>12
    <2> HIDE DEF m
    <2>5. /\ queue' \in [Conns -> Seq(Message)] /\ parked' \in [Conns -> Seq(Sender)]
          /\ queue'[c] = Append(queue[c], m)
          /\ \A d \in Conns : d # c => queue'[d] = queue[d]
          /\ \A d \in Conns : Len(parked'[d]) <= Len(queue'[d])
      BY <1>1, <1>8, <2>2, <2>4, SendTypes
    <2>6. /\ ranges'[c] = ranges[c] \ {r} /\ ranges' \in [Conns -> SUBSET RangeTask]
          /\ \A d \in Conns : d # c => ranges'[d] = ranges[d]
      BY <1>9, <1>12
    <2>7. TypeOK'
      <3>1. ConnTypes'
        BY <1>1, <1>2, <2>5, <2>6 DEF TypeOK, ConnTypes
      <3> QED
        BY <3>1, <1>3, <1>4, <2>5 DEF TypeOK
    <2>8. OthersSame(c)
      BY <1>2, <2>5, <2>6 DEF OthersSame
    <2>9. ConnInv(seen'[c] \o queue'[c], c, pool', since'[c], announced, asked'[c], ranges'[c],
                  requests'[c])
      <3>1. seen[c] \o Append(queue[c], m) = Append(seen[c] \o queue[c], m)
        BY <1>1, SendTo, Zenon
      <3> QED
        BY <3>1, <1>2, <2>3, <2>5, <2>6
    <2> QED
      BY <1>1, <1>2, <1>12, <2>6, <2>7, <2>8, <2>9, OneConnection
  <1> QED
    BY <1>6, <1>10, <1>11, <1>12

-----------------------------------------------------------------------------
(* The minter.                                                             *)

\* Storing and committing a block touch no connection.
LEMMA ChainStep ==
  ASSUME SessionInv, UNCHANGED <<conn, pool, announced, history>>,
         ChainTypes', OneBlockAhead', height <= height'
  PROVE  SessionInv'
  <1>1. BaseInv /\ ConnsInv
    BY Parts
  <1>2. /\ task' = task /\ peer' = peer /\ queue' = queue /\ parked' = parked
        /\ ranges' = ranges /\ requests' = requests /\ pool' = pool /\ announced' = announced
        /\ seen' = seen /\ since' = since /\ asked' = asked /\ unreachable' = unreachable
    BY DEF conn, history
  <1>3. TypeOK'
    <2>1. ConnTypes'
      BY <1>1, <1>2 DEF BaseInv, TypeOK, ConnTypes
    <2>2. FlagTypes'
      BY <1>1 DEF BaseInv, TypeOK, FlagTypes, conn
    <2> QED
      BY <2>1, <2>2, <1>1, <1>2 DEF BaseInv, TypeOK
  <1>4. IdleInv' /\ PoolIsLive'
    BY <1>1, <1>2 DEF BaseInv, IdleInv, PoolIsLive
  <1>5. TaskInv'
    <2>1. /\ height \in Nat /\ height' \in Nat
          /\ \A c \in Conns : \A r \in ranges[c] : r.max \in Nat
      BY <1>1, SessionAssumption DEF BaseInv, TypeOK, ChainTypes, ConnTypes, RangeTask
    <2> QED
      BY <2>1, <1>1, <1>2 DEF BaseInv, TaskInv
  <1>6. RangeFindsBlocks'
    BY <1>1, <1>2 DEF BaseInv, RangeFindsBlocks
  <1>7. ConnsInv'
    BY <1>1, <1>2 DEF ConnsInv
  <1>8. BaseInv'
    BY <1>3, <1>4, <1>5, <1>6 DEF BaseInv
  <1> QED
    BY <1>7, <1>8, Parts, PTL

LEMMA StepStoreBlock == ASSUME SessionInv, StoreBlock PROVE SessionInv'
  <1>1. ChainTypes /\ OneBlockAhead
    BY DEF SessionInv, TypeOK
  <1>2. ChainTypes' /\ OneBlockAhead' /\ height <= height'
    BY <1>1, SessionAssumption DEF StoreBlock, ChainTypes, OneBlockAhead
  <1> QED
    BY <1>2, ChainStep DEF StoreBlock

LEMMA StepCommitBlock == ASSUME SessionInv, CommitBlock PROVE SessionInv'
  <1>1. ChainTypes /\ OneBlockAhead
    BY DEF SessionInv, TypeOK
  <1>2. ChainTypes' /\ OneBlockAhead' /\ height <= height'
    BY <1>1, SessionAssumption DEF CommitBlock, ChainTypes, OneBlockAhead
  <1> QED
    BY <1>2, ChainStep DEF CommitBlock

\* A broadcast reaches every subscriber, and every subscriber is open.
LEMMA StepBroadcast == ASSUME SessionInv, Broadcast PROVE SessionInv'
  <1>1. BaseInv /\ ConnsInv
    BY Parts
  <1>2. TypeOK /\ OneBlockAhead /\ IdleInv /\ TaskInv /\ PoolIsLive /\ RangeFindsBlocks
    BY <1>1 DEF BaseInv
  <1> DEFINE m == Block(BROADCAST_ID, height, FALSE)
  <1>3. /\ announced < height /\ announced' = height
        /\ queue' = [c \in Conns |-> IF c \in pool THEN Append(queue[c], m) ELSE queue[c]]
        /\ parked' = [c \in Conns |-> IF c \in pool THEN ParkedAfter(c, Dropped) ELSE parked[c]]
        /\ task' = task /\ peer' = peer /\ ranges' = ranges /\ requests' = requests
        /\ pool' = pool /\ stored' = stored /\ height' = height
        /\ seen' = seen /\ since' = since /\ asked' = asked /\ unreachable' = unreachable
    BY DEF Broadcast, Reached, history
  <1>4. /\ stored \in 0 .. MaxHeight /\ height \in 0 .. stored /\ announced \in 0 .. height
        /\ height = announced + 1 /\ height \in 0 .. MaxHeight /\ announced \in Nat
    BY <1>2, <1>3, SessionAssumption DEF TypeOK, ChainTypes, OneBlockAhead
  <1>5. m \in Message /\ m.kind = "Block" /\ m.id = BROADCAST_ID /\ m.height = announced + 1
    BY <1>4, SessionAssumption DEF Block, Message, BROADCAST_ID
  <1> HIDE DEF m
  <1>6. ASSUME NEW c \in Conns
        PROVE  /\ queue[c] \in Seq(Message) /\ parked[c] \in Seq(Sender)
               /\ Append(queue[c], m) \in Seq(Message)
               /\ Len(Append(queue[c], m)) = Len(queue[c]) + 1
               /\ ParkedAfter(c, Dropped) \in Seq(Sender)
               /\ Len(ParkedAfter(c, Dropped)) <= Len(queue[c]) + 1
               /\ Len(parked[c]) <= Len(queue[c])
    <2>1. queue[c] \in Seq(Message) /\ parked[c] \in Seq(Sender) /\ Len(parked[c]) <= Len(queue[c])
      BY <1>2 DEF TypeOK, ConnTypes
    <2>2. ParkedAfter(c, Dropped) \in Seq(Sender) /\ Len(ParkedAfter(c, Dropped)) <= Len(queue[c]) + 1
      BY <2>1, SendersKnown DEF ParkedAfter
    <2> QED
      BY <2>1, <2>2, <1>5
  <1>7. /\ queue' \in [Conns -> Seq(Message)] /\ parked' \in [Conns -> Seq(Sender)]
        /\ \A c \in Conns : Len(parked'[c]) <= Len(queue'[c])
    BY <1>3, <1>6
  <1>8. TypeOK'
    <2>1. ConnTypes'
      BY <1>2, <1>3, <1>7 DEF TypeOK, ConnTypes
    <2>2. FlagTypes'
      BY <1>2 DEF TypeOK, FlagTypes, Broadcast
    <2>3. ChainTypes'
      BY <1>3, <1>4 DEF ChainTypes
    <2> QED
      BY <2>1, <2>2, <2>3, <1>7 DEF TypeOK
  <1>9. OneBlockAhead' /\ TaskInv' /\ PoolIsLive'
    BY <1>2, <1>3, <1>4 DEF OneBlockAhead, TaskInv, PoolIsLive
  <1>10. RangeFindsBlocks'
    BY <1>2, <1>3 DEF RangeFindsBlocks
  <1>11. IdleInv'
    BY <1>2, <1>3 DEF IdleInv, PoolIsLive
  <1>12. ConnsInv'
    <2> SUFFICES ASSUME NEW c \in Conns
                 PROVE  ConnInv(seen[c] \o queue'[c], c, pool, since[c], announced + 1,
                                asked[c], ranges[c], requests[c])
      BY <1>3, <1>4 DEF ConnsInv
    <2>1. ConnInv(seen[c] \o queue[c], c, pool, since[c], announced,
                  asked[c], ranges[c], requests[c])
      BY <1>1 DEF ConnsInv
    <2>2. /\ seen[c] \in Seq(Message) /\ queue[c] \in Seq(Message)
          /\ seen[c] \o queue[c] \in Seq(Message)
          /\ requests[c] \in Nat /\ since[c] \in Nat
          /\ ranges[c] \in SUBSET RangeTask /\ asked[c] \in SUBSET RangeTask
      BY <1>2, TypedMessages
    <2>3. /\ ConnInv(Append(seen[c] \o queue[c], m), c, pool, since[c], announced + 1,
                     asked[c], ranges[c], requests[c])
          /\ c \notin pool => ConnInv(seen[c] \o queue[c], c, pool, since[c], announced + 1,
                                      asked[c], ranges[c], requests[c])
      BY <1>4, <1>5, <2>1, <2>2, ConnBroadcast
    <2>4. CASE c \in pool
      <3>1. seen[c] \o Append(queue[c], m) = Append(seen[c] \o queue[c], m)
        BY <1>2, SendTo, Zenon
      <3>2. queue'[c] = Append(queue[c], m)
        BY <2>4, <1>3
      <3> QED
        BY <3>1, <3>2, <2>3
    <2>5. CASE c \notin pool
      <3>1. queue'[c] = queue[c]
        BY <2>5, <1>3
      <3> QED
        BY <3>1, <2>3, <2>5
    <2> QED
      BY <2>4, <2>5
  <1>13. BaseInv'
    BY <1>8, <1>9, <1>10, <1>11 DEF BaseInv
  <1> QED
    BY <1>12, <1>13, Parts, PTL

-----------------------------------------------------------------------------
(* The theorems.                                                           *)

LEMMA NextSession == ASSUME SessionInv, [Next]_vars PROVE SessionInv'
  <1>1. ASSUME NEW c \in Conns, Step(c) PROVE SessionInv'
    BY <1>1, StepConnect, StepHangUp, StepFallSilent, StepBeat, StepWrite, StepReadRequest,
       StepReadPong, StepReadText, StepReadFilter, StepReadSubscribe, StepReadUnsubscribe,
       StepReadBlockRange, StepRangeStep DEF Step
  <1>2. CASE UNCHANGED vars
    <2>1. UNCHANGED <<conn, pool, announced, history>> /\ UNCHANGED chain
      BY <1>2 DEF vars, chain
    <2>2. ChainTypes /\ OneBlockAhead
      BY DEF SessionInv, TypeOK
    <2>3. ChainTypes' /\ OneBlockAhead' /\ height <= height'
      BY <2>1, <2>2, SessionAssumption DEF ChainTypes, OneBlockAhead, chain
    <2> QED
      BY <2>1, <2>3, ChainStep
  <1> QED
    BY <1>1, <1>2, StepStoreBlock, StepCommitBlock, StepBroadcast DEF Next

\* The invariant holds in every behaviour of the connections and the minter,
\* whatever peers send, when they stop reading and how blocks are announced.
THEOREM SessionInvariant == Spec => []SessionInv
  BY InitSession, NextSession, PTL DEF Spec

\* The types, and that a parked sender has a message of its own to wait behind
\* (the channel of handle_new_client).
THEOREM TypeCorrect == Spec => []TypeOK
  <1>1. SessionInv => TypeOK
    BY DEF SessionInv
  <1> QED
    BY <1>1, SessionInvariant, PTL

\* No subscription outlives its connection (the removal in handle_new_client).
THEOREM PoolLive == Spec => []PoolIsLive
  <1>1. SessionInv => PoolIsLive
    BY DEF SessionInv
  <1> QED
    BY <1>1, SessionInvariant, PTL

\* A subscriber gets every block announced since it subscribed, once and in
\* order (SubscriptionPool::broadcast).
THEOREM NoGapInSubscription == Spec => []SubscriptionHasNoGap
  <1>1. SessionInv => SubscriptionHasNoGap
    BY DEF SessionInv
  <1> QED
    BY <1>1, SessionInvariant, PTL

\* The answer to a range request comes in order, without a gap, under the filter
\* of the request, and ends after its last height (AsyncBlockRange).
THEOREM RangesInOrder == Spec => []RangeInOrder
  <1>1. SessionInv => RangeInOrder
    BY DEF SessionInv
  <1> QED
    BY <1>1, SessionInvariant, PTL

\* The unreachable!() of AsyncBlockRange::poll_next is never reached.
THEOREM RangesFindBlocks == Spec => []RangeFindsBlocks
  <1>1. SessionInv => RangeFindsBlocks
    BY DEF SessionInv
  <1> QED
    BY <1>1, SessionInvariant, PTL

=============================================================================
