--------------------------- MODULE FormatsProofs ---------------------------
(***************************************************************************)
(* Proofs about the byte formats, for both widths of a byte and every set  *)
(* of messages and garbage.                                                *)
(*                                                                         *)
(* Every format is a pair of a writer and a reader.  Codec says that they  *)
(* agree: what is written is read again whatever follows it, and what is   *)
(* read is a value of the format and the bytes behind it, and is read so   *)
(* whatever follows.  Codecs are proved for bytes, integers, amounts and   *)
(* byte strings, carried over to options, counted lists and enums by one   *)
(* group of lemmas each (OptionWrites, ListWrites and TagWrites with their *)
(* counterparts for reading), and from there to the struct or enum at hand *)
(* up to Msg.  The proof for a struct follows its fields: what is written  *)
(* is p1 \o p2 \o ..., regrouped to the right so that each reader finds    *)
(* its part in front.  The loop of a list is unfolded by FoldTheory.       *)
(*                                                                         *)
(* ListWrites also says what is read of a list too long for its count,     *)
(* from which MsgOverflows follows; JoinedTellsApart that pieces without a *)
(* count are told apart.  RoomForSent and NoRoomGrows follow the count of  *)
(* a block's receipts: a message that is read up to it has room for them   *)
(* as it was sent, and bytes cut off or added change nothing about that.   *)
(* WireInv adds what happened to the bytes on the way; the theorems about  *)
(* the messages are at the end.                                            *)
(***************************************************************************)
EXTENDS Formats, SequenceTheorems, FiniteSetTheorems, TLAPS

-----------------------------------------------------------------------------
(* Streams and the results of readers.                                     *)

LEMMA Results ==
    /\ ~Fail.ok
    /\ \A val, rest : Ok(val, rest).ok /\ Ok(val, rest).val = val /\ Ok(val, rest).rest = rest
  BY DEF Ok, Fail

LEMMA Widths ==
    /\ BYTE \in Nat /\ BYTE > 37 /\ HALF \in Nat /\ BYTE = 2 * HALF
    /\ INT \in Nat /\ INT > BYTE
  BY WidthAssumption DEF HALF, INT

LEMMA Cat ==
  /\ \A s, t \in Streams : s \o t \in Streams /\ Len(s \o t) = Len(s) + Len(t)
  /\ \A s \in Streams : s \o <<>> = s /\ <<>> \o s = s /\ Len(s) \in Nat
  BY DEF Streams

LEMMA CatAssoc == \A s, t, u \in Streams : (s \o t) \o u = s \o (t \o u)
  BY ConcatAssociative DEF Streams

LEMMA CatCancel == \A s, t, u \in Streams : s \o t = s \o u => t = u
  BY ConcatSimplifications DEF Streams

LEMMA CatEmpty ==
  /\ <<>> \in Streams
  /\ \A s, t \in Streams : s \o t = <<>> <=> s = <<>> /\ t = <<>>
  /\ \A s \in Streams : Len(s) = 0 <=> s = <<>>
  BY ConcatEqualIffEmpty, EmptySeq DEF Streams

\* What is behind a part of a stream.
LEMMA Drop ==
  \A s, t \in Streams : \A n \in Nat :
     n = Len(s) => /\ SubSeq(s \o t, n + 1, Len(s \o t)) = t
                   /\ SubSeq(s \o t, 1, n) = s
                   /\ \A i \in 1..n : (s \o t)[i] = s[i]
  <1> SUFFICES ASSUME NEW s \in Streams, NEW t \in Streams, NEW n \in Nat, n = Len(s)
               PROVE  /\ SubSeq(s \o t, n + 1, Len(s \o t)) = t
                      /\ SubSeq(s \o t, 1, n) = s
                      /\ \A i \in 1..n : (s \o t)[i] = s[i]
    BY Zenon
  <1>1. /\ s \o t \in Seq(Bytes)
        /\ Len(s \o t) = n + Len(t) /\ Len(t) \in Nat
        /\ \A i \in 1 .. n + Len(t) : (s \o t)[i] = IF i <= n THEN s[i] ELSE t[i - n]
    BY ConcatProperties, LenProperties DEF Streams
  <1>2. SubSeq(s \o t, n + 1, Len(s \o t)) = t
    <2> DEFINE d == SubSeq(s \o t, n + 1, Len(s \o t))
    <2>1. \A i \in n + 1 .. Len(s \o t) : (s \o t)[i] \in Bytes
      BY <1>1
    <2>2. /\ d \in Seq(Bytes) /\ Len(d) = Len(t)
          /\ \A i \in 1 .. Len(s \o t) - (n + 1) + 1 : d[i] = (s \o t)[n + 1 + i - 1]
      BY <1>1, <2>1, SubSeqProperties
    <2> HIDE DEF d
    <2>3. \A i \in 1 .. Len(d) : d[i] = t[i]
      BY <1>1, <2>2
    <2> QED
      BY <2>2, <2>3, SeqEqual DEF d, Streams
  <1>3. SubSeq(s \o t, 1, n) = s
    <2> DEFINE d == SubSeq(s \o t, 1, n)
    <2>1. \A i \in 1 .. n : (s \o t)[i] \in Bytes
      BY <1>1
    <2>2. /\ d \in Seq(Bytes) /\ Len(d) = n
          /\ \A i \in 1 .. n - 1 + 1 : d[i] = (s \o t)[1 + i - 1]
      BY <1>1, <2>1, SubSeqProperties
    <2> HIDE DEF d
    <2>3. \A i \in 1 .. Len(d) : d[i] = s[i]
      BY <1>1, <2>2
    <2> QED
      BY <2>2, <2>3, SeqEqual DEF d, Streams
  <1> QED
    BY <1>1, <1>2, <1>3

LEMMA Split ==
  ASSUME NEW s \in Streams, NEW n \in Nat, n <= Len(s)
  PROVE  \E a, b \in Streams : s = a \o b /\ Len(a) = n
  <1> DEFINE a == SubSeq(s, 1, n)
             b == SubSeq(s, n + 1, Len(s))
  <1>1. Len(s) \in Nat /\ \A i \in 1 .. Len(s) : s[i] \in Bytes
    BY DEF Streams
  <1>2. a \in Streams /\ Len(a) = n
    <2>1. \A i \in 1 .. n : s[i] \in Bytes
      BY <1>1
    <2> QED
      BY <1>1, <2>1, SubSeqProperties DEF Streams
  <1>3. b \in Streams
    BY <1>1, SubSeqProperties DEF Streams
  <1>4. a \o b = SubSeq(s, 1, Len(s))
    <2>1. 1 \in 1 .. Len(s) + 1 /\ n \in 1 - 1 .. Len(s) /\ Len(s) \in n .. Len(s)
      BY <1>1
    <2> QED
      BY <2>1, ConcatAdjacentSubSeq DEF Streams
  <1>5. a \o b = s
    BY <1>4, SubSeqFull DEF Streams
  <1> QED
    BY <1>2, <1>3, <1>5

-----------------------------------------------------------------------------
(* Codecs.                                                                 *)

\* What is written is some bytes, and is read again, whatever follows.
Writes(P(_), T(_), V) ==
    \A v \in V : /\ P(v) \in Streams /\ P(v) # <<>>
                 /\ \A t \in Streams : T(P(v) \o t) = Ok(v, t)

\* What is read is a value of V and the bytes behind it, whatever follows.
Reads(T(_), V) ==
    \A s \in Streams :
        T(s).ok => \E v \in V, r \in Streams :
                      T(s) = Ok(v, r) /\ \A q \in Streams : T(s \o q) = Ok(v, r \o q)

Codec(P(_), T(_), V) == Writes(P, T, V) /\ Reads(T, V)

PutByte(b) == <<b>>

LEMMA ByteReads ==
  \A b \in Bytes : /\ <<b>> \in Streams /\ <<b>> # <<>>
                   /\ \A t \in Streams : TakeByte(<<b>> \o t) = Ok(b, t)
  <1> SUFFICES ASSUME NEW b \in Bytes, NEW t \in Streams
               PROVE  <<b>> \in Streams /\ <<b>> # <<>> /\ TakeByte(<<b>> \o t) = Ok(b, t)
    BY CatEmpty
  <1>1. <<b>> \o t # <<>> /\ Head(<<b>> \o t) = b /\ Tail(<<b>> \o t) = t
    BY DEF Streams
  <1>2. <<b>> \in Streams /\ <<b>> # <<>>
    BY DEF Streams
  <1> QED
    BY <1>1, <1>2 DEF TakeByte

LEMMA ByteStarts ==
  ASSUME NEW s \in Streams, TakeByte(s).ok
  PROVE  \E b \in Bytes, t \in Streams : s = <<b>> \o t
  <1>1. s # <<>>
    BY Results DEF TakeByte
  <1>2. Head(s) \in Bytes /\ Tail(s) \in Streams /\ s = <<Head(s)>> \o Tail(s)
    BY <1>1 DEF Streams
  <1> QED
    BY <1>2

LEMMA ByteCodec == Codec(PutByte, TakeByte, Bytes)
  <1>1. Writes(PutByte, TakeByte, Bytes)
    BY ByteReads, Zenon DEF Writes, PutByte
  <1>2. ASSUME NEW s \in Streams, TakeByte(s).ok
        PROVE  \E v \in Bytes, r \in Streams :
                  TakeByte(s) = Ok(v, r) /\ \A q \in Streams : TakeByte(s \o q) = Ok(v, r \o q)
    <2>1. PICK v \in Bytes, r \in Streams : s = <<v>> \o r
      BY <1>2, ByteStarts
    <2>2. <<v>> \in Streams
      BY ByteReads
    <2>3. \A q \in Streams : s \o q = <<v>> \o (r \o q) /\ r \o q \in Streams
      BY <2>1, <2>2, Cat, CatAssoc, Zenon
    <2>4. TakeByte(s) = Ok(v, r) /\ \A q \in Streams : TakeByte(s \o q) = Ok(v, r \o q)
      BY <2>1, <2>3, ByteReads, Zenon
    <2> QED
      BY <2>4
  <1> QED
    BY <1>1, <1>2 DEF Codec, Reads

LEMMA IntReads ==
  \A a, t \in Streams : Len(a) = 2 => TakeInt(a \o t) = Ok(a[1] * BYTE + a[2], t)
  <1> SUFFICES ASSUME NEW a \in Streams, NEW t \in Streams, Len(a) = 2
               PROVE  TakeInt(a \o t) = Ok(a[1] * BYTE + a[2], t)
    OBVIOUS
  <1>1. Len(a \o t) >= 2
    <2>1. Len(a \o t) = Len(a) + Len(t) /\ Len(t) \in Nat
      BY Cat
    <2> QED
      BY <2>1
  <1>2. /\ (a \o t)[1] = a[1] /\ (a \o t)[2] = a[2]
        /\ SubSeq(a \o t, 3, Len(a \o t)) = t
    <2>1. 2 \in Nat /\ 2 = Len(a) /\ 1 \in 1..2 /\ 2 \in 1..2 /\ 2 + 1 = 3
      OBVIOUS
    <2>2. /\ SubSeq(a \o t, 2 + 1, Len(a \o t)) = t
          /\ \A i \in 1..2 : (a \o t)[i] = a[i]
      BY <2>1, Drop, ZenonT(60)
    <2> QED
      BY <2>1, <2>2
  <1>3. ~(Len(a \o t) < 2)
    <2>1. Len(a \o t) \in Nat
      BY Cat, Zenon
    <2> QED
      BY <1>1, <2>1
  <1> QED
    BY <1>2, <1>3, Zenon DEF TakeInt

LEMMA IntBytes ==
  ASSUME NEW n \in Nat
  PROVE  /\ PushInt(n) \in Streams /\ Len(PushInt(n)) = 2 /\ PushInt(n) # <<>>
         /\ PushInt(n)[1] * BYTE + PushInt(n)[2] = n % INT
  <1>1. CASE BYTE = 128
    <2>1. (n \div 128) % 128 \in 0 .. 127 /\ n % 128 \in 0 .. 127
          /\ ((n \div 128) % 128) * 128 + (n % 128) = n % 16384
      OBVIOUS
    <2>2. INT = 16384
      BY <1>1 DEF INT
    <2> QED
      BY <1>1, <2>1, <2>2 DEF PushInt, Streams, Bytes
  <1>2. CASE BYTE = 256
    <2>1. (n \div 256) % 256 \in 0 .. 255 /\ n % 256 \in 0 .. 255
          /\ ((n \div 256) % 256) * 256 + (n % 256) = n % 65536
      OBVIOUS
    <2>2. INT = 65536
      BY <1>2 DEF INT
    <2> QED
      BY <1>2, <2>1, <2>2 DEF PushInt, Streams, Bytes
  <1> QED
    BY <1>1, <1>2, WidthAssumption

LEMMA IntCodec == Codec(PushInt, TakeInt, Ints)
  <1>1. ASSUME NEW v \in Ints
        PROVE  v \in Nat /\ v % INT = v
    BY Widths DEF Ints
  <1>2. Writes(PushInt, TakeInt, Ints)
    BY <1>1, IntBytes, IntReads DEF Writes
  <1>3. ASSUME NEW s \in Streams, TakeInt(s).ok
        PROVE  \E v \in Ints, r \in Streams :
                  TakeInt(s) = Ok(v, r) /\ \A q \in Streams : TakeInt(s \o q) = Ok(v, r \o q)
    <2>1. 2 <= Len(s)
      BY <1>3, Results, Cat DEF TakeInt
    <2>2. PICK a \in Streams, r \in Streams : s = a \o r /\ Len(a) = 2
      BY <2>1, Split
    <2>3. a[1] * BYTE + a[2] \in Ints
      <3>1. \A i \in 1 .. Len(a) : a[i] \in Bytes
        BY DEF Streams
      <3> QED
        BY <2>2, <3>1, WidthAssumption DEF Bytes, Ints, INT
    <2>4. \A q \in Streams : s \o q = a \o (r \o q) /\ r \o q \in Streams
      BY <2>2, Cat, CatAssoc, Zenon
    <2> DEFINE v == a[1] * BYTE + a[2]
    <2>5. TakeInt(s) = Ok(v, r) /\ \A q \in Streams : TakeInt(s \o q) = Ok(v, r \o q)
      BY <2>2, <2>4, IntReads, Zenon
    <2> HIDE DEF v
    <2> QED
      BY <2>3, <2>5 DEF v
  <1> QED
    BY <1>2, <1>3 DEF Codec, Reads

-----------------------------------------------------------------------------
(* Amounts.                                                                *)

AssetParts(a) ==
    \/ Len(a) = 1 /\ a[1] < HALF
    \/ Len(a) = 2 /\ a[1] >= HALF /\ a[2] < HALF
    \/ Len(a) = 3 /\ a[1] >= HALF /\ a[2] >= HALF /\ a[3] < HALF

AssetBits(a) ==
    IF Len(a) = 1 THEN a[1] % HALF
    ELSE IF Len(a) = 2 THEN (a[1] % HALF) + (a[2] % HALF) * HALF
    ELSE (a[1] % HALF) + (a[2] % HALF) * HALF + (a[3] % HALF) * HALF * HALF

LEMMA AssetReads ==
  \A a, t \in Streams :
     AssetParts(a) => take_asset(a \o t) = Ok(zigzag_decode(AssetBits(a) % I64), t)
  <1> SUFFICES ASSUME NEW a \in Streams, NEW t \in Streams, AssetParts(a)
               PROVE  take_asset(a \o t) = Ok(zigzag_decode(AssetBits(a) % I64), t)
    BY Zenon
  <1> DEFINE u == a \o t
             n == Len(a)
             result(i, m) == Ok(zigzag_decode(m % I64), SubSeq(u, i + 1, Len(u)))
  <1>1. n \in {1, 2, 3}
    BY DEF AssetParts
  <1>2. /\ SubSeq(u, n + 1, Len(u)) = t
        /\ \A i \in 1 .. n : u[i] = a[i]
    <2>1. n \in Nat
      BY <1>1
    <2> QED
      BY <2>1, Drop, Zenon
  <1>3. Len(u) >= n /\ Len(u) \in Nat
    <2>1. Len(u) = n + Len(t) /\ Len(t) \in Nat
      BY Cat, Zenon
    <2> QED
      BY <1>1, <2>1
  <1>4. /\ \A i \in 1 .. n : a[i] \in Nat
        /\ HALF \in Nat
    <2>1. \A i \in 1 .. n : a[i] \in Bytes
      BY <1>1 DEF Streams
    <2> QED
      BY <2>1, Widths DEF Bytes
  <1> HIDE DEF u
  <1>5. CASE n = 1
    <2>1. Len(u) >= 1 /\ u[1] < HALF /\ u[1] = a[1]
      BY <1>2, <1>3, <1>5 DEF AssetParts
    <2>2. take_asset(u) = result(1, u[1] % HALF)
      BY <2>1, <1>3, <1>4, <1>5 DEF take_asset
    <2>3. AssetBits(a) = u[1] % HALF
      BY <2>1, <1>5 DEF AssetBits
    <2> QED
      BY <1>2, <1>5, <2>2, <2>3 DEF u
  <1>6. CASE n = 2
    <2>1. Len(u) >= 2 /\ u[1] >= HALF /\ u[2] < HALF /\ u[1] = a[1] /\ u[2] = a[2]
      BY <1>2, <1>3, <1>6 DEF AssetParts
    <2>2. take_asset(u) = result(2, (u[1] % HALF) + (u[2] % HALF) * HALF)
      BY <2>1, <1>3, <1>4, <1>6, SMTT(60) DEF take_asset
    <2>3. AssetBits(a) = (u[1] % HALF) + (u[2] % HALF) * HALF
      BY <2>1, <1>6 DEF AssetBits
    <2> QED
      BY <1>2, <1>6, <2>2, <2>3 DEF u
  <1>7. CASE n = 3
    <2>1. /\ Len(u) >= 3 /\ u[1] >= HALF /\ u[2] >= HALF /\ u[3] < HALF
          /\ u[1] = a[1] /\ u[2] = a[2] /\ u[3] = a[3]
      BY <1>2, <1>3, <1>7 DEF AssetParts
    <2>2. take_asset(u)
            = result(3, (u[1] % HALF) + (u[2] % HALF) * HALF + (u[3] % HALF) * HALF * HALF)
      BY <2>1, <1>3, <1>4, <1>7, SMTT(60) DEF take_asset
    <2>3. AssetBits(a) = (u[1] % HALF) + (u[2] % HALF) * HALF + (u[3] % HALF) * HALF * HALF
      BY <2>1, <1>7 DEF AssetBits
    <2> QED
      BY <1>2, <1>7, <2>2, <2>3 DEF u
  <1> QED
    BY <1>1, <1>5, <1>6, <1>7

LEMMA ZigzagRoundTrip ==
  ASSUME NEW v \in Amounts
  PROVE  /\ zigzag_encode(v) \in 0 .. I64 - 1
         /\ zigzag_decode(zigzag_encode(v)) = v
  BY WidthAssumption DEF zigzag_encode, zigzag_decode, Amounts

LEMMA ZigzagRange ==
  ASSUME NEW n \in Nat
  PROVE  zigzag_decode(n % I64) \in Amounts
  <1>1. I64 \in {8192, 32768}
    BY WidthAssumption
  <1>2. ASSUME NEW u \in 0 .. I64 - 1
        PROVE  zigzag_decode(u) \in Amounts
    <2>1. CASE u % 2 = 0
      BY <1>1, <2>1 DEF zigzag_decode, Amounts
    <2>2. CASE u % 2 # 0
      BY <1>1, <2>2 DEF zigzag_decode, Amounts
    <2> QED
      BY <2>1, <2>2
  <1>3. n % I64 \in 0 .. I64 - 1
    BY <1>1
  <1> QED
    BY <1>2, <1>3

LEMMA AssetBytes ==
  ASSUME NEW v \in Amounts
  PROVE  /\ push_asset(v) \in Streams /\ push_asset(v) # <<>>
         /\ AssetParts(push_asset(v))
         /\ AssetBits(push_asset(v)) % I64 = zigzag_encode(v)
  <1> DEFINE n == zigzag_encode(v)
             p == push_asset(v)
  <1>1. n \in 0 .. I64 - 1
    BY ZigzagRoundTrip
  <1>2. \/ BYTE = 128 /\ HALF = 64 /\ I64 = 8192
        \/ BYTE = 256 /\ HALF = 128 /\ I64 = 32768
    BY WidthAssumption DEF HALF
  <1>3. p = IF n < HALF THEN <<n>>
            ELSE IF n < HALF * HALF THEN <<HALF + (n % HALF), n \div HALF>>
            ELSE <<HALF + (n % HALF), HALF + ((n \div HALF) % HALF), n \div (HALF * HALF)>>
    BY DEF push_asset
  <1> HIDE DEF n, p
  <1>4. CASE n < HALF
    <2>1. p = <<n>>
      BY <1>3, <1>4
    <2>2. n \in Bytes /\ (n % HALF) % I64 = n
      BY <1>1, <1>2, <1>4 DEF Bytes
    <2> QED
      BY <1>4, <2>1, <2>2 DEF p, n, AssetParts, AssetBits, Streams
  <1>5. CASE ~(n < HALF) /\ n < HALF * HALF
    <2> DEFINE b1 == HALF + (n % HALF)
               b2 == n \div HALF
    <2>1. p = <<b1, b2>>
      BY <1>3, <1>5
    <2>2. /\ b1 \in Bytes /\ b2 \in Bytes /\ b1 >= HALF /\ b2 < HALF
          /\ ((b1 % HALF) + (b2 % HALF) * HALF) % I64 = n
      <3>1. CASE BYTE = 128
        BY <1>1, <1>2, <1>5, <3>1 DEF Bytes
      <3>2. CASE BYTE = 256
        BY <1>1, <1>2, <1>5, <3>2 DEF Bytes
      <3> QED
        BY <3>1, <3>2, <1>2
    <2> HIDE DEF b1, b2
    <2> QED
      BY <2>1, <2>2 DEF p, n, AssetParts, AssetBits, Streams
  <1>6. CASE ~(n < HALF * HALF)
    <2> DEFINE b1 == HALF + (n % HALF)
               b2 == HALF + ((n \div HALF) % HALF)
               b3 == n \div (HALF * HALF)
    <2>1. p = <<b1, b2, b3>>
      BY <1>1, <1>2, <1>3, <1>6
    <2>2. /\ b1 \in Bytes /\ b2 \in Bytes /\ b3 \in Bytes
          /\ b1 >= HALF /\ b2 >= HALF /\ b3 < HALF
          /\ ((b1 % HALF) + (b2 % HALF) * HALF + (b3 % HALF) * HALF * HALF) % I64 = n
      <3>1. CASE BYTE = 128
        BY <1>1, <1>2, <1>6, <3>1 DEF Bytes
      <3>2. CASE BYTE = 256
        BY <1>1, <1>2, <1>6, <3>2 DEF Bytes
      <3> QED
        BY <3>1, <3>2, <1>2
    <2> HIDE DEF b1, b2, b3
    <2> QED
      BY <2>1, <2>2 DEF p, n, AssetParts, AssetBits, Streams
  <1> QED
    BY <1>4, <1>5, <1>6

LEMMA AssetCodec == Codec(push_asset, take_asset, Amounts)
  <1>1. ASSUME NEW v \in Amounts, NEW t \in Streams
        PROVE  take_asset(push_asset(v) \o t) = Ok(v, t)
    <2>1. push_asset(v) \in Streams /\ AssetParts(push_asset(v))
      BY AssetBytes
    <2>2. zigzag_decode(AssetBits(push_asset(v)) % I64) = v
      BY AssetBytes, ZigzagRoundTrip
    <2> QED
      BY <2>1, <2>2, AssetReads
  <1>2. Writes(push_asset, take_asset, Amounts)
    BY <1>1, AssetBytes DEF Writes
  <1>3. ASSUME NEW s \in Streams, take_asset(s).ok
        PROVE  \E v \in Amounts, r \in Streams :
                  take_asset(s) = Ok(v, r)
                        /\ \A q \in Streams : take_asset(s \o q) = Ok(v, r \o q)
    <2>1. \E n \in {1, 2, 3} :
             Len(s) >= n /\ s[n] < HALF /\ \A j \in 1 .. (n - 1) : s[j] >= HALF
      BY <1>3, Results DEF take_asset
    <2>2. PICK n \in {1, 2, 3} :
             Len(s) >= n /\ s[n] < HALF /\ \A j \in 1 .. (n - 1) : s[j] >= HALF
      BY <2>1
    <2>3. PICK a \in Streams, r \in Streams : s = a \o r /\ Len(a) = n
      <3>1. n \in Nat /\ n <= Len(s)
        BY <2>2, Cat
      <3> QED
        BY <3>1, Split
    <2>4. \A i \in 1 .. n : s[i] = a[i]
      <3>1. n \in Nat /\ n = Len(a)
        BY <2>3
      <3> QED
        BY <2>3, <3>1, Drop, Zenon
    <2>5. AssetParts(a)
      BY <2>2, <2>3, <2>4 DEF AssetParts
    <2>6. AssetBits(a) \in Nat
      <3>1. \A i \in 1 .. n : a[i] \in Nat
        <4>1. \A i \in 1 .. Len(a) : a[i] \in Bytes
          BY DEF Streams
        <4> QED
          BY <2>3, <4>1, Widths DEF Bytes
      <3>2. HALF \in {64, 128}
        BY WidthAssumption DEF HALF
      <3> QED
        BY <2>3, <3>1, <3>2, SMTT(60) DEF AssetBits
    <2>7. \A q \in Streams : s \o q = a \o (r \o q) /\ r \o q \in Streams
      BY <2>3, Cat, CatAssoc, Zenon
    <2> DEFINE v == zigzag_decode(AssetBits(a) % I64)
    <2>8. v \in Amounts
      BY <2>6, ZigzagRange
    <2>9. take_asset(s) = Ok(v, r) /\ \A q \in Streams : take_asset(s \o q) = Ok(v, r \o q)
      BY <2>3, <2>5, <2>7, AssetReads, Zenon
    <2> HIDE DEF v
    <2> QED
      BY <2>8, <2>9
  <1> QED
    BY <1>2, <1>3 DEF Codec, Reads

-----------------------------------------------------------------------------
(* Strings of bytes.                                                       *)

LEMMA BytesReads ==
  \A n \in Ints : \A a, t \in Streams :
     Len(a) = n => TakeBytes(PushInt(n) \o (a \o t)) = Ok(a, t)
  <1> SUFFICES ASSUME NEW n \in Ints, NEW a \in Streams, NEW t \in Streams, Len(a) = n
               PROVE  TakeBytes(PushInt(n) \o (a \o t)) = Ok(a, t)
    BY Zenon
  <1> DEFINE u == a \o t
  <1>1. u \in Streams /\ n \in Nat
    BY Cat, Widths DEF Ints
  <1>2. TakeInt(PushInt(n) \o u) = Ok(n, u)
    BY <1>1, IntCodec DEF Codec, Writes
  <1>3. Len(u) >= n
    <2>1. Len(u) = Len(a) + Len(t) /\ Len(t) \in Nat
      BY Cat, Zenon
    <2> QED
      BY <1>1, <2>1
  <1>4. SubSeq(u, n + 1, Len(u)) = t /\ SubSeq(u, 1, n) = a
    BY <1>1, Drop, ZenonT(60)
  <1> HIDE DEF u
  <1>5. TakeBytes(PushInt(n) \o u) = Ok(SubSeq(u, 1, n), SubSeq(u, n + 1, Len(u)))
    BY <1>2, <1>3, Results DEF TakeBytes
  <1> QED
    BY <1>4, <1>5 DEF u

LEMMA BytesCodec == Codec(push_bytes, TakeBytes, ByteString)
  <1>1. ASSUME NEW v \in ByteString
        PROVE  v \in Streams /\ Len(v) \in Ints
    BY Widths DEF ByteString, List, Streams, Ints
  <1>2. ASSUME NEW v \in ByteString
        PROVE  /\ push_bytes(v) \in Streams /\ push_bytes(v) # <<>>
               /\ \A t \in Streams : TakeBytes(push_bytes(v) \o t) = Ok(v, t)
    <2>1. PushInt(Len(v)) \in Streams /\ PushInt(Len(v)) # <<>>
      BY <1>1, IntCodec DEF Codec, Writes
    <2>2. push_bytes(v) = PushInt(Len(v)) \o v
      BY DEF push_bytes
    <2>3. push_bytes(v) \in Streams /\ push_bytes(v) # <<>>
      BY <1>1, <2>1, <2>2, Cat, CatEmpty, Zenon
    <2>4. \A t \in Streams : push_bytes(v) \o t = PushInt(Len(v)) \o (v \o t)
      BY <1>1, <2>1, <2>2, CatAssoc
    <2> QED
      BY <1>1, <2>3, <2>4, BytesReads, Zenon
  <1>3. Writes(push_bytes, TakeBytes, ByteString)
    BY <1>2 DEF Writes
  <1>4. ASSUME NEW s \in Streams, TakeBytes(s).ok
        PROVE  \E v \in ByteString, r \in Streams :
                  TakeBytes(s) = Ok(v, r)
                        /\ \A q \in Streams : TakeBytes(s \o q) = Ok(v, r \o q)
    <2>1. TakeInt(s).ok /\ Len(TakeInt(s).rest) >= TakeInt(s).val
      BY <1>4, Results DEF TakeBytes
    <2>2. PICK n \in Ints, u \in Streams :
             TakeInt(s) = Ok(n, u) /\ \A q \in Streams : TakeInt(s \o q) = Ok(n, u \o q)
      BY <2>1, IntCodec DEF Codec, Reads
    <2>3. TakeInt(s).rest = u /\ TakeInt(s).val = n
      BY <2>2, Results
    <2>4. n \in Nat /\ n <= Len(u)
      <3>1. Len(u) \in Nat /\ n \in Nat
        BY Cat, Widths DEF Ints
      <3> QED
        BY <2>1, <2>3, <3>1
    <2>5. PICK a \in Streams, r \in Streams : u = a \o r /\ Len(a) = n
      BY <2>4, Split
    <2>6. a \in ByteString
      BY <2>5, Widths DEF ByteString, List, Streams, Ints
    <2>7. ASSUME NEW x, NEW w \in Streams, TakeInt(x) = Ok(n, a \o w)
          PROVE  TakeBytes(x) = Ok(a, w)
      <3>1. TakeInt(PushInt(n) \o (a \o w)) = Ok(n, a \o w)
        <4>1. a \o w \in Streams
          BY Cat, Zenon
        <4> QED
          BY <4>1, IntCodec DEF Codec, Writes
      <3>2. TakeBytes(x) = TakeBytes(PushInt(n) \o (a \o w))
        BY <2>7, <3>1, Zenon DEF TakeBytes
      <3> QED
        BY <2>5, <3>2, BytesReads, Zenon
    <2>8. TakeBytes(s) = Ok(a, r)
      <3>1. TakeInt(s) = Ok(n, a \o r)
        BY <2>2, <2>5, Zenon
      <3> QED
        BY <2>7, <3>1, Zenon
    <2>9. ASSUME NEW q \in Streams PROVE TakeBytes(s \o q) = Ok(a, r \o q)
      <3>1. u \o q = a \o (r \o q) /\ r \o q \in Streams
        BY <2>5, Cat, CatAssoc, Zenon
      <3> QED
        BY <2>2, <2>7, <3>1
    <2> QED
      BY <2>6, <2>8, <2>9
  <1> QED
    BY <1>3, <1>4 DEF Codec, Reads

-----------------------------------------------------------------------------
(* Options and tags.                                                       *)

\* Reads, of a reader that is a function.
Reader(take, V) ==
    \A s \in Streams :
        take[s].ok => \E v \in V, r \in Streams :
                         take[s] = Ok(v, r) /\ \A q \in Streams : take[s \o q] = Ok(v, r \o q)

LEMMA OptionWrites ==
  ASSUME NEW take, NEW x, NEW b \in Streams, \A t \in Streams : take[b \o t] = Ok(x, t)
  PROVE  /\ PutOption(<<x>>, b) \in Streams /\ PutOption(<<x>>, b) # <<>>
         /\ \A t \in Streams : TakeOption(take, PutOption(<<x>>, b) \o t) = Ok(<<x>>, t)
  <1>1. 1 \in Bytes
    BY Widths DEF Bytes
  <1>2. PutOption(<<x>>, b) = <<1>> \o b
    BY DEF PutOption
  <1>3. <<1>> \in Streams /\ <<1>> # <<>>
    BY <1>1, ByteReads, Zenon
  <1>4. <<1>> \o b \in Streams /\ <<1>> \o b # <<>>
    BY <1>3, Cat, CatEmpty, Zenon
  <1>5. ASSUME NEW t \in Streams
        PROVE  TakeOption(take, PutOption(<<x>>, b) \o t) = Ok(<<x>>, t)
    <2>1. PutOption(<<x>>, b) \o t = <<1>> \o (b \o t) /\ b \o t \in Streams
      <3>1. (<<1>> \o b) \o t = <<1>> \o (b \o t) /\ b \o t \in Streams
        BY <1>3, Cat, CatAssoc, Zenon
      <3> QED
        BY <1>2, <3>1, Zenon
    <2>2. TakeByte(<<1>> \o (b \o t)) = Ok(1, b \o t)
      BY <1>1, <2>1, ByteReads, Zenon
    <2> DEFINE u == <<1>> \o (b \o t)
               w == b \o t
    <2>3. TakeByte(u) = Ok(1, w) /\ take[w] = Ok(x, t)
      BY <2>2
    <2> HIDE DEF u, w
    <2>4. TakeOption(take, u) = Ok(<<x>>, t)
      BY <2>3, Results DEF TakeOption
    <2> QED
      BY <2>1, <2>4 DEF u
  <1> QED
    BY <1>2, <1>4, <1>5, Zenon

LEMMA NoneWrites ==
  ASSUME NEW take, NEW b
  PROVE  /\ PutOption(<<>>, b) \in Streams /\ PutOption(<<>>, b) # <<>>
         /\ \A t \in Streams : TakeOption(take, PutOption(<<>>, b) \o t) = Ok(<<>>, t)
  <1>1. 0 \in Bytes
    BY Widths DEF Bytes
  <1>2. PutOption(<<>>, b) = <<0>>
    BY DEF PutOption
  <1>3. ASSUME NEW t \in Streams
        PROVE  TakeOption(take, <<0>> \o t) = Ok(<<>>, t)
    <2> DEFINE u == <<0>> \o t
    <2>1. TakeByte(u) = Ok(0, t)
      BY <1>1, ByteReads, Zenon
    <2> HIDE DEF u
    <2>2. TakeOption(take, u) = Ok(<<>>, t)
      BY <2>1, Results DEF TakeOption
    <2> QED
      BY <2>2 DEF u
  <1> QED
    BY <1>1, <1>2, <1>3, ByteReads, Zenon

LEMMA Some ==
  ASSUME NEW V, NEW o \in Option(V), o # <<>>
  PROVE  o = <<o[1]>> /\ o[1] \in V
  <1>1. o \in Seq(V) /\ Len(o) \in Nat /\ Len(o) < 2
    BY DEF Option
  <1>2. Len(o) # 0
    BY <1>1
  <1>3. Len(o) = 1
    <2>1. \A n \in Nat : n < 2 /\ n # 0 => n = 1
      OBVIOUS
    <2> QED
      BY <1>1, <1>2, <2>1, Zenon
  <1>4. o[1] \in V
    BY <1>1, <1>3
  <1>5. <<o[1]>> \in Seq(V) /\ Len(<<o[1]>>) = Len(o)
        /\ \A i \in 1 .. Len(o) : o[i] = <<o[1]>>[i]
    BY <1>3, <1>4
  <1> QED
    BY <1>1, <1>4, <1>5, SeqEqual

LEMMA OptionReads ==
  ASSUME NEW take, NEW V, Reader(take, V), NEW s \in Streams, TakeOption(take, s).ok
  PROVE  \E v \in Option(V), r \in Streams :
            /\ TakeOption(take, s) = Ok(v, r)
            /\ \A q \in Streams : TakeOption(take, s \o q) = Ok(v, r \o q)
  <1>1. TakeByte(s).ok
    BY Results DEF TakeOption
  <1>2. PICK a \in Bytes, u \in Streams :
           TakeByte(s) = Ok(a, u) /\ \A q \in Streams : TakeByte(s \o q) = Ok(a, u \o q)
    BY <1>1, ByteCodec DEF Codec, Reads
  <1>3. a = 0 \/ (a = 1 /\ take[u].ok)
    BY <1>2, Results DEF TakeOption
  <1>4. CASE a = 0
    <2>1. <<>> \in Option(V)
      BY DEF Option
    <2>2. ASSUME NEW x, NEW w, TakeByte(x) = Ok(0, w)
          PROVE  TakeOption(take, x) = Ok(<<>>, w)
      BY <2>2, Results DEF TakeOption
    <2> QED
      BY <1>2, <1>4, <2>1, <2>2
  <1>5. CASE a = 1 /\ take[u].ok
    <2>1. PICK v \in V, r \in Streams :
             take[u] = Ok(v, r) /\ \A q \in Streams : take[u \o q] = Ok(v, r \o q)
      BY <1>5 DEF Reader
    <2>2. <<v>> \in Option(V)
      BY DEF Option
    <2>3. ASSUME NEW x, NEW w, NEW y, TakeByte(x) = Ok(1, w), take[w] = Ok(v, y)
          PROVE  TakeOption(take, x) = Ok(<<v>>, y)
      BY <2>3, Results DEF TakeOption
    <2>4. TakeOption(take, s) = Ok(<<v>>, r)
      BY <1>2, <1>5, <2>1, <2>3
    <2>5. \A q \in Streams : TakeOption(take, s \o q) = Ok(<<v>>, r \o q)
      BY <1>2, <1>5, <2>1, <2>3
    <2> QED
      BY <2>2, <2>4, <2>5
  <1> QED
    BY <1>3, <1>4, <1>5

\* The tags of an enum are distinct bytes.
Tags(codes) ==
    /\ \A y \in DOMAIN codes : codes[y] \in Bytes
    /\ \A y, z \in DOMAIN codes : codes[y] = codes[z] => y = z

LEMMA TagWrites ==
  ASSUME NEW codes, Tags(codes), NEW y \in DOMAIN codes
  PROVE  /\ <<codes[y]>> \in Streams /\ <<codes[y]>> # <<>>
         /\ \A t \in Streams : TakeTag(codes, <<codes[y]>> \o t) = Ok(y, t)
  <1>1. codes[y] \in Bytes /\ \A z \in DOMAIN codes : codes[z] = codes[y] => z = y
    BY DEF Tags
  <1>2. ASSUME NEW t \in Streams PROVE TakeTag(codes, <<codes[y]>> \o t) = Ok(y, t)
    <2> DEFINE u == <<codes[y]>> \o t
    <2>1. TakeByte(u) = Ok(codes[y], t)
      BY <1>1, ByteReads, Zenon
    <2> HIDE DEF u
    <2>2. TakeByte(u).ok /\ TakeByte(u).val = codes[y] /\ TakeByte(u).rest = t
      BY <2>1, Results
    <2>3. (CHOOSE z \in DOMAIN codes : codes[z] = TakeByte(u).val) = y
      BY <1>1, <2>2
    <2>4. TakeTag(codes, u) = Ok(y, t)
      BY <2>2, <2>3, Zenon DEF TakeTag
    <2> QED
      BY <2>4 DEF u
  <1> QED
    BY <1>1, <1>2, ByteReads

LEMMA TagReads ==
  ASSUME NEW codes, Tags(codes), NEW s \in Streams, TakeTag(codes, s).ok
  PROVE  \E y \in DOMAIN codes, r \in Streams :
            /\ TakeTag(codes, s) = Ok(y, r)
            /\ \A q \in Streams : TakeTag(codes, s \o q) = Ok(y, r \o q)
  <1>1. TakeByte(s).ok /\ \E y \in DOMAIN codes : codes[y] = TakeByte(s).val
    BY Results DEF TakeTag
  <1>2. PICK a \in Bytes, r \in Streams :
           TakeByte(s) = Ok(a, r) /\ \A q \in Streams : TakeByte(s \o q) = Ok(a, r \o q)
    BY <1>1, ByteCodec DEF Codec, Reads
  <1>3. PICK y \in DOMAIN codes : codes[y] = a
    BY <1>1, <1>2, Results
  <1>4. ASSUME NEW x, NEW w \in Streams, TakeByte(x) = Ok(a, w)
        PROVE  TakeTag(codes, x) = Ok(y, w)
    <2>1. TakeByte(<<a>> \o w) = Ok(a, w)
      BY <1>2, ByteReads, Zenon
    <2>2. TakeTag(codes, x) = TakeTag(codes, <<a>> \o w)
      BY <1>4, <2>1, Zenon DEF TakeTag
    <2> QED
      BY <1>3, <2>2, TagWrites
  <1>5. TakeTag(codes, s) = Ok(y, r)
    BY <1>2, <1>4
  <1>6. \A q \in Streams : TakeTag(codes, s \o q) = Ok(y, r \o q)
    <2>1. \A q \in Streams : r \o q \in Streams
      BY Cat, Zenon
    <2> QED
      BY <1>2, <1>4, <2>1
  <1> QED
    BY <1>5, <1>6

-----------------------------------------------------------------------------
(* Lists.                                                                  *)

JoinOp(c, d, x, e) == x \o e
TakeOp(c, d, x, e) == TakeNext(c, x, e)

JF == INSTANCE FoldTheory WITH op <- JoinOp
TF == INSTANCE FoldTheory WITH op <- TakeOp

\* g[k] is what is left of the joined pieces behind the first k.
LeftOf(pieces, g) ==
    /\ g[0] = Joined(pieces)
    /\ g[Len(pieces)] = <<>>
    /\ \A k \in 0 .. Len(pieces) : g[k] \in Streams
    /\ \A k \in 1 .. Len(pieces) : g[k - 1] = pieces[k] \o g[k]

LEMMA Leftovers ==
  ASSUME NEW pieces \in Seq(Streams)
  PROVE  \E g : LeftOf(pieces, g)
  <1> DEFINE n == Len(pieces)
             J == Joined(pieces)
  <1>0. n \in Nat /\ <<>> \in Streams /\ \A k \in 1 .. n : pieces[k] \in Streams
    BY CatEmpty
  <1>1. J = JF!Fold(0, 0, <<>>, pieces)
    BY Zenon DEF Joined, JoinOp, JF!Fold, FoldLeft, MapThenFoldSet, Max,
                 JF!FoldLeft, JF!MapThenFoldSet, JF!Max
  <1>2. JF!Closed(0, 0, Streams, Streams)
    BY Cat, Zenon DEF JF!Closed, JoinOp
  <1>3. PICK f : JF!Run(0, 0, <<>>, pieces, f)
    BY <1>0, <1>2, JF!FoldLeftRuns, Zenon
  <1>4. /\ f[0] = <<>> /\ J = f[n]
        /\ \A k \in 1 .. n : f[k] = f[k - 1] \o pieces[k]
    BY <1>1, <1>3 DEF JF!Run, JoinOp
  <1> HIDE DEF J, n
  <1>5. \A k \in 0 .. n : f[k] \in Streams
    <2> DEFINE G == {k \in 0 .. n : f[k] \in Streams}
    <2>1. 0 \in G
      BY <1>0, <1>4
    <2>2. ASSUME NEW k \in 0 .. n - 1, k \in G PROVE k + 1 \in G
      <3>1. k + 1 \in 1 .. n /\ (k + 1) - 1 = k /\ k + 1 \in 0 .. n
        BY <1>0
      <3>2. f[k + 1] = f[k] \o pieces[k + 1]
        BY <1>4, <3>1
      <3>3. f[k] \in Streams /\ pieces[k + 1] \in Streams
        BY <1>0, <2>2, <3>1
      <3> QED
        BY <3>1, <3>2, <3>3, Cat
    <2> HIDE DEF G
    <2>3. \A k \in 0 .. n : k \in G
      BY <1>0, <2>1, <2>2, JF!CountUp, Zenon
    <2> QED
      BY <2>3 DEF G
  <1>6. \A k \in 0 .. n : \E r \in Streams : J = f[k] \o r
    <2> DEFINE G == {j \in 0 .. n : \E r \in Streams : J = f[n - j] \o r}
    <2>1. 0 \in G
      <3>1. n \in 0 .. n /\ 0 \in 0 .. n /\ n - 0 = n
        BY <1>0
      <3>2. J = f[n - 0] \o <<>>
        BY <1>4, <1>5, <3>1, Cat
      <3> QED
        BY <1>0, <3>1, <3>2
    <2>2. ASSUME NEW j \in 0 .. n - 1, j \in G PROVE j + 1 \in G
      <3> DEFINE k == n - j
      <3>1. k \in 1 .. n /\ k - 1 \in 0 .. n /\ n - (j + 1) = k - 1 /\ j + 1 \in 0 .. n
        BY <1>0
      <3>2. PICK r \in Streams : J = f[k] \o r
        BY <2>2
      <3>3. f[k] = f[k - 1] \o pieces[k] /\ f[k - 1] \in Streams /\ pieces[k] \in Streams
        BY <1>0, <1>4, <1>5, <3>1
      <3> HIDE DEF k
      <3>4. J = f[k - 1] \o (pieces[k] \o r) /\ pieces[k] \o r \in Streams
        <4>1. (f[k - 1] \o pieces[k]) \o r = f[k - 1] \o (pieces[k] \o r)
          BY <3>3, CatAssoc, Zenon
        <4> QED
          BY <3>2, <3>3, <4>1, Cat
      <3> QED
        BY <3>1, <3>4
    <2> HIDE DEF G
    <2>3. \A j \in 0 .. n : j \in G
      BY <1>0, <2>1, <2>2, JF!CountUp, Zenon
    <2>4. ASSUME NEW k \in 0 .. n PROVE \E r \in Streams : J = f[k] \o r
      <3>1. n - k \in 0 .. n /\ n - (n - k) = k
        BY <1>0
      <3> QED
        BY <2>3, <3>1 DEF G
    <2> QED
      BY <2>4
  <1> DEFINE g == [k \in 0 .. n |-> CHOOSE r \in Streams : J = f[k] \o r]
  <1>7. \A k \in 0 .. n : g[k] \in Streams /\ J = f[k] \o g[k]
    BY <1>6
  <1> HIDE DEF g
  <1>8. g[0] = J
    <2>1. 0 \in 0 .. n
      BY <1>0
    <2> QED
      BY <1>4, <1>7, <2>1, Cat
  <1>9. g[n] = <<>>
    <2>1. n \in 0 .. n
      BY <1>0
    <2>2. f[n] \o g[n] = f[n] \o <<>> /\ f[n] \in Streams /\ g[n] \in Streams
      BY <1>4, <1>5, <1>7, <2>1, Cat
    <2> QED
      BY <1>0, <2>2, CatCancel
  <1>10. ASSUME NEW k \in 1 .. n PROVE g[k - 1] = pieces[k] \o g[k]
    <2>1. k - 1 \in 0 .. n /\ k \in 0 .. n
      BY <1>0
    <2>2. /\ f[k - 1] \in Streams /\ pieces[k] \in Streams /\ g[k] \in Streams
          /\ g[k - 1] \in Streams
      BY <1>0, <1>5, <1>7, <2>1
    <2>3. f[k - 1] \o g[k - 1] = (f[k - 1] \o pieces[k]) \o g[k]
      BY <1>4, <1>7, <2>1
    <2>4. f[k - 1] \o g[k - 1] = f[k - 1] \o (pieces[k] \o g[k])
          /\ pieces[k] \o g[k] \in Streams
      BY <2>2, <2>3, CatAssoc, Cat
    <2> QED
      BY <2>2, <2>4, CatCancel, Zenon
  <1> QED
    BY <1>7, <1>8, <1>9, <1>10 DEF LeftOf, J, n

\* Every piece is some bytes and is read as its element of xs.
Pieces(take, xs, pieces) ==
    /\ pieces \in Seq(Streams) /\ Len(pieces) = Len(xs)
    /\ \A i \in 1 .. Len(xs) :
          pieces[i] # <<>> /\ \A t \in Streams : take[pieces[i] \o t] = Ok(xs[i], t)

\* The loop that reads n elements: f[k] is the list after k turns.
Loop(take, n, s, f) ==
    /\ f[0] = Ok(<<>>, s)
    /\ \A k \in 1 .. n : f[k] = TakeNext(take, f[k - 1], k)
    /\ TakeAll(take, n, s) = IF n > Len(s) THEN Fail ELSE f[n]

LEMMA Loops ==
  ASSUME NEW take, NEW V, Reader(take, V), NEW n \in Nat, NEW s \in Streams
  PROVE  \E f : Loop(take, n, s, f)
  <1> DEFINE X == {Fail} \cup {Ok(p[1], p[2]) : p \in Seq(V) \X Streams}
             turns == [i \in 1..n |-> i]
  <1>0. ASSUME NEW l \in Seq(V), NEW r \in Streams PROVE Ok(l, r) \in X
    <2> DEFINE p == <<l, r>>
    <2>1. p \in Seq(V) \X Streams /\ p[1] = l /\ p[2] = r
      OBVIOUS
    <2> HIDE DEF p
    <2> QED
      BY <2>1
  <1>1. TF!Closed(take, 0, X, 1 .. n)
    <2>1. ASSUME NEW x \in X, NEW e \in 1 .. n PROVE TakeNext(take, x, e) \in X
      <3>1. CASE x = Fail
        BY <3>1, Results DEF TakeNext
      <3>2. CASE x # Fail
        <4>1. PICK l \in Seq(V), r \in Streams : x = Ok(l, r)
          <5>1. PICK p \in Seq(V) \X Streams : x = Ok(p[1], p[2])
            BY <3>2
          <5>2. p[1] \in Seq(V) /\ p[2] \in Streams
            OBVIOUS
          <5> QED
            BY <5>1, <5>2
        <4>2. CASE ~take[r].ok
          BY <4>1, <4>2, Results DEF TakeNext
        <4>3. CASE take[r].ok
          <5>1. PICK v \in V, u \in Streams : take[r] = Ok(v, u)
            BY <4>3 DEF Reader
          <5>2. TakeNext(take, x, e) = Ok(Append(l, v), u)
            BY <4>1, <5>1, Results DEF TakeNext
          <5>3. Append(l, v) \in Seq(V)
            OBVIOUS
          <5> QED
            BY <1>0, <5>2, <5>3
        <4> QED
          BY <4>2, <4>3
      <3> QED
        BY <3>1, <3>2
    <2> HIDE DEF X
    <2> QED
      BY <2>1 DEF TF!Closed, TakeOp
  <1>2. Ok(<<>>, s) \in X
    <2>1. <<>> \in Seq(V)
      OBVIOUS
    <2> QED
      BY <1>0, <2>1
  <1>3. turns \in Seq(1 .. n) /\ Len(turns) = n /\ \A k \in 1 .. n : turns[k] = k
    OBVIOUS
  <1> HIDE DEF X, turns
  <1>4. PICK f : TF!Run(take, 0, Ok(<<>>, s), turns, f)
    BY <1>1, <1>2, <1>3, TF!FoldLeftRuns, Zenon
  <1>5. TakeAll(take, n, s) = IF n > Len(s) THEN Fail ELSE TF!Fold(take, 0, Ok(<<>>, s), turns)
    BY Zenon DEF turns, TakeAll, TakeOp, TF!Fold, FoldLeft, MapThenFoldSet, Max,
                 TF!FoldLeft, TF!MapThenFoldSet, TF!Max
  <1>6. Loop(take, n, s, f)
    BY <1>3, <1>4, <1>5 DEF Loop, TF!Run, TakeOp
  <1> QED
    BY <1>6

\* What is read of a list that was written: the first k elements.
LEMMA AllWrites ==
  ASSUME NEW take, NEW V, Reader(take, V), NEW xs \in Seq(V), NEW pieces,
         Pieces(take, xs, pieces), NEW g, LeftOf(pieces, g),
         NEW k \in 0 .. Len(xs), NEW t \in Streams
  PROVE  TakeAll(take, k, Joined(pieces) \o t) = Ok(SubSeq(xs, 1, k), g[k] \o t)
  <1> DEFINE n == Len(xs)
             s == Joined(pieces) \o t
  <1>0. n \in Nat /\ n = Len(pieces) /\ k \in Nat /\ pieces \in Seq(Streams)
    BY DEF Pieces
  <1>1. /\ g[0] = Joined(pieces)
        /\ \A j \in 0 .. n : g[j] \in Streams
        /\ \A j \in 1 .. n : g[j - 1] = pieces[j] \o g[j]
    BY <1>0 DEF LeftOf
  <1>2. \A j \in 1 .. n : pieces[j] \in Streams /\ pieces[j] # <<>>
    BY <1>0 DEF Pieces
  <1>3. s \in Streams /\ Joined(pieces) \in Streams
    <2>1. 0 \in 0 .. n
      BY <1>0
    <2> QED
      BY <1>1, <2>1, Cat
  <1>4. PICK f : Loop(take, k, s, f)
    BY <1>0, <1>3, Loops
  <1> HIDE DEF s, n
  <1>5. \A j \in 0 .. n : Len(g[0]) >= Len(g[j]) + j
    <2> DEFINE G == {j \in 0 .. n : Len(g[0]) >= Len(g[j]) + j}
    <2>0. 0 \in 0 .. n
      BY <1>0
    <2>1. 0 \in G
      BY <1>1, <2>0, Cat
    <2>2. ASSUME NEW j \in 0 .. n - 1, j \in G PROVE j + 1 \in G
      <3>1. j + 1 \in 1 .. n /\ j + 1 \in 0 .. n /\ (j + 1) - 1 = j /\ j \in 0 .. n /\ j \in Nat
        BY <1>0
      <3>2. g[j] = pieces[j + 1] \o g[j + 1]
        BY <1>1, <3>1
      <3>3. /\ g[j + 1] \in Streams /\ pieces[j + 1] \in Streams /\ pieces[j + 1] # <<>>
            /\ g[j] \in Streams /\ g[0] \in Streams
        BY <1>1, <1>2, <3>1, <2>0
      <3>4. Len(g[j]) = Len(pieces[j + 1]) + Len(g[j + 1])
        BY <3>2, <3>3, Cat
      <3>5. /\ Len(pieces[j + 1]) \in Nat /\ Len(pieces[j + 1]) # 0 /\ Len(g[j + 1]) \in Nat
            /\ Len(g[j]) \in Nat /\ Len(g[0]) \in Nat
        BY <3>3, Cat, CatEmpty
      <3>6. Len(g[0]) >= Len(g[j]) + j
        BY <2>2
      <3>7. Len(g[0]) >= Len(g[j + 1]) + (j + 1)
        <4>1. ASSUME NEW x \in Nat, NEW y \in Nat, NEW z \in Nat, NEW w \in Nat,
                     x # 0, z = x + y, w >= z + j
              PROVE  w >= y + (j + 1)
          BY <3>1, <4>1
        <4> QED
          BY <3>4, <3>5, <3>6, <4>1
      <3> QED
        BY <3>1, <3>7
    <2> HIDE DEF G
    <2>3. \A j \in 0 .. n : j \in G
      BY <1>0, <2>1, <2>2, JF!CountUp, Zenon
    <2> QED
      BY <2>3 DEF G
  <1>6. ~(k > Len(s))
    <2>1. k \in 0 .. n /\ 0 \in 0 .. n
      BY <1>0 DEF n
    <2>2. Len(s) = Len(g[0]) + Len(t)
      BY <1>1, <1>3, Cat DEF s
    <2>3. Len(g[0]) \in Nat /\ Len(t) \in Nat /\ Len(g[k]) \in Nat
      BY <1>1, <2>1, Cat
    <2>4. Len(g[0]) >= Len(g[k]) + k
      BY <1>5, <2>1
    <2> QED
      BY <1>0, <2>2, <2>3, <2>4
  <1>7. /\ f[0] = Ok(<<>>, s)
        /\ \A j \in 1 .. k : f[j] = TakeNext(take, f[j - 1], j)
        /\ TakeAll(take, k, s) = f[k]
    BY <1>4, <1>6 DEF Loop
  <1>8. \A j \in 0 .. k : f[j] = Ok(SubSeq(xs, 1, j), g[j] \o t)
    <2> DEFINE G == {j \in 0 .. k : f[j] = Ok(SubSeq(xs, 1, j), g[j] \o t)}
    <2>1. 0 \in G
      <3>1. SubSeq(xs, 1, 0) = <<>>
        BY SubSeqEmpty
      <3>2. s = g[0] \o t
        BY <1>1 DEF s
      <3>3. 0 \in 0 .. k
        BY <1>0
      <3> QED
        BY <1>7, <3>1, <3>2, <3>3
    <2>2. ASSUME NEW j \in 0 .. k - 1, j \in G PROVE j + 1 \in G
      <3>1. j + 1 \in 1 .. k /\ j + 1 \in 0 .. k /\ (j + 1) - 1 = j
        BY <1>0
      <3>2. j + 1 \in 1 .. n /\ j + 1 \in 0 .. n /\ j \in 0 .. n
        BY <1>0 DEF n
      <3>3. g[j] = pieces[j + 1] \o g[j + 1] /\ g[j + 1] \in Streams
            /\ pieces[j + 1] \in Streams
        BY <1>1, <1>2, <3>1, <3>2
      <3>4. g[j] \o t = pieces[j + 1] \o (g[j + 1] \o t) /\ g[j + 1] \o t \in Streams
        <4>1. (pieces[j + 1] \o g[j + 1]) \o t = pieces[j + 1] \o (g[j + 1] \o t)
          BY <3>3, CatAssoc, Zenon
        <4> QED
          BY <3>3, <4>1, Cat, Zenon
      <3>5. take[g[j] \o t] = Ok(xs[j + 1], g[j + 1] \o t)
        BY <3>2, <3>4 DEF Pieces, n
      <3>6. f[j] = Ok(SubSeq(xs, 1, j), g[j] \o t)
        BY <2>2
      <3>7. f[j + 1] = TakeNext(take, f[j], j + 1)
        BY <1>7, <3>1
      <3>8. f[j + 1] = Ok(Append(SubSeq(xs, 1, j), xs[j + 1]), g[j + 1] \o t)
        BY <3>5, <3>6, <3>7, Results DEF TakeNext
      <3>9. Append(SubSeq(xs, 1, j), xs[j + 1]) = SubSeq(xs, 1, j + 1)
        BY <3>2 DEF n
      <3> QED
        BY <3>1, <3>8, <3>9
    <2> HIDE DEF G
    <2>3. \A j \in 0 .. k : j \in G
      BY <1>0, <2>1, <2>2, JF!CountUp, Zenon
    <2> QED
      BY <2>3 DEF G
  <1>9. k \in 0 .. k
    BY <1>0
  <1> QED
    BY <1>7, <1>8, <1>9 DEF s

LEMMA AllReads ==
  ASSUME NEW take, NEW V, Reader(take, V), NEW n \in Nat, NEW s \in Streams,
         TakeAll(take, n, s).ok
  PROVE  \E l \in Seq(V), r \in Streams :
            /\ Len(l) = n /\ TakeAll(take, n, s) = Ok(l, r)
            /\ \A q \in Streams : TakeAll(take, n, s \o q) = Ok(l, r \o q)
  <1>1. PICK f : Loop(take, n, s, f)
    BY Loops
  <1>2. ~(n > Len(s)) /\ TakeAll(take, n, s) = f[n] /\ f[n].ok
    BY <1>1, Results DEF Loop
  <1>3. f[0] = Ok(<<>>, s) /\ \A k \in 1 .. n : f[k] = TakeNext(take, f[k - 1], k)
    BY <1>1 DEF Loop
  <1>4. \A k \in 0 .. n : f[k].ok => \E l \in Seq(V), r \in Streams : f[k] = Ok(l, r)
        /\ Len(l) = k
    <2> DEFINE G == {k \in 0 .. n :
                       f[k].ok => \E l \in Seq(V), r \in Streams : f[k] = Ok(l, r)
                             /\ Len(l) = k}
    <2>1. 0 \in G
      <3>1. <<>> \in Seq(V) /\ Len(<<>>) = 0 /\ 0 \in 0 .. n
        OBVIOUS
      <3> QED
        BY <1>3, <3>1
    <2>2. ASSUME NEW k \in 0 .. n - 1, k \in G PROVE k + 1 \in G
      <3>1. k + 1 \in 1 .. n /\ k + 1 \in 0 .. n /\ (k + 1) - 1 = k
        OBVIOUS
      <3>2. f[k + 1] = TakeNext(take, f[k], k + 1)
        BY <1>3, <3>1
      <3>3. ASSUME f[k + 1].ok
            PROVE  \E l \in Seq(V), r \in Streams : f[k + 1] = Ok(l, r) /\ Len(l) = k + 1
        <4>1. f[k].ok /\ take[f[k].rest].ok
          BY <3>2, <3>3, Results DEF TakeNext
        <4>2. PICK l \in Seq(V), r \in Streams : f[k] = Ok(l, r) /\ Len(l) = k
          BY <2>2, <4>1
        <4>3. take[r].ok
          BY <4>1, <4>2, Results
        <4>4. PICK v \in V, u \in Streams : take[r] = Ok(v, u)
          BY <4>3 DEF Reader
        <4>5. f[k + 1] = Ok(Append(l, v), u)
          BY <3>2, <4>2, <4>4, Results DEF TakeNext
        <4>6. Append(l, v) \in Seq(V) /\ Len(Append(l, v)) = k + 1
          BY <4>2
        <4> QED
          BY <4>5, <4>6
      <3> QED
        BY <3>1, <3>3
    <2> HIDE DEF G
    <2>3. \A k \in 0 .. n : k \in G
      BY <2>1, <2>2, JF!CountUp, Zenon
    <2> QED
      BY <2>3 DEF G
  <1>5. PICK l \in Seq(V), r \in Streams : f[n] = Ok(l, r) /\ Len(l) = n
    BY <1>2, <1>4
  <1>6. ASSUME NEW q \in Streams
        PROVE  TakeAll(take, n, s \o q) = Ok(l, r \o q)
    <2>0. s \o q \in Streams
      BY Cat
    <2>1. PICK h : Loop(take, n, s \o q, h)
      BY <2>0, Loops
    <2>2. ~(n > Len(s \o q))
      <3>1. Len(s \o q) = Len(s) + Len(q) /\ Len(s) \in Nat /\ Len(q) \in Nat
        BY Cat
      <3> QED
        BY <1>2, <3>1
    <2>3. /\ h[0] = Ok(<<>>, s \o q) /\ \A k \in 1 .. n : h[k] = TakeNext(take, h[k - 1], k)
          /\ TakeAll(take, n, s \o q) = h[n]
      BY <2>1, <2>2 DEF Loop
    <2>4. \A k \in 0 .. n : f[k].ok => h[k] = Ok(f[k].val, f[k].rest \o q)
      <3> DEFINE G == {k \in 0 .. n : f[k].ok => h[k] = Ok(f[k].val, f[k].rest \o q)}
      <3>1. 0 \in G
        BY <1>3, <2>3, Results
      <3>2. ASSUME NEW k \in 0 .. n - 1, k \in G PROVE k + 1 \in G
        <4>1. k + 1 \in 1 .. n /\ k + 1 \in 0 .. n /\ (k + 1) - 1 = k
          OBVIOUS
        <4>2. f[k + 1] = TakeNext(take, f[k], k + 1) /\ h[k + 1] = TakeNext(take, h[k], k + 1)
          BY <1>3, <2>3, <4>1
        <4>3. ASSUME f[k + 1].ok
              PROVE  h[k + 1] = Ok(f[k + 1].val, f[k + 1].rest \o q)
          <5>1. f[k].ok /\ take[f[k].rest].ok
            BY <4>2, <4>3, Results DEF TakeNext
          <5>2. PICK l1 \in Seq(V), r1 \in Streams : f[k] = Ok(l1, r1)
            BY <1>4, <5>1
          <5>3. take[r1].ok
            BY <5>1, <5>2, Results
          <5>4. PICK v \in V, u \in Streams :
                   take[r1] = Ok(v, u) /\ take[r1 \o q] = Ok(v, u \o q)
            BY <5>3 DEF Reader
          <5>5. f[k + 1] = Ok(Append(l1, v), u)
            BY <4>2, <5>2, <5>4, Results DEF TakeNext
          <5>6. h[k] = Ok(l1, r1 \o q)
            BY <3>2, <5>1, <5>2, Results
          <5>7. h[k + 1] = Ok(Append(l1, v), u \o q)
            BY <4>2, <5>4, <5>6, Results DEF TakeNext
          <5> QED
            BY <5>5, <5>7, Results
        <4> QED
          BY <4>1, <4>3
      <3> HIDE DEF G
      <3>3. \A k \in 0 .. n : k \in G
        BY <3>1, <3>2, JF!CountUp, Zenon
      <3> QED
        BY <3>3 DEF G
    <2>5. h[n] = Ok(l, r \o q)
      BY <1>2, <1>5, <2>4, Results
    <2> QED
      BY <2>3, <2>5
  <1> QED
    BY <1>2, <1>5, <1>6

-----------------------------------------------------------------------------
(* Counted lists.                                                          *)

CountWidth(width) == width \in {BYTE, INT}

LEMMA CountWrites ==
  ASSUME NEW width, CountWidth(width), NEW n \in Nat
  PROVE  /\ PutCount(width, n) \in Streams /\ PutCount(width, n) # <<>>
         /\ \A t \in Streams : TakeCount(width, PutCount(width, n) \o t) = Ok(n % width, t)
  <1>1. CASE width = BYTE
    <2>1. n % BYTE \in Bytes
      BY WidthAssumption DEF Bytes
    <2>2. PutCount(width, n) = <<n % BYTE>> /\ \A s : TakeCount(width, s) = TakeByte(s)
      BY <1>1 DEF PutCount, TakeCount
    <2> QED
      BY <1>1, <2>1, <2>2, ByteReads, Zenon
  <1>2. CASE width = INT /\ INT # BYTE
    <2>1. PutCount(width, n) = PushInt(n) /\ \A s : TakeCount(width, s) = TakeInt(s)
      BY <1>2 DEF PutCount, TakeCount
    <2>2. \A t \in Streams : TakeInt(PushInt(n) \o t) = Ok(n % INT, t)
      BY IntBytes, IntReads
    <2> QED
      BY <1>2, <2>1, <2>2, IntBytes
  <1> QED
    BY <1>1, <1>2 DEF CountWidth

LEMMA CountReads ==
  ASSUME NEW width, CountWidth(width), NEW s \in Streams, TakeCount(width, s).ok
  PROVE  \E n \in Nat, r \in Streams :
            /\ n < width /\ TakeCount(width, s) = Ok(n, r)
            /\ \A q \in Streams : TakeCount(width, s \o q) = Ok(n, r \o q)
  <1>1. CASE width = BYTE
    <2>1. \A u : TakeCount(width, u) = TakeByte(u)
      BY <1>1 DEF TakeCount
    <2>2. \A n \in Bytes : n \in Nat /\ n < width
      BY <1>1, Widths DEF Bytes
    <2>3. TakeByte(s).ok
      BY <2>1
    <2>4. PICK n \in Bytes, r \in Streams :
             TakeByte(s) = Ok(n, r) /\ \A q \in Streams : TakeByte(s \o q) = Ok(n, r \o q)
      BY <2>3, ByteCodec DEF Codec, Reads
    <2> QED
      BY <2>1, <2>2, <2>4
  <1>2. CASE width = INT /\ INT # BYTE
    <2>1. \A u : TakeCount(width, u) = TakeInt(u)
      BY <1>2 DEF TakeCount
    <2>2. \A n \in Ints : n \in Nat /\ n < width
      BY <1>2, Widths DEF Ints
    <2>3. TakeInt(s).ok
      BY <2>1
    <2>4. PICK n \in Ints, r \in Streams :
             TakeInt(s) = Ok(n, r) /\ \A q \in Streams : TakeInt(s \o q) = Ok(n, r \o q)
      BY <2>3, IntCodec DEF Codec, Reads
    <2> QED
      BY <2>1, <2>2, <2>4
  <1> QED
    BY <1>1, <1>2 DEF CountWidth

\* What is written of a list is read again up to the count, cut to its width;
\* nothing is left of it if the count fits.
LEMMA ListWrites ==
  ASSUME NEW take, NEW V, Reader(take, V), NEW xs \in Seq(V), NEW pieces,
         Pieces(take, xs, pieces), NEW width, CountWidth(width)
  PROVE  /\ PutList(width, pieces) \in Streams /\ PutList(width, pieces) # <<>>
         /\ \E rest \in Streams :
               /\ rest = <<>> <=> Len(xs) < width
               /\ \A t \in Streams :
                     TakeList(width, take, PutList(width, pieces) \o t)
                        = Ok(SubSeq(xs, 1, Len(xs) % width), rest \o t)
  <1> DEFINE n == Len(xs)
             k == n % width
             c == PutCount(width, n)
             J == Joined(pieces)
  <1>0. n \in Nat /\ Len(pieces) = n /\ pieces \in Seq(Streams)
    BY DEF Pieces
  <1>1. width \in Nat /\ width > 0
    BY Widths DEF CountWidth
  <1>2. k \in 0 .. n /\ (n < width <=> k = n)
    <2>1. k \in 0 .. width - 1
      BY <1>0, <1>1
    <2>2. n < width => k = n
      BY <1>0, <1>1
    <2> HIDE DEF k, n
    <2> QED
      BY <1>0, <1>1, <2>1, <2>2
  <1>3. PICK g : LeftOf(pieces, g)
    BY <1>0, Leftovers
  <1>4. /\ J = g[0] /\ g[n] = <<>>
        /\ \A j \in 0 .. n : g[j] \in Streams
        /\ \A j \in 1 .. n : g[j - 1] = pieces[j] \o g[j]
    BY <1>0, <1>3 DEF LeftOf
  <1>5. /\ c \in Streams /\ c # <<>>
        /\ \A t \in Streams : TakeCount(width, c \o t) = Ok(k, t)
    BY <1>0, CountWrites
  <1>6. PutList(width, pieces) = c \o J
    BY <1>0 DEF PutList
  <1>7. J \in Streams
    <2>1. 0 \in 0 .. n
      BY <1>0
    <2> QED
      BY <1>4, <2>1
  <1> HIDE DEF c, J
  <1>8. PutList(width, pieces) \in Streams /\ PutList(width, pieces) # <<>>
    BY <1>5, <1>6, <1>7, Cat, CatEmpty
  <1>9. ASSUME NEW t \in Streams
        PROVE  TakeList(width, take, PutList(width, pieces) \o t)
              = Ok(SubSeq(xs, 1, k), g[k] \o t)
    <2> DEFINE u == J \o t
               s == c \o u
    <2>1. u \in Streams
      BY <1>7, Cat
    <2>2. PutList(width, pieces) \o t = s
      <3>1. (c \o J) \o t = c \o (J \o t)
        BY <1>5, <1>7, CatAssoc, Zenon
      <3> QED
        BY <1>6, <3>1, Zenon
    <2>3. TakeCount(width, s) = Ok(k, u)
      BY <1>5, <2>1, Zenon
    <2>4. TakeAll(take, k, u) = Ok(SubSeq(xs, 1, k), g[k] \o t)
      <3> HIDE DEF k
      <3> QED
        BY <1>2, <1>3, AllWrites DEF J
    <2> HIDE DEF u, s, k
    <2>5. TakeList(width, take, s) = TakeAll(take, k, u)
      BY <2>3, Results DEF TakeList
    <2> QED
      BY <2>2, <2>4, <2>5
  <1> HIDE DEF k, n
  <1>10. g[k] \in Streams /\ (g[k] = <<>> <=> n < width)
    <2>1. CASE k = n
      BY <1>0, <1>2, <1>4, <2>1
    <2>2. CASE k # n
      <3>1. k + 1 \in 1 .. n /\ k + 1 \in 0 .. n /\ (k + 1) - 1 = k
        BY <1>0, <1>2, <2>2
      <3>2. pieces[k + 1] \in Streams /\ pieces[k + 1] # <<>>
        BY <1>0, <3>1 DEF Pieces, n
      <3>3. g[k] = pieces[k + 1] \o g[k + 1] /\ g[k + 1] \in Streams /\ g[k] \in Streams
        BY <1>2, <1>4, <3>1
      <3>4. g[k] # <<>>
        BY <3>2, <3>3, CatEmpty
      <3> QED
        BY <1>2, <2>2, <3>3, <3>4
    <2> QED
      BY <2>1, <2>2
  <1> QED
    BY <1>8, <1>9, <1>10 DEF k, n

LEMMA FittingListWrites ==
  ASSUME NEW take, NEW V, Reader(take, V), NEW width, CountWidth(width),
         NEW xs \in List(V, width), NEW pieces, Pieces(take, xs, pieces)
  PROVE  /\ PutList(width, pieces) \in Streams /\ PutList(width, pieces) # <<>>
         /\ \A t \in Streams : TakeList(width, take, PutList(width, pieces) \o t) = Ok(xs, t)
  <1>1. xs \in Seq(V) /\ Len(xs) \in Nat /\ Len(xs) < width /\ width \in Nat
    BY Widths DEF List, CountWidth
  <1>2. PICK rest \in Streams :
           /\ rest = <<>> <=> Len(xs) < width
           /\ \A t \in Streams :
                 TakeList(width, take, PutList(width, pieces) \o t)
                    = Ok(SubSeq(xs, 1, Len(xs) % width), rest \o t)
    BY <1>1, ListWrites
  <1>3. Len(xs) % width = Len(xs)
    BY <1>1
  <1>4. SubSeq(xs, 1, Len(xs)) = xs
    BY <1>1, SubSeqFull
  <1>5. \A t \in Streams : rest \o t = t
    BY <1>1, <1>2, Cat
  <1>6. PutList(width, pieces) \in Streams /\ PutList(width, pieces) # <<>>
    BY <1>1, ListWrites
  <1> QED
    BY <1>2, <1>3, <1>4, <1>5, <1>6

LEMMA ListReads ==
  ASSUME NEW take, NEW V, Reader(take, V), NEW width, CountWidth(width),
         NEW s \in Streams, TakeList(width, take, s).ok
  PROVE  \E l \in List(V, width), r \in Streams :
            /\ TakeList(width, take, s) = Ok(l, r)
            /\ \A q \in Streams : TakeList(width, take, s \o q) = Ok(l, r \o q)
  <1>1. TakeCount(width, s).ok
    BY Results DEF TakeList
  <1>2. PICK n \in Nat, u \in Streams :
           /\ n < width /\ TakeCount(width, s) = Ok(n, u)
           /\ \A q \in Streams : TakeCount(width, s \o q) = Ok(n, u \o q)
    BY <1>1, CountReads
  <1>3. ASSUME NEW x, NEW w, TakeCount(width, x) = Ok(n, w)
        PROVE  TakeList(width, take, x) = TakeAll(take, n, w)
    BY <1>3, Results DEF TakeList
  <1>4. TakeList(width, take, s) = TakeAll(take, n, u)
    BY <1>2, <1>3
  <1>5. PICK l \in Seq(V), r \in Streams :
           /\ Len(l) = n /\ TakeAll(take, n, u) = Ok(l, r)
           /\ \A q \in Streams : TakeAll(take, n, u \o q) = Ok(l, r \o q)
    BY <1>4, AllReads
  <1>6. l \in List(V, width)
    BY <1>2, <1>5 DEF List
  <1>7. \A q \in Streams : TakeList(width, take, s \o q) = Ok(l, r \o q)
    BY <1>2, <1>3, <1>5
  <1> QED
    BY <1>4, <1>5, <1>6, <1>7

\* Joined pieces, without a count, are told apart by their bytes.
LEMMA JoinedTellsApart ==
  ASSUME NEW take, NEW V, Reader(take, V), NEW xs \in Seq(V), NEW ys \in Seq(V),
         NEW ps, NEW qs, Pieces(take, xs, ps), Pieces(take, ys, qs),
         Joined(ps) = Joined(qs), Len(xs) <= Len(ys)
  PROVE  xs = ys
  <1> DEFINE n == Len(xs)
             m == Len(ys)
  <1>0. /\ n \in Nat /\ m \in Nat /\ n <= m /\ n \in 0 .. n /\ n \in 0 .. m
        /\ ps \in Seq(Streams) /\ qs \in Seq(Streams) /\ Len(ps) = n /\ Len(qs) = m
    BY DEF Pieces
  <1>1. PICK g : LeftOf(ps, g)
    BY <1>0, Leftovers
  <1>2. PICK h : LeftOf(qs, h)
    BY <1>0, Leftovers
  <1>3. <<>> \in Streams /\ g[n] = <<>> /\ h[n] \in Streams
    BY <1>0, <1>1, <1>2, CatEmpty DEF LeftOf
  <1>4. TakeAll(take, n, Joined(ps) \o <<>>) = Ok(SubSeq(xs, 1, n), <<>>)
    <2>1. ASSUME NEW t \in Streams
          PROVE  TakeAll(take, n, Joined(ps) \o t) = Ok(SubSeq(xs, 1, n), g[n] \o t)
      <3>1. n \in 0 .. Len(xs)
        BY <1>0
      <3> HIDE DEF n
      <3> QED
        BY <3>1, <1>1, AllWrites
    <2>2. g[n] \o <<>> = <<>>
      BY <1>3, Cat, Zenon
    <2> QED
      BY <1>3, <2>1, <2>2, Zenon
  <1>a. TakeAll(take, n, Joined(qs) \o <<>>) = Ok(SubSeq(ys, 1, n), h[n])
    <2>1. ASSUME NEW t \in Streams
          PROVE  TakeAll(take, n, Joined(qs) \o t) = Ok(SubSeq(ys, 1, n), h[n] \o t)
      <3> HIDE DEF n
      <3> QED
        BY <1>0, <1>2, AllWrites DEF m
    <2>2. h[n] \o <<>> = h[n]
      BY <1>3, Cat, Zenon
    <2> QED
      BY <1>3, <2>1, <2>2, Zenon
  <1>5. SubSeq(xs, 1, n) = SubSeq(ys, 1, n) /\ h[n] = <<>>
    <2>1. Ok(SubSeq(xs, 1, n), <<>>) = Ok(SubSeq(ys, 1, n), h[n])
      BY <1>4, <1>a, Zenon
    <2>2. /\ Ok(SubSeq(xs, 1, n), <<>>).val = SubSeq(xs, 1, n)
          /\ Ok(SubSeq(xs, 1, n), <<>>).rest = <<>>
          /\ Ok(SubSeq(ys, 1, n), h[n]).val = SubSeq(ys, 1, n)
          /\ Ok(SubSeq(ys, 1, n), h[n]).rest = h[n]
      BY Results, Zenon
    <2> QED
      BY <2>1, <2>2, Zenon
  <1>6. n = m
    <2> SUFFICES ASSUME n # m PROVE FALSE
      OBVIOUS
    <2>1. n + 1 \in 1 .. m /\ n + 1 \in 0 .. m /\ (n + 1) - 1 = n
      BY <1>0
    <2>2. qs[n + 1] \in Streams /\ qs[n + 1] # <<>>
      BY <1>0, <2>1 DEF Pieces
    <2>3. h[n] = qs[n + 1] \o h[n + 1] /\ h[n + 1] \in Streams
      BY <1>0, <1>2, <2>1 DEF LeftOf
    <2> QED
      BY <1>5, <2>2, <2>3, CatEmpty
  <1>7. SubSeq(xs, 1, n) = xs /\ SubSeq(ys, 1, m) = ys
    BY SubSeqFull
  <1> QED
    BY <1>5, <1>6, <1>7

-----------------------------------------------------------------------------
(* Structs: the parts are written one behind the other and read in the     *)
(* same order.                                                             *)

LEMMA CatBehind ==
  \A p, s \in Streams : p \o s \in Streams /\ (p # <<>> => p \o s # <<>>)
  BY Cat, CatEmpty

LEMMA FlagCodec == Codec(PutFlag, TakeFlag, BOOLEAN)
  <1>1. ASSUME NEW s, NEW b, NEW r, TakeByte(s) = Ok(b, r)
        PROVE  TakeFlag(s) = Ok(b # 0, r)
    BY <1>1, Results DEF TakeFlag
  <1>2. ASSUME NEW v \in BOOLEAN
        PROVE  /\ PutFlag(v) \in Streams /\ PutFlag(v) # <<>>
               /\ \A t \in Streams : TakeFlag(PutFlag(v) \o t) = Ok(v, t)
    <2>0. 0 \in Bytes /\ 1 \in Bytes
      BY Widths DEF Bytes
    <2>1. CASE v = TRUE
      <3>1. PutFlag(v) = <<1>> /\ (1 # 0) = v
        <4>1. (1 # 0) = TRUE
          OBVIOUS
        <4>2. PutFlag(TRUE) = <<1>>
          BY DEF PutFlag
        <4> QED
          BY <2>1, <4>1, <4>2, Zenon
      <3>2. \A t \in Streams : TakeFlag(<<1>> \o t) = Ok(1 # 0, t)
        BY <1>1, <2>0, ByteReads
      <3> QED
        BY <2>0, <3>1, <3>2, ByteReads, Zenon
    <2>2. CASE v = FALSE
      <3>1. PutFlag(v) = <<0>> /\ (0 # 0) = v
        BY <2>2 DEF PutFlag
      <3>2. \A t \in Streams : TakeFlag(<<0>> \o t) = Ok(0 # 0, t)
        BY <1>1, <2>0, ByteReads
      <3> QED
        BY <2>0, <3>1, <3>2, ByteReads, Zenon
    <2> QED
      BY <2>1, <2>2
  <1>3. ASSUME NEW s \in Streams, TakeFlag(s).ok
        PROVE  \E v \in BOOLEAN, r \in Streams :
                  TakeFlag(s) = Ok(v, r) /\ \A q \in Streams : TakeFlag(s \o q) = Ok(v, r \o q)
    <2>1. TakeByte(s).ok
      BY <1>3, Results DEF TakeFlag
    <2>2. PICK b \in Bytes, r \in Streams :
             TakeByte(s) = Ok(b, r) /\ \A q \in Streams : TakeByte(s \o q) = Ok(b, r \o q)
      BY <2>1, ByteCodec DEF Codec, Reads
    <2> DEFINE v == (b # 0)
    <2>3. v \in BOOLEAN
      OBVIOUS
    <2>4. TakeFlag(s) = Ok(v, r) /\ \A q \in Streams : TakeFlag(s \o q) = Ok(v, r \o q)
      BY <1>1, <2>2
    <2> HIDE DEF v
    <2> QED
      BY <2>3, <2>4
  <1> QED
    BY <1>2, <1>3 DEF Codec, Writes, Reads

LEMMA SigPairCodec == Codec(push_sig_pair, take_sig_pair, SigPair)
  <1>1. ASSUME NEW s, NEW a1, NEW r1, NEW a2, NEW r2,
               TakeByte(s) = Ok(a1, r1),
               TakeByte(r1) = Ok(a2, r2)
        PROVE  take_sig_pair(s) = Ok([pub_key |-> a1, signature |-> a2], r2)
    BY <1>1, Results DEF take_sig_pair
  <1>2. ASSUME NEW v \in SigPair
        PROVE  /\ push_sig_pair(v) \in Streams /\ push_sig_pair(v) # <<>>
               /\ \A t \in Streams : take_sig_pair(push_sig_pair(v) \o t) = Ok(v, t)
    <2> DEFINE p1 == PutByte(v.pub_key)
               p2 == PutByte(v.signature)
    <2>1. /\ v.pub_key \in Bytes /\ v.signature \in Bytes
          /\ v = [pub_key |-> v.pub_key, signature |-> v.signature]
      BY DEF SigPair
    <2>p1. p1 \in Streams /\ p1 # <<>>
          /\ \A t \in Streams : TakeByte(p1 \o t) = Ok(v.pub_key, t)
      BY <2>1, ByteCodec DEF Codec, Writes
    <2>p2. p2 \in Streams /\ p2 # <<>>
          /\ \A t \in Streams : TakeByte(p2 \o t) = Ok(v.signature, t)
      BY <2>1, ByteCodec DEF Codec, Writes
    <2> DEFINE w1 == p1
               w2 == w1 \o p2
    <2>2. push_sig_pair(v) = w2
      BY Zenon DEF push_sig_pair, PutByte
    <2> HIDE DEF p1, p2
    <2>w2. w2 \in Streams /\ w2 # <<>>
      BY <2>p2, <2>p1, CatBehind, Zenon
    <2>4. ASSUME NEW t \in Streams PROVE take_sig_pair(push_sig_pair(v) \o t) = Ok(v, t)
      <3> DEFINE u2 == t
                 u1 == p2 \o u2
                 u0 == p1 \o u1
      <3>s1. u1 \in Streams
        BY <2>p2, Cat, Zenon
      <3>e2. w2 \o u2 = w1 \o u1
        BY <2>p1, <2>p2, CatAssoc, Zenon
      <3>1. push_sig_pair(v) \o t = u0
        <4>1. w1 \o u1 = u0
          OBVIOUS
        <4> HIDE DEF w1, w2, u0, u1
        <4> QED
          BY <2>2, <4>1, <3>e2, Zenon
      <3>2. TakeByte(u0) = Ok(v.pub_key, u1) /\ TakeByte(u1) = Ok(v.signature, u2)
        BY <2>p1, <2>p2, <3>s1, Zenon
      <3> HIDE DEF u0, u1
      <3>3. take_sig_pair(u0) = Ok([pub_key |-> v.pub_key, signature |-> v.signature], t)
        BY <1>1, <2>1, <3>2
      <3> QED
        BY <2>1, <3>1, <3>3, Zenon
    <2> QED
      BY <2>2, <2>w2, <2>4, Zenon
  <1>3. ASSUME NEW s \in Streams, take_sig_pair(s).ok
        PROVE  \E v \in SigPair, r \in Streams :
                  take_sig_pair(s) = Ok(v, r)
                        /\ \A q \in Streams : take_sig_pair(s \o q) = Ok(v, r \o q)
    <2> DEFINE f1 == TakeByte(s)
               f2 == TakeByte(f1.rest)
    <2>1. f1.ok /\ f2.ok
      BY <1>3, Results DEF take_sig_pair
    <2>a1. PICK a1 \in Bytes, r1 \in Streams :
              TakeByte(s) = Ok(a1, r1) /\ \A q \in Streams : TakeByte(s \o q) = Ok(a1, r1 \o q)
      BY <2>1, ByteCodec DEF Codec, Reads
    <2>b1. f1.rest = r1 /\ f1.val = a1
      BY <2>a1, Results
    <2>a2. PICK a2 \in Bytes, r2 \in Streams :
              TakeByte(r1) = Ok(a2, r2)
                    /\ \A q \in Streams : TakeByte(r1 \o q) = Ok(a2, r2 \o q)
      BY <2>1, <2>b1, ByteCodec DEF Codec, Reads
    <2>b2. f2.rest = r2 /\ f2.val = a2
      BY <2>a2, <2>b1, Results
    <2> DEFINE v == [pub_key |-> a1, signature |-> a2]
    <2>3. v \in SigPair
      BY <2>a1, <2>a2 DEF SigPair
    <2>4. take_sig_pair(s) = Ok(v, r2)
      BY <1>1, <2>a1, <2>a2
    <2>5. ASSUME NEW q \in Streams PROVE take_sig_pair(s \o q) = Ok(v, r2 \o q)
      <3> DEFINE t0 == s \o q
                 t1 == r1 \o q
                 t2 == r2 \o q
      <3>1. TakeByte(t0) = Ok(a1, t1) /\ TakeByte(t1) = Ok(a2, t2)
        BY <2>a1, <2>a2, Zenon
      <3> HIDE DEF t0, t1, t2
      <3>2. take_sig_pair(t0) = Ok(v, t2)
        BY <1>1, <3>1
      <3> QED
        BY <3>2 DEF t0, t2
    <2> HIDE DEF v
    <2> QED
      BY <2>3, <2>4, <2>5
  <1> QED
    BY <1>2, <1>3 DEF Codec, Writes, Reads

PutKeys(xs) == PutList(BYTE, [i \in DOMAIN xs |-> <<xs[i]>>])
TakeKeys(s) == TakeList(BYTE, [t \in Streams |-> TakeByte(t)], s)

LEMMA KeysPieces ==
  /\ Reader([t \in Streams |-> TakeByte(t)], Bytes)
  /\ \A xs \in Seq(Bytes) : Pieces([t \in Streams |-> TakeByte(t)], xs,
        [i \in DOMAIN xs |-> <<xs[i]>>])
  <1> DEFINE take == [t \in Streams |-> TakeByte(t)]
  <1>1. \A t \in Streams : take[t] = TakeByte(t)
    OBVIOUS
  <1>2. \A s, q \in Streams : s \o q \in Streams
    BY Cat, Zenon
  <1> HIDE DEF take
  <1>3. Reader(take, Bytes)
    <2> SUFFICES ASSUME NEW s \in Streams, take[s].ok
                 PROVE  \E v \in Bytes, r \in Streams :
                           take[s] = Ok(v, r) /\ \A q \in Streams : take[s \o q] = Ok(v, r \o q)
      BY Zenon DEF Reader
    <2>1. PICK v \in Bytes, r \in Streams :
             TakeByte(s) = Ok(v, r) /\ \A q \in Streams : TakeByte(s \o q) = Ok(v, r \o q)
      BY <1>1, ByteCodec DEF Codec, Reads
    <2> QED
      BY <1>1, <1>2, <2>1
  <1>4. ASSUME NEW xs \in Seq(Bytes)
        PROVE  Pieces(take, xs, [i \in DOMAIN xs |-> <<xs[i]>>])
    <2> DEFINE pieces == [i \in DOMAIN xs |-> <<xs[i]>>]
    <2>1. /\ DOMAIN xs = 1 .. Len(xs) /\ Len(xs) \in Nat
          /\ \A i \in 1 .. Len(xs) : xs[i] \in Bytes
      OBVIOUS
    <2>2. \A i \in 1 .. Len(xs) : pieces[i] = PutByte(xs[i])
      BY <2>1 DEF PutByte
    <2>3. ASSUME NEW i \in 1 .. Len(xs)
          PROVE  /\ pieces[i] \in Streams /\ pieces[i] # <<>>
                 /\ \A t \in Streams : TakeByte(pieces[i] \o t) = Ok(xs[i], t)
      BY <2>1, <2>2, ByteCodec DEF Codec, Writes
    <2>4. pieces \in Seq(Streams) /\ Len(pieces) = Len(xs)
      BY <2>1, <2>3
    <2> HIDE DEF pieces
    <2>5. \A i \in 1 .. Len(xs) : \A t \in Streams : take[pieces[i] \o t] = Ok(xs[i], t)
      BY <1>1, <1>2, <2>3
    <2>6. Pieces(take, xs, pieces)
      BY <2>3, <2>4, <2>5 DEF Pieces
    <2> QED
      BY <2>6 DEF pieces
  <1> QED
    BY <1>3, <1>4 DEF take

LEMMA KeysCodec == Codec(PutKeys, TakeKeys, List(Bytes, BYTE))
  <1> DEFINE take == [t \in Streams |-> TakeByte(t)]
  <1>0. CountWidth(BYTE)
    BY DEF CountWidth
  <1>1. Reader(take, Bytes)
    BY KeysPieces
  <1>2. ASSUME NEW v \in List(Bytes, BYTE)
        PROVE  /\ PutKeys(v) \in Streams /\ PutKeys(v) # <<>>
               /\ \A t \in Streams : TakeKeys(PutKeys(v) \o t) = Ok(v, t)
    <2> DEFINE pieces == [i \in DOMAIN v |-> <<v[i]>>]
    <2>1. v \in Seq(Bytes)
      BY DEF List
    <2>2. Pieces(take, v, pieces)
      BY <2>1, KeysPieces, Zenon
    <2>3. PutKeys(v) = PutList(BYTE, pieces) /\ \A s : TakeKeys(s) = TakeList(BYTE, take, s)
      BY Zenon DEF PutKeys, TakeKeys
    <2> HIDE DEF take, pieces
    <2>4. /\ PutList(BYTE, pieces) \in Streams /\ PutList(BYTE, pieces) # <<>>
          /\ \A t \in Streams : TakeList(BYTE, take, PutList(BYTE, pieces) \o t) = Ok(v, t)
      BY <1>0, <1>1, <2>2, FittingListWrites
    <2> QED
      BY <2>3, <2>4, Zenon
  <1>3. ASSUME NEW s \in Streams, TakeKeys(s).ok
        PROVE  \E v \in List(Bytes, BYTE), r \in Streams :
                  TakeKeys(s) = Ok(v, r) /\ \A q \in Streams : TakeKeys(s \o q) = Ok(v, r \o q)
    <2>1. \A u : TakeKeys(u) = TakeList(BYTE, take, u)
      BY Zenon DEF TakeKeys
    <2> HIDE DEF take
    <2>2. TakeList(BYTE, take, s).ok
      BY <1>3, <2>1, Zenon
    <2>3. \E l \in List(Bytes, BYTE), r \in Streams :
             /\ TakeList(BYTE, take, s) = Ok(l, r)
             /\ \A q \in Streams : TakeList(BYTE, take, s \o q) = Ok(l, r \o q)
      BY <1>0, <1>1, <2>2, ListReads
    <2> QED
      BY <2>1, <2>3, Zenon
  <1> QED
    BY <1>2, <1>3 DEF Codec, Writes, Reads

LEMMA PermissionsCodec == Codec(Permissions_serialize, Permissions_deserialize, Permissions)
  <1>1. ASSUME NEW s, NEW a1, NEW r1, NEW a2, NEW r2,
               TakeByte(s) = Ok(a1, r1),
               TakeKeys(r1) = Ok(a2, r2)
        PROVE  Permissions_deserialize(s) = Ok([threshold |-> a1, keys |-> a2], r2)
    BY <1>1, Results DEF Permissions_deserialize, TakeKeys
  <1>2. ASSUME NEW v \in Permissions
        PROVE  /\ Permissions_serialize(v) \in Streams /\ Permissions_serialize(v) # <<>>
               /\ \A t \in Streams :
                     Permissions_deserialize(Permissions_serialize(v) \o t) = Ok(v, t)
    <2> DEFINE p1 == PutByte(v.threshold)
               p2 == PutKeys(v.keys)
    <2>1. /\ v.threshold \in Bytes /\ v.keys \in List(Bytes, BYTE)
          /\ v = [threshold |-> v.threshold, keys |-> v.keys]
      BY DEF Permissions
    <2>p1. p1 \in Streams /\ p1 # <<>>
          /\ \A t \in Streams : TakeByte(p1 \o t) = Ok(v.threshold, t)
      BY <2>1, ByteCodec DEF Codec, Writes
    <2>p2. p2 \in Streams /\ p2 # <<>> /\ \A t \in Streams : TakeKeys(p2 \o t) = Ok(v.keys, t)
      BY <2>1, KeysCodec DEF Codec, Writes
    <2> DEFINE w1 == p1
               w2 == w1 \o p2
    <2>2. Permissions_serialize(v) = w2
      BY Zenon DEF Permissions_serialize, PutByte, PutKeys
    <2> HIDE DEF p1, p2
    <2>w2. w2 \in Streams /\ w2 # <<>>
      BY <2>p2, <2>p1, CatBehind, Zenon
    <2>4. ASSUME NEW t \in Streams
          PROVE Permissions_deserialize(Permissions_serialize(v) \o t) = Ok(v, t)
      <3> DEFINE u2 == t
                 u1 == p2 \o u2
                 u0 == p1 \o u1
      <3>s1. u1 \in Streams
        BY <2>p2, Cat, Zenon
      <3>e2. w2 \o u2 = w1 \o u1
        BY <2>p1, <2>p2, CatAssoc, Zenon
      <3>1. Permissions_serialize(v) \o t = u0
        <4>1. w1 \o u1 = u0
          OBVIOUS
        <4> HIDE DEF w1, w2, u0, u1
        <4> QED
          BY <2>2, <4>1, <3>e2, Zenon
      <3>2. TakeByte(u0) = Ok(v.threshold, u1) /\ TakeKeys(u1) = Ok(v.keys, u2)
        BY <2>p1, <2>p2, <3>s1, Zenon
      <3> HIDE DEF u0, u1
      <3>3. Permissions_deserialize(u0) = Ok([threshold |-> v.threshold, keys |-> v.keys], t)
        BY <1>1, <2>1, <3>2
      <3> QED
        BY <2>1, <3>1, <3>3, Zenon
    <2> QED
      BY <2>2, <2>w2, <2>4, Zenon
  <1>3. ASSUME NEW s \in Streams, Permissions_deserialize(s).ok
        PROVE  \E v \in Permissions, r \in Streams :
                  Permissions_deserialize(s) = Ok(v, r)
                        /\ \A q \in Streams : Permissions_deserialize(s \o q) = Ok(v, r \o q)
    <2> DEFINE f1 == TakeByte(s)
               f2 == TakeKeys(f1.rest)
    <2>1. f1.ok /\ f2.ok
      BY <1>3, Results DEF Permissions_deserialize, TakeKeys
    <2>a1. PICK a1 \in Bytes, r1 \in Streams :
              TakeByte(s) = Ok(a1, r1) /\ \A q \in Streams : TakeByte(s \o q) = Ok(a1, r1 \o q)
      BY <2>1, ByteCodec DEF Codec, Reads
    <2>b1. f1.rest = r1 /\ f1.val = a1
      BY <2>a1, Results
    <2>a2. PICK a2 \in List(Bytes, BYTE), r2 \in Streams :
              TakeKeys(r1) = Ok(a2, r2)
                    /\ \A q \in Streams : TakeKeys(r1 \o q) = Ok(a2, r2 \o q)
      BY <2>1, <2>b1, KeysCodec DEF Codec, Reads
    <2>b2. f2.rest = r2 /\ f2.val = a2
      BY <2>a2, <2>b1, Results
    <2> DEFINE v == [threshold |-> a1, keys |-> a2]
    <2>3. v \in Permissions
      BY <2>a1, <2>a2 DEF Permissions
    <2>4. Permissions_deserialize(s) = Ok(v, r2)
      BY <1>1, <2>a1, <2>a2
    <2>5. ASSUME NEW q \in Streams PROVE Permissions_deserialize(s \o q) = Ok(v, r2 \o q)
      <3> DEFINE t0 == s \o q
                 t1 == r1 \o q
                 t2 == r2 \o q
      <3>1. TakeByte(t0) = Ok(a1, t1) /\ TakeKeys(t1) = Ok(a2, t2)
        BY <2>a1, <2>a2, Zenon
      <3> HIDE DEF t0, t1, t2
      <3>2. Permissions_deserialize(t0) = Ok(v, t2)
        BY <1>1, <3>1
      <3> QED
        BY <3>2 DEF t0, t2
    <2> HIDE DEF v
    <2> QED
      BY <2>3, <2>4, <2>5
  <1> QED
    BY <1>2, <1>3 DEF Codec, Writes, Reads

LEMMA AccountCodec == Codec(Account_serialize, Account_deserialize, Account)
  <1>1. ASSUME NEW s, NEW a1, NEW r1, NEW a2, NEW r2, NEW a3, NEW r3, NEW a4, NEW r4, NEW a5,
        NEW r5,
               TakeInt(s) = Ok(a1, r1),
               take_asset(r1) = Ok(a2, r2),
               TakeBytes(r2) = Ok(a3, r3),
               Permissions_deserialize(r3) = Ok(a4, r4),
               TakeFlag(r4) = Ok(a5, r5)
        PROVE  Account_deserialize(s)
              = Ok([id |-> a1, balance |-> a2, script |-> a3, permissions |-> a4,
                    destroyed |-> a5], r5)
    BY <1>1, Results DEF Account_deserialize
  <1>2. ASSUME NEW v \in Account
        PROVE  /\ Account_serialize(v) \in Streams /\ Account_serialize(v) # <<>>
               /\ \A t \in Streams : Account_deserialize(Account_serialize(v) \o t) = Ok(v, t)
    <2> DEFINE p1 == PushInt(v.id)
               p2 == push_asset(v.balance)
               p3 == push_bytes(v.script)
               p4 == Permissions_serialize(v.permissions)
               p5 == PutFlag(v.destroyed)
    <2>1. /\ v.id \in Ints /\ v.balance \in Amounts /\ v.script \in ByteString
          /\ v.permissions \in Permissions /\ v.destroyed \in BOOLEAN
          /\ v
                = [id |-> v.id, balance |-> v.balance, script |-> v.script,
                      permissions |-> v.permissions, destroyed |-> v.destroyed]
      BY DEF Account
    <2>p1. p1 \in Streams /\ p1 # <<>> /\ \A t \in Streams : TakeInt(p1 \o t) = Ok(v.id, t)
      BY <2>1, IntCodec DEF Codec, Writes
    <2>p2. p2 \in Streams /\ p2 # <<>>
          /\ \A t \in Streams : take_asset(p2 \o t) = Ok(v.balance, t)
      BY <2>1, AssetCodec DEF Codec, Writes
    <2>p3. p3 \in Streams /\ p3 # <<>>
          /\ \A t \in Streams : TakeBytes(p3 \o t) = Ok(v.script, t)
      BY <2>1, BytesCodec DEF Codec, Writes
    <2>p4. p4 \in Streams /\ p4 # <<>>
          /\ \A t \in Streams : Permissions_deserialize(p4 \o t) = Ok(v.permissions, t)
      BY <2>1, PermissionsCodec DEF Codec, Writes
    <2>p5. p5 \in Streams /\ p5 # <<>>
          /\ \A t \in Streams : TakeFlag(p5 \o t) = Ok(v.destroyed, t)
      BY <2>1, FlagCodec DEF Codec, Writes
    <2> DEFINE w1 == p1
               w2 == w1 \o p2
               w3 == w2 \o p3
               w4 == w3 \o p4
               w5 == w4 \o p5
    <2>2. Account_serialize(v) = w5
      BY Zenon DEF Account_serialize, PutByte
    <2> HIDE DEF p1, p2, p3, p4, p5
    <2>w2. w2 \in Streams /\ w2 # <<>>
      BY <2>p2, <2>p1, CatBehind, Zenon
    <2>w3. w3 \in Streams /\ w3 # <<>>
      BY <2>p3, <2>w2, CatBehind, Zenon
    <2>w4. w4 \in Streams /\ w4 # <<>>
      BY <2>p4, <2>w3, CatBehind, Zenon
    <2>w5. w5 \in Streams /\ w5 # <<>>
      BY <2>p5, <2>w4, CatBehind, Zenon
    <2>4. ASSUME NEW t \in Streams
          PROVE Account_deserialize(Account_serialize(v) \o t) = Ok(v, t)
      <3> DEFINE u5 == t
                 u4 == p5 \o u5
                 u3 == p4 \o u4
                 u2 == p3 \o u3
                 u1 == p2 \o u2
                 u0 == p1 \o u1
      <3>s4. u4 \in Streams
        BY <2>p5, Cat, Zenon
      <3>s3. u3 \in Streams
        BY <2>p4, <3>s4, Cat, Zenon
      <3>s2. u2 \in Streams
        BY <2>p3, <3>s3, Cat, Zenon
      <3>s1. u1 \in Streams
        BY <2>p2, <3>s2, Cat, Zenon
      <3>e5. w5 \o u5 = w4 \o u4
        <4> HIDE DEF w4
        <4> QED
          BY <2>w4, <2>p5, CatAssoc, Zenon DEF w5
      <3>e4. w4 \o u4 = w3 \o u3
        <4> HIDE DEF w3
        <4> QED
          BY <2>w3, <2>p4, <3>s4, CatAssoc, Zenon DEF w4
      <3>e3. w3 \o u3 = w2 \o u2
        <4> HIDE DEF w2
        <4> QED
          BY <2>w2, <2>p3, <3>s3, CatAssoc, Zenon DEF w3
      <3>e2. w2 \o u2 = w1 \o u1
        BY <2>p1, <2>p2, <3>s2, CatAssoc, Zenon
      <3>1. Account_serialize(v) \o t = u0
        <4>1. w1 \o u1 = u0
          OBVIOUS
        <4> HIDE DEF w1, w2, w3, w4, w5, u0, u1, u2, u3, u4
        <4> QED
          BY <2>2, <4>1, <3>e5, <3>e4, <3>e3, <3>e2, Zenon
      <3>2. TakeInt(u0) = Ok(v.id, u1) /\ take_asset(u1) = Ok(v.balance, u2)
            /\ TakeBytes(u2) = Ok(v.script, u3)
                  /\ Permissions_deserialize(u3) = Ok(v.permissions, u4)
                        /\ TakeFlag(u4) = Ok(v.destroyed, u5)
        BY <2>p1, <2>p2, <2>p3, <2>p4, <2>p5, <3>s1, <3>s2, <3>s3, <3>s4, Zenon
      <3> HIDE DEF u0, u1, u2, u3, u4
      <3>3. Account_deserialize(u0)
            = Ok([id |-> v.id, balance |-> v.balance, script |-> v.script,
                  permissions |-> v.permissions, destroyed |-> v.destroyed], t)
        BY <1>1, <2>1, <3>2
      <3> QED
        BY <2>1, <3>1, <3>3, Zenon
    <2> QED
      BY <2>2, <2>w5, <2>4, Zenon
  <1>3. ASSUME NEW s \in Streams, Account_deserialize(s).ok
        PROVE  \E v \in Account, r \in Streams :
                  Account_deserialize(s) = Ok(v, r)
                        /\ \A q \in Streams : Account_deserialize(s \o q) = Ok(v, r \o q)
    <2> DEFINE f1 == TakeInt(s)
               f2 == take_asset(f1.rest)
               f3 == TakeBytes(f2.rest)
               f4 == Permissions_deserialize(f3.rest)
               f5 == TakeFlag(f4.rest)
    <2>1. f1.ok /\ f2.ok /\ f3.ok /\ f4.ok /\ f5.ok
      BY <1>3, Results DEF Account_deserialize
    <2>a1. PICK a1 \in Ints, r1 \in Streams :
              TakeInt(s) = Ok(a1, r1) /\ \A q \in Streams : TakeInt(s \o q) = Ok(a1, r1 \o q)
      BY <2>1, IntCodec DEF Codec, Reads
    <2>b1. f1.rest = r1 /\ f1.val = a1
      BY <2>a1, Results
    <2>a2. PICK a2 \in Amounts, r2 \in Streams :
              take_asset(r1) = Ok(a2, r2)
                    /\ \A q \in Streams : take_asset(r1 \o q) = Ok(a2, r2 \o q)
      BY <2>1, <2>b1, AssetCodec DEF Codec, Reads
    <2>b2. f2.rest = r2 /\ f2.val = a2
      BY <2>a2, <2>b1, Results
    <2>a3. PICK a3 \in ByteString, r3 \in Streams :
              TakeBytes(r2) = Ok(a3, r3)
                    /\ \A q \in Streams : TakeBytes(r2 \o q) = Ok(a3, r3 \o q)
      BY <2>1, <2>b2, BytesCodec DEF Codec, Reads
    <2>b3. f3.rest = r3 /\ f3.val = a3
      BY <2>a3, <2>b2, Results
    <2>a4. PICK a4 \in Permissions, r4 \in Streams :
              Permissions_deserialize(r3) = Ok(a4, r4)
                    /\ \A q \in Streams : Permissions_deserialize(r3 \o q) = Ok(a4, r4 \o q)
      BY <2>1, <2>b3, PermissionsCodec DEF Codec, Reads
    <2>b4. f4.rest = r4 /\ f4.val = a4
      BY <2>a4, <2>b3, Results
    <2>a5. PICK a5 \in BOOLEAN, r5 \in Streams :
              TakeFlag(r4) = Ok(a5, r5)
                    /\ \A q \in Streams : TakeFlag(r4 \o q) = Ok(a5, r5 \o q)
      BY <2>1, <2>b4, FlagCodec DEF Codec, Reads
    <2>b5. f5.rest = r5 /\ f5.val = a5
      BY <2>a5, <2>b4, Results
    <2> DEFINE v ==
          [id |-> a1, balance |-> a2, script |-> a3, permissions |-> a4, destroyed |-> a5]
    <2>3. v \in Account
      BY <2>a1, <2>a2, <2>a3, <2>a4, <2>a5 DEF Account
    <2>4. Account_deserialize(s) = Ok(v, r5)
      BY <1>1, <2>a1, <2>a2, <2>a3, <2>a4, <2>a5
    <2>5. ASSUME NEW q \in Streams PROVE Account_deserialize(s \o q) = Ok(v, r5 \o q)
      <3> DEFINE t0 == s \o q
                 t1 == r1 \o q
                 t2 == r2 \o q
                 t3 == r3 \o q
                 t4 == r4 \o q
                 t5 == r5 \o q
      <3>1. TakeInt(t0) = Ok(a1, t1) /\ take_asset(t1) = Ok(a2, t2)
            /\ TakeBytes(t2) = Ok(a3, t3) /\ Permissions_deserialize(t3) = Ok(a4, t4)
                  /\ TakeFlag(t4) = Ok(a5, t5)
        BY <2>a1, <2>a2, <2>a3, <2>a4, <2>a5, Zenon
      <3> HIDE DEF t0, t1, t2, t3, t4, t5
      <3>2. Account_deserialize(t0) = Ok(v, t5)
        BY <1>1, <3>1
      <3> QED
        BY <3>2 DEF t0, t5
    <2> HIDE DEF v
    <2> QED
      BY <2>3, <2>4, <2>5
  <1> QED
    BY <1>2, <1>3 DEF Codec, Writes, Reads

-----------------------------------------------------------------------------
(* Transactions.                                                           *)

LEMMA TxBaseCodec == Codec(serialize_header, deserialize_header, TxBase)
  <1>1. ASSUME NEW s, NEW a1, NEW r1, NEW a2, NEW r2, NEW a3, NEW r3,
               TakeInt(s) = Ok(a1, r1),
               TakeInt(r1) = Ok(a2, r2),
               take_asset(r2) = Ok(a3, r3)
        PROVE  deserialize_header(s) = Ok([nonce |-> a1, expiry |-> a2, fee |-> a3], r3)
    BY <1>1, Results DEF deserialize_header
  <1>2. ASSUME NEW v \in TxBase
        PROVE  /\ serialize_header(v) \in Streams /\ serialize_header(v) # <<>>
               /\ \A t \in Streams : deserialize_header(serialize_header(v) \o t) = Ok(v, t)
    <2> DEFINE p1 == PushInt(v.nonce)
               p2 == PushInt(v.expiry)
               p3 == push_asset(v.fee)
    <2>1. /\ v.nonce \in Ints /\ v.expiry \in Ints /\ v.fee \in Amounts
          /\ v = [nonce |-> v.nonce, expiry |-> v.expiry, fee |-> v.fee]
      BY DEF TxBase
    <2>p1. p1 \in Streams /\ p1 # <<>> /\ \A t \in Streams : TakeInt(p1 \o t) = Ok(v.nonce, t)
      BY <2>1, IntCodec DEF Codec, Writes
    <2>p2. p2 \in Streams /\ p2 # <<>> /\ \A t \in Streams : TakeInt(p2 \o t) = Ok(v.expiry, t)
      BY <2>1, IntCodec DEF Codec, Writes
    <2>p3. p3 \in Streams /\ p3 # <<>> /\ \A t \in Streams : take_asset(p3 \o t) = Ok(v.fee, t)
      BY <2>1, AssetCodec DEF Codec, Writes
    <2> DEFINE w1 == p1
               w2 == w1 \o p2
               w3 == w2 \o p3
    <2>2. serialize_header(v) = w3
      BY Zenon DEF serialize_header, PutByte
    <2> HIDE DEF p1, p2, p3
    <2>w2. w2 \in Streams /\ w2 # <<>>
      BY <2>p2, <2>p1, CatBehind, Zenon
    <2>w3. w3 \in Streams /\ w3 # <<>>
      BY <2>p3, <2>w2, CatBehind, Zenon
    <2>4. ASSUME NEW t \in Streams PROVE deserialize_header(serialize_header(v) \o t) = Ok(v, t)
      <3> DEFINE u3 == t
                 u2 == p3 \o u3
                 u1 == p2 \o u2
                 u0 == p1 \o u1
      <3>s2. u2 \in Streams
        BY <2>p3, Cat, Zenon
      <3>s1. u1 \in Streams
        BY <2>p2, <3>s2, Cat, Zenon
      <3>e3. w3 \o u3 = w2 \o u2
        <4> HIDE DEF w2
        <4> QED
          BY <2>w2, <2>p3, CatAssoc, Zenon DEF w3
      <3>e2. w2 \o u2 = w1 \o u1
        BY <2>p1, <2>p2, <3>s2, CatAssoc, Zenon
      <3>1. serialize_header(v) \o t = u0
        <4>1. w1 \o u1 = u0
          OBVIOUS
        <4> HIDE DEF w1, w2, w3, u0, u1, u2
        <4> QED
          BY <2>2, <4>1, <3>e3, <3>e2, Zenon
      <3>2. TakeInt(u0) = Ok(v.nonce, u1) /\ TakeInt(u1) = Ok(v.expiry, u2)
            /\ take_asset(u2) = Ok(v.fee, u3)
        BY <2>p1, <2>p2, <2>p3, <3>s1, <3>s2, Zenon
      <3> HIDE DEF u0, u1, u2
      <3>3. deserialize_header(u0)
            = Ok([nonce |-> v.nonce, expiry |-> v.expiry, fee |-> v.fee], t)
        BY <1>1, <2>1, <3>2
      <3> QED
        BY <2>1, <3>1, <3>3, Zenon
    <2> QED
      BY <2>2, <2>w3, <2>4, Zenon
  <1>3. ASSUME NEW s \in Streams, deserialize_header(s).ok
        PROVE  \E v \in TxBase, r \in Streams :
                  deserialize_header(s) = Ok(v, r)
                        /\ \A q \in Streams : deserialize_header(s \o q) = Ok(v, r \o q)
    <2> DEFINE f1 == TakeInt(s)
               f2 == TakeInt(f1.rest)
               f3 == take_asset(f2.rest)
    <2>1. f1.ok /\ f2.ok /\ f3.ok
      BY <1>3, Results DEF deserialize_header
    <2>a1. PICK a1 \in Ints, r1 \in Streams :
              TakeInt(s) = Ok(a1, r1) /\ \A q \in Streams : TakeInt(s \o q) = Ok(a1, r1 \o q)
      BY <2>1, IntCodec DEF Codec, Reads
    <2>b1. f1.rest = r1 /\ f1.val = a1
      BY <2>a1, Results
    <2>a2. PICK a2 \in Ints, r2 \in Streams :
              TakeInt(r1) = Ok(a2, r2) /\ \A q \in Streams : TakeInt(r1 \o q) = Ok(a2, r2 \o q)
      BY <2>1, <2>b1, IntCodec DEF Codec, Reads
    <2>b2. f2.rest = r2 /\ f2.val = a2
      BY <2>a2, <2>b1, Results
    <2>a3. PICK a3 \in Amounts, r3 \in Streams :
              take_asset(r2) = Ok(a3, r3)
                    /\ \A q \in Streams : take_asset(r2 \o q) = Ok(a3, r3 \o q)
      BY <2>1, <2>b2, AssetCodec DEF Codec, Reads
    <2>b3. f3.rest = r3 /\ f3.val = a3
      BY <2>a3, <2>b2, Results
    <2> DEFINE v == [nonce |-> a1, expiry |-> a2, fee |-> a3]
    <2>3. v \in TxBase
      BY <2>a1, <2>a2, <2>a3 DEF TxBase
    <2>4. deserialize_header(s) = Ok(v, r3)
      BY <1>1, <2>a1, <2>a2, <2>a3
    <2>5. ASSUME NEW q \in Streams PROVE deserialize_header(s \o q) = Ok(v, r3 \o q)
      <3> DEFINE t0 == s \o q
                 t1 == r1 \o q
                 t2 == r2 \o q
                 t3 == r3 \o q
      <3>1. TakeInt(t0) = Ok(a1, t1) /\ TakeInt(t1) = Ok(a2, t2) /\ take_asset(t2) = Ok(a3, t3)
        BY <2>a1, <2>a2, <2>a3, Zenon
      <3> HIDE DEF t0, t1, t2, t3
      <3>2. deserialize_header(t0) = Ok(v, t3)
        BY <1>1, <3>1
      <3> QED
        BY <3>2 DEF t0, t3
    <2> HIDE DEF v
    <2> QED
      BY <2>3, <2>4, <2>5
  <1> QED
    BY <1>2, <1>3 DEF Codec, Writes, Reads

LEMMA OwnerTxCodec == Codec(OwnerTx_serialize, OwnerTx_deserialize, OwnerTx)
  <1>1. ASSUME NEW s, NEW a1, NEW r1, NEW a2, NEW r2,
               TakeByte(s) = Ok(a1, r1),
               TakeInt(r1) = Ok(a2, r2)
        PROVE  OwnerTx_deserialize(s) = Ok([minter |-> a1, wallet |-> a2], r2)
    BY <1>1, Results DEF OwnerTx_deserialize
  <1>2. ASSUME NEW v \in OwnerTx
        PROVE  /\ OwnerTx_serialize(v) \in Streams /\ OwnerTx_serialize(v) # <<>>
               /\ \A t \in Streams : OwnerTx_deserialize(OwnerTx_serialize(v) \o t) = Ok(v, t)
    <2> DEFINE p1 == PutByte(v.minter)
               p2 == PushInt(v.wallet)
    <2>1. /\ v.minter \in Bytes /\ v.wallet \in Ints
          /\ v = [minter |-> v.minter, wallet |-> v.wallet]
      BY DEF OwnerTx
    <2>p1. p1 \in Streams /\ p1 # <<>> /\ \A t \in Streams : TakeByte(p1 \o t) = Ok(v.minter, t)
      BY <2>1, ByteCodec DEF Codec, Writes
    <2>p2. p2 \in Streams /\ p2 # <<>> /\ \A t \in Streams : TakeInt(p2 \o t) = Ok(v.wallet, t)
      BY <2>1, IntCodec DEF Codec, Writes
    <2> DEFINE w1 == p1
               w2 == w1 \o p2
    <2>2. OwnerTx_serialize(v) = w2
      BY Zenon DEF OwnerTx_serialize, PutByte
    <2> HIDE DEF p1, p2
    <2>w2. w2 \in Streams /\ w2 # <<>>
      BY <2>p2, <2>p1, CatBehind, Zenon
    <2>4. ASSUME NEW t \in Streams
          PROVE OwnerTx_deserialize(OwnerTx_serialize(v) \o t) = Ok(v, t)
      <3> DEFINE u2 == t
                 u1 == p2 \o u2
                 u0 == p1 \o u1
      <3>s1. u1 \in Streams
        BY <2>p2, Cat, Zenon
      <3>e2. w2 \o u2 = w1 \o u1
        BY <2>p1, <2>p2, CatAssoc, Zenon
      <3>1. OwnerTx_serialize(v) \o t = u0
        <4>1. w1 \o u1 = u0
          OBVIOUS
        <4> HIDE DEF w1, w2, u0, u1
        <4> QED
          BY <2>2, <4>1, <3>e2, Zenon
      <3>2. TakeByte(u0) = Ok(v.minter, u1) /\ TakeInt(u1) = Ok(v.wallet, u2)
        BY <2>p1, <2>p2, <3>s1, Zenon
      <3> HIDE DEF u0, u1
      <3>3. OwnerTx_deserialize(u0) = Ok([minter |-> v.minter, wallet |-> v.wallet], t)
        BY <1>1, <2>1, <3>2
      <3> QED
        BY <2>1, <3>1, <3>3, Zenon
    <2> QED
      BY <2>2, <2>w2, <2>4, Zenon
  <1>3. ASSUME NEW s \in Streams, OwnerTx_deserialize(s).ok
        PROVE  \E v \in OwnerTx, r \in Streams :
                  OwnerTx_deserialize(s) = Ok(v, r)
                        /\ \A q \in Streams : OwnerTx_deserialize(s \o q) = Ok(v, r \o q)
    <2> DEFINE f1 == TakeByte(s)
               f2 == TakeInt(f1.rest)
    <2>1. f1.ok /\ f2.ok
      BY <1>3, Results DEF OwnerTx_deserialize
    <2>a1. PICK a1 \in Bytes, r1 \in Streams :
              TakeByte(s) = Ok(a1, r1) /\ \A q \in Streams : TakeByte(s \o q) = Ok(a1, r1 \o q)
      BY <2>1, ByteCodec DEF Codec, Reads
    <2>b1. f1.rest = r1 /\ f1.val = a1
      BY <2>a1, Results
    <2>a2. PICK a2 \in Ints, r2 \in Streams :
              TakeInt(r1) = Ok(a2, r2) /\ \A q \in Streams : TakeInt(r1 \o q) = Ok(a2, r2 \o q)
      BY <2>1, <2>b1, IntCodec DEF Codec, Reads
    <2>b2. f2.rest = r2 /\ f2.val = a2
      BY <2>a2, <2>b1, Results
    <2> DEFINE v == [minter |-> a1, wallet |-> a2]
    <2>3. v \in OwnerTx
      BY <2>a1, <2>a2 DEF OwnerTx
    <2>4. OwnerTx_deserialize(s) = Ok(v, r2)
      BY <1>1, <2>a1, <2>a2
    <2>5. ASSUME NEW q \in Streams PROVE OwnerTx_deserialize(s \o q) = Ok(v, r2 \o q)
      <3> DEFINE t0 == s \o q
                 t1 == r1 \o q
                 t2 == r2 \o q
      <3>1. TakeByte(t0) = Ok(a1, t1) /\ TakeInt(t1) = Ok(a2, t2)
        BY <2>a1, <2>a2, Zenon
      <3> HIDE DEF t0, t1, t2
      <3>2. OwnerTx_deserialize(t0) = Ok(v, t2)
        BY <1>1, <3>1
      <3> QED
        BY <3>2 DEF t0, t2
    <2> HIDE DEF v
    <2> QED
      BY <2>3, <2>4, <2>5
  <1> QED
    BY <1>2, <1>3 DEF Codec, Writes, Reads

LEMMA MintTxCodec == Codec(MintTx_serialize, MintTx_deserialize, MintTx)
  <1>1. ASSUME NEW s, NEW a1, NEW r1, NEW a2, NEW r2, NEW a3, NEW r3, NEW a4, NEW r4,
               TakeInt(s) = Ok(a1, r1),
               take_asset(r1) = Ok(a2, r2),
               TakeBytes(r2) = Ok(a3, r3),
               TakeBytes(r3) = Ok(a4, r4),
               IsUtf8(a4)
        PROVE  MintTx_deserialize(s)
              = Ok([to |-> a1, amount |-> a2, attachment |-> a3, attachment_name |-> a4], r4)
    BY <1>1, Results DEF MintTx_deserialize
  <1>2. ASSUME NEW v \in MintTx
        PROVE  /\ MintTx_serialize(v) \in Streams /\ MintTx_serialize(v) # <<>>
               /\ \A t \in Streams : MintTx_deserialize(MintTx_serialize(v) \o t) = Ok(v, t)
    <2> DEFINE p1 == PushInt(v.to)
               p2 == push_asset(v.amount)
               p3 == push_bytes(v.attachment)
               p4 == push_bytes(v.attachment_name)
    <2>1. /\ v.to \in Ints /\ v.amount \in Amounts /\ v.attachment \in ByteString
          /\ v.attachment_name \in ByteString
          /\ IsUtf8(v.attachment_name)
          /\ v
                = [to |-> v.to, amount |-> v.amount, attachment |-> v.attachment,
                      attachment_name |-> v.attachment_name]
      BY DEF MintTx
    <2>p1. p1 \in Streams /\ p1 # <<>> /\ \A t \in Streams : TakeInt(p1 \o t) = Ok(v.to, t)
      BY <2>1, IntCodec DEF Codec, Writes
    <2>p2. p2 \in Streams /\ p2 # <<>>
          /\ \A t \in Streams : take_asset(p2 \o t) = Ok(v.amount, t)
      BY <2>1, AssetCodec DEF Codec, Writes
    <2>p3. p3 \in Streams /\ p3 # <<>>
          /\ \A t \in Streams : TakeBytes(p3 \o t) = Ok(v.attachment, t)
      BY <2>1, BytesCodec DEF Codec, Writes
    <2>p4. p4 \in Streams /\ p4 # <<>>
          /\ \A t \in Streams : TakeBytes(p4 \o t) = Ok(v.attachment_name, t)
      BY <2>1, BytesCodec DEF Codec, Writes
    <2> DEFINE w1 == p1
               w2 == w1 \o p2
               w3 == w2 \o p3
               w4 == w3 \o p4
    <2>2. MintTx_serialize(v) = w4
      BY Zenon DEF MintTx_serialize, PutByte
    <2> HIDE DEF p1, p2, p3, p4
    <2>w2. w2 \in Streams /\ w2 # <<>>
      BY <2>p2, <2>p1, CatBehind, Zenon
    <2>w3. w3 \in Streams /\ w3 # <<>>
      BY <2>p3, <2>w2, CatBehind, Zenon
    <2>w4. w4 \in Streams /\ w4 # <<>>
      BY <2>p4, <2>w3, CatBehind, Zenon
    <2>4. ASSUME NEW t \in Streams PROVE MintTx_deserialize(MintTx_serialize(v) \o t) = Ok(v, t)
      <3> DEFINE u4 == t
                 u3 == p4 \o u4
                 u2 == p3 \o u3
                 u1 == p2 \o u2
                 u0 == p1 \o u1
      <3>s3. u3 \in Streams
        BY <2>p4, Cat, Zenon
      <3>s2. u2 \in Streams
        BY <2>p3, <3>s3, Cat, Zenon
      <3>s1. u1 \in Streams
        BY <2>p2, <3>s2, Cat, Zenon
      <3>e4. w4 \o u4 = w3 \o u3
        <4> HIDE DEF w3
        <4> QED
          BY <2>w3, <2>p4, CatAssoc, Zenon DEF w4
      <3>e3. w3 \o u3 = w2 \o u2
        <4> HIDE DEF w2
        <4> QED
          BY <2>w2, <2>p3, <3>s3, CatAssoc, Zenon DEF w3
      <3>e2. w2 \o u2 = w1 \o u1
        BY <2>p1, <2>p2, <3>s2, CatAssoc, Zenon
      <3>1. MintTx_serialize(v) \o t = u0
        <4>1. w1 \o u1 = u0
          OBVIOUS
        <4> HIDE DEF w1, w2, w3, w4, u0, u1, u2, u3
        <4> QED
          BY <2>2, <4>1, <3>e4, <3>e3, <3>e2, Zenon
      <3>2. TakeInt(u0) = Ok(v.to, u1) /\ take_asset(u1) = Ok(v.amount, u2)
            /\ TakeBytes(u2) = Ok(v.attachment, u3) /\ TakeBytes(u3) = Ok(v.attachment_name, u4)
        BY <2>p1, <2>p2, <2>p3, <2>p4, <3>s1, <3>s2, <3>s3, Zenon
      <3> HIDE DEF u0, u1, u2, u3
      <3>3. MintTx_deserialize(u0)
            = Ok([to |-> v.to, amount |-> v.amount, attachment |-> v.attachment,
                  attachment_name |-> v.attachment_name], t)
        BY <1>1, <2>1, <3>2
      <3> QED
        BY <2>1, <3>1, <3>3, Zenon
    <2> QED
      BY <2>2, <2>w4, <2>4, Zenon
  <1>3. ASSUME NEW s \in Streams, MintTx_deserialize(s).ok
        PROVE  \E v \in MintTx, r \in Streams :
                  MintTx_deserialize(s) = Ok(v, r)
                        /\ \A q \in Streams : MintTx_deserialize(s \o q) = Ok(v, r \o q)
    <2> DEFINE f1 == TakeInt(s)
               f2 == take_asset(f1.rest)
               f3 == TakeBytes(f2.rest)
               f4 == TakeBytes(f3.rest)
    <2>1. f1.ok /\ f2.ok /\ f3.ok /\ f4.ok /\ IsUtf8(f4.val)
      BY <1>3, Results DEF MintTx_deserialize
    <2>a1. PICK a1 \in Ints, r1 \in Streams :
              TakeInt(s) = Ok(a1, r1) /\ \A q \in Streams : TakeInt(s \o q) = Ok(a1, r1 \o q)
      BY <2>1, IntCodec DEF Codec, Reads
    <2>b1. f1.rest = r1 /\ f1.val = a1
      BY <2>a1, Results
    <2>a2. PICK a2 \in Amounts, r2 \in Streams :
              take_asset(r1) = Ok(a2, r2)
                    /\ \A q \in Streams : take_asset(r1 \o q) = Ok(a2, r2 \o q)
      BY <2>1, <2>b1, AssetCodec DEF Codec, Reads
    <2>b2. f2.rest = r2 /\ f2.val = a2
      BY <2>a2, <2>b1, Results
    <2>a3. PICK a3 \in ByteString, r3 \in Streams :
              TakeBytes(r2) = Ok(a3, r3)
                    /\ \A q \in Streams : TakeBytes(r2 \o q) = Ok(a3, r3 \o q)
      BY <2>1, <2>b2, BytesCodec DEF Codec, Reads
    <2>b3. f3.rest = r3 /\ f3.val = a3
      BY <2>a3, <2>b2, Results
    <2>a4. PICK a4 \in ByteString, r4 \in Streams :
              TakeBytes(r3) = Ok(a4, r4)
                    /\ \A q \in Streams : TakeBytes(r3 \o q) = Ok(a4, r4 \o q)
      BY <2>1, <2>b3, BytesCodec DEF Codec, Reads
    <2>b4. f4.rest = r4 /\ f4.val = a4
      BY <2>a4, <2>b3, Results
    <2> DEFINE v == [to |-> a1, amount |-> a2, attachment |-> a3, attachment_name |-> a4]
    <2>2. IsUtf8(a4)
      BY <2>1, <2>b1, <2>b2, <2>b3, <2>b4, Zenon
    <2>3. v \in MintTx
      BY <2>2, <2>a1, <2>a2, <2>a3, <2>a4 DEF MintTx
    <2>4. MintTx_deserialize(s) = Ok(v, r4)
      BY <1>1, <2>2, <2>a1, <2>a2, <2>a3, <2>a4
    <2>5. ASSUME NEW q \in Streams PROVE MintTx_deserialize(s \o q) = Ok(v, r4 \o q)
      <3> DEFINE t0 == s \o q
                 t1 == r1 \o q
                 t2 == r2 \o q
                 t3 == r3 \o q
                 t4 == r4 \o q
      <3>1. TakeInt(t0) = Ok(a1, t1) /\ take_asset(t1) = Ok(a2, t2)
            /\ TakeBytes(t2) = Ok(a3, t3) /\ TakeBytes(t3) = Ok(a4, t4)
        BY <2>a1, <2>a2, <2>a3, <2>a4, Zenon
      <3> HIDE DEF t0, t1, t2, t3, t4
      <3>2. MintTx_deserialize(t0) = Ok(v, t4)
        BY <1>1, <2>2, <3>1
      <3> QED
        BY <3>2 DEF t0, t4
    <2> HIDE DEF v
    <2> QED
      BY <2>3, <2>4, <2>5
  <1> QED
    BY <1>2, <1>3 DEF Codec, Writes, Reads

LEMMA CreateAccountTxCodec ==
   Codec(CreateAccountTx_serialize, CreateAccountTx_deserialize, CreateAccountTx)
  <1>1. ASSUME NEW s, NEW a1, NEW r1, NEW a2, NEW r2,
               TakeInt(s) = Ok(a1, r1),
               Account_deserialize(r1) = Ok(a2, r2)
        PROVE  CreateAccountTx_deserialize(s) = Ok([creator |-> a1, account |-> a2], r2)
    BY <1>1, Results DEF CreateAccountTx_deserialize, TakeCreated
  <1>2. ASSUME NEW v \in CreateAccountTx
        PROVE  /\ CreateAccountTx_serialize(v) \in Streams
                     /\ CreateAccountTx_serialize(v) # <<>>
               /\ \A t \in Streams :
                     CreateAccountTx_deserialize(CreateAccountTx_serialize(v) \o t) = Ok(v, t)
    <2> DEFINE p1 == PushInt(v.creator)
               p2 == Account_serialize(v.account)
    <2>1. /\ v.creator \in Ints /\ v.account \in Account
          /\ v = [creator |-> v.creator, account |-> v.account]
      BY DEF CreateAccountTx
    <2>p1. p1 \in Streams /\ p1 # <<>> /\ \A t \in Streams : TakeInt(p1 \o t) = Ok(v.creator, t)
      BY <2>1, IntCodec DEF Codec, Writes
    <2>p2. p2 \in Streams /\ p2 # <<>>
          /\ \A t \in Streams : Account_deserialize(p2 \o t) = Ok(v.account, t)
      BY <2>1, AccountCodec DEF Codec, Writes
    <2> DEFINE w1 == p1
               w2 == w1 \o p2
    <2>2. CreateAccountTx_serialize(v) = w2
      BY Zenon DEF CreateAccountTx_serialize, PutByte
    <2> HIDE DEF p1, p2
    <2>w2. w2 \in Streams /\ w2 # <<>>
      BY <2>p2, <2>p1, CatBehind, Zenon
    <2>4. ASSUME NEW t \in Streams
          PROVE CreateAccountTx_deserialize(CreateAccountTx_serialize(v) \o t) = Ok(v, t)
      <3> DEFINE u2 == t
                 u1 == p2 \o u2
                 u0 == p1 \o u1
      <3>s1. u1 \in Streams
        BY <2>p2, Cat, Zenon
      <3>e2. w2 \o u2 = w1 \o u1
        BY <2>p1, <2>p2, CatAssoc, Zenon
      <3>1. CreateAccountTx_serialize(v) \o t = u0
        <4>1. w1 \o u1 = u0
          OBVIOUS
        <4> HIDE DEF w1, w2, u0, u1
        <4> QED
          BY <2>2, <4>1, <3>e2, Zenon
      <3>2. TakeInt(u0) = Ok(v.creator, u1) /\ Account_deserialize(u1) = Ok(v.account, u2)
        BY <2>p1, <2>p2, <3>s1, Zenon
      <3> HIDE DEF u0, u1
      <3>3. CreateAccountTx_deserialize(u0)
            = Ok([creator |-> v.creator, account |-> v.account], t)
        BY <1>1, <2>1, <3>2
      <3> QED
        BY <2>1, <3>1, <3>3, Zenon
    <2> QED
      BY <2>2, <2>w2, <2>4, Zenon
  <1>3. ASSUME NEW s \in Streams, CreateAccountTx_deserialize(s).ok
        PROVE  \E v \in CreateAccountTx, r \in Streams :
                  CreateAccountTx_deserialize(s) = Ok(v, r)
                        /\ \A q \in Streams :
                              CreateAccountTx_deserialize(s \o q) = Ok(v, r \o q)
    <2> DEFINE f1 == TakeInt(s)
               f2 == Account_deserialize(f1.rest)
    <2>1. f1.ok /\ f2.ok
      BY <1>3, Results DEF CreateAccountTx_deserialize, TakeCreated
    <2>a1. PICK a1 \in Ints, r1 \in Streams :
              TakeInt(s) = Ok(a1, r1) /\ \A q \in Streams : TakeInt(s \o q) = Ok(a1, r1 \o q)
      BY <2>1, IntCodec DEF Codec, Reads
    <2>b1. f1.rest = r1 /\ f1.val = a1
      BY <2>a1, Results
    <2>a2. PICK a2 \in Account, r2 \in Streams :
              Account_deserialize(r1) = Ok(a2, r2)
                    /\ \A q \in Streams : Account_deserialize(r1 \o q) = Ok(a2, r2 \o q)
      BY <2>1, <2>b1, AccountCodec DEF Codec, Reads
    <2>b2. f2.rest = r2 /\ f2.val = a2
      BY <2>a2, <2>b1, Results
    <2> DEFINE v == [creator |-> a1, account |-> a2]
    <2>3. v \in CreateAccountTx
      BY <2>a1, <2>a2 DEF CreateAccountTx
    <2>4. CreateAccountTx_deserialize(s) = Ok(v, r2)
      BY <1>1, <2>a1, <2>a2
    <2>5. ASSUME NEW q \in Streams PROVE CreateAccountTx_deserialize(s \o q) = Ok(v, r2 \o q)
      <3> DEFINE t0 == s \o q
                 t1 == r1 \o q
                 t2 == r2 \o q
      <3>1. TakeInt(t0) = Ok(a1, t1) /\ Account_deserialize(t1) = Ok(a2, t2)
        BY <2>a1, <2>a2, Zenon
      <3> HIDE DEF t0, t1, t2
      <3>2. CreateAccountTx_deserialize(t0) = Ok(v, t2)
        BY <1>1, <3>1
      <3> QED
        BY <3>2 DEF t0, t2
    <2> HIDE DEF v
    <2> QED
      BY <2>3, <2>4, <2>5
  <1> QED
    BY <1>2, <1>3 DEF Codec, Writes, Reads

PutNewScript(option) == PutOption(option, push_bytes(option[1]))
TakeNewScript(s) == TakeOption([t \in Streams |-> TakeBytes(t)], s)

LEMMA NewScriptCodec == Codec(PutNewScript, TakeNewScript, Option(ByteString))
  <1> DEFINE take == [t \in Streams |-> TakeBytes(t)]
  <1>0. \A u : TakeNewScript(u) = TakeOption(take, u)
    BY Zenon DEF TakeNewScript
  <1>1. \A t \in Streams : take[t] = TakeBytes(t)
    OBVIOUS
  <1>2. \A s, q \in Streams : s \o q \in Streams
    BY Cat, Zenon
  <1> HIDE DEF take
  <1>3. Reader(take, ByteString)
    <2> SUFFICES ASSUME NEW s \in Streams, take[s].ok
                 PROVE  \E v \in ByteString, r \in Streams :
                           take[s] = Ok(v, r) /\ \A q \in Streams : take[s \o q] = Ok(v, r \o q)
      BY Zenon DEF Reader
    <2>1. PICK v \in ByteString, r \in Streams :
             TakeBytes(s) = Ok(v, r) /\ \A q \in Streams : TakeBytes(s \o q) = Ok(v, r \o q)
      BY <1>1, BytesCodec DEF Codec, Reads
    <2> QED
      BY <1>1, <1>2, <2>1
  <1>4. ASSUME NEW o \in Option(ByteString)
        PROVE  /\ PutNewScript(o) \in Streams /\ PutNewScript(o) # <<>>
               /\ \A t \in Streams : TakeNewScript(PutNewScript(o) \o t) = Ok(o, t)
    <2>1. CASE o = <<>>
      <3>1. PutNewScript(o) = PutOption(<<>>, push_bytes(o[1]))
        BY <2>1, Zenon DEF PutNewScript
      <3> QED
        BY <1>0, <2>1, <3>1, NoneWrites
    <2>2. CASE o # <<>>
      <3>1. o = <<o[1]>> /\ o[1] \in ByteString
        BY <2>2, Some
      <3> DEFINE x == o[1]
                 b == push_bytes(x)
      <3>2. b \in Streams /\ \A t \in Streams : TakeBytes(b \o t) = Ok(x, t)
        BY <3>1, BytesCodec DEF Codec, Writes
      <3>3. \A t \in Streams : take[b \o t] = Ok(x, t)
        BY <1>1, <1>2, <3>2, Zenon
      <3>4. PutNewScript(o) = PutOption(<<x>>, b) /\ o = <<x>>
        BY <3>1 DEF PutNewScript
      <3> HIDE DEF b, x
      <3>5. /\ PutOption(<<x>>, b) \in Streams /\ PutOption(<<x>>, b) # <<>>
            /\ \A t \in Streams : TakeOption(take, PutOption(<<x>>, b) \o t) = Ok(<<x>>, t)
        BY <3>2, <3>3, OptionWrites
      <3> QED
        BY <1>0, <3>4, <3>5, Zenon
    <2> QED
      BY <2>1, <2>2
  <1>5. ASSUME NEW s \in Streams, TakeNewScript(s).ok
        PROVE  \E v \in Option(ByteString), r \in Streams :
                  TakeNewScript(s) = Ok(v, r)
                        /\ \A q \in Streams : TakeNewScript(s \o q) = Ok(v, r \o q)
    <2>1. TakeOption(take, s).ok
      BY <1>0, <1>5, Zenon
    <2>2. \E v \in Option(ByteString), r \in Streams :
             /\ TakeOption(take, s) = Ok(v, r)
             /\ \A q \in Streams : TakeOption(take, s \o q) = Ok(v, r \o q)
      BY <1>3, <2>1, OptionReads
    <2> QED
      BY <1>0, <2>2, Zenon
  <1> QED
    BY <1>4, <1>5 DEF Codec, Writes, Reads

PutNewPermissions(option) == PutOption(option, Permissions_serialize(option[1]))
TakeNewPermissions(s) == TakeOption([t \in Streams |-> Permissions_deserialize(t)], s)

LEMMA NewPermissionsCodec == Codec(PutNewPermissions, TakeNewPermissions, Option(Permissions))
  <1> DEFINE take == [t \in Streams |-> Permissions_deserialize(t)]
  <1>0. \A u : TakeNewPermissions(u) = TakeOption(take, u)
    BY Zenon DEF TakeNewPermissions
  <1>1. \A t \in Streams : take[t] = Permissions_deserialize(t)
    OBVIOUS
  <1>2. \A s, q \in Streams : s \o q \in Streams
    BY Cat, Zenon
  <1> HIDE DEF take
  <1>3. Reader(take, Permissions)
    <2> SUFFICES ASSUME NEW s \in Streams, take[s].ok
                 PROVE  \E v \in Permissions, r \in Streams :
                           take[s] = Ok(v, r) /\ \A q \in Streams : take[s \o q] = Ok(v, r \o q)
      BY Zenon DEF Reader
    <2>1. PICK v \in Permissions, r \in Streams :
             Permissions_deserialize(s) = Ok(v, r)
                   /\ \A q \in Streams : Permissions_deserialize(s \o q) = Ok(v, r \o q)
      BY <1>1, PermissionsCodec DEF Codec, Reads
    <2> QED
      BY <1>1, <1>2, <2>1
  <1>4. ASSUME NEW o \in Option(Permissions)
        PROVE  /\ PutNewPermissions(o) \in Streams /\ PutNewPermissions(o) # <<>>
               /\ \A t \in Streams : TakeNewPermissions(PutNewPermissions(o) \o t) = Ok(o, t)
    <2>1. CASE o = <<>>
      <3>1. PutNewPermissions(o) = PutOption(<<>>, Permissions_serialize(o[1]))
        BY <2>1, Zenon DEF PutNewPermissions
      <3> QED
        BY <1>0, <2>1, <3>1, NoneWrites
    <2>2. CASE o # <<>>
      <3>1. o = <<o[1]>> /\ o[1] \in Permissions
        BY <2>2, Some
      <3> DEFINE x == o[1]
                 b == Permissions_serialize(x)
      <3>2. b \in Streams /\ \A t \in Streams : Permissions_deserialize(b \o t) = Ok(x, t)
        BY <3>1, PermissionsCodec DEF Codec, Writes
      <3>3. \A t \in Streams : take[b \o t] = Ok(x, t)
        BY <1>1, <1>2, <3>2, Zenon
      <3>4. PutNewPermissions(o) = PutOption(<<x>>, b) /\ o = <<x>>
        BY <3>1 DEF PutNewPermissions
      <3> HIDE DEF b, x
      <3>5. /\ PutOption(<<x>>, b) \in Streams /\ PutOption(<<x>>, b) # <<>>
            /\ \A t \in Streams : TakeOption(take, PutOption(<<x>>, b) \o t) = Ok(<<x>>, t)
        BY <3>2, <3>3, OptionWrites
      <3> QED
        BY <1>0, <3>4, <3>5, Zenon
    <2> QED
      BY <2>1, <2>2
  <1>5. ASSUME NEW s \in Streams, TakeNewPermissions(s).ok
        PROVE  \E v \in Option(Permissions), r \in Streams :
                  TakeNewPermissions(s) = Ok(v, r)
                        /\ \A q \in Streams : TakeNewPermissions(s \o q) = Ok(v, r \o q)
    <2>1. TakeOption(take, s).ok
      BY <1>0, <1>5, Zenon
    <2>2. \E v \in Option(Permissions), r \in Streams :
             /\ TakeOption(take, s) = Ok(v, r)
             /\ \A q \in Streams : TakeOption(take, s \o q) = Ok(v, r \o q)
      BY <1>3, <2>1, OptionReads
    <2> QED
      BY <1>0, <2>2, Zenon
  <1> QED
    BY <1>4, <1>5 DEF Codec, Writes, Reads

LEMMA UpdateAccountTxCodec ==
   Codec(UpdateAccountTx_serialize, UpdateAccountTx_deserialize, UpdateAccountTx)
  <1>1. ASSUME NEW s, NEW a1, NEW r1, NEW a2, NEW r2, NEW a3, NEW r3,
               TakeInt(s) = Ok(a1, r1),
               TakeNewScript(r1) = Ok(a2, r2),
               TakeNewPermissions(r2) = Ok(a3, r3)
        PROVE  UpdateAccountTx_deserialize(s)
              = Ok([account_id |-> a1, new_script |-> a2, new_permissions |-> a3], r3)
    BY <1>1, Results DEF UpdateAccountTx_deserialize, TakeNewScript, TakeNewPermissions
  <1>2. ASSUME NEW v \in UpdateAccountTx
        PROVE  /\ UpdateAccountTx_serialize(v) \in Streams
                     /\ UpdateAccountTx_serialize(v) # <<>>
               /\ \A t \in Streams :
                     UpdateAccountTx_deserialize(UpdateAccountTx_serialize(v) \o t) = Ok(v, t)
    <2> DEFINE p1 == PushInt(v.account_id)
               p2 == PutNewScript(v.new_script)
               p3 == PutNewPermissions(v.new_permissions)
    <2>1. /\ v.account_id \in Ints /\ v.new_script \in Option(ByteString)
                /\ v.new_permissions \in Option(Permissions)
          /\ v
                = [account_id |-> v.account_id, new_script |-> v.new_script,
                      new_permissions |-> v.new_permissions]
      BY DEF UpdateAccountTx
    <2>p1. p1 \in Streams /\ p1 # <<>>
          /\ \A t \in Streams : TakeInt(p1 \o t) = Ok(v.account_id, t)
      BY <2>1, IntCodec DEF Codec, Writes
    <2>p2. p2 \in Streams /\ p2 # <<>>
          /\ \A t \in Streams : TakeNewScript(p2 \o t) = Ok(v.new_script, t)
      BY <2>1, NewScriptCodec DEF Codec, Writes
    <2>p3. p3 \in Streams /\ p3 # <<>>
          /\ \A t \in Streams : TakeNewPermissions(p3 \o t) = Ok(v.new_permissions, t)
      BY <2>1, NewPermissionsCodec DEF Codec, Writes
    <2> DEFINE w1 == p1
               w2 == w1 \o p2
               w3 == w2 \o p3
    <2>2. UpdateAccountTx_serialize(v) = w3
      BY Zenon DEF UpdateAccountTx_serialize, PutByte, PutNewScript, PutNewPermissions
    <2> HIDE DEF p1, p2, p3
    <2>w2. w2 \in Streams /\ w2 # <<>>
      BY <2>p2, <2>p1, CatBehind, Zenon
    <2>w3. w3 \in Streams /\ w3 # <<>>
      BY <2>p3, <2>w2, CatBehind, Zenon
    <2>4. ASSUME NEW t \in Streams
          PROVE UpdateAccountTx_deserialize(UpdateAccountTx_serialize(v) \o t) = Ok(v, t)
      <3> DEFINE u3 == t
                 u2 == p3 \o u3
                 u1 == p2 \o u2
                 u0 == p1 \o u1
      <3>s2. u2 \in Streams
        BY <2>p3, Cat, Zenon
      <3>s1. u1 \in Streams
        BY <2>p2, <3>s2, Cat, Zenon
      <3>e3. w3 \o u3 = w2 \o u2
        <4> HIDE DEF w2
        <4> QED
          BY <2>w2, <2>p3, CatAssoc, Zenon DEF w3
      <3>e2. w2 \o u2 = w1 \o u1
        BY <2>p1, <2>p2, <3>s2, CatAssoc, Zenon
      <3>1. UpdateAccountTx_serialize(v) \o t = u0
        <4>1. w1 \o u1 = u0
          OBVIOUS
        <4> HIDE DEF w1, w2, w3, u0, u1, u2
        <4> QED
          BY <2>2, <4>1, <3>e3, <3>e2, Zenon
      <3>2. TakeInt(u0) = Ok(v.account_id, u1) /\ TakeNewScript(u1) = Ok(v.new_script, u2)
            /\ TakeNewPermissions(u2) = Ok(v.new_permissions, u3)
        BY <2>p1, <2>p2, <2>p3, <3>s1, <3>s2, Zenon
      <3> HIDE DEF u0, u1, u2
      <3>3. UpdateAccountTx_deserialize(u0)
            = Ok([account_id |-> v.account_id, new_script |-> v.new_script,
                  new_permissions |-> v.new_permissions], t)
        BY <1>1, <2>1, <3>2
      <3> QED
        BY <2>1, <3>1, <3>3, Zenon
    <2> QED
      BY <2>2, <2>w3, <2>4, Zenon
  <1>3. ASSUME NEW s \in Streams, UpdateAccountTx_deserialize(s).ok
        PROVE  \E v \in UpdateAccountTx, r \in Streams :
                  UpdateAccountTx_deserialize(s) = Ok(v, r)
                        /\ \A q \in Streams :
                              UpdateAccountTx_deserialize(s \o q) = Ok(v, r \o q)
    <2> DEFINE f1 == TakeInt(s)
               f2 == TakeNewScript(f1.rest)
               f3 == TakeNewPermissions(f2.rest)
    <2>1. f1.ok /\ f2.ok /\ f3.ok
      BY <1>3, Results DEF UpdateAccountTx_deserialize, TakeNewScript, TakeNewPermissions
    <2>a1. PICK a1 \in Ints, r1 \in Streams :
              TakeInt(s) = Ok(a1, r1) /\ \A q \in Streams : TakeInt(s \o q) = Ok(a1, r1 \o q)
      BY <2>1, IntCodec DEF Codec, Reads
    <2>b1. f1.rest = r1 /\ f1.val = a1
      BY <2>a1, Results
    <2>a2. PICK a2 \in Option(ByteString), r2 \in Streams :
              TakeNewScript(r1) = Ok(a2, r2)
                    /\ \A q \in Streams : TakeNewScript(r1 \o q) = Ok(a2, r2 \o q)
      BY <2>1, <2>b1, NewScriptCodec DEF Codec, Reads
    <2>b2. f2.rest = r2 /\ f2.val = a2
      BY <2>a2, <2>b1, Results
    <2>a3. PICK a3 \in Option(Permissions), r3 \in Streams :
              TakeNewPermissions(r2) = Ok(a3, r3)
                    /\ \A q \in Streams : TakeNewPermissions(r2 \o q) = Ok(a3, r3 \o q)
      BY <2>1, <2>b2, NewPermissionsCodec DEF Codec, Reads
    <2>b3. f3.rest = r3 /\ f3.val = a3
      BY <2>a3, <2>b2, Results
    <2> DEFINE v == [account_id |-> a1, new_script |-> a2, new_permissions |-> a3]
    <2>3. v \in UpdateAccountTx
      BY <2>a1, <2>a2, <2>a3 DEF UpdateAccountTx
    <2>4. UpdateAccountTx_deserialize(s) = Ok(v, r3)
      BY <1>1, <2>a1, <2>a2, <2>a3
    <2>5. ASSUME NEW q \in Streams PROVE UpdateAccountTx_deserialize(s \o q) = Ok(v, r3 \o q)
      <3> DEFINE t0 == s \o q
                 t1 == r1 \o q
                 t2 == r2 \o q
                 t3 == r3 \o q
      <3>1. TakeInt(t0) = Ok(a1, t1) /\ TakeNewScript(t1) = Ok(a2, t2)
            /\ TakeNewPermissions(t2) = Ok(a3, t3)
        BY <2>a1, <2>a2, <2>a3, Zenon
      <3> HIDE DEF t0, t1, t2, t3
      <3>2. UpdateAccountTx_deserialize(t0) = Ok(v, t3)
        BY <1>1, <3>1
      <3> QED
        BY <3>2 DEF t0, t3
    <2> HIDE DEF v
    <2> QED
      BY <2>3, <2>4, <2>5
  <1> QED
    BY <1>2, <1>3 DEF Codec, Writes, Reads

LEMMA TransferTxCodec == Codec(TransferTx_serialize, TransferTx_deserialize, TransferTx)
  <1>1. ASSUME NEW s, NEW a1, NEW r1, NEW a2, NEW r2, NEW a3, NEW r3, NEW a4, NEW r4, NEW a5,
        NEW r5,
               TakeInt(s) = Ok(a1, r1),
               TakeByte(r1) = Ok(a2, r2),
               TakeBytes(r2) = Ok(a3, r3),
               take_asset(r3) = Ok(a4, r4),
               TakeBytes(r4) = Ok(a5, r5)
        PROVE  TransferTx_deserialize(s)
              = Ok([from |-> a1, call_fn |-> a2, args |-> a3, amount |-> a4, memo |-> a5], r5)
    BY <1>1, Results DEF TransferTx_deserialize
  <1>2. ASSUME NEW v \in TransferTx
        PROVE  /\ TransferTx_serialize(v) \in Streams /\ TransferTx_serialize(v) # <<>>
               /\ \A t \in Streams :
                     TransferTx_deserialize(TransferTx_serialize(v) \o t) = Ok(v, t)
    <2> DEFINE p1 == PushInt(v.from)
               p2 == PutByte(v.call_fn)
               p3 == push_bytes(v.args)
               p4 == push_asset(v.amount)
               p5 == push_bytes(v.memo)
    <2>1. /\ v.from \in Ints /\ v.call_fn \in Bytes /\ v.args \in ByteString
          /\ v.amount \in Amounts /\ v.memo \in ByteString
          /\ v
                = [from |-> v.from, call_fn |-> v.call_fn, args |-> v.args, amount |-> v.amount,
                      memo |-> v.memo]
      BY DEF TransferTx
    <2>p1. p1 \in Streams /\ p1 # <<>> /\ \A t \in Streams : TakeInt(p1 \o t) = Ok(v.from, t)
      BY <2>1, IntCodec DEF Codec, Writes
    <2>p2. p2 \in Streams /\ p2 # <<>>
          /\ \A t \in Streams : TakeByte(p2 \o t) = Ok(v.call_fn, t)
      BY <2>1, ByteCodec DEF Codec, Writes
    <2>p3. p3 \in Streams /\ p3 # <<>> /\ \A t \in Streams : TakeBytes(p3 \o t) = Ok(v.args, t)
      BY <2>1, BytesCodec DEF Codec, Writes
    <2>p4. p4 \in Streams /\ p4 # <<>>
          /\ \A t \in Streams : take_asset(p4 \o t) = Ok(v.amount, t)
      BY <2>1, AssetCodec DEF Codec, Writes
    <2>p5. p5 \in Streams /\ p5 # <<>> /\ \A t \in Streams : TakeBytes(p5 \o t) = Ok(v.memo, t)
      BY <2>1, BytesCodec DEF Codec, Writes
    <2> DEFINE w1 == p1
               w2 == w1 \o p2
               w3 == w2 \o p3
               w4 == w3 \o p4
               w5 == w4 \o p5
    <2>2. TransferTx_serialize(v) = w5
      BY Zenon DEF TransferTx_serialize, PutByte
    <2> HIDE DEF p1, p2, p3, p4, p5
    <2>w2. w2 \in Streams /\ w2 # <<>>
      BY <2>p2, <2>p1, CatBehind, Zenon
    <2>w3. w3 \in Streams /\ w3 # <<>>
      BY <2>p3, <2>w2, CatBehind, Zenon
    <2>w4. w4 \in Streams /\ w4 # <<>>
      BY <2>p4, <2>w3, CatBehind, Zenon
    <2>w5. w5 \in Streams /\ w5 # <<>>
      BY <2>p5, <2>w4, CatBehind, Zenon
    <2>4. ASSUME NEW t \in Streams
          PROVE TransferTx_deserialize(TransferTx_serialize(v) \o t) = Ok(v, t)
      <3> DEFINE u5 == t
                 u4 == p5 \o u5
                 u3 == p4 \o u4
                 u2 == p3 \o u3
                 u1 == p2 \o u2
                 u0 == p1 \o u1
      <3>s4. u4 \in Streams
        BY <2>p5, Cat, Zenon
      <3>s3. u3 \in Streams
        BY <2>p4, <3>s4, Cat, Zenon
      <3>s2. u2 \in Streams
        BY <2>p3, <3>s3, Cat, Zenon
      <3>s1. u1 \in Streams
        BY <2>p2, <3>s2, Cat, Zenon
      <3>e5. w5 \o u5 = w4 \o u4
        <4> HIDE DEF w4
        <4> QED
          BY <2>w4, <2>p5, CatAssoc, Zenon DEF w5
      <3>e4. w4 \o u4 = w3 \o u3
        <4> HIDE DEF w3
        <4> QED
          BY <2>w3, <2>p4, <3>s4, CatAssoc, Zenon DEF w4
      <3>e3. w3 \o u3 = w2 \o u2
        <4> HIDE DEF w2
        <4> QED
          BY <2>w2, <2>p3, <3>s3, CatAssoc, Zenon DEF w3
      <3>e2. w2 \o u2 = w1 \o u1
        BY <2>p1, <2>p2, <3>s2, CatAssoc, Zenon
      <3>1. TransferTx_serialize(v) \o t = u0
        <4>1. w1 \o u1 = u0
          OBVIOUS
        <4> HIDE DEF w1, w2, w3, w4, w5, u0, u1, u2, u3, u4
        <4> QED
          BY <2>2, <4>1, <3>e5, <3>e4, <3>e3, <3>e2, Zenon
      <3>2. TakeInt(u0) = Ok(v.from, u1) /\ TakeByte(u1) = Ok(v.call_fn, u2)
            /\ TakeBytes(u2) = Ok(v.args, u3) /\ take_asset(u3) = Ok(v.amount, u4)
                  /\ TakeBytes(u4) = Ok(v.memo, u5)
        BY <2>p1, <2>p2, <2>p3, <2>p4, <2>p5, <3>s1, <3>s2, <3>s3, <3>s4, Zenon
      <3> HIDE DEF u0, u1, u2, u3, u4
      <3>3. TransferTx_deserialize(u0)
            = Ok([from |-> v.from, call_fn |-> v.call_fn, args |-> v.args, amount |-> v.amount,
                  memo |-> v.memo], t)
        BY <1>1, <2>1, <3>2
      <3> QED
        BY <2>1, <3>1, <3>3, Zenon
    <2> QED
      BY <2>2, <2>w5, <2>4, Zenon
  <1>3. ASSUME NEW s \in Streams, TransferTx_deserialize(s).ok
        PROVE  \E v \in TransferTx, r \in Streams :
                  TransferTx_deserialize(s) = Ok(v, r)
                        /\ \A q \in Streams : TransferTx_deserialize(s \o q) = Ok(v, r \o q)
    <2> DEFINE f1 == TakeInt(s)
               f2 == TakeByte(f1.rest)
               f3 == TakeBytes(f2.rest)
               f4 == take_asset(f3.rest)
               f5 == TakeBytes(f4.rest)
    <2>1. f1.ok /\ f2.ok /\ f3.ok /\ f4.ok /\ f5.ok
      BY <1>3, Results DEF TransferTx_deserialize
    <2>a1. PICK a1 \in Ints, r1 \in Streams :
              TakeInt(s) = Ok(a1, r1) /\ \A q \in Streams : TakeInt(s \o q) = Ok(a1, r1 \o q)
      BY <2>1, IntCodec DEF Codec, Reads
    <2>b1. f1.rest = r1 /\ f1.val = a1
      BY <2>a1, Results
    <2>a2. PICK a2 \in Bytes, r2 \in Streams :
              TakeByte(r1) = Ok(a2, r2)
                    /\ \A q \in Streams : TakeByte(r1 \o q) = Ok(a2, r2 \o q)
      BY <2>1, <2>b1, ByteCodec DEF Codec, Reads
    <2>b2. f2.rest = r2 /\ f2.val = a2
      BY <2>a2, <2>b1, Results
    <2>a3. PICK a3 \in ByteString, r3 \in Streams :
              TakeBytes(r2) = Ok(a3, r3)
                    /\ \A q \in Streams : TakeBytes(r2 \o q) = Ok(a3, r3 \o q)
      BY <2>1, <2>b2, BytesCodec DEF Codec, Reads
    <2>b3. f3.rest = r3 /\ f3.val = a3
      BY <2>a3, <2>b2, Results
    <2>a4. PICK a4 \in Amounts, r4 \in Streams :
              take_asset(r3) = Ok(a4, r4)
                    /\ \A q \in Streams : take_asset(r3 \o q) = Ok(a4, r4 \o q)
      BY <2>1, <2>b3, AssetCodec DEF Codec, Reads
    <2>b4. f4.rest = r4 /\ f4.val = a4
      BY <2>a4, <2>b3, Results
    <2>a5. PICK a5 \in ByteString, r5 \in Streams :
              TakeBytes(r4) = Ok(a5, r5)
                    /\ \A q \in Streams : TakeBytes(r4 \o q) = Ok(a5, r5 \o q)
      BY <2>1, <2>b4, BytesCodec DEF Codec, Reads
    <2>b5. f5.rest = r5 /\ f5.val = a5
      BY <2>a5, <2>b4, Results
    <2> DEFINE v == [from |-> a1, call_fn |-> a2, args |-> a3, amount |-> a4, memo |-> a5]
    <2>3. v \in TransferTx
      BY <2>a1, <2>a2, <2>a3, <2>a4, <2>a5 DEF TransferTx
    <2>4. TransferTx_deserialize(s) = Ok(v, r5)
      BY <1>1, <2>a1, <2>a2, <2>a3, <2>a4, <2>a5
    <2>5. ASSUME NEW q \in Streams PROVE TransferTx_deserialize(s \o q) = Ok(v, r5 \o q)
      <3> DEFINE t0 == s \o q
                 t1 == r1 \o q
                 t2 == r2 \o q
                 t3 == r3 \o q
                 t4 == r4 \o q
                 t5 == r5 \o q
      <3>1. TakeInt(t0) = Ok(a1, t1) /\ TakeByte(t1) = Ok(a2, t2) /\ TakeBytes(t2) = Ok(a3, t3)
            /\ take_asset(t3) = Ok(a4, t4) /\ TakeBytes(t4) = Ok(a5, t5)
        BY <2>a1, <2>a2, <2>a3, <2>a4, <2>a5, Zenon
      <3> HIDE DEF t0, t1, t2, t3, t4, t5
      <3>2. TransferTx_deserialize(t0) = Ok(v, t5)
        BY <1>1, <3>1
      <3> QED
        BY <3>2 DEF t0, t5
    <2> HIDE DEF v
    <2> QED
      BY <2>3, <2>4, <2>5
  <1> QED
    BY <1>2, <1>3 DEF Codec, Writes, Reads

LEMMA TxTags ==
  /\ Tags(TxType)
  /\ DOMAIN TxType = {"OwnerTx", "MintTx", "CreateAccountTx", "UpdateAccountTx", "TransferTx"}
  BY Widths DEF Tags, TxType, Bytes

\* What a transaction of a type holds.
TxValue(type) ==
    CASE type = "OwnerTx" -> OwnerTx
      [] type = "MintTx" -> MintTx
      [] type = "CreateAccountTx" -> CreateAccountTx
      [] type = "UpdateAccountTx" -> UpdateAccountTx
      [] type = "TransferTx" -> TransferTx

LEMMA TxShape ==
  ASSUME NEW S
  PROVE  /\ \A tx \in TxSignedBy(S) :
               /\ tx.type \in DOMAIN TxType /\ tx.base \in TxBase
               /\ tx.val \in TxValue(tx.type) /\ tx.sigs \in S
               /\ tx = [type |-> tx.type, base |-> tx.base, val |-> tx.val, sigs |-> tx.sigs]
         /\ \A y \in DOMAIN TxType, b \in TxBase, g \in S : \A x \in TxValue(y) :
               [type |-> y, base |-> b, val |-> x, sigs |-> g] \in TxSignedBy(S)
  <1>1. ASSUME NEW tx \in TxSignedBy(S)
        PROVE  /\ tx.type \in DOMAIN TxType /\ tx.base \in TxBase
               /\ tx.val \in TxValue(tx.type) /\ tx.sigs \in S
               /\ tx = [type |-> tx.type, base |-> tx.base, val |-> tx.val, sigs |-> tx.sigs]
    <2>1. CASE tx \in TxOf("OwnerTx", OwnerTx, S)
      <3>1. /\ tx.type = "OwnerTx" /\ tx.base \in TxBase /\ tx.val \in OwnerTx /\ tx.sigs \in S
            /\ tx = [type |-> tx.type, base |-> tx.base, val |-> tx.val, sigs |-> tx.sigs]
        BY <2>1 DEF TxOf
      <3>2. TxValue(tx.type) = OwnerTx
        BY <3>1 DEF TxValue
      <3> QED
        BY <3>1, <3>2, TxTags
    <2>2. CASE tx \in TxOf("MintTx", MintTx, S)
      <3>1. /\ tx.type = "MintTx" /\ tx.base \in TxBase /\ tx.val \in MintTx /\ tx.sigs \in S
            /\ tx = [type |-> tx.type, base |-> tx.base, val |-> tx.val, sigs |-> tx.sigs]
        BY <2>2 DEF TxOf
      <3>2. TxValue(tx.type) = MintTx
        BY <3>1 DEF TxValue
      <3> QED
        BY <3>1, <3>2, TxTags
    <2>3. CASE tx \in TxOf("CreateAccountTx", CreateAccountTx, S)
      <3>1. /\ tx.type = "CreateAccountTx" /\ tx.base \in TxBase /\ tx.val \in CreateAccountTx
                  /\ tx.sigs \in S
            /\ tx = [type |-> tx.type, base |-> tx.base, val |-> tx.val, sigs |-> tx.sigs]
        BY <2>3 DEF TxOf
      <3>2. TxValue(tx.type) = CreateAccountTx
        BY <3>1 DEF TxValue
      <3> QED
        BY <3>1, <3>2, TxTags
    <2>4. CASE tx \in TxOf("UpdateAccountTx", UpdateAccountTx, S)
      <3>1. /\ tx.type = "UpdateAccountTx" /\ tx.base \in TxBase /\ tx.val \in UpdateAccountTx
                  /\ tx.sigs \in S
            /\ tx = [type |-> tx.type, base |-> tx.base, val |-> tx.val, sigs |-> tx.sigs]
        BY <2>4 DEF TxOf
      <3>2. TxValue(tx.type) = UpdateAccountTx
        BY <3>1 DEF TxValue
      <3> QED
        BY <3>1, <3>2, TxTags
    <2>5. CASE tx \in TxOf("TransferTx", TransferTx, S)
      <3>1. /\ tx.type = "TransferTx" /\ tx.base \in TxBase /\ tx.val \in TransferTx
                  /\ tx.sigs \in S
            /\ tx = [type |-> tx.type, base |-> tx.base, val |-> tx.val, sigs |-> tx.sigs]
        BY <2>5 DEF TxOf
      <3>2. TxValue(tx.type) = TransferTx
        BY <3>1 DEF TxValue
      <3> QED
        BY <3>1, <3>2, TxTags
    <2> QED
      BY <2>1, <2>2, <2>3, <2>4, <2>5 DEF TxSignedBy
  <1>2. ASSUME NEW y \in DOMAIN TxType, NEW b \in TxBase, NEW g \in S, NEW x \in TxValue(y)
        PROVE  [type |-> y, base |-> b, val |-> x, sigs |-> g] \in TxSignedBy(S)
    <2>1. CASE y = "OwnerTx"
      <3>1. x \in OwnerTx
        BY <2>1 DEF TxValue
      <3>2. [type |-> y, base |-> b, val |-> x, sigs |-> g] \in TxOf("OwnerTx", OwnerTx, S)
        BY <2>1, <3>1 DEF TxOf
      <3> QED
        BY <3>2 DEF TxSignedBy
    <2>2. CASE y = "MintTx"
      <3>1. x \in MintTx
        BY <2>2 DEF TxValue
      <3>2. [type |-> y, base |-> b, val |-> x, sigs |-> g] \in TxOf("MintTx", MintTx, S)
        BY <2>2, <3>1 DEF TxOf
      <3> QED
        BY <3>2 DEF TxSignedBy
    <2>3. CASE y = "CreateAccountTx"
      <3>1. x \in CreateAccountTx
        BY <2>3 DEF TxValue
      <3>2. [type |-> y, base |-> b, val |-> x, sigs |-> g] \in TxOf("CreateAccountTx",
            CreateAccountTx, S)
        BY <2>3, <3>1 DEF TxOf
      <3> QED
        BY <3>2 DEF TxSignedBy
    <2>4. CASE y = "UpdateAccountTx"
      <3>1. x \in UpdateAccountTx
        BY <2>4 DEF TxValue
      <3>2. [type |-> y, base |-> b, val |-> x, sigs |-> g] \in TxOf("UpdateAccountTx",
            UpdateAccountTx, S)
        BY <2>4, <3>1 DEF TxOf
      <3> QED
        BY <3>2 DEF TxSignedBy
    <2>5. CASE y = "TransferTx"
      <3>1. x \in TransferTx
        BY <2>5 DEF TxValue
      <3>2. [type |-> y, base |-> b, val |-> x, sigs |-> g] \in TxOf("TransferTx", TransferTx,
            S)
        BY <2>5, <3>1 DEF TxOf
      <3> QED
        BY <3>2 DEF TxSignedBy
    <2> QED
      BY <2>1, <2>2, <2>3, <2>4, <2>5, TxTags
  <1> QED
    BY <1>1, <1>2

LEMMA TxValueWrites ==
  ASSUME NEW y \in DOMAIN TxType, NEW x \in TxValue(y)
  PROVE  /\ SerializeTx(y, x) \in Streams /\ SerializeTx(y, x) # <<>>
         /\ \A t \in Streams : DeserializeTx(y, SerializeTx(y, x) \o t) = Ok(x, t)
  <1>1. CASE y = "OwnerTx"
    <2>1. SerializeTx(y, x) = OwnerTx_serialize(x)
          /\ \A s : DeserializeTx(y, s) = OwnerTx_deserialize(s)
      BY <1>1 DEF SerializeTx, DeserializeTx
    <2>2. x \in OwnerTx
      BY <1>1 DEF TxValue
    <2>3. /\ OwnerTx_serialize(x) \in Streams /\ OwnerTx_serialize(x) # <<>>
          /\ \A t \in Streams : OwnerTx_deserialize(OwnerTx_serialize(x) \o t) = Ok(x, t)
      BY <2>2, OwnerTxCodec DEF Codec, Writes
    <2> QED
      BY <2>1, <2>3, Zenon
  <1>2. CASE y = "MintTx"
    <2>1. SerializeTx(y, x) = MintTx_serialize(x)
          /\ \A s : DeserializeTx(y, s) = MintTx_deserialize(s)
      BY <1>2 DEF SerializeTx, DeserializeTx
    <2>2. x \in MintTx
      BY <1>2 DEF TxValue
    <2>3. /\ MintTx_serialize(x) \in Streams /\ MintTx_serialize(x) # <<>>
          /\ \A t \in Streams : MintTx_deserialize(MintTx_serialize(x) \o t) = Ok(x, t)
      BY <2>2, MintTxCodec DEF Codec, Writes
    <2> QED
      BY <2>1, <2>3, Zenon
  <1>3. CASE y = "CreateAccountTx"
    <2>1. SerializeTx(y, x) = CreateAccountTx_serialize(x)
          /\ \A s : DeserializeTx(y, s) = CreateAccountTx_deserialize(s)
      BY <1>3 DEF SerializeTx, DeserializeTx
    <2>2. x \in CreateAccountTx
      BY <1>3 DEF TxValue
    <2>3. /\ CreateAccountTx_serialize(x) \in Streams /\ CreateAccountTx_serialize(x) # <<>>
          /\ \A t \in Streams :
                CreateAccountTx_deserialize(CreateAccountTx_serialize(x) \o t) = Ok(x, t)
      BY <2>2, CreateAccountTxCodec DEF Codec, Writes
    <2> QED
      BY <2>1, <2>3, Zenon
  <1>4. CASE y = "UpdateAccountTx"
    <2>1. SerializeTx(y, x) = UpdateAccountTx_serialize(x)
          /\ \A s : DeserializeTx(y, s) = UpdateAccountTx_deserialize(s)
      BY <1>4 DEF SerializeTx, DeserializeTx
    <2>2. x \in UpdateAccountTx
      BY <1>4 DEF TxValue
    <2>3. /\ UpdateAccountTx_serialize(x) \in Streams /\ UpdateAccountTx_serialize(x) # <<>>
          /\ \A t \in Streams :
                UpdateAccountTx_deserialize(UpdateAccountTx_serialize(x) \o t) = Ok(x, t)
      BY <2>2, UpdateAccountTxCodec DEF Codec, Writes
    <2> QED
      BY <2>1, <2>3, Zenon
  <1>5. CASE y = "TransferTx"
    <2>1. SerializeTx(y, x) = TransferTx_serialize(x)
          /\ \A s : DeserializeTx(y, s) = TransferTx_deserialize(s)
      BY <1>5 DEF SerializeTx, DeserializeTx
    <2>2. x \in TransferTx
      BY <1>5 DEF TxValue
    <2>3. /\ TransferTx_serialize(x) \in Streams /\ TransferTx_serialize(x) # <<>>
          /\ \A t \in Streams : TransferTx_deserialize(TransferTx_serialize(x) \o t) = Ok(x, t)
      BY <2>2, TransferTxCodec DEF Codec, Writes
    <2> QED
      BY <2>1, <2>3, Zenon
  <1> QED
    BY <1>1, <1>2, <1>3, <1>4, <1>5, TxTags

LEMMA TxValueReads ==
  ASSUME NEW y \in DOMAIN TxType, NEW s \in Streams, DeserializeTx(y, s).ok
  PROVE  \E x \in TxValue(y), r \in Streams :
            /\ DeserializeTx(y, s) = Ok(x, r)
            /\ \A q \in Streams : DeserializeTx(y, s \o q) = Ok(x, r \o q)
  <1>1. CASE y = "OwnerTx"
    <2>1. TxValue(y) = OwnerTx /\ \A u : DeserializeTx(y, u) = OwnerTx_deserialize(u)
      BY <1>1 DEF TxValue, DeserializeTx
    <2>2. OwnerTx_deserialize(s).ok
      BY <2>1, Zenon
    <2>3. \E x \in OwnerTx, r \in Streams :
             /\ OwnerTx_deserialize(s) = Ok(x, r)
             /\ \A q \in Streams : OwnerTx_deserialize(s \o q) = Ok(x, r \o q)
      BY <2>2, OwnerTxCodec DEF Codec, Reads
    <2> QED
      BY <2>1, <2>3
  <1>2. CASE y = "MintTx"
    <2>1. TxValue(y) = MintTx /\ \A u : DeserializeTx(y, u) = MintTx_deserialize(u)
      BY <1>2 DEF TxValue, DeserializeTx
    <2>2. MintTx_deserialize(s).ok
      BY <2>1, Zenon
    <2>3. \E x \in MintTx, r \in Streams :
             /\ MintTx_deserialize(s) = Ok(x, r)
             /\ \A q \in Streams : MintTx_deserialize(s \o q) = Ok(x, r \o q)
      BY <2>2, MintTxCodec DEF Codec, Reads
    <2> QED
      BY <2>1, <2>3
  <1>3. CASE y = "CreateAccountTx"
    <2>1. TxValue(y) = CreateAccountTx
          /\ \A u : DeserializeTx(y, u) = CreateAccountTx_deserialize(u)
      BY <1>3 DEF TxValue, DeserializeTx
    <2>2. CreateAccountTx_deserialize(s).ok
      BY <2>1, Zenon
    <2>3. \E x \in CreateAccountTx, r \in Streams :
             /\ CreateAccountTx_deserialize(s) = Ok(x, r)
             /\ \A q \in Streams : CreateAccountTx_deserialize(s \o q) = Ok(x, r \o q)
      BY <2>2, CreateAccountTxCodec DEF Codec, Reads
    <2> QED
      BY <2>1, <2>3
  <1>4. CASE y = "UpdateAccountTx"
    <2>1. TxValue(y) = UpdateAccountTx
          /\ \A u : DeserializeTx(y, u) = UpdateAccountTx_deserialize(u)
      BY <1>4 DEF TxValue, DeserializeTx
    <2>2. UpdateAccountTx_deserialize(s).ok
      BY <2>1, Zenon
    <2>3. \E x \in UpdateAccountTx, r \in Streams :
             /\ UpdateAccountTx_deserialize(s) = Ok(x, r)
             /\ \A q \in Streams : UpdateAccountTx_deserialize(s \o q) = Ok(x, r \o q)
      BY <2>2, UpdateAccountTxCodec DEF Codec, Reads
    <2> QED
      BY <2>1, <2>3
  <1>5. CASE y = "TransferTx"
    <2>1. TxValue(y) = TransferTx /\ \A u : DeserializeTx(y, u) = TransferTx_deserialize(u)
      BY <1>5 DEF TxValue, DeserializeTx
    <2>2. TransferTx_deserialize(s).ok
      BY <2>1, Zenon
    <2>3. \E x \in TransferTx, r \in Streams :
             /\ TransferTx_deserialize(s) = Ok(x, r)
             /\ \A q \in Streams : TransferTx_deserialize(s \o q) = Ok(x, r \o q)
      BY <2>2, TransferTxCodec DEF Codec, Reads
    <2> QED
      BY <2>1, <2>3
  <1> QED
    BY <1>1, <1>2, <1>3, <1>4, <1>5, TxTags

PutSigs(xs) == PutList(BYTE, [i \in DOMAIN xs |-> push_sig_pair(xs[i])])
TakeSigs(s) == TakeList(BYTE, [t \in Streams |-> take_sig_pair(t)], s)

LEMMA SigsPieces ==
  /\ Reader([t \in Streams |-> take_sig_pair(t)], SigPair)
  /\ \A xs \in Seq(SigPair) : Pieces([t \in Streams |-> take_sig_pair(t)], xs,
        [i \in DOMAIN xs |-> push_sig_pair(xs[i])])
  <1> DEFINE take == [t \in Streams |-> take_sig_pair(t)]
  <1>1. \A t \in Streams : take[t] = take_sig_pair(t)
    OBVIOUS
  <1>2. \A s, q \in Streams : s \o q \in Streams
    BY Cat, Zenon
  <1> HIDE DEF take
  <1>3. Reader(take, SigPair)
    <2> SUFFICES ASSUME NEW s \in Streams, take[s].ok
                 PROVE  \E v \in SigPair, r \in Streams :
                           take[s] = Ok(v, r) /\ \A q \in Streams : take[s \o q] = Ok(v, r \o q)
      BY Zenon DEF Reader
    <2>1. PICK v \in SigPair, r \in Streams :
             take_sig_pair(s) = Ok(v, r)
                   /\ \A q \in Streams : take_sig_pair(s \o q) = Ok(v, r \o q)
      BY <1>1, SigPairCodec DEF Codec, Reads
    <2> QED
      BY <1>1, <1>2, <2>1
  <1>4. ASSUME NEW xs \in Seq(SigPair)
        PROVE  Pieces(take, xs, [i \in DOMAIN xs |-> push_sig_pair(xs[i])])
    <2> DEFINE pieces == [i \in DOMAIN xs |-> push_sig_pair(xs[i])]
    <2>1. /\ DOMAIN xs = 1 .. Len(xs) /\ Len(xs) \in Nat
          /\ \A i \in 1 .. Len(xs) : xs[i] \in SigPair
      OBVIOUS
    <2>2. \A i \in 1 .. Len(xs) : pieces[i] = push_sig_pair(xs[i])
      BY <2>1
    <2>3. ASSUME NEW i \in 1 .. Len(xs)
          PROVE  /\ pieces[i] \in Streams /\ pieces[i] # <<>>
                 /\ \A t \in Streams : take_sig_pair(pieces[i] \o t) = Ok(xs[i], t)
      BY <2>1, <2>2, SigPairCodec DEF Codec, Writes
    <2>4. pieces \in Seq(Streams) /\ Len(pieces) = Len(xs)
      BY <2>1, <2>3
    <2> HIDE DEF pieces
    <2>5. \A i \in 1 .. Len(xs) : \A t \in Streams : take[pieces[i] \o t] = Ok(xs[i], t)
      BY <1>1, <1>2, <2>3
    <2>6. Pieces(take, xs, pieces)
      BY <2>3, <2>4, <2>5 DEF Pieces
    <2> QED
      BY <2>6 DEF pieces
  <1> QED
    BY <1>3, <1>4 DEF take

LEMMA SigsCodec == Codec(PutSigs, TakeSigs, List(SigPair, BYTE))
  <1> DEFINE take == [t \in Streams |-> take_sig_pair(t)]
  <1>0. CountWidth(BYTE)
    BY DEF CountWidth
  <1>1. Reader(take, SigPair)
    BY SigsPieces
  <1>2. ASSUME NEW v \in List(SigPair, BYTE)
        PROVE  /\ PutSigs(v) \in Streams /\ PutSigs(v) # <<>>
               /\ \A t \in Streams : TakeSigs(PutSigs(v) \o t) = Ok(v, t)
    <2> DEFINE pieces == [i \in DOMAIN v |-> push_sig_pair(v[i])]
    <2>1. v \in Seq(SigPair)
      BY DEF List
    <2>2. Pieces(take, v, pieces)
      BY <2>1, SigsPieces, Zenon
    <2>3. PutSigs(v) = PutList(BYTE, pieces) /\ \A s : TakeSigs(s) = TakeList(BYTE, take, s)
      BY Zenon DEF PutSigs, TakeSigs
    <2> HIDE DEF take, pieces
    <2>4. /\ PutList(BYTE, pieces) \in Streams /\ PutList(BYTE, pieces) # <<>>
          /\ \A t \in Streams : TakeList(BYTE, take, PutList(BYTE, pieces) \o t) = Ok(v, t)
      BY <1>0, <1>1, <2>2, FittingListWrites
    <2> QED
      BY <2>3, <2>4, Zenon
  <1>3. ASSUME NEW s \in Streams, TakeSigs(s).ok
        PROVE  \E v \in List(SigPair, BYTE), r \in Streams :
                  TakeSigs(s) = Ok(v, r) /\ \A q \in Streams : TakeSigs(s \o q) = Ok(v, r \o q)
    <2>1. \A u : TakeSigs(u) = TakeList(BYTE, take, u)
      BY Zenon DEF TakeSigs
    <2> HIDE DEF take
    <2>2. TakeList(BYTE, take, s).ok
      BY <1>3, <2>1, Zenon
    <2>3. \E l \in List(SigPair, BYTE), r \in Streams :
             /\ TakeList(BYTE, take, s) = Ok(l, r)
             /\ \A q \in Streams : TakeList(BYTE, take, s \o q) = Ok(l, r \o q)
      BY <1>0, <1>1, <2>2, ListReads
    <2> QED
      BY <2>1, <2>3, Zenon
  <1> QED
    BY <1>2, <1>3 DEF Codec, Writes, Reads

\* The result of reading a transaction whose parts are read as y, b and x, and
\* whose signatures are read from u.
Signed(y, b, x, u) ==
    IF TakeSigs(u).ok
    THEN Ok([type |-> y, base |-> b, val |-> x, sigs |-> TakeSigs(u).val], TakeSigs(u).rest)
    ELSE Fail

LEMMA TxSteps ==
  ASSUME NEW s, NEW r1, TakeInt(s) = Ok(Version, r1),
         NEW y, NEW r2, TakeTag(TxType, r1) = Ok(y, r2),
         NEW b, NEW r3, deserialize_header(r2) = Ok(b, r3),
         NEW x, NEW r4, DeserializeTx(y, r3) = Ok(x, r4)
  PROVE  TxVariant_deserialize(s) = Signed(y, b, x, r4)
  <1>1. /\ TakeInt(s).ok /\ TakeInt(s).val = Version /\ TakeInt(s).rest = r1
        /\ TakeTag(TxType, r1).ok /\ TakeTag(TxType, r1).val = y
              /\ TakeTag(TxType, r1).rest = r2
        /\ deserialize_header(r2).ok /\ deserialize_header(r2).val = b
        /\ deserialize_header(r2).rest = r3
        /\ DeserializeTx(y, r3).ok /\ DeserializeTx(y, r3).val = x
              /\ DeserializeTx(y, r3).rest = r4
    BY Results
  <1> QED
    BY <1>1, Zenon DEF TxVariant_deserialize, Signed, TakeSigs, TakeSigned

LEMMA WithoutSigsReads ==
  ASSUME NEW S, NEW tx \in TxSignedBy(S)
  PROVE  /\ serialize_without_sigs(tx) \in Streams /\ serialize_without_sigs(tx) # <<>>
         /\ \A t \in Streams :
               TxVariant_deserialize(serialize_without_sigs(tx) \o t)
                  = Signed(tx.type, tx.base, tx.val, t)
  <1> DEFINE p1 == PushInt(Version)
             p2 == <<TxType[tx.type]>>
             p3 == serialize_header(tx.base)
             p4 == SerializeTx(tx.type, tx.val)
  <1>0. tx.type \in DOMAIN TxType /\ tx.base \in TxBase /\ tx.val \in TxValue(tx.type)
    BY TxShape
  <1>p1. p1 \in Streams /\ p1 # <<>> /\ \A t \in Streams : TakeInt(p1 \o t) = Ok(Version, t)
    <2>1. Version \in Ints
      BY Widths DEF Version, Ints
    <2> QED
      BY <2>1, IntCodec DEF Codec, Writes
  <1>p2. p2 \in Streams /\ p2 # <<>>
        /\ \A t \in Streams : TakeTag(TxType, p2 \o t) = Ok(tx.type, t)
    BY <1>0, TxTags, TagWrites
  <1>p3. p3 \in Streams /\ p3 # <<>>
        /\ \A t \in Streams : deserialize_header(p3 \o t) = Ok(tx.base, t)
    BY <1>0, TxBaseCodec DEF Codec, Writes
  <1>p4. /\ p4 \in Streams /\ p4 # <<>>
         /\ \A t \in Streams : DeserializeTx(tx.type, p4 \o t) = Ok(tx.val, t)
    BY <1>0, TxValueWrites
  <1> DEFINE w1 == p1
             w2 == w1 \o p2
             w3 == w2 \o p3
             w4 == w3 \o p4
  <1>2. serialize_without_sigs(tx) = w4
    BY Zenon DEF serialize_without_sigs
  <1> HIDE DEF p1, p2, p3, p4
  <1>w2. w2 \in Streams /\ w2 # <<>>
    BY <1>p2, <1>p1, CatBehind, Zenon
  <1>w3. w3 \in Streams /\ w3 # <<>>
    BY <1>p3, <1>w2, CatBehind, Zenon
  <1>w4. w4 \in Streams /\ w4 # <<>>
    BY <1>p4, <1>w3, CatBehind, Zenon
  <1>4. ASSUME NEW t \in Streams
        PROVE  TxVariant_deserialize(serialize_without_sigs(tx) \o t)
                  = Signed(tx.type, tx.base, tx.val, t)
    <2> DEFINE u4 == t
               u3 == p4 \o u4
               u2 == p3 \o u3
               u1 == p2 \o u2
               u0 == p1 \o u1
    <2>s3. u3 \in Streams
      BY <1>p4, Cat, Zenon
    <2>s2. u2 \in Streams
      BY <1>p3, <2>s3, Cat, Zenon
    <2>s1. u1 \in Streams
      BY <1>p2, <2>s2, Cat, Zenon
    <2>e4. w4 \o u4 = w3 \o u3
      <3> HIDE DEF w3
      <3> QED
        BY <1>w3, <1>p4, CatAssoc, Zenon DEF w4
    <2>e3. w3 \o u3 = w2 \o u2
      <3> HIDE DEF w2
      <3> QED
        BY <1>w2, <1>p3, <2>s3, CatAssoc, Zenon DEF w3
    <2>e2. w2 \o u2 = w1 \o u1
      BY <1>p1, <1>p2, <2>s2, CatAssoc, Zenon
    <2>1. serialize_without_sigs(tx) \o t = u0
      <3>1. w1 \o u1 = u0
        OBVIOUS
      <3> HIDE DEF w1, w2, w3, w4, u0, u1, u2, u3
      <3> QED
        BY <1>2, <3>1, <2>e4, <2>e3, <2>e2, Zenon
    <2>2. /\ TakeInt(u0) = Ok(Version, u1) /\ TakeTag(TxType, u1) = Ok(tx.type, u2)
          /\ deserialize_header(u2) = Ok(tx.base, u3)
          /\ DeserializeTx(tx.type, u3) = Ok(tx.val, u4)
      BY <1>p1, <1>p2, <1>p3, <1>p4, <2>s1, <2>s2, <2>s3, Zenon
    <2> HIDE DEF u0, u1, u2, u3
    <2>3. TxVariant_deserialize(u0) = Signed(tx.type, tx.base, tx.val, t)
      BY <2>2, TxSteps
    <2> QED
      BY <2>1, <2>3, Zenon
  <1> QED
    BY <1>2, <1>w4, <1>4, Zenon

LEMMA TxCodec == Codec(TxVariant_serialize, TxVariant_deserialize, Tx)
  <1>1. ASSUME NEW tx \in Tx
        PROVE  /\ TxVariant_serialize(tx) \in Streams /\ TxVariant_serialize(tx) # <<>>
               /\ \A t \in Streams :
                     TxVariant_deserialize(TxVariant_serialize(tx) \o t) = Ok(tx, t)
    <2> DEFINE h == serialize_without_sigs(tx)
               p == PutSigs(tx.sigs)
    <2>1. tx \in TxSignedBy(List(SigPair, BYTE))
      BY DEF Tx
    <2>2. /\ tx.sigs \in List(SigPair, BYTE)
          /\ tx = [type |-> tx.type, base |-> tx.base, val |-> tx.val, sigs |-> tx.sigs]
      BY <2>1, TxShape
    <2>3. /\ h \in Streams /\ h # <<>>
          /\ \A t \in Streams :
                TxVariant_deserialize(h \o t) = Signed(tx.type, tx.base, tx.val, t)
      BY <2>1, WithoutSigsReads
    <2>4. p \in Streams /\ \A t \in Streams : TakeSigs(p \o t) = Ok(tx.sigs, t)
      BY <2>2, SigsCodec DEF Codec, Writes
    <2>5. TxVariant_serialize(tx) = h \o p
      BY Zenon DEF TxVariant_serialize, PutSigs
    <2> HIDE DEF h, p
    <2>6. ASSUME NEW t \in Streams
          PROVE  TxVariant_deserialize(TxVariant_serialize(tx) \o t) = Ok(tx, t)
      <3>1. (h \o p) \o t = h \o (p \o t)
        BY <2>3, <2>4, CatAssoc, Zenon
      <3>2. p \o t \in Streams
        BY <2>4, Cat, Zenon
      <3> DEFINE u == p \o t
      <3>3. TxVariant_deserialize(TxVariant_serialize(tx) \o t)
            = Signed(tx.type, tx.base, tx.val, u)
        BY <2>3, <2>5, <3>1, <3>2, Zenon
      <3>4. TakeSigs(u) = Ok(tx.sigs, t)
        BY <2>4
      <3> HIDE DEF u
      <3>5. Signed(tx.type, tx.base, tx.val, u)
              = Ok([type |-> tx.type, base |-> tx.base, val |-> tx.val, sigs |-> tx.sigs], t)
        BY <3>4, Results DEF Signed
      <3> QED
        BY <2>2, <3>3, <3>5, Zenon
    <2> QED
      BY <2>3, <2>4, <2>5, <2>6, CatBehind, Zenon
  <1>2. ASSUME NEW s \in Streams, TxVariant_deserialize(s).ok
        PROVE  \E v \in Tx, r \in Streams :
                  /\ TxVariant_deserialize(s) = Ok(v, r)
                  /\ \A q \in Streams : TxVariant_deserialize(s \o q) = Ok(v, r \o q)
    <2> DEFINE f1 == TakeInt(s)
               f2 == TakeTag(TxType, f1.rest)
               f3 == deserialize_header(f2.rest)
               f4 == DeserializeTx(f2.val, f3.rest)
               f5 == TakeSigs(f4.rest)
    <2>1. f1.ok /\ f1.val = Version /\ f2.ok /\ f3.ok /\ f4.ok /\ f5.ok
      BY <1>2, Results DEF TxVariant_deserialize, TakeSigs, TakeSigned
    <2>a1. PICK a1 \in Ints, r1 \in Streams :
              TakeInt(s) = Ok(a1, r1) /\ \A q \in Streams : TakeInt(s \o q) = Ok(a1, r1 \o q)
      BY <2>1, IntCodec DEF Codec, Reads
    <2>b1. f1.rest = r1 /\ a1 = Version
      BY <2>1, <2>a1, Results
    <2>a2. PICK y \in DOMAIN TxType, r2 \in Streams :
              /\ TakeTag(TxType, r1) = Ok(y, r2)
              /\ \A q \in Streams : TakeTag(TxType, r1 \o q) = Ok(y, r2 \o q)
      BY <2>1, <2>b1, TxTags, TagReads
    <2>b2. f2.rest = r2 /\ f2.val = y
      BY <2>b1, <2>a2, Results
    <2>a3. PICK b \in TxBase, r3 \in Streams :
              /\ deserialize_header(r2) = Ok(b, r3)
              /\ \A q \in Streams : deserialize_header(r2 \o q) = Ok(b, r3 \o q)
      BY <2>1, <2>b2, TxBaseCodec DEF Codec, Reads
    <2>b3. f3.rest = r3
      BY <2>b2, <2>a3, Results
    <2>a4. PICK x \in TxValue(y), r4 \in Streams :
              /\ DeserializeTx(y, r3) = Ok(x, r4)
              /\ \A q \in Streams : DeserializeTx(y, r3 \o q) = Ok(x, r4 \o q)
      BY <2>1, <2>b2, <2>b3, TxValueReads
    <2>b4. f4.rest = r4
      BY <2>b2, <2>b3, <2>a4, Results
    <2>a5. PICK g \in List(SigPair, BYTE), r5 \in Streams :
              TakeSigs(r4) = Ok(g, r5) /\ \A q \in Streams : TakeSigs(r4 \o q) = Ok(g, r5 \o q)
      BY <2>1, <2>b4, SigsCodec DEF Codec, Reads
    <2> DEFINE v == [type |-> y, base |-> b, val |-> x, sigs |-> g]
    <2>2. v \in Tx
      BY TxShape DEF Tx
    <2>3. TxVariant_deserialize(s) = Signed(y, b, x, r4)
      BY <2>a1, <2>b1, <2>a2, <2>a3, <2>a4, TxSteps
    <2>4. ASSUME NEW q \in Streams
          PROVE  TxVariant_deserialize(s \o q) = Signed(y, b, x, r4 \o q)
      BY <2>a1, <2>b1, <2>a2, <2>a3, <2>a4, TxSteps
    <2>5. Signed(y, b, x, r4) = Ok(v, r5)
          /\ \A q \in Streams : Signed(y, b, x, r4 \o q) = Ok(v, r5 \o q)
      BY <2>a5, Results DEF Signed
    <2> HIDE DEF v
    <2> QED
      BY <2>2, <2>3, <2>4, <2>5
  <1> QED
    BY <1>1, <1>2 DEF Codec, Writes, Reads

-----------------------------------------------------------------------------
(* Receipts and blocks.                                                    *)

PutTransfer(x) == PushInt(x.account) \o push_asset(x.amount)
TransferEntry == [account : Ints, amount : Amounts]

LEMMA TransferEntryCodec == Codec(PutTransfer, TakeTransfer, TransferEntry)
  <1>1. ASSUME NEW s, NEW a1, NEW r1, NEW a2, NEW r2,
               TakeInt(s) = Ok(a1, r1),
               take_asset(r1) = Ok(a2, r2)
        PROVE  TakeTransfer(s) = Ok([account |-> a1, amount |-> a2], r2)
    BY <1>1, Results DEF TakeTransfer
  <1>2. ASSUME NEW v \in TransferEntry
        PROVE  /\ PutTransfer(v) \in Streams /\ PutTransfer(v) # <<>>
               /\ \A t \in Streams : TakeTransfer(PutTransfer(v) \o t) = Ok(v, t)
    <2> DEFINE p1 == PushInt(v.account)
               p2 == push_asset(v.amount)
    <2>1. /\ v.account \in Ints /\ v.amount \in Amounts
          /\ v = [account |-> v.account, amount |-> v.amount]
      BY DEF TransferEntry
    <2>p1. p1 \in Streams /\ p1 # <<>> /\ \A t \in Streams : TakeInt(p1 \o t) = Ok(v.account, t)
      BY <2>1, IntCodec DEF Codec, Writes
    <2>p2. p2 \in Streams /\ p2 # <<>>
          /\ \A t \in Streams : take_asset(p2 \o t) = Ok(v.amount, t)
      BY <2>1, AssetCodec DEF Codec, Writes
    <2> DEFINE w1 == p1
               w2 == w1 \o p2
    <2>2. PutTransfer(v) = w2
      BY Zenon DEF PutTransfer, PutByte
    <2> HIDE DEF p1, p2
    <2>w2. w2 \in Streams /\ w2 # <<>>
      BY <2>p2, <2>p1, CatBehind, Zenon
    <2>4. ASSUME NEW t \in Streams PROVE TakeTransfer(PutTransfer(v) \o t) = Ok(v, t)
      <3> DEFINE u2 == t
                 u1 == p2 \o u2
                 u0 == p1 \o u1
      <3>s1. u1 \in Streams
        BY <2>p2, Cat, Zenon
      <3>e2. w2 \o u2 = w1 \o u1
        BY <2>p1, <2>p2, CatAssoc, Zenon
      <3>1. PutTransfer(v) \o t = u0
        <4>1. w1 \o u1 = u0
          OBVIOUS
        <4> HIDE DEF w1, w2, u0, u1
        <4> QED
          BY <2>2, <4>1, <3>e2, Zenon
      <3>2. TakeInt(u0) = Ok(v.account, u1) /\ take_asset(u1) = Ok(v.amount, u2)
        BY <2>p1, <2>p2, <3>s1, Zenon
      <3> HIDE DEF u0, u1
      <3>3. TakeTransfer(u0) = Ok([account |-> v.account, amount |-> v.amount], t)
        BY <1>1, <2>1, <3>2
      <3> QED
        BY <2>1, <3>1, <3>3, Zenon
    <2> QED
      BY <2>2, <2>w2, <2>4, Zenon
  <1>3. ASSUME NEW s \in Streams, TakeTransfer(s).ok
        PROVE  \E v \in TransferEntry, r \in Streams :
                  TakeTransfer(s) = Ok(v, r)
                        /\ \A q \in Streams : TakeTransfer(s \o q) = Ok(v, r \o q)
    <2> DEFINE f1 == TakeInt(s)
               f2 == take_asset(f1.rest)
    <2>1. f1.ok /\ f2.ok
      BY <1>3, Results DEF TakeTransfer
    <2>a1. PICK a1 \in Ints, r1 \in Streams :
              TakeInt(s) = Ok(a1, r1) /\ \A q \in Streams : TakeInt(s \o q) = Ok(a1, r1 \o q)
      BY <2>1, IntCodec DEF Codec, Reads
    <2>b1. f1.rest = r1 /\ f1.val = a1
      BY <2>a1, Results
    <2>a2. PICK a2 \in Amounts, r2 \in Streams :
              take_asset(r1) = Ok(a2, r2)
                    /\ \A q \in Streams : take_asset(r1 \o q) = Ok(a2, r2 \o q)
      BY <2>1, <2>b1, AssetCodec DEF Codec, Reads
    <2>b2. f2.rest = r2 /\ f2.val = a2
      BY <2>a2, <2>b1, Results
    <2> DEFINE v == [account |-> a1, amount |-> a2]
    <2>3. v \in TransferEntry
      BY <2>a1, <2>a2 DEF TransferEntry
    <2>4. TakeTransfer(s) = Ok(v, r2)
      BY <1>1, <2>a1, <2>a2
    <2>5. ASSUME NEW q \in Streams PROVE TakeTransfer(s \o q) = Ok(v, r2 \o q)
      <3> DEFINE t0 == s \o q
                 t1 == r1 \o q
                 t2 == r2 \o q
      <3>1. TakeInt(t0) = Ok(a1, t1) /\ take_asset(t1) = Ok(a2, t2)
        BY <2>a1, <2>a2, Zenon
      <3> HIDE DEF t0, t1, t2
      <3>2. TakeTransfer(t0) = Ok(v, t2)
        BY <1>1, <3>1
      <3> QED
        BY <3>2 DEF t0, t2
    <2> HIDE DEF v
    <2> QED
      BY <2>3, <2>4, <2>5
  <1> QED
    BY <1>2, <1>3 DEF Codec, Writes, Reads

LEMMA LogEntryTags ==
  /\ Tags(LogEntry)
  /\ DOMAIN LogEntry = {"Transfer", "Destroy"}
  BY Widths DEF Tags, LogEntry, Bytes

PutLogEntryHeld(type, val) ==
    CASE type = "Transfer" -> PushInt(val.account) \o push_asset(val.amount)
      [] type = "Destroy" -> PushInt(val)
TakeLogEntryHeld(type, s) ==
    CASE type = "Transfer" -> TakeTransfer(s)
      [] type = "Destroy" -> TakeInt(s)

LEMMA LogEntryHeldWrites ==
  ASSUME NEW y \in DOMAIN LogEntry, NEW x, [type |-> y, val |-> x] \in LogEntries
  PROVE  /\ PutLogEntryHeld(y, x) \in Streams
         /\ \A t \in Streams : TakeLogEntryHeld(y, PutLogEntryHeld(y, x) \o t) = Ok(x, t)
  <1>1. CASE y = "Transfer"
    <2>1. x \in TransferEntry
      BY <1>1 DEF LogEntries, EnumOf, TransferEntry
    <2>2. PutLogEntryHeld(y, x) = PutTransfer(x)
          /\ \A s : TakeLogEntryHeld(y, s) = TakeTransfer(s)
      BY <1>1 DEF PutLogEntryHeld, TakeLogEntryHeld, PutTransfer
    <2>3. PutTransfer(x) \in Streams
          /\ \A t \in Streams : TakeTransfer(PutTransfer(x) \o t) = Ok(x, t)
      BY <2>1, TransferEntryCodec DEF Codec, Writes
    <2> QED
      BY <2>2, <2>3, Zenon
  <1>2. CASE y = "Destroy"
    <2>1. x \in Ints
      BY <1>2 DEF LogEntries, EnumOf, TransferEntry
    <2>2. PutLogEntryHeld(y, x) = PushInt(x) /\ \A s : TakeLogEntryHeld(y, s) = TakeInt(s)
      BY <1>2 DEF PutLogEntryHeld, TakeLogEntryHeld
    <2>3. PushInt(x) \in Streams /\ \A t \in Streams : TakeInt(PushInt(x) \o t) = Ok(x, t)
      BY <2>1, IntCodec DEF Codec, Writes
    <2> QED
      BY <2>2, <2>3, Zenon
  <1> QED
    BY <1>1, <1>2, LogEntryTags

LEMMA LogEntryHeldReads ==
  ASSUME NEW y \in DOMAIN LogEntry, NEW s \in Streams, TakeLogEntryHeld(y, s).ok
  PROVE  \E x : \E r \in Streams :
            /\ [type |-> y, val |-> x] \in LogEntries
            /\ TakeLogEntryHeld(y, s) = Ok(x, r)
            /\ \A q \in Streams : TakeLogEntryHeld(y, s \o q) = Ok(x, r \o q)
  <1>1. CASE y = "Transfer"
    <2>1. \A u : TakeLogEntryHeld(y, u) = TakeTransfer(u)
      BY <1>1 DEF TakeLogEntryHeld
    <2>2. TakeTransfer(s).ok
      BY <2>1, Zenon
    <2>3. PICK x \in TransferEntry, r \in Streams :
             TakeTransfer(s) = Ok(x, r)
                   /\ \A q \in Streams : TakeTransfer(s \o q) = Ok(x, r \o q)
      BY <2>2, TransferEntryCodec DEF Codec, Reads
    <2>4. [type |-> y, val |-> x] \in LogEntries
      BY <1>1, <2>3 DEF LogEntries, EnumOf, TransferEntry
    <2> QED
      BY <2>1, <2>3, <2>4
  <1>2. CASE y = "Destroy"
    <2>1. \A u : TakeLogEntryHeld(y, u) = TakeInt(u)
      BY <1>2 DEF TakeLogEntryHeld
    <2>2. TakeInt(s).ok
      BY <2>1, Zenon
    <2>3. PICK x \in Ints, r \in Streams :
             TakeInt(s) = Ok(x, r) /\ \A q \in Streams : TakeInt(s \o q) = Ok(x, r \o q)
      BY <2>2, IntCodec DEF Codec, Reads
    <2>4. [type |-> y, val |-> x] \in LogEntries
      BY <1>2, <2>3 DEF LogEntries, EnumOf, TransferEntry
    <2> QED
      BY <2>1, <2>3, <2>4
  <1> QED
    BY <1>1, <1>2, LogEntryTags

LEMMA LogEntryCodec == Codec(LogEntry_serialize, LogEntry_deserialize, LogEntries)
  <1>1. ASSUME NEW s, NEW y, NEW r, NEW x, NEW u,
               TakeTag(LogEntry, s) = Ok(y, r), TakeLogEntryHeld(y, r) = Ok(x, u)
        PROVE  LogEntry_deserialize(s) = Ok([type |-> y, val |-> x], u)
    <2>1. /\ TakeTag(LogEntry, s).ok /\ TakeTag(LogEntry, s).val = y
          /\ TakeTag(LogEntry, s).rest = r
          /\ TakeLogEntryHeld(y, r).ok /\ TakeLogEntryHeld(y, r).val = x
                /\ TakeLogEntryHeld(y, r).rest = u
      BY <1>1, Results
    <2>2. LogEntry_deserialize(s) = Variant(TakeTag(LogEntry, s),
                     TakeLogEntryHeld(TakeTag(LogEntry, s).val, TakeTag(LogEntry, s).rest))
      BY Zenon DEF LogEntry_deserialize, TakeLogEntryHeld
    <2>3. LogEntry_deserialize(s) = Variant(TakeTag(LogEntry, s), TakeLogEntryHeld(y, r))
      BY <2>1, <2>2, Zenon
    <2> QED
      BY <2>1, <2>3, Zenon DEF Variant
  <1>2. ASSUME NEW v \in LogEntries
        PROVE  /\ LogEntry_serialize(v) \in Streams /\ LogEntry_serialize(v) # <<>>
               /\ \A t \in Streams : LogEntry_deserialize(LogEntry_serialize(v) \o t) = Ok(v, t)
    <2> DEFINE c == <<LogEntry[v.type]>>
               h == PutLogEntryHeld(v.type, v.val)
    <2>1. v = [type |-> v.type, val |-> v.val] /\ v.type \in DOMAIN LogEntry
      BY LogEntryTags DEF LogEntries, EnumOf, TransferEntry
    <2>2. c \in Streams /\ c # <<>>
          /\ \A t \in Streams : TakeTag(LogEntry, c \o t) = Ok(v.type, t)
      BY <2>1, LogEntryTags, TagWrites
    <2>3. [type |-> v.type, val |-> v.val] \in LogEntries
      BY <2>1
    <2>4. h \in Streams /\ \A t \in Streams : TakeLogEntryHeld(v.type, h \o t) = Ok(v.val, t)
      BY <2>1, <2>3, LogEntryHeldWrites
    <2>5. LogEntry_serialize(v) = c \o h
      BY LogEntryTags, Zenon DEF LogEntry_serialize, PutLogEntryHeld
    <2> HIDE DEF c, h
    <2>6. ASSUME NEW t \in Streams
          PROVE LogEntry_deserialize(LogEntry_serialize(v) \o t) = Ok(v, t)
      <3>1. (c \o h) \o t = c \o (h \o t) /\ h \o t \in Streams
        BY <2>2, <2>4, Cat, CatAssoc, Zenon
      <3> DEFINE u == h \o t
      <3>2. LogEntry_serialize(v) \o t = c \o u
        BY <2>5, <3>1, Zenon
      <3>3. TakeTag(LogEntry, c \o u) = Ok(v.type, u)
            /\ TakeLogEntryHeld(v.type, u) = Ok(v.val, t)
        BY <2>2, <2>4, <3>1, Zenon
      <3> HIDE DEF u
      <3>4. LogEntry_deserialize(c \o u) = Ok([type |-> v.type, val |-> v.val], t)
        BY <1>1, <3>3
      <3> QED
        BY <2>1, <3>2, <3>4, Zenon
    <2> QED
      BY <2>2, <2>4, <2>5, <2>6, CatBehind, Zenon
  <1>3. ASSUME NEW s \in Streams, LogEntry_deserialize(s).ok
        PROVE  \E v \in LogEntries, r \in Streams :
                  LogEntry_deserialize(s) = Ok(v, r)
                        /\ \A q \in Streams : LogEntry_deserialize(s \o q) = Ok(v, r \o q)
    <2> DEFINE tag == TakeTag(LogEntry, s)
    <2>1. tag.ok /\ TakeLogEntryHeld(tag.val, tag.rest).ok
      <3>1. LogEntry_deserialize(s) = Variant(tag, TakeLogEntryHeld(tag.val, tag.rest))
        BY Zenon DEF LogEntry_deserialize, TakeLogEntryHeld
      <3> QED
        BY <1>3, <3>1, Results DEF Variant
    <2>2. PICK y \in DOMAIN LogEntry, r \in Streams :
             /\ TakeTag(LogEntry, s) = Ok(y, r)
             /\ \A q \in Streams : TakeTag(LogEntry, s \o q) = Ok(y, r \o q)
      BY <2>1, LogEntryTags, TagReads
    <2>3. TakeLogEntryHeld(y, r).ok
      BY <2>1, <2>2, Results
    <2>4. PICK x : \E u \in Streams :
             /\ [type |-> y, val |-> x] \in LogEntries
             /\ TakeLogEntryHeld(y, r) = Ok(x, u)
             /\ \A q \in Streams : TakeLogEntryHeld(y, r \o q) = Ok(x, u \o q)
      BY <2>3, LogEntryHeldReads
    <2>5. PICK u \in Streams :
             /\ [type |-> y, val |-> x] \in LogEntries
             /\ TakeLogEntryHeld(y, r) = Ok(x, u)
             /\ \A q \in Streams : TakeLogEntryHeld(y, r \o q) = Ok(x, u \o q)
      BY <2>4
    <2> DEFINE v == [type |-> y, val |-> x]
    <2>6. LogEntry_deserialize(s) = Ok(v, u)
          /\ \A q \in Streams : LogEntry_deserialize(s \o q) = Ok(v, u \o q)
      BY <1>1, <2>2, <2>5
    <2> HIDE DEF v
    <2> QED
      BY <2>5, <2>6 DEF v
  <1> QED
    BY <1>2, <1>3 DEF Codec, Writes, Reads

PutLog(xs) == PutList(INT, [i \in DOMAIN xs |-> LogEntry_serialize(xs[i])])
TakeLog(s) == TakeList(INT, [t \in Streams |-> LogEntry_deserialize(t)], s)

LEMMA LogPieces ==
  /\ Reader([t \in Streams |-> LogEntry_deserialize(t)], LogEntries)
  /\ \A xs \in Seq(LogEntries) : Pieces([t \in Streams |-> LogEntry_deserialize(t)], xs,
        [i \in DOMAIN xs |-> LogEntry_serialize(xs[i])])
  <1> DEFINE take == [t \in Streams |-> LogEntry_deserialize(t)]
  <1>1. \A t \in Streams : take[t] = LogEntry_deserialize(t)
    OBVIOUS
  <1>2. \A s, q \in Streams : s \o q \in Streams
    BY Cat, Zenon
  <1> HIDE DEF take
  <1>3. Reader(take, LogEntries)
    <2> SUFFICES ASSUME NEW s \in Streams, take[s].ok
                 PROVE  \E v \in LogEntries, r \in Streams :
                           take[s] = Ok(v, r) /\ \A q \in Streams : take[s \o q] = Ok(v, r \o q)
      BY Zenon DEF Reader
    <2>1. PICK v \in LogEntries, r \in Streams :
             LogEntry_deserialize(s) = Ok(v, r)
                   /\ \A q \in Streams : LogEntry_deserialize(s \o q) = Ok(v, r \o q)
      BY <1>1, LogEntryCodec DEF Codec, Reads
    <2> QED
      BY <1>1, <1>2, <2>1
  <1>4. ASSUME NEW xs \in Seq(LogEntries)
        PROVE  Pieces(take, xs, [i \in DOMAIN xs |-> LogEntry_serialize(xs[i])])
    <2> DEFINE pieces == [i \in DOMAIN xs |-> LogEntry_serialize(xs[i])]
    <2>1. /\ DOMAIN xs = 1 .. Len(xs) /\ Len(xs) \in Nat
          /\ \A i \in 1 .. Len(xs) : xs[i] \in LogEntries
      OBVIOUS
    <2>2. \A i \in 1 .. Len(xs) : pieces[i] = LogEntry_serialize(xs[i])
      BY <2>1
    <2>3. ASSUME NEW i \in 1 .. Len(xs)
          PROVE  /\ pieces[i] \in Streams /\ pieces[i] # <<>>
                 /\ \A t \in Streams : LogEntry_deserialize(pieces[i] \o t) = Ok(xs[i], t)
      BY <2>1, <2>2, LogEntryCodec DEF Codec, Writes
    <2>4. pieces \in Seq(Streams) /\ Len(pieces) = Len(xs)
      BY <2>1, <2>3
    <2> HIDE DEF pieces
    <2>5. \A i \in 1 .. Len(xs) : \A t \in Streams : take[pieces[i] \o t] = Ok(xs[i], t)
      BY <1>1, <1>2, <2>3
    <2>6. Pieces(take, xs, pieces)
      BY <2>3, <2>4, <2>5 DEF Pieces
    <2> QED
      BY <2>6 DEF pieces
  <1> QED
    BY <1>3, <1>4 DEF take

LEMMA LogCodec == Codec(PutLog, TakeLog, List(LogEntries, INT))
  <1> DEFINE take == [t \in Streams |-> LogEntry_deserialize(t)]
  <1>0. CountWidth(INT)
    BY DEF CountWidth
  <1>1. Reader(take, LogEntries)
    BY LogPieces
  <1>2. ASSUME NEW v \in List(LogEntries, INT)
        PROVE  /\ PutLog(v) \in Streams /\ PutLog(v) # <<>>
               /\ \A t \in Streams : TakeLog(PutLog(v) \o t) = Ok(v, t)
    <2> DEFINE pieces == [i \in DOMAIN v |-> LogEntry_serialize(v[i])]
    <2>1. v \in Seq(LogEntries)
      BY DEF List
    <2>2. Pieces(take, v, pieces)
      BY <2>1, LogPieces, Zenon
    <2>3. PutLog(v) = PutList(INT, pieces) /\ \A s : TakeLog(s) = TakeList(INT, take, s)
      BY Zenon DEF PutLog, TakeLog
    <2> HIDE DEF take, pieces
    <2>4. /\ PutList(INT, pieces) \in Streams /\ PutList(INT, pieces) # <<>>
          /\ \A t \in Streams : TakeList(INT, take, PutList(INT, pieces) \o t) = Ok(v, t)
      BY <1>0, <1>1, <2>2, FittingListWrites
    <2> QED
      BY <2>3, <2>4, Zenon
  <1>3. ASSUME NEW s \in Streams, TakeLog(s).ok
        PROVE  \E v \in List(LogEntries, INT), r \in Streams :
                  TakeLog(s) = Ok(v, r) /\ \A q \in Streams : TakeLog(s \o q) = Ok(v, r \o q)
    <2>1. \A u : TakeLog(u) = TakeList(INT, take, u)
      BY Zenon DEF TakeLog
    <2> HIDE DEF take
    <2>2. TakeList(INT, take, s).ok
      BY <1>3, <2>1, Zenon
    <2>3. \E l \in List(LogEntries, INT), r \in Streams :
             /\ TakeList(INT, take, s) = Ok(l, r)
             /\ \A q \in Streams : TakeList(INT, take, s \o q) = Ok(l, r \o q)
      BY <1>0, <1>1, <2>2, ListReads
    <2> QED
      BY <2>1, <2>3, Zenon
  <1> QED
    BY <1>2, <1>3 DEF Codec, Writes, Reads

LEMMA ReceiptCodec == Codec(Receipt_serialize, Receipt_deserialize, Receipt)
  <1>1. ASSUME NEW s, NEW a1, NEW r1, NEW a2, NEW r2,
               TxVariant_deserialize(s) = Ok(a1, r1),
               TakeLog(r1) = Ok(a2, r2)
        PROVE  Receipt_deserialize(s) = Ok([tx |-> a1, log |-> a2], r2)
    BY <1>1, Results DEF Receipt_deserialize, TakeLog, TakeLogged
  <1>2. ASSUME NEW v \in Receipt
        PROVE  /\ Receipt_serialize(v) \in Streams /\ Receipt_serialize(v) # <<>>
               /\ \A t \in Streams : Receipt_deserialize(Receipt_serialize(v) \o t) = Ok(v, t)
    <2> DEFINE p1 == TxVariant_serialize(v.tx)
               p2 == PutLog(v.log)
    <2>1. /\ v.tx \in Tx /\ v.log \in List(LogEntries, INT)
          /\ v = [tx |-> v.tx, log |-> v.log]
      BY DEF Receipt
    <2>p1. p1 \in Streams /\ p1 # <<>>
          /\ \A t \in Streams : TxVariant_deserialize(p1 \o t) = Ok(v.tx, t)
      BY <2>1, TxCodec DEF Codec, Writes
    <2>p2. p2 \in Streams /\ p2 # <<>> /\ \A t \in Streams : TakeLog(p2 \o t) = Ok(v.log, t)
      BY <2>1, LogCodec DEF Codec, Writes
    <2> DEFINE w1 == p1
               w2 == w1 \o p2
    <2>2. Receipt_serialize(v) = w2
      BY Zenon DEF Receipt_serialize, PutByte, PutLog
    <2> HIDE DEF p1, p2
    <2>w2. w2 \in Streams /\ w2 # <<>>
      BY <2>p2, <2>p1, CatBehind, Zenon
    <2>4. ASSUME NEW t \in Streams
          PROVE Receipt_deserialize(Receipt_serialize(v) \o t) = Ok(v, t)
      <3> DEFINE u2 == t
                 u1 == p2 \o u2
                 u0 == p1 \o u1
      <3>s1. u1 \in Streams
        BY <2>p2, Cat, Zenon
      <3>e2. w2 \o u2 = w1 \o u1
        BY <2>p1, <2>p2, CatAssoc, Zenon
      <3>1. Receipt_serialize(v) \o t = u0
        <4>1. w1 \o u1 = u0
          OBVIOUS
        <4> HIDE DEF w1, w2, u0, u1
        <4> QED
          BY <2>2, <4>1, <3>e2, Zenon
      <3>2. TxVariant_deserialize(u0) = Ok(v.tx, u1) /\ TakeLog(u1) = Ok(v.log, u2)
        BY <2>p1, <2>p2, <3>s1, Zenon
      <3> HIDE DEF u0, u1
      <3>3. Receipt_deserialize(u0) = Ok([tx |-> v.tx, log |-> v.log], t)
        BY <1>1, <2>1, <3>2
      <3> QED
        BY <2>1, <3>1, <3>3, Zenon
    <2> QED
      BY <2>2, <2>w2, <2>4, Zenon
  <1>3. ASSUME NEW s \in Streams, Receipt_deserialize(s).ok
        PROVE  \E v \in Receipt, r \in Streams :
                  Receipt_deserialize(s) = Ok(v, r)
                        /\ \A q \in Streams : Receipt_deserialize(s \o q) = Ok(v, r \o q)
    <2> DEFINE f1 == TxVariant_deserialize(s)
               f2 == TakeLog(f1.rest)
    <2>1. f1.ok /\ f2.ok
      BY <1>3, Results DEF Receipt_deserialize, TakeLog, TakeLogged
    <2>a1. PICK a1 \in Tx, r1 \in Streams :
              TxVariant_deserialize(s) = Ok(a1, r1)
                    /\ \A q \in Streams : TxVariant_deserialize(s \o q) = Ok(a1, r1 \o q)
      BY <2>1, TxCodec DEF Codec, Reads
    <2>b1. f1.rest = r1 /\ f1.val = a1
      BY <2>a1, Results
    <2>a2. PICK a2 \in List(LogEntries, INT), r2 \in Streams :
              TakeLog(r1) = Ok(a2, r2) /\ \A q \in Streams : TakeLog(r1 \o q) = Ok(a2, r2 \o q)
      BY <2>1, <2>b1, LogCodec DEF Codec, Reads
    <2>b2. f2.rest = r2 /\ f2.val = a2
      BY <2>a2, <2>b1, Results
    <2> DEFINE v == [tx |-> a1, log |-> a2]
    <2>3. v \in Receipt
      BY <2>a1, <2>a2 DEF Receipt
    <2>4. Receipt_deserialize(s) = Ok(v, r2)
      BY <1>1, <2>a1, <2>a2
    <2>5. ASSUME NEW q \in Streams PROVE Receipt_deserialize(s \o q) = Ok(v, r2 \o q)
      <3> DEFINE t0 == s \o q
                 t1 == r1 \o q
                 t2 == r2 \o q
      <3>1. TxVariant_deserialize(t0) = Ok(a1, t1) /\ TakeLog(t1) = Ok(a2, t2)
        BY <2>a1, <2>a2, Zenon
      <3> HIDE DEF t0, t1, t2
      <3>2. Receipt_deserialize(t0) = Ok(v, t2)
        BY <1>1, <3>1
      <3> QED
        BY <3>2 DEF t0, t2
    <2> HIDE DEF v
    <2> QED
      BY <2>3, <2>4, <2>5
  <1> QED
    BY <1>2, <1>3 DEF Codec, Writes, Reads

LEMMA BlockHeaderCodec == Codec(BlockHeader_serialize, BlockHeader_deserialize, BlockHeader)
  <1>1. ASSUME NEW s, NEW a1, NEW r1, NEW a2, NEW r2, NEW a3, NEW r3, NEW a4, NEW r4, NEW a5,
        NEW r5,
               TakeInt(s) = Ok(a1, r1),
               TakeByte(r1) = Ok(a2, r2),
               TakeInt(r2) = Ok(a3, r3),
               TakeInt(r3) = Ok(a4, r4),
               TakeByte(r4) = Ok(a5, r5),
               a1 = Version
        PROVE  BlockHeader_deserialize(s)
              = Ok([previous_hash |-> a2, height |-> a3, timestamp |-> a4, receipt_root |-> a5],
                    r5)
    BY <1>1, Results DEF BlockHeader_deserialize
  <1>2. ASSUME NEW v \in BlockHeader
        PROVE  /\ BlockHeader_serialize(v) \in Streams /\ BlockHeader_serialize(v) # <<>>
               /\ \A t \in Streams :
                     BlockHeader_deserialize(BlockHeader_serialize(v) \o t) = Ok(v, t)
    <2> DEFINE p1 == PushInt(Version)
               p2 == PutByte(v.previous_hash)
               p3 == PushInt(v.height)
               p4 == PushInt(v.timestamp)
               p5 == PutByte(v.receipt_root)
    <2>1. /\ Version \in Ints /\ v.previous_hash \in Bytes /\ v.height \in Ints
          /\ v.timestamp \in Ints /\ v.receipt_root \in Bytes
          /\ Version = Version
          /\ v
                = [previous_hash |-> v.previous_hash, height |-> v.height,
                      timestamp |-> v.timestamp, receipt_root |-> v.receipt_root]
      BY Widths DEF BlockHeader, Version, Ints
    <2>p1. p1 \in Streams /\ p1 # <<>> /\ \A t \in Streams : TakeInt(p1 \o t) = Ok(Version, t)
      BY <2>1, IntCodec DEF Codec, Writes
    <2>p2. p2 \in Streams /\ p2 # <<>>
          /\ \A t \in Streams : TakeByte(p2 \o t) = Ok(v.previous_hash, t)
      BY <2>1, ByteCodec DEF Codec, Writes
    <2>p3. p3 \in Streams /\ p3 # <<>> /\ \A t \in Streams : TakeInt(p3 \o t) = Ok(v.height, t)
      BY <2>1, IntCodec DEF Codec, Writes
    <2>p4. p4 \in Streams /\ p4 # <<>>
          /\ \A t \in Streams : TakeInt(p4 \o t) = Ok(v.timestamp, t)
      BY <2>1, IntCodec DEF Codec, Writes
    <2>p5. p5 \in Streams /\ p5 # <<>>
          /\ \A t \in Streams : TakeByte(p5 \o t) = Ok(v.receipt_root, t)
      BY <2>1, ByteCodec DEF Codec, Writes
    <2> DEFINE w1 == p1
               w2 == w1 \o p2
               w3 == w2 \o p3
               w4 == w3 \o p4
               w5 == w4 \o p5
    <2>2. BlockHeader_serialize(v) = w5
      BY Zenon DEF BlockHeader_serialize, PutByte
    <2> HIDE DEF p1, p2, p3, p4, p5
    <2>w2. w2 \in Streams /\ w2 # <<>>
      BY <2>p2, <2>p1, CatBehind, Zenon
    <2>w3. w3 \in Streams /\ w3 # <<>>
      BY <2>p3, <2>w2, CatBehind, Zenon
    <2>w4. w4 \in Streams /\ w4 # <<>>
      BY <2>p4, <2>w3, CatBehind, Zenon
    <2>w5. w5 \in Streams /\ w5 # <<>>
      BY <2>p5, <2>w4, CatBehind, Zenon
    <2>4. ASSUME NEW t \in Streams
          PROVE BlockHeader_deserialize(BlockHeader_serialize(v) \o t) = Ok(v, t)
      <3> DEFINE u5 == t
                 u4 == p5 \o u5
                 u3 == p4 \o u4
                 u2 == p3 \o u3
                 u1 == p2 \o u2
                 u0 == p1 \o u1
      <3>s4. u4 \in Streams
        BY <2>p5, Cat, Zenon
      <3>s3. u3 \in Streams
        BY <2>p4, <3>s4, Cat, Zenon
      <3>s2. u2 \in Streams
        BY <2>p3, <3>s3, Cat, Zenon
      <3>s1. u1 \in Streams
        BY <2>p2, <3>s2, Cat, Zenon
      <3>e5. w5 \o u5 = w4 \o u4
        <4> HIDE DEF w4
        <4> QED
          BY <2>w4, <2>p5, CatAssoc, Zenon DEF w5
      <3>e4. w4 \o u4 = w3 \o u3
        <4> HIDE DEF w3
        <4> QED
          BY <2>w3, <2>p4, <3>s4, CatAssoc, Zenon DEF w4
      <3>e3. w3 \o u3 = w2 \o u2
        <4> HIDE DEF w2
        <4> QED
          BY <2>w2, <2>p3, <3>s3, CatAssoc, Zenon DEF w3
      <3>e2. w2 \o u2 = w1 \o u1
        BY <2>p1, <2>p2, <3>s2, CatAssoc, Zenon
      <3>1. BlockHeader_serialize(v) \o t = u0
        <4>1. w1 \o u1 = u0
          OBVIOUS
        <4> HIDE DEF w1, w2, w3, w4, w5, u0, u1, u2, u3, u4
        <4> QED
          BY <2>2, <4>1, <3>e5, <3>e4, <3>e3, <3>e2, Zenon
      <3>2. TakeInt(u0) = Ok(Version, u1) /\ TakeByte(u1) = Ok(v.previous_hash, u2)
            /\ TakeInt(u2) = Ok(v.height, u3) /\ TakeInt(u3) = Ok(v.timestamp, u4)
                  /\ TakeByte(u4) = Ok(v.receipt_root, u5)
        BY <2>p1, <2>p2, <2>p3, <2>p4, <2>p5, <3>s1, <3>s2, <3>s3, <3>s4, Zenon
      <3> HIDE DEF u0, u1, u2, u3, u4
      <3>3. BlockHeader_deserialize(u0)
            = Ok([previous_hash |-> v.previous_hash, height |-> v.height,
                  timestamp |-> v.timestamp, receipt_root |-> v.receipt_root], t)
        BY <1>1, <2>1, <3>2
      <3> QED
        BY <2>1, <3>1, <3>3, Zenon
    <2> QED
      BY <2>2, <2>w5, <2>4, Zenon
  <1>3. ASSUME NEW s \in Streams, BlockHeader_deserialize(s).ok
        PROVE  \E v \in BlockHeader, r \in Streams :
                  BlockHeader_deserialize(s) = Ok(v, r)
                        /\ \A q \in Streams : BlockHeader_deserialize(s \o q) = Ok(v, r \o q)
    <2> DEFINE f1 == TakeInt(s)
               f2 == TakeByte(f1.rest)
               f3 == TakeInt(f2.rest)
               f4 == TakeInt(f3.rest)
               f5 == TakeByte(f4.rest)
    <2>1. f1.ok /\ f2.ok /\ f3.ok /\ f4.ok /\ f5.ok /\ f1.val = Version
      BY <1>3, Results DEF BlockHeader_deserialize
    <2>a1. PICK a1 \in Ints, r1 \in Streams :
              TakeInt(s) = Ok(a1, r1) /\ \A q \in Streams : TakeInt(s \o q) = Ok(a1, r1 \o q)
      BY <2>1, IntCodec DEF Codec, Reads
    <2>b1. f1.rest = r1 /\ f1.val = a1
      BY <2>a1, Results
    <2>a2. PICK a2 \in Bytes, r2 \in Streams :
              TakeByte(r1) = Ok(a2, r2)
                    /\ \A q \in Streams : TakeByte(r1 \o q) = Ok(a2, r2 \o q)
      BY <2>1, <2>b1, ByteCodec DEF Codec, Reads
    <2>b2. f2.rest = r2 /\ f2.val = a2
      BY <2>a2, <2>b1, Results
    <2>a3. PICK a3 \in Ints, r3 \in Streams :
              TakeInt(r2) = Ok(a3, r3) /\ \A q \in Streams : TakeInt(r2 \o q) = Ok(a3, r3 \o q)
      BY <2>1, <2>b2, IntCodec DEF Codec, Reads
    <2>b3. f3.rest = r3 /\ f3.val = a3
      BY <2>a3, <2>b2, Results
    <2>a4. PICK a4 \in Ints, r4 \in Streams :
              TakeInt(r3) = Ok(a4, r4) /\ \A q \in Streams : TakeInt(r3 \o q) = Ok(a4, r4 \o q)
      BY <2>1, <2>b3, IntCodec DEF Codec, Reads
    <2>b4. f4.rest = r4 /\ f4.val = a4
      BY <2>a4, <2>b3, Results
    <2>a5. PICK a5 \in Bytes, r5 \in Streams :
              TakeByte(r4) = Ok(a5, r5)
                    /\ \A q \in Streams : TakeByte(r4 \o q) = Ok(a5, r5 \o q)
      BY <2>1, <2>b4, ByteCodec DEF Codec, Reads
    <2>b5. f5.rest = r5 /\ f5.val = a5
      BY <2>a5, <2>b4, Results
    <2> DEFINE v == [previous_hash |-> a2, height |-> a3, timestamp |-> a4, receipt_root |-> a5]
    <2>2. a1 = Version
      BY <2>1, <2>b1, <2>b2, <2>b3, <2>b4, <2>b5, Zenon
    <2>3. v \in BlockHeader
      BY <2>2, <2>a1, <2>a2, <2>a3, <2>a4, <2>a5 DEF BlockHeader
    <2>4. BlockHeader_deserialize(s) = Ok(v, r5)
      BY <1>1, <2>2, <2>a1, <2>a2, <2>a3, <2>a4, <2>a5
    <2>5. ASSUME NEW q \in Streams PROVE BlockHeader_deserialize(s \o q) = Ok(v, r5 \o q)
      <3> DEFINE t0 == s \o q
                 t1 == r1 \o q
                 t2 == r2 \o q
                 t3 == r3 \o q
                 t4 == r4 \o q
                 t5 == r5 \o q
      <3>1. TakeInt(t0) = Ok(a1, t1) /\ TakeByte(t1) = Ok(a2, t2) /\ TakeInt(t2) = Ok(a3, t3)
            /\ TakeInt(t3) = Ok(a4, t4) /\ TakeByte(t4) = Ok(a5, t5)
        BY <2>a1, <2>a2, <2>a3, <2>a4, <2>a5, Zenon
      <3> HIDE DEF t0, t1, t2, t3, t4, t5
      <3>2. BlockHeader_deserialize(t0) = Ok(v, t5)
        BY <1>1, <2>2, <3>1
      <3> QED
        BY <3>2 DEF t0, t5
    <2> HIDE DEF v
    <2> QED
      BY <2>3, <2>4, <2>5
  <1> QED
    BY <1>2, <1>3 DEF Codec, Writes, Reads

PutReceipts(xs) == PutList(INT, [i \in DOMAIN xs |-> Receipt_serialize(xs[i])])
TakeReceipts(s) == TakeList(INT, [t \in Streams |-> Receipt_deserialize(t)], s)

LEMMA ReceiptsPieces ==
  /\ Reader([t \in Streams |-> Receipt_deserialize(t)], Receipt)
  /\ \A xs \in Seq(Receipt) : Pieces([t \in Streams |-> Receipt_deserialize(t)], xs,
        [i \in DOMAIN xs |-> Receipt_serialize(xs[i])])
  <1> DEFINE take == [t \in Streams |-> Receipt_deserialize(t)]
  <1>1. \A t \in Streams : take[t] = Receipt_deserialize(t)
    OBVIOUS
  <1>2. \A s, q \in Streams : s \o q \in Streams
    BY Cat, Zenon
  <1> HIDE DEF take
  <1>3. Reader(take, Receipt)
    <2> SUFFICES ASSUME NEW s \in Streams, take[s].ok
                 PROVE  \E v \in Receipt, r \in Streams :
                           take[s] = Ok(v, r) /\ \A q \in Streams : take[s \o q] = Ok(v, r \o q)
      BY Zenon DEF Reader
    <2>1. PICK v \in Receipt, r \in Streams :
             Receipt_deserialize(s) = Ok(v, r)
                   /\ \A q \in Streams : Receipt_deserialize(s \o q) = Ok(v, r \o q)
      BY <1>1, ReceiptCodec DEF Codec, Reads
    <2> QED
      BY <1>1, <1>2, <2>1
  <1>4. ASSUME NEW xs \in Seq(Receipt)
        PROVE  Pieces(take, xs, [i \in DOMAIN xs |-> Receipt_serialize(xs[i])])
    <2> DEFINE pieces == [i \in DOMAIN xs |-> Receipt_serialize(xs[i])]
    <2>1. /\ DOMAIN xs = 1 .. Len(xs) /\ Len(xs) \in Nat
          /\ \A i \in 1 .. Len(xs) : xs[i] \in Receipt
      OBVIOUS
    <2>2. \A i \in 1 .. Len(xs) : pieces[i] = Receipt_serialize(xs[i])
      BY <2>1
    <2>3. ASSUME NEW i \in 1 .. Len(xs)
          PROVE  /\ pieces[i] \in Streams /\ pieces[i] # <<>>
                 /\ \A t \in Streams : Receipt_deserialize(pieces[i] \o t) = Ok(xs[i], t)
      BY <2>1, <2>2, ReceiptCodec DEF Codec, Writes
    <2>4. pieces \in Seq(Streams) /\ Len(pieces) = Len(xs)
      BY <2>1, <2>3
    <2> HIDE DEF pieces
    <2>5. \A i \in 1 .. Len(xs) : \A t \in Streams : take[pieces[i] \o t] = Ok(xs[i], t)
      BY <1>1, <1>2, <2>3
    <2>6. Pieces(take, xs, pieces)
      BY <2>3, <2>4, <2>5 DEF Pieces
    <2> QED
      BY <2>6 DEF pieces
  <1> QED
    BY <1>3, <1>4 DEF take

LEMMA ReceiptsCodec == Codec(PutReceipts, TakeReceipts, List(Receipt, INT))
  <1> DEFINE take == [t \in Streams |-> Receipt_deserialize(t)]
  <1>0. CountWidth(INT)
    BY DEF CountWidth
  <1>1. Reader(take, Receipt)
    BY ReceiptsPieces
  <1>2. ASSUME NEW v \in List(Receipt, INT)
        PROVE  /\ PutReceipts(v) \in Streams /\ PutReceipts(v) # <<>>
               /\ \A t \in Streams : TakeReceipts(PutReceipts(v) \o t) = Ok(v, t)
    <2> DEFINE pieces == [i \in DOMAIN v |-> Receipt_serialize(v[i])]
    <2>1. v \in Seq(Receipt)
      BY DEF List
    <2>2. Pieces(take, v, pieces)
      BY <2>1, ReceiptsPieces, Zenon
    <2>3. PutReceipts(v) = PutList(INT, pieces)
          /\ \A s : TakeReceipts(s) = TakeList(INT, take, s)
      BY Zenon DEF PutReceipts, TakeReceipts
    <2> HIDE DEF take, pieces
    <2>4. /\ PutList(INT, pieces) \in Streams /\ PutList(INT, pieces) # <<>>
          /\ \A t \in Streams : TakeList(INT, take, PutList(INT, pieces) \o t) = Ok(v, t)
      BY <1>0, <1>1, <2>2, FittingListWrites
    <2> QED
      BY <2>3, <2>4, Zenon
  <1>3. ASSUME NEW s \in Streams, TakeReceipts(s).ok
        PROVE  \E v \in List(Receipt, INT), r \in Streams :
                  TakeReceipts(s) = Ok(v, r)
                        /\ \A q \in Streams : TakeReceipts(s \o q) = Ok(v, r \o q)
    <2>1. \A u : TakeReceipts(u) = TakeList(INT, take, u)
      BY Zenon DEF TakeReceipts
    <2> HIDE DEF take
    <2>2. TakeList(INT, take, s).ok
      BY <1>3, <2>1, Zenon
    <2>3. \E l \in List(Receipt, INT), r \in Streams :
             /\ TakeList(INT, take, s) = Ok(l, r)
             /\ \A q \in Streams : TakeList(INT, take, s \o q) = Ok(l, r \o q)
      BY <1>0, <1>1, <2>2, ListReads
    <2> QED
      BY <2>1, <2>3, Zenon
  <1> QED
    BY <1>2, <1>3 DEF Codec, Writes, Reads

\* A block is read from its bytes as Block::serialize wrote it, and what
\* Block::deserialize reads is a block.
THEOREM BlockCodec == Codec(Block_serialize, Block_deserialize, Block)
  <1>1. ASSUME NEW s, NEW a1, NEW r1, NEW a2, NEW r2, NEW a3, NEW r3, NEW a4, NEW r4,
               BlockHeader_deserialize(s) = Ok(a1, r1),
               take_sig_pair(r1) = Ok(a2, r2),
               take_asset(r2) = Ok(a3, r3),
               TakeReceipts(r3) = Ok(a4, r4)
        PROVE  Block_deserialize(s)
              = Ok([header |-> a1, signer |-> a2, rewards |-> a3, receipts |-> a4], r4)
    BY <1>1, Results DEF Block_deserialize, TakeReceipts, TakeSealed
  <1>2. ASSUME NEW v \in Block
        PROVE  /\ Block_serialize(v) \in Streams /\ Block_serialize(v) # <<>>
               /\ \A t \in Streams : Block_deserialize(Block_serialize(v) \o t) = Ok(v, t)
    <2> DEFINE p1 == BlockHeader_serialize(v.header)
               p2 == push_sig_pair(v.signer)
               p3 == push_asset(v.rewards)
               p4 == PutReceipts(v.receipts)
    <2>1. /\ v.header \in BlockHeader /\ v.signer \in SigPair /\ v.rewards \in Amounts
          /\ v.receipts \in List(Receipt, INT)
          /\ v
                = [header |-> v.header, signer |-> v.signer, rewards |-> v.rewards,
                      receipts |-> v.receipts]
      BY DEF Block
    <2>p1. p1 \in Streams /\ p1 # <<>>
          /\ \A t \in Streams : BlockHeader_deserialize(p1 \o t) = Ok(v.header, t)
      BY <2>1, BlockHeaderCodec DEF Codec, Writes
    <2>p2. p2 \in Streams /\ p2 # <<>>
          /\ \A t \in Streams : take_sig_pair(p2 \o t) = Ok(v.signer, t)
      BY <2>1, SigPairCodec DEF Codec, Writes
    <2>p3. p3 \in Streams /\ p3 # <<>>
          /\ \A t \in Streams : take_asset(p3 \o t) = Ok(v.rewards, t)
      BY <2>1, AssetCodec DEF Codec, Writes
    <2>p4. p4 \in Streams /\ p4 # <<>>
          /\ \A t \in Streams : TakeReceipts(p4 \o t) = Ok(v.receipts, t)
      BY <2>1, ReceiptsCodec DEF Codec, Writes
    <2> DEFINE w1 == p1
               w2 == w1 \o p2
               w3 == w2 \o p3
               w4 == w3 \o p4
    <2>2. Block_serialize(v) = w4
      BY Zenon DEF Block_serialize, PutByte, PutReceipts
    <2> HIDE DEF p1, p2, p3, p4
    <2>w2. w2 \in Streams /\ w2 # <<>>
      BY <2>p2, <2>p1, CatBehind, Zenon
    <2>w3. w3 \in Streams /\ w3 # <<>>
      BY <2>p3, <2>w2, CatBehind, Zenon
    <2>w4. w4 \in Streams /\ w4 # <<>>
      BY <2>p4, <2>w3, CatBehind, Zenon
    <2>4. ASSUME NEW t \in Streams PROVE Block_deserialize(Block_serialize(v) \o t) = Ok(v, t)
      <3> DEFINE u4 == t
                 u3 == p4 \o u4
                 u2 == p3 \o u3
                 u1 == p2 \o u2
                 u0 == p1 \o u1
      <3>s3. u3 \in Streams
        BY <2>p4, Cat, Zenon
      <3>s2. u2 \in Streams
        BY <2>p3, <3>s3, Cat, Zenon
      <3>s1. u1 \in Streams
        BY <2>p2, <3>s2, Cat, Zenon
      <3>e4. w4 \o u4 = w3 \o u3
        <4> HIDE DEF w3
        <4> QED
          BY <2>w3, <2>p4, CatAssoc, Zenon DEF w4
      <3>e3. w3 \o u3 = w2 \o u2
        <4> HIDE DEF w2
        <4> QED
          BY <2>w2, <2>p3, <3>s3, CatAssoc, Zenon DEF w3
      <3>e2. w2 \o u2 = w1 \o u1
        BY <2>p1, <2>p2, <3>s2, CatAssoc, Zenon
      <3>1. Block_serialize(v) \o t = u0
        <4>1. w1 \o u1 = u0
          OBVIOUS
        <4> HIDE DEF w1, w2, w3, w4, u0, u1, u2, u3
        <4> QED
          BY <2>2, <4>1, <3>e4, <3>e3, <3>e2, Zenon
      <3>2. BlockHeader_deserialize(u0) = Ok(v.header, u1)
            /\ take_sig_pair(u1) = Ok(v.signer, u2) /\ take_asset(u2) = Ok(v.rewards, u3)
                  /\ TakeReceipts(u3) = Ok(v.receipts, u4)
        BY <2>p1, <2>p2, <2>p3, <2>p4, <3>s1, <3>s2, <3>s3, Zenon
      <3> HIDE DEF u0, u1, u2, u3
      <3>3. Block_deserialize(u0)
            = Ok([header |-> v.header, signer |-> v.signer, rewards |-> v.rewards,
                  receipts |-> v.receipts], t)
        BY <1>1, <2>1, <3>2
      <3> QED
        BY <2>1, <3>1, <3>3, Zenon
    <2> QED
      BY <2>2, <2>w4, <2>4, Zenon
  <1>3. ASSUME NEW s \in Streams, Block_deserialize(s).ok
        PROVE  \E v \in Block, r \in Streams :
                  Block_deserialize(s) = Ok(v, r)
                        /\ \A q \in Streams : Block_deserialize(s \o q) = Ok(v, r \o q)
    <2> DEFINE f1 == BlockHeader_deserialize(s)
               f2 == take_sig_pair(f1.rest)
               f3 == take_asset(f2.rest)
               f4 == TakeReceipts(f3.rest)
    <2>1. f1.ok /\ f2.ok /\ f3.ok /\ f4.ok
      BY <1>3, Results DEF Block_deserialize, TakeReceipts, TakeSealed
    <2>a1. PICK a1 \in BlockHeader, r1 \in Streams :
              BlockHeader_deserialize(s) = Ok(a1, r1)
                    /\ \A q \in Streams : BlockHeader_deserialize(s \o q) = Ok(a1, r1 \o q)
      BY <2>1, BlockHeaderCodec DEF Codec, Reads
    <2>b1. f1.rest = r1 /\ f1.val = a1
      BY <2>a1, Results
    <2>a2. PICK a2 \in SigPair, r2 \in Streams :
              take_sig_pair(r1) = Ok(a2, r2)
                    /\ \A q \in Streams : take_sig_pair(r1 \o q) = Ok(a2, r2 \o q)
      BY <2>1, <2>b1, SigPairCodec DEF Codec, Reads
    <2>b2. f2.rest = r2 /\ f2.val = a2
      BY <2>a2, <2>b1, Results
    <2>a3. PICK a3 \in Amounts, r3 \in Streams :
              take_asset(r2) = Ok(a3, r3)
                    /\ \A q \in Streams : take_asset(r2 \o q) = Ok(a3, r3 \o q)
      BY <2>1, <2>b2, AssetCodec DEF Codec, Reads
    <2>b3. f3.rest = r3 /\ f3.val = a3
      BY <2>a3, <2>b2, Results
    <2>a4. PICK a4 \in List(Receipt, INT), r4 \in Streams :
              TakeReceipts(r3) = Ok(a4, r4)
                    /\ \A q \in Streams : TakeReceipts(r3 \o q) = Ok(a4, r4 \o q)
      BY <2>1, <2>b3, ReceiptsCodec DEF Codec, Reads
    <2>b4. f4.rest = r4 /\ f4.val = a4
      BY <2>a4, <2>b3, Results
    <2> DEFINE v == [header |-> a1, signer |-> a2, rewards |-> a3, receipts |-> a4]
    <2>3. v \in Block
      BY <2>a1, <2>a2, <2>a3, <2>a4 DEF Block
    <2>4. Block_deserialize(s) = Ok(v, r4)
      BY <1>1, <2>a1, <2>a2, <2>a3, <2>a4
    <2>5. ASSUME NEW q \in Streams PROVE Block_deserialize(s \o q) = Ok(v, r4 \o q)
      <3> DEFINE t0 == s \o q
                 t1 == r1 \o q
                 t2 == r2 \o q
                 t3 == r3 \o q
                 t4 == r4 \o q
      <3>1. BlockHeader_deserialize(t0) = Ok(a1, t1) /\ take_sig_pair(t1) = Ok(a2, t2)
            /\ take_asset(t2) = Ok(a3, t3) /\ TakeReceipts(t3) = Ok(a4, t4)
        BY <2>a1, <2>a2, <2>a3, <2>a4, Zenon
      <3> HIDE DEF t0, t1, t2, t3, t4
      <3>2. Block_deserialize(t0) = Ok(v, t4)
        BY <1>1, <3>1
      <3> QED
        BY <3>2 DEF t0, t4
    <2> HIDE DEF v
    <2> QED
      BY <2>3, <2>4, <2>5
  <1> QED
    BY <1>2, <1>3 DEF Codec, Writes, Reads

-----------------------------------------------------------------------------
(* Errors.                                                                 *)

PutEvalErr(x) == PushInt(x.pos) \o <<x.kind>>
EvalErr == [pos : Ints, kind : EvalErrKind]

LEMMA EvalErrKinds == EvalErrKind \subseteq Bytes
  BY Widths DEF EvalErrKind, Bytes

LEMMA EvalErrCodec == Codec(PutEvalErr, TakeEvalErr, EvalErr)
  <1>1. ASSUME NEW s, NEW a1, NEW r1, NEW a2, NEW r2,
               TakeInt(s) = Ok(a1, r1),
               TakeByte(r1) = Ok(a2, r2),
               a2 \in EvalErrKind
        PROVE  TakeEvalErr(s) = Ok([pos |-> a1, kind |-> a2], r2)
    BY <1>1, Results DEF TakeEvalErr
  <1>2. ASSUME NEW v \in EvalErr
        PROVE  /\ PutEvalErr(v) \in Streams /\ PutEvalErr(v) # <<>>
               /\ \A t \in Streams : TakeEvalErr(PutEvalErr(v) \o t) = Ok(v, t)
    <2> DEFINE p1 == PushInt(v.pos)
               p2 == PutByte(v.kind)
    <2>1. /\ v.pos \in Ints /\ v.kind \in Bytes
          /\ v.kind \in EvalErrKind
          /\ v = [pos |-> v.pos, kind |-> v.kind]
      BY EvalErrKinds DEF EvalErr
    <2>p1. p1 \in Streams /\ p1 # <<>> /\ \A t \in Streams : TakeInt(p1 \o t) = Ok(v.pos, t)
      BY <2>1, IntCodec DEF Codec, Writes
    <2>p2. p2 \in Streams /\ p2 # <<>> /\ \A t \in Streams : TakeByte(p2 \o t) = Ok(v.kind, t)
      BY <2>1, ByteCodec DEF Codec, Writes
    <2> DEFINE w1 == p1
               w2 == w1 \o p2
    <2>2. PutEvalErr(v) = w2
      BY Zenon DEF PutEvalErr, PutByte
    <2> HIDE DEF p1, p2
    <2>w2. w2 \in Streams /\ w2 # <<>>
      BY <2>p2, <2>p1, CatBehind, Zenon
    <2>4. ASSUME NEW t \in Streams PROVE TakeEvalErr(PutEvalErr(v) \o t) = Ok(v, t)
      <3> DEFINE u2 == t
                 u1 == p2 \o u2
                 u0 == p1 \o u1
      <3>s1. u1 \in Streams
        BY <2>p2, Cat, Zenon
      <3>e2. w2 \o u2 = w1 \o u1
        BY <2>p1, <2>p2, CatAssoc, Zenon
      <3>1. PutEvalErr(v) \o t = u0
        <4>1. w1 \o u1 = u0
          OBVIOUS
        <4> HIDE DEF w1, w2, u0, u1
        <4> QED
          BY <2>2, <4>1, <3>e2, Zenon
      <3>2. TakeInt(u0) = Ok(v.pos, u1) /\ TakeByte(u1) = Ok(v.kind, u2)
        BY <2>p1, <2>p2, <3>s1, Zenon
      <3> HIDE DEF u0, u1
      <3>3. TakeEvalErr(u0) = Ok([pos |-> v.pos, kind |-> v.kind], t)
        BY <1>1, <2>1, <3>2
      <3> QED
        BY <2>1, <3>1, <3>3, Zenon
    <2> QED
      BY <2>2, <2>w2, <2>4, Zenon
  <1>3. ASSUME NEW s \in Streams, TakeEvalErr(s).ok
        PROVE  \E v \in EvalErr, r \in Streams :
                  TakeEvalErr(s) = Ok(v, r)
                        /\ \A q \in Streams : TakeEvalErr(s \o q) = Ok(v, r \o q)
    <2> DEFINE f1 == TakeInt(s)
               f2 == TakeByte(f1.rest)
    <2>1. f1.ok /\ f2.ok /\ f2.val \in EvalErrKind
      BY <1>3, Results DEF TakeEvalErr
    <2>a1. PICK a1 \in Ints, r1 \in Streams :
              TakeInt(s) = Ok(a1, r1) /\ \A q \in Streams : TakeInt(s \o q) = Ok(a1, r1 \o q)
      BY <2>1, IntCodec DEF Codec, Reads
    <2>b1. f1.rest = r1 /\ f1.val = a1
      BY <2>a1, Results
    <2>a2. PICK a2 \in Bytes, r2 \in Streams :
              TakeByte(r1) = Ok(a2, r2)
                    /\ \A q \in Streams : TakeByte(r1 \o q) = Ok(a2, r2 \o q)
      BY <2>1, <2>b1, ByteCodec DEF Codec, Reads
    <2>b2. f2.rest = r2 /\ f2.val = a2
      BY <2>a2, <2>b1, Results
    <2> DEFINE v == [pos |-> a1, kind |-> a2]
    <2>2. a2 \in EvalErrKind
      BY <2>1, <2>b1, <2>b2, Zenon
    <2>3. v \in EvalErr
      BY <2>2, <2>a1, <2>a2 DEF EvalErr
    <2>4. TakeEvalErr(s) = Ok(v, r2)
      BY <1>1, <2>2, <2>a1, <2>a2
    <2>5. ASSUME NEW q \in Streams PROVE TakeEvalErr(s \o q) = Ok(v, r2 \o q)
      <3> DEFINE t0 == s \o q
                 t1 == r1 \o q
                 t2 == r2 \o q
      <3>1. TakeInt(t0) = Ok(a1, t1) /\ TakeByte(t1) = Ok(a2, t2)
        BY <2>a1, <2>a2, Zenon
      <3> HIDE DEF t0, t1, t2
      <3>2. TakeEvalErr(t0) = Ok(v, t2)
        BY <1>1, <2>2, <3>1
      <3> QED
        BY <3>2 DEF t0, t2
    <2> HIDE DEF v
    <2> QED
      BY <2>3, <2>4, <2>5
  <1> QED
    BY <1>2, <1>3 DEF Codec, Writes, Reads

LEMMA TxErrTags ==
  /\ Tags(TxErrCodesRead)
  /\ DOMAIN TxErrCodesRead
        = {"ScriptEval", "AccountNotFound", "AccountAlreadyExists", "InvalidAccountPermissions",
              "Arithmetic", "InvalidAmount", "InvalidFeeAmount", "TooManySignatures",
                    "TxTooLarge", "TxProhibited", "TxExpired", "TxDupe"}
  /\ TxErrCodesWritten = TxErrCodesRead
  BY Widths DEF Tags, TxErrCodesRead, Bytes, TxErrCodesWritten

PutTxErrHeld(type, val) ==
    IF type = "ScriptEval" THEN PushInt(val.pos) \o <<val.kind>> ELSE <<>>
TakeTxErrHeld(type, s) ==
    IF type = "ScriptEval" THEN TakeEvalErr(s) ELSE Nothing(s)

LEMMA TxErrHeldWrites ==
  ASSUME NEW y \in DOMAIN TxErrCodesRead, NEW x, [type |-> y, val |-> x] \in TxErr
  PROVE  /\ PutTxErrHeld(y, x) \in Streams
         /\ \A t \in Streams : TakeTxErrHeld(y, PutTxErrHeld(y, x) \o t) = Ok(x, t)
  <1>1. CASE y = "ScriptEval"
    <2>1. x \in EvalErr
      BY <1>1 DEF TxErr, EnumOf, EvalErr, TxErrCodesWritten
    <2>2. PutTxErrHeld(y, x) = PutEvalErr(x) /\ \A s : TakeTxErrHeld(y, s) = TakeEvalErr(s)
      BY <1>1 DEF PutTxErrHeld, TakeTxErrHeld, PutEvalErr
    <2>3. PutEvalErr(x) \in Streams
          /\ \A t \in Streams : TakeEvalErr(PutEvalErr(x) \o t) = Ok(x, t)
      BY <2>1, EvalErrCodec DEF Codec, Writes
    <2> QED
      BY <2>2, <2>3, Zenon
  <1>2. CASE y \in {"AccountNotFound", "AccountAlreadyExists", "InvalidAccountPermissions",
        "Arithmetic", "InvalidAmount", "InvalidFeeAmount", "TooManySignatures", "TxTooLarge",
              "TxProhibited", "TxExpired", "TxDupe"}
    <2>1. x \in {<<>>}
      BY <1>2 DEF TxErr, EnumOf, EvalErr, TxErrCodesWritten
    <2>2. PutTxErrHeld(y, x) = <<>> /\ x = <<>> /\ \A s : TakeTxErrHeld(y, s) = Ok(<<>>, s)
      BY <1>2, <2>1 DEF PutTxErrHeld, TakeTxErrHeld, Nothing
    <2>3. <<>> \in Streams /\ \A t \in Streams : <<>> \o t = t
      BY Cat, CatEmpty
    <2> QED
      BY <2>2, <2>3, Zenon
  <1> QED
    BY <1>1, <1>2, TxErrTags

LEMMA TxErrHeldReads ==
  ASSUME NEW y \in DOMAIN TxErrCodesRead, NEW s \in Streams, TakeTxErrHeld(y, s).ok
  PROVE  \E x : \E r \in Streams :
            /\ [type |-> y, val |-> x] \in TxErr
            /\ TakeTxErrHeld(y, s) = Ok(x, r)
            /\ \A q \in Streams : TakeTxErrHeld(y, s \o q) = Ok(x, r \o q)
  <1>1. CASE y = "ScriptEval"
    <2>1. \A u : TakeTxErrHeld(y, u) = TakeEvalErr(u)
      BY <1>1 DEF TakeTxErrHeld
    <2>2. TakeEvalErr(s).ok
      BY <2>1, Zenon
    <2>3. PICK x \in EvalErr, r \in Streams :
             TakeEvalErr(s) = Ok(x, r) /\ \A q \in Streams : TakeEvalErr(s \o q) = Ok(x, r \o q)
      BY <2>2, EvalErrCodec DEF Codec, Reads
    <2>4. [type |-> y, val |-> x] \in TxErr
      BY <1>1, <2>3 DEF TxErr, EnumOf, EvalErr, TxErrCodesWritten
    <2> QED
      BY <2>1, <2>3, <2>4
  <1>2. CASE y \in {"AccountNotFound", "AccountAlreadyExists", "InvalidAccountPermissions",
        "Arithmetic", "InvalidAmount", "InvalidFeeAmount", "TooManySignatures", "TxTooLarge",
              "TxProhibited", "TxExpired", "TxDupe"}
    <2>1. \A u : TakeTxErrHeld(y, u) = Ok(<<>>, u)
      BY <1>2 DEF TakeTxErrHeld, Nothing
    <2>2. [type |-> y, val |-> <<>>] \in TxErr
      BY <1>2 DEF TxErr, EnumOf, EvalErr, TxErrCodesWritten
    <2> QED
      BY <2>1, <2>2
  <1> QED
    BY <1>1, <1>2, TxErrTags

LEMMA TxErrCodec == Codec(TxErr_serialize, TxErr_deserialize, TxErr)
  <1>1. ASSUME NEW s, NEW y, NEW r, NEW x, NEW u,
               TakeTag(TxErrCodesRead, s) = Ok(y, r), TakeTxErrHeld(y, r) = Ok(x, u)
        PROVE  TxErr_deserialize(s) = Ok([type |-> y, val |-> x], u)
    <2>1. /\ TakeTag(TxErrCodesRead, s).ok /\ TakeTag(TxErrCodesRead, s).val = y
          /\ TakeTag(TxErrCodesRead, s).rest = r
          /\ TakeTxErrHeld(y, r).ok /\ TakeTxErrHeld(y, r).val = x
                /\ TakeTxErrHeld(y, r).rest = u
      BY <1>1, Results
    <2>2. TxErr_deserialize(s) = Variant(TakeTag(TxErrCodesRead, s),
                     TakeTxErrHeld(TakeTag(TxErrCodesRead, s).val, TakeTag(TxErrCodesRead,
                           s).rest))
      BY Zenon DEF TxErr_deserialize, TakeTxErrHeld
    <2>3. TxErr_deserialize(s) = Variant(TakeTag(TxErrCodesRead, s), TakeTxErrHeld(y, r))
      BY <2>1, <2>2, Zenon
    <2> QED
      BY <2>1, <2>3, Zenon DEF Variant
  <1>2. ASSUME NEW v \in TxErr
        PROVE  /\ TxErr_serialize(v) \in Streams /\ TxErr_serialize(v) # <<>>
               /\ \A t \in Streams : TxErr_deserialize(TxErr_serialize(v) \o t) = Ok(v, t)
    <2> DEFINE c == <<TxErrCodesRead[v.type]>>
               h == PutTxErrHeld(v.type, v.val)
    <2>1. v = [type |-> v.type, val |-> v.val] /\ v.type \in DOMAIN TxErrCodesRead
      BY TxErrTags DEF TxErr, EnumOf, EvalErr, TxErrCodesWritten
    <2>2. c \in Streams /\ c # <<>>
          /\ \A t \in Streams : TakeTag(TxErrCodesRead, c \o t) = Ok(v.type, t)
      BY <2>1, TxErrTags, TagWrites
    <2>3. [type |-> v.type, val |-> v.val] \in TxErr
      BY <2>1
    <2>4. h \in Streams /\ \A t \in Streams : TakeTxErrHeld(v.type, h \o t) = Ok(v.val, t)
      BY <2>1, <2>3, TxErrHeldWrites
    <2>5. TxErr_serialize(v) = c \o h
      BY TxErrTags, Zenon DEF TxErr_serialize, PutTxErrHeld
    <2> HIDE DEF c, h
    <2>6. ASSUME NEW t \in Streams PROVE TxErr_deserialize(TxErr_serialize(v) \o t) = Ok(v, t)
      <3>1. (c \o h) \o t = c \o (h \o t) /\ h \o t \in Streams
        BY <2>2, <2>4, Cat, CatAssoc, Zenon
      <3> DEFINE u == h \o t
      <3>2. TxErr_serialize(v) \o t = c \o u
        BY <2>5, <3>1, Zenon
      <3>3. TakeTag(TxErrCodesRead, c \o u) = Ok(v.type, u)
            /\ TakeTxErrHeld(v.type, u) = Ok(v.val, t)
        BY <2>2, <2>4, <3>1, Zenon
      <3> HIDE DEF u
      <3>4. TxErr_deserialize(c \o u) = Ok([type |-> v.type, val |-> v.val], t)
        BY <1>1, <3>3
      <3> QED
        BY <2>1, <3>2, <3>4, Zenon
    <2> QED
      BY <2>2, <2>4, <2>5, <2>6, CatBehind, Zenon
  <1>3. ASSUME NEW s \in Streams, TxErr_deserialize(s).ok
        PROVE  \E v \in TxErr, r \in Streams :
                  TxErr_deserialize(s) = Ok(v, r)
                        /\ \A q \in Streams : TxErr_deserialize(s \o q) = Ok(v, r \o q)
    <2> DEFINE tag == TakeTag(TxErrCodesRead, s)
    <2>1. tag.ok /\ TakeTxErrHeld(tag.val, tag.rest).ok
      <3>1. TxErr_deserialize(s) = Variant(tag, TakeTxErrHeld(tag.val, tag.rest))
        BY Zenon DEF TxErr_deserialize, TakeTxErrHeld
      <3> QED
        BY <1>3, <3>1, Results DEF Variant
    <2>2. PICK y \in DOMAIN TxErrCodesRead, r \in Streams :
             /\ TakeTag(TxErrCodesRead, s) = Ok(y, r)
             /\ \A q \in Streams : TakeTag(TxErrCodesRead, s \o q) = Ok(y, r \o q)
      BY <2>1, TxErrTags, TagReads
    <2>3. TakeTxErrHeld(y, r).ok
      BY <2>1, <2>2, Results
    <2>4. PICK x : \E u \in Streams :
             /\ [type |-> y, val |-> x] \in TxErr
             /\ TakeTxErrHeld(y, r) = Ok(x, u)
             /\ \A q \in Streams : TakeTxErrHeld(y, r \o q) = Ok(x, u \o q)
      BY <2>3, TxErrHeldReads
    <2>5. PICK u \in Streams :
             /\ [type |-> y, val |-> x] \in TxErr
             /\ TakeTxErrHeld(y, r) = Ok(x, u)
             /\ \A q \in Streams : TakeTxErrHeld(y, r \o q) = Ok(x, u \o q)
      BY <2>4
    <2> DEFINE v == [type |-> y, val |-> x]
    <2>6. TxErr_deserialize(s) = Ok(v, u)
          /\ \A q \in Streams : TxErr_deserialize(s \o q) = Ok(v, u \o q)
      BY <1>1, <2>2, <2>5
    <2> HIDE DEF v
    <2> QED
      BY <2>5, <2>6 DEF v
  <1> QED
    BY <1>2, <1>3 DEF Codec, Writes, Reads

LEMMA ErrorKindTags ==
  /\ Tags(ErrorCodesRead)
  /\ DOMAIN ErrorCodesRead
        = {"TxValidation", "Io", "BytesRemaining", "InvalidRequest", "InvalidHeight"}
  /\ ErrorCodesWritten = ErrorCodesRead
  BY Widths DEF Tags, ErrorCodesRead, Bytes, ErrorCodesWritten

PutErrorKindHeld(type, val) ==
    IF type = "TxValidation" THEN TxErr_serialize(val) ELSE <<>>
TakeErrorKindHeld(type, s) ==
    IF type = "TxValidation" THEN TxErr_deserialize(s) ELSE Nothing(s)

LEMMA ErrorKindHeldWrites ==
  ASSUME NEW y \in DOMAIN ErrorCodesRead, NEW x, [type |-> y, val |-> x] \in ErrorKind
  PROVE  /\ PutErrorKindHeld(y, x) \in Streams
         /\ \A t \in Streams : TakeErrorKindHeld(y, PutErrorKindHeld(y, x) \o t) = Ok(x, t)
  <1>1. CASE y = "TxValidation"
    <2>1. x \in TxErr
      BY <1>1 DEF ErrorKind, EnumOf, ErrorCodesWritten
    <2>2. PutErrorKindHeld(y, x) = TxErr_serialize(x)
          /\ \A s : TakeErrorKindHeld(y, s) = TxErr_deserialize(s)
      BY <1>1 DEF PutErrorKindHeld, TakeErrorKindHeld
    <2>3. TxErr_serialize(x) \in Streams
          /\ \A t \in Streams : TxErr_deserialize(TxErr_serialize(x) \o t) = Ok(x, t)
      BY <2>1, TxErrCodec DEF Codec, Writes
    <2> QED
      BY <2>2, <2>3, Zenon
  <1>2. CASE y \in {"Io", "BytesRemaining", "InvalidRequest", "InvalidHeight"}
    <2>1. x \in {<<>>}
      BY <1>2 DEF ErrorKind, EnumOf, ErrorCodesWritten
    <2>2. PutErrorKindHeld(y, x) = <<>> /\ x = <<>>
          /\ \A s : TakeErrorKindHeld(y, s) = Ok(<<>>, s)
      BY <1>2, <2>1 DEF PutErrorKindHeld, TakeErrorKindHeld, Nothing
    <2>3. <<>> \in Streams /\ \A t \in Streams : <<>> \o t = t
      BY Cat, CatEmpty
    <2> QED
      BY <2>2, <2>3, Zenon
  <1> QED
    BY <1>1, <1>2, ErrorKindTags

LEMMA ErrorKindHeldReads ==
  ASSUME NEW y \in DOMAIN ErrorCodesRead, NEW s \in Streams, TakeErrorKindHeld(y, s).ok
  PROVE  \E x : \E r \in Streams :
            /\ [type |-> y, val |-> x] \in ErrorKind
            /\ TakeErrorKindHeld(y, s) = Ok(x, r)
            /\ \A q \in Streams : TakeErrorKindHeld(y, s \o q) = Ok(x, r \o q)
  <1>1. CASE y = "TxValidation"
    <2>1. \A u : TakeErrorKindHeld(y, u) = TxErr_deserialize(u)
      BY <1>1 DEF TakeErrorKindHeld
    <2>2. TxErr_deserialize(s).ok
      BY <2>1, Zenon
    <2>3. PICK x \in TxErr, r \in Streams :
             TxErr_deserialize(s) = Ok(x, r)
                   /\ \A q \in Streams : TxErr_deserialize(s \o q) = Ok(x, r \o q)
      BY <2>2, TxErrCodec DEF Codec, Reads
    <2>4. [type |-> y, val |-> x] \in ErrorKind
      BY <1>1, <2>3 DEF ErrorKind, EnumOf, ErrorCodesWritten
    <2> QED
      BY <2>1, <2>3, <2>4
  <1>2. CASE y \in {"Io", "BytesRemaining", "InvalidRequest", "InvalidHeight"}
    <2>1. \A u : TakeErrorKindHeld(y, u) = Ok(<<>>, u)
      BY <1>2 DEF TakeErrorKindHeld, Nothing
    <2>2. [type |-> y, val |-> <<>>] \in ErrorKind
      BY <1>2 DEF ErrorKind, EnumOf, ErrorCodesWritten
    <2> QED
      BY <2>1, <2>2
  <1> QED
    BY <1>1, <1>2, ErrorKindTags

LEMMA ErrorKindCodec == Codec(ErrorKind_serialize, ErrorKind_deserialize, ErrorKind)
  <1>1. ASSUME NEW s, NEW y, NEW r, NEW x, NEW u,
               TakeTag(ErrorCodesRead, s) = Ok(y, r), TakeErrorKindHeld(y, r) = Ok(x, u)
        PROVE  ErrorKind_deserialize(s) = Ok([type |-> y, val |-> x], u)
    <2>1. /\ TakeTag(ErrorCodesRead, s).ok /\ TakeTag(ErrorCodesRead, s).val = y
          /\ TakeTag(ErrorCodesRead, s).rest = r
          /\ TakeErrorKindHeld(y, r).ok /\ TakeErrorKindHeld(y, r).val = x
                /\ TakeErrorKindHeld(y, r).rest = u
      BY <1>1, Results
    <2>2. ErrorKind_deserialize(s) = Variant(TakeTag(ErrorCodesRead, s),
                     TakeErrorKindHeld(TakeTag(ErrorCodesRead, s).val, TakeTag(ErrorCodesRead,
                           s).rest))
      BY Zenon DEF ErrorKind_deserialize, TakeErrorKindHeld
    <2>3. ErrorKind_deserialize(s)
          = Variant(TakeTag(ErrorCodesRead, s), TakeErrorKindHeld(y, r))
      BY <2>1, <2>2, Zenon
    <2> QED
      BY <2>1, <2>3, Zenon DEF Variant
  <1>2. ASSUME NEW v \in ErrorKind
        PROVE  /\ ErrorKind_serialize(v) \in Streams /\ ErrorKind_serialize(v) # <<>>
               /\ \A t \in Streams :
                     ErrorKind_deserialize(ErrorKind_serialize(v) \o t) = Ok(v, t)
    <2> DEFINE c == <<ErrorCodesRead[v.type]>>
               h == PutErrorKindHeld(v.type, v.val)
    <2>1. v = [type |-> v.type, val |-> v.val] /\ v.type \in DOMAIN ErrorCodesRead
      BY ErrorKindTags DEF ErrorKind, EnumOf, ErrorCodesWritten
    <2>2. c \in Streams /\ c # <<>>
          /\ \A t \in Streams : TakeTag(ErrorCodesRead, c \o t) = Ok(v.type, t)
      BY <2>1, ErrorKindTags, TagWrites
    <2>3. [type |-> v.type, val |-> v.val] \in ErrorKind
      BY <2>1
    <2>4. h \in Streams /\ \A t \in Streams : TakeErrorKindHeld(v.type, h \o t) = Ok(v.val, t)
      BY <2>1, <2>3, ErrorKindHeldWrites
    <2>5. ErrorKind_serialize(v) = c \o h
      BY ErrorKindTags, Zenon DEF ErrorKind_serialize, PutErrorKindHeld
    <2> HIDE DEF c, h
    <2>6. ASSUME NEW t \in Streams
          PROVE ErrorKind_deserialize(ErrorKind_serialize(v) \o t) = Ok(v, t)
      <3>1. (c \o h) \o t = c \o (h \o t) /\ h \o t \in Streams
        BY <2>2, <2>4, Cat, CatAssoc, Zenon
      <3> DEFINE u == h \o t
      <3>2. ErrorKind_serialize(v) \o t = c \o u
        BY <2>5, <3>1, Zenon
      <3>3. TakeTag(ErrorCodesRead, c \o u) = Ok(v.type, u)
            /\ TakeErrorKindHeld(v.type, u) = Ok(v.val, t)
        BY <2>2, <2>4, <3>1, Zenon
      <3> HIDE DEF u
      <3>4. ErrorKind_deserialize(c \o u) = Ok([type |-> v.type, val |-> v.val], t)
        BY <1>1, <3>3
      <3> QED
        BY <2>1, <3>2, <3>4, Zenon
    <2> QED
      BY <2>2, <2>4, <2>5, <2>6, CatBehind, Zenon
  <1>3. ASSUME NEW s \in Streams, ErrorKind_deserialize(s).ok
        PROVE  \E v \in ErrorKind, r \in Streams :
                  ErrorKind_deserialize(s) = Ok(v, r)
                        /\ \A q \in Streams : ErrorKind_deserialize(s \o q) = Ok(v, r \o q)
    <2> DEFINE tag == TakeTag(ErrorCodesRead, s)
    <2>1. tag.ok /\ TakeErrorKindHeld(tag.val, tag.rest).ok
      <3>1. ErrorKind_deserialize(s) = Variant(tag, TakeErrorKindHeld(tag.val, tag.rest))
        BY Zenon DEF ErrorKind_deserialize, TakeErrorKindHeld
      <3> QED
        BY <1>3, <3>1, Results DEF Variant
    <2>2. PICK y \in DOMAIN ErrorCodesRead, r \in Streams :
             /\ TakeTag(ErrorCodesRead, s) = Ok(y, r)
             /\ \A q \in Streams : TakeTag(ErrorCodesRead, s \o q) = Ok(y, r \o q)
      BY <2>1, ErrorKindTags, TagReads
    <2>3. TakeErrorKindHeld(y, r).ok
      BY <2>1, <2>2, Results
    <2>4. PICK x : \E u \in Streams :
             /\ [type |-> y, val |-> x] \in ErrorKind
             /\ TakeErrorKindHeld(y, r) = Ok(x, u)
             /\ \A q \in Streams : TakeErrorKindHeld(y, r \o q) = Ok(x, u \o q)
      BY <2>3, ErrorKindHeldReads
    <2>5. PICK u \in Streams :
             /\ [type |-> y, val |-> x] \in ErrorKind
             /\ TakeErrorKindHeld(y, r) = Ok(x, u)
             /\ \A q \in Streams : TakeErrorKindHeld(y, r \o q) = Ok(x, u \o q)
      BY <2>4
    <2> DEFINE v == [type |-> y, val |-> x]
    <2>6. ErrorKind_deserialize(s) = Ok(v, u)
          /\ \A q \in Streams : ErrorKind_deserialize(s \o q) = Ok(v, u \o q)
      BY <1>1, <2>2, <2>5
    <2> HIDE DEF v
    <2> QED
      BY <2>5, <2>6 DEF v
  <1> QED
    BY <1>2, <1>3 DEF Codec, Writes, Reads

-----------------------------------------------------------------------------
(* Filters: sets of ids, written in ascending order.                       *)

LEMMA AscendingIds ==
  ASSUME NEW f \in SUBSET Ints
  PROVE  /\ Ascending(f) \in Seq(Ints) /\ Len(Ascending(f)) = Cardinality(f)
         /\ Cardinality(f) \in Nat /\ ToSet(Ascending(f)) = f
  <1> DEFINE n == Cardinality(f)
             Below(x) == {lower \in f : lower < x}
             R == [x \in f |-> Cardinality(Below(x))]
             asc == Ascending(f)
  <1>1. IsFiniteSet(f) /\ n \in Nat /\ \A x \in f : x \in Nat
    <2>1. IsFiniteSet(Ints)
      <3>1. 0 \in Int /\ INT - 1 \in Int
        BY Widths
      <3> QED
        BY <3>1, FS_Interval DEF Ints
    <2>2. IsFiniteSet(f)
      BY <2>1, FS_Subset
    <2>3. \A x \in f : x \in Nat
      BY Widths DEF Ints
    <2> QED
      BY <2>2, <2>3, FS_CardinalityType
  <1>2. ASSUME NEW x \in f
        PROVE  /\ IsFiniteSet(Below(x)) /\ Cardinality(Below(x)) \in 0 .. n - 1
    <2>1. Below(x) \in SUBSET (f \ {x})
      BY <1>1
    <2>2. IsFiniteSet(f \ {x}) /\ Cardinality(f \ {x}) = n - 1
      BY <1>1, FS_RemoveElement
    <2>3. IsFiniteSet(Below(x)) /\ Cardinality(Below(x)) <= Cardinality(f \ {x})
      BY <2>1, <2>2, FS_Subset
    <2>4. Cardinality(Below(x)) \in Nat
      BY <2>3, FS_CardinalityType
    <2> QED
      BY <1>1, <2>2, <2>3, <2>4
  <1>3. ASSUME NEW x \in f, NEW y \in f, x < y
        PROVE  Cardinality(Below(x)) < Cardinality(Below(y))
    <2> DEFINE B == Below(x)
               D == B \cup {x}
    <2>1. IsFiniteSet(D) /\ Cardinality(D) = Cardinality(B) + 1
      <3>1. x \notin B
        BY <1>1
      <3>2. IsFiniteSet(B)
        BY <1>2
      <3> HIDE DEF B
      <3> QED
        BY <3>1, <3>2, FS_AddElement
    <2>2. D \in SUBSET Below(y)
      BY <1>1, <1>3
    <2>3. Cardinality(D) <= Cardinality(Below(y))
      BY <1>2, <2>2, FS_Subset
    <2>4. Cardinality(B) \in Int /\ Cardinality(Below(y)) \in Int
      <3>1. IsFiniteSet(Below(x)) /\ IsFiniteSet(Below(y))
        BY <1>2
      <3> HIDE DEF Below
      <3>2. Cardinality(Below(x)) \in Nat /\ Cardinality(Below(y)) \in Nat
        BY <3>1, FS_CardinalityType
      <3> QED
        BY <3>2
    <2> HIDE DEF B, D, Below
    <2> QED
      BY <2>1, <2>3, <2>4 DEF B
  <1>4. \A x \in f : R[x] = Cardinality(Below(x)) /\ R[x] \in 0 .. n - 1
    BY <1>2
  <1>5. \A x, y \in f : R[x] = R[y] => x = y
    <2> SUFFICES ASSUME NEW x \in f, NEW y \in f, R[x] = R[y], x # y PROVE FALSE
      OBVIOUS
    <2>1. x < y \/ y < x
      BY <1>1
    <2>2. R[x] \in Int /\ R[y] \in Int
      BY <1>1, <1>4
    <2> HIDE DEF R, Below
    <2> QED
      BY <1>3, <1>4, <2>1, <2>2
  <1>6. R \in [f -> 0 .. n - 1]
    BY <1>4
  <1>7. asc = [i \in 1 .. n |-> CHOOSE id \in f : Cardinality(Below(id)) = i - 1]
    BY Zenon DEF Ascending
  <1> HIDE DEF R, n, Below
  <1>8. R \in Injection(f, 0 .. n - 1)
    BY <1>5, <1>6 DEF Injection, IsInjective
  <1>9. R \in Surjection(f, 0 .. n - 1)
    <2>1. IsFiniteSet(0 .. n - 1) /\ Cardinality(0 .. n - 1) = n
      <3>1. 0 \in Int /\ n - 1 \in Int
        BY <1>1
      <3>2. IsFiniteSet(0 .. n - 1)
            /\ Cardinality(0 .. n - 1) = IF 0 > n - 1 THEN 0 ELSE (n - 1) - 0 + 1
        BY <3>1, FS_Interval
      <3> QED
        BY <1>1, <3>2
    <2> QED
      BY <1>8, <2>1, FS_Injection DEF n
  <1>10. \A i \in 1 .. n : \E id \in f : Cardinality(Below(id)) = i - 1
    <2>1. \A i \in 0 .. n - 1 : \E id \in f : R[id] = i
      BY <1>9 DEF Surjection
    <2>2. \A i \in 1 .. n : i - 1 \in 0 .. n - 1
      BY <1>1
    <2> QED
      BY <1>4, <2>1, <2>2
  <1>11. ASSUME NEW i \in 1 .. n
         PROVE  asc[i] \in f /\ Cardinality(Below(asc[i])) = i - 1
    BY <1>7, <1>10
  <1>12. asc \in Seq(f) /\ Len(asc) = n /\ DOMAIN asc = 1 .. n
    BY <1>1, <1>7, <1>11
  <1>13. ASSUME NEW x \in f PROVE \E i \in 1 .. n : asc[i] = x
    <2> DEFINE i == R[x] + 1
    <2>1. i \in 1 .. n /\ i - 1 = R[x]
      BY <1>1, <1>4
    <2>2. asc[i] \in f /\ R[asc[i]] = R[x]
      BY <1>4, <1>11, <2>1
    <2> QED
      BY <1>5, <2>1, <2>2
  <1> HIDE DEF asc
  <1>14. ToSet(asc) = f
    BY <1>11, <1>12, <1>13 DEF ToSet
  <1>15. asc \in Seq(Ints)
    BY <1>12
  <1> QED
    BY <1>1, <1>12, <1>14, <1>15 DEF asc, n

PutIds(xs) == PutList(BYTE, [i \in DOMAIN xs |-> PushInt(xs[i])])
TakeIds(s) == TakeList(BYTE, [t \in Streams |-> TakeInt(t)], s)

LEMMA IdsPieces ==
  /\ Reader([t \in Streams |-> TakeInt(t)], Ints)
  /\ \A xs \in Seq(Ints) : Pieces([t \in Streams |-> TakeInt(t)], xs,
        [i \in DOMAIN xs |-> PushInt(xs[i])])
  <1> DEFINE take == [t \in Streams |-> TakeInt(t)]
  <1>1. \A t \in Streams : take[t] = TakeInt(t)
    OBVIOUS
  <1>2. \A s, q \in Streams : s \o q \in Streams
    BY Cat, Zenon
  <1> HIDE DEF take
  <1>3. Reader(take, Ints)
    <2> SUFFICES ASSUME NEW s \in Streams, take[s].ok
                 PROVE  \E v \in Ints, r \in Streams :
                           take[s] = Ok(v, r) /\ \A q \in Streams : take[s \o q] = Ok(v, r \o q)
      BY Zenon DEF Reader
    <2>1. PICK v \in Ints, r \in Streams :
             TakeInt(s) = Ok(v, r) /\ \A q \in Streams : TakeInt(s \o q) = Ok(v, r \o q)
      BY <1>1, IntCodec DEF Codec, Reads
    <2> QED
      BY <1>1, <1>2, <2>1
  <1>4. ASSUME NEW xs \in Seq(Ints)
        PROVE  Pieces(take, xs, [i \in DOMAIN xs |-> PushInt(xs[i])])
    <2> DEFINE pieces == [i \in DOMAIN xs |-> PushInt(xs[i])]
    <2>1. /\ DOMAIN xs = 1 .. Len(xs) /\ Len(xs) \in Nat
          /\ \A i \in 1 .. Len(xs) : xs[i] \in Ints
      OBVIOUS
    <2>2. \A i \in 1 .. Len(xs) : pieces[i] = PushInt(xs[i])
      BY <2>1
    <2>3. ASSUME NEW i \in 1 .. Len(xs)
          PROVE  /\ pieces[i] \in Streams /\ pieces[i] # <<>>
                 /\ \A t \in Streams : TakeInt(pieces[i] \o t) = Ok(xs[i], t)
      BY <2>1, <2>2, IntCodec DEF Codec, Writes
    <2>4. pieces \in Seq(Streams) /\ Len(pieces) = Len(xs)
      BY <2>1, <2>3
    <2> HIDE DEF pieces
    <2>5. \A i \in 1 .. Len(xs) : \A t \in Streams : take[pieces[i] \o t] = Ok(xs[i], t)
      BY <1>1, <1>2, <2>3
    <2>6. Pieces(take, xs, pieces)
      BY <2>3, <2>4, <2>5 DEF Pieces
    <2> QED
      BY <2>6 DEF pieces
  <1> QED
    BY <1>3, <1>4 DEF take

LEMMA IdsCodec == Codec(PutIds, TakeIds, List(Ints, BYTE))
  <1> DEFINE take == [t \in Streams |-> TakeInt(t)]
  <1>0. CountWidth(BYTE)
    BY DEF CountWidth
  <1>1. Reader(take, Ints)
    BY IdsPieces
  <1>2. ASSUME NEW v \in List(Ints, BYTE)
        PROVE  /\ PutIds(v) \in Streams /\ PutIds(v) # <<>>
               /\ \A t \in Streams : TakeIds(PutIds(v) \o t) = Ok(v, t)
    <2> DEFINE pieces == [i \in DOMAIN v |-> PushInt(v[i])]
    <2>1. v \in Seq(Ints)
      BY DEF List
    <2>2. Pieces(take, v, pieces)
      BY <2>1, IdsPieces, Zenon
    <2>3. PutIds(v) = PutList(BYTE, pieces) /\ \A s : TakeIds(s) = TakeList(BYTE, take, s)
      BY Zenon DEF PutIds, TakeIds
    <2> HIDE DEF take, pieces
    <2>4. /\ PutList(BYTE, pieces) \in Streams /\ PutList(BYTE, pieces) # <<>>
          /\ \A t \in Streams : TakeList(BYTE, take, PutList(BYTE, pieces) \o t) = Ok(v, t)
      BY <1>0, <1>1, <2>2, FittingListWrites
    <2> QED
      BY <2>3, <2>4, Zenon
  <1>3. ASSUME NEW s \in Streams, TakeIds(s).ok
        PROVE  \E v \in List(Ints, BYTE), r \in Streams :
                  TakeIds(s) = Ok(v, r) /\ \A q \in Streams : TakeIds(s \o q) = Ok(v, r \o q)
    <2>1. \A u : TakeIds(u) = TakeList(BYTE, take, u)
      BY Zenon DEF TakeIds
    <2> HIDE DEF take
    <2>2. TakeList(BYTE, take, s).ok
      BY <1>3, <2>1, Zenon
    <2>3. \E l \in List(Ints, BYTE), r \in Streams :
             /\ TakeList(BYTE, take, s) = Ok(l, r)
             /\ \A q \in Streams : TakeList(BYTE, take, s \o q) = Ok(l, r \o q)
      BY <1>0, <1>1, <2>2, ListReads
    <2> QED
      BY <2>1, <2>3, Zenon
  <1> QED
    BY <1>2, <1>3 DEF Codec, Writes, Reads

LEMMA FilterSteps ==
  /\ \A f : PutFilter(f) = PutIds(Ascending(f))
  /\ \A s, l, r : TakeIds(s) = Ok(l, r) => TakeFilter(s) = Ok(ToSet(l), r)
  /\ \A s : TakeFilter(s).ok => TakeIds(s).ok
  <1>1. \A f : PutFilter(f) = PutIds(Ascending(f))
    BY Zenon DEF PutFilter, PutIds
  <1>2. \A s : TakeFilter(s) = IF TakeIds(s).ok
                              THEN Ok(ToSet(TakeIds(s).val), TakeIds(s).rest) ELSE Fail
    BY Zenon DEF TakeFilter, TakeIds
  <1>3. ASSUME NEW s, NEW l, NEW r, TakeIds(s) = Ok(l, r) PROVE TakeFilter(s) = Ok(ToSet(l), r)
    <2>1. TakeIds(s).ok /\ TakeIds(s).val = l /\ TakeIds(s).rest = r
      BY <1>3, Results
    <2> QED
      BY <1>2, <2>1, Zenon
  <1>4. ASSUME NEW s, TakeFilter(s).ok PROVE TakeIds(s).ok
    BY <1>2, <1>4, Results
  <1> QED
    BY <1>1, <1>3, <1>4

LEMMA FilterCodec == Codec(PutFilter, TakeFilter, Filter)
  <1>1. ASSUME NEW f \in Filter
        PROVE  /\ PutFilter(f) \in Streams /\ PutFilter(f) # <<>>
               /\ \A t \in Streams : TakeFilter(PutFilter(f) \o t) = Ok(f, t)
    <2> DEFINE asc == Ascending(f)
    <2>1. f \in SUBSET Ints /\ Cardinality(f) < BYTE
      BY DEF Filter
    <2>2. asc \in List(Ints, BYTE) /\ ToSet(asc) = f
      BY <2>1, AscendingIds DEF List
    <2>3. PutFilter(f) = PutIds(asc)
      BY FilterSteps
    <2> HIDE DEF asc
    <2>4. /\ PutIds(asc) \in Streams /\ PutIds(asc) # <<>>
          /\ \A t \in Streams : TakeIds(PutIds(asc) \o t) = Ok(asc, t)
      BY <2>2, IdsCodec DEF Codec, Writes
    <2> QED
      BY <2>2, <2>3, <2>4, FilterSteps
  <1>2. ASSUME NEW s \in Streams, TakeFilter(s).ok
        PROVE  \E v \in Filter, r \in Streams :
                  TakeFilter(s) = Ok(v, r)
                        /\ \A q \in Streams : TakeFilter(s \o q) = Ok(v, r \o q)
    <2>1. TakeIds(s).ok
      BY <1>2, FilterSteps
    <2>2. PICK l \in List(Ints, BYTE), r \in Streams :
             TakeIds(s) = Ok(l, r) /\ \A q \in Streams : TakeIds(s \o q) = Ok(l, r \o q)
      BY <2>1, IdsCodec DEF Codec, Reads
    <2>3. ToSet(l) \in Filter
      <3>1. /\ l \in Seq(Ints) /\ Len(l) \in Nat /\ Len(l) < BYTE /\ DOMAIN l = 1 .. Len(l)
            /\ \A i \in 1 .. Len(l) : l[i] \in Ints
        BY DEF List
      <3>2. ToSet(l) \in SUBSET Ints
        BY <3>1 DEF ToSet
      <3>3. l \in Surjection(1 .. Len(l), ToSet(l))
        BY <3>1 DEF ToSet, Surjection
      <3>4. IsFiniteSet(1 .. Len(l)) /\ Cardinality(1 .. Len(l)) = Len(l)
        <4>1. 1 \in Int /\ Len(l) \in Int
          BY <3>1
        <4>2. IsFiniteSet(1 .. Len(l))
              /\ Cardinality(1 .. Len(l)) = IF 1 > Len(l) THEN 0 ELSE Len(l) - 1 + 1
          BY <4>1, FS_Interval
        <4> QED
          BY <3>1, <4>2
      <3>5. IsFiniteSet(ToSet(l)) /\ Cardinality(ToSet(l)) <= Len(l)
        BY <3>3, <3>4, FS_Surjection
      <3>6. Cardinality(ToSet(l)) \in Nat
        BY <3>5, FS_CardinalityType
      <3>7. Cardinality(ToSet(l)) < BYTE
        BY <3>1, <3>5, <3>6, Widths
      <3> QED
        BY <3>2, <3>7 DEF Filter
    <2>4. TakeFilter(s) = Ok(ToSet(l), r)
          /\ \A q \in Streams : TakeFilter(s \o q) = Ok(ToSet(l), r \o q)
      BY <2>2, FilterSteps
    <2> QED
      BY <2>3, <2>4
  <1> QED
    BY <1>1, <1>2 DEF Codec, Writes, Reads

-----------------------------------------------------------------------------
(* Requests, responses and messages.                                       *)

PutHeights(x) == PushInt(x.min_height) \o PushInt(x.max_height)
Heights == [min_height : Ints, max_height : Ints]

LEMMA HeightsCodec == Codec(PutHeights, TakeHeights, Heights)
  <1>1. ASSUME NEW s, NEW a1, NEW r1, NEW a2, NEW r2,
               TakeInt(s) = Ok(a1, r1),
               TakeInt(r1) = Ok(a2, r2)
        PROVE  TakeHeights(s) = Ok([min_height |-> a1, max_height |-> a2], r2)
    BY <1>1, Results DEF TakeHeights
  <1>2. ASSUME NEW v \in Heights
        PROVE  /\ PutHeights(v) \in Streams /\ PutHeights(v) # <<>>
               /\ \A t \in Streams : TakeHeights(PutHeights(v) \o t) = Ok(v, t)
    <2> DEFINE p1 == PushInt(v.min_height)
               p2 == PushInt(v.max_height)
    <2>1. /\ v.min_height \in Ints /\ v.max_height \in Ints
          /\ v = [min_height |-> v.min_height, max_height |-> v.max_height]
      BY DEF Heights
    <2>p1. p1 \in Streams /\ p1 # <<>>
          /\ \A t \in Streams : TakeInt(p1 \o t) = Ok(v.min_height, t)
      BY <2>1, IntCodec DEF Codec, Writes
    <2>p2. p2 \in Streams /\ p2 # <<>>
          /\ \A t \in Streams : TakeInt(p2 \o t) = Ok(v.max_height, t)
      BY <2>1, IntCodec DEF Codec, Writes
    <2> DEFINE w1 == p1
               w2 == w1 \o p2
    <2>2. PutHeights(v) = w2
      BY Zenon DEF PutHeights, PutByte
    <2> HIDE DEF p1, p2
    <2>w2. w2 \in Streams /\ w2 # <<>>
      BY <2>p2, <2>p1, CatBehind, Zenon
    <2>4. ASSUME NEW t \in Streams PROVE TakeHeights(PutHeights(v) \o t) = Ok(v, t)
      <3> DEFINE u2 == t
                 u1 == p2 \o u2
                 u0 == p1 \o u1
      <3>s1. u1 \in Streams
        BY <2>p2, Cat, Zenon
      <3>e2. w2 \o u2 = w1 \o u1
        BY <2>p1, <2>p2, CatAssoc, Zenon
      <3>1. PutHeights(v) \o t = u0
        <4>1. w1 \o u1 = u0
          OBVIOUS
        <4> HIDE DEF w1, w2, u0, u1
        <4> QED
          BY <2>2, <4>1, <3>e2, Zenon
      <3>2. TakeInt(u0) = Ok(v.min_height, u1) /\ TakeInt(u1) = Ok(v.max_height, u2)
        BY <2>p1, <2>p2, <3>s1, Zenon
      <3> HIDE DEF u0, u1
      <3>3. TakeHeights(u0) = Ok([min_height |-> v.min_height, max_height |-> v.max_height], t)
        BY <1>1, <2>1, <3>2
      <3> QED
        BY <2>1, <3>1, <3>3, Zenon
    <2> QED
      BY <2>2, <2>w2, <2>4, Zenon
  <1>3. ASSUME NEW s \in Streams, TakeHeights(s).ok
        PROVE  \E v \in Heights, r \in Streams :
                  TakeHeights(s) = Ok(v, r)
                        /\ \A q \in Streams : TakeHeights(s \o q) = Ok(v, r \o q)
    <2> DEFINE f1 == TakeInt(s)
               f2 == TakeInt(f1.rest)
    <2>1. f1.ok /\ f2.ok
      BY <1>3, Results DEF TakeHeights
    <2>a1. PICK a1 \in Ints, r1 \in Streams :
              TakeInt(s) = Ok(a1, r1) /\ \A q \in Streams : TakeInt(s \o q) = Ok(a1, r1 \o q)
      BY <2>1, IntCodec DEF Codec, Reads
    <2>b1. f1.rest = r1 /\ f1.val = a1
      BY <2>a1, Results
    <2>a2. PICK a2 \in Ints, r2 \in Streams :
              TakeInt(r1) = Ok(a2, r2) /\ \A q \in Streams : TakeInt(r1 \o q) = Ok(a2, r2 \o q)
      BY <2>1, <2>b1, IntCodec DEF Codec, Reads
    <2>b2. f2.rest = r2 /\ f2.val = a2
      BY <2>a2, <2>b1, Results
    <2> DEFINE v == [min_height |-> a1, max_height |-> a2]
    <2>3. v \in Heights
      BY <2>a1, <2>a2 DEF Heights
    <2>4. TakeHeights(s) = Ok(v, r2)
      BY <1>1, <2>a1, <2>a2
    <2>5. ASSUME NEW q \in Streams PROVE TakeHeights(s \o q) = Ok(v, r2 \o q)
      <3> DEFINE t0 == s \o q
                 t1 == r1 \o q
                 t2 == r2 \o q
      <3>1. TakeInt(t0) = Ok(a1, t1) /\ TakeInt(t1) = Ok(a2, t2)
        BY <2>a1, <2>a2, Zenon
      <3> HIDE DEF t0, t1, t2
      <3>2. TakeHeights(t0) = Ok(v, t2)
        BY <1>1, <3>1
      <3> QED
        BY <3>2 DEF t0, t2
    <2> HIDE DEF v
    <2> QED
      BY <2>3, <2>4, <2>5
  <1> QED
    BY <1>2, <1>3 DEF Codec, Writes, Reads

LEMMA RequestTags ==
  /\ Tags(RpcType)
  /\ DOMAIN RpcType
        = {"Broadcast", "SetBlockFilter", "GetBlock", "GetFullBlock", "GetAccountInfo",
              "GetBlockRange", "ClearBlockFilter", "Subscribe", "Unsubscribe", "GetProperties"}
  BY Widths DEF Tags, RpcType, Bytes

PutRequestHeld(type, val) ==
    CASE type = "Broadcast" -> TxVariant_serialize(val)
      [] type = "SetBlockFilter" -> PutFilter(val)
      [] type \in {"GetBlock", "GetFullBlock", "GetAccountInfo"} -> PushInt(val)
      [] type = "GetBlockRange" -> PushInt(val.min_height) \o PushInt(val.max_height)
      [] OTHER -> <<>>
TakeRequestHeld(type, s) ==
    CASE type = "Broadcast" -> TxVariant_deserialize(s)
      [] type = "SetBlockFilter" -> TakeFilter(s)
      [] type \in {"GetBlock", "GetFullBlock", "GetAccountInfo"} -> TakeInt(s)
      [] type = "GetBlockRange" -> TakeHeights(s)
      [] OTHER -> Nothing(s)

LEMMA RequestHeldWrites ==
  ASSUME NEW y \in DOMAIN RpcType, NEW x, [type |-> y, val |-> x] \in Request
  PROVE  /\ PutRequestHeld(y, x) \in Streams
         /\ \A t \in Streams : TakeRequestHeld(y, PutRequestHeld(y, x) \o t) = Ok(x, t)
  <1>1. CASE y = "Broadcast"
    <2>1. x \in Tx
      BY <1>1 DEF Request, EnumOf, Heights
    <2>2. PutRequestHeld(y, x) = TxVariant_serialize(x)
          /\ \A s : TakeRequestHeld(y, s) = TxVariant_deserialize(s)
      BY <1>1 DEF PutRequestHeld, TakeRequestHeld
    <2>3. TxVariant_serialize(x) \in Streams
          /\ \A t \in Streams : TxVariant_deserialize(TxVariant_serialize(x) \o t) = Ok(x, t)
      BY <2>1, TxCodec DEF Codec, Writes
    <2> QED
      BY <2>2, <2>3, Zenon
  <1>2. CASE y = "SetBlockFilter"
    <2>1. x \in Filter
      BY <1>2 DEF Request, EnumOf, Heights
    <2>2. PutRequestHeld(y, x) = PutFilter(x) /\ \A s : TakeRequestHeld(y, s) = TakeFilter(s)
      BY <1>2 DEF PutRequestHeld, TakeRequestHeld
    <2>3. PutFilter(x) \in Streams
          /\ \A t \in Streams : TakeFilter(PutFilter(x) \o t) = Ok(x, t)
      BY <2>1, FilterCodec DEF Codec, Writes
    <2> QED
      BY <2>2, <2>3, Zenon
  <1>3. CASE y \in {"GetBlock", "GetFullBlock", "GetAccountInfo"}
    <2>1. x \in Ints
      BY <1>3 DEF Request, EnumOf, Heights
    <2>2. PutRequestHeld(y, x) = PushInt(x) /\ \A s : TakeRequestHeld(y, s) = TakeInt(s)
      BY <1>3 DEF PutRequestHeld, TakeRequestHeld
    <2>3. PushInt(x) \in Streams /\ \A t \in Streams : TakeInt(PushInt(x) \o t) = Ok(x, t)
      BY <2>1, IntCodec DEF Codec, Writes
    <2> QED
      BY <2>2, <2>3, Zenon
  <1>4. CASE y = "GetBlockRange"
    <2>1. x \in Heights
      BY <1>4 DEF Request, EnumOf, Heights
    <2>2. PutRequestHeld(y, x) = PutHeights(x) /\ \A s : TakeRequestHeld(y, s) = TakeHeights(s)
      BY <1>4 DEF PutRequestHeld, TakeRequestHeld, PutHeights
    <2>3. PutHeights(x) \in Streams
          /\ \A t \in Streams : TakeHeights(PutHeights(x) \o t) = Ok(x, t)
      BY <2>1, HeightsCodec DEF Codec, Writes
    <2> QED
      BY <2>2, <2>3, Zenon
  <1>5. CASE y \in {"ClearBlockFilter", "Subscribe", "Unsubscribe", "GetProperties"}
    <2>1. x \in {<<>>}
      BY <1>5 DEF Request, EnumOf, Heights
    <2>2. PutRequestHeld(y, x) = <<>> /\ x = <<>> /\ \A s : TakeRequestHeld(y, s) = Ok(<<>>, s)
      BY <1>5, <2>1 DEF PutRequestHeld, TakeRequestHeld, Nothing
    <2>3. <<>> \in Streams /\ \A t \in Streams : <<>> \o t = t
      BY Cat, CatEmpty
    <2> QED
      BY <2>2, <2>3, Zenon
  <1> QED
    BY <1>1, <1>2, <1>3, <1>4, <1>5, RequestTags

LEMMA RequestHeldReads ==
  ASSUME NEW y \in DOMAIN RpcType, NEW s \in Streams, TakeRequestHeld(y, s).ok
  PROVE  \E x : \E r \in Streams :
            /\ [type |-> y, val |-> x] \in Request
            /\ TakeRequestHeld(y, s) = Ok(x, r)
            /\ \A q \in Streams : TakeRequestHeld(y, s \o q) = Ok(x, r \o q)
  <1>1. CASE y = "Broadcast"
    <2>1. \A u : TakeRequestHeld(y, u) = TxVariant_deserialize(u)
      BY <1>1 DEF TakeRequestHeld
    <2>2. TxVariant_deserialize(s).ok
      BY <2>1, Zenon
    <2>3. PICK x \in Tx, r \in Streams :
             TxVariant_deserialize(s) = Ok(x, r)
                   /\ \A q \in Streams : TxVariant_deserialize(s \o q) = Ok(x, r \o q)
      BY <2>2, TxCodec DEF Codec, Reads
    <2>4. [type |-> y, val |-> x] \in Request
      BY <1>1, <2>3 DEF Request, EnumOf, Heights
    <2> QED
      BY <2>1, <2>3, <2>4
  <1>2. CASE y = "SetBlockFilter"
    <2>1. \A u : TakeRequestHeld(y, u) = TakeFilter(u)
      BY <1>2 DEF TakeRequestHeld
    <2>2. TakeFilter(s).ok
      BY <2>1, Zenon
    <2>3. PICK x \in Filter, r \in Streams :
             TakeFilter(s) = Ok(x, r) /\ \A q \in Streams : TakeFilter(s \o q) = Ok(x, r \o q)
      BY <2>2, FilterCodec DEF Codec, Reads
    <2>4. [type |-> y, val |-> x] \in Request
      BY <1>2, <2>3 DEF Request, EnumOf, Heights
    <2> QED
      BY <2>1, <2>3, <2>4
  <1>3. CASE y \in {"GetBlock", "GetFullBlock", "GetAccountInfo"}
    <2>1. \A u : TakeRequestHeld(y, u) = TakeInt(u)
      BY <1>3 DEF TakeRequestHeld
    <2>2. TakeInt(s).ok
      BY <2>1, Zenon
    <2>3. PICK x \in Ints, r \in Streams :
             TakeInt(s) = Ok(x, r) /\ \A q \in Streams : TakeInt(s \o q) = Ok(x, r \o q)
      BY <2>2, IntCodec DEF Codec, Reads
    <2>4. [type |-> y, val |-> x] \in Request
      BY <1>3, <2>3 DEF Request, EnumOf, Heights
    <2> QED
      BY <2>1, <2>3, <2>4
  <1>4. CASE y = "GetBlockRange"
    <2>1. \A u : TakeRequestHeld(y, u) = TakeHeights(u)
      BY <1>4 DEF TakeRequestHeld
    <2>2. TakeHeights(s).ok
      BY <2>1, Zenon
    <2>3. PICK x \in Heights, r \in Streams :
             TakeHeights(s) = Ok(x, r) /\ \A q \in Streams : TakeHeights(s \o q) = Ok(x, r \o q)
      BY <2>2, HeightsCodec DEF Codec, Reads
    <2>4. [type |-> y, val |-> x] \in Request
      BY <1>4, <2>3 DEF Request, EnumOf, Heights
    <2> QED
      BY <2>1, <2>3, <2>4
  <1>5. CASE y \in {"ClearBlockFilter", "Subscribe", "Unsubscribe", "GetProperties"}
    <2>1. \A u : TakeRequestHeld(y, u) = Ok(<<>>, u)
      BY <1>5 DEF TakeRequestHeld, Nothing
    <2>2. [type |-> y, val |-> <<>>] \in Request
      BY <1>5 DEF Request, EnumOf, Heights
    <2> QED
      BY <2>1, <2>2
  <1> QED
    BY <1>1, <1>2, <1>3, <1>4, <1>5, RequestTags

LEMMA RequestCodec == Codec(Request_serialize, Request_deserialize, Request)
  <1>1. ASSUME NEW s, NEW y, NEW r, NEW x, NEW u,
               TakeTag(RpcType, s) = Ok(y, r), TakeRequestHeld(y, r) = Ok(x, u)
        PROVE  Request_deserialize(s) = Ok([type |-> y, val |-> x], u)
    <2>1. /\ TakeTag(RpcType, s).ok /\ TakeTag(RpcType, s).val = y
          /\ TakeTag(RpcType, s).rest = r
          /\ TakeRequestHeld(y, r).ok /\ TakeRequestHeld(y, r).val = x
                /\ TakeRequestHeld(y, r).rest = u
      BY <1>1, Results
    <2>2. Request_deserialize(s) = Variant(TakeTag(RpcType, s),
                     TakeRequestHeld(TakeTag(RpcType, s).val, TakeTag(RpcType, s).rest))
      BY Zenon DEF Request_deserialize, TakeRequestHeld
    <2>3. Request_deserialize(s) = Variant(TakeTag(RpcType, s), TakeRequestHeld(y, r))
      BY <2>1, <2>2, Zenon
    <2> QED
      BY <2>1, <2>3, Zenon DEF Variant
  <1>2. ASSUME NEW v \in Request
        PROVE  /\ Request_serialize(v) \in Streams /\ Request_serialize(v) # <<>>
               /\ \A t \in Streams : Request_deserialize(Request_serialize(v) \o t) = Ok(v, t)
    <2> DEFINE c == <<RpcType[v.type]>>
               h == PutRequestHeld(v.type, v.val)
    <2>1. v = [type |-> v.type, val |-> v.val] /\ v.type \in DOMAIN RpcType
      BY RequestTags DEF Request, EnumOf, Heights
    <2>2. c \in Streams /\ c # <<>>
          /\ \A t \in Streams : TakeTag(RpcType, c \o t) = Ok(v.type, t)
      BY <2>1, RequestTags, TagWrites
    <2>3. [type |-> v.type, val |-> v.val] \in Request
      BY <2>1
    <2>4. h \in Streams /\ \A t \in Streams : TakeRequestHeld(v.type, h \o t) = Ok(v.val, t)
      BY <2>1, <2>3, RequestHeldWrites
    <2>5. Request_serialize(v) = c \o h
      BY RequestTags, Zenon DEF Request_serialize, PutRequestHeld
    <2> HIDE DEF c, h
    <2>6. ASSUME NEW t \in Streams
          PROVE Request_deserialize(Request_serialize(v) \o t) = Ok(v, t)
      <3>1. (c \o h) \o t = c \o (h \o t) /\ h \o t \in Streams
        BY <2>2, <2>4, Cat, CatAssoc, Zenon
      <3> DEFINE u == h \o t
      <3>2. Request_serialize(v) \o t = c \o u
        BY <2>5, <3>1, Zenon
      <3>3. TakeTag(RpcType, c \o u) = Ok(v.type, u)
            /\ TakeRequestHeld(v.type, u) = Ok(v.val, t)
        BY <2>2, <2>4, <3>1, Zenon
      <3> HIDE DEF u
      <3>4. Request_deserialize(c \o u) = Ok([type |-> v.type, val |-> v.val], t)
        BY <1>1, <3>3
      <3> QED
        BY <2>1, <3>2, <3>4, Zenon
    <2> QED
      BY <2>2, <2>4, <2>5, <2>6, CatBehind, Zenon
  <1>3. ASSUME NEW s \in Streams, Request_deserialize(s).ok
        PROVE  \E v \in Request, r \in Streams :
                  Request_deserialize(s) = Ok(v, r)
                        /\ \A q \in Streams : Request_deserialize(s \o q) = Ok(v, r \o q)
    <2> DEFINE tag == TakeTag(RpcType, s)
    <2>1. tag.ok /\ TakeRequestHeld(tag.val, tag.rest).ok
      <3>1. Request_deserialize(s) = Variant(tag, TakeRequestHeld(tag.val, tag.rest))
        BY Zenon DEF Request_deserialize, TakeRequestHeld
      <3> QED
        BY <1>3, <3>1, Results DEF Variant
    <2>2. PICK y \in DOMAIN RpcType, r \in Streams :
             /\ TakeTag(RpcType, s) = Ok(y, r)
             /\ \A q \in Streams : TakeTag(RpcType, s \o q) = Ok(y, r \o q)
      BY <2>1, RequestTags, TagReads
    <2>3. TakeRequestHeld(y, r).ok
      BY <2>1, <2>2, Results
    <2>4. PICK x : \E u \in Streams :
             /\ [type |-> y, val |-> x] \in Request
             /\ TakeRequestHeld(y, r) = Ok(x, u)
             /\ \A q \in Streams : TakeRequestHeld(y, r \o q) = Ok(x, u \o q)
      BY <2>3, RequestHeldReads
    <2>5. PICK u \in Streams :
             /\ [type |-> y, val |-> x] \in Request
             /\ TakeRequestHeld(y, r) = Ok(x, u)
             /\ \A q \in Streams : TakeRequestHeld(y, r \o q) = Ok(x, u \o q)
      BY <2>4
    <2> DEFINE v == [type |-> y, val |-> x]
    <2>6. Request_deserialize(s) = Ok(v, u)
          /\ \A q \in Streams : Request_deserialize(s \o q) = Ok(v, u \o q)
      BY <1>1, <2>2, <2>5
    <2> HIDE DEF v
    <2> QED
      BY <2>5, <2>6 DEF v
  <1> QED
    BY <1>2, <1>3 DEF Codec, Writes, Reads

PutSignedHeader(x) == BlockHeader_serialize(x.header) \o push_sig_pair(x.signer)
SignedHeader == [header : BlockHeader, signer : SigPair]

LEMMA SignedHeaderCodec == Codec(PutSignedHeader, TakeSignedHeader, SignedHeader)
  <1>1. ASSUME NEW s, NEW a1, NEW r1, NEW a2, NEW r2,
               BlockHeader_deserialize(s) = Ok(a1, r1),
               take_sig_pair(r1) = Ok(a2, r2)
        PROVE  TakeSignedHeader(s) = Ok([header |-> a1, signer |-> a2], r2)
    BY <1>1, Results DEF TakeSignedHeader
  <1>2. ASSUME NEW v \in SignedHeader
        PROVE  /\ PutSignedHeader(v) \in Streams /\ PutSignedHeader(v) # <<>>
               /\ \A t \in Streams : TakeSignedHeader(PutSignedHeader(v) \o t) = Ok(v, t)
    <2> DEFINE p1 == BlockHeader_serialize(v.header)
               p2 == push_sig_pair(v.signer)
    <2>1. /\ v.header \in BlockHeader /\ v.signer \in SigPair
          /\ v = [header |-> v.header, signer |-> v.signer]
      BY DEF SignedHeader
    <2>p1. p1 \in Streams /\ p1 # <<>>
          /\ \A t \in Streams : BlockHeader_deserialize(p1 \o t) = Ok(v.header, t)
      BY <2>1, BlockHeaderCodec DEF Codec, Writes
    <2>p2. p2 \in Streams /\ p2 # <<>>
          /\ \A t \in Streams : take_sig_pair(p2 \o t) = Ok(v.signer, t)
      BY <2>1, SigPairCodec DEF Codec, Writes
    <2> DEFINE w1 == p1
               w2 == w1 \o p2
    <2>2. PutSignedHeader(v) = w2
      BY Zenon DEF PutSignedHeader, PutByte
    <2> HIDE DEF p1, p2
    <2>w2. w2 \in Streams /\ w2 # <<>>
      BY <2>p2, <2>p1, CatBehind, Zenon
    <2>4. ASSUME NEW t \in Streams PROVE TakeSignedHeader(PutSignedHeader(v) \o t) = Ok(v, t)
      <3> DEFINE u2 == t
                 u1 == p2 \o u2
                 u0 == p1 \o u1
      <3>s1. u1 \in Streams
        BY <2>p2, Cat, Zenon
      <3>e2. w2 \o u2 = w1 \o u1
        BY <2>p1, <2>p2, CatAssoc, Zenon
      <3>1. PutSignedHeader(v) \o t = u0
        <4>1. w1 \o u1 = u0
          OBVIOUS
        <4> HIDE DEF w1, w2, u0, u1
        <4> QED
          BY <2>2, <4>1, <3>e2, Zenon
      <3>2. BlockHeader_deserialize(u0) = Ok(v.header, u1)
            /\ take_sig_pair(u1) = Ok(v.signer, u2)
        BY <2>p1, <2>p2, <3>s1, Zenon
      <3> HIDE DEF u0, u1
      <3>3. TakeSignedHeader(u0) = Ok([header |-> v.header, signer |-> v.signer], t)
        BY <1>1, <2>1, <3>2
      <3> QED
        BY <2>1, <3>1, <3>3, Zenon
    <2> QED
      BY <2>2, <2>w2, <2>4, Zenon
  <1>3. ASSUME NEW s \in Streams, TakeSignedHeader(s).ok
        PROVE  \E v \in SignedHeader, r \in Streams :
                  TakeSignedHeader(s) = Ok(v, r)
                        /\ \A q \in Streams : TakeSignedHeader(s \o q) = Ok(v, r \o q)
    <2> DEFINE f1 == BlockHeader_deserialize(s)
               f2 == take_sig_pair(f1.rest)
    <2>1. f1.ok /\ f2.ok
      BY <1>3, Results DEF TakeSignedHeader
    <2>a1. PICK a1 \in BlockHeader, r1 \in Streams :
              BlockHeader_deserialize(s) = Ok(a1, r1)
                    /\ \A q \in Streams : BlockHeader_deserialize(s \o q) = Ok(a1, r1 \o q)
      BY <2>1, BlockHeaderCodec DEF Codec, Reads
    <2>b1. f1.rest = r1 /\ f1.val = a1
      BY <2>a1, Results
    <2>a2. PICK a2 \in SigPair, r2 \in Streams :
              take_sig_pair(r1) = Ok(a2, r2)
                    /\ \A q \in Streams : take_sig_pair(r1 \o q) = Ok(a2, r2 \o q)
      BY <2>1, <2>b1, SigPairCodec DEF Codec, Reads
    <2>b2. f2.rest = r2 /\ f2.val = a2
      BY <2>a2, <2>b1, Results
    <2> DEFINE v == [header |-> a1, signer |-> a2]
    <2>3. v \in SignedHeader
      BY <2>a1, <2>a2 DEF SignedHeader
    <2>4. TakeSignedHeader(s) = Ok(v, r2)
      BY <1>1, <2>a1, <2>a2
    <2>5. ASSUME NEW q \in Streams PROVE TakeSignedHeader(s \o q) = Ok(v, r2 \o q)
      <3> DEFINE t0 == s \o q
                 t1 == r1 \o q
                 t2 == r2 \o q
      <3>1. BlockHeader_deserialize(t0) = Ok(a1, t1) /\ take_sig_pair(t1) = Ok(a2, t2)
        BY <2>a1, <2>a2, Zenon
      <3> HIDE DEF t0, t1, t2
      <3>2. TakeSignedHeader(t0) = Ok(v, t2)
        BY <1>1, <3>1
      <3> QED
        BY <3>2 DEF t0, t2
    <2> HIDE DEF v
    <2> QED
      BY <2>3, <2>4, <2>5
  <1> QED
    BY <1>2, <1>3 DEF Codec, Writes, Reads

LEMMA FilteredBlockTags ==
  /\ Tags(FilteredBlock)
  /\ DOMAIN FilteredBlock = {"Header", "Block"}
  BY Widths DEF Tags, FilteredBlock, Bytes

PutFilteredBlockHeld(type, val) ==
    CASE type = "Header" -> BlockHeader_serialize(val.header) \o push_sig_pair(val.signer)
      [] type = "Block" -> Block_serialize(val)
TakeFilteredBlockHeld(type, s) ==
    CASE type = "Header" -> TakeSignedHeader(s)
      [] type = "Block" -> Block_deserialize(s)

LEMMA FilteredBlockHeldWrites ==
  ASSUME NEW y \in DOMAIN FilteredBlock, NEW x, [type |-> y, val |-> x] \in FilteredBlocks
  PROVE  /\ PutFilteredBlockHeld(y, x) \in Streams
         /\ \A t \in Streams :
               TakeFilteredBlockHeld(y, PutFilteredBlockHeld(y, x) \o t) = Ok(x, t)
  <1>1. CASE y = "Header"
    <2>1. x \in SignedHeader
      BY <1>1 DEF FilteredBlocks, EnumOf, SignedHeader
    <2>2. PutFilteredBlockHeld(y, x) = PutSignedHeader(x)
          /\ \A s : TakeFilteredBlockHeld(y, s) = TakeSignedHeader(s)
      BY <1>1 DEF PutFilteredBlockHeld, TakeFilteredBlockHeld, PutSignedHeader
    <2>3. PutSignedHeader(x) \in Streams
          /\ \A t \in Streams : TakeSignedHeader(PutSignedHeader(x) \o t) = Ok(x, t)
      BY <2>1, SignedHeaderCodec DEF Codec, Writes
    <2> QED
      BY <2>2, <2>3, Zenon
  <1>2. CASE y = "Block"
    <2>1. x \in Block
      BY <1>2 DEF FilteredBlocks, EnumOf, SignedHeader
    <2>2. PutFilteredBlockHeld(y, x) = Block_serialize(x)
          /\ \A s : TakeFilteredBlockHeld(y, s) = Block_deserialize(s)
      BY <1>2 DEF PutFilteredBlockHeld, TakeFilteredBlockHeld
    <2>3. Block_serialize(x) \in Streams
          /\ \A t \in Streams : Block_deserialize(Block_serialize(x) \o t) = Ok(x, t)
      BY <2>1, BlockCodec DEF Codec, Writes
    <2> QED
      BY <2>2, <2>3, Zenon
  <1> QED
    BY <1>1, <1>2, FilteredBlockTags

LEMMA FilteredBlockHeldReads ==
  ASSUME NEW y \in DOMAIN FilteredBlock, NEW s \in Streams, TakeFilteredBlockHeld(y, s).ok
  PROVE  \E x : \E r \in Streams :
            /\ [type |-> y, val |-> x] \in FilteredBlocks
            /\ TakeFilteredBlockHeld(y, s) = Ok(x, r)
            /\ \A q \in Streams : TakeFilteredBlockHeld(y, s \o q) = Ok(x, r \o q)
  <1>1. CASE y = "Header"
    <2>1. \A u : TakeFilteredBlockHeld(y, u) = TakeSignedHeader(u)
      BY <1>1 DEF TakeFilteredBlockHeld
    <2>2. TakeSignedHeader(s).ok
      BY <2>1, Zenon
    <2>3. PICK x \in SignedHeader, r \in Streams :
             TakeSignedHeader(s) = Ok(x, r)
                   /\ \A q \in Streams : TakeSignedHeader(s \o q) = Ok(x, r \o q)
      BY <2>2, SignedHeaderCodec DEF Codec, Reads
    <2>4. [type |-> y, val |-> x] \in FilteredBlocks
      BY <1>1, <2>3 DEF FilteredBlocks, EnumOf, SignedHeader
    <2> QED
      BY <2>1, <2>3, <2>4
  <1>2. CASE y = "Block"
    <2>1. \A u : TakeFilteredBlockHeld(y, u) = Block_deserialize(u)
      BY <1>2 DEF TakeFilteredBlockHeld
    <2>2. Block_deserialize(s).ok
      BY <2>1, Zenon
    <2>3. PICK x \in Block, r \in Streams :
             Block_deserialize(s) = Ok(x, r)
                   /\ \A q \in Streams : Block_deserialize(s \o q) = Ok(x, r \o q)
      BY <2>2, BlockCodec DEF Codec, Reads
    <2>4. [type |-> y, val |-> x] \in FilteredBlocks
      BY <1>2, <2>3 DEF FilteredBlocks, EnumOf, SignedHeader
    <2> QED
      BY <2>1, <2>3, <2>4
  <1> QED
    BY <1>1, <1>2, FilteredBlockTags

LEMMA FilteredBlockCodec ==
   Codec(FilteredBlock_serialize, FilteredBlock_deserialize, FilteredBlocks)
  <1>1. ASSUME NEW s, NEW y, NEW r, NEW x, NEW u,
               TakeTag(FilteredBlock, s) = Ok(y, r), TakeFilteredBlockHeld(y, r) = Ok(x, u)
        PROVE  FilteredBlock_deserialize(s) = Ok([type |-> y, val |-> x], u)
    <2>1. /\ TakeTag(FilteredBlock, s).ok /\ TakeTag(FilteredBlock, s).val = y
          /\ TakeTag(FilteredBlock, s).rest = r
          /\ TakeFilteredBlockHeld(y, r).ok /\ TakeFilteredBlockHeld(y, r).val = x
                /\ TakeFilteredBlockHeld(y, r).rest = u
      BY <1>1, Results
    <2>2. FilteredBlock_deserialize(s) = Variant(TakeTag(FilteredBlock, s),
                     TakeFilteredBlockHeld(TakeTag(FilteredBlock, s).val, TakeTag(FilteredBlock,
                           s).rest))
      BY Zenon DEF FilteredBlock_deserialize, TakeFilteredBlockHeld
    <2>3. FilteredBlock_deserialize(s)
          = Variant(TakeTag(FilteredBlock, s), TakeFilteredBlockHeld(y, r))
      BY <2>1, <2>2, Zenon
    <2> QED
      BY <2>1, <2>3, Zenon DEF Variant
  <1>2. ASSUME NEW v \in FilteredBlocks
        PROVE  /\ FilteredBlock_serialize(v) \in Streams /\ FilteredBlock_serialize(v) # <<>>
               /\ \A t \in Streams :
                     FilteredBlock_deserialize(FilteredBlock_serialize(v) \o t) = Ok(v, t)
    <2> DEFINE c == <<FilteredBlock[v.type]>>
               h == PutFilteredBlockHeld(v.type, v.val)
    <2>1. v = [type |-> v.type, val |-> v.val] /\ v.type \in DOMAIN FilteredBlock
      BY FilteredBlockTags DEF FilteredBlocks, EnumOf, SignedHeader
    <2>2. c \in Streams /\ c # <<>>
          /\ \A t \in Streams : TakeTag(FilteredBlock, c \o t) = Ok(v.type, t)
      BY <2>1, FilteredBlockTags, TagWrites
    <2>3. [type |-> v.type, val |-> v.val] \in FilteredBlocks
      BY <2>1
    <2>4. h \in Streams
          /\ \A t \in Streams : TakeFilteredBlockHeld(v.type, h \o t) = Ok(v.val, t)
      BY <2>1, <2>3, FilteredBlockHeldWrites
    <2>5. FilteredBlock_serialize(v) = c \o h
      BY FilteredBlockTags, Zenon DEF FilteredBlock_serialize, PutFilteredBlockHeld
    <2> HIDE DEF c, h
    <2>6. ASSUME NEW t \in Streams
          PROVE FilteredBlock_deserialize(FilteredBlock_serialize(v) \o t) = Ok(v, t)
      <3>1. (c \o h) \o t = c \o (h \o t) /\ h \o t \in Streams
        BY <2>2, <2>4, Cat, CatAssoc, Zenon
      <3> DEFINE u == h \o t
      <3>2. FilteredBlock_serialize(v) \o t = c \o u
        BY <2>5, <3>1, Zenon
      <3>3. TakeTag(FilteredBlock, c \o u) = Ok(v.type, u)
            /\ TakeFilteredBlockHeld(v.type, u) = Ok(v.val, t)
        BY <2>2, <2>4, <3>1, Zenon
      <3> HIDE DEF u
      <3>4. FilteredBlock_deserialize(c \o u) = Ok([type |-> v.type, val |-> v.val], t)
        BY <1>1, <3>3
      <3> QED
        BY <2>1, <3>2, <3>4, Zenon
    <2> QED
      BY <2>2, <2>4, <2>5, <2>6, CatBehind, Zenon
  <1>3. ASSUME NEW s \in Streams, FilteredBlock_deserialize(s).ok
        PROVE  \E v \in FilteredBlocks, r \in Streams :
                  FilteredBlock_deserialize(s) = Ok(v, r)
                        /\ \A q \in Streams : FilteredBlock_deserialize(s \o q) = Ok(v, r \o q)
    <2> DEFINE tag == TakeTag(FilteredBlock, s)
    <2>1. tag.ok /\ TakeFilteredBlockHeld(tag.val, tag.rest).ok
      <3>1. FilteredBlock_deserialize(s)
            = Variant(tag, TakeFilteredBlockHeld(tag.val, tag.rest))
        BY Zenon DEF FilteredBlock_deserialize, TakeFilteredBlockHeld
      <3> QED
        BY <1>3, <3>1, Results DEF Variant
    <2>2. PICK y \in DOMAIN FilteredBlock, r \in Streams :
             /\ TakeTag(FilteredBlock, s) = Ok(y, r)
             /\ \A q \in Streams : TakeTag(FilteredBlock, s \o q) = Ok(y, r \o q)
      BY <2>1, FilteredBlockTags, TagReads
    <2>3. TakeFilteredBlockHeld(y, r).ok
      BY <2>1, <2>2, Results
    <2>4. PICK x : \E u \in Streams :
             /\ [type |-> y, val |-> x] \in FilteredBlocks
             /\ TakeFilteredBlockHeld(y, r) = Ok(x, u)
             /\ \A q \in Streams : TakeFilteredBlockHeld(y, r \o q) = Ok(x, u \o q)
      BY <2>3, FilteredBlockHeldReads
    <2>5. PICK u \in Streams :
             /\ [type |-> y, val |-> x] \in FilteredBlocks
             /\ TakeFilteredBlockHeld(y, r) = Ok(x, u)
             /\ \A q \in Streams : TakeFilteredBlockHeld(y, r \o q) = Ok(x, u \o q)
      BY <2>4
    <2> DEFINE v == [type |-> y, val |-> x]
    <2>6. FilteredBlock_deserialize(s) = Ok(v, u)
          /\ \A q \in Streams : FilteredBlock_deserialize(s \o q) = Ok(v, u \o q)
      BY <1>1, <2>2, <2>5
    <2> HIDE DEF v
    <2> QED
      BY <2>5, <2>6 DEF v
  <1> QED
    BY <1>2, <1>3 DEF Codec, Writes, Reads

LEMMA OwnerTxs ==
  \A tx : tx \in TxOf("OwnerTx", OwnerTx, List(SigPair, BYTE)) <=> tx \in Tx
        /\ tx.type = "OwnerTx"
  <1> DEFINE S == List(SigPair, BYTE)
  <1> HIDE DEF S
  <1>1. ASSUME NEW tx \in TxOf("OwnerTx", OwnerTx, S)
        PROVE  tx \in TxSignedBy(S) /\ tx.type = "OwnerTx"
    BY DEF TxSignedBy, TxOf
  <1>2. ASSUME NEW tx \in TxSignedBy(S), tx.type = "OwnerTx"
        PROVE  tx \in TxOf("OwnerTx", OwnerTx, S)
    BY <1>2 DEF TxSignedBy, TxOf
  <1> QED
    BY <1>1, <1>2 DEF S, Tx

LEMMA PropertiesCodec == Codec(PutProperties, TakeProperties, Properties)
  <1>1. ASSUME NEW s, NEW a1, NEW r1, NEW a2, NEW r2, NEW a3, NEW r3, NEW a4, NEW r4,
               TakeInt(s) = Ok(a1, r1),
               TxVariant_deserialize(r1) = Ok(a2, r2),
               take_asset(r2) = Ok(a3, r3),
               take_asset(r3) = Ok(a4, r4),
               a2.type = "OwnerTx"
        PROVE  TakeProperties(s)
              = Ok([height |-> a1, owner |-> a2, network_fee |-> a3, token_supply |-> a4], r4)
    BY <1>1, Results DEF TakeProperties, TakeOwned
  <1>2. ASSUME NEW v \in Properties
        PROVE  /\ PutProperties(v) \in Streams /\ PutProperties(v) # <<>>
               /\ \A t \in Streams : TakeProperties(PutProperties(v) \o t) = Ok(v, t)
    <2> DEFINE p1 == PushInt(v.height)
               p2 == TxVariant_serialize(v.owner)
               p3 == push_asset(v.network_fee)
               p4 == push_asset(v.token_supply)
    <2>1. /\ v.height \in Ints /\ v.owner \in Tx /\ v.network_fee \in Amounts
          /\ v.token_supply \in Amounts
          /\ v.owner.type = "OwnerTx"
          /\ v
                = [height |-> v.height, owner |-> v.owner, network_fee |-> v.network_fee,
                      token_supply |-> v.token_supply]
      BY OwnerTxs DEF Properties
    <2>p1. p1 \in Streams /\ p1 # <<>> /\ \A t \in Streams : TakeInt(p1 \o t) = Ok(v.height, t)
      BY <2>1, IntCodec DEF Codec, Writes
    <2>p2. p2 \in Streams /\ p2 # <<>>
          /\ \A t \in Streams : TxVariant_deserialize(p2 \o t) = Ok(v.owner, t)
      BY <2>1, TxCodec DEF Codec, Writes
    <2>p3. p3 \in Streams /\ p3 # <<>>
          /\ \A t \in Streams : take_asset(p3 \o t) = Ok(v.network_fee, t)
      BY <2>1, AssetCodec DEF Codec, Writes
    <2>p4. p4 \in Streams /\ p4 # <<>>
          /\ \A t \in Streams : take_asset(p4 \o t) = Ok(v.token_supply, t)
      BY <2>1, AssetCodec DEF Codec, Writes
    <2> DEFINE w1 == p1
               w2 == w1 \o p2
               w3 == w2 \o p3
               w4 == w3 \o p4
    <2>2. PutProperties(v) = w4
      BY Zenon DEF PutProperties, PutByte
    <2> HIDE DEF p1, p2, p3, p4
    <2>w2. w2 \in Streams /\ w2 # <<>>
      BY <2>p2, <2>p1, CatBehind, Zenon
    <2>w3. w3 \in Streams /\ w3 # <<>>
      BY <2>p3, <2>w2, CatBehind, Zenon
    <2>w4. w4 \in Streams /\ w4 # <<>>
      BY <2>p4, <2>w3, CatBehind, Zenon
    <2>4. ASSUME NEW t \in Streams PROVE TakeProperties(PutProperties(v) \o t) = Ok(v, t)
      <3> DEFINE u4 == t
                 u3 == p4 \o u4
                 u2 == p3 \o u3
                 u1 == p2 \o u2
                 u0 == p1 \o u1
      <3>s3. u3 \in Streams
        BY <2>p4, Cat, Zenon
      <3>s2. u2 \in Streams
        BY <2>p3, <3>s3, Cat, Zenon
      <3>s1. u1 \in Streams
        BY <2>p2, <3>s2, Cat, Zenon
      <3>e4. w4 \o u4 = w3 \o u3
        <4> HIDE DEF w3
        <4> QED
          BY <2>w3, <2>p4, CatAssoc, Zenon DEF w4
      <3>e3. w3 \o u3 = w2 \o u2
        <4> HIDE DEF w2
        <4> QED
          BY <2>w2, <2>p3, <3>s3, CatAssoc, Zenon DEF w3
      <3>e2. w2 \o u2 = w1 \o u1
        BY <2>p1, <2>p2, <3>s2, CatAssoc, Zenon
      <3>1. PutProperties(v) \o t = u0
        <4>1. w1 \o u1 = u0
          OBVIOUS
        <4> HIDE DEF w1, w2, w3, w4, u0, u1, u2, u3
        <4> QED
          BY <2>2, <4>1, <3>e4, <3>e3, <3>e2, Zenon
      <3>2. TakeInt(u0) = Ok(v.height, u1) /\ TxVariant_deserialize(u1) = Ok(v.owner, u2)
            /\ take_asset(u2) = Ok(v.network_fee, u3) /\ take_asset(u3) = Ok(v.token_supply, u4)
        BY <2>p1, <2>p2, <2>p3, <2>p4, <3>s1, <3>s2, <3>s3, Zenon
      <3> HIDE DEF u0, u1, u2, u3
      <3>3. TakeProperties(u0)
            = Ok([height |-> v.height, owner |-> v.owner, network_fee |-> v.network_fee,
                  token_supply |-> v.token_supply], t)
        BY <1>1, <2>1, <3>2
      <3> QED
        BY <2>1, <3>1, <3>3, Zenon
    <2> QED
      BY <2>2, <2>w4, <2>4, Zenon
  <1>3. ASSUME NEW s \in Streams, TakeProperties(s).ok
        PROVE  \E v \in Properties, r \in Streams :
                  TakeProperties(s) = Ok(v, r)
                        /\ \A q \in Streams : TakeProperties(s \o q) = Ok(v, r \o q)
    <2> DEFINE f1 == TakeInt(s)
               f2 == TxVariant_deserialize(f1.rest)
               f3 == take_asset(f2.rest)
               f4 == take_asset(f3.rest)
    <2>1. f1.ok /\ f2.ok /\ f3.ok /\ f4.ok /\ f2.val.type = "OwnerTx"
      BY <1>3, Results DEF TakeProperties, TakeOwned
    <2>a1. PICK a1 \in Ints, r1 \in Streams :
              TakeInt(s) = Ok(a1, r1) /\ \A q \in Streams : TakeInt(s \o q) = Ok(a1, r1 \o q)
      BY <2>1, IntCodec DEF Codec, Reads
    <2>b1. f1.rest = r1 /\ f1.val = a1
      BY <2>a1, Results
    <2>a2. PICK a2 \in Tx, r2 \in Streams :
              TxVariant_deserialize(r1) = Ok(a2, r2)
                    /\ \A q \in Streams : TxVariant_deserialize(r1 \o q) = Ok(a2, r2 \o q)
      BY <2>1, <2>b1, TxCodec DEF Codec, Reads
    <2>b2. f2.rest = r2 /\ f2.val = a2
      BY <2>a2, <2>b1, Results
    <2>a3. PICK a3 \in Amounts, r3 \in Streams :
              take_asset(r2) = Ok(a3, r3)
                    /\ \A q \in Streams : take_asset(r2 \o q) = Ok(a3, r3 \o q)
      BY <2>1, <2>b2, AssetCodec DEF Codec, Reads
    <2>b3. f3.rest = r3 /\ f3.val = a3
      BY <2>a3, <2>b2, Results
    <2>a4. PICK a4 \in Amounts, r4 \in Streams :
              take_asset(r3) = Ok(a4, r4)
                    /\ \A q \in Streams : take_asset(r3 \o q) = Ok(a4, r4 \o q)
      BY <2>1, <2>b3, AssetCodec DEF Codec, Reads
    <2>b4. f4.rest = r4 /\ f4.val = a4
      BY <2>a4, <2>b3, Results
    <2> DEFINE v == [height |-> a1, owner |-> a2, network_fee |-> a3, token_supply |-> a4]
    <2>2. a2.type = "OwnerTx"
      BY <2>1, <2>b1, <2>b2, <2>b3, <2>b4, Zenon
    <2>3. v \in Properties
      BY <2>2, <2>a1, <2>a2, <2>a3, <2>a4, OwnerTxs DEF Properties
    <2>4. TakeProperties(s) = Ok(v, r4)
      BY <1>1, <2>2, <2>a1, <2>a2, <2>a3, <2>a4
    <2>5. ASSUME NEW q \in Streams PROVE TakeProperties(s \o q) = Ok(v, r4 \o q)
      <3> DEFINE t0 == s \o q
                 t1 == r1 \o q
                 t2 == r2 \o q
                 t3 == r3 \o q
                 t4 == r4 \o q
      <3>1. TakeInt(t0) = Ok(a1, t1) /\ TxVariant_deserialize(t1) = Ok(a2, t2)
            /\ take_asset(t2) = Ok(a3, t3) /\ take_asset(t3) = Ok(a4, t4)
        BY <2>a1, <2>a2, <2>a3, <2>a4, Zenon
      <3> HIDE DEF t0, t1, t2, t3, t4
      <3>2. TakeProperties(t0) = Ok(v, t4)
        BY <1>1, <2>2, <3>1
      <3> QED
        BY <3>2 DEF t0, t4
    <2> HIDE DEF v
    <2> QED
      BY <2>3, <2>4, <2>5
  <1> QED
    BY <1>2, <1>3 DEF Codec, Writes, Reads

LEMMA AccountInfoCodec == Codec(PutAccountInfo, TakeAccountInfo, AccountInfo)
  <1>1. ASSUME NEW s, NEW a1, NEW r1, NEW a2, NEW r2, NEW a3, NEW r3,
               Account_deserialize(s) = Ok(a1, r1),
               take_asset(r1) = Ok(a2, r2),
               take_asset(r2) = Ok(a3, r3)
        PROVE  TakeAccountInfo(s) = Ok([account |-> a1, net_fee |-> a2, account_fee |-> a3], r3)
    BY <1>1, Results DEF TakeAccountInfo, TakeCharged
  <1>2. ASSUME NEW v \in AccountInfo
        PROVE  /\ PutAccountInfo(v) \in Streams /\ PutAccountInfo(v) # <<>>
               /\ \A t \in Streams : TakeAccountInfo(PutAccountInfo(v) \o t) = Ok(v, t)
    <2> DEFINE p1 == Account_serialize(v.account)
               p2 == push_asset(v.net_fee)
               p3 == push_asset(v.account_fee)
    <2>1. /\ v.account \in Account /\ v.net_fee \in Amounts /\ v.account_fee \in Amounts
          /\ v = [account |-> v.account, net_fee |-> v.net_fee, account_fee |-> v.account_fee]
      BY DEF AccountInfo
    <2>p1. p1 \in Streams /\ p1 # <<>>
          /\ \A t \in Streams : Account_deserialize(p1 \o t) = Ok(v.account, t)
      BY <2>1, AccountCodec DEF Codec, Writes
    <2>p2. p2 \in Streams /\ p2 # <<>>
          /\ \A t \in Streams : take_asset(p2 \o t) = Ok(v.net_fee, t)
      BY <2>1, AssetCodec DEF Codec, Writes
    <2>p3. p3 \in Streams /\ p3 # <<>>
          /\ \A t \in Streams : take_asset(p3 \o t) = Ok(v.account_fee, t)
      BY <2>1, AssetCodec DEF Codec, Writes
    <2> DEFINE w1 == p1
               w2 == w1 \o p2
               w3 == w2 \o p3
    <2>2. PutAccountInfo(v) = w3
      BY Zenon DEF PutAccountInfo, PutByte
    <2> HIDE DEF p1, p2, p3
    <2>w2. w2 \in Streams /\ w2 # <<>>
      BY <2>p2, <2>p1, CatBehind, Zenon
    <2>w3. w3 \in Streams /\ w3 # <<>>
      BY <2>p3, <2>w2, CatBehind, Zenon
    <2>4. ASSUME NEW t \in Streams PROVE TakeAccountInfo(PutAccountInfo(v) \o t) = Ok(v, t)
      <3> DEFINE u3 == t
                 u2 == p3 \o u3
                 u1 == p2 \o u2
                 u0 == p1 \o u1
      <3>s2. u2 \in Streams
        BY <2>p3, Cat, Zenon
      <3>s1. u1 \in Streams
        BY <2>p2, <3>s2, Cat, Zenon
      <3>e3. w3 \o u3 = w2 \o u2
        <4> HIDE DEF w2
        <4> QED
          BY <2>w2, <2>p3, CatAssoc, Zenon DEF w3
      <3>e2. w2 \o u2 = w1 \o u1
        BY <2>p1, <2>p2, <3>s2, CatAssoc, Zenon
      <3>1. PutAccountInfo(v) \o t = u0
        <4>1. w1 \o u1 = u0
          OBVIOUS
        <4> HIDE DEF w1, w2, w3, u0, u1, u2
        <4> QED
          BY <2>2, <4>1, <3>e3, <3>e2, Zenon
      <3>2. Account_deserialize(u0) = Ok(v.account, u1) /\ take_asset(u1) = Ok(v.net_fee, u2)
            /\ take_asset(u2) = Ok(v.account_fee, u3)
        BY <2>p1, <2>p2, <2>p3, <3>s1, <3>s2, Zenon
      <3> HIDE DEF u0, u1, u2
      <3>3. TakeAccountInfo(u0)
            = Ok([account |-> v.account, net_fee |-> v.net_fee, account_fee |-> v.account_fee],
                  t)
        BY <1>1, <2>1, <3>2
      <3> QED
        BY <2>1, <3>1, <3>3, Zenon
    <2> QED
      BY <2>2, <2>w3, <2>4, Zenon
  <1>3. ASSUME NEW s \in Streams, TakeAccountInfo(s).ok
        PROVE  \E v \in AccountInfo, r \in Streams :
                  TakeAccountInfo(s) = Ok(v, r)
                        /\ \A q \in Streams : TakeAccountInfo(s \o q) = Ok(v, r \o q)
    <2> DEFINE f1 == Account_deserialize(s)
               f2 == take_asset(f1.rest)
               f3 == take_asset(f2.rest)
    <2>1. f1.ok /\ f2.ok /\ f3.ok
      BY <1>3, Results DEF TakeAccountInfo, TakeCharged
    <2>a1. PICK a1 \in Account, r1 \in Streams :
              Account_deserialize(s) = Ok(a1, r1)
                    /\ \A q \in Streams : Account_deserialize(s \o q) = Ok(a1, r1 \o q)
      BY <2>1, AccountCodec DEF Codec, Reads
    <2>b1. f1.rest = r1 /\ f1.val = a1
      BY <2>a1, Results
    <2>a2. PICK a2 \in Amounts, r2 \in Streams :
              take_asset(r1) = Ok(a2, r2)
                    /\ \A q \in Streams : take_asset(r1 \o q) = Ok(a2, r2 \o q)
      BY <2>1, <2>b1, AssetCodec DEF Codec, Reads
    <2>b2. f2.rest = r2 /\ f2.val = a2
      BY <2>a2, <2>b1, Results
    <2>a3. PICK a3 \in Amounts, r3 \in Streams :
              take_asset(r2) = Ok(a3, r3)
                    /\ \A q \in Streams : take_asset(r2 \o q) = Ok(a3, r3 \o q)
      BY <2>1, <2>b2, AssetCodec DEF Codec, Reads
    <2>b3. f3.rest = r3 /\ f3.val = a3
      BY <2>a3, <2>b2, Results
    <2> DEFINE v == [account |-> a1, net_fee |-> a2, account_fee |-> a3]
    <2>3. v \in AccountInfo
      BY <2>a1, <2>a2, <2>a3 DEF AccountInfo
    <2>4. TakeAccountInfo(s) = Ok(v, r3)
      BY <1>1, <2>a1, <2>a2, <2>a3
    <2>5. ASSUME NEW q \in Streams PROVE TakeAccountInfo(s \o q) = Ok(v, r3 \o q)
      <3> DEFINE t0 == s \o q
                 t1 == r1 \o q
                 t2 == r2 \o q
                 t3 == r3 \o q
      <3>1. Account_deserialize(t0) = Ok(a1, t1) /\ take_asset(t1) = Ok(a2, t2)
            /\ take_asset(t2) = Ok(a3, t3)
        BY <2>a1, <2>a2, <2>a3, Zenon
      <3> HIDE DEF t0, t1, t2, t3
      <3>2. TakeAccountInfo(t0) = Ok(v, t3)
        BY <1>1, <3>1
      <3> QED
        BY <3>2 DEF t0, t3
    <2> HIDE DEF v
    <2> QED
      BY <2>3, <2>4, <2>5
  <1> QED
    BY <1>2, <1>3 DEF Codec, Writes, Reads

LEMMA ResponseTags ==
  /\ Tags(RpcType)
  /\ DOMAIN RpcType
        = {"GetProperties", "GetBlock", "GetFullBlock", "GetAccountInfo", "Broadcast",
              "SetBlockFilter", "ClearBlockFilter", "Subscribe", "Unsubscribe", "GetBlockRange"}
  BY Widths DEF Tags, RpcType, Bytes

PutResponseHeld(type, val) ==
    CASE type = "GetProperties" -> PutProperties(val)
      [] type = "GetBlock" -> FilteredBlock_serialize(val)
      [] type = "GetFullBlock" -> Block_serialize(val)
      [] type = "GetAccountInfo" -> PutAccountInfo(val)
      [] OTHER -> <<>>
TakeResponseHeld(type, s) ==
    CASE type = "GetProperties" -> TakeProperties(s)
      [] type = "GetBlock" -> FilteredBlock_deserialize(s)
      [] type = "GetFullBlock" -> Block_deserialize(s)
      [] type = "GetAccountInfo" -> TakeAccountInfo(s)
      [] OTHER -> Nothing(s)

LEMMA ResponseHeldWrites ==
  ASSUME NEW y \in DOMAIN RpcType, NEW x, [type |-> y, val |-> x] \in Response
  PROVE  /\ PutResponseHeld(y, x) \in Streams
         /\ \A t \in Streams : TakeResponseHeld(y, PutResponseHeld(y, x) \o t) = Ok(x, t)
  <1>1. CASE y = "GetProperties"
    <2>1. x \in Properties
      BY <1>1 DEF Response, EnumOf
    <2>2. PutResponseHeld(y, x) = PutProperties(x)
          /\ \A s : TakeResponseHeld(y, s) = TakeProperties(s)
      BY <1>1 DEF PutResponseHeld, TakeResponseHeld
    <2>3. PutProperties(x) \in Streams
          /\ \A t \in Streams : TakeProperties(PutProperties(x) \o t) = Ok(x, t)
      BY <2>1, PropertiesCodec DEF Codec, Writes
    <2> QED
      BY <2>2, <2>3, Zenon
  <1>2. CASE y = "GetBlock"
    <2>1. x \in FilteredBlocks
      BY <1>2 DEF Response, EnumOf
    <2>2. PutResponseHeld(y, x) = FilteredBlock_serialize(x)
          /\ \A s : TakeResponseHeld(y, s) = FilteredBlock_deserialize(s)
      BY <1>2 DEF PutResponseHeld, TakeResponseHeld
    <2>3. FilteredBlock_serialize(x) \in Streams
          /\ \A t \in Streams :
                FilteredBlock_deserialize(FilteredBlock_serialize(x) \o t) = Ok(x, t)
      BY <2>1, FilteredBlockCodec DEF Codec, Writes
    <2> QED
      BY <2>2, <2>3, Zenon
  <1>3. CASE y = "GetFullBlock"
    <2>1. x \in Block
      BY <1>3 DEF Response, EnumOf
    <2>2. PutResponseHeld(y, x) = Block_serialize(x)
          /\ \A s : TakeResponseHeld(y, s) = Block_deserialize(s)
      BY <1>3 DEF PutResponseHeld, TakeResponseHeld
    <2>3. Block_serialize(x) \in Streams
          /\ \A t \in Streams : Block_deserialize(Block_serialize(x) \o t) = Ok(x, t)
      BY <2>1, BlockCodec DEF Codec, Writes
    <2> QED
      BY <2>2, <2>3, Zenon
  <1>4. CASE y = "GetAccountInfo"
    <2>1. x \in AccountInfo
      BY <1>4 DEF Response, EnumOf
    <2>2. PutResponseHeld(y, x) = PutAccountInfo(x)
          /\ \A s : TakeResponseHeld(y, s) = TakeAccountInfo(s)
      BY <1>4 DEF PutResponseHeld, TakeResponseHeld
    <2>3. PutAccountInfo(x) \in Streams
          /\ \A t \in Streams : TakeAccountInfo(PutAccountInfo(x) \o t) = Ok(x, t)
      BY <2>1, AccountInfoCodec DEF Codec, Writes
    <2> QED
      BY <2>2, <2>3, Zenon
  <1>5. CASE y \in {"Broadcast", "SetBlockFilter", "ClearBlockFilter", "Subscribe",
        "Unsubscribe", "GetBlockRange"}
    <2>1. x \in {<<>>}
      BY <1>5 DEF Response, EnumOf
    <2>2. PutResponseHeld(y, x) = <<>> /\ x = <<>>
          /\ \A s : TakeResponseHeld(y, s) = Ok(<<>>, s)
      BY <1>5, <2>1 DEF PutResponseHeld, TakeResponseHeld, Nothing
    <2>3. <<>> \in Streams /\ \A t \in Streams : <<>> \o t = t
      BY Cat, CatEmpty
    <2> QED
      BY <2>2, <2>3, Zenon
  <1> QED
    BY <1>1, <1>2, <1>3, <1>4, <1>5, ResponseTags

LEMMA ResponseHeldReads ==
  ASSUME NEW y \in DOMAIN RpcType, NEW s \in Streams, TakeResponseHeld(y, s).ok
  PROVE  \E x : \E r \in Streams :
            /\ [type |-> y, val |-> x] \in Response
            /\ TakeResponseHeld(y, s) = Ok(x, r)
            /\ \A q \in Streams : TakeResponseHeld(y, s \o q) = Ok(x, r \o q)
  <1>1. CASE y = "GetProperties"
    <2>1. \A u : TakeResponseHeld(y, u) = TakeProperties(u)
      BY <1>1 DEF TakeResponseHeld
    <2>2. TakeProperties(s).ok
      BY <2>1, Zenon
    <2>3. PICK x \in Properties, r \in Streams :
             TakeProperties(s) = Ok(x, r)
                   /\ \A q \in Streams : TakeProperties(s \o q) = Ok(x, r \o q)
      BY <2>2, PropertiesCodec DEF Codec, Reads
    <2>4. [type |-> y, val |-> x] \in Response
      BY <1>1, <2>3 DEF Response, EnumOf
    <2> QED
      BY <2>1, <2>3, <2>4
  <1>2. CASE y = "GetBlock"
    <2>1. \A u : TakeResponseHeld(y, u) = FilteredBlock_deserialize(u)
      BY <1>2 DEF TakeResponseHeld
    <2>2. FilteredBlock_deserialize(s).ok
      BY <2>1, Zenon
    <2>3. PICK x \in FilteredBlocks, r \in Streams :
             FilteredBlock_deserialize(s) = Ok(x, r)
                   /\ \A q \in Streams : FilteredBlock_deserialize(s \o q) = Ok(x, r \o q)
      BY <2>2, FilteredBlockCodec DEF Codec, Reads
    <2>4. [type |-> y, val |-> x] \in Response
      BY <1>2, <2>3 DEF Response, EnumOf
    <2> QED
      BY <2>1, <2>3, <2>4
  <1>3. CASE y = "GetFullBlock"
    <2>1. \A u : TakeResponseHeld(y, u) = Block_deserialize(u)
      BY <1>3 DEF TakeResponseHeld
    <2>2. Block_deserialize(s).ok
      BY <2>1, Zenon
    <2>3. PICK x \in Block, r \in Streams :
             Block_deserialize(s) = Ok(x, r)
                   /\ \A q \in Streams : Block_deserialize(s \o q) = Ok(x, r \o q)
      BY <2>2, BlockCodec DEF Codec, Reads
    <2>4. [type |-> y, val |-> x] \in Response
      BY <1>3, <2>3 DEF Response, EnumOf
    <2> QED
      BY <2>1, <2>3, <2>4
  <1>4. CASE y = "GetAccountInfo"
    <2>1. \A u : TakeResponseHeld(y, u) = TakeAccountInfo(u)
      BY <1>4 DEF TakeResponseHeld
    <2>2. TakeAccountInfo(s).ok
      BY <2>1, Zenon
    <2>3. PICK x \in AccountInfo, r \in Streams :
             TakeAccountInfo(s) = Ok(x, r)
                   /\ \A q \in Streams : TakeAccountInfo(s \o q) = Ok(x, r \o q)
      BY <2>2, AccountInfoCodec DEF Codec, Reads
    <2>4. [type |-> y, val |-> x] \in Response
      BY <1>4, <2>3 DEF Response, EnumOf
    <2> QED
      BY <2>1, <2>3, <2>4
  <1>5. CASE y \in {"Broadcast", "SetBlockFilter", "ClearBlockFilter", "Subscribe",
        "Unsubscribe", "GetBlockRange"}
    <2>1. \A u : TakeResponseHeld(y, u) = Ok(<<>>, u)
      BY <1>5 DEF TakeResponseHeld, Nothing
    <2>2. [type |-> y, val |-> <<>>] \in Response
      BY <1>5 DEF Response, EnumOf
    <2> QED
      BY <2>1, <2>2
  <1> QED
    BY <1>1, <1>2, <1>3, <1>4, <1>5, ResponseTags

LEMMA ResponseCodec == Codec(Response_serialize, Response_deserialize, Response)
  <1>1. ASSUME NEW s, NEW y, NEW r, NEW x, NEW u,
               TakeTag(RpcType, s) = Ok(y, r), TakeResponseHeld(y, r) = Ok(x, u)
        PROVE  Response_deserialize(s) = Ok([type |-> y, val |-> x], u)
    <2>1. /\ TakeTag(RpcType, s).ok /\ TakeTag(RpcType, s).val = y
          /\ TakeTag(RpcType, s).rest = r
          /\ TakeResponseHeld(y, r).ok /\ TakeResponseHeld(y, r).val = x
                /\ TakeResponseHeld(y, r).rest = u
      BY <1>1, Results
    <2>2. Response_deserialize(s) = Variant(TakeTag(RpcType, s),
                     TakeResponseHeld(TakeTag(RpcType, s).val, TakeTag(RpcType, s).rest))
      BY Zenon DEF Response_deserialize, TakeResponseHeld
    <2>3. Response_deserialize(s) = Variant(TakeTag(RpcType, s), TakeResponseHeld(y, r))
      BY <2>1, <2>2, Zenon
    <2> QED
      BY <2>1, <2>3, Zenon DEF Variant
  <1>2. ASSUME NEW v \in Response
        PROVE  /\ Response_serialize(v) \in Streams /\ Response_serialize(v) # <<>>
               /\ \A t \in Streams : Response_deserialize(Response_serialize(v) \o t) = Ok(v, t)
    <2> DEFINE c == <<RpcType[v.type]>>
               h == PutResponseHeld(v.type, v.val)
    <2>1. v = [type |-> v.type, val |-> v.val] /\ v.type \in DOMAIN RpcType
      BY ResponseTags DEF Response, EnumOf
    <2>2. c \in Streams /\ c # <<>>
          /\ \A t \in Streams : TakeTag(RpcType, c \o t) = Ok(v.type, t)
      BY <2>1, ResponseTags, TagWrites
    <2>3. [type |-> v.type, val |-> v.val] \in Response
      BY <2>1
    <2>4. h \in Streams /\ \A t \in Streams : TakeResponseHeld(v.type, h \o t) = Ok(v.val, t)
      BY <2>1, <2>3, ResponseHeldWrites
    <2>5. Response_serialize(v) = c \o h
      BY ResponseTags, Zenon DEF Response_serialize, PutResponseHeld
    <2> HIDE DEF c, h
    <2>6. ASSUME NEW t \in Streams
          PROVE Response_deserialize(Response_serialize(v) \o t) = Ok(v, t)
      <3>1. (c \o h) \o t = c \o (h \o t) /\ h \o t \in Streams
        BY <2>2, <2>4, Cat, CatAssoc, Zenon
      <3> DEFINE u == h \o t
      <3>2. Response_serialize(v) \o t = c \o u
        BY <2>5, <3>1, Zenon
      <3>3. TakeTag(RpcType, c \o u) = Ok(v.type, u)
            /\ TakeResponseHeld(v.type, u) = Ok(v.val, t)
        BY <2>2, <2>4, <3>1, Zenon
      <3> HIDE DEF u
      <3>4. Response_deserialize(c \o u) = Ok([type |-> v.type, val |-> v.val], t)
        BY <1>1, <3>3
      <3> QED
        BY <2>1, <3>2, <3>4, Zenon
    <2> QED
      BY <2>2, <2>4, <2>5, <2>6, CatBehind, Zenon
  <1>3. ASSUME NEW s \in Streams, Response_deserialize(s).ok
        PROVE  \E v \in Response, r \in Streams :
                  Response_deserialize(s) = Ok(v, r)
                        /\ \A q \in Streams : Response_deserialize(s \o q) = Ok(v, r \o q)
    <2> DEFINE tag == TakeTag(RpcType, s)
    <2>1. tag.ok /\ TakeResponseHeld(tag.val, tag.rest).ok
      <3>1. Response_deserialize(s) = Variant(tag, TakeResponseHeld(tag.val, tag.rest))
        BY Zenon DEF Response_deserialize, TakeResponseHeld
      <3> QED
        BY <1>3, <3>1, Results DEF Variant
    <2>2. PICK y \in DOMAIN RpcType, r \in Streams :
             /\ TakeTag(RpcType, s) = Ok(y, r)
             /\ \A q \in Streams : TakeTag(RpcType, s \o q) = Ok(y, r \o q)
      BY <2>1, ResponseTags, TagReads
    <2>3. TakeResponseHeld(y, r).ok
      BY <2>1, <2>2, Results
    <2>4. PICK x : \E u \in Streams :
             /\ [type |-> y, val |-> x] \in Response
             /\ TakeResponseHeld(y, r) = Ok(x, u)
             /\ \A q \in Streams : TakeResponseHeld(y, r \o q) = Ok(x, u \o q)
      BY <2>3, ResponseHeldReads
    <2>5. PICK u \in Streams :
             /\ [type |-> y, val |-> x] \in Response
             /\ TakeResponseHeld(y, r) = Ok(x, u)
             /\ \A q \in Streams : TakeResponseHeld(y, r \o q) = Ok(x, u \o q)
      BY <2>4
    <2> DEFINE v == [type |-> y, val |-> x]
    <2>6. Response_deserialize(s) = Ok(v, u)
          /\ \A q \in Streams : Response_deserialize(s \o q) = Ok(v, u \o q)
      BY <1>1, <2>2, <2>5
    <2> HIDE DEF v
    <2> QED
      BY <2>5, <2>6 DEF v
  <1> QED
    BY <1>2, <1>3 DEF Codec, Writes, Reads

LEMMA BodyTags ==
  /\ Tags(BodyType)
  /\ DOMAIN BodyType = {"Error", "Request", "Response", "Ping", "Pong"}
  BY Widths DEF Tags, BodyType, Bytes

PutBodyHeld(type, val) ==
    CASE type = "Error" -> ErrorKind_serialize(val)
      [] type = "Request" -> Request_serialize(val)
      [] type = "Response" -> Response_serialize(val)
      [] type \in {"Ping", "Pong"} -> PushInt(val)
TakeBodyHeld(type, s) ==
    CASE type = "Error" -> ErrorKind_deserialize(s)
      [] type = "Request" -> Request_deserialize(s)
      [] type = "Response" -> Response_deserialize(s)
      [] type \in {"Ping", "Pong"} -> TakeInt(s)

LEMMA BodyHeldWrites ==
  ASSUME NEW y \in DOMAIN BodyType, NEW x, [type |-> y, val |-> x] \in Body
  PROVE  /\ PutBodyHeld(y, x) \in Streams
         /\ \A t \in Streams : TakeBodyHeld(y, PutBodyHeld(y, x) \o t) = Ok(x, t)
  <1>1. CASE y = "Error"
    <2>1. x \in ErrorKind
      BY <1>1 DEF Body, EnumOf
    <2>2. PutBodyHeld(y, x) = ErrorKind_serialize(x)
          /\ \A s : TakeBodyHeld(y, s) = ErrorKind_deserialize(s)
      BY <1>1 DEF PutBodyHeld, TakeBodyHeld
    <2>3. ErrorKind_serialize(x) \in Streams
          /\ \A t \in Streams : ErrorKind_deserialize(ErrorKind_serialize(x) \o t) = Ok(x, t)
      BY <2>1, ErrorKindCodec DEF Codec, Writes
    <2> QED
      BY <2>2, <2>3, Zenon
  <1>2. CASE y = "Request"
    <2>1. x \in Request
      BY <1>2 DEF Body, EnumOf
    <2>2. PutBodyHeld(y, x) = Request_serialize(x)
          /\ \A s : TakeBodyHeld(y, s) = Request_deserialize(s)
      BY <1>2 DEF PutBodyHeld, TakeBodyHeld
    <2>3. Request_serialize(x) \in Streams
          /\ \A t \in Streams : Request_deserialize(Request_serialize(x) \o t) = Ok(x, t)
      BY <2>1, RequestCodec DEF Codec, Writes
    <2> QED
      BY <2>2, <2>3, Zenon
  <1>3. CASE y = "Response"
    <2>1. x \in Response
      BY <1>3 DEF Body, EnumOf
    <2>2. PutBodyHeld(y, x) = Response_serialize(x)
          /\ \A s : TakeBodyHeld(y, s) = Response_deserialize(s)
      BY <1>3 DEF PutBodyHeld, TakeBodyHeld
    <2>3. Response_serialize(x) \in Streams
          /\ \A t \in Streams : Response_deserialize(Response_serialize(x) \o t) = Ok(x, t)
      BY <2>1, ResponseCodec DEF Codec, Writes
    <2> QED
      BY <2>2, <2>3, Zenon
  <1>4. CASE y \in {"Ping", "Pong"}
    <2>1. x \in Ints
      BY <1>4 DEF Body, EnumOf
    <2>2. PutBodyHeld(y, x) = PushInt(x) /\ \A s : TakeBodyHeld(y, s) = TakeInt(s)
      BY <1>4 DEF PutBodyHeld, TakeBodyHeld
    <2>3. PushInt(x) \in Streams /\ \A t \in Streams : TakeInt(PushInt(x) \o t) = Ok(x, t)
      BY <2>1, IntCodec DEF Codec, Writes
    <2> QED
      BY <2>2, <2>3, Zenon
  <1> QED
    BY <1>1, <1>2, <1>3, <1>4, BodyTags

LEMMA BodyHeldReads ==
  ASSUME NEW y \in DOMAIN BodyType, NEW s \in Streams, TakeBodyHeld(y, s).ok
  PROVE  \E x : \E r \in Streams :
            /\ [type |-> y, val |-> x] \in Body
            /\ TakeBodyHeld(y, s) = Ok(x, r)
            /\ \A q \in Streams : TakeBodyHeld(y, s \o q) = Ok(x, r \o q)
  <1>1. CASE y = "Error"
    <2>1. \A u : TakeBodyHeld(y, u) = ErrorKind_deserialize(u)
      BY <1>1 DEF TakeBodyHeld
    <2>2. ErrorKind_deserialize(s).ok
      BY <2>1, Zenon
    <2>3. PICK x \in ErrorKind, r \in Streams :
             ErrorKind_deserialize(s) = Ok(x, r)
                   /\ \A q \in Streams : ErrorKind_deserialize(s \o q) = Ok(x, r \o q)
      BY <2>2, ErrorKindCodec DEF Codec, Reads
    <2>4. [type |-> y, val |-> x] \in Body
      BY <1>1, <2>3 DEF Body, EnumOf
    <2> QED
      BY <2>1, <2>3, <2>4
  <1>2. CASE y = "Request"
    <2>1. \A u : TakeBodyHeld(y, u) = Request_deserialize(u)
      BY <1>2 DEF TakeBodyHeld
    <2>2. Request_deserialize(s).ok
      BY <2>1, Zenon
    <2>3. PICK x \in Request, r \in Streams :
             Request_deserialize(s) = Ok(x, r)
                   /\ \A q \in Streams : Request_deserialize(s \o q) = Ok(x, r \o q)
      BY <2>2, RequestCodec DEF Codec, Reads
    <2>4. [type |-> y, val |-> x] \in Body
      BY <1>2, <2>3 DEF Body, EnumOf
    <2> QED
      BY <2>1, <2>3, <2>4
  <1>3. CASE y = "Response"
    <2>1. \A u : TakeBodyHeld(y, u) = Response_deserialize(u)
      BY <1>3 DEF TakeBodyHeld
    <2>2. Response_deserialize(s).ok
      BY <2>1, Zenon
    <2>3. PICK x \in Response, r \in Streams :
             Response_deserialize(s) = Ok(x, r)
                   /\ \A q \in Streams : Response_deserialize(s \o q) = Ok(x, r \o q)
      BY <2>2, ResponseCodec DEF Codec, Reads
    <2>4. [type |-> y, val |-> x] \in Body
      BY <1>3, <2>3 DEF Body, EnumOf
    <2> QED
      BY <2>1, <2>3, <2>4
  <1>4. CASE y \in {"Ping", "Pong"}
    <2>1. \A u : TakeBodyHeld(y, u) = TakeInt(u)
      BY <1>4 DEF TakeBodyHeld
    <2>2. TakeInt(s).ok
      BY <2>1, Zenon
    <2>3. PICK x \in Ints, r \in Streams :
             TakeInt(s) = Ok(x, r) /\ \A q \in Streams : TakeInt(s \o q) = Ok(x, r \o q)
      BY <2>2, IntCodec DEF Codec, Reads
    <2>4. [type |-> y, val |-> x] \in Body
      BY <1>4, <2>3 DEF Body, EnumOf
    <2> QED
      BY <2>1, <2>3, <2>4
  <1> QED
    BY <1>1, <1>2, <1>3, <1>4, BodyTags

LEMMA BodyCodec == Codec(Body_serialize, Body_deserialize, Body)
  <1>1. ASSUME NEW s, NEW y, NEW r, NEW x, NEW u,
               TakeTag(BodyType, s) = Ok(y, r), TakeBodyHeld(y, r) = Ok(x, u)
        PROVE  Body_deserialize(s) = Ok([type |-> y, val |-> x], u)
    <2>1. /\ TakeTag(BodyType, s).ok /\ TakeTag(BodyType, s).val = y
          /\ TakeTag(BodyType, s).rest = r
          /\ TakeBodyHeld(y, r).ok /\ TakeBodyHeld(y, r).val = x /\ TakeBodyHeld(y, r).rest = u
      BY <1>1, Results
    <2>2. Body_deserialize(s) = Variant(TakeTag(BodyType, s),
                     TakeBodyHeld(TakeTag(BodyType, s).val, TakeTag(BodyType, s).rest))
      BY Zenon DEF Body_deserialize, TakeBodyHeld
    <2>3. Body_deserialize(s) = Variant(TakeTag(BodyType, s), TakeBodyHeld(y, r))
      BY <2>1, <2>2, Zenon
    <2> QED
      BY <2>1, <2>3, Zenon DEF Variant
  <1>2. ASSUME NEW v \in Body
        PROVE  /\ Body_serialize(v) \in Streams /\ Body_serialize(v) # <<>>
               /\ \A t \in Streams : Body_deserialize(Body_serialize(v) \o t) = Ok(v, t)
    <2> DEFINE c == <<BodyType[v.type]>>
               h == PutBodyHeld(v.type, v.val)
    <2>1. v = [type |-> v.type, val |-> v.val] /\ v.type \in DOMAIN BodyType
      BY BodyTags DEF Body, EnumOf
    <2>2. c \in Streams /\ c # <<>>
          /\ \A t \in Streams : TakeTag(BodyType, c \o t) = Ok(v.type, t)
      BY <2>1, BodyTags, TagWrites
    <2>3. [type |-> v.type, val |-> v.val] \in Body
      BY <2>1
    <2>4. h \in Streams /\ \A t \in Streams : TakeBodyHeld(v.type, h \o t) = Ok(v.val, t)
      BY <2>1, <2>3, BodyHeldWrites
    <2>5. Body_serialize(v) = c \o h
      BY BodyTags, Zenon DEF Body_serialize, PutBodyHeld
    <2> HIDE DEF c, h
    <2>6. ASSUME NEW t \in Streams PROVE Body_deserialize(Body_serialize(v) \o t) = Ok(v, t)
      <3>1. (c \o h) \o t = c \o (h \o t) /\ h \o t \in Streams
        BY <2>2, <2>4, Cat, CatAssoc, Zenon
      <3> DEFINE u == h \o t
      <3>2. Body_serialize(v) \o t = c \o u
        BY <2>5, <3>1, Zenon
      <3>3. TakeTag(BodyType, c \o u) = Ok(v.type, u) /\ TakeBodyHeld(v.type, u) = Ok(v.val, t)
        BY <2>2, <2>4, <3>1, Zenon
      <3> HIDE DEF u
      <3>4. Body_deserialize(c \o u) = Ok([type |-> v.type, val |-> v.val], t)
        BY <1>1, <3>3
      <3> QED
        BY <2>1, <3>2, <3>4, Zenon
    <2> QED
      BY <2>2, <2>4, <2>5, <2>6, CatBehind, Zenon
  <1>3. ASSUME NEW s \in Streams, Body_deserialize(s).ok
        PROVE  \E v \in Body, r \in Streams :
                  Body_deserialize(s) = Ok(v, r)
                        /\ \A q \in Streams : Body_deserialize(s \o q) = Ok(v, r \o q)
    <2> DEFINE tag == TakeTag(BodyType, s)
    <2>1. tag.ok /\ TakeBodyHeld(tag.val, tag.rest).ok
      <3>1. Body_deserialize(s) = Variant(tag, TakeBodyHeld(tag.val, tag.rest))
        BY Zenon DEF Body_deserialize, TakeBodyHeld
      <3> QED
        BY <1>3, <3>1, Results DEF Variant
    <2>2. PICK y \in DOMAIN BodyType, r \in Streams :
             /\ TakeTag(BodyType, s) = Ok(y, r)
             /\ \A q \in Streams : TakeTag(BodyType, s \o q) = Ok(y, r \o q)
      BY <2>1, BodyTags, TagReads
    <2>3. TakeBodyHeld(y, r).ok
      BY <2>1, <2>2, Results
    <2>4. PICK x : \E u \in Streams :
             /\ [type |-> y, val |-> x] \in Body
             /\ TakeBodyHeld(y, r) = Ok(x, u)
             /\ \A q \in Streams : TakeBodyHeld(y, r \o q) = Ok(x, u \o q)
      BY <2>3, BodyHeldReads
    <2>5. PICK u \in Streams :
             /\ [type |-> y, val |-> x] \in Body
             /\ TakeBodyHeld(y, r) = Ok(x, u)
             /\ \A q \in Streams : TakeBodyHeld(y, r \o q) = Ok(x, u \o q)
      BY <2>4
    <2> DEFINE v == [type |-> y, val |-> x]
    <2>6. Body_deserialize(s) = Ok(v, u)
          /\ \A q \in Streams : Body_deserialize(s \o q) = Ok(v, u \o q)
      BY <1>1, <2>2, <2>5
    <2> HIDE DEF v
    <2> QED
      BY <2>5, <2>6 DEF v
  <1> QED
    BY <1>2, <1>3 DEF Codec, Writes, Reads

\* Every message, with whatever it carries, is read from its bytes as
\* Msg::serialize wrote it, and what Msg::deserialize reads is a message.
THEOREM MsgCodec == Codec(Msg_serialize, Msg_deserialize, Msg)
  <1>1. ASSUME NEW s, NEW a1, NEW r1, NEW a2, NEW r2,
               TakeInt(s) = Ok(a1, r1),
               Body_deserialize(r1) = Ok(a2, r2)
        PROVE  Msg_deserialize(s) = Ok([id |-> a1, body |-> a2], r2)
    BY <1>1, Results DEF Msg_deserialize, TakeAddressed
  <1>2. ASSUME NEW v \in Msg
        PROVE  /\ Msg_serialize(v) \in Streams /\ Msg_serialize(v) # <<>>
               /\ \A t \in Streams : Msg_deserialize(Msg_serialize(v) \o t) = Ok(v, t)
    <2> DEFINE p1 == PushInt(v.id)
               p2 == Body_serialize(v.body)
    <2>1. /\ v.id \in Ints /\ v.body \in Body
          /\ v = [id |-> v.id, body |-> v.body]
      BY DEF Msg
    <2>p1. p1 \in Streams /\ p1 # <<>> /\ \A t \in Streams : TakeInt(p1 \o t) = Ok(v.id, t)
      BY <2>1, IntCodec DEF Codec, Writes
    <2>p2. p2 \in Streams /\ p2 # <<>>
          /\ \A t \in Streams : Body_deserialize(p2 \o t) = Ok(v.body, t)
      BY <2>1, BodyCodec DEF Codec, Writes
    <2> DEFINE w1 == p1
               w2 == w1 \o p2
    <2>2. Msg_serialize(v) = w2
      BY Zenon DEF Msg_serialize, PutByte
    <2> HIDE DEF p1, p2
    <2>w2. w2 \in Streams /\ w2 # <<>>
      BY <2>p2, <2>p1, CatBehind, Zenon
    <2>4. ASSUME NEW t \in Streams PROVE Msg_deserialize(Msg_serialize(v) \o t) = Ok(v, t)
      <3> DEFINE u2 == t
                 u1 == p2 \o u2
                 u0 == p1 \o u1
      <3>s1. u1 \in Streams
        BY <2>p2, Cat, Zenon
      <3>e2. w2 \o u2 = w1 \o u1
        BY <2>p1, <2>p2, CatAssoc, Zenon
      <3>1. Msg_serialize(v) \o t = u0
        <4>1. w1 \o u1 = u0
          OBVIOUS
        <4> HIDE DEF w1, w2, u0, u1
        <4> QED
          BY <2>2, <4>1, <3>e2, Zenon
      <3>2. TakeInt(u0) = Ok(v.id, u1) /\ Body_deserialize(u1) = Ok(v.body, u2)
        BY <2>p1, <2>p2, <3>s1, Zenon
      <3> HIDE DEF u0, u1
      <3>3. Msg_deserialize(u0) = Ok([id |-> v.id, body |-> v.body], t)
        BY <1>1, <2>1, <3>2
      <3> QED
        BY <2>1, <3>1, <3>3, Zenon
    <2> QED
      BY <2>2, <2>w2, <2>4, Zenon
  <1>3. ASSUME NEW s \in Streams, Msg_deserialize(s).ok
        PROVE  \E v \in Msg, r \in Streams :
                  Msg_deserialize(s) = Ok(v, r)
                        /\ \A q \in Streams : Msg_deserialize(s \o q) = Ok(v, r \o q)
    <2> DEFINE f1 == TakeInt(s)
               f2 == Body_deserialize(f1.rest)
    <2>1. f1.ok /\ f2.ok
      BY <1>3, Results DEF Msg_deserialize, TakeAddressed
    <2>a1. PICK a1 \in Ints, r1 \in Streams :
              TakeInt(s) = Ok(a1, r1) /\ \A q \in Streams : TakeInt(s \o q) = Ok(a1, r1 \o q)
      BY <2>1, IntCodec DEF Codec, Reads
    <2>b1. f1.rest = r1 /\ f1.val = a1
      BY <2>a1, Results
    <2>a2. PICK a2 \in Body, r2 \in Streams :
              Body_deserialize(r1) = Ok(a2, r2)
                    /\ \A q \in Streams : Body_deserialize(r1 \o q) = Ok(a2, r2 \o q)
      BY <2>1, <2>b1, BodyCodec DEF Codec, Reads
    <2>b2. f2.rest = r2 /\ f2.val = a2
      BY <2>a2, <2>b1, Results
    <2> DEFINE v == [id |-> a1, body |-> a2]
    <2>3. v \in Msg
      BY <2>a1, <2>a2 DEF Msg
    <2>4. Msg_deserialize(s) = Ok(v, r2)
      BY <1>1, <2>a1, <2>a2
    <2>5. ASSUME NEW q \in Streams PROVE Msg_deserialize(s \o q) = Ok(v, r2 \o q)
      <3> DEFINE t0 == s \o q
                 t1 == r1 \o q
                 t2 == r2 \o q
      <3>1. TakeInt(t0) = Ok(a1, t1) /\ Body_deserialize(t1) = Ok(a2, t2)
        BY <2>a1, <2>a2, Zenon
      <3> HIDE DEF t0, t1, t2
      <3>2. Msg_deserialize(t0) = Ok(v, t2)
        BY <1>1, <3>1
      <3> QED
        BY <3>2 DEF t0, t2
    <2> HIDE DEF v
    <2> QED
      BY <2>3, <2>4, <2>5
  <1> QED
    BY <1>2, <1>3 DEF Codec, Writes, Reads

-----------------------------------------------------------------------------
(* Requests with more elements than their count can tell.                  *)

\* The bytes b are read as something, and some of them are left over.
Overflows(T(_), b) ==
    /\ b \in Streams
    /\ \E x : \E rest \in Streams :
          rest # <<>> /\ \A t \in Streams : T(b \o t) = Ok(x, rest \o t)

LEMMA ListOverflows ==
  ASSUME NEW take, NEW V, Reader(take, V), NEW xs \in Seq(V), Len(xs) >= BYTE, NEW pieces,
         Pieces(take, xs, pieces)
  PROVE  /\ PutList(BYTE, pieces) \in Streams
         /\ \E rest \in Streams :
               /\ rest # <<>>
               /\ \A t \in Streams :
                     TakeList(BYTE, take, PutList(BYTE, pieces) \o t)
                        = Ok(SubSeq(xs, 1, Len(xs) % BYTE), rest \o t)
  <1>1. CountWidth(BYTE)
    BY DEF CountWidth
  <1>2. PutList(BYTE, pieces) \in Streams
    BY <1>1, ListWrites
  <1>3. PICK rest \in Streams :
           /\ rest = <<>> <=> Len(xs) < BYTE
           /\ \A t \in Streams :
                 TakeList(BYTE, take, PutList(BYTE, pieces) \o t)
                    = Ok(SubSeq(xs, 1, Len(xs) % BYTE), rest \o t)
    BY <1>1, ListWrites
  <1>4. rest # <<>>
    <2>1. Len(xs) \in Nat
      OBVIOUS
    <2> QED
      BY <1>3, <2>1, Widths
  <1> QED
    BY <1>2, <1>3, <1>4

LEMMA TxOverflows ==
  ASSUME NEW tx \in TxSignedBy({sigs \in Seq(SigPair) : Len(sigs) >= BYTE})
  PROVE  Overflows(TxVariant_deserialize, TxVariant_serialize(tx))
  <1> DEFINE S == {sigs \in Seq(SigPair) : Len(sigs) >= BYTE}
             h == serialize_without_sigs(tx)
             p == PutSigs(tx.sigs)
             take == [t \in Streams |-> take_sig_pair(t)]
             pieces == [i \in DOMAIN tx.sigs |-> push_sig_pair(tx.sigs[i])]
  <1>1. tx.sigs \in S
    BY TxShape
  <1>2. tx.sigs \in Seq(SigPair) /\ Len(tx.sigs) >= BYTE
    BY <1>1
  <1>3. /\ h \in Streams
        /\ \A t \in Streams :
              TxVariant_deserialize(h \o t) = Signed(tx.type, tx.base, tx.val, t)
    BY WithoutSigsReads
  <1>4. p = PutList(BYTE, pieces) /\ \A s : TakeSigs(s) = TakeList(BYTE, take, s)
    BY Zenon DEF PutSigs, TakeSigs
  <1>5. Reader(take, SigPair) /\ Pieces(take, tx.sigs, pieces)
    BY <1>2, SigsPieces, Zenon
  <1>6. TxVariant_serialize(tx) = h \o p
    BY Zenon DEF TxVariant_serialize, PutSigs
  <1> HIDE DEF take, pieces, h, p
  <1>7. p \in Streams
    BY <1>2, <1>4, <1>5, ListOverflows
  <1> DEFINE gs == tx.sigs
  <1> HIDE DEF gs
  <1>8. PICK rest \in Streams :
           /\ rest # <<>>
           /\ \A t \in Streams : TakeList(BYTE, take, PutList(BYTE, pieces) \o t)
                                   = Ok(SubSeq(gs, 1, Len(gs) % BYTE), rest \o t)
    <2>1. gs \in Seq(SigPair) /\ Len(gs) >= BYTE /\ Pieces(take, gs, pieces)
      BY <1>2, <1>5 DEF gs
    <2> QED
      BY <1>5, <2>1, ListOverflows
  <1> DEFINE g == SubSeq(gs, 1, Len(gs) % BYTE)
  <1> HIDE DEF g
  <1>9. rest # <<>> /\ \A t \in Streams : TakeSigs(p \o t) = Ok(g, rest \o t)
    BY <1>4, <1>8, Zenon DEF g
  <1> DEFINE x == [type |-> tx.type, base |-> tx.base, val |-> tx.val, sigs |-> g]
  <1>10. ASSUME NEW t \in Streams
         PROVE  TxVariant_deserialize(TxVariant_serialize(tx) \o t) = Ok(x, rest \o t)
    <2> DEFINE u == p \o t
    <2>1. (h \o p) \o t = h \o u /\ u \in Streams
      BY <1>3, <1>7, Cat, CatAssoc, Zenon
    <2>2. TakeSigs(u) = Ok(g, rest \o t)
      BY <1>9
    <2> HIDE DEF u
    <2>3. Signed(tx.type, tx.base, tx.val, u) = Ok(x, rest \o t)
      BY <2>2, Results DEF Signed
    <2> HIDE DEF x
    <2> QED
      BY <1>3, <1>6, <2>1, <2>3, Zenon
  <1>11. TxVariant_serialize(tx) \in Streams
    BY <1>3, <1>6, <1>7, Cat, Zenon
  <1> HIDE DEF x
  <1> QED
    BY <1>9, <1>10, <1>11 DEF Overflows

LEMMA FilterOverflows ==
  ASSUME NEW f \in SUBSET Ints, Cardinality(f) >= BYTE
  PROVE  Overflows(TakeFilter, PutFilter(f))
  <1> DEFINE xs == Ascending(f)
             take == [t \in Streams |-> TakeInt(t)]
             pieces == [i \in DOMAIN xs |-> PushInt(xs[i])]
  <1>1. xs \in Seq(Ints) /\ Len(xs) >= BYTE
    BY AscendingIds
  <1>2. PutFilter(f) = PutIds(xs)
    BY FilterSteps
  <1> HIDE DEF xs
  <1>3. PutIds(xs) = PutList(BYTE, pieces) /\ \A s : TakeIds(s) = TakeList(BYTE, take, s)
    BY Zenon DEF PutIds, TakeIds
  <1>4. Reader(take, Ints) /\ Pieces(take, xs, pieces)
    BY <1>1, IdsPieces, Zenon
  <1> HIDE DEF take, pieces
  <1>5. PutFilter(f) \in Streams
    BY <1>1, <1>2, <1>3, <1>4, ListOverflows
  <1>6. PICK rest \in Streams :
           /\ rest # <<>>
           /\ \A t \in Streams : TakeList(BYTE, take, PutList(BYTE, pieces) \o t)
                                   = Ok(SubSeq(xs, 1, Len(xs) % BYTE), rest \o t)
    BY <1>1, <1>4, ListOverflows
  <1> DEFINE l == SubSeq(xs, 1, Len(xs) % BYTE)
  <1> HIDE DEF l
  <1>8. rest # <<>> /\ \A t \in Streams : TakeIds(PutFilter(f) \o t) = Ok(l, rest \o t)
    BY <1>2, <1>3, <1>6, Zenon DEF l
  <1>9. \A t \in Streams : TakeFilter(PutFilter(f) \o t) = Ok(ToSet(l), rest \o t)
    BY <1>8, FilterSteps
  <1> QED
    BY <1>5, <1>8, <1>9 DEF Overflows

LEMMA VariantSteps ==
  ASSUME NEW tag, NEW held, NEW y, NEW r, NEW x, NEW u, tag = Ok(y, r), held = Ok(x, u)
  PROVE  /\ tag.val = y /\ tag.rest = r
         /\ Variant(tag, held) = Ok([type |-> y, val |-> x], u)
  BY Results DEF Variant

LEMMA RequestOverflows ==
  ASSUME NEW r \in OversizedRequest
  PROVE  Overflows(Request_deserialize, Request_serialize(r))
  <1> DEFINE y == r.type
             h == PutRequestHeld(r.type, r.val)
  <1>1. y \in DOMAIN RpcType /\ y \in {"Broadcast", "SetBlockFilter"}
    BY RequestTags DEF OversizedRequest, EnumOf
  <1>2. h \in Streams /\ \E x : \E rest \in Streams :
           rest # <<>> /\ \A t \in Streams : TakeRequestHeld(y, h \o t) = Ok(x, rest \o t)
    <2>1. CASE y = "Broadcast"
      <3>1. r.val \in TxSignedBy({sigs \in Seq(SigPair) : Len(sigs) >= BYTE})
        BY <2>1 DEF OversizedRequest, EnumOf
      <3>2. h = TxVariant_serialize(r.val)
            /\ \A s : TakeRequestHeld(y, s) = TxVariant_deserialize(s)
        BY <2>1 DEF PutRequestHeld, TakeRequestHeld
      <3>3. Overflows(TxVariant_deserialize, TxVariant_serialize(r.val))
        BY <3>1, TxOverflows
      <3> HIDE DEF h, y
      <3> QED
        BY <3>2, <3>3 DEF Overflows
    <2>2. CASE y = "SetBlockFilter"
      <3>1. r.val \in SUBSET Ints /\ Cardinality(r.val) >= BYTE
        BY <2>2 DEF OversizedRequest, EnumOf
      <3>2. h = PutFilter(r.val) /\ \A s : TakeRequestHeld(y, s) = TakeFilter(s)
        BY <2>2 DEF PutRequestHeld, TakeRequestHeld
      <3>3. Overflows(TakeFilter, PutFilter(r.val))
        BY <3>1, FilterOverflows
      <3> HIDE DEF h, y
      <3> QED
        BY <3>2, <3>3 DEF Overflows
    <2> QED
      BY <1>1, <2>1, <2>2
  <1>3. Request_serialize(r) = <<RpcType[y]>> \o h
    BY Zenon DEF Request_serialize, PutRequestHeld
  <1> HIDE DEF y, h
  <1>4. PICK x : \E rest \in Streams :
           rest # <<>> /\ \A t \in Streams : TakeRequestHeld(y, h \o t) = Ok(x, rest \o t)
    BY <1>2
  <1>5. PICK rest \in Streams :
           rest # <<>> /\ \A t \in Streams : TakeRequestHeld(y, h \o t) = Ok(x, rest \o t)
    BY <1>4
  <1> DEFINE b == Request_serialize(r)
             v == [type |-> y, val |-> x]
  <1>6. /\ b \in Streams
        /\ \A t \in Streams : h \o t \in Streams /\ TakeTag(RpcType, b \o t) = Ok(y, h \o t)
    <2> HIDE DEF b
    <2> DEFINE c == <<RpcType[y]>>
    <2>1. c \in Streams /\ \A t \in Streams : TakeTag(RpcType, c \o t) = Ok(y, t)
      BY <1>1, RequestTags, TagWrites
    <2>2. b = c \o h
      BY <1>3 DEF b
    <2> HIDE DEF c, b
    <2>3. b \in Streams
      BY <1>2, <2>1, <2>2, Cat, Zenon
    <2>4. ASSUME NEW t \in Streams
          PROVE  h \o t \in Streams /\ TakeTag(RpcType, b \o t) = Ok(y, h \o t)
      <3>1. h \o t \in Streams
        BY <1>2, Cat, Zenon
      <3>2. (c \o h) \o t = c \o (h \o t)
        BY <1>2, <2>1, CatAssoc, ZenonT(60)
      <3> QED
        BY <2>1, <2>2, <3>1, <3>2, Zenon
    <2> QED
      BY <2>3, <2>4
  <1>7. ASSUME NEW t \in Streams PROVE Request_deserialize(b \o t) = Ok(v, rest \o t)
    <2> DEFINE s == b \o t
               u == h \o t
               tag == TakeTag(RpcType, s)
               held == TakeRequestHeld(y, u)
    <2>1. Request_deserialize(s) = Variant(tag, TakeRequestHeld(tag.val, tag.rest))
      BY Zenon DEF Request_deserialize, TakeRequestHeld
    <2>2. tag = Ok(y, u) /\ held = Ok(x, rest \o t)
      BY <1>5, <1>6
    <2> HIDE DEF s, b, u, tag
    <2>3. tag.val = y /\ tag.rest = u
      BY <2>2, Results
    <2>4. Request_deserialize(s) = Variant(tag, held)
      BY <2>1, <2>3, Zenon
    <2> DEFINE w == rest \o t
    <2> HIDE DEF held, w
    <2>5. Variant(tag, held) = Ok(v, w)
      BY <2>2, VariantSteps DEF w
    <2> QED
      BY <2>4, <2>5, Zenon DEF s, w
  <1> HIDE DEF v, b
  <1>8. b \in Streams /\ \A t \in Streams : Request_deserialize(b \o t) = Ok(v, rest \o t)
    BY <1>6, <1>7
  <1>9. Overflows(Request_deserialize, b)
    BY <1>5, <1>8, Zenon DEF Overflows
  <1> QED
    BY <1>9 DEF b

LEMMA BodyOverflows ==
  ASSUME NEW r \in OversizedRequest, NEW d, d.type = "Request", d.val = r
  PROVE  Overflows(Body_deserialize, Body_serialize(d))
  <1> DEFINE h == Request_serialize(r)
             b == Body_serialize(d)
  <1>1. "Request" \in DOMAIN BodyType /\ Tags(BodyType)
    BY BodyTags
  <1>2. PICK x : \E rest \in Streams :
           rest # <<>> /\ \A t \in Streams : Request_deserialize(h \o t) = Ok(x, rest \o t)
    BY RequestOverflows DEF Overflows
  <1>3. PICK rest \in Streams :
           rest # <<>> /\ \A t \in Streams : Request_deserialize(h \o t) = Ok(x, rest \o t)
    BY <1>2
  <1>4. h \in Streams
    BY RequestOverflows DEF Overflows
  <1>5. b = <<BodyType["Request"]>> \o h
    BY DEF Body_serialize
  <1> HIDE DEF h, b
  <1> DEFINE v == [type |-> "Request", val |-> x]
  <1>6. /\ b \in Streams
        /\ \A t \in Streams :
              h \o t \in Streams /\ TakeTag(BodyType, b \o t) = Ok("Request", h \o t)
    <2> DEFINE c == <<BodyType["Request"]>>
    <2>1. c \in Streams /\ \A t \in Streams : TakeTag(BodyType, c \o t) = Ok("Request", t)
      BY <1>1, TagWrites
    <2>2. b = c \o h
      BY <1>5 DEF b
    <2> HIDE DEF c, b
    <2>3. b \in Streams
      BY <1>4, <2>1, <2>2, Cat, Zenon
    <2>4. ASSUME NEW t \in Streams
          PROVE  h \o t \in Streams /\ TakeTag(BodyType, b \o t) = Ok("Request", h \o t)
      <3>1. h \o t \in Streams
        BY <1>4, Cat, Zenon
      <3>2. (c \o h) \o t = c \o (h \o t)
        BY <1>4, <2>1, CatAssoc, ZenonT(60)
      <3> QED
        BY <2>1, <2>2, <3>1, <3>2, Zenon
    <2> QED
      BY <2>3, <2>4
  <1>7. ASSUME NEW t \in Streams PROVE Body_deserialize(b \o t) = Ok(v, rest \o t)
    <2> DEFINE s == b \o t
               u == h \o t
               w == rest \o t
               tag == TakeTag(BodyType, s)
               held == Request_deserialize(u)
    <2>1. tag = Ok("Request", u) /\ held = Ok(x, w)
      BY <1>3, <1>6
    <2> HIDE DEF u, w
    <2>2. tag.val = "Request" /\ tag.rest = u
      <3> HIDE DEF tag
      <3> QED
        BY <2>1, Results
    <2>3. Body_deserialize(s) = Variant(tag, held)
      <3> HIDE DEF s
      <3> QED
        BY <2>2 DEF Body_deserialize
    <2> HIDE DEF s, tag, held
    <2>4. Variant(tag, held) = Ok(v, w)
      BY <2>1, VariantSteps
    <2> QED
      BY <2>3, <2>4, Zenon DEF s, w
  <1> HIDE DEF v
  <1>8. b \in Streams /\ \A t \in Streams : Body_deserialize(b \o t) = Ok(v, rest \o t)
    BY <1>6, <1>7
  <1>9. Overflows(Body_deserialize, b)
    BY <1>3, <1>8, Zenon DEF Overflows
  <1> QED
    BY <1>9 DEF b

LEMMA MsgOverflows ==
  ASSUME NEW m \in OversizedMsg
  PROVE  Overflows(Msg_deserialize, Msg_serialize(m))
  <1> DEFINE p == PushInt(m.id)
             h == Body_serialize(m.body)
             b == Msg_serialize(m)
  <1>1. m.id \in Ints /\ m.body.type = "Request" /\ m.body.val \in OversizedRequest
    BY DEF OversizedMsg, EnumOf
  <1>2. Overflows(Body_deserialize, h)
    BY <1>1, BodyOverflows
  <1>3. p \in Streams /\ \A t \in Streams : TakeInt(p \o t) = Ok(m.id, t)
    BY <1>1, IntCodec DEF Codec, Writes
  <1>4. b = p \o h
    BY Zenon DEF Msg_serialize
  <1> HIDE DEF h, b, p
  <1>5. PICK x : \E rest \in Streams :
           rest # <<>> /\ \A t \in Streams : Body_deserialize(h \o t) = Ok(x, rest \o t)
    BY <1>2 DEF Overflows
  <1>6. PICK rest \in Streams :
           rest # <<>> /\ \A t \in Streams : Body_deserialize(h \o t) = Ok(x, rest \o t)
    BY <1>5
  <1>7. h \in Streams
    BY <1>2 DEF Overflows
  <1>8. b \in Streams
    BY <1>3, <1>4, <1>7, Cat, Zenon
  <1> DEFINE v == [id |-> m.id, body |-> x]
  <1>9. ASSUME NEW t \in Streams PROVE Msg_deserialize(b \o t) = Ok(v, rest \o t)
    <2> DEFINE u == h \o t
    <2>1. (p \o h) \o t = p \o u /\ u \in Streams
      BY <1>3, <1>7, Cat, CatAssoc, Zenon
    <2> DEFINE w == rest \o t
    <2>2. Body_deserialize(u) = Ok(x, w)
      BY <1>6
    <2> HIDE DEF u, w
    <2>3. TakeInt(p \o u) = Ok(m.id, u)
      BY <1>3, <2>1, Zenon
    <2> DEFINE s == p \o u
    <2> HIDE DEF s
    <2>4. TakeInt(s).ok /\ TakeInt(s).val = m.id /\ TakeInt(s).rest = u
      BY <2>3, Results DEF s
    <2>5. Body_deserialize(u).ok /\ Body_deserialize(u).val = x
          /\ Body_deserialize(u).rest = w
      BY <2>2, Results
    <2>6. Msg_deserialize(s) = Ok(v, w)
      BY <2>4, <2>5, Zenon DEF Msg_deserialize, TakeAddressed
    <2>7. b \o t = s
      BY <1>4, <2>1, Zenon DEF s
    <2> QED
      BY <2>6, <2>7, Zenon DEF w
  <1> HIDE DEF v
  <1> QED
    BY <1>6, <1>8, <1>9 DEF Overflows, b

-----------------------------------------------------------------------------
(* What is hashed.                                                         *)

\* The id of a transaction, however signed, determines all of it but the
\* signatures.
LEMMA TxidTellsApart ==
  ASSUME NEW S1, NEW S2, NEW tx1 \in TxSignedBy(S1), NEW tx2 \in TxSignedBy(S2)
  PROVE  calc_txid(tx1) = calc_txid(tx2) <=> WithoutSigs(tx1) = WithoutSigs(tx2)
  <1> DEFINE c == PushInt(CHAIN_ID)
             h1 == serialize_without_sigs(tx1)
             h2 == serialize_without_sigs(tx2)
  <1>1. c \in Streams
    <2>1. CHAIN_ID \in Nat
      BY WidthAssumption
    <2> QED
      BY <2>1, IntBytes
  <1>2. /\ h1 \in Streams
        /\ \A t \in Streams :
              TxVariant_deserialize(h1 \o t) = Signed(tx1.type, tx1.base, tx1.val, t)
    BY WithoutSigsReads
  <1>3. /\ h2 \in Streams
        /\ \A t \in Streams :
              TxVariant_deserialize(h2 \o t) = Signed(tx2.type, tx2.base, tx2.val, t)
    BY WithoutSigsReads
  <1>4. calc_txid(tx1) = c \o h1 /\ calc_txid(tx2) = c \o h2
    BY Zenon DEF calc_txid
  <1>5. ASSUME calc_txid(tx1) = calc_txid(tx2) PROVE WithoutSigs(tx1) = WithoutSigs(tx2)
    <2> DEFINE t == PutSigs(<<>>)
    <2>1. h1 = h2
      <3> HIDE DEF c, h1, h2
      <3> QED
        BY <1>1, <1>2, <1>3, <1>4, <1>5, CatCancel
    <2>2. <<>> \in List(SigPair, BYTE)
      <3>1. Len(<<>>) = 0 /\ <<>> \in Seq(SigPair)
        OBVIOUS
      <3> QED
        BY <3>1, Widths DEF List
    <2>3. t \in Streams /\ TakeSigs(t \o <<>>) = Ok(<<>>, <<>>)
      BY <2>2, SigsCodec, CatEmpty DEF Codec, Writes
    <2>4. t \o <<>> = t
      BY <2>3, Cat
    <2> HIDE DEF c, h1, h2, t
    <2>5. TakeSigs(t).ok
      BY <2>3, <2>4, Results
    <2>6. Signed(tx1.type, tx1.base, tx1.val, t) = Signed(tx2.type, tx2.base, tx2.val, t)
      BY <1>2, <1>3, <2>1, <2>3, Zenon
    <2> DEFINE g == TakeSigs(t)
               v1 == [type |-> tx1.type, base |-> tx1.base, val |-> tx1.val, sigs |-> g.val]
               v2 == [type |-> tx2.type, base |-> tx2.base, val |-> tx2.val, sigs |-> g.val]
    <2>7. Ok(v1, g.rest) = Ok(v2, g.rest)
      BY <2>5, <2>6, Zenon DEF Signed
    <2> HIDE DEF g
    <2>8. v1 = v2
      <3> HIDE DEF v1, v2
      <3> QED
        BY <2>7, Results
    <2>9. tx1.type = tx2.type /\ tx1.base = tx2.base /\ tx1.val = tx2.val
      <3>1. v1.type = v2.type /\ v1.base = v2.base /\ v1.val = v2.val
        <4> HIDE DEF v1, v2
        <4> QED
          BY <2>8
      <3> QED
        BY <3>1
    <2> QED
      BY <2>9, Zenon DEF WithoutSigs
  <1>6. ASSUME WithoutSigs(tx1) = WithoutSigs(tx2) PROVE calc_txid(tx1) = calc_txid(tx2)
    <2>1. tx1.type = tx2.type /\ tx1.base = tx2.base /\ tx1.val = tx2.val
      BY <1>6 DEF WithoutSigs
    <2>2. h1 = h2
      BY <2>1, Zenon DEF serialize_without_sigs
    <2> QED
      BY <1>4, <2>2, Zenon
  <1> QED
    BY <1>5, <1>6

LEMMA ReceiptRootTellsApart ==
  ASSUME NEW xs \in Seq(Receipt), NEW ys \in Seq(Receipt)
  PROVE  calc_receipt_root(xs) = calc_receipt_root(ys) <=> xs = ys
  <1> DEFINE take == [t \in Streams |-> Receipt_deserialize(t)]
             ps == [i \in DOMAIN xs |-> Receipt_serialize(xs[i])]
             qs == [i \in DOMAIN ys |-> Receipt_serialize(ys[i])]
  <1>1. Reader(take, Receipt) /\ Pieces(take, xs, ps) /\ Pieces(take, ys, qs)
    BY ReceiptsPieces, Zenon
  <1>2. calc_receipt_root(xs) = Joined(ps) /\ calc_receipt_root(ys) = Joined(qs)
    BY Zenon DEF calc_receipt_root
  <1> HIDE DEF take, ps, qs
  <1>3. Len(xs) <= Len(ys) \/ Len(ys) <= Len(xs)
    <2>1. Len(xs) \in Nat /\ Len(ys) \in Nat
      OBVIOUS
    <2> QED
      BY <2>1
  <1>4. ASSUME Joined(ps) = Joined(qs) PROVE xs = ys
    <2>1. CASE Len(xs) <= Len(ys)
      BY <1>1, <1>4, <2>1, JoinedTellsApart
    <2>2. CASE Len(ys) <= Len(xs)
      <3>1. Joined(qs) = Joined(ps)
        BY <1>4
      <3>2. ys = xs
        BY <1>1, <2>2, <3>1, JoinedTellsApart
      <3> QED
        BY <3>2
    <2> QED
      BY <1>3, <2>1, <2>2
  <1>5. ASSUME xs = ys PROVE calc_receipt_root(xs) = calc_receipt_root(ys)
    BY <1>5
  <1> QED
    BY <1>2, <1>4, <1>5

LEMMA HeaderTellsApart ==
  ASSUME NEW x \in BlockHeader, NEW y \in BlockHeader
  PROVE  calc_header_hash(x) = calc_header_hash(y) <=> x = y
  <1> DEFINE p == BlockHeader_serialize(x)
             q == BlockHeader_serialize(y)
  <1>1. BlockHeader_deserialize(p \o <<>>) = Ok(x, <<>>)
    BY BlockHeaderCodec, CatEmpty DEF Codec, Writes
  <1>2. BlockHeader_deserialize(q \o <<>>) = Ok(y, <<>>)
    BY BlockHeaderCodec, CatEmpty DEF Codec, Writes
  <1>3. calc_header_hash(x) = p /\ calc_header_hash(y) = q
    BY Zenon DEF calc_header_hash
  <1> HIDE DEF p, q
  <1>4. ASSUME p = q PROVE x = y
    <2>1. Ok(x, <<>>) = Ok(y, <<>>)
      BY <1>1, <1>2, <1>4, Zenon
    <2>2. Ok(x, <<>>).val = x /\ Ok(y, <<>>).val = y
      BY Results, Zenon
    <2> QED
      BY <2>1, <2>2, Zenon
  <1>5. ASSUME x = y PROVE p = q
    BY <1>5 DEF p, q
  <1> QED
    BY <1>3, <1>4, <1>5

-----------------------------------------------------------------------------
(* The room for a block's receipts.                                        *)

LEMMA ReceiptCountReads == Reads(TakeReceiptCount, Ints)
  <1> SUFFICES ASSUME NEW s \in Streams, TakeReceiptCount(s).ok
               PROVE  \E n \in Ints, r \in Streams :
                         /\ TakeReceiptCount(s) = Ok(n, r)
                         /\ \A q \in Streams : TakeReceiptCount(s \o q) = Ok(n, r \o q)
    BY DEF Reads
  <1>1. ASSUME NEW x, NEW a1, NEW r1, NEW a2, NEW r2, NEW a3, NEW r3,
               BlockHeader_deserialize(x) = Ok(a1, r1), take_sig_pair(r1) = Ok(a2, r2),
               take_asset(r2) = Ok(a3, r3)
        PROVE  TakeReceiptCount(x) = TakeInt(r3)
    BY <1>1, Results DEF TakeReceiptCount
  <1> DEFINE f1 == BlockHeader_deserialize(s)
             f2 == take_sig_pair(f1.rest)
             f3 == take_asset(f2.rest)
  <1>2. f1.ok /\ f2.ok /\ f3.ok
    BY Results DEF TakeReceiptCount
  <1>3. PICK a1 \in BlockHeader, r1 \in Streams :
           /\ f1 = Ok(a1, r1)
           /\ \A q \in Streams : BlockHeader_deserialize(s \o q) = Ok(a1, r1 \o q)
    BY <1>2, BlockHeaderCodec DEF Codec, Reads
  <1>4. f1.rest = r1
    BY <1>3, Results
  <1>5. PICK a2 \in SigPair, r2 \in Streams :
           f2 = Ok(a2, r2) /\ \A q \in Streams : take_sig_pair(r1 \o q) = Ok(a2, r2 \o q)
    BY <1>2, <1>4, SigPairCodec DEF Codec, Reads
  <1>6. f2.rest = r2
    BY <1>5, Results
  <1>7. PICK a3 \in Amounts, r3 \in Streams :
           f3 = Ok(a3, r3) /\ \A q \in Streams : take_asset(r2 \o q) = Ok(a3, r3 \o q)
    BY <1>2, <1>6, AssetCodec DEF Codec, Reads
  <1>8. TakeReceiptCount(s) = TakeInt(r3)
    BY <1>1, <1>3, <1>4, <1>5, <1>6, <1>7
  <1> HIDE DEF f1, f2, f3
  <1>9. PICK n \in Ints, r \in Streams :
           TakeInt(r3) = Ok(n, r) /\ \A q \in Streams : TakeInt(r3 \o q) = Ok(n, r \o q)
    BY <1>8, IntCodec DEF Codec, Reads
  <1>10. ASSUME NEW q \in Streams PROVE TakeReceiptCount(s \o q) = Ok(n, r \o q)
    <2> DEFINE t0 == s \o q
               t1 == r1 \o q
               t2 == r2 \o q
               t3 == r3 \o q
               t4 == r \o q
    <2>1. /\ BlockHeader_deserialize(t0) = Ok(a1, t1) /\ take_sig_pair(t1) = Ok(a2, t2)
          /\ take_asset(t2) = Ok(a3, t3) /\ TakeInt(t3) = Ok(n, t4)
      BY <1>3, <1>5, <1>7, <1>9, Zenon
    <2> HIDE DEF t0, t1, t2, t3, t4
    <2>2. TakeReceiptCount(t0) = Ok(n, t4)
      BY <1>1, <2>1
    <2> QED
      BY <2>2 DEF t0, t4
  <1> QED
    BY <1>8, <1>9, <1>10

\* A block that is read has as many receipts as its count says.
LEMMA CountedReceipts ==
  ASSUME NEW s \in Streams, Block_deserialize(s).ok
  PROVE  TakeReceiptCount(s).val = Len(Block_deserialize(s).val.receipts)
  <1> DEFINE f1 == BlockHeader_deserialize(s)
             f2 == take_sig_pair(f1.rest)
             f3 == take_asset(f2.rest)
             f4 == TakeReceipts(f3.rest)
  <1>1. f1.ok /\ f2.ok /\ f3.ok /\ f4.ok /\ Block_deserialize(s).val.receipts = f4.val
    BY Results DEF Block_deserialize, TakeReceipts, TakeSealed
  <1>2. f1.rest \in Streams
    <2>1. PICK a \in BlockHeader, r \in Streams : f1 = Ok(a, r)
      BY <1>1, BlockHeaderCodec DEF Codec, Reads
    <2> QED
      BY <2>1, Results
  <1>3. f2.rest \in Streams
    <2>1. PICK a \in SigPair, r \in Streams : f2 = Ok(a, r)
      BY <1>1, <1>2, SigPairCodec DEF Codec, Reads
    <2> QED
      BY <2>1, Results
  <1>4. f3.rest \in Streams
    <2>1. PICK a \in Amounts, r \in Streams : f3 = Ok(a, r)
      BY <1>1, <1>3, AssetCodec DEF Codec, Reads
    <2> QED
      BY <2>1, Results
  <1>5. TakeReceiptCount(s) = TakeInt(f3.rest)
    BY <1>1 DEF TakeReceiptCount
  <1> DEFINE x == f3.rest
             take == [t \in Streams |-> Receipt_deserialize(t)]
             count == TakeInt(x)
  <1>6. f4 = TakeList(INT, take, x)
    BY Zenon DEF TakeReceipts
  <1> HIDE DEF f1, f2, f3, f4, x, take
  <1>7. TakeList(INT, take, x) = IF count.ok THEN TakeAll(take, count.val, count.rest) ELSE Fail
    BY Widths DEF TakeList, TakeCount
  <1>8. count.ok
    BY <1>1, <1>6, <1>7, Results
  <1>9. count.val \in Nat /\ count.rest \in Streams
    <2>1. PICK n \in Ints, r \in Streams : count = Ok(n, r)
      BY <1>4, <1>8, IntCodec DEF Codec, Reads, x
    <2> HIDE DEF count
    <2> QED
      BY <2>1, Results DEF Ints
  <1>10. Reader(take, Receipt)
    BY ReceiptsPieces, Zenon DEF take
  <1> HIDE DEF count
  <1>11. PICK l \in Seq(Receipt), r \in Streams :
            Len(l) = count.val /\ TakeAll(take, count.val, count.rest) = Ok(l, r)
    BY <1>1, <1>6, <1>7, <1>8, <1>9, <1>10, AllReads
  <1>12. f4.val = l
    BY <1>6, <1>7, <1>8, <1>11, Results
  <1> QED
    BY <1>1, <1>5, <1>11, <1>12 DEF count, x

LEMMA UpToBlockReads == Reads(TakeUpToBlock, {<<>>})
  <1> SUFFICES ASSUME NEW s \in Streams, TakeUpToBlock(s).ok
               PROVE  \E v \in {<<>>}, r \in Streams :
                         /\ TakeUpToBlock(s) = Ok(v, r)
                         /\ \A q \in Streams : TakeUpToBlock(s \o q) = Ok(v, r \o q)
    BY DEF Reads
  <1> DEFINE f1 == TakeInt(s)
             f2 == TakeTag(BodyType, f1.rest)
             f3 == TakeTag(RpcType, f2.rest)
             f4 == TakeTag(FilteredBlock, f3.rest)
  <1>1. /\ f1.ok /\ f2.ok /\ f2.val = "Response" /\ f3.ok
        /\ f3.val = "GetFullBlock" \/ (f3.val = "GetBlock" /\ f4.ok /\ f4.val = "Block")
    <2> DEFINE reached == f1.ok /\ f2.ok /\ f2.val = "Response" /\ f3.ok
    <2>1. TakeUpToBlock(s) = IF reached /\ f3.val = "GetFullBlock" THEN Nothing(f3.rest)
                             ELSE IF reached /\ f3.val = "GetBlock" /\ f4.ok /\ f4.val = "Block"
                                  THEN Nothing(f4.rest)
                             ELSE Fail
      BY Zenon DEF TakeUpToBlock
    <2>2. TakeUpToBlock(s) # Fail
      BY Results
    <2> HIDE DEF f1, f2, f3, f4
    <2> QED
      BY <2>1, <2>2, Zenon
  <1>2. PICK a1 \in Ints, r1 \in Streams :
           f1 = Ok(a1, r1) /\ \A q \in Streams : TakeInt(s \o q) = Ok(a1, r1 \o q)
    BY <1>1, IntCodec DEF Codec, Reads
  <1>3. f1.rest = r1
    BY <1>2, Results
  <1>4. PICK a2 \in DOMAIN BodyType, r2 \in Streams :
           f2 = Ok(a2, r2) /\ \A q \in Streams : TakeTag(BodyType, r1 \o q) = Ok(a2, r2 \o q)
    BY <1>1, <1>3, BodyTags, TagReads
  <1>5. f2.rest = r2 /\ a2 = "Response"
    BY <1>1, <1>4, Results
  <1>6. PICK a3 \in DOMAIN RpcType, r3 \in Streams :
           f3 = Ok(a3, r3) /\ \A q \in Streams : TakeTag(RpcType, r2 \o q) = Ok(a3, r3 \o q)
    BY <1>1, <1>5, ResponseTags, TagReads
  <1>7. f3.rest = r3 /\ f3.val = a3
    BY <1>6, Results
  <1>8. ASSUME NEW x, NEW y1, NEW y2, NEW y3, TakeInt(x) = Ok(a1, y1),
               TakeTag(BodyType, y1) = Ok("Response", y2),
               TakeTag(RpcType, y2) = Ok("GetFullBlock", y3)
        PROVE  TakeUpToBlock(x) = Ok(<<>>, y3)
    BY <1>8, Results DEF TakeUpToBlock, Nothing
  <1>9. ASSUME NEW x, NEW y1, NEW y2, NEW y3, NEW y4, TakeInt(x) = Ok(a1, y1),
               TakeTag(BodyType, y1) = Ok("Response", y2),
               TakeTag(RpcType, y2) = Ok("GetBlock", y3),
               TakeTag(FilteredBlock, y3) = Ok("Block", y4)
        PROVE  TakeUpToBlock(x) = Ok(<<>>, y4)
    BY <1>9, Results DEF TakeUpToBlock, Nothing
  <1>10. CASE a3 = "GetFullBlock"
    <2>1. TakeUpToBlock(s) = Ok(<<>>, r3)
      BY <1>2, <1>3, <1>4, <1>5, <1>6, <1>8, <1>10
    <2>2. ASSUME NEW q \in Streams PROVE TakeUpToBlock(s \o q) = Ok(<<>>, r3 \o q)
      BY <1>2, <1>4, <1>5, <1>6, <1>8, <1>10
    <2> QED
      BY <2>1, <2>2
  <1>11. CASE a3 # "GetFullBlock"
    <2>1. a3 = "GetBlock" /\ f4.ok /\ f4.val = "Block"
      BY <1>1, <1>7, <1>11
    <2>2. PICK a4 \in DOMAIN FilteredBlock, r4 \in Streams :
             /\ f4 = Ok(a4, r4)
             /\ \A q \in Streams : TakeTag(FilteredBlock, r3 \o q) = Ok(a4, r4 \o q)
      BY <1>7, <2>1, FilteredBlockTags, TagReads
    <2>3. a4 = "Block"
      BY <2>1, <2>2, Results
    <2>4. TakeUpToBlock(s) = Ok(<<>>, r4)
      BY <1>2, <1>3, <1>4, <1>5, <1>6, <1>7, <1>9, <2>1, <2>2, <2>3
    <2>5. ASSUME NEW q \in Streams PROVE TakeUpToBlock(s \o q) = Ok(<<>>, r4 \o q)
      BY <1>2, <1>4, <1>5, <1>6, <1>9, <2>1, <2>2, <2>3
    <2> QED
      BY <2>4, <2>5
  <1> QED
    BY <1>10, <1>11

\* The blocks of a message that is read are read where the message has them.
LEMMA BlockIsReached ==
  ASSUME NEW s \in Streams, Msg_deserialize(s).ok, TakeUpToBlock(s).ok
  PROVE  LET rest == TakeUpToBlock(s).rest
         IN  /\ rest \in Streams /\ Block_deserialize(rest).ok
             /\ Block_deserialize(rest).val \in BlocksIn(Msg_deserialize(s).val)
  <1> DEFINE f1 == TakeInt(s)
             f2 == TakeTag(BodyType, f1.rest)
             f3 == TakeTag(RpcType, f2.rest)
             f4 == TakeTag(FilteredBlock, f3.rest)
             m == Msg_deserialize(s).val
             d == Body_deserialize(f1.rest)
             r == Response_deserialize(f2.rest)
             reached == f1.ok /\ f2.ok /\ f2.val = "Response" /\ f3.ok
  <1>1. TakeUpToBlock(s) = IF reached /\ f3.val = "GetFullBlock" THEN Nothing(f3.rest)
                           ELSE IF reached /\ f3.val = "GetBlock" /\ f4.ok /\ f4.val = "Block"
                                THEN Nothing(f4.rest)
                           ELSE Fail
    BY Zenon DEF TakeUpToBlock
  <1>2. TakeUpToBlock(s).rest \in Streams
    <2>1. PICK v \in {<<>>}, u \in Streams : TakeUpToBlock(s) = Ok(v, u)
      BY UpToBlockReads DEF Reads
    <2> QED
      BY <2>1, Results
  <1>3. f1.ok /\ d.ok /\ m = [id |-> f1.val, body |-> d.val]
    <2>1. Msg_deserialize(s) = IF f1.ok /\ d.ok
                               THEN Ok([id |-> f1.val, body |-> d.val], d.rest) ELSE Fail
      BY Zenon DEF Msg_deserialize, TakeAddressed
    <2> HIDE DEF f1, d
    <2> QED
      BY <2>1, Results
  <1>4. d = Variant(f2, TakeBodyHeld(f2.val, f2.rest))
    BY Zenon DEF Body_deserialize, TakeBodyHeld
  <1>5. r = Variant(f3, TakeResponseHeld(f3.val, f3.rest))
    BY Zenon DEF Response_deserialize, TakeResponseHeld
  <1>6. /\ reached
        /\ f3.val = "GetFullBlock" \/ (f3.val = "GetBlock" /\ f4.ok /\ f4.val = "Block")
    <2>1. TakeUpToBlock(s) # Fail
      BY Results
    <2> HIDE DEF f1, f2, f3, f4
    <2> QED
      BY <1>1, <2>1, Zenon
  <1> DEFINE held == TakeBodyHeld(f2.val, f2.rest)
  <1>7. held = r
    <2> HIDE DEF f2
    <2> QED
      BY <1>6 DEF TakeBodyHeld
  <1> HIDE DEF f1, f2, d, r, held
  <1>8. r.ok /\ m.body.type = "Response" /\ m.body.val = r.val
    <2>1. d.ok /\ f2.ok /\ d = Variant(f2, r)
      BY <1>3, <1>4, <1>6, <1>7, Zenon DEF held
    <2>2. r.ok /\ d.val = [type |-> f2.val, val |-> r.val]
      BY <2>1, Results DEF Variant
    <2> QED
      BY <1>3, <1>6, <2>2
  <1> DEFINE given == TakeResponseHeld(f3.val, f3.rest)
  <1>9. given.ok /\ r.val = [type |-> f3.val, val |-> given.val]
    <2> HIDE DEF f3, given
    <2>1. r = Variant(f3, given)
      BY <1>5, Zenon DEF given
    <2> QED
      BY <1>6, <1>8, <2>1, Results DEF Variant
  <1>10. CASE f3.val = "GetFullBlock"
    <2>1. given = Block_deserialize(f3.rest)
      <3> HIDE DEF f3
      <3> QED
        BY <1>10 DEF TakeResponseHeld
    <2>2. TakeUpToBlock(s).rest = f3.rest
      <3> HIDE DEF f3, f4
      <3> QED
        BY <1>1, <1>6, <1>10, Results DEF Nothing
    <2> HIDE DEF f3, given, m
    <2>3. given.val \in BlocksIn(m)
      BY <1>8, <1>9, <1>10 DEF BlocksIn
    <2> QED
      BY <1>2, <1>9, <2>1, <2>2, <2>3, Zenon DEF m
  <1>11. CASE f3.val # "GetFullBlock"
    <2>1. f3.val = "GetBlock" /\ f4.ok /\ f4.val = "Block"
      BY <1>6, <1>11
    <2> DEFINE e == FilteredBlock_deserialize(f3.rest)
               kept == TakeFilteredBlockHeld(f4.val, f4.rest)
    <2>2. given = e
      <3> HIDE DEF f3
      <3> QED
        BY <2>1 DEF TakeResponseHeld
    <2>3. e = Variant(f4, kept)
      BY Zenon DEF FilteredBlock_deserialize, TakeFilteredBlockHeld
    <2>4. kept = Block_deserialize(f4.rest)
      <3> HIDE DEF f4
      <3> QED
        BY <2>1 DEF TakeFilteredBlockHeld
    <2>5. TakeUpToBlock(s).rest = f4.rest
      <3> HIDE DEF f3, f4
      <3> QED
        BY <1>1, <1>6, <2>1, Results DEF Nothing
    <2> HIDE DEF f3, f4, given, m, e, kept
    <2>6. kept.ok /\ e.val = [type |-> "Block", val |-> kept.val]
      BY <1>9, <2>1, <2>2, <2>3, Results DEF Variant
    <2>7. kept.val \in BlocksIn(m)
      BY <1>8, <1>9, <2>1, <2>2, <2>6 DEF BlocksIn
    <2> QED
      BY <1>2, <2>4, <2>5, <2>6, <2>7, Zenon DEF m
  <1> QED
    BY <1>10, <1>11

\* There is room for what is read of a message that a peer sent.
LEMMA RoomForSent == \A m \in Messages : \A t \in Streams : ~NoRoom(Msg_serialize(m) \o t)
  <1> SUFFICES ASSUME NEW m \in Messages, NEW t \in Streams, NoRoom(Msg_serialize(m) \o t)
               PROVE  FALSE
    OBVIOUS
  <1> DEFINE s == Msg_serialize(m) \o t
             block == TakeUpToBlock(s)
             count == TakeReceiptCount(block.rest)
  <1>1. block.ok /\ count.ok /\ count.val > ROOM
    BY DEF NoRoom
  <1>2. CASE m \in OversizedMsg
    <2> DEFINE f1 == TakeInt(s)
               f2 == TakeTag(BodyType, f1.rest)
               h == Request_serialize(m.body.val)
               c == <<BodyType["Request"]>>
               p == PushInt(m.id)
               u == h \o t
               w == c \o u
    <2>1. m.id \in Ints /\ m.body.type = "Request" /\ m.body.val \in OversizedRequest
      BY <1>2 DEF OversizedMsg, EnumOf
    <2>2. p \in Streams /\ \A q \in Streams : TakeInt(p \o q) = Ok(m.id, q)
      BY <2>1, IntCodec DEF Codec, Writes
    <2>3. c \in Streams /\ \A q \in Streams : TakeTag(BodyType, c \o q) = Ok("Request", q)
      BY BodyTags, TagWrites
    <2>4. h \in Streams
      BY <2>1, RequestOverflows DEF Overflows
    <2>5. Msg_serialize(m) = p \o (c \o h)
      BY <2>1 DEF Msg_serialize, Body_serialize
    <2> HIDE DEF p, c, h
    <2>6. s = p \o w /\ w \in Streams /\ u \in Streams
      <3>1. (c \o h) \o t = c \o (h \o t)
        BY <2>3, <2>4, CatAssoc, Zenon
      <3>2. c \o h \in Streams /\ h \o t \in Streams
        BY <2>3, <2>4, Cat, Zenon
      <3>3. (p \o (c \o h)) \o t = p \o ((c \o h) \o t)
        BY <2>2, <3>2, CatAssoc, Zenon
      <3>4. c \o (h \o t) \in Streams
        BY <2>3, <3>2, Cat, Zenon
      <3> QED
        BY <2>5, <3>1, <3>2, <3>3, <3>4, Zenon
    <2> HIDE DEF s
    <2>7. f1 = Ok(m.id, w)
      BY <2>2, <2>6, Zenon
    <2>8. TakeTag(BodyType, w) = Ok("Request", u)
      BY <2>3, <2>6, Zenon
    <2>9. f2.val = "Request"
      <3> HIDE DEF w, u
      <3> QED
        BY <2>7, <2>8, Results
    <2>10. TakeUpToBlock(s) = Fail
      BY <2>9 DEF TakeUpToBlock
    <2> QED
      BY <1>1, <2>10, Results
  <1>3. CASE m \notin OversizedMsg
    <2>1. m \in Msg /\ Msg_deserialize(s) = Ok(m, t)
      BY <1>3, MessagesAssumption, MsgCodec DEF Codec, Writes
    <2>2. s \in Streams
      BY <2>1, MsgCodec, Cat DEF Codec, Writes
    <2> HIDE DEF s
    <2>3. Msg_deserialize(s).ok /\ Msg_deserialize(s).val = m
      BY <2>1, Results
    <2> DEFINE b == Block_deserialize(block.rest).val
    <2>4. block.rest \in Streams /\ Block_deserialize(block.rest).ok /\ b \in BlocksIn(m)
      BY <1>1, <2>2, <2>3, BlockIsReached
    <2>5. count.val = Len(b.receipts)
      BY <2>4, CountedReceipts
    <2>6. Len(b.receipts) <= ROOM
      BY <2>4, MessagesAssumption
    <2>7. b.receipts \in Seq(Receipt)
      <3>1. PICK x \in Block, q \in Streams : Block_deserialize(block.rest) = Ok(x, q)
        BY <2>4, BlockCodec DEF Codec, Reads
      <3>2. b = x
        BY <3>1, Results
      <3> HIDE DEF b
      <3> QED
        BY <3>2 DEF Block, List
    <2> HIDE DEF count, b
    <2>8. ROOM \in Nat /\ Len(b.receipts) \in Nat
      BY <2>7, WidthAssumption
    <2> QED
      BY <1>1, <2>5, <2>6, <2>8
  <1> QED
    BY <1>2, <1>3

\* What follows does not make room.
LEMMA NoRoomGrows ==
  ASSUME NEW s \in Streams, NEW q \in Streams, NoRoom(s)
  PROVE  NoRoom(s \o q)
  <1>1. /\ TakeUpToBlock(s).ok /\ TakeReceiptCount(TakeUpToBlock(s).rest).ok
        /\ TakeReceiptCount(TakeUpToBlock(s).rest).val > ROOM
    BY DEF NoRoom
  <1>2. PICK v \in {<<>>}, u \in Streams :
           TakeUpToBlock(s) = Ok(v, u) /\ TakeUpToBlock(s \o q) = Ok(v, u \o q)
    BY <1>1, UpToBlockReads DEF Reads
  <1>3. TakeReceiptCount(u).ok /\ TakeReceiptCount(u).val > ROOM
    BY <1>1, <1>2, Results
  <1>4. PICK n \in Ints, r \in Streams :
           TakeReceiptCount(u) = Ok(n, r) /\ TakeReceiptCount(u \o q) = Ok(n, r \o q)
    BY <1>3, ReceiptCountReads DEF Reads
  <1> QED
    BY <1>2, <1>3, <1>4, Results DEF NoRoom

-----------------------------------------------------------------------------
(* A message on its way.                                                   *)

\* What the receiver of a message makes of a stream.
Outcome(m, s) ==
    IF NoRoom(s) THEN <<"Aborted">> ELSE Accepted(m, Msg_deserialize(s))

\* What is on the wire, by what happened to it.
OnTheWire(b) ==
    /\ fault = "none" => wire = b
    /\ fault = "cut" => Len(wire) < Len(b) /\ wire = SubSeq(b, 1, Len(wire))
    /\ fault = "extended" => \E c \in Bytes : wire = b \o <<c>>

\* The inductive invariant.
WireInv ==
    /\ sent = <<>> \/ \E m \in Messages : sent = <<m>>
    /\ wire \in Streams
    /\ fault \in {"none", "cut", "garbled", "extended"}
    /\ sent = <<>> => fault = "none" /\ got = <<>>
    /\ sent # <<>> => OnTheWire(Msg_serialize(sent[1]))
    /\ got = <<>> \/ got = Outcome(sent[1], wire)

LEMMA MsgBytes == \A m \in Messages : Msg_serialize(m) \in Streams
  <1>1. \A m \in Msg : Msg_serialize(m) \in Streams
    BY MsgCodec DEF Codec, Writes
  <1>2. \A m \in OversizedMsg : Msg_serialize(m) \in Streams
    BY MsgOverflows DEF Overflows
  <1> QED
    BY <1>1, <1>2, MessagesAssumption

LEMMA WireInit == FormatsInit => WireInv
  BY CatEmpty DEF FormatsInit, WireInv

LEMMA WireStep == WireInv /\ [FormatsNext]_fvars => WireInv'
  <1> SUFFICES ASSUME WireInv, [FormatsNext]_fvars PROVE WireInv'
    OBVIOUS
  <1>1. ASSUME NEW m \in Messages, Serialize(m) PROVE WireInv'
    <2>1. /\ sent = <<>> /\ sent' = <<m>> /\ wire' = Msg_serialize(m)
          /\ fault' = "none" /\ got' = <<>>
      BY <1>1 DEF Serialize, WireInv
    <2>2. wire' \in Streams /\ sent' # <<>> /\ sent'[1] = m
      BY <2>1, MsgBytes
    <2>3. OnTheWire(Msg_serialize(sent[1]))'
      BY <2>1, <2>2 DEF OnTheWire
    <2> QED
      BY <2>1, <2>2, <2>3 DEF WireInv
  <1>2. ASSUME NEW n \in 0 .. Len(wire) - 1, Cut(n) PROVE WireInv'
    <2> DEFINE b == Msg_serialize(sent[1])
    <2>1. /\ sent # <<>> /\ got = <<>> /\ fault = "none" /\ wire = b /\ wire \in Streams
          /\ n < Len(wire) /\ wire' = SubSeq(wire, 1, n) /\ fault' = "cut"
          /\ sent' = sent /\ got' = got
      BY <1>2 DEF Cut, Untouched, WireInv, OnTheWire
    <2>2. Len(wire) \in Nat /\ n \in Nat /\ n <= Len(wire)
      BY <2>1, Cat
    <2>3. wire' \in Streams /\ Len(wire') = n
      <3>1. PICK a \in Streams, c \in Streams : wire = a \o c /\ Len(a) = n
        BY <2>1, <2>2, Split
      <3>2. SubSeq(wire, 1, n) = a
        BY <2>2, <3>1, Drop
      <3> QED
        BY <2>1, <3>1, <3>2
    <2>4. OnTheWire(Msg_serialize(sent[1]))'
      BY <2>1, <2>2, <2>3 DEF OnTheWire
    <2> QED
      BY <2>1, <2>3, <2>4 DEF WireInv
  <1>3. ASSUME NEW i \in DOMAIN wire, NEW b \in Garbage, Garble(i, b) PROVE WireInv'
    <2>1. /\ sent # <<>> /\ got = <<>> /\ wire \in Streams
          /\ wire' = [wire EXCEPT ![i] = b] /\ fault' = "garbled" /\ sent' = sent /\ got' = got
      BY <1>3 DEF Garble, Untouched, WireInv
    <2>2. b \in Bytes
      BY MessagesAssumption
    <2>3. wire' \in Streams
      BY <2>1, <2>2 DEF Streams
    <2> QED
      BY <2>1, <2>3 DEF WireInv, OnTheWire
  <1>4. ASSUME NEW b \in Garbage, Extend(b) PROVE WireInv'
    <2>1. /\ sent # <<>> /\ got = <<>> /\ wire \in Streams /\ wire = Msg_serialize(sent[1])
          /\ wire' = Append(wire, b) /\ fault' = "extended" /\ sent' = sent /\ got' = got
      BY <1>4 DEF Extend, Untouched, WireInv, OnTheWire
    <2>2. b \in Bytes
      BY MessagesAssumption
    <2>3. wire' \in Streams /\ wire' = wire \o <<b>>
      BY <2>1, <2>2 DEF Streams
    <2>4. OnTheWire(Msg_serialize(sent[1]))'
      BY <2>1, <2>2, <2>3 DEF OnTheWire
    <2> QED
      BY <2>1, <2>3, <2>4 DEF WireInv
  <1>5. ASSUME Deserialize PROVE WireInv'
    <2>1. /\ sent # <<>> /\ sent' = sent /\ wire' = wire /\ fault' = fault
          /\ got' = Outcome(sent[1], wire)
      BY <1>5, Zenon DEF Deserialize, Outcome
    <2>2. OnTheWire(Msg_serialize(sent[1])) => OnTheWire(Msg_serialize(sent[1]))'
      BY <2>1 DEF OnTheWire
    <2>3. got' = Outcome(sent[1], wire)'
      BY <2>1
    <2> QED
      BY <2>1, <2>2, <2>3 DEF WireInv
  <1>6. ASSUME Done PROVE WireInv'
    BY <1>6, CatEmpty DEF Done, WireInv
  <1>7. ASSUME UNCHANGED fvars PROVE WireInv'
    BY <1>7 DEF fvars, WireInv, OnTheWire
  <1> QED
    BY <1>1, <1>2, <1>3, <1>4, <1>5, <1>6, <1>7 DEF FormatsNext

\* The bytes on the wire are those that Msg::serialize wrote, but for the
\* damage, and the receiver has made of them what process_ws_msg makes.
THEOREM WireInvariant == FormatsSpec => []WireInv
  <1>1. FormatsInit => WireInv
    BY WireInit
  <1>2. WireInv /\ [FormatsNext]_fvars => WireInv'
    BY WireStep
  <1> QED
    BY <1>1, <1>2, PTL DEF FormatsSpec

-----------------------------------------------------------------------------
(* The properties that the runs check.                                     *)

\* What an outcome says of the stream.
LEMMA OutcomeReads ==
  ASSUME NEW m, NEW s
  PROVE  /\ ~NoRoom(s) =>
               /\ ~Msg_deserialize(s).ok => Outcome(m, s) = <<"Io">>
               /\ \A v, r : Msg_deserialize(s) = Ok(v, r) =>
                     IF r # <<>> /\ ~ReadByWallet(m) THEN Outcome(m, s)[1] = "BytesRemaining"
                     ELSE Outcome(m, s) = <<"Msg", v>>
         /\ NoRoom(s) => Outcome(m, s) = <<"Aborted">>
         /\ Outcome(m, s)[1] = "Aborted" => NoRoom(s)
         /\ Outcome(m, s)[1] = "Msg" => /\ Msg_deserialize(s).ok
                                       /\ Outcome(m, s)[2] = Msg_deserialize(s).val
  <1> DEFINE msg == Msg_deserialize(s)
             o == Outcome(m, s)
             full == NoRoom(s)
             lax == ReadByWallet(m)
  <1>1. o = IF full THEN <<"Aborted">>
            ELSE IF ~msg.ok THEN <<"Io">>
            ELSE IF msg.rest # <<>> /\ ~lax THEN <<"BytesRemaining", msg.val>>
            ELSE <<"Msg", msg.val>>
    BY Zenon DEF Outcome, Accepted
  <1> HIDE DEF msg, o, full, lax
  <1>2. \A v, r : msg = Ok(v, r) => msg.ok /\ msg.val = v /\ msg.rest = r
    BY Results
  <1>3. ASSUME NEW v, NEW r, msg = Ok(v, r), r # <<>>, ~lax, ~full
        PROVE  o[1] = "BytesRemaining"
    BY <1>1, <1>2, <1>3
  <1>4. ASSUME NEW v, NEW r, msg = Ok(v, r), r = <<>> \/ lax, ~full PROVE o = <<"Msg", v>>
    BY <1>1, <1>2, <1>4
  <1>5. ~full /\ ~msg.ok => o = <<"Io">>
    BY <1>1
  <1>6. (full => o = <<"Aborted">>) /\ (o[1] = "Aborted" => full)
    BY <1>1
  <1>7. o[1] = "Msg" => msg.ok /\ o[2] = msg.val
    BY <1>1
  <1>8. ~full => \A v, r : msg = Ok(v, r) =>
           IF r # <<>> /\ ~lax THEN o[1] = "BytesRemaining" ELSE o = <<"Msg", v>>
    BY <1>3, <1>4
  <1> QED
    BY <1>5, <1>6, <1>7, <1>8, Zenon DEF msg, o, full, lax

\* A message of which bytes are left over, with or without others behind it.
LEMMA LeftOver ==
  ASSUME NEW m \in Messages, m \in OversizedMsg, NEW t \in Streams
  PROVE  ~ReadByWallet(m) /\ Outcome(m, Msg_serialize(m) \o t)[1] = "BytesRemaining"
  <1> DEFINE b == Msg_serialize(m)
  <1>0. ~ReadByWallet(m)
    BY DEF ReadByWallet, OversizedMsg, EnumOf
  <1>1. PICK x : \E rest \in Streams :
           rest # <<>> /\ \A u \in Streams : Msg_deserialize(b \o u) = Ok(x, rest \o u)
    BY MsgOverflows DEF Overflows
  <1>2. PICK rest \in Streams :
           rest # <<>> /\ \A u \in Streams : Msg_deserialize(b \o u) = Ok(x, rest \o u)
    BY <1>1
  <1> DEFINE s == b \o t
             r == rest \o t
  <1>3. Msg_deserialize(s) = Ok(x, r) /\ ~NoRoom(s)
    BY <1>2, RoomForSent
  <1>4. r # <<>>
    BY <1>2, CatEmpty, Zenon
  <1> HIDE DEF s, r
  <1>5. Outcome(m, s)[1] = "BytesRemaining"
    BY <1>0, <1>3, <1>4, OutcomeReads, Zenon
  <1> QED
    BY <1>0, <1>5 DEF s

\* Every other message, with or without bytes behind it.
LEMMA ReadAsSent ==
  ASSUME NEW m \in Messages, m \notin OversizedMsg, NEW t \in Streams
  PROVE  IF t # <<>> /\ ~ReadByWallet(m)
         THEN Outcome(m, Msg_serialize(m) \o t)[1] = "BytesRemaining"
         ELSE Outcome(m, Msg_serialize(m) \o t) = <<"Msg", m>>
  <1> DEFINE s == Msg_serialize(m) \o t
  <1>1. Msg_deserialize(s) = Ok(m, t)
    BY MessagesAssumption, MsgCodec DEF Codec, Writes
  <1>2. ~NoRoom(s)
    BY RoomForSent
  <1> HIDE DEF s
  <1>3. IF t # <<>> /\ ~ReadByWallet(m) THEN Outcome(m, s)[1] = "BytesRemaining"
        ELSE Outcome(m, s) = <<"Msg", m>>
    BY <1>1, <1>2, OutcomeReads, Zenon
  <1> QED
    BY <1>3 DEF s

LEMMA WireRoundTrip == WireInv => RoundTrip
  <1> SUFFICES ASSUME WireInv, got # <<>>, fault = "none"
               PROVE  IF sent[1] \in OversizedMsg THEN got[1] = "BytesRemaining"
                      ELSE got = <<"Msg", sent[1]>>
    BY DEF RoundTrip
  <1>1. PICK m \in Messages : sent = <<m>>
    BY DEF WireInv
  <1> DEFINE b == Msg_serialize(m)
  <1>2. sent[1] = m /\ wire = b /\ got = Outcome(m, wire)
    BY <1>1 DEF WireInv, OnTheWire
  <1>3. b \in Streams /\ b \o <<>> = b /\ <<>> \in Streams
    BY MsgBytes, Cat, CatEmpty
  <1>4. CASE m \in OversizedMsg
    <2>1. Outcome(m, b \o <<>>)[1] = "BytesRemaining"
      BY <1>3, <1>4, LeftOver
    <2> QED
      BY <1>2, <1>3, <1>4, <2>1, Zenon
  <1>5. CASE m \notin OversizedMsg
    <2>1. Outcome(m, b \o <<>>) = <<"Msg", m>>
      BY <1>3, <1>5, ReadAsSent, Zenon
    <2> QED
      BY <1>2, <1>3, <1>5, <2>1, Zenon
  <1> QED
    BY <1>4, <1>5

LEMMA WireDamaged == WireInv => DamagedInput
  <1> SUFFICES ASSUME WireInv, got # <<>>, fault # "none"
               PROVE  /\ fault = "cut" /\ sent[1] \notin OversizedMsg => got = <<"Io">>
                      /\ fault = "extended" =>
                            IF ReadByWallet(sent[1]) THEN got = <<"Msg", sent[1]>>
                            ELSE got[1] = "BytesRemaining"
                      /\ got[1] = "Msg" => Msg_deserialize(Msg_serialize(got[2]))
                            = Ok(got[2], <<>>)
                      /\ got[1] = "Aborted" => fault = "garbled"
    BY DEF DamagedInput
  <1>1. PICK m \in Messages : sent = <<m>>
    BY DEF WireInv
  <1> DEFINE b == Msg_serialize(m)
  <1>2. /\ sent[1] = m /\ OnTheWire(b) /\ got = Outcome(m, wire) /\ wire \in Streams
        /\ fault \in {"cut", "garbled", "extended"}
    BY <1>1 DEF WireInv
  <1>3. b \in Streams /\ <<>> \in Streams /\ b \o <<>> = b
    BY MsgBytes, Cat, CatEmpty
  \* What is left of a message that was cut, and what is not.
  <1>4. ASSUME fault = "cut"
        PROVE  \E q \in Streams : q # <<>> /\ b = wire \o q
    <2>1. Len(wire) \in Nat /\ Len(b) \in Nat /\ Len(wire) < Len(b)
          /\ wire = SubSeq(b, 1, Len(wire))
      BY <1>2, <1>3, <1>4, Cat DEF OnTheWire
    <2> DEFINE n == Len(wire)
    <2>2. PICK a \in Streams, q \in Streams : b = a \o q /\ Len(a) = n
      <3>1. n \in Nat /\ n <= Len(b)
        BY <2>1
      <3> HIDE DEF n, b
      <3> QED
        BY <1>3, <3>1, Split
    <2>3. SubSeq(a \o q, 1, n) = a
      BY <2>1, <2>2, Drop
    <2>4. wire = a
      BY <2>1, <2>2, <2>3
    <2>5. q # <<>>
      <3> SUFFICES ASSUME q = <<>> PROVE FALSE
        OBVIOUS
      <3>1. b = a
        BY <2>2, Cat
      <3> QED
        BY <2>1, <2>2, <3>1
    <2> HIDE DEF b
    <2> QED
      BY <2>2, <2>4, <2>5
  <1>5. ASSUME fault = "cut" PROVE ~NoRoom(wire)
    <2>1. PICK q \in Streams : b = wire \o q
      BY <1>4, <1>5
    <2>2. ~NoRoom(b)
      BY <1>3, RoomForSent
    <2> HIDE DEF b
    <2> QED
      BY <1>2, <2>1, <2>2, NoRoomGrows
  <1>6. ASSUME fault = "cut", m \notin OversizedMsg PROVE got = <<"Io">>
    <2>1. PICK q \in Streams : q # <<>> /\ b = wire \o q
      BY <1>4, <1>6
    <2>2. ASSUME Msg_deserialize(wire).ok PROVE FALSE
      <3>1. PICK v \in Msg, r \in Streams :
               \A u \in Streams : Msg_deserialize(wire \o u) = Ok(v, r \o u)
        BY <1>2, <2>2, MsgCodec DEF Codec, Reads
      <3>2. Msg_deserialize(b) = Ok(v, r \o q)
        BY <2>1, <3>1, Zenon
      <3>3. Msg_deserialize(b \o <<>>) = Ok(m, <<>>)
        BY <1>3, <1>6, MessagesAssumption, MsgCodec DEF Codec, Writes
      <3>4. Ok(v, r \o q) = Ok(m, <<>>)
        BY <1>3, <3>2, <3>3, Zenon
      <3>5. r \o q = <<>>
        <4>1. Ok(v, r \o q).rest = r \o q /\ Ok(m, <<>>).rest = <<>>
          BY Results, Zenon
        <4> QED
          BY <3>4, <4>1, Zenon
      <3> QED
        BY <2>1, <3>5, CatEmpty, Zenon
    <2>3. ~NoRoom(wire)
      BY <1>5, <1>6
    <2> QED
      BY <1>2, <2>2, <2>3, OutcomeReads, Zenon
  <1>7. ASSUME fault = "extended"
        PROVE  /\ ~NoRoom(wire)
               /\ IF ReadByWallet(m) THEN got = <<"Msg", m>> ELSE got[1] = "BytesRemaining"
    <2>1. PICK c \in Bytes : wire = b \o <<c>>
      BY <1>2, <1>7 DEF OnTheWire
    <2> DEFINE t == <<c>>
    <2>2. t \in Streams /\ t # <<>>
      BY ByteReads
    <2> HIDE DEF t
    <2>3. wire = b \o t
      BY <2>1, Zenon DEF t
    <2>4. ~NoRoom(wire)
      BY <2>2, <2>3, RoomForSent, Zenon
    <2>5. CASE m \in OversizedMsg
      <3>1. ~ReadByWallet(m) /\ Outcome(m, b \o t)[1] = "BytesRemaining"
        BY <2>2, <2>5, LeftOver
      <3> QED
        BY <1>2, <2>3, <2>4, <3>1, Zenon
    <2>6. CASE m \notin OversizedMsg
      <3>1. IF ReadByWallet(m) THEN Outcome(m, b \o t) = <<"Msg", m>>
            ELSE Outcome(m, b \o t)[1] = "BytesRemaining"
        BY <2>2, <2>6, ReadAsSent, Zenon
      <3> QED
        BY <1>2, <2>3, <2>4, <3>1, Zenon
    <2> QED
      BY <2>5, <2>6
  <1>8. ASSUME got[1] = "Msg" PROVE Msg_deserialize(Msg_serialize(got[2])) = Ok(got[2], <<>>)
    <2> DEFINE x == got[2]
               w == Msg_serialize(x)
    <2>1. x \in Msg
      <3>1. Msg_deserialize(wire).ok /\ x = Msg_deserialize(wire).val
        BY <1>2, <1>8, OutcomeReads, Zenon
      <3>2. PICK v \in Msg, r \in Streams : Msg_deserialize(wire) = Ok(v, r)
        BY <1>2, <3>1, MsgCodec DEF Codec, Reads
      <3> HIDE DEF x
      <3> QED
        BY <3>1, <3>2, Results
    <2>2. w \in Streams /\ Msg_deserialize(w \o <<>>) = Ok(x, <<>>)
      <3> HIDE DEF x
      <3> QED
        BY <1>3, <2>1, MsgCodec DEF Codec, Writes
    <2>3. w \o <<>> = w
      <3> HIDE DEF w
      <3> QED
        BY <2>2, Cat
    <2> QED
      BY <2>2, <2>3, Zenon
  <1>9. ASSUME got[1] = "Aborted" PROVE fault = "garbled"
    <2>1. NoRoom(wire)
      BY <1>2, <1>9, OutcomeReads, Zenon
    <2> QED
      BY <1>2, <1>5, <1>7, <2>1
  <1> HIDE DEF b
  <1> QED
    BY <1>2, <1>6, <1>7, <1>8, <1>9

\* What is accepted is a value of the formats.
LEMMA AcceptedIsMsg ==
  ASSUME WireInv, got # <<>>, got[1] = "Msg"
  PROVE  got[2] \in Msg /\ sent[1] \in Messages
  <1>1. PICK m \in Messages : sent = <<m>>
    BY DEF WireInv
  <1>2. got = Outcome(sent[1], wire) /\ wire \in Streams
    BY DEF WireInv
  <1>3. Msg_deserialize(wire).ok /\ got[2] = Msg_deserialize(wire).val
    BY <1>2, OutcomeReads, Zenon
  <1>4. PICK v \in Msg, r \in Streams : Msg_deserialize(wire) = Ok(v, r)
    BY <1>2, <1>3, MsgCodec DEF Codec, Reads
  <1>5. got[2] = v
    BY <1>3, <1>4, Results
  <1> QED
    BY <1>1, <1>5

\* The transaction of a broadcast, and the block of a response.
LEMMA Broadcasts ==
  ASSUME NEW m \in Msg \cup OversizedMsg, m.body.type = "Request", m.body.val.type = "Broadcast"
  PROVE  \E S : m.body.val.val \in TxSignedBy(S)
  <1>1. CASE m \in Msg
    <2>1. m.body \in Body
      BY <1>1 DEF Msg
    <2>2. m.body.val \in Request
      BY <2>1 DEF Body, EnumOf
    <2>3. m.body.val.val \in Tx
      BY <2>2 DEF Request, EnumOf
    <2> QED
      BY <2>3 DEF Tx
  <1>2. CASE m \in OversizedMsg
    <2>1. m.body.val \in OversizedRequest
      BY <1>2 DEF OversizedMsg, EnumOf
    <2>2. m.body.val.val \in TxSignedBy({sigs \in Seq(SigPair) : Len(sigs) >= BYTE})
      BY <2>1 DEF OversizedRequest, EnumOf
    <2> QED
      BY <2>2
  <1> QED
    BY <1>1, <1>2

LEMMA FullBlocks ==
  ASSUME NEW m \in Msg \cup OversizedMsg, m.body.type = "Response",
         m.body.val.type = "GetFullBlock"
  PROVE  /\ m.body.val.val.receipts \in Seq(Receipt)
         /\ m.body.val.val.header \in BlockHeader
  <1>1. m \in Msg
    BY DEF OversizedMsg, EnumOf
  <1>2. m.body \in Body
    BY <1>1 DEF Msg
  <1>3. m.body.val \in Response
    BY <1>2 DEF Body, EnumOf
  <1>4. m.body.val.val \in Block
    BY <1>3 DEF Response, EnumOf
  <1> DEFINE x == m.body.val.val
  <1> HIDE DEF x
  <1>5. x \in Block
    BY <1>4 DEF x
  <1>6. x.header \in BlockHeader /\ x.receipts \in List(Receipt, INT)
    BY <1>5 DEF Block
  <1>7. x.receipts \in Seq(Receipt)
    BY <1>6 DEF List
  <1> QED
    BY <1>6, <1>7 DEF x

LEMMA WireHashes == WireInv => HashTellsApart
  <1> DEFINE a == sent[1].body
             b == got[2].body
  <1>1. ASSUME WireInv, got # <<>>, got[1] = "Msg", b.type = a.type, a.type = "Request",
               a.val.type = "Broadcast", b.val.type = "Broadcast"
        PROVE  calc_txid(a.val.val) = calc_txid(b.val.val)
                  <=> WithoutSigs(a.val.val) = WithoutSigs(b.val.val)
    <2>1. sent[1] \in Msg \cup OversizedMsg /\ got[2] \in Msg \cup OversizedMsg
      BY <1>1, AcceptedIsMsg, MessagesAssumption
    <2>2. PICK S1 : a.val.val \in TxSignedBy(S1)
      BY <1>1, <2>1, Broadcasts
    <2>3. PICK S2 : b.val.val \in TxSignedBy(S2)
      BY <1>1, <2>1, Broadcasts
    <2> HIDE DEF a, b
    <2> QED
      BY <2>2, <2>3, TxidTellsApart
  <1>2. ASSUME WireInv, got # <<>>, got[1] = "Msg", b.type = a.type, a.type = "Response",
               a.val.type = "GetFullBlock", b.val.type = "GetFullBlock"
        PROVE  /\ calc_receipt_root(a.val.val.receipts) = calc_receipt_root(b.val.val.receipts)
                     <=> a.val.val.receipts = b.val.val.receipts
               /\ calc_header_hash(a.val.val.header) = calc_header_hash(b.val.val.header)
                     <=> a.val.val.header = b.val.val.header
    <2>1. sent[1] \in Msg \cup OversizedMsg /\ got[2] \in Msg \cup OversizedMsg
      BY <1>2, AcceptedIsMsg, MessagesAssumption
    <2>2. a.val.val.receipts \in Seq(Receipt) /\ a.val.val.header \in BlockHeader
      BY <1>2, <2>1, FullBlocks
    <2>3. b.val.val.receipts \in Seq(Receipt) /\ b.val.val.header \in BlockHeader
      BY <1>2, <2>1, FullBlocks
    <2> HIDE DEF a, b
    <2> QED
      BY <2>2, <2>3, ReceiptRootTellsApart, HeaderTellsApart
  <1> HIDE DEF a, b
  <1>3. ASSUME WireInv, got # <<>>, got[1] = "Msg", b.type = a.type
        PROVE  /\ a.type = "Request" /\ a.val.type = "Broadcast" /\ b.val.type = "Broadcast" =>
                     (calc_txid(a.val.val) = calc_txid(b.val.val)
                          <=> WithoutSigs(a.val.val) = WithoutSigs(b.val.val))
               /\ a.type = "Response" /\ a.val.type = "GetFullBlock"
                     /\ b.val.type = "GetFullBlock" =>
                     LET x == a.val.val
                         y == b.val.val
                     IN  /\ calc_receipt_root(x.receipts) = calc_receipt_root(y.receipts)
                               <=> x.receipts = y.receipts
                         /\ calc_header_hash(x.header) = calc_header_hash(y.header)
                               <=> x.header = y.header
    BY <1>1, <1>2, <1>3, Zenon
  <1> QED
    BY <1>3, Zenon DEF HashTellsApart, a, b

\* A message that arrives as it was sent is read as it was written, by
\* Msg::deserialize and the rule of process_ws_msg that nothing may follow; one
\* whose count was cut to its low bits is never taken for a shorter message.
THEOREM MessagesAreReadAsWritten == FormatsSpec => []RoundTrip
  <1>1. WireInv => RoundTrip
    BY WireRoundTrip
  <1> QED
    BY <1>1, WireInvariant, PTL

\* What the node and the wallet make of a message that was cut, extended or
\* damaged: no part of it is taken for a message, the node refuses what is
\* longer, and only changed bytes can leave no room for a block's receipts.
THEOREM DamageIsNoticed == FormatsSpec => []DamagedInput
  <1>1. WireInv => DamagedInput
    BY WireDamaged
  <1> QED
    BY <1>1, WireInvariant, PTL

\* The bytes that calc_txid, calc_receipt_root and calc_header_hash hash are
\* those of one transaction but for its signatures, of one list of receipts and
\* of one header.
THEOREM HashesTellApart == FormatsSpec => []HashTellsApart
  <1>1. WireInv => HashTellsApart
    BY WireHashes
  <1> QED
    BY <1>1, WireInvariant, PTL
=============================================================================
