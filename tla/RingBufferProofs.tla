-------------------------- MODULE RingBufferProofs --------------------------
(***************************************************************************)
(* For every capacity and every way the output is cut into writes, the     *)
(* ring buffer reads back as the last Capacity bytes written (KeepsTail).  *)
(*                                                                         *)
(* Both sides are compared from the newest byte back: Nth(d) is where the  *)
(* buffer holds the byte that d later ones follow, and a write of n bytes  *)
(* moves each byte from distance d to distance d + n.                      *)
(*                                                                         *)
(* last_n_lines gives what it promises for every n, whatever is held: one  *)
(* newline more or less at a time, the count of those from a position on   *)
(* passes n + 1 somewhere, if it exceeds n at all (by SetInduction).       *)
(***************************************************************************)
EXTENDS RingBuffer, SequenceTheorems, FiniteSetTheorems, InductionLemmas, TLAPS

(* The index of the byte d places before the newest. *)
Nth(d) == IF write_pos - 1 - d >= 0 THEN write_pos - 1 - d
                                    ELSE write_pos - 1 - d + Capacity

(* The remainder of a sum of two numbers that are at most the divisor.     *)
LEMMA ModOnce ==
    ASSUME NEW c \in Nat \ {0}, NEW a \in Nat, a < c + c
    PROVE  a % c = IF a < c THEN a ELSE a - c
<1>1. CASE a < c
  BY <1>1, SMT
<1>2. CASE ~(a < c)
  BY <1>2, SMT
<1>3. QED
  BY <1>1, <1>2

(* A slice is a sequence of bytes. *)
LEMMA SliceIsSeq ==
    ASSUME RingAssumption, RingTypeOK,
           NEW from \in Nat, NEW to \in 0 .. Capacity, from <= to
    PROVE  /\ Slice(from, to) \in Seq(Byte)
           /\ Len(Slice(from, to)) = to - from
           /\ \A k \in 1 .. to - from : Slice(from, to)[k] = buf[from + k - 1]
<1>1. ASSUME NEW k \in 1 .. to - from
      PROVE  buf[from + k - 1] \in Byte
  <2>1. Capacity \in Nat /\ from + k - 1 \in 0 .. Capacity - 1
    BY DEF RingAssumption
  <2>2. QED
    BY <2>1 DEF RingTypeOK
<1>2. Slice(from, to) \in [1 .. to - from -> Byte]
  BY <1>1 DEF Slice
<1>3. to - from \in Nat
  BY DEF RingAssumption
<1>4. \A k \in 1 .. to - from : Slice(from, to)[k] = buf[from + k - 1]
  BY DEF Slice
<1> HIDE DEF Slice
<1>5. Slice(from, to) \in Seq(Byte)
  BY <1>2, <1>3, SeqDef
<1>6. Len(Slice(from, to)) = to - from
  BY <1>2, <1>3, <1>5, LenProperties
<1>7. QED
  BY <1>4, <1>5, <1>6

(* What the two slices give: len bytes, the newest last. *)
FromEnd ==
    /\ AllBytes \in Seq(Byte)
    /\ Len(AllBytes) = len
    /\ \A d \in 0 .. len - 1 : AllBytes[len - d] = buf[Nth(d)]

(* The slices give that in every state of the right type... *)
LEMMA AllBytesFromEnd ==
    ASSUME RingAssumption, RingTypeOK
    PROVE  FromEnd
<1>0. /\ Capacity \in Nat /\ len \in Nat /\ len <= Capacity
      /\ write_pos \in 0 .. Capacity
      /\ Capacity # 0 => write_pos < Capacity
  BY DEF RingAssumption, RingTypeOK
<1> USE DEF FromEnd
<1>1. CASE len = 0
  BY <1>1 DEF AllBytes
<1>2. CASE len # 0 /\ len < Capacity /\ Start < write_pos
  <2> DEFINE held == Slice(Start, write_pos)
  <2>1. Start = write_pos - len /\ Start \in Nat /\ Start <= write_pos
    BY <1>0, <1>2 DEF Start
  <2>2. AllBytes = held
    BY <1>2 DEF AllBytes
  <2>3. /\ held \in Seq(Byte) /\ Len(held) = write_pos - Start
        /\ \A k \in 1 .. write_pos - Start : held[k] = buf[Start + k - 1]
    BY <1>0, <2>1, SliceIsSeq
  <2> HIDE DEF held
  <2>4. QED
    BY <1>0, <2>1, <2>2, <2>3 DEF Nth
<1>3. CASE len # 0 /\ ~(len < Capacity /\ Start < write_pos)
  <2> DEFINE older == Slice(Start, Capacity)
             newer == Slice(0, write_pos)
  <2>1. Start = write_pos - len + Capacity /\ Start \in 0 .. Capacity
    BY <1>0, <1>3 DEF Start
  <2>2. /\ older \in Seq(Byte) /\ Len(older) = Capacity - Start
        /\ \A k \in 1 .. Capacity - Start : older[k] = buf[Start + k - 1]
    <3>1. Start \in Nat /\ Start <= Capacity /\ Capacity \in 0 .. Capacity
      BY <1>0, <2>1
    <3>2. QED
      BY <3>1, SliceIsSeq
  <2>3. /\ newer \in Seq(Byte) /\ Len(newer) = write_pos
        /\ \A k \in 1 .. write_pos : newer[k] = buf[k - 1]
    <3>1. 0 \in Nat /\ 0 <= write_pos /\ write_pos - 0 = write_pos
      BY <1>0
    <3>2. /\ newer \in Seq(Byte) /\ Len(newer) = write_pos - 0
          /\ \A k \in 1 .. write_pos - 0 : newer[k] = buf[0 + k - 1]
      BY <1>0, <3>1, SliceIsSeq
    <3>3. QED
      BY <1>0, <3>1, <3>2
  <2>4. AllBytes = older \o newer
    BY <1>3 DEF AllBytes
  <2> HIDE DEF older, newer
  <2> DEFINE o == Capacity - Start
  <2>0. /\ Capacity \in Nat /\ Start \in Nat /\ o \in Nat
        /\ write_pos \in Nat /\ len \in Nat /\ o + write_pos = len
    BY <1>0, <1>3, <2>1
  <2> HIDE DEF o
  <2>5. AllBytes \in Seq(Byte) /\ Len(AllBytes) = len
    <3>1. Len(older) = o /\ Len(newer) = write_pos
      BY <2>2, <2>3 DEF o
    <3>2. QED
      BY <2>0, <2>2, <2>3, <2>4, <3>1, ConcatProperties
  <2>6. ASSUME NEW d \in 0 .. len - 1
        PROVE  AllBytes[len - d] = buf[Nth(d)]
    <3>1. /\ len - d \in 1 .. o + write_pos
          /\ Len(older) = o /\ Len(newer) = write_pos
      BY <2>0, <2>2, <2>3 DEF o
    <3>2. AllBytes[len - d] =
             IF len - d <= o THEN older[len - d] ELSE newer[len - d - o]
      BY <2>2, <2>3, <2>4, <3>1, ConcatProperties
    <3>3. CASE len - d <= o
      <4>1. len - d \in 1 .. Capacity - Start /\ Nth(d) = Start + (len - d) - 1
        BY <2>0, <3>1, <3>3 DEF Nth, o
      <4>2. QED
        BY <2>2, <3>2, <3>3, <4>1
    <3>4. CASE ~(len - d <= o)
      <4>1. len - d - o \in 1 .. write_pos /\ Nth(d) = (len - d - o) - 1
        BY <2>0, <3>1, <3>4 DEF Nth
      <4>2. QED
        BY <2>3, <3>2, <3>4, <4>1
    <3>5. QED
      BY <3>3, <3>4
  <2>7. QED
    BY <2>5, <2>6
<1>4. QED
  BY <1>1, <1>2, <1>3

(* ... and so also in the state after a step. *)
LEMMA AllBytesFromEndNext == RingTypeOK' => FromEnd'
<1>1. RingTypeOK => FromEnd
  BY RingAssumption, AllBytesFromEnd
<1>2. QED
  BY <1>1, PTL

-----------------------------------------------------------------------------

(* The lengths and types a write leaves behind. *)
LEMMA WriteKeepsType ==
    ASSUME RingAssumption, RingTypeOK, NEW data \in Seq(Byte), Write(data)
    PROVE  RingTypeOK'
<1> USE DEF RingAssumption, RingTypeOK
<1>1. CASE Capacity = 0
  BY <1>1 DEF Write, ring
<1>2. CASE Capacity # 0
  <2> DEFINE kept == Kept(data)
  <2>1. kept \in Seq(Byte) /\ Len(kept) \in 0 .. Capacity
    BY <1>2, SubSeqProperties DEF Kept
  <2>2. \A k \in 1 .. Len(kept) : kept[k] \in Byte
    BY <2>1, ElementOfSeq
  <2> HIDE DEF kept
  <2>3. /\ buf' = Copied(kept) /\ write_pos' = Advance(kept) /\ len' = Grown(kept)
    BY <1>2 DEF Write, kept
  <2>4. Copied(kept) \in [0 .. Capacity - 1 -> Byte]
    BY <1>2, <2>1, <2>2 DEF Copied
  <2>5. Advance(kept) \in 0 .. Capacity - 1
    BY <1>2, <2>1, ModOnce DEF Advance
  <2>6. Grown(kept) \in 0 .. Capacity
    BY <1>2, <2>1 DEF Grown
  <2>7. QED
    BY <1>2, <2>3, <2>4, <2>5, <2>6
<1>3. QED
  BY <1>1, <1>2

(* A write appends to what the buffer reads back as, and drops the oldest. *)
LEMMA WriteKeepsLast ==
    ASSUME RingAssumption, RingTypeOK, NEW data \in Seq(Byte), Write(data)
    PROVE  AllBytes' = Scroll!LastOf(Capacity, AllBytes \o data)
<1> USE DEF RingAssumption, RingTypeOK
<1> DEFINE all == AllBytes \o data
           n   == Len(AllBytes) + Len(data)
           m   == IF n > Capacity THEN Capacity ELSE n
           kept == Kept(data)
<1>1. RingTypeOK'
  BY WriteKeepsType
<1>2. AllBytes \in Seq(Byte) /\ Len(AllBytes) = len
  BY AllBytesFromEnd DEF FromEnd
<1>3. /\ all \in Seq(Byte) /\ Len(all) = n
      /\ \A k \in 1 .. n : all[k] = IF k <= len THEN AllBytes[k] ELSE data[k - len]
  BY <1>2, ConcatProperties
<1>4. m \in 0 .. Capacity /\ m <= n /\ n \in Nat
  BY <1>2
<1>5. /\ Scroll!LastOf(Capacity, all) \in Seq(Byte)
      /\ Len(Scroll!LastOf(Capacity, all)) = m
      /\ \A d \in 0 .. m - 1 : Scroll!LastOf(Capacity, all)[m - d] = all[n - d]
  <2> HIDE DEF all
  <2>1. CASE n > Capacity
    <3> DEFINE last == SubSeq(all, n - Capacity + 1, n)
    <3>1. Scroll!LastOf(Capacity, all) = last
      BY <1>3, <2>1 DEF Scroll!LastOf
    <3>2. n - Capacity + 1 \in 1 .. n + 1 /\ n \in 1 - 1 .. n /\ m = Capacity
      BY <1>4, <2>1
    <3>3. /\ last \in Seq(Byte) /\ Len(last) = Capacity
          /\ \A k \in 1 .. Capacity : last[k] = all[n - Capacity + k]
      BY <1>3, <1>4, <2>1, <3>2, SubSeqProperties
    <3> HIDE DEF last, n, m
    <3>4. ASSUME NEW d \in 0 .. m - 1
          PROVE  last[m - d] = all[n - d]
      <4>1. m - d \in 1 .. Capacity /\ n - Capacity + (m - d) = n - d
        BY <1>4, <3>2
      <4>2. QED
        BY <3>3, <4>1
    <3>5. QED
      BY <3>1, <3>2, <3>3, <3>4
  <2>2. CASE ~(n > Capacity)
    BY <1>3, <1>4, <2>2 DEF Scroll!LastOf
  <2>3. QED
    BY <2>1, <2>2
<1>6. /\ AllBytes' \in Seq(Byte)
      /\ Len(AllBytes') = m
      /\ \A d \in 0 .. m - 1 : AllBytes'[m - d] = all[n - d]
  <2>1. Capacity = 0 \/ Capacity \in Nat \ {0}
    OBVIOUS
  <2>2. CASE Capacity = 0
    <3>1. len = 0 /\ len' = 0 /\ m = 0
      BY <1>4, <2>2 DEF Write, ring
    <3>2. QED
      BY <3>1, <2>2, <1>1 DEF AllBytes
  <2>3. CASE Capacity \in Nat \ {0}
    <3>1. /\ kept \in Seq(Byte)
          /\ Len(kept) = IF Len(data) > Capacity THEN Capacity ELSE Len(data)
          /\ \A d \in 0 .. Len(kept) - 1 : kept[Len(kept) - d] = data[Len(data) - d]
      <4>1. CASE Len(data) > Capacity
        <5>1. kept = SubSeq(data, Len(data) - Capacity + 1, Len(data))
          BY <4>1 DEF Kept
        <5>2. \A k \in Len(data) - Capacity + 1 .. Len(data) : data[k] \in Byte
          BY <4>1, ElementOfSeq
        <5>3. /\ kept \in Seq(Byte) /\ Len(kept) = Capacity
              /\ \A k \in 1 .. Capacity : kept[k] = data[Len(data) - Capacity + k]
          BY <4>1, <5>1, <5>2, SubSeqProperties
        <5> HIDE DEF kept
        <5>4. QED
          BY <4>1, <5>3
      <4>2. CASE ~(Len(data) > Capacity)
        BY <4>2 DEF Kept
      <4>3. QED
        BY <4>1, <4>2
    <3> HIDE DEF kept
    <3>2. /\ buf' = Copied(kept) /\ write_pos' = Advance(kept) /\ len' = Grown(kept)
      BY <2>3 DEF Write, kept
    <3>3. len' = m
      BY <1>2, <2>3, <3>1, <3>2 DEF Grown
    <3>4. write_pos' = IF write_pos + Len(kept) < Capacity
                       THEN write_pos + Len(kept)
                       ELSE write_pos + Len(kept) - Capacity
      <4>1. /\ write_pos + Len(kept) \in Nat
            /\ write_pos + Len(kept) < Capacity + Capacity
        BY <2>3, <3>1
      <4> DEFINE a == write_pos + Len(kept)
      <4>2. a % Capacity = IF a < Capacity THEN a ELSE a - Capacity
        <5> HIDE DEF a
        <5>1. a \in Nat /\ a < Capacity + Capacity
          BY <4>1 DEF a
        <5>2. QED
          BY ONLY <2>3, <5>1, ModOnce
      <4>3. write_pos' = a % Capacity
        BY <3>2 DEF Advance
      <4>4. QED
        BY <4>2, <4>3
    <3>5. /\ AllBytes' \in Seq(Byte)
          /\ Len(AllBytes') = m
          /\ \A d \in 0 .. m - 1 : AllBytes'[m - d] = buf'[Nth(d)']
      BY <1>1, <3>3, AllBytesFromEndNext DEF FromEnd
    <3>6. ASSUME NEW d \in 0 .. m - 1, d < Len(kept)
          PROVE  buf'[Nth(d)'] = kept[Len(kept) - d]
      <4> DEFINE i == Nth(d)'
                 K == Len(kept)
      <4>1. K \in 0 .. Capacity /\ d \in 0 .. K - 1
        BY <2>3, <3>1, <3>6
      <4>2. /\ i \in 0 .. Capacity - 1
            /\ \/ i >= write_pos /\ i - write_pos + 1 = K - d
               \/ /\ i < write_pos /\ i < K - (Capacity - write_pos)
                  /\ Capacity - write_pos + i + 1 = K - d
        <5>1. i = IF write_pos' - 1 - d >= 0 THEN write_pos' - 1 - d
                                             ELSE write_pos' - 1 - d + Capacity
          BY DEF Nth
        <5>2. write_pos' = IF write_pos + K < Capacity THEN write_pos + K
                                                       ELSE write_pos + K - Capacity
          BY <3>4
        <5>3. Capacity \in Nat /\ write_pos \in 0 .. Capacity - 1
          BY <2>3
        <5> HIDE DEF i, K
        <5>4. QED
          BY ONLY <4>1, <5>1, <5>2, <5>3
      <4>3. Copied(kept)[i] = kept[K - d]
        <5> HIDE DEF i, K
        <5>1. Len(kept) = K
          BY DEF K
        <5>2. QED
          BY <2>3, <4>1, <4>2, <5>1 DEF Copied
      <4>4. QED
        BY <3>2, <4>3
    <3>7. ASSUME NEW d \in 0 .. m - 1, ~(d < Len(kept))
          PROVE  buf'[Nth(d)'] = buf[Nth(d - Len(kept))]
      <4> DEFINE i == Nth(d)'
                 K == Len(kept)
      <4>1. K \in 0 .. Capacity /\ d \in K .. Capacity - 1
        BY <1>4, <2>3, <3>1, <3>7
      <4>2. /\ i \in 0 .. Capacity - 1
            /\ i = Nth(d - K)
            /\ ~(i >= write_pos /\ i - write_pos < K)
            /\ ~(i < K - (Capacity - write_pos))
        <5>1. i = IF write_pos' - 1 - d >= 0 THEN write_pos' - 1 - d
                                             ELSE write_pos' - 1 - d + Capacity
          BY DEF Nth
        <5>2. write_pos' = IF write_pos + K < Capacity THEN write_pos + K
                                                       ELSE write_pos + K - Capacity
          BY <3>4
        <5>3. Capacity \in Nat /\ write_pos \in 0 .. Capacity - 1
          BY <2>3
        <5>4. Nth(d - K) = IF write_pos - 1 - (d - K) >= 0
                           THEN write_pos - 1 - (d - K)
                           ELSE write_pos - 1 - (d - K) + Capacity
          BY DEF Nth
        <5> HIDE DEF i, K
        <5>5. QED
          BY ONLY <4>1, <5>1, <5>2, <5>3, <5>4
      <4>3. Copied(kept)[i] = buf[i]
        <5> HIDE DEF i, K
        <5>1. Len(kept) = K
          BY DEF K
        <5>2. QED
          BY <2>3, <4>1, <4>2, <5>1 DEF Copied
      <4>4. QED
        BY <3>2, <4>2, <4>3
    <3>8. ASSUME NEW d \in 0 .. m - 1
          PROVE  AllBytes'[m - d] = all[n - d]
      <4>1. AllBytes'[m - d] = buf'[Nth(d)'] /\ n - d \in 1 .. n
        BY <1>4, <3>5
      <4>2. CASE d < Len(kept)
        <5>1. /\ d \in 0 .. Len(kept) - 1
              /\ n - d > len /\ n - d - len = Len(data) - d
          BY <1>2, <3>1, <4>2
        <5>2. QED
          BY <1>3, <3>1, <3>6, <4>1, <4>2, <5>1
      <4>3. CASE ~(d < Len(kept))
        <5>1. /\ Len(kept) = Len(data)
              /\ d - Len(kept) \in 0 .. len - 1
              /\ n - d = len - (d - Len(kept))
          BY <1>2, <1>4, <3>1, <4>3
        <5>2. AllBytes[len - (d - Len(kept))] = buf[Nth(d - Len(kept))]
          BY <5>1, AllBytesFromEnd DEF FromEnd
        <5>3. n - d <= len
          BY <1>2, <5>1
        <5>4. QED
          BY <1>3, <3>7, <4>1, <4>3, <5>1, <5>2, <5>3
      <4>4. QED
        BY <4>2, <4>3
    <3>9. QED
      BY <3>5, <3>8
  <2>4. QED
    BY <2>1, <2>2, <2>3
<1>7. QED
  <2> DEFINE u == AllBytes'
             v == Scroll!LastOf(Capacity, all)
  <2> HIDE DEF all, u, v, n, m
  <2>1. u \in Seq(Byte) /\ v \in Seq(Byte) /\ Len(u) = m /\ Len(v) = m
    BY <1>5, <1>6 DEF u, v
  <2>2. \A d \in 0 .. m - 1 : u[m - d] = v[m - d]
    BY <1>5, <1>6 DEF u, v
  <2>3. ASSUME NEW k \in 1 .. m
        PROVE  u[k] = v[k]
    <3>1. m - k \in 0 .. m - 1 /\ m - (m - k) = k
      BY <1>4
    <3>2. QED
      BY <2>2, <3>1
  <2>4. u = v
    BY <2>1, <2>3, SeqEqual
  <2>5. QED
    BY <2>4 DEF u, v, all

-----------------------------------------------------------------------------

(* Type correctness: write_pos stays inside the buffer, len never exceeds  *)
(* it, for every capacity, 0 included, and every size of write.            *)
THEOREM RingTypeCorrect == RingSpec => []RingTypeOK
<1>1. RingInit => RingTypeOK
  BY RingAssumption DEF RingAssumption, RingInit, RingTypeOK
<1>2. RingTypeOK /\ [\E data \in Chunks : Write(data)]_ring => RingTypeOK'
  <2>1. ASSUME RingTypeOK, NEW data \in Chunks, Write(data)
        PROVE  RingTypeOK'
    BY <2>1, RingAssumption, WriteKeepsType DEF RingAssumption
  <2>2. ASSUME RingTypeOK, UNCHANGED ring
        PROVE  RingTypeOK'
    BY <2>2 DEF RingTypeOK, ring
  <2>3. QED
    BY <2>1, <2>2
<1>3. QED
  BY <1>1, <1>2, PTL DEF RingSpec

(* The buffer implements the scrollback: a write is one Keep of the        *)
(* abstract specification (ringbuf.rs:18-43 read back by all_bytes).       *)
THEOREM RingKeepsTail == RingSpec => KeepsTail
<1>1. RingInit => Scroll!Init
  BY DEF RingInit, Scroll!Init, AllBytes
<1>2. RingTypeOK /\ [\E data \in Chunks : Write(data)]_ring
         => [\E data \in Chunks : Scroll!Keep(data)]_AllBytes
  <2>1. ASSUME RingTypeOK, NEW data \in Chunks, Write(data)
        PROVE  Scroll!Keep(data)
    BY <2>1, RingAssumption, WriteKeepsLast DEF RingAssumption, Scroll!Keep
  <2>2. ASSUME UNCHANGED ring
        PROVE  UNCHANGED AllBytes
    BY <2>2 DEF ring, AllBytes, Start, Slice
  <2>3. QED
    BY <2>1, <2>2
<1>3. QED
  BY <1>1, <1>2, RingTypeCorrect, PTL DEF RingSpec, KeepsTail, Scroll!Spec

-----------------------------------------------------------------------------
(* Lines, counted back from the end. *)

(* Counting newlines from position i on: none past the end, and one more   *)
(* than from the next position if there is one at i.                       *)
LEMMA NewlinesCounted ==
    ASSUME NEW s \in Seq(Byte)
    PROVE  /\ \A i \in 1 .. Len(s) + 1 : /\ IsFiniteSet(NewlinesFrom(s, i))
                                         /\ Cardinality(NewlinesFrom(s, i)) \in Nat
           /\ Cardinality(NewlinesFrom(s, Len(s) + 1)) = 0
           /\ \A i \in 1 .. Len(s) :
                Cardinality(NewlinesFrom(s, i)) =
                  IF s[i] = Newline THEN Cardinality(NewlinesFrom(s, i + 1)) + 1
                                    ELSE Cardinality(NewlinesFrom(s, i + 1))
<1>1. Len(s) \in Nat
  BY LenProperties
<1>2. ASSUME NEW i \in 1 .. Len(s) + 1
      PROVE  IsFiniteSet(NewlinesFrom(s, i)) /\ Cardinality(NewlinesFrom(s, i)) \in Nat
  <2>1. IsFiniteSet(i .. Len(s)) /\ NewlinesFrom(s, i) \in SUBSET (i .. Len(s))
    BY <1>1, FS_Interval DEF NewlinesFrom
  <2>2. IsFiniteSet(NewlinesFrom(s, i))
    BY <2>1, FS_Subset
  <2>3. QED
    BY <2>2, FS_CardinalityType
<1>3. NewlinesFrom(s, Len(s) + 1) = {}
  BY <1>1 DEF NewlinesFrom
<1>4. ASSUME NEW i \in 1 .. Len(s)
      PROVE  Cardinality(NewlinesFrom(s, i)) =
                  IF s[i] = Newline THEN Cardinality(NewlinesFrom(s, i + 1)) + 1
                                    ELSE Cardinality(NewlinesFrom(s, i + 1))
  <2>1. i \notin NewlinesFrom(s, i + 1) /\ IsFiniteSet(NewlinesFrom(s, i + 1))
    <3>1. i + 1 \in 1 .. Len(s) + 1
      BY <1>1
    <3>2. QED
      BY <1>1, <1>2, <3>1 DEF NewlinesFrom
  <2>2. CASE s[i] = Newline
    <3>1. NewlinesFrom(s, i) = NewlinesFrom(s, i + 1) \cup {i}
      BY <1>1, <2>2 DEF NewlinesFrom
    <3>2. QED
      BY <2>1, <2>2, <3>1, FS_AddElement
  <2>3. CASE s[i] # Newline
    <3>1. NewlinesFrom(s, i) = NewlinesFrom(s, i + 1)
      BY <1>1, <2>3 DEF NewlinesFrom
    <3>2. QED
      BY <2>3, <3>1
  <2>4. QED
    BY <2>2, <2>3
<1>5. QED
  BY <1>2, <1>3, <1>4, FS_EmptySet

(* With more than n newlines there is a place to cut: going back from the  *)
(* end, their number passes n somewhere.                                   *)
LEMMA CutExists ==
    ASSUME NEW s \in Seq(Byte), NEW n \in Nat,
           Cardinality(NewlinesFrom(s, 1)) > n
    PROVE  Cut(s, n) # {}
<1> DEFINE count(i) == Cardinality(NewlinesFrom(s, i))
           size == Len(s)
           T == {k \in Nat : k <= size /\ count(size + 1 - k) > n => Cut(s, n) # {}}
<1>1. /\ size \in Nat /\ count(size + 1) = 0
      /\ \A i \in 1 .. size + 1 : count(i) \in Nat
      /\ \A i \in 1 .. size :
            count(i) = IF s[i] = Newline THEN count(i + 1) + 1 ELSE count(i + 1)
  BY NewlinesCounted, LenProperties
<1>2. \A i \in 1 .. size : s[i] = Newline /\ count(i) = n + 1 => i \in Cut(s, n)
  <2>1. ASSUME NEW i \in 1 .. size, s[i] = Newline, count(i) = n + 1
        PROVE  i \in Cut(s, n)
    BY <1>1, <2>1 DEF Cut, NewlinesFrom
  <2>2. QED
    BY <2>1
<1> HIDE DEF count, size
<1>3. 0 \in T
  BY <1>1
<1>4. ASSUME NEW k \in Nat, k \in T
      PROVE  k + 1 \in T
  <2>1. SUFFICES ASSUME k + 1 <= size, count(size + 1 - (k + 1)) > n
                 PROVE  Cut(s, n) # {}
    OBVIOUS
  <2> DEFINE i == size - k
  <2>2. i \in 1 .. size /\ i + 1 = size + 1 - k /\ i = size + 1 - (k + 1)
        /\ i + 1 \in 1 .. size + 1
    BY <1>1, <2>1
  <2>3. count(i) > n
    BY <2>1, <2>2
  <2> HIDE DEF i
  <2>4. CASE count(i + 1) > n
    BY <1>1, <1>4, <2>1, <2>2, <2>4
  <2>5. CASE ~(count(i + 1) > n)
    <3>1. s[i] = Newline /\ count(i) = n + 1
      BY <1>1, <2>2, <2>3, <2>5
    <3>2. QED
      BY <1>2, <2>2, <3>1
  <2>6. QED
    BY <2>4, <2>5
<1>5. size \in T
  <2> HIDE DEF T
  <2>1. QED
    BY <1>1, <1>3, <1>4, SetInduction
<1>6. size + 1 - size = 1 /\ count(1) > n
  BY <1>1 DEF count
<1>7. QED
  BY <1>1, <1>5, <1>6

(* The newlines of what follows position i are those of s after it. *)
LEMMA NewlinesAfter ==
    ASSUME NEW s \in Seq(Byte), NEW i \in 0 .. Len(s)
    PROVE  LET rest == SubSeq(s, i + 1, Len(s))
           IN  /\ rest \in Seq(Byte) /\ Len(rest) = Len(s) - i
               /\ \A k \in 1 .. Len(s) - i : rest[k] = s[i + k]
               /\ Cardinality(NewlinesFrom(rest, 1)) = Cardinality(NewlinesFrom(s, i + 1))
<1> DEFINE size == Len(s)
           rest == SubSeq(s, i + 1, size)
           old == NewlinesFrom(s, i + 1)
           new == NewlinesFrom(rest, 1)
           f == [j \in old |-> j - i]
<1>1. size \in Nat /\ i \in Nat /\ i <= size
  BY LenProperties
<1>2. \A k \in i + 1 .. size : s[k] \in Byte
  BY <1>1, ElementOfSeq
<1>3. /\ rest \in Seq(Byte) /\ Len(rest) = size - i
      /\ \A k \in 1 .. size - i : rest[k] = s[i + k]
  <2>1. i + 1 \in Int /\ size \in Int
    BY <1>1
  <2>2. /\ rest \in Seq(Byte)
        /\ Len(rest) = IF i + 1 <= size THEN size - (i + 1) + 1 ELSE 0
        /\ \A k \in 1 .. size - (i + 1) + 1 : rest[k] = s[(i + 1) + k - 1]
    BY <1>2, <2>1, SubSeqProperties
  <2> HIDE DEF rest, size
  <2>3. QED
    BY <1>1, <2>2
<1>4. /\ old = {j \in i + 1 .. size : s[j] = Newline}
      /\ new = {k \in 1 .. size - i : rest[k] = Newline}
  BY <1>3 DEF NewlinesFrom
<1>5. IsFiniteSet(old)
  <2>1. i + 1 \in 1 .. size + 1
    BY <1>1
  <2>2. QED
    BY <2>1, NewlinesCounted
<1> HIDE DEF rest, size, old, new
<1>6. f \in Bijection(old, new)
  <2>1. f \in [old -> new]
    BY <1>1, <1>3, <1>4
  <2>2. \A a, b \in old : f[a] = f[b] => a = b
    BY <1>1, <1>4
  <2>3. ASSUME NEW k \in new
        PROVE  \E j \in old : f[j] = k
    <3>1. i + k \in old /\ f[i + k] = k
      BY <1>1, <1>3, <1>4
    <3>2. QED
      BY <3>1
  <2>4. QED
    BY <2>1, <2>2, <2>3 DEF Bijection, Injection, Surjection, IsInjective
<1>7. Cardinality(new) = Cardinality(old)
  BY <1>5, <1>6, FS_Bijection DEF ExistsBijection
<1>8. QED
  BY <1>3, <1>7 DEF rest, size, old, new

(* What last_n_lines gives for n: it cuts after a newline, and cuts only   *)
(* if more than n are held.                                                *)
LEMMA LastNLinesSelects ==
    ASSUME RingAssumption, RingTypeOK, NEW n \in Nat
    PROVE  LastLines(AllBytes, LastNLines(n), n)
<1> DEFINE all == AllBytes
           cut == Cut(all, n)
           size == Len(all)
           from == IF cut = {} THEN 0 ELSE CHOOSE i \in cut : TRUE
           lines == SubSeq(all, from + 1, size)
<1>1. all \in Seq(Byte) /\ size \in Nat
  BY AllBytesFromEnd, LenProperties DEF FromEnd
<1>2. LastNLines(n) = IF n = 0 THEN <<>> ELSE lines
  BY DEF LastNLines
<1>3. cut \subseteq 1 .. size
  BY <1>1 DEF Cut, NewlinesFrom
<1>4. from \in 0 .. size
  BY <1>1, <1>3
<1>5. /\ Len(lines) = size - from
      /\ Cardinality(NewlinesFrom(lines, 1)) = Cardinality(NewlinesFrom(all, from + 1))
  BY <1>1, <1>4, NewlinesAfter
<1>6. CASE n = 0
  <2>1. /\ LastNLines(n) = <<>> /\ Len(<<>>) = 0
        /\ SubSeq(all, size + 1, size) = <<>>
    BY <1>1, <1>2, <1>6, SubSeqEmpty
  <2>2. NewlinesFrom(<<>>, 1) = {}
    BY DEF NewlinesFrom
  <2>3. Cardinality(NewlinesFrom(<<>>, 1)) = 0
    BY <2>2, FS_EmptySet
  <2> HIDE DEF size, all
  <2>4. LastLines(all, <<>>, n)
    <3>1. size - Len(<<>>) = size /\ Len(all) = size
      BY <1>1, <2>1 DEF size
    <3>2. Cardinality(NewlinesFrom(<<>>, 1)) <= n
      BY <1>6, <2>3
    <3>3. <<>> = SubSeq(all, Len(all) - Len(<<>>) + 1, Len(all))
      BY <2>1, <3>1
    <3>4. QED
      BY <1>6, <3>2, <3>3 DEF LastLines
  <2>5. QED
    BY <2>1, <2>4 DEF all
<1>7. CASE n # 0 /\ cut = {}
  <2>1. from = 0
    BY <1>7
  <2>2. Cardinality(NewlinesFrom(all, 1)) <= n /\ Cardinality(NewlinesFrom(all, 1)) \in Nat
    <3>1. Cardinality(NewlinesFrom(all, 1)) \in Nat
      BY <1>1, NewlinesCounted
    <3>2. ~(Cardinality(NewlinesFrom(all, 1)) > n)
      BY <1>1, <1>7, CutExists
    <3>3. QED
      BY <3>1, <3>2
  <2> HIDE DEF from, size, all, cut
  <2>3. LastNLines(n) = lines /\ Len(lines) = size /\ size - Len(lines) = 0
        /\ Cardinality(NewlinesFrom(lines, 1)) <= n
    BY <1>1, <1>2, <1>5, <1>7, <2>1, <2>2
  <2>4. lines = SubSeq(all, 0 + 1, size)
    BY <2>1
  <2> HIDE DEF lines
  <2>5. QED
    BY <1>7, <2>3, <2>4 DEF LastLines, size, all
<1>8. CASE n # 0 /\ cut # {}
  <2>1. from \in cut
    BY <1>8
  <2>2. from \in 1 .. size /\ all[from] = Newline
        /\ Cardinality(NewlinesFrom(all, from)) = n + 1
    BY <2>1 DEF Cut, NewlinesFrom
  <2>3. Cardinality(NewlinesFrom(all, from)) = Cardinality(NewlinesFrom(all, from + 1)) + 1
        /\ Cardinality(NewlinesFrom(all, from + 1)) \in Nat
    <3>1. from + 1 \in 1 .. size + 1
      BY <1>1, <2>2
    <3> HIDE DEF from
    <3>2. QED
      BY <1>1, <2>2, <3>1, NewlinesCounted
  <2> HIDE DEF from, size, all, cut
  <2>4. LastNLines(n) = lines /\ size - Len(lines) = from
        /\ Cardinality(NewlinesFrom(lines, 1)) = n
    BY <1>1, <1>2, <1>5, <1>8, <2>2, <2>3
  <2>5. lines = SubSeq(all, from + 1, size)
    OBVIOUS
  <2>6. Len(all) = size /\ n > 0 /\ n <= n
    BY <1>8 DEF size
  <2> HIDE DEF lines
  <2>7. LastLines(all, lines, n)
    <3>1. Len(all) - Len(lines) = from
      BY <2>4, <2>6
    <3>2. lines = SubSeq(all, Len(all) - Len(lines) + 1, Len(all))
      BY <2>5, <2>6, <3>1
    <3>3. Cardinality(NewlinesFrom(lines, 1)) <= n
      BY <2>4, <2>6
    <3>4. QED
      BY <1>8, <2>2, <2>4, <3>1, <3>2, <3>3 DEF LastLines
  <2>8. QED
    BY <2>4, <2>7 DEF all
<1>9. QED
  BY <1>6, <1>7, <1>8

=============================================================================
