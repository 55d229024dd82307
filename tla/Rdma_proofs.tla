---------------------------- MODULE Rdma_proofs ----------------------------
(***************************************************************************)
(* The proof that an RDMA connection delivers the stream (RdmaExact), for  *)
(* every limit of the two sides, number and length of messages and mode of *)
(* sending.                                                                *)
(*                                                                         *)
(* The ring has no room of its own to spare: a message is copied without a *)
(* look at how far the completed ones are.  It is safe because each of the *)
(* messages on their way has at most MaxMsg bytes and there are fewer than *)
(* MaxSend of them, which InRing carries along.                            *)
(***************************************************************************)
EXTENDS Rdma, TLAPS

Bufs == 0..(MaxRecv - 1)
Slots == 0..(RingSize - 1)
Parts == [from : Nat, len : Nat]
Sends == [pos : Slots, src : Nat, len : Nat, from : Nat]
Fills == [buf : Bufs, len : Nat, from : Nat]

\* The types of the variables.
RdmaTypeOK ==
  /\ odp \in BOOLEAN /\ full \in BOOLEAN /\ looping \in BOOLEAN /\ up \in BOOLEAN
  /\ list \in Seq(Parts)
  /\ pos \in 0..Len(list) /\ off \in Nat
  /\ out \in Slots /\ done \in Slots
  /\ ring \in [Slots -> Int]
  /\ fly \in Seq(Sends)
  /\ moved \in 0..Len(fly)
  /\ posted \in Seq(Bufs) /\ filled \in Seq(Fills)
  /\ buf \in [Bufs -> Seq(Int)] /\ nextbuf \in Bufs
  /\ got \in Seq(Int)
  /\ total \in Nat /\ sentb \in Nat /\ acked \in Nat

\* The parts of s follow each other without gaps, and are the bytes from a to t.
Chain(s, a, t) ==
  /\ a <= t
  /\ \A i \in 1..Len(s) : s[i].from \in Nat /\ s[i].len \in Nat \ {0}
  /\ \A i \in 1..Len(s) : a <= s[i].from /\ s[i].from + s[i].len <= t
  /\ \A i, j \in 1..Len(s) : i < j => s[i].from + s[i].len <= s[j].from
  /\ \A i \in 1..Len(s) : i < Len(s) => s[i + 1].from = s[i].from + s[i].len
  /\ Len(s) = 0 => a = t
  /\ Len(s) > 0 => s[1].from = a /\ s[Len(s)].from + s[Len(s)].len = t

\* send_list is what was pushed and not completed, and the position in it is where
\* the messages posted so far end.
ListInv ==
  /\ Chain(list, acked, total)
  /\ pos = Len(list) => off = 0 /\ sentb = total
  /\ pos < Len(list) => off < list[pos + 1].len /\ list[pos + 1].from + off = sentb

\* The messages on their way are the bytes posted and not completed.
FlyInv ==
  /\ Chain(fly, acked, sentb)
  /\ Len(fly) <= MaxSend
  /\ \A i \in 1..Len(fly) : fly[i].len <= MaxMsg /\ fly[i].src = fly[i].from
  /\ full => ~odp /\ Len(fly) > 0
  /\ up /\ ~looping /\ sentb < total => Len(fly) > 0

Room(k) == k * MaxMsg

\* Where the bytes are in the ring, and that there is room for one more message.
InRing ==
  ~odp =>
    /\ \A i \in 1..Len(fly) : sentb - fly[i].from <= Room(Len(fly) - i + 1)
    /\ sentb - acked = out - done \/ sentb - acked = out - done + RingSize
    /\ \A i \in 1..Len(fly) :
         /\ fly[i].pos + fly[i].len <= RingSize
         /\ \/ fly[i].from - acked = fly[i].pos - done
            \/ fly[i].from - acked = fly[i].pos - done + RingSize
         /\ \A k \in 0..(fly[i].len - 1) : ring[fly[i].pos + k] = fly[i].from + k

MovedTo == IF moved < Len(fly) THEN fly[moved + 1].from ELSE sentb
Turn(k) == IF nextbuf + k >= MaxRecv THEN nextbuf + k - MaxRecv ELSE nextbuf + k

\* The buffers take turns, and hold what was moved and not handled.
RecvInv ==
  /\ \/ Len(filled) + Len(posted) = MaxRecv
     \/ Len(filled) = 0 /\ Len(posted) = 0 /\ nextbuf = 0
  /\ \A i \in 1..Len(filled) : filled[i].buf = Turn(i - 1)
  /\ \A i \in 1..Len(posted) : posted[i] = Turn(Len(filled) + i - 1)
  /\ Chain(filled, Len(got), MovedTo)
  /\ \A i \in 1..Len(filled) :
       /\ filled[i].len = Len(buf[filled[i].buf])
       /\ \A k \in 1..filled[i].len : buf[filled[i].buf][k] = filled[i].from + (k - 1)
  /\ \A i \in 1..Len(got) : got[i] = i - 1

RdmaInv == RdmaTypeOK /\ ListInv /\ FlyInv /\ InRing /\ RecvInv

-----------------------------------------------------------------------------
(* Arithmetic of the ring.                                                  *)

\* The two sides agree on a positive limit (connect_rdma, check_peer_config).
LEMMA Limits == MaxMsg \in Nat \ {0} /\ MaxMsg = ServerMsg
  BY RdmaAssumption DEF MaxMsg, ServerMsg, Smaller

LEMMA RoomNext == ASSUME NEW k \in Nat PROVE Room(k) \in Nat /\ Room(k + 1) = Room(k) + MaxMsg
  BY Limits DEF Room

LEMMA RoomOne == Room(1) = MaxMsg
  BY Limits DEF Room

\* With fewer than MaxSend messages on their way one more fits.
LEMMA RoomLeft == ASSUME NEW k \in Nat, k < MaxSend PROVE Room(k) + MaxMsg <= RingSize
  <1>1. MaxMsg \in Nat /\ MaxSend \in Nat /\ k + 1 <= MaxSend
    BY Limits, RdmaAssumption
  <1>2. \A x, y, m \in Nat : x <= y => x * m <= y * m
    OBVIOUS
  <1>3. (k + 1) * MaxMsg <= MaxSend * MaxMsg
    BY <1>1, <1>2
  <1> QED
    BY <1>1, <1>3 DEF Room, RingSize

LEMMA RingPositive == RingSize \in Nat \ {0} /\ MaxMsg <= RingSize
  <1>1. Room(0) + MaxMsg <= RingSize
    BY RoomLeft, RdmaAssumption
  <1>2. RingSize \in Nat
    BY Limits, RdmaAssumption DEF RingSize
  <1> QED
    BY <1>1, <1>2, Limits DEF Room

-----------------------------------------------------------------------------
(* Sequences.                                                               *)

LEMMA ElementIn == ASSUME NEW R, NEW s \in Seq(R) PROVE \A i \in 1..Len(s) : s[i] \in R
  OBVIOUS

LEMMA AppendFacts ==
  ASSUME NEW R, NEW s \in Seq(R), NEW x \in R
  PROVE  /\ Append(s, x) \in Seq(R) /\ Len(Append(s, x)) = Len(s) + 1
         /\ \A i \in 1..Len(s) : Append(s, x)[i] = s[i]
         /\ Append(s, x)[Len(s) + 1] = x
  OBVIOUS

LEMMA TailFacts ==
  ASSUME NEW R, NEW s \in Seq(R), Len(s) > 0
  PROVE  /\ Tail(s) \in Seq(R) /\ Len(Tail(s)) = Len(s) - 1
         /\ \A i \in 1..(Len(s) - 1) : Tail(s)[i] = s[i + 1]
         /\ Head(s) = s[1] /\ Head(s) \in R
  OBVIOUS

LEMMA Shapes ==
  ASSUME RdmaTypeOK
  PROVE  /\ \A i \in 1..Len(list) : list[i].from \in Nat /\ list[i].len \in Nat
         /\ \A i \in 1..Len(fly) : /\ fly[i].pos \in 0..(RingSize - 1) /\ fly[i].src \in Nat
                                   /\ fly[i].len \in Nat /\ fly[i].from \in Nat
         /\ \A i \in 1..Len(filled) : /\ filled[i].buf \in 0..(MaxRecv - 1) /\ filled[i].len \in Nat
                                      /\ filled[i].from \in Nat
         /\ {Len(list), Len(fly), Len(filled), Len(posted), Len(got)} \subseteq Nat
  <1>1. list \in Seq(Parts) /\ fly \in Seq(Sends) /\ filled \in Seq(Fills) /\ posted \in Seq(Bufs) /\ got \in Seq(Int)
    BY DEF RdmaTypeOK
  <1>2. \A i \in 1..Len(list) : list[i] \in Parts
    BY <1>1, ElementIn
  <1>3. \A i \in 1..Len(fly) : fly[i] \in Sends
    BY <1>1, ElementIn
  <1>4. \A i \in 1..Len(filled) : filled[i] \in Fills
    BY <1>1, ElementIn
  <1>5. {Len(list), Len(fly), Len(filled), Len(posted), Len(got)} \subseteq Nat
    BY <1>1
  <1> QED BY <1>2, <1>3, <1>4, <1>5 DEF Parts, Sends, Fills, Slots, Bufs

-----------------------------------------------------------------------------
(* Chains.                                                                  *)

LEMMA ChainAppend ==
  ASSUME NEW R, NEW s \in Seq(R), NEW x \in R, NEW a \in Nat, NEW t \in Nat, Chain(s, a, t),
         x.from = t, x.len \in Nat \ {0}
  PROVE  Chain(Append(s, x), a, t + x.len)
  <1> DEFINE r == Append(s, x)
             n == Len(s)
  <1>1. /\ n \in Nat /\ Len(r) = n + 1
        /\ \A i \in 1..n : r[i] = s[i]
        /\ r[n + 1] = x
    BY AppendFacts
  <1> HIDE DEF r
  <1>2. /\ \A i \in 1..n : s[i].from \in Nat /\ s[i].len \in Nat \ {0}
        /\ \A i \in 1..n : a <= s[i].from /\ s[i].from + s[i].len <= t
        /\ \A i, j \in 1..n : i < j => s[i].from + s[i].len <= s[j].from
        /\ \A i \in 1..n : i < n => s[i + 1].from = s[i].from + s[i].len
        /\ n = 0 => a = t
        /\ n > 0 => s[1].from = a /\ s[n].from + s[n].len = t
        /\ a <= t
    BY DEF Chain
  <1> HIDE DEF n
  <1>3. \A i \in 1..(n + 1) : i \in 1..n \/ i = n + 1
    BY <1>1
  <1>4. \A i \in 1..(n + 1) : r[i].from \in Nat /\ r[i].len \in Nat \ {0}
    BY <1>1, <1>2, <1>3
  <1>5. \A i \in 1..(n + 1) : a <= r[i].from /\ r[i].from + r[i].len <= t + x.len
    <2> TAKE i \in 1..(n + 1)
    <2>1. CASE i = n + 1
      BY <1>1, <1>2, <2>1
    <2>2. CASE i \in 1..n
      <3>1. r[i] = s[i] /\ a <= s[i].from /\ s[i].from + s[i].len <= t /\ s[i].from \in Nat /\ s[i].len \in Nat
        BY <1>1, <1>2, <2>2
      <3> QED BY <3>1
    <2> QED BY <1>3, <2>1, <2>2
  <1>6. \A i, j \in 1..(n + 1) : i < j => r[i].from + r[i].len <= r[j].from
    <2> TAKE i, j \in 1..(n + 1)
    <2> HAVE i < j
    <2>1. i \in 1..n
      BY <1>1
    <2>2. CASE j = n + 1
      BY <1>1, <1>2, <2>1, <2>2
    <2>3. CASE j \in 1..n
      BY <1>1, <1>2, <2>1, <2>3
    <2> QED BY <1>3, <2>2, <2>3
  <1>7. \A i \in 1..(n + 1) : i < n + 1 => r[i + 1].from = r[i].from + r[i].len
    <2> TAKE i \in 1..(n + 1)
    <2> HAVE i < n + 1
    <2>1. i \in 1..n
      BY <1>1
    <2>2. CASE i = n
      BY <1>1, <1>2, <2>1, <2>2
    <2>3. CASE i < n
      <3>1. i + 1 \in 1..n /\ s[i + 1].from = s[i].from + s[i].len
        BY <1>1, <1>2, <2>1, <2>3
      <3> QED BY <1>1, <2>1, <3>1
    <2> QED BY <1>1, <2>1, <2>2, <2>3
  <1>8. r[1].from = a /\ r[n + 1].from + r[n + 1].len = t + x.len
    BY <1>1, <1>2
  <1>9. a <= t + x.len
    BY <1>2
  <1> QED BY <1>1, <1>4, <1>5, <1>6, <1>7, <1>8, <1>9 DEF Chain, r

LEMMA ChainTail ==
  ASSUME NEW R, NEW s \in Seq(R), NEW a \in Nat, NEW t \in Nat, Chain(s, a, t), Len(s) > 0
  PROVE  Chain(Tail(s), a + s[1].len, t)
  <1> DEFINE r == Tail(s)
             n == Len(s)
             b == a + s[1].len
  <1>1. /\ n \in Nat \ {0} /\ Len(r) = n - 1
        /\ \A i \in 1..(n - 1) : r[i] = s[i + 1]
    BY TailFacts
  <1> HIDE DEF r
  <1>2. /\ \A i \in 1..n : s[i].from \in Nat /\ s[i].len \in Nat \ {0}
        /\ \A i \in 1..n : a <= s[i].from /\ s[i].from + s[i].len <= t
        /\ \A i, j \in 1..n : i < j => s[i].from + s[i].len <= s[j].from
        /\ \A i \in 1..n : i < n => s[i + 1].from = s[i].from + s[i].len
        /\ s[1].from = a /\ s[n].from + s[n].len = t
    BY DEF Chain
  <1> HIDE DEF n
  <1>3. 1 \in 1..n /\ n \in 1..n
    BY <1>1
  <1>4. b \in Nat /\ b <= t /\ b = s[1].from + s[1].len
    BY <1>2, <1>3
  <1> HIDE DEF b
  <1>5. \A i \in 1..(n - 1) : i \in 1..n /\ i + 1 \in 1..n /\ 1 < i + 1
    BY <1>1
  <1>6. \A i \in 1..(n - 1) : r[i].from \in Nat /\ r[i].len \in Nat \ {0}
    BY <1>1, <1>2, <1>5
  <1>7. \A i \in 1..(n - 1) : b <= r[i].from /\ r[i].from + r[i].len <= t
    <2> TAKE i \in 1..(n - 1)
    <2>1. s[1].from + s[1].len <= s[i + 1].from /\ s[i + 1].from + s[i + 1].len <= t
      BY <1>2, <1>3, <1>5
    <2> QED BY <1>1, <1>4, <2>1
  <1>8. \A i, j \in 1..(n - 1) : i < j => r[i].from + r[i].len <= r[j].from
    <2> TAKE i, j \in 1..(n - 1)
    <2> HAVE i < j
    <2>1. s[i + 1].from + s[i + 1].len <= s[j + 1].from
      BY <1>1, <1>2, <1>5
    <2> QED BY <1>1, <2>1
  <1>9. \A i \in 1..(n - 1) : i < n - 1 => r[i + 1].from = r[i].from + r[i].len
    <2> TAKE i \in 1..(n - 1)
    <2> HAVE i < n - 1
    <2>1. i + 1 \in 1..(n - 1)
      BY <1>1
    <2>2. s[(i + 1) + 1].from = s[i + 1].from + s[i + 1].len
      BY <1>1, <1>2, <1>5, <2>1
    <2> QED BY <1>1, <2>1, <2>2
  <1>10. n - 1 = 0 => b = t
    BY <1>1, <1>2, <1>4
  <1>11. n - 1 > 0 => r[1].from = b /\ r[n - 1].from + r[n - 1].len = t
    <2> HAVE n - 1 > 0
    <2>1. 1 \in 1..(n - 1) /\ n - 1 \in 1..(n - 1) /\ (n - 1) + 1 = n
      BY <1>1
    <2>2. 1 < n /\ \A i \in 1..n : i < n => s[i + 1].from = s[i].from + s[i].len
      BY <1>1, <1>2
    <2>3. s[2].from = s[1].from + s[1].len
      BY <1>3, <2>2
    <2>4. r[1] = s[2] /\ r[n - 1] = s[n]
      BY <1>1, <2>1
    <2> QED BY <1>2, <1>4, <2>3, <2>4
  <1> QED BY <1>1, <1>4, <1>6, <1>7, <1>8, <1>9, <1>10, <1>11 DEF Chain, r, b

\* Where byte a is in send_list.
LEMMA PartPosition ==
  ASSUME RdmaTypeOK, Chain(list, acked, total), NEW a \in acked..total, NEW p, PartOf(a, p)
  PROVE  /\ p \in 0..Len(list) /\ Len(list) \in Nat /\ PartOffset(a, p) \in Nat
         /\ p = Len(list) => PartOffset(a, p) = 0 /\ a = total
         /\ p < Len(list) => /\ PartOffset(a, p) < list[p + 1].len
                             /\ list[p + 1].from + PartOffset(a, p) = a
         /\ p > 0 => list[p].from + list[p].len <= a
  <1> DEFINE n == Len(list)
  <1>1. /\ n \in Nat /\ acked \in Nat /\ total \in Nat /\ a \in Nat /\ acked <= a /\ a <= total
        /\ p \in 0..n
    BY Shapes DEF RdmaTypeOK, PartOf
  <1>2. /\ \A i \in 1..n : list[i].from \in Nat /\ list[i].len \in Nat \ {0}
        /\ \A i \in 1..n : i < n => list[i + 1].from = list[i].from + list[i].len
        /\ n = 0 => acked = total
        /\ n > 0 => list[1].from = acked /\ list[n].from + list[n].len = total
    BY DEF Chain
  <1>3. /\ p > 0 => list[p].from + list[p].len <= a
        /\ p < n => a < list[p + 1].from + list[p + 1].len
    BY DEF PartOf, End
  <1>4. PartOffset(a, p) = IF p = n THEN 0 ELSE a - list[p + 1].from
    BY DEF PartOffset
  <1> HIDE DEF n
  <1>5. CASE p = n
    <2>1. CASE n = 0
      BY <1>1, <1>2, <1>3, <1>4, <1>5, <2>1 DEF n
    <2>2. CASE n > 0
      BY <1>1, <1>2, <1>3, <1>4, <1>5, <2>2 DEF n
    <2> QED BY <1>1, <2>1, <2>2
  <1>6. CASE p < n
    <2>1. p + 1 \in 1..n
      BY <1>1, <1>6
    <2>2. list[p + 1].from \in Nat /\ list[p + 1].len \in Nat \ {0}
      BY <1>2, <2>1
    <2>3. list[p + 1].from <= a
      <3>1. CASE p = 0
        BY <1>1, <1>2, <1>6, <3>1
      <3>2. CASE p > 0
        <4>1. p \in 1..n
          BY <1>1, <3>2
        <4>2. list[p + 1].from = list[p].from + list[p].len
          BY <1>2, <1>6, <4>1
        <4> QED BY <1>3, <3>2, <4>2
      <3> QED BY <1>1, <3>1, <3>2
    <2>4. PartOffset(a, p) = a - list[p + 1].from /\ a < list[p + 1].from + list[p + 1].len /\ p # n
      BY <1>1, <1>3, <1>4, <1>6
    <2>5. PartOffset(a, p) \in Nat /\ PartOffset(a, p) < list[p + 1].len /\ list[p + 1].from + PartOffset(a, p) = a
      BY <1>1, <2>2, <2>3, <2>4
    <2> QED BY <1>1, <1>3, <2>4, <2>5 DEF n
  <1> QED BY <1>1, <1>5, <1>6

\* How far a message may reach: not past the end of the list.
LEMMA UnsentBytes ==
  ASSUME RdmaInv, NEW p \in (pos + 1)..Len(list)
  PROVE  /\ pos < Len(list) /\ Cursor = sentb
         /\ Unsent(p) \in Nat \ {0} /\ sentb + Unsent(p) <= total
  <1> DEFINE n == Len(list)
  <1>1. RdmaTypeOK /\ ListInv /\ Chain(list, acked, total)
    BY DEF RdmaInv, ListInv
  <1>2. pos \in Nat /\ pos < n /\ n \in Nat /\ off \in Nat /\ p \in Nat /\ pos + 1 <= p /\ p <= n /\ total \in Nat
    BY <1>1 DEF RdmaTypeOK
  <1>3. Cursor = sentb /\ Cursor = list[pos + 1].from + off /\ off < list[pos + 1].len
    BY <1>1, <1>2 DEF ListInv, Cursor
  <1>4. /\ \A i \in 1..n : list[i].from \in Nat /\ list[i].len \in Nat \ {0}
        /\ \A i \in 1..n : list[i].from + list[i].len <= total
        /\ \A i, j \in 1..n : i < j => list[i].from + list[i].len <= list[j].from
    BY <1>1 DEF Chain
  <1>5. Unsent(p) = End(list[p]) - Cursor
    <2>1. pos # Len(list)
      BY <1>2
    <2> QED BY <2>1 DEF Unsent
  <1> HIDE DEF n
  <1>6. pos + 1 \in 1..n /\ p \in 1..n
    BY <1>2
  <1>7. /\ list[pos + 1].from \in Nat /\ list[pos + 1].len \in Nat /\ list[p].from \in Nat
        /\ list[p].len \in Nat /\ list[p].from + list[p].len <= total
    BY <1>4, <1>6
  <1>8. list[pos + 1].from + list[pos + 1].len <= list[p].from + list[p].len
    <2>1. CASE p = pos + 1
      BY <1>7, <2>1
    <2>2. CASE pos + 1 < p
      <3>1. list[pos + 1].from + list[pos + 1].len <= list[p].from
        BY <1>4, <1>6, <2>2
      <3> QED BY <1>7, <3>1
    <2> QED BY <1>2, <2>1, <2>2
  <1>9. /\ Unsent(p) \in Nat \ {0} /\ sentb + Unsent(p) <= total
    <2> DEFINE e == list[p].from + list[p].len
    <2>1. e \in Nat /\ e <= total /\ End(list[p]) = e
      BY <1>7 DEF End
    <2>2. Cursor \in Nat
      BY <1>2, <1>3, <1>7
    <2>3. Cursor < list[pos + 1].from + list[pos + 1].len
      BY <1>2, <1>3, <1>7
    <2>4. Cursor < e
      BY <1>7, <1>8, <2>2, <2>3
    <2> HIDE DEF e
    <2> QED BY <1>2, <1>3, <1>5, <2>1, <2>2, <2>4
  <1> QED BY <1>2, <1>3, <1>9 DEF n

-----------------------------------------------------------------------------
(* The sender.                                                              *)

LEMMA AddIsAppend ==
  ASSUME NEW R, NEW s \in Seq(R), NEW x \in R, NEW y \in R
  PROVE  s \o <<x>> = Append(s, x) /\ s \o <<x, y>> = Append(Append(s, x), y)
  OBVIOUS

\* outbox_push keeps the list without gaps, and the position where it was.
LEMMA PushList ==
  ASSUME RdmaInv, NEW len \in DataLens, RdmaPush(len)
  PROVE  /\ list' \in Seq(Parts) /\ Chain(list', acked, total') /\ total' \in Nat
         /\ Len(list) < Len(list') /\ \A i \in 1..Len(list) : list'[i] = list[i]
         /\ list'[Len(list) + 1].from = total /\ list'[Len(list) + 1].len = Packet
  <1> DEFINE x == Part(total, Packet)
             y == Part(total + Packet, len)
             l == Append(list, x)
  <1>1. /\ list \in Seq(Parts) /\ acked \in Nat /\ total \in Nat /\ Chain(list, acked, total)
        /\ len \in Nat /\ Packet \in Nat \ {0} /\ Len(list) \in Nat
    BY RdmaAssumption DEF RdmaInv, RdmaTypeOK, ListInv
  <1>2. list' = list \o (IF len = 0 THEN <<x>> ELSE <<x, y>>) /\ total' = total + Packet + len
    BY DEF RdmaPush
  <1>3. /\ x \in Parts /\ x.from = total /\ x.len = Packet
        /\ y \in Parts /\ y.from = total + Packet /\ y.len = len
    BY <1>1 DEF Part, Parts
  <1> HIDE DEF x, y
  <1>4. list' = IF len = 0 THEN l ELSE Append(l, y)
    BY <1>1, <1>2, <1>3, AddIsAppend
  <1>5. /\ l \in Seq(Parts) /\ Len(l) = Len(list) + 1 /\ \A i \in 1..Len(list) : l[i] = list[i]
        /\ l[Len(list) + 1] = x
    BY <1>1, <1>3, AppendFacts
  <1>6. Chain(l, acked, total + Packet)
    <2>1. Chain(l, acked, total + x.len)
      BY <1>1, <1>3, ChainAppend
    <2> QED BY <1>3, <2>1
  <1> HIDE DEF l
  <1>7. CASE len = 0
    <2>1. list' = l /\ total' = total + Packet
      BY <1>1, <1>2, <1>4, <1>7
    <2> QED BY <1>1, <1>3, <1>5, <1>6, <2>1
  <1>8. CASE len # 0
    <2>1. list' = Append(l, y) /\ len \in Nat \ {0} /\ total + Packet \in Nat
      BY <1>1, <1>4, <1>8
    <2>2. Chain(list', acked, total + Packet + y.len)
      BY <1>1, <1>3, <1>5, <1>6, <2>1, ChainAppend
    <2>3. /\ list' \in Seq(Parts) /\ Len(list') = Len(l) + 1 /\ \A i \in 1..Len(l) : list'[i] = l[i]
      BY <1>3, <1>5, <2>1, AppendFacts
    <2>4. Len(list) + 1 \in 1..Len(l) /\ \A i \in 1..Len(list) : i \in 1..Len(l)
      BY <1>1, <1>5
    <2>5. \A i \in 1..Len(list) : list'[i] = list[i]
      BY <1>5, <2>3, <2>4
    <2>6. list'[Len(list) + 1] = x
      BY <1>5, <2>3, <2>4
    <2>7. Chain(list', acked, total') /\ total' \in Nat /\ Len(list) < Len(list')
      BY <1>1, <1>2, <1>3, <1>5, <2>2, <2>3
    <2> QED BY <1>3, <2>3, <2>5, <2>6, <2>7
  <1> QED BY <1>7, <1>8

LEMMA PushInv == ASSUME RdmaInv, NEW len \in DataLens, RdmaPush(len) PROVE RdmaInv'
  <1>1. RdmaTypeOK /\ ListInv /\ FlyInv /\ InRing /\ RecvInv /\ Packet \in Nat \ {0}
    BY RdmaAssumption DEF RdmaInv
  <1>2. /\ looping' = TRUE
        /\ UNCHANGED <<odp, pos, off, out, done, full, ring, sentb, acked, fly, moved, posted, filled, buf,
                       nextbuf, got, up>>
    BY DEF RdmaPush, recvVars
  <1>3. /\ list' \in Seq(Parts) /\ Chain(list', acked, total') /\ total' \in Nat
        /\ Len(list) < Len(list') /\ \A i \in 1..Len(list) : list'[i] = list[i]
        /\ list'[Len(list) + 1].from = total /\ list'[Len(list) + 1].len = Packet
    BY PushList
  <1>4. Len(list) \in Nat /\ Len(list') \in Nat /\ pos \in 0..Len(list) /\ off \in Nat /\ total \in Nat
    BY <1>1, <1>3 DEF RdmaTypeOK
  <1>5. RdmaTypeOK'
    <2>1. pos' \in 0..Len(list') /\ looping' \in BOOLEAN
      BY <1>2, <1>3, <1>4
    <2> QED BY <1>1, <1>2, <1>3, <2>1 DEF RdmaTypeOK
  <1>6. ListInv'
    <2>1. pos < Len(list') /\ off < list'[pos + 1].len /\ list'[pos + 1].from + off = sentb
      <3>1. CASE pos = Len(list)
        <4>1. off = 0 /\ sentb = total
          BY <1>1, <3>1 DEF ListInv
        <4> QED BY <1>1, <1>3, <1>4, <3>1, <4>1
      <3>2. CASE pos < Len(list)
        <4>1. off < list[pos + 1].len /\ list[pos + 1].from + off = sentb
          BY <1>1, <3>2 DEF ListInv
        <4>2. list'[pos + 1] = list[pos + 1]
          BY <1>3, <1>4, <3>2
        <4> QED BY <1>3, <1>4, <3>2, <4>1, <4>2
      <3> QED BY <1>4, <3>1, <3>2
    <2>2. pos' = pos /\ off' = off /\ sentb' = sentb /\ acked' = acked /\ pos # Len(list')
      BY <1>2, <1>4, <2>1
    <2> QED BY <1>3, <2>1, <2>2 DEF ListInv
  <1>7. FlyInv' /\ InRing' /\ RecvInv'
    BY <1>1, <1>2 DEF FlyInv, InRing, RecvInv, MovedTo, Turn, Room, Chain
  <1> QED BY <1>5, <1>6, <1>7 DEF RdmaInv


\* Posting the next n bytes, whichever way they are sent.
LEMMA PostInv ==
  ASSUME RdmaInv, NEW n \in Nat \ {0}, n <= MaxMsg, pos < Len(list), sentb + n <= total,
         Len(fly) < MaxSend, looping, full' => ~odp, Post(n)
  PROVE  /\ ListInv' /\ FlyInv' /\ RecvInv'
         /\ pos' \in 0..Len(list') /\ off' \in Nat /\ sentb' = sentb + n /\ sentb' \in Nat
         /\ fly' \in Seq(Sends) /\ Len(fly') = Len(fly) + 1 /\ moved' \in 0..Len(fly')
         /\ \A i \in 1..Len(fly) : fly'[i] = fly[i]
         /\ fly'[Len(fly) + 1] = [pos |-> out, src |-> sentb, len |-> n, from |-> sentb]
  <1> DEFINE x == [pos |-> out, src |-> sentb, len |-> n, from |-> sentb]
  <1>1. RdmaTypeOK /\ ListInv /\ FlyInv /\ RecvInv /\ Chain(list, acked, total) /\ Chain(fly, acked, sentb)
    BY DEF RdmaInv, ListInv, FlyInv
  <1>2. /\ Len(list) \in Nat /\ Len(fly) \in Nat /\ pos \in 0..Len(list) /\ off \in Nat /\ total \in Nat
        /\ acked \in Nat /\ sentb \in Nat /\ fly \in Seq(Sends) /\ moved \in 0..Len(fly) /\ acked <= sentb
        /\ out \in Slots
    BY <1>1 DEF RdmaTypeOK, Chain
  <1>3. Cursor = sentb
    BY <1>1 DEF ListInv, Cursor
  <1>4. PICK p \in 0..Len(list) : /\ PartOf(sentb + n, p)
                                  /\ pos' = p /\ off' = PartOffset(sentb + n, p)
    BY <1>3 DEF Post
  <1>5. /\ fly' = Append(fly, x) /\ sentb' = sentb + n
        /\ UNCHANGED <<odp, list, done, looping, total, acked, moved, posted, filled, buf, nextbuf, got, up>>
    BY <1>3 DEF Post, recvVars
  <1>6. x \in Sends /\ x.from = sentb /\ x.len = n /\ x.src = sentb /\ x.pos = out
    BY <1>2 DEF Sends
  <1> HIDE DEF x
  <1>7. /\ fly' \in Seq(Sends) /\ Len(fly') = Len(fly) + 1
        /\ \A i \in 1..Len(fly) : fly'[i] = fly[i]
        /\ fly'[Len(fly) + 1] = x
    BY <1>2, <1>5, <1>6, AppendFacts
  <1>8. ListInv' /\ pos' \in 0..Len(list') /\ off' \in Nat
    <2>1. sentb + n \in acked..total
      BY <1>2
    <2>2. /\ PartOffset(sentb + n, p) \in Nat
          /\ p = Len(list) => PartOffset(sentb + n, p) = 0 /\ sentb + n = total
          /\ p < Len(list) => /\ PartOffset(sentb + n, p) < list[p + 1].len
                              /\ list[p + 1].from + PartOffset(sentb + n, p) = sentb + n
      BY <1>1, <1>4, <2>1, PartPosition
    <2> QED BY <1>1, <1>4, <1>5, <2>2 DEF ListInv
  <1>9. FlyInv'
    <2>1. Chain(fly', acked, sentb + n)
      <3>1. x \in Sends /\ x.from = sentb /\ x.len \in Nat \ {0}
        BY <1>6
      <3>2. Chain(Append(fly, x), acked, sentb + x.len)
        BY <1>1, <1>2, <3>1, ChainAppend
      <3> QED BY <1>5, <1>6, <3>2
    <2>2. \A i \in 1..Len(fly') : fly'[i].len <= MaxMsg /\ fly'[i].src = fly'[i].from
      <3> TAKE i \in 1..Len(fly')
      <3>1. CASE i = Len(fly) + 1
        BY <1>6, <1>7, <3>1
      <3>2. CASE i \in 1..Len(fly)
        BY <1>1, <1>7, <3>2 DEF FlyInv
      <3> QED BY <1>2, <1>7, <3>1, <3>2
    <2>3. Len(fly') <= MaxSend /\ Len(fly') > 0
      BY <1>2, <1>7, RdmaAssumption
    <2> QED BY <1>5, <2>1, <2>2, <2>3 DEF FlyInv
  <1>10. MovedTo' = MovedTo
    <2>1. CASE moved < Len(fly)
      <3>1. moved' < Len(fly') /\ fly'[moved + 1] = fly[moved + 1]
        BY <1>2, <1>5, <1>7, <2>1
      <3> QED BY <1>5, <2>1, <3>1 DEF MovedTo
    <2>2. CASE moved = Len(fly)
      <3>1. moved' < Len(fly') /\ fly'[moved + 1].from = sentb
        BY <1>2, <1>5, <1>6, <1>7, <2>2
      <3>2. MovedTo = sentb
        BY <1>2, <2>2 DEF MovedTo
      <3> QED BY <1>5, <3>1, <3>2 DEF MovedTo
    <2> QED BY <1>2, <2>1, <2>2
  <1>11. RecvInv'
    BY <1>1, <1>5, <1>10 DEF RecvInv, Chain, Turn
  <1>12. sentb' \in Nat /\ moved' \in 0..Len(fly')
    BY <1>2, <1>5, <1>7
  <1> QED BY <1>5, <1>7, <1>8, <1>9, <1>11, <1>12 DEF x

LEMMA SendOdpInv == ASSUME RdmaInv, SendOdp PROVE RdmaInv'
  <1> DEFINE last == Smaller(pos + MaxSge, Len(list))
             n == Smaller(MaxMsg, Unsent(last))
  <1>1. RdmaTypeOK /\ MaxSge \in Nat \ {0} /\ MaxMsg \in Nat \ {0}
    BY RdmaAssumption, Limits DEF RdmaInv
  <1>2. /\ looping /\ odp /\ n > 0 /\ Len(fly) < MaxSend /\ UNCHANGED <<out, full, ring>> /\ Post(n)
    BY DEF SendOdp
  <1>3. Len(list) \in Nat /\ pos \in 0..Len(list)
    BY <1>1 DEF RdmaTypeOK
  <1>4. pos < Len(list)
    <2> SUFFICES ASSUME pos = Len(list) PROVE FALSE
      BY <1>3
    <2>1. Unsent(last) = 0
      BY DEF Unsent
    <2> QED BY <1>1, <1>2, <2>1 DEF Smaller
  <1>5. last \in (pos + 1)..Len(list)
    BY <1>1, <1>3, <1>4 DEF Smaller
  <1>6. Unsent(last) \in Nat \ {0} /\ sentb + Unsent(last) <= total
    BY <1>5, UnsentBytes
  <1>7. n \in Nat \ {0} /\ n <= MaxMsg /\ n <= Unsent(last)
    BY <1>1, <1>6 DEF Smaller
  <1> HIDE DEF n, last
  <1>8. sentb + n <= total
    BY <1>1, <1>6, <1>7 DEF RdmaTypeOK
  <1>9. /\ ListInv' /\ FlyInv' /\ RecvInv'
        /\ pos' \in 0..Len(list') /\ off' \in Nat /\ sentb' \in Nat
        /\ fly' \in Seq(Sends) /\ moved' \in 0..Len(fly')
    <2>1. full' => ~odp
      BY <1>2 DEF RdmaInv, FlyInv
    <2> QED BY <1>2, <1>4, <1>7, <1>8, <2>1, PostInv
  <1>10. UNCHANGED <<odp, list, done, looping, total, acked, posted, filled, buf, nextbuf, got, up>>
    BY <1>2 DEF Post, recvVars
  <1>11. RdmaTypeOK' /\ InRing'
    BY <1>1, <1>2, <1>9, <1>10 DEF RdmaTypeOK, InRing
  <1> QED BY <1>9, <1>11 DEF RdmaInv

LEMMA SendEndInv == ASSUME RdmaInv, SendEnd PROVE RdmaInv'
  <1>1. RdmaTypeOK /\ ListInv /\ FlyInv /\ InRing /\ RecvInv
    BY DEF RdmaInv
  <1>2. /\ looping' = FALSE
        /\ UNCHANGED <<odp, list, pos, off, out, done, full, ring, total, sentb, acked, fly, moved, posted,
                       filled, buf, nextbuf, got, up>>
        /\ Unsent(Len(list)) = 0 \/ Len(fly) = MaxSend \/ full
    BY DEF SendEnd, recvVars
  <1>3. sentb < total => Len(fly) > 0
    <2> HAVE sentb < total
    <2>1. Len(list) \in Nat /\ pos \in 0..Len(list) /\ total \in Nat /\ sentb \in Nat
      BY <1>1 DEF RdmaTypeOK
    <2>2. pos < Len(list)
      <3>1. pos # Len(list)
        BY <1>1, <2>1 DEF ListInv
      <3> QED BY <2>1, <3>1
    <2>3. Unsent(Len(list)) # 0
      <3>1. Len(list) \in (pos + 1)..Len(list)
        BY <2>1, <2>2
      <3>2. Unsent(Len(list)) \in Nat \ {0}
        BY <3>1, UnsentBytes
      <3> QED BY <3>2
    <2> QED BY <1>1, <1>2, <2>3, RdmaAssumption DEF FlyInv
  <1>4. FlyInv'
    BY <1>1, <1>2, <1>3 DEF FlyInv, Chain
  <1>5. RdmaTypeOK' /\ ListInv' /\ InRing' /\ RecvInv'
    <2>1. looping' \in BOOLEAN
      BY <1>2
    <2>2. RdmaTypeOK'
      BY <1>1, <1>2, <2>1 DEF RdmaTypeOK
    <2>3. ListInv'
      BY <1>1, <1>2 DEF ListInv
    <2>4. InRing'
      BY <1>1, <1>2 DEF InRing, Room, Chain
    <2>5. RecvInv'
      BY <1>1, <1>2 DEF RecvInv, MovedTo, Turn
    <2> QED BY <2>2, <2>3, <2>4, <2>5
  <1> QED BY <1>4, <1>5 DEF RdmaInv


\* The bytes on their way leave room for one message.
LEMMA OneMoreFits ==
  ASSUME RdmaInv, ~odp, Len(fly) < MaxSend
  PROVE  sentb - acked + MaxMsg <= RingSize
  <1>1. /\ Len(fly) \in Nat /\ sentb \in Nat /\ acked \in Nat /\ MaxMsg \in Nat /\ RingSize \in Nat
    BY Limits, RingPositive DEF RdmaInv, RdmaTypeOK
  <1>2. Room(Len(fly)) \in Nat /\ Room(Len(fly)) + MaxMsg <= RingSize
    BY <1>1, RoomNext, RoomLeft
  <1>3. sentb - acked <= Room(Len(fly))
    <2>1. CASE Len(fly) = 0
      <3>1. acked = sentb
        BY <2>1 DEF RdmaInv, FlyInv, Chain
      <3> QED BY <1>1, <1>2, <3>1
    <2>2. CASE Len(fly) > 0
      <3>1. fly[1].from = acked
        BY <2>2 DEF RdmaInv, FlyInv, Chain
      <3>2. 1 \in 1..Len(fly) /\ Len(fly) - 1 + 1 = Len(fly)
        BY <1>1, <2>2
      <3>3. \A i \in 1..Len(fly) : sentb - fly[i].from <= Room(Len(fly) - i + 1)
        BY DEF RdmaInv, InRing
      <3>4. sentb - fly[1].from <= Room(Len(fly) - 1 + 1)
        BY <3>2, <3>3
      <3> QED BY <3>1, <3>2, <3>4
    <2> QED BY <1>1, <2>1, <2>2
  <1> QED BY <1>1, <1>2, <1>3

\* Places in the ring, d completed, o next, r the size: the bytes from b on, n of
\* them, that follow the ones from a to b do not reach those.
LEMMA RingApart ==
  ASSUME NEW r \in Nat \ {0}, NEW d \in 0..(r - 1), NEW o \in 0..(r - 1), NEW a \in Nat, NEW b \in Nat,
         NEW n \in Nat, b - a + n <= r, b - a = o - d \/ b - a = o - d + r,
         NEW f \in Nat, NEW x \in 0..(r - 1), NEW k \in Nat, a <= f, f + k < b,
         f - a = x - d \/ f - a = x - d + r
  PROVE  ~(o <= x + k /\ x + k <= o + n - 1)
  OBVIOUS

\* The place after a message.
LEMMA RingNext ==
  ASSUME NEW r \in Nat \ {0}, NEW d \in 0..(r - 1), NEW o \in 0..(r - 1), NEW a \in Nat, NEW b \in Nat,
         NEW n \in Nat, b - a + n <= r, b - a = o - d \/ b - a = o - d + r, o + n <= r,
         NEW p, p = IF o + n = r THEN 0 ELSE o + n
  PROVE  p \in 0..(r - 1) /\ (b + n - a = p - d \/ b + n - a = p - d + r)
  OBVIOUS

LEMMA SendCopyInv == ASSUME RdmaInv, SendCopy PROVE RdmaInv'
  <1> DEFINE u == Unsent(Len(list))
             n == Smaller(Smaller(MaxMsg, RingSize - out), u)
  <1>1. RdmaTypeOK /\ MaxMsg \in Nat \ {0} /\ RingSize \in Nat \ {0}
    BY Limits, RingPositive DEF RdmaInv
  <1>2. /\ looping /\ ~odp /\ n > 0 /\ Len(fly) < MaxSend /\ Post(n)
        /\ ring' = [i \in 0..(RingSize - 1) |-> IF i \in out..(out + n - 1) THEN Cursor + (i - out) ELSE ring[i]]
        /\ out' = IF out + n = RingSize THEN 0 ELSE out + n
        /\ full' = ((IF out + n = RingSize THEN 0 ELSE out + n) >= done)
    BY DEF SendCopy
  <1>3. /\ Len(list) \in Nat /\ pos \in 0..Len(list) /\ out \in 0..(RingSize - 1) /\ done \in 0..(RingSize - 1)
        /\ acked \in Nat /\ sentb \in Nat /\ total \in Nat /\ ring \in [0..(RingSize - 1) -> Int]
        /\ Len(fly) \in Nat
    BY <1>1 DEF RdmaTypeOK, Slots
  <1>4. pos < Len(list)
    <2> SUFFICES ASSUME pos = Len(list) PROVE FALSE
      BY <1>3
    <2>1. u = 0
      BY DEF Unsent
    <2> QED BY <1>1, <1>2, <1>3, <2>1 DEF Smaller
  <1>5. Cursor = sentb /\ u \in Nat \ {0} /\ sentb + u <= total
    <2>1. Len(list) \in (pos + 1)..Len(list)
      BY <1>3, <1>4
    <2> QED BY <2>1, UnsentBytes
  <1> HIDE DEF u
  <1>6. n \in Nat \ {0} /\ n <= MaxMsg /\ n <= RingSize - out /\ n <= u
    BY <1>1, <1>3, <1>5 DEF Smaller
  <1> HIDE DEF n
  <1>7. sentb + n <= total /\ out + n <= RingSize
    BY <1>1, <1>3, <1>5, <1>6
  <1>8. /\ ListInv' /\ FlyInv' /\ RecvInv'
        /\ pos' \in 0..Len(list') /\ off' \in Nat /\ sentb' \in Nat /\ sentb' = sentb + n
        /\ fly' \in Seq(Sends) /\ Len(fly') = Len(fly) + 1 /\ moved' \in 0..Len(fly')
        /\ \A i \in 1..Len(fly) : fly'[i] = fly[i]
        /\ fly'[Len(fly) + 1] = [pos |-> out, src |-> sentb, len |-> n, from |-> sentb]
    BY <1>2, <1>4, <1>6, <1>7, PostInv
  <1>9. UNCHANGED <<odp, list, done, looping, total, acked, posted, filled, buf, nextbuf, got, up>>
    BY <1>2 DEF Post, recvVars
  <1>10. sentb - acked + n <= RingSize /\ (sentb - acked = out - done \/ sentb - acked = out - done + RingSize)
    <2>1. sentb - acked + MaxMsg <= RingSize
      BY <1>2, OneMoreFits
    <2>2. sentb - acked = out - done \/ sentb - acked = out - done + RingSize
      BY <1>2 DEF RdmaInv, InRing
    <2> QED BY <1>1, <1>3, <1>6, <2>1, <2>2
  <1>11. /\ out' \in 0..(RingSize - 1)
         /\ sentb' - acked = out' - done \/ sentb' - acked = out' - done + RingSize
    BY <1>1, <1>2, <1>3, <1>6, <1>7, <1>8, <1>10, RingNext
  <1>12. RdmaTypeOK'
    <2>1. full' \in BOOLEAN /\ out' \in Slots
      BY <1>2, <1>11 DEF Slots
    <2>2. ring' \in [Slots -> Int]
      BY <1>2, <1>3, <1>5, <1>6 DEF Slots
    <2>3. /\ odp \in BOOLEAN /\ looping \in BOOLEAN /\ up \in BOOLEAN /\ list \in Seq(Parts) /\ done \in Slots
          /\ posted \in Seq(Bufs) /\ filled \in Seq(Fills) /\ buf \in [Bufs -> Seq(Int)] /\ nextbuf \in Bufs
          /\ got \in Seq(Int) /\ total \in Nat /\ acked \in Nat
      BY <1>1 DEF RdmaTypeOK
    <2> QED BY <1>8, <1>9, <2>1, <2>2, <2>3 DEF RdmaTypeOK
  <1>13. InRing'
    <2>1. /\ \A i \in 1..Len(fly) : sentb - fly[i].from <= Room(Len(fly) - i + 1)
          /\ \A i \in 1..Len(fly) :
               /\ fly[i].pos + fly[i].len <= RingSize
               /\ \/ fly[i].from - acked = fly[i].pos - done
                  \/ fly[i].from - acked = fly[i].pos - done + RingSize
               /\ \A k \in 0..(fly[i].len - 1) : ring[fly[i].pos + k] = fly[i].from + k
      BY <1>2 DEF RdmaInv, InRing
    <2>2. \A i \in 1..Len(fly) : /\ fly[i].from \in Nat /\ fly[i].len \in Nat \ {0}
                                 /\ acked <= fly[i].from /\ fly[i].from + fly[i].len <= sentb
      BY DEF RdmaInv, FlyInv, Chain
    <2>3. \A i \in 1..Len(fly) : fly[i].pos \in 0..(RingSize - 1)
      BY <1>1, Shapes
    <2>4. fly'[Len(fly) + 1].pos = out /\ fly'[Len(fly) + 1].len = n /\ fly'[Len(fly) + 1].from = sentb
      BY <1>8
    <2>5. \A i \in 1..Len(fly') : sentb' - fly'[i].from <= Room(Len(fly') - i + 1)
      <3> TAKE i \in 1..Len(fly')
      <3>1. CASE i = Len(fly) + 1
        <4>1. Len(fly') - i + 1 = 1 /\ sentb' - fly'[i].from = n
          BY <1>3, <1>6, <1>8, <2>4, <3>1
        <4> QED BY <1>1, <1>6, <4>1, RoomOne
      <3>2. CASE i \in 1..Len(fly)
        <4>1. Len(fly) - i + 1 \in Nat /\ Len(fly') - i + 1 = (Len(fly) - i + 1) + 1
          BY <1>3, <1>8, <3>2
        <4>2. Room(Len(fly) - i + 1) \in Nat /\ Room(Len(fly') - i + 1) = Room(Len(fly) - i + 1) + MaxMsg
          BY <4>1, RoomNext
        <4>3. fly'[i] = fly[i] /\ sentb - fly[i].from <= Room(Len(fly) - i + 1) /\ fly[i].from \in Nat
          BY <1>8, <2>1, <2>2, <3>2
        <4> DEFINE f == fly[i].from
                   m == Room(Len(fly) - i + 1)
        <4>4. f \in Nat /\ m \in Nat /\ sentb - f <= m /\ fly'[i].from = f /\ Room(Len(fly') - i + 1) = m + MaxMsg
          BY <4>2, <4>3
        <4> HIDE DEF f, m
        <4>5. sentb + n - f <= m + MaxMsg
          BY <1>1, <1>3, <1>6, <4>4
        <4>6. sentb' - fly'[i].from = sentb + n - f
          BY <1>3, <1>6, <1>8, <4>4
        <4> QED BY <4>4, <4>5, <4>6
      <3> QED BY <1>3, <1>8, <3>1, <3>2
    <2>6. \A i \in 1..Len(fly') :
            /\ fly'[i].pos + fly'[i].len <= RingSize
            /\ \/ fly'[i].from - acked = fly'[i].pos - done
               \/ fly'[i].from - acked = fly'[i].pos - done + RingSize
      <3> TAKE i \in 1..Len(fly')
      <3>1. CASE i = Len(fly) + 1
        BY <1>7, <1>10, <2>4, <3>1
      <3>2. CASE i \in 1..Len(fly)
        BY <1>8, <2>1, <3>2
      <3> QED BY <1>3, <1>8, <3>1, <3>2
    <2>7. ASSUME NEW i \in 1..Len(fly'), NEW k \in 0..(fly'[i].len - 1)
          PROVE  ring'[fly'[i].pos + k] = fly'[i].from + k
      <3>1. CASE i = Len(fly) + 1
        <4>1. fly'[i].pos = out /\ fly'[i].len = n /\ fly'[i].from = sentb
          BY <2>4, <3>1
        <4>2. k \in 0..(n - 1)
          BY <4>1
        <4>3. out + k \in 0..(RingSize - 1) /\ out + k \in out..(out + n - 1) /\ (out + k) - out = k
          BY <1>1, <1>3, <1>6, <1>7, <4>2
        <4>4. ring'[out + k] = Cursor + ((out + k) - out)
          BY <1>2, <4>3
        <4> QED BY <1>5, <4>1, <4>3, <4>4
      <3>2. CASE i \in 1..Len(fly)
        <4> DEFINE f == fly[i].from
                   x == fly[i].pos
                   l == fly[i].len
        <4>1. fly'[i] = fly[i] /\ k \in 0..(l - 1)
          BY <1>8, <3>2
        <4>0. k \in 0..(fly[i].len - 1)
          BY <4>1
        <4>2. f \in Nat /\ l \in Nat /\ acked <= f /\ f + l <= sentb /\ x \in 0..(RingSize - 1)
          BY <2>2, <2>3, <3>2
        <4>3. /\ x + l <= RingSize /\ (f - acked = x - done \/ f - acked = x - done + RingSize)
              /\ ring[x + k] = f + k
          BY <2>1, <3>2, <4>0
        <4> HIDE DEF f, x, l
        <4>4. k \in Nat /\ f + k < sentb /\ x + k \in 0..(RingSize - 1)
          <5>1. k \in 0..(l - 1) /\ l \in Nat
            BY <4>1, <4>2
          <5>2. k \in Nat /\ k < l
            BY <5>1
          <5> QED BY <1>1, <1>3, <4>2, <4>3, <5>2
        <4>5. ~(out <= x + k /\ x + k <= out + n - 1)
          BY <1>1, <1>3, <1>6, <1>10, <4>2, <4>3, <4>4, RingApart
        <4>6. x + k \notin out..(out + n - 1)
          BY <4>5
        <4>7. ring'[x + k] = ring[x + k]
          BY <1>2, <4>4, <4>6
        <4> QED BY <4>1, <4>3, <4>7 DEF f, x
      <3> QED BY <1>3, <1>8, <3>1, <3>2
    <2> QED BY <1>9, <1>11, <2>5, <2>6, <2>7 DEF InRing
  <1> QED BY <1>8, <1>12, <1>13 DEF RdmaInv


LEMMA SeqOf ==
  ASSUME NEW R, NEW m \in Nat, NEW f \in [1..m -> R]
  PROVE  f \in Seq(R) /\ Len(f) = m
  OBVIOUS

\* r is s without its first k parts and the first bytes of the next one.
CutOff(s, r, k, cut) ==
  /\ Len(r) = Len(s) - k
  /\ \A i \in 1..Len(r) : r[i] = IF i = 1 THEN Part(s[k + 1].from + cut, s[k + 1].len - cut) ELSE s[k + i]

LEMMA ChainCut ==
  ASSUME NEW R, NEW s \in Seq(R), NEW a \in Nat, NEW t \in Nat, Chain(s, a, t),
         NEW k \in 0..Len(s), NEW b \in Nat, NEW cut \in Nat,
         k = Len(s) => b = t,
         k < Len(s) => cut < s[k + 1].len /\ s[k + 1].from + cut = b,
         NEW r, CutOff(s, r, k, cut)
  PROVE  Chain(r, b, t)
  <1> DEFINE n == Len(s)
             m == Len(r)
  <1>1. n \in Nat /\ k \in 0..n /\ m = n - k /\ m \in Nat
    BY DEF CutOff
  <1>2. /\ \A i \in 1..n : s[i].from \in Nat /\ s[i].len \in Nat \ {0}
        /\ \A i \in 1..n : a <= s[i].from /\ s[i].from + s[i].len <= t
        /\ \A i, j \in 1..n : i < j => s[i].from + s[i].len <= s[j].from
        /\ \A i \in 1..n : i < n => s[i + 1].from = s[i].from + s[i].len
        /\ n > 0 => s[n].from + s[n].len = t
    BY DEF Chain
  <1>3. CASE m = 0
    <2>1. k = Len(s)
      BY <1>1, <1>3
    <2>2. b = t
      BY <2>1
    <2> QED BY <1>3, <2>2 DEF Chain
  <1>4. CASE m > 0
    <2>1. k < Len(s) /\ k + 1 \in 1..n
      BY <1>1, <1>4
    <2> DEFINE e == s[k + 1].from + s[k + 1].len
    <2>2. /\ s[k + 1].from \in Nat /\ s[k + 1].len \in Nat /\ cut < s[k + 1].len /\ s[k + 1].from + cut = b
          /\ e \in Nat /\ e <= t
      <3>1. cut < s[k + 1].len /\ s[k + 1].from + cut = b
        BY <2>1
      <3>2. s[k + 1].from \in Nat /\ s[k + 1].len \in Nat /\ s[k + 1].from + s[k + 1].len <= t
        BY <1>2, <2>1
      <3> QED BY <3>1, <3>2
    <2>3. \A i \in 1..m : r[i] = IF i = 1 THEN Part(s[k + 1].from + cut, s[k + 1].len - cut) ELSE s[k + i]
      BY DEF CutOff
    <2> HIDE DEF n, m
    <2>4. r[1].from = b /\ r[1].len \in Nat \ {0} /\ r[1].from + r[1].len = e /\ b <= t
      <3>1. 1 \in 1..m
        BY <1>1, <1>4
      <3>2. r[1] = Part(s[k + 1].from + cut, s[k + 1].len - cut)
        BY <2>3, <3>1
      <3>3. r[1].from = s[k + 1].from + cut /\ r[1].len = s[k + 1].len - cut
        BY <3>2 DEF Part
      <3> DEFINE f == s[k + 1].from
                 l == s[k + 1].len
      <3>4. /\ f \in Nat /\ l \in Nat /\ cut < l /\ f + cut = b /\ e = f + l /\ e <= t
            /\ r[1].from = f + cut /\ r[1].len = l - cut
        BY <2>2, <3>3
      <3> HIDE DEF f, l, e
      <3>5. r[1].from \in Nat /\ r[1].len \in Nat \ {0}
        BY <3>4
      <3>6. (f + cut) + (l - cut) = f + l /\ b <= t
        BY <3>4
      <3> QED BY <3>4, <3>5, <3>6
    <2> HIDE DEF e
    <2>5. \A i \in 2..m : r[i] = s[k + i] /\ k + i \in 1..n /\ k + 1 < k + i /\ i \in 1..m
      BY <1>1, <2>3
    <2>6. \A i \in 2..m : /\ r[i].from \in Nat /\ r[i].len \in Nat \ {0}
                          /\ e <= r[i].from /\ r[i].from + r[i].len <= t
      <3> TAKE i \in 2..m
      <3>1. r[i] = s[k + i] /\ k + i \in 1..n /\ k + 1 < k + i
        BY <2>5
      <3>2. s[k + 1].from + s[k + 1].len <= s[k + i].from
        BY <1>2, <2>1, <3>1
      <3> QED BY <1>2, <3>1, <3>2 DEF e
    <2>7. \A i \in 1..m : i = 1 \/ i \in 2..m
      BY <1>1
    <2>8. \A i \in 1..m : r[i].from \in Nat /\ r[i].len \in Nat \ {0}
      BY <2>4, <2>6, <2>7
    <2>9. \A i \in 1..m : b <= r[i].from /\ r[i].from + r[i].len <= t
      <3> TAKE i \in 1..m
      <3>1. CASE i = 1
        BY <2>2, <2>4, <3>1
      <3>2. CASE i \in 2..m
        <4>1. r[i].from \in Nat /\ e <= r[i].from /\ r[i].from + r[i].len <= t
          BY <2>6, <3>2
        <4>2. b <= e
          BY <2>2, <2>4
        <4> QED BY <2>2, <4>1, <4>2
      <3> QED BY <2>7, <3>1, <3>2
    <2>10. \A i, j \in 1..m : i < j => r[i].from + r[i].len <= r[j].from
      <3> TAKE i, j \in 1..m
      <3> HAVE i < j
      <3>1. j \in 2..m
        BY <1>1
      <3>2. CASE i = 1
        BY <2>4, <2>6, <3>1, <3>2
      <3>3. CASE i \in 2..m
        <4>1. k + i \in 1..n /\ k + j \in 1..n /\ r[i] = s[k + i] /\ r[j] = s[k + j]
          BY <2>5, <3>1, <3>3
        <4>2. k + i < k + j
          BY <1>1
        <4>3. s[k + i].from + s[k + i].len <= s[k + j].from
          BY <1>2, <4>1, <4>2
        <4> QED BY <4>1, <4>3
      <3> QED BY <2>7, <3>2, <3>3
    <2>11. \A i \in 1..m : i < m => r[i + 1].from = r[i].from + r[i].len
      <3> TAKE i \in 1..m
      <3> HAVE i < m
      <3>1. i + 1 \in 2..m /\ k + i \in 1..n /\ k + i < n /\ k + (i + 1) = (k + i) + 1
        BY <1>1
      <3>2. r[i + 1] = s[(k + i) + 1] /\ s[(k + i) + 1].from = s[k + i].from + s[k + i].len
        BY <1>2, <2>5, <3>1
      <3>3. CASE i = 1
        BY <2>4, <3>2, <3>3 DEF e
      <3>4. CASE i \in 2..m
        BY <2>5, <3>2, <3>4
      <3> QED BY <2>7, <3>3, <3>4
    <2>12. r[m].from + r[m].len = t
      <3>1. m \in 1..m /\ k + m = n /\ n > 0
        BY <1>1, <1>4
      <3>2. CASE m = 1
        <4>1. k + 1 = n
          BY <3>1, <3>2
        <4> QED BY <1>2, <2>4, <3>1, <3>2, <4>1 DEF e
      <3>3. CASE m \in 2..m
        BY <1>2, <2>5, <3>1, <3>3
      <3> QED BY <2>7, <3>1, <3>2, <3>3
    <2> QED BY <1>1, <1>4, <2>4, <2>8, <2>9, <2>10, <2>11, <2>12 DEF Chain, m
  <1> QED BY <1>1, <1>3, <1>4


\* handle_rdma_events takes the bytes of the oldest message off send_list, and the
\* position in the list stays at the same byte.
LEMMA CompletedList ==
  ASSUME RdmaInv, SendCompleted
  PROVE  /\ ListInv' /\ list' \in Seq(Parts) /\ pos' \in 0..Len(list') /\ off' \in Nat
         /\ Len(fly) > 0 /\ acked' = acked + fly[1].len /\ acked' \in Nat
         /\ fly[1].len \in Nat \ {0} /\ acked' <= sentb
  <1> DEFINE n == fly[1].len
             a == acked + n
             m == Len(list)
  <1>1. RdmaTypeOK /\ ListInv /\ FlyInv /\ Chain(list, acked, total) /\ Chain(fly, acked, sentb)
    BY DEF RdmaInv, ListInv, FlyInv
  <1>2. /\ m \in Nat /\ list \in Seq(Parts) /\ pos \in 0..m /\ off \in Nat /\ Len(fly) \in Nat
        /\ acked \in Nat /\ sentb \in Nat /\ total \in Nat /\ moved \in 0..Len(fly) /\ fly \in Seq(Sends)
    BY <1>1 DEF RdmaTypeOK
  <1>3. Len(fly) > 0
    BY <1>2 DEF SendCompleted
  <1>4. Head(fly) = fly[1]
    BY <1>2, <1>3
  <1>5. 1 \in 1..Len(fly)
    BY <1>2, <1>3
  <1>6. n \in Nat \ {0} /\ a \in Nat /\ acked < a /\ a <= sentb
    <2>1. fly[1].len \in Nat \ {0} /\ fly[1].from + fly[1].len <= sentb /\ fly[1].from = acked
      BY <1>1, <1>3, <1>5 DEF Chain
    <2> QED BY <1>2, <2>1
  <1>7. /\ \A i \in 1..m : list[i].from \in Nat /\ list[i].len \in Nat \ {0}
        /\ \A i \in 1..m : list[i].from + list[i].len <= total
        /\ \A i, j \in 1..m : i < j => list[i].from + list[i].len <= list[j].from
        /\ m = 0 => acked = total
        /\ m > 0 => list[1].from = acked
    BY <1>1 DEF Chain
  <1>8. /\ pos = m => off = 0 /\ sentb = total
        /\ pos < m => off < list[pos + 1].len /\ list[pos + 1].from + off = sentb
    BY <1>1 DEF ListInv
  <1>9. sentb <= total
    <2>1. CASE pos = m
      BY <1>2, <1>8, <2>1
    <2>2. CASE pos < m
      <3>1. pos + 1 \in 1..m
        BY <1>2, <2>2
      <3>2. list[pos + 1].from \in Nat /\ list[pos + 1].len \in Nat /\ list[pos + 1].from + list[pos + 1].len <= total
        BY <1>7, <3>1
      <3> QED BY <1>2, <1>8, <2>2, <3>2
    <2> QED BY <1>2, <2>1, <2>2
  <1>10. m > 0 /\ list[1].from = acked
    BY <1>2, <1>6, <1>7, <1>9
  <1>11. PICK k \in 0..Len(list) :
           LET cut == PartOffset(list[1].from + Head(fly).len, k)
           IN /\ PartOf(list[1].from + Head(fly).len, k)
              /\ pos' = pos - k
              /\ off' = IF pos = k THEN off - cut ELSE off
              /\ list' = [i \in 1..(Len(list) - k) |->
                            IF i = 1 THEN Part(list[k + 1].from + cut, list[k + 1].len - cut)
                            ELSE list[k + i]]
    BY DEF SendCompleted
  <1> DEFINE cut == PartOffset(a, k)
  <1>12. list[1].from + Head(fly).len = a
    BY <1>4, <1>10
  <1>13. /\ PartOf(a, k) /\ pos' = pos - k /\ off' = IF pos = k THEN off - cut ELSE off
         /\ list' = [i \in 1..(m - k) |-> IF i = 1 THEN Part(list[k + 1].from + cut, list[k + 1].len - cut)
                                          ELSE list[k + i]]
    BY <1>11, <1>12
  <1>14. acked' = a /\ sentb' = sentb /\ total' = total
    BY <1>4 DEF SendCompleted
  <1>15. a \in acked..total
    BY <1>2, <1>6, <1>9
  <1> HIDE DEF a, n
  <1>16. /\ cut \in Nat
         /\ k = Len(list) => cut = 0 /\ a = total
         /\ k < Len(list) => cut < list[k + 1].len /\ list[k + 1].from + cut = a
         /\ k > 0 => list[k].from + list[k].len <= a
    BY <1>1, <1>13, <1>15, PartPosition
  <1> HIDE DEF cut
  <1>17. k \in 0..m /\ m - k \in Nat
    BY <1>2
  <1>18. list' \in [1..(m - k) -> Parts]
    <2> SUFFICES ASSUME NEW i \in 1..(m - k)
                 PROVE  (IF i = 1 THEN Part(list[k + 1].from + cut, list[k + 1].len - cut) ELSE list[k + i]) \in Parts
      BY <1>13
    <2>1. k + i \in 1..m /\ k + 1 \in 1..m /\ k < m
      BY <1>2, <1>17
    <2>2. list[k + i] \in Parts
      BY <1>2, <2>1, ElementIn
    <2>3. list[k + 1].from \in Nat /\ list[k + 1].len \in Nat /\ cut < list[k + 1].len
      BY <1>7, <1>16, <2>1
    <2>4. list[k + 1].from + cut \in Nat /\ list[k + 1].len - cut \in Nat
      BY <1>16, <2>3
    <2>5. Part(list[k + 1].from + cut, list[k + 1].len - cut) \in Parts
      BY <2>4 DEF Part, Parts
    <2> QED BY <2>2, <2>5
  <1>19. list' \in Seq(Parts) /\ Len(list') = m - k
    BY <1>17, <1>18, SeqOf
  <1>20. \A i \in 1..Len(list') : list'[i] = IF i = 1 THEN Part(list[k + 1].from + cut, list[k + 1].len - cut)
                                             ELSE list[k + i]
    BY <1>13, <1>19
  <1>21. Chain(list', a, total)
    <2>1. /\ k \in 0..Len(list) /\ a \in Nat /\ (k = Len(list) => a = total)
          /\ (k < Len(list) => cut < list[k + 1].len /\ list[k + 1].from + cut = a) /\ Len(list') = Len(list) - k
          /\ cut \in Nat /\ list \in Seq(Parts) /\ acked \in Nat /\ total \in Nat /\ Chain(list, acked, total)
      BY <1>1, <1>2, <1>6, <1>16, <1>19
    <2>2. CutOff(list, list', k, cut)
      BY <1>20, <2>1 DEF CutOff
    <2> QED BY <2>1, <2>2, ChainCut
  <1>22. k <= pos
    <2>1. CASE pos = m
      BY <1>17, <2>1
    <2>2. CASE pos < m
      <3> SUFFICES ASSUME pos + 1 <= k PROVE FALSE
        BY <1>2, <1>17
      <3>1. pos + 1 \in 1..m /\ k \in 1..m /\ k > 0
        BY <1>2, <1>17
      <3>2. /\ list[pos + 1].from \in Nat /\ list[pos + 1].len \in Nat /\ list[k].from \in Nat /\ list[k].len \in Nat
        BY <1>7, <3>1
      <3> DEFINE e == list[pos + 1].from + list[pos + 1].len
                 f == list[k].from + list[k].len
      <3>3. e \in Nat /\ f \in Nat /\ sentb < e /\ f <= a
        <4>1. list[pos + 1].from + off = sentb /\ off < list[pos + 1].len
          BY <1>8, <2>2
        <4>2. list[k].from + list[k].len <= a
          BY <1>16, <3>1
        <4>3. e \in Nat /\ f \in Nat
          BY <3>2
        <4>4. sentb < e
          BY <1>2, <3>2, <4>1
        <4> QED BY <4>2, <4>3, <4>4
      <3>4. e <= f
        <4>1. CASE k = pos + 1
          BY <3>3, <4>1
        <4>2. CASE pos + 1 < k
          <5>1. list[pos + 1].from + list[pos + 1].len <= list[k].from
            BY <1>7, <3>1, <4>2
          <5> QED BY <3>2, <3>3, <5>1
        <4> QED BY <1>2, <1>17, <4>1, <4>2
      <3> HIDE DEF e, f
      <3> QED BY <1>2, <1>6, <3>3, <3>4
    <2> QED BY <1>2, <2>1, <2>2
  <1>23. pos' \in 0..Len(list')
    BY <1>2, <1>13, <1>17, <1>19, <1>22
  <1>24. /\ pos' = Len(list') => off' = 0 /\ sentb = total
         /\ pos' < Len(list') => off' < list'[pos' + 1].len /\ list'[pos' + 1].from + off' = sentb
         /\ off' \in Nat
    <2>1. CASE pos = m
      <3>1. off = 0 /\ sentb = total /\ pos' = Len(list')
        BY <1>2, <1>8, <1>13, <1>17, <1>19, <2>1
      <3>2. off' = 0
        BY <1>13, <1>16, <2>1, <3>1
      <3> QED BY <1>19, <3>1, <3>2
    <2>2. CASE pos < m /\ pos = k
      <3>1. pos' = 0 /\ 1 \in 1..Len(list') /\ pos' < Len(list') /\ k + 1 \in 1..m
        BY <1>2, <1>13, <1>17, <1>19, <2>2
      <3>2. list'[1] = Part(list[k + 1].from + cut, list[k + 1].len - cut)
        BY <1>20, <3>1
      <3>3. list'[1].from = list[k + 1].from + cut /\ list'[1].len = list[k + 1].len - cut
        BY <3>2 DEF Part
      <3> DEFINE f == list[k + 1].from
                 l == list[k + 1].len
      <3>4. /\ f \in Nat /\ l \in Nat /\ off < l /\ f + off = sentb /\ f + cut = a /\ cut < l
            /\ list'[1].from = f + cut /\ list'[1].len = l - cut /\ off' = off - cut
        BY <1>7, <1>8, <1>13, <1>16, <2>2, <3>1, <3>3
      <3> HIDE DEF f, l
      <3>5. cut <= off
        BY <1>2, <1>6, <1>16, <3>4
      <3>6. off - cut \in Nat /\ off - cut < l - cut /\ (f + cut) + (off - cut) = sentb
        BY <1>2, <1>16, <3>4, <3>5
      <3>7. list'[pos' + 1] = list'[1]
        BY <3>1
      <3> QED BY <3>1, <3>4, <3>6, <3>7
    <2>3. CASE pos < m /\ k < pos
      <3>1. /\ pos' + 1 \in 1..Len(list') /\ pos' + 1 # 1 /\ k + (pos' + 1) = pos + 1 /\ pos' < Len(list')
            /\ pos # k
        BY <1>2, <1>13, <1>17, <1>19, <2>3
      <3>2. list'[pos' + 1] = list[pos + 1]
        BY <1>20, <3>1
      <3>3. off' = off
        BY <1>13, <3>1
      <3> QED BY <1>2, <1>8, <1>19, <2>3, <3>1, <3>2, <3>3
    <2> QED BY <1>2, <1>17, <1>22, <2>1, <2>2, <2>3
  <1>25. ListInv'
    BY <1>14, <1>21, <1>24 DEF ListInv
  <1> QED BY <1>3, <1>6, <1>14, <1>19, <1>23, <1>24, <1>25 DEF a, n


\* A message is completed in the ring: f, x are the first byte and the place of a
\* message that follows it, or the byte and the place after the last one.
LEMMA RingCompleted ==
  ASSUME NEW r \in Nat \ {0}, NEW d \in 0..(r - 1), NEW x \in 0..(r - 1), NEW a \in Nat, NEW f \in Nat,
         NEW n \in Nat \ {0}, d + n <= r, a + n <= f, f - a = x - d \/ f - a = x - d + r,
         NEW e, e = IF d + n = r THEN 0 ELSE d + n
  PROVE  e \in 0..(r - 1) /\ (f - (a + n) = x - e \/ f - (a + n) = x - e + r)
  OBVIOUS

LEMMA SendCompletedInv == ASSUME RdmaInv, SendCompleted PROVE RdmaInv'
  <1> DEFINE n == fly[1].len
  <1>1. RdmaTypeOK /\ FlyInv /\ RecvInv /\ Chain(fly, acked, sentb) /\ RingSize \in Nat \ {0}
    BY RingPositive DEF RdmaInv, FlyInv
  <1>2. /\ Len(fly) \in Nat /\ acked \in Nat /\ sentb \in Nat /\ total \in Nat /\ moved \in 0..Len(fly)
        /\ fly \in Seq(Sends) /\ out \in 0..(RingSize - 1) /\ done \in 0..(RingSize - 1)
    BY <1>1 DEF RdmaTypeOK, Slots
  <1>3. /\ ListInv' /\ list' \in Seq(Parts) /\ pos' \in 0..Len(list') /\ off' \in Nat
        /\ Len(fly) > 0 /\ acked' = acked + n /\ acked' \in Nat
        /\ n \in Nat \ {0} /\ acked' <= sentb
    BY CompletedList
  <1>4. /\ Tail(fly) \in Seq(Sends) /\ Len(Tail(fly)) = Len(fly) - 1
        /\ \A i \in 1..(Len(fly) - 1) : Tail(fly)[i] = fly[i + 1]
        /\ Head(fly) = fly[1]
    BY <1>2, <1>3, TailFacts
  <1>5. /\ moved > 0 /\ fly' = Tail(fly) /\ moved' = moved - 1
        /\ odp => UNCHANGED <<done, full>>
        /\ ~odp => done' = (IF done + n = RingSize THEN 0 ELSE done + n) /\ full' = FALSE
        /\ looping' = TRUE
        /\ UNCHANGED <<odp, out, ring, total, sentb, posted, filled, buf, nextbuf, got, up>>
    BY <1>4 DEF SendCompleted, recvVars
  <1>6. /\ fly' \in Seq(Sends) /\ Len(fly') = Len(fly) - 1
        /\ \A i \in 1..Len(fly') : fly'[i] = fly[i + 1] /\ i + 1 \in 1..Len(fly)
    BY <1>2, <1>4, <1>5
  <1>7. moved' \in 0..Len(fly')
    BY <1>2, <1>5, <1>6
  <1>8. Chain(fly', acked', sentb')
    <2>1. Chain(Tail(fly), acked + fly[1].len, sentb)
      BY <1>1, <1>2, <1>3, ChainTail
    <2> QED BY <1>3, <1>5, <2>1
  <1> HIDE DEF n
  <1>9. ~odp => done + n <= RingSize
    <2> HAVE ~odp
    <2>1. 1 \in 1..Len(fly)
      BY <1>2, <1>3
    <2>2. fly[1].from = acked /\ fly[1].pos \in 0..(RingSize - 1)
      BY <1>1, <1>3, <2>1, Shapes DEF Chain
    <2>3. /\ fly[1].pos + n <= RingSize
          /\ fly[1].from - acked = fly[1].pos - done \/ fly[1].from - acked = fly[1].pos - done + RingSize
      BY <2>1 DEF RdmaInv, InRing, n
    <2> DEFINE x == fly[1].pos
    <2>4. x \in 0..(RingSize - 1) /\ x + n <= RingSize /\ (0 = x - done \/ 0 = x - done + RingSize)
      BY <1>2, <2>2, <2>3
    <2> HIDE DEF x
    <2> QED BY <1>1, <1>2, <1>3, <2>4
  <1>10. done' \in Slots
    <2>1. CASE odp
      BY <1>2, <1>5, <2>1 DEF Slots
    <2>2. CASE ~odp
      BY <1>1, <1>2, <1>3, <1>5, <1>9, <2>2 DEF Slots
    <2> QED BY <2>1, <2>2
  <1>11. RdmaTypeOK'
    <2>1. full' \in BOOLEAN /\ looping' \in BOOLEAN
      BY <1>1, <1>5 DEF RdmaTypeOK
    <2>2. /\ odp \in BOOLEAN /\ up \in BOOLEAN /\ out \in Slots /\ ring \in [Slots -> Int]
          /\ posted \in Seq(Bufs) /\ filled \in Seq(Fills) /\ buf \in [Bufs -> Seq(Int)] /\ nextbuf \in Bufs
          /\ got \in Seq(Int) /\ total \in Nat /\ sentb \in Nat
      BY <1>1 DEF RdmaTypeOK
    <2> QED BY <1>3, <1>5, <1>6, <1>7, <1>10, <2>1, <2>2 DEF RdmaTypeOK
  <1>12. FlyInv'
    <2>1. Len(fly') <= MaxSend
      BY <1>1, <1>2, <1>6, RdmaAssumption DEF FlyInv
    <2>2. \A i \in 1..Len(fly') : fly'[i].len <= MaxMsg /\ fly'[i].src = fly'[i].from
      BY <1>1, <1>6 DEF FlyInv
    <2>3. full' => ~odp /\ Len(fly') > 0
      <3>1. CASE ~odp
        BY <1>5, <3>1
      <3>2. CASE odp
        <4>1. ~full
          BY <3>2 DEF RdmaInv, FlyInv
        <4> QED BY <1>5, <3>2, <4>1
      <3> QED BY <3>1, <3>2
    <2> QED BY <1>5, <1>8, <2>1, <2>2, <2>3 DEF FlyInv
  <1>13. InRing'
    <2> SUFFICES ASSUME ~odp PROVE InRing'
      BY <1>5 DEF InRing
    <2>1. /\ \A i \in 1..Len(fly) : sentb - fly[i].from <= Room(Len(fly) - i + 1)
          /\ sentb - acked = out - done \/ sentb - acked = out - done + RingSize
          /\ \A i \in 1..Len(fly) :
               /\ fly[i].pos + fly[i].len <= RingSize
               /\ \/ fly[i].from - acked = fly[i].pos - done
                  \/ fly[i].from - acked = fly[i].pos - done + RingSize
               /\ \A k \in 0..(fly[i].len - 1) : ring[fly[i].pos + k] = fly[i].from + k
      BY DEF RdmaInv, InRing
    <2>2. done' = (IF done + n = RingSize THEN 0 ELSE done + n) /\ done + n <= RingSize
      BY <1>5, <1>9
    <2>3. sentb - acked' = out - done' \/ sentb - acked' = out - done' + RingSize
      <3>1. acked + n <= sentb /\ acked' = acked + n
        BY <1>3
      <3> QED BY <1>1, <1>2, <1>3, <2>1, <2>2, <3>1, RingCompleted
    <2>4. \A i \in 1..Len(fly') : sentb - fly'[i].from <= Room(Len(fly') - i + 1)
      <3> TAKE i \in 1..Len(fly')
      <3>1. fly'[i] = fly[i + 1] /\ i + 1 \in 1..Len(fly) /\ Len(fly) - (i + 1) + 1 = Len(fly') - i + 1
        BY <1>2, <1>6
      <3>2. sentb - fly[i + 1].from <= Room(Len(fly) - (i + 1) + 1)
        BY <2>1, <3>1
      <3> QED BY <3>1, <3>2
    <2>5. ASSUME NEW i \in 1..Len(fly')
          PROVE  /\ fly'[i].pos + fly'[i].len <= RingSize
                 /\ \/ fly'[i].from - acked' = fly'[i].pos - done'
                    \/ fly'[i].from - acked' = fly'[i].pos - done' + RingSize
                 /\ \A k \in 0..(fly'[i].len - 1) : ring[fly'[i].pos + k] = fly'[i].from + k
      <3> DEFINE f == fly[i + 1].from
                 x == fly[i + 1].pos
      <3>1. fly'[i] = fly[i + 1] /\ i + 1 \in 1..Len(fly)
        BY <1>6
      <3>2. /\ fly[i + 1].pos + fly[i + 1].len <= RingSize
            /\ f - acked = x - done \/ f - acked = x - done + RingSize
            /\ \A k \in 0..(fly[i + 1].len - 1) : ring[fly[i + 1].pos + k] = fly[i + 1].from + k
        BY <2>1, <3>1
      <3>3. f \in Nat /\ x \in 0..(RingSize - 1)
        BY <1>1, <3>1, Shapes
      <3>4. acked + n <= f
        <4>1. acked' <= fly'[i].from
          BY <1>8 DEF Chain
        <4> QED BY <1>3, <3>1, <4>1
      <3> HIDE DEF f, x
      <3>5. f - (acked + n) = x - done' \/ f - (acked + n) = x - done' + RingSize
        BY <1>1, <1>2, <1>3, <2>2, <3>2, <3>3, <3>4, RingCompleted
      <3>6. fly'[i].from = f /\ fly'[i].pos = x
        BY <3>1 DEF f, x
      <3>7. fly'[i].from - acked' = fly'[i].pos - done' \/ fly'[i].from - acked' = fly'[i].pos - done' + RingSize
        BY <1>3, <3>5, <3>6
      <3> QED BY <3>1, <3>2, <3>7
    <2> QED BY <1>5, <2>3, <2>4, <2>5 DEF InRing
  <1>14. MovedTo' = MovedTo
    <2>1. moved' < Len(fly') <=> moved < Len(fly)
      BY <1>2, <1>5, <1>6
    <2>2. CASE moved < Len(fly)
      <3>1. moved' + 1 \in 1..Len(fly') /\ (moved' + 1) + 1 = moved + 1
        BY <1>2, <1>5, <1>6, <2>2
      <3>2. fly'[moved' + 1] = fly[moved + 1]
        BY <1>6, <3>1
      <3> QED BY <2>1, <2>2, <3>2 DEF MovedTo
    <2>3. CASE ~(moved < Len(fly))
      BY <1>5, <2>1, <2>3 DEF MovedTo
    <2> QED BY <2>2, <2>3
  <1>15. RecvInv'
    BY <1>1, <1>5, <1>14 DEF RecvInv, Chain, Turn
  <1> QED BY <1>3, <1>11, <1>12, <1>13, <1>15 DEF RdmaInv


-----------------------------------------------------------------------------
(* The device and the receiver.                                             *)

\* What a message is in memory when the device moves it.
LEMMA ContentRight ==
  ASSUME RdmaInv, NEW i \in 1..Len(fly)
  PROVE  /\ Content(fly[i]) \in Seq(Int) /\ Len(Content(fly[i])) = fly[i].len
         /\ \A j \in 1..fly[i].len : Content(fly[i])[j] = fly[i].from + (j - 1)
  <1> DEFINE m == fly[i]
             g(j) == IF ~odp THEN ring[m.pos + j - 1]
                     ELSE IF list # << >> /\ m.src + j - 1 >= list[1].from THEN m.src + j - 1 ELSE Garbage
  <1>1. RdmaTypeOK /\ Chain(fly, acked, sentb) /\ Chain(list, acked, total)
    BY DEF RdmaInv, ListInv, FlyInv
  <1>2. /\ m.from \in Nat /\ m.len \in Nat \ {0} /\ m.pos \in Nat /\ m.src = m.from /\ acked <= m.from
        /\ m.from + m.len <= sentb /\ acked \in Nat /\ sentb \in Nat /\ total \in Nat
    <2>1. m.from \in Nat /\ m.len \in Nat \ {0} /\ acked <= m.from /\ m.from + m.len <= sentb
      BY <1>1 DEF Chain
    <2>2. m.pos \in 0..(RingSize - 1) /\ RingSize \in Nat
      BY <1>1, RingPositive, Shapes
    <2>3. m.src = m.from
      BY DEF RdmaInv, FlyInv
    <2> QED BY <1>1, <2>1, <2>2, <2>3 DEF RdmaTypeOK
  <1>3. list # << >> /\ list[1].from = acked
    <2>1. sentb <= total /\ Len(list) \in Nat /\ pos \in 0..Len(list) /\ off \in Nat
      <3>1. Len(list) \in Nat /\ pos \in 0..Len(list) /\ off \in Nat
        BY <1>1 DEF RdmaTypeOK
      <3>2. CASE pos = Len(list)
        BY <1>2, <3>1, <3>2 DEF RdmaInv, ListInv
      <3>3. CASE pos < Len(list)
        <4>1. pos + 1 \in 1..Len(list)
          BY <3>1, <3>3
        <4>2. /\ list[pos + 1].from \in Nat /\ list[pos + 1].len \in Nat
              /\ list[pos + 1].from + list[pos + 1].len <= total
          BY <1>1, <4>1 DEF Chain
        <4>3. off < list[pos + 1].len /\ list[pos + 1].from + off = sentb
          BY <3>3 DEF RdmaInv, ListInv
        <4> QED BY <1>2, <3>1, <4>2, <4>3
      <3> QED BY <3>1, <3>2, <3>3
    <2>2. Len(list) # 0
      <3>1. acked # total
        BY <1>2, <2>1
      <3> QED BY <1>1, <3>1 DEF Chain
    <2>3. list # << >>
      BY <2>2
    <2> QED BY <1>1, <2>1, <2>2, <2>3 DEF Chain
  <1>4. \A j \in 1..m.len : g(j) = m.from + (j - 1)
    <2> TAKE j \in 1..m.len
    <2>1. j \in Nat /\ j >= 1 /\ j <= m.len
      BY <1>2
    <2>2. CASE odp
      <3>1. m.src + j - 1 = m.from + (j - 1) /\ m.src + j - 1 >= list[1].from
        BY <1>2, <1>3, <2>1
      <3> QED BY <1>3, <2>2, <3>1
    <2>3. CASE ~odp
      <3>1. \A k \in 0..(m.len - 1) : ring[m.pos + k] = m.from + k
        BY <2>3 DEF RdmaInv, InRing
      <3>2. j - 1 \in 0..(m.len - 1) /\ m.pos + (j - 1) = m.pos + j - 1
        BY <1>2, <2>1
      <3>3. ring[m.pos + j - 1] = m.from + (j - 1)
        BY <3>1, <3>2
      <3> QED BY <2>3, <3>3
    <2> QED BY <2>2, <2>3
  <1>5. Content(fly[i]) = [j \in 1..m.len |-> g(j)]
    BY DEF Content
  <1>6. \A j \in 1..m.len : g(j) \in Int
    BY <1>2, <1>4
  <1> HIDE DEF g
  <1>7. Content(fly[i]) \in [1..m.len -> Int]
    BY <1>5, <1>6
  <1>8. Content(fly[i]) \in Seq(Int) /\ Len(Content(fly[i])) = m.len
    BY <1>2, <1>7, SeqOf
  <1> QED BY <1>4, <1>5, <1>8

\* Two buffers of one turn are different ones.
LEMMA TurnFacts ==
  ASSUME MaxRecv \in Nat \ {0}, nextbuf \in 0..(MaxRecv - 1)
  PROVE  /\ \A k \in 0..(MaxRecv - 1) : Turn(k) \in 0..(MaxRecv - 1)
         /\ \A j, k \in 0..(MaxRecv - 1) : j # k => Turn(j) # Turn(k)
         /\ Turn(0) = nextbuf
  BY DEF Turn

LEMMA TransferInv == ASSUME RdmaInv, Transfer PROVE RdmaInv'
  <1> DEFINE m == fly[moved + 1]
             b == Head(posted)
             x == [buf |-> b, len |-> m.len, from |-> m.from]
             f == Len(filled)
  <1>1. /\ RdmaTypeOK /\ ListInv /\ FlyInv /\ InRing /\ RecvInv /\ Chain(fly, acked, sentb)
        /\ MaxRecv \in Nat \ {0} /\ Chain(filled, Len(got), MovedTo)
    BY RdmaAssumption DEF RdmaInv, FlyInv, RecvInv
  <1>2. /\ moved < Len(fly) /\ posted # << >>
        /\ moved' = moved + 1 /\ posted' = Tail(posted)
        /\ filled' = Append(filled, x)
        /\ buf' = [buf EXCEPT ![b] = Content(m)]
        /\ UNCHANGED <<odp, list, pos, off, out, done, full, ring, looping, total, sentb, acked, fly, nextbuf, got, up>>
    BY DEF Transfer, sendVars
  <1>3. /\ Len(fly) \in Nat /\ moved \in 0..Len(fly) /\ f \in Nat /\ Len(posted) \in Nat /\ Len(got) \in Nat
        /\ sentb \in Nat /\ posted \in Seq(Bufs) /\ filled \in Seq(Fills) /\ buf \in [Bufs -> Seq(Int)]
        /\ nextbuf \in 0..(MaxRecv - 1)
    BY <1>1 DEF RdmaTypeOK, Bufs
  <1>4. moved + 1 \in 1..Len(fly) /\ moved' \in 0..Len(fly) /\ Len(posted) > 0
    BY <1>2, <1>3
  <1>5. /\ m.len \in Nat \ {0} /\ m.from \in Nat /\ m.from = MovedTo
        /\ MovedTo' = m.from + m.len
    <2>1. m.len \in Nat \ {0} /\ m.from \in Nat
      BY <1>1, <1>4 DEF Chain
    <2>2. m.from = MovedTo
      BY <1>2 DEF MovedTo
    <2>3. CASE moved + 1 < Len(fly)
      <3>1. fly[(moved + 1) + 1].from = m.from + m.len
        BY <1>1, <1>4, <2>3 DEF Chain
      <3>2. MovedTo' = fly[(moved + 1) + 1].from
        BY <1>2, <2>3 DEF MovedTo
      <3> QED BY <2>1, <2>2, <3>1, <3>2
    <2>4. CASE moved + 1 = Len(fly)
      <3>1. Len(fly) > 0
        BY <1>3, <1>4
      <3>2. m.from + m.len = sentb
        BY <1>1, <2>4, <3>1 DEF Chain
      <3>3. ~(moved' < Len(fly'))
        BY <1>2, <1>3, <2>4
      <3>4. MovedTo' = sentb
        BY <1>2, <3>3 DEF MovedTo
      <3> QED BY <2>1, <2>2, <3>2, <3>4
    <2> QED BY <1>3, <1>4, <2>1, <2>2, <2>3, <2>4
  <1>6. /\ Content(m) \in Seq(Int) /\ Len(Content(m)) = m.len
        /\ \A j \in 1..m.len : Content(m)[j] = m.from + (j - 1)
    BY <1>4, ContentRight
  <1> HIDE DEF m
  <1>7. /\ b \in Bufs /\ b = posted[1] /\ posted' \in Seq(Bufs) /\ Len(posted') = Len(posted) - 1
        /\ \A i \in 1..(Len(posted) - 1) : posted'[i] = posted[i + 1]
    BY <1>2, <1>3, <1>4, TailFacts
  <1> HIDE DEF b
  <1>8. x \in Fills /\ x.buf = b /\ x.len = m.len /\ x.from = m.from
    BY <1>5, <1>7 DEF Fills
  <1> HIDE DEF x
  <1>9. /\ filled' \in Seq(Fills) /\ Len(filled') = f + 1 /\ \A i \in 1..f : filled'[i] = filled[i]
        /\ filled'[f + 1] = x
    BY <1>2, <1>3, <1>8, AppendFacts
  <1>10. buf' \in [Bufs -> Seq(Int)] /\ buf'[b] = Content(m) /\ \A c \in Bufs : c # b => buf'[c] = buf[c]
    BY <1>2, <1>3, <1>6, <1>7
  <1>11. RdmaTypeOK'
    BY <1>1, <1>2, <1>4, <1>7, <1>9, <1>10 DEF RdmaTypeOK
  <1>12. ListInv' /\ FlyInv' /\ InRing'
    BY <1>1, <1>2 DEF ListInv, FlyInv, InRing, Chain, Room
  <1>13. f + Len(posted) = MaxRecv
    BY <1>1, <1>3, <1>4 DEF RecvInv
  <1>14. /\ \A i \in 1..f : filled[i].buf = Turn(i - 1)
         /\ \A i \in 1..Len(posted) : posted[i] = Turn(f + i - 1)
         /\ \A i \in 1..f :
              /\ filled[i].len = Len(buf[filled[i].buf])
              /\ \A k \in 1..filled[i].len : buf[filled[i].buf][k] = filled[i].from + (k - 1)
         /\ \A i \in 1..Len(got) : got[i] = i - 1
    BY <1>1 DEF RecvInv
  <1>15. b = Turn(f) /\ f \in 0..(MaxRecv - 1)
    <2>1. 1 \in 1..Len(posted) /\ f + 1 - 1 = f
      BY <1>3, <1>4
    <2>2. posted[1] = Turn(f + 1 - 1)
      BY <1>14, <2>1
    <2> QED BY <1>1, <1>3, <1>4, <1>7, <1>13, <2>1, <2>2
  <1> HIDE DEF f
  <1>16. \A i \in 1..f : filled[i].buf # b /\ filled[i].buf \in Bufs
    <2> TAKE i \in 1..f
    <2>1. i - 1 \in 0..(MaxRecv - 1) /\ i - 1 # f
      BY <1>1, <1>3, <1>15
    <2>2. Turn(i - 1) # Turn(f) /\ Turn(i - 1) \in 0..(MaxRecv - 1)
      BY <1>1, <1>3, <1>15, <2>1, TurnFacts
    <2> QED BY <1>14, <1>15, <2>2 DEF Bufs
  <1>17. Chain(filled', Len(got), MovedTo')
    <2>1. Chain(Append(filled, x), Len(got), MovedTo + x.len)
      <3>1. x.from = MovedTo /\ MovedTo \in Nat /\ x.len \in Nat \ {0}
        BY <1>5, <1>8
      <3> QED BY <1>1, <1>3, <1>8, <3>1, ChainAppend
    <2> QED BY <1>2, <1>5, <1>8, <2>1
  <1>18. \A i \in 1..Len(filled') :
           /\ filled'[i].buf = Turn(i - 1)
           /\ filled'[i].len = Len(buf'[filled'[i].buf])
           /\ \A k \in 1..filled'[i].len : buf'[filled'[i].buf][k] = filled'[i].from + (k - 1)
    <2> TAKE i \in 1..Len(filled')
    <2>1. CASE i = f + 1
      <3>1. filled'[i] = x /\ i - 1 = f
        BY <1>3, <1>9, <2>1 DEF f
      <3>2. filled'[i].buf = b /\ filled'[i].len = m.len /\ filled'[i].from = m.from
        BY <1>8, <3>1
      <3> QED BY <1>6, <1>10, <1>15, <3>1, <3>2
    <2>2. CASE i \in 1..f
      <3>1. filled'[i] = filled[i]
        BY <1>9, <2>2
      <3>2. buf'[filled[i].buf] = buf[filled[i].buf]
        BY <1>10, <1>16, <2>2
      <3> QED BY <1>14, <2>2, <3>1, <3>2
    <2> QED BY <1>3, <1>9, <2>1, <2>2 DEF f
  <1>19. \A i \in 1..Len(posted') : posted'[i] = Turn(Len(filled') + i - 1)
    <2> TAKE i \in 1..Len(posted')
    <2>1. /\ i \in 1..(Len(posted) - 1) /\ i + 1 \in 1..Len(posted) /\ f + (i + 1) - 1 = Len(filled') + i - 1
      BY <1>3, <1>7, <1>9 DEF f
    <2>2. posted'[i] = posted[i + 1] /\ posted[i + 1] = Turn(f + (i + 1) - 1)
      BY <1>7, <1>14, <2>1
    <2> QED BY <2>1, <2>2
  <1>20. Len(filled') + Len(posted') = MaxRecv
    BY <1>3, <1>7, <1>9, <1>13 DEF f
  <1>21. \A k : Turn(k)' = Turn(k)
    BY <1>2 DEF Turn
  <1>22. RecvInv'
    BY <1>2, <1>14, <1>17, <1>18, <1>19, <1>20, <1>21 DEF RecvInv, Turn
  <1> QED BY <1>11, <1>12, <1>22 DEF RdmaInv


LEMMA TryRecvInv == ASSUME RdmaInv, TryRecv PROVE RdmaInv'
  <1>1. /\ RdmaTypeOK /\ ListInv /\ FlyInv /\ InRing /\ RecvInv /\ MaxRecv \in Nat \ {0}
    BY RdmaAssumption DEF RdmaInv
  <1>2. /\ Len(posted) = 0 /\ Len(filled) = 0
        /\ posted' = [i \in 1..MaxRecv |-> i - 1]
        /\ UNCHANGED <<odp, list, pos, off, out, done, full, ring, looping, total, sentb, acked, fly, moved,
                       filled, buf, nextbuf, got, up>>
    BY DEF TryRecv, sendVars
  <1>3. posted' \in [1..MaxRecv -> Bufs]
    BY <1>1, <1>2 DEF Bufs
  <1>4. posted' \in Seq(Bufs) /\ Len(posted') = MaxRecv
    BY <1>1, <1>3, SeqOf
  <1>5. RdmaTypeOK'
    BY <1>1, <1>2, <1>4 DEF RdmaTypeOK
  <1>6. ListInv' /\ FlyInv' /\ InRing'
    BY <1>1, <1>2 DEF ListInv, FlyInv, InRing, Chain, Room
  <1>7. nextbuf = 0
    BY <1>1, <1>2 DEF RecvInv
  <1>8. \A i \in 1..Len(posted') : posted'[i] = Turn(Len(filled) + i - 1)
    <2> TAKE i \in 1..Len(posted')
    <2>0. i \in 1..MaxRecv /\ Len(filled) = 0
      BY <1>2, <1>4
    <2>1. i \in 1..MaxRecv /\ Len(filled) + i - 1 = i - 1
      BY <1>1, <2>0
    <2>2. posted'[i] = i - 1
      BY <1>2, <2>1
    <2>3. Turn(i - 1) = i - 1
      BY <1>1, <1>7, <2>1 DEF Turn
    <2> QED BY <2>1, <2>2, <2>3
  <1>9. MovedTo' = MovedTo /\ \A k : Turn(k)' = Turn(k)
    BY <1>2 DEF MovedTo, Turn
  <1>10. Len(filled) + Len(posted') = MaxRecv
    BY <1>1, <1>2, <1>4
  <1>11. RecvInv'
    BY <1>1, <1>2, <1>8, <1>9, <1>10 DEF RecvInv, Chain, Turn
  <1> QED BY <1>5, <1>6, <1>11 DEF RdmaInv

LEMMA Concat ==
  ASSUME NEW R, NEW s \in Seq(R), NEW t \in Seq(R)
  PROVE  /\ s \o t \in Seq(R) /\ Len(s \o t) = Len(s) + Len(t)
         /\ \A i \in 1..(Len(s) + Len(t)) : (s \o t)[i] = IF i <= Len(s) THEN s[i] ELSE t[i - Len(s)]
  OBVIOUS

LEMMA WholeSeq ==
  ASSUME NEW R, NEW s \in Seq(R)
  PROVE  SubSeq(s, 1, Len(s)) = s
  OBVIOUS

\* The turns after the first buffer was handled.
LEMMA TurnOn ==
  ASSUME NEW r \in Nat \ {0}, NEW b \in 0..(r - 1), NEW c, c = IF b + 1 = r THEN 0 ELSE b + 1
  PROVE  /\ c \in 0..(r - 1)
         /\ \A k \in 0..(r - 2) : (IF c + k >= r THEN c + k - r ELSE c + k)
                                  = (IF b + (k + 1) >= r THEN b + (k + 1) - r ELSE b + (k + 1))
         /\ (IF c + (r - 1) >= r THEN c + (r - 1) - r ELSE c + (r - 1)) = b
  OBVIOUS

LEMMA RecvCompletedInv == ASSUME RdmaInv, RecvCompleted PROVE RdmaInv'
  <1> DEFINE h == filled[1]
             f == Len(filled)
             q == Len(posted)
             g == Len(got)
             T(k) == IF nextbuf' + k >= MaxRecv THEN nextbuf' + k - MaxRecv ELSE nextbuf' + k
  <1>1. /\ RdmaTypeOK /\ ListInv /\ FlyInv /\ InRing /\ RecvInv /\ MaxRecv \in Nat \ {0}
        /\ Chain(filled, g, MovedTo) /\ Chain(fly, acked, sentb)
    BY RdmaAssumption DEF RdmaInv, RecvInv, FlyInv
  <1>2. /\ filled # << >>
        /\ got' = got \o SubSeq(buf[nextbuf], 1, Head(filled).len)
        /\ filled' = Tail(filled)
        /\ posted' = Append(posted, nextbuf)
        /\ nextbuf' = IF nextbuf + 1 = MaxRecv THEN 0 ELSE nextbuf + 1
        /\ UNCHANGED <<odp, list, pos, off, out, done, full, ring, looping, total, sentb, acked, fly, moved, buf, up>>
    BY DEF RecvCompleted, sendVars
  <1>3. /\ f \in Nat /\ q \in Nat /\ g \in Nat /\ filled \in Seq(Fills) /\ posted \in Seq(Bufs) /\ got \in Seq(Int)
        /\ buf \in [Bufs -> Seq(Int)] /\ nextbuf \in Bufs /\ nextbuf \in 0..(MaxRecv - 1)
    BY <1>1 DEF RdmaTypeOK, Bufs
  <1>4. f > 0 /\ 1 \in 1..f
    <2>1. filled # << >> /\ filled \in Seq(Fills)
      BY <1>2, <1>3
    <2>2. Len(filled) > 0
      BY <2>1
    <2> QED BY <1>3, <2>2
  <1>5. /\ filled' \in Seq(Fills) /\ Len(filled') = f - 1 /\ \A i \in 1..(f - 1) : filled'[i] = filled[i + 1]
        /\ Head(filled) = h
    BY <1>2, <1>3, <1>4, TailFacts
  <1>6. /\ f + q = MaxRecv
        /\ \A i \in 1..f : filled[i].buf = Turn(i - 1)
        /\ \A i \in 1..q : posted[i] = Turn(f + i - 1)
        /\ \A i \in 1..f :
             /\ filled[i].len = Len(buf[filled[i].buf])
             /\ \A k \in 1..filled[i].len : buf[filled[i].buf][k] = filled[i].from + (k - 1)
        /\ \A i \in 1..g : got[i] = i - 1
    BY <1>1, <1>3, <1>4 DEF RecvInv
  <1>7. h.buf = nextbuf
    <2>1. h.buf = Turn(1 - 1) /\ 1 - 1 = 0
      BY <1>4, <1>6
    <2> QED BY <1>1, <1>3, <2>1, TurnFacts
  <1>8. /\ h.len = Len(buf[nextbuf]) /\ h.len \in Nat \ {0} /\ h.from = g
        /\ \A k \in 1..h.len : buf[nextbuf][k] = g + (k - 1)
    <2>1. h.from = g /\ h.len \in Nat \ {0}
      BY <1>1, <1>4 DEF Chain
    <2>2. /\ h.len = Len(buf[h.buf]) /\ \A k \in 1..h.len : buf[h.buf][k] = h.from + (k - 1)
      BY <1>4, <1>6
    <2> QED BY <1>7, <2>1, <2>2
  <1> HIDE DEF h
  <1>9. got' = got \o buf[nextbuf] /\ buf[nextbuf] \in Seq(Int)
    <2>1. buf[nextbuf] \in Seq(Int)
      BY <1>3
    <2>2. SubSeq(buf[nextbuf], 1, Len(buf[nextbuf])) = buf[nextbuf]
      BY <2>1, WholeSeq
    <2>3. Head(filled).len = Len(buf[nextbuf])
      BY <1>5, <1>8
    <2> QED BY <1>2, <2>1, <2>2, <2>3
  <1>10. /\ got' \in Seq(Int) /\ Len(got') = g + h.len
         /\ \A i \in 1..(g + h.len) : got'[i] = IF i <= g THEN got[i] ELSE buf[nextbuf][i - g]
    BY <1>3, <1>8, <1>9, Concat
  <1>11. \A i \in 1..Len(got') : got'[i] = i - 1
    <2> TAKE i \in 1..Len(got')
    <2>1. i \in 1..(g + h.len)
      BY <1>10
    <2>2. CASE i <= g
      <3>1. i \in 1..g /\ got'[i] = got[i]
        BY <1>3, <1>8, <1>10, <2>1, <2>2
      <3> QED BY <1>6, <3>1
    <2>3. CASE ~(i <= g)
      <3>1. i - g \in 1..h.len /\ g + ((i - g) - 1) = i - 1
        BY <1>3, <1>8, <2>1, <2>3
      <3>2. got'[i] = buf[nextbuf][i - g]
        BY <1>10, <2>1, <2>3
      <3>3. buf[nextbuf][i - g] = g + ((i - g) - 1)
        BY <1>8, <3>1
      <3> QED BY <3>1, <3>2, <3>3
    <2> QED BY <2>2, <2>3
  <1>12. /\ posted' \in Seq(Bufs) /\ Len(posted') = q + 1 /\ \A i \in 1..q : posted'[i] = posted[i]
         /\ posted'[q + 1] = nextbuf
    BY <1>2, <1>3, AppendFacts
  <1>13. Chain(filled', Len(got'), MovedTo')
    <2>1. MovedTo \in Nat
      <3>1. CASE moved < Len(fly)
        <4>1. moved + 1 \in 1..Len(fly)
          BY <1>1, <3>1 DEF RdmaTypeOK
        <4>2. fly[moved + 1].from \in Nat
          BY <1>1, <4>1 DEF Chain
        <4> QED BY <3>1, <4>2 DEF MovedTo
      <3>2. CASE ~(moved < Len(fly))
        BY <1>1, <3>2 DEF MovedTo, RdmaTypeOK
      <3> QED BY <3>1, <3>2
    <2>2. Chain(Tail(filled), g + filled[1].len, MovedTo)
      BY <1>1, <1>3, <1>4, <2>1, ChainTail
    <2>3. MovedTo' = MovedTo
      BY <1>2 DEF MovedTo
    <2> QED BY <1>2, <1>10, <2>2, <2>3 DEF h
  <1> HIDE DEF f, q, g
  <1>14. /\ nextbuf' \in 0..(MaxRecv - 1)
         /\ \A k \in 0..(MaxRecv - 2) : T(k) = Turn(k + 1)
         /\ T(MaxRecv - 1) = nextbuf
    <2>1. nextbuf' = IF nextbuf + 1 = MaxRecv THEN 0 ELSE nextbuf + 1
      BY <1>2
    <2> DEFINE c == nextbuf'
    <2>2. c = IF nextbuf + 1 = MaxRecv THEN 0 ELSE nextbuf + 1
      BY <2>1
    <2> HIDE DEF c
    <2>3. /\ c \in 0..(MaxRecv - 1)
          /\ \A k \in 0..(MaxRecv - 2) :
               (IF c + k >= MaxRecv THEN c + k - MaxRecv ELSE c + k)
               = (IF nextbuf + (k + 1) >= MaxRecv THEN nextbuf + (k + 1) - MaxRecv ELSE nextbuf + (k + 1))
          /\ (IF c + (MaxRecv - 1) >= MaxRecv THEN c + (MaxRecv - 1) - MaxRecv ELSE c + (MaxRecv - 1)) = nextbuf
      BY <1>1, <1>3, <2>2, TurnOn
    <2> QED BY <2>3 DEF c, Turn
  <1>15. \A k : Turn(k)' = T(k)
    BY DEF Turn
  <1> HIDE DEF T
  <1>16. \A i \in 1..Len(filled') :
           /\ filled'[i].buf = T(i - 1)
           /\ filled'[i].len = Len(buf[filled'[i].buf])
           /\ \A k \in 1..filled'[i].len : buf[filled'[i].buf][k] = filled'[i].from + (k - 1)
    <2> TAKE i \in 1..Len(filled')
    <2>1. /\ i \in 1..(f - 1) /\ i + 1 \in 1..f /\ i - 1 \in 0..(MaxRecv - 2) /\ (i + 1) - 1 = (i - 1) + 1
      BY <1>1, <1>3, <1>5, <1>6
    <2>2. filled'[i] = filled[i + 1] /\ filled[i + 1].buf = Turn((i + 1) - 1)
      BY <1>5, <1>6, <2>1
    <2>3. T(i - 1) = Turn((i - 1) + 1)
      BY <1>14, <2>1
    <2>4. filled'[i].buf = T(i - 1)
      BY <2>1, <2>2, <2>3
    <2> QED BY <1>6, <2>1, <2>2, <2>4
  <1>17. \A i \in 1..Len(posted') : posted'[i] = T(Len(filled') + i - 1)
    <2> TAKE i \in 1..Len(posted')
    <2>1. CASE i = q + 1
      <3>1. Len(filled') + i - 1 = MaxRecv - 1
        BY <1>1, <1>3, <1>5, <1>6, <2>1
      <3> QED BY <1>12, <1>14, <2>1, <3>1
    <2>2. CASE i \in 1..q
      <3>1. Len(filled') + i - 1 = f + i - 2 /\ f + i - 2 \in 0..(MaxRecv - 2) /\ (f + i - 2) + 1 = f + i - 1
        BY <1>1, <1>3, <1>4, <1>5, <1>6, <2>2
      <3>2. posted'[i] = posted[i] /\ posted[i] = Turn(f + i - 1)
        BY <1>6, <1>12, <2>2
      <3>3. T(f + i - 2) = Turn((f + i - 2) + 1)
        BY <1>14, <3>1
      <3> QED BY <3>1, <3>2, <3>3
    <2> QED BY <1>3, <1>12, <2>1, <2>2
  <1>18. Len(filled') + Len(posted') = MaxRecv
    BY <1>3, <1>5, <1>6, <1>12
  <1>19. RecvInv'
    BY <1>2, <1>11, <1>13, <1>15, <1>16, <1>17, <1>18 DEF RecvInv
  <1>20. RdmaTypeOK'
    <2>1. nextbuf' \in Bufs
      BY <1>14 DEF Bufs
    <2> QED BY <1>1, <1>2, <1>5, <1>10, <1>12, <2>1 DEF RdmaTypeOK
  <1>21. ListInv' /\ FlyInv' /\ InRing'
    BY <1>1, <1>2 DEF ListInv, FlyInv, InRing, Chain, Room
  <1> QED BY <1>19, <1>20, <1>21 DEF RdmaInv

-----------------------------------------------------------------------------
(* The theorems.                                                            *)

LEMMA RdmaInitInv == ASSUME RdmaInit PROVE RdmaInv
  <1>1. RingSize \in Nat \ {0} /\ MaxRecv \in Nat \ {0} /\ MaxSend \in Nat \ {0}
    BY RingPositive, RdmaAssumption
  <1>2. Len(list) = 0 /\ Len(fly) = 0 /\ Len(filled) = 0 /\ Len(posted) = 0 /\ Len(got) = 0
    BY DEF RdmaInit
  <1>3. RdmaTypeOK
    <2>1. ring \in [Slots -> Int] /\ buf \in [Bufs -> Seq(Int)]
      BY DEF RdmaInit, Slots, Bufs, Garbage
    <2>2. 0 \in Slots /\ 0 \in Bufs
      BY <1>1 DEF Slots, Bufs
    <2>3. << >> \in Seq(Parts) /\ << >> \in Seq(Sends) /\ << >> \in Seq(Fills) /\ << >> \in Seq(Bufs) /\ << >> \in Seq(Int)
      OBVIOUS
    <2> QED BY <2>1, <2>2, <2>3 DEF RdmaInit, RdmaTypeOK
  <1>4. \A t : Len(t) = 0 => Chain(t, 0, 0)
    BY DEF Chain
  <1>5. ListInv /\ FlyInv
    BY <1>1, <1>2, <1>4 DEF RdmaInit, ListInv, FlyInv
  <1>6. InRing
    BY <1>1, <1>2 DEF RdmaInit, InRing
  <1>7. MovedTo = 0
    BY DEF RdmaInit, MovedTo
  <1>8. RecvInv
    BY <1>2, <1>4, <1>7 DEF RdmaInit, RecvInv
  <1> QED BY <1>3, <1>5, <1>6, <1>8 DEF RdmaInv

\* RdmaInv is an inductive invariant of the connection (handlers of msgr_rdma.cpp).
THEOREM RdmaInvariant == RdmaSpec => []RdmaInv
  <1>1. RdmaInit => RdmaInv
    BY RdmaInitInv
  <1>2. RdmaInv /\ [RdmaNext]_rdmaVars => RdmaInv'
    <2> SUFFICES ASSUME RdmaInv, [RdmaNext]_rdmaVars PROVE RdmaInv'
      OBVIOUS
    <2>1. ASSUME NEW len \in DataLens, RdmaPush(len) PROVE RdmaInv'
      BY <2>1, PushInv
    <2>2. CASE SendCopy
      BY <2>2, SendCopyInv
    <2>3. CASE SendOdp
      BY <2>3, SendOdpInv
    <2>4. CASE SendEnd
      BY <2>4, SendEndInv
    <2>5. CASE SendCompleted
      BY <2>5, SendCompletedInv
    <2>6. CASE Transfer
      BY <2>6, TransferInv
    <2>7. CASE TryRecv
      BY <2>7, TryRecvInv
    <2>8. CASE RecvCompleted
      BY <2>8, RecvCompletedInv
    <2>9. CASE RdmaFails \/ UNCHANGED rdmaVars
      <3>1. /\ UNCHANGED <<odp, list, pos, off, out, done, full, ring, looping, total, sentb, acked, fly, moved,
                           posted, filled, buf, nextbuf, got>>
            /\ up' \in BOOLEAN /\ (up' => up)
        <4>0. up \in BOOLEAN
          BY DEF RdmaInv, RdmaTypeOK
        <4>1. CASE RdmaFails
          BY <4>1 DEF RdmaFails, sendVars, recvVars
        <4>2. CASE UNCHANGED rdmaVars
          BY <4>0, <4>2 DEF rdmaVars, sendVars, recvVars
        <4> QED BY <2>9, <4>1, <4>2
      <3>2. RdmaTypeOK' /\ ListInv' /\ FlyInv' /\ InRing'
        BY <3>1 DEF RdmaInv, RdmaTypeOK, ListInv, FlyInv, InRing, Chain, Room
      <3>3. RecvInv'
        BY <3>1 DEF RdmaInv, RecvInv, MovedTo, Turn, Chain
      <3> QED BY <3>2, <3>3 DEF RdmaInv
    <2> QED BY <2>1, <2>2, <2>3, <2>4, <2>5, <2>6, <2>7, <2>8, <2>9 DEF RdmaNext
  <1> QED BY <1>1, <1>2, PTL DEF RdmaSpec

\* What the invariant says of the connection is what RdmaExact asks for.
LEMMA InvIsExact == ASSUME RdmaInv PROVE RdmaExact
  <1>1. /\ RdmaTypeOK /\ FlyInv /\ RecvInv /\ MaxRecv \in Nat \ {0} /\ RingSize \in Nat \ {0} /\ MaxMsg = ServerMsg
    BY RdmaAssumption, RingPositive, Limits DEF RdmaInv
  <1>2. /\ Len(fly) \in Nat /\ Len(filled) \in Nat /\ Len(posted) \in Nat /\ Len(got) \in Nat
        /\ fly \in Seq(Sends) /\ got \in Seq(Int) /\ filled \in Seq(Fills) /\ nextbuf \in 0..(MaxRecv - 1)
        /\ out \in 0..(RingSize - 1) /\ done \in 0..(RingSize - 1) /\ pos \in 0..Len(list) /\ off \in Nat
    BY <1>1 DEF RdmaTypeOK, Slots, Bufs
  <1>3. DOMAIN fly = 1..Len(fly) /\ DOMAIN got = 1..Len(got)
    BY <1>2
  <1>4. \A i \in DOMAIN got : got[i] = i - 1
    BY <1>1, <1>3 DEF RecvInv
  <1>5. \A i \in DOMAIN fly : \A j \in 1..fly[i].len : i > moved => Content(fly[i])[j] = fly[i].from + (j - 1)
    BY <1>3, ContentRight
  <1>6. filled # << >> => Head(filled).buf = nextbuf
    <2> HAVE filled # << >>
    <2>1. Len(filled) > 0 /\ 1 \in 1..Len(filled) /\ Head(filled) = filled[1] /\ 1 - 1 = 0
      BY <1>2
    <2>2. filled[1].buf = Turn(1 - 1)
      BY <1>1, <2>1 DEF RecvInv
    <2> QED BY <1>1, <1>2, <2>1, <2>2, TurnFacts
  <1>7. \A i \in DOMAIN fly : fly[i].len <= ServerMsg
    BY <1>1, <1>3 DEF FlyInv
  <1>8. out < RingSize /\ done < RingSize /\ pos \in 0..Len(list) /\ off >= 0
    BY <1>1, <1>2
  <1>9. Len(fly) <= MaxSend /\ Len(posted) + Len(filled) <= MaxRecv
    BY <1>1, <1>2 DEF FlyInv, RecvInv
  <1>10. up /\ ~looping /\ sentb < total => fly # << >>
    <2>1. up /\ ~looping /\ sentb < total => Len(fly) > 0
      BY <1>1 DEF FlyInv
    <2> QED BY <1>2, <2>1
  <1> QED BY <1>4, <1>5, <1>6, <1>7, <1>8, <1>9, <1>10 DEF RdmaExact

\* The receiver gets the stream byte by byte, whatever the limits of the two sides
\* and the messages: no message is overwritten in the ring or freed before it is
\* moved, and the loop of try_send_rdma never stops with bytes left and nothing on
\* its way (try_send_rdma_nodp, try_send_rdma_odp, handle_rdma_events).
THEOREM RdmaDelivers == RdmaSpec => []RdmaExact
  <1>1. RdmaInv => RdmaExact
    BY InvIsExact
  <1> QED BY <1>1, RdmaInvariant, PTL

=============================================================================
