-------------------------------- MODULE Rdma --------------------------------
(***************************************************************************)
(* One direction of an RDMA connection (src/src/client/msgr_rdma.cpp): the *)
(* sender cuts the stream of its send_list into messages, either by        *)
(* copying it into a ring buffer or, with on-demand paging (ODP), by       *)
(* sending it from where it is; the device moves a message into the oldest *)
(* receive buffer that is posted; and the receiver handles the buffers in  *)
(* turn and posts them again.                                              *)
(*                                                                         *)
(* A byte of the stream is its offset.  A handler runs to its end before   *)
(* the next one, but the device goes on in between the messages it sends.  *)
(***************************************************************************)
EXTENDS Integers, Sequences

CONSTANTS
  ClientMax, ServerMax, \* rdma_max_msg of the two sides
  MaxSend, MaxRecv, \* rdma_max_send of the sender, rdma_max_recv of the receiver
  MaxSge,    \* rdma_max_sge
  Packet, DataLens, \* OSD_PACKET_SIZE; lengths of the data of a message, 0 for none
  MaxBytes   \* bound on the length of the stream

ASSUME RdmaAssumption ==
  /\ ClientMax \in Nat \ {0} /\ ServerMax \in Nat \ {0}
  /\ MaxSend \in Nat \ {0} /\ MaxRecv \in Nat \ {0} /\ MaxSge \in Nat \ {0}
  /\ Packet \in Nat \ {0} /\ DataLens \subseteq Nat
  /\ MaxBytes \in Nat

VARIABLES
  odp,       \* ctx->odp
  list,      \* send_list: offset and length of each part
  pos, off,  \* send_pos, send_buf_pos
  out, done, full, \* send_out_pos, send_done_pos, send_out_full
  ring,      \* the bytes in send_out
  \* messages posted, not completed: place in the ring, place in the list, length,
  \* and (history) which bytes of the stream they are to be
  fly,
  moved,     \* how many of them the device has moved already
  looping,   \* try_send_rdma runs
  posted,    \* receive buffers posted to the device
  filled,    \* receive completions: buffer, length, and (history) the bytes
  buf,       \* contents of recv_buffers
  nextbuf,   \* next_recv_buf
  got,       \* the bytes the receiver has handled
  up,        \* the connection is not stopped
  total, sentb, acked \* history: bytes pushed, posted, completed

sendVars == <<list, pos, off, out, done, full, ring, looping, total, sentb, acked>>
recvVars == <<posted, filled, buf, nextbuf, got>>
rdmaVars == <<odp, sendVars, fly, moved, recvVars, up>>

Smaller(a, b) == IF a < b THEN a ELSE b

\* connect_rdma: the server's limit; check_peer_config: the client's
ServerMsg == Smaller(ClientMax, ServerMax)
MaxMsg == Smaller(ClientMax, ServerMsg)

\* Mutant: room for one message less than may be on their way.
MutShortRing == IF MaxSend = 1 THEN MaxMsg ELSE MaxMsg * (MaxSend - 1)
RingSize == MaxMsg * MaxSend
Garbage == -1

End(iov) == iov.from + iov.len

\* The part of the list that holds byte a, and the one after the last if a is the
\* end of the list.
PartOf(a, p) ==
  /\ p \in 0..Len(list)
  /\ p > 0 => End(list[p]) <= a
  /\ p < Len(list) => a < End(list[p + 1])
PartOffset(a, p) == IF p = Len(list) THEN 0 ELSE a - list[p + 1].from

-----------------------------------------------------------------------------
(* The sender.                                                              *)

Part(from, len) == [from |-> from, len |-> len]

\* outbox_push, then try_send_rdma
RdmaPush(len) ==
  /\ up /\ ~looping
  /\ total + Packet + len <= MaxBytes
  /\ list' = list \o (IF len = 0 THEN <<Part(total, Packet)>>
                      ELSE <<Part(total, Packet), Part(total + Packet, len)>>)
  /\ total' = total + Packet + len
  /\ looping' = TRUE
  /\ UNCHANGED <<odp, pos, off, out, done, full, ring, sentb, acked, fly, moved, recvVars, up>>

\* The first byte to send next, and the bytes from there to the end of part p.
Cursor == list[pos + 1].from + off
Unsent(p) == IF pos = Len(list) THEN 0 ELSE End(list[p]) - Cursor

\* try_send_rdma_wr for the next n bytes, and the new position in send_list
Post(n) ==
  /\ \E p \in 0..Len(list) :
       /\ PartOf(Cursor + n, p)
       /\ pos' = p
       /\ off' = PartOffset(Cursor + n, p)
  /\ fly' = Append(fly, [pos |-> out, src |-> Cursor, len |-> n, from |-> sentb])
  /\ sentb' = sentb + n
  /\ UNCHANGED <<odp, list, done, looping, total, acked, moved, recvVars, up>>

\* try_send_rdma_nodp: copy into the ring and send.  Only a message that reaches
\* the completed ones marks the ring as full.
SendCopy ==
  LET n == Smaller(Smaller(MaxMsg, RingSize - out), Unsent(Len(list)))
      next == IF out + n = RingSize THEN 0 ELSE out + n
  IN /\ up /\ looping /\ ~odp
     /\ ~full /\ n > 0 /\ Len(fly) < MaxSend
     /\ ring' = [i \in 0..(RingSize - 1) |-> IF i \in out..(out + n - 1) THEN Cursor + (i - out) ELSE ring[i]]
     /\ out' = next
     /\ full' = (next >= done)
     /\ Post(n)

\* try_send_rdma_odp: one message of at most max_sge parts
SendOdp ==
  LET last == Smaller(pos + MaxSge, Len(list))
      n == Smaller(MaxMsg, Unsent(last))
  IN /\ up /\ looping /\ odp
     /\ n > 0 /\ Len(fly) < MaxSend
     /\ UNCHANGED <<out, full, ring>>
     /\ Post(n)

\* The loop ends: nothing to send, or no room.
SendEnd ==
  /\ up /\ looping
  /\ Unsent(Len(list)) = 0 \/ Len(fly) = MaxSend \/ (~odp /\ full)
  /\ looping' = FALSE
  /\ UNCHANGED <<odp, list, pos, off, out, done, full, ring, total, sentb, acked, fly, moved, recvVars, up>>

\* handle_rdma_events: the oldest message is sent, and try_send_rdma goes on
SendCompleted ==
  LET n == Head(fly).len
  IN /\ up /\ ~looping
     /\ moved > 0
     /\ fly' = Tail(fly) /\ moved' = moved - 1
     /\ IF odp THEN UNCHANGED <<done, full>>
        ELSE /\ done' = IF done + n = RingSize THEN 0 ELSE done + n
             /\ full' = FALSE
     /\ \E k \in 0..Len(list) :
          LET cut == PartOffset(list[1].from + n, k)
          IN /\ PartOf(list[1].from + n, k)
             /\ pos' = pos - k
             /\ off' = IF pos = k THEN off - cut ELSE off
             /\ list' = [i \in 1..(Len(list) - k) |->
                           IF i = 1 THEN Part(list[k + 1].from + cut, list[k + 1].len - cut)
                           ELSE list[k + i]]
     /\ acked' = acked + n
     /\ looping' = TRUE
     /\ UNCHANGED <<odp, out, ring, total, sentb, recvVars, up>>

-----------------------------------------------------------------------------
(* The device (external) and the receiver.                                  *)

\* A message as it is in memory now: the ring, or the parts not yet freed.
Content(m) ==
  [i \in 1..m.len |->
     IF ~odp THEN ring[m.pos + i - 1]
     ELSE IF list # << >> /\ m.src + i - 1 >= list[1].from THEN m.src + i - 1 ELSE Garbage]

\* The device moves a message; without a buffer it tries again (rnr_retry).
Transfer ==
  LET m == fly[moved + 1]
      b == Head(posted)
  IN /\ up
     /\ moved < Len(fly) /\ posted # << >>
     /\ moved' = moved + 1
     /\ posted' = Tail(posted)
     /\ filled' = Append(filled, [buf |-> b, len |-> m.len, from |-> m.from])
     /\ buf' = [buf EXCEPT ![b] = Content(m)]
     /\ UNCHANGED <<odp, sendVars, fly, nextbuf, got, up>>

\* try_recv_rdma, when the connection switches to RDMA
TryRecv ==
  /\ up
  /\ posted = << >> /\ filled = << >> /\ got = << >>
  /\ posted' = [i \in 1..MaxRecv |-> i - 1]
  /\ UNCHANGED <<odp, sendVars, fly, moved, filled, buf, nextbuf, got, up>>

\* handle_rdma_events: handle_read_buffer, then the buffer is posted again
RecvCompleted ==
  /\ up
  /\ filled # << >>
  /\ got' = got \o SubSeq(buf[nextbuf], 1, Head(filled).len)
  /\ filled' = Tail(filled)
  /\ posted' = Append(posted, nextbuf)
  /\ nextbuf' = IF nextbuf + 1 = MaxRecv THEN 0 ELSE nextbuf + 1
  /\ UNCHANGED <<odp, sendVars, fly, moved, buf, up>>

\* handle_rdma_events: a work request fails or the data is bad, the client stops
RdmaFails ==
  /\ up
  /\ up' = FALSE
  /\ UNCHANGED <<odp, sendVars, fly, moved, recvVars>>

-----------------------------------------------------------------------------
RdmaInit ==
  /\ odp \in BOOLEAN
  /\ list = << >> /\ pos = 0 /\ off = 0
  /\ out = 0 /\ done = 0 /\ full = FALSE
  /\ ring = [i \in 0..(RingSize - 1) |-> Garbage]
  /\ fly = << >> /\ moved = 0 /\ looping = FALSE
  /\ posted = << >> /\ filled = << >>
  /\ buf = [b \in 0..(MaxRecv - 1) |-> << >>]
  /\ nextbuf = 0 /\ got = << >> /\ up = TRUE
  /\ total = 0 /\ sentb = 0 /\ acked = 0

RdmaNext ==
  \/ \E len \in DataLens : RdmaPush(len)
  \/ SendCopy \/ SendOdp \/ SendEnd \/ SendCompleted
  \/ Transfer \/ TryRecv \/ RecvCompleted \/ RdmaFails

RdmaSpec == RdmaInit /\ [][RdmaNext]_rdmaVars

-----------------------------------------------------------------------------
(* Properties.                                                              *)

(* The receiver gets the stream, byte by byte and in order; a message on    *)
(* its way is not overwritten by a later one, and what it is sent from is   *)
(* not freed; a buffer is handled when it is the one that was filled, and   *)
(* is long enough; the asserts on the ring's positions hold; there are not  *)
(* more messages on their way than the queue takes; and when bytes are left *)
(* there is a message whose completion sends them.                          *)
RdmaExact ==
  /\ \A i \in DOMAIN got : got[i] = i - 1
  /\ \A i \in DOMAIN fly : \A j \in 1..fly[i].len :
       i > moved => Content(fly[i])[j] = fly[i].from + (j - 1)
  /\ filled # << >> => Head(filled).buf = nextbuf
  /\ \A i \in DOMAIN fly : fly[i].len <= ServerMsg
  /\ out < RingSize /\ done < RingSize
  /\ Len(fly) <= MaxSend /\ Len(posted) + Len(filled) <= MaxRecv
  /\ pos \in 0..Len(list) /\ off >= 0
  /\ up /\ ~looping /\ sentb < total => fly # << >>

=============================================================================
