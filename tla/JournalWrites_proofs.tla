------------------------ MODULE JournalWrites_proofs ------------------------
(***************************************************************************)
(* The sector buffers stay pinned, no request waits for a write that has   *)
(* ended and none goes on before its own writes have, for every number of  *)
(* requests, buffers and entries per sector.                               *)
(***************************************************************************)
EXTENDS JournalWrites, FiniteSetTheorems, WellFoundedInduction, TLAPS

-----------------------------------------------------------------------------
(* What the operations on the journal do to its fields.                     *)

LEMMA Constants ==
  /\ Bufs \in Nat /\ Bufs > 1 /\ PerSector \in Nat /\ PerSector > 0
  /\ -1 \notin Buffers
  /\ \A b \in Buffers : NextBuffer(b) \in Buffers /\ NextBuffer(b) # b
  BY WritesAssumption DEF Buffers, NextBuffer, Behind

(* The id of the write that Prepare waits for: a prepared one or a new one. *)
Again(s) == s.buf[s.cur].submit_id # 0
WriteId(s) == IF Again(s) THEN s.buf[s.cur].submit_id ELSE s.sid + 1

Prepared(s, o, t) ==
  /\ t \in JournalType
  /\ t.cur = s.cur /\ t.room = (IF s.nso THEN 0 ELSE s.room)
  /\ t.last = s.last /\ t.fatal = s.fatal
  /\ t.ents = s.ents
  /\ t.sid = IF Again(s) THEN s.sid ELSE s.sid + 1
  /\ t.flushing = s.flushing \union {Waiter(WriteId(s), s.cur, o)}
  /\ t.io = IF Again(s) THEN s.io
            ELSE s.io \union {Write(WriteId(s), s.cur, s.buf[s.cur].off, o)}
  /\ \A c \in Buffers : c # s.cur => t.buf[c] = s.buf[c]
  /\ t.buf[s.cur].off = s.buf[s.cur].off /\ t.buf[s.cur].dirty = FALSE
  /\ t.buf[s.cur].submit_id = WriteId(s)
  /\ t.buf[s.cur].flush_count = IF Again(s) THEN s.buf[s.cur].flush_count
                                ELSE s.buf[s.cur].flush_count + 1

LEMMA PrepareFields ==
  ASSUME NEW s \in JournalType, NEW o \in Ops, NEW t, t = Prepare(s, o)
  PROVE  Prepared(s, o, t)
  <1> DEFINE b == s.cur
             again == s.buf[b].submit_id # 0
             id == IF again THEN s.buf[b].submit_id ELSE s.sid + 1
             fc == IF again THEN s.buf[b].flush_count ELSE s.buf[b].flush_count + 1
             nb == [off |-> s.buf[b].off, dirty |-> FALSE, flush_count |-> fc, submit_id |-> id]
             io == IF again THEN s.io ELSE s.io \union {Write(id, b, s.buf[b].off, o)}
             fl == s.flushing \union {Waiter(id, b, o)}
             sid == IF again THEN s.sid ELSE id
             rm == IF s.nso THEN 0 ELSE s.room
  <1>1. /\ b \in Buffers /\ s.buf \in [Buffers -> BufType] /\ s.buf[b] \in BufType
        /\ s.sid \in Nat /\ s.flushing \in SUBSET WaiterType /\ s.io \in SUBSET WriteType
    BY DEF JournalType
  <1>2. id \in Nat /\ fc \in Nat /\ nb \in BufType /\ sid \in Nat
    BY <1>1 DEF BufType
  <1>3. Waiter(id, b, o) \in WaiterType
    <2> HIDE DEF id, b
    <2> QED BY <1>1, <1>2 DEF Waiter, WaiterType
  <1>4. s.buf[b].off \in Int
    BY <1>1 DEF BufType
  <1>5. Write(id, b, s.buf[b].off, o) \in WriteType
    <2> HIDE DEF id, b
    <2> QED BY <1>1, <1>2, <1>4 DEF Write, WriteType
  <1>6. io \in SUBSET WriteType /\ fl \in SUBSET WaiterType
    BY <1>1, <1>3, <1>5
  <1>7. t = [s EXCEPT !.sid = sid, !.room = rm, !.buf = [s.buf EXCEPT ![b] = nb], !.io = io, !.flushing = fl]
    BY DEF Prepare, JournalType
  <1>71. rm \in 0..(PerSector - 1)
    BY Constants DEF JournalType
  <1> HIDE DEF io, fl, sid, nb, rm
  <1>8. /\ t \in JournalType /\ t.buf = [s.buf EXCEPT ![b] = nb]
        /\ t.cur = b /\ t.room = rm /\ t.last = s.last /\ t.fatal = s.fatal
        /\ t.ents = s.ents /\ t.sid = sid /\ t.flushing = fl /\ t.io = io
    <2>1. [s.buf EXCEPT ![b] = nb] \in [Buffers -> BufType]
      BY <1>1, <1>2
    <2> QED BY <1>2, <1>6, <1>7, <1>71, <2>1 DEF JournalType
  <1>9. t.buf[b] = nb /\ \A c \in Buffers : c # b => t.buf[c] = s.buf[c]
    BY <1>1, <1>8
  <1> QED BY <1>8, <1>9 DEF io, fl, sid, nb, rm, Again, WriteId, Prepared

(* The next entry has room, or a free buffer to go to.                      *)
CanPrefill(s) ==
  \/ s.room > 0
  \/ /\ ~s.buf[s.cur].dirty
     /\ s.buf[s.cur].flush_count = 0 \/ s.buf[NextBuffer(s.cur)].flush_count = 0

(* The buffer and the sector that the next entry goes to.                   *)
EntryBuffer(s) == IF s.room > 0 \/ s.buf[s.cur].flush_count = 0 THEN s.cur
                  ELSE NextBuffer(s.cur)
EntrySector(s) == IF s.room > 0 THEN s.buf[s.cur].off ELSE s.last + 1
Prefilled(s, o, t) ==
  /\ t \in JournalType /\ EntryBuffer(s) \in Buffers
  /\ t.cur = EntryBuffer(s) /\ ~t.fatal
  /\ t.room = IF s.room > 0 THEN s.room - 1 ELSE PerSector - 1
  /\ t.sid = s.sid /\ t.flushing = s.flushing /\ t.io = s.io
  /\ t.ents = Append(s.ents, [sec |-> EntrySector(s), op |-> o])
  /\ \A d \in Buffers : d # EntryBuffer(s) => t.buf[d] = s.buf[d]
  /\ t.buf[t.cur].off = EntrySector(s) /\ t.buf[t.cur].dirty
  /\ t.buf[t.cur].flush_count = s.buf[t.cur].flush_count
  /\ t.buf[t.cur].submit_id = s.buf[t.cur].submit_id

LEMMA PrefillFields ==
  ASSUME NEW s \in JournalType, NEW o \in Ops, ~s.fatal, CanPrefill(s),
         NEW t, t = Prefill(s, o)
  PROVE  Prefilled(s, o, t)
  <1> DEFINE c == IF s.room > 0 \/ s.buf[s.cur].flush_count = 0 THEN s.cur
                  ELSE NextBuffer(s.cur)
             off == IF s.room > 0 THEN s.buf[s.cur].off ELSE s.last + 1
             rm == IF s.room > 0 THEN s.room - 1 ELSE PerSector - 1
             lst == IF s.room > 0 THEN s.last ELSE s.last + 1
             e == [sec |-> off, op |-> o]
             nb == [off |-> off, dirty |-> TRUE, flush_count |-> s.buf[c].flush_count,
                    submit_id |-> s.buf[c].submit_id]
  <1>1. /\ s.cur \in Buffers /\ s.buf \in [Buffers -> BufType]
        /\ s.room \in 0..(PerSector - 1) /\ s.last \in Nat /\ s.sid \in Nat
        /\ s.flushing \in SUBSET WaiterType /\ s.io \in SUBSET WriteType
        /\ s.ents \in Seq([sec : Nat, op : Ops])
    BY DEF JournalType
  <1>2. c \in Buffers /\ NextBuffer(s.cur) \in Buffers /\ NextBuffer(s.cur) # s.cur
    BY <1>1, Constants
  <1>3. off \in Nat
    BY <1>1 DEF BufType
  <1>4. nb \in BufType
    <2>1. s.buf[c] \in BufType
      BY <1>1, <1>2
    <2> HIDE DEF c, off
    <2> QED BY <2>1, <1>3 DEF BufType
  <1>5. t = [s EXCEPT !.cur = c, !.room = rm, !.last = lst, !.buf = [s.buf EXCEPT ![c] = nb],
                      !.ents = Append(s.ents, e)]
    <2>1. s.fatal = FALSE
      BY DEF JournalType
    <2>2. ~(~(s.room > 0) /\ (s.buf[s.cur].dirty \/ (c # s.cur /\ s.buf[c].flush_count > 0)))
      BY <1>1 DEF CanPrefill, BufType
    <2>3. t = [s EXCEPT !.cur = c, !.room = rm, !.last = lst, !.buf[c] = nb,
                        !.ents = Append(s.ents, e), !.fatal = s.fatal]
      BY <2>2 DEF Prefill
    <2> HIDE DEF c, rm, lst, e, nb
    <2> QED BY <2>3 DEF JournalType
  <1>6. e \in [sec : Nat, op : Ops]
    BY <1>3
  <1>7. Append(s.ents, e) \in Seq([sec : Nat, op : Ops])
    <2> HIDE DEF e
    <2> QED BY <1>1, <1>6
  <1>8. [s.buf EXCEPT ![c] = nb] \in [Buffers -> BufType]
    BY <1>1, <1>2, <1>4
  <1>9. rm \in 0..(PerSector - 1) /\ lst \in Nat
    BY <1>1, Constants
  <1>10. /\ t \in JournalType /\ t.buf = [s.buf EXCEPT ![c] = nb]
         /\ t.cur = c /\ t.room = rm /\ t.sid = s.sid /\ t.flushing = s.flushing
         /\ t.io = s.io /\ t.ents = Append(s.ents, e) /\ ~t.fatal
    <2> HIDE DEF c, e, nb, rm, lst
    <2> QED BY <1>2, <1>5, <1>7, <1>8, <1>9 DEF JournalType
  <1>11. t.buf[c] = nb /\ \A d \in Buffers : d # c => t.buf[d] = s.buf[d]
    <2> HIDE DEF c, e, nb
    <2> QED BY <1>1, <1>2, <1>10
  <1>12. /\ nb.off = off /\ nb.dirty /\ nb.flush_count = s.buf[c].flush_count
         /\ nb.submit_id = s.buf[c].submit_id
    OBVIOUS
  <1>13. c = EntryBuffer(s) /\ off = EntrySector(s)
    BY DEF EntryBuffer, EntrySector
  <1>14. e = [sec |-> EntrySector(s), op |-> o]
    BY <1>13
  <1> HIDE DEF nb, rm, c, off, e
  <1> QED BY <1>2, <1>10, <1>11, <1>12, <1>13, <1>14 DEF rm, Prefilled

LEMMA AddDataFields ==
  ASSUME NEW s \in JournalType, NEW o \in Ops, NEW t, t = AddData(s, o)
  PROVE  /\ t \in JournalType
         /\ t.cur = s.cur /\ t.room = s.room /\ t.last = s.last /\ t.fatal = s.fatal
         /\ t.ents = s.ents /\ t.buf = s.buf /\ t.sid = s.sid + 1
         /\ t.flushing = s.flushing \union {Waiter(s.sid + 1, -1, o)}
         /\ t.io = s.io \union {Write(s.sid + 1, -1, -1, o)}
  <1> DEFINE id == s.sid + 1
             fl == s.flushing \union {Waiter(id, -1, o)}
             io == s.io \union {Write(id, -1, -1, o)}
  <1>1. s.sid \in Nat /\ s.flushing \in SUBSET WaiterType /\ s.io \in SUBSET WriteType
    BY DEF JournalType
  <1>2. Waiter(s.sid + 1, -1, o) \in WaiterType /\ Write(s.sid + 1, -1, -1, o) \in WriteType
    BY <1>1 DEF Waiter, WaiterType, Write, WriteType
  <1>3. fl \in SUBSET WaiterType /\ io \in SUBSET WriteType
    BY <1>1, <1>2
  <1>4. id \in Nat /\ t = [s EXCEPT !.sid = id, !.io = io, !.flushing = fl]
    BY <1>1 DEF AddData, JournalType
  <1> HIDE DEF fl, io, id
  <1>5. /\ t \in JournalType
        /\ t.cur = s.cur /\ t.room = s.room /\ t.last = s.last /\ t.fatal = s.fatal
        /\ t.ents = s.ents /\ t.buf = s.buf /\ t.sid = id
        /\ t.flushing = fl /\ t.io = io
    BY <1>3, <1>4 DEF JournalType
  <1> QED BY <1>5 DEF fl, io, id

-----------------------------------------------------------------------------
(* The operations keep the journal sound.                                   *)
Sound(s) ==
  s \in JournalType /\ IsFiniteSet(s.io) /\ Pinned(s) /\ Ordered(s) /\ FirstPending(s)

(* The writes from a buffer.                                                *)
From(s, b) == {w \in s.io : w.buf = b}

LEMMA CountedWrites ==
  ASSUME NEW s, s \in JournalType, IsFiniteSet(s.io), NEW b
  PROVE  /\ IsFiniteSet(From(s, b)) /\ Cardinality(From(s, b)) \in Nat
         /\ Cardinality(From(s, b)) = 0 <=> From(s, b) = {}
  <1>1. From(s, b) \in SUBSET s.io
    BY DEF From
  <1>2. IsFiniteSet(From(s, b))
    BY <1>1, FS_Subset
  <1> QED BY <1>2, FS_CardinalityType, FS_EmptySet

LEMMA PrepareSound ==
  ASSUME NEW s, Sound(s), NEW o \in Ops, NEW t, t = Prepare(s, o)
  PROVE  /\ Sound(t) /\ t.buf[t.cur].flush_count > 0
         /\ \E w \in t.io : /\ w.buf = t.cur /\ w.off = t.buf[t.cur].off /\ ~w.sent
                            /\ WaitsFor(t, o, w)
  <1> DEFINE b == s.cur
             again == Again(s)
             id == WriteId(s)
             W == Write(id, b, s.buf[b].off, o)
             F == Waiter(id, b, o)
  <1>1. /\ s \in JournalType /\ IsFiniteSet(s.io) /\ Pinned(s) /\ Ordered(s) /\ FirstPending(s)
        /\ b \in Buffers /\ s.sid \in Nat /\ s.buf[b] \in BufType
    BY DEF Sound, JournalType
  <1>2. /\ t \in JournalType
        /\ t.cur = b /\ t.last = s.last /\ t.fatal = s.fatal
        /\ t.ents = s.ents
        /\ t.sid = IF again THEN s.sid ELSE s.sid + 1
        /\ t.flushing = s.flushing \union {F}
        /\ t.io = IF again THEN s.io ELSE s.io \union {W}
        /\ \A c \in Buffers : c # b => t.buf[c] = s.buf[c]
        /\ t.buf[b].off = s.buf[b].off /\ t.buf[b].dirty = FALSE
        /\ t.buf[b].submit_id = id
        /\ t.buf[b].flush_count = IF again THEN s.buf[b].flush_count
                                  ELSE s.buf[b].flush_count + 1
    <2>1. Prepared(s, o, t)
      BY <1>1, PrepareFields
    <2> QED BY <2>1 DEF Prepared
  <1>3. /\ F.id = id /\ F.pending /\ F.sector = b /\ F.op = o
        /\ W.id = id /\ W.buf = b /\ W.off = s.buf[b].off /\ ~W.sent
    BY DEF Waiter, Write
  <1>4. \E w \in t.io : w.id = id /\ w.buf = b /\ w.off = s.buf[b].off /\ ~w.sent
    <2>1. CASE again
      <3>1. PICK w \in s.io : w.id = id /\ w.buf = b /\ ~w.sent
        BY <1>1, <2>1 DEF Ordered, Again, WriteId
      <3>2. w.off = s.buf[b].off
        BY <1>1, <3>1, Constants DEF Pinned
      <3> QED BY <1>2, <2>1, <3>1, <3>2
    <2>2. CASE ~again
      BY <1>2, <1>3, <2>2
    <2> QED BY <2>1, <2>2
  <1>5. id \in Nat /\ id <= t.sid /\ s.sid <= t.sid /\ (~again => \A w \in s.io : w.id < id)
    <2>1. CASE again
      <3>1. PICK w \in s.io : w.id = id
        BY <1>1, <2>1 DEF Ordered, Again, WriteId
      <3> QED BY <1>1, <1>2, <2>1, <3>1 DEF Ordered, BufType, Again, WriteId
    <2>2. CASE ~again
      <3>1. \A w \in s.io : w.id \in Nat
        BY <1>1 DEF JournalType, WriteType
      <3> QED BY <1>1, <1>2, <2>2, <3>1 DEF Ordered, WriteId
    <2> QED BY <2>1, <2>2
  <1> HIDE DEF id, F, W
  <1>6. s.io \subseteq t.io /\ s.flushing \subseteq t.flushing
        /\ (\A w \in t.io : w \in s.io \/ (~again /\ w = W)) /\ (~again => W \notin s.io)
    BY <1>2, <1>3, <1>5
  <1>7. IsFiniteSet(t.io)
    BY <1>1, <1>2, FS_AddElement
  <1>8. ASSUME NEW c \in Buffers
        PROVE  /\ t.buf[c].flush_count = Cardinality(From(t, c))
               /\ c # b => ~t.buf[c].dirty
    <2>1. s.buf[c].flush_count = Cardinality(From(s, c))
      BY <1>1 DEF Pinned, From
    <2>2. CASE again \/ c # b
      <3>1. From(t, c) = From(s, c)
        BY <1>3, <1>6, <2>2 DEF From
      <3>2. t.buf[c].flush_count = s.buf[c].flush_count
        BY <1>2, <2>2
      <3>3. c # b => ~t.buf[c].dirty
        BY <1>1, <1>2 DEF Pinned
      <3> QED BY <2>1, <3>1, <3>2, <3>3
    <2>3. CASE ~again /\ c = b
      <3>1. From(t, c) = From(s, c) \union {W} /\ W \notin From(s, c)
        BY <1>2, <1>3, <1>6, <2>3 DEF From
      <3>2. Cardinality(From(t, c)) = Cardinality(From(s, c)) + 1
        BY <1>1, <3>1, CountedWrites, FS_AddElement
      <3> QED BY <1>2, <2>1, <2>3, <3>2
    <2> QED BY <2>2, <2>3
  <1>9. Pinned(t)
    <2>1. \A w \in t.io : w.buf # -1 => t.buf[w.buf].off = w.off
      <3> TAKE w \in t.io
      <3> HAVE w.buf # -1
      <3>1. CASE w \in s.io
        <4>1. s.buf[w.buf].off = w.off /\ w.buf \in Buffers
          BY <1>1, <3>1 DEF Pinned, JournalType, WriteType
        <4> QED BY <1>2, <4>1
      <3>2. CASE w = W
        BY <1>2, <1>3, <3>2
      <3> QED BY <1>6, <3>1, <3>2
    <2>2. ~t.fatal
      BY <1>1, <1>2 DEF Pinned
    <2> QED BY <1>2, <1>8, <2>1, <2>2 DEF Pinned, From
  <1>10. Ordered(t)
    <2>1. \A w \in t.io : w.id <= t.sid
      <3> TAKE w \in t.io
      <3>1. w.id \in Nat /\ t.sid \in Nat
        BY <1>2 DEF JournalType, WriteType
      <3>2. w \in s.io => w.id <= s.sid
        BY <1>1 DEF Ordered
      <3> QED BY <1>1, <1>3, <1>5, <1>6, <3>1, <3>2
    <2>2. ASSUME NEW v \in t.io, NEW w \in t.io, v.id = w.id PROVE v = w
      <3>1. v \in s.io /\ w \in s.io => v = w
        BY <1>1, <2>2 DEF Ordered
      <3>2. \A x \in s.io : x.id \in Nat
        BY <1>1 DEF JournalType, WriteType
      <3> QED BY <1>3, <1>5, <1>6, <2>2, <3>1, <3>2
    <2>3. ASSUME NEW c \in Buffers, t.buf[c].submit_id # 0
          PROVE  \E w \in t.io : w.id = t.buf[c].submit_id /\ w.buf = c /\ ~w.sent
      <3>1. CASE c = b
        BY <1>2, <1>4, <3>1
      <3>2. CASE c # b
        <4>1. s.buf[c].submit_id # 0 /\ t.buf[c] = s.buf[c]
          BY <1>2, <2>3, <3>2
        <4>2. PICK w \in s.io : w.id = s.buf[c].submit_id /\ w.buf = c /\ ~w.sent
          BY <1>1, <4>1 DEF Ordered
        <4> QED BY <1>6, <4>1, <4>2
      <3> QED BY <3>1, <3>2
    <2>4. ASSUME NEW f \in t.flushing
          PROVE  /\ f.id <= t.sid
                 /\ f.pending => \E w \in t.io : w.id = f.id /\ w.buf = f.sector
      <3>1. CASE f \in s.flushing
        <4>1. f.id \in Nat /\ f.id <= s.sid /\ t.sid \in Nat
          <5>1. f \in WaiterType /\ t.sid \in Nat
            BY <1>1, <1>2, <3>1 DEF JournalType
          <5>2. f.id \in Nat
            BY <5>1 DEF WaiterType
          <5> QED BY <1>1, <3>1, <5>1, <5>2, Zenon DEF Ordered
        <4>2. f.pending => \E w \in s.io : w.id = f.id /\ w.buf = f.sector
          BY <1>1, <3>1, Zenon DEF Ordered
        <4> QED BY <1>1, <1>5, <1>6, <4>1, <4>2
      <3>2. CASE f = F
        BY <1>3, <1>4, <1>5, <3>2
      <3> QED BY <1>2, <3>1, <3>2
    <2> QED BY <2>1, <2>2, <2>3, <2>4 DEF Ordered
  <1>11. FirstPending(t)
    BY <1>1, <1>2, <1>3 DEF FirstPending, InFront
  <1>12. t.buf[t.cur].flush_count > 0
    <2>1. PICK w \in t.io : w.buf = b
      BY <1>4
    <2>2. From(t, b) # {} /\ t.buf[b].flush_count = Cardinality(From(t, b))
      BY <1>1, <1>8, <2>1 DEF From
    <2> QED BY <1>2, <1>7, <2>2, CountedWrites
  <1>13. \E w \in t.io : /\ w.buf = t.cur /\ w.off = t.buf[t.cur].off /\ ~w.sent
                         /\ WaitsFor(t, o, w)
    BY <1>2, <1>3, <1>4 DEF WaitsFor
  <1> QED BY <1>2, <1>7, <1>9, <1>10, <1>11, <1>12, <1>13 DEF Sound

LEMMA PrefillSound ==
  ASSUME NEW s, Sound(s), NEW o \in Ops, CanPrefill(s), NEW t, t = Prefill(s, o)
  PROVE  Sound(t)
  <1> DEFINE c == EntryBuffer(s)
  <1>1. /\ s \in JournalType /\ IsFiniteSet(s.io) /\ Pinned(s) /\ Ordered(s) /\ FirstPending(s)
        /\ s.cur \in Buffers /\ s.buf \in [Buffers -> BufType] /\ ~s.fatal
    BY DEF Sound, JournalType, Pinned
  <1>2. Prefilled(s, o, t)
    BY <1>1, PrefillFields
  <1>3. /\ t \in JournalType /\ c \in Buffers /\ t.cur = c /\ ~t.fatal
        /\ t.sid = s.sid /\ t.flushing = s.flushing /\ t.io = s.io
        /\ \A d \in Buffers : d # c => t.buf[d] = s.buf[d]
        /\ t.buf[c].off = EntrySector(s) /\ t.buf[c].flush_count = s.buf[c].flush_count
        /\ t.buf[c].submit_id = s.buf[c].submit_id
    BY <1>2 DEF Prefilled
  <1>4. \A d \in Buffers : /\ t.buf[d].flush_count = s.buf[d].flush_count
                           /\ t.buf[d].submit_id = s.buf[d].submit_id
    BY <1>3
  <1>5. ASSUME NEW w \in t.io, w.buf # -1
        PROVE  t.buf[w.buf].off = w.off
    <2>1. w \in s.io /\ w.buf \in Buffers /\ s.buf[w.buf].off = w.off
      BY <1>1, <1>3, <1>5 DEF Pinned, JournalType, WriteType
    <2>2. CASE w.buf # c
      BY <1>3, <2>1, <2>2
    <2>3. CASE w.buf = c /\ s.room > 0
      BY <1>3, <2>1, <2>3 DEF EntryBuffer, EntrySector
    <2>4. CASE w.buf = c /\ ~(s.room > 0)
      <3>1. s.buf[c].flush_count = 0
        BY <2>4 DEF CanPrefill, EntryBuffer
      <3>2. From(s, c) = {}
        BY <1>1, <1>3, <3>1, CountedWrites DEF Pinned, From
      <3> QED BY <2>1, <2>4, <3>2 DEF From
    <2> QED BY <2>2, <2>3, <2>4
  <1>6. ASSUME NEW d \in Buffers, d # t.cur
        PROVE  ~t.buf[d].dirty
    <2>1. t.buf[d] = s.buf[d]
      BY <1>3, <1>6
    <2>2. d = s.cur => ~s.buf[d].dirty
      BY <1>3, <1>6 DEF EntryBuffer, CanPrefill
    <2> QED BY <1>1, <2>1, <2>2 DEF Pinned
  <1>7. Pinned(t)
    <2>1. \A b \in Buffers : t.buf[b].flush_count = Cardinality({w \in t.io : w.buf = b})
      BY <1>1, <1>3, <1>4 DEF Pinned
    <2> QED BY <1>3, <1>5, <1>6, <2>1 DEF Pinned
  <1>8. Ordered(t)
    BY <1>1, <1>3, <1>4 DEF Ordered
  <1>9. FirstPending(t)
    BY <1>1, <1>3 DEF FirstPending
  <1> QED BY <1>1, <1>3, <1>7, <1>8, <1>9 DEF Sound

LEMMA AddDataSound ==
  ASSUME NEW s, Sound(s), NEW o \in Ops, NEW t, t = AddData(s, o)
  PROVE  /\ Sound(t)
         /\ \E w \in t.io : w.buf = -1 /\ w.op = o /\ WaitsFor(t, o, w)
  <1> DEFINE id == s.sid + 1
             W == Write(id, -1, -1, o)
             F == Waiter(id, -1, o)
  <1>1. /\ s \in JournalType /\ IsFiniteSet(s.io) /\ Pinned(s) /\ Ordered(s) /\ FirstPending(s)
        /\ s.sid \in Nat /\ s.io \in SUBSET WriteType /\ s.flushing \in SUBSET WaiterType
    BY DEF Sound, JournalType
  <1>2. /\ t \in JournalType /\ t.cur = s.cur /\ t.fatal = s.fatal /\ t.buf = s.buf
        /\ t.sid = id /\ t.flushing = s.flushing \union {F} /\ t.io = s.io \union {W}
    BY <1>1, AddDataFields
  <1>3. /\ F.id = id /\ F.pending /\ F.sector = -1 /\ F.op = o
        /\ W.id = id /\ W.buf = -1 /\ W.op = o
    BY DEF Waiter, Write
  <1>4. id \in Nat /\ id > s.sid
    BY <1>1
  <1>5. \A w \in s.io : w.id \in Nat /\ w.id <= s.sid
    BY <1>1 DEF Ordered, WriteType
  <1> HIDE DEF id, F, W
  <1>6. Pinned(t)
    <2>1. \A b \in Buffers : {w \in t.io : w.buf = b} = {w \in s.io : w.buf = b}
      BY <1>2, <1>3, Constants
    <2>2. \A b \in Buffers : t.buf[b].flush_count = Cardinality({w \in t.io : w.buf = b})
      BY <1>1, <1>2, <2>1 DEF Pinned
    <2>3. \A w \in t.io : w.buf # -1 => t.buf[w.buf].off = w.off
      BY <1>1, <1>2, <1>3 DEF Pinned
    <2> QED BY <1>1, <1>2, <2>2, <2>3 DEF Pinned
  <1>7. Ordered(t)
    <2>1. \A w \in t.io : w.id <= t.sid
      BY <1>1, <1>2, <1>3, <1>4, <1>5
    <2>2. \A v, w \in t.io : v.id = w.id => v = w
      <3> TAKE v \in t.io, w \in t.io
      <3> HAVE v.id = w.id
      <3>1. v \in s.io /\ w \in s.io => v = w
        BY <1>1 DEF Ordered
      <3> QED BY <1>1, <1>2, <1>3, <1>4, <1>5, <3>1
    <2>3. \A b \in Buffers : t.buf[b].submit_id # 0 =>
            \E w \in t.io : w.id = t.buf[b].submit_id /\ w.buf = b /\ ~w.sent
      <3> TAKE b \in Buffers
      <3> HAVE t.buf[b].submit_id # 0
      <3>1. PICK w \in s.io : w.id = s.buf[b].submit_id /\ w.buf = b /\ ~w.sent
        BY <1>1, <1>2 DEF Ordered
      <3> QED BY <1>2, <3>1
    <2>4. ASSUME NEW f \in t.flushing
          PROVE  /\ f.id <= t.sid
                 /\ f.pending => \E w \in t.io : w.id = f.id /\ w.buf = f.sector
      <3>1. CASE f \in s.flushing
        <4>1. f \in WaiterType
          BY <1>1, <3>1
        <4>2. f.id \in Nat
          BY <4>1 DEF WaiterType
        <4>3. /\ f.id <= s.sid
              /\ f.pending => \E w \in s.io : w.id = f.id /\ w.buf = f.sector
          BY <1>1, <3>1, Zenon DEF Ordered
        <4> QED BY <1>1, <1>2, <1>4, <4>2, <4>3
      <3>2. CASE f = F
        BY <1>2, <1>3, <1>4, <3>2
      <3> QED BY <1>2, <3>1, <3>2
    <2> QED BY <2>1, <2>2, <2>3, <2>4 DEF Ordered
  <1>8. FirstPending(t)
    BY <1>1, <1>2, <1>3 DEF FirstPending, InFront
  <1>9. IsFiniteSet(t.io)
    BY <1>1, <1>2, FS_AddElement
  <1>10. \E w \in t.io : w.buf = -1 /\ w.op = o /\ WaitsFor(t, o, w)
    BY <1>2, <1>3 DEF WaitsFor
  <1> QED BY <1>2, <1>6, <1>7, <1>8, <1>9, <1>10 DEF Sound

-----------------------------------------------------------------------------
(* Requests of A take journal s to t: what others wait for stays.           *)
Grows(s, t, A) ==
  /\ s.ents \in Seq([sec : Nat, op : Ops]) /\ t.ents \in Seq([sec : Nat, op : Ops])
  /\ s.io \subseteq t.io /\ s.flushing \subseteq t.flushing
  /\ \A f \in t.flushing \ s.flushing : f.op \in A
  /\ \A k \in DOMAIN s.ents : k \in DOMAIN t.ents /\ t.ents[k] = s.ents[k]
  /\ \A k \in DOMAIN t.ents \ DOMAIN s.ents : t.ents[k].op \in A

LEMMA GrowsTransitive ==
  ASSUME NEW r, NEW s, NEW t, NEW A, NEW B, Grows(r, s, A), Grows(s, t, B)
  PROVE  Grows(r, t, A \union B)
  <1>1. \A f \in t.flushing \ r.flushing : f.op \in A \union B
    BY DEF Grows
  <1>2. \A k \in DOMAIN r.ents : k \in DOMAIN t.ents /\ t.ents[k] = r.ents[k]
    BY DEF Grows
  <1>3. ASSUME NEW k \in DOMAIN t.ents \ DOMAIN r.ents
        PROVE  t.ents[k].op \in A \union B
    BY <1>3 DEF Grows
  <1>4. r.io \subseteq t.io /\ r.flushing \subseteq t.flushing
    BY DEF Grows
  <1> QED BY <1>1, <1>2, <1>3, <1>4 DEF Grows

LEMMA GrowsOwned ==
  ASSUME NEW s, NEW t, NEW A, Grows(s, t, A), NEW o \in Ops \ A, NEW wr
  PROVE  /\ HasEntry(t, o) <=> HasEntry(s, o)
         /\ Waits(t, o) <=> Waits(s, o)
         /\ DataOwned(s, wr, o) => DataOwned(t, wr, o)
         /\ EntryOwned(s, wr, o) => EntryOwned(t, wr, o)
  <1>1. HasEntry(t, o) <=> HasEntry(s, o)
    BY DEF Grows, HasEntry
  <1>2. Waits(t, o) <=> Waits(s, o)
    BY DEF Grows, Waits
  <1>3. ASSUME NEW w, WaitsFor(s, o, w)
        PROVE  WaitsFor(t, o, w)
    BY <1>3 DEF Grows, WaitsFor
  <1>4. DataOwned(s, wr, o) => DataOwned(t, wr, o)
    BY <1>3 DEF DataOwned, Grows
  <1>5. ASSUME EntryOwned(s, wr, o), NEW k \in DOMAIN t.ents, t.ents[k].op = o
        PROVE  \/ <<"entry", k>> \in wr
               \/ \E w \in t.io : /\ w.buf # -1 /\ w.off = t.ents[k].sec
                                  /\ (w.sent => k <= w.upto) /\ WaitsFor(t, o, w)
    <2>1. k \in DOMAIN s.ents /\ t.ents[k] = s.ents[k]
      BY <1>5 DEF Grows
    <2>2. CASE <<"entry", k>> \in wr
      BY <2>2
    <2>3. CASE <<"entry", k>> \notin wr
      <3>1. PICK w \in s.io : /\ w.buf # -1 /\ w.off = s.ents[k].sec
                              /\ (w.sent => k <= w.upto) /\ WaitsFor(s, o, w)
        BY <1>5, <2>1, <2>3 DEF EntryOwned
      <3>2. w \in t.io /\ WaitsFor(t, o, w)
        BY <1>3, <3>1 DEF Grows
      <3> QED BY <2>1, <3>1, <3>2
    <2> QED BY <2>2, <2>3
  <1> QED BY <1>1, <1>2, <1>4, <1>5 DEF EntryOwned

LEMMA PrepareGrows ==
  ASSUME NEW s \in JournalType, NEW o \in Ops, NEW t, t = Prepare(s, o)
  PROVE  Grows(s, t, {o})
  <1>1. Prepared(s, o, t)
    BY PrepareFields
  <1>2. s.ents \in Seq([sec : Nat, op : Ops]) /\ t.ents = s.ents
    BY <1>1 DEF Prepared, JournalType
  <1>3. Waiter(WriteId(s), s.cur, o).op = o
    BY DEF Waiter
  <1>4. t.flushing = s.flushing \union {Waiter(WriteId(s), s.cur, o)} /\ s.io \subseteq t.io
    BY <1>1 DEF Prepared
  <1> QED BY <1>2, <1>3, <1>4 DEF Grows

LEMMA AddDataGrows ==
  ASSUME NEW s \in JournalType, NEW o \in Ops, NEW t, t = AddData(s, o)
  PROVE  Grows(s, t, {o})
  <1>1. /\ t.ents = s.ents /\ t.flushing = s.flushing \union {Waiter(s.sid + 1, -1, o)}
        /\ s.io \subseteq t.io
    BY AddDataFields
  <1>2. s.ents \in Seq([sec : Nat, op : Ops])
    BY DEF JournalType
  <1>3. Waiter(s.sid + 1, -1, o).op = o
    BY DEF Waiter
  <1> QED BY <1>1, <1>2, <1>3 DEF Grows

LEMMA PrefillGrows ==
  ASSUME NEW s \in JournalType, NEW o \in Ops, ~s.fatal, CanPrefill(s),
         NEW t, t = Prefill(s, o)
  PROVE  /\ Grows(s, t, {o})
         /\ HasEntry(t, o)
         /\ \A k \in DOMAIN t.ents \ DOMAIN s.ents : t.ents[k].sec = t.buf[t.cur].off
  <1> DEFINE e == [sec |-> EntrySector(s), op |-> o]
  <1>1. Prefilled(s, o, t)
    BY PrefillFields
  <1>2. /\ t.ents = Append(s.ents, e) /\ t.io = s.io /\ t.flushing = s.flushing
        /\ t.buf[t.cur].off = EntrySector(s)
    BY <1>1 DEF Prefilled
  <1>3. s.ents \in Seq([sec : Nat, op : Ops]) /\ t.ents \in Seq([sec : Nat, op : Ops])
    BY <1>1 DEF JournalType, Prefilled
  <1>4. e.sec = EntrySector(s) /\ e.op = o
    OBVIOUS
  <1> HIDE DEF e
  <1>5. /\ Len(s.ents) \in Nat /\ DOMAIN s.ents = 1..Len(s.ents)
        /\ DOMAIN t.ents = 1..(Len(s.ents) + 1)
        /\ t.ents[Len(s.ents) + 1] = e
        /\ \A k \in 1..Len(s.ents) : t.ents[k] = s.ents[k]
    BY <1>2, <1>3
  <1>6. \A k \in DOMAIN t.ents \ DOMAIN s.ents : k = Len(s.ents) + 1
    BY <1>5
  <1>7. Grows(s, t, {o})
    BY <1>2, <1>3, <1>4, <1>5, <1>6 DEF Grows
  <1>8. HasEntry(t, o)
    BY <1>4, <1>5 DEF HasEntry
  <1> QED BY <1>2, <1>4, <1>5, <1>6, <1>7, <1>8

(* An entry whose sector is prepared at once is its request's to wait for.  *)
LEMMA EntryMonotone ==
  ASSUME NEW s, NEW t, s.io \subseteq t.io, s.flushing \subseteq t.flushing,
         t.ents = s.ents, NEW o, NEW wr, EntryOwned(s, wr, o)
  PROVE  EntryOwned(t, wr, o)
  <1>1. ASSUME NEW w, WaitsFor(s, o, w)
        PROVE  WaitsFor(t, o, w)
    BY <1>1 DEF WaitsFor
  <1>2. ASSUME NEW k \in DOMAIN t.ents, t.ents[k].op = o, <<"entry", k>> \notin wr
        PROVE  \E w \in t.io : /\ w.buf # -1 /\ w.off = t.ents[k].sec
                               /\ (w.sent => k <= w.upto) /\ WaitsFor(t, o, w)
    <2>1. PICK w \in s.io : /\ w.buf # -1 /\ w.off = s.ents[k].sec
                            /\ (w.sent => k <= w.upto) /\ WaitsFor(s, o, w)
      BY <1>2 DEF EntryOwned
    <2> QED BY <1>1, <2>1
  <1> QED BY <1>2 DEF EntryOwned

LEMMA OwnEntry ==
  ASSUME NEW s, Sound(s), NEW o \in Ops, CanPrefill(s), ~HasEntry(s, o), NEW wr,
         NEW t, t = Prefill(s, o), NEW u, u = Prepare(t, o)
  PROVE  EntryOwned(u, wr, o)
  <1>1. Sound(t) /\ t \in JournalType
    BY PrefillSound DEF Sound
  <1>2. Prepared(t, o, u)
    BY <1>1, PrepareFields
  <1>3. u.ents = t.ents /\ u.cur = t.cur /\ u.buf[u.cur].off = t.buf[t.cur].off
    BY <1>2 DEF Prepared
  <1>4. PICK w \in u.io : /\ w.buf = u.cur /\ w.off = u.buf[u.cur].off /\ ~w.sent
                          /\ WaitsFor(u, o, w)
    BY <1>1, PrepareSound
  <1>5. u.cur \in Buffers
    BY <1>2 DEF Prepared, JournalType
  <1>6. ASSUME NEW k \in DOMAIN u.ents, u.ents[k].op = o
        PROVE  w.off = u.ents[k].sec
    <2>1. /\ Grows(s, t, {o})
          /\ \A i \in DOMAIN t.ents \ DOMAIN s.ents : t.ents[i].sec = t.buf[t.cur].off
      BY PrefillGrows DEF Sound, Pinned
    <2>2. k \notin DOMAIN s.ents
      BY <1>3, <1>6, <2>1 DEF Grows, HasEntry
    <2> QED BY <1>3, <1>4, <1>6, <2>1, <2>2
  <1>7. w.buf # -1
    BY <1>4, <1>5, Constants
  <1> QED BY <1>4, <1>6, <1>7 DEF EntryOwned

(* Before the entry: the full sector is written out, if it must be.         *)
LEMMA PriorSound ==
  ASSUME Sound(j), BufferAvailable(1), NEW o \in Ops, NEW s,
         \/ s = Prepare(j, o) /\ j.room = 0
         \/ s = j /\ (j.room > 0 \/ ~j.buf[j.cur].dirty)
  PROVE  Sound(s) /\ CanPrefill(s) /\ Grows(j, s, {o}) /\ s.ents = j.ents
  <1>1. /\ j \in JournalType /\ j.cur \in Buffers /\ j.room \in 0..(PerSector - 1)
        /\ j.ents \in Seq([sec : Nat, op : Ops])
    BY DEF Sound, JournalType
  <1>2. ~(j.room > 0) => j.buf[NextBuffer(j.cur)].flush_count = 0
    <2>1. ~(j.room > 0) => Needed(1, 1)
      BY <1>1, Constants DEF Needed
    <2>2. 1 \in 1..Bufs
      BY Constants
    <2> QED BY <2>1, <2>2 DEF BufferAvailable, NextBuffer
  <1>3. CASE s = Prepare(j, o) /\ j.room = 0
    <2>1. Prepared(j, o, s)
      BY <1>1, <1>3, PrepareFields
    <2>2. CanPrefill(s)
      BY <1>1, <1>2, <1>3, <2>1, Constants DEF Prepared, CanPrefill
    <2> QED BY <1>1, <1>3, <2>1, <2>2, PrepareSound, PrepareGrows DEF Prepared
  <1>4. CASE s = j /\ (j.room > 0 \/ ~j.buf[j.cur].dirty)
    BY <1>1, <1>2, <1>4 DEF CanPrefill, Grows
  <1> QED BY <1>3, <1>4

NoneDirty(s) == \A b \in Buffers : ~s.buf[b].dirty

LEMMA PrepareCleans ==
  ASSUME NEW s, Sound(s), NEW o \in Ops, NEW t, t = Prepare(s, o)
  PROVE  NoneDirty(t)
  <1>1. Sound(t)
    BY PrepareSound
  <1>2. t.buf[t.cur].dirty = FALSE
    <2>1. Prepared(s, o, t)
      BY PrepareFields DEF Sound
    <2> QED BY <2>1 DEF Prepared
  <1> QED BY <1>1, <1>2 DEF Sound, Pinned, NoneDirty

(* Request o, or several with it that own nothing, has brought the journal  *)
(* to t.                                                                    *)
LEMMA SubmittedKeeps ==
  ASSUME WritesInv, NEW o \in Ops, NEW A, A \intersect Owners \subseteq {o},
         NEW t, Sound(t), Grows(j, t, A), imm => NoneDirty(t),
         NEW ops \in [Ops -> OpType], \A p \in Ops \ {o} : ops[p] = op[p],
         Submitted(t, o, ops), imm' = imm, written' = written,
         unsynced' \in [big : Seq(Bigs), small : Seq(Small \union Deletes)],
         o \in Owners => /\ HasEntry(t, o)
                         /\ o \in Small => DataOwned(t, written, o)
                         /\ imm \/ o \in Stabs => EntryOwned(t, written, o)
  PROVE  WritesInv'
  <1> DEFINE st == IF Waits(t, o) THEN "sent" ELSE "ready"
             secs == SectorsOf(t, o)
  <1>1. j' = t /\ t \in JournalType /\ IsFiniteSet(t.io)
    BY DEF Submitted, Sound
  <1>2. secs \in SUBSET Buffers
    <2>1. \A f \in t.flushing : f.sector \in Buffers \union {-1}
      BY <1>1 DEF JournalType, WaiterType
    <2> QED BY <2>1 DEF SectorsOf
  <1>3. st \in {"sent", "ready"} /\ (st # "sent" => ~Waits(t, o))
    OBVIOUS
  <1>4. op' = [ops EXCEPT ![o].st = st, ![o].secs = secs]
    BY DEF Submitted
  <1> HIDE DEF st, secs
  <1>5. op' \in [Ops -> OpType] /\ op'[o].st = st /\ \A p \in Ops \ {o} : op'[p] = op[p]
    <2>1. ops[o] \in OpType
      OBVIOUS
    <2>2. [ops[o] EXCEPT !.st = st, !.secs = secs] \in OpType
      BY <1>2, <1>3, <2>1 DEF OpType
    <2>3. op' = [ops EXCEPT ![o] = [ops[o] EXCEPT !.st = st, !.secs = secs]]
      BY <1>4
    <2>4. [ops[o] EXCEPT !.st = st, !.secs = secs].st = st
      BY <2>1 DEF OpType
    <2> QED BY <2>2, <2>3, <2>4
  <1>6. TypeOK'
    BY <1>1, <1>5 DEF WritesInv, TypeOK
  <1>7. (Pinned(j) /\ Ordered(j) /\ FirstPending(j))'
    BY <1>1 DEF Sound, Pinned, Ordered, FirstPending, InFront
  <1>8. (imm => \A b \in Buffers : ~j.buf[b].dirty)'
    BY <1>1 DEF NoneDirty
  <1>9. ASSUME NEW p \in Owners
        PROVE  RequestOwned(p)'
    <2>1. CASE p = o
      BY <1>1, <1>3, <1>5, <1>9, <2>1 DEF RequestOwned, HasEntry, Waits, DataOwned, EntryOwned, WaitsFor
    <2>2. CASE p # o
      <3>1. p \in Ops \ A /\ op'[p] = op[p] /\ RequestOwned(p)
        BY <1>5, <1>9, <2>2 DEF WritesInv, Owners, Ops, Modifications
      <3>2. /\ HasEntry(t, p) <=> HasEntry(j, p)
            /\ Waits(t, p) <=> Waits(j, p)
            /\ DataOwned(j, written, p) => DataOwned(t, written, p)
            /\ EntryOwned(j, written, p) => EntryOwned(t, written, p)
        BY <3>1, GrowsOwned
      <3> HIDE DEF HasEntry, Waits, DataOwned, EntryOwned
      <3> QED BY <1>1, <3>1, <3>2 DEF RequestOwned, HasEntry, Waits, DataOwned, EntryOwned, WaitsFor
    <2> QED BY <2>1, <2>2
  <1> QED BY <1>6, <1>7, <1>8, <1>9 DEF WritesInv

-----------------------------------------------------------------------------
(* The actions keep the invariant.                                          *)

LEMMA SoundJournal ==
  ASSUME WritesInv
  PROVE  Sound(j) /\ j \in JournalType /\ ~j.fatal /\ (imm => NoneDirty(j))
  BY DEF WritesInv, TypeOK, Sound, Pinned, NoneDirty

(* The full sector is written out, or nothing is and it need not be.        *)
PriorDone(s, o) ==
  \/ s = Prepare(j, o) /\ j.room = 0
  \/ s = j /\ (j.room > 0 \/ ~j.buf[j.cur].dirty)

LEMMA PriorCases ==
  ASSUME WritesInv, NEW o \in Ops
  PROVE  /\ PriorDone(PriorOfSmall(o), o) /\ PriorDone(PriorIfDirty(j, o), o)
         /\ imm => PriorDone(j, o)
  <1>1. j.room \in 0..(PerSector - 1) /\ j.cur \in Buffers /\ (imm => ~j.buf[j.cur].dirty)
    BY DEF WritesInv, TypeOK, JournalType
  <1>2. PriorDone(PriorOfSmall(o), o)
    <2>1. CASE ~imm /\ ~Fits
      BY <1>1, <2>1, Constants DEF PriorOfSmall, PriorDone, Fits
    <2>2. CASE imm \/ Fits
      BY <1>1, <2>2 DEF PriorOfSmall, PriorDone, Fits
    <2> QED BY <2>1, <2>2
  <1>3. PriorDone(PriorIfDirty(j, o), o)
    <2>1. CASE j.room = 0 /\ j.buf[j.cur].dirty
      BY <2>1 DEF PriorIfDirty, PriorDone
    <2>2. CASE ~(j.room = 0 /\ j.buf[j.cur].dirty)
      <3>1. j.room > 0 \/ ~j.buf[j.cur].dirty
        BY <1>1, <2>2, Constants
      <3> QED BY <2>2, <3>1 DEF PriorIfDirty, PriorDone
    <2> QED BY <2>1, <2>2
  <1> QED BY <1>1, <1>2, <1>3 DEF PriorDone

(* An entry of o in the journal after the prior write s, and what follows.  *)
LEMMA EntryAdded ==
  ASSUME WritesInv, NEW o \in Owners, Dequeued(o), BufferAvailable(1), NEW s, PriorDone(s, o),
         NEW t, t = Prefill(s, o), NEW u, u = Prepare(t, o)
  PROVE  /\ Sound(t) /\ Grows(j, t, {o}) /\ HasEntry(t, o)
         /\ Sound(u) /\ Grows(j, u, {o}) /\ HasEntry(u, o) /\ EntryOwned(u, written, o)
         /\ NoneDirty(u)
  <1>1. Sound(j) /\ o \in Ops /\ ~HasEntry(j, o)
    BY SoundJournal DEF WritesInv, RequestOwned, Dequeued, Owners, Ops, Modifications
  <1>2. Sound(s) /\ CanPrefill(s) /\ Grows(j, s, {o}) /\ s.ents = j.ents
    BY <1>1, PriorSound DEF PriorDone
  <1>3. s \in JournalType /\ ~s.fatal /\ ~HasEntry(s, o)
    BY <1>1, <1>2 DEF Sound, Pinned, HasEntry
  <1>4. Sound(t) /\ Grows(s, t, {o}) /\ HasEntry(t, o)
    BY <1>1, <1>2, <1>3, PrefillSound, PrefillGrows
  <1>5. {o} \union {o} = {o}
    OBVIOUS
  <1>6. Grows(j, t, {o})
    <2>1. Grows(j, t, {o} \union {o})
      BY <1>2, <1>4, GrowsTransitive
    <2> QED BY <1>5, <2>1
  <1>7. Sound(u) /\ NoneDirty(u)
    BY <1>1, <1>4, PrepareSound, PrepareCleans
  <1>8. Grows(t, u, {o})
    BY <1>1, <1>4, PrepareGrows DEF Sound
  <1>9. Grows(j, u, {o})
    <2>1. Grows(j, u, {o} \union {o})
      BY <1>6, <1>8, GrowsTransitive
    <2> QED BY <1>5, <2>1
  <1>10. HasEntry(u, o)
    BY <1>4, <1>8 DEF HasEntry, Grows
  <1>11. EntryOwned(u, written, o)
    BY <1>1, <1>2, <1>3, OwnEntry
  <1> QED BY <1>4, <1>6, <1>7, <1>9, <1>10, <1>11

LEMMA SmallKeeps ==
  ASSUME WritesInv, NEW o \in Small, WriteSmall(o)
  PROVE  WritesInv'
  <1>1. /\ o \in Owners /\ o \in Ops /\ o \notin Stabs
        /\ Dequeued(o) /\ BufferAvailable(1) /\ imm' = imm /\ written' = written
        /\ unsynced' \in [big : Seq(Bigs), small : Seq(Small \union Deletes)]
        /\ op \in [Ops -> OpType]
    BY WritesAssumption DEF Owners, Ops, Modifications, WriteSmall, WritesInv, TypeOK
  <1>2. PICK s : s = PriorOfSmall(o)
    OBVIOUS
  <1>3. PICK t : t = Prefill(s, o)
    OBVIOUS
  <1>4. PICK u : u = Prepare(t, o)
    OBVIOUS
  <1>5. PICK v : v = IF imm THEN u ELSE t
    OBVIOUS
  <1>6. PICK x : x = AddData(v, o)
    OBVIOUS
  <1>7. Submitted(x, o, op)
    BY <1>2, <1>3, <1>4, <1>5, <1>6 DEF WriteSmall
  <1>8. /\ Sound(t) /\ Grows(j, t, {o}) /\ HasEntry(t, o)
        /\ Sound(u) /\ Grows(j, u, {o}) /\ HasEntry(u, o) /\ EntryOwned(u, written, o)
        /\ NoneDirty(u)
    BY <1>1, <1>2, <1>3, <1>4, PriorCases, EntryAdded
  <1>9. /\ Sound(v) /\ Grows(j, v, {o}) /\ HasEntry(v, o)
        /\ imm => EntryOwned(v, written, o) /\ NoneDirty(v)
    BY <1>5, <1>8
  <1>10. v \in JournalType
    BY <1>9 DEF Sound
  <1>11. Grows(v, x, {o}) /\ x.ents = v.ents /\ x.buf = v.buf
    BY <1>1, <1>6, <1>10, AddDataGrows, AddDataFields
  <1>12. Grows(j, x, {o})
    <2>1. Grows(j, x, {o} \union {o})
      BY <1>9, <1>11, GrowsTransitive
    <2>2. {o} \union {o} = {o}
      OBVIOUS
    <2> QED BY <2>1, <2>2
  <1>13. Sound(x) /\ DataOwned(x, written, o)
    BY <1>1, <1>6, <1>9, AddDataSound DEF DataOwned
  <1>14. HasEntry(x, o) /\ (imm => NoneDirty(x))
    BY <1>9, <1>11 DEF HasEntry, NoneDirty
  <1>15. imm => EntryOwned(x, written, o)
    BY <1>9, <1>11, EntryMonotone DEF Grows
  <1>16. {o} \intersect Owners \subseteq {o}
    OBVIOUS
  <1> QED BY <1>1, <1>7, <1>12, <1>13, <1>14, <1>15, <1>16, SubmittedKeeps

LEMMA DeleteKeeps ==
  ASSUME WritesInv, NEW o \in Deletes, Delete(o)
  PROVE  WritesInv'
  <1>1. /\ o \in Owners /\ o \in Ops /\ o \notin Stabs /\ o \notin Small
        /\ Dequeued(o) /\ BufferAvailable(1) /\ imm' = imm /\ written' = written
        /\ unsynced' \in [big : Seq(Bigs), small : Seq(Small \union Deletes)]
        /\ op \in [Ops -> OpType]
    BY WritesAssumption DEF Owners, Ops, Modifications, Delete, WritesInv, TypeOK
  <1>2. PICK s : s = IF imm THEN j ELSE PriorIfDirty(j, o)
    OBVIOUS
  <1>3. PICK t : t = Prefill(s, o)
    OBVIOUS
  <1>4. PICK u : u = Prepare(t, o)
    OBVIOUS
  <1>5. PICK v : v = IF imm THEN u ELSE t
    OBVIOUS
  <1>6. Submitted(v, o, op)
    BY <1>2, <1>3, <1>4, <1>5 DEF Delete
  <1>7. PriorDone(s, o)
    BY <1>1, <1>2, PriorCases
  <1>8. /\ Sound(t) /\ Grows(j, t, {o}) /\ HasEntry(t, o)
        /\ Sound(u) /\ Grows(j, u, {o}) /\ HasEntry(u, o) /\ EntryOwned(u, written, o)
        /\ NoneDirty(u)
    BY <1>1, <1>3, <1>4, <1>7, EntryAdded
  <1>9. /\ Sound(v) /\ Grows(j, v, {o}) /\ HasEntry(v, o)
        /\ imm => EntryOwned(v, written, o) /\ NoneDirty(v)
    BY <1>5, <1>8
  <1>10. {o} \intersect Owners \subseteq {o}
    OBVIOUS
  <1> QED BY <1>1, <1>6, <1>9, <1>10, SubmittedKeeps

LEMMA StabKeeps ==
  ASSUME WritesInv, NEW o \in Stabs, Stab(o)
  PROVE  WritesInv'
  <1>1. /\ o \in Owners /\ o \in Ops /\ o \notin Small
        /\ Dequeued(o) /\ BufferAvailable(1) /\ imm' = imm /\ written' = written
        /\ unsynced' \in [big : Seq(Bigs), small : Seq(Small \union Deletes)]
        /\ op \in [Ops -> OpType]
    BY WritesAssumption DEF Owners, Ops, Modifications, Stab, WritesInv, TypeOK
  <1>2. PICK s : s = PriorIfDirty(j, o)
    OBVIOUS
  <1>3. PICK t : t = Prefill(s, o)
    OBVIOUS
  <1>4. PICK u : u = Prepare(t, o)
    OBVIOUS
  <1>5. Submitted(u, o, op)
    BY <1>2, <1>3, <1>4 DEF Stab
  <1>6. /\ Sound(u) /\ Grows(j, u, {o}) /\ HasEntry(u, o) /\ EntryOwned(u, written, o)
        /\ NoneDirty(u)
    BY <1>1, <1>2, <1>3, <1>4, PriorCases, EntryAdded
  <1>7. {o} \intersect Owners \subseteq {o}
    OBVIOUS
  <1> QED BY <1>1, <1>5, <1>6, <1>7, SubmittedKeeps

UnsyncedType == [big : Seq(Bigs), small : Seq(Small \union Deletes)]

(* Only the record of request o changes.                                    *)
LEMMA OpKeeps ==
  ASSUME WritesInv, NEW o \in Ops, j' = j, imm' = imm, written' = written,
         unsynced' \in UnsyncedType, NEW r \in OpType, op' = [op EXCEPT ![o] = r],
         o \in Owners => op[o].st = "ready" /\ r.st = "written"
  PROVE  WritesInv'
  <1>1. /\ op \in [Ops -> OpType] /\ op' \in [Ops -> OpType] /\ op'[o] = r
        /\ \A p \in Ops \ {o} : op'[p] = op[p]
    BY DEF WritesInv, TypeOK
  <1>2. TypeOK'
    BY <1>1 DEF WritesInv, TypeOK, UnsyncedType
  <1>3. (Pinned(j) /\ Ordered(j) /\ FirstPending(j))'
    BY DEF WritesInv, Pinned, Ordered, FirstPending, InFront
  <1>4. ASSUME NEW p \in Owners
        PROVE  RequestOwned(p)'
    <2>1. RequestOwned(p) /\ p \in Ops
      BY DEF WritesInv, Owners, Ops, Modifications
    <2>2. /\ HasEntry(j, p)' = HasEntry(j, p) /\ Waits(j, p)' = Waits(j, p)
          /\ DataOwned(j, written, p)' = DataOwned(j, written, p)
          /\ EntryOwned(j, written, p)' = EntryOwned(j, written, p)
      BY DEF HasEntry, Waits, DataOwned, EntryOwned, WaitsFor
    <2>3. CASE p = o
      BY <1>1, <1>4, <2>1, <2>2, <2>3 DEF RequestOwned
    <2>4. CASE p # o
      BY <1>1, <2>1, <2>2, <2>4 DEF RequestOwned
    <2> QED BY <2>3, <2>4
  <1> QED BY <1>2, <1>3, <1>4 DEF WritesInv

LEMMA BigKeeps ==
  ASSUME WritesInv, NEW o \in Bigs, WriteBig(o)
  PROVE  WritesInv'
  <1>1. o \in Ops /\ o \notin Owners
    BY WritesAssumption DEF Ops, Modifications, Owners
  <1>2. op \in [Ops -> OpType] /\ op[o] \in OpType /\ unsynced \in UnsyncedType
    BY <1>1 DEF WritesInv, TypeOK, UnsyncedType
  <1>3. PICK r : r = [op[o] EXCEPT !.st = "written"]
    OBVIOUS
  <1>4. r \in OpType
    BY <1>2, <1>3 DEF OpType
  <1>5. op' = [op EXCEPT ![o] = r]
    BY <1>2, <1>3 DEF WriteBig
  <1>6. unsynced' \in UnsyncedType
    <2>1. Append(unsynced.big, o) \in Seq(Bigs)
      BY <1>2 DEF UnsyncedType
    <2> QED BY <1>2, <2>1 DEF WriteBig, UnsyncedType
  <1>7. j' = j /\ imm' = imm /\ written' = written
    BY DEF WriteBig
  <1> QED BY <1>1, <1>4, <1>5, <1>6, <1>7, OpKeeps

LEMMA DoneKeeps ==
  ASSUME WritesInv, NEW o \in Small \union Deletes, WriteDone(o)
  PROVE  WritesInv'
  <1>1. o \in Ops
    BY DEF Ops, Modifications
  <1>2. op \in [Ops -> OpType] /\ op[o] \in OpType /\ unsynced \in UnsyncedType
    BY <1>1 DEF WritesInv, TypeOK, UnsyncedType
  <1>3. PICK r : r = [op[o] EXCEPT !.st = "written"]
    OBVIOUS
  <1>4. r \in OpType /\ r.st = "written" /\ op[o].st = "ready"
    BY <1>2, <1>3 DEF OpType, WriteDone
  <1>5. op' = [op EXCEPT ![o] = r]
    BY <1>2, <1>3 DEF WriteDone
  <1>6. unsynced' \in UnsyncedType
    <2>1. Append(unsynced.small, o) \in Seq(Small \union Deletes)
      BY <1>2 DEF UnsyncedType
    <2>2. [unsynced EXCEPT !.small = Append(unsynced.small, o)] \in UnsyncedType
      BY <1>2, <2>1 DEF UnsyncedType
    <2> QED BY <1>2, <2>2 DEF WriteDone
  <1>7. j' = j /\ imm' = imm /\ written' = written
    BY DEF WriteDone
  <1> QED BY <1>1, <1>4, <1>5, <1>6, <1>7, OpKeeps

LEMMA FsyncKeeps ==
  ASSUME WritesInv, NEW o \in SyncOps \union Stabs, Fsync(o)
  PROVE  WritesInv'
  <1>1. o \in Ops
    BY DEF Ops, Modifications
  <1>2. op \in [Ops -> OpType] /\ op[o] \in OpType /\ unsynced \in UnsyncedType
    BY <1>1 DEF WritesInv, TypeOK, UnsyncedType
  <1>3. PICK r : r = [op[o] EXCEPT !.st = "written"]
    OBVIOUS
  <1>4. r \in OpType /\ r.st = "written" /\ op[o].st = "ready"
    BY <1>2, <1>3 DEF OpType, Fsync
  <1>5. op' = [op EXCEPT ![o] = r]
    BY <1>2, <1>3 DEF Fsync
  <1>6. unsynced' \in UnsyncedType /\ j' = j /\ imm' = imm /\ written' = written
    BY <1>2 DEF Fsync
  <1> QED BY <1>1, <1>4, <1>5, <1>6, OpKeeps

LEMMA SyncStartKeeps ==
  ASSUME WritesInv, NEW o \in SyncOps, SyncStart(o)
  PROVE  WritesInv'
  <1>1. o \in Ops /\ o \notin Owners
    BY WritesAssumption DEF Ops, Owners
  <1>2. /\ op \in [Ops -> OpType] /\ op[o] \in OpType /\ unsynced \in UnsyncedType
        /\ imm' = imm /\ written' = written
    BY <1>1 DEF WritesInv, TypeOK, UnsyncedType, SyncStart
  <1>3. PICK r : r = [op[o] EXCEPT !.big = unsynced.big, !.small = unsynced.small]
    OBVIOUS
  <1>4. PICK taken : taken = [op EXCEPT ![o].big = unsynced.big, ![o].small = unsynced.small]
    OBVIOUS
  <1>5. r \in OpType /\ taken = [op EXCEPT ![o] = r]
    BY <1>2, <1>3, <1>4 DEF OpType, UnsyncedType
  <1>6. unsynced' \in UnsyncedType
    <2>1. unsynced' = [big |-> << >>, small |-> << >>]
      BY DEF SyncStart
    <2>2. << >> \in Seq(Bigs) /\ << >> \in Seq(Small \union Deletes)
      OBVIOUS
    <2> QED BY <2>1, <2>2 DEF UnsyncedType
  <1>7. CASE unsynced.big # << >>
    <2>1. op' = [taken EXCEPT ![o].st = "has_big"] /\ j' = j
      BY <1>4, <1>7 DEF SyncStart
    <2>2. PICK q : q = [r EXCEPT !.st = "has_big"]
      OBVIOUS
    <2>3. q \in OpType
      BY <1>5, <2>2 DEF OpType
    <2>4. op' = [op EXCEPT ![o] = q]
      BY <1>1, <1>2, <1>5, <2>1, <2>2
    <2> QED BY <1>1, <1>2, <1>6, <2>1, <2>3, <2>4, OpKeeps
  <1>8. CASE unsynced.big = << >>
    <2>1. PICK t : t = IF j.buf[j.cur].dirty THEN Prepare(j, o) ELSE j
      OBVIOUS
    <2>2. Submitted(t, o, taken)
      BY <1>4, <1>8, <2>1 DEF SyncStart
    <2>3. Sound(t) /\ Grows(j, t, {o}) /\ (imm => NoneDirty(t))
      <3>1. Sound(j) /\ j \in JournalType /\ (imm => NoneDirty(j))
        BY SoundJournal
      <3>2. CASE j.buf[j.cur].dirty
        BY <1>1, <2>1, <3>1, <3>2, PrepareSound, PrepareGrows, PrepareCleans
      <3>3. CASE ~j.buf[j.cur].dirty
        BY <2>1, <3>1, <3>3 DEF Grows, JournalType
      <3> QED BY <3>2, <3>3
    <2>4. /\ taken \in [Ops -> OpType] /\ {o} \intersect Owners \subseteq {o}
          /\ \A p \in Ops \ {o} : taken[p] = op[p]
      BY <1>2, <1>5
    <2> QED BY <1>1, <1>2, <1>6, <2>2, <2>3, <2>4, SubmittedKeeps DEF UnsyncedType
  <1> QED BY <1>7, <1>8

LEMMA GoesOutFields ==
  ASSUME j \in JournalType, NEW w \in j.io, NEW v, v = GoesOut(w)
  PROVE  /\ v \in WriteType
         /\ v.id = w.id /\ v.buf = w.buf /\ v.off = w.off /\ v.op = w.op
         /\ v.upto = (IF w.sent THEN w.upto ELSE Len(j.ents))
  <1>1. w \in WriteType /\ Len(j.ents) \in Nat
    BY DEF JournalType
  <1>2. CASE w.sent
    BY <1>1, <1>2 DEF GoesOut
  <1>3. CASE ~w.sent
    <2>1. v = [w EXCEPT !.sent = TRUE, !.upto = Len(j.ents)]
      BY <1>3 DEF GoesOut
    <2>2. v \in WriteType
      BY <1>1, <2>1 DEF WriteType
    <2>3. v.id = w.id /\ v.buf = w.buf /\ v.off = w.off /\ v.op = w.op /\ v.upto = Len(j.ents)
      BY <1>1, <2>1 DEF WriteType
    <2> QED BY <1>3, <2>2, <2>3
  <1> QED BY <1>2, <1>3

LEMMA SubmitKeeps ==
  ASSUME WritesInv, Submit
  PROVE  WritesInv'
  <1>1. /\ Sound(j) /\ j \in JournalType /\ IsFiniteSet(j.io)
        /\ Pinned(j) /\ Ordered(j) /\ FirstPending(j)
        /\ j.buf \in [Buffers -> BufType] /\ j.io \in SUBSET WriteType
        /\ j.ents \in Seq([sec : Nat, op : Ops])
    BY SoundJournal DEF Sound, JournalType
  <1>2. PICK io : io = {GoesOut(w) : w \in j.io}
    OBVIOUS
  <1>3. PICK bufs : bufs = [b \in Buffers |-> [j.buf[b] EXCEPT !.submit_id = 0]]
    OBVIOUS
  <1>4. j' = [j EXCEPT !.io = io, !.buf = bufs]
    BY <1>2, <1>3 DEF Submit
  <1>5. io \in SUBSET WriteType
    BY <1>1, <1>2, GoesOutFields
  <1>6. ASSUME NEW b \in Buffers
        PROVE  /\ bufs[b] \in BufType /\ bufs[b].off = j.buf[b].off
               /\ bufs[b].dirty = j.buf[b].dirty /\ bufs[b].submit_id = 0
               /\ bufs[b].flush_count = j.buf[b].flush_count
    <2>1. bufs[b] = [j.buf[b] EXCEPT !.submit_id = 0] /\ j.buf[b] \in BufType
      BY <1>1, <1>3
    <2> QED BY <2>1 DEF BufType
  <1>7. bufs \in [Buffers -> BufType]
    BY <1>3, <1>6
  <1>8. /\ j' \in JournalType /\ j'.io = io /\ j'.buf = bufs /\ j'.cur = j.cur
        /\ j'.flushing = j.flushing /\ j'.sid = j.sid /\ j'.ents = j.ents /\ j'.fatal = j.fatal
    BY <1>1, <1>4, <1>5, <1>7 DEF JournalType
  <1>9. \A w \in j.io : GoesOut(w) \in io /\ GoesOut(w).id = w.id /\ GoesOut(w).buf = w.buf
                         /\ GoesOut(w).off = w.off /\ GoesOut(w).op = w.op
    BY <1>1, <1>2, GoesOutFields
  <1>10. \A v \in io : \E w \in j.io : v = GoesOut(w)
    BY <1>2
  <1>11. \A v, w \in j.io : GoesOut(v) = GoesOut(w) => v = w
    BY <1>1, <1>9 DEF Ordered
  <1>12. ASSUME NEW S, NEW T, IsFiniteSet(S), S \subseteq j.io, T = {GoesOut(w) : w \in S}
         PROVE  IsFiniteSet(T) /\ Cardinality(T) = Cardinality(S)
    <2> DEFINE g == [w \in S |-> GoesOut(w)]
    <2>1. g \in [S -> T] /\ \A y \in T : \E w \in S : g[w] = y
      BY <1>12
    <2>5. ASSUME NEW v \in S, NEW w \in S, g[v] = g[w] PROVE v = w
      BY <1>11, <1>12, <2>5
    <2> HIDE DEF g
    <2>2. g \in Injection(S, T)
      BY <2>1, <2>5 DEF Injection, IsInjective
    <2>3. g \in Surjection(S, T)
      BY <2>1 DEF Surjection
    <2>4. ExistsBijection(S, T)
      BY <2>2, <2>3 DEF Bijection, ExistsBijection
    <2> QED BY <1>12, <2>4, FS_Bijection
  <1>13. IsFiniteSet(io)
    BY <1>1, <1>2, <1>12
  <1>14. TypeOK'
    BY <1>8, <1>13 DEF WritesInv, TypeOK, Submit
  <1>15. Pinned(j)'
    <2>1. ASSUME NEW b \in Buffers
          PROVE  Cardinality({v \in io : v.buf = b}) = j.buf[b].flush_count
      <3>1. {v \in io : v.buf = b} = {GoesOut(w) : w \in From(j, b)}
        BY <1>9, <1>10 DEF From
      <3>2. From(j, b) \subseteq j.io /\ IsFiniteSet(From(j, b))
        BY <1>1, CountedWrites DEF From
      <3>3. Cardinality({v \in io : v.buf = b}) = Cardinality(From(j, b))
        BY <1>12, <3>1, <3>2
      <3> QED BY <1>1, <3>3 DEF Pinned, From
    <2>2. \A v \in io : v.buf # -1 => bufs[v.buf].off = v.off
      <3> TAKE v \in io
      <3> HAVE v.buf # -1
      <3>1. PICK w \in j.io : v = GoesOut(w)
        BY <1>10
      <3>2. w.buf = v.buf /\ w.off = v.off /\ w.buf \in Buffers
        BY <1>1, <1>9, <3>1 DEF WriteType
      <3> QED BY <1>1, <1>6, <3>2 DEF Pinned
    <2>3. \A b \in Buffers \ {j.cur} : ~bufs[b].dirty
      BY <1>1, <1>6 DEF Pinned
    <2>4. \A b \in Buffers : bufs[b].flush_count = Cardinality({v \in io : v.buf = b})
      BY <1>6, <2>1
    <2> QED BY <1>1, <1>8, <2>2, <2>3, <2>4 DEF Pinned
  <1>16. Ordered(j)'
    <2>1. \A w \in io : w.id <= j.sid
      BY <1>1, <1>9, <1>10 DEF Ordered
    <2>2. \A v, w \in io : v.id = w.id => v = w
      BY <1>1, <1>9, <1>10 DEF Ordered
    <2>3. \A b \in Buffers : bufs[b].submit_id = 0
      BY <1>6
    <2>4. ASSUME NEW f \in j.flushing
          PROVE  f.id <= j.sid /\ (f.pending => \E w \in io : w.id = f.id /\ w.buf = f.sector)
      <3>1. f.id <= j.sid /\ (f.pending => \E w \in j.io : w.id = f.id /\ w.buf = f.sector)
        BY <1>1, Zenon DEF Ordered
      <3> QED BY <1>9, <3>1
    <2> QED BY <1>8, <2>1, <2>2, <2>3, <2>4 DEF Ordered
  <1>17. FirstPending(j)'
    BY <1>1, <1>8 DEF FirstPending, InFront
  <1>18. (imm => \A b \in Buffers : ~j.buf[b].dirty)'
    BY <1>6, <1>8 DEF WritesInv, Submit
  <1>19. ASSUME NEW o \in Owners
         PROVE  RequestOwned(o)'
    <2>1. RequestOwned(o) /\ op' = op /\ written' = written /\ imm' = imm
      BY DEF WritesInv, Submit
    <2>2. ASSUME NEW w \in j.io, WaitsFor(j, o, w)
          PROVE  WaitsFor(j', o, GoesOut(w))
      BY <1>8, <1>9, <2>2 DEF WaitsFor
    <2>3. DataOwned(j, written, o) => DataOwned(j', written', o)
      BY <1>8, <1>9, <2>1, <2>2 DEF DataOwned
    <2>4. ASSUME EntryOwned(j, written, o)
          PROVE  EntryOwned(j', written', o)
      <3>1. ASSUME NEW k \in DOMAIN j.ents, j.ents[k].op = o, <<"entry", k>> \notin written
            PROVE  \E v \in io : /\ v.buf # -1 /\ v.off = j.ents[k].sec
                                 /\ (v.sent => k <= v.upto) /\ WaitsFor(j', o, v)
        <4>1. PICK w \in j.io : /\ w.buf # -1 /\ w.off = j.ents[k].sec
                                /\ (w.sent => k <= w.upto) /\ WaitsFor(j, o, w)
          BY <2>4, <3>1 DEF EntryOwned
        <4>2. GoesOut(w).upto = (IF w.sent THEN w.upto ELSE Len(j.ents))
          BY <1>1, GoesOutFields
        <4>3. k <= GoesOut(w).upto
          BY <1>1, <4>1, <4>2
        <4> QED BY <1>9, <2>2, <4>1, <4>3
      <3> QED BY <1>8, <2>1, <3>1 DEF EntryOwned
    <2>5. HasEntry(j', o) = HasEntry(j, o) /\ Waits(j', o) = Waits(j, o)
      BY <1>8 DEF HasEntry, Waits
    <2> QED BY <2>1, <2>3, <2>4, <2>5 DEF RequestOwned
  <1> QED BY <1>14, <1>15, <1>16, <1>17, <1>18, <1>19 DEF WritesInv

LEMMA MarkedFields ==
  ASSUME NEW f \in WaiterType, NEW id, NEW g, g = Marked(f, id)
  PROVE  /\ g \in WaiterType /\ g.id = f.id /\ g.sector = f.sector /\ g.op = f.op
         /\ g.pending <=> f.pending /\ f.id # id
         /\ f.id # id => g = f
  <1>1. PICK p : p = (f.pending /\ f.id # id)
    OBVIOUS
  <1>2. f.pending \in BOOLEAN
    BY DEF WaiterType
  <1>3. p \in BOOLEAN
    BY <1>1, <1>2
  <1>4. g = [f EXCEPT !.pending = p]
    BY <1>1 DEF Marked
  <1>5. g \in WaiterType /\ g.id = f.id /\ g.sector = f.sector /\ g.op = f.op /\ g.pending = p
    BY <1>3, <1>4 DEF WaiterType
  <1>6. f.id # id => p = f.pending
    BY <1>1, <1>2
  <1>7. p = f.pending => g = f
    BY <1>4 DEF WaiterType
  <1> QED BY <1>1, <1>5, <1>6, <1>7

(* The waiters that are left of fl when write id has ended.                 *)
MarkedAll(fl, id) == {Marked(f, id) : f \in fl}
Left(fl, id) == {f \in MarkedAll(fl, id) : StaysWaiting(MarkedAll(fl, id), id, f)}
GoOn(fl, id, left) ==
  /\ left \in SUBSET WaiterType
  /\ \A g \in left : \E f \in fl : /\ g.id = f.id /\ g.sector = f.sector /\ g.op = f.op
                                   /\ g.pending <=> f.pending /\ f.id # id
  /\ \A f \in fl : f.pending /\ f.id # id => f \in left
  /\ \A g \in left : g.pending \/ InFront(left, g.id)

LEMMA WaitersLeft ==
  ASSUME NEW fl \in SUBSET WaiterType, NEW id \in Nat,
         \A f \in fl : f.pending \/ InFront(fl, f.id)
  PROVE  GoOn(fl, id, Left(fl, id))
  <1> DEFINE marked == MarkedAll(fl, id)
             left == Left(fl, id)
  <1>1. \A f \in fl : Marked(f, id) \in marked
    BY DEF MarkedAll
  <1>2. \A g \in marked : \E f \in fl : g = Marked(f, id)
    BY DEF MarkedAll
  <1>3. \A f \in fl : /\ Marked(f, id) \in WaiterType /\ Marked(f, id).id = f.id
                      /\ Marked(f, id).sector = f.sector /\ Marked(f, id).op = f.op
                      /\ (Marked(f, id).pending <=> f.pending /\ f.id # id)
                      /\ (f.id # id => Marked(f, id) = f)
    BY MarkedFields
  <1>4. \A f \in fl : f.id \in Nat
    BY DEF WaiterType
  <1>9. left = {f \in marked : StaysWaiting(marked, id, f)}
    BY DEF Left
  <1> HIDE DEF marked, left
  <1>5. left \in SUBSET WaiterType
    BY <1>2, <1>3, <1>9
  <1>6. \A g \in left : \E f \in fl : /\ g.id = f.id /\ g.sector = f.sector /\ g.op = f.op
                                      /\ g.pending <=> f.pending /\ f.id # id
    BY <1>2, <1>3, <1>9
  <1>7. ASSUME NEW f \in fl, f.pending, f.id # id
        PROVE  f \in left
    <2>1. Marked(f, id) = f /\ f \in marked
      BY <1>1, <1>3, <1>7
    <2> QED BY <1>7, <2>1, <1>9 DEF StaysWaiting
  <1>8. ASSUME NEW g \in left, ~g.pending
        PROVE  InFront(left, g.id)
    <2>1. PICK f \in fl : g = Marked(f, id)
      BY <1>2, <1>8, <1>9
    <2>2. g.id = f.id /\ g.id \in Nat /\ (f.id # id => g = f)
      BY <1>3, <1>4, <2>1
    <2>3. CASE f.id < id
      <3>1. ~f.pending
        BY <1>4, <1>8, <2>2, <2>3
      <3>2. PICK h \in fl : h.id < f.id
        BY <3>1 DEF InFront
      <3>3. h.id # id /\ h.id < id
        BY <1>4, <2>3, <3>2
      <3>4. Marked(h, id) = h /\ h \in marked
        BY <1>1, <1>3, <3>3
      <3>5. h \in left
        BY <3>3, <3>4, <1>9 DEF StaysWaiting
      <3> QED BY <2>2, <3>2, <3>5 DEF InFront
    <2>4. CASE f.id = id
      <3>1. InFront(marked, id)
        BY <1>8, <2>2, <2>4, <1>9 DEF StaysWaiting
      <3>2. PICK h \in marked : h.id < id
        BY <3>1 DEF InFront
      <3>3. h \in left
        BY <3>2, <1>9 DEF StaysWaiting
      <3> QED BY <2>2, <2>4, <3>2, <3>3 DEF InFront
    <2>5. CASE f.id > id
      BY <1>4, <1>8, <2>2, <2>5, <1>9 DEF StaysWaiting
    <2> QED BY <1>4, <2>3, <2>4, <2>5
  <1> QED BY <1>5, <1>6, <1>7, <1>8 DEF left, GoOn

(* The buffers when write w has ended.                                      *)
LEMMA EndFlushFields ==
  ASSUME Sound(j), NEW w \in j.io, NEW bufs, bufs = EndFlush(j.buf, w)
  PROVE  /\ bufs \in [Buffers -> BufType]
         /\ \A b \in Buffers :
              /\ bufs[b].off = j.buf[b].off /\ bufs[b].dirty = j.buf[b].dirty
              /\ bufs[b].submit_id = j.buf[b].submit_id
              /\ bufs[b].flush_count = Cardinality({v \in j.io \ {w} : v.buf = b})
  <1>1. /\ j \in JournalType /\ IsFiniteSet(j.io) /\ Pinned(j)
        /\ j.buf \in [Buffers -> BufType] /\ w \in WriteType /\ w.buf \in Buffers \union {-1}
    BY DEF Sound, JournalType, WriteType
  <1>2. \A b \in Buffers : j.buf[b].flush_count = Cardinality(From(j, b))
    BY <1>1 DEF Pinned, From
  <1>3. ASSUME NEW b \in Buffers, b # w.buf
        PROVE  {v \in j.io \ {w} : v.buf = b} = From(j, b)
    BY <1>3 DEF From
  <1>4. CASE w.buf = -1
    BY <1>1, <1>2, <1>3, <1>4, Constants DEF EndFlush
  <1>5. CASE w.buf \in Buffers
    <2>1. PICK n : n = j.buf[w.buf].flush_count - 1
      OBVIOUS
    <2>2. PICK nb : nb = [j.buf[w.buf] EXCEPT !.flush_count = n]
      OBVIOUS
    <2>3. bufs = [j.buf EXCEPT ![w.buf] = nb]
      BY <1>1, <1>5, <2>1, <2>2, Constants DEF EndFlush
    <2>4. n \in Nat /\ n = Cardinality({v \in j.io \ {w} : v.buf = w.buf})
      <3>1. w \in From(j, w.buf) /\ IsFiniteSet(From(j, w.buf))
        BY <1>1, CountedWrites DEF From
      <3>2. {v \in j.io \ {w} : v.buf = w.buf} = From(j, w.buf) \ {w}
        BY DEF From
      <3>3. /\ IsFiniteSet(From(j, w.buf) \ {w})
            /\ Cardinality(From(j, w.buf) \ {w}) = Cardinality(From(j, w.buf)) - 1
        BY <3>1, FS_RemoveElement
      <3> QED BY <1>2, <1>5, <2>1, <3>2, <3>3, FS_CardinalityType
    <2>5. /\ nb \in BufType /\ nb.off = j.buf[w.buf].off /\ nb.dirty = j.buf[w.buf].dirty
          /\ nb.submit_id = j.buf[w.buf].submit_id /\ nb.flush_count = n
      BY <1>1, <1>5, <2>2, <2>4 DEF BufType
    <2> QED BY <1>1, <1>2, <1>3, <1>5, <2>3, <2>4, <2>5
  <1> QED BY <1>1, <1>4, <1>5

LEMMA EndedKeeps ==
  ASSUME WritesInv, NEW w \in j.io, WriteEnded(w)
  PROVE  WritesInv'
  <1>1. /\ Sound(j) /\ j \in JournalType /\ IsFiniteSet(j.io)
        /\ Pinned(j) /\ Ordered(j) /\ FirstPending(j)
        /\ j.flushing \in SUBSET WaiterType /\ j.io \in SUBSET WriteType
        /\ op \in [Ops -> OpType] /\ j.cur \in Buffers
        /\ j.ents \in Seq([sec : Nat, op : Ops])
    BY SoundJournal DEF Sound, JournalType, WritesInv, TypeOK
  <1>2. PICK marked : marked = {Marked(f, w.id) : f \in j.flushing}
    OBVIOUS
  <1>3. PICK left : left = {f \in marked : StaysWaiting(marked, w.id, f)}
    OBVIOUS
  <1>4. PICK bufs : bufs = EndFlush(j.buf, w)
    OBVIOUS
  <1>5. PICK io : io = j.io \ {w}
    OBVIOUS
  <1>6. PICK s : s = [j EXCEPT !.flushing = left, !.buf = bufs, !.io = io]
    OBVIOUS
  <1>7. PICK finished : finished = {o \in Ops : op[o].st = "sent" /\ ~Waits(s, o)}
    OBVIOUS
  <1>8. /\ \A x \in j.io : x.sent
        /\ written' = written \union OnMedia(w)
        /\ j' = Released(s, finished)
        /\ op' = [o \in Ops |-> IF o \in finished THEN [op[o] EXCEPT !.st = "ready"] ELSE op[o]]
        /\ imm' = imm /\ unsynced' = unsynced
    BY <1>2, <1>3, <1>4, <1>5, <1>6, <1>7 DEF WriteEnded
  <1>9. /\ w.id \in Nat
        /\ left \in SUBSET WaiterType
        /\ \A g \in left : \E f \in j.flushing :
             /\ g.id = f.id /\ g.sector = f.sector /\ g.op = f.op
             /\ g.pending <=> f.pending /\ f.id # w.id
        /\ \A f \in j.flushing : f.pending /\ f.id # w.id => f \in left
        /\ \A g \in left : g.pending \/ InFront(left, g.id)
    <2>1. w.id \in Nat
      BY <1>1 DEF WriteType
    <2>2. \A f \in j.flushing : f.pending \/ InFront(j.flushing, f.id)
      BY <1>1 DEF FirstPending
    <2>3. left = Left(j.flushing, w.id)
      BY <1>2, <1>3 DEF Left, MarkedAll
    <2>4. GoOn(j.flushing, w.id, left)
      BY <1>1, <2>1, <2>2, <2>3, WaitersLeft
    <2> QED BY <2>1, <2>4, Zenon DEF GoOn
  <1>10. /\ bufs \in [Buffers -> BufType]
         /\ \A b \in Buffers :
              /\ bufs[b].off = j.buf[b].off /\ bufs[b].dirty = j.buf[b].dirty
              /\ bufs[b].submit_id = j.buf[b].submit_id
              /\ bufs[b].flush_count = Cardinality({v \in io : v.buf = b})
    BY <1>1, <1>4, <1>5, EndFlushFields
  <1>11. /\ s \in JournalType /\ s.io = io /\ s.buf = bufs /\ s.cur = j.cur /\ s.flushing = left
         /\ s.sid = j.sid /\ s.ents = j.ents /\ s.fatal = j.fatal
    BY <1>1, <1>5, <1>6, <1>9, <1>10 DEF JournalType
  <1>12. /\ j' \in JournalType /\ j'.io = io /\ j'.buf = bufs /\ j'.cur = j.cur
         /\ j'.flushing = left /\ j'.sid = j.sid /\ j'.ents = j.ents /\ j'.fatal = j.fatal
    <2>1. j' = s \/ j' = [s EXCEPT !.room = 0]
      BY <1>8 DEF Released
    <2>2. 0 \in 0..(PerSector - 1)
      BY Constants
    <2> QED BY <1>11, <2>1, <2>2 DEF JournalType
  <1>13. ASSUME NEW o \in Ops
         PROVE  /\ op'[o] \in OpType
                /\ op'[o].st = IF o \in finished THEN "ready" ELSE op[o].st
    <2>1. op[o] \in OpType /\ op'[o] = IF o \in finished THEN [op[o] EXCEPT !.st = "ready"] ELSE op[o]
      BY <1>1, <1>8
    <2> QED BY <2>1 DEF OpType
  <1>14. TypeOK'
    <2>1. op' \in [Ops -> OpType]
      BY <1>8, <1>13
    <2>2. IsFiniteSet(io)
      BY <1>1, <1>5, FS_RemoveElement
    <2> QED BY <1>8, <1>12, <2>1, <2>2 DEF WritesInv, TypeOK
  <1>15. Pinned(j)'
    <2>1. \A v \in io : v.buf # -1 => bufs[v.buf].off = v.off
      BY <1>1, <1>5, <1>10 DEF Pinned, WriteType
    <2>2. \A b \in Buffers \ {j.cur} : ~bufs[b].dirty
      BY <1>1, <1>10 DEF Pinned
    <2> QED BY <1>1, <1>10, <1>12, <2>1, <2>2 DEF Pinned
  <1>16. Ordered(j)'
    <2>1. \A v \in io : v.id <= j.sid
      BY <1>1, <1>5 DEF Ordered
    <2>2. \A u, v \in io : u.id = v.id => u = v
      BY <1>1, <1>5 DEF Ordered
    <2>3. \A b \in Buffers : bufs[b].submit_id = 0
      BY <1>1, <1>8, <1>10 DEF Ordered
    <2>4. ASSUME NEW g \in left
          PROVE  g.id <= j.sid /\ (g.pending => \E v \in io : v.id = g.id /\ v.buf = g.sector)
      <3>1. PICK f \in j.flushing : /\ g.id = f.id /\ g.sector = f.sector
                                    /\ g.pending <=> f.pending /\ f.id # w.id
        BY <1>9
      <3>2. f.id <= j.sid /\ (f.pending => \E v \in j.io : v.id = f.id /\ v.buf = f.sector)
        BY <1>1, Zenon DEF Ordered
      <3> QED BY <1>5, <3>1, <3>2
    <2> QED BY <1>12, <2>1, <2>2, <2>3, <2>4 DEF Ordered
  <1>17. FirstPending(j)'
    BY <1>9, <1>12 DEF FirstPending, InFront
  <1>18. (imm => \A b \in Buffers : ~j.buf[b].dirty)'
    BY <1>8, <1>10, <1>12 DEF WritesInv
  <1>19. ASSUME NEW o \in Owners
         PROVE  RequestOwned(o)'
    <2>1. RequestOwned(o) /\ o \in Ops
      BY DEF WritesInv, Owners, Ops, Modifications
    <2>2. HasEntry(j', o) = HasEntry(j, o)
      BY <1>12 DEF HasEntry
    <2>3. Waits(j', o) => Waits(j, o)
      BY <1>9, <1>12 DEF Waits
    <2>4. Waits(s, o) <=> Waits(j', o)
      BY <1>11, <1>12 DEF Waits
    <2>5. ASSUME NEW v \in j.io, v # w, WaitsFor(j, o, v)
          PROVE  v \in io /\ WaitsFor(j', o, v)
      <3>1. v.id # w.id
        BY <1>1, <2>5 DEF Ordered
      <3>2. PICK f \in j.flushing : f.op = o /\ f.pending /\ f.id = v.id
        BY <2>5 DEF WaitsFor
      <3>3. f \in left
        BY <1>9, <3>1, <3>2
      <3> QED BY <1>5, <1>12, <2>5, <3>2, <3>3 DEF WaitsFor
    <2>6. ASSUME DataOwned(j, written, o)
          PROVE  DataOwned(j', written', o)
      <3>1. CASE <<"data", o>> \in written
        BY <1>8, <3>1 DEF DataOwned
      <3>2. CASE <<"data", o>> \notin written
        <4>1. PICK v \in j.io : v.buf = -1 /\ v.op = o /\ WaitsFor(j, o, v)
          BY <2>6, <3>2 DEF DataOwned
        <4>2. CASE v = w
          BY <1>8, <4>1, <4>2 DEF DataOwned, OnMedia
        <4>3. CASE v # w
          BY <1>12, <2>5, <4>1, <4>3 DEF DataOwned
        <4> QED BY <4>2, <4>3
      <3> QED BY <3>1, <3>2
    <2>7. ASSUME EntryOwned(j, written, o)
          PROVE  EntryOwned(j', written', o)
      <3>1. ASSUME NEW k \in DOMAIN j.ents, j.ents[k].op = o, <<"entry", k>> \notin written'
            PROVE  \E v \in io : /\ v.buf # -1 /\ v.off = j.ents[k].sec
                                 /\ (v.sent => k <= v.upto) /\ WaitsFor(j', o, v)
        <4>1. <<"entry", k>> \notin written
          BY <1>8, <3>1
        <4>2. PICK v \in j.io : /\ v.buf # -1 /\ v.off = j.ents[k].sec
                                /\ (v.sent => k <= v.upto) /\ WaitsFor(j, o, v)
          BY <2>7, <3>1, <4>1 DEF EntryOwned
        <4>3. CASE v = w
          <5>1. k \in 1..w.upto /\ j.ents[k].sec = w.off /\ w.buf # -1
            BY <1>1, <1>8, <3>1, <4>2, <4>3 DEF WriteType
          <5>2. <<"entry", k>> \in OnMedia(w)
            BY <5>1 DEF OnMedia
          <5> QED BY <1>8, <3>1, <5>2
        <4>4. CASE v # w
          BY <2>5, <4>2, <4>4
        <4> QED BY <4>3, <4>4
      <3> QED BY <1>12, <3>1 DEF EntryOwned
    <2>8. /\ op'[o].st = IF o \in finished THEN "ready" ELSE op[o].st
          /\ o \in finished <=> op[o].st = "sent" /\ ~Waits(j', o)
      BY <1>7, <1>13, <2>1, <2>4
    <2>9. imm' = imm
      BY <1>8
    <2> QED BY <2>1, <2>2, <2>3, <2>6, <2>7, <2>8, <2>9 DEF RequestOwned
  <1> QED BY <1>14, <1>15, <1>16, <1>17, <1>18, <1>19 DEF WritesInv

-----------------------------------------------------------------------------
(* Induction over the entries that a SYNC adds.                             *)

LEMMA Least ==
  ASSUME NEW T \in SUBSET Nat, T # {}
  PROVE  \E x \in T : \A y \in T : x <= y
  <1> DEFINE R == {p \in Nat \X Nat : p[1] < p[2]}
  <1>1. IsWellFoundedOn(OpToRel(<, Nat), Nat)
    BY NatLessThanWellFounded
  <1>2. IsWellFoundedOn(R, Nat)
    BY <1>1 DEF OpToRel, IsWellFoundedOn
  <1>3. \E x \in T : \A y \in T : <<y, x>> \notin R
    <2> HIDE DEF R
    <2> QED BY <1>2, WFMin
  <1>4. PICK x \in T : \A y \in T : <<y, x>> \notin R
    BY <1>3
  <1>5. ASSUME NEW y \in T
        PROVE  x <= y
    <2>1. <<y, x>> \in Nat \X Nat /\ ~(<<y, x>>[1] < <<y, x>>[2])
      BY <1>4
    <2> QED BY <2>1
  <1> QED BY <1>5

LEMMA Inductive ==
  ASSUME NEW T \in SUBSET Nat, 0 \in T, \A n \in T : n + 1 \in T
  PROVE  T = Nat
  <1>1. SUFFICES ASSUME Nat \ T # {} PROVE FALSE
    OBVIOUS
  <1>2. PICK x \in Nat \ T : \A y \in Nat \ T : x <= y
    BY <1>1, Least
  <1>3. x - 1 \in T
    BY <1>2
  <1> QED BY <1>2, <1>3

(* The journal after the k-th entry, from the one before.                   *)
NextEntry(s, o, e) == Prefill(PriorIfDirty(s, o), e)
Chained(g, n, o, big) ==
  g = [k \in 0..n |-> IF k = 0 THEN j ELSE NextEntry(g[k - 1], o, big[k])]

LEMMA ChainExists ==
  ASSUME NEW o, NEW big
  PROVE  \A n \in Nat : \E g : Chained(g, n, o, big)
  <1> DEFINE T == {n \in Nat : \E g : Chained(g, n, o, big)}
  <1>1. 0 \in T
    <2>1. Chained([k \in 0..0 |-> j], 0, o, big)
      BY DEF Chained
    <2> QED BY <2>1
  <1>2. ASSUME NEW n \in T
        PROVE  n + 1 \in T
    <2>1. PICK g : Chained(g, n, o, big)
      BY <1>2
    <2>2. PICK h : h = [k \in 0..(n + 1) |-> IF k <= n THEN g[k] ELSE NextEntry(g[n], o, big[n + 1])]
      OBVIOUS
    <2>3. ASSUME NEW k \in 0..(n + 1)
          PROVE  h[k] = IF k = 0 THEN j ELSE NextEntry(h[k - 1], o, big[k])
      <3>1. CASE k = 0
        BY <2>1, <2>2, <3>1 DEF Chained
      <3>2. CASE k # 0 /\ k <= n
        <4>1. h[k] = g[k] /\ h[k - 1] = g[k - 1] /\ k \in 0..n
          BY <2>2, <2>3, <3>2
        <4> QED BY <2>1, <3>2, <4>1 DEF Chained
      <3>3. CASE k = n + 1
        <4>1. h[k] = NextEntry(g[n], o, big[n + 1]) /\ h[k - 1] = g[n] /\ k # 0
          BY <2>2, <2>3, <3>3
        <4> QED BY <3>3, <4>1
      <3> QED BY <2>3, <3>1, <3>2, <3>3
    <2>4. Chained(h, n + 1, o, big)
      BY <2>2, <2>3 DEF Chained
    <2> QED BY <2>4
  <1> HIDE DEF T
  <1>3. T \in SUBSET Nat
    BY DEF T
  <1>4. T = Nat
    BY <1>1, <1>2, <1>3, Inductive
  <1> QED BY <1>4 DEF T

LEMMA ChainOfBigs ==
  ASSUME NEW o \in Ops, op \in [Ops -> OpType]
  PROVE  Chained(WithBigs(o), Len(op[o].big), o, op[o].big)
  <1>1. Len(op[o].big) \in Nat
    BY DEF OpType
  <1>2. \E g : Chained(g, Len(op[o].big), o, op[o].big)
    BY <1>1, ChainExists
  <1> QED BY <1>2 DEF WithBigs, Chained, NextEntry

(* Where the entries go: the first sector may stay in the current buffer,   *)
(* and every other one goes to the next buffer.                             *)
Skipped == IF j.room = 0 /\ ~j.buf[j.cur].dirty /\ j.buf[j.cur].flush_count = 0 THEN 1 ELSE 0
At(m) == IF m = 0 THEN 0 ELSE m - Skipped

(* Journal s has k entries more than j, and m sectors.                      *)
Reached(s, k, m) ==
  /\ s.room + k = j.room + m * PerSector
  /\ At(m) < Bufs
  /\ s.cur = Behind(j.cur, At(m))
  /\ \A i \in 0..(Bufs - 1) : i > At(m) => s.buf[Behind(j.cur, i)] = j.buf[Behind(j.cur, i)]
  /\ k > 0 => s.buf[s.cur].dirty
  /\ k = 0 => s = j

LEMMA BehindFacts ==
  ASSUME NEW b \in Buffers
  PROVE  /\ \A i \in 0..Bufs : Behind(b, i) \in Buffers
         /\ \A i, l \in 0..(Bufs - 1) : Behind(b, i) = Behind(b, l) => i = l
         /\ \A i \in 0..(Bufs - 2) : NextBuffer(Behind(b, i)) = Behind(b, i + 1)
         /\ Behind(b, 0) = b /\ Behind(b, Bufs) = b
  <1>1. Bufs \in Nat /\ Bufs > 1 /\ b \in 0..(Bufs - 1)
    BY Constants DEF Buffers
  <1> QED BY <1>1 DEF Behind, NextBuffer, Buffers

LEMMA Products ==
  ASSUME NEW a \in Nat, NEW b \in Nat, NEW c \in Nat
  PROVE  /\ a <= b => a * c <= b * c
         /\ a * c < b * c => a < b
         /\ (a + 1) * c = a * c + c /\ a * c \in Nat
         /\ 0 * c = 0
  <1>1. (a + 1) * c = a * c + c /\ a * c \in Nat /\ 0 * c = 0
    OBVIOUS
  <1>2. ASSUME a <= b PROVE a * c <= b * c
    <2>1. PICK d \in Nat : b = a + d
      BY <1>2
    <2>2. b * c = a * c + d * c /\ d * c \in Nat /\ a * c \in Nat
      BY <2>1
    <2> QED BY <2>2
  <1>3. ASSUME a * c < b * c PROVE a < b
    <2>1. SUFFICES ASSUME b <= a PROVE FALSE
      OBVIOUS
    <2>2. PICK d \in Nat : a = b + d
      BY <2>1
    <2>3. a * c = b * c + d * c /\ d * c \in Nat /\ b * c \in Nat
      BY <2>2
    <2> QED BY <1>3, <2>3
  <1> QED BY <1>1, <1>2, <1>3

(* The next sector has a buffer: check_available has seen to it.            *)
LEMMA NextFree ==
  ASSUME j \in JournalType, NEW n \in Nat, BufferAvailable(n), NEW k \in Nat, k < n,
         NEW m \in Nat, k = j.room + m * PerSector, ~(k = 0 /\ Skipped = 1)
  PROVE  /\ At(m) \in 0..(Bufs - 2) /\ At(m + 1) = At(m) + 1
         /\ j.buf[Behind(j.cur, At(m) + 1)].flush_count = 0
  <1> DEFINE P == PerSector
  <1>1. /\ Bufs \in Nat /\ Bufs > 1 /\ P \in Nat /\ P > 0
        /\ j.room \in Nat /\ j.cur \in Buffers
    BY Constants DEF JournalType
  <1>2. Skipped \in {0, 1} /\ (Skipped = 1 => j.room = 0)
    BY DEF Skipped
  <1>3. m = 0 => Skipped = 0
    <2>1. m = 0 => k = j.room
      BY <1>1, Products
    <2> QED BY <1>2, <2>1
  <1>4. At(m + 1) = At(m) + 1 /\ At(m) \in 0..m /\ (Skipped = 1 => At(m) = m - 1 /\ m > 0)
        /\ (Skipped = 0 => At(m) = m)
    BY <1>2, <1>3 DEF At
  <1>5. ASSUME NEW i \in 1..Bufs, i <= m + 1
        PROVE  /\ j.buf[Behind(j.cur, i)].flush_count = 0
               /\ ~j.buf[Behind(j.cur, i)].dirty
    <2>1. (i - 1) * P <= m * P
      BY <1>1, <1>5, Products
    <2>2. (i - 1) * P \in Nat /\ m * P \in Nat
      BY <1>1, <1>5, Products
    <2>3. Needed(n, i)
      <3> HIDE DEF P
      <3>1. PICK x \in Nat, y \in Nat : x = (i - 1) * P /\ y = m * P
        BY <2>2
      <3>2. k = j.room + y /\ x <= y
        BY <2>1, <3>1 DEF P
      <3>3. n > j.room + x
        BY <1>1, <3>2
      <3> QED BY <3>1, <3>3 DEF Needed, P
    <2> QED BY <2>3 DEF BufferAvailable
  <1>6. m < (IF j.room > 0 THEN Bufs - 1 ELSE Bufs)
    <2>1. PICK B \in Nat : B = IF j.room > 0 THEN Bufs - 1 ELSE Bufs
      BY <1>1
    <2>2. n <= j.room + B * P
      BY <2>1 DEF BufferAvailable, BatchFits
    <2>3. m * P \in Nat /\ B * P \in Nat
      BY <1>1, Products
    <2>4. m * P < B * P
      <3> HIDE DEF P
      <3>1. PICK x \in Nat, y \in Nat : x = m * P /\ y = B * P
        BY <2>3
      <3>2. k = j.room + x /\ n <= j.room + y
        BY <2>2, <3>1 DEF P
      <3> QED BY <1>1, <3>1, <3>2
    <2> QED BY <1>1, <2>1, <2>4, Products
  <1>7. At(m) + 1 <= Bufs - 1
    <2>1. CASE j.room > 0
      BY <1>1, <1>2, <1>4, <1>6, <2>1
    <2>2. CASE ~(j.room > 0) /\ Skipped = 1
      BY <1>1, <1>4, <1>6, <2>2
    <2>3. CASE ~(j.room > 0) /\ Skipped = 0
      <3>1. SUFFICES ASSUME m + 1 = Bufs PROVE FALSE
        BY <1>1, <1>4, <1>6, <2>3
      <3>2. j.buf[Behind(j.cur, Bufs)].flush_count = 0 /\ ~j.buf[Behind(j.cur, Bufs)].dirty
        BY <1>1, <1>5, <3>1
      <3>3. j.buf[j.cur].flush_count = 0 /\ ~j.buf[j.cur].dirty
        BY <1>1, <3>2, BehindFacts
      <3> QED BY <1>1, <2>3, <3>3 DEF Skipped
    <2> QED BY <1>2, <2>1, <2>2, <2>3
  <1>8. j.buf[Behind(j.cur, At(m) + 1)].flush_count = 0
    BY <1>1, <1>4, <1>5, <1>7
  <1> QED BY <1>1, <1>4, <1>7, <1>8

LEMMA EntryStep ==
  ASSUME j \in JournalType, NEW n \in Nat, BufferAvailable(n), NEW k \in Nat, k < n,
         NEW m \in Nat, NEW s, Sound(s), Reached(s, k, m), NEW o \in Ops, NEW e \in Ops,
         NEW t, t = NextEntry(s, o, e)
  PROVE  Sound(t) /\ Grows(s, t, {o} \union {e}) /\ \E l \in Nat : Reached(t, k + 1, l)
  <1>1. /\ s \in JournalType /\ s.cur \in Buffers /\ s.room \in Nat /\ ~s.fatal
        /\ s.buf \in [Buffers -> BufType] /\ s.ents \in Seq([sec : Nat, op : Ops])
        /\ j.cur \in Buffers /\ j.room \in Nat
        /\ Bufs \in Nat /\ Bufs > 1 /\ PerSector \in Nat /\ PerSector > 0
    BY Constants DEF Sound, JournalType, Pinned
  <1>2. PICK u : u = PriorIfDirty(s, o)
    OBVIOUS
  <1>3. /\ Sound(u) /\ u \in JournalType /\ ~u.fatal /\ Grows(s, u, {o})
        /\ u.cur = s.cur /\ u.room = s.room
        /\ \A b \in Buffers : b # s.cur => u.buf[b] = s.buf[b]
    <2>1. CASE u = s
      BY <1>1, <2>1 DEF Grows, Sound
    <2>2. CASE u = Prepare(s, o) /\ s.room = 0
      <3>1. Prepared(s, o, u)
        BY <1>1, <2>2, PrepareFields
      <3>2. Sound(u) /\ Grows(s, u, {o})
        BY <1>1, <2>2, PrepareSound, PrepareGrows
      <3> QED BY <2>2, <3>1, <3>2 DEF Prepared, Sound, Pinned
    <2> QED BY <1>2, <2>1, <2>2 DEF PriorIfDirty
  <1>4. \A i \in 0..(Bufs - 1) : i > At(m) =>
          /\ Behind(j.cur, i) \in Buffers /\ Behind(j.cur, i) # s.cur
          /\ s.buf[Behind(j.cur, i)] = j.buf[Behind(j.cur, i)]
          /\ u.buf[Behind(j.cur, i)] = j.buf[Behind(j.cur, i)]
    <2>1. At(m) \in 0..(Bufs - 1)
      <3>1. At(m) \in Int /\ At(m) >= 0
        BY DEF At, Skipped
      <3> QED BY <1>1, <3>1 DEF Reached
    <2>2. \A i \in 0..(Bufs - 1) : i > At(m) =>
            Behind(j.cur, i) \in Buffers /\ Behind(j.cur, i) # s.cur
      BY <1>1, <2>1, BehindFacts DEF Reached
    <2> QED BY <1>3, <2>2 DEF Reached
  <1>5. SUFFICES CanPrefill(u) /\ (Prefilled(u, e, t) => \E l \in Nat : Reached(t, k + 1, l))
    <2>1. t = Prefill(u, e)
      BY <1>2 DEF NextEntry
    <2>2. Prefilled(u, e, t) /\ Sound(t) /\ Grows(u, t, {e})
      BY <1>3, <1>5, <2>1, PrefillFields, PrefillSound, PrefillGrows
    <2>3. Grows(s, t, {o} \union {e})
      BY <1>3, <2>2, GrowsTransitive
    <2> QED BY <1>5, <2>2, <2>3
  <1>6. CASE s.room > 0
    <2>1. u = s
      BY <1>2, <1>6 DEF PriorIfDirty
    <2>2. ASSUME Prefilled(u, e, t)
          PROVE  Reached(t, k + 1, m)
      <3>1. /\ t.cur = s.cur /\ t.room = s.room - 1 /\ t.buf[t.cur].dirty
            /\ \A b \in Buffers : b # s.cur => t.buf[b] = s.buf[b]
        BY <1>6, <2>1, <2>2 DEF Prefilled, EntryBuffer
      <3>2. t.room + (k + 1) = j.room + m * PerSector
        <4>1. PICK r \in Nat : r = s.room
          BY <1>1
        <4>2. (r - 1) + (k + 1) = r + k
          OBVIOUS
        <4>3. t.room = r - 1
          BY <3>1, <4>1
        <4> QED BY <4>1, <4>2, <4>3 DEF Reached
      <3> QED BY <1>4, <3>1, <3>2 DEF Reached
    <2> QED BY <1>6, <2>1, <2>2 DEF CanPrefill
  <1>7. CASE s.room = 0 /\ k = 0 /\ Skipped = 1
    <2>1. /\ u = s /\ s = j /\ m = 0 /\ At(m) = 0 /\ At(1) = 0
          /\ ~s.buf[s.cur].dirty /\ s.buf[s.cur].flush_count = 0 /\ j.room = 0
      <3>1. s = j
        BY <1>7 DEF Reached
      <3>2. j.room = 0 /\ ~j.buf[j.cur].dirty /\ j.buf[j.cur].flush_count = 0
        BY <1>7 DEF Skipped
      <3>3. m = 0
        <4>1. s.room + k = 0 /\ s.room + k = j.room + m * PerSector
          BY <1>7 DEF Reached
        <4>2. m * PerSector = 0
          <5>1. PICK x \in Nat : x = m * PerSector
            BY <1>1, Products
          <5>2. 0 = 0 + x
            BY <3>2, <4>1, <5>1
          <5> QED BY <5>1, <5>2
        <4>3. m >= 1 => 1 * PerSector <= m * PerSector
          BY <1>1, Products
        <4> QED BY <1>1, <4>2, <4>3
      <3> QED BY <1>2, <1>7, <3>1, <3>2, <3>3 DEF PriorIfDirty, At
    <2>2. CanPrefill(u)
      BY <2>1 DEF CanPrefill
    <2>3. ASSUME Prefilled(u, e, t)
          PROVE  Reached(t, k + 1, 1)
      <3>1. /\ t.cur = s.cur /\ t.room = PerSector - 1 /\ t.buf[t.cur].dirty
            /\ \A b \in Buffers : b # s.cur => t.buf[b] = s.buf[b]
        BY <1>7, <2>1, <2>3 DEF Prefilled, EntryBuffer
      <3>2. t.room + (k + 1) = j.room + 1 * PerSector
        BY <1>1, <1>7, <2>1, <3>1
      <3> QED BY <1>4, <1>7, <2>1, <3>1, <3>2 DEF Reached
    <2> QED BY <2>2, <2>3
  <1>8. CASE s.room = 0 /\ ~(k = 0 /\ Skipped = 1)
    <2>1. k = j.room + m * PerSector
      <3>1. PICK x : x = j.room + m * PerSector
        OBVIOUS
      <3>2. s.room + k = x
        BY <3>1 DEF Reached
      <3> QED BY <1>8, <3>1, <3>2
    <2>2. /\ At(m) \in 0..(Bufs - 2) /\ At(m + 1) = At(m) + 1
          /\ j.buf[Behind(j.cur, At(m) + 1)].flush_count = 0
      BY <1>8, <2>1, NextFree
    <2>3. u.buf[u.cur].dirty = FALSE /\ u.buf[u.cur].flush_count # 0
      <3>1. CASE s.buf[s.cur].dirty
        <4>1. u = Prepare(s, o)
          BY <1>2, <1>8, <3>1 DEF PriorIfDirty
        <4>2. u.buf[u.cur].flush_count > 0
          BY <4>1, PrepareSound
        <4>3. u.buf[u.cur].dirty = FALSE
          <5>1. Prepared(s, o, u)
            BY <1>1, <4>1, PrepareFields
          <5> QED BY <5>1 DEF Prepared
        <4> QED BY <4>2, <4>3
      <3>2. CASE ~s.buf[s.cur].dirty
        <4>1. u = s /\ s = j
          BY <1>2, <3>2 DEF PriorIfDirty, Reached
        <4>2. s.buf[s.cur].dirty \in BOOLEAN
          BY <1>1 DEF BufType
        <4>3. Skipped # 1
          BY <1>1, <1>8, <3>2 DEF Reached
        <4> QED BY <1>8, <3>2, <4>1, <4>2, <4>3 DEF Skipped
      <3> QED BY <3>1, <3>2
    <2>4. /\ NextBuffer(u.cur) = Behind(j.cur, At(m) + 1)
          /\ u.buf[NextBuffer(u.cur)].flush_count = 0
          /\ NextBuffer(u.cur) \in Buffers /\ NextBuffer(u.cur) # s.cur
      <3>1. NextBuffer(u.cur) = Behind(j.cur, At(m) + 1)
        BY <1>1, <1>3, <2>2, BehindFacts DEF Reached
      <3>2. At(m) + 1 \in 0..(Bufs - 1) /\ At(m) + 1 > At(m)
        BY <1>1, <2>2
      <3> QED BY <1>4, <2>2, <3>1, <3>2
    <2>5. CanPrefill(u)
      BY <2>3, <2>4 DEF CanPrefill
    <2>6. ASSUME Prefilled(u, e, t)
          PROVE  Reached(t, k + 1, m + 1)
      <3>1. EntryBuffer(u) = NextBuffer(u.cur)
        BY <1>3, <1>8, <2>3 DEF EntryBuffer
      <3>2. /\ t.cur = Behind(j.cur, At(m + 1)) /\ t.room = PerSector - 1 /\ t.buf[t.cur].dirty
            /\ \A b \in Buffers : b # t.cur => t.buf[b] = u.buf[b]
        BY <1>3, <1>8, <2>2, <2>4, <2>6, <3>1 DEF Prefilled
      <3>3. t.room + (k + 1) = j.room + (m + 1) * PerSector
        <4>1. PICK x \in Nat : x = m * PerSector
          BY <1>1, Products
        <4>2. (m + 1) * PerSector = x + PerSector
          BY <1>1, <4>1, Products
        <4>3. k = j.room + x
          BY <2>1, <4>1
        <4> QED BY <1>1, <3>2, <4>2, <4>3
      <3>4. ASSUME NEW i \in 0..(Bufs - 1), i > At(m + 1)
            PROVE  t.buf[Behind(j.cur, i)] = j.buf[Behind(j.cur, i)]
        <4>1. i > At(m) /\ At(m + 1) \in 0..(Bufs - 1) /\ i # At(m + 1)
          BY <1>1, <2>2, <3>4
        <4>2. Behind(j.cur, i) # t.cur
          BY <1>1, <3>2, <4>1, BehindFacts
        <4> QED BY <1>4, <3>2, <4>1, <4>2
      <3>5. At(m + 1) < Bufs
        BY <1>1, <2>2
      <3> QED BY <3>2, <3>3, <3>4, <3>5 DEF Reached
    <2> QED BY <2>5, <2>6
  <1> QED BY <1>1, <1>6, <1>7, <1>8

LEMMA BigsSound ==
  ASSUME WritesInv, NEW o \in SyncOps, BufferAvailable(Len(op[o].big))
  PROVE  Sound(AddBigs(o)) /\ Grows(j, AddBigs(o), {o} \union Bigs)
  <1> DEFINE big == op[o].big
             n == Len(big)
             A == {o} \union Bigs
  <1>1. /\ op \in [Ops -> OpType] /\ o \in Ops /\ Sound(j) /\ j \in JournalType
        /\ Bigs \subseteq Ops
    BY SoundJournal DEF WritesInv, TypeOK, Ops, Modifications
  <1>2. big \in Seq(Bigs) /\ n \in Nat
    BY <1>1 DEF OpType
  <1>3. PICK f : f = WithBigs(o)
    OBVIOUS
  <1>4. Chained(f, n, o, big)
    BY <1>1, <1>3, ChainOfBigs
  <1>5. f[0] = j /\ \A k \in 0..n : k # 0 => f[k] = NextEntry(f[k - 1], o, big[k])
    <2>1. PICK l \in Nat : l = n
      BY <1>2
    <2> HIDE DEF n
    <2>2. \A k \in 0..l : f[k] = IF k = 0 THEN j ELSE NextEntry(f[k - 1], o, big[k])
      BY <1>4, <2>1 DEF Chained
    <2>3. 0 \in 0..l
      OBVIOUS
    <2> QED BY <2>1, <2>2, <2>3
  <1> DEFINE Good(k) == Sound(f[k]) /\ Grows(j, f[k], A) /\ \E m \in Nat : Reached(f[k], k, m)
             T == {k \in Nat : k <= n => Good(k)}
  <1>6. Good(0)
    <2>1. Grows(j, j, A)
      BY <1>1 DEF Grows, JournalType
    <2>2. Reached(j, 0, 0)
      <3>1. j.room + 0 = j.room + 0 * PerSector /\ At(0) = 0 /\ 0 < Bufs
        BY <1>1, Constants DEF At, JournalType
      <3>2. j.cur = Behind(j.cur, 0)
        BY <1>1, BehindFacts DEF JournalType
      <3> QED BY <3>1, <3>2 DEF Reached
    <2> QED BY <1>1, <1>5, <2>1, <2>2
  <1>7. ASSUME NEW k \in Nat, Good(k), k + 1 <= n
        PROVE  Good(k + 1)
    <2>1. PICK e : e = big[k + 1]
      OBVIOUS
    <2>2. e \in Bigs /\ e \in Ops
      BY <1>1, <1>2, <1>7, <2>1
    <2>3. k + 1 \in 0..n /\ k + 1 # 0 /\ (k + 1) - 1 = k /\ k < n
      BY <1>2, <1>7
    <2>4. f[k + 1] = NextEntry(f[k], o, e)
      BY <1>5, <2>1, <2>3
    <2>5. PICK m \in Nat : Reached(f[k], k, m)
      BY <1>7
    <2>6. /\ Sound(f[k + 1]) /\ Grows(f[k], f[k + 1], {o} \union {e})
          /\ \E l \in Nat : Reached(f[k + 1], k + 1, l)
      <3> HIDE DEF n
      <3> QED BY <1>1, <1>2, <1>7, <2>2, <2>3, <2>4, <2>5, EntryStep DEF n
    <2>7. Grows(j, f[k + 1], A \union ({o} \union {e}))
      BY <1>7, <2>6, GrowsTransitive
    <2>8. A \union ({o} \union {e}) = A
      BY <2>2
    <2> QED BY <2>6, <2>7, <2>8
  <1> HIDE DEF Good
  <1>8. T = Nat
    <2>1. T \in SUBSET Nat /\ 0 \in T
      BY <1>6
    <2>2. ASSUME NEW k \in T PROVE k + 1 \in T
      BY <1>2, <1>7, <2>2
    <2> HIDE DEF T
    <2> QED BY <2>1, <2>2, Inductive
  <1>9. Good(n)
    BY <1>2, <1>8
  <1>10. AddBigs(o) = f[n]
    BY <1>3 DEF AddBigs
  <1> QED BY <1>9, <1>10 DEF Good

LEMMA SyncBigKeeps ==
  ASSUME WritesInv, NEW o \in SyncOps, SyncBig(o)
  PROVE  WritesInv'
  <1>1. /\ o \in Ops /\ o \notin Owners /\ imm' = imm /\ written' = written
        /\ unsynced' \in UnsyncedType /\ op \in [Ops -> OpType]
        /\ ({o} \union Bigs) \intersect Owners \subseteq {o}
    BY WritesAssumption DEF Ops, Owners, SyncBig, WritesInv, TypeOK, UnsyncedType
  <1>2. PICK s : s = AddBigs(o)
    OBVIOUS
  <1>3. PICK t : t = Prepare(s, o)
    OBVIOUS
  <1>4. Submitted(t, o, op) /\ BufferAvailable(Len(op[o].big))
    BY <1>2, <1>3 DEF SyncBig
  <1>5. Sound(s) /\ Grows(j, s, {o} \union Bigs)
    BY <1>2, <1>4, BigsSound
  <1>6. Sound(t) /\ NoneDirty(t) /\ Grows(s, t, {o})
    BY <1>1, <1>3, <1>5, PrepareSound, PrepareCleans, PrepareGrows DEF Sound
  <1>7. Grows(j, t, {o} \union Bigs)
    <2>1. Grows(j, t, ({o} \union Bigs) \union {o})
      BY <1>5, <1>6, GrowsTransitive
    <2>2. ({o} \union Bigs) \union {o} = {o} \union Bigs
      OBVIOUS
    <2> QED BY <2>1, <2>2
  <1> QED BY <1>1, <1>4, <1>6, <1>7, SubmittedKeeps DEF UnsyncedType

-----------------------------------------------------------------------------
(* The theorems.                                                            *)

LEMMA InitHolds ==
  ASSUME Init
  PROVE  WritesInv
  <1>0. PICK nso \in BOOLEAN : j = JInit(nso)
    BY DEF Init
  <1>1. /\ imm \in BOOLEAN /\ j = JInit(nso) /\ op = [o \in Ops |-> OpInit]
        /\ unsynced = [big |-> << >>, small |-> << >>] /\ written = {}
    BY <1>0 DEF Init
  <1>2. Bufs \in Nat /\ Bufs > 1 /\ PerSector \in Nat /\ PerSector > 0 /\ 0 \in Buffers
        /\ 0 \in 0..(PerSector - 1)
    BY Constants DEF Buffers
  <1>3. PICK nb : nb = [off |-> 0, dirty |-> FALSE, flush_count |-> 0, submit_id |-> 0]
    OBVIOUS
  <1>4. nb \in BufType /\ nb.flush_count = 0 /\ ~nb.dirty /\ nb.submit_id = 0
    BY <1>3 DEF BufType
  <1>5. /\ j.buf = [b \in Buffers |-> nb] /\ j.cur = 0 /\ j.room = 0 /\ j.last = 0 /\ j.sid = 0
        /\ j.flushing = {} /\ j.io = {} /\ j.ents = << >> /\ j.fatal = FALSE
    BY <1>1, <1>3 DEF JInit
  <1>6. j \in JournalType
    <2>1. [b \in Buffers |-> nb] \in [Buffers -> BufType]
      BY <1>4
    <2>2. << >> \in Seq([sec : Nat, op : Ops])
      OBVIOUS
    <2>3. j = [nso |-> nso, buf |-> [b \in Buffers |-> nb], cur |-> 0, room |-> 0, last |-> 0, sid |-> 0,
               flushing |-> {}, io |-> {}, ents |-> << >>, fatal |-> FALSE]
      BY <1>1, <1>3 DEF JInit
    <2> QED BY <1>2, <2>1, <2>2, <2>3 DEF JournalType
  <1>7. OpInit \in OpType /\ OpInit.st = "new"
    <2>1. << >> \in Seq(Bigs) /\ << >> \in Seq(Small \union Deletes)
      OBVIOUS
    <2> QED BY <2>1 DEF OpInit, OpType
  <1>8. TypeOK
    <2>1. unsynced \in [big : Seq(Bigs), small : Seq(Small \union Deletes)]
      BY <1>1
    <2>2. op \in [Ops -> OpType]
      BY <1>1, <1>7
    <2> QED BY <1>1, <1>5, <1>6, <2>1, <2>2, FS_EmptySet DEF TypeOK
  <1>9. Pinned(j)
    <2>1. \A b \in Buffers : {w \in j.io : w.buf = b} = {} /\ j.buf[b] = nb
      BY <1>5
    <2> QED BY <1>4, <1>5, <2>1, FS_EmptySet DEF Pinned
  <1>10. Ordered(j) /\ FirstPending(j) /\ \A b \in Buffers : ~j.buf[b].dirty
    BY <1>4, <1>5 DEF Ordered, FirstPending
  <1>11. ASSUME NEW o \in Owners
         PROVE  RequestOwned(o)
    <2>1. op[o].st = "new"
      BY <1>1, <1>7 DEF Owners, Ops, Modifications
    <2> QED BY <1>5, <2>1 DEF RequestOwned, HasEntry, Waits
  <1> QED BY <1>8, <1>9, <1>10, <1>11 DEF WritesInv

LEMMA StutterKeeps ==
  ASSUME WritesInv, UNCHANGED vars
  PROVE  WritesInv'
  <1>1. imm' = imm /\ j' = j /\ op' = op /\ unsynced' = unsynced /\ written' = written
    BY DEF vars
  <1> QED BY <1>1 DEF WritesInv, TypeOK, Pinned, Ordered, FirstPending, InFront, RequestOwned,
             HasEntry, Waits, WaitsFor, DataOwned, EntryOwned

(* The inductive invariant: submitted writes, waiters and sector buffers    *)
(* agree, and every request's own writes are written or waited for.         *)
THEOREM WritesInvariant == Spec => []WritesInv
  <1>1. Init => WritesInv
    BY InitHolds
  <1>2. WritesInv /\ [Next]_vars => WritesInv'
    <2> SUFFICES ASSUME WritesInv, [Next]_vars PROVE WritesInv'
      OBVIOUS
    <2>1. CASE UNCHANGED vars
      BY <2>1, StutterKeeps
    <2>2. ASSUME NEW o \in Small, WriteSmall(o) PROVE WritesInv'
      BY <2>2, SmallKeeps
    <2>3. ASSUME NEW o \in Deletes, Delete(o) PROVE WritesInv'
      BY <2>3, DeleteKeeps
    <2>4. ASSUME NEW o \in Stabs, Stab(o) PROVE WritesInv'
      BY <2>4, StabKeeps
    <2>5. ASSUME NEW o \in Bigs, WriteBig(o) PROVE WritesInv'
      BY <2>5, BigKeeps
    <2>6. ASSUME NEW o \in SyncOps, SyncStart(o) PROVE WritesInv'
      BY <2>6, SyncStartKeeps
    <2>7. ASSUME NEW o \in Small \union Deletes, WriteDone(o) PROVE WritesInv'
      BY <2>7, DoneKeeps
    <2>8. ASSUME NEW o \in SyncOps, SyncBig(o) PROVE WritesInv'
      BY <2>8, SyncBigKeeps
    <2>9. ASSUME NEW o \in SyncOps \union Stabs, Fsync(o) PROVE WritesInv'
      BY <2>9, FsyncKeeps
    <2>10. ASSUME Submit PROVE WritesInv'
      BY <2>10, SubmitKeeps
    <2>11. ASSUME NEW w \in j.io, WriteEnded(w) PROVE WritesInv'
      BY <2>11, EndedKeeps
    <2> QED BY <2>1, <2>2, <2>3, <2>4, <2>5, <2>6, <2>7, <2>8, <2>9, <2>10, <2>11
            DEF Next, Requests, Progress
  <1> QED BY <1>1, <1>2, PTL DEF Spec

(* No sector buffer moves to another place while a write from it is in      *)
(* flight, flush_count is exact, and no assertion of the journal fails.     *)
THEOREM AlwaysPinned == Spec => []BuffersPinned
  <1>1. WritesInv => BuffersPinned
    BY DEF WritesInv, BuffersPinned
  <1> QED BY <1>1, WritesInvariant, PTL

(* Nobody waits in flushing_ops for a write that has ended.                 *)
THEOREM AlwaysHeadPending == Spec => []HeadPending
  <1>1. WritesInv => HeadPending
    BY DEF WritesInv, HeadPending
  <1> QED BY <1>1, WritesInvariant, PTL

(* A request goes on only when its data, and its entry if it asked for its  *)
(* sector write, have been written.                                         *)
THEOREM AlwaysOwnWritesEnded == Spec => []OwnWritesEnded
  <1>1. ASSUME WritesInv
        PROVE  OwnWritesEnded
    <2>1. ASSUME NEW o \in Owners, op[o].st \in {"ready", "written"}
          PROVE  /\ o \in Small => <<"data", o>> \in written
                 /\ imm \/ o \in Stabs => <<"entry", EntryOf(o)>> \in written
      <3>1. RequestOwned(o) /\ op[o].st # "new" /\ op[o].st # "sent"
        BY <1>1, <2>1 DEF WritesInv
      <3>2. ~Waits(j, o) /\ HasEntry(j, o)
        BY <3>1 DEF RequestOwned
      <3>3. \A w \in j.io : ~WaitsFor(j, o, w)
        BY <3>2 DEF Waits, WaitsFor
      <3>4. o \in Small => <<"data", o>> \in written
        BY <3>1, <3>3 DEF RequestOwned, DataOwned
      <3>5. EntryOf(o) \in DOMAIN j.ents /\ j.ents[EntryOf(o)].op = o
        BY <3>2 DEF HasEntry, EntryOf
      <3>6. imm \/ o \in Stabs => <<"entry", EntryOf(o)>> \in written
        BY <3>1, <3>3, <3>5 DEF RequestOwned, EntryOwned
      <3> QED BY <3>4, <3>6
    <2> QED BY <2>1 DEF OwnWritesEnded, Owners
  <1> QED BY <1>1, WritesInvariant, PTL

=============================================================================
