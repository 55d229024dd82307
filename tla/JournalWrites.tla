---------------------------- MODULE JournalWrites ----------------------------
(***************************************************************************)
(* How the blockstore writes its journal (src/src/blockstore).  Entries    *)
(* are added to the current sector in a buffer in memory; the sector is    *)
(* written out by the request that fills it, by a SYNC, or, with           *)
(* immediate_commit, by every request.  Several requests may wait for one  *)
(* sector write and one request for several: flushing_ops holds who waits  *)
(* for what, in the order of submission.  Writes end in any order.         *)
(*                                                                         *)
(* Sectors are numbered in the order they are taken from the ring          *)
(* (JournalRing has the ring itself); number 0 is the superblock.          *)
(***************************************************************************)
EXTENDS Integers, Sequences, FiniteSets

CONSTANTS
  Small,      \* small writes: a journal entry and data behind it
  Deletes,    \* deletes: a journal entry
  Bigs,       \* big writes: a SYNC adds their entries
  Stabs,      \* STABLEs and ROLLBACKs
  SyncOps,    \* SYNCs
  Bufs,       \* journal_sector_buffer_count
  PerSector   \* entries that fit into a sector

ASSUME WritesAssumption ==
  /\ {Bufs, PerSector} \subseteq Nat \ {0} /\ Bufs > 1
  /\ Small \intersect (Deletes \union Bigs \union Stabs \union SyncOps) = {}
  /\ Deletes \intersect (Bigs \union Stabs \union SyncOps) = {}
  /\ Bigs \intersect (Stabs \union SyncOps) = {} /\ Stabs \intersect SyncOps = {}

Modifications == Small \union Deletes \union Bigs \union Stabs
Ops == Modifications \union SyncOps

VARIABLES
  imm,       \* immediate_commit is not "none" (the journal needs no fsync)
  j,         \* journal_t, see JInit
  op,        \* the requests: state, flushed sectors, writes a SYNC took
  unsynced,  \* unsynced_big_writes, unsynced_small_writes
  written    \* entries and data (of requests) whose write has ended

vars == <<imm, j, op, unsynced, written>>

-----------------------------------------------------------------------------
Buffers == 0..(Bufs - 1)

(* sector_info is zeroed, and the current sector is full: it is unmapped.   *)
JInit(nso) ==
  [nso |-> nso,      \* no_same_sector_overwrites
   buf |-> [b \in Buffers |-> [off |-> 0, dirty |-> FALSE, flush_count |-> 0,
                               submit_id |-> 0]],
   cur |-> 0,        \* cur_sector
   room |-> 0,       \* entries that fit behind in_sector_pos
   last |-> 0,       \* the newest sector taken
   sid |-> 0,        \* submit_id
   flushing |-> {},  \* flushing_ops: who waits for which write
   io |-> {},        \* writes in flight: prepared, or sent to the device
   ents |-> << >>,   \* the entries of the journal: their sector and request
   fatal |-> FALSE]  \* an assertion failed

OpInit == [st |-> "new", secs |-> {},
           big |-> << >>, small |-> << >>]  \* sync_big_writes, sync_small_writes

(* entry_fits: a sector that was submitted once has no room left with       *)
(* no_same_sector_overwrites (Prepare).                                     *)
Fits == j.room > 0

(* The i-th buffer behind b.                                                *)
Behind(b, i) == IF b + i < Bufs THEN b + i ELSE b + i - Bufs
NextBuffer(b) == Behind(b, 1)

(* check_available for n entries: the sectors behind the current one that   *)
(* they need must have free buffers, or else the request waits              *)
(* (WAIT_JOURNAL_BUFFER).  A batch that wraps around to the first buffer it *)
(* uses stops the program.                                                  *)
Needed(n, i) == n > j.room + (i - 1) * PerSector
BatchFits(n) == n <= j.room + (IF j.room > 0 THEN Bufs - 1 ELSE Bufs) * PerSector
MutIgnoreFlush(n) ==
  BatchFits(n) /\ \A i \in 1..Bufs : Needed(n, i) => ~j.buf[Behind(j.cur, i)].dirty
BufferAvailable(n) ==
  /\ BatchFits(n)
  /\ \A i \in 1..Bufs : Needed(n, i) =>
       LET b == j.buf[Behind(j.cur, i)] IN b.flush_count = 0 /\ ~b.dirty

(* prefill_single_journal_entry, for request o: if the entry does not fit,  *)
(* "Move to the next journal sector", and to the next buffer if the current *)
(* one is being written.                                                    *)
Prefill(s, o) ==
  LET fits == s.room > 0
      b == IF fits \/ s.buf[s.cur].flush_count = 0 THEN s.cur ELSE NextBuffer(s.cur)
      off == IF fits THEN s.buf[s.cur].off ELSE s.last + 1
      failed == s.buf[s.cur].dirty \/ (b # s.cur /\ s.buf[b].flush_count > 0)
  IN [s EXCEPT !.cur = b,
               !.room = IF fits THEN s.room - 1 ELSE PerSector - 1,
               !.last = IF fits THEN s.last ELSE s.last + 1,
               !.buf[b] = [off |-> off, dirty |-> TRUE, flush_count |-> s.buf[b].flush_count,
                           submit_id |-> s.buf[b].submit_id],
               !.ents = Append(s.ents, [sec |-> off, op |-> o]),
               !.fatal = IF ~fits /\ failed THEN TRUE ELSE s.fatal]

(* A write that somebody prepares: sent, and what it carries, at Submit.    *)
Write(id, b, off, o) ==
  [id |-> id, buf |-> b, off |-> off, op |-> o, sent |-> FALSE, upto |-> 0]
Waiter(id, b, o) == [id |-> id, pending |-> TRUE, sector |-> b, op |-> o]

(* prepare_journal_sector_write of the current sector for request o.  A     *)
(* sector is submitted once in a batch of requests, and everybody who asked *)
(* for it waits for it.                                                     *)
Prepare(s, o) ==
  LET b == s.cur
      again == s.buf[b].submit_id # 0
      id == IF again THEN s.buf[b].submit_id ELSE s.sid + 1
      count == IF again THEN s.buf[b].flush_count ELSE s.buf[b].flush_count + 1
  IN [s EXCEPT !.sid = IF again THEN s.sid ELSE id,
               !.room = IF s.nso THEN 0 ELSE s.room,
               !.buf[b] = [off |-> s.buf[b].off, dirty |-> FALSE,
                           flush_count |-> count, submit_id |-> id],
               !.io = IF again THEN s.io ELSE s.io \union {Write(id, b, s.buf[b].off, o)},
               !.flushing = s.flushing \union {Waiter(id, b, o)}]

(* The data write of a small write waits in line with the sectors.          *)
AddData(s, o) ==
  [s EXCEPT !.sid = @ + 1,
            !.io = @ \union {Write(s.sid + 1, -1, -1, o)},
            !.flushing = @ \union {Waiter(s.sid + 1, -1, o)}]

SectorsOf(s, o) == {f.sector : f \in {g \in s.flushing : g.op = o}} \ {-1}
Waits(s, o) == \E f \in s.flushing : f.op = o

(* Request o has changed the journal to s and waits for its writes, if any. *)
Submitted(s, o, ops) ==
  /\ j' = s
  /\ op' = [ops EXCEPT ![o].st = IF Waits(s, o) THEN "sent" ELSE "ready",
                       ![o].secs = SectorsOf(s, o)]

(* loop() continues the requests whose writes have ended, which come first  *)
(* in submit_queue, before it dequeues new ones and returns to the ring.    *)
Continued == \A o \in Ops : op[o].st # "ready"

Dequeued(o) == op[o].st = "new" /\ Continued

-----------------------------------------------------------------------------
(* Requests.                                                                *)

(* dequeue_write, small: a full sector is written out, dirty or not.        *)
PriorOfSmall(o) == IF ~imm /\ ~Fits THEN Prepare(j, o) ELSE j

WriteSmall(o) ==
  LET s == Prefill(PriorOfSmall(o), o)
  IN /\ Dequeued(o)
     /\ BufferAvailable(1)
     /\ Submitted(AddData(IF imm THEN Prepare(s, o) ELSE s, o), o, op)
     /\ UNCHANGED <<imm, unsynced, written>>

(* dequeue_del: the sector goes out when it is full and dirty.              *)
PriorIfDirty(s, o) ==
  IF s.room = 0 /\ s.buf[s.cur].dirty THEN Prepare(s, o) ELSE s

Delete(o) ==
  LET s == Prefill(IF imm THEN j ELSE PriorIfDirty(j, o), o)
  IN /\ Dequeued(o)
     /\ BufferAvailable(1)
     /\ Submitted(IF imm THEN Prepare(s, o) ELSE s, o, op)
     /\ UNCHANGED <<imm, unsynced, written>>

(* dequeue_stable, dequeue_rollback                                         *)
Stab(o) ==
  /\ Dequeued(o)
  /\ BufferAvailable(1)
  /\ Submitted(Prepare(Prefill(PriorIfDirty(j, o), o), o), o, op)
  /\ UNCHANGED <<imm, unsynced, written>>

(* A big write is on the data device; its journal entry is left to a SYNC.  *)
WriteBig(o) ==
  /\ Dequeued(o)
  /\ op' = [op EXCEPT ![o].st = "written"]
  /\ unsynced' = [unsynced EXCEPT !.big = Append(@, o)]
  /\ UNCHANGED <<imm, j, written>>

(* continue_write, resume_4                                                 *)
WriteDone(o) ==
  /\ op[o].st = "ready"
  /\ op' = [op EXCEPT ![o].st = "written"]
  /\ unsynced' = IF imm THEN unsynced ELSE [unsynced EXCEPT !.small = Append(@, o)]
  /\ UNCHANGED <<imm, j, written>>

(* continue_sync: take the finished writes.  Without big writes the current *)
(* sector is written if it is dirty.                                        *)
SyncStart(o) ==
  LET taken == [op EXCEPT ![o].big = unsynced.big, ![o].small = unsynced.small]
  IN /\ Dequeued(o)
     /\ unsynced.big # << >> \/ unsynced.small # << >>
     /\ unsynced' = [big |-> << >>, small |-> << >>]
     /\ IF unsynced.big # << >>
        THEN op' = [taken EXCEPT ![o].st = "has_big"] /\ UNCHANGED j
        ELSE Submitted(IF j.buf[j.cur].dirty THEN Prepare(j, o) ELSE j, o, taken)
     /\ UNCHANGED <<imm, written>>

(* The data device is synced: the entries of the big writes.                *)
WithBigs(o) ==
  LET f[k \in 0..Len(op[o].big)] ==
        IF k = 0 THEN j ELSE Prefill(PriorIfDirty(f[k - 1], o), op[o].big[k])
  IN f
AddBigs(o) == WithBigs(o)[Len(op[o].big)]

SyncBig(o) ==
  /\ op[o].st = "has_big" /\ Continued
  /\ BufferAvailable(Len(op[o].big))
  /\ Submitted(Prepare(AddBigs(o), o), o, op)
  /\ UNCHANGED <<imm, unsynced, written>>

(* The writes of a SYNC, STABLE or ROLLBACK have ended: fsync the journal,  *)
(* unless immediate_commit makes it needless, and answer.  An fsync covers  *)
(* the writes that ended before it.                                         *)
Fsync(o) ==
  /\ op[o].st = "ready"
  /\ op' = [op EXCEPT ![o].st = "written"]
  /\ UNCHANGED <<imm, j, unsynced, written>>

(* The end of loop(): the prepared writes go to the device together, with   *)
(* the entries that are in memory by then.                                  *)
GoesOut(w) ==
  IF w.sent THEN w ELSE [w EXCEPT !.sent = TRUE, !.upto = Len(j.ents)]

Submit ==
  /\ Continued
  /\ \E w \in j.io : ~w.sent
  /\ j' = [j EXCEPT !.io = {GoesOut(w) : w \in j.io},
                    !.buf = [b \in Buffers |-> [j.buf[b] EXCEPT !.submit_id = 0]]]
  /\ UNCHANGED <<imm, op, unsynced, written>>

-----------------------------------------------------------------------------
(* handle_journal_write                                                     *)

(* Does waiter f stay when write id ends?  The waiters of id go if nobody   *)
(* is in front of them, the later ones if their write has ended before.     *)
InFront(fops, id) == \E g \in fops : g.id < id
MutRemoveLater(fops, id, f) == f.id < id
MutKeepEnded(fops, id, f) == f.id # id \/ InFront(fops, id)
StaysWaiting(fops, id, f) ==
  \/ f.id < id
  \/ IF f.id = id THEN InFront(fops, id) ELSE f.pending

(* release_journal_sectors of the finished requests: no more entries into   *)
(* the current sector if nobody writes it.                                  *)
Released(s, finished) ==
  IF /\ \E o \in finished : s.cur \in op[o].secs
     /\ ~s.buf[s.cur].dirty /\ s.buf[s.cur].flush_count = 0
  THEN [s EXCEPT !.room = 0] ELSE s

EndFlush(buf, w) ==
  IF w.buf = -1 THEN buf ELSE [buf EXCEPT ![w.buf].flush_count = @ - 1]

OnMedia(w) ==
  IF w.buf = -1 THEN {<<"data", w.op>>}
  ELSE {<<"entry", k>> : k \in {i \in 1..w.upto : j.ents[i].sec = w.off}}

Marked(f, id) == [f EXCEPT !.pending = @ /\ f.id # id]

WriteEnded(w) ==
  LET marked == {Marked(f, w.id) : f \in j.flushing}
      s == [j EXCEPT !.flushing = {f \in marked : StaysWaiting(marked, w.id, f)},
                     !.buf = EndFlush(j.buf, w), !.io = @ \ {w}]
      finished == {o \in Ops : op[o].st = "sent" /\ ~Waits(s, o)}
  IN /\ Continued
     /\ \A x \in j.io : x.sent
     /\ written' = written \union OnMedia(w)
     /\ j' = Released(s, finished)
     /\ op' = [o \in Ops |-> IF o \in finished THEN [op[o] EXCEPT !.st = "ready"] ELSE op[o]]
     /\ UNCHANGED <<imm, unsynced>>

-----------------------------------------------------------------------------
Init ==
  /\ imm \in BOOLEAN
  /\ \E nso \in BOOLEAN : j = JInit(nso)
  /\ op = [o \in Ops |-> OpInit]
  /\ unsynced = [big |-> << >>, small |-> << >>]
  /\ written = {}

Requests ==
  \/ \E o \in Small : WriteSmall(o)
  \/ \E o \in Deletes : Delete(o)
  \/ \E o \in Stabs : Stab(o)
  \/ \E o \in Bigs : WriteBig(o)
  \/ \E o \in SyncOps : SyncStart(o)

Progress ==
  \/ \E o \in Small \union Deletes : WriteDone(o)
  \/ \E o \in SyncOps : SyncBig(o)
  \/ \E o \in SyncOps \union Stabs : Fsync(o)
  \/ Submit
  \/ \E w \in j.io : WriteEnded(w)

Next == Requests \/ Progress

(* The event loop goes on and the device ends every write; requests need    *)
(* not come.                                                                *)
Fairness ==
  /\ WF_vars(Submit)
  /\ WF_vars(\E w \in j.io : WriteEnded(w))
  /\ WF_vars(\E o \in Small \union Deletes : WriteDone(o))
  /\ WF_vars(\E o \in SyncOps : SyncBig(o))
  /\ WF_vars(\E o \in SyncOps \union Stabs : Fsync(o))

Spec == Init /\ [][Next]_vars /\ Fairness

-----------------------------------------------------------------------------
(* Properties.                                                              *)

(* The types of the variables.                                              *)
BufType == [off : Nat, dirty : BOOLEAN, flush_count : Nat, submit_id : Nat]
WaiterType == [id : Nat, pending : BOOLEAN, sector : Buffers \union {-1}, op : Ops]
WriteType == [id : Nat, buf : Buffers \union {-1}, off : Int, op : Ops,
              sent : BOOLEAN, upto : Nat]
JournalType == [nso : BOOLEAN, buf : [Buffers -> BufType], cur : Buffers,
                room : 0..(PerSector - 1), last : Nat, sid : Nat, flushing : SUBSET WaiterType, io : SUBSET WriteType,
                ents : Seq([sec : Nat, op : Ops]), fatal : BOOLEAN]
OpType == [st : {"new", "sent", "has_big", "ready", "written"}, secs : SUBSET Buffers,
           big : Seq(Bigs), small : Seq(Small \union Deletes)]

TypeOK ==
  /\ imm \in BOOLEAN
  /\ j \in JournalType /\ IsFiniteSet(j.io)
  /\ op \in [Ops -> OpType]
  /\ unsynced \in [big : Seq(Bigs), small : Seq(Small \union Deletes)]

(* Journal s has its sector buffers pinned.                                 *)
Pinned(s) ==
  /\ ~s.fatal
  /\ \A b \in Buffers :
       s.buf[b].flush_count = Cardinality({w \in s.io : w.buf = b})
  /\ \A w \in s.io : w.buf # -1 => s.buf[w.buf].off = w.off
  /\ \A b \in Buffers \ {s.cur} : ~s.buf[b].dirty

(* A sector buffer keeps its place while a write from it is in flight, and  *)
(* flush_count says how many are: no assertion of the journal fails and no  *)
(* entry lands in a sector that is being written from other memory.         *)
BuffersPinned == Pinned(j)

EntryOf(o) == CHOOSE k \in DOMAIN j.ents : j.ents[k].op = o

(* A request goes on only when its own writes have ended: the data of a     *)
(* small write, and the entry when its own sector write was asked for.      *)
OwnWritesEnded ==
  \A o \in Small \union Deletes \union Stabs : op[o].st \in {"ready", "written"} =>
    /\ o \in Small => <<"data", o>> \in written
    /\ imm \/ o \in Stabs => <<"entry", EntryOf(o)>> \in written

(* The waiters in front of all others are still being written.              *)
FirstPending(s) == \A f \in s.flushing : f.pending \/ InFront(s.flushing, f.id)

(* Requests never wait for a write that has ended: when the first write in  *)
(* line ends, all waiters behind it whose writes ended earlier go with it.  *)
HeadPending == FirstPending(j)

(* Modifications reported durable: by their own answer or by a SYNC.        *)
Elements(q) == {q[i] : i \in DOMAIN q}
Acked == {o \in Modifications :
  \/ op[o].st = "written" /\ (o \in Stabs \/ (imm /\ o \notin Bigs))
  \/ \E y \in SyncOps : op[y].st = "written" /\ o \in Elements(op[y].big) \union Elements(op[y].small)}

(* A modification reported durable survives a crash.  Replay reads entries  *)
(* in order and stops at the first one that is missing or has bad data, so  *)
(* everything up to its entry must have been written before the answer, or  *)
(* before the fsync: "Make subsequent journal writes wait for our data      *)
(* write" (dequeue_write).                                                  *)
AckedDurable ==
  [][\A o \in Acked' \ Acked : \A k \in 1..EntryOf(o) :
       /\ <<"entry", k>> \in written
       /\ j.ents[k].op \in Small => <<"data", j.ents[k].op>> \in written]_vars

(* The journal superblock is written by trim_journal only: "Write current   *)
(* journal sector only if it's dirty and full, or in the immediate_commit   *)
(* mode" (dequeue_write).                                                   *)
SuperblockUntouched == \A w \in j.io : w.off # 0

(* Every request that waits for journal writes goes on: in the end, when    *)
(* requests stop coming, nobody waits.  And a request that waits for a      *)
(* sector buffer gets one.                                                  *)
RequestsComplete ==
  /\ <>[](\A o \in Ops : op[o].st \in {"new", "written"})
  /\ []<>BufferAvailable(1)

-----------------------------------------------------------------------------
(* The inductive invariant.                                                 *)

(* Submitted ids name one write each, and waiters wait for the write of     *)
(* their id.                                                                *)
Ordered(s) ==
  /\ \A w \in s.io : w.id <= s.sid
  /\ \A v, w \in s.io : v.id = w.id => v = w
  /\ \A b \in Buffers : s.buf[b].submit_id # 0 =>
       \E w \in s.io : w.id = s.buf[b].submit_id /\ w.buf = b /\ ~w.sent
  /\ \A f \in s.flushing : /\ f.id <= s.sid
                           /\ f.pending => \E w \in s.io : w.id = f.id /\ w.buf = f.sector

(* Request o waits for write w.                                             *)
WaitsFor(s, o, w) == \E f \in s.flushing : f.op = o /\ f.pending /\ f.id = w.id

(* The data of o, and its entry, were written or o waits for it.            *)
DataOwned(s, wr, o) ==
  \/ <<"data", o>> \in wr
  \/ \E w \in s.io : w.buf = -1 /\ w.op = o /\ WaitsFor(s, o, w)
EntryOwned(s, wr, o) ==
  \A k \in DOMAIN s.ents : s.ents[k].op = o =>
    \/ <<"entry", k>> \in wr
    \/ \E w \in s.io : /\ w.buf # -1 /\ w.off = s.ents[k].sec /\ (w.sent => k <= w.upto)
                       /\ WaitsFor(s, o, w)
HasEntry(s, o) == \E k \in DOMAIN s.ents : s.ents[k].op = o

Owners == Small \union Deletes \union Stabs
RequestOwned(o) ==
  /\ op[o].st # "has_big"
  /\ op[o].st = "new" => ~HasEntry(j, o)
  /\ op[o].st # "new" => /\ HasEntry(j, o)
                         /\ o \in Small => DataOwned(j, written, o)
                         /\ imm \/ o \in Stabs => EntryOwned(j, written, o)
  /\ op[o].st # "sent" => ~Waits(j, o)

WritesInv ==
  /\ TypeOK /\ Pinned(j) /\ Ordered(j) /\ FirstPending(j)
  /\ imm => \A b \in Buffers : ~j.buf[b].dirty
  /\ \A o \in Owners : RequestOwned(o)

=============================================================================
