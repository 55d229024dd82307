------------------------------ MODULE Blockstore ------------------------------
(***************************************************************************)
(* The blockstore: the single-disk storage engine of an OSD                *)
(* (src/src/blockstore).  An object is a chain of versions.  New versions  *)
(* live in dirty_db and in the journal until the flusher moves them to the *)
(* data and metadata areas (clean_db).  A version is written, synced       *)
(* (durable), and, in erasure-coded pools, marked stable by a second       *)
(* request or rolled back.  A crash loses memory and every write that no   *)
(* fsync covers; a restart reads the metadata and replays the journal.     *)
(*                                                                         *)
(* Data is abstracted to write identifiers: an object has Regions, a small *)
(* write covers SmallRegion, a full write covers them all, and every       *)
(* region holds the identifier of the write that filled it (0 = zeroes).   *)
(***************************************************************************)
EXTENDS Integers, Sequences, FiniteSets, SequencesExt

CONSTANTS
  Setups,         \* the stores and workloads to start with, see below
  Blocks,         \* blocks of the data device
  NoBlock, NoOid  \* model values: UINT64_MAX location, zero object id

VARIABLES
  setup,    \* the configuration of this behaviour, one of Setups
  mem,      \* the in-memory tables, see MemInit
  wq,       \* write and delete requests of submit_queue, in queue order
  unsynced, \* unsynced_big_writes, unsynced_small_writes
  syncs,    \* the SYNCs being executed
  stabs,    \* the STABLEs and ROLLBACKs being executed
  fl,       \* the flusher coroutine
  journal,  \* journal entries from used_start on
  jdur,     \* positions of those known to be on the media, their data included
  blk,      \* data device: current and possible contents after a crash
  meta,     \* metadata area: in-memory entry and possible entries on disk
  wants,    \* history: wants[i] = what an object must read as after write i
  torn,     \* history: objects whose chain of versions a crash tore; with NoOid
            \* among them a crash lost what was answered, see LostAnswers
  crashes   \* how many crashes happened

vars == <<setup, mem, wq, unsynced, syncs, stabs, fl, journal, jdur, blk, meta,
          wants, torn, crashes>>

Oids == setup.oids                 \* objects
InstantOids == setup.instant       \* objects of replicated pools: BS_OP_WRITE_STABLE
DeletableOids == setup.deletable   \* objects clients delete
Regions == setup.regions           \* parts of an object (the granularity of its bitmap)
SmallRegion == setup.small         \* the regions a small write covers
Immediate == setup.imm             \* immediate_commit: "none", "small" or "all"
ReqVersions == setup.req           \* versions a client asks for; 0 = assign the next one
SerialWrites == setup.serial       \* TRUE: one modification of an object at a time, as OSDs do
MaxObjects == setup.objects        \* bound: objects in use at the same time
MaxVersion == setup.versions       \* bound: versions of an object
MaxWrites == setup.writes          \* bound: modifications issued by clients
MaxJournal == setup.entries        \* bound: entries in the journal
MaxSyncs == setup.syncs            \* bound: SYNCs executed at the same time
MaxStabs == setup.stabs            \* bound: STABLEs and ROLLBACKs executed at the same time
MaxCrashes == setup.crashes        \* bound: crashes

ASSUME SetupsAssumption ==
  \A s \in Setups :
    /\ s.instant \subseteq s.oids /\ s.deletable \subseteq s.oids
    /\ s.small \subseteq s.regions /\ s.imm \in {"none", "small", "all"}
    /\ {s.objects, s.versions, s.writes, s.entries, s.syncs, s.stabs, s.crashes} \subseteq Nat
    /\ s.req \subseteq 0..s.versions
    /\ NoBlock \notin Blocks /\ NoOid \notin s.oids

-----------------------------------------------------------------------------
(* Workflow states of a dirty entry (BS_ST_...), in the code's order.         *)
WAIT_DEL == 1
WAIT_BIG == 2
IN_FLIGHT == 3
SUBMITTED == 4
WRITTEN == 5
SYNCED == 6
STABLE == 7

IsInFlight(e) == e.wf <= SUBMITTED
IsSynced(e) == e.wf >= SYNCED
IsStable(e) == e.wf = STABLE
IsInstant(e) == e.inst \/ e.type = "del"
OwnsBlock(e) == e.type = "big" /\ e.loc # NoBlock
ImmFor(type) == IF type = "big" THEN Immediate = "all" ELSE Immediate # "none"

NoClean == [ver |-> 0, loc |-> NoBlock, bmp |-> {}, id |-> 0]
NoMeta == [o |-> NoOid, ver |-> 0, bmp |-> {}, id |-> 0]
Idle == [pc |-> "idle"]
Zeroes == [r \in Regions |-> 0]

MemInit ==
  [dirty |-> [o \in Oids |-> << >>],        \* dirty_db: version -> entry
   clean |-> [o \in Oids |-> NoClean],      \* clean_db
   alloc |-> {},                            \* data_alloc
   unstable |-> [o \in Oids |-> 0],         \* unstable_writes, 0 = none
   unstable_unsynced |-> 0,
   big_unsynced |-> 0,                      \* unsynced_big_write_count
   big_to_flush |-> 0,
   used_blocks |-> 0,
   flush |-> [o \in Oids |-> 0],            \* flush_versions, 0 = not queued
   fatal |-> FALSE]                         \* assert, exit(1), abort or throw

(* After an internal error the process is gone.                             *)
Running == ~mem.fatal

Greater(a, b) == IF a < b THEN b ELSE a
Drop(f, S) == [x \in DOMAIN f \ S |-> f[x]]
Put(f, k, e) == [x \in DOMAIN f \union {k} |-> IF x = k THEN e ELSE f[x]]
Emplace(f, k, e) == IF k \in DOMAIN f THEN f ELSE Put(f, k, e)

-----------------------------------------------------------------------------
(* Operations on the tables that both the running store and replay use.     *)

(* Writes waiting for a delete to be flushed go on; those behind a big one  *)
(* wait for it.                                                             *)
UnblockAfterDelete(d, last) ==
  [u \in DOMAIN d |->
     IF u > last /\ d[u].wf = WAIT_DEL
     THEN [d[u] EXCEPT !.wf =
             IF \E w \in DOMAIN d : /\ last < w /\ w < u
                                    /\ d[w].wf = WAIT_DEL /\ d[w].type = "big"
             THEN WAIT_BIG ELSE IN_FLIGHT]
     ELSE d[u]]

(* The blocks of the erased versions S, except the one that stays in use.   *)
MutFreeAll(d, S, clean_loc) == {d[u].loc : u \in {x \in S : OwnsBlock(d[x])}}
FreedBlocks(d, S, clean_loc) ==
  {d[u].loc : u \in {x \in S : OwnsBlock(d[x])}} \ {clean_loc}

(* The erased versions that mark_stable has added to big_to_flush.          *)
CountedToFlush(d, S) == {u \in S : d[u].type \in {"big", "del"} /\ IsStable(d[u])}

EraseDirty(m, o, S, clean_loc) ==
  IF S = {} THEN m ELSE
  LET d == m.dirty[o]
      last == Max(S)
      d1 == IF d[last].type = "del" THEN UnblockAfterDelete(d, last) ELSE d
  IN [m EXCEPT !.dirty[o] = Drop(d1, S),
               !.alloc = @ \ FreedBlocks(d, S, clean_loc),
               !.big_to_flush = @ - Cardinality(CountedToFlush(d, S))]

EnqueueFlush(m, o, v) == [m EXCEPT !.flush[o] = Greater(@, v)]

(* Does the object exist before its dirty version u?                        *)
ExistsBefore(m, o, u) ==
  LET below == {x \in DOMAIN m.dirty[o] : x < u}
  IN IF below # {} THEN m.dirty[o][Max(below)].type # "del"
     ELSE m.clean[o].ver # 0

(* Instant versions become stable together with the synced ones above them. *)
StableTop(d, v) ==
  IF ~IsInstant(d[v]) THEN v
  ELSE Max({w \in DOMAIN d : /\ w >= v
                               /\ \A x \in DOMAIN d : v < x /\ x <= w => IsSynced(d[x])})

MarkStable(m, o, v, forget_dirty) ==
  LET d == m.dirty[o]
      Overrides(u) == forget_dirty /\ d[u].type \in {"big", "del"}
      Blocked == IsInstant(d[v]) /\ \E u \in DOMAIN d : u < v /\ ~IsStable(d[u])
      top == StableTop(d, v)
      seen == {u \in DOMAIN d : /\ u <= top
                 /\ \A x \in DOMAIN d :
                      u < x /\ x <= top => ~IsStable(d[x]) /\ ~Overrides(x)}
      promoted == {u \in seen : d[u].wf = SYNCED}
      bigs == {u \in promoted : d[u].type = "big"}
      dels == {u \in promoted : d[u].type = "del"}
      m1 == [m EXCEPT
              !.dirty[o] = [u \in DOMAIN d |->
                  IF u \in promoted THEN [d[u] EXCEPT !.wf = STABLE] ELSE d[u]],
              !.used_blocks = @ - Cardinality(dels)
                  + Cardinality({u \in bigs : ~ExistsBefore(m, o, u)}),
              !.big_to_flush = @ + Cardinality(bigs \union dels),
              !.fatal = @ \/ \E u \in seen : IsInFlight(d[u])]
      m2 == IF Overrides(Min(seen))
            THEN EraseDirty(m1, o, {u \in DOMAIN d : u < Min(seen)}, m.clean[o].loc)
            ELSE m1
      Settle(n, w) == [n EXCEPT !.unstable[o] = IF @ <= w THEN 0 ELSE @]
  IN IF v \notin DOMAIN d THEN Settle(m, v)
     ELSE IF Blocked THEN m
     ELSE Settle(EnqueueFlush(m2, o, top), top)

(* The newest version that stays unstable after a rollback, 0 = none.       *)
MaxUnstable(d, left) ==
  IF left # {} /\ ~IsStable(d[Max(left)]) THEN Max(left) ELSE 0

MarkRolledBack(m, o, v) ==
  LET d == m.dirty[o]
      above == {u \in DOMAIN d : u > v}
      below == DOMAIN d \ above
      gone == {u \in above : \A x \in DOMAIN d :
                 x >= u => ~IsInFlight(d[x]) /\ ~IsStable(d[x])}
      max_unstable == IF gone = above THEN MaxUnstable(d, below) ELSE 0
      m1 == EraseDirty(m, o, gone, NoBlock)
  IN IF gone = {} THEN m
     ELSE [m1 EXCEPT !.unstable[o] = IF @ = 0 THEN 0 ELSE max_unstable]

UnblockSmallWrites(d, v) ==
  [u \in DOMAIN d |-> IF u > v /\ d[u].wf = WAIT_BIG
                      THEN [d[u] EXCEPT !.wf = IN_FLIGHT] ELSE d[u]]

(* A version becomes durable: the common part of ack_sync and continue_write *)
AckSynced(m, o, v) ==
  LET e == m.dirty[o][v]
      m1 == [m EXCEPT !.unstable[o] = Greater(@, v),
                      !.dirty[o][v].wf = SYNCED,
                      !.unstable_unsynced = IF IsInstant(e) THEN @ ELSE @ - 1]
      m2 == IF IsInstant(e) THEN MarkStable(m1, o, v, FALSE) ELSE m1
  IN IF e.type = "big"
     THEN [m2 EXCEPT !.dirty[o] = UnblockSmallWrites(@, v)] ELSE m2

-----------------------------------------------------------------------------
(* Writes and deletes: enqueue_write, dequeue_write, dequeue_del,           *)
(* continue_write.                                                          *)

JE(type, o, v, e) == [type |-> type, o |-> o, v |-> v, loc |-> e.loc,
                      regs |-> e.regs, id |-> e.id, inst |-> e.inst]

(* What the object reads as after its newest version.                       *)
NewestWant(o) ==
  LET d == mem.dirty[o]
      id == IF DOMAIN d # {} THEN d[Max(DOMAIN d)].id ELSE mem.clean[o].id
  IN IF id = 0 THEN Zeroes ELSE wants[id]

InUse(o) == \/ DOMAIN mem.dirty[o] # {} \/ mem.clean[o].ver # 0
            \/ \E i \in DOMAIN journal : journal[i].o = o

(* OSDs do not modify an object while it is being rolled back, and execute  *)
(* its modifications one by one (SerialWrites); other clients may not.      *)
ClientMayModify(o) ==
  /\ Running
  /\ Len(wants) < MaxWrites
  /\ Cardinality({x \in Oids : InUse(x)} \union {o}) <= MaxObjects
  /\ \A t \in stabs : t.o # o
  /\ SerialWrites => \A v \in DOMAIN mem.dirty[o] : ~IsInFlight(mem.dirty[o][v])

AddDirty(o, v, e) == mem' = [mem EXCEPT !.dirty[o] = Put(@, v, e)]

EnqueueWrite(o, full, req) ==
  LET d == mem.dirty[o]
      found == DOMAIN d # {}
      prev == d[Max(DOMAIN d)]
      next == IF found THEN Max(DOMAIN d) + 1 ELSE mem.clean[o].ver + 1
      deleted == IF found THEN prev.type = "del" ELSE mem.clean[o].ver = 0
      low == req # 0 /\ req < next
      behind_del == found /\ (prev.wf = WAIT_DEL)
      wait_del == low \/ behind_del
      wait_big == found /\ (IF prev.type = "big" THEN ~IsSynced(prev)
                            ELSE prev.wf = WAIT_BIG)
      type == IF full \/ deleted THEN "big" ELSE "small"
      v == IF req = 0 \/ low THEN next ELSE req
      regs == IF full THEN Regions ELSE SmallRegion
      id == Len(wants) + 1
      entry == [type |-> type, loc |-> NoBlock, regs |-> regs, id |-> id,
                wf |-> IF wait_del THEN WAIT_DEL
                       ELSE IF type = "small" /\ wait_big THEN WAIT_BIG ELSE IN_FLIGHT,
                inst |-> o \in InstantOids, jpos |-> 0,
                real |-> IF low THEN req ELSE 0]
      base == IF deleted THEN Zeroes ELSE NewestWant(o)
      m1 == [mem EXCEPT !.dirty[o] = Put(@, v, entry)]
  IN /\ ClientMayModify(o)
     /\ v <= MaxVersion
     /\ low => deleted \/ behind_del                  \* otherwise -EEXIST
     \* a delete that is not synced yet is queued by the SYNC issued for it
     /\ mem' = IF low /\ found /\ IsSynced(prev)
               THEN EnqueueFlush(m1, o, next - 1) ELSE m1
     /\ wq' = Append(wq, <<o, v>>)
     /\ wants' = Append(wants, [r \in Regions |-> IF r \in regs THEN id ELSE base[r]])
     /\ UNCHANGED <<setup, unsynced, syncs, stabs, fl, journal, jdur, blk, meta, torn, crashes>>

EnqueueDelete(o) ==
  LET d == mem.dirty[o]
      found == DOMAIN d # {}
      v == IF found THEN Max(DOMAIN d) + 1 ELSE mem.clean[o].ver + 1
  IN /\ o \in DeletableOids
     /\ ClientMayModify(o)
     /\ v <= MaxVersion
     /\ IF found THEN d[Max(DOMAIN d)].type # "del" ELSE mem.clean[o].ver # 0
     /\ AddDirty(o, v, [type |-> "del", loc |-> NoBlock, regs |-> {},
                        id |-> Len(wants) + 1, wf |-> IN_FLIGHT, inst |-> FALSE,
                        jpos |-> 0, real |-> 0])
     /\ wq' = Append(wq, <<o, v>>)
     /\ wants' = Append(wants, Zeroes)
     /\ UNCHANGED <<setup, unsynced, syncs, stabs, fl, journal, jdur, blk, meta, torn, crashes>>

QueueHead == Head(wq)
HeadExists == wq # << >> /\ QueueHead[2] \in DOMAIN mem.dirty[QueueHead[1]]
HeadEntry == mem.dirty[QueueHead[1]][QueueHead[2]]

(* The low version that a write over a delete asked for is still taken.     *)
RealVersionTaken ==
  /\ HeadEntry.real # 0
  /\ \E u \in DOMAIN mem.dirty[QueueHead[1]] : u < QueueHead[2] /\ u >= HeadEntry.real
HeadVersion == IF HeadEntry.real # 0 THEN HeadEntry.real ELSE QueueHead[2]

(* Replace the queue head's entry, under its real version, by e.            *)
SubmitHead(e) ==
  [mem EXCEPT !.dirty[QueueHead[1]] =
     Put(Drop(@, {QueueHead[2]}), HeadVersion, [e EXCEPT !.wf = SUBMITTED, !.real = 0])]

ReadyHead(type) ==
  /\ HeadExists
  /\ HeadEntry.wf >= IN_FLIGHT
  /\ HeadEntry.type = type

DequeueBig(b) ==
  LET m1 == SubmitHead([HeadEntry EXCEPT !.loc = b])
  IN /\ Running
     /\ ReadyHead("big")
     /\ ~RealVersionTaken
     /\ b \in Blocks \ mem.alloc
     /\ mem' = [m1 EXCEPT
          !.alloc = @ \union {b},
          !.unstable_unsynced = IF HeadEntry.inst THEN @ ELSE @ + 1,
          !.big_unsynced = IF Immediate = "all" THEN @ ELSE @ + 1,
          !.fatal = @ \/ meta[b].cur # NoMeta]
     /\ blk' = [blk EXCEPT ![b] = [r \in Regions |->
          IF r \in HeadEntry.regs
          THEN [cur |-> HeadEntry.id, poss |-> @[r].poss \union {HeadEntry.id}] ELSE @[r]]]
     /\ wq' = Tail(wq)
     /\ UNCHANGED <<setup, unsynced, syncs, stabs, fl, journal, jdur, meta, wants, torn, crashes>>

(* cancel_all_writes: drop this write and every later one of the object.    *)
CancelWrites ==
  LET o == QueueHead[1]
  IN /\ Running
     /\ ReadyHead("big") \/ ReadyHead("small")
     /\ \/ RealVersionTaken                                      \* -EEXIST
        \/ /\ HeadEntry.type = "big"                             \* -ENOSPC
           /\ mem.alloc = Blocks /\ mem.big_to_flush = 0
     /\ mem' = [mem EXCEPT !.dirty[o] =
                  Drop(@, {u \in DOMAIN @ : u >= QueueHead[2]})]
     /\ wq' = Tail(wq)
     /\ UNCHANGED <<setup, unsynced, syncs, stabs, fl, journal, jdur, blk, meta, wants, torn, crashes>>

(* A cancelled request behind: dequeue_write asserts that its entry exists. *)
DequeueCancelled ==
  /\ Running
  /\ wq # << >> /\ ~HeadExists
  /\ mem' = [mem EXCEPT !.fatal = TRUE]
  /\ wq' = Tail(wq)
  /\ UNCHANGED <<setup, unsynced, syncs, stabs, fl, journal, jdur, blk, meta, wants, torn, crashes>>

DequeueJournaled ==
  LET e == HeadEntry
      m1 == SubmitHead([e EXCEPT !.jpos = Len(journal) + 1])
  IN /\ Running
     /\ ReadyHead("small") \/ ReadyHead("del")
     /\ ~RealVersionTaken
     /\ Len(journal) < MaxJournal
     /\ journal' = Append(journal, JE(e.type, QueueHead[1], HeadVersion, e))
     /\ mem' = [m1 EXCEPT !.unstable_unsynced = IF IsInstant(e) THEN @ ELSE @ + 1]
     /\ wq' = Tail(wq)
     /\ UNCHANGED <<setup, unsynced, syncs, stabs, fl, jdur, blk, meta, wants, torn, crashes>>

(* immediate_commit=all: the data write of a big write is done, journal it. *)
JournalBig(o, v) ==
  LET e == mem.dirty[o][v]
  IN /\ Running
     /\ v \in DOMAIN mem.dirty[o]
     /\ Immediate = "all"
     /\ e.type = "big" /\ e.wf = SUBMITTED /\ e.jpos = 0
     /\ Len(journal) < MaxJournal
     /\ journal' = Append(journal, JE("big", o, v, e))
     /\ mem' = [mem EXCEPT !.dirty[o][v].jpos = Len(journal) + 1]
     /\ blk' = [blk EXCEPT ![e.loc] = [r \in Regions |->
                  [cur |-> @[r].cur, poss |-> {@[r].cur}]]]
     /\ UNCHANGED <<setup, wq, unsynced, syncs, stabs, fl, jdur, meta, wants, torn, crashes>>

(* The writes of the version's journal entry and data have ended.           *)
WriteDone(o, v) ==
  LET e == mem.dirty[o][v]
  IN /\ Running
     /\ v \in DOMAIN mem.dirty[o]
     /\ e.wf = SUBMITTED
     /\ IF ImmFor(e.type)
        THEN /\ e.jpos > 0
             /\ jdur' = jdur \union {e.jpos}
             /\ mem' = AckSynced(mem, o, v)
             /\ UNCHANGED unsynced
        ELSE /\ mem' = [mem EXCEPT !.dirty[o][v].wf = WRITTEN]
             /\ unsynced' = IF e.type = "big"
                  THEN [unsynced EXCEPT !.big = Append(@, <<o, v>>)]
                  ELSE [unsynced EXCEPT !.small = Append(@, <<o, v>>)]
             /\ UNCHANGED jdur
     /\ UNCHANGED <<setup, wq, syncs, stabs, fl, journal, blk, meta, wants, torn, crashes>>

-----------------------------------------------------------------------------
(* SYNC: continue_sync, ack_sync, and the selective sync of split_stab_op.  *)

(* Blocks whose data write has been submitted and has not ended.            *)
BlocksInFlight ==
  {mem.dirty[o][v].loc : <<o, v>> \in
     {p \in Oids \X (1..MaxVersion) : /\ p[2] \in DOMAIN mem.dirty[p[1]]
                                      /\ mem.dirty[p[1]][p[2]].wf = SUBMITTED}}

MutNoFsync == blk
FsyncData ==
  [b \in Blocks |-> IF b \in BlocksInFlight THEN blk[b]
     ELSE [r \in Regions |-> [cur |-> blk[b][r].cur, poss |-> {blk[b][r].cur}]]]

(* What an fsync of the journal makes durable: the entries and data whose   *)
(* writes have ended.                                                       *)
FsyncJournal ==
  LET sent == {p \in Oids \X (1..MaxVersion) : /\ p[2] \in DOMAIN mem.dirty[p[1]]
                                               /\ mem.dirty[p[1]][p[2]].wf = SUBMITTED}
      journaled == UNION {ToSet(s.big) : s \in {x \in syncs : x.pc = "journal_sent"}}
  IN jdur \union ((1..Len(journal)) \
       ({mem.dirty[p[1]][p[2]].jpos : p \in sent \union journaled} \union {t.upto : t \in stabs}))

(* A SYNC of small writes only has nothing to write when the sector they    *)
(* are in is being written for somebody else, and does not wait for that.   *)
StartSync(big, small) ==
  LET busy == stabs # {} \/ \E s \in syncs : s.pc = "journal_sent"
  IN /\ Running
     /\ Cardinality(syncs) < MaxSyncs
     /\ Immediate # "all"
     /\ big # << >> \/ small # << >>
     /\ syncs' = syncs \union
          {[pc |-> IF big # << >> THEN "has_big" ELSE "journal_sent",
            big |-> big, small |-> small, skips |-> big = << >> /\ busy]}
     /\ mem' = [mem EXCEPT !.big_unsynced = @ - Len(big)]
     /\ UNCHANGED <<setup, wq, stabs, fl, journal, jdur, blk, meta, wants, torn, crashes>>

MutKeepUnsynced ==
  /\ StartSync(unsynced.big, unsynced.small)
  /\ UNCHANGED unsynced
SyncStart ==
  /\ StartSync(unsynced.big, unsynced.small)
  /\ unsynced' = [big |-> << >>, small |-> << >>]

(* The versions a STABLE of v looks at, from v down to the last stable one. *)
StableScan(d, v) ==
  {u \in DOMAIN d : /\ u <= v
                    /\ \A x \in DOMAIN d : u < x /\ x <= v => ~IsStable(d[x])}

(* check_unsynced(): the unsynced writes of the object up to version v,     *)
(* which a selective SYNC takes out of the list.                            *)
CheckUnsynced(list, o, v) ==
  LET Mine(p) == p[1] = o /\ p[2] <= v
  IN SelectSeq(list, Mine)

(* STABLE first syncs the written versions of its object.                   *)
SelectiveSync(o, v) ==
  LET d == mem.dirty[o]
      Other(p) == ~(p[1] = o /\ p[2] <= v)
      pending == {u \in StableScan(d, v) : ~IsSynced(d[u])}
  IN /\ v \in DOMAIN d
     /\ pending # {} /\ d[Max(pending)].wf = WRITTEN
     /\ StartSync(CheckUnsynced(unsynced.big, o, v), CheckUnsynced(unsynced.small, o, v))
     /\ unsynced' = [big |-> SelectSeq(unsynced.big, Other),
                     small |-> SelectSeq(unsynced.small, Other)]

SyncData(s) ==
  /\ Running
  /\ s.pc = "has_big"
  /\ blk' = FsyncData
  /\ syncs' = (syncs \ {s}) \union {[s EXCEPT !.pc = "data_done"]}
  /\ UNCHANGED <<setup, mem, wq, unsynced, stabs, fl, journal, jdur, meta, wants, torn, crashes>>

SyncJournal(s) ==
  LET n == Len(s.big)
      Entry(i) == mem.dirty[s.big[i][1]][s.big[i][2]]
      Journaled(o, v) == \E i \in 1..n : s.big[i] = <<o, v>>
      pos(o, v) == CHOOSE i \in 1..n : s.big[i] = <<o, v>>
  IN /\ Running
     /\ s.pc = "data_done"
     /\ Len(journal) + n <= MaxJournal
     /\ journal' = journal \o [i \in 1..n |-> JE("big", s.big[i][1], s.big[i][2], Entry(i))]
     /\ mem' = [mem EXCEPT !.dirty = [o \in Oids |-> [v \in DOMAIN @[o] |->
                  IF Journaled(o, v)
                  THEN [@[o][v] EXCEPT !.jpos = Len(journal) + pos(o, v)] ELSE @[o][v]]]]
     /\ syncs' = (syncs \ {s}) \union {[s EXCEPT !.pc = "journal_sent"]}
     /\ UNCHANGED <<setup, wq, unsynced, stabs, fl, jdur, blk, meta, wants, torn, crashes>>

(* The entries of the SYNC are durable, earlier ones that are still being   *)
(* written need not be.                                                     *)
AckSync(s) ==
  LET Ack(m, p) == AckSynced(m, p[1], p[2])
      pos == {mem.dirty[p[1]][p[2]].jpos : p \in ToSet(s.big \o s.small)} \ {0}
      synced == IF Immediate = "none" THEN FsyncJournal ELSE jdur
  IN /\ Running
     /\ s.pc = "journal_sent"
     /\ jdur' \in {synced \union pos} \union (IF s.skips THEN {jdur} ELSE {})
     /\ mem' = FoldLeft(Ack, mem, s.big \o s.small)
     /\ syncs' = syncs \ {s}
     /\ UNCHANGED <<setup, wq, unsynced, stabs, fl, journal, blk, meta, wants, torn, crashes>>

-----------------------------------------------------------------------------
(* STABLE and ROLLBACK of one object version.                               *)

StartStab(type, o, v) ==
  /\ Running
  /\ Cardinality(stabs) < MaxStabs
  /\ Len(journal) < MaxJournal
  /\ journal' = Append(journal, [type |-> type, o |-> o, v |-> v, loc |-> NoBlock,
                                 regs |-> {}, id |-> 0, inst |-> FALSE])
  /\ stabs' = stabs \union {[type |-> type, o |-> o, v |-> v, upto |-> Len(journal) + 1]}
  /\ UNCHANGED <<setup, mem, wq, unsynced, syncs, fl, jdur, blk, meta, wants, torn, crashes>>

(* Every version from v down to the last stable one must be synced.         *)
DequeueStable(o, v) ==
  LET d == mem.dirty[o]
  IN /\ v \in DOMAIN d /\ ~IsStable(d[v])
     /\ \A u \in StableScan(d, v) : IsSynced(d[u])
     /\ StartStab("stable", o, v)

(* Everything above v must be synced and unstable.  OSDs roll back objects  *)
(* of erasure-coded pools only.                                             *)
DequeueRollback(o, v) ==
  LET d == mem.dirty[o]
  IN /\ o \notin InstantOids
     /\ DOMAIN d # {} /\ v <= Max(DOMAIN d)
     /\ \A u \in DOMAIN d : u > v => d[u].wf = SYNCED
     /\ StartStab("rollback", o, v)

(* The sector with its entry is written; what entries before it wait for    *)
(* may not be.                                                              *)
AckStab(t) ==
  /\ Running
  /\ jdur' = (IF Immediate = "none" THEN FsyncJournal ELSE jdur) \union ({t.upto} \ {0})
  /\ mem' = IF t.type = "stable" THEN MarkStable(mem, t.o, t.v, FALSE)
            ELSE MarkRolledBack(mem, t.o, t.v)
  /\ stabs' = stabs \ {t}
  /\ UNCHANGED <<setup, wq, unsynced, syncs, fl, journal, blk, meta, wants, torn, crashes>>

-----------------------------------------------------------------------------
(* The flusher: one coroutine of journal_flusher_co::loop.                  *)

WriteMeta(mt, b, entry) ==
  [mt EXCEPT ![b] = [cur |-> entry, poss |-> @.poss \union {entry}]]

(* Versions whose journaled data is copied: those above the last big write. *)
CopiedVersions(d, S, bases) == {u \in S : \A x \in bases : u > x}

(* scan_dirty: what the flush of versions up to v has to do.                *)
FlushPlan(o, v) ==
  LET d == mem.dirty[o]
      S == {u \in DOMAIN d : u <= v}
      bases == {u \in S : d[u].type # "small"}
      copies == CopiedVersions(d, S, bases)
      isDel == bases # {} /\ d[Max(bases)].type = "del"
      big == IF bases # {} /\ ~isDel THEN d[Max(bases)]
             ELSE [loc |-> NoBlock, regs |-> {}]
      old == mem.clean[o]
  IN [pc |-> IF copies # {} THEN "copy" ELSE "meta",
      o |-> o, v |-> v, del |-> isDel, copies |-> copies,
      nothing |-> isDel /\ old.loc = NoBlock,
      loc |-> IF big.loc # NoBlock THEN big.loc ELSE old.loc,
      old |-> old.loc,
      bmp |-> (IF big.loc # NoBlock THEN big.regs ELSE old.bmp)
                \union UNION {d[u].regs : u \in copies},
      fatal |-> \/ \E u \in S : ~IsStable(d[u])
                \/ isDel /\ copies # {}
                \/ ~isDel /\ big.loc = NoBlock /\ old.loc = NoBlock]

(* A version whose journal sector is still written to is not flushed yet:   *)
(* it stays queued and an older version of the object is tried.             *)
FlushBegin(o, v) ==
  LET d == mem.dirty[o]
      top == mem.flush[o]
      p == FlushPlan(o, v)
      m1 == IF v = top THEN [mem EXCEPT !.flush[o] = 0] ELSE mem
      S == {u \in DOMAIN d : u <= v}
  IN /\ Running
     /\ fl.pc = "idle"
     /\ top # 0
     /\ v # top => top \in DOMAIN d /\ v \in DOMAIN d /\ v < top /\ d[v].jpos < d[top].jpos
     /\ IF v \notin DOMAIN d THEN mem' = m1 /\ UNCHANGED fl
        ELSE IF p.fatal THEN mem' = [m1 EXCEPT !.fatal = TRUE] /\ UNCHANGED fl
        ELSE IF p.nothing THEN mem' = EraseDirty(m1, o, S, NoBlock) /\ UNCHANGED fl
        ELSE mem' = m1 /\ fl' = p
     /\ UNCHANGED <<setup, wq, unsynced, syncs, stabs, journal, jdur, blk, meta, wants, torn, crashes>>

(* read_dirty(): the journaled data to be copied into region r, that of the *)
(* newest write covering it; 0 when no write does.                          *)
ReadDirty(r) ==
  LET d == mem.dirty[fl.o]
      over == {u \in fl.copies : r \in d[u].regs}
  IN IF over = {} THEN 0 ELSE d[Max(over)].id

(* Copy the journaled data over the object's block.                         *)
FlushCopy ==
  /\ Running
  /\ fl.pc = "copy"
  /\ blk' = [blk EXCEPT ![fl.loc] = [r \in Regions |->
       IF ReadDirty(r) = 0 THEN @[r]
       ELSE [cur |-> ReadDirty(r), poss |-> @[r].poss \union {ReadDirty(r)}]]]
  /\ fl' = [fl EXCEPT !.pc = "data_sync"]
  /\ UNCHANGED <<setup, mem, wq, unsynced, syncs, stabs, journal, jdur, meta, wants, torn, crashes>>

FlushDataSync ==
  /\ Running
  /\ fl.pc = "data_sync"
  /\ blk' = FsyncData
  /\ fl' = [fl EXCEPT !.pc = "meta"]
  /\ UNCHANGED <<setup, mem, wq, unsynced, syncs, stabs, journal, jdur, meta, wants, torn, crashes>>

MutNeverMoved == FALSE
Moved == fl.old # NoBlock /\ fl.old # fl.loc

(* The object moves to another block: zero the old metadata entry first.    *)
FlushMetaOld ==
  /\ Running
  /\ fl.pc = "meta" /\ Moved
  /\ meta' = WriteMeta(meta, fl.old, NoMeta)
  /\ mem' = [mem EXCEPT !.fatal = @ \/ meta[fl.old].cur.o \notin {NoOid, fl.o}]
  /\ fl' = [fl EXCEPT !.pc = "meta_new"]
  /\ UNCHANGED <<setup, wq, unsynced, syncs, stabs, journal, jdur, blk, wants, torn, crashes>>

(* update_metadata_entry and update_clean_db.                               *)
FlushMetaNew ==
  LET id == mem.dirty[fl.o][fl.v].id
  IN /\ Running
     /\ fl.pc \in {"meta", "meta_new"}
     /\ fl.pc = "meta" => ~Moved
     /\ meta' = WriteMeta(meta, fl.loc,
                  IF fl.del THEN NoMeta
                  ELSE [o |-> fl.o, ver |-> fl.v, bmp |-> fl.bmp, id |-> id])
     /\ mem' = [mem EXCEPT
          !.clean[fl.o] = IF fl.del THEN NoClean
             ELSE [ver |-> fl.v, loc |-> fl.loc, bmp |-> fl.bmp, id |-> id],
          !.fatal = @ \/ meta[fl.loc].cur.o \notin {NoOid, fl.o}]
     /\ fl' = [fl EXCEPT !.pc = "meta_sync"]
     /\ UNCHANGED <<setup, wq, unsynced, syncs, stabs, journal, jdur, blk, wants, torn, crashes>>

(* Blocks the flush leaves: the old one of a moved object, a deleted one.   *)
FreedByFlush == IF fl.old # fl.loc \/ fl.del THEN {fl.old} ELSE {}

(* Metadata is on the media: free the old block and forget dirty versions.  *)
FlushEnd ==
  LET S == {u \in DOMAIN mem.dirty[fl.o] : u <= fl.v}
  IN /\ Running
     /\ fl.pc = "meta_sync"
     /\ meta' = [b \in Blocks |-> [cur |-> meta[b].cur, poss |-> {meta[b].cur}]]
     /\ mem' = EraseDirty([mem EXCEPT !.alloc = @ \ FreedByFlush], fl.o, S, fl.loc)
     /\ fl' = Idle
     /\ UNCHANGED <<setup, wq, unsynced, syncs, stabs, journal, jdur, blk, wants, torn, crashes>>

-----------------------------------------------------------------------------
(* trim_journal: forget the journal up to the first entry still in use.     *)

UsedPositions == {mem.dirty[p[1]][p[2]].jpos : p \in
                    {q \in Oids \X (1..MaxVersion) : q[2] \in DOMAIN mem.dirty[q[1]]}} \ {0}

MutTrimPast == IF UsedPositions = {} THEN Len(journal) + 1 ELSE Min(UsedPositions) + 1
TrimPos == IF UsedPositions = {} THEN Len(journal) + 1 ELSE Min(UsedPositions)

(* The new start is in the superblock; positions are counted from it.       *)
TrimJournal ==
  LET n == TrimPos - 1
      Shift(p) == IF p > n THEN p - n ELSE 0
  IN /\ Running
     /\ n > 0
     /\ journal' = SubSeq(journal, TrimPos, Len(journal))
     /\ jdur' = {p - n : p \in jdur \ (1..n)}
     /\ mem' = [mem EXCEPT !.dirty = [o \in Oids |-> [v \in DOMAIN @[o] |->
                  [@[o][v] EXCEPT !.jpos = Shift(@)]]]]
     /\ stabs' = {[t EXCEPT !.upto = Shift(@)] : t \in stabs}
     /\ UNCHANGED <<setup, wq, unsynced, syncs, fl, blk, meta, wants, torn, crashes>>

-----------------------------------------------------------------------------
(* Restart: blockstore_init_meta and blockstore_init_journal.               *)

(* handle_meta_block: the highest version of an object wins.                *)
LoadMeta(disk) ==
  LET Copies(o) == {b \in Blocks : disk[b].o = o}
      Best(o) == CHOOSE b \in Copies(o) : \A c \in Copies(o) : disk[c].ver <= disk[b].ver
      live == {o \in Oids : Copies(o) # {}}
  IN [MemInit EXCEPT
       !.clean = [o \in Oids |-> IF o \notin live THEN NoClean
          ELSE [ver |-> disk[Best(o)].ver, loc |-> Best(o),
                bmp |-> disk[Best(o)].bmp, id |-> disk[Best(o)].id]],
       !.alloc = {Best(o) : o \in live},
       !.used_blocks = Cardinality(live)]

(* erase_dirty_object: forget the dirty versions, keep the clean one.       *)
EraseDirtyObject(m, o) ==
  LET d == m.dirty[o]
      exists == d[Max(DOMAIN d)].type # "del"
      m1 == EraseDirty(m, o, DOMAIN d, m.clean[o].loc)
  IN [m1 EXCEPT !.used_blocks = IF exists /\ m.clean[o].ver = 0 THEN @ - 1 ELSE @,
                !.flush[o] = 0]

(* The metadata already holds this version: its entry is skipped.           *)
AlreadyFlushed(m, je) == m.clean[je.o].ver >= je.v

ReplayWrite(m, je, pos) ==
  LET dup == je.type = "big" /\ je.loc \in m.alloc
      entry == [type |-> je.type, loc |-> IF dup THEN NoBlock ELSE je.loc,
                regs |-> je.regs, id |-> je.id, wf |-> SYNCED, inst |-> FALSE,
                jpos |-> pos, real |-> 0]
      m1 == [m EXCEPT !.dirty[je.o] = Emplace(@, je.v, entry),
                      !.alloc = IF je.type = "big" THEN @ \union {je.loc} ELSE @,
                      !.unstable[je.o] = Greater(@, je.v)]
  IN IF AlreadyFlushed(m, je) THEN m
     ELSE IF je.inst THEN MarkStable(m1, je.o, je.v, TRUE) ELSE m1

ReplayBig(m, je, pos) ==
  LET d == m.dirty[je.o]
      overDelete == /\ DOMAIN d # {}
                    /\ Max(DOMAIN d) >= je.v
                    /\ d[Max(DOMAIN d)].type = "del"
  IN ReplayWrite(IF overDelete THEN EraseDirtyObject(m, je.o) ELSE m, je, pos)

ReplayDelete(m, je, pos) ==
  LET dirty_exists == DOMAIN m.dirty[je.o] # {}
      clean_exists == m.clean[je.o].ver \in 1..(je.v - 1)
      entry == [type |-> "del", loc |-> NoBlock, regs |-> {}, id |-> je.id,
                wf |-> SYNCED, inst |-> FALSE, jpos |-> pos, real |-> 0]
  IN IF clean_exists
     THEN MarkStable([m EXCEPT !.dirty[je.o] = Emplace(@, je.v, entry)], je.o, je.v, TRUE)
     ELSE IF dirty_exists THEN EraseDirtyObject(m, je.o)
     ELSE m

(* handle_journal_part, one entry.                                          *)
ReplayEntry(m, je, pos) ==
  CASE je.type = "small" -> ReplayWrite(m, je, pos)
    [] je.type = "big" -> ReplayBig(m, je, pos)
    [] je.type = "stable" -> MarkStable(m, je.o, je.v, TRUE)
    [] je.type = "rollback" -> MarkRolledBack(m, je.o, je.v)
    [] je.type = "del" -> ReplayDelete(m, je, pos)

(* A big write over a block of another object must not outlive the replay.  *)
DoubleAlloc(m) ==
  \E o \in Oids : \E v \in DOMAIN m.dirty[o] :
    m.dirty[o][v].type = "big" /\ m.dirty[o][v].loc = NoBlock

Recover(disk, j) ==
  LET Step(m, i) == ReplayEntry(m, j[i], i)
      m == FoldLeftDomain(Step, LoadMeta(disk), j)
  IN [m EXCEPT !.fatal = @ \/ DoubleAlloc(m)]

(* The in-memory copy of the metadata after a restart: superseded copies    *)
(* are zeroed in memory (inmemory_metadata), not on the disk.               *)
LoadedMeta(disk) ==
  LET keep == {LoadMeta(disk).clean[o].loc : o \in Oids}
  IN [b \in Blocks |-> [cur |-> IF b \in keep THEN disk[b] ELSE NoMeta,
                        poss |-> {disk[b]}]]

(* Small version w survives the crash and the big version below it does not. *)
TornBy(o, len) ==
  \E w \in DOMAIN mem.dirty[o] :
    LET d == mem.dirty[o]
        bases == {u \in DOMAIN d : u < w /\ d[u].type # "small"}
    IN /\ d[w].type = "small" /\ d[w].jpos \in 1..len
       /\ bases # {}
       /\ d[Max(bases)].wf = WRITTEN /\ d[Max(bases)].jpos \notin 1..len

(* The objects of answered requests whose entries replay does not reach     *)
(* when it ends after len entries: an earlier one was still being written,  *)
(* or a SYNC has passed over the sector that was written for somebody else. *)
LostAnswers(len) ==
  {journal[p].o : p \in jdur \ (1..len)} \union
  {o \in Oids : \E v \in DOMAIN mem.dirty[o] : IsSynced(mem.dirty[o][v]) /\ mem.dirty[o][v].jpos > len}

(* Power failure and restart: replay stops at the first entry that is not   *)
(* there or whose data is not, after len entries; disk and data of the      *)
(* metadata and data areas survive.                                         *)
Crash(len, disk, data) ==
  LET j == SubSeq(journal, 1, len)
  IN /\ Running
     /\ crashes < MaxCrashes
     /\ crashes' = crashes + 1
     /\ mem' = Recover(disk, j)
     /\ journal' = j
     /\ jdur' = 1..len
     /\ meta' = LoadedMeta(disk)
     /\ blk' = [b \in Blocks |-> [r \in Regions |->
                  [cur |-> data[<<b, r>>], poss |-> {data[<<b, r>>]}]]]
     /\ wq' = << >>
     /\ unsynced' = [big |-> << >>, small |-> << >>]
     /\ syncs' = {} /\ stabs' = {} /\ fl' = Idle
     /\ torn' = torn \union {o \in Oids : TornBy(o, len)}
                      \union (IF LostAnswers(len) = {} THEN {} ELSE Oids \union {NoOid})
     /\ UNCHANGED <<setup, wants>>

(* All ways to choose one possible content for every uncertain place.       *)
Outcomes(poss) ==
  LET unsure == {x \in DOMAIN poss : Cardinality(poss[x]) > 1}
      picks == {f \in [unsure -> UNION {poss[x] : x \in unsure}] :
                  \A x \in unsure : f[x] \in poss[x]}
  IN {[x \in DOMAIN poss |-> IF x \in unsure THEN f[x]
                             ELSE CHOOSE c \in poss[x] : TRUE] : f \in picks}

SurvivingMeta == Outcomes([b \in Blocks |-> meta[b].poss])
SurvivingData == Outcomes([p \in Blocks \X Regions |-> blk[p[1]][p[2]].poss])

-----------------------------------------------------------------------------
Init ==
  /\ setup \in Setups
  /\ mem = MemInit
  /\ wq = << >> /\ unsynced = [big |-> << >>, small |-> << >>]
  /\ syncs = {} /\ stabs = {} /\ fl = Idle
  /\ journal = << >> /\ jdur = {}
  /\ blk = [b \in Blocks |-> [r \in Regions |-> [cur |-> 0, poss |-> {0}]]]
  /\ meta = [b \in Blocks |-> [cur |-> NoMeta, poss |-> {NoMeta}]]
  /\ wants = << >> /\ torn = {} /\ crashes = 0

Writes ==
  \/ \E o \in Oids, full \in BOOLEAN, req \in ReqVersions : EnqueueWrite(o, full, req)
  \/ \E o \in Oids : EnqueueDelete(o)
  \/ \E b \in Blocks : DequeueBig(b)
  \/ CancelWrites \/ DequeueCancelled \/ DequeueJournaled
  \/ \E o \in Oids, v \in 1..MaxVersion : JournalBig(o, v) \/ WriteDone(o, v)

Syncs ==
  \/ SyncStart
  \/ \E s \in syncs : SyncData(s) \/ SyncJournal(s) \/ AckSync(s)
  \/ \E o \in Oids, v \in 1..MaxVersion : SelectiveSync(o, v)

Stabs ==
  \/ \E o \in Oids, v \in 1..MaxVersion : DequeueStable(o, v)
  \/ \E o \in Oids, v \in 0..MaxVersion : DequeueRollback(o, v)
  \/ \E t \in stabs : AckStab(t)

Flush ==
  \/ \E o \in Oids, v \in 1..MaxVersion : FlushBegin(o, v)
  \/ FlushCopy \/ FlushDataSync \/ FlushMetaOld \/ FlushMetaNew \/ FlushEnd
  \/ TrimJournal

Restart ==
  \E len \in {n \in 0..Len(journal) : n + 1 \notin jdur}, disk \in SurvivingMeta, data \in SurvivingData :
    Crash(len, disk, data)

Next == Writes \/ Syncs \/ Stabs \/ Flush \/ Restart

Spec == Init /\ [][Next]_vars

-----------------------------------------------------------------------------
(* Properties.                                                              *)

DirtyKeys == {p \in Oids \X (1..MaxVersion) : p[2] \in DOMAIN mem.dirty[p[1]]}
At(p) == mem.dirty[p[1]][p[2]]

(* fulfill_read(): the writes of `over` that can serve region r. The newest *)
(* fills the hole, the older ones find it filled.                           *)
Fulfilling(d, over, r) == {u \in over : r \in d[u].regs}

(* fulfill_clean_read(): region r of block b where the bitmap has it,       *)
(* zeroes elsewhere.                                                        *)
CleanRead(b, bmp, r) == IF r \in bmp THEN blk[b][r].cur ELSE 0

(* What dequeue_read returns for the object at version v: the newest        *)
(* finished write of each region down to the newest big write or delete,    *)
(* then the block of the big write or the clean block.                      *)
ReadObject(o, v) ==
  LET d == mem.dirty[o]
      ok == {u \in DOMAIN d : ~IsInFlight(d[u]) /\ u <= v}
      bases == {u \in ok : d[u].type # "small"}
      over == {u \in ok : \A x \in bases : u > x}
      base == d[Max(bases)]
      clean == mem.clean[o]
  IN [r \in Regions |->
       IF Fulfilling(d, over, r) # {} THEN d[Max(Fulfilling(d, over, r))].id
       ELSE IF bases = {} THEN CleanRead(clean.loc, clean.bmp, r)
       ELSE IF base.type = "del" THEN 0
       ELSE CleanRead(base.loc, base.regs, r)]

EntryType == [type : {"big", "small", "del"}, loc : Blocks \union {NoBlock},
              regs : SUBSET Regions, id : 1..MaxWrites, wf : WAIT_DEL..STABLE,
              inst : BOOLEAN, jpos : 0..MaxJournal, real : 0..MaxVersion]
MetaType == [o : Oids \union {NoOid}, ver : 0..MaxVersion,
             bmp : SUBSET Regions, id : 0..MaxWrites]
QueueType == Seq(Oids \X (1..MaxVersion))

(* The types of the variables; the counters never go below zero.            *)
TypeOK ==
  /\ \A o \in Oids : /\ DOMAIN mem.dirty[o] \subseteq 1..MaxVersion
                     /\ \A v \in DOMAIN mem.dirty[o] : mem.dirty[o][v] \in EntryType
  /\ mem.clean \in [Oids -> [ver : 0..MaxVersion, loc : Blocks \union {NoBlock},
                             bmp : SUBSET Regions, id : 0..MaxWrites]]
  /\ mem.alloc \subseteq Blocks
  /\ mem.unstable \in [Oids -> 0..MaxVersion]
  /\ mem.flush \in [Oids -> 0..MaxVersion]
  /\ {mem.unstable_unsynced, mem.big_unsynced, mem.big_to_flush} \subseteq Nat
  /\ mem.used_blocks \in Int
  /\ mem.fatal \in BOOLEAN
  /\ wq \in QueueType /\ unsynced.big \in QueueType /\ unsynced.small \in QueueType
  /\ Len(journal) <= MaxJournal /\ jdur \subseteq 1..Len(journal)
  /\ \A b \in Blocks : \A r \in Regions : blk[b][r].cur \in blk[b][r].poss
  /\ \A b \in Blocks : meta[b].cur \in MetaType /\ meta[b].poss \subseteq MetaType
  /\ wants \in Seq([Regions -> 0..MaxWrites])
  /\ crashes \in 0..MaxCrashes

(* No assertion fails, no "BUG" exception is thrown, and a restart never     *)
(* refuses its journal.  (A client that writes an object again before its    *)
(* first write ended may: cancel_all_writes leaves a queued write without   *)
(* the dirty entry that dequeue_write asserts.  OSDs never do that.  And a  *)
(* restart may that loses answered requests, see LostAnswers.)              *)
NoFatalError == SerialWrites /\ NoOid \notin torn => ~mem.fatal

(* A block of the data device has one owner, and exactly the owned blocks   *)
(* and the one the flusher is about to free are allocated.                  *)
BlocksExclusive ==
  LET owning == {p \in DirtyKeys : OwnsBlock(At(p))}
      cleanLocs == {mem.clean[o].loc : o \in Oids} \ {NoBlock}
      old == IF fl.pc = "idle" THEN {} ELSE {fl.old} \ {NoBlock}
  IN /\ \A p, q \in owning : At(p).loc = At(q).loc => p = q
     /\ \A p \in owning : \A o \in Oids : mem.clean[o].loc = At(p).loc => o = p[1]
     /\ \A o1, o2 \in Oids : /\ o1 # o2
                             /\ mem.clean[o1].loc # NoBlock
                             => mem.clean[o1].loc # mem.clean[o2].loc
     /\ mem.alloc = {At(p).loc : p \in owning} \union cleanLocs \union old

StableVersions(m, o) == {v \in DOMAIN m.dirty[o] : IsStable(m.dirty[o][v])}
StableVersion(m, o) == IF StableVersions(m, o) # {} THEN Max(StableVersions(m, o))
                       ELSE m.clean[o].ver

(* A read of the newest stable version or of any newer finished version     *)
(* returns what the writes up to it left, flushing and replay included.     *)
ReadsCorrect ==
  \A o \in Oids \ torn :
    LET d == mem.dirty[o]
        Finished(v) == \A u \in DOMAIN d : u <= v => ~IsInFlight(d[u])
    IN /\ \A v \in DOMAIN d : v >= StableVersion(mem, o) /\ Finished(v)
             => ReadObject(o, v) = wants[d[v].id]
       /\ DOMAIN d = {} /\ mem.clean[o].ver # 0
             => ReadObject(o, MaxVersion) = wants[mem.clean[o].id]

(* What the lists say of the versions, after any mix of SYNC, STABLE,       *)
(* ROLLBACK, flushing and restarts: the counters that size the journal      *)
(* reservation and hold back writes are exact, and unstable_writes names    *)
(* the newest durable version that is not stable, so that the OSD learns of *)
(* every version it has to stabilize or roll back.                          *)
ListsExact ==
  /\ mem.unstable_unsynced = Cardinality({p \in DirtyKeys :
        ~IsInstant(At(p)) /\ At(p).wf \in {SUBMITTED, WRITTEN}})
  /\ mem.big_unsynced = Len(unsynced.big) + (IF Immediate = "all" THEN 0
        ELSE Cardinality({p \in DirtyKeys : At(p).type = "big" /\ At(p).wf = SUBMITTED}))
  /\ mem.big_to_flush = Cardinality({p \in DirtyKeys :
        At(p).type \in {"big", "del"} /\ IsStable(At(p))})
  /\ \A o \in Oids :
       LET d == mem.dirty[o]
           U == {v \in DOMAIN d : d[v].wf = SYNCED}
           top == mem.unstable[o]
       IN /\ U # {} => top = Max(U)
          /\ top # 0 => top \in DOMAIN d /\ ~IsStable(d[top])

(* A small write enters the journal only when the big write it lies on is   *)
(* there: "DEL [FLUSH] BIG [SYNC] SMALL SMALL" (enqueue_write).             *)
BigJournaledFirst ==
  \A p \in DirtyKeys :
    LET d == mem.dirty[p[1]]
        bigs == {u \in DOMAIN d : u < p[2] /\ d[u].type = "big"}
    IN At(p).type = "small" /\ At(p).wf >= SUBMITTED /\ bigs # {}
         => IsSynced(d[Max(bigs)])

StableId(m, o) ==
  LET S == StableVersions(m, o)
  IN IF S = {} THEN m.clean[o].id
     ELSE IF m.dirty[o][Max(S)].type = "del" THEN 0 ELSE m.dirty[o][Max(S)].id

(* A restart keeps the newest stable version of every object, or has moved  *)
(* it forward to a version whose own write or STABLE was under way; it      *)
(* keeps the durable unstable versions unless a ROLLBACK of them was.       *)
(* Nothing is promised of the objects of LostAnswers: a write, STABLE or    *)
(* SYNC of theirs was answered while an earlier small write was in flight,  *)
(* and replay ends there.                                                   *)
CrashKeeps ==
  [][crashes' # crashes =>
      \A o \in Oids \ LostAnswers(Len(journal')) :
        LET d == mem.dirty[o]
            newer == {v \in DOMAIN d : v > StableVersion(mem, o)}
            Stabilized(v) == \E t \in stabs : t.type = "stable" /\ t.o = o /\ v <= t.v
            RolledBack(v) == \E t \in stabs : t.type = "rollback" /\ t.o = o /\ v > t.v
            MayBeStable(v) == d[v].jpos > 0 /\ (IsInstant(d[v]) \/ Stabilized(v))
            MayBeLost(v) == \/ ~IsSynced(d[v])
                            \/ RolledBack(v)
                            \/ \E x \in newer : x > v /\ d[x].type = "del" /\ d[x].jpos > 0
        IN /\ StableId(mem', o) \in {StableId(mem, o)} \union
                {IF d[v].type = "del" THEN 0 ELSE d[v].id : v \in {u \in newer : MayBeStable(u)}}
           /\ \A v \in newer : \/ MayBeLost(v)
                               \/ d[v].type = "del" /\ StableId(mem', o) = 0
                               \/ v <= StableVersion(mem', o)
                               \/ v \in DOMAIN mem'.dirty[o] /\ mem'.dirty[o][v].id = d[v].id]_vars

=============================================================================
