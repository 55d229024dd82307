----------------------------- MODULE JournalRing -----------------------------
(***************************************************************************)
(* The space of the blockstore's journal (src/src/blockstore, journal_t).  *)
(* The journal is a ring of blocks: block 0 is its "superblock", the rest  *)
(* holds sectors with entries and, between them, the data of small writes. *)
(* Writers append at next_free and leave some blocks behind for STABLEs    *)
(* and ROLLBACKs; the flusher releases entries in any order and moves      *)
(* used_start forward, the superblock first.                               *)
(*                                                                         *)
(* Positions and lengths are counted in journal blocks; a request adds one *)
(* entry.  Sector buffers in memory are never exhausted.                   *)
(***************************************************************************)
EXTENDS Integers, FiniteSets

CONSTANTS
  Ids,        \* journal entries that are alive at the same time
  JLen,       \* journal.len, blocks
  PerSector,  \* entries that fit into one sector
  DataLens,   \* lengths of small writes; 0 for big writes and deletes
  MaxReserve  \* bound: blocks left behind for STABLEs and ROLLBACKs

ASSUME RingAssumption ==
  /\ IsFiniteSet(Ids)
  /\ JLen \in Nat /\ JLen >= 3
  /\ PerSector \in Nat \ {0}
  /\ DataLens \subseteq Nat
  /\ MaxReserve \in Nat

VARIABLES
  next_free,   \* next free block
  used_start,  \* first occupied block
  cur,         \* offset of the sector entries are added to
  room,        \* how many more entries fit into it, 0 when it is closed
  ent,         \* the entries dirty_db refers to, and their STABLEs
  trim,        \* new_trim_pos while the superblock is written, 0 = no trim
  disk,        \* journal_start values the superblock may hold on the media
  crossed      \* a "next_free doesn't cross used_start" assertion failed

vars == <<next_free, used_start, cur, room, ent, trim, disk, crossed>>

Positions == 1..(JLen - 1)

(* st: a free slot, its write in flight, or ended; unst: not stable yet;    *)
(* stab: the STABLE or ROLLBACK of it being written, in sector ssec.        *)
NoEntry == [st |-> "free", sec |-> 0, at |-> 0, len |-> 0, unst |-> FALSE,
            stab |-> "none", ssec |-> 0]

Live == {i \in Ids : ent[i].st # "free"}

-----------------------------------------------------------------------------
(* blockstore_journal_check_t::check_available for one entry and `after`    *)
(* blocks of data behind it.                                                *)

Wrap(p) == IF p >= JLen THEN 1 ELSE p

(* entry_fits: the sector has room and is not closed, which               *)
(* no_same_sector_overwrites does to a sector that was submitted (Prefill,  *)
(* CloseSector).                                                            *)
Fits == room > 0

MutNoMargin(after) ==
  LET pos == IF Fits THEN next_free ELSE Wrap(next_free + 1)
      right == next_free >= used_start /\ (Fits \/ next_free + 1 < JLen)
      over == after > 0 /\ pos + after >= JLen
      end == IF over /\ right THEN 1 + after ELSE pos + after
  IN (right /\ ~over) \/ end <= used_start

CheckAvailable(after) ==
  LET pos == IF Fits THEN next_free ELSE Wrap(next_free + 1)
      right == next_free >= used_start /\ (Fits \/ next_free + 1 < JLen)
      over == after > 0 /\ pos + after >= JLen
      end == IF over /\ right THEN 1 + after ELSE pos + after
  IN (right /\ ~over) \/ end < used_start - 1

(* "next_free doesn't cross used_start from the left"                       *)
NotCrossing(from, to) == (from >= used_start /\ to >= from) \/ to < used_start

(* prefill_single_journal_entry: stay in the sector or start the next one.  *)
(* The handler may submit the sector right behind the entry: `closes` if    *)
(* that closes it.                                                          *)
EntrySector == IF Fits THEN cur ELSE next_free
FreeAfterEntry == IF Fits THEN next_free ELSE Wrap(next_free + 1)

Prefill(closes) ==
  /\ cur' = EntrySector
  /\ room' = IF closes THEN 0 ELSE IF Fits THEN room - 1 ELSE PerSector - 1

(* Where the data of a small write goes.                                    *)
DataStart(len) == IF FreeAfterEntry + len <= JLen THEN FreeAfterEntry ELSE 1

(* A small write (len > 0), a big write or a delete enters the journal.     *)
(* Writes and deletes leave `reserve` blocks behind, one for each object    *)
(* with unstable versions, each version in flight and, unless it is instant,*)
(* this one; the big writes of a SYNC none.                                 *)
WriteEntry(i, len, unst, reserve, closes) ==
  LET at == DataStart(len)
      end == Wrap(at + len)
  IN /\ ent[i].st = "free"
     /\ len > 0 /\ unst => reserve > 0
     /\ CheckAvailable(len + reserve)
     /\ Prefill(closes)
     /\ next_free' = end
     /\ crossed' = (crossed \/ ~(/\ Fits \/ NotCrossing(next_free, FreeAfterEntry)
                                 /\ NotCrossing(FreeAfterEntry, at)
                                 /\ NotCrossing(at, end)))
     /\ ent' = [ent EXCEPT ![i] =
          [st |-> "pending", sec |-> EntrySector, at |-> at, len |-> len,
           unst |-> unst, stab |-> "none", ssec |-> 0]]
     /\ UNCHANGED <<used_start, trim, disk>>

(* dequeue_stable, dequeue_rollback: no reservation, used_sectors unchanged *)
WriteStab(i, kind, closes) ==
  /\ ent[i].st = "done" /\ ent[i].unst /\ ent[i].stab = "none"
  /\ CheckAvailable(0)
  /\ Prefill(closes)
  /\ next_free' = FreeAfterEntry
  /\ crossed' = (crossed \/ ~(Fits \/ NotCrossing(next_free, FreeAfterEntry)))
  /\ ent' = [ent EXCEPT ![i].stab = kind, ![i].ssec = EntrySector]
  /\ UNCHANGED <<used_start, trim, disk>>

(* The open sector is submitted later, by a SYNC, and closed by that.       *)
CloseSector ==
  /\ room > 0
  /\ room' = 0
  /\ UNCHANGED <<next_free, used_start, cur, ent, trim, disk, crossed>>

(* Writes of sector s other than those of entry i that are in flight.       *)
OthersPending(i, s) ==
  \E j \in Ids \ {i} : \/ ent[j].st = "pending" /\ ent[j].sec = s
                       \/ ent[j].stab # "none" /\ ent[j].ssec = s

(* release_journal_sectors: the current sector is not written to anymore    *)
(* when no write of it is in flight; a write that only waits for its data   *)
(* has ended for the sector (early).                                        *)
MutNeverRelease(i, s, early) == room' = room
ReleaseSector(i, s, early) ==
  room' = IF s = cur /\ (early \/ ~OthersPending(i, s)) THEN 0 ELSE room

EntryWritten(i, early) ==
  /\ ent[i].st = "pending"
  /\ ent' = [ent EXCEPT ![i].st = "done"]
  /\ ReleaseSector(i, ent[i].sec, early)
  /\ UNCHANGED <<next_free, used_start, cur, trim, disk, crossed>>

StableWritten(i, early) ==
  /\ ent[i].stab = "stable"
  /\ ent' = [ent EXCEPT ![i].stab = "none", ![i].unst = FALSE]
  /\ ReleaseSector(i, ent[i].ssec, early)
  /\ UNCHANGED <<next_free, used_start, cur, trim, disk, crossed>>

(* erase_dirty: the last reference to the current sector closes it.         *)
LastOfCurrent(i) ==
  ent[i].sec = cur /\ \A j \in Ids \ {i} : ent[j].st # "free" => ent[j].sec # cur

RollbackWritten(i, early) ==
  /\ ent[i].stab = "rollback"
  /\ ent' = [ent EXCEPT ![i] = NoEntry]
  /\ IF LastOfCurrent(i) THEN room' = 0 ELSE ReleaseSector(i, ent[i].ssec, early)
  /\ UNCHANGED <<next_free, used_start, cur, trim, disk, crossed>>

(* The flusher has moved a stable version away from the journal.            *)
Flushed(i) ==
  /\ ent[i].st = "done" /\ ~ent[i].unst
  /\ ent' = [ent EXCEPT ![i] = NoEntry]
  /\ room' = IF LastOfCurrent(i) THEN 0 ELSE room
  /\ UNCHANGED <<next_free, used_start, cur, trim, disk, crossed>>

-----------------------------------------------------------------------------
(* journal_flusher_co::trim_journal                                         *)

UsedSectors == {ent[i].sec : i \in Live}

(* get_trim_pos: the first used sector at or after used_start, or else the  *)
(* first one of the ring, or else next_free.                                *)
IsTrimPos(t) ==
  LET ahead == {s \in UsedSectors : s >= used_start}
  IN IF UsedSectors = {} THEN t = next_free
     ELSE IF ahead # {} THEN t \in ahead /\ \A s \in ahead : t <= s
     ELSE t \in UsedSectors /\ \A s \in UsedSectors : t <= s

(* The new start is written into the superblock ...                         *)
MutMemoryFirst(t) ==
  /\ trim = 0
  /\ IsTrimPos(t)
  /\ t # used_start
  /\ trim' = t
  /\ used_start' = t
  /\ disk' = disk \union {t}
  /\ UNCHANGED <<next_free, cur, room, ent, crossed>>

TrimBegin(t) ==
  /\ trim = 0
  /\ IsTrimPos(t)
  /\ t # used_start
  /\ trim' = t
  /\ disk' = disk \union {t}
  /\ UNCHANGED <<next_free, used_start, cur, room, ent, crossed>>

(* ... and is used once it is on the media.                                 *)
TrimEnd ==
  /\ trim # 0
  /\ used_start' = trim
  /\ disk' = {trim}
  /\ trim' = 0
  /\ UNCHANGED <<next_free, cur, room, ent, crossed>>

-----------------------------------------------------------------------------
(* An empty journal, or one that a restart has replayed and flushed.        *)
Init ==
  /\ next_free \in Positions
  /\ used_start = next_free
  /\ cur = 0 /\ room = 0
  /\ ent = [i \in Ids |-> NoEntry]
  /\ trim = 0 /\ disk = {used_start}
  /\ crossed = FALSE

Next ==
  \/ \E i \in Ids, len \in DataLens, unst \in BOOLEAN, reserve \in 0..MaxReserve,
       closes \in BOOLEAN : WriteEntry(i, len, unst, reserve, closes)
  \/ \E i \in Ids, kind \in {"stable", "rollback"}, closes \in BOOLEAN :
       WriteStab(i, kind, closes)
  \/ CloseSector
  \/ \E i \in Ids, early \in BOOLEAN : EntryWritten(i, early)
  \/ \E i \in Ids, early \in BOOLEAN : StableWritten(i, early)
  \/ \E i \in Ids, early \in BOOLEAN : RollbackWritten(i, early)
  \/ \E i \in Ids : Flushed(i)
  \/ \E t \in Positions : TrimBegin(t)
  \/ TrimEnd

Spec == Init /\ [][Next]_vars

-----------------------------------------------------------------------------
(* Properties.                                                              *)

EntryType ==
  [st : {"free", "pending", "done"}, sec : 0..(JLen - 1), at : 0..(JLen - 1),
   len : Nat, unst : BOOLEAN, stab : {"none", "stable", "rollback"},
   ssec : 0..(JLen - 1)]

(* The types of the variables: every position is a block of the ring, never *)
(* the superblock.                                                          *)
TypeOK ==
  /\ next_free \in Positions /\ used_start \in Positions
  /\ cur \in 0..(JLen - 1) /\ room \in 0..(PerSector - 1)
  /\ ent \in [Ids -> EntryType]
  /\ trim \in 0..(JLen - 1)
  /\ disk \subseteq Positions
  /\ crossed \in BOOLEAN

(* How far position p is behind used_start, and how much of the ring is     *)
(* used: [used_start, next_free), wrapping around.                          *)
DistFrom(s, p) == IF p >= s THEN p - s ELSE p - s + (JLen - 1)
Dist(p) == DistFrom(used_start, p)
Used == Dist(next_free)

(* next_free never crosses used_start, whatever a request leaves behind for *)
(* others and whenever a trim ends: the assertions of                       *)
(* prefill_single_journal_entry and dequeue_write hold.                     *)
NoCrossing == ~crossed

DataBlocks(i) == ent[i].at .. (ent[i].at + ent[i].len - 1)

(* A write into the journal never lands on a sector or on the data of a     *)
(* version that dirty_db still reads from the journal ("BUG: Attempt to     *)
(* overwrite used offset").                                                 *)
NoOverwrite ==
  \A i, j \in Live :
    /\ ent[i].sec \notin DataBlocks(j)
    /\ i # j => DataBlocks(i) \cap DataBlocks(j) = {}
    /\ DataBlocks(i) \subseteq Positions

(* Wherever the superblock on the media points, a restart reading from      *)
(* there up to next_free meets every entry dirty_db still needs.            *)
SuperblockCoversLive ==
  \A s \in disk : \A i \in Live :
    DistFrom(s, ent[i].sec) < DistFrom(s, next_free)

-----------------------------------------------------------------------------
(* The inductive invariant.                                                 *)

(* Sectors and data of live entries are in the used part of the ring, the   *)
(* data behind its sector and not split by the end of the ring.             *)
EntriesInRing ==
  \A i \in Live :
    /\ ent[i].sec \in Positions /\ Dist(ent[i].sec) < Used
    /\ ent[i].len > 0 => /\ ent[i].at \in Positions
                         /\ ent[i].at + ent[i].len <= JLen
                         /\ Dist(ent[i].sec) < Dist(ent[i].at)
                         /\ Dist(ent[i].at) + ent[i].len <= Used

Outside(p, j) ==
  ent[j].len > 0 => \/ Dist(p) < Dist(ent[j].at)
                    \/ Dist(p) >= Dist(ent[j].at) + ent[j].len

EntriesApart ==
  \A i, j \in Live :
    /\ Outside(ent[i].sec, j)
    /\ i # j /\ ent[i].len > 0 /\ ent[j].len > 0
         => \/ Dist(ent[i].at) + ent[i].len <= Dist(ent[j].at)
            \/ Dist(ent[j].at) + ent[j].len <= Dist(ent[i].at)

Pins(i) == \/ ent[i].st = "pending" /\ ent[i].sec = cur
           \/ ent[i].stab # "none" /\ ent[i].ssec = cur

(* A sector open for more entries has a write in flight, of a live entry or *)
(* of the STABLE of one, so that a trim does not pass it.                   *)
OpenSector ==
  room > 0 =>
    /\ cur \in Positions /\ Dist(cur) < Used
    /\ \A j \in Live : Outside(cur, j) /\ Dist(ent[j].sec) <= Dist(cur)
    /\ \E i \in Live : Pins(i)

(* A STABLE is written of a durable version, behind its entry.              *)
StabsOfDurable ==
  \A i \in Ids : ent[i].stab # "none" =>
    /\ ent[i].st = "done" /\ ent[i].unst
    /\ ent[i].ssec \in Positions /\ Dist(ent[i].sec) <= Dist(ent[i].ssec)

(* A trim under way leaves live entries and the open sector alone.          *)
TrimBehindLive ==
  trim # 0 => /\ Dist(trim) <= Used
              /\ \A i \in Live : Dist(trim) <= Dist(ent[i].sec)
              /\ room > 0 => Dist(trim) <= Dist(cur)

DiskIsStart == disk = {used_start} \union (IF trim = 0 THEN {} ELSE {trim})

(* What every step keeps: the used part of the ring holds the live entries, *)
(* apart from each other.                                                   *)
RingInv ==
  /\ TypeOK
  /\ EntriesInRing
  /\ EntriesApart
  /\ OpenSector
  /\ StabsOfDurable
  /\ TrimBehindLive
  /\ DiskIsStart
  /\ NoCrossing

=============================================================================
