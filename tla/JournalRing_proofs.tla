-------------------------- MODULE JournalRing_proofs --------------------------
(***************************************************************************)
(* Proofs about JournalRing, for every length of the journal, size of a    *)
(* sector, set of data lengths and number of entries.                      *)
(***************************************************************************)
EXTENDS JournalRing, FiniteSetTheorems, TLAPS

(* Distances along the ring are natural numbers below its size.             *)
LEMMA DistRange ==
  ASSUME NEW s \in Positions, NEW p \in Positions
  PROVE  /\ DistFrom(s, p) \in Nat /\ DistFrom(s, p) <= JLen - 2
         /\ DistFrom(s, s) = 0
  BY RingAssumption DEF Positions, DistFrom

(* Moving the origin of the ring forward to t shifts the distances of all   *)
(* positions that are not before t.                                         *)
LEMMA DistShift ==
  ASSUME NEW s \in Positions, NEW t \in Positions, NEW p \in Positions,
         DistFrom(s, t) <= DistFrom(s, p)
  PROVE  DistFrom(t, p) = DistFrom(s, p) - DistFrom(s, t)
  BY RingAssumption DEF Positions, DistFrom

(* Distances grow by one per block inside data that does not wrap.          *)
LEMMA DistInside ==
  ASSUME NEW s \in Positions, NEW at \in Positions, NEW p \in Positions, NEW len \in Nat,
         at <= p, p < at + len, at + len <= JLen,
         DistFrom(s, at) + len <= JLen - 2
  PROVE  DistFrom(s, p) = DistFrom(s, at) + (p - at)
  BY RingAssumption DEF Positions, DistFrom

(* What check_available promises: the entry and its data of len blocks fit  *)
(* between next_free and used_start, whatever r it is asked to leave.       *)
LEMMA AppendFits ==
  ASSUME next_free \in Positions, used_start \in Positions,
         NEW len \in Nat, NEW r \in Nat, CheckAvailable(len + r)
  PROVE  LET nf == FreeAfterEntry
             at == DataStart(len)
             end == Wrap(at + len)
         IN /\ nf \in Positions /\ at \in Positions /\ end \in Positions
            /\ Dist(nf) = IF Fits THEN Used ELSE Used + 1
            /\ Dist(at) >= Dist(nf)
            /\ at + len <= JLen
            /\ Dist(end) = Dist(at) + len
            /\ Fits \/ NotCrossing(next_free, nf)
            /\ NotCrossing(nf, at)
            /\ NotCrossing(at, end)
  <1> DEFINE nf == FreeAfterEntry
             at == DataStart(len)
             end == Wrap(at + len)
  <1>1. CASE Fits
    <2>1. nf = next_free
      BY <1>1 DEF FreeAfterEntry
    <2> QED
      BY <1>1, <2>1, RingAssumption
      DEF Positions, Dist, DistFrom, Used, CheckAvailable, DataStart, Wrap, NotCrossing
  <1>2. CASE ~Fits
    <2>1. nf = Wrap(next_free + 1)
      BY <1>2 DEF FreeAfterEntry
    <2> QED
      BY <1>2, <2>1, RingAssumption
      DEF Positions, Dist, DistFrom, Used, CheckAvailable, DataStart, Wrap, NotCrossing
  <1> QED
    BY <1>1, <1>2

(* An empty journal satisfies the invariant.                                *)
LEMMA InitInv == Init => RingInv
  <1> SUFFICES ASSUME Init PROVE RingInv
    OBVIOUS
  <1> USE DEF Init
  <1>1. Live = {}
    BY DEF Live, NoEntry
  <1>2. TypeOK
    <2>1. NoEntry \in EntryType
      BY RingAssumption DEF EntryType, NoEntry
    <2>2. used_start \in Positions /\ disk \subseteq Positions
      OBVIOUS
    <2>3. cur \in 0..(JLen - 1) /\ room \in 0..(PerSector - 1) /\ trim \in 0..(JLen - 1)
      BY RingAssumption
    <2> QED
      BY <2>1, <2>2, <2>3 DEF TypeOK
  <1>3. StabsOfDurable
    BY DEF StabsOfDurable, NoEntry
  <1> QED
    BY <1>1, <1>2, <1>3
    DEF RingInv, EntriesInRing, EntriesApart, OpenSector, TrimBehindLive,
        DiskIsStart, NoCrossing

(* The facts about entries that the steps below use, with distances opaque. *)
LEMMA EntryFacts ==
  ASSUME RingInv
  PROVE  /\ \A p \in Positions : DistFrom(used_start, p) \in Nat
         /\ \A j \in Live :
              /\ ent[j].len \in Nat /\ ent[j].sec \in Positions
              /\ DistFrom(used_start, ent[j].sec) \in Nat
              /\ DistFrom(used_start, ent[j].sec) < DistFrom(used_start, next_free)
              /\ ent[j].len > 0 =>
                   /\ ent[j].at \in Positions
                   /\ DistFrom(used_start, ent[j].at) \in Nat
                   /\ DistFrom(used_start, ent[j].at) + ent[j].len
                        <= DistFrom(used_start, next_free)
  <1>1. TypeOK
    BY DEF RingInv
  <1>2. \A p \in Positions : DistFrom(used_start, p) \in Nat
    BY <1>1, DistRange DEF TypeOK
  <1>3. \A j \in Live : ent[j].len \in Nat
    BY <1>1 DEF TypeOK, EntryType, Live
  <1> QED
    BY <1>2, <1>3 DEF RingInv, EntriesInRing, Dist, Used

(* The entry that a step adds: its sector is the open one or the new one at *)
(* next_free, its data is behind everything else.                           *)
LEMMA WriteEntryInv ==
  ASSUME RingInv, NEW i \in Ids, NEW len \in DataLens, NEW unst \in BOOLEAN,
         NEW reserve \in 0..MaxReserve, NEW closes \in BOOLEAN,
         WriteEntry(i, len, unst, reserve, closes)
  PROVE  RingInv'
  <1> DEFINE at == DataStart(len)
             end == Wrap(at + len)
             new == [st |-> "pending", sec |-> EntrySector, at |-> at, len |-> len,
                     unst |-> unst, stab |-> "none", ssec |-> 0]
             D(p) == DistFrom(used_start, p)
  <1>0. TypeOK /\ len \in Nat /\ reserve \in Nat
    BY RingAssumption DEF RingInv
  <1>1. /\ next_free' = end /\ used_start' = used_start /\ trim' = trim /\ disk' = disk
        /\ cur' = EntrySector
        /\ room' = (IF closes THEN 0 ELSE IF Fits THEN room - 1 ELSE PerSector - 1)
        /\ ent' = [ent EXCEPT ![i] = new] /\ ent[i].st = "free"
        /\ CheckAvailable(len + reserve)
    BY DEF WriteEntry, Prefill
  <1>2. /\ FreeAfterEntry \in Positions /\ at \in Positions /\ end \in Positions
        /\ D(FreeAfterEntry) = IF Fits THEN D(next_free) ELSE D(next_free) + 1
        /\ D(at) >= D(FreeAfterEntry)
        /\ at + len <= JLen
        /\ D(end) = D(at) + len
        /\ Fits \/ NotCrossing(next_free, FreeAfterEntry)
        /\ NotCrossing(FreeAfterEntry, at)
        /\ NotCrossing(at, end)
    BY <1>0, <1>1, AppendFits DEF TypeOK, Dist, Used
  <1>3. EntrySector \in Positions
    BY <1>0 DEF EntrySector, RingInv, OpenSector, TypeOK, Fits
  <1>4. /\ ent'[i] = new
        /\ \A j \in Ids : j # i => ent'[j] = ent[j]
        /\ \A j \in Live : j # i /\ ent'[j] = ent[j]
        /\ Live' = Live \union {i}
    BY <1>0, <1>1 DEF Live, TypeOK
  <1>5. \A p \in Positions : D(p) \in Nat
    BY <1>0, DistRange DEF TypeOK
  <1>6. /\ D(EntrySector) <= D(next_free)
        /\ D(EntrySector) < D(FreeAfterEntry)
        /\ D(next_free) <= D(FreeAfterEntry)
        /\ D(FreeAfterEntry) <= D(end) /\ D(EntrySector) < D(at)
    BY <1>0, <1>2, <1>3, <1>5 DEF EntrySector, RingInv, OpenSector, Fits, Dist, Used, TypeOK
  <1>10. TypeOK'
    <2>1. new \in EntryType
      BY <1>0, <1>2, <1>3, RingAssumption DEF EntryType, Positions
    <2>2. ent' \in [Ids -> EntryType]
      BY <2>1, <1>0, <1>1 DEF TypeOK
    <2>3. crossed' \in BOOLEAN
      BY DEF WriteEntry
    <2>4. room' \in 0..(PerSector - 1)
      BY <1>0, <1>1, RingAssumption DEF TypeOK, Fits
    <2>5. cur' \in 0..(JLen - 1)
      BY <1>1, <1>3, RingAssumption DEF Positions
    <2> QED
      BY <1>0, <1>1, <1>2, <2>2, <2>3, <2>4, <2>5 DEF TypeOK
  <1>11. EntriesInRing'
    <2> SUFFICES ASSUME NEW j \in Live'
                 PROVE  /\ ent'[j].sec \in Positions /\ D(ent'[j].sec) < D(end)
                        /\ ent'[j].len > 0 => /\ ent'[j].at \in Positions
                                              /\ ent'[j].at + ent'[j].len <= JLen
                                              /\ D(ent'[j].sec) < D(ent'[j].at)
                                              /\ D(ent'[j].at) + ent'[j].len <= D(end)
      BY <1>1 DEF EntriesInRing, Dist, Used, Positions
    <2>1. CASE j = i
      BY <2>1, <1>2, <1>3, <1>4, <1>5, <1>6, <1>0
    <2>2. CASE j # i
      <3>1. j \in Live /\ ent'[j] = ent[j] /\ ent[j].len \in Nat
        BY <2>2, <1>4, <1>0 DEF TypeOK, EntryType, Live
      <3> QED
        BY <3>1, <1>0, <1>2, <1>5, <1>6 DEF RingInv, EntriesInRing, Dist, Used, TypeOK
    <2> QED
      BY <2>1, <2>2
  <1>12. \A j \in Live : /\ D(ent[j].sec) < D(next_free)
                         /\ ent[j].sec \in Positions
                         /\ ent[j].len \in Nat
                         /\ ent[j].len > 0 => /\ ent[j].at \in Positions
                                              /\ D(ent[j].at) + ent[j].len <= D(next_free)
    BY EntryFacts
  <1>13. \A j \in Live : ent[j].len > 0 =>
           \/ D(EntrySector) < D(ent[j].at)
           \/ D(EntrySector) >= D(ent[j].at) + ent[j].len
    BY <1>12 DEF EntrySector, RingInv, OpenSector, Outside, Fits, Dist
  <1>14. EntriesApart'
    <2> SUFFICES ASSUME NEW j \in Live', NEW k \in Live'
                 PROVE  /\ ent'[k].len > 0 =>
                             \/ D(ent'[j].sec) < D(ent'[k].at)
                             \/ D(ent'[j].sec) >= D(ent'[k].at) + ent'[k].len
                        /\ j # k /\ ent'[j].len > 0 /\ ent'[k].len > 0 =>
                             \/ D(ent'[j].at) + ent'[j].len <= D(ent'[k].at)
                             \/ D(ent'[k].at) + ent'[k].len <= D(ent'[j].at)
      BY <1>1 DEF EntriesApart, Outside, Dist
    <2>1. CASE j = i /\ k = i
      BY <2>1, <1>4, <1>6
    <2>2. CASE j = i /\ k # i
      BY <2>2, <1>0, <1>2, <1>4, <1>5, <1>6, <1>12, <1>13 DEF TypeOK
    <2>3. CASE j # i /\ k = i
      BY <2>3, <1>0, <1>2, <1>4, <1>5, <1>6, <1>12 DEF TypeOK
    <2>4. CASE j # i /\ k # i
      BY <2>4, <1>4 DEF RingInv, EntriesApart, Outside, Dist
    <2> QED
      BY <2>1, <2>2, <2>3, <2>4
  <1>15. OpenSector'
    <2> SUFFICES ASSUME room' > 0
                 PROVE  /\ EntrySector \in Positions /\ D(EntrySector) < D(end)
                        /\ \A j \in Live' : ent'[j].len > 0 =>
                             \/ D(EntrySector) < D(ent'[j].at)
                             \/ D(EntrySector) >= D(ent'[j].at) + ent'[j].len
                        /\ \A j \in Live' : D(ent'[j].sec) <= D(EntrySector)
                        /\ \E j \in Live' : Pins(j)'
      BY <1>1 DEF OpenSector, Outside, Dist, Used, Positions
    <2>1. D(EntrySector) < D(end)
      BY <1>2, <1>3, <1>5, <1>6
    <2>2. \A j \in Live' : ent'[j].len > 0 =>
             \/ D(EntrySector) < D(ent'[j].at)
             \/ D(EntrySector) >= D(ent'[j].at) + ent'[j].len
      BY <1>4, <1>6, <1>13
    <2>3. Pins(i)' /\ i \in Live'
      BY <1>1, <1>4 DEF Pins
    <2>4. \A j \in Live : D(ent[j].sec) <= D(EntrySector)
      <3>1. CASE Fits
        BY <3>1 DEF RingInv, OpenSector, Fits, EntrySector, Dist
      <3>2. CASE ~Fits
        BY <3>2, <1>3, <1>5, <1>12 DEF EntrySector
      <3> QED
        BY <3>1, <3>2
    <2>5. \A j \in Live' : D(ent'[j].sec) <= D(EntrySector)
      BY <1>3, <1>4, <1>5, <2>4
    <2> QED
      BY <1>3, <2>1, <2>2, <2>3, <2>5
  <1>16. StabsOfDurable'
    BY <1>1, <1>4 DEF RingInv, StabsOfDurable, Dist, Positions
  <1>17. TrimBehindLive'
    <2> SUFFICES ASSUME trim # 0
                 PROVE  /\ D(trim) <= D(end)
                        /\ \A j \in Live' : D(trim) <= D(ent'[j].sec)
                        /\ D(trim) <= D(EntrySector)
      BY <1>1 DEF TrimBehindLive, Dist, Used
    <2>1. trim \in Positions /\ D(trim) \in Nat
      BY <1>0, <1>5 DEF TypeOK, Positions
    <2>2. D(trim) <= D(next_free) /\ (Fits => D(trim) <= D(cur))
      BY DEF RingInv, TrimBehindLive, Dist, Used, Fits
    <2>3. D(trim) <= D(EntrySector)
      BY <2>2 DEF EntrySector
    <2>4. \A j \in Live : D(trim) <= D(ent[j].sec)
      BY DEF RingInv, TrimBehindLive, Dist
    <2>5. D(trim) <= D(end)
      BY <1>2, <1>3, <1>5, <1>6, <2>1, <2>3
    <2>6. \A j \in Live' : D(trim) <= D(ent'[j].sec)
      BY <1>4, <2>3, <2>4
    <2> QED
      BY <2>3, <2>5, <2>6
  <1>18. DiskIsStart'
    BY <1>1 DEF RingInv, DiskIsStart
  <1>20. NoCrossing'
    BY <1>2 DEF RingInv, NoCrossing, WriteEntry
  <1> QED
    BY <1>10, <1>11, <1>14, <1>15, <1>16, <1>17, <1>18, <1>20 DEF RingInv

(* Steps that end writes or release entries: nothing moves, the sectors and *)
(* data of the entries that stay are the same.                              *)
LEMMA ReleaseInv ==
  ASSUME RingInv, TypeOK', NoCrossing', StabsOfDurable',
         UNCHANGED <<next_free, used_start, cur, trim, disk>>,
         room' = room \/ room' = 0,
         \A j \in Live' : /\ j \in Live /\ ent'[j].sec = ent[j].sec
                          /\ ent'[j].at = ent[j].at /\ ent'[j].len = ent[j].len,
         room' > 0 => \E j \in Live' : Pins(j)'
  PROVE  RingInv'
  <1>0. TypeOK
    BY DEF RingInv
  <1>1. EntriesInRing'
    BY DEF RingInv, EntriesInRing, Dist, Used, Positions
  <1>2. EntriesApart'
    BY DEF RingInv, EntriesApart, Outside, Dist
  <1>3. OpenSector'
    BY <1>0 DEF RingInv, OpenSector, Outside, Dist, Used, Positions, TypeOK
  <1>4. TrimBehindLive'
    BY <1>0 DEF RingInv, TrimBehindLive, Dist, Used, TypeOK
  <1>5. DiskIsStart'
    BY DEF RingInv, DiskIsStart
  <1> QED
    BY <1>1, <1>2, <1>3, <1>4, <1>5 DEF RingInv

(* Closing the open sector disturbs nothing else.                           *)
LEMMA CloseSectorInv ==
  ASSUME RingInv, CloseSector
  PROVE  RingInv'
  <1>1. UNCHANGED <<next_free, used_start, cur, ent, trim, disk, crossed>> /\ room' = 0
    BY DEF CloseSector
  <1>2. Live' = Live
    BY <1>1 DEF Live
  <1>3. TypeOK' /\ NoCrossing' /\ StabsOfDurable'
    BY <1>1, RingAssumption
    DEF RingInv, TypeOK, NoCrossing, StabsOfDurable, Dist, Positions
  <1> QED
    BY <1>1, <1>2, <1>3, ReleaseInv

(* The end of an entry's write: the sector stays open only while another    *)
(* write of it is in flight.                                                *)
LEMMA EntryWrittenInv ==
  ASSUME RingInv, NEW i \in Ids, NEW early \in BOOLEAN, EntryWritten(i, early)
  PROVE  RingInv'
  <1>0. TypeOK
    BY DEF RingInv
  <1>1. /\ UNCHANGED <<next_free, used_start, cur, trim, disk, crossed>>
        /\ ent' = [ent EXCEPT ![i].st = "done"] /\ ent[i].st = "pending"
        /\ room' = IF ent[i].sec = cur /\ (early \/ ~OthersPending(i, ent[i].sec))
                   THEN 0 ELSE room
    BY DEF EntryWritten, ReleaseSector
  <1>2. TypeOK'
    <2>1. ent' \in [Ids -> EntryType]
      BY <1>0, <1>1 DEF TypeOK, EntryType
    <2>2. room' \in 0..(PerSector - 1)
      BY <1>0, <1>1, RingAssumption DEF TypeOK
    <2> QED
      BY <1>0, <1>1, <2>1, <2>2 DEF TypeOK
  <1>3. \A j \in Ids : /\ ent'[j].sec = ent[j].sec /\ ent'[j].at = ent[j].at
                       /\ ent'[j].len = ent[j].len /\ ent'[j].unst = ent[j].unst
                       /\ ent'[j].stab = ent[j].stab /\ ent'[j].ssec = ent[j].ssec
                       /\ j # i => ent'[j].st = ent[j].st
                       /\ ent'[i].st = "done"
    BY <1>0, <1>1 DEF TypeOK, EntryType
  <1>4. Live' = Live
    BY <1>1, <1>3 DEF Live
  <1>5. StabsOfDurable'
    BY <1>1, <1>3 DEF RingInv, StabsOfDurable, Dist, Positions
  <1>6. room' > 0 => \E j \in Live' : Pins(j)'
    <2> SUFFICES ASSUME room' > 0 PROVE \E j \in Live' : Pins(j)'
      OBVIOUS
    <2>1. CASE ent[i].sec = cur
      <3>1. PICK j \in Ids \ {i} : \/ ent[j].st = "pending" /\ ent[j].sec = cur
                                   \/ ent[j].stab # "none" /\ ent[j].ssec = cur
        BY <1>1, <2>1 DEF OthersPending
      <3>2. Pins(j)' /\ ent[j].st # "free"
        BY <1>1, <1>3, <3>1 DEF Pins, RingInv, StabsOfDurable
      <3> QED
        BY <3>2, <1>4 DEF Live
    <2>2. CASE ent[i].sec # cur
      <3>1. PICK j \in Live : Pins(j)
        BY <1>1, <2>2 DEF RingInv, OpenSector
      <3>2. j # i /\ j \in Ids
        BY <1>1, <2>2, <3>1 DEF Pins, RingInv, StabsOfDurable, Live
      <3>3. Pins(j)'
        BY <1>1, <1>3, <3>1, <3>2 DEF Pins
      <3> QED
        BY <3>1, <3>3, <1>4
    <2> QED
      BY <2>1, <2>2
  <1>7. NoCrossing'
    BY <1>1 DEF RingInv, NoCrossing
  <1>8. \A j \in Live' : /\ j \in Live /\ ent'[j].sec = ent[j].sec
                         /\ ent'[j].at = ent[j].at /\ ent'[j].len = ent[j].len
    BY <1>3, <1>4 DEF Live
  <1> QED
    BY <1>1, <1>2, <1>4, <1>5, <1>6, <1>7, <1>8, ReleaseInv

(* The end of a STABLE's write: the version is stable.                      *)
LEMMA StableWrittenInv ==
  ASSUME RingInv, NEW i \in Ids, NEW early \in BOOLEAN, StableWritten(i, early)
  PROVE  RingInv'
  <1>0. TypeOK
    BY DEF RingInv
  <1>1. /\ UNCHANGED <<next_free, used_start, cur, trim, disk, crossed>>
        /\ ent' = [ent EXCEPT ![i].stab = "none", ![i].unst = FALSE]
        /\ ent[i].stab = "stable"
        /\ room' = IF ent[i].ssec = cur /\ (early \/ ~OthersPending(i, ent[i].ssec))
                   THEN 0 ELSE room
    BY DEF StableWritten, ReleaseSector
  <1>2. TypeOK'
    <2>1. ent' \in [Ids -> EntryType]
      <3>1. ent[i] \in EntryType
        BY <1>0 DEF TypeOK
      <3>2. [ent[i] EXCEPT !.stab = "none", !.unst = FALSE] \in EntryType
        BY <3>1 DEF EntryType
      <3>3. ent' = [ent EXCEPT ![i] = [ent[i] EXCEPT !.stab = "none", !.unst = FALSE]]
        BY <1>0, <1>1 DEF TypeOK
      <3> QED BY <1>0, <3>2, <3>3 DEF TypeOK
    <2>2. room' \in 0..(PerSector - 1)
      BY <1>0, <1>1, RingAssumption DEF TypeOK
    <2> QED
      BY <1>0, <1>1, <2>1, <2>2 DEF TypeOK
  <1>3. \A j \in Ids : /\ ent'[j].sec = ent[j].sec /\ ent'[j].at = ent[j].at
                       /\ ent'[j].len = ent[j].len /\ ent'[j].ssec = ent[j].ssec
                       /\ ent'[j].st = ent[j].st
                       /\ j # i => ent'[j].stab = ent[j].stab /\ ent'[j].unst = ent[j].unst
                       /\ ent'[i].stab = "none" /\ ent'[i].unst = FALSE
    BY <1>0, <1>1 DEF TypeOK, EntryType
  <1>4. Live' = Live
    BY <1>3 DEF Live
  <1>5. StabsOfDurable'
    <2> SUFFICES ASSUME NEW j \in Ids, ent'[j].stab # "none"
                 PROVE  /\ ent'[j].st = "done" /\ ent'[j].unst
                        /\ ent'[j].ssec \in Positions
                        /\ DistFrom(used_start, ent'[j].sec)
                             <= DistFrom(used_start, ent'[j].ssec)
      BY <1>1 DEF StabsOfDurable, Dist, Positions
    <2>1. j # i /\ ent[j].stab # "none"
      BY <1>3
    <2> QED
      BY <1>3, <2>1 DEF RingInv, StabsOfDurable, Dist
  <1>6. room' > 0 => \E j \in Live' : Pins(j)'
    <2> SUFFICES ASSUME room' > 0 PROVE \E j \in Live' : Pins(j)'
      OBVIOUS
    <2>1. CASE ent[i].ssec = cur
      <3>1. PICK j \in Ids \ {i} : \/ ent[j].st = "pending" /\ ent[j].sec = cur
                                   \/ ent[j].stab # "none" /\ ent[j].ssec = cur
        BY <1>1, <2>1 DEF OthersPending
      <3>2. Pins(j)' /\ ent[j].st # "free"
        BY <1>1, <1>3, <3>1 DEF Pins, RingInv, StabsOfDurable
      <3> QED
        BY <3>2, <1>4 DEF Live
    <2>2. CASE ent[i].ssec # cur
      <3>1. PICK j \in Live : Pins(j)
        BY <1>1, <2>2 DEF RingInv, OpenSector
      <3>2. j # i /\ j \in Ids
        BY <1>1, <2>2, <3>1 DEF Pins, RingInv, StabsOfDurable, Live
      <3>3. Pins(j)'
        BY <1>1, <1>3, <3>1, <3>2 DEF Pins
      <3> QED
        BY <3>1, <3>3, <1>4
    <2> QED
      BY <2>1, <2>2
  <1>7. NoCrossing'
    BY <1>1 DEF RingInv, NoCrossing
  <1>8. \A j \in Live' : /\ j \in Live /\ ent'[j].sec = ent[j].sec
                         /\ ent'[j].at = ent[j].at /\ ent'[j].len = ent[j].len
    BY <1>3, <1>4 DEF Live
  <1> QED
    BY <1>1, <1>2, <1>4, <1>5, <1>6, <1>7, <1>8, ReleaseInv

(* Releasing an entry with no write in flight in another sector than the    *)
(* current one, or one that is not the last of it, keeps the others.        *)
LEMMA ForgetInv ==
  ASSUME RingInv, NEW i \in Ids,
         UNCHANGED <<next_free, used_start, cur, trim, disk, crossed>>,
         ent' = [ent EXCEPT ![i] = NoEntry],
         ent[i].st = "done",
         ent[i].stab # "none" \/ ~ent[i].unst,
         room' = room \/ room' = 0,
         room' > 0 => \E j \in Ids \ {i} : Pins(j)
  PROVE  RingInv'
  <1>0. TypeOK
    BY DEF RingInv
  <1>1. ent'[i] = NoEntry /\ \A j \in Ids : j # i => ent'[j] = ent[j]
    BY <1>0 DEF TypeOK
  <1>2. TypeOK'
    <2>1. NoEntry \in EntryType
      BY RingAssumption DEF NoEntry, EntryType
    <2>2. ent' \in [Ids -> EntryType]
      BY <1>0, <2>1 DEF TypeOK
    <2>3. room' \in 0..(PerSector - 1)
      BY <1>0, RingAssumption DEF TypeOK
    <2> QED
      BY <1>0, <2>2, <2>3 DEF TypeOK
  <1>3. \A j \in Ids : j \in Live' <=> j \in Live /\ j # i
    BY <1>1 DEF Live, NoEntry
  <1>5. StabsOfDurable'
    BY <1>1 DEF RingInv, StabsOfDurable, Dist, Positions, NoEntry
  <1>6. room' > 0 => \E j \in Live' : Pins(j)'
    <2> SUFFICES ASSUME room' > 0 PROVE \E j \in Live' : Pins(j)'
      OBVIOUS
    <2>1. PICK j \in Ids \ {i} : Pins(j)
      OBVIOUS
    <2>2. ent[j].st # "free"
      BY <2>1 DEF Pins, RingInv, StabsOfDurable
    <2>3. Pins(j)' /\ j \in Live'
      BY <1>1, <2>1, <2>2 DEF Pins, Live
    <2> QED
      BY <2>3
  <1>7. NoCrossing'
    BY DEF RingInv, NoCrossing
  <1>8. \A j \in Live' : /\ j \in Live /\ ent'[j].sec = ent[j].sec
                         /\ ent'[j].at = ent[j].at /\ ent'[j].len = ent[j].len
    <2>1. \A j \in Live' : j \in Ids
      BY DEF Live
    <2> QED
      BY <1>1, <1>3, <2>1
  <1> QED
    BY <1>2, <1>5, <1>6, <1>7, <1>8, ReleaseInv

(* The end of a ROLLBACK's write drops the entry it rolled back.            *)
LEMMA RollbackWrittenInv ==
  ASSUME RingInv, NEW i \in Ids, NEW early \in BOOLEAN, RollbackWritten(i, early)
  PROVE  RingInv'
  <1>1. /\ UNCHANGED <<next_free, used_start, cur, trim, disk, crossed>>
        /\ ent' = [ent EXCEPT ![i] = NoEntry] /\ ent[i].stab = "rollback"
        /\ \/ room' = 0
           \/ /\ room' = room
              /\ ~(ent[i].ssec = cur /\ (early \/ ~OthersPending(i, ent[i].ssec)))
    BY DEF RollbackWritten, ReleaseSector
  <1>2. ent[i].st = "done"
    BY <1>1 DEF RingInv, StabsOfDurable
  <1>3. room' > 0 => \E j \in Ids \ {i} : Pins(j)
    <2> SUFFICES ASSUME room' > 0 PROVE \E j \in Ids \ {i} : Pins(j)
      OBVIOUS
    <2>1. CASE ent[i].ssec = cur
      BY <1>1, <2>1 DEF OthersPending, Pins
    <2>2. CASE ent[i].ssec # cur
      <3>1. PICK j \in Live : Pins(j)
        BY <1>1 DEF RingInv, OpenSector
      <3>2. j # i /\ j \in Ids
        BY <1>2, <2>2, <3>1 DEF Pins, Live
      <3> QED
        BY <3>1, <3>2
    <2> QED
      BY <2>1, <2>2
  <1> QED
    BY <1>1, <1>2, <1>3, ForgetInv

(* The flusher drops a stable entry (erase_dirty).                          *)
LEMMA FlushedInv ==
  ASSUME RingInv, NEW i \in Ids, Flushed(i)
  PROVE  RingInv'
  <1>1. /\ UNCHANGED <<next_free, used_start, cur, trim, disk, crossed>>
        /\ ent' = [ent EXCEPT ![i] = NoEntry]
        /\ ent[i].st = "done" /\ ~ent[i].unst
        /\ room' = room \/ room' = 0
    BY DEF Flushed
  <1>2. room' > 0 => \E j \in Ids \ {i} : Pins(j)
    <2> SUFFICES ASSUME room' > 0 PROVE \E j \in Ids \ {i} : Pins(j)
      OBVIOUS
    <2>1. PICK j \in Live : Pins(j)
      BY <1>1 DEF RingInv, OpenSector
    <2>2. j # i /\ j \in Ids
      BY <1>1, <2>1 DEF Pins, Live, RingInv, StabsOfDurable
    <2> QED
      BY <2>1, <2>2
  <1> QED
    BY <1>1, <1>2, ForgetInv

(* A STABLE or ROLLBACK enters the journal.                                 *)
LEMMA WriteStabInv ==
  ASSUME RingInv, NEW i \in Ids, NEW kind \in {"stable", "rollback"},
         NEW closes \in BOOLEAN, WriteStab(i, kind, closes)
  PROVE  RingInv'
  <1> DEFINE D(p) == DistFrom(used_start, p)
  <1>0. TypeOK
    BY DEF RingInv
  <1>1. /\ next_free' = FreeAfterEntry
        /\ used_start' = used_start /\ trim' = trim /\ disk' = disk
        /\ cur' = EntrySector
        /\ room' = (IF closes THEN 0 ELSE IF Fits THEN room - 1 ELSE PerSector - 1)
        /\ ent' = [ent EXCEPT ![i].stab = kind, ![i].ssec = EntrySector]
        /\ ent[i].st = "done" /\ ent[i].unst /\ ent[i].stab = "none"
        /\ CheckAvailable(0)
    BY DEF WriteStab, Prefill
  <1>2. /\ FreeAfterEntry \in Positions
        /\ D(FreeAfterEntry) = IF Fits THEN D(next_free) ELSE D(next_free) + 1
        /\ Fits \/ NotCrossing(next_free, FreeAfterEntry)
    <2>1. CheckAvailable(0 + 0)
      BY <1>1
    <2> QED
      BY <1>0, <2>1, AppendFits DEF TypeOK, Dist, Used
  <1>3. EntrySector \in Positions
    BY <1>0 DEF EntrySector, RingInv, OpenSector, TypeOK, Fits
  <1>4. \A j \in Ids : /\ ent'[j].sec = ent[j].sec /\ ent'[j].at = ent[j].at
                       /\ ent'[j].len = ent[j].len /\ ent'[j].st = ent[j].st
                       /\ ent'[j].unst = ent[j].unst
                       /\ j # i => ent'[j].stab = ent[j].stab /\ ent'[j].ssec = ent[j].ssec
                       /\ ent'[i].stab = kind /\ ent'[i].ssec = EntrySector
    BY <1>0, <1>1 DEF TypeOK, EntryType
  <1>5. Live' = Live /\ i \in Live
    BY <1>1, <1>4 DEF Live
  <1>6. \A p \in Positions : D(p) \in Nat
    BY EntryFacts
  <1>7. /\ D(EntrySector) < D(FreeAfterEntry)
        /\ D(EntrySector) <= D(next_free)
        /\ D(next_free) <= D(FreeAfterEntry)
        /\ ~Fits => D(EntrySector) = D(next_free)
    BY <1>0, <1>2, <1>3, <1>6 DEF EntrySector, RingInv, OpenSector, Fits, Dist, Used, TypeOK
  <1>8. \A j \in Live : D(ent[j].sec) \in Nat /\ D(ent[j].sec) <= D(EntrySector)
    <2>1. \A j \in Live : D(ent[j].sec) \in Nat /\ D(ent[j].sec) < D(next_free)
      BY EntryFacts
    <2>2. CASE ~Fits
      BY <2>1, <2>2, <1>3, <1>6, <1>7 DEF EntrySector
    <2>3. CASE Fits
      BY <2>1, <2>3 DEF RingInv, OpenSector, Fits, EntrySector, Dist
    <2> QED
      BY <2>2, <2>3
  <1>10. TypeOK'
    <2>1. ent' \in [Ids -> EntryType]
      <3>1. EntrySector \in 0..(JLen - 1)
        BY <1>3, RingAssumption DEF Positions
      <3>2. [[ent[i] EXCEPT !.stab = kind] EXCEPT !.ssec = EntrySector] \in EntryType
        BY <1>0, <3>1 DEF TypeOK, EntryType
      <3>3. ent' = [ent EXCEPT ![i] = [[ent[i] EXCEPT !.stab = kind] EXCEPT !.ssec = EntrySector]]
        BY <1>0, <1>1 DEF TypeOK
      <3> QED
        BY <1>0, <3>2, <3>3 DEF TypeOK
    <2>2. crossed' \in BOOLEAN
      BY DEF WriteStab
    <2>3. room' \in 0..(PerSector - 1)
      BY <1>0, <1>1, RingAssumption DEF TypeOK, Fits
    <2>4. cur' \in 0..(JLen - 1)
      BY <1>1, <1>3, RingAssumption DEF Positions
    <2> QED
      BY <1>0, <1>1, <1>2, <2>1, <2>2, <2>3, <2>4 DEF TypeOK
  <1>11. EntriesInRing'
    <2> SUFFICES ASSUME NEW j \in Live
                 PROVE  /\ ent[j].sec \in Positions /\ D(ent[j].sec) < D(FreeAfterEntry)
                        /\ ent[j].len > 0 =>
                             /\ ent[j].at \in Positions
                             /\ ent[j].at + ent[j].len <= JLen
                             /\ D(ent[j].sec) < D(ent[j].at)
                             /\ D(ent[j].at) + ent[j].len <= D(FreeAfterEntry)
      BY <1>1, <1>4, <1>5 DEF EntriesInRing, Dist, Used, Positions, Live
    <2>1. ent[j].len \in Nat /\ D(next_free) \in Nat
      BY <1>0, <1>6, EntryFacts DEF TypeOK
    <2> QED
      BY <2>1, <1>2, <1>6, <1>7 DEF RingInv, EntriesInRing, Dist, Used
  <1>12. EntriesApart'
    <2>1. \A j \in Live : /\ ent'[j].sec = ent[j].sec /\ ent'[j].at = ent[j].at
                          /\ ent'[j].len = ent[j].len
      BY <1>4 DEF Live
    <2> QED
      BY <1>1, <1>5, <2>1 DEF RingInv, EntriesApart, Outside, Dist
  <1>13. \A j \in Live : ent[j].len > 0 =>
           \/ D(EntrySector) < D(ent[j].at)
           \/ D(EntrySector) >= D(ent[j].at) + ent[j].len
    <2>1. CASE Fits
      BY <2>1 DEF EntrySector, RingInv, OpenSector, Outside, Fits, Dist
    <2>2. CASE ~Fits
      BY <2>2, EntryFacts DEF EntrySector
    <2> QED
      BY <2>1, <2>2
  <1>14. OpenSector'
    <2>1. Pins(i)' /\ i \in Live'
      BY <1>1, <1>4, <1>5 DEF Pins
    <2>2. \A j \in Live : /\ ent'[j].sec = ent[j].sec /\ ent'[j].at = ent[j].at
                          /\ ent'[j].len = ent[j].len
      BY <1>4 DEF Live
    <2> QED
      BY <1>1, <1>3, <1>5, <1>7, <1>8, <1>13, <2>1, <2>2
      DEF OpenSector, Outside, Dist, Used, Positions
  <1>15. StabsOfDurable'
    <2> SUFFICES ASSUME NEW j \in Ids, ent'[j].stab # "none"
                 PROVE  /\ ent'[j].st = "done" /\ ent'[j].unst
                        /\ ent'[j].ssec \in Positions
                        /\ D(ent'[j].sec) <= D(ent'[j].ssec)
      BY <1>1 DEF StabsOfDurable, Dist, Positions
    <2>1. CASE j = i
      BY <2>1, <1>1, <1>3, <1>4, <1>5, <1>8
    <2>2. CASE j # i
      BY <2>2, <1>4 DEF RingInv, StabsOfDurable, Dist
    <2> QED
      BY <2>1, <2>2
  <1>16. TrimBehindLive'
    <2> SUFFICES ASSUME trim # 0
                 PROVE  /\ D(trim) <= D(FreeAfterEntry)
                        /\ \A j \in Live : D(trim) <= D(ent[j].sec)
                        /\ D(trim) <= D(EntrySector)
      BY <1>1, <1>4, <1>5 DEF TrimBehindLive, Dist, Used, Live
    <2>1. trim \in Positions /\ D(trim) \in Nat
      BY <1>0, <1>6 DEF TypeOK, Positions
    <2>2. /\ D(trim) <= D(next_free) /\ (Fits => D(trim) <= D(cur))
          /\ \A j \in Live : D(trim) <= D(ent[j].sec)
      BY DEF RingInv, TrimBehindLive, Dist, Used, Fits
    <2>3. D(trim) <= D(EntrySector)
      BY <2>2 DEF EntrySector
    <2> QED
      BY <1>2, <1>3, <1>6, <1>7, <2>1, <2>2, <2>3
  <1>17. DiskIsStart'
    BY <1>1 DEF RingInv, DiskIsStart
  <1>19. NoCrossing'
    BY <1>2 DEF RingInv, NoCrossing, WriteStab
  <1> QED
    BY <1>10, <1>11, <1>12, <1>14, <1>15, <1>16, <1>17, <1>19 DEF RingInv

(* The trim position is the oldest live sector, seen from used_start.       *)
LEMMA TrimPosOldest ==
  ASSUME RingInv, NEW t \in Positions, IsTrimPos(t)
  PROVE  /\ DistFrom(used_start, t) <= DistFrom(used_start, next_free)
         /\ \A i \in Live : DistFrom(used_start, t) <= DistFrom(used_start, ent[i].sec)
  <1>0. /\ TypeOK
        /\ used_start \in Positions /\ next_free \in Positions
        /\ DistFrom(used_start, next_free) \in Nat
    BY DistRange DEF RingInv, TypeOK
  <1>1. \A i \in Live : /\ ent[i].sec \in Positions
                        /\ DistFrom(used_start, ent[i].sec) \in Nat
                        /\ DistFrom(used_start, ent[i].sec) < DistFrom(used_start, next_free)
                        /\ ent[i].sec \in UsedSectors
    BY EntryFacts DEF UsedSectors
  <1>2. CASE UsedSectors = {}
    <2>1. t = next_free /\ Live = {}
      BY <1>1, <1>2 DEF IsTrimPos
    <2> QED
      BY <2>1, <1>0
  <1>3. CASE UsedSectors # {}
    <2>1. PICK k \in Live : t = ent[k].sec
      BY <1>3 DEF IsTrimPos, UsedSectors
    <2>2. ASSUME NEW i \in Live
          PROVE  DistFrom(used_start, t) <= DistFrom(used_start, ent[i].sec)
      <3>1. \/ t >= used_start /\ (ent[i].sec >= used_start => t <= ent[i].sec)
            \/ ent[i].sec < used_start /\ t < used_start /\ t <= ent[i].sec
        BY <1>0, <1>1, <1>3 DEF IsTrimPos, Positions
      <3> QED
        BY <3>1, <1>0, <1>1, RingAssumption DEF DistFrom, Positions
    <2> QED
      BY <1>0, <1>1, <2>1, <2>2
  <1> QED
    BY <1>2, <1>3

(* A trim starts at the oldest live sector.                                 *)
LEMMA TrimBeginInv ==
  ASSUME RingInv, NEW t \in Positions, TrimBegin(t)
  PROVE  RingInv'
  <1>0. TypeOK
    BY DEF RingInv
  <1>1. /\ UNCHANGED <<next_free, used_start, cur, room, ent, crossed>>
        /\ trim = 0 /\ trim' = t /\ disk' = disk \union {t} /\ IsTrimPos(t)
    BY DEF TrimBegin
  <1>2. Live' = Live
    BY <1>1 DEF Live
  <1>3. TypeOK'
    <2>1. t \in 0..(JLen - 1)
      BY RingAssumption DEF Positions
    <2> QED
      BY <1>0, <1>1, <2>1 DEF TypeOK
  <1>4. EntriesInRing' /\ EntriesApart' /\ StabsOfDurable'
    BY <1>1, <1>2 DEF RingInv, EntriesInRing, EntriesApart, StabsOfDurable,
                      Outside, Dist, Used, Positions
  <1>5. OpenSector'
    BY <1>1, <1>2 DEF RingInv, OpenSector, Outside, Pins, Dist, Used, Positions
  <1>6. TrimBehindLive'
    <2>1. /\ DistFrom(used_start, t) <= DistFrom(used_start, next_free)
          /\ \A i \in Live : DistFrom(used_start, t) <= DistFrom(used_start, ent[i].sec)
      BY <1>1, TrimPosOldest
    <2>2. room > 0 => DistFrom(used_start, t) <= DistFrom(used_start, cur)
      <3> SUFFICES ASSUME room > 0
                   PROVE  DistFrom(used_start, t) <= DistFrom(used_start, cur)
        OBVIOUS
      <3>1. PICK j \in Live : Pins(j)
        BY DEF RingInv, OpenSector
      <3>2. cur \in Positions /\ DistFrom(used_start, ent[j].sec) <= DistFrom(used_start, cur)
        BY DEF RingInv, OpenSector, Dist
      <3>3. /\ DistFrom(used_start, t) \in Nat /\ DistFrom(used_start, cur) \in Nat
            /\ DistFrom(used_start, ent[j].sec) \in Nat
        BY <3>2, EntryFacts
      <3> QED
        BY <2>1, <3>2, <3>3
    <2> QED
      BY <1>1, <1>2, <2>1, <2>2 DEF TrimBehindLive, Dist, Used
  <1>7. DiskIsStart'
    BY <1>1 DEF RingInv, DiskIsStart, Positions
  <1>8. NoCrossing'
    BY <1>1 DEF RingInv, NoCrossing
  <1> QED
    BY <1>3, <1>4, <1>5, <1>6, <1>7, <1>8 DEF RingInv

(* A trim ends: used_start moves to where no live entry is behind it.       *)
LEMMA TrimEndInv ==
  ASSUME RingInv, TrimEnd
  PROVE  RingInv'
  <1> DEFINE D(p) == DistFrom(used_start, p)
             E(p) == DistFrom(trim, p)
  <1>0. TypeOK
    BY DEF RingInv
  <1>1. /\ UNCHANGED <<next_free, cur, room, ent, crossed>>
        /\ trim # 0 /\ used_start' = trim /\ disk' = {trim} /\ trim' = 0
    BY DEF TrimEnd
  <1>2. Live' = Live
    BY <1>1 DEF Live
  <1>3. /\ used_start \in Positions /\ next_free \in Positions /\ trim \in Positions
        /\ D(trim) \in Nat /\ D(trim) <= D(next_free)
    BY <1>0, <1>1, DistRange DEF TypeOK, Positions, RingInv, TrimBehindLive, Dist, Used
  <1>4. \A p \in Positions : D(trim) <= D(p) => E(p) = D(p) - D(trim)
    BY <1>3, DistShift
  <1>5. \A p \in Positions : D(p) \in Nat /\ E(p) \in Nat
    BY <1>3, DistRange
  <1>6. \A j \in Live : /\ ent[j].len \in Nat /\ ent[j].sec \in Positions
                        /\ D(trim) <= D(ent[j].sec)
                        /\ D(ent[j].sec) < D(next_free)
                        /\ ent[j].len > 0 => /\ ent[j].at \in Positions
                                             /\ ent[j].at + ent[j].len <= JLen
                                             /\ D(ent[j].sec) < D(ent[j].at)
                                             /\ D(ent[j].at) + ent[j].len <= D(next_free)
    BY <1>1, EntryFacts DEF RingInv, TrimBehindLive, EntriesInRing, Dist, Used
  <1>7. \A j \in Live : /\ E(ent[j].sec) = D(ent[j].sec) - D(trim)
                        /\ ent[j].len > 0 => E(ent[j].at) = D(ent[j].at) - D(trim)
    BY <1>3, <1>4, <1>5, <1>6
  <1>8. E(next_free) = D(next_free) - D(trim)
    BY <1>3, <1>4
  <1>10. TypeOK'
    <2>1. 0 \in 0..(JLen - 1)
      BY RingAssumption
    <2> QED
      BY <1>0, <1>1, <1>3, <2>1 DEF TypeOK
  <1>11. EntriesInRing'
    <2>1. \A j \in Live :
            /\ ent[j].sec \in Positions /\ E(ent[j].sec) < E(next_free)
            /\ ent[j].len > 0 => /\ ent[j].at \in Positions
                                 /\ ent[j].at + ent[j].len <= JLen
                                 /\ E(ent[j].sec) < E(ent[j].at)
                                 /\ E(ent[j].at) + ent[j].len <= E(next_free)
      BY <1>3, <1>5, <1>6, <1>7, <1>8
    <2> QED
      BY <1>1, <1>2, <2>1 DEF EntriesInRing, Dist, Used, Positions
  <1>12. EntriesApart'
    <2> SUFFICES ASSUME NEW j \in Live, NEW k \in Live
                 PROVE  /\ ent[k].len > 0 =>
                             \/ E(ent[j].sec) < E(ent[k].at)
                             \/ E(ent[j].sec) >= E(ent[k].at) + ent[k].len
                        /\ j # k /\ ent[j].len > 0 /\ ent[k].len > 0 =>
                             \/ E(ent[j].at) + ent[j].len <= E(ent[k].at)
                             \/ E(ent[k].at) + ent[k].len <= E(ent[j].at)
      BY <1>1, <1>2 DEF EntriesApart, Outside, Dist
    <2>1. /\ ent[k].len > 0 =>
               \/ D(ent[j].sec) < D(ent[k].at)
               \/ D(ent[j].sec) >= D(ent[k].at) + ent[k].len
          /\ j # k /\ ent[j].len > 0 /\ ent[k].len > 0 =>
               \/ D(ent[j].at) + ent[j].len <= D(ent[k].at)
               \/ D(ent[k].at) + ent[k].len <= D(ent[j].at)
      BY DEF RingInv, EntriesApart, Outside, Dist
    <2> QED
      BY <2>1, <1>3, <1>5, <1>6, <1>7
  <1>13. OpenSector'
    <2> SUFFICES ASSUME room > 0
                 PROVE  /\ cur \in Positions /\ E(cur) < E(next_free)
                        /\ \A j \in Live :
                             /\ ent[j].len > 0 => \/ E(cur) < E(ent[j].at)
                                                  \/ E(cur) >= E(ent[j].at) + ent[j].len
                             /\ E(ent[j].sec) <= E(cur)
                        /\ \E j \in Live : Pins(j)
      BY <1>1, <1>2 DEF OpenSector, Outside, Pins, Dist, Used, Positions
    <2>1. /\ cur \in Positions /\ D(cur) < D(next_free) /\ D(trim) <= D(cur)
          /\ \A j \in Live :
               /\ ent[j].len > 0 => \/ D(cur) < D(ent[j].at)
                                    \/ D(cur) >= D(ent[j].at) + ent[j].len
               /\ D(ent[j].sec) <= D(cur)
          /\ \E j \in Live : Pins(j)
      BY <1>1 DEF RingInv, OpenSector, TrimBehindLive, Outside, Dist, Used
    <2>2. E(cur) = D(cur) - D(trim)
      BY <2>1, <1>4
    <2> QED
      BY <2>1, <2>2, <1>3, <1>5, <1>6, <1>7, <1>8
  <1>14. StabsOfDurable'
    <2> SUFFICES ASSUME NEW j \in Ids, ent[j].stab # "none"
                 PROVE  /\ ent[j].st = "done" /\ ent[j].unst
                        /\ ent[j].ssec \in Positions /\ E(ent[j].sec) <= E(ent[j].ssec)
      BY <1>1 DEF StabsOfDurable, Dist, Positions
    <2>1. /\ ent[j].st = "done" /\ ent[j].unst /\ j \in Live
          /\ ent[j].ssec \in Positions /\ D(ent[j].sec) <= D(ent[j].ssec)
      BY DEF RingInv, StabsOfDurable, Dist, Live
    <2>2. E(ent[j].ssec) = D(ent[j].ssec) - D(trim)
      BY <2>1, <1>3, <1>4, <1>5, <1>6
    <2> QED
      BY <2>1, <2>2, <1>3, <1>5, <1>6, <1>7
  <1>15. TrimBehindLive' /\ DiskIsStart' /\ NoCrossing'
    BY <1>1 DEF TrimBehindLive, DiskIsStart, NoCrossing, RingInv
  <1> QED
    BY <1>10, <1>11, <1>12, <1>13, <1>14, <1>15 DEF RingInv

(* Every step keeps the invariant, whatever the entry, length or position.  *)
LEMMA NextInv == RingInv /\ [Next]_vars => RingInv'
  <1> SUFFICES ASSUME RingInv, [Next]_vars PROVE RingInv'
    OBVIOUS
  <1>1. ASSUME NEW i \in Ids, NEW len \in DataLens, NEW unst \in BOOLEAN,
               NEW reserve \in 0..MaxReserve, NEW closes \in BOOLEAN,
               WriteEntry(i, len, unst, reserve, closes)
        PROVE  RingInv'
    BY <1>1, WriteEntryInv
  <1>2. ASSUME NEW i \in Ids, NEW kind \in {"stable", "rollback"},
               NEW closes \in BOOLEAN, WriteStab(i, kind, closes)
        PROVE  RingInv'
    BY <1>2, WriteStabInv
  <1>3. ASSUME NEW i \in Ids, NEW early \in BOOLEAN, EntryWritten(i, early)
        PROVE  RingInv'
    BY <1>3, EntryWrittenInv
  <1>4. ASSUME NEW i \in Ids, NEW early \in BOOLEAN, StableWritten(i, early)
        PROVE  RingInv'
    BY <1>4, StableWrittenInv
  <1>5. ASSUME NEW i \in Ids, NEW early \in BOOLEAN, RollbackWritten(i, early)
        PROVE  RingInv'
    BY <1>5, RollbackWrittenInv
  <1>6. ASSUME NEW i \in Ids, Flushed(i)
        PROVE  RingInv'
    BY <1>6, FlushedInv
  <1>7. ASSUME NEW t \in Positions, TrimBegin(t)
        PROVE  RingInv'
    BY <1>7, TrimBeginInv
  <1>8. CASE TrimEnd
    BY <1>8, TrimEndInv
  <1>9. CASE UNCHANGED vars
    <2>1. UNCHANGED <<next_free, used_start, cur, room, ent, trim, disk, crossed>>
      BY <1>9 DEF vars
    <2>2. Live' = Live
      BY <2>1 DEF Live
    <2>3. TypeOK' /\ NoCrossing' /\ StabsOfDurable'
      BY <2>1 DEF RingInv, TypeOK, NoCrossing, StabsOfDurable, Dist, Positions
    <2>4. room' > 0 => \E j \in Live' : Pins(j)'
      BY <2>1, <2>2 DEF RingInv, OpenSector, Pins
    <2> QED
      BY <2>1, <2>2, <2>3, <2>4, ReleaseInv
  <1>10. CASE CloseSector
    BY <1>10, CloseSectorInv
  <1> QED
    BY <1>1, <1>2, <1>3, <1>4, <1>5, <1>6, <1>7, <1>8, <1>9, <1>10 DEF Next

(* The used part of the ring always holds the live entries, apart from each *)
(* other, whatever a request leaves behind for STABLE and ROLLBACK.         *)
THEOREM RingInvariant == Spec => []RingInv
  BY InitInv, NextInv, PTL DEF Spec

(* The variables keep their types: no position is ever the superblock's.    *)
THEOREM TypeCorrect == Spec => []TypeOK
  <1>1. RingInv => TypeOK
    BY DEF RingInv
  <1> QED
    BY <1>1, RingInvariant, PTL

(* The assertions that next_free doesn't cross used_start never fail.       *)
THEOREM NeverCrosses == Spec => []NoCrossing
  <1>1. RingInv => NoCrossing
    BY DEF RingInv
  <1> QED
    BY <1>1, RingInvariant, PTL

(* Blocks of data keep their order around the ring.                         *)
LEMMA DataInRing ==
  ASSUME RingInv, NEW j \in Live, NEW p \in DataBlocks(j)
  PROVE  /\ p \in Positions /\ ent[j].at \in Positions /\ ent[j].len \in Nat
         /\ ent[j].len > 0
         /\ Dist(ent[j].at) \in Nat
         /\ Dist(p) = Dist(ent[j].at) + (p - ent[j].at)
         /\ ent[j].at <= p /\ p < ent[j].at + ent[j].len
  <1>0. /\ ent[j].len \in Nat /\ ent[j].at \in 0..(JLen - 1)
        /\ used_start \in Positions /\ next_free \in Positions
    BY DEF RingInv, TypeOK, EntryType, Live
  <1>1. /\ p \in Int /\ ent[j].at <= p /\ p < ent[j].at + ent[j].len /\ ent[j].len > 0
    BY <1>0, RingAssumption DEF DataBlocks
  <1>2. /\ ent[j].at \in Positions /\ ent[j].at + ent[j].len <= JLen
        /\ DistFrom(used_start, ent[j].at) + ent[j].len <= DistFrom(used_start, next_free)
    BY <1>1 DEF RingInv, EntriesInRing, Dist, Used
  <1>3. /\ DistFrom(used_start, next_free) <= JLen - 2
        /\ DistFrom(used_start, next_free) \in Nat
        /\ DistFrom(used_start, ent[j].at) \in Nat
    BY <1>0, <1>2, DistRange
  <1>4. p \in Positions
    BY <1>0, <1>1, <1>2, RingAssumption DEF Positions
  <1>5. DistFrom(used_start, ent[j].at) + ent[j].len <= JLen - 2
    BY <1>0, <1>2, <1>3, RingAssumption
  <1>6. DistFrom(used_start, p) = DistFrom(used_start, ent[j].at) + (p - ent[j].at)
    BY <1>0, <1>1, <1>2, <1>4, <1>5, DistInside
  <1> QED
    BY <1>0, <1>1, <1>2, <1>3, <1>4, <1>6 DEF Dist

(* No journal write ever lands on what dirty_db still reads from it.        *)
THEOREM NeverOverwrites == Spec => []NoOverwrite
  <1>1. RingInv => NoOverwrite
    <2> SUFFICES ASSUME RingInv, NEW i \in Live, NEW j \in Live
                 PROVE  /\ ent[i].sec \notin DataBlocks(j)
                        /\ i # j => DataBlocks(i) \cap DataBlocks(j) = {}
                        /\ DataBlocks(i) \subseteq Positions
      BY DEF NoOverwrite
    <2>1. ASSUME ent[i].sec \in DataBlocks(j) PROVE FALSE
      <3> DEFINE p == ent[i].sec
      <3>1. /\ p \in Positions /\ ent[j].at \in Positions /\ ent[j].len \in Nat
            /\ ent[j].len > 0
            /\ Dist(ent[j].at) \in Nat
            /\ Dist(p) = Dist(ent[j].at) + (p - ent[j].at)
            /\ ent[j].at <= p /\ p < ent[j].at + ent[j].len
        BY <2>1, DataInRing
      <3>2. Dist(p) < Dist(ent[j].at) \/ Dist(p) >= Dist(ent[j].at) + ent[j].len
        BY <3>1 DEF RingInv, EntriesApart, Outside
      <3>3. p \in Int /\ ent[j].at \in Int
        BY <3>1, RingAssumption DEF Positions
      <3> HIDE DEF p
      <3> QED
        BY <3>1, <3>2, <3>3
    <2>2. ASSUME i # j, NEW p \in DataBlocks(i), p \in DataBlocks(j) PROVE FALSE
      <3>1. /\ p \in Positions /\ ent[j].at \in Positions /\ ent[j].len \in Nat
            /\ ent[j].len > 0
            /\ Dist(ent[j].at) \in Nat
            /\ Dist(p) = Dist(ent[j].at) + (p - ent[j].at)
            /\ ent[j].at <= p /\ p < ent[j].at + ent[j].len
        BY <2>2, DataInRing
      <3>2. /\ ent[i].at \in Positions /\ ent[i].len \in Nat
            /\ ent[i].len > 0
            /\ Dist(ent[i].at) \in Nat
            /\ Dist(p) = Dist(ent[i].at) + (p - ent[i].at)
            /\ ent[i].at <= p /\ p < ent[i].at + ent[i].len
        BY <2>2, DataInRing
      <3>3. \/ Dist(ent[i].at) + ent[i].len <= Dist(ent[j].at)
            \/ Dist(ent[j].at) + ent[j].len <= Dist(ent[i].at)
        BY <2>2, <3>1, <3>2 DEF RingInv, EntriesApart
      <3>4. p \in Int /\ ent[i].at \in Int /\ ent[j].at \in Int
        BY <3>1, <3>2, RingAssumption DEF Positions
      <3> QED
        BY <3>1, <3>2, <3>3, <3>4
    <2>3. DataBlocks(i) \subseteq Positions
      BY DataInRing
    <2> QED
      BY <2>1, <2>2, <2>3
  <1> QED
    BY <1>1, RingInvariant, PTL

(* A restart that starts reading where the superblock says meets every live *)
(* entry, also in the middle of a trim.                                     *)
THEOREM SuperblockSafe == Spec => []SuperblockCoversLive
  <1>1. RingInv => SuperblockCoversLive
    <2> SUFFICES ASSUME RingInv, NEW s \in disk, NEW i \in Live
                 PROVE  DistFrom(s, ent[i].sec) < DistFrom(s, next_free)
      BY DEF SuperblockCoversLive
    <2>1. /\ used_start \in Positions /\ next_free \in Positions
          /\ ent[i].sec \in Positions /\ s \in Positions
          /\ DistFrom(used_start, ent[i].sec) < DistFrom(used_start, next_free)
      BY EntryFacts DEF RingInv, TypeOK
    <2>2. CASE s = used_start
      BY <2>1, <2>2
    <2>3. CASE s # used_start
      <3>1. s = trim /\ trim # 0
        BY <2>3 DEF RingInv, DiskIsStart
      <3>2. /\ DistFrom(used_start, s) <= DistFrom(used_start, next_free)
            /\ DistFrom(used_start, s) <= DistFrom(used_start, ent[i].sec)
        BY <3>1 DEF RingInv, TrimBehindLive, Dist, Used
      <3>3. /\ DistFrom(s, next_free)
                 = DistFrom(used_start, next_free) - DistFrom(used_start, s)
            /\ DistFrom(s, ent[i].sec)
                 = DistFrom(used_start, ent[i].sec) - DistFrom(used_start, s)
        BY <2>1, <3>2, DistShift
      <3>4. /\ DistFrom(used_start, next_free) \in Nat /\ DistFrom(used_start, s) \in Nat
            /\ DistFrom(used_start, ent[i].sec) \in Nat
        BY <2>1, DistRange
      <3> QED
        BY <2>1, <3>3, <3>4
    <2> QED
      BY <2>2, <2>3
  <1> QED
    BY <1>1, RingInvariant, PTL

=============================================================================
