-------------------------- MODULE FlushSync_proofs --------------------------
(***************************************************************************)
(* The fsync batches of the flusher are exact for every finite set of      *)
(* coroutines and every bound on the queue.                                *)
(***************************************************************************)
EXTENDS FlushSync, FiniteSetTheorems, TLAPS

-----------------------------------------------------------------------------
(* Counting coroutines.                                                     *)

(* Every set of coroutines is finite, and has no members if it counts 0.    *)
LEMMA Counted ==
  ASSUME NEW S \in SUBSET Cos
  PROVE  /\ IsFiniteSet(S)
         /\ Cardinality(S) \in Nat
         /\ Cardinality(S) <= Cardinality(Cos)
         /\ Cardinality(S) = 0 <=> S = {}
  <1>1. IsFiniteSet(S) /\ Cardinality(S) <= Cardinality(Cos)
    BY FS_Subset, FlushAssumption
  <1> QED BY <1>1, FS_CardinalityType, FS_EmptySet

(* A coroutine that joins a set is counted once more.                       *)
LEMMA OneMore ==
  ASSUME NEW S \in SUBSET Cos, NEW c \in Cos, c \notin S
  PROVE  Cardinality(S \union {c}) = Cardinality(S) + 1
  BY Counted, FS_AddElement

(* A coroutine that leaves a set is counted once less.                      *)
LEMMA OneLess ==
  ASSUME NEW S \in SUBSET Cos, NEW c \in S
  PROVE  Cardinality(S \ {c}) = Cardinality(S) - 1
  BY Counted, FS_RemoveElement

-----------------------------------------------------------------------------
(* There is always a number for a new batch: batches have members, so there *)
(* are at most as many as coroutines.                                       *)
LEMMA FreeIdFound ==
  ASSUME FlushTypeOK, BatchesExact, NEW c \in Cos
  PROVE  FreeId \in 1..(2 * Cardinality(Cos)) /\ FreeId \notin DOMAIN syncs
  <1> DEFINE N == Cardinality(Cos)
             f == [d \in Syncing |-> co[d].sync]
  <1>1. N \in Nat /\ N > 0
    BY Counted, FlushAssumption
  <1>2. Syncing \in SUBSET Cos
    BY DEF Syncing
  <1>3. IsFiniteSet(DOMAIN syncs) /\ Cardinality(DOMAIN syncs) <= Cardinality(Syncing)
    <2>1. f \in Surjection(Syncing, DOMAIN syncs)
      BY DEF BatchesExact, BatchExact, Members, Surjection
    <2> QED BY <2>1, <1>2, Counted, FS_Surjection
  <1>4. Cardinality(DOMAIN syncs) <= N
    BY <1>1, <1>2, <1>3, Counted, FS_CardinalityType
  <1>5. IsFiniteSet(1..(2 * N)) /\ Cardinality(1..(2 * N)) = 2 * N
    <2>1. 1 \in Int /\ 2 * N \in Int /\ ~(1 > 2 * N) /\ 2 * N - 1 + 1 = 2 * N
      BY <1>1
    <2> QED BY <2>1, FS_Interval, Zenon
  <1>6. ~(1..(2 * N) \subseteq DOMAIN syncs)
    <2> SUFFICES ASSUME 1..(2 * N) \subseteq DOMAIN syncs PROVE FALSE
      OBVIOUS
    <2>1. 2 * N <= Cardinality(DOMAIN syncs)
      <3> HIDE DEF N
      <3>1. Cardinality(1..(2 * N)) <= Cardinality(DOMAIN syncs)
        BY <1>3, FS_Subset, Zenon
      <3> QED BY <3>1, <1>5
    <2> QED BY <1>1, <1>3, <1>4, <2>1, FS_CardinalityType
  <1> QED BY <1>6 DEF FreeId

-----------------------------------------------------------------------------
(* The steps.                                                               *)

(* Joining a batch: the coroutine is counted in it and in syncing_flushers, *)
(* and waits for an fsync only if the batch is sent with it.                *)
LEMMA JoinStep ==
  ASSUME FlushInv, NEW c \in Cos, NEW full \in BOOLEAN, FlushWriteEnded(c, full)
  PROVE  FlushInv'
  <1> DEFINE kind == co[c].kind
             new == OpenBatches(kind) = {}
             id == IF new THEN FreeId ELSE CHOOSE s \in OpenBatches(kind) : TRUE
             ready == BatchReady(syncing + 1)
             batch == [kind |-> kind, ready |-> IF new THEN 1 ELSE syncs[id].ready + 1,
                       state |-> IF ready /\ ~full THEN 1 ELSE 0]
             pc == IF ~ready THEN "waiting" ELSE IF full THEN "sqe" ELSE "sent"
  <1>1. /\ co[c].pc = "writing"
        /\ syncs' = [s \in DOMAIN syncs \union {id} |-> IF s = id THEN batch ELSE syncs[s]]
        /\ syncing' = syncing + 1
        /\ co' = [co EXCEPT ![c].pc = pc, ![c].sync = id]
        /\ UNCHANGED <<queue, active, flushes>>
    BY DEF FlushWriteEnded
  <1>2. FlushTypeOK /\ BatchesExact
    BY DEF FlushInv
  <1>3. /\ id \in 1..(2 * Cardinality(Cos))
        /\ ~new => id \in DOMAIN syncs /\ syncs[id].kind = kind /\ syncs[id].state = 0
        /\ new => id \notin DOMAIN syncs
    BY <1>2, FreeIdFound DEF OpenBatches, FlushTypeOK
  <1>4. /\ pc \in {"waiting", "sqe", "sent"}
        /\ pc = "sent" <=> batch.state = 1
        /\ batch.state \in {0, 1}
        /\ batch.kind = kind
        /\ batch.ready = IF new THEN 1 ELSE syncs[id].ready + 1
    BY DEF BatchReady
  <1>5. batch \in Batches
    <2> HIDE DEF ready, id, new
    <2>1. kind \in Kinds /\ (~new => syncs[id].ready \in Nat)
      BY <1>2, <1>3 DEF FlushTypeOK, Batches, Coroutines
    <2> QED BY <2>1 DEF Batches
  <1> PICK i : i = id
    OBVIOUS
  <1> HIDE DEF id, ready, new, batch, pc
  <1>6. /\ c \notin Syncing /\ Syncing' = Syncing \union {c}
        /\ Busy' = Busy
        /\ \A d \in Cos : d # c => co'[d] = co[d]
        /\ co'[c] = [pc |-> pc, kind |-> kind, sync |-> i]
        /\ co' = [d \in Cos |-> co'[d]]
    BY <1>1, <1>2, <1>4 DEF Syncing, Busy, FlushTypeOK, Coroutines
  <1>7. /\ Members(i)' = Members(i) \union {c} /\ c \notin Members(i)
        /\ \A s \in DOMAIN syncs : s # i => Members(s)' = Members(s)
    <2>1. ASSUME NEW s
          PROVE  /\ s # i => Members(s)' = Members(s)
                 /\ s = i => Members(s)' = Members(s) \union {c}
      BY <1>6 DEF Members, Syncing
    <2> QED BY <2>1, <1>6 DEF Members
  <1>8. /\ DOMAIN syncs' = DOMAIN syncs \union {i} /\ syncs'[i] = batch
        /\ \A s \in DOMAIN syncs : s # i => syncs'[s] = syncs[s]
        /\ syncs' = [s \in DOMAIN syncs' |-> syncs'[s]]
    BY <1>1
  <1>9. FlushTypeOK'
    <2>1. co' \in [Cos -> Coroutines]
      <3>1. i \in 0..(2 * Cardinality(Cos)) /\ kind \in Kinds
        BY <1>2, <1>3 DEF FlushTypeOK, Coroutines
      <3>2. co'[c] \in Coroutines
        BY <1>4, <1>6, <3>1 DEF Coroutines
      <3> QED BY <1>2, <1>6, <3>2 DEF FlushTypeOK
    <2>2. \A s \in DOMAIN syncs' : syncs'[s] \in Batches
      BY <1>2, <1>5, <1>8 DEF FlushTypeOK
    <2>3. syncs' \in [DOMAIN syncs' -> Batches]
      BY <1>8, <2>2
    <2> QED BY <1>1, <1>2, <1>3, <1>8, <2>1, <2>3 DEF FlushTypeOK
  <1>10. \A d \in Syncing' : co'[d].sync \in DOMAIN syncs'
    BY <1>2, <1>6, <1>8 DEF BatchesExact, Syncing
  <1>11. ASSUME NEW s \in DOMAIN syncs', s # i PROVE BatchExact(s)'
    <2>1. s \in DOMAIN syncs /\ syncs'[s] = syncs[s] /\ Members(s)' = Members(s)
      BY <1>7, <1>8, <1>11
    <2>2. \A d \in Members(s) : co'[d] = co[d]
      BY <1>6 DEF Members, Syncing
    <2> QED BY <1>2, <2>1, <2>2 DEF BatchesExact, BatchExact
  <1>12. BatchExact(i)'
    <2>1. /\ Members(i) \in SUBSET Cos /\ Cardinality(Members(i)) \in Nat
          /\ Cardinality(Members(i)') = Cardinality(Members(i)) + 1
      BY <1>7, Counted, OneMore DEF Members, Syncing
    <2>2. \A d \in Members(i) : d # c /\ co'[d] = co[d]
      BY <1>6, <1>7 DEF Members, Syncing
    <2>3. syncs'[i].ready = Cardinality(Members(i)')
          /\ \A d \in Members(i) : co[d].kind = kind /\ co[d].pc # "sent"
      <3>1. CASE new
        <4>1. Members(i) = {}
          BY <1>2, <1>3, <3>1 DEF BatchesExact, Members
        <4>2. Cardinality(Members(i)) = 0
          BY <4>1, FS_EmptySet
        <4> QED BY <1>4, <1>8, <2>1, <3>1, <4>1, <4>2
      <3>2. CASE ~new
        <4>1. BatchExact(i)
          BY <1>2, <1>3, <3>2 DEF BatchesExact
        <4>2. syncs[i].ready = Cardinality(Members(i)) /\ syncs[i].kind = kind /\ syncs[i].state = 0
          BY <1>3, <3>2, <4>1 DEF BatchExact
        <4>3. \A d \in Members(i) : co[d].kind = syncs[i].kind /\ (co[d].pc = "sent" => syncs[i].state # 0)
          BY <4>1, Zenon DEF BatchExact
        <4>4. syncs'[i].ready = syncs[i].ready + 1
          BY <1>4, <1>8, <3>2
        <4> QED BY <2>1, <4>2, <4>3, <4>4
      <3> QED BY <3>1, <3>2
    <2>4. \A d \in Members(i)' : /\ co'[d].kind = syncs'[i].kind
                                 /\ co'[d].pc = "sent" => syncs'[i].state # 0
      <3>1. syncs'[i].kind = kind /\ (pc = "sent" => syncs'[i].state # 0)
        BY <1>4, <1>8
      <3> QED BY <1>6, <1>7, <2>2, <2>3, <3>1
    <2>5. syncs'[i].state = 1 => \E d \in Members(i)' : co'[d].pc = "sent"
      BY <1>4, <1>6, <1>7, <1>8
    <2> QED BY <1>7, <2>3, <2>4, <2>5 DEF BatchExact
  <1>13. syncing' = Cardinality(Syncing')
    <2>1. Syncing \in SUBSET Cos /\ syncing = Cardinality(Syncing)
      BY <1>2 DEF BatchesExact, Syncing
    <2>2. Cardinality(Syncing \union {c}) = Cardinality(Syncing) + 1
      BY <1>6, <2>1, OneMore
    <2> QED BY <1>1, <1>6, <2>1, <2>2
  <1>14. active' = Cardinality(Busy')
    BY <1>1, <1>2, <1>6 DEF BatchesExact
  <1>15. \A s \in DOMAIN syncs' : BatchExact(s)'
    BY <1>11, <1>12
  <1> QED BY <1>9, <1>10, <1>13, <1>14, <1>15 DEF FlushInv, BatchesExact

(* The list of batches u differs from syncs in the state of batch i, which  *)
(* was sent, and which is in state 1 only if somebody but c waits for it.   *)
LeftBy(c, i, u) ==
  /\ DOMAIN u = DOMAIN syncs
  /\ \A s \in DOMAIN syncs : s # i => u[s] = syncs[s]
  /\ u[i] \in Batches
  /\ u[i].kind = syncs[i].kind /\ u[i].ready = syncs[i].ready
  /\ u[i].state # 0
  /\ u[i].state = 1 => \E d \in Members(i) : d # c /\ co[d].pc = "sent"

(* Leaving batch i, whose fsync was sent (u = syncs) or has just ended: the *)
(* last one erases it.                                                      *)
LEMMA LeaveStep ==
  ASSUME FlushInv, NEW c \in Syncing, NEW u,
         LeftBy(c, co[c].sync, u),
         Leave(c, u),
         UNCHANGED <<queue, active, flushes>>
  PROVE  FlushInv'
  <1> PICK i : i = co[c].sync
    OBVIOUS
  <1> PICK left : left = u[i].ready - 1
    OBVIOUS
  <1>0. /\ DOMAIN u = DOMAIN syncs
        /\ \A s \in DOMAIN syncs : s # i => u[s] = syncs[s]
        /\ u[i] \in Batches
        /\ u[i].kind = syncs[i].kind /\ u[i].ready = syncs[i].ready
        /\ u[i].state # 0
        /\ u[i].state = 1 => \E d \in Members(i) : d # c /\ co[d].pc = "sent"
    BY DEF LeftBy
  <1>1. FlushTypeOK /\ BatchesExact /\ c \in Cos /\ Syncing \subseteq Cos
    BY DEF FlushInv, Syncing
  <1>2. /\ syncs' = [x \in {y \in DOMAIN u : y # i \/ left > 0} |->
                       IF x = i THEN [u[x] EXCEPT !.ready = left] ELSE u[x]]
        /\ syncing' = syncing - 1
        /\ co' = [co EXCEPT ![c] = IF @.kind = "data"
                    THEN [pc |-> "writing", kind |-> "meta", sync |-> 0]
                    ELSE [pc |-> "end", kind |-> "meta", sync |-> 0]]
    BY DEF Leave
  <1>3. /\ \A d \in Cos : d # c => co'[d] = co[d]
        /\ co'[c].pc \in {"writing", "end"} /\ co'[c].sync = 0 /\ co'[c].kind = "meta"
        /\ co' \in [Cos -> Coroutines]
    <2>1. 0 \in 0..(2 * Cardinality(Cos))
      BY Counted
    <2> QED BY <1>1, <1>2, <2>1 DEF FlushTypeOK, Coroutines, Kinds
  <1>4. Syncing' = Syncing \ {c} /\ Busy' = Busy
    BY <1>1, <1>3 DEF Syncing, Busy
  <1>5. ASSUME NEW s
        PROVE  /\ s # i => Members(s)' = Members(s)
               /\ s = i => Members(s)' = Members(s) \ {c}
    BY <1>3, <1>4 DEF Members, Syncing
  <1>6. /\ i \in DOMAIN syncs /\ c \in Members(i) /\ Members(i) \in SUBSET Cos
        /\ left = Cardinality(Members(i)') /\ left \in Nat
        /\ left > 0 <=> Members(i)' # {}
    <2>1. i \in DOMAIN syncs /\ c \in Members(i) /\ Members(i) \in SUBSET Cos
      BY <1>1 DEF BatchesExact, Members, Syncing
    <2>2. u[i].ready = Cardinality(Members(i))
      BY <1>0, <1>1, <2>1 DEF BatchesExact, BatchExact
    <2>3. Members(i)' = Members(i) \ {c}
      BY <1>5
    <2>4. left = Cardinality(Members(i) \ {c})
      BY <2>1, <2>2, OneLess
    <2>5. Cardinality(Members(i) \ {c}) \in Nat /\ (Cardinality(Members(i) \ {c}) = 0 <=> Members(i) \ {c} = {})
      BY <2>1, Counted
    <2>6. left \in Nat /\ (left > 0 <=> Members(i) \ {c} # {})
      <3> DEFINE M == Members(i) \ {c}
      <3>1. left = Cardinality(M) /\ Cardinality(M) \in Nat /\ (Cardinality(M) = 0 <=> M = {})
        BY <2>4, <2>5
      <3> HIDE DEF M
      <3>2. left \in Nat /\ (left > 0 <=> M # {})
        BY <3>1
      <3> QED BY <3>2 DEF M
    <2>7. left = Cardinality(Members(i)')
      BY <2>3, <2>4
    <2> QED BY <2>1, <2>3, <2>6, <2>7
  <1>7. /\ DOMAIN syncs' = {y \in DOMAIN syncs : y # i \/ left > 0}
        /\ \A s \in DOMAIN syncs' : s # i => syncs'[s] = syncs[s]
        /\ i \in DOMAIN syncs' =>
             /\ syncs'[i] \in Batches
             /\ syncs'[i].kind = syncs[i].kind /\ syncs'[i].state = u[i].state
             /\ syncs'[i].ready = left
    <2>1. [u[i] EXCEPT !.ready = left] =
            [kind |-> u[i].kind, ready |-> left, state |-> u[i].state]
      BY <1>0 DEF Batches
    <2>2. u[i] \in Batches /\ u[i].kind = syncs[i].kind
      BY <1>0
    <2>3. /\ DOMAIN syncs' = {y \in DOMAIN syncs : y # i \/ left > 0}
          /\ \A s \in DOMAIN syncs' : s # i => syncs'[s] = syncs[s]
      BY <1>0, <1>2
    <2>4. i \in DOMAIN syncs' => syncs'[i] = [u[i] EXCEPT !.ready = left]
      BY <1>2
    <2> QED BY <1>6, <2>1, <2>2, <2>3, <2>4 DEF Batches
  <1>8. FlushTypeOK'
    <2>1. \A s \in DOMAIN syncs' : syncs'[s] \in Batches
      BY <1>1, <1>7 DEF FlushTypeOK
    <2>2. syncs' \in [DOMAIN syncs' -> Batches]
      BY <1>2, <2>1
    <2> QED BY <1>1, <1>3, <1>7, <2>2 DEF FlushTypeOK
  <1>9. ASSUME NEW s \in DOMAIN syncs' PROVE BatchExact(s)'
    <2>1. s \in DOMAIN syncs
      BY <1>7
    <2>2. \A d \in Members(s)' : d \in Cos /\ d # c /\ d \in Members(s) /\ co'[d] = co[d]
      BY <1>3, <1>4, <1>5 DEF Members, Syncing
    <2>3. CASE s # i
      <3>1. Members(s)' = Members(s) /\ syncs'[s] = syncs[s]
        BY <1>5, <1>7, <2>3
      <3> QED BY <1>1, <2>1, <2>2, <3>1 DEF BatchesExact, BatchExact
    <2>4. CASE s = i
      <3>1. /\ Members(s)' = Members(i) \ {c} /\ left > 0 /\ syncs'[s].ready = left
            /\ syncs'[s].state = u[i].state /\ syncs'[s].state # 0
        BY <1>0, <1>5, <1>7, <2>4
      <3>2. syncs'[s].state = 1 => \E d \in Members(i) : d # c /\ co[d].pc = "sent"
        BY <1>0, <3>1
      <3>3. \A d \in Members(i) : co[d].kind = syncs[i].kind
        <4>1. BatchExact(i)
          BY <1>1, <2>1, <2>4 DEF BatchesExact
        <4> QED BY <4>1, Zenon DEF BatchExact
      <3>4. syncs'[s].state = 1 => \E d \in Members(s)' : co'[d].pc = "sent"
        <4> SUFFICES ASSUME syncs'[s].state = 1 PROVE \E d \in Members(s)' : co'[d].pc = "sent"
          OBVIOUS
        <4>1. PICK d \in Members(i) : d # c /\ co[d].pc = "sent"
          BY <3>2
        <4> QED BY <2>2, <3>1, <4>1
      <3>5. Members(s)' # {} /\ syncs'[s].ready = Cardinality(Members(s)')
        BY <1>6, <2>4, <3>1
      <3>6. \A d \in Members(s)' : co'[d].kind = syncs'[s].kind
        BY <1>7, <2>2, <2>4, <3>3
      <3> QED BY <3>1, <3>4, <3>5, <3>6 DEF BatchExact
    <2> QED BY <2>3, <2>4
  <1>10. \A d \in Syncing' : co'[d].sync \in DOMAIN syncs'
    <2> TAKE d \in Syncing'
    <2>1. d \in Syncing /\ d # c /\ co'[d] = co[d] /\ co[d].sync \in DOMAIN syncs
      BY <1>1, <1>3, <1>4 DEF BatchesExact
    <2>2. co[d].sync = i => d \in Members(i)'
      BY <1>5, <2>1 DEF Members
    <2> QED BY <1>6, <1>7, <2>1, <2>2
  <1>11. syncing' = Cardinality(Syncing')
    <2>1. Cardinality(Syncing \ {c}) = Cardinality(Syncing) - 1
      BY <1>1, OneLess
    <2> QED BY <1>1, <1>2, <1>4, <2>1 DEF BatchesExact
  <1> QED BY <1>1, <1>4, <1>8, <1>9, <1>10, <1>11 DEF BatchesExact, FlushInv

(* A member of a batch that was sent goes on.                               *)
LEMMA GoOnStep ==
  ASSUME FlushInv, NEW c \in Cos, GoOn(c)
  PROVE  FlushInv'
  <1> PICK i : i = co[c].sync
    OBVIOUS
  <1>1. /\ co[c].pc = "waiting" /\ syncs[i].state # 0 /\ Leave(c, syncs)
        /\ UNCHANGED <<queue, active, flushes>>
    BY DEF GoOn
  <1>2. FlushTypeOK /\ BatchesExact
    BY DEF FlushInv
  <1>3. c \in Syncing /\ i \in DOMAIN syncs
    BY <1>1, <1>2 DEF Syncing, BatchesExact
  <1>4. syncs[i] \in Batches
    BY <1>2, <1>3 DEF FlushTypeOK
  <1>5. syncs[i].state = 1 => \E d \in Members(i) : d # c /\ co[d].pc = "sent"
    BY <1>1, <1>2, <1>3 DEF BatchesExact, BatchExact
  <1>6. LeftBy(c, i, syncs)
    BY <1>1, <1>4, <1>5 DEF LeftBy
  <1> QED BY <1>1, <1>3, <1>6, LeaveStep

(* An fsync has ended.                                                      *)
LEMMA FsyncStep ==
  ASSUME FlushInv, NEW c \in Cos, FsyncEnded(c)
  PROVE  FlushInv'
  <1> PICK i : i = co[c].sync
    OBVIOUS
  <1> PICK u : u = [syncs EXCEPT ![i].state = 2]
    OBVIOUS
  <1>1. /\ co[c].pc = "sent" /\ Leave(c, u)
        /\ UNCHANGED <<queue, active, flushes>>
    BY DEF FsyncEnded
  <1>2. FlushTypeOK /\ BatchesExact
    BY DEF FlushInv
  <1>3. c \in Syncing /\ i \in DOMAIN syncs /\ syncs[i] \in Batches
    BY <1>1, <1>2 DEF Syncing, BatchesExact, FlushTypeOK
  <1>4. /\ DOMAIN u = DOMAIN syncs
        /\ \A s \in DOMAIN syncs : s # i => u[s] = syncs[s]
        /\ u[i] = [kind |-> syncs[i].kind, ready |-> syncs[i].ready, state |-> 2]
    BY <1>2, <1>3 DEF FlushTypeOK, Batches
  <1>5. u[i] \in Batches /\ u[i].kind = syncs[i].kind /\ u[i].ready = syncs[i].ready
        /\ u[i].state # 1 /\ u[i].state # 0
    BY <1>3, <1>4 DEF Batches
  <1>6. LeftBy(c, i, u)
    BY <1>4, <1>5 DEF LeftBy
  <1> QED BY <1>1, <1>3, <1>6, LeaveStep

(* A coroutine that waits in a batch goes on waiting, for an SQE or, with   *)
(* the batch sent, for its fsync.                                           *)
LEMMA StayStep ==
  ASSUME FlushInv, NEW c \in Syncing, NEW pc \in {"sqe", "sent"},
         co' = [co EXCEPT ![c].pc = pc],
         co[c].pc # "sent",
         pc = "sqe" => syncs' = syncs,
         pc = "sent" => syncs' = [syncs EXCEPT ![co[c].sync].state = 1],
         UNCHANGED <<queue, active, syncing, flushes>>
  PROVE  FlushInv'
  <1> PICK i : i = co[c].sync
    OBVIOUS
  <1>1. FlushTypeOK /\ BatchesExact /\ c \in Cos
    BY DEF FlushInv, Syncing
  <1>2. i \in DOMAIN syncs /\ syncs[i] \in Batches /\ c \in Members(i)
    BY <1>1 DEF Syncing, BatchesExact, FlushTypeOK, Members
  <1>3. /\ DOMAIN syncs' = DOMAIN syncs
        /\ \A s \in DOMAIN syncs : s # i => syncs'[s] = syncs[s]
        /\ syncs' = [s \in DOMAIN syncs' |-> syncs'[s]]
        /\ syncs'[i] \in Batches
        /\ syncs'[i].kind = syncs[i].kind /\ syncs'[i].ready = syncs[i].ready
        /\ pc = "sent" => syncs'[i].state = 1
        /\ pc = "sqe" => syncs'[i].state = syncs[i].state
    <2>1. CASE pc = "sqe"
      BY <1>1, <1>2, <2>1 DEF FlushTypeOK
    <2>2. CASE pc = "sent"
      <3>1. syncs'[i] = [kind |-> syncs[i].kind, ready |-> syncs[i].ready, state |-> 1]
        BY <1>1, <1>2, <2>2 DEF FlushTypeOK, Batches
      <3>2. syncs'[i] \in Batches
        BY <1>2, <3>1 DEF Batches
      <3> QED BY <1>1, <1>2, <2>2, <3>1, <3>2 DEF FlushTypeOK
    <2> QED BY <2>1, <2>2
  <1>4. /\ \A d \in Cos : co'[d].sync = co[d].sync /\ co'[d].kind = co[d].kind
        /\ \A d \in Cos : d # c => co'[d].pc = co[d].pc
        /\ co'[c].pc = pc
        /\ co' \in [Cos -> Coroutines]
    BY <1>1 DEF FlushTypeOK, Coroutines
  <1>5. Syncing' = Syncing /\ Busy' = Busy
    BY <1>1, <1>4 DEF Syncing, Busy
  <1>6. ASSUME NEW s PROVE Members(s)' = Members(s)
    BY <1>4, <1>5 DEF Members, Syncing
  <1>7. FlushTypeOK'
    <2>1. \A s \in DOMAIN syncs' : syncs'[s] \in Batches
      BY <1>1, <1>2, <1>3 DEF FlushTypeOK
    <2>2. syncs' \in [DOMAIN syncs' -> Batches]
      BY <1>3, <2>1
    <2> QED BY <1>1, <1>3, <1>4, <2>2 DEF FlushTypeOK
  <1>8. ASSUME NEW s \in DOMAIN syncs' PROVE BatchExact(s)'
    <2>1. s \in DOMAIN syncs /\ Members(s)' = Members(s) /\ BatchExact(s) /\ Members(s) \subseteq Cos
      BY <1>1, <1>3, <1>6 DEF BatchesExact, Members, Syncing
    <2>2. CASE s # i
      <3>1. syncs'[s] = syncs[s] /\ c \notin Members(s)
        BY <1>3, <2>1, <2>2 DEF Members
      <3> QED BY <1>4, <2>1, <3>1 DEF BatchExact
    <2>3. CASE s = i
      <3>4. /\ Members(s) # {} /\ syncs[s].ready = Cardinality(Members(s))
            /\ \A d \in Members(s) : co[d].kind = syncs[s].kind /\ (co[d].pc = "sent" => syncs[s].state # 0)
        BY <2>1, Zenon DEF BatchExact
      <3>1. /\ Members(s)' # {} /\ syncs'[s].ready = Cardinality(Members(s)')
            /\ \A d \in Members(s)' : co'[d].kind = syncs'[s].kind
        BY <1>3, <1>4, <2>1, <2>3, <3>4
      <3>2. ASSUME NEW d \in Members(s), co'[d].pc = "sent" PROVE syncs'[s].state # 0
        BY <1>3, <1>4, <2>1, <2>3, <3>2, <3>4
      <3>3. syncs'[s].state = 1 => \E d \in Members(s)' : co'[d].pc = "sent"
        <4>1. CASE pc = "sent"
          BY <1>2, <1>4, <2>1, <2>3, <4>1
        <4>2. CASE pc = "sqe"
          <5> SUFFICES ASSUME syncs'[s].state = 1 PROVE \E d \in Members(s)' : co'[d].pc = "sent"
            OBVIOUS
          <5>1. PICK d \in Members(s) : co[d].pc = "sent"
            BY <1>3, <2>1, <2>3, <4>2 DEF BatchExact
          <5> QED BY <1>4, <2>1, <5>1
        <4> QED BY <4>1, <4>2
      <3> QED BY <2>1, <3>1, <3>2, <3>3 DEF BatchExact
    <2> QED BY <2>2, <2>3
  <1>9. \A d \in Syncing' : co'[d].sync \in DOMAIN syncs'
    BY <1>1, <1>3, <1>4, <1>5 DEF BatchesExact, Syncing
  <1> QED BY <1>1, <1>5, <1>7, <1>8, <1>9 DEF BatchesExact, FlushInv

(* A coroutine finds its batch complete and not sent.                       *)
LEMMA SendStep ==
  ASSUME FlushInv, NEW c \in Cos, NEW full \in BOOLEAN, SendBatch(c, full)
  PROVE  FlushInv'
  <1>1. c \in Syncing /\ co[c].pc # "sent"
    BY DEF SendBatch, Syncing
  <1>2. CASE full
    BY <1>1, <1>2, StayStep DEF SendBatch
  <1>3. CASE ~full
    BY <1>1, <1>3, StayStep DEF SendBatch
  <1> QED BY <1>2, <1>3

(* A coroutine that waited for an SQE sends an fsync, of a batch that may   *)
(* have been sent.                                                          *)
LEMMA SqeStep ==
  ASSUME FlushInv, NEW c \in Cos, SqeFound(c)
  PROVE  FlushInv'
  <1>1. c \in Syncing /\ co[c].pc # "sent"
    BY DEF SqeFound, Syncing
  <1> QED BY <1>1, StayStep DEF SqeFound

(* A flush begins or ends: its coroutine is in no batch.                    *)
LEMMA OutsideStep ==
  ASSUME FlushInv, NEW c \in Cos,
         \A d \in Cos : d # c => co'[d] = co[d],
         c \notin Syncing, co'[c].pc \in {"writing", "idle"},
         co' \in [Cos -> Coroutines],
         active' = Cardinality(Busy'),
         queue' \in 0..MaxQueue, flushes' \in 0..MaxFlush,
         UNCHANGED <<syncs, syncing>>
  PROVE  FlushInv'
  <1>1. FlushTypeOK /\ BatchesExact
    BY DEF FlushInv
  <1>2. Syncing' = Syncing
    BY DEF Syncing
  <1>3. ASSUME NEW s PROVE Members(s)' = Members(s) /\ c \notin Members(s)
    BY <1>2 DEF Members, Syncing
  <1>4. FlushTypeOK'
    BY <1>1 DEF FlushTypeOK
  <1>5. ASSUME NEW s \in DOMAIN syncs' PROVE BatchExact(s)'
    <2>1. Members(s)' = Members(s) /\ \A d \in Members(s) : co'[d] = co[d]
      BY <1>3 DEF Members, Syncing
    <2> QED BY <1>1, <2>1 DEF BatchesExact, BatchExact
  <1>6. \A d \in Syncing' : co'[d].sync \in DOMAIN syncs'
    BY <1>1, <1>2 DEF BatchesExact, Syncing
  <1> QED BY <1>1, <1>2, <1>4, <1>5, <1>6 DEF BatchesExact, FlushInv

LEMMA DequeueStep ==
  ASSUME FlushInv, NEW c \in Cos, NEW copies \in BOOLEAN, Dequeue(c, copies)
  PROVE  FlushInv'
  <1> DEFINE k == IF copies THEN "data" ELSE "meta"
  <1>1. /\ co[c].pc = "idle" /\ queue > 0 /\ flushes < MaxFlush
        /\ queue' = queue - 1 /\ active' = active + 1 /\ flushes' = flushes + 1
        /\ co' = [co EXCEPT ![c].pc = "writing", ![c].kind = k]
        /\ UNCHANGED <<syncs, syncing>>
    BY DEF Dequeue
  <1>2. k \in Kinds
    BY DEF Kinds
  <1> HIDE DEF k
  <1>3. FlushTypeOK /\ BatchesExact
    BY DEF FlushInv
  <1>4. /\ \A d \in Cos : d # c => co'[d] = co[d]
        /\ co'[c].pc = "writing"
        /\ co' \in [Cos -> Coroutines]
    BY <1>1, <1>2, <1>3 DEF FlushTypeOK, Coroutines
  <1>5. c \notin Syncing /\ Busy' = Busy \union {c} /\ c \notin Busy
    BY <1>1, <1>4 DEF Syncing, Busy
  <1>6. active' = Cardinality(Busy')
    <2>1. Cardinality(Busy \union {c}) = Cardinality(Busy) + 1
      BY <1>5, OneMore DEF Busy
    <2> QED BY <1>1, <1>3, <1>5, <2>1 DEF BatchesExact
  <1>7. queue' \in 0..MaxQueue /\ flushes' \in 0..MaxFlush
    BY <1>1, <1>3, FlushAssumption DEF FlushTypeOK
  <1> QED BY <1>1, <1>4, <1>5, <1>6, <1>7, OutsideStep

LEMMA EndStep ==
  ASSUME FlushInv, NEW c \in Cos, FinishFlush(c)
  PROVE  FlushInv'
  <1>1. /\ co[c].pc = "end" /\ active' = active - 1
        /\ co' = [co EXCEPT ![c].pc = "idle"]
        /\ UNCHANGED <<syncs, queue, syncing, flushes>>
    BY DEF FinishFlush
  <1>2. FlushTypeOK /\ BatchesExact
    BY DEF FlushInv
  <1>3. /\ \A d \in Cos : d # c => co'[d] = co[d]
        /\ co'[c].pc = "idle"
        /\ co' \in [Cos -> Coroutines]
    BY <1>1, <1>2 DEF FlushTypeOK, Coroutines
  <1>4. c \notin Syncing /\ Busy' = Busy \ {c} /\ c \in Busy
    BY <1>1, <1>3 DEF Syncing, Busy
  <1>5. active' = Cardinality(Busy')
    <2>1. Cardinality(Busy \ {c}) = Cardinality(Busy) - 1
      BY <1>4, OneLess DEF Busy
    <2> QED BY <1>1, <1>2, <1>4, <2>1 DEF BatchesExact
  <1>6. queue' \in 0..MaxQueue /\ flushes' \in 0..MaxFlush
    BY <1>1, <1>2 DEF FlushTypeOK
  <1> QED BY <1>1, <1>3, <1>4, <1>5, <1>6, OutsideStep

-----------------------------------------------------------------------------
(* The inductive invariant.                                                 *)
LEMMA InitFlush == FlushInit => FlushInv
  <1> SUFFICES ASSUME FlushInit PROVE FlushInv
    OBVIOUS
  <1>1. Syncing = {} /\ Busy = {}
    BY DEF FlushInit, Syncing, Busy
  <1>2. syncing = Cardinality(Syncing) /\ active = Cardinality(Busy)
    BY <1>1, FS_EmptySet DEF FlushInit
  <1>3. FlushTypeOK
    <2>1. 0 \in 0..(2 * Cardinality(Cos)) /\ 0 \in 0..MaxQueue /\ 0 \in 0..MaxFlush
      BY Counted, FlushAssumption
    <2>2. DOMAIN syncs = {}
      BY DEF FlushInit
    <2>3. syncs \in [DOMAIN syncs -> Batches]
      BY <2>2 DEF FlushInit
    <2> QED BY <2>1, <2>2, <2>3 DEF FlushInit, FlushTypeOK, Coroutines, Kinds
  <1>4. BatchesExact
    BY <1>1, <1>2 DEF FlushInit, BatchesExact
  <1> QED BY <1>3, <1>4 DEF FlushInv

LEMMA FlushStep == FlushInv /\ [FlushNext]_flushVars => FlushInv'
  <1> SUFFICES ASSUME FlushInv, [FlushNext]_flushVars PROVE FlushInv'
    OBVIOUS
  <1>1. ASSUME UNCHANGED <<co, syncs, active, syncing, flushes>>, queue' \in 0..MaxQueue
        PROVE  FlushInv'
    <2>1. Syncing' = Syncing /\ Busy' = Busy
      BY <1>1 DEF Syncing, Busy
    <2>2. ASSUME NEW s PROVE Members(s)' = Members(s)
      BY <1>1, <2>1 DEF Members
    <2>3. FlushTypeOK'
      BY <1>1 DEF FlushInv, FlushTypeOK
    <2>4. BatchesExact'
      BY <1>1, <2>1, <2>2 DEF FlushInv, BatchesExact, BatchExact
    <2> QED BY <2>3, <2>4 DEF FlushInv
  <1>2. CASE Enqueue
    <2>1. queue' \in 0..MaxQueue
      BY <1>2, FlushAssumption DEF Enqueue, FlushInv, FlushTypeOK
    <2> QED BY <1>1, <1>2, <2>1 DEF Enqueue
  <1>3. CASE UNCHANGED flushVars
    <2>1. queue' \in 0..MaxQueue
      BY <1>3 DEF flushVars, FlushInv, FlushTypeOK
    <2> QED BY <1>1, <1>3, <2>1 DEF flushVars
  <1>4. CASE \E c \in Cos, copies \in BOOLEAN : Dequeue(c, copies)
    BY <1>4, DequeueStep
  <1>5. CASE \E c \in Cos : Coroutine(c)
    BY <1>5, JoinStep, SendStep, SqeStep, GoOnStep, FsyncStep, EndStep DEF Coroutine
  <1> QED BY <1>2, <1>3, <1>4, <1>5 DEF FlushNext

(* The inductive invariant of fsync_batch, for every number of coroutines   *)
(* and whenever the submission queue is full.                               *)
THEOREM FlushInvariant == FlushSpec => []FlushInv
  BY InitFlush, FlushStep, PTL DEF FlushSpec

(* The counters that decide when a batch is complete are exact and cur_sync *)
(* never points to an erased batch (fsync_batch), although a batch may get  *)
(* several fsyncs: BatchesExact for every number of coroutines.             *)
THEOREM BatchesAreExact == FlushSpec => []BatchesExact
  <1>1. FlushInv => BatchesExact
    BY DEF FlushInv
  <1> QED BY <1>1, FlushInvariant, PTL

=============================================================================
