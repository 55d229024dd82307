------------------------------ MODULE FlushSync ------------------------------
(***************************************************************************)
(* How the coroutines of the blockstore's flusher share fsyncs             *)
(* (src/src/blockstore, journal_flusher_co).  A flush writes data, syncs   *)
(* the data device, writes metadata and syncs the metadata device.  Both   *)
(* syncs go through fsync_batch: coroutines gather in a batch until every  *)
(* active one syncs or nothing is left to flush, and one of them then      *)
(* sends the fsync for all.  One that finds the submission queue full      *)
(* sends its fsync later, without looking whether somebody else has.       *)
(***************************************************************************)
EXTENDS Integers, FiniteSets

CONSTANTS
  Cos,       \* coroutines
  MaxQueue,  \* bound: objects in flush_queue
  MaxFlush   \* bound: flushes

ASSUME FlushAssumption == IsFiniteSet(Cos) /\ MaxQueue \in Nat /\ MaxFlush \in Nat

VARIABLES
  co,       \* coroutines: where they are and their cur_sync
  syncs,    \* the list of batches: kind, ready_count and state
  queue,    \* flush_queue.size()
  active,   \* active_flushers
  syncing,  \* syncing_flushers
  flushes   \* flushes begun

flushVars == <<co, syncs, queue, active, syncing, flushes>>

Kinds == {"data", "meta"}

Enqueue ==
  /\ queue < MaxQueue
  /\ queue' = queue + 1
  /\ UNCHANGED <<co, syncs, active, syncing, flushes>>

(* A coroutine takes an object.  Without journaled data to copy it writes   *)
(* metadata at once.                                                        *)
Dequeue(c, copies) ==
  /\ co[c].pc = "idle"
  /\ queue > 0 /\ flushes < MaxFlush
  /\ queue' = queue - 1
  /\ active' = active + 1
  /\ flushes' = flushes + 1
  /\ co' = [co EXCEPT ![c].pc = "writing", ![c].kind = IF copies THEN "data" ELSE "meta"]
  /\ UNCHANGED <<syncs, syncing>>

(* The batch of this kind that is not sent yet, at most one.                *)
OpenBatches(kind) == {s \in DOMAIN syncs : syncs[s].kind = kind /\ syncs[s].state = 0}
FreeId == CHOOSE s \in 1..(2 * Cardinality(Cos)) : s \notin DOMAIN syncs

BatchReady(sync) == sync >= active \/ queue = 0

(* The write has ended: join a batch, and send its fsync if it is complete. *)
(* Without a free SQE (full) the coroutine waits for one.                   *)
FlushWriteEnded(c, full) ==
  LET kind == co[c].kind
      new == OpenBatches(kind) = {}
      id == IF new THEN FreeId ELSE CHOOSE s \in OpenBatches(kind) : TRUE
      ready == BatchReady(syncing + 1)
      batch == [kind |-> kind, ready |-> IF new THEN 1 ELSE syncs[id].ready + 1,
                state |-> IF ready /\ ~full THEN 1 ELSE 0]
  IN /\ co[c].pc = "writing"
     /\ syncs' = [s \in DOMAIN syncs \union {id} |-> IF s = id THEN batch ELSE syncs[s]]
     /\ syncing' = syncing + 1
     /\ co' = [co EXCEPT ![c].pc = IF ~ready THEN "waiting" ELSE IF full THEN "sqe" ELSE "sent",
                        ![c].sync = id]
     /\ UNCHANGED <<queue, active, flushes>>

(* Mutant: the first coroutine to leave a batch erases it.                  *)
MutEraseFirst(c, s) ==
  /\ syncs' = [x \in DOMAIN s \ {co[c].sync} |-> s[x]]
  /\ syncing' = syncing - 1
  /\ co' = [co EXCEPT ![c] = IF @.kind = "data"
              THEN [pc |-> "writing", kind |-> "meta", sync |-> 0]
              ELSE [pc |-> "end", kind |-> "meta", sync |-> 0]]

(* Leave batch id, whose list of batches is now s: it is erased by the last *)
(* one, and the coroutine writes metadata or has finished its flush.        *)
Leave(c, s) ==
  LET id == co[c].sync
      left == s[id].ready - 1
  IN /\ syncs' = [x \in {y \in DOMAIN s : y # id \/ left > 0} |->
                    IF x = id THEN [s[x] EXCEPT !.ready = left] ELSE s[x]]
     /\ syncing' = syncing - 1
     /\ co' = [co EXCEPT ![c] = IF @.kind = "data"
                 THEN [pc |-> "writing", kind |-> "meta", sync |-> 0]
                 ELSE [pc |-> "end", kind |-> "meta", sync |-> 0]]

(* Mutant: a coroutine that waits does not look at the counters again.      *)
MutNeverResume(c, full) == FALSE

(* fsync_batch, resume_1: a coroutine that finds its batch complete and not *)
(* sent sends the fsync, or waits for an SQE.                               *)
SendBatch(c, full) ==
  LET id == co[c].sync
  IN /\ co[c].pc = "waiting"
     /\ syncs[id].state = 0
     /\ BatchReady(syncing)
     /\ syncs' = IF full THEN syncs ELSE [syncs EXCEPT ![id].state = 1]
     /\ co' = [co EXCEPT ![c].pc = IF full THEN "sqe" ELSE "sent"]
     /\ UNCHANGED <<queue, active, syncing, flushes>>

(* resume_0: an SQE is free.  The state of the batch is not read again, so  *)
(* a batch may get an fsync from each coroutine that waited for an SQE.     *)
SqeFound(c) ==
  /\ co[c].pc = "sqe"
  /\ syncs' = [syncs EXCEPT ![co[c].sync].state = 1]
  /\ co' = [co EXCEPT ![c].pc = "sent"]
  /\ UNCHANGED <<queue, active, syncing, flushes>>

(* The others go on when an fsync of the batch is sent.                     *)
GoOn(c) ==
  /\ co[c].pc = "waiting"
  /\ syncs[co[c].sync].state # 0
  /\ Leave(c, syncs)
  /\ UNCHANGED <<queue, active, flushes>>

(* The fsync has ended (resume_2).                                          *)
FsyncEnded(c) ==
  LET id == co[c].sync
  IN /\ co[c].pc = "sent"
     /\ Leave(c, [syncs EXCEPT ![id].state = 2])
     /\ UNCHANGED <<queue, active, flushes>>

(* The dirty versions are erased.                                           *)
FinishFlush(c) ==
  /\ co[c].pc = "end"
  /\ active' = active - 1
  /\ co' = [co EXCEPT ![c].pc = "idle"]
  /\ UNCHANGED <<syncs, queue, syncing, flushes>>

FlushInit ==
  /\ co = [c \in Cos |-> [pc |-> "idle", kind |-> "data", sync |-> 0]]
  /\ syncs = << >>
  /\ queue = 0 /\ active = 0 /\ syncing = 0 /\ flushes = 0

Coroutine(c) ==
  \/ \E full \in BOOLEAN : FlushWriteEnded(c, full) \/ SendBatch(c, full)
  \/ SqeFound(c) \/ GoOn(c) \/ FsyncEnded(c) \/ FinishFlush(c)

FlushNext ==
  \/ Enqueue
  \/ \E c \in Cos, copies \in BOOLEAN : Dequeue(c, copies)
  \/ \E c \in Cos : Coroutine(c)

(* The devices end every write and fsync, their completions free SQEs, and  *)
(* loop() runs every coroutine that can go on.                              *)
FlushFairness == \A c \in Cos : WF_flushVars(Coroutine(c))

FlushSpec == FlushInit /\ [][FlushNext]_flushVars /\ FlushFairness

-----------------------------------------------------------------------------
(* Properties.                                                              *)

Syncing == {c \in Cos : co[c].pc \in {"waiting", "sqe", "sent"}}
Members(s) == {c \in Syncing : co[c].sync = s}
Busy == {c \in Cos : co[c].pc # "idle"}

Coroutines == [pc : {"idle", "writing", "waiting", "sqe", "sent", "end"}, kind : Kinds,
               sync : 0..(2 * Cardinality(Cos))]
Batches == [kind : Kinds, ready : Nat, state : 0..2]

(* The types of the variables.                                              *)
FlushTypeOK ==
  /\ co \in [Cos -> Coroutines]
  /\ DOMAIN syncs \subseteq 1..(2 * Cardinality(Cos))
  /\ syncs \in [DOMAIN syncs -> Batches]
  /\ queue \in 0..MaxQueue /\ flushes \in 0..MaxFlush

BatchExact(s) ==
  /\ Members(s) # {}
  /\ syncs[s].ready = Cardinality(Members(s))
  /\ syncs[s].state = 1 => \E d \in Members(s) : co[d].pc = "sent"
  /\ \A d \in Members(s) : /\ co[d].kind = syncs[s].kind
                           /\ co[d].pc = "sent" => syncs[s].state # 0

(* The batches are the ones coroutines are in, also when several of them    *)
(* send the fsync of one batch after waiting for SQEs: cur_sync never       *)
(* points to an erased batch, a batch is erased with its last member, the   *)
(* members of a batch wait for the same device, whoever waits for an fsync  *)
(* is in a batch that later coroutines do not join, a batch in state 1 has  *)
(* somebody waiting for its fsync, and active_flushers and                  *)
(* syncing_flushers, which decide when a batch is complete, are exact.      *)
BatchesExact ==
  /\ \A c \in Syncing : co[c].sync \in DOMAIN syncs
  /\ \A s \in DOMAIN syncs : BatchExact(s)
  /\ syncing = Cardinality(Syncing)
  /\ active = Cardinality(Busy)

(* The inductive invariant.                                                 *)
FlushInv == FlushTypeOK /\ BatchesExact

(* Waiting for a batch to fill never blocks: every flush ends although its  *)
(* coroutine may wait for others, which may wait for it.                    *)
FlushesEnd == \A c \in Cos : co[c].pc # "idle" ~> co[c].pc = "idle"

(* A coroutine leaves a batch when its fsync has ended: "Wait until someone *)
(* else sends and completes a sync" (fsync_batch), so that metadata follows *)
(* its data.  Does not hold: it goes on when the fsync is sent.             *)
SyncedInOrder ==
  [][\A c \in Cos : GoOn(c) => syncs[co[c].sync].state = 2]_flushVars

(* One coroutine sends the fsync of a batch.  Does not hold: after waiting  *)
(* for an SQE nobody looks whether it was sent.                             *)
OneSender ==
  \A c, d \in Cos :
    /\ co[c].pc = "sent" /\ co[d].pc = "sent"
    /\ co[c].sync = co[d].sync
    => c = d

=============================================================================
