------------------------------- MODULE Client -------------------------------
(***************************************************************************)
(* The queue of operations of a client (cluster_client.cpp) and its cache  *)
(* of unsynced writes (cluster_client_wb.cpp), above OSDs that forget what *)
(* was not synced when a PG changes its primary.                           *)
(*                                                                         *)
(* A handler of the client runs to its end before the next event.  What it *)
(* calls in turn is kept in todo, and events wait until todo is empty.     *)
(* A unit is a range of bytes written as a whole; a write has a number and *)
(* the content of a unit is the number of the write that made it.          *)
(***************************************************************************)
EXTENDS Integers, FiniteSets, Sequences, FiniteSetsExt, SequencesExt

CONSTANTS Units,      \* 1 .. n, in the order of their offsets
          OSDs,       \* numbers of the OSDs, from 1
          Setups      \* [obj, inode: functions of units (an object is a PG),
                      \*  imm: inodes with immediate_commit=all, wb: writeback
                      \*  enabled, ranges: sets of units one write covers,
                      \*  writes, syncs, reads, drops, eio: how many of each,
                      \*  faults: the kinds of faults among the drops,
                      \*  maxbuf, iodepth, maxdirty: the client's limits,
                      \*  retryEio: client_eio_retry_interval is not 0]

ASSUME UnitsAssumption == IsFiniteSet(Units)

VARIABLES setup, queue, todo, overflow, cache, wbq, dirty, dirtyOsds,
          conn, view, nextId,
          \* the OSDs
          cut, prim, vol, dur, tracked,
          \* the user and the history of the run
          left, acked, promised, exempt, lastRead

clientVars == <<queue, todo, overflow, cache, wbq, dirty, dirtyOsds, conn, view, nextId>>
osdVars == <<cut, prim, vol, dur, tracked>>
userVars == <<left, acked, promised, exempt, lastRead>>
vars == <<setup, clientVars, osdVars, userVars>>

None == [val |-> 0, st |-> "none", fid |-> 0]
PGs == {setup.obj[u] : u \in Units}
UnitsOf(g) == {u \in Units : setup.obj[u] = g}
InodeOf(op) == setup.inode[Min(op.units)]

(***************************************************************************)
(* Operations.  parts is a function of the objects (of the OSDs for a      *)
(* SYNC): s is the state, o the OSD the part was sent to, after the        *)
(* operations whose parts were sent there before.  inflight_count and      *)
(* done_count are the numbers of parts in these states.                    *)
(***************************************************************************)
NoParts == <<>>
Unsent == [s |-> "none", o |-> 0, after |-> {}]
InFlight(p) == p.s \in {"sent", "ok", "EPIPE", "EIO", "lost"}
IsSent(p) == p.s \notin {"none", "retry"}

Op(kind, id, units, vals, flush) ==
  [kind |-> kind, id |-> id, units |-> units, vals |-> vals, flush |-> flush,
   imm |-> FALSE, st |-> 0, wait |-> 0, retry |-> FALSE, ret |-> "ok", reslice |-> FALSE,
   parts |-> NoParts, miss |-> {}, floor |-> [u \in Units |-> 0]]

Pending(op) == {g \in DOMAIN op.parts : InFlight(op.parts[g])}
AllDone(op) == \A g \in DOMAIN op.parts : op.parts[g].s = "done"
IsWrite(op) == op.kind = "write"
Ids(q) == {q[i].id : i \in DOMAIN q}
Pos(q, id) == CHOOSE i \in DOMAIN q : q[i].id = id
FlushCount(q) == Cardinality({i \in DOMAIN q : IsWrite(q[i]) /\ q[i].flush})
\* writebacks_active: the flushes in the queue and those about to be added to it
Active == FlushCount(queue) + Cardinality({i \in DOMAIN todo : todo[i].k = "add" /\ IsWrite(todo[i].op)})

\* Writes of pools with immediate commit neither wait nor are waited for, unless
\* there is a writeback cache.
Counted(op) == ~op.imm \/ setup.wb

\* Does an operation a, earlier in the queue, hold back b? (calc_wait)
Blocks(a, b) ==
  \/ IsWrite(b) /\ a.kind = "sync"
  \/ IsWrite(b) /\ IsWrite(a) /\ a.flush /\ ~b.flush
  \/ b.kind = "sync" /\ a.kind = "sync"
  \/ b.kind = "sync" /\ IsWrite(a) /\ (~a.imm \/ setup.wb)

\* Mutant: a repeated write in front does not hold back new writes.
MutCounts(a, b) ==
  IF IsWrite(a)
    THEN b.kind = "sync" /\ (~a.imm \/ setup.wb)
    ELSE a.kind = "sync" /\ b.kind \in {"sync", "write"}

\* ...and as inc_wait sees it when a is added in front of b or leaves the queue.
Counts(a, b) ==
  IF IsWrite(a)
    THEN \/ b.kind = "sync" /\ (~a.imm \/ setup.wb)
         \/ IsWrite(b) /\ a.flush /\ ~b.flush
    ELSE a.kind = "sync" /\ b.kind \in {"sync", "write"}

Go(id) == [k |-> "go", id |-> id]
Visit(id) == [k |-> "visit", id |-> id]
\* start_writebacks, for everything or until one run is started
Writeback(all) == [k |-> "wb", all |-> all]
\* The end of execute_internal, with the operation that goes to the queue
Add(op) == [k |-> "add", op |-> op]
\* continue_ops: every operation in the order of the queue
ContinueOps(q) == [i \in DOMAIN q |-> Visit(q[i].id)]

IncWait(q, from, a, inc) ==
  [i \in DOMAIN q |-> IF i >= from /\ Counts(a, q[i]) THEN [q[i] EXCEPT !.wait = @ + inc] ELSE q[i]]
\* The n-th smallest number of a set
Nth(S, n) == CHOOSE x \in S : Cardinality({y \in S : y <= x}) = n
\* The operations that inc_wait continues
Released(q, from, a) ==
  LET free == {i \in DOMAIN q : i >= from /\ Counts(a, q[i]) /\ q[i].wait = 0}
  IN  [n \in 1..Cardinality(free) |-> Go(q[Nth(free, n)].id)]

(***************************************************************************)
(* The cache.  A buffer is the contiguous units of one write, so one entry *)
(* per unit describes dirty_buffers.                                       *)
(***************************************************************************)
Adjacent(u, v) == setup.inode[u] = setup.inode[v] /\ (u = v + 1 \/ v = u + 1)
\* The maximal intervals of consecutive units in S with the same key, from left
\* to right.
Runs(S, key) ==
  LET starts == {u \in S : ~\E v \in S : v = u - 1 /\ Adjacent(u, v) /\ key[u] = key[v]}
      end(a) == Min({u \in S : u >= a /\ ~\E v \in S : v = u + 1 /\ Adjacent(u, v) /\ key[u] = key[v]})
  IN  [i \in 1..Cardinality(starts) |-> Nth(starts, i) .. end(Nth(starts, i))]
AllOne == [u \in Units |-> 0] \* a key that joins everything

\* The units of a buffer are those of one write.
BufferOf(c, u) ==
  LET runs == Runs({v \in Units : c[v] # None}, [v \in Units |-> c[v].val])
  IN  runs[CHOOSE i \in DOMAIN runs : u \in runs[i]]

DirtyUnits(c) == {u \in Units : c[u].st = "dirty"}
\* Consecutive dirty buffers are written back together (writeback_queue_size counts them).
DirtyRuns(c) == Runs(DirtyUnits(c), AllOne)

\* copy_write: cut the new range out of the old buffers and insert the new buffer
CopyWrite(c, op, st) ==
  [u \in Units |-> IF u \in op.units
     THEN [val |-> op.vals[u], st |-> st, fid |-> IF st = "dirty" THEN 0 ELSE op.id] ELSE c[u]]
\* is_left_merged or is_right_merged: the new buffer continues a dirty one
Merged(c, op) ==
  \E u \in op.units, v \in Units \ op.units : Adjacent(u, v) /\ c[v].st = "dirty"

\* mark_flush_written and delete_flush
Flushed(c, op, delete) ==
  [u \in Units |-> IF u \in op.units /\ c[u].fid = op.id /\ c[u].st = "repeating"
     THEN IF delete THEN None ELSE [c[u] EXCEPT !.fid = 0, !.st = "written"] ELSE c[u]]

FsyncStart(c) == [u \in Units |-> IF c[u].st = "written" THEN [c[u] EXCEPT !.st = "flushing"] ELSE c[u]]
FsyncError(c) == [u \in Units |-> IF c[u].st = "flushing" THEN [c[u] EXCEPT !.st = "written"] ELSE c[u]]
FsyncOk(c) == [u \in Units |-> IF c[u].st = "flushing" THEN None ELSE c[u]]

\* flush_buffers: one operation that writes the buffers of the units again
FlushOp(c, units, id) == Op("write", id, units, [u \in Units |-> IF u \in units THEN c[u].val ELSE 0], TRUE)
Repeating(c, units, id) ==
  [u \in Units |-> IF u \in units THEN [c[u] EXCEPT !.st = "repeating", !.fid = id] ELSE c[u]]

\* Mutant: buffers that a SYNC is flushing are not repeated.
MutRepeatable(b) == b.st = "written"
\* repeat_ops_for: the buffers that were written to the OSD or the PG and are
\* neither dirty nor on their way again
Repeatable(b) == b.st \in {"written", "flushing"}
Obsolete(c, affected) ==
  {u \in Units : Repeatable(c[u]) /\ BufferOf(c, u) \cap affected # {}}

\* The queue with the flushes of the runs pushed in front one after another
\* (unshift_op): flushes do not wait for each other, and an operation that waits
\* for one of them waits for each.
Unshift(q, c, runs, id) ==
  Reverse([i \in DOMAIN runs |-> FlushOp(c, runs[i], id + i - 1)])
    \o IncWait(q, 1, FlushOp(c, {}, id), Len(runs))

\* The state after repeat_ops_for, as [queue, cache, id, todo]
Repeat(q, c, affected) ==
  LET runs == Runs(Obsolete(c, affected), AllOne)
      fid(u) == CHOOSE i \in DOMAIN runs : u \in runs[i]
      units == UNION {runs[i] : i \in DOMAIN runs}
  IN  [queue |-> Unshift(q, c, runs, nextId),
       cache |-> [u \in Units |-> IF u \in units
                    THEN [c[u] EXCEPT !.st = "repeating", !.fid = nextId + fid(u) - 1] ELSE c[u]],
       id    |-> nextId + Len(runs),
       todo  |-> [i \in DOMAIN runs |-> Go(nextId + i - 1)]]

(***************************************************************************)
(* The user's requests (execute, execute_internal, check_rw)               *)
(***************************************************************************)
Checked(op) == [op EXCEPT !.imm = InodeOf(op) \in setup.imm]
Idle == todo = <<>>
\* The user calls the client from its own event or, if setup.reenter, from the
\* callback of a write that is answered at once.
MayCall == Idle \/ (setup.reenter /\ Head(todo).k = "ack")

\* append to the queue, count what it waits for, continue it if nothing (calc_wait)
Append2(q, op) ==
  Append(q, [op EXCEPT !.wait = IF Counted(op) THEN Cardinality({i \in DOMAIN q : Blocks(q[i], op)}) ELSE 0])
GoNow(q, op) == IF op.kind = "read" \/ Last(Append2(q, op)).wait = 0 THEN <<Go(op.id)>> ELSE <<>>

Outstanding == {queue[i] : i \in {j \in DOMAIN queue : ~queue[j].flush}} \cup Range(overflow)

\* A write in the writeback mode is copied and answered at once.
Buffered(op) == setup.wb /\ ~op.flush
CopyDirty(op, then) ==
  /\ cache' = CopyWrite(cache, op, "dirty")
  /\ wbq' = IF Merged(cache, op) THEN wbq ELSE Append(wbq, Min(op.units))
  /\ todo' = <<[k |-> "limit"], [k |-> "ack"]>> \o then
  /\ acked' = [u \in Units |-> IF u \in op.units THEN op.vals[u] ELSE acked[u]]
WriteBuffered(op) ==
  IF Active >= setup.iodepth
    THEN /\ overflow' = Append(overflow, op)
         /\ UNCHANGED <<queue, todo, cache, wbq, dirty, acked>>
    ELSE CopyDirty(op, todo) /\ UNCHANGED <<queue, overflow, dirty>>

\* Otherwise it goes to the queue; without immediate commit it is also kept for a repetition.
SyncFirst(op) == ~op.imm /\ dirty >= setup.maxdirty
WriteThrough(op) ==
  LET sync == Op("sync", nextId + 1, {}, <<>>, TRUE)
      q == IF SyncFirst(op) THEN Append2(queue, sync) ELSE queue
  IN  /\ cache' = IF op.imm THEN cache ELSE CopyWrite(cache, op, "repeating")
      /\ queue' = Append2(q, op)
      /\ todo' = (IF SyncFirst(op) THEN GoNow(queue, sync) ELSE <<>>) \o GoNow(q, op) \o todo
      /\ dirty' = IF op.imm THEN dirty ELSE (IF SyncFirst(op) THEN 0 ELSE dirty) + 1
      /\ UNCHANGED <<overflow, wbq, acked>>

Write(op) == IF Buffered(op) THEN WriteBuffered(Checked(op)) ELSE WriteThrough(Checked(op))

\* Unsynced content that the new write replaces in the cache while a SYNC is
\* to make it durable: nothing repeats it if the SYNC fails.
Replaced(units) ==
  IF \E x \in Outstanding : x.kind = "sync"
    THEN {<<u, cache[u].val>> : u \in {v \in units : cache[v] # None}} ELSE {}

UserWrite(units) ==
  LET n == setup.writes - left.writes + 1
      op == Op("write", nextId, units, [u \in Units |-> IF u \in units THEN n ELSE 0], FALSE)
  IN  /\ MayCall /\ left.writes > 0
      /\ ~\E x \in Outstanding : IsWrite(x) /\ x.units \cap units # {}
      /\ left' = [left EXCEPT !.writes = @ - 1]
      /\ nextId' = nextId + 2
      /\ Write(op)
      /\ exempt' = exempt \cup Replaced(units)
      /\ UNCHANGED <<setup, dirtyOsds, conn, view, osdVars, promised, lastRead>>

\* A SYNC first starts the writeback of everything that is dirty.
SyncOp(id) == [Op("sync", id, {}, <<>>, FALSE) EXCEPT !.floor = acked]
StartSync(op) ==
  IF overflow # <<>>
    THEN overflow' = Append(overflow, op) /\ UNCHANGED todo
    ELSE todo' = <<Writeback(TRUE), Add(op)>> \o todo /\ UNCHANGED overflow
UserSync ==
  /\ MayCall /\ left.syncs > 0
  /\ left' = [left EXCEPT !.syncs = @ - 1]
  /\ nextId' = nextId + 1
  /\ StartSync(SyncOp(nextId))
  /\ UNCHANGED <<setup, queue, cache, wbq, dirty, dirtyOsds, conn, view, osdVars, acked, promised, exempt, lastRead>>

UserRead(units) ==
  LET op == [Op("read", nextId, units, [u \in Units |-> 0], FALSE) EXCEPT !.floor = acked]
  IN  /\ MayCall /\ left.reads > 0
      /\ left' = [left EXCEPT !.reads = @ - 1]
      /\ nextId' = nextId + 1
      /\ queue' = Append2(queue, Checked(op))
      /\ todo' = <<Go(nextId)>> \o todo
      /\ UNCHANGED <<setup, overflow, cache, wbq, dirty, dirtyOsds, conn, view, osdVars, acked, promised, exempt, lastRead>>

\* start_writebacks takes the whole writeback_queue...
WritebackStep(e) ==
  IF wbq = <<>> THEN todo' = Tail(todo) /\ UNCHANGED wbq
  ELSE /\ todo' = <<[k |-> "list", all |-> e.all, end |-> FALSE, rest |-> wbq]>> \o Tail(todo)
       /\ wbq' = <<>>
\* ...and flushes the run of dirty buffers at each position of it through
\* execute_internal, which may push a SYNC before the flush.  What it did not
\* come to goes back, before the positions added meanwhile.
ListStep(e) ==
  LET pos == Head(e.rest)
      at == {u \in DirtyUnits(cache) : u >= pos /\ setup.inode[u] = setup.inode[pos]
                 /\ ~\E v \in Units : v >= pos /\ v < u /\ cache[v] # None /\ setup.inode[v] = setup.inode[u]}
      runs == DirtyRuns(cache)
      run == runs[CHOOSE i \in DOMAIN runs : at \subseteq runs[i]]
      op == Checked(FlushOp(cache, run, nextId))
      first == IF SyncFirst(op) THEN <<Writeback(TRUE), Add(Op("sync", nextId + 1, {}, <<>>, TRUE))>> ELSE <<>>
      then == <<[e EXCEPT !.rest = Tail(@), !.end = at # {} /\ ~e.all]>> \o Tail(todo)
  IN  \/ /\ e.rest = <<>> \/ e.end
         /\ todo' = Tail(todo)
         /\ wbq' = e.rest \o wbq
         /\ UNCHANGED <<cache, nextId>>
      \/ /\ e.rest # <<>> /\ ~e.end /\ at = {}
         /\ todo' = then
         /\ UNCHANGED <<cache, wbq, nextId>>
      \/ /\ e.rest # <<>> /\ ~e.end /\ at # {}
         /\ cache' = Repeating(cache, run, nextId)
         /\ todo' = first \o <<Add(op)>> \o then
         /\ nextId' = nextId + 2
         /\ UNCHANGED wbq

\* More runs are buffered than allowed: write one back.
LimitStep ==
  todo' = IF Len(DirtyRuns(cache)) > setup.maxbuf THEN <<Writeback(FALSE)>> \o todo ELSE Tail(todo)

\* A SYNC counts unsynced writes from zero; a flush without immediate commit is one.
AddStep(op) ==
  /\ queue' = Append2(queue, op)
  /\ todo' = GoNow(queue, op) \o Tail(todo)
  /\ dirty' = IF op.kind = "sync" THEN 0 ELSE IF op.imm THEN dirty ELSE dirty + 1

\* Requests that waited for a slot of the writeback (the end of erase_op):
\* e.rest is the list taken out of writeback_overflow.
OverflowStep(e) ==
  IF e.rest = <<>> \/ Active >= setup.iodepth
    THEN /\ todo' = Tail(todo)
         /\ overflow' = e.rest
         /\ UNCHANGED <<cache, wbq, acked>>
    ELSE LET op == Head(e.rest)
             then == <<[e EXCEPT !.rest = Tail(@)]>> \o Tail(todo)
         IN  /\ UNCHANGED overflow
             /\ IF IsWrite(op) THEN CopyDirty(op, then)
                ELSE /\ todo' = <<Writeback(TRUE), Add(op)>> \o then
                     /\ UNCHANGED <<cache, wbq, acked>>
(***************************************************************************)
(* continue_rw and continue_sync                                           *)
(***************************************************************************)
Objects(op) == {setup.obj[u] : u \in op.units}
\* Mutant: buffers that are on their way to the OSDs again are not read.
MutCached(op) == {u \in op.units : cache[u].st \in {"dirty", "written", "flushing"}}
Cached(op) == {u \in op.units : cache[u] # None}

\* slice_rw: parts for the objects; a read takes what the cache has.
Slice(op) ==
  LET parts == [g \in Objects(op) |-> IF op.kind = "read" /\ UnitsOf(g) \cap op.units \subseteq Cached(op)
                                        THEN [Unsent EXCEPT !.s = "done"] ELSE Unsent]
      vals == IF op.kind = "read" THEN [u \in Units |-> IF u \in Cached(op) THEN cache[u].val ELSE 0] ELSE op.vals
  IN  [op EXCEPT !.parts = parts, !.vals = vals, !.miss = op.units \ Cached(op), !.ret = "ok", !.reslice = FALSE]

\* try_send: the primary of the PG as the client knows it
\* Requests on the same connection that write the same units: the OSD executes
\* them first (the write_queue of an object keeps the order of arrival).
Ahead(op, g, o) ==
  {queue[i].id : i \in {j \in DOMAIN queue : /\ IsWrite(op) /\ IsWrite(queue[j]) /\ queue[j].units \cap op.units # {}
                                             /\ g \in DOMAIN queue[j].parts
                                             /\ queue[j].parts[g].s \in {"sent", "ok", "EPIPE", "EIO"}
                                             /\ queue[j].parts[g].o = o}}
Reachable(g) == view[g] # 0 /\ conn[view[g]] = "up"
Send(op) ==
  LET stay == {g \in DOMAIN op.parts : ~IsSent(op.parts[g]) /\ ~Reachable(g)}
  IN  [op EXCEPT !.parts = [g \in DOMAIN @ |-> IF IsSent(@[g]) \/ ~Reachable(g) THEN @[g]
                                               ELSE [s |-> "sent", o |-> view[g], after |-> Ahead(op, g, view[g])]],
                 !.retry = @ \/ \E g \in stay : op.parts[g].s = "retry",
                 !.st = IF stay = {} THEN 2 ELSE 1]
\* Content that is sent while an older write of the same unit waits for the
\* retry timer or is on another connection: the older one is written over it.
Overtakes(before, op) ==
  UNION {{<<u, op.vals[u]>> : u \in {v \in op.units \cap q.units : LET g == setup.obj[v] IN
             /\ op.parts[g].s = "sent" /\ before.parts[g].s # "sent"
             /\ q.vals[v] < op.vals[v] /\ g \in DOMAIN q.parts
             /\ q.parts[g].s # "done" /\ q.id \notin op.parts[g].after}} :
         q \in {x \in Range(queue) : IsWrite(op) /\ IsWrite(x)}}
\* The OSDs it starts to connect to
Wanted(op) == {view[g] : g \in {x \in DOMAIN op.parts : ~IsSent(op.parts[x]) /\ view[x] # 0}}
Connecting(op) == [o \in OSDs |-> IF o \in Wanted(op) /\ conn[o] = "none" THEN "wanted" ELSE conn[o]]

Fatal(op) == op.ret # "ok" /\ ~op.flush /\ op.ret # "EPIPE" /\ (op.ret # "EIO" \/ ~setup.retryEio)
\* A part failed and all parts have ended: try the rest again.
Failed(op) == Pending(op) = {} /\ ~AllDone(op)
Retried(op) ==
  IF op.reslice THEN Slice(op)
  ELSE [op EXCEPT !.ret = "ok",
                  !.parts = [g \in DOMAIN @ |-> IF @[g].s = "done" THEN @[g] ELSE [Unsent EXCEPT !.s = "retry"]]]

\* Where continue_rw goes on: the operation before it sends, or as it is
BeforeSend(op) ==
  CASE op.st = 0 -> Slice(op)
    [] op.st # 0 /\ Failed(op) /\ (op.st = 2 \/ op.reslice) -> Retried(op)
    [] OTHER -> op
Sends(op) == op.st = 0 \/ (op.st = 1 /\ ~op.reslice) \/ Failed(op)

Max2(a, b) == IF a > b THEN a ELSE b
Raise(f, op) == [u \in Units |-> IF u \in op.units THEN Max2(f[u], op.vals[u]) ELSE f[u]]

\* erase_op: out of the queue, the next operations are continued, requests
\* that waited for the writeback go on.
Erase(i, op, c) ==
  LET q0 == RemoveAt(queue, i)
      q == IF Counted(op) THEN IncWait(q0, i, op, -1) ELSE q0
      ovf == IF op.flush THEN <<[k |-> "ovf", rest |-> overflow]>> ELSE <<>>
  IN  /\ queue' = q
      /\ todo' = (IF Counted(op) THEN Released(q, i, op) ELSE <<>>) \o ovf \o Tail(todo)
      /\ overflow' = IF op.flush THEN <<>> ELSE overflow
      /\ cache' = c

\* The end of a read or a write
Finish(i, op) ==
  /\ Erase(i, op, IF op.kind = "read" THEN cache ELSE Flushed(cache, op, op.flush /\ op.imm))
  /\ acked' = IF IsWrite(op) /\ ~op.flush THEN Raise(acked, op) ELSE acked
  /\ lastRead' = IF op.kind = "read" THEN [units |-> op.units, vals |-> op.vals, floor |-> op.floor] ELSE lastRead

\* The buffer of a write that ended with an error stays as it is, in the place of
\* what was cached before: no operation of the queue repeats or releases it.
Abandoned(op) == IF IsWrite(op) /\ ~op.imm THEN {<<u, op.vals[u]>> : u \in op.units} ELSE {}

ContinueRw(i) ==
  LET was == queue[i]
      ready == BeforeSend(was)
      op == IF Sends(was) THEN Send(ready) ELSE [was EXCEPT !.st = 2]
  IN  IF was.st = 2 /\ Failed(was) /\ Fatal(was)
        THEN /\ Erase(i, was, cache)
             /\ exempt' = exempt \cup Abandoned(was)
             /\ UNCHANGED <<conn, acked, lastRead>>
        ELSE /\ conn' = IF Sends(was) THEN Connecting(ready) ELSE conn
             /\ exempt' = exempt \cup IF Sends(was) THEN Overtakes(ready, op) ELSE {}
             /\ IF Pending(op) = {} /\ AllDone(op) THEN Finish(i, op)
                ELSE /\ queue' = [queue EXCEPT ![i] = op]
                     /\ todo' = Tail(todo)
                     /\ UNCHANGED <<overflow, cache, acked, lastRead>>

\* continue_sync, begin: to every OSD with unsynced writes that is still connected
Connected == {o \in dirtyOsds : conn[o] = "up"}
Promise(op) == IF op.flush THEN promised ELSE [u \in Units |-> Max2(promised[u], op.floor[u])]
SyncSend(i) ==
  LET op == [queue[i] EXCEPT !.parts = [o \in Connected |-> [s |-> "sent", o |-> o, after |-> {}]], !.st = 1]
  IN  /\ dirtyOsds' = {}
      /\ IF dirtyOsds = {} THEN Erase(i, op, cache) /\ promised' = Promise(op)
         ELSE IF Connected = {} THEN Erase(i, op, FsyncOk(FsyncStart(cache))) /\ promised' = Promise(op)
         ELSE /\ queue' = [queue EXCEPT ![i] = op]
              /\ cache' = FsyncStart(cache)
              /\ todo' = Tail(todo)
              /\ UNCHANGED <<overflow, promised>>
\* ...and end
SyncEnd(i) ==
  LET op == queue[i]
  IN  /\ UNCHANGED dirtyOsds
      /\ IF Pending(op) # {} THEN todo' = Tail(todo) /\ UNCHANGED <<queue, overflow, cache, promised>>
         ELSE IF op.ret = "ok" THEN Erase(i, op, FsyncOk(cache)) /\ promised' = Promise(op)
         ELSE /\ queue' = [queue EXCEPT ![i] = [op EXCEPT !.parts = NoParts, !.ret = "ok", !.st = 0]]
              /\ cache' = FsyncError(cache)
              /\ todo' = Tail(todo)
              /\ UNCHANGED <<overflow, promised>>
ContinueSync(i) == IF queue[i].st = 1 THEN SyncEnd(i) ELSE SyncSend(i)

\* One step of the handler that is running
Step ==
  LET e == Head(todo) IN
  /\ ~Idle
  /\ UNCHANGED <<setup, view, osdVars, left>>
  /\ \/ /\ e.k \in {"go", "visit"}
        /\ \/ e.id \notin Ids(queue)
           \/ e.k = "visit" /\ e.id \in Ids(queue) /\ LET op == queue[Pos(queue, e.id)] IN op.retry \/ op.wait # 0
        /\ todo' = Tail(todo)
        /\ UNCHANGED <<queue, overflow, cache, wbq, dirty, dirtyOsds, conn, nextId, acked, promised, exempt, lastRead>>
     \/ /\ e.k \in {"go", "visit"}
        /\ e.id \in Ids(queue)
        /\ e.k = "visit" => LET op == queue[Pos(queue, e.id)] IN ~op.retry /\ op.wait = 0
        /\ UNCHANGED <<wbq, dirty, nextId>>
        /\ LET i == Pos(queue, e.id) IN
           \/ queue[i].kind = "sync" /\ ContinueSync(i) /\ UNCHANGED <<conn, acked, exempt, lastRead>>
           \/ queue[i].kind # "sync" /\ ContinueRw(i) /\ UNCHANGED <<dirtyOsds, promised>>
     \/ /\ e.k \in {"wb", "list", "limit", "add", "ack", "ovf"}
        /\ UNCHANGED <<conn, dirtyOsds, promised, exempt, lastRead>>
        /\ \/ e.k = "wb" /\ WritebackStep(e) /\ UNCHANGED <<queue, cache, nextId, overflow, dirty, acked>>
           \/ e.k = "list" /\ ListStep(e) /\ UNCHANGED <<queue, overflow, dirty, acked>>
           \/ e.k = "limit" /\ LimitStep /\ UNCHANGED <<queue, cache, wbq, nextId, overflow, dirty, acked>>
           \/ e.k = "add" /\ AddStep(e.op) /\ UNCHANGED <<cache, wbq, nextId, overflow, acked>>
           \/ e.k = "ack" /\ todo' = Tail(todo) /\ UNCHANGED <<queue, cache, wbq, nextId, overflow, dirty, acked>>
           \/ e.k = "ovf" /\ OverflowStep(e) /\ UNCHANGED <<queue, nextId, dirty>>
(***************************************************************************)
(* Answers, lost connections, timers and the cluster state                 *)
(***************************************************************************)
\* Parts that were written to the OSD or the PG by a write whose other parts are
\* not: the buffer is still on its way, so nothing repeats them.
Halfway(q, at) ==
  UNION {{<<u, q[i].vals[u]>> : u \in {v \in q[i].units : LET g == setup.obj[v] IN
              g \in DOMAIN q[i].parts /\ q[i].parts[g].s = "done" /\ <<g, q[i].parts[g].o>> \in at}} :
         i \in {j \in DOMAIN q : IsWrite(q[j])}}

\* stop_client and the repeer_pgs hook: what was written through the
\* connection is written again; the requests on it are cancelled later.
StopClient(o, q) ==
  LET lost == [i \in DOMAIN q |-> [q[i] EXCEPT !.parts =
                 [g \in DOMAIN @ |-> IF @[g].o = o /\ InFlight(@[g]) THEN [@[g] EXCEPT !.s = "lost"] ELSE @[g]]]]
      r == Repeat(lost, cache, {u \in Units : view[setup.obj[u]] = o})
  IN  /\ conn' = [conn EXCEPT ![o] = "none"]
      /\ exempt' = exempt \cup Halfway(q, PGs \X {o})
      /\ cut' = [cut EXCEPT ![o] = FALSE]
      /\ queue' = r.queue
      /\ cache' = r.cache
      /\ nextId' = r.id
      /\ todo' = r.todo \o (IF r.todo = <<>> THEN <<>> ELSE ContinueOps(r.queue))

\* handle_op_part
GoIfEnded(op) == IF Pending(op) = {} /\ ~op.retry THEN <<Go(op.id)>> ELSE <<>>
\* Content confirmed by an OSD that is not the primary in the client's view:
\* no loss of that connection repeats it (affects_osd goes by the view).
Misplaced(op, g) ==
  IF IsWrite(op) /\ view[g] # op.parts[g].o
    THEN {<<u, op.vals[u]>> : u \in op.units \cap UnitsOf(g)} ELSE {}
PartOk(i, g) ==
  LET op == [queue[i] EXCEPT !.parts[g].s = "done"]
  IN  /\ queue' = [queue EXCEPT ![i] = op]
      /\ dirtyOsds' = IF IsWrite(op) /\ ~op.imm THEN dirtyOsds \cup {op.parts[g].o} ELSE dirtyOsds
      /\ todo' = GoIfEnded(op)
      /\ exempt' = exempt \cup Misplaced(op, g)
      /\ UNCHANGED <<cache, conn, cut, nextId>>

WorseError(old, new) == IF old \in {"ok", "EPIPE"} \/ new = "EIO" THEN new ELSE old
PartError(i, g, r) ==
  LET ret == WorseError(queue[i].ret, r)
      op == [queue[i] EXCEPT !.parts[g].s = "error", !.ret = ret,
                             !.retry = @ \/ ret = "EPIPE" \/ (ret = "EIO" /\ setup.retryEio)]
      q == [queue EXCEPT ![i] = op]
      o == op.parts[g].o
  IN  /\ UNCHANGED dirtyOsds
      /\ IF ret = "EPIPE" /\ queue[i].parts[g].s # "lost"
           THEN StopClient(o, q)
           ELSE /\ queue' = q
                /\ todo' = GoIfEnded(op)
                /\ UNCHANGED <<cache, conn, cut, nextId, exempt>>

Reply(i, g) ==
  /\ Idle
  /\ \A j \in DOMAIN queue : queue[j].id \in queue[i].parts[g].after => ~InFlight(queue[j].parts[g])
  /\ LET s == queue[i].parts[g].s IN
     \/ s = "ok" /\ PartOk(i, g)
     \/ s \in {"EPIPE", "EIO"} /\ PartError(i, g, s)
     \/ s = "lost" /\ PartError(i, g, "EPIPE")
  /\ UNCHANGED <<setup, overflow, wbq, dirty, view, prim, vol, dur, tracked, left, acked, promised, lastRead>>

\* The connection is closed by the peer.
Notice(o) ==
  /\ Idle /\ conn[o] = "up" /\ cut[o]
  /\ StopClient(o, queue)
  /\ UNCHANGED <<setup, overflow, wbq, dirty, dirtyOsds, view, prim, vol, dur, tracked, left, acked, promised, lastRead>>

\* on_connect_peer
Connect(o) ==
  /\ Idle /\ conn[o] = "wanted"
  /\ conn' = [conn EXCEPT ![o] = "up"]
  /\ todo' = ContinueOps(queue)
  /\ UNCHANGED <<setup, queue, overflow, cache, wbq, dirty, dirtyOsds, view, nextId, osdVars, userVars>>

\* The retry timer: continue_ops(time_passed)
Timer(S) ==
  /\ Idle
  /\ queue' = [i \in DOMAIN queue |-> IF i \in S THEN [queue[i] EXCEPT !.retry = FALSE] ELSE queue[i]]
  /\ todo' = ContinueOps(queue)
  /\ UNCHANGED <<setup, overflow, cache, wbq, dirty, dirtyOsds, conn, view, nextId, osdVars, userVars>>
Waiting == {i \in DOMAIN queue : queue[i].retry}

\* on_change_pg_state_hook.  Answers of the old primary may still be on their way.
See(g) ==
  LET r == Repeat(queue, cache, UnitsOf(g))
  IN  /\ Idle /\ view[g] # prim[g]
      /\ view' = [view EXCEPT ![g] = prim[g]]
      /\ queue' = r.queue
      /\ cache' = r.cache
      /\ nextId' = r.id
      /\ todo' = r.todo \o ContinueOps(r.queue)
      /\ exempt' = exempt \cup Halfway(queue, {g} \X OSDs)
      /\ UNCHANGED <<setup, overflow, wbq, dirty, dirtyOsds, conn, osdVars, left, acked, promised, lastRead>>

\* on_change_pool_config_hook: another PG count
Reslice ==
  /\ Idle /\ left.drops > 0 /\ "reslice" \in setup.faults
  /\ left' = [left EXCEPT !.drops = @ - 1]
  /\ queue' = [i \in DOMAIN queue |-> IF queue[i].kind = "sync" THEN queue[i] ELSE [queue[i] EXCEPT !.reslice = TRUE]]
  /\ todo' = ContinueOps(queue)
  /\ UNCHANGED <<setup, overflow, cache, wbq, dirty, dirtyOsds, conn, view, nextId, osdVars, acked, promised, exempt, lastRead>>

(***************************************************************************)
(* The OSDs (osd_primary*.cpp, modelled by module PG)                      *)
(***************************************************************************)
Sent(i, g) ==
  /\ Idle
  /\ queue[i].parts[g].s = "sent" /\ ~cut[queue[i].parts[g].o]
  /\ \A j \in DOMAIN queue : queue[j].id \in queue[i].parts[g].after => queue[j].parts[g].s # "sent"
Answer(i, g, s) == queue' = [queue EXCEPT ![i].parts[g].s = s]
OtherThanOsd == <<setup, todo, overflow, cache, wbq, dirty, dirtyOsds, conn, view, nextId>>

ExecWrite(i, g) ==
  LET op == queue[i]  us == op.units \cap UnitsOf(g) IN
  /\ IsWrite(op) /\ Sent(i, g) /\ prim[g] = op.parts[g].o
  /\ Answer(i, g, "ok")
  /\ vol' = [u \in Units |-> IF u \in us THEN op.vals[u] ELSE vol[u]]
  /\ dur' = IF InodeOf(op) \in setup.imm THEN [u \in Units |-> IF u \in us THEN op.vals[u] ELSE dur[u]] ELSE dur
  /\ tracked' = IF InodeOf(op) \in setup.imm THEN tracked ELSE tracked \cup us
  /\ UNCHANGED <<OtherThanOsd, cut, prim, userVars>>

ExecRead(i, g) ==
  LET op == queue[i] IN
  /\ op.kind = "read" /\ Sent(i, g) /\ prim[g] = op.parts[g].o
  /\ queue' = [queue EXCEPT ![i].parts[g].s = "ok",
                            ![i].vals = [u \in Units |-> IF u \in op.miss \cap UnitsOf(g) THEN vol[u] ELSE @[u]]]
  /\ UNCHANGED <<OtherThanOsd, osdVars, userVars>>

ExecSync(i, o) ==
  LET us == {u \in tracked : prim[setup.obj[u]] = o} IN
  /\ queue[i].kind = "sync" /\ Sent(i, o)
  /\ Answer(i, o, "ok")
  /\ dur' = [u \in Units |-> IF u \in us THEN vol[u] ELSE dur[u]]
  /\ tracked' = tracked \ us
  /\ UNCHANGED <<OtherThanOsd, cut, prim, vol, userVars>>

\* The PG is not active on this OSD: -EPIPE
Refuse(i, g) ==
  /\ queue[i].kind # "sync" /\ Sent(i, g) /\ prim[g] # queue[i].parts[g].o
  /\ Answer(i, g, "EPIPE")
  /\ UNCHANGED <<OtherThanOsd, osdVars, userVars>>

\* -EIO or -ENOSPC
IOError(i, g) ==
  /\ left.eio > 0 /\ queue[i].kind # "sync" /\ Sent(i, g)
  /\ Answer(i, g, "EIO")
  /\ left' = [left EXCEPT !.eio = @ - 1]
  /\ UNCHANGED <<OtherThanOsd, osdVars, acked, promised, exempt, lastRead>>

\* A primary gives up a PG or crashes.  Unsynced content is kept or lost, and no
\* later SYNC covers it; the clients that wrote it are disconnected.
LosePrimary(g, crash, keep) ==
  LET o == prim[g]
      gs == IF crash THEN {x \in PGs : prim[x] = o} ELSE {g}
      us == UNION {UnitsOf(x) : x \in gs} \cap tracked
  IN  /\ Idle /\ left.drops > 0 /\ o # 0
      /\ (IF crash THEN "crash" ELSE "lose") \in setup.faults
      /\ left' = [left EXCEPT !.drops = @ - 1]
      /\ prim' = [x \in PGs |-> IF x \in gs THEN 0 ELSE prim[x]]
      /\ vol' = IF keep THEN vol ELSE [u \in Units |-> IF u \in us THEN dur[u] ELSE vol[u]]
      /\ tracked' = tracked \ us
      /\ cut' = [cut EXCEPT ![o] = conn[o] = "up" /\ (@ \/ crash \/ us # {})]
      /\ UNCHANGED <<clientVars, setup, dur, acked, promised, exempt, lastRead>>

GainPrimary(g, o) ==
  /\ Idle /\ prim[g] = 0
  /\ prim' = [prim EXCEPT ![g] = o]
  /\ UNCHANGED <<clientVars, setup, cut, vol, dur, tracked, userVars>>

\* The network breaks a connection.
NetDrop(o) ==
  /\ Idle /\ left.drops > 0 /\ conn[o] = "up" /\ ~cut[o] /\ "net" \in setup.faults
  /\ left' = [left EXCEPT !.drops = @ - 1]
  /\ cut' = [cut EXCEPT ![o] = TRUE]
  /\ UNCHANGED <<clientVars, setup, prim, vol, dur, tracked, acked, promised, exempt, lastRead>>

Init ==
  /\ setup \in Setups
  /\ queue = <<>> /\ todo = <<>> /\ overflow = <<>> /\ wbq = <<>>
  /\ cache = [u \in Units |-> None]
  /\ dirty = 0 /\ dirtyOsds = {} /\ nextId = 1
  /\ conn = [o \in OSDs |-> "none"] /\ cut = [o \in OSDs |-> FALSE]
  /\ prim \in {[g \in PGs |-> setup.home[g]]}
  /\ view = prim
  /\ vol = [u \in Units |-> 0] /\ dur = vol /\ tracked = {}
  /\ left = [writes |-> setup.writes, syncs |-> setup.syncs, reads |-> setup.reads,
             drops |-> setup.drops, eio |-> setup.eio]
  /\ acked = vol /\ promised = vol /\ exempt = {}
  /\ lastRead = [units |-> {}, vals |-> vol, floor |-> vol]

User == \/ \E units \in setup.ranges : UserWrite(units) \/ UserRead(units)
        \/ UserSync
Client == \/ Step
          \/ \E i \in DOMAIN queue : \E g \in DOMAIN queue[i].parts : Reply(i, g)
          \/ \E o \in OSDs : Notice(o) \/ Connect(o)
          \/ \E S \in SUBSET Waiting \ {{}} : Timer(S)
          \/ \E g \in PGs : See(g)
Osd == \/ \E i \in DOMAIN queue : \E g \in DOMAIN queue[i].parts :
             ExecWrite(i, g) \/ ExecRead(i, g) \/ ExecSync(i, g) \/ Refuse(i, g)
       \/ \E g \in PGs, o \in OSDs : GainPrimary(g, o)
Fault == \/ \E i \in DOMAIN queue : \E g \in DOMAIN queue[i].parts : IOError(i, g)
         \/ \E g \in PGs, crash, keep \in BOOLEAN : LosePrimary(g, crash, keep)
         \/ \E o \in OSDs : NetDrop(o)
         \/ Reslice
Next == User \/ Client \/ Osd \/ Fault
Spec == Init /\ [][Next]_vars

(***************************************************************************)
(* Properties                                                              *)
(***************************************************************************)
\* Operation numbers are unique, a cached unit has content, and the list that
\* erase_op took out of writeback_overflow is the whole of it: nobody added to
\* it while the requests in it were restarted (the assert in erase_op).
TypeOK ==
  /\ \A i \in DOMAIN queue : queue[i].kind \in {"read", "write", "sync"} /\ queue[i].st \in 0..2
                             /\ queue[i].ret \in {"ok", "EPIPE", "EIO"}
  /\ Cardinality(Ids(queue)) = Len(queue)
  /\ dirtyOsds \subseteq OSDs /\ tracked \subseteq Units
  /\ \A u \in Units : cache[u].st \in {"none", "dirty", "written", "flushing", "repeating"}
                      /\ (cache[u] = None <=> cache[u].val = 0)
  /\ (~Idle /\ Head(todo).k = "ovf") => overflow = <<>>

\* prev_wait, which calc_wait computes once and inc_wait then adjusts, is the
\* number of earlier operations an operation has to wait for, however operations
\* were appended, repeated in front of the queue or finished.
WaitsExact ==
  \A i \in DOMAIN queue : queue[i].kind # "read" /\ Counted(queue[i]) =>
    queue[i].wait = Cardinality({j \in 1..i-1 : Blocks(queue[j], queue[i])})

\* The assertion of inc_wait.  It fails, and the client stops, when a SYNC ends
\* before a write that came after it and was not counted.
Asserted == \A i \in DOMAIN queue : queue[i].wait >= 0

Excused(u, n) == \E x \in exempt : x[1] = u /\ x[2] >= n

\* What was acknowledged before a SYNC was requested is durable when the SYNC
\* succeeds (continue_sync), although OSDs lose unsynced writes in between and
\* the client repeats them; until then acknowledged content that is not durable
\* is held in the cache, and between events a buffer that is marked as being
\* repeated belongs to an operation of the queue.  Except where the code is known
\* to forget content (exempt): a new write replaced it in the cache while a SYNC
\* was outstanding (Replaced), a write ended with an error after it replaced it
\* (Abandoned), an older write of the unit was on another connection or waited
\* for its retry (Overtakes), the write was complete in one PG and not yet in the
\* others when that PG was lost (Halfway), or it was confirmed by an OSD that the
\* client no longer takes for the primary (Misplaced).
SyncDurable ==
  /\ \A u \in Units : dur[u] >= promised[u] \/ Excused(u, promised[u])
  /\ \A u \in Units : acked[u] > dur[u] =>
        \/ cache[u].val >= acked[u]
        \/ \E i \in 1..Len(overflow) : IsWrite(overflow[i]) /\ u \in overflow[i].units
        \/ Excused(u, acked[u])
  /\ Idle => \A u \in Units : cache[u].st = "repeating" =>
        cache[u].fid \in Ids(queue) \/ Excused(u, cache[u].val)

\* The same without the exceptions, as the comment on SYNC in cluster_client.cpp
\* promises: a SYNC is repeated after all the writes were repeated.
SyncDurableAll == \A u \in Units : dur[u] >= promised[u]

\* A read returns nothing older than what was acknowledged when it began, whether
\* it comes from the cache, from an OSD that forgot an unsynced write, or both
\* (slice_rw and read_from_cache).
ReadsFresh == \A u \in lastRead.units :
   lastRead.vals[u] >= lastRead.floor[u] \/ Excused(u, lastRead.floor[u])
=============================================================================
