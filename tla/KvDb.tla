-------------------------------- MODULE KvDb --------------------------------
(***************************************************************************)
(* The key-value database (kv_db.cpp): a B-tree in a shared block volume,  *)
(* changed by several client processes without locks.  A write of a block  *)
(* is a compare-and-swap on the version of the object that holds it, and a *)
(* block is split with a reference to its right half so that the tree is   *)
(* complete between any two writes.                                        *)
(*                                                                         *)
(* Keys are numbers; 0 is the empty lower bound and Inf the empty upper    *)
(* one.  Every item has the same size, a block holds Cap of them.  Cap is  *)
(* at least 3 because an item is at most a quarter of a block (update).    *)
(* Blocks are numbered; setup.per consecutive ones lie in one object.      *)
(* Eviction from the cache needs more than ten blocks and is left out.     *)
(***************************************************************************)
EXTENDS Integers, FiniteSets, Sequences, FiniteSetsExt, SequencesExt

CONSTANTS Cap, Inf,
          Setups   \* [tree: blocks on disk, per, ops: sequence of operations
                   \*  [c: client, kind, key, cas], maxalloc: kv_allocate_blocks,
                   \*  imm: immediate_commit, crashes, losses, errors: how many,
                   \*  fifo: reads of an object are answered in their order]

VARIABLES setup, disk, ver, db, op, left,
          map,     \* the content of the database: MapOf(disk)
          ever     \* every content it has had

vars == <<setup, disk, ver, db, op, left, map, ever>>

Obj(off) == off \div setup.per
Clients == {setup.ops[i].c : i \in DOMAIN setup.ops}
Ops == DOMAIN setup.ops
Default(f, x, v) == IF x \in DOMAIN f THEN f[x] ELSE v
Put(f, x, v) == [y \in DOMAIN f \cup {x} |-> IF y = x THEN v ELSE f[y]]
Drop(f, x) == [y \in DOMAIN f \ {x} |-> f[y]]

(***************************************************************************)
(* Blocks.  rhb is 0 unless the type is KV_INT_SPLIT or KV_LEAF_SPLIT.     *)
(***************************************************************************)
Zero == [t |-> "zero", ge |-> 0, lt |-> 0, rh |-> Inf, rhb |-> 0, data |-> <<>>]
Cleared == [Zero EXCEPT !.t = "empty"]
Block(t, ge, lt, data) == [t |-> t, ge |-> ge, lt |-> lt, rh |-> Inf, rhb |-> 0, data |-> data]
IsSplit(b) == b.rhb # 0
OnDisk(off) == Default(disk, off, Zero)
Version(x) == Default(ver, x, 0)

NoChange == [c |-> {}, key |-> 0, val |-> 0, rh |-> 0, rhb |-> 0]
\* A block in the cache: what is stored, and the state of its update.  new (not
\* a field of the source) is TRUE until the block is written for the first time.
Cached(b, upd) == [t |-> b.t, ge |-> b.ge, lt |-> b.lt, rh |-> b.rh, rhb |-> b.rhb, data |-> b.data,
                   upd |-> upd, inv |-> FALSE, chg |-> NoChange, new |-> upd > 0]

ChangedData(b, split) ==
  LET g == b.chg
      kept == {k \in DOMAIN b.data : (split => k < g.rh) /\ ~("del" \in g.c /\ k = g.key)}
  IN  [k \in kept \cup (IF "add" \in g.c THEN {g.key} ELSE {}) |->
         IF "add" \in g.c /\ k = g.key THEN g.val ELSE b.data[k]]
Serialized(b) ==
  LET clear == "clear" \in b.chg.c
      split == "split" \in b.chg.c /\ ~clear
  IN  [t |-> b.t, ge |-> b.ge, lt |-> IF clear THEN b.rh ELSE b.lt,
       rh |-> IF clear THEN Inf ELSE IF split THEN b.chg.rh ELSE b.rh,
       rhb |-> IF clear THEN 0 ELSE IF split THEN b.chg.rhb ELSE b.rhb,
       data |-> ChangedData(b, "split" \in b.chg.c)]
ApplyChange(b) ==
  LET clear == "clear" \in b.chg.c /\ IsSplit(b)
      split == ~clear /\ "split" \in b.chg.c /\ ~IsSplit(b)
      new == [b EXCEPT !.data = ChangedData(b, split), !.chg = NoChange]
  IN  IF clear THEN [new EXCEPT !.lt = b.rh, !.rh = Inf, !.rhb = 0]
      ELSE IF split THEN [new EXCEPT !.rh = b.chg.rh, !.rhb = b.chg.rhb] ELSE new

\* find_splitter: the left part is at most a half
Splitter(b) == SetToSortSeq(DOMAIN b.data, <)[Cap \div 2 + 1]

(***************************************************************************)
(* A client process (kv_db_t).  busy are the objects being written         *)
(* (new_versions), contW and contU the callbacks in continue_write and     *)
(* continue_update; todo are callbacks the running handler has to call.    *)
(***************************************************************************)
Known(d, x) == Default(d.known, x, 0)
NoOff == 0 - 1

\* find_size: try 2^i - 1, then search between the last two; sizes in objects.
\* The versions it meets are remembered
RECURSIVE FindSize(_, _, _, _)
FindSize(lo, hi, phase, known) ==
  LET at == IF phase = 1 THEN lo ELSE (lo + hi) \div 2
      seen == Put(known, at, Version(at))
  IN  IF phase = 2 /\ lo = hi - 1 THEN [size |-> hi, known |-> known]
      ELSE IF Version(at) # 0
        THEN IF phase = 1 THEN FindSize((lo + 1) * 2 - 1, 0, 1, seen) ELSE FindSize(at, hi, 2, seen)
        ELSE IF phase = 1 THEN FindSize((lo + 1) \div 2 - 1, lo, 2, seen) ELSE FindSize(lo, at, 2, seen)
Open ==
  LET found == FindSize(0, 0, 1, <<>>)
  IN  [cache |-> <<>>, known |-> found.known, busy |-> {}, contW |-> <<>>, contU |-> <<>>,
       alloc |-> <<>>, apos |-> 1, free |-> found.size * setup.per, todo |-> <<>>]

NoAlloc == [off |-> NoOff, w |-> FALSE, conf |-> FALSE]
SameObj(a, off) == a.off # NoOff /\ Obj(a.off) = Obj(off)
ClearAllocation(d, off) == [d EXCEPT !.alloc = [j \in DOMAIN @ |-> IF SameObj(@[j], off) THEN [@[j] EXCEPT !.off = NoOff] ELSE @[j]]]
Confirm(d, off) == [d EXCEPT !.alloc = [j \in DOMAIN @ |-> IF SameObj(@[j], off) THEN [@[j] EXCEPT !.conf = TRUE] ELSE @[j]]]
StopWritingNew(d, off) == [d EXCEPT !.alloc = [j \in DOMAIN @ |-> IF SameObj(@[j], off) THEN [@[j] EXCEPT !.w = FALSE] ELSE @[j]]]

\* alloc_block, as [d, off]
FirstUnused(d) ==
  LET used == {x \in DOMAIN d.known : d.known[x] # 0}
      after == IF used = {} THEN 0 ELSE (Max(used) + 1) * setup.per
  IN  Max({d.free, after})
Padded(d) == [j \in 1..Max({setup.maxalloc, Len(d.alloc)}) |-> IF j <= Len(d.alloc) THEN d.alloc[j] ELSE NoAlloc]
\* The entries that may be used, nearest to apos first; apos may be past the
\* end after an erase: what is read there is not NoOff
ReadyEntries(list, apos) ==
  IF apos <= Len(list) /\ list[apos].off = NoOff THEN <<>>
  ELSE SelectSeq([j \in 1..Len(list) |-> ((apos + j - 2) % Len(list)) + 1], LAMBDA j : list[j].conf /\ ~list[j].w)
TakeEntry(d, list, pos, fresh, off) ==
  LET ended == (off + 1) % setup.per = 0
      entry == [off |-> IF ended THEN NoOff ELSE off + 1, w |-> TRUE, conf |-> ~fresh /\ list[pos].conf]
  IN  [off |-> off,
       d   |-> [d EXCEPT !.apos = pos,
                         !.free = IF fresh THEN off + setup.per ELSE @,
                         !.alloc = IF ended /\ Len(list) > setup.maxalloc THEN RemoveAt(list, pos)
                                   ELSE [list EXCEPT ![pos] = entry]]]
AllocFrom(d, list, pos) ==
  IF list[pos].off = NoOff THEN TakeEntry(d, list, pos, TRUE, FirstUnused(d))
  ELSE TakeEntry(d, list, pos, FALSE, list[pos].off)
AllocIn(d, list, ready) ==
  IF ready = <<>> THEN AllocFrom(d, Append(list, NoAlloc), Len(list) + 1) ELSE AllocFrom(d, list, ready[1])
AllocBlock(d) == AllocIn(d, Padded(d), ReadyEntries(Padded(d), d.apos))

\* Mutant: a block that is being updated is not marked invalidated
MutInvalidate(d, x, v) ==
  IF Known(d, x) >= v THEN d
  ELSE [d EXCEPT !.known = Put(@, x, v),
                 !.cache = [off \in {y \in DOMAIN @ : Obj(y) # x \/ d.cache[y].upd > 0} |-> @[off]]]
\* invalidate: a newer version of the object was seen
Invalidate(d, x, v) ==
  IF Known(d, x) >= v THEN d
  ELSE LET d1 == IF Known(d, x) = 0 THEN ClearAllocation(d, x * setup.per) ELSE d
           stays(off) == Obj(off) # x \/ d.cache[off].upd > 0
       IN  [d1 EXCEPT !.known = Put(@, x, v),
                      !.cache = [off \in {y \in DOMAIN @ : stays(y)} |->
                                   IF Obj(off) = x THEN [@[off] EXCEPT !.inv = TRUE] ELSE @[off]]]

\* run_continue_update: call the first callback that waits for the block
RunContinue(d, off) ==
  LET js == {j \in DOMAIN d.contU : d.contU[j].off = off}
  IN  IF js = {} THEN d
      ELSE [d EXCEPT !.contU = RemoveAt(@, Min(js)),
                     !.todo = Append(@, [i |-> d.contU[Min(js)].i, ev |-> "wake"])]
\* Mutant: those who wait for the block are not called
MutStopUpdating(d, off) == [d EXCEPT !.cache[off].upd = @ - 1]
StopUpdating(d, off) ==
  LET d1 == [d EXCEPT !.cache[off].upd = @ - 1]
  IN  IF d1.cache[off].upd = 0 THEN RunContinue(d1, off) ELSE d1
Forget(d, off) == RunContinue([d EXCEPT !.cache = Drop(@, off)], off)

(***************************************************************************)
(* Operations (kv_op_t).  The operators below are the functions of the     *)
(* source; they take the client's state d and the operation o with number  *)
(* i, and return both as [d, o].  o.call names the function called next,   *)
(* and Run calls on until there is none.                                   *)
(***************************************************************************)
NoJob == [pos |-> 0, del |-> FALSE, key |-> 0, val |-> 0, then |-> "finish"]
NoWrite == [k |-> "none", off |-> 0, img |-> Zero, ver |-> 0, ok |-> FALSE, err |-> FALSE]
Idle == [pc |-> "idle", cur |-> 0, key |-> 0, ge |-> 0, lt |-> Inf, path |-> <<>>, pol |-> "none",
         up |-> {}, retry |-> FALSE, skip |-> FALSE, job |-> NoJob, w |-> NoWrite, root |-> Zero,
         right |-> 0, left |-> 0, sep |-> 0, clear |-> <<>>, buf |-> [ver |-> 0, b |-> Zero],
         fails |-> FALSE, res |-> "none", val |-> 0, got |-> <<>>, seen |-> {}, trust |-> {}, dead |-> FALSE,
         call |-> "none"]
Kind(i) == setup.ops[i].kind
IsUpdate(i) == Kind(i) \in {"set", "del"}
Tracks(i) == Kind(i) \in {"set", "del", "list"}
RootPath == <<[off |-> 0, ver |-> 0]>>
At(d, o) == [d |-> d, o |-> o]
Call(d, o, f) == [d |-> d, o |-> [o EXCEPT !.call = f]]
Finish(d, o, res) == At(d, [o EXCEPT !.pc = "done", !.res = res])

\* get_block
GetBlock(d, o, i) ==
  LET has == o.cur \in DOMAIN d.cache
      b == d.cache[o.cur]
      plainLeaf == b.t = "leaf" /\ ~IsSplit(b)
      use == has /\ (b.upd > 0 \/ (~b.inv /\ (o.pol = "none" \/ (o.pol = "leaf" /\ ~plainLeaf))))
  IN  IF ~use THEN At(d, [o EXCEPT !.pc = IF has /\ ~b.inv THEN "check" ELSE "read"])
      ELSE IF b.upd > 0 /\ o.pol = "wait"
        THEN At([d EXCEPT !.contU = Append(@, [off |-> o.cur, i |-> i])], [o EXCEPT !.pc = "gwait"])
      ELSE At(d, [o EXCEPT !.pc = "cached"])

FromRoot(o) == [o EXCEPT !.cur = 0, !.ge = 0, !.lt = Inf, !.path = RootPath]
\* update
Update(d, o) == Call(d, FromRoot(o), "get")

\* The callback of update_block
JobDone(d, o, res) ==
  IF o.job.then = "again" /\ res = "ok" THEN Update(d, o) ELSE Finish(d, o, res)

\* write_block: the block is in the cache, only the new root is not yet
Target(d, o) == IF o.w.k = "newroot" THEN o.root ELSE d.cache[o.w.off]
Queued(d, x) == SelectSeq(d.contW, LAMBDA q : q.x = x)
CancelQueued(d, x, ev) ==
  [d EXCEPT !.contW = SelectSeq(@, LAMBDA q : q.x # x),
            !.todo = @ \o [j \in DOMAIN Queued(d, x) |-> [i |-> Queued(d, x)[j].i, ev |-> ev]]]
WriteBlock(d, o, i) ==
  LET b == Target(d, o)
      x == Obj(o.w.off)
      own == [i |-> i, ev |-> "cancel"]
  IN  IF b.inv THEN At([CancelQueued(d, x, "cancel") EXCEPT !.todo = Append(@, own)], [o EXCEPT !.pc = "cancelled"])
      ELSE IF x \in d.busy THEN At([d EXCEPT !.contW = Append(@, [x |-> x, i |-> i])], [o EXCEPT !.pc = "queued"])
      ELSE At([d EXCEPT !.busy = @ \cup {x}],
              [o EXCEPT !.pc = "sent", !.w.img = Serialized(b), !.w.ver = 1 + Known(d, x)])
Write(d, o, k, off) == Call(d, [o EXCEPT !.w = [NoWrite EXCEPT !.k = k, !.off = off]], "write")

\* create_new_block and the first attempt of write_new_block
CreateNew(d, o, isRight) ==
  LET b == d.cache[o.path[o.job.pos].off]
      a == AllocBlock(d)
      mine == {k \in DOMAIN b.data : (k >= o.sep) = isRight}
      add == IF (o.job.key >= o.sep) = isRight THEN {o.job.key} ELSE {}
      data == [k \in mine \cup add |-> IF k \in add THEN o.job.val ELSE b.data[k]]
      new == Block(b.t, IF isRight THEN o.sep ELSE b.ge, IF isRight THEN b.lt ELSE o.sep, data)
      d1 == [a.d EXCEPT !.cache = Put(@, a.off, Cached(new, 1))]
  IN  IF a.off \in DOMAIN d.cache THEN Finish(d, o, "abort")
      ELSE IF isRight THEN Write(d1, [o EXCEPT !.right = a.off], "right", a.off)
      ELSE Write(d1, [o EXCEPT !.left = a.off], "left", a.off)

\* update_block
Modify(d, o, i) ==
  LET job == o.job
      off == o.path[job.pos].off
      b == d.cache[off]
      has == job.key \in DOMAIN b.data
      top == job.pos = Len(o.path)
      clear == IF IsSplit(b) THEN {"clear"} ELSE {}
      fits == job.del \/ Cardinality(DOMAIN b.data \cup {job.key}) <= Cap
      what == IF job.del THEN {"del"} ELSE IF has THEN {"add", "del"} ELSE {"add"}
      changed == [b EXCEPT !.upd = @ + 1, !.chg = [NoChange EXCEPT !.c = clear \cup (IF fits THEN what ELSE {}),
                                                                   !.key = job.key, !.val = job.val]]
      d1 == [d EXCEPT !.cache[off] = changed]
  IN  IF IF has THEN ~job.del /\ b.data[job.key] = job.val ELSE job.del
        THEN JobDone(RunContinue(d, off), o, "ok")
      ELSE IF setup.ops[i].cas /\ top /\ has THEN JobDone(RunContinue(d, off), o, "EAGAIN")
      ELSE IF IsSplit(b) /\ top /\ o.lt > b.rh THEN Finish(d, o, "abort")
      ELSE IF fits /\ IsSplit(b) /\ job.key >= b.rh THEN Finish(d, o, "abort")
      ELSE IF fits THEN Write(d1, o, "modify", off)
      ELSE Call(d1, [o EXCEPT !.sep = Splitter(b)], "right")

UpdateBlock(d, o, i) ==
  LET p == o.path[o.job.pos]
  IN  IF p.off \notin DOMAIN d.cache THEN Update(RunContinue(d, p.off), o)
      ELSE IF d.cache[p.off].upd > 0
        THEN At([d EXCEPT !.contU = Append(@, [off |-> p.off, i |-> i])], [o EXCEPT !.pc = "uwait"])
      ELSE IF Known(d, Obj(p.off)) # p.ver \/ d.cache[p.off].inv THEN Update(RunContinue(d, p.off), o)
      ELSE Modify(d, o, i)
StartJob(d, o, job) == Call(d, [o EXCEPT !.job = job], "job")

\* resume_split: add the reference to the right half to the parent, then again
ResumeSplit(d, o, i) ==
  LET b == d.cache[o.cur]
  IN  IF Len(o.path) = 1 THEN Finish(d, o, "EILSEQ")
      ELSE StartJob(d, o, [pos |-> Len(o.path) - 1, del |-> FALSE, key |-> b.rh, val |-> b.rhb, then |-> "again"])

\* create_root
CreateRoot(d, o, i) ==
  LET a == AllocBlock(d)
      leaf == Block("leaf", 0, Inf, [k \in {o.key} |-> i])
  IN  IF o.cur # 0 \/ d.free # 0 THEN Finish(d, o, "EILSEQ")
      ELSE Write([a.d EXCEPT !.cache = Put(@, 0, Cached(leaf, 1))], o, "root", 0)

\* -ENOTBLK
NotBlock(d, o, i) ==
  IF Kind(i) = "set" THEN CreateRoot(d, o, i)
  ELSE IF o.cur = 0 THEN Finish(d, o, "ENOENT")
  ELSE IF Kind(i) = "del" THEN At(d, [o EXCEPT !.pc = "hung"])
  ELSE Finish(d, o, "EILSEQ")

\* handle_block, the key is not in the range of the block: from the root again
Outside(d, o, i) ==
  IF o.up = {} /\ o.retry THEN Finish(d, o, "EILSEQ")
  ELSE Call(d, [FromRoot(o) EXCEPT !.pol = IF "updating" \in o.up THEN "wait" ELSE "all",
                                       !.up = {}, !.retry = o.up = {},
                                       !.path = IF Tracks(i) THEN RootPath ELSE o.path], "get")

\* next_go_up
GoUp(d, o) ==
  LET b == d.cache[o.cur] IN
  IF b.lt = Inf \/ Len(o.path) <= 1 THEN Finish(d, o, "end")
  ELSE LET path == Front(o.path)
           o1 == [o EXCEPT !.key = Max({@, b.lt}), !.skip = FALSE, !.path = path,
                           !.cur = Last(path).off, !.pol = "leaf"]
           p == d.cache[o1.cur]
       IN  IF o1.cur \notin DOMAIN d.cache THEN Update(d, o1)
           ELSE IF o1.key < p.lt THEN Call(d, [o1 EXCEPT !.ge = p.ge, !.lt = p.lt], "handle")
           ELSE Call(d, o1, "goup")

\* next_get
NextGet(d, o) ==
  LET b == d.cache[o.cur]
      items == {k \in DOMAIN b.data : k > o.key \/ (k = o.key /\ ~o.skip)}
  IN  IF items # {}
        THEN At(d, [o EXCEPT !.pc = "item", !.key = Min(items), !.skip = TRUE, !.got = Append(@, Min(items))])
      ELSE IF IsSplit(b)
        THEN Call(d, [o EXCEPT !.pol = "leaf", !.key = b.rh, !.skip = FALSE, !.ge = b.rh, !.lt = b.lt,
                               !.cur = b.rhb, !.path[Len(o.path)].off = b.rhb], "get")
      ELSE Call(d, o, "goup")

\* A leaf is found: the ends of get, update_find and next_handle_block
AtLeaf(d, o, i) ==
  LET data == d.cache[o.cur].data
  IN  CASE Kind(i) \in {"get", "getcached"} -> Finish(d, [o EXCEPT !.val = Default(data, o.key, 0)], "ok")
        [] IsUpdate(i) -> StartJob(d, o, [pos |-> Len(o.path), del |-> Kind(i) = "del", key |-> o.key,
                                             val |-> i, then |-> "finish"])
        [] Kind(i) = "list" -> NextGet(d, [o EXCEPT !.pol = "none"])

\* handle_block and what follows it
Handle(d, o, i) ==
  LET b == d.cache[o.cur]
      o1 == [o EXCEPT !.path = IF Tracks(i) THEN [@ EXCEPT ![Len(@)].ver = IF b.inv THEN 0 ELSE Known(d, Obj(o.cur))] ELSE @]
      le == {k \in DOMAIN b.data : k <= o.key}
      gt == {k \in DOMAIN b.data : k > o.key}
      bound == IF gt # {} THEN Min(gt) ELSE IF IsSplit(b) THEN b.rh ELSE b.lt
      child == b.data[Max(le)]
  IN  IF o.key < b.ge \/ o.key >= b.lt THEN Outside(d, o1, i)
      ELSE IF IsUpdate(i) /\ IsSplit(b) /\ o.lt > b.rh THEN ResumeSplit(d, o1, i)
      ELSE IF IsSplit(b) /\ o.key >= b.rh
        THEN Call(d, [o1 EXCEPT !.cur = b.rhb, !.ge = b.rh, !.lt = b.lt,
                                !.path = IF Tracks(i) THEN [@ EXCEPT ![Len(@)] = [off |-> b.rhb, ver |-> 0]] ELSE @], "get")
      ELSE IF b.t = "leaf" THEN AtLeaf(d, o1, i)
      ELSE IF le = {} THEN Finish(d, o1, "EILSEQ")
      ELSE Call(d, [o1 EXCEPT !.cur = child, !.ge = Max(le), !.lt = bound,
                              !.path = IF Tracks(i) THEN Append(@, [off |-> child, ver |-> 0]) ELSE @], "get")

(***************************************************************************)
(* The ends of writes                                                      *)
(***************************************************************************)
\* place_again: the new block moves to another place
PlaceAgain(d, o) ==
  LET a == AllocBlock(d)
      d1 == [a.d EXCEPT !.cache = Put(Drop(@, o.w.off), a.off, [d.cache[o.w.off] EXCEPT !.inv = FALSE])]
      o1 == IF o.w.k = "right" THEN [o EXCEPT !.right = a.off] ELSE [o EXCEPT !.left = a.off]
  IN  IF a.off \in DOMAIN d.cache THEN Finish(d, o, "abort") ELSE Write(d1, o1, o.w.k, a.off)
NewBlockFailed(d, o) ==
  IF o.w.off % setup.per = 0 THEN Call(ClearAllocation(d, o.w.off), o, "place")
  ELSE At(d, [o EXCEPT !.pc = "probe"])

\* The reference in the new root, or in the split block and later in its parent
NewRoot(d, o) ==
  LET data == [k \in {0, o.sep} |-> IF k = 0 THEN o.left ELSE o.right]
      root == [Cached(Block("int", 0, Inf, data), 1) EXCEPT !.inv = d.cache[0].inv, !.new = FALSE]
  IN  Write(d, [o EXCEPT !.root = root], "newroot", 0)
SplitBlock(d, o) ==
  LET off == o.path[o.job.pos].off
      b == d.cache[off]
      has == o.job.key \in DOMAIN b.data
      what == IF o.job.key >= o.sep THEN {} ELSE IF has THEN {"add", "del"} ELSE {"add"}
      g == [b.chg EXCEPT !.c = (@ \ {"clear"}) \cup {"split"} \cup what, !.rh = o.sep, !.rhb = o.right,
                         !.key = o.job.key, !.val = o.job.val]
  IN  Write([d EXCEPT !.cache[off].chg = g], o, "split", off)
NewBlockWritten(d, o) ==
  LET d1 == IF o.w.off % setup.per = 0 THEN Confirm(d, o.w.off) ELSE d
  IN  IF o.w.k = "left" THEN NewRoot(d1, o)
      ELSE IF o.path[o.job.pos].off = 0 THEN Call(d1, o, "left")
      ELSE IF o.job.pos = 1 THEN Finish(d1, o, "EILSEQ")
      ELSE SplitBlock(d1, o)

\* clear_block for each of the new blocks that nothing refers to, then again
ClearNext(d, o) ==
  IF o.clear = <<>> THEN IF o.fails THEN JobDone(d, o, "EIO") ELSE Update(d, o)
  ELSE At([d EXCEPT !.cache = Drop(@, Head(o.clear))], [o EXCEPT !.pc = "clear"])
StartClear(d, o, offs) == ClearNext(d, [o EXCEPT !.clear = offs])

WriteOk(d, o) ==
  LET off == o.w.off
      applied == [d EXCEPT !.cache[off] = ApplyChange(@)]
  IN  CASE o.w.k = "modify" -> JobDone(StopUpdating(applied, off), o, "ok")
        [] o.w.k = "root" -> Finish(StopUpdating(Confirm(StopWritingNew(d, off), off), off), o, "ok")
        [] o.w.k \in {"right", "left"} -> NewBlockWritten(StopWritingNew(d, off), o)
        [] o.w.k = "newroot" ->
             JobDone(StopUpdating(StopUpdating(StopUpdating([d EXCEPT !.cache[0] = o.root], o.left), o.right), 0),
                     o, "ok")
        [] o.w.k = "split" ->
             StartJob(StopUpdating(StopUpdating(applied, off), o.right), o,
                      [o.job EXCEPT !.pos = @ - 1, !.del = FALSE, !.key = o.sep, !.val = o.right])

\* -EINTR: the compare-and-swap failed
WriteEintr(d, o) ==
  LET off == o.w.off
  IN  CASE o.w.k = "modify" -> Update(Forget(d, off), o)
        [] o.w.k = "root" -> Update(Forget(ClearAllocation(d, off), off), o)
        [] o.w.k \in {"right", "left"} -> NewBlockFailed(StopWritingNew(d, off), o)
        [] o.w.k = "newroot" -> StartClear(Forget(d, off), o, <<o.left, o.right>>)
        [] o.w.k = "split" -> StartClear(Forget(d, off), o, <<o.right>>)

\* Any other error: the update ends with it.  A root that could not be stored
\* stays in the cache
NewBlockError(d, o) ==
  LET off == o.path[o.job.pos].off
      d1 == [d EXCEPT !.cache = [Drop(@, o.w.off) EXCEPT ![off].chg = NoChange]]
  IN  JobDone(StopUpdating(IF o.w.k = "left" THEN StopUpdating(d1, o.right) ELSE d1, off), o, "EIO")
WriteError(d, o) ==
  LET off == o.w.off
      o1 == [o EXCEPT !.fails = TRUE]
  IN  CASE o.w.k = "modify" -> JobDone(Forget(d, off), o, "EIO")
        [] o.w.k = "root" -> Finish(StopUpdating(Confirm(StopWritingNew(d, off), off), off), o, "EIO")
        [] o.w.k \in {"right", "left"} -> NewBlockError(ClearAllocation(StopWritingNew(d, off), off), o)
        [] o.w.k = "newroot" -> StartClear(Forget(d, off), o1, <<o.left, o.right>>)
        [] o.w.k = "split" -> StartClear(Forget(d, off), o1, <<o.right>>)

\* The function called next, and so on to the end: the set of the outcomes
Called(d, o, i, f) ==
  CASE f = "get"    -> GetBlock(d, o, i)
    [] f = "handle" -> Handle(d, o, i)
    [] f = "goup"   -> GoUp(d, o)
    [] f = "job"    -> UpdateBlock(d, o, i)
    [] f = "write"  -> WriteBlock(d, o, i)
    [] f \in {"right", "left"} -> CreateNew(d, o, f = "right")
    [] f = "place"  -> PlaceAgain(d, o)
RECURSIVE Run(_, _)
Run(S, i) ==
  UNION {IF s.o.call = "none" THEN {s}
         ELSE Run({Called(s.d, [s.o EXCEPT !.call = "none"], i, s.o.call)}, i) : s \in S}

(***************************************************************************)
(* The content of the database, by the links a reader follows              *)
(***************************************************************************)
Keys == 1..(Inf - 1)
Broken == 0 - 1
RECURSIVE Find(_, _, _)
Find(dk, off, k) ==
  LET b == Default(dk, off, Zero)
      le == {y \in DOMAIN b.data : y <= k}
  IN  IF b.t \in {"zero", "empty"} THEN IF off = 0 THEN 0 ELSE Broken
      ELSE IF k < b.ge \/ k >= b.lt THEN Broken
      ELSE IF IsSplit(b) /\ k >= b.rh THEN Find(dk, b.rhb, k)
      ELSE IF b.t = "leaf" THEN Default(b.data, k, 0)
      ELSE IF le = {} THEN Broken ELSE Find(dk, b.data[Max(le)], k)
MapOf(dk) == [k \in Keys |-> Find(dk, 0, k)]

(***************************************************************************)
(* Steps                                                                   *)
(***************************************************************************)
Client(i) == setup.ops[i].c
Active(i) == op[i].pc \notin {"idle", "done", "gone"} /\ ~op[i].dead
\* No callback of the client is left to be called
Ready(i) == ~op[i].dead /\ db[Client(i)].todo = <<>>
Do(i, r) == /\ \E s \in Run({r}, i) : db' = [db EXCEPT ![Client(i)] = s.d] /\ op' = [op EXCEPT ![i] = s.o]
            /\ UNCHANGED <<setup, disk, ver, left, map, ever>>

\* exec
Start(i) ==
  LET o == [op[i] EXCEPT !.key = setup.ops[i].key, !.path = RootPath, !.seen = {map},
                         !.pol = IF Kind(i) = "get" THEN "leaf" ELSE "none"]
  IN  /\ op[i].pc = "idle" /\ db[Client(i)].todo = <<>>
      /\ Do(i, IF IsUpdate(i) THEN Update(db[Client(i)], o) ELSE Call(db[Client(i)], o, "get"))

\* The cluster executes a read
Answered == [check |-> "checkdone", read |-> "readdone", probe |-> "probedone"]
ReadExec(i) ==
  LET o == op[i]
      off == IF o.pc = "probe" THEN o.w.off ELSE o.cur
  IN  /\ o.pc \in {"check", "read", "probe"} /\ ~o.dead
      /\ Do(i, At(db[Client(i)], [o EXCEPT !.pc = Answered[o.pc],
                                          !.buf = [ver |-> Version(Obj(off)), b |-> OnDisk(off)]]))

\* What a reader takes from the cache without asking the cluster: a leaf, or a
\* block that is not stored yet, at a place that may be another client's
Trusts(b) == (IF b.t = "leaf" THEN {"leaf"} ELSE {}) \cup (IF b.new THEN {"new"} ELSE {})
\* The callback of get_block
BlockRead(d, o, i) ==
  LET d1 == Invalidate(d, Obj(o.cur), o.buf.ver)
      has == o.cur \in DOMAIN d1.cache
      b == d1.cache[o.cur]
  IN  IF has /\ (~b.inv \/ b.upd > 0)
        THEN IF b.upd > 0 /\ o.pol = "wait"
               THEN At([d1 EXCEPT !.contU = Append(@, [off |-> o.cur, i |-> i])], [o EXCEPT !.pc = "gwait"])
             ELSE Call(d1, [o EXCEPT !.trust = @ \cup IF b.upd > 0 THEN Trusts(b) ELSE {},
                                     !.up = @ \cup IF b.upd > 0 THEN {"updating"} ELSE {}], "handle")
      ELSE IF o.pc = "checkdone" THEN Call(d1, o, "get")
      ELSE IF o.buf.b.t \in {"zero", "empty"} THEN NotBlock([d1 EXCEPT !.cache = Drop(@, o.cur)], o, i)
      ELSE Call([d1 EXCEPT !.cache = Put(@, o.cur, Cached(o.buf.b, 0))], [o EXCEPT !.up = @ \cup {"reloaded"}], "handle")
InOrder(i) ==
  \A j \in Ops : Client(j) = Client(i) /\ op[j].pc \in {"checkdone", "readdone"} /\ Obj(op[j].cur) = Obj(op[i].cur) =>
    op[j].buf.ver >= op[i].buf.ver
ReadDone(i) ==
  /\ Ready(i) /\ op[i].pc \in {"checkdone", "readdone"}
  /\ setup.fifo => InOrder(i)
  /\ Do(i, BlockRead(db[Client(i)], op[i], i))

\* A block of the cache: the callback is called by set_immediate
CachedDone(i) ==
  /\ Ready(i) /\ op[i].pc = "cached" /\ op[i].cur \in DOMAIN db[Client(i)].cache
  /\ Do(i, Call(db[Client(i)], [op[i] EXCEPT !.up = @ \cup {"updating"},
                                           !.trust = @ \cup Trusts(db[Client(i)].cache[op[i].cur])], "handle"))

\* write_new_block after a failed write: is the place still free?
ProbeDone(i) ==
  LET o == op[i]
      d1 == Invalidate(db[Client(i)], Obj(o.w.off), o.buf.ver)
  IN  /\ Ready(i) /\ o.pc = "probedone"
      /\ Do(i, IF o.buf.b = Zero THEN Call([d1 EXCEPT !.cache[o.w.off].inv = FALSE], o, "write")
               ELSE Call(d1, o, "place"))

\* The cluster executes a write; every running operation sees the new content
Store(off, img, opi) ==
  LET dk == Put(disk, off, img)
  IN  /\ disk' = dk
      /\ ver' = Put(ver, Obj(off), Version(Obj(off)) + 1)
      /\ map' = MapOf(dk)
      /\ ever' = ever \cup {map'}
      /\ op' = [j \in Ops |-> IF Active(j) THEN [opi[j] EXCEPT !.seen = @ \cup {map'}] ELSE opi[j]]
CasPasses(o) == Version(Obj(o.w.off)) + 1 = o.w.ver
Written(i, ok) == [op EXCEPT ![i].pc = IF op[i].dead THEN "gone" ELSE "wrote", ![i].w.ok = ok]
WriteExec(i) ==
  LET o == op[i]
  IN  /\ o.pc = "sent"
      /\ IF CasPasses(o) THEN Store(o.w.off, o.w.img, Written(i, TRUE))
         ELSE op' = Written(i, FALSE) /\ UNCHANGED <<disk, ver, map, ever>>
      /\ UNCHANGED <<setup, db, left>>
\* The connection breaks after the write, and it is sent again
WriteLost(i) ==
  /\ op[i].pc = "sent" /\ CasPasses(op[i]) /\ left.losses > 0
  /\ Store(op[i].w.off, op[i].w.img, Written(i, FALSE))
  /\ left' = [left EXCEPT !.losses = @ - 1]
  /\ UNCHANGED <<setup, db>>

\* The callback of write_block
WriteDone(i) ==
  LET d == db[Client(i)]
      o == op[i]
      x == Obj(o.w.off)
      d1 == [d EXCEPT !.busy = @ \ {x}]
      q == Queued(d, x)
      ended == IF o.w.err THEN "fail" ELSE "cancel"
      d2 == [d1 EXCEPT !.known = Put(@, x, o.w.ver),
                       !.cache = IF o.w.k = "newroot" THEN @ ELSE [@ EXCEPT ![o.w.off].inv = FALSE, ![o.w.off].new = FALSE],
                       !.contW = IF q = <<>> THEN @ ELSE RemoveFirst(@, q[1]),
                       !.todo = IF q = <<>> THEN @ ELSE Append(@, [i |-> q[1].i, ev |-> "write"])]
  IN  /\ Ready(i) /\ o.pc = "wrote"
      /\ Do(i, IF ~o.w.ok THEN At([CancelQueued(d1, x, ended) EXCEPT !.todo = Append(@, [i |-> i, ev |-> ended])],
                                  [o EXCEPT !.pc = "cancelled"])
               ELSE IF setup.imm THEN At([d2 EXCEPT !.todo = Append(@, [i |-> i, ev |-> "written"])], [o EXCEPT !.pc = "wsync"])
               ELSE At(d2, [o EXCEPT !.pc = "wsync"]))
SyncDone(i) ==
  /\ Ready(i) /\ op[i].pc = "wsync"
  /\ Do(i, WriteOk(db[Client(i)], op[i]))

\* clear_block: written whatever the version is
ClearExec(i) ==
  LET o == op[i]
      r == IF o.dead THEN At(db[Client(i)], [o EXCEPT !.pc = "gone"])
           ELSE ClearNext(db[Client(i)], [o EXCEPT !.clear = Tail(@)])
  IN  /\ o.pc = "clear" /\ (o.dead \/ db[Client(i)].todo = <<>>)
      /\ \E s \in Run({r}, i) : Store(Head(o.clear), Cleared, [op EXCEPT ![i] = s.o]) /\ db' = [db EXCEPT ![Client(i)] = s.d]
      /\ UNCHANGED <<setup, left>>

\* The cluster answers a request with an error and has not executed it
Errs == left.errors > 0 /\ left' = [left EXCEPT !.errors = @ - 1]
Ends(i, r) == /\ \E s \in Run({r}, i) : db' = [db EXCEPT ![Client(i)] = s.d] /\ op' = [op EXCEPT ![i] = s.o]
              /\ UNCHANGED <<setup, disk, ver, map, ever>>
ReadFails(i) ==
  /\ Ready(i) /\ op[i].pc \in {"check", "read", "probe"} /\ Errs
  /\ Ends(i, IF op[i].pc = "probe" THEN NewBlockError(db[Client(i)], op[i])
             ELSE Finish(db[Client(i)], op[i], "EIO"))
WriteFails(i) ==
  /\ op[i].pc = "sent" /\ ~op[i].dead /\ Errs
  /\ op' = [Written(i, FALSE) EXCEPT ![i].w.err = TRUE]
  /\ UNCHANGED <<setup, disk, ver, db, map, ever>>
SyncFails(i) ==
  /\ Ready(i) /\ op[i].pc = "wsync" /\ ~setup.imm /\ Errs
  /\ Ends(i, WriteError(db[Client(i)], op[i]))
ClearFails(i) ==
  /\ Ready(i) /\ op[i].pc = "clear" /\ Errs
  /\ Ends(i, ClearNext(db[Client(i)], [op[i] EXCEPT !.clear = Tail(@)]))
Fails(i) == ReadFails(i) \/ WriteFails(i) \/ SyncFails(i) \/ ClearFails(i)

\* The next callback of a client
Callback(c) ==
  LET e == Head(db[c].todo)
      d == [db[c] EXCEPT !.todo = Tail(@)]
      o == op[e.i]
      got == GetBlock(d, o, e.i)
  IN  /\ db[c].todo # <<>>
      /\ Do(e.i, CASE e.ev = "write"   -> Call(d, o, "write")
                   [] e.ev = "cancel"  -> WriteEintr(d, o)
                   [] e.ev = "fail"    -> WriteError(d, o)
                   [] e.ev = "written" -> WriteOk(d, o)
                   [] e.ev = "wake" /\ o.pc = "gwait" -> At(RunContinue(got.d, o.cur), got.o)
                   [] e.ev = "wake" /\ o.pc = "uwait" -> Call(d, o, "job"))

\* list_next
ListNext(i) ==
  /\ Ready(i) /\ op[i].pc = "item"
  /\ Do(i, Call(db[Client(i)], op[i], "get"))

\* A client process dies; what it has sent may still be executed.  It opens
\* the database again for the operations that have not begun.
Die(c) ==
  /\ op' = [i \in Ops |-> IF Client(i) # c \/ ~Active(i) THEN op[i]
                          ELSE IF op[i].pc \in {"sent", "clear"} THEN [op[i] EXCEPT !.dead = TRUE]
                          ELSE [op[i] EXCEPT !.dead = TRUE, !.pc = "gone"]]
  /\ db' = [db EXCEPT ![c] = Open]
  /\ UNCHANGED <<setup, disk, ver, map, ever>>
Crash(c) == left.crashes > 0 /\ left' = [left EXCEPT !.crashes = @ - 1] /\ Die(c)
\* block_cache.at throws when the block was dropped before set_immediate called,
\* and nobody catches it: the process ends
Throw(i) ==
  /\ Ready(i) /\ op[i].pc = "cached" /\ op[i].cur \notin DOMAIN db[Client(i)].cache
  /\ Die(Client(i)) /\ UNCHANGED left

Init ==
  /\ setup \in Setups
  /\ disk = setup.tree
  /\ ver = [x \in {Obj(off) : off \in DOMAIN setup.tree} |-> 1]
  /\ db = [c \in Clients |-> Open]
  /\ op = [i \in Ops |-> Idle]
  /\ left = [crashes |-> setup.crashes, losses |-> setup.losses, errors |-> setup.errors]
  /\ map = MapOf(setup.tree) /\ ever = {map}

Goes == \/ \E i \in Ops : Start(i)
        \/ \E i \in Ops : ReadExec(i)
        \/ \E i \in Ops : ReadDone(i)
        \/ \E i \in Ops : CachedDone(i)
        \/ \E i \in Ops : ProbeDone(i)
        \/ \E i \in Ops : WriteExec(i)
        \/ \E i \in Ops : WriteDone(i)
        \/ \E i \in Ops : SyncDone(i)
        \/ \E i \in Ops : ClearExec(i)
        \/ \E i \in Ops : ListNext(i)
        \/ \E i \in Ops : Throw(i)
        \/ \E c \in Clients : Callback(c)
Next == Goes \/ (\E c \in Clients : Crash(c)) \/ \E i \in Ops : WriteLost(i) \/ Fails(i)
\* The event loop and the cluster go on while there is something to do
Spec == Init /\ [][Next]_vars /\ WF_vars(Goes)

(***************************************************************************)
(* Properties                                                              *)
(***************************************************************************)
\* The state as the clients see it
Outcome(i) ==
  LET o == op[i]
      st == IF o.dead THEN "dead" ELSE IF o.pc \in {"idle", "done"} THEN o.pc ELSE "runs"
      fin == st = "done"
  IN  [st |-> st, res |-> IF ~fin THEN "none" ELSE IF "new" \in o.trust /\ ~IsUpdate(i) THEN "unplaced" ELSE o.res, val |-> IF fin THEN o.val ELSE 0,
       got |-> IF fin THEN o.got ELSE <<>>]
Map == INSTANCE KvMap WITH ops <- setup.ops, map <- map, ever <- ever,
                           run <- [i \in Ops |-> Outcome(i)]

\* A GET that did not take a leaf from the cache without asking for its version
\* (get_block) returns a value the key had while the GET ran.
ReadsFresh ==
  \A i \in Ops : Kind(i) = "get" /\ op[i].pc = "done" /\ op[i].res = "ok" /\ op[i].trust = {} =>
    op[i].val \in {m[op[i].key] : m \in op[i].seen}

\* Under interleaved block writes, splits, retries, crashes and errors of the
\* clients (write_block, update_block, resume_split), the tree on disk is always
\* a complete map that only the running updates change, one key at a time, and
\* every result (finish) is explained by the contents it has had: no key is lost
\* by a split, no listing skips a key that stays, none fails with EILSEQ; and
\* GETs are fresh (ReadsFresh).  It does not hold, and the setups leave out, that
\* the answer to the write of a split is lost (MCLost), reads of one object are
\* answered out of order (MCReorder), and the write of the first root or the SYNC
\* after a split fails (MCRoot, MCSync).  A reader that met a block its own
\* process was updating is excused (trust), and a client that block_cache.at kills
\* with an exception (Throw) counts as one that died.
Implements == Map!Spec /\ []ReadsFresh

\* A GET returns a value the key had while the GET ran (vitastor_kv.h: get
\* with allow_old_cached = false).
ReadsFreshAll ==
  \A i \in Ops : Kind(i) = "get" /\ op[i].pc = "done" /\ op[i].res = "ok" =>
    op[i].val \in {m[op[i].key] : m \in op[i].seen}

\* A SET that returned stays in effect until another update of its key: the
\* versions get_block remembers (known_versions) are those of the blocks in the
\* cache, so that the compare-and-swap of write_block catches a lost race.
UpdatesKept ==
  \A i \in Ops : Kind(i) = "set" /\ op[i].res = "ok" /\ (\A j \in Ops \ {i} : setup.ops[j].key # setup.ops[i].key) =>
    map[setup.ops[i].key] = i

\* No key's path is ever broken: new blocks are cleared only while nothing
\* refers to them (update_block, clear_block).
TreeIntact == \A k \in Keys : map[k] # Broken

\* Every operation of a client that stays alive returns: no wakeup through
\* continue_update or continue_write is lost on any way out of an update, by
\* success, lost race or error, and retries end.  A client killed by the exception
\* of block_cache.at (Throw) has not stayed alive; a DEL that meets an empty block
\* never returns (NotBlock), which takes a tree broken by a lost answer (MCLostDel).
OpsReturn == <>(\A i \in Ops : op[i].pc \in {"done", "gone"})

TypeOK ==
  /\ \A off \in DOMAIN disk : disk[off].t \in {"leaf", "int", "empty"} /\ Cardinality(DOMAIN disk[off].data) <= Cap
  /\ \A c \in Clients : \A off \in DOMAIN db[c].cache : db[c].cache[off].upd \in 0..1
  /\ \A i \in Ops : op[i].pc \in {"idle", "check", "read", "checkdone", "readdone", "cached", "gwait", "uwait", "item",
                               "queued", "cancelled", "sent", "wrote", "wsync", "probe", "probedone", "clear", "done",
                               "gone"}
=============================================================================
