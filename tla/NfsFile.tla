------------------------------- MODULE NfsFile -------------------------------
(***************************************************************************)
(* The data of files in VitastorFS.  Small files are packed into shared     *)
(* volumes; each has a place there with a header naming the file, and its   *)
(* inode entry in the key-value database says where it is.  A WRITE updates *)
(* the place, moves the file to a bigger one, or moves it out to an inode   *)
(* of its own; defragmentation moves files out of a volume and removes it.  *)
(*                                                                         *)
(* Several NFS proxies do this at once without locks: every update of the   *)
(* inode entry is a compare-and-swap with the text that was read, and a     *)
(* read-modify-write of a sector is guarded by the version of its object.   *)
(*                                                                         *)
(* A file is a sequence of Units; a header takes one unit, a sector three.  *)
(***************************************************************************)
EXTENDS Integers, Sequences, FiniteSets, SequencesExt

CONSTANTS
  Setups,     \* the files, proxies and scripts to explore
  VolMax,     \* bound: shared volumes
  PlaceMax    \* bound: places in a volume

VARIABLES
  setup,      \* [size, place, volumes, proxy, script, movers, buffer, faults]
  inode,      \* inode entries: file -> [size, place, alloc, ver]
  data,       \* stored contents of places and of files' own inodes
  volkey,     \* keys of the shared volumes: none, key, listed, orphan
  used,       \* places given out in each volume (cur_shared_offset)
  cache,      \* the inode entries each proxy saw last
  volume,     \* cur_shared_inode of each proxy, 0 for none
  queue,      \* allocating_shared of each proxy
  ext,        \* extends: each proxy's aggregated size updates
  touch,      \* touch_queue of each proxy
  op,         \* the request of each process
  left,       \* requests each process has still to send
  defrag,     \* the defragmentation in progress
  acked,      \* ghost: what each unit's last acknowledged write stored
  holes,      \* ghost: units met by a known window of the algorithm
  faults      \* how many proxies may still die and data writes fail

vars == <<setup, inode, data, volkey, used, cache, volume, queue, ext, touch, op,
          left, defrag, acked, holes, faults>>

-----------------------------------------------------------------------------
(* Layout.                                                                  *)

Units == 0..4
Sector == 3                         \* pool_alignment
Header == 1                         \* sizeof(shared_file_header_t)
Threshold == 5                      \* shared_inode_threshold
Junk == -1

Procs == DOMAIN setup.proxy
Px(p) == setup.proxy[p]
Proxies == {setup.proxy[p] : p \in Procs}
Files == DOMAIN setup.size

NoPlace == <<0, 0>>
Own(f) == <<0, f>>                  \* where the file's own inode is kept
Places == (1..VolMax) \X (1..PlaceMax)
Stores == Places \cup {Own(f) : f \in Files}
Where(f, e) == IF e.place = NoPlace THEN Own(f) ELSE e.place

Larger(a, b) == IF a > b THEN a ELSE b
Smaller(a, b) == IF a < b THEN a ELSE b
RoundUp(n) == ((n + Sector - 1) \div Sector) * Sector

\* a place starts with the header, at a sector boundary
Start(s) == IF s[1] = 0 THEN 0 ELSE Header
SectorOf(s, u) == (u + Start(s)) \div Sector

Zeroes == [u \in Units |-> 0]
NoData == [hdr |-> 0, ver |-> 0, d |-> Zeroes]
NoExt == [cur |-> 0, next |-> 0, done |-> 0, refs |-> {}, wait |-> <<>>]
NoDefrag == [vol |-> 0, read |-> 0, todo |-> <<>>, empty |-> FALSE, err |-> FALSE, purge |-> {}]

Idle == [k |-> "idle", pc |-> "idle", f |-> 0, off |-> 0, len |-> 0, val |-> 0,
         from |-> NoPlace, ie |-> [size |-> 0, place |-> NoPlace, alloc |-> 0, ver |-> 0],
         cached |-> TRUE, retried |-> FALSE, new |-> 0, place |-> NoPlace, buf |-> Zeroes,
         err |-> FALSE, todo |-> <<>>, rv |-> <<0, 0>>, rbuf |-> <<Zeroes, Zeroes>>, pair |-> FALSE, unshared |-> FALSE,
         want |-> Zeroes, got |-> Zeroes]

Init ==
  /\ setup \in Setups
  /\ inode = [f \in Files |->
                [size |-> setup.size[f], place |-> setup.place[f], ver |-> 1,
                 alloc |-> IF setup.place[f] = NoPlace THEN 0
                           ELSE RoundUp(Header + setup.size[f])]]
  /\ acked = [f \in Files |-> [u \in Units |->
                [val |-> IF u < setup.size[f] THEN 1 ELSE 0, px |-> "none"]]]
  /\ data = [s \in Stores |->
               IF \E f \in Files : s = Where(f, inode[f])
               THEN LET f == CHOOSE f \in Files : s = Where(f, inode[f]) IN
                    [hdr |-> IF s[1] = 0 THEN 0 ELSE f, ver |-> 1,
                     d |-> [u \in Units |-> acked[f][u].val]]
               ELSE NoData]
  /\ volkey = [v \in 1..VolMax |-> IF v \in setup.volumes THEN "listed" ELSE "none"]
  /\ used = [v \in 1..VolMax |-> Cardinality({f \in Files : setup.place[f][1] = v})]
  /\ cache = [x \in Proxies |-> inode]
  /\ volume = [x \in Proxies |-> 0]
  /\ queue = [x \in Proxies |-> <<>>]
  /\ ext = [x \in Proxies |-> [f \in Files |-> NoExt]]
  /\ touch = [x \in Proxies |-> {}]
  /\ op = [p \in Procs |-> Idle]
  /\ left = setup.script
  /\ defrag = NoDefrag
  /\ holes = {}
  /\ faults = setup.faults

-----------------------------------------------------------------------------
(* Inode entries.  Every update changes ctime, so no text appears twice.    *)

Seen(p, f) == IF op[p].cached THEN {inode[f], cache[Px(p)][f]} ELSE {inode[f]}
Saw(p, f, e) == cache' = [cache EXCEPT ![Px(p)][f] = e]
\* mutant: the comparison of the inode text is left out
MutUnchanged(p, f) == TRUE
Unchanged(p, f) == inode[f].ver = op[p].ie.ver
Put(p, f, e) ==
  LET new == [e EXCEPT !.ver = inode[f].ver + 1] IN
  /\ inode' = [inode EXCEPT ![f] = new]
  /\ Saw(p, f, new)

\* what a request keeps when its data is written or it starts over
Plain(o) == [o EXCEPT !.place = NoPlace, !.buf = Zeroes, !.todo = <<>>, !.rv = <<0, 0>>,
                      !.rbuf = <<Zeroes, Zeroes>>, !.pair = FALSE, !.err = FALSE]

At(p, pc) == op[p].pc = pc
Goto(p, o, pc) == op' = [op EXCEPT ![p] = [o EXCEPT !.pc = pc]]
\* the compare-and-swap failed: read the entry again and start over
Again(p) ==
  /\ Goto(p, Plain(op[p]), "inode")
  /\ Saw(p, op[p].f, inode[op[p].f])
  /\ UNCHANGED inode
\* "Got unrelated data - retry from the beginning"
Unrelated(p, s) == data[s].hdr # op[p].f
Retry(p, pc) == Goto(p, [Plain(op[p]) EXCEPT !.retried = TRUE, !.cached = FALSE], pc)

\* ghost: units of the file that lose a newer value
Lost(f, s, d) == {<<f, u>> : u \in {w \in Units : d[w] < data[s].d[w]}}

Request(p) ==
  /\ op[p] = Idle /\ left[p] # <<>> /\ Head(left[p]).k \in {"write", "read"}
  /\ LET r == Head(left[p])
         mine(u) == IF acked[r.f][u].px = Px(p) THEN acked[r.f][u].val ELSE 0 IN
     Goto(p, [Idle EXCEPT !.k = r.k, !.f = r.f, !.off = r.off, !.len = r.len,
                          !.val = r.val, !.want = [u \in Units |-> mine(u)]],
          IF r.k = "write" THEN "inode"
          ELSE IF r.off + Header < Threshold THEN "rinode" ELSE "rown")
  /\ left' = [left EXCEPT ![p] = Tail(@)]
  /\ UNCHANGED <<setup, inode, data, volkey, used, cache, volume, queue, ext, touch,
                 defrag, acked, holes, faults>>

\* the reply reaches the client
Reply(p) ==
  /\ op[p].pc \in {"ok", "eio", "fail"}
  /\ op' = [op EXCEPT ![p] = Idle]
  /\ IF At(p, "ok") /\ op[p].k = "write"
     THEN acked' = [acked EXCEPT ![op[p].f] = [u \in Units |->
            IF u \in op[p].off..(op[p].off + op[p].len - 1)
            THEN [val |-> op[p].val, px |-> Px(p)] ELSE @[u]]]
     ELSE UNCHANGED acked
  /\ defrag' = IF op[p].k = "move" /\ ~At(p, "ok") THEN [defrag EXCEPT !.err = TRUE] ELSE defrag
  /\ UNCHANGED <<setup, inode, data, volkey, used, cache, volume, queue, ext, touch,
                 left, holes, faults>>

-----------------------------------------------------------------------------
(* nfs_do_align_write: a write of whole sectors, with a read-modify-write   *)
(* of the first and of the last sector where they are partial.  The         *)
(* requests reach the object in the order they are sent.                    *)

Part(k, i, lo, hi, pad, hdr) ==
  [k |-> k, i |-> i, lo |-> lo, hi |-> hi, pad |-> pad, hdr |-> hdr]

AlignParts(s, off, len, new) ==
  LET pos == off + Start(s)
      end == pos + len
      head == pos % Sector
      tail == end % Sector
      begins == s[1] # 0 /\ off = 0            \* begin_shdr
      first == head # 0 /\ ~begins             \* rmw[0]
      ends == tail # 0 /\ (begins \/ pos = 0 \/ end \div Sector > (pos - 1) \div Sector)
      padded == ends /\ off + len = new        \* end_pad
      last == ends /\ ~padded                  \* rmw[1]
      lo == IF first THEN Smaller(off + Sector - head, off + len) ELSE off
      hi == IF last THEN Larger(off + len - tail, lo) ELSE off + len
      \* the buffer of rmw[1] begins before the data: the header is overwritten
      hdr == IF last /\ tail > len THEN "junk" ELSE "keep"
      A == Part("get", 1, off, lo, 0, "keep")
      Z == Part("get", 2, hi, off + len, 0, hdr)
      whole == Part("raw", 0, lo, hi, IF padded THEN Sector - tail ELSE 0,
                    IF ~begins THEN "keep" ELSE IF lo < hi \/ padded THEN "new" ELSE "alone")
      If(c, q) == IF c THEN <<q>> ELSE <<>> IN
  If(first, A) \o If(last, Z) \o If(lo < hi \/ padded \/ begins, whole)
    \o If(first, [A EXCEPT !.k = "put"]) \o If(last, [Z EXCEPT !.k = "put"])

\* the two read-modify-writes of a request (nfs_rmw_t::other)
Pair(todo) == {1, 2} \subseteq {todo[i].i : i \in DOMAIN todo}
Aligned(o, s) ==
  LET todo == AlignParts(s, o.off, o.len, o.new) IN
  [o EXCEPT !.todo = todo, !.pair = Pair(todo), !.rv = <<0, 0>>]

-----------------------------------------------------------------------------
(* The size of a file that has an inode of its own grows: one update at a   *)
(* time per proxy, covering every write that waits for it.                  *)

NeedsExtend(o) == o.ie.size < o.new \/ o.unshared

\* st is [e, o]: the proxy's extend state of the file and the requests
Release(st, p) ==
  LET refs == st.e.refs \ {p} IN
  [st EXCEPT !.e = IF refs = {} THEN NoExt ELSE [@ EXCEPT !.refs = refs]]

ExtendStep(st, p) ==
  LET next == Larger(st.e.next, st.o[p].new) IN
  IF st.e.cur > 0
  THEN [e |-> [st.e EXCEPT !.next = next, !.wait = Append(@, p)],
        o |-> [st.o EXCEPT ![p].pc = "extwait"]]
  ELSE IF st.e.done < st.o[p].new
  THEN [e |-> [st.e EXCEPT !.cur = next, !.next = 0],
        o |-> [st.o EXCEPT ![p].pc = "extend"]]
  ELSE Release([e |-> [st.e EXCEPT !.next = next], o |-> [st.o EXCEPT ![p].pc = "ok"]], p)

\* the file is updated inside its shared volume
InPlace(o) == o.ie.place # NoPlace /\ ~o.unshared
\* the data is written, or not: what comes next.  The result of a write in the
\* volume is replaced by that of the update of the inode entry.
Written(p, o) ==
  LET x == Px(p)
      st == ExtendStep([e |-> [ext[x][o.f] EXCEPT !.refs = @ \cup {p}],
                        o |-> [op EXCEPT ![p] = o]], p) IN
  IF InPlace(o)
  THEN Goto(p, o, "update") /\ UNCHANGED <<ext, touch>>
  ELSE IF o.err
  THEN Goto(p, o, "fail") /\ UNCHANGED <<ext, touch>>
  ELSE IF NeedsExtend(o)
  THEN op' = st.o /\ ext' = [ext EXCEPT ![x][o.f] = st.e] /\ UNCHANGED touch
  ELSE /\ touch' = [touch EXCEPT ![x] = @ \cup {o.f}]
       /\ Goto(p, o, "ok") /\ UNCHANGED ext

Proceed(p, o) ==
  IF o.todo # <<>> THEN Goto(p, o, "align") /\ UNCHANGED <<ext, touch>> ELSE Written(p, [Plain(o) EXCEPT !.err = o.err])

Target(o) == IF o.unshared THEN Own(o.f) ELSE Where(o.f, o.ie)

AlignGet(p, part) ==
  LET o == op[p]  s == Target(o)  i == part.i
      fresh == o.rv[i] = 0
      mine == IF fresh THEN data[s].ver + 1 ELSE o.rv[i]
      rv == IF fresh /\ o.pair THEN [j \in 1..2 |-> IF j = i THEN mine ELSE mine + 1]
            ELSE [o.rv EXCEPT ![i] = mine] IN
  /\ Proceed(p, [o EXCEPT !.rv = rv, !.rbuf[i] = data[s].d, !.todo = Tail(@)])
  /\ UNCHANGED <<data, holes>>

\* mutant: the version to write is taken for the one that was read
MutSameVersion(p, part) == data[Target(op[p])].ver = op[p].rv[part.i]
\* the version of the object is the one that was read, or EINTR
SameVersion(p, part) == data[Target(op[p])].ver + 1 = op[p].rv[part.i]

AlignPut(p, part) ==
  LET o == op[p]  s == Target(o)  i == part.i
      sec == SectorOf(s, part.lo)
      d == [u \in Units |->
              IF SectorOf(s, u) # sec THEN data[s].d[u]
              ELSE IF u \in part.lo..(part.hi - 1) THEN o.val ELSE o.rbuf[i][u]] IN
  IF SameVersion(p, part)
  THEN /\ data' = [data EXCEPT ![s].d = d, ![s].ver = @ + 1,
                               ![s].hdr = IF part.hdr = "junk" THEN Junk ELSE @]
       /\ holes' = holes \cup (IF part.hdr = "junk" THEN {o.f} \X Units ELSE {})
                         \cup (IF o.pair THEN Lost(o.f, s, d) ELSE {})
       /\ Proceed(p, [o EXCEPT !.todo = Tail(@)])
  ELSE /\ Proceed(p, [o EXCEPT !.rv[i] = 0, !.todo = Tail(@) \o <<[part EXCEPT !.k = "get"], part>>])
       /\ UNCHANGED <<data, holes>>

\* a header alone is not a multiple of the sector: the client refuses to write it
AlignRaw(p, part) ==
  LET o == op[p]  s == Target(o)
      pad == part.hi..(part.hi + part.pad - 1)
      d == [u \in Units |->
              IF u \in part.lo..(part.hi - 1) THEN o.val
              ELSE IF u \in pad THEN 0 ELSE data[s].d[u]] IN
  IF part.hdr = "alone"
  THEN Proceed(p, [o EXCEPT !.todo = Tail(@), !.err = TRUE]) /\ UNCHANGED <<data, holes>>
  ELSE /\ data' = [data EXCEPT ![s].d = d, ![s].ver = @ + 1,
                               ![s].hdr = IF part.hdr = "new" THEN o.f ELSE @]
       /\ holes' = holes \cup (Lost(o.f, s, d) \cap ({o.f} \X pad))
       /\ Proceed(p, [o EXCEPT !.todo = Tail(@)])

\* the write of a part fails and nothing of it is stored
AlignFails(p, part) ==
  /\ part.k # "get" /\ faults.errors > 0
  /\ holes' = holes \cup (IF InPlace(op[p]) THEN {op[p].f} \X (part.lo..(part.hi - 1)) ELSE {})
  /\ Proceed(p, [op[p] EXCEPT !.todo = Tail(@), !.err = TRUE])
  /\ UNCHANGED data

Align(p) ==
  /\ At(p, "align")
  /\ LET part == Head(op[p].todo) IN
     \/ /\ CASE part.k = "get" -> AlignGet(p, part)
            [] part.k = "put" -> AlignPut(p, part)
            [] part.k = "raw" -> AlignRaw(p, part)
        /\ UNCHANGED faults
     \/ /\ AlignFails(p, part)
        /\ faults' = [faults EXCEPT !.errors = @ - 1]
  /\ UNCHANGED <<setup, inode, volkey, used, cache, volume, queue, left, defrag, acked>>

-----------------------------------------------------------------------------
(* WRITE, and the forced move of defragmentation, which writes nothing      *)

Small(o) == o.off + o.len + Header < Threshold

NeedsMove(o, e) ==
  \/ e.size = 0 /\ e.place = NoPlace /\ o.off + o.len > 0
  \/ e.place # NoPlace /\ e.alloc < Header + o.off + o.len
  \/ o.from # NoPlace /\ e.place = o.from

Route(p, o) ==
  IF Small(o) /\ NeedsMove(o, o.ie) THEN Goto(p, o, "alloc")
  ELSE IF o.len = 0 THEN Goto(p, o, "ok")
  ELSE IF o.ie.place = NoPlace \/ Small(o) THEN Goto(p, Aligned(o, Where(o.f, o.ie)), "align")
  ELSE Goto(p, o, IF o.ie.size # 0 THEN "unread" ELSE "unshare")

WriteInode(p) ==
  /\ At(p, "inode")
  /\ \E e \in Seen(p, op[p].f) :
       /\ Saw(p, op[p].f, e)
       /\ IF op[p].retried /\ e.ver = op[p].ie.ver
          THEN Goto(p, op[p], "eio")
          ELSE Route(p, [op[p] EXCEPT !.ie = e, !.unshared = FALSE,
                                      !.new = Larger(e.size, op[p].off + op[p].len)])
  /\ UNCHANGED <<setup, inode, data, volkey, used, volume, queue, ext, touch, left,
                 defrag, acked, holes, faults>>

\* allocate_shared_space: o gets the n-th place of volume v; then the old data
\* is read unless the write covers it
WithPlace(o, v, n) ==
  [o EXCEPT !.place = <<v, n>>,
            !.pc = IF o.ie.place # NoPlace /\ o.ie.size # 0
                      /\ (o.off > 0 \/ o.off + o.len < o.new) THEN "old" ELSE "new"]

AllocSpace(p) ==
  /\ At(p, "alloc")
  /\ LET v == volume[Px(p)] IN
     IF v = 0
     THEN /\ queue' = [queue EXCEPT ![Px(p)] = Append(@, p)]
          /\ Goto(p, op[p], "queued")
          /\ UNCHANGED used
     ELSE /\ used[v] < PlaceMax
          /\ op' = [op EXCEPT ![p] = WithPlace(@, v, used[v] + 1)]
          /\ used' = [used EXCEPT ![v] = @ + 1]
          /\ UNCHANGED queue
  /\ UNCHANGED <<setup, inode, data, volkey, cache, volume, ext, touch, left, defrag,
                 acked, holes, faults>>

\* a new volume: its number is usable before its keys are written
VolumeId(x) ==
  /\ queue[x] # <<>> /\ volume[x] = 0
  /\ \E v \in 1..VolMax :
       /\ volkey[v] = "none" /\ used[v] = 0 /\ \A y \in Proxies : volume[y] # v
       /\ \A w \in 1..(v - 1) : volkey[w] # "none" \/ used[w] # 0 \/ \E y \in Proxies : volume[y] = w
       /\ volume' = [volume EXCEPT ![x] = v]
  /\ UNCHANGED <<setup, inode, data, volkey, used, cache, queue, ext, touch, op, left,
                 defrag, acked, holes, faults>>

VolumeKey(x) ==
  /\ queue[x] # <<>> /\ volume[x] # 0 /\ volkey[volume[x]] = "none"
  /\ volkey' = [volkey EXCEPT ![volume[x]] = "key"]
  /\ UNCHANGED <<setup, inode, data, used, cache, volume, queue, ext, touch, op, left,
                 defrag, acked, holes, faults>>

\* finish_allocate_shared
VolumeListed(x) ==
  /\ queue[x] # <<>> /\ volume[x] # 0 /\ volkey[volume[x]] = "key"
  /\ LET v == volume[x]
         nth(p) == used[v] + CHOOSE i \in DOMAIN queue[x] : queue[x][i] = p IN
     /\ used[v] + Len(queue[x]) <= PlaceMax
     /\ volkey' = [volkey EXCEPT ![v] = "listed"]
     /\ op' = [p \in Procs |-> IF p \in Range(queue[x]) THEN WithPlace(op[p], v, nth(p)) ELSE op[p]]
     /\ used' = [used EXCEPT ![v] = @ + Len(queue[x])]
     /\ queue' = [queue EXCEPT ![x] = <<>>]
  /\ UNCHANGED <<setup, inode, data, cache, volume, ext, touch, left, defrag, acked,
                 holes, faults>>

\* nfs_do_shared_read, before a move and before the file leaves its volume
SharedRead(p) ==
  /\ op[p].pc \in {"old", "unread"}
  /\ IF Unrelated(p, op[p].ie.place) THEN Retry(p, "inode")
     ELSE Goto(p, [op[p] EXCEPT !.buf = data[op[p].ie.place].d],
               IF At(p, "old") THEN "new" ELSE "unwrite")
  /\ UNCHANGED <<setup, inode, data, volkey, used, cache, volume, queue, ext, touch,
                 left, defrag, acked, holes, faults>>

\* nfs_do_shared_write; what lies between the old end and the write comes from
\* beyond the buffer
SharedWrite(p) ==
  /\ At(p, "new")
  /\ LET o == op[p]
         hasOld == o.ie.place # NoPlace /\ o.ie.size # 0
         old(u) == IF ~hasOld THEN 0 ELSE IF u < o.ie.size THEN o.buf[u] ELSE Junk IN
     /\ data' = [data EXCEPT ![o.place] =
          [hdr |-> o.f, ver |-> @.ver + 1,
           d |-> [u \in Units |->
                    IF u >= o.new THEN 0
                    ELSE IF u \in o.off..(o.off + o.len - 1) THEN o.val ELSE old(u)]]]
     /\ holes' = holes \cup (IF hasOld THEN {o.f} \X (o.ie.size..(o.off - 1)) ELSE {})
     /\ Goto(p, o, "moved")
  /\ UNCHANGED <<setup, inode, volkey, used, cache, volume, queue, ext, touch, left,
                 defrag, acked, faults>>

\* the write of a file's data to a new place or to its own inode fails
CopyFails(p) ==
  /\ op[p].pc \in {"new", "unwrite"} /\ faults.errors > 0
  /\ faults' = [faults EXCEPT !.errors = @ - 1]
  /\ Goto(p, Plain(op[p]), "fail")
  /\ UNCHANGED <<setup, inode, data, volkey, used, cache, volume, queue, ext, touch, left,
                 defrag, acked, holes>>

\* new_moved_ientry
Moved(p) ==
  /\ At(p, "moved")
  /\ LET o == op[p] IN
     IF Unchanged(p, o.f)
     THEN /\ Put(p, o.f, [o.ie EXCEPT !.size = o.new, !.place = o.place,
                                      !.alloc = RoundUp(Header + o.new)])
          /\ Goto(p, Plain(o), "ok")
     ELSE Again(p)
  /\ UNCHANGED <<setup, data, volkey, used, volume, queue, ext, touch, left, defrag,
                 acked, holes, faults>>

\* new_shared_ientry: "We always have to change inode entry on shared writes"
Update(p) ==
  /\ At(p, "update")
  /\ IF Unchanged(p, op[p].f)
     THEN Put(p, op[p].f, [op[p].ie EXCEPT !.size = op[p].new]) /\ Goto(p, op[p], "ok")
     ELSE Again(p)
  /\ UNCHANGED <<setup, data, volkey, used, volume, queue, ext, touch, left, defrag,
                 acked, holes, faults>>

\* nfs_do_unshare_write, without any comparison
UnshareWrite(p) ==
  /\ At(p, "unwrite")
  /\ LET o == op[p]  s == Own(o.f)
         d == [u \in Units |-> IF u < o.ie.size THEN o.buf[u]
                               ELSE IF u < RoundUp(o.ie.size) THEN 0 ELSE data[s].d[u]] IN
     /\ data' = [data EXCEPT ![s].d = d, ![s].ver = @ + 1]
     /\ holes' = holes \cup Lost(o.f, s, d)
     /\ Goto(p, Plain(o), "unshare")
  /\ UNCHANGED <<setup, inode, volkey, used, cache, volume, queue, ext, touch, left,
                 defrag, acked, faults>>

\* new_unshared_ientry
Unshare(p) ==
  /\ At(p, "unshare")
  /\ LET o == op[p] IN
     IF Unchanged(p, o.f)
     THEN /\ Put(p, o.f, [o.ie EXCEPT !.place = NoPlace, !.alloc = 0])
          /\ Goto(p, Aligned([o EXCEPT !.unshared = TRUE], Own(o.f)), "align")
     ELSE Again(p)
  /\ UNCHANGED <<setup, data, volkey, used, volume, queue, ext, touch, left, defrag,
                 acked, holes, faults>>

\* nfs_kv_extend_inode.  After an unshare the text compared is a new one with
\* another ctime, which is never stored.
Extend(p) ==
  /\ At(p, "extend")
  /\ LET x == Px(p)  o == op[p]  e == ext[x][o.f]
         ok == Unchanged(p, o.f) /\ ~o.unshared
         st0 == [e |-> [e EXCEPT !.cur = 0, !.wait = <<>>,
                                 !.done = IF ok THEN e.cur ELSE @],
                 o |-> [op EXCEPT ![p].pc = IF ok THEN "ok" ELSE "inode"]]
         st == Release(FoldLeft(ExtendStep, st0, e.wait), p) IN
     /\ op' = st.o
     /\ ext' = [ext EXCEPT ![x][o.f] = st.e]
     /\ IF ok THEN Put(p, o.f, [o.ie EXCEPT !.size = e.cur])
        ELSE Saw(p, o.f, inode[o.f]) /\ UNCHANGED inode
  /\ UNCHANGED <<setup, data, volkey, used, volume, queue, touch, left, defrag, acked,
                 holes, faults>>

\* touch_inodes
Touch(x) ==
  /\ touch[x] # {}
  /\ inode' = [f \in Files |-> IF f \in touch[x] THEN [inode[f] EXCEPT !.ver = @ + 1] ELSE inode[f]]
  /\ cache' = [cache EXCEPT ![x] = [f \in Files |-> IF f \in touch[x] THEN inode'[f] ELSE @[f]]]
  /\ touch' = [touch EXCEPT ![x] = {}]
  /\ UNCHANGED <<setup, data, volkey, used, volume, queue, ext, op, left, defrag, acked,
                 holes, faults>>

-----------------------------------------------------------------------------
(* READ                                                                     *)

Got(o, s, end) ==
  [u \in Units |-> IF u \in o.off..(end - 1) THEN data[s].d[u] ELSE 0]

ReadInode(p) ==
  /\ At(p, "rinode")
  /\ \E e \in Seen(p, op[p].f) :
       /\ Saw(p, op[p].f, e)
       /\ Goto(p, [op[p] EXCEPT !.ie = e],
               IF op[p].retried /\ e.ver = op[p].ie.ver THEN "eio"
               ELSE IF e.place = NoPlace THEN "rown"
               ELSE IF op[p].off >= e.size THEN "ok" ELSE "rshared")
  /\ UNCHANGED <<setup, inode, data, volkey, used, volume, queue, ext, touch, left,
                 defrag, acked, holes, faults>>

ReadData(p) ==
  /\ op[p].pc \in {"rshared", "rown"}
  /\ LET o == op[p]  end == o.off + o.len IN
     IF At(p, "rown") THEN Goto(p, [o EXCEPT !.got = Got(o, Own(o.f), end)], "ok")
     ELSE IF Unrelated(p, o.ie.place) THEN Retry(p, "rinode")
     ELSE Goto(p, [o EXCEPT !.got = Got(o, o.ie.place, Smaller(end, o.ie.size))], "ok")
  /\ UNCHANGED <<setup, inode, data, volkey, used, cache, volume, queue, ext, touch,
                 left, defrag, acked, holes, faults>>

-----------------------------------------------------------------------------
(* Defragmentation of a volume that no proxy appends to: every file found   *)
(* by its header is moved away, then the data and the keys are removed.     *)

DefragStart(p) ==
  /\ op[p] = Idle /\ left[p] # <<>> /\ Head(left[p]).k = "defrag" /\ defrag = NoDefrag
  /\ \E v \in 1..VolMax :
       /\ volkey[v] = "listed" /\ \A x \in Proxies : volume[x] # v
       /\ defrag' = [NoDefrag EXCEPT !.vol = v, !.purge = {v} \X (1..used[v])]
  /\ left' = [left EXCEPT ![p] = Tail(@)]
  /\ UNCHANGED <<setup, inode, data, volkey, used, cache, volume, queue, ext, touch, op,
                 acked, holes, faults>>

\* kv_fs_defrag_t::read: the headers of the next places, once the moves of the
\* ones read before have started; a buffer without data ends the scan
DefragRead ==
  /\ defrag.vol # 0 /\ defrag.todo = <<>> /\ ~defrag.empty /\ ~defrag.err
  /\ LET v == defrag.vol
         buf == [k \in 1..setup.buffer |-> <<v, defrag.read + k>>]
         written == SelectSeq(buf, LAMBDA s : s \in Places /\ data[s].ver > 0)
         heads == [k \in DOMAIN written |-> [s |-> written[k], f |-> data[written[k]].hdr]] IN
     defrag' = [defrag EXCEPT !.read = @ + setup.buffer, !.empty = written = <<>>,
                              !.todo = SelectSeq(heads, LAMBDA h : h.f > 0)]
  /\ UNCHANGED <<setup, inode, data, volkey, used, cache, volume, queue, ext, touch, op,
                 left, acked, holes, faults>>

\* nfs_move_inode_from: as many at once as there are movers (defrag_iodepth)
DefragMove(p) ==
  /\ p \in setup.movers /\ op[p] = Idle /\ ~defrag.err /\ defrag.todo # <<>>
  /\ LET h == Head(defrag.todo) IN
     Goto(p, [Idle EXCEPT !.k = "move", !.f = h.f, !.from = h.s, !.cached = FALSE], "inode")
  /\ defrag' = [defrag EXCEPT !.todo = Tail(@)]
  /\ UNCHANGED <<setup, inode, data, volkey, used, cache, volume, queue, ext, touch,
                 left, acked, holes, faults>>

NoMoves == \A p \in setup.movers : op[p].k # "move"
Scanned == defrag.empty /\ ~defrag.err /\ defrag.todo = <<>> /\ NoMoves

\* start_rm_data removes the objects in any order
DefragPurge ==
  /\ Scanned
  /\ \E s \in defrag.purge :
       /\ data' = [data EXCEPT ![s] = NoData]
       /\ defrag' = [defrag EXCEPT !.purge = @ \ {s}]
  /\ UNCHANGED <<setup, inode, volkey, used, cache, volume, queue, ext, touch, op, left,
                 acked, holes, faults>>

\* the volume's own key, then its key in the list
DefragKeys ==
  /\ Scanned /\ defrag.purge = {}
  /\ LET listed == volkey[defrag.vol] = "listed" IN
     /\ volkey' = [volkey EXCEPT ![defrag.vol] = IF listed THEN "orphan" ELSE "none"]
     /\ defrag' = IF listed THEN defrag ELSE NoDefrag
  /\ UNCHANGED <<setup, inode, data, used, cache, volume, queue, ext, touch, op, left,
                 acked, holes, faults>>

\* a file could not be moved: the volume stays
DefragFail ==
  /\ defrag.err /\ NoMoves
  /\ defrag' = NoDefrag
  /\ UNCHANGED <<setup, inode, data, volkey, used, cache, volume, queue, ext, touch, op,
                 left, acked, holes, faults>>

-----------------------------------------------------------------------------
(* A proxy dies and is started again; its clients do not repeat requests.   *)

Crash(x) ==
  /\ faults.crashes > 0
  /\ faults' = [faults EXCEPT !.crashes = @ - 1]
  /\ op' = [p \in Procs |-> IF Px(p) = x THEN Idle ELSE op[p]]
  /\ cache' = [cache EXCEPT ![x] = inode]
  /\ volume' = [volume EXCEPT ![x] = 0]
  /\ queue' = [queue EXCEPT ![x] = <<>>]
  /\ ext' = [ext EXCEPT ![x] = [f \in Files |-> NoExt]]
  /\ touch' = [touch EXCEPT ![x] = {}]
  /\ defrag' = IF \E p \in setup.movers : Px(p) = x THEN NoDefrag ELSE defrag
  /\ UNCHANGED <<setup, inode, data, volkey, used, left, acked, holes>>

Write(p) ==
  WriteInode(p) \/ AllocSpace(p) \/ SharedRead(p) \/ SharedWrite(p) \/ CopyFails(p) \/ Moved(p)
    \/ Align(p) \/ Update(p) \/ UnshareWrite(p) \/ Unshare(p) \/ Extend(p)
Read(p) == ReadInode(p) \/ ReadData(p)
Defrag == DefragRead \/ DefragPurge \/ DefragKeys \/ DefragFail
Volume(x) == VolumeId(x) \/ VolumeKey(x) \/ VolumeListed(x) \/ Touch(x)

Steps ==
  \/ \E p \in Procs : Request(p) \/ Write(p) \/ Read(p) \/ Reply(p) \/ DefragStart(p) \/ DefragMove(p)
  \/ \E x \in Proxies : Volume(x)
  \/ Defrag

AllDone == (\A p \in Procs : op[p] = Idle /\ left[p] = <<>>) /\ defrag = NoDefrag
\* the clients have nothing more to ask
Quiet == AllDone /\ UNCHANGED vars

Next == Steps \/ Quiet \/ \E x \in Proxies : Crash(x)

Spec == Init /\ [][Next]_vars /\ WF_vars(Steps)

-----------------------------------------------------------------------------
(* Properties.                                                              *)

\* what a reader of the current entry finds
Content(f, u) ==
  LET e == inode[f] IN
  IF u >= e.size THEN 0
  ELSE IF e.place # NoPlace /\ data[e.place].hdr # f THEN Junk
  ELSE data[Where(f, e)].d[u]

\* A unit of a file never falls back behind the last write of it that was
\* acknowledged, whatever moves, unshares, extensions, defragmentation, failed
\* writes and crashes run at the same time (nfs_kv_continue_write), except where
\* the code is known to lose it (holes): zero padding over bytes another request
\* wrote behind the end this one saw (AlignRaw); an older copy of the file written
\* to its own inode by a second unshare (UnshareWrite); the second of two
\* read-modify-writes of one request, whose version is derived from the first one
\* and not from what it read (AlignPut); a write that begins at the header and
\* ends inside the first sector, which destroys the header (AlignPut); a write
\* that failed in a shared volume and is acknowledged by the update of the inode
\* entry (AlignFails); and bytes between the old end and a write behind it, which
\* come from beyond the buffer of a move (SharedWrite).
AckedKept ==
  \A f \in Files, u \in Units :
    <<f, u>> \in holes \/ Content(f, u) >= acked[f][u].val

\* The comment on padding says "rmw can be skipped at end - we can just zero pad
\* the request": the padding, unlike a read-modify-write, is safe only if nobody
\* has written behind the end this request has seen.
PaddingSafe ==
  [][\A p \in Procs :
       At(p, "align") /\ Head(op[p].todo).pad > 0 /\ op'[p] # op[p] =>
         \A u \in Units : LET o == op[p] IN
           u >= o.new /\ acked[o.f][u].val > 0 /\ Content(o.f, u) >= acked[o.f][u].val
             => Content(o.f, u)' >= acked[o.f][u].val]_vars

\* A READ through the proxy that acknowledged a write returns that write or a
\* newer one, although it may use a cached inode entry and a place the file
\* has left (the header check of nfs_kv_continue_read); and "inode didn't change
\* after retry - file data is lost?" is only said of files whose header really
\* was destroyed.
ReadsFresh ==
  \A p \in Procs :
    /\ op[p].k = "read" /\ At(p, "ok") =>
         \A u \in op[p].off..(op[p].off + op[p].len - 1) :
           <<op[p].f, u>> \in holes \/ op[p].got[u] >= op[p].want[u]
    /\ At(p, "eio") => \A u \in Units : <<op[p].f, u>> \in holes

\* Both of these, with the exceptions AckedKept lists: file data is kept, and READs
\* find it (nfs_kv_continue_write, nfs_kv_continue_read).
DataKept == AckedKept /\ ReadsFresh

\* Every request ends, however often its compare-and-swaps fail.
RequestsEnd == <>AllDone
=============================================================================
