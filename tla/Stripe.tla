------------------------------- MODULE Stripe -------------------------------
(***************************************************************************)
(* The chunks of one object in an active PG: what the primary OSD reads,   *)
(* decodes, encodes and writes when the object is whole, degraded or in    *)
(* the wrong place, how it notices rotten chunks and sorts the object into *)
(* the lists of the PG (osd_primary.cpp, osd_primary_write.cpp), and how   *)
(* scrub, recovery and vitastor-cli fix bring it back (osd_scrub.cpp,      *)
(* osd_flush.cpp, cli_fix.cpp).  The arithmetic is in module Rmw.          *)
(*                                                                         *)
(* Writes are committed at once (immediate_commit = all).  Lost OSDs,      *)
(* SYNC, rollback and epochs are in module PG.                             *)
(*                                                                         *)
(* An OSD executes the requests of the primary in the order they are sent, *)
(* so all sub-reads of an operation are done in the step that sends them,  *)
(* and their results are handled in a later step.                          *)
(***************************************************************************)
EXTENDS Rmw

CONSTANTS Setups,    \* scheme, OSD set, where the chunks are at first, budgets
          Nothing    \* no object state

VARIABLES setup,
          disk,      \* the chunk in every place
          obj,       \* the entry in incomplete_, degraded_ or misplaced_objects
          odd,       \* the entry in inconsistent_objects
          wr,        \* the write, recovery or delete at the head of write_queue
          rd,        \* a read
          sc,        \* the scrub of the PG and of the object
          fix,       \* vitastor-cli fix
          content,   \* the data chunks as they were acknowledged (history)
          was,       \* the places where a chunk has rotted (history)
          hole,      \* known defects of the code that have struck (history)
          left       \* how many operations and faults may still begin

vars == <<setup, disk, obj, odd, wr, rd, sc, fix, content, was, hole, left>>

K == setup.k
N == setup.n
cur_set == setup.cur
Rep == setup.scheme = "replicated"
Xor == setup.scheme = "xor"
Data == 1..K
pg_cursize == Cardinality({i \in 1..N : cur_set[i] # 0})
Locs == DOMAIN disk          \* pairs of an OSD and a role
-----------------------------------------------------------------------------
(* Chunks, places and object states. *)

Zeros == [u \in Units |-> 0]
Absent == [ver |-> 0, data |-> Zeros, bmp |-> 0, rotten |-> {}]
Place(role, osd) == [role |-> role, osd |-> osd, bad |-> {}]
Good(p) == p.bad \intersect {"outdated", "corrupted"} = {}

(* pg.cur_set as the places of an object, vacant positions included. *)
CurPlaces == {Place(IF Rep THEN 1 ELSE i, cur_set[i]) : i \in 1..N}
PlacesOf(o) == IF o = Nothing THEN CurPlaces ELSE o.set

(* add_object_to_state: where the chunks of an object are read from. *)
ReadTarget(set) ==
  LET Osds(r) == {p.osd : p \in {q \in set : Good(q) /\ q.role = r}}
      s == SetToSortSeq(Osds(1), <)
  IN IF Rep THEN [i \in 1..N |-> IF i <= Len(s) THEN s[i] ELSE 0]
     ELSE [i \in 1..N |-> Max({0} \union Osds(i))]

get_object_osd_set(o) == IF o = Nothing THEN cur_set ELSE ReadTarget(o.set)

(* add_object_to_set: the list an object belongs to.  A vacant position of *)
(* cur_set counts as a role the object has.                                *)
KindOf(set) ==
  LET fit   == {p \in set : "outdated" \notin p.bad}
      sound == {p \in fit : "corrupted" \notin p.bad}
      roles == Cardinality({p.role : p \in sound})
      Moved(p) == IF Rep THEN \A i \in 1..N : cur_set[i] # p.osd ELSE cur_set[p.role] # p.osd
  IN CASE \E p \in fit : "inconsistent" \in p.bad -> "inconsistent"
       [] OTHER -> IF roles < K THEN "incomplete"
                   ELSE IF roles < pg_cursize THEN "degraded"
                   ELSE IF fit # set \/ \E p \in sound : Moved(p) THEN "misplaced"
                   ELSE IF sound # fit THEN "corrupted"
                   ELSE "clean"

(* mark_object: the state it returns.  prev is the state the caller had    *)
(* when it began, now the current one.                                     *)
mark_object(now, prev, set) ==
  IF prev # now \/ set = PlacesOf(now) THEN now
  ELSE IF KindOf(set) = "clean" THEN Nothing
  ELSE [set |-> set, kind |-> KindOf(set)]

(* An object that is only corrupted or inconsistent has no bit in pg.state *)
(* that makes get_object_osd_set look for it.                              *)
Listed(s) == IF s = Nothing \/ s.kind \in {"corrupted", "inconsistent"} THEN Nothing ELSE s

(* mark_object with its effect on the lists. *)
Mark(prev, set) ==
  LET s == mark_object(obj, prev, set) IN
  /\ obj' = IF s = obj THEN obj ELSE Listed(s)
  /\ odd' = IF s # Nothing /\ s.kind = "inconsistent" THEN s ELSE odd

(* The flags of a chunk after a read: an error on a chunk that is marked   *)
(* already takes the mark away, unless the chunk was missing.              *)
Flags(bad, error, read, missing) ==
  IF error /\ bad # {"corrupted"} THEN {"corrupted"}
  ELSE IF read /\ ~missing THEN bad \ {"corrupted"} ELSE bad

(* mark_object_corrupted *)
Corrupted(set, sts) ==
  LET Hit(p) == sts[p.role].osd = p.osd
      st(p) == sts[p.role]
  IN {IF Hit(p) THEN [p EXCEPT !.bad = Flags(@, st(p).bad, st(p).re > 0, st(p).missing)] ELSE p :
        p \in {q \in set : ~(Hit(q) /\ st(q).gone)}}
-----------------------------------------------------------------------------
(* Sub-reads. *)

(* The sub-read of a stripe: a chunk that is not there reads as zeros, and *)
(* a checksum that does not match is EDOM.                                 *)
ReadChunk(st, osd, role) ==
  LET c == disk[<<osd, role>>]
      part == IF st.re = BitmapOnly THEN {} ELSE Between(st.rs, st.re)
      s == [st EXCEPT !.osd = osd, !.bad = FALSE]
      Filled(b) == [u \in Units |-> IF u \in part THEN b[u] ELSE Junk]
  IN IF osd = 0 THEN [st EXCEPT !.osd = 0, !.rb = NoBuf]
     ELSE IF c.ver = 0 THEN [s EXCEPT !.gone = TRUE, !.rb = Filled(Zeros)]
     ELSE IF setup.csum /\ part \intersect c.rotten # {} THEN [s EXCEPT !.bad = TRUE, !.rb = NoBuf]
     ELSE [s EXCEPT !.rb = Filled(c.data), !.bmp = c.bmp]

(* submit_primary_subops: the positions that are read.  When nothing is to *)
(* be read, one chunk is asked for its version: the one of the primary, or *)
(* the first.                                                              *)
ReadRoles(sts, set) ==
  LET there == {i \in 1..N : set[i] # 0}
      want  == {i \in there : ~Rep /\ sts[i].re # 0}
      own   == {i \in there : set[i] = setup.primary}
  IN IF want # {} \/ there = {} THEN want
     ELSE {IF own # {} THEN Max(own) ELSE Min(there)}

SubmitReads(sts, set) ==
  LET at == ReadRoles(sts, set) IN
  IF Rep THEN [sts EXCEPT ![1] = IF at = {} THEN @ ELSE ReadChunk(@, set[CHOOSE i \in at : TRUE], 1)]
  ELSE [r \in DOMAIN sts |-> IF r \in at \/ sts[r].re # 0 THEN ReadChunk(sts[r], set[r], r) ELSE sts[r]]

(* handle_primary_subop: versions that differ are ERANGE, which outranks   *)
(* EDOM.                                                                   *)
Fetched(sts, set) ==
  LET at == ReadRoles(sts, set)
      got == SubmitReads(sts, set)
      Stripe(i) == got[IF Rep THEN 1 ELSE i]
      vers == {disk[<<set[i], IF Rep THEN 1 ELSE i>>].ver : i \in {j \in at : ~Stripe(j).bad}} \ {0}
  IN [st |-> got, n |-> Cardinality(at), fact |-> Max({0} \union vers),
      err |-> IF Cardinality(vers) > 1 THEN "range"
              ELSE IF \E i \in at : Stripe(i).bad THEN "dom" ELSE "ok"]

(* The ranges, missing flags and bitmaps of an earlier attempt are not     *)
(* reset: a parity chunk it read is taken for one that was read again, a   *)
(* chunk it missed is decoded even if it has been read now, and one that   *)
(* has gone keeps its bitmap.                                              *)
Stale(sts) ==
  \E r \in DOMAIN sts : \/ ~Rep /\ sts[r].re # 0 /\ sts[r].missing # (sts[r].osd = 0)
                        \/ sts[r].gone /\ sts[r].bmp # 0

(* A chunk is decoded from some that a delete has removed and some that it *)
(* has not.                                                                *)
Torn(sts) ==
  LET read == {r \in DOMAIN sts : sts[r].re # 0 /\ ~sts[r].missing} IN
  /\ ~Rep /\ \E r \in DOMAIN sts : sts[r].re # 0 /\ sts[r].missing
  /\ \E r, q \in read : sts[r].gone /\ ~sts[q].gone
-----------------------------------------------------------------------------
(* Writes, recovery (a write of nothing) and deletes.  They wait for each  *)
(* other in write_queue, so there is one at a time.                        *)

Idle == [pc |-> "idle"]
Roles == 1..(IF Rep THEN 1 ELSE N)
LocOf(i, set) == <<set[i], IF Rep THEN 1 ELSE i>>
Targets == {LocOf(i, cur_set) : i \in {j \in 1..N : cur_set[j] # 0}}

(* The chunks [data, bitmap] after a request, and after a delete. *)
Written(c, off, len) ==
  LET q == split_stripes(K, K, off, len) IN
  [d \in Data |-> [data |-> [u \in Units |-> IF u \in Between(q[d].qs, q[d].qe) THEN setup.val ELSE c[d].data[u]],
                   bmp |-> bitmap_set(c[d].bmp, Between(q[d].qs, q[d].qe))]]
Deleted == [d \in Data |-> [data |-> Zeros, bmp |-> 0]]

(* What a read may return now. *)
Visible == {content} \union
           (IF wr.pc = "send" THEN {Written(content, wr.off, wr.len)}
            ELSE IF wr.pc = "del"
                 THEN {[d \in Data |-> IF d \in S THEN Deleted[d] ELSE content[d]] : S \in SUBSET Data}
            ELSE {})

(* What has to be read for the write; <<>> when it is refused with EIO. *)
WritePlan(w, seen) ==
  LET st == w.st[1]
      copy == [st EXCEPT !.ws = st.qs, !.we = st.qe]
  IN IF ~Rep THEN calc_rmw(w.st, get_object_osd_set(seen), cur_set, seen = Nothing, K, pg_cursize)
     ELSE IF seen = Nothing \/ Whole(st) THEN <<copy>>
     ELSE IF seen.kind = "incomplete" THEN <<>>
     ELSE <<[copy EXCEPT !.rs = 0, !.re = Size]>>

(* Where it is read from: a corrupted chunk may still tell its version.    *)
(* beyond is what the code finds behind the only stripe of a replicated    *)
(* object when it looks for stripes that are read.                         *)
WriteSource(plan, seen, beyond) ==
  LET set == get_object_osd_set(seen)
      read == \E r \in DOMAIN plan : plan[r].re > plan[r].rs
      fit(r) == {p.osd : p \in {q \in seen.set : "outdated" \notin q.bad /\ q.role = r}}
  IN IF seen = Nothing \/ seen.kind # "incomplete" \/ read \/ beyond \/ \E i \in 1..N : set[i] # 0 THEN set
     ELSE [i \in 1..N |-> IF i \in Roles /\ fit(i) # {} THEN Min(fit(i)) ELSE 0]

Planned(w, seen, beyond) ==
  LET plan == WritePlan(w, seen)
      got == Fetched(plan, WriteSource(plan, seen, beyond))
  IN IF plan = <<>> THEN Idle
     ELSE [w EXCEPT !.pc = IF got.n = 0 THEN "stuck" ELSE "read",
                    !.seen = seen, !.st = got.st, !.err = got.err, !.fact = got.fact]

MayLookBeyond == IF Rep /\ obj # Nothing /\ obj.kind = "incomplete" THEN BOOLEAN ELSE {FALSE}

StartWrite(kind, off, len) ==
  /\ wr.pc = "idle"
  /\ \E beyond \in MayLookBeyond :
       wr' = Planned([kind |-> kind, pc |-> "read", off |-> off, len |-> len, seen |-> Nothing,
                      st |-> [r \in Roles |-> [split_stripes(K, N, off, len)[r]
                                               EXCEPT !.wb = [u \in Units |-> setup.val]]],
                      err |-> "ok", fact |-> 0, todo |-> {}], obj, beyond)
  /\ UNCHANGED <<setup, disk, obj, odd, rd, sc, fix, content, was, hole>>

Write ==
  /\ left.write > 0
  /\ \E q \in setup.ranges : StartWrite("write", q[1], q[2])
  /\ left' = [left EXCEPT !.write = @ - 1]

(* continue_recovery, pick_next_recovery: misplaced objects of a degraded  *)
(* PG have to wait.                                                        *)
Recover ==
  /\ setup.recover
  /\ obj # Nothing
  /\ obj.kind = "degraded" \/ (obj.kind = "misplaced" /\ pg_cursize = N)
  /\ StartWrite("recover", 0, 0)
  /\ UNCHANGED left

(* EDOM: the object is marked and the write starts again.  Versions that   *)
(* differ are an error.                                                    *)
WriteRetry ==
  /\ wr.pc = "read" /\ wr.err # "ok"
  /\ IF wr.err = "range" THEN wr' = Idle /\ UNCHANGED <<obj, odd>>
     ELSE \E set \in {Corrupted(PlacesOf(obj), wr.st)} :
            /\ Mark(wr.seen, set)
            /\ wr' = Planned(wr, mark_object(obj, wr.seen, set), FALSE)
  /\ UNCHANGED <<setup, disk, rd, sc, fix, content, was, hole, left>>

(* The stripes with what is to be written. *)
Modified(w) ==
  LET st == w.st[1]
      b == [st EXCEPT !.bmp = bitmap_set(@, Between(st.ws, st.we))]
  IN IF ~Rep THEN calc_rmw_parity(w.st, get_object_osd_set(w.seen), cur_set, w.seen = Nothing, K, Xor)
     ELSE IF w.seen = Nothing \/ Whole(st) THEN <<b>>
     ELSE <<[b EXCEPT !.wb = Over(b.rb, b.qs, b.qe, b.wb), !.ws = 0, !.we = Size]>>

(* Bitmaps that are written though nobody read or computed them. *)
LostBitmap(w) ==
  \E r \in {l[2] : l \in Targets} :
     /\ w.st[r].re = 0 /\ ~Whole(w.st[r]) /\ r \notin ReadRoles(w.st, get_object_osd_set(w.seen))
     /\ r > K => ParityRange(w.st, get_object_osd_set(w.seen), cur_set, K).e = 0

WriteSend ==
  /\ wr.pc = "read" /\ wr.err = "ok" /\ wr.kind # "delete"
  /\ wr' = [wr EXCEPT !.pc = "send", !.st = Modified(wr), !.todo = Targets]
  /\ hole' = hole \union (IF ~Rep /\ LostBitmap(wr) THEN {"bitmap"} ELSE {})
                  \union (IF Stale(wr.st) THEN {"stale"} ELSE {})
  /\ UNCHANGED <<setup, disk, obj, odd, rd, sc, fix, content, was, left>>

(* Every OSD of cur_set gets a write, be it empty, and its bitmap. *)
Put(l) ==
  LET st == wr.st[l[2]] IN
  [ver |-> wr.fact + 1, data |-> Over(disk[l].data, st.ws, st.we, st.wb), bmp |-> st.bmp,
   rotten |-> disk[l].rotten \ Between(st.ws, st.we)]

(* A copy of a replicated object is there as soon as it is written. *)
WriteLand(l) ==
  /\ wr.pc = "send" /\ Rep /\ l \in wr.todo
  /\ disk' = [disk EXCEPT ![l] = Put(l)]
  /\ wr' = [wr EXCEPT !.todo = @ \ {l}]
  /\ UNCHANGED <<setup, obj, odd, rd, sc, fix, content, was, hole, left>>

(* remove_object_from_state with the state the operation has.  When the    *)
(* object has another one by now, the operation takes that one and leaves  *)
(* it in its list; when it has none, a null pointer is dereferenced.       *)
RemoveState ==
  IF wr.seen = Nothing THEN [now |-> obj, seen |-> Nothing, hole |-> {}]
  ELSE IF obj = wr.seen THEN [now |-> Nothing, seen |-> wr.seen, hole |-> {}]
  ELSE [now |-> obj, seen |-> obj, hole |-> {IF obj = Nothing THEN "crash" ELSE "kept"}]

(* All is written.  For EC and XOR the version override is removed: until  *)
(* now everybody else has read the old version.                            *)
WriteCommit ==
  /\ wr.pc = "send" /\ (Rep => wr.todo = {})
  /\ disk' = [l \in Locs |-> IF ~Rep /\ l \in Targets THEN Put(l) ELSE disk[l]]
  /\ \E s \in {RemoveState} :
       /\ obj' = s.now
       /\ hole' = hole \union s.hole
       /\ wr' = [wr EXCEPT !.pc = "end", !.seen = s.seen]
  /\ content' = Written(content, wr.off, wr.len)
  /\ UNCHANGED <<setup, odd, rd, sc, fix, was, left>>

(* submit_primary_del_subops: chunks outside of cur_set are extra. *)
WriteEnd ==
  /\ wr.pc = "end"
  /\ \E extra \in {{<<p.osd, p.role>> : p \in PlacesOf(wr.seen)} \ Targets} :
       disk' = [l \in Locs |-> IF l \in extra THEN Absent ELSE disk[l]]
  /\ wr' = Idle
  /\ UNCHANGED <<setup, obj, odd, rd, sc, fix, content, was, hole, left>>

(* A delete asks one chunk for the version; nobody answers when the object *)
(* has no chunk that can be read.                                          *)
Delete ==
  /\ left.delete > 0 /\ wr.pc = "idle"
  /\ \E got \in {Fetched([r \in Roles |-> NewStripe], get_object_osd_set(obj))} :
       wr' = IF got.n > 0 /\ got.fact = 0 THEN Idle
             ELSE [kind |-> "delete", off |-> 0, len |-> 0, seen |-> obj, st |-> <<>>, err |-> "ok",
                   fact |-> got.fact, pc |-> IF got.n = 0 THEN "stuck" ELSE "del",
                   todo |-> {<<p.osd, p.role>> : p \in {q \in PlacesOf(obj) : q.osd # 0}}]
  /\ left' = [left EXCEPT !.delete = @ - 1]
  /\ UNCHANGED <<setup, disk, obj, odd, rd, sc, fix, content, was, hole>>

DeleteLand(l) ==
  /\ wr.pc = "del" /\ l \in wr.todo
  /\ disk' = [disk EXCEPT ![l] = Absent]
  /\ wr' = [wr EXCEPT !.todo = @ \ {l}]
  /\ UNCHANGED <<setup, obj, odd, rd, sc, fix, content, was, hole, left>>

DeleteEnd ==
  /\ wr.pc = "del" /\ wr.todo = {}
  /\ \E s \in {RemoveState} :
       /\ obj' = s.now
       /\ hole' = hole \union s.hole \union (IF s.now # Nothing THEN {"ghost"} ELSE {})
  /\ wr' = Idle
  /\ content' = Deleted
  /\ UNCHANGED <<setup, disk, odd, rd, sc, fix, was, left>>
-----------------------------------------------------------------------------
(* Reads. *)

Sound(o) == {p \in PlacesOf(o) : p.osd # 0 /\ Good(p) /\ disk[<<p.osd, p.role>>].rotten = {}}

(* An attempt, with the state o the object has. *)
Attempt(r, o) ==
  LET set == get_object_osd_set(o)
      asked == [i \in Roles |-> IF i \in Data THEN [r.st[i] EXCEPT !.rs = r.st[i].qs, !.re = r.st[i].qe]
                                ELSE r.st[i]]
      plan == IF Rep THEN (IF o # Nothing /\ o.kind = "incomplete" THEN <<>> ELSE asked)
              ELSE extend_missing_stripes(asked, set, K)
      got == Fetched(plan, set)
      few == Cardinality({p.role : p \in Sound(o)}) < K
  IN IF plan = <<>> THEN [r EXCEPT !.pc = "done", !.out = "eio", !.few = few]
     ELSE [r EXCEPT !.pc = "read", !.st = got.st, !.err = got.err, !.seen = o, !.ok = Visible]

Read ==
  /\ left.read > 0 /\ rd.pc \in {"idle", "done"}
  /\ \E q \in setup.ranges :
       /\ q[2] > 0
       /\ rd' = Attempt([pc |-> "read", st |-> [r \in Roles |-> split_stripes(K, N, q[1], q[2])[r]], seen |-> Nothing,
                         err |-> "ok", out |-> "none", ok |-> {}, few |-> FALSE, mixed |-> FALSE], obj)
  /\ left' = [left EXCEPT !.read = @ - 1]
  /\ UNCHANGED <<setup, disk, obj, odd, wr, sc, fix, content, was, hole>>

ReadRetry ==
  /\ rd.pc = "read" /\ rd.err = "dom"
  /\ Mark(rd.seen, Corrupted(PlacesOf(obj), rd.st))
  /\ rd' = Attempt(rd, obj')
  /\ UNCHANGED <<setup, disk, wr, sc, fix, content, was, hole, left>>

ReadEnd ==
  /\ rd.pc = "read" /\ rd.err \in {"ok", "range"}
  /\ rd' = [rd EXCEPT !.pc = "done", !.out = rd.err,
                      !.st = IF Rep THEN @ ELSE reconstruct_stripes(@, K, Xor),
                      !.mixed = Stale(rd.st) \/ Torn(rd.st)]
  /\ UNCHANGED <<setup, disk, obj, odd, wr, sc, fix, content, was, hole, left>>
-----------------------------------------------------------------------------
(* Scrub. *)

ScrubOsd == IF \E i \in 1..N : cur_set[i] = setup.primary THEN setup.primary
            ELSE cur_set[Min({i \in 1..N : cur_set[i] # 0})]

(* pick_next_scrub, scrub_list: the objects of one OSD are listed. *)
ScrubList ==
  /\ setup.scrub /\ sc.pc = "idle"
  /\ \E l \in Locs : l[1] = ScrubOsd /\ disk[l].ver # 0
  /\ sc' = [sc EXCEPT !.pc = "list"]
  /\ UNCHANGED <<setup, disk, obj, odd, wr, rd, fix, content, was, hole, left>>

(* submit_scrub_subops: every chunk that is not outdated is read whole. A  *)
(* vacant position fails with EPIPE, which any other error hides.          *)
ScrubReads ==
  LET ps == SetToSortSeq({p \in PlacesOf(obj) : "outdated" \notin p.bad},
                         LAMBDA a, b : a.role < b.role \/ (a.role = b.role /\ a.osd < b.osd))
      st == [i \in 1..Len(ps) |->
              ReadChunk([NewStripe EXCEPT !.re = Size], ps[i].osd, ps[i].role) @@ [role |-> ps[i].role]]
      vers == {disk[<<st[i].osd, st[i].role>>].ver : i \in {j \in 1..Len(ps) : st[j].osd # 0 /\ ~st[j].bad}} \ {0}
  IN [pc |-> "read", st |-> st, seen |-> obj, ok |-> Visible,
      err |-> IF Cardinality(vers) > 1 THEN "range"
              ELSE IF \E i \in 1..Len(ps) : st[i].bad THEN "dom"
              ELSE IF \E i \in 1..Len(ps) : st[i].osd = 0 THEN "pipe" ELSE "ok"]

ScrubPick ==
  /\ sc.pc = "list"
  /\ sc' = IF wr.pc # "idle" THEN [sc EXCEPT !.pc = "idle"] ELSE ScrubReads
  /\ UNCHANGED <<setup, disk, obj, odd, wr, rd, fix, content, was, hole, left>>

ScrubFail ==
  /\ sc.pc = "read" /\ sc.err \in {"range", "pipe"}
  /\ sc' = Idle
  /\ UNCHANGED <<setup, disk, obj, odd, wr, rd, fix, content, was, hole, left>>

MutVotes(sts) ==
  LET live == {i \in DOMAIN sts : ~sts[i].bad /\ ~sts[i].gone}
      Kin(i) == {j \in live : i = j \/ SameData(sts[i].rb, sts[j].rb)}
      best == Max({0} \union {Cardinality(Kin(i)) : i \in live})
      lose == {i \in live : i = Min(Kin(i)) /\ Cardinality(Kin(i)) < best}
  IN [bad |-> IF setup.best THEN lose ELSE {}, odd |-> lose # {} /\ ~setup.best]

(* Copies vote.  Of the copies that lose only the first one of every kind  *)
(* is marked.                                                              *)
Votes(sts) ==
  LET live == {i \in DOMAIN sts : ~sts[i].bad /\ ~sts[i].gone}
      Kin(i) == {j \in live : i = j \/ SameData(sts[i].rb, sts[j].rb)}
      heads == {i \in live : i = Min(Kin(i))}
      best == IF heads = {} THEN 0 ELSE Max({Cardinality(Kin(i)) : i \in heads})
      lose == {i \in heads : Cardinality(Kin(i)) < best}
      tie == Cardinality({i \in heads : Cardinality(Kin(i)) = best}) > 1
  IN IF best = Cardinality(live) THEN [bad |-> {}, odd |-> FALSE]
     ELSE [bad |-> IF setup.best THEN lose ELSE {}, odd |-> tie \/ ~setup.best]

(* What scrub thinks of the chunks: bad ones, missing ones (stripes whose  *)
(* missing flag is set) and whether it cannot tell.                        *)
Verdict(sts) ==
  LET good == ec_find_good(sts, K, N, setup.best)
      off == {i \in DOMAIN sts : ~sts[i].gone /\ i \notin good}
      read == {i \in DOMAIN sts : sts[i].bad}
  IN IF Rep THEN [bad |-> read \union Votes(sts).bad, missing |-> {}, odd |-> Votes(sts).odd]
     ELSE IF good = {} THEN [bad |-> read, missing |-> {}, odd |-> TRUE]
     ELSE [bad |-> read \union off, missing |-> off, odd |-> FALSE]

(* scrub_check_results: the places of the object after the scrub.  The     *)
(* missing flag is looked up by role though stripes are not in that order: *)
(* past them, beyond is what the code finds.                               *)
Scrubbed(set, sts, v, beyond) ==
  LET At(p) == {i \in DOMAIN sts : sts[i].osd = p.osd /\ sts[i].role = p.role}
      Lacks(p) == IF p.role \in DOMAIN sts THEN p.role \in v.missing ELSE beyond
      Now(p) == IF At(p) = {} THEN p
                ELSE [p EXCEPT !.bad = (Flags(@, Min(At(p)) \in v.bad, TRUE, Lacks(p)) \ {"inconsistent"})
                                       \union (IF v.odd THEN {"inconsistent"} ELSE {})]
  IN {Now(p) : p \in {q \in set : \A i \in At(q) : ~sts[i].gone}}

(* A chunk that scrub found bad loses its mark. *)
Unmarked(set, sts, v) ==
  \E i \in v.bad, p \in set : p.osd = sts[i].osd /\ p.role = sts[i].role /\ "corrupted" \notin p.bad

ScrubEnd ==
  /\ sc.pc = "read" /\ sc.err \in {"ok", "dom"}
  /\ \E v \in {Verdict(sc.st)}, beyond \in BOOLEAN :
       \E new \in {Scrubbed(PlacesOf(obj), sc.st, v, beyond)} :
         /\ IF \A i \in DOMAIN sc.st : sc.st[i].gone
            THEN obj' = (IF obj = sc.seen THEN Nothing ELSE obj) /\ UNCHANGED odd
            ELSE IF v.odd \/ v.bad # {} \/ \E i \in DOMAIN sc.st : sc.st[i].gone THEN Mark(sc.seen, new)
            ELSE UNCHANGED <<obj, odd>>
         /\ hole' = hole \union (IF Unmarked(new, sc.st, v) THEN {"unmarked"} ELSE {})
                         \union (IF \E i \in DOMAIN sc.st : sc.st[i].osd = 0 THEN {"vacant"} ELSE {})
  /\ sc' = Idle
  /\ UNCHANGED <<setup, disk, wr, rd, fix, content, was, left>>
-----------------------------------------------------------------------------
(* vitastor-cli describe and fix: the administrator names an OSD whose     *)
(* chunk is known to be bad, and does not write meanwhile.                 *)

(* OSD_OP_DESCRIBE: the places of the object in all lists. *)
Described == (IF odd = Nothing THEN {} ELSE odd.set) \union (IF obj = Nothing THEN {} ELSE obj.set)

Fix ==
  /\ left.fix > 0 /\ fix.pc = "idle" /\ sc.pc = "idle"
  /\ \E l \in was :
       /\ fix' = [pc |-> "remove", todo |-> {<<p.osd, p.role>> :
                                            p \in {q \in Described : "inconsistent" \in q.bad /\ q.osd = l[1]}}]
       /\ fix'.todo # {}
  /\ left' = [left EXCEPT !.fix = @ - 1]
  /\ UNCHANGED <<setup, disk, obj, odd, wr, rd, sc, content, was, hole>>

FixRemove(l) ==
  /\ fix.pc = "remove" /\ l \in fix.todo /\ wr.pc = "idle"
  /\ disk' = [disk EXCEPT ![l] = Absent]
  /\ fix' = [fix EXCEPT !.todo = @ \ {l}]
  /\ UNCHANGED <<setup, obj, odd, wr, rd, sc, content, was, hole, left>>

FixScrub ==
  /\ fix.pc = "remove" /\ fix.todo = {}
  /\ sc.pc = "idle" /\ wr.pc = "idle"
  /\ sc' = ScrubReads
  /\ fix' = Idle
  /\ UNCHANGED <<setup, disk, obj, odd, wr, rd, content, was, hole, left>>
-----------------------------------------------------------------------------
(* A unit of a chunk goes bad on the disk. *)
Rot ==
  /\ left.rot > 0
  /\ \E l \in setup.rots, u \in setup.units :
       /\ disk[l].ver # 0 /\ disk[l].data[u] # Junk /\ u \notin disk[l].rotten
       /\ disk' = [disk EXCEPT ![l].data[u] = XorTable[<<@, 5>>], ![l].rotten = @ \union {u}]
       /\ was' = was \union {l}
  /\ left' = [left EXCEPT !.rot = @ - 1]
  /\ UNCHANGED <<setup, obj, odd, wr, rd, sc, fix, content, hole>>

First == [d \in 1..2 |-> [data |-> [u \in Units |-> <<<<1, 0, 3>>, <<4, 5, 0>>>>[d][u + 1]], bmp |-> <<5, 3>>[d]]]

(* The chunk of a role of an object with this content. *)
ChunkOf(c, role) ==
  [data |-> [u \in Units |-> Encode([d \in Data |-> c[d].data[u]], K, role)],
   bmp |-> Encode([d \in Data |-> c[d].bmp], K, role)]

Init ==
  /\ setup \in Setups
  /\ content = [d \in Data |-> First[d]]
  /\ disk = [l \in setup.places \union Targets |->
               IF l \in setup.places THEN ChunkOf(content, l[2]) @@ [ver |-> 1, rotten |-> {}] ELSE Absent]
  /\ obj = LET set == {Place(l[2], l[1]) : l \in setup.places}
               few == Cardinality(IF Rep THEN setup.places ELSE {l[2] : l \in setup.places}) < pg_cursize
           IN IF few THEN [set |-> set, kind |-> "degraded"]
              ELSE IF setup.places \ Targets # {} THEN [set |-> set, kind |-> "misplaced"]
              ELSE Nothing
  /\ odd = Nothing /\ wr = Idle /\ rd = Idle /\ sc = Idle /\ fix = Idle
  /\ was = {} /\ hole = {}
  /\ left = setup.left

WriteSteps == \/ WriteRetry \/ WriteSend \/ WriteCommit \/ WriteEnd \/ DeleteEnd
              \/ \E l \in Locs : WriteLand(l) \/ DeleteLand(l)
ReadSteps == ReadRetry \/ ReadEnd
ScrubSteps == ScrubList \/ ScrubPick \/ ScrubFail \/ ScrubEnd
FixSteps == FixScrub \/ \E l \in Locs : FixRemove(l)

Next == \/ Recover \/ WriteSteps \/ ReadSteps \/ ScrubSteps \/ FixSteps
        \/ Write \/ Delete \/ Read \/ Fix \/ Rot

Spec == Init /\ [][Next]_vars
-----------------------------------------------------------------------------
(* Properties.  Behaviours are followed up to the first defect that leaves *)
(* wrong chunks or wrong lists behind: a write that was retried with old   *)
(* flags, a deleted object that is marked, an object state that was        *)
(* exchanged under an operation.                                           *)

Alive == hole \subseteq {"bitmap", "unmarked", "vacant"}

Has(l, c) == /\ \A u \in Units \ disk[l].rotten : disk[l].data[u] = ChunkOf(c, l[2]).data[u]
             /\ "bitmap" \in hole \/ disk[l].bmp = ChunkOf(c, l[2]).bmp

Believed == {<<p.osd, p.role>> : p \in {q \in PlacesOf(obj) : q.osd # 0 /\ Good(q)}}

(* Whatever is written, recovered, moved or deleted, and wherever the      *)
(* chunks were: a chunk that the primary would read has the data and the   *)
(* bitmap that its role has in the acknowledged content, or in that of the *)
(* write in flight, except for units whose checksum tells that they have   *)
(* rotted.  An object that is in no list has no chunks elsewhere.          *)
ChunksRight ==
  Alive =>
    /\ setup.csum => \A l \in Believed : \E c \in Visible : Has(l, c)
    /\ (obj = Nothing /\ wr.pc = "idle") => \A l \in Locs \ Targets : disk[l].ver = 0

(* A read returns the content of some moment since its last attempt began, *)
(* decoded if it has to be, and never a rotten unit that has a checksum;   *)
(* it fails only when fewer than K chunks of the object are sound.         *)
(* Excepted is a read that is repeated when a chunk which it decodes from  *)
(* turns out to be corrupted as well: the flags of the first attempt stay  *)
(* and a buffer that nobody filled is decoded (Stale); and one that a      *)
(* delete overtakes (Torn).  A read repeated after its first error is      *)
(* checked.                                                                *)
ReadsRight ==
  (Alive /\ rd.pc = "done" /\ ~rd.mixed) =>
    /\ rd.out = "eio" => rd.few
    /\ (rd.out = "ok" /\ (setup.csum \/ was = {})) =>
         \E c \in rd.ok : \A d \in Data :
           /\ \A u \in Between(rd.st[d].qs, rd.st[d].qe) : rd.st[d].rb[u] = c[d].data[u]
           /\ rd.st[d].qe = 0 \/ "bitmap" \in hole \/ rd.st[d].bmp = c[d].bmp

(* Only chunks that have rotted are marked corrupted, and an object is     *)
(* called inconsistent only when more chunks have rotted than the code can *)
(* point at, or when scrub took a vacant position of a degraded PG for a   *)
(* chunk of zeros.                                                         *)
ScrubJust ==
  Alive =>
  /\ \A p \in PlacesOf(obj) : (p.osd # 0 /\ "corrupted" \in p.bad) => <<p.osd, p.role>> \in was
  /\ odd # Nothing => "vacant" \in hole \/ Cardinality(was) > (IF N = K + 1 THEN 0 ELSE 1)

(* A scrub that ends without complaint about an object that is in no list. *)
Passed ==
  /\ sc.pc = "read" /\ sc.err \in {"ok", "dom"} /\ sc'.pc = "idle"
  /\ Alive' /\ \A i \in DOMAIN sc.st : sc.st[i].osd # 0
  /\ setup.csum \/ (Cardinality(was) <= 1 /\ "unmarked" \notin hole)
  /\ sc.seen = Nothing /\ obj = Nothing /\ obj' = Nothing /\ odd = Nothing /\ odd' = Nothing

(* The chunks of an object that passes a scrub had the right content when  *)
(* they were read.  Not so where a position of the PG is vacant, nor,      *)
(* without checksums, after a second scrub has taken the mark off a rotten *)
(* chunk, which recovery then copies.                                      *)
ScrubFinds ==
  [][Passed => \E c \in sc.ok : \A i \in DOMAIN sc.st :
                 SameData(sc.st[i].rb, ChunkOf(c, sc.st[i].role).data)]_vars

(* Scrub blames only what is rotten, and passes no object with a rotten    *)
(* chunk (scrub_check_results of osd_scrub.cpp), with the exceptions of    *)
(* ScrubJust and ScrubFinds.                                               *)
ScrubExact == []ScrubJust /\ ScrubFinds
=============================================================================
