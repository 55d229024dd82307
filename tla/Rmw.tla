-------------------------------- MODULE Rmw --------------------------------
(***************************************************************************)
(* Read-modify-write of the chunks of one object (osd_rmw.cpp): which      *)
(* ranges of which chunks a primary OSD reads for a request, what it       *)
(* decodes and encodes from them, and how scrub finds the chunks that      *)
(* agree.  The operators change a tuple of stripes, one for every role.    *)
(*                                                                         *)
(* Roles 1 .. k are data chunks and the others are parity chunks.  A chunk *)
(* has Size units with a value of GF(8) each.  Its bitmap is one value     *)
(* with a bit for every unit, and parity is computed for bitmaps too.  The *)
(* position of a buffer in memory is left out: a buffer is a function of   *)
(* units, and a unit that nobody filled is Junk.                           *)
(***************************************************************************)
EXTENDS Integers, Sequences, FiniteSets, FiniteSetsExt, SequencesExt, TLC

CONSTANT Size    \* units in a chunk: a bitmap of GF(8) has room for three

ASSUME SizeAssumption == Size \in 1..3

Units == 0..(Size - 1)
BitmapOnly == Size + 1       \* UINT32_MAX: the bitmap is needed, the data are not
Junk == 8
Between(a, b) == {u \in Units : a <= u /\ u < b}
-----------------------------------------------------------------------------
(* The code (external: jerasure and ISA-L).  The first parity row is all   *)
(* ones, so XOR k+1 is the same code with one parity chunk.                *)

Bit(b, i) == (b \div 2^i) % 2
XorTable == [p \in (0..7) \X (0..7) |->
              FoldSet(LAMBDA i, s : s + 2^i * ((Bit(p[1], i) + Bit(p[2], i)) % 2), 0, 0..2)]
Powers == <<1, 2, 4, 3, 6, 7, 5>>
Logs == <<0, 1, 3, 2, 6, 4, 5>>
Times(a, b) == IF a = 0 \/ b = 0 THEN 0 ELSE Powers[((Logs[a] + Logs[b]) % 7) + 1]

Code(v, k, role) ==
  IF role <= k THEN v[role]
  ELSE FoldSet(LAMBDA d, s : XorTable[<<s, Times(Powers[(((role - k - 1) * (d - 1)) % 7) + 1], v[d])>>],
               0, 1..k)

(* The two data values behind the values of two roles, for every choice of *)
(* them: a constant, so TLC computes it once.                              *)
Solved == [s \in kSubset(2, 1..4) |->
            [w \in [s -> 0..7] |->
              CHOOSE v \in [1..2 -> 0..7] : \A r \in s : Code(v, 2, r) = w[r]]]

Encode(v, k, role) == IF \E d \in 1..k : v[d] = Junk THEN Junk ELSE Code(v, k, role)

Decode(w, k, role) ==
  IF Cardinality(DOMAIN w) < k \/ \E r \in DOMAIN w : w[r] = Junk THEN Junk
  ELSE Code(Solved[DOMAIN w][w], k, role)

bitmap_set(b, S) == IF b = Junk THEN Junk
                    ELSE FoldSet(LAMBDA u, s : IF Bit(s, u) = 1 THEN s ELSE s + 2^u, b, S)
-----------------------------------------------------------------------------
(* osd_rmw_stripe_t: the requested, read and written ranges, the buffers,  *)
(* the OSD of the last read and what came of it.                           *)

NoBuf == [u \in Units |-> Junk]
NewStripe == [qs |-> 0, qe |-> 0, rs |-> 0, re |-> 0, ws |-> 0, we |-> 0, rb |-> NoBuf, wb |-> NoBuf,
              bmp |-> 0, osd |-> 0, missing |-> FALSE, bad |-> FALSE, gone |-> FALSE]

Low(a, b) == IF a < b THEN a ELSE b
High(a, b) == IF a > b THEN a ELSE b

(* The buffer b with the units of [s, e) taken from c. *)
Over(b, s, e, c) == [u \in Units |-> IF s <= u /\ u < e THEN c[u] ELSE b[u]]

MutWidened(s, e, st) == IF st.re = 0 THEN [st EXCEPT !.rs = s, !.re = e] ELSE st

Widened(s, e, st) == IF st.re = 0 THEN [st EXCEPT !.rs = s, !.re = e]
                     ELSE [st EXCEPT !.rs = Low(st.rs, s), !.re = High(st.re, e)]

extend_read(s, e, st) ==
  CASE e = BitmapOnly -> IF st.re = 0 THEN [st EXCEPT !.rs = 0, !.re = BitmapOnly] ELSE st
    [] e # BitmapOnly /\ st.re = BitmapOnly ->
         IF e > 0 THEN [st EXCEPT !.rs = s, !.re = e] ELSE st
    [] OTHER -> Widened(s, e, st)

(* The part of [s, e) that the request does not overwrite. *)
cover_read(s, e, st) ==
  CASE s >= st.qs /\ e <= st.qe -> st
    [] s < st.qs /\ e >= st.qs /\ e <= st.qe -> Widened(s, st.qs, st)
    [] s >= st.qs /\ s <= st.qe /\ e > st.qe -> Widened(st.qe, e, st)
    [] OTHER -> Widened(s, e, st)

(* The request [off, off + len) of the object, cut into the ranges of its  *)
(* data chunks.                                                            *)
split_stripes(k, n, off, len) ==
  [r \in 1..n |->
    LET from == (r - 1) * Size
        hit  == r <= k /\ len > 0 /\ off < from + Size /\ off + len > from
    IN IF hit THEN [NewStripe EXCEPT !.qs = High(0, off - from), !.qe = Low(Size, off + len - from)]
       ELSE NewStripe]

FirstRoles(S, k) == {r \in S : Cardinality({q \in S : q < r}) < k}

(* Extends the reads of the first k roles of the set by [s, e). *)
ReadToo(sts, set, k, s, e) ==
  [r \in DOMAIN sts |->
    IF r \in FirstRoles({q \in DOMAIN sts : set[q] # 0}, k) THEN extend_read(s, e, sts[r]) ELSE sts[r]]

Enough(set, k) == Cardinality({r \in DOMAIN set : set[r] # 0}) >= k

(* <<>> when fewer than k chunks are left of something that is needed. *)
extend_missing_stripes(sts, set, k) ==
  LET lost == {r \in 1..k : sts[r].re # 0 /\ set[r] = 0}
      mark == [r \in DOMAIN sts |-> [sts[r] EXCEPT !.missing = @ \/ r \in lost]]
  IN IF lost # {} /\ ~Enough(set, k) THEN <<>>
     ELSE FoldSet(LAMBDA r, s : ReadToo(s, set, k, sts[r].rs, sts[r].re), mark, lost)

(* Where a chunk is decoded from: the first k others that were read.  XOR  *)
(* takes all the others, read or not.                                      *)
Sources(sts, k, xor, r) ==
  FirstRoles({q \in DOMAIN sts \ {r} : xor \/ (sts[q].re # 0 /\ ~sts[q].missing)}, k)

(* Missing data chunks are decoded; XOR can decode parity as well. *)
reconstruct_stripes(sts, k, xor) ==
  LET Part(st) == IF st.re = BitmapOnly THEN {} ELSE Between(st.rs, st.re)
      From(r) == Sources(sts, k, xor, r)
  IN [r \in DOMAIN sts |->
       IF sts[r].re = 0 \/ ~sts[r].missing \/ (~xor /\ r > k) THEN sts[r]
       ELSE [sts[r] EXCEPT
              !.rb = [u \in Units |-> IF u \in Part(sts[r])
                                      THEN Decode([q \in From(r) |-> sts[q].rb[u]], k, r) ELSE Junk],
              !.bmp = Decode([q \in From(r) |-> sts[q].bmp], k, r)]]
-----------------------------------------------------------------------------
(* Writes.  rset says where the chunks are, wset where they are to be, and *)
(* same that these are one vector: the object is clean.                    *)

Whole(st) == st.qs = 0 /\ st.qe = Size
MovedTo(rset, wset, r) == wset[r] # 0 /\ wset[r] # rset[r]
ParityTo(wset, k) == {r \in DOMAIN wset : r > k /\ wset[r] # 0}

(* The range of parity that changes: all of it when parity moves. *)
ParityRange(sts, rset, wset, k) ==
  LET asked == {r \in 1..k : sts[r].qe # 0} IN
  IF \E r \in ParityTo(wset, k) : MovedTo(rset, wset, r) THEN [s |-> 0, e |-> Size]
  ELSE IF asked = {} THEN [s |-> 0, e |-> 0]
  ELSE [s |-> Min({sts[r].qs : r \in asked}), e |-> Max({sts[r].qe : r \in asked})]

(* <<>>: a partial overwrite of an incomplete object is refused. *)
calc_rmw(sts, rset, wset, same, k, cursize) ==
  LET n == Len(wset)
      pr == ParityRange(sts, rset, wset, k)
      Plan(r) ==
        IF r > k
        THEN IF wset[r] # 0 THEN [sts[r] EXCEPT !.ws = pr.s, !.we = pr.e] ELSE sts[r]
        ELSE LET a == IF sts[r].qe # 0 THEN [sts[r] EXCEPT !.ws = sts[r].qs, !.we = sts[r].qe] ELSE sts[r]
                 b == IF ParityTo(wset, k) = {} THEN a ELSE cover_read(pr.s, pr.e, a)
                 c == IF ParityTo(wset, k) # {} /\ b.re = 0 /\ ~Whole(b)
                      THEN [b EXCEPT !.re = BitmapOnly] ELSE b
             IN IF ~same /\ MovedTo(rset, wset, r) /\ ~Whole(c)
                THEN [c EXCEPT !.rs = 0, !.re = Size] ELSE c
      plan == [r \in 1..n |-> Plan(r)]
      have == Cardinality({r \in 1..n : rset[r] # 0})
      lost == IF (IF same THEN cursize ELSE have) < n THEN {r \in 1..n : rset[r] = 0} ELSE {}
      need == {r \in lost : plan[r].re # 0}
      mark == [r \in 1..n |-> [plan[r] EXCEPT !.missing = @ \/ r \in lost]]
  IN IF need # {} /\ have < k THEN <<>>
     ELSE FoldSet(LAMBDA r, s : ReadToo(s, rset, k, plan[r].rs, plan[r].re), mark, need)

(* New data over old data in [s, e), put together piece after piece. *)
Slice(b, s, e) == [i \in 1..(e - s) |-> b[s + i - 1]]
get_old_new_buffers(st, s, e) ==
  LET new == st.we > s /\ st.ws < e
      old == st.re > s /\ st.rs < e
      ns == High(st.ws, s)   ne == Low(st.we, e)
      os == High(st.rs, s)   oe == Low(st.re, e)
      after == High(os, ne)
  IN CASE new /\ (~old \/ ns <= os) ->
            Slice(st.wb, ns, ne) \o (IF old /\ oe > after THEN Slice(st.rb, after, oe) ELSE <<>>)
       [] new /\ old /\ ns > os ->
            Slice(st.rb, os, ns) \o Slice(st.wb, ns, ne) \o (IF oe > ne THEN Slice(st.rb, ne, oe) ELSE <<>>)
       [] ~new /\ old -> Slice(st.rb, os, oe)
       [] OTHER -> <<>>

MutCopyMod(sts, rset, wset, same, k) ==
  [r \in DOMAIN sts |->
    IF r > k THEN sts[r] ELSE [sts[r] EXCEPT !.bmp = bitmap_set(@, Between(sts[r].qs, sts[r].qe))]]

(* A chunk that moves is written whole: its request over what was read. *)
copy_mod(sts, rset, wset, same, k) ==
  [r \in DOMAIN sts |->
    IF r > k THEN sts[r]
    ELSE LET b == [sts[r] EXCEPT !.bmp = bitmap_set(@, Between(sts[r].qs, sts[r].qe))]
         IN IF ~same /\ MovedTo(rset, wset, r) /\ ~Whole(b)
            THEN [b EXCEPT !.wb = Over(b.rb, b.qs, b.qe, b.wb), !.ws = 0, !.we = Size]
            ELSE b]

(* Parity is encoded only when a part of it changes: a write of nothing    *)
(* that moves no parity leaves the bitmaps of parity as they were read, or *)
(* empty.                                                                  *)
calc_rmw_parity(sts, rset, wset, same, k, xor) ==
  LET pr == ParityRange(sts, rset, wset, k)
      a == copy_mod(reconstruct_stripes(sts, k, xor), rset, wset, same, k)
      src == [d \in 1..k |-> get_old_new_buffers(a[d], pr.s, pr.e)]
      At(d, u) == IF u - pr.s + 1 <= Len(src[d]) THEN src[d][u - pr.s + 1] ELSE Junk
  IN [r \in DOMAIN a |->
       IF r \notin ParityTo(wset, k) \/ pr.e = 0 THEN a[r]
       ELSE [a[r] EXCEPT
              !.wb = [u \in Units |-> IF u \in Between(pr.s, pr.e)
                                      THEN Encode([d \in 1..k |-> At(d, u)], k, r) ELSE Junk],
              !.bmp = Encode([d \in 1..k |-> a[d].bmp], k, r)]]
-----------------------------------------------------------------------------
(* Scrub: the chunks that agree with each other.  sts is a tuple of read   *)
(* chunks, with the role of each; no role is there twice.                  *)

SameData(b, c) == \A u \in Units : b[u] = c[u] /\ b[u] # Junk

ec_check_combination(sts, live, subset, k) ==
  LET Right(i) == [u \in Units |-> Decode([r \in {sts[j].role : j \in subset} |->
                     sts[CHOOSE j \in subset : sts[j].role = r].rb[u]], k, sts[i].role)]
      good == {i \in live : i \in subset \/ SameData(Right(i), sts[i].rb)}
  IN IF good = subset THEN {} ELSE good

PairsInOrder(S) ==
  SetToSortSeq(kSubset(2, S), LAMBDA a, b : Min(a) < Min(b) \/ (Min(a) = Min(b) /\ Max(a) < Max(b)))

ec_find_good(sts, k, n, find_best) ==
  LET live == {i \in DOMAIN sts : ~sts[i].bad /\ ~sts[i].gone}
      Step(acc, subset) ==
        LET valid == ec_check_combination(sts, live, subset, k) IN
        CASE acc.stop \/ valid = {} -> acc
          [] ~acc.stop /\ valid # {} /\ Cardinality(acc.found) >= Cardinality(valid) /\ acc.found # valid ->
               [found |-> {}, stop |-> TRUE]
          [] OTHER -> IF acc.found = {} /\ (find_best \/ Cardinality(valid) >= n)
                      THEN [acc EXCEPT !.found = valid] ELSE acc
  IN IF Cardinality(live) <= k THEN {i \in DOMAIN sts : ~sts[i].bad}
     ELSE FoldLeft(Step, [found |-> {}, stop |-> FALSE], PairsInOrder(live)).found
=============================================================================
