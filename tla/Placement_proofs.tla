-------------------------- MODULE Placement_proofs --------------------------
(***************************************************************************)
(* No PG has two primaries with its key, and PGs of different numbers of   *)
(* PGs are never served together, for every number of OSDs, PGs and        *)
(* monitors and every setup; loose PGs are exempt.                         *)
(***************************************************************************)
EXTENDS Placement, TLAPS

(* The shape of the records that the actions update. *)
IsPG(p) ==
  DOMAIN p = {"st", "set", "hist", "peers", "cur", "seen", "epoch", "reported",
              "changed", "asked", "clean"}

IsOSD(s) ==
  /\ DOMAIN s = {"st", "pgs", "dirty", "rep", "applied", "count", "lease"}
  /\ s.pgs = [pg \in PGs |-> s.pgs[pg]]
  /\ \A pg \in PGs : IsPG(s.pgs[pg])

Shape ==
  /\ osd = [o \in OSDs |-> osd[o]]
  /\ \A o \in OSDs : IsOSD(osd[o])
  /\ lock = [pg \in PGs |-> lock[pg]]

(* An OSD with a live PG has the state key of the PG, and no transaction   *)
(* that gives the key away is in flight.                                   *)
Held(o, pg) ==
  osd[o].pgs[pg].st \in Live /\ <<o, pg>> \notin loose =>
    /\ lock[pg] = o
    /\ \A r \in osd[o].rep : r.pg = pg => r.st # "offline"

(* The inductive invariant. *)
KeysHeld == Shape /\ \A o \in OSDs, pg \in PGs : Held(o, pg)

(* A new transaction tells of the PGs as they are. *)
RepFits(s, t) ==
  t.rep = s.rep \/ \A r \in t.rep : r.pg \in PGs => r.st = t.pgs[r.pg].st

(* An OSD takes a PG only if its copy k says that the key is its own. *)
Takes(o, s, t, k) ==
  \A pg \in PGs : t.pgs[pg].st \in Live => s.pgs[pg].st \in Live \/ k.lock[pg] = o

-----------------------------------------------------------------------------
(* What the operators on OSDs return                                        *)

LEMMA NoPGShape == IsPG(NoPG) /\ NoPG.st = "none"
BY DEF IsPG, NoPG

LEMMA NoOSDShape == IsOSD(NoOSD) /\ NoOSD.rep = {} /\ \A pg \in PGs : NoOSD.pgs[pg] = NoPG
BY NoPGShape DEF IsOSD, NoOSD

(* report_pg_states changes no state of a PG. *)
LEMMA ReportShape ==
  ASSUME NEW o, NEW s, NEW k, IsOSD(s)
  PROVE  /\ IsOSD(report_pg_states(o, s, k))
         /\ \A pg \in PGs : report_pg_states(o, s, k).pgs[pg].st = s.pgs[pg].st
         /\ RepFits(s, report_pg_states(o, s, k))
<1> DEFINE pgs == {pg \in s.dirty : s.pgs[pg].st # "none"}
           new == [pg \in PGs |-> IF pg \in pgs /\ s.pgs[pg].st # "offline"
                                  THEN [s.pgs[pg] EXCEPT !.changed = FALSE] ELSE s.pgs[pg]]
           rep == {ReportOf(o, s.pgs[pg], pg, k) : pg \in pgs}
           t == [s EXCEPT !.rep = rep, !.dirty = {}, !.pgs = new]
<1>1. CASE s.rep # {} \/ pgs = {}
  BY <1>1 DEF report_pg_states, RepFits
<1>2. CASE ~(s.rep # {} \/ pgs = {})
  <2>1. report_pg_states(o, s, k) = t
    BY <1>2 DEF report_pg_states
  <2>2. \A pg \in PGs : IsPG(new[pg]) /\ new[pg].st = s.pgs[pg].st
    BY DEF IsOSD, IsPG
  <2>3. /\ DOMAIN t = {"st", "pgs", "dirty", "rep", "applied", "count", "lease"}
        /\ t.pgs = new /\ t.rep = rep
    <3> HIDE DEF new, rep
    <3> QED BY DEF IsOSD
  <2>4. \A r \in rep : r.st = s.pgs[r.pg].st
    BY DEF ReportOf
  <2> HIDE DEF t, new, rep
  <2>5. new = [pg \in PGs |-> new[pg]]
    BY DEF new
  <2> QED BY <2>1, <2>2, <2>3, <2>4, <2>5 DEF IsOSD, RepFits
<1> QED BY <1>1, <1>2

LEMMA AppliedShape ==
  ASSUME NEW o, NEW s, NEW k, NEW pg \in PGs, NEW busy, IsOSD(s)
  PROVE  /\ IsPG(Applied(o, s, k, pg, busy))
         /\ Applied(o, s, k, pg, busy).st \in Live => s.pgs[pg].st \in Live \/ k.lock[pg] = o
<1> DEFINE p == s.pgs[pg]
<1>1. /\ IsPG(Started(o, k, pg))
      /\ Started(o, k, pg).st \in Live => k.lock[pg] = o
  BY NoPGShape DEF Started, IsPG, Live
<1>2. /\ IsPG(p) /\ IsPG(Stopped(p, busy))
      /\ Stopped(p, busy).st \in Live => p.st \in Live
  BY DEF IsOSD, IsPG, Stopped, Live
<1>3. Applied(o, s, k, pg, busy) \in {Started(o, k, pg), Stopped(p, busy), p}
  BY Zenon DEF Applied
<1> HIDE DEF p
<1>4. CASE Applied(o, s, k, pg, busy) = Started(o, k, pg)
  BY <1>1, <1>4
<1>5. CASE Applied(o, s, k, pg, busy) = Stopped(p, busy)
  BY <1>2, <1>5 DEF p
<1>6. CASE Applied(o, s, k, pg, busy) = p
  BY <1>2, <1>6 DEF p
<1> QED BY <1>3, <1>4, <1>5, <1>6

LEMMA ApplyShape ==
  ASSUME NEW o, NEW s, NEW k, NEW busy, IsOSD(s)
  PROVE  /\ IsOSD(apply_pg_config(o, s, k, busy))
         /\ Takes(o, s, apply_pg_config(o, s, k, busy), k)
<1> DEFINE new == [pg \in PGs |-> Applied(o, s, k, pg, busy)]
           changed == {pg \in PGs : new[pg] # s.pgs[pg]}
           atonce == {pg \in changed : new[pg].st # "starting"}
           first == IF atonce = {} THEN PGs ELSE 1..Least(atonce)
           app == \A pg \in PGs : Take(o, k, pg) =>
                        /\ new[pg].st \in {"active", "peering"}
                        /\ s.pgs[pg].st \in {"active", "peering"} => SameConfig(s.pgs[pg], k, pg)
           pgs1 == [pg \in PGs |-> IF pg \in first THEN new[pg] ELSE s.pgs[pg]]
           s1 == [s EXCEPT !.pgs = pgs1, !.dirty = @ \union (changed \intersect first)]
           t == report_pg_states(o, s1, k)
           pgs2 == [pg \in PGs |-> IF pg \in first THEN t.pgs[pg] ELSE Applied(o, t, k, pg, busy)]
           u == [t EXCEPT !.pgs = pgs2, !.dirty = @ \union (changed \ first), !.applied = app]
<1>1. apply_pg_config(o, s, k, busy) = u
  BY DEF apply_pg_config
<1>2. \A pg \in PGs : /\ IsPG(new[pg])
                      /\ new[pg].st \in Live => s.pgs[pg].st \in Live \/ k.lock[pg] = o
  BY AppliedShape
<1> HIDE DEF new
<1>3. /\ pgs1 = [pg \in PGs |-> pgs1[pg]]
      /\ \A pg \in PGs : /\ IsPG(pgs1[pg])
                         /\ pgs1[pg].st \in Live => s.pgs[pg].st \in Live \/ k.lock[pg] = o
  BY <1>2 DEF IsOSD
<1> HIDE DEF pgs1, changed, first, app
<1>4. DOMAIN s1 = {"st", "pgs", "dirty", "rep", "applied", "count", "lease"} /\ s1.pgs = pgs1
  BY DEF IsOSD
<1> HIDE DEF s1
<1>5. IsOSD(s1)
  BY <1>3, <1>4 DEF IsOSD
<1>6. IsOSD(t) /\ \A pg \in PGs : t.pgs[pg].st = pgs1[pg].st
  BY <1>4, <1>5, ReportShape
<1> HIDE DEF t
<1>7. \A pg \in PGs : /\ IsPG(t.pgs[pg]) /\ IsPG(Applied(o, t, k, pg, busy))
                      /\ Applied(o, t, k, pg, busy).st \in Live => t.pgs[pg].st \in Live \/ k.lock[pg] = o
  BY <1>6, AppliedShape DEF IsOSD
<1>8. /\ pgs2 = [pg \in PGs |-> pgs2[pg]]
      /\ \A pg \in PGs : /\ IsPG(pgs2[pg])
                         /\ pgs2[pg].st \in Live => s.pgs[pg].st \in Live \/ k.lock[pg] = o
  BY <1>3, <1>6, <1>7
<1> HIDE DEF pgs2
<1>9. DOMAIN u = {"st", "pgs", "dirty", "rep", "applied", "count", "lease"} /\ u.pgs = pgs2
  BY <1>6 DEF IsOSD
<1> HIDE DEF u
<1> QED BY <1>1, <1>8, <1>9 DEF IsOSD, Takes

-----------------------------------------------------------------------------
(* An OSD goes on as t while nobody changes a state key. *)
LEMMA GoesHeld ==
  ASSUME KeysHeld, NEW o \in OSDs, NEW t, IsOSD(t), NEW k, Takes(o, osd[o], t, k), Goes(o, t, k),
         UNCHANGED lock
  PROVE  KeysHeld'
<1>1. Shape'
  BY DEF KeysHeld, Shape, Goes
<1>2. \A x \in OSDs : x # o => osd'[x] = osd[x]
  BY DEF KeysHeld, Shape, Goes
<1>3. osd'[o] = t
  BY DEF KeysHeld, Shape, Goes
<1>4. ASSUME NEW x \in OSDs, NEW pg \in PGs, x # o
      PROVE  Held(x, pg)'
  <2>1. <<x, pg>> \notin loose' => <<x, pg>> \notin loose
    BY <1>4 DEF Goes
  <2> QED BY <1>2, <1>4, <2>1 DEF KeysHeld, Held
<1>5. ASSUME NEW pg \in PGs, t.pgs[pg].st \in Live, <<o, pg>> \notin loose'
      PROVE  lock[pg] = o /\ \A r \in t.rep : r.pg = pg => r.st # "offline"
  <2>1. <<o, pg>> \notin LooseNow(o, t, k)
    BY <1>5 DEF Goes
  <2>2. /\ <<o, pg>> \notin loose
        /\ k.lock[pg] = o => lock[pg] = o
        /\ \A r \in t.rep : r.pg = pg => r.st # "offline"
    BY <1>5, <2>1 DEF LooseNow
  <2>3. osd[o].pgs[pg].st \in Live => lock[pg] = o
    BY <2>2 DEF KeysHeld, Held
  <2> QED BY <1>5, <2>2, <2>3 DEF Takes
<1> QED BY <1>1, <1>3, <1>4, <1>5 DEF KeysHeld, Held

LEMMA DiesHeld ==
  ASSUME KeysHeld, NEW o \in OSDs, Dies(o), UNCHANGED lock
  PROVE  KeysHeld'
<1> DEFINE t == [NoOSD EXCEPT !.st = "dead"]
<1>0. IsOSD(t) /\ \A pg \in PGs : t.pgs[pg].st = "none"
  BY NoPGShape, NoOSDShape DEF IsOSD
<1> HIDE DEF t
<1>1. osd' = [osd EXCEPT ![o] = t]
  BY DEF Dies, t
<1>2. Shape'
  BY <1>0, <1>1 DEF KeysHeld, Shape
<1>3. ASSUME NEW x \in OSDs, NEW pg \in PGs
      PROVE  Held(x, pg)'
  <2>1. CASE x = o
    BY <1>0, <1>1, <2>1 DEF KeysHeld, Shape, Held, Live
  <2>2. CASE x # o
    <3>1. <<x, pg>> \notin loose' => <<x, pg>> \notin loose
      BY <2>2 DEF Dies
    <3> QED BY <1>1, <2>2, <3>1 DEF KeysHeld, Shape, Held
  <2> QED BY <2>1, <2>2
<1> QED BY <1>2, <1>3 DEF KeysHeld

(* A transaction of OSD o is committed, and the OSD goes on as t. *)
LEMMA CommittedHeld ==
  ASSUME KeysHeld, NEW o \in OSDs, \A r \in osd[o].rep : MayReport(o, r), Committed(o),
         NEW t, IsOSD(t), osd' = [osd EXCEPT ![o] = t], loose' = loose,
         \A pg \in PGs : t.pgs[pg].st \in Live => t.pgs[pg].st = osd[o].pgs[pg].st,
         \A r \in t.rep : r.pg \in PGs => r.st = t.pgs[r.pg].st
  PROVE  KeysHeld'
<1> DEFINE Of(pg) == CHOOSE r \in osd[o].rep : r.pg = pg
<1>1. \A pg \in PGs : (\E r \in osd[o].rep : r.pg = pg) =>
        Of(pg) \in osd[o].rep /\ Of(pg).pg = pg
  OBVIOUS
<1>2. \A pg \in PGs : lock'[pg] =
        IF \E r \in osd[o].rep : r.pg = pg
        THEN IF Of(pg).st # "offline" THEN o
             ELSE IF Of(pg).lock \in {None, o} THEN None ELSE lock[pg]
        ELSE lock[pg]
  BY DEF Committed
<1> HIDE DEF Of
<1>3. Shape'
  <2>1. lock' = [pg \in PGs |-> lock'[pg]]
    BY DEF Committed
  <2> QED BY <2>1 DEF KeysHeld, Shape
<1>4. ASSUME NEW pg \in PGs
      PROVE  Held(o, pg)'
  <2>1. osd'[o] = t
    BY DEF KeysHeld, Shape
  <2>2. SUFFICES ASSUME t.pgs[pg].st \in Live, <<o, pg>> \notin loose
                 PROVE  lock'[pg] = o /\ \A r \in t.rep : r.pg = pg => r.st # "offline"
    BY <2>1 DEF Held
  <2>3. lock[pg] = o /\ \A r \in osd[o].rep : r.pg = pg => r.st # "offline"
    BY <2>2 DEF KeysHeld, Held
  <2>4. lock'[pg] = o
    BY <1>1, <1>2, <2>3
  <2>5. \A r \in t.rep : r.pg = pg => r.st # "offline"
    BY <2>2 DEF Live
  <2> QED BY <2>4, <2>5
<1>5. ASSUME NEW x \in OSDs, NEW pg \in PGs, x # o
      PROVE  Held(x, pg)'
  <2>1. osd'[x] = osd[x]
    BY <1>5 DEF KeysHeld, Shape
  <2>2. SUFFICES ASSUME lock[pg] = x
                 PROVE  lock'[pg] = x
    BY <2>1 DEF Held, KeysHeld
  <2>3. x # None
    BY OSDsAssumption DEF None
  <2>4. CASE \E r \in osd[o].rep : r.pg = pg
    <3>1. Of(pg) \in osd[o].rep /\ Of(pg).pg = pg
      BY <1>1, <2>4
    <3>2. MayReport(o, Of(pg))
      BY <3>1
    <3>3. Of(pg).st = "offline" /\ Of(pg).lock = x
      BY <1>5, <2>2, <2>3, <3>1, <3>2 DEF MayReport
    <3> QED BY <1>2, <1>5, <2>2, <2>3, <2>4, <3>3
  <2>5. CASE ~\E r \in osd[o].rep : r.pg = pg
    BY <1>2, <2>2, <2>5
  <2> QED BY <2>4, <2>5
<1> QED BY <1>3, <1>4, <1>5 DEF KeysHeld

-----------------------------------------------------------------------------
(* The actions                                                              *)

LEMMA FailedShape ==
  ASSUME NEW s, IsOSD(s)
  PROVE  IsOSD(Failed(s)) /\ Failed(s).rep = {} /\ \A pg \in PGs : Failed(s).pgs[pg].st = s.pgs[pg].st
<1> DEFINE new == [pg \in PGs |-> IF \E r \in s.rep : r.pg = pg /\ r.put
                                  THEN [s.pgs[pg] EXCEPT !.changed = TRUE] ELSE s.pgs[pg]]
           dirty == s.dirty \union {r.pg : r \in s.rep}
           t == [s EXCEPT !.rep = {}, !.dirty = dirty, !.pgs = new]
<1>1. Failed(s) = t
  BY DEF Failed
<1>2. \A pg \in PGs : IsPG(new[pg]) /\ new[pg].st = s.pgs[pg].st
  BY DEF IsOSD, IsPG
<1>3. new = [pg \in PGs |-> new[pg]]
  OBVIOUS
<1> HIDE DEF new, dirty
<1>4. DOMAIN t = {"st", "pgs", "dirty", "rep", "applied", "count", "lease"} /\ t.pgs = new /\ t.rep = {}
  BY DEF IsOSD
<1> HIDE DEF t
<1> QED BY <1>1, <1>2, <1>3, <1>4 DEF IsOSD

LEMMA BootHeld ==
  ASSUME KeysHeld, NEW o \in OSDs, Boot(o)
  PROVE  KeysHeld'
<1> DEFINE t == [NoOSD EXCEPT !.st = "loading", !.lease = TRUE]
<1>1. IsOSD(t) /\ \A pg \in PGs : t.pgs[pg].st = "none"
  BY NoOSDShape, NoPGShape DEF IsOSD
<1>2. Goes(o, t, << >>) /\ UNCHANGED lock
  BY DEF Boot
<1> HIDE DEF t
<1>3. Takes(o, osd[o], t, << >>)
  BY <1>1 DEF Takes, Live
<1> QED BY <1>1, <1>2, <1>3, GoesHeld

(* The PGs of s are not more live than the ones of the OSD. *)
Within(s, t) == \A pg \in PGs : t.pgs[pg].st \in Live => s.pgs[pg].st \in Live

LEMMA AppliesHeld ==
  ASSUME KeysHeld, NEW o \in OSDs, NEW s, IsOSD(s), Within(osd[o], s), NEW k, NEW busy,
         Goes(o, apply_pg_config(o, s, k, busy), k), UNCHANGED lock
  PROVE  KeysHeld'
<1>1. PICK t : t = apply_pg_config(o, s, k, busy)
  OBVIOUS
<1>2. IsOSD(t) /\ Takes(o, s, t, k)
  BY <1>1, ApplyShape
<1>3. Takes(o, osd[o], t, k)
  BY <1>2 DEF Takes, Within
<1> QED BY <1>1, <1>2, <1>3, GoesHeld

LEMMA ReportsHeld ==
  ASSUME KeysHeld, NEW o \in OSDs, NEW s, IsOSD(s), Within(osd[o], s), NEW k,
         Goes(o, report_pg_states(o, s, k), k), UNCHANGED lock
  PROVE  KeysHeld'
<1>1. PICK t : t = report_pg_states(o, s, k)
  OBVIOUS
<1>2. IsOSD(t) /\ \A pg \in PGs : t.pgs[pg].st = s.pgs[pg].st
  BY <1>1, ReportShape
<1>3. Takes(o, osd[o], t, k)
  BY <1>2 DEF Takes, Within
<1> QED BY <1>1, <1>2, <1>3, GoesHeld

LEMMA LoadHeld ==
  ASSUME KeysHeld, NEW o \in OSDs, Load(o)
  PROVE  KeysHeld'
<1> DEFINE s == [osd[o] EXCEPT !.st = "run", !.count = Len(db.items)]
<1>1. UNCHANGED lock
  BY DEF Load
<1>2. Goes(o, apply_pg_config(o, s, PgKeys(o), FALSE), PgKeys(o)) \/ Dies(o)
  BY DEF Load
<1>3. IsOSD(s) /\ Within(osd[o], s)
  BY DEF KeysHeld, Shape, IsOSD, Within
<1> HIDE DEF s
<1> QED BY <1>1, <1>2, <1>3, AppliesHeld, DiesHeld

LEMMA HeardShape ==
  ASSUME NEW s, NEW k, NEW n, IsOSD(s)
  PROVE  LET t == [Heard(s, k) EXCEPT !.count = n] IN IsOSD(t) /\ Within(s, t)
<1> DEFINE new == [pg \in PGs |->
                     IF s.pgs[pg].epoch > s.pgs[pg].reported /\ k.hist[pg].epoch >= s.pgs[pg].epoch
                     THEN [s.pgs[pg] EXCEPT !.reported = k.hist[pg].epoch] ELSE s.pgs[pg]]
           h == [s EXCEPT !.pgs = new]
<1>1. Heard(s, k) = h
  BY DEF Heard
<1>2. \A pg \in PGs : IsPG(new[pg]) /\ new[pg].st = s.pgs[pg].st
  BY DEF IsOSD, IsPG
<1>3. new = [pg \in PGs |-> new[pg]]
  OBVIOUS
<1> HIDE DEF new
<1>4. DOMAIN h = {"st", "pgs", "dirty", "rep", "applied", "count", "lease"} /\ h.pgs = new
  BY DEF IsOSD
<1> HIDE DEF h
<1> QED BY <1>1, <1>2, <1>3, <1>4 DEF IsOSD, Within

LEMMA WatchHeld ==
  ASSUME KeysHeld, NEW o \in OSDs, Watch(o)
  PROVE  KeysHeld'
<1>1. PICK k : IF AllowsCount(osd[o], k)
               THEN \E busy \in BOOLEAN :
                      Goes(o, apply_pg_config(o, [Heard(osd[o], k) EXCEPT !.count = k.count], k, busy), k)
               ELSE Dies(o)
  BY DEF Watch
<1>2. UNCHANGED lock
  BY DEF Watch
<1> DEFINE s == [Heard(osd[o], k) EXCEPT !.count = k.count]
<1>3. IsOSD(s) /\ Within(osd[o], s)
  BY HeardShape DEF KeysHeld, Shape
<1>4. (\E busy \in BOOLEAN : Goes(o, apply_pg_config(o, s, k, busy), k)) \/ Dies(o)
  BY <1>1
<1> HIDE DEF s
<1> QED BY <1>2, <1>3, <1>4, AppliesHeld, DiesHeld

(* A change of one PG that is marked dirty. *)
SetPG(s, pg, p, d) == [s EXCEPT !.pgs[pg] = p, !.dirty = d]

LEMMA SetPGShape ==
  ASSUME NEW s, IsOSD(s), NEW pg, NEW p, IsPG(p), p.st \in Live => s.pgs[pg].st \in Live, NEW d
  PROVE  IsOSD(SetPG(s, pg, p, d)) /\ Within(s, SetPG(s, pg, p, d))
<1> DEFINE new == [s.pgs EXCEPT ![pg] = p]
           t == [s EXCEPT !.pgs = new, !.dirty = d]
<1>1. /\ \A x \in PGs : IsPG(new[x]) /\ (new[x].st \in Live => s.pgs[x].st \in Live)
      /\ new = [x \in PGs |-> new[x]]
  BY DEF IsOSD
<1>2. t = SetPG(s, pg, p, d)
  BY DEF SetPG
<1> HIDE DEF new
<1>3. DOMAIN t = {"st", "pgs", "dirty", "rep", "applied", "count", "lease"} /\ t.pgs = new
  BY DEF IsOSD
<1> HIDE DEF t
<1> QED BY <1>1, <1>2, <1>3 DEF IsOSD, Within

LEMMA FinishStopHeld ==
  ASSUME KeysHeld, NEW o \in OSDs, NEW pg \in PGs, FinishStop(o, pg)
  PROVE  KeysHeld'
<1> DEFINE p == [osd[o].pgs[pg] EXCEPT !.st = "offline"]
           s == [osd[o] EXCEPT !.pgs[pg] = p, !.dirty = @ \union {pg}]
<1>1. IsOSD(osd[o]) /\ IsPG(p) /\ p.st \notin Live
  BY DEF KeysHeld, Shape, IsOSD, IsPG, Live
<1>2. s = [osd[o] EXCEPT !.pgs[pg].st = "offline", !.dirty = @ \union {pg}]
  OBVIOUS
<1>3. \/ Goes(o, report_pg_states(o, s, known[o]), known[o])
      \/ Goes(o, apply_pg_config(o, s, known[o], TRUE), known[o])
  BY <1>2 DEF FinishStop
<1>4. UNCHANGED lock
  BY DEF FinishStop
<1> HIDE DEF p
<1>5. IsOSD(s) /\ Within(osd[o], s)
  <2>1. s = SetPG(osd[o], pg, p, osd[o].dirty \union {pg})
    BY DEF SetPG
  <2> HIDE DEF s
  <2> QED BY <1>1, SetPGShape, <2>1
<1> HIDE DEF s
<1> QED BY <1>3, <1>4, <1>5, AppliesHeld, ReportsHeld

LEMMA ReportEndsHeld ==
  ASSUME KeysHeld, NEW o \in OSDs, ReportEnds(o)
  PROVE  KeysHeld'
<1> DEFINE new == [pg \in PGs |-> IF pg \in Reported(o) \ osd[o].dirty /\ osd[o].pgs[pg].st = "offline"
                                  THEN NoPG ELSE osd[o].pgs[pg]]
           s == [osd[o] EXCEPT !.rep = {}, !.pgs = new]
           t == report_pg_states(o, s, known[o])
<1>1. osd' = [osd EXCEPT ![o] = t]
  BY DEF ReportEnds
<1>2. /\ \A pg \in PGs : IsPG(new[pg]) /\ (new[pg] = NoPG \/ new[pg] = osd[o].pgs[pg])
      /\ new = [pg \in PGs |-> new[pg]]
  BY NoPGShape DEF KeysHeld, Shape, IsOSD
<1> HIDE DEF new
<1>3. DOMAIN s = {"st", "pgs", "dirty", "rep", "applied", "count", "lease"} /\ s.pgs = new /\ s.rep = {}
  BY DEF KeysHeld, Shape, IsOSD
<1> HIDE DEF s
<1>4. IsOSD(s)
  BY <1>2, <1>3 DEF IsOSD
<1>5. IsOSD(t) /\ RepFits(s, t) /\ \A pg \in PGs : t.pgs[pg].st = s.pgs[pg].st
  BY <1>4, ReportShape
<1> HIDE DEF t
<1>6. \A pg \in PGs : t.pgs[pg].st \in Live => t.pgs[pg].st = osd[o].pgs[pg].st
  BY <1>2, <1>3, <1>5, NoPGShape DEF Live
<1>7. \A r \in t.rep : r.pg \in PGs => r.st = t.pgs[r.pg].st
  BY <1>3, <1>5 DEF RepFits
<1>8. Committed(o) /\ loose' = loose /\ \A r \in osd[o].rep : MayReport(o, r)
  BY DEF ReportEnds
<1> QED BY <1>1, <1>5, <1>6, <1>7, <1>8, CommittedHeld

LEMMA ReportFailsHeld ==
  ASSUME KeysHeld, NEW o \in OSDs, ReportFails(o)
  PROVE  KeysHeld'
<1>1. PICK t : t = Failed(osd[o])
  OBVIOUS
<1>2. IsOSD(t) /\ Takes(o, osd[o], t, known[o])
  BY <1>1, FailedShape DEF KeysHeld, Shape, Takes
<1>3. (Goes(o, t, known[o]) \/ Dies(o)) /\ UNCHANGED lock
  BY <1>1 DEF ReportFails
<1> QED BY <1>2, <1>3, GoesHeld, DiesHeld

LEMMA ReportLostHeld ==
  ASSUME KeysHeld, NEW o \in OSDs, ReportLost(o)
  PROVE  KeysHeld'
<1>1. PICK t : t = Failed(osd[o])
  OBVIOUS
<1>2. IsOSD(t) /\ t.rep = {} /\ \A pg \in PGs : t.pgs[pg].st = osd[o].pgs[pg].st
  BY <1>1, FailedShape DEF KeysHeld, Shape
<1>3. /\ Committed(o) /\ loose' = loose /\ \A r \in osd[o].rep : MayReport(o, r)
      /\ osd' = [osd EXCEPT ![o] = t]
  BY <1>1 DEF ReportLost
<1> QED BY <1>2, <1>3, CommittedHeld

LEMMA ReportAgainHeld ==
  ASSUME KeysHeld, NEW o \in OSDs, ReportAgain(o)
  PROVE  KeysHeld'
<1>1. PICK t : t = report_pg_states(o, osd[o], known[o])
  OBVIOUS
<1>2. IsOSD(t) /\ RepFits(osd[o], t) /\ \A pg \in PGs : t.pgs[pg].st = osd[o].pgs[pg].st
  BY <1>1, ReportShape DEF KeysHeld, Shape
<1>3. osd' = [osd EXCEPT ![o] = t] /\ lock' = lock /\ loose' = loose
  BY <1>1 DEF ReportAgain
<1>4. Shape'
  BY <1>2, <1>3 DEF KeysHeld, Shape
<1>5. ASSUME NEW x \in OSDs, NEW pg \in PGs
      PROVE  Held(x, pg)'
  <2>1. CASE x = o
    <3>1. osd'[o] = t /\ Held(o, pg)
      BY <1>3 DEF KeysHeld, Shape
    <3> QED BY <1>2, <1>3, <2>1, <3>1 DEF Held, RepFits, Live
  <2>2. CASE x # o
    BY <1>3, <2>2 DEF KeysHeld, Shape, Held
  <2> QED BY <2>1, <2>2
<1> QED BY <1>4, <1>5 DEF KeysHeld

LEMMA ExpireHeld ==
  ASSUME KeysHeld, NEW o \in OSDs, Expire(o)
  PROVE  KeysHeld'
<1>1. osd' = [osd EXCEPT ![o] = NoOSD] /\ \A x \in loose : x[1] # o => x \in loose'
  BY DEF Expire, Goes
<1>2. /\ lock' = [pg \in PGs |-> lock'[pg]]
      /\ \A pg \in PGs : lock[pg] # o => lock'[pg] = lock[pg]
  BY DEF Expire
<1>3. Shape'
  BY <1>1, <1>2, NoOSDShape DEF KeysHeld, Shape
<1>4. ASSUME NEW x \in OSDs, NEW pg \in PGs
      PROVE  Held(x, pg)'
  <2>1. CASE x = o
    <3>1. osd'[o].pgs[pg].st = "none"
      BY <1>1, NoOSDShape, NoPGShape DEF KeysHeld, Shape
    <3> QED BY <2>1, <3>1 DEF Held, Live
  <2>2. CASE x # o
    <3>1. osd'[x] = osd[x] /\ Held(x, pg)
      BY <1>1, <2>2 DEF KeysHeld, Shape
    <3>2. <<x, pg>> \notin loose' => <<x, pg>> \notin loose
      BY <1>1, <2>2
    <3> QED BY <1>2, <2>2, <3>1, <3>2 DEF Held
  <2> QED BY <2>1, <2>2
<1> QED BY <1>3, <1>4 DEF KeysHeld

(* A live process loses its keys; its PGs become loose. *)
LEMMA LeaseEndsHeld ==
  ASSUME KeysHeld, NEW o \in OSDs, LeaseEnds(o)
  PROVE  KeysHeld'
<1>1. PICK t : t = [osd[o] EXCEPT !.lease = FALSE]
  OBVIOUS
<1>2. IsOSD(osd[o])
  BY DEF KeysHeld, Shape
<1>3. IsOSD(t) /\ t.pgs = osd[o].pgs
  BY <1>1, <1>2 DEF IsOSD
<1>4. /\ osd' = [osd EXCEPT ![o] = t] /\ \A x \in loose : x \in loose'
      /\ \A pg \in PGs : osd[o].pgs[pg].st \in Live => <<o, pg>> \in loose'
  BY <1>1 DEF LeaseEnds
<1>5. /\ lock' = [pg \in PGs |-> lock'[pg]]
      /\ \A pg \in PGs : lock[pg] # o => lock'[pg] = lock[pg]
  BY DEF LeaseEnds
<1>6. Shape'
  BY <1>3, <1>4, <1>5 DEF KeysHeld, Shape
<1>7. ASSUME NEW x \in OSDs, NEW pg \in PGs
      PROVE  Held(x, pg)'
  <2>1. CASE x = o
    <3>1. osd'[o] = t
      BY <1>4 DEF KeysHeld, Shape
    <3> QED BY <1>3, <1>4, <2>1, <3>1 DEF Held
  <2>2. CASE x # o
    <3>1. osd'[x] = osd[x] /\ Held(x, pg)
      BY <1>4, <2>2 DEF KeysHeld, Shape
    <3> QED BY <1>4, <1>5, <2>2, <3>1 DEF Held
  <2> QED BY <2>1, <2>2
<1> QED BY <1>6, <1>7 DEF KeysHeld

LEMMA ActivatesHeld ==
  ASSUME KeysHeld, NEW o \in OSDs, NEW pg \in PGs, NEW p, IsPG(p),
         p.st \in Live => osd[o].pgs[pg].st \in Live, NEW l, Activates(o, pg, p, l), UNCHANGED lock
  PROVE  KeysHeld'
<1> DEFINE ends == p.st = "active" /\ ~p.clean /\ p.cur = p.set
                   /\ \A obj \in Mine(osd[o], pg) : l[obj] = p.set
           q == IF ends THEN Cleaned(p) ELSE p
           s == [osd[o] EXCEPT !.pgs[pg] = q, !.dirty = @ \union {pg}]
<1>1. PICK k : Goes(o, IF q = osd[o].pgs[pg] THEN osd[o] ELSE report_pg_states(o, s, k), k)
  BY DEF Activates
<1>2. IsPG(q) /\ q.st = p.st
  BY DEF IsPG, Cleaned
<1> HIDE DEF q
<1>3. IsOSD(osd[o])
  BY DEF KeysHeld, Shape
<1>4. IsOSD(s) /\ Within(osd[o], s)
  <2>1. s = SetPG(osd[o], pg, q, osd[o].dirty \union {pg})
    BY DEF SetPG
  <2> HIDE DEF s
  <2> QED BY <1>2, <1>3, SetPGShape, <2>1
<1> HIDE DEF s
<1>5. Goes(o, osd[o], k) \/ Goes(o, report_pg_states(o, s, k), k)
  BY <1>1
<1>6. Takes(o, osd[o], osd[o], k)
  BY DEF Takes
<1> QED BY <1>3, <1>4, <1>5, <1>6, GoesHeld, ReportsHeld

LEMMA PeerHeld ==
  ASSUME KeysHeld, NEW o \in OSDs, NEW pg \in PGs, Peer(o, pg)
  PROVE  KeysHeld'
<1> DEFINE p == osd[o].pgs[pg]
           seen == {x \in p.peers : Alive(x)}
           cur == p.set \intersect seen
           clean == cur = p.set /\ seen = p.peers /\ \A obj \in Mine(osd[o], pg) : loc[obj] = p.set
           q == [p EXCEPT !.st = "active", !.seen = seen, !.cur = cur, !.asked = FALSE,
                          !.epoch = IF clean THEN p.reported ELSE p.reported + 1,
                          !.clean = FALSE]
<1>1. Activates(o, pg, q, loc) /\ UNCHANGED lock
  BY DEF Peer
<1>2. IsPG(q) /\ osd[o].pgs[pg].st \in Live
  BY DEF KeysHeld, Shape, IsOSD, IsPG, Peer, Live
<1> HIDE DEF q
<1> QED BY <1>1, <1>2, ActivatesHeld

LEMMA RepeerHeld ==
  ASSUME KeysHeld, NEW o \in OSDs, NEW pg \in PGs, Repeer(o, pg)
  PROVE  KeysHeld'
<1> DEFINE q == [osd[o].pgs[pg] EXCEPT !.st = "peering", !.clean = FALSE]
           s == [osd[o] EXCEPT !.pgs[pg] = q, !.dirty = @ \union {pg}]
<1>1. Goes(o, report_pg_states(o, s, known[o]), known[o]) /\ UNCHANGED lock
  BY DEF Repeer
<1>2. IsOSD(osd[o]) /\ IsPG(q) /\ osd[o].pgs[pg].st \in Live
  BY DEF KeysHeld, Shape, IsOSD, IsPG, Repeer, Serves, Live
<1> HIDE DEF q
<1>3. IsOSD(s) /\ Within(osd[o], s)
  <2>1. s = SetPG(osd[o], pg, q, osd[o].dirty \union {pg})
    BY DEF SetPG
  <2> HIDE DEF s
  <2> QED BY <1>2, SetPGShape, <2>1
<1> HIDE DEF s
<1> QED BY <1>1, <1>3, ReportsHeld

LEMMA PrepareHeld ==
  ASSUME KeysHeld, NEW o \in OSDs, NEW pg \in PGs, Prepare(o, pg)
  PROVE  KeysHeld'
<1> DEFINE p == osd[o].pgs[pg]
           q == [p EXCEPT !.hist = IF p.clean /\ p.seen = p.peers THEN @ ELSE @ \union {p.cur},
                          !.changed = TRUE, !.asked = TRUE]
           s == [osd[o] EXCEPT !.pgs[pg] = q, !.dirty = @ \union {pg}]
<1>1. Goes(o, report_pg_states(o, s, known[o]), known[o]) /\ UNCHANGED lock
  BY DEF Prepare
<1>2. IsOSD(osd[o]) /\ IsPG(q) /\ osd[o].pgs[pg].st \in Live
  BY DEF KeysHeld, Shape, IsOSD, IsPG, Prepare, Serves, Live
<1> HIDE DEF q
<1>3. IsOSD(s) /\ Within(osd[o], s)
  <2>1. s = SetPG(osd[o], pg, q, osd[o].dirty \union {pg})
    BY DEF SetPG
  <2> HIDE DEF s
  <2> QED BY <1>2, SetPGShape, <2>1
<1> HIDE DEF s
<1> QED BY <1>1, <1>3, ReportsHeld

LEMMA WriteHeld ==
  ASSUME KeysHeld, NEW o \in OSDs, NEW pg \in PGs, NEW obj, Write(o, pg, obj)
  PROVE  KeysHeld'
<1>1. Activates(o, pg, osd[o].pgs[pg], loc') /\ UNCHANGED lock
  BY DEF Write
<1>2. IsPG(osd[o].pgs[pg])
  BY DEF KeysHeld, Shape, IsOSD
<1> QED BY <1>1, <1>2, ActivatesHeld

(* Monitors, commands and the clock change no OSD and no state key. *)
LEMMA RestHeld ==
  ASSUME KeysHeld, UNCHANGED <<osd, lock, loose>>
  PROVE  KeysHeld'
BY DEF KeysHeld, Shape, Held

LEMMA MonHeld ==
  ASSUME KeysHeld, NEW m \in Monitors, MonNext(m)
  PROVE  KeysHeld'
<1>1. UNCHANGED <<osd, lock, loose>>
  BY DEF MonNext, MonOthers, BecomeMaster, MonWatch, MasterExpires, MonDies, Optimize, Apply, Retry,
         MovePrimary
<1> QED BY <1>1, RestHeld

LEMMA CmdHeld ==
  ASSUME KeysHeld, CmdNext
  PROVE  KeysHeld'
<1>1. UNCHANGED <<osd, lock, loose>>
  BY DEF CmdNext, CmdOthers, SetCount, RmCheck, RmRead, RmKeys, CmdWatch, RmHistory
<1> QED BY <1>1, RestHeld

LEMMA OsdHeld ==
  ASSUME KeysHeld, NEW o \in OSDs, OsdNext(o)
  PROVE  KeysHeld'
<1>1. CASE Boot(o)   BY <1>1, BootHeld
<1>2. CASE Load(o)   BY <1>2, LoadHeld
<1>3. CASE Watch(o)  BY <1>3, WatchHeld
<1>4. CASE Crash(o)  BY <1>4, DiesHeld DEF Crash
<1>5. CASE Expire(o) BY <1>5, ExpireHeld
<1>6. CASE Out(o)    BY <1>6, RestHeld DEF Out
<1>7. CASE ReportEnds(o)  BY <1>7, ReportEndsHeld
<1>8. CASE ReportFails(o) BY <1>8, ReportFailsHeld
<1>9. CASE ReportLost(o)  BY <1>9, ReportLostHeld
<1>10. CASE ReportAgain(o) BY <1>10, ReportAgainHeld
<1>11. CASE \E pg \in PGs : FinishStop(o, pg) BY <1>11, FinishStopHeld
<1>12. CASE \E pg \in PGs : Peer(o, pg)       BY <1>12, PeerHeld
<1>13. CASE \E pg \in PGs : Repeer(o, pg)     BY <1>13, RepeerHeld
<1>14. CASE \E pg \in PGs : Prepare(o, pg)    BY <1>14, PrepareHeld
<1>15. CASE \E pg \in PGs : \E obj \in Objects : Write(o, pg, obj) BY <1>15, WriteHeld
<1>16. CASE LeaseEnds(o)  BY <1>16, LeaseEndsHeld
<1>17. CASE RenewFails(o) BY <1>17, DiesHeld DEF RenewFails
<1> QED BY <1>1, <1>2, <1>3, <1>4, <1>5, <1>6, <1>7, <1>8, <1>9, <1>10, <1>11, <1>12, <1>13,
           <1>14, <1>15, <1>16, <1>17, Zenon DEF OsdNext

LEMMA InitHeld == Init => KeysHeld
<1> SUFFICES ASSUME Init PROVE KeysHeld
  OBVIOUS
<1>1. lock = [pg \in PGs |-> lock[pg]]
  BY DEF Init
<1>2. loose = {}
  BY DEF Init
<1> DEFINE pgs(o) == [pg \in PGs |-> IF lock[pg] = o THEN InitialPG(setup.sets[pg]) ELSE NoPG]
           run(o) == [NoOSD EXCEPT !.st = "run", !.count = Len(db.items), !.lease = TRUE, !.pgs = pgs(o)]
<1>3. osd = [o \in OSDs |-> IF o \in setup.down THEN NoOSD ELSE run(o)]
  BY DEF Init
<1>4. \A o \in OSDs, pg \in PGs : IsPG(pgs(o)[pg]) /\ (lock[pg] # o => pgs(o)[pg].st = "none")
  BY NoPGShape DEF IsPG, InitialPG
<1>5. \A o \in OSDs : pgs(o) = [pg \in PGs |-> pgs(o)[pg]]
  OBVIOUS
<1> HIDE DEF pgs
<1>6. ASSUME NEW o \in OSDs
      PROVE  IsOSD(run(o)) /\ run(o).rep = {} /\ run(o).pgs = pgs(o)
  <2>1. /\ DOMAIN run(o) = {"st", "pgs", "dirty", "rep", "applied", "count", "lease"}
        /\ run(o).pgs = pgs(o) /\ run(o).rep = {}
    BY NoOSDShape DEF IsOSD
  <2> HIDE DEF run
  <2> QED BY <1>4, <1>5, <2>1 DEF IsOSD
<1> HIDE DEF run
<1>7. ASSUME NEW o \in OSDs, NEW pg \in PGs
      PROVE  IsOSD(osd[o]) /\ Held(o, pg)
  BY <1>3, <1>4, <1>6, <1>7, NoOSDShape, NoPGShape DEF Held, Live
<1>8. \A o \in OSDs : IsOSD(osd[o])
  BY <1>3, <1>6, NoOSDShape
<1> QED BY <1>1, <1>3, <1>7, <1>8 DEF KeysHeld, Shape

-----------------------------------------------------------------------------
(* An OSD that has a live PG has the state key of the PG in etcd, and has  *)
(* not begun to give it away, unless the PG is loose: taken again too      *)
(* early, or kept after the lease of the OSD has run out.  The comparisons *)
(* and the lease of report_pg_states, and the order in which               *)
(* apply_pg_config and stop_pg report the PGs, are enough for that: also   *)
(* when an OSD goes on without its lease, nobody else is led to believe    *)
(* that it has a key.                                                      *)
THEOREM KeysInvariant == Spec => []KeysHeld
<1>1. ASSUME KeysHeld, [Next]_vars
      PROVE  KeysHeld'
  <2>1. CASE \E o \in OSDs : OsdNext(o)     BY <1>1, <2>1, OsdHeld
  <2>2. CASE \E m \in Monitors : MonNext(m) BY <1>1, <2>2, MonHeld
  <2>3. CASE CmdNext                        BY <1>1, <2>3, CmdHeld
  <2>4. CASE UNCHANGED vars                 BY <1>1, <2>4, RestHeld DEF vars
  <2> QED BY <1>1, <2>1, <2>2, <2>3, <2>4, Zenon DEF Next
<1> QED BY <1>1, InitHeld, PTL DEF Spec

(* Two OSDs that hold the key of a PG never serve it together              *)
(* (apply_pg_config, report_pg_states), also while others go on without    *)
(* their leases: the state key has one primary.  Loose PGs are exempt.     *)
THEOREM AlwaysOnePrimary == Spec => []OnePrimary
<1>1. KeysHeld => OnePrimary
  BY DEF KeysHeld, Held, OnePrimary, Serves, Live
<1> QED BY <1>1, KeysInvariant, PTL

-----------------------------------------------------------------------------
(***************************************************************************)
(* The number of PGs changes only while none of them is held.              *)
(***************************************************************************)

(* A transaction in which this report creates the key. *)
Creates(r) == r.st = "starting" \/ (r.st # "offline" /\ r.lock = None)

(* OSD o has the PG, and has not taken it while it gives the key away. *)
Holds(o, pg) == osd[o].pgs[pg].st \in Live /\ <<o, pg>> \notin loose

(* OSD o has the key, knows it, and would take the PG at once. *)
Armed(o, pg) == Runs(o) /\ Take(o, known[o], pg) /\ known[o].lock[pg] = o /\ lock[pg] = o

(* The master m has seen all PGs of the current configuration stopped. *)
SeesStopped(m) ==
  /\ master = m /\ db.items = mon[m].copy.db.items
  /\ \A pg \in DOMAIN db.items : db.items[pg].pause /\ mon[m].copy.lock[pg] = None

(* A PG is held, or may be at once, only under the current number of PGs,  *)
(* and not once the master has seen all of them stopped.                   *)
InCount(o, pg) ==
  Holds(o, pg) \/ Armed(o, pg) =>
    /\ osd[o].count = Len(db.items) /\ pg \in DOMAIN db.items
    /\ \A m \in Monitors : ~SeesStopped(m)

(* An OSD creates no key that its copy calls its own: the copy may be old. *)
(* Without its lease it creates none at all.                               *)
Fresh(o) ==
  Runs(o) =>
    /\ osd[o].lease =>
         \A r \in osd[o].rep : r.pg \in PGs /\ Creates(r) => known[o].lock[r.pg] # o \/ lock[r.pg] = o
    /\ \A pg \in PGs : osd[o].pgs[pg].st = "starting" => known[o].lock[pg] # o

(* How the configuration that m has copied may differ from the current     *)
(* one, so that rm-osd cannot make them equal again.                       *)
Differs(a, b) ==
  \/ DOMAIN a # DOMAIN b
  \/ \E pg \in DOMAIN a : ~a[pg].pause \/ ~b[pg].pause \/ a[pg].primary # b[pg].primary

(* The master scales to a count that it knows of, or changes no count. *)
MonCounts(m) ==
  LET k == mon[m].copy.db
  IN  master = m =>
        /\ k.count \in {db.count, Len(db.items)}
        /\ mon[m].st \in {"apply", "wait"} => Len(mon[m].pgs) \in {k.count, Len(db.items)}
        /\ cmd.st \in {"none", "read", "keys"} => db.items = k.items \/ Differs(k.items, db.items)

(* What holds unless rm-osd has put an old configuration back. *)
Counts ==
  /\ \A o \in OSDs, pg \in PGs : InCount(o, pg)
  /\ \A m \in Monitors : MonCounts(m)
  /\ cmd.st = "none" => db.count = Len(db.items)

(* The shape of the copies and configurations that the actions update. *)
IsKnown(k) == DOMAIN k = {"count", "items", "hist", "base", "lock"}

IsItems(x) ==
  /\ Len(x) \in Nat /\ x = [pg \in 1..Len(x) |-> x[pg]]
  /\ \A pg \in 1..Len(x) :
       x[pg] = [set |-> x[pg].set, primary |-> x[pg].primary, pause |-> x[pg].pause]

DbShape ==
  /\ DOMAIN db = {"count", "items", "hash", "hist", "up", "stats"}
  /\ IsItems(db.items) /\ db.count \in Nat

MonShape ==
  /\ mon = [m \in Monitors |-> mon[m]]
  /\ \A m \in Monitors :
       /\ DOMAIN mon[m] = {"st", "pgs", "up", "hash", "news", "copy"}
       /\ Len(mon[m].pgs) \in Nat
       /\ mon[m].st # "down" => mon[m].copy.db.count \in Nat

CmdShape ==
  /\ DOMAIN cmd = {"st", "items", "hash", "hist", "base", "clobbers"}
  /\ cmd.st \in {"none", "read", "keys"} => ~cmd.clobbers
  /\ cmd.st = "keys" => IsItems(cmd.items)

KnownShape ==
  /\ known = [o \in OSDs |-> known[o]]
  /\ \A o \in OSDs : Runs(o) => IsKnown(known[o]) /\ osd[o].count = known[o].count

(* The inductive invariant, together with KeysHeld. *)
CountInv ==
  /\ DbShape /\ MonShape /\ CmdShape /\ KnownShape
  /\ \A o \in OSDs : Fresh(o)
  /\ ~cmd.clobbers => Counts

-----------------------------------------------------------------------------
(* What the operators on OSDs do besides.  s becomes t with the copy k.    *)
Moves(o, s, t, k) ==
  /\ t.st = s.st /\ t.count = s.count /\ t.lease = s.lease
  /\ \A pg \in PGs : t.pgs[pg].st \in Live => s.pgs[pg].st \in Live \/ (Take(o, k, pg) /\ k.lock[pg] = o)
  /\ \A pg \in PGs : t.pgs[pg].st = "starting" => s.pgs[pg].st = "starting" \/ k.lock[pg] # o
  /\ \/ t.rep = s.rep
     \/ \A r \in t.rep : r.pg \in PGs /\ Creates(r) => s.pgs[r.pg].st = "starting" \/ k.lock[r.pg] # o

(* A PG that has to create its key has none in the copy. *)
Settled(o, t, k) == \A pg \in PGs : t.pgs[pg].st = "starting" => k.lock[pg] # o

LEMMA ReportMoves ==
  ASSUME NEW o \in OSDs, NEW s, NEW k, IsOSD(s)
  PROVE  Moves(o, s, report_pg_states(o, s, k), k)
<1> DEFINE pgs == {pg \in s.dirty : s.pgs[pg].st # "none"}
           new == [pg \in PGs |-> IF pg \in pgs /\ s.pgs[pg].st # "offline"
                                  THEN [s.pgs[pg] EXCEPT !.changed = FALSE] ELSE s.pgs[pg]]
           rep == {ReportOf(o, s.pgs[pg], pg, k) : pg \in pgs}
           t == [s EXCEPT !.rep = rep, !.dirty = {}, !.pgs = new]
<1>1. CASE s.rep # {} \/ pgs = {}
  BY <1>1 DEF report_pg_states, Moves
<1>2. CASE ~(s.rep # {} \/ pgs = {})
  <2>1. report_pg_states(o, s, k) = t
    BY <1>2 DEF report_pg_states
  <2>2. \A pg \in PGs : new[pg].st = s.pgs[pg].st
    BY DEF IsOSD, IsPG
  <2>3. \A r \in rep : r.st = s.pgs[r.pg].st /\ r.lock = k.lock[r.pg]
    BY DEF ReportOf
  <2> HIDE DEF new, rep
  <2>4. t.pgs = new /\ t.rep = rep /\ t.st = s.st /\ t.count = s.count /\ t.lease = s.lease
    BY DEF IsOSD
  <2>5. o # None
    BY OSDsAssumption DEF None
  <2> HIDE DEF t
  <2> QED BY <2>1, <2>2, <2>3, <2>4, <2>5 DEF Moves, Creates
<1> QED BY <1>1, <1>2

LEMMA AppliedMoves ==
  ASSUME NEW o, NEW s, NEW k, NEW pg \in PGs, NEW busy, IsOSD(s)
  PROVE  /\ Applied(o, s, k, pg, busy).st \in Live =>
              s.pgs[pg].st \in Live \/ (Take(o, k, pg) /\ k.lock[pg] = o)
         /\ Applied(o, s, k, pg, busy).st = "starting" => k.lock[pg] # o
<1> DEFINE p == s.pgs[pg]
           st == Started(o, k, pg)
           sp == Stopped(p, busy)
           r == Applied(o, s, k, pg, busy)
<1>1. /\ st.st \in Live => k.lock[pg] = o
      /\ st.st = "starting" => k.lock[pg] # o
  BY NoPGShape DEF Started, IsPG, Live
<1>2. /\ sp.st \in Live => p.st \in Live
      /\ sp.st # "starting"
  BY DEF IsOSD, IsPG, Stopped, Live
<1> HIDE DEF st, sp
<1>3. CASE Take(o, k, pg)
  <2>1. r \in {st, sp, p}
    BY Zenon DEF Applied, st, sp
  <2>2. p.st = "starting" /\ k.lock[pg] = o => r = st
    <3> SUFFICES ASSUME p.st = "starting", k.lock[pg] = o PROVE r = st
      OBVIOUS
    <3>1. Taken(p)
      BY DEF Taken
    <3> QED BY <1>3, <3>1, SMT DEF Applied, st
  <2> HIDE DEF r, p
  <2>3. r = st \/ r = sp \/ r = p
    BY <2>1
  <2> QED BY <1>1, <1>2, <1>3, <2>2, <2>3 DEF r, p
<1>4. CASE ~Take(o, k, pg)
  <2>1. r = sp \/ (r = p /\ p.st # "starting")
    <3>1. CASE Taken(p) /\ p.st # "stopping"
      <4>1. r = sp
        BY <1>4, <3>1, SMT DEF Applied, sp
      <4> QED BY <4>1
    <3>2. CASE ~(Taken(p) /\ p.st # "stopping")
      <4>1. r = p
        BY <1>4, <3>2, SMT DEF Applied
      <4> QED BY <3>2, <4>1 DEF Taken
    <3> QED BY <3>1, <3>2
  <2> QED BY <1>2, <2>1 DEF r, p
<1> QED BY <1>3, <1>4

LEMMA ApplyMoves ==
  ASSUME NEW o \in OSDs, NEW s, NEW k, NEW busy, IsOSD(s)
  PROVE  /\ Moves(o, s, apply_pg_config(o, s, k, busy), k)
         /\ Settled(o, apply_pg_config(o, s, k, busy), k)
<1> DEFINE new == [pg \in PGs |-> Applied(o, s, k, pg, busy)]
           changed == {pg \in PGs : new[pg] # s.pgs[pg]}
           atonce == {pg \in changed : new[pg].st # "starting"}
           first == IF atonce = {} THEN PGs ELSE 1..Least(atonce)
           app == \A pg \in PGs : Take(o, k, pg) =>
                        /\ new[pg].st \in {"active", "peering"}
                        /\ s.pgs[pg].st \in {"active", "peering"} => SameConfig(s.pgs[pg], k, pg)
           pgs1 == [pg \in PGs |-> IF pg \in first THEN new[pg] ELSE s.pgs[pg]]
           s1 == [s EXCEPT !.pgs = pgs1, !.dirty = @ \union (changed \intersect first)]
           t == report_pg_states(o, s1, k)
           pgs2 == [pg \in PGs |-> IF pg \in first THEN t.pgs[pg] ELSE Applied(o, t, k, pg, busy)]
           u == [t EXCEPT !.pgs = pgs2, !.dirty = @ \union (changed \ first), !.applied = app]
           Mine1(pg) == Take(o, k, pg) /\ k.lock[pg] = o
<1>1. apply_pg_config(o, s, k, busy) = u
  BY DEF apply_pg_config
<1>2. \A pg \in PGs : /\ IsPG(new[pg])
                      /\ new[pg].st \in Live => s.pgs[pg].st \in Live \/ Mine1(pg)
                      /\ new[pg].st = "starting" => k.lock[pg] # o
  <2> SUFFICES ASSUME NEW pg \in PGs
               PROVE  /\ IsPG(new[pg])
                      /\ new[pg].st \in Live => s.pgs[pg].st \in Live \/ Mine1(pg)
                      /\ new[pg].st = "starting" => k.lock[pg] # o
    OBVIOUS
  <2>1. new[pg] = Applied(o, s, k, pg, busy)
    OBVIOUS
  <2> HIDE DEF new
  <2>2. IsPG(Applied(o, s, k, pg, busy))
    BY AppliedShape
  <2>3. Applied(o, s, k, pg, busy).st = "starting" => k.lock[pg] # o
    BY AppliedMoves DEF Take
  <2>4. Applied(o, s, k, pg, busy).st \in Live => s.pgs[pg].st \in Live \/ Mine1(pg)
    BY AppliedMoves DEF Take
  <2> QED BY <2>1, <2>2, <2>3, <2>4
<1> HIDE DEF new, Mine1
<1>3. /\ pgs1 = [pg \in PGs |-> pgs1[pg]]
      /\ \A pg \in PGs : /\ IsPG(pgs1[pg])
                         /\ pgs1[pg].st \in Live => s.pgs[pg].st \in Live \/ Mine1(pg)
                         /\ pgs1[pg].st = "starting" => s.pgs[pg].st = "starting" \/ k.lock[pg] # o
                         /\ pg \in first /\ pgs1[pg].st = "starting" => k.lock[pg] # o
  BY <1>2 DEF IsOSD
<1> HIDE DEF pgs1, changed, first, app
<1>4. /\ DOMAIN s1 = {"st", "pgs", "dirty", "rep", "applied", "count", "lease"} /\ s1.pgs = pgs1
      /\ s1.st = s.st /\ s1.count = s.count /\ s1.rep = s.rep /\ s1.lease = s.lease
  BY DEF IsOSD
<1> HIDE DEF s1
<1>5. IsOSD(s1)
  BY <1>3, <1>4 DEF IsOSD
<1>6. IsOSD(t) /\ (\A pg \in PGs : t.pgs[pg].st = pgs1[pg].st) /\ Moves(o, s1, t, k)
  BY <1>4, <1>5, ReportShape, ReportMoves
<1> HIDE DEF t
<1>7. \A pg \in PGs : /\ Applied(o, t, k, pg, busy).st \in Live => t.pgs[pg].st \in Live \/ Mine1(pg)
                      /\ Applied(o, t, k, pg, busy).st = "starting" => k.lock[pg] # o
  BY <1>6, AppliedMoves DEF Mine1, Take
<1>8. \A pg \in PGs : /\ pgs2[pg].st \in Live => s.pgs[pg].st \in Live \/ Mine1(pg)
                      /\ pgs2[pg].st = "starting" => k.lock[pg] # o
  <2> SUFFICES ASSUME NEW pg \in PGs
               PROVE  /\ pgs2[pg].st \in Live => s.pgs[pg].st \in Live \/ Mine1(pg)
                      /\ pgs2[pg].st = "starting" => k.lock[pg] # o
    OBVIOUS
  <2>1. CASE pg \in first
    BY <1>3, <1>6, <2>1
  <2>2. CASE pg \notin first
    BY <1>3, <1>6, <1>7, <2>2
  <2> QED BY <2>1, <2>2
<1> HIDE DEF pgs2
<1>9. u.pgs = pgs2 /\ u.st = t.st /\ u.count = t.count /\ u.rep = t.rep /\ u.lease = t.lease
  BY <1>6 DEF IsOSD
<1> HIDE DEF u
<1>10. \/ t.rep = s.rep
       \/ \A r \in t.rep : r.pg \in PGs /\ Creates(r) => s.pgs[r.pg].st = "starting" \/ k.lock[r.pg] # o
  BY <1>3, <1>4, <1>6 DEF Moves
<1>11. t.st = s.st /\ t.count = s.count /\ t.lease = s.lease
  BY <1>4, <1>6 DEF Moves
<1> QED BY <1>1, <1>8, <1>9, <1>10, <1>11 DEF Moves, Settled, Mine1

-----------------------------------------------------------------------------
(* OSD o and its copy change; the others find everything as before. *)
ConfigSame ==
  /\ db'.items = db.items /\ db'.count = db.count /\ DOMAIN db' = DOMAIN db
  /\ UNCHANGED <<master, mon, cmd>>

(* Keys and loose PGs of the others. *)
Apart(o) ==
  \A x \in OSDs, pg \in PGs : x # o =>
    /\ lock'[pg] = x <=> lock[pg] = x
    /\ <<x, pg>> \in loose' <=> <<x, pg>> \in loose

LEMMA OneOsd ==
  ASSUME KeysHeld, CountInv, ConfigSame, NEW o \in OSDs, Apart(o),
         NEW t, osd' = [osd EXCEPT ![o] = t], NEW k, known' = [known EXCEPT ![o] = k],
         t.st = "run" => IsKnown(k) /\ t.count = k.count,
         Fresh(o)',
         ~cmd.clobbers => \A pg \in PGs : InCount(o, pg)'
  PROVE  CountInv'
<1>1. /\ osd'[o] = t /\ known'[o] = k
      /\ \A x \in OSDs : x # o => osd'[x] = osd[x] /\ known'[x] = known[x]
      /\ known' = [x \in OSDs |-> known'[x]]
  BY DEF KeysHeld, Shape, CountInv, KnownShape
<1>2. DbShape' /\ MonShape' /\ CmdShape'
  BY DEF CountInv, ConfigSame, DbShape, MonShape, CmdShape
<1>3. KnownShape'
  BY <1>1 DEF CountInv, KnownShape, Runs
<1>4. ASSUME NEW x \in OSDs PROVE Fresh(x)'
  <2>1. CASE x = o  BY <2>1
  <2>2. CASE x # o
    <3>1. Fresh(x) /\ osd'[x] = osd[x] /\ known'[x] = known[x]
      BY <1>1, <2>2 DEF CountInv
    <3>2. \A pg \in PGs : lock[pg] = x => lock'[pg] = x
      BY <2>2 DEF Apart
    <3> QED BY <3>1, <3>2 DEF Fresh, Runs, Creates
  <2> QED BY <2>1, <2>2
<1>5. ASSUME ~cmd.clobbers, NEW x \in OSDs, NEW pg \in PGs
      PROVE  InCount(x, pg)'
  <2>1. CASE x = o  BY <1>5, <2>1
  <2>2. CASE x # o
    <3>1. InCount(x, pg) /\ osd'[x] = osd[x] /\ known'[x] = known[x]
      BY <1>1, <1>5, <2>2 DEF CountInv, Counts
    <3>2. Holds(x, pg)' => Holds(x, pg)
      BY <2>2, <3>1 DEF Holds, Apart
    <3>3. Armed(x, pg)' => Armed(x, pg)
      BY <2>2, <3>1 DEF Armed, Apart, Runs, Take
    <3>4. \A m \in Monitors : SeesStopped(m)' => SeesStopped(m)
      BY DEF SeesStopped, ConfigSame
    <3> QED BY <3>1, <3>2, <3>3, <3>4 DEF InCount, ConfigSame
  <2> QED BY <2>1, <2>2
<1>6. ~cmd.clobbers => (\A m \in Monitors : MonCounts(m)') /\ (cmd.st = "none" => db.count = Len(db.items))'
  BY DEF CountInv, Counts, MonCounts, ConfigSame, Differs
<1>7. cmd' = cmd
  BY DEF ConfigSame
<1> QED BY <1>2, <1>3, <1>4, <1>5, <1>6, <1>7 DEF CountInv, Counts

(* The copy k of OSD o is as etcd is, or is the one it had. *)
NewCopy(o, k) ==
  /\ k.count = Len(db.items)
  /\ \A pg \in PGs : pg \in DOMAIN k.items => pg \in DOMAIN db.items /\ k.items[pg] = db.items[pg]
  /\ \A pg \in PGs : k.lock[pg] = o => lock[pg] = o

OldCopy(o, k) ==
  Runs(o) /\ k.count = known[o].count /\ k.items = known[o].items /\ k.lock = known[o].lock

(* The change that a handler makes before it applies or reports. *)
Near(s, t) ==
  /\ t.rep = s.rep /\ t.lease = s.lease
  /\ \A pg \in PGs : /\ t.pgs[pg].st \in Live => s.pgs[pg].st \in Live
                     /\ t.pgs[pg].st = "starting" => s.pgs[pg].st = "starting"

LEMMA GoesCounts ==
  ASSUME KeysHeld, CountInv, UNCHANGED <<db, lock, master, mon, cmd>>, NEW o \in OSDs,
         NEW s, Near(osd[o], s), NEW t, NEW k, s.st = "run", s.count = k.count,
         Moves(o, s, t, k), IsKnown(k),
         (NewCopy(o, k) /\ Settled(o, t, k)) \/ OldCopy(o, k),
         Goes(o, t, k), known' = [known EXCEPT ![o] = k]
  PROVE  CountInv'
<1>1. osd' = [osd EXCEPT ![o] = t] /\ osd'[o] = t /\ known'[o] = k
  BY DEF Goes, KeysHeld, Shape, CountInv, KnownShape
<1>2. ConfigSame /\ Apart(o)
  BY DEF ConfigSame, Apart, Goes, LooseNow
<1>3. t.st = "run" /\ t.count = k.count
  BY DEF Moves
<1>4. Fresh(o)'
  <2>1. CASE NewCopy(o, k) /\ Settled(o, t, k)
    BY <1>1, <2>1 DEF Fresh, NewCopy, Settled, Creates
  <2>2. CASE OldCopy(o, k)
    <3>1. Fresh(o) /\ Runs(o) /\ k.lock = known[o].lock
      BY <2>2 DEF CountInv, OldCopy
    <3>2. \A pg \in PGs : s.pgs[pg].st = "starting" => k.lock[pg] # o
      BY <3>1 DEF Near, Fresh
    <3>3. osd[o].lease =>
            \A r \in s.rep : r.pg \in PGs /\ Creates(r) => k.lock[r.pg] # o \/ lock[r.pg] = o
      BY <3>1 DEF Near, Fresh, Creates
    <3>4. \A pg \in PGs : t.pgs[pg].st = "starting" => k.lock[pg] # o
      BY <3>2 DEF Moves
    <3>5. t.lease =>
            \A r \in t.rep : r.pg \in PGs /\ Creates(r) => k.lock[r.pg] # o \/ lock[r.pg] = o
      BY <3>2, <3>3 DEF Moves, Creates, Near
    <3> QED BY <1>1, <3>4, <3>5 DEF Fresh, Creates
  <2> QED BY <2>1, <2>2
<1>5. ASSUME ~cmd.clobbers, NEW pg \in PGs
      PROVE  InCount(o, pg)'
  <2>1. InCount(o, pg) /\ lock' = lock /\ db' = db /\ \A m \in Monitors : SeesStopped(m)' <=> SeesStopped(m)
    BY <1>5 DEF CountInv, Counts, SeesStopped
  <2>2. Holds(o, pg)' => Holds(o, pg) \/ (Take(o, k, pg) /\ k.lock[pg] = o /\ lock[pg] = o)
    <3>1. SUFFICES ASSUME t.pgs[pg].st \in Live, <<o, pg>> \notin loose'
                   PROVE  Holds(o, pg) \/ (Take(o, k, pg) /\ k.lock[pg] = o /\ lock[pg] = o)
      BY <1>1 DEF Holds
    <3>2. <<o, pg>> \notin LooseNow(o, t, k)
      BY <3>1 DEF Goes
    <3>3. <<o, pg>> \notin loose /\ (k.lock[pg] = o => lock[pg] = o)
      BY <3>1, <3>2 DEF LooseNow
    <3>4. s.pgs[pg].st \in Live \/ (Take(o, k, pg) /\ k.lock[pg] = o)
      BY <3>1 DEF Moves, Take
    <3> QED BY <3>3, <3>4 DEF Near, Holds, Take
  <2>3. Armed(o, pg)' => Take(o, k, pg) /\ k.lock[pg] = o /\ lock[pg] = o
    BY <1>1, <2>1 DEF Armed, Take
  <2>4. SUFFICES ASSUME Holds(o, pg) \/ (Take(o, k, pg) /\ k.lock[pg] = o /\ lock[pg] = o)
                 PROVE  /\ k.count = Len(db.items) /\ pg \in DOMAIN db.items
                        /\ \A m \in Monitors : ~SeesStopped(m)
    BY <1>1, <1>3, <2>1, <2>2, <2>3 DEF InCount
  <2>5. CASE NewCopy(o, k)
    <3>1. CASE Holds(o, pg)
      BY <2>1, <2>5, <3>1 DEF InCount, NewCopy
    <3>2. CASE Take(o, k, pg)
      BY <2>5, <3>2 DEF Take, NewCopy, SeesStopped
    <3> QED BY <2>4, <3>1, <3>2
  <2>6. CASE OldCopy(o, k)
    <3>1. osd[o].count = k.count
      BY <2>6 DEF OldCopy, CountInv, KnownShape
    <3>2. Take(o, k, pg) /\ k.lock[pg] = o /\ lock[pg] = o => Armed(o, pg)
      BY <2>6 DEF OldCopy, Armed, Take
    <3> QED BY <2>1, <2>4, <3>1, <3>2 DEF InCount
  <2> QED BY <2>5, <2>6
<1> QED BY <1>1, <1>2, <1>3, <1>4, <1>5, OneOsd DEF Moves

(* OSD o has no PGs any more. *)
LEMMA GoneCounts ==
  ASSUME KeysHeld, CountInv, ConfigSame, NEW o \in OSDs, Apart(o),
         NEW t, osd' = [osd EXCEPT ![o] = t], t.st # "run", \A pg \in PGs : t.pgs[pg].st \notin Live,
         NEW k, known' = [known EXCEPT ![o] = k]
  PROVE  CountInv'
<1>1. osd'[o] = t
  BY DEF KeysHeld, Shape
<1>2. Fresh(o)'
  BY <1>1 DEF Fresh, Runs
<1>3. \A pg \in PGs : InCount(o, pg)'
  BY <1>1 DEF InCount, Holds, Armed, Runs
<1> QED BY <1>2, <1>3, OneOsd

(* Nothing that the invariant is about changes. *)
LEMMA StillCounts ==
  ASSUME CountInv, UNCHANGED <<db, lock, master, known, osd, mon, cmd, loose>>
  PROVE  CountInv'
BY DEF CountInv, DbShape, MonShape, CmdShape, KnownShape, IsKnown, Fresh, Creates, Counts, InCount, Holds,
       Armed, Take, SeesStopped, MonCounts, Differs, Runs

LEMMA SameKnown ==
  ASSUME CountInv, UNCHANGED known, NEW o \in OSDs
  PROVE  known' = [known EXCEPT ![o] = known[o]]
BY DEF CountInv, KnownShape

LEMMA DiesCounts ==
  ASSUME KeysHeld, CountInv, NEW o \in OSDs, Dies(o), UNCHANGED <<db, lock, master, mon, cmd>>,
         NEW k, known' = [known EXCEPT ![o] = k]
  PROVE  CountInv'
<1> DEFINE t == [NoOSD EXCEPT !.st = "dead"]
<1>1. t.st # "run" /\ \A pg \in PGs : t.pgs[pg].st \notin Live
  BY NoPGShape, NoOSDShape DEF IsOSD, Live
<1>2. osd' = [osd EXCEPT ![o] = t] /\ Apart(o) /\ ConfigSame
  BY DEF Dies, Apart, ConfigSame
<1> HIDE DEF t
<1> QED BY <1>1, <1>2, GoneCounts

LEMMA BootCounts ==
  ASSUME KeysHeld, CountInv, NEW o \in OSDs, Boot(o)
  PROVE  CountInv'
<1> DEFINE t == [NoOSD EXCEPT !.st = "loading", !.lease = TRUE]
<1>1. t.st # "run" /\ \A pg \in PGs : t.pgs[pg].st \notin Live
  BY NoPGShape, NoOSDShape DEF IsOSD, Live
<1>2. db' = [db EXCEPT !.up[o] = boots, !.stats = @ \union {o}] /\ UNCHANGED <<lock, master, mon, cmd, known>>
  BY DEF Boot
<1>3. ConfigSame
  BY <1>2 DEF ConfigSame, CountInv, DbShape
<1>4. osd' = [osd EXCEPT ![o] = t] /\ Apart(o)
  BY <1>2 DEF Boot, Goes, Apart, LooseNow
<1>5. known' = [known EXCEPT ![o] = known[o]]
  BY <1>2, SameKnown
<1> HIDE DEF t
<1> QED BY <1>1, <1>3, <1>4, <1>5, GoneCounts

LEMMA ExpireCounts ==
  ASSUME KeysHeld, CountInv, NEW o \in OSDs, Expire(o)
  PROVE  CountInv'
<1>1. NoOSD.st # "run" /\ \A pg \in PGs : NoOSD.pgs[pg].st \notin Live
  BY NoPGShape, NoOSDShape DEF IsOSD, Live, NoOSD
<1>2. /\ db' = [db EXCEPT !.up[o] = 0] /\ UNCHANGED <<master, mon, cmd>>
      /\ known' = [known EXCEPT ![o] = << >>]
  BY DEF Expire, Others
<1>3. ConfigSame
  BY <1>2 DEF ConfigSame, CountInv, DbShape
<1>4. osd' = [osd EXCEPT ![o] = NoOSD]
  BY DEF Expire, Goes
<1>5. \A x \in OSDs, pg \in PGs : x # o => (lock'[pg] = x <=> lock[pg] = x)
  BY OSDsAssumption DEF Expire, None
<1>6. Apart(o)
  BY <1>5 DEF Expire, Goes, Apart, LooseNow
<1> QED BY <1>1, <1>2, <1>3, <1>4, <1>6, GoneCounts

(* What is not changed by the OSD's own steps. *)
OsdOnly == UNCHANGED <<db, lock, master, mon, cmd>>

LEMMA AppliesCounts ==
  ASSUME KeysHeld, CountInv, OsdOnly, NEW o \in OSDs, NEW s, IsOSD(s), Near(osd[o], s),
         NEW k, s.st = "run", s.count = k.count, IsKnown(k), NewCopy(o, k) \/ OldCopy(o, k),
         NEW busy, Goes(o, apply_pg_config(o, s, k, busy), k), known' = [known EXCEPT ![o] = k]
  PROVE  CountInv'
<1>1. PICK t : t = apply_pg_config(o, s, k, busy)
  OBVIOUS
<1>2. Moves(o, s, t, k) /\ Settled(o, t, k)
  BY <1>1, ApplyMoves
<1>3. Goes(o, t, k)
  BY <1>1
<1> QED BY <1>2, <1>3, GoesCounts DEF OsdOnly

LEMMA ReportsCounts ==
  ASSUME KeysHeld, CountInv, OsdOnly, NEW o \in OSDs, NEW s, IsOSD(s), Near(osd[o], s),
         NEW k, s.st = "run", s.count = k.count, IsKnown(k), OldCopy(o, k),
         Goes(o, report_pg_states(o, s, k), k), known' = [known EXCEPT ![o] = k]
  PROVE  CountInv'
<1>1. PICK t : t = report_pg_states(o, s, k)
  OBVIOUS
<1>2. Moves(o, s, t, k)
  BY <1>1, ReportMoves
<1>3. Goes(o, t, k)
  BY <1>1
<1> QED BY <1>2, <1>3, GoesCounts DEF OsdOnly

LEMMA PgKeysNew ==
  ASSUME NEW o \in OSDs
  PROVE  IsKnown(PgKeys(o)) /\ NewCopy(o, PgKeys(o))
<1>1. o # None
  BY OSDsAssumption DEF None
<1> QED BY <1>1 DEF IsKnown, NewCopy, PgKeys

LEMMA LoadCounts ==
  ASSUME KeysHeld, CountInv, NEW o \in OSDs, Load(o)
  PROVE  CountInv'
<1> DEFINE s == [osd[o] EXCEPT !.st = "run", !.count = Len(db.items)]
<1>1. PICK k : k = PgKeys(o)
  OBVIOUS
<1>2. IsKnown(k) /\ NewCopy(o, k)
  BY <1>1, PgKeysNew
<1>3. OsdOnly /\ known' = [known EXCEPT ![o] = k]
  BY <1>1 DEF Load, Others, OsdOnly
<1>4. Goes(o, apply_pg_config(o, s, k, FALSE), k) \/ Dies(o)
  BY <1>1 DEF Load
<1>5. IsOSD(s) /\ Near(osd[o], s) /\ s.st = "run" /\ s.count = k.count
  BY <1>2 DEF KeysHeld, Shape, IsOSD, Near, NewCopy
<1> HIDE DEF s
<1>6. CASE Dies(o)
  BY <1>3, <1>6, DiesCounts DEF OsdOnly
<1>7. CASE Goes(o, apply_pg_config(o, s, k, FALSE), k)
  <2>1. PICK busy : busy = FALSE
    OBVIOUS
  <2>2. Goes(o, apply_pg_config(o, s, k, busy), k)
    BY <1>7, <2>1
  <2> QED BY <1>2, <1>3, <1>5, <2>2, AppliesCounts
<1> QED BY <1>4, <1>6, <1>7

(* The OSD before it applies what a watch has told it. *)
HeardCount(s, k) == [Heard(s, k) EXCEPT !.count = k.count]

LEMMA HeardNear ==
  ASSUME NEW s, NEW k, IsOSD(s)
  PROVE  /\ IsOSD(HeardCount(s, k)) /\ Near(s, HeardCount(s, k))
         /\ HeardCount(s, k).st = s.st /\ HeardCount(s, k).count = k.count
<1> DEFINE new == [pg \in PGs |->
                     IF s.pgs[pg].epoch > s.pgs[pg].reported /\ k.hist[pg].epoch >= s.pgs[pg].epoch
                     THEN [s.pgs[pg] EXCEPT !.reported = k.hist[pg].epoch] ELSE s.pgs[pg]]
           h == [s EXCEPT !.pgs = new]
<1>1. Heard(s, k) = h
  BY DEF Heard
<1>2. \A pg \in PGs : new[pg].st = s.pgs[pg].st
  BY DEF IsOSD, IsPG
<1> HIDE DEF new
<1>3. /\ DOMAIN h = {"st", "pgs", "dirty", "rep", "applied", "count", "lease"} /\ h.pgs = new
      /\ h.rep = s.rep /\ h.st = s.st /\ h.lease = s.lease
  BY DEF IsOSD
<1> HIDE DEF h
<1>4. PICK n : n = k.count
  OBVIOUS
<1>5. PICK t : t = [Heard(s, k) EXCEPT !.count = n]
  OBVIOUS
<1>6. IsOSD(t)
  BY <1>5, HeardShape
<1>7. t.pgs = new /\ t.rep = s.rep /\ t.st = s.st /\ t.count = n /\ t.lease = s.lease
  BY <1>1, <1>3, <1>5
<1>8. t = HeardCount(s, k)
  BY <1>4, <1>5 DEF HeardCount
<1>9. Near(s, t)
  BY <1>2, <1>7 DEF Near
<1> QED BY <1>4, <1>6, <1>7, <1>8, <1>9

LEMMA WatchedNew ==
  ASSUME NEW o \in OSDs
  PROVE  IsKnown(Watched(o)) /\ NewCopy(o, Watched(o))
<1> DEFINE h == [pg \in PGs |-> IF PgKeys(o).hist[pg] = known[o].base[pg] THEN known[o].hist[pg]
                                ELSE PgKeys(o).hist[pg]]
<1>1. Watched(o) = [PgKeys(o) EXCEPT !.hist = h]
  BY DEF Watched
<1> HIDE DEF h
<1>2. PICK k : k = PgKeys(o)
  OBVIOUS
<1>3. IsKnown(k) /\ NewCopy(o, k) /\ Watched(o) = [k EXCEPT !.hist = h]
  BY <1>1, <1>2, PgKeysNew
<1> QED BY <1>3 DEF IsKnown, NewCopy

LEMMA WatchCounts ==
  ASSUME KeysHeld, CountInv, NEW o \in OSDs, Watch(o)
  PROVE  CountInv'
<1>1. PICK k \in {Watched(o)} :
        /\ known' = [known EXCEPT ![o] = k]
        /\ IF AllowsCount(osd[o], k)
           THEN \E busy \in BOOLEAN :
                  Goes(o, apply_pg_config(o, [Heard(osd[o], k) EXCEPT !.count = k.count], k, busy), k)
           ELSE Dies(o)
  BY DEF Watch
<1>2. OsdOnly /\ osd[o].st = "run"
  BY DEF Watch, Others, OsdOnly, Runs
<1>3. IsKnown(k) /\ NewCopy(o, k)
  BY <1>1, WatchedNew
<1> DEFINE s == [Heard(osd[o], k) EXCEPT !.count = k.count]
<1>4. IsOSD(s) /\ Near(osd[o], s) /\ s.st = "run" /\ s.count = k.count
  <2>1. s = HeardCount(osd[o], k)
    BY DEF HeardCount
  <2>2. IsOSD(osd[o])
    BY DEF KeysHeld, Shape
  <2> HIDE DEF s
  <2> QED BY <1>2, <2>1, <2>2, HeardNear
<1>5. (\E busy \in BOOLEAN : Goes(o, apply_pg_config(o, s, k, busy), k)) \/ Dies(o)
  BY <1>1
<1> HIDE DEF s
<1>6. CASE Dies(o)
  BY <1>1, <1>2, <1>6, DiesCounts DEF OsdOnly
<1>7. ASSUME NEW busy \in BOOLEAN, Goes(o, apply_pg_config(o, s, k, busy), k)
      PROVE  CountInv'
  BY <1>1, <1>2, <1>3, <1>4, <1>7, AppliesCounts
<1> QED BY <1>5, <1>6, <1>7

(* The copy of an OSD that runs. *)
LEMMA RunsOld ==
  ASSUME CountInv, NEW o \in OSDs, Runs(o)
  PROVE  OldCopy(o, known[o]) /\ IsKnown(known[o]) /\ osd[o].count = known[o].count /\ osd[o].st = "run"
BY DEF CountInv, KnownShape, OldCopy, Runs

(* A change of one PG, by which the OSD gains none. *)
Kin(s, t) == Near(s, t) /\ t.st = s.st /\ t.count = s.count

LEMMA SetPGNear ==
  ASSUME NEW s, IsOSD(s), NEW pg, NEW p, p.st \in Live => s.pgs[pg].st \in Live, p.st # "starting", NEW d
  PROVE  Kin(s, SetPG(s, pg, p, d))
<1> DEFINE new == [s.pgs EXCEPT ![pg] = p]
<1>0. PICK t : t = SetPG(s, pg, p, d)
  OBVIOUS
<1>1. \A x \in PGs : /\ new[x].st \in Live => s.pgs[x].st \in Live
                     /\ new[x].st = "starting" => s.pgs[x].st = "starting"
  BY DEF IsOSD
<1>2. t = [s EXCEPT !.pgs = new, !.dirty = d]
  BY <1>0 DEF SetPG
<1> HIDE DEF new
<1>3. t.pgs = new /\ t.st = s.st /\ t.count = s.count /\ t.rep = s.rep /\ t.lease = s.lease
  BY <1>2 DEF IsOSD
<1>4. Kin(s, t)
  BY <1>1, <1>3 DEF Near, Kin
<1> QED BY <1>0, <1>4

LEMMA FinishStopCounts ==
  ASSUME KeysHeld, CountInv, NEW o \in OSDs, NEW pg \in PGs, FinishStop(o, pg)
  PROVE  CountInv'
<1> DEFINE p == [osd[o].pgs[pg] EXCEPT !.st = "offline"]
           s == [osd[o] EXCEPT !.pgs[pg] = p, !.dirty = @ \union {pg}]
<1>1. IsOSD(osd[o]) /\ IsPG(p) /\ p.st \notin Live /\ p.st # "starting"
  BY DEF KeysHeld, Shape, IsOSD, IsPG, Live
<1>2. s = [osd[o] EXCEPT !.pgs[pg].st = "offline", !.dirty = @ \union {pg}]
  OBVIOUS
<1>3. \/ Goes(o, report_pg_states(o, s, known[o]), known[o])
      \/ Goes(o, apply_pg_config(o, s, known[o], TRUE), known[o])
  BY <1>2 DEF FinishStop
<1>4. OsdOnly /\ Runs(o) /\ known' = [known EXCEPT ![o] = known[o]]
  BY SameKnown DEF FinishStop, Others, OsdOnly
<1> HIDE DEF p
<1>5. IsOSD(s) /\ Near(osd[o], s) /\ s.st = osd[o].st /\ s.count = osd[o].count
  <2>1. s = SetPG(osd[o], pg, p, osd[o].dirty \union {pg})
    BY DEF SetPG
  <2> HIDE DEF s
  <2>2. IsOSD(s) /\ Within(osd[o], s)
    BY <1>1, SetPGShape, <2>1
  <2>3. Kin(osd[o], s)
    BY <1>1, SetPGNear, <2>1
  <2> QED BY <2>2, <2>3 DEF Kin
<1> HIDE DEF s
<1>6. OldCopy(o, known[o]) /\ IsKnown(known[o]) /\ s.count = known[o].count /\ s.st = "run"
  BY <1>4, <1>5, RunsOld
<1>7. CASE Goes(o, report_pg_states(o, s, known[o]), known[o])
  BY <1>4, <1>5, <1>6, <1>7, ReportsCounts
<1>8. CASE Goes(o, apply_pg_config(o, s, known[o], TRUE), known[o])
  <2>1. PICK busy : busy = TRUE
    OBVIOUS
  <2>2. Goes(o, apply_pg_config(o, s, known[o], busy), known[o])
    BY <1>8, <2>1
  <2> QED BY <1>4, <1>5, <1>6, <2>2, AppliesCounts
<1> QED BY <1>3, <1>7, <1>8

(* A PG of o is changed and reported. *)
LEMMA ChangeCounts ==
  ASSUME KeysHeld, CountInv, OsdOnly, NEW o \in OSDs, NEW pg \in PGs, NEW q, IsPG(q),
         q.st \in Live => osd[o].pgs[pg].st \in Live, q.st # "starting",
         NEW s, s = SetPG(osd[o], pg, q, osd[o].dirty \union {pg}),
         NEW k, OldCopy(o, k), IsKnown(k), known' = [known EXCEPT ![o] = k],
         Goes(o, report_pg_states(o, s, k), k)
  PROVE  CountInv'
<1>1. IsOSD(osd[o])
  BY DEF KeysHeld, Shape
<1>2. IsOSD(s) /\ Within(osd[o], s)
  BY <1>1, SetPGShape
<1>3. Kin(osd[o], s)
  BY <1>1, SetPGNear
<1>4. osd[o].st = "run" /\ osd[o].count = k.count
  BY DEF OldCopy, CountInv, KnownShape, Runs
<1>5. Near(osd[o], s) /\ s.st = "run" /\ s.count = k.count
  BY <1>3, <1>4 DEF Kin
<1> QED BY <1>2, <1>5, ReportsCounts

LEMMA ActivatesCounts ==
  ASSUME KeysHeld, CountInv, OsdOnly, NEW o \in OSDs, Runs(o), NEW pg \in PGs, NEW p, IsPG(p),
         p.st \in Live => osd[o].pgs[pg].st \in Live, p.st # "starting",
         NEW l, Activates(o, pg, p, l)
  PROVE  CountInv'
<1> DEFINE ends == p.st = "active" /\ ~p.clean /\ p.cur = p.set
                   /\ \A obj \in Mine(osd[o], pg) : l[obj] = p.set
           q == IF ends THEN Cleaned(p) ELSE p
           s == [osd[o] EXCEPT !.pgs[pg] = q, !.dirty = @ \union {pg}]
           k1 == [known[o] EXCEPT !.hist[pg].sets = q.hist, !.hist[pg].peers = q.peers]
<1>1. PICK k \in {IF ends THEN k1 ELSE known[o]} :
        /\ known' = [known EXCEPT ![o] = k]
        /\ Goes(o, IF q = osd[o].pgs[pg] THEN osd[o] ELSE report_pg_states(o, s, k), k)
  BY DEF Activates
<1>2. IsPG(q) /\ q.st = p.st
  BY DEF IsPG, Cleaned
<1> HIDE DEF q, ends
<1>3. OldCopy(o, known[o]) /\ IsKnown(known[o]) /\ osd[o].count = known[o].count /\ osd[o].st = "run"
  BY RunsOld
<1>4. OldCopy(o, k) /\ IsKnown(k)
  <2>1. OldCopy(o, k1) /\ IsKnown(k1)
    BY <1>3 DEF OldCopy, IsKnown
  <2>2. k = k1 \/ k = known[o]
    BY <1>1
  <2> HIDE DEF k1
  <2> QED BY <1>3, <2>1, <2>2
<1>5. s = SetPG(osd[o], pg, q, osd[o].dirty \union {pg})
  BY DEF SetPG
<1> HIDE DEF s, k1
<1>6. Goes(o, osd[o], k) \/ Goes(o, report_pg_states(o, s, k), k)
  BY <1>1
<1>7. CASE Goes(o, report_pg_states(o, s, k), k)
  BY <1>1, <1>2, <1>4, <1>5, <1>7, ChangeCounts
<1>8. CASE Goes(o, osd[o], k)
  <2>1. PICK x : x = osd[o]
    OBVIOUS
  <2>2. Near(osd[o], x) /\ x.st = "run" /\ x.count = k.count /\ Moves(o, x, x, k)
    BY <1>3, <1>4, <2>1 DEF Near, Moves, OldCopy
  <2>3. Goes(o, x, k)
    BY <1>8, <2>1
  <2> QED BY <1>1, <1>4, <2>2, <2>3, GoesCounts DEF OsdOnly
<1> QED BY <1>6, <1>7, <1>8

LEMMA PeerCounts ==
  ASSUME KeysHeld, CountInv, NEW o \in OSDs, NEW pg \in PGs, Peer(o, pg)
  PROVE  CountInv'
<1> DEFINE p == osd[o].pgs[pg]
           seen == {x \in p.peers : Alive(x)}
           cur == p.set \intersect seen
           clean == cur = p.set /\ seen = p.peers /\ \A obj \in Mine(osd[o], pg) : loc[obj] = p.set
           q == [p EXCEPT !.st = "active", !.seen = seen, !.cur = cur, !.asked = FALSE,
                          !.epoch = IF clean THEN p.reported ELSE p.reported + 1,
                          !.clean = FALSE]
<1>1. Activates(o, pg, q, loc) /\ OsdOnly /\ Runs(o)
  BY DEF Peer, OsdOnly, Others
<1>2. IsPG(q) /\ osd[o].pgs[pg].st \in Live /\ q.st # "starting"
  BY DEF KeysHeld, Shape, IsOSD, IsPG, Peer, Live
<1> HIDE DEF q
<1> QED BY <1>1, <1>2, ActivatesCounts

LEMMA RepeerCounts ==
  ASSUME KeysHeld, CountInv, NEW o \in OSDs, NEW pg \in PGs, Repeer(o, pg)
  PROVE  CountInv'
<1> DEFINE q == [osd[o].pgs[pg] EXCEPT !.st = "peering", !.clean = FALSE]
           s == [osd[o] EXCEPT !.pgs[pg] = q, !.dirty = @ \union {pg}]
<1>1. /\ Goes(o, report_pg_states(o, s, known[o]), known[o]) /\ OsdOnly /\ Runs(o)
      /\ known' = [known EXCEPT ![o] = known[o]]
  BY SameKnown DEF Repeer, OsdOnly, Others, Serves
<1>2. IsPG(q) /\ osd[o].pgs[pg].st \in Live /\ q.st # "starting"
  BY DEF KeysHeld, Shape, IsOSD, IsPG, Repeer, Serves, Live
<1> HIDE DEF q
<1>3. s = SetPG(osd[o], pg, q, osd[o].dirty \union {pg})
  BY DEF SetPG
<1>4. OldCopy(o, known[o]) /\ IsKnown(known[o])
  BY <1>1, RunsOld
<1> HIDE DEF s
<1> QED BY <1>1, <1>2, <1>3, <1>4, ChangeCounts

LEMMA PrepareCounts ==
  ASSUME KeysHeld, CountInv, NEW o \in OSDs, NEW pg \in PGs, Prepare(o, pg)
  PROVE  CountInv'
<1> DEFINE p == osd[o].pgs[pg]
           q == [p EXCEPT !.hist = IF p.clean /\ p.seen = p.peers THEN @ ELSE @ \union {p.cur},
                          !.changed = TRUE, !.asked = TRUE]
           s == [osd[o] EXCEPT !.pgs[pg] = q, !.dirty = @ \union {pg}]
<1>1. /\ Goes(o, report_pg_states(o, s, known[o]), known[o]) /\ OsdOnly /\ Runs(o)
      /\ known' = [known EXCEPT ![o] = known[o]]
  BY SameKnown DEF Prepare, OsdOnly, Others, Serves
<1>2. IsPG(q) /\ osd[o].pgs[pg].st \in Live /\ q.st # "starting"
  BY DEF KeysHeld, Shape, IsOSD, IsPG, Prepare, Serves, Live
<1> HIDE DEF q
<1>3. s = SetPG(osd[o], pg, q, osd[o].dirty \union {pg})
  BY DEF SetPG
<1>4. OldCopy(o, known[o]) /\ IsKnown(known[o])
  BY <1>1, RunsOld
<1> HIDE DEF s
<1> QED BY <1>1, <1>2, <1>3, <1>4, ChangeCounts

LEMMA WriteCounts ==
  ASSUME KeysHeld, CountInv, NEW o \in OSDs, NEW pg \in PGs, NEW obj, Write(o, pg, obj)
  PROVE  CountInv'
<1>1. Activates(o, pg, osd[o].pgs[pg], loc') /\ OsdOnly /\ Runs(o) /\ osd[o].pgs[pg].st # "starting"
  BY DEF Write, OsdOnly, Others
<1>2. IsPG(osd[o].pgs[pg])
  BY DEF KeysHeld, Shape, IsOSD
<1> QED BY <1>1, <1>2, ActivatesCounts

-----------------------------------------------------------------------------
(* Transactions of OSD o, which keeps its copy and goes on as t. *)
Reports(o, t) ==
  /\ t.st = "run" /\ t.count = osd[o].count /\ t.lease = osd[o].lease
  /\ \A pg \in PGs : /\ t.pgs[pg].st \in Live => osd[o].pgs[pg].st \in Live
                     /\ t.pgs[pg].st = "starting" => osd[o].pgs[pg].st = "starting"
  /\ \A r \in t.rep : r.pg \in PGs /\ Creates(r) => known[o].lock[r.pg] # o

LEMMA ReportedCounts ==
  ASSUME KeysHeld, CountInv, ConfigSame, NEW o \in OSDs, Runs(o), Apart(o), UNCHANGED <<known, loose>>,
         NEW t, Reports(o, t), osd' = [osd EXCEPT ![o] = t],
         \A pg \in PGs : lock'[pg] = o => lock[pg] = o \/ known[o].lock[pg] # o
  PROVE  CountInv'
<1>1. osd'[o] = t /\ known' = known
  BY DEF KeysHeld, Shape
<1>2. IsKnown(known[o]) /\ osd[o].count = known[o].count
  BY RunsOld
<1>3. Fresh(o)'
  <2>1. Fresh(o)
    BY DEF CountInv
  <2> QED BY <1>1, <2>1 DEF Fresh, Reports, Creates
<1>4. ASSUME ~cmd.clobbers, NEW pg \in PGs
      PROVE  InCount(o, pg)'
  <2>1. InCount(o, pg)
    BY <1>4 DEF CountInv, Counts
  <2>2. Holds(o, pg)' => Holds(o, pg)
    BY <1>1 DEF Holds, Reports
  <2>3. Armed(o, pg)' => Armed(o, pg)
    BY <1>1 DEF Armed, Take
  <2>4. \A m \in Monitors : SeesStopped(m)' => SeesStopped(m)
    BY DEF SeesStopped, ConfigSame
  <2> QED BY <1>1, <2>1, <2>2, <2>3, <2>4 DEF InCount, ConfigSame, Reports
<1>5. known' = [known EXCEPT ![o] = known[o]]
  BY SameKnown
<1>6. IsKnown(known[o]) /\ t.count = known[o].count
  BY <1>2 DEF Reports
<1>7. PICK k : k = known[o]
  OBVIOUS
<1>8. known' = [known EXCEPT ![o] = k] /\ IsKnown(k) /\ t.count = k.count
  BY <1>5, <1>6, <1>7
<1> QED BY <1>3, <1>4, <1>8, OneOsd

(* Reports follow when the OSD is s. *)
LEMMA ReportsAfter ==
  ASSUME CountInv, NEW o \in OSDs, Runs(o), NEW s, IsOSD(s), s.rep = {}, s.st = "run", s.count = osd[o].count,
         s.lease = osd[o].lease,
         \A pg \in PGs : /\ s.pgs[pg].st \in Live => osd[o].pgs[pg].st \in Live
                         /\ s.pgs[pg].st = "starting" => osd[o].pgs[pg].st = "starting"
  PROVE  Reports(o, report_pg_states(o, s, known[o]))
<1>1. PICK t : t = report_pg_states(o, s, known[o])
  OBVIOUS
<1>2. Moves(o, s, t, known[o]) /\ \A pg \in PGs : t.pgs[pg].st = s.pgs[pg].st
  BY <1>1, ReportMoves, ReportShape
<1>3. \A pg \in PGs : s.pgs[pg].st = "starting" => known[o].lock[pg] # o
  BY DEF CountInv, Fresh
<1>4. \A r \in t.rep : r.pg \in PGs /\ Creates(r) => known[o].lock[r.pg] # o
  BY <1>2, <1>3 DEF Moves, Creates
<1>5. t.st = "run" /\ t.count = osd[o].count /\ t.lease = osd[o].lease
  BY <1>2 DEF Moves
<1>6. Reports(o, t)
  BY <1>2, <1>4, <1>5 DEF Reports
<1> QED BY <1>1, <1>6

LEMMA FailedReports ==
  ASSUME KeysHeld, CountInv, NEW o \in OSDs, Runs(o)
  PROVE  Reports(o, Failed(osd[o]))
<1> DEFINE s == osd[o]
           new == [pg \in PGs |-> IF \E r \in s.rep : r.pg = pg /\ r.put
                                  THEN [s.pgs[pg] EXCEPT !.changed = TRUE] ELSE s.pgs[pg]]
           dirty == s.dirty \union {r.pg : r \in s.rep}
<1>1. IsOSD(s) /\ s.st = "run"
  BY DEF KeysHeld, Shape, Runs
<1>2. PICK t : t = Failed(s)
  OBVIOUS
<1> HIDE DEF s
<1>3. t = [s EXCEPT !.rep = {}, !.dirty = dirty, !.pgs = new]
  BY <1>2 DEF Failed
<1>4. \A pg \in PGs : t.pgs[pg].st = s.pgs[pg].st
  BY <1>1, <1>2, FailedShape
<1> HIDE DEF new, dirty
<1>5. t.rep = {} /\ t.st = s.st /\ t.count = s.count /\ t.lease = s.lease
  BY <1>1, <1>3 DEF IsOSD
<1>6. Reports(o, t)
  BY <1>1, <1>4, <1>5 DEF Reports, s
<1> QED BY <1>2, <1>6 DEF s

LEMMA CommittedConfig ==
  ASSUME CountInv, NEW o \in OSDs, Committed(o), UNCHANGED <<master, mon, cmd>>
  PROVE  ConfigSame
<1> DEFINE rs == osd[o].rep
           Of(pg) == CHOOSE r \in rs : r.pg = pg
           hist == [pg \in PGs |-> IF \E r \in rs : r.pg = pg /\ r.put
                      THEN [there |-> TRUE, sets |-> Of(pg).sets, peers |-> Of(pg).peers,
                            epoch |-> Of(pg).epoch, puts |-> db.hist[pg].puts]
                      ELSE db.hist[pg]]
<1>1. db' = [db EXCEPT !.hist = hist]
  BY DEF Committed
<1> HIDE DEF hist
<1> QED BY <1>1 DEF ConfigSame, CountInv, DbShape

LEMMA CommittedLocks ==
  ASSUME CountInv, NEW o \in OSDs, Runs(o), \A r \in osd[o].rep : MayReport(o, r), Committed(o)
  PROVE  /\ \A x \in OSDs, pg \in PGs : x # o => (lock'[pg] = x <=> lock[pg] = x)
         /\ \A pg \in PGs : lock'[pg] = o => lock[pg] = o \/ known[o].lock[pg] # o
<1> DEFINE Of(pg) == CHOOSE r \in osd[o].rep : r.pg = pg
<1>1. \A pg \in PGs : (\E r \in osd[o].rep : r.pg = pg) =>
        Of(pg) \in osd[o].rep /\ Of(pg).pg = pg
  OBVIOUS
<1>2. \A pg \in PGs : lock'[pg] =
        IF \E r \in osd[o].rep : r.pg = pg
        THEN IF Of(pg).st # "offline" THEN o
             ELSE IF Of(pg).lock \in {None, o} THEN None ELSE lock[pg]
        ELSE lock[pg]
  BY DEF Committed
<1> HIDE DEF Of
<1>3. o # None /\ \A x \in OSDs : x # None
  BY OSDsAssumption DEF None
<1>4. ASSUME NEW pg \in PGs
      PROVE  /\ \A x \in OSDs : x # o => (lock'[pg] = x <=> lock[pg] = x)
             /\ lock'[pg] = o => lock[pg] = o \/ known[o].lock[pg] # o
  <2>1. CASE ~\E r \in osd[o].rep : r.pg = pg
    BY <1>2, <2>1
  <2>2. CASE \E r \in osd[o].rep : r.pg = pg
    <3>1. PICK r \in osd[o].rep : r = Of(pg) /\ r.pg = pg
      BY <1>1, <2>2
    <3>2. lock'[pg] = IF r.st # "offline" THEN o ELSE IF r.lock \in {None, o} THEN None ELSE lock[pg]
      BY <1>2, <2>2, <3>1
    <3>3. CASE Creates(r) \/ r.lock = None
      <4>1. lock[pg] = None
        BY <3>1, <3>3 DEF MayReport, Creates
      <4>2. Creates(r) => known[o].lock[pg] # o
        BY <1>3, <3>1, <4>1 DEF CountInv, Fresh, Creates, MayReport
      <4>3. ~Creates(r) => r.st = "offline"
        BY <3>3 DEF Creates
      <4> QED BY <1>3, <3>2, <4>1, <4>2, <4>3
    <3>4. CASE ~(Creates(r) \/ r.lock = None)
      <4>1. CASE r.st = "offline" /\ r.lock # o
        BY <1>3, <3>2, <3>4, <4>1
      <4>2. CASE ~(r.st = "offline" /\ r.lock # o)
        <5>1. lock[pg] = o
          BY <3>1, <3>4, <4>2 DEF MayReport, Creates
        <5> QED BY <1>3, <3>2, <5>1
      <4> QED BY <4>1, <4>2
    <3> QED BY <3>3, <3>4
  <2> QED BY <2>1, <2>2
<1> QED BY <1>4

LEMMA ReportEndsCounts ==
  ASSUME KeysHeld, CountInv, NEW o \in OSDs, ReportEnds(o)
  PROVE  CountInv'
<1> DEFINE new == [pg \in PGs |-> IF pg \in Reported(o) \ osd[o].dirty /\ osd[o].pgs[pg].st = "offline"
                                  THEN NoPG ELSE osd[o].pgs[pg]]
           s == [osd[o] EXCEPT !.rep = {}, !.pgs = new]
           t == report_pg_states(o, s, known[o])
<1>1. osd' = [osd EXCEPT ![o] = t]
  BY DEF ReportEnds
<1>2. /\ \A pg \in PGs : IsPG(new[pg]) /\ (new[pg] = NoPG \/ new[pg] = osd[o].pgs[pg])
      /\ new = [pg \in PGs |-> new[pg]]
  BY NoPGShape DEF KeysHeld, Shape, IsOSD
<1> HIDE DEF new
<1>3. /\ DOMAIN s = {"st", "pgs", "dirty", "rep", "applied", "count", "lease"} /\ s.pgs = new /\ s.rep = {}
      /\ s.st = osd[o].st /\ s.count = osd[o].count /\ s.lease = osd[o].lease
  BY DEF KeysHeld, Shape, IsOSD
<1>4. /\ Committed(o) /\ UNCHANGED <<loose, known, master, mon, cmd>> /\ Runs(o)
      /\ \A r \in osd[o].rep : MayReport(o, r)
  BY DEF ReportEnds, Others
<1> HIDE DEF s
<1>5. IsOSD(s)
  BY <1>2, <1>3 DEF IsOSD
<1>6. \A pg \in PGs : /\ s.pgs[pg].st \in Live => osd[o].pgs[pg].st \in Live
                      /\ s.pgs[pg].st = "starting" => osd[o].pgs[pg].st = "starting"
  BY <1>2, <1>3, NoPGShape DEF Live
<1>7. Reports(o, t)
  BY <1>3, <1>4, <1>5, <1>6, ReportsAfter DEF Runs
<1> HIDE DEF t
<1>8. ConfigSame
  BY <1>4, CommittedConfig
<1>9. Apart(o) /\ \A pg \in PGs : lock'[pg] = o => lock[pg] = o \/ known[o].lock[pg] # o
  BY <1>4, CommittedLocks DEF Apart
<1> QED BY <1>1, <1>4, <1>7, <1>8, <1>9, ReportedCounts

LEMMA ReportLostCounts ==
  ASSUME KeysHeld, CountInv, NEW o \in OSDs, ReportLost(o)
  PROVE  CountInv'
<1>1. PICK t : t = Failed(osd[o])
  OBVIOUS
<1>2. /\ Committed(o) /\ UNCHANGED <<loose, known, master, mon, cmd>> /\ Runs(o)
      /\ \A r \in osd[o].rep : MayReport(o, r)
      /\ osd' = [osd EXCEPT ![o] = t]
  BY <1>1 DEF ReportLost, Others
<1>3. Reports(o, t)
  BY <1>1, <1>2, FailedReports
<1>4. ConfigSame
  BY <1>2, CommittedConfig
<1>5. Apart(o) /\ \A pg \in PGs : lock'[pg] = o => lock[pg] = o \/ known[o].lock[pg] # o
  BY <1>2, CommittedLocks DEF Apart
<1> QED BY <1>2, <1>3, <1>4, <1>5, ReportedCounts

LEMMA ReportAgainCounts ==
  ASSUME KeysHeld, CountInv, NEW o \in OSDs, ReportAgain(o)
  PROVE  CountInv'
<1>1. PICK t : t = report_pg_states(o, osd[o], known[o])
  OBVIOUS
<1>2. /\ UNCHANGED <<db, lock, loose, known, master, mon, cmd>> /\ Runs(o) /\ osd[o].rep = {}
      /\ osd' = [osd EXCEPT ![o] = t]
  BY <1>1 DEF ReportAgain, Others
<1>3. IsOSD(osd[o]) /\ osd[o].st = "run"
  BY <1>2 DEF KeysHeld, Shape, Runs
<1>4. PICK s : s = osd[o]
  OBVIOUS
<1>5. Reports(o, report_pg_states(o, s, known[o]))
  BY <1>2, <1>3, <1>4, ReportsAfter
<1>6. Reports(o, t)
  BY <1>1, <1>4, <1>5
<1>7. ConfigSame /\ Apart(o) /\ \A pg \in PGs : lock'[pg] = o => lock[pg] = o \/ known[o].lock[pg] # o
  BY <1>2 DEF ConfigSame, Apart
<1> QED BY <1>2, <1>6, <1>7, ReportedCounts

LEMMA ReportFailsCounts ==
  ASSUME KeysHeld, CountInv, NEW o \in OSDs, ReportFails(o)
  PROVE  CountInv'
<1>1. PICK t : t = Failed(osd[o])
  OBVIOUS
<1>2. (Goes(o, t, known[o]) \/ Dies(o)) /\ OsdOnly /\ Runs(o) /\ known' = [known EXCEPT ![o] = known[o]]
  BY <1>1, SameKnown DEF ReportFails, Others, OsdOnly
<1>3. OldCopy(o, known[o]) /\ IsKnown(known[o]) /\ osd[o].count = known[o].count /\ osd[o].st = "run"
  BY <1>2, RunsOld
<1>4. CASE Dies(o)
  BY <1>2, <1>4, DiesCounts DEF OsdOnly
<1>5. CASE Goes(o, t, known[o])
  <2>1. Reports(o, t)
    BY <1>1, <1>2, FailedReports
  <2>2. PICK s, k : s = osd[o] /\ k = known[o]
    OBVIOUS
  <2>3. Near(osd[o], s) /\ s.st = "run" /\ s.count = k.count /\ IsKnown(k) /\ OldCopy(o, k)
    BY <1>3, <2>2 DEF Near
  <2>4. t.rep = {}
    BY <1>1, FailedShape DEF KeysHeld, Shape
  <2>5. Moves(o, s, t, k)
    BY <1>3, <2>1, <2>2, <2>4 DEF Moves, Reports
  <2>6. Goes(o, t, k) /\ known' = [known EXCEPT ![o] = k]
    BY <1>2, <1>5, <2>2
  <2> QED BY <1>2, <2>3, <2>5, <2>6, GoesCounts DEF OsdOnly
<1> QED BY <1>2, <1>4, <1>5

LEMMA LeaseEndsCounts ==
  ASSUME KeysHeld, CountInv, NEW o \in OSDs, LeaseEnds(o)
  PROVE  CountInv'
<1>1. PICK t, k : t = [osd[o] EXCEPT !.lease = FALSE] /\ k = known[o]
  OBVIOUS
<1>2. IsOSD(osd[o])
  BY DEF KeysHeld, Shape
<1>3. t.pgs = osd[o].pgs /\ t.st = osd[o].st /\ t.count = osd[o].count /\ ~t.lease
  BY <1>1, <1>2 DEF IsOSD
<1>4. /\ osd' = [osd EXCEPT ![o] = t] /\ osd'[o] = t /\ UNCHANGED known
      /\ known' = [known EXCEPT ![o] = k]
  BY <1>1, SameKnown DEF LeaseEnds, KeysHeld, Shape
<1>5. ConfigSame
  BY DEF LeaseEnds, Others, ConfigSame, CountInv, DbShape
<1>6. o # None /\ \A x \in OSDs : x # None
  BY OSDsAssumption DEF None
<1>7. \A pg \in PGs : lock'[pg] = IF lock[pg] = o THEN None ELSE lock[pg]
  BY DEF LeaseEnds
<1>8. \A x \in OSDs, pg \in PGs : x # o => (<<x, pg>> \in loose' <=> <<x, pg>> \in loose)
  BY DEF LeaseEnds
<1>9. Apart(o)
  BY <1>6, <1>7, <1>8 DEF Apart
<1>10. t.st = "run" => IsKnown(k) /\ t.count = k.count
  BY <1>1, <1>3 DEF CountInv, KnownShape, Runs
<1>11. Fresh(o)'
  <2>1. Fresh(o)
    BY DEF CountInv
  <2> QED BY <1>3, <1>4, <2>1 DEF Fresh, Runs
<1>12. ASSUME NEW pg \in PGs PROVE InCount(o, pg)'
  <2>1. ~Holds(o, pg)'
    BY <1>3, <1>4 DEF Holds, LeaseEnds
  <2>2. ~Armed(o, pg)'
    BY <1>6, <1>7 DEF Armed
  <2> QED BY <2>1, <2>2 DEF InCount
<1> QED BY <1>4, <1>5, <1>9, <1>10, <1>11, <1>12, OneOsd

LEMMA OsdCounts ==
  ASSUME KeysHeld, CountInv, NEW o \in OSDs, OsdNext(o)
  PROVE  CountInv'
<1>1. CASE Boot(o)   BY <1>1, BootCounts
<1>2. CASE Load(o)   BY <1>2, LoadCounts
<1>3. CASE Watch(o)  BY <1>3, WatchCounts
<1>4. CASE Crash(o)
  <2>1. Dies(o) /\ UNCHANGED <<db, lock, master, mon, cmd>> /\ known' = [known EXCEPT ![o] = known[o]]
    BY <1>4, SameKnown DEF Crash, Others
  <2> QED BY <2>1, DiesCounts
<1>5. CASE Expire(o) BY <1>5, ExpireCounts
<1>6. CASE Out(o)
  BY <1>6, StillCounts DEF Out, Others
<1>7. CASE ReportEnds(o)  BY <1>7, ReportEndsCounts
<1>8. CASE ReportFails(o) BY <1>8, ReportFailsCounts
<1>9. CASE ReportLost(o)  BY <1>9, ReportLostCounts
<1>10. CASE ReportAgain(o) BY <1>10, ReportAgainCounts
<1>11. CASE \E pg \in PGs : FinishStop(o, pg) BY <1>11, FinishStopCounts
<1>12. CASE \E pg \in PGs : Peer(o, pg)       BY <1>12, PeerCounts
<1>13. CASE \E pg \in PGs : Repeer(o, pg)     BY <1>13, RepeerCounts
<1>14. CASE \E pg \in PGs : Prepare(o, pg)    BY <1>14, PrepareCounts
<1>15. CASE \E pg \in PGs : \E obj \in Objects : Write(o, pg, obj) BY <1>15, WriteCounts
<1>16. CASE LeaseEnds(o)  BY <1>16, LeaseEndsCounts
<1>17. CASE RenewFails(o)
  <2>1. Dies(o) /\ UNCHANGED <<db, lock, master, mon, cmd>> /\ known' = [known EXCEPT ![o] = known[o]]
    BY <1>17, SameKnown DEF RenewFails, Others
  <2> QED BY <2>1, DiesCounts
<1> QED BY <1>1, <1>2, <1>3, <1>4, <1>5, <1>6, <1>7, <1>8, <1>9, <1>10, <1>11, <1>12, <1>13,
           <1>14, <1>15, <1>16, <1>17, Zenon DEF OsdNext

-----------------------------------------------------------------------------
(* The monitors *)
LEMMA ListLen ==
  ASSUME NEW n \in Nat, NEW f, f = [i \in 1..n |-> f[i]]
  PROVE  DOMAIN f = 1..n /\ Len(f) = n
<1>1. DOMAIN f = 1..n
  OBVIOUS
<1>2. f \in Seq({f[i] : i \in 1..n})
  OBVIOUS
<1> QED BY <1>1, <1>2

(* An OSD that holds a PG, or may take it at once, has the key. *)
LEMMA HasKey ==
  ASSUME KeysHeld, NEW o \in OSDs, NEW pg \in PGs, Holds(o, pg) \/ Armed(o, pg)
  PROVE  lock[pg] = o /\ o # None
<1>1. o # None
  BY OSDsAssumption DEF None
<1> QED BY <1>1 DEF KeysHeld, Held, Holds, Armed

LEMMA MonStep ==
  ASSUME CountInv, UNCHANGED <<osd, known, lock, loose, cmd>>, DbShape', MonShape',
         ~cmd.clobbers =>
           /\ \A o \in OSDs, pg \in PGs : Holds(o, pg) \/ Armed(o, pg) =>
                /\ Len(db'.items) = Len(db.items) /\ DOMAIN db'.items = DOMAIN db.items
                /\ \A m \in Monitors : ~SeesStopped(m)'
           /\ \A m \in Monitors : MonCounts(m)'
           /\ cmd.st = "none" => db'.count = Len(db'.items)
  PROVE  CountInv'
<1>1. CmdShape' /\ KnownShape'
  BY DEF CountInv, CmdShape, KnownShape, IsKnown, Runs, IsItems
<1>2. \A o \in OSDs : Fresh(o)'
  BY DEF CountInv, Fresh, Creates, Runs
<1>3. ASSUME ~cmd.clobbers, NEW o \in OSDs, NEW pg \in PGs
      PROVE  InCount(o, pg)'
  <2>1. (Holds(o, pg)' <=> Holds(o, pg)) /\ (Armed(o, pg)' <=> Armed(o, pg))
    BY DEF Holds, Armed, Take, Runs
  <2>2. InCount(o, pg)
    BY <1>3 DEF CountInv, Counts
  <2> QED BY <1>3, <2>1, <2>2 DEF InCount
<1> QED BY <1>1, <1>2, <1>3 DEF CountInv, Counts

(* A monitor copies etcd as it is. *)
LEMMA CopyStep ==
  ASSUME KeysHeld, CountInv, UNCHANGED <<osd, known, lock, loose, cmd, db>>, NEW m \in Monitors, NEW r,
         mon' = [mon EXCEPT ![m] = r], DOMAIN r = {"st", "pgs", "up", "hash", "news", "copy"},
         r.copy = AllKeys, Len(r.pgs) \in Nat,
         \/ master' = m /\ r.st = "idle"
         \/ master' = master /\ r.st = mon[m].st /\ r.pgs = mon[m].pgs
  PROVE  CountInv'
<1>1. mon'[m] = r /\ \A x \in Monitors : x # m => mon'[x] = mon[x]
  BY DEF CountInv, MonShape
<1>2. DbShape' /\ db.count \in Nat
  BY DEF CountInv, DbShape, IsItems
<1>3. r.copy.db = db /\ r.copy.lock = lock
  BY DEF AllKeys
<1>4. MonShape'
  BY <1>1, <1>2, <1>3 DEF CountInv, MonShape
<1>5. ASSUME ~cmd.clobbers, NEW o \in OSDs, NEW pg \in PGs, Holds(o, pg) \/ Armed(o, pg),
             NEW x \in Monitors, SeesStopped(x)'
      PROVE  FALSE
  <2>1. lock[pg] # None /\ pg \in DOMAIN db.items /\ ~SeesStopped(x)
    BY <1>5, HasKey DEF CountInv, Counts, InCount
  <2>2. CASE x = m
    BY <1>1, <1>3, <1>5, <2>1, <2>2 DEF SeesStopped
  <2>3. CASE x # m
    BY <1>1, <1>5, <2>1, <2>3 DEF SeesStopped
  <2> QED BY <2>2, <2>3
<1>6. ASSUME ~cmd.clobbers, NEW x \in Monitors
      PROVE  MonCounts(x)'
  <2>1. MonCounts(x)
    BY <1>6 DEF CountInv, Counts
  <2>2. CASE x = m
    BY <1>1, <1>3, <2>1, <2>2 DEF MonCounts
  <2>3. CASE x # m
    BY <1>1, <2>1, <2>3 DEF MonCounts, Differs
  <2> QED BY <2>2, <2>3
<1>7. ~cmd.clobbers /\ cmd.st = "none" => db.count = Len(db.items)
  BY DEF CountInv, Counts
<1> QED BY <1>2, <1>4, <1>5, <1>6, <1>7, MonStep

LEMMA NoMonShape ==
  /\ DOMAIN NoMon = {"st", "pgs", "up", "hash", "news", "copy"} /\ NoMon.st = "down"
  /\ NoMon.pgs = << >> /\ Len(NoMon.pgs) \in Nat
BY DEF NoMon

LEMMA BecomeMasterCounts ==
  ASSUME KeysHeld, CountInv, NEW m \in Monitors, BecomeMaster(m)
  PROVE  CountInv'
<1> DEFINE r == [NoMon EXCEPT !.st = "idle", !.copy = AllKeys]
<1>1. /\ mon' = [mon EXCEPT ![m] = r] /\ master' = m
      /\ UNCHANGED <<osd, known, lock, loose, cmd, db>>
  BY DEF BecomeMaster, MonOthers
<1>2. /\ DOMAIN r = {"st", "pgs", "up", "hash", "news", "copy"}
      /\ r.copy = AllKeys /\ Len(r.pgs) \in Nat /\ r.st = "idle"
  BY NoMonShape
<1> HIDE DEF r
<1> QED BY <1>1, <1>2, CopyStep

LEMMA MonWatchCounts ==
  ASSUME KeysHeld, CountInv, NEW m \in Monitors, MonWatch(m)
  PROVE  CountInv'
<1> DEFINE r == [mon[m] EXCEPT !.copy = AllKeys, !.news = TRUE]
<1>0. mon' = [mon EXCEPT ![m].copy = AllKeys, ![m].news = TRUE] /\ UNCHANGED <<MonOthers, db, lock, master>>
  BY DEF MonWatch
<1>1. /\ mon' = [mon EXCEPT ![m] = r] /\ master' = master
      /\ UNCHANGED <<osd, known, lock, loose, cmd, db>>
  BY <1>0 DEF MonOthers, CountInv, MonShape
<1>2. /\ DOMAIN r = {"st", "pgs", "up", "hash", "news", "copy"}
      /\ r.copy = AllKeys /\ Len(r.pgs) \in Nat /\ r.st = mon[m].st /\ r.pgs = mon[m].pgs
  BY DEF CountInv, MonShape
<1> HIDE DEF r
<1> QED BY <1>1, <1>2, CopyStep

(* A step that changes neither etcd nor the copy of the master. *)
LEMMA SameCopyStep ==
  ASSUME CountInv, UNCHANGED <<osd, known, lock, loose, cmd, db>>, MonShape',
         \A x \in Monitors : master' = x =>
           /\ master = x /\ mon'[x].copy = mon[x].copy
           /\ mon'[x].st \in {"apply", "wait"} =>
                \/ mon[x].st \in {"apply", "wait"} /\ mon'[x].pgs = mon[x].pgs
                \/ Len(mon'[x].pgs) = mon[x].copy.db.count
  PROVE  CountInv'
<1>1. DbShape'
  BY DEF CountInv, DbShape, IsItems
<1>2. \A x \in Monitors : SeesStopped(x)' => SeesStopped(x)
  BY DEF SeesStopped
<1>3. ASSUME ~cmd.clobbers, NEW x \in Monitors
      PROVE  MonCounts(x)'
  <2>1. MonCounts(x)
    BY <1>3 DEF CountInv, Counts
  <2> QED BY <2>1 DEF MonCounts, Differs
<1>4. ~cmd.clobbers => /\ \A o \in OSDs, pg \in PGs : Holds(o, pg) \/ Armed(o, pg) =>
                            \A x \in Monitors : ~SeesStopped(x)
                       /\ cmd.st = "none" => db.count = Len(db.items)
  BY DEF CountInv, Counts, InCount
<1> QED BY <1>1, <1>2, <1>3, <1>4, MonStep

LEMMA MasterExpiresCounts ==
  ASSUME CountInv, NEW m \in Monitors, MasterExpires(m)
  PROVE  CountInv'
<1>1. UNCHANGED <<osd, known, lock, loose, cmd, db, mon>> /\ master' = None
  BY DEF MasterExpires, MonOthers
<1>2. MonShape' /\ None \notin Monitors
  BY <1>1, MonitorsAssumption DEF CountInv, MonShape, None
<1> QED BY <1>1, <1>2, SameCopyStep

LEMMA MonDiesCounts ==
  ASSUME CountInv, NEW m \in Monitors, MonDies(m)
  PROVE  CountInv'
<1>1. UNCHANGED <<osd, known, lock, loose, cmd, db, master>> /\ mon' = [mon EXCEPT ![m] = NoMon] /\ master # m
  BY DEF MonDies, MonOthers
<1>2. mon'[m] = NoMon /\ \A x \in Monitors : x # m => mon'[x] = mon[x]
  BY <1>1 DEF CountInv, MonShape
<1>3. MonShape'
  BY <1>1, <1>2, NoMonShape DEF CountInv, MonShape
<1> QED BY <1>1, <1>2, <1>3, SameCopyStep

LEMMA OptimizeCounts ==
  ASSUME CountInv, NEW m \in Monitors, Optimize(m)
  PROVE  CountInv'
<1> DEFINE k == mon[m].copy
           r(pgs) == [st |-> "apply", pgs |-> pgs, up |-> UpIn(k), hash |-> TreeHash(k), news |-> FALSE, copy |-> k]
<1>1. PICK pgs \in generate_pool_pgs(k) : mon' = [mon EXCEPT ![m] = r(pgs)]
  BY DEF Optimize
<1>2. UNCHANGED <<osd, known, lock, loose, cmd, db, master>> /\ mon[m].st = "idle"
  BY DEF Optimize, MonOthers
<1>3. k.db.count \in Nat
  BY <1>2 DEF CountInv, MonShape
<1>4. Len(pgs) = k.db.count
  <2>1. PICK S : pgs \in [1..k.db.count -> S]
    BY <1>1 DEF generate_pool_pgs
  <2>2. pgs = [i \in 1..k.db.count |-> pgs[i]]
    BY <2>1
  <2>3. PICK n \in Nat : n = k.db.count
    BY <1>3
  <2>4. pgs = [i \in 1..n |-> pgs[i]]
    BY <2>2, <2>3
  <2>5. Len(pgs) = n
    BY <2>4, ListLen
  <2> QED BY <2>3, <2>5
<1>5. /\ DOMAIN r(pgs) = {"st", "pgs", "up", "hash", "news", "copy"}
      /\ r(pgs).pgs = pgs /\ r(pgs).copy = k
  OBVIOUS
<1> HIDE DEF r
<1>6. mon'[m] = r(pgs) /\ \A x \in Monitors : x # m => mon'[x] = mon[x]
  BY <1>1 DEF CountInv, MonShape
<1>7. MonShape'
  <2>1. mon' = [x \in Monitors |-> mon'[x]]
    BY <1>1 DEF CountInv, MonShape
  <2>2. \A x \in Monitors : x # m => /\ DOMAIN mon'[x] = {"st", "pgs", "up", "hash", "news", "copy"}
                                     /\ Len(mon'[x].pgs) \in Nat
                                     /\ mon'[x].st # "down" => mon'[x].copy.db.count \in Nat
    BY <1>6 DEF CountInv, MonShape
  <2>3. /\ DOMAIN mon'[m] = {"st", "pgs", "up", "hash", "news", "copy"}
        /\ Len(mon'[m].pgs) \in Nat /\ mon'[m].copy.db.count \in Nat
    BY <1>3, <1>4, <1>5, <1>6
  <2> QED BY <2>1, <2>2, <2>3 DEF MonShape
<1> QED BY <1>2, <1>4, <1>5, <1>6, <1>7, SameCopyStep

LEMMA TriesShape ==
  ASSUME CountInv, NEW m \in Monitors, mon[m].st # "down", NEW st, Tries(m, st)
  PROVE  /\ MonShape'
         /\ mon'[m].copy = mon[m].copy /\ mon'[m].pgs = mon[m].pgs /\ mon'[m].st = st
         /\ \A x \in Monitors : x # m => mon'[x] = mon[x]
<1> DEFINE r == [mon[m] EXCEPT !.st = st, !.news = FALSE]
<1>1. mon' = [mon EXCEPT ![m] = r]
  BY DEF Tries, CountInv, MonShape
<1>2. /\ DOMAIN r = {"st", "pgs", "up", "hash", "news", "copy"}
      /\ r.copy = mon[m].copy /\ r.pgs = mon[m].pgs /\ r.st = st
  BY DEF CountInv, MonShape
<1> HIDE DEF r
<1>3. mon'[m] = r /\ \A x \in Monitors : x # m => mon'[x] = mon[x]
  BY <1>1 DEF CountInv, MonShape
<1>4. mon' = [x \in Monitors |-> mon'[x]]
  BY <1>1 DEF CountInv, MonShape
<1>5. MonShape'
  BY <1>2, <1>3, <1>4 DEF CountInv, MonShape
<1> QED BY <1>2, <1>3, <1>5

(* The monitor waits or begins again. *)
LEMMA TriesCounts ==
  ASSUME CountInv, NEW m \in Monitors, mon[m].st \in {"apply", "wait"}, NEW st, Tries(m, st),
         UNCHANGED <<osd, known, lock, loose, cmd, db, master>>
  PROVE  CountInv'
<1>1. mon[m].st # "down"
  OBVIOUS
<1>2. /\ MonShape'
      /\ mon'[m].copy = mon[m].copy /\ mon'[m].pgs = mon[m].pgs
      /\ \A x \in Monitors : x # m => mon'[x] = mon[x]
  BY <1>1, TriesShape
<1> QED BY <1>2, SameCopyStep

(* The monitor changes the configuration from the one it knows to items. *)
LEMMA ChangesConfig ==
  ASSUME CountInv, NEW m \in Monitors, mon[m].st # "down", MayChange(m), NEW items, IsItems(items),
         UNCHANGED <<osd, known, lock, loose, cmd, master>>, DOMAIN db' = DOMAIN db,
         db'.items = items, db'.count = db.count,
         MonShape', mon'[m].copy = mon[m].copy, mon'[m].pgs = mon[m].pgs,
         ~cmd.clobbers =>
           /\ mon'[m].st = "idle" \/ mon[m].st = mon'[m].st \/ mon[m].st \in {"apply", "wait"}
           /\ Len(items) # Len(db.items) => mon'[m].st = "idle" /\ Len(items) = mon[m].copy.db.count
           /\ cmd.st = "none" => Len(items) = Len(db.items)
           /\ items = db.items \/ Differs(db.items, items)
           /\ \A o \in OSDs, pg \in PGs : Holds(o, pg) \/ Armed(o, pg) =>
                Len(items) = Len(db.items) /\ ~SeesStopped(m)'
  PROVE  CountInv'
<1>1. DbShape'
  BY DEF CountInv, DbShape, IsItems
<1>2. master = m /\ master' = m /\ mon[m].copy.db.items = db.items
  BY DEF MayChange
<1>3. \A x \in Monitors : SeesStopped(x)' => x = m
  BY <1>2 DEF SeesStopped
<1>4. ASSUME ~cmd.clobbers
      PROVE  /\ \A x \in Monitors : MonCounts(x)'
             /\ cmd.st = "none" => db'.count = Len(db'.items)
  <2>1. \A x \in Monitors : x # m => MonCounts(x)'
    BY <1>2 DEF MonCounts
  <2>2. /\ mon[m].copy.db.count \in {db.count, Len(db.items)}
        /\ mon[m].st \in {"apply", "wait"} => Len(mon[m].pgs) \in {mon[m].copy.db.count, Len(db.items)}
        /\ cmd.st = "none" => db.count = Len(db.items)
    BY <1>2, <1>4 DEF CountInv, Counts, MonCounts
  <2>3. mon'[m].copy.db.count \in {db'.count, Len(db'.items)}
    BY <1>4, <2>2
  <2>4. mon'[m].st \in {"apply", "wait"} => Len(mon'[m].pgs) \in {mon'[m].copy.db.count, Len(db'.items)}
    BY <1>4, <2>2
  <2>5. db'.items = mon'[m].copy.db.items \/ Differs(mon'[m].copy.db.items, db'.items)
    BY <1>2, <1>4 DEF Differs
  <2>6. MonCounts(m)'
    BY <2>3, <2>4, <2>5 DEF MonCounts, Differs
  <2>7. cmd.st = "none" => db'.count = Len(db'.items)
    BY <1>4, <2>2
  <2> QED BY <2>1, <2>6, <2>7
<1>5. DOMAIN items = 1..Len(items) /\ DOMAIN db.items = 1..Len(db.items)
  BY DEF CountInv, DbShape, IsItems
<1>6. ~cmd.clobbers => \A o \in OSDs, pg \in PGs : Holds(o, pg) \/ Armed(o, pg) =>
         /\ Len(db'.items) = Len(db.items) /\ DOMAIN db'.items = DOMAIN db.items
         /\ \A x \in Monitors : ~SeesStopped(x)'
  BY <1>3, <1>5
<1> QED BY <1>1, <1>4, <1>6, MonStep

LEMMA PauseCounts ==
  ASSUME CountInv, NEW m \in Monitors, mon[m].st \in {"apply", "wait"}, PausePGs(m),
         \E pg \in DOMAIN mon[m].copy.db.items : ~mon[m].copy.db.items[pg].pause,
         UNCHANGED <<osd, known, lock, loose, cmd, master>>
  PROVE  CountInv'
<1>1. mon[m].st # "down" /\ Tries(m, "wait")
  BY DEF PausePGs
<1>2. CASE db' = db
  BY <1>1, <1>2, TriesCounts
<1>3. CASE MayChange(m) /\ db' = [db EXCEPT !.items = Paused(@)]
  <2>1. PICK items : items = Paused(db.items)
    OBVIOUS
  <2>2. IsItems(db.items) /\ "items" \in DOMAIN db
    BY DEF CountInv, DbShape
  <2>3. items = [pg \in 1..Len(db.items) |-> [db.items[pg] EXCEPT !.pause = TRUE]]
    BY <2>1, <2>2 DEF Paused, IsItems
  <2>4. PICK n \in Nat : n = Len(db.items)
    BY <2>2 DEF IsItems
  <2>5. Len(items) = n
    BY <2>3, <2>4, ListLen
  <2>6. \A pg \in 1..n : items[pg] = [set |-> db.items[pg].set, primary |-> db.items[pg].primary, pause |-> TRUE]
    <3> SUFFICES ASSUME NEW pg \in 1..n
                 PROVE  items[pg] = [set |-> db.items[pg].set, primary |-> db.items[pg].primary, pause |-> TRUE]
      OBVIOUS
    <3>1. PICK x : x = db.items[pg]
      OBVIOUS
    <3>2. x = [set |-> x.set, primary |-> x.primary, pause |-> x.pause]
      BY <2>2, <2>4, <3>1 DEF IsItems
    <3>3. items[pg] = [x EXCEPT !.pause = TRUE]
      BY <2>3, <2>4, <3>1
    <3>4. \A b : [x EXCEPT !.pause = b] = [set |-> x.set, primary |-> x.primary, pause |-> b]
      BY <3>2
    <3> QED BY <3>1, <3>3, <3>4
  <2>7. IsItems(items)
    BY <2>3, <2>4, <2>5, <2>6 DEF IsItems
  <2>8. db'.items = items /\ db'.count = db.count /\ DOMAIN db' = DOMAIN db
    BY <1>3, <2>1 DEF CountInv, DbShape
  <2>9. mon[m].copy.db.items = db.items
    BY <1>3 DEF MayChange
  <2>10. Differs(db.items, items)
    BY <2>9 DEF Differs
  <2>11. /\ MonShape' /\ mon'[m].copy = mon[m].copy /\ mon'[m].pgs = mon[m].pgs
    BY <1>1, TriesShape
  <2>12. ~SeesStopped(m)'
    BY <2>9, <2>11 DEF SeesStopped
  <2> QED BY <1>1, <1>3, <2>4, <2>5, <2>7, <2>8, <2>10, <2>11, <2>12, ChangesConfig
<1> QED BY <1>2, <1>3 DEF PausePGs

(* save_new_pgs_txn.  Either the number of PGs stays, or everybody has     *)
(* stopped.                                                                *)
LEMMA NewPGsCounts ==
  ASSUME CountInv, NEW m \in Monitors, mon[m].st \in {"apply", "wait"}, NewPGs(m),
         ~(/\ mon[m].copy.db.count # Len(mon[m].copy.db.items)
           /\ \E pg \in DOMAIN mon[m].copy.db.items : ~mon[m].copy.db.items[pg].pause),
         MayScale(mon[m].copy),
         UNCHANGED <<osd, known, lock, loose, cmd, master>>
  PROVE  CountInv'
<1> DEFINE k == mon[m].copy
           pgs == mon[m].pgs
           all == 1..Len(pgs) \union DOMAIN k.db.items
           Pick(pg) == pick_primary(pg, pgs[pg], mon[m].up)
           items == [pg \in 1..Len(pgs) |-> Item(pgs[pg], Pick(pg))]
           hist == [pg \in PGs |->
                      IF pg \notin all THEN db.hist[pg]
                      ELSE PutHist(db.hist[pg], IF pg > Len(pgs) THEN NoHist ELSE NewHist(k, pgs, pg))]
<1>1. mon[m].st # "down"
  OBVIOUS
<1>2. \/ Tries(m, "wait") /\ db' = db
      \/ /\ MayChange(m) /\ Tries(m, "idle")
         /\ db' = [db EXCEPT !.items = items, !.hash = mon[m].hash, !.hist = hist]
  BY DEF NewPGs
<1>3. CASE Tries(m, "wait") /\ db' = db
  BY <1>3, TriesCounts
<1>4. CASE /\ MayChange(m) /\ Tries(m, "idle")
           /\ db' = [db EXCEPT !.items = items, !.hash = mon[m].hash, !.hist = hist]
  <2>1. PICK n \in Nat : n = Len(pgs)
    BY DEF CountInv, MonShape
  <2>2. /\ items = [pg \in 1..n |-> items[pg]] 
        /\ \A pg \in 1..n : items[pg] = [set |-> pgs[pg], primary |-> Pick(pg), pause |-> FALSE]
    <3> HIDE DEF Pick
    <3> QED BY <2>1 DEF Item
  <2> HIDE DEF items, hist
  <2>3. Len(items) = n
    BY <2>2, ListLen
  <2>4. IsItems(items)
    <3>1. \A pg \in 1..n : items[pg] = [set |-> items[pg].set, primary |-> items[pg].primary, pause |-> items[pg].pause]
      BY <2>2
    <3> QED BY <2>2, <2>3, <3>1 DEF IsItems
  <2>5. db'.items = items /\ db'.count = db.count /\ DOMAIN db' = DOMAIN db
    BY <1>4 DEF CountInv, DbShape
  <2>6. /\ MonShape' /\ mon'[m].copy = mon[m].copy /\ mon'[m].pgs = mon[m].pgs /\ mon'[m].st = "idle"
    BY <1>1, <1>4, TriesShape
  <2>7. mon[m].copy.db.items = db.items /\ master = m
    BY <1>4 DEF MayChange
  <2>8. items = db.items \/ Differs(db.items, items)
    <3>1. DOMAIN items = 1..n /\ db.items = [pg \in DOMAIN db.items |-> db.items[pg]]
      BY <2>2 DEF CountInv, DbShape, IsItems
    <3>2. CASE DOMAIN db.items # DOMAIN items
      BY <3>2 DEF Differs
    <3>3. CASE DOMAIN db.items = DOMAIN items
      <4>1. CASE \E pg \in DOMAIN db.items : TRUE
        BY <2>2, <3>1, <3>3, <4>1 DEF Differs
      <4>2. CASE ~\E pg \in DOMAIN db.items : TRUE
        <5>1. items = [pg \in {} |-> items[pg]] /\ db.items = [pg \in {} |-> db.items[pg]]
          BY <2>2, <3>1, <3>3, <4>2
        <5> QED BY <5>1
      <4> QED BY <4>1, <4>2
    <3> QED BY <3>2, <3>3
  <2>9. ASSUME ~cmd.clobbers
        PROVE  /\ Len(items) # Len(db.items) => Len(items) = k.db.count
               /\ cmd.st = "none" => Len(items) = Len(db.items)
    BY <2>1, <2>3, <2>7, <2>9 DEF CountInv, Counts, MonCounts
  <2>10. ASSUME ~cmd.clobbers, NEW o \in OSDs, NEW pg \in PGs, Holds(o, pg) \/ Armed(o, pg)
         PROVE  Len(items) = Len(db.items) /\ ~SeesStopped(m)'
    <3>1. pg \in DOMAIN db.items /\ ~SeesStopped(m)
      BY <2>10 DEF CountInv, Counts, InCount
    <3>2. k.db.count = Len(db.items)
      <4>1. SUFFICES ASSUME k.db.count # Len(db.items) PROVE FALSE
        OBVIOUS
      <4>2. \A x \in DOMAIN db.items : db.items[x].pause /\ k.lock[x] = None
        BY <2>7, <4>1 DEF MayScale
      <4> QED BY <2>7, <3>1, <4>2 DEF SeesStopped
    <3>3. Len(items) = Len(db.items)
      BY <2>9, <2>10, <3>2
    <3>4. DOMAIN items = 1..n /\ DOMAIN db.items = 1..n
      BY <2>2, <2>3, <3>3 DEF CountInv, DbShape, IsItems
    <3>5. ~SeesStopped(m)'
      BY <2>2, <2>5, <3>1, <3>4 DEF SeesStopped
    <3> QED BY <3>3, <3>5
  <2> HIDE DEF k
  <2> QED BY <1>1, <1>4, <2>4, <2>5, <2>6, <2>8, <2>9, <2>10, ChangesConfig DEF k
<1> QED BY <1>2, <1>3, <1>4

LEMMA PoolCounts ==
  ASSUME CountInv, NEW m \in Monitors, mon[m].st \in {"apply", "wait"}, apply_pool_pgs(m),
         UNCHANGED <<osd, known, lock, loose, cmd, master>>
  PROVE  CountInv'
<1> DEFINE k == mon[m].copy
           stop == k.db.count # Len(k.db.items) /\ \E pg \in DOMAIN k.db.items : ~k.db.items[pg].pause
<1>1. CASE stop
  <2>1. PausePGs(m)
    BY <1>1 DEF apply_pool_pgs
  <2> QED BY <1>1, <2>1, PauseCounts
<1>2. CASE ~stop /\ MayScale(k)
  <2>1. NewPGs(m)
    BY <1>2 DEF apply_pool_pgs
  <2> QED BY <1>2, <2>1, NewPGsCounts
<1>3. CASE ~stop /\ ~MayScale(k)
  <2>1. Tries(m, "wait") /\ db' = db
    BY <1>3 DEF apply_pool_pgs
  <2> QED BY <2>1, TriesCounts
<1> QED BY <1>1, <1>2, <1>3

LEMMA ApplyCounts ==
  ASSUME CountInv, NEW m \in Monitors, Apply(m)
  PROVE  CountInv'
BY PoolCounts DEF Apply, MonOthers

LEMMA RetryCounts ==
  ASSUME CountInv, NEW m \in Monitors, Retry(m)
  PROVE  CountInv'
<1>1. UNCHANGED <<osd, known, lock, loose, cmd, master>> /\ mon[m].st = "wait"
  BY DEF Retry, MonOthers
<1>2. apply_pool_pgs(m) \/ (mon' = [mon EXCEPT ![m].st = "idle"] /\ db' = db)
  BY DEF Retry
<1>3. CASE apply_pool_pgs(m)
  BY <1>1, <1>3, PoolCounts
<1>4. CASE mon' = [mon EXCEPT ![m].st = "idle"] /\ db' = db
  <2> DEFINE r == [mon[m] EXCEPT !.st = "idle"]
  <2>1. mon' = [mon EXCEPT ![m] = r]
    BY <1>4 DEF CountInv, MonShape
  <2>2. /\ DOMAIN r = {"st", "pgs", "up", "hash", "news", "copy"}
        /\ r.copy = mon[m].copy /\ r.pgs = mon[m].pgs /\ r.st = "idle"
    BY DEF CountInv, MonShape
  <2> HIDE DEF r
  <2>3. mon'[m] = r /\ \A x \in Monitors : x # m => mon'[x] = mon[x]
    BY <2>1 DEF CountInv, MonShape
  <2>4. mon' = [x \in Monitors |-> mon'[x]]
    BY <2>1 DEF CountInv, MonShape
  <2>5. MonShape'
    BY <1>1, <2>2, <2>3, <2>4 DEF CountInv, MonShape
  <2> QED BY <1>1, <1>4, <2>2, <2>3, <2>5, SameCopyStep
<1> QED BY <1>2, <1>3, <1>4

LEMMA MovePrimaryCounts ==
  ASSUME CountInv, NEW m \in Monitors, MovePrimary(m)
  PROVE  CountInv'
<1> DEFINE k == mon[m].copy
           Pick(pg) == pick_primary(pg, k.db.items[pg].set, UpIn(k))
           items == [pg \in DOMAIN k.db.items |->
                       IF pg > k.db.count THEN k.db.items[pg]
                       ELSE [k.db.items[pg] EXCEPT !.primary = Pick(pg)]]
<1>1. /\ mon[m].st = "idle" /\ items # k.db.items /\ MayChange(m)
      /\ db' = [db EXCEPT !.items = items]
      /\ UNCHANGED <<osd, known, lock, loose, cmd, master, mon>>
  BY DEF MovePrimary, MonOthers
<1>2. IsItems(db.items) /\ k.db.items = db.items
  BY <1>1 DEF CountInv, DbShape, MayChange
<1>3. PICK n \in Nat : n = Len(db.items)
  BY <1>2 DEF IsItems
<1>4. ASSUME NEW pg \in 1..n
      PROVE  /\ items[pg] = [set |-> items[pg].set, primary |-> items[pg].primary, pause |-> items[pg].pause]
             /\ items[pg].primary = db.items[pg].primary => items[pg] = db.items[pg]
  <2>1. PICK x : x = db.items[pg]
    OBVIOUS
  <2>2. x = [set |-> x.set, primary |-> x.primary, pause |-> x.pause]
    BY <1>2, <1>3, <2>1 DEF IsItems
  <2>3. DOMAIN db.items = 1..n
    BY <1>2, <1>3 DEF IsItems
  <2>4. items[pg] = x \/ items[pg] = [x EXCEPT !.primary = Pick(pg)]
    BY <1>2, <2>1, <2>3
  <2>5. PICK y : y = [x EXCEPT !.primary = Pick(pg)]
    OBVIOUS
  <2>6. y = [set |-> x.set, primary |-> Pick(pg), pause |-> x.pause]
    <3> HIDE DEF Pick
    <3> QED BY <2>2, <2>5
  <2>7. /\ y = [set |-> y.set, primary |-> y.primary, pause |-> y.pause]
        /\ y.primary = x.primary => y = x
    <3> HIDE DEF Pick
    <3> QED BY <2>2, <2>6
  <2> HIDE DEF items
  <2> QED BY <2>1, <2>2, <2>4, <2>5, <2>7
<1>5. items = [pg \in 1..n |-> items[pg]]
  BY <1>2, <1>3 DEF IsItems
<1> HIDE DEF items
<1>6. Len(items) = n /\ IsItems(items)
  <2>1. Len(items) = n
    BY <1>5, ListLen
  <2> QED BY <1>4, <1>5, <2>1 DEF IsItems
<1>7. Differs(db.items, items)
  <2>1. SUFFICES ASSUME ~Differs(db.items, items) PROVE FALSE
    OBVIOUS
  <2>2. db.items = [pg \in 1..n |-> db.items[pg]]
    BY <1>2, <1>3 DEF IsItems
  <2>3. DOMAIN db.items = 1..n
    BY <2>2
  <2>4. \A pg \in 1..n : items[pg] = db.items[pg]
    BY <1>4, <2>1, <2>3 DEF Differs
  <2> QED BY <1>1, <1>2, <1>5, <2>2, <2>4
<1>8. db'.items = items /\ db'.count = db.count /\ DOMAIN db' = DOMAIN db
  BY <1>1 DEF CountInv, DbShape
<1>9. MonShape' /\ mon'[m] = mon[m]
  BY <1>1 DEF CountInv, MonShape
<1>10. ~SeesStopped(m)'
  BY <1>1, <1>8, <1>9 DEF SeesStopped
<1> HIDE DEF k
<1> QED BY <1>1, <1>3, <1>6, <1>7, <1>8, <1>9, <1>10, ChangesConfig

LEMMA MonCountsKept ==
  ASSUME KeysHeld, CountInv, NEW m \in Monitors, MonNext(m)
  PROVE  CountInv'
BY BecomeMasterCounts, MonWatchCounts, MasterExpiresCounts, MonDiesCounts, OptimizeCounts, ApplyCounts,
   RetryCounts, MovePrimaryCounts, Zenon DEF MonNext

-----------------------------------------------------------------------------
(* The commands *)
LEMMA CmdStep ==
  ASSUME CountInv, UNCHANGED <<osd, known, lock, loose, mon, master>>, DbShape', CmdShape',
         cmd'.clobbers \/ ~cmd.clobbers, Len(db'.items) = Len(db.items),
         ~cmd'.clobbers =>
           /\ \A m \in Monitors : SeesStopped(m)' => SeesStopped(m)
           /\ \A m \in Monitors : MonCounts(m)'
           /\ cmd'.st = "none" => db'.count = Len(db'.items)
  PROVE  CountInv'
<1>1. MonShape' /\ KnownShape'
  BY DEF CountInv, MonShape, KnownShape, IsKnown, Runs
<1>2. \A o \in OSDs : Fresh(o)'
  BY DEF CountInv, Fresh, Creates, Runs
<1>3. DOMAIN db'.items = DOMAIN db.items
  BY DEF CountInv, DbShape, IsItems
<1>4. ASSUME ~cmd'.clobbers, NEW o \in OSDs, NEW pg \in PGs
      PROVE  InCount(o, pg)'
  <2>1. (Holds(o, pg)' <=> Holds(o, pg)) /\ (Armed(o, pg)' <=> Armed(o, pg))
    BY DEF Holds, Armed, Take, Runs
  <2>2. InCount(o, pg)
    BY <1>4 DEF CountInv, Counts
  <2> QED BY <1>3, <1>4, <2>1, <2>2 DEF InCount
<1> QED BY <1>1, <1>2, <1>4 DEF CountInv, Counts

(* rm-osd has put an old configuration back. *)
LEMMA ClobberStep ==
  ASSUME CountInv, UNCHANGED <<osd, known, lock, loose, mon, master>>, DbShape', CmdShape', cmd'.clobbers
  PROVE  CountInv'
<1>1. MonShape' /\ KnownShape'
  BY DEF CountInv, MonShape, KnownShape, IsKnown, Runs
<1>2. \A o \in OSDs : Fresh(o)'
  BY DEF CountInv, Fresh, Creates, Runs
<1> QED BY <1>1, <1>2 DEF CountInv

(* A step of a command that changes neither the PGs nor their number. *)
LEMMA CmdQuiet ==
  ASSUME CountInv, UNCHANGED <<osd, known, lock, loose, mon, master>>, CmdShape',
         db'.items = db.items, db'.count = db.count, DOMAIN db' = DOMAIN db, cmd'.clobbers = cmd.clobbers,
         cmd'.st # "none", cmd'.st \in {"read", "keys"} => cmd.st \in {"none", "read", "keys"}
  PROVE  CountInv'
<1>1. DbShape'
  BY DEF CountInv, DbShape, IsItems
<1>2. \A m \in Monitors : SeesStopped(m)' => SeesStopped(m)
  BY DEF SeesStopped
<1>3. ASSUME ~cmd'.clobbers, NEW m \in Monitors
      PROVE  MonCounts(m)'
  <2>1. MonCounts(m)
    BY <1>3 DEF CountInv, Counts
  <2> QED BY <2>1 DEF MonCounts, Differs
<1> QED BY <1>1, <1>2, <1>3, CmdStep

LEMMA SetCountCounts ==
  ASSUME CountInv, setup \in Setups, SetCount
  PROVE  CountInv'
<1>1. /\ cmd.st = "none" /\ db' = [db EXCEPT !.count = setup.count] /\ cmd' = [cmd EXCEPT !.st = "done"]
      /\ UNCHANGED <<osd, known, lock, loose, mon, master>>
  BY DEF SetCount, CmdOthers
<1>2. setup.count \in Nat
  BY SetupsAssumption
<1>3. db'.items = db.items /\ DOMAIN db' = DOMAIN db /\ db'.count = setup.count
  BY <1>1 DEF CountInv, DbShape
<1>4. DbShape'
  BY <1>2, <1>3 DEF CountInv, DbShape, IsItems
<1>5. DOMAIN cmd' = DOMAIN cmd /\ cmd'.st = "done" /\ cmd'.clobbers = cmd.clobbers /\ ~cmd.clobbers
  BY <1>1 DEF CountInv, CmdShape
<1>6. CmdShape'
  BY <1>5 DEF CountInv, CmdShape
<1>7. \A m \in Monitors : SeesStopped(m)' => SeesStopped(m)
  BY <1>1, <1>3 DEF SeesStopped
<1>8. ASSUME NEW m \in Monitors
      PROVE  MonCounts(m)'
  <2>1. MonCounts(m) /\ db.count = Len(db.items)
    BY <1>1, <1>5 DEF CountInv, Counts
  <2> QED BY <1>1, <1>3, <1>5, <2>1 DEF MonCounts
<1> QED BY <1>1, <1>3, <1>4, <1>5, <1>6, <1>7, <1>8, CmdStep

LEMMA RmCheckCounts ==
  ASSUME CountInv, RmCheck
  PROVE  CountInv'
<1>1. PICK st \in {"done", "read"} : cmd' = [cmd EXCEPT !.hist = db.hist, !.base = db.hist, !.st = st]
  BY DEF RmCheck
<1>2. UNCHANGED <<osd, known, lock, loose, mon, master, db>> /\ cmd.st = "none"
  BY DEF RmCheck, CmdOthers
<1>3. DOMAIN cmd' = DOMAIN cmd /\ cmd'.st = st /\ cmd'.clobbers = cmd.clobbers
  BY <1>1 DEF CountInv, CmdShape
<1>4. CmdShape'
  BY <1>2, <1>3 DEF CountInv, CmdShape
<1> QED BY <1>2, <1>3, <1>4, CmdQuiet

LEMMA RmReadCounts ==
  ASSUME CountInv, RmRead
  PROVE  CountInv'
<1>1. /\ cmd' = [cmd EXCEPT !.st = "keys", !.items = db.items, !.hash = db.hash]
      /\ UNCHANGED <<osd, known, lock, loose, mon, master, db>> /\ cmd.st = "read"
  BY DEF RmRead, CmdOthers
<1>2. DOMAIN cmd' = DOMAIN cmd /\ cmd'.st = "keys" /\ cmd'.clobbers = cmd.clobbers /\ cmd'.items = db.items
  BY <1>1 DEF CountInv, CmdShape
<1>3. CmdShape'
  BY <1>1, <1>2 DEF CountInv, CmdShape, DbShape, IsItems
<1> QED BY <1>1, <1>2, <1>3, CmdQuiet

LEMMA CmdWatchCounts ==
  ASSUME CountInv, CmdWatch
  PROVE  CountInv'
<1>1. PICK h : cmd' = [cmd EXCEPT !.base = db.hist, !.hist = h]
  BY DEF CmdWatch
<1>2. UNCHANGED <<osd, known, lock, loose, mon, master, db>> /\ cmd.st = "hist"
  BY DEF CmdWatch, CmdOthers
<1>3. DOMAIN cmd' = DOMAIN cmd /\ cmd'.st = "hist" /\ cmd'.clobbers = cmd.clobbers
  BY <1>1, <1>2 DEF CountInv, CmdShape
<1>4. CmdShape'
  BY <1>3 DEF CountInv, CmdShape
<1> QED BY <1>2, <1>3, <1>4, CmdQuiet

LEMMA RmHistoryCounts ==
  ASSUME CountInv, RmHistory
  PROVE  CountInv'
<1>. PICK st \in {"done", "hist"} : \E h : cmd' = [cmd EXCEPT !.st = st, !.hist = h]
  BY DEF RmHistory
<1>1. PICK h : cmd' = [cmd EXCEPT !.st = st, !.hist = h]
  OBVIOUS
<1>2. db' = db \/ \E h2 : db' = [db EXCEPT !.hist = h2]
  BY DEF RmHistory
<1>3. UNCHANGED <<osd, known, lock, loose, mon, master>>
  BY DEF RmHistory, CmdOthers
<1>4. db'.items = db.items /\ db'.count = db.count /\ DOMAIN db' = DOMAIN db
  BY <1>2 DEF CountInv, DbShape
<1>5. DOMAIN cmd' = DOMAIN cmd /\ cmd'.st = st /\ cmd'.clobbers = cmd.clobbers
  BY <1>1 DEF CountInv, CmdShape
<1>6. CmdShape'
  BY <1>5 DEF CountInv, CmdShape
<1> QED BY <1>3, <1>4, <1>5, <1>6, CmdQuiet

(* rm-osd takes the OSD out of the sets and changes nothing else, as long  *)
(* as nobody has changed the configuration since it was read.              *)
LEMMA RmKeysCounts ==
  ASSUME CountInv, RmKeys
  PROVE  CountInv'
<1> DEFINE Cut(pg) == cmd.items[pg].set \ {setup.rm}
           items == [pg \in DOMAIN cmd.items |-> [cmd.items[pg] EXCEPT !.set = @ \ {setup.rm}]]
           clash == <<db.items, db.hash>> # <<cmd.items, cmd.hash>>
<1>1. /\ cmd.st = "keys" /\ UNCHANGED <<osd, known, lock, loose, mon, master>>
      /\ db' = [db EXCEPT !.up[setup.rm] = 0, !.stats = @ \ {setup.rm}, !.hash = cmd.hash, !.items = items]
      /\ cmd' = [cmd EXCEPT !.st = "hist", !.clobbers = clash]
  BY DEF RmKeys, CmdOthers
<1>2. IsItems(cmd.items) /\ ~cmd.clobbers
  BY <1>1 DEF CountInv, CmdShape
<1>3. PICK n \in Nat : n = Len(cmd.items)
  BY <1>2 DEF IsItems
<1>4. DOMAIN cmd.items = 1..n
  BY <1>2, <1>3 DEF IsItems
<1>5. ASSUME NEW pg \in 1..n
      PROVE  /\ items[pg] = [set |-> items[pg].set, primary |-> items[pg].primary, pause |-> items[pg].pause]
             /\ items[pg].primary = cmd.items[pg].primary /\ items[pg].pause = cmd.items[pg].pause
  <2>1. PICK x : x = cmd.items[pg]
    OBVIOUS
  <2>2. x = [set |-> x.set, primary |-> x.primary, pause |-> x.pause]
    BY <1>2, <1>3, <2>1 DEF IsItems
  <2>3. PICK c : c = x.set \ {setup.rm}
    OBVIOUS
  <2>4. PICK y : y = items[pg]
    OBVIOUS
  <2>5. y = [x EXCEPT !.set = c]
    BY <1>4, <2>1, <2>3, <2>4
  <2>6. y = [set |-> c, primary |-> x.primary, pause |-> x.pause]
    BY <2>2, <2>5
  <2> HIDE DEF items
  <2> QED BY <2>1, <2>4, <2>6
<1>6. items = [pg \in 1..n |-> items[pg]]
  BY <1>4
<1> HIDE DEF items, clash
<1>7. Len(items) = n /\ IsItems(items)
  <2>1. Len(items) = n
    BY <1>6, ListLen
  <2> QED BY <1>5, <1>6, <2>1 DEF IsItems
<1>8. db'.items = items /\ db'.count = db.count /\ DOMAIN db' = DOMAIN db
  BY <1>1 DEF CountInv, DbShape
<1>9. DbShape'
  BY <1>7, <1>8 DEF CountInv, DbShape
<1>10. DOMAIN cmd' = DOMAIN cmd /\ cmd'.st = "hist" /\ cmd'.clobbers = clash
  BY <1>1 DEF CountInv, CmdShape
<1>11. CmdShape'
  BY <1>10 DEF CountInv, CmdShape
<1>12. CASE clash
  BY <1>1, <1>2, <1>10, <1>12, ClobberStep, <1>9, <1>11
<1>13. CASE ~clash
  <2>1. db.items = cmd.items /\ ~cmd'.clobbers
    BY <1>10, <1>13 DEF clash
  <2>2. ASSUME NEW m \in Monitors, SeesStopped(m)'
        PROVE  SeesStopped(m)
    <3>1. /\ master = m /\ items = mon[m].copy.db.items
          /\ \A pg \in 1..n : items[pg].pause /\ mon[m].copy.lock[pg] = None
      BY <1>1, <1>6, <1>8, <2>2 DEF SeesStopped
    <3>2. ~Differs(items, db.items)
      BY <1>4, <1>5, <1>6, <2>1, <3>1 DEF Differs
    <3>3. db.items = items
      BY <1>1, <1>2, <3>1, <3>2 DEF CountInv, Counts, MonCounts
    <3> QED BY <1>6, <3>1, <3>3 DEF SeesStopped
  <2>3. ASSUME NEW m \in Monitors
        PROVE  MonCounts(m)'
    <3>1. MonCounts(m)
      BY <1>2 DEF CountInv, Counts
    <3> QED BY <1>1, <1>3, <1>7, <1>8, <1>10, <2>1, <3>1 DEF MonCounts
  <2>4. Len(db'.items) = Len(db.items) /\ cmd'.st # "none"
    BY <1>3, <1>7, <1>8, <1>10, <2>1
  <2> QED BY <1>1, <1>2, <1>9, <1>11, <2>2, <2>3, <2>4, CmdStep
<1> QED BY <1>12, <1>13

LEMMA CmdCounts ==
  ASSUME CountInv, setup \in Setups, CmdNext
  PROVE  CountInv'
BY SetCountCounts, RmCheckCounts, RmReadCounts, RmKeysCounts, CmdWatchCounts, RmHistoryCounts, Zenon DEF CmdNext

-----------------------------------------------------------------------------
LEMMA InitConfig ==
  ASSUME Init
  PROVE  /\ DbShape /\ db.count = Len(db.items) /\ DOMAIN db.items = DOMAIN setup.sets
         /\ \A pg \in DOMAIN db.items : ~db.items[pg].pause
<1> DEFINE n == Len(setup.sets)
           items == [pg \in 1..n |-> Item(setup.sets[pg], pick_primary(pg, setup.sets[pg], OSDs \ setup.down))]
<1>1. n \in Nat /\ DOMAIN setup.sets = 1..n
  <2>1. setup \in Setups
    BY DEF Init
  <2>2. PICK sets : sets = setup.sets
    OBVIOUS
  <2>3. sets \in Seq(SUBSET OSDs)
    BY <2>1, <2>2, SetupsAssumption
  <2> QED BY <2>2, <2>3
<1>2. /\ DOMAIN db = {"count", "items", "hash", "hist", "up", "stats"}
      /\ db.count = n /\ db.items = items
  BY DEF Init, EtcdInit
<1> HIDE DEF n
<1>3. \A pg \in 1..n :
        /\ items[pg] = [set |-> items[pg].set, primary |-> items[pg].primary, pause |-> items[pg].pause]
        /\ ~items[pg].pause
  BY DEF Item
<1>4. items = [pg \in 1..n |-> items[pg]]
  OBVIOUS
<1> HIDE DEF items
<1>5. DOMAIN items = 1..n /\ Len(items) = n
  BY <1>1, <1>4, ListLen
<1> QED BY <1>1, <1>2, <1>3, <1>4, <1>5 DEF DbShape, IsItems

LEMMA InitOsds ==
  ASSUME Init, NEW o \in OSDs
  PROVE  /\ osd[o].rep = {}
         /\ Runs(o) => osd[o].count = Len(db.items) /\ IsKnown(known[o]) /\ osd[o].count = known[o].count
         /\ \A pg \in PGs : /\ osd[o].pgs[pg].st # "starting"
                            /\ osd[o].pgs[pg].st \in Live => lock[pg] = o /\ Runs(o)
<1> DEFINE pgs == [pg \in PGs |-> IF lock[pg] = o THEN InitialPG(setup.sets[pg]) ELSE NoPG]
           run == [NoOSD EXCEPT !.st = "run", !.count = Len(db.items), !.lease = TRUE, !.pgs = pgs]
<1>1. CASE o \in setup.down
  <2>1. osd[o] = NoOSD
    BY <1>1 DEF Init
  <2>2. NoOSD.st = "down"
    BY DEF NoOSD
  <2> QED BY <2>1, <2>2, NoOSDShape, NoPGShape DEF Runs, Live
<1>2. CASE o \notin setup.down
  <2>1. osd[o] = run /\ known[o] = PgKeys(o)
    BY <1>2 DEF Init
  <2>2. \A pg \in PGs : /\ pgs[pg].st # "starting"
                        /\ pgs[pg].st \in Live => lock[pg] = o
    BY NoPGShape DEF InitialPG, IsPG, Live
  <2> HIDE DEF pgs
  <2>3. run.st = "run" /\ run.count = Len(db.items) /\ run.pgs = pgs /\ run.rep = {}
    BY NoOSDShape DEF IsOSD
  <2> HIDE DEF run
  <2>4. IsKnown(PgKeys(o)) /\ PgKeys(o).count = Len(db.items)
    BY PgKeysNew DEF NewCopy
  <2> QED BY <2>1, <2>2, <2>3, <2>4 DEF Runs
<1> QED BY <1>1, <1>2

LEMMA InitMons ==
  ASSUME Init
  PROVE  MonShape /\ \A m \in Monitors : MonCounts(m)
<1> DEFINE new == [NoMon EXCEPT !.st = "idle", !.copy = AllKeys]
<1>1. mon = [m \in Monitors |-> IF m = master THEN new ELSE NoMon]
  BY DEF Init
<1>2. /\ DOMAIN new = {"st", "pgs", "up", "hash", "news", "copy"}
      /\ new.st = "idle" /\ Len(new.pgs) \in Nat /\ new.copy.db = db
  BY DEF NoMon, AllKeys
<1>3. /\ DOMAIN NoMon = {"st", "pgs", "up", "hash", "news", "copy"}
      /\ NoMon.st = "down" /\ Len(NoMon.pgs) \in Nat
  BY DEF NoMon
<1> HIDE DEF new
<1>4. db.count \in Nat
  BY InitConfig DEF DbShape
<1>5. MonShape
  BY <1>1, <1>2, <1>3, <1>4 DEF MonShape
<1>6. \A m \in Monitors : master = m => mon[m] = new
  BY <1>1
<1> QED BY <1>2, <1>5, <1>6 DEF MonCounts

LEMMA InitCounts == Init => CountInv
<1> SUFFICES ASSUME Init PROVE CountInv
  OBVIOUS
<1>1. DOMAIN cmd = {"st", "items", "hash", "hist", "base", "clobbers"} /\ cmd.st = "none" /\ ~cmd.clobbers
  BY DEF Init, NoCmd
<1>2. CmdShape
  BY <1>1 DEF CmdShape
<1>3. known = [o \in OSDs |-> known[o]]
  BY DEF Init
<1>4. KnownShape
  BY <1>3, InitOsds DEF KnownShape
<1>5. \A o \in OSDs : Fresh(o)
  BY InitOsds DEF Fresh
<1>6. ASSUME NEW o \in OSDs, NEW pg \in PGs
      PROVE  InCount(o, pg)
  <2> SUFFICES ASSUME Holds(o, pg) \/ Armed(o, pg)
               PROVE  /\ osd[o].count = Len(db.items) /\ pg \in DOMAIN db.items
                      /\ \A m \in Monitors : ~SeesStopped(m)
    BY DEF InCount
  <2>1. lock[pg] = o /\ Runs(o)
    BY InitOsds DEF Holds, Armed
  <2>2. o # None
    BY OSDsAssumption DEF None
  <2>3. pg \in DOMAIN setup.sets
    BY <2>1, <2>2 DEF Init
  <2> QED BY <2>1, <2>3, InitOsds, InitConfig DEF SeesStopped
<1>7. Counts
  BY <1>6, InitMons, InitConfig DEF Counts
<1> QED BY <1>2, <1>4, <1>5, <1>7, InitMons, InitConfig DEF CountInv

LEMMA SetupKept ==
  ASSUME Next
  PROVE  setup' = setup
<1>1. ASSUME NEW o \in OSDs, OsdNext(o)
      PROVE  setup' = setup
  BY <1>1 DEF OsdNext, Others, Boot, Load, Watch, Crash, LeaseEnds, RenewFails, Expire, Out, ReportEnds,
         ReportFails, ReportLost, ReportAgain, FinishStop, Peer, Repeer, Prepare, Write
<1>2. ASSUME NEW m \in Monitors, MonNext(m)
      PROVE  setup' = setup
  BY <1>2 DEF MonNext, MonOthers, BecomeMaster, MonWatch, MasterExpires, MonDies, Optimize, Apply, Retry,
         MovePrimary
<1>3. ASSUME CmdNext
      PROVE  setup' = setup
  BY <1>3 DEF CmdNext, CmdOthers, SetCount, RmCheck, RmRead, RmKeys, CmdWatch, RmHistory
<1> QED BY <1>1, <1>2, <1>3, Zenon DEF Next

LEMMA SetupInvariant == Spec => [](setup \in Setups)
<1>1. Init => setup \in Setups
  BY DEF Init
<1>2. ASSUME setup \in Setups, [Next]_vars
      PROVE  (setup \in Setups)'
  BY <1>2, SetupKept DEF vars
<1> QED BY <1>1, <1>2, PTL DEF Spec

(* A PG is held, or can be taken at once with the key its OSD still has,   *)
(* only under the number of PGs in the configuration, and not while the    *)
(* master has seen all PGs of that configuration paused and without a key  *)
(* (stop_all_pgs, apply_pool_pgs): the master, the only one to change the  *)
(* number, compares the configuration with its copy, and an OSD that       *)
(* creates a key takes the PG only once a watch shows it the key together  *)
(* with the configuration of that time (report_pg_states,                  *)
(* apply_pg_config).  Excepted is the time after an rm-osd that has put an *)
(* old configuration back.                                                 *)
THEOREM CountInvariant == Spec => []CountInv
<1>1. ASSUME KeysHeld, CountInv, setup \in Setups, [Next]_vars
      PROVE  CountInv'
  <2>1. CASE \E o \in OSDs : OsdNext(o)     BY <1>1, <2>1, OsdCounts
  <2>2. CASE \E m \in Monitors : MonNext(m) BY <1>1, <2>2, MonCountsKept
  <2>3. CASE CmdNext                        BY <1>1, <2>3, CmdCounts
  <2>4. CASE UNCHANGED vars                 BY <1>1, <2>4, StillCounts DEF vars
  <2> QED BY <1>1, <2>1, <2>2, <2>3, <2>4, Zenon DEF Next
<1> QED BY <1>1, InitCounts, KeysInvariant, SetupInvariant, PTL DEF Spec

(* PGs of different numbers of PGs are never served together with their    *)
(* keys (apply_pool_pgs waits until every PG has stopped;                  *)
(* on_change_etcd_state_hook), whatever crashes, lost answers, changes of  *)
(* the master and leases that run out come between.  Exempt are loose PGs, *)
(* and everything after an rm-osd that has put an old configuration back   *)
(* (clobbers).                                                             *)
THEOREM AlwaysCountSafe == Spec => []CountSafe
<1>1. CountInv => CountSafe
  <2> SUFFICES ASSUME CountInv, ~cmd.clobbers, NEW o1 \in OSDs, NEW o2 \in OSDs,
                      NEW pg1 \in PGs, NEW pg2 \in PGs, Serves(o1, pg1), Serves(o2, pg2),
                      {<<o1, pg1>>, <<o2, pg2>>} \intersect loose = {}
               PROVE  osd[o1].count = osd[o2].count
    BY DEF CountSafe
  <2>1. Holds(o1, pg1) /\ Holds(o2, pg2)
    BY DEF Holds, Serves, Live
  <2>2. InCount(o1, pg1) /\ InCount(o2, pg2)
    BY DEF CountInv, Counts
  <2> QED BY <2>1, <2>2 DEF InCount
<1> QED BY <1>1, CountInvariant, PTL
=============================================================================
