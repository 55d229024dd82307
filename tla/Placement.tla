------------------------------ MODULE Placement ------------------------------
(***************************************************************************)
(* Who serves the placement groups of a pool: the monitors, which put the  *)
(* OSD sets and primaries of the PGs into etcd (mon/), the OSDs, which     *)
(* take their PGs there (src/osd/osd_cluster.cpp, osd_peering.cpp), and    *)
(* the commands that change the PG count or remove an OSD (src/cmd/).      *)
(*                                                                         *)
(* One replicated pool with pg_minsize 1.  A process acts on its own copy  *)
(* of etcd (known), which a watch brings up to date some time later, and   *)
(* changes etcd with transactions that compare revisions or leases: a key  *)
(* is compared with the revision of the copy, so the comparison passes if  *)
(* the key did not change since or does not exist.  A key that has its old *)
(* value again counts as not changed, except for a history that a monitor  *)
(* or a command has put (puts).  Objects are spread over the PGs by their  *)
(* number; loc tells which OSDs have the newest version of an object.      *)
(***************************************************************************)
EXTENDS Integers, Sequences, FiniteSets

CONSTANTS OSDs,      \* numbers of the OSDs
          Monitors,
          PGMax,     \* largest number of PGs
          EpochMax,  \* bound on the epochs of a PG
          Setups     \* initial placement, commands and faults

ASSUME OSDsAssumption == OSDs \subseteq Nat \ {0}
ASSUME MonitorsAssumption == Monitors \subseteq Nat \ {0}
ASSUME PGMaxAssumption == PGMax \in Nat
ASSUME SetupsAssumption == \A s \in Setups : s.count \in Nat /\ s.sets \in Seq(SUBSET OSDs)

VARIABLES
  setup,   \* the chosen setup
  db,      \* the keys of etcd except the following two, see EtcdInit
  lock,    \* /pg/state/: the primary in the key of a PG, or None
  master,  \* the monitor that holds /mon/master, or None
  known,   \* each process' copy of the keys it reads
  osd,     \* the OSDs, see NoOSD
  mon,     \* the monitors, see NoMon
  cmd,     \* the command that runs, see NoCmd
  loc,     \* object -> OSDs with its newest version
  late,    \* OSDs that are down for osd_out_time
  loose,   \* ghost: <<OSD, PG>> that the OSD has without the PG's key
  faults,  \* faults left
  boots    \* starts of OSDs left

vars == <<setup, db, lock, master, known, osd, mon, cmd, loc, late, loose, faults, boots>>

None == 0
PGs == 1..PGMax
Objects == DOMAIN loc

Least(S) == CHOOSE x \in S : \A y \in S : x <= y
Greatest(S) == CHOOSE x \in S : \A y \in S : y <= x

-----------------------------------------------------------------------------
(* etcd                                                                     *)
NoHist == [there |-> FALSE, sets |-> {}, peers |-> {}, epoch |-> 0, puts |-> 0]

(* The history key of a PG is still h, or is not there. *)
SameHist(pg, h) == db.hist[pg].there => db.hist[pg] = h

(* A monitor or a command has put h, or deleted the key, where old was. *)
PutHist(old, h) == IF h.there THEN [h EXCEPT !.puts = old.puts + 1] ELSE NoHist

Item(set, primary) == [set |-> set, primary |-> primary, pause |-> FALSE]

(* map_to_pg *)
PGOf(obj, count) == (obj % count) + 1

(* The copy of a monitor. *)
AllKeys == [db |-> db, lock |-> lock]

-----------------------------------------------------------------------------
(* An OSD and its PGs (osd_t, pg_t).  st "peering" stands for INCOMPLETE    *)
(* too.                                                                     *)
NoPG == [st |-> "none", set |-> {}, hist |-> {}, peers |-> {}, cur |-> {}, seen |-> {},
         epoch |-> 0, reported |-> 0, changed |-> FALSE, asked |-> FALSE, clean |-> FALSE]
NoOSD == [st |-> "down", pgs |-> [pg \in PGs |-> NoPG], dirty |-> {}, rep |-> {},
          applied |-> TRUE, count |-> 0, lease |-> FALSE]

Live == {"peering", "active", "stopping"}
Taken(p) == p.st \notin {"none", "offline"}
Alive(o) == osd[o].st \in {"loading", "run"}
Runs(o) == osd[o].st = "run"
Serves(o, pg) == Runs(o) /\ osd[o].pgs[pg].st = "active"

(* The copy of an OSD.  Keys of PGs that it neither has nor shall have are *)
(* left out, because it does not act on them.                              *)
PgKeys(o) ==
  LET mine == {pg \in PGs : (pg \in DOMAIN db.items /\ db.items[pg].primary = o)
                            \/ osd[o].pgs[pg].st # "none"}
  IN  [count |-> Len(db.items),
       items |-> [pg \in mine \intersect DOMAIN db.items |-> db.items[pg]],
       hist |-> [pg \in PGs |-> IF pg \in mine THEN db.hist[pg] ELSE NoHist],
       base |-> [pg \in PGs |-> IF pg \in mine THEN db.hist[pg] ELSE NoHist],
       lock |-> [pg \in PGs |-> IF pg \in mine THEN lock[pg] ELSE None]]

(* apply_pg_config: shall this OSD be the primary? *)
Take(o, k, pg) ==
  /\ pg \in DOMAIN k.items
  /\ k.items[pg].primary = o /\ ~k.items[pg].pause
  /\ k.lock[pg] \in {None, o}

AllPeers(k, pg) == k.items[pg].set \union k.hist[pg].peers \union UNION k.hist[pg].sets

Started(o, k, pg) ==
  [NoPG EXCEPT !.st = IF k.lock[pg] = o THEN "peering" ELSE "starting",
               !.set = k.items[pg].set, !.hist = k.hist[pg].sets,
               !.peers = AllPeers(k, pg), !.reported = k.hist[pg].epoch]

(* stop_pg: an active PG may have operations in flight (busy) *)
Stopped(p, busy) ==
  [p EXCEPT !.st = IF @ = "active" /\ busy THEN "stopping" ELSE "offline"]

SameConfig(p, k, pg) ==
  p.set = k.items[pg].set /\ p.hist = k.hist[pg].sets /\ p.peers = AllPeers(k, pg)

(* What becomes of a PG.  One that stops at once is taken again at once if *)
(* a change was still to be applied (report_pg_state).                      *)
Applied(o, s, k, pg, busy) ==
  LET p == s.pgs[pg]
  IN  CASE Take(o, k, pg) /\ ~Taken(p) -> Started(o, k, pg)
        [] Take(o, k, pg) /\ p.st = "starting" /\ k.lock[pg] = o -> Started(o, k, pg)
        [] Take(o, k, pg) /\ p.st \in {"active", "peering"} /\ ~SameConfig(p, k, pg) ->
             IF s.applied \/ Stopped(p, busy).st = "stopping" THEN Stopped(p, busy)
             ELSE Started(o, k, pg)
        [] ~Take(o, k, pg) /\ Taken(p) /\ p.st # "stopping" -> Stopped(p, busy)
        [] OTHER -> p

(* report_pg_states: the dirty PGs in one transaction.  A key is created if *)
(* nobody has it and kept with this OSD's lease; the key of a PG that       *)
(* somebody else has taken is left alone.                                   *)
ReportOf(o, p, pg, k) ==
  [pg |-> pg, st |-> p.st, lock |-> k.lock[pg], base |-> k.base[pg],
   put |-> p.changed /\ p.st # "offline",
   sets |-> p.hist, peers |-> p.peers, epoch |-> p.epoch]

report_pg_states(o, s, k) ==
  LET pgs == {pg \in s.dirty : s.pgs[pg].st # "none"}
  IN  IF s.rep # {} \/ pgs = {} THEN s
      ELSE [s EXCEPT !.rep = {ReportOf(o, s.pgs[pg], pg, k) : pg \in pgs},
                     !.dirty = {},
                     !.pgs = [pg \in PGs |->
                       IF pg \in pgs /\ @[pg].st # "offline"
                       THEN [@[pg] EXCEPT !.changed = FALSE] ELSE @[pg]]]

(* The PGs in their order.  The first one that stops or begins to peer is  *)
(* reported at once, together with all that are dirty by then; the later   *)
(* ones have to wait for the end of that transaction.                      *)
apply_pg_config(o, s, k, busy) ==
  LET new == [pg \in PGs |-> Applied(o, s, k, pg, busy)]
      changed == {pg \in PGs : new[pg] # s.pgs[pg]}
      atonce == {pg \in changed : new[pg].st # "starting"}
      first == IF atonce = {} THEN PGs ELSE 1..Least(atonce)
      t == report_pg_states(o,
             [s EXCEPT !.pgs = [pg \in PGs |-> IF pg \in first THEN new[pg] ELSE @[pg]],
                       !.dirty = @ \union (changed \intersect first)], k)
  IN  [t EXCEPT !.pgs = [pg \in PGs |-> IF pg \in first THEN @[pg] ELSE Applied(o, t, k, pg, busy)],
                !.dirty = @ \union (changed \ first),
                !.applied = \A pg \in PGs : Take(o, k, pg) =>
                  /\ new[pg].st \in {"active", "peering"}
                  /\ s.pgs[pg].st \in {"active", "peering"} => SameConfig(s.pgs[pg], k, pg)]

(* on_change_pg_history_hook: the report of a new epoch has come back.      *)
Heard(s, k) ==
  [s EXCEPT !.pgs = [pg \in PGs |->
     IF @[pg].epoch > @[pg].reported /\ k.hist[pg].epoch >= @[pg].epoch
     THEN [@[pg] EXCEPT !.reported = k.hist[pg].epoch] ELSE @[pg]]]

-----------------------------------------------------------------------------
(* Ghost: a PG is loose from the moment it is taken while a transaction    *)
(* that deletes its key is in flight, or the key is gone and the copy k    *)
(* does not show it yet, until it stops.  So is every PG of an OSD whose   *)
(* lease has run out.                                                      *)
LooseNow(o, t, k) ==
  {x \in {<<o, pg>> : pg \in PGs} :
     /\ t.pgs[x[2]].st \in Live
     /\ \/ x \in loose
        \/ k.lock[x[2]] = o /\ lock[x[2]] # o
        \/ \E r \in t.rep : r.pg = x[2] /\ r.st = "offline"}

(* OSD o goes on as t; its copy is k. *)
Goes(o, t, k) ==
  /\ osd' = [osd EXCEPT ![o] = t]
  /\ loose' = {x \in loose : x[1] # o} \union LooseNow(o, t, k)

Dies(o) ==
  /\ osd' = [osd EXCEPT ![o] = [NoOSD EXCEPT !.st = "dead"]]
  /\ loose' = {x \in loose : x[1] # o}

Others == <<setup, master, mon, cmd, boots>>

(* create_osd_state: only if the key of the OSD's earlier life is gone.    *)
(* report_statistics follows.                                              *)
Boot(o) ==
  /\ osd[o].st = "down" /\ boots > 0 /\ o \in setup.starts
  /\ db.up[o] = 0
  /\ boots' = boots - 1
  /\ db' = [db EXCEPT !.up[o] = boots, !.stats = @ \union {o}]
  /\ late' = late \ {o}
  /\ Goes(o, [NoOSD EXCEPT !.st = "loading", !.lease = TRUE], << >>)
  /\ UNCHANGED <<setup, master, mon, cmd, lock, known, loc, faults>>

(* The new count, unless a PG is active: then the OSD exits. *)
AllowsCount(s, k) ==
  s.count \notin {0, k.count} /\ k.count # 0 => \A pg \in PGs : s.pgs[pg].st # "active"

(* on_load_pgs_hook *)
Load(o) ==
  /\ osd[o].st = "loading"
  /\ known' = [known EXCEPT ![o] = PgKeys(o)]
  /\ IF db.up[o] # 0
     THEN Goes(o, apply_pg_config(o, [osd[o] EXCEPT !.st = "run", !.count = Len(db.items)],
                                  PgKeys(o), FALSE), PgKeys(o))
     ELSE Dies(o)
  /\ UNCHANGED <<Others, db, lock, loc, late, faults>>

(* on_change_etcd_state_hook.  Only what has changed is copied: a history  *)
(* that the OSD has changed itself stays until etcd has a newer one.       *)
Watched(o) ==
  [PgKeys(o) EXCEPT !.hist = [pg \in PGs |->
     IF @[pg] = known[o].base[pg] THEN known[o].hist[pg] ELSE @[pg]]]

Watch(o) ==
  /\ Runs(o)
  /\ \E k \in {Watched(o)} :
       /\ k # known[o]
       /\ known' = [known EXCEPT ![o] = k]
       /\ IF AllowsCount(osd[o], k)
          THEN \E busy \in BOOLEAN :
                 Goes(o, apply_pg_config(o, [Heard(osd[o], k) EXCEPT !.count = k.count], k, busy), k)
          ELSE Dies(o)
  /\ UNCHANGED <<Others, db, lock, loc, late, faults>>

(* finish_stop_pg: the last operation of a stopping PG has ended. *)
FinishStop(o, pg) ==
  /\ Runs(o) /\ osd[o].pgs[pg].st = "stopping"
  /\ LET s == [osd[o] EXCEPT !.pgs[pg].st = "offline", !.dirty = @ \union {pg}]
     IN  Goes(o, IF s.applied THEN report_pg_states(o, s, known[o])
                 ELSE apply_pg_config(o, s, known[o], TRUE), known[o])
  /\ UNCHANGED <<Others, db, lock, known, loc, late, faults>>

-----------------------------------------------------------------------------
(* The transaction of report_pg_states. *)

(* A key that is not deleted is put with the lease of the OSD.             *)
MutMayReport(o, r) == r.put => SameHist(r.pg, r.base)

MayReport(o, r) ==
  /\ r.st # "offline" => osd[o].lease
  /\ CASE r.st = "starting" \/ r.lock = None -> lock[r.pg] = None
       [] r.st = "offline" /\ r.lock # o -> lock[r.pg] \in {None, r.lock}
       [] OTHER -> lock[r.pg] = o
  /\ r.put => SameHist(r.pg, r.base)

Committed(o) ==
  LET rs == osd[o].rep
      Of(pg) == CHOOSE r \in rs : r.pg = pg
  IN  /\ lock' = [pg \in PGs |->
           IF \E r \in rs : r.pg = pg
           THEN IF Of(pg).st # "offline" THEN o
                ELSE IF Of(pg).lock \in {None, o} THEN None ELSE lock[pg]
           ELSE lock[pg]]
      /\ db' = [db EXCEPT !.hist = [pg \in PGs |->
           IF \E r \in rs : r.pg = pg /\ r.put
           THEN [there |-> TRUE, sets |-> Of(pg).sets, peers |-> Of(pg).peers,
                 epoch |-> Of(pg).epoch, puts |-> db.hist[pg].puts]
           ELSE db.hist[pg]]]

Reported(o) == {r.pg : r \in osd[o].rep}

(* Offline PGs are forgotten, other changes are reported. *)
ReportEnds(o) ==
  /\ Runs(o) /\ osd[o].rep # {}
  /\ \A r \in osd[o].rep : MayReport(o, r)
  /\ Committed(o)
  /\ LET s == [osd[o] EXCEPT !.rep = {}, !.pgs = [pg \in PGs |->
                 IF pg \in Reported(o) \ osd[o].dirty /\ @[pg].st = "offline" THEN NoPG ELSE @[pg]]]
     IN  osd' = [osd EXCEPT ![o] = report_pg_states(o, s, known[o])]
  /\ UNCHANGED <<Others, known, loc, late, loose, faults>>

(* The dirty flags are put back; the OSD exits if it is told of another    *)
(* primary of a PG of its own.                                             *)
Failed(s) ==
  [s EXCEPT !.rep = {}, !.dirty = @ \union {r.pg : r \in s.rep},
            !.pgs = [pg \in PGs |->
              IF \E r \in s.rep : r.pg = pg /\ r.put
              THEN [@[pg] EXCEPT !.changed = TRUE] ELSE @[pg]]]

ReportFails(o) ==
  /\ Runs(o) /\ osd[o].rep # {}
  /\ \E r \in osd[o].rep : ~MayReport(o, r)
  /\ IF \E pg \in Reported(o) : osd[o].pgs[pg].st \in Live /\ lock[pg] \notin {None, o}
     THEN Dies(o) ELSE Goes(o, Failed(osd[o]), known[o])
  /\ UNCHANGED <<Others, db, lock, known, loc, late, faults>>

(* The answer is lost, so the OSD does not know that etcd did its part. *)
ReportLost(o) ==
  /\ Runs(o) /\ osd[o].rep # {} /\ faults > 0 /\ setup.loses
  /\ \A r \in osd[o].rep : MayReport(o, r)
  /\ Committed(o)
  /\ faults' = faults - 1
  /\ osd' = [osd EXCEPT ![o] = Failed(@)]
  /\ UNCHANGED <<Others, known, loc, late, loose>>

(* The 500 ms are over. *)
ReportAgain(o) ==
  /\ Runs(o) /\ osd[o].rep = {} /\ osd[o].dirty # {}
  /\ osd' = [osd EXCEPT ![o] = report_pg_states(o, @, known[o])]
  /\ UNCHANGED <<Others, db, lock, known, loc, late, loose, faults>>

-----------------------------------------------------------------------------
(* The process ends; its lease, and the keys with it, end some time later. *)
Crash(o) ==
  /\ Alive(o) /\ faults > 0 /\ o \in setup.crashes
  /\ faults' = faults - 1
  /\ Dies(o)
  /\ UNCHANGED <<Others, db, lock, known, loc, late>>

(* The lease of a process that lives runs out: it was stalled, or cut off  *)
(* from etcd, for too long.  It goes on with its PGs ...                   *)
LeaseEnds(o) ==
  /\ Alive(o) /\ osd[o].lease /\ faults > 0 /\ o \in setup.stalls
  /\ faults' = faults - 1
  /\ osd' = [osd EXCEPT ![o].lease = FALSE]
  /\ loose' = loose \union {<<o, pg>> : pg \in {x \in PGs : osd[o].pgs[x].st \in Live}}
  /\ db' = [db EXCEPT !.up[o] = 0]
  /\ lock' = [pg \in PGs |-> IF lock[pg] = o THEN None ELSE lock[pg]]
  /\ UNCHANGED <<Others, known, loc, late>>

(* ... until renew_lease finds out. *)
RenewFails(o) ==
  /\ Alive(o) /\ ~osd[o].lease
  /\ Dies(o)
  /\ UNCHANGED <<Others, db, lock, known, loc, late, faults>>

Expire(o) ==
  /\ osd[o].st = "dead"
  /\ Goes(o, NoOSD, << >>)
  /\ db' = [db EXCEPT !.up[o] = 0]
  /\ lock' = [pg \in PGs |-> IF lock[pg] = o THEN None ELSE lock[pg]]
  /\ known' = [known EXCEPT ![o] = << >>]
  /\ UNCHANGED <<Others, loc, late, faults>>

(* osd_out_time has passed. *)
Out(o) ==
  /\ setup.outs /\ o \in db.stats \ late /\ db.up[o] = 0
  /\ late' = late \union {o}
  /\ UNCHANGED <<Others, db, lock, known, osd, loc, loose, faults>>

-----------------------------------------------------------------------------
(* Peering, writes and recovery                                             *)

Mine(s, pg) == {obj \in Objects : s.count # 0 /\ PGOf(obj, s.count) = pg}

(* report_pg_state of an active PG: a clean one forgets its history, except *)
(* for OSDs that were dead when it peered.  The copy of etcd is changed     *)
(* together with the PG.                                                    *)
CleanPeers(p) == IF p.seen = p.peers THEN p.set ELSE p.set \union (p.peers \ p.seen)

Cleaned(p) ==
  IF p.hist = {} /\ p.peers = CleanPeers(p) THEN [p EXCEPT !.clean = TRUE]
  ELSE [p EXCEPT !.clean = TRUE, !.hist = {}, !.peers = CleanPeers(p), !.changed = TRUE]

(* The PG is p now; the objects are at l. *)
Activates(o, pg, p, l) ==
  LET ends == p.st = "active" /\ ~p.clean /\ p.cur = p.set
              /\ \A obj \in Mine(osd[o], pg) : l[obj] = p.set
      q == IF ends THEN Cleaned(p) ELSE p
      s == [osd[o] EXCEPT !.pgs[pg] = q, !.dirty = @ \union {pg}]
  IN  \E k \in {IF ends THEN [known[o] EXCEPT !.hist[pg].sets = q.hist, !.hist[pg].peers = q.peers]
                ELSE known[o]} :
        /\ known' = [known EXCEPT ![o] = k]
        /\ Goes(o, IF q = osd[o].pgs[pg] THEN osd[o] ELSE report_pg_states(o, s, k), k)

(* start_pg_peering, continue_pg_peering, calc_object_states: every OSD    *)
(* that may have data is asked, and of each set of the history one has to  *)
(* answer.                                                                 *)
Peer(o, pg) ==
  LET p == osd[o].pgs[pg]
      seen == {x \in p.peers : Alive(x)}
      cur == p.set \intersect seen
      clean == cur = p.set /\ seen = p.peers /\ \A obj \in Mine(osd[o], pg) : loc[obj] = p.set
  IN  /\ Runs(o) /\ p.st = "peering"
      /\ \A h \in p.hist : h \intersect seen # {}
      /\ clean \/ p.reported < EpochMax
      /\ Activates(o, pg,
           [p EXCEPT !.st = "active", !.seen = seen, !.cur = cur, !.asked = FALSE,
                     !.epoch = IF clean THEN p.reported ELSE p.reported + 1,
                     !.clean = FALSE], loc)
      /\ UNCHANGED <<Others, db, lock, loc, late, faults>>

(* repeer_pgs: a peer has come or gone. *)
Repeer(o, pg) ==
  LET p == osd[o].pgs[pg]
  IN  /\ Serves(o, pg)
      /\ {x \in p.peers : Alive(x)} # p.seen
      /\ LET s == [osd[o] EXCEPT !.pgs[pg] = [p EXCEPT !.st = "peering", !.clean = FALSE],
                                 !.dirty = @ \union {pg}]
         IN  Goes(o, report_pg_states(o, s, known[o]), known[o])
      /\ UNCHANGED <<Others, db, lock, known, loc, late, faults>>

(* continue_primary_write of the first write: a new epoch, and the OSDs    *)
(* that will have the data, are put into the history.                      *)
Prepare(o, pg) ==
  LET p == osd[o].pgs[pg]
      s == [osd[o] EXCEPT
              !.pgs[pg] = [p EXCEPT !.hist = IF p.clean /\ p.seen = p.peers THEN @
                                             ELSE @ \union {p.cur},
                                    !.changed = TRUE, !.asked = TRUE],
              !.dirty = @ \union {pg}]
  IN  /\ Serves(o, pg) /\ p.epoch > p.reported /\ ~p.asked
      /\ Goes(o, report_pg_states(o, s, known[o]), known[o])
      /\ UNCHANGED <<Others, db, lock, known, loc, late, faults>>

(* A write, or the recovery of the object, ends.  All of cur have it; the  *)
(* last one recovered makes the PG clean.  What an OSD writes without its  *)
(* lease has an older epoch than the next primary's and is not counted.    *)
Write(o, pg, obj) ==
  LET p == osd[o].pgs[pg]
  IN  /\ Runs(o) /\ p.st \in {"active", "stopping"} /\ p.epoch <= p.reported
      /\ obj \in Mine(osd[o], pg) /\ loc[obj] # p.cur
      /\ \A x \in p.cur : Alive(x)
      /\ loc' = IF osd[o].lease THEN [loc EXCEPT ![obj] = p.cur] ELSE loc
      /\ Activates(o, pg, p, loc')
      /\ UNCHANGED <<Others, db, lock, late, faults>>

-----------------------------------------------------------------------------
(***************************************************************************)
(* The monitors.  One that has lost /mon/master without knowing goes on    *)
(* until it dies: its transactions compare the lease of the key.           *)
(***************************************************************************)
NoMon == [st |-> "down", pgs |-> << >>, up |-> {}, hash |-> << >>, news |-> FALSE,
          copy |-> << >>]

(* get_osd_tree: OSDs that are up, and OSDs with weight *)
UpIn(k) == {o \in k.db.stats : k.db.up[o] # 0}
TreeIn(k) == {o \in k.db.stats : k.db.up[o] # 0 \/ o \notin late}

(* What the hash of the PG configuration stands for. *)
TreeHash(k) == <<k.db.count, TreeIn(k)>>

(* pick_primary; the choice among the OSDs that are up depends on the PG. *)
pick_primary(pg, set, up) ==
  IF set \intersect up = {} THEN None
  ELSE IF pg % 2 = 1 THEN Least(set \intersect up) ELSE Greatest(set \intersect up)

(* generate_pool_pgs: the optimizer spreads the PGs over the OSDs in some way. *)
generate_pool_pgs(k) ==
  LET size == Least({Cardinality(TreeIn(k)), setup.size})
  IN  [1..k.db.count -> {s \in SUBSET TreeIn(k) : Cardinality(s) = size}]

MonOthers == <<setup, known, osd, cmd, loc, late, loose, boots>>

(* become_master, load_cluster_state *)
BecomeMaster(m) ==
  /\ mon[m].st = "down" /\ master = None
  /\ master' = m
  /\ mon' = [mon EXCEPT ![m] = [NoMon EXCEPT !.st = "idle", !.copy = AllKeys]]
  /\ UNCHANGED <<MonOthers, db, lock, faults>>

(* on_message *)
MonWatch(m) ==
  /\ mon[m].st # "down" /\ mon[m].copy # AllKeys
  /\ mon' = [mon EXCEPT ![m].copy = AllKeys, ![m].news = TRUE]
  /\ UNCHANGED <<MonOthers, db, lock, master, faults>>

(* The lease of the master ends without the process; it finds out later. *)
MasterExpires(m) ==
  /\ master = m /\ faults > 0 /\ setup.masters
  /\ faults' = faults - 1
  /\ master' = None
  /\ UNCHANGED <<MonOthers, mon, db, lock>>

MonDies(m) ==
  /\ mon[m].st # "down" /\ master # m
  /\ mon' = [mon EXCEPT ![m] = NoMon]
  /\ UNCHANGED <<MonOthers, db, lock, master, faults>>

(* save_pg_config: the two comparisons that every change makes. *)
MayChange(m) ==
  master = m /\ db.items = mon[m].copy.db.items /\ db.hash = mon[m].copy.db.hash

Tries(m, st) == mon' = [mon EXCEPT ![m].st = st, ![m].news = FALSE]

(* scale_pg_history, add_pg_history: the old PGs whose objects may be in   *)
(* PG pg of the new ones.                                                  *)
Meets(pg, old, new) ==
  IF new % old = 0 THEN {((pg - 1) % old) + 1}
  ELSE IF old % new = 0 THEN {x \in 1..old : (x - 1) % new = pg - 1}
  ELSE 1..old

MutNewHist(k, pgs, pg) == [k.db.hist[pg] EXCEPT !.there = TRUE]

(* The history of PG pg after the change to PGs pgs. *)
NewHist(k, pgs, pg) ==
  LET old == k.db.items
      h == k.db.hist
      from == Meets(pg, Len(old), Len(pgs))
      scaled == IF Len(old) \in {0, Len(pgs)} THEN h[pg]
                ELSE [there |-> TRUE, sets |-> UNION {h[x].sets \union {old[x].set} : x \in from},
                      peers |-> UNION {h[x].peers : x \in from},
                      epoch |-> Greatest({h[x].epoch : x \in from}), puts |-> 0]
  IN  IF pg \in DOMAIN old /\ old[pg].set # pgs[pg] /\ old[pg].set # {}
      THEN [scaled EXCEPT !.there = TRUE, !.sets = @ \union {old[pg].set}] ELSE scaled

(* save_new_pgs_txn: the PGs and their histories; the ones of removed PGs  *)
(* are deleted.                                                            *)
NewPGs(m) ==
  LET k == mon[m].copy
      pgs == mon[m].pgs
      all == 1..Len(pgs) \union DOMAIN k.db.items
  IN  IF MayChange(m) /\ \A pg \in all : SameHist(pg, k.db.hist[pg])
      THEN /\ db' = [db EXCEPT
                !.items = [pg \in 1..Len(pgs) |-> Item(pgs[pg], pick_primary(pg, pgs[pg], mon[m].up))],
                !.hash = mon[m].hash,
                !.hist = [pg \in PGs |->
                   IF pg \notin all THEN db.hist[pg]
                   ELSE PutHist(db.hist[pg], IF pg > Len(pgs) THEN NoHist ELSE NewHist(k, pgs, pg))]]
           /\ Tries(m, "idle")
      ELSE Tries(m, "wait") /\ db' = db

(* stop_all_pgs: no OSD may have come up or gone since the copy was made. *)
Paused(items) == [pg \in DOMAIN items |-> [items[pg] EXCEPT !.pause = TRUE]]

PausePGs(m) ==
  /\ Tries(m, "wait")
  /\ IF MayChange(m) /\ \A o \in mon[m].copy.db.stats : db.up[o] \in {0, mon[m].copy.db.up[o]}
     THEN db' = [db EXCEPT !.items = Paused(@)]
     ELSE db' = db

(* apply_pool_pgs: all PGs have to stop before their number changes. *)
MutMayScale(k) == TRUE

MayScale(k) ==
  k.db.count = Len(k.db.items) \/ \A pg \in DOMAIN k.db.items : k.lock[pg] = None

apply_pool_pgs(m) ==
  LET k == mon[m].copy
  IN  IF k.db.count # Len(k.db.items) /\ \E pg \in DOMAIN k.db.items : ~k.db.items[pg].pause
      THEN PausePGs(m)
      ELSE IF MayScale(k) THEN NewPGs(m)
      ELSE Tries(m, "wait") /\ db' = db

(* recheck_pgs: the OSDs or the pool have changed.  The optimizer runs in  *)
(* another process.                                                        *)
Optimize(m) ==
  LET k == mon[m].copy
  IN  /\ mon[m].st = "idle" /\ k.db.hash # TreeHash(k) /\ k.db.count > 0 /\ TreeIn(k) # {}
      /\ \E pgs \in generate_pool_pgs(k) :
           mon' = [mon EXCEPT ![m] = [st |-> "apply", pgs |-> pgs, up |-> UpIn(k),
                                      hash |-> TreeHash(k), news |-> FALSE, copy |-> k]]
      /\ UNCHANGED <<MonOthers, db, lock, master, faults>>

Apply(m) ==
  /\ mon[m].st = "apply"
  /\ apply_pool_pgs(m)
  /\ UNCHANGED <<MonOthers, lock, master, faults>>

(* A failed attempt is repeated once something has changed, from the start *)
(* if that was the tree.                                                   *)
Retry(m) ==
  /\ mon[m].st = "wait" /\ mon[m].news
  /\ IF TreeHash(mon[m].copy) # mon[m].hash
     THEN mon' = [mon EXCEPT ![m].st = "idle"] /\ db' = db
     ELSE apply_pool_pgs(m)
  /\ UNCHANGED <<MonOthers, lock, master, faults>>

(* recheck_primary: only the primaries change. *)
MovePrimary(m) ==
  LET k == mon[m].copy
      items == [pg \in DOMAIN k.db.items |->
                  IF pg > k.db.count THEN k.db.items[pg]
                  ELSE [k.db.items[pg] EXCEPT !.primary = pick_primary(pg, k.db.items[pg].set, UpIn(k))]]
  IN  /\ mon[m].st = "idle" /\ k.db.hash = TreeHash(k) /\ items # k.db.items
      /\ MayChange(m)
      /\ db' = [db EXCEPT !.items = items]
      /\ UNCHANGED <<MonOthers, mon, lock, master, faults>>

-----------------------------------------------------------------------------
(* The commands                                                             *)
NoCmd == [st |-> "none", items |-> << >>, hash |-> << >>, hist |-> << >>, base |-> << >>,
          clobbers |-> FALSE]
CmdOthers == <<setup, lock, master, known, osd, mon, loc, late, loose, faults, boots>>

(* create-pool, modify-pool: the change of pg_count in /config/pools,      *)
(* repeated until nobody else changes the key meanwhile.                   *)
SetCount ==
  /\ cmd.st = "none" /\ setup.count \notin {0, db.count}
  /\ db' = [db EXCEPT !.count = setup.count]
  /\ cmd' = [cmd EXCEPT !.st = "done"]
  /\ UNCHANGED CmdOthers

(* rm-osd: refused if it loses data, or, unless forced, if it disturbs any *)
(* PG.                                                                     *)
RmCheck ==
  LET o == setup.rm
      sets == {db.items[pg].set : pg \in DOMAIN db.items} \union UNION {db.hist[pg].sets : pg \in PGs}
      warns == db.up[o] # 0 \/ o \in UNION sets
  IN  /\ cmd.st = "none" /\ o # None
      /\ cmd' = [cmd EXCEPT !.hist = db.hist, !.base = db.hist,
                   !.st = IF {o} \in sets \/ (warns /\ ~setup.force) THEN "done" ELSE "read"]
      /\ UNCHANGED <<CmdOthers, db>>

RmRead ==
  /\ cmd.st = "read"
  /\ cmd' = [cmd EXCEPT !.st = "keys", !.items = db.items, !.hash = db.hash]
  /\ UNCHANGED <<CmdOthers, db>>

(* The transaction has no comparison: the PG configuration that was read   *)
(* goes over one that somebody has changed since (clobbers).               *)
RmKeys ==
  LET o == setup.rm
  IN  /\ cmd.st = "keys"
      /\ db' = [db EXCEPT !.up[o] = 0, !.stats = @ \ {o}, !.hash = cmd.hash,
                  !.items = [pg \in DOMAIN cmd.items |-> [cmd.items[pg] EXCEPT !.set = @ \ {o}]]]
      /\ cmd' = [cmd EXCEPT !.st = "hist", !.clobbers = <<db.items, db.hash>> # <<cmd.items, cmd.hash>>]
      /\ UNCHANGED CmdOthers

CmdWatch ==
  /\ cmd.st = "hist" /\ cmd.base # db.hist
  /\ cmd' = [cmd EXCEPT !.base = db.hist, !.hist = [pg \in PGs |->
                IF cmd.base[pg] = db.hist[pg] THEN @[pg] ELSE db.hist[pg]]]
  /\ UNCHANGED <<CmdOthers, db>>

Stripped(h, o) == [h EXCEPT !.peers = @ \ {o}, !.sets = {s \ {o} : s \in @} \ {{}}]

(* remove_osds_from_history: the PGs from the first one that names the     *)
(* OSD.  The copy is changed even if the transaction fails.                *)
RmHistory ==
  LET o == setup.rm
      h == cmd.hist
      named == {pg \in PGs : o \in h[pg].peers \union UNION h[pg].sets}
      pgs == {pg \in PGs : \E x \in named : x <= pg}
      ok == \A pg \in pgs : SameHist(pg, cmd.base[pg])
  IN  /\ cmd.st = "hist"
      /\ cmd' = [cmd EXCEPT !.st = IF ok THEN "done" ELSE "hist",
                   !.hist = [pg \in PGs |-> Stripped(@[pg], o)]]
      /\ db' = IF ok THEN [db EXCEPT !.hist = [pg \in PGs |->
                             IF pg \in pgs THEN PutHist(@[pg], [Stripped(h[pg], o) EXCEPT !.there = TRUE])
                             ELSE @[pg]]]
                ELSE db
      /\ UNCHANGED CmdOthers

-----------------------------------------------------------------------------
(* Initially the PGs of the setup are active and clean.                     *)
InitialPG(set) ==
  [NoPG EXCEPT !.st = "active", !.set = set, !.peers = set, !.cur = set, !.seen = set,
               !.clean = TRUE]

EtcdInit(s) ==
  LET n == Len(s.sets)
      tree == OSDs \ s.down
  IN  [count |-> n,                \* /config/pools: pg_count
       items |-> [pg \in 1..n |-> Item(s.sets[pg], pick_primary(pg, s.sets[pg], tree))],
       hash |-> <<n, tree>>,       \* and the hash in /pg/config
       hist |-> [pg \in PGs |-> NoHist],                            \* /pg/history/
       up |-> [o \in OSDs |-> IF o \in s.down THEN 0 ELSE s.boots + 1], \* /osd/state/
       stats |-> tree]             \* /osd/stats/

Init ==
  /\ setup \in Setups
  /\ db = EtcdInit(setup)
  /\ lock = [pg \in PGs |-> IF pg \in DOMAIN setup.sets THEN db.items[pg].primary ELSE None]
  /\ osd = [o \in OSDs |->
       IF o \in setup.down THEN NoOSD
       ELSE [NoOSD EXCEPT !.st = "run", !.count = Len(db.items), !.lease = TRUE,
               !.pgs = [pg \in PGs |-> IF lock[pg] = o THEN InitialPG(setup.sets[pg]) ELSE NoPG]]]
  /\ known = [o \in OSDs |-> IF o \in setup.down THEN << >> ELSE PgKeys(o)]
  /\ master \in {m \in Monitors : \A x \in Monitors : m <= x}
  /\ mon = [m \in Monitors |->
       IF m = master THEN [NoMon EXCEPT !.st = "idle", !.copy = AllKeys] ELSE NoMon]
  /\ cmd = NoCmd
  /\ loc = [obj \in 0..(setup.objects - 1) |->
              IF setup.sets = << >> THEN {} ELSE setup.sets[PGOf(obj, Len(setup.sets))]]
  /\ late = {}
  /\ loose = {}
  /\ faults = setup.faults
  /\ boots = setup.boots

OsdNext(o) ==
  \/ Boot(o) \/ Load(o) \/ Watch(o) \/ Crash(o) \/ Expire(o) \/ Out(o)
  \/ LeaseEnds(o) \/ RenewFails(o)
  \/ ReportEnds(o) \/ ReportFails(o) \/ ReportLost(o) \/ ReportAgain(o)
  \/ \E pg \in PGs : FinishStop(o, pg) \/ Peer(o, pg) \/ Repeer(o, pg) \/ Prepare(o, pg)
                     \/ \E obj \in Objects : Write(o, pg, obj)

MonNext(m) ==
  \/ BecomeMaster(m) \/ MonWatch(m) \/ MasterExpires(m) \/ MonDies(m)
  \/ Optimize(m) \/ Apply(m) \/ Retry(m) \/ MovePrimary(m)

CmdNext == SetCount \/ RmCheck \/ RmRead \/ RmKeys \/ CmdWatch \/ RmHistory

Next == (\E o \in OSDs : OsdNext(o)) \/ (\E m \in Monitors : MonNext(m)) \/ CmdNext

Spec == Init /\ [][Next]_vars

-----------------------------------------------------------------------------
(* Two OSDs that hold the key of a PG never serve it together.  What an    *)
(* OSD serves without the key, a loose PG, is exempt: the PG was taken     *)
(* while the transaction that gives it away was in flight, or it is kept   *)
(* after the lease has run out, until renew_lease notices.                 *)
OnePrimary ==
  \A pg \in PGs, o1, o2 \in OSDs :
    Serves(o1, pg) /\ Serves(o2, pg) /\ {<<o1, pg>>, <<o2, pg>>} \intersect loose = {} => o1 = o2

(* The history in etcd leads to the data: a PG that is served with its key *)
(* has seen the newest version of each of its objects.  It is not promised *)
(* of a loose PG, nor of what an OSD writes after its lease has run out,   *)
(* nor once a command has overwritten the history.  The setups leave out   *)
(* one way to lose it: a stopping PG whose transaction is retried over the *)
(* history that the monitor wrote when it moved the PG.                    *)
DataFound ==
  ~cmd.clobbers =>
    \A o \in OSDs, pg \in PGs : Serves(o, pg) /\ <<o, pg>> \notin loose =>
      \A obj \in Mine(osd[o], pg) : loc[obj] # {} => loc[obj] \intersect osd[o].pgs[pg].seen # {}

(* PGs of different numbers of PGs are never served together with their    *)
(* keys, whichever master changes the number and whatever answers it       *)
(* loses.  A loose PG is exempt, and so is everything once rm-osd has put  *)
(* back a configuration that was replaced under it.                        *)
CountSafe ==
  ~cmd.clobbers =>
    \A o1, o2 \in OSDs, pg1, pg2 \in PGs :
      Serves(o1, pg1) /\ Serves(o2, pg2) /\ {<<o1, pg1>>, <<o2, pg2>>} \intersect loose = {}
        => osd[o1].count = osd[o2].count
=============================================================================
