------------------------------ MODULE PG ------------------------------
(* One placement group of Vitastor: the primary OSD's write, sync, read,   *)
(* flush and recovery operations (osd_primary*.cpp, osd_flush.cpp), peering *)
(* (osd_peering.cpp, osd_peering_pg.cpp), the PG's record in etcd           *)
(* (osd_cluster.cpp) and the OSDs' stores as the secondary operations use   *)
(* them (osd_secondary.cpp).  The PG holds one object.                      *)
(*                                                                          *)
(* An OSD holds one chunk of the object: a set of versions, each with the   *)
(* writes its content is made of.  An erasure coded object of k data chunks *)
(* is readable from any k chunks of one version; the role of an OSD in an   *)
(* EC set is its position, so "another OSD" is "another role".              *)
(*                                                                          *)
(* A sub-operation and its answer are one step, taken when the answer is    *)
(* handled.  When a connection breaks, what was on its way to the peer may  *)
(* have been executed or not (hit).                                         *)
EXTENDS Integers, Sequences, FiniteSets, FiniteSetsExt

CONSTANTS
    OSDs,           \* OSD numbers, positive integers
    Setups,         \* pools to check: records, see SetupOK
    Writes,         \* client writes, positive integers, sent in order
    EpochSpan       \* versions of one epoch: 2 ^ (64 - PG_EPOCH_BITS)

\* A pool: scheme, data chunks, pg_minsize, immediate_commit, the target sets
\* the monitor may give to the PG, the first one to begin with (an EC pool has
\* one), and the bounds: disconnections, crashes and retargets, sub-writes
\* that fail with ENOSPC, client writes, recovery writes, syncs, client reads.
SetupOK(s) ==
    /\ s.ec \in BOOLEAN /\ s.imm \in {"all", "none"}
    /\ s.targets \in Seq(SUBSET OSDs) /\ Len(s.targets) > 0
    /\ s.k \in Nat \ {0} /\ s.minsize >= s.k /\ (s.ec => Len(s.targets) = 1)
    /\ {s.fails, s.nospace, s.recs, s.syncs, s.reads} \subseteq Nat /\ s.writes \subseteq Writes

ASSUME SetupsOK == \A s \in Setups : SetupOK(s)
ASSUME SpanOK == EpochSpan \in Nat /\ EpochSpan > 3

VARIABLES
    setup,      \* the pool
    store,      \* [OSDs -> set of versions]: the blockstores
    up,         \* running OSD processes
    reg,        \* OSDs with /osd/state in etcd
    conn,       \* OSDs the primary is connected with, itself included
    wanted,     \* wanted_peers of the primary's messenger
    pg,         \* pg_t of the primary
    cur,        \* the write operation that is executing
    queue,      \* other operations in pg.write_queue
    syn,        \* the sync operation that is executing, and those waiting
    rd,         \* the client's read
    etcd,       \* /pg/state owner, /pg/config and /pg/history
    seen,       \* the primary has got the last change of etcd by its watch
    txn,        \* the transaction of report_pg_states in flight
    cl,         \* the client and what it was promised
    count       \* counters of the bounds; old, full, over: see the properties

vars == <<setup, store, up, reg, conn, wanted, pg, cur, queue, syn,
          rd, etcd, seen, txn, cl, count>>

-----------------------------------------------------------------------------
(* Versions and stores                                                      *)

EpochOf(v) == v \div EpochSpan
NoVer == [v |-> 0, c |-> <<>>, st |-> TRUE, sy |-> TRUE, del |-> FALSE]
Inf == 1000000

VerSet(o) == {e.v : e \in store[o]}
Newest(S) == IF S = {} THEN NoVer ELSE CHOOSE e \in S : \A f \in S : f.v <= e.v
ReadAt(S, ver) == LET e == Newest({f \in S : f.v <= ver})
                  IN IF e.del THEN NoVer ELSE e

\* Only the newest stable version and the unstable ones above it stay.
\* A replicated write is stable at once and is applied over what this OSD
\* has; an EC chunk is sent whole and is unstable.
Prune(S) ==
    LET top == Newest({e \in S : e.st /\ e.sy})
    IN {e \in S : e.v > top.v \/ (e = top /\ ~e.del)}

BsWrite(S, ver, full, w, c) ==
    Prune(S \cup {[v |-> ver, st |-> ~setup.ec, sy |-> setup.imm = "all", del |-> FALSE,
                   c |-> IF full THEN c
                         ELSE IF w = 0 THEN Newest(S).c ELSE Append(Newest(S).c, w)]})

BsSync(S) == Prune({[e EXCEPT !.sy = TRUE] : e \in S})
StableOK(S, ver) == ver \in {e.v : e \in S} \/ Newest({e \in S : e.st}).v >= ver
BsStable(S, ver) ==
    Prune({IF e.v <= ver THEN [e EXCEPT !.st = TRUE, !.sy = TRUE] ELSE e : e \in S})
RollbackOK(S, ver) == \A e \in S : e.v > ver => ~e.st
BsRollback(S, ver) == {e \in S : e.v <= ver}
BsDelete(S, ver) == Prune(S \cup {[v |-> ver, c |-> <<>>, st |-> TRUE,
                                   sy |-> setup.imm = "all", del |-> TRUE]})

\* What process_list returns: the newest stable version and the unstable ones.
BsList(S) ==
    LET st == Newest({e \in S : e.st})
    IN {[v |-> e.v, st |-> FALSE] : e \in {f \in S : ~f.st}}
       \cup (IF st.del \/ st.v = 0 THEN {} ELSE {[v |-> st.v, st |-> TRUE]})

\* A crash keeps what was synced and any first part of the rest.
AfterCrash(S, cut) == Prune({e \in S : e.sy \/ e.v <= cut})

-----------------------------------------------------------------------------
(* The PG in the primary's memory                                           *)

\* pg.st stands for the PG_PEERING .. PG_STOPPING bits; the PG_HAS_* and
\* PG_DEGRADED bits follow from ob, mis, fa and cur.
NoObj == [k |-> "clean", locs |-> {}]     \* object_state: NULL
NoFlush == {<<0, "none">>}                \* flush_batch: NULL
NoPG == [st |-> "none", target |-> {}, cur |-> {}, peers |-> {}, all |-> {},
         hist |-> {}, epoch |-> 0, rep |-> 0, list |-> <<>>, ov |-> 0,
         ob |-> NoObj, fa |-> <<>>, fb |-> NoFlush, mis |-> FALSE,
         todel |-> <<>>, un |-> <<>>, osds |-> {}, dpg |-> FALSE,
         lod |-> FALSE, hch |-> FALSE]
NoOp == [w |-> -1, at |-> "none", pend |-> {}, got |-> {}, ok |-> {}, bad |-> {},
         drop |-> FALSE, err |-> FALSE, tgt |-> 0, c |-> <<>>, ob |-> NoObj]
NoSyn == [who |-> "none", at |-> "none", pend |-> {}, err |-> FALSE,
          un |-> <<>>, osds |-> {}, del |-> <<>>, dpg |-> FALSE, q |-> <<>>]
NoRd == [at |-> "none", pend |-> {}, behind |-> {}, got |-> {}, ver |-> 0, must |-> {}, out |-> "none"]
NoTxn == [at |-> "none", epoch |-> 0, hist |-> {}, all |-> {}, ok |-> FALSE]

prim == etcd.own
Size(p) == Cardinality(p.target)
HasUnclean(p) == DOMAIN p.fa # {}
\* state == PG_ACTIVE, but for PG_LEFT_ON_DEAD
Only(p) == /\ p.st = "active" /\ p.ob.k = "clean" /\ ~p.mis
           /\ ~HasUnclean(p) /\ Cardinality(p.cur) = Size(p)

\* report_pg_state(): the history ends when the PG is active and clean.
Report(p) ==
    IF Only(p) /\ ~p.lod /\ (p.hist # {} \/ Cardinality(p.all) > Size(p))
    THEN [p EXCEPT !.hist = {}, !.all = p.target, !.peers = p.target, !.hch = TRUE]
    ELSE IF Only(p) /\ p.lod
    THEN LET na == (p.all \ p.peers) \cup p.target
         IN [p EXCEPT !.hist = {}, !.all = na, !.peers = p.target,
                      !.hch = @ \/ p.hist # {} \/ p.all # na]
    ELSE p

\* reset_pg()
Reset(p) == [p EXCEPT !.peers = {}, !.todel = <<>>, !.ob = NoObj, !.mis = FALSE, !.fa = <<>>,
                      !.fb = NoFlush, !.ov = 0, !.un = <<>>, !.dpg = FALSE]

\* start_pg_peering(): which OSDs to work with, and whether they are enough.
Unreached(p, w) == {o \in p.all : o \notin conn' /\ o \notin w /\ o \in reg}
HistoryShort(p) ==
    \E h \in p.hist : Cardinality(h) >= setup.k /\ Cardinality(h \cap conn') < setup.k
StartPeering(p, w) ==
    LET cs == p.target \cap conn'
        bad == Unreached(p, w) # {} \/ Cardinality(cs) < setup.minsize \/ HistoryShort(p)
        ps == p.all \cap conn'
    IN [Reset(p) EXCEPT !.st = IF bad THEN "incomplete" ELSE "peering",
            !.cur = cs, !.peers = ps, !.lod = FALSE,
            !.list = IF bad THEN <<>> ELSE [o \in DOMAIN p.list \cap ps |-> p.list[o]]]

\* drop_dirty_pg_connections(): the client loses its connection with what it
\* has not synced, and has to repeat it.
DropClient(k) ==
    [k EXCEPT !.st = [w \in Writes |-> IF @[w] = "sent" THEN "unknown" ELSE @[w]],
              !.acked = @ \ k.dirty, !.dirty = {}, !.dpg = FALSE, !.sync = FALSE]
Orphan(s) == [s EXCEPT !.who = IF @ = "client" THEN "gone" ELSE @,
                       !.q = [i \in DOMAIN @ |-> "gone"]]

\* can_repeer(), can_stop()
Idle(p, c, q, s, r) == /\ c = NoOp /\ q = <<>> /\ r.at = "none"
                       /\ ~s.dpg /\ p.fb = NoFlush

\* Sub-operations of the write, the sync and the flush that are on their way
\* to an OSD.  It serves them in the order of their arrival: a sub-read is
\* behind those that were sent before it and goes before those sent later.
Pending(c, s, p) ==
    {<<o, c.at>> : o \in c.pend} \cup {<<o, "sync", s.at>> : o \in s.pend}
    \cup {<<x[1], "flush">> : x \in p.fb \ NoFlush}
Turn(x) == x[1] \notin rd.pend \/ x \in rd.behind

\* The end of every step of the primary, given its new PG, write operation,
\* queue, sync, read, client, transaction and watch:
\* continue_pg() goes on with peering or stopping once nothing is in flight,
\* and report_pg_states() sends the history unless it is already sending.
Become(p, c, q, s, r, k, t, v) ==
    LET idle == Idle(p, c, q, s, r)
        start == p.st = "restart" \/ (p.st = "repeering" /\ idle)
        ended == p.st = "stopping" /\ idle
        p1 == IF start THEN StartPeering(p, wanted) ELSE IF ended THEN NoPG ELSE Report(p)
        send == p1.hch /\ t = NoTxn
        drop == setup.imm = "none" /\ k.dpg
                /\ (start \/ (p.st = "stopping" /\ pg.st # "stopping"))
    IN /\ pg' = IF send THEN [p1 EXCEPT !.hch = FALSE] ELSE p1
       /\ txn' = IF send THEN [at |-> "sent", epoch |-> p1.epoch, hist |-> p1.hist,
                               all |-> p1.all, ok |-> v]
                 ELSE t
       /\ seen' = v
       /\ wanted' = (IF start THEN wanted \cup p.all ELSE wanted) \ conn'
       /\ cur' = c /\ queue' = q
       /\ syn' = IF drop THEN Orphan(s) ELSE s
       /\ rd' = [r EXCEPT !.must = IF drop THEN {} ELSE @,
                          !.behind = @ \cap Pending(c, s, p1)]
       /\ cl' = IF drop THEN DropClient(k) ELSE k
       /\ etcd' = IF ended THEN [etcd EXCEPT !.own = 0] ELSE etcd

\* repeer_pg()
Repeer(p) == IF p.st \in {"peering", "incomplete"} THEN [p EXCEPT !.st = "restart"]
             ELSE IF p.st \in {"active", "repeering"} THEN [p EXCEPT !.st = "repeering"]
             ELSE p

-----------------------------------------------------------------------------
(* Writes: continue_primary_write() and its sub-operations                  *)

Lowest(S, n) == {o \in S : Cardinality({x \in S : x < o}) < n}
\* Mutant: unclean objects are read from the current set.
MutSourceCurrent(p) == p.cur
\* get_object_osd_set()
Source(p) == IF p.ob = NoObj THEN p.cur ELSE {l.o : l \in {x \in p.ob.locs : ~x.bad}}
ReadFrom(p) == IF setup.ec THEN Lowest(Source(p), setup.k)
               ELSE IF prim \in Source(p) THEN {prim} ELSE Lowest(Source(p), 1)
Unreadable(p) == Cardinality(Source(p)) < setup.k

Fail(k, W) == [k EXCEPT !.st = [w \in Writes |-> IF w \in W /\ @[w] = "sent" THEN "err" ELSE @[w]]]
Ops(q) == {q[i] : i \in DOMAIN q}

\* The next queued operation starts with its read (resume_1); an incomplete
\* object refuses partial writes with EIO.
NextOp(p, q) == IF q = <<>> \/ Unreadable(p) THEN NoOp
                ELSE [NoOp EXCEPT !.w = Head(q), !.at = "read", !.pend = ReadFrom(p), !.ob = p.ob]
NextQueue(p, q) == IF q = <<>> \/ Unreadable(p) THEN <<>> ELSE Tail(q)
NextClient(p, q, k) == IF Unreadable(p) THEN Fail(k, Ops(q)) ELSE k
Advance(p, q, k) == Become(p, NextOp(p, q), NextQueue(p, q), syn, rd, NextClient(p, q, k), txn, seen)

\* pg_cancel_write_queue()
Cancel(p, c) == Become(p, NoOp, <<>>, syn, rd, Fail(cl, {c.w} \cup Ops(queue)), txn, seen)
Go(p, c) == Become(p, c, queue, syn, rd, cl, txn, seen)

\* check_write_queue(): the object's pending flush and other writes go first.
Enqueue(w, k) ==
    IF cur = NoOp /\ queue = <<>> /\ ~HasUnclean(pg) THEN Advance(pg, <<w>>, k)
    ELSE Become(pg, cur, Append(queue, w), syn, rd, k, txn, seen)

env == <<setup, up, reg>>

ClientWrite(w) ==
    /\ pg.st = "active" /\ w \in setup.writes /\ cl.st[w] = "idle" /\ ~cl.sync
    /\ \A x \in Writes : x < w => cl.st[x] # "idle"
    /\ conn' = conn
    /\ Enqueue(w, [cl EXCEPT !.st[w] = "sent"])
    /\ UNCHANGED <<env, store, count>>

\* continue_recovery(): an empty write moves the object to the current set.
Recover ==
    /\ pg.st = "active" /\ ~HasUnclean(pg) /\ cur.w # 0 /\ 0 \notin Ops(queue)
    /\ count.recs < setup.recs
    /\ \/ pg.ob.k = "degraded"
       \/ pg.ob.k = "misplaced" /\ Cardinality(pg.cur) = Size(pg)
    /\ conn' = conn
    /\ Enqueue(0, cl)
    /\ count' = [count EXCEPT !.recs = @ + 1]
    /\ UNCHANGED <<env, store>>

\* The write goes to the current set unless the PG is on its way down.
SubmitWrite(p, c, v) ==
    IF p.st \in {"repeering", "stopping"}
    THEN Become(p, NoOp, <<>>, syn, rd, Fail(cl, {c.w} \cup Ops(queue)), txn, v)
    ELSE Become(p, [c EXCEPT !.at = "write", !.pend = p.cur], queue, syn, rd, cl, txn, v)

\* The next version number: a new epoch restarts the counter, and a counter
\* with its high bit set asks for a new epoch.
Bumped(p, fact) == IF EpochOf(fact) >= p.epoch /\ fact % EpochSpan >= EpochSpan \div 2
                   THEN [p EXCEPT !.epoch = @ + 1] ELSE p
\* Mutant: the epoch is not put into the version.
MutVerNoEpoch(p, fact) == fact + 1
TargetVer(p, fact) == IF EpochOf(fact) < p.epoch THEN p.epoch * EpochSpan + 1 ELSE fact + 1
\* A set that writes in a new epoch is put into the PG history first.
WithHistory(p) == [p EXCEPT !.hch = TRUE,
                            !.hist = IF Only(p) /\ ~p.lod THEN @ ELSE @ \cup {p.cur}]
AfterRead(c) ==
    LET fact == Max({g.v : g \in c.got} \cup {0})
        base == IF fact = 0 THEN <<>> ELSE (CHOOSE g \in c.got : g.v = fact).c
        c1 == [c EXCEPT !.got = {}, !.tgt = TargetVer(pg, fact),
                        !.c = IF c.w = 0 THEN base ELSE Append(base, c.w)]
        p1 == Bumped(IF setup.ec THEN [pg EXCEPT !.ov = fact] ELSE pg, fact)
    IN IF c.err \/ Cardinality({g.v : g \in c.got} \ {0}) > 1 THEN Cancel(pg, c)
       ELSE IF p1.epoch > p1.rep THEN Go(WithHistory(p1), [c1 EXCEPT !.at = "wait"])
       ELSE SubmitWrite(p1, c1, seen)

ReadReply(o) ==
    /\ cur.at = "read" /\ o \in cur.pend
    /\ conn' = conn
    /\ LET e == ReadAt(store[o], Inf)
           c == [cur EXCEPT !.pend = @ \ {o}, !.err = @ \/ o \notin conn,
                            !.got = IF o \in conn THEN @ \cup {[v |-> e.v, c |-> e.c]} ELSE @]
       IN IF c.pend = {} THEN AfterRead(c) ELSE Go(pg, c)
    /\ UNCHANGED <<env, store, count>>

Ack(p, c) ==
    Advance(p, queue,
            IF c.w = 0 \/ cl.st[c.w] # "sent" THEN cl
            ELSE [cl EXCEPT !.st[c.w] = "ok", !.acked = @ \cup {c.w},
                            !.safe = IF setup.imm = "all" THEN @ \cup {c.w} ELSE @,
                            !.dirty = IF setup.imm = "all" THEN @ ELSE @ \cup {c.w},
                            !.dpg = setup.imm = "none"])

\* Chunks of the old object state outside the current set
Extra(p, c) == {l.o : l \in c.ob.locs} \ p.cur

\* resume_7: with immediate commits extra chunks go at once.
DeleteExtra(p, c) ==
    IF setup.imm = "all" /\ Extra(p, c) # {}
    THEN Go(p, [c EXCEPT !.at = "del", !.pend = Extra(p, c), !.err = FALSE])
    ELSE Ack(p, c)

\* remove_object_from_state(); PG_HAS_MISPLACED is left to Settle.
Clean(p) == [p EXCEPT !.ob = NoObj]

\* The object is clean again; later, unless commits are immediate, its extra
\* chunks are to be deleted ...
Settle(p, c) ==
    LET del == IF c.ob # NoObj /\ setup.imm = "none" THEN [o \in Extra(p, c) |-> c.tgt] ELSE <<>>
        todel == [o \in DOMAIN p.todel \cup DOMAIN del |-> IF o \in DOMAIN del THEN del[o] ELSE p.todel[o]]
    IN [Clean(p) EXCEPT !.ov = IF setup.ec THEN 0 ELSE @, !.todel = todel,
                 !.mis = @ \/ (c.ob # NoObj /\ DOMAIN todel # {})]
\* ... and its new versions to be synced: remember_unstable_write().
Remember(p, c) ==
    IF setup.imm = "all" THEN p
    ELSE [p EXCEPT !.osds = @ \cup p.cur, !.dpg = TRUE,
                   !.un = IF setup.ec
                          THEN [o \in DOMAIN @ \cup p.cur |-> IF o \in p.cur THEN c.tgt ELSE @[o]] ELSE @]

\* resume_5
AfterWrite(p, c) ==
    IF c.err
    THEN LET back == {o \in p.cur \ c.bad : o \in conn'}
         IN IF c.ok # {} /\ ~c.drop /\ setup.ec /\ back # {}
            THEN Go(p, [c EXCEPT !.at = "rollback", !.pend = back])
            ELSE Cancel([p EXCEPT !.ov = 0], c)
    ELSE IF setup.imm = "all" /\ setup.ec
    THEN Go(Settle(p, c), [c EXCEPT !.at = "stab", !.pend = p.cur])
    ELSE DeleteExtra(Remember(Settle(p, c), c), c)

Exists(o) == Newest(store[o]).v >= cur.tgt
Written(o) == BsWrite(store[o], cur.tgt, setup.ec \/ cur.ob # NoObj, cur.w, cur.c)
WriteStep(p, c) == IF c.pend = {} THEN AfterWrite(p, c) ELSE Go(p, c)

WriteReply(o) ==
    /\ cur.at = "write" /\ o \in cur.pend /\ Turn(<<o, cur.at>>) /\ o \in conn /\ ~Exists(o)
    /\ conn' = conn
    /\ store' = [store EXCEPT ![o] = Written(o)]
    /\ WriteStep(pg, [cur EXCEPT !.pend = @ \ {o}, !.ok = @ \cup {o}])
    /\ UNCHANGED <<env, count>>

WriteNoSpace(o) ==
    /\ cur.at = "write" /\ o \in cur.pend /\ Turn(<<o, cur.at>>) /\ o \in conn
    /\ count.nospace < setup.nospace
    /\ conn' = conn
    /\ WriteStep(pg, [cur EXCEPT !.pend = @ \ {o}, !.bad = @ \cup {o}, !.err = TRUE])
    /\ count' = [count EXCEPT !.nospace = @ + 1, !.full = ~setup.ec]
    /\ UNCHANGED <<env, store>>

\* EEXIST or a broken connection: handle_primary_subop() drops the peer.
WriteFail(o) ==
    /\ cur.at = "write" /\ o \in cur.pend /\ Turn(<<o, cur.at>>) /\ (o \notin conn \/ (o # prim /\ Exists(o)))
    /\ conn' = conn \ {o}
    /\ WriteStep(IF o \in conn THEN Repeer(pg) ELSE pg,
                 [cur EXCEPT !.pend = @ \ {o}, !.bad = @ \cup {o}, !.err = TRUE, !.drop = TRUE])
    /\ UNCHANGED <<env, store, count>>

\* Answers to STABILIZE, DELETE and ROLLBACK sub-operations of the write
StabReply(o) ==
    /\ cur.at = "stab" /\ o \in cur.pend /\ Turn(<<o, cur.at>>)
    /\ LET good == o \in conn /\ StableOK(store[o], cur.tgt)
           c == [cur EXCEPT !.pend = @ \ {o}, !.err = @ \/ ~good]
           p == IF o \in conn /\ ~good /\ o # prim THEN Repeer(pg) ELSE pg
       IN /\ conn' = IF good \/ o = prim THEN conn ELSE conn \ {o}
          /\ store' = IF good THEN [store EXCEPT ![o] = BsStable(@, cur.tgt)] ELSE store
          /\ IF c.pend # {} THEN Go(p, c)
             ELSE IF c.err THEN Cancel(p, c) ELSE DeleteExtra(p, c)
    /\ UNCHANGED <<env, count>>

DelReply(o) ==
    /\ cur.at = "del" /\ o \in cur.pend /\ Turn(<<o, cur.at>>)
    /\ conn' = conn
    /\ store' = IF o \in conn THEN [store EXCEPT ![o] = BsDelete(@, cur.tgt)] ELSE store
    /\ LET c == [cur EXCEPT !.pend = @ \ {o}, !.err = @ \/ o \notin conn]
       IN IF c.pend # {} THEN Go(pg, c) ELSE IF c.err THEN Cancel(pg, c) ELSE Ack(pg, c)
    /\ UNCHANGED <<env, count>>

RollbackReply(o) ==
    /\ cur.at = "rollback" /\ o \in cur.pend /\ Turn(<<o, cur.at>>)
    /\ conn' = conn
    /\ store' = IF o \in conn THEN [store EXCEPT ![o] = BsRollback(@, cur.tgt - 1)] ELSE store
    /\ LET c == [cur EXCEPT !.pend = @ \ {o}]
       IN IF c.pend # {} THEN Go(pg, c) ELSE Cancel([pg EXCEPT !.ov = 0], c)
    /\ UNCHANGED <<env, count>>

-----------------------------------------------------------------------------
(* Flushing after peering: osd_flush.cpp                                    *)

\* handle_peers(), submit_pg_flush_ops(): all the object's chunks at once.
SubmitFlush ==
    /\ pg.st = "active" /\ HasUnclean(pg) /\ pg.fb = NoFlush
    /\ conn' = conn
    /\ Go([pg EXCEPT !.fb = {<<o, "rollback">> : o \in {x \in DOMAIN pg.fa : pg.fa[x].rb >= 0}}
                            \cup {<<o, "stable">> : o \in {x \in DOMAIN pg.fa : pg.fa[x].st > 0}}],
          cur)
    /\ UNCHANGED <<env, store, count>>

FlushOK(S, o, kind) == IF kind = "rollback" THEN RollbackOK(S, pg.fa[o].rb)
                       ELSE StableOK(S, pg.fa[o].st)
Flushed(S, o, kind) == IF kind = "rollback" THEN BsRollback(S, pg.fa[o].rb)
                       ELSE BsStable(S, pg.fa[o].st)

\* handle_flush_op(): the last answer lets the object's writes go on.
FlushReply(o, kind) ==
    /\ <<o, kind>> \in pg.fb /\ Turn(<<o, "flush">>) /\ (kind = "stable" => <<o, "rollback">> \notin pg.fb)
    /\ LET good == o \in conn /\ FlushOK(store[o], o, kind)
           p == [(IF o \in conn /\ ~good THEN Repeer(pg) ELSE pg) EXCEPT !.fb = @ \ {<<o, kind>>}]
       IN /\ good \/ o # prim
          /\ conn' = IF good THEN conn ELSE conn \ {o}
          /\ store' = IF good THEN [store EXCEPT ![o] = Flushed(@, o, kind)] ELSE store
          /\ IF p.fb # {} THEN Go(p, cur)
             ELSE Advance([p EXCEPT !.fa = <<>>, !.ov = 0, !.fb = NoFlush], queue, cl)
    /\ UNCHANGED <<env, count>>

-----------------------------------------------------------------------------
(* Syncs: continue_primary_sync()                                           *)

\* The next stage of a sync that still has something to do
Stages == <<"sync", "stab", "del", "end">>
StagePeers(s, at) == CASE at = "sync" -> s.osds \cap conn'
                       [] at = "stab" -> DOMAIN s.un
                       [] at = "del" -> DOMAIN s.del
                       [] at = "end" -> {}
StageAfter(s, n) ==
    LET m == Min({i \in n..4 : i = 4 \/ StagePeers(s, Stages[i]) # {}})
    IN [s EXCEPT !.at = Stages[m], !.pend = StagePeers(s, Stages[m])]

\* resume_2: unstable writes, dirty OSDs and PGs become the sync's own.
\* The syncs of q that find nothing to do end at once.
SyncDone(k) == [k EXCEPT !.safe = @ \cup k.dirty, !.dirty = {}, !.dpg = FALSE, !.sync = FALSE]
BeginSync(p, k, q) ==
    IF q = <<>> THEN [p |-> p, k |-> k, s |-> NoSyn]
    ELSE LET s == StageAfter([NoSyn EXCEPT !.who = Head(q), !.q = Tail(q), !.un = p.un, !.osds = p.osds,
                                           !.del = IF p.dpg THEN p.todel ELSE <<>>, !.dpg = p.dpg], 1)
             p1 == [p EXCEPT !.un = <<>>, !.osds = {}, !.dpg = FALSE]
         IN IF p.osds = {} \/ s.at = "end"
            THEN [p |-> IF p.osds = {} THEN p ELSE p1, s |-> NoSyn,
                  k |-> IF "client" \in Ops(q) THEN SyncDone(k) ELSE k]
            ELSE [p |-> p1, k |-> k, s |-> s]

Sync(r) == Become(r.p, cur, queue, r.s, rd, r.k, txn, seen)
StartSync(who, k) ==
    /\ count.syncs < setup.syncs /\ prim # 0 /\ pg.st # "none"
    /\ conn' = conn
    /\ IF syn = NoSyn THEN Sync(BeginSync(pg, k, <<who>>))
       ELSE Sync([p |-> pg, k |-> k, s |-> [syn EXCEPT !.q = Append(@, who)]])
    /\ count' = [count EXCEPT !.syncs = @ + 1]
    /\ UNCHANGED <<env, store>>

\* The client waits for its writes before it syncs.
ClientSync ==
    /\ setup.imm = "none" /\ ~cl.sync /\ cl.dirty # {}
    /\ \A w \in Writes : cl.st[w] # "sent"
    /\ StartSync("client", [cl EXCEPT !.sync = TRUE])
AutoSync ==
    /\ setup.imm = "none" /\ syn.who # "self" /\ "self" \notin Ops(syn.q)
    /\ pg.osds # {}
    /\ StartSync("self", cl)

\* The sync ends: it gives back what it could not do, or forgets the deleted
\* copies; then the PG goes on and the next sync begins.
Returned(p, s) ==
    LET un == IF p.st = "active"
              THEN [o \in DOMAIN p.un \cup DOMAIN s.un |->
                       Max({f[o] : f \in {g \in {p.un, s.un} : o \in DOMAIN g}})]
              ELSE p.un
    IN [p EXCEPT !.osds = @ \cup s.osds, !.dpg = @ \/ s.dpg, !.un = un]
Completed(p, s) ==
    LET left == [o \in {x \in DOMAIN p.todel : x \notin DOMAIN s.del \/ p.todel[x] # s.del[x]}
                     |-> p.todel[o]]
    IN [p EXCEPT !.todel = left, !.osds = @ \cup DOMAIN s.del,
                 !.mis = IF DOMAIN s.del # {} /\ p.ob.k # "misplaced" /\ DOMAIN left = {} THEN FALSE ELSE @]
EndSync(p, s) ==
    LET p1 == IF s.err THEN Returned(p, s) ELSE Completed(p, s)
        again == p1.st = "repeering" /\ Idle(p1, cur, queue, NoSyn, rd)
        p2 == IF again THEN [Reset(p1) EXCEPT !.st = "restart"] ELSE p1
        gone == again /\ cl.dpg
        k1 == IF gone THEN DropClient(cl)
              ELSE IF s.who # "client" THEN cl
              ELSE IF s.err THEN [cl EXCEPT !.sync = FALSE] ELSE SyncDone(cl)
    IN Sync(BeginSync(p2, k1, IF gone THEN Orphan(s).q ELSE s.q))
SyncStep(p, s, n) ==
    IF s.pend # {} THEN Sync([p |-> p, k |-> cl, s |-> s])
    ELSE LET s1 == IF s.err THEN [s EXCEPT !.at = "end"] ELSE StageAfter(s, n)
         IN IF s1.at = "end" THEN EndSync(p, s1) ELSE Sync([p |-> p, k |-> cl, s |-> s1])

SyncReply(o) ==
    /\ syn.at = "sync" /\ o \in syn.pend /\ Turn(<<o, "sync", syn.at>>)
    /\ conn' = conn
    /\ store' = IF o \in conn THEN [store EXCEPT ![o] = BsSync(@)] ELSE store
    /\ SyncStep(pg, [syn EXCEPT !.pend = @ \ {o}, !.err = @ \/ o \notin conn], 2)
    /\ UNCHANGED <<env, count>>

SyncStabReply(o) ==
    /\ syn.at = "stab" /\ o \in syn.pend /\ Turn(<<o, "sync", syn.at>>)
    /\ LET good == o \in conn /\ StableOK(store[o], syn.un[o])
           p == IF o \in conn /\ ~good THEN Repeer(pg) ELSE pg
       IN /\ good \/ o # prim
          /\ conn' = IF good THEN conn ELSE conn \ {o}
          /\ store' = IF good THEN [store EXCEPT ![o] = BsStable(@, syn.un[o])] ELSE store
          /\ SyncStep(p, [syn EXCEPT !.pend = @ \ {o}, !.err = @ \/ ~good], 3)
    /\ UNCHANGED <<env, count>>

SyncDelReply(o) ==
    /\ syn.at = "del" /\ o \in syn.pend /\ Turn(<<o, "sync", syn.at>>)
    /\ conn' = conn
    /\ store' = IF o \in conn THEN [store EXCEPT ![o] = BsDelete(@, syn.del[o])] ELSE store
    /\ SyncStep(pg, [syn EXCEPT !.pend = @ \ {o}, !.err = @ \/ o \notin conn], 4)
    /\ UNCHANGED <<env, count>>

-----------------------------------------------------------------------------
(* Reads: continue_primary_read()                                           *)

StartRead ==
    /\ pg.st = "active" /\ rd.at = "none" /\ count.reads < setup.reads /\ ~Unreadable(pg)
    /\ conn' = conn
    /\ Become(pg, cur, queue, syn,
              [NoRd EXCEPT !.at = "read", !.pend = ReadFrom(pg), !.must = cl.acked,
                           !.behind = Pending(cur, syn, pg),
                           !.ver = IF pg.ov # 0 THEN pg.ov ELSE Inf],
              cl, txn, seen)
    /\ count' = [count EXCEPT !.reads = @ + 1]
    /\ UNCHANGED <<env, store>>

\* The answer is good when it is made of one version that holds every write
\* acknowledged before the read; otherwise an error or stale data is returned.
Answer(r) ==
    LET vs == {g.v : g \in r.got}
        full == {g \in r.got : g.v # 0}
    IN CASE r.out = "err" \/ Cardinality(vs \ {0}) > 1 -> "none"
         [] r.must # {} /\ (full = {} \/ (setup.ec /\ 0 \in vs)) -> "stale"
         [] \E g \in full : ~(r.must \subseteq Ops(g.c)) -> "stale"
         [] OTHER -> "none"
RdReply(o) ==
    /\ rd.at = "read" /\ o \in rd.pend /\ \A x \in rd.behind : x[1] # o
    /\ conn' = conn
    /\ LET e == ReadAt(store[o], rd.ver)
           r == [rd EXCEPT !.pend = @ \ {o}, !.out = IF o \in conn THEN @ ELSE "err",
                           !.got = IF o \in conn THEN @ \cup {[v |-> e.v, c |-> e.c]} ELSE @]
       IN Become(pg, cur, queue, syn,
                 IF r.pend = {} THEN [NoRd EXCEPT !.out = Answer(r)] ELSE r, cl, txn, seen)
    /\ UNCHANGED <<env, store, count>>

-----------------------------------------------------------------------------
(* Peering: continue_pg_peering(), calc_object_states()                     *)

ListReply(o) ==
    /\ pg.st = "peering" /\ o \in pg.peers \ DOMAIN pg.list /\ o \in conn
    /\ conn' = conn
    /\ Go([pg EXCEPT !.list = [x \in DOMAIN @ \cup {o} |-> IF x = o THEN BsList(store[o]) ELSE @[x]]], cur)
    /\ UNCHANGED <<env, store, count>>

Listed(l, v) == {o \in DOMAIN l : \E e \in l[o] : e.v = v}
\* Mutant: a stable version is not enough.
MutRecoverableOnly(l, v) == Cardinality(Listed(l, v)) >= setup.k /\ setup.ec
\* handle_version(): a version is kept if it is stable or recoverable.
Kept(l, v) == \/ \E o \in DOMAIN l : [v |-> v, st |-> TRUE] \in l[o]
              \/ setup.ec /\ Cardinality(Listed(l, v)) >= setup.k
Top(S) == Max({e.v : e \in S} \cup {0})
Versions(l) == UNION {{e.v : e \in l[o]} : o \in DOMAIN l}
Target(l) == Max({v \in Versions(l) : Kept(l, v)} \cup {0})

\* finish_object(): what to roll back and to stabilize on each OSD
FlushActions(l, t) ==
    LET below(o) == Top({e \in l[o] : e.v <= t})
        want(o) == IF Top(l[o]) > t THEN below(o) ELSE Top(l[o])
        stab(o) == Top({e \in l[o] : e.st})
    IN [o \in {x \in DOMAIN l : stab(x) < Top(l[x])} |->
           [rb |-> IF Top(l[o]) > t THEN below(o) ELSE -1,
            st |-> IF stab(o) < want(o) THEN want(o) ELSE 0]]

\* ... and the object's state.  Targets are listed in ascending order.
ObjectState(p, l, t) ==
    LET at == Listed(l, t)
        first == IF Min(p.target) \in p.cur THEN Min(p.target) ELSE 0
        old == {o \in DOMAIN l \ at : /\ \E e \in l[o] : e.v < t
                                      /\ IF setup.ec THEN o \notin p.cur ELSE o # first}
        k == IF setup.ec /\ Cardinality(at) < setup.k THEN "incomplete"
             ELSE IF Cardinality(at) < Cardinality(p.cur) THEN "degraded"
             ELSE IF ~(at \subseteq p.cur) \/ old # {} THEN "misplaced" ELSE "clean"
    IN IF t = 0 \/ k = "clean" THEN NoObj
       ELSE [k |-> k, locs |-> {[o |-> o, bad |-> o \in old] : o \in at \cup old}]

\* The epoch is the greatest one listed, or a new one unless the PG is clean.
Peered(p) ==
    LET l == p.list
        t == Target(l)
        ob == ObjectState(p, l, t)
        e == Max({EpochOf(v) : v \in Versions(l)} \cup {0})
        p1 == [p EXCEPT !.st = "active", !.list = <<>>, !.ob = ob, !.mis = ob.k = "misplaced",
                        !.fa = FlushActions(l, t), !.lod = p.peers # p.all,
                        !.ov = IF t # 0 /\ t < Max(Versions(l)) THEN t ELSE 0]
    IN [p1 EXCEPT !.epoch = IF Only(p1) /\ ~p1.lod THEN e ELSE e + 1]
FinishPeering ==
    /\ pg.st = "peering" /\ DOMAIN pg.list = pg.peers
    /\ conn' = conn
    /\ Go(Peered(pg), cur)
    /\ count' = [count EXCEPT !.old = @ \/ (~(Only(Peered(pg)) /\ ~Peered(pg).lod)
                                           /\ Peered(pg).epoch <= etcd.epoch)]
    /\ UNCHANGED <<env, store>>

-----------------------------------------------------------------------------
(* Connections, crashes and restarts                                        *)

\* What the requests on their way to o do to its store
CurEffect(S, o) ==
    IF o \notin cur.pend THEN S
    ELSE CASE cur.at = "write" -> IF Exists(o) THEN S ELSE Written(o)
           [] cur.at = "stab" -> IF StableOK(S, cur.tgt) THEN BsStable(S, cur.tgt) ELSE S
           [] cur.at = "del" -> BsDelete(S, cur.tgt)
           [] cur.at = "rollback" -> BsRollback(S, cur.tgt - 1)
           [] OTHER -> S
SynEffect(S, o) ==
    IF o \notin syn.pend THEN S
    ELSE CASE syn.at = "sync" -> BsSync(S)
           [] syn.at = "stab" -> IF StableOK(S, syn.un[o]) THEN BsStable(S, syn.un[o]) ELSE S
           [] syn.at = "del" -> BsDelete(S, syn.del[o])
FlushEffect(S, o) ==
    LET S1 == IF <<o, "rollback">> \in pg.fb /\ FlushOK(S, o, "rollback")
              THEN Flushed(S, o, "rollback") ELSE S
    IN IF <<o, "stable">> \in pg.fb /\ FlushOK(S1, o, "stable")
       THEN Flushed(S1, o, "stable") ELSE S1
\* hit: which of them the peer executes before it is lost
Hit(S, o, hit) ==
    LET S1 == IF "cur" \in hit THEN CurEffect(S, o) ELSE S
        S2 == IF "syn" \in hit THEN SynEffect(S1, o) ELSE S1
    IN IF "flush" \in hit THEN FlushEffect(S2, o) ELSE S2
Hits(o) == {Hit(store[o], o, hit) : hit \in SUBSET {"cur", "syn", "flush"}}
Crashed(o) == {AfterCrash(S, cut) : S \in Hits(o), cut \in VerSet(o) \cup {0}}
Outcomes(o) == IF o = prim THEN Crashed(o) ELSE IF o \in conn THEN Hits(o) ELSE {store[o]}
Failed == count.fails < setup.fails /\ count' = [count EXCEPT !.fails = @ + 1]

Drop(o) == IF o \in pg.all THEN Go(Repeer(pg), cur) ELSE Go(pg, cur)

\* stop_client(), repeer_pgs()
Disconnect(o) ==
    /\ o \in conn \ {prim} /\ Failed
    /\ conn' = conn \ {o}
    /\ \E S \in Hits(o) : store' = [store EXCEPT ![o] = S]
    /\ Drop(o)
    /\ UNCHANGED env

Crash(o) ==
    /\ o \in up \ {prim} /\ Failed
    /\ up' = up \ {o} /\ conn' = conn \ {o}
    /\ \E S \in Crashed(o) : store' = [store EXCEPT ![o] = S]
    /\ IF o \in conn THEN Drop(o) ELSE Go(pg, cur)
    /\ UNCHANGED <<setup, reg>>

PrimCrash ==
    /\ prim \in up /\ pg.st # "none" /\ Failed
    /\ up' = up \ {prim} /\ conn' = {} /\ wanted' = {}
    /\ store' \in {f \in [OSDs -> UNION {Outcomes(o) : o \in OSDs}] : \A o \in OSDs : f[o] \in Outcomes(o)}
    /\ pg' = NoPG /\ cur' = NoOp /\ queue' = <<>> /\ syn' = NoSyn /\ rd' = NoRd
    /\ cl' = DropClient(cl)
    /\ \E t \in {txn, NoTxn} : txn' = t
    /\ seen' = TRUE
    /\ UNCHANGED <<setup, reg, etcd>>

Restart(o) ==
    /\ o \in OSDs \ up
    /\ up' = up \cup {o} /\ reg' = reg \cup {o} /\ conn' = conn
    /\ Go(pg, cur)
    /\ UNCHANGED <<setup, store, count>>

\* /osd/state of a dead OSD disappears with its lease; so does /pg/state.
Expire(o) ==
    /\ o \in reg \ up
    /\ reg' = reg \ {o} /\ conn' = conn
    /\ Go(pg, cur)
    /\ UNCHANGED <<setup, up, store, count>>
OwnExpire ==
    /\ pg.st = "none" /\ prim # 0
    /\ etcd' = [etcd EXCEPT !.own = 0] /\ txn' = NoTxn
    /\ UNCHANGED <<env, store, conn, wanted, pg, cur, queue, syn, rd, seen, cl, count>>

\* on_connect_peer(): a connection that appears or fails re-peers the PG.
Connect(o) ==
    /\ pg.st # "none" /\ o \in (wanted \cap up) \ conn
    /\ o \notin cur.pend \cup syn.pend \cup rd.pend
    /\ conn' = conn \cup {o}
    /\ Drop(o)
    /\ UNCHANGED <<env, store, count>>
ConnectFail(o) ==
    /\ pg.st # "none" /\ o \in wanted \ conn /\ o \notin up
    /\ conn' = conn
    /\ Drop(o)
    /\ UNCHANGED <<env, store, count>>

-----------------------------------------------------------------------------
(* etcd: the PG's owner, target and history                                 *)

AllPeers == etcd.target \cup etcd.all \cup UNION etcd.hist

\* apply_pg_config(): the OSD holds the PG's state key and starts peering
\* (the report that gave the key up went out after any other).
TakePG(o) ==
    /\ prim = 0 /\ txn.at # "sent" /\ o \in etcd.target \cap up \cap reg
    /\ txn' = NoTxn
    /\ LET p == [NoPG EXCEPT !.target = etcd.target, !.hist = etcd.hist, !.all = AllPeers,
                             !.rep = etcd.epoch, !.st = "restart"]
       IN /\ conn' = {o} /\ wanted' = AllPeers \ {o}
          /\ pg' = StartPeering(p, wanted')
    /\ etcd' = [etcd EXCEPT !.own = o]
    /\ seen' = TRUE
    /\ UNCHANGED <<env, store, cur, queue, syn, rd, cl, count>>

\* report_pg_states(): compare-and-swap of /pg/history; the answer may come
\* before or after the watch event of the change.
TxnCommit ==
    /\ txn.at = "sent"
    /\ txn' = [txn EXCEPT !.at = IF txn.ok THEN "done" ELSE "failed"]
    /\ etcd' = IF txn.ok THEN [etcd EXCEPT !.epoch = txn.epoch, !.hist = txn.hist, !.all = txn.all]
               ELSE etcd
    /\ count' = [count EXCEPT !.over = @ \/ (txn.ok /\ pg.st \in {"none", "stopping"} /\ ~(etcd.hist \subseteq txn.hist))]
    /\ seen' = (seen /\ ~(txn.ok /\ pg.st # "none"))
    /\ UNCHANGED <<env, store, conn, wanted, pg, cur, queue, syn, rd, cl>>

\* After success the next report goes at once, after an error later.
TxnReply ==
    /\ txn.at \in {"done", "failed"}
    /\ conn' = conn
    /\ IF txn.at = "failed" /\ pg.st # "none"
       THEN /\ pg' = [pg EXCEPT !.hch = TRUE] /\ txn' = NoTxn
            /\ UNCHANGED <<wanted, cur, queue, syn, rd, etcd, seen, cl>>
       ELSE Become(pg, cur, queue, syn, rd, cl, NoTxn, seen)
    /\ UNCHANGED <<env, store, count>>
Resend ==
    /\ pg.hch /\ txn = NoTxn /\ conn' = conn
    /\ Go(pg, cur)
    /\ UNCHANGED <<env, store, count>>

\* apply_pg_config() stops a PG whose configuration has changed.
Changed(p) == p.target # etcd.target \/ p.hist # etcd.hist \/ p.all # AllPeers
StopPG(p) == [p EXCEPT !.st = "stopping", !.list = <<>>]

\* on_change_pg_history_hook(), then apply_pg_config()
Watch ==
    /\ pg.st # "none" /\ ~seen
    /\ conn' = conn
    /\ LET fresh == pg.epoch > pg.rep /\ etcd.epoch >= pg.epoch
           resume == fresh /\ cur.at = "wait"
           cancel == resume /\ pg.st \in {"repeering", "stopping"}
           p == [(IF Changed(pg) THEN StopPG(pg) ELSE pg) EXCEPT
                     !.rep = IF fresh THEN etcd.epoch ELSE @]
       IN Become(p,
                 IF cancel THEN NoOp
                 ELSE IF resume THEN [cur EXCEPT !.at = "write", !.pend = pg.cur] ELSE cur,
                 IF cancel THEN <<>> ELSE queue, syn, rd,
                 IF cancel THEN Fail(cl, {cur.w} \cup Ops(queue)) ELSE cl,
                 txn,
                 TRUE)
    /\ UNCHANGED <<env, store, count>>

\* The monitor gives the PG another target and remembers the old one.
MonRetarget ==
    /\ Failed
    /\ \E i \in DOMAIN setup.targets :
         /\ setup.targets[i] # etcd.target
         /\ etcd' = [etcd EXCEPT !.target = setup.targets[i], !.hist = @ \cup {etcd.target}]
    /\ txn' = [txn EXCEPT !.ok = FALSE]
    /\ seen' = (pg.st = "none")
    /\ UNCHANGED <<env, store, conn, wanted, pg, cur, queue, syn, rd, cl>>

-----------------------------------------------------------------------------
\* The PG begins active and clean, without the object, with the lowest OSD of
\* its target as its primary.
Init ==
    /\ setup \in Setups
    /\ store = [o \in OSDs |-> {}]
    /\ up = OSDs /\ reg = OSDs /\ wanted = {}
    /\ LET t == setup.targets[1]
       IN /\ conn = t
          /\ pg = [NoPG EXCEPT !.st = "active", !.target = t, !.cur = t, !.peers = t, !.all = t]
          /\ etcd = [own |-> Min(t), target |-> t, epoch |-> 0, hist |-> {}, all |-> {}]
    /\ cur = NoOp /\ queue = <<>> /\ syn = NoSyn /\ rd = NoRd /\ txn = NoTxn /\ seen = TRUE
    /\ cl = [st |-> [w \in Writes |-> "idle"], acked |-> {}, dirty |-> {}, safe |-> {},
             dpg |-> FALSE, sync |-> FALSE]
    /\ count = [fails |-> 0, nospace |-> 0, recs |-> 0, syncs |-> 0, reads |-> 0, old |-> FALSE, full |-> FALSE, over |-> FALSE]

Next ==
    \/ \E w \in Writes : ClientWrite(w)
    \/ Recover \/ SubmitFlush \/ ClientSync \/ AutoSync \/ StartRead \/ FinishPeering
    \/ \E o \in OSDs : \/ ReadReply(o) \/ WriteReply(o) \/ WriteNoSpace(o) \/ WriteFail(o)
                       \/ StabReply(o) \/ DelReply(o) \/ RollbackReply(o)
                       \/ SyncReply(o) \/ SyncStabReply(o) \/ SyncDelReply(o)
                       \/ FlushReply(o, "rollback") \/ FlushReply(o, "stable")
                       \/ RdReply(o) \/ ListReply(o)
                       \/ Disconnect(o) \/ Crash(o) \/ Restart(o) \/ Expire(o)
                       \/ Connect(o) \/ ConnectFail(o) \/ TakePG(o)
    \/ PrimCrash \/ OwnExpire \/ TxnCommit \/ TxnReply \/ Resend \/ Watch \/ MonRetarget

Spec == Init /\ [][Next]_vars
-----------------------------------------------------------------------------
(* Properties                                                               *)

TypeOK ==
    /\ SetupOK(setup)
    /\ up \subseteq OSDs /\ reg \subseteq OSDs /\ conn \subseteq up /\ wanted \subseteq OSDs
    /\ pg.st \in {"none", "incomplete", "peering", "active", "repeering", "stopping"}
    /\ pg.st # "none" => prim \in conn
    /\ pg.cur \subseteq pg.target /\ pg.target \subseteq OSDs /\ pg.all \subseteq OSDs
    /\ pg.ob.k \in {"clean", "misplaced", "degraded", "incomplete"}
    /\ cur.at \in {"none", "read", "wait", "write", "stab", "del", "rollback"}
    /\ (cur.at = "none") = (cur = NoOp)
    /\ syn.at \in {"none", "sync", "stab", "del"} /\ (syn.at = "none") = (syn = NoSyn)
    /\ rd.out \in {"none", "err", "stale"}
    /\ cl.dirty \subseteq cl.acked

\* What the code gets wrong, and the properties except (osd_peering_pg.h:93,
\* osd_cluster.cpp:1020, osd_primary_write.cpp:266-270):
\* - count.old: a PG that is not clean was activated with an epoch that was
\*   used before, since the OSD that alone has the newest one is away;
\* - count.over: a PG that stops has written its own history over the OSD set
\*   that the monitor had added to it;
\* - count.full: a replicated write failed on a full OSD and its copies differ.
EpochsGrow == ~count.old
HistoryKept == ~count.over

\* A finished read never returns data without a write that was acknowledged
\* before the read began (ver_override, get_object_osd_set), unless an epoch
\* was used twice or an OSD set was lost from the history before.
ReadsFresh == EpochsGrow /\ HistoryKept => rd.out # "stale"

\* Whatever the active PG would read now holds every write whose durability
\* was promised: acknowledged with immediate_commit, or synced. Excepted are
\* the futures of an epoch that was used twice and of an OSD set that was
\* lost from the history.
PromisedRead(o) == Ops(ReadAt(store[o], IF pg.ov # 0 THEN pg.ov ELSE Inf).c)
SafeKept == EpochsGrow /\ HistoryKept /\ pg.st = "active" /\ ~Unreadable(pg) =>
    \A o \in ReadFrom(pg) : cl.safe \subseteq PromisedRead(o)

\* Two chunks with one version number are of one content: as long as epochs
\* are not used twice, version numbers are not either (pg.epoch,
\* reported_epoch). And the versions a primary asks its own store to write,
\* stabilize or roll back are ones the store accepts: a local sub-operation
\* that fails kills the primary (handle_primary_bs_subop, handle_flush_op).
\* Excepted is an object of a replicated pool after one of its OSDs has
\* answered ENOSPC: the other copies keep the failed write, and the next one
\* may be given its version.
OneContent ==
    EpochsGrow /\ ~count.full =>
    /\ \A o1, o2 \in OSDs : \A e1 \in store[o1], e2 \in store[o2] :
           e1.v = e2.v /\ ~e1.del /\ ~e2.del => e1.c = e2.c
    /\ cur.at = "write" /\ prim \in cur.pend => ~Exists(prim)
    /\ cur.at = "stab" /\ prim \in cur.pend => StableOK(store[prim], cur.tgt)
    /\ syn.at = "stab" /\ prim \in syn.pend => StableOK(store[prim], syn.un[prim])
    /\ <<prim, "rollback">> \in pg.fb => FlushOK(store[prim], prim, "rollback")
    /\ <<prim, "stable">> \in pg.fb /\ <<prim, "rollback">> \notin pg.fb
           => FlushOK(store[prim], prim, "stable")
=============================================================================
