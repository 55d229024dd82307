------------------------------- MODULE Layers -------------------------------
(***************************************************************************)
(* Images, snapshots and clones as layers of one block, and the commands   *)
(* that create, merge, flatten, rename and remove them while a client      *)
(* writes and reads (src/src/cmd/cli_*.cpp, src/src/osd/                   *)
(* osd_primary_chain.cpp, src/src/client/cluster_client_list.cpp).         *)
(*                                                                         *)
(* A layer is an inode: its configuration is a key of etcd (conf), its     *)
(* data one object whose units are set or not (data, ver).  A unit that is *)
(* not set in a layer is read from its parent.  Every process - a command, *)
(* the client, the primary OSD - acts on its own copy of the configuration *)
(* (known), which etcd's watch brings up to date some time later.          *)
(***************************************************************************)
EXTENDS Integers, Sequences, FiniteSets, SequencesExt

CONSTANTS Setups, \* initial layers, commands, writes and reads
          IdMax   \* largest inode number

VARIABLES
  setup,    \* the chosen setup
  conf,     \* etcd: /config/inode/...
  index,    \* etcd: /index/image/...
  maxid,    \* etcd: /index/maxid
  revision, \* etcd: revision of the last transaction
  data,     \* stored units of every layer, 0 = not set
  ver,      \* version of the object of every layer, 0 = none
  skipped,  \* ghost: layers emptied before their data is in the layer below
  known,    \* each process' copy of conf
  job,      \* the command a tool executes
  writer,   \* the client's writes
  reader,   \* the client's read
  want,     \* ghost: what every image has to contain
  holes,    \* ghost: <<image, unit>> for which nothing is promised
  faults    \* crashes and lost answers of etcd left

etcd == <<conf, index, maxid, revision>>
store == <<data, ver, skipped>>
vars == <<setup, conf, index, maxid, revision, data, ver, skipped, known, job, writer, reader, want, holes, faults>>

Ids == 1..IdMax
Units == 1..setup.units
Names == setup.names
Tools == DOMAIN setup.cmds
OSD == "osd"
User == "client"

NoConf == [name |-> "", parent |-> 0, ro |-> FALSE, del |-> FALSE, rev |-> 0]
Exists(c, i) == c[i].rev > 0
(* get_inode_cfg: the first inode with that name *)
ByName(c, n) ==
  LET found == {i \in Ids : Exists(c, i) /\ c[i].name = n}
  IN  IF found = {} THEN 0 ELSE Min(found)

(***************************************************************************)
(* The chain of an inode, top layer first, as a process sees it.           *)
(***************************************************************************)
ChainOf(c, i) ==
  LET parent == [k \in 0..IdMax |-> IF k = 0 THEN 0 ELSE c[k].parent]
      up[n \in 0..IdMax] == IF n = 0 THEN i ELSE parent[up[n - 1]]
  IN  SelectSeq([n \in 1..IdMax |-> up[n - 1]], LAMBDA k : k # 0)

SetIn(d, i) == {u \in DOMAIN d[i] : d[i][u] # 0}
Zeros == -1 \* a unit that is set and holds zeros
Content(v) == IF v = Zeros THEN 0 ELSE v

(* What the chain of i holds at a unit when nothing moves. *)
Visible(c, d, i, u) ==
  LET ch == ChainOf(c, i)
      has == {n \in 1..Len(ch) : d[ch[n]][u] # 0}
  IN  IF has = {} THEN 0 ELSE Content(d[ch[Min(has)]][u])

(***************************************************************************)
(* A chained read (osd_primary_chain.cpp): the bitmaps of all layers are   *)
(* read first; each layer is then asked for one range of units, from the   *)
(* first to the last one that no layer above it has; the answer is put     *)
(* together from the bitmaps.                                              *)
(***************************************************************************)
Bitmaps(d, ch) == [n \in 1..Len(ch) |-> SetIn(d, ch[n])]

(* collect_chained_read_requests *)
ReadRange(bits, n) ==
  LET need == bits[n] \ UNION {bits[k] : k \in 1..(n - 1)}
  IN  IF need = {} THEN {} ELSE Min(need)..Max(need)

(* send_chained_read_results: a unit comes from the first layer that has   *)
(* its bit; a layer that was emptied meanwhile gives zeros                 *)
Compose(bits, ch, d, us) ==
  [u \in us |->
    LET has == {n \in 1..Len(ch) : u \in bits[n]}
        n == Min(has)
    IN  IF has = {} THEN 0
        ELSE IF u \notin ReadRange(bits, n) THEN -2
        ELSE IF d[ch[n]][u] = 0 THEN Zeros ELSE d[ch[n]][u]]

(* Mutant: the OSD answers with its own copy of the chain. *)
MutSameRevision(p, i) == TRUE

(* prepare_primary_rw refuses a read when the client's revision of the     *)
(* inode is not the OSD's; the client repeats it later.  For an inode that *)
(* the OSD does not know it compares with inode_config.end(), which is     *)
(* undefined: with libstdc++ the revision is then read from the pointer    *)
(* inside on_change_hook, which follows the map in etcd_state_client_t and *)
(* is never a revision, so that the build refuses the read as well.        *)
SameRevision(p, i) ==
  Exists(known[p], i) => known[OSD][i].rev = known[p][i].rev
ReadChain(p, i) == IF Exists(known[p], i) THEN ChainOf(known[OSD], i) ELSE <<i>>

-----------------------------------------------------------------------------
(***************************************************************************)
(* Transactions.  atmost: the key's mod_revision is less than the copy's   *)
(* plus one; exact: it is that one; a missing key has revision 0.          *)
(***************************************************************************)
NoTx == [atmost |-> {}, exact |-> {}, names |-> {}, idxmost |-> {}, max |-> -1,
         put |-> {}, del |-> {}, idx |-> {}, noidx |-> {}, maxid |-> 0]

Succeeds(tx) ==
  /\ \A r \in tx.atmost : conf[r[1]].rev <= r[2]
  /\ \A r \in tx.exact : conf[r[1]].rev = r[2]
  /\ \A r \in tx.names : index[r[1]].rev = r[2]
  /\ \A r \in tx.idxmost : index[r[1]].rev <= r[2]
  /\ tx.max >= 0 => maxid.rev = tx.max

PutConf(tx, rev) ==
  [i \in Ids |->
    IF \E p \in tx.put : p[1] = i THEN [(CHOOSE p \in tx.put : p[1] = i)[2] EXCEPT !.rev = rev]
    ELSE IF i \in tx.del THEN NoConf ELSE conf[i]]
PutIndex(tx, rev) ==
  [n \in DOMAIN index |->
    IF \E p \in tx.idx : p[1] = n THEN [id |-> (CHOOSE p \in tx.idx : p[1] = n)[2], rev |-> rev]
    ELSE IF n \in tx.noidx THEN [id |-> 0, rev |-> 0] ELSE index[n]]

-----------------------------------------------------------------------------
(***************************************************************************)
(* Merging layers (cli_merge.cpp).  A merge reads the block through the    *)
(* layer "to" and writes its set ranges to the target.                     *)
(***************************************************************************)
NoMerge == [st |-> "done", bad |-> FALSE, target |-> 0, to |-> 0, cas |-> FALSE, lower |-> {}, upper |-> {},
            found |-> FALSE, chain |-> <<>>, bits |-> <<>>, ver |-> 0, buf |-> <<>>, left |-> {}]

(* start_merge.  When a check fails, continue_merge goes on all the same:  *)
(* with nothing to list it ends as a success, with sources in place it     *)
(* divides by a block size of 0 at the first object.                       *)
StartMerge(c, fromName, toName, targetName, cas) ==
  LET from == ByName(c, fromName)
      to == ByName(c, toName)
      target == ByName(c, targetName)
      downTo(i) == ToSet(ChainOf(c, to)) \ ToSet(Tail(ChainOf(c, i)))
      sources == downTo(from)
      top == downTo(target)
      altered == {i \in Ids \ sources : Exists(c, i) /\ c[i].parent \in top \ {to}}
  IN  IF 0 \in {from, to, target} \/ from = to \/ from \notin ToSet(ChainOf(c, to))
         \/ \E i \in sources : ~Exists(c, i)
      THEN NoMerge
      ELSE IF target \notin sources
      THEN [NoMerge EXCEPT !.st = "lower", !.bad = TRUE, !.lower = sources]
      ELSE [NoMerge EXCEPT !.st = "lower", !.bad = altered # {}, !.target = target, !.to = to,
              !.cas = cas /\ to = target, !.lower = sources \ top, !.upper = top \ {target}]

(* Mutant: an empty list of layers is waited for. *)
MutStage(m) == m

(* The next stage of continue_merge that has something to wait for. *)
Stage(m) ==
  IF m.st = "lower" /\ m.lower = {} THEN
       IF m.found THEN [m EXCEPT !.st = "full"]
       ELSE IF m.upper # {} THEN [m EXCEPT !.st = "upper"] ELSE [m EXCEPT !.st = "done"]
  ELSE IF m.st = "upper" /\ m.upper = {} THEN
       [m EXCEPT !.st = IF m.found THEN "read" ELSE "done"]
  ELSE m

(* Maximal runs of set units: next_write writes each with one request. *)
Runs(buf) ==
  LET set == {u \in DOMAIN buf : buf[u] # 0}
  IN  {r \in {a..b : a \in set, b \in set} :
         /\ r # {} /\ r \subseteq set
         /\ Min(r) - 1 \notin set /\ Max(r) + 1 \notin set}

-----------------------------------------------------------------------------
(***************************************************************************)
(* Removing layers (cli_rm.cpp).  A job goes through: merging each child   *)
(* of the removed chain and changing its parent; the "inverse" child       *)
(* merged into a removed layer, marked deleted, emptied and replaced by    *)
(* that layer; every other removed layer marked, emptied and deleted.      *)
(***************************************************************************)
Idle == [pc |-> "idle", n |-> 0, cmd |-> "", from |-> "", name |-> "", as |-> "", kids |-> <<>>, child |-> 0,
         inv |-> <<0, 0>>, newpar |-> 0, dead |-> <<>>, victim |-> 0, id |-> 0, old |-> 0, oldrev |-> 0,
         max |-> 0, m |-> NoMerge, tx |-> NoTx]
End(j) == [Idle EXCEPT !.n = j.n]
Issue(j, pc, tx) == [j EXCEPT !.pc = pc, !.tx = tx]

(* change_parent *)
ChangeParent(j, c, i, par) ==
  IF ~Exists(c, i) THEN End(j)
  ELSE Issue(j, "parent", [NoTx EXCEPT !.atmost = {<<i, c[i].rev>>},
                                       !.put = {<<i, [c[i] EXCEPT !.parent = par]>>}])

(* start_mark_deleted and the start of start_delete_source *)
MarkDeleted(j, c, i) ==
  IF ~Exists(c, i) THEN End(j)
  ELSE IF c[i].del THEN [j EXCEPT !.pc = "list", !.victim = i]
  ELSE LET k == ByName(c, c[i].name)
       IN  Issue([j EXCEPT !.victim = i], "mark",
                 [NoTx EXCEPT !.atmost = {<<k, c[k].rev>>}, !.put = {<<k, [c[k] EXCEPT !.del = TRUE]>>}])

(* The next layer of the chain to delete, except the inverse parent. *)
NextDead(j, c) ==
  IF j.dead = <<>> THEN End(j) ELSE MarkDeleted([j EXCEPT !.child = 0], c, Head(j.dead))

(* A finished merge. *)
Merged(j, c) ==
  IF j.cmd = "flatten" THEN ChangeParent(j, c, j.child, 0)
  ELSE IF j.child = j.inv[1] THEN MarkDeleted(j, c, j.child)
  ELSE ChangeParent(j, c, j.child, j.newpar)

BeginMerge(j, c, fromName, i, target) ==
  LET m == Stage(StartMerge(c, fromName, c[i].name, c[target].name, TRUE))
      k == [j EXCEPT !.pc = "merge", !.child = i, !.m = m]
  IN  IF m.st = "done" THEN Merged(k, c) ELSE k

(* The next child to merge; then the inverse one; then the deletions. *)
NextChild(j, c) ==
  LET next == IF j.kids # <<>> THEN Head(j.kids) ELSE j.inv[1]
      target == IF j.kids # <<>> THEN next ELSE j.inv[2]
  IN  IF next = 0 THEN NextDead(j, c)
      ELSE IF ~Exists(c, next) \/ ~Exists(c, target) THEN End(j)
      ELSE BeginMerge(j, c, j.from, next, target)

(* rename_inverse_parent: the configuration of the child, its "deleted"    *)
(* mark included, goes to the inverse parent, and its children with it     *)
RenameInverse(j, c) ==
  LET ch == j.inv[1]
      p == j.inv[2]
      kids == {i \in Ids : Exists(c, i) /\ c[i].parent = ch}
  IN  IF ~Exists(c, ch) \/ ~Exists(c, p) THEN End(j)
      ELSE Issue(j, "renamed",
             [NoTx EXCEPT !.atmost = {<<i, c[i].rev>> : i \in {ch, p} \cup kids},
                          !.put = {<<p, [c[ch] EXCEPT !.parent = j.newpar]>>}
                                  \cup {<<i, [c[i] EXCEPT !.parent = p]>> : i \in kids},
                          !.del = {ch},
                          !.idx = {<<c[ch].name, p>>},
                          !.noidx = {c[p].name}])

(* delete_inode_config *)
DeleteConfig(j, c) ==
  LET i == j.victim
  IN  IF ~Exists(c, i) THEN End(j)
      ELSE Issue(j, "delete", [NoTx EXCEPT !.atmost = {<<i, c[i].rev>>}, !.del = {i}, !.noidx = {c[i].name}])

(* The data of j.victim is gone. *)
Emptied(j, c) == IF j.child # 0 THEN RenameInverse(j, c) ELSE DeleteConfig(j, c)

(* get_merge_children and read_stats.  Children that are read-only, or all *)
(* of them when the writers are stopped, may be chosen as the inverse one. *)
Candidates(j, c) ==
  LET above(i) == {j.dead[n] : n \in {k \in 1..Len(j.dead) : \E l \in 1..k : j.dead[l] = c[i].parent}}
  IN  UNION {{<<i, p>> : p \in above(i)} : i \in {k \in ToSet(j.kids) : c[k].ro}}

BeginRemove(j, c, fromName, toName) ==
  LET from == ByName(c, fromName)
      to == ByName(c, toName)
      chain == ChainOf(c, to)
      at == {n \in 1..Len(chain) : chain[n] = from}
      gone == SubSeq(chain, 1, Min(at))
      kids == {i \in Ids \ ToSet(gone) : Exists(c, i) /\ c[i].parent \in ToSet(gone)}
      k == [j EXCEPT !.from = fromName, !.dead = gone, !.newpar = c[from].parent,
                     !.kids = SetToSortSeq(kids, LAMBDA a, b : a < b)]
  IN  IF 0 \in {from, to} \/ at = {} THEN End(j)
      ELSE IF Candidates(k, c) = {} THEN NextChild(k, c) ELSE [k EXCEPT !.pc = "stats"]

(* snap_flattener_t *)
BeginFlatten(j, c, name) ==
  LET i == ByName(c, name)
      chain == ChainOf(c, i)
      top == chain[Len(chain)]
  IN  IF i = 0 \/ ~Exists(c, top) THEN End(j)
      ELSE BeginMerge(j, c, c[top].name, i, i)

(* image_changer_t with a new name *)
BeginRename(j, c, name, as) ==
  LET i == ByName(c, name)
      taken == ByName(c, as)
  IN  IF i = 0 \/ (taken # 0 /\ taken < i) THEN End(j)
      ELSE Issue(j, "modify", [NoTx EXCEPT !.atmost = {<<i, c[i].rev>>},
                                           !.names = {<<as, 0>>}, !.idxmost = {<<name, c[i].rev>>},
                                           !.put = {<<i, [c[i] EXCEPT !.name = as]>>},
                                           !.idx = {<<as, i>>}, !.noidx = {name}])

(* image_creator_t: create_snapshot and create_image up to the first wait *)
BeginCreate(j, c, cmd) ==
  LET par == ByName(c, cmd.parent)
      new == IF cmd.op = "snap" THEN cmd.as ELSE cmd.name
  IN  IF ByName(c, new) # 0 THEN End(j)
      ELSE IF cmd.op = "snap" THEN [j EXCEPT !.pc = "details", !.name = cmd.name, !.as = cmd.as]
      ELSE IF cmd.parent # "" /\ par = 0 THEN End(j)
      ELSE [j EXCEPT !.pc = "nextid", !.name = cmd.name, !.newpar = par]

Begin(j, c, cmd) ==
  CASE cmd.op \in {"snap", "clone"} -> BeginCreate(j, c, cmd)
    [] cmd.op = "rm"      -> BeginRemove(j, c, cmd.name, cmd.as)
    [] cmd.op = "flatten" -> BeginFlatten(j, c, cmd.name)
    [] cmd.op = "rename"  -> BeginRename(j, c, cmd.name, cmd.as)

(* Images that read through a layer which a removal has emptied before its *)
(* place was taken: their content is whole only after the rename, and lost *)
(* when the command that left them so cannot go on.                        *)
Halfway ==
  IF skipped = {} THEN {} ELSE {n \in Names : ToSet(ChainOf(conf, index[n].id)) \cap skipped # {}}

(* A command of a tool is a new process that loads the configuration. *)
Start(t) ==
  /\ job[t].pc = "idle" /\ job[t].n < Len(setup.cmds[t])
  /\ LET cmd == setup.cmds[t][job[t].n + 1]
         j == Begin([job[t] EXCEPT !.n = @ + 1, !.cmd = cmd.op], conf, cmd)
         dead == IF cmd.op = "rm" THEN {conf[i].name : i \in ToSet(j.dead)} ELSE {}
     IN  /\ job' = [job EXCEPT ![t] = j]
         /\ holes' = holes \cup ((dead \cup Halfway) \X Units)
  /\ known' = [known EXCEPT ![t] = conf]
  /\ UNCHANGED <<setup, etcd, store, writer, reader, want, faults>>

(* choose_inverse_candidate: whatever the statistics say *)
ChooseInverse(t) ==
  /\ job[t].pc = "stats"
  /\ \E p \in Candidates(job[t], known[t]) \cup {<<0, 0>>} :
       \E j \in {[job[t] EXCEPT !.inv = p,
                               !.kids = SelectSeq(@, LAMBDA i : i # p[1]),
                               !.dead = SelectSeq(@, LAMBDA i : i # p[2])]} :
         job' = [job EXCEPT ![t] = NextChild(j, known[t])]
  /\ UNCHANGED <<setup, etcd, store, known, writer, reader, want, holes, faults>>

(* attempt_create for a snapshot: the image's inode becomes the snapshot,  *)
(* a new inode above it becomes the image                                  *)
SnapshotTx(j, o) ==
  LET snap == [NoConf EXCEPT !.name = j.as, !.parent = o.parent, !.ro = TRUE]
      new == [NoConf EXCEPT !.name = j.name, !.parent = j.old]
  IN  [NoTx EXCEPT !.exact = {<<j.id, 0>>, <<j.old, o.rev>>},
                   !.names = {<<j.as, 0>>, <<j.name, j.oldrev>>}, !.max = j.max,
                   !.put = {<<j.id, new>>, <<j.old, snap>>},
                   !.idx = {<<j.name, j.id>>, <<j.as, j.old>>}, !.maxid = j.id]

(* extract_next_id *)
NextId(c) == Max({maxid.id + 1} \cup {i + 1 : i \in {k \in Ids : Exists(c, k)}})

(* get_image_details, first request *)
Details(t) ==
  /\ job[t].pc = "details"
  /\ LET j == job[t]
         i == index[j.name]
         k == ByName(known[t], j.name)
         got == [j EXCEPT !.id = NextId(known[t]), !.max = maxid.rev]
         own == [got EXCEPT !.old = k, !.oldrev = 0]
     IN  job' = [job EXCEPT ![t] =
           IF i.id # 0 THEN [got EXCEPT !.pc = "config", !.old = i.id, !.oldrev = i.rev]
           ELSE IF k = 0 THEN End(j)
           ELSE Issue(own, "create", SnapshotTx(own, known[t][k]))]
  /\ UNCHANGED <<setup, etcd, store, known, writer, reader, want, holes, faults>>

(* get_image_details, second request, and attempt_create *)
AttemptSnapshot(t) ==
  /\ job[t].pc = "config"
  /\ job' = [job EXCEPT ![t] = Issue(@, "create", SnapshotTx(@, conf[@.old]))]
  /\ UNCHANGED <<setup, etcd, store, known, writer, reader, want, holes, faults>>

(* create_image: the next free number, and attempt_create *)
AttemptImage(t) ==
  /\ job[t].pc = "nextid"
  /\ LET j == job[t]
         id == NextId(known[t])
         new == [NoConf EXCEPT !.name = j.name, !.parent = j.newpar]
     IN  job' = [job EXCEPT ![t] = Issue([j EXCEPT !.id = id], "create",
           [NoTx EXCEPT !.exact = {<<id, 0>>}, !.names = {<<j.name, 0>>}, !.max = maxid.rev,
                        !.put = {<<id, new>>}, !.idx = {<<j.name, id>>}, !.maxid = id])]
  /\ UNCHANGED <<setup, etcd, store, known, writer, reader, want, holes, faults>>

(***************************************************************************)
(* etcd executes a transaction and the tool goes on with the answer.       *)
(***************************************************************************)
(* start_modify and delete_inode_config keep the tool's own copy current. *)
Cached(j, c, rev) ==
  CASE j.pc = "mark"   -> LET p == CHOOSE q \in j.tx.put : TRUE IN [c EXCEPT ![p[1]] = [p[2] EXCEPT !.rev = rev]]
    [] j.pc = "delete" -> [c EXCEPT ![j.victim] = NoConf]
    [] OTHER           -> c

(* exists: the name of the new image or snapshot is taken now *)
After(j, ok, c, exists) ==
  CASE j.pc = "create" ->
         IF ok \/ exists THEN End(j)
         ELSE [j EXCEPT !.pc = IF j.cmd = "snap" THEN "details" ELSE "nextid", !.tx = NoTx]
    [] ~ok \/ j.pc = "modify" -> End(j)
    [] ok /\ j.pc = "parent" ->
         IF j.cmd = "flatten" THEN End(j) ELSE NextChild([j EXCEPT !.kids = Tail(@), !.tx = NoTx], c)
    [] ok /\ j.pc = "mark"    -> [j EXCEPT !.pc = "list", !.tx = NoTx]
    [] ok /\ j.pc = "renamed" -> NextDead([j EXCEPT !.tx = NoTx], c)
    [] ok /\ j.pc = "delete"  -> NextDead([j EXCEPT !.dead = Tail(@), !.tx = NoTx], c)

(* What the images have to contain after a transaction. *)
Wanted(j) ==
  [n \in Names |->
    CASE j.cmd = "snap" /\ n = j.as        -> want[j.name]
      [] j.cmd = "clone" /\ n = j.name     -> [u \in Units |-> IF j.newpar = 0 THEN 0 ELSE Visible(conf, data, j.newpar, u)]
      [] j.pc = "modify" /\ n \in {p[1] : p \in j.tx.idx} -> want[CHOOSE m \in j.tx.noidx : TRUE]
      [] OTHER                             -> want[n]]
(* A clone of a layer that is gone or is being removed is lost. *)
Orphan(j) ==
  /\ j.cmd = "clone" /\ j.newpar # 0
  /\ \/ ~Exists(conf, j.newpar)
     \/ \E u \in Units : <<conf[j.newpar].name, u>> \in holes
     \/ \E t \in Tools : job[t].inv[1] = j.newpar

TxPcs == {"create", "parent", "mark", "renamed", "delete", "modify"}

(* lost: the answer is lost and etcd_call repeats the request; only a      *)
(* deletion succeeds twice                                                 *)
Commit(t) ==
  /\ job[t].pc \in TxPcs
  /\ LET j == job[t]
         ok == Succeeds(j.tx)
         rev == revision + 1
         new == IF j.cmd = "snap" THEN j.as ELSE j.name
     IN  \E lost \in BOOLEAN :
           /\ lost => ok /\ faults.answers > 0
           /\ faults' = [faults EXCEPT !.answers = IF lost THEN @ - 1 ELSE @]
           /\ IF ok
              THEN /\ conf' = PutConf(j.tx, rev) /\ index' = PutIndex(j.tx, rev)
                   /\ maxid' = IF j.tx.maxid > 0 THEN [id |-> j.tx.maxid, rev |-> rev] ELSE maxid
                   /\ revision' = rev /\ want' = Wanted(j)
                   /\ holes' = IF Orphan(j) THEN holes \cup ({j.name} \X Units) ELSE holes
              ELSE UNCHANGED <<etcd, want, holes>>
           /\ LET seen == ok /\ (lost => j.pc = "delete")
                  c == IF seen THEN Cached(j, known[t], rev) ELSE known[t]
              IN  /\ known' = [known EXCEPT ![t] = c]
                  /\ job' = [job EXCEPT ![t] = After(j, seen, c, new # "" /\ index'[new].id # 0)]
  /\ UNCHANGED <<setup, store, writer, reader>>

(* etcd's watch brings a process' copy up to date. *)
Watch(p) ==
  /\ known[p] # conf
  /\ p \in Tools => job[p].pc # "idle"
  /\ known' = [known EXCEPT ![p] = conf]
  /\ UNCHANGED <<setup, etcd, store, job, writer, reader, want, holes, faults>>

-----------------------------------------------------------------------------
(***************************************************************************)
(* The steps of a merge.                                                   *)
(***************************************************************************)
Go(t, m) ==
  LET n == Stage(m)
      j == [job[t] EXCEPT !.m = n]
  IN  job' = [job EXCEPT ![t] = IF n.st = "done" THEN Merged([j EXCEPT !.m = NoMerge], known[t]) ELSE j]

(* list_inode: a listing restarts until all PGs answer from one state *)
Listed(i) == ver[i] > 0

Merging(t, st) == job[t].pc = "merge" /\ job[t].m.st = st

(* list_layers: the listing of one layer ends.  A merge whose checks have  *)
(* failed has no block size, and the process dies at the first object.     *)
ListLayer(t) ==
  \/ /\ Merging(t, "lower")
     /\ \E i \in job[t].m.lower :
          IF job[t].m.bad /\ Listed(i) THEN job' = [job EXCEPT ![t] = End(@)]
          ELSE Go(t, [job[t].m EXCEPT !.lower = @ \ {i}, !.found = @ \/ Listed(i)])
     /\ UNCHANGED <<setup, etcd, store, known, writer, reader, want, holes, faults>>
  \/ /\ Merging(t, "upper")
     /\ \E i \in job[t].m.upper :
          IF job[t].m.bad /\ Listed(i) THEN job' = [job EXCEPT ![t] = End(@)]
          ELSE Go(t, [job[t].m EXCEPT !.upper = @ \ {i}, !.found = @ \/ Listed(i)])
     /\ UNCHANGED <<setup, etcd, store, known, writer, reader, want, holes, faults>>

(* check_if_full: a block that is full in the target need not be merged    *)
CheckFull(t) ==
  /\ Merging(t, "full")
  /\ LET m == [job[t].m EXCEPT !.found = SetIn(data, job[t].m.target) # Units]
     IN  Go(t, [m EXCEPT !.st = "upper"])
  /\ UNCHANGED <<setup, etcd, store, known, writer, reader, want, holes, faults>>

(* rwo_read: the OSD reads the bitmaps, and the version of the top layer   *)
MergeBitmaps(t) ==
  /\ Merging(t, "read") /\ SameRevision(t, job[t].m.to)
  /\ LET ch == ReadChain(t, job[t].m.to)
     IN  job' = [job EXCEPT ![t].m = [@ EXCEPT !.st = "data", !.chain = ch, !.bits = Bitmaps(data, ch),
                                               !.ver = ver[job[t].m.to]]]
  /\ UNCHANGED <<setup, etcd, store, known, writer, reader, want, holes, faults>>

(* ... and the data of all layers *)
MergeData(t) ==
  /\ Merging(t, "data")
  /\ LET m == job[t].m
         buf == Compose(m.bits, m.chain, data, Units)
         n == [m EXCEPT !.st = "write", !.buf = buf, !.left = Runs(buf), !.chain = <<>>, !.bits = <<>>]
     IN  Go(t, IF n.left = {} THEN [n EXCEPT !.st = "done"] ELSE n)
  /\ UNCHANGED <<setup, etcd, store, known, writer, reader, want, holes, faults>>

(* Mutant: the merge writes whatever it has read, however old. *)
MutVersionFits(m) == TRUE

(* next_write, write_subop: the ranges one by one; a write whose version   *)
(* does not fit is refused and the block is read again                     *)
VersionFits(m) == m.cas => ver[m.target] = m.ver

MergeWrite(t) ==
  /\ Merging(t, "write")
  /\ LET m == job[t].m
         run == CHOOSE r \in m.left : \A q \in m.left : Min(r) <= Min(q)
         left == m.left \ {run}
     IN  IF VersionFits(m)
         THEN /\ data' = [data EXCEPT ![m.target] = [u \in Units |-> IF u \in run THEN m.buf[u] ELSE @[u]]]
              /\ ver' = [ver EXCEPT ![m.target] = @ + 1] /\ UNCHANGED skipped
              /\ Go(t, [m EXCEPT !.left = left, !.ver = @ + 1,
                                 !.st = IF left = {} THEN "done" ELSE "write"])
         ELSE /\ Go(t, [m EXCEPT !.st = "read", !.buf = <<>>, !.left = {}, !.ver = 0])
              /\ UNCHANGED store
  /\ UNCHANGED <<setup, etcd, known, writer, reader, want, holes, faults>>

(***************************************************************************)
(* Removing the data of a layer (cli_rm_data.cpp): list, then delete.  The *)
(* inverse child is emptied first and renamed over later: when its parent  *)
(* is another removed layer, what it holds is seen nowhere in between.     *)
(***************************************************************************)
ListData(t) ==
  /\ job[t].pc = "list"
  /\ job' = [job EXCEPT ![t] = IF Listed(@.victim) THEN [@ EXCEPT !.pc = "remove"] ELSE Emptied(@, known[t])]
  /\ UNCHANGED <<setup, etcd, store, known, writer, reader, want, holes, faults>>

DeleteData(t) ==
  /\ job[t].pc = "remove"
  /\ LET i == job[t].victim
     IN  /\ data' = [data EXCEPT ![i] = [u \in Units |-> 0]]
         /\ ver' = [ver EXCEPT ![i] = 0]
         /\ skipped' = IF job[t].child # 0 /\ conf[i].parent # job[t].inv[2] THEN skipped \cup {i} ELSE skipped
         /\ reader' = [reader EXCEPT !.torn = @ \/ i \in ToSet(reader.chain)]
  /\ job' = [job EXCEPT ![t] = Emptied(@, known[t])]
  /\ UNCHANGED <<setup, etcd, known, writer, want, holes, faults>>

(* A tool is killed; the operator goes on to the next command. *)
Crash(t) ==
  /\ faults.crashes > 0 /\ job[t].pc # "idle"
  /\ job' = [job EXCEPT ![t] = End(@)]
  /\ faults' = [faults EXCEPT !.crashes = @ - 1]
  /\ UNCHANGED <<setup, etcd, store, known, writer, reader, want, holes>>

-----------------------------------------------------------------------------
(***************************************************************************)
(* The client of the image.  A write goes to the inode that the client     *)
(* takes for the image when it is issued (check_rw refuses a read-only     *)
(* one), and may reach the OSD after a snapshot was made of that inode.    *)
(***************************************************************************)
NoOp == [id |-> 0, unit |-> 0, val |-> 0]

IssueWrite ==
  /\ writer.op = NoOp /\ writer.n < Len(setup.writes)
  /\ LET i == ByName(known[User], setup.image)
     IN  /\ i # 0 /\ ~known[User][i].ro
         /\ writer' = [n |-> writer.n + 1, op |-> [id |-> i, unit |-> setup.writes[writer.n + 1], val |-> 10 + writer.n]]
  /\ UNCHANGED <<setup, etcd, store, known, job, reader, want, holes, faults>>

(* late: the inode is not the image any more.  A late write that lands in  *)
(* a layer which is being removed or merged, or is out of the chain, is    *)
(* lost.                                                                   *)
ApplyWrite ==
  /\ writer.op # NoOp
  /\ LET i == writer.op.id
         u == writer.op.unit
         d == [data EXCEPT ![i][u] = writer.op.val]
         late == index[setup.image].id # i
         lost == late /\ \/ Visible(conf, d, index[setup.image].id, u) # writer.op.val
                         \/ \E t \in Tools : job[t].pc = "merge"
                         \/ <<conf[i].name, u>> \in holes
     IN  /\ data' = d /\ ver' = [ver EXCEPT ![i] = @ + 1] /\ UNCHANGED skipped
         /\ holes' = IF lost THEN holes \cup {<<setup.image, u>>} ELSE holes
         /\ want' = [n \in Names |->
              IF n = setup.image THEN [want[n] EXCEPT ![u] = writer.op.val]
              ELSE IF late /\ index[n].id # 0 THEN [want[n] EXCEPT ![u] = Visible(conf, d, index[n].id, u)]
              ELSE want[n]]
         /\ reader' = IF reader.st = "read" THEN [reader EXCEPT !.may[u] = @ \cup {writer.op.val}] ELSE reader
  /\ writer' = [writer EXCEPT !.op = NoOp]
  /\ UNCHANGED <<setup, etcd, known, job, faults>>

NoRead == [st |-> "none", n |-> 0, chain |-> <<>>, bits |-> <<>>, may |-> <<>>, res |-> <<>>, torn |-> FALSE]

(* A read that a removal of data overtakes, that goes over a layer emptied *)
(* too early, or that a client sends to the inode that is not the image    *)
(* any more, is marked torn.                                               *)
ReadBitmaps ==
  /\ reader.st # "read" /\ reader.n < setup.reads
  /\ LET i == ByName(known[User], setup.image)
         ch == ReadChain(User, i)
     IN  /\ i # 0 /\ SameRevision(User, i)
         /\ reader' = [st |-> "read", n |-> reader.n + 1, chain |-> ch, bits |-> Bitmaps(data, ch),
                       may |-> [u \in Units |-> {want[setup.image][u]}], res |-> <<>>,
                       torn |-> i # index[setup.image].id \/ ToSet(ch) \cap skipped # {}]
  /\ UNCHANGED <<setup, etcd, store, known, job, writer, want, holes, faults>>

ReadData ==
  /\ reader.st = "read"
  /\ reader' = [reader EXCEPT !.st = "done", !.res = Compose(reader.bits, reader.chain, data, Units),
                              !.chain = <<>>, !.bits = <<>>]
  /\ UNCHANGED <<setup, etcd, store, known, job, writer, want, holes, faults>>

-----------------------------------------------------------------------------
Init ==
  /\ setup \in Setups
  /\ conf = [i \in Ids |-> IF i \in DOMAIN setup.layers THEN [setup.layers[i].conf EXCEPT !.rev = 1] ELSE NoConf]
  /\ index = [n \in Names |->
       LET i == ByName(conf, n) IN [id |-> i, rev |-> IF i = 0 THEN 0 ELSE 1]]
  /\ maxid = [id |-> Len(setup.layers), rev |-> 1]
  /\ revision = 1
  /\ data = [i \in Ids |-> IF i \in DOMAIN setup.layers THEN setup.layers[i].data ELSE [u \in Units |-> 0]]
  /\ ver = [i \in Ids |-> IF SetIn(data, i) = {} THEN 0 ELSE 1]
  /\ skipped = {}
  /\ known = [p \in Tools \cup {OSD, User} |-> conf]
  /\ job = [t \in Tools |-> Idle]
  /\ writer = [n |-> 0, op |-> NoOp]
  /\ reader = NoRead
  /\ want = [n \in Names |-> [u \in Units |-> IF index[n].id = 0 THEN 0 ELSE Visible(conf, data, index[n].id, u)]]
  /\ holes = {}
  /\ faults = setup.faults

ToolStep(t) ==
  \/ ChooseInverse(t) \/ Details(t) \/ AttemptSnapshot(t) \/ AttemptImage(t) \/ Commit(t)
  \/ ListLayer(t) \/ CheckFull(t) \/ MergeBitmaps(t) \/ MergeData(t) \/ MergeWrite(t)
  \/ ListData(t) \/ DeleteData(t)

Steps ==
  \/ \E t \in Tools : ToolStep(t)
  \/ \E p \in Tools \cup {OSD, User} : Watch(p)
  \/ IssueWrite \/ ApplyWrite \/ ReadBitmaps \/ ReadData

Next == Steps \/ \E t \in Tools : Start(t) \/ Crash(t)

(* Requests are answered and watches delivered; no one has to start the    *)
(* next command.                                                           *)
Spec == Init /\ [][Next]_vars /\ WF_vars(Steps)

-----------------------------------------------------------------------------
(***************************************************************************)
(* Properties.                                                             *)
(***************************************************************************)
(* Every image and every snapshot reads, through its chain in etcd, as     *)
(* what was written to it before it was frozen, at every step of every     *)
(* command: merging, flattening, removing or renaming layers, or dying in  *)
(* the middle of it, does not change what is seen.  The index names        *)
(* exactly the existing layers and the parent of every layer exists.       *)
(* Nothing is said of the layers that are being removed; of clones made of *)
(* such a layer (Orphan); of a unit whose write reaches the inode after it *)
(* stopped being the image, while layers are merged or removed (lost in    *)
(* ApplyWrite); and of the images above an inverse child that is emptied   *)
(* before the rename when the inverse parent is not its own parent, until  *)
(* the rename, and for good when the command dies there (Halfway).         *)
ContentKept ==
  /\ \A n \in Names : index[n].id # 0 =>
       /\ conf[index[n].id].rev > 0 /\ conf[index[n].id].name = n
       /\ \A u \in Units : \/ <<n, u>> \in holes \/ n \in Halfway
                          \/ Visible(conf, data, index[n].id, u) = want[n][u]
  /\ \A i \in Ids : Exists(conf, i) =>
       /\ index[conf[i].name].id = i /\ i <= maxid.id
       /\ conf[i].parent # 0 => Exists(conf, conf[i].parent) \/ \E u \in Units : <<conf[i].name, u>> \in holes

(* A read that the OSD puts together from several layers, with the OSD's   *)
(* and the client's own copies of the configuration, returns for every     *)
(* unit a value that the image had during the read.  Excused (torn) is a   *)
(* read during which the data of one of its layers is removed, one that    *)
(* goes over an inverse child emptied before its rename, and one of a      *)
(* client for whom the image is still the inode that a snapshot has taken; *)
(* and the units of ContentKept's exceptions.                              *)
ReadsFresh ==
  reader.st = "done" =>
    \/ reader.torn
    \/ \A u \in Units : <<setup.image, u>> \in holes \/ Content(reader.res[u]) \in reader.may[u]

AllIdle == \A t \in Tools : job[t].pc = "idle"
(* Every command ends: no chained read waits for a configuration that      *)
(* never comes, and a merge that races with writes gets through.           *)
CommandsEnd == []<>AllIdle

=============================================================================
