# Vitastor in TLA+

Vitastor is a distributed block store. Clients split images into objects, a
primary OSD per placement group (PG) replicates or erasure-codes each object
over several OSDs, and each OSD keeps its part in a *blockstore*, a single-disk
storage engine with its own journal. On top of it are a key-value database, a
file system served over NFS, and commands that manage images, snapshots and pools;
a monitor places PGs. Everybody meets in etcd.

This directory holds TLA+ specifications of these parts, TLC configurations that
check them on small instances, and TLAPS proofs for eight of them. `src/...` paths are
relative to the root of the repository; its C++ sources are in `src/src/`, the monitor in
`src/mon/`. `PROJECT.json` lists components, runs, hazards, theorems and, under `map`, the source
lines that each definition stands for.

1. Inventory - 2. Modules - 3. Runs, bounds, fairness - 4. Where the code disagrees
with itself - 5. Proofs - 6. Not modelled, and plan

## 1. Inventory

| Component | State | Operations | What makes it correct | Module |
|---|---|---|---|---|
| Blockstore: versions, flusher, restart (`blockstore_*.cpp`) | `dirty_db`, `clean_db`, allocator, `unstable_writes`, counters; journal, metadata and data areas | write, delete, SYNC, STABLE, ROLLBACK, read; flush; trim; restart | reads return the newest finished writes; durable versions survive a crash; a block has one owner; no assertion fails | `Blockstore` |
| Journal space (`blockstore_journal.*`) | `next_free`, `used_start`, open sector, `used_sectors`, superblock | `check_available`, prefill, release, `trim_journal` | nothing live is overwritten or trimmed; `next_free` never meets `used_start` | `JournalRing` |
| Journal sector writes (same files) | sector buffers, `flushing_ops`, waiting requests | prefill, prepare, submit, `handle_journal_write` | buffers are not reused in flight; requests end, and not before their own writes | `JournalWrites` |
| Fsync batches of the flusher (`blockstore_flush.cpp`) | `syncs`, `cur_sync`, counters | `fsync_batch` | batches are exact, also with a full submission queue; every flush ends | `FlushSync` |
| OSD: primary, peering, recovery, history (`osd_primary*.cpp`, `osd_peering*.cpp`, `osd_flush.cpp`, `osd_cluster.cpp`) | object versions on every OSD, PG state, flush batches, PG record in etcd | write, read, SYNC, two-phase commit, listing, rollback, recovery, takeover | an acknowledged write survives; one version number means one content | `PG` |
| OSD: chunks (`osd_rmw.cpp`, `osd_scrub.cpp`, `osd_primary*.cpp`, `cli_fix.cpp`) | chunks, object states, scrub and fix state | partial writes, degraded reads, recovery, delete, scrub, fix | parity matches data; reads decode what was written; scrub blames only the rotten chunks | `Rmw`, `Stripe` |
| Placement (`src/mon/*.js`, `osd_cluster.cpp`, `etcd_state_client.cpp`, `cli_pool_*.cpp`, `cli_rm_osd.cpp`) | PG configuration, states, histories, leases in etcd; every process's copy | election, PG generation and scaling, taking, reporting and stopping PGs, pool and OSD commands | one primary per PG; history leads to the data; counts change only with all PGs stopped | `Placement` |
| Client (`cluster_client.cpp`, `cluster_client_wb.cpp`) | queue with wait counters, write-back cache, dirty OSDs | write, read, SYNC, retry, repetition after a lost connection | order of overlapping operations; a SYNC means durable; reads see own writes | `Client` |
| Messenger (`messenger.*`, `msgr_*.cpp`) | `clients`, `osd_peer_fds`, `wanted_peers`, outboxes, sent and received operations; RDMA send list, ring and receive buffers; RDMA-CM ids, timers, `used_max_cqe` | connect with retries, send, receive, reply, stop, ping; RDMA sends and receives; RDMA-CM events, accept, connect | a callback is called once; nothing reaches the successor of a closed descriptor; a stream arrives as it was sent; a connection attempt ends once | `Messenger`, `Rdma`, `RdmaCm` |
| Key-value database (`kv_db.cpp`) | B-tree blocks on shared objects, per-client caches | get, list, set, del with CAS; split | an atomic map; every operation returns | `KvDb`, `KvMap` |
| NFS proxy: directories (`nfs_kv_*.cpp`) | direntry and inode keys, caches, touch queue | CREATE, MKDIR, LINK, REMOVE, RMDIR, RENAME, SETATTR, LOOKUP | names lead to inodes that count them; data goes with the last name | `NfsDir` |
| NFS proxy: file data (`nfs_kv_write.cpp`, `nfs_kv_read.cpp`, `nfs_kv_defrag.cpp`) | places in shared volumes, inode entries, caches | WRITE, READ, defragmentation | what was acknowledged stays readable | `NfsFile` |
| Image layers (`cli_*.cpp`, `osd_primary_chain.cpp`) | inode configuration and index in etcd, layer data | create, snapshot, clone, merge, flatten, rename, rm; chained reads | every image keeps its contents | `Layers` |

Interaction. A client sends operations to the primary OSD, which sends
sub-operations to other OSDs and calls its own blockstore. Every process is one
thread with an event loop, so a handler runs to its end and the interleavings are
those of completions, messages, etcd answers and watches. Processes act on copies of etcd
that lag, and change it with compare-and-swap transactions. The NFS proxy and the
key-value database above it use nothing but client reads and CAS writes.

The hard behaviours: power failure between any two disk writes, completions out of
order, a flusher that works on objects being written, a journal that the requests which
free it also need, versions written in phases by OSDs that may disappear, decisions from
stale copies, and commands or proxies that die half-way. `PROJECT.json` lists them as hazards, each at
its line.

## 2. Modules

Every component module has its state as variables, one action per handler or step
between two waits, and a `setup` variable (except `JournalRing`, `JournalWrites`,
`FlushSync`, `Rdma`, `RdmaCm`): `Init` picks one of the `Setups`, which the `MC` module lists, so one run
covers several configurations and workloads. Variables and fields called `holes`, `hole`, `exempt`, `loose`, `torn`, `skips`, `skipped`, `mixed`, `trust`, `lost`, `leaked`,
`given`, `clobbers` and the counts `old`, `full`, `over` of `PG` are ghosts: they record that a behaviour met one of the known windows of
section 4, and the properties excuse just what that window touches, so that they
still say something about everything else. The comment of each property lists its exceptions.

**`Blockstore`.** `mem` is all memory (`dirty_db`, `clean_db`, allocator, unstable list,
counters, flush queue); `wq` the write requests of `submit_queue`; `unsynced`, `syncs`, `stabs`
SYNC and STABLE/ROLLBACK; `fl` the flusher coroutine; `journal` the entries from
`used_start` on, `jdur` the positions of those that are on the media, in any order; `blk` and `meta` the data and metadata
areas, each cell with its current value and those a crash may leave. `EnqueueWrite`,
`DequeueBig`, `DequeueJournaled`, ... are `enqueue_write` and the states of `continue_write`;
`SyncStart` ... `AckSync` are `continue_sync`; `FlushBegin` ... `FlushEnd`, `TrimJournal` the flusher;
`Crash` is a power failure with the whole restart (`LoadMeta`, then `ReplayEntry` over the surviving
entries). An object is a function from a few regions to the write that filled each. One
flusher coroutine; journal space is a count of entries; the trim is one step
(`JournalRing` has it in two); an implicit SYNC is a SYNC at any time; checksums are left out. An answer says only that the
request's own entry is written: what lies before it may be missing, and replay stops there.

**`JournalRing`.** Positions are journal blocks, block 0 the superblock. `CheckAvailable`,
`Prefill`, `DataStart` are the arithmetic; `WriteEntry` a write, delete or the entry of a SYNC, with any reservation up to `MaxReserve`, `WriteStab` a STABLE or
ROLLBACK, `CloseSector` a SYNC that submits the open sector; `ReleaseSector`, `Flushed`, `RollbackWritten` drop references; `TrimBegin`/`TrimEnd` are the
halves of `trim_journal` around the superblock write. Entries have one size and come one
at a time; `dirty_start` is left out.

**`JournalWrites`.** One iteration of the event loop adds entries to sector buffers and
submits a batch; the device ends writes in any order and `handle_journal_write` releases
waiting requests. Sectors are numbered instead of placed in the ring. The mode
(`immediate_commit` none or not) is chosen in `Init`.

**`FlushSync`.** Coroutines flush objects; each shares up to two fsyncs, of data and of
metadata, with others through `fsync_batch`. A batch is sent by the first member that finds
`syncing_flushers >= active_flushers` or the queue empty; without a free SQE it waits (`sqe`) and then sends without
looking at the batch again, so that a batch may get several fsyncs. `MCJournalWrites` runs it beside `JournalWrites`: a
behaviour is one of either.

**`PG`.** One object of a PG on three OSDs. `store[o]` is what an OSD holds (versions,
their contents, stable or not, durable or not); `cur`, `syn`, `rd` the primary's write, SYNC and read
under way; `pg` the primary's PG (state, sets, object state, flush batch, listings); `etcd`
state, history and transactions in flight; `cl` the client. Sub-operations are lost with a connection after or before
they had their effect. Assumed: a peer serves requests in order and finishes an old
connection before a new one; the client does not write while its own SYNC is
outstanding; an EC role is an OSD's position. `count` has ghosts for
an epoch that is used again, a full disk that is ignored and a history that is overwritten (section 4). Deletes, corruption marks and PG locks are left out.

**`Rmw` and `Stripe`.** `Rmw` has the operators of `osd_rmw.cpp`: which ranges of which chunks are read,
extended, reconstructed, encoded and written, and the search for consistent combinations by
scrub, over chunks of three units with values in GF(8) (the external codec; bitmaps are coded along).
`Stripe` runs them: writes, reads with retries after checksum errors, recovery, deletes, chunks
that rot (`Rot`), scrub with its voting and marks, and `vitastor-cli fix`. Assumed: immediate commit, OSDs serve one primary's
requests in order, EC writes become visible at their commit and replicated copies one by one; the
administrator names an OSD whose chunk really rotted and does not write meanwhile. Behaviours end at a defect that leaves
wrong chunks or lists behind (`CONSTRAINT Alive`); they go on after lost parity bitmaps, cleared marks ("unmarked") and hidden vacancies ("vacant"),
and after a read that decoded leftovers.

**`Placement`.** `db` (PG configuration, histories, pools, master lease), `lock` (PG state keys
with their leases) and `loc` (which OSDs have the newest version of an object) against the copies
`known` of monitors, OSDs and commands. `EtcdInit`/`Item` load and watch; the monitor's
election, `recheck`, PG generation, scaling and history; the OSD's `apply_pg_config`, `report_pg_states`,
peering, stop; pool creation and modification, `rm-osd`. A lease runs out after its process has died, or
under an OSD that is stalled and goes on with its PGs until `renew_lease` fails (`LeaseEnds`, `RenewFails`). Assumed: alive means connected; an answer comes before the watch of the same change. Balancing by linear program is an arbitrary choice of sets. PG locks,
affinity, EC pools and `pg_minsize` above 1 are left out.

**`Client`.** `queue` with wait counters, `cache` (the write-back buffers), `todo` (callbacks that the running
handler calls), `overflow`; connections and OSDs that lose unsynced writes with them (`vol`, `dur`). The
user does not overlap its own outstanding writes. A flush goes through `execute_internal`: it counts as an unsynced write and may push a SYNC, which flushes what is left (`ListStep`, `AddStep`). Behaviours end where `inc_wait` aborts (`CONSTRAINT Asserted`, see section 4). Deletes, in the cache too, CAS, snapshots are left out.

**`Messenger`.** Connections of one process to OSDs and from clients: descriptors that the kernel hands out again, `clients`,
`peers` (`osd_peer_fds`), `wanted` (addresses, attempts, timers), outboxes and the operations on both sides. `todo` are the calls that
the running handler still makes: callbacks, `stop_client`, `repeer`, so a callback that sends or stops from within a handler is an interleaving
of its own. A message is a header and at most one piece of data, and what arrives is split or joined at these. Peers and
kernel are external: a peer answers, stays silent, closes, or sends something bad. Ghosts: `leaked` (a reference that is never
dropped), `lost` (operations deleted without their callback, section 4), `wronged` (something reached a successor of its connection). HTTP, the
threads of `msgr_iothread_t` and the reading of configuration are left out.

**`Rdma`.** One RDMA connection as a pipe of bytes, which are numbered: the send list, the ring that data is copied into unless ODP
is on, the messages in flight, the receive buffers and the reader that takes them (`try_send_rdma`, `handle_rdma_events`). The device is external: it
delivers in order and completes sends later.

**`RdmaCm`.** The connection manager: ids that the device hands out and takes back, the events `handle_rdmacm_events` copies before it handles
them, address and route timers, device removal, `rdmacm_connections` and the completion queue budget `used_max_cqe`, with resizes that fail. An entry of the
map whose connection was deleted is "deleted", a dangling pointer. The library is external.

**`KvDb`, `KvMap`.** Clients with block caches run get, list, set, del, CAS on one B-tree with blocks
of at most three keys; every block write is a CAS on its object's version; splits write the right half
first; reads, writes and SYNCs may fail with an error. `KvMap` is the promise: an atomic map. `Implements` is the refinement `Map!Spec`, with `map` the tree's contents and `Outcome` what clients see, and that reads are fresh.

**`NfsDir`, `NfsFile`.** The operations as sequences of single updates of the key-value database,
each atomic as `KvMap` promises, with cached reads that may be old, and proxies that die. A DEL of a key that is gone succeeds without its comparison, and so does a SET of the value
that is there; that an update with nothing to do may end on an old cached block is left out. `NfsFile`
adds the places of packed files, read-modify-write of sectors with object versions, moves, single writes that fail, and defragmentation with several moves at once.
Assumed: a place lies in one object, one client's requests reach an object in order, defragmentation picks volumes
nobody appends to. READDIR, permissions, truncation, fsync and failed reads are left out.

**`Layers`.** Configuration (`conf`, `index`, `maxid`) with revisions in etcd, every process's copy, objects of
each layer with versions; snapshot, clone, merge, flatten, rename, rm as state machines with their
transactions; a client that writes and reads chains meanwhile. A watch jumps to the current configuration.
An OSD that does not know the inode refuses, which is what `inode_config.end()` gives with libstdc++ (section 4). Resize, read-only marks, wildcard rm are left out.

## 3. Runs, bounds, fairness

Each run is `tlc -config X.cfg MCX`, within five minutes on two workers. All
bounds are constants, or budgets in the records of the `MC` modules.

| Run | States | Instance | Shows |
|---|---|---|---|
| `blockstore` | 657k | five setups: an EC object and a replicated one on disks that need fsync, two objects sharing two blocks (EC or replicated) with deletes and low versions, a client that does not serialize | `NoFatalError`, `BlocksExclusive`, `ReadsCorrect`, `ListsExact`, `CrashKeeps` |
| `journal_ring` | 938k | 8 blocks, 3 entries, data of 0-2 blocks, reservations of 0-2 | `NoOverwrite`, `SuperblockCoversLive`, `NoCrossing` |
| `journal_writes` | 128k | one request of each kind, 2 buffers, 2 entries a sector, both modes; flusher: 3 coroutines, 4 flushes | `BuffersPinned`, `OwnWritesEnded`, `HeadPending`, `RequestsComplete`; `BatchesExact`, `FlushesEnd` |
| `pg` | 1.39M | ten setups: 3 OSDs, 1-2 writes, 1-2 failures; 3 copies or EC 2+1, sets moved once or twice, SYNCs, ENOSPC, reads | `ReadsFresh`, `SafeKept`, `OneContent` |
| `client` | 697k | 3 units, 2 OSDs, cached or not, one pool or two, with dropped connections, PG moves, EIO | `WaitsExact`, `SyncDurable`, `ReadsFresh` |
| `kv` | 310k | 15 setups of 2-3 operations by two clients; a crash, a lost answer, a failed request | `Implements`, `OpsReturn` |
| `nfs_dir` | 120k | nine scripts for three clients on two proxies, a crash | `NamesKept`, `RequestsEnd` |
| `nfs_file` | 291k | twelve scripts: files grow, move, leave a volume, defragmentation, a failed write | `DataKept`, `RequestsEnd` |
| `layers` | 115k | eight trees with commands of one or two tools, writes, a read, a crash, a lost answer | `ContentKept`, `ReadsFresh`, `CommandsEnd` |
| `placement` | 515k | 15 setups: 3 OSDs, 2 monitors, up to 2 PGs, crashes and returns, a stalled OSD, a lost answer or a change of master in the middle of a merge | `OnePrimary`, `DataFound`, `CountSafe` |
| `stripe` | 302k | 698 setups: every range and placement for EC 2+2 and XOR 2+1, degraded sets, 2 or 3 copies; rot, scrub, fix, delete | `ChunksRight`, `ReadsRight`, `ScrubExact` |
| `messenger` | 369k | 11 setups: 2 connections over 2 descriptors, an OSD with two addresses, bad or silent peers; RDMA: 7 bytes in messages of at most 3 and 2, 3 sends, 2 receives; RDMA-CM: 2 ids, 2 attempts, a request, a removal | `LinksSane`, `AnsweredOnce`, `OpsAnswered`, `RdmaExact`, `CmExact` |

What the properties say:

* `NoFatalError`: no assertion, `exit(1)` or "BUG" exception is reached; in particular a restart
  never refuses its journal. `ReadsCorrect`: a read of a finished version returns exactly the
  writes up to it, whichever of journal, block and half-done flush holds them. `CrashKeeps`: after
  a restart the newest stable version is the one before the crash or one under way, and durable
  unstable versions are there, unless an answered request lies behind an entry that was not written (section 4). `BlocksExclusive`: one owner per block, as the allocator says. `ListsExact`: the
  counters behind back-pressure and the journal reservation, and the list from which the OSD learns what to settle.
* Ring: nothing live is overwritten; whatever start a crash leaves in the superblock covers every live
  entry; the assertions that keep `next_free` from `used_start` hold.
* Sector writes: a buffer in flight keeps its place and `flush_count` is exact; a request goes on only after
  its own writes; no waiter is left behind writes that have all ended; every request completes.
* Batches: `cur_sync` never dangles, counters are numbers of members, whoever sends the fsync and however often; every flush ends.
* PG: `SafeKept` what was acknowledged durable is in whatever the active PG would read; `ReadsFresh` reads return acknowledged
  writes; `OneContent` one version number is one content, and a primary never asks its own store for something it refuses; each up to the windows its comment names (a reused epoch, ENOSPC, an overwritten history).
* Client: `WaitsExact` wait counters equal the operations ahead that block (writes that are neither counted nor count, in pools with immediate commit, aside); `SyncDurable` what was acknowledged before a SYNC is durable when
  it succeeds, and until then held for repetition, unless the write ended with a fatal error; `ReadsFresh` reads are not older than acknowledged writes.
* KV: `Implements` the map is atomic, results are explained by it; `ReadsFresh` a GET that asked the cluster sees
  a value of its own time; `OpsReturn`.
* NFS: `NamesKept` an inode lives as long as its names and its data as long as the inode (`InodesKept`), and an acknowledged name stays until somebody asks to take it away (`GivenKept`);
  `DataKept` file contents, and what reads return, never fall behind an acknowledged write; `RequestsEnd`.
* Layers: `ContentKept` every image and snapshot reads the same at every step of every command, and index and parents are sound;
  `ReadsFresh` a chained read returns values of its own time; `CommandsEnd`.
* Placement: `OnePrimary` nobody shares a PG with another one that has its key, loose PGs aside; `DataFound` a PG that serves has asked somebody with the newest version of each of its objects;
  `CountSafe` PGs are never served with their keys under two different PG counts, unless `rm-osd` has put an old configuration back.
* Stripe: `ChunksRight` the chunks the primary believes in are the code of the acknowledged content; `ReadsRight` reads return it;
  `ScrubExact` only rotten chunks are marked, and a scrub that could see rot has marked it.
* Messenger: `LinksSane` descriptors, clients, peers, wanted addresses and references agree; `AnsweredOnce` a callback is called once, with its own answer, and nothing
  reaches the successor of a closed connection; `OpsAnswered` every operation ends, be it by an answer, a timeout of the ping or the end of its connection. `RdmaExact` what has been read
  is a beginning of what was sent, without gap, repetition or overwriting of what is still in flight; `CmExact` an attempt calls its callback once, ids are
  destroyed once, and timers and completion queue entries belong to somebody.

Every property has a mutant in `PROJECT.json`: a plausible slip in one definition that breaks it.

**Why the bounds suffice.** Two blocks let a freed block be taken by somebody else and fill the disk; four
versions are a flushed, an unflushed, a new base and one under way. Eight ring blocks let entries and data wrap
with and without a reservation. Three coroutines are one that sends, one that waits and one that arrives between.
Two descriptors let a descriptor be given to another peer while calls of its former owner are outstanding; seven bytes make the RDMA ring wrap. Three OSDs with two failures reach every mixture of versions a write can leave; two writes and a recovery are
enough for a second epoch. Two key-value clients with a full leaf meet split and resumed split, and the third
operation meets the result. Three units in a chunk give a begin, middle and end to partial writes;
all ranges and placements are enumerated. Symmetry is used for blocks and
ring entries, which no definition orders or names, in runs without liveness.

**Fairness.** `Blockstore`, `JournalRing`, `PG`, `Client`, `Placement`, `Stripe` state safety only. `JournalWrites` has weak fairness
for each handler: the loop runs again after every completion and the device completes what was submitted.
`FlushSync`: weak fairness per coroutine, as `journal_flusher_t::loop` runs all of them while one is active. `Messenger`: weak fairness of the calls of a handler, strong fairness of the timers and, per connection, of the
events of the loop, since the kernel ends what it began and the loop handles each event, and weak fairness of the answers of live peers; a silent one is found by the ping. `KvDb`, `NfsDir`, `NfsFile`, `Layers`: weak
fairness of all steps of requests under way together (answers arrive, watches and timers fire). New requests, new commands, crashes and
lost answers are never fair. Deadlock is checked in `nfs_dir` and `nfs_file`; elsewhere bounded clients simply stop, and a ring that is full may stay so (section 4).

## 4. Where the code disagrees with itself

Found by TLC while the models grew. Behaviours that run into one of them are excused by a ghost, pruned by a constraint or kept out of the setups, as
said; a name in `code` in parentheses is a property that states the intent and does not hold, kept in its module with no run.

Blockstore

* Answered too early (`JournalWrites`, `AckedDurable`): a sector submitted earlier in a batch keeps its `submit_id`, so a STABLE or DELETE whose entry shares it with a small write
  is answered before that write's data; replay stops at the small write and loses the answered request (`Blockstore`, `LostAnswers`), and when the lost one is a STABLE or DELETE of an object whose block was given away since, replay may even meet a block that is allocated twice and exit (`torn`). "Make subsequent
  journal writes wait for our data write" (`blockstore_write.cpp:488`). A waiter released behind a write that ended out of order (`blockstore_journal.cpp:240`) and a SYNC that skips a sector in flight (`blockstore_sync.cpp:42`) do the same.
* Fsync order (`FlushSync`, `SyncedInOrder`): a coroutine of a batch goes on when the fsync is sent, since the sender sets `state` to 1 before it ends (`blockstore_flush.cpp:1347-1356`): metadata may reach the media before data. "Wait until someone else sends and completes a sync." (`:1370`). `Blockstore` models the intended order. And a member that waited for an SQE resumes behind the check of `state` (`:1349-1352`), so that a batch may get several fsyncs.
* Superblock (`JournalWrites`, `SuperblockUntouched`): the first small write after a start writes the unmapped sector, offset 0, over the journal superblock (`blockstore_write.cpp:404-411`).
* Order of bases (`Blockstore`, `BigJournaledFirst`): `ack_sync` releases every later `WAIT_BIG` write, also those above a newer unsynced big write (`blockstore_sync.cpp:195`, against `blockstore_write.cpp:82`). Excused by `torn`.
* With `immediate_commit=none` a big write may be journaled after the DELETE that follows it, and replay drops the delete (`blockstore_init.cpp:1014-1023`); and two SYNCs whose fsyncs end out of order let replay meet a double allocation and exit (`:1067-1071`). Hence the setups crash with one SYNC at a time and delete only with `immediate_commit=all`.
* Reservation: STABLEs may find no room, so that the ring stays full: a write reserves one sector for each object in `unstable_writes` (`blockstore_write.cpp:398`), though each of its versions may need an entry, and the entries that a SYNC adds for big writes reserve nothing, after their
  own reservation was dropped (`blockstore_sync.cpp:27`, `:88-95`). `JournalRing` therefore leaves the reservation open and has no property about it; hence also `CHECK_DEADLOCK FALSE`.
* By reading: `check_available` for several sectors may wrap past `used_start` when `right_dir` is false already (`blockstore_journal.cpp:57-62`, `:113`), which the assertion of `:152` would catch. `JournalRing` adds entries one at a time.
* A listing with `list_stable_limit` ends at the first stable entry of `dirty_db` (`blockstore_impl.cpp`, `process_list`).

OSD

* Epochs (`PG`, `EpochsGrow`, ghost `old`): `pg.epoch` "should increase with each non-clean activation" (`osd_peering_pg.h:93`) but is recomputed from the versions of connected OSDs; without the OSD that alone holds the newest epoch, an epoch is used twice, two writes get one version and one of them, acknowledged, is lost.
* ENOSPC (setup `NoSpace`, ghost `full`): "we should mark the object as degraded for replicas" (`osd_primary_write.cpp:266-270`) is never done, since `read_error` is only set for `OSD_OP_SEC_WRITE` (`osd_primary_subops.cpp:385-391`); the copies differ under one version.
* History (`HistoryKept`, setup `MovedTwice`, ghost `over`): a stopping PG retries its transaction and overwrites the monitor's `osd_sets`, against "Prevent race conditions" (`osd_cluster.cpp:1020`); `all_connected` ignores wanted peers (`osd_peering.cpp:205-213`). The setups of `Placement` leave it out: there it needs a pool that shrinks to one copy
  per PG, `[Merge EXCEPT !.sets = <<{1}, {2}>>, !.size = 1]`.
* Leases (`Placement`, ghost `loose`): an OSD that is stalled, or cut off from etcd, for longer than its lease keeps serving until `renew_lease` gets TTL 0 (`osd_cluster.cpp:500-503`, `:603-664`); another OSD may have taken the PG. And an OSD takes a PG again from its stale copy while the deletion of its own state key is in flight; the code detects "OSD captured our PG" later and exits (`osd_cluster.cpp:1095`).
* Retry of reads (`Stripe`, `mixed`): after a checksum error `missing`, read ranges and bitmaps of the earlier attempt stay, so an EC read retried after a second corruption decodes a parity buffer that was never read (`osd_primary.cpp:285-299`); and a degraded read during a delete or between the commits of a write decodes a mixture. Only that read is excused.
* Scrub (`Stripe`, "unmarked"): a second scrub or read of a chunk that is marked already takes the else-branch and clears the mark (`osd_scrub.cpp:622-628`, `osd_primary.cpp:404-413`); without checksums recovery may then copy the rotten chunk. `ScrubExact` does not count such chunks, nor those behind a vacancy that was hidden by EDOM ("vacant").
* `Stripe`, others: recovery of a data chunk writes zero bitmaps of parity ("bitmap"); a scrub racing a delete marks a deleted object ("ghost"); EDOM hides EPIPE in a degraded PG ("vacant"); `remove_object_from_state` with a changed state ("kept", "crash"); a deletion with all chunks corrupted never ends; `inconsistent_objects` entries stay after a fix; `ec_find_good` initialises `eq_to` only up to `pg_size`; votes flag only the first copy of a losing class.

Client and key-value database

* Counters (`Client`, `Asserted`): a write to a pool with immediate commit does not wait for the SYNCs ahead of it (`cluster_client.cpp:839-848` skips `calc_wait`), but `inc_wait` still counts it down when such a SYNC ends (`:245`). A client of two pools, one with immediate commit and one without, writes to the second, SYNCs and writes to the first: if the SYNC ends first, `assert(next->prev_wait >= 0)` (`:248`) fails. Met when the proof of `WaitsExact` needed `imm` to be the same for all inodes; the setup `MCTwoPools` shows it.
* SYNC (`Client`, `SyncDurableAll`): a second write replaces the first one's buffer, the connection drops, the first is not repeated and the retried SYNC finds `dirty_osds` empty; against "repeat SYNC after repeating all writes" (`cluster_client.cpp:725`). A write that ends with a fatal error should be forgotten "from the current unsynced batch" (`:714`), but its buffer stays `CACHE_REPEATING` for ever, in the place of the content that was acknowledged before (`:1099-1105`; `Abandoned`). Also excused in `exempt`: a repeated write that overtakes (`:190-225`, `:1523-1530`), torn multi-part writes, misplaced repeats.
* Split (`MCLost`, `TreeIntact`): a split that was applied but whose answer was lost is taken for a lost race and its right half zeroed (`kv_db.cpp:1802`), against `:1815`. A failed SYNC after the write of a split or of a new root does the same to halves that the stored block refers to (`MCSync`; `:1740-1770`, `:1799-1815`).
  A DEL that then meets an empty block never returns (`MCLostDel`; `:1470`).
* First root (`MCRoot`): when its write fails, the root stays in the cache and readers of the process see a key that is not stored (`:1520-1533`).
* Reads (`MCReader`, `ReadsFreshAll`; ghost `trust`): an old leaf is taken from the cache while an update waits on it (`kv_db.cpp:857`), against `vitastor_kv.h:34-35`. Reordered answers (`MCReorder`, `UpdatesKept`): `known_versions` runs ahead of the cached block, so a CAS passes on an old copy (`kv_db.cpp:904`). SET, DEL and CAS do not recheck.
* `block_cache.at` throws when the block was dropped before `set_immediate` came to it (`:866-875`, `:1064`); nobody catches it, so that the process ends (`Throw`), which the properties treat as the death of a client.

The setups of the run leave out `MCLost`, `MCSync`, `MCRoot` and `MCReorder`; everything else is in it.

Messenger

* References: `read_requests` takes a reference before it asks for an SQE and does not drop it when there is none (`msgr_receive.cpp:31-48`; `leaked`): the client is never freed.
* Callbacks: operations parsed from one buffer are collected and deleted when a later message of the buffer is bad (`clear_immediate_ops`, `msgr_receive.cpp:138-157`); replies among them never
  reach their callbacks (`lost`), and `AnsweredOnce` and `OpsAnswered` excuse them.
* Sends: a batch without replies leaves the end marker in `zc_free_list` (`msgr_send.cpp:294-297`); a partial zero-copy send would meet an assertion (`:327`); a first send that gets EAGAIN is not
  queued again before the next message; `SEC_READ_BMP` with `retval <= 0` pushes an outbox entry without data (`:100-103`).
* RDMA: `send_out_full` is set whenever `out` has passed `done`, so usually one message is in flight until the ring wraps (`msgr_rdma.cpp:694`), a matter of speed only; the size of the ring is computed from the current `rdma_max_send`
  and checked against the one of the connection's creation (`:665`).
* RDMA-CM: entries of `rdmacm_connections` are not erased when a connection is deleted (`msgr_rdmacm.cpp:117-122`; "deleted"); the number that stands for a descriptor stays taken when `rdmacm_accept` fails (`lostfds`); a `create` that cannot
  grow its completion queue leaves `used_max_cqe` raised; `rdmacm_create_qp` ignores a failed `ibv_resize_cq` (`msgr_rdmacm.cpp:243`, `msgr_rdma.cpp:415-419`), so that completions may overflow the queue; the message size is not negotiated.

NFS proxy

All of these are in `holes` unless said otherwise.

* Missing keys: a DEL of a key that is gone returns success before it calls `cas_cb` (`kv_db.cpp:1602-1608`), and a SET of the value that is there does, too. Two REMOVEs, or a REMOVE and a RENAME, of one name thus count its link down twice: the inode of a file with a second name is deleted (`DelEntry`, `RenameSet`, `Dropped`).
* LINK: when it reads the inode again after a failed CAS and the inode is gone, the direntry stays and leads nowhere (`nfs_kv_link.cpp:71-77`; `LinkRead`); LINK onto a name of the same file raises `nlink`; its undo deletes without comparing (`:129-141`).
* RENAME: `rm_dest_data` stays set after a failed CAS (`nfs_kv_rename.cpp:271-300`); not atomic against operations on its source; ENOENT though done; between two links of one file it removes one; over a directory always ENOTEMPTY; renames in a circle give back to each other what they took and never end (`Circle`, which `RequestsEnd` excuses).
* RMDIR of a non-empty directory "restores" the entry with `del` (`nfs_kv_remove.cpp:201-210`). REMOVE takes EAGAIN on the inode for success (`:256-262`). A proxy that dies between the two steps of a LINK or RENAME leaves a name that is not counted (`Halfway`).
* Padding (`NfsFile`, `PaddingSafe`): "rmw can be skipped at end - we can just zero pad the request" (`nfs_kv_write.cpp:498`) zeroes bytes that another request has written behind the end seen by this one.
* Paired read-modify-writes: two requests of a proxy for one sector are joined, and both buffers are built from what one of them has read, so that the second write takes back the first (`:213-220`; `AlignPut`).
* A write in place that fails is acknowledged: the result of the data write is replaced by that of the inode update (`:882-906`; `AlignFails`).
* Others: short overwrites of the first sector; unshare without CAS (`:720`); over-read of the old buffer (`:404-411`); a write that fills exactly the rest of the header's sector is refused with EINVAL since its length is not aligned (`:537`). By reading: a failed read before the unshare is not noticed (`:927-931`).

Commands and monitor

* `rm` always merges with CAS 2 though the documentation says "default is decide automatically" (`docs/usage/cli.en.md:45`); a failed check does not stop `continue_merge` (`cli_merge.cpp:243-249`); `rename_inverse_parent` copies `deleted`; no fsync between merge and deletion; a clone made of a layer during its `rm` is not noticed, and its data goes.
* `rm` of a range whose inverse child is not the direct child of the inverse parent empties that child first and renames later (`cli_rm.cpp:162-175`): the images above read the data of the layers between until the transaction, and for good when the command dies before it (`Layers`, setup `Deep`, ghost `skipped`).
* Writes sent for a layer before its snapshot, merge or removal was seen arrive late and are lost or land in a layer that is being removed, and a command that dies or removes a layer under a clone leaves images without their data (`Layers`, `holes`). A read whose layers are removed in its middle, or of an inode that is no longer the image, returns a mixture (`torn`).
* An OSD dereferences `inode_config.end()` for an inode it does not know (`osd_primary.cpp:74-75`): undefined; with libstdc++ `mod_revision` is then read from a pointer inside `on_change_hook`, the member that follows the map, which is never a revision, so the read is refused, and so it is modelled (`SameRevision`).
* `rm-osd` passes "checks" for "compare" (`cli_rm_osd.cpp:275`), so it overwrites the PG configuration it has read over a newer one (`clobbers` of `Placement`); `osd_tree.js:18` turns every positive reweight into 1; `etcd_watch_revision_pg` is off by one after `load_pgs` (`osd_cluster.cpp:699`); `schedule_next_recheck_at` subtracts the wrong way round.

## 5. Proofs

Eight modules hold theorems, each for every value of the constants.

**`JournalRing_proofs`** (`RingAssumption`: at least 3 blocks, any sector capacity, any finite sets of lengths and entries) proves the
safety properties of the ring from `RingInvariant`. None is inductive: that nothing live is overwritten needs to know where the live entries are
and that they do not overlap; this survives a trim only if the trim is behind every live entry *and* behind the open sector; and the open
sector stays in front only while some live entry pins it. `RingInv` has the parts `TypeOK`, `EntriesInRing`, `EntriesApart`, `OpenSector`, `StabsOfDurable`,
`TrimBehindLive`, `DiskIsStart`, `NoCrossing`. Nothing depends on how much room a request reserves: an entry may be written with any reservation up to `MaxReserve`, none included, as SYNC does. The arithmetic is in lemmas on the distance from `used_start`; then one lemma per action.

**`JournalWrites_proofs`** (`WritesAssumption`: any requests, at least two buffers, any entries per sector, with and without `no_same_sector_overwrites`) proves `AlwaysPinned`, `AlwaysHeadPending` and
`AlwaysOwnWritesEnded` from `WritesInvariant`. `WritesInv` says that submitted writes, waiters and buffers agree (`Pinned`), that write numbers are ordered
and the first waiter of every group waits for a write in flight (`Ordered`, `FirstPending`), and that whatever a request still needs is
either written or waited for by it (`RequestOwned`) - the last is what `OwnWritesEnded` lacks to be inductive, because a request
may find its entry in a sector that another one submitted. The operators of the journal (`Prepare`, `Prefill`, `AddData`) get lemmas on their fields, on soundness and on
growth. A SYNC adds the entries of any number of big writes in one step; that this keeps the journal sound and finds a buffer for each sector is an induction over its entries
(`ChainExists`, `EntryStep`, `BigsSound`), carried out with a set of counterexample indices and its least element.

**`FlushSync_proofs`** (`FlushAssumption`: any finite set of coroutines) proves `BatchesAreExact` from `FlushInvariant`;
`FlushInv == FlushTypeOK /\ BatchesExact`, also when the submission queue is full and a coroutine resumes behind the check of the batch's state, so that two may send: counters are cardinalities of sets of coroutines, so the lemmas `OneMore` and `OneLess` move them along, and a free batch number is found by counting (`FreeIdFound`).

**`Placement_proofs`** (`OSDsAssumption`, `MonitorsAssumption`: the numbers of OSDs and monitors are positive, 0 stands for none; `SetupsAssumption`: a setup names a PG count and the OSD sets of its PGs; any PG count, faults and commands) proves `AlwaysOnePrimary` from `KeysInvariant`
and `AlwaysCountSafe` from `CountInvariant`. `OnePrimary`
is not inductive: an OSD serves what its memory says, not what etcd says. `KeysHeld` adds that an OSD with a live PG has the state key of it and that no transaction in flight gives the key away. The proof follows what
each handler does to the PGs (`Takes`: a PG becomes live only if the copy says the key is ours) and to the reports in flight (`RepFits`). The exception `loose` covers an OSD that takes a PG again
while its own release is in flight, and one that goes on serving after its lease has run out, until it notices; both are windows of section 4 and are needed: without them the invariant is false.

`CountSafe` needs more, since the master decides on a copy of etcd and an OSD acts on another one. `CountInv` says of each OSD and PG (`InCount`) that the OSD holds it, or would take it at once from its copy (`Armed`: the key is its own, known and
still there), only under the count of the current configuration, and never once the master has seen all PGs of that configuration paused and without a key (`SeesStopped`), which is when it may change their number. Three further parts
make it inductive: an OSD creates no key that its copy already calls its own, and without its lease none at all (`Fresh`), so the key of an earlier life cannot arm it; a configuration the master has not seen differs from its copy in more than the OSD
sets (`Differs`), so `rm-osd`, which changes only those and compares nothing, cannot make an old copy look current; the master scales to a count that it knows or not at all (`MonCounts`). All of it is given up after an `rm-osd` that has put back
a configuration changed since (`clobbers`, the exception of section 4).

**`Client_proofs`** (`UnitsAssumption`: finitely many units; any OSDs and setups) proves `AlwaysWaitsExact` from `ClientInvariant`. The counter of an operation is compared
with a cardinality, and the queue changes at both ends and in the middle: `AppendOk` (`calc_wait`; also the flushes of the write-back cache and the SYNCs before them, which go through `execute_internal`), `PushOk` (`unshift_op`, any number of repeated writes at once) and `RemoveOk` (`erase_op`) each
show a bijection between the operations that held one back before and after. `WaitsExact` is not inductive: `erase_op` adjusts nothing for an uncounted operation, so nothing may wait for
one (`Good`: SYNCs and flushes are counted), which for flushes rests on `wbq` being empty without a writeback cache, and on what sits in `overflow` and in `todo` (`Fresh`, `EntryOk`).
`CInv` collects these; all other handlers only change fields that no counter depends on (`SameOp`).

**`Messenger_proofs`** (`MessengerAssumption`: any finite sets of connections and descriptors, any operations, requests and faults) proves `AlwaysAnsweredOnce` (`AnsweredOnce`) from `MessengerInvariant`. That a callback runs once
depends on where its message is: `Holding` says that each is in at most one of the operations sent, the read that waits for data, the immediate operations and the pending cancellations, over all connections, and that an operation is there exactly while it waits.
This survives a descriptor that is given to another peer only with `Links` (who has which descriptor, and what a stopped connection may still hold), `Phases` (which calls may be outstanding together, and that the immediate operations belong to one connection),
`Streams` (what was read and not parsed is whole messages, and a request is in one stream) and `Writes` (a reply is once in the outboxes or with the kernel, whose batches match the buffers it sends). One lemma per call and event. `LinksSane` says more about references than this needs, and is left to TLC.

**`Rdma_proofs`** (`RdmaAssumption`: any number of bytes and sends, any message sizes, ODP or not) proves `RdmaDelivers` (`RdmaExact`) from `RdmaInvariant`. What makes it inductive is where every byte is: the
messages in flight are consecutive pieces of the stream (`FlyInv`), what is copied but not sent lies behind them (`ListInv`), what is received and not yet read before them (`RecvInv`), and their places in the ring
are apart (`InRing`). The room is carried along: fewer than `MaxSend` messages of at most `MaxMsg` bytes are in flight, so `out` cannot reach one that is not yet done, which no single comparison in `try_send_rdma` says.

**`RdmaCm_proofs`** (`RdmaCmAssumption`: any ids, attempts, requests and removals) proves `CmAlwaysExact` (`CmExact`) from `CmInvariant`. The events of a round are copied before the first is handled, so handling one may destroy the id that another names. `CmInv` says
that each event fits the state of its id (`EventInv`), and that only failures follow another event of the same id (`OrderInv`), hence a copied answer is still current when its turn comes. `used` is the share of the existing queue pairs whether or not a resize succeeded.

Only model-checked: everything else. The liveness properties (`RequestsComplete`, `FlushesEnd`, `OpsReturn`, `RequestsEnd`, `CommandsEnd`, `OpsAnswered`), since the
prover does neither fairness nor `ENABLED`; `DataFound`, which follows the histories of PGs through splits, merges and cleaning and has no short
inductive form; `Implements`, `LinksSane` and the properties of `Blockstore`, `PG`, `Stripe`, `NfsDir`, `NfsFile`, `Layers`, whose inductive invariants
are not worked out, and `SyncDurable` and `ReadsFresh` of `Client`, which depend on what the OSDs hold. `ScrubExact` is in part an action property; that a rotten object is eventually healed is not stated, since TLC cannot evaluate the enabledness of these actions in
reasonable time.

## 6. Not modelled, and plan

Left out, with reasons in `PROJECT.json`: listing and checksums of the blockstore, disk tools, HTTP, I/O threads, RDMA device setup, block device front ends, the NFS protocol layer and block mode,
the event loop, CSI and other glue, the monitor's linear program and statistics, PG locks, and inside the modelled parts what section 2 names.

Next: theorems for the rest of `Client` (every buffer marked as repeating belongs to a queued operation), for the index of `Layers`, for the explained
results of `KvMap`, and the refinement of single updates in `NfsDir`; a module for the liveness of the blockstore's write queue (implicit SYNCs); the sets-to-bitmap refinement of the
allocator; PG locks in `Placement`.
