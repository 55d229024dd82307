------------------------------- MODULE NfsDir -------------------------------
(***************************************************************************)
(* The directory operations of VitastorFS: CREATE, MKDIR, LINK, REMOVE,     *)
(* RMDIR, RENAME, SETATTR of the NFS proxies, each a sequence of gets and   *)
(* compare-and-swap updates of the shared key-value database.               *)
(*                                                                         *)
(* The database is the one KvMap specifies: every get, set and del is one   *)
(* step, and an update compares with the value that is stored; that an      *)
(* update with nothing to do ends on an old cached block is left out.  A    *)
(* get that allows the cache may return what its proxy saw last.            *)
(* Several proxies run at once and may die at any step.                     *)
(***************************************************************************)
EXTENDS Naturals, Sequences, FiniteSets

CONSTANTS
  Setups,   \* the configurations and scripts of operations to explore
  IdMax     \* bound: the largest inode number of a pool

VARIABLES
  setup,    \* [names, dirs, proxy, script, entries, inodes, batch, crashes]
  dirent,   \* direntry keys: name -> [ino, ty]
  inode,    \* inode keys: inode -> [ty, nlink, ver]
  idkey,    \* the "id<pool>" keys
  cache,    \* what each proxy saw last: [dir, ino]
  idgen,    \* each proxy's id generator, by pool
  touch,    \* each proxy's touch_queue
  op,       \* the operation of each process
  left,     \* the operations each process has still to do
  removed,  \* inodes whose data was removed
  given,    \* ghost: name -> the inode an acknowledged operation gave it
  holes,    \* ghost: inodes met by a known window of the algorithms
  crashes   \* proxies that died so far

vars == <<setup, dirent, inode, idkey, cache, idgen, touch, op, left, removed,
          given, holes, crashes>>

-----------------------------------------------------------------------------
(* Keys and values.                                                         *)

DirPool == 0
FilePool == 1
Root == <<DirPool, 1>>
NoIno == <<DirPool, 0>>
Inos == {DirPool, FilePool} \X (0..IdMax)
NoEntry == [ino |-> NoIno, ty |-> "none"]
NoInode == [ty |-> "none", nlink |-> 0, ver |-> 0]

Procs == DOMAIN setup.proxy
Names == setup.names                \* name -> the directory that holds it
Proxies == {setup.proxy[p] : p \in Procs}
Px(p) == setup.proxy[p]

\* kv_map_type: the direntry carries a type for directories only
EntryOf(i, ty) == [ino |-> i, ty |-> IF ty = "dir" THEN "dir" ELSE "file"]

\* the text of an inode entry holds its ctime, so every update makes a new one
Changed(e) == [e EXCEPT !.ver = @ + 1]

Exists(i) == inode[i] # NoInode
\* kv_read_inode: the root directory may have no key
IsDir(i) == i = Root \/ inode[i].ty = "dir"

Idle == [k |-> "idle", pc |-> "idle", n |-> "", n2 |-> "", ty |-> "none",
         ino |-> NoIno, ent |-> NoEntry, ent2 |-> NoEntry, ie |-> NoInode,
         prev |-> 0, cached |-> TRUE, exists |-> FALSE, rm |-> FALSE,
         blind |-> FALSE, sole |-> TRUE]

NewGen == [next |-> 1, allocated |-> 0, free |-> {}]

Init ==
  /\ setup \in Setups
  /\ dirent = setup.entries
  /\ inode = [i \in Inos |-> IF i \in DOMAIN setup.inodes
                             THEN setup.inodes[i] ELSE NoInode]
  /\ idkey = setup.ids
  /\ cache = [x \in Proxies |-> [dir |-> dirent, ino |-> inode]]
  /\ idgen = [x \in Proxies |-> [q \in {DirPool, FilePool} |-> NewGen]]
  /\ touch = [x \in Proxies |-> {}]
  /\ op = [p \in Procs |-> Idle]
  /\ left = setup.script
  /\ removed = {}
  /\ given = [n \in DOMAIN Names |-> NoIno]
  /\ holes = {}
  /\ crashes = 0

-----------------------------------------------------------------------------
(* Database access.  An update refreshes the caller's copy of the key, also *)
(* when its comparison fails.  A DEL of a key that is not there and a SET   *)
(* of the value that is there succeed without a comparison (update_block).  *)

SeenEntry(p, n) ==
  IF op[p].cached THEN {dirent[n], cache[Px(p)].dir[n]} ELSE {dirent[n]}
SeenInode(p, i) ==
  IF op[p].cached THEN {inode[i], cache[Px(p)].ino[i]} ELSE {inode[i]}

SawEntry(p, n, e) == cache' = [cache EXCEPT ![Px(p)].dir[n] = e]
SawInode(p, i, e) == cache' = [cache EXCEPT ![Px(p)].ino[i] = e]

PutEntry(p, n, e) ==
  /\ dirent' = [dirent EXCEPT ![n] = e]
  /\ SawEntry(p, n, e)
PutInode(p, i, e) ==
  /\ inode' = [inode EXCEPT ![i] = e]
  /\ SawInode(p, i, e)

Goto(p, o, pc) == op' = [op EXCEPT ![p] = [o EXCEPT !.pc = pc]]
\* the reply: the process goes on to its next request
Reply(p) == op' = [op EXCEPT ![p] = Idle]
Queue(p, dirs) == touch' = [touch EXCEPT ![Px(p)] = @ \cup dirs]

At(p, k, pc) == op[p].k = k /\ op[p].pc = pc
\* what an operation leaves alone unless it says otherwise
Rest(p) == UNCHANGED <<setup, left, crashes>>

\* the names a request may take away, and the name it gives
Takes(k, n, n2) ==
  CASE k \in {"remove", "rmdir"} -> {n} [] k = "rename" -> {n, n2} [] OTHER -> {}
Target(o) == IF o.k \in {"link", "rename"} THEN o.n2 ELSE o.n
\* the answer promises the name unless another request was taking it; an older
\* promise that nobody asked to break stands
Give(p, i) ==
  given' = [given EXCEPT ![Target(op[p])] =
              IF ~op[p].sole THEN NoIno ELSE IF @ # NoIno THEN @ ELSE i]

-----------------------------------------------------------------------------
(* A request arrives.  Names that it may take away are no longer promised.  *)

FirstStep(k) ==
  CASE k \in {"create", "mkdir"} -> "id"
    [] k \in {"link", "setattr"} -> "lookup"
    [] k \in {"remove", "rmdir", "rename"} -> "entry"

Start(p) ==
  /\ op[p] = Idle /\ left[p] # <<>>
  /\ LET r == Head(left[p])
         taken == Takes(r.k, r.n, r.n2)
         new == [Idle EXCEPT !.k = r.k, !.n = r.n, !.n2 = r.n2, !.pc = FirstStep(r.k)]
         sole == \A q \in Procs : Target(new) \notin Takes(op[q].k, op[q].n, op[q].n2) IN
     /\ op' = [q \in Procs |->
                 IF q = p THEN [new EXCEPT !.sole = sole]
                 ELSE [op[q] EXCEPT !.sole = @ /\ (op[q] = Idle \/ Target(op[q]) \notin taken)]]
     /\ given' = [n \in DOMAIN given |-> IF n \in taken THEN NoIno ELSE given[n]]
  /\ left' = [left EXCEPT ![p] = Tail(@)]
  /\ UNCHANGED <<setup, dirent, inode, idkey, cache, idgen, touch, removed,
                 holes, crashes>>

-----------------------------------------------------------------------------
(* allocate_new_id and CREATE, MKDIR, SYMLINK, MKNOD                        *)

Pool(p) == IF op[p].k = "mkdir" THEN DirPool ELSE FilePool
Gen(p) == idgen[Px(p)][Pool(p)]
WithId(p, id) == Goto(p, [op[p] EXCEPT !.ino = <<Pool(p), id>>], "inode")

\* an id given back, or the next one of the batch
TakeId(p) ==
  LET g == Gen(p) IN
  \/ \E id \in g.free :
       /\ idgen' = [idgen EXCEPT ![Px(p)][Pool(p)].free = @ \ {id}]
       /\ WithId(p, id)
  \/ /\ g.free = {} /\ g.next <= g.allocated
     /\ idgen' = [idgen EXCEPT ![Px(p)][Pool(p)].next = @ + 1]
     /\ WithId(p, g.next)

MinId == 1
CreateId(p) ==
  /\ op[p].k \in {"create", "mkdir"} /\ op[p].pc = "id"
  /\ \/ TakeId(p)
     \/ /\ Gen(p).free = {} /\ Gen(p).next > Gen(p).allocated
        /\ LET v == idkey[Pool(p)]
               prev == IF v < MinId THEN MinId ELSE v IN
           Goto(p, [op[p] EXCEPT !.prev = prev], "idset")
        /\ UNCHANGED idgen
  /\ UNCHANGED <<dirent, inode, idkey, cache, touch, removed, given, holes>>
  /\ Rest(p)

MutIdFree(v, prev) == v = prev
\* the key has no value yet (0) or still the one that was read
IdFree(v, prev) == v = 0 \/ v = prev
CreateIdSet(p) ==
  /\ op[p].pc = "idset"
  /\ LET q == Pool(p)
         prev == op[p].prev
         new == IF prev + setup.batch > IdMax THEN IdMax ELSE prev + setup.batch IN
     \/ /\ IdFree(idkey[q], prev)
        /\ prev < IdMax
        /\ idkey' = [idkey EXCEPT ![q] = new]
        /\ idgen' = [idgen EXCEPT ![Px(p)][q].next = prev + 2,
                                  ![Px(p)][q].allocated = new]
        /\ WithId(p, prev + 1)
     \/ /\ ~IdFree(idkey[q], prev)
        /\ Goto(p, op[p], "id")
        /\ UNCHANGED <<idkey, idgen>>
  /\ UNCHANGED <<dirent, inode, cache, touch, removed, given, holes>>
  /\ Rest(p)

CreateInode(p) ==
  /\ op[p].k \in {"create", "mkdir"} /\ op[p].pc = "inode"
  /\ LET i == op[p].ino
         ty == IF op[p].k = "mkdir" THEN "dir" ELSE "file" IN
     \/ /\ ~Exists(i)
        /\ PutInode(p, i, [ty |-> ty, nlink |-> 0, ver |-> 1])
        /\ Goto(p, [op[p] EXCEPT !.ty = ty], "dirent")
     \/ /\ Exists(i)
        /\ SawInode(p, i, inode[i])
        /\ Goto(p, op[p], "id")
        /\ UNCHANGED inode
  /\ UNCHANGED <<dirent, idkey, idgen, touch, removed, given, holes>>
  /\ Rest(p)

Free(n) == dirent[n] = NoEntry
\* SET of the name when it was free: it may also hold that entry already
Settable(n, e) == Free(n) \/ dirent[n] = e
CreateEntry(p) ==
  /\ op[p].k \in {"create", "mkdir"} /\ op[p].pc = "dirent"
  /\ LET n == op[p].n IN
     \/ /\ Free(n)
        /\ PutEntry(p, n, EntryOf(op[p].ino, op[p].ty))
        /\ Queue(p, {Names[n]})
        /\ Give(p, op[p].ino)
        /\ Reply(p)
     \/ /\ ~Free(n)
        /\ SawEntry(p, n, dirent[n])
        /\ Goto(p, op[p], "undo")
        /\ UNCHANGED <<dirent, touch, given>>
  /\ UNCHANGED <<inode, idkey, idgen, removed, holes>>
  /\ Rest(p)

\* the name exists: the new inode is deleted and its id kept for the next one.
\* The exclusive create looks for its verifier in the direntry, where it never is
CreateUndo(p) ==
  /\ op[p].pc = "undo" /\ op[p].k \in {"create", "mkdir"}
  /\ PutInode(p, op[p].ino, NoInode)
  /\ idgen' = [idgen EXCEPT ![Px(p)][Pool(p)].free = @ \cup {op[p].ino[2]}]
  /\ Reply(p)
  /\ UNCHANGED <<dirent, idkey, touch, removed, given, holes>>
  /\ Rest(p)

-----------------------------------------------------------------------------
(* LOOKUP, by which a client learns the inode it links or changes           *)

Lookup(p) ==
  /\ op[p].pc = "lookup"
  /\ LET e == dirent[op[p].n] IN
     IF e = NoEntry THEN Reply(p)
     ELSE Goto(p, [op[p] EXCEPT !.ino = e.ino], "read")
  /\ SawEntry(p, op[p].n, dirent[op[p].n])
  /\ UNCHANGED <<dirent, inode, idkey, idgen, touch, removed, given, holes>>
  /\ Rest(p)

-----------------------------------------------------------------------------
(* LINK: read the inode and the directory, add the direntry, count it       *)

\* the source inode and, the first time, the new directory are read uncached
LinkRead(p) ==
  /\ At(p, "link", "read") \/ At(p, "link", "reread")
  /\ LET o == op[p]
         e == inode[o.ino]
         ok == e # NoInode /\ e.ty # "dir" /\ (o.pc = "reread" \/ IsDir(Names[o.n2])) IN
     IF ok THEN Goto(p, [o EXCEPT !.ie = e], IF o.pc = "read" THEN "dirent" ELSE "count")
     ELSE Reply(p)
  /\ SawInode(p, op[p].ino, inode[op[p].ino])
  /\ holes' = IF op[p].pc = "reread" /\ (~Exists(op[p].ino) \/ IsDir(op[p].ino))
              THEN holes \cup {op[p].ino} ELSE holes
  /\ UNCHANGED <<dirent, inode, idkey, idgen, touch, removed, given>>
  /\ Rest(p)

LinkEntry(p) ==
  /\ At(p, "link", "dirent")
  /\ LET n == op[p].n2
         e == EntryOf(op[p].ino, "file") IN
     \/ /\ Settable(n, e)
        /\ PutEntry(p, n, e)
        /\ Goto(p, op[p], "count")
     \/ /\ ~Settable(n, e)
        /\ SawEntry(p, n, dirent[n])
        /\ Reply(p)
        /\ UNCHANGED dirent
  /\ UNCHANGED <<inode, idkey, idgen, touch, removed, given, holes>>
  /\ Rest(p)

Linked(e) == [Changed(e) EXCEPT !.nlink = IF e.nlink = 0 THEN 2 ELSE e.nlink + 1]
MutUnchecked(cur, read) == cur # NoInode
\* an inode is updated only while it holds what was read
Unchanged(cur, read) == cur # NoInode /\ cur = read
\* and deleted then, or when it is gone already
Droppable(cur, read) == cur = NoInode \/ Unchanged(cur, read)
LinkCount(p) ==
  /\ At(p, "link", "count")
  /\ LET i == op[p].ino IN
     \/ /\ Unchanged(inode[i], op[p].ie)
        /\ PutInode(p, i, Linked(op[p].ie))
        /\ Queue(p, {Names[op[p].n2]})
        /\ Give(p, i)
        /\ Reply(p)
     \/ /\ ~Unchanged(inode[i], op[p].ie)
        /\ SawInode(p, i, inode[i])
        /\ Goto(p, op[p], IF Exists(i) THEN "reread" ELSE "undo")
        /\ UNCHANGED <<inode, touch, given>>
  /\ UNCHANGED <<dirent, idkey, idgen, removed, holes>>
  /\ Rest(p)

\* the inode is gone: the direntry is deleted, without a comparison.  If the
\* name was given to another file in between, that file loses it (known window)
LinkUndo(p) ==
  /\ At(p, "link", "undo")
  /\ PutEntry(p, op[p].n2, NoEntry)
  /\ given' = [given EXCEPT ![op[p].n2] = NoIno]
  /\ Reply(p)
  /\ UNCHANGED <<inode, idkey, idgen, touch, removed, holes>>
  /\ Rest(p)

-----------------------------------------------------------------------------
(* SETATTR, and every other update_inode loop                               *)

SetattrRead(p) ==
  /\ At(p, "setattr", "read") \/ At(p, "setattr", "reread")
  /\ IF Exists(op[p].ino) THEN Goto(p, [op[p] EXCEPT !.ie = inode[op[p].ino]], "write")
     ELSE Reply(p)
  /\ SawInode(p, op[p].ino, inode[op[p].ino])
  /\ touch' = IF op[p].pc = "read" THEN [touch EXCEPT ![Px(p)] = @ \ {op[p].ino}] ELSE touch
  /\ UNCHANGED <<dirent, inode, idkey, idgen, removed, given, holes>>
  /\ Rest(p)

SetattrWrite(p) ==
  /\ At(p, "setattr", "write")
  /\ LET i == op[p].ino IN
     \/ /\ Unchanged(inode[i], op[p].ie)
        /\ PutInode(p, i, Changed(op[p].ie))
        /\ Reply(p)
     \/ /\ ~Unchanged(inode[i], op[p].ie)
        /\ SawInode(p, i, inode[i])
        /\ IF Exists(i) THEN Goto(p, op[p], "reread") ELSE Reply(p)
        /\ UNCHANGED inode
  /\ UNCHANGED <<dirent, idkey, idgen, touch, removed, given, holes>>
  /\ Rest(p)

\* touch_inodes: a new mtime for a queued inode, tried again until it is
\* stored or the inode is gone; a missing root key is not made
Touch(x, i) ==
  /\ i \in touch[x]
  /\ touch' = [touch EXCEPT ![x] = @ \ {i}]
  /\ inode' = IF Exists(i) THEN [inode EXCEPT ![i] = Changed(@)] ELSE inode
  /\ cache' = [cache EXCEPT ![x].ino[i] = inode'[i]]
  /\ UNCHANGED <<setup, dirent, idkey, idgen, op, left, removed, given, holes,
                 crashes>>

-----------------------------------------------------------------------------
(* REMOVE and RMDIR                                                         *)

Deleting(p) == op[p].k \in {"remove", "rmdir"}

DelEntryRead(p) ==
  /\ Deleting(p) /\ op[p].pc = "entry"
  /\ \E e \in SeenEntry(p, op[p].n) :
       /\ SawEntry(p, op[p].n, e)
       /\ IF e = NoEntry THEN Reply(p)
          ELSE Goto(p, [op[p] EXCEPT !.ent = e], "inode")
  /\ UNCHANGED <<dirent, inode, idkey, idgen, touch, removed, given, holes>>
  /\ Rest(p)

\* an entry without an inode counts as a regular file
DelInodeRead(p) ==
  /\ Deleting(p) /\ op[p].pc = "inode"
  /\ \E e \in SeenInode(p, op[p].ent.ino) :
       /\ SawInode(p, op[p].ent.ino, e)
       /\ IF (op[p].k = "rmdir") # (e.ty = "dir") THEN Reply(p)
          ELSE Goto(p, [op[p] EXCEPT !.ie = e], "dirent")
  /\ UNCHANGED <<dirent, inode, idkey, idgen, touch, removed, given, holes>>
  /\ Rest(p)

SameEntry(cur, read) == cur = read
\* a DEL that compares with what was read
Deletable(n, read) == dirent[n] = NoEntry \/ SameEntry(dirent[n], read)
\* blind: the name is gone already, and the link is counted down a second time
DelEntry(p) ==
  /\ Deleting(p) /\ op[p].pc = "dirent"
  /\ LET o == op[p] IN
     \/ /\ Deletable(o.n, o.ent)
        /\ PutEntry(p, o.n, NoEntry)
        /\ IF o.ie = NoInode THEN Reply(p)
           ELSE Goto(p, [o EXCEPT !.blind = Free(o.n)], IF o.k = "rmdir" THEN "list" ELSE "drop")
     \/ /\ ~Deletable(o.n, o.ent)
        /\ SawEntry(p, o.n, dirent[o.n])
        /\ Goto(p, [o EXCEPT !.cached = FALSE], "entry")
        /\ UNCHANGED dirent
  /\ UNCHANGED <<inode, idkey, idgen, touch, removed, given, holes>>
  /\ Rest(p)

Children(i) == {n \in DOMAIN Names : Names[n] = i /\ dirent[n] # NoEntry}

\* the directory has entries: the step meant to restore its direntry deletes
\* it again, so the directory has no name any more (known window)
RmdirList(p) ==
  /\ At(p, "rmdir", "list")
  /\ IF Children(op[p].ent.ino) = {} THEN Goto(p, op[p], "drop") /\ UNCHANGED holes
     ELSE Reply(p) /\ holes' = holes \cup {op[p].ent.ino}
  /\ UNCHANGED <<dirent, inode, idkey, cache, idgen, touch, removed, given>>
  /\ Rest(p)

\* operations that have added a name of the inode and will count it or take
\* one back
Pending(i) ==
  {p \in Procs : \/ op[p].k = "link" /\ op[p].ino = i
                    /\ op[p].pc \in {"count", "reread", "undo"}
                 \/ op[p].k = "rename" /\ op[p].ent.ino = i /\ op[p].pc = "del"}
NamesOf(i) == {n \in DOMAIN Names : dirent[n].ino = i}
\* the inode is deleted while a name that was not counted yet stands for it: the
\* names it had before lead nowhere (known window)
Overlooked(i) ==
  IF NamesOf(i) \subseteq UNION {{op[p].n2} \cup Takes(op[p].k, op[p].n, op[p].n2) : p \in Pending(i)}
  THEN {} ELSE {i}

\* the windows met when the inode loses a link or is deleted
Dropped(p, i, e) ==
  (IF op[p].blind THEN {i} ELSE {}) \cup
  (IF e.nlink > 1 \/ Pending(i) = {} THEN {} ELSE Overlooked(i))

Unlinked(e) == [Changed(e) EXCEPT !.nlink = @ - 1]
\* the comparison failed: "maybe someone created a hard link", success anyway
DelLost(p) == Reply(p)
DelInode(p) ==
  /\ Deleting(p) /\ op[p].pc = "drop"
  /\ LET o == op[p]
         i == o.ent.ino
         rest == [touch EXCEPT ![Px(p)] = @ \ {i}]
     IN
     \/ /\ Unchanged(inode[i], o.ie) /\ o.ie.nlink > 1
        /\ PutInode(p, i, Unlinked(o.ie))
        /\ Queue(p, {Names[o.n]})
        /\ Reply(p)
        /\ holes' = holes \cup Dropped(p, i, o.ie)
     \/ /\ Droppable(inode[i], o.ie) /\ o.ie.nlink <= 1
        /\ PutInode(p, i, NoInode)
        /\ holes' = holes \cup Dropped(p, i, o.ie)
        /\ IF o.ie.ty = "file" THEN Goto(p, o, "data") /\ touch' = rest
           ELSE Reply(p) /\ touch' = [rest EXCEPT ![Px(p)] = @ \cup {Names[o.n]}]
     \/ /\ IF o.ie.nlink > 1 THEN ~Unchanged(inode[i], o.ie) ELSE ~Droppable(inode[i], o.ie)
        /\ SawInode(p, i, inode[i])
        /\ touch' = IF o.ie.nlink > 1 THEN touch ELSE rest
        /\ DelLost(p)
        /\ UNCHANGED <<inode, holes>>
  /\ UNCHANGED <<dirent, idkey, idgen, removed, given>>
  /\ Rest(p)

DelData(p) ==
  /\ Deleting(p) /\ op[p].pc = "data"
  /\ removed' = removed \cup {op[p].ent.ino}
  /\ Reply(p)
  /\ UNCHANGED <<dirent, inode, idkey, cache, idgen, touch, given, holes>>
  /\ Rest(p)

-----------------------------------------------------------------------------
(* RENAME                                                                   *)

RenameOld(p) ==
  /\ At(p, "rename", "entry")
  /\ \E e \in SeenEntry(p, op[p].n) :
       /\ SawEntry(p, op[p].n, e)
       /\ IF e = NoEntry THEN Reply(p)
          ELSE Goto(p, [op[p] EXCEPT !.ent = e], "new")
  /\ UNCHANGED <<dirent, inode, idkey, idgen, touch, removed, given, holes>>
  /\ Rest(p)

\* a directory over a directory: any key after the listed prefix, such as an
\* inode key, counts as an entry of it
RenameNew(p) ==
  /\ At(p, "rename", "new")
  /\ \E e \in SeenEntry(p, op[p].n2) :
       /\ SawEntry(p, op[p].n2, e)
       /\ LET o == [op[p] EXCEPT !.ent2 = e, !.exists = (e # NoEntry)] IN
          IF o.exists
          THEN IF o.ent.ty = "dir" \/ e.ty = "dir" THEN Reply(p) ELSE Goto(p, o, "set")
          ELSE Goto(p, o, "dir")
  /\ UNCHANGED <<dirent, inode, idkey, idgen, touch, removed, given, holes>>
  /\ Rest(p)

RenameDir(p) ==
  /\ At(p, "rename", "dir")
  /\ IF IsDir(Names[op[p].n2]) THEN Goto(p, op[p], "set") ELSE Reply(p)
  /\ SawInode(p, Names[op[p].n2], inode[Names[op[p].n2]])
  /\ UNCHANGED <<dirent, inode, idkey, idgen, touch, removed, given, holes>>
  /\ Rest(p)

\* blind: the destination leads to the source's file already, and what was read
\* of it was replaced by somebody else
RenameSet(p) ==
  /\ At(p, "rename", "set")
  /\ LET o == op[p]
         settable == SameEntry(dirent[o.n2], o.ent2) \/ dirent[o.n2] = o.ent IN
     \/ /\ settable
        /\ PutEntry(p, o.n2, o.ent)
        /\ Goto(p, [o EXCEPT !.blind = dirent[o.n2] # o.ent2], "del")
     \/ /\ ~settable
        /\ SawEntry(p, o.n2, dirent[o.n2])
        /\ Goto(p, [o EXCEPT !.cached = FALSE], "entry")
        /\ UNCHANGED dirent
  /\ UNCHANGED <<inode, idkey, idgen, touch, removed, given, holes>>
  /\ Rest(p)

Finished(p, o) ==
  /\ Queue(p, {Names[o.n], Names[o.n2]})
  /\ Give(p, o.ent.ino)
  /\ Reply(p)
\* a directory that changed its parent is updated last
AfterDrop(p, o) ==
  IF o.ent.ty = "dir" /\ Names[o.n] # Names[o.n2]
  THEN Goto(p, [o EXCEPT !.cached = TRUE], "parent") /\ UNCHANGED <<touch, given>>
  ELSE Finished(p, o)

\* the source was taken away or changed after the destination was overwritten:
\* the operation goes on or starts again, and the destination keeps the name of a
\* file whose link count was never raised (known window)
RenameDel(p) ==
  /\ At(p, "rename", "del")
  /\ LET o == op[p]
         done == [o EXCEPT !.cached = TRUE] IN
     \/ /\ Deletable(o.n, o.ent)
        /\ PutEntry(p, o.n, NoEntry)
        /\ holes' = holes \cup (IF Free(o.n) THEN {o.ent.ino} ELSE {})
        /\ IF o.exists /\ o.ent2.ty # "dir"
           THEN Goto(p, done, "replaced") /\ UNCHANGED <<touch, given>>
           ELSE AfterDrop(p, done)
     \/ /\ ~Deletable(o.n, o.ent)
        /\ SawEntry(p, o.n, dirent[o.n])
        /\ Goto(p, [o EXCEPT !.cached = FALSE], "entry")
        /\ holes' = holes \cup {o.ent.ino, o.ent2.ino}
        /\ UNCHANGED <<dirent, touch, given>>
  /\ UNCHANGED <<inode, idkey, idgen, removed>>
  /\ Rest(p)

RenameReplaced(p) ==
  /\ At(p, "rename", "replaced")
  /\ \E e \in SeenInode(p, op[p].ent2.ino) :
       /\ SawInode(p, op[p].ent2.ino, e)
       /\ IF e = NoInode THEN Reply(p)
          ELSE Goto(p, [op[p] EXCEPT !.ie = e], "drop")
  /\ UNCHANGED <<dirent, inode, idkey, idgen, touch, removed, given, holes>>
  /\ Rest(p)

\* rm_dest_data is set before the comparison and never cleared: after a failed
\* deletion the data of a file that was linked meanwhile is removed (known window)
RenameDrop(p) ==
  /\ At(p, "rename", "drop")
  /\ LET i == op[p].ent2.ino
         linked == op[p].ie.nlink > 1
         o == [op[p] EXCEPT !.rm = @ \/ (~linked /\ op[p].ie.ty = "file")]
         stored == IF linked THEN Unchanged(inode[i], o.ie) ELSE Droppable(inode[i], o.ie) IN
     \/ /\ stored
        /\ PutInode(p, i, IF linked THEN Unlinked(o.ie) ELSE NoInode)
        /\ holes' = holes \cup Dropped(p, i, o.ie) \cup (IF linked /\ o.rm THEN {i} ELSE {})
        /\ IF o.rm THEN Goto(p, o, "data") /\ UNCHANGED <<touch, given>>
           ELSE AfterDrop(p, o)
     \/ /\ ~stored
        /\ SawInode(p, i, inode[i])
        /\ Goto(p, [o EXCEPT !.cached = FALSE], "replaced")
        /\ UNCHANGED <<inode, touch, given, holes>>
  /\ UNCHANGED <<dirent, idkey, idgen, removed>>
  /\ Rest(p)

RenameData(p) ==
  /\ At(p, "rename", "data")
  /\ removed' = removed \cup {op[p].ent2.ino}
  /\ AfterDrop(p, op[p])
  /\ UNCHANGED <<dirent, inode, idkey, cache, idgen, holes>>
  /\ Rest(p)

RenameParent(p) ==
  /\ At(p, "rename", "parent")
  /\ LET i == op[p].ent.ino IN
     \E e \in SeenInode(p, i) :
       \/ /\ e = NoInode
          /\ SawInode(p, i, e)
          /\ Reply(p)
          /\ UNCHANGED <<inode, touch, given>>
       \/ /\ Unchanged(inode[i], e)
          /\ PutInode(p, i, Changed(e))
          /\ Finished(p, op[p])
       \/ /\ e # NoInode /\ ~Unchanged(inode[i], e)
          /\ SawInode(p, i, inode[i])
          /\ op' = [op EXCEPT ![p].cached = FALSE]
          /\ UNCHANGED <<inode, touch, given>>
  /\ UNCHANGED <<dirent, idkey, idgen, removed, holes>>
  /\ Rest(p)

-----------------------------------------------------------------------------
(* A proxy dies: its operations, cache and unused ids are lost.  An          *)
(* operation between its two names leaves an uncounted link.                *)

Halfway(p) ==
  CASE op[p].k = "link" /\ op[p].pc \in {"count", "reread", "undo"} -> {op[p].ino}
    [] op[p].k = "rename" /\ op[p].pc = "del" -> {op[p].ent.ino}
    [] OTHER -> {}

Crash(x) ==
  /\ crashes < setup.crashes
  /\ crashes' = crashes + 1
  /\ op' = [p \in Procs |-> IF Px(p) = x THEN Idle ELSE op[p]]
  /\ cache' = [cache EXCEPT ![x] = [dir |-> dirent, ino |-> inode]]
  /\ idgen' = [idgen EXCEPT ![x] = [q \in {DirPool, FilePool} |-> NewGen]]
  /\ touch' = [touch EXCEPT ![x] = {}]
  /\ holes' = holes \cup UNION {Halfway(p) : p \in {q \in Procs : Px(q) = x}}
  /\ UNCHANGED <<setup, dirent, inode, idkey, left, removed, given>>

AllDone == \A p \in Procs : op[p] = Idle /\ left[p] = <<>>
Finish == AllDone /\ (\A x \in Proxies : touch[x] = {}) /\ UNCHANGED vars

Create(p) == CreateId(p) \/ CreateIdSet(p) \/ CreateInode(p) \/ CreateEntry(p) \/ CreateUndo(p)
Link(p) == LinkRead(p) \/ LinkEntry(p) \/ LinkCount(p) \/ LinkUndo(p)
Setattr(p) == SetattrRead(p) \/ SetattrWrite(p)
Delete(p) ==
  \/ DelEntryRead(p) \/ DelInodeRead(p) \/ DelEntry(p)
  \/ RmdirList(p) \/ DelInode(p) \/ DelData(p)
Rename(p) ==
  \/ RenameOld(p) \/ RenameNew(p) \/ RenameDir(p) \/ RenameSet(p) \/ RenameDel(p)
  \/ RenameReplaced(p) \/ RenameDrop(p) \/ RenameData(p) \/ RenameParent(p)

Next ==
  \/ \E p \in Procs :
       Start(p) \/ Create(p) \/ Lookup(p) \/ Link(p) \/ Setattr(p) \/ Delete(p) \/ Rename(p)
  \/ \E x \in Proxies : Crash(x) \/ \E i \in touch[x] : Touch(x, i)
  \/ Finish

\* every request in progress and every timer goes on
Spec == Init /\ [][Next]_vars /\ WF_vars(Next)

-----------------------------------------------------------------------------
(* Properties                                                               *)

\* the variables have their types
TypeOK ==
  /\ dirent \in [DOMAIN Names -> [ino : Inos, ty : {"none", "file", "dir"}]]
  /\ inode \in [Inos -> [ty : {"none", "file", "dir"}, nlink : Nat, ver : Nat]]
  /\ \A x \in Proxies : touch[x] \subseteq Inos
  /\ removed \subseteq Inos /\ holes \subseteq Inos

\* an inode lives as long as its names, whatever links, renames over it and
\* removes of its names run at the same time: every name leads to an inode, the
\* link count of a file is never below the number of its names, and its data is
\* removed only when it has no inode any more. A name that an unfinished LINK
\* or RENAME shares is excepted, and so are the inodes in holes, for which it does
\* not hold: a REMOVE or RENAME found its name taken away or replaced by another
\* one and counted the link down again (DelEntry, RenameSet, Dropped); the source
\* of a RENAME changed under it (RenameDel); rm_dest_data was still set
\* (RenameDrop); an inode was deleted before a new name of it was counted
\* (Overlooked, LinkRead); RMDIR of a directory with entries (RmdirList); a proxy
\* died between the two steps of a LINK or RENAME (Halfway)
InodesKept ==
  \A i \in Inos \ (holes \cup {NoIno}) :
    /\ NamesOf(i) # {} => Exists(i) \/ Pending(i) # {}
    /\ Exists(i) /\ inode[i].ty = "file" =>
         Cardinality(NamesOf(i)) <=
           (IF inode[i].nlink = 0 THEN 1 ELSE inode[i].nlink) + Cardinality(Pending(i))
    /\ i \in removed => ~Exists(i)

\* a name that an acknowledged CREATE, LINK or RENAME gave stays until somebody
\* asks to take it away, or a LINK that failed takes it back (LinkUndo), whatever
\* the retries of others do
GivenKept == \A n \in DOMAIN Names : given[n] # NoIno => dirent[n].ino = given[n]

\* both of these: what the directories promise (kv_create, kv_link, kv_remove,
\* kv_rename)
NamesKept == InodesKept /\ GivenKept

\* renames of several clients that pass their names on in a circle
Circle ==
  LET done == UNION {{setup.script[p][j] : j \in DOMAIN setup.script[p]} : p \in Procs}
      moves == {r \in done : r.k = "rename"}
  IN \E S \in SUBSET moves : S # {} /\ \A r \in S : \E t \in S : r.n2 = t.n
\* every request is answered: the compare-and-swap retries of concurrent
\* operations, with whatever their caches hold, do not chase each other forever.
\* Only renames in a circle do, each giving back the name another one took
RequestsEnd == Circle \/ <>AllDone
=============================================================================
