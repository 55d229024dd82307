----------------------------- MODULE MCNfsDir -----------------------------
(* Instances of NfsDir: two proxies, x and y, and three clients' scripts.   *)
EXTENDS NfsDir, TLC

D == <<DirPool, 2>>
F(i) == <<FilePool, i>>
Holders == [a |-> Root, b |-> Root, c |-> Root, d |-> Root, e |-> D]
Do(k, n) == <<[k |-> k, n |-> n, n2 |-> n]>>
To(k, n, m) == <<[k |-> k, n |-> n, n2 |-> m]>>

\* a and b are files, d is a directory
Tree ==
  [a |-> EntryOf(F(2), "file"), b |-> EntryOf(F(3), "file"), c |-> NoEntry,
   d |-> EntryOf(D, "dir"), e |-> NoEntry]
File == [ty |-> "file", nlink |-> 0, ver |-> 1]
Stored == (F(2) :> File) @@ (F(3) :> File) @@ (D :> [File EXCEPT !.ty = "dir"])

Setup(px, qx, rx, ps, qs, rs, n) ==
  [names |-> Holders, proxy |-> [p |-> px, q |-> qx, r |-> rx],
   script |-> [p |-> ps, q |-> qs, r |-> rs], entries |-> Tree, inodes |-> Stored,
   ids |-> (DirPool :> 2) @@ (FilePool :> 3), batch |-> 2, crashes |-> n]

\* a new file system: no keys at all
Fresh(s) ==
  [s EXCEPT !.entries = [n \in DOMAIN Holders |-> NoEntry], !.inodes = <<>>,
            !.ids = (DirPool :> 0) @@ (FilePool :> 0)]

Creates ==
  Fresh(Setup("x", "x", "y", Do("create", "a"), Do("create", "a") \o Do("create", "b"),
              Do("create", "b"), 1))
Links ==
  Setup("x", "x", "y", To("link", "a", "c"), Do("remove", "a") \o Do("create", "c"),
        Do("setattr", "a") \o Do("remove", "c"), 1)
Replaces ==
  Setup("x", "y", "y", To("rename", "a", "b"), To("link", "b", "c"), Do("remove", "b"), 1)
Renames ==
  Setup("x", "y", "x", To("rename", "a", "c"), To("rename", "c", "b"),
        To("rename", "b", "a"), 0)
\* b is a second name of file 2
Twice(s) ==
  [s EXCEPT !.entries.b = EntryOf(F(2), "file"), !.inodes[F(2)] = [File EXCEPT !.nlink = 2]]
Removes ==
  Twice(Setup("x", "y", "y", Do("remove", "a"), Do("remove", "a"), To("link", "b", "a"), 0))
Chain ==
  Setup("x", "y", "x", To("rename", "a", "c"), To("rename", "c", "b"), To("rename", "a", "b"), 0)
Doubles ==
  Setup("x", "y", "x", To("rename", "a", "b"), To("rename", "a", "b"), To("link", "b", "c"), 0)
Directories ==
  Setup("x", "y", "y", Do("rmdir", "d") \o Do("mkdir", "d"), Do("create", "e"),
        To("rename", "a", "e"), 0)
Moved ==
  Setup("x", "y", "x", Do("mkdir", "c") \o To("rename", "c", "e"), Do("setattr", "c"),
        Do("rmdir", "d") \o Do("rmdir", "e"), 0)

MCSetups == {Creates, Links, Replaces, Renames, Removes, Doubles, Chain, Directories, Moved}
=============================================================================
