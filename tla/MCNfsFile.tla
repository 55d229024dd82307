----------------------------- MODULE MCNfsFile -----------------------------
(* Instances of NfsFile: proxies x and y, one or two files, three clients.  *)
EXTENDS NfsFile, TLC

W(f, off, len, val) == <<[k |-> "write", f |-> f, off |-> off, len |-> len, val |-> val]>>
R(f, off, len) == <<[k |-> "read", f |-> f, off |-> off, len |-> len, val |-> 0]>>
Pack == <<[k |-> "defrag"]>>

Setup(size, place, vols, px, ps, qs, rs, n) ==
  [size |-> size, place |-> place, volumes |-> vols, proxy |-> px,
   script |-> [p |-> ps, q |-> qs, r |-> rs], movers |-> {"r"}, buffer |-> 2,
   faults |-> [crashes |-> n, errors |-> 0]]

Apart == [p |-> "x", q |-> "y", r |-> "x"]
Beside == [p |-> "x", q |-> "y", r |-> "y"]
Together == [p |-> "x", q |-> "x", r |-> "y"]

\* a new file grows: moved to a bigger place, then out of the volume
Grows ==
  Setup(<<0>>, <<NoPlace>>, {}, Apart, W(1, 0, 2, 2), W(1, 2, 1, 2) \o W(1, 3, 1, 3),
        R(1, 0, 2), 1)
\* two clients of one proxy extend a file that has its own inode
Extends ==
  Setup(<<1>>, <<NoPlace>>, {}, Together, W(1, 4, 1, 2) \o W(1, 0, 1, 3), W(1, 3, 1, 2),
        W(1, 1, 2, 2), 0)
\* read-modify-writes of both ends against a neighbour
Ends ==
  Setup(<<5>>, <<NoPlace>>, {}, Apart, W(1, 2, 2, 2), W(1, 4, 1, 2) \o W(1, 0, 2, 2), R(1, 2, 3), 0)
\* a volume with two files is defragmented while they are written, both files
\* being moved at once, or one buffer read after the other
Packed ==
  Setup(<<2, 2>>, <<<<1, 1>>, <<1, 2>>>>, {1}, Beside, W(1, 1, 1, 2), W(2, 2, 1, 2), Pack, 0)
Packed2 ==
  [Setup(<<2, 2>>, <<<<1, 1>>, <<1, 2>>>>, {1}, Beside @@ [s |-> "y"], W(1, 1, 1, 2), <<>>, Pack, 0)
     EXCEPT !.script = @ @@ [s |-> <<>>], !.movers = {"r", "s"}, !.buffer = 1]
Reread ==
  Setup(<<2>>, <<<<1, 1>>>>, {1}, Beside, W(1, 1, 1, 2) \o R(1, 0, 2), R(1, 0, 2), Pack, 1)
Leaves ==
  Setup(<<2>>, <<<<1, 1>>>>, {1}, Beside, W(1, 1, 1, 2), W(1, 3, 1, 2), Pack, 0)

\* the first unit of a packed file is overwritten
Begins ==
  Setup(<<2>>, <<<<1, 1>>>>, {1}, Apart, W(1, 0, 1, 2) \o R(1, 0, 1), W(1, 0, 3, 2), Pack, 0)

\* the write is behind the end of the file and needs a bigger place
Skips ==
  Setup(<<1>>, <<<<1, 1>>>>, {1}, Apart, W(1, 2, 1, 2), R(1, 0, 1), Pack, 0)
\* one data write fails: in place, in a move, in an unshare or in an own inode
Errs(s) == [s EXCEPT !.faults.errors = 1]
Fails ==
  {Errs(Setup(<<2>>, <<<<1, 1>>>>, {1}, Apart, W(1, 1, 1, 2), W(1, 0, 1, 2) \o R(1, 0, 2), <<>>, 0)),
   Errs(Setup(<<2>>, <<<<1, 1>>>>, {1}, Apart, W(1, 2, 1, 2), R(1, 0, 2), <<>>, 1)),
   Errs(Setup(<<2>>, <<<<1, 1>>>>, {1}, Apart, W(1, 3, 1, 2), W(1, 1, 1, 2), <<>>, 0))}

MCSetups == Fails \cup {Packed2, Skips, Grows, Extends, Ends, Packed, Reread, Leaves, Begins}
=============================================================================
