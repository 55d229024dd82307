------------------------------- MODULE MCKvDb -------------------------------
\* Small trees and groups of operations of the key-value database for TLC
EXTENDS KvDb, TLC

Leaf(ge, lt, ks) == Block("leaf", ge, lt, [k \in ks |-> 9])
Op(c, kind, key) == [c |-> c, kind |-> kind, key |-> key, cas |-> FALSE]
Cas(c, key) == [Op(c, "set", key) EXCEPT !.cas = TRUE]
S(tree, per, ops, crashes) ==
  [tree |-> tree, per |-> per, ops |-> ops, maxalloc |-> 1, imm |-> TRUE, crashes |-> crashes, losses |-> 0, errors |-> 0,
   fifo |-> TRUE]

Empty == <<>>
FullRoot == [off \in {0} |-> Leaf(0, Inf, {1, 3, 5})]
\* The root refers to a full leaf
Root(kids) == Block("int", 0, Inf, kids)
Two(n) == (0 :> Root(0 :> n @@ 5 :> 2 * n)) @@ (n :> Leaf(0, 5, {1, 2, 4})) @@ (2 * n :> Leaf(5, Inf, {5}))
\* Both leaves lie in one object
Near == (0 :> Root(0 :> 2 @@ 5 :> 3)) @@ (2 :> Leaf(0, 5, {1, 2, 4})) @@ (3 :> Leaf(5, Inf, {5}))
\* The root is full, too
Full == (0 :> Root(0 :> 1 @@ 5 :> 2 @@ 7 :> 3)) @@ (1 :> Leaf(0, 5, {1, 2, 4}))
          @@ (2 :> Leaf(5, 7, {5})) @@ (3 :> Leaf(7, Inf, {7}))

A == S(Empty, 1, <<Op(1, "set", 1), Op(2, "set", 2), Op(2, "get", 1)>>, 0)
B == S(FullRoot, 1, <<Op(1, "set", 2), Op(2, "set", 4)>>, 1)
C == S(FullRoot, 3, <<Op(1, "set", 4), Op(1, "set", 6), Op(2, "set", 3)>>, 0)
D == S(Two(1), 1, <<Op(1, "set", 3), Op(2, "list", 1)>>, 0)
E == S(Two(2), 2, <<Op(1, "set", 3), Op(2, "set", 2)>>, 1)
F == S(Full, 1, <<Op(1, "set", 3), Op(2, "set", 6)>>, 1)
G == [S(Two(1), 1, <<Op(1, "set", 5), Op(2, "del", 5)>>, 0) EXCEPT !.losses = 1, !.imm = FALSE]
H == S(Two(1), 1, <<Op(1, "get", 4), Op(2, "set", 4), Op(1, "get", 4)>>, 0)
I == S(Two(2), 2, <<Cas(1, 3), Cas(2, 3), Op(2, "getcached", 3)>>, 0)
J == S(Two(1), 1, <<Op(1, "set", 1), Op(1, "set", 2), Op(2, "set", 4)>>, 0)
K == S(Near, 2, <<Op(1, "set", 3), Op(1, "get", 5), Op(2, "set", 1)>>, 0)
Fail(s) == [s EXCEPT !.errors = 1]
L == Fail(S(FullRoot, 1, <<Op(1, "set", 2), Op(1, "set", 4)>>, 0))
M == Fail(S(Two(2), 2, <<Op(1, "set", 3), Op(1, "get", 4), Op(1, "set", 2)>>, 0))
N == Fail(G)
O == S(Two(1), 1, <<Op(1, "set", 3), Op(1, "del", 4)>>, 0)
MCSetups == {A, B, C, D, E, F, G, H, I, J, K, L, M, N, O}

\* Setups in which Implements does not hold.  A reader and a writer of one key
MCReader == {S(Two(2), 2, <<Op(1, "set", 3), Op(2, "set", 3), Op(2, "get", 3)>>, 0)}
\* A leaf is split by a write that is repeated; then a DEL never returns, either
MCLost == {[S(Two(1), 1, <<Op(1, "set", 3)>>, 0) EXCEPT !.losses = 1]}
MCLostDel == {[S(Two(1), 1, <<Op(1, "set", 3), Op(2, "del", 4)>>, 0) EXCEPT !.losses = 1]}
\* The answers of two reads change places
MCReorder == {[K EXCEPT !.fifo = FALSE]}
\* The write of the first root, or the SYNC after a split, fails
MCRoot == {Fail(S(Empty, 1, <<Op(1, "set", 1), Op(1, "get", 1)>>, 0))}
MCSync == {[L EXCEPT !.imm = FALSE]}
=============================================================================
