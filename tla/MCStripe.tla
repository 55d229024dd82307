------------------------------ MODULE MCStripe ------------------------------
(***************************************************************************)
(* Instances of Stripe: chunks of three units in erasure coding 2+2, in    *)
(* XOR 2+1 and in two or three copies.                                     *)
(***************************************************************************)
EXTENDS Stripe

None == [write |-> 0, read |-> 0, rot |-> 0, delete |-> 0, fix |-> 0]
All == {<<o, l>> \in (0..5) \X (0..6) : o + l <= 6 /\ (l = 0 => o = 0)}
Base == [scheme |-> "ec", k |-> 2, n |-> 4, cur |-> <<1, 2, 3, 4>>, primary |-> 1, val |-> 6,
         places |-> {<<1, 1>>, <<2, 2>>, <<3, 3>>, <<4, 4>>}, csum |-> TRUE, best |-> TRUE,
         ranges |-> All, units |-> {1}, rots |-> {}, scrub |-> FALSE, recover |-> FALSE,
         left |-> [None EXCEPT !.write = 1]]

(* Every way to have the chunks in place, elsewhere or lost. *)
Spread(n, cur) ==
  {P \in SUBSET ({<<cur[i], i>> : i \in {j \in 1..n : cur[j] # 0}} \union {<<4 + i, i>> : i \in 1..n}) :
    /\ \A a, b \in P : a[2] = b[2] => a = b
    /\ Cardinality(P) >= 2}

(* One write of every range, or one read, wherever the chunks are. *)
Ec == {[Base EXCEPT !.places = P] : P \in Spread(4, <<1, 2, 3, 4>>)}
EcDegraded ==
  UNION {{[Base EXCEPT !.cur = c, !.places = P] : P \in Spread(4, c)} : c \in
          {<<1, 2, 3, 0>>, <<1, 2, 0, 4>>, <<0, 2, 3, 4>>, <<1, 2, 0, 0>>, <<0, 2, 3, 0>>, <<0, 0, 3, 4>>}}
Xors ==
  UNION {{[Base EXCEPT !.scheme = "xor", !.n = 3, !.cur = c, !.places = P] : P \in Spread(3, c)} : c \in
          {<<1, 2, 3>>, <<1, 2, 0>>, <<0, 2, 3>>}}
Writes == Ec \union EcDegraded \union Xors
Reads == {[s EXCEPT !.left = [None EXCEPT !.read = 1]] : s \in Writes}

(* Chunks rot while clients, scrub and recovery are at work: with          *)
(* checksums, and without them.                                            *)
Rotting == [Base EXCEPT !.ranges = {<<1, 3>>}, !.rots = {<<1, 1>>, <<3, 3>>}, !.scrub = TRUE, !.recover = TRUE,
                        !.left = [None EXCEPT !.write = 1, !.read = 1, !.rot = 2]]
XorRotting == [Rotting EXCEPT !.scheme = "xor", !.n = 3, !.cur = <<1, 2, 3>>,
                              !.places = {<<1, 1>>, <<2, 2>>, <<3, 3>>}, !.rots = {<<1, 1>>, <<2, 2>>}]
Copies(n) == [Rotting EXCEPT !.scheme = "replicated", !.k = 1, !.n = n, !.cur = [i \in 1..n |-> i],
                             !.places = {<<i, 1>> : i \in 1..n}, !.ranges = {<<0, 3>>, <<1, 1>>},
                             !.rots = {<<1, 1>>, <<2, 1>>}, !.left.rot = 1]
Checksums == {Rotting, XorRotting, Copies(2), Copies(3)}
Silent == {[s EXCEPT !.csum = FALSE, !.left = [None EXCEPT !.rot = 1, !.fix = 1, !.read = 1]] : s \in Checksums}

(* The same with a delete, with chunks to be moved, and without an OSD. *)
Deletes == {[s EXCEPT !.left = [None EXCEPT !.rot = 1, !.delete = 1, !.read = 1]] : s \in Checksums}
Moves == {[Rotting EXCEPT !.places = {<<1, 1>>, <<5, 2>>, <<3, 3>>, <<4, 4>>}, !.rots = {<<1, 1>>, <<5, 2>>},
                          !.left.rot = 1],
          [Copies(2) EXCEPT !.places = {<<1, 1>>, <<5, 1>>}, !.rots = {<<1, 1>>, <<5, 1>>}]}
Degraded == {[Rotting EXCEPT !.cur = <<1, 2, 3, 0>>, !.places = {<<1, 1>>, <<2, 2>>, <<3, 3>>}, !.left.rot = 1],
             [Copies(2) EXCEPT !.cur = <<1, 0>>, !.places = {<<1, 1>>}, !.rots = {<<1, 1>>}]}

MCSetups == Writes \union Reads \union Checksums \union Silent \union Deletes \union Moves \union Degraded
=============================================================================
