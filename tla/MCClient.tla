------------------------------ MODULE MCClient ------------------------------
EXTENDS Client

Base == [obj |-> <<1, 1, 2>>, inode |-> <<1, 1, 1>>, imm |-> {}, wb |-> FALSE,
         home |-> <<1, 2>>, ranges |-> {{1}, {1, 2}}, writes |-> 2, syncs |-> 1, reads |-> 0,
         drops |-> 1, faults |-> {"lose", "crash", "net"}, eio |-> 0, maxbuf |-> 9, iodepth |-> 9, maxdirty |-> 9,
         retryEio |-> TRUE, reenter |-> FALSE]
A == [Base EXCEPT !.ranges = {{1, 2}, {2, 3}}, !.faults = {"net", "reslice"}]
B == [Base EXCEPT !.ranges = {{1}}, !.writes = 1, !.drops = 2, !.faults = {"lose", "net"}]
C == [Base EXCEPT !.ranges = {{1}, {1, 2}}, !.writes = 2, !.faults = {"crash"}]
D == [Base EXCEPT !.ranges = {{1}, {2}, {3}}, !.writes = 3, !.wb = TRUE, !.maxbuf = 1, !.iodepth = 1, !.faults = {"net"}]
E == [Base EXCEPT !.ranges = {{1}}, !.wb = TRUE, !.imm = {1}, !.syncs = 0, !.maxbuf = 0, !.iodepth = 2, !.faults = {"lose"}]
J == [Base EXCEPT !.ranges = {{1}, {2}}, !.wb = TRUE, !.imm = {1}, !.syncs = 0, !.reads = 1, !.maxbuf = 0, !.iodepth = 1, !.faults = {"net"}]
F == [Base EXCEPT !.ranges = {{1}, {3}}, !.writes = 2, !.maxdirty = 1, !.syncs = 0]
G == [Base EXCEPT !.ranges = {{1}, {2, 3}}, !.writes = 1, !.eio = 1, !.faults = {"net"}]
H == [Base EXCEPT !.ranges = {{1}, {2}}, !.writes = 1, !.reads = 1, !.syncs = 0, !.faults = {"crash"}]
I == [Base EXCEPT !.imm = {1}, !.writes = 1, !.reads = 1, !.syncs = 0, !.eio = 1, !.drops = 0, !.retryEio = FALSE]
\* One of two pools commits immediately.
K == [Base EXCEPT !.inode = <<1, 1, 2>>, !.imm = {2}, !.ranges = {{1}, {3}}, !.faults = {"net"}]
\* A write ends with an error, before or after a SYNC, and a PG moves.
L == [Base EXCEPT !.ranges = {{1}}, !.eio = 1, !.retryEio = FALSE, !.faults = {"lose"}]
\* A writeback pushes a SYNC before its flush.
M == [Base EXCEPT !.ranges = {{1}, {3}}, !.writes = 3, !.wb = TRUE, !.maxbuf = 0, !.iodepth = 2, !.maxdirty = 1, !.syncs = 1,
                  !.drops = 0]
OneUnit == [Base EXCEPT !.ranges = {{1}}, !.faults = {"crash"}]
MCOneUnit == {OneUnit}
MCTwoPools == {K}
MCSetups == {A, B, C, D, E, F, G, H, I, J, K, L, M}
=============================================================================
