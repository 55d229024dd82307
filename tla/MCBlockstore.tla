---------------------------- MODULE MCBlockstore ----------------------------
(* Blockstore for TLC: stores and workloads, symmetry.                      *)
EXTENDS Blockstore, TLC

CONSTANTS o1, o2, b1, b2

BlockSymmetry == Permutations(Blocks)

(* One object of two regions on a disk that needs fsync.                    *)
Base == [oids |-> {o1}, instant |-> {}, deletable |-> {}, regions |-> {1, 2}, small |-> {1},
         imm |-> "none", req |-> {0}, serial |-> TRUE, objects |-> 1, versions |-> 4,
         writes |-> 3, entries |-> 4, syncs |-> 1, stabs |-> 1, crashes |-> 1]

(* Of an erasure-coded pool, which needs STABLEs and ROLLBACKs; of a        *)
(* replicated one, stable once synced.                                      *)
ErasureCoded == Base
Replicated == [Base EXCEPT !.instant = {o1}, !.writes = 4]

(* Two objects on a capacitor-backed disk that share its blocks, with       *)
(* deletes and writes of low versions over them.                            *)
TwoObjects == [Base EXCEPT !.oids = {o1, o2}, !.instant = {o1}, !.deletable = {o1}, !.regions = {1},
                           !.imm = "all", !.req = {0, 1}, !.objects = 2, !.versions = 3, !.entries = 3]
TwoReplicated == [TwoObjects EXCEPT !.instant = {o1, o2}, !.entries = 4]

(* A client that does not serialize its writes: they wait in the queue, and *)
(* are cancelled when space runs out.                                       *)
Unserialized == [Base EXCEPT !.oids = {o1, o2}, !.instant = {o1, o2}, !.regions = {1}, !.imm = "small",
                             !.serial = FALSE, !.objects = 2, !.versions = 3, !.writes = 4,
                             !.syncs = 2, !.stabs = 0, !.crashes = 0]

MCSetups == {ErasureCoded, Replicated, TwoObjects, TwoReplicated, Unserialized}
=============================================================================
