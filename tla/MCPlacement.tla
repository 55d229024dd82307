---------------------------- MODULE MCPlacement ----------------------------
(***************************************************************************)
(* Placement with three OSDs, up to two PGs and two monitors.  Each setup  *)
(* names the OSDs that may crash and start, the command and the faults.    *)
(***************************************************************************)
EXTENDS Placement

Quiet == [size |-> 2, sets |-> <<{1, 2}>>, down |-> {3}, objects |-> 1, count |-> 0,
          rm |-> 0, force |-> FALSE, crashes |-> {}, stalls |-> {}, starts |-> {}, outs |-> FALSE,
          masters |-> FALSE, loses |-> FALSE, faults |-> 0, boots |-> 0]

(* The first PG of a pool; two PGs while an answer of etcd is lost, and one *)
(* while another monitor becomes the master.                                *)
Create == [Quiet EXCEPT !.sets = << >>, !.count = 1]
Lost == [Create EXCEPT !.count = 2, !.loses = TRUE, !.faults = 1]
Masters == [Create EXCEPT !.masters = TRUE, !.faults = 1]

(* The number of PGs grows or shrinks. *)
Split == [Quiet EXCEPT !.count = 2, !.objects = 2]
Merge == [Quiet EXCEPT !.sets = <<{1, 2}, {1, 2}>>, !.count = 1, !.objects = 2]

(* An OSD dies, and another one takes over its data. *)
Move == [Quiet EXCEPT !.down = {}, !.crashes = {1}, !.outs = TRUE, !.faults = 1]

(* An OSD dies and returns, as the primary or as a replica or alone. *)
Return == [Quiet EXCEPT !.crashes = {1}, !.starts = {1}, !.faults = 1, !.boots = 1]
Replica == [Return EXCEPT !.crashes = {2}, !.starts = {2}]
Alone == [Return EXCEPT !.sets = <<{1}>>, !.down = {2, 3}]

(* The number shrinks while another monitor becomes the master, or while an *)
(* answer of etcd is lost.                                                  *)
MergeMasters == [Merge EXCEPT !.masters = TRUE, !.faults = 1]
MergeLost == [Merge EXCEPT !.loses = TRUE, !.faults = 1]

(* The primary goes on after its lease has run out, and starts again. *)
Stalled == [Quiet EXCEPT !.stalls = {1}, !.starts = {1}, !.boots = 1, !.faults = 1]

(* A new OSD, one that may take the only copy, and the removal of one. *)
Join == [Quiet EXCEPT !.sets = <<{1}>>, !.down = {2, 3}, !.starts = {2}, !.boots = 1]
Single == [Join EXCEPT !.size = 1]
Remove == [Quiet EXCEPT !.rm = 2, !.force = TRUE]

XSetups == {Create, Lost, Masters, Split, Merge, MergeMasters, MergeLost, Move, Return, Replica,
            Alone, Join, Single, Remove, Stalled}
=============================================================================
