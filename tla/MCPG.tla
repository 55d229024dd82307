------------------------------ MODULE MCPG ------------------------------
(* Small pools for TLC.                                                     *)
EXTENDS PG

Three == [ec |-> FALSE, k |-> 1, minsize |-> 2, imm |-> "all", targets |-> <<{1, 2, 3}>>,
          fails |-> 1, nospace |-> 0, writes |-> {1, 2}, recs |-> 2, syncs |-> 0, reads |-> 0]
Moved == [Three EXCEPT !.targets = <<{1, 2}, {1, 3}>>, !.fails = 2, !.writes = {1}]
MovedSync == [Moved EXCEPT !.imm = "none", !.fails = 1, !.syncs = 2]
EC == [Three EXCEPT !.ec = TRUE, !.k = 2]
ECNoSpace == [EC EXCEPT !.nospace = 1]
ECTwice == [EC EXCEPT !.fails = 2, !.writes = {1}]
ECRead == [EC EXCEPT !.reads = 1]
ECSync == [EC EXCEPT !.imm = "none", !.syncs = 1, !.writes = {1}]

\* Where the exceptions of the properties come from: a full OSD of a replicated
\* pool, an epoch that is used twice, a history that is overwritten
NoSpace == [Three EXCEPT !.nospace = 1]
Two == [Three EXCEPT !.targets = <<{1, 2}>>, !.minsize = 1, !.reads = 1]
MovedTwice == [Moved EXCEPT !.minsize = 1, !.reads = 1]

MCSetups == {Three, NoSpace, Two, Moved, MovedTwice, MovedSync, ECNoSpace, ECTwice, ECRead, ECSync}
=============================================================================
