--------------------------- MODULE MCJournalWrites ---------------------------
(* For TLC, one at a time: the requests that write to the journal            *)
(* (JournalWrites) and the coroutines that flush it (FlushSync).             *)
EXTENDS JournalWrites, FlushSync

CONSTANTS w1, d1, g1, t1, y1, c1, c2, c3

VARIABLE part   \* "writes" or "flushes"

MCInit ==
  /\ part \in {"writes", "flushes"}
  /\ Init /\ FlushInit
  /\ part = "flushes" => imm /\ j.nso

MCNext ==
  \/ part = "writes" /\ Next /\ UNCHANGED flushVars
  \/ part = "flushes" /\ FlushNext /\ UNCHANGED vars

MCSpec ==
  MCInit /\ [][MCNext /\ UNCHANGED part]_<<part, vars, flushVars>> /\ Fairness /\ FlushFairness

=============================================================================
