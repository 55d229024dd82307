---------------------------- MODULE MCJournalRing ----------------------------
(* JournalRing on a ring of a few blocks.                                    *)
EXTENDS JournalRing, TLC

IdSymmetry == Permutations(Ids)

=============================================================================
