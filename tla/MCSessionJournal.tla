-------------------------- MODULE MCSessionJournal --------------------------
(* Two writers and one reader of one session, three commands. *)
EXTENDS SessionJournalRefinement, TLC

Symmetry == Permutations(Writers)
=============================================================================
