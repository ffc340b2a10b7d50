------------------------- MODULE MCSessionManifest --------------------------
(* SessionManifest for TLC. *)
EXTENDS SessionManifest, TLC

Symmetry == Permutations(Segment) \cup Permutations(Transition)
=============================================================================
