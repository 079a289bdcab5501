---------------------------- MODULE MCVpnRefinement ----------------------------
(***************************************************************************)
(* The instance of MCVpnService, for the refinement.                       *)
(***************************************************************************)
EXTENDS VpnRefinement, TLC

Symmetry == Permutations(Sessions) \cup Permutations(Stops)
=============================================================================
