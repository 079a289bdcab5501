---------------------------- MODULE MCVpnService ----------------------------
(* VpnService for TLC. *)
EXTENDS VpnService, TLC

Symmetry == Permutations(Sessions) \cup Permutations(Stops)
=============================================================================
