------------------------------ MODULE MCTraffic ------------------------------
(***************************************************************************)
(* Traffic with one byte in each direction: with the restarts enough for a *)
(* total to change before, during and after the copy, up and down.         *)
(***************************************************************************)
EXTENDS Traffic
=============================================================================
