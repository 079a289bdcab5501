-------------------------- MODULE MCNetworkListener --------------------------
(***************************************************************************)
(* NetworkListener with two service instances, of which the older may      *)
(* still be listed, and two networks to switch between.                    *)
(***************************************************************************)
EXTENDS NetworkListener
=============================================================================
