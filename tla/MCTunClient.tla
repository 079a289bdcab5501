----------------------------- MODULE MCTunClient -----------------------------
(***************************************************************************)
(* TunClient on small buffers: the send buffer of lwIP is smaller than the *)
(* receive buffer of the client, so that data has to wait, and the app     *)
(* sends more than the window.                                             *)
(***************************************************************************)
EXTENDS TunClient
=============================================================================
