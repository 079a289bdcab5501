---------------------------- MODULE MCProcessPool ----------------------------
(***************************************************************************)
(* ProcessPool with the two processes of a session: ss-local, and          *)
(* tun2socks with the callback that sends it the descriptor again.         *)
(***************************************************************************)
EXTENDS ProcessPool

MCGuards == {"ss_local", "tun2socks"}
MCCallbacks == {"tun2socks"}
MCApis == {23, 24, 26}
=============================================================================
