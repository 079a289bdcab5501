------------------------------ MODULE MCBinding ------------------------------
(***************************************************************************)
(* Binding with one restart of :bg, and an app that has at most two calls  *)
(* under way when it changes its mind.                                     *)
(***************************************************************************)
EXTENDS Binding
=============================================================================
