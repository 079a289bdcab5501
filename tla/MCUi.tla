---------------------------------- MODULE MCUi ----------------------------------
(***************************************************************************)
(* Ui with two taps and little news under way at a time.                   *)
(***************************************************************************)
EXTENDS Ui
=============================================================================
