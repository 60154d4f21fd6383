---------------------------- MODULE MCValidation ----------------------------
(***************************************************************************)
(* Two positions and two worker slots, for the run that shows which        *)
(* interrupted runs cannot be resumed.                                     *)
(***************************************************************************)
EXTENDS ValidationRun

MCQueue == <<1, 2>>
=============================================================================
