---------------------------- MODULE MCProducer ----------------------------
(***************************************************************************)
(* Instances of Producer for TLC.                                          *)
(***************************************************************************)
EXTENDS Producer

(* A row of the first step, which every replay skips, and two of the second. *)
MCStepOf == <<1, 2, 2>>
=============================================================================
