------------------------- MODULE MCControlOperation -------------------------
(***************************************************************************)
(* ControlOperation for TLC: three threads, two completion handlers and    *)
(* two cancel handlers, enough for a completion, a cancellation and a late *)
(* registration to overlap.                                                *)
(***************************************************************************)
EXTENDS ControlOperation
=============================================================================
