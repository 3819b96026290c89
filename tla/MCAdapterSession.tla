------------------------- MODULE MCAdapterSession -------------------------
(* Instances of AdapterSession for TLC.  Deadlock is not checked: a leaf    *)
(* that was destroyed takes no further step.                                *)
EXTENDS AdapterSession
=============================================================================
