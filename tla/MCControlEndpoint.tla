------------------------- MODULE MCControlEndpoint -------------------------
(* Two threads of the application, two handlers, a queued task and event. *)
EXTENDS ControlEndpoint
=============================================================================
