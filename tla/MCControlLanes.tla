--------------------------- MODULE MCControlLanes ---------------------------
(***************************************************************************)
(* ControlLanes for TLC: one device that a discovery finds with or without *)
(* its Endpoint, addressed by Endpoint and by a legacy selector.           *)
(***************************************************************************)
EXTENDS ControlLanes, TLC

CONSTANTS e1, s1, r1, r2

MCKeys == {<<"a", "1">>}

MCReports == {{}, {[endpoint |-> None, serial |-> s1, online |-> TRUE]},
              {[endpoint |-> e1, serial |-> s1, online |-> TRUE]}}

MCCommand ==
    (r1 :> [dst |-> e1, selector |-> None, kind |-> "any"]) @@
    (r2 :> [dst |-> None, selector |-> s1, kind |-> "serial"])
=============================================================================
