-------------------------- MODULE MCLaneScheduler --------------------------
(***************************************************************************)
(* LaneScheduler for TLC: three requests over two lanes, two workers and a  *)
(* queue of two, so that the queue fills up, a lane waits while the other  *)
(* goes on, and the device of one lane may never answer.                   *)
(***************************************************************************)
EXTENDS LaneScheduler
=============================================================================
