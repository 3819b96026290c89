-------------------------- MODULE MCMediaPipeline --------------------------
(* A small device for TLC.  The bounds are in the configuration.             *)
EXTENDS MediaPipeline

============================================================================
