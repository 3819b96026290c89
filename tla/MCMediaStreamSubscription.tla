---------------------- MODULE MCMediaStreamSubscription ---------------------
(* Two publishers and two cancellers of one subscription.                  *)
EXTENDS MediaStreamSubscription
=============================================================================
