-------------------------- MODULE MCCallRefinement --------------------------
(* The instance of OrderCluster that is shown to keep CallLifecycle. *)
EXTENDS MCOrderCluster, CallRefinement

TheCall == <<1, "up">>
=============================================================================
