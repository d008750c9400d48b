--------------------------- MODULE CallRefinement ---------------------------
(***************************************************************************)
(* OrderCluster as an implementation of CallLifecycle, for any one of its  *)
(* hall calls.                                                             *)
(***************************************************************************)
EXTENDS OrderCluster

CONSTANT Call   \* the hall call that is followed

ASSUME CallAssumption == Call \in HallCell

Holding == {n \in Node : hall[n][Call] # NoCall}
Finished == {n \in Node : hall[n][Call] = Complete}

Lifecycle == INSTANCE CallLifecycle
    WITH stage <- hallCall[Call], knows <- Holding, done <- Finished

\* Until the first crash, the OrderManagers carry every hall call through its life
\* as CallLifecycle has it, although all they have is full worldviews that get lost,
\* cross, come back to their sender and are out of date: it is due only when everyone
\* knows it, and given up by anyone only when everyone else has heard that it was
\* served - except for what own old worldviews do to a served call.
NobodyFailed == \A n \in Node : crashes[n] = 0
KeepsLifecycle ==
    /\ Lifecycle!Init
    /\ [][NobodyFailed' => Lifecycle!Next \/ UNCHANGED Lifecycle!vars]_vars
=============================================================================
