--------------------------- MODULE MCOrderAssigner ---------------------------
(* Small instances of OrderAssigner for TLC. *)
EXTENDS OrderAssigner

\* A hall call and a cab call on different floors of two.
OneHallCall == {<<0, "up">>}
OneCabCall == {1}
=============================================================================
