--------------------------- MODULE MCOrderCluster ---------------------------
(* Small instances of OrderCluster for TLC. *)
EXTENDS OrderCluster

CONSTANTS A, B, C

\* One landing button and one cab button on one floor are enough: no rule relates
\* two requests but a completion, which acts on a hall request and on the cab
\* request of the same floor.
OneHallButton == Node \X {<<1, "up">>}
HallButtonAtA == {<<A, <<1, "up">>>>}
CabButtonAtA == {<<A, 1>>}
NoButtons == {}
=============================================================================
