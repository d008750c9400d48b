-------------------------- MODULE MCNetworkHandler --------------------------
(* The small instance of NetworkHandler for TLC. *)
EXTENDS NetworkHandler

CONSTANT A

\* The worldview changes while no peer runs, or peers come and go while it does
\* not change: the two meet only where an outgoing worldview holds NetworkRun up,
\* whatever its version.
SmallInit ==
    /\ Init
    /\ worldview = MaxChanges \/ (starts = MaxStarts /\ \A m \in Peer : ~beating[m])

SmallSpec == SmallInit /\ [][Next]_vars /\ Fairness
=============================================================================
