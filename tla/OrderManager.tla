---------------------------- MODULE OrderManager ----------------------------
(***************************************************************************)
(* The pure part of the OrderManager package: the four order states, the   *)
(* transition guard, the "all alive peers" consensus test, and what one    *)
(* call of mergePeerWorldview, applyHallConsensus, applyNewOrder and       *)
(* applyCompletion does to one hall or cab request.  OrderCluster puts     *)
(* these operators on the state of a set of communicating elevators.       *)
(***************************************************************************)
EXTENDS Naturals

CONSTANTS
    Node,       \* the elevators, named by their valid NodeID
    NumFloors,  \* def.NumFloors (4 in the code)
    Floor,      \* the floors followed: all of them, or fewer in a small instance
    None        \* "no entry": a worldview or a node that is not known

ASSUME FloorAssumption == NumFloors \in Nat \ {0} /\ Floor \subseteq 0 .. NumFloors - 1
ASSUME NoneAssumption == None \notin Node

Dir == {"up", "down"}
HallCell == Floor \X Dir

-----------------------------------------------------------------------------
(* The life of a request. *)

NoCall       == 0
Exist        == 1
Acknowledged == 2
Complete     == 3

OrderState == NoCall .. Complete

ValidTransition(from, to) ==
    \/ to = from + 1
    \/ from = Complete /\ to = NoCall

\* The recurring "if validTransition(cur, to) { cur = to }".
Advance(from, to) == IF ValidTransition(from, to) THEN to ELSE from

-----------------------------------------------------------------------------
(* Consensus.  live[p] is p's entry in the alive list: "unseen" when the   *)
(* map has no such key.  stored[p] is the last worldview merged from p, or *)
(* None; of it only the hall requests and the cab requests it lists for    *)
(* this node are ever read, so that is what is kept.                       *)

Liveness == {"unseen", "alive", "lost"}

StoredWorldview ==
    [hall : [HallCell -> OrderState], cab : [Floor -> OrderState] \cup {None}]

ASSUME EntryAssumption == None \notin StoredWorldview

\* Mutant: one alive peer at the threshold is taken for all.
AnyAliveHallAtOrAbove(self, own, stored, live, c, threshold) ==
    \E p \in Node :
        /\ live[p] = "alive"
        /\ IF p = self THEN own >= threshold
           ELSE stored[p] # None /\ stored[p].hall[c] >= threshold

\* Every peer marked alive, this node included, is at the threshold or above.
\* An empty alive list never agrees; one with only lost peers always does.
AllAliveHallAtOrAbove(self, own, stored, live, c, threshold) ==
    /\ \E p \in Node : live[p] # "unseen"
    /\ \A p \in Node :
          live[p] = "alive" =>
             IF p = self THEN own >= threshold
             ELSE stored[p] # None /\ stored[p].hall[c] >= threshold

\* Mutant: one alive peer at the threshold is taken for all.
AnyAliveCabAtOrAbove(self, own, stored, live, f, threshold) ==
    \E p \in Node :
        /\ live[p] = "alive"
        /\ IF p = self THEN own >= threshold
           ELSE stored[p] # None /\ stored[p].cab # None /\ stored[p].cab[f] >= threshold

AllAliveCabAtOrAbove(self, own, stored, live, f, threshold) ==
    /\ \E p \in Node : live[p] # "unseen"
    /\ \A p \in Node :
          live[p] = "alive" =>
             IF p = self THEN own >= threshold
             ELSE /\ stored[p] # None
                  /\ stored[p].cab # None
                  /\ stored[p].cab[f] >= threshold

-----------------------------------------------------------------------------
(* One request under consensus: Exist -> Acknowledged, Complete -> NoCall. *)

\* Mutant: an agreed request is moved on whatever its state.
AdvanceByConsensus(self, s, stored, live, c) ==
    IF s \in {Exist, Acknowledged} /\ AllAliveHallAtOrAbove(self, s, stored, live, c, s)
    THEN s + 1 ELSE s

\* Mutant: the peers are expected to have acknowledged before.
AcknowledgeAtAcknowledged(self, s, stored, live, c) ==
    IF s = Exist /\ AllAliveHallAtOrAbove(self, s, stored, live, c, Acknowledged)
    THEN Advance(s, Acknowledged) ELSE s

AcknowledgeHall(self, s, stored, live, c) ==
    IF s = Exist /\ AllAliveHallAtOrAbove(self, s, stored, live, c, Exist)
    THEN Advance(s, Acknowledged) ELSE s

ClearHall(self, s, stored, live, c) ==
    IF s = Complete /\ AllAliveHallAtOrAbove(self, s, stored, live, c, Complete)
    THEN Advance(s, NoCall) ELSE s

AcknowledgeCab(self, s, stored, live, f) ==
    IF s = Exist /\ AllAliveCabAtOrAbove(self, s, stored, live, f, Exist)
    THEN Advance(s, Acknowledged) ELSE s

ClearCab(self, s, stored, live, f) ==
    IF s = Complete /\ AllAliveCabAtOrAbove(self, s, stored, live, f, Complete)
    THEN Advance(s, NoCall) ELSE s

\* What applyHallConsensus makes of one request.  No request passes through
\* both branches in one call: the first leaves Acknowledged, the second
\* needs Complete.
ConsensusHall(self, s, stored, live, c) ==
    ClearHall(self, AcknowledgeHall(self, s, stored, live, c), stored, live, c)

ConsensusCab(self, s, stored, live, f) ==
    ClearCab(self, AcknowledgeCab(self, s, stored, live, f), stored, live, f)

-----------------------------------------------------------------------------
(* Merging one hall request of a peer's worldview into the local one: the  *)
(* five rules of mergePeerWorldview in their order, each reading the       *)
(* result of the one before.                                               *)

\* Mutant: the state of the peer is not looked at.
LearnAlways(own, peer) == IF own = NoCall THEN Exist ELSE own

LearnHall(own, peer) ==
    IF own = NoCall /\ peer = Exist THEN Advance(own, Exist) ELSE own

AdoptComplete(own, peer) ==
    IF own = Acknowledged /\ peer = Complete THEN Advance(own, Complete) ELSE own

\* Mutants: the own state is not looked at; the rule is missing.
AdoptClearedAlways(own, peer) == IF peer = NoCall THEN NoCall ELSE own
AdoptClearedNever(own, peer) == own

AdoptCleared(own, peer) ==
    IF own = Complete /\ peer = NoCall THEN NoCall ELSE own

MergeHall(self, own, peer, stored, live, c) ==
    LET confirmed == AcknowledgeHall(self, LearnHall(own, peer), stored, live, c)
        completed == AdoptComplete(confirmed, peer)
    IN  AdoptCleared(ClearHall(self, completed, stored, live, c), peer)

\* Whether the merge of this request sets reachedAck.
MergeReachesAck(self, own, peer, stored, live, c) ==
    LET learned == LearnHall(own, peer)
    IN  AcknowledgeHall(self, learned, stored, live, c) # learned

-----------------------------------------------------------------------------
(* Recovering an own cab request from a peer's copy of it.                 *)

\* Mutant: cabCallKnown is not looked at.
RecoversCabAgain(known, own, copy) ==
    own = NoCall /\ copy \in {Exist, Acknowledged}

RecoversCab(known, own, copy) ==
    ~known /\ own = NoCall /\ copy \in {Exist, Acknowledged}

RecoverCab(known, own, copy) ==
    IF RecoversCab(known, own, copy) THEN copy ELSE own

-----------------------------------------------------------------------------
(* A button press and a completion on one request.                         *)

Press(s) == IF ValidTransition(s, Exist) THEN Exist ELSE s

PressHall(self, s, stored, live, c) ==
    AcknowledgeHall(self, Press(s), stored, live, c)

PressCab(self, s, stored, live, f) ==
    AcknowledgeCab(self, Press(s), stored, live, f)

\* Whether the floor of an own cab request counts as known after a press.  The
\* mutant forgets to note it.
PressKnownForgotten(known, s) == known
PressKnown(known, s) == known \/ ValidTransition(s, Exist)

\* Mutant: the transition is not checked.
ServeUnchecked(s) == s + 1

Serve(s) == Advance(s, Complete)
=============================================================================
