---------------------------- MODULE OrderCluster ----------------------------
(***************************************************************************)
(* The order protocol of the whole system: one OrderManager per elevator,  *)
(* each running the select loop of UpdaterRun, the lossy UDP broadcast     *)
(* that carries their worldviews, the alive lists fed by the heartbeats,   *)
(* and crashes and restarts of a node.  Button presses, completions,       *)
(* position and malfunction reports come from the elevator's own state     *)
(* machine, which is left open here: it may report a completion only for   *)
(* an order its assigner was handed.                                       *)
(*                                                                         *)
(* A case of the select is one step, as localWvMu makes it in the code.    *)
(***************************************************************************)
EXTENDS OrderManager, Sequences, FiniteSets

CONSTANTS
    Position,       \* (CurrentFloor, Direction, ElevState), opaque to the protocol
    InitPosition,   \* the zero value of def.Elevator
    InboxCap,       \* worldviews waiting at a node; peerWvCh holds 10 in main.go
    MaxCrashes,     \* bound: crashes of one node
    CrashNode,      \* bound: the nodes that may crash
    RestartNode,    \* bound: the nodes that are started again
    FalseTimeouts,  \* whether a peer can be reported lost while it is running
    Repress,        \* bound: whether a button is pressed before a served call is forgotten
    HallButton,     \* bound: the hall buttons pressed, each with its elevator
    CabButton,      \* bound: the cab buttons pressed, each with its elevator
    Mixed,          \* bound: whether hall calls, cab calls and reports meet in one run
    PositionReport, \* bound: the positions reported
    MalfReport      \* bound: the malfunction flags reported

ASSUME ClusterAssumption ==
    /\ InitPosition \in Position
    /\ InboxCap \in Nat \ {0}
    /\ MaxCrashes \in Nat
    /\ CrashNode \subseteq Node /\ RestartNode \subseteq Node
    /\ FalseTimeouts \in BOOLEAN
    /\ Repress \in BOOLEAN
    /\ HallButton \subseteq Node \X HallCell
    /\ CabButton \subseteq Node \X Floor
    /\ Mixed \in BOOLEAN
    /\ PositionReport \subseteq Position
    /\ MalfReport \subseteq BOOLEAN

VARIABLES
    up,              \* up[n]: the process of n is running
    hall,            \* hall[n][c]: localWv.HallRequests of n
    nodes,           \* nodes[n][m]: m's entry of localWv.Nodes at n, or None
    cabCallKnown,    \* cabCallKnown[n][f]
    peerWorldviews,  \* peerWorldviews[n][m]: what n keeps of m's last worldview
    alive,           \* alive[n][m]: m's entry of the alive list of n
    inbox,           \* inbox[n]: worldviews on their way to n's select loop
    assignable,      \* assignable[n]: orders handed to n's assigner since boot
    crashes,         \* crashes[n]: how often n has crashed
    hallCall,        \* history: how far the users' call for a cell has come
    cabCall          \* history: the same for the cab call of a node and floor

om == <<hall, nodes, cabCallKnown, peerWorldviews>>
history == <<hallCall, cabCall>>
vars == <<up, om, alive, inbox, assignable, crashes, history>>

-----------------------------------------------------------------------------
(* Types. *)

Elevator == [pos : Position, malfunctioned : BOOLEAN]
NodeEntry == [cab : [Floor -> OrderState], elev : Elevator]
NodeList == [Node -> NodeEntry \cup {None}]

ASSUME NodeAssumption == None \notin NodeEntry

\* def.Worldview as it is broadcast.  The sender is Nodes[0].
Worldview == [from : Node, hall : [HallCell -> OrderState], list : NodeList]

\* A call is "open" from a press made when no trace of an earlier call for the
\* same place is left, "due" once some node has acknowledged it, "served" when
\* an elevator reports it done.  A press that takes effect while traces of the
\* served call are still about makes it "repressed", and serving that one leaves
\* it "tangled" until the traces are gone: the two calls cannot be told apart.  It
\* is tangled too when an own old frame brings a served call back to a node, or
\* makes a node forget it: then nobody can tell whether it is over.
CallStage == {"none", "open", "due", "served", "repressed", "tangled"}

TypeOK ==
    /\ up \in [Node -> BOOLEAN]
    /\ hall \in [Node -> [HallCell -> OrderState]]
    /\ nodes \in [Node -> NodeList]
    /\ \A n \in Node : nodes[n][n] \in NodeEntry
    /\ cabCallKnown \in [Node -> [Floor -> BOOLEAN]]
    /\ peerWorldviews \in [Node -> [Node -> StoredWorldview \cup {None}]]
    /\ alive \in [Node -> [Node -> Liveness]]
    /\ inbox \in [Node -> Seq(Worldview)]
    /\ assignable \in [Node -> SUBSET HallCell]
    /\ crashes \in [Node -> Nat]
    /\ hallCall \in [HallCell -> CallStage]
    /\ cabCall \in [Node -> [Floor -> CallStage]]

-----------------------------------------------------------------------------
(* Where a request can have left a trace. *)

HallTracesIn(c, states) ==
    /\ \A n \in Node : hall[n][c] \in states
    /\ \A n, m \in Node :
          peerWorldviews[n][m] # None => peerWorldviews[n][m].hall[c] \in states
    /\ \A n \in Node : \A i \in 1 .. Len(inbox[n]) : inbox[n][i].hall[c] \in states

QuietHall(c) == HallTracesIn(c, {NoCall})

QuietCab(n, f) ==
    /\ \A m \in Node : nodes[m][n] # None => nodes[m][n].cab[f] = NoCall
    /\ \A m \in Node :
          peerWorldviews[n][m] # None /\ peerWorldviews[n][m].cab # None
             => peerWorldviews[n][m].cab[f] = NoCall
    /\ \A m \in Node : \A i \in 1 .. Len(inbox[m]) :
          inbox[m][i].list[n] # None => inbox[m][i].list[n].cab[f] = NoCall

-----------------------------------------------------------------------------
(* Initial states. *)

NoHall == [c \in HallCell |-> NoCall]
BootEntry == [cab  |-> [f \in Floor |-> NoCall],
              elev |-> [pos |-> InitPosition, malfunctioned |-> FALSE]]

\* OrderManagerInit, as main calls it, and the package variables of a fresh
\* process: only its own node is listed, and no peer is known.
BootList(n) == [m \in Node |-> IF m = n THEN BootEntry ELSE None]

Init ==
    /\ up = [n \in Node |-> TRUE]
    /\ hall = [n \in Node |-> NoHall]
    /\ nodes = [n \in Node |-> BootList(n)]
    /\ cabCallKnown = [n \in Node |-> [f \in Floor |-> FALSE]]
    /\ peerWorldviews = [n \in Node |-> [m \in Node |-> None]]
    /\ alive = [n \in Node |-> [m \in Node |-> "unseen"]]
    /\ inbox = [n \in Node |-> <<>>]
    /\ assignable = [n \in Node |-> {}]
    /\ crashes = [n \in Node |-> 0]
    /\ hallCall = [c \in HallCell |-> "none"]
    /\ cabCall = [n \in Node |-> [f \in Floor |-> "none"]]

\* No code sets this state: an idle cluster reaches it from Init once every node
\* has heard of, and from, every other, and most runs start there.
SteadyInit ==
    /\ up = [n \in Node |-> TRUE]
    /\ hall = [n \in Node |-> NoHall]
    /\ nodes = [n \in Node |-> [m \in Node |-> BootEntry]]
    /\ cabCallKnown = [n \in Node |-> [f \in Floor |-> FALSE]]
    /\ peerWorldviews =
          [n \in Node |-> [m \in Node |->
             IF m = n THEN None ELSE [hall |-> NoHall, cab |-> BootEntry.cab]]]
    /\ alive = [n \in Node |-> [m \in Node |-> "alive"]]
    /\ inbox = [n \in Node |-> <<>>]
    /\ assignable = [n \in Node |-> {}]
    /\ crashes = [n \in Node |-> 0]
    /\ hallCall = [c \in HallCell |-> "none"]
    /\ cabCall = [n \in Node |-> [f \in Floor |-> "none"]]

-----------------------------------------------------------------------------
(* What the handlers share. *)

LocalCab(n, f) == nodes[n][n].cab[f]

\* Writes through localNode(), the entry of n in its own worldview.
SetOwnCabs(n, cabs) ==
    nodes' = [nodes EXCEPT ![n][n] = [cab |-> cabs, elev |-> @.elev]]
SetOwnElevator(n, elev) ==
    nodes' = [nodes EXCEPT ![n][n] = [cab |-> @.cab, elev |-> elev]]

\* localWv as n broadcasts it.
LocalWv(n) == [from |-> n, hall |-> hall[n], list |-> nodes[n]]

\* sendToOrderHandler: the acknowledged hall calls and, in both directions, the
\* own acknowledged cab calls, less the two orders Run removes.  The assigner
\* may act on any worldview it was ever sent, and the state machine may hold an
\* order after a newer assignment took it away, so the set only grows.
Impossible == {<<0, "down">>, <<NumFloors - 1, "up">>}
SendToOrderHandler(n) ==
    assignable' = [assignable EXCEPT ![n] = @ \cup
        ({c \in HallCell : \/ hall'[n][c] = Acknowledged
                           \/ nodes'[n][n].cab[c[1]] = Acknowledged} \ Impossible)]

\* A frame reaches any of the running nodes whose peerWvCh has room, its sender
\* among them: UDP broadcast comes back, and nobody filters it.  The others lose it.
Hearers == {r \in Node : up[r] /\ Len(inbox[r]) < InboxCap}
Broadcast(wv, receivers) ==
    inbox' = [r \in Node |->
        IF r \in receivers THEN Append(inbox[r], wv) ELSE inbox[r]]

\* applyHallConsensus on all requests of n: hall requests h and cab requests b.
ConsensusHalls(n, h) ==
    [c \in HallCell |-> ConsensusHall(n, h[c], peerWorldviews[n], alive[n], c)]
ConsensusCabs(n, b, stored) ==
    [f \in Floor |-> ConsensusCab(n, b[f], stored, alive[n], f)]

\* cabCallKnown after cab requests b of n went through consensus to b2.
CabsCleared(b, b2) == {f \in Floor : b[f] = Complete /\ b2[f] = NoCall}

\* The stage of a call after a step: acknowledged by some node it becomes due.
HallCallAfter(c, stage) ==
    IF stage = "open" /\ \E n \in Node : hall'[n][c] = Acknowledged
    THEN "due" ELSE stage
CabCallAfter(n, f, stage) ==
    IF stage = "open" /\ nodes'[n][n].cab[f] = Acknowledged
    THEN "due" ELSE stage
\* A press on a request in state s takes effect at NoCall only.
StagePressed(stage, s, quiet) ==
    IF s # NoCall THEN stage
    ELSE IF quiet THEN "open"
    ELSE IF stage = "served" THEN "repressed" ELSE stage
StageServed(stage) ==
    IF stage \in {"open", "due"} THEN "served"
    ELSE IF stage = "repressed" THEN "tangled" ELSE stage
\* An own frame has done to a served call what consensus alone would not.
StageEchoed(stage) == IF stage = "served" THEN "tangled" ELSE stage

HallHistory == hallCall' = [c \in HallCell |-> HallCallAfter(c, hallCall[c])]
CabHistory ==
    cabCall' = [n \in Node |-> [f \in Floor |-> CabCallAfter(n, f, cabCall[n][f])]]

\* What has happened in this run; a run that is not mixed keeps to one of them.
HallUsed == \E c \in HallCell : hallCall[c] # "none"
CabUsed == \E n \in Node, f \in Floor : cabCall[n][f] # "none"
ReportUsed == \E n \in Node : nodes[n][n].elev # BootEntry.elev

-----------------------------------------------------------------------------
(* The cases of UpdaterRun's select. *)

\* case <-ticker.C: broadcast the local worldview.
BroadcastTick(n, receivers) ==
    /\ up[n]
    /\ receivers \subseteq Hearers
    /\ Broadcast(LocalWv(n), receivers)
    /\ UNCHANGED <<up, om, alive, assignable, crashes, history>>

\* case <-oraTicker.C: apply consensus, hand the worldview to the assigner.
OraTick(n) ==
    /\ up[n]
    /\ LET cabs == ConsensusCabs(n, nodes[n][n].cab, peerWorldviews[n])
       IN  /\ hall' = [hall EXCEPT ![n] = ConsensusHalls(n, @)]
           /\ SetOwnCabs(n, cabs)
           /\ cabCallKnown' = [cabCallKnown EXCEPT ![n] =
                 [f \in Floor |-> @[f] \/ f \in CabsCleared(nodes[n][n].cab, cabs)]]
    /\ SendToOrderHandler(n)
    /\ HallHistory /\ CabHistory
    /\ UNCHANGED <<up, peerWorldviews, alive, inbox, crashes>>

\* What n keeps of a worldview.  Its own, looped back by the broadcast, is kept
\* by the code too, but never read again.
Remember(n, wv) ==
    [peerWorldviews[n] EXCEPT ![wv.from] =
        IF wv.from = n THEN @
        ELSE [hall |-> wv.hall,
              cab  |-> IF wv.list[n] = None THEN None ELSE wv.list[n].cab]]

\* Mutant: an entry is taken over only while the node has none.
MergeNodesOnce(n, wv, cabs) ==
    [m \in Node |->
        IF m = n THEN [cab |-> cabs, elev |-> nodes[n][n].elev]
        ELSE IF nodes[n][m] = None THEN wv.list[m] ELSE nodes[n][m]]

\* The node entries of n: every other node as the worldview lists it, whoever
\* sent it and however old it is; the own entry with the requests cabs.
MergeNodes(n, wv, cabs) ==
    [m \in Node |->
        IF m = n THEN [cab |-> cabs, elev |-> nodes[n][n].elev]
        ELSE IF wv.list[m] # None THEN wv.list[m] ELSE nodes[n][m]]

\* The own cab requests after the recovery from the copy the worldview holds.
RecoverCabs(n, wv) ==
    [f \in Floor |->
        IF wv.list[n] = None THEN LocalCab(n, f)
        ELSE RecoverCab(cabCallKnown[n][f], LocalCab(n, f), wv.list[n].cab[f])]

\* case peerWv := <-peerWvCh: mergePeerWorldview.
MergePeer(n) ==
    /\ up[n]
    /\ inbox[n] # <<>>
    /\ LET wv == Head(inbox[n])
           stored == Remember(n, wv)
           own == nodes[n][n].cab
           recovered == RecoverCabs(n, wv)
           cabs == ConsensusCabs(n, recovered, stored)
           reachedAck ==
              \/ \E c \in HallCell :
                    MergeReachesAck(n, hall[n][c], wv.hall[c], stored, alive[n], c)
              \/ \E f \in Floor : recovered[f] = Exist /\ cabs[f] = Acknowledged
       IN  /\ peerWorldviews' = [peerWorldviews EXCEPT ![n] = stored]
           /\ nodes' = [nodes EXCEPT ![n] = MergeNodes(n, wv, cabs)]
           /\ cabCallKnown' = [cabCallKnown EXCEPT ![n] = [f \in Floor |->
                 \/ @[f]
                 \/ recovered[f] # own[f]
                 \/ f \in CabsCleared(recovered, cabs)]]
           /\ hall' = [hall EXCEPT ![n] = [c \in HallCell |->
                 MergeHall(n, @[c], wv.hall[c], stored, alive[n], c)]]
           /\ IF reachedAck THEN SendToOrderHandler(n) ELSE UNCHANGED assignable
           /\ hallCall' = [c \in HallCell |->
                 IF wv.from = n /\ hall'[n][c] # ConsensusHalls(n, hall[n])[c]
                 THEN StageEchoed(HallCallAfter(c, hallCall[c]))
                 ELSE HallCallAfter(c, hallCall[c])]
    /\ inbox' = [inbox EXCEPT ![n] = Tail(@)]
    /\ CabHistory
    /\ UNCHANGED <<up, alive, crashes>>

\* case newOrder := <-newOrderCh, hall button.
NewHallOrder(n, c) ==
    /\ up[n]
    /\ <<n, c>> \in HallButton
    /\ Mixed \/ ~(CabUsed \/ ReportUsed)
    /\ Repress \/ hallCall[c] \notin {"served", "tangled"} \/ QuietHall(c)
    /\ hall' = [hall EXCEPT ![n][c] =
                  PressHall(n, @, peerWorldviews[n], alive[n], c)]
    /\ UNCHANGED <<up, nodes, cabCallKnown, peerWorldviews, alive, inbox,
                   crashes, cabCall>>
    /\ SendToOrderHandler(n)
    /\ hallCall' = [hallCall EXCEPT ![c] =
           HallCallAfter(c, StagePressed(@, hall[n][c], QuietHall(c)))]

\* case newOrder := <-newOrderCh, cab button.
NewCabOrder(n, f) ==
    /\ up[n]
    /\ <<n, f>> \in CabButton
    /\ Mixed \/ ~(HallUsed \/ ReportUsed)
    /\ Repress \/ cabCall[n][f] # "served" \/ QuietCab(n, f)
    /\ SetOwnCabs(n, [nodes[n][n].cab EXCEPT ![f] =
                         PressCab(n, @, peerWorldviews[n], alive[n], f)])
    /\ cabCallKnown' = [cabCallKnown EXCEPT ![n][f] =
                          PressKnown(@, LocalCab(n, f))]
    /\ UNCHANGED <<up, hall, peerWorldviews, alive, inbox, crashes, hallCall>>
    /\ SendToOrderHandler(n)
    /\ cabCall' = [cabCall EXCEPT ![n][f] =
           CabCallAfter(n, f, StagePressed(@, LocalCab(n, f), QuietCab(n, f)))]

\* case orderMsg := <-orderCompleteCh: applyCompletion on the hall request and
\* on the own cab request of the floor, then applyHallConsensus.
OrderComplete(n, c) ==
    /\ up[n]
    /\ c \in assignable[n]
    /\ LET f == c[1]
           served == [nodes[n][n].cab EXCEPT ![f] = Serve(@)]
           cabs == ConsensusCabs(n, served, peerWorldviews[n])
           completed == [hall[n] EXCEPT ![c] = Serve(@)]
       IN  /\ hall' = [hall EXCEPT ![n] = ConsensusHalls(n, completed)]
           /\ SetOwnCabs(n, cabs)
           /\ cabCallKnown' = [cabCallKnown EXCEPT ![n] = [g \in Floor |->
                 \/ @[g]
                 \/ g = f /\ served[f] # LocalCab(n, f)
                 \/ g \in CabsCleared(served, cabs)]]
           /\ hallCall' = [d \in HallCell |->
                 IF d = c /\ hall[n][c] = Acknowledged THEN StageServed(hallCall[d])
                 ELSE HallCallAfter(d, hallCall[d])]
           /\ cabCall' = [m \in Node |-> [g \in Floor |->
                 IF m = n /\ g = f /\ LocalCab(n, f) = Acknowledged THEN StageServed(cabCall[m][g])
                 ELSE CabCallAfter(m, g, cabCall[m][g])]]
    /\ SendToOrderHandler(n)
    /\ UNCHANGED <<up, peerWorldviews, alive, inbox, crashes>>

\* case malfunction := <-malfunctionCh.
Malfunction(n, m) ==
    /\ up[n]
    /\ Mixed \/ ~(HallUsed \/ CabUsed)
    /\ SetOwnElevator(n, [pos |-> nodes[n][n].elev.pos, malfunctioned |-> m])
    /\ UNCHANGED <<up, hall, cabCallKnown, peerWorldviews, alive, inbox,
                   assignable, crashes, history>>

\* case elevState := <-fsmElevStateCh: take over the position, broadcast at once.
ElevState(n, p, receivers) ==
    /\ up[n]
    /\ Mixed \/ ~(HallUsed \/ CabUsed)
    /\ receivers \subseteq Hearers
    /\ SetOwnElevator(n, [pos |-> p, malfunctioned |-> nodes[n][n].elev.malfunctioned])
    /\ Broadcast([from |-> n, hall |-> hall[n], list |-> nodes'[n]], receivers)
    /\ UNCHANGED <<up, hall, cabCallKnown, peerWorldviews, alive,
                   assignable, crashes, history>>

-----------------------------------------------------------------------------
(* The alive list and the life of a process. *)

\* UpdateAliveList on one update of the peers package: a node not on the list
\* of live ones that was heard, and listed ones that timed out.
UpdateAliveList(n, new, lost) ==
    /\ up[n]
    /\ new # None \/ lost # {}
    /\ new \in Node => up[new] /\ alive[n][new] # "alive"
    /\ \A m \in lost : alive[n][m] = "alive" /\ (FalseTimeouts \/ ~up[m])
    /\ alive' = [alive EXCEPT ![n] = [m \in Node |->
          IF m \in lost THEN "lost" ELSE IF m = new THEN "alive" ELSE @[m]]]
    /\ UNCHANGED <<up, om, inbox, assignable, crashes, history>>

\* The process of n dies with everything it had in memory: nothing is on disk.
Crash(n) ==
    /\ up[n]
    /\ n \in CrashNode /\ crashes[n] < MaxCrashes
    /\ up' = [up EXCEPT ![n] = FALSE]
    /\ crashes' = [crashes EXCEPT ![n] = @ + 1]
    /\ hall' = [hall EXCEPT ![n] = NoHall]
    /\ nodes' = [nodes EXCEPT ![n] = BootList(n)]
    /\ cabCallKnown' = [cabCallKnown EXCEPT ![n] = [f \in Floor |-> FALSE]]
    /\ peerWorldviews' = [peerWorldviews EXCEPT ![n] = [m \in Node |-> None]]
    /\ alive' = [alive EXCEPT ![n] = [m \in Node |-> "unseen"]]
    /\ inbox' = [inbox EXCEPT ![n] = <<>>]
    /\ assignable' = [assignable EXCEPT ![n] = {}]
    /\ UNCHANGED history

\* The program is started again, in the state OrderManagerInit leaves.
Restart(n) ==
    /\ ~up[n] /\ n \in RestartNode
    /\ up' = [up EXCEPT ![n] = TRUE]
    /\ UNCHANGED <<om, alive, inbox, assignable, crashes, history>>

-----------------------------------------------------------------------------
(* The specifications. *)

Next ==
    \E n \in Node :
        \/ \E receivers \in SUBSET Hearers : BroadcastTick(n, receivers)
        \/ OraTick(n)
        \/ MergePeer(n)
        \/ \E c \in HallCell : NewHallOrder(n, c)
        \/ \E f \in Floor : NewCabOrder(n, f)
        \/ \E c \in HallCell : OrderComplete(n, c)
        \/ \E m \in MalfReport : Malfunction(n, m)
        \/ \E p \in PositionReport, receivers \in SUBSET Hearers : ElevState(n, p, receivers)
        \/ \E new \in Node \cup {None}, lost \in SUBSET Node :
              UpdateAliveList(n, new, lost)
        \/ Crash(n)
        \/ Restart(n)

Spec == Init /\ [][Next]_vars
SteadySpec == SteadyInit /\ [][Next]_vars

-----------------------------------------------------------------------------
(* Fairness.  The 100 ms ticker fires for ever and losses are independent,  *)
(* so every frame a running node keeps repeating gets through in the end;   *)
(* the select loop keeps taking messages and the 10 s ticker; the peers     *)
(* package keeps noticing who is heard and who is not.  Nobody has to press *)
(* a button, serve an order or restart a node.                              *)

DeliverTick(n, r) ==
    \E receivers \in SUBSET Hearers : r \in receivers /\ BroadcastTick(n, receivers)

Fairness ==
    /\ \A n, r \in Node : n # r => SF_vars(DeliverTick(n, r))
    /\ \A n \in Node :
          /\ WF_vars(MergePeer(n))
          /\ WF_vars(OraTick(n))
          /\ WF_vars(\E new \in Node \cup {None}, lost \in SUBSET Node :
                        UpdateAliveList(n, new, lost))

FairSteadySpec == SteadySpec /\ Fairness

-----------------------------------------------------------------------------
(* Hall calls. *)

Unserved(c) == hallCall[c] \in {"open", "due"}

\* No elevator shows, stores or is sent a call nobody has ever made, whatever
\* is lost or crashes (the merge rules only move existing calls).
NoPhantomCall == \A c \in HallCell : hallCall[c] = "none" => QuietHall(c)

\* As long as no elevator has served a fresh call, no worldview anywhere, local,
\* remembered or in flight, says Complete for it: neither consensus nor a merge
\* makes a completion up (mergePeerWorldview lines 77-82).
NoEarlyCompletion ==
    \A c \in HallCell : Unserved(c) => HallTracesIn(c, {NoCall, Exist, Acknowledged})

\* A running node that knows a fresh call never steps back from it before some
\* elevator has served it: stale and crossing worldviews cannot undo it.
UnservedCallKept ==
    [][\A n \in Node, c \in HallCell :
          Unserved(c) /\ Unserved(c)' /\ up[n] /\ up'[n]
             => hall'[n][c] >= hall[n][c]]_vars

\* As long as no crashed node was started again, a fresh call that some node has
\* acknowledged is known to every node that is still running, so the crash of the
\* elevator it is assigned to does not lose it (README.md, line 11: "no call is
\* lost if a node disconnects mid-order").
NoneRestarted == \A n \in Node : up[n] => crashes[n] = 0
DueCallReplicated ==
    \A c \in HallCell : hallCall[c] = "due" /\ NoneRestarted =>
        \A m \in Node : up[m] => hall[m][c] \in {Exist, Acknowledged}

\* A served call that a node has cleared does not come back to it from a late or
\* repeated worldview; it takes a new press (README.md, line 11: "no call is
\* double-served").
NoResurrection ==
    [][\A n \in Node, c \in HallCell :
          (/\ hallCall[c] = "served" /\ hallCall'[c] \in {"served", "tangled"}
           /\ hall[n][c] = NoCall)
             => hall'[n][c] = NoCall]_vars

\* A node clears a completion only when no running node is still waiting for
\* that call to be served (README.md, line 11: "Completion is only cleared once
\* all peers have confirmed the order was served").
ClearedOnceConfirmed ==
    [][\A n \in Node, c \in HallCell :
          hallCall[c] = "served" /\ up'[n] /\ hall[n][c] = Complete /\ hall'[n][c] = NoCall
             => \A m \in Node : up[m] => hall[m][c] \in {NoCall, Complete}]_vars

\* A press made while a peer still holds the completion of the previous call
\* survives until an elevator serves it (README.md, line 11).
RepressedCallKept ==
    \A c \in HallCell :
        hallCall[c] = "repressed" => \E n \in Node : up[n] /\ hall[n][c] # NoCall

\* No node waits for ever at Exist: the peers confirm in the end, and those that
\* crash are taken off the alive list.  It may only go on being served and brought
\* back by own frames.
CallConfirmed ==
    \A c \in HallCell :
        []<>(\A n \in Node : hall[n][c] = Exist => hallCall[c] = "tangled")

\* A node does not stay at Complete: the rule commented "this rule breaks that
\* deadlock" lets the others follow the first one to clear.
CompletionCleared == \A c \in HallCell : []<>(\A n \in Node : hall[n][c] # Complete)

-----------------------------------------------------------------------------
(* Cab calls. *)

\* A node holds a cab call only for a floor it counts as known, so that no
\* recovery can overwrite it.
CabStateKnown ==
    \A n \in Node, f \in Floor : LocalCab(n, f) # NoCall => cabCallKnown[n][f]

\* Once served in this run of the process, a cab call is not brought back by a
\* peer's stale copy (OrderManager/README.md, line 24).
NoCabResurrection ==
    [][\A n \in Node, f \in Floor :
          (/\ cabCall[n][f] = "served" /\ cabCall'[n][f] = "served"
           /\ cabCallKnown[n][f] /\ up[n] /\ up'[n]
           /\ LocalCab(n, f) = NoCall)
             => LocalCab(n, f)' = NoCall]_vars

\* From the moment a fresh cab call at n is acknowledged, every frame of n that is
\* still on its way to a running peer shows it, however many older ones crossed: a
\* peer may list it wrongly after a frame of somebody else, own ones included
\* (ordermanagerLogic.go, line 43), but not after the next one of n, and if n
\* crashes, not after the last one n has sent it.
CabInEveryFrame ==
    \A n, m \in Node, f \in Floor :
        cabCall[n][f] = "due" /\ NoneRestarted /\ up[m] /\ n # m =>
            \A i \in 1 .. Len(inbox[m]) :
                inbox[m][i].from = n =>
                    inbox[m][i].list[n].cab[f] \in {Exist, Acknowledged}

\* The restart itself does not destroy the copies (README.md, line 13: "Peer
\* memory is used to recover cab calls after a crash/restart").
CabSurvivesRestart ==
    \A n \in Node, f \in Floor :
        cabCall[n][f] = "due" =>
            \E m \in Node : nodes[m][n] # None /\ nodes[m][n].cab[f] # NoCall

-----------------------------------------------------------------------------
(* The other elevators as the assigner sees them. *)

\* If an elevator's report stops changing, every peer that runs on gets to see it
\* again and again, the malfunction flag included.  Not for good: an older entry
\* in a frame of somebody else, the peer's own ones included, may overwrite it
\* (ordermanagerLogic.go, line 43), and is itself passed on.
ElevatorViewRefreshed ==
    \A n \in Node : \A m \in Node \ {n}, e \in Elevator :
        <>[](up[n] /\ up[m] /\ nodes[n][n].elev = e)
            => []<>(nodes[m][n] # None /\ nodes[m][n].elev = e)
=============================================================================
