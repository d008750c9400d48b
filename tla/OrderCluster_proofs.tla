------------------------ MODULE OrderCluster_proofs ------------------------
(***************************************************************************)
(* Proofs about OrderCluster for every set of nodes, every number of       *)
(* floors and every bound.                                                 *)
(***************************************************************************)
EXTENDS OrderCluster, SequenceTheorems, TLAPS

-----------------------------------------------------------------------------
(* What the operators of OrderManager return. *)

\* The four order states are the numbers 0 to 3 (definitions.go: iota).
LEMMA StatesAreNumbers ==
    /\ NoCall = 0 /\ Exist = 1 /\ Acknowledged = 2 /\ Complete = 3
    /\ OrderState = {0, 1, 2, 3}
  BY SMT DEF NoCall, Exist, Acknowledged, Complete, OrderState

\* allAliveHall moves a hall request from Exist to Acknowledged or leaves it.
LEMMA AcknowledgeHallFacts ==
    ASSUME NEW s \in OrderState, NEW self, NEW stored, NEW live, NEW c
    PROVE  LET r == AcknowledgeHall(self, s, stored, live, c)
           IN  r = s \/ (s = Exist /\ r = Acknowledged)
  BY StatesAreNumbers, SMT DEF AcknowledgeHall, Advance, ValidTransition

\* applyHallConsensus clears a completed hall request or leaves it.
LEMMA ClearHallFacts ==
    ASSUME NEW s \in OrderState, NEW self, NEW stored, NEW live, NEW c
    PROVE  LET r == ClearHall(self, s, stored, live, c)
           IN  r = s \/ (s = Complete /\ r = NoCall)
  BY StatesAreNumbers, SMT DEF ClearHall, Advance, ValidTransition

\* Consensus moves a request forward or clears a completed one; it never
\* completes one, nor touches one that is not there.
LEMMA ConsensusHallFacts ==
    ASSUME NEW s \in OrderState, NEW self, NEW stored, NEW live, NEW c
    PROVE  LET r == ConsensusHall(self, s, stored, live, c)
           IN  /\ r \in OrderState
               /\ s # Complete => r # Complete /\ r >= s
               /\ s = NoCall => r = NoCall
  <1> DEFINE a == AcknowledgeHall(self, s, stored, live, c)
  <1>1. a \in OrderState /\ (a = s \/ (s = Exist /\ a = Acknowledged))
    BY AcknowledgeHallFacts, StatesAreNumbers
  <1>2. LET r == ClearHall(self, a, stored, live, c)
        IN  r = a \/ (a = Complete /\ r = NoCall)
    BY <1>1, ClearHallFacts
  <1> QED
    BY <1>1, <1>2, StatesAreNumbers, SMT DEF ConsensusHall

\* Consensus makes no cab request where there is none.
LEMMA ConsensusCabFacts ==
    ASSUME NEW s \in OrderState, NEW self, NEW stored, NEW live, NEW f
    PROVE  LET r == ConsensusCab(self, s, stored, live, f)
           IN  /\ r \in OrderState
               /\ s = NoCall => r = NoCall
  BY StatesAreNumbers, SMT
     DEF ConsensusCab, ClearCab, AcknowledgeCab, Advance, ValidTransition

\* A merge invents neither a call nor a completion, and does not take back a
\* request unless a completion is involved.
LEMMA MergeHallFacts ==
    ASSUME NEW s \in OrderState, NEW peer \in OrderState,
           NEW self, NEW stored, NEW live, NEW c
    PROVE  LET r == MergeHall(self, s, peer, stored, live, c)
           IN  /\ r \in OrderState
               /\ s # Complete /\ peer # Complete => r # Complete /\ r >= s
               /\ s = NoCall /\ peer = NoCall => r = NoCall
  <1> DEFINE learned == LearnHall(s, peer)
             confirmed == AcknowledgeHall(self, learned, stored, live, c)
             completed == AdoptComplete(confirmed, peer)
             cleared == ClearHall(self, completed, stored, live, c)
             r == AdoptCleared(cleared, peer)
  <1>1. learned \in OrderState /\ (learned = s \/ (s = NoCall /\ peer = Exist /\ learned = Exist))
    BY StatesAreNumbers, SMT DEF LearnHall, Advance, ValidTransition
  <1>2. confirmed = learned \/ (learned = Exist /\ confirmed = Acknowledged)
    BY <1>1, AcknowledgeHallFacts
  <1>3. completed = confirmed \/ (peer = Complete /\ confirmed = Acknowledged /\ completed = Complete)
    BY StatesAreNumbers, SMT DEF AdoptComplete, Advance, ValidTransition
  <1>4. completed \in OrderState
    BY <1>1, <1>2, <1>3, StatesAreNumbers
  <1>5. cleared = completed \/ (completed = Complete /\ cleared = NoCall)
    BY <1>4, ClearHallFacts
  <1>6. r = cleared \/ (cleared = Complete /\ r = NoCall)
    BY DEF AdoptCleared
  <1>7. MergeHall(self, s, peer, stored, live, c) = r
    BY DEF MergeHall
  <1> HIDE DEF learned, confirmed, completed, cleared, r
  <1> QED
    BY <1>1, <1>2, <1>3, <1>5, <1>6, <1>7, StatesAreNumbers, SMT

\* A press (applyNewOrder) never moves a hall request back, nor completes it.
LEMMA PressHallFacts ==
    ASSUME NEW s \in OrderState, NEW self, NEW stored, NEW live, NEW c
    PROVE  LET r == PressHall(self, s, stored, live, c)
           IN  /\ r \in OrderState
               /\ r >= s
               /\ s # Complete => r # Complete
               /\ s # NoCall => r # NoCall
  BY StatesAreNumbers, SMT
     DEF PressHall, Press, AcknowledgeHall, Advance, ValidTransition

\* A press raises a cab request exactly from NoCall.
LEMMA PressCabFacts ==
    ASSUME NEW s \in OrderState, NEW self, NEW stored, NEW live, NEW f
    PROVE  LET r == PressCab(self, s, stored, live, f)
           IN  /\ r \in OrderState
               /\ s = NoCall <=> ValidTransition(s, Exist)
  BY StatesAreNumbers, SMT
     DEF PressCab, Press, AcknowledgeCab, Advance, ValidTransition

\* A completion (applyCompletion) applies to an acknowledged request only.
LEMMA ServeFacts ==
    ASSUME NEW s \in OrderState
    PROVE  /\ Serve(s) \in OrderState
           /\ Serve(s) = IF s = Acknowledged THEN Complete ELSE s
  BY StatesAreNumbers, SMT DEF Serve, Advance, ValidTransition

\* A recovery replaces an own cab request only where there is none.
LEMMA RecoverCabFacts ==
    ASSUME NEW known \in BOOLEAN, NEW own \in OrderState, NEW copy \in OrderState
    PROVE  /\ RecoverCab(known, own, copy) \in OrderState
           /\ RecoverCab(known, own, copy) # own => own = NoCall
  BY StatesAreNumbers, SMT DEF RecoverCab, RecoversCab

-----------------------------------------------------------------------------
(* Types. *)

\* A cold start (OrderManagerInit) is well typed.
LEMMA InitTyped == ASSUME Init PROVE TypeOK
  <1> USE StatesAreNumbers, ClusterAssumption, NoneAssumption
  <1>1. BootEntry \in NodeEntry
    BY SMT DEF BootEntry, NodeEntry, Elevator
  <1>2. \A n \in Node : BootList(n) \in NodeList /\ BootList(n)[n] \in NodeEntry
    BY <1>1 DEF BootList, NodeList
  <1>3. NoHall \in [HallCell -> OrderState]
    BY SMT DEF NoHall
  <1> QED
    BY <1>2, <1>3, SMT DEF Init, TypeOK, StoredWorldview, Liveness, CallStage

\* So is the settled cluster.
LEMMA SteadyInitTyped == ASSUME SteadyInit PROVE TypeOK
  <1> USE StatesAreNumbers, ClusterAssumption, NoneAssumption
  <1>1. BootEntry \in NodeEntry
    BY SMT DEF BootEntry, NodeEntry, Elevator
  <1>2. NoHall \in [HallCell -> OrderState]
    BY SMT DEF NoHall
  <1>3. [hall |-> NoHall, cab |-> BootEntry.cab] \in StoredWorldview
    BY <1>2, SMT DEF StoredWorldview, BootEntry
  <1> QED
    BY <1>1, <1>2, <1>3, SMT DEF SteadyInit, TypeOK, NodeList, Liveness, CallStage

\* The history of a call stays a stage.
LEMMA HallStageTyped ==
    ASSUME NEW stage \in CallStage, NEW c
    PROVE  HallCallAfter(c, stage) \in CallStage
  BY SMT DEF CallStage, HallCallAfter

\* The stage of a cab call stays one of the stages.
LEMMA CabStageTyped ==
    ASSUME NEW stage \in CallStage, NEW n, NEW f
    PROVE  CabCallAfter(n, f, stage) \in CallStage
  BY SMT DEF CallStage, CabCallAfter

\* So does that of a hall call that is pressed,
LEMMA PressedStageTyped ==
    ASSUME NEW stage \in CallStage, NEW s, NEW quiet
    PROVE  StagePressed(stage, s, quiet) \in CallStage
  BY SMT DEF CallStage, StagePressed

\* and that of one that is served.
LEMMA ServedStageTyped ==
    ASSUME NEW stage \in CallStage
    PROVE  StageServed(stage) \in CallStage
  BY SMT DEF CallStage, StageServed

\* A merge moves a stage as consensus does, and may tangle it then.
LEMMA MergedStage ==
    ASSUME NEW n \in Node, MergePeer(n), NEW c \in HallCell
    PROVE  hallCall'[c] \in {HallCallAfter(c, hallCall[c]),
                            StageEchoed(HallCallAfter(c, hallCall[c]))}
  BY DEF MergePeer

\* Hence the two histories keep their types.
LEMMA HistoryTyped ==
    ASSUME TypeOK
    PROVE  /\ HallHistory => hallCall' \in [HallCell -> CallStage]
           /\ CabHistory => cabCall' \in [Node -> [Floor -> CallStage]]
  <1>1. HallHistory => hallCall' \in [HallCell -> CallStage]
    BY HallStageTyped DEF TypeOK, HallHistory
  <1>2. ASSUME CabHistory
        PROVE  cabCall' \in [Node -> [Floor -> CallStage]]
    <2>1. \A n \in Node, f \in Floor : cabCall[n][f] \in CallStage
      BY DEF TypeOK
    <2>2. \A n \in Node, f \in Floor : CabCallAfter(n, f, cabCall[n][f]) \in CallStage
      BY <2>1, CabStageTyped
    <2> QED
      BY <1>2, <2>2 DEF CabHistory
  <1> QED
    BY <1>1, <1>2

\* What the order handler is sent is a set of hall cells (sendToOrderHandler).
LEMMA AssignableTyped ==
    ASSUME TypeOK, NEW n \in Node, SendToOrderHandler(n)
    PROVE  assignable' \in [Node -> SUBSET HallCell]
  BY SMT DEF TypeOK, SendToOrderHandler

\* A broadcast is appended to what its receivers have waiting.
LEMMA BroadcastTyped ==
    ASSUME TypeOK, NEW wv \in Worldview, NEW receivers, Broadcast(wv, receivers)
    PROVE  inbox' \in [Node -> Seq(Worldview)]
  BY SMT DEF TypeOK, Broadcast

\* GetLocalWv returns a worldview.
LEMMA LocalWvTyped ==
    ASSUME TypeOK, NEW n \in Node
    PROVE  LocalWv(n) \in Worldview
  BY SMT DEF TypeOK, LocalWv, Worldview

\* Consensus over all cells keeps the types of the requests.
LEMMA ConsensusTyped ==
    ASSUME NEW n, NEW stored,
           NEW h \in [HallCell -> OrderState], NEW b \in [Floor -> OrderState]
    PROVE  /\ ConsensusHalls(n, h) \in [HallCell -> OrderState]
           /\ ConsensusCabs(n, b, stored) \in [Floor -> OrderState]
  BY ConsensusHallFacts, ConsensusCabFacts DEF ConsensusHalls, ConsensusCabs

\* Writing the own entry keeps the node list well formed.
LEMMA OwnEntryTyped ==
    ASSUME TypeOK, NEW n \in Node, NEW e \in NodeEntry,
           nodes' = [nodes EXCEPT ![n][n] = e]
    PROVE  nodes' \in [Node -> NodeList] /\ \A m \in Node : nodes'[m][m] \in NodeEntry
  BY SMT DEF TypeOK, NodeList

\* Writing the own cab requests keeps the node lists and the own entry.
LEMMA SetOwnCabsTyped ==
    ASSUME TypeOK, NEW n \in Node, NEW cabs \in [Floor -> OrderState],
           SetOwnCabs(n, cabs)
    PROVE  nodes' \in [Node -> NodeList] /\ \A m \in Node : nodes'[m][m] \in NodeEntry
  <1>1. [cab |-> cabs, elev |-> nodes[n][n].elev] \in NodeEntry
    BY SMT DEF TypeOK, NodeEntry
  <1> QED
    BY <1>1, OwnEntryTyped DEF SetOwnCabs

\* So does writing the own elevator.
LEMMA SetOwnElevatorTyped ==
    ASSUME TypeOK, NEW n \in Node, NEW elev \in Elevator,
           SetOwnElevator(n, elev)
    PROVE  nodes' \in [Node -> NodeList] /\ \A m \in Node : nodes'[m][m] \in NodeEntry
  <1>1. [cab |-> nodes[n][n].cab, elev |-> elev] \in NodeEntry
    BY SMT DEF TypeOK, NodeEntry
  <1> QED
    BY <1>1, OwnEntryTyped DEF SetOwnElevator

\* Recovered cab requests are order states (mergePeerWorldview, its first loop).
LEMMA RecoverCabsTyped ==
    ASSUME TypeOK, NEW n \in Node, NEW wv \in Worldview
    PROVE  RecoverCabs(n, wv) \in [Floor -> OrderState]
  <1> SUFFICES ASSUME NEW f \in Floor
               PROVE  IF wv.list[n] = None THEN LocalCab(n, f) \in OrderState
                      ELSE RecoverCab(cabCallKnown[n][f], LocalCab(n, f), wv.list[n].cab[f])
                              \in OrderState
    BY SMT DEF RecoverCabs
  <1>1. LocalCab(n, f) \in OrderState /\ cabCallKnown[n][f] \in BOOLEAN
    BY SMT DEF TypeOK, LocalCab, NodeEntry
  <1>2. wv.list[n] # None => wv.list[n].cab[f] \in OrderState
    BY SMT DEF Worldview, NodeList, NodeEntry
  <1> QED
    BY <1>1, <1>2, RecoverCabFacts

\* What is kept of a worldview that was merged has its type.
LEMMA RememberTyped ==
    ASSUME TypeOK, NEW n \in Node, NEW wv \in Worldview
    PROVE  Remember(n, wv) \in [Node -> StoredWorldview \cup {None}]
  <1>1. wv.list[n] # None => wv.list[n].cab \in [Floor -> OrderState]
    BY SMT DEF Worldview, NodeList, NodeEntry
  <1>2. [hall |-> wv.hall, cab |-> IF wv.list[n] = None THEN None ELSE wv.list[n].cab]
           \in StoredWorldview
    BY <1>1, SMT DEF Worldview, StoredWorldview
  <1>3. peerWorldviews[n] \in [Node -> StoredWorldview \cup {None}]
    BY DEF TypeOK
  <1> DEFINE entry == [hall |-> wv.hall,
                       cab  |-> IF wv.list[n] = None THEN None ELSE wv.list[n].cab]
  <1>4. Remember(n, wv) = [peerWorldviews[n] EXCEPT ![wv.from] =
                              IF wv.from = n THEN @ ELSE entry]
    BY DEF Remember
  <1> HIDE DEF entry
  <1>5. entry \in StoredWorldview
    BY <1>2 DEF entry
  <1>6. wv.from \in Node
    BY SMT DEF Worldview
  <1>7. (IF wv.from = n THEN peerWorldviews[n][wv.from] ELSE entry)
           \in StoredWorldview \cup {None}
    BY <1>3, <1>5, <1>6
  <1> QED
    BY <1>3, <1>4, <1>6, <1>7

\* A merge keeps the node lists and never drops the own entry.
LEMMA MergeNodesTyped ==
    ASSUME TypeOK, NEW n \in Node, NEW wv \in Worldview,
           NEW cabs \in [Floor -> OrderState],
           nodes' = [nodes EXCEPT ![n] = MergeNodes(n, wv, cabs)]
    PROVE  nodes' \in [Node -> NodeList] /\ \A m \in Node : nodes'[m][m] \in NodeEntry
  <1>1. [cab |-> cabs, elev |-> nodes[n][n].elev] \in NodeEntry
    BY SMT DEF TypeOK, NodeEntry
  <1>2. MergeNodes(n, wv, cabs) \in NodeList
    BY <1>1, SMT DEF TypeOK, MergeNodes, NodeList, Worldview
  <1>3. MergeNodes(n, wv, cabs)[n] \in NodeEntry
    BY <1>1, SMT DEF MergeNodes
  <1> QED
    BY <1>2, <1>3, SMT DEF TypeOK

\* A merge keeps the type of the hall requests.
LEMMA MergedHallTyped ==
    ASSUME TypeOK, NEW n \in Node, NEW wv \in Worldview, NEW stored
    PROVE  [c \in HallCell |-> MergeHall(n, hall[n][c], wv.hall[c], stored, alive[n], c)]
              \in [HallCell -> OrderState]
  <1>1. \A c \in HallCell : hall[n][c] \in OrderState /\ wv.hall[c] \in OrderState
    BY SMT DEF TypeOK, Worldview
  <1> QED
    BY <1>1, MergeHallFacts

\* A worldview taken from the inbox is one.
LEMMA HeadTyped ==
    ASSUME TypeOK, NEW n \in Node, inbox[n] # <<>>
    PROVE  /\ Head(inbox[n]) \in Worldview
           /\ [inbox EXCEPT ![n] = Tail(@)] \in [Node -> Seq(Worldview)]
  BY SMT DEF TypeOK

\* Every step keeps the types.
LEMMA NextTyped == ASSUME TypeOK, [Next]_vars PROVE TypeOK'
  <1> USE ClusterAssumption
  <1>1. ASSUME NEW n \in Node, NEW receivers \in SUBSET Hearers,
               BroadcastTick(n, receivers)
        PROVE  TypeOK'
    <2>1. inbox' \in [Node -> Seq(Worldview)]
      BY <1>1, LocalWvTyped, BroadcastTyped DEF BroadcastTick
    <2> QED
      BY <1>1, <2>1 DEF TypeOK, BroadcastTick, om, history
  <1>2. ASSUME NEW n \in Node, OraTick(n)
        PROVE  TypeOK'
    <2> DEFINE cabs == ConsensusCabs(n, nodes[n][n].cab, peerWorldviews[n])
    <2>1. hall[n] \in [HallCell -> OrderState] /\ nodes[n][n].cab \in [Floor -> OrderState]
      BY SMT DEF TypeOK, NodeEntry
    <2>2. cabs \in [Floor -> OrderState]
          /\ ConsensusHalls(n, hall[n]) \in [HallCell -> OrderState]
      BY <2>1, ConsensusTyped
    <2>3. nodes' \in [Node -> NodeList] /\ \A m \in Node : nodes'[m][m] \in NodeEntry
      BY <1>2, <2>2, SetOwnCabsTyped DEF OraTick
    <2>4. hall' \in [Node -> [HallCell -> OrderState]]
      BY <1>2, <2>2, SMT DEF OraTick, TypeOK
    <2>5. cabCallKnown' \in [Node -> [Floor -> BOOLEAN]]
      BY <1>2, SMT DEF OraTick, TypeOK
    <2>6. assignable' \in [Node -> SUBSET HallCell]
      BY <1>2, AssignableTyped DEF OraTick
    <2>7. hallCall' \in [HallCell -> CallStage] /\ cabCall' \in [Node -> [Floor -> CallStage]]
      BY <1>2, HistoryTyped DEF OraTick
    <2> QED
      BY <1>2, <2>3, <2>4, <2>5, <2>6, <2>7 DEF TypeOK, OraTick
  <1>3. ASSUME NEW n \in Node, MergePeer(n)
        PROVE  TypeOK'
    <2> DEFINE wv == Head(inbox[n])
               stored == Remember(n, wv)
               recovered == RecoverCabs(n, wv)
               cabs == ConsensusCabs(n, recovered, stored)
    <2>1. wv \in Worldview /\ inbox' \in [Node -> Seq(Worldview)]
      BY <1>3, HeadTyped DEF MergePeer
    <2>2. stored \in [Node -> StoredWorldview \cup {None}]
      BY <2>1, RememberTyped
    <2>3. cabs \in [Floor -> OrderState]
      <3>1. recovered \in [Floor -> OrderState]
        BY <2>1, RecoverCabsTyped
      <3>2. hall[n] \in [HallCell -> OrderState]
        BY DEF TypeOK
      <3> QED
        BY <3>1, <3>2, ConsensusTyped
    <2>4. nodes' \in [Node -> NodeList] /\ \A m \in Node : nodes'[m][m] \in NodeEntry
      BY <1>3, <2>1, <2>3, MergeNodesTyped DEF MergePeer
    <2>5. hall' \in [Node -> [HallCell -> OrderState]]
      <3> DEFINE merged ==
            [c \in HallCell |-> MergeHall(n, hall[n][c], wv.hall[c], stored, alive[n], c)]
      <3>1. hall' = [hall EXCEPT ![n] = merged]
        BY <1>3 DEF MergePeer
      <3>2. merged \in [HallCell -> OrderState]
        BY <2>1, MergedHallTyped
      <3> HIDE DEF merged
      <3> QED
        BY <3>1, <3>2 DEF TypeOK
    <2>6. peerWorldviews' \in [Node -> [Node -> StoredWorldview \cup {None}]]
      BY <1>3, <2>2 DEF MergePeer, TypeOK
    <2>7. cabCallKnown' \in [Node -> [Floor -> BOOLEAN]]
      BY <1>3, SMT DEF MergePeer, TypeOK
    <2>8. assignable' \in [Node -> SUBSET HallCell]
      <3>1. SendToOrderHandler(n) \/ UNCHANGED assignable
        BY <1>3 DEF MergePeer
      <3> QED
        BY <3>1, AssignableTyped DEF TypeOK
    <2>9. cabCall' \in [Node -> [Floor -> CallStage]]
      BY <1>3, HistoryTyped DEF MergePeer
    <2>10. hallCall' \in [HallCell -> CallStage]
      <3>1. \A c \in HallCell : HallCallAfter(c, hallCall[c]) \in CallStage
        BY HallStageTyped DEF TypeOK
      <3>2. \A stage \in CallStage : StageEchoed(stage) \in CallStage
        BY DEF CallStage, StageEchoed
      <3>3. \A c \in HallCell : hallCall'[c] \in CallStage
        BY <1>3, <3>1, <3>2, MergedStage
      <3> QED
        BY <1>3, <3>3 DEF MergePeer
    <2> QED
      BY <1>3, <2>1, <2>4, <2>5, <2>6, <2>7, <2>8, <2>9, <2>10 DEF TypeOK, MergePeer
  <1>4. ASSUME NEW n \in Node, NEW c \in HallCell, NewHallOrder(n, c)
        PROVE  TypeOK'
    <2>1. c \in HallCell
      OBVIOUS
    <2>2. hall' \in [Node -> [HallCell -> OrderState]]
      <3>1. hall[n][c] \in OrderState
        BY <2>1 DEF TypeOK
      <3>2. PressHall(n, hall[n][c], peerWorldviews[n], alive[n], c) \in OrderState
        BY <3>1, PressHallFacts
      <3> QED
        BY <1>4, <3>2, SMT DEF NewHallOrder, TypeOK
    <2>3. assignable' \in [Node -> SUBSET HallCell]
      BY <1>4, AssignableTyped DEF NewHallOrder
    <2>4. hallCall' \in [HallCell -> CallStage]
      <3>1. hallCall[c] \in CallStage
        BY <2>1 DEF TypeOK
      <3>2. HallCallAfter(c, StagePressed(hallCall[c], hall[n][c], QuietHall(c))) \in CallStage
        BY <3>1, PressedStageTyped, HallStageTyped
      <3> QED
        BY <1>4, <3>2 DEF NewHallOrder, TypeOK
    <2> QED
      BY <1>4, <2>2, <2>3, <2>4 DEF TypeOK, NewHallOrder
  <1>5. ASSUME NEW n \in Node, NEW f \in Floor, NewCabOrder(n, f)
        PROVE  TypeOK'
    <2>1. f \in Floor
      OBVIOUS
    <2>2. nodes' \in [Node -> NodeList] /\ \A m \in Node : nodes'[m][m] \in NodeEntry
      <3> DEFINE cab == nodes[n][n].cab
                 cabs == [cab EXCEPT ![f] = PressCab(n, @, peerWorldviews[n], alive[n], f)]
      <3>1. cab \in [Floor -> OrderState]
        BY SMT DEF TypeOK, NodeEntry
      <3>2. PressCab(n, cab[f], peerWorldviews[n], alive[n], f) \in OrderState
        BY <2>1, <3>1, PressCabFacts
      <3>3. cabs \in [Floor -> OrderState]
        BY <3>1, <3>2
      <3> QED
        BY <1>5, <3>3, SetOwnCabsTyped DEF NewCabOrder
    <2>3. cabCallKnown' \in [Node -> [Floor -> BOOLEAN]]
      BY <1>5, <2>1, SMT DEF NewCabOrder, TypeOK, PressKnown
    <2>4. assignable' \in [Node -> SUBSET HallCell]
      BY <1>5, AssignableTyped DEF NewCabOrder
    <2>5. cabCall' \in [Node -> [Floor -> CallStage]]
      <3>1. cabCall[n][f] \in CallStage
        BY <2>1 DEF TypeOK
      <3>2. CabCallAfter(n, f, StagePressed(cabCall[n][f], LocalCab(n, f), QuietCab(n, f)))
               \in CallStage
        BY <3>1, PressedStageTyped, CabStageTyped
      <3> QED
        BY <1>5, <3>2 DEF NewCabOrder, TypeOK
    <2> QED
      BY <1>5, <2>2, <2>3, <2>4, <2>5 DEF TypeOK, NewCabOrder
  <1>6. ASSUME NEW n \in Node, NEW c \in HallCell, OrderComplete(n, c)
        PROVE  TypeOK'
    <2> DEFINE f == c[1]
               served == [nodes[n][n].cab EXCEPT ![f] = Serve(@)]
               cabs == ConsensusCabs(n, served, peerWorldviews[n])
               completed == [hall[n] EXCEPT ![c] = Serve(@)]
    <2>1. f \in Floor
      BY SMT DEF HallCell
    <2>2. completed \in [HallCell -> OrderState]
      BY ServeFacts DEF TypeOK
    <2>3. served \in [Floor -> OrderState]
      <3>1. nodes[n][n].cab \in [Floor -> OrderState]
        BY SMT DEF TypeOK, NodeEntry
      <3>2. Serve(nodes[n][n].cab[f]) \in OrderState
        BY <2>1, <3>1, ServeFacts
      <3> QED
        BY <3>1, <3>2
    <2>4. cabs \in [Floor -> OrderState]
          /\ ConsensusHalls(n, completed) \in [HallCell -> OrderState]
      BY <2>2, <2>3, ConsensusTyped
    <2>5. nodes' \in [Node -> NodeList] /\ \A m \in Node : nodes'[m][m] \in NodeEntry
      BY <1>6, <2>4, SetOwnCabsTyped DEF OrderComplete
    <2>6. hall' \in [Node -> [HallCell -> OrderState]]
      <3>1. hall' = [hall EXCEPT ![n] = ConsensusHalls(n, completed)]
        BY <1>6 DEF OrderComplete
      <3> QED
        BY <2>4, <3>1 DEF TypeOK
    <2>7. cabCallKnown' \in [Node -> [Floor -> BOOLEAN]]
      BY <1>6, SMT DEF OrderComplete, TypeOK
    <2>8. assignable' \in [Node -> SUBSET HallCell]
      BY <1>6, AssignableTyped DEF OrderComplete
    <2>9. hallCall' \in [HallCell -> CallStage]
      <3>1. \A d \in HallCell : /\ StageServed(hallCall[d]) \in CallStage
                                 /\ HallCallAfter(d, hallCall[d]) \in CallStage
        BY ServedStageTyped, HallStageTyped DEF TypeOK
      <3> QED
        BY <1>6, <3>1 DEF OrderComplete
    <2>10. cabCall' \in [Node -> [Floor -> CallStage]]
      <3>1. \A m \in Node, g \in Floor : cabCall[m][g] \in CallStage
        BY DEF TypeOK
      <3>2. \A m \in Node, g \in Floor :
               /\ StageServed(cabCall[m][g]) \in CallStage
               /\ CabCallAfter(m, g, cabCall[m][g]) \in CallStage
        BY <3>1, ServedStageTyped, CabStageTyped
      <3> QED
        BY <1>6, <3>2 DEF OrderComplete
    <2> QED
      BY <1>6, <2>5, <2>6, <2>7, <2>8, <2>9, <2>10 DEF TypeOK, OrderComplete
  <1>7. ASSUME NEW n \in Node, NEW m \in MalfReport, Malfunction(n, m)
        PROVE  TypeOK'
    <2>1. [pos |-> nodes[n][n].elev.pos, malfunctioned |-> m] \in Elevator
      BY SMT DEF TypeOK, NodeEntry, Elevator
    <2>2. nodes' \in [Node -> NodeList] /\ \A k \in Node : nodes'[k][k] \in NodeEntry
      BY <1>7, <2>1, SetOwnElevatorTyped DEF Malfunction
    <2> QED
      BY <1>7, <2>2 DEF TypeOK, Malfunction, history
  <1>8. ASSUME NEW n \in Node, NEW p \in PositionReport,
               NEW receivers \in SUBSET Hearers, ElevState(n, p, receivers)
        PROVE  TypeOK'
    <2>1. [pos |-> p, malfunctioned |-> nodes[n][n].elev.malfunctioned] \in Elevator
      BY SMT DEF TypeOK, NodeEntry, Elevator
    <2>2. nodes' \in [Node -> NodeList] /\ \A k \in Node : nodes'[k][k] \in NodeEntry
      BY <1>8, <2>1, SetOwnElevatorTyped DEF ElevState
    <2>3. [from |-> n, hall |-> hall[n], list |-> nodes'[n]] \in Worldview
      BY <2>2, SMT DEF TypeOK, Worldview
    <2>4. inbox' \in [Node -> Seq(Worldview)]
      BY <1>8, <2>3, BroadcastTyped DEF ElevState
    <2> QED
      BY <1>8, <2>2, <2>4 DEF TypeOK, ElevState, history
  <1>9. ASSUME NEW n \in Node, NEW new \in Node \cup {None}, NEW lost \in SUBSET Node,
               UpdateAliveList(n, new, lost)
        PROVE  TypeOK'
    <2>1. alive' \in [Node -> [Node -> Liveness]]
      BY <1>9, SMT DEF UpdateAliveList, TypeOK, Liveness
    <2> QED
      BY <1>9, <2>1 DEF TypeOK, UpdateAliveList, om, history
  <1>10. ASSUME NEW n \in Node, Crash(n)
         PROVE  TypeOK'
    <2>1. BootEntry \in NodeEntry
      BY StatesAreNumbers, SMT DEF BootEntry, NodeEntry, Elevator
    <2>2. BootList(n) \in NodeList /\ BootList(n)[n] \in NodeEntry
      BY <2>1 DEF BootList, NodeList
    <2>3. nodes' \in [Node -> NodeList] /\ \A m \in Node : nodes'[m][m] \in NodeEntry
      BY <1>10, <2>2, SMT DEF Crash, TypeOK
    <2>4. hall' \in [Node -> [HallCell -> OrderState]]
      BY <1>10, StatesAreNumbers, SMT DEF Crash, TypeOK, NoHall
    <2>5. /\ alive' \in [Node -> [Node -> Liveness]]
          /\ inbox' \in [Node -> Seq(Worldview)]
          /\ crashes' \in [Node -> Nat]
          /\ up' \in [Node -> BOOLEAN]
      BY <1>10, SMT DEF Crash, TypeOK, Liveness
    <2>6. /\ cabCallKnown' \in [Node -> [Floor -> BOOLEAN]]
          /\ peerWorldviews' \in [Node -> [Node -> StoredWorldview \cup {None}]]
          /\ assignable' \in [Node -> SUBSET HallCell]
      BY <1>10, SMT DEF Crash, TypeOK
    <2> QED
      BY <1>10, <2>3, <2>4, <2>5, <2>6 DEF TypeOK, Crash, history
  <1>11. ASSUME NEW n \in Node, Restart(n)
         PROVE  TypeOK'
    BY <1>11 DEF TypeOK, Restart, om, history
  <1>12. CASE UNCHANGED vars
    BY <1>12 DEF TypeOK, vars, om, history
  <1> QED
    BY <1>1, <1>2, <1>3, <1>4, <1>5, <1>6, <1>7, <1>8, <1>9, <1>10, <1>11, <1>12
       DEF Next

\* Every variable keeps its type: the invariant all the other proofs use.
THEOREM TypeCorrect == Spec \/ SteadySpec => []TypeOK
  BY InitTyped, SteadyInitTyped, NextTyped, PTL DEF Spec, SteadySpec

-----------------------------------------------------------------------------
(* Hall calls.  Two sets of states are closed under everything but a press *)
(* and a completion of the call itself: "nobody knows of it" and "nobody   *)
(* has completed it".                                                      *)

Uncompleted == {NoCall, Exist, Acknowledged}
Closed == {{NoCall}, Uncompleted}

HallInv == TypeOK /\ NoPhantomCall /\ NoEarlyCompletion

\* The states of a closed set are left by neither consensus nor a merge.
LEMMA ClosedFacts ==
    ASSUME NEW S \in Closed, NEW s \in S, NEW peer \in S,
           NEW self, NEW stored, NEW live, NEW c
    PROVE  /\ S \subseteq OrderState
           /\ ConsensusHall(self, s, stored, live, c) \in S
           /\ MergeHall(self, s, peer, stored, live, c) \in S
  <1>1. S = {0} \/ S = {0, 1, 2}
    BY StatesAreNumbers DEF Closed, Uncompleted
  <1>2. s \in OrderState /\ peer \in OrderState /\ S \subseteq OrderState
    BY <1>1, StatesAreNumbers
  <1>3. ConsensusHall(self, s, stored, live, c) \in S
    <2> DEFINE r == ConsensusHall(self, s, stored, live, c)
    <2>1. r \in OrderState /\ (s # Complete => r # Complete) /\ (s = NoCall => r = NoCall)
      BY <1>2, ConsensusHallFacts
    <2> HIDE DEF r
    <2>2. r \in S
      BY <1>1, <2>1, StatesAreNumbers
    <2> QED
      BY <2>2 DEF r
  <1>4. MergeHall(self, s, peer, stored, live, c) \in S
    <2> DEFINE r == MergeHall(self, s, peer, stored, live, c)
    <2>1. /\ r \in OrderState
          /\ s # Complete /\ peer # Complete => r # Complete
          /\ s = NoCall /\ peer = NoCall => r = NoCall
      BY <1>2, MergeHallFacts
    <2> HIDE DEF r
    <2>2. r \in S
      BY <1>1, <2>1, StatesAreNumbers
    <2> QED
      BY <2>2 DEF r
  <1> QED
    BY <1>2, <1>3, <1>4

\* A broadcast of n spreads only states that n holds.
LEMMA BroadcastTraces ==
    ASSUME TypeOK, NEW c \in HallCell, NEW S, HallTracesIn(c, S),
           NEW wv \in Worldview, wv.hall[c] \in S, NEW receivers,
           Broadcast(wv, receivers), UNCHANGED <<hall, peerWorldviews>>
    PROVE  HallTracesIn(c, S)'
  <1> SUFFICES ASSUME NEW r \in Node, NEW i \in 1 .. Len(inbox'[r])
               PROVE  inbox'[r][i].hall[c] \in S
    BY DEF HallTracesIn
  <1>1. inbox[r] \in Seq(Worldview)
    BY DEF TypeOK
  <1>2. CASE inbox'[r] = inbox[r]
    BY <1>2 DEF HallTracesIn
  <1>3. CASE inbox'[r] = Append(inbox[r], wv)
    <2>1. CASE i \in 1 .. Len(inbox[r])
      <3>1. inbox'[r][i] = inbox[r][i]
        BY <1>1, <1>3, <2>1, SMT
      <3> QED
        BY <2>1, <3>1 DEF HallTracesIn
    <2>2. CASE i = Len(inbox[r]) + 1
      <3>1. inbox'[r][i] = wv
        BY <1>1, <1>3, <2>2, SMT
      <3> QED
        BY <3>1
    <2> QED
      BY <1>1, <1>3, <2>1, <2>2, SMT
  <1> QED
    BY <1>2, <1>3 DEF Broadcast

\* A merge at n leaves every trace in a closed set.
LEMMA MergeTraces ==
    ASSUME TypeOK, NEW c \in HallCell, NEW S \in Closed, HallTracesIn(c, S),
           NEW n \in Node, MergePeer(n)
    PROVE  HallTracesIn(c, S)'
  <1> DEFINE wv == Head(inbox[n])
             stored == Remember(n, wv)
  <1>1. inbox[n] \in Seq(Worldview) /\ inbox[n] # <<>> /\ wv \in Worldview
    BY HeadTyped DEF MergePeer, TypeOK
  <1>2. wv.hall[c] \in S
    <2>1. 1 \in 1 .. Len(inbox[n]) /\ wv = inbox[n][1]
      BY <1>1, SMT
    <2> QED
      BY <2>1 DEF HallTracesIn
  <1>3. \A m \in Node : hall'[m][c] \in S
    <2> SUFFICES ASSUME NEW m \in Node PROVE hall'[m][c] \in S
      OBVIOUS
    <2>1. hall[m][c] \in S
      BY DEF HallTracesIn
    <2>2. CASE m = n
      <3>1. hall'[n][c] = MergeHall(n, hall[n][c], wv.hall[c], stored, alive[n], c)
        BY DEF MergePeer, TypeOK
      <3> QED
        BY <1>2, <2>1, <2>2, <3>1, ClosedFacts
    <2>3. CASE m # n
      BY <2>1, <2>3 DEF MergePeer, TypeOK
    <2> QED
      BY <2>2, <2>3
  <1>4. \A m, k \in Node :
           peerWorldviews'[m][k] # None => peerWorldviews'[m][k].hall[c] \in S
    <2> SUFFICES ASSUME NEW m \in Node, NEW k \in Node, peerWorldviews'[m][k] # None
                 PROVE  peerWorldviews'[m][k].hall[c] \in S
      OBVIOUS
    <2>1. peerWorldviews' = [peerWorldviews EXCEPT ![n] = stored]
      BY DEF MergePeer
    <2>2. CASE peerWorldviews'[m][k] = peerWorldviews[m][k]
      BY <2>2 DEF HallTracesIn
    <2>3. CASE peerWorldviews'[m][k] # peerWorldviews[m][k]
      <3>1. m = n /\ peerWorldviews'[m][k] = stored[k]
        BY <2>1, <2>3 DEF TypeOK
      <3>2. stored[k].hall = wv.hall
        <4>1. peerWorldviews[n] \in [Node -> StoredWorldview \cup {None}]
          BY DEF TypeOK
        <4>2. k = wv.from /\ k # n
          BY <2>3, <3>1, <4>1, SMT DEF Remember
        <4> QED
          BY <4>1, <4>2, SMT DEF Remember
      <3> QED
        BY <1>2, <3>1, <3>2
    <2> QED
      BY <2>2, <2>3
  <1>5. \A m \in Node : \A i \in 1 .. Len(inbox'[m]) : inbox'[m][i].hall[c] \in S
    <2> SUFFICES ASSUME NEW m \in Node, NEW i \in 1 .. Len(inbox'[m])
                 PROVE  inbox'[m][i].hall[c] \in S
      OBVIOUS
    <2>1. inbox' = [inbox EXCEPT ![n] = Tail(@)]
      BY DEF MergePeer
    <2>2. CASE m = n
      <3>1. inbox'[m] = Tail(inbox[n])
        BY <2>1, <2>2 DEF TypeOK
      <3>2. inbox'[m][i] = inbox[n][i + 1] /\ i + 1 \in 1 .. Len(inbox[n])
        BY <1>1, <3>1, SMT
      <3> QED
        BY <3>2 DEF HallTracesIn
    <2>3. CASE m # n
      <3>1. inbox'[m] = inbox[m]
        BY <2>1, <2>3 DEF TypeOK
      <3> QED
        BY <3>1 DEF HallTracesIn
    <2> QED
      BY <2>2, <2>3
  <1> QED
    BY <1>3, <1>4, <1>5 DEF HallTracesIn

\* So does a step that only runs consensus at n, whatever else it writes.
LEMMA ConsensusTraces ==
    ASSUME TypeOK, NEW c \in HallCell, NEW S \in Closed, HallTracesIn(c, S),
           NEW n \in Node, NEW h \in [HallCell -> OrderState], h[c] \in S,
           hall' = [hall EXCEPT ![n] = ConsensusHalls(n, h)],
           UNCHANGED <<peerWorldviews, inbox>>
    PROVE  HallTracesIn(c, S)'
  <1>1. ConsensusHalls(n, h)[c] \in S
    BY ClosedFacts DEF ConsensusHalls
  <1>2. \A m \in Node : hall'[m][c] \in S
    BY <1>1 DEF HallTracesIn, TypeOK
  <1> QED
    BY <1>2 DEF HallTracesIn

\* Forgetting everything a node holds leaves no new trace.
LEMMA CrashTraces ==
    ASSUME TypeOK, NEW c \in HallCell, NEW S \in Closed, HallTracesIn(c, S),
           NEW n \in Node, Crash(n)
    PROVE  HallTracesIn(c, S)'
  <1>1. NoCall \in S
    BY DEF Closed, Uncompleted
  <1>2. \A m \in Node : hall'[m][c] \in S
    BY <1>1 DEF HallTracesIn, TypeOK, Crash, NoHall
  <1>3. \A m, k \in Node :
           peerWorldviews'[m][k] # None => peerWorldviews'[m][k].hall[c] \in S
    BY DEF HallTracesIn, TypeOK, Crash
  <1>4. \A m \in Node : \A i \in 1 .. Len(inbox'[m]) : inbox'[m][i].hall[c] \in S
    <2> SUFFICES ASSUME NEW m \in Node, NEW i \in 1 .. Len(inbox'[m])
                 PROVE  inbox'[m][i].hall[c] \in S
      OBVIOUS
    <2>1. CASE m = n
      <3>1. inbox'[m] = <<>>
        BY <2>1 DEF Crash, TypeOK
      <3> QED
        BY <3>1, SMT
    <2>2. CASE m # n
      <3>1. inbox'[m] = inbox[m]
        BY <2>2 DEF Crash, TypeOK
      <3> QED
        BY <3>1 DEF HallTracesIn
    <2> QED
      BY <2>1, <2>2
  <1> QED
    BY <1>2, <1>3, <1>4 DEF HallTracesIn

\* Only a press or a completion of the call itself leaves a closed set.
LEMMA StepTraces ==
    ASSUME TypeOK, [Next]_vars, NEW c \in HallCell, NEW S \in Closed, HallTracesIn(c, S)
    PROVE  \/ HallTracesIn(c, S)'
           \/ \E n \in Node : NewHallOrder(n, c)
           \/ \E n \in Node : OrderComplete(n, c) /\ hall[n][c] = Acknowledged
  <1>1. ASSUME NEW n \in Node, NEW receivers \in SUBSET Hearers,
               BroadcastTick(n, receivers)
        PROVE  HallTracesIn(c, S)'
    <2>1. LocalWv(n) \in Worldview /\ LocalWv(n).hall[c] \in S
      <3>1. LocalWv(n).hall = hall[n]
        BY DEF LocalWv
      <3> QED
        BY <3>1, LocalWvTyped DEF HallTracesIn
    <2> QED
      BY <1>1, <2>1, BroadcastTraces DEF BroadcastTick, om
  <1>2. ASSUME NEW n \in Node, OraTick(n)
        PROVE  HallTracesIn(c, S)'
    <2>1. hall[n] \in [HallCell -> OrderState] /\ hall[n][c] \in S
      BY DEF TypeOK, HallTracesIn
    <2>2. hall' = [hall EXCEPT ![n] = ConsensusHalls(n, hall[n])]
      BY <1>2 DEF OraTick
    <2> QED
      BY <1>2, <2>1, <2>2, ConsensusTraces DEF OraTick
  <1>3. ASSUME NEW n \in Node, MergePeer(n)
        PROVE  HallTracesIn(c, S)'
    BY <1>3, MergeTraces
  <1>4. ASSUME NEW n \in Node, NEW d \in HallCell, d # c, NewHallOrder(n, d)
        PROVE  HallTracesIn(c, S)'
    <2>1. \A m \in Node : hall'[m][c] = hall[m][c]
      BY <1>4 DEF NewHallOrder, TypeOK
    <2> QED
      BY <1>4, <2>1 DEF HallTracesIn, NewHallOrder
  <1>5. ASSUME NEW n \in Node, NEW f \in Floor, NewCabOrder(n, f)
        PROVE  HallTracesIn(c, S)'
    BY <1>5 DEF HallTracesIn, NewCabOrder
  <1>6. ASSUME NEW n \in Node, NEW d \in HallCell, OrderComplete(n, d),
               d # c \/ hall[n][c] # Acknowledged
        PROVE  HallTracesIn(c, S)'
    <2> DEFINE completed == [hall[n] EXCEPT ![d] = Serve(@)]
    <2>1. completed \in [HallCell -> OrderState]
      BY ServeFacts DEF TypeOK
    <2>2. completed[c] = hall[n][c]
      <3>1. hall[n][c] \in OrderState /\ hall[n] \in [HallCell -> OrderState]
        BY DEF TypeOK
      <3>2. d = c => Serve(hall[n][c]) = hall[n][c]
        BY <1>6, <3>1, ServeFacts
      <3> QED
        BY <3>1, <3>2
    <2>3. completed[c] \in S
      BY <2>2 DEF HallTracesIn
    <2>4. hall' = [hall EXCEPT ![n] = ConsensusHalls(n, completed)]
      BY <1>6 DEF OrderComplete
    <2> QED
      BY <1>6, <2>1, <2>3, <2>4, ConsensusTraces DEF OrderComplete
  <1>7. ASSUME NEW n \in Node, NEW m \in MalfReport, Malfunction(n, m)
        PROVE  HallTracesIn(c, S)'
    BY <1>7 DEF HallTracesIn, Malfunction
  <1>8. ASSUME NEW n \in Node, NEW p \in PositionReport,
               NEW receivers \in SUBSET Hearers, ElevState(n, p, receivers)
        PROVE  HallTracesIn(c, S)'
    <2> DEFINE wv == [from |-> n, hall |-> hall[n], list |-> nodes'[n]]
    <2>1. wv \in Worldview
      <3>1. TypeOK'
        BY NextTyped
      <3>2. nodes'[n] \in NodeList
        BY <3>1 DEF TypeOK
      <3> QED
        BY <3>2, SMT DEF TypeOK, Worldview
    <2>2. wv.hall[c] \in S
      BY DEF HallTracesIn
    <2> QED
      BY <1>8, <2>1, <2>2, BroadcastTraces DEF ElevState
  <1>9. ASSUME NEW n \in Node, NEW new \in Node \cup {None}, NEW lost \in SUBSET Node,
               UpdateAliveList(n, new, lost)
        PROVE  HallTracesIn(c, S)'
    BY <1>9 DEF HallTracesIn, UpdateAliveList, om
  <1>10. ASSUME NEW n \in Node, Crash(n)
         PROVE  HallTracesIn(c, S)'
    BY <1>10, CrashTraces
  <1>11. ASSUME NEW n \in Node, Restart(n)
         PROVE  HallTracesIn(c, S)'
    BY <1>11 DEF HallTracesIn, Restart, om
  <1>12. CASE UNCHANGED vars
    BY <1>12 DEF HallTracesIn, vars, om
  <1> QED
    BY <1>1, <1>2, <1>3, <1>4, <1>5, <1>6, <1>7, <1>8, <1>9, <1>10, <1>11, <1>12
       DEF Next

-----------------------------------------------------------------------------
(* The two invariants of hall calls. *)

\* A stage that means "nobody called" is not left by a step of the history.
LEMMA StageFacts ==
    ASSUME NEW stage \in CallStage, NEW c
    PROVE  /\ HallCallAfter(c, stage) = "none" <=> stage = "none"
           /\ HallCallAfter(c, stage) \in {"open", "due"} <=> stage \in {"open", "due"}
           /\ StageServed(stage) \notin {"open", "due"}
           /\ StageServed(stage) = "none" => stage = "none"
           /\ StageEchoed(stage) \in CallStage
           /\ StageEchoed(stage) = "none" <=> stage = "none"
           /\ StageEchoed(stage) \in {"open", "due"} <=> stage \in {"open", "due"}
  BY SMT DEF CallStage, HallCallAfter, StageServed, StageEchoed

\* A press keeps an uncompleted request uncompleted.
LEMMA PressTraces ==
    ASSUME TypeOK, NEW c \in HallCell, NEW n \in Node, NewHallOrder(n, c),
           HallTracesIn(c, Uncompleted)
    PROVE  HallTracesIn(c, Uncompleted)'
  <1> USE ClusterAssumption
  <1>1. hall[n][c] \in Uncompleted /\ hall[n][c] \in OrderState
    BY DEF HallTracesIn, TypeOK
  <1>2. PressHall(n, hall[n][c], peerWorldviews[n], alive[n], c) \in Uncompleted
    <2> DEFINE r == PressHall(n, hall[n][c], peerWorldviews[n], alive[n], c)
    <2>1. r \in OrderState /\ (hall[n][c] # Complete => r # Complete)
      BY <1>1, PressHallFacts
    <2> HIDE DEF r
    <2>2. r \in Uncompleted
      BY <1>1, <2>1, StatesAreNumbers DEF Uncompleted
    <2> QED
      BY <2>2 DEF r
  <1>3. \A m \in Node : hall'[m][c] \in Uncompleted
    BY <1>2 DEF HallTracesIn, TypeOK, NewHallOrder
  <1> QED
    BY <1>3 DEF HallTracesIn, NewHallOrder

\* How a step that is neither a press nor a completion of c moves its history.
LEMMA StepStage ==
    ASSUME TypeOK, [Next]_vars, NEW c \in HallCell
    PROVE  \/ hallCall'[c] \in {hallCall[c], HallCallAfter(c, hallCall[c]),
                               StageEchoed(HallCallAfter(c, hallCall[c]))}
           \/ \E n \in Node : NewHallOrder(n, c)
           \/ \E n \in Node : OrderComplete(n, c) /\ hall[n][c] = Acknowledged
  <1>1. ASSUME NEW n \in Node, NEW d \in HallCell, d # c, NewHallOrder(n, d)
        PROVE  hallCall'[c] = hallCall[c]
    BY <1>1 DEF NewHallOrder, TypeOK
  <1>2. ASSUME NEW n \in Node, NEW d \in HallCell, OrderComplete(n, d),
               d # c \/ hall[n][c] # Acknowledged
        PROVE  hallCall'[c] = HallCallAfter(c, hallCall[c])
    BY <1>2 DEF OrderComplete
  <1>3. ASSUME NEW n \in Node, OraTick(n) \/ MergePeer(n)
        PROVE  hallCall'[c] \in {HallCallAfter(c, hallCall[c]),
                                StageEchoed(HallCallAfter(c, hallCall[c]))}
    BY <1>3, MergedStage DEF OraTick, HallHistory
  <1>4. ASSUME NEW n \in Node, NEW f \in Floor, NewCabOrder(n, f)
        PROVE  hallCall'[c] = hallCall[c]
    BY <1>4 DEF NewCabOrder
  <1>5. ASSUME NEW n \in Node, NEW receivers, BroadcastTick(n, receivers)
        PROVE  hallCall'[c] = hallCall[c]
    BY <1>5 DEF BroadcastTick, history
  <1>6. ASSUME NEW n \in Node, NEW p, NEW receivers, ElevState(n, p, receivers)
        PROVE  hallCall'[c] = hallCall[c]
    BY <1>6 DEF ElevState, history
  <1>7. ASSUME NEW n \in Node, NEW m, Malfunction(n, m)
        PROVE  hallCall'[c] = hallCall[c]
    BY <1>7 DEF Malfunction, history
  <1>8. ASSUME NEW n \in Node, NEW new, NEW lost, UpdateAliveList(n, new, lost)
        PROVE  hallCall'[c] = hallCall[c]
    BY <1>8 DEF UpdateAliveList, history
  <1>9. ASSUME NEW n \in Node, Crash(n) \/ Restart(n)
        PROVE  hallCall'[c] = hallCall[c]
    BY <1>9 DEF Crash, Restart, history
  <1>10. CASE UNCHANGED vars
    BY <1>10 DEF vars, history
  <1> QED
    BY <1>1, <1>2, <1>3, <1>4, <1>5, <1>6, <1>7, <1>8, <1>9, <1>10 DEF Next

\* The inductive step of both invariants, for one cell.
LEMMA HallCellStep ==
    ASSUME HallInv, [Next]_vars, NEW c \in HallCell
    PROVE  /\ hallCall'[c] = "none" => QuietHall(c)'
           /\ hallCall'[c] \in {"open", "due"} => HallTracesIn(c, Uncompleted)'
  <1> USE DEF HallInv
  <1>1. hallCall[c] \in CallStage /\ \A n \in Node : hall[n][c] \in OrderState
    BY DEF TypeOK
  <1>2. {NoCall} \in Closed /\ Uncompleted \in Closed
    BY DEF Closed
  <1>3. hallCall[c] = "none" => HallTracesIn(c, {NoCall})
    BY DEF NoPhantomCall, QuietHall
  <1>4. hallCall[c] \in {"open", "due"} => HallTracesIn(c, Uncompleted)
    BY DEF NoEarlyCompletion, Unserved, Uncompleted
  <1>5. ASSUME NEW n \in Node, NewHallOrder(n, c)
        PROVE  /\ hallCall'[c] # "none"
               /\ hallCall'[c] \in {"open", "due"} => HallTracesIn(c, Uncompleted)'
    <2> DEFINE quiet == QuietHall(c)
               pressed == StagePressed(hallCall[c], hall[n][c], quiet)
    <2>1. hallCall'[c] = HallCallAfter(c, pressed)
      BY <1>5 DEF NewHallOrder, TypeOK
    <2>2. pressed \in CallStage
      BY <1>1, PressedStageTyped
    <2>3. /\ pressed = "none" => hallCall[c] = "none" /\ (hall[n][c] # NoCall \/ ~quiet)
          /\ pressed \in {"open", "due"}
                => hallCall[c] \in {"open", "due"} \/ (hall[n][c] = NoCall /\ quiet)
      BY <1>1, SMT DEF CallStage, StagePressed
    <2>4. /\ hallCall'[c] = "none" <=> pressed = "none"
          /\ hallCall'[c] \in {"open", "due"} <=> pressed \in {"open", "due"}
      BY <2>1, <2>2, StageFacts
    <2>5. pressed # "none"
      BY <1>3, <2>3 DEF QuietHall, HallTracesIn
    <2>6. quiet => HallTracesIn(c, Uncompleted)
      BY DEF QuietHall, HallTracesIn, Uncompleted
    <2>7. hallCall'[c] \in {"open", "due"} => HallTracesIn(c, Uncompleted)
      BY <1>4, <2>3, <2>4, <2>6
    <2> QED
      BY <1>5, <2>4, <2>5, <2>7, PressTraces
  <1>6. ASSUME NEW n \in Node, OrderComplete(n, c), hall[n][c] = Acknowledged
        PROVE  hallCall'[c] \notin {"none", "open", "due"}
    <2>1. hallCall'[c] = StageServed(hallCall[c])
      BY <1>6 DEF OrderComplete
    <2>2. hallCall[c] # "none"
      BY <1>3, <1>6, StatesAreNumbers DEF HallTracesIn
    <2> QED
      BY <1>1, <2>1, <2>2, StageFacts
  <1>7. CASE /\ ~ \E n \in Node : NewHallOrder(n, c)
             /\ ~ \E n \in Node : OrderComplete(n, c) /\ hall[n][c] = Acknowledged
    <2>1. /\ hallCall'[c] = "none" <=> hallCall[c] = "none"
          /\ hallCall'[c] \in {"open", "due"} <=> hallCall[c] \in {"open", "due"}
      <3>1. HallCallAfter(c, hallCall[c]) \in CallStage
        BY <1>1, HallStageTyped
      <3> QED
        BY <1>1, <1>7, <3>1, StepStage, StageFacts
    <2>2. hallCall[c] = "none" => HallTracesIn(c, {NoCall})'
      BY <1>2, <1>3, <1>7, StepTraces
    <2>3. hallCall[c] \in {"open", "due"} => HallTracesIn(c, Uncompleted)'
      BY <1>2, <1>4, <1>7, StepTraces
    <2> QED
      BY <2>1, <2>2, <2>3 DEF QuietHall
  <1> QED
    BY <1>5, <1>6, <1>7

\* The invariant of hall calls is inductive.
LEMMA HallInvInductive == HallInv /\ [Next]_vars => HallInv'
  <1> SUFFICES ASSUME HallInv, [Next]_vars PROVE HallInv'
    OBVIOUS
  <1>1. TypeOK'
    BY NextTyped DEF HallInv
  <1>2. NoPhantomCall'
    BY HallCellStep DEF NoPhantomCall
  <1>3. NoEarlyCompletion'
    BY HallCellStep DEF NoEarlyCompletion, Unserved, Uncompleted
  <1> QED
    BY <1>1, <1>2, <1>3 DEF HallInv

\* The clusters start without a trace of any call.
LEMMA HallInvInitial == Init \/ SteadyInit => HallInv
  <1> SUFFICES ASSUME Init \/ SteadyInit PROVE HallInv
    OBVIOUS
  <1>1. TypeOK
    BY InitTyped, SteadyInitTyped
  <1>2. \A c \in HallCell : QuietHall(c)
    <2>1. \A n \in Node, c \in HallCell : hall[n][c] = NoCall
      BY DEF Init, SteadyInit, NoHall
    <2>2. \A n, m \in Node, c \in HallCell :
             peerWorldviews[n][m] # None => peerWorldviews[n][m].hall[c] = NoCall
      BY SMT DEF Init, SteadyInit, NoHall
    <2>3. \A n \in Node : 1 .. Len(inbox[n]) = {}
      <3>1. \A n \in Node : inbox[n] = <<>>
        BY DEF Init, SteadyInit
      <3>2. Len(<<>>) = 0 /\ 1 .. 0 = {}
        BY SMT
      <3> QED
        BY <3>1, <3>2
    <2> QED
      BY <2>1, <2>2, <2>3 DEF QuietHall, HallTracesIn
  <1>3. NoEarlyCompletion
    BY DEF Init, SteadyInit, NoEarlyCompletion, Unserved
  <1> QED
    BY <1>1, <1>2, <1>3 DEF HallInv, NoPhantomCall

\* Hence it holds in every reachable state.
LEMMA HallInvHolds == Spec \/ SteadySpec => []HallInv
  BY HallInvInitial, HallInvInductive, PTL DEF Spec, SteadySpec

\* In no state of any cluster does a node show, remember or receive a call that
\* nobody made, whatever is lost, delayed or crashes.
THEOREM PhantomFree == Spec \/ SteadySpec => []NoPhantomCall
  <1>1. HallInv => NoPhantomCall
    BY DEF HallInv
  <1> QED
    BY <1>1, HallInvHolds, PTL

\* No completion of a fresh call is ever made up by consensus or by a merge.
THEOREM CompletionOnlyByService == Spec \/ SteadySpec => []NoEarlyCompletion
  <1>1. HallInv => NoEarlyCompletion
    BY DEF HallInv
  <1> QED
    BY <1>1, HallInvHolds, PTL

\* One cell of one node, in a step that leaves its fresh call unserved.
KeptStep(n, c) ==
    Unserved(c) /\ Unserved(c)' /\ up[n] /\ up'[n] => hall'[n][c] >= hall[n][c]

\* No step of a running node takes an unserved call back.
LEMMA UnservedStep ==
    ASSUME HallInv, [Next]_vars, NEW n \in Node, NEW c \in HallCell
    PROVE  KeptStep(n, c)
  <1> SUFFICES ASSUME Unserved(c), Unserved(c)', up[n], up'[n]
               PROVE  hall'[n][c] >= hall[n][c]
    BY DEF KeptStep
  <1> USE DEF HallInv
  <1> DEFINE s == hall[n][c]
  <1>1. s \in OrderState /\ s # Complete /\ HallTracesIn(c, {NoCall, Exist, Acknowledged})
    <2>1. HallTracesIn(c, {NoCall, Exist, Acknowledged})
      BY Zenon DEF NoEarlyCompletion
    <2>2. s \in {NoCall, Exist, Acknowledged}
      BY <2>1, Zenon DEF HallTracesIn
    <2> QED
      BY <2>1, <2>2, StatesAreNumbers
  <1>2. hall'[n][c] = s => hall'[n][c] >= s
    BY <1>1, StatesAreNumbers, SMT
  <1>3. ASSUME NEW m \in Node, OraTick(m)
        PROVE  hall'[n][c] >= s
    <2>1. m = n => hall'[n][c] = ConsensusHall(n, s, peerWorldviews[n], alive[n], c)
      BY <1>3 DEF OraTick, ConsensusHalls, TypeOK
    <2>2. m # n => hall'[n][c] = s
      BY <1>3 DEF OraTick, TypeOK
    <2> QED
      BY <1>1, <1>2, <2>1, <2>2, ConsensusHallFacts
  <1>4. ASSUME NEW m \in Node, MergePeer(m)
        PROVE  hall'[n][c] >= s
    <2> DEFINE wv == Head(inbox[n])
    <2>1. m # n => hall'[n][c] = s
      BY <1>4 DEF MergePeer, TypeOK
    <2>2. CASE m = n
      <3>1. hall'[n][c] = MergeHall(n, s, wv.hall[c], Remember(n, wv), alive[n], c)
        BY <1>4, <2>2 DEF MergePeer, TypeOK
      <3>2. wv.hall[c] \in OrderState /\ wv.hall[c] # Complete
        <4>1. inbox[n] \in Seq(Worldview) /\ inbox[n] # <<>>
          BY <1>4, <2>2 DEF MergePeer, TypeOK
        <4>2. 1 \in 1 .. Len(inbox[n]) /\ wv = inbox[n][1]
          BY <4>1, SMT
        <4> QED
          BY <1>1, <4>2, StatesAreNumbers DEF HallTracesIn
      <3> QED
        BY <1>1, <3>1, <3>2, MergeHallFacts
    <2> QED
      BY <1>2, <2>1, <2>2
  <1>5. ASSUME NEW m \in Node, NEW d \in HallCell, NewHallOrder(m, d)
        PROVE  hall'[n][c] >= s
    <2>1. \/ hall'[n][c] = s
          \/ hall'[n][c] = PressHall(n, s, peerWorldviews[n], alive[n], c)
      BY <1>5 DEF NewHallOrder, TypeOK
    <2> QED
      BY <1>1, <1>2, <2>1, PressHallFacts
  <1>6. ASSUME NEW m \in Node, NEW d \in HallCell, OrderComplete(m, d)
        PROVE  hall'[n][c] >= s
    <2> DEFINE completed == [hall[m] EXCEPT ![d] = Serve(@)]
    <2>1. hall' = [hall EXCEPT ![m] = ConsensusHalls(m, completed)]
      BY <1>6 DEF OrderComplete
    <2>2. CASE m = n
      <3>1. hall[n] \in [HallCell -> OrderState]
        BY DEF TypeOK
      <3>2. completed[c] = s
        <4>1. CASE d = c
          <5>1. s # Acknowledged
            <6>1. s = Acknowledged => hallCall'[c] = StageServed(hallCall[c])
              BY <1>6, <2>2, <4>1 DEF OrderComplete
            <6>2. hallCall[c] \in CallStage
              BY DEF TypeOK
            <6> QED
              BY <6>1, <6>2, StageFacts DEF Unserved
          <5> QED
            BY <1>1, <2>2, <3>1, <4>1, <5>1, ServeFacts
        <4>2. CASE d # c
          BY <2>2, <3>1, <4>2
        <4> QED
          BY <4>1, <4>2
      <3>3. hall'[n][c] = ConsensusHall(n, completed[c], peerWorldviews[n], alive[n], c)
        BY <2>1, <2>2 DEF ConsensusHalls, TypeOK
      <3> HIDE DEF completed
      <3>4. hall'[n][c] = ConsensusHall(n, s, peerWorldviews[n], alive[n], c)
        BY <3>2, <3>3
      <3> QED
        BY <1>1, <3>4, ConsensusHallFacts
    <2>3. CASE m # n
      BY <1>2, <2>1, <2>3 DEF TypeOK
    <2> QED
      BY <2>2, <2>3
  <1>7. ASSUME NEW m \in Node, Crash(m)
        PROVE  hall'[n][c] >= s
    <2>1. m # n
      BY <1>7 DEF Crash, TypeOK
    <2> QED
      BY <1>2, <1>7, <2>1 DEF Crash, TypeOK
  <1>8. ASSUME hall' = hall
        PROVE  hall'[n][c] >= s
    BY <1>2, <1>8
  <1> QED
    BY <1>3, <1>4, <1>5, <1>6, <1>7, <1>8
       DEF Next, BroadcastTick, NewCabOrder, Malfunction, ElevState, UpdateAliveList,
           Restart, vars, om

\* A running node never steps back from a fresh call before some elevator serves
\* it, however stale or crossed the worldviews are that it merges.
THEOREM NothingForgotten == Spec \/ SteadySpec => UnservedCallKept
  <1>1. HallInv /\ [Next]_vars
           => [\A n \in Node, c \in HallCell :
                  Unserved(c) /\ Unserved(c)' /\ up[n] /\ up'[n]
                     => hall'[n][c] >= hall[n][c]]_vars
    BY UnservedStep DEF KeptStep
  <1> QED
    BY <1>1, HallInvHolds, PTL DEF Spec, SteadySpec, UnservedCallKept

-----------------------------------------------------------------------------
(* Cab calls.  An own cab request is raised from NoCall by a press or, as  *)
(* long as its floor is not known, by a recovery; both make it known, and  *)
(* only a crash makes it unknown again.                                    *)

RaisedRightly(n, f) ==
    LocalCab(n, f) = NoCall /\ LocalCab(n, f)' # NoCall
       => /\ cabCallKnown'[n][f]
          /\ ~cabCallKnown[n][f] \/ cabCall'[n][f] # "served"

KnownKept(n, f) ==
    cabCallKnown[n][f] => cabCallKnown'[n][f] \/ LocalCab(n, f)' = NoCall

\* What one step does to one cab request.
LEMMA CabStep ==
    ASSUME TypeOK, [Next]_vars, NEW n \in Node, NEW f \in Floor
    PROVE  RaisedRightly(n, f) /\ KnownKept(n, f)
  <1> DEFINE own == nodes[n][n].cab[f]
             own2 == nodes'[n][n].cab[f]
  <1> SUFFICES /\ own = NoCall /\ own2 # NoCall
                    => /\ cabCallKnown'[n][f]
                       /\ ~cabCallKnown[n][f] \/ cabCall'[n][f] # "served"
               /\ cabCallKnown[n][f] => cabCallKnown'[n][f] \/ own2 = NoCall
    BY DEF RaisedRightly, KnownKept, LocalCab
  <1>1. own \in OrderState /\ cabCallKnown[n][f] \in BOOLEAN
    BY SMT DEF TypeOK, NodeEntry
  <1>2. CASE own2 = own /\ cabCallKnown'[n][f] = cabCallKnown[n][f]
    BY <1>2
  <1>3. ASSUME NEW m \in Node, NEW cabs, m # n, SetOwnCabs(m, cabs)
        PROVE  own2 = own
    BY <1>3 DEF SetOwnCabs, TypeOK
  <1>4. ASSUME NEW cabs, SetOwnCabs(n, cabs)
        PROVE  own2 = cabs[f]
    <2>1. nodes'[n][n] = [cab |-> cabs, elev |-> nodes[n][n].elev]
      BY <1>4 DEF SetOwnCabs, TypeOK, NodeList
    <2> QED
      BY <2>1
  <1>5. ASSUME NEW m \in Node, NEW elev, SetOwnElevator(m, elev)
        PROVE  own2 = own
    <2>1. CASE m # n
      BY <1>5, <2>1 DEF SetOwnElevator, TypeOK
    <2>2. CASE m = n
      <3>1. nodes'[n][n] = [cab |-> nodes[n][n].cab, elev |-> elev]
        BY <1>5, <2>2 DEF SetOwnElevator, TypeOK, NodeList
      <3> QED
        BY <3>1
    <2> QED
      BY <2>1, <2>2
  <1>6. ASSUME NEW m \in Node, OraTick(m)
        PROVE  /\ own = NoCall => own2 = NoCall
               /\ cabCallKnown[n][f] => cabCallKnown'[n][f]
    <2> DEFINE cabs == ConsensusCabs(m, nodes[m][m].cab, peerWorldviews[m])
    <2>1. own = NoCall => own2 = NoCall
      <3>1. SetOwnCabs(m, cabs)
        BY <1>6 DEF OraTick
      <3>2. m = n => cabs[f] = ConsensusCab(n, own, peerWorldviews[n], alive[n], f)
        BY DEF ConsensusCabs
      <3> HIDE DEF cabs
      <3>3. m = n => own2 = ConsensusCab(n, own, peerWorldviews[n], alive[n], f)
        BY <1>4, <3>1, <3>2
      <3>4. m # n => own2 = own
        BY <1>3, <3>1
      <3> QED
        BY <1>1, <3>3, <3>4, ConsensusCabFacts
    <2>2. cabCallKnown[n][f] => cabCallKnown'[n][f]
      BY <1>6 DEF OraTick, TypeOK
    <2> QED
      BY <2>1, <2>2
  <1>7. ASSUME NEW m \in Node, MergePeer(m), m # n
        PROVE  own2 = own /\ cabCallKnown'[n][f] = cabCallKnown[n][f]
    BY <1>7 DEF MergePeer, TypeOK
  <1>8. ASSUME MergePeer(n)
        PROVE  /\ own = NoCall /\ own2 # NoCall => cabCallKnown'[n][f] /\ ~cabCallKnown[n][f]
               /\ cabCallKnown[n][f] => cabCallKnown'[n][f]
    <2> DEFINE wv == Head(inbox[n])
               stored == Remember(n, wv)
               recovered == RecoverCabs(n, wv)
               cabs == ConsensusCabs(n, recovered, stored)
    <2>1. wv \in Worldview
      BY <1>8, HeadTyped DEF MergePeer
    <2>2. recovered[f] \in OrderState
      BY <2>1, RecoverCabsTyped
    <2>3. own2 = cabs[f]
      <3>1. nodes' = [nodes EXCEPT ![n] = MergeNodes(n, wv, cabs)]
        BY <1>8 DEF MergePeer
      <3>2. MergeNodes(n, wv, cabs)[n] = [cab |-> cabs, elev |-> nodes[n][n].elev]
        BY DEF MergeNodes
      <3> HIDE DEF cabs, wv
      <3>3. nodes'[n][n] = [cab |-> cabs, elev |-> nodes[n][n].elev]
        BY <3>1, <3>2 DEF TypeOK
      <3> QED
        BY <3>3
    <2>4. own2 # NoCall => recovered[f] # NoCall
      <3>1. cabs[f] = ConsensusCab(n, recovered[f], stored, alive[n], f)
        BY DEF ConsensusCabs
      <3> HIDE DEF cabs, recovered, stored
      <3> QED
        BY <2>2, <2>3, <3>1, ConsensusCabFacts
    <2>5. /\ cabCallKnown[n][f] => cabCallKnown'[n][f]
          /\ recovered[f] # own => cabCallKnown'[n][f]
      <3>1. cabCallKnown'[n][f] = (\/ cabCallKnown[n][f]
                                  \/ recovered[f] # own
                                  \/ f \in CabsCleared(recovered, cabs))
        BY <1>8 DEF MergePeer, TypeOK
      <3> QED
        BY <3>1
    <2>6. recovered[f] # own => ~cabCallKnown[n][f]
      BY DEF RecoverCabs, RecoverCab, RecoversCab, LocalCab
    <2> HIDE DEF recovered
    <2> QED
      BY <2>4, <2>5, <2>6
  <1>9. ASSUME NEW m \in Node, NEW g \in Floor, NewCabOrder(m, g)
        PROVE  /\ own = NoCall /\ own2 # NoCall
                    => cabCallKnown'[n][f] /\ cabCall'[n][f] # "served"
               /\ cabCallKnown[n][f] => cabCallKnown'[n][f]
    <2> DEFINE cabs == [nodes[m][m].cab EXCEPT ![g] =
                          PressCab(m, @, peerWorldviews[m], alive[m], g)]
    <2>1. SetOwnCabs(m, cabs) /\ g \in Floor
      BY <1>9, ClusterAssumption DEF NewCabOrder
    <2>2. CASE m # n \/ g # f
      <3>1. own2 = own
        <4>1. CASE m # n
          <5> HIDE DEF cabs
          <5> QED
            BY <1>3, <2>1, <4>1
        <4>2. CASE m = n /\ g # f
          <5>1. nodes[n][n].cab \in [Floor -> OrderState]
            BY SMT DEF TypeOK, NodeEntry
          <5>2. cabs[f] = own
            BY <4>2, <5>1
          <5> HIDE DEF cabs
          <5> QED
            BY <1>4, <2>1, <4>2, <5>2
        <4> QED
          BY <2>2, <4>1, <4>2
      <3>2. cabCallKnown'[n][f] = cabCallKnown[n][f]
        BY <1>9, <2>2 DEF NewCabOrder, TypeOK
      <3> QED
        BY <3>1, <3>2
    <2>3. CASE m = n /\ g = f
      <3>1. cabCallKnown'[n][f] = (cabCallKnown[n][f] \/ ValidTransition(own, Exist))
        BY <1>9, <2>3 DEF NewCabOrder, TypeOK, LocalCab, PressKnown
      <3>2. own = NoCall => ValidTransition(own, Exist)
        BY StatesAreNumbers DEF ValidTransition
      <3>3. own = NoCall => cabCall'[n][f] # "served"
        <4>1. cabCall'[n][f] =
                CabCallAfter(n, f, StagePressed(cabCall[n][f], own, QuietCab(n, f)))
          BY <1>9, <2>3 DEF NewCabOrder, TypeOK, LocalCab
        <4>2. cabCall[n][f] \in CallStage
          BY DEF TypeOK
        <4>3. own = NoCall => StagePressed(cabCall[n][f], own, QuietCab(n, f)) # "served"
          BY <4>2, SMT DEF StagePressed, CallStage
        <4> QED
          BY <4>1, <4>3, SMT DEF CabCallAfter
      <3> QED
        BY <3>1, <3>2, <3>3
    <2> QED
      BY <2>2, <2>3
  <1>10. ASSUME NEW m \in Node, NEW c \in HallCell, OrderComplete(m, c)
         PROVE  /\ own = NoCall => own2 = NoCall
                /\ cabCallKnown[n][f] => cabCallKnown'[n][f]
    <2> DEFINE served == [nodes[m][m].cab EXCEPT ![c[1]] = Serve(@)]
               cabs == ConsensusCabs(m, served, peerWorldviews[m])
    <2>1. SetOwnCabs(m, cabs)
      BY <1>10 DEF OrderComplete
    <2>2. own = NoCall => own2 = NoCall
      <3>1. CASE m # n
        <4> HIDE DEF cabs
        <4> QED
          BY <1>3, <2>1, <3>1
      <3>2. CASE m = n
        <4>1. own = NoCall => served[f] = NoCall
          <5>1. nodes[n][n].cab \in [Floor -> OrderState]
            BY SMT DEF TypeOK, NodeEntry
          <5>2. own = NoCall => Serve(own) = NoCall
            BY <1>1, ServeFacts, StatesAreNumbers
          <5> QED
            BY <3>2, <5>1, <5>2
        <4>2. cabs[f] = ConsensusCab(n, served[f], peerWorldviews[n], alive[n], f)
          BY <3>2 DEF ConsensusCabs
        <4> HIDE DEF cabs, served
        <4>3. own2 = cabs[f]
          BY <1>4, <2>1, <3>2
        <4> QED
          BY <4>1, <4>2, <4>3, ConsensusCabFacts, StatesAreNumbers
      <3> QED
        BY <3>1, <3>2
    <2>3. cabCallKnown[n][f] => cabCallKnown'[n][f]
      BY <1>10 DEF OrderComplete, TypeOK
    <2> QED
      BY <2>2, <2>3
  <1>11. ASSUME NEW m \in Node, Crash(m)
         PROVE  \/ own2 = NoCall
                \/ own2 = own /\ cabCallKnown'[n][f] = cabCallKnown[n][f]
    <2>1. m = n => own2 = NoCall
      BY <1>11 DEF Crash, TypeOK, BootList, BootEntry
    <2>2. m # n => own2 = own /\ cabCallKnown'[n][f] = cabCallKnown[n][f]
      BY <1>11 DEF Crash, TypeOK
    <2> QED
      BY <2>1, <2>2
  <1>12. ASSUME NEW m \in Node,
                \/ \E flag : Malfunction(m, flag)
                \/ \E p, receivers : ElevState(m, p, receivers)
         PROVE  own2 = own /\ cabCallKnown'[n][f] = cabCallKnown[n][f]
    BY <1>5, <1>12 DEF Malfunction, ElevState
  <1>13. ASSUME UNCHANGED <<nodes, cabCallKnown>>
         PROVE  own2 = own /\ cabCallKnown'[n][f] = cabCallKnown[n][f]
    BY <1>13
  <1> HIDE DEF own, own2
  <1> QED
    BY <1>2, <1>6, <1>7, <1>8, <1>9, <1>10, <1>11, <1>12, <1>13
       DEF Next, BroadcastTick, NewHallOrder, UpdateAliveList, Restart, vars, om

CabInv == TypeOK /\ CabStateKnown

\* The invariant of cab calls is inductive.
LEMMA CabInvInductive == CabInv /\ [Next]_vars => CabInv'
  <1> SUFFICES ASSUME CabInv, [Next]_vars PROVE CabInv'
    OBVIOUS
  <1>1. TypeOK'
    BY NextTyped DEF CabInv
  <1>2. ASSUME NEW n \in Node, NEW f \in Floor, LocalCab(n, f)' # NoCall
        PROVE  cabCallKnown'[n][f]
    <2>1. RaisedRightly(n, f) /\ KnownKept(n, f)
      BY CabStep DEF CabInv
    <2>2. LocalCab(n, f) # NoCall => cabCallKnown[n][f]
      BY DEF CabInv, CabStateKnown
    <2> QED
      BY <1>2, <2>1, <2>2 DEF RaisedRightly, KnownKept
  <1> QED
    BY <1>1, <1>2 DEF CabInv, CabStateKnown

\* It holds at first.
LEMMA CabInvInitial == Init \/ SteadyInit => CabInv
  <1> SUFFICES ASSUME Init \/ SteadyInit PROVE CabInv
    OBVIOUS
  <1>1. \A n \in Node, f \in Floor : LocalCab(n, f) = NoCall
    BY SMT DEF Init, SteadyInit, BootList, BootEntry, LocalCab
  <1> QED
    BY <1>1, InitTyped, SteadyInitTyped DEF CabInv, CabStateKnown

\* A node never holds a cab call that a peer's copy could still overwrite.
THEOREM CabCallsKnown == Spec \/ SteadySpec => []CabStateKnown
  <1>1. CabInv => CabStateKnown
    BY DEF CabInv
  <1> QED
    BY <1>1, CabInvInitial, CabInvInductive, PTL DEF Spec, SteadySpec

\* A served cab call is not brought back by a peer's copy, whoever gossips it and
\* however late: only a press raises a known request again.
THEOREM CabNotResurrected == Spec \/ SteadySpec => NoCabResurrection
  <1>1. ASSUME TypeOK, [Next]_vars, NEW n \in Node, NEW f \in Floor,
               cabCall[n][f] = "served" /\ cabCall'[n][f] = "served",
               cabCallKnown[n][f], LocalCab(n, f) = NoCall
        PROVE  LocalCab(n, f)' = NoCall
    BY <1>1, CabStep DEF RaisedRightly
  <1>2. TypeOK /\ [Next]_vars
           => [\A n \in Node, f \in Floor :
                  (/\ cabCall[n][f] = "served" /\ cabCall'[n][f] = "served"
                   /\ cabCallKnown[n][f] /\ up[n] /\ up'[n]
                   /\ LocalCab(n, f) = NoCall)
                     => LocalCab(n, f)' = NoCall]_vars
    BY <1>1
  <1> QED
    BY <1>2, TypeCorrect, PTL DEF Spec, SteadySpec, NoCabResurrection

-----------------------------------------------------------------------------
(* Who runs, who is listed, and how often who has crashed. *)

Lists(n) == \E new \in Node \cup {None}, lost \in SUBSET Node : UpdateAliveList(n, new, lost)

\* Every running node lists every other; a node that does not run has crashed.
AllListed == \A n, m \in Node : up[n] /\ up[m] => alive[n][m] = "alive"
DeadHaveCrashed == \A n \in Node : ~up[n] => crashes[n] > 0

\* What the other steps leave alone.
LEMMA LifeStep ==
    ASSUME TypeOK, [Next]_vars
    PROVE  \/ UNCHANGED <<up, alive, crashes>>
           \/ \E n \in Node : Lists(n) \/ Crash(n) \/ Restart(n)
<1>1. ASSUME NEW n \in Node, OraTick(n) \/ MergePeer(n) PROVE UNCHANGED <<up, alive, crashes>>
  BY <1>1 DEF OraTick, MergePeer
<1>2. ASSUME NEW n \in Node, NEW d, NewHallOrder(n, d) \/ NewCabOrder(n, d) \/ OrderComplete(n, d)
      PROVE  UNCHANGED <<up, alive, crashes>>
  BY <1>2 DEF NewHallOrder, NewCabOrder, OrderComplete
<1>3. ASSUME NEW n \in Node, NEW x, NEW receivers,
             BroadcastTick(n, receivers) \/ Malfunction(n, x) \/ ElevState(n, x, receivers)
      PROVE  UNCHANGED <<up, alive, crashes>>
  BY <1>3 DEF BroadcastTick, Malfunction, ElevState
<1>4. CASE UNCHANGED vars
  BY <1>4 DEF vars
<1> QED BY <1>1, <1>2, <1>3, <1>4 DEF Next, Lists

\* Until a crashed node is started again everybody who runs is listed as alive, if
\* no running node is reported lost and each node crashes at most once.
LEMMA LifeKept ==
    ASSUME ~FalseTimeouts, MaxCrashes <= 1, TypeOK, [Next]_vars,
           DeadHaveCrashed, NoneRestarted => AllListed
    PROVE  /\ DeadHaveCrashed'
           /\ NoneRestarted' => /\ NoneRestarted /\ AllListed'
                                /\ \A n \in Node : up'[n] => up[n]
<1>1. DeadHaveCrashed'
  <2> SUFFICES ASSUME NEW n \in Node, ~up'[n] PROVE crashes'[n] > 0
    BY DEF DeadHaveCrashed
  <2>1. crashes[n] \in Nat /\ (~up[n] => crashes[n] > 0)
    BY DEF TypeOK, DeadHaveCrashed
  <2>2. CASE UNCHANGED <<up, alive, crashes>>
    BY <2>1, <2>2
  <2>3. ASSUME NEW a \in Node, Lists(a) \/ Restart(a) PROVE crashes'[n] > 0
    <3>1. crashes' = crashes /\ ~up[n]
      BY <2>3 DEF Lists, UpdateAliveList, Restart, TypeOK
    <3> QED BY <2>1, <3>1
  <2>4. ASSUME NEW a \in Node, Crash(a) PROVE crashes'[n] > 0
    <3>1. /\ crashes \in [Node -> Nat] /\ crashes' = [crashes EXCEPT ![a] = @ + 1]
          /\ up \in [Node -> BOOLEAN] /\ up' = [up EXCEPT ![a] = FALSE]
      BY <2>4 DEF Crash, TypeOK
    <3> QED BY <2>1, <3>1
  <2> QED BY <2>2, <2>3, <2>4, LifeStep
<1>2. ASSUME NoneRestarted'
      PROVE  (\A n \in Node : up'[n] => up[n]) /\ NoneRestarted /\ AllListed'
  <2>1. AllListed => \A n, m \in Node : up[n] /\ up[m] => alive[n][m] = "alive"
    BY DEF AllListed
  <2>2. NoneRestarted => AllListed
    OBVIOUS
  <2>3. CASE UNCHANGED <<up, alive, crashes>>
    BY <1>2, <2>2, <2>3 DEF NoneRestarted, AllListed
  <2>4. ASSUME NEW a \in Node, Lists(a) PROVE (\A n \in Node : up'[n] => up[n]) /\ NoneRestarted /\ AllListed'
    <3>1. PICK new \in Node \cup {None}, lost \in SUBSET Node : UpdateAliveList(a, new, lost)
      BY <2>4 DEF Lists
    <3>2. up' = up /\ crashes' = crashes /\ \A m \in lost : ~up[m]
      BY <3>1 DEF UpdateAliveList
    <3>3. NoneRestarted
      BY <1>2, <3>2 DEF NoneRestarted
    <3>4. ASSUME NEW n \in Node, NEW m \in Node, up[n], up[m] PROVE alive'[n][m] = "alive"
      BY <2>1, <2>2, <3>1, <3>2, <3>3, <3>4 DEF UpdateAliveList, TypeOK
    <3> QED BY <3>2, <3>3, <3>4 DEF AllListed
  <2>5. ASSUME NEW a \in Node, Crash(a) PROVE (\A n \in Node : up'[n] => up[n]) /\ NoneRestarted /\ AllListed'
    <3>1. /\ ~up'[a] /\ \A n \in Node : n # a => /\ up'[n] = up[n] /\ alive'[n] = alive[n]
                                                /\ crashes'[n] = crashes[n]
      BY <2>5 DEF Crash, TypeOK
    <3>2. crashes[a] = 0
      <4>1. crashes[a] \in Nat /\ crashes[a] < MaxCrashes /\ MaxCrashes \in Nat
        BY <2>5, ClusterAssumption DEF Crash, TypeOK
      <4> QED BY <4>1
    <3>3. NoneRestarted
      BY <1>2, <3>1, <3>2 DEF NoneRestarted
    <3> QED BY <2>1, <2>2, <3>1, <3>3 DEF AllListed
  <2>6. ASSUME NEW a \in Node, Restart(a) PROVE FALSE
    <3>1. up'[a] /\ crashes'[a] = crashes[a] /\ crashes[a] > 0 /\ crashes[a] \in Nat
      BY <2>6 DEF Restart, TypeOK, DeadHaveCrashed
    <3> QED BY <1>2, <3>1 DEF NoneRestarted
  <2> QED BY <2>3, <2>4, <2>5, <2>6, LifeStep
<1> QED BY <1>1, <1>2

-----------------------------------------------------------------------------
(* The copy of a cab call: two elevators n and m, and a floor f of n. *)

\* The cab request for f that a node list shows of n.
Listed(list, n, f) == IF list[n] = None THEN NoCall ELSE list[n].cab[f]

\* What m has of it, what n has last read of that in a worldview of m, and what
\* the i-th frame on its way to a shows.
Copy(n, m, f) == Listed(nodes[m], n, f)
Answered(stored, f) ==
    IF stored = None THEN NoCall ELSE IF stored.cab = None THEN NoCall ELSE stored.cab[f]
Answer(n, m, f) == Answered(peerWorldviews[n][m], f)
Shows(a, i, n, f) == Listed(inbox[a][i].list, n, f)

\* A merge writes the list of a: its own entry, and the others as the frame has them.
NodesMerge(a, wv, cabs) == nodes' = [nodes EXCEPT ![a] = MergeNodes(a, wv, cabs)]

\* All of these are order states.
LEMMA CabNumbers ==
    ASSUME TypeOK, NEW n \in Node, NEW m \in Node, NEW f \in Floor
    PROVE  /\ LocalCab(n, f) \in OrderState /\ Copy(n, m, f) \in OrderState
           /\ Answer(n, m, f) \in OrderState
           /\ \A a \in Node : \A i \in 1 .. Len(inbox[a]) : Shows(a, i, n, f) \in OrderState
<1>1. LocalCab(n, f) \in OrderState
  BY DEF TypeOK, NodeEntry, LocalCab
<1>2. \A list \in NodeList : Listed(list, n, f) \in OrderState
  BY StatesAreNumbers DEF NodeList, NodeEntry, Listed
<1>3. Answer(n, m, f) \in OrderState
  <2>1. peerWorldviews[n][m] \in StoredWorldview \cup {None}
    BY DEF TypeOK
  <2> QED BY <2>1, StatesAreNumbers DEF StoredWorldview, Answer, Answered
<1>4. \A a \in Node : \A i \in 1 .. Len(inbox[a]) : inbox[a][i].list \in NodeList
  <2> SUFFICES ASSUME NEW a \in Node, NEW i \in 1 .. Len(inbox[a])
               PROVE  inbox[a][i].list \in NodeList
    OBVIOUS
  <2>1. inbox[a] \in Seq(Worldview)
    BY DEF TypeOK
  <2>2. inbox[a][i] \in Worldview
    BY <2>1
  <2> QED BY <2>2 DEF Worldview
<1>5. Copy(n, m, f) \in OrderState
  BY <1>2 DEF TypeOK, Copy
<1> QED BY <1>1, <1>2, <1>3, <1>4, <1>5 DEF Shows

\* An elevator that counts m alive acknowledges a cab request only with an answer
\* of m that shows it (allAliveCab, ordermanagerHelpers.go).
LEMMA CabAnswered ==
    ASSUME NEW n \in Node, NEW m \in Node \ {n}, NEW s \in {NoCall, Exist, Acknowledged},
           NEW stored, NEW live, live[m] = "alive", NEW f
    PROVE  /\ LET r == ConsensusCab(n, s, stored, live, f)
              IN  r = s \/ (s = Exist /\ r = Acknowledged /\ Answered(stored[m], f) >= Exist)
           /\ LET r == PressCab(n, s, stored, live, f)
              IN  \/ r = s \/ (s = NoCall /\ r = Exist)
                  \/ s \in {NoCall, Exist} /\ r = Acknowledged /\ Answered(stored[m], f) >= Exist
<1>1. \A x : AllAliveCabAtOrAbove(n, x, stored, live, f, Exist) => Answered(stored[m], f) >= Exist
  BY DEF AllAliveCabAtOrAbove, Answered
<1>2. \A x \in {NoCall, Exist, Acknowledged} :
         LET r == AcknowledgeCab(n, x, stored, live, f)
         IN  r = x \/ (x = Exist /\ r = Acknowledged /\ Answered(stored[m], f) >= Exist)
  BY <1>1, StatesAreNumbers DEF AcknowledgeCab, Advance, ValidTransition
<1>3. \A x \in {NoCall, Exist, Acknowledged} : ClearCab(n, x, stored, live, f) = x
  BY StatesAreNumbers DEF ClearCab
<1>4. Press(s) \in {NoCall, Exist, Acknowledged} /\ (Press(s) = s \/ (s = NoCall /\ Press(s) = Exist))
  BY StatesAreNumbers DEF Press, ValidTransition
<1> QED BY <1>2, <1>3, <1>4, StatesAreNumbers DEF ConsensusCab, PressCab

\* After a merge the frames that are left have moved up by one.
InboxRead(a) == inbox[a] # <<>> /\ inbox' = [inbox EXCEPT ![a] = Tail(@)]

LEMMA FramesRead ==
    ASSUME TypeOK, NEW a \in Node, InboxRead(a)
    PROVE  /\ Len(inbox[a]) \in Nat /\ Len(inbox[a]) > 0 /\ Len(inbox'[a]) = Len(inbox[a]) - 1
           /\ Head(inbox[a]) = inbox[a][1]
           /\ \A i \in 1 .. Len(inbox'[a]) : inbox'[a][i] = inbox[a][i + 1]
           /\ \A r \in Node \ {a} : inbox'[r] = inbox[r]
<1>1. inbox[a] \in Seq(Worldview) /\ inbox'[a] = Tail(inbox[a]) /\ \A r \in Node \ {a} : inbox'[r] = inbox[r]
  BY DEF TypeOK, InboxRead
<1>2. /\ Len(inbox[a]) \in Nat /\ Len(inbox[a]) > 0
      /\ Head(inbox[a]) = inbox[a][1]
  BY <1>1, SMT DEF InboxRead
<1>3. /\ Len(inbox'[a]) = Len(inbox[a]) - 1
      /\ \A i \in 1 .. Len(inbox'[a]) : inbox'[a][i] = inbox[a][i + 1]
  <2>1. \A q \in Seq(Worldview) : q # <<>> =>
           /\ Len(Tail(q)) = Len(q) - 1
           /\ \A i \in 1 .. Len(Tail(q)) : Tail(q)[i] = q[i + 1]
    BY HeadTailProperties
  <2> QED BY <1>1, <2>1, Zenon DEF InboxRead
<1> QED BY <1>1, <1>2, <1>3

-----------------------------------------------------------------------------
(* The traces of a cab call among any number of elevators: the request     *)
(* itself, what the node lists of the others show of it, what the node has *)
(* read of that, and the frames on their way.  The closed sets of the hall *)
(* calls are closed here too.                                              *)

CabTracesIn(n, f, S) ==
    /\ \A m \in Node : Copy(n, m, f) \in S
    /\ \A m \in Node : Answer(n, m, f) \in S
    /\ \A m \in Node : \A i \in 1 .. Len(inbox[m]) : Shows(m, i, n, f) \in S

\* No elevator lists, remembers or is sent a cab call that nobody has made.
NoPhantomCab == \A n \in Node, f \in Floor : cabCall[n][f] = "none" => QuietCab(n, f)

\* As long as a fresh cab call is not served, nothing anywhere says Complete for it.
NoEarlyCab ==
    \A n \in Node, f \in Floor :
        cabCall[n][f] \in {"open", "due"} => CabTracesIn(n, f, Uncompleted)

\* A node that has never crashed and does not know the state of one of its cab
\* requests has never had one there, so there is nothing a peer could give back.
NothingToRecover ==
    \A n \in Node, f \in Floor :
        crashes[n] = 0 /\ ~cabCallKnown[n][f] => CabTracesIn(n, f, {NoCall})

CabTraceInv == TypeOK /\ NoPhantomCab /\ NoEarlyCab /\ NothingToRecover

\* Nothing is left of a cab call exactly if all its traces say NoCall.
LEMMA QuietIsTraceless ==
    ASSUME NEW n \in Node, NEW f \in Floor
    PROVE  QuietCab(n, f) <=> CabTracesIn(n, f, {NoCall})
  <1>1. (\A m \in Node : nodes[m][n] # None => nodes[m][n].cab[f] = NoCall)
           <=> (\A m \in Node : Copy(n, m, f) \in {NoCall})
    BY DEF Copy, Listed
  <1>2. (\A m \in Node : peerWorldviews[n][m] # None /\ peerWorldviews[n][m].cab # None
                            => peerWorldviews[n][m].cab[f] = NoCall)
           <=> (\A m \in Node : Answer(n, m, f) \in {NoCall})
    BY DEF Answer, Answered
  <1>3. (\A m \in Node : \A i \in 1 .. Len(inbox[m]) :
            inbox[m][i].list[n] # None => inbox[m][i].list[n].cab[f] = NoCall)
           <=> (\A m \in Node : \A i \in 1 .. Len(inbox[m]) : Shows(m, i, n, f) \in {NoCall})
    BY DEF Shows, Listed
  <1> QED
    BY <1>1, <1>2, <1>3 DEF QuietCab, CabTracesIn

LEMMA QuietStaysTraceless ==
    (\A n \in Node, f \in Floor : QuietCab(n, f) <=> CabTracesIn(n, f, {NoCall}))'
  <1>1. \A n \in Node, f \in Floor : QuietCab(n, f) <=> CabTracesIn(n, f, {NoCall})
    BY QuietIsTraceless
  <1> QED
    BY <1>1, PTL

\* The own entry is always there, so the copy a node has of its own request is it.
LEMMA OwnCopy ==
    ASSUME TypeOK, NEW n \in Node, NEW f \in Floor
    PROVE  Copy(n, n, f) = LocalCab(n, f) /\ LocalCab(n, f) \in OrderState
  <1>1. nodes[n][n] # None /\ nodes[n][n] \in NodeEntry
    BY NodeAssumption DEF TypeOK
  <1> QED
    BY <1>1 DEF Copy, Listed, LocalCab, NodeEntry

\* Neither consensus, a recovery nor a press moves a cab request back or completes it.
LEMMA CabGrows ==
    ASSUME NEW s \in OrderState, s # Complete, NEW self, NEW stored, NEW live, NEW f
    PROVE  /\ ConsensusCab(self, s, stored, live, f) >= s
           /\ ConsensusCab(self, s, stored, live, f) # Complete
           /\ PressCab(self, s, stored, live, f) >= s
           /\ PressCab(self, s, stored, live, f) # Complete
  BY StatesAreNumbers, SMT
     DEF ConsensusCab, ClearCab, PressCab, Press, AcknowledgeCab, Advance, ValidTransition

\* Consensus and a recovery from a copy keep a cab request in a closed set.
LEMMA CabClosedFacts ==
    ASSUME NEW S \in Closed, NEW s \in S, NEW copy \in S,
           NEW self, NEW stored, NEW live, NEW known, NEW f
    PROVE  /\ s \in OrderState /\ NoCall \in S
           /\ ConsensusCab(self, s, stored, live, f) \in S
           /\ RecoverCab(known, s, copy) \in S
  <1>1. (S = {0} \/ S = {0, 1, 2}) /\ NoCall \in S
    BY StatesAreNumbers DEF Closed, Uncompleted
  <1>2. s \in OrderState /\ s # Complete
    BY <1>1, StatesAreNumbers
  <1>3. ConsensusCab(self, s, stored, live, f) \in S
    <2> DEFINE r == ConsensusCab(self, s, stored, live, f)
    <2>1. r \in OrderState /\ (s = NoCall => r = NoCall) /\ r # Complete
      BY <1>2, ConsensusCabFacts, CabGrows
    <2> HIDE DEF r
    <2>2. r \in S
      BY <1>1, <2>1, StatesAreNumbers
    <2> QED
      BY <2>2 DEF r
  <1> QED
    BY <1>1, <1>2, <1>3 DEF RecoverCab

\* What the three ways of writing a node list do to the copies of a cab request: the
\* own requests, the own report, and a merged worldview.
LEMMA CopiesOwn ==
    ASSUME TypeOK, TypeOK', NEW a \in Node, NEW cabs, SetOwnCabs(a, cabs),
           NEW n \in Node, NEW f \in Floor, NEW m \in Node
    PROVE  Copy(n, m, f)' = IF m = n /\ a = n THEN cabs[f] ELSE Copy(n, m, f)
  <1>1. nodes \in [Node -> NodeList] /\ nodes[m] \in [Node -> NodeEntry \cup {None}]
    BY DEF TypeOK, NodeList
  <1>2. CASE m = n /\ a = n
    <2>1. nodes'[m][n] = [cab |-> cabs, elev |-> nodes[n][n].elev]
      BY <1>1, <1>2 DEF SetOwnCabs
    <2>2. nodes'[m][n] # None
      BY <1>2, NodeAssumption DEF TypeOK
    <2> QED
      BY <1>2, <2>1, <2>2 DEF Copy, Listed
  <1>3. CASE ~(m = n /\ a = n)
    <2>1. nodes'[m][n] = nodes[m][n]
      BY <1>1, <1>3 DEF SetOwnCabs
    <2> QED
      BY <1>3, <2>1 DEF Copy, Listed
  <1> QED
    BY <1>2, <1>3

LEMMA CopiesReported ==
    ASSUME TypeOK, TypeOK', NEW a \in Node, NEW elev, SetOwnElevator(a, elev),
           NEW n \in Node, NEW f \in Floor, NEW m \in Node
    PROVE  Copy(n, m, f)' = Copy(n, m, f)
  <1>1. nodes \in [Node -> NodeList] /\ nodes[m] \in [Node -> NodeEntry \cup {None}]
    BY DEF TypeOK, NodeList
  <1>2. CASE m = n /\ a = n
    <2>1. nodes'[m][n] = [cab |-> nodes[m][n].cab, elev |-> elev]
      BY <1>1, <1>2 DEF SetOwnElevator
    <2>2. nodes'[m][n] # None /\ nodes[m][n] # None
      BY <1>2, NodeAssumption DEF TypeOK
    <2> QED
      BY <2>1, <2>2 DEF Copy, Listed
  <1>3. CASE ~(m = n /\ a = n)
    <2>1. nodes'[m][n] = nodes[m][n]
      BY <1>1, <1>3 DEF SetOwnElevator
    <2> QED
      BY <2>1 DEF Copy, Listed
  <1> QED
    BY <1>2, <1>3

LEMMA CopiesMerged ==
    ASSUME TypeOK, TypeOK', NEW a \in Node, NEW wv \in Worldview, NEW cabs,
           NodesMerge(a, wv, cabs), NEW n \in Node, NEW f \in Floor, NEW m \in Node
    PROVE  Copy(n, m, f)' = IF m = a /\ a = n THEN cabs[f]
                            ELSE IF m = a /\ wv.list[n] # None THEN Listed(wv.list, n, f)
                            ELSE Copy(n, m, f)
  <1>1. nodes'[m] = IF m = a THEN MergeNodes(a, wv, cabs) ELSE nodes[m]
    BY DEF NodesMerge, TypeOK
  <1>2. MergeNodes(a, wv, cabs)[n] =
           IF n = a THEN [cab |-> cabs, elev |-> nodes[a][a].elev]
           ELSE IF wv.list[n] # None THEN wv.list[n] ELSE nodes[a][n]
    BY DEF MergeNodes
  <1>3. CASE m = a /\ a = n
    <2>1. nodes'[m][n] = [cab |-> cabs, elev |-> nodes[a][a].elev]
      BY <1>1, <1>2, <1>3
    <2>2. nodes'[m][n] # None
      BY <1>3, NodeAssumption DEF TypeOK
    <2> QED
      BY <1>3, <2>1, <2>2 DEF Copy, Listed
  <1>4. CASE m = a /\ a # n
    BY <1>1, <1>2, <1>4 DEF Copy, Listed
  <1>5. CASE m # a
    BY <1>1, <1>5 DEF Copy, Listed
  <1> QED
    BY <1>3, <1>4, <1>5

\* A write of node a to its own cab requests leaves the traces of a request in S, if
\* what it writes there is.
LEMMA OwnTraces ==
    ASSUME TypeOK, TypeOK', NEW n \in Node, NEW f \in Floor, NEW S, CabTracesIn(n, f, S),
           NEW a \in Node, NEW cabs, SetOwnCabs(a, cabs), a = n => cabs[f] \in S,
           UNCHANGED <<peerWorldviews, inbox>>
    PROVE  CabTracesIn(n, f, S)'
  <1>1. \A m \in Node : Copy(n, m, f)' \in S
    BY CopiesOwn DEF CabTracesIn
  <1> QED
    BY <1>1 DEF CabTracesIn, Answer, Shows

\* A broadcast of node a spreads only what a lists.
LEMMA SentTraces ==
    ASSUME TypeOK, NEW n \in Node, NEW f \in Floor, NEW S, CabTracesIn(n, f, S),
           NEW wv \in Worldview, Listed(wv.list, n, f) \in S, NEW receivers,
           Broadcast(wv, receivers), UNCHANGED peerWorldviews,
           \A m \in Node : Copy(n, m, f)' = Copy(n, m, f)
    PROVE  CabTracesIn(n, f, S)'
  <1>1. ASSUME NEW m \in Node, NEW i \in 1 .. Len(inbox'[m])
        PROVE  Listed(inbox'[m][i].list, n, f) \in S
    <2>1. inbox[m] \in Seq(Worldview)
      BY DEF TypeOK
    <2>2. inbox'[m] \in {inbox[m], Append(inbox[m], wv)}
      BY DEF Broadcast
    <2>3. inbox'[m][i] = wv \/ (i \in 1 .. Len(inbox[m]) /\ inbox'[m][i] = inbox[m][i])
      BY <2>1, <2>2, SMT
    <2> QED
      BY <2>3 DEF CabTracesIn, Shows
  <1> QED
    BY <1>1 DEF CabTracesIn, Answer, Shows

\* A merge leaves the traces of a cab request in a closed set.
LEMMA MergedTraces ==
    ASSUME TypeOK, TypeOK', NEW n \in Node, NEW f \in Floor, NEW S \in Closed,
           CabTracesIn(n, f, S), NEW a \in Node, MergePeer(a)
    PROVE  CabTracesIn(n, f, S)'
  <1>1. PICK wv, cabs :
           /\ wv = Head(inbox[a])
           /\ cabs = ConsensusCabs(a, RecoverCabs(a, wv), Remember(a, wv))
           /\ NodesMerge(a, wv, cabs)
    BY DEF MergePeer, NodesMerge
  <1>2. /\ inbox[a] \in Seq(Worldview) /\ inbox[a] # <<>> /\ wv \in Worldview
        /\ 1 \in 1 .. Len(inbox[a]) /\ wv = inbox[a][1]
    <2>1. inbox[a] \in Seq(Worldview) /\ inbox[a] # <<>> /\ wv \in Worldview
      BY <1>1, HeadTyped DEF MergePeer, TypeOK
    <2> QED
      BY <1>1, <2>1, SMT
  <1>3. Listed(wv.list, n, f) \in S /\ LocalCab(n, f) \in S /\ NoCall \in S
    BY <1>2, OwnCopy DEF CabTracesIn, Shows, Closed, Uncompleted
  <1>4. a = n => cabs[f] \in S
    <2>1. RecoverCabs(n, wv)[f] \in S
      <3>1. RecoverCab(cabCallKnown[n][f], LocalCab(n, f), Listed(wv.list, n, f)) \in S
        BY <1>3, CabClosedFacts
      <3> QED
        BY <1>3, <3>1 DEF RecoverCabs, Listed
    <2>2. a = n => cabs[f] = ConsensusCab(n, RecoverCabs(n, wv)[f], Remember(n, wv), alive[n], f)
      BY <1>1 DEF ConsensusCabs
    <2> QED
      BY <2>1, <2>2, CabClosedFacts
  <1>5. \A m \in Node : Copy(n, m, f)' \in S
    BY <1>1, <1>2, <1>3, <1>4, CopiesMerged DEF CabTracesIn
  <1>6. \A m \in Node : Answer(n, m, f)' \in S
    <2> SUFFICES ASSUME NEW m \in Node PROVE Answered(peerWorldviews'[n][m], f) \in S
      BY DEF Answer
    <2>1. peerWorldviews' = [peerWorldviews EXCEPT ![a] = Remember(a, wv)]
      BY <1>1 DEF MergePeer
    <2>2. CASE peerWorldviews'[n][m] = peerWorldviews[n][m]
      BY <2>2 DEF CabTracesIn, Answer
    <2>3. CASE peerWorldviews'[n][m] # peerWorldviews[n][m]
      <3>1. a = n /\ peerWorldviews'[n][m] = Remember(n, wv)[m]
        BY <2>1, <2>3 DEF TypeOK
      <3>2. peerWorldviews[n] \in [Node -> StoredWorldview \cup {None}]
        BY DEF TypeOK
      <3> DEFINE entry == [hall |-> wv.hall,
                           cab  |-> IF wv.list[n] = None THEN None ELSE wv.list[n].cab]
      <3>3. Remember(n, wv)[m] \in {peerWorldviews[n][m], entry}
        BY <3>2 DEF Remember
      <3>4. Answered(entry, f) \in S
        BY <1>3 DEF Answered, Listed
      <3> HIDE DEF entry
      <3> QED
        BY <2>3, <3>1, <3>3, <3>4
    <2> QED
      BY <2>2, <2>3
  <1>7. ASSUME NEW m \in Node, NEW i \in 1 .. Len(inbox'[m])
        PROVE  Listed(inbox'[m][i].list, n, f) \in S
    <2>1. inbox'[m] = IF m = a THEN Tail(inbox[a]) ELSE inbox[m]
      BY <1>3 DEF MergePeer, TypeOK
    <2>2. \E j \in 1 .. Len(inbox[m]) : inbox'[m][i] = inbox[m][j]
      <3>1. CASE m = a
        <4>1. i + 1 \in 1 .. Len(inbox[m]) /\ inbox'[m][i] = inbox[m][i + 1]
          BY <1>2, <2>1, <3>1, SMT
        <4> QED
          BY <4>1
      <3>2. CASE m # a
        BY <2>1, <3>2
      <3> QED
        BY <3>1, <3>2
    <2> QED
      BY <2>2 DEF CabTracesIn, Shows
  <1> QED
    BY <1>5, <1>6, <1>7 DEF CabTracesIn, Shows

\* A crash leaves no new trace.
LEMMA CrashedTraces ==
    ASSUME TypeOK, NEW n \in Node, NEW f \in Floor, NEW S \in Closed,
           CabTracesIn(n, f, S), NEW a \in Node, Crash(a)
    PROVE  CabTracesIn(n, f, S)'
  <1>1. NoCall \in S
    BY DEF Closed, Uncompleted
  <1>2. Listed(BootList(a), n, f) = NoCall
    BY DEF BootList, BootEntry, Listed
  <1>3. \A m \in Node : nodes'[m] = IF m = a THEN BootList(a) ELSE nodes[m]
    BY DEF Crash, TypeOK
  <1>4. \A m \in Node : Copy(n, m, f)' \in S
    BY <1>1, <1>2, <1>3 DEF CabTracesIn, Copy
  <1>5. \A m \in Node : Answer(n, m, f)' \in S
    <2>1. \A m \in Node : peerWorldviews'[n][m] \in {None, peerWorldviews[n][m]}
      BY DEF Crash, TypeOK
    <2>2. Answered(None, f) = NoCall
      BY DEF Answered
    <2> QED
      BY <1>1, <2>1, <2>2 DEF CabTracesIn, Answer
  <1>6. ASSUME NEW m \in Node, NEW i \in 1 .. Len(inbox'[m])
        PROVE  Listed(inbox'[m][i].list, n, f) \in S
    <2>1. CASE m = a
      <3>1. inbox'[m] = <<>>
        BY <2>1 DEF Crash, TypeOK
      <3> QED
        BY <3>1, SMT
    <2>2. CASE m # a
      <3>1. inbox'[m] = inbox[m]
        BY <2>2 DEF Crash, TypeOK
      <3> QED
        BY <3>1 DEF CabTracesIn, Shows
    <2> QED
      BY <2>1, <2>2
  <1> QED
    BY <1>4, <1>5, <1>6 DEF CabTracesIn, Shows

\* The completions that serve the cab call of n for f.
Fulfils(n, f) == \E c \in HallCell : c[1] = f /\ OrderComplete(n, c) /\ LocalCab(n, f) = Acknowledged
Calls(n, f) == NewCabOrder(n, f)

\* Only a press or a completion of the cab call itself takes its traces out of a
\* closed set.
LEMMA StepCabTraces ==
    ASSUME TypeOK, [Next]_vars, NEW n \in Node, NEW f \in Floor, NEW S \in Closed,
           CabTracesIn(n, f, S)
    PROVE  CabTracesIn(n, f, S)' \/ Calls(n, f) \/ Fulfils(n, f)
  <1>1. TypeOK'
    BY NextTyped
  <1>2. LocalCab(n, f) \in S /\ \A a \in Node : Listed(nodes[a], n, f) \in S
    BY OwnCopy DEF CabTracesIn, Copy
  <1>3. nodes[n][n].cab \in [Floor -> OrderState]
    BY DEF TypeOK, NodeEntry
  <1>4. \A b : b[f] \in S => ConsensusCabs(n, b, peerWorldviews[n])[f] \in S
    BY CabClosedFacts DEF ConsensusCabs
  <1>5. UNCHANGED <<nodes, peerWorldviews, inbox>> => CabTracesIn(n, f, S)'
    BY DEF CabTracesIn, Copy, Answer, Shows
  <1>6. ASSUME NEW a \in Node, NEW receivers, BroadcastTick(a, receivers)
        PROVE  CabTracesIn(n, f, S)'
    <2>1. LocalWv(a) \in Worldview /\ LocalWv(a).list = nodes[a]
      BY LocalWvTyped DEF LocalWv
    <2>2. \A m \in Node : Copy(n, m, f)' = Copy(n, m, f)
      BY <1>6 DEF BroadcastTick, om, Copy
    <2> QED
      BY <1>2, <1>6, <2>1, <2>2, SentTraces DEF BroadcastTick, om
  <1>7. ASSUME NEW a \in Node, OraTick(a)
        PROVE  CabTracesIn(n, f, S)'
    <2> DEFINE cabs == ConsensusCabs(a, nodes[a][a].cab, peerWorldviews[a])
    <2>1. SetOwnCabs(a, cabs) /\ UNCHANGED <<peerWorldviews, inbox>>
      BY <1>7 DEF OraTick
    <2>2. a = n => cabs[f] \in S
      BY <1>2, <1>4 DEF LocalCab
    <2> HIDE DEF cabs
    <2> QED
      BY <1>1, <2>1, <2>2, OwnTraces
  <1>8. ASSUME NEW a \in Node, NEW g \in Floor, NewCabOrder(a, g), ~Calls(n, f)
        PROVE  CabTracesIn(n, f, S)'
    <2> DEFINE cabs == [nodes[a][a].cab EXCEPT ![g] =
                           PressCab(a, @, peerWorldviews[a], alive[a], g)]
    <2>1. SetOwnCabs(a, cabs) /\ UNCHANGED <<peerWorldviews, inbox>>
      BY <1>8 DEF NewCabOrder
    <2>2. a = n => g # f /\ cabs[f] \in S
      BY <1>2, <1>3, <1>8 DEF LocalCab, Calls
    <2> HIDE DEF cabs
    <2> QED
      BY <1>1, <2>1, <2>2, OwnTraces
  <1>9. ASSUME NEW a \in Node, NEW c \in HallCell, OrderComplete(a, c), ~Fulfils(n, f)
        PROVE  CabTracesIn(n, f, S)'
    <2> DEFINE served == [nodes[a][a].cab EXCEPT ![c[1]] = Serve(@)]
               cabs == ConsensusCabs(a, served, peerWorldviews[a])
    <2>1. SetOwnCabs(a, cabs) /\ UNCHANGED <<peerWorldviews, inbox>>
      BY <1>9 DEF OrderComplete
    <2>2. a = n => served[f] = LocalCab(n, f)
      <3>1. a = n /\ c[1] = f => Serve(LocalCab(n, f)) = LocalCab(n, f)
        BY <1>9, OwnCopy, ServeFacts DEF Fulfils
      <3> QED
        BY <1>3, <3>1 DEF LocalCab
    <2>3. a = n => cabs[f] \in S
      BY <1>2, <1>4, <2>2
    <2> HIDE DEF cabs
    <2> QED
      BY <1>1, <2>1, <2>3, OwnTraces
  <1>10. ASSUME NEW a \in Node, NEW x \in MalfReport, Malfunction(a, x)
         PROVE  CabTracesIn(n, f, S)'
    <2>1. \A m \in Node : Copy(n, m, f)' = Copy(n, m, f)
      BY <1>1, <1>10, CopiesReported DEF Malfunction
    <2> QED
      BY <1>10, <2>1 DEF Malfunction, CabTracesIn, Answer, Shows
  <1>11. ASSUME NEW a \in Node, NEW p, NEW receivers, ElevState(a, p, receivers)
         PROVE  CabTracesIn(n, f, S)'
    <2> DEFINE wv == [from |-> a, hall |-> hall[a], list |-> nodes'[a]]
    <2>1. \A m \in Node : Copy(n, m, f)' = Copy(n, m, f)
      BY <1>1, <1>11, CopiesReported DEF ElevState
    <2>2. wv \in Worldview
      BY <1>1 DEF TypeOK, Worldview
    <2>3. Listed(wv.list, n, f) \in S
      BY <1>2, <2>1 DEF Copy
    <2>4. Broadcast(wv, receivers) /\ UNCHANGED peerWorldviews
      BY <1>11 DEF ElevState
    <2> HIDE DEF wv
    <2> QED
      BY <2>1, <2>2, <2>3, <2>4, SentTraces
  <1> QED
    BY <1>1, <1>5, <1>6, <1>7, <1>8, <1>9, <1>10, <1>11, MergedTraces, CrashedTraces
       DEF Next, NewHallOrder, UpdateAliveList, Restart, vars, om

\* How a step that is neither a press nor a completion of a cab call moves its stage.
LEMMA StepCabStage ==
    ASSUME TypeOK, [Next]_vars, NEW n \in Node, NEW f \in Floor
    PROVE  \/ cabCall'[n][f] \in {cabCall[n][f], CabCallAfter(n, f, cabCall[n][f])}
           \/ Calls(n, f) \/ Fulfils(n, f)
  <1>1. cabCall \in [Node -> [Floor -> CallStage]]
    BY DEF TypeOK
  <1>2. ASSUME NEW a \in Node, OraTick(a) \/ MergePeer(a)
        PROVE  cabCall'[n][f] = CabCallAfter(n, f, cabCall[n][f])
    BY <1>2 DEF OraTick, MergePeer, CabHistory
  <1>3. ASSUME NEW a \in Node, NEW g \in Floor, NewCabOrder(a, g), ~Calls(n, f)
        PROVE  cabCall'[n][f] = cabCall[n][f]
    BY <1>1, <1>3 DEF NewCabOrder, Calls
  <1>4. ASSUME NEW a \in Node, NEW c \in HallCell, OrderComplete(a, c), ~Fulfils(n, f)
        PROVE  cabCall'[n][f] = CabCallAfter(n, f, cabCall[n][f])
    BY <1>4 DEF OrderComplete, Fulfils
  <1>5. ASSUME NEW a \in Node, NEW x, NEW y,
               \/ BroadcastTick(a, x) \/ NewHallOrder(a, x) \/ Malfunction(a, x)
               \/ ElevState(a, x, y) \/ UpdateAliveList(a, x, y) \/ Crash(a) \/ Restart(a)
        PROVE  cabCall' = cabCall
    BY <1>5 DEF BroadcastTick, NewHallOrder, Malfunction, ElevState, UpdateAliveList, Crash,
                Restart, history
  <1>6. UNCHANGED vars => cabCall' = cabCall
    BY DEF vars, history
  <1> QED
    BY <1>2, <1>3, <1>4, <1>5, <1>6 DEF Next

\* No step but a crash of the node forgets that a floor is known, and a press of a
\* button whose request is not there makes it known.
LEMMA KnownGrows ==
    ASSUME TypeOK, [Next]_vars, NEW n \in Node, NEW f \in Floor,
           crashes'[n] = 0, ~cabCallKnown'[n][f]
    PROVE  /\ crashes[n] = 0 /\ ~cabCallKnown[n][f]
           /\ ~(Calls(n, f) /\ LocalCab(n, f) = NoCall)
  <1>1. /\ crashes \in [Node -> Nat] /\ cabCallKnown \in [Node -> [Floor -> BOOLEAN]]
    BY DEF TypeOK
  <1>2. ~(Calls(n, f) /\ LocalCab(n, f) = NoCall)
    <2>1. ValidTransition(NoCall, Exist)
      BY StatesAreNumbers DEF ValidTransition
    <2>2. Calls(n, f) => cabCallKnown'[n][f] = PressKnown(cabCallKnown[n][f], LocalCab(n, f))
      BY <1>1 DEF Calls, NewCabOrder
    <2>3. PressKnown(cabCallKnown[n][f], NoCall)
      BY <2>1 DEF PressKnown
    <2> QED
      BY <2>2, <2>3
  <1>3. ASSUME NEW a \in Node, Crash(a)
        PROVE  crashes[n] = 0 /\ ~cabCallKnown[n][f]
    <2>1. crashes'[n] = IF a = n THEN crashes[n] + 1 ELSE crashes[n]
      BY <1>1, <1>3 DEF Crash
    <2>2. a # n
      BY <1>1, <2>1
    <2> QED
      BY <1>3, <2>1, <2>2 DEF Crash, TypeOK
  <1>4. ASSUME NEW a \in Node, OraTick(a)
        PROVE  crashes[n] = 0 /\ ~cabCallKnown[n][f]
    BY <1>1, <1>4 DEF OraTick
  <1>5. ASSUME NEW a \in Node, MergePeer(a)
        PROVE  crashes[n] = 0 /\ ~cabCallKnown[n][f]
    BY <1>1, <1>5 DEF MergePeer
  <1>6. ASSUME NEW a \in Node, NEW g \in Floor, NewCabOrder(a, g)
        PROVE  crashes[n] = 0 /\ ~cabCallKnown[n][f]
    BY <1>1, <1>6 DEF NewCabOrder, PressKnown
  <1>7. ASSUME NEW a \in Node, NEW c \in HallCell, OrderComplete(a, c)
        PROVE  crashes[n] = 0 /\ ~cabCallKnown[n][f]
    BY <1>1, <1>7 DEF OrderComplete
  <1>8. ASSUME NEW a \in Node, NEW x, NEW y,
               \/ BroadcastTick(a, x) \/ NewHallOrder(a, x) \/ Malfunction(a, x)
               \/ ElevState(a, x, y) \/ UpdateAliveList(a, x, y) \/ Restart(a)
        PROVE  crashes[n] = 0 /\ ~cabCallKnown[n][f]
    BY <1>8 DEF BroadcastTick, NewHallOrder, Malfunction, ElevState, UpdateAliveList,
                Restart, om
  <1>9. UNCHANGED vars => crashes[n] = 0 /\ ~cabCallKnown[n][f]
    BY DEF vars, om
  <1> QED
    BY <1>2, <1>3, <1>4, <1>5, <1>6, <1>7, <1>8, <1>9 DEF Next

\* A stage that means "nobody called", or "not served", is not entered or left by the
\* acknowledgement of the call.
LEMMA CabStageFacts ==
    ASSUME NEW stage \in CallStage, NEW n, NEW f
    PROVE  /\ CabCallAfter(n, f, stage) \in CallStage
           /\ CabCallAfter(n, f, stage) = "none" <=> stage = "none"
           /\ CabCallAfter(n, f, stage) \in {"open", "due"} <=> stage \in {"open", "due"}
  BY SMT DEF CallStage, CabCallAfter

\* What a press writes, and what stage it moves the call to.
LEMMA CabPressStep ==
    ASSUME TypeOK, NEW n \in Node, NEW f \in Floor, Calls(n, f)
    PROVE  \E cabs :
              /\ SetOwnCabs(n, cabs) /\ UNCHANGED <<peerWorldviews, inbox>>
              /\ cabs[f] = PressCab(n, LocalCab(n, f), peerWorldviews[n], alive[n], f)
              /\ cabCall'[n][f] = CabCallAfter(n, f,
                    StagePressed(cabCall[n][f], LocalCab(n, f), QuietCab(n, f)))
  <1> DEFINE cabs == [nodes[n][n].cab EXCEPT ![f] =
                         PressCab(n, @, peerWorldviews[n], alive[n], f)]
  <1>1. nodes[n][n].cab \in [Floor -> OrderState] /\ cabCall \in [Node -> [Floor -> CallStage]]
    BY DEF TypeOK, NodeEntry
  <1>2. cabs[f] = PressCab(n, LocalCab(n, f), peerWorldviews[n], alive[n], f)
    BY <1>1 DEF LocalCab
  <1>3. SetOwnCabs(n, cabs) /\ UNCHANGED <<peerWorldviews, inbox>>
    BY DEF Calls, NewCabOrder
  <1>4. cabCall'[n][f] = CabCallAfter(n, f,
                    StagePressed(cabCall[n][f], LocalCab(n, f), QuietCab(n, f)))
    BY <1>1 DEF Calls, NewCabOrder
  <1> HIDE DEF cabs
  <1> QED
    BY <1>2, <1>3, <1>4

\* The inductive step, for one cab call.
LEMMA CabCellStep ==
    ASSUME CabTraceInv, [Next]_vars, NEW n \in Node, NEW f \in Floor
    PROVE  /\ cabCall'[n][f] = "none" => QuietCab(n, f)'
           /\ cabCall'[n][f] \in {"open", "due"} => CabTracesIn(n, f, Uncompleted)'
           /\ crashes'[n] = 0 /\ ~cabCallKnown'[n][f] => CabTracesIn(n, f, {NoCall})'
  <1> USE DEF CabTraceInv
  <1> DEFINE stage == cabCall[n][f]
             own == LocalCab(n, f)
  <1>1. stage \in CallStage /\ own \in OrderState /\ TypeOK'
    BY OwnCopy, NextTyped DEF TypeOK
  <1>2. {NoCall} \in Closed /\ Uncompleted \in Closed
    BY DEF Closed
  <1>3. stage = "none" => CabTracesIn(n, f, {NoCall})
    BY QuietIsTraceless DEF NoPhantomCab
  <1>4. stage \in {"open", "due"} => CabTracesIn(n, f, Uncompleted)
    BY DEF NoEarlyCab
  <1>5. \A S : CabTracesIn(n, f, S) => own \in S
    BY OwnCopy DEF CabTracesIn
  <1>6. ASSUME Calls(n, f)
        PROVE  /\ cabCall'[n][f] # "none"
               /\ cabCall'[n][f] \in {"open", "due"} => CabTracesIn(n, f, Uncompleted)'
    <2> DEFINE quiet == QuietCab(n, f)
               pressed == StagePressed(stage, own, quiet)
    <2>1. PICK cabs :
              /\ SetOwnCabs(n, cabs) /\ UNCHANGED <<peerWorldviews, inbox>>
              /\ cabs[f] = PressCab(n, own, peerWorldviews[n], alive[n], f)
              /\ cabCall'[n][f] = CabCallAfter(n, f, pressed)
      BY <1>6, CabPressStep
    <2>2. pressed \in CallStage
      BY <1>1, PressedStageTyped
    <2>3. /\ pressed = "none" => stage = "none" /\ (own # NoCall \/ ~quiet)
          /\ pressed \in {"open", "due"}
                => stage \in {"open", "due"} \/ (own = NoCall /\ quiet)
      BY <1>1, SMT DEF CallStage, StagePressed
    <2>4. quiet <=> CabTracesIn(n, f, {NoCall})
      BY QuietIsTraceless
    <2>5. pressed # "none"
      BY <1>3, <1>5, <2>3, <2>4
    <2>6. CabTracesIn(n, f, {NoCall}) => CabTracesIn(n, f, Uncompleted)
      BY DEF CabTracesIn, Uncompleted
    <2>7. ASSUME CabTracesIn(n, f, Uncompleted)
          PROVE  CabTracesIn(n, f, Uncompleted)'
      <3> DEFINE r == PressCab(n, own, peerWorldviews[n], alive[n], f)
      <3>1. own # Complete
        BY <1>5, <2>7, StatesAreNumbers DEF Uncompleted
      <3>2. r \in OrderState /\ r # Complete
        BY <1>1, <3>1, PressCabFacts, CabGrows
      <3> HIDE DEF r
      <3>3. r \in Uncompleted
        BY <3>2, StatesAreNumbers DEF Uncompleted
      <3> QED
        BY <1>1, <2>1, <2>7, <3>3, OwnTraces DEF r
    <2> HIDE DEF quiet, pressed
    <2> QED
      BY <1>4, <2>1, <2>2, <2>3, <2>4, <2>5, <2>6, <2>7, CabStageFacts
  <1>7. ASSUME Fulfils(n, f)
        PROVE  cabCall'[n][f] \notin {"none", "open", "due"}
    <2>1. cabCall'[n][f] = StageServed(stage) /\ own = Acknowledged
      BY <1>7 DEF Fulfils, OrderComplete
    <2>2. stage # "none"
      BY <1>3, <1>5, <2>1, StatesAreNumbers
    <2> QED
      BY <1>1, <2>1, <2>2, StageFacts
  <1>8. ASSUME ~Calls(n, f), ~Fulfils(n, f)
        PROVE  /\ cabCall'[n][f] = "none" => QuietCab(n, f)'
               /\ cabCall'[n][f] \in {"open", "due"} => CabTracesIn(n, f, Uncompleted)'
    <2>1. /\ cabCall'[n][f] = "none" <=> stage = "none"
          /\ cabCall'[n][f] \in {"open", "due"} <=> stage \in {"open", "due"}
      BY <1>1, <1>8, StepCabStage, CabStageFacts
    <2>2. stage = "none" => CabTracesIn(n, f, {NoCall})'
      BY <1>2, <1>3, <1>8, StepCabTraces
    <2>3. stage \in {"open", "due"} => CabTracesIn(n, f, Uncompleted)'
      BY <1>2, <1>4, <1>8, StepCabTraces
    <2>4. CabTracesIn(n, f, {NoCall})' => QuietCab(n, f)'
      BY QuietStaysTraceless
    <2> QED
      BY <2>1, <2>2, <2>3, <2>4
  <1>9. ASSUME crashes'[n] = 0, ~cabCallKnown'[n][f]
        PROVE  CabTracesIn(n, f, {NoCall})'
    <2>1. /\ crashes[n] = 0 /\ ~cabCallKnown[n][f]
          /\ ~(Calls(n, f) /\ own = NoCall)
      BY <1>9, KnownGrows
    <2>2. CabTracesIn(n, f, {NoCall})
      BY <2>1 DEF NothingToRecover
    <2>3. own = NoCall
      BY <1>5, <2>2
    <2>4. ~Calls(n, f) /\ ~Fulfils(n, f)
      BY <2>1, <2>3, StatesAreNumbers DEF Fulfils
    <2> QED
      BY <1>2, <2>2, <2>4, StepCabTraces
  <1> QED
    BY <1>6, <1>7, <1>8, <1>9

\* The invariant of the traces of cab calls is inductive,
LEMMA CabTraceInductive == CabTraceInv /\ [Next]_vars => CabTraceInv'
  <1> SUFFICES ASSUME CabTraceInv, [Next]_vars PROVE CabTraceInv'
    OBVIOUS
  <1>1. TypeOK'
    BY NextTyped DEF CabTraceInv
  <1>2. NoPhantomCab'
    BY CabCellStep DEF NoPhantomCab
  <1>3. NoEarlyCab'
    BY CabCellStep DEF NoEarlyCab
  <1>4. NothingToRecover'
    BY CabCellStep DEF NothingToRecover
  <1> QED
    BY <1>1, <1>2, <1>3, <1>4 DEF CabTraceInv

\* and the clusters start without a trace.
LEMMA CabTraceInitial == Init \/ SteadyInit => CabTraceInv
  <1> SUFFICES ASSUME Init \/ SteadyInit PROVE CabTraceInv
    OBVIOUS
  <1>1. TypeOK
    BY InitTyped, SteadyInitTyped
  <1>2. ASSUME NEW n \in Node, NEW f \in Floor
        PROVE  CabTracesIn(n, f, {NoCall})
    <2>1. Listed([m \in Node |-> BootEntry], n, f) = NoCall /\ \A k : Listed(BootList(k), n, f) = NoCall
      BY DEF Listed, BootEntry, BootList
    <2>2. \A m \in Node : Copy(n, m, f) = NoCall
      <3>1. CASE Init
        <4>1. \A m \in Node : nodes[m] = BootList(m)
          BY <3>1 DEF Init
        <4> QED
          BY <2>1, <4>1 DEF Copy
      <3>2. CASE SteadyInit
        <4>1. \A m \in Node : nodes[m] = [k \in Node |-> BootEntry]
          BY <3>2 DEF SteadyInit
        <4> QED
          BY <2>1, <4>1 DEF Copy
      <3> QED
        BY <3>1, <3>2
    <2>3. \A m \in Node : Answer(n, m, f) = NoCall
      BY DEF Answer, Answered, Init, SteadyInit, BootEntry
    <2>4. \A m \in Node : 1 .. Len(inbox[m]) = {}
      <3>1. \A m \in Node : inbox[m] = <<>>
        BY DEF Init, SteadyInit
      <3>2. Len(<<>>) = 0 /\ 1 .. 0 = {}
        BY SMT
      <3> QED
        BY <3>1, <3>2
    <2> QED
      BY <2>2, <2>3, <2>4 DEF CabTracesIn
  <1>3. NoPhantomCab
    BY <1>2, QuietIsTraceless DEF NoPhantomCab
  <1>4. NothingToRecover
    BY <1>2 DEF NothingToRecover
  <1>5. NoEarlyCab
    BY DEF NoEarlyCab, Init, SteadyInit
  <1> QED
    BY <1>1, <1>3, <1>4, <1>5 DEF CabTraceInv

\* No elevator ever lists, remembers or is sent a cab call that nobody made in that
\* car, among any number of elevators that crash, restart and lose frames; and no
\* completion of one is made up before its own car has served it (the merge and the
\* recovery of mergePeerWorldview only move what somebody has pressed).
THEOREM CabPhantomFree == Spec \/ SteadySpec => [](NoPhantomCab /\ NoEarlyCab)
  <1>1. CabTraceInv => NoPhantomCab /\ NoEarlyCab
    BY DEF CabTraceInv
  <1> QED
    BY <1>1, CabTraceInitial, CabTraceInductive, PTL DEF Spec, SteadySpec

\* One cab call, in a step that leaves it unserved.
CabKeptStep(n, f) ==
    cabCall[n][f] \in {"open", "due"} /\ cabCall'[n][f] \in {"open", "due"} /\ up[n] /\ up'[n]
       => LocalCab(n, f)' >= LocalCab(n, f)

\* A running elevator never steps back from a cab call before it has served it.
UnservedCabKept == [][\A n \in Node, f \in Floor : CabKeptStep(n, f)]_vars

\* No step of a running node takes an unserved cab call back.
LEMMA CabNotTakenBack ==
    ASSUME CabTraceInv, [Next]_vars, NEW n \in Node, NEW f \in Floor
    PROVE  CabKeptStep(n, f)
  <1> USE DEF CabTraceInv
  <1> DEFINE own == LocalCab(n, f)
             own2 == LocalCab(n, f)'
  <1> SUFFICES ASSUME cabCall[n][f] \in {"open", "due"}, cabCall'[n][f] \in {"open", "due"},
                      up[n], up'[n]
               PROVE  own2 >= own
    BY DEF CabKeptStep
  <1>1. own \in OrderState /\ own # Complete /\ own \in Uncompleted
    <2>1. CabTracesIn(n, f, Uncompleted)
      BY DEF NoEarlyCab
    <2> QED
      BY <2>1, OwnCopy, StatesAreNumbers DEF CabTracesIn, Uncompleted
  <1>2. own2 = own => own2 >= own
    BY <1>1, StatesAreNumbers
  <1>3. TypeOK' /\ own2 = Copy(n, n, f)' /\ own = Copy(n, n, f)
    <2>1. TypeOK'
      BY NextTyped
    <2>2. nodes'[n][n] # None
      BY <2>1, NodeAssumption DEF TypeOK
    <2> QED
      BY <2>1, <2>2, OwnCopy DEF Copy, Listed, LocalCab
  <1>4. nodes[n][n].cab \in [Floor -> OrderState]
    BY DEF TypeOK, NodeEntry
  <1>5. ASSUME NEW a \in Node, NEW cabs, SetOwnCabs(a, cabs), a = n => cabs[f] >= own
        PROVE  own2 >= own
    BY <1>2, <1>3, <1>5, CopiesOwn
  <1>6. \A stored : ConsensusCab(n, own, stored, alive[n], f) >= own
    BY <1>1, CabGrows
  <1>7. ASSUME NEW a \in Node, OraTick(a)
        PROVE  own2 >= own
    <2> DEFINE cabs == ConsensusCabs(a, nodes[a][a].cab, peerWorldviews[a])
    <2>1. SetOwnCabs(a, cabs)
      BY <1>7 DEF OraTick
    <2>2. a = n => cabs[f] = ConsensusCab(n, own, peerWorldviews[n], alive[n], f)
      BY DEF LocalCab, ConsensusCabs
    <2> HIDE DEF cabs, own, own2
    <2> QED
      BY <1>5, <1>6, <2>1, <2>2
  <1>8. ASSUME NEW a \in Node, MergePeer(a)
        PROVE  own2 >= own
    <2>1. PICK wv, cabs :
             /\ wv = Head(inbox[a])
             /\ cabs = ConsensusCabs(a, RecoverCabs(a, wv), Remember(a, wv))
             /\ NodesMerge(a, wv, cabs)
      BY <1>8 DEF MergePeer, NodesMerge
    <2>2. wv \in Worldview
      BY <1>8, <2>1, HeadTyped DEF MergePeer
    <2>3. own2 = IF a = n THEN cabs[f] ELSE own
      BY <1>3, <2>1, <2>2, CopiesMerged
    <2>4. CASE a = n
      <3> DEFINE rec == RecoverCabs(n, wv)[f]
      <3>1. rec = own \/ (own = NoCall /\ rec \in {Exist, Acknowledged})
        BY DEF RecoverCabs, RecoverCab, RecoversCab
      <3>2. rec \in OrderState /\ rec # Complete /\ rec >= own
        BY <1>1, <3>1, StatesAreNumbers
      <3>3. cabs[f] = ConsensusCab(n, rec, Remember(n, wv), alive[n], f)
        BY <2>1, <2>4 DEF ConsensusCabs
      <3> HIDE DEF rec
      <3>4. cabs[f] >= rec /\ cabs[f] \in OrderState
        BY <3>2, <3>3, CabGrows, ConsensusCabFacts
      <3>5. cabs[f] >= own
        BY <1>1, <3>2, <3>4, StatesAreNumbers
      <3> QED
        BY <2>3, <2>4, <3>5
    <2> QED
      BY <1>2, <2>3, <2>4
  <1>9. ASSUME NEW a \in Node, NEW g \in Floor, NewCabOrder(a, g)
        PROVE  own2 >= own
    <2> DEFINE cabs == [nodes[a][a].cab EXCEPT ![g] =
                           PressCab(a, @, peerWorldviews[a], alive[a], g)]
    <2>1. SetOwnCabs(a, cabs)
      BY <1>9 DEF NewCabOrder
    <2>2. a = n => cabs[f] \in {own, PressCab(n, own, peerWorldviews[n], alive[n], f)}
      BY <1>4 DEF LocalCab
    <2>3. PressCab(n, own, peerWorldviews[n], alive[n], f) >= own /\ own >= own
      BY <1>1, CabGrows, StatesAreNumbers
    <2> HIDE DEF cabs, own, own2
    <2> QED
      BY <1>5, <2>1, <2>2, <2>3
  <1>10. ASSUME NEW a \in Node, NEW c \in HallCell, OrderComplete(a, c)
         PROVE  own2 >= own
    <2> DEFINE served == [nodes[a][a].cab EXCEPT ![c[1]] = Serve(@)]
               cabs == ConsensusCabs(a, served, peerWorldviews[a])
    <2>1. SetOwnCabs(a, cabs)
      BY <1>10 DEF OrderComplete
    <2>2. a = n /\ c[1] = f => own # Acknowledged
      <3>1. a = n /\ c[1] = f /\ own = Acknowledged => cabCall'[n][f] = StageServed(cabCall[n][f])
        BY <1>10 DEF OrderComplete
      <3>2. cabCall[n][f] \in CallStage
        BY DEF TypeOK
      <3> QED
        BY <3>1, <3>2, StageFacts
    <2>3. a = n => served[f] = own
      <3>1. own # Acknowledged => Serve(own) = own
        BY <1>1, ServeFacts
      <3> QED
        BY <1>4, <2>2, <3>1 DEF LocalCab
    <2>4. a = n => cabs[f] = ConsensusCab(n, own, peerWorldviews[n], alive[n], f)
      BY <2>3 DEF ConsensusCabs
    <2> HIDE DEF cabs, own, own2
    <2> QED
      BY <1>5, <1>6, <2>1, <2>4
  <1>11. ASSUME NEW a \in Node, NEW x, NEW y, Malfunction(a, x) \/ ElevState(a, x, y),
                TypeOK'
         PROVE  own2 >= own
    <2>1. \E elev : SetOwnElevator(a, elev)
      BY <1>11 DEF Malfunction, ElevState
    <2> QED
      BY <1>2, <1>3, <2>1, CopiesReported
  <1>12. ASSUME NEW a \in Node, Crash(a)
         PROVE  own2 >= own
    <2>1. a # n
      BY <1>12 DEF Crash, TypeOK
    <2>2. nodes'[n] = nodes[n]
      BY <1>12, <2>1 DEF Crash, TypeOK
    <2> QED
      BY <1>2, <2>2 DEF LocalCab
  <1>13. nodes' = nodes => own2 = own
    BY DEF LocalCab
  <1> HIDE DEF own, own2
  <1> QED
    BY <1>2, <1>3, <1>7, <1>8, <1>9, <1>10, <1>11, <1>12, <1>13
       DEF Next, BroadcastTick, NewHallOrder, UpdateAliveList, Restart, vars, om

\* A running elevator never steps back from a cab call before it has served it,
\* whatever copies of it the others send back and however old they are.
THEOREM CabNotForgotten == Spec \/ SteadySpec => UnservedCabKept
  <1>1. CabTraceInv /\ [Next]_vars => [\A n \in Node, f \in Floor : CabKeptStep(n, f)]_vars
    BY CabNotTakenBack
  <1> QED
    BY <1>1, CabTraceInitial, CabTraceInductive, PTL DEF Spec, SteadySpec, UnservedCabKept

-----------------------------------------------------------------------------
(* What the assigner of a node has been handed. *)

\* Every hall order a node shows as acknowledged, and so lights the lamp for, has been
\* handed to its assigner: no branch of mergePeerWorldview, applyNewOrder or
\* applyCompletion acknowledges one and leaves that out until the 10 s ticker.
AcknowledgedHandedOver ==
    \A n \in Node, c \in HallCell \ Impossible :
        hall[n][c] = Acknowledged => c \in assignable[n]

\* So has every cab order of a node that has not crashed.  (An order that a restarted
\* node recovers as acknowledged already waits for the ticker: a recovery does not set
\* reachedAck.)
CabHandedOver ==
    \A n \in Node, c \in HallCell \ Impossible :
        crashes[n] = 0 /\ LocalCab(n, c[1]) = Acknowledged => c \in assignable[n]

\* The assigner is handed no order for a place that nobody has called from.
NoPhantomOrder ==
    \A n \in Node, c \in HallCell :
        c \in assignable[n] => hallCall[c] # "none" \/ cabCall[n][c[1]] # "none"

HandedInv == CabTraceInv /\ NoPhantomCall /\ NoEarlyCompletion
             /\ AcknowledgedHandedOver /\ CabHandedOver /\ NoPhantomOrder

\* A merge that does not report an acknowledgement makes none.
LEMMA MergeReports ==
    ASSUME NEW s \in OrderState, NEW peer \in OrderState, NEW self, NEW stored, NEW live, NEW c,
           MergeHall(self, s, peer, stored, live, c) = Acknowledged, s # Acknowledged
    PROVE  MergeReachesAck(self, s, peer, stored, live, c)
  <1> DEFINE learned == LearnHall(s, peer)
             confirmed == AcknowledgeHall(self, learned, stored, live, c)
             completed == AdoptComplete(confirmed, peer)
             cleared == ClearHall(self, completed, stored, live, c)
  <1>1. learned \in OrderState /\ (learned = s \/ (s = NoCall /\ learned = Exist))
    BY StatesAreNumbers, SMT DEF LearnHall, Advance, ValidTransition
  <1>2. confirmed = learned \/ (learned = Exist /\ confirmed = Acknowledged)
    BY <1>1, AcknowledgeHallFacts
  <1>3. completed = confirmed \/ completed = Complete
    BY StatesAreNumbers, SMT DEF AdoptComplete, Advance, ValidTransition
  <1>4. completed \in OrderState
    BY <1>1, <1>2, <1>3, StatesAreNumbers
  <1>5. cleared = completed \/ cleared = NoCall
    BY <1>4, ClearHallFacts
  <1>6. Acknowledged = AdoptCleared(cleared, peer)
    BY DEF MergeHall
  <1> HIDE DEF completed, cleared
  <1>7. cleared = Acknowledged
    BY <1>6, StatesAreNumbers DEF AdoptCleared
  <1>8. confirmed = Acknowledged
    BY <1>3, <1>5, <1>7, StatesAreNumbers
  <1>9. learned # Acknowledged
    BY <1>1, StatesAreNumbers
  <1> QED
    BY <1>8, <1>9 DEF MergeReachesAck

\* Consensus acknowledges a cab request from Exist only.
LEMMA ConsensusReports ==
    ASSUME NEW s \in OrderState, NEW self, NEW stored, NEW live, NEW f,
           ConsensusCab(self, s, stored, live, f) = Acknowledged
    PROVE  s \in {Exist, Acknowledged}
  BY StatesAreNumbers, SMT DEF ConsensusCab, ClearCab, AcknowledgeCab, Advance, ValidTransition

\* sendToOrderHandler hands over every acknowledged order but the impossible ones.
LEMMA HandOver ==
    ASSUME TypeOK, NEW a \in Node, SendToOrderHandler(a), NEW n \in Node,
           NEW c \in HallCell \ Impossible
    PROVE  /\ n = a /\ (hall'[n][c] = Acknowledged \/ LocalCab(n, c[1])' = Acknowledged)
                => c \in assignable'[n]
           /\ c \in assignable[n] => c \in assignable'[n]
  BY DEF TypeOK, SendToOrderHandler, LocalCab

\* Nothing else is handed over.
LEMMA HandedOver ==
    ASSUME TypeOK, NEW a \in Node, SendToOrderHandler(a), NEW n \in Node,
           NEW c \in HallCell, c \in assignable'[n], c \notin assignable[n]
    PROVE  hall'[n][c] = Acknowledged \/ LocalCab(n, c[1])' = Acknowledged
  BY DEF TypeOK, SendToOrderHandler, LocalCab

\* A call somebody has made stays one that somebody has made.
LEMMA MadeStaysMade ==
    ASSUME HallInv, CabTraceInv, [Next]_vars
    PROVE  /\ \A c \in HallCell : hallCall[c] # "none" => hallCall'[c] # "none"
           /\ \A n \in Node, f \in Floor : cabCall[n][f] # "none" => cabCall'[n][f] # "none"
  <1> USE DEF HallInv, CabTraceInv
  <1>1. ASSUME NEW c \in HallCell, hallCall[c] # "none"
        PROVE  hallCall'[c] # "none"
    <2>1. hallCall[c] \in CallStage /\ \A n \in Node : hall[n][c] \in OrderState
      BY DEF TypeOK
    <2>2. ASSUME NEW n \in Node, NewHallOrder(n, c)
          PROVE  hallCall'[c] # "none"
      <3> DEFINE pressed == StagePressed(hallCall[c], hall[n][c], QuietHall(c))
      <3>1. hallCall'[c] = HallCallAfter(c, pressed)
        BY <2>2 DEF NewHallOrder, TypeOK
      <3>2. pressed \in CallStage /\ pressed # "none"
        BY <1>1, <2>1, PressedStageTyped, SMT DEF CallStage, StagePressed
      <3> HIDE DEF pressed
      <3> QED
        BY <3>1, <3>2, StageFacts
    <2>3. ASSUME NEW n \in Node, OrderComplete(n, c), hall[n][c] = Acknowledged
          PROVE  hallCall'[c] # "none"
      BY <1>1, <2>1, <2>3, StageFacts DEF OrderComplete
    <2> DEFINE after == HallCallAfter(c, hallCall[c])
    <2>4. after \in CallStage /\ after # "none"
      BY <1>1, <2>1, StageFacts, HallStageTyped
    <2>5. StageEchoed(after) # "none"
      BY <2>4, StageFacts
    <2> HIDE DEF after
    <2>6. CASE hallCall'[c] \in {hallCall[c], after, StageEchoed(after)}
      BY <1>1, <2>4, <2>5, <2>6
    <2> QED
      BY <2>2, <2>3, <2>6, StepStage DEF after
  <1>2. ASSUME NEW n \in Node, NEW f \in Floor, cabCall[n][f] # "none"
        PROVE  cabCall'[n][f] # "none"
    <2>1. cabCall[n][f] \in CallStage /\ LocalCab(n, f) \in OrderState
      BY OwnCopy DEF TypeOK
    <2>2. ASSUME Calls(n, f)
          PROVE  cabCall'[n][f] # "none"
      <3> DEFINE pressed == StagePressed(cabCall[n][f], LocalCab(n, f), QuietCab(n, f))
      <3>1. cabCall'[n][f] = CabCallAfter(n, f, pressed)
        BY <2>2, CabPressStep
      <3>2. pressed \in CallStage /\ pressed # "none"
        BY <1>2, <2>1, PressedStageTyped, SMT DEF CallStage, StagePressed
      <3> HIDE DEF pressed
      <3> QED
        BY <3>1, <3>2, CabStageFacts
    <2>3. ASSUME Fulfils(n, f)
          PROVE  cabCall'[n][f] # "none"
      <3>1. cabCall'[n][f] = StageServed(cabCall[n][f])
        BY <2>3 DEF Fulfils, OrderComplete
      <3> QED
        BY <1>2, <2>1, <3>1, StageFacts
    <2> QED
      BY <1>2, <2>1, <2>2, <2>3, StepCabStage, CabStageFacts
  <1> QED
    BY <1>1, <1>2

\* The steps in which a node hands nothing over acknowledge nothing either.
LEMMA HandedStep ==
    ASSUME HandedInv, [Next]_vars
    PROVE  \/ \E a \in Node : /\ SendToOrderHandler(a) /\ crashes' = crashes
                              /\ \A n \in Node \ {a} : /\ hall'[n] = hall[n]
                                                       /\ nodes'[n] = nodes[n]
           \/ /\ \A n \in Node : assignable'[n] \subseteq assignable[n]
              /\ \A n \in Node, c \in HallCell \ Impossible :
                    /\ hall'[n][c] = Acknowledged => c \in assignable'[n]
                    /\ crashes'[n] = 0 /\ LocalCab(n, c[1])' = Acknowledged
                          => c \in assignable'[n]
  <1> USE DEF HandedInv, CabTraceInv
  <1> DEFINE Sends == \E a \in Node : /\ SendToOrderHandler(a) /\ crashes' = crashes
                              /\ \A n \in Node \ {a} : /\ hall'[n] = hall[n]
                                                       /\ nodes'[n] = nodes[n]
             Idle == /\ \A n \in Node : assignable'[n] \subseteq assignable[n]
                     /\ \A n \in Node, c \in HallCell \ Impossible :
                           /\ hall'[n][c] = Acknowledged => c \in assignable'[n]
                           /\ crashes'[n] = 0 /\ LocalCab(n, c[1])' = Acknowledged
                                 => c \in assignable'[n]
  <1>0. TypeOK'
    BY NextTyped
  <1>1. ASSUME UNCHANGED <<hall, assignable, crashes>>, \A n \in Node, f \in Floor : LocalCab(n, f)' = LocalCab(n, f)
        PROVE  Idle
    BY <1>1 DEF AcknowledgedHandedOver, CabHandedOver, HallCell
  <1>2. ASSUME NEW a \in Node, NEW cabs, SetOwnCabs(a, cabs)
        PROVE  \A n \in Node \ {a} : nodes'[n] = nodes[n]
    BY <1>2 DEF SetOwnCabs, TypeOK
  <1>3. ASSUME NEW a \in Node, OraTick(a)
        PROVE  Sends
    <2>1. /\ SendToOrderHandler(a) /\ crashes' = crashes
          /\ \E cabs : SetOwnCabs(a, cabs)
          /\ \A n \in Node \ {a} : hall'[n] = hall[n]
      BY <1>3 DEF OraTick, TypeOK
    <2> QED
      BY <1>2, <2>1
  <1>4. ASSUME NEW a \in Node, NEW c, NewHallOrder(a, c)
        PROVE  Sends
    <2>1. /\ SendToOrderHandler(a) /\ crashes' = crashes /\ nodes' = nodes
          /\ \A n \in Node \ {a} : hall'[n] = hall[n]
      BY <1>4 DEF NewHallOrder, TypeOK
    <2> QED
      BY <2>1
  <1>5. ASSUME NEW a \in Node, NEW f, NewCabOrder(a, f)
        PROVE  Sends
    <2>1. /\ SendToOrderHandler(a) /\ crashes' = crashes /\ hall' = hall
          /\ \E cabs : SetOwnCabs(a, cabs)
      BY <1>5 DEF NewCabOrder
    <2> QED
      BY <1>2, <2>1
  <1>6. ASSUME NEW a \in Node, NEW c, OrderComplete(a, c)
        PROVE  Sends
    <2>1. /\ SendToOrderHandler(a) /\ crashes' = crashes
          /\ \E cabs : SetOwnCabs(a, cabs)
          /\ \A n \in Node \ {a} : hall'[n] = hall[n]
      BY <1>6 DEF OrderComplete, TypeOK
    <2> QED
      BY <1>2, <2>1
  <1>7. ASSUME NEW a \in Node, MergePeer(a)
        PROVE  Sends \/ Idle
    <2>1. PICK wv, stored, recovered, cabs, reached :
           /\ wv = Head(inbox[a]) /\ stored = Remember(a, wv) /\ recovered = RecoverCabs(a, wv)
           /\ cabs = ConsensusCabs(a, recovered, stored)
           /\ reached = (\/ \E c \in HallCell :
                              MergeReachesAck(a, hall[a][c], wv.hall[c], stored, alive[a], c)
                         \/ \E f \in Floor : recovered[f] = Exist /\ cabs[f] = Acknowledged)
           /\ NodesMerge(a, wv, cabs)
           /\ hall' = [hall EXCEPT ![a] = [c \in HallCell |->
                 MergeHall(a, @[c], wv.hall[c], stored, alive[a], c)]]
           /\ IF reached THEN SendToOrderHandler(a) ELSE UNCHANGED assignable
           /\ crashes' = crashes
      BY <1>7 DEF MergePeer, NodesMerge
    <2>2. wv \in Worldview
      BY <1>7, <2>1, HeadTyped DEF MergePeer
    <2>3. \A n \in Node \ {a} : hall'[n] = hall[n] /\ nodes'[n] = nodes[n]
      BY <2>1 DEF TypeOK, NodesMerge
    <2>4. reached => Sends
      BY <2>1, <2>3
    <2>5. ASSUME ~reached
          PROVE  Idle
      <3>1. assignable' = assignable
        BY <2>1, <2>5
      <3>2. ASSUME NEW c \in HallCell \ Impossible, hall'[a][c] = Acknowledged
            PROVE  c \in assignable[a]
        <4>1. hall[a][c] \in OrderState /\ wv.hall[c] \in OrderState
          BY <2>2 DEF TypeOK, Worldview
        <4>2. hall'[a][c] = MergeHall(a, hall[a][c], wv.hall[c], stored, alive[a], c)
          BY <2>1 DEF TypeOK
        <4>3. ~MergeReachesAck(a, hall[a][c], wv.hall[c], stored, alive[a], c)
          BY <2>1, <2>5
        <4>4. hall[a][c] = Acknowledged
          BY <3>2, <4>1, <4>2, <4>3, MergeReports
        <4> QED
          BY <4>4 DEF AcknowledgedHandedOver
      <3>3. ASSUME NEW c \in HallCell \ Impossible, crashes[a] = 0, LocalCab(a, c[1])' = Acknowledged
            PROVE  c \in assignable[a]
        <4> DEFINE f == c[1]
        <4>1. f \in Floor
          BY DEF HallCell
        <4> HIDE DEF f
        <4>2. LocalCab(a, f)' = cabs[f]
          <5>1. Copy(a, a, f)' = cabs[f]
            BY <1>0, <2>1, <2>2, <4>1, CopiesMerged
          <5>2. nodes'[a][a] # None
            BY <1>0, NodeAssumption DEF TypeOK
          <5> QED
            BY <5>1, <5>2 DEF Copy, Listed, LocalCab
        <4>3. recovered[f] \in OrderState /\ cabs[f] = ConsensusCab(a, recovered[f], stored, alive[a], f)
          BY <2>1, <2>2, <4>1, RecoverCabsTyped DEF ConsensusCabs
        <4>4. recovered[f] = Acknowledged
          <5>1. cabs[f] = Acknowledged
            BY <3>3, <4>2 DEF f
          <5> QED
            BY <2>1, <2>5, <4>1, <4>3, <5>1, ConsensusReports
        <4>5. recovered[f] = LocalCab(a, f)
          <5>1. CASE cabCallKnown[a][f]
            BY <2>1, <4>1, <5>1 DEF RecoverCabs, RecoverCab, RecoversCab
          <5>2. CASE ~cabCallKnown[a][f]
            <6>1. CabTracesIn(a, f, {NoCall})
              BY <3>3, <4>1, <5>2 DEF NothingToRecover
            <6>2. inbox[a] \in Seq(Worldview) /\ inbox[a] # <<>>
              BY <1>7 DEF MergePeer, TypeOK
            <6>3. 1 \in 1 .. Len(inbox[a]) /\ wv = inbox[a][1]
              BY <2>1, <6>2, SMT
            <6>4. Listed(wv.list, a, f) = NoCall
              BY <6>1, <6>3 DEF CabTracesIn, Shows
            <6> QED
              BY <2>1, <4>1, <6>4, StatesAreNumbers
                 DEF Listed, RecoverCabs, RecoverCab, RecoversCab
          <5> QED
            BY <5>1, <5>2
        <4> QED
          BY <3>3, <4>4, <4>5 DEF CabHandedOver, f
      <3> QED
        <4>1. \A n \in Node, c \in HallCell : n # a => LocalCab(n, c[1])' = LocalCab(n, c[1]) /\ hall'[n] = hall[n]
          BY <2>3 DEF LocalCab
        <4>2. \A n \in Node, c \in HallCell \ Impossible :
                 /\ hall'[n][c] = Acknowledged => c \in assignable[n]
                 /\ crashes[n] = 0 /\ LocalCab(n, c[1])' = Acknowledged => c \in assignable[n]
          BY <3>2, <3>3, <4>1 DEF AcknowledgedHandedOver, CabHandedOver
        <4> QED
          BY <2>1, <3>1, <4>2
    <2> QED
      BY <2>4, <2>5
  <1>8. ASSUME NEW a \in Node, NEW x, NEW y, Malfunction(a, x) \/ ElevState(a, x, y)
        PROVE  Idle
    <2>1. /\ \E elev : SetOwnElevator(a, elev)
          /\ UNCHANGED <<hall, assignable, crashes>>
      BY <1>8 DEF Malfunction, ElevState
    <2>2. \A n \in Node, f \in Floor : LocalCab(n, f)' = LocalCab(n, f)
      <3>1. \A n \in Node, f \in Floor : Copy(n, n, f)' = Copy(n, n, f)
        BY <1>0, <2>1, CopiesReported
      <3>2. \A n \in Node : nodes'[n][n] # None /\ nodes[n][n] # None
        BY <1>0, NodeAssumption DEF TypeOK
      <3> QED
        BY <3>1, <3>2 DEF Copy, Listed, LocalCab
    <2> QED
      BY <1>1, <2>1, <2>2
  <1>9. ASSUME NEW a \in Node, Crash(a)
        PROVE  Idle
    <2>1. \A n \in Node \ {a} : /\ hall'[n] = hall[n] /\ nodes'[n] = nodes[n]
                                /\ assignable'[n] = assignable[n] /\ crashes'[n] = crashes[n]
      BY <1>9 DEF Crash, TypeOK
    <2>2. /\ \A c \in HallCell : hall'[a][c] = NoCall
          /\ \A f \in Floor : LocalCab(a, f)' = NoCall
          /\ assignable'[a] = {}
      BY <1>9 DEF Crash, TypeOK, NoHall, BootList, BootEntry, LocalCab
    <2>3. ASSUME NEW n \in Node, NEW c \in HallCell \ Impossible
          PROVE  /\ assignable'[n] \subseteq assignable[n]
                 /\ hall'[n][c] = Acknowledged => c \in assignable'[n]
                 /\ crashes'[n] = 0 /\ LocalCab(n, c[1])' = Acknowledged => c \in assignable'[n]
      <3>1. CASE n = a
        <4>1. c[1] \in Floor
          BY DEF HallCell
        <4> QED
          BY <2>2, <3>1, <4>1, StatesAreNumbers
      <3>2. CASE n # a
        BY <2>1, <3>2 DEF LocalCab, AcknowledgedHandedOver, CabHandedOver
      <3> QED
        BY <3>1, <3>2
    <2>4. \A n \in Node : assignable'[n] \subseteq assignable[n]
      BY <2>1, <2>2
    <2> QED
      BY <2>3, <2>4
  <1>10. UNCHANGED <<hall, nodes, assignable, crashes>> => Idle
    BY <1>1 DEF LocalCab
  <1> HIDE DEF Sends, Idle
  <1>11. Sends \/ Idle
    BY <1>3, <1>4, <1>5, <1>6, <1>7, <1>8, <1>9, <1>10
       DEF Next, BroadcastTick, UpdateAliveList, Restart, vars, om
  <1> QED
    BY <1>11 DEF Sends, Idle

\* The invariant of what is handed over is inductive.
LEMMA HandedInductive == HandedInv /\ [Next]_vars => HandedInv'
  <1> SUFFICES ASSUME HandedInv, [Next]_vars PROVE HandedInv'
    OBVIOUS
  <1>1. HallInv /\ CabTraceInv
    BY DEF HandedInv, HallInv, CabTraceInv
  <1>2. HallInv' /\ CabTraceInv'
    BY <1>1, HallInvInductive, CabTraceInductive
  <1>3. TypeOK /\ TypeOK'
    BY <1>1, <1>2 DEF HallInv
  <1>4. /\ \A c \in HallCell : hallCall[c] # "none" => hallCall'[c] # "none"
        /\ \A n \in Node, f \in Floor : cabCall[n][f] # "none" => cabCall'[n][f] # "none"
    BY <1>1, MadeStaysMade
  <1>5. \A c \in HallCell : c[1] \in Floor
    BY DEF HallCell
  <1>6. ASSUME NEW a \in Node, SendToOrderHandler(a), crashes' = crashes,
               \A n \in Node \ {a} : hall'[n] = hall[n] /\ nodes'[n] = nodes[n]
        PROVE  AcknowledgedHandedOver' /\ CabHandedOver' /\ NoPhantomOrder'
    <2>1. ASSUME NEW n \in Node, NEW c \in HallCell \ Impossible
          PROVE  /\ hall'[n][c] = Acknowledged => c \in assignable'[n]
                 /\ crashes'[n] = 0 /\ LocalCab(n, c[1])' = Acknowledged
                       => c \in assignable'[n]
      <3>1. CASE n = a
        BY <1>3, <1>6, <3>1, HandOver
      <3>2. CASE n # a
        <4>1. /\ hall[n][c] = Acknowledged => c \in assignable[n]
              /\ crashes[n] = 0 /\ LocalCab(n, c[1]) = Acknowledged => c \in assignable[n]
          BY DEF HandedInv, AcknowledgedHandedOver, CabHandedOver
        <4>2. hall'[n] = hall[n] /\ LocalCab(n, c[1])' = LocalCab(n, c[1])
          BY <1>6, <3>2 DEF LocalCab
        <4>3. c \in assignable[n] => c \in assignable'[n]
          BY <1>3, <1>6, HandOver
        <4> QED
          BY <1>6, <4>1, <4>2, <4>3
      <3> QED
        BY <3>1, <3>2
    <2>2. ASSUME NEW n \in Node, NEW c \in HallCell, c \in assignable'[n]
          PROVE  hallCall'[c] # "none" \/ cabCall'[n][c[1]] # "none"
      <3>1. CASE c \in assignable[n]
        BY <1>4, <1>5, <3>1 DEF HandedInv, NoPhantomOrder
      <3>2. CASE c \notin assignable[n]
        <4>1. CASE hall'[n][c] = Acknowledged
          <5>1. hallCall'[c] = "none" => hall'[n][c] = NoCall
            BY <1>2 DEF HallInv, NoPhantomCall, QuietHall, HallTracesIn
          <5> QED
            BY <4>1, <5>1, StatesAreNumbers
        <4>2. CASE LocalCab(n, c[1])' = Acknowledged
          <5>1. cabCall'[n][c[1]] = "none" => QuietCab(n, c[1])'
            BY <1>2, <1>5 DEF CabTraceInv, NoPhantomCab
          <5>2. nodes'[n][n] # None
            BY <1>3, NodeAssumption DEF TypeOK
          <5>3. QuietCab(n, c[1])' => LocalCab(n, c[1])' = NoCall
            BY <5>2 DEF QuietCab, LocalCab
          <5> QED
            BY <4>2, <5>1, <5>3, StatesAreNumbers
        <4> QED
          BY <1>3, <1>6, <2>2, <3>2, <4>1, <4>2, HandedOver
      <3> QED
        BY <3>1, <3>2
    <2> QED
      BY <2>1, <2>2 DEF AcknowledgedHandedOver, CabHandedOver, NoPhantomOrder
  <1>7. ASSUME \A n \in Node : assignable'[n] \subseteq assignable[n],
               \A n \in Node, c \in HallCell \ Impossible :
                    /\ hall'[n][c] = Acknowledged => c \in assignable'[n]
                    /\ crashes'[n] = 0 /\ LocalCab(n, c[1])' = Acknowledged
                          => c \in assignable'[n]
        PROVE  AcknowledgedHandedOver' /\ CabHandedOver' /\ NoPhantomOrder'
    <2>1. NoPhantomOrder'
      BY <1>4, <1>5, <1>7 DEF HandedInv, NoPhantomOrder
    <2> QED
      BY <1>7, <2>1 DEF AcknowledgedHandedOver, CabHandedOver
  <1>8. AcknowledgedHandedOver' /\ CabHandedOver' /\ NoPhantomOrder'
    BY <1>6, <1>7, HandedStep
  <1> QED
    BY <1>2, <1>8 DEF HandedInv, HallInv

\* At first nothing is acknowledged and nothing handed over.
LEMMA HandedInitial == Init \/ SteadyInit => HandedInv
  <1> SUFFICES ASSUME Init \/ SteadyInit PROVE HandedInv
    OBVIOUS
  <1>1. HallInv /\ CabTraceInv
    BY HallInvInitial, CabTraceInitial
  <1>2. \A n \in Node : /\ \A c \in HallCell : hall[n][c] = NoCall
                        /\ \A f \in Floor : LocalCab(n, f) = NoCall
                        /\ assignable[n] = {}
    <2>1. \A n \in Node, f \in Floor : LocalCab(n, f) = NoCall
      BY SMT DEF Init, SteadyInit, BootList, BootEntry, LocalCab
    <2>2. \A n \in Node, c \in HallCell : hall[n][c] = NoCall
      BY DEF Init, SteadyInit, NoHall
    <2>3. \A n \in Node : assignable[n] = {}
      BY DEF Init, SteadyInit
    <2> QED
      BY <2>1, <2>2, <2>3
  <1>3. \A c \in HallCell : c[1] \in Floor
    BY DEF HallCell
  <1>4. AcknowledgedHandedOver /\ CabHandedOver /\ NoPhantomOrder
    BY <1>2, <1>3, StatesAreNumbers
       DEF AcknowledgedHandedOver, CabHandedOver, NoPhantomOrder
  <1> QED
    BY <1>1, <1>4 DEF HandedInv, HallInv

\* Hence it holds in every reachable state.
LEMMA HandedHolds == Spec \/ SteadySpec => []HandedInv
  BY HandedInitial, HandedInductive, PTL DEF Spec, SteadySpec

\* Whatever crashes, is lost or is late, no node shows an acknowledged hall order, nor
\* one of its cab orders as long as it has not crashed, that its assigner has not been
\* handed: the lamp never promises an order that waits for the next tick.
THEOREM AcknowledgedIsHandedOver ==
    Spec \/ SteadySpec => [](AcknowledgedHandedOver /\ CabHandedOver)
  <1>1. HandedInv => AcknowledgedHandedOver /\ CabHandedOver
    BY DEF HandedInv
  <1> QED
    BY <1>1, HandedHolds, PTL

\* No elevator is ever sent for a call nobody made: what the assigner may be handed
\* goes back to a button pressed in the hall, or in that very car.
THEOREM NobodyServesPhantoms == Spec \/ SteadySpec => []NoPhantomOrder
  <1>1. HandedInv => NoPhantomOrder
    BY DEF HandedInv
  <1> QED
    BY <1>1, HandedHolds, PTL

-----------------------------------------------------------------------------
(* The elevator reports: position and malfunction flag, as every node      *)
(* lists them of every other.  ElevatorViewRefreshed is a property of      *)
(* FairSteadySpec; these are the safety facts behind it, for any number of *)
(* elevators and crashes and however old the entries that are passed on.   *)

\* What list says of the elevator of n, if anything, is one of S.
Tells(list, n, S) == list[n] # None => list[n].elev \in S

\* Every report of n that is listed or on its way is one of S.
ReportsWithin(n, S) ==
    /\ \A m \in Node : Tells(nodes[m], n, S)
    /\ \A m \in Node : \A i \in 1 .. Len(inbox[m]) : Tells(inbox[m][i].list, n, S)

\* Once every copy of the report of n agrees with its own, they stay so until it
\* reports anew.
ReportSettles ==
    [][\A n \in Node, e \in Elevator :
          ReportsWithin(n, {e}) /\ nodes'[n][n].elev = e => ReportsWithin(n, {e})']_vars

\* Where the entry of n at another node comes from: it was there, or it stands in
\* the frame just read, or the node has crashed and knows of nobody.
LEMMA EntryFrom ==
    ASSUME TypeOK, [Next]_vars, NEW n \in Node, NEW m \in Node \ {n}
    PROVE  \/ nodes'[m][n] \in {nodes[m][n], None}
           \/ inbox[m] # <<>> /\ nodes'[m][n] = inbox[m][1].list[n]
  <1>t. nodes \in [Node -> NodeList] /\ \A a \in Node : nodes[a] \in [Node -> NodeEntry \cup {None}]
    BY DEF TypeOK, NodeList
  <1>1. ASSUME NEW a \in Node, NEW cabs, SetOwnCabs(a, cabs) PROVE nodes'[m][n] = nodes[m][n]
    BY <1>t, <1>1 DEF SetOwnCabs
  <1>2. ASSUME NEW a \in Node, NEW elev, SetOwnElevator(a, elev) PROVE nodes'[m][n] = nodes[m][n]
    BY <1>t, <1>2 DEF SetOwnElevator
  <1>3. UNCHANGED nodes => nodes'[m][n] = nodes[m][n]
    OBVIOUS
  <1>4. ASSUME NEW a \in Node, MergePeer(a)
        PROVE  \/ nodes'[m][n] = nodes[m][n]
               \/ inbox[m] # <<>> /\ nodes'[m][n] = inbox[m][1].list[n]
    <2>1. PICK wv, cabs : wv = Head(inbox[a]) /\ NodesMerge(a, wv, cabs) /\ InboxRead(a)
      BY <1>4 DEF MergePeer, NodesMerge, InboxRead
    <2>2. wv = inbox[a][1] /\ inbox[a] # <<>>
      BY <2>1, FramesRead DEF InboxRead
    <2>3. nodes'[m] = IF m = a THEN MergeNodes(a, wv, cabs) ELSE nodes[m]
      BY <2>1 DEF NodesMerge, TypeOK
    <2>4. m = a => nodes'[m][n] = IF wv.list[n] # None THEN wv.list[n] ELSE nodes[m][n]
      BY <2>3 DEF MergeNodes
    <2> QED
      BY <2>2, <2>3, <2>4
  <1>5. ASSUME NEW a \in Node, Crash(a) PROVE nodes'[m][n] \in {nodes[m][n], None}
    BY <1>t, <1>5 DEF Crash, BootList
  <1>6. ASSUME NEW a \in Node,
               \/ OraTick(a) \/ \E f \in Floor : NewCabOrder(a, f)
               \/ \E c \in HallCell : OrderComplete(a, c)
        PROVE  nodes'[m][n] = nodes[m][n]
    <2>1. \E cabs : SetOwnCabs(a, cabs)
      BY <1>6 DEF OraTick, NewCabOrder, OrderComplete
    <2> QED
      BY <1>1, <2>1
  <1>7. ASSUME NEW a \in Node,
               \/ \E x \in MalfReport : Malfunction(a, x)
               \/ \E p \in PositionReport, receivers \in SUBSET Hearers :
                     ElevState(a, p, receivers)
        PROVE  nodes'[m][n] = nodes[m][n]
    <2>1. \E elev : SetOwnElevator(a, elev)
      BY <1>7 DEF Malfunction, ElevState
    <2> QED
      BY <1>2, <2>1
  <1>8. ASSUME NEW a \in Node,
               \/ \E receivers \in SUBSET Hearers : BroadcastTick(a, receivers)
               \/ \E c \in HallCell : NewHallOrder(a, c)
               \/ \E new \in Node \cup {None}, lost \in SUBSET Node :
                     UpdateAliveList(a, new, lost)
               \/ Restart(a)
        PROVE  UNCHANGED nodes
    BY <1>8 DEF BroadcastTick, NewHallOrder, UpdateAliveList, Restart, om
  <1>9. CASE UNCHANGED vars
    BY <1>9 DEF vars, om
  <1>10. CASE Next
    <2>1. PICK a \in Node :
             \/ \E receivers \in SUBSET Hearers : BroadcastTick(a, receivers)
             \/ OraTick(a)
             \/ MergePeer(a)
             \/ \E c \in HallCell : NewHallOrder(a, c)
             \/ \E f \in Floor : NewCabOrder(a, f)
             \/ \E c \in HallCell : OrderComplete(a, c)
             \/ \E x \in MalfReport : Malfunction(a, x)
             \/ \E p \in PositionReport, receivers \in SUBSET Hearers :
                   ElevState(a, p, receivers)
             \/ \E new \in Node \cup {None}, lost \in SUBSET Node :
                   UpdateAliveList(a, new, lost)
             \/ Crash(a) \/ Restart(a)
      BY <1>10, Zenon DEF Next
    <2> QED
      BY <2>1, <1>3, <1>4, <1>5, <1>6, <1>7, <1>8
  <1> QED
    BY <1>9, <1>10

\* The channel of m in a step: the frames in it stay or move up by one, or are gone,
Keeps(m) ==
    \E d \in {0, 1} : \A i \in 1 .. Len(inbox'[m]) :
        i + d \in 1 .. Len(inbox[m]) /\ inbox'[m][i] = inbox[m][i + d]

\* or a running node a has sent them its list, which goes to the end.
Gets(m, a) ==
    \A i \in 1 .. Len(inbox'[m]) :
        \/ i \in 1 .. Len(inbox[m]) /\ inbox'[m][i] = inbox[m][i]
        \/ /\ i = Len(inbox'[m]) /\ i \notin 1 .. Len(inbox[m])
           /\ inbox'[m][i].from = a /\ inbox'[m][i].list \in {nodes[a], nodes'[a]}
SendsList(a) ==
    /\ up[a] /\ peerWorldviews' = peerWorldviews
    /\ nodes' = nodes \/ \E elev : SetOwnElevator(a, elev)

LEMMA FramesGot ==
    ASSUME TypeOK, NEW wv \in Worldview, NEW receivers, Broadcast(wv, receivers),
           NEW m \in Node, NEW a, wv.from = a, wv.list \in {nodes[a], nodes'[a]}
    PROVE  Gets(m, a)
  <1>1. inbox[m] \in Seq(Worldview)
    BY DEF TypeOK
  <1>2. inbox'[m] = inbox[m] \/ inbox'[m] = Append(inbox[m], wv)
    BY DEF Broadcast
  <1>3. CASE inbox'[m] = inbox[m]
    BY <1>3 DEF Gets
  <1>4. CASE inbox'[m] = Append(inbox[m], wv)
    <2>1. /\ Len(inbox'[m]) = Len(inbox[m]) + 1 /\ inbox'[m][Len(inbox[m]) + 1] = wv
          /\ Len(inbox[m]) \in Nat
          /\ \A i \in 1 .. Len(inbox[m]) : inbox'[m][i] = inbox[m][i]
      BY <1>1, <1>4, SMT
    <2>2. ASSUME NEW i \in 1 .. Len(inbox'[m])
          PROVE  i \in 1 .. Len(inbox[m]) \/ (i = Len(inbox[m]) + 1 /\ i \notin 1 .. Len(inbox[m]))
      BY <2>1
    <2> QED
      BY <2>1, <2>2 DEF Gets
  <1> QED
    BY <1>2, <1>3, <1>4

LEMMA FramesMoved ==
    ASSUME TypeOK, [Next]_vars, NEW m \in Node
    PROVE  Keeps(m) \/ \E a \in Node : Gets(m, a) /\ SendsList(a)
  <1>t. TypeOK'
    BY NextTyped
  <1>1. ASSUME NEW a \in Node, NEW receivers, BroadcastTick(a, receivers)
        PROVE  Gets(m, a) /\ SendsList(a)
    <2>1. /\ LocalWv(a) \in Worldview /\ LocalWv(a).from = a /\ LocalWv(a).list = nodes[a]
          /\ Broadcast(LocalWv(a), receivers)
      BY <1>1, LocalWvTyped DEF LocalWv, BroadcastTick
    <2>2. SendsList(a)
      BY <1>1 DEF SendsList, BroadcastTick, om
    <2> QED
      BY <2>1, <2>2, FramesGot
  <1>2. ASSUME NEW a \in Node, NEW p, NEW receivers, ElevState(a, p, receivers)
        PROVE  Gets(m, a) /\ SendsList(a)
    <2> DEFINE wv == [from |-> a, hall |-> hall[a], list |-> nodes'[a]]
    <2>1. wv \in Worldview
      BY <1>t DEF TypeOK, Worldview
    <2>2. Broadcast(wv, receivers) /\ wv.list = nodes'[a] /\ wv.from = a
      BY <1>2 DEF ElevState
    <2>3. SendsList(a)
      BY <1>2 DEF SendsList, ElevState
    <2> HIDE DEF wv
    <2> QED
      BY <2>1, <2>2, <2>3, FramesGot
  <1>3. inbox'[m] = inbox[m] => Keeps(m)
    <2> SUFFICES ASSUME inbox'[m] = inbox[m] PROVE Keeps(m)
      OBVIOUS
    <2>1. \A i \in 1 .. Len(inbox'[m]) : i + 0 \in 1 .. Len(inbox[m]) /\ inbox'[m][i] = inbox[m][i + 0]
      BY SMT
    <2> QED
      BY <2>1 DEF Keeps
  <1>4. inbox'[m] = <<>> => Keeps(m)
    <2> SUFFICES ASSUME inbox'[m] = <<>> PROVE Keeps(m)
      OBVIOUS
    <2>1. 1 .. Len(inbox'[m]) = {}
      BY SMT
    <2> QED
      BY <2>1 DEF Keeps
  <1>5. ASSUME NEW a \in Node, MergePeer(a)
        PROVE  Keeps(m)
    <2>1. CASE a = m
      <3>1. InboxRead(m)
        BY <1>5, <2>1 DEF MergePeer, InboxRead
      <3>2. \A i \in 1 .. Len(inbox'[m]) : i + 1 \in 1 .. Len(inbox[m]) /\ inbox'[m][i] = inbox[m][i + 1]
        BY <3>1, FramesRead
      <3> QED
        BY <3>2 DEF Keeps
    <2>2. CASE a # m
      BY <1>3, <1>5, <2>2 DEF MergePeer, TypeOK
    <2> QED
      BY <2>1, <2>2
  <1>6. ASSUME NEW a \in Node, Crash(a) PROVE Keeps(m)
    <2>1. inbox'[m] \in {<<>>, inbox[m]}
      BY <1>6 DEF Crash, TypeOK
    <2> QED
      BY <1>3, <1>4, <2>1
  <1>7. ASSUME NEW a \in Node,
               \/ OraTick(a) \/ \E c \in HallCell : NewHallOrder(a, c)
               \/ \E f \in Floor : NewCabOrder(a, f)
               \/ \E c \in HallCell : OrderComplete(a, c)
               \/ \E x \in MalfReport : Malfunction(a, x)
               \/ \E new \in Node \cup {None}, lost \in SUBSET Node :
                     UpdateAliveList(a, new, lost)
               \/ Restart(a)
        PROVE  Keeps(m)
    <2>1. UNCHANGED inbox
      BY <1>7 DEF OraTick, NewHallOrder, NewCabOrder, OrderComplete, Malfunction,
                  UpdateAliveList, Restart
    <2> QED
      BY <1>3, <2>1
  <1>8. CASE UNCHANGED vars
    BY <1>3, <1>8 DEF vars
  <1>9. CASE Next
    <2>1. PICK a \in Node :
             \/ \E receivers \in SUBSET Hearers : BroadcastTick(a, receivers)
             \/ OraTick(a)
             \/ MergePeer(a)
             \/ \E c \in HallCell : NewHallOrder(a, c)
             \/ \E f \in Floor : NewCabOrder(a, f)
             \/ \E c \in HallCell : OrderComplete(a, c)
             \/ \E x \in MalfReport : Malfunction(a, x)
             \/ \E p \in PositionReport, receivers \in SUBSET Hearers :
                   ElevState(a, p, receivers)
             \/ \E new \in Node \cup {None}, lost \in SUBSET Node :
                   UpdateAliveList(a, new, lost)
             \/ Crash(a) \/ Restart(a)
      BY <1>9, Zenon DEF Next
    <2>2. CASE \/ \E receivers \in SUBSET Hearers : BroadcastTick(a, receivers)
               \/ \E p \in PositionReport, receivers \in SUBSET Hearers :
                     ElevState(a, p, receivers)
      BY <1>1, <1>2, <2>2
    <2>3. CASE MergePeer(a) \/ Crash(a)
      BY <1>5, <1>6, <2>3
    <2> QED
      BY <2>1, <2>2, <2>3, <1>7
  <1> QED
    BY <1>8, <1>9

\* Where a frame comes from: it was on its way, or a node has just sent its list.
LEMMA FrameFrom ==
    ASSUME TypeOK, [Next]_vars, NEW m \in Node, NEW i \in 1 .. Len(inbox'[m])
    PROVE  \/ \E j \in 1 .. Len(inbox[m]) : inbox'[m][i] = inbox[m][j]
           \/ \E a \in Node : inbox'[m][i].list \in {nodes[a], nodes'[a]}
  BY FramesMoved DEF Keeps, Gets

\* No step spreads a report of n but one that n has itself.
LEMMA ReportStep ==
    ASSUME TypeOK, [Next]_vars, NEW n \in Node, NEW S, ReportsWithin(n, S),
           nodes'[n][n].elev \in S
    PROVE  ReportsWithin(n, S)'
  <1>1. ASSUME NEW m \in Node PROVE nodes'[m][n] # None => nodes'[m][n].elev \in S
    <2>1. CASE m = n
      BY <2>1
    <2>2. CASE m # n
      <3>1. inbox[m] \in Seq(Worldview)
        BY DEF TypeOK
      <3>2. inbox[m] # <<>> => 1 \in 1 .. Len(inbox[m])
        BY <3>1, SMT
      <3> QED
        BY <2>2, <3>2, EntryFrom DEF ReportsWithin, Tells
    <2> QED
      BY <2>1, <2>2
  <1>2. ASSUME NEW m \in Node, NEW i \in 1 .. Len(inbox'[m])
        PROVE  inbox'[m][i].list[n] # None => inbox'[m][i].list[n].elev \in S
    <2>1. CASE \E j \in 1 .. Len(inbox[m]) : inbox'[m][i] = inbox[m][j]
      BY <2>1 DEF ReportsWithin, Tells
    <2>2. CASE \E a \in Node : inbox'[m][i].list \in {nodes[a], nodes'[a]}
      BY <1>1, <2>2 DEF ReportsWithin, Tells
    <2> QED
      BY <2>1, <2>2, FrameFrom
  <1> QED
    BY <1>1, <1>2 DEF ReportsWithin, Tells

\* No elevator is assigned calls on a report its node never made: every copy of the
\* position and the malfunction flag of n, wherever it is listed or on its way and
\* through however many hands it went, is one n itself had - or the one a node
\* starts with, which n has too.
THEOREM ReportsAreTheirOwners ==
    ASSUME NEW n \in Node, NEW S
    PROVE  (Spec \/ SteadySpec) /\ [](nodes[n][n].elev \in S) => []ReportsWithin(n, S)
  <1>1. Init \/ SteadyInit => (nodes[n][n].elev \in S => ReportsWithin(n, S))
    <2> SUFFICES ASSUME Init \/ SteadyInit, nodes[n][n].elev \in S PROVE ReportsWithin(n, S)
      OBVIOUS
    <2>1. \A m \in Node : inbox[m] = <<>> /\ nodes[m][n] \in {None, BootEntry}
      BY DEF Init, SteadyInit, BootList
    <2>2. nodes[n][n] = BootEntry
      BY DEF Init, SteadyInit, BootList
    <2>3. Len(<<>>) = 0
      BY SMT
    <2> QED
      BY <2>1, <2>2, <2>3 DEF ReportsWithin, Tells
  <1>2. TypeOK /\ ReportsWithin(n, S) /\ nodes'[n][n].elev \in S /\ [Next]_vars
           => ReportsWithin(n, S)'
    BY ReportStep
  <1>3. (nodes[n][n].elev \in S)' <=> nodes'[n][n].elev \in S
    OBVIOUS
  <1> QED
    BY <1>1, <1>2, <1>3, TypeCorrect, PTL DEF Spec, SteadySpec

\* When the report of n has reached everybody and no older one is on its way, no
\* frame passed on by a third node and no restart brings an older one back.
THEOREM SettledReportsStay == Spec \/ SteadySpec => ReportSettles
  <1>1. TypeOK /\ [Next]_vars =>
          [\A n \in Node, e \in Elevator :
              ReportsWithin(n, {e}) /\ nodes'[n][n].elev = e => ReportsWithin(n, {e})']_vars
    <2> SUFFICES ASSUME TypeOK, [Next]_vars, NEW n \in Node, NEW e \in Elevator,
                        ReportsWithin(n, {e}), nodes'[n][n].elev = e
                 PROVE  ReportsWithin(n, {e})'
      OBVIOUS
    <2> QED
      BY ReportStep
  <1> QED
    BY <1>1, TypeCorrect, PTL DEF Spec, SteadySpec, ReportSettles
-----------------------------------------------------------------------------
(* The frames that carry a cab call to the other elevators.  Copies may    *)
(* fall back, since everybody passes on what it lists of everybody; what   *)
(* its own node sends does not.                                            *)

\* The answer n has of m is one it had, or stands in the frame of m it has just read,
\* or is gone.
LEMMA AnswerFrom ==
    ASSUME TypeOK, [Next]_vars, NEW n \in Node, NEW m \in Node, NEW f \in Floor
    PROVE  \/ Answer(n, m, f)' \in {Answer(n, m, f), NoCall}
           \/ /\ 1 \in 1 .. Len(inbox[n]) /\ inbox[n][1].from = m
              /\ Answer(n, m, f)' = Shows(n, 1, n, f)
  <1>1. peerWorldviews \in [Node -> [Node -> StoredWorldview \cup {None}]]
    BY DEF TypeOK
  <1>2. UNCHANGED peerWorldviews => Answer(n, m, f)' = Answer(n, m, f)
    BY DEF Answer
  <1>3. ASSUME NEW a \in Node, Crash(a)
        PROVE  Answer(n, m, f)' \in {Answer(n, m, f), NoCall}
    <2>1. peerWorldviews'[n][m] \in {None, peerWorldviews[n][m]}
      BY <1>1, <1>3 DEF Crash
    <2> QED
      BY <2>1 DEF Answer, Answered
  <1>4. ASSUME NEW a \in Node, MergePeer(a)
        PROVE  \/ Answer(n, m, f)' \in {Answer(n, m, f), NoCall}
               \/ /\ 1 \in 1 .. Len(inbox[n]) /\ inbox[n][1].from = m
                  /\ Answer(n, m, f)' = Shows(n, 1, n, f)
    <2>1. PICK wv : wv = Head(inbox[a])
      OBVIOUS
    <2>2. /\ peerWorldviews' = [peerWorldviews EXCEPT ![a] = Remember(a, wv)]
          /\ InboxRead(a)
      BY <1>4, <2>1 DEF MergePeer, InboxRead
    <2>3. 1 \in 1 .. Len(inbox[a]) /\ wv = inbox[a][1]
      BY <2>1, <2>2, FramesRead
    <2>4. CASE a # n
      BY <1>1, <2>2, <2>4 DEF Answer
    <2>5. CASE a = n
      <3> DEFINE entry == [hall |-> wv.hall,
                           cab  |-> IF wv.list[n] = None THEN None ELSE wv.list[n].cab]
      <3>1. peerWorldviews'[n] = Remember(n, wv)
        BY <1>1, <2>2, <2>5
      <3>2. \/ peerWorldviews'[n][m] = peerWorldviews[n][m]
            \/ wv.from = m /\ peerWorldviews'[n][m] = entry
        BY <1>1, <3>1 DEF Remember
      <3>3. Answered(entry, f) \in {NoCall, Listed(wv.list, n, f)}
        BY DEF Answered, Listed
      <3> HIDE DEF entry
      <3> QED
        BY <2>3, <2>5, <3>2, <3>3 DEF Answer, Shows
    <2> QED
      BY <2>4, <2>5
  <1>5. ASSUME NEW a \in Node, NEW x, NEW y,
               \/ BroadcastTick(a, x) \/ OraTick(a) \/ NewHallOrder(a, x) \/ NewCabOrder(a, x)
               \/ OrderComplete(a, x) \/ Malfunction(a, x) \/ ElevState(a, x, y)
               \/ UpdateAliveList(a, x, y) \/ Restart(a)
        PROVE  UNCHANGED peerWorldviews
    BY <1>5 DEF BroadcastTick, OraTick, NewHallOrder, NewCabOrder, OrderComplete, Malfunction,
                ElevState, UpdateAliveList, Restart, om
  <1>6. UNCHANGED vars => UNCHANGED peerWorldviews
    BY DEF vars, om
  <1> QED
    BY <1>2, <1>3, <1>4, <1>5, <1>6 DEF Next

\* The own entry is there after a step, too.
LEMMA OwnCopyStays ==
    ASSUME TypeOK, [Next]_vars, NEW n \in Node, NEW f \in Floor
    PROVE  /\ Copy(n, n, f)' = LocalCab(n, f)' /\ LocalCab(n, f)' \in OrderState
           /\ LocalCab(n, f) \in OrderState
  <1>1. TypeOK'
    BY NextTyped
  <1>2. nodes'[n][n] # None /\ nodes'[n][n] \in NodeEntry
    BY <1>1, NodeAssumption DEF TypeOK
  <1> QED
    BY <1>2, OwnCopy DEF Copy, Listed, LocalCab, NodeEntry

\* What others show of a cab request has been there or comes from its own node: the
\* traces stay within S if the request does.
LEMMA CabSpreads ==
    ASSUME TypeOK, [Next]_vars, NEW n \in Node, NEW f \in Floor, NEW S, NoCall \in S,
           CabTracesIn(n, f, S), LocalCab(n, f)' \in S
    PROVE  CabTracesIn(n, f, S)'
  <1>1. \A m \in Node : inbox[m] # <<>> => 1 \in 1 .. Len(inbox[m])
    <2>1. \A m \in Node : inbox[m] \in Seq(Worldview)
      BY DEF TypeOK
    <2> QED
      BY <2>1, SMT
  <1>2. \A m \in Node : Copy(n, m, f)' \in S
    <2> SUFFICES ASSUME NEW m \in Node PROVE Copy(n, m, f)' \in S
      OBVIOUS
    <2>1. CASE m = n
      BY <2>1, OwnCopyStays
    <2>2. CASE m # n
      <3>1. CASE nodes'[m][n] \in {nodes[m][n], None}
        BY <3>1 DEF CabTracesIn, Copy, Listed
      <3>2. CASE inbox[m] # <<>> /\ nodes'[m][n] = inbox[m][1].list[n]
        BY <1>1, <3>2 DEF CabTracesIn, Copy, Shows, Listed
      <3> QED
        BY <2>2, <3>1, <3>2, EntryFrom
    <2> QED
      BY <2>1, <2>2
  <1>3. \A m \in Node : Answer(n, m, f)' \in S
    BY AnswerFrom DEF CabTracesIn
  <1>4. ASSUME NEW m \in Node, NEW i \in 1 .. Len(inbox'[m])
        PROVE  Shows(m, i, n, f)' \in S
    <2>1. CASE \E j \in 1 .. Len(inbox[m]) : inbox'[m][i] = inbox[m][j]
      BY <2>1 DEF CabTracesIn, Shows
    <2>2. CASE \E a \in Node : inbox'[m][i].list \in {nodes[a], nodes'[a]}
      BY <1>2, <2>2 DEF CabTracesIn, Shows, Copy
    <2> QED
      BY <2>1, <2>2, FrameFrom
  <1> QED
    BY <1>2, <1>3, <1>4 DEF CabTracesIn

\* Nothing m lists of the request, nothing n has heard or is about to hear from m about
\* it and no frame before it in the channel is ahead of a frame of n on its way to m.
Behind(n, m, f) ==
    \A j \in 1 .. Len(inbox[m]) : inbox[m][j].from = n =>
        /\ Copy(n, m, f) <= Shows(m, j, n, f)
        /\ Answer(n, m, f) <= Shows(m, j, n, f)
        /\ \A i \in 1 .. Len(inbox[m]) : i < j => Shows(m, i, n, f) <= Shows(m, j, n, f)
        /\ \A i \in 1 .. Len(inbox[n]) :
              inbox[n][i].from = m => Shows(n, i, n, f) <= Shows(m, j, n, f)

\* A broadcast leaves every cab request and every copy as it is.
LEMMA SendsNoCab ==
    ASSUME TypeOK, TypeOK', NEW a \in Node, SendsList(a), NEW n \in Node, NEW m \in Node,
           NEW f \in Floor
    PROVE  Copy(n, m, f)' = Copy(n, m, f)
  <1>1. CASE nodes' = nodes
    BY <1>1 DEF Copy
  <1>2. CASE \E elev : SetOwnElevator(a, elev)
    BY <1>2, CopiesReported
  <1> QED
    BY <1>1, <1>2 DEF SendsList

\* It stays so while the request is the highest trace there is of itself.
LEMMA BehindKept ==
    ASSUME TypeOK, [Next]_vars, NEW n \in Node, NEW m \in Node \ {n}, NEW f \in Floor,
           Behind(n, m, f), up[n] => CabTracesIn(n, f, 0 .. LocalCab(n, f))
    PROVE  Behind(n, m, f)'
  <1>t. TypeOK'
    BY NextTyped
  <1> DEFINE Then(j) == /\ Copy(n, m, f)' <= Shows(m, j, n, f)'
                        /\ Answer(n, m, f)' <= Shows(m, j, n, f)'
                        /\ \A i \in 1 .. Len(inbox'[m]) :
                              i < j => Shows(m, i, n, f)' <= Shows(m, j, n, f)'
                        /\ \A i \in 1 .. Len(inbox'[n]) :
                              inbox'[n][i].from = m => Shows(n, i, n, f)' <= Shows(m, j, n, f)'
  <1> SUFFICES ASSUME NEW j \in 1 .. Len(inbox'[m]), inbox'[m][j].from = n PROVE Then(j)
    BY DEF Behind
  <1>n. /\ Copy(n, m, f) \in OrderState /\ Answer(n, m, f) \in OrderState
        /\ \A a \in Node : \A i \in 1 .. Len(inbox[a]) : Shows(a, i, n, f) \in OrderState
    BY CabNumbers
  <1>l. \A a \in Node : Len(inbox[a]) \in Nat /\ (inbox[a] # <<>> => 1 \in 1 .. Len(inbox[a]))
    <2>1. \A a \in Node : inbox[a] \in Seq(Worldview)
      BY DEF TypeOK
    <2> QED
      BY <2>1, SMT
  \* A frame of n that was on its way before the step is as far ahead as before.
  <1>1. ASSUME NEW k \in 1 .. Len(inbox[m]), inbox'[m][j] = inbox[m][k],
               \A i \in 1 .. Len(inbox'[m]) : i < j =>
                  \E h \in 1 .. Len(inbox[m]) : h < k /\ inbox'[m][i] = inbox[m][h]
        PROVE  Then(j)
    <2>1. /\ Shows(m, j, n, f)' = Shows(m, k, n, f) /\ Shows(m, k, n, f) \in 0 .. 3
          /\ Copy(n, m, f) <= Shows(m, k, n, f) /\ Answer(n, m, f) <= Shows(m, k, n, f)
          /\ \A h \in 1 .. Len(inbox[m]) : h < k => Shows(m, h, n, f) <= Shows(m, k, n, f)
          /\ \A h \in 1 .. Len(inbox[n]) :
                inbox[n][h].from = m => Shows(n, h, n, f) <= Shows(m, k, n, f)
      BY <1>1, <1>n, StatesAreNumbers DEF Behind, Shows
    <2>2. Copy(n, m, f)' <= Shows(m, k, n, f)
      <3>1. CASE nodes'[m][n] = nodes[m][n]
        BY <2>1, <3>1 DEF Copy, Listed
      <3>2. CASE nodes'[m][n] = None
        BY <2>1, <3>2, StatesAreNumbers DEF Copy, Listed
      <3>3. CASE inbox[m] # <<>> /\ nodes'[m][n] = inbox[m][1].list[n]
        <4>1. Copy(n, m, f)' = Shows(m, 1, n, f) /\ 1 \in 1 .. Len(inbox[m])
          BY <1>l, <3>3 DEF Copy, Shows, Listed
        <4>2. 1 = k \/ 1 < k
          BY <1>1, <1>l
        <4> QED
          BY <2>1, <4>1, <4>2
      <3> QED
        BY <3>1, <3>2, <3>3, EntryFrom
    <2>3. Answer(n, m, f)' <= Shows(m, k, n, f)
      BY <2>1, AnswerFrom, StatesAreNumbers
    <2>4. ASSUME NEW i \in 1 .. Len(inbox'[m]), i < j
          PROVE  Shows(m, i, n, f)' <= Shows(m, k, n, f)
      <3>1. PICK h \in 1 .. Len(inbox[m]) : h < k /\ inbox'[m][i] = inbox[m][h]
        BY <1>1, <2>4
      <3>2. Shows(m, i, n, f)' = Shows(m, h, n, f)
        BY <3>1 DEF Shows
      <3> QED
        BY <2>1, <3>1, <3>2
    <2>5. ASSUME NEW i \in 1 .. Len(inbox'[n]), inbox'[n][i].from = m
          PROVE  Shows(n, i, n, f)' <= Shows(m, k, n, f)
      <3>1. CASE \E h \in 1 .. Len(inbox[n]) : inbox'[n][i] = inbox[n][h]
        <4>1. PICK h \in 1 .. Len(inbox[n]) : inbox'[n][i] = inbox[n][h]
          BY <3>1
        <4>2. Shows(n, i, n, f)' = Shows(n, h, n, f) /\ inbox[n][h].from = m
          BY <2>5, <4>1 DEF Shows
        <4> QED
          BY <2>1, <4>2
      <3>2. CASE ~ \E h \in 1 .. Len(inbox[n]) : inbox'[n][i] = inbox[n][h]
        <4>1. inbox'[n][i].list \in {nodes[m], nodes'[m]}
          BY <2>5, <3>2, FramesMoved DEF Keeps, Gets
        <4>2. Shows(n, i, n, f)' \in {Copy(n, m, f), Copy(n, m, f)'}
          BY <4>1 DEF Shows, Copy
        <4> QED
          BY <2>1, <2>2, <4>2
      <3> QED
        BY <3>1, <3>2
    <2> QED
      BY <2>1, <2>2, <2>3, <2>4, <2>5
  \* A frame that n has just sent shows the request as it is.
  <1>2. ASSUME SendsList(n), inbox'[m][j].list \in {nodes[n], nodes'[n]}, j = Len(inbox'[m])
        PROVE  Then(j)
    <2>1. PICK own : own = LocalCab(n, f)
      OBVIOUS
    <2>2. /\ own \in OrderState /\ LocalCab(n, f)' = own /\ Copy(n, n, f) = own
          /\ Copy(n, n, f)' = own
      BY <1>t, <1>2, <2>1, SendsNoCab, OwnCopy, OwnCopyStays
    <2>3. CabTracesIn(n, f, 0 .. own)
      BY <1>2, <2>1 DEF SendsList
    <2>4. own \in 0 .. own /\ NoCall \in 0 .. own
      BY <2>2, StatesAreNumbers
    <2>5. CabTracesIn(n, f, 0 .. own)'
      BY <2>2, <2>3, <2>4, CabSpreads
    <2>6. Shows(m, j, n, f)' = own
      BY <1>2, <2>2 DEF Shows, Copy
    <2> QED
      BY <2>5, <2>6 DEF CabTracesIn
  <1>3. CASE Keeps(m)
    <2>1. PICK d \in {0, 1} : \A i \in 1 .. Len(inbox'[m]) :
             i + d \in 1 .. Len(inbox[m]) /\ inbox'[m][i] = inbox[m][i + d]
      BY <1>3 DEF Keeps
    <2>2. \A i \in 1 .. Len(inbox'[m]) : i < j =>
             \E h \in 1 .. Len(inbox[m]) : h < j + d /\ inbox'[m][i] = inbox[m][h]
      <3> SUFFICES ASSUME NEW i \in 1 .. Len(inbox'[m]), i < j
                   PROVE  i + d \in 1 .. Len(inbox[m]) /\ i + d < j + d
                          /\ inbox'[m][i] = inbox[m][i + d]
        OBVIOUS
      <3> QED
        BY <2>1
    <2> HIDE DEF Then
    <2> QED
      BY <1>1, <2>1, <2>2
  <1>4. ASSUME NEW a \in Node, Gets(m, a), SendsList(a)
        PROVE  Then(j)
    <2>1. CASE j \in 1 .. Len(inbox[m]) /\ inbox'[m][j] = inbox[m][j]
      <3>1. ASSUME NEW i \in 1 .. Len(inbox'[m]), i < j
            PROVE  i \in 1 .. Len(inbox[m]) /\ inbox'[m][i] = inbox[m][i]
        <4>1. i \in 1 .. Len(inbox[m])
          BY <1>l, <2>1, <3>1
        <4> QED
          BY <1>4, <4>1 DEF Gets
      <3> HIDE DEF Then
      <3> QED
        BY <1>1, <2>1, <3>1
    <2>2. CASE /\ j = Len(inbox'[m]) /\ inbox'[m][j].from = a
               /\ inbox'[m][j].list \in {nodes[a], nodes'[a]}
      <3> HIDE DEF Then
      <3> QED
        BY <1>2, <1>4, <2>2
    <2> HIDE DEF Then
    <2> QED
      BY <1>4, <2>1, <2>2 DEF Gets
  <1> HIDE DEF Then
  <1> QED
    BY <1>3, <1>4, FramesMoved

\* A cab request becomes acknowledged only by a step of its own node, which has then
\* heard of it from everyone it counts alive (allAliveCabAtOrAbove).
LEMMA CabAcknowledged ==
    ASSUME TypeOK, [Next]_vars, NEW n \in Node, NEW f \in Floor,
           LocalCab(n, f) \in {NoCall, Exist}, LocalCab(n, f)' = Acknowledged,
           up[n] => CabTracesIn(n, f, 0 .. LocalCab(n, f))
    PROVE  /\ up[n]
           /\ \A m \in Node \ {n} : alive[n][m] = "alive" => Answer(n, m, f)' >= Exist
  <1> DEFINE own == LocalCab(n, f)
             own2 == LocalCab(n, f)'
             Heard == up[n] /\ \A m \in Node \ {n} :
                                  alive[n][m] = "alive" => Answer(n, m, f)' >= Exist
  <1>1. TypeOK' /\ own2 = Copy(n, n, f)' /\ own = Copy(n, n, f)
    BY NextTyped, OwnCopy, OwnCopyStays
  <1>2. own2 # own /\ own \in {NoCall, Exist, Acknowledged}
    BY StatesAreNumbers
  <1>3. nodes[n][n].cab \in [Floor -> OrderState]
    BY DEF TypeOK, NodeEntry
  <1>4. ASSUME NEW a \in Node, NEW cabs, SetOwnCabs(a, cabs), a = n => Heard \/ cabs[f] = own
        PROVE  Heard
    BY <1>1, <1>2, <1>4, CopiesOwn
  <1>5. \A stored : ConsensusCab(n, own, stored, alive[n], f) = Acknowledged =>
           \A m \in Node \ {n} : alive[n][m] = "alive" => Answered(stored[m], f) >= Exist
    <2> SUFFICES ASSUME NEW stored, ConsensusCab(n, own, stored, alive[n], f) = Acknowledged,
                        NEW m \in Node \ {n}, alive[n][m] = "alive"
                 PROVE  Answered(stored[m], f) >= Exist
      OBVIOUS
    <2> HIDE DEF own
    <2> QED
      BY <1>2, CabAnswered, StatesAreNumbers DEF own
  <1>6. PressCab(n, own, peerWorldviews[n], alive[n], f) = Acknowledged =>
           \A m \in Node \ {n} : alive[n][m] = "alive" => Answered(peerWorldviews[n][m], f) >= Exist
    <2> SUFFICES ASSUME PressCab(n, own, peerWorldviews[n], alive[n], f) = Acknowledged,
                        NEW m \in Node \ {n}, alive[n][m] = "alive"
                 PROVE  Answered(peerWorldviews[n][m], f) >= Exist
      OBVIOUS
    <2> HIDE DEF own
    <2> QED
      BY <1>2, CabAnswered, StatesAreNumbers DEF own
  <1>7. ASSUME NEW cabs, SetOwnCabs(n, cabs), up[n], UNCHANGED peerWorldviews,
               cabs[f] \in {own, ConsensusCab(n, own, peerWorldviews[n], alive[n], f),
                            PressCab(n, own, peerWorldviews[n], alive[n], f)}
        PROVE  Heard
    <2>1. own2 = cabs[f]
      BY <1>1, <1>7, CopiesOwn
    <2> HIDE DEF own
    <2> QED
      BY <1>2, <1>5, <1>6, <1>7, <2>1 DEF Answer
  <1>8. ASSUME NEW a \in Node, OraTick(a)
        PROVE  Heard
    <2> DEFINE cabs == ConsensusCabs(a, nodes[a][a].cab, peerWorldviews[a])
    <2>1. SetOwnCabs(a, cabs) /\ up[a] /\ UNCHANGED peerWorldviews
      BY <1>8 DEF OraTick
    <2>2. a = n => cabs[f] = ConsensusCab(n, own, peerWorldviews[n], alive[n], f)
      BY DEF LocalCab, ConsensusCabs
    <2> HIDE DEF cabs, own, own2, Heard
    <2> QED
      BY <1>4, <1>7, <2>1, <2>2
  <1>9. ASSUME NEW a \in Node, MergePeer(a)
        PROVE  Heard
    <2>1. PICK wv, cabs :
             /\ wv = Head(inbox[a])
             /\ cabs = ConsensusCabs(a, RecoverCabs(a, wv), Remember(a, wv))
             /\ NodesMerge(a, wv, cabs)
             /\ peerWorldviews' = [peerWorldviews EXCEPT ![a] = Remember(a, wv)]
             /\ up[a] /\ InboxRead(a)
      BY <1>9 DEF MergePeer, NodesMerge, InboxRead
    <2>2. wv \in Worldview /\ 1 \in 1 .. Len(inbox[a]) /\ wv = inbox[a][1]
      BY <2>1, HeadTyped, FramesRead DEF InboxRead
    <2>3. a = n
      BY <1>1, <1>2, <2>1, <2>2, CopiesMerged
    <2>4. RecoverCabs(n, wv)[f] = own
      <3>1. Listed(wv.list, n, f) <= own /\ own \in OrderState
        <4>1. CabTracesIn(n, f, 0 .. own)
          BY <2>1, <2>3
        <4>2. Shows(n, 1, n, f) \in 0 .. own
          BY <2>2, <2>3, <4>1 DEF CabTracesIn
        <4> QED
          BY <2>2, <2>3, <4>2, OwnCopy, StatesAreNumbers DEF Shows
      <3>2. own = NoCall => Listed(wv.list, n, f) \notin {Exist, Acknowledged}
        BY <3>1, StatesAreNumbers
      <3> QED
        BY <3>2 DEF RecoverCabs, RecoverCab, RecoversCab, Listed
    <2>5. own2 = ConsensusCab(n, own, Remember(n, wv), alive[n], f)
      <3>1. cabs[f] = ConsensusCab(n, own, Remember(n, wv), alive[n], f)
        BY <2>1, <2>3, <2>4 DEF ConsensusCabs
      <3> QED
        BY <1>1, <2>1, <2>2, <2>3, <3>1, CopiesMerged
    <2>6. peerWorldviews'[n] = Remember(n, wv)
      BY <2>1, <2>3 DEF TypeOK
    <2> HIDE DEF own
    <2> QED
      BY <1>5, <2>1, <2>3, <2>5, <2>6 DEF Answer
  <1>10. ASSUME NEW a \in Node, NEW g \in Floor, NewCabOrder(a, g)
         PROVE  Heard
    <2> DEFINE cabs == [nodes[a][a].cab EXCEPT ![g] =
                           PressCab(a, @, peerWorldviews[a], alive[a], g)]
    <2>1. SetOwnCabs(a, cabs) /\ up[a] /\ UNCHANGED peerWorldviews
      BY <1>10 DEF NewCabOrder
    <2>2. a = n => cabs[f] \in {own, PressCab(n, own, peerWorldviews[n], alive[n], f)}
      BY <1>3 DEF LocalCab
    <2> HIDE DEF cabs, own, own2, Heard
    <2> QED
      BY <1>4, <1>7, <2>1, <2>2
  <1>11. ASSUME NEW a \in Node, NEW c \in HallCell, OrderComplete(a, c)
         PROVE  Heard
    <2> DEFINE served == [nodes[a][a].cab EXCEPT ![c[1]] = Serve(@)]
               cabs == ConsensusCabs(a, served, peerWorldviews[a])
    <2>1. SetOwnCabs(a, cabs) /\ up[a] /\ UNCHANGED peerWorldviews
      BY <1>11 DEF OrderComplete
    <2>2. a = n => served[f] = own
      <3>1. Serve(own) = own
        BY StatesAreNumbers DEF Serve, Advance, ValidTransition
      <3> QED
        BY <1>3, <3>1 DEF LocalCab
    <2>3. a = n => cabs[f] = ConsensusCab(n, own, peerWorldviews[n], alive[n], f)
      BY <2>2 DEF ConsensusCabs
    <2> HIDE DEF cabs, own, own2, Heard
    <2> QED
      BY <1>4, <1>7, <2>1, <2>3
  <1>12. ASSUME NEW a \in Node, NEW x, NEW y, Malfunction(a, x) \/ ElevState(a, x, y)
         PROVE  FALSE
    <2>1. \E elev : SetOwnElevator(a, elev)
      BY <1>12 DEF Malfunction, ElevState
    <2> QED
      BY <1>1, <1>2, <2>1, CopiesReported
  <1>13. ASSUME NEW a \in Node, Crash(a)
         PROVE  FALSE
    <2>1. nodes'[n] \in {BootList(n), nodes[n]}
      BY <1>13 DEF Crash, TypeOK
    <2>2. BootList(n)[n].cab[f] = NoCall
      BY DEF BootList, BootEntry
    <2> QED
      BY <1>2, <2>1, <2>2, StatesAreNumbers DEF LocalCab
  <1>14. nodes' # nodes
    BY <1>2 DEF LocalCab
  <1> HIDE DEF own, own2, Heard
  <1>15. Heard
    BY <1>8, <1>9, <1>10, <1>11, <1>12, <1>13, <1>14
       DEF Next, BroadcastTick, NewHallOrder, UpdateAliveList, Restart, vars, om
  <1> QED
    BY <1>15 DEF Heard

\* A call is "due" from the step that acknowledges its request, and "open" before.
LEMMA CabNoted ==
    ASSUME TypeOK, [Next]_vars, NEW n \in Node, NEW f \in Floor
    PROVE  /\ cabCall'[n][f] = "open" /\ LocalCab(n, f)' = Acknowledged
                 => cabCall[n][f] = "open" /\ LocalCab(n, f) = Acknowledged
           /\ cabCall'[n][f] = "due" => cabCall[n][f] = "due" \/ LocalCab(n, f)' = Acknowledged
  <1> DEFINE stage == cabCall[n][f]
             own2 == LocalCab(n, f)'
             Noted == /\ cabCall'[n][f] = "open" /\ own2 = Acknowledged
                            => stage = "open" /\ LocalCab(n, f) = Acknowledged
                      /\ cabCall'[n][f] = "due" => stage = "due" \/ own2 = Acknowledged
  <1>1. TypeOK' /\ own2 = Copy(n, n, f)' /\ LocalCab(n, f) = Copy(n, n, f)
    BY NextTyped, OwnCopy, OwnCopyStays
  <1>2. cabCall \in [Node -> [Floor -> CallStage]]
    BY DEF TypeOK
  <1>3. ASSUME NEW s, cabCall'[n][f] = CabCallAfter(n, f, s), s # "due" \/ stage = "due"
        PROVE  Noted
    BY <1>3 DEF CabCallAfter, LocalCab
  <1>4. cabCall'[n][f] = stage /\ own2 = LocalCab(n, f) => Noted
    OBVIOUS
  <1>5. ASSUME NEW a \in Node, OraTick(a) \/ MergePeer(a)
        PROVE  Noted
    <2>1. cabCall'[n][f] = CabCallAfter(n, f, stage)
      BY <1>5 DEF OraTick, MergePeer, CabHistory
    <2> QED
      BY <1>3, <2>1
  <1>6. ASSUME NEW a \in Node, NEW g \in Floor, NewCabOrder(a, g)
        PROVE  Noted
    <2>1. CASE a = n /\ g = f
      <3>1. cabCall'[n][f] = CabCallAfter(n, f,
                                StagePressed(stage, LocalCab(n, f), QuietCab(n, f)))
        BY <1>2, <1>6, <2>1 DEF NewCabOrder
      <3>2. StagePressed(stage, LocalCab(n, f), QuietCab(n, f)) # "due" \/ stage = "due"
        BY SMT DEF StagePressed
      <3> QED
        BY <1>3, <3>1, <3>2
    <2>2. CASE ~(a = n /\ g = f)
      <3> DEFINE cabs == [nodes[a][a].cab EXCEPT ![g] =
                             PressCab(a, @, peerWorldviews[a], alive[a], g)]
      <3>1. SetOwnCabs(a, cabs) /\ cabCall'[n][f] = stage
        BY <1>2, <1>6, <2>2 DEF NewCabOrder
      <3>2. a = n => cabs[f] = LocalCab(n, f)
        BY <2>2, NodeAssumption DEF TypeOK, NodeEntry, LocalCab
      <3> HIDE DEF cabs
      <3> QED
        BY <1>1, <1>4, <3>1, <3>2, CopiesOwn
    <2> QED
      BY <2>1, <2>2
  <1>7. ASSUME NEW a \in Node, NEW c \in HallCell, OrderComplete(a, c)
        PROVE  Noted
    <2>1. cabCall'[n][f] \in {StageServed(stage), CabCallAfter(n, f, stage)}
      BY <1>7 DEF OrderComplete
    <2>2. StageServed(stage) = "due" => stage = "due"
      BY SMT DEF StageServed
    <2>3. StageServed(stage) # "open"
      BY SMT DEF StageServed
    <2> QED
      BY <1>3, <2>1, <2>2, <2>3
  <1>8. ASSUME NEW a \in Node, NEW x, NEW y, Malfunction(a, x) \/ ElevState(a, x, y)
        PROVE  Noted
    <2>1. (\E elev : SetOwnElevator(a, elev)) /\ cabCall' = cabCall
      BY <1>8 DEF Malfunction, ElevState, history
    <2> QED
      BY <1>1, <1>4, <2>1, CopiesReported
  <1>9. ASSUME NEW a \in Node, Crash(a)
        PROVE  Noted
    <2>1. nodes'[n] \in {BootList(n), nodes[n]} /\ cabCall' = cabCall
      BY <1>9 DEF Crash, TypeOK, history
    <2>2. BootList(n)[n].cab[f] = NoCall
      BY DEF BootList, BootEntry
    <2>3. own2 \in {NoCall, LocalCab(n, f)}
      BY <2>1, <2>2 DEF LocalCab
    <2> QED
      BY <2>1, <2>3, StatesAreNumbers
  <1>10. UNCHANGED <<nodes, cabCall>> => Noted
    BY <1>4 DEF LocalCab
  <1> HIDE DEF Noted
  <1>11. Noted
    BY <1>5, <1>6, <1>7, <1>8, <1>9, <1>10
       DEF Next, BroadcastTick, NewHallOrder, UpdateAliveList, Restart, vars, om, history
  <1> QED
    BY <1>11 DEF Noted

\* A cab call that is not served after a step was not before, or is pressed in it when
\* nothing of an earlier one is left.
LEMMA CabOpened ==
    ASSUME TypeOK, [Next]_vars, NEW n \in Node, NEW f \in Floor,
           cabCall'[n][f] \in {"open", "due"}
    PROVE  \/ cabCall[n][f] \in {"open", "due"}
           \/ CabTracesIn(n, f, {NoCall}) /\ LocalCab(n, f) = NoCall
  <1>1. cabCall[n][f] \in CallStage
    BY DEF TypeOK
  <1>2. CASE cabCall'[n][f] \in {cabCall[n][f], CabCallAfter(n, f, cabCall[n][f])}
    BY <1>1, <1>2, CabStageFacts
  <1>3. CASE Calls(n, f)
    <2>1. cabCall'[n][f] = CabCallAfter(n, f,
                              StagePressed(cabCall[n][f], LocalCab(n, f), QuietCab(n, f)))
      BY <1>3, CabPressStep
    <2>2. StagePressed(cabCall[n][f], LocalCab(n, f), QuietCab(n, f)) \in {"open", "due"}
      BY <1>1, <2>1, PressedStageTyped, CabStageFacts
    <2>3. cabCall[n][f] \in {"open", "due"} \/ (LocalCab(n, f) = NoCall /\ QuietCab(n, f))
      BY <2>2 DEF StagePressed
    <2> QED
      BY <2>3, QuietIsTraceless
  <1>4. CASE Fulfils(n, f)
    <2>1. cabCall'[n][f] = StageServed(cabCall[n][f])
      BY <1>4 DEF Fulfils, OrderComplete
    <2> QED
      BY <1>1, <2>1, StageFacts
  <1> QED
    BY <1>2, <1>3, <1>4, StepCabStage

\* What holds of a cab call of n for f until it is served: the request is the highest
\* trace of itself, nothing overtakes a frame of n, and once the call is due every frame
\* of n shows it.
SentInv(n, f) ==
    cabCall[n][f] \in {"open", "due"} =>
        /\ up[n] => CabTracesIn(n, f, 0 .. LocalCab(n, f))
        /\ \A m \in Node \ {n} : Behind(n, m, f)
        /\ cabCall[n][f] = "open" => LocalCab(n, f) # Acknowledged
        /\ cabCall[n][f] = "due" =>
              /\ up[n] => LocalCab(n, f) >= Exist
              /\ \A m \in Node \ {n} : up[m] =>
                    \A j \in 1 .. Len(inbox[m]) :
                        inbox[m][j].from = n => Shows(m, j, n, f) >= Exist

CabFrameInv ==
    /\ CabTraceInv /\ DeadHaveCrashed
    /\ NoneRestarted => AllListed /\ \A n \in Node, f \in Floor : SentInv(n, f)

\* It survives every step until somebody restarts.
LEMMA SentStep ==
    ASSUME ~FalseTimeouts, MaxCrashes <= 1, CabFrameInv, [Next]_vars, NoneRestarted',
           NEW n \in Node, NEW f \in Floor
    PROVE  SentInv(n, f)'
  <1> DEFINE own == LocalCab(n, f)
             own2 == LocalCab(n, f)'
  <1>1. CabTraceInv /\ CabTraceInv' /\ TypeOK /\ TypeOK'
    BY CabTraceInductive DEF CabFrameInv, CabTraceInv
  <1>2. /\ NoneRestarted /\ AllListed /\ SentInv(n, f)
        /\ \A m \in Node : up'[m] => up[m]
    <2>1. NoneRestarted /\ \A m \in Node : up'[m] => up[m]
      BY <1>1, LifeKept DEF CabFrameInv
    <2> QED
      BY <2>1 DEF CabFrameInv
  <1> SUFFICES ASSUME cabCall'[n][f] \in {"open", "due"}
               PROVE  /\ up'[n] => CabTracesIn(n, f, 0 .. LocalCab(n, f))'
                      /\ \A m \in Node \ {n} : Behind(n, m, f)'
                      /\ cabCall'[n][f] = "open" => own2 # Acknowledged
                      /\ cabCall'[n][f] = "due" =>
                            /\ up'[n] => own2 >= Exist
                            /\ \A m \in Node \ {n} : up'[m] =>
                                  \A j \in 1 .. Len(inbox'[m]) :
                                      inbox'[m][j].from = n => Shows(m, j, n, f)' >= Exist
    BY DEF SentInv
  <1>3. own \in 0 .. 3 /\ own2 \in 0 .. 3
    BY <1>1, OwnCopyStays, StatesAreNumbers
  \* Before the step the traces are behind the request, and it is not acknowledged
  \* unless the call is due.
  <1>4. /\ up[n] => CabTracesIn(n, f, 0 .. own)
        /\ \A m \in Node \ {n} : Behind(n, m, f)
        /\ cabCall[n][f] # "due" => own \in {NoCall, Exist}
        /\ up'[n] => own2 >= own
    <2>1. CASE cabCall[n][f] \in {"open", "due"}
      <3>1. own # Complete
        <4>1. CabTracesIn(n, f, Uncompleted)
          BY <1>1, <2>1 DEF CabTraceInv, NoEarlyCab
        <4> QED
          BY <1>1, <4>1, OwnCopy, StatesAreNumbers DEF CabTracesIn, Uncompleted
      <3>2. up'[n] => own2 >= own
        BY <1>1, <1>2, <2>1, CabNotTakenBack DEF CabKeptStep
      <3> QED
        BY <1>2, <1>3, <2>1, <3>1, <3>2, StatesAreNumbers DEF SentInv
    <2>2. CASE CabTracesIn(n, f, {NoCall}) /\ own = NoCall
      <3>1. \A m \in Node \ {n} : Behind(n, m, f)
        <4>1. \A x, y \in {NoCall} : x <= y
          BY StatesAreNumbers
        <4> QED
          BY <2>2, <4>1 DEF CabTracesIn, Behind
      <3>2. CabTracesIn(n, f, 0 .. own)
        <4>1. {NoCall} \subseteq 0 .. own
          BY <2>2, StatesAreNumbers
        <4> QED
          BY <2>2, <4>1 DEF CabTracesIn
      <3> QED
        BY <1>3, <2>2, <3>1, <3>2, StatesAreNumbers
    <2> QED
      BY <1>1, <2>1, <2>2, CabOpened
  <1>5. \A m \in Node \ {n} : Behind(n, m, f)'
    BY <1>1, <1>4, BehindKept
  <1>6. ASSUME up'[n]
        PROVE  CabTracesIn(n, f, 0 .. LocalCab(n, f))'
    <2>1. PICK k \in 0 .. 3 : k = own2
      BY <1>3
    <2>2. 0 .. own \subseteq 0 .. k /\ NoCall \in 0 .. k /\ own2 \in 0 .. k
      BY <1>3, <1>4, <1>6, <2>1, StatesAreNumbers
    <2>3. CabTracesIn(n, f, 0 .. k)
      BY <1>2, <1>4, <1>6, <2>2 DEF CabTracesIn
    <2>4. CabTracesIn(n, f, 0 .. k)'
      BY <1>1, <2>2, <2>3, CabSpreads
    <2> QED
      BY <2>1, <2>4 DEF CabTracesIn
  <1>7. cabCall'[n][f] = "open" => own2 # Acknowledged
    BY <1>1, <1>2, CabNoted DEF SentInv
  <1>8. CASE cabCall[n][f] # "due" /\ cabCall'[n][f] = "due"
    <2>1. own2 = Acknowledged
      BY <1>1, <1>8, CabNoted
    <2>2. /\ up[n]
          /\ \A m \in Node \ {n} : alive[n][m] = "alive" => Answer(n, m, f)' >= Exist
      BY <1>1, <1>4, <1>8, <2>1, CabAcknowledged
    <2>3. ASSUME NEW m \in Node \ {n}, up'[m], NEW j \in 1 .. Len(inbox'[m]),
                 inbox'[m][j].from = n
          PROVE  Shows(m, j, n, f)' >= Exist
      <3>1. Answer(n, m, f)' >= Exist
        BY <1>2, <2>2, <2>3 DEF AllListed
      <3>2. Answer(n, m, f)' <= Shows(m, j, n, f)'
        BY <1>5, <2>3 DEF Behind
      <3>3. Answer(n, m, f)' \in OrderState /\ Shows(m, j, n, f)' \in OrderState
        <4>1. CabTracesIn(n, f, Uncompleted)'
          BY <1>1, <1>8 DEF CabTraceInv, NoEarlyCab
        <4> QED
          BY <2>3, <4>1, StatesAreNumbers DEF CabTracesIn, Uncompleted
      <3> QED
        BY <3>1, <3>2, <3>3, StatesAreNumbers
    <2> QED
      BY <1>5, <1>6, <1>7, <2>1, <2>3, StatesAreNumbers
  <1>9. CASE cabCall[n][f] = "due"
    <2>1. /\ up[n] => own >= Exist
          /\ \A m \in Node \ {n} : up[m] =>
                \A j \in 1 .. Len(inbox[m]) : inbox[m][j].from = n => Shows(m, j, n, f) >= Exist
      BY <1>2, <1>9 DEF SentInv
    <2>2. ASSUME NEW m \in Node \ {n}, up'[m], NEW j \in 1 .. Len(inbox'[m]),
                 inbox'[m][j].from = n
          PROVE  Shows(m, j, n, f)' >= Exist
      <3>1. CASE \E k \in 1 .. Len(inbox[m]) : inbox'[m][j] = inbox[m][k]
        BY <1>2, <2>1, <2>2, <3>1 DEF Shows
      <3>2. CASE ~ \E k \in 1 .. Len(inbox[m]) : inbox'[m][j] = inbox[m][k]
        <4>1. SendsList(n) /\ inbox'[m][j].list \in {nodes[n], nodes'[n]}
          BY <1>1, <2>2, <3>2, FramesMoved DEF Keeps, Gets
        <4>2. Copy(n, n, f) = own /\ Copy(n, n, f)' = own /\ up[n]
          BY <1>1, <4>1, OwnCopy, SendsNoCab DEF SendsList
        <4>3. Shows(m, j, n, f)' = own
          BY <4>1, <4>2 DEF Shows, Copy
        <4> QED
          BY <2>1, <4>2, <4>3
      <3> QED
        BY <3>1, <3>2
    <2>3. up'[n] => own2 >= Exist
      BY <1>2, <1>3, <1>4, <2>1, StatesAreNumbers
    <2> QED
      BY <1>5, <1>6, <1>7, <2>2, <2>3
  <1>10. CASE cabCall'[n][f] # "due"
    BY <1>5, <1>6, <1>7, <1>10
  <1> QED
    BY <1>8, <1>9, <1>10

LEMMA CabFramesInductive ==
    ASSUME ~FalseTimeouts, MaxCrashes <= 1, CabFrameInv, [Next]_vars
    PROVE  CabFrameInv'
  <1>1. CabTraceInv' /\ TypeOK
    BY CabTraceInductive DEF CabFrameInv, CabTraceInv
  <1>2. DeadHaveCrashed' /\ (NoneRestarted' => AllListed')
    BY <1>1, LifeKept DEF CabFrameInv
  <1>3. NoneRestarted' => \A n \in Node, f \in Floor : SentInv(n, f)'
    BY SentStep
  <1> QED
    BY <1>1, <1>2, <1>3 DEF CabFrameInv

LEMMA CabFramesInitial == SteadyInit => CabFrameInv
  <1> SUFFICES ASSUME SteadyInit PROVE CabFrameInv
    OBVIOUS
  <1>1. CabTraceInv
    BY CabTraceInitial
  <1>2. DeadHaveCrashed /\ AllListed /\ \A n \in Node, f \in Floor : cabCall[n][f] = "none"
    BY DEF SteadyInit, DeadHaveCrashed, AllListed
  <1> QED
    BY <1>1, <1>2 DEF CabFrameInv, SentInv

\* Among any number of elevators that hear themselves and each other over channels of
\* any length: once a cab call is acknowledged, no frame of its elevator without it is
\* still on its way to a running peer, until somebody is started again.  Whatever old
\* entry a peer has taken over, the next frame of the elevator corrects it, and so does
\* the last one it has sent before it crashed.  Assumed: no running elevator is reported
\* lost and each crashes at most once.
THEOREM CabCallsInEveryFrame ==
    ASSUME ~FalseTimeouts, MaxCrashes <= 1
    PROVE  SteadySpec => []CabInEveryFrame
  <1>1. CabFrameInv => CabInEveryFrame
    <2> SUFFICES ASSUME CabFrameInv, NEW n \in Node, NEW m \in Node, NEW f \in Floor,
                        cabCall[n][f] = "due", NoneRestarted, up[m], n # m,
                        NEW i \in 1 .. Len(inbox[m]), inbox[m][i].from = n
                 PROVE  inbox[m][i].list[n].cab[f] \in {Exist, Acknowledged}
      BY DEF CabInEveryFrame
    <2>1. Shows(m, i, n, f) >= Exist
      BY DEF CabFrameInv, SentInv
    <2>2. Shows(m, i, n, f) \in Uncompleted
      BY DEF CabFrameInv, CabTraceInv, NoEarlyCab, CabTracesIn
    <2>3. Shows(m, i, n, f) \in {Exist, Acknowledged}
      BY <2>1, <2>2, StatesAreNumbers DEF Uncompleted
    <2> QED
      BY <2>3, StatesAreNumbers DEF Shows, Listed
  <1>2. CabFrameInv /\ [Next]_vars => CabFrameInv'
    BY CabFramesInductive
  <1> QED
    BY <1>1, <1>2, CabFramesInitial, PTL DEF SteadySpec
=============================================================================
