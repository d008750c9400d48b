------------------------- MODULE OrderAssigner_proofs -------------------------
(***************************************************************************)
(* Proofs about OrderAssigner, for every number of nodes and floors, every *)
(* set of calls and every capacity of the channels.                        *)
(***************************************************************************)
EXTENDS OrderAssigner, TLAPS

USE AssignerAssumption

\* A channel keeps the type of its messages.
LEMMA QueueFacts ==
    ASSUME NEW S, NEW q \in Seq(S)
    PROVE  /\ \A x \in S : Append(q, x) \in Seq(S) /\ Len(Append(q, x)) = Len(q) + 1
           /\ Len(q) \in Nat
           /\ q # <<>> => /\ Head(q) \in S /\ Tail(q) \in Seq(S) /\ Len(Tail(q)) = Len(q) - 1
                          /\ Len(q) \in 1 .. Len(q) /\ q[Len(q)] \in S
OBVIOUS

\* What is offered to a channel leaves it within its bound.
LEMMA OfferedFits ==
    ASSUME NEW S, NEW q \in Seq(S), NEW x \in S, Len(q) <= ChannelCap
    PROVE  Offered(q, x) \in Seq(S) /\ Len(Offered(q, x)) <= ChannelCap
<1>1. Append(q, x) \in Seq(S) /\ Len(Append(q, x)) = Len(q) + 1 /\ Len(q) \in Nat
  BY QueueFacts
<1> QED BY <1>1 DEF Offered

\* Handing a worldview over keeps the type of the channels to Run.
LEMMA SendKeeps ==
    ASSUME TypeOK, NEW n \in Node, NEW wv \in Worldview, SendToOrderHandler(n, wv)
    PROVE  /\ wvCh' \in [Node -> Seq(Worldview)]
           /\ \A m \in Node : Len(wvCh'[m]) <= ChannelCap
<1>1. wvCh \in [Node -> Seq(Worldview)] /\ \A m \in Node : Len(wvCh[m]) <= ChannelCap
  BY DEF TypeOK
<1>2. Offered(wvCh[n], wv) \in Seq(Worldview) /\ Len(Offered(wvCh[n], wv)) <= ChannelCap
  BY <1>1, OfferedFits
<1> QED BY <1>1, <1>2 DEF SendToOrderHandler

\* A change of a worldview keeps the types, handed over or not.
LEMMA BecomesKeeps ==
    ASSUME TypeOK, NEW n \in Node, NEW wv \in Worldview, Becomes(n, wv),
           SendToOrderHandler(n, local'[n]) \/ UNCHANGED wvCh
    PROVE  TypeOK'
<1>1. local' \in [Node -> Worldview] /\ local'[n] = wv
  BY DEF TypeOK, Becomes
<1>2. /\ wvCh' \in [Node -> Seq(Worldview)]
      /\ \A m \in Node : Len(wvCh'[m]) <= ChannelCap
  BY <1>1, SendKeeps DEF TypeOK
<1>3. changes' \in Nat
  BY DEF TypeOK, Becomes
<1> QED BY <1>1, <1>2, <1>3 DEF TypeOK, Becomes

\* Every case of UpdaterRun keeps the types.
LEMMA OrderManagerKeeps == TypeOK /\ OrderManager => TypeOK'
<1> SUFFICES ASSUME TypeOK, NEW n \in Node,
                    \/ \E c \in HallCall : Acknowledge(n, c) \/ Completed(n, c)
                    \/ \E f \in CabCall :
                          CabAcknowledge(n, f) \/ CabRecovered(n, f) \/ CabCompleted(n, f)
                    \/ \E m \in Node : StatusReport(n, m) \/ PeerUpdate(n, m)
                    \/ \E p \in Position : Report(n, p)
             PROVE  TypeOK'
  BY DEF OrderManager
<1>1. local[n] \in Worldview
  BY DEF TypeOK
<1>2. ASSUME NEW c \in HallCall, Acknowledge(n, c) \/ Completed(n, c) PROVE TypeOK'
  <2> DEFINE hall == IF Acknowledge(n, c) THEN local[n].hall \cup {c} ELSE local[n].hall \ {c}
  <2>1. [local[n] EXCEPT !.hall = hall] \in Worldview
    BY <1>1 DEF Worldview
  <2>2. Becomes(n, [local[n] EXCEPT !.hall = hall])
    BY <1>2 DEF Acknowledge, Completed
  <2>3. SendToOrderHandler(n, local'[n]) \/ UNCHANGED wvCh
    BY <1>2 DEF Acknowledge, Completed
  <2> QED BY <2>1, <2>2, <2>3, BecomesKeeps
<1>3. ASSUME NEW f \in CabCall,
             CabAcknowledge(n, f) \/ CabRecovered(n, f) \/ CabCompleted(n, f)
      PROVE  TypeOK'
  <2>1. \E cab \in SUBSET CabCall : Becomes(n, [local[n] EXCEPT !.cab = cab])
    <3>1. local[n].cab \cup {f} \in SUBSET CabCall /\ local[n].cab \ {f} \in SUBSET CabCall
      BY <1>1 DEF Worldview
    <3> QED BY <1>3, <3>1 DEF CabAcknowledge, CabRecovered, CabCompleted
  <2>2. \A cab \in SUBSET CabCall : [local[n] EXCEPT !.cab = cab] \in Worldview
    BY <1>1 DEF Worldview
  <2>3. SendToOrderHandler(n, local'[n]) \/ UNCHANGED wvCh
    BY <1>3 DEF CabAcknowledge, CabRecovered, CabCompleted
  <2> QED BY <2>1, <2>2, <2>3, BecomesKeeps
<1>4. ASSUME NEW m \in Node, StatusReport(n, m) PROVE TypeOK'
  <2> DEFINE fit == IF m \in local[n].fit THEN local[n].fit \ {m} ELSE local[n].fit \cup {m}
  <2>1. [local[n] EXCEPT !.fit = fit] \in Worldview
    BY <1>1 DEF Worldview
  <2>2. Becomes(n, [local[n] EXCEPT !.fit = fit]) /\ UNCHANGED wvCh
    BY <1>4 DEF StatusReport
  <2> QED BY <2>1, <2>2, BecomesKeeps
<1>5. ASSUME NEW m \in Node, PeerUpdate(n, m) PROVE TypeOK'
  BY <1>5 DEF PeerUpdate, TypeOK
<1>6. ASSUME NEW p \in Position, Report(n, p) PROVE TypeOK'
  <2>1. [local[n] EXCEPT !.pos = p] \in Worldview
    BY <1>1 DEF Worldview
  <2> QED BY <1>6, <2>1, BecomesKeeps DEF Report
<1> QED BY <1>2, <1>3, <1>4, <1>5, <1>6

\* The tick hands the worldview over and nothing else.
LEMMA OraTickKeeps ==
    ASSUME TypeOK, NEW n \in Node, OraTick(n)
    PROVE  TypeOK'
<1>1. local[n] \in Worldview
  BY DEF TypeOK
<1>2. /\ wvCh' \in [Node -> Seq(Worldview)]
      /\ \A m \in Node : Len(wvCh'[m]) <= ChannelCap
  BY <1>1, SendKeeps DEF OraTick
<1> QED BY <1>2 DEF TypeOK, OraTick

\* The executable gets a worldview and at least one elevator.
LEMMA TakeKeeps ==
    ASSUME TypeOK, NEW n \in Node, Take(n)
    PROVE  TypeOK'
<1> DEFINE wv == wvCh[n][Len(wvCh[n])]
           found == [wv |-> wv, states |-> States(n, wv)]
<1>1. wv \in Worldview
  BY QueueFacts DEF TypeOK, Take
<1>2. States(n, wv) \in SUBSET Node
  BY <1>1 DEF States, Worldview
<1>3. States(n, wv) # {} => found \in [wv : Worldview, states : (SUBSET Node) \ {{}}]
  BY <1>1, <1>2
<1>4. job' \in [Node -> [wv : Worldview, states : (SUBSET Node) \ {{}}] \cup {None}]
  BY <1>3 DEF TypeOK, Take
<1>5. /\ wvCh' \in [Node -> Seq(Worldview)]
      /\ \A m \in Node : Len(wvCh'[m]) <= ChannelCap
  BY DEF TypeOK, Take
<1> QED BY <1>4, <1>5 DEF TypeOK, Take

\* What leaves Run are assigned orders: cells of the building, without the
\* impossible ones; they find room or are dropped.
LEMMA FinishKeeps ==
    ASSUME TypeOK, NEW n \in Node, Finish(n)
    PROVE  TypeOK'
<1>1. job[n] \in [wv : Worldview, states : (SUBSET Node) \ {{}}]
  BY DEF TypeOK, Finish
<1>2. job' \in [Node -> [wv : Worldview, states : (SUBSET Node) \ {{}}] \cup {None}]
  BY DEF TypeOK, Finish
<1>3. outputCh \in [Node -> Seq(AssignedOrders)] /\ \A m \in Node : Len(outputCh[m]) <= ChannelCap
  BY DEF TypeOK
<1> DEFINE own == Answer(job[n])[n]
           answer == InsertCabCalls(own, job[n].wv) \ Impossible
<1>4. CASE OutputComplete(Answer(job[n]), job[n].wv) /\ n \in DOMAIN Answer(job[n])
  <2>1. own \subseteq Cell
    BY <1>1, <1>4 DEF Answer, Worldview
  <2>2. answer \in AssignedOrders
    BY <2>1 DEF InsertCabCalls, AssignedOrders
  <2>3. Offered(outputCh[n], answer) \in Seq(AssignedOrders)
        /\ Len(Offered(outputCh[n], answer)) <= ChannelCap
    BY <1>3, <2>2, OfferedFits
  <2>4. outputCh' = [outputCh EXCEPT ![n] = Offered(@, answer)]
    BY <1>4 DEF Finish
  <2>5. /\ outputCh' \in [Node -> Seq(AssignedOrders)]
        /\ \A m \in Node : Len(outputCh'[m]) <= ChannelCap
    BY <1>3, <2>3, <2>4
  <2> QED BY <1>2, <2>5 DEF TypeOK, Finish
<1>5. CASE ~(OutputComplete(Answer(job[n]), job[n].wv) /\ n \in DOMAIN Answer(job[n]))
  <2>1. UNCHANGED outputCh
    BY <1>5 DEF Finish
  <2> QED BY <1>2, <2>1 DEF TypeOK, Finish
<1> QED BY <1>4, <1>5

\* The failed run leaves the orders as they are; new ones replace the old.
LEMMA FailAndAssignedKeep ==
    ASSUME TypeOK, NEW n \in Node, Fail(n) \/ Assigned(n)
    PROVE  TypeOK'
<1>1. CASE Fail(n)
  BY <1>1 DEF TypeOK, Fail
<1>2. CASE Assigned(n)
  <2>1. outputCh[n] \in Seq(AssignedOrders) /\ outputCh[n] # <<>> /\ Len(outputCh[n]) <= ChannelCap
    BY <1>2 DEF TypeOK, Assigned
  <2>2. Head(outputCh[n]) \in AssignedOrders /\ Tail(outputCh[n]) \in Seq(AssignedOrders)
        /\ Len(Tail(outputCh[n])) <= ChannelCap
    BY <2>1, QueueFacts
  <2>3. /\ outputCh' \in [Node -> Seq(AssignedOrders)]
        /\ \A m \in Node : Len(outputCh'[m]) <= ChannelCap
        /\ orders' \in [Node -> AssignedOrders]
    BY <1>2, <2>2 DEF TypeOK, Assigned
  <2> QED BY <1>2, <2>3 DEF TypeOK, Assigned
<1> QED BY <1>1, <1>2

\* The start.
LEMMA InitTyped == Init => TypeOK
<1> SUFFICES ASSUME Init PROVE TypeOK
  OBVIOUS
<1>1. local \in [Node -> Worldview]
  BY DEF Init, Worldview
<1>2. orders \in [Node -> AssignedOrders]
  BY DEF Init, AssignedOrders
<1> QED BY <1>1, <1>2 DEF Init, TypeOK

\* One step of a node or of its OrderManager.
LEMMA StepTyped == TypeOK /\ [Next]_vars => TypeOK'
<1>1. TypeOK /\ UNCHANGED vars => TypeOK'
  BY DEF TypeOK, vars
<1>2. TypeOK /\ Next => TypeOK'
  BY OrderManagerKeeps, OraTickKeeps, TakeKeeps, FinishKeeps, FailAndAssignedKeep DEF Next
<1> QED BY <1>1, <1>2

\* The channels keep within their capacity, the executable is never run without an
\* elevator to choose, and no impossible order reaches a state machine.
THEOREM TypeCorrect == Spec => []TypeOK
<1> QED BY InitTyped, StepTyped, PTL DEF Spec

-----------------------------------------------------------------------------
(* What the state machine of a node goes by comes from what was handed over: *)
(* the contract that OrderCluster relies on when it lets a completion be     *)
(* reported only for an order in assignable[n].                              *)

\* The orders a worldview stands for, as SendToOrderHandler of OrderCluster counts
\* them: its hall calls, both directions of its cab calls, less the impossible ones.
Handed(wv) == InsertCabCalls(wv.hall, wv) \ Impossible

HandsWithin(n, S) == \A i \in 1 .. Len(wvCh[n]) : Handed(wvCh[n][i]) \subseteq S

\* The worldview on the executable, the answers on their way and the orders.
WorksWithin(n, S) ==
    /\ job[n] # None => Handed(job[n].wv) \subseteq S
    /\ \A i \in 1 .. Len(outputCh[n]) : outputCh[n][i] \subseteq S
    /\ orders[n] \subseteq S

\* What leaves Run is part of what its worldview stands for.
LEMMA AnswerWithin ==
    ASSUME NEW j, NEW n \in j.states
    PROVE  InsertCabCalls(Answer(j)[n], j.wv) \ Impossible \subseteq Handed(j.wv)
BY DEF Answer, InsertCabCalls, Handed

\* An entry of a channel after something was offered to it.
LEMMA OfferedEntries ==
    ASSUME NEW S, NEW q \in Seq(S), NEW x \in S, NEW i \in 1 .. Len(Offered(q, x))
    PROVE  \/ i \in 1 .. Len(q) /\ Offered(q, x)[i] = q[i]
           \/ i = Len(q) + 1 /\ Offered(q, x)[i] = x
<1>1. CASE Offered(q, x) = q
  BY <1>1
<1>2. CASE Offered(q, x) = Append(q, x)
  BY <1>2
<1> QED BY <1>1, <1>2 DEF Offered

\* A step of Run or of the state machine at n, as what is followed here sees it; the
\* other steps leave it alone.
LEMMA RunShapes ==
    ASSUME TypeOK, [Next]_vars, NEW n \in Node
    PROVE  \/ UNCHANGED <<job[n], outputCh[n], orders[n]>>
           \/ Take(n) \/ Finish(n) \/ Fail(n) \/ Assigned(n)
<1>1. ASSUME OrderManager PROVE UNCHANGED <<job[n], outputCh[n], orders[n]>>
  BY <1>1 DEF OrderManager, Acknowledge, Completed, CabAcknowledge, CabRecovered,
              CabCompleted, StatusReport, PeerUpdate, Report, Becomes
<1>2. ASSUME NEW m \in Node, m # n,
             OraTick(m) \/ Take(m) \/ Finish(m) \/ Fail(m) \/ Assigned(m)
      PROVE  UNCHANGED <<job[n], outputCh[n], orders[n]>>
  BY <1>2 DEF TypeOK, OraTick, Take, Finish, Fail, Assigned
<1>3. OraTick(n) => UNCHANGED <<job[n], outputCh[n], orders[n]>>
  BY DEF OraTick
<1>4. UNCHANGED vars => UNCHANGED <<job[n], outputCh[n], orders[n]>>
  BY DEF vars
<1> QED BY <1>1, <1>2, <1>3, <1>4 DEF Next

\* As long as what is handed over stays within S, so does the work on it.
LEMMA WorksKept ==
    ASSUME TypeOK, [Next]_vars, NEW n \in Node, NEW S, HandsWithin(n, S), WorksWithin(n, S)
    PROVE  WorksWithin(n, S)'
<1>1. CASE UNCHANGED <<job[n], outputCh[n], orders[n]>>
  BY <1>1 DEF WorksWithin
<1>2. CASE Take(n)
  <2>1. Len(wvCh[n]) \in 1 .. Len(wvCh[n])
    BY <1>2, QueueFacts DEF TypeOK, Take
  <2>2. Handed(wvCh[n][Len(wvCh[n])]) \subseteq S
    BY <2>1 DEF HandsWithin
  <2>3. job'[n] # None => job'[n].wv = wvCh[n][Len(wvCh[n])]
    BY <1>2 DEF Take, TypeOK
  <2>4. UNCHANGED <<outputCh, orders>>
    BY <1>2 DEF Take
  <2> QED BY <2>2, <2>3, <2>4 DEF WorksWithin
<1>3. CASE Finish(n)
  <2> DEFINE out == InsertCabCalls(Answer(job[n])[n], job[n].wv) \ Impossible
  <2>1. job'[n] = None /\ orders' = orders /\ job[n] # None
    BY <1>3 DEF Finish, TypeOK
  <2>2. CASE outputCh'[n] = outputCh[n]
    BY <2>1, <2>2 DEF WorksWithin
  <2>3. CASE outputCh'[n] # outputCh[n]
    <3>1. outputCh'[n] = Offered(outputCh[n], out) /\ n \in job[n].states
      BY <1>3, <2>3 DEF Finish, TypeOK, Answer
    <3>2. out \subseteq S
      BY <2>1, <3>1, AnswerWithin DEF WorksWithin
    <3>3. outputCh[n] \in Seq(AssignedOrders)
      BY DEF TypeOK
    <3> HIDE DEF out
    <3>4. ASSUME NEW i \in 1 .. Len(outputCh'[n])
          PROVE  outputCh'[n][i] \subseteq S
      <4>1. CASE outputCh'[n] = Append(outputCh[n], out)
        <5>1. outputCh'[n][i] = out \/ (i \in 1 .. Len(outputCh[n]) /\ outputCh'[n][i] = outputCh[n][i])
          BY <3>3, <4>1
        <5> QED BY <3>2, <5>1 DEF WorksWithin
      <4> QED BY <2>3, <3>1, <4>1 DEF Offered
    <3> QED BY <2>1, <3>4 DEF WorksWithin
  <2> QED BY <2>2, <2>3
<1>4. CASE Fail(n)
  BY <1>4 DEF Fail, WorksWithin, TypeOK
<1>5. CASE Assigned(n)
  <2>1. outputCh[n] \in Seq(AssignedOrders) /\ outputCh[n] # <<>>
    BY <1>5 DEF Assigned, TypeOK
  <2>2. outputCh'[n] = Tail(outputCh[n]) /\ orders'[n] = Head(outputCh[n]) /\ job' = job
    BY <1>5 DEF Assigned, TypeOK
  <2>3. Head(outputCh[n]) = outputCh[n][1] /\ 1 \in 1 .. Len(outputCh[n])
    BY <2>1
  <2>4. \A i \in 1 .. Len(outputCh'[n]) :
           i + 1 \in 1 .. Len(outputCh[n]) /\ outputCh'[n][i] = outputCh[n][i + 1]
    BY <2>1, <2>2
  <2> QED BY <2>2, <2>3, <2>4 DEF WorksWithin
<1> QED BY <1>1, <1>2, <1>3, <1>4, <1>5, RunShapes

\* If every worldview the OrderManager hands over stands for orders within S, the
\* state machine is only ever given orders within S: the executable, the merging of the
\* own cab calls, dropped worldviews and dropped answers add nothing (Run,
\* insertCabCalls, removeImpossibleOrders).
THEOREM AssignsOnlyHanded ==
    ASSUME NEW n \in Node, NEW S
    PROVE  Spec /\ []HandsWithin(n, S) => [](orders[n] \subseteq S)
<1>1. Init => WorksWithin(n, S)
  BY DEF Init, WorksWithin
<1>2. TypeOK /\ HandsWithin(n, S) /\ WorksWithin(n, S) /\ [Next]_vars => WorksWithin(n, S)'
  BY WorksKept
<1>3. WorksWithin(n, S) => orders[n] \subseteq S
  BY DEF WorksWithin
<1> QED BY <1>1, <1>2, <1>3, TypeCorrect, PTL DEF Spec

-----------------------------------------------------------------------------
(* What makes the liveness properties true: while the worldview and the alive *)
(* list of a node do not change, what is on its way to the state machine gets *)
(* fresh stage by stage and stays so, whatever was stale and whatever drops.  *)

\* The orders of n by its own worldview and alive list of now.
Due(n) ==
    InsertCabCalls({c \in local[n].hall : cost[c][local[n].pos][Available(n)] = n}, local[n])
       \ Impossible

ChannelFresh(n) == \A i \in 1 .. Len(wvCh[n]) : wvCh[n][i] = local[n]

JobFresh(n) ==
    /\ ChannelFresh(n)
    /\ job[n] # None => job[n] = [wv |-> local[n], states |-> Available(n)]

\* All but the k oldest answers that wait are fresh; n is in order, and gets an answer.
OutputFreshFrom(n, k) ==
    /\ JobFresh(n) /\ n \in local[n].fit
    /\ \A i \in 1 .. Len(outputCh[n]) : i > k => outputCh[n][i] = Due(n)

OrdersFresh(n) == OutputFreshFrom(n, 0) /\ orders[n] = Due(n)

Settled(n) == local'[n] = local[n] /\ aliveList'[n] = aliveList[n]

\* Taking the worldviews leaves a fresh channel; when the job that was running then
\* ends, the job is fresh; every answer taken leaves one stale answer less; the first
\* taken after the last stale one makes the orders fresh.
RefreshStep(n) ==
    Settled(n) =>
        /\ ChannelFresh(n) \/ Take(n) => ChannelFresh(n)'
        /\ JobFresh(n) \/ (ChannelFresh(n) /\ job'[n] # job[n]) => JobFresh(n)'
        /\ \A k \in 0 .. ChannelCap :
              OutputFreshFrom(n, k) \/ (OutputFreshFrom(n, k + 1) /\ Assigned(n))
                 => OutputFreshFrom(n, k)'
        /\ OrdersFresh(n) \/ (OutputFreshFrom(n, 0) /\ Assigned(n)) => OrdersFresh(n)'

StaysFresh == [][\A n \in Node : RefreshStep(n)]_vars

\* The executable gives every hall call to one of the elevators it was given, so its
\* answer always passes checkORAOutputMap.
LEMMA AnswerComplete ==
    ASSUME TypeOK, NEW n \in Node, job[n] # None
    PROVE  OutputComplete(Answer(job[n]), job[n].wv) /\ DOMAIN Answer(job[n]) = job[n].states
<1>1. job[n].wv \in Worldview /\ job[n].states \in (SUBSET Node) \ {{}}
  BY DEF TypeOK
<1>2. ASSUME NEW c \in job[n].wv.hall
      PROVE  \E m \in job[n].states : cost[c][job[n].wv.pos][job[n].states] = m
  BY <1>1 DEF TypeOK, Worldview, Cost
<1> QED BY <1>2 DEF OutputComplete, Answer

\* What Settled keeps.
LEMMA SettledFacts ==
    ASSUME TypeOK, [Next]_vars, NEW n \in Node, Settled(n)
    PROVE  /\ Available(n)' = Available(n) /\ cost' = cost /\ Due(n)' = Due(n)
<1>1. cost' = cost
  BY DEF Next, OrderManager, Acknowledge, Completed, CabAcknowledge, CabRecovered,
         CabCompleted, StatusReport, PeerUpdate, Report, Becomes, OraTick, Take, Finish,
         Fail, Assigned, vars
<1>2. Available(n)' = Available(n)
  BY DEF Settled, Available, States
<1> QED BY <1>1, <1>2 DEF Settled, Due

\* A step that leaves the worldview of n alone either leaves its channel alone too, or
\* offers the worldview to it, or takes all there is.
LEMMA ChannelShapes ==
    ASSUME TypeOK, [Next]_vars, NEW n \in Node, Settled(n)
    PROVE  \/ wvCh'[n] = wvCh[n]
           \/ wvCh'[n] = Offered(wvCh[n], local[n])
           \/ Take(n) /\ wvCh'[n] = <<>>
<1>1. ASSUME NEW m \in Node, NEW wv, SendToOrderHandler(m, wv), m = n => wv = local[n]
      PROVE  wvCh'[n] = wvCh[n] \/ wvCh'[n] = Offered(wvCh[n], local[n])
  BY <1>1 DEF SendToOrderHandler, TypeOK
<1>2. ASSUME OrderManager
      PROVE  wvCh'[n] = wvCh[n] \/ wvCh'[n] = Offered(wvCh[n], local[n])
  <2>1. PICK m \in Node :
           \/ \E c \in HallCall : Acknowledge(m, c) \/ Completed(m, c)
           \/ \E f \in CabCall : CabAcknowledge(m, f) \/ CabRecovered(m, f) \/ CabCompleted(m, f)
           \/ \E x \in Node : StatusReport(m, x) \/ PeerUpdate(m, x)
           \/ \E p \in Position : Report(m, p)
    BY <1>2 DEF OrderManager
  <2>2. SendToOrderHandler(m, local'[m]) \/ UNCHANGED wvCh
    BY <2>1 DEF Acknowledge, Completed, CabAcknowledge, CabRecovered, CabCompleted,
                StatusReport, PeerUpdate, Report
  <2> QED BY <1>1, <2>2 DEF Settled
<1>3. ASSUME NEW m \in Node, OraTick(m)
      PROVE  wvCh'[n] = wvCh[n] \/ wvCh'[n] = Offered(wvCh[n], local[n])
  BY <1>1, <1>3 DEF OraTick
<1>4. ASSUME NEW m \in Node, Take(m)
      PROVE  wvCh'[n] = wvCh[n] \/ (Take(n) /\ wvCh'[n] = <<>>)
  BY <1>4 DEF Take, TypeOK
<1>5. ASSUME NEW m \in Node, Finish(m) \/ Fail(m) \/ Assigned(m)
      PROVE  wvCh' = wvCh
  BY <1>5 DEF Finish, Fail, Assigned
<1> QED BY <1>2, <1>3, <1>4, <1>5 DEF Next, vars

\* Each stage is kept, and reached by the step that is due.
LEMMA Refreshed ==
    ASSUME TypeOK, [Next]_vars, NEW n \in Node, Settled(n)
    PROVE  RefreshStep(n)
<1>1. local'[n] = local[n] /\ Available(n)' = Available(n) /\ Due(n)' = Due(n)
  BY SettledFacts DEF Settled
<1>2. wvCh[n] \in Seq(Worldview) /\ local[n] \in Worldview
  BY DEF TypeOK
<1>3. ASSUME ChannelFresh(n) \/ Take(n)
      PROVE  ChannelFresh(n)'
  <2>1. CASE wvCh'[n] = <<>>
    BY <2>1 DEF ChannelFresh
  <2>2. CASE ChannelFresh(n) /\ wvCh'[n] = wvCh[n]
    BY <1>1, <2>2 DEF ChannelFresh
  <2>3. CASE ChannelFresh(n) /\ wvCh'[n] = Offered(wvCh[n], local[n])
    <3>1. ASSUME NEW i \in 1 .. Len(wvCh'[n])
          PROVE  wvCh'[n][i] = local[n]
      <4>1. wvCh'[n][i] = local[n] \/ (i \in 1 .. Len(wvCh[n]) /\ wvCh'[n][i] = wvCh[n][i])
        BY <1>2, <2>3, OfferedEntries
      <4> QED BY <2>3, <4>1 DEF ChannelFresh
    <3> QED BY <1>1, <3>1 DEF ChannelFresh
  <2>4. Take(n) => wvCh'[n] = <<>>
    BY DEF Take, TypeOK
  <2> QED BY <1>3, <2>1, <2>2, <2>3, <2>4, ChannelShapes
<1>4. ASSUME JobFresh(n) \/ (ChannelFresh(n) /\ job'[n] # job[n])
      PROVE  JobFresh(n)'
  <2>1. ChannelFresh(n) /\ ChannelFresh(n)'
    BY <1>3, <1>4 DEF JobFresh
  <2>2. job'[n] # None => job'[n] = [wv |-> local[n], states |-> Available(n)]
    <3>1. CASE Take(n)
      <4>1. wvCh[n][Len(wvCh[n])] = local[n]
        <5>1. Len(wvCh[n]) \in 1 .. Len(wvCh[n])
          BY <1>2, <3>1, QueueFacts DEF Take
        <5> QED BY <2>1, <5>1 DEF ChannelFresh
      <4> QED BY <3>1, <4>1 DEF Take, TypeOK, Available
    <3>2. CASE Finish(n) \/ Fail(n)
      BY <3>2 DEF Finish, Fail, TypeOK
    <3>3. CASE job'[n] = job[n]
      BY <1>4, <3>3 DEF JobFresh
    <3>4. Assigned(n) => job'[n] = job[n]
      BY DEF Assigned
    <3> QED BY <3>1, <3>2, <3>3, <3>4, RunShapes
  <2> QED BY <1>1, <2>1, <2>2 DEF JobFresh
<1>5. ASSUME NEW k \in 0 .. ChannelCap,
             OutputFreshFrom(n, k) \/ (OutputFreshFrom(n, k + 1) /\ Assigned(n))
      PROVE  OutputFreshFrom(n, k)'
  <2>1. JobFresh(n) /\ JobFresh(n)' /\ n \in local'[n].fit /\ n \in local[n].fit
    BY <1>1, <1>4, <1>5 DEF OutputFreshFrom
  <2>2. outputCh[n] \in Seq(AssignedOrders) /\ k \in Nat
    BY DEF TypeOK
  <2>3. ASSUME NEW i \in 1 .. Len(outputCh'[n]), i > k
        PROVE  outputCh'[n][i] = Due(n)
    <3>1. CASE Assigned(n)
      <4>1. outputCh'[n] = Tail(outputCh[n]) /\ outputCh[n] # <<>>
        BY <3>1 DEF Assigned, TypeOK
      <4>2. i + 1 \in 1 .. Len(outputCh[n]) /\ outputCh'[n][i] = outputCh[n][i + 1]
            /\ i + 1 > k /\ i + 1 > k + 1
        BY <2>2, <2>3, <4>1
      <4> QED BY <1>5, <4>2 DEF OutputFreshFrom
    <3>2. CASE outputCh'[n] = outputCh[n] /\ ~Assigned(n)
      BY <1>5, <2>3, <3>2 DEF OutputFreshFrom
    <3>3. CASE Finish(n) /\ ~Assigned(n)
      <4> DEFINE out == InsertCabCalls(Answer(job[n])[n], job[n].wv) \ Impossible
      <4>1. job[n] = [wv |-> local[n], states |-> Available(n)]
        BY <2>1, <3>3 DEF JobFresh, Finish
      <4>2. n \in Available(n)
        BY <2>1 DEF Available, States
      <4>3. out = Due(n)
        <5>1. Answer(job[n])[n] = {c \in local[n].hall : cost[c][local[n].pos][Available(n)] = n}
          BY <4>1, <4>2 DEF Answer
        <5>2. job[n].wv = local[n]
          BY <4>1
        <5> QED BY <5>1, <5>2 DEF Due
      <4>4. outputCh'[n] \in {outputCh[n], Append(outputCh[n], out)}
        BY <3>3 DEF Finish, TypeOK, Offered
      <4> HIDE DEF out
      <4>5. outputCh'[n][i] = out \/ (i \in 1 .. Len(outputCh[n]) /\ outputCh'[n][i] = outputCh[n][i])
        <5>1. CASE outputCh'[n] = outputCh[n]
          BY <5>1
        <5>2. CASE outputCh'[n] = Append(outputCh[n], out)
          BY <2>2, <5>2
        <5> QED BY <4>4, <5>1, <5>2
      <4> QED BY <1>5, <2>3, <3>3, <4>3, <4>5 DEF OutputFreshFrom
    <3>4. Take(n) \/ Fail(n) => outputCh'[n] = outputCh[n]
      BY DEF Take, Fail
    <3> QED BY <3>1, <3>2, <3>3, <3>4, RunShapes
  <2> QED BY <1>1, <2>1, <2>3 DEF OutputFreshFrom
<1>6. ASSUME OrdersFresh(n) \/ (OutputFreshFrom(n, 0) /\ Assigned(n))
      PROVE  OrdersFresh(n)'
  <2>1. OutputFreshFrom(n, 0) /\ OutputFreshFrom(n, 0)'
    <3>1. OutputFreshFrom(n, 0) /\ 0 \in 0 .. ChannelCap
      BY <1>6 DEF OrdersFresh
    <3> QED BY <1>5, <3>1
  <2>2. orders'[n] = Due(n)
    <3>1. CASE Assigned(n)
      <4>1. outputCh[n] \in Seq(AssignedOrders) /\ outputCh[n] # <<>>
        BY <3>1 DEF Assigned, TypeOK
      <4>2. orders'[n] = outputCh[n][1] /\ 1 \in 1 .. Len(outputCh[n]) /\ 1 > 0
        BY <3>1, <4>1 DEF Assigned, TypeOK
      <4> QED BY <2>1, <4>2 DEF OutputFreshFrom
    <3>2. CASE ~Assigned(n)
      <4>1. orders'[n] = orders[n]
        BY <3>2, RunShapes DEF Take, Finish, Fail
      <4> QED BY <1>6, <3>2, <4>1 DEF OrdersFresh
    <3> QED BY <3>1, <3>2
  <2> QED BY <1>1, <2>1, <2>2 DEF OrdersFresh
<1> QED BY <1>3, <1>4, <1>5, <1>6 DEF RefreshStep

\* As long as the worldview and the alive list of an elevator stay as they are, stale
\* worldviews, jobs and answers only disappear, and the 10 s tick and Run bring fresh
\* ones: nothing that was dropped or queued before brings old orders back.
THEOREM OrdersRefresh == Spec => StaysFresh
<1>1. ASSUME TypeOK, [Next]_vars PROVE \A n \in Node : RefreshStep(n)
  <2> SUFFICES ASSUME NEW n \in Node PROVE RefreshStep(n)
    OBVIOUS
  <2>1. CASE Settled(n)
    BY <1>1, <2>1, Refreshed
  <2>2. CASE ~Settled(n)
    BY <2>2 DEF RefreshStep
  <2> QED BY <2>1, <2>2
<1>2. TypeOK /\ [Next]_vars => [\A n \in Node : RefreshStep(n)]_vars
  BY <1>1
<1> QED BY <1>2, TypeCorrect, PTL DEF Spec, StaysFresh

\* With fresh job and channel at most the whole channel of answers is stale.
LEMMA StaleAtMost ==
    ASSUME TypeOK, NEW n \in Node, JobFresh(n), n \in local[n].fit
    PROVE  OutputFreshFrom(n, ChannelCap)
<1>1. outputCh[n] \in Seq(AssignedOrders) /\ Len(outputCh[n]) <= ChannelCap
  BY DEF TypeOK
<1> QED BY <1>1 DEF OutputFreshFrom

\* Exactly one of the available elevators goes for the call, but for one that stops
\* there for a cab call of its own.
AssignedOnce(c) ==
    \E n \in Node :
        /\ n \in Available(n) /\ c \in orders[n]
        /\ \A m \in Available(n) \ {n} : c \in orders[m] => c[1] \in local[m].cab

\* What fresh orders say of the calls: between nodes that agree, and of each alone.
FreshOrdersRight ==
    /\ Agreed /\ (\A n \in Node : n \in local[n].fit => OrdersFresh(n)) =>
          \A c \in HallCall \ Impossible :
              (\A n \in Node : c \in local[n].hall /\ Available(n) # {}) => AssignedOnce(c)
    /\ \A n \in Node : OrdersFresh(n) =>
          /\ \A f \in local[n].cab : ({f} \X Dir) \ Impossible \subseteq orders[n]
          /\ \A c \in HallCall : c \notin local[n].hall /\ c[1] \notin local[n].cab
                                    => c \notin orders[n]

\* Once the orders are fresh they are right: elevators that agree and compute alone
\* have given every acknowledged hall call to exactly one of them, every elevator has
\* all its cab calls, and no completed call is left.  With StaysFresh this is all of
\* HallCallAssignedOnce, CabCallAssigned and CompletedCallDropped but the fairness.
THEOREM FreshIsRight == Spec => []FreshOrdersRight
<1>1. ASSUME TypeOK, Agreed, \A n \in Node : n \in local[n].fit => OrdersFresh(n),
             NEW c \in HallCall \ Impossible,
             \A n \in Node : c \in local[n].hall /\ Available(n) # {}
      PROVE  AssignedOnce(c)
  <2>1. PICK a \in Node : TRUE
    BY AssignerAssumption
  <2> DEFINE all == Available(a)
             pos == local[a].pos
             n == cost[c][pos][all]
  <2>2. \A m \in Node : Available(m) = all /\ local[m].pos = pos
    BY <1>1 DEF Agreed
  <2>3. all \in (SUBSET Node) \ {{}} /\ pos \in Position
    BY <1>1 DEF Available, States, TypeOK, Worldview
  <2>4. n \in all /\ n \in Node
    <3>1. \A d \in HallCall, p \in Position, states \in (SUBSET Node) \ {{}} :
             cost[d][p][states] \in states
      BY <1>1 DEF TypeOK, Cost
    <3> HIDE DEF all, pos
    <3> QED BY <2>3, <3>1
  <2>5. \A m \in all : m \in Node /\ m \in local[m].fit
    <3>1. \A m \in all : m \in Available(m) /\ m \in Node
      BY <2>2, <2>3
    <3> QED BY <3>1 DEF Available, States
  <2>6. \A m \in all : orders[m] = Due(m)
    BY <1>1, <2>5 DEF OrdersFresh
  <2>7. n \in Available(n)
    BY <2>2, <2>4
  <2>8. c \in Due(n)
    <3>1. cost[c][local[n].pos][Available(n)] = n
      BY <2>2, <2>4
    <3>2. c \in local[n].hall
      BY <1>1, <2>4
    <3> QED BY <3>1, <3>2 DEF Due, InsertCabCalls
  <2>9. ASSUME NEW m \in all, m # n, c \in Due(m)
        PROVE  c[1] \in local[m].cab
    <3>1. cost[c][local[m].pos][Available(m)] = n
      BY <2>2, <2>5
    <3> HIDE DEF n
    <3> QED BY <2>9, <3>1 DEF Due, InsertCabCalls
  <2>10. Available(n) = all
    BY <2>2, <2>4
  <2> HIDE DEF n, all
  <2> QED BY <2>4, <2>6, <2>7, <2>8, <2>9, <2>10 DEF AssignedOnce
<1>2. ASSUME TypeOK, NEW n \in Node, OrdersFresh(n)
      PROVE  /\ \A f \in local[n].cab : ({f} \X Dir) \ Impossible \subseteq orders[n]
             /\ \A c \in HallCall : c \notin local[n].hall /\ c[1] \notin local[n].cab
                                       => c \notin orders[n]
  <2>1. orders[n] = Due(n)
    BY <1>2 DEF OrdersFresh
  <2>2. \A f \in local[n].cab : {f} \X Dir \subseteq Cell
    BY <1>2 DEF TypeOK, Worldview, Cell
  <2> QED BY <2>1, <2>2 DEF Due, InsertCabCalls
<1>3. TypeOK => FreshOrdersRight
  BY <1>1, <1>2 DEF FreshOrdersRight
<1> QED BY <1>3, TypeCorrect, PTL
=============================================================================
