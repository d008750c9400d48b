---------------------------- MODULE OrderAssigner ----------------------------
(***************************************************************************)
(* How acknowledged calls become the orders of an elevator: at every node  *)
(* the OrderManager hands worldviews to OrderAssigner.Run, which runs the  *)
(* hall_request_assigner executable and passes the own part of its answer  *)
(* on to the state machine.  Each node does this for itself, from its own  *)
(* worldview and its own alive list; nobody compares the answers.          *)
(*                                                                         *)
(* The worldviews change as the order protocol lets them (OrderCluster has *)
(* the protocol); what is followed here is which change reaches the        *)
(* assigner, over channels that drop what does not fit.                    *)
(***************************************************************************)
EXTENDS Destination, Sequences

CONSTANTS
    Node,        \* the elevators that run
    Position,    \* what else the executable is given: positions, other calls
    None,        \* no job
    HallCall,    \* bound: the hall calls followed
    CabCall,     \* bound: the floors of the cab calls followed
    ChannelCap,  \* capacity of omToOraWvCh and of oaToFsmCh (10 in main.go)
    MaxChanges   \* bound: changes of worldviews and alive lists in all

ASSUME AssignerAssumption ==
    /\ Node # {} /\ Position # {}
    /\ HallCall \subseteq Cell /\ CabCall \subseteq Floor
    /\ ChannelCap \in Nat \ {0} /\ MaxChanges \in Nat

VARIABLES
    local,      \* local[n]: of localWv what the assigner reads
    aliveList,  \* aliveList[n]: the peers alive at n
    wvCh,       \* wvCh[n]: worldviews on their way to Run
    job,        \* job[n]: the worldview and the states the executable works on
    outputCh,   \* outputCh[n]: assigned orders on their way to the state machine
    orders,     \* orders[n]: the assigned orders the state machine goes by
    cost,       \* the executable, as a function of its input
    changes     \* changes so far, for the bound

vars == <<local, aliveList, wvCh, job, outputCh, orders, cost, changes>>

-----------------------------------------------------------------------------
(* Types. *)

\* The acknowledged hall calls and own cab calls, and the nodes that are listed
\* and not malfunctioned.
Worldview ==
    [hall : SUBSET HallCall, cab : SUBSET CabCall, fit : SUBSET Node, pos : Position]

\* Which of the given elevators gets a call, for every input.
Cost ==
    {f \in [HallCall -> [Position -> [(SUBSET Node) \ {{}} -> Node]]] :
        \A c \in HallCall, p \in Position, states \in (SUBSET Node) \ {{}} :
            f[c][p][states] \in states}

\* Down from the lowest floor and up from the highest.
Impossible == {<<0, "down">>, <<Top, "up">>}

\* def.AssignedOrders, as they leave Run.
AssignedOrders == SUBSET (Cell \ Impossible)

TypeOK ==
    /\ local \in [Node -> Worldview]
    /\ aliveList \in [Node -> SUBSET Node]
    /\ wvCh \in [Node -> Seq(Worldview)]
    /\ job \in [Node -> [wv : Worldview, states : (SUBSET Node) \ {{}}] \cup {None}]
    /\ outputCh \in [Node -> Seq(AssignedOrders)]
    /\ \A n \in Node : Len(wvCh[n]) <= ChannelCap /\ Len(outputCh[n]) <= ChannelCap
    /\ orders \in [Node -> AssignedOrders]
    /\ cost \in Cost
    /\ changes \in Nat

\* Every node is known and in order, and what is acknowledged is so everywhere;
\* the executable is any, and has not been run, or not with success.
Init ==
    /\ \E wv \in [hall : SUBSET HallCall, cab : {{}}, fit : {Node}, pos : Position] :
          local = [n \in Node |-> wv]
    /\ aliveList = [n \in Node |-> Node]
    /\ wvCh = [n \in Node |-> <<>>]
    /\ job = [n \in Node |-> None]
    /\ outputCh = [n \in Node |-> <<>>]
    /\ orders = [n \in Node |-> {}]
    /\ cost \in Cost
    /\ changes = 0

-----------------------------------------------------------------------------
(* The worldview changes; sendToOrderHandler drops what finds no room.     *)

\* Mutant: nothing is dropped.
Queued(ch, x) == Append(ch, x)

\* "select { case ch <- x: default: }"
Offered(ch, x) == IF Len(ch) < ChannelCap THEN Append(ch, x) ELSE ch

SendToOrderHandler(n, wv) == wvCh' = [wvCh EXCEPT ![n] = Offered(@, wv)]

Becomes(n, wv) ==
    /\ changes < MaxChanges
    /\ changes' = changes + 1
    /\ local' = [local EXCEPT ![n] = wv]
    /\ UNCHANGED <<aliveList, job, outputCh, orders, cost>>

\* A request that reaches Acknowledged by a press or a merge is handed over at once.
Acknowledge(n, c) ==
    /\ c \notin local[n].hall
    /\ Becomes(n, [local[n] EXCEPT !.hall = @ \cup {c}])
    /\ SendToOrderHandler(n, local'[n])

\* A completion is handed over; a merge that follows one at a peer is not.
Completed(n, c) ==
    /\ c \in local[n].hall
    /\ Becomes(n, [local[n] EXCEPT !.hall = @ \ {c}])
    /\ SendToOrderHandler(n, local'[n]) \/ UNCHANGED wvCh

CabAcknowledge(n, f) ==
    /\ f \notin local[n].cab
    /\ Becomes(n, [local[n] EXCEPT !.cab = @ \cup {f}])
    /\ SendToOrderHandler(n, local'[n])

\* A cab call recovered from a peer's copy is not "newly acknowledged".
CabRecovered(n, f) ==
    /\ f \notin local[n].cab
    /\ Becomes(n, [local[n] EXCEPT !.cab = @ \cup {f}])
    /\ UNCHANGED wvCh

CabCompleted(n, f) ==
    /\ f \in local[n].cab
    /\ Becomes(n, [local[n] EXCEPT !.cab = @ \ {f}])
    /\ SendToOrderHandler(n, local'[n])

\* Reports of malfunctions and of everything else are not handed over.
StatusReport(n, m) ==
    /\ Becomes(n, [local[n] EXCEPT !.fit = IF m \in @ THEN @ \ {m} ELSE @ \cup {m}])
    /\ UNCHANGED wvCh

Report(n, p) ==
    /\ Becomes(n, [local[n] EXCEPT !.pos = p])
    /\ UNCHANGED wvCh

PeerUpdate(n, m) ==
    /\ changes < MaxChanges
    /\ changes' = changes + 1
    /\ aliveList' = [aliveList EXCEPT ![n] = IF m \in @ THEN @ \ {m} ELSE @ \cup {m}]
    /\ UNCHANGED <<local, wvCh, job, outputCh, orders, cost>>

OrderManager ==
    \E n \in Node :
        \/ \E c \in HallCall : Acknowledge(n, c) \/ Completed(n, c)
        \/ \E f \in CabCall : CabAcknowledge(n, f) \/ CabRecovered(n, f) \/ CabCompleted(n, f)
        \/ \E m \in Node : StatusReport(n, m) \/ PeerUpdate(n, m)
        \/ \E p \in Position : Report(n, p)

\* Mutant: the tick hands nothing over.
OraTickSilent(n) == UNCHANGED vars

\* case <-oraTicker.C, every 10 s.
OraTick(n) ==
    /\ SendToOrderHandler(n, local[n])
    /\ UNCHANGED <<local, aliveList, job, outputCh, orders, cost, changes>>

-----------------------------------------------------------------------------
(* OrderAssigner.Run. *)

\* The node itself needs no heartbeat, the others do; a malfunctioned node is
\* left out either way.
States(n, wv) == {m \in wv.fit : m = n \/ m \in aliveList[n]}

\* The newest worldview is taken and those before it are dropped; without a
\* single elevator to give calls to, the executable is not run.
Take(n) ==
    /\ job[n] = None
    /\ wvCh[n] # <<>>
    /\ LET wv == wvCh[n][Len(wvCh[n])]
       IN  job' = [job EXCEPT ![n] =
               IF States(n, wv) = {} THEN None ELSE [wv |-> wv, states |-> States(n, wv)]]
    /\ wvCh' = [wvCh EXCEPT ![n] = <<>>]
    /\ UNCHANGED <<local, aliveList, outputCh, orders, cost, changes>>

\* The executable's answer: who gets which hall call.
Answer(j) ==
    [m \in j.states |-> {c \in j.wv.hall : cost[c][j.wv.pos][j.states] = m}]

\* Mutant: the cab calls are forgotten.
NoCabCalls(own, wv) == own

InsertCabCalls(own, wv) == own \cup {c \in Cell : c[1] \in wv.cab}

\* checkORAOutputMap: every acknowledged hall call is somebody's.
OutputComplete(answer, wv) ==
    \A c \in wv.hall : \E m \in DOMAIN answer : c \in answer[m]

\* The own part of the answer, with all own cab calls and without the impossible
\* orders, goes to the state machine if there is room.
Finish(n) ==
    /\ job[n] # None
    /\ LET answer == Answer(job[n])
       IN  IF OutputComplete(answer, job[n].wv) /\ n \in DOMAIN answer
           THEN outputCh' = [outputCh EXCEPT ![n] =
                   Offered(@, InsertCabCalls(answer[n], job[n].wv) \ Impossible)]
           ELSE UNCHANGED outputCh
    /\ job' = [job EXCEPT ![n] = None]
    /\ UNCHANGED <<local, aliveList, wvCh, orders, cost, changes>>

\* It fails, or takes longer than oraTimeout.
Fail(n) ==
    /\ job[n] # None
    /\ job' = [job EXCEPT ![n] = None]
    /\ UNCHANGED <<local, aliveList, wvCh, outputCh, orders, cost, changes>>

\* Mutant: the new orders are added to the old ones.
AssignedAdded(n) ==
    /\ outputCh[n] # <<>>
    /\ orders' = [orders EXCEPT ![n] = @ \cup Head(outputCh[n])]
    /\ outputCh' = [outputCh EXCEPT ![n] = Tail(@)]
    /\ UNCHANGED <<local, aliveList, wvCh, job, cost, changes>>

\* produceNextElevatorDestination takes the orders.
Assigned(n) ==
    /\ outputCh[n] # <<>>
    /\ orders' = [orders EXCEPT ![n] = Head(outputCh[n])]
    /\ outputCh' = [outputCh EXCEPT ![n] = Tail(@)]
    /\ UNCHANGED <<local, aliveList, wvCh, job, cost, changes>>

Next ==
    \/ OrderManager
    \/ \E n \in Node : OraTick(n) \/ Take(n) \/ Finish(n) \/ Fail(n) \/ Assigned(n)

\* The ticker fires for ever, Run and the state machine go on, and the executable
\* does not fail every time.
Fairness ==
    \A n \in Node :
        /\ WF_vars(OraTick(n)) /\ WF_vars(Take(n)) /\ WF_vars(Assigned(n))
        /\ SF_vars(Finish(n))

Spec == Init /\ [][Next]_vars
LiveSpec == Spec /\ Fairness

-----------------------------------------------------------------------------
(* Properties.  Changes are bounded, so every behaviour settles.           *)

\* The elevators n would give a call to now.
Available(n) == States(n, local[n])

\* What the nodes know has converged.
Agreed ==
    \A n, m \in Node :
        /\ local[n].hall = local[m].hall /\ local[n].pos = local[m].pos
        /\ Available(n) = Available(m)

\* Once the worldviews agree, every acknowledged hall call is in the orders of
\* exactly one of the available elevators, although each computes its own part
\* alone and worldviews and answers were dropped (another one stops there as
\* well only for a cab call of its own).
HallCallAssignedOnce ==
    \A c \in HallCall :
        <>[](Agreed /\ \A n \in Node : c \in local[n].hall /\ Available(n) # {})
            => <>[](\E n \in Node :
                       /\ n \in Available(n) /\ c \in orders[n]
                       /\ \A m \in Available(n) \ {n} :
                             c \in orders[m] => c[1] \in local[m].cab)

\* An elevator that is in order gets its own cab calls whatever the others say,
\* those recovered after a restart included.
CabCallAssigned ==
    \A n \in Node, f \in CabCall :
        <>[](f \in local[n].cab /\ n \in local[n].fit)
            => <>[](({f} \X Dir) \ Impossible \subseteq orders[n])

\* A call that has been completed everywhere is no longer in the orders of an
\* elevator that is in order, unless it stops there for a cab call.
CompletedCallDropped ==
    \A n \in Node, c \in HallCall :
        <>[](c \notin local[n].hall /\ c[1] \notin local[n].cab /\ n \in local[n].fit)
            => <>[](c \notin orders[n])
=============================================================================
