------------------------------- MODULE Sweep --------------------------------
(***************************************************************************)
(* One elevator that always goes for its closest destination, with every   *)
(* report answered at once: what the search of Destination gives when the  *)
(* handlers of the state machine follow it, without the channels between   *)
(* them (ElevatorControl has those).  Orders come in at any time, for ever.*)
(***************************************************************************)
EXTENDS Destination

VARIABLES
    position,  \* the floor and direction last reported
    orders     \* the assigned orders not yet served

vars == <<position, orders>>

\* The impossible orders are removed by OrderAssigner.Run.
RealCell == Cell \ {<<0, "down">>, <<Top, "up">>}

TypeOK == position \in OrderMessage /\ orders \subseteq RealCell

Init ==
    /\ position \in {At(f, "stop") : f \in Floor}
    /\ orders = {}

Order(c) ==
    /\ c \notin orders
    /\ orders' = orders \cup {c}
    /\ UNCHANGED position

Destination == NextDestination(position, orders)

\* Open the door at the destination, turn to its direction, clear the order.
Arrive ==
    /\ position' = Destination
    /\ orders' = orders \ {<<Destination.floor, Destination.dir>>}

\* handleIdle, handleDoorOpen: the destination is on this floor.
Serve ==
    /\ orders # {}
    /\ Destination.floor = position.floor
    /\ Arrive

\* getElevatorDirection, and the next floor on the way: handleMoving compares it
\* with the destination found before it reports the new position.
\* Mutant: the comparison is turned round.
Away == IF Destination.floor < position.floor THEN At(position.floor + 1, "up")
                                              ELSE At(position.floor - 1, "down")

Toward == IF Destination.floor > position.floor THEN At(position.floor + 1, "up")
                                                ELSE At(position.floor - 1, "down")

Travel ==
    /\ orders # {}
    /\ Destination.floor # position.floor
    /\ IF Toward.floor = Destination.floor
       THEN Arrive
       ELSE position' = Toward /\ UNCHANGED orders

\* Nothing to do: the elevator becomes idle.
Rest ==
    /\ orders = {}
    /\ position.dir # "stop"
    /\ position' = Destination
    /\ UNCHANGED orders

Next == (\E c \in RealCell : Order(c)) \/ Serve \/ Travel \/ Rest

Spec == Init /\ [][Next]_vars /\ WF_vars(Serve \/ Travel)

-----------------------------------------------------------------------------
\* The search returns the order the circle comes to first, whichever orders are
\* assigned (findClosestDestination; its comment: "look for nearest True").
ClosestIsNearest ==
    orders # {} =>
        IsNearest(<<Destination.floor, Destination.dir>>, position, orders)

\* No order is overtaken for ever: whatever comes in meanwhile, an order that
\* waits is nearer after every floor travelled and every other order served.
EveryStepBringsNearer ==
    [][\A c \in orders \cap orders' :
          position' # position => Ahead(position', c) < Ahead(position, c)]_vars

\* Every order is served, however many others keep coming in.
EveryOrderServed == \A c \in RealCell : c \in orders ~> c \notin orders
=============================================================================
