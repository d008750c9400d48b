--------------------------- MODULE ElevatorControl ---------------------------
(***************************************************************************)
(* One elevator under its state machine: controlElevatorStateMachine and   *)
(* its three handlers, the door timer, the goroutine that produces the     *)
(* next destination, the car and its sensors, and, left open, the          *)
(* OrderManager and the OrderAssigner it gets its orders from.             *)
(*                                                                         *)
(* One iteration of the main loop is two steps: Fetch reads the latest     *)
(* destination, a case of the handler's select then acts on it, and        *)
(* everything else may happen in between.                                  *)
(***************************************************************************)
EXTENDS Destination, Sequences

CONSTANTS
    BetweenFloors,  \* def.BetweenFloors
    None,           \* nothing heard yet
    Button,         \* bound: the buttons pressed, as <<floor, "up"/"down"/"cab">>
    MaxPresses,     \* bound: presses in all
    MaxSwitches,    \* bound: operations of the obstruction switch and the stop button
    EventCap,       \* bound: hardware events of one kind waiting (10 in the code)
    ReportCap,    \* bound: positions, and completions, waiting (10 in the code)
    TimeoutCap,     \* bound: door timeouts waiting (10 in the code)
    Elsewhere       \* the hall calls that may be assigned to other elevators

ASSUME ControlAssumption ==
    /\ BetweenFloors \notin Floor
    /\ None \notin OrderMessage
    /\ Button \subseteq Floor \X (Dir \cup {"cab"})
    /\ MaxPresses \in Nat /\ MaxSwitches \in Nat
    /\ EventCap \in Nat \ {0} /\ ReportCap \in Nat \ {0} /\ TimeoutCap \in Nat \ {0}
    /\ Elsewhere \subseteq Cell

VARIABLES
    \* the state machine
    phase,              \* where its loop is: "fetch" or "select"
    elev,               \* floor, dir and state of def.Elevator
    currentDestination,
    isObstructed, isStopped,
    \* the hardware and the pollers' channels
    motor, doorLamp,
    at,                 \* where the car is: 2 * f at floor f, odd between two floors
    obstruction, stopButton,
    floorsCH, obstructionCH, stopCH, buttonsCH,
    \* the timers
    doorReset,          \* a message waits in doorTimerResetCH
    doorTimer,          \* the door timer runs
    doorTimeouts,       \* messages in doorTimerTimeoutCH
    floorTimer,         \* "off", "armed" or "expired"
    \* produceNextElevatorDestination and provideLatestDestination
    positionCH, movement, orders, latestDestination,
    \* the rest of the node
    calls,              \* acknowledged calls, as buttons
    clearCH,            \* completions on their way to the OrderManager
    costCH,             \* a result of the OrderAssigner on its way
    presses, switches   \* how many so far, for the bounds

fsm == <<elev, currentDestination, isObstructed, isStopped>>
output == <<motor, doorLamp>>
sensors == <<obstruction, stopButton, floorsCH, obstructionCH, stopCH, buttonsCH>>
door == <<doorReset, doorTimer, doorTimeouts>>
producer == <<movement, orders, latestDestination>>
node == <<calls, clearCH, costCH>>
bounds == <<presses, switches>>
vars == <<phase, fsm, output, at, sensors, door, floorTimer, positionCH, producer, node, bounds>>

-----------------------------------------------------------------------------
(* Types. *)

Elevator ==
    [floor : Floor \cup {BetweenFloors}, dir : MotorDir, state : {"Moving", "DoorOpen", "Idle"}]

\* What the producer has heard from the OrderAssigner.
Assignment == (SUBSET Cell) \cup {None}

TypeOK ==
    /\ phase \in {"fetch", "select"}
    /\ elev \in Elevator
    /\ currentDestination \in OrderMessage
    /\ isObstructed \in BOOLEAN /\ isStopped \in BOOLEAN
    /\ motor \in MotorDir /\ doorLamp \in BOOLEAN
    /\ at \in 0 .. 2 * Top
    /\ obstruction \in BOOLEAN /\ stopButton \in BOOLEAN
    /\ floorsCH \in Seq(Floor)
    /\ obstructionCH \in Seq(BOOLEAN) /\ stopCH \in Seq(BOOLEAN)
    /\ buttonsCH \in Seq(Button)
    /\ doorReset \in BOOLEAN /\ doorTimer \in BOOLEAN
    /\ doorTimeouts \in Nat
    /\ floorTimer \in {"off", "armed", "expired"}
    /\ positionCH \in Seq(OrderMessage)
    /\ movement \in OrderMessage \cup {None}
    /\ orders \in Assignment
    /\ latestDestination \in OrderMessage \cup {None}
    /\ calls \subseteq Button
    /\ clearCH \in Seq(Cell)
    /\ costCH \in Assignment
    /\ presses \in Nat /\ switches \in Nat

Elev(f, d, s) == [floor |-> f, dir |-> d, state |-> s]

-----------------------------------------------------------------------------
(* Initial states: on a floor the elevator is idle, between two it goes    *)
(* down to find one.                                                       *)

Init ==
    /\ phase = "fetch"
    /\ at \in 0 .. 2 * Top
    /\ IF at % 2 = 0
       THEN /\ elev = Elev(at \div 2, "stop", "Idle")
            /\ floorTimer = "off"
       ELSE /\ elev = Elev(BetweenFloors, "down", "Moving")
            /\ floorTimer = "armed"
    /\ motor = elev.dir /\ doorLamp = FALSE
    /\ currentDestination = At(0, "stop")
    /\ isObstructed = FALSE /\ isStopped = FALSE
    /\ obstruction = FALSE /\ stopButton = FALSE
    /\ floorsCH = <<>> /\ obstructionCH = <<>> /\ stopCH = <<>> /\ buttonsCH = <<>>
    /\ doorReset = FALSE /\ doorTimer = FALSE /\ doorTimeouts = 0
    /\ positionCH = <<>> /\ movement = None /\ orders = None /\ latestDestination = None
    /\ calls = {} /\ clearCH = <<>> /\ costCH = None
    /\ presses = 0 /\ switches = 0

-----------------------------------------------------------------------------
(* What the handlers have in common.                                       *)

\* A message that waits is enough, and a timeout that waits stays.
ResetDoorTimer == doorReset' = TRUE /\ UNCHANGED <<doorTimer, doorTimeouts>>

ClearOrder(f, d) == clearCH' = Append(clearCH, <<f, d>>)

GiveLocation(f, d) == positionCH' = Append(positionCH, At(f, d))

\* Mutant: nothing resumes the movement.
NeverResumeMoving(obstructed, stopped, d) == "stop"

StopOrResumeMoving(obstructed, stopped, d) ==
    IF obstructed \/ stopped THEN "stop" ELSE d

\* Mutant: the wrong way.
OppositeDirection(from, to) ==
    IF from = to THEN "stop" ELSE IF from > to THEN "up" ELSE "down"

GetElevatorDirection(from, to) ==
    IF from = to THEN "stop" ELSE IF from > to THEN "down" ELSE "up"

\* Opening the door for the destination, which is on floor f.
Serve(f) ==
    /\ elev' = Elev(f, currentDestination.dir, "DoorOpen")
    /\ doorLamp' = TRUE
    /\ ResetDoorTimer
    /\ ClearOrder(f, currentDestination.dir)

\* Leaving for the destination, which is on another floor.
Depart ==
    LET d == GetElevatorDirection(elev.floor, currentDestination.floor)
    IN  /\ elev' = Elev(elev.floor, d, "Moving")
        /\ motor' = d
        /\ floorTimer' = "armed"

\* The loop reads the destination once per iteration.  It waits while the
\* last position or completion has not been taken; the door timer takes a reset in
\* the 200 ms of sleep.
Fetch ==
    /\ phase = "fetch"
    /\ Len(positionCH) < ReportCap /\ Len(clearCH) < ReportCap
    /\ ~doorReset
    /\ phase' = "select"
    /\ currentDestination' =
          IF latestDestination = None THEN currentDestination ELSE latestDestination
    /\ UNCHANGED <<elev, isObstructed, isStopped, output, at, sensors, door, floorTimer,
                   positionCH, producer, node, bounds>>

Handle(state) ==
    /\ phase = "select" /\ elev.state = state
    /\ phase' = "fetch"
    /\ UNCHANGED <<currentDestination, at, obstruction, stopButton, producer, costCH, bounds>>

-----------------------------------------------------------------------------
(* The cases shared by the three handlers.                                 *)

\* Mutant: the door's time does not start again on release.
SwitchTakenNoReset(obstructed, stopped, released) ==
    /\ isObstructed' = obstructed /\ isStopped' = stopped
    /\ motor' = IF elev.state = "Moving"
                THEN StopOrResumeMoving(obstructed, stopped, elev.dir) ELSE motor
    /\ UNCHANGED <<elev, doorLamp, door, floorsCH, buttonsCH, floorTimer, positionCH, calls,
                   clearCH>>

\* A switch has changed, and the flags are now these: a moving elevator stops
\* or goes on, an open door's time starts again when its switch is released.
SwitchTaken(obstructed, stopped, released) ==
    /\ isObstructed' = obstructed /\ isStopped' = stopped
    /\ motor' = IF elev.state = "Moving"
                THEN StopOrResumeMoving(obstructed, stopped, elev.dir) ELSE motor
    /\ IF elev.state = "DoorOpen" /\ released THEN ResetDoorTimer ELSE UNCHANGED door
    /\ UNCHANGED <<elev, doorLamp, floorsCH, buttonsCH, floorTimer, positionCH, calls, clearCH>>

TakeObstruction ==
    /\ Handle(elev.state)
    /\ obstructionCH # <<>>
    /\ obstructionCH' = Tail(obstructionCH)
    /\ SwitchTaken(Head(obstructionCH), isStopped, ~Head(obstructionCH))
    /\ UNCHANGED stopCH

TakeStop ==
    /\ Handle(elev.state)
    /\ stopCH # <<>>
    /\ stopCH' = Tail(stopCH)
    /\ SwitchTaken(isObstructed, Head(stopCH), ~Head(stopCH))
    /\ UNCHANGED obstructionCH

\* A press the open door answers by itself: a cab call to this floor, or a hall
\* call in the elevator's direction.
AnsweredByDoor(b) ==
    /\ elev.state = "DoorOpen"
    /\ b[1] = elev.floor
    /\ ~ (elev.dir = "down" /\ b[2] = "up")
    /\ ~ (elev.dir = "up" /\ b[2] = "down")

\* Other presses go to the OrderManager, which has them acknowledged.
TakeButton ==
    /\ Handle(elev.state)
    /\ buttonsCH # <<>>
    /\ buttonsCH' = Tail(buttonsCH)
    /\ IF AnsweredByDoor(Head(buttonsCH))
       THEN ResetDoorTimer /\ UNCHANGED calls
       ELSE calls' = calls \cup {Head(buttonsCH)} /\ UNCHANGED door
    /\ UNCHANGED <<elev, isObstructed, isStopped, output, floorsCH, obstructionCH, stopCH,
                   floorTimer, positionCH, clearCH>>

\* time.After(5 ms): only when no other case of the handler is ready.
NothingElse ==
    /\ obstructionCH = <<>> /\ stopCH = <<>> /\ buttonsCH = <<>>
    /\ elev.state = "Moving" => floorsCH = <<>>
    /\ elev.state = "DoorOpen" => doorTimeouts = 0

\* Moving and DoorOpen only feed the watchdog then.
QuietTick ==
    /\ NothingElse
    /\ elev.state \in {"Moving", "DoorOpen"}
    /\ Handle(elev.state)
    /\ UNCHANGED <<elev, isObstructed, isStopped, output, floorsCH, obstructionCH, stopCH,
                   buttonsCH, door, floorTimer, positionCH, calls, clearCH>>

-----------------------------------------------------------------------------
(* handleMoving: a floor is reached.                                       *)

NothingToDo == currentDestination.dir = "stop"

\* Mutant: the floor timer is not stopped.
RestUnderTimer(f) ==
    /\ NothingToDo
    /\ elev' = Elev(f, "stop", "Idle")
    /\ motor' = "stop"
    /\ UNCHANGED <<floorTimer, doorLamp, door, clearCH>>

Rest(f) ==
    /\ NothingToDo
    /\ elev' = Elev(f, "stop", "Idle")
    /\ motor' = "stop"
    /\ floorTimer' = "off"
    /\ UNCHANGED <<doorLamp, door, clearCH>>

\* Mutant: the motor is left on.
RollOn(f) ==
    /\ ~NothingToDo /\ f = currentDestination.floor
    /\ floorTimer' = "off"
    /\ Serve(f)
    /\ UNCHANGED motor

Stop(f) ==
    /\ ~NothingToDo /\ f = currentDestination.floor
    /\ motor' = "stop"
    /\ floorTimer' = "off"
    /\ Serve(f)

\* The motor is told only when the direction changes.
PassBy(f) ==
    LET d == GetElevatorDirection(f, currentDestination.floor)
    IN  /\ ~NothingToDo /\ f # currentDestination.floor
        /\ elev' = Elev(f, d, "Moving")
        /\ motor' = IF d = elev.dir THEN motor ELSE d
        /\ floorTimer' = "armed"
        /\ UNCHANGED <<doorLamp, door, clearCH>>

MovingFloor ==
    /\ Handle("Moving")
    /\ floorsCH # <<>>
    /\ floorsCH' = Tail(floorsCH)
    /\ LET f == Head(floorsCH) IN Rest(f) \/ Stop(f) \/ PassBy(f)
    /\ GiveLocation(elev'.floor, elev'.dir)
    /\ UNCHANGED <<isObstructed, isStopped, obstructionCH, stopCH, buttonsCH, calls>>

-----------------------------------------------------------------------------
(* handleDoorOpen and handleIdle: what to do next.                         *)

Held == isObstructed \/ isStopped

\* A timeout of an open door that something holds is taken for nothing.
DoorTimeoutHeld ==
    /\ Held
    /\ doorTimeouts' = doorTimeouts - 1
    /\ UNCHANGED <<elev, output, doorReset, doorTimer, floorTimer, positionCH, clearCH>>

\* The door closes.  With the destination on this very floor it opens again.
CloseDoor ==
    /\ ~Held
    /\ \/ /\ NothingToDo
          /\ elev' = Elev(elev.floor, "stop", "Idle")
          /\ doorLamp' = FALSE
          /\ doorTimeouts' = doorTimeouts - 1
          /\ UNCHANGED <<motor, doorReset, doorTimer, floorTimer, clearCH>>
       \/ /\ ~NothingToDo /\ elev.floor = currentDestination.floor
          /\ elev' = Elev(elev.floor, currentDestination.dir, "DoorOpen")
          /\ doorReset' = TRUE
          /\ doorTimeouts' = doorTimeouts - 1
          /\ ClearOrder(elev.floor, currentDestination.dir)
          /\ UNCHANGED <<output, doorTimer, floorTimer>>
       \/ /\ ~NothingToDo /\ elev.floor # currentDestination.floor
          /\ Depart
          /\ doorLamp' = FALSE
          /\ doorTimeouts' = doorTimeouts - 1
          /\ UNCHANGED <<doorReset, doorTimer, clearCH>>
    /\ GiveLocation(elev'.floor, elev'.dir)

DoorTimeout ==
    /\ Handle("DoorOpen")
    /\ doorTimeouts # 0
    /\ DoorTimeoutHeld \/ CloseDoor
    /\ UNCHANGED <<isObstructed, isStopped, floorsCH, obstructionCH, stopCH, buttonsCH, calls>>

IdleTick ==
    /\ NothingElse
    /\ Handle("Idle")
    /\ \/ /\ Held
          /\ UNCHANGED <<elev, output, door, floorTimer, positionCH, clearCH>>
       \/ /\ ~Held
          /\ \/ /\ NothingToDo
                /\ UNCHANGED <<elev, output, door, floorTimer, clearCH>>
             \/ /\ ~NothingToDo /\ elev.floor = currentDestination.floor
                /\ Serve(elev.floor)
                /\ UNCHANGED <<motor, floorTimer>>
             \/ /\ ~NothingToDo /\ elev.floor # currentDestination.floor
                /\ Depart
                /\ UNCHANGED <<doorLamp, door, clearCH>>
          /\ GiveLocation(elev'.floor, elev'.dir)
    /\ UNCHANGED <<isObstructed, isStopped, floorsCH, obstructionCH, stopCH, buttonsCH, calls>>

StateMachine ==
    \/ Fetch
    \/ TakeObstruction \/ TakeStop \/ TakeButton \/ QuietTick
    \/ MovingFloor \/ DoorTimeout \/ IdleTick

-----------------------------------------------------------------------------
(* The timers.                                                             *)

DoorTimerReset ==
    /\ doorReset
    /\ doorReset' = FALSE
    /\ doorTimer' = TRUE
    /\ UNCHANGED <<phase, fsm, output, at, sensors, doorTimeouts, floorTimer, positionCH,
                   producer, node, bounds>>

\* It may fire with a reset already on its way.
\* Bound: the loop takes a timeout before TimeoutCap more periods of 3 s end.
DoorTimerFires ==
    /\ doorTimer
    /\ doorTimeouts < TimeoutCap
    /\ doorTimer' = FALSE
    /\ doorTimeouts' = doorTimeouts + 1
    /\ UNCHANGED <<phase, fsm, output, at, sensors, doorReset, floorTimer, positionCH,
                   producer, node, bounds>>

FloorTimerFires ==
    /\ floorTimer = "armed"
    /\ floorTimer' = "expired"
    /\ UNCHANGED <<phase, fsm, output, at, sensors, door, positionCH, producer, node, bounds>>

Timers == DoorTimerReset \/ DoorTimerFires \/ FloorTimerFires

-----------------------------------------------------------------------------
(* produceNextElevatorDestination and provideLatestDestination: a new      *)
(* position or a new assignment gives a new destination, once there has    *)
(* been one of each.                                                       *)

Produce(m, assigned) ==
    /\ movement' = m /\ orders' = assigned
    /\ latestDestination' = IF m = None \/ assigned = None
                            THEN latestDestination ELSE NextDestination(m, assigned)
    /\ UNCHANGED <<phase, fsm, output, at, sensors, door, floorTimer, calls, clearCH, bounds>>

ProducerPosition ==
    /\ positionCH # <<>>
    /\ positionCH' = Tail(positionCH)
    /\ Produce(Head(positionCH), orders)
    /\ UNCHANGED costCH

ProducerOrders ==
    /\ costCH # None
    /\ costCH' = None
    /\ Produce(movement, costCH)
    /\ UNCHANGED positionCH

Producer == ProducerPosition \/ ProducerOrders

-----------------------------------------------------------------------------
(* The car, its passengers and the pollers.  The handler is assumed to     *)
(* take an arrival before the car has left that floor again: it looks      *)
(* every 200 ms.                                                           *)

CarMoves ==
    /\ motor # "stop"
    /\ floorsCH = <<>>
    /\ at' = IF motor = "up" THEN at + 1 ELSE at - 1
    /\ floorsCH' = IF at' % 2 = 0 THEN <<at' \div 2>> ELSE <<>>
    /\ UNCHANGED <<phase, fsm, output, obstruction, stopButton, obstructionCH, stopCH,
                   buttonsCH, door, floorTimer, positionCH, producer, node, bounds>>

PressButton(b) ==
    /\ presses < MaxPresses /\ Len(buttonsCH) < EventCap
    /\ presses' = presses + 1
    /\ buttonsCH' = Append(buttonsCH, b)
    /\ UNCHANGED <<phase, fsm, output, at, obstruction, stopButton, floorsCH, obstructionCH,
                   stopCH, door, floorTimer, positionCH, producer, node, switches>>

Obstruct(b) ==
    /\ obstruction # b /\ Len(obstructionCH) < EventCap
    /\ b => switches < MaxSwitches
    /\ switches' = IF b THEN switches + 1 ELSE switches
    /\ obstruction' = b
    /\ obstructionCH' = Append(obstructionCH, b)
    /\ UNCHANGED <<phase, fsm, output, at, stopButton, floorsCH, stopCH, buttonsCH, door,
                   floorTimer, positionCH, producer, node, presses>>

HoldStop(b) ==
    /\ stopButton # b /\ Len(stopCH) < EventCap
    /\ b => switches < MaxSwitches
    /\ switches' = IF b THEN switches + 1 ELSE switches
    /\ stopButton' = b
    /\ stopCH' = Append(stopCH, b)
    /\ UNCHANGED <<phase, fsm, output, at, obstruction, floorsCH, obstructionCH, buttonsCH,
                   door, floorTimer, positionCH, producer, node, presses>>

Passengers ==
    \/ \E b \in Button : PressButton(b)
    \/ \E b \in BOOLEAN : Obstruct(b) \/ HoldStop(b)

-----------------------------------------------------------------------------
(* The rest of the node, left open: the OrderManager clears the hall call  *)
(* and the cab call a completion names; the OrderAssigner assigns the hall *)
(* calls, or some of them, and every cab call in both directions.          *)

Complete ==
    /\ clearCH # <<>>
    /\ clearCH' = Tail(clearCH)
    /\ calls' = calls \ {Head(clearCH), <<Head(clearCH)[1], "cab">>}
    /\ UNCHANGED <<phase, fsm, output, at, sensors, door, floorTimer, positionCH, producer,
                   costCH, bounds>>

HallCalls == calls \cap Cell

Assigned(hall) ==
    (hall \cup {c \in Cell : <<c[1], "cab">> \in calls})
        \ {<<0, "down">>, <<Top, "up">>}

Assign ==
    /\ costCH = None
    /\ \E hall \in SUBSET HallCalls :
          /\ HallCalls \ Elsewhere \subseteq hall
          /\ costCH' = Assigned(hall)
    /\ UNCHANGED <<phase, fsm, output, at, sensors, door, floorTimer, positionCH, producer,
                   calls, clearCH, bounds>>

\* Another elevator has served a hall call.
ServedElsewhere ==
    /\ \E c \in HallCalls \cap Elsewhere : calls' = calls \ {c}
    /\ UNCHANGED <<phase, fsm, output, at, sensors, door, floorTimer, positionCH, producer,
                   clearCH, costCH, bounds>>

RestOfNode == Complete \/ Assign \/ ServedElsewhere

-----------------------------------------------------------------------------

Next == StateMachine \/ Timers \/ Producer \/ CarMoves \/ Passengers \/ RestOfNode

\* Every goroutine runs on, the car moves while the motor runs, an armed timer
\* fires, the OrderAssigner is run again at least every 10 s and gives the orders to
\* an elevator in order (it gives none while the own node is reported as malfunctioned,
\* orderAssigner.go, line 124), and what holds the door or the elevator is taken away
\* in the end.
Fairness ==
    /\ WF_vars(StateMachine)
    /\ WF_vars(DoorTimerReset) /\ WF_vars(DoorTimerFires)
    /\ WF_vars(ProducerPosition) /\ WF_vars(ProducerOrders)
    /\ WF_vars(CarMoves)
    /\ WF_vars(Complete) /\ WF_vars(Assign)
    /\ WF_vars(Obstruct(FALSE)) /\ WF_vars(HoldStop(FALSE))

Spec == Init /\ [][Next]_vars
LiveSpec == Spec /\ Fairness

-----------------------------------------------------------------------------
(* Properties. *)

\* The door is open only while the car stands at a floor with the motor off: the
\* state machine's idea of the floor and the car agree whenever it opens the door
\* (handleMoving, handleIdle, handleDoorOpen).
DoorSafe == doorLamp => motor = "stop" /\ at = 2 * elev.floor

\* With its arrivals handled, the car is never driven on from the lowest or the
\* highest floor, whatever destination, old or new, the handlers act on.
NoOverrun ==
    floorsCH = <<>> =>
        /\ motor = "up" => at < 2 * Top
        /\ motor = "down" => at > 0

\* An open door that nothing holds is going to close: the timer runs, is about
\* to, or has its timeout waiting.  A timeout taken while the door was held is
\* made up for by the reset on release (handleDoorOpen lines 33-44).
DoorNotStuck ==
    elev.state = "DoorOpen" /\ ~Held => doorReset \/ doorTimer \/ doorTimeouts # 0

\* No way into or out of Moving forgets the floor timer: the handlers have set it
\* exactly while the state machine counts the elevator as moving.  What becomes of
\* an alarm already under way is another matter: one that runs out between the two
\* sends of StopFloorTimer (timers.go, line 115) stays with an elevator at rest, a
\* step that Malfunction has.
MovingIsWatched == elev.state = "Moving" <=> floorTimer # "off"

\* Every call is served in the end (README.md of StateMachine), whatever the other
\* elevators are given and take back meanwhile; what they may serve is up to them.
CallServed == \A b \in Button \ Elsewhere : b \in calls ~> b \notin calls

\* While the stop button is held, and the state machine knows it, "the elevator
\* stops and does nothing" (StateMachine/README.md, lines 25-26).
StopHeldStandsStill ==
    [][isStopped /\ isStopped' => motor' \in {motor, "stop"} /\ doorLamp' = doorLamp]_vars
=============================================================================
