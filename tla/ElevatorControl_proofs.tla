----------------------- MODULE ElevatorControl_proofs ------------------------
(***************************************************************************)
(* For every number of floors, every set of buttons and every bound: door, *)
(* motor, car and timers agree (the invariants of OneElevator), and only   *)
(* what was assigned is completed, at its floor with the door open.        *)
(***************************************************************************)
EXTENDS ElevatorControl, Destination_proofs

-----------------------------------------------------------------------------
(* The inductive invariant.                                                *)

\* At rest the car is where the state machine takes it to be.
AtFloor ==
    elev.state # "Moving" =>
        /\ motor = "stop"
        /\ elev.floor \in Floor
        /\ at = 2 * elev.floor
        /\ floorsCH = <<>>

\* On its way it has left the floor last seen by one half at most, and there is
\* a floor to come; from between two floors it goes down.
OnTheWay ==
    LET f == elev.floor
    IN  /\ f = BetweenFloors => elev.dir = "down" /\ \E g \in Floor : at = 2 * g + 1 /\ g < Top
        /\ f \in Floor => \/ elev.dir = "up" /\ f < Top /\ at - 2 * f \in 0 .. 1
                          \/ elev.dir = "down" /\ f > 0 /\ 2 * f - at \in 0 .. 1

\* Moving, it is on its way or has arrived, and the motor does what was wanted or
\* nothing.
UnderWay ==
    elev.state = "Moving" =>
        /\ elev.dir \in Dir
        /\ motor \in {elev.dir, "stop"}
        /\ \/ floorsCH = <<>> /\ OnTheWay
           \/ \E g \in Floor : floorsCH = <<g>> /\ at = 2 * g

LampIsDoor == doorLamp <=> elev.state = "DoorOpen"

ControlInv ==
    /\ TypeOK
    /\ AtFloor
    /\ UnderWay
    /\ LampIsDoor
    /\ DoorNotStuck
    /\ MovingIsWatched

-----------------------------------------------------------------------------
(* What the steps have in common.                                          *)

\* The fields of an elevator put together by Elev.
LEMMA ElevFields ==
    \A f, d, s : /\ Elev(f, d, s).floor = f
                 /\ Elev(f, d, s).dir = d
                 /\ Elev(f, d, s).state = s
BY DEF Elev

\* A channel keeps the type of its messages.
LEMMA QueueFacts ==
    ASSUME NEW S, NEW q \in Seq(S)
    PROVE  /\ \A x \in S : Append(q, x) \in Seq(S)
           /\ q # <<>> => Head(q) \in S /\ Tail(q) \in Seq(S) /\ Len(q) \in Nat \ {0}
OBVIOUS

\* Starting the door's time again keeps the types of its variables.
LEMMA ResetDoorTimerType ==
    ASSUME TypeOK, ResetDoorTimer
    PROVE  doorReset' \in BOOLEAN /\ doorTimer' \in BOOLEAN /\ doorTimeouts' \in Nat
BY DEF TypeOK, ResetDoorTimer

\* From one floor to another there is a direction, and a floor to come.
LEMMA DirectionLeads ==
    ASSUME NEW f \in Floor, NEW g \in Floor, f # g
    PROVE  LET d == GetElevatorDirection(f, g)
           IN  (d = "up" /\ f < Top) \/ (d = "down" /\ f > 0)
<1>1. f \in 0 .. NumFloors - 1 /\ g \in 0 .. NumFloors - 1 /\ NumFloors \in Nat
  BY TwoFloors DEF Floor
<1> QED BY <1>1 DEF GetElevatorDirection, Top

\* A step that touches neither the elevator, its car, its flags nor its timers
\* has only the types to keep.
LEMMA NothingMoves ==
    ASSUME ControlInv, TypeOK',
           UNCHANGED <<elev, output, at, floorsCH, isObstructed, isStopped, door, floorTimer>>
    PROVE  ControlInv'
BY DEF ControlInv, AtFloor, UnderWay, OnTheWay, LampIsDoor, DoorNotStuck, MovingIsWatched,
       Held, output, door

-----------------------------------------------------------------------------
(* The state machine.                                                      *)

\* Reading the latest destination moves nothing.
LEMMA FetchKeeps == ControlInv /\ Fetch => ControlInv'
<1> SUFFICES ASSUME ControlInv, Fetch PROVE ControlInv'
  OBVIOUS
<1>1. TypeOK'
  BY DEF ControlInv, TypeOK, Fetch, output, sensors, door, producer, node, bounds
<1> QED BY <1>1, NothingMoves DEF Fetch, sensors

\* Nor does an iteration with nothing to do.
LEMMA QuietTickKeeps == ControlInv /\ QuietTick => ControlInv'
<1> SUFFICES ASSUME ControlInv, QuietTick PROVE ControlInv'
  OBVIOUS
<1>1. TypeOK'
  BY DEF ControlInv, TypeOK, QuietTick, Handle, output, door, producer, bounds
<1> QED BY <1>1, NothingMoves DEF QuietTick, Handle

\* A press at the open door only starts its time again.
LEMMA TakeButtonKeeps == ControlInv /\ TakeButton => ControlInv'
<1> SUFFICES ASSUME ControlInv, TakeButton PROVE ControlInv'
  OBVIOUS
<1>1. TypeOK'
  <2>1. buttonsCH' \in Seq(Button) /\ calls' \subseteq Button
    <3>1. TypeOK /\ buttonsCH # <<>> /\ buttonsCH' = Tail(buttonsCH)
          /\ (calls' = calls \/ calls' = calls \cup {Head(buttonsCH)})
      BY DEF ControlInv, TakeButton
    <3> QED BY <3>1, QueueFacts DEF TypeOK
  <2>2. doorReset' \in BOOLEAN /\ doorTimer' \in BOOLEAN /\ doorTimeouts' \in Nat
    BY ResetDoorTimerType DEF ControlInv, TypeOK, TakeButton, door
  <2> QED BY <2>1, <2>2 DEF ControlInv, TypeOK, TakeButton, Handle, output, producer, bounds
<1>2. UNCHANGED <<elev, motor, doorLamp, at, floorsCH, isObstructed, isStopped, floorTimer>>
  BY DEF TakeButton, Handle, output
<1>3. DoorNotStuck'
  BY <1>2 DEF ControlInv, TakeButton, ResetDoorTimer, DoorNotStuck, Held, door
<1> QED BY <1>1, <1>2, <1>3 DEF ControlInv, AtFloor, UnderWay, OnTheWay, LampIsDoor,
                                MovingIsWatched

\* Whatever the switches say, a moving elevator is driven its way or not at all;
\* and when the last one is released the door's time starts again.
LEMMA SwitchTakenKeeps ==
    ASSUME ControlInv, NEW s \in BOOLEAN,
           \/ SwitchTaken(s, isStopped, ~s)
           \/ SwitchTaken(isObstructed, s, ~s),
           UNCHANGED at, TypeOK'
    PROVE  ControlInv'
<1>1. UNCHANGED <<elev, doorLamp, at, floorsCH, floorTimer>>
  BY DEF SwitchTaken
<1>2. IF elev.state = "Moving" THEN motor' \in {elev.dir, "stop"} ELSE motor' = motor
  BY DEF SwitchTaken, StopOrResumeMoving
<1>3. AtFloor'
  BY <1>1, <1>2 DEF ControlInv, AtFloor
<1>4. UnderWay'
  BY <1>1, <1>2 DEF ControlInv, UnderWay, OnTheWay
<1>5. DoorNotStuck'
  <2> SUFFICES ASSUME elev.state = "DoorOpen", ~Held' PROVE doorReset' \/ doorTimer' \/ doorTimeouts' # 0
    BY <1>1 DEF DoorNotStuck
  <2>1. CASE s
    BY <2>1 DEF SwitchTaken, Held
  <2>2. CASE ~s
    BY <2>2 DEF SwitchTaken, ResetDoorTimer
  <2> QED BY <2>1, <2>2
<1> QED BY <1>1, <1>3, <1>4, <1>5 DEF ControlInv, LampIsDoor, MovingIsWatched

\* The obstruction switch and the stop button.
LEMMA TakeSwitchKeeps == ControlInv /\ (TakeObstruction \/ TakeStop) => ControlInv'
<1>1. ASSUME TypeOK, NEW s \in BOOLEAN,
             SwitchTaken(s, isStopped, ~s) \/ SwitchTaken(isObstructed, s, ~s)
      PROVE  /\ motor' \in MotorDir
             /\ isObstructed' \in BOOLEAN /\ isStopped' \in BOOLEAN
             /\ doorReset' \in BOOLEAN /\ doorTimer' \in BOOLEAN
             /\ doorTimeouts' \in Nat
  <2>1. motor' \in MotorDir
    BY <1>1 DEF TypeOK, SwitchTaken, StopOrResumeMoving, Elevator, MotorDir
  <2>2. isObstructed' \in BOOLEAN /\ isStopped' \in BOOLEAN
    BY <1>1 DEF TypeOK, SwitchTaken
  <2>3. doorReset' \in BOOLEAN /\ doorTimer' \in BOOLEAN /\ doorTimeouts' \in Nat
    BY <1>1, ResetDoorTimerType DEF TypeOK, SwitchTaken, door
  <2> QED BY <2>1, <2>2, <2>3
<1>2. ASSUME ControlInv, TakeObstruction PROVE ControlInv'
  <2>1. Head(obstructionCH) \in BOOLEAN /\ Tail(obstructionCH) \in Seq(BOOLEAN)
    BY <1>2, QueueFacts DEF ControlInv, TypeOK, TakeObstruction
  <2>2. TypeOK'
    BY <1>1, <1>2, <2>1 DEF ControlInv, TypeOK, TakeObstruction, Handle, SwitchTaken, producer,
                            bounds
  <2> QED BY <1>2, <2>1, <2>2, SwitchTakenKeeps DEF TakeObstruction, Handle
<1>3. ASSUME ControlInv, TakeStop PROVE ControlInv'
  <2>1. Head(stopCH) \in BOOLEAN /\ Tail(stopCH) \in Seq(BOOLEAN)
    BY <1>3, QueueFacts DEF ControlInv, TypeOK, TakeStop
  <2>2. TypeOK'
    BY <1>1, <1>3, <2>1 DEF ControlInv, TypeOK, TakeStop, Handle, SwitchTaken, producer, bounds
  <2> QED BY <1>3, <2>1, <2>2, SwitchTakenKeeps DEF TakeStop, Handle
<1> QED BY <1>2, <1>3

-----------------------------------------------------------------------------
(* The handlers that open and close the door and drive the car.            *)

\* The types of what such a handler may change.
HandledTypeOK ==
    /\ elev \in Elevator
    /\ motor \in MotorDir /\ doorLamp \in BOOLEAN
    /\ floorsCH \in Seq(Floor)
    /\ doorReset \in BOOLEAN /\ doorTimer \in BOOLEAN /\ doorTimeouts \in Nat
    /\ floorTimer \in {"off", "armed", "expired"}
    /\ positionCH \in Seq(OrderMessage)
    /\ clearCH \in Seq(Cell)

\* With those types kept, all are.
LEMMA HandledIsEnough ==
    ASSUME TypeOK, NEW s, Handle(s), HandledTypeOK',
           UNCHANGED <<isObstructed, isStopped, obstructionCH, stopCH, buttonsCH, calls>>
    PROVE  TypeOK'
BY DEF TypeOK, HandledTypeOK, Handle, producer, bounds

\* A position reported is one of the building.
LEMMA LocationType ==
    ASSUME TypeOK, elev'.floor \in Floor, elev'.dir \in MotorDir,
           GiveLocation(elev'.floor, elev'.dir)
    PROVE  positionCH' \in Seq(OrderMessage)
<1>1. At(elev'.floor, elev'.dir) \in OrderMessage
  BY DEF At, OrderMessage
<1> QED BY <1>1, QueueFacts DEF TypeOK, GiveLocation

\* A completion names the floor and the direction of the destination.
LEMMA CompletionType ==
    ASSUME TypeOK, ~NothingToDo, NEW f \in Floor, ClearOrder(f, currentDestination.dir)
    PROVE  clearCH' \in Seq(Cell)
<1>1. <<f, currentDestination.dir>> \in Cell
  BY DEF TypeOK, NothingToDo, OrderMessage, MotorDir, Cell
<1> QED BY <1>1, QueueFacts DEF TypeOK, ClearOrder

\* Serving a destination opens the door, with its time about to start.
LEMMA ServeFacts ==
    ASSUME TypeOK, ~NothingToDo, NEW f \in Floor, Serve(f)
    PROVE  /\ elev' \in Elevator
           /\ elev'.floor = f /\ elev'.dir \in Dir /\ elev'.state = "DoorOpen"
           /\ doorLamp' = TRUE /\ doorReset' = TRUE
           /\ doorTimer' \in BOOLEAN /\ doorTimeouts' \in Nat
           /\ clearCH' \in Seq(Cell)
<1>1. currentDestination.dir \in Dir
  BY DEF TypeOK, NothingToDo, OrderMessage, MotorDir
<1>2. elev' = Elev(f, currentDestination.dir, "DoorOpen")
  BY DEF Serve
<1>3. elev' \in Elevator
  BY <1>1, <1>2 DEF Elev, Elevator, MotorDir
<1>4. elev'.floor = f /\ elev'.dir \in Dir /\ elev'.state = "DoorOpen"
  BY <1>1, <1>2, ElevFields
<1>5. doorLamp' = TRUE /\ doorReset' = TRUE
  BY DEF Serve, ResetDoorTimer
<1>6. doorTimer' \in BOOLEAN /\ doorTimeouts' \in Nat
  BY ResetDoorTimerType DEF Serve
<1>7. clearCH' \in Seq(Cell)
  BY CompletionType DEF Serve
<1> QED BY <1>3, <1>4, <1>5, <1>6, <1>7

\* An elevator that is told to go to another floor has a floor to come.
LEMMA GoingFacts ==
    ASSUME TypeOK, NEW f \in Floor, f # currentDestination.floor,
           elev' = Elev(f, GetElevatorDirection(f, currentDestination.floor), "Moving")
    PROVE  /\ elev' \in Elevator
           /\ elev'.floor = f /\ elev'.state = "Moving" /\ elev'.dir \in Dir
           /\ elev'.dir = GetElevatorDirection(f, currentDestination.floor)
           /\ (elev'.dir = "up" /\ f < Top) \/ (elev'.dir = "down" /\ f > 0)
<1> DEFINE d == GetElevatorDirection(f, currentDestination.floor)
<1>1. currentDestination.floor \in Floor
  BY DEF TypeOK, OrderMessage
<1>2. (d = "up" /\ f < Top) \/ (d = "down" /\ f > 0)
  BY <1>1, DirectionLeads
<1> HIDE DEF d
<1>3. elev' = Elev(f, d, "Moving")
  BY DEF d
<1>4. elev' \in Elevator
  BY <1>2, <1>3 DEF Elev, Elevator, MotorDir, Dir
<1>5. elev'.floor = f /\ elev'.dir = d /\ elev'.state = "Moving"
  BY <1>3, ElevFields
<1> QED BY <1>2, <1>4, <1>5 DEF d, Dir

\* Standing at floor f with its door open, or idle.
LEMMA StandsWell ==
    ASSUME TypeOK', elev'.floor \in Floor,
           elev'.state \in {"DoorOpen", "Idle"},
           motor' = "stop", at' = 2 * elev'.floor, floorsCH' = <<>>,
           doorLamp' = (elev'.state = "DoorOpen"),
           elev'.state = "DoorOpen" => doorReset' = TRUE,
           floorTimer' = "off"
    PROVE  ControlInv'
BY DEF ControlInv, AtFloor, UnderWay, LampIsDoor, DoorNotStuck, MovingIsWatched

\* Leaving floor f.
LEMMA LeavesWell ==
    ASSUME TypeOK', elev'.floor \in Floor, elev'.state = "Moving", elev'.dir \in Dir,
           motor' \in {elev'.dir, "stop"}, at' = 2 * elev'.floor, floorsCH' = <<>>,
           (elev'.dir = "up" /\ elev'.floor < Top) \/ (elev'.dir = "down" /\ elev'.floor > 0),
           doorLamp' = FALSE,
           floorTimer' = "armed"
    PROVE  ControlInv'
<1>1. elev'.floor \in Nat /\ elev'.floor # BetweenFloors
  BY ControlAssumption DEF Floor
<1>2. OnTheWay'
  BY <1>1 DEF OnTheWay
<1>3. UnderWay'
  BY <1>2 DEF UnderWay
<1> QED BY <1>3 DEF ControlInv, AtFloor, LampIsDoor, DoorNotStuck, MovingIsWatched

\* A floor event is handled on that floor.
LEMMA ArrivedAt ==
    ASSUME ControlInv, MovingFloor
    PROVE  \E f \in Floor :
              /\ Head(floorsCH) = f /\ at = 2 * f /\ at' = at
              /\ floorsCH' = <<>>
              /\ elev.dir \in Dir /\ motor \in {elev.dir, "stop"} /\ doorLamp = FALSE
<1>1. elev.state = "Moving" /\ floorsCH # <<>> /\ floorsCH' = Tail(floorsCH) /\ at' = at
  BY DEF MovingFloor, Handle
<1>2. PICK f \in Floor : floorsCH = <<f>> /\ at = 2 * f
  BY <1>1 DEF ControlInv, UnderWay
<1>3. doorLamp = FALSE
  BY <1>1 DEF ControlInv, LampIsDoor, TypeOK
<1>4. elev.dir \in Dir /\ motor \in {elev.dir, "stop"}
  BY <1>1 DEF ControlInv, UnderWay
<1>5. Head(floorsCH) = f /\ Tail(floorsCH) = <<>>
  BY <1>2
<1> QED BY <1>1, <1>2, <1>3, <1>4, <1>5

\* handleMoving at a floor: rest, stop or pass by.
LEMMA MovingFloorKeeps == ControlInv /\ MovingFloor => ControlInv'
<1> SUFFICES ASSUME ControlInv, MovingFloor PROVE ControlInv'
  OBVIOUS
<1>1. PICK f \in Floor :
         /\ Head(floorsCH) = f /\ at = 2 * f /\ at' = at
         /\ floorsCH' = <<>>
         /\ elev.dir \in Dir /\ motor \in {elev.dir, "stop"} /\ doorLamp = FALSE
  BY ArrivedAt
<1>2. Rest(f) \/ Stop(f) \/ PassBy(f)
  BY <1>1 DEF MovingFloor
<1>3. /\ Handle("Moving") /\ GiveLocation(elev'.floor, elev'.dir)
      /\ UNCHANGED <<isObstructed, isStopped, obstructionCH, stopCH, buttonsCH, calls>>
      /\ TypeOK
  BY DEF MovingFloor, ControlInv
<1>4. floorsCH' \in Seq(Floor)
  BY <1>1
<1>5. CASE Rest(f)
  <2>1. /\ elev'.floor = f /\ elev'.dir = "stop" /\ elev'.state = "Idle"
        /\ motor' = "stop" /\ floorTimer' = "off" /\ doorLamp' = FALSE
        /\ UNCHANGED <<door, clearCH>>
    BY <1>1, <1>5, ElevFields DEF Rest
  <2>2. elev' \in Elevator
    BY <1>5 DEF Rest, Elev, Elevator, MotorDir
  <2>3. positionCH' \in Seq(OrderMessage)
    BY <1>3, <2>1, LocationType DEF MotorDir
  <2>4. HandledTypeOK'
    BY <1>3, <1>4, <2>1, <2>2, <2>3 DEF HandledTypeOK, TypeOK, MotorDir, door
  <2>5. TypeOK'
    BY <1>3, <2>4, HandledIsEnough
  <2> QED BY <1>1, <2>1, <2>5, StandsWell
<1>6. CASE Stop(f)
  <2>1. /\ elev' \in Elevator
        /\ elev'.floor = f /\ elev'.dir \in Dir /\ elev'.state = "DoorOpen"
        /\ doorLamp' = TRUE /\ doorReset' = TRUE
        /\ doorTimer' \in BOOLEAN /\ doorTimeouts' \in Nat
        /\ clearCH' \in Seq(Cell)
    BY <1>3, <1>6, ServeFacts DEF Stop
  <2>2. motor' = "stop" /\ floorTimer' = "off"
    BY <1>6 DEF Stop
  <2>3. positionCH' \in Seq(OrderMessage)
    BY <1>3, <2>1, LocationType DEF MotorDir
  <2>4. HandledTypeOK'
    BY <1>4, <2>1, <2>2, <2>3 DEF HandledTypeOK, MotorDir
  <2>5. TypeOK'
    BY <1>3, <2>4, HandledIsEnough
  <2> QED BY <1>1, <2>1, <2>2, <2>5, StandsWell
<1>7. CASE PassBy(f)
  <2>1. /\ elev' \in Elevator
        /\ elev'.floor = f /\ elev'.state = "Moving" /\ elev'.dir \in Dir
        /\ elev'.dir = GetElevatorDirection(f, currentDestination.floor)
        /\ (elev'.dir = "up" /\ f < Top) \/ (elev'.dir = "down" /\ f > 0)
    BY <1>3, <1>7, GoingFacts DEF PassBy
  <2>2. motor' \in {elev'.dir, "stop"}
    <3>1. motor' = IF elev'.dir = elev.dir THEN motor ELSE elev'.dir
      BY <1>7, <2>1 DEF PassBy
    <3> QED BY <1>1, <3>1
  <2>3. /\ floorTimer' = "armed" /\ doorLamp' = FALSE
        /\ UNCHANGED <<door, clearCH>>
    BY <1>1, <1>7 DEF PassBy
  <2>4. positionCH' \in Seq(OrderMessage)
    BY <1>3, <2>1, LocationType DEF MotorDir
  <2>5. HandledTypeOK'
    BY <1>3, <1>4, <2>1, <2>2, <2>3, <2>4 DEF HandledTypeOK, TypeOK, MotorDir, door
  <2>6. TypeOK'
    BY <1>3, <2>5, HandledIsEnough
  <2> QED BY <1>1, <2>1, <2>2, <2>3, <2>6, LeavesWell
<1> QED BY <1>2, <1>5, <1>6, <1>7

\* What an elevator that stands at a floor is like.
LEMMA StandingFacts ==
    ASSUME ControlInv, elev.state \in {"DoorOpen", "Idle"}
    PROVE  /\ motor = "stop" /\ elev.floor \in Floor /\ at = 2 * elev.floor
           /\ floorsCH = <<>> /\ floorTimer = "off"
           /\ doorLamp = (elev.state = "DoorOpen")
<1>1. floorTimer = "off"
  BY DEF ControlInv, MovingIsWatched
<1>2. doorLamp = (elev.state = "DoorOpen")
  BY DEF ControlInv, LampIsDoor, TypeOK
<1> QED BY <1>1, <1>2 DEF ControlInv, AtFloor

\* Leaving the floor it stands at.
LEMMA DepartKeeps ==
    ASSUME ControlInv, elev.state \in {"DoorOpen", "Idle"},
           elev.floor # currentDestination.floor, Depart,
           Handle(elev.state), GiveLocation(elev'.floor, elev'.dir),
           doorLamp' = FALSE, floorsCH' = floorsCH,
           doorReset' \in BOOLEAN, doorTimer' \in BOOLEAN, doorTimeouts' \in Nat,
           UNCHANGED <<clearCH, isObstructed, isStopped, obstructionCH, stopCH, buttonsCH, calls>>
    PROVE  ControlInv'
<1>1. /\ motor = "stop" /\ elev.floor \in Floor /\ at = 2 * elev.floor
      /\ floorsCH = <<>> /\ TypeOK
  BY StandingFacts DEF ControlInv
<1>2. /\ elev' \in Elevator
      /\ elev'.floor = elev.floor /\ elev'.state = "Moving" /\ elev'.dir \in Dir
      /\ elev'.dir = GetElevatorDirection(elev.floor, currentDestination.floor)
      /\ (elev'.dir = "up" /\ elev.floor < Top) \/ (elev'.dir = "down" /\ elev.floor > 0)
  BY <1>1, GoingFacts DEF Depart
<1>3. motor' = elev'.dir /\ floorTimer' = "armed"
  BY <1>2 DEF Depart
<1>4. positionCH' \in Seq(OrderMessage)
  BY <1>1, <1>2, LocationType DEF MotorDir
<1>5. HandledTypeOK'
  BY <1>1, <1>2, <1>3, <1>4 DEF HandledTypeOK, TypeOK, MotorDir
<1>6. TypeOK'
  BY <1>1, <1>5, HandledIsEnough
<1>7. at' = at
  BY DEF Handle
<1> QED BY <1>1, <1>2, <1>3, <1>6, <1>7, LeavesWell

\* Only timeouts of an open door that something holds are taken for nothing.
LEMMA DoorTimeoutKeeps == ControlInv /\ DoorTimeout => ControlInv'
<1> SUFFICES ASSUME ControlInv, DoorTimeout PROVE ControlInv'
  OBVIOUS
<1>1. /\ elev.state = "DoorOpen" /\ Handle("DoorOpen") /\ Handle(elev.state) /\ at' = at
      /\ doorTimeouts # 0 /\ TypeOK
      /\ UNCHANGED <<isObstructed, isStopped, floorsCH, obstructionCH, stopCH, buttonsCH, calls>>
  BY DEF DoorTimeout, Handle, ControlInv
<1>2. /\ motor = "stop" /\ elev.floor \in Floor /\ at = 2 * elev.floor
      /\ floorsCH = <<>> /\ floorTimer = "off" /\ doorLamp = TRUE
  BY <1>1, StandingFacts
<1>3. doorTimeouts - 1 \in Nat
  BY <1>1 DEF TypeOK
<1>4. CASE DoorTimeoutHeld
  <2>1. HandledTypeOK'
    BY <1>1, <1>3, <1>4 DEF DoorTimeoutHeld, HandledTypeOK, TypeOK, output
  <2>2. TypeOK'
    BY <1>1, <2>1, HandledIsEnough
  <2>3. DoorNotStuck'
    BY <1>1, <1>4 DEF DoorTimeoutHeld, DoorNotStuck, Held
  <2> QED BY <1>1, <1>4, <2>2, <2>3 DEF ControlInv, AtFloor, UnderWay, OnTheWay, LampIsDoor,
                                       MovingIsWatched, DoorTimeoutHeld, output
<1>5. CASE CloseDoor /\ NothingToDo
  <2>1. /\ elev' = Elev(elev.floor, "stop", "Idle")
        /\ GiveLocation(elev'.floor, elev'.dir)
        /\ doorLamp' = FALSE /\ doorTimeouts' = doorTimeouts - 1
        /\ UNCHANGED <<motor, doorReset, doorTimer, floorTimer, clearCH>>
    BY <1>5 DEF CloseDoor
  <2>2. elev'.floor = elev.floor /\ elev'.dir = "stop" /\ elev'.state = "Idle"
    BY <2>1, ElevFields
  <2>3. elev' \in Elevator
    BY <1>2, <2>1 DEF Elev, Elevator, MotorDir
  <2>4. positionCH' \in Seq(OrderMessage)
    BY <1>1, <1>2, <2>1, <2>2, LocationType DEF MotorDir
  <2>5. HandledTypeOK'
    BY <1>1, <1>3, <2>1, <2>3, <2>4 DEF HandledTypeOK, TypeOK
  <2>6. TypeOK'
    BY <1>1, <2>5, HandledIsEnough
  <2> QED BY <1>1, <1>2, <2>1, <2>2, <2>6, StandsWell
<1>6. CASE CloseDoor /\ ~NothingToDo /\ elev.floor = currentDestination.floor
  <2>1. /\ elev' = Elev(elev.floor, currentDestination.dir, "DoorOpen")
        /\ GiveLocation(elev'.floor, elev'.dir)
        /\ ClearOrder(elev.floor, currentDestination.dir)
        /\ doorReset' = TRUE /\ doorTimeouts' = doorTimeouts - 1
        /\ UNCHANGED <<motor, doorLamp, doorTimer, floorTimer>>
    BY <1>6 DEF CloseDoor, output
  <2>2. /\ elev'.floor = elev.floor /\ elev'.dir = currentDestination.dir
        /\ elev'.state = "DoorOpen"
    BY <2>1, ElevFields
  <2>3. currentDestination.dir \in MotorDir
    BY <1>1 DEF TypeOK, OrderMessage
  <2>4. elev' \in Elevator
    BY <1>2, <2>1, <2>3 DEF Elev, Elevator
  <2>5. positionCH' \in Seq(OrderMessage)
    BY <1>1, <1>2, <2>1, <2>2, <2>3, LocationType
  <2>6. clearCH' \in Seq(Cell)
    BY <1>1, <1>2, <1>6, <2>1, CompletionType
  <2>7. doorTimeouts' \in Nat
    BY <1>3, <2>1
  <2>8. HandledTypeOK'
    BY <1>1, <2>1, <2>4, <2>5, <2>6, <2>7 DEF HandledTypeOK, TypeOK
  <2>9. TypeOK'
    BY <1>1, <2>8, HandledIsEnough
  <2> QED BY <1>1, <1>2, <2>1, <2>2, <2>9, StandsWell
<1>7. CASE CloseDoor /\ ~NothingToDo /\ elev.floor # currentDestination.floor
  <2>1. /\ Depart /\ GiveLocation(elev'.floor, elev'.dir) /\ doorLamp' = FALSE
        /\ doorTimeouts' = doorTimeouts - 1
        /\ UNCHANGED <<doorReset, doorTimer, clearCH>>
    BY <1>7 DEF CloseDoor
  <2>2. doorReset' \in BOOLEAN /\ doorTimer' \in BOOLEAN /\ doorTimeouts' \in Nat
    BY <1>1, <1>3, <2>1 DEF TypeOK
  <2> QED BY <1>1, <1>7, <2>1, <2>2, DepartKeeps
<1> QED BY <1>4, <1>5, <1>6, <1>7 DEF DoorTimeout

\* handleIdle: stay, open the door or leave.
LEMMA IdleTickKeeps == ControlInv /\ IdleTick => ControlInv'
<1> SUFFICES ASSUME ControlInv, IdleTick PROVE ControlInv'
  OBVIOUS
<1>1. /\ elev.state = "Idle" /\ Handle("Idle") /\ Handle(elev.state) /\ at' = at /\ TypeOK
      /\ UNCHANGED <<isObstructed, isStopped, floorsCH, obstructionCH, stopCH, buttonsCH, calls>>
  BY DEF IdleTick, Handle, ControlInv
<1>2. /\ motor = "stop" /\ elev.floor \in Floor /\ at = 2 * elev.floor
      /\ floorsCH = <<>> /\ floorTimer = "off" /\ doorLamp = FALSE
  BY <1>1, StandingFacts
<1>3. CASE UNCHANGED <<elev, output, door, floorTimer, clearCH>> /\
           (UNCHANGED positionCH \/ GiveLocation(elev'.floor, elev'.dir))
  <2>1. elev'.floor \in Floor /\ elev'.dir \in MotorDir
    BY <1>1, <1>2, <1>3 DEF TypeOK, Elevator
  <2>2. positionCH' \in Seq(OrderMessage)
    BY <1>1, <1>3, <2>1, LocationType DEF TypeOK
  <2>3. HandledTypeOK'
    BY <1>1, <1>3, <2>2 DEF HandledTypeOK, TypeOK, output, door
  <2>4. TypeOK'
    BY <1>1, <2>3, HandledIsEnough
  <2> QED BY <1>1, <1>3, <2>4, NothingMoves
<1>4. CASE /\ ~NothingToDo /\ Serve(elev.floor) /\ GiveLocation(elev'.floor, elev'.dir)
           /\ UNCHANGED <<motor, floorTimer>>
  <2>1. /\ elev' \in Elevator
        /\ elev'.floor = elev.floor /\ elev'.dir \in Dir /\ elev'.state = "DoorOpen"
        /\ doorLamp' = TRUE /\ doorReset' = TRUE
        /\ doorTimer' \in BOOLEAN /\ doorTimeouts' \in Nat
        /\ clearCH' \in Seq(Cell)
    BY <1>1, <1>2, <1>4, ServeFacts
  <2>2. positionCH' \in Seq(OrderMessage)
    BY <1>1, <1>2, <1>4, <2>1, LocationType DEF MotorDir
  <2>3. HandledTypeOK'
    BY <1>1, <1>4, <2>1, <2>2 DEF HandledTypeOK, TypeOK
  <2>4. TypeOK'
    BY <1>1, <2>3, HandledIsEnough
  <2> QED BY <1>1, <1>2, <1>4, <2>1, <2>4, StandsWell
<1>5. CASE /\ elev.floor # currentDestination.floor /\ Depart
           /\ GiveLocation(elev'.floor, elev'.dir) /\ UNCHANGED <<doorLamp, door, clearCH>>
  <2>1. /\ doorLamp' = FALSE /\ doorReset' \in BOOLEAN /\ doorTimer' \in BOOLEAN
        /\ doorTimeouts' \in Nat
    BY <1>1, <1>2, <1>5 DEF TypeOK, door
  <2> QED BY <1>1, <1>5, <2>1, DepartKeeps
<1> QED BY <1>3, <1>4, <1>5 DEF IdleTick

-----------------------------------------------------------------------------
(* The timers, the producer, the car and what is outside.                  *)

\* The door timer and the floor timer.
LEMMA TimersKeep == ControlInv /\ Timers => ControlInv'
<1>1. ASSUME ControlInv, DoorTimerReset PROVE ControlInv'
  <2>1. TypeOK'
    BY <1>1 DEF ControlInv, TypeOK, DoorTimerReset, fsm, output, sensors, producer, node, bounds
  <2>2. doorTimer'
    BY <1>1 DEF DoorTimerReset
  <2> QED BY <1>1, <2>1, <2>2 DEF ControlInv, AtFloor, UnderWay, OnTheWay, LampIsDoor,
              DoorNotStuck, MovingIsWatched, DoorTimerReset, fsm, output, sensors
<1>2. ASSUME ControlInv, DoorTimerFires PROVE ControlInv'
  <2>1. doorTimeouts \in Nat
    BY <1>2 DEF ControlInv, TypeOK
  <2>2. doorTimeouts' \in Nat
    BY <1>2, <2>1 DEF DoorTimerFires
  <2>3. doorTimeouts' # 0
    BY <1>2, <2>1 DEF DoorTimerFires
  <2>4. TypeOK'
    BY <1>2, <2>2 DEF ControlInv, TypeOK, DoorTimerFires, fsm, output, sensors, producer, node,
                      bounds
  <2> QED BY <1>2, <2>3, <2>4 DEF ControlInv, AtFloor, UnderWay, OnTheWay, LampIsDoor,
              DoorNotStuck, Held, MovingIsWatched, DoorTimerFires, fsm, output, sensors
<1>3. ASSUME ControlInv, FloorTimerFires PROVE ControlInv'
  BY <1>3 DEF ControlInv, TypeOK, AtFloor, UnderWay, OnTheWay, LampIsDoor, DoorNotStuck, Held,
              MovingIsWatched, FloorTimerFires, fsm, output, sensors, door, producer, node, bounds
<1> QED BY <1>1, <1>2, <1>3 DEF Timers

\* What it hears is in the building, and so is its answer.
LEMMA ProduceType ==
    ASSUME TypeOK, NEW m \in OrderMessage \cup {None}, NEW S \in Assignment,
           Produce(m, S),
           positionCH' \in Seq(OrderMessage), costCH' \in Assignment
    PROVE  TypeOK'
<1>1. latestDestination' \in OrderMessage \cup {None}
  <2>1. CASE m = None \/ S = None
    BY <2>1 DEF TypeOK, Produce
  <2>2. CASE ~ (m = None \/ S = None)
    <3>1. m \in OrderMessage
      BY <2>2
    <3>2. S \in SUBSET Cell
      BY <2>2 DEF Assignment
    <3>3. NextDestination(m, S) \in OrderMessage
      BY <3>1, <3>2, NextDestinationType
    <3> QED BY <2>2, <3>3 DEF Produce
  <2> QED BY <2>1, <2>2
<1>2. movement' = m /\ orders' = S
  BY DEF Produce
<1> QED BY <1>1, <1>2 DEF TypeOK, Produce, fsm, output, sensors, door, bounds

\* produceNextElevatorDestination only answers.
LEMMA ProducerKeeps == ControlInv /\ Producer => ControlInv'
<1>1. ASSUME ControlInv, ProducerPosition PROVE ControlInv'
  <2>1. Head(positionCH) \in OrderMessage /\ positionCH' \in Seq(OrderMessage)
    BY <1>1, QueueFacts DEF ControlInv, TypeOK, ProducerPosition
  <2>2. TypeOK'
    BY <1>1, <2>1, ProduceType DEF ControlInv, TypeOK, ProducerPosition
  <2> QED BY <1>1, <2>2, NothingMoves DEF ProducerPosition, Produce, fsm, sensors
<1>2. ASSUME ControlInv, ProducerOrders PROVE ControlInv'
  <2>1. TypeOK /\ costCH \in Assignment /\ movement \in OrderMessage \cup {None}
    BY <1>2 DEF ControlInv, TypeOK
  <2>2. positionCH' \in Seq(OrderMessage) /\ costCH' \in Assignment
    BY <1>2, <2>1 DEF TypeOK, ProducerOrders, Assignment
  <2>3. Produce(movement, costCH)
    BY <1>2 DEF ProducerOrders
  <2>4. TypeOK'
    BY <2>1, <2>2, <2>3, ProduceType
  <2> QED BY <1>2, <2>4, NothingMoves DEF ProducerOrders, Produce, fsm, sensors
<1> QED BY <1>1, <1>2 DEF Producer

\* Two halves make a floor.
LEMMA Halves ==
    ASSUME NEW g \in Nat
    PROVE  /\ (2 * g) % 2 = 0 /\ (2 * g) \div 2 = g
           /\ (2 * g + 1) % 2 = 1
OBVIOUS

\* The car leaves the floor it was at, or reaches the next one.
LEMMA CarMovesKeeps == ControlInv /\ CarMoves => ControlInv'
<1> SUFFICES ASSUME ControlInv, CarMoves PROVE ControlInv'
  OBVIOUS
<1>1. /\ motor # "stop" /\ floorsCH = <<>> /\ TypeOK
      /\ UNCHANGED <<elev, output, isObstructed, isStopped, door, floorTimer>>
  BY DEF CarMoves, ControlInv, fsm
<1>2. elev.state = "Moving"
  BY <1>1 DEF ControlInv, AtFloor
<1>3. elev.dir \in Dir /\ motor = elev.dir /\ OnTheWay
  BY <1>1, <1>2 DEF ControlInv, UnderWay
<1> DEFINE f == elev.floor
<1>4. NumFloors \in Nat /\ Top = NumFloors - 1 /\ Floor = 0 .. NumFloors - 1 /\ at \in Int
  BY <1>1, TwoFloors DEF Top, Floor, TypeOK
<1>5. /\ motor = "up" => at' = at + 1
      /\ motor = "down" => at' = at - 1
      /\ at' % 2 = 0 => floorsCH' = <<at' \div 2>>
      /\ at' % 2 # 0 => floorsCH' = <<>>
  BY DEF CarMoves
<1>6. \/ \E g \in Floor : floorsCH' = <<g>> /\ at' = 2 * g
      \/ floorsCH' = <<>> /\ OnTheWay' /\ at' \in 0 .. 2 * Top
  <2>1. ASSUME NEW g \in Floor, at' = 2 * g
        PROVE  floorsCH' = <<g>> /\ at' = 2 * g
    BY <1>4, <1>5, <2>1, Halves
  <2>2. CASE f = BetweenFloors
    <3>1. elev.dir = "down"
      BY <1>3, <2>2 DEF OnTheWay
    <3>2. PICK g \in Floor : at = 2 * g + 1 /\ g < Top
      BY <1>3, <2>2 DEF OnTheWay
    <3>3. at' = 2 * g
      BY <1>3, <1>4, <1>5, <3>1, <3>2
    <3> QED BY <2>1, <3>3
  <2>3. CASE f \in Floor /\ elev.dir = "up"
    <3>1. f < Top /\ at - 2 * f \in 0 .. 1 /\ f \in Nat /\ f + 1 \in Floor
      BY <1>3, <1>4, <2>3 DEF OnTheWay
    <3>2. CASE at = 2 * f
      <4>1. at' = 2 * f + 1
        BY <1>3, <1>5, <2>3, <3>2
      <4>2. floorsCH' = <<>>
        BY <1>5, <3>1, <4>1, Halves
      <4>3. at' - 2 * f = 1 /\ at' \in 0 .. 2 * Top
        BY <1>4, <3>1, <4>1
      <4>4. OnTheWay'
        BY <1>1, <2>3, <3>1, <4>3, ControlAssumption DEF OnTheWay
      <4> QED BY <4>2, <4>3, <4>4
    <3>3. CASE at = 2 * f + 1
      <4>1. at' = 2 * (f + 1)
        BY <1>3, <1>4, <1>5, <2>3, <3>1, <3>3
      <4> QED BY <2>1, <3>1, <4>1
    <3> QED BY <1>4, <3>1, <3>2, <3>3
  <2>4. CASE f \in Floor /\ elev.dir = "down"
    <3>1. f > 0 /\ 2 * f - at \in 0 .. 1 /\ f \in Nat /\ f - 1 \in Floor
      BY <1>3, <1>4, <2>4 DEF OnTheWay
    <3>2. CASE at = 2 * f
      <4>1. at' = 2 * (f - 1) + 1
        BY <1>3, <1>4, <1>5, <2>4, <3>1, <3>2
      <4>2. floorsCH' = <<>>
        <5>1. at' % 2 = 1
          BY <1>4, <3>1, <4>1, Halves
        <5> QED BY <1>5, <5>1
      <4>3. 2 * f - at' = 1 /\ at' \in 0 .. 2 * Top
        <5>1. f \in 1 .. Top
          BY <1>4, <3>1, <2>4
        <5> QED BY <1>4, <4>1, <5>1
      <4>4. OnTheWay'
        BY <1>1, <2>4, <3>1, <4>3, ControlAssumption DEF OnTheWay
      <4> QED BY <4>2, <4>3, <4>4
    <3>3. CASE at = 2 * f - 1
      <4>1. at' = 2 * (f - 1)
        BY <1>3, <1>4, <1>5, <2>4, <3>1, <3>3
      <4> QED BY <2>1, <3>1, <4>1
    <3> QED BY <1>4, <3>1, <3>2, <3>3
  <2>5. f \in Floor \/ f = BetweenFloors
    BY <1>1 DEF TypeOK, Elevator
  <2> QED BY <1>3, <2>2, <2>3, <2>4, <2>5 DEF Dir
<1>7. TypeOK'
  <2>1. at' \in 0 .. 2 * Top /\ floorsCH' \in Seq(Floor)
    <3>1. CASE \E g \in Floor : floorsCH' = <<g>> /\ at' = 2 * g
      BY <1>4, <3>1
    <3>2. CASE floorsCH' = <<>> /\ at' \in 0 .. 2 * Top
      BY <3>2
    <3> QED BY <1>6, <3>1, <3>2
  <2> QED BY <2>1 DEF ControlInv, TypeOK, CarMoves, fsm, output, door, producer, node, bounds
<1>8. UnderWay'
  BY <1>1, <1>3, <1>6 DEF UnderWay, output
<1>9. AtFloor'
  BY <1>1, <1>2 DEF AtFloor
<1> QED BY <1>1, <1>7, <1>8, <1>9 DEF ControlInv, LampIsDoor, DoorNotStuck, Held,
                                      MovingIsWatched, output, door

\* Those outside send messages and make calls.
LEMMA PassengersKeep == ControlInv /\ Passengers => ControlInv'
<1>1. ASSUME ControlInv, NEW b \in Button, PressButton(b) PROVE ControlInv'
  <2>1. buttonsCH' \in Seq(Button) /\ presses' \in Nat
    BY <1>1, QueueFacts DEF ControlInv, TypeOK, PressButton
  <2>2. TypeOK'
    BY <1>1, <2>1 DEF ControlInv, TypeOK, PressButton, fsm, output, door, producer, node
  <2> QED BY <1>1, <2>2, NothingMoves DEF PressButton, fsm
<1>2. ASSUME ControlInv, NEW b \in BOOLEAN, Obstruct(b) PROVE ControlInv'
  <2>1. obstructionCH' \in Seq(BOOLEAN) /\ switches' \in Nat
    BY <1>2, QueueFacts DEF ControlInv, TypeOK, Obstruct
  <2>2. TypeOK'
    BY <1>2, <2>1 DEF ControlInv, TypeOK, Obstruct, fsm, output, door, producer, node
  <2> QED BY <1>2, <2>2, NothingMoves DEF Obstruct, fsm
<1>3. ASSUME ControlInv, NEW b \in BOOLEAN, HoldStop(b) PROVE ControlInv'
  <2>1. stopCH' \in Seq(BOOLEAN) /\ switches' \in Nat
    BY <1>3, QueueFacts DEF ControlInv, TypeOK, HoldStop
  <2>2. TypeOK'
    BY <1>3, <2>1 DEF ControlInv, TypeOK, HoldStop, fsm, output, door, producer, node
  <2> QED BY <1>3, <2>2, NothingMoves DEF HoldStop, fsm
<1> QED BY <1>1, <1>2, <1>3 DEF Passengers

\* So do the OrderManager and the OrderAssigner.
LEMMA RestOfNodeKeeps == ControlInv /\ RestOfNode => ControlInv'
<1>1. ASSUME ControlInv, Complete PROVE ControlInv'
  <2>1. clearCH' \in Seq(Cell) /\ calls' \subseteq Button
    BY <1>1, QueueFacts DEF ControlInv, TypeOK, Complete
  <2>2. TypeOK'
    BY <1>1, <2>1 DEF ControlInv, TypeOK, Complete, fsm, output, sensors, door, producer, bounds
  <2> QED BY <1>1, <2>2, NothingMoves DEF Complete, fsm, sensors
<1>2. ASSUME ControlInv, Assign PROVE ControlInv'
  <2>1. PICK hall \in SUBSET HallCalls : costCH' = Assigned(hall)
    BY <1>2 DEF Assign
  <2>2. costCH' \in Assignment
    BY <2>1 DEF Assigned, HallCalls, Assignment
  <2>3. TypeOK'
    BY <1>2, <2>2 DEF ControlInv, TypeOK, Assign, fsm, output, sensors, door, producer, bounds
  <2> QED BY <1>2, <2>3, NothingMoves DEF Assign, fsm, sensors
<1>3. ASSUME ControlInv, ServedElsewhere PROVE ControlInv'
  <2>1. calls' \subseteq Button
    BY <1>3 DEF ControlInv, TypeOK, ServedElsewhere
  <2>2. TypeOK'
    BY <1>3, <2>1 DEF ControlInv, TypeOK, ServedElsewhere, fsm, output, sensors, door, producer,
                      bounds
  <2> QED BY <1>3, <2>2, NothingMoves DEF ServedElsewhere, fsm, sensors
<1> QED BY <1>1, <1>2, <1>3 DEF RestOfNode

-----------------------------------------------------------------------------
(* The theorems.                                                           *)

\* At start-up the elevator is idle on a floor or on its way down to one.
LEMMA InitControl == Init => ControlInv
<1> SUFFICES ASSUME Init PROVE ControlInv
  OBVIOUS
<1>1. at \in 0 .. 2 * Top /\ NumFloors \in Nat /\ Top = NumFloors - 1
      /\ Floor = 0 .. NumFloors - 1
  BY TwoFloors DEF Init, Top, Floor
<1>2. /\ floorsCH = <<>> /\ doorLamp = FALSE /\ motor = elev.dir
  BY DEF Init
<1>t. ASSUME elev \in Elevator, floorTimer \in {"off", "armed"}
      PROVE  TypeOK
  <2>1. currentDestination \in OrderMessage
    <3>1. 0 \in Floor
      BY TwoFloors DEF Floor
    <3> QED BY <3>1 DEF Init, OrderMessage, At, MotorDir
  <2>2. None \in OrderMessage \cup {None} /\ None \in Assignment
    BY DEF Assignment
  <2>3. motor \in MotorDir
    BY <1>t, <1>2 DEF Elevator
  <2>4. /\ phase \in {"fetch", "select"} /\ at \in 0 .. 2 * Top
        /\ isObstructed \in BOOLEAN /\ isStopped \in BOOLEAN
        /\ obstruction \in BOOLEAN /\ stopButton \in BOOLEAN /\ doorLamp \in BOOLEAN
        /\ doorReset \in BOOLEAN /\ doorTimer \in BOOLEAN
        /\ presses \in Nat /\ switches \in Nat /\ calls \subseteq Button
    BY <1>1 DEF Init
  <2>5. \A S : <<>> \in Seq(S)
    OBVIOUS
  <2>6. /\ floorsCH \in Seq(Floor) /\ obstructionCH \in Seq(BOOLEAN)
        /\ stopCH \in Seq(BOOLEAN) /\ buttonsCH \in Seq(Button)
        /\ doorTimeouts \in Nat /\ positionCH \in Seq(OrderMessage)
        /\ clearCH \in Seq(Cell)
    BY <2>5 DEF Init
  <2>7. /\ movement \in OrderMessage \cup {None} /\ orders \in Assignment
        /\ latestDestination \in OrderMessage \cup {None} /\ costCH \in Assignment
    BY <2>2 DEF Init
  <2> QED BY <1>t, <2>1, <2>3, <2>4, <2>6, <2>7 DEF TypeOK
<1>3. CASE at % 2 = 0
  <2>1. PICK f \in Floor : at = 2 * f
    BY <1>1, <1>3
  <2>2. at \div 2 = f
    BY <1>1, <2>1, Halves
  <2>3. elev = Elev(f, "stop", "Idle") /\ floorTimer = "off"
    BY <1>3, <2>2 DEF Init
  <2>4. elev.floor = f /\ elev.dir = "stop" /\ elev.state = "Idle"
    BY <2>3, ElevFields
  <2>5. elev \in Elevator
    BY <2>3 DEF Elev, Elevator, MotorDir
  <2>6. TypeOK
    BY <1>1, <1>t, <2>3, <2>5
  <2> QED BY <1>2, <2>1, <2>3, <2>4, <2>6
          DEF ControlInv, AtFloor, UnderWay, LampIsDoor, DoorNotStuck, MovingIsWatched
<1>4. CASE at % 2 # 0
  <2>1. PICK f \in Nat : at = 2 * f + 1
    BY <1>1, <1>4
  <2>2. f \in Floor /\ f < Top
    BY <1>1, <2>1
  <2>3. elev = Elev(BetweenFloors, "down", "Moving") /\ floorTimer = "armed"
    BY <1>4 DEF Init
  <2>4. elev.floor = BetweenFloors /\ elev.dir = "down" /\ elev.state = "Moving"
    BY <2>3, ElevFields
  <2>5. elev \in Elevator
    BY <2>3 DEF Elev, Elevator, MotorDir, Dir
  <2>6. TypeOK
    BY <1>1, <1>t, <2>3, <2>5
  <2>7. OnTheWay
    BY <2>1, <2>2, <2>4, ControlAssumption DEF OnTheWay
  <2> QED BY <1>2, <2>3, <2>4, <2>6, <2>7
          DEF ControlInv, AtFloor, UnderWay, LampIsDoor, DoorNotStuck, MovingIsWatched, Dir
<1> QED BY <1>3, <1>4

\* Nothing the state machine, its timers, the car or anybody outside does breaks
\* the invariant.
THEOREM ControlInvariant == Spec => []ControlInv
<1>1. ControlInv /\ [Next]_vars => ControlInv'
  <2> SUFFICES ASSUME ControlInv, [Next]_vars PROVE ControlInv'
    OBVIOUS
  <2>1. CASE StateMachine
    BY <2>1, FetchKeeps, TakeSwitchKeeps, TakeButtonKeeps, QuietTickKeeps, MovingFloorKeeps,
       DoorTimeoutKeeps, IdleTickKeeps DEF StateMachine
  <2>2. CASE Timers
    BY <2>2, TimersKeep
  <2>3. CASE Producer
    BY <2>3, ProducerKeeps
  <2>4. CASE CarMoves
    BY <2>4, CarMovesKeeps
  <2>5. CASE Passengers
    BY <2>5, PassengersKeep
  <2>6. CASE RestOfNode
    BY <2>6, RestOfNodeKeeps
  <2>7. CASE UNCHANGED vars
    <3>1. TypeOK'
      BY <2>7 DEF ControlInv, TypeOK, vars, fsm, output, sensors, door, producer, node, bounds
    <3> QED BY <2>7, <3>1, NothingMoves DEF vars, fsm, sensors
  <2> QED BY <2>1, <2>2, <2>3, <2>4, <2>5, <2>6, <2>7 DEF Next
<1> QED BY <1>1, InitControl, PTL DEF Spec

\* Every variable keeps its type: no handler computes a floor that does not exist.
THEOREM TypeCorrect == Spec => []TypeOK
<1>1. ControlInv => TypeOK
  BY DEF ControlInv
<1> QED BY <1>1, ControlInvariant, PTL

\* The door is open only at a floor, with the motor off.
THEOREM DoorOpensSafely == Spec => []DoorSafe
<1>1. ControlInv => DoorSafe
  BY DEF ControlInv, LampIsDoor, AtFloor, DoorSafe
<1> QED BY <1>1, ControlInvariant, PTL

\* The car is never driven on beyond the lowest or the highest floor.
THEOREM CarStaysInShaft == Spec => []NoOverrun
<1>1. ControlInv => NoOverrun
  <2> SUFFICES ASSUME ControlInv, floorsCH = <<>>, motor # "stop"
               PROVE  (motor = "up" => at < 2 * Top) /\ (motor = "down" => at > 0)
    BY DEF NoOverrun
  <2>1. elev.state = "Moving"
    BY DEF ControlInv, AtFloor
  <2>2. motor = elev.dir /\ OnTheWay
    BY <2>1 DEF ControlInv, UnderWay
  <2>3. Top \in Nat /\ Floor = 0 .. Top /\ at \in Int
    BY TwoFloors DEF ControlInv, TypeOK, Top, Floor
  <2>4. elev.floor \in Floor \/ elev.floor = BetweenFloors
    BY DEF ControlInv, TypeOK, Elevator
  <2>5. CASE elev.floor = BetweenFloors
    BY <2>2, <2>3, <2>5 DEF OnTheWay
  <2>6. CASE elev.floor \in Floor
    <3>1. elev.floor \in 0 .. Top
      BY <2>3, <2>6
    <3>2. \/ motor = "up" /\ elev.floor < Top /\ at - 2 * elev.floor \in 0 .. 1
          \/ motor = "down" /\ elev.floor > 0 /\ 2 * elev.floor - at \in 0 .. 1
      BY <2>2, <2>6 DEF OnTheWay
    <3> QED BY <2>3, <3>1, <3>2
  <2> QED BY <2>4, <2>5, <2>6
<1> QED BY <1>1, ControlInvariant, PTL

\* An open door that nothing holds is going to close.
THEOREM DoorWillClose == Spec => []DoorNotStuck
<1>1. ControlInv => DoorNotStuck
  BY DEF ControlInv
<1> QED BY <1>1, ControlInvariant, PTL

\* The handlers have set the floor timer exactly while the elevator counts as moving.
THEOREM MovingWatched == Spec => []MovingIsWatched
<1>1. ControlInv => MovingIsWatched
  BY DEF ControlInv
<1> QED BY <1>1, ControlInvariant, PTL

-----------------------------------------------------------------------------
(* What OrderCluster takes for granted of the state machine when it lets a *)
(* node complete only orders its assigner was handed: for every set S that *)
(* contains all assignments since start-up, all completions are from S.    *)

\* The order a destination names, if it names one, is in S.
NamesOrderIn(m, S) == m = None \/ m.dir = "stop" \/ <<m.floor, m.dir>> \in S

AssignmentsWithin(S) == costCH # None => costCH \subseteq S
CompletionsWithin(S) == \A i \in 1 .. Len(clearCH) : clearCH[i] \in S

\* A completion is announced in the step that opens the door for it, or finds it
\* open, with the car at the very floor and the motor off: no call is taken off the
\* books from a floor away, whatever the destination has become meanwhile.
DoorOpenAt(f) == doorLamp /\ motor = "stop" /\ at = 2 * f
CompletedAtTheDoor ==
    [][\A c \in Cell : clearCH' = Append(clearCH, c) => DoorOpenAt(c[1])']_vars

\* Where a step leaves the completions: only the destination of the iteration is
\* ever completed, on its own floor, with the door open.
LEMMA ClearStep ==
    ASSUME TypeOK, [Next]_vars
    PROVE  \/ clearCH' = clearCH
           \/ clearCH # <<>> /\ clearCH' = Tail(clearCH)
           \/ /\ ~NothingToDo
              /\ clearCH' = Append(clearCH, <<currentDestination.floor, currentDestination.dir>>)
              /\ elev'.floor = currentDestination.floor /\ elev'.state = "DoorOpen"
<1>1. CASE Fetch \/ QuietTick \/ Timers \/ Producer \/ CarMoves \/ Passengers
  BY <1>1 DEF Fetch, QuietTick, Timers, DoorTimerReset, DoorTimerFires, FloorTimerFires, Producer,
              ProducerPosition, ProducerOrders, Produce, CarMoves, Passengers, PressButton,
              Obstruct, HoldStop, node
<1>2. CASE TakeObstruction \/ TakeStop \/ TakeButton
  BY <1>2 DEF TakeObstruction, TakeStop, SwitchTaken, TakeButton
<1>3. ASSUME NEW f, Serve(f), f = currentDestination.floor
      PROVE  /\ clearCH' = Append(clearCH, <<currentDestination.floor, currentDestination.dir>>)
             /\ elev'.floor = currentDestination.floor /\ elev'.state = "DoorOpen"
  BY <1>3, ElevFields DEF Serve, ClearOrder
<1>4. CASE MovingFloor
  BY <1>3, <1>4 DEF MovingFloor, Rest, Stop, PassBy
<1>5. CASE DoorTimeout
  BY <1>5, ElevFields DEF DoorTimeout, DoorTimeoutHeld, CloseDoor, ClearOrder
<1>6. CASE IdleTick
  BY <1>3, <1>6 DEF IdleTick
<1>7. CASE RestOfNode
  BY <1>7 DEF RestOfNode, Complete, Assign, ServedElsewhere
<1>8. CASE UNCHANGED vars
  BY <1>8 DEF vars, node
<1> QED BY <1>1, <1>2, <1>4, <1>5, <1>6, <1>7, <1>8 DEF Next, StateMachine

\* How a step moves the destination and what it comes from.
LEMMA DestinationStep ==
    ASSUME TypeOK, [Next]_vars
    PROVE  /\ \/ currentDestination' = currentDestination
              \/ latestDestination # None /\ currentDestination' = latestDestination
           /\ \/ UNCHANGED <<orders, latestDestination>>
              \/ \E m \in OrderMessage \cup {None}, assigned \in {orders, costCH} :
                    Produce(m, assigned)
<1>1. CASE Fetch
  BY <1>1 DEF Fetch, producer
<1>2. CASE \E s : Handle(s)
  BY <1>2 DEF Handle, producer
<1>3. CASE TakeObstruction \/ TakeStop \/ TakeButton \/ QuietTick \/ MovingFloor \/ DoorTimeout \/ IdleTick
  BY <1>2, <1>3 DEF TakeObstruction, TakeStop, TakeButton, QuietTick, MovingFloor, DoorTimeout,
                    IdleTick
<1>4. CASE Timers \/ CarMoves \/ Passengers
  BY <1>4 DEF Timers, DoorTimerReset, DoorTimerFires, FloorTimerFires, CarMoves, Passengers,
              PressButton, Obstruct, HoldStop, fsm, producer
<1>5. CASE RestOfNode
  BY <1>5 DEF RestOfNode, Complete, Assign, ServedElsewhere, fsm, producer
<1>6. CASE ProducerPosition
  <2>1. Head(positionCH) \in OrderMessage
    BY <1>6, QueueFacts DEF TypeOK, ProducerPosition
  <2> QED BY <1>6, <2>1 DEF ProducerPosition, Produce, fsm
<1>7. CASE ProducerOrders
  BY <1>7 DEF TypeOK, ProducerOrders, Produce, fsm
<1>8. CASE UNCHANGED vars
  BY <1>8 DEF vars, fsm, producer
<1> QED BY <1>1, <1>3, <1>4, <1>5, <1>6, <1>7, <1>8 DEF Next, StateMachine, Producer

\* The producer's answer is one of the orders it answers for, or "stop".
LEMMA AnswerAssigned ==
    ASSUME NEW m \in OrderMessage, NEW assigned \in SUBSET Cell, NEW S, assigned \subseteq S
    PROVE  NamesOrderIn(NextDestination(m, assigned), S)
<1>1. CASE assigned = {}
  BY <1>1 DEF NextDestination, At, NamesOrderIn
<1>2. CASE assigned # {}
  <2>1. Nearest(FindClosestDestination(m, assigned), m, assigned)
    BY <1>2, FindsNearest
  <2> QED BY <1>2, <2>1 DEF NextDestination, Nearest, IsNearest, NamesOrderIn
<1> QED BY <1>1, <1>2

\* The orders, the destinations and the completions all come from S.
WithinInv(S) ==
    /\ TypeOK
    /\ orders # None => orders \subseteq S
    /\ NamesOrderIn(latestDestination, S)
    /\ NamesOrderIn(currentDestination, S)
    /\ clearCH \in Seq(S)

\* A step keeps within S, if the assignment that waits does.
LEMMA WithinKept ==
    ASSUME NEW S, WithinInv(S), AssignmentsWithin(S), TypeOK', [Next]_vars
    PROVE  WithinInv(S)'
<1>1. TypeOK
  BY DEF WithinInv
<1>2. clearCH' \in Seq(S)
  <2>1. clearCH \in Seq(S)
    BY DEF WithinInv
  <2>2. ASSUME ~NothingToDo
        PROVE  <<currentDestination.floor, currentDestination.dir>> \in S
    <3>1. currentDestination # None
      BY <1>1, ControlAssumption DEF TypeOK
    <3> QED BY <2>2, <3>1 DEF WithinInv, NamesOrderIn, NothingToDo
  <2> QED BY <1>1, <2>1, <2>2, ClearStep, QueueFacts
<1>3. NamesOrderIn(currentDestination, S)'
  BY <1>1, DestinationStep DEF WithinInv, NamesOrderIn
<1>4. (orders' # None => orders' \subseteq S) /\ NamesOrderIn(latestDestination, S)'
  <2>1. CASE UNCHANGED <<orders, latestDestination>>
    BY <2>1 DEF WithinInv, NamesOrderIn
  <2>2. ASSUME NEW m \in OrderMessage \cup {None}, NEW assigned \in {orders, costCH},
               Produce(m, assigned)
        PROVE  (orders' # None => orders' \subseteq S) /\ NamesOrderIn(latestDestination, S)'
    <3>1. assigned \in Assignment /\ (assigned # None => assigned \subseteq S)
      BY <1>1 DEF TypeOK, WithinInv, AssignmentsWithin, Assignment
    <3>2. CASE m = None \/ assigned = None
      BY <2>2, <3>1, <3>2 DEF Produce, WithinInv, NamesOrderIn
    <3>3. CASE m # None /\ assigned # None
      <4>1. NamesOrderIn(NextDestination(m, assigned), S)
        BY <3>1, <3>3, AnswerAssigned DEF Assignment
      <4>2. orders' = assigned /\ latestDestination' = NextDestination(m, assigned)
        BY <2>2, <3>3 DEF Produce
      <4> QED BY <3>1, <4>1, <4>2 DEF NamesOrderIn
    <3> QED BY <3>2, <3>3
  <2> QED BY <1>1, <2>1, <2>2, DestinationStep
<1> QED BY <1>2, <1>3, <1>4 DEF WithinInv

\* The state machine completes only what it has been assigned since start-up, however
\* late it acts on a destination: OrderCluster!OrderComplete may ask for that.
THEOREM CompletesOnlyAssigned ==
    ASSUME NEW S
    PROVE  Spec /\ []AssignmentsWithin(S) => []CompletionsWithin(S)
<1>1. Init /\ TypeOK => WithinInv(S)
  BY DEF Init, At, WithinInv, NamesOrderIn
<1>2. WithinInv(S) /\ AssignmentsWithin(S) /\ TypeOK' /\ [Next]_vars => WithinInv(S)'
  BY WithinKept
<1>3. WithinInv(S) => CompletionsWithin(S)
  BY DEF WithinInv, CompletionsWithin
<1> QED BY <1>1, <1>2, <1>3, TypeCorrect, PTL DEF Spec

\* Completions are announced with the door open at their floor, and only there.
THEOREM CompletesAtTheDoor == Spec => CompletedAtTheDoor
<1>1. ControlInv /\ ControlInv' /\ [Next]_vars
         => [\A c \in Cell : clearCH' = Append(clearCH, c) => DoorOpenAt(c[1])']_vars
  <2> SUFFICES ASSUME ControlInv, ControlInv', [Next]_vars, NEW c \in Cell,
                      clearCH' = Append(clearCH, c)
               PROVE  DoorOpenAt(c[1])'
    OBVIOUS
  <2>1. clearCH \in Seq(Cell) /\ TypeOK
    BY DEF ControlInv, TypeOK
  <2>2. \A q \in Seq(Cell) : Append(q, c) # q /\ (q # <<>> => Append(q, c) # Tail(q))
    OBVIOUS
  <2>3. \A q \in Seq(Cell) : \A d, e : Append(q, <<d, e>>) = Append(q, c) => c[1] = d
    OBVIOUS
  <2>4. elev'.floor = c[1] /\ elev'.state = "DoorOpen"
    BY <2>1, <2>2, <2>3, ClearStep
  <2> QED BY <2>4 DEF ControlInv, LampIsDoor, AtFloor, DoorOpenAt
<1> QED BY <1>1, ControlInvariant, PTL DEF Spec, CompletedAtTheDoor
=============================================================================
