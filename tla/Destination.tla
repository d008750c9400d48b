----------------------------- MODULE Destination -----------------------------
(***************************************************************************)
(* destination.go: where the elevator goes next.  From the floor and the   *)
(* direction last reported, findClosestDestination searches the assigned   *)
(* orders in a circle: on in the same direction, back along the other one, *)
(* and home again.                                                         *)
(*                                                                         *)
(* The second half defines that circle independently, as the reference the *)
(* search is compared with.                                                *)
(***************************************************************************)
EXTENDS Integers

CONSTANT NumFloors  \* def.NumFloors (4 in the code)

ASSUME TwoFloors == NumFloors \in Nat /\ NumFloors >= 2

Floor == 0 .. NumFloors - 1
Top == NumFloors - 1

Dir == {"up", "down"}
MotorDir == Dir \cup {"stop"}

\* def.AssignedOrders: the cells that hold TRUE, as <<floor, direction>>.
Cell == Floor \X Dir

\* def.OrderMessage: a position, or a destination ("stop": nothing to do).
OrderMessage == [floor : Floor, dir : MotorDir]

At(f, d) == [floor |-> f, dir |-> d]

-----------------------------------------------------------------------------
(* checkForTrueInInterval: upwards it returns the lowest floor with an up  *)
(* order, downwards the highest with a down order.                         *)

Found(m) == m.dir # "stop"
NotFound == At(0, "stop")

UpOrders(lo, hi, orders)   == {f \in lo .. hi : <<f, "up">> \in orders}
DownOrders(lo, hi, orders) == {f \in lo .. hi : <<f, "down">> \in orders}

Lowest(F)  == CHOOSE f \in F : \A g \in F : f <= g
Highest(F) == CHOOSE f \in F : \A g \in F : f >= g

\* Mutant: the interval is searched from the wrong end.
HighestUp(lo, hi, orders) ==
    LET F == UpOrders(lo, hi, orders)
    IN  IF F = {} THEN NotFound ELSE At(Highest(F), "up")

FirstUp(lo, hi, orders) ==
    LET F == UpOrders(lo, hi, orders)
    IN  IF F = {} THEN NotFound ELSE At(Lowest(F), "up")

FirstDown(hi, lo, orders) ==
    LET F == DownOrders(lo, hi, orders)
    IN  IF F = {} THEN NotFound ELSE At(Highest(F), "down")

-----------------------------------------------------------------------------
(* findClosestDestination, for at least one order.                         *)

Else(m, n) == IF Found(m) THEN m ELSE n

ClosestGoingDown(f, orders) ==
    Else(FirstDown(f - 1, 0, orders),
    Else(FirstUp(0, f - 1, orders),
    Else(FirstUp(f, Top, orders),
         FirstDown(Top, f, orders))))

ClosestGoingUp(f, orders) ==
    Else(FirstUp(f + 1, Top, orders),
    Else(FirstDown(Top, f + 1, orders),
    Else(FirstDown(f, 0, orders),
         FirstUp(0, f, orders))))

\* Mutant: up orders first, whichever way the elevator goes.
ClosestUpFirst(m, orders) == ClosestGoingUp(m.floor, orders)

\* A standing elevator searches as if it went down.
FindClosestDestination(m, orders) ==
    IF m.dir = "up" THEN ClosestGoingUp(m.floor, orders)
                    ELSE ClosestGoingDown(m.floor, orders)

\* One answer of produceNextElevatorDestination, once it has heard from both.
NextDestination(m, orders) ==
    IF orders = {} THEN At(m.floor, "stop") ELSE FindClosestDestination(m, orders)

-----------------------------------------------------------------------------
(* The reference: the circle of cells, up orders by rising floor and then  *)
(* down orders by falling floor, and how many cells lie between the one    *)
(* the elevator is at and another one.                                     *)

Index(c) == IF c[2] = "up" THEN c[1] ELSE 2 * NumFloors - 1 - c[1]

Heading(m) == <<m.floor, IF m.dir = "up" THEN "up" ELSE "down">>

\* How far ahead cell c is: 0 for the next one, 2 * NumFloors - 1 for the own.
Ahead(m, c) ==
    LET d == Index(c) - Index(Heading(m)) - 1
    IN  IF d < 0 THEN d + 2 * NumFloors ELSE d

IsNearest(c, m, orders) ==
    /\ c \in orders
    /\ \A o \in orders : Ahead(m, c) <= Ahead(m, o)
=============================================================================
