---------------------------- MODULE Sweep_proofs -----------------------------
(***************************************************************************)
(* For every number of floors: the elevator that follows the search keeps  *)
(* to the building, and no waiting order is ever overtaken.                *)
(***************************************************************************)
EXTENDS Sweep, Destination_proofs

-----------------------------------------------------------------------------
(* The elevator that follows it.                                           *)

\* What a non-empty set of orders makes of Destination.
LEMMA DestinationNearest ==
    ASSUME TypeOK, orders # {}
    PROVE  Nearest(Destination, position, orders)
<1>1. orders \in SUBSET Cell /\ position \in OrderMessage
  BY DEF TypeOK, RealCell
<1>2. Destination = FindClosestDestination(position, orders)
  BY DEF Destination, NextDestination
<1> QED BY <1>1, <1>2, FindsNearest

\* The next floor towards a destination elsewhere exists.
LEMMA TowardIsPosition ==
    ASSUME TypeOK, orders # {}, Destination.floor # position.floor
    PROVE  Toward \in OrderMessage
<1>1. Destination.floor \in 0 .. NumFloors - 1 /\ position.floor \in 0 .. NumFloors - 1
  BY DestinationNearest DEF Nearest, TypeOK, OrderMessage, Floor
<1>2. NumFloors \in Nat
  BY TwoFloors
<1>3. CASE Destination.floor > position.floor
  <2>1. position.floor + 1 \in Floor
    BY <1>1, <1>2, <1>3 DEF Floor
  <2> QED BY <1>3, <2>1 DEF Toward, At, OrderMessage, MotorDir, Dir
<1>4. CASE ~ (Destination.floor > position.floor)
  <2>1. position.floor - 1 \in Floor
    BY <1>1, <1>2, <1>4 DEF Floor
  <2> QED BY <1>4, <2>1 DEF Toward, At, OrderMessage, MotorDir, Dir
<1> QED BY <1>3, <1>4

\* The position stays a floor of the building, and only real orders are kept.
THEOREM TypeCorrect == Spec => []TypeOK
<1>1. Init => TypeOK
  BY DEF Init, TypeOK, OrderMessage, MotorDir, At
<1>2. TypeOK /\ [Next]_vars => TypeOK'
  <2> SUFFICES ASSUME TypeOK, [Next]_vars
               PROVE  TypeOK'
    OBVIOUS
  <2>1. ASSUME NEW c \in RealCell, Order(c) PROVE TypeOK'
    BY <2>1 DEF Order, TypeOK
  <2>2. ASSUME orders # {}, Arrive PROVE TypeOK'
    <3>1. Destination \in OrderMessage
      BY <2>2, DestinationNearest DEF Nearest, OrderMessage, MotorDir, At
    <3> QED BY <2>2, <3>1 DEF Arrive, TypeOK
  <2>3. CASE Serve
    BY <2>2, <2>3 DEF Serve
  <2>4. CASE Travel
    BY <2>2, <2>4, TowardIsPosition DEF Travel, TypeOK
  <2>5. CASE Rest
    BY <2>5 DEF Rest, Destination, NextDestination, TypeOK, OrderMessage, MotorDir, At
  <2>6. CASE UNCHANGED vars
    BY <2>6 DEF vars, TypeOK
  <2> QED BY <2>1, <2>3, <2>4, <2>5, <2>6 DEF Next
<1> QED BY <1>1, <1>2, PTL DEF Spec

\* What it heads for is the order the circle comes to first.
THEOREM HeadsForNearest == Spec => []ClosestIsNearest
<1>1. TypeOK => ClosestIsNearest
  BY DestinationNearest DEF ClosestIsNearest, Nearest
<1> QED BY <1>1, TypeCorrect, PTL

\* Moved on to cell r, nothing between is passed over: what lies beyond r is as
\* much nearer as r was far, and one more.
LEMMA MovingOn ==
    ASSUME NEW m \in OrderMessage, NEW r \in OrderMessage, r.dir \in Dir,
           NEW c \in Cell,
           Ahead(m, <<r.floor, r.dir>>) < Ahead(m, c)
    PROVE  Ahead(r, c) < Ahead(m, c)
<1>1. /\ m.floor \in 0 .. NumFloors - 1 /\ r.floor \in 0 .. NumFloors - 1
      /\ NumFloors \in Nat
  BY TwoFloors DEF OrderMessage, Floor
<1>2. Heading(r) = <<r.floor, r.dir>>
  BY DEF Heading, Dir
<1> DEFINE i == Index(Heading(m))
           j == Index(Heading(r))
           k == Index(c)
<1>3. ASSUME NEW x \in Cell PROVE Index(x) \in 0 .. 2 * NumFloors - 1
  <2>1. x[1] \in 0 .. NumFloors - 1
    BY DEF Cell, Floor
  <2> QED BY <1>1, <2>1 DEF Index
<1>4. i \in 0 .. 2 * NumFloors - 1 /\ j \in 0 .. 2 * NumFloors - 1
      /\ k \in 0 .. 2 * NumFloors - 1
  <2>1. Heading(m) \in Cell /\ Heading(r) \in Cell
    BY DEF Heading, OrderMessage, Cell, Dir
  <2> QED BY <1>3, <2>1
<1>5. /\ Ahead(m, c) = IF k - i - 1 < 0 THEN k - i - 1 + 2 * NumFloors ELSE k - i - 1
      /\ Ahead(r, c) = IF k - j - 1 < 0 THEN k - j - 1 + 2 * NumFloors ELSE k - j - 1
      /\ Ahead(m, <<r.floor, r.dir>>) =
            IF j - i - 1 < 0 THEN j - i - 1 + 2 * NumFloors ELSE j - i - 1
  BY <1>2 DEF Ahead
<1> HIDE DEF i, j, k
<1> QED BY <1>1, <1>4, <1>5

\* Different cells are at different distances.
LEMMA AheadDistinguishes ==
    ASSUME NEW m \in OrderMessage, NEW c \in Cell, NEW d \in Cell, c # d
    PROVE  Ahead(m, c) # Ahead(m, d)
<1>1. NumFloors \in Nat
  BY TwoFloors
<1>2. ASSUME NEW x \in Cell
      PROVE  /\ x[1] \in 0 .. NumFloors - 1 /\ x = <<x[1], x[2]>>
             /\ x[2] = "up" \/ x[2] = "down"
  BY DEF Cell, Floor, Dir
<1>3. ASSUME NEW x \in Cell PROVE Index(x) \in 0 .. 2 * NumFloors - 1
  BY <1>1, <1>2 DEF Index
<1>4. Index(c) # Index(d)
  <2>1. CASE c[2] = d[2]
    <3>1. c[1] # d[1]
      BY <1>2, <2>1
    <3> QED BY <1>1, <1>2, <2>1, <3>1 DEF Index
  <2>2. CASE c[2] # d[2]
    BY <1>1, <1>2, <2>2 DEF Index
  <2> QED BY <2>1, <2>2
<1>5. Heading(m) \in Cell
  BY DEF Heading, OrderMessage, Cell, Dir
<1> DEFINE i == Index(Heading(m))
           k == Index(c)
           l == Index(d)
<1>6. /\ i \in 0 .. 2 * NumFloors - 1 /\ k \in 0 .. 2 * NumFloors - 1
      /\ l \in 0 .. 2 * NumFloors - 1 /\ k # l
  BY <1>3, <1>4, <1>5
<1>7. /\ Ahead(m, c) = IF k - i - 1 < 0 THEN k - i - 1 + 2 * NumFloors ELSE k - i - 1
      /\ Ahead(m, d) = IF l - i - 1 < 0 THEN l - i - 1 + 2 * NumFloors ELSE l - i - 1
  BY DEF Ahead
<1> HIDE DEF i, k, l
<1> QED BY <1>1, <1>6, <1>7

\* The next floor on the way comes before a destination that is further on.
LEMMA TowardComesFirst ==
    ASSUME TypeOK, orders # {}, Destination.floor # position.floor,
           Toward.floor # Destination.floor
    PROVE  Ahead(position, <<Toward.floor, Toward.dir>>)
              < Ahead(position, <<Destination.floor, Destination.dir>>)
<1> DEFINE m == position
           f == m.floor
           g == Destination.floor
           d == Destination.dir
<1>1. m \in OrderMessage /\ g \in Floor /\ d \in Dir
  BY DestinationNearest DEF Nearest, TypeOK
<1>2. f \in 0 .. NumFloors - 1 /\ g \in 0 .. NumFloors - 1 /\ NumFloors \in Nat
  BY <1>1, TwoFloors DEF OrderMessage, Floor
<1>3. d = "up" \/ d = "down"
  BY <1>1 DEF Dir
<1>4. /\ g > f => Toward.floor = f + 1 /\ Toward.dir = "up" /\ f + 1 \in Floor
      /\ g < f => Toward.floor = f - 1 /\ Toward.dir = "down" /\ f - 1 \in Floor
  BY <1>2 DEF Toward, At, Floor
<1>5. g > f \/ g < f
  BY <1>2
<1> DEFINE near == Ahead(m, <<Toward.floor, Toward.dir>>)
           far == Ahead(m, <<g, d>>)
<1>6. CASE m.dir = "up"
  <2>1. \A x \in Floor : Ahead(m, <<x, "down">>) = 2 * NumFloors - 2 - x - f
    BY <1>1, <1>6, AheadGoingUp
  <2>2. \A x \in Floor : Ahead(m, <<x, "up">>) =
           IF x > f THEN x - f - 1 ELSE 2 * NumFloors + x - f - 1
    BY <1>1, <1>6, AheadGoingUp
  <2>3. /\ d = "down" => far = 2 * NumFloors - 2 - g - f
        /\ d = "up" => far = IF g > f THEN g - f - 1 ELSE 2 * NumFloors + g - f - 1
    BY <1>1, <2>1, <2>2
  <2>4. /\ g > f => near = 0
        /\ g < f => near = 2 * NumFloors - 2 - (f - 1) - f
    BY <1>2, <1>4, <2>1, <2>2
  <2>5. g # f + 1 /\ g # f - 1
    BY <1>2, <1>4
  <2> HIDE DEF near, far, f, g, d
  <2>6. near < far
    BY <1>2, <1>3, <1>5, <2>3, <2>4, <2>5
  <2> QED BY <2>6 DEF near, far, g, d
<1>7. CASE m.dir # "up"
  <2>1. \A x \in Floor : Ahead(m, <<x, "up">>) = x + f
    BY <1>1, <1>7, AheadGoingDown
  <2>2. \A x \in Floor : Ahead(m, <<x, "down">>) =
           IF x < f THEN f - x - 1 ELSE 2 * NumFloors + f - x - 1
    BY <1>1, <1>7, AheadGoingDown
  <2>3. /\ d = "up" => far = g + f
        /\ d = "down" => far = IF g < f THEN f - g - 1 ELSE 2 * NumFloors + f - g - 1
    BY <1>1, <2>1, <2>2
  <2>4. /\ g > f => near = f + 1 + f
        /\ g < f => near = IF f - 1 < f THEN f - (f - 1) - 1
                                         ELSE 2 * NumFloors + f - (f - 1) - 1
    BY <1>4, <2>1, <2>2
  <2>5. g # f + 1 /\ g # f - 1
    BY <1>2, <1>4
  <2> HIDE DEF near, far, f, g, d
  <2>6. near < far
    BY <1>2, <1>3, <1>5, <2>3, <2>4, <2>5
  <2> QED BY <2>6 DEF near, far, g, d
<1> QED BY <1>6, <1>7

\* What one step does for the orders that wait on.
LEMMA StepBringsNearer ==
    ASSUME TypeOK, Next, position' # position, NEW c \in orders \cap orders'
    PROVE  Ahead(position', c) < Ahead(position, c)
<1>1. orders # {} /\ c \in Cell /\ position \in OrderMessage
  BY DEF TypeOK, RealCell
<1>2. Serve \/ Travel
  BY <1>1 DEF Next, Order, Rest
<1> DEFINE d == <<Destination.floor, Destination.dir>>
<1>3. /\ Destination \in OrderMessage /\ Destination.dir \in Dir /\ d \in Cell
      /\ Ahead(position, d) <= Ahead(position, c)
  <2>1. Nearest(Destination, position, orders)
    BY <1>1, DestinationNearest
  <2>2. Destination \in OrderMessage
    <3>1. NextDestination(position, orders) \in OrderMessage
      BY <1>1, NextDestinationType DEF TypeOK, RealCell
    <3> QED BY <3>1 DEF Destination
  <2>3. d \in Cell
    BY <2>1 DEF Nearest, Cell
  <2> QED BY <2>1, <2>2, <2>3 DEF Nearest, IsNearest
<1>n. \A x \in Cell : Ahead(position, x) \in Int
  BY <1>1, TwoFloors DEF Ahead, Index, Heading, Cell, Floor, OrderMessage
<1>4. CASE Arrive
  <2>1. c # d
    BY <1>4 DEF Arrive
  <2>2. Ahead(position, d) < Ahead(position, c)
    BY <1>1, <1>3, <1>n, <2>1, AheadDistinguishes
  <2>3. position' = Destination
    BY <1>4 DEF Arrive
  <2> QED BY <1>1, <1>3, <2>2, <2>3, MovingOn
<1>5. CASE ~Arrive
  <2>1. /\ Destination.floor # position.floor /\ Toward.floor # Destination.floor
        /\ position' = Toward
    BY <1>2, <1>5 DEF Serve, Travel
  <2>2. Toward \in OrderMessage /\ Toward.dir \in Dir
    <3>1. Toward.dir \in Dir
      BY DEF Toward, At, Dir
    <3> QED BY <1>1, <2>1, <3>1, TowardIsPosition
  <2>3. <<Toward.floor, Toward.dir>> \in Cell
    BY <2>2 DEF OrderMessage, Cell
  <2>4. Ahead(position, <<Toward.floor, Toward.dir>>) < Ahead(position, d)
    BY <1>1, <2>1, TowardComesFirst
  <2>5. Ahead(position, <<Toward.floor, Toward.dir>>) < Ahead(position, c)
    BY <1>1, <1>3, <1>n, <2>3, <2>4
  <2> QED BY <1>1, <2>1, <2>2, <2>5, MovingOn
<1> QED BY <1>4, <1>5

\* Nothing that waits is ever overtaken, however many orders come in.
THEOREM NeverOvertaken == Spec => EveryStepBringsNearer
<1>1. TypeOK /\ [Next]_vars =>
         [\A c \in orders \cap orders' :
             position' # position => Ahead(position', c) < Ahead(position, c)]_vars
  BY StepBringsNearer DEF vars
<1> QED BY <1>1, TypeCorrect, PTL DEF Spec, EveryStepBringsNearer
=============================================================================
