------------------------- MODULE Destination_proofs --------------------------
(***************************************************************************)
(* For every number of floors: the search of findClosestDestination finds  *)
(* the order the circle comes to first.                                    *)
(***************************************************************************)
EXTENDS Destination, WellFoundedInduction, TLAPS

-----------------------------------------------------------------------------
(* Least and greatest floors.                                              *)

\* Every non-empty set of natural numbers has a least element.
LEMMA LeastExists ==
    ASSUME NEW F, F \subseteq Nat, F # {}
    PROVE  \E x \in F : \A y \in F : x <= y
<1> DEFINE R == OpToRel(<, Nat)
<1>1. \E x \in F : \A y \in F : ~ (<<y, x>> \in R)
  BY NatLessThanWellFounded, WFMin
<1>2. \A x, y \in Nat : <<y, x>> \in R <=> y < x
  BY DEF OpToRel
<1>3. PICK x \in F : \A y \in F : ~ (<<y, x>> \in R)
  BY <1>1
<1> HIDE DEF R
<1>4. ASSUME NEW y \in F PROVE x <= y
  <2>1. x \in Nat /\ y \in Nat
    OBVIOUS
  <2>2. ~ (y < x)
    BY <1>2, <1>3, <2>1
  <2> QED BY <2>1, <2>2
<1> QED BY <1>4

\* Lowest is what its name says (checkForTrueInInterval, upwards).
LEMMA LowestIsLeast ==
    ASSUME NEW F, F \subseteq Nat, F # {}
    PROVE  Lowest(F) \in F /\ \A g \in F : Lowest(F) <= g
<1>1. \E f \in F : \A g \in F : f <= g
  BY LeastExists
<1> QED BY <1>1 DEF Lowest

\* Highest is what its name says (checkForTrueInInterval, downwards).
LEMMA HighestIsGreatest ==
    ASSUME NEW n \in Nat, NEW F, F \subseteq 0 .. n, F # {}
    PROVE  Highest(F) \in F /\ \A g \in F : Highest(F) >= g
<1> DEFINE G == {n - f : f \in F}
<1>1. G \subseteq Nat /\ G # {}
  <2>1. ASSUME NEW f \in F PROVE n - f \in Nat
    <3>1. f \in 0 .. n
      OBVIOUS
    <3> QED BY <3>1
  <2> QED BY <2>1
<1>2. PICK x \in G : \A y \in G : x <= y
  <2> HIDE DEF G
  <2> QED BY <1>1, LeastExists
<1>3. PICK f \in F : x = n - f
  OBVIOUS
<1>4. \A g \in F : f >= g
  <2> TAKE g \in F
  <2>1. n - f <= n - g
    BY <1>2, <1>3
  <2>2. f \in 0 .. n /\ g \in 0 .. n
    OBVIOUS
  <2> QED BY <2>1, <2>2
<1> QED BY <1>4 DEF Highest

-----------------------------------------------------------------------------
(* The four searches.                                                      *)

\* What the upward search returns.
LEMMA FirstUpFinds ==
    ASSUME NEW lo \in Nat, NEW hi \in Int, NEW S \in SUBSET Cell
    PROVE  \/ /\ FirstUp(lo, hi, S) = NotFound
              /\ \A g \in lo .. hi : <<g, "up">> \notin S
           \/ \E f \in lo .. hi :
                 /\ FirstUp(lo, hi, S) = At(f, "up")
                 /\ <<f, "up">> \in S
                 /\ \A g \in lo .. hi : <<g, "up">> \in S => f <= g
<1> DEFINE F == UpOrders(lo, hi, S)
<1>1. CASE F = {}
  BY <1>1 DEF FirstUp, UpOrders
<1>2. CASE F # {}
  <2>1. F \subseteq Nat
    BY TwoFloors DEF UpOrders, Floor
  <2>2. Lowest(F) \in F /\ \A g \in F : Lowest(F) <= g
    <3> HIDE DEF F
    <3> QED BY <1>2, <2>1, LowestIsLeast
  <2>3. FirstUp(lo, hi, S) = At(Lowest(F), "up")
    BY <1>2 DEF FirstUp
  <2> QED BY <2>2, <2>3 DEF UpOrders
<1> QED BY <1>1, <1>2

\* What the downward search returns.
LEMMA FirstDownFinds ==
    ASSUME NEW lo \in Nat, NEW hi \in Int, NEW S \in SUBSET Cell
    PROVE  \/ /\ FirstDown(hi, lo, S) = NotFound
              /\ \A g \in lo .. hi : <<g, "down">> \notin S
           \/ \E f \in lo .. hi :
                 /\ FirstDown(hi, lo, S) = At(f, "down")
                 /\ <<f, "down">> \in S
                 /\ \A g \in lo .. hi : <<g, "down">> \in S => f >= g
<1> DEFINE F == DownOrders(lo, hi, S)
<1>1. CASE F = {}
  BY <1>1 DEF FirstDown, DownOrders
<1>2. CASE F # {}
  <2>1. F \subseteq 0 .. Top /\ Top \in Nat
    <3>1. Top \in Nat /\ Floor = 0 .. Top
      BY TwoFloors DEF Top, Floor
    <3>2. \A f \in F : f \in Floor
      BY DEF DownOrders, Cell
    <3> QED BY <3>1, <3>2
  <2>2. Highest(F) \in F /\ \A g \in F : Highest(F) >= g
    <3> HIDE DEF F
    <3> QED BY <1>2, <2>1, HighestIsGreatest
  <2>3. FirstDown(hi, lo, S) = At(Highest(F), "down")
    BY <1>2 DEF FirstDown
  <2> QED BY <2>2, <2>3 DEF DownOrders
<1> QED BY <1>1, <1>2

-----------------------------------------------------------------------------
(* Distances on the circle.                                                *)

\* How far ahead the cells are of an elevator going up from floor f.
LEMMA AheadGoingUp ==
    ASSUME NEW m \in OrderMessage, m.dir = "up"
    PROVE  /\ \A g \in Floor : Ahead(m, <<g, "down">>) = 2 * NumFloors - 2 - g - m.floor
           /\ \A g \in Floor : Ahead(m, <<g, "up">>) =
                 IF g > m.floor THEN g - m.floor - 1 ELSE 2 * NumFloors + g - m.floor - 1
<1>1. m.floor \in 0 .. NumFloors - 1
  BY DEF OrderMessage, Floor
<1>2. Index(Heading(m)) = m.floor
  BY DEF Heading, Index
<1>3. \A g \in Floor : Index(<<g, "up">>) = g /\ Index(<<g, "down">>) = 2 * NumFloors - 1 - g
  BY DEF Index
<1>4. NumFloors \in Nat
  BY TwoFloors
<1>5. ASSUME NEW g \in Floor
      PROVE  /\ Ahead(m, <<g, "down">>) = 2 * NumFloors - 2 - g - m.floor
             /\ Ahead(m, <<g, "up">>) =
                   IF g > m.floor THEN g - m.floor - 1 ELSE 2 * NumFloors + g - m.floor - 1
  <2>1. g \in 0 .. NumFloors - 1
    BY DEF Floor
  <2>2. Ahead(m, <<g, "up">>) =
           IF g - m.floor - 1 < 0
           THEN g - m.floor - 1 + 2 * NumFloors
           ELSE g - m.floor - 1
    BY <1>2, <1>3 DEF Ahead
  <2>3. Ahead(m, <<g, "down">>) =
           IF (2 * NumFloors - 1 - g) - m.floor - 1 < 0
           THEN (2 * NumFloors - 1 - g) - m.floor - 1 + 2 * NumFloors
           ELSE (2 * NumFloors - 1 - g) - m.floor - 1
    BY <1>2, <1>3 DEF Ahead
  <2> QED BY <1>1, <1>4, <2>1, <2>2, <2>3
<1> QED BY <1>5

\* The same for one going down, or standing, at floor f.
LEMMA AheadGoingDown ==
    ASSUME NEW m \in OrderMessage, m.dir # "up"
    PROVE  /\ \A g \in Floor : Ahead(m, <<g, "up">>) = g + m.floor
           /\ \A g \in Floor : Ahead(m, <<g, "down">>) =
                 IF g < m.floor THEN m.floor - g - 1 ELSE 2 * NumFloors + m.floor - g - 1
<1>1. m.floor \in 0 .. NumFloors - 1
  BY DEF OrderMessage, Floor
<1>2. Index(Heading(m)) = 2 * NumFloors - 1 - m.floor
  BY DEF Heading, Index
<1>3. \A g \in Floor : Index(<<g, "up">>) = g /\ Index(<<g, "down">>) = 2 * NumFloors - 1 - g
  BY DEF Index
<1>4. NumFloors \in Nat
  BY TwoFloors
<1>5. ASSUME NEW g \in Floor
      PROVE  /\ Ahead(m, <<g, "down">>) =
                   IF g < m.floor THEN m.floor - g - 1 ELSE 2 * NumFloors + m.floor - g - 1
             /\ Ahead(m, <<g, "up">>) = g + m.floor
  <2>1. g \in 0 .. NumFloors - 1
    BY DEF Floor
  <2>2. Ahead(m, <<g, "up">>) =
           IF g - (2 * NumFloors - 1 - m.floor) - 1 < 0
           THEN g - (2 * NumFloors - 1 - m.floor) - 1 + 2 * NumFloors
           ELSE g - (2 * NumFloors - 1 - m.floor) - 1
    BY <1>2, <1>3 DEF Ahead
  <2>3. Ahead(m, <<g, "down">>) =
           IF (2 * NumFloors - 1 - g) - (2 * NumFloors - 1 - m.floor) - 1 < 0
           THEN (2 * NumFloors - 1 - g) - (2 * NumFloors - 1 - m.floor) - 1 + 2 * NumFloors
           ELSE (2 * NumFloors - 1 - g) - (2 * NumFloors - 1 - m.floor) - 1
    BY <1>2, <1>3 DEF Ahead
  <2> QED BY <1>1, <1>4, <2>1, <2>2, <2>3
<1> QED BY <1>5

-----------------------------------------------------------------------------
(* The search.                                                             *)

Nearest(r, m, S) == /\ r.floor \in Floor /\ r.dir \in Dir /\ r = At(r.floor, r.dir)
                    /\ IsNearest(<<r.floor, r.dir>>, m, S)

\* A cell is one of the two of its floor.
LEMMA CellCases ==
    ASSUME NEW S \in SUBSET Cell, NEW o \in S
    PROVE  \E g \in Floor : o = <<g, "up">> \/ o = <<g, "down">>
BY DEF Cell, Dir

\* To be nearest it is enough to be no further than either cell of each floor.
LEMMA NearestByCells ==
    ASSUME NEW m \in OrderMessage, NEW S \in SUBSET Cell,
           NEW x \in Floor, NEW e \in Dir, <<x, e>> \in S,
           \A g \in Floor :
              /\ <<g, "up">> \in S => Ahead(m, <<x, e>>) <= Ahead(m, <<g, "up">>)
              /\ <<g, "down">> \in S => Ahead(m, <<x, e>>) <= Ahead(m, <<g, "down">>)
    PROVE  Nearest(At(x, e), m, S)
<1>1. At(x, e).floor = x /\ At(x, e).dir = e
  BY DEF At
<1>2. \A o \in S : Ahead(m, <<x, e>>) <= Ahead(m, o)
  <2> TAKE o \in S
  <2>1. PICK g \in Floor : o = <<g, "up">> \/ o = <<g, "down">>
    BY CellCases
  <2> QED BY <2>1
<1>3. IsNearest(<<x, e>>, m, S)
  BY <1>2 DEF IsNearest
<1> QED BY <1>1, <1>3 DEF Nearest

\* Going up, the search returns the nearest order.
LEMMA GoingUpFindsNearest ==
    ASSUME NEW m \in OrderMessage, m.dir = "up", NEW S \in SUBSET Cell, S # {}
    PROVE  Nearest(ClosestGoingUp(m.floor, S), m, S)
<1> DEFINE f == m.floor
           a == FirstUp(f + 1, Top, S)
           b == FirstDown(Top, f + 1, S)
           c == FirstDown(f, 0, S)
           d == FirstUp(0, f, S)
<1>0. /\ f \in Nat /\ f <= Top /\ Top \in Nat /\ NumFloors = Top + 1
      /\ \A g : g \in Floor <=> g \in Nat /\ g <= Top
      /\ f + 1 \in Nat /\ f \in Int /\ Top \in Int /\ 0 \in Nat
  BY TwoFloors DEF OrderMessage, Floor, Top
<1>1. /\ \A g \in Floor : Ahead(m, <<g, "down">>) = 2 * NumFloors - 2 - g - f
      /\ \A g \in Floor : Ahead(m, <<g, "up">>) =
            IF g > f THEN g - f - 1 ELSE 2 * NumFloors + g - f - 1
  BY AheadGoingUp
<1>2. \A o \in S : \E g \in Floor : o = <<g, "up">> \/ o = <<g, "down">>
  BY CellCases
<1>a. \/ a = NotFound /\ \A g \in f + 1 .. Top : <<g, "up">> \notin S
      \/ \E x \in f + 1 .. Top : /\ a = At(x, "up") /\ <<x, "up">> \in S
                                 /\ \A g \in f + 1 .. Top : <<g, "up">> \in S => x <= g
  BY <1>0, FirstUpFinds
<1>b. \/ b = NotFound /\ \A g \in f + 1 .. Top : <<g, "down">> \notin S
      \/ \E x \in f + 1 .. Top : /\ b = At(x, "down") /\ <<x, "down">> \in S
                                 /\ \A g \in f + 1 .. Top : <<g, "down">> \in S => x >= g
  BY <1>0, FirstDownFinds
<1>c. \/ c = NotFound /\ \A g \in 0 .. f : <<g, "down">> \notin S
      \/ \E x \in 0 .. f : /\ c = At(x, "down") /\ <<x, "down">> \in S
                           /\ \A g \in 0 .. f : <<g, "down">> \in S => x >= g
  BY <1>0, FirstDownFinds
<1>d. \/ d = NotFound /\ \A g \in 0 .. f : <<g, "up">> \notin S
      \/ \E x \in 0 .. f : /\ d = At(x, "up") /\ <<x, "up">> \in S
                           /\ \A g \in 0 .. f : <<g, "up">> \in S => x <= g
  BY <1>0, FirstUpFinds
<1>3. ClosestGoingUp(f, S) = Else(a, Else(b, Else(c, d)))
  BY DEF ClosestGoingUp
<1> HIDE DEF a, b, c, d
<1>4. ~Found(NotFound)
  BY DEF Found, NotFound, At
<1>5. \A x, y : Found(At(x, "up")) /\ Found(At(x, "down"))
  BY DEF Found, At
<1>6. CASE a # NotFound
  <2>1. PICK x \in f + 1 .. Top : /\ a = At(x, "up") /\ <<x, "up">> \in S
                                  /\ \A g \in f + 1 .. Top : <<g, "up">> \in S => x <= g
    BY <1>a, <1>6
  <2>2. ClosestGoingUp(f, S) = At(x, "up")
    BY <1>3, <1>5, <2>1 DEF Else
  <2>3. x \in Floor /\ x > f
    BY <1>0, <2>1
  <2>4. ASSUME NEW g \in Floor
        PROVE  /\ <<g, "up">> \in S => Ahead(m, <<x, "up">>) <= Ahead(m, <<g, "up">>)
               /\ Ahead(m, <<x, "up">>) <= Ahead(m, <<g, "down">>)
    BY <1>0, <1>1, <2>1, <2>3
  <2>n. "up" \in Dir /\ "down" \in Dir
    BY DEF Dir
  <2> QED BY <2>1, <2>2, <2>3, <2>4, <2>n, NearestByCells
<1>7. CASE a = NotFound /\ b # NotFound
  <2>1. PICK x \in f + 1 .. Top : /\ b = At(x, "down") /\ <<x, "down">> \in S
                                  /\ \A g \in f + 1 .. Top : <<g, "down">> \in S => x >= g
    BY <1>b, <1>7
  <2>2. ClosestGoingUp(f, S) = At(x, "down")
    BY <1>3, <1>4, <1>5, <1>7, <2>1 DEF Else
  <2>3. x \in Floor /\ x > f
    BY <1>0, <2>1
  <2>4. \A g \in f + 1 .. Top : <<g, "up">> \notin S
    BY <1>a, <1>5, <1>4, <1>7
  <2>5. ASSUME NEW g \in Floor
        PROVE  /\ <<g, "up">> \in S => Ahead(m, <<x, "down">>) <= Ahead(m, <<g, "up">>)
               /\ <<g, "down">> \in S => Ahead(m, <<x, "down">>) <= Ahead(m, <<g, "down">>)
    BY <1>0, <1>1, <2>1, <2>3, <2>4
  <2>n. "up" \in Dir /\ "down" \in Dir
    BY DEF Dir
  <2> QED BY <2>1, <2>2, <2>3, <2>5, <2>n, NearestByCells
<1>8. CASE a = NotFound /\ b = NotFound /\ c # NotFound
  <2>1. PICK x \in 0 .. f : /\ c = At(x, "down") /\ <<x, "down">> \in S
                            /\ \A g \in 0 .. f : <<g, "down">> \in S => x >= g
    BY <1>c, <1>8
  <2>2. ClosestGoingUp(f, S) = At(x, "down")
    BY <1>3, <1>4, <1>5, <1>8, <2>1 DEF Else
  <2>3. x \in Floor /\ x <= f
    BY <1>0, <2>1
  <2>4. \A g \in f + 1 .. Top : <<g, "up">> \notin S /\ <<g, "down">> \notin S
    BY <1>a, <1>b, <1>5, <1>4, <1>8
  <2>5. ASSUME NEW g \in Floor
        PROVE  /\ <<g, "up">> \in S => Ahead(m, <<x, "down">>) <= Ahead(m, <<g, "up">>)
               /\ <<g, "down">> \in S => Ahead(m, <<x, "down">>) <= Ahead(m, <<g, "down">>)
    BY <1>0, <1>1, <2>1, <2>3, <2>4
  <2>n. "up" \in Dir /\ "down" \in Dir
    BY DEF Dir
  <2> QED BY <2>1, <2>2, <2>3, <2>5, <2>n, NearestByCells
<1>9. CASE a = NotFound /\ b = NotFound /\ c = NotFound
  <2>1. /\ \A g \in f + 1 .. Top : <<g, "up">> \notin S /\ <<g, "down">> \notin S
        /\ \A g \in 0 .. f : <<g, "down">> \notin S
    BY <1>a, <1>b, <1>c, <1>5, <1>4, <1>9
  <2>2. \E g \in 0 .. f : <<g, "up">> \in S
    <3>1. PICK o \in S : TRUE
      OBVIOUS
    <3>2. PICK g \in Floor : o = <<g, "up">> \/ o = <<g, "down">>
      BY <1>2
    <3>3. g \in 0 .. f \/ g \in f + 1 .. Top
      BY <1>0
    <3> QED BY <2>1, <3>1, <3>2, <3>3
  <2>3. PICK x \in 0 .. f : /\ d = At(x, "up") /\ <<x, "up">> \in S
                            /\ \A g \in 0 .. f : <<g, "up">> \in S => x <= g
    BY <1>d, <2>2
  <2>4. ClosestGoingUp(f, S) = At(x, "up")
    BY <1>3, <1>4, <1>9, <2>3 DEF Else
  <2>5. x \in Floor /\ x <= f
    BY <1>0, <2>3
  <2>6. ASSUME NEW g \in Floor
        PROVE  /\ <<g, "up">> \in S => Ahead(m, <<x, "up">>) <= Ahead(m, <<g, "up">>)
               /\ <<g, "down">> \notin S
    BY <1>0, <1>1, <2>1, <2>3, <2>5
  <2>n. "up" \in Dir /\ "down" \in Dir
    BY DEF Dir
  <2> QED BY <2>3, <2>4, <2>5, <2>6, <2>n, NearestByCells
<1> QED BY <1>6, <1>7, <1>8, <1>9

\* Going down, or standing, it does so too.
LEMMA GoingDownFindsNearest ==
    ASSUME NEW m \in OrderMessage, m.dir # "up", NEW S \in SUBSET Cell, S # {}
    PROVE  Nearest(ClosestGoingDown(m.floor, S), m, S)
<1> DEFINE f == m.floor
           a == FirstDown(f - 1, 0, S)
           b == FirstUp(0, f - 1, S)
           c == FirstUp(f, Top, S)
           d == FirstDown(Top, f, S)
<1>0. /\ f \in Nat /\ f <= Top /\ Top \in Nat /\ NumFloors = Top + 1
      /\ \A g : g \in Floor <=> g \in Nat /\ g <= Top
      /\ f - 1 \in Int /\ Top \in Int /\ 0 \in Nat
  BY TwoFloors DEF OrderMessage, Floor, Top
<1>1. /\ \A g \in Floor : Ahead(m, <<g, "up">>) = g + f
      /\ \A g \in Floor : Ahead(m, <<g, "down">>) =
            IF g < f THEN f - g - 1 ELSE 2 * NumFloors + f - g - 1
  BY AheadGoingDown
<1>2. \A o \in S : \E g \in Floor : o = <<g, "up">> \/ o = <<g, "down">>
  BY CellCases
<1>a. \/ a = NotFound /\ \A g \in 0 .. f - 1 : <<g, "down">> \notin S
      \/ \E x \in 0 .. f - 1 : /\ a = At(x, "down") /\ <<x, "down">> \in S
                               /\ \A g \in 0 .. f - 1 : <<g, "down">> \in S => x >= g
  BY <1>0, FirstDownFinds
<1>b. \/ b = NotFound /\ \A g \in 0 .. f - 1 : <<g, "up">> \notin S
      \/ \E x \in 0 .. f - 1 : /\ b = At(x, "up") /\ <<x, "up">> \in S
                               /\ \A g \in 0 .. f - 1 : <<g, "up">> \in S => x <= g
  BY <1>0, FirstUpFinds
<1>c. \/ c = NotFound /\ \A g \in f .. Top : <<g, "up">> \notin S
      \/ \E x \in f .. Top : /\ c = At(x, "up") /\ <<x, "up">> \in S
                             /\ \A g \in f .. Top : <<g, "up">> \in S => x <= g
  BY <1>0, FirstUpFinds
<1>d. \/ d = NotFound /\ \A g \in f .. Top : <<g, "down">> \notin S
      \/ \E x \in f .. Top : /\ d = At(x, "down") /\ <<x, "down">> \in S
                             /\ \A g \in f .. Top : <<g, "down">> \in S => x >= g
  BY <1>0, FirstDownFinds
<1>3. ClosestGoingDown(f, S) = Else(a, Else(b, Else(c, d)))
  BY DEF ClosestGoingDown
<1> HIDE DEF a, b, c, d
<1>4. ~Found(NotFound)
  BY DEF Found, NotFound, At
<1>5. \A x, y : Found(At(x, "up")) /\ Found(At(x, "down"))
  BY DEF Found, At
<1>n. "up" \in Dir /\ "down" \in Dir
  BY DEF Dir
<1>6. CASE a # NotFound
  <2>1. PICK x \in 0 .. f - 1 : /\ a = At(x, "down") /\ <<x, "down">> \in S
                                /\ \A g \in 0 .. f - 1 : <<g, "down">> \in S => x >= g
    BY <1>a, <1>6
  <2>2. ClosestGoingDown(f, S) = At(x, "down")
    BY <1>3, <1>5, <2>1 DEF Else
  <2>3. x \in Floor /\ x < f
    BY <1>0, <2>1
  <2>4. ASSUME NEW g \in Floor
        PROVE  /\ <<g, "up">> \in S => Ahead(m, <<x, "down">>) <= Ahead(m, <<g, "up">>)
               /\ <<g, "down">> \in S => Ahead(m, <<x, "down">>) <= Ahead(m, <<g, "down">>)
    BY <1>0, <1>1, <2>1, <2>3
  <2> QED BY <1>n, <2>1, <2>2, <2>3, <2>4, NearestByCells
<1>7. CASE a = NotFound /\ b # NotFound
  <2>1. PICK x \in 0 .. f - 1 : /\ b = At(x, "up") /\ <<x, "up">> \in S
                                /\ \A g \in 0 .. f - 1 : <<g, "up">> \in S => x <= g
    BY <1>b, <1>7
  <2>2. ClosestGoingDown(f, S) = At(x, "up")
    BY <1>3, <1>4, <1>5, <1>7, <2>1 DEF Else
  <2>3. x \in Floor /\ x < f
    BY <1>0, <2>1
  <2>4. \A g \in 0 .. f - 1 : <<g, "down">> \notin S
    BY <1>a, <1>5, <1>4, <1>7
  <2>5. ASSUME NEW g \in Floor
        PROVE  /\ <<g, "up">> \in S => Ahead(m, <<x, "up">>) <= Ahead(m, <<g, "up">>)
               /\ <<g, "down">> \in S => Ahead(m, <<x, "up">>) <= Ahead(m, <<g, "down">>)
    BY <1>0, <1>1, <2>1, <2>3, <2>4
  <2> QED BY <1>n, <2>1, <2>2, <2>3, <2>5, NearestByCells
<1>8. CASE a = NotFound /\ b = NotFound /\ c # NotFound
  <2>1. PICK x \in f .. Top : /\ c = At(x, "up") /\ <<x, "up">> \in S
                              /\ \A g \in f .. Top : <<g, "up">> \in S => x <= g
    BY <1>c, <1>8
  <2>2. ClosestGoingDown(f, S) = At(x, "up")
    BY <1>3, <1>4, <1>5, <1>8, <2>1 DEF Else
  <2>3. x \in Floor /\ x >= f
    BY <1>0, <2>1
  <2>4. \A g \in 0 .. f - 1 : <<g, "up">> \notin S /\ <<g, "down">> \notin S
    BY <1>a, <1>b, <1>5, <1>4, <1>8
  <2>5. ASSUME NEW g \in Floor
        PROVE  /\ <<g, "up">> \in S => Ahead(m, <<x, "up">>) <= Ahead(m, <<g, "up">>)
               /\ <<g, "down">> \in S => Ahead(m, <<x, "up">>) <= Ahead(m, <<g, "down">>)
    BY <1>0, <1>1, <2>1, <2>3, <2>4
  <2> QED BY <1>n, <2>1, <2>2, <2>3, <2>5, NearestByCells
<1>9. CASE a = NotFound /\ b = NotFound /\ c = NotFound
  <2>1. /\ \A g \in 0 .. f - 1 : <<g, "up">> \notin S /\ <<g, "down">> \notin S
        /\ \A g \in f .. Top : <<g, "up">> \notin S
    BY <1>a, <1>b, <1>c, <1>5, <1>4, <1>9
  <2>2. \E g \in f .. Top : <<g, "down">> \in S
    <3>1. PICK o \in S : TRUE
      OBVIOUS
    <3>2. PICK g \in Floor : o = <<g, "up">> \/ o = <<g, "down">>
      BY <1>2
    <3>3. g \in 0 .. f - 1 \/ g \in f .. Top
      BY <1>0
    <3> QED BY <2>1, <3>1, <3>2, <3>3
  <2>3. PICK x \in f .. Top : /\ d = At(x, "down") /\ <<x, "down">> \in S
                              /\ \A g \in f .. Top : <<g, "down">> \in S => x >= g
    BY <1>d, <2>2
  <2>4. ClosestGoingDown(f, S) = At(x, "down")
    BY <1>3, <1>4, <1>9, <2>3 DEF Else
  <2>5. x \in Floor /\ x >= f
    BY <1>0, <2>3
  <2>6. ASSUME NEW g \in Floor
        PROVE  /\ <<g, "up">> \notin S
               /\ <<g, "down">> \in S => Ahead(m, <<x, "down">>) <= Ahead(m, <<g, "down">>)
    BY <1>0, <1>1, <2>1, <2>3, <2>5
  <2> QED BY <1>n, <2>3, <2>4, <2>5, <2>6, NearestByCells
<1> QED BY <1>6, <1>7, <1>8, <1>9

\* findClosestDestination returns the order that the circle comes to first, for
\* every position, every set of orders and every number of floors.
THEOREM FindsNearest ==
    ASSUME NEW m \in OrderMessage, NEW S \in SUBSET Cell, S # {}
    PROVE  Nearest(FindClosestDestination(m, S), m, S)
BY GoingUpFindsNearest, GoingDownFindsNearest DEF FindClosestDestination

\* What the producer answers is a position of the building, whatever it has heard.
LEMMA NextDestinationType ==
    ASSUME NEW m \in OrderMessage, NEW S \in SUBSET Cell
    PROVE  NextDestination(m, S) \in OrderMessage
<1>1. CASE S = {}
  BY <1>1 DEF NextDestination, OrderMessage, MotorDir, At
<1>2. CASE S # {}
  <2> DEFINE r == FindClosestDestination(m, S)
  <2>1. r.floor \in Floor /\ r.dir \in MotorDir /\ r = At(r.floor, r.dir)
    BY <1>2, FindsNearest DEF Nearest, MotorDir
  <2>2. NextDestination(m, S) = r
    BY <1>2 DEF NextDestination
  <2> HIDE DEF r
  <2> QED BY <2>1, <2>2 DEF At, OrderMessage
<1> QED BY <1>1, <1>2
=============================================================================
