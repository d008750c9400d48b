-------------------------- MODULE HallCall_proofs --------------------------
(***************************************************************************)
(* What a hall call can count on, for every number of nodes and every      *)
(* length of the channels: until the first crash the OrderManagers keep to *)
(* CallLifecycle, and if each node crashes at most once a call that is due *)
(* is known to all that run.                                               *)
(*                                                                         *)
(* The proofs look at one hall call at a time: h[n] is its state at n,     *)
(* k[n][m] its state in the worldview n keeps of m, and q[n] the sequence  *)
(* of the frames on their way to n, each with its sender and the state of  *)
(* the call in it.                                                         *)
(***************************************************************************)
EXTENDS OrderCluster_proofs, CallRefinement

-----------------------------------------------------------------------------
(* The agreement of nodes, memories and frames until a node fails.         *)

\* How far a state v of the call, at m or in a worldview of m, has come: NoCall
\* comes before all others or, once m has cleared the call, after them.
Cleared == 4
Phase(h, stage, m, v) ==
    IF stage = "served" /\ h[m] = NoCall /\ v = NoCall THEN Cleared ELSE v

Frame == [from : Node, state : OrderState]

CellTyped(h, k, q) ==
    /\ h \in [Node -> OrderState]
    /\ k \in [Node -> [Node -> OrderState]]
    /\ q \in [Node -> Seq(Frame)]

\* The stage of the call and the phases P of the nodes.
StageAgrees(P, stage) ==
    /\ stage \in {"none", "open", "due", "served"}
    /\ stage = "none" => \A n \in Node : P[n] = NoCall
    /\ stage = "open" => \A n \in Node : P[n] <= Exist
    /\ stage = "due" => \A n \in Node : P[n] \in {Exist, Acknowledged}
    /\ stage = "served" => \A n \in Node : P[n] >= Exist

\* The phases S[n][m] of what n keeps of m: never ahead of m, and behind n by so
\* much that n can neither move on without m nor clear the call before m.
MemoriesAgree(P, S) ==
    \A n, m \in Node : n # m =>
        /\ S[n][m] <= P[m]
        /\ P[n] >= Acknowledged => S[n][m] >= Exist
        /\ P[n] = Cleared => P[m] >= Complete

\* The phases Q[n][i].phase of the frames on their way to n: not ahead of the sender
\* and, if that is not n, not behind what n keeps of it, in the order they were sent.
\* After a frame of another node that has cleared the call comes no frame of another
\* that waits for its completion.  The own frames of n may be as old as they like.
FramesAgree(P, S, Q) ==
    \A n \in Node : \A i \in DOMAIN Q[n] :
        LET m == Q[n][i].from
        IN  /\ m \in Node /\ Q[n][i].phase <= P[m]
            /\ m # n =>
                  /\ S[n][m] <= Q[n][i].phase
                  /\ P[n] = Cleared => Q[n][i].phase >= Complete
                  /\ \A j \in DOMAIN Q[n] : i < j /\ Q[n][j].from # n =>
                        /\ Q[n][j].from = m => Q[n][i].phase <= Q[n][j].phase
                        /\ Q[n][i].phase = Cleared => Q[n][j].phase >= Complete

\* No frame of another node on its way to n waits for the completion.
FramesDone(Q, n) ==
    \A i \in DOMAIN Q[n] : Q[n][i].from # n => Q[n][i].phase >= Complete

Agree(P, S, Q, stage) ==
    StageAgrees(P, stage) /\ MemoriesAgree(P, S) /\ FramesAgree(P, S, Q)

PhaseTyped(P, S, Q) ==
    /\ P \in [Node -> 0 .. 4]
    /\ S \in [Node -> [Node -> 0 .. 4]]
    /\ \A n \in Node : \A i \in DOMAIN Q[n] : i \in Nat /\ Q[n][i].phase \in 0 .. 4

\* The states of the call as phases; in its own frames a node finds no news.
Phases(h, stage) == [n \in Node |-> Phase(h, stage, n, h[n])]
KeptPhases(h, k, stage) ==
    [n \in Node |-> [m \in Node |->
        IF m = n THEN NoCall ELSE Phase(h, stage, m, k[n][m])]]
FramePhase(h, stage, n, frame) ==
    IF frame.from = n THEN frame.state ELSE Phase(h, stage, frame.from, frame.state)
FramePhases(h, q, stage) ==
    [n \in Node |-> [i \in 1 .. Len(q[n]) |->
        [from |-> q[n][i].from, phase |-> FramePhase(h, stage, n, q[n][i])]]]

Agreed(h, k, q, stage) ==
    Agree(Phases(h, stage), KeptPhases(h, k, stage), FramePhases(h, q, stage), stage)

-----------------------------------------------------------------------------
(* Phases only go up, and under which conditions. *)

\* What has to hold for n to go from phase P[n] to phase x, and the stage to next.
MayClimb(P, S, Q, n, x, stage, next) ==
    /\ x >= P[n]
    /\ P[n] = NoCall /\ x # NoCall => stage = "open"
    /\ P[n] <= Exist /\ x >= Acknowledged => \A m \in Node \ {n} : S[n][m] >= Exist
    /\ P[n] <= Acknowledged /\ x >= Complete => stage \in {"due", "served"}
    /\ P[n] <= Complete /\ x = Cleared =>
          /\ \A m \in Node \ {n} : P[m] >= Complete
          /\ FramesDone(Q, n)
    /\ next = IF stage = "open" /\ x >= Acknowledged THEN "due"
              ELSE IF P[n] <= Acknowledged /\ x >= Complete THEN "served" ELSE stage

\* A node that climbs keeps the agreement.
LEMMA Climb ==
    ASSUME NEW P, NEW S, NEW Q, PhaseTyped(P, S, Q), NEW stage, Agree(P, S, Q, stage),
           NEW n \in Node, NEW x \in 0 .. 4, NEW next, MayClimb(P, S, Q, n, x, stage, next)
    PROVE  Agree([P EXCEPT ![n] = x], S, Q, next)
<1> DEFINE R == [P EXCEPT ![n] = x]
<1> USE StatesAreNumbers DEF Cleared
<1>1. /\ R \in [Node -> 0 .. 4]
      /\ R[n] = x /\ P[n] <= x
      /\ \A m \in Node : m # n => R[m] = P[m]
      /\ \A m \in Node : P[m] <= R[m] /\ P[m] \in 0 .. 4 /\ R[m] \in 0 .. 4
  BY DEF PhaseTyped, MayClimb
<1>2. \A a, b \in Node : S[a][b] \in 0 .. 4
  BY DEF PhaseTyped
<1> HIDE DEF R
<1>3. StageAgrees(R, next)
  <2>1. \A m \in Node : m # n => S[n][m] <= P[m]
    BY DEF Agree, MemoriesAgree
  <2>2. CASE stage = "none"
    BY <1>1, <2>2 DEF MayClimb, Agree, StageAgrees
  <2>3. CASE stage = "open" /\ x >= Acknowledged
    <3>1. x = Acknowledged /\ next = "due" /\ P[n] <= Exist
      BY <1>1, <2>3 DEF MayClimb, Agree, StageAgrees
    <3>2. \A m \in Node : m # n => P[m] = Exist
      BY <1>1, <1>2, <2>1, <2>3, <3>1 DEF MayClimb, Agree, StageAgrees
    <3> QED BY <1>1, <3>1, <3>2 DEF StageAgrees
  <2>4. CASE stage = "open" /\ x < Acknowledged
    <3>1. next = "open"
      BY <2>4 DEF MayClimb
    <3> QED BY <1>1, <2>4, <3>1 DEF Agree, StageAgrees
  <2>5. CASE stage = "due"
    <3>1. \A m \in Node : P[m] \in {Exist, Acknowledged}
      BY <2>5 DEF Agree, StageAgrees
    <3>2. next = IF x >= Complete THEN "served" ELSE "due"
      BY <2>5, <3>1 DEF MayClimb
    <3> QED BY <1>1, <3>1, <3>2 DEF StageAgrees
  <2>6. CASE stage = "served"
    <3>1. next = "served"
      BY <2>6 DEF MayClimb
    <3> QED BY <1>1, <2>6, <3>1 DEF Agree, StageAgrees
  <2> QED BY <1>1, <2>2, <2>3, <2>4, <2>5, <2>6 DEF Agree, StageAgrees
<1>4. MemoriesAgree(R, S)
  BY <1>1, <1>2 DEF MayClimb, Agree, MemoriesAgree
<1>5. FramesAgree(R, S, Q)
  <2> SUFFICES ASSUME NEW a \in Node, NEW i \in DOMAIN Q[a]
               PROVE  LET m == Q[a][i].from
                      IN  /\ m \in Node /\ Q[a][i].phase <= R[m]
                          /\ m # a =>
                                /\ S[a][m] <= Q[a][i].phase
                                /\ R[a] = Cleared => Q[a][i].phase >= Complete
                                /\ \A j \in DOMAIN Q[a] : i < j /\ Q[a][j].from # a =>
                                      /\ Q[a][j].from = m => Q[a][i].phase <= Q[a][j].phase
                                      /\ Q[a][i].phase = Cleared => Q[a][j].phase >= Complete
    BY DEF FramesAgree
  <2> DEFINE m == Q[a][i].from
  <2>1. /\ m \in Node /\ Q[a][i].phase <= P[m]
        /\ m # a =>
              /\ S[a][m] <= Q[a][i].phase
              /\ P[a] = Cleared => Q[a][i].phase >= Complete
              /\ \A j \in DOMAIN Q[a] : i < j /\ Q[a][j].from # a =>
                    /\ Q[a][j].from = m => Q[a][i].phase <= Q[a][j].phase
                    /\ Q[a][i].phase = Cleared => Q[a][j].phase >= Complete
    BY DEF Agree, FramesAgree
  <2>2. Q[a][i].phase \in 0 .. 4
    BY DEF PhaseTyped
  <2>3. Q[a][i].phase <= R[m]
    BY <1>1, <2>1, <2>2
  <2>4. m # a /\ R[a] = Cleared => Q[a][i].phase >= Complete
    BY <1>1, <2>1 DEF MayClimb, FramesDone
  <2> QED BY <2>1, <2>3, <2>4
<1> QED BY <1>3, <1>4, <1>5 DEF Agree, R

\* The phases are numbers.
LEMMA PhasesTyped ==
    ASSUME NEW h, NEW k, NEW q, CellTyped(h, k, q), NEW stage
    PROVE  /\ \A m \in Node, v \in OrderState : Phase(h, stage, m, v) \in 0 .. 4
           /\ \A n \in Node : \A i \in 1 .. Len(q[n]) : q[n][i] \in Frame
           /\ PhaseTyped(Phases(h, stage), KeptPhases(h, k, stage), FramePhases(h, q, stage))
<1> USE StatesAreNumbers DEF Cleared
<1>1. \A m \in Node, v \in OrderState : Phase(h, stage, m, v) \in 0 .. 4
  BY DEF Phase
<1>2. \A n \in Node : \A i \in 1 .. Len(q[n]) : q[n][i] \in Frame /\ i \in Nat
  BY DEF CellTyped
<1>3. Phases(h, stage) \in [Node -> 0 .. 4]
  BY <1>1 DEF Phases, CellTyped
<1>4. KeptPhases(h, k, stage) \in [Node -> [Node -> 0 .. 4]]
  <2>1. \A n \in Node : [m \in Node |-> IF m = n THEN NoCall ELSE Phase(h, stage, m, k[n][m])]
                           \in [Node -> 0 .. 4]
    <3> SUFFICES ASSUME NEW n \in Node, NEW m \in Node
                 PROVE  (IF m = n THEN NoCall ELSE Phase(h, stage, m, k[n][m])) \in 0 .. 4
      OBVIOUS
    <3>1. k[n][m] \in OrderState
      BY DEF CellTyped
    <3> QED BY <1>1, <3>1
  <2> QED BY <2>1, Zenon DEF KeptPhases
<1>5. \A n \in Node : \A i \in DOMAIN FramePhases(h, q, stage)[n] :
         i \in Nat /\ FramePhases(h, q, stage)[n][i].phase \in 0 .. 4
  <2> SUFFICES ASSUME NEW n \in Node, NEW i \in 1 .. Len(q[n])
               PROVE  i \in Nat /\ FramePhase(h, stage, n, q[n][i]) \in 0 .. 4
    BY DEF FramePhases
  <2>1. i \in Nat /\ q[n][i].from \in Node /\ q[n][i].state \in OrderState
    BY <1>2 DEF Frame
  <2> QED BY <1>1, <2>1 DEF FramePhase
<1> QED BY <1>1, <1>2, <1>3, <1>4, <1>5 DEF PhaseTyped

\* When n goes from h[n] to g[n] and thereby climbs, every other phase stays what
\* it is, and the agreement is kept.
LEMMA Carry ==
    ASSUME NEW h, NEW k, NEW q, CellTyped(h, k, q), NEW g \in [Node -> OrderState],
           NEW stage, NEW next, NEW n \in Node,
           \A m \in Node : m # n => g[m] = h[m],
           Agreed(h, k, q, stage),
           MayClimb(Phases(h, stage), KeptPhases(h, k, stage), FramePhases(h, q, stage),
                    n, Phase(g, next, n, g[n]), stage, next)
    PROVE  Agreed(g, k, q, next)
<1> DEFINE P == Phases(h, stage)
           S == KeptPhases(h, k, stage)
           Q == FramePhases(h, q, stage)
           x == Phase(g, next, n, g[n])
<1> USE StatesAreNumbers
<1>1. /\ PhaseTyped(P, S, Q)
      /\ \A a \in Node : \A i \in 1 .. Len(q[a]) : q[a][i] \in Frame
  BY PhasesTyped
<1>2. /\ x \in 0 .. 4 /\ g[n] \in OrderState
      /\ \A m \in Node : h[m] \in OrderState
      /\ \A a, m \in Node : k[a][m] \in OrderState
  BY DEF Phase, Cleared, CellTyped
<1>3. /\ \A m \in Node : P[m] = Phase(h, stage, m, h[m])
      /\ \A a, m \in Node : a # m => S[a][m] = Phase(h, stage, m, k[a][m])
      /\ \A a \in Node : /\ DOMAIN Q[a] = 1 .. Len(q[a])
                         /\ \A i \in 1 .. Len(q[a]) :
                               /\ Q[a][i].from = q[a][i].from
                               /\ Q[a][i].phase = FramePhase(h, stage, a, q[a][i])
  BY DEF Phases, KeptPhases, FramePhases
<1>4. StageAgrees(P, stage) /\ MemoriesAgree(P, S) /\ FramesAgree(P, S, Q)
  BY DEF Agreed, Agree
<1>5. MayClimb(P, S, Q, n, x, stage, next)
  OBVIOUS
<1> HIDE DEF P, S, Q, x
<1>6. \A m \in Node \ {n} : \A v \in OrderState : Phase(g, next, m, v) = Phase(h, stage, m, v)
  <2> SUFFICES ASSUME NEW m \in Node \ {n} 
               PROVE  h[m] = NoCall => (next = "served" <=> stage = "served")
    BY DEF Phase
  <2>1. stage # "served" /\ next = "served" => stage = "due"
    BY <1>5 DEF MayClimb
  <2>2. stage = "due" => h[m] # NoCall
    BY <1>3, <1>4 DEF StageAgrees, Phase
  <2>3. stage = "served" => next = "served"
    BY <1>5 DEF MayClimb
  <2> QED BY <2>1, <2>2, <2>3
<1>7. \/ \A v \in OrderState : Phase(g, next, n, v) = Phase(h, stage, n, v)
      \/ /\ \A v \in OrderState : Phase(h, stage, n, v) = v
         /\ \A m \in Node \ {n} : P[m] >= Complete
  <2>1. CASE P[n] = Cleared
    <3>1. stage = "served" /\ h[n] = NoCall
      BY <1>2, <1>3, <2>1 DEF Phase, Cleared
    <3>2. x = Cleared
      BY <1>2, <1>5, <2>1 DEF MayClimb, Cleared
    <3>3. next = "served" /\ g[n] = NoCall
      BY <1>2, <3>2 DEF x, Phase, Cleared
    <3> QED BY <3>1, <3>3 DEF Phase
  <2>2. CASE P[n] # Cleared /\ x = Cleared
    <3>1. P[n] <= Complete
      BY <1>1, <2>2 DEF PhaseTyped, Cleared
    <3>2. \A v \in OrderState : Phase(h, stage, n, v) = v
      BY <1>3, <2>2 DEF Phase
    <3> QED BY <1>5, <2>2, <3>1, <3>2 DEF MayClimb
  <2>3. CASE P[n] # Cleared /\ x # Cleared
    <3>1. ~(stage = "served" /\ h[n] = NoCall)
      BY <1>3, <2>3 DEF Phase
    <3>2. ~(next = "served" /\ g[n] = NoCall)
      BY <2>3 DEF x, Phase
    <3> QED BY <3>1, <3>2 DEF Phase
  <2> QED BY <2>1, <2>2, <2>3
<1>8. \A m \in Node, v \in OrderState : v # NoCall => Phase(g, next, m, v) = v
  BY DEF Phase
<1>9. \A a \in Node \ {n} : Phase(g, next, n, k[a][n]) = Phase(h, stage, n, k[a][n])
  <2> SUFFICES ASSUME NEW a \in Node \ {n}, P[a] >= Complete,
                      Phase(h, stage, n, k[a][n]) = k[a][n]
               PROVE  Phase(g, next, n, k[a][n]) = k[a][n]
    BY <1>2, <1>7
  <2>1. P[a] >= Acknowledged
    BY <1>1 DEF PhaseTyped
  <2>2. S[a][n] >= Exist
    BY <1>4, <2>1 DEF MemoriesAgree
  <2> QED BY <1>2, <1>3, <1>8, <2>2
<1>10. \A a \in Node : \A i \in 1 .. Len(q[a]) :
          FramePhase(g, next, a, q[a][i]) = FramePhase(h, stage, a, q[a][i])
  <2> SUFFICES ASSUME NEW a \in Node, NEW i \in 1 .. Len(q[a]), q[a][i].from # a
               PROVE  LET m == q[a][i].from
                      IN  Phase(g, next, m, q[a][i].state) = Phase(h, stage, m, q[a][i].state)
    BY DEF FramePhase
  <2>1. q[a][i].from \in Node /\ q[a][i].state \in OrderState
    BY <1>1 DEF Frame
  <2>2. CASE q[a][i].from # n
    BY <1>6, <2>1, <2>2
  <2>3. CASE q[a][i].from = n
    <3>1. /\ a # n /\ S[a][n] <= Q[a][i].phase
          /\ Q[a][i].phase = Phase(h, stage, n, q[a][i].state)
      BY <1>3, <1>4, <2>3 DEF FramesAgree, FramePhase
    <3> SUFFICES ASSUME P[a] >= Complete, Phase(h, stage, n, q[a][i].state) = q[a][i].state
                 PROVE  Phase(g, next, n, q[a][i].state) = q[a][i].state
      BY <1>7, <2>1, <2>3, <3>1
    <3>2. S[a][n] >= Exist /\ S[a][n] \in 0 .. 4
      <4>1. P[a] >= Acknowledged /\ S[a][n] \in 0 .. 4
        BY <1>1 DEF PhaseTyped
      <4> QED BY <1>4, <3>1, <4>1 DEF MemoriesAgree
    <3>3. q[a][i].state >= Exist
      BY <2>1, <3>1, <3>2
    <3> QED BY <1>8, <2>1, <3>3
  <2> QED BY <2>2, <2>3
<1>11. Phases(g, next) = [P EXCEPT ![n] = x]
  <2>1. \A m \in Node : Phase(g, next, m, g[m]) = IF m = n THEN x ELSE P[m]
    <3>1. \A m \in Node \ {n} : Phase(g, next, m, g[m]) = P[m]
      <4> SUFFICES ASSUME NEW m \in Node \ {n} PROVE Phase(g, next, m, g[m]) = P[m]
        OBVIOUS
      <4>1. Phase(g, next, m, h[m]) = Phase(h, stage, m, h[m])
        BY <1>2, <1>6
      <4> QED BY <1>3, <4>1
    <3> QED BY <3>1, Zenon DEF x
  <2>2. P = [m \in Node |-> P[m]]
    BY <1>1 DEF PhaseTyped
  <2> QED BY <2>1, <2>2 DEF Phases
<1>12. KeptPhases(g, k, next) = S
  <2>1. \A a, m \in Node :
           a # m => Phase(g, next, m, k[a][m]) = Phase(h, stage, m, k[a][m])
    BY <1>2, <1>6, <1>9
  <2> QED BY <2>1, Zenon DEF S, KeptPhases
<1>13. FramePhases(g, q, next) = Q
  BY <1>10, Zenon DEF Q, FramePhases
<1>14. Agree([P EXCEPT ![n] = x], S, Q, next)
  BY <1>1, <1>2, <1>4, <1>5, Climb DEF Agree
<1> QED BY <1>11, <1>12, <1>13, <1>14 DEF Agreed

\* In k1, unlike k, n keeps the state v of from, unless that is n itself.
Remembers(k, k1, n, from, v) ==
    \A a, m \in Node : k1[a][m] = IF a = n /\ m = from /\ m # n THEN v ELSE k[a][m]

\* The agreement with k1 and q1 once n has taken the frame from, v off its queue,
\* and what it says of that frame.
Taken(h, k1, q1, stage, n, from, v) ==
    /\ CellTyped(h, k1, q1)
    /\ Agreed(h, k1, q1, stage)
    /\ v \in OrderState
    /\ from = n => v <= Phases(h, stage)[n]
    /\ from # n =>
          /\ Phases(h, stage)[n] = Cleared => Phase(h, stage, from, v) >= Complete
          /\ Phase(h, stage, from, v) = Cleared => FramesDone(FramePhases(h, q1, stage), n)

\* n takes the first frame of its queue: it keeps that frame's state of the sender.
LEMMA TakeFrame ==
    ASSUME NEW h, NEW k, NEW q, CellTyped(h, k, q), NEW stage, Agreed(h, k, q, stage),
           NEW n \in Node, Len(q[n]) > 0,
           NEW k1 \in [Node -> [Node -> OrderState]],
           Remembers(k, k1, n, q[n][1].from, q[n][1].state)
    PROVE  Taken(h, k1, [q EXCEPT ![n] = Tail(q[n])], stage, n, q[n][1].from, q[n][1].state)
<1> DEFINE q1 == [q EXCEPT ![n] = Tail(q[n])]
           P == Phases(h, stage)
           S == KeptPhases(h, k, stage)
           Q == FramePhases(h, q, stage)
           S1 == KeptPhases(h, k1, stage)
           Q1 == FramePhases(h, q1, stage)
           from == q[n][1].from
<1>1. /\ q \in [Node -> Seq(Frame)] /\ q[n] \in Seq(Frame)
      /\ Tail(q[n]) \in Seq(Frame) /\ Len(Tail(q[n])) = Len(q[n]) - 1
      /\ \A i \in 1 .. Len(q[n]) - 1 : i + 1 \in 1 .. Len(q[n]) /\ Tail(q[n])[i] = q[n][i + 1]
      /\ Len(q[n]) \in Nat /\ 1 \in 1 .. Len(q[n])
  BY DEF CellTyped
<1>2. /\ q1 \in [Node -> Seq(Frame)] /\ q1[n] = Tail(q[n])
      /\ \A a \in Node : a # n => q1[a] = q[a]
  BY <1>1
<1>3. CellTyped(h, k1, q1)
  BY <1>2 DEF CellTyped
<1>4. PhaseTyped(P, S, Q) /\ PhaseTyped(P, S1, Q1) /\ q[n][1] \in Frame
  BY <1>1, <1>3, PhasesTyped
<1>5. StageAgrees(P, stage) /\ MemoriesAgree(P, S) /\ FramesAgree(P, S, Q)
  BY DEF Agreed, Agree
<1>6. /\ \A a \in Node : /\ DOMAIN Q[a] = 1 .. Len(q[a])
                         /\ DOMAIN Q1[a] = 1 .. Len(q1[a])
      /\ \A a \in Node : a # n => Q1[a] = Q[a]
      /\ \A i \in DOMAIN Q1[n] : i + 1 \in DOMAIN Q[n] /\ i + 1 > 1 /\ Q1[n][i] = Q[n][i + 1]
      /\ 1 \in DOMAIN Q[n] /\ Q[n][1].from = from
      /\ Q[n][1].phase = FramePhase(h, stage, n, q[n][1])
  <2>1. /\ \A a \in Node : DOMAIN Q[a] = 1 .. Len(q[a]) /\ DOMAIN Q1[a] = 1 .. Len(q1[a])
        /\ \A a \in Node : \A i \in 1 .. Len(q[a]) :
              Q[a][i] = [from |-> q[a][i].from,
                         phase |-> FramePhase(h, stage, a, q[a][i])]
        /\ \A a \in Node : \A i \in 1 .. Len(q1[a]) :
              Q1[a][i] = [from |-> q1[a][i].from,
                          phase |-> FramePhase(h, stage, a, q1[a][i])]
    BY DEF FramePhases
  <2>2. \A a \in Node : a # n => Q1[a] = Q[a]
    BY <1>2, Zenon DEF FramePhases
  <2> HIDE DEF Q, Q1, q1
  <2>3. \A i \in DOMAIN Q1[n] : i + 1 \in DOMAIN Q[n] /\ i + 1 > 1 /\ Q1[n][i] = Q[n][i + 1]
    <3> SUFFICES ASSUME NEW i \in DOMAIN Q1[n]
                 PROVE  i + 1 \in DOMAIN Q[n] /\ i + 1 > 1 /\ Q1[n][i] = Q[n][i + 1]
      OBVIOUS
    <3>1. i \in 1 .. Len(q[n]) - 1 /\ i \in 1 .. Len(q1[n])
      BY <1>1, <1>2, <2>1
    <3>2. i + 1 \in 1 .. Len(q[n]) /\ i + 1 > 1 /\ q1[n][i] = q[n][i + 1]
      BY <1>1, <1>2, <3>1
    <3>3. /\ Q1[n][i] = [from |-> q1[n][i].from,
                         phase |-> FramePhase(h, stage, n, q1[n][i])]
          /\ Q[n][i + 1] = [from |-> q[n][i + 1].from,
                            phase |-> FramePhase(h, stage, n, q[n][i + 1])]
      BY <2>1, <3>1, <3>2, Zenon
    <3> QED BY <2>1, <3>2, <3>3, Zenon
  <2>4. /\ 1 \in DOMAIN Q[n] /\ Q[n][1].from = from
        /\ Q[n][1].phase = FramePhase(h, stage, n, q[n][1])
    <3>1. Q[n][1] = [from |-> q[n][1].from,
                     phase |-> FramePhase(h, stage, n, q[n][1])]
      BY <1>1, <2>1, Zenon
    <3> QED BY <1>1, <2>1, <3>1
  <2> QED BY <2>1, <2>2, <2>3, <2>4
<1>7. /\ from \in Node
      /\ Q[n][1].phase = IF from = n THEN q[n][1].state ELSE Phase(h, stage, from, q[n][1].state)
  BY <1>5, <1>6 DEF FramesAgree, FramePhase
<1>8. \A a, m \in Node :
         S1[a][m] = IF a = n /\ m = from /\ m # n THEN Q[n][1].phase ELSE S[a][m]
  BY <1>6, <1>7 DEF KeptPhases, Remembers
<1> HIDE DEF q1, P, S, Q, S1, Q1, from
<1>9. \A a, m \in Node : S[a][m] \in 0 .. 4 /\ P[m] \in 0 .. 4 /\ Q[n][1].phase \in 0 .. 4
  BY <1>4, <1>6 DEF PhaseTyped
<1>10. /\ Q[n][1].phase <= P[from]
       /\ from # n =>
             /\ S[n][from] <= Q[n][1].phase
             /\ P[n] = Cleared => Q[n][1].phase >= Complete
             /\ \A j \in DOMAIN Q[n] : j > 1 /\ Q[n][j].from # n =>
                   /\ Q[n][j].from = from => Q[n][1].phase <= Q[n][j].phase
                   /\ Q[n][1].phase = Cleared => Q[n][j].phase >= Complete
  BY <1>5, <1>6 DEF FramesAgree
<1>11. MemoriesAgree(P, S1)
  BY <1>5, <1>8, <1>9, <1>10, StatesAreNumbers DEF MemoriesAgree
<1>12. FramesAgree(P, S1, Q1)
  <2> SUFFICES ASSUME NEW a \in Node, NEW i \in DOMAIN Q1[a]
               PROVE  LET m == Q1[a][i].from
                      IN  /\ m \in Node /\ Q1[a][i].phase <= P[m]
                          /\ m # a =>
                                /\ S1[a][m] <= Q1[a][i].phase
                                /\ P[a] = Cleared => Q1[a][i].phase >= Complete
                                /\ \A j \in DOMAIN Q1[a] : i < j /\ Q1[a][j].from # a =>
                                      /\ Q1[a][j].from = m => Q1[a][i].phase <= Q1[a][j].phase
                                      /\ Q1[a][i].phase = Cleared => Q1[a][j].phase >= Complete
    BY DEF FramesAgree
  <2> DEFINE m == Q1[a][i].from
  <2>1. CASE a # n
    <3>1. Q1[a] = Q[a] /\ \A b \in Node : S1[a][b] = S[a][b]
      BY <1>6, <1>8, <2>1
    <3>2. /\ m \in Node /\ Q[a][i].phase <= P[m]
          /\ m # a =>
                /\ S[a][m] <= Q[a][i].phase
                /\ P[a] = Cleared => Q[a][i].phase >= Complete
                /\ \A j \in DOMAIN Q[a] : i < j /\ Q[a][j].from # a =>
                      /\ Q[a][j].from = m => Q[a][i].phase <= Q[a][j].phase
                      /\ Q[a][i].phase = Cleared => Q[a][j].phase >= Complete
      BY <1>5, <3>1 DEF FramesAgree
    <3> HIDE DEF m
    <3>3. S1[a][m] = S[a][m]
      BY <3>1, <3>2
    <3> QED BY <3>1, <3>2, <3>3 DEF m
  <2>2. CASE a = n
    <3>1. i + 1 \in DOMAIN Q[n] /\ Q1[n][i] = Q[n][i + 1] /\ i + 1 > 1
      BY <1>6, <2>2
    <3>2. /\ m \in Node /\ Q1[n][i].phase <= P[m]
          /\ m # n =>
                /\ S[n][m] <= Q1[n][i].phase
                /\ P[n] = Cleared => Q1[n][i].phase >= Complete
                /\ \A j \in DOMAIN Q[n] : i + 1 < j /\ Q[n][j].from # n =>
                      /\ Q[n][j].from = m => Q1[n][i].phase <= Q[n][j].phase
                      /\ Q1[n][i].phase = Cleared => Q[n][j].phase >= Complete
      BY <1>5, <2>2, <3>1 DEF FramesAgree
    <3>3. m # n => S1[n][m] <= Q1[n][i].phase
      BY <1>8, <1>10, <2>2, <3>1, <3>2
    <3>4. ASSUME NEW j \in DOMAIN Q1[n], i < j, m # n, Q1[n][j].from # n
          PROVE  /\ Q1[n][j].from = m => Q1[n][i].phase <= Q1[n][j].phase
                 /\ Q1[n][i].phase = Cleared => Q1[n][j].phase >= Complete
      <4>1. j + 1 \in DOMAIN Q[n] /\ Q1[n][j] = Q[n][j + 1] /\ i + 1 < j + 1
        <5>1. i \in Nat /\ j \in Nat
          BY <1>4, <2>2 DEF PhaseTyped
        <5> QED BY <1>6, <3>4, <5>1
      <4> QED BY <3>2, <3>4, <4>1
    <3> HIDE DEF m
    <3>5. /\ m \in Node /\ Q1[n][i].phase <= P[m]
          /\ m # n =>
                /\ S1[n][m] <= Q1[n][i].phase
                /\ P[n] = Cleared => Q1[n][i].phase >= Complete
                /\ \A j \in DOMAIN Q1[n] : i < j /\ Q1[n][j].from # n =>
                      /\ Q1[n][j].from = m => Q1[n][i].phase <= Q1[n][j].phase
                      /\ Q1[n][i].phase = Cleared => Q1[n][j].phase >= Complete
      BY <3>2, <3>3, <3>4
    <3> QED BY <2>2, <3>5 DEF m
  <2> QED BY <2>1, <2>2
<1>13. Agreed(h, k1, q1, stage)
  BY <1>5, <1>11, <1>12 DEF Agreed, Agree, P, S1, Q1
<1>14. q[n][1].state \in OrderState
  BY <1>4 DEF Frame
<1>15. CASE from = n
  <2>1. q[n][1].state <= P[n]
    BY <1>7, <1>10, <1>15
  <2> QED BY <1>3, <1>13, <1>14, <1>15, <2>1 DEF Taken, q1, P, from
<1>16. CASE from # n
  <2>1. Phase(h, stage, from, q[n][1].state) = Q[n][1].phase
    BY <1>7, <1>16
  <2>2. Q[n][1].phase = Cleared => FramesDone(Q1, n)
    BY <1>6, <1>10, <1>16 DEF FramesDone
  <2>3. P[n] = Cleared => Q[n][1].phase >= Complete
    BY <1>10, <1>16
  <2> QED BY <1>3, <1>13, <1>14, <1>16, <2>1, <2>2, <2>3 DEF Taken, q1, P, Q1, from
<1> QED BY <1>15, <1>16

\* n sends its state to some of the nodes, itself perhaps among them.
LEMMA SendFrame ==
    ASSUME NEW h, NEW k, NEW q, CellTyped(h, k, q), NEW stage, Agreed(h, k, q, stage),
           NEW n \in Node, NEW receivers \in SUBSET Node,
           NEW q1, q1 = [r \in Node |-> IF r \in receivers
                                        THEN Append(q[r], [from |-> n, state |-> h[n]])
                                        ELSE q[r]]
    PROVE  CellTyped(h, k, q1) /\ Agreed(h, k, q1, stage)
<1> DEFINE frame == [from |-> n, state |-> h[n]]
           P == Phases(h, stage)
           S == KeptPhases(h, k, stage)
           Q == FramePhases(h, q, stage)
           Q1 == FramePhases(h, q1, stage)
<1>1. /\ frame \in Frame
      /\ \A r \in Node : /\ q[r] \in Seq(Frame)
                         /\ Len(q[r]) \in Nat
                         /\ Append(q[r], frame) \in Seq(Frame)
                         /\ Len(Append(q[r], frame)) = Len(q[r]) + 1
                         /\ \A i \in 1 .. Len(q[r]) : Append(q[r], frame)[i] = q[r][i]
                         /\ Append(q[r], frame)[Len(q[r]) + 1] = frame
  <2>1. frame \in Frame
    BY DEF CellTyped, Frame
  <2> HIDE DEF frame
  <2>2. ASSUME NEW s \in Seq(Frame)
        PROVE  /\ Len(s) \in Nat
               /\ Append(s, frame) \in Seq(Frame)
               /\ Len(Append(s, frame)) = Len(s) + 1
               /\ \A i \in 1 .. Len(s) : Append(s, frame)[i] = s[i]
               /\ Append(s, frame)[Len(s) + 1] = frame
    BY <2>1
  <2>3. \A r \in Node : q[r] \in Seq(Frame)
    BY DEF CellTyped
  <2> QED BY <2>1, <2>2, <2>3
<1>2. CellTyped(h, k, q1)
  BY <1>1 DEF CellTyped
<1>3. PhaseTyped(P, S, Q) /\ PhaseTyped(P, S, Q1)
  BY <1>2, PhasesTyped
<1>4. StageAgrees(P, stage) /\ MemoriesAgree(P, S) /\ FramesAgree(P, S, Q)
  BY DEF Agreed, Agree
<1>5. P[n] = Phase(h, stage, n, h[n])
  BY DEF Phases
<1> HIDE DEF frame, P, S
<1>6. FramesAgree(P, S, Q1)
  <2> SUFFICES ASSUME NEW a \in Node, NEW i \in DOMAIN Q1[a]
               PROVE  LET m == Q1[a][i].from
                      IN  /\ m \in Node /\ Q1[a][i].phase <= P[m]
                          /\ m # a =>
                                /\ S[a][m] <= Q1[a][i].phase
                                /\ P[a] = Cleared => Q1[a][i].phase >= Complete
                                /\ \A j \in DOMAIN Q1[a] : i < j /\ Q1[a][j].from # a =>
                                      /\ Q1[a][j].from = m => Q1[a][i].phase <= Q1[a][j].phase
                                      /\ Q1[a][i].phase = Cleared => Q1[a][j].phase >= Complete
    BY DEF FramesAgree
  <2>1. /\ DOMAIN Q[a] = 1 .. Len(q[a])
        /\ DOMAIN Q1[a] = 1 .. Len(q1[a])
        /\ \A j \in 1 .. Len(q[a]) :
              Q[a][j] = [from |-> q[a][j].from, phase |-> FramePhase(h, stage, a, q[a][j])]
        /\ \A j \in 1 .. Len(q1[a]) :
              Q1[a][j] = [from |-> q1[a][j].from, phase |-> FramePhase(h, stage, a, q1[a][j])]
    BY DEF FramePhases
  <2>2. \A b, d \in Node : b # d =>
           /\ S[b][d] <= P[d] /\ (P[b] = Cleared => P[d] >= Complete)
           /\ S[b][d] \in 0 .. 4 /\ P[b] \in 0 .. 4 /\ P[d] \in 0 .. 4
    BY <1>3, <1>4 DEF MemoriesAgree, PhaseTyped
  <2>3. FramePhase(h, stage, a, frame) <= P[n] /\ (a # n => FramePhase(h, stage, a, frame) = P[n])
    <3>1. h[n] \in OrderState
      BY DEF CellTyped
    <3>2. h[n] <= Phase(h, stage, n, h[n])
      BY <3>1, StatesAreNumbers DEF Phase, Cleared
    <3>3. frame.from = n /\ frame.state = h[n]
      BY DEF frame
    <3>4. Phase(h, stage, n, h[n]) <= P[n]
      <4>1. P[n] \in 0 .. 4
        BY <1>3 DEF PhaseTyped
      <4> QED BY <1>5, <4>1
    <3> QED BY <1>5, <3>2, <3>3, <3>4, Zenon DEF FramePhase
  <2> DEFINE m == Q1[a][i].from
             L == Len(q[a])
  <2>4. CASE a \notin receivers
    <3>1. q1[a] = q[a]
      BY <2>4
    <3>2. Q1[a] = Q[a]
      BY <3>1, Zenon DEF FramePhases
    <3> HIDE DEF Q, Q1, m
    <3>3. /\ m \in Node /\ Q[a][i].phase <= P[m]
          /\ m # a =>
                /\ S[a][m] <= Q[a][i].phase
                /\ P[a] = Cleared => Q[a][i].phase >= Complete
                /\ \A j \in DOMAIN Q[a] : i < j /\ Q[a][j].from # a =>
                      /\ Q[a][j].from = m => Q[a][i].phase <= Q[a][j].phase
                      /\ Q[a][i].phase = Cleared => Q[a][j].phase >= Complete
      BY <1>4, <3>2 DEF FramesAgree, m
    <3> QED BY <3>2, <3>3 DEF m
  <2>5. CASE a \in receivers
    <3>1. q1[a] = Append(q[a], frame)
      BY <2>5 DEF frame
    <3>2. /\ DOMAIN Q1[a] = 1 .. L + 1 /\ L \in Nat
          /\ \A j \in 1 .. L : j \in DOMAIN Q[a] /\ j \in DOMAIN Q1[a]
      <4>1. Len(q1[a]) = L + 1 /\ L \in Nat
        BY <1>1, <3>1
      <4> HIDE DEF Q, Q1
      <4> QED BY <2>1, <4>1
    <3> HIDE DEF Q, Q1, L, m
    <3>3. \A j \in 1 .. L : Q1[a][j] = Q[a][j]
      <4> SUFFICES ASSUME NEW j \in 1 .. L PROVE Q1[a][j] = Q[a][j]
        OBVIOUS
      <4>1. q1[a][j] = q[a][j] /\ j \in 1 .. Len(q[a]) /\ j \in 1 .. Len(q1[a])
        BY <1>1, <2>1, <3>1, <3>2 DEF L
      <4>2. /\ Q1[a][j] = [from |-> q1[a][j].from, phase |-> FramePhase(h, stage, a, q1[a][j])]
            /\ Q[a][j] = [from |-> q[a][j].from, phase |-> FramePhase(h, stage, a, q[a][j])]
        BY <2>1, <4>1, Zenon
      <4> QED BY <4>1, <4>2, Zenon
    <3>4. /\ Q1[a][L + 1].from = n
          /\ Q1[a][L + 1].phase <= P[n] /\ (a # n => Q1[a][L + 1].phase = P[n])
      <4>1. q1[a][L + 1] = frame /\ L + 1 \in 1 .. Len(q1[a])
        BY <1>1, <3>1, <3>2, <2>1 DEF L
      <4>2. Q1[a][L + 1] = [from |-> q1[a][L + 1].from,
                            phase |-> FramePhase(h, stage, a, q1[a][L + 1])]
        BY <2>1, <4>1, Zenon
      <4>3. frame.from = n
        BY DEF frame
      <4> QED BY <2>3, <4>1, <4>2, <4>3
    <3>5. CASE i = L + 1
      <4>1. ~\E j \in DOMAIN Q1[a] : i < j
        BY <3>2, <3>5
      <4>2. a # n => /\ S[a][n] <= P[n]
                     /\ P[a] = Cleared => P[n] >= Complete
        BY <2>2
      <4> QED BY <3>4, <3>5, <4>1, <4>2 DEF m
    <3>6. CASE i \in 1 .. L
      <4>1. /\ m \in Node /\ Q[a][i].phase <= P[m]
            /\ m # a =>
                  /\ S[a][m] <= Q[a][i].phase
                  /\ P[a] = Cleared => Q[a][i].phase >= Complete
                  /\ \A j \in 1 .. L : i < j /\ Q[a][j].from # a =>
                        /\ Q[a][j].from = m => Q[a][i].phase <= Q[a][j].phase
                        /\ Q[a][i].phase = Cleared => Q[a][j].phase >= Complete
        BY <1>4, <3>2, <3>3, <3>6 DEF FramesAgree, m
      <4>2. Q[a][i].phase \in 0 .. 4
        BY <1>3, <3>2, <3>6 DEF PhaseTyped
      <4>3. /\ n = m => Q[a][i].phase <= P[n]
            /\ Q[a][i].phase = Cleared => P[n] >= Complete
        <5>1. P[m] \in 0 .. 4
          BY <1>3, <4>1 DEF PhaseTyped
        <5>2. Q[a][i].phase = Cleared => P[m] = Cleared
          BY <4>1, <4>2, <5>1 DEF Cleared
        <5> QED BY <2>2, <4>1, <5>2, StatesAreNumbers DEF Cleared
      <4>4. m # a => \A j \in DOMAIN Q1[a] : i < j /\ Q1[a][j].from # a =>
               /\ Q1[a][j].from = m => Q1[a][i].phase <= Q1[a][j].phase
               /\ Q1[a][i].phase = Cleared => Q1[a][j].phase >= Complete
        <5> SUFFICES ASSUME m # a, NEW j \in 1 .. L + 1, i < j, Q1[a][j].from # a
                     PROVE  /\ Q1[a][j].from = m => Q1[a][i].phase <= Q1[a][j].phase
                            /\ Q1[a][i].phase = Cleared => Q1[a][j].phase >= Complete
          BY <3>2
        <5>1. CASE j = L + 1
          BY <3>3, <3>4, <3>6, <4>3, <5>1
        <5>2. CASE j \in 1 .. L
          BY <3>3, <3>6, <4>1, <5>2
        <5> QED BY <3>2, <5>1, <5>2
      <4> QED BY <3>3, <3>6, <4>1, <4>4 DEF m
    <3> QED BY <3>2, <3>5, <3>6
  <2> QED BY <2>4, <2>5
<1> QED BY <1>2, <1>4, <1>6 DEF Agreed, Agree, P, S

-----------------------------------------------------------------------------
(* What a climb means for the users' call. *)

\* What one step of n may do to the call: nothing, learn of it, confirm it, serve
\* it or hear that it was served, forget it.
Outcome(h, g, stage, next, n) ==
    \/ g[n] = h[n] /\ next = stage
    \/ h[n] = NoCall /\ g[n] = Exist /\ stage = "open" /\ next = "open"
    \/ /\ h[n] \in {NoCall, Exist} /\ g[n] = Acknowledged /\ stage = "open" /\ next = "due"
       /\ \A m \in Node \ {n} : h[m] = Exist
    \/ /\ h[n] = Exist /\ g[n] = Acknowledged
       /\ stage \in {"due", "served"} /\ next = stage
    \/ /\ h[n] \in {Exist, Acknowledged} /\ g[n] = Complete
       /\ stage \in {"due", "served"} /\ next = "served"
    \/ /\ h[n] \in {Exist, Acknowledged, Complete} /\ g[n] = NoCall
       /\ stage \in {"due", "served"} /\ next = "served"
       /\ \A m \in Node \ {n} : h[m] \in {NoCall, Complete}

LEMMA ClimbOutcome ==
    ASSUME NEW h, NEW k, NEW q, CellTyped(h, k, q), NEW g \in [Node -> OrderState],
           NEW stage, NEW next, NEW n \in Node, Agreed(h, k, q, stage),
           MayClimb(Phases(h, stage), KeptPhases(h, k, stage), FramePhases(h, q, stage),
                    n, Phase(g, next, n, g[n]), stage, next)
    PROVE  Outcome(h, g, stage, next, n)
<1> DEFINE P == Phases(h, stage)
           S == KeptPhases(h, k, stage)
           Q == FramePhases(h, q, stage)
           x == Phase(g, next, n, g[n])
<1> USE StatesAreNumbers
<1>1. PhaseTyped(P, S, Q)
  BY PhasesTyped
<1>2. /\ \A m \in Node : h[m] \in {0, 1, 2, 3} /\ P[m] = Phase(h, stage, m, h[m])
      /\ g[n] \in {0, 1, 2, 3}
  BY DEF CellTyped, Phases
<1>3. StageAgrees(P, stage) /\ MemoriesAgree(P, S)
  BY DEF Agreed, Agree
<1>4. MayClimb(P, S, Q, n, x, stage, next)
  OBVIOUS
<1> HIDE DEF P, S, Q
<1>5. \A m \in Node : /\ P[m] = Cleared => h[m] = NoCall /\ stage = "served"
                      /\ P[m] # Cleared => P[m] = h[m]
  <2> SUFFICES ASSUME NEW m \in Node
               PROVE  /\ P[m] = Cleared => h[m] = NoCall /\ stage = "served"
                      /\ P[m] # Cleared => P[m] = h[m]
    OBVIOUS
  <2>1. h[m] # 4 /\ P[m] = IF stage = "served" /\ h[m] = 0 /\ h[m] = 0 THEN 4 ELSE h[m]
    BY <1>2 DEF Phase, Cleared
  <2> QED BY <2>1 DEF Cleared
<1>6. /\ x = Cleared => g[n] = NoCall /\ next = "served"
      /\ x # Cleared => x = g[n]
      /\ x \in {0, 1, 2, 3, 4}
  BY <1>2 DEF Phase, Cleared
<1> HIDE DEF x
<1>7. CASE x = P[n]
  <2>1. g[n] = h[n]
    BY <1>5, <1>6, <1>7
  <2>2. stage = "open" => P[n] <= Exist
    BY <1>3 DEF StageAgrees
  <2>3. P[n] \in 0 .. 4
    BY <1>1 DEF PhaseTyped
  <2>4. next = stage
    BY <1>4, <1>7, <2>2, <2>3 DEF MayClimb
  <2> QED BY <2>1, <2>4 DEF Outcome
<1>8. CASE P[n] # x /\ x <= Exist
  <2>1. P[n] = NoCall /\ x = Exist /\ stage = "open" /\ next = "open"
    BY <1>1, <1>4, <1>6, <1>8 DEF MayClimb, PhaseTyped
  <2> QED BY <1>5, <1>6, <2>1 DEF Outcome, Cleared
<1>9. CASE P[n] # x /\ x = Acknowledged
  <2>1. P[n] \in {NoCall, Exist} /\ g[n] = Acknowledged /\ h[n] = P[n]
    BY <1>1, <1>4, <1>5, <1>6, <1>9 DEF MayClimb, PhaseTyped, Cleared
  <2>2. CASE stage = "open"
    <3>1. next = "due"
      BY <1>4, <1>9, <2>2 DEF MayClimb
    <3>2. ASSUME NEW m \in Node \ {n} PROVE h[m] = Exist
      <4>1. S[n][m] >= Exist /\ S[n][m] <= P[m] /\ S[n][m] \in 0 .. 4
        BY <1>1, <1>3, <1>4, <1>9, <2>1 DEF MayClimb, MemoriesAgree, PhaseTyped
      <4>2. P[m] <= Exist /\ P[m] \in 0 .. 4
        BY <1>1, <1>3, <2>2 DEF StageAgrees, PhaseTyped
      <4> QED BY <1>5, <4>1, <4>2 DEF Cleared
    <3> QED BY <2>1, <2>2, <3>1, <3>2 DEF Outcome
  <2>3. CASE stage # "open"
    <3>1. next = stage /\ P[n] = Exist
      BY <1>4, <1>9, <2>1, <2>3 DEF MayClimb
    <3>2. stage \in {"due", "served"}
      BY <1>3, <2>3, <3>1 DEF StageAgrees
    <3> QED BY <2>1, <3>1, <3>2 DEF Outcome
  <2> QED BY <2>2, <2>3
<1>10. CASE P[n] # x /\ x \in {3, 4}
  <2>1. P[n] \in {0, 1, 2, 3} /\ P[n] < x /\ h[n] = P[n]
    BY <1>1, <1>4, <1>5, <1>6, <1>10 DEF MayClimb, PhaseTyped, Cleared
  <2>2. stage \in {"due", "served"}
    BY <1>3, <1>4, <1>10, <2>1 DEF MayClimb, StageAgrees
  <2>3. next = "served"
    BY <1>3, <1>4, <1>10, <2>1, <2>2 DEF MayClimb, StageAgrees
  <2>4. h[n] # NoCall
    BY <1>4, <1>10, <2>1, <2>2 DEF MayClimb
  <2>5. CASE x = 3
    BY <1>6, <2>1, <2>2, <2>3, <2>4, <2>5 DEF Outcome, Cleared
  <2>6. CASE x = 4
    <3>1. ASSUME NEW m \in Node \ {n} PROVE h[m] \in {NoCall, Complete}
      <4>1. P[m] >= Complete /\ P[m] \in 0 .. 4
        BY <1>1, <1>4, <2>1, <2>6 DEF MayClimb, PhaseTyped, Cleared
      <4> QED BY <1>5, <4>1 DEF Cleared
    <3> QED BY <1>6, <2>1, <2>2, <2>3, <2>4, <2>6, <3>1 DEF Outcome, Cleared
  <2> QED BY <1>10, <2>5, <2>6
<1> QED BY <1>6, <1>7, <1>8, <1>9, <1>10

-----------------------------------------------------------------------------
(* What the operators of OrderManager make of a call when every node is    *)
(* listed alive and has been heard.                                        *)

\* AllAliveHallAtOrAbove is then really a word about everybody.
LEMMA Unanimity ==
    ASSUME NEW n \in Node, NEW own \in OrderState, NEW stored, NEW live, NEW c,
           NEW threshold,
           \A m \in Node : live[m] = "alive",
           \A m \in Node \ {n} : stored[m] # None
    PROVE  AllAliveHallAtOrAbove(n, own, stored, live, c, threshold) <=>
              own >= threshold /\ \A m \in Node \ {n} : stored[m].hall[c] >= threshold
  BY Zenon DEF AllAliveHallAtOrAbove

\* The result of a consensus, of a press and of a merge, by the state before it
\* and what the others are known to hold.
LEMMA Results ==
    ASSUME NEW n \in Node, NEW s \in OrderState, NEW v \in OrderState, NEW stored,
           NEW live, NEW c,
           \A m \in Node : live[m] = "alive",
           \A m \in Node \ {n} : stored[m] # None
    PROVE  LET known == \A m \in Node \ {n} : stored[m].hall[c] >= Exist
               served == \A m \in Node \ {n} : stored[m].hall[c] >= Complete
           IN  /\ ConsensusHall(n, s, stored, live, c) =
                     IF s = Exist /\ known THEN Acknowledged
                     ELSE IF s = Complete /\ served THEN NoCall ELSE s
               /\ PressHall(n, s, stored, live, c) =
                     IF s \in {NoCall, Exist}
                     THEN IF known THEN Acknowledged ELSE Exist ELSE s
               /\ MergeHall(n, s, v, stored, live, c) =
                     IF s = NoCall
                     THEN IF v # Exist THEN NoCall
                          ELSE IF known THEN Acknowledged ELSE Exist
                     ELSE IF s = Exist /\ ~known THEN Exist
                     ELSE IF s \in {Exist, Acknowledged}
                     THEN IF v # Complete THEN Acknowledged
                          ELSE IF served THEN NoCall ELSE Complete
                     ELSE IF served \/ v = NoCall THEN NoCall ELSE Complete
<1> DEFINE known == \A m \in Node \ {n} : stored[m].hall[c] >= Exist
           served == \A m \in Node \ {n} : stored[m].hall[c] >= Complete
<1> USE StatesAreNumbers
<1>1. \A own \in OrderState :
         /\ AllAliveHallAtOrAbove(n, own, stored, live, c, Exist) <=> own >= Exist /\ known
         /\ AllAliveHallAtOrAbove(n, own, stored, live, c, Complete)
               <=> own >= Complete /\ served
  BY Unanimity
<1> HIDE DEF known, served
<1>2. \A own \in OrderState :
         /\ AcknowledgeHall(n, own, stored, live, c) =
               IF own = Exist /\ known THEN Acknowledged ELSE own
         /\ ClearHall(n, own, stored, live, c) =
               IF own = Complete /\ served THEN NoCall ELSE own
  BY <1>1 DEF AcknowledgeHall, ClearHall, Advance, ValidTransition
<1>3. ConsensusHall(n, s, stored, live, c) =
         IF s = Exist /\ known THEN Acknowledged
         ELSE IF s = Complete /\ served THEN NoCall ELSE s
  BY <1>2 DEF ConsensusHall
<1>4. PressHall(n, s, stored, live, c) =
         IF s \in {NoCall, Exist} THEN IF known THEN Acknowledged ELSE Exist ELSE s
  BY <1>2 DEF PressHall, Press, ValidTransition
<1>5. MergeHall(n, s, v, stored, live, c) =
         IF s = NoCall
         THEN IF v # Exist THEN NoCall
              ELSE IF known THEN Acknowledged ELSE Exist
         ELSE IF s = Exist /\ ~known THEN Exist
         ELSE IF s \in {Exist, Acknowledged}
         THEN IF v # Complete THEN Acknowledged
              ELSE IF served THEN NoCall ELSE Complete
         ELSE IF served \/ v = NoCall THEN NoCall ELSE Complete
  <2> DEFINE learned == LearnHall(s, v)
             confirmed == AcknowledgeHall(n, learned, stored, live, c)
             completed == AdoptComplete(confirmed, v)
             cleared == ClearHall(n, completed, stored, live, c)
  <2>1. learned = IF s = NoCall /\ v = Exist THEN Exist ELSE s
    BY DEF LearnHall, Advance, ValidTransition
  <2>2. confirmed = IF learned = Exist /\ known THEN Acknowledged ELSE learned
    BY <1>2, <2>1
  <2>3. completed = IF confirmed = Acknowledged /\ v = Complete THEN Complete ELSE confirmed
    BY DEF AdoptComplete, Advance, ValidTransition
  <2>4. cleared = IF completed = Complete /\ served THEN NoCall ELSE completed
    BY <1>2, <2>1, <2>2, <2>3
  <2>5. MergeHall(n, s, v, stored, live, c) =
           IF cleared = Complete /\ v = NoCall THEN NoCall ELSE cleared
    BY DEF MergeHall, AdoptCleared
  <2> HIDE DEF learned, confirmed, completed, cleared
  <2>6. CASE s = NoCall
    BY <2>1, <2>2, <2>3, <2>4, <2>5, <2>6
  <2>7. CASE s = Exist
    <3>1. CASE known
      BY <2>1, <2>2, <2>3, <2>4, <2>5, <2>7, <3>1
    <3>2. CASE ~known
      BY <2>1, <2>2, <2>3, <2>4, <2>5, <2>7, <3>2
    <3> QED BY <3>1, <3>2
  <2>8. CASE s = Acknowledged
    BY <2>1, <2>2, <2>3, <2>4, <2>5, <2>8
  <2>9. CASE s = Complete
    BY <2>1, <2>2, <2>3, <2>4, <2>5, <2>9
  <2> QED BY <2>6, <2>7, <2>8, <2>9
<1> QED BY <1>3, <1>4, <1>5 DEF known, served

-----------------------------------------------------------------------------
(* A step of OrderCluster as one hall call c sees it. *)

OthersHold(n, c) == \A m \in Node \ {n} : hall'[m][c] = hall[m][c]

Stays(c) ==
    /\ \A m \in Node : hall'[m][c] = hall[m][c]
    /\ hallCall'[c] = hallCall[c]
    /\ UNCHANGED <<up, peerWorldviews, alive, inbox, crashes>>

Sends(n, c) ==
    /\ up[n]
    /\ \E receivers \in SUBSET Hearers, wv \in Worldview :
          /\ wv.from = n /\ wv.hall = hall[n]
          /\ inbox' = [r \in Node |-> IF r \in receivers THEN Append(inbox[r], wv) ELSE inbox[r]]
    /\ \A m \in Node : hall'[m][c] = hall[m][c]
    /\ hallCall'[c] = hallCall[c]
    /\ UNCHANGED <<up, peerWorldviews, alive, crashes>>

Consents(n, c) ==
    /\ up[n]
    /\ hall'[n][c] = ConsensusHall(n, hall[n][c], peerWorldviews[n], alive[n], c)
    /\ OthersHold(n, c)
    /\ hallCall'[c] = HallCallAfter(c, hallCall[c])
    /\ UNCHANGED <<up, peerWorldviews, alive, inbox, crashes>>

Completes(n, c) ==
    /\ up[n]
    /\ hall'[n][c] = ConsensusHall(n, Serve(hall[n][c]), peerWorldviews[n], alive[n], c)
    /\ OthersHold(n, c)
    /\ hallCall'[c] = IF hall[n][c] = Acknowledged THEN StageServed(hallCall[c])
                      ELSE HallCallAfter(c, hallCall[c])
    /\ UNCHANGED <<up, peerWorldviews, alive, inbox, crashes>>

Presses(n, c) ==
    /\ up[n]
    /\ Repress \/ hallCall[c] \notin {"served", "tangled"} \/ QuietHall(c)
    /\ hall'[n][c] = PressHall(n, hall[n][c], peerWorldviews[n], alive[n], c)
    /\ OthersHold(n, c)
    /\ hallCall'[c] = HallCallAfter(c, StagePressed(hallCall[c], hall[n][c], QuietHall(c)))
    /\ UNCHANGED <<up, peerWorldviews, alive, inbox, crashes>>

\* An own frame does to the call what consensus alone would not.
Echoes(n, c) ==
    /\ inbox[n] # <<>> /\ Head(inbox[n]).from = n
    /\ hall'[n][c] # ConsensusHall(n, hall[n][c], peerWorldviews[n], alive[n], c)

Merges(n, c) ==
    /\ up[n] /\ inbox[n] # <<>>
    /\ peerWorldviews' = [peerWorldviews EXCEPT ![n] = Remember(n, Head(inbox[n]))]
    /\ inbox' = [inbox EXCEPT ![n] = Tail(@)]
    /\ hall'[n][c] = MergeHall(n, hall[n][c], Head(inbox[n]).hall[c],
                               Remember(n, Head(inbox[n])), alive[n], c)
    /\ OthersHold(n, c)
    /\ hallCall'[c] = IF Echoes(n, c) THEN StageEchoed(HallCallAfter(c, hallCall[c]))
                      ELSE HallCallAfter(c, hallCall[c])
    /\ UNCHANGED <<up, alive, crashes>>

LEMMA Shapes ==
    ASSUME TypeOK, [Next]_vars, NEW c \in HallCell
    PROVE  \/ Stays(c)
           \/ \E n \in Node : \/ Sends(n, c) \/ Consents(n, c) \/ Completes(n, c)
                              \/ Presses(n, c) \/ Merges(n, c)
                              \/ Lists(n) \/ Crash(n) \/ Restart(n)
<1>1. /\ hall \in [Node -> [HallCell -> OrderState]]
      /\ hallCall \in [HallCell -> CallStage]
  BY DEF TypeOK
<1>2. CASE UNCHANGED vars
  BY <1>2 DEF vars, om, history, Stays
<1>3. ASSUME NEW n \in Node, NEW receivers \in SUBSET Hearers, BroadcastTick(n, receivers)
      PROVE  Sends(n, c)
  <2>1. LocalWv(n) \in Worldview /\ LocalWv(n).from = n /\ LocalWv(n).hall = hall[n]
    BY LocalWvTyped DEF LocalWv
  <2> QED BY <1>3, <2>1 DEF BroadcastTick, Broadcast, Sends, om, history
<1>4. ASSUME NEW n \in Node, OraTick(n) PROVE Consents(n, c)
  <2>1. hall' = [hall EXCEPT ![n] = ConsensusHalls(n, hall[n])]
    BY <1>4 DEF OraTick
  <2>2. /\ hall'[n][c] = ConsensusHall(n, hall[n][c], peerWorldviews[n], alive[n], c)
        /\ OthersHold(n, c)
    BY <1>1, <2>1 DEF ConsensusHalls, OthersHold
  <2> QED BY <1>4, <2>2 DEF OraTick, Consents, HallHistory
<1>5. ASSUME NEW n \in Node, MergePeer(n) PROVE Merges(n, c)
  <2> DEFINE wv == Head(inbox[n])
             stored == Remember(n, wv)
  <2>1. /\ hall' = [hall EXCEPT ![n] = [d \in HallCell |->
                       MergeHall(n, hall[n][d], wv.hall[d], stored, alive[n], d)]]
        /\ peerWorldviews' = [peerWorldviews EXCEPT ![n] = stored]
    BY <1>5 DEF MergePeer
  <2>2. /\ hall'[n][c] = MergeHall(n, hall[n][c], wv.hall[c], stored, alive[n], c)
        /\ OthersHold(n, c)
    BY <1>1, <2>1 DEF OthersHold
  <2>3. hallCall'[c] = IF Echoes(n, c) THEN StageEchoed(HallCallAfter(c, hallCall[c]))
                       ELSE HallCallAfter(c, hallCall[c])
    <3>1. inbox[n] # <<>>
      BY <1>5 DEF MergePeer
    <3>2. ConsensusHalls(n, hall[n])[c]
             = ConsensusHall(n, hall[n][c], peerWorldviews[n], alive[n], c)
      BY DEF ConsensusHalls
    <3>3. hallCall'[c] = IF wv.from = n /\ hall'[n][c] # ConsensusHalls(n, hall[n])[c]
                         THEN StageEchoed(HallCallAfter(c, hallCall[c]))
                         ELSE HallCallAfter(c, hallCall[c])
      BY <1>5 DEF MergePeer
    <3> QED BY <3>1, <3>2, <3>3 DEF Echoes
  <2> QED BY <1>5, <2>1, <2>2, <2>3 DEF MergePeer, Merges
<1>6. ASSUME NEW n \in Node, NEW d \in HallCell, NewHallOrder(n, d)
      PROVE  Presses(n, c) \/ Stays(c)
  <2>1. /\ d \in HallCell
        /\ hall' = [hall EXCEPT ![n][d] = PressHall(n, hall[n][d], peerWorldviews[n], alive[n], d)]
        /\ hallCall' = [hallCall EXCEPT ![d] =
              HallCallAfter(d, StagePressed(hallCall[d], hall[n][d], QuietHall(d)))]
    BY <1>6, ClusterAssumption DEF NewHallOrder
  <2>2. CASE d = c
    <3>1. /\ hall'[n][c] = PressHall(n, hall[n][c], peerWorldviews[n], alive[n], c)
          /\ OthersHold(n, c)
          /\ hallCall'[c] = HallCallAfter(c, StagePressed(hallCall[c], hall[n][c], QuietHall(c)))
      BY <1>1, <2>1, <2>2 DEF OthersHold
    <3> QED BY <1>6, <2>2, <3>1 DEF NewHallOrder, Presses
  <2>3. CASE d # c
    <3>1. /\ \A m \in Node : hall'[m][c] = hall[m][c]
          /\ hallCall'[c] = hallCall[c]
      BY <1>1, <2>1, <2>3
    <3> QED BY <1>6, <3>1 DEF NewHallOrder, Stays
  <2> QED BY <2>2, <2>3
<1>7. ASSUME NEW n \in Node, NEW d \in HallCell, OrderComplete(n, d)
      PROVE  Completes(n, c) \/ Consents(n, c)
  <2>1. /\ hall' = [hall EXCEPT ![n] =
                       ConsensusHalls(n, [hall[n] EXCEPT ![d] = Serve(hall[n][d])])]
        /\ hallCall' = [b \in HallCell |->
              IF b = d /\ hall[n][d] = Acknowledged THEN StageServed(hallCall[b])
              ELSE HallCallAfter(b, hallCall[b])]
    BY <1>7 DEF OrderComplete
  <2>2. OthersHold(n, c)
    BY <1>1, <2>1 DEF OthersHold
  <2>3. CASE d = c
    <3>1. /\ hall'[n][c] = ConsensusHall(n, Serve(hall[n][c]), peerWorldviews[n], alive[n], c)
          /\ hallCall'[c] = IF hall[n][c] = Acknowledged THEN StageServed(hallCall[c])
                            ELSE HallCallAfter(c, hallCall[c])
      BY <1>1, <2>1, <2>3 DEF ConsensusHalls
    <3> QED BY <1>7, <2>2, <3>1 DEF OrderComplete, Completes
  <2>4. CASE d # c
    <3>1. /\ hall'[n][c] = ConsensusHall(n, hall[n][c], peerWorldviews[n], alive[n], c)
          /\ hallCall'[c] = HallCallAfter(c, hallCall[c])
      BY <1>1, <2>1, <2>4 DEF ConsensusHalls
    <3> QED BY <1>7, <2>2, <3>1 DEF OrderComplete, Consents
  <2> QED BY <2>3, <2>4
<1>8. ASSUME NEW n \in Node, \/ \E f \in Floor : NewCabOrder(n, f)
                             \/ \E m \in MalfReport : Malfunction(n, m)
      PROVE  Stays(c)
  BY <1>8 DEF NewCabOrder, Malfunction, Stays, history
<1>9. ASSUME NEW n \in Node, NEW p \in PositionReport, NEW receivers \in SUBSET Hearers,
             ElevState(n, p, receivers)
      PROVE  Sends(n, c)
  <2> DEFINE wv == [from |-> n, hall |-> hall[n], list |-> nodes'[n]]
  <2>1. wv \in Worldview /\ wv.from = n /\ wv.hall = hall[n]
    <3>1. TypeOK'
      BY NextTyped
    <3> QED BY <1>1, <3>1 DEF TypeOK, Worldview
  <2> QED BY <1>9, <2>1 DEF ElevState, Broadcast, Sends, history
<1>10. ASSUME NEW n \in Node, NEW new \in Node \cup {None}, NEW lost \in SUBSET Node,
              UpdateAliveList(n, new, lost)
       PROVE  Lists(n)
  BY <1>10 DEF Lists
<1> QED
  BY <1>2, <1>3, <1>4, <1>5, <1>6, <1>7, <1>8, <1>9, <1>10 DEF Next

-----------------------------------------------------------------------------
(* The steps of a cluster in which nobody has failed. *)

\* What one pass of n through the rules can do, by the states before it and after
\* it: it acknowledges only what the others are known to hold, and clears only
\* what they are known to have completed or somebody has cleared.
RawStep(h, g, k, q, stage, next, n) ==
    LET s == h[n]
        r == g[n]
        known == \A m \in Node \ {n} : k[n][m] >= Exist
        served == \/ \A m \in Node \ {n} : k[n][m] >= Complete
                  \/ /\ \E m \in Node \ {n} : Phases(h, stage)[m] = Cleared
                     /\ FramesDone(FramePhases(h, q, stage), n)
    IN  \/ r = s /\ next = stage
        \/ s = NoCall /\ r = Exist /\ stage = "open" /\ next = "open"
        \/ s \in {NoCall, Exist} /\ r = Acknowledged /\ known /\ stage = "open" /\ next = "due"
        \/ s = Exist /\ r = Acknowledged /\ known /\ stage \in {"due", "served"} /\ next = stage
        \/ /\ s \in {Exist, Acknowledged} /\ r = Complete /\ (s = Exist => known)
           /\ stage \in {"due", "served"} /\ next = "served"
        \/ /\ s # NoCall /\ r = NoCall /\ (s = Exist => known) /\ served
           /\ stage \in {"due", "served"} /\ next = "served"

\* Such a step is a climb.
LEMMA RawClimb ==
    ASSUME NEW h, NEW k, NEW q, CellTyped(h, k, q), NEW g \in [Node -> OrderState],
           NEW stage, NEW next, NEW n \in Node, Agreed(h, k, q, stage),
           RawStep(h, g, k, q, stage, next, n)
    PROVE  MayClimb(Phases(h, stage), KeptPhases(h, k, stage), FramePhases(h, q, stage),
                    n, Phase(g, next, n, g[n]), stage, next)
<1> DEFINE P == Phases(h, stage)
           S == KeptPhases(h, k, stage)
           Q == FramePhases(h, q, stage)
           x == Phase(g, next, n, g[n])
           known == \A m \in Node \ {n} : k[n][m] >= Exist
           all == \A m \in Node \ {n} : k[n][m] >= Complete
           cleared == (\E m \in Node \ {n} : P[m] = Cleared) /\ FramesDone(Q, n)
<1> SUFFICES MayClimb(P, S, Q, n, x, stage, next)
  OBVIOUS
<1> USE StatesAreNumbers
<1>1. PhaseTyped(P, S, Q)
  BY PhasesTyped
<1>2. /\ \A m \in Node : h[m] \in {0, 1, 2, 3} /\ P[m] = Phase(h, stage, m, h[m])
      /\ g[n] \in {0, 1, 2, 3}
      /\ \A m \in Node \ {n} : k[n][m] \in {0, 1, 2, 3} /\ S[n][m] = Phase(h, stage, m, k[n][m])
  BY DEF CellTyped, Phases, KeptPhases
<1>3. StageAgrees(P, stage) /\ MemoriesAgree(P, S) /\ FramesAgree(P, S, Q)
  BY DEF Agreed, Agree
<1>4. \/ g[n] = h[n] /\ next = stage
      \/ h[n] = 0 /\ g[n] = 1 /\ stage = "open" /\ next = "open"
      \/ h[n] \in {0, 1} /\ g[n] = 2 /\ known /\ stage = "open" /\ next = "due"
      \/ h[n] = 1 /\ g[n] = 2 /\ known /\ stage \in {"due", "served"} /\ next = stage
      \/ /\ h[n] \in {1, 2} /\ g[n] = 3 /\ (h[n] = 1 => known)
         /\ stage \in {"due", "served"} /\ next = "served"
      \/ /\ h[n] # 0 /\ g[n] = 0 /\ (h[n] = 1 => known) /\ (all \/ cleared)
         /\ stage \in {"due", "served"} /\ next = "served"
  BY DEF RawStep
<1> HIDE DEF P, S, Q
<1>14. \A m \in Node \ {n} : k[n][m] >= Exist => S[n][m] = k[n][m]
  <2> SUFFICES ASSUME NEW m \in Node \ {n}, k[n][m] >= Exist PROVE S[n][m] = k[n][m]
    OBVIOUS
  <2>1. k[n][m] # NoCall /\ S[n][m] = Phase(h, stage, m, k[n][m])
    BY <1>2
  <2> QED BY <2>1 DEF Phase
<1>5. known => \A m \in Node \ {n} : S[n][m] >= Exist
  BY <1>14
<1>6. (all \/ cleared) /\ h[n] # 0 =>
         (\A m \in Node \ {n} : P[m] >= Complete) /\ FramesDone(Q, n)
  <2>1. CASE all
    <3>1. \A m \in Node \ {n} : S[n][m] >= Complete
      <4> SUFFICES ASSUME NEW m \in Node \ {n} PROVE S[n][m] >= Complete
        OBVIOUS
      <4>1. k[n][m] >= Complete /\ k[n][m] \in {0, 1, 2, 3}
        BY <1>2, <2>1
      <4> QED BY <1>14, <4>1
    <3>2. ASSUME NEW m \in Node \ {n} PROVE P[m] >= Complete
      <4>1. S[n][m] <= P[m] /\ S[n][m] \in 0 .. 4 /\ P[m] \in 0 .. 4
        BY <1>1, <1>3 DEF MemoriesAgree, PhaseTyped
      <4> QED BY <3>1, <4>1
    <3>3. ASSUME NEW i \in DOMAIN Q[n], Q[n][i].from # n PROVE Q[n][i].phase >= Complete
      <4>1. Q[n][i].from \in Node \ {n} /\ S[n][Q[n][i].from] <= Q[n][i].phase
        BY <1>3, <3>3 DEF FramesAgree
      <4>2. S[n][Q[n][i].from] \in 0 .. 4 /\ Q[n][i].phase \in 0 .. 4
        BY <1>1, <4>1 DEF PhaseTyped
      <4> QED BY <3>1, <4>1, <4>2
    <3> QED BY <3>2, <3>3 DEF FramesDone
  <2>2. CASE cleared
    <3>1. PICK m \in Node \ {n} : P[m] = Cleared
      BY <2>2
    <3>2. ASSUME NEW a \in Node \ {n} PROVE P[a] >= Complete
      <4>1. a # m => P[a] >= Complete
        BY <1>3, <3>1 DEF MemoriesAgree
      <4> QED BY <3>1, <4>1 DEF Cleared
    <3> QED BY <2>2, <3>2
  <2> QED BY <2>1, <2>2
<1>7. /\ h[n] # 0 \/ stage # "served" => P[n] = h[n]
      /\ g[n] # 0 \/ next # "served" => x = g[n]
      /\ g[n] = 0 /\ next = "served" => x = 4
  BY <1>2 DEF Phase, Cleared
<1>8. CASE g[n] = h[n] /\ next = stage
  <2>1. x = P[n]
    BY <1>2, <1>8 DEF Phase
  <2>2. P[n] \in 0 .. 4 /\ (stage = "open" => P[n] <= Exist)
    BY <1>1, <1>3 DEF PhaseTyped, StageAgrees
  <2> HIDE DEF x
  <2> QED BY <1>8, <2>1, <2>2 DEF MayClimb, Cleared
<1> HIDE DEF x, known, all, cleared
<1>9. CASE h[n] = 0 /\ g[n] = 1 /\ stage = "open" /\ next = "open"
  BY <1>7, <1>9 DEF MayClimb, Cleared
<1>10. CASE h[n] \in {0, 1} /\ g[n] = 2 /\ known /\ stage = "open" /\ next = "due"
  BY <1>5, <1>7, <1>10 DEF MayClimb, Cleared
<1>11. CASE h[n] = 1 /\ g[n] = 2 /\ known /\ stage \in {"due", "served"} /\ next = stage
  BY <1>5, <1>7, <1>11 DEF MayClimb, Cleared
<1>12. CASE /\ h[n] \in {1, 2} /\ g[n] = 3 /\ (h[n] = 1 => known)
            /\ stage \in {"due", "served"} /\ next = "served"
  BY <1>5, <1>7, <1>12 DEF MayClimb, Cleared
<1>13. CASE /\ h[n] # 0 /\ g[n] = 0 /\ (h[n] = 1 => known) /\ (all \/ cleared)
            /\ stage \in {"due", "served"} /\ next = "served"
  <2>1. h[n] = 3 => stage = "served"
    BY <1>3, <1>7, <1>13 DEF StageAgrees
  <2> QED BY <1>2, <1>5, <1>6, <1>7, <1>13, <2>1 DEF MayClimb, Cleared
<1> QED BY <1>4, <1>8, <1>9, <1>10, <1>11, <1>12, <1>13

\* The state of the call at each node, in each memory and in each frame.
Shown(c) == [n \in Node |-> hall[n][c]]
Kept(c) == [n \in Node |-> [m \in Node |->
    IF peerWorldviews[n][m] = None THEN NoCall ELSE peerWorldviews[n][m].hall[c]]]
Waiting(c) == [n \in Node |-> [i \in 1 .. Len(inbox[n]) |->
    [from |-> inbox[n][i].from, state |-> inbox[n][i].hall[c]]]]

\* Everybody runs, is listed by everybody and has been heard by everybody else.
Together ==
    /\ \A n \in Node : up[n]
    /\ \A n, m \in Node : alive[n][m] = "alive"
    /\ \A n, m \in Node : n # m => peerWorldviews[n][m] # None

Health(c) == Agreed(Shown(c), Kept(c), Waiting(c), hallCall[c])

\* n merges a frame of its own, and that does to a served call what it should not.
OwnFrameRead(n) == inbox[n] # <<>> /\ Head(inbox[n]).from = n /\ inbox'[n] = Tail(inbox[n])
Tangles(n, c) ==
    /\ OwnFrameRead(n)
    /\ hallCall[c] = "served" /\ hallCall'[c] = "tangled"
    /\ \/ hall[n][c] = NoCall /\ hall'[n][c] \in {Exist, Acknowledged}
       \/ hall[n][c] = Complete /\ hall'[n][c] = NoCall

\* A step as CallLifecycle knows them: one node's, and from a call that is
\* forgotten everywhere a new one may be opened.  A tangled call may do anything.
Progress(c) ==
    \/ hallCall[c] = "tangled" /\ hallCall'[c] = "tangled"
    \/ \E n \in Node :
        /\ OthersHold(n, c)
        /\ \/ Outcome(Shown(c), Shown(c)', hallCall[c], hallCall'[c], n)
           \/ /\ hallCall[c] \in {"none", "served", "tangled"}
              /\ \A m \in Node : hall[m][c] = NoCall
              /\ hall'[n][c] # NoCall
              /\ Outcome(Shown(c), Shown(c)', "open", hallCall'[c], n)
           \/ Tangles(n, c)

LEMMA ViewsTyped ==
    ASSUME TypeOK, NEW c \in HallCell
    PROVE  CellTyped(Shown(c), Kept(c), Waiting(c))
<1>1. Shown(c) \in [Node -> OrderState]
  BY DEF TypeOK, Shown
<1>2. \A n, m \in Node : peerWorldviews[n][m] # None => peerWorldviews[n][m].hall[c] \in OrderState
  BY DEF TypeOK, StoredWorldview
<1>3. Kept(c) \in [Node -> [Node -> OrderState]]
  <2>1. \A n, m \in Node : (IF peerWorldviews[n][m] = None THEN NoCall
                            ELSE peerWorldviews[n][m].hall[c]) \in OrderState
    BY <1>2, StatesAreNumbers
  <2> QED BY <2>1 DEF Kept
<1>4. ASSUME NEW n \in Node PROVE Waiting(c)[n] \in Seq(Frame)
  <2>1. inbox[n] \in Seq(Worldview)
    BY DEF TypeOK
  <2>2. \A i \in 1 .. Len(inbox[n]) :
           [from |-> inbox[n][i].from, state |-> inbox[n][i].hall[c]] \in Frame
    <3> SUFFICES ASSUME NEW i \in 1 .. Len(inbox[n])
                 PROVE  [from |-> inbox[n][i].from, state |-> inbox[n][i].hall[c]] \in Frame
      OBVIOUS
    <3>1. inbox[n][i] \in Worldview
      BY <2>1
    <3>2. inbox[n][i].from \in Node /\ inbox[n][i].hall[c] \in OrderState
      BY <3>1 DEF Worldview
    <3> QED BY <3>2 DEF Frame
  <2>3. Len(inbox[n]) \in Nat
    BY <2>1
  <2> QED BY <2>2, <2>3 DEF Waiting
<1>5. Waiting(c) \in [Node -> Seq(Frame)]
  BY <1>4 DEF Waiting
<1> QED BY <1>1, <1>3, <1>5 DEF CellTyped

\* What the agreement says of the states themselves.
LEMMA ShownStage ==
    ASSUME NEW h, NEW k, NEW q, CellTyped(h, k, q), NEW stage, Agreed(h, k, q, stage)
    PROVE  /\ stage \in {"none", "open", "due", "served"}
           /\ \A m \in Node : /\ h[m] \in OrderState
                              /\ stage = "none" => h[m] = NoCall
                              /\ stage = "open" => h[m] \in {NoCall, Exist}
                              /\ stage = "due" => h[m] \in {Exist, Acknowledged}
<1>1. StageAgrees(Phases(h, stage), stage)
  BY DEF Agreed, Agree
<1>2. ASSUME stage # "served" PROVE \A m \in Node : Phases(h, stage)[m] = h[m]
  BY <1>2 DEF Phases, Phase
<1>3. \A m \in Node : h[m] \in OrderState
  BY DEF CellTyped
<1> QED BY <1>1, <1>2, <1>3, StatesAreNumbers DEF StageAgrees

\* A step of n that leaves memories and frames alone.
LEMMA LocalStep ==
    ASSUME TypeOK, TypeOK', NEW c \in HallCell, NEW n \in Node, Health(c),
           OthersHold(n, c), UNCHANGED <<peerWorldviews, inbox>>,
           RawStep(Shown(c), Shown(c)', Kept(c), Waiting(c), hallCall[c], hallCall'[c], n)
    PROVE  Health(c)' /\ Progress(c)
<1> DEFINE h == Shown(c)
           g == Shown(c)'
           k == Kept(c)
           q == Waiting(c)
           stage == hallCall[c]
           next == hallCall'[c]
<1>1. CellTyped(h, k, q) /\ Agreed(h, k, q, stage)
  BY ViewsTyped DEF Health
<1>2. g \in [Node -> OrderState] /\ \A m \in Node : m # n => g[m] = h[m]
  BY DEF TypeOK, Shown, OthersHold
<1>3. Kept(c)' = k /\ Waiting(c)' = q
  BY DEF Kept, Waiting
<1>4. RawStep(h, g, k, q, stage, next, n)
  OBVIOUS
<1> HIDE DEF h, g, k, q, stage, next
<1>5. MayClimb(Phases(h, stage), KeptPhases(h, k, stage), FramePhases(h, q, stage),
               n, Phase(g, next, n, g[n]), stage, next)
  BY <1>1, <1>2, <1>4, RawClimb
<1>6. Agreed(g, k, q, next)
  BY <1>1, <1>2, <1>5, Carry
<1>7. Outcome(h, g, stage, next, n)
  BY <1>1, <1>2, <1>5, ClimbOutcome
<1> QED BY <1>3, <1>6, <1>7 DEF Health, Progress, h, g, k, q, stage, next

\* Where a node reads the others: in its memories.
LEMMA Heard ==
    ASSUME TypeOK, Together, NEW c \in HallCell, NEW n \in Node
    PROVE  /\ \A m \in Node : alive[n][m] = "alive"
           /\ \A m \in Node \ {n} : /\ peerWorldviews[n][m] # None
                                    /\ peerWorldviews[n][m].hall[c] = Kept(c)[n][m]
           /\ hall[n][c] = Shown(c)[n] /\ Shown(c)[n] \in OrderState
  BY DEF Together, Kept, Shown, TypeOK

\* The stage of the call after a step of n.
LEMMA StageAfter ==
    ASSUME TypeOK, TypeOK', NEW c \in HallCell, NEW n \in Node, OthersHold(n, c),
           NEW stage, stage \in {hallCall[c], "open"},
           stage = "open" => \A m \in Node : hall[m][c] <= Exist
    PROVE  HallCallAfter(c, stage) =
              IF stage = "open" /\ Shown(c)'[n] = Acknowledged THEN "due" ELSE stage
<1>1. \A m \in Node : hall[m][c] \in OrderState
  BY DEF TypeOK
<1>2. stage = "open" => \A m \in Node : m # n => hall'[m][c] # Acknowledged
  BY <1>1, StatesAreNumbers DEF OthersHold
<1>3. Shown(c)'[n] = hall'[n][c]
  BY DEF Shown
<1> QED BY <1>2, <1>3 DEF HallCallAfter

\* applyHallConsensus, on its own or after a completion,
LEMMA ConsentKeeps ==
    ASSUME TypeOK, TypeOK', Together, NEW c \in HallCell, NEW n \in Node, Health(c),
           Consents(n, c) \/ Completes(n, c)
    PROVE  Health(c)' /\ Progress(c)
<1> DEFINE h == Shown(c)
           g == Shown(c)'
           k == Kept(c)
           q == Waiting(c)
           stage == hallCall[c]
           next == hallCall'[c]
           known == \A m \in Node \ {n} : k[n][m] >= Exist
           served == \A m \in Node \ {n} : k[n][m] >= Complete
           s == IF Completes(n, c) /\ h[n] = Acknowledged THEN Complete ELSE h[n]
<1> USE StatesAreNumbers
<1>1. CellTyped(h, k, q) /\ Agreed(h, k, q, stage)
  BY ViewsTyped DEF Health
<1>2. /\ stage \in {"none", "open", "due", "served"}
      /\ \A m \in Node : /\ h[m] \in OrderState
                         /\ stage = "none" => h[m] = NoCall
                         /\ stage = "open" => h[m] \in {NoCall, Exist}
                         /\ stage = "due" => h[m] \in {Exist, Acknowledged}
  BY <1>1, ShownStage
<1>3. g[n] = IF s = Exist /\ known THEN Acknowledged
             ELSE IF s = Complete /\ served THEN NoCall ELSE s
  <2>1. Serve(hall[n][c]) = IF hall[n][c] = Acknowledged THEN Complete ELSE hall[n][c]
    BY Heard, ServeFacts
  <2>2. hall'[n][c] = ConsensusHall(n, s, peerWorldviews[n], alive[n], c)
    BY <2>1, Heard DEF Consents, Completes
  <2>3. s \in OrderState
    BY <1>2
  <2>4. /\ known <=> \A m \in Node \ {n} : peerWorldviews[n][m].hall[c] >= Exist
        /\ served <=> \A m \in Node \ {n} : peerWorldviews[n][m].hall[c] >= Complete
    BY Heard
  <2>5. g[n] = hall'[n][c]
    BY DEF Shown
  <2> HIDE DEF s, g, known, served
  <2> QED BY <2>2, <2>3, <2>4, <2>5, Heard, Results
<1>4. next = IF Completes(n, c) /\ h[n] = Acknowledged THEN StageServed(stage)
             ELSE IF stage = "open" /\ g[n] = Acknowledged THEN "due" ELSE stage
  <2>1. OthersHold(n, c)
    BY DEF Consents, Completes
  <2>2. stage = "open" => \A m \in Node : hall[m][c] <= Exist
    BY <1>2 DEF Shown
  <2>3. HallCallAfter(c, stage) = IF stage = "open" /\ g[n] = Acknowledged THEN "due" ELSE stage
    BY <2>1, <2>2, StageAfter
  <2>4. \/ Consents(n, c) /\ next = HallCallAfter(c, stage)
        \/ Completes(n, c) /\ next = IF h[n] = Acknowledged THEN StageServed(stage)
                                     ELSE HallCallAfter(c, stage)
    BY Heard DEF Consents, Completes
  <2>5. Consents(n, c) /\ Completes(n, c) /\ h[n] = Acknowledged => FALSE
    <3> SUFFICES ASSUME Consents(n, c), Completes(n, c), h[n] = Acknowledged PROVE FALSE
      OBVIOUS
    <3>1. hall'[n][c] = Acknowledged
      <4>1. hall'[n][c] = ConsensusHall(n, Acknowledged, peerWorldviews[n], alive[n], c)
        BY Heard DEF Consents
      <4> QED BY <4>1, Heard, Results
    <3>2. hall'[n][c] # Acknowledged
      <4>1. hall'[n][c] = ConsensusHall(n, Complete, peerWorldviews[n], alive[n], c)
        BY Heard, ServeFacts DEF Completes
      <4> QED BY <4>1, Heard, Results
    <3> QED BY <3>1, <3>2
  <2> HIDE DEF g, h, stage, next
  <2> QED BY <2>3, <2>4, <2>5
<1>5. RawStep(h, g, k, q, stage, next, n)
  <2> HIDE DEF h, g, k, q, stage, next, known, served
  <2>1. h[n] \in {0, 1, 2, 3}
    BY <1>2
  <2>2. CASE Completes(n, c) /\ h[n] = Acknowledged
    <3>1. s = Complete /\ stage \in {"due", "served"} /\ next = "served"
      BY <1>2, <1>4, <2>2 DEF StageServed
    <3>2. (g[n] = NoCall /\ served) \/ g[n] = Complete
      BY <1>3, <3>1
    <3> QED BY <2>2, <3>1, <3>2 DEF RawStep, served
  <2>3. CASE ~(Completes(n, c) /\ h[n] = Acknowledged)
    <3>1. /\ g[n] = IF h[n] = Exist /\ known THEN Acknowledged
                    ELSE IF h[n] = Complete /\ served THEN NoCall ELSE h[n]
          /\ next = IF stage = "open" /\ g[n] = Acknowledged THEN "due" ELSE stage
      BY <1>3, <1>4, <2>3
    <3>2. CASE h[n] = Exist /\ known
      BY <1>2, <3>1, <3>2 DEF RawStep, known
    <3>3. CASE h[n] = Complete /\ served
      BY <1>2, <3>1, <3>3 DEF RawStep, served
    <3>4. CASE ~(h[n] = Exist /\ known) /\ ~(h[n] = Complete /\ served)
      BY <1>2, <3>1, <3>4 DEF RawStep
    <3> QED BY <3>2, <3>3, <3>4
  <2> QED BY <2>2, <2>3
<1> QED BY <1>5, LocalStep DEF Consents, Completes

\* a press,
LEMMA PressKeeps ==
    ASSUME HallInv, TypeOK', Together, ~Repress, NEW c \in HallCell, NEW n \in Node,
           hallCall[c] # "tangled" => Health(c), Presses(n, c)
    PROVE  Health(c)' /\ Progress(c)
<1> DEFINE h == Shown(c)
           g == Shown(c)'
           k == Kept(c)
           q == Waiting(c)
           stage == hallCall[c]
           next == hallCall'[c]
           known == \A m \in Node \ {n} : k[n][m] >= Exist
<1> USE StatesAreNumbers
<1>1. TypeOK /\ CellTyped(h, k, q)
  BY ViewsTyped DEF HallInv
<1>2. /\ stage # "tangled" => stage \in {"none", "open", "due", "served"}
      /\ \A m \in Node : /\ h[m] \in OrderState
                         /\ stage = "none" => h[m] = NoCall
                         /\ stage = "open" => h[m] \in {NoCall, Exist}
                         /\ stage = "due" => h[m] \in {Exist, Acknowledged}
  <2>1. CASE stage # "tangled"
    BY <1>1, <2>1, ShownStage DEF Health
  <2>2. CASE stage = "tangled"
    BY <1>1, <2>2 DEF CellTyped
  <2> QED BY <2>1, <2>2
<1>3. g[n] = IF h[n] \in {NoCall, Exist} THEN IF known THEN Acknowledged ELSE Exist ELSE h[n]
  <2>1. hall'[n][c] = PressHall(n, h[n], peerWorldviews[n], alive[n], c) /\ h[n] \in OrderState
    BY <1>1, Heard DEF Presses
  <2>2. known <=> \A m \in Node \ {n} : peerWorldviews[n][m].hall[c] >= Exist
    BY <1>1, Heard
  <2>3. g[n] = hall'[n][c]
    BY DEF Shown
  <2> HIDE DEF h, g, known
  <2> QED BY <1>1, <2>1, <2>2, <2>3, Heard, Results
<1>4. hall[n][c] = h[n] /\ OthersHold(n, c) /\ next = HallCallAfter(c, StagePressed(stage, h[n], QuietHall(c)))
  BY <1>1, Heard DEF Presses
<1>5. CASE stage # "tangled" /\ (h[n] # NoCall \/ stage = "open")
  <2>1. stage = "open" => \A m \in Node : hall[m][c] <= Exist
    BY <1>2 DEF Shown
  <2>2. HallCallAfter(c, stage) = IF stage = "open" /\ g[n] = Acknowledged THEN "due" ELSE stage
    BY <1>1, <1>4, <2>1, StageAfter
  <2>3. next = IF stage = "open" /\ g[n] = Acknowledged THEN "due" ELSE stage
    BY <1>4, <1>5, <2>2 DEF StagePressed
  <2>4. RawStep(h, g, k, q, stage, next, n)
    <3> HIDE DEF h, g, k, q, stage, next, known
    <3>1. h[n] \in {0, 1, 2, 3} /\ stage \in {"none", "open", "due", "served"}
      BY <1>2, <1>5
    <3>2. CASE h[n] \in {NoCall, Exist} /\ known
      BY <1>2, <1>3, <1>5, <2>3, <3>1, <3>2 DEF RawStep, known
    <3>3. CASE h[n] \in {NoCall, Exist} /\ ~known
      BY <1>2, <1>3, <1>5, <2>3, <3>1, <3>3 DEF RawStep
    <3>4. CASE h[n] \notin {NoCall, Exist}
      BY <1>2, <1>3, <1>5, <2>3, <3>1, <3>4 DEF RawStep
    <3> QED BY <3>2, <3>3, <3>4
  <2> QED BY <1>1, <1>5, <2>4, LocalStep DEF Presses
<1>6. CASE stage = "tangled" \/ (h[n] = NoCall /\ stage # "open")
  <2>1. QuietHall(c) /\ stage \in {"none", "served", "tangled"}
    <3>1. stage \in {"none", "served", "tangled"}
      BY <1>2, <1>6
    <3> QED BY <3>1 DEF HallInv, NoPhantomCall, Presses
  <2>2. /\ \A m \in Node : h[m] = NoCall /\ hall[m][c] = NoCall
        /\ \A a, m \in Node : k[a][m] = NoCall
        /\ \A a \in Node : \A i \in 1 .. Len(q[a]) :
              q[a][i].state = NoCall /\ q[a][i].from = inbox[a][i].from
    BY <2>1 DEF QuietHall, HallTracesIn, Shown, Kept, Waiting
  <2>3. next = IF g[n] = Acknowledged THEN "due" ELSE "open"
    <3>1. next = HallCallAfter(c, "open")
      BY <1>4, <2>1, <2>2 DEF StagePressed
    <3>2. \A m \in Node : hall[m][c] <= Exist
      BY <2>2
    <3> QED BY <1>1, <1>4, <3>1, <3>2, StageAfter
  <2>4. Agreed(h, k, q, "open")
    <3> DEFINE P == Phases(h, "open")
               S == KeptPhases(h, k, "open")
               Q == FramePhases(h, q, "open")
    <3>1. /\ \A m \in Node : P[m] = 0
          /\ \A a, m \in Node : S[a][m] = 0
          /\ \A a \in Node : DOMAIN Q[a] = 1 .. Len(q[a])
          /\ \A a \in Node : \A i \in 1 .. Len(q[a]) : Q[a][i].phase = 0 /\ Q[a][i].from = q[a][i].from
      BY <2>2 DEF Phases, KeptPhases, FramePhases, FramePhase, Phase
    <3>2. \A a \in Node : \A i \in 1 .. Len(q[a]) : q[a][i].from \in Node
      <4> HIDE DEF h, k, q
      <4> QED BY <1>1, PhasesTyped DEF Frame
    <3>5. \A a \in Node : \A i \in DOMAIN Q[a] : Q[a][i].phase = 0 /\ Q[a][i].from \in Node
      <4> HIDE DEF Q
      <4> QED BY <3>1, <3>2
    <3> HIDE DEF P, S, Q
    <3>3. StageAgrees(P, "open") /\ MemoriesAgree(P, S)
      BY <3>1 DEF StageAgrees, MemoriesAgree, Cleared
    <3>4. FramesAgree(P, S, Q)
      <4> SUFFICES ASSUME NEW a \in Node, NEW i \in DOMAIN Q[a], Q[a][i].from # a
                   PROVE  \A j \in DOMAIN Q[a] : Q[a][i].phase <= Q[a][j].phase /\ Q[a][i].phase # 4
        BY <3>1, <3>5 DEF FramesAgree, Cleared
      <4> QED BY <3>5
    <3> QED BY <3>3, <3>4 DEF Agreed, Agree, P, S, Q
  <2>5. g \in [Node -> OrderState] /\ \A m \in Node : m # n => g[m] = h[m]
    BY <1>1, <1>4 DEF TypeOK, Shown, OthersHold
  <2>6. Kept(c)' = k /\ Waiting(c)' = q
    BY DEF Kept, Waiting, Presses
  <2>7. g[n] = IF known THEN Acknowledged ELSE Exist
    BY <1>3, <2>2
  <2>8. hall'[n][c] = g[n]
    BY DEF Shown
  <2> HIDE DEF h, g, k, q, next
  <2>9. RawStep(h, g, k, q, "open", next, n)
    BY <2>2, <2>3, <2>7 DEF RawStep, known
  <2>10. MayClimb(Phases(h, "open"), KeptPhases(h, k, "open"), FramePhases(h, q, "open"),
                  n, Phase(g, next, n, g[n]), "open", next)
    BY <1>1, <2>4, <2>5, <2>9, RawClimb
  <2>11. Agreed(g, k, q, next)
    BY <1>1, <2>4, <2>5, <2>10, Carry
  <2>12. Outcome(h, g, "open", next, n)
    BY <1>1, <2>4, <2>5, <2>10, ClimbOutcome
  <2>13. hall'[n][c] # NoCall
    BY <2>7, <2>8
  <2>14. Health(c)'
    BY <2>6, <2>11 DEF Health, g, k, q, next
  <2>15. Progress(c)
    BY <1>4, <2>1, <2>2, <2>12, <2>13 DEF Progress, h, g, next
  <2> QED BY <2>14, <2>15
<1> QED BY <1>5, <1>6

\* a broadcast
LEMMA SendKeeps ==
    ASSUME TypeOK, NEW c \in HallCell, NEW n \in Node, Health(c), Sends(n, c)
    PROVE  Health(c)' /\ Progress(c)
<1> DEFINE h == Shown(c)
           k == Kept(c)
           q == Waiting(c)
<1>1. CellTyped(h, k, q) /\ Agreed(h, k, q, hallCall[c])
  BY ViewsTyped DEF Health
<1>2. PICK receivers \in SUBSET Hearers, wv \in Worldview :
         /\ wv.from = n /\ wv.hall = hall[n]
         /\ inbox' = [r \in Node |-> IF r \in receivers THEN Append(inbox[r], wv) ELSE inbox[r]]
  BY DEF Sends
<1>3. receivers \in SUBSET Node
  BY DEF Hearers
<1>4. Shown(c)' = h /\ Kept(c)' = k /\ hallCall'[c] = hallCall[c]
  BY DEF Shown, Kept, Sends
<1>5. Waiting(c)' = [r \in Node |-> IF r \in receivers
                                    THEN Append(q[r], [from |-> n, state |-> h[n]]) ELSE q[r]]
  <2> DEFINE frame == [from |-> n, state |-> h[n]]
  <2>1. Waiting(c)' = [r \in Node |-> [i \in 1 .. Len(inbox'[r]) |->
           [from |-> inbox'[r][i].from, state |-> inbox'[r][i].hall[c]]]]
    BY DEF Waiting
  <2>2. \A r \in Node : q[r] = [i \in 1 .. Len(inbox[r]) |->
                                   [from |-> inbox[r][i].from, state |-> inbox[r][i].hall[c]]]
    BY DEF Waiting
  <2>3. ASSUME NEW r \in Node
        PROVE  [i \in 1 .. Len(inbox'[r]) |->
                  [from |-> inbox'[r][i].from, state |-> inbox'[r][i].hall[c]]]
                 = IF r \in receivers THEN Append(q[r], frame) ELSE q[r]
    <3>1. CASE r \notin receivers
      <4>1. inbox'[r] = inbox[r]
        BY <1>2, <3>1
      <4> QED BY <2>2, <3>1, <4>1, Zenon
    <3>2. CASE r \in receivers
      <4>1. inbox'[r] = Append(inbox[r], wv)
        BY <1>2, <3>2
      <4>2. inbox[r] \in Seq(Worldview) /\ q[r] \in Seq(Frame)
        BY <1>1 DEF TypeOK, CellTyped
      <4>3. /\ Len(inbox[r]) \in Nat /\ Len(inbox'[r]) = Len(inbox[r]) + 1
            /\ \A i \in 1 .. Len(inbox[r]) : inbox'[r][i] = inbox[r][i]
            /\ inbox'[r][Len(inbox[r]) + 1] = wv
        BY <4>1, <4>2
      <4>4. Len(q[r]) = Len(inbox[r])
        <5>1. DOMAIN q[r] = 1 .. Len(inbox[r])
          BY <2>2
        <5> QED BY <4>2, <4>3, <5>1
      <4>5. frame.from = wv.from /\ frame.state = wv.hall[c]
        BY <1>2 DEF Shown
      <4>6. Append(q[r], frame) = [i \in 1 .. Len(q[r]) + 1 |->
                                      IF i = Len(q[r]) + 1 THEN frame ELSE q[r][i]]
        <5> HIDE DEF frame, q
        <5> QED BY <4>2
      <4> DEFINE f[i \in 1 .. Len(inbox'[r])] ==
                   [from |-> inbox'[r][i].from, state |-> inbox'[r][i].hall[c]]
                 a == Append(q[r], frame)
      <4>7. DOMAIN f = DOMAIN a
        BY <4>3, <4>4, <4>6
      <4>8. ASSUME NEW i \in DOMAIN a PROVE f[i] = a[i]
        <5>1. i \in 1 .. Len(inbox[r]) + 1 /\ Len(inbox[r]) + 1 = Len(q[r]) + 1
          BY <4>4, <4>6
        <5>2. CASE i = Len(inbox[r]) + 1
          <6>1. a[i] = frame
            BY <4>6, <5>1, <5>2
          <6>2. f[i] = [from |-> wv.from, state |-> wv.hall[c]]
            BY <4>3, <5>1, <5>2
          <6> QED BY <6>1, <6>2, <4>5
        <5>3. CASE i # Len(inbox[r]) + 1
          <6>1. i \in 1 .. Len(inbox[r]) /\ i \in 1 .. Len(inbox'[r])
            BY <4>3, <5>1, <5>3
          <6>2. a[i] = q[r][i]
            BY <4>6, <5>1, <5>3
          <6>3. f[i] = [from |-> inbox'[r][i].from, state |-> inbox'[r][i].hall[c]]
            BY <6>1
          <6>4. inbox'[r][i] = inbox[r][i]
            BY <4>3, <6>1
          <6>5. f[i] = [from |-> inbox[r][i].from, state |-> inbox[r][i].hall[c]]
            BY <6>3, <6>4
          <6>6. q[r][i] = [from |-> inbox[r][i].from, state |-> inbox[r][i].hall[c]]
            BY <2>2, <6>1
          <6> QED BY <6>2, <6>5, <6>6
        <5> QED BY <5>2, <5>3
      <4>9. f = a
        <5>1. f = [i \in DOMAIN f |-> f[i]] /\ a = [i \in DOMAIN a |-> a[i]]
          BY <4>6
        <5> QED BY <4>7, <4>8, <5>1
      <4> QED BY <3>2, <4>9
    <3> QED BY <3>1, <3>2
  <2> QED BY <2>1, <2>3, Zenon
<1> DEFINE later == Waiting(c)'
<1>6. Agreed(h, k, later, hallCall[c])
  <2>1. later = [r \in Node |-> IF r \in receivers
                                THEN Append(q[r], [from |-> n, state |-> h[n]]) ELSE q[r]]
    BY <1>5
  <2> HIDE DEF h, k, q, later
  <2> QED BY <1>1, <1>3, <2>1, SendFrame
<1>7. Health(c)'
  BY <1>4, <1>6 DEF Health
<1>8. Progress(c)
  BY <1>4 DEF Progress, Outcome, OthersHold, Sends
<1> QED BY <1>7, <1>8

\* What a merge does to the views: the first frame moves into the memories.
LEMMA MergeViews ==
    ASSUME TypeOK, TypeOK', NEW c \in HallCell, NEW n \in Node, Merges(n, c)
    PROVE  LET h == Shown(c)
               q == Waiting(c)
               k1 == Kept(c)'
               wv == Head(inbox[n])
           IN  /\ Len(q[n]) > 0
               /\ q[n][1].from = wv.from /\ q[n][1].state = wv.hall[c]
               /\ wv.from \in Node
               /\ Waiting(c)' = [q EXCEPT ![n] = Tail(q[n])]
               /\ k1 \in [Node -> [Node -> OrderState]]
               /\ \A a, m \in Node : k1[a][m] = IF a = n /\ m = wv.from /\ m # n THEN wv.hall[c]
                                               ELSE Kept(c)[a][m]
               /\ wv.from = n => Remember(n, wv) = peerWorldviews[n]
               /\ \A m \in Node : peerWorldviews[n][m] # None => Remember(n, wv)[m] # None
               /\ \A m \in Node : Remember(n, wv)[m] # None => Remember(n, wv)[m].hall[c] = k1[n][m]
<1> DEFINE q == Waiting(c)
           wv == Head(inbox[n])
           entry(a, i) == [from |-> inbox[a][i].from, state |-> inbox[a][i].hall[c]]
           q1 == Waiting(c)'
           k1 == Kept(c)'
<1>1. CellTyped(Shown(c), Kept(c), q) /\ CellTyped(Shown(c)', k1, q1)
  <2>1. CellTyped(Shown(c), Kept(c), Waiting(c))
    BY ViewsTyped
  <2>2. CellTyped(Shown(c), Kept(c), Waiting(c))'
    BY ViewsTyped, PTL
  <2> QED BY <2>1, <2>2 DEF CellTyped
<1>2. \A a \in Node : /\ inbox[a] \in Seq(Worldview) /\ Len(inbox[a]) \in Nat
                      /\ q[a] = [i \in 1 .. Len(inbox[a]) |-> entry(a, i)]
                      /\ q[a] \in Seq(Frame) /\ Len(q[a]) = Len(inbox[a])
  <2>1. ASSUME NEW a \in Node
        PROVE  /\ inbox[a] \in Seq(Worldview) /\ Len(inbox[a]) \in Nat
               /\ q[a] = [i \in 1 .. Len(inbox[a]) |-> entry(a, i)]
    BY DEF TypeOK, Waiting
  <2>2. ASSUME NEW a \in Node PROVE q[a] \in Seq(Frame)
    BY <1>1 DEF CellTyped
  <2>3. ASSUME NEW a \in Node PROVE Len(q[a]) = Len(inbox[a])
    <3> HIDE DEF q
    <3>1. DOMAIN q[a] = 1 .. Len(inbox[a])
      BY <2>1
    <3>2. DOMAIN q[a] = 1 .. Len(q[a]) /\ Len(q[a]) \in Nat
      BY <2>2
    <3> QED BY <2>1, <3>1, <3>2
  <2> QED BY <2>1, <2>2, <2>3
<1>3. Len(inbox[n]) > 0 /\ wv = inbox[n][1] /\ 1 \in 1 .. Len(inbox[n])
  BY <1>2 DEF Merges
<1>4. q[n][1].from = wv.from /\ q[n][1].state = wv.hall[c] /\ Len(q[n]) > 0
  <2> HIDE DEF q, wv
  <2>1. q[n] = [j \in 1 .. Len(inbox[n]) |-> entry(n, j)] /\ Len(q[n]) = Len(inbox[n])
    BY <1>2
  <2>2. q[n][1] = entry(n, 1)
    BY <1>3, <2>1
  <2>3. q[n][1].from = inbox[n][1].from /\ q[n][1].state = inbox[n][1].hall[c]
    BY <2>2
  <2> QED BY <1>3, <2>1, <2>3
<1>5. wv \in Worldview /\ wv.from \in Node
  <2>1. inbox[n] \in Seq(Worldview)
    BY <1>2
  <2> HIDE DEF wv
  <2>2. wv \in Worldview
    BY <1>3, <2>1
  <2> QED BY <2>2 DEF Worldview
<1>6. q1 = [q EXCEPT ![n] = Tail(q[n])]
  <2>1. q1 = [a \in Node |-> [i \in 1 .. Len(inbox'[a]) |->
            [from |-> inbox'[a][i].from, state |-> inbox'[a][i].hall[c]]]]
    BY DEF Waiting
  <2>2. /\ inbox'[n] = Tail(inbox[n])
        /\ \A a \in Node : a # n => inbox'[a] = inbox[a]
    BY DEF Merges, TypeOK
  <2>3. ASSUME NEW a \in Node, a # n PROVE q1[a] = q[a]
    <3>1. q1[a] = [i \in 1 .. Len(inbox'[a]) |->
            [from |-> inbox'[a][i].from, state |-> inbox'[a][i].hall[c]]]
      BY <2>1
    <3>2. inbox'[a] = inbox[a]
      BY <2>2, <2>3
    <3>3. q[a] = [i \in 1 .. Len(inbox[a]) |->
            [from |-> inbox[a][i].from, state |-> inbox[a][i].hall[c]]]
      BY DEF Waiting
    <3> HIDE DEF q, q1
    <3> QED BY <3>1, <3>2, <3>3, Zenon
  <2>4. q1[n] = Tail(q[n])
    <3> DEFINE b == Tail(q[n])
    <3>1. q1[n] \in Seq(Frame) /\ q1[n] = [i \in 1 .. Len(inbox'[n]) |->
            [from |-> inbox'[n][i].from, state |-> inbox'[n][i].hall[c]]]
      BY <1>1, <2>1 DEF CellTyped
    <3>2. /\ Len(inbox'[n]) = Len(inbox[n]) - 1
          /\ \A i \in 1 .. Len(inbox[n]) - 1 : inbox'[n][i] = inbox[n][i + 1]
      BY <1>2, <1>3, <2>2
    <3>3. /\ b = [i \in 1 .. Len(inbox[n]) - 1 |-> q[n][i + 1]]
          /\ DOMAIN b = 1 .. Len(inbox[n]) - 1
      <4>1. q[n] \in Seq(Frame) /\ Len(q[n]) = Len(inbox[n])
        BY <1>2
      <4> HIDE DEF q
      <4> QED BY <4>1
    <3>4. ASSUME NEW i \in 1 .. Len(inbox[n]) - 1 PROVE q1[n][i] = q[n][i + 1]
      <4>1. i + 1 \in 1 .. Len(inbox[n])
        BY <1>2
      <4>2. q[n][i + 1] = entry(n, i + 1)
        <5>1. q[n] = [j \in 1 .. Len(inbox[n]) |-> entry(n, j)]
          BY <1>2
        <5> HIDE DEF q
        <5> QED BY <4>1, <5>1
      <4>3. q1[n][i] = [from |-> inbox'[n][i].from, state |-> inbox'[n][i].hall[c]]
        BY <3>1, <3>2
      <4> QED BY <3>2, <4>2, <4>3
    <3>5. q1[n] = [i \in 1 .. Len(inbox[n]) - 1 |-> q1[n][i]]
      BY <3>1, <3>2
    <3> HIDE DEF q, q1, b
    <3>6. q1[n] = b
      BY <3>3, <3>4, <3>5
    <3> QED BY <3>6 DEF b
  <2>5. q \in [Node -> Seq(Frame)] /\ q1 \in [Node -> Seq(Frame)]
    BY <1>1 DEF CellTyped
  <2> HIDE DEF q, q1
  <2> QED BY <2>3, <2>4, <2>5
<1>7. k1 \in [Node -> [Node -> OrderState]]
  BY <1>1 DEF CellTyped
<1>8. /\ peerWorldviews'[n] = Remember(n, wv)
      /\ \A a \in Node : a # n => peerWorldviews'[a] = peerWorldviews[a]
  BY DEF Merges, TypeOK
<1>9. ASSUME NEW m \in Node
      PROVE  /\ m = wv.from /\ m # n =>
                   Remember(n, wv)[m] # None /\ Remember(n, wv)[m].hall = wv.hall
             /\ m # wv.from \/ m = n => Remember(n, wv)[m] = peerWorldviews[n][m]
  <2>1. peerWorldviews[n] \in [Node -> StoredWorldview \cup {None}]
    BY DEF TypeOK
  <2>2. m = wv.from /\ m # n => Remember(n, wv)[m] = [hall |-> wv.hall,
              cab  |-> IF wv.list[n] = None THEN None ELSE wv.list[n].cab]
    BY <1>5, <2>1 DEF Remember
  <2>3. m # wv.from \/ m = n => Remember(n, wv)[m] = peerWorldviews[n][m]
    BY <1>5, <2>1 DEF Remember
  <2>4. m = wv.from /\ m # n => Remember(n, wv)[m] # None
    <3>1. /\ wv.hall \in [HallCell -> OrderState]
          /\ \A b \in Node : wv.list[b] # None => wv.list[b].cab \in [Floor -> OrderState]
      BY <1>5 DEF Worldview, NodeList, NodeEntry
    <3>2. m = wv.from /\ m # n => Remember(n, wv)[m] \in StoredWorldview
      BY <2>2, <3>1 DEF StoredWorldview
    <3> QED BY <3>2, EntryAssumption
  <2> QED BY <2>2, <2>3, <2>4
<1>10. wv.from = n => Remember(n, wv) = peerWorldviews[n]
  <2>1. peerWorldviews[n] \in [Node -> StoredWorldview \cup {None}]
    BY DEF TypeOK
  <2> QED BY <2>1 DEF Remember
<1>11. ASSUME NEW a \in Node, NEW m \in Node
       PROVE  k1[a][m] = IF a = n /\ m = wv.from /\ m # n THEN wv.hall[c] ELSE Kept(c)[a][m]
  <2>1. /\ k1[a][m] = IF peerWorldviews'[a][m] = None THEN NoCall
                      ELSE peerWorldviews'[a][m].hall[c]
        /\ Kept(c)[a][m] = IF peerWorldviews[a][m] = None THEN NoCall
                           ELSE peerWorldviews[a][m].hall[c]
    BY DEF Kept
  <2>2. CASE a = n /\ m = wv.from /\ m # n
    BY <1>8, <1>9, <2>1, <2>2
  <2>3. CASE ~(a = n /\ m = wv.from /\ m # n)
    <3>1. peerWorldviews'[a][m] = peerWorldviews[a][m]
      BY <1>8, <1>9, <2>3
    <3> QED BY <2>1, <2>3, <3>1
  <2> QED BY <2>2, <2>3
<1>12. ASSUME NEW m \in Node
       PROVE  Remember(n, wv)[m] # None => Remember(n, wv)[m].hall[c] = k1[n][m]
  BY <1>8 DEF Kept
<1> HIDE DEF q1, k1
<1> QED BY <1>4, <1>5, <1>6, <1>7, <1>9, <1>11, <1>12, <1>10 DEF q1, k1

\* After a merge everybody has still been heard by everybody.
LEMMA MergeTogether ==
    ASSUME TypeOK, TypeOK', Together, NEW c \in HallCell, NEW n \in Node, Merges(n, c)
    PROVE  Together'
<1> DEFINE stored == Remember(n, Head(inbox[n]))
<1>1. /\ peerWorldviews'[n] = stored
      /\ \A a \in Node : a # n => peerWorldviews'[a] = peerWorldviews[a]
  BY DEF Merges, TypeOK
<1>2. up' = up /\ alive' = alive
  BY DEF Merges
<1>3. \A m \in Node : peerWorldviews[n][m] # None => stored[m] # None
  BY MergeViews
<1> HIDE DEF stored
<1> QED BY <1>1, <1>2, <1>3 DEF Together

\* and the merge of a frame of another node keep the agreement.
LEMMA MergeKeeps ==
    ASSUME TypeOK, TypeOK', Together, NEW c \in HallCell, NEW n \in Node, Health(c),
           Merges(n, c), Head(inbox[n]).from # n
    PROVE  Health(c)' /\ Progress(c)
<1> DEFINE h == Shown(c)
           g == Shown(c)'
           k == Kept(c)
           q == Waiting(c)
           k1 == Kept(c)'
           q1 == Waiting(c)'
           stage == hallCall[c]
           next == hallCall'[c]
           wv == Head(inbox[n])
           v == wv.hall[c]
           from == wv.from
           stored == Remember(n, wv)
           P == Phases(h, stage)
           x == Phase(h, stage, from, v)
           Q1 == FramePhases(h, q1, stage)
           known == \A m \in Node \ {n} : k1[n][m] >= Exist
           served == \A m \in Node \ {n} : k1[n][m] >= Complete
<1> USE StatesAreNumbers
<1>1. /\ CellTyped(h, k, q) /\ Agreed(h, k, q, stage)
      /\ g \in [Node -> OrderState] /\ \A m \in Node : m # n => g[m] = h[m]
  <2>1. CellTyped(h, k, q) /\ Agreed(h, k, q, stage)
    BY ViewsTyped DEF Health
  <2> QED BY <2>1 DEF TypeOK, Shown, OthersHold, Merges
<1>2. /\ Len(q[n]) > 0
      /\ q[n][1].from = from /\ q[n][1].state = v
      /\ from \in Node /\ from # n
      /\ q1 = [q EXCEPT ![n] = Tail(q[n])]
      /\ k1 \in [Node -> [Node -> OrderState]]
      /\ \A a, m \in Node : k1[a][m] = IF a = n /\ m = from THEN v ELSE k[a][m]
      /\ \A m \in Node : peerWorldviews[n][m] # None => stored[m] # None
      /\ \A m \in Node : stored[m] # None => stored[m].hall[c] = k1[n][m]
  BY MergeViews
<1>3. /\ CellTyped(h, k1, q1) /\ Agreed(h, k1, q1, stage)
      /\ v \in OrderState
      /\ P[n] = Cleared => x >= Complete
      /\ x = Cleared => FramesDone(Q1, n)
  <2>1. /\ k1 \in [Node -> [Node -> OrderState]] /\ Len(q[n]) > 0
        /\ Remembers(k, k1, n, q[n][1].from, q[n][1].state)
    BY <1>2, Zenon DEF Remembers
  <2>2. q[n][1].from = from /\ q[n][1].state = v /\ q1 = [q EXCEPT ![n] = Tail(q[n])]
    BY <1>2
  <2> HIDE DEF h, k, q, k1, q1, stage, v, from
  <2>3. Taken(h, k1, [q EXCEPT ![n] = Tail(q[n])], stage, n, q[n][1].from, q[n][1].state)
    BY <1>1, <2>1, TakeFrame
  <2>4. Taken(h, k1, q1, stage, n, from, v)
    BY <2>2, <2>3, Zenon
  <2> QED BY <1>2, <2>4 DEF Taken
<1>4. v \in OrderState
  BY <1>3
<1>5. /\ stage \in {"none", "open", "due", "served"}
      /\ \A m \in Node : /\ h[m] \in OrderState
                         /\ stage = "none" => h[m] = NoCall
                         /\ stage = "open" => h[m] \in {NoCall, Exist}
                         /\ stage = "due" => h[m] \in {Exist, Acknowledged}
  BY <1>1, ShownStage
<1>6. g[n] = IF h[n] = NoCall
             THEN IF v # Exist THEN NoCall ELSE IF known THEN Acknowledged ELSE Exist
             ELSE IF h[n] = Exist /\ ~known THEN Exist
             ELSE IF h[n] \in {Exist, Acknowledged}
             THEN IF v # Complete THEN Acknowledged ELSE IF served THEN NoCall ELSE Complete
             ELSE IF served \/ v = NoCall THEN NoCall ELSE Complete
  <2>1. hall'[n][c] = MergeHall(n, h[n], v, stored, alive[n], c)
    BY Heard DEF Merges
  <2>2. /\ \A m \in Node : alive[n][m] = "alive"
        /\ \A m \in Node \ {n} : stored[m] # None
    BY <1>2, Heard
  <2>3. /\ known <=> \A m \in Node \ {n} : stored[m].hall[c] >= Exist
        /\ served <=> \A m \in Node \ {n} : stored[m].hall[c] >= Complete
    BY <1>2, <2>2
  <2>4. g[n] = hall'[n][c]
    BY DEF Shown
  <2> HIDE DEF h, g, v, stored, known, served
  <2> QED BY <1>4, <1>5, <2>1, <2>2, <2>3, <2>4, Results
<1>7. next = IF stage = "open" /\ g[n] = Acknowledged THEN "due" ELSE stage
  <2>1. OthersHold(n, c) /\ next = HallCallAfter(c, stage)
    BY DEF Merges, Echoes
  <2>2. stage = "open" => \A m \in Node : hall[m][c] <= Exist
    BY <1>5 DEF Shown
  <2> QED BY <2>1, <2>2, StageAfter
<1>8. /\ StageAgrees(P, stage) /\ P[n] = Phase(h, stage, n, h[n])
      /\ P[from] = Phase(h, stage, from, h[from])
      /\ x <= P[from] /\ (P[n] >= Acknowledged => x >= Exist)
  <2> DEFINE S1 == KeptPhases(h, k1, stage)
  <2>1. StageAgrees(P, stage) /\ MemoriesAgree(P, S1)
    BY <1>3 DEF Agreed, Agree
  <2>2. S1[n][from] = x
    <3>1. k1[n][from] = v
      BY <1>2
    <3> HIDE DEF k1, v, from
    <3> QED BY <1>2, <3>1 DEF KeptPhases
  <2>3. P[n] = Phase(h, stage, n, h[n]) /\ P[from] = Phase(h, stage, from, h[from])
    BY <1>2 DEF Phases
  <2> HIDE DEF P, S1, x
  <2> QED BY <1>2, <2>1, <2>2, <2>3 DEF MemoriesAgree
<1>9. RawStep(h, g, k1, q1, stage, next, n)
  <2> DEFINE cleared == (\E m \in Node \ {n} : P[m] = Cleared) /\ FramesDone(Q1, n)
  <2> SUFFICES LET s == h[n]
                   r == g[n]
               IN  \/ r = s /\ next = stage
                   \/ s = NoCall /\ r = Exist /\ stage = "open" /\ next = "open"
                   \/ s \in {NoCall, Exist} /\ r = Acknowledged /\ known /\ stage = "open" /\ next = "due"
                   \/ s = Exist /\ r = Acknowledged /\ known /\ stage \in {"due", "served"} /\ next = stage
                   \/ /\ s \in {Exist, Acknowledged} /\ r = Complete /\ (s = Exist => known)
                      /\ stage \in {"due", "served"} /\ next = "served"
                   \/ /\ s # NoCall /\ r = NoCall /\ (s = Exist => known) /\ (served \/ cleared)
                      /\ stage \in {"due", "served"} /\ next = "served"
    BY DEF RawStep
  <2>1. v = Exist \/ v = Complete => x = v
    BY DEF Phase
  <2>2. v = Complete => stage = "served"
    <3> SUFFICES ASSUME v = Complete PROVE stage = "served"
      OBVIOUS
    <3>1. P[from] \in 0 .. 4 /\ P[from] >= Complete
      <4>1. P[from] \in 0 .. 4
        BY <1>5, <1>8, <1>2 DEF Phase, Cleared
      <4> HIDE DEF P, x, v
      <4> QED BY <1>8, <2>1, <4>1
    <3>2. StageAgrees(P, stage) /\ from \in Node
      BY <1>2, <1>8
    <3>3. stage \in {"none", "open", "due", "served"}
      BY <1>5
    <3> HIDE DEF P, stage, from
    <3> QED BY <3>1, <3>2, <3>3 DEF StageAgrees
  <2>3. h[n] = NoCall /\ v = Exist => stage = "open"
    <3> SUFFICES ASSUME h[n] = NoCall, v = Exist PROVE stage = "open"
      OBVIOUS
    <3>1. stage # "due"
      BY <1>5
    <3>2. stage # "served"
      <4>1. stage = "served" => P[n] = Cleared
        BY <1>8 DEF Phase
      <4> HIDE DEF P, x, v
      <4> QED BY <1>3, <2>1, <4>1
    <3>3. stage # "none"
      <4>1. stage = "none" => P[from] = NoCall
        BY <1>2, <1>8 DEF StageAgrees
      <4> HIDE DEF P, x, v
      <4> QED BY <1>8, <2>1, <4>1
    <3> QED BY <1>5, <3>1, <3>2, <3>3
  <2>4. h[n] = Complete => stage = "served"
    BY <1>5
  <2>5. h[n] = Complete /\ v = NoCall => cleared
    <3> SUFFICES ASSUME h[n] = Complete, v = NoCall PROVE cleared
      OBVIOUS
    <3>1. P[n] = Complete
      BY <1>8 DEF Phase
    <3>2. x >= Exist
      BY <1>8, <3>1
    <3>3. x = Cleared /\ h[from] = NoCall
      BY <3>2 DEF Phase, Cleared
    <3>4. P[from] = Cleared
      BY <1>8, <2>4, <3>3 DEF Phase
    <3> QED BY <1>2, <1>3, <3>3, <3>4
  <2>6. h[n] \in {0, 1, 2, 3} /\ v \in {0, 1, 2, 3}
    BY <1>4, <1>5
  <2>7. /\ stage = "none" => h[n] = 0
        /\ stage = "open" => h[n] \in {0, 1}
    BY <1>5
  <2> HIDE DEF h, g, k1, q1, stage, next, v, known, served, cleared
  <2>8. CASE h[n] = NoCall
    BY <1>6, <1>7, <2>3, <2>6, <2>8
  <2>9. CASE h[n] = Exist
    <3>1. CASE known /\ v # Complete
      BY <1>5, <1>6, <1>7, <2>7, <2>9, <3>1
    <3>2. CASE known /\ v = Complete
      BY <1>6, <1>7, <2>2, <2>9, <3>2
    <3>3. CASE ~known
      BY <1>6, <1>7, <2>9, <3>3
    <3> QED BY <3>1, <3>2, <3>3
  <2>10. CASE h[n] = Acknowledged
    <3>1. CASE v # Complete
      BY <1>6, <1>7, <2>7, <2>10, <3>1
    <3>2. CASE v = Complete
      BY <1>6, <1>7, <2>2, <2>10, <3>2
    <3> QED BY <3>1, <3>2
  <2>11. CASE h[n] = Complete
    BY <1>6, <1>7, <2>4, <2>5, <2>11
  <2> QED BY <2>6, <2>8, <2>9, <2>10, <2>11
<1>10. OthersHold(n, c)
  BY DEF Merges
<1>11. Health(c)' /\ Progress(c)
  <2> HIDE DEF h, g, k1, q1, stage, next
  <2>1. MayClimb(Phases(h, stage), KeptPhases(h, k1, stage), FramePhases(h, q1, stage),
                 n, Phase(g, next, n, g[n]), stage, next)
    BY <1>1, <1>3, <1>9, RawClimb
  <2>2. Agreed(g, k1, q1, next)
    BY <1>1, <1>3, <2>1, Carry
  <2>3. Outcome(h, g, stage, next, n)
    BY <1>1, <1>3, <2>1, ClimbOutcome
  <2> QED BY <1>10, <2>2, <2>3 DEF Health, Progress, h, g, k1, q1, stage, next
<1> QED BY <1>11

\* A frame of the node itself brings it nothing new, or tangles a served call.
LEMMA OwnMergeKeeps ==
    ASSUME TypeOK, TypeOK', Together, NEW c \in HallCell, NEW n \in Node, Health(c),
           Merges(n, c), Head(inbox[n]).from = n
    PROVE  (hallCall'[c] # "tangled" => Health(c)') /\ Progress(c)
<1> DEFINE h == Shown(c)
           g == Shown(c)'
           k == Kept(c)
           q == Waiting(c)
           k1 == Kept(c)'
           q1 == Waiting(c)'
           stage == hallCall[c]
           next == hallCall'[c]
           wv == Head(inbox[n])
           v == wv.hall[c]
           P == Phases(h, stage)
           known == \A m \in Node \ {n} : k1[n][m] >= Exist
           served == \A m \in Node \ {n} : k1[n][m] >= Complete
           s == IF h[n] = Exist /\ known THEN Acknowledged
                ELSE IF h[n] = Complete /\ served THEN NoCall ELSE h[n]
<1> USE StatesAreNumbers
<1>1. /\ CellTyped(h, k, q) /\ Agreed(h, k, q, stage)
      /\ g \in [Node -> OrderState] /\ \A m \in Node : m # n => g[m] = h[m]
  <2>1. CellTyped(h, k, q) /\ Agreed(h, k, q, stage)
    BY ViewsTyped DEF Health
  <2> QED BY <2>1 DEF TypeOK, Shown, OthersHold, Merges
<1>2. /\ Len(q[n]) > 0
      /\ q[n][1].from = n /\ q[n][1].state = v
      /\ q1 = [q EXCEPT ![n] = Tail(q[n])]
      /\ k1 \in [Node -> [Node -> OrderState]]
      /\ \A a, m \in Node : k1[a][m] = k[a][m]
      /\ Remember(n, wv) = peerWorldviews[n]
      /\ \A m \in Node : peerWorldviews[n][m] # None => peerWorldviews[n][m].hall[c] = k1[n][m]
  BY MergeViews
<1>3. /\ CellTyped(h, k1, q1) /\ Agreed(h, k1, q1, stage)
      /\ v \in OrderState /\ v <= P[n]
  <2>1. /\ k1 \in [Node -> [Node -> OrderState]] /\ Len(q[n]) > 0
        /\ Remembers(k, k1, n, q[n][1].from, q[n][1].state)
    BY <1>2, Zenon DEF Remembers
  <2>2. q[n][1].from = n /\ q[n][1].state = v /\ q1 = [q EXCEPT ![n] = Tail(q[n])]
    BY <1>2
  <2> HIDE DEF h, k, q, k1, q1, stage, v
  <2>3. Taken(h, k1, [q EXCEPT ![n] = Tail(q[n])], stage, n, q[n][1].from, q[n][1].state)
    BY <1>1, <2>1, TakeFrame
  <2>4. Taken(h, k1, q1, stage, n, n, v)
    BY <2>2, <2>3, Zenon
  <2> QED BY <2>4 DEF Taken
<1>4. /\ stage \in {"none", "open", "due", "served"}
      /\ \A m \in Node : /\ h[m] \in OrderState
                         /\ stage = "none" => h[m] = NoCall
                         /\ stage = "open" => h[m] \in {NoCall, Exist}
                         /\ stage = "due" => h[m] \in {Exist, Acknowledged}
  BY <1>1, ShownStage
<1>5. /\ h[n] \in {0, 1, 2, 3} /\ v \in {0, 1, 2, 3}
      /\ h[n] # NoCall \/ stage # "served" => v <= h[n]
  BY <1>3, <1>4 DEF Phases, Phase
<1>6. /\ ConsensusHall(n, hall[n][c], peerWorldviews[n], alive[n], c) = s
      /\ g[n] = IF h[n] = NoCall
                THEN IF v # Exist THEN NoCall ELSE IF known THEN Acknowledged ELSE Exist
                ELSE IF h[n] = Exist /\ ~known THEN Exist
                ELSE IF h[n] \in {Exist, Acknowledged}
                THEN IF v # Complete THEN Acknowledged ELSE IF served THEN NoCall ELSE Complete
                ELSE IF served \/ v = NoCall THEN NoCall ELSE Complete
  <2>1. /\ hall'[n][c] = MergeHall(n, h[n], v, peerWorldviews[n], alive[n], c)
        /\ hall[n][c] = h[n]
    BY <1>2, Heard DEF Merges
  <2>2. /\ \A m \in Node : alive[n][m] = "alive"
        /\ \A m \in Node \ {n} : peerWorldviews[n][m] # None
    BY Heard
  <2>3. /\ known <=> \A m \in Node \ {n} : peerWorldviews[n][m].hall[c] >= Exist
        /\ served <=> \A m \in Node \ {n} : peerWorldviews[n][m].hall[c] >= Complete
    BY <1>2, <2>2
  <2>4. g[n] = hall'[n][c]
    BY DEF Shown
  <2> HIDE DEF h, g, v, known, served
  <2> QED BY <1>3, <1>4, <2>1, <2>2, <2>3, <2>4, Results
<1>7. next = IF g[n] # s THEN StageEchoed(HallCallAfter(c, stage)) ELSE HallCallAfter(c, stage)
  <2>1. Echoes(n, c) <=> g[n] # s
    <3>1. g[n] = hall'[n][c] /\ inbox[n] # <<>>
      BY DEF Shown, Merges
    <3> HIDE DEF g, s
    <3> QED BY <1>6, <3>1 DEF Echoes
  <2> HIDE DEF g, s
  <2> QED BY <2>1 DEF Merges
<1>8. HallCallAfter(c, stage) = IF stage = "open" /\ g[n] = Acknowledged THEN "due" ELSE stage
  <2>1. OthersHold(n, c)
    BY DEF Merges
  <2>2. stage = "open" => \A m \in Node : hall[m][c] <= Exist
    BY <1>4 DEF Shown
  <2> QED BY <2>1, <2>2, StageAfter
<1>9. OthersHold(n, c)
  BY DEF Merges
<1>10. CASE g[n] = s
  <2> HIDE DEF h, g, k1, q1, stage, next, v, known, served
  <2>1. next = IF stage = "open" /\ g[n] = Acknowledged THEN "due" ELSE stage
    BY <1>7, <1>8, <1>10
  <2>2. RawStep(h, g, k1, q1, stage, next, n)
    <3>1. CASE h[n] = Exist /\ known
      BY <1>4, <1>10, <2>1, <3>1 DEF RawStep, known
    <3>2. CASE h[n] = Complete /\ served
      BY <1>4, <1>10, <2>1, <3>2 DEF RawStep, served
    <3>3. CASE ~(h[n] = Exist /\ known) /\ ~(h[n] = Complete /\ served)
      BY <1>4, <1>5, <1>10, <2>1, <3>3 DEF RawStep
    <3> QED BY <3>1, <3>2, <3>3
  <2>3. MayClimb(Phases(h, stage), KeptPhases(h, k1, stage), FramePhases(h, q1, stage),
                 n, Phase(g, next, n, g[n]), stage, next)
    BY <1>1, <1>3, <2>2, RawClimb
  <2>4. Agreed(g, k1, q1, next)
    BY <1>1, <1>3, <2>3, Carry
  <2>5. Outcome(h, g, stage, next, n)
    BY <1>1, <1>3, <2>3, ClimbOutcome
  <2> QED BY <1>9, <2>4, <2>5 DEF Health, Progress, h, g, k1, q1, stage, next
<1>11. CASE g[n] # s
  <2>1. hall[n][c] = h[n] /\ hall'[n][c] = g[n]
    BY DEF Shown
  <2>2. OwnFrameRead(n)
    BY DEF OwnFrameRead, Merges, TypeOK
  <2> HIDE DEF h, g, k1, q1, stage, next, v, known, served
  <2>3. \/ h[n] = NoCall /\ g[n] \in {Exist, Acknowledged} /\ stage = "served"
        \/ h[n] = Complete /\ g[n] = NoCall /\ stage = "served"
    BY <1>4, <1>5, <1>6, <1>11
  <2>4. next = "tangled"
    BY <1>7, <1>8, <1>11, <2>3 DEF StageEchoed
  <2>5. Tangles(n, c)
    BY <2>1, <2>2, <2>3, <2>4 DEF Tangles, stage, next
  <2> QED BY <1>9, <2>4, <2>5 DEF Progress, next
<1> QED BY <1>10, <1>11

-----------------------------------------------------------------------------
(* A cluster in which nobody has failed yet. *)

\* Nobody is reported lost while it runs, and a button is pressed anew only when the
\* call before it is forgotten.
Orderly == ~FalseTimeouts /\ ~Repress

Untangled(c) == hallCall[c] # "tangled" => Health(c)
Calm == HallInv /\ (NobodyFailed => \A c \in HallCell : Together /\ Untangled(c))

Untouched(c) == (\A m \in Node : hall'[m][c] = hall[m][c]) /\ hallCall'[c] = hallCall[c]

\* Who has not crashed after a step had not crashed before it.
LEMMA FailureStays ==
    ASSUME TypeOK, [Next]_vars, NEW c \in HallCell, NobodyFailed'
    PROVE  NobodyFailed /\ \A n \in Node : ~Crash(n)
<1>1. \A n \in Node : crashes[n] \in Nat
  BY DEF TypeOK
<1>2. ASSUME NEW n \in Node, Crash(n) PROVE FALSE
  <2>1. crashes'[n] = crashes[n] + 1
    BY <1>2 DEF Crash, TypeOK
  <2> QED BY <1>1, <2>1 DEF NobodyFailed
<1>3. ASSUME NEW n \in Node, Lists(n) \/ Restart(n) PROVE crashes' = crashes
  BY <1>3 DEF Lists, UpdateAliveList, Restart
<1> QED
  BY <1>2, <1>3, Shapes
     DEF NobodyFailed, Stays, Sends, Consents, Completes, Presses, Merges

\* A tangled call stays tangled until it is pressed anew.
LEMMA TangledStays ==
    ASSUME TypeOK, [Next]_vars, NEW c \in HallCell, hallCall[c] = "tangled",
           \A n \in Node : ~Presses(n, c)
    PROVE  hallCall'[c] = "tangled"
<1>1. ASSUME NEW n \in Node, Lists(n) \/ Crash(n) \/ Restart(n) PROVE hallCall'[c] = hallCall[c]
  BY <1>1 DEF Lists, UpdateAliveList, Crash, Restart, history
<1>2. /\ HallCallAfter(c, "tangled") = "tangled"
      /\ StageServed("tangled") = "tangled"
      /\ StageEchoed("tangled") = "tangled"
  BY DEF HallCallAfter, StageServed, StageEchoed
<1> QED BY <1>1, <1>2, Shapes DEF Stays, Sends, Consents, Completes, Merges

LEMMA CalmStep ==
    ASSUME Orderly, HallInv, Together, [Next]_vars, NobodyFailed', NEW c \in HallCell,
           Untangled(c)
    PROVE  Together' /\ Untangled(c)' /\ (Progress(c) \/ Untouched(c))
<1>1. TypeOK /\ TypeOK' /\ ~FalseTimeouts /\ ~Repress
  BY NextTyped DEF HallInv, Orderly
<1>2. UNCHANGED <<up, alive, peerWorldviews>> => Together'
  BY DEF Together
<1>3. CASE Stays(c)
  <2>1. Together' /\ Untouched(c)
    BY <1>2, <1>3 DEF Stays, Untouched
  <2>2. /\ Shown(c)' = Shown(c) /\ Kept(c)' = Kept(c) /\ Waiting(c)' = Waiting(c)
        /\ hallCall'[c] = hallCall[c]
    BY <1>3 DEF Stays, Shown, Kept, Waiting
  <2> QED BY <2>1, <2>2 DEF Untangled, Health
<1>4. ASSUME NEW n \in Node, Presses(n, c)
      PROVE  Together' /\ Untangled(c)' /\ Progress(c)
  <2>1. Together'
    BY <1>2, <1>4 DEF Presses
  <2>2. Health(c)' /\ Progress(c)
    BY <1>1, <1>4, PressKeeps DEF Untangled
  <2> QED BY <2>1, <2>2 DEF Untangled
<1>5. ASSUME NEW n \in Node, Lists(n) PROVE FALSE
  <2>1. PICK new \in Node \cup {None}, lost \in SUBSET Node : UpdateAliveList(n, new, lost)
    BY <1>5 DEF Lists
  <2>2. /\ new # None \/ lost # {}
        /\ new \in Node => alive[n][new] # "alive"
        /\ \A m \in lost : ~up[m]
    BY <1>1, <2>1 DEF UpdateAliveList
  <2> QED BY <2>2 DEF Together
<1>6. ASSUME NEW n \in Node, Crash(n) \/ Restart(n) PROVE FALSE
  <2>1. up[n] /\ ~Crash(n)
    BY <1>1, FailureStays DEF Together
  <2> QED BY <1>6, <2>1 DEF Restart
<1>7. ASSUME NEW n \in Node, Sends(n, c) \/ Consents(n, c) \/ Completes(n, c) \/ Merges(n, c)
      PROVE  Together'
  <2>1. CASE Merges(n, c)
    BY <1>1, <2>1, MergeTogether
  <2>2. CASE Sends(n, c) \/ Consents(n, c) \/ Completes(n, c)
    BY <1>2, <2>2 DEF Sends, Consents, Completes
  <2> QED BY <1>7, <2>1, <2>2
<1>8. CASE hallCall[c] = "tangled" /\ \A n \in Node : ~Presses(n, c)
  <2>1. hallCall'[c] = "tangled"
    BY <1>1, <1>8, TangledStays
  <2>2. Together'
    BY <1>1, <1>3, <1>5, <1>6, <1>7, <1>8, Shapes
  <2> QED BY <1>8, <2>1, <2>2 DEF Untangled, Progress
<1>9. CASE hallCall[c] # "tangled"
  <2>1. Health(c)
    BY <1>9 DEF Untangled
  <2>2. ASSUME NEW n \in Node, Sends(n, c) PROVE Health(c)' /\ Progress(c)
    BY <1>1, <2>1, <2>2, SendKeeps
  <2>3. ASSUME NEW n \in Node, Consents(n, c) \/ Completes(n, c)
        PROVE  Health(c)' /\ Progress(c)
    BY <1>1, <2>1, <2>3, ConsentKeeps
  <2>4. ASSUME NEW n \in Node, Merges(n, c) PROVE Untangled(c)' /\ Progress(c)
    <3>1. CASE Head(inbox[n]).from = n
      BY <1>1, <2>1, <2>4, <3>1, OwnMergeKeeps DEF Untangled
    <3>2. CASE Head(inbox[n]).from # n
      BY <1>1, <2>1, <2>4, <3>2, MergeKeeps DEF Untangled
    <3> QED BY <3>1, <3>2
  <2>5. ASSUME NEW n \in Node, Sends(n, c) \/ Consents(n, c) \/ Completes(n, c)
        PROVE  Untangled(c)' /\ Progress(c)
    BY <2>2, <2>3, <2>5 DEF Untangled
  <2> QED BY <1>1, <1>3, <1>4, <1>5, <1>6, <1>7, <2>4, <2>5, Shapes
<1> QED BY <1>4, <1>8, <1>9

LEMMA CalmInductive == ASSUME Orderly PROVE Calm /\ [Next]_vars => Calm'
<1> SUFFICES ASSUME Calm, [Next]_vars PROVE Calm'
  OBVIOUS
<1>1. HallInv'
  BY HallInvInductive DEF Calm
<1>2. ASSUME NobodyFailed', NEW c \in HallCell PROVE Together' /\ Untangled(c)'
  <2>1. NobodyFailed
    BY <1>2, FailureStays DEF Calm, HallInv
  <2> QED BY <1>2, <2>1, CalmStep DEF Calm
<1> QED BY <1>1, <1>2 DEF Calm

LEMMA CalmInitial == SteadyInit => Calm
<1> SUFFICES ASSUME SteadyInit PROVE Calm
  OBVIOUS
<1>1. HallInv
  BY HallInvInitial
<1>2. Together
  <2> DEFINE entry == [hall |-> NoHall, cab |-> BootEntry.cab]
  <2>1. entry \in StoredWorldview
    BY StatesAreNumbers DEF NoHall, BootEntry, StoredWorldview
  <2>2. entry # None
    BY <2>1, EntryAssumption
  <2> QED BY <2>2 DEF SteadyInit, Together
<1>3. ASSUME NEW c \in HallCell PROVE Health(c)
  <2> DEFINE P == Phases(Shown(c), "none")
             S == KeptPhases(Shown(c), Kept(c), "none")
             Q == FramePhases(Shown(c), Waiting(c), "none")
  <2>1. hallCall[c] = "none" /\ \A n \in Node : hall[n][c] = NoCall /\ inbox[n] = <<>>
    BY <1>3 DEF SteadyInit, NoHall
  <2>2. \A n, m \in Node : Kept(c)[n][m] = NoCall
    BY <1>3 DEF SteadyInit, NoHall, Kept
  <2>3. /\ \A n \in Node : P[n] = NoCall /\ DOMAIN Q[n] = {}
        /\ \A n, m \in Node : S[n][m] = NoCall
    BY <2>1, <2>2 DEF Shown, Waiting, Phases, KeptPhases, FramePhases, Phase
  <2> HIDE DEF P, S, Q
  <2>4. StageAgrees(P, "none") /\ MemoriesAgree(P, S) /\ FramesAgree(P, S, Q)
    BY <2>3, StatesAreNumbers DEF StageAgrees, MemoriesAgree, FramesAgree, Cleared
  <2> QED BY <2>1, <2>4 DEF Health, Agreed, Agree, P, S, Q
<1> QED BY <1>1, <1>2, <1>3 DEF Calm, Untangled

LEMMA CalmHolds == ASSUME Orderly PROVE SteadySpec => []Calm
<1>1. Calm /\ [Next]_vars => Calm'
  BY CalmInductive
<1>2. SteadyInit => Calm
  BY CalmInitial
<1> QED BY <1>1, <1>2, PTL DEF SteadySpec

-----------------------------------------------------------------------------
(* What this means for the call. *)

\* What a step that is some node's progress, or none, does at every node.
LEMMA StepSeen ==
    ASSUME Orderly, Calm, [Next]_vars, NobodyFailed', NEW c \in HallCell,
           hallCall[c] = "served", NEW n \in Node, hall'[n][c] # hall[n][c]
    PROVE  \/ OwnFrameRead(n)
           \/ hallCall'[c] \in {"open", "due"} /\ \A m \in Node : hall[m][c] = NoCall
           \/ hall[n][c] # NoCall /\
              (hall'[n][c] = NoCall => \A m \in Node \ {n} : hall[m][c] \in {NoCall, Complete})
<1> USE StatesAreNumbers
<1>1. Progress(c)
  <2>1. NobodyFailed
    BY FailureStays DEF Calm, HallInv
  <2> QED BY <2>1, CalmStep DEF Calm, Untouched
<1>2. PICK a \in Node :
        /\ OthersHold(a, c)
        /\ \/ Outcome(Shown(c), Shown(c)', hallCall[c], hallCall'[c], a)
           \/ /\ \A m \in Node : hall[m][c] = NoCall
              /\ hall'[a][c] # NoCall
              /\ Outcome(Shown(c), Shown(c)', "open", hallCall'[c], a)
           \/ Tangles(a, c)
  BY <1>1 DEF Progress
<1>3. a = n
  BY <1>2 DEF OthersHold
<1>4. /\ \A m \in Node : Shown(c)[m] = hall[m][c]
      /\ Shown(c)'[n] = hall'[n][c]
  BY DEF Shown
<1>5. CASE Outcome(Shown(c), Shown(c)', hallCall[c], hallCall'[c], n)
  BY <1>4, <1>5 DEF Outcome
<1>6. CASE /\ \A m \in Node : hall[m][c] = NoCall
           /\ hall'[n][c] # NoCall
           /\ Outcome(Shown(c), Shown(c)', "open", hallCall'[c], n)
  BY <1>4, <1>6 DEF Outcome
<1>7. CASE Tangles(n, c)
  BY <1>7 DEF Tangles
<1> QED BY <1>2, <1>3, <1>5, <1>6, <1>7

\* What README.md promises in line 11, "no call is double-served", and keeps as far
\* as the worldviews of the others go: a served call comes back to a node that has
\* cleared it only when everybody has and the button is pressed again, or when the
\* node merges a worldview of its own.
OnlyOwnFramesResurrect ==
    [][NobodyFailed' => \A n \in Node, c \in HallCell :
          hallCall[c] = "served" /\ hall[n][c] = NoCall /\ hall'[n][c] # NoCall
             => \/ OwnFrameRead(n)
                \/ hallCall'[c] \in {"open", "due"} /\ \A m \in Node : hall[m][c] = NoCall]_vars

\* Until the first crash no worldview of a peer, however late, brings a served call
\* back (the merge rules of mergePeerWorldview).
THEOREM ServedStaysGone == ASSUME Orderly PROVE SteadySpec => OnlyOwnFramesResurrect
<1>1. ASSUME Calm, [Next]_vars
      PROVE  [NobodyFailed' => \A n \in Node, c \in HallCell :
                hallCall[c] = "served" /\ hall[n][c] = NoCall /\ hall'[n][c] # NoCall
                   => \/ OwnFrameRead(n)
                      \/ hallCall'[c] \in {"open", "due"} /\ \A m \in Node : hall[m][c] = NoCall]_vars
  BY <1>1, StepSeen
<1>2. SteadySpec => []Calm
  BY CalmHolds
<1> QED BY <1>1, <1>2, PTL DEF SteadySpec, OnlyOwnFramesResurrect

\* README.md, line 11, "Completion is only cleared once all peers have confirmed",
\* as far as the worldviews of the others go: a node clears a served call when all
\* have completed or cleared it, or when it merges a worldview of its own.
OnlyOwnFramesHurry ==
    [][NobodyFailed' => \A n \in Node, c \in HallCell :
          hallCall[c] = "served" /\ hall[n][c] = Complete /\ hall'[n][c] = NoCall
             => \/ OwnFrameRead(n)
                \/ \A m \in Node : hall[m][c] \in {NoCall, Complete}]_vars

\* Until the first crash neither consensus nor a peer's worldview makes a node clear a
\* completion somebody still waits for (applyHallConsensus, mergePeerWorldview).
THEOREM ClearingIsConfirmed == ASSUME Orderly PROVE SteadySpec => OnlyOwnFramesHurry
<1>1. ASSUME Calm, [Next]_vars
      PROVE  [NobodyFailed' => \A n \in Node, c \in HallCell :
                hallCall[c] = "served" /\ hall[n][c] = Complete /\ hall'[n][c] = NoCall
                   => \/ OwnFrameRead(n)
                      \/ \A m \in Node : hall[m][c] \in {NoCall, Complete}]_vars
  <2> SUFFICES ASSUME NobodyFailed', NEW n \in Node, NEW c \in HallCell, hallCall[c] = "served",
                      hall[n][c] = Complete, hall'[n][c] = NoCall, ~OwnFrameRead(n), NEW m \in Node
               PROVE  hall[m][c] \in {NoCall, Complete}
    OBVIOUS
  <2>1. hall'[n][c] # hall[n][c] /\ hall[n][c] # NoCall
    BY StatesAreNumbers
  <2> QED BY <1>1, <2>1, StepSeen
<1>2. SteadySpec => []Calm
  BY CalmHolds
<1> QED BY <1>1, <1>2, PTL DEF SteadySpec, OnlyOwnFramesHurry

\* A step of the cluster is one of CallLifecycle.
LEMMA LifecycleStep ==
    ASSUME Orderly, Calm, [Next]_vars, NobodyFailed'
    PROVE  Lifecycle!Next \/ UNCHANGED Lifecycle!vars
<1> DEFINE c == Call
           stage == hallCall[c]
           next == hallCall'[c]
           h == Shown(c)
           g == Shown(c)'
<1> USE StatesAreNumbers, CallAssumption
<1>1. /\ Holding = {m \in Node : h[m] # NoCall} /\ Holding' = {m \in Node : g[m] # NoCall}
      /\ Finished = {m \in Node : h[m] = Complete} /\ Finished' = {m \in Node : g[m] = Complete}
      /\ \A m \in Node : h[m] = hall[m][c] /\ g[m] = hall'[m][c]
  BY DEF Holding, Finished, Shown
<1>2. Progress(c) \/ Untouched(c)
  <2>1. NobodyFailed
    BY FailureStays DEF Calm, HallInv
  <2> QED BY <2>1, CalmStep DEF Calm
<1>3. CASE Untouched(c)
  BY <1>1, <1>3 DEF Untouched, Lifecycle!vars
<1>5. CASE stage = "tangled" /\ next = "tangled"
  <2>1. Lifecycle!Untangle
    BY <1>5 DEF Lifecycle!Untangle
  <2> QED BY <2>1 DEF Lifecycle!Next
<1>4. CASE Progress(c) /\ ~(stage = "tangled" /\ next = "tangled")
  <2>1. PICK n \in Node :
          /\ OthersHold(n, c)
          /\ \/ Outcome(h, g, stage, next, n)
             \/ /\ stage \in {"none", "served", "tangled"}
                /\ \A m \in Node : hall[m][c] = NoCall
                /\ hall'[n][c] # NoCall
                /\ Outcome(h, g, "open", next, n)
             \/ Tangles(n, c)
    BY <1>4 DEF Progress
  <2>2. \A m \in Node : m # n => g[m] = h[m]
    BY <1>1, <2>1 DEF OthersHold
  <2> HIDE DEF h, g
  <2>3. CASE g[n] = h[n] /\ next = stage
    BY <1>1, <2>2, <2>3 DEF Lifecycle!vars
  <2>4. CASE h[n] = NoCall /\ g[n] = Exist /\ stage = "open" /\ next = "open"
    <3>1. Lifecycle!Learn(n)
      BY <1>1, <2>2, <2>4 DEF Lifecycle!Learn, Lifecycle!MaybeDue
    <3> QED BY <3>1 DEF Lifecycle!Next
  <2>5. CASE /\ h[n] \in {NoCall, Exist} /\ g[n] = Acknowledged /\ stage = "open" /\ next = "due"
             /\ \A m \in Node \ {n} : h[m] = Exist
    <3>1. CASE h[n] = NoCall
      <4>1. Lifecycle!Learn(n)
        BY <1>1, <2>2, <2>5, <3>1 DEF Lifecycle!Learn, Lifecycle!MaybeDue
      <4> QED BY <4>1 DEF Lifecycle!Next
    <3>2. CASE h[n] = Exist
      <4>1. Lifecycle!Confirm
        BY <1>1, <2>2, <2>5, <3>2 DEF Lifecycle!Confirm
      <4> QED BY <4>1 DEF Lifecycle!Next
    <3> QED BY <2>5, <3>1, <3>2
  <2>6. CASE h[n] = Exist /\ g[n] = Acknowledged /\ next = stage
    BY <1>1, <2>2, <2>6 DEF Lifecycle!vars
  <2>7. CASE /\ h[n] \in {Exist, Acknowledged} /\ g[n] = Complete
             /\ stage \in {"due", "served"} /\ next = "served"
    <3>1. Lifecycle!Serve(n)
      BY <1>1, <2>2, <2>7 DEF Lifecycle!Serve
    <3> QED BY <3>1 DEF Lifecycle!Next
  <2>8. CASE /\ h[n] \in {Exist, Acknowledged, Complete} /\ g[n] = NoCall
             /\ stage \in {"due", "served"} /\ next = "served"
             /\ \A m \in Node \ {n} : h[m] \in {NoCall, Complete}
    <3>1. Lifecycle!Forget(n)
      BY <1>1, <2>2, <2>8 DEF Lifecycle!Forget
    <3> QED BY <3>1 DEF Lifecycle!Next
  <2>10. CASE Tangles(n, c)
    <3>1. /\ stage = "served" /\ next = "tangled"
          /\ \/ h[n] = NoCall /\ g[n] \in {Exist, Acknowledged}
             \/ h[n] = Complete /\ g[n] = NoCall
      BY <1>1, <2>10 DEF Tangles
    <3>2. \/ n \notin Holding /\ Holding' = Holding \cup {n} /\ Finished' = Finished
          \/ n \in Finished /\ Holding' = Holding \ {n} /\ Finished' = Finished \ {n}
      BY <1>1, <2>2, <3>1
    <3>3. Lifecycle!Echo(n)
      BY <3>1, <3>2 DEF Lifecycle!Echo
    <3> QED BY <3>3 DEF Lifecycle!Next
  <2>9. CASE /\ stage \in {"none", "served", "tangled"}
             /\ \A m \in Node : hall[m][c] = NoCall
             /\ hall'[n][c] # NoCall
             /\ Outcome(h, g, "open", next, n)
    <3>1. /\ \A m \in Node : h[m] = NoCall
          /\ g[n] # NoCall
      BY <1>1, <2>9
    <3>2. \/ g[n] = Exist /\ next = "open"
          \/ g[n] = Acknowledged /\ next = "due" /\ Node = {n}
      BY <2>9, <3>1 DEF Outcome
    <3>3. /\ Holding' = {n} /\ Holding = {} /\ Finished' = Finished
      BY <1>1, <2>2, <3>1, <3>2
    <3>4. Lifecycle!Press(n)
      BY <2>9, <3>2, <3>3 DEF Lifecycle!Press, Lifecycle!MaybeDue
    <3> QED BY <3>4 DEF Lifecycle!Next
  <2> HIDE DEF stage, next
  <2> QED BY <2>1, <2>3, <2>4, <2>5, <2>6, <2>7, <2>8, <2>9, <2>10 DEF Outcome
<1> QED BY <1>2, <1>3, <1>4, <1>5

\* Until the first crash, the OrderManagers keep to CallLifecycle, own worldviews and
\* what these may do to a served call included: each step maps to one of its steps,
\* or to none.
THEOREM LifecycleKept == ASSUME Orderly PROVE SteadySpec => KeepsLifecycle
<1>1. Calm /\ [Next]_vars =>
         [NobodyFailed' => Lifecycle!Next \/ UNCHANGED Lifecycle!vars]_vars
  BY LifecycleStep
<1>2. SteadyInit => Lifecycle!Init
  BY CallAssumption, StatesAreNumbers DEF SteadyInit, NoHall, Holding, Finished, Lifecycle!Init
<1>3. SteadySpec => []Calm
  BY CalmHolds
<1> QED BY <1>1, <1>2, <1>3, PTL DEF SteadySpec, KeepsLifecycle

-----------------------------------------------------------------------------
(* Crashes: who knows of a call that is due. *)

Fresh(c) == hallCall[c] \in {"none", "open", "due"}

\* What is remembered of a running node, or on its way from it, is not ahead of it.
Views(c) ==
    /\ \A n, m \in Node : up[n] /\ up[m] /\ n # m /\ peerWorldviews[n][m] # None =>
          peerWorldviews[n][m].hall[c] <= hall[m][c]
    /\ \A n \in Node : \A i \in 1 .. Len(inbox[n]) :
          up[n] /\ up[inbox[n][i].from] => inbox[n][i].hall[c] <= hall[inbox[n][i].from][c]

Spread(c) == hallCall[c] = "due" => \A m \in Node : up[m] => hall[m][c] >= Exist
Unconfirmed(c) == hallCall[c] = "open" => \A m \in Node : hall[m][c] # Acknowledged

DueInv ==
    /\ HallInv /\ DeadHaveCrashed
    /\ \A c \in HallCell : Unconfirmed(c)
    /\ NoneRestarted =>
          AllListed /\ \A c \in HallCell : (Fresh(c) => Views(c)) /\ Spread(c)

\* A call that is fresh after a step was fresh before it, or had left no trace.
LEMMA FreshBefore ==
    ASSUME HallInv, [Next]_vars, NEW c \in HallCell, Fresh(c)'
    PROVE  QuietHall(c) \/ (Unserved(c) /\ Unserved(c)')
<1>1. TypeOK /\ hallCall[c] \in CallStage
  BY DEF HallInv, TypeOK
<1>2. CASE hallCall[c] = "none"
  BY <1>2 DEF HallInv, NoPhantomCall
<1>3. CASE hallCall[c] # "none"
  <2>1. CASE hallCall'[c] = hallCall[c]
    BY <1>3, <2>1 DEF Fresh, Unserved
  <2>2. CASE hallCall'[c] = HallCallAfter(c, hallCall[c])
    BY <1>3, <2>2 DEF Fresh, Unserved, HallCallAfter
  <2>3. CASE hallCall'[c] = StageServed(hallCall[c])
    BY <1>1, <1>3, <2>3 DEF Fresh, Unserved, StageServed, CallStage
  <2>4. ASSUME NEW n \in Node, Presses(n, c) PROVE QuietHall(c) \/ (Unserved(c) /\ Unserved(c)')
    <3>1. CASE QuietHall(c)
      BY <3>1
    <3>2. CASE ~QuietHall(c)
      <4>1. StagePressed(hallCall[c], hall[n][c], QuietHall(c)) =
               IF hall[n][c] = NoCall /\ hallCall[c] = "served" THEN "repressed" ELSE hallCall[c]
        BY <3>2, Zenon DEF StagePressed
      <4>2. hallCall'[c] = HallCallAfter(c, IF hall[n][c] = NoCall /\ hallCall[c] = "served"
                                            THEN "repressed" ELSE hallCall[c])
        BY <2>4, <4>1 DEF Presses
      <4> QED BY <1>1, <1>3, <4>2 DEF Fresh, Unserved, HallCallAfter, CallStage
    <3> QED BY <3>1, <3>2
  <2>5. ASSUME NEW n \in Node, Lists(n) \/ Crash(n) \/ Restart(n) PROVE hallCall'[c] = hallCall[c]
    BY <2>5 DEF Lists, UpdateAliveList, Crash, Restart, history
  <2>6. CASE hallCall'[c] = StageEchoed(HallCallAfter(c, hallCall[c]))
    BY <1>1, <1>3, <2>6 DEF Fresh, Unserved, HallCallAfter, StageEchoed
  <2> QED
    BY <1>1, <2>1, <2>2, <2>3, <2>4, <2>5, <2>6, Shapes DEF Stays, Sends, Consents, Completes, Merges
<1> QED BY <1>2, <1>3

\* As long as the call is fresh nobody who runs steps back.
LEMMA FreshGrows ==
    ASSUME HallInv, TypeOK', [Next]_vars, NEW c \in HallCell, Fresh(c)'
    PROVE  \A n \in Node : up[n] /\ up'[n] => hall'[n][c] >= hall[n][c]
<1> SUFFICES ASSUME NEW n \in Node, up[n], up'[n] PROVE hall'[n][c] >= hall[n][c]
  OBVIOUS
<1>1. CASE QuietHall(c)
  <2>1. hall[n][c] = NoCall /\ hall'[n][c] \in OrderState
    BY <1>1 DEF QuietHall, HallTracesIn, TypeOK
  <2> QED BY <2>1, StatesAreNumbers
<1>2. CASE Unserved(c) /\ Unserved(c)'
  BY <1>2, UnservedStep DEF KeptStep
<1> QED BY <1>1, <1>2, FreshBefore

LEMMA QuietViews ==
    ASSUME TypeOK, NEW c \in HallCell, QuietHall(c)
    PROVE  Views(c)
<1>1. \A n \in Node : \A i \in 1 .. Len(inbox[n]) : inbox[n][i].from \in Node
  <2> SUFFICES ASSUME NEW n \in Node, NEW i \in 1 .. Len(inbox[n]) PROVE inbox[n][i].from \in Node
    OBVIOUS
  <2>1. inbox[n] \in Seq(Worldview)
    BY DEF TypeOK
  <2>2. inbox[n][i] \in Worldview
    BY <2>1
  <2> QED BY <2>2 DEF Worldview
<1> QED BY <1>1, StatesAreNumbers DEF QuietHall, HallTracesIn, Views

\* Memories and frames stay behind their nodes, as long as these do not step back
\* and none is started again.
LEMMA ViewsStep ==
    ASSUME TypeOK, TypeOK', [Next]_vars, NEW c \in HallCell, Views(c),
           \A n \in Node : up'[n] => up[n],
           \A n \in Node : up[n] /\ up'[n] => hall'[n][c] >= hall[n][c]
    PROVE  Views(c)'
<1> USE StatesAreNumbers
<1>1. /\ \A n \in Node : inbox[n] \in Seq(Worldview) /\ Len(inbox[n]) \in Nat
      /\ \A n \in Node : hall[n][c] \in {0, 1, 2, 3} /\ hall'[n][c] \in {0, 1, 2, 3}
      /\ \A n, m \in Node : peerWorldviews[n][m] # None => peerWorldviews[n][m].hall[c] \in {0, 1, 2, 3}
  BY DEF TypeOK, StoredWorldview
<1>2. ASSUME NEW n \in Node, NEW i \in 1 .. Len(inbox[n])
      PROVE  inbox[n][i].from \in Node /\ inbox[n][i].hall[c] \in {0, 1, 2, 3}
  <2>1. inbox[n][i] \in Worldview
    BY <1>1
  <2> QED BY <2>1 DEF Worldview
<1>3. ASSUME NEW n \in Node, NEW m \in Node, up'[n], up'[m], n # m,
             peerWorldviews'[n][m] = peerWorldviews[n][m], peerWorldviews'[n][m] # None
      PROVE  peerWorldviews'[n][m].hall[c] <= hall'[m][c]
  <2>1. /\ peerWorldviews[n][m].hall[c] <= hall[m][c] /\ hall[m][c] <= hall'[m][c]
        /\ peerWorldviews[n][m].hall[c] \in {0, 1, 2, 3}
    BY <1>1, <1>3 DEF Views
  <2> QED BY <1>1, <1>3, <2>1
<1>4. ASSUME NEW n \in Node, NEW i \in 1 .. Len(inbox[n]), up'[n], up'[inbox[n][i].from]
      PROVE  inbox[n][i].hall[c] <= hall'[inbox[n][i].from][c]
  <2> DEFINE m == inbox[n][i].from
  <2>1. m \in Node
    BY <1>2
  <2>2. inbox[n][i].hall[c] <= hall[m][c] /\ hall[m][c] <= hall'[m][c]
    BY <1>4, <2>1 DEF Views
  <2>3. hall[m][c] \in {0, 1, 2, 3} /\ hall'[m][c] \in {0, 1, 2, 3} /\ inbox[n][i].hall[c] \in {0, 1, 2, 3}
    BY <1>1, <1>2, <2>1
  <2> QED BY <2>2, <2>3
<1>5. CASE UNCHANGED <<peerWorldviews, inbox>>
  BY <1>2, <1>3, <1>4, <1>5 DEF Views
<1>6. ASSUME NEW a \in Node, Sends(a, c) PROVE Views(c)'
  <2>1. PICK receivers \in SUBSET Hearers, wv \in Worldview :
          /\ wv.from = a /\ wv.hall = hall[a]
          /\ inbox' = [r \in Node |-> IF r \in receivers THEN Append(inbox[r], wv) ELSE inbox[r]]
    BY <1>6 DEF Sends
  <2>2. peerWorldviews' = peerWorldviews /\ hall'[a][c] = hall[a][c]
    BY <1>6 DEF Sends
  <2>3. ASSUME NEW n \in Node, NEW i \in 1 .. Len(inbox'[n]), up'[n], up'[inbox'[n][i].from]
        PROVE  inbox'[n][i].hall[c] <= hall'[inbox'[n][i].from][c]
    <3>1. CASE inbox'[n] = inbox[n]
      BY <1>4, <2>3, <3>1
    <3>2. CASE inbox'[n] = Append(inbox[n], wv)
      <4>1. CASE i \in 1 .. Len(inbox[n])
        <5>1. inbox'[n][i] = inbox[n][i]
          BY <1>1, <3>2, <4>1
        <5> QED BY <1>4, <2>3, <4>1, <5>1
      <4>2. CASE i = Len(inbox[n]) + 1
        <5>1. inbox'[n][i] = wv
          BY <1>1, <3>2, <4>2
        <5>2. wv.hall[c] = hall'[a][c]
          BY <2>1, <2>2
        <5> QED BY <1>1, <2>1, <5>1, <5>2
      <4> QED BY <1>1, <3>2, <4>1, <4>2
    <3> QED BY <2>1, <3>1, <3>2
  <2> QED BY <1>3, <2>2, <2>3 DEF Views
<1>7. ASSUME NEW a \in Node, Merges(a, c) PROVE Views(c)'
  <2> DEFINE wv == Head(inbox[a])
             stored == Remember(a, wv)
  <2>1. /\ wv = inbox[a][1] /\ 1 \in 1 .. Len(inbox[a])
        /\ inbox'[a] = Tail(inbox[a]) /\ \A n \in Node : n # a => inbox'[n] = inbox[n]
        /\ peerWorldviews'[a] = stored
        /\ \A n \in Node : n # a => peerWorldviews'[n] = peerWorldviews[n]
    <3>1. inbox[a] # <<>> /\ inbox[a] \in Seq(Worldview)
      BY <1>1, <1>7 DEF Merges
    <3>2. wv = inbox[a][1] /\ 1 \in 1 .. Len(inbox[a])
      BY <3>1
    <3> QED BY <1>7, <3>2 DEF Merges, TypeOK
  <2>2. ASSUME NEW n \in Node, NEW m \in Node, up'[n], up'[m], n # m, peerWorldviews'[n][m] # None
        PROVE  peerWorldviews'[n][m].hall[c] <= hall'[m][c]
    <3>1. CASE peerWorldviews'[n][m] = peerWorldviews[n][m]
      BY <1>3, <2>2, <3>1
    <3>2. CASE peerWorldviews'[n][m] # peerWorldviews[n][m]
      <4>1. n = a /\ stored[m] # peerWorldviews[a][m]
        BY <2>1, <3>2
      <4>2. m = wv.from /\ stored[m].hall = wv.hall
        <5>1. peerWorldviews[a] \in [Node -> StoredWorldview \cup {None}]
          BY DEF TypeOK
        <5> HIDE DEF wv
        <5> QED BY <2>2, <4>1, <5>1 DEF Remember
      <4>3. inbox[a][1].hall[c] <= hall'[inbox[a][1].from][c]
        BY <1>4, <2>1, <2>2, <4>1, <4>2
      <4>4. peerWorldviews'[n][m].hall = inbox[a][1].hall /\ inbox[a][1].from = m
        BY <2>1, <4>1, <4>2
      <4> QED BY <4>3, <4>4
    <3> QED BY <3>1, <3>2
  <2>3. ASSUME NEW n \in Node, NEW i \in 1 .. Len(inbox'[n]), up'[n], up'[inbox'[n][i].from]
        PROVE  inbox'[n][i].hall[c] <= hall'[inbox'[n][i].from][c]
    <3>1. CASE n # a
      BY <1>4, <2>1, <2>3, <3>1
    <3>2. CASE n = a
      <4>1. i + 1 \in 1 .. Len(inbox[a]) /\ inbox'[n][i] = inbox[a][i + 1]
        <5>1. inbox[a] \in Seq(Worldview) /\ Len(inbox[a]) > 0 /\ inbox'[n] = Tail(inbox[a])
          BY <1>1, <2>1, <3>2
        <5>2. Len(Tail(inbox[a])) = Len(inbox[a]) - 1 /\ Len(inbox[a]) \in Nat
          BY <5>1
        <5>3. i \in 1 .. Len(inbox[a]) - 1
          BY <5>1, <5>2
        <5> QED BY <5>1, <5>3
      <4> QED BY <1>4, <2>3, <3>2, <4>1
    <3> QED BY <3>1, <3>2
  <2> QED BY <2>2, <2>3 DEF Views
<1>8. ASSUME NEW a \in Node, Crash(a) PROVE Views(c)'
  <2>1. /\ ~up'[a]
        /\ \A n \in Node : n # a => peerWorldviews'[n] = peerWorldviews[n] /\ inbox'[n] = inbox[n]
    BY <1>8 DEF Crash, TypeOK
  <2> QED BY <1>2, <1>3, <1>4, <2>1 DEF Views
<1>9. ASSUME NEW a \in Node, Lists(a) \/ Restart(a) PROVE UNCHANGED <<peerWorldviews, inbox>>
  BY <1>9 DEF Lists, UpdateAliveList, Restart, om
<1> QED
  BY <1>5, <1>6, <1>7, <1>8, <1>9, Shapes DEF Stays, Consents, Completes, Presses

\* A node acknowledges a call only if it believes all the others it lists to hold it.
Believes(n, stored, live, c) ==
    \A m \in Node \ {n} : live[m] = "alive" => stored[m] # None /\ stored[m].hall[c] >= Exist

LEMMA Acknowledging ==
    ASSUME NEW n \in Node, NEW s \in OrderState, s # Acknowledged, NEW v \in OrderState,
           NEW stored, NEW live, NEW c,
           \/ ConsensusHall(n, s, stored, live, c) = Acknowledged
           \/ PressHall(n, s, stored, live, c) = Acknowledged
           \/ MergeHall(n, s, v, stored, live, c) = Acknowledged
    PROVE  Believes(n, stored, live, c)
<1> USE StatesAreNumbers
<1>1. \A r \in OrderState : AcknowledgeHall(n, r, stored, live, c) # r => Believes(n, stored, live, c)
  BY DEF AcknowledgeHall, AllAliveHallAtOrAbove, Believes
<1>2. \A r \in OrderState : LET x == AcknowledgeHall(n, r, stored, live, c)
                            IN  x \in OrderState /\ (x = Acknowledged => r \in {Exist, Acknowledged})
  BY AcknowledgeHallFacts
<1>3. \A r \in OrderState : LET x == ClearHall(n, r, stored, live, c)
                            IN  x = r \/ x = NoCall
  BY ClearHallFacts
<1>4. CASE ConsensusHall(n, s, stored, live, c) = Acknowledged
  <2>1. AcknowledgeHall(n, s, stored, live, c) = Acknowledged
    BY <1>2, <1>3, <1>4 DEF ConsensusHall
  <2> QED BY <1>1, <2>1
<1>5. CASE PressHall(n, s, stored, live, c) = Acknowledged
  <2>1. Press(s) \in OrderState /\ Press(s) # Acknowledged
    BY DEF Press, ValidTransition
  <2> QED BY <1>1, <1>5, <2>1 DEF PressHall
<1>6. CASE MergeHall(n, s, v, stored, live, c) = Acknowledged
  <2> DEFINE learned == LearnHall(s, v)
             confirmed == AcknowledgeHall(n, learned, stored, live, c)
             completed == AdoptComplete(confirmed, v)
             cleared == ClearHall(n, completed, stored, live, c)
  <2>1. learned \in OrderState /\ learned # Acknowledged
    BY DEF LearnHall, Advance, ValidTransition
  <2>2. confirmed \in OrderState
    BY <1>2, <2>1
  <2>3. completed \in OrderState /\ (completed = Acknowledged => confirmed = Acknowledged)
    BY <2>2 DEF AdoptComplete, Advance, ValidTransition
  <2>4. cleared = Acknowledged
    BY <1>6 DEF MergeHall, AdoptCleared
  <2>5. completed = Acknowledged
    <3> HIDE DEF completed
    <3> QED BY <1>3, <2>3, <2>4
  <2> HIDE DEF learned, completed, cleared
  <2> QED BY <1>1, <2>1, <2>3, <2>5
<1> QED BY <1>4, <1>5, <1>6

\* A node that acknowledges a call in a step believes, after it, the others to hold it.
LEMMA AcknowledgeStep ==
    ASSUME TypeOK, [Next]_vars, NEW c \in HallCell, NEW n \in Node,
           hall[n][c] # Acknowledged, hall'[n][c] = Acknowledged
    PROVE  up'[n] /\ Believes(n, peerWorldviews'[n], alive'[n], c)
<1> USE StatesAreNumbers
<1>1. /\ hall[n][c] \in OrderState
      /\ \A s \in OrderState : s # Acknowledged => Serve(s) = s
  BY ServeFacts DEF TypeOK
<1>2. ASSUME Consents(n, c) \/ Completes(n, c) \/ Presses(n, c)
      PROVE  up'[n] /\ Believes(n, peerWorldviews'[n], alive'[n], c)
  <2>1. /\ \/ ConsensusHall(n, hall[n][c], peerWorldviews[n], alive[n], c) = Acknowledged
           \/ PressHall(n, hall[n][c], peerWorldviews[n], alive[n], c) = Acknowledged
        /\ peerWorldviews' = peerWorldviews /\ alive' = alive /\ up'[n]
    BY <1>1, <1>2 DEF Consents, Completes, Presses
  <2>2. Believes(n, peerWorldviews[n], alive[n], c)
    BY <1>1, <2>1, Acknowledging
  <2> QED BY <2>1, <2>2
<1>3. ASSUME Merges(n, c)
      PROVE  up'[n] /\ Believes(n, peerWorldviews'[n], alive'[n], c)
  <2>1. /\ MergeHall(n, hall[n][c], Head(inbox[n]).hall[c], Remember(n, Head(inbox[n])), alive[n], c)
              = Acknowledged
        /\ peerWorldviews'[n] = Remember(n, Head(inbox[n])) /\ alive' = alive /\ up'[n]
    BY <1>3 DEF Merges, TypeOK
  <2>2. Head(inbox[n]).hall[c] \in OrderState
    <3>1. inbox[n] \in Seq(Worldview) /\ inbox[n] # <<>>
      BY <1>3 DEF Merges, TypeOK
    <3>2. Head(inbox[n]) \in Worldview
      BY <3>1
    <3> QED BY <3>2 DEF Worldview
  <2>3. Believes(n, Remember(n, Head(inbox[n])), alive[n], c)
    BY <1>1, <2>1, <2>2, Acknowledging
  <2> QED BY <2>1, <2>3
<1>4. ASSUME NEW a \in Node, OthersHold(a, c) PROVE a = n
  BY <1>4 DEF OthersHold
<1>5. ASSUME NEW a \in Node, Lists(a) \/ Crash(a) \/ Restart(a) PROVE FALSE
  <2>1. CASE Lists(a) \/ Restart(a)
    BY <2>1 DEF Lists, UpdateAliveList, Restart, om
  <2>2. CASE Crash(a)
    BY <2>2 DEF Crash, NoHall, TypeOK
  <2> QED BY <1>5, <2>1, <2>2
<1>6. ~Stays(c) /\ \A a \in Node : ~Sends(a, c)
  BY DEF Stays, Sends
<1>7. ASSUME NEW a \in Node, Consents(a, c) \/ Completes(a, c) \/ Presses(a, c) \/ Merges(a, c)
      PROVE  a = n
  BY <1>4, <1>7 DEF Consents, Completes, Presses, Merges
<1> QED BY <1>2, <1>3, <1>5, <1>6, <1>7, Shapes

LEMMA BecomesDue ==
    ASSUME TypeOK, [Next]_vars, NEW c \in HallCell, hallCall'[c] = "due", hallCall[c] # "due"
    PROVE  \E a \in Node : hall'[a][c] = Acknowledged
<1>1. hallCall[c] \in CallStage
  BY DEF TypeOK
<1>2. ASSUME NEW stage, stage # "due", HallCallAfter(c, stage) = "due"
      PROVE  \E a \in Node : hall'[a][c] = Acknowledged
  BY <1>2 DEF HallCallAfter
<1>3. ASSUME NEW s, NEW quiet PROVE StagePressed(hallCall[c], s, quiet) # "due"
  BY DEF StagePressed
<1>4. ASSUME NEW n \in Node, Presses(n, c) PROVE \E a \in Node : hall'[a][c] = Acknowledged
  <2> DEFINE stage == StagePressed(hallCall[c], hall[n][c], QuietHall(c))
  <2>1. HallCallAfter(c, stage) = "due" /\ stage # "due"
    BY <1>3, <1>4 DEF Presses
  <2> HIDE DEF stage
  <2> QED BY <1>2, <2>1
<1>5. ASSUME NEW n \in Node, Completes(n, c) PROVE \E a \in Node : hall'[a][c] = Acknowledged
  <2>1. StageServed(hallCall[c]) # "due"
    BY <1>1 DEF StageServed, CallStage
  <2> QED BY <1>2, <1>5, <2>1 DEF Completes
<1>6. ASSUME NEW n \in Node, Consents(n, c) \/ Merges(n, c)
      PROVE  \E a \in Node : hall'[a][c] = Acknowledged
  <2>1. HallCallAfter(c, hallCall[c]) = "due"
    BY <1>6 DEF Consents, Merges, StageEchoed
  <2> QED BY <1>2, <2>1
<1>7. ASSUME NEW n \in Node, Sends(n, c) \/ Lists(n) \/ Crash(n) \/ Restart(n)
      PROVE  hallCall'[c] = hallCall[c]
  BY <1>7 DEF Sends, Lists, UpdateAliveList, Crash, Restart, history
<1> QED BY <1>4, <1>5, <1>6, <1>7, Shapes DEF Stays

LEMMA StaysUnconfirmed ==
    ASSUME TypeOK, [Next]_vars, NEW c \in HallCell, Unconfirmed(c)
    PROVE  Unconfirmed(c)'
<1> SUFFICES ASSUME hallCall'[c] = "open", NEW m \in Node PROVE hall'[m][c] # Acknowledged
  BY DEF Unconfirmed
<1>1. hallCall[c] \in CallStage /\ hall \in [Node -> [HallCell -> OrderState]]
  BY DEF TypeOK
<1>2. ASSUME NEW stage, HallCallAfter(c, stage) = "open" PROVE hall'[m][c] # Acknowledged
  BY <1>2 DEF HallCallAfter
<1>3. ASSUME NEW n \in Node, Consents(n, c) \/ Presses(n, c) \/ Merges(n, c)
      PROVE  hall'[m][c] # Acknowledged
  <2>1. \E stage : HallCallAfter(c, stage) = "open"
    BY <1>3 DEF Consents, Presses, Merges, StageEchoed
  <2> QED BY <1>2, <2>1
<1>4. ASSUME NEW n \in Node, Completes(n, c) PROVE hall'[m][c] # Acknowledged
  <2>1. StageServed(hallCall[c]) # "open"
    BY <1>1 DEF StageServed, CallStage
  <2> QED BY <1>2, <1>4, <2>1 DEF Completes
<1>5. ASSUME NEW n \in Node, Sends(n, c) \/ Lists(n) \/ Restart(n)
      PROVE  hallCall'[c] = hallCall[c] /\ hall'[m][c] = hall[m][c]
  BY <1>5 DEF Sends, Lists, UpdateAliveList, Restart, history, om
<1>6. ASSUME NEW n \in Node, Crash(n)
      PROVE  hallCall'[c] = hallCall[c] /\ hall'[m][c] \in {hall[m][c], NoCall}
  BY <1>1, <1>6 DEF Crash, history, NoHall
<1> QED BY <1>3, <1>4, <1>5, <1>6, Shapes, StatesAreNumbers DEF Stays, Unconfirmed

LEMMA DueInductive ==
    ASSUME ~FalseTimeouts, MaxCrashes <= 1, DueInv, [Next]_vars
    PROVE  DueInv'
<1> USE StatesAreNumbers
<1>1. HallInv /\ TypeOK /\ HallInv' /\ TypeOK'
  BY HallInvInductive, NextTyped DEF DueInv, HallInv
<1>2. /\ DeadHaveCrashed'
      /\ NoneRestarted' => /\ NoneRestarted /\ AllListed'
                           /\ \A n \in Node : up'[n] => up[n]
  BY <1>1, LifeKept DEF DueInv
<1>3. ASSUME NEW c \in HallCell PROVE Unconfirmed(c)'
  BY <1>1, StaysUnconfirmed DEF DueInv
<1>4. ASSUME NoneRestarted' PROVE AllListed' /\ \A c \in HallCell : (Fresh(c)' => Views(c)') /\ Spread(c)'
  <2>1. /\ \A n \in Node : up'[n] => up[n]
        /\ NoneRestarted /\ AllListed'
    BY <1>1, <1>2, <1>4
  <2>2. ASSUME NEW c \in HallCell, Fresh(c)' PROVE Views(c)'
    <3>1. Views(c)
      <4>1. CASE QuietHall(c)
        BY <1>1, <4>1, QuietViews
      <4>2. CASE Unserved(c)
        BY <2>1, <4>2 DEF Unserved, Fresh, DueInv
      <4> QED BY <1>1, <2>2, <4>1, <4>2, FreshBefore
    <3>2. \A n \in Node : up[n] /\ up'[n] => hall'[n][c] >= hall[n][c]
      BY <1>1, <2>2, FreshGrows
    <3> QED BY <1>1, <2>1, <3>1, <3>2, ViewsStep
  <2>3. ASSUME NEW c \in HallCell PROVE Spread(c)'
    <3> SUFFICES ASSUME hallCall'[c] = "due", NEW m \in Node, up'[m] PROVE hall'[m][c] >= Exist
      BY DEF Spread
    <3>1. Fresh(c)' /\ up[m] /\ hall[m][c] \in {0, 1, 2, 3} /\ hall'[m][c] \in {0, 1, 2, 3}
      BY <1>1, <2>1 DEF Fresh, TypeOK
    <3>2. CASE hallCall[c] = "due"
      <4>1. hall[m][c] >= Exist
        BY <2>1, <3>1, <3>2 DEF DueInv, Spread
      <4>2. hall'[m][c] >= hall[m][c]
        BY <1>1, <3>1, FreshGrows
      <4> QED BY <3>1, <4>1, <4>2
    <3>3. CASE hallCall[c] # "due"
      <4>1. PICK a \in Node : hall'[a][c] = Acknowledged
        BY <1>1, <3>3, BecomesDue
      <4>2. hall[a][c] # Acknowledged
        <5>1. CASE QuietHall(c)
          BY <5>1 DEF QuietHall, HallTracesIn
        <5>2. CASE Unserved(c)
          BY <3>3, <5>2 DEF Unserved, Unconfirmed, DueInv
        <5> QED BY <1>1, <3>1, <5>1, <5>2, FreshBefore
      <4>3. up'[a] /\ Believes(a, peerWorldviews'[a], alive'[a], c)
        BY <1>1, <4>1, <4>2, AcknowledgeStep
      <4>4. CASE m = a
        BY <4>1, <4>4
      <4>5. CASE m # a
        <5>1. peerWorldviews'[a][m] # None /\ peerWorldviews'[a][m].hall[c] >= Exist
          BY <2>1, <4>3, <4>5 DEF Believes, AllListed
        <5>2. peerWorldviews'[a][m].hall[c] <= hall'[m][c]
          BY <2>2, <3>1, <4>3, <4>5, <5>1 DEF Views
        <5>3. peerWorldviews'[a][m].hall[c] \in {0, 1, 2, 3}
          BY <1>1, <5>1 DEF TypeOK, StoredWorldview
        <5> QED BY <3>1, <5>1, <5>2, <5>3
      <4> QED BY <4>4, <4>5
    <3> QED BY <3>2, <3>3
  <2> QED BY <2>1, <2>2, <2>3
<1> QED BY <1>1, <1>2, <1>3, <1>4 DEF DueInv, Fresh

LEMMA DueInitial == SteadyInit => DueInv
<1> SUFFICES ASSUME SteadyInit PROVE DueInv
  OBVIOUS
<1>1. HallInv
  BY HallInvInitial
<1>2. \A c \in HallCell : hallCall[c] = "none"
  BY DEF SteadyInit
<1>3. ASSUME NEW c \in HallCell PROVE Views(c)
  BY <1>1, <1>2, QuietViews DEF HallInv, NoPhantomCall
<1>4. AllListed /\ DeadHaveCrashed
  BY DEF SteadyInit, AllListed, DeadHaveCrashed
<1> QED BY <1>1, <1>2, <1>3, <1>4 DEF DueInv, Unconfirmed, Spread

\* If no running node is reported lost and each node crashes at most once, then
\* until a crashed node is started again every node that runs holds a call that
\* somebody has acknowledged (allAliveHallAtOrAbove, UpdateAliveList).
THEOREM DueCallsSpread ==
    ASSUME ~FalseTimeouts, MaxCrashes <= 1
    PROVE  SteadySpec => []DueCallReplicated
<1>1. DueInv => DueCallReplicated
  <2> SUFFICES ASSUME DueInv, NEW c \in HallCell, hallCall[c] = "due", NoneRestarted,
                      NEW m \in Node, up[m]
               PROVE  hall[m][c] \in {Exist, Acknowledged}
    BY DEF DueCallReplicated
  <2>1. hall[m][c] >= Exist
    BY DEF DueInv, Spread
  <2>2. hall[m][c] \in {NoCall, Exist, Acknowledged}
    BY DEF DueInv, HallInv, NoEarlyCompletion, Unserved, HallTracesIn
  <2> QED BY <2>1, <2>2, StatesAreNumbers
<1>2. DueInv /\ [Next]_vars => DueInv'
  BY DueInductive
<1>3. SteadyInit => DueInv
  BY DueInitial
<1> QED BY <1>1, <1>2, <1>3, PTL DEF SteadySpec
=============================================================================
