----------------------- MODULE NetworkHandler_proofs ------------------------
(***************************************************************************)
(* For any number of peers and every capacity of the channels: the frames  *)
(* stay in order, the alive list follows peers.Receiver, and who sends its *)
(* heartbeats is not lost while the receiver is not held up; the lamps     *)
(* never go back, and the newest worldview, once merged or lit, stays.     *)
(***************************************************************************)
EXTENDS NetworkHandler, TLAPS

-----------------------------------------------------------------------------
(* Queues of worldviews.                                                   *)

\* The versions in queue s do not fall, from lo at the front to hi at the back.
Run(s, lo, hi) ==
    /\ lo <= hi
    /\ \A i \in 1 .. Len(s) : lo <= s[i] /\ s[i] <= hi
    /\ \A i, j \in 1 .. Len(s) : i <= j => s[i] <= s[j]

\* What Append does.
LEMMA AppendFacts ==
    ASSUME NEW S, NEW s \in Seq(S), NEW x \in S
    PROVE  /\ Append(s, x) \in Seq(S)
           /\ Len(Append(s, x)) = Len(s) + 1
           /\ Len(s) \in Nat
           /\ \A i \in 1 .. Len(s) : s[i] \in S /\ Append(s, x)[i] = s[i]
           /\ Append(s, x)[Len(s) + 1] = x
OBVIOUS

\* What Head and Tail do.
LEMMA TailFacts ==
    ASSUME NEW S, NEW s \in Seq(S), s # <<>>
    PROVE  /\ Tail(s) \in Seq(S) /\ Head(s) \in S
           /\ Len(s) \in Nat \ {0}
           /\ Len(Tail(s)) = Len(s) - 1
           /\ \A i \in 1 .. Len(s) : s[i] \in S
           /\ \A i \in 1 .. Len(Tail(s)) : Tail(s)[i] = s[i + 1]
           /\ Head(s) = s[1]
<1>1. Tail(s) \in Seq(S) /\ Len(s) \in Nat \ {0} /\ Len(Tail(s)) = Len(s) - 1
  OBVIOUS
<1>2. Head(s) = s[1]
  OBVIOUS
<1>3. \A i \in 1 .. Len(s) : s[i] \in S
  OBVIOUS
<1>4. \A i \in 1 .. Len(Tail(s)) : Tail(s)[i] = s[i + 1]
  OBVIOUS
<1>5. s[1] \in S
  BY <1>1, <1>3
<1> QED BY <1>1, <1>2, <1>3, <1>4, <1>5

\* The empty queue, and a queue whose bounds are widened.
LEMMA RunWidened ==
    ASSUME NEW s \in Seq(Nat), NEW lo \in Nat, NEW hi \in Nat, NEW top \in Nat,
           Run(s, lo, hi), hi <= top
    PROVE  Run(s, lo, top)
<1>1. Len(s) \in Nat /\ \A i \in 1 .. Len(s) : s[i] \in Nat
  OBVIOUS
<1> QED BY <1>1 DEF Run

\* A frame that is not older joins the back.
LEMMA RunJoined ==
    ASSUME NEW s \in Seq(Nat), NEW lo \in Nat, NEW hi \in Nat, NEW x \in Nat,
           Run(s, lo, hi), hi <= x
    PROVE  Run(Append(s, x), lo, x)
<1>1. /\ Len(Append(s, x)) = Len(s) + 1
      /\ Len(s) \in Nat
      /\ \A i \in 1 .. Len(s) : s[i] \in Nat /\ Append(s, x)[i] = s[i]
      /\ Append(s, x)[Len(s) + 1] = x
  BY AppendFacts
<1>2. \A i \in 1 .. Len(s) + 1 : i \in 1 .. Len(s) \/ i = Len(s) + 1
  BY <1>1
<1>3. lo <= x
  BY DEF Run
<1>4. ASSUME NEW i \in 1 .. Len(s) + 1
      PROVE  lo <= Append(s, x)[i] /\ Append(s, x)[i] <= x
  <2>1. CASE i \in 1 .. Len(s)
    BY <2>1, <1>1 DEF Run
  <2>2. CASE i = Len(s) + 1
    BY <2>2, <1>1, <1>3
  <2> QED BY <2>1, <2>2, <1>2
<1>5. ASSUME NEW i \in 1 .. Len(s) + 1, NEW j \in 1 .. Len(s) + 1, i <= j
      PROVE  Append(s, x)[i] <= Append(s, x)[j]
  <2>1. CASE j \in 1 .. Len(s)
    <3>1. i \in 1 .. Len(s)
      BY <2>1, <1>1, <1>5
    <3> QED BY <2>1, <3>1, <1>1, <1>5 DEF Run
  <2>2. CASE j = Len(s) + 1
    BY <2>2, <1>1, <1>4
  <2> QED BY <2>1, <2>2, <1>2
<1> QED BY <1>1, <1>3, <1>4, <1>5 DEF Run

\* The front frame leaves: it is not newer than those behind it.
LEMMA RunLeft ==
    ASSUME NEW s \in Seq(Nat), NEW lo \in Nat, NEW hi \in Nat,
           Run(s, lo, hi), s # <<>>
    PROVE  /\ Head(s) \in Nat /\ lo <= Head(s) /\ Head(s) <= hi
           /\ Run(Tail(s), Head(s), hi)
<1>1. /\ Head(s) \in Nat
      /\ Len(s) \in Nat \ {0}
      /\ Len(Tail(s)) = Len(s) - 1
      /\ \A i \in 1 .. Len(s) : s[i] \in Nat
      /\ \A i \in 1 .. Len(Tail(s)) : Tail(s)[i] = s[i + 1]
      /\ Head(s) = s[1]
  BY TailFacts
<1>2. 1 \in 1 .. Len(s) /\ \A i \in 1 .. Len(Tail(s)) : i + 1 \in 1 .. Len(s) /\ 1 <= i + 1
  BY <1>1
<1>3. lo <= Head(s) /\ Head(s) <= hi
  BY <1>1, <1>2 DEF Run
<1>4. ASSUME NEW i \in 1 .. Len(Tail(s))
      PROVE  Head(s) <= Tail(s)[i] /\ Tail(s)[i] <= hi
  BY <1>1, <1>2 DEF Run
<1>5. ASSUME NEW i \in 1 .. Len(Tail(s)), NEW j \in 1 .. Len(Tail(s)), i <= j
      PROVE  Tail(s)[i] <= Tail(s)[j]
  <2>1. i + 1 <= j + 1
    BY <1>1, <1>5
  <2> QED BY <2>1, <1>1, <1>2 DEF Run
<1> QED BY <1>1, <1>3, <1>4, <1>5 DEF Run

-----------------------------------------------------------------------------
(* Types.                                                                  *)

\* A non-blocking send keeps a channel within its capacity.
LEMMA OfferFacts ==
    ASSUME NEW S, NEW s \in Seq(S), NEW x \in S, NEW cap \in Nat, Len(s) <= cap
    PROVE  Offer(s, cap, x) \in Seq(S) /\ Len(Offer(s, cap, x)) <= cap
<1>1. /\ Append(s, x) \in Seq(S)
      /\ Len(Append(s, x)) = Len(s) + 1
      /\ Len(s) \in Nat
  BY AppendFacts
<1> QED BY <1>1 DEF Offer

\* Taking the first element keeps it there too.
LEMMA TakenFacts ==
    ASSUME NEW S, NEW s \in Seq(S), s # <<>>, NEW cap \in Nat, Len(s) <= cap
    PROVE  Tail(s) \in Seq(S) /\ Head(s) \in S /\ Len(Tail(s)) <= cap
<1>1. /\ Tail(s) \in Seq(S) /\ Head(s) \in S
      /\ Len(s) \in Nat \ {0}
      /\ Len(Tail(s)) = Len(s) - 1
  BY TailFacts
<1> QED BY <1>1

LEMMA InitTyped ==
    Init => TypeOK
<1> SUFFICES ASSUME Init PROVE TypeOK
  OBVIOUS
<1>1. /\ \A S : <<>> \in Seq(S)
      /\ Len(<<>>) = 0
  BY SMT
<1>2. 0 \in 0 .. Timeout /\ Timeout \in Nat
  BY NetworkAssumption
<1> QED BY <1>1, <1>2, NetworkAssumption DEF Init, TypeOK, Version

LEMMA NextTyped ==
    TypeOK /\ [Next]_vars => TypeOK'
<1> SUFFICES ASSUME TypeOK, [Next]_vars PROVE TypeOK'
  OBVIOUS
<1> USE NetworkAssumption
<1>1. /\ worldview \in Version /\ merged \in Version
      /\ MaxChanges \in Nat /\ Version \subseteq Nat
  BY DEF TypeOK, Version
<1>2. CASE ChangeWorldview
  <2>1. worldview' \in Version
    BY <1>1, <1>2 DEF ChangeWorldview, Version
  <2>2. omToFsmWvCh' \in Seq(Version) /\ Len(omToFsmWvCh') <= LampCap
    BY <2>1, <1>2, OfferFacts DEF TypeOK, ChangeWorldview, SendToFsm
  <2> QED BY <1>2, <2>1, <2>2
          DEF TypeOK, ChangeWorldview, frames, remote, receiver, aliveness, history
<1>3. CASE BroadcastTick
  <2>1. networkWvCh' \in Seq(Version) /\ Len(networkWvCh') <= FramesCap
    BY <1>3, OfferFacts DEF TypeOK, BroadcastTick
  <2> QED BY <1>3, <2>1
          DEF TypeOK, BroadcastTick, orderManager, light, remote, receiver, aliveness, history
<1>16. CASE ElevState
  <2>1. worldview' \in Version
    BY <1>16 DEF ElevState
  <2>2. networkWvCh' \in Seq(Version) /\ Len(networkWvCh') <= FramesCap
    BY <2>1, <1>16, OfferFacts DEF TypeOK, ElevState
  <2> QED BY <1>16, <2>1, <2>2
          DEF TypeOK, ElevState, light, remote, receiver, aliveness, history
<1>4. CASE MergePeer
  <2>1. /\ peerWvCh' \in Seq(Version) /\ Len(peerWvCh') <= PeerWvCap
        /\ merged' \in Version
    BY <1>4, TakenFacts DEF TypeOK, MergePeer
  <2>2. worldview' \in Version
    BY <1>4 DEF MergePeer
  <2>3. omToFsmWvCh' \in Seq(Version) /\ Len(omToFsmWvCh') <= LampCap
    BY <2>2, <1>4, OfferFacts DEF TypeOK, MergePeer, SendToFsm
  <2> QED BY <1>4, <2>1, <2>2, <2>3 DEF TypeOK, MergePeer, remote, receiver, aliveness, history
<1>5. CASE SetAllLights
  <2>1. /\ omToFsmWvCh' \in Seq(Version) /\ Len(omToFsmWvCh') <= LampCap
        /\ lamps' \in Version
    BY <1>5, TakenFacts DEF TypeOK, SetAllLights
  <2> QED BY <1>5, <2>1
          DEF TypeOK, SetAllLights, orderManager, frames, remote, receiver, aliveness, history
<1>6. CASE TakeLocal
  <2>1. /\ networkWvCh' \in Seq(Version) /\ Len(networkWvCh') <= FramesCap
        /\ sending' \in Version
    BY <1>6, TakenFacts DEF TypeOK, TakeLocal
  <2> QED BY <1>6, <2>1
          DEF TypeOK, TakeLocal, orderManager, light, remote, receiver, aliveness, history
<1>7. CASE SendWorldview
  <2>1. sending \in Version
    BY <1>7 DEF TypeOK, SendWorldview
  <2>2. stateTx' \in Seq(Version) /\ Len(stateTx') = Len(stateTx) + 1 /\ Len(stateTx) \in Nat
    BY <2>1, <1>7, AppendFacts DEF TypeOK, SendWorldview
  <2>3. Len(stateTx') <= TxCap
    BY <2>2, <1>7 DEF SendWorldview
  <2> QED BY <1>7, <2>2, <2>3
          DEF TypeOK, SendWorldview, orderManager, light, remote, receiver, aliveness, history
<1>8. CASE TakePeer
  <2>1. socket' \in Seq(Version) /\ Len(socket') <= SocketCap /\ Head(socket) \in Version
    BY <1>8, TakenFacts DEF TypeOK, TakePeer
  <2>2. peerWvCh' \in Seq(Version) /\ Len(peerWvCh') <= PeerWvCap
    BY <2>1, <1>8, OfferFacts DEF TypeOK, TakePeer
  <2> QED BY <1>8, <2>1, <2>2
          DEF TypeOK, TakePeer, orderManager, light, remote, receiver, aliveness, history
<1>9. CASE TakeUpdate
  <2>1. update \in PeerUpdate
    BY <1>9 DEF TypeOK, TakeUpdate
  <2>2. peerUpdateCh' \in Seq(PeerUpdate) /\ Len(peerUpdateCh') <= UpdateCap
    BY <2>1, <1>9, OfferFacts DEF TypeOK, TakeUpdate
  <2>3. Mentioned(update) \subseteq Peer
    BY <2>1 DEF Mentioned, PeerUpdate
  <2>4. missed' \in SUBSET Peer /\ update' = None
    BY <2>3, <1>9 DEF TypeOK, TakeUpdate
  <2> QED BY <1>9, <2>2, <2>4
          DEF TypeOK, TakeUpdate, orderManager, frames, light, remote
<1>10. CASE Transmit
  <2>1. stateTx' \in Seq(Version) /\ Len(stateTx') <= TxCap /\ Head(stateTx) \in Version
    BY <1>10, TakenFacts DEF TypeOK, Transmit
  <2>2. socket' \in Seq(Version) /\ Len(socket') <= SocketCap
    BY <2>1, <1>10, OfferFacts DEF TypeOK, Transmit
  <2> QED BY <1>10, <2>1, <2>2
          DEF TypeOK, Transmit, orderManager, light, remote, receiver, aliveness, history
<1>11. ASSUME NEW m \in Peer \cup {None}, Receive(m) PROVE TypeOK'
  <2> DEFINE new == IF m # None /\ lastSeen[m] = None THEN m ELSE None
             seen == IF m = None THEN lastSeen ELSE [lastSeen EXCEPT ![m] = 0]
             lost == Expired(seen)
  <2>1. seen \in [Peer -> 0 .. Timeout + 1 \cup {None}]
    BY DEF TypeOK
  <2>2. lost \subseteq Peer
    BY DEF Expired
  <2>3. /\ lastSeen' = [k \in Peer |-> IF k \in lost THEN None ELSE seen[k]]
        /\ update' \in {update, [new |-> new, lost |-> lost]}
    BY <1>11 DEF Receive
  <2>4. lastSeen' \in [Peer -> 0 .. Timeout + 1 \cup {None}]
    <3> HIDE DEF seen, lost
    <3> QED BY <2>1, <2>3
  <2>5. [new |-> new, lost |-> lost] \in PeerUpdate
    <3>1. new \in Peer \cup {None}
      OBVIOUS
    <3> HIDE DEF new, lost
    <3> QED BY <2>2, <3>1 DEF PeerUpdate
  <2>6. update' \in PeerUpdate \cup {None}
    BY <2>3, <2>5 DEF TypeOK
  <2>7. heartbeats' \in SUBSET Peer /\ silent' \in SUBSET Peer
    BY <1>11 DEF TypeOK, Receive
  <2> QED BY <1>11, <2>4, <2>6, <2>7
          DEF TypeOK, Receive, orderManager, frames, light, remote, aliveness
<1>12. CASE UpdateAliveList
  <2>1. /\ peerUpdateCh' \in Seq(PeerUpdate) /\ Len(peerUpdateCh') <= UpdateCap
        /\ Head(peerUpdateCh) \in PeerUpdate
    BY <1>12, TakenFacts DEF TypeOK, UpdateAliveList
  <2>2. aliveList' \in [Peer -> {"unseen", "alive", "lost"}]
    BY <1>12 DEF TypeOK, UpdateAliveList, Applied
  <2> QED BY <1>12, <2>1, <2>2
          DEF TypeOK, UpdateAliveList, orderManager, frames, light, remote, receiver, history
<1>13. CASE Tick
  <2>1. ASSUME NEW m \in Peer
        PROVE  (IF lastSeen[m] \in 0 .. Timeout THEN lastSeen[m] + 1 ELSE lastSeen[m])
                  \in 0 .. Timeout + 1 \cup {None}
    <3>1. lastSeen[m] \in 0 .. Timeout + 1 \cup {None}
      BY DEF TypeOK
    <3> QED BY <3>1
  <2>2. lastSeen' \in [Peer -> 0 .. Timeout + 1 \cup {None}]
    BY <2>1, <1>13 DEF Tick
  <2>3. keptWaiting' \in 0 .. Timeout
    BY <1>13 DEF TypeOK, Tick
  <2>4. heartbeats' \in SUBSET Peer /\ silent' \in SUBSET Peer
    BY <1>13 DEF TypeOK, Tick
  <2> QED BY <1>13, <2>2, <2>3, <2>4 DEF TypeOK, Tick, orderManager, frames, light, remote, aliveness
<1>14. ASSUME NEW m \in Peer, Stop(m) \/ Start(m) PROVE TypeOK'
  <2>1. beating' \in [Peer -> BOOLEAN] /\ starts' \in 0 .. MaxStarts
    <3>1. CASE Stop(m)
      BY <3>1 DEF TypeOK, Stop
    <3>2. CASE Start(m)
      <4>1. starts' \in 0 .. MaxStarts
        BY <3>2 DEF TypeOK, Start
      <4> QED BY <4>1, <3>2 DEF TypeOK, Start
    <3> QED BY <1>14, <3>1, <3>2
  <2> QED BY <1>14, <2>1
          DEF TypeOK, Stop, Start, orderManager, frames, light, receiver, aliveness, history
<1>15. CASE UNCHANGED vars
  BY <1>15
  DEF TypeOK, vars, orderManager, frames, light, remote, receiver, aliveness, history
<1> QED
  BY <1>2, <1>3, <1>4, <1>5, <1>6, <1>7, <1>8, <1>9, <1>10, <1>11, <1>12, <1>13, <1>14, <1>15,
     <1>16
  DEF Next, NetworkRun

\* No channel ever holds more than its capacity, and every variable keeps its type.
THEOREM TypeCorrect == Spec => []TypeOK
<1> QED BY InitTyped, NextTyped, PTL DEF Spec

-----------------------------------------------------------------------------
(* The frames stay in order.                                               *)

\* From what was merged last back to the present worldview the versions on the way
\* do not fall: the borders b, c, d and e lie between the queues.
InOrder ==
    \E b, c, d, e \in Nat :
        /\ Run(peerWvCh, merged, b)
        /\ Run(socket, b, c)
        /\ Run(stateTx, c, d)
        /\ d <= e
        /\ sending # None => d <= sending /\ sending <= e
        /\ Run(networkWvCh, e, worldview)

LEMMA QueueTypes ==
    ASSUME TypeOK
    PROVE  /\ worldview \in Nat /\ merged \in Nat
           /\ networkWvCh \in Seq(Nat) /\ stateTx \in Seq(Nat)
           /\ socket \in Seq(Nat) /\ peerWvCh \in Seq(Nat)
           /\ sending # None => sending \in Nat
<1>1. Version \subseteq Nat
  BY NetworkAssumption DEF Version
<1>2. ASSUME NEW s \in Seq(Version) PROVE s \in Seq(Nat)
  <2>1. Len(s) \in Nat /\ s \in [1 .. Len(s) -> Version]
    OBVIOUS
  <2>2. s \in [1 .. Len(s) -> Nat]
    BY <1>1, <2>1
  <2>3. \A n \in Nat : [1 .. n -> Nat] \subseteq Seq(Nat)
    OBVIOUS
  <2> QED BY <2>1, <2>2, <2>3
<1> QED BY <1>1, <1>2 DEF TypeOK

LEMMA InitInOrder ==
    Init => InOrder
<1> SUFFICES ASSUME Init PROVE InOrder
  OBVIOUS
<1>1. worldview \in Nat
  BY NetworkAssumption DEF Init, Version
<1>2. Run(<<>>, worldview, worldview)
  <2>1. Len(<<>>) = 0
    BY SMT
  <2> QED BY <1>1, <2>1 DEF Run
<1> QED BY <1>1, <1>2 DEF Init, InOrder

LEMMA NextInOrder ==
    TypeOK /\ InOrder /\ [Next]_vars => InOrder'
<1> SUFFICES ASSUME TypeOK, InOrder, [Next]_vars PROVE InOrder'
  OBVIOUS
<1>1. PICK b \in Nat, c \in Nat, d \in Nat, e \in Nat :
         /\ Run(peerWvCh, merged, b)
         /\ Run(socket, b, c)
         /\ Run(stateTx, c, d)
         /\ d <= e
         /\ sending # None => d <= sending /\ sending <= e
         /\ Run(networkWvCh, e, worldview)
  BY DEF InOrder
<1>2. /\ worldview \in Nat /\ merged \in Nat
      /\ networkWvCh \in Seq(Nat) /\ stateTx \in Seq(Nat)
      /\ socket \in Seq(Nat) /\ peerWvCh \in Seq(Nat)
      /\ sending # None => sending \in Nat
  BY QueueTypes
<1>3. worldview' \in Nat
  <2>1. TypeOK'
    BY NextTyped
  <2> QED BY <2>1, NetworkAssumption DEF TypeOK, Version
<1>4. CASE ChangeWorldview
  <2>1. Run(networkWvCh, e, worldview')
    BY <1>1, <1>2, <1>3, <1>4, RunWidened DEF ChangeWorldview
  <2> QED BY <1>1, <1>4, <2>1 DEF InOrder, ChangeWorldview, frames
<1>5. CASE BroadcastTick
  <2>1. Run(networkWvCh', e, worldview)
    BY <1>1, <1>2, <1>5, RunJoined DEF BroadcastTick, Offer
  <2> QED BY <1>1, <1>5, <2>1 DEF InOrder, BroadcastTick, orderManager
<1>13. CASE ElevState
  <2>1. worldview <= worldview'
    BY <1>2, <1>13 DEF ElevState
  <2>2. Run(networkWvCh, e, worldview')
    BY <1>1, <1>2, <1>3, <2>1, RunWidened
  <2>3. worldview \in Nat /\ e <= worldview
    BY <1>1, <1>2 DEF Run
  <2>4. Run(Append(networkWvCh, worldview'), e, worldview')
    BY <1>1, <1>2, <1>3, <2>1, RunJoined
  <2>5. Run(networkWvCh', e, worldview')
    BY <1>13, <2>2, <2>4 DEF ElevState, Offer
  <2> QED BY <1>1, <1>13, <2>5 DEF InOrder, ElevState
<1>6. CASE MergePeer
  <2>1. Run(peerWvCh', merged', b)
    BY <1>1, <1>2, <1>6, RunLeft DEF MergePeer
  <2>2. worldview <= worldview'
    BY <1>2, <1>6 DEF MergePeer
  <2>3. Run(networkWvCh, e, worldview')
    BY <1>1, <1>2, <1>3, <2>2, RunWidened
  <2> QED BY <1>1, <1>6, <2>1, <2>3 DEF InOrder, MergePeer
<1>7. CASE TakeLocal
  <2>1. /\ Head(networkWvCh) \in Nat
        /\ e <= Head(networkWvCh)
        /\ Run(networkWvCh', Head(networkWvCh), worldview)
    BY <1>1, <1>2, <1>7, RunLeft DEF TakeLocal
  <2>2. /\ sending' = Head(networkWvCh)
        /\ UNCHANGED <<orderManager, stateTx, socket, peerWvCh>>
    BY <1>7 DEF TakeLocal
  <2>3. d <= Head(networkWvCh) /\ Head(networkWvCh) <= Head(networkWvCh)
    BY <1>1, <2>1
  <2> QED BY <1>1, <2>1, <2>2, <2>3 DEF InOrder, orderManager
<1>8. CASE SendWorldview
  <2>1. sending \in Nat /\ d <= sending /\ sending <= e
    BY <1>1, <1>2, <1>8 DEF SendWorldview
  <2>2. Run(stateTx', c, sending)
    BY <1>1, <1>2, <1>8, <2>1, RunJoined DEF SendWorldview
  <2> QED BY <1>1, <1>8, <2>1, <2>2 DEF InOrder, SendWorldview, orderManager
<1>9. CASE TakePeer
  <2>1. /\ Head(socket) \in Nat /\ b <= Head(socket)
        /\ Run(socket', Head(socket), c)
    BY <1>1, <1>2, <1>9, RunLeft DEF TakePeer
  <2>2. Run(peerWvCh', merged, Head(socket))
    <3>1. Run(Append(peerWvCh, Head(socket)), merged, Head(socket))
      BY <1>1, <1>2, <2>1, RunJoined
    <3>2. Run(peerWvCh, merged, Head(socket))
      BY <1>1, <1>2, <2>1, RunWidened
    <3> QED BY <1>9, <3>1, <3>2 DEF TakePeer, Offer
  <2> QED BY <1>1, <1>9, <2>1, <2>2 DEF InOrder, TakePeer, orderManager
<1>10. CASE Transmit
  <2>1. /\ Head(stateTx) \in Nat /\ c <= Head(stateTx)
        /\ Run(stateTx', Head(stateTx), d)
    BY <1>1, <1>2, <1>10, RunLeft DEF Transmit
  <2>2. Run(socket', b, Head(stateTx))
    <3>1. Run(Append(socket, Head(stateTx)), b, Head(stateTx))
      BY <1>1, <1>2, <2>1, RunJoined
    <3>2. Run(socket, b, Head(stateTx))
      BY <1>1, <1>2, <2>1, RunWidened
    <3> QED BY <1>10, <3>1, <3>2 DEF Transmit, Offer
  <2> QED BY <1>1, <1>10, <2>1, <2>2 DEF InOrder, Transmit, orderManager
<1>11. CASE UNCHANGED <<orderManager, frames>>
  BY <1>1, <1>11 DEF InOrder, orderManager, frames
<1>12. ASSUME \/ SetAllLights \/ TakeUpdate \/ UpdateAliveList \/ Tick
              \/ \E m \in Peer \cup {None} : Receive(m)
              \/ \E m \in Peer : Stop(m) \/ Start(m)
              \/ UNCHANGED vars
       PROVE  UNCHANGED <<orderManager, frames>>
  BY <1>12 DEF SetAllLights, TakeUpdate, UpdateAliveList, Tick, Receive, Stop, Start, vars
<1> QED
  BY <1>4, <1>5, <1>6, <1>7, <1>8, <1>9, <1>10, <1>11, <1>12, <1>13 DEF Next, NetworkRun

\* The own frames are merged in the order they were sent, whatever is dropped and
\* wherever: in a full channel, in SendWorldview's or on the wire.
THEOREM NothingOvertakes == Spec => FramesInOrder
<1>1. TypeOK /\ InOrder /\ [Next]_vars => [merged' >= merged]_vars
  <2> SUFFICES ASSUME TypeOK, InOrder, Next PROVE merged' >= merged
    BY DEF vars, orderManager
  <2>1. merged \in Nat
    BY QueueTypes
  <2>2. CASE MergePeer
    <3>1. PICK b \in Nat : Run(peerWvCh, merged, b)
      BY DEF InOrder
    <3>2. Head(peerWvCh) \in Nat /\ merged <= Head(peerWvCh)
      BY <2>1, <2>2, <3>1, QueueTypes, RunLeft DEF MergePeer
    <3> QED BY <2>1, <2>2, <3>2 DEF MergePeer
  <2>3. CASE ~MergePeer
    <3>1. merged' = merged
      BY <2>3 DEF Next, NetworkRun, ChangeWorldview, BroadcastTick, ElevState, SetAllLights, TakeLocal,
                  SendWorldview, TakePeer, TakeUpdate, Transmit, Receive, UpdateAliveList,
                  Tick, Stop, Start, orderManager
    <3> QED BY <2>1, <3>1
  <2> QED BY <2>2, <2>3
<1> QED
  BY <1>1, InitTyped, NextTyped, InitInOrder, NextInOrder, PTL DEF Spec, FramesInOrder

-----------------------------------------------------------------------------
(* Who sends its heartbeat is heard.                                       *)

\* A peer that has let no tick pass has been heard since the last one, or its
\* heartbeat is waiting, for no longer than the receiver has been kept waiting.
HeardInTime ==
    \A m \in Peer \ silent :
        lastSeen[m] # None =>
            IF m \in heartbeats THEN lastSeen[m] <= keptWaiting + 1 ELSE lastSeen[m] = 0

\* What the receiver does to the entry of a peer, and when it loses one.
LEMMA ReceiveFacts ==
    ASSUME TypeOK, NEW k \in Peer \cup {None}, Receive(k), NEW m \in Peer
    PROVE  /\ lastSeen'[m] # None =>
                 \/ m = k /\ lastSeen'[m] = 0
                 \/ m # k /\ lastSeen'[m] = lastSeen[m]
           /\ lastSeen[m] # None /\ lastSeen'[m] = None => m # k /\ lastSeen[m] > Timeout
<1> USE NetworkAssumption
<1> DEFINE seen == IF k = None THEN lastSeen ELSE [lastSeen EXCEPT ![k] = 0]
           lost == Expired(seen)
<1>1. lastSeen'[m] = IF m \in lost THEN None ELSE seen[m]
  BY DEF Receive
<1>2. seen[m] = IF m = k THEN 0 ELSE lastSeen[m]
  BY DEF TypeOK
<1>3. m \in lost <=> seen[m] # None /\ seen[m] > Timeout
  BY DEF Expired
<1>4. ~(0 > Timeout) /\ 0 # None
  OBVIOUS
<1> HIDE DEF seen, lost
<1> QED BY <1>1, <1>2, <1>3, <1>4

LEMMA NextHeardInTime ==
    TypeOK /\ HeardInTime /\ [Next]_vars => HeardInTime'
<1> SUFFICES ASSUME TypeOK, HeardInTime, [Next]_vars,
                    NEW m \in Peer, m \notin silent', lastSeen'[m] # None
             PROVE  IF m \in heartbeats' THEN lastSeen'[m] <= keptWaiting' + 1
                    ELSE lastSeen'[m] = 0
  BY DEF HeardInTime
<1> USE NetworkAssumption
<1>1. lastSeen[m] \in 0 .. Timeout + 1 \cup {None} /\ keptWaiting \in 0 .. Timeout
  BY DEF TypeOK
<1>2. CASE \E k \in Peer \cup {None} : Receive(k)
  <2>1. PICK k \in Peer \cup {None} : Receive(k)
    BY <1>2
  <2>2. /\ heartbeats' = heartbeats \ {k} /\ silent' = silent \ {k}
        /\ keptWaiting' = keptWaiting
    BY <2>1 DEF Receive
  <2>3. CASE m = k
    BY <2>1, <2>2, <2>3, ReceiveFacts
  <2>4. CASE m # k
    <3>1. lastSeen'[m] = lastSeen[m]
      BY <2>1, <2>4, ReceiveFacts
    <3> QED BY <2>2, <2>4, <3>1 DEF HeardInTime
  <2> QED BY <2>3, <2>4
<1>3. CASE Tick
  <2>1. /\ m \in heartbeats' /\ m \notin silent
        /\ lastSeen'[m] = IF lastSeen[m] \in 0 .. Timeout
                          THEN lastSeen[m] + 1 ELSE lastSeen[m]
        /\ keptWaiting' = IF update = None THEN 0
                          ELSE IF keptWaiting < Timeout THEN keptWaiting + 1 ELSE keptWaiting
        /\ update = None => heartbeats = {} /\ Expired(lastSeen) = {}
    BY <1>3 DEF Tick
  <2>2. lastSeen[m] \in 0 .. Timeout + 1
    BY <1>1, <2>1
  <2>3. CASE update = None
    <3>1. lastSeen[m] = 0
      BY <2>1, <2>2, <2>3 DEF HeardInTime
    <3> QED BY <2>1, <2>3, <3>1
  <2>4. CASE update # None
    <3>1. lastSeen[m] <= keptWaiting + 1
      BY <1>1, <2>1, <2>2 DEF HeardInTime
    <3>2. CASE keptWaiting < Timeout
      BY <1>1, <2>1, <2>2, <2>4, <3>1, <3>2
    <3>3. CASE keptWaiting = Timeout
      BY <1>1, <2>1, <2>2, <2>4, <3>3
    <3> QED BY <1>1, <3>2, <3>3
  <2> QED BY <2>3, <2>4
<1>4. CASE UNCHANGED <<heartbeats, lastSeen, silent, keptWaiting>>
  BY <1>4 DEF HeardInTime
<1> QED
  BY <1>2, <1>3, <1>4
  DEF Next, NetworkRun, ChangeWorldview, BroadcastTick, ElevState, MergePeer, SetAllLights, TakeLocal,
      SendWorldview, TakePeer, TakeUpdate, Transmit, UpdateAliveList, Stop, Start,
      vars, receiver, history

\* Nobody who sends its heartbeat is reported lost, unless NetworkRun kept the
\* receiver waiting for the whole time limit.
THEOREM BeatingIsNotLost == Spec => NoFalseLoss
<1>1. TypeOK /\ HeardInTime /\ [Next]_vars =>
         [\A m \in Peer :
             lastSeen[m] # None /\ lastSeen'[m] = None /\ m \notin silent
                => keptWaiting = Timeout]_vars
  <2> SUFFICES ASSUME TypeOK, HeardInTime, Next, NEW m \in Peer,
                      lastSeen[m] # None, lastSeen'[m] = None, m \notin silent
               PROVE  keptWaiting = Timeout
    OBVIOUS
  <2> USE NetworkAssumption
  <2>1. lastSeen[m] \in 0 .. Timeout + 1 /\ keptWaiting \in 0 .. Timeout
    BY DEF TypeOK
  <2>2. CASE \E k \in Peer \cup {None} : Receive(k)
    <3>1. lastSeen[m] > Timeout
      BY <2>2, ReceiveFacts
    <3>2. lastSeen[m] <= keptWaiting + 1
      BY <2>1, <3>1 DEF HeardInTime
    <3> QED BY <2>1, <3>1, <3>2
  <2>3. CASE Tick
    <3>1. lastSeen'[m] = IF lastSeen[m] \in 0 .. Timeout THEN lastSeen[m] + 1 ELSE lastSeen[m]
      BY <2>3 DEF Tick
    <3> QED BY <2>1, <3>1
  <2>4. CASE UNCHANGED lastSeen
    BY <2>4
  <2> QED
    BY <2>2, <2>3, <2>4
    DEF Next, NetworkRun, ChangeWorldview, BroadcastTick, ElevState, MergePeer, SetAllLights, TakeLocal,
        SendWorldview, TakePeer, TakeUpdate, Transmit, UpdateAliveList, Stop, Start, receiver
<1>2. Init => HeardInTime
  BY DEF Init, HeardInTime
<1> QED
  BY <1>1, <1>2, InitTyped, NextTyped, NextHeardInTime, PTL DEF Spec, NoFalseLoss

-----------------------------------------------------------------------------
(* The alive list follows peers.Receiver.                                  *)

\* An update that waits for NetworkRun tells who is followed since.
UpdateRight ==
    update # None =>
        \A m \in Mentioned(update) \cap Peer : lastSeen[m] = None <=> m \in update.lost

\* Who is followed, or not, is only changed by peers.Receiver, with an update about it.
LEMMA Followed ==
    ASSUME TypeOK, [Next]_vars, NEW m \in Peer
    PROVE  \/ lastSeen'[m] = None <=> lastSeen[m] = None
           \/ /\ update = None /\ update' # None
              /\ m \in Mentioned(update')
<1> USE NetworkAssumption
<1>1. CASE \E k \in Peer \cup {None} : Receive(k)
  <2>1. PICK k \in Peer \cup {None} : Receive(k)
    BY <1>1
  <2> DEFINE new == IF k # None /\ lastSeen[k] = None THEN k ELSE None
             seen == IF k = None THEN lastSeen ELSE [lastSeen EXCEPT ![k] = 0]
             lost == Expired(seen)
  <2>2. /\ update = None
        /\ lastSeen'[m] = IF m \in lost THEN None ELSE seen[m]
        /\ new # None \/ lost # {} => update' = [new |-> new, lost |-> lost]
    BY <2>1 DEF Receive
  <2>3. seen[m] = IF m = k THEN 0 ELSE lastSeen[m]
    BY DEF TypeOK
  <2>4. 0 # None /\ m # None
    OBVIOUS
  <2>5. lost \subseteq Peer /\ new \in Peer \cup {None}
    BY DEF Expired
  <2>6. new # None \/ lost # {} => update' # None
    <3>1. [new |-> new, lost |-> lost] \in PeerUpdate
      <4> HIDE DEF new, lost
      <4> QED BY <2>5 DEF PeerUpdate
    <3> QED BY <2>2, <3>1, UpdateAssumption
  <2>7. CASE m \in lost
    <3>1. lost # {} /\ update' = [new |-> new, lost |-> lost]
      BY <2>2, <2>7
    <3> HIDE DEF new, seen, lost
    <3>2. m \in Mentioned(update')
      BY <3>1, <2>7 DEF Mentioned
    <3> QED BY <2>2, <2>6, <3>1, <3>2
  <2>8. CASE m \notin lost /\ m = k
    BY <2>2, <2>3, <2>4, <2>6, <2>8 DEF Mentioned
  <2>9. CASE m \notin lost /\ m # k
    <3> HIDE DEF new, seen, lost
    <3> QED BY <2>2, <2>3, <2>9
  <2> QED BY <2>7, <2>8, <2>9
<1>2. CASE Tick
  <2>1. lastSeen'[m] = IF lastSeen[m] \in 0 .. Timeout THEN lastSeen[m] + 1 ELSE lastSeen[m]
    BY <1>2 DEF Tick
  <2> QED BY <2>1
<1>3. CASE UNCHANGED lastSeen
  BY <1>3
<1> QED
  BY <1>1, <1>2, <1>3
  DEF Next, NetworkRun, ChangeWorldview, BroadcastTick, ElevState, MergePeer, SetAllLights, TakeLocal,
      SendWorldview, TakePeer, TakeUpdate, Transmit, UpdateAliveList, Stop, Start,
      vars, receiver

\* The updates on their way, by their number.
PendingByNumber ==
    /\ Len(peerUpdateCh) \in Nat
    /\ Len(Pending) = Len(peerUpdateCh) + (IF update = None THEN 0 ELSE 1)
    /\ DOMAIN Pending = 1 .. Len(Pending)
    /\ \A i \in 1 .. Len(peerUpdateCh) : Pending[i] = peerUpdateCh[i]
    /\ update # None => Pending[Len(peerUpdateCh) + 1] = update

LEMMA PendingFacts ==
    TypeOK => PendingByNumber
<1> SUFFICES ASSUME TypeOK PROVE PendingByNumber
  OBVIOUS
<1> USE DEF PendingByNumber
<1>1. peerUpdateCh \in Seq(PeerUpdate) /\ Len(peerUpdateCh) \in Nat
  BY DEF TypeOK
<1>2. CASE update = None
  <2>1. Pending = peerUpdateCh
    BY <1>1, <1>2 DEF Pending
  <2> QED BY <1>1, <1>2, <2>1
<1>3. CASE update # None
  <2>1. Pending = Append(peerUpdateCh, update)
    <3>1. Pending = peerUpdateCh \o <<update>>
      BY <1>3 DEF Pending
    <3> QED BY <1>1, <1>3, <3>1 DEF TypeOK
  <2>2. update \in PeerUpdate
    BY <1>3 DEF TypeOK
  <2> QED BY <1>1, <1>3, <2>1, <2>2, AppendFacts
<1> QED BY <1>2, <1>3

LEMMA NextUpdateRight ==
    TypeOK /\ UpdateRight /\ [Next]_vars => UpdateRight'
<1> SUFFICES ASSUME TypeOK, UpdateRight, [Next]_vars, update' # None,
                    NEW m \in Peer, m \in Mentioned(update')
             PROVE  lastSeen'[m] = None <=> m \in update'.lost
  BY DEF UpdateRight
<1> USE NetworkAssumption
<1>1. CASE \E k \in Peer \cup {None} : Receive(k)
  <2>1. PICK k \in Peer \cup {None} : Receive(k)
    BY <1>1
  <2> DEFINE new == IF k # None /\ lastSeen[k] = None THEN k ELSE None
             seen == IF k = None THEN lastSeen ELSE [lastSeen EXCEPT ![k] = 0]
             lost == Expired(seen)
  <2>2. /\ update = None
        /\ lastSeen'[m] = IF m \in lost THEN None ELSE seen[m]
        /\ update' = update \/ update' = [new |-> new, lost |-> lost]
    BY <2>1 DEF Receive
  <2>3. seen[m] = IF m = k THEN 0 ELSE lastSeen[m]
    BY DEF TypeOK
  <2>4. 0 # None
    OBVIOUS
  <2>5. new = m => m = k
    OBVIOUS
  <2>6. m \in lost => seen[m] # None /\ seen[m] > Timeout
    BY DEF Expired
  <2> HIDE DEF new, seen, lost
  <2>7. update' = [new |-> new, lost |-> lost]
    BY <2>2
  <2>8. m \in lost \/ m = new
    BY <2>7 DEF Mentioned
  <2> QED BY <2>2, <2>3, <2>4, <2>5, <2>7, <2>8
<1>2. CASE UNCHANGED update
  <2>1. lastSeen'[m] = None <=> lastSeen[m] = None
    BY <1>2, Followed
  <2> QED BY <1>2, <2>1 DEF UpdateRight
<1>3. CASE TakeUpdate
  BY <1>3 DEF TakeUpdate
<1> QED
  BY <1>1, <1>2, <1>3
  DEF Next, NetworkRun, ChangeWorldview, BroadcastTick, ElevState, MergePeer, SetAllLights, TakeLocal,
      SendWorldview, TakePeer, Transmit, UpdateAliveList, Tick, Stop, Start, vars, receiver

LEMMA NextFollows ==
    TypeOK /\ UpdateRight /\ AliveListFollows /\ [Next]_vars => AliveListFollows'
<1> SUFFICES ASSUME TypeOK, UpdateRight, AliveListFollows, [Next]_vars,
                    NEW m \in Peer, m \notin missed'
             PROVE  /\ \A i \in DOMAIN Pending' :
                          LastAbout(m, i)' => (lastSeen'[m] = None <=> m \in Pending'[i].lost)
                    /\ (\A i \in DOMAIN Pending' : m \notin Mentioned(Pending'[i]))
                          => (lastSeen'[m] = None <=> aliveList'[m] # "alive")
  BY DEF AliveListFollows
<1> DEFINE n == Len(peerUpdateCh)
<1>1. TypeOK' /\ UpdateRight'
  BY NextTyped, NextUpdateRight
<1>2. /\ n \in Nat
      /\ Len(Pending) = n + (IF update = None THEN 0 ELSE 1)
      /\ DOMAIN Pending = 1 .. Len(Pending)
      /\ \A i \in 1 .. n : Pending[i] = peerUpdateCh[i]
      /\ update # None => Pending[n + 1] = update
  BY PendingFacts DEF PendingByNumber
<1>3. /\ Len(peerUpdateCh') \in Nat
      /\ Len(Pending') = Len(peerUpdateCh') + (IF update' = None THEN 0 ELSE 1)
      /\ DOMAIN Pending' = 1 .. Len(Pending')
      /\ \A i \in 1 .. Len(peerUpdateCh') : Pending'[i] = peerUpdateCh'[i]
      /\ update' # None => Pending'[Len(peerUpdateCh') + 1] = update'
  <2>1. PendingByNumber'
    BY <1>1, PendingFacts, PTL
  <2> QED BY <2>1 DEF PendingByNumber
<1>4. m \notin missed =>
         /\ \A i \in DOMAIN Pending :
               LastAbout(m, i) => (lastSeen[m] = None <=> m \in Pending[i].lost)
         /\ (\A i \in DOMAIN Pending : m \notin Mentioned(Pending[i]))
               => (lastSeen[m] = None <=> aliveList[m] # "alive")
  BY DEF AliveListFollows
<1> HIDE DEF n
<1>5. CASE UNCHANGED <<update, aliveness, missed>>
  <2>1. lastSeen'[m] = None <=> lastSeen[m] = None
    BY <1>5, Followed
  <2>2. Pending' = Pending
    BY <1>5 DEF Pending, aliveness
  <2> QED BY <1>4, <1>5, <2>1, <2>2 DEF LastAbout, aliveness
<1>6. CASE \E k \in Peer \cup {None} : Receive(k)
  <2>1. update = None /\ UNCHANGED <<aliveness, missed>>
    BY <1>6 DEF Receive
  <2>2. CASE update' = None
    BY <1>5, <2>1, <2>2
  <2>3. CASE update' # None
    <3>1. /\ Len(Pending') = n + 1 /\ Len(Pending) = n
          /\ \A i \in 1 .. n : Pending'[i] = Pending[i]
          /\ Pending'[n + 1] = update'
      BY <1>2, <1>3, <2>1, <2>3 DEF aliveness, n
    <3>2. CASE m \in Mentioned(update')
      <4>1. ASSUME NEW i \in DOMAIN Pending', LastAbout(m, i)' PROVE i = n + 1
        BY <1>2, <1>3, <3>1, <3>2, <4>1 DEF LastAbout
      <4>2. lastSeen'[m] = None <=> m \in update'.lost
        BY <1>1, <2>3, <3>2 DEF UpdateRight
      <4>3. n + 1 \in DOMAIN Pending'
        BY <1>2, <1>3, <3>1
      <4> QED BY <3>1, <3>2, <4>1, <4>2, <4>3
    <3>3. CASE m \notin Mentioned(update')
      <4>1. lastSeen'[m] = None <=> lastSeen[m] = None
        BY <3>3, Followed
      <4>2. DOMAIN Pending = 1 .. n /\ DOMAIN Pending' = 1 .. n + 1
        BY <1>2, <1>3, <3>1
      <4>3. ASSUME NEW i \in DOMAIN Pending', LastAbout(m, i)'
            PROVE  i \in DOMAIN Pending /\ LastAbout(m, i) /\ Pending'[i] = Pending[i]
        <5>1. i # n + 1
          BY <3>1, <3>3, <4>3 DEF LastAbout
        <5>2. i \in 1 .. n
          BY <1>2, <4>2, <4>3, <5>1
        <5>3. \A j \in 1 .. n : j \in DOMAIN Pending'
          BY <1>2, <4>2
        <5> QED BY <3>1, <4>2, <4>3, <5>2, <5>3 DEF LastAbout
      <4>4. (\A i \in DOMAIN Pending' : m \notin Mentioned(Pending'[i]))
               => \A i \in DOMAIN Pending : m \notin Mentioned(Pending[i])
        BY <1>2, <3>1, <4>2
      <4> QED BY <1>4, <2>1, <4>1, <4>3, <4>4 DEF aliveness
    <3> QED BY <3>2, <3>3
  <2> QED BY <2>2, <2>3
<1>7. CASE TakeUpdate
  <2>1. /\ update # None /\ update' = None
        /\ peerUpdateCh' = IF n < UpdateCap THEN Append(peerUpdateCh, update) ELSE peerUpdateCh
        /\ missed' = IF n < UpdateCap
                     THEN missed \ Mentioned(update) ELSE missed \cup Mentioned(update)
        /\ lastSeen' = lastSeen /\ aliveList' = aliveList
    BY <1>7 DEF TakeUpdate, Offer, n
  <2>2. Len(Pending) = n + 1 /\ DOMAIN Pending = 1 .. n + 1
    BY <1>2, <2>1
  <2>3. CASE n < UpdateCap
    <3>1. peerUpdateCh \in Seq(PeerUpdate) /\ update \in PeerUpdate
      BY <2>1 DEF TypeOK
    <3>2. /\ Len(peerUpdateCh') = n + 1
          /\ \A i \in 1 .. n : peerUpdateCh'[i] = peerUpdateCh[i]
          /\ peerUpdateCh'[n + 1] = update
      BY <2>1, <2>3, <3>1, AppendFacts DEF n
    <3>3. DOMAIN Pending' = DOMAIN Pending
      BY <1>2, <1>3, <2>1, <2>2, <3>2
    <3>4. \A i \in DOMAIN Pending : Pending'[i] = Pending[i]
      <4> SUFFICES ASSUME NEW i \in 1 .. n + 1 PROVE Pending'[i] = Pending[i]
        BY <2>2
      <4>1. Pending'[i] = peerUpdateCh'[i]
        BY <1>3, <2>1, <3>2
      <4>2. CASE i \in 1 .. n
        BY <1>2, <3>2, <4>1, <4>2
      <4>3. CASE i = n + 1
        BY <1>2, <2>1, <3>2, <4>1, <4>3
      <4> QED BY <1>2, <4>2, <4>3
    <3>5. CASE m \in Mentioned(update)
      <4>1. ASSUME NEW i \in DOMAIN Pending', LastAbout(m, i)' PROVE i = n + 1
        <5>1. n + 1 \in DOMAIN Pending' /\ m \in Mentioned(Pending'[n + 1])
          BY <1>2, <2>1, <2>2, <3>3, <3>4, <3>5
        <5> QED BY <1>2, <2>2, <3>3, <4>1, <5>1 DEF LastAbout
      <4>2. lastSeen[m] = None <=> m \in update.lost
        BY <2>1, <3>5 DEF UpdateRight
      <4>3. n + 1 \in DOMAIN Pending' /\ Pending'[n + 1] = update
        BY <1>2, <2>1, <2>2, <3>3, <3>4
      <4> QED BY <2>1, <3>5, <4>1, <4>2, <4>3
    <3>6. CASE m \notin Mentioned(update)
      <4>1. m \notin missed
        BY <2>1, <2>3, <3>6
      <4> QED BY <1>4, <2>1, <3>3, <3>4, <4>1 DEF LastAbout
    <3> QED BY <3>5, <3>6
  <2>4. CASE ~(n < UpdateCap)
    <3>1. m \notin Mentioned(update) /\ m \notin missed
      BY <2>1, <2>4
    <3>2. DOMAIN Pending' = 1 .. n /\ \A i \in 1 .. n : Pending'[i] = Pending[i]
      BY <1>2, <1>3, <2>1, <2>4 DEF n
    <3>3. \A i \in DOMAIN Pending : i \in 1 .. n \/ m \notin Mentioned(Pending[i])
      BY <1>2, <2>1, <2>2, <3>1
    <3>4. \A i \in 1 .. n : i \in DOMAIN Pending
      BY <1>2, <2>2
    <3>5. ASSUME NEW i \in DOMAIN Pending', LastAbout(m, i)' PROVE LastAbout(m, i)
      BY <3>2, <3>3, <3>4, <3>5 DEF LastAbout
    <3> QED BY <1>4, <2>1, <3>1, <3>2, <3>3, <3>4, <3>5
  <2> QED BY <2>3, <2>4
<1>8. CASE UpdateAliveList
  <2>1. /\ peerUpdateCh # <<>> /\ peerUpdateCh' = Tail(peerUpdateCh)
        /\ aliveList' = Applied(aliveList, Head(peerUpdateCh))
        /\ UNCHANGED <<update, lastSeen, missed>>
    BY <1>8 DEF UpdateAliveList, receiver, history
  <2>2. /\ n # 0 /\ Len(peerUpdateCh') = n - 1
        /\ \A i \in 1 .. n - 1 : peerUpdateCh'[i] = peerUpdateCh[i + 1]
        /\ Head(peerUpdateCh) = peerUpdateCh[1]
        /\ peerUpdateCh[1] \in PeerUpdate
    <3>1. peerUpdateCh \in Seq(PeerUpdate)
      BY DEF TypeOK
    <3> QED BY <2>1, <3>1, TailFacts DEF n
  <2>3. Len(Pending') = Len(Pending) - 1 /\ Len(Pending) \in Nat
    BY <1>2, <1>3, <2>1, <2>2
  <2>4. ASSUME NEW i \in DOMAIN Pending'
        PROVE  i + 1 \in DOMAIN Pending /\ Pending'[i] = Pending[i + 1]
    <3>1. i \in 1 .. Len(Pending) - 1 /\ i + 1 \in DOMAIN Pending
      BY <1>2, <1>3, <2>3, <2>4
    <3>2. CASE i \in 1 .. n - 1
      BY <1>2, <1>3, <2>2, <3>2
    <3>3. CASE i = n
      <4>1. update # None
        BY <1>2, <3>1, <3>3
      <4> QED BY <1>2, <1>3, <2>1, <2>2, <3>3, <4>1
    <3> QED BY <1>2, <3>1, <3>2, <3>3
  <2>5. \A j \in DOMAIN Pending : j = 1 \/ j - 1 \in DOMAIN Pending'
    BY <1>2, <1>3, <2>3
  <2>6. 1 \in DOMAIN Pending /\ Pending[1] = Head(peerUpdateCh)
    BY <1>2, <2>2
  <2>7. ASSUME NEW i \in DOMAIN Pending', LastAbout(m, i)' PROVE LastAbout(m, i + 1)
    <3>1. i + 1 \in DOMAIN Pending /\ m \in Mentioned(Pending[i + 1])
      BY <2>4, <2>7 DEF LastAbout
    <3>2. ASSUME NEW j \in DOMAIN Pending, j > i + 1 PROVE m \notin Mentioned(Pending[j])
      <4>1. j - 1 \in DOMAIN Pending' /\ j - 1 > i /\ Pending'[j - 1] = Pending[j]
        BY <1>2, <1>3, <2>3, <2>4, <2>5, <3>2
      <4> QED BY <2>7, <4>1 DEF LastAbout
    <3> QED BY <3>1, <3>2 DEF LastAbout
  <2>8. ASSUME \A i \in DOMAIN Pending' : m \notin Mentioned(Pending'[i])
        PROVE  lastSeen'[m] = None <=> aliveList'[m] # "alive"
    <3>1. \A j \in DOMAIN Pending : j = 1 \/ m \notin Mentioned(Pending[j])
      <4> SUFFICES ASSUME NEW j \in DOMAIN Pending, j # 1 PROVE m \notin Mentioned(Pending[j])
        OBVIOUS
      <4>1. j - 1 \in DOMAIN Pending' /\ Pending'[j - 1] = Pending[j]
        BY <1>2, <2>3, <2>4, <2>5
      <4> QED BY <2>8, <4>1
    <3>2. aliveList'[m] = IF m \in Pending[1].lost THEN "lost"
                          ELSE IF m = Pending[1].new THEN "alive" ELSE aliveList[m]
      BY <2>1, <2>6 DEF Applied
    <3>3. CASE m \in Mentioned(Pending[1])
      <4>1. LastAbout(m, 1)
        BY <1>2, <2>6, <3>1, <3>3 DEF LastAbout
      <4>2. lastSeen[m] = None <=> m \in Pending[1].lost
        BY <1>4, <2>1, <2>6, <4>1
      <4>3. m \in Pending[1].lost \/ m = Pending[1].new
        BY <3>3 DEF Mentioned
      <4> QED BY <2>1, <3>2, <4>2, <4>3
    <3>4. CASE m \notin Mentioned(Pending[1])
      <4>1. m \notin Pending[1].lost /\ m # Pending[1].new
        BY <3>4, NetworkAssumption DEF Mentioned
      <4> QED BY <1>4, <2>1, <2>6, <3>1, <3>2, <3>4, <4>1
    <3> QED BY <3>3, <3>4
  <2> QED BY <1>4, <2>1, <2>4, <2>7, <2>8
<1> QED
  BY <1>5, <1>6, <1>7, <1>8
  DEF Next, NetworkRun, ChangeWorldview, BroadcastTick, ElevState, MergePeer, SetAllLights, TakeLocal,
      SendWorldview, TakePeer, Transmit, Tick, Stop, Start, vars, receiver, history, aliveness

\* Unless an update about a peer had to be dropped, the alive list is what
\* peers.Receiver makes of the heartbeats, once the updates on their way are applied.
THEOREM AliveListRight == Spec => []AliveListFollows
<1>1. Init => UpdateRight /\ AliveListFollows
  <2> SUFFICES ASSUME Init PROVE UpdateRight /\ AliveListFollows
    OBVIOUS
  <2>1. Pending = <<>>
    <3>1. peerUpdateCh = <<>> /\ update = None
      BY DEF Init
    <3>2. <<>> \o <<>> = <<>>
      BY SMT
    <3> QED BY <3>1, <3>2 DEF Pending
  <2>2. DOMAIN Pending = {}
    <3>1. DOMAIN <<>> = {}
      BY SMT
    <3> QED BY <2>1, <3>1
  <2> QED BY <2>2 DEF Init, UpdateRight, AliveListFollows
<1> QED
  BY <1>1, InitTyped, NextTyped, NextUpdateRight, NextFollows, PTL DEF Spec

-----------------------------------------------------------------------------
(* The lamps, and what stays.  LampsCatchUp and NewestMerged are           *)
(* properties of LiveSpec; these are the safety facts behind them.         *)

\* The versions on their way to the lamps do not fall, from the one the lamps show
\* to the present one.
LampRun ==
    \E lo \in Nat :
        /\ Run(omToFsmWvCh, lo, worldview)
        /\ lamps # None => lamps = lo

\* Nothing that was sent on is newer than the worldview it was taken from.
NothingAhead == merged <= worldview /\ (lamps # None => lamps <= worldview)

\* The lamps never go back to an older worldview.
LampsInOrder == [][lamps # None => lamps' # None /\ lamps' >= lamps]_vars

\* While the worldview does not change, the newest one stays merged and stays lit,
\* whatever older frames are still on their way.
NewestStays ==
    [][worldview' = worldview =>
          /\ merged = worldview => merged' = worldview
          /\ lamps = worldview => lamps' = worldview]_vars

LEMMA LampTypes ==
    ASSUME TypeOK
    PROVE  omToFsmWvCh \in Seq(Nat) /\ worldview \in Nat /\ (lamps # None => lamps \in Nat)
<1>1. Version \subseteq Nat
  BY NetworkAssumption DEF Version
<1>2. Len(omToFsmWvCh) \in Nat /\ omToFsmWvCh \in [1 .. Len(omToFsmWvCh) -> Version]
  BY DEF TypeOK
<1>3. omToFsmWvCh \in [1 .. Len(omToFsmWvCh) -> Nat]
  BY <1>1, <1>2
<1>4. \A n \in Nat : [1 .. n -> Nat] \subseteq Seq(Nat)
  OBVIOUS
<1>5. omToFsmWvCh \in Seq(Nat)
  BY <1>2, <1>3, <1>4
<1> QED BY <1>1, <1>5 DEF TypeOK

\* A change that tells the lamps: the version joins the back or is dropped.
LEMMA LampsTold ==
    ASSUME TypeOK, TypeOK', LampRun, worldview <= worldview', UNCHANGED lamps,
           omToFsmWvCh' \in {omToFsmWvCh, Offer(omToFsmWvCh, LampCap, worldview')}
    PROVE  LampRun'
<1>1. PICK lo \in Nat : Run(omToFsmWvCh, lo, worldview) /\ (lamps # None => lamps = lo)
  BY DEF LampRun
<1>2. omToFsmWvCh \in Seq(Nat) /\ worldview \in Nat /\ worldview' \in Nat
  <2>1. worldview' \in Nat
    BY NetworkAssumption DEF TypeOK, Version
  <2> QED BY <2>1, LampTypes
<1>3. Run(omToFsmWvCh, lo, worldview')
  BY <1>1, <1>2, RunWidened
<1>4. Run(Append(omToFsmWvCh, worldview'), lo, worldview')
  BY <1>1, <1>2, RunJoined
<1>5. Run(omToFsmWvCh', lo, worldview')
  BY <1>3, <1>4 DEF Offer
<1> QED BY <1>1, <1>5 DEF LampRun

LEMMA InitLampRun == Init => LampRun
<1> SUFFICES ASSUME Init PROVE LampRun
  OBVIOUS
<1>1. worldview \in Nat
  BY NetworkAssumption DEF Init, Version
<1>2. Run(<<>>, worldview, worldview)
  <2>1. Len(<<>>) = 0
    BY SMT
  <2> QED BY <1>1, <2>1 DEF Run
<1> QED BY <1>1, <1>2 DEF Init, LampRun

LEMMA NextLampRun == TypeOK /\ LampRun /\ [Next]_vars => LampRun'
<1> SUFFICES ASSUME TypeOK, LampRun, [Next]_vars PROVE LampRun'
  OBVIOUS
<1>t. TypeOK' /\ worldview \in Nat
  BY NextTyped, LampTypes
<1>1. CASE ChangeWorldview
  <2>1. /\ worldview <= worldview' /\ UNCHANGED lamps
        /\ omToFsmWvCh' \in {omToFsmWvCh, Offer(omToFsmWvCh, LampCap, worldview')}
    BY <1>1, <1>t DEF ChangeWorldview, SendToFsm
  <2> QED BY <1>t, <2>1, LampsTold
<1>2. CASE MergePeer
  <2>1. /\ worldview <= worldview' /\ UNCHANGED lamps
        /\ omToFsmWvCh' \in {omToFsmWvCh, Offer(omToFsmWvCh, LampCap, worldview')}
    BY <1>2, <1>t DEF MergePeer, SendToFsm
  <2> QED BY <1>t, <2>1, LampsTold
<1>3. CASE ElevState
  <2>1. /\ worldview <= worldview' /\ UNCHANGED lamps
        /\ omToFsmWvCh' \in {omToFsmWvCh, Offer(omToFsmWvCh, LampCap, worldview')}
    BY <1>3, <1>t DEF ElevState, light
  <2> QED BY <1>t, <2>1, LampsTold
<1>4. CASE SetAllLights
  <2>1. PICK lo \in Nat : Run(omToFsmWvCh, lo, worldview) /\ (lamps # None => lamps = lo)
    BY DEF LampRun
  <2>2. Head(omToFsmWvCh) \in Nat /\ Run(Tail(omToFsmWvCh), Head(omToFsmWvCh), worldview)
    BY <1>4, <1>t, <2>1, LampTypes, RunLeft DEF SetAllLights
  <2> QED BY <1>4, <2>2 DEF SetAllLights, LampRun, orderManager
<1>5. CASE UNCHANGED <<worldview, light>>
  BY <1>5 DEF LampRun, light
<1>6. ASSUME \/ BroadcastTick \/ NetworkRun \/ Transmit \/ UpdateAliveList \/ Tick
             \/ \E m \in Peer \cup {None} : Receive(m)
             \/ \E m \in Peer : Stop(m) \/ Start(m)
             \/ UNCHANGED vars
      PROVE  UNCHANGED <<worldview, light>>
  BY <1>6 DEF BroadcastTick, NetworkRun, TakeLocal, SendWorldview, TakePeer, TakeUpdate,
              Transmit, UpdateAliveList, Tick, Receive, Stop, Start, vars, orderManager
<1> QED BY <1>1, <1>2, <1>3, <1>4, <1>5, <1>6 DEF Next

\* Neither the worldview merged nor the one the lamps show is ahead of localWv.
LEMMA RunsAreBehind == TypeOK /\ InOrder /\ LampRun => NothingAhead
<1> SUFFICES ASSUME TypeOK, InOrder, LampRun PROVE NothingAhead
  OBVIOUS
<1>1. PICK b \in Nat, c \in Nat, d \in Nat, e \in Nat :
         /\ Run(peerWvCh, merged, b) /\ Run(socket, b, c) /\ Run(stateTx, c, d)
         /\ d <= e /\ Run(networkWvCh, e, worldview)
  BY DEF InOrder
<1>2. PICK lo \in Nat : Run(omToFsmWvCh, lo, worldview) /\ (lamps # None => lamps = lo)
  BY DEF LampRun
<1>3. merged <= b /\ b <= c /\ c <= d /\ e <= worldview /\ lo <= worldview
  BY <1>1, <1>2 DEF Run
<1>4. merged \in Nat /\ worldview \in Nat
  BY QueueTypes
<1>5. merged <= worldview
  BY <1>1, <1>3, <1>4
<1> QED BY <1>2, <1>3, <1>5 DEF NothingAhead

\* One step takes the lamps forward or leaves them.
LEMMA LampStep ==
    ASSUME TypeOK, LampRun, [Next]_vars, lamps # None
    PROVE  lamps' # None /\ lamps' >= lamps
<1>1. PICK lo \in Nat : Run(omToFsmWvCh, lo, worldview) /\ (lamps # None => lamps = lo)
  BY DEF LampRun
<1>2. lamps \in Nat
  BY LampTypes
<1>3. CASE SetAllLights
  <2>1. Head(omToFsmWvCh) \in Nat /\ lo <= Head(omToFsmWvCh)
    BY <1>1, <1>3, LampTypes, RunLeft DEF SetAllLights
  <2> QED BY <1>1, <1>3, <2>1, NetworkAssumption DEF SetAllLights
<1>4. CASE UNCHANGED lamps
  BY <1>2, <1>4
<1>5. ASSUME \/ ChangeWorldview \/ BroadcastTick \/ ElevState \/ MergePeer
             \/ NetworkRun \/ Transmit \/ UpdateAliveList \/ Tick
             \/ \E m \in Peer \cup {None} : Receive(m)
             \/ \E m \in Peer : Stop(m) \/ Start(m)
             \/ UNCHANGED vars
      PROVE  UNCHANGED lamps
  BY <1>5 DEF ChangeWorldview, BroadcastTick, ElevState, MergePeer, NetworkRun, TakeLocal,
              SendWorldview, TakePeer, TakeUpdate, Transmit, UpdateAliveList, Tick, Receive,
              Stop, Start, vars, light
<1> QED BY <1>3, <1>4, <1>5 DEF Next

\* What sendToFsm was told of last is what the lamps end up with, even where the
\* non-blocking send drops the newest: they never go back in time.
THEOREM LampsNeverGoBack == Spec => LampsInOrder
<1>1. TypeOK /\ LampRun /\ [Next]_vars =>
         [lamps # None => lamps' # None /\ lamps' >= lamps]_vars
  BY LampStep
<1> QED BY <1>1, InitLampRun, NextLampRun, TypeCorrect, PTL DEF Spec, LampsInOrder

\* What comes back to the OrderManager, and what reaches the lamps, is never ahead
\* of localWv; so the newest worldview, once merged or lit, stays so until the next
\* change: what is still in the channels cannot undo it.
THEOREM NewestIsStable == Spec => []NothingAhead /\ NewestStays
<1>1. Spec => [](TypeOK /\ InOrder /\ LampRun)
  BY InitInOrder, NextInOrder, InitLampRun, NextLampRun, TypeCorrect, PTL DEF Spec
<1>2. Spec => []NothingAhead
  BY <1>1, RunsAreBehind, PTL
<1>3. Spec => FramesInOrder /\ LampsInOrder
  BY NothingOvertakes, LampsNeverGoBack
<1>4. TypeOK /\ TypeOK' /\ NothingAhead' /\ [merged' >= merged]_vars
         /\ [lamps # None => lamps' # None /\ lamps' >= lamps]_vars
      => [worldview' = worldview =>
             /\ merged = worldview => merged' = worldview
             /\ lamps = worldview => lamps' = worldview]_vars
  <2> SUFFICES ASSUME TypeOK, TypeOK', NothingAhead', merged' >= merged,
                      lamps # None => lamps' # None /\ lamps' >= lamps,
                      worldview' = worldview
               PROVE  /\ merged = worldview => merged' = worldview
                      /\ lamps = worldview => lamps' = worldview
    BY DEF vars, orderManager, light
  <2>1. /\ worldview \in Nat /\ merged \in Nat /\ merged' \in Nat
        /\ lamps' # None => lamps' \in Nat
        /\ None \notin Nat
    BY NetworkAssumption DEF TypeOK, Version
  <2>2. merged' <= worldview /\ (lamps' # None => lamps' <= worldview)
    BY DEF NothingAhead
  <2>3. merged = worldview => merged' = worldview
    BY <2>1, <2>2
  <2>4. lamps = worldview => lamps' = worldview
    BY <2>1, <2>2
  <2> QED BY <2>3, <2>4
<1> QED BY <1>1, <1>2, <1>3, <1>4, PTL DEF FramesInOrder, LampsInOrder, NewestStays
=============================================================================
