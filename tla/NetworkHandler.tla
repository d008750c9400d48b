--------------------------- MODULE NetworkHandler ---------------------------
(***************************************************************************)
(* The goroutines between one node's OrderManager and the wire: NetworkRun *)
(* with its three cases, the transmitter and receiver of bcast, the        *)
(* receiver of peers with its time limit, the goroutine of main.go that    *)
(* keeps the alive list, and SetAllLights at the other end of the          *)
(* OrderManager.                                                           *)
(*                                                                         *)
(* A worldview is known by its version, the number of changes of localWv   *)
(* it has in it.  The frames are the node's own, which the broadcast       *)
(* brings back to it; a peer's frame takes the first half of the way at    *)
(* the peer and the second half here.  Time passes in ticks, each long     *)
(* enough for every running peer to be heard once (a heartbeat every 15 ms *)
(* and a time limit of 500 ms allow for lost ones).                        *)
(***************************************************************************)
EXTENDS Naturals, Sequences

CONSTANTS
    Peer,        \* other nodes, by their NodeID
    None,        \* no peer, no worldview, no update
    Timeout,     \* the time limit of peers.Receiver, in ticks
    FramesCap,   \* worldviews between OrderManager and NetworkRun (10 + 1 + 10)
    TxCap,       \* capacity of stateTx (10)
    SocketCap,   \* frames in the receiving socket, and in the hands of bcast.Receiver
    PeerWvCap,   \* capacity of networkToOmWvCh (10)
    UpdateCap,   \* capacity of peerUpdateCh (10)
    LampCap,     \* capacity of omToFsmWvCh (10)
    MaxChanges,  \* bound: changes of the local worldview
    MaxStarts    \* bound: starts of a peer

ASSUME NetworkAssumption ==
    /\ None \notin Peer /\ None \notin Nat
    /\ Timeout \in Nat \ {0}
    /\ FramesCap \in Nat \ {0} /\ TxCap \in Nat \ {0} /\ SocketCap \in Nat \ {0}
    /\ PeerWvCap \in Nat \ {0} /\ UpdateCap \in Nat \ {0} /\ LampCap \in Nat \ {0}
    /\ MaxChanges \in Nat /\ MaxStarts \in Nat

VARIABLES
    \* the OrderManager
    worldview,     \* the version of localWv
    merged,        \* the version of the own frame it merged last
    \* on the way out
    networkWvCh,   \* omToNetworkWvCh, the bridge of main.go and localWvCh
    sending,       \* the worldview NetworkRun is in SendWorldview with, or None
    stateTx,
    \* on the way in
    socket,
    peerWvCh,      \* networkToOmWvCh
    \* the lamps
    omToFsmWvCh,
    lamps,         \* the version the button lamps show, None before the first
    \* the peers
    beating,       \* beating[m]: peers.Transmitter of m runs
    starts,        \* starts of peers so far, for the bound
    heartbeats,    \* the peers with a heartbeat in the socket
    lastSeen,      \* lastSeen[m]: ticks since m was heard, or None
    update,        \* the update peers.Receiver waits to hand over, or None
    peerUpdateCh,
    aliveList,
    \* history
    missed,        \* the peers whose last update was dropped
    silent,        \* the peers that let a tick pass since they were heard last
    keptWaiting    \* ticks in a row, up to Timeout, that found an update waiting

frames == <<networkWvCh, sending, stateTx, socket, peerWvCh>>
light == <<omToFsmWvCh, lamps>>
orderManager == <<worldview, merged>>
remote == <<beating, starts>>
receiver == <<heartbeats, lastSeen, update>>
aliveness == <<peerUpdateCh, aliveList>>
history == <<missed, silent, keptWaiting>>
vars == <<orderManager, frames, light, remote, receiver, aliveness, history>>

-----------------------------------------------------------------------------
(* Types. *)

Version == 0 .. MaxChanges

\* peers.PeerUpdate; the list of all current peers in it is never read.
PeerUpdate == [new : Peer \cup {None}, lost : SUBSET Peer]
ASSUME UpdateAssumption == None \notin PeerUpdate

TypeOK ==
    /\ worldview \in Version /\ merged \in Version
    /\ networkWvCh \in Seq(Version) /\ Len(networkWvCh) <= FramesCap
    /\ sending \in Version \cup {None}
    /\ stateTx \in Seq(Version) /\ Len(stateTx) <= TxCap
    /\ socket \in Seq(Version) /\ Len(socket) <= SocketCap
    /\ peerWvCh \in Seq(Version) /\ Len(peerWvCh) <= PeerWvCap
    /\ omToFsmWvCh \in Seq(Version) /\ Len(omToFsmWvCh) <= LampCap
    /\ lamps \in Version \cup {None}
    /\ beating \in [Peer -> BOOLEAN] /\ starts \in 0 .. MaxStarts
    /\ heartbeats \in SUBSET Peer
    /\ lastSeen \in [Peer -> 0 .. Timeout + 1 \cup {None}]
    /\ update \in PeerUpdate \cup {None}
    /\ peerUpdateCh \in Seq(PeerUpdate) /\ Len(peerUpdateCh) <= UpdateCap
    /\ aliveList \in [Peer -> {"unseen", "alive", "lost"}]
    /\ missed \in SUBSET Peer /\ silent \in SUBSET Peer
    /\ keptWaiting \in 0 .. Timeout

\* The process has just started; the others may have been running for long.
\* Behaviours in which few changes, or few starts of peers, are to come are told
\* apart at once.
Init ==
    /\ worldview \in Version /\ merged = worldview
    /\ networkWvCh = <<>> /\ sending = None /\ stateTx = <<>>
    /\ socket = <<>> /\ peerWvCh = <<>>
    /\ omToFsmWvCh = <<>> /\ lamps = None
    /\ beating \in [Peer -> BOOLEAN] /\ starts \in 0 .. MaxStarts
    /\ heartbeats = {} /\ lastSeen = [m \in Peer |-> None] /\ update = None
    /\ peerUpdateCh = <<>> /\ aliveList = [m \in Peer |-> "unseen"]
    /\ missed = {} /\ silent = {} /\ keptWaiting = 0

\* Mutant: a send that always finds room.
OfferUnbounded(channel, cap, x) == Append(channel, x)

\* A non-blocking send: what does not fit is dropped.
Offer(channel, cap, x) == IF Len(channel) < cap THEN Append(channel, x) ELSE channel

-----------------------------------------------------------------------------
(* The OrderManager's side. *)

\* Mutant: the lamps are only told what changed.
SendToFsmOnChange(v) ==
    omToFsmWvCh' = IF v # worldview THEN Offer(omToFsmWvCh, LampCap, v) ELSE omToFsmWvCh

SendToFsm(v) == omToFsmWvCh' = Offer(omToFsmWvCh, LampCap, v)

\* A press, a completion, a peer's worldview, a change of the malfunction status or
\* a consensus may change localWv; only some of these cases of UpdaterRun call
\* sendToFsm, and those do so whether it changed or not.
ChangeWorldview ==
    /\ worldview' \in {worldview, worldview + 1} \cap Version
    /\ SendToFsm(worldview') \/ UNCHANGED omToFsmWvCh
    /\ UNCHANGED <<merged, frames, lamps, remote, receiver, aliveness, history>>

\* Mutant: a new worldview is not broadcast before the last one has come back.
BroadcastTickAnswered ==
    /\ merged = worldview
    /\ networkWvCh' = Offer(networkWvCh, FramesCap, worldview)
    /\ UNCHANGED <<orderManager, sending, stateTx, socket, peerWvCh, light, remote,
                   receiver, aliveness, history>>

\* case <-ticker.C.
BroadcastTick ==
    /\ networkWvCh' = Offer(networkWvCh, FramesCap, worldview)
    /\ UNCHANGED <<orderManager, sending, stateTx, socket, peerWvCh, light, remote,
                   receiver, aliveness, history>>

\* case elevState := <-fsmElevStateCh: broadcast at once, and no word to the lamps.
ElevState ==
    /\ worldview' \in {worldview, worldview + 1} \cap Version
    /\ networkWvCh' = Offer(networkWvCh, FramesCap, worldview')
    /\ UNCHANGED <<merged, sending, stateTx, socket, peerWvCh, light, remote, receiver,
                   aliveness, history>>

\* case peerWv := <-peerWvCh.
MergePeer ==
    /\ peerWvCh # <<>>
    /\ peerWvCh' = Tail(peerWvCh)
    /\ merged' = Head(peerWvCh)
    /\ worldview' \in {worldview, worldview + 1} \cap Version
    /\ SendToFsm(worldview')
    /\ UNCHANGED <<networkWvCh, sending, stateTx, socket, lamps, remote, receiver,
                   aliveness, history>>

\* SetAllLights.  A worldview equal to the last one changes no lamp.
SetAllLights ==
    /\ omToFsmWvCh # <<>>
    /\ omToFsmWvCh' = Tail(omToFsmWvCh)
    /\ lamps' = Head(omToFsmWvCh)
    /\ UNCHANGED <<orderManager, frames, remote, receiver, aliveness, history>>

-----------------------------------------------------------------------------
(* NetworkRun.  While it is in SendWorldview no other case is taken. *)

\* Mutant: every send has a goroutine of its own; a later one may get in first.
TakeLocalConcurrently ==
    /\ networkWvCh # <<>>
    /\ networkWvCh' = Tail(networkWvCh)
    /\ IF sending = None
       THEN sending' = Head(networkWvCh) /\ UNCHANGED stateTx
       ELSE /\ Len(stateTx) < TxCap
            /\ stateTx' = Append(stateTx, Head(networkWvCh))
            /\ UNCHANGED sending
    /\ UNCHANGED <<orderManager, socket, peerWvCh, light, remote, receiver, aliveness,
                   history>>

\* case wv := <-localWvCh.
TakeLocal ==
    /\ sending = None
    /\ networkWvCh # <<>>
    /\ sending' = Head(networkWvCh)
    /\ networkWvCh' = Tail(networkWvCh)
    /\ UNCHANGED <<orderManager, stateTx, socket, peerWvCh, light, remote, receiver,
                   aliveness, history>>

SendWorldview ==
    /\ sending # None
    /\ Len(stateTx) < TxCap
    /\ stateTx' = Append(stateTx, sending)
    /\ sending' = None
    /\ UNCHANGED <<orderManager, networkWvCh, socket, peerWvCh, light, remote, receiver,
                   aliveness, history>>

\* case wv := <-stateRx.
TakePeer ==
    /\ sending = None
    /\ socket # <<>>
    /\ socket' = Tail(socket)
    /\ peerWvCh' = Offer(peerWvCh, PeerWvCap, Head(socket))
    /\ UNCHANGED <<orderManager, networkWvCh, sending, stateTx, light, remote, receiver,
                   aliveness, history>>

Mentioned(u) == u.lost \cup (IF u.new = None THEN {} ELSE {u.new})

\* case update := <-peerUpdateRx.
TakeUpdate ==
    /\ sending = None
    /\ update # None
    /\ update' = None
    /\ peerUpdateCh' = Offer(peerUpdateCh, UpdateCap, update)
    /\ missed' = IF Len(peerUpdateCh) < UpdateCap
                 THEN missed \ Mentioned(update) ELSE missed \cup Mentioned(update)
    /\ UNCHANGED <<orderManager, frames, light, remote, heartbeats, lastSeen, aliveList,
                   silent, keptWaiting>>

-----------------------------------------------------------------------------
(* bcast: a frame goes onto the wire and comes back, or is lost. *)

Transmit ==
    /\ stateTx # <<>>
    /\ stateTx' = Tail(stateTx)
    /\ socket' \in {socket, Offer(socket, SocketCap, Head(stateTx))}
    /\ UNCHANGED <<orderManager, networkWvCh, sending, peerWvCh, light, remote, receiver,
                   aliveness, history>>

-----------------------------------------------------------------------------
(* peers and the alive list. *)

Expired(seen) == {m \in Peer : seen[m] # None /\ seen[m] > Timeout}

\* Mutant: a peer's time is noted when it is new, not whenever it is heard.
ReceiveNoRefresh(m) ==
    /\ update = None
    /\ m \in heartbeats \cup {None}
    /\ LET new == IF m # None /\ lastSeen[m] = None THEN m ELSE None
           seen == IF new = None THEN lastSeen ELSE [lastSeen EXCEPT ![m] = 0]
           lost == Expired(seen)
       IN  /\ lastSeen' = [k \in Peer |-> IF k \in lost THEN None ELSE seen[k]]
           /\ IF new # None \/ lost # {}
              THEN update' = [new |-> new, lost |-> lost] ELSE UNCHANGED update
    /\ heartbeats' = heartbeats \ {m}
    /\ silent' = silent \ {m}
    /\ UNCHANGED <<orderManager, frames, light, remote, aliveness, missed, keptWaiting>>

\* Mutant: the update is not sent when peers were only lost.
ReceiveNewOnly(m) ==
    /\ update = None
    /\ m \in heartbeats \cup {None}
    /\ LET new == IF m # None /\ lastSeen[m] = None THEN m ELSE None
           seen == IF m = None THEN lastSeen ELSE [lastSeen EXCEPT ![m] = 0]
           lost == Expired(seen)
       IN  /\ lastSeen' = [k \in Peer |-> IF k \in lost THEN None ELSE seen[k]]
           /\ IF new # None
              THEN update' = [new |-> new, lost |-> lost] ELSE UNCHANGED update
    /\ heartbeats' = heartbeats \ {m}
    /\ silent' = silent \ {m}
    /\ UNCHANGED <<orderManager, frames, light, remote, aliveness, missed, keptWaiting>>

\* What peers.Receiver does with one datagram, of the peer m, or of nobody it
\* follows here: its own node's, or none within 15 ms.  It stands still while an
\* update is waiting for NetworkRun.
Receive(m) ==
    /\ update = None
    /\ m \in heartbeats \cup {None}
    /\ LET new == IF m # None /\ lastSeen[m] = None THEN m ELSE None
           seen == IF m = None THEN lastSeen ELSE [lastSeen EXCEPT ![m] = 0]
           lost == Expired(seen)
       IN  /\ lastSeen' = [k \in Peer |-> IF k \in lost THEN None ELSE seen[k]]
           /\ IF new # None \/ lost # {}
              THEN update' = [new |-> new, lost |-> lost] ELSE UNCHANGED update
    /\ heartbeats' = heartbeats \ {m}
    /\ silent' = silent \ {m}
    /\ UNCHANGED <<orderManager, frames, light, remote, aliveness, missed, keptWaiting>>

\* Mutant: the peers that were lost are overlooked.
AppliedNew(list, u) == [m \in Peer |-> IF m = u.new THEN "alive" ELSE list[m]]

\* The update as the alive list takes it: first New, then Lost.
Applied(list, u) ==
    [m \in Peer |-> IF m \in u.lost THEN "lost" ELSE IF m = u.new THEN "alive" ELSE list[m]]

UpdateAliveList ==
    /\ peerUpdateCh # <<>>
    /\ peerUpdateCh' = Tail(peerUpdateCh)
    /\ aliveList' = Applied(aliveList, Head(peerUpdateCh))
    /\ UNCHANGED <<orderManager, frames, light, remote, receiver, history>>

\* Time passes: every running peer is heard, every entry ages.  A receiver that
\* is not kept waiting has read its socket and dropped what has expired by then:
\* it looks every 15 ms.
Tick ==
    /\ update = None => heartbeats = {} /\ Expired(lastSeen) = {}
    /\ heartbeats' = heartbeats \cup {m \in Peer : beating[m]}
    /\ lastSeen' = [m \in Peer |-> IF lastSeen[m] \in 0 .. Timeout
                                   THEN lastSeen[m] + 1 ELSE lastSeen[m]]
    /\ silent' = silent \cup {m \in Peer : ~beating[m]}
    /\ keptWaiting' = IF update = None THEN 0
                      ELSE IF keptWaiting < Timeout THEN keptWaiting + 1 ELSE keptWaiting
    /\ UNCHANGED <<orderManager, frames, light, remote, update, aliveness, missed>>

\* A peer's process, or its network, stops or starts.
Stop(m) ==
    /\ beating[m]
    /\ beating' = [beating EXCEPT ![m] = FALSE]
    /\ UNCHANGED <<orderManager, frames, light, starts, receiver, aliveness, history>>

Start(m) ==
    /\ ~beating[m] /\ starts < MaxStarts
    /\ beating' = [beating EXCEPT ![m] = TRUE]
    /\ starts' = starts + 1
    /\ UNCHANGED <<orderManager, frames, light, receiver, aliveness, history>>

-----------------------------------------------------------------------------

NetworkRun == TakeLocal \/ SendWorldview \/ TakePeer \/ TakeUpdate

Next ==
    \/ ChangeWorldview \/ BroadcastTick \/ ElevState \/ MergePeer \/ SetAllLights
    \/ NetworkRun
    \/ Transmit
    \/ \E m \in Peer \cup {None} : Receive(m)
    \/ UpdateAliveList
    \/ Tick
    \/ \E m \in Peer : Stop(m) \/ Start(m)

Spec == Init /\ [][Next]_vars

\* The tickers fire, every goroutine runs on, time passes.  select picks at
\* random, so no case of NetworkRun that is ready again and again is left out for
\* ever; the wire does not lose every frame.
Fairness ==
    /\ WF_vars(BroadcastTick) /\ WF_vars(MergePeer) /\ WF_vars(SetAllLights)
    /\ SF_vars(TakeLocal) /\ WF_vars(SendWorldview)
    /\ SF_vars(TakePeer) /\ SF_vars(TakeUpdate)
    /\ WF_vars(Transmit) /\ SF_vars(Transmit /\ socket' # socket)
    /\ WF_vars(UpdateAliveList)
    /\ WF_vars(Tick)
    /\ \A m \in Peer : SF_vars(Receive(m))
    /\ WF_vars(Receive(None))

LiveSpec == Spec /\ Fairness

-----------------------------------------------------------------------------
(* Properties. *)

\* The alive list, with the updates applied that are on their way to it, names
\* exactly the peers that peers.Receiver follows - except a peer whose last update
\* NetworkRun had to drop: updates tell only what changed (handler.go line 129).
Pending == peerUpdateCh \o (IF update = None THEN <<>> ELSE <<update>>)
LastAbout(m, i) ==
    /\ i \in DOMAIN Pending /\ m \in Mentioned(Pending[i])
    /\ \A j \in DOMAIN Pending : j > i => m \notin Mentioned(Pending[j])
AliveListFollows ==
    \A m \in Peer \ missed :
        /\ \A i \in DOMAIN Pending :
              LastAbout(m, i) => (lastSeen[m] = None <=> m \in Pending[i].lost)
        /\ (\A i \in DOMAIN Pending : m \notin Mentioned(Pending[i]))
              => (lastSeen[m] = None <=> aliveList[m] # "alive")

\* A peer that keeps sending its heartbeat is reported lost only after NetworkRun,
\* held up by outgoing worldviews, kept the receiver waiting for as long as the
\* time limit.
NoFalseLoss ==
    [][\A m \in Peer :
          lastSeen[m] # None /\ lastSeen'[m] = None /\ m \notin silent
             => keptWaiting = Timeout]_vars

\* Once no peer stops or starts any more, the alive list gets to say who runs,
\* again and again if a held-up receiver makes it err, unless the last update about
\* a peer was dropped.
AliveListSettles ==
    \A m \in Peer : []<>((aliveList[m] = "alive") = beating[m] \/ m \in missed)

\* The own frames come back in the order they were sent, whatever is dropped on
\* the way: no older worldview is merged after a newer one of the same node.
FramesInOrder == [][merged' >= merged]_vars

\* Although a full channel drops the newest worldview and keeps the older ones,
\* the newest gets through in the end, once there are no more changes.
NewestMerged == []<>(merged = worldview)

\* The button lamps end up showing the present worldview, although consensus
\* changes it without telling them (ordermanager.go line 95) and a full channel
\* drops what they are told.
LampsCatchUp == []<>(lamps = worldview)
=============================================================================
