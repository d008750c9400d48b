# TTK4145 elevator system: models, checks and proofs

This directory is the formal-methods side of `src/Project`: TLA+ modules of the
distributed elevator controller, TLC configurations that check them on small
instances, and TLAPS proofs of the properties that matter most.  Paths below are
relative to `src/Project` unless they name a module here.

## 1. The system

One process per elevator.  `main.go` (`runFullSystem`) starts these goroutines
and connects them with channels:

| Part | State it keeps | Operations | Talks to |
|---|---|---|---|
| **OrderManager** (`UpdaterRun`, `mergePeerWorldview`, `applyHallConsensus`) | `localWv` (hall requests, one entry per known node with its cab requests, position and malfunction flag), `peerWorldviews`, `cabCallKnown`, all behind `localWvMu` | merge a peer's worldview; take a button press, a completion, a position, a malfunction status; broadcast every 100 ms; hand the worldview to the assigner at every change and every 10 s | NetworkHandler (in: worldviews; out: worldviews), StateMachine, OrderAssigner |
| **NetworkHandler**, **Network** (`peers`, `bcast`) | `aliveList` behind a mutex; last-seen times of the heartbeats; the channels between them | `NetworkRun` hands worldviews out and in and peer updates on; `UpdateAliveList` for every peer heard for the first time or lost; UDP broadcast and reception | OrderManager reads `GetAliveList` |
| **OrderAssigner** (`Run`) | the latest worldview | drain to the newest worldview, drop malfunctioned and dead nodes, run `hall_request_assigner` with a time limit of 2 s, add the own cab calls, remove impossible orders | out: the assigned orders, to the StateMachine |
| **StateMachine: loop and handlers** (`controlElevatorStateMachine`, `handleIdle`, `handleMoving`, `handleDoorOpen`) | `elev` (floor, direction, state), `currentDestination`, `isObstructed`, `isStoppedFlag` | every 200 ms: read the latest destination, report the elevator's state, handle one event | hardware pollers, timers, destination producer, OrderManager |
| **StateMachine: destination** (`produceNextElevatorDestination`, `provideLatestDestination`, `findClosestDestination`) | last reported position, last assigned orders, latest destination | recompute the nearest destination on every report and every assignment | the loop, the OrderAssigner |
| **StateMachine: timers, malfunction** (`DoorTimer`, `FloorTimer`, `WatchdogTimer`, `sendMalfunctionStatus`) | one timer each; four booleans and the last status sent | run out, restart, stop; send the disjunction of the four signals when it changes | the loop, the OrderManager |
| **Hardware** (`elevio`, `io.go`) | last polled values, the TCP connection | pollers that report changes; motor, lamps | the elevator server |

The life of a request is `NoCall -> Exist -> Acknowledged -> Complete -> NoCall`.
A node moves a request on by itself only when every node on its alive list shows
it at that level or above; a merge may also move it (learn `Exist`, follow to
`Complete`, follow a node that already cleared).

### What is hard here

* Worldviews are full-state broadcasts over UDP: lost, delayed, out of date when
  merged, crossing one another, and looped back to their sender.
* A node that crashes loses everything; it recovers its cab calls from its peers,
  hall calls only if it hears `Exist`.
* The alive list is empty at start and may be wrong later: updates tell only what
  changed and are dropped at a full channel, and the receiver of the heartbeats
  stands still while an update waits for `NetworkRun`.
* Every channel has a bound, and most sends drop what does not fit - the newest,
  not the oldest.
* Inside one node six goroutines exchange positions, destinations, completions,
  timeouts and resets over bounded channels; the state machine acts on a
  destination computed from a position it has since left.
* Timers run out while they are being restarted or stopped.

What makes each part correct: OrderManager - a call, once acknowledged, is known
to everybody, completed only by service, cleared only when all are through (with two
exceptions, section 3), and no node waits for ever.  StateMachine - the door is open only at a floor with
the motor off, the car stays in the shaft, an open door closes, every assigned
order is served.  Destination - the search returns the order the circle (up, then
down) reaches first, and no order is overtaken for ever.  Malfunction - the
OrderManager has the current status; a hang is reported, and recovery too.  The
full list of hazards, each at its line, is in `PROJECT.json`.

## 2. The modules

```
OrderManager  <- OrderCluster <- MCOrderCluster           OrderCluster_proofs
CallLifecycle <- CallRefinement <- MCCallRefinement       HallCall_proofs
                 (extends OrderCluster too)
NetworkHandler <- MCNetworkHandler                        NetworkHandler_proofs
Destination  <- Sweep                                     Sweep_proofs
             <- ElevatorControl <- MCElevatorControl      ElevatorControl_proofs
                (these two use Destination_proofs)
             <- OrderAssigner <- MCOrderAssigner          OrderAssigner_proofs
Malfunction  <- MCMalfunction                             Malfunction_proofs
```

An arrow reads "is extended by", except that CallRefinement takes CallLifecycle with
INSTANCE ... WITH.  The proof module on a line extends the module before it;
HallCall_proofs extends OrderCluster_proofs and CallRefinement.

**OrderManager** - the pure rules for one request: `ValidTransition`, the consensus
test `AllAlive...AtOrAbove`, the five rules of `mergePeerWorldview`
(`MergeHall`), recovery (`RecoverCab`), press and completion.  Operators named as
mutants in their comments are the plausible bugs used to show that a property can
fail; nothing else refers to them.

**OrderCluster** - the state of all nodes and one action per case of `UpdaterRun`'s
`select` (`BroadcastTick`, `OraTick`, `MergePeer`, `NewHallOrder`, `NewCabOrder`,
`OrderComplete`, `Malfunction`, `ElevState`), plus `UpdateAliveList`, `Crash` and
`Restart`.  `localWvMu` makes a case one step.  The network pipeline
(`Transmitter`, socket, `Receiver`, the bridge of `main`) is one lossy broadcast
into a first-in-first-out `inbox` per receiver: every set of receivers is
possible - the sender hears itself like everybody else, since nobody filters the
own frames (`handler.go:123`, `ordermanager.go:103`) - and a full inbox loses the frame.
What the users do is bounded: `HallButton` and `CabButton` are the buttons pressed,
`Mixed` says whether hall calls, cab calls and reports meet in one run, `Repress` whether a
button is pressed before the traces of the served call are gone.  The history variables `hallCall` and `cabCall` follow the *user's*
call (none, open, due, served, repressed, tangled) and influence nothing but the bound
`Repress`.  A served call becomes tangled when a node does to it, on merging an own frame,
what consensus alone would not.
`assignable` is what the assigner was ever handed: an over-approximation of what
the elevator may complete.

**CallLifecycle** - what the order protocol promises about one hall call, with no
message in it: made at one elevator (`Press`), learnt by the others (`Learn`), due
only once everyone knows it (`Confirm`), served and heard of as served (`Serve`),
and forgotten by a node only when everybody else who still holds it knows that it
was served (`Forget`).  It has one way out, `Echo`: a node that had forgotten the served
call takes it up again, or one that knows it is served forgets it too early.  From then on
the call is tangled and anything goes (`Untangle`) until everybody has forgotten it and the button is
pressed again.  **CallRefinement** maps OrderCluster to it: `stage` is the
history variable `hallCall`, `knows` the nodes whose request is not `NoCall`, `done`
those at `Complete`.  Its `KeepsLifecycle` holds the steps to `CallLifecycle` until the first
crash.  Only an own frame moves `hallCall` from served to tangled, so the refinement also says
that nothing else - no frame of a peer, however old, and no order of steps - does what `Echo` does.

**NetworkHandler** - the goroutines between one node's OrderManager and the wire.
`NetworkRun` case by case, with `SendWorldview` as a state of its own (`sending`) in
which no other case is taken; `stateTx`, the socket and the channels of `main.go`
with their bounds and what each sender does when they are full (`Offer` drops,
`SendWorldview` and the receiver of the peers wait); `peers.Receiver`, one datagram
at a time, with its table of last-seen times and its update (`Receive`); the
goroutine that applies updates to the alive list; and the way to the button lamps,
`sendToFsm` and `SetAllLights`.  A worldview is known by its version, the number
of changes of `localWv` in it, and the frames followed are the node's own, which the
broadcast brings back.  The environment is `Stop` and `Start` of a peer and the
passing of time (`Tick`).

**Destination** - `findClosestDestination` with its four intervals, beside an
independent definition: `Ahead` numbers the positions of the circle, `IsNearest`
says what nearest means.

**Sweep** - one elevator that follows the search with its reports answered at once.

**ElevatorControl** - the loop with its two steps (`Fetch`, then a case of
`Handle`), the three handlers case by case, the door timer with its reset and
timeout channels, the destination producer, the car and its sensors, the
passengers, and - left open - the OrderManager and the OrderAssigner.  A held
order (`latestDestination`, `positionCH`, `costCH`, `clearCH`) is as stale as the
channels allow.

**OrderAssigner** - the way from acknowledged calls to an elevator's orders, at every
node for itself: each case of `UpdaterRun` that changes what the assigner reads,
with or without handing it over; `sendToOrderHandler`'s channel, which drops what
does not fit; `Run` in two steps (`Take` drains the channel and reads the alive
list, `Finish` or `Fail` ends the executable's run), and `Assigned`, the state
machine's side.  The executable is a fixed function `cost` of its
input, the same at every node, and `Init` leaves open which.  `OrderCluster` has
the protocol that changes the worldviews; here they change in any way.

**Malfunction** - the floor timer, the watchdog and `sendMalfunctionStatus`.  The
functions that send two messages (`ResetFloorTimer`, `StopFloorTimer`,
`ResetWatchdogTimer`) are two steps, and the timers run in between.

### What is abstracted

* OrderCluster: `Floor` may be a subset of the building's floors, since no rule
  relates two requests except a completion, which acts on the hall and the cab
  request of one floor.  Positions are opaque.  The own worldview is stored by the
  code when it is looped back (`ordermanagerLogic.go:15`) but never read - the consensus reads
the live one in its place - and is not kept; everything else a merge does, it does with own frames too.  `sendToFsm` only
  feeds the lamps; it is in NetworkHandler.
* NetworkHandler: a tick is long enough for every running peer to be heard once (a
  heartbeat comes every 15 ms, the time limit is 500 ms, so 33 heartbeats in a row
  would have to be lost for less), and `Timeout` counts ticks.  `omToNetworkWvCh`, the bridge and
  `localWvCh` are one channel, since each forwards in order and only the first
  drops.  All button lamps are one value, the version they show.  A peer's own
  transmission is the same code at the peer.
* ElevatorControl: an arrival is taken before the car leaves that floor (the loop
  looks every 200 ms); the floor timer is off, armed or expired (Malfunction has
  its channels); the door timer's reset is taken during the loop's 200 ms sleep; a
  full position or completion channel blocks the loop at `Fetch`;
  `latestDestinationCH` and its provider are part of the producer's step; a press
  the code forwards becomes a call at once; the lamps, the floor indicator and
  the report to the OrderManager are left out, the watchdog is in Malfunction.
* OrderAssigner: of a worldview only the acknowledged calls, who is fit, and one
  opaque value for the positions, other calls and cab calls the executable is given.  The input
  checks and the check of the cab calls just inserted cannot fail for the
  worldviews of this program and are left out.
* Malfunction: of the state machine only what it signals.  The watchdog's five
  seconds do not pass between the two sends of one reset unless the program hangs.

## 3. The runs

Passing runs:

| Run | Instance | Shows |
|---|---|---|
| Crash | 2 nodes, one landing button at both, one cab button at A, hall and cab calls one at a time, inbox 1, node A crashes once and restarts, presses at any time; 448,301 states | `NoPhantomCall`, `NoEarlyCompletion`, `UnservedCallKept`, `DueCallReplicated`, `CabStateKnown`, `CabInEveryFrame`, `NoCabResurrection`, `TypeOK`: crossing, lost, own and stale worldviews and a crash at any moment neither invent, complete nor forget a call; until the crashed node is started again every running node has an acknowledged hall call and every frame of the owner shows an acknowledged cab call; after it stale copies overwrite nothing |
| ClusterLive | 2 nodes, inbox 2, one landing button at A, node B may crash for good, malfunction and position reports; 64,294 states | `CallConfirmed`, `CompletionCleared`, `ElevatorViewRefreshed`, `KeepsLifecycle`: nobody waits for ever, reports get through again and again, and a hall call lives as `CallLifecycle` has it |
| Sweep | 4 floors, every set of orders, orders coming for ever; 640 states | `ClosestIsNearest`, `EveryStepBringsNearer`, `EveryOrderServed`, `TypeOK` |
| OneElevator | 3 floors, every start position, 2 presses out of 3 buttons (one at each floor), one switch operation, events and reports 1, door timeouts 2, hall calls may go elsewhere; 260,822 states | `DoorSafe`, `NoOverrun`, `DoorNotStuck`, `MovingIsWatched`, `TypeOK`, and `CallServed`: every call is served although positions and destinations cross |
| Alarms | channels 1, two switch changes, hangs and a slow loop possible; 126,138 states | `StatusUpToDate`, `HangReported`, `SwitchReported`, `RecoversOnTheMove`, `TypeOK` |
| Assignments | 2 nodes, 2 floors, one hall call, one cab call on the other floor, channels 1, two changes of worldviews or alive lists from an agreed start with the hall call acknowledged or not; 143,136 states | `HallCallAssignedOnce`, `CabCallAssigned`, `CompletedCallDropped`, `TypeOK`: whatever was dropped or failed on the way, once the nodes agree a call is in the orders of exactly one elevator in order |
| Network | 1 peer that may stop at any time and start once, time limit 1 tick, every channel 1, two changes of the worldview; 139,328 states | `AliveListFollows`, `NoFalseLoss`, `FramesInOrder`, `AliveListSettles`, `NewestMerged`, `LampsCatchUp`, `TypeOK`: what the alive list, the OrderManager and the lamps end up with although each channel drops what does not fit or holds its sender up |

Why these bounds: the order rules treat every request alike and each consensus
compares one node with the rest, so two nodes show every pairwise crossing.  An inbox of
one frame still allows a frame that is arbitrarily out of date (it can wait while everything else
happens); what takes an own frame and one of the peer waiting together needs two, as in
ClusterLive, V_ClearedOnceConfirmed and V_NoResurrection.  With three nodes, or an inbox of
two, an old entry of one node can also be passed on by another: `ElevatorViewRefreshed` is checked with
that, and the theorems behind `CabInEveryFrame` and `KeepsLifecycle`, whose runs have two nodes,
are for any number of nodes and any inbox.  `MaxCrashes = 1` with one crashing
node covers a crash at each moment of a call's life; the theorems of section 5
say which properties hold for any number.  Three floors give the state machine a floor to pass, two ends
and starts between floors; `Sweep` covers the building of four.  In OneElevator
the bounded presses and switch operations make the initial
conditions of one or two trips; longer histories start from states these reach.
In Network channels of one are full as soon as two things meet in them, which is
what the properties are about; the peers do not disturb each other except by
holding up the one receiver, and the own broadcasts do that as well.  Changes of the worldview
and of the peer are explored one after the other (`SmallInit`), because they meet only
where a worldview, of whatever version, holds `NetworkRun` up; the proofs have no such
restriction.
`Repress` is off where a property speaks of one life of a call, since two lives
cannot be told apart by the code (see V_Repress): the next press then waits until no trace of
the served, or tangled, call is left.  In Assignments the nodes come to
disagree through statuses, alive lists and the call itself, two of which may change
at different moments of the two nodes' runs of the executable; one `Position` is enough for
that.  `CHECK_DEADLOCK FALSE` appears
in Alarms only: a hung state machine that is reported has nothing left to do.

`SteadyInit`, used by the order runs, is the state an idle cluster reaches from `Init` after
everyone has heard everyone.  No code sets it, so it is not mapped to a source line; where a
theorem is about `SteadySpec` only, section 5 says so.

Known deviations from the documentation (runs that must fail, one property each):

| Run | What happens |
|---|---|
| V_Repress | A press while a peer still broadcasts `Complete` of the previous call is cleared with it; the call is lost although nothing failed |
| V_CabRestart | The restarted node broadcasts empty cab requests before it has merged anything, which erases the copies it needed |
| V_ClearedOnceConfirmed | A node that has served a call merges its own looped-back frame from before the call: `NoCall` at `Complete` counts as a peer that has cleared (`ordermanagerLogic.go:97`), and the completion is dropped while the peer still has the call (`README.md:11`) |
| V_NoResurrection | A node at `Exist` has the peer's `Complete` and its own `Exist` waiting: the first takes it through `Acknowledged` and `Complete` to `NoCall`, the second back to `Exist` (`ordermanagerLogic.go:61`) and, as the stored worldview of the peer says `Complete`, at once to `Acknowledged`, so that the served call is handed to the assigner again (`README.md:11`) |
| V_StopHeld | An arrival handled while the stop button is held opens the door or starts the motor; needs the arrival and the stop in the same 200 ms |

Met while modelling, described here and not run: a node that starts after a call
was acknowledged stays without it, as only `Exist` is learnt
(`ordermanagerLogic.go:61`); until its peers are on its alive list such a node acknowledges
and clears on its own; a peer that was lost is judged by its last worldview when it comes back
(`ordermanagerLogic.go:168`).

What own and passed-on frames do to the entries of other nodes (`ordermanagerLogic.go:43`): a
node takes over every entry but its own from any frame, so its own older frame, or one of a third
elevator, overwrites a peer's entry with an older one until that peer's next frame.  The older entry goes out
with the next broadcast and may come back, so with three elevators, or two frames waiting, old
entries can circulate.  Two statements one would like to make are therefore false and not made: that
a peer holds the copy of an acknowledged cab call at every moment, and that an elevator's
settled report is in the end listed right for good.  What holds is checked and proved instead:
every frame the owner has under way shows the call (`CabInEveryFrame`), a settled report is listed right
infinitely often (`ElevatorViewRefreshed`), and whatever is listed was once the owner's report
(`ReportsAreTheirOwners`).  A crash in the moment in which the copies are overwritten loses a cab call.

`CallConfirmed` excepts tangled calls: a call that own frames keep bringing back could be met
at `Exist` for ever.  A tangled call is excepted from `KeepsLifecycle`, `NoResurrection` and
`ClearedOnceConfirmed` in the same way, from the step after the one that tangles it.

Of the other parts: a floor timer that runs out between the two sends
of `StopFloorTimer` leaves its alarm standing until the next departure
(`timers.go:115`).  Nothing bounds how long that is: an elevator reported as malfunctioned gets no
orders, and one at rest need not move.  `MovingIsWatched` says only what the handlers set, and
`RecoversOnTheMove` presupposes an elevator that keeps moving and stopping and a watchdog that no longer
runs out, so it excludes both this and an elevator flooded with events
(`state_moving.go:76`).  A timeout that already waits
when the door's time is started again (`state_dooropen.go:57`) stays in its channel
and closes the door at once, and the timeout of the new period then closes the next
stop's door early - `ElevatorControl` has these steps, but a full period is a matter
of time, which it has not; a malfunctioned elevator gets no new
orders and keeps those it has (`orderAssigner.go:124`), so it may serve a call that
another elevator was given meanwhile - `HallCallAssignedOnce` speaks of the elevators in order.
`SendWorldview` blocks while `stateTx` is full (`NetworkHandler/handler.go:55`), and `NetworkRun`
with it, although `NetworkHandler/README.md:32` calls outbound sends non-blocking: it is the
OrderManager's send, earlier on the way, that drops.  `NoFalseLoss` says how far this goes - a
peer that is running can be reported lost only if the receiver was kept waiting for the whole
time limit - and `AliveListSettles` that the alive list recovers.

## 4. Fairness

* OrderCluster: strong fairness of `DeliverTick(n, r)`, because the 100 ms ticker
  repeats the frame for ever and losses are independent; weak fairness of merging,
  of the 10 s ticker and of the alive list.  Nobody has to press, serve or restart.
* NetworkHandler: weak fairness of the tickers, of every goroutine that takes from one
  channel, and of time; strong fairness of each case of `NetworkRun`, since `select`
  picks at random among those that are ready, and of hearing each peer; a frame is put
  into the socket infinitely often if it is sent infinitely often (the wire does not lose
  every frame).  Nothing has to change, no peer has to stop or start.
* ElevatorControl: weak fairness of the loop, the door timer, the producer, the
  car, the completions and the assigner (run at least every 10 s), and of the
  release of both switches: obstructions end.  `Assign` always gives this elevator orders in the
  end, which `orderAssigner.go:124` does only while it is not reported as malfunctioned: `CallServed`
  is about an elevator in order.  Presses and switch operations are
  bounded, so `select` choosing at random cannot starve the loop's quiet tick.
* OrderAssigner: weak fairness of the 10 s tick, of `Take` and of `Assigned`; strong
  fairness of `Finish`, since the executable may fail or be killed after 2 s, but is
  run again at every tick and does not fail every time.
* Malfunction: strong fairness of `ResetWatchdogTimer` and of each case of
  `sendMalfunctionStatus`'s `select`, which picks at random; weak fairness of the
  timers' goroutines and of a send that is under way.
* Sweep: weak fairness of moving and serving.

## 5. The proofs

All theorems are for every value of the constants under the named assumptions of
the modules; TLC evaluates these assumptions in the runs above.

* **OrderCluster_proofs** - `TypeCorrect`, `PhantomFree`, `CompletionOnlyByService`,
  `NothingForgotten`, `CabCallsKnown`, `CabNotResurrected`, from `Init` and from
  `SteadyInit`, for any number of nodes, crashes, false timeouts and inbox sizes.
  `NoPhantomCall` alone is not inductive: a phantom could come from what is stored
  or in flight.  The hall invariant is `TypeOK`, `NoPhantomCall` and
  `NoEarlyCompletion` together; the argument is that the sets of states
  `{NoCall}` and `{NoCall, Exist, Acknowledged}` are closed under every rule of
  merge and consensus once all *traces* (local, stored, in flight) lie in them, so
  only a press leaves the first and only a completion the second.
  `NothingForgotten` is then an action property: within the second set every
  rule is monotone.  The cab invariant is that a request is held only where
  `cabCallKnown` is set, which is what keeps `RecoverCab` from overwriting it.
* **HallCall_proofs** - two arguments about hall calls, for any number of nodes, any inbox
  and own frames of any age, both from `SteadyInit`.
  *Until the first crash* (`Orderly`: no running peer is reported lost, and a button is not pressed
  again before the served call is forgotten; each is needed, see V_Repress and section 3).  A call's state
  at a node, in what a node remembers of another and in every frame on its way is turned
  into a phase 0 .. 4, where a node that has cleared a served call is at 4 and not back at
  0.  Phases only go up (`Climb`), and the invariant `Calm` says of a call that is not tangled: memories
  and frames are never ahead of the node they came from, frames of one sender to another node are in order,
  and nobody who counts on another is further ahead of it than one step of the handshake; after a frame
  of somebody who cleared the call comes none of somebody still waiting.  Of a node's own frames it says
  only that they are not ahead of the node (`FramesAgree`): `OwnMergeKeeps` shows that this is enough for
  what an own frame does before the call is served, and that after it the only steps out of the order are the
  two of `Echo`, which tangle the call (`Tangles`).  A tangled call stays tangled until every trace is gone, and
  then `PressKeeps` starts the order anew.  One lemma each for
  sending, hearing and merging, consensus, pressing and completing keeps it.
  `OnlyOwnFramesResurrect` (`ServedStaysGone`) and `OnlyOwnFramesHurry` (`ClearingIsConfirmed`) follow:
  what V_NoResurrection and V_ClearedOnceConfirmed show is done by own frames and by nothing else.  So does the
  refinement `KeepsLifecycle` (`LifecycleKept`): Init maps to Init and every step until the first crash
  to a step of `CallLifecycle` or a stutter.
  *Crashes* (`DueCallsSpread`): if no running peer is reported lost and each node crashes at most
  once, `DueInv` - everybody who runs is listed as alive, what is remembered or in flight of a
  fresh call is never ahead of its node, and an open call is acknowledged nowhere - makes a call due
  only when every running node has it; `NothingForgotten`'s argument keeps it there.
* **OrderCluster_proofs, the frames of a cab call's owner** - `CabCallsInEveryFrame` proves
  `CabInEveryFrame` from `SteadyInit`, for any number of elevators and with own and passed-on
  frames, if no running peer is reported lost and each node crashes at most once; `LifeKept`, which
  `DueCallsSpread` rests on too, says that then everybody who runs is listed until somebody
  restarts.  The owner acknowledges a cab call on the peers' answers: the invariant `CabFrameInv` says
  that the request is the highest trace of itself and that no frame of the owner on its way to a peer is
  behind what that peer lists, has sent or is about to read before it (`Behind`).  So when the answers show the call,
  the frames still on their way do too, whatever older entry the peer takes over afterwards.
* **OrderCluster_proofs, cab calls among any number of elevators** - `CabPhantomFree` and
  `CabNotForgotten` are for cab calls what `PhantomFree` and `NothingForgotten` are for hall calls,
  with crashes, restarts and entries passed on by third nodes.  A cab call leaves traces
  in more places: every node's copy, what the owner has read of it, the frames.  The
  closed sets are the same, but there is one more way up: a recovery takes over a copy.  So the
  inductive invariant `CabTraceInv` needs `NothingToRecover` besides the two
  properties: a node that has not crashed and does not know a request has never had
  one there, so there is no copy to recover.  `CabNotForgotten` rests on `CabCallsKnown` for
  the rest: what is held is never overwritten.
* **OrderCluster_proofs, what the assigner is handed** - `AcknowledgedIsHandedOver` and
  `NobodyServesPhantoms`.  `HandedInv` joins them with the invariants of hall and cab calls; the work is
  in `MergeReports` (a merge whose `reachedAck` stays false acknowledges nothing) and in
  the restarted node, whose recovered cab order waits for the ticker and is excepted by name.
* **OrderCluster_proofs, the elevator reports** - `ReportsAreTheirOwners` and `SettledReportsStay`, both
  from one lemma, `ReportStep`: an entry of a node elsewhere was there before or stands in the
  frame just read (`EntryFrom`), a frame was on its way or has just been sent
  (`FrameFrom`), so no step spreads a report the owner does not have.
* **NetworkHandler_proofs** - `TypeCorrect`; `NothingOvertakes`: all own worldviews on their way form
  one non-decreasing sequence from `merged` to `worldview`, which each drop and each send
  keeps; `BeatingIsNotLost`: what peers.Receiver last heard of a peer that did not fall silent is
  not older than it was kept waiting; `AliveListRight`: by what the last waiting update about
  a peer says; `LampsNeverGoBack`: the same sequence from `lamps` to `worldview`; and `NewestIsStable`, from
  both sequences: nothing on its way can undo what is merged or lit.
* **Destination_proofs** - `FindsNearest`: the search agrees with `IsNearest` for
  any number of floors.  One lemma per interval (its first order going up, or
  down), then the arithmetic of `Ahead` orders the four intervals.
* **Sweep_proofs** - type correctness, `HeadsForNearest`, and `NeverOvertaken`: a floor
  travelled or an order served brings every waiting order nearer, whatever comes
  in.  `MovingOn` shows that a step towards the destination shortens `Ahead` for
  every cell not passed, `TowardComesFirst` that none is passed.
* **ElevatorControl_proofs** - `ControlInv` collects `TypeOK`, where the car is
  relative to `elev.floor` while it stands and while it is under way, that lamp
  and state agree, that an unheld open door has a timeout coming, and that the
  floor timer is on exactly when moving.  `DoorSafe` and `NoOverrun` follow from it
  but are not inductive: whether the car is beyond a floor depends on the
  unhandled arrival.
  `CompletesOnlyAssigned` follows an order from the assignment over the producer's answer, which
  `FindsNearest` makes one of the orders, and the destinations to the completion
  (`WithinInv`); `CompletesAtTheDoor` is `ControlInv` before and after the step.
* **OrderAssigner_proofs** - type correctness: the channels keep their bound, the
  executable is never run without an elevator, and no impossible order reaches an
  elevator.  `AssignsOnlyHanded` follows the orders through the pipeline (`WorksWithin`).
  `OrdersRefresh` names the stages a worldview goes through - the newest in the channel, the
  job, the answers that wait, the orders - and shows that a stage once up to date stays so and hands
  that on; `FreshIsRight` says what up-to-date orders are: of nodes that agree, exactly one
  goes for a hall call.
* **Malfunction_proofs** - `StatusInv`: the last message on each signal's channel, or
  what was heard if it is empty, is the switch's state, and
  `currentMalfunctionStatus` is the disjunction of what was heard.  `WatchdogNeverSilenced`: the
  watchdog is set, or its alarm is the last word.  That is inductive only with the
  state between the two sends of a reset: there the FALSE is still to come, so the watchdog
  must be set.  `HungIsTold` and `HungStaysReported` follow, `NoFalseAlarm` by its own
  invariant: no message and nothing heard says TRUE.

**A contract from module to module.**  OrderCluster lets a node report a completion
of any order in `assignable[n]`, and nothing else.  The theorems of three modules close that circle for
every set of orders: what the OrderManager hands over is somebody's call (`NobodyServesPhantoms`), the
assigner passes on only what it was handed (`AssignsOnlyHanded`, whose `Handed` counts the
orders of a worldview as `SendToOrderHandler` does), and the state machine completes only what it
was assigned (`CompletesOnlyAssigned`), and that with the door open at the floor
(`CompletesAtTheDoor`).  The modules have no variables in common: that
the same channel is meant on both sides is read from `main.go`, not proved.

**Safety behind liveness.**  A property under fairness is a promise that something happens and that
it is then right and stays so.  The second half is proved where the first is only checked:

| checked under fairness | proved |
|---|---|
| `CallConfirmed`, `CompletionCleared` | `DueCallsSpread`, `LifecycleKept` |
| `ElevatorViewRefreshed` | `ReportsAreTheirOwners`, `SettledReportsStay` |
| `EveryOrderServed` | `NeverOvertaken` |
| `CallServed` | `DoorWillClose`, `MovingWatched`, `CompletesAtTheDoor` |
| `HangReported`, `SwitchReported`, `RecoversOnTheMove` | `HungIsTold`, `HungStaysReported`, `StatusCurrent`, `NoFalseAlarm` |
| `HallCallAssignedOnce`, `CabCallAssigned`, `CompletedCallDropped` | `OrdersRefresh`, `FreshIsRight` |
| `AliveListSettles` | `AliveListRight` |
| `NewestMerged`, `LampsCatchUp` | `NothingOvertakes`, `LampsNeverGoBack`, `NewestIsStable` |

Only model-checked: everything under fairness (`CallConfirmed`, `CompletionCleared`,
`ElevatorViewRefreshed`, `CallServed`, `EveryOrderServed`, `HangReported`,
`SwitchReported`, `RecoversOnTheMove`, `HallCallAssignedOnce`, `CabCallAssigned`,
`CompletedCallDropped`, `AliveListSettles`, `NewestMerged`, `LampsCatchUp`), since liveness and ENABLED
are beyond the prover.  Every other property of a passing run is a theorem.

## 6. Not modelled

* `hall_request_assigner`: an external binary; any function of its input that gives each
  hall call to one elevator stands for it.
* Sockets and JSON of Network, the TCP protocol of `elevio`, printing: input and output without a
  state the controller depends on.  The floor indicator, an output no other part reads.
* The Tester programs: they drive the components above by hand and promise nothing of their own.
* The course exercises beside `src/Project` (threads, a TCP and a UDP example, a process pair that
  counts, priority resources in Ada, D and Go): separate programs from before the project, which share no
  code with it.

Hazards without a property, and why: a late door timeout (`state_dooropen.go:65`), an
arrival handled after the car has left again (`state_moving.go:45`) and a watchdog that runs out
under a flood of events (`state_moving.go:76`) are matters of real time - how long the door stood
open, how fast the car is against the loop's 200 ms, how fast events come against 5 s - which the
models do not have.  What a property leaves open of its hazard is in the hazard's note in `PROJECT.json`.

## 7. Plan

Done: OrderManager and OrderCluster, CallLifecycle and its refinement, NetworkHandler,
Destination and Sweep, ElevatorControl, Malfunction, OrderAssigner, each with its proofs.  Open:

1. **The lifecycle under crashes** - a weaker `CallLifecycle` in which a node may fall
   silent and start again without the call, for the configuration of Crash.
2. **A whole node** - ElevatorControl with the OrderManager's handling of
   completions and the OrderAssigner in the place of its open environment; the pieces are
   there, their product is larger than TLC handles in reasonable time at three floors.  The
   contract theorems of section 5 stand in for it where safety is concerned.
3. **Proofs** - the hall call of item 1 for any number of nodes; how long after a peer falls
   silent peers.Receiver drops it, which needs the ticks of every peer in the invariant.
