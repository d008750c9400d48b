----------------------------- MODULE Malfunction -----------------------------
(***************************************************************************)
(* How an elevator gets to be reported as malfunctioned: the floor timer   *)
(* and the watchdog, the channels on which they and the state machine      *)
(* signal, sendMalfunctionStatus, which puts the four signals together,    *)
(* and the OrderManager, which takes the result.                           *)
(*                                                                         *)
(* Of the state machine only what it signals is kept: whether it is moving *)
(* and the two switches it knows of.  ResetFloorTimer, StopFloorTimer and  *)
(* ResetWatchdogTimer are two sends each, and the timers run in between.   *)
(***************************************************************************)
EXTENDS Naturals, Sequences

CONSTANTS
    ChannelCap,   \* capacity of the buffered channels (10 in the code)
    MayHang,      \* whether the state machine can stop making steps
    MaySlow,      \* whether the watchdog can run out on one that is only slow
    MaxSwitches   \* bound: changes of the two switches

ASSUME MalfunctionAssumption ==
    /\ ChannelCap \in Nat \ {0}
    /\ MayHang \in BOOLEAN /\ MaySlow \in BOOLEAN /\ MaxSwitches \in Nat

VARIABLES
    \* the state machine
    pc,            \* "loop", or which FALSE it still has to send
    hung,
    moving,        \* elev.ElevState = def.Moving
    isObstructed, isStopped,
    switches,      \* changes so far, for the bound
    \* the timers: do they run, and what waits for them
    floorTimer, floorTimerResetCH, floorTimerStopCH,
    watchdogTimer, watchdogResetCH,
    \* the four signals
    obstructionMalfCH, stopMalfCH, watchdogTimeoutCH, floorTimerTimeoutCH,
    \* sendMalfunctionStatus
    heard,         \* isObstructed, isStoppedFlag, isWatchdogtimeout, isFloorTimerTimeout
    currentMalfunctionStatus,
    sending,       \* it waits for the OrderManager to take the status
    firstTransmission,
    \* the OrderManager
    malfunctioned

fsm == <<pc, hung, moving, isObstructed, isStopped, switches>>
floorTiming == <<floorTimer, floorTimerResetCH, floorTimerStopCH>>
watchdog == <<watchdogTimer, watchdogResetCH>>
switchSignals == <<obstructionMalfCH, stopMalfCH>>
timeouts == <<watchdogTimeoutCH, floorTimerTimeoutCH>>
sender == <<heard, currentMalfunctionStatus, sending, firstTransmission>>
vars == <<fsm, floorTiming, watchdog, switchSignals, timeouts, sender, malfunctioned>>

Signal == {"obstruction", "stop", "watchdog", "floor"}

TypeOK ==
    /\ pc \in {"loop", "floor", "watchdog"}
    /\ hung \in BOOLEAN /\ moving \in BOOLEAN
    /\ isObstructed \in BOOLEAN /\ isStopped \in BOOLEAN
    /\ switches \in Nat
    /\ floorTimer \in BOOLEAN /\ watchdogTimer \in BOOLEAN
    /\ floorTimerResetCH \in 0 .. ChannelCap /\ floorTimerStopCH \in 0 .. ChannelCap
    /\ watchdogResetCH \in 0 .. ChannelCap
    /\ obstructionMalfCH \in Seq(BOOLEAN) /\ stopMalfCH \in Seq(BOOLEAN)
    /\ watchdogTimeoutCH \in Seq(BOOLEAN) /\ floorTimerTimeoutCH \in Seq(BOOLEAN)
    /\ heard \in [Signal -> BOOLEAN]
    /\ currentMalfunctionStatus \in BOOLEAN
    /\ sending \in BOOLEAN /\ firstTransmission \in BOOLEAN
    /\ malfunctioned \in BOOLEAN

\* As controlElevatorStateMachine enters its loop: on a floor, or on its way
\* down with the floor timer reset; the watchdog is reset either way.
Init ==
    /\ pc = "watchdog" /\ hung = FALSE
    /\ moving \in BOOLEAN
    /\ isObstructed = FALSE /\ isStopped = FALSE /\ switches = 0
    /\ floorTimer = FALSE /\ floorTimerResetCH = (IF moving THEN 1 ELSE 0)
    /\ floorTimerStopCH = 0
    /\ watchdogTimer = FALSE /\ watchdogResetCH = 1
    /\ obstructionMalfCH = <<>> /\ stopMalfCH = <<>>
    /\ watchdogTimeoutCH = <<>>
    /\ floorTimerTimeoutCH = (IF moving THEN <<FALSE>> ELSE <<>>)
    /\ heard = [s \in Signal |-> FALSE]
    /\ currentMalfunctionStatus = FALSE /\ sending = FALSE /\ firstTransmission = TRUE
    /\ malfunctioned = FALSE

Room(channel) == Len(channel) < ChannelCap

-----------------------------------------------------------------------------
(* The state machine: the first of the two sends, and the change that      *)
(* causes it.                                                              *)

Running == pc = "loop" /\ ~hung

\* It leaves a floor, or passes one.
ResetFloorTimer ==
    /\ Running
    /\ floorTimerResetCH < ChannelCap
    /\ floorTimerResetCH' = floorTimerResetCH + 1
    /\ moving' = TRUE
    /\ pc' = "floor"
    /\ UNCHANGED <<hung, isObstructed, isStopped, switches, floorTimer, floorTimerStopCH,
                   watchdog, switchSignals, timeouts, sender, malfunctioned>>

\* It stops at a floor.
StopFloorTimer ==
    /\ Running /\ moving
    /\ floorTimerStopCH < ChannelCap
    /\ floorTimerStopCH' = floorTimerStopCH + 1
    /\ moving' = FALSE
    /\ pc' = "floor"
    /\ UNCHANGED <<hung, isObstructed, isStopped, switches, floorTimer, floorTimerResetCH,
                   watchdog, switchSignals, timeouts, sender, malfunctioned>>

\* Mutant: the channel is taken to be without end.
ResetWatchdogTimerNoWait ==
    /\ Running
    /\ watchdogResetCH' = watchdogResetCH + 1
    /\ pc' = "watchdog"
    /\ UNCHANGED <<hung, moving, isObstructed, isStopped, switches, floorTiming,
                   watchdogTimer, switchSignals, timeouts, sender, malfunctioned>>

\* An iteration in which nothing was to be done.
ResetWatchdogTimer ==
    /\ Running
    /\ watchdogResetCH < ChannelCap
    /\ watchdogResetCH' = watchdogResetCH + 1
    /\ pc' = "watchdog"
    /\ UNCHANGED <<hung, moving, isObstructed, isStopped, switches, floorTiming,
                   watchdogTimer, switchSignals, timeouts, sender, malfunctioned>>

\* Mutant: the second send is forgotten.
NoFloorSignal ==
    /\ pc = "floor" /\ ~hung /\ Room(floorTimerTimeoutCH)
    /\ pc' = "loop"
    /\ UNCHANGED <<hung, moving, isObstructed, isStopped, switches, floorTiming, watchdog,
                   switchSignals, timeouts, sender, malfunctioned>>

\* The second send: "we do not currently have" a timeout.
SignalNoFloorTimeout ==
    /\ pc = "floor" /\ ~hung /\ Room(floorTimerTimeoutCH)
    /\ pc' = "loop"
    /\ floorTimerTimeoutCH' = Append(floorTimerTimeoutCH, FALSE)
    /\ UNCHANGED <<hung, moving, isObstructed, isStopped, switches, floorTiming, watchdog,
                   switchSignals, watchdogTimeoutCH, sender, malfunctioned>>

SignalNoWatchdogTimeout ==
    /\ pc = "watchdog" /\ ~hung /\ Room(watchdogTimeoutCH)
    /\ pc' = "loop"
    /\ watchdogTimeoutCH' = Append(watchdogTimeoutCH, FALSE)
    /\ UNCHANGED <<hung, moving, isObstructed, isStopped, switches, floorTiming, watchdog,
                   switchSignals, floorTimerTimeoutCH, sender, malfunctioned>>

\* A switch has changed: the handlers pass it on in every state.
TakeObstruction ==
    /\ Running /\ Room(obstructionMalfCH) /\ switches < MaxSwitches
    /\ switches' = switches + 1
    /\ isObstructed' = ~isObstructed
    /\ obstructionMalfCH' = Append(obstructionMalfCH, isObstructed')
    /\ UNCHANGED <<pc, hung, moving, isStopped, floorTiming, watchdog, stopMalfCH, timeouts,
                   sender, malfunctioned>>

TakeStop ==
    /\ Running /\ Room(stopMalfCH) /\ switches < MaxSwitches
    /\ switches' = switches + 1
    /\ isStopped' = ~isStopped
    /\ stopMalfCH' = Append(stopMalfCH, isStopped')
    /\ UNCHANGED <<pc, hung, moving, isObstructed, floorTiming, watchdog, obstructionMalfCH,
                   timeouts, sender, malfunctioned>>

Hang ==
    /\ MayHang /\ ~hung
    /\ hung' = TRUE
    /\ UNCHANGED <<pc, moving, isObstructed, isStopped, switches, floorTiming, watchdog,
                   switchSignals, timeouts, sender, malfunctioned>>

StateMachine ==
    \/ ResetFloorTimer \/ StopFloorTimer \/ ResetWatchdogTimer
    \/ SignalNoFloorTimeout \/ SignalNoWatchdogTimeout
    \/ TakeObstruction \/ TakeStop

-----------------------------------------------------------------------------
(* The timers.  Their select takes whichever is ready, a message or the    *)
(* end of the time.                                                        *)

FloorTimerReset ==
    /\ floorTimerResetCH > 0
    /\ floorTimerResetCH' = floorTimerResetCH - 1
    /\ floorTimer' = TRUE
    /\ UNCHANGED <<fsm, floorTimerStopCH, watchdog, switchSignals, timeouts, sender,
                   malfunctioned>>

FloorTimerStop ==
    /\ floorTimerStopCH > 0
    /\ floorTimerStopCH' = floorTimerStopCH - 1
    /\ floorTimer' = FALSE
    /\ UNCHANGED <<fsm, floorTimerResetCH, watchdog, switchSignals, timeouts, sender,
                   malfunctioned>>

FloorTimerFires ==
    /\ floorTimer /\ Room(floorTimerTimeoutCH)
    /\ floorTimer' = FALSE
    /\ floorTimerTimeoutCH' = Append(floorTimerTimeoutCH, TRUE)
    /\ UNCHANGED <<fsm, floorTimerResetCH, floorTimerStopCH, watchdog, switchSignals,
                   watchdogTimeoutCH, sender, malfunctioned>>

WatchdogReset ==
    /\ watchdogResetCH > 0
    /\ watchdogResetCH' = watchdogResetCH - 1
    /\ watchdogTimer' = TRUE
    /\ UNCHANGED <<fsm, floorTiming, switchSignals, timeouts, sender, malfunctioned>>

\* Its 5 s do not pass between the two sends of one reset.
WatchdogFires ==
    /\ watchdogTimer /\ Room(watchdogTimeoutCH)
    /\ hung \/ (MaySlow /\ (pc = "watchdog" => watchdogResetCH > 0))
    /\ watchdogTimer' = FALSE
    /\ watchdogTimeoutCH' = Append(watchdogTimeoutCH, TRUE)
    /\ UNCHANGED <<fsm, floorTiming, watchdogResetCH, switchSignals, floorTimerTimeoutCH,
                   sender, malfunctioned>>

Timers ==
    \/ FloorTimerReset \/ FloorTimerStop \/ FloorTimerFires
    \/ WatchdogReset \/ WatchdogFires

-----------------------------------------------------------------------------
(* sendMalfunctionStatus: one signal at a time, and a status only when it  *)
(* has changed.  The channel to the OrderManager has no buffer: sending    *)
(* and taking it are one step, and until then no signal is heard.          *)

\* Mutants: the watchdog is left out; all signals are needed.
StatusWithoutWatchdog(h) == h["obstruction"] \/ h["stop"] \/ h["floor"]
StatusOfAll(h) == \A s \in Signal : h[s]

Status(h) == \E s \in Signal : h[s]

\* Mutant: the status is noted before it is compared.
HearNoChange(s, value) ==
    /\ ~sending
    /\ heard' = [heard EXCEPT ![s] = value]
    /\ sending' = firstTransmission
    /\ currentMalfunctionStatus' = Status(heard')
    /\ UNCHANGED <<fsm, floorTiming, watchdog, firstTransmission, malfunctioned>>

Hear(s, value) ==
    /\ ~sending
    /\ heard' = [heard EXCEPT ![s] = value]
    /\ sending' = (firstTransmission \/ Status(heard') # currentMalfunctionStatus)
    /\ currentMalfunctionStatus' = Status(heard')
    /\ UNCHANGED <<fsm, floorTiming, watchdog, firstTransmission, malfunctioned>>

HearObstruction ==
    /\ obstructionMalfCH # <<>>
    /\ obstructionMalfCH' = Tail(obstructionMalfCH)
    /\ Hear("obstruction", Head(obstructionMalfCH))
    /\ UNCHANGED <<stopMalfCH, timeouts>>

HearStop ==
    /\ stopMalfCH # <<>>
    /\ stopMalfCH' = Tail(stopMalfCH)
    /\ Hear("stop", Head(stopMalfCH))
    /\ UNCHANGED <<obstructionMalfCH, timeouts>>

HearWatchdog ==
    /\ watchdogTimeoutCH # <<>>
    /\ watchdogTimeoutCH' = Tail(watchdogTimeoutCH)
    /\ Hear("watchdog", Head(watchdogTimeoutCH))
    /\ UNCHANGED <<switchSignals, floorTimerTimeoutCH>>

HearFloorTimer ==
    /\ floorTimerTimeoutCH # <<>>
    /\ floorTimerTimeoutCH' = Tail(floorTimerTimeoutCH)
    /\ Hear("floor", Head(floorTimerTimeoutCH))
    /\ UNCHANGED <<switchSignals, watchdogTimeoutCH>>

\* The status goes to the OrderManager, which notes it.
Send ==
    /\ sending
    /\ sending' = FALSE
    /\ firstTransmission' = FALSE
    /\ malfunctioned' = currentMalfunctionStatus
    /\ UNCHANGED <<fsm, floorTiming, watchdog, switchSignals, timeouts, heard,
                   currentMalfunctionStatus>>

Sender == HearObstruction \/ HearStop \/ HearWatchdog \/ HearFloorTimer \/ Send

-----------------------------------------------------------------------------

Next == StateMachine \/ Hang \/ Timers \/ Sender

\* The loop iterates, the timers run, and select, which picks at random, passes
\* over no channel for ever.
Fairness ==
    /\ WF_vars(SignalNoFloorTimeout) /\ WF_vars(SignalNoWatchdogTimeout)
    /\ SF_vars(ResetWatchdogTimer)
    /\ WF_vars(FloorTimerReset) /\ WF_vars(FloorTimerStop)
    /\ WF_vars(WatchdogReset) /\ WF_vars(WatchdogFires)
    /\ SF_vars(HearObstruction) /\ SF_vars(HearStop)
    /\ SF_vars(HearWatchdog) /\ SF_vars(HearFloorTimer)
    /\ WF_vars(Send)

Spec == Init /\ [][Next]_vars
LiveSpec == Spec /\ Fairness

-----------------------------------------------------------------------------
(* Properties. *)

NoSignalWaits ==
    /\ obstructionMalfCH = <<>> /\ stopMalfCH = <<>>
    /\ watchdogTimeoutCH = <<>> /\ floorTimerTimeoutCH = <<>>
    /\ ~sending

\* Although a status is sent only when it changes, the OrderManager ends up with
\* the disjunction of the four signals once they are all heard.
StatusUpToDate ==
    NoSignalWaits =>
        /\ malfunctioned = (isObstructed \/ isStopped \/ heard["watchdog"] \/ heard["floor"])
        /\ heard["obstruction"] = isObstructed /\ heard["stop"] = isStopped

\* A state machine that hangs for ever is reported, and stays so: "to make sure
\* the fsm-code is not stuck/deadlocked" (StateMachine/README.md).
HangReported == <>[]hung => <>[]malfunctioned

\* A switch that stays on is reported, and stays so.
SwitchReported == <>[](isObstructed \/ isStopped) => <>[]malfunctioned

\* An elevator in order that keeps moving and stopping, and whose watchdog no longer
\* runs out, does not stay reported: the next floor it leaves or stops at takes a
\* floor alarm back, the next reset of the watchdog takes back the watchdog's.  Nothing
\* is said of one that stays where it is: a floor alarm sent after its recall
\* (timers.go, line 115) may stand there for good, since without new orders the
\* elevator need not move.
RecoversOnTheMove ==
    /\ <>[](~isObstructed /\ ~isStopped /\ ~hung /\ watchdogTimer)
    /\ []<>moving /\ []<>~moving
    => []<>~malfunctioned
=============================================================================
