------------------------- MODULE Malfunction_proofs --------------------------
(***************************************************************************)
(* For every capacity of the channels: what the OrderManager is told of an *)
(* elevator is never out of date once the signals sent are heard; a        *)
(* machine that hangs is told, for good, and a report has a cause.         *)
(***************************************************************************)
EXTENDS Malfunction, TLAPS

-----------------------------------------------------------------------------
(* The inductive invariant.                                                *)

\* The last signal sent on channel q for switch s tells its state, and so does
\* the sender's copy when the channel is empty.
LastSignalTells(s, q, state) ==
    IF q = <<>> THEN heard[s] = state ELSE q[Len(q)] = state

\* The status is that of the signals heard, and without a send under way the
\* OrderManager has it.
StatusInv ==
    /\ TypeOK
    /\ LastSignalTells("obstruction", obstructionMalfCH, isObstructed)
    /\ LastSignalTells("stop", stopMalfCH, isStopped)
    /\ currentMalfunctionStatus = Status(heard)
    /\ ~sending => malfunctioned = currentMalfunctionStatus

-----------------------------------------------------------------------------
(* Channels.                                                               *)

\* A value sent is the last one of the channel.
LEMMA SendFacts ==
    ASSUME NEW q \in Seq(BOOLEAN), NEW b \in BOOLEAN
    PROVE  /\ Append(q, b) \in Seq(BOOLEAN)
           /\ Append(q, b) # <<>>
           /\ Append(q, b)[Len(Append(q, b))] = b
OBVIOUS

\* Taking the first value leaves the last one the last, unless it was that.
LEMMA TakeFacts ==
    ASSUME NEW q \in Seq(BOOLEAN), q # <<>>
    PROVE  /\ Tail(q) \in Seq(BOOLEAN)
           /\ Head(q) \in BOOLEAN
           /\ Tail(q) # <<>> => Tail(q)[Len(Tail(q))] = q[Len(q)]
           /\ Tail(q) = <<>> => Head(q) = q[Len(q)]
<1>1. Tail(q) \in Seq(BOOLEAN) /\ Len(q) \in Nat \ {0} /\ Len(Tail(q)) = Len(q) - 1
  OBVIOUS
<1>2. Head(q) = q[1]
  OBVIOUS
<1>3. q[1] \in BOOLEAN
  BY <1>1
<1>4. \A i \in 1 .. Len(Tail(q)) : Tail(q)[i] = q[i + 1]
  OBVIOUS
<1>5. Tail(q) = <<>> => Len(q) = 1
  <2>1. Len(<<>>) = 0
    BY SMT
  <2>2. Tail(q) = <<>> => Len(Tail(q)) = 0
    BY <2>1, Zenon
  <2> QED BY <1>1, <2>2
<1>6. Tail(q) # <<>> => Len(Tail(q)) \in 1 .. Len(Tail(q))
  BY <1>1
<1> QED BY <1>1, <1>2, <1>3, <1>4, <1>5, <1>6

-----------------------------------------------------------------------------
(* sendMalfunctionStatus.                                                  *)

\* Hearing a signal: the status is put together anew, and sent when it differs.
LEMMA HearKeeps ==
    ASSUME StatusInv, NEW s \in Signal, NEW b \in BOOLEAN, Hear(s, b)
    PROVE  /\ heard' \in [Signal -> BOOLEAN]
           /\ currentMalfunctionStatus' \in BOOLEAN /\ sending' \in BOOLEAN
           /\ heard'[s] = b
           /\ \A t \in Signal \ {s} : heard'[t] = heard[t]
           /\ currentMalfunctionStatus' = Status(heard')
           /\ ~sending' => malfunctioned' = currentMalfunctionStatus'
<1>1. heard \in [Signal -> BOOLEAN] /\ ~sending /\ malfunctioned = currentMalfunctionStatus
  BY DEF StatusInv, TypeOK, Hear
<1>2. heard' = [heard EXCEPT ![s] = b] /\ malfunctioned' = malfunctioned
  BY DEF Hear
<1>3. /\ heard' \in [Signal -> BOOLEAN] /\ heard'[s] = b
      /\ \A t \in Signal \ {s} : heard'[t] = heard[t]
  BY <1>1, <1>2
<1>4. /\ currentMalfunctionStatus' = Status(heard')
      /\ sending' = (firstTransmission \/ Status(heard') # currentMalfunctionStatus)
  BY DEF Hear
<1>5. Status(heard') \in BOOLEAN
  BY DEF Status
<1>6. sending' \in BOOLEAN
  BY <1>4
<1>7. ~sending' => malfunctioned' = currentMalfunctionStatus'
  BY <1>1, <1>2, <1>4
<1> QED BY <1>3, <1>4, <1>5, <1>6, <1>7

\* The sender's steps keep the invariant.
LEMMA SenderKeeps == StatusInv /\ Sender => StatusInv'
<1> SUFFICES ASSUME StatusInv, Sender PROVE StatusInv'
  OBVIOUS
<1>s. "obstruction" \in Signal /\ "stop" \in Signal /\ "watchdog" \in Signal /\ "floor" \in Signal
  BY DEF Signal
<1>q. /\ obstructionMalfCH \in Seq(BOOLEAN) /\ stopMalfCH \in Seq(BOOLEAN)
      /\ watchdogTimeoutCH \in Seq(BOOLEAN) /\ floorTimerTimeoutCH \in Seq(BOOLEAN)
  BY DEF StatusInv, TypeOK
<1>1. CASE HearObstruction
  <2>1. /\ obstructionMalfCH # <<>> /\ obstructionMalfCH' = Tail(obstructionMalfCH)
        /\ Hear("obstruction", Head(obstructionMalfCH))
        /\ UNCHANGED <<isObstructed, isStopped, stopMalfCH, timeouts>>
    BY <1>1 DEF HearObstruction, Hear, fsm
  <2>2. /\ heard' \in [Signal -> BOOLEAN]
        /\ currentMalfunctionStatus' \in BOOLEAN /\ sending' \in BOOLEAN
        /\ heard'["obstruction"] = Head(obstructionMalfCH)
        /\ \A t \in Signal \ {"obstruction"} : heard'[t] = heard[t]
        /\ currentMalfunctionStatus' = Status(heard')
        /\ ~sending' => malfunctioned' = currentMalfunctionStatus'
    BY <1>s, <1>q, <2>1, TakeFacts, HearKeeps
  <2>3. LastSignalTells("obstruction", obstructionMalfCH, isObstructed)'
    BY <1>q, <2>1, <2>2, TakeFacts DEF StatusInv, LastSignalTells
  <2>4. LastSignalTells("stop", stopMalfCH, isStopped)'
    BY <1>s, <2>1, <2>2 DEF StatusInv, LastSignalTells
  <2>5. TypeOK'
    BY <1>1, <1>q, <2>1, <2>2, TakeFacts
       DEF StatusInv, TypeOK, Hear, fsm, floorTiming, watchdog, timeouts
  <2> QED BY <2>2, <2>3, <2>4, <2>5 DEF StatusInv
<1>2. CASE HearStop
  <2>1. /\ stopMalfCH # <<>> /\ stopMalfCH' = Tail(stopMalfCH)
        /\ Hear("stop", Head(stopMalfCH))
        /\ UNCHANGED <<isObstructed, isStopped, obstructionMalfCH, timeouts>>
    BY <1>2 DEF HearStop, Hear, fsm
  <2>2. /\ heard' \in [Signal -> BOOLEAN]
        /\ currentMalfunctionStatus' \in BOOLEAN /\ sending' \in BOOLEAN
        /\ heard'["stop"] = Head(stopMalfCH)
        /\ \A t \in Signal \ {"stop"} : heard'[t] = heard[t]
        /\ currentMalfunctionStatus' = Status(heard')
        /\ ~sending' => malfunctioned' = currentMalfunctionStatus'
    BY <1>s, <1>q, <2>1, TakeFacts, HearKeeps
  <2>3. LastSignalTells("stop", stopMalfCH, isStopped)'
    BY <1>q, <2>1, <2>2, TakeFacts DEF StatusInv, LastSignalTells
  <2>4. LastSignalTells("obstruction", obstructionMalfCH, isObstructed)'
    BY <1>s, <2>1, <2>2 DEF StatusInv, LastSignalTells
  <2>5. TypeOK'
    BY <1>2, <1>q, <2>1, <2>2, TakeFacts
       DEF StatusInv, TypeOK, Hear, fsm, floorTiming, watchdog, timeouts
  <2> QED BY <2>2, <2>3, <2>4, <2>5 DEF StatusInv
<1>3. ASSUME NEW s \in {"watchdog", "floor"}, NEW b \in BOOLEAN, Hear(s, b),
             UNCHANGED switchSignals,
             watchdogTimeoutCH' \in Seq(BOOLEAN), floorTimerTimeoutCH' \in Seq(BOOLEAN)
      PROVE  StatusInv'
  <2>1. UNCHANGED <<isObstructed, isStopped, obstructionMalfCH, stopMalfCH>>
    BY <1>3 DEF Hear, fsm, switchSignals
  <2>2. /\ heard' \in [Signal -> BOOLEAN]
        /\ currentMalfunctionStatus' \in BOOLEAN /\ sending' \in BOOLEAN
        /\ \A t \in Signal \ {s} : heard'[t] = heard[t]
        /\ currentMalfunctionStatus' = Status(heard')
        /\ ~sending' => malfunctioned' = currentMalfunctionStatus'
    BY <1>s, <1>3, HearKeeps
  <2>3. heard'["obstruction"] = heard["obstruction"] /\ heard'["stop"] = heard["stop"]
    BY <1>s, <1>3, <2>2
  <2>4. /\ LastSignalTells("obstruction", obstructionMalfCH, isObstructed)'
        /\ LastSignalTells("stop", stopMalfCH, isStopped)'
    BY <2>1, <2>3 DEF StatusInv, LastSignalTells
  <2>5. TypeOK'
    BY <1>3, <2>1, <2>2 DEF StatusInv, TypeOK, Hear, fsm, floorTiming, watchdog
  <2> QED BY <2>2, <2>4, <2>5 DEF StatusInv
<1>4. CASE HearWatchdog
  <2>1. /\ Head(watchdogTimeoutCH) \in BOOLEAN /\ watchdogTimeoutCH' \in Seq(BOOLEAN)
        /\ Hear("watchdog", Head(watchdogTimeoutCH))
        /\ UNCHANGED <<switchSignals, floorTimerTimeoutCH>>
    BY <1>4, <1>q, TakeFacts DEF HearWatchdog
  <2> QED BY <1>3, <1>q, <2>1
<1>5. CASE HearFloorTimer
  <2>1. /\ Head(floorTimerTimeoutCH) \in BOOLEAN /\ floorTimerTimeoutCH' \in Seq(BOOLEAN)
        /\ Hear("floor", Head(floorTimerTimeoutCH))
        /\ UNCHANGED <<switchSignals, watchdogTimeoutCH>>
    BY <1>5, <1>q, TakeFacts DEF HearFloorTimer
  <2> QED BY <1>3, <1>q, <2>1
<1>6. CASE Send
  <2>1. TypeOK'
    BY <1>6 DEF StatusInv, TypeOK, Send, fsm, floorTiming, watchdog, switchSignals, timeouts
  <2> QED BY <1>6, <2>1 DEF StatusInv, LastSignalTells, Send, fsm, switchSignals
<1> QED BY <1>1, <1>2, <1>4, <1>5, <1>6 DEF Sender

-----------------------------------------------------------------------------
(* Everybody else.                                                         *)

\* A switch the state machine takes notice of is sent on at once.
LEMMA SwitchKeeps == StatusInv /\ (TakeObstruction \/ TakeStop) => StatusInv'
<1>1. ASSUME StatusInv, TakeObstruction PROVE StatusInv'
  <2>1. obstructionMalfCH \in Seq(BOOLEAN) /\ isObstructed' \in BOOLEAN
    BY <1>1 DEF StatusInv, TypeOK, TakeObstruction
  <2>2. /\ obstructionMalfCH' = Append(obstructionMalfCH, isObstructed')
        /\ UNCHANGED <<isStopped, stopMalfCH, sender, malfunctioned>>
    BY <1>1 DEF TakeObstruction
  <2>3. LastSignalTells("obstruction", obstructionMalfCH, isObstructed)'
    BY <2>1, <2>2, SendFacts DEF LastSignalTells
  <2>4. TypeOK'
    <3>1. obstructionMalfCH' \in Seq(BOOLEAN)
      BY <2>1, <2>2, SendFacts
    <3> QED BY <1>1, <2>1, <3>1 DEF StatusInv, TypeOK, TakeObstruction, floorTiming, watchdog,
                                    timeouts, sender
  <2> QED BY <1>1, <2>2, <2>3, <2>4 DEF StatusInv, LastSignalTells, sender
<1>2. ASSUME StatusInv, TakeStop PROVE StatusInv'
  <2>1. stopMalfCH \in Seq(BOOLEAN) /\ isStopped' \in BOOLEAN
    BY <1>2 DEF StatusInv, TypeOK, TakeStop
  <2>2. /\ stopMalfCH' = Append(stopMalfCH, isStopped')
        /\ UNCHANGED <<isObstructed, obstructionMalfCH, sender, malfunctioned>>
    BY <1>2 DEF TakeStop
  <2>3. LastSignalTells("stop", stopMalfCH, isStopped)'
    BY <2>1, <2>2, SendFacts DEF LastSignalTells
  <2>4. TypeOK'
    <3>1. stopMalfCH' \in Seq(BOOLEAN)
      BY <2>1, <2>2, SendFacts
    <3> QED BY <1>2, <2>1, <3>1 DEF StatusInv, TypeOK, TakeStop, floorTiming, watchdog,
                                    timeouts, sender
  <2> QED BY <1>2, <2>2, <2>3, <2>4 DEF StatusInv, LastSignalTells, sender
<1> QED BY <1>1, <1>2

\* A step that touches neither the switches, nor the sender, nor the OrderManager
\* has only the types to keep.
LEMMA NothingTold ==
    ASSUME StatusInv, TypeOK',
           UNCHANGED <<isObstructed, isStopped, switchSignals, sender, malfunctioned>>
    PROVE  StatusInv'
BY DEF StatusInv, LastSignalTells, switchSignals, sender

\* The two sends of the other handlers, and a hang.
LEMMA FsmKeeps ==
    StatusInv /\ (\/ ResetFloorTimer \/ StopFloorTimer \/ ResetWatchdogTimer
                  \/ SignalNoFloorTimeout \/ SignalNoWatchdogTimeout \/ Hang) => StatusInv'
<1>n. ChannelCap \in Nat
  BY MalfunctionAssumption
<1>1. ASSUME StatusInv, ResetFloorTimer PROVE StatusInv'
  <2>1. TypeOK'
    <3>1. floorTimerResetCH' \in 0 .. ChannelCap
      BY <1>n, <1>1 DEF StatusInv, TypeOK, ResetFloorTimer
    <3> QED BY <1>1, <3>1 DEF StatusInv, TypeOK, ResetFloorTimer, watchdog, switchSignals,
                              timeouts, sender
  <2> QED BY <1>1, <2>1, NothingTold DEF ResetFloorTimer
<1>2. ASSUME StatusInv, StopFloorTimer PROVE StatusInv'
  <2>1. TypeOK'
    <3>1. floorTimerStopCH' \in 0 .. ChannelCap
      BY <1>n, <1>2 DEF StatusInv, TypeOK, StopFloorTimer
    <3> QED BY <1>2, <3>1 DEF StatusInv, TypeOK, StopFloorTimer, watchdog, switchSignals,
                              timeouts, sender
  <2> QED BY <1>2, <2>1, NothingTold DEF StopFloorTimer
<1>3. ASSUME StatusInv, ResetWatchdogTimer PROVE StatusInv'
  <2>1. TypeOK'
    <3>1. watchdogResetCH' \in 0 .. ChannelCap
      BY <1>n, <1>3 DEF StatusInv, TypeOK, ResetWatchdogTimer
    <3> QED BY <1>3, <3>1 DEF StatusInv, TypeOK, ResetWatchdogTimer, floorTiming,
                              switchSignals, timeouts, sender
  <2> QED BY <1>3, <2>1, NothingTold DEF ResetWatchdogTimer
<1>4. ASSUME StatusInv, SignalNoFloorTimeout PROVE StatusInv'
  <2>1. floorTimerTimeoutCH' \in Seq(BOOLEAN)
    BY <1>4, SendFacts DEF StatusInv, TypeOK, SignalNoFloorTimeout
  <2>2. TypeOK'
    BY <1>4, <2>1 DEF StatusInv, TypeOK, SignalNoFloorTimeout, floorTiming, watchdog,
                      switchSignals, sender
  <2> QED BY <1>4, <2>2, NothingTold DEF SignalNoFloorTimeout
<1>5. ASSUME StatusInv, SignalNoWatchdogTimeout PROVE StatusInv'
  <2>1. watchdogTimeoutCH' \in Seq(BOOLEAN)
    BY <1>5, SendFacts DEF StatusInv, TypeOK, SignalNoWatchdogTimeout
  <2>2. TypeOK'
    BY <1>5, <2>1 DEF StatusInv, TypeOK, SignalNoWatchdogTimeout, floorTiming, watchdog,
                      switchSignals, sender
  <2> QED BY <1>5, <2>2, NothingTold DEF SignalNoWatchdogTimeout
<1>6. ASSUME StatusInv, Hang PROVE StatusInv'
  <2>1. TypeOK'
    BY <1>6 DEF StatusInv, TypeOK, Hang, floorTiming, watchdog, switchSignals, timeouts, sender
  <2> QED BY <1>6, <2>1, NothingTold DEF Hang
<1> QED BY <1>1, <1>2, <1>3, <1>4, <1>5, <1>6

\* The two timers.
LEMMA TimersKeep == StatusInv /\ Timers => StatusInv'
<1>n. ChannelCap \in Nat
  BY MalfunctionAssumption
<1>1. ASSUME StatusInv, FloorTimerReset PROVE StatusInv'
  <2>1. TypeOK'
    <3>1. floorTimerResetCH' \in 0 .. ChannelCap
      BY <1>n, <1>1 DEF StatusInv, TypeOK, FloorTimerReset
    <3> QED BY <1>1, <3>1 DEF StatusInv, TypeOK, FloorTimerReset, fsm, watchdog,
                              switchSignals, timeouts, sender
  <2> QED BY <1>1, <2>1, NothingTold DEF FloorTimerReset, fsm
<1>2. ASSUME StatusInv, FloorTimerStop PROVE StatusInv'
  <2>1. TypeOK'
    <3>1. floorTimerStopCH' \in 0 .. ChannelCap
      BY <1>n, <1>2 DEF StatusInv, TypeOK, FloorTimerStop
    <3> QED BY <1>2, <3>1 DEF StatusInv, TypeOK, FloorTimerStop, fsm, watchdog,
                              switchSignals, timeouts, sender
  <2> QED BY <1>2, <2>1, NothingTold DEF FloorTimerStop, fsm
<1>3. ASSUME StatusInv, FloorTimerFires PROVE StatusInv'
  <2>1. floorTimerTimeoutCH' \in Seq(BOOLEAN)
    BY <1>3, SendFacts DEF StatusInv, TypeOK, FloorTimerFires
  <2>2. TypeOK'
    BY <1>3, <2>1 DEF StatusInv, TypeOK, FloorTimerFires, fsm, watchdog, switchSignals, sender
  <2> QED BY <1>3, <2>2, NothingTold DEF FloorTimerFires, fsm
<1>4. ASSUME StatusInv, WatchdogReset PROVE StatusInv'
  <2>1. TypeOK'
    <3>1. watchdogResetCH' \in 0 .. ChannelCap
      BY <1>n, <1>4 DEF StatusInv, TypeOK, WatchdogReset
    <3> QED BY <1>4, <3>1 DEF StatusInv, TypeOK, WatchdogReset, fsm, floorTiming, switchSignals,
                              timeouts, sender
  <2> QED BY <1>4, <2>1, NothingTold DEF WatchdogReset, fsm
<1>5. ASSUME StatusInv, WatchdogFires PROVE StatusInv'
  <2>1. watchdogTimeoutCH' \in Seq(BOOLEAN)
    BY <1>5, SendFacts DEF StatusInv, TypeOK, WatchdogFires
  <2>2. TypeOK'
    BY <1>5, <2>1 DEF StatusInv, TypeOK, WatchdogFires, fsm, floorTiming, switchSignals, sender
  <2> QED BY <1>5, <2>2, NothingTold DEF WatchdogFires, fsm
<1> QED BY <1>1, <1>2, <1>3, <1>4, <1>5 DEF Timers

-----------------------------------------------------------------------------
(* The theorems.                                                           *)

\* Nothing is malfunctioning, signalled or reported at first.
LEMMA InitStatus == Init => StatusInv
<1> SUFFICES ASSUME Init PROVE StatusInv
  OBVIOUS
<1>1. ChannelCap \in Nat /\ ChannelCap >= 1
  BY MalfunctionAssumption
<1>2. heard \in [Signal -> BOOLEAN] /\ \A s \in Signal : heard[s] = FALSE
  BY DEF Init
<1>3. /\ obstructionMalfCH \in Seq(BOOLEAN) /\ stopMalfCH \in Seq(BOOLEAN)
      /\ watchdogTimeoutCH \in Seq(BOOLEAN) /\ floorTimerTimeoutCH \in Seq(BOOLEAN)
  <2>1. <<>> \in Seq(BOOLEAN) /\ <<FALSE>> \in Seq(BOOLEAN)
    OBVIOUS
  <2>2. floorTimerTimeoutCH = <<FALSE>> \/ floorTimerTimeoutCH = <<>>
    BY DEF Init
  <2>3. obstructionMalfCH = <<>> /\ stopMalfCH = <<>> /\ watchdogTimeoutCH = <<>>
    BY DEF Init
  <2> QED BY <2>1, <2>2, <2>3
<1>4. floorTimerResetCH \in 0 .. ChannelCap
  BY <1>1 DEF Init
<1>5. TypeOK
  <2>1. /\ pc \in {"loop", "floor", "watchdog"} /\ hung \in BOOLEAN /\ moving \in BOOLEAN
        /\ isObstructed \in BOOLEAN /\ isStopped \in BOOLEAN /\ switches \in Nat
        /\ floorTimer \in BOOLEAN /\ watchdogTimer \in BOOLEAN
        /\ currentMalfunctionStatus \in BOOLEAN /\ sending \in BOOLEAN
        /\ firstTransmission \in BOOLEAN /\ malfunctioned \in BOOLEAN
    BY DEF Init
  <2>2. floorTimerStopCH \in 0 .. ChannelCap /\ watchdogResetCH \in 0 .. ChannelCap
    BY <1>1 DEF Init
  <2> QED BY <1>2, <1>3, <1>4, <2>1, <2>2 DEF TypeOK
<1>6. Status(heard) = FALSE
  BY <1>2 DEF Status
<1>7. heard["obstruction"] = FALSE /\ heard["stop"] = FALSE
  BY <1>2 DEF Signal
<1> QED BY <1>5, <1>6, <1>7 DEF Init, StatusInv, LastSignalTells

\* Every step keeps the invariant.
THEOREM StatusInvariant == Spec => []StatusInv
<1>1. StatusInv /\ [Next]_vars => StatusInv'
  <2> SUFFICES ASSUME StatusInv, [Next]_vars PROVE StatusInv'
    OBVIOUS
  <2>1. CASE StateMachine
    BY <2>1, FsmKeeps, SwitchKeeps DEF StateMachine
  <2>2. CASE Hang
    BY <2>2, FsmKeeps
  <2>3. CASE Timers
    BY <2>3, TimersKeep
  <2>4. CASE Sender
    BY <2>4, SenderKeeps
  <2>5. CASE UNCHANGED vars
    <3>1. TypeOK'
      BY <2>5 DEF StatusInv, TypeOK, vars, fsm, floorTiming, watchdog, switchSignals, timeouts,
                  sender
    <3> QED BY <2>5, <3>1, NothingTold DEF vars, fsm
  <2> QED BY <2>1, <2>2, <2>3, <2>4, <2>5 DEF Next
<1> QED BY <1>1, InitStatus, PTL DEF Spec

\* Every variable keeps its type, the three message counts their capacity.
THEOREM TypeCorrect == Spec => []TypeOK
<1>1. StatusInv => TypeOK
  BY DEF StatusInv
<1> QED BY <1>1, StatusInvariant, PTL

\* With every signal heard, the OrderManager has the disjunction of the four.
THEOREM StatusCurrent == Spec => []StatusUpToDate
<1>1. StatusInv => StatusUpToDate
  <2> SUFFICES ASSUME StatusInv, NoSignalWaits
               PROVE  /\ malfunctioned =
                            (isObstructed \/ isStopped \/ heard["watchdog"] \/ heard["floor"])
                      /\ heard["obstruction"] = isObstructed /\ heard["stop"] = isStopped
    BY DEF StatusUpToDate
  <2>1. heard["obstruction"] = isObstructed /\ heard["stop"] = isStopped
    BY DEF StatusInv, NoSignalWaits, LastSignalTells
  <2>2. malfunctioned = (\E s \in Signal : heard[s])
    BY DEF StatusInv, NoSignalWaits, Status
  <2>3. (\E s \in Signal : heard[s]) <=>
           (heard["obstruction"] \/ heard["stop"] \/ heard["watchdog"] \/ heard["floor"])
    BY DEF Signal
  <2>4. malfunctioned \in BOOLEAN
    BY DEF StatusInv, TypeOK
  <2> QED BY <2>1, <2>2, <2>3, <2>4
<1> QED BY <1>1, StatusInvariant, PTL

-----------------------------------------------------------------------------
(* The watchdog.  HangReported is a property of LiveSpec; these are the    *)
(* safety facts it rests on, for every capacity and number of changes.     *)

\* A reset of the watchdog waits for it, or its time is running.
WatchdogSet == watchdogResetCH > 0 \/ watchdogTimer

\* A watchdog that is not set has run out, and its alarm is the last word on the
\* channel or the one the sender heard last.  The second conjunct makes it
\* inductive: a machine between the two sends of a reset is about to take an
\* alarm back, and must find the watchdog set then.
HangWatched ==
    /\ WatchdogSet \/ LastSignalTells("watchdog", watchdogTimeoutCH, TRUE)
    /\ pc = "watchdog" /\ ~hung => WatchdogSet

\* The watchdog is only set or the alarm only taken back by the steps below: all
\* the others leave both as they are.
LEMMA WatchUntouched ==
    ASSUME HangWatched,
           UNCHANGED <<watchdog, watchdogTimeoutCH, heard>>,
           pc' = "watchdog" /\ ~hung' => pc = "watchdog" /\ ~hung
    PROVE  HangWatched'
BY DEF HangWatched, WatchdogSet, LastSignalTells, watchdog

\* Hearing the watchdog's signal: the last one of the channel becomes the one
\* heard.  Hearing another leaves it alone.
LEMMA HearWatched == StatusInv /\ HangWatched /\ Sender => HangWatched'
<1> SUFFICES ASSUME StatusInv, HangWatched, Sender PROVE HangWatched'
  OBVIOUS
<1>q. watchdogTimeoutCH \in Seq(BOOLEAN) /\ heard \in [Signal -> BOOLEAN]
  BY DEF StatusInv, TypeOK
<1>s. "watchdog" \in Signal
  BY DEF Signal
<1>1. ASSUME NEW s \in {"obstruction", "stop", "floor"}, NEW b, Hear(s, b),
             UNCHANGED watchdogTimeoutCH
      PROVE  HangWatched'
  <2>1. UNCHANGED <<watchdog, pc, hung>> /\ heard' = [heard EXCEPT ![s] = b]
    BY <1>1 DEF Hear, fsm
  <2>2. heard'["watchdog"] = heard["watchdog"]
    BY <1>q, <1>s, <2>1
  <2> QED BY <1>1, <2>1, <2>2 DEF HangWatched, WatchdogSet, LastSignalTells, watchdog
<1>2. CASE HearObstruction
  BY <1>1, <1>2 DEF HearObstruction, timeouts
<1>3. CASE HearStop
  BY <1>1, <1>3 DEF HearStop, timeouts
<1>4. CASE HearFloorTimer
  BY <1>1, <1>4 DEF HearFloorTimer
<1>5. CASE HearWatchdog
  <2>1. /\ watchdogTimeoutCH # <<>> /\ watchdogTimeoutCH' = Tail(watchdogTimeoutCH)
        /\ UNCHANGED <<watchdog, pc, hung>>
        /\ heard' = [heard EXCEPT !["watchdog"] = Head(watchdogTimeoutCH)]
    BY <1>5 DEF HearWatchdog, Hear, fsm
  <2>2. heard'["watchdog"] = Head(watchdogTimeoutCH)
    BY <1>q, <1>s, <2>1
  <2>3. LastSignalTells("watchdog", watchdogTimeoutCH, TRUE)
           => LastSignalTells("watchdog", watchdogTimeoutCH, TRUE)'
    BY <1>q, <2>1, <2>2, TakeFacts DEF LastSignalTells
  <2> QED BY <2>1, <2>3 DEF HangWatched, WatchdogSet, watchdog
<1>6. CASE Send
  BY <1>6, WatchUntouched DEF Send, fsm, timeouts
<1> QED BY <1>2, <1>3, <1>4, <1>5, <1>6 DEF Sender

\* The state machine and the timers: an alarm is only taken back with the
\* watchdog set, and a watchdog that is no longer set has just given the alarm.
LEMMA StepWatched ==
    StatusInv /\ HangWatched /\ (StateMachine \/ Hang \/ Timers) => HangWatched'
<1> SUFFICES ASSUME StatusInv, HangWatched, StateMachine \/ Hang \/ Timers PROVE HangWatched'
  OBVIOUS
<1>t. /\ watchdogTimeoutCH \in Seq(BOOLEAN) /\ watchdogResetCH \in Nat
      /\ watchdogTimer \in BOOLEAN
  BY MalfunctionAssumption DEF StatusInv, TypeOK
<1>1. CASE ResetFloorTimer \/ StopFloorTimer \/ TakeObstruction \/ TakeStop
           \/ SignalNoFloorTimeout \/ Hang
  <2>1. UNCHANGED <<watchdog, watchdogTimeoutCH, heard>>
    BY <1>1 DEF ResetFloorTimer, StopFloorTimer, TakeObstruction, TakeStop,
                SignalNoFloorTimeout, Hang, timeouts, sender
  <2>2. pc' = "watchdog" /\ ~hung' => pc = "watchdog" /\ ~hung
    BY <1>1 DEF ResetFloorTimer, StopFloorTimer, TakeObstruction, TakeStop,
                SignalNoFloorTimeout, Hang, Running
  <2> QED BY <2>1, <2>2, WatchUntouched
<1>2. CASE ResetWatchdogTimer
  <2>1. watchdogResetCH' > 0
    BY <1>2, <1>t DEF ResetWatchdogTimer
  <2> QED BY <2>1 DEF HangWatched, WatchdogSet
<1>3. CASE SignalNoWatchdogTimeout
  <2>1. WatchdogSet /\ UNCHANGED watchdog /\ pc' = "loop"
    BY <1>3 DEF SignalNoWatchdogTimeout, HangWatched
  <2> QED BY <2>1 DEF HangWatched, WatchdogSet, watchdog
<1>4. CASE FloorTimerReset \/ FloorTimerStop \/ FloorTimerFires
  <2>1. UNCHANGED <<watchdog, watchdogTimeoutCH, heard, pc, hung>>
    BY <1>4 DEF FloorTimerReset, FloorTimerStop, FloorTimerFires, fsm, timeouts, sender
  <2> QED BY <2>1, WatchUntouched
<1>5. CASE WatchdogReset
  BY <1>5 DEF WatchdogReset, HangWatched, WatchdogSet
<1>6. CASE WatchdogFires
  <2>1. /\ watchdogTimeoutCH' = Append(watchdogTimeoutCH, TRUE)
        /\ UNCHANGED <<watchdogResetCH, pc, hung>>
        /\ pc = "watchdog" /\ ~hung => watchdogResetCH > 0
    BY <1>6 DEF WatchdogFires, fsm
  <2>2. LastSignalTells("watchdog", watchdogTimeoutCH, TRUE)'
    BY <1>t, <2>1, SendFacts DEF LastSignalTells
  <2> QED BY <2>1, <2>2 DEF HangWatched, WatchdogSet
<1> QED BY <1>1, <1>2, <1>3, <1>4, <1>5, <1>6 DEF StateMachine, Timers

\* At every moment the watchdog is set or its alarm is the last thing said: the
\* FALSE with which each reset takes an alarm back never comes after the alarm of
\* a time that the same reset has not started again ("to make sure the fsm-code is
\* not stuck/deadlocked", StateMachine/README.md).
THEOREM WatchdogNeverSilenced == Spec => []HangWatched
<1>1. Init => HangWatched
  BY DEF Init, HangWatched, WatchdogSet
<1>2. StatusInv /\ HangWatched /\ [Next]_vars => HangWatched'
  <2> SUFFICES ASSUME StatusInv, HangWatched, [Next]_vars PROVE HangWatched'
    OBVIOUS
  <2>1. CASE UNCHANGED vars
    BY <2>1, WatchUntouched DEF vars, fsm, timeouts, sender
  <2> QED BY <2>1, HearWatched, StepWatched DEF Next
<1> QED BY <1>1, <1>2, StatusInvariant, PTL DEF Spec

-----------------------------------------------------------------------------
(* A hung state machine, and a calm one.                                   *)

OnlySays(q, b) == \A i \in 1 .. Len(q) : q[i] = b

\* The OrderManager has the hung machine as malfunctioned, and no signal is under
\* way that would take it back.
HangTold ==
    /\ hung /\ malfunctioned
    /\ heard["watchdog"] /\ OnlySays(watchdogTimeoutCH, TRUE)

\* Nobody has to act any more: the signals are heard, no time is running.
HungMeansTold == hung /\ NoSignalWaits /\ ~WatchdogSet => HangTold

\* A report of a hung machine is for good.
HangStaysTold == [][HangTold => HangTold']_vars

\* Sending and taking leave a channel that says only one thing to say that.
LEMMA OnlySaysFacts ==
    ASSUME NEW q \in Seq(BOOLEAN), NEW b \in BOOLEAN, OnlySays(q, b)
    PROVE  /\ OnlySays(Append(q, b), b)
           /\ q # <<>> => OnlySays(Tail(q), b) /\ Head(q) = b
<1>1. OnlySays(Append(q, b), b)
  BY DEF OnlySays
<1>2. ASSUME q # <<>> PROVE OnlySays(Tail(q), b) /\ Head(q) = b
  <2>1. Len(q) \in Nat \ {0} /\ Head(q) = q[1] /\ Len(Tail(q)) = Len(q) - 1
    BY <1>2
  <2>2. \A i \in 1 .. Len(Tail(q)) : Tail(q)[i] = q[i + 1]
    BY <1>2
  <2>3. Head(q) = b
    BY <2>1 DEF OnlySays
  <2>4. ASSUME NEW i \in 1 .. Len(Tail(q)) PROVE Tail(q)[i] = b
    <3>1. i + 1 \in 1 .. Len(q)
      BY <2>1, <2>4
    <3> QED BY <2>2, <2>4, <3>1 DEF OnlySays
  <2> QED BY <2>3, <2>4 DEF OnlySays
<1> QED BY <1>1, <1>2

\* When a machine hangs, the OrderManager has it as malfunctioned as soon as the
\* watchdog has run out and the signals sent are heard, whatever was signalled
\* before and however the sends and the alarms were interleaved.
THEOREM HungIsTold == Spec => []HungMeansTold
<1>1. StatusInv /\ HangWatched => HungMeansTold
  <2> SUFFICES ASSUME StatusInv, HangWatched, hung, NoSignalWaits, ~WatchdogSet PROVE HangTold
    BY DEF HungMeansTold
  <2>1. watchdogTimeoutCH = <<>> /\ ~sending
    BY DEF NoSignalWaits
  <2>2. heard["watchdog"]
    BY <2>1 DEF HangWatched, LastSignalTells
  <2>3. Status(heard)
    BY <2>2 DEF Status, Signal
  <2>4. malfunctioned
    BY <2>1, <2>3 DEF StatusInv
  <2>5. OnlySays(watchdogTimeoutCH, TRUE)
    BY <2>1 DEF OnlySays
  <2> QED BY <2>2, <2>4, <2>5 DEF HangTold
<1> QED BY <1>1, StatusInvariant, WatchdogNeverSilenced, PTL

\* No later step takes the report of a hung machine back: neither the floor
\* signals it sent before it hung, nor a switch, nor the reset the watchdog still
\* finds in its channel.
THEOREM HungStaysReported == Spec => HangStaysTold
<1>1. StatusInv /\ [Next]_vars => (HangTold => HangTold')
  <2> SUFFICES ASSUME StatusInv, [Next]_vars, HangTold PROVE HangTold'
    OBVIOUS
  <2>t. /\ heard \in [Signal -> BOOLEAN] /\ watchdogTimeoutCH \in Seq(BOOLEAN)
        /\ hung /\ malfunctioned /\ heard["watchdog"] /\ OnlySays(watchdogTimeoutCH, TRUE)
    BY DEF StatusInv, TypeOK, HangTold
  <2>s. "watchdog" \in Signal
    BY DEF Signal
  <2>1. ~StateMachine /\ ~Hang
    BY <2>t DEF StateMachine, Hang, ResetFloorTimer, StopFloorTimer, ResetWatchdogTimer,
                SignalNoFloorTimeout, SignalNoWatchdogTimeout, TakeObstruction, TakeStop, Running
  <2>2. CASE FloorTimerReset \/ FloorTimerStop \/ FloorTimerFires \/ WatchdogReset
             \/ UNCHANGED vars
    <3>1. UNCHANGED <<hung, malfunctioned, heard, watchdogTimeoutCH>>
      BY <2>2 DEF FloorTimerReset, FloorTimerStop, FloorTimerFires, WatchdogReset, vars,
                  fsm, timeouts, sender
    <3> QED BY <2>t, <3>1 DEF HangTold, OnlySays
  <2>3. CASE WatchdogFires
    <3>1. /\ UNCHANGED <<hung, malfunctioned, heard>>
          /\ watchdogTimeoutCH' = Append(watchdogTimeoutCH, TRUE)
      BY <2>3 DEF WatchdogFires, fsm, sender
    <3>2. OnlySays(Append(watchdogTimeoutCH, TRUE), TRUE)
      BY <2>t, OnlySaysFacts
    <3>3. OnlySays(watchdogTimeoutCH', TRUE)
      BY <3>1, <3>2
    <3>4. OnlySays(watchdogTimeoutCH, TRUE)'
      BY <3>3 DEF OnlySays
    <3> QED BY <2>t, <3>1, <3>4 DEF HangTold
  <2>4. ASSUME NEW s \in {"obstruction", "stop", "floor"}, NEW b, Hear(s, b),
               UNCHANGED watchdogTimeoutCH
        PROVE  HangTold'
    <3>1. UNCHANGED <<hung, malfunctioned>> /\ heard' = [heard EXCEPT ![s] = b]
      BY <2>4 DEF Hear, fsm
    <3>2. heard'["watchdog"] = heard["watchdog"]
      BY <2>t, <2>s, <3>1
    <3> QED BY <2>t, <2>4, <3>1, <3>2 DEF HangTold, OnlySays
  <2>5. CASE HearObstruction \/ HearStop \/ HearFloorTimer
    BY <2>4, <2>5 DEF HearObstruction, HearStop, HearFloorTimer, timeouts
  <2>6. CASE HearWatchdog
    <3>1. /\ UNCHANGED <<hung, malfunctioned>> /\ watchdogTimeoutCH # <<>>
          /\ watchdogTimeoutCH' = Tail(watchdogTimeoutCH)
          /\ heard' = [heard EXCEPT !["watchdog"] = Head(watchdogTimeoutCH)]
      BY <2>6 DEF HearWatchdog, Hear, fsm
    <3>2. Head(watchdogTimeoutCH) = TRUE /\ OnlySays(Tail(watchdogTimeoutCH), TRUE)
      BY <2>t, <3>1, OnlySaysFacts
    <3>3. heard'["watchdog"] = TRUE
      BY <2>t, <2>s, <3>1, <3>2
    <3>4. OnlySays(watchdogTimeoutCH', TRUE)
      BY <3>1, <3>2
    <3>5. OnlySays(watchdogTimeoutCH, TRUE)'
      BY <3>4 DEF OnlySays
    <3> QED BY <2>t, <3>1, <3>3, <3>5 DEF HangTold
  <2>7. CASE Send
    <3>1. /\ UNCHANGED <<hung, heard, watchdogTimeoutCH>>
          /\ malfunctioned' = currentMalfunctionStatus
      BY <2>7 DEF Send, fsm, timeouts
    <3>2. Status(heard)
      BY <2>t, <2>s DEF Status
    <3>3. currentMalfunctionStatus
      BY <3>2 DEF StatusInv
    <3> QED BY <2>t, <3>1, <3>3 DEF HangTold, OnlySays
  <2> QED BY <2>1, <2>2, <2>3, <2>5, <2>6, <2>7 DEF Next, Timers, Sender
<1>2. StatusInv /\ [Next]_vars => [HangTold => HangTold']_vars
  BY <1>1
<1> QED BY <1>2, StatusInvariant, PTL DEF Spec, HangStaysTold

\* Nothing says that the elevator malfunctions, and nobody has heard that.
Calm ==
    /\ obstructionMalfCH = <<>> /\ stopMalfCH = <<>>
    /\ OnlySays(watchdogTimeoutCH, FALSE) /\ OnlySays(floorTimerTimeoutCH, FALSE)
    /\ ~Status(heard) /\ ~currentMalfunctionStatus /\ ~malfunctioned

\* A report has a cause: while neither switch is on and neither timer runs out,
\* the elevator is never taken out of the assignment, although every reset and
\* every floor passed sends a signal.
THEOREM NoFalseAlarm ==
    /\ Spec
    /\ [](~isObstructed /\ ~isStopped)
    /\ [][~FloorTimerFires /\ ~WatchdogFires]_vars
    => []~malfunctioned
<1>1. Init => Calm
  <2> SUFFICES ASSUME Init PROVE Calm
    OBVIOUS
  <2>1. /\ obstructionMalfCH = <<>> /\ stopMalfCH = <<>>
        /\ ~Status(heard) /\ ~currentMalfunctionStatus /\ ~malfunctioned
    BY DEF Init, Status
  <2>2. OnlySays(<<>>, FALSE) /\ OnlySays(<<FALSE>>, FALSE)
    <3>1. OnlySays(<<>>, FALSE) /\ <<>> \in Seq(BOOLEAN)
      BY DEF OnlySays
    <3>2. OnlySays(Append(<<>>, FALSE), FALSE)
      BY <3>1, OnlySaysFacts
    <3>3. Append(<<>>, FALSE) = <<FALSE>>
      OBVIOUS
    <3> QED BY <3>1, <3>2, <3>3
  <2>3. /\ watchdogTimeoutCH = <<>>
        /\ floorTimerTimeoutCH = <<FALSE>> \/ floorTimerTimeoutCH = <<>>
    BY DEF Init
  <2>4. OnlySays(watchdogTimeoutCH, FALSE) /\ OnlySays(floorTimerTimeoutCH, FALSE)
    BY <2>2, <2>3
  <2> QED BY <2>1, <2>4 DEF Calm
<1>2. StatusInv /\ Calm /\ ~isObstructed /\ ~isStopped /\ (~isObstructed /\ ~isStopped)'
         /\ [Next]_vars /\ [~FloorTimerFires /\ ~WatchdogFires]_vars => Calm'
  <2> SUFFICES ASSUME StatusInv, Calm, ~isObstructed, ~isStopped, ~isObstructed', ~isStopped',
                      [Next]_vars, [~FloorTimerFires /\ ~WatchdogFires]_vars
               PROVE  Calm'
    OBVIOUS
  <2>t. /\ heard \in [Signal -> BOOLEAN]
        /\ watchdogTimeoutCH \in Seq(BOOLEAN) /\ floorTimerTimeoutCH \in Seq(BOOLEAN)
    BY DEF StatusInv, TypeOK
  <2>h. \A s \in Signal : heard[s] = FALSE
    BY <2>t DEF Calm, Status
  <2>1. ASSUME UNCHANGED <<obstructionMalfCH, stopMalfCH, heard, currentMalfunctionStatus,
                           malfunctioned>>,
               OnlySays(watchdogTimeoutCH', FALSE), OnlySays(floorTimerTimeoutCH', FALSE)
        PROVE  Calm'
    BY <2>1 DEF Calm, OnlySays, Status
  <2>2. CASE UNCHANGED <<switchSignals, timeouts, sender, malfunctioned>>
    <3>1. /\ OnlySays(watchdogTimeoutCH', FALSE) /\ OnlySays(floorTimerTimeoutCH', FALSE)
      BY <2>2 DEF Calm, timeouts
    <3> QED BY <2>1, <2>2, <3>1 DEF switchSignals, sender
  <2>3. CASE ResetFloorTimer \/ StopFloorTimer \/ ResetWatchdogTimer \/ Hang
             \/ FloorTimerReset \/ FloorTimerStop \/ WatchdogReset \/ UNCHANGED vars
    BY <2>2, <2>3 DEF ResetFloorTimer, StopFloorTimer, ResetWatchdogTimer, Hang,
                      FloorTimerReset, FloorTimerStop, WatchdogReset, vars
  <2>4. CASE SignalNoFloorTimeout
    <3>1. /\ floorTimerTimeoutCH' = Append(floorTimerTimeoutCH, FALSE)
          /\ UNCHANGED <<obstructionMalfCH, stopMalfCH, watchdogTimeoutCH, heard,
                         currentMalfunctionStatus, malfunctioned>>
      BY <2>4 DEF SignalNoFloorTimeout, switchSignals, sender
    <3>2. OnlySays(Append(floorTimerTimeoutCH, FALSE), FALSE)
      BY <2>t, OnlySaysFacts DEF Calm
    <3>3. OnlySays(watchdogTimeoutCH', FALSE) /\ OnlySays(floorTimerTimeoutCH', FALSE)
      BY <3>1, <3>2 DEF Calm
    <3> QED BY <2>1, <3>1, <3>3
  <2>5. CASE SignalNoWatchdogTimeout
    <3>1. /\ watchdogTimeoutCH' = Append(watchdogTimeoutCH, FALSE)
          /\ UNCHANGED <<obstructionMalfCH, stopMalfCH, floorTimerTimeoutCH, heard,
                         currentMalfunctionStatus, malfunctioned>>
      BY <2>5 DEF SignalNoWatchdogTimeout, switchSignals, sender
    <3>2. OnlySays(Append(watchdogTimeoutCH, FALSE), FALSE)
      BY <2>t, OnlySaysFacts DEF Calm
    <3>3. OnlySays(watchdogTimeoutCH', FALSE) /\ OnlySays(floorTimerTimeoutCH', FALSE)
      BY <3>1, <3>2 DEF Calm
    <3> QED BY <2>1, <3>1, <3>3
  <2>6. ~TakeObstruction /\ ~TakeStop
    BY DEF TakeObstruction, TakeStop
  <2>7. ~FloorTimerFires /\ ~WatchdogFires
    <3>1. FloorTimerFires => ~(floorTimer' <=> floorTimer)
      BY DEF FloorTimerFires
    <3>2. WatchdogFires => ~(watchdogTimer' <=> watchdogTimer)
      BY DEF WatchdogFires
    <3> QED BY <3>1, <3>2 DEF vars, floorTiming, watchdog
  <2>8. ~HearObstruction /\ ~HearStop
    BY DEF Calm, HearObstruction, HearStop
  <2>9. ASSUME NEW s \in Signal, Hear(s, FALSE), UNCHANGED switchSignals,
               OnlySays(watchdogTimeoutCH', FALSE), OnlySays(floorTimerTimeoutCH', FALSE)
        PROVE  Calm'
    <3>1. /\ heard' = [heard EXCEPT ![s] = FALSE] /\ UNCHANGED malfunctioned
          /\ currentMalfunctionStatus' = Status(heard')
      BY <2>9 DEF Hear
    <3>2. heard' = heard
      BY <2>t, <2>h, <2>9, <3>1
    <3>3. ~Status(heard')
      BY <3>2 DEF Calm
    <3> QED BY <2>1, <2>9, <3>1, <3>2, <3>3 DEF Calm, switchSignals
  <2>10. CASE HearWatchdog
    <3>1. /\ Head(watchdogTimeoutCH) = FALSE /\ OnlySays(Tail(watchdogTimeoutCH), FALSE)
      BY <2>t, <2>10, OnlySaysFacts DEF HearWatchdog, Calm
    <3>2. /\ watchdogTimeoutCH' = Tail(watchdogTimeoutCH)
          /\ Hear("watchdog", FALSE) /\ UNCHANGED <<switchSignals, floorTimerTimeoutCH>>
      BY <2>10, <3>1 DEF HearWatchdog
    <3>3. OnlySays(watchdogTimeoutCH', FALSE) /\ OnlySays(floorTimerTimeoutCH', FALSE)
      BY <3>1, <3>2 DEF Calm
    <3> QED BY <2>9, <3>2, <3>3 DEF Signal
  <2>11. CASE HearFloorTimer
    <3>1. /\ Head(floorTimerTimeoutCH) = FALSE /\ OnlySays(Tail(floorTimerTimeoutCH), FALSE)
      BY <2>t, <2>11, OnlySaysFacts DEF HearFloorTimer, Calm
    <3>2. /\ floorTimerTimeoutCH' = Tail(floorTimerTimeoutCH)
          /\ Hear("floor", FALSE) /\ UNCHANGED <<switchSignals, watchdogTimeoutCH>>
      BY <2>11, <3>1 DEF HearFloorTimer
    <3>3. OnlySays(watchdogTimeoutCH', FALSE) /\ OnlySays(floorTimerTimeoutCH', FALSE)
      BY <3>1, <3>2 DEF Calm
    <3> QED BY <2>9, <3>2, <3>3 DEF Signal
  <2>12. CASE Send
    <3>1. /\ UNCHANGED <<switchSignals, timeouts, heard, currentMalfunctionStatus>>
          /\ malfunctioned' = currentMalfunctionStatus
      BY <2>12 DEF Send
    <3>2. ~malfunctioned'
      BY <3>1 DEF Calm
    <3> QED BY <3>1, <3>2 DEF Calm, OnlySays, Status, switchSignals, timeouts
  <2> QED BY <2>3, <2>4, <2>5, <2>6, <2>7, <2>8, <2>10, <2>11, <2>12
          DEF Next, StateMachine, Timers, Sender
<1>3. Calm => ~malfunctioned
  BY DEF Calm
<1> QED BY <1>1, <1>2, <1>3, StatusInvariant, PTL DEF Spec
=============================================================================
