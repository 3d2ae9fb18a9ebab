------------------------- MODULE SessionTypeProofs -------------------------
(***************************************************************************)
(* Every reachable state of a Runtime Session satisfies TypeOK, whatever   *)
(* the programs, the scenario, the timeouts and the time range.  In        *)
(* particular no deadline and no event ever lies outside the range of      *)
(* BusinessTime: the checked and the saturating additions are used where   *)
(* they are needed.                                                        *)
(***************************************************************************)
EXTENDS SessionProperties, AlgorithmProofs

Alarms == {"None", "Recoverable", "Fatal"}

\* The part of TypeOK that concerns what the exits of the handlers rewrite.
TaskTypeOK ==
  /\ lifecycle \in Lifecycles /\ state \in RuntimeStates /\ op \in Operations
  /\ active \in ActiveCommands \cup {NoCommand}
  /\ stop \in StopEpisodes \cup {NoStop}
  /\ connected \in BOOLEAN /\ servoDisabled \in BOOLEAN /\ untrusted \in BOOLEAN
  /\ terminal \in BOOLEAN /\ outcome \in Outcomes
  /\ primary \in Alarms /\ alarmed \in BOOLEAN

\* The rest of it.
RestTypeOK ==
  /\ program \in Seq(Command) /\ next \in Nat \ {0}
  /\ nextStop \in Nat \ {0}
  /\ queue \in Seq(Event) /\ now \in Time
  /\ input \in [Inputs -> BOOLEAN] /\ moving \in BOOLEAN
  /\ controls \in Nat /\ submissions \in Nat

LEMMA TypeSplit == TypeOK <=> TaskTypeOK /\ RestTypeOK
  BY DEF TypeOK, TaskTypeOK, RestTypeOK, Alarms

LEMMA TypeSplitNext == TypeOK' <=> TaskTypeOK' /\ RestTypeOK'
  BY DEF TypeOK, TaskTypeOK, RestTypeOK, Alarms

-----------------------------------------------------------------------------
(***************************************************************************)
(* Events and queues.                                                      *)
(***************************************************************************)
LEMMA TimeArithmetic ==
  ASSUME NEW t \in Time, NEW d \in Nat
  PROVE  /\ SaturatingAdd(t, d) \in Time
         /\ InRange(t, d) => t + d \in Time
         /\ \A u \in Time : Least(u, t) \in Time /\ Greatest(u, t) \in Time
  BY SessionAssumption DEF Time, SaturatingAdd, InRange, Least, Greatest

LEMMA EventTypes ==
  ASSUME NEW t \in Time
  PROVE  /\ \A c \in Controls : ControlEvent(t, c) \in Event
         /\ \A a \in ActiveCommands : MotionPollEvent(t, a) \in Event
         /\ \A a \in ActiveCommands :
              a.deadline \in Time => DelayCompleteEvent(a) \in Event /\ TimeoutEvent(a) \in Event
         /\ \A s \in StopEpisodes : StopPollEvent(t, s) \in Event /\ StopTimeoutEvent(s) \in Event
<1>1. \A c \in Controls : ControlEvent(t, c) \in ControlEvents
  BY DEF ControlEvent, ControlEvents, Controls, PriorityFor, EmergencyControl, StopControl,
         LifecycleControl
<1>2. \A a \in ActiveCommands : MotionPollEvent(t, a) \in CommandEvents
  BY DEF ActiveCommands, MotionPollEvent, CommandEvents, ExternalFeedback
<1>3. \A a \in ActiveCommands :
        a.deadline \in Time => DelayCompleteEvent(a) \in CommandEvents
                               /\ TimeoutEvent(a) \in CommandEvents
  BY DEF ActiveCommands, DelayCompleteEvent, TimeoutEvent, CommandEvents, CommandCompletion,
         TimeoutPriority
<1>4. \A s \in StopEpisodes : StopPollEvent(t, s) \in StopEvents /\ StopTimeoutEvent(s) \in StopEvents
  BY DEF StopEpisodes, StopPollEvent, StopTimeoutEvent, StopEvents, ExternalFeedback,
         TimeoutPriority
<1> QED
  BY <1>1, <1>2, <1>3, <1>4 DEF Event

LEMMA ScheduleTyped ==
  ASSUME NEW q \in Seq(Event), NEW e \in Event
  PROVE  Schedule(q, e) \in Seq(Event)
  BY ScheduleProperties

LEMMA HeadTyped ==
  ASSUME TypeOK, queue # <<>>
  PROVE  /\ Head(queue) \in Event /\ Tail(queue) \in Seq(Event)
         /\ Head(queue).time \in Time
<1>1. Head(queue) \in Event /\ Tail(queue) \in Seq(Event)
  BY HeadTailProperties DEF TypeOK
<1>2. \A e \in Event : e.time \in Time
  BY DEF Event, ControlEvents, CommandEvents, StopEvents, InputEvents, LossEvents
<1> QED
  BY <1>1, <1>2

\* What every handler of an event may rely on.
LEMMA TakeTyped ==
  ASSUME TypeOK, NEW type, Take(type)
  PROVE  /\ queue # <<>> /\ Head(queue) \in Event /\ Head(queue).type = type
         /\ Tail(queue) \in Seq(Event) /\ now' \in Time
<1>1. queue # <<>> /\ Head(queue).type = type /\ now' = Greatest(now, Head(queue).time)
  BY DEF Take, MustProcessEvent
<1>2. Head(queue) \in Event /\ Tail(queue) \in Seq(Event) /\ Head(queue).time \in Time
  BY <1>1, HeadTyped
<1>3. now' \in Time
  BY <1>1, <1>2, TimeArithmetic DEF TypeOK
<1> QED
  BY <1>1, <1>2, <1>3

-----------------------------------------------------------------------------
(***************************************************************************)
(* The exits of the handlers.                                              *)
(***************************************************************************)
LEMMA RaiseTyped ==
  ASSUME NEW prim \in Alarms, NEW kind \in {"Recoverable", "Fatal"}
  PROVE  Raise(prim, kind) \in {"Recoverable", "Fatal"}
  BY DEF Raise, Alarms

LEMMA FinishFaultTyped ==
  ASSUME TypeOK, NEW conn \in BOOLEAN, NEW disabled \in BOOLEAN, NEW distrust \in BOOLEAN,
         NEW prim \in Alarms, FinishFault(conn, disabled, distrust, prim)
  PROVE  TaskTypeOK'
<1>1. PICK servoOk \in BOOLEAN, disconnectOk \in BOOLEAN :
        /\ servoDisabled' = (disabled \/ (conn /\ servoOk))
        /\ connected' = (conn /\ ~(DisconnectOnTerminal /\ disconnectOk))
        /\ untrusted' = (distrust \/ (\/ TriesServo(conn, disabled) /\ ~servoOk
                                      \/ TriesDisconnect(conn) /\ ~disconnectOk))
        /\ SetPrimary(IF \/ TriesServo(conn, disabled) /\ ~servoOk
                         \/ TriesDisconnect(conn) /\ ~disconnectOk
                      THEN Raise(prim, "Fatal") ELSE prim)
        /\ active' = NoCommand /\ stop' = NoStop
        /\ lifecycle' = "Faulted" /\ state' = "Faulted" /\ op' = "Stopped"
        /\ outcome' = "Faulted" /\ terminal' = TRUE
  BY DEF FinishFault
<1>2. servoDisabled' \in BOOLEAN /\ connected' \in BOOLEAN /\ untrusted' \in BOOLEAN
  BY <1>1
<1>3. primary' \in Alarms /\ alarmed' \in BOOLEAN
  BY <1>1 DEF SetPrimary, Raise, Alarms, TypeOK
<1> QED
  BY <1>1, <1>2, <1>3 DEF TaskTypeOK, Lifecycles, RuntimeStates, Operations, Outcomes

LEMMA FailStopTyped ==
  ASSUME TypeOK, NEW conn \in BOOLEAN, NEW prim \in Alarms, FailStop(conn, prim)
  PROVE  TaskTypeOK'
<1>1. Raise(prim, "Fatal") \in Alarms
  BY DEF Raise, Alarms
<1> QED
  BY <1>1, FinishFaultTyped DEF FailStop, TypeOK

LEMMA FinishTerminalTyped ==
  ASSUME TypeOK, NEW result \in Outcomes, NEW disabled \in BOOLEAN, NEW prim \in Alarms,
         FinishTerminal(result, disabled, prim)
  PROVE  TaskTypeOK'
<1>1. Raise(prim, "Fatal") \in Alarms
  BY DEF Raise, Alarms
<1>2. CASE /\ ~untrusted
           /\ connected' = (connected /\ ~DisconnectOnTerminal)
           /\ servoDisabled' = disabled
           /\ SetPrimary(prim)
           /\ active' = NoCommand /\ stop' = NoStop
           /\ lifecycle' = IF result = "EmergencyStopped" THEN "EmergencyStopped" ELSE "Stopped"
           /\ state' = "Stopped" /\ op' = "Stopped" /\ outcome' = result /\ terminal' = TRUE
           /\ UNCHANGED untrusted
  <2>1. connected' \in BOOLEAN /\ alarmed' \in BOOLEAN /\ untrusted' \in BOOLEAN /\ primary' \in Alarms
    BY <1>2 DEF SetPrimary, TypeOK
  <2> QED
    BY <1>2, <2>1 DEF TaskTypeOK, Lifecycles, RuntimeStates, Operations
<1>3. CASE FinishFault(connected, disabled, TRUE, Raise(prim, "Fatal"))
  BY <1>1, <1>3, FinishFaultTyped DEF TypeOK
<1>4. CASE FinishFault(connected /\ ~DisconnectOnTerminal, disabled, TRUE, prim)
  <2>1. (connected /\ ~DisconnectOnTerminal) \in BOOLEAN
    OBVIOUS
  <2> QED
    BY <1>4, <2>1, FinishFaultTyped DEF TypeOK
<1> QED
  BY <1>2, <1>3, <1>4 DEF FinishTerminal

LEMMA BeginStopTyped ==
  ASSUME TypeOK, now' \in Time, NEW q \in Seq(Event), NEW disp \in Dispositions,
         NEW command \in ActiveCommands \cup {NoCommand}, NEW prim \in Alarms,
         BeginStop(q, disp, command, prim)
  PROVE  TaskTypeOK' /\ queue' \in Seq(Event) /\ nextStop' \in Nat \ {0}
<1>1. ASSUME NEW delay \in PollDelays \cup {0},
             LET episode == [id |-> nextStop, disp |-> disp,
                             deadline |-> SaturatingAdd(now', StopTimeout)]
                 poll == Least(episode.deadline, SaturatingAdd(now', delay))
             IN /\ stop' = episode /\ nextStop' = nextStop + 1
                /\ active' = command
                /\ lifecycle' = StopLifecycle(disp) /\ op' = "Stopping"
                /\ queue' = Schedule(Schedule(q, StopPollEvent(poll, episode)),
                                     StopTimeoutEvent(episode))
                /\ connected' = TRUE /\ SetPrimary(prim)
                /\ UNCHANGED <<state, servoDisabled, untrusted, terminal, outcome>>
      PROVE  TaskTypeOK' /\ queue' \in Seq(Event) /\ nextStop' \in Nat \ {0}
  <2> DEFINE episode == [id |-> nextStop, disp |-> disp,
                         deadline |-> SaturatingAdd(now', StopTimeout)]
             poll == Least(episode.deadline, SaturatingAdd(now', delay))
  <2>1. StopTimeout \in Nat /\ delay \in Nat
    BY SessionAssumption
  <2>2. episode.deadline \in Time /\ poll \in Time
    BY <2>1, TimeArithmetic
  <2>3. episode \in StopEpisodes
    BY <2>2 DEF StopEpisodes, TypeOK
  <2>4. /\ stop' = episode /\ nextStop' = nextStop + 1 /\ active' = command
        /\ lifecycle' = StopLifecycle(disp) /\ op' = "Stopping"
        /\ queue' = Schedule(Schedule(q, StopPollEvent(poll, episode)), StopTimeoutEvent(episode))
        /\ connected' = TRUE /\ SetPrimary(prim)
        /\ UNCHANGED <<state, servoDisabled, untrusted, terminal, outcome>>
    BY <1>1
  <2> HIDE DEF episode, poll
  <2>5. queue' \in Seq(Event)
    BY <2>2, <2>3, <2>4, EventTypes, ScheduleTyped
  <2>6. primary' \in Alarms /\ alarmed' \in BOOLEAN
    BY <2>4 DEF SetPrimary, TypeOK
  <2>7. lifecycle' \in Lifecycles
    BY <2>4 DEF StopLifecycle, Lifecycles, Dispositions
  <2> QED
    BY <2>3, <2>4, <2>5, <2>6, <2>7 DEF TaskTypeOK, TypeOK, Operations
<1>2. CASE queue' = q /\ UNCHANGED nextStop /\ FailStop(TRUE, prim)
  BY <1>2, FailStopTyped DEF TypeOK
<1> QED
  BY <1>1, <1>2 DEF BeginStop

LEMMA BeginFaultTyped ==
  ASSUME TypeOK, now' \in Time, NEW q \in Seq(Event), NEW conn \in BOOLEAN,
         NEW kind \in {"Recoverable", "Fatal"}, NEW command \in ActiveCommands \cup {NoCommand},
         BeginFault(q, conn, kind, command)
  PROVE  TaskTypeOK' /\ queue' \in Seq(Event) /\ nextStop' \in Nat \ {0}
<1>1. Raise(primary, kind) \in Alarms
  BY DEF Raise, Alarms, TypeOK
<1>2. CASE conn /\ ~StopPending
  <2>1. BeginStop(q, "Fault", command, Raise(primary, kind))
    BY <1>2 DEF BeginFault
  <2> QED
    BY <1>1, <2>1, BeginStopTyped DEF Dispositions
<1>3. CASE ~(conn /\ ~StopPending)
  <2>1. /\ queue' = q /\ UNCHANGED nextStop
        /\ FinishFault(conn, servoDisabled, untrusted, Raise(primary, kind))
    BY <1>3 DEF BeginFault
  <2> QED
    BY <1>1, <2>1, FinishFaultTyped DEF TypeOK
<1> QED
  BY <1>2, <1>3

LEMMA SucceedTyped ==
  ASSUME TypeOK, NEW q \in Seq(Event), Succeed(q)
  PROVE  TaskTypeOK' /\ queue' \in Seq(Event) /\ next' \in Nat \ {0} /\ nextStop' \in Nat \ {0}
  BY DEF Succeed, TypeOK, TaskTypeOK, Alarms, Lifecycles, RuntimeStates, Operations

-----------------------------------------------------------------------------
(***************************************************************************)
(* The steps, by handler.                                                  *)
(***************************************************************************)
LEMMA DropTyped ==
  ASSUME TypeOK, queue # <<>>, now' \in Time, Drop
  PROVE  TypeOK'
<1>1. queue' \in Seq(Event)
  BY HeadTyped DEF Drop
<1> QED
  BY <1>1 DEF Drop, TypeOK, taskVars, boundVars

\* A handler that leaves only the exit's variables, the queue, next and moving to be checked.
LEMMA HandlerTyped ==
  ASSUME TypeOK, TaskTypeOK', now' \in Time, queue' \in Seq(Event), nextStop' \in Nat \ {0},
         next' \in Nat \ {0}, moving' \in BOOLEAN, UNCHANGED input, Frame
  PROVE  TypeOK'
<1>1. RestTypeOK'
  BY DEF RestTypeOK, TypeOK, Frame, boundVars
<1> QED
  BY <1>1, TypeSplitNext

LEMMA HostTyped ==
  ASSUME TypeOK,
         \/ \E p \in Programs : SubmitProgram(p)
         \/ \E c \in ControlsUsed : SubmitControl(c)
         \/ HostAdvancesClock
  PROVE  TypeOK'
<1>1. ASSUME NEW p \in Programs, SubmitProgram(p)
      PROVE  TypeOK'
  <2>1. PrepareResult(p) /\ p \in Seq(Command)
    BY <1>1, SessionAssumption DEF SubmitProgram
  <2>2. /\ program' \in Seq(Command) /\ next' \in Nat \ {0} /\ op' \in Operations
        /\ active' \in ActiveCommands \cup {NoCommand} /\ stop' \in StopEpisodes \cup {NoStop}
        /\ connected' \in BOOLEAN /\ servoDisabled' \in BOOLEAN /\ moving' \in BOOLEAN
        /\ input' \in [Inputs -> BOOLEAN] /\ submissions' \in Nat
        /\ nextStop' \in Nat \ {0} /\ untrusted' \in BOOLEAN /\ primary' \in Alarms
        /\ alarmed' \in BOOLEAN /\ now' \in Time /\ controls' \in Nat
    <3>1. now' \in Time /\ nextStop' \in Nat \ {0} /\ primary' \in Alarms
      BY <2>1 DEF PrepareResult, TypeOK, Alarms
    <3>2. untrusted' \in BOOLEAN /\ alarmed' \in BOOLEAN
      BY <2>1 DEF PrepareResult, TypeOK
    <3>3. connected' \in BOOLEAN /\ servoDisabled' \in BOOLEAN /\ moving' \in BOOLEAN
      BY <2>1 DEF PrepareResult
    <3>4. input' \in [Inputs -> BOOLEAN]
      BY <2>1, SessionAssumption DEF PrepareResult
    <3>5. program' \in Seq(Command) /\ next' \in Nat \ {0} /\ op' \in Operations
          /\ submissions' \in Nat /\ controls' \in Nat
      BY <2>1 DEF PrepareResult, TypeOK, Operations
    <3>6. active' \in ActiveCommands \cup {NoCommand} /\ stop' \in StopEpisodes \cup {NoStop}
      BY <2>1 DEF PrepareResult
    <3> QED
      BY <3>1, <3>2, <3>3, <3>4, <3>5, <3>6
  <2>3. ScenarioAt(now) \in Seq(Event)
    <3>1. \A t \in Time : ScenarioAt(t) \in Seq(Event)
      BY ScenarioAssumption
    <3> QED
      BY <3>1 DEF TypeOK
  <2>4. /\ lifecycle' \in Lifecycles /\ state' \in RuntimeStates /\ terminal' \in BOOLEAN
        /\ outcome' \in Outcomes /\ queue' \in Seq(Event)
    <3>1. CASE /\ lifecycle' = "Running" /\ state' = "ServoOff" /\ terminal' = FALSE
               /\ outcome' = "None" /\ queue' = ScenarioAt(now)
      BY <2>3, <3>1 DEF Lifecycles, RuntimeStates, Outcomes
    <3>2. CASE /\ lifecycle' = "Faulted" /\ state' = "Faulted" /\ terminal' = TRUE
               /\ outcome' = "Faulted" /\ queue' = <<>>
      BY <3>2, EmptySeq DEF Lifecycles, RuntimeStates, Outcomes
    <3> QED
      BY <1>1, <3>1, <3>2 DEF SubmitProgram
  <2> QED
    BY <2>2, <2>4 DEF TypeOK, Alarms
<1>2. ASSUME NEW c \in ControlsUsed, SubmitControl(c)
      PROVE  TypeOK'
  <2>1. c \in Controls /\ now \in Time
    BY SessionAssumption DEF TypeOK
  <2>2. queue' \in Seq(Event)
    BY <1>2, <2>1, EventTypes, ScheduleTyped DEF SubmitControl, TypeOK
  <2> QED
    BY <1>2, <2>2 DEF SubmitControl, TypeOK, taskVars
<1>3. ASSUME HostAdvancesClock
      PROVE  TypeOK'
  <2>1. now' \in Time
    BY <1>3, SessionAssumption DEF HostAdvancesClock, TypeOK, Time
  <2> QED
    BY <1>3, <2>1 DEF HostAdvancesClock, TypeOK, taskVars, boundVars
<1> QED
  BY <1>1, <1>2, <1>3

\* What pausing and resuming make of the active command.
LEMMA PausedTyped ==
  ASSUME TypeOK, HasActive, now' \in Time
  PROVE  /\ [active EXCEPT !.remaining = Remaining] \in ActiveCommands
         /\ [active EXCEPT !.remaining = Remaining, !.deadline = NoDeadline, !.gen = @ + 1]
              \in ActiveCommands
         /\ [active EXCEPT !.gen = @ + 1] \in ActiveCommands
         /\ InRange(now', active.remaining) =>
              Resumed \in ActiveCommands /\ Resumed.deadline \in Time
<1>1. active \in ActiveCommands /\ active.remaining \in Nat
  BY DEF HasActive, TypeOK, ActiveCommands
<1>2. Remaining \in Nat
  BY <1>1, SessionAssumption DEF Remaining, Greatest, ActiveCommands, NoDeadline, Time
<1>3. InRange(now', active.remaining) => now' + active.remaining \in Time
  BY <1>1, TimeArithmetic
<1>a. \A a \in ActiveCommands, r \in Nat : [a EXCEPT !.remaining = r] \in ActiveCommands
  BY DEF ActiveCommands
<1>b. \A a \in ActiveCommands, d \in Time \cup {NoDeadline} :
        [a EXCEPT !.deadline = d] \in ActiveCommands /\ [a EXCEPT !.deadline = d].deadline = d
  BY DEF ActiveCommands
<1>c. \A a \in ActiveCommands, g \in Nat \ {0} : [a EXCEPT !.gen = g] \in ActiveCommands
  BY DEF ActiveCommands
<1>d. active.gen + 1 \in Nat \ {0}
  BY <1>1 DEF ActiveCommands
<1>4. [active EXCEPT !.remaining = Remaining] \in ActiveCommands
  BY <1>1, <1>2, <1>a
<1>5. [active EXCEPT !.remaining = Remaining, !.deadline = NoDeadline, !.gen = @ + 1]
        \in ActiveCommands
  <2>1. [[active EXCEPT !.remaining = Remaining] EXCEPT !.deadline = NoDeadline] \in ActiveCommands
    BY <1>4, <1>b
  <2> QED
    BY <2>1, <1>c, <1>d
<1>6. [active EXCEPT !.gen = @ + 1] \in ActiveCommands
  BY <1>1, <1>c, <1>d
<1>7. InRange(now', active.remaining) => Resumed \in ActiveCommands /\ Resumed.deadline \in Time
  BY <1>3, <1>6, <1>b DEF Resumed
<1> QED
  BY <1>4, <1>5, <1>6, <1>7

LEMMA ControlTyped ==
  ASSUME TypeOK, HandleControl
  PROVE  TypeOK'
<1>0. \A c : TakeControl(c) =>
        queue # <<>> /\ Tail(queue) \in Seq(Event) /\ now' \in Time
  BY TakeTyped DEF TakeControl
<1>1. CASE ControlWithoutEffect
  BY <1>0, <1>1, DropTyped DEF ControlWithoutEffect
<1>2. CASE PauseBetweenCommands
  BY <1>0, <1>2 DEF PauseBetweenCommands, TypeOK, Frame, boundVars, Lifecycles
<1>3. CASE PauseMotion
  <2>1. HasActive /\ Tail(queue) \in Seq(Event) /\ now' \in Time
    BY <1>0, <1>3 DEF PauseMotion, HasActive, NoCommand
  <2>2. [active EXCEPT !.remaining = Remaining] \in ActiveCommands
    BY <2>1, PausedTyped
  <2>3. TaskTypeOK' /\ queue' \in Seq(Event) /\ nextStop' \in Nat \ {0}
    BY <1>3, <2>1, <2>2, BeginStopTyped DEF PauseMotion, TypeOK, Dispositions, Alarms
  <2> QED
    BY <1>3, <2>1, <2>3, HandlerTyped DEF PauseMotion, TypeOK
<1>4. CASE PauseLocalWait
  <2>1. HasActive /\ Tail(queue) \in Seq(Event) /\ now' \in Time
    BY <1>0, <1>4 DEF PauseLocalWait, HasActive, NoCommand, LocalWait
  <2>2. active' \in ActiveCommands
    BY <1>4, <2>1, PausedTyped DEF PauseLocalWait
  <2> QED
    BY <1>4, <2>1, <2>2 DEF PauseLocalWait, TypeOK, Frame, boundVars, Lifecycles
<1>5. CASE ResumeBetweenCommands
  BY <1>0, <1>5 DEF ResumeBetweenCommands, TypeOK, Frame, boundVars, Lifecycles
<1>6. CASE ResumeMotion
  <2>1. HasActive /\ Tail(queue) \in Seq(Event) /\ now' \in Time
    BY <1>0, <1>6 DEF ResumeMotion, HasActive, NoCommand
  <2>2. Resumed \in ActiveCommands /\ Resumed.deadline \in Time
    BY <1>6, <2>1, PausedTyped DEF ResumeMotion
  <2>3. queue' \in Seq(Event)
    <3>1. PICK delay \in PollDelays \cup {0} :
            queue' = Schedule(Schedule(Tail(queue),
                       MotionPollEvent(Least(Resumed.deadline, SaturatingAdd(now', delay)), Resumed)),
                       TimeoutEvent(Resumed))
      BY <1>6 DEF ResumeMotion
    <3>2. Least(Resumed.deadline, SaturatingAdd(now', delay)) \in Time
      BY <2>1, <2>2, TimeArithmetic, SessionAssumption
    <3> QED
      BY <2>1, <2>2, <3>1, <3>2, EventTypes, ScheduleTyped
  <2> QED
    BY <1>6, <2>1, <2>2, <2>3 DEF ResumeMotion, TypeOK, Frame, boundVars, Lifecycles, Operations
<1>7. CASE ResumeMotionFails
  <2>1. HasActive /\ Tail(queue) \in Seq(Event) /\ now' \in Time
    BY <1>0, <1>7 DEF ResumeMotionFails, HasActive, NoCommand
  <2>2. [active EXCEPT !.gen = @ + 1] \in ActiveCommands
    BY <2>1, PausedTyped
  <2>3. PICK kind \in {"Recoverable", "Fatal"} : ResumeFault(kind)
    BY <1>7 DEF ResumeMotionFails
  <2>4. TaskTypeOK' /\ queue' \in Seq(Event) /\ nextStop' \in Nat \ {0}
    BY <2>1, <2>2, <2>3, BeginFaultTyped DEF ResumeFault, TypeOK
  <2>5. moving' \in BOOLEAN
    BY <1>7 DEF ResumeMotionFails, TypeOK
  <2> QED
    BY <1>7, <2>1, <2>4, <2>5, HandlerTyped DEF ResumeMotionFails, TypeOK
<1>8. CASE ResumePastTimeRange
  <2>1. HasActive /\ Tail(queue) \in Seq(Event) /\ now' \in Time
    BY <1>0, <1>8 DEF ResumePastTimeRange
  <2>2. [active EXCEPT !.gen = @ + 1] \in ActiveCommands
    BY <2>1, PausedTyped
  <2>3. TaskTypeOK' /\ queue' \in Seq(Event) /\ nextStop' \in Nat \ {0}
    BY <1>8, <2>1, <2>2, BeginFaultTyped DEF ResumePastTimeRange, ResumeFault, TypeOK
  <2> QED
    BY <1>8, <2>1, <2>3, HandlerTyped DEF ResumePastTimeRange, TypeOK
<1>9. CASE ResumeSatisfiedWait
  <2>1. Tail(queue) \in Seq(Event) /\ now' \in Time
    BY <1>0, <1>9 DEF ResumeSatisfiedWait
  <2>2. TaskTypeOK' /\ queue' \in Seq(Event) /\ next' \in Nat \ {0} /\ nextStop' \in Nat \ {0}
    BY <1>9, <2>1, SucceedTyped DEF ResumeSatisfiedWait
  <2> QED
    BY <1>9, <2>1, <2>2, HandlerTyped DEF ResumeSatisfiedWait, TypeOK
<1>10. CASE ResumeLocalWait
  <2>1. HasActive /\ Tail(queue) \in Seq(Event) /\ now' \in Time
    BY <1>0, <1>10 DEF ResumeLocalWait, HasActive, NoCommand, LocalWait
  <2>2. Resumed \in ActiveCommands /\ Resumed.deadline \in Time
    BY <1>10, <2>1, PausedTyped DEF ResumeLocalWait
  <2>3. queue' \in Seq(Event)
    BY <1>10, <2>1, <2>2, EventTypes, ScheduleTyped DEF ResumeLocalWait
  <2> QED
    BY <1>10, <2>1, <2>2, <2>3 DEF ResumeLocalWait, TypeOK, Frame, boundVars, Lifecycles
<1>11. CASE Stop
  <2>1. Tail(queue) \in Seq(Event) /\ now' \in Time
    BY <1>0, <1>11 DEF Stop
  <2>2. TaskTypeOK' /\ queue' \in Seq(Event) /\ nextStop' \in Nat \ {0}
    <3>1. CASE StopPending
      BY <1>11, <2>1, <3>1 DEF Stop, TypeOK, TaskTypeOK, taskVars, Alarms
    <3>2. CASE ~StopPending /\ connected
      <4>1. BeginStop(Tail(queue), "OperatorStop", active, primary)
        BY <1>11, <3>2 DEF Stop
      <4> QED
        BY <2>1, <4>1, BeginStopTyped DEF TypeOK, Dispositions, Alarms
    <3>3. CASE ~StopPending /\ ~connected
      <4>1. /\ FinishTerminal("OperatorStopped", servoDisabled, primary)
            /\ queue' = Tail(queue) /\ UNCHANGED nextStop
        BY <1>11, <3>3 DEF Stop
      <4> QED
        BY <2>1, <4>1, FinishTerminalTyped DEF TypeOK, Outcomes, Alarms
    <3> QED
      BY <3>1, <3>2, <3>3
  <2> QED
    BY <1>11, <2>1, <2>2, HandlerTyped DEF Stop, TypeOK
<1>12. CASE Estop
  <2>1. Tail(queue) \in Seq(Event) /\ now' \in Time
    BY <1>0, <1>12 DEF Estop
  <2>2. TaskTypeOK' /\ queue' \in Seq(Event) /\ nextStop' \in Nat \ {0}
    <3>1. CASE StopPending
      <4>1. stop \in StopEpisodes
        BY <3>1 DEF StopPending, TypeOK
      <4>2. [stop EXCEPT !.disp = "Emergency"] \in StopEpisodes
        BY <4>1 DEF StopEpisodes, Dispositions
      <4> QED
        BY <1>12, <2>1, <3>1, <4>2 DEF Estop, TypeOK, TaskTypeOK, Alarms, Lifecycles
    <3>2. CASE ~StopPending /\ connected
      <4>1. BeginStop(Tail(queue), "Emergency", active, primary)
        BY <1>12, <3>2 DEF Estop
      <4> QED
        BY <2>1, <4>1, BeginStopTyped DEF TypeOK, Dispositions, Alarms
    <3>3. CASE ~StopPending /\ ~connected
      <4>1. /\ FinishTerminal("EmergencyStopped", servoDisabled, Raise(primary, "Recoverable"))
            /\ queue' = Tail(queue) /\ UNCHANGED nextStop
        BY <1>12, <3>3 DEF Estop
      <4>2. Raise(primary, "Recoverable") \in Alarms
        BY DEF Raise, Alarms, TypeOK
      <4> QED
        BY <2>1, <4>1, <4>2, FinishTerminalTyped DEF TypeOK, Outcomes
    <3> QED
      BY <3>1, <3>2, <3>3
  <2> QED
    BY <1>12, <2>1, <2>2, HandlerTyped DEF Estop, TypeOK
<1>13. CASE Reset
  <2>1. program' \in Seq(Command) /\ queue' \in Seq(Event)
    BY <1>13, EmptySeq DEF Reset
  <2>2. now' \in Time
    BY <1>0, <1>13 DEF Reset
  <2>3. TaskTypeOK'
    BY <1>13 DEF Reset, TypeOK, TaskTypeOK, Lifecycles, RuntimeStates, Operations, Outcomes, Alarms
  <2>4. RestTypeOK'
    BY <1>13, <2>1, <2>2 DEF Reset, TypeOK, RestTypeOK, boundVars
  <2> QED
    BY <2>3, <2>4, TypeSplitNext
<1>14. CASE ResetRejected
  BY <1>0, <1>14, DropTyped DEF ResetRejected
<1> QED
  BY <1>1, <1>2, <1>3, <1>4, <1>5, <1>6, <1>7, <1>8, <1>9, <1>10, <1>11, <1>12, <1>13, <1>14
     DEF HandleControl

LEMMA CommandEventTyped ==
  ASSUME TypeOK,
         \/ StaleMotionPoll \/ MotionRunning \/ MotionSucceeded \/ MotionFails
         \/ DelayComplete \/ StaleDelayComplete
         \/ CommandTimeout \/ StaleTimeout
  PROVE  TypeOK'
<1>0. \A type : Take(type) =>
        queue # <<>> /\ Tail(queue) \in Seq(Event) /\ now' \in Time
  BY TakeTyped
<1>1. CASE StaleMotionPoll \/ StaleDelayComplete \/ StaleTimeout
  BY <1>0, <1>1, DropTyped DEF StaleMotionPoll, StaleDelayComplete, StaleTimeout
<1>2. CASE MotionRunning
  <2>1. Tail(queue) \in Seq(Event) /\ now' \in Time /\ active \in ActiveCommands
    BY <1>0, <1>2 DEF MotionRunning, PollIsCurrent, HasActive, TypeOK
  <2>2. queue' \in Seq(Event)
    <3>1. CASE now' < active.deadline
      <4>1. PICK delay \in PollDelays :
              queue' = Schedule(Tail(queue),
                         MotionPollEvent(Least(active.deadline,
                                               SaturatingAdd(now', Greatest(1, delay))), active))
        BY <1>2, <3>1 DEF MotionRunning
      <4>2. delay \in Nat /\ Greatest(1, delay) \in Nat
        BY SessionAssumption DEF Greatest
      <4>3. active.deadline \in Time
        BY <2>1, <3>1 DEF ActiveCommands, NoDeadline, Time
      <4>4. Least(active.deadline, SaturatingAdd(now', Greatest(1, delay))) \in Time
        BY <2>1, <4>2, <4>3, TimeArithmetic
      <4> QED
        BY <2>1, <4>1, <4>4, EventTypes, ScheduleTyped
    <3>2. CASE ~(now' < active.deadline)
      BY <1>2, <2>1, <3>2 DEF MotionRunning
    <3> QED
      BY <3>1, <3>2
  <2>3. TaskTypeOK'
    BY <1>2 DEF MotionRunning, TypeOK, TaskTypeOK, taskVars, Alarms
  <2> QED
    BY <1>2, <2>1, <2>2, <2>3, HandlerTyped DEF MotionRunning, TypeOK
<1>3. CASE MotionSucceeded
  <2>1. Tail(queue) \in Seq(Event) /\ now' \in Time
    BY <1>0, <1>3 DEF MotionSucceeded
  <2>2. TaskTypeOK' /\ queue' \in Seq(Event) /\ next' \in Nat \ {0} /\ nextStop' \in Nat \ {0}
    BY <1>3, <2>1, SucceedTyped DEF MotionSucceeded
  <2> QED
    BY <1>3, <2>1, <2>2, HandlerTyped DEF MotionSucceeded
<1>4. CASE MotionFails
  <2>1. Tail(queue) \in Seq(Event) /\ now' \in Time
    BY <1>0, <1>4 DEF MotionFails
  <2>2. TaskTypeOK' /\ queue' \in Seq(Event) /\ nextStop' \in Nat \ {0}
    BY <1>4, <2>1, BeginFaultTyped DEF MotionFails, TypeOK
  <2> QED
    BY <1>4, <2>1, <2>2, HandlerTyped DEF MotionFails, TypeOK
<1>5. CASE DelayComplete
  <2>1. Tail(queue) \in Seq(Event) /\ now' \in Time
    BY <1>0, <1>5 DEF DelayComplete
  <2>2. TaskTypeOK' /\ queue' \in Seq(Event) /\ next' \in Nat \ {0} /\ nextStop' \in Nat \ {0}
    BY <1>5, <2>1, SucceedTyped DEF DelayComplete
  <2> QED
    BY <1>5, <2>1, <2>2, HandlerTyped DEF DelayComplete, TypeOK
<1>6. CASE CommandTimeout
  <2>1. Tail(queue) \in Seq(Event) /\ now' \in Time
    BY <1>0, <1>6 DEF CommandTimeout
  <2>2. TaskTypeOK' /\ queue' \in Seq(Event) /\ nextStop' \in Nat \ {0}
    BY <1>6, <2>1, BeginFaultTyped DEF CommandTimeout, TypeOK
  <2> QED
    BY <1>6, <2>1, <2>2, HandlerTyped DEF CommandTimeout, TypeOK
<1> QED
  BY <1>1, <1>2, <1>3, <1>4, <1>5, <1>6

\* What a confirmed stop leaves of the state to be checked.
LEMMA StopConfirmedTyped ==
  ASSUME TypeOK, NEW disp, StopConfirmed(disp), TaskTypeOK', next' \in Nat \ {0}
  PROVE  TypeOK'
<1>1. queue' \in Seq(Event) /\ now' \in Time
  BY TakeTyped DEF StopConfirmed, Resolve
<1>2. nextStop' \in Nat \ {0} /\ moving' \in BOOLEAN /\ UNCHANGED input /\ Frame
  BY DEF StopConfirmed, Resolve, TypeOK
<1> QED
  BY <1>1, <1>2, HandlerTyped

LEMMA StopEventTyped ==
  ASSUME TypeOK,
         \/ StaleStopPoll \/ StillStopping \/ StopPollFails \/ StopDeadline
         \/ PauseConfirmed \/ FaultStopConfirmed \/ EmergencyStopConfirmed
         \/ OperatorStopConfirmed \/ ProgramStopConfirmed
  PROVE  TypeOK'
<1>0. \A type : Take(type) =>
        queue # <<>> /\ Tail(queue) \in Seq(Event) /\ now' \in Time
  BY TakeTyped
<1>1. CASE StaleStopPoll
  BY <1>0, <1>1, DropTyped DEF StaleStopPoll
<1>2. CASE StillStopping
  <2>1. Tail(queue) \in Seq(Event) /\ now' \in Time /\ stop \in StopEpisodes
    BY <1>0, <1>2 DEF StillStopping, OwnEpisode, StopPending, TypeOK
  <2>2. queue' \in Seq(Event)
    <3>1. PICK delay \in PollDelays :
            queue' = Schedule(Tail(queue),
                       StopPollEvent(Least(stop.deadline,
                                           SaturatingAdd(now', Greatest(1, delay))), stop))
      BY <1>2 DEF StillStopping
    <3>2. delay \in Nat /\ Greatest(1, delay) \in Nat
      BY SessionAssumption DEF Greatest
    <3>3. stop.deadline \in Time
      BY <2>1 DEF StopEpisodes
    <3>4. Least(stop.deadline, SaturatingAdd(now', Greatest(1, delay))) \in Time
      BY <2>1, <3>2, <3>3, TimeArithmetic
    <3> QED
      BY <2>1, <3>1, <3>4, EventTypes, ScheduleTyped
  <2>3. TaskTypeOK'
    BY <1>2 DEF StillStopping, TypeOK, TaskTypeOK, taskVars, Alarms
  <2> QED
    BY <1>2, <2>1, <2>2, <2>3, HandlerTyped DEF StillStopping, TypeOK
<1>3. ASSUME FailStop(connected, primary), UNCHANGED <<next, moving>>, Resolve,
             queue # <<>>, now' \in Time
      PROVE  TypeOK'
  <2>1. TaskTypeOK'
    BY <1>3, FailStopTyped DEF TypeOK, Alarms
  <2>2. queue' \in Seq(Event)
    BY <1>3, HeadTyped DEF Resolve
  <2> QED
    BY <1>3, <2>1, <2>2, HandlerTyped DEF Resolve, TypeOK
<1>4. CASE StopPollFails
  BY <1>0, <1>3, <1>4 DEF StopPollFails
<1>5. CASE StopDeadline
  BY <1>0, <1>3, <1>5, DropTyped DEF StopDeadline
<1>6. CASE PauseConfirmed
  <2>1. active' \in ActiveCommands \cup {NoCommand}
    BY <1>0, <1>6, PausedTyped DEF PauseConfirmed, StopConfirmed, TypeOK
  <2>2. lifecycle' \in Lifecycles
    BY <1>6 DEF PauseConfirmed, TypeOK, Lifecycles
  <2>3. TaskTypeOK'
    BY <1>6, <2>1, <2>2 DEF PauseConfirmed, TypeOK, TaskTypeOK, Operations, Alarms
  <2> QED
    BY <1>6, <2>3, StopConfirmedTyped DEF PauseConfirmed, TypeOK
<1>7. CASE FaultStopConfirmed
  <2>1. TaskTypeOK'
    BY <1>7, FinishFaultTyped DEF FaultStopConfirmed, TypeOK, Alarms
  <2> QED
    BY <1>7, <2>1, StopConfirmedTyped DEF FaultStopConfirmed, TypeOK
<1>8. CASE EmergencyStopConfirmed
  <2>1. Raise(primary, "Recoverable") \in Alarms /\ Raise(primary, "Fatal") \in Alarms
    BY DEF Raise, Alarms, TypeOK
  <2>2. TaskTypeOK'
    <3>1. CASE FinishTerminal("EmergencyStopped", TRUE, Raise(primary, "Recoverable"))
      BY <2>1, <3>1, FinishTerminalTyped DEF Outcomes
    <3>2. CASE FinishFault(connected, servoDisabled, TRUE, Raise(primary, "Fatal"))
      BY <2>1, <3>2, FinishFaultTyped DEF TypeOK
    <3>3. CASE FinishFault(connected, TRUE, TRUE, primary)
      BY <3>3, FinishFaultTyped DEF TypeOK, Alarms
    <3> QED
      BY <1>8, <3>1, <3>2, <3>3 DEF EmergencyStopConfirmed
  <2> QED
    BY <1>8, <2>2, StopConfirmedTyped DEF EmergencyStopConfirmed, TypeOK
<1>9. CASE OperatorStopConfirmed
  <2>1. TaskTypeOK'
    BY <1>9, FinishTerminalTyped DEF OperatorStopConfirmed, TypeOK, Alarms, Outcomes
  <2> QED
    BY <1>9, <2>1, StopConfirmedTyped DEF OperatorStopConfirmed, TypeOK
<1>10. CASE ProgramStopConfirmed
  <2>1. TaskTypeOK'
    BY <1>10, FinishTerminalTyped DEF ProgramStopConfirmed, TypeOK, Alarms, Outcomes
  <2> QED
    BY <1>10, <2>1, StopConfirmedTyped DEF ProgramStopConfirmed, TypeOK
<1> QED
  BY <1>1, <1>2, <1>4, <1>5, <1>6, <1>7, <1>8, <1>9, <1>10

LEMMA OutsideEventTyped ==
  ASSUME TypeOK, InputChange \/ ConnectionLoss
  PROVE  TypeOK'
<1>1. CASE InputChange
  <2>1. /\ queue # <<>> /\ Head(queue) \in Event /\ Head(queue).type = "Input"
        /\ Tail(queue) \in Seq(Event) /\ now' \in Time
    BY <1>1, TakeTyped DEF InputChange
  <2>2. Head(queue) \in InputEvents
    BY <2>1 DEF Event, ControlEvents, CommandEvents, StopEvents, InputEvents, LossEvents
  <2>3. input' \in [Inputs -> BOOLEAN] /\ moving' \in BOOLEAN
    BY <1>1, <2>2 DEF InputChange, InputEvents, TypeOK
  <2>4. /\ TaskTypeOK' /\ queue' \in Seq(Event)
        /\ next' \in Nat \ {0} /\ nextStop' \in Nat \ {0}
    <3>1. CASE Succeed(Tail(queue))
      BY <2>1, <3>1, SucceedTyped
    <3>2. CASE queue' = Tail(queue) /\ UNCHANGED <<taskVars, next, nextStop>>
      BY <2>1, <3>2 DEF TypeOK, TaskTypeOK, taskVars, Alarms
    <3> QED
      BY <1>1, <3>1, <3>2 DEF InputChange
  <2>5. Frame
    BY <1>1 DEF InputChange
  <2>6. RestTypeOK'
    BY <2>1, <2>3, <2>4, <2>5 DEF RestTypeOK, TypeOK, Frame, boundVars
  <2> QED
    BY <2>4, <2>6, TypeSplitNext
<1>2. CASE ConnectionLoss
  <2>1. Tail(queue) \in Seq(Event) /\ now' \in Time
    BY <1>2, TakeTyped DEF ConnectionLoss
  <2>2. TaskTypeOK' /\ queue' \in Seq(Event) /\ nextStop' \in Nat \ {0}
    BY <1>2, <2>1, BeginFaultTyped DEF ConnectionLoss, TypeOK
  <2> QED
    BY <1>2, <2>1, <2>2, HandlerTyped DEF ConnectionLoss, TypeOK
<1> QED
  BY <1>1, <1>2

\* A command that starts is one of the program, at the present time.
LEMMA StartTyped ==
  ASSUME TypeOK, NEW type, Start(type)
  PROVE  /\ now' \in Time /\ next \in Nat \ {0}
         /\ program[next] \in Command /\ program[next].type = type
         /\ program[next].timeout \in Nat
         /\ Activate(program[next]).index = next
         /\ InRange(now, program[next].timeout) =>
              Activate(program[next]) \in ActiveCommands
              /\ Activate(program[next]).deadline \in Time
<1>1. now' = now /\ now \in Time /\ next \in Nat \ {0} /\ program[next].type = type
  BY DEF Start, TypeOK
<1>2. next \in DOMAIN program /\ program \in Seq(Command)
  BY DEF Start, StartsCommand, TypeOK
<1>3. program[next] \in Command
  BY <1>2, ElementOfSeq, LenProperties
<1>4. program[next].timeout \in Time /\ program[next].type \in CommandTypes
  BY <1>3 DEF Command
<1>5. program[next].timeout \in Nat
  BY <1>4, SessionAssumption DEF Time
<1>6. InRange(now, program[next].timeout) => now + program[next].timeout \in Time
  BY <1>1, <1>5, TimeArithmetic
<1>7. InRange(now, program[next].timeout) =>
        Activate(program[next]) \in ActiveCommands /\ Activate(program[next]).deadline \in Time
  BY <1>1, <1>4, <1>5, <1>6 DEF Activate, ActiveCommands
<1>8. Activate(program[next]).index = next
  BY DEF Activate
<1> QED
  BY <1>1, <1>3, <1>5, <1>7, <1>8

\* The two ways a command leaves the queue of a session that goes on.
LEMMA BeginTyped ==
  ASSUME TypeOK, now' \in Time, NEW a \in ActiveCommands, NEW phase \in {"Running", "Waiting"},
         Begin(a, phase), op' \in Operations, moving' \in BOOLEAN, queue' \in Seq(Event)
  PROVE  TypeOK'
<1>1. TaskTypeOK'
  BY DEF Begin, TypeOK, TaskTypeOK, Lifecycles, RuntimeStates, Alarms
<1> QED
  BY <1>1, HandlerTyped DEF Begin, TypeOK

LEMMA PassTyped ==
  ASSUME TypeOK, now' \in Time, Pass, servoDisabled' \in BOOLEAN, state' \in RuntimeStates
  PROVE  TypeOK'
<1>1. TaskTypeOK'
  BY DEF Pass, TypeOK, TaskTypeOK, Alarms
<1>2. next' \in Nat \ {0} /\ queue' \in Seq(Event) /\ nextStop' \in Nat \ {0} /\ moving' \in BOOLEAN
  BY DEF Pass, TypeOK
<1> QED
  BY <1>1, <1>2, HandlerTyped DEF Pass

LEMMA StartFaultTyped ==
  ASSUME TypeOK, now' \in Time, NEW kind \in {"Recoverable", "Fatal"},
         NEW command \in ActiveCommands \cup {NoCommand}, StartFault(kind, command),
         moving' \in BOOLEAN
  PROVE  TypeOK'
<1>1. TaskTypeOK' /\ queue' \in Seq(Event) /\ nextStop' \in Nat \ {0}
  BY BeginFaultTyped DEF StartFault, TypeOK
<1> QED
  BY <1>1, HandlerTyped DEF StartFault, TypeOK

LEMMA NextCommandTyped ==
  ASSUME TypeOK, HandleNextCommand
  PROVE  TypeOK'
<1>0. \A type : Start(type) =>
        now' \in Time /\ next \in Nat \ {0} /\ program[next].type = type
  BY StartTyped
<1>1. CASE ConnectFails
  <2>1. now' \in Time /\ queue \in Seq(Event)
    BY <1>1 DEF ConnectFails, TypeOK
  <2>2. TaskTypeOK' /\ queue' \in Seq(Event) /\ nextStop' \in Nat \ {0}
    BY <1>1, <2>1, BeginFaultTyped DEF ConnectFails, TypeOK
  <2> QED
    BY <1>1, <2>1, <2>2, HandlerTyped DEF ConnectFails, TypeOK
<1>2. CASE ServoCommand \/ SetDo \/ ZeroDelay
  <2>1. now' \in Time /\ Pass
    BY <1>0, <1>2 DEF ServoCommand, SetDo, ZeroDelay
  <2>2. servoDisabled' \in BOOLEAN /\ state' \in RuntimeStates
    BY <1>2 DEF ServoCommand, SetDo, ZeroDelay, TypeOK, RuntimeStates
  <2> QED
    BY <2>1, <2>2, PassTyped
<1>3. CASE ServoCommandThrows \/ StartPastTimeRange
  <2>1. \E command \in ActiveCommands \cup {NoCommand} : StartFault("Fatal", command)
    BY <1>3 DEF ServoCommandThrows, StartPastTimeRange, TypeOK
  <2>2. now' \in Time /\ moving' \in BOOLEAN
    BY <1>0, <1>3 DEF ServoCommandThrows, StartPastTimeRange, TypeOK
  <2> QED
    BY <2>1, <2>2, StartFaultTyped
<1>4. CASE StartMotion
  <2>1. PICK a \in ActiveCommands : a = Activate(program[next]) /\ a.deadline \in Time
    BY <1>4, StartTyped DEF StartMotion
  <2>2. now' \in Time /\ now \in Time /\ queue \in Seq(Event)
    BY <1>0, <1>4 DEF StartMotion, TypeOK
  <2>3. PICK delay \in PollDelays \cup {0} :
          queue' = Schedule(Schedule(queue,
                     MotionPollEvent(Least(a.deadline, SaturatingAdd(now, delay)), a)),
                     TimeoutEvent(a))
    BY <1>4, <2>1 DEF StartMotion
  <2>4. Least(a.deadline, SaturatingAdd(now, delay)) \in Time
    BY <2>1, <2>2, TimeArithmetic, SessionAssumption
  <2>5. queue' \in Seq(Event)
    BY <2>1, <2>2, <2>3, <2>4, EventTypes, ScheduleTyped
  <2>6. Begin(a, "Running") /\ op' \in Operations /\ moving' \in BOOLEAN
    BY <1>4, <2>1 DEF StartMotion, Operations
  <2> QED
    BY <2>2, <2>5, <2>6, BeginTyped
<1>5. CASE StartMotionFails
  <2>1. Activate(program[next]) \in ActiveCommands /\ now' \in Time
    BY <1>5, StartTyped DEF StartMotionFails
  <2>2. moving' \in BOOLEAN
    BY <1>5 DEF StartMotionFails, TypeOK
  <2>3. PICK kind \in {"Recoverable", "Fatal"} : StartFault(kind, Activate(program[next]))
    BY <1>5 DEF StartMotionFails
  <2> QED
    BY <2>1, <2>2, <2>3, StartFaultTyped
<1>6. CASE StartDelay \/ StartWait
  <2>1. PICK a \in ActiveCommands : a = Activate(program[next]) /\ a.deadline \in Time
    BY <1>6, StartTyped DEF StartDelay, StartWait
  <2>2. now' \in Time /\ now \in Time /\ queue \in Seq(Event)
    BY <1>0, <1>6 DEF StartDelay, StartWait, TypeOK
  <2>3. queue' \in {Schedule(queue, DelayCompleteEvent(a)), Schedule(queue, TimeoutEvent(a))}
    BY <1>6, <2>1 DEF StartDelay, StartWait
  <2>4. queue' \in Seq(Event)
    BY <2>1, <2>2, <2>3, EventTypes, ScheduleTyped
  <2>5. Begin(a, "Waiting") /\ op' \in Operations /\ moving' \in BOOLEAN
    BY <1>6, <2>1 DEF StartDelay, StartWait, TypeOK
  <2> QED
    BY <2>2, <2>4, <2>5, BeginTyped
<1>7. CASE WaitAlreadySatisfied
  <2>1. now' \in Time /\ next' \in Nat \ {0}
    BY <1>0, <1>7 DEF WaitAlreadySatisfied
  <2>2. TaskTypeOK'
    BY <1>7 DEF WaitAlreadySatisfied, TypeOK, TaskTypeOK, Lifecycles, RuntimeStates, Operations, Alarms
  <2> QED
    BY <1>7, <2>1, <2>2, HandlerTyped DEF WaitAlreadySatisfied, TypeOK
<1>8. CASE StopCommand
  <2> DEFINE a == [index |-> next, type |-> "STOP", deadline |-> NoDeadline, remaining |-> 0,
                   gen |-> 1]
  <2>1. now' \in Time /\ next \in Nat \ {0} /\ queue \in Seq(Event)
    BY <1>0, <1>8 DEF StopCommand, TypeOK
  <2>2. a \in ActiveCommands
    BY <2>1 DEF ActiveCommands, CommandTypes
  <2>3. BeginStop(queue, "ProgramComplete", a, primary)
    BY <1>8 DEF StopCommand
  <2> HIDE DEF a
  <2>4. TaskTypeOK' /\ queue' \in Seq(Event) /\ nextStop' \in Nat \ {0}
    BY <2>1, <2>2, <2>3, BeginStopTyped DEF TypeOK, Dispositions, Alarms
  <2> QED
    BY <1>8, <2>1, <2>4, HandlerTyped DEF StopCommand, TypeOK
<1> QED
  BY <1>1, <1>2, <1>3, <1>4, <1>5, <1>6, <1>7, <1>8 DEF HandleNextCommand

-----------------------------------------------------------------------------
LEMMA TypeInit == Init => TypeOK
<1>1. 0 \in Time
  BY SessionAssumption DEF Time
<1> SUFFICES ASSUME Init PROVE TypeOK
  OBVIOUS
<1>2. TaskTypeOK
  BY DEF Init, TaskTypeOK, Lifecycles, RuntimeStates, Operations, Outcomes, Alarms
<1>3. program \in Seq(Command) /\ queue \in Seq(Event)
  BY EmptySeq DEF Init
<1>4. input \in [Inputs -> BOOLEAN]
  <2>1. InitialInput \in [Inputs -> BOOLEAN] /\ input = InitialInput
    BY SessionAssumption DEF Init
  <2> QED
    BY <2>1
<1>5. now \in Time
  BY <1>1 DEF Init
<1>6. next \in Nat \ {0} /\ nextStop \in Nat \ {0} /\ controls \in Nat /\ submissions \in Nat
  BY DEF Init
<1>7. moving \in BOOLEAN
  BY DEF Init
<1>8. RestTypeOK
  BY <1>3, <1>4, <1>5, <1>6, <1>7 DEF RestTypeOK
<1> QED
  BY <1>2, <1>8, TypeSplit

LEMMA TypeStep == TypeOK /\ [Next]_vars => TypeOK'
<1> SUFFICES ASSUME TypeOK, [Next]_vars PROVE TypeOK'
  OBVIOUS
<1>1. CASE UNCHANGED vars
  BY <1>1 DEF vars, TypeOK
<1>2. CASE \E p \in Programs : SubmitProgram(p)
  BY <1>2, HostTyped
<1>3. CASE \E c \in ControlsUsed : SubmitControl(c)
  BY <1>3, HostTyped
<1>4. CASE HostAdvancesClock
  BY <1>4, HostTyped
<1>5. CASE HandleEvent
  BY <1>5, ControlTyped, CommandEventTyped, StopEventTyped, OutsideEventTyped DEF HandleEvent
<1>6. CASE HandleNextCommand
  BY <1>6, NextCommandTyped
<1> QED
  BY <1>1, <1>2, <1>3, <1>4, <1>5, <1>6 DEF Next, Advance

(***************************************************************************)
(* The type invariant holds of every session, whatever is submitted to it  *)
(* and whatever its device answers: every time the runtime computes lies   *)
(* within BusinessTime and every event names a command or an episode that  *)
(* existed (runtime.cpp, all handlers).                                    *)
(***************************************************************************)
THEOREM TypeCorrect == Spec => []TypeOK
<1>1. Init => TypeOK
  BY TypeInit
<1>2. TypeOK /\ [Next]_vars => TypeOK'
  BY TypeStep
<1> QED
  BY <1>1, <1>2, PTL DEF Spec
=============================================================================
