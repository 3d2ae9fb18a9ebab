--------------------------- MODULE WorkcellProofs ---------------------------
(***************************************************************************)
(* What holds of a Runtime Session with a workcell, for every value of the *)
(* constants: the workcell is asked for its safe state whenever the robot  *)
(* is stopped for an alarm, an emergency stop counts as reached only with  *)
(* that state confirmed, a command that waits for the workcell is polled   *)
(* until its deadline and passed only on new evidence.                     *)
(***************************************************************************)
EXTENDS WorkcellProperties, SessionSafetyProofs

-----------------------------------------------------------------------------
(***************************************************************************)
(* A step of the session with a workcell is one of the session without, or *)
(* one of those that only a workcell brings about.  The invariants of      *)
(* RuntimeSession hold for the first kind; they are shown here for the     *)
(* second.                                                                 *)
(***************************************************************************)
RefusedSafeState ==
  \/ /\ StopConfirmed("Fault") /\ SafeStatePolled(TRUE)
     /\ FinishFault(connected, servoDisabled, TRUE, primary)
     /\ UNCHANGED next
  \/ /\ StopConfirmed("Emergency") /\ SafeStatePolled(TRUE)
     /\ \/ FinishFault(connected, TRUE, TRUE, Raise(primary, "Fatal"))
        \/ /\ TriesServo(connected, servoDisabled)
           /\ FinishFault(connected, servoDisabled, TRUE, Raise(primary, "Fatal"))
     /\ UNCHANGED next

OutputPastTimeRange ==
  /\ Start("SET_DO") /\ ~InRange(now, program[next].timeout)
  /\ StartFault("Fatal", active) /\ UNCHANGED moving

ControlByWorkcell ==
  \/ PauseRefused \/ WorkcellResetRejected
  \/ EstopRefused \/ ResumeWait
  \/ WorkcellReset(Snapshots) \/ ResetDisconnectFails(Snapshots)

PollByWorkcell ==
  \/ SnapshotAlarms(Snapshots) \/ MotionFailsUnderAlarm(Snapshots)
  \/ SnapshotSatisfies(Snapshots) \/ ToolFails(Snapshots) \/ StillWaiting(Snapshots)
  \/ MotionStillRunning(Snapshots) \/ MotionDone(Snapshots) \/ MotionFailed(Snapshots)

CommandByWorkcell ==
  \/ OutputPastTimeRange \/ DeviceCommandRejected
  \/ StartOutput(AnyDelay) \/ StartTool(AnyDelay) \/ StartInputWait

StepByWorkcell ==
  ControlByWorkcell \/ PollByWorkcell \/ RefusedSafeState \/ CommandByWorkcell

LEMMA WorkcellKinds == WorkcellAdvance => HandleEvent \/ HandleNextCommand \/ StepByWorkcell
<1>1. WorkcellControl => HandleControl \/ ControlByWorkcell
  BY Zenon DEF WorkcellControl, ControlByWorkcell, HandleControl, EstopAccepted
<1>2. StalePoll => StaleMotionPoll
  BY DEF StalePoll, StaleMotionPoll, OwnPoll, PollIsCurrent
<1>3. MotionPollThrows => MotionFails
  BY DEF MotionPollThrows, MotionFails, TakePoll, OwnPoll, PollIsCurrent, Motion
<1>4. WorkcellEvent => HandleEvent \/ ControlByWorkcell \/ PollByWorkcell \/ RefusedSafeState
  BY <1>1, <1>2, <1>3, Zenon
     DEF WorkcellEvent, HandleEvent, PollByWorkcell, RefusedSafeState, FaultMadeSafe,
         EmergencyMadeSafe
<1>5. WorkcellNextCommand => HandleNextCommand \/ CommandByWorkcell
  BY Zenon DEF WorkcellNextCommand, HandleNextCommand, CommandByWorkcell, CommandPastTimeRange,
     OutputPastTimeRange, InputAlreadyThere
<1> QED
  BY <1>4, <1>5, Zenon DEF WorkcellAdvance, StepByWorkcell

LEMMA WorkcellSteps == WorkcellNext => Next \/ StepByWorkcell
<1>1. \A p : WorkcellSubmit(p) => SubmitProgram(p)
  BY DEF WorkcellSubmit
<1> QED
  BY <1>1, WorkcellKinds, Zenon DEF WorkcellNext, Next, Advance

\* What such a step takes from the queue, and what it leaves there.
LEMMA TakenPoll ==
  ASSUME TypeOK, Take("MotionPoll") \/ Take("Control")
  PROVE  /\ queue # <<>> /\ queue \in Seq(Event) /\ Tail(queue) \in Seq(Event)
         /\ now \in Time /\ now' \in Time /\ now' \in Nat
         /\ ~PollOf(Head(queue), stop) /\ Head(queue) # StopTimeoutEvent(stop)
         /\ Head(queue) # EndEvent(active)
BY TakeTyped, OtherEvent, OtherThanEnd, SessionAssumption DEF Take, TypeOK, Time

LEMMA PollTimes ==
  ASSUME NEW t \in Time, NEW limit \in Time, NEW delay \in Nat
  PROVE  /\ Least(limit, SaturatingAdd(t, delay)) \in Time
         /\ Least(limit, SaturatingAdd(t, delay)) <= limit
<1>1. SaturatingAdd(t, delay) \in Time
  BY TimeArithmetic
<1> QED
  BY <1>1, SessionAssumption DEF Least, Time

LEMMA AnyDelays == /\ AnyDelay \subseteq Nat /\ PollDelays \subseteq Nat /\ DefaultPoll \in Nat
                   /\ \A delay \in Nat : Greatest(1, delay) \in Nat
BY SessionAssumption, WorkcellAssumption DEF AnyDelay, Greatest

LEMMA FreshTyped ==
  ASSUME NEW s \in Snapshots, s.valid
  PROVE  s.input \in [Inputs -> BOOLEAN] /\ s.generation \in Nat
<1>1. CASE s \in [valid : {TRUE}, generation : Generations, input : [Inputs -> BOOLEAN],
                  collision : BOOLEAN, tool : {"unsettled", "failed", "done"}]
  BY <1>1, WorkcellAssumption DEF Generations, Unbounded
<1>2. s # [valid |-> FALSE]
  OBVIOUS
<1> QED
  BY <1>1, <1>2 DEF Snapshots

\* The snapshots give the inputs values of their type.
LEMMA KeepTyped ==
  ASSUME TypeOK, NEW s \in Snapshots, Keep(s)
  PROVE  input' \in [Inputs -> BOOLEAN]
<1>1. CASE s.valid
  <2>1. s.input \in [Inputs -> BOOLEAN]
    BY <1>1, FreshTyped
  <2> QED
    BY <2>1 DEF Keep, TypeOK
<1>2. CASE ~s.valid
  BY <1>2 DEF Keep, Fresh, TypeOK
<1> QED
  BY <1>1, <1>2

\* A handler that also reads the inputs.
LEMMA ReadingTyped ==
  ASSUME TypeOK, TaskTypeOK', now' \in Time, queue' \in Seq(Event), nextStop' \in Nat \ {0},
         next' \in Nat \ {0}, moving' \in BOOLEAN, input' \in [Inputs -> BOOLEAN], Frame
  PROVE  TypeOK'
<1>1. RestTypeOK'
  BY DEF RestTypeOK, TypeOK, Frame, boundVars
<1> QED
  BY <1>1, TypeSplitNext

-----------------------------------------------------------------------------
(***************************************************************************)
(* The polls of the workcell, by how they end.                             *)
(***************************************************************************)
PollFaults ==
  /\ TakePoll
  /\ \E kind \in {"Recoverable", "Fatal"} : BeginFault(Tail(queue), connected, kind, active)
  /\ UNCHANGED <<next, moving>> /\ Frame

PollFaultsTwice ==
  /\ TakePoll
  /\ queue' \in Seq(Event) /\ nextStop' = nextStop + 1
  /\ FinishFault(connected, servoDisabled, untrusted, Raise(primary, "Fatal"))
  /\ UNCHANGED <<next, moving>> /\ Frame

PollSucceeds ==
  /\ TakePoll
  /\ Succeed(Tail(queue))
  /\ moving' \in {FALSE, moving}
  /\ Frame

PollGoesOn ==
  /\ TakePoll
  /\ \E delay \in Nat : PollAgain(delay)
  /\ UNCHANGED <<taskVars, next, nextStop, moving>> /\ Frame

LEMMA PollEnds ==
  ASSUME TypeOK, PollByWorkcell
  PROVE  /\ PollFaults \/ PollFaultsTwice \/ PollSucceeds \/ PollGoesOn
         /\ input' \in [Inputs -> BOOLEAN]
<1>1. input' \in [Inputs -> BOOLEAN]
  BY KeepTyped
     DEF PollByWorkcell, SnapshotAlarms, MotionFailsUnderAlarm, SnapshotSatisfies, ToolFails,
         StillWaiting, MotionStillRunning, MotionDone, MotionFailed, QuietSnapshot
<1>2. CASE SnapshotAlarms(Snapshots) \/ ToolFails(Snapshots) \/ MotionFailed(Snapshots)
  BY <1>1, <1>2 DEF SnapshotAlarms, ToolFails, MotionFailed, PollFaults
<1>3. CASE SnapshotSatisfies(Snapshots) \/ MotionDone(Snapshots)
  BY <1>1, <1>3 DEF SnapshotSatisfies, MotionDone, PollSucceeds
<1>4. CASE StillWaiting(Snapshots) \/ MotionStillRunning(Snapshots)
  BY <1>1, <1>4, AnyDelays DEF StillWaiting, MotionStillRunning, PollGoesOn
<1>5. CASE MotionFailsUnderAlarm(Snapshots)
  <2>1. Tail(queue) \in Seq(Event) /\ now' \in Time
    BY <1>5, TakenPoll DEF MotionFailsUnderAlarm, TakePoll
  <2>2. PICK delay \in PollDelays \cup {0} :
          LET episode == [id |-> nextStop, disp |-> "Fault",
                          deadline |-> SaturatingAdd(now', StopTimeout)]
              poll == Least(episode.deadline, SaturatingAdd(now', delay))
          IN queue' = Schedule(Schedule(Tail(queue), StopPollEvent(poll, episode)),
                               StopTimeoutEvent(episode))
    BY <1>5 DEF MotionFailsUnderAlarm
  <2> DEFINE limit == SaturatingAdd(now', StopTimeout)
             episode == [id |-> nextStop, disp |-> "Fault", deadline |-> limit]
             poll == Least(limit, SaturatingAdd(now', delay))
  <2>3. limit \in Time /\ delay \in Nat
    BY <2>1, TimeArithmetic, SessionAssumption
  <2>4. poll \in Time
    BY <2>1, <2>3, PollTimes
  <2>5. episode \in StopEpisodes
    BY <2>3 DEF StopEpisodes, Dispositions, TypeOK
  <2>6. queue' = Schedule(Schedule(Tail(queue), StopPollEvent(poll, episode)),
                          StopTimeoutEvent(episode))
    BY <2>2
  <2> HIDE DEF limit, episode, poll
  <2>7. queue' \in Seq(Event)
    BY <2>1, <2>4, <2>5, <2>6, EventTypes, ScheduleTyped
  <2> QED
    BY <1>1, <1>5, <2>7 DEF MotionFailsUnderAlarm, PollFaultsTwice
<1> QED
  BY <1>2, <1>3, <1>4, <1>5 DEF PollByWorkcell

\* An own poll meets a command that runs, so no stop episode.
LEMMA OwnPollRuns ==
  ASSUME EpisodeInv, TakePoll
  PROVE  /\ HasActive /\ active \in ActiveCommands /\ lifecycle = "Running" /\ ~StopPending
         /\ Take("MotionPoll")
BY PendingWatched DEF TakePoll, OwnPoll, EpisodeInv, TypeOK, HasActive, StopLifecycles

\* The poll that follows, when the deadline leaves time for one.
LEMMA NextPoll ==
  ASSUME EpisodeInv, CommandInv, PollGoesOn
  PROVE  \/ now' >= active.deadline /\ queue' = Tail(queue)
         \/ \E t \in Time : /\ t <= active.deadline
                            /\ queue' = Schedule(Tail(queue), MotionPollEvent(t, active))
                            /\ MotionPollEvent(t, active) \in Event
<1>1. /\ active \in ActiveCommands /\ active.deadline \in Time
      /\ now' \in Time /\ now' \in Nat /\ active.deadline \in Nat
  BY OwnPollRuns, TakenPoll, SessionAssumption
     DEF PollGoesOn, CommandInv, Working, Time, EpisodeInv
<1>2. PICK delay \in Nat : PollAgain(delay)
  BY DEF PollGoesOn
<1>3. CASE now' < active.deadline
  <2> DEFINE t == Least(active.deadline, SaturatingAdd(now', Greatest(1, delay)))
  <2>1. t \in Time /\ t <= active.deadline
    BY <1>1, PollTimes, AnyDelays
  <2>2. queue' = Schedule(Tail(queue), MotionPollEvent(t, active))
    BY <1>2, <1>3 DEF PollAgain
  <2>3. MotionPollEvent(t, active) \in Event
    BY <1>1, <2>1, EventTypes
  <2> QED
    BY <2>1, <2>2, <2>3
<1>4. CASE ~(now' < active.deadline)
  BY <1>1, <1>2, <1>4 DEF PollAgain
<1> QED
  BY <1>3, <1>4

-----------------------------------------------------------------------------
(***************************************************************************)
(* The controls of the workcell.                                           *)
(***************************************************************************)
\* How a refused safe state leaves the episode of an emergency stop.
EpisodeGoesOn ==
  /\ StopPending
  /\ stop' = [stop EXCEPT !.disp = "Emergency"]
  /\ queue' = Tail(queue) /\ nextStop' = nextStop

EpisodeStarts ==
  /\ ~StopPending
  /\ \E delay \in PollDelays \cup {0} :
       LET episode == [id |-> nextStop, disp |-> "Emergency",
                       deadline |-> SaturatingAdd(now', StopTimeout)]
           poll == Least(episode.deadline, SaturatingAdd(now', delay))
       IN /\ stop' = episode
          /\ queue' = Schedule(Schedule(Tail(queue), StopPollEvent(poll, episode)),
                               StopTimeoutEvent(episode))
  /\ nextStop' = nextStop + 1

EpisodeFails ==
  /\ queue' = Tail(queue) /\ nextStop' = nextStop
  /\ FailStop(TRUE, Raise(primary, "Fatal"))

LEMMA EstopRefusedEnds ==
  ASSUME EstopRefused
  PROVE  /\ TakeControl("ESTOP") /\ connected /\ UNCHANGED <<next, input, moving>> /\ Frame
         /\ safeRequested'
         /\ \/ /\ EpisodeGoesOn \/ EpisodeStarts
               /\ lifecycle' = "EmergencyStopping" /\ op' = "Stopping"
               /\ untrusted' = TRUE /\ SetPrimary(Raise(primary, "Fatal"))
               /\ UNCHANGED <<state, active, connected, servoDisabled, terminal, outcome>>
            \/ EpisodeFails
<1>1. /\ TakeControl("ESTOP") /\ connected /\ UNCHANGED <<next, input, moving>> /\ Frame
      /\ safeRequested'
  BY DEF EstopRefused, Faulting, AskSafeState
<1>2. CASE ~StopPending /\ queue' = Tail(queue) /\ UNCHANGED nextStop
           /\ FailStop(TRUE, Raise(primary, "Fatal"))
  BY <1>1, <1>2 DEF EpisodeFails
<1>3. CASE ~(~StopPending /\ queue' = Tail(queue) /\ UNCHANGED nextStop
             /\ FailStop(TRUE, Raise(primary, "Fatal")))
  <2>1. /\ lifecycle' = "EmergencyStopping" /\ op' = "Stopping"
        /\ untrusted' = TRUE /\ SetPrimary(Raise(primary, "Fatal"))
        /\ UNCHANGED <<state, active, connected, servoDisabled, terminal, outcome>>
    BY <1>3 DEF EstopRefused
  <2>4. /\ stop' = IF StopPending THEN [stop EXCEPT !.disp = "Emergency"]
                   ELSE [id |-> nextStop, disp |-> "Emergency",
                         deadline |-> SaturatingAdd(now', StopTimeout)]
        /\ nextStop' = IF StopPending THEN nextStop ELSE nextStop + 1
        /\ \E delay \in PollDelays \cup {0} :
             LET poll == Least(stop'.deadline, SaturatingAdd(now', delay))
             IN queue' = IF StopPending THEN Tail(queue)
                         ELSE Schedule(Schedule(Tail(queue), StopPollEvent(poll, stop')),
                                       StopTimeoutEvent(stop'))
    BY <1>3, Zenon DEF EstopRefused
  <2>2. CASE StopPending
    <3>1. queue' = Tail(queue)
      BY <2>2, <2>4
    <3>2. stop' = [stop EXCEPT !.disp = "Emergency"] /\ nextStop' = nextStop
      BY <2>2, <2>4
    <3> QED
      BY <1>1, <2>1, <2>2, <3>1, <3>2, Zenon DEF EpisodeGoesOn
  <2>3. CASE ~StopPending
    <3>1. /\ stop' = [id |-> nextStop, disp |-> "Emergency",
                      deadline |-> SaturatingAdd(now', StopTimeout)]
          /\ nextStop' = nextStop + 1
      BY <2>3, <2>4
    <3>2. PICK delay \in PollDelays \cup {0} :
            LET poll == Least(stop'.deadline, SaturatingAdd(now', delay))
            IN queue' = Schedule(Schedule(Tail(queue), StopPollEvent(poll, stop')),
                                 StopTimeoutEvent(stop'))
      BY <2>3, <2>4
    <3> DEFINE episode == [id |-> nextStop, disp |-> "Emergency",
                           deadline |-> SaturatingAdd(now', StopTimeout)]
               poll == Least(episode.deadline, SaturatingAdd(now', delay))
    <3>3. /\ stop' = episode
          /\ queue' = Schedule(Schedule(Tail(queue), StopPollEvent(poll, episode)),
                               StopTimeoutEvent(episode))
      BY <3>1, <3>2, Zenon
    <3>4. EpisodeStarts
      BY <2>3, <3>1, <3>2, <3>3, Zenon DEF EpisodeStarts
    <3> QED
      BY <1>1, <2>1, <3>4
  <2> QED
    BY <1>1, <2>1, <2>2, <2>3
<1> QED
  BY <1>2, <1>3

LEMMA EstopRefusedWatched ==
  ASSUME EpisodeInv, EstopRefused
  PROVE  /\ TypeOK' /\ StopEpisodeWatched' /\ PauseHasCommand'
         /\ lifecycle' \in {"EmergencyStopping", "Faulted"}
         /\ stop'.disp \in {"Emergency", "None"}
         /\ stop' # NoStop => stop'.disp = "Emergency"
<1>0. /\ TypeOK /\ Take("Control") /\ queue # <<>> /\ Tail(queue) \in Seq(Event)
      /\ now' \in Time /\ (StopPending => Watched(Tail(queue), stop))
  BY EstopRefusedEnds, TakenPoll, TakenWatched DEF EpisodeInv, TakeControl
<1>p. Raise(primary, "Fatal") \in Alarms
  BY <1>0 DEF Raise, Alarms, TypeOK
<1>l. StopLifecycle("Emergency") = "EmergencyStopping" /\ NoStop.disp = "None"
  BY Zenon DEF StopLifecycle, NoStop
<1>1. CASE EpisodeFails
  <2>1. TaskTypeOK' /\ lifecycle' = "Faulted" /\ stop' = NoStop
    BY <1>0, <1>1, <1>p, FailStopTyped DEF EpisodeFails, FailStop, FinishFault
  <2>2. TypeOK'
    BY <1>0, <1>1, <2>1, EstopRefusedEnds, HandlerTyped DEF EpisodeFails, TypeOK
  <2> QED
    BY <1>l, <2>1, <2>2, EndedWatched DEF StopLifecycles
<1>2. ASSUME EpisodeGoesOn \/ EpisodeStarts, lifecycle' = "EmergencyStopping", op' = "Stopping",
             untrusted' = TRUE, SetPrimary(Raise(primary, "Fatal")),
             UNCHANGED <<state, active, connected, servoDisabled, terminal, outcome>>
      PROVE  /\ TypeOK' /\ StopEpisodeWatched' /\ PauseHasCommand'
             /\ stop'.disp = "Emergency"
  <2>1. /\ StopEpisodeWatched' /\ PauseHasCommand' /\ stop' \in StopEpisodes
        /\ queue' \in Seq(Event) /\ nextStop' \in Nat \ {0} /\ stop'.disp = "Emergency"
    <3>1. CASE EpisodeGoesOn
      <4>1. stop \in StopEpisodes
        BY <1>0, <3>1 DEF EpisodeGoesOn, TypeOK, StopPending
      <4>2. /\ stop'.id = stop.id /\ stop'.deadline = stop.deadline /\ stop'.disp = "Emergency"
            /\ stop' \in StopEpisodes /\ stop' # NoStop
        BY <3>1, <4>1 DEF EpisodeGoesOn, StopEpisodes, NoStop, Dispositions
      <4>3. Watched(queue', stop')
        BY <1>0, <3>1, <4>2 DEF EpisodeGoesOn, Watched, PollOf, StopTimeoutEvent
      <4>4. EpisodeOK(lifecycle', stop', queue')
        BY <1>2, <1>l, <4>2, <4>3 DEF EpisodeOK, StopLifecycles
      <4> QED
        BY <1>0, <3>1, <4>2, <4>4, EpisodeForm DEF EpisodeGoesOn, PauseHasCommand, TypeOK
    <3>2. CASE EpisodeStarts
      <4>1. PICK delay \in PollDelays \cup {0} :
              LET episode == [id |-> nextStop, disp |-> "Emergency",
                              deadline |-> SaturatingAdd(now', StopTimeout)]
                  poll == Least(episode.deadline, SaturatingAdd(now', delay))
              IN /\ stop' = episode
                 /\ queue' = Schedule(Schedule(Tail(queue), StopPollEvent(poll, episode)),
                                      StopTimeoutEvent(episode))
        BY <3>2 DEF EpisodeStarts
      <4>2. lifecycle' = StopLifecycle("Emergency") /\ "Emergency" \in Dispositions
        BY <1>2, <1>l DEF Dispositions
      <4>3. /\ StopEpisodeWatched' /\ PauseHasCommand' /\ stop' \in StopEpisodes
            /\ queue' \in Seq(Event) /\ stop'.disp = "Emergency"
        BY <1>0, <4>1, <4>2, EpisodeBegins
      <4> QED
        BY <1>0, <3>2, <4>3 DEF EpisodeStarts, TypeOK
    <3> QED
      BY <1>2, <3>1, <3>2
  <2>2. primary' \in Alarms /\ alarmed' \in BOOLEAN
    BY <1>0, <1>2, <1>p DEF SetPrimary, TypeOK
  <2>3. TaskTypeOK'
    BY <1>0, <1>2, <2>1, <2>2 DEF TaskTypeOK, TypeOK, Lifecycles, Operations
  <2> QED
    BY <1>0, <2>1, <2>3, EstopRefusedEnds, HandlerTyped DEF TypeOK
<1> QED
  BY <1>1, <1>2, EstopRefusedEnds

\* A resumed wait has its deadline in the queue again, and a poll before it.
LEMMA ResumeWaitEnds ==
  ASSUME TypeOK, ResumeWait
  PROVE  /\ HasActive /\ active.type = Resumed.type /\ active' = Resumed
         /\ Resumed \in ActiveCommands /\ Resumed.deadline \in Time
         /\ queue' \in Seq(Event) /\ Ends(queue', Resumed)
         /\ active.type # "DELAY" =>
              \E t \in Time : /\ t <= Resumed.deadline
                              /\ MotionPollEvent(t, Resumed) \in Event
                              /\ \E n \in DOMAIN queue' : queue'[n] = MotionPollEvent(t, Resumed)
<1>1. HasActive /\ active \in ActiveCommands
  BY DEF ResumeWait, HasActive, NoCommand, LocalWait, TypeOK
<1>2. /\ Tail(queue) \in Seq(Event) /\ now' \in Time
      /\ Resumed \in ActiveCommands /\ Resumed.deadline \in Time
  BY <1>1, PausedTyped, TakenPoll DEF ResumeWait, TakeControl
<1>3. active.type = Resumed.type
  BY <1>1 DEF Resumed, ActiveCommands
<1>4. CASE active.type = "DELAY"
  <2>1. queue' = Schedule(Tail(queue), EndEvent(Resumed))
    BY <1>3, <1>4 DEF ResumeWait, EndEvent
  <2>2. queue' \in Seq(Event) /\ Ends(queue', Resumed)
    BY <1>2, <2>1, EndEventTyped, ScheduleTyped, EndsSchedule
  <2> QED
    BY <1>1, <1>2, <1>3, <1>4, <2>2 DEF ResumeWait
<1>5. CASE active.type # "DELAY"
  <2> DEFINE t == Least(Resumed.deadline, SaturatingAdd(now', DefaultPoll))
             first == Schedule(Tail(queue), EndEvent(Resumed))
  <2>1. t \in Time /\ t <= Resumed.deadline
    BY <1>2, PollTimes, AnyDelays
  <2>2. queue' = Schedule(first, MotionPollEvent(t, Resumed))
    BY <1>3, <1>5 DEF ResumeWait, EndEvent
  <2> HIDE DEF t
  <2>3. MotionPollEvent(t, Resumed) \in Event
    BY <1>2, <2>1, EventTypes
  <2>4. first \in Seq(Event) /\ Ends(first, Resumed)
    BY <1>2, EndEventTyped, ScheduleTyped, EndsSchedule
  <2> HIDE DEF first
  <2>5. queue' \in Seq(Event) /\ Ends(queue', Resumed)
    BY <2>2, <2>3, <2>4, ScheduleTyped, EndsSchedule
  <2>6. \E n \in DOMAIN queue' : queue'[n] = MotionPollEvent(t, Resumed)
    BY <2>2, <2>3, <2>4, ScheduleKeeps
  <2> QED
    BY <1>1, <1>2, <1>3, <2>1, <2>3, <2>5, <2>6 DEF ResumeWait
<1> QED
  BY <1>4, <1>5

-----------------------------------------------------------------------------
(***************************************************************************)
(* The commands that only a workcell carries out.                          *)
(***************************************************************************)
\* q holds a poll of the command a, due by its deadline.
PolledFor(q, a) ==
  \E n \in DOMAIN q :
    q[n].type = "MotionPoll" /\ q[n].gen = a.gen /\ q[n].time <= a.deadline

LEMMA PolledSchedule ==
  ASSUME NEW q \in Seq(Event), NEW e \in Event, NEW a
  PROVE  /\ PolledFor(q, a) => PolledFor(Schedule(q, e), a)
         /\ e.type = "MotionPoll" /\ e.gen = a.gen /\ e.time <= a.deadline =>
              PolledFor(Schedule(q, e), a)
BY ScheduleKeeps DEF PolledFor

LEMMA PolledFacts ==
  ASSUME NEW a \in ActiveCommands, NEW t \in Time, t <= a.deadline
  PROVE  LET e == MotionPollEvent(t, a)
         IN e \in Event /\ e.type = "MotionPoll" /\ e.gen = a.gen /\ e.time <= a.deadline
BY EventTypes DEF MotionPollEvent

\* A command that the workcell carries out is under way.
DeviceBegins(a) ==
  /\ Begin(a, "Running") /\ op' \in Operations /\ UNCHANGED moving
  /\ a \in ActiveCommands /\ a.deadline \in Time /\ a.type \in {"SET_DO", "SET_TOOL", "WAIT_DI"}
  /\ queue' \in Seq(Event) /\ Ends(queue', a) /\ PolledFor(queue', a)
  /\ now' = now /\ now' \in Time /\ CallsNextCommand

LEMMA DeviceCommands ==
  ASSUME TypeOK, StartOutput(AnyDelay) \/ StartTool(AnyDelay) \/ StartInputWait
  PROVE  \E a : DeviceBegins(a)
<1> DEFINE a == Activate(program[next])
<1>1. PICK type \in {"SET_DO", "SET_TOOL", "WAIT_DI"} :
        Start(type) /\ InRange(now, program[next].timeout)
  BY DEF StartOutput, StartTool, StartInputWait, DeviceCommandAccepted
<1>2. /\ a \in ActiveCommands /\ a.deadline \in Time /\ a.type = type
      /\ now \in Time /\ now' = now /\ now' \in Time /\ CallsNextCommand /\ queue \in Seq(Event)
  BY <1>1, StartTyped DEF Activate, Start, StartsCommand, TypeOK
<1>3. Begin(a, "Running") /\ op' \in Operations /\ UNCHANGED moving
  BY DEF StartOutput, StartTool, StartInputWait, DeviceCommandAccepted, TypeOK, Operations
<1>4. PICK delay \in AnyDelay :
        \/ queue' = Schedule(Schedule(queue, PollFirst(a, delay)), TimeoutEvent(a))
        \/ queue' = Schedule(Schedule(queue, TimeoutEvent(a)), PollFirst(a, delay))
  BY DEF StartOutput, StartTool, StartInputWait, DeviceCommandAccepted, AnyDelay
<1> HIDE DEF a
<1> DEFINE poll == PollFirst(a, delay)
<1>5. TimeoutEvent(a) \in Event /\ TimeoutEvent(a) = EndEvent(a)
  BY <1>1, <1>2, EventTypes DEF EndEvent
<1>6. poll \in Event /\ poll.type = "MotionPoll" /\ poll.gen = a.gen /\ poll.time <= a.deadline
  <2>1. delay \in Nat
    BY AnyDelays
  <2>2. /\ Least(a.deadline, SaturatingAdd(now, delay)) \in Time
        /\ Least(a.deadline, SaturatingAdd(now, delay)) <= a.deadline
    BY <1>2, <2>1, PollTimes
  <2> QED
    BY <1>2, <2>2, PolledFacts DEF PollFirst
<1> HIDE DEF poll
<1>7. queue' \in Seq(Event) /\ Ends(queue', a) /\ PolledFor(queue', a)
  <2>1. CASE queue' = Schedule(Schedule(queue, poll), TimeoutEvent(a))
    <3> DEFINE first == Schedule(queue, poll)
    <3>1. first \in Seq(Event) /\ PolledFor(first, a)
      BY <1>2, <1>6, ScheduleTyped, PolledSchedule
    <3>2. queue' = Schedule(first, TimeoutEvent(a))
      BY <2>1
    <3> HIDE DEF first
    <3> QED
      BY <1>5, <3>1, <3>2, ScheduleTyped, PolledSchedule, EndsSchedule
  <2>2. CASE queue' = Schedule(Schedule(queue, TimeoutEvent(a)), poll)
    <3> DEFINE first == Schedule(queue, TimeoutEvent(a))
    <3>1. first \in Seq(Event) /\ Ends(first, a)
      BY <1>2, <1>5, ScheduleTyped, EndsSchedule
    <3>2. queue' = Schedule(first, poll)
      BY <2>2
    <3> HIDE DEF first
    <3> QED
      BY <1>6, <3>1, <3>2, ScheduleTyped, PolledSchedule, EndsSchedule
  <2> QED
    BY <1>4, <2>1, <2>2 DEF poll
<1>8. DeviceBegins(a)
  BY <1>1, <1>2, <1>3, <1>7 DEF DeviceBegins
<1> QED
  BY <1>8

\* A command that the workcell refuses, or that cannot be timed.
LEMMA DeviceFaults ==
  ASSUME TypeOK, OutputPastTimeRange \/ DeviceCommandRejected
  PROVE  \E kind \in {"Recoverable", "Fatal"}, command \in ActiveCommands \cup {NoCommand} :
           StartFault(kind, command) /\ UNCHANGED moving /\ now' \in Time /\ CallsNextCommand
<1>1. CASE OutputPastTimeRange
  <2>1. now' \in Time /\ CallsNextCommand
    BY <1>1, StartTyped DEF OutputPastTimeRange, Start, StartsCommand
  <2> QED
    BY <1>1, <2>1 DEF OutputPastTimeRange, TypeOK
<1>2. CASE DeviceCommandRejected
  <2>1. /\ now' \in Time /\ CallsNextCommand
        /\ Activate(program[next]) \in ActiveCommands
    BY <1>2, StartTyped DEF DeviceCommandRejected, Start, StartsCommand
  <2> QED
    BY <1>2, <2>1 DEF DeviceCommandRejected, TypeOK
<1> QED
  BY <1>1, <1>2

\* A stop that is confirmed while the workcell does not confirm its safe state ends in a fault.
LEMMA RefusedEnds ==
  ASSUME TypeOK, RefusedSafeState
  PROVE  /\ \E disp \in {"Fault", "Emergency"} : StopConfirmed(disp)
         /\ StopPending /\ UNCHANGED next
         /\ \E disabled \in BOOLEAN, prim \in Alarms :
              /\ FinishFault(connected, disabled, TRUE, prim)
              /\ stop.disp # "Fault" \/ primary # "None" => prim # "None"
<1>1. Raise(primary, "Fatal") \in Alarms /\ Raise(primary, "Fatal") # "None" /\ primary \in Alarms
  BY RaiseAlarm DEF Raise, Alarms, TypeOK
<1>2. CASE StopConfirmed("Fault") /\ FinishFault(connected, servoDisabled, TRUE, primary)
           /\ UNCHANGED next
  BY <1>1, <1>2 DEF TypeOK, StopConfirmed, OwnEpisode
<1>3. CASE /\ StopConfirmed("Emergency") /\ UNCHANGED next
           /\ \/ FinishFault(connected, TRUE, TRUE, Raise(primary, "Fatal"))
              \/ FinishFault(connected, servoDisabled, TRUE, Raise(primary, "Fatal"))
  BY <1>1, <1>3 DEF TypeOK, StopConfirmed, OwnEpisode
<1> QED
  BY <1>2, <1>3 DEF RefusedSafeState

-----------------------------------------------------------------------------
(***************************************************************************)
(* The invariants of a session hold with a workcell, too.                  *)
(***************************************************************************)
LEMMA PollEpisode ==
  ASSUME EpisodeInv, CommandInv, PollByWorkcell
  PROVE  EpisodeInv'
<1>0. /\ TypeOK /\ TakePoll /\ HasActive /\ lifecycle = "Running" /\ ~StopPending
      /\ Take("MotionPoll") /\ Tail(queue) \in Seq(Event) /\ now' \in Time
      /\ input' \in [Inputs -> BOOLEAN] /\ next \in Nat \ {0} /\ nextStop \in Nat \ {0}
      /\ moving \in BOOLEAN /\ connected \in BOOLEAN /\ active \in ActiveCommands \cup {NoCommand}
  <2>1. TypeOK /\ TakePoll
    BY PollEnds DEF EpisodeInv, PollFaults, PollFaultsTwice, PollSucceeds, PollGoesOn
  <2> QED
    BY <2>1, OwnPollRuns, PollEnds, TakenPoll DEF TypeOK
<1>1. CASE PollFaults
  <2>1. PICK kind \in {"Recoverable", "Fatal"} : BeginFault(Tail(queue), connected, kind, active)
    BY <1>1 DEF PollFaults
  <2>2. /\ TaskTypeOK' /\ queue' \in Seq(Event) /\ nextStop' \in Nat \ {0}
        /\ StopEpisodeWatched' /\ PauseHasCommand'
    BY <1>0, <2>1, BeginFaultTyped, BeginFaultWatched
  <2> QED
    BY <1>0, <1>1, <2>2, ReadingTyped DEF PollFaults, EpisodeInv
<1>2. CASE PollFaultsTwice
  <2>1. Raise(primary, "Fatal") \in Alarms
    BY <1>0 DEF Raise, Alarms, TypeOK
  <2>2. TaskTypeOK' /\ StopEpisodeWatched' /\ PauseHasCommand'
    BY <1>0, <1>2, <2>1, FinishFaultTyped, FinishWatched DEF PollFaultsTwice, TypeOK
  <2> QED
    BY <1>0, <1>2, <2>2, ReadingTyped DEF PollFaultsTwice, EpisodeInv
<1>3. CASE PollSucceeds
  <2>1. /\ TaskTypeOK' /\ queue' \in Seq(Event) /\ next' \in Nat \ {0} /\ nextStop' \in Nat \ {0}
        /\ StopEpisodeWatched' /\ PauseHasCommand'
    BY <1>0, <1>3, SucceedTyped, SucceedWatched DEF PollSucceeds, StopLifecycles
  <2> QED
    BY <1>0, <1>3, <2>1, ReadingTyped DEF PollSucceeds, EpisodeInv
<1>4. CASE PollGoesOn
  <2>1. queue' \in Seq(Event)
    BY <1>0, <1>4, NextPoll, ScheduleTyped
  <2>2. TaskTypeOK' /\ UNCHANGED <<stop, lifecycle>>
    BY <1>0, <1>4 DEF PollGoesOn, TypeOK, TaskTypeOK, taskVars, Alarms
  <2>3. StopEpisodeWatched' /\ PauseHasCommand'
    BY <1>0, <2>2, EndedWatched DEF StopPending, StopLifecycles
  <2> QED
    BY <1>0, <1>4, <2>1, <2>2, <2>3, ReadingTyped DEF PollGoesOn, EpisodeInv
<1> QED
  BY <1>0, <1>1, <1>2, <1>3, <1>4, PollEnds

LEMMA ControlEpisode ==
  ASSUME EpisodeInv, ControlByWorkcell
  PROVE  EpisodeInv'
<1>0. /\ TypeOK
      /\ \A c : TakeControl(c) => /\ Take("Control") /\ queue # <<>> /\ Tail(queue) \in Seq(Event)
                                  /\ now' \in Time
                                  /\ ~PollOf(Head(queue), stop)
                                  /\ Head(queue) # StopTimeoutEvent(stop)
                                  /\ StopPending => Watched(Tail(queue), stop)
  BY TakenPoll, TakenWatched DEF EpisodeInv, TakeControl
<1>p. StopPending <=> lifecycle \in StopLifecycles
  BY PendingWatched DEF EpisodeInv
<1>1. CASE PauseRefused \/ WorkcellResetRejected
  BY <1>0, <1>1, DropTyped, DropWatched DEF PauseRefused, WorkcellResetRejected, EpisodeInv
<1>2. CASE EstopRefused
  BY <1>2, EstopRefusedWatched DEF EpisodeInv
<1>3. CASE ResumeWait
  <2>1. now' \in Time /\ queue' \in Seq(Event) /\ active' \in ActiveCommands
    BY <1>0, <1>3, ResumeWaitEnds DEF ResumeWait
  <2>2. TypeOK'
    BY <1>0, <1>3, <2>1 DEF ResumeWait, TypeOK, Frame, boundVars, Lifecycles
  <2>3. StopEpisodeWatched' /\ PauseHasCommand'
    BY <1>p, <1>3, EndedWatched DEF ResumeWait, StopLifecycles, StopPending
  <2> QED
    BY <2>2, <2>3 DEF EpisodeInv
<1>4. CASE WorkcellReset(Snapshots)
  <2>1. input' \in [Inputs -> BOOLEAN]
    BY <1>4, FreshTyped DEF WorkcellReset, FitForReset
  <2>2. program' \in Seq(Command) /\ queue' \in Seq(Event) /\ now' \in Time
    BY <1>0, <1>4, EmptySeq DEF WorkcellReset
  <2>3. TaskTypeOK'
    BY <1>0, <1>4 DEF WorkcellReset, TypeOK, TaskTypeOK, Lifecycles, RuntimeStates, Operations,
       Outcomes, Alarms
  <2>4. RestTypeOK'
    BY <1>0, <1>4, <2>1, <2>2 DEF WorkcellReset, TypeOK, RestTypeOK, boundVars
  <2>5. StopEpisodeWatched' /\ PauseHasCommand'
    BY <1>4, EndedWatched DEF WorkcellReset, SafeStateReached, ResetAllowed, StopLifecycles,
       StopPending
  <2> QED
    BY <2>3, <2>4, <2>5, TypeSplitNext DEF EpisodeInv
<1>5. CASE ResetDisconnectFails(Snapshots)
  <2>1. input' \in [Inputs -> BOOLEAN]
    BY <1>5, FreshTyped DEF ResetDisconnectFails, FitForReset
  <2>2. TaskTypeOK' /\ queue' \in Seq(Event) /\ now' \in Time
    BY <1>0, <1>5 DEF ResetDisconnectFails, TypeOK, TaskTypeOK, Alarms
  <2>3. TypeOK'
    BY <1>0, <1>5, <2>1, <2>2, ReadingTyped DEF ResetDisconnectFails, TypeOK
  <2>4. UNCHANGED <<stop, lifecycle>> /\ ~StopPending
    BY <1>5 DEF ResetDisconnectFails, SafeStateReached, ResetAllowed
  <2>5. StopEpisodeWatched' /\ PauseHasCommand'
    BY <1>p, <2>4, EndedWatched DEF StopPending
  <2> QED
    BY <2>3, <2>5 DEF EpisodeInv
<1> QED
  BY <1>1, <1>2, <1>3, <1>4, <1>5 DEF ControlByWorkcell

LEMMA CommandEpisode ==
  ASSUME EpisodeInv, CommandByWorkcell
  PROVE  EpisodeInv'
<1>0. TypeOK /\ queue \in Seq(Event)
  BY DEF EpisodeInv, TypeOK
<1>1. CASE OutputPastTimeRange \/ DeviceCommandRejected
  <2>1. PICK kind \in {"Recoverable", "Fatal"}, command \in ActiveCommands \cup {NoCommand} :
          StartFault(kind, command) /\ UNCHANGED moving /\ now' \in Time
    BY <1>0, <1>1, DeviceFaults
  <2>2. TypeOK'
    BY <1>0, <2>1, StartFaultTyped DEF TypeOK
  <2>3. StopEpisodeWatched' /\ PauseHasCommand'
    BY <1>0, <2>1, BeginFaultWatched DEF StartFault
  <2> QED
    BY <2>2, <2>3 DEF EpisodeInv
<1>2. CASE StartOutput(AnyDelay) \/ StartTool(AnyDelay) \/ StartInputWait
  <2>1. PICK a : DeviceBegins(a)
    BY <1>0, <1>2, DeviceCommands
  <2>2. TypeOK'
    BY <1>0, <2>1, BeginTyped DEF DeviceBegins, TypeOK
  <2>3. ~StopPending
    BY <2>1, PendingWatched DEF DeviceBegins, EpisodeInv, CallsNextCommand, MustProcessEvent
  <2>4. StopEpisodeWatched' /\ PauseHasCommand'
    BY <2>1, <2>3, EndedWatched DEF DeviceBegins, Begin, StopPending, StopLifecycles
  <2> QED
    BY <2>2, <2>4 DEF EpisodeInv
<1> QED
  BY <1>1, <1>2 DEF CommandByWorkcell

LEMMA EpisodeByWorkcell ==
  ASSUME EpisodeInv, CommandInv, StepByWorkcell
  PROVE  EpisodeInv'
<1>1. CASE RefusedSafeState
  <2>1. PICK disp \in {"Fault", "Emergency"} : StopConfirmed(disp)
    BY <1>1, RefusedEnds DEF EpisodeInv
  <2>2. TaskTypeOK' /\ StopEpisodeWatched' /\ PauseHasCommand' /\ next' \in Nat \ {0}
    BY <1>1, RefusedEnds, FinishFaultTyped, FinishWatched DEF EpisodeInv, TypeOK
  <2> QED
    BY <2>1, <2>2, StopConfirmedTyped DEF EpisodeInv
<1> QED
  BY <1>1, PollEpisode, ControlEpisode, CommandEpisode DEF StepByWorkcell

LEMMA AlarmByWorkcell ==
  ASSUME EpisodeInv, AlarmInv, StepByWorkcell
  PROVE  AlarmInv'
<1>0. TypeOK
  BY DEF EpisodeInv
<1>1. CASE PollByWorkcell
  <2>1. CASE PollFaults
    BY <2>1, BeginFaultAlarm DEF PollFaults
  <2>2. CASE PollFaultsTwice
    BY <2>2, FinishFaultAlarm, RaiseAlarm DEF PollFaultsTwice
  <2>3. CASE PollSucceeds
    BY <2>3, SucceedAlarm DEF PollSucceeds, TakePoll, OwnPoll, AlarmLifecycles
  <2>4. CASE PollGoesOn
    BY <2>4, SameAlarm DEF PollGoesOn, taskVars
  <2> QED
    BY <1>0, <1>1, <2>1, <2>2, <2>3, <2>4, PollEnds
<1>2. CASE RefusedSafeState
  <2>1. PICK disabled \in BOOLEAN, prim \in Alarms :
          /\ FinishFault(connected, disabled, TRUE, prim)
          /\ stop.disp # "Fault" \/ primary # "None" => prim # "None"
    BY <1>0, <1>2, RefusedEnds
  <2>2. prim # "None"
    BY <2>1 DEF AlarmInv
  <2> QED
    BY <2>1, <2>2, FinishFaultAlarm
<1>3. CASE CommandByWorkcell
  <2>1. CASE OutputPastTimeRange \/ DeviceCommandRejected
    BY <1>0, <2>1, DeviceFaults, BeginFaultAlarm DEF StartFault
  <2>2. CASE StartOutput(AnyDelay) \/ StartTool(AnyDelay) \/ StartInputWait
    <3>1. PICK a : DeviceBegins(a)
      BY <1>0, <2>2, DeviceCommands
    <3>2. primary = "None" /\ ~untrusted /\ stop.disp # "Fault"
      BY <3>1, CallsWorking, WorkingIsQuiet DEF DeviceBegins, AlarmLifecycles
    <3> QED
      BY <3>1, <3>2, QuietAlarm DEF DeviceBegins, Begin, EndLifecycles
  <2> QED
    BY <1>3, <2>1, <2>2 DEF CommandByWorkcell
<1>4. CASE PauseRefused \/ WorkcellResetRejected
  BY <1>4, DropAlarm DEF PauseRefused, WorkcellResetRejected
<1>5. CASE EstopRefused
  <2>1. CASE EpisodeFails
    BY <2>1, FailStopAlarm DEF EpisodeFails
  <2>2. CASE ~EpisodeFails
    <3>1. /\ lifecycle' = "EmergencyStopping" /\ SetPrimary(Raise(primary, "Fatal"))
          /\ stop'.disp \in {"Emergency", "None"} /\ (stop' # NoStop => stop'.disp = "Emergency")
      BY <1>5, <2>2, EstopRefusedEnds, EstopRefusedWatched
    <3> QED
      BY <3>1, RaiseAlarm DEF AlarmInv, SetPrimary, StopPending, AlarmLifecycles, EndLifecycles
  <2> QED
    BY <2>1, <2>2
<1>6. CASE ResumeWait
  BY <1>6, WorkingIsQuiet, QuietAlarm DEF ResumeWait, AlarmLifecycles, EndLifecycles
<1>7. CASE WorkcellReset(Snapshots)
  BY <1>7, QuietAlarm
     DEF WorkcellReset, SafeStateReached, ResetAllowed, EndLifecycles, StopPending, NoStop
<1>8. CASE ResetDisconnectFails(Snapshots)
  <2>1. /\ UNCHANGED <<lifecycle, stop, terminal, primary, alarmed>> /\ untrusted' = TRUE
        /\ ~StopPending
        /\ lifecycle = "EmergencyStopped" \/ (lifecycle = "Faulted" /\ primary = "Recoverable")
    BY <1>8 DEF ResetDisconnectFails, SafeStateReached, ResetAllowed
  <2> QED
    BY <2>1 DEF AlarmInv, StopPending, AlarmLifecycles, EndLifecycles
<1> QED
  BY <1>1, <1>2, <1>3, <1>4, <1>5, <1>6, <1>7, <1>8 DEF StepByWorkcell, ControlByWorkcell

LEMMA CommandKept ==
  ASSUME EpisodeInv, CommandInv, StepByWorkcell
  PROVE  CommandInv'
<1>0. /\ TypeOK
      /\ \A type \in {"MotionPoll", "Control"} : Take(type) =>
           /\ Tail(queue) \in Seq(Event) /\ Head(queue) # EndEvent(active)
           /\ HasActive /\ lifecycle \in Working => Ends(Tail(queue), active)
  BY TakenPoll, TakenCommand DEF EpisodeInv
<1>1. CASE PollByWorkcell
  <2>1. CASE PollFaults \/ PollFaultsTwice \/ PollSucceeds
    BY <2>1, ExitCommand DEF PollFaults, PollFaultsTwice, PollSucceeds
  <2>2. CASE PollGoesOn
    <3>1. /\ Ends(Tail(queue), active) /\ Tail(queue) \in Seq(Event)
          /\ UNCHANGED <<active, lifecycle>>
      BY <1>0, <2>2, OwnPollRuns DEF PollGoesOn, taskVars, Working
    <3>2. Ends(queue', active)
      BY <2>2, <3>1, NextPoll, EndsSchedule
    <3> QED
      BY <3>1, <3>2, KeptCommand
  <2> QED
    BY <1>0, <1>1, <2>1, <2>2, PollEnds
<1>2. CASE RefusedSafeState
  BY <1>0, <1>2, RefusedEnds, ExitCommand
<1>3. CASE OutputPastTimeRange \/ DeviceCommandRejected
  BY <1>0, <1>3, DeviceFaults, ExitCommand DEF StartFault
<1>4. CASE StartOutput(AnyDelay) \/ StartTool(AnyDelay) \/ StartInputWait
  <2>1. PICK a : DeviceBegins(a)
    BY <1>0, <1>4, DeviceCommands
  <2> QED
    BY <2>1 DEF DeviceBegins, Begin, CommandInv
<1>5. CASE PauseRefused \/ WorkcellResetRejected
  BY <1>0, <1>5, DropCommand DEF PauseRefused, WorkcellResetRejected, TakeControl
<1>6. CASE EstopRefused
  BY <1>6, EstopRefusedWatched, IdleCommand DEF Working
<1>7. CASE ResumeWait
  BY <1>0, <1>7, ResumeWaitEnds DEF CommandInv
<1>8. CASE WorkcellReset(Snapshots) \/ ResetDisconnectFails(Snapshots)
  BY <1>8, IdleCommand
     DEF WorkcellReset, ResetDisconnectFails, SafeStateReached, ResetAllowed, Working
<1> QED
  BY <1>1, <1>2, <1>3, <1>4, <1>5, <1>6, <1>7, <1>8
     DEF StepByWorkcell, ControlByWorkcell, CommandByWorkcell

LEMMA ConnectionByWorkcell ==
  ASSUME EpisodeInv, WorkNeedsConnection, StepByWorkcell
  PROVE  WorkNeedsConnection'
<1>0. TypeOK
  BY DEF EpisodeInv
<1>1. CASE PollByWorkcell
  <2>1. CASE PollFaults \/ PollFaultsTwice
    BY <2>1, BeginFaultConnected, FinishConnected DEF PollFaults, PollFaultsTwice
  <2>2. CASE PollSucceeds \/ PollGoesOn
    BY <2>2, SameWorkConnected DEF PollSucceeds, PollGoesOn, Succeed, taskVars, HasActive
  <2> QED
    BY <1>0, <1>1, <2>1, <2>2, PollEnds
<1>2. CASE RefusedSafeState
  BY <1>2, FinishConnected DEF RefusedSafeState
<1>3. CASE OutputPastTimeRange \/ DeviceCommandRejected
  BY <1>0, <1>3, DeviceFaults, BeginFaultConnected DEF StartFault
<1>4. CASE StartOutput(AnyDelay) \/ StartTool(AnyDelay) \/ StartInputWait
  <2>1. PICK a : DeviceBegins(a)
    BY <1>0, <1>4, DeviceCommands
  <2> QED
    BY <2>1 DEF DeviceBegins, Begin, WorkNeedsConnection
<1>5. CASE PauseRefused \/ WorkcellResetRejected
  BY <1>5, SameWorkConnected DEF PauseRefused, WorkcellResetRejected, Drop, taskVars, HasActive
<1>6. CASE EstopRefused
  BY <1>6, EstopRefusedEnds, FinishConnected
     DEF EpisodeFails, FailStop, WorkNeedsConnection
<1>7. CASE ResumeWait
  BY <1>0, <1>7, ResumeWaitEnds, SameWorkConnected DEF ResumeWait
<1>8. CASE WorkcellReset(Snapshots) \/ ResetDisconnectFails(Snapshots)
  BY <1>8 DEF WorkcellReset, ResetDisconnectFails, SafeStateReached, ResetAllowed,
     WorkNeedsConnection, HasActive, StopPending
<1> QED
  BY <1>1, <1>2, <1>3, <1>4, <1>5, <1>6, <1>7, <1>8
     DEF StepByWorkcell, ControlByWorkcell, CommandByWorkcell

-----------------------------------------------------------------------------
SessionInv == SafetyInv /\ CommandInv /\ WorkNeedsConnection

LEMMA SessionStep ==
  ASSUME SessionInv, [WorkcellNext]_allVars
  PROVE  SessionInv'
<1>1. CASE [Next]_vars
  BY <1>1, EpisodeStep, AlarmStep, CommandStep, ConnectionStep DEF SessionInv, SafetyInv
<1>2. CASE StepByWorkcell
  BY <1>2, EpisodeByWorkcell, AlarmByWorkcell, CommandKept, ConnectionByWorkcell
     DEF SessionInv, SafetyInv
<1>3. CASE UNCHANGED allVars
  BY <1>1, <1>3 DEF allVars
<1> QED
  BY <1>1, <1>2, <1>3, WorkcellSteps

LEMMA SessionHolds == WorkcellSpec => []SessionInv
<1>1. Init => CommandInv /\ WorkNeedsConnection
  BY IdleCommand DEF Init, CommandInv, WorkNeedsConnection, HasActive, StopPending
<1>2. WorkcellInit => SessionInv
  BY <1>1, SafetyInit DEF WorkcellInit, SessionInv
<1>3. SessionInv /\ [WorkcellNext]_allVars => SessionInv'
  BY SessionStep
<1> QED
  BY <1>2, <1>3, PTL DEF WorkcellSpec

(***************************************************************************)
(* The session keeps with a workcell what it keeps without one: its types, *)
(* the watch over stops and commands, the connection that work needs and   *)
(* the peace that an alarm demands.  (UntrustedIsFinal is not among them:  *)
(* a RESET whose disconnect fails leaves an untrusted session in           *)
(* EmergencyStopped.)                                                      *)
(***************************************************************************)
THEOREM WorkcellKeepsSession ==
  WorkcellSpec => [](TypeOK /\ StopEpisodeWatched /\ NoWorkUnderAlarm /\ WorkNeedsConnection
                       /\ ActiveCommandWatched)
<1>1. SessionInv => TypeOK /\ StopEpisodeWatched /\ WorkNeedsConnection
  BY DEF SessionInv, SafetyInv, EpisodeInv
<1>2. SessionInv => NoWorkUnderAlarm
  BY DEF SessionInv, SafetyInv, AlarmInv, AlarmLifecycles, NoWorkUnderAlarm
<1>3. SessionInv => ActiveCommandWatched
  BY Zenon DEF SessionInv, CommandInv, ActiveCommandWatched, Working, Ends, EndEvent, Pending
<1> QED
  BY <1>1, <1>2, <1>3, SessionHolds, PTL

-----------------------------------------------------------------------------
(***************************************************************************)
(* What a step makes of the task and of the safe state, and which steps    *)
(* pass a command.                                                         *)
(***************************************************************************)
AtWork == {"Running", "Waiting", "Paused"}

Leaves == UNCHANGED <<taskVars, safeVars, next, moving>>

Works ==
  /\ lifecycle \in AtWork /\ lifecycle' \in AtWork
  /\ UNCHANGED <<stop, untrusted, primary, safeVars>>
  /\ \/ next' = next \/ ~HasActive \/ active.type \in {"MOVEJ", "DELAY"}
     \/ SnapshotSatisfies(Snapshots)

Halting ==
  \E q, command : \E disp \in {"Pause", "OperatorStop", "ProgramComplete"} :
    /\ BeginStop(q, disp, command, primary)
    /\ disp = "ProgramComplete" => command.type = "STOP"

Halts ==
  /\ lifecycle \in AtWork
  /\ Halting
  /\ UNCHANGED <<next, moving, safeVars>>

RaisesAlarm ==
  /\ AskSafeState
  /\ lifecycle' \in {"Stopping", "EmergencyStopping", "Faulted"}
  /\ stop'.disp # "ProgramComplete"
  /\ next' = next
  /\ lifecycle \in AtWork \/ moving' = moving

StopsFail ==
  /\ StopPending
  /\ FailStop(connected, primary)
  /\ UNCHANGED <<next, moving, safeVars>>

EndsUnconnected ==
  /\ ~connected
  /\ \E result \in {"OperatorStopped", "EmergencyStopped"} :
       \E prim : FinishTerminal(result, servoDisabled, prim)
  /\ UNCHANGED <<next, moving, safeVars>>

StopsConfirmed ==
  \/ (PauseConfirmed \/ OperatorStopConfirmed \/ ProgramStopConfirmed) /\ Quiet
  \/ FaultMadeSafe \/ EmergencyMadeSafe

Resets == WorkcellReset(Snapshots) \/ ResetDisconnectFails(Snapshots)

LEMMA FaultKinds ==
  /\ \A conn, disabled, distrust, prim :
       FinishFault(conn, disabled, distrust, prim) => lifecycle' = "Faulted" /\ stop'.disp = "None"
  /\ \A q, disp, command, prim : BeginStop(q, disp, command, prim) =>
       lifecycle' \in {StopLifecycle(disp), "Faulted"} /\ stop'.disp \in {disp, "None"}
  /\ \A q, conn, kind, command : BeginFault(q, conn, kind, command) =>
       lifecycle' \in {"Stopping", "Faulted"} /\ stop'.disp \in {"Fault", "None"}
  /\ StopLifecycle("Emergency") = "EmergencyStopping"
<1>1. \A conn, disabled, distrust, prim :
        FinishFault(conn, disabled, distrust, prim) => lifecycle' = "Faulted" /\ stop'.disp = "None"
  BY DEF FinishFault, NoStop
<1>2. \A q, disp, command, prim : BeginStop(q, disp, command, prim) =>
        lifecycle' \in {StopLifecycle(disp), "Faulted"} /\ stop'.disp \in {disp, "None"}
  <2>1. ASSUME NEW q, NEW disp, NEW command, NEW prim, BeginStop(q, disp, command, prim)
        PROVE  lifecycle' \in {StopLifecycle(disp), "Faulted"} /\ stop'.disp \in {disp, "None"}
    <3> DEFINE episode == [id |-> nextStop, disp |-> disp,
                           deadline |-> SaturatingAdd(now', StopTimeout)]
    <3>1. (lifecycle' = StopLifecycle(disp) /\ stop' = episode) \/ FailStop(TRUE, prim)
      BY <2>1, Zenon DEF BeginStop
    <3>2. episode.disp = disp
      OBVIOUS
    <3> QED
      BY <1>1, <3>1, <3>2 DEF FailStop
  <2> QED
    BY <2>1
<1>3. StopLifecycle("Emergency") = "EmergencyStopping" /\ StopLifecycle("Fault") = "Stopping"
  BY Zenon DEF StopLifecycle
<1> QED
  BY <1>1, <1>2, <1>3 DEF BeginFault

LEMMA ControlKinds ==
  ASSUME SessionInv, WorkcellControl
  PROVE  Leaves \/ Works \/ Halts \/ RaisesAlarm \/ EndsUnconnected \/ Resets
<1>0. /\ StopPending <=> lifecycle \in StopLifecycles
      /\ StopPending => connected
  BY PendingWatched DEF SessionInv, SafetyInv, EpisodeInv, WorkNeedsConnection
<1>1. CASE (ControlWithoutEffect \/ PauseRefused) /\ Quiet
  BY <1>1 DEF ControlWithoutEffect, PauseRefused, Drop, Leaves, Quiet, workcellVars
<1>2. CASE WorkcellResetRejected
  BY <1>2 DEF WorkcellResetRejected, Drop, Leaves, Quiet, workcellVars
<1>3. CASE (PauseBetweenCommands \/ PauseLocalWait \/ ResumeBetweenCommands \/ ResumeMotion) /\ Quiet
  BY <1>3 DEF PauseBetweenCommands, PauseLocalWait, ResumeBetweenCommands, ResumeMotion, Works,
     AtWork, Quiet, workcellVars
<1>4. CASE ResumeWait
  BY <1>4 DEF ResumeWait, Works, AtWork, Quiet, workcellVars
<1>5. CASE PauseMotion /\ Quiet
  <2>1. BeginStop(Tail(queue), "Pause", [active EXCEPT !.remaining = Remaining], primary)
    BY <1>5 DEF PauseMotion
  <2>2. Halting
    BY <2>1, Zenon DEF Halting
  <2> QED
    BY <1>5, <2>2 DEF PauseMotion, Halts, AtWork, Quiet, workcellVars
<1>6. CASE (ResumeMotionFails \/ ResumePastTimeRange) /\ Faulting
  <2>1. lifecycle = "Paused" /\ next' = next /\ AskSafeState
    BY <1>6 DEF ResumeMotionFails, ResumePastTimeRange, Faulting
  <2>2. lifecycle' \in {"Stopping", "Faulted"} /\ stop'.disp # "ProgramComplete"
    BY <1>6, FaultKinds DEF ResumeMotionFails, ResumePastTimeRange, ResumeFault
  <2> QED
    BY <2>1, <2>2 DEF RaisesAlarm, AtWork
<1>7. CASE Stop /\ Quiet
  <2>1. CASE StopPending
    BY <1>7, <2>1 DEF Stop, Leaves, Quiet, workcellVars
  <2>2. CASE ~StopPending /\ connected
    <3>1. lifecycle \in AtWork
      BY <1>0, <1>7, <2>2 DEF Stop, AtWork, StopLifecycles
    <3>2. BeginStop(Tail(queue), "OperatorStop", active, primary)
      BY <1>7, <2>2 DEF Stop
    <3>3. Halting
      BY <3>2, Zenon DEF Halting
    <3> QED
      BY <1>7, <3>1, <3>3 DEF Stop, Halts, Quiet, workcellVars
  <2>3. CASE ~StopPending /\ ~connected
    BY <1>7, <2>3 DEF Stop, EndsUnconnected, Quiet, workcellVars
  <2> QED
    BY <2>1, <2>2, <2>3
<1>8. CASE EstopAccepted
  <2>1. CASE connected
    <3>1. AskSafeState /\ next' = next /\ moving' = moving
      BY <1>8, <2>1 DEF EstopAccepted, Estop, Faulting
    <3>2. lifecycle' \in {"EmergencyStopping", "Faulted"} /\ stop'.disp # "ProgramComplete"
      <4>1. CASE StopPending
        <5>1. stop \in StopEpisodes
          BY <4>1 DEF SessionInv, SafetyInv, EpisodeInv, TypeOK, StopPending
        <5> QED
          BY <1>8, <4>1, <5>1 DEF EstopAccepted, Estop, StopEpisodes
      <4>2. CASE ~StopPending
        BY <1>8, <2>1, <4>2, FaultKinds DEF EstopAccepted, Estop
      <4> QED
        BY <4>1, <4>2
    <3> QED
      BY <3>1, <3>2 DEF RaisesAlarm
  <2>2. CASE ~connected
    BY <1>0, <1>8, <2>2 DEF EstopAccepted, Estop, EndsUnconnected, Quiet, workcellVars
  <2> QED
    BY <2>1, <2>2
<1>9. CASE EstopRefused
  <2>1. AskSafeState /\ next' = next /\ moving' = moving
    BY <1>9 DEF EstopRefused, Faulting
  <2>2. lifecycle' \in {"EmergencyStopping", "Faulted"} /\ stop'.disp # "ProgramComplete"
    BY <1>9, EstopRefusedWatched DEF SessionInv, SafetyInv
  <2> QED
    BY <2>1, <2>2 DEF RaisesAlarm
<1> QED
  BY <1>1, <1>2, <1>3, <1>4, <1>5, <1>6, <1>7, <1>8, <1>9 DEF WorkcellControl, Resets

LEMMA EventKinds ==
  ASSUME SessionInv, WorkcellEvent, ~WorkcellControl
  PROVE  Leaves \/ Works \/ RaisesAlarm \/ StopsFail \/ StopsConfirmed
<1>0. /\ TypeOK
      /\ TakePoll => lifecycle \in AtWork
  BY DEF SessionInv, SafetyInv, EpisodeInv, TakePoll, OwnPoll, AtWork
<1>1. CASE \/ SnapshotAlarms(Snapshots) \/ MotionFailsUnderAlarm(Snapshots)
           \/ ToolFails(Snapshots) \/ MotionFailed(Snapshots) \/ MotionPollThrows
  <2>1. AskSafeState /\ next' = next /\ moving' = moving
    BY <1>1 DEF SnapshotAlarms, MotionFailsUnderAlarm, ToolFails, MotionFailed, MotionPollThrows,
       Faulting
  <2>2. lifecycle' \in {"Stopping", "Faulted"} /\ stop'.disp # "ProgramComplete"
    BY <1>1, FaultKinds DEF SnapshotAlarms, MotionFailsUnderAlarm, ToolFails, MotionFailed,
       MotionPollThrows
  <2> QED
    BY <2>1, <2>2 DEF RaisesAlarm
<1>2. CASE SnapshotSatisfies(Snapshots)
  BY <1>0, <1>2 DEF SnapshotSatisfies, Succeed, Works, AtWork
<1>3. CASE StillWaiting(Snapshots) \/ MotionStillRunning(Snapshots)
  BY <1>3 DEF StillWaiting, MotionStillRunning, Leaves
<1>4. CASE MotionDone(Snapshots)
  BY <1>0, <1>4 DEF MotionDone, Motion, Succeed, Works, AtWork
<1>5. CASE (StalePoll \/ StaleDelayComplete \/ StaleTimeout \/ StaleStopPoll) /\ Quiet
  BY <1>5 DEF StalePoll, StaleDelayComplete, StaleTimeout, StaleStopPoll, Drop, Leaves, Quiet,
     workcellVars
<1>6. CASE DelayComplete /\ Quiet
  BY <1>6 DEF DelayComplete, DelayIsOver, Succeed, Works, AtWork, Quiet, workcellVars
<1>7. CASE CommandTimeout /\ Faulting
  <2>1. AskSafeState /\ next' = next /\ moving' = moving
    BY <1>7 DEF CommandTimeout, Faulting
  <2>2. lifecycle' \in {"Stopping", "Faulted"} /\ stop'.disp # "ProgramComplete"
    BY <1>7, FaultKinds DEF CommandTimeout
  <2> QED
    BY <2>1, <2>2 DEF RaisesAlarm
<1>8. CASE StillStopping /\ Quiet
  BY <1>8 DEF StillStopping, Leaves, Quiet, workcellVars
<1>9. CASE (StopPollFails \/ StopDeadline) /\ Quiet
  BY <1>9 DEF StopPollFails, StopDeadline, StopDeadlinePassed, OwnEpisode, Drop, Leaves, StopsFail,
     Quiet, workcellVars
<1> QED
  BY <1>1, <1>2, <1>3, <1>4, <1>5, <1>6, <1>7, <1>8, <1>9 DEF WorkcellEvent, StopsConfirmed

LEMMA CommandKinds ==
  ASSUME SessionInv, WorkcellNextCommand
  PROVE  Works \/ Halts \/ RaisesAlarm
<1>0. CallsNextCommand /\ ~HasActive /\ lifecycle \in AtWork /\ TypeOK
  <2>1. CallsNextCommand
    BY DEF WorkcellNextCommand, ConnectFails, ServoCommandThrows, CommandPastTimeRange,
       StartPastTimeRange, StartMotionFails, DeviceCommandRejected, ServoCommand, ZeroDelay,
       StartMotion, StartDelay, StopCommand, StartOutput, StartTool, DeviceCommandAccepted,
       StartInputWait, InputAlreadyThere, WaitAlreadySatisfied, Start, StartsCommand
  <2> QED
    BY <2>1, CallsWorking, CallsNothingActive DEF SessionInv, SafetyInv, EpisodeInv, AtWork
<1>1. CASE (ConnectFails \/ ServoCommandThrows \/ CommandPastTimeRange \/ StartMotionFails
            \/ DeviceCommandRejected) /\ Faulting
  <2>1. AskSafeState
    BY <1>1 DEF Faulting
  <2>2. /\ next' = next /\ lifecycle' \in {"Stopping", "Faulted"}
        /\ stop'.disp # "ProgramComplete"
    BY <1>1, FaultKinds DEF ConnectFails, ServoCommandThrows, CommandPastTimeRange,
       StartPastTimeRange, StartMotionFails, DeviceCommandRejected, StartFault
  <2> QED
    BY <1>0, <2>1, <2>2 DEF RaisesAlarm
<1>2. CASE (ServoCommand \/ ZeroDelay \/ StartMotion \/ StartDelay \/ InputAlreadyThere) /\ Quiet
  BY <1>0, <1>2 DEF ServoCommand, ZeroDelay, Pass, StartMotion, StartDelay, Begin,
     InputAlreadyThere, WaitAlreadySatisfied, Works, AtWork, Quiet, workcellVars
<1>3. CASE (StartOutput(AnyDelay) \/ StartTool(AnyDelay) \/ StartInputWait) /\ Quiet
  <2>1. PICK a : DeviceBegins(a)
    BY <1>0, <1>3, DeviceCommands
  <2> QED
    BY <1>0, <1>3, <2>1 DEF DeviceBegins, Begin, Works, AtWork, Quiet, workcellVars
<1>4. CASE StopCommand /\ Quiet
  <2>1. PICK command : /\ BeginStop(queue, "ProgramComplete", command, primary)
                       /\ command.type = "STOP"
    BY <1>4 DEF StopCommand
  <2>2. Halting
    BY <2>1, Zenon DEF Halting
  <2> QED
    BY <1>0, <1>4, <2>2 DEF StopCommand, Halts, Quiet, workcellVars
<1> QED
  BY <1>1, <1>2, <1>3, <1>4 DEF WorkcellNextCommand

LEMMA StepKinds ==
  ASSUME SessionInv, WorkcellNext
  PROVE  \/ \E p \in Programs : WorkcellSubmit(p)
         \/ Leaves \/ Works \/ Halts \/ RaisesAlarm \/ StopsFail \/ EndsUnconnected
         \/ StopsConfirmed \/ Resets
<1>1. CASE ((\E c \in ControlsUsed : SubmitControl(c)) \/ HostAdvancesClock) /\ Quiet
  BY <1>1 DEF SubmitControl, HostAdvancesClock, Leaves, Quiet, workcellVars
<1> QED
  BY <1>1, ControlKinds, EventKinds, CommandKinds DEF WorkcellNext, WorkcellAdvance, WorkcellEvent

-----------------------------------------------------------------------------
(***************************************************************************)
(* The values of the workcell's variables.                                 *)
(***************************************************************************)
SafeTypeOK ==
  /\ safeRequested \in BOOLEAN /\ safeConfirmed \in BOOLEAN
  /\ safeDeadline \in Time \cup {NoDeadline}
  /\ safeGeneration \in Nat \cup {NoGeneration}
  /\ lastGeneration \in Nat \cup {NoGeneration}

LEMMA GenerationTyped ==
  ASSUME SafeTypeOK, WorkcellNext
  PROVE  lastGeneration' \in Nat \cup {NoGeneration}
<1>1. ASSUME NEW s \in Snapshots, Keep(s)
      PROVE  lastGeneration' \in Nat \cup {NoGeneration}
  BY <1>1, FreshTyped DEF Keep, Fresh, SafeTypeOK
<1>2. Quiet \/ Faulting => lastGeneration' \in Nat \cup {NoGeneration}
  BY DEF Quiet, workcellVars, Faulting, SafeTypeOK
<1>3. CASE \E p \in Programs : WorkcellSubmit(p)
  BY <1>3 DEF WorkcellSubmit, ForgetSafeState
<1>4. CASE PollByWorkcell
  BY <1>1, <1>4
     DEF PollByWorkcell, SnapshotAlarms, MotionFailsUnderAlarm, SnapshotSatisfies, ToolFails,
         StillWaiting, MotionStillRunning, MotionDone, MotionFailed, QuietSnapshot
<1>5. CASE WorkcellReset(Snapshots)
  BY <1>5 DEF WorkcellReset, ForgetSafeState
<1>6. CASE ResetDisconnectFails(Snapshots)
  BY <1>6, FreshTyped DEF ResetDisconnectFails, FitForReset
<1>7. CASE FaultMadeSafe \/ EmergencyMadeSafe
  BY <1>7 DEF FaultMadeSafe, EmergencyMadeSafe, SafeStatePolled, SafeTypeOK
<1>8. CASE EstopAccepted \/ EstopRefused \/ WorkcellResetRejected \/ ResumeWait \/ MotionPollThrows
  BY <1>2, <1>8 DEF EstopAccepted, EstopRefused, WorkcellResetRejected, ResumeWait,
     MotionPollThrows
<1>9. WorkcellControl =>
        \/ Quiet \/ Faulting \/ EstopAccepted \/ EstopRefused \/ ResumeWait
        \/ WorkcellReset(Snapshots) \/ ResetDisconnectFails(Snapshots) \/ WorkcellResetRejected
  BY Zenon DEF WorkcellControl
<1>10. WorkcellEvent =>
         \/ WorkcellControl \/ PollByWorkcell \/ MotionPollThrows \/ Quiet \/ Faulting
         \/ FaultMadeSafe \/ EmergencyMadeSafe
  BY Zenon DEF WorkcellEvent, PollByWorkcell
<1>11. WorkcellNextCommand => Quiet \/ Faulting
  BY Zenon DEF WorkcellNextCommand
<1> QED
  BY <1>2, <1>3, <1>4, <1>5, <1>6, <1>7, <1>8, <1>9, <1>10, <1>11
     DEF WorkcellNext, WorkcellAdvance

LEMMA SafeStep ==
  ASSUME SessionInv, WorkcellNext
  PROVE  \/ UNCHANGED safeVars \/ AskSafeState \/ ForgetSafeState
         \/ SafeStatePolled(TRUE) \/ SafeStatePolled(FALSE)
BY StepKinds DEF WorkcellSubmit, Leaves, Works, Halts, RaisesAlarm, StopsFail, EndsUnconnected,
   StopsConfirmed, Quiet, workcellVars, FaultMadeSafe, EmergencyMadeSafe, Resets, WorkcellReset,
   ResetDisconnectFails

LEMMA SafeTypeStep ==
  ASSUME SessionInv, SafeTypeOK, WorkcellNext
  PROVE  SafeTypeOK'
<1>1. lastGeneration' \in Nat \cup {NoGeneration}
  BY GenerationTyped
<1>2. now' \in Time
  BY SessionStep DEF SessionInv, SafetyInv, EpisodeInv, TypeOK
<1>3. CASE UNCHANGED safeVars
  BY <1>1, <1>3 DEF safeVars, SafeTypeOK
<1>4. CASE AskSafeState
  <2>1. SaturatingAdd(now', SafeTimeout) \in Time
    BY <1>2, TimeArithmetic, WorkcellAssumption
  <2> QED
    BY <1>1, <1>4, <2>1 DEF AskSafeState, safeVars, SafeTypeOK
<1>5. CASE ForgetSafeState
  BY <1>5 DEF ForgetSafeState, SafeTypeOK
<1>6. CASE SafeStatePolled(TRUE) \/ SafeStatePolled(FALSE)
  <2>1. Greatest(0, lastGeneration) \in Nat
    BY DEF SafeTypeOK, Greatest, NoGeneration
  <2> QED
    BY <1>1, <1>6, <2>1 DEF SafeStatePolled, SafeTypeOK
<1> QED
  BY <1>3, <1>4, <1>5, <1>6, SafeStep

-----------------------------------------------------------------------------
(***************************************************************************)
(* A confirmed safe state means that the device stands still: it is        *)
(* confirmed together with the stop of the device, and nothing moves it    *)
(* before a RESET or a new program has the safe state forgotten.           *)
(***************************************************************************)
SafeMeansStill ==
  safeConfirmed => ~moving /\ lifecycle \notin AtWork \cup {"Idle", "Pausing"}

LEMMA TerminalKinds ==
  \A result, disabled, prim : FinishTerminal(result, disabled, prim) =>
    /\ lifecycle' \in {"Stopped", "EmergencyStopped", "Faulted"} /\ stop'.disp = "None"
    /\ lifecycle' = "EmergencyStopped" => result = "EmergencyStopped" /\ servoDisabled' = disabled
<1> SUFFICES ASSUME NEW result, NEW disabled, NEW prim, FinishTerminal(result, disabled, prim)
             PROVE  /\ lifecycle' \in {"Stopped", "EmergencyStopped", "Faulted"}
                    /\ stop'.disp = "None"
                    /\ lifecycle' = "EmergencyStopped" =>
                         result = "EmergencyStopped" /\ servoDisabled' = disabled
  OBVIOUS
<1>1. CASE lifecycle' = "Faulted" /\ stop'.disp = "None"
  BY <1>1
<1>2. CASE ~(lifecycle' = "Faulted" /\ stop'.disp = "None")
  <2>1. /\ servoDisabled' = disabled /\ stop' = NoStop
        /\ lifecycle' = IF result = "EmergencyStopped" THEN "EmergencyStopped" ELSE "Stopped"
    BY <1>2, FaultKinds, Zenon DEF FinishTerminal
  <2> QED
    BY <2>1 DEF NoStop
<1> QED
  BY <1>1, <1>2

LEMMA PauseIsPausing ==
  ASSUME SessionInv, PauseConfirmed
  PROVE  lifecycle = "Pausing"
BY PendingWatched, Zenon
   DEF PauseConfirmed, StopConfirmed, OwnEpisode, SessionInv, SafetyInv, EpisodeInv, StopLifecycle

LEMMA ConfirmedKinds ==
  ASSUME SessionInv, StopsConfirmed
  PROVE  /\ ~moving'
         /\ (PauseConfirmed /\ Quiet) \/ lifecycle' \in {"Stopped", "EmergencyStopped", "Faulted"}
<1>1. ~moving'
  BY DEF StopsConfirmed, PauseConfirmed, OperatorStopConfirmed, ProgramStopConfirmed,
     FaultMadeSafe, FaultStopConfirmed, EmergencyMadeSafe, EmergencyStopConfirmed, StopConfirmed
<1>2. CASE PauseConfirmed /\ Quiet
  BY <1>1, <1>2
<1>3. CASE OperatorStopConfirmed \/ ProgramStopConfirmed
  BY <1>1, <1>3, TerminalKinds DEF OperatorStopConfirmed, ProgramStopConfirmed
<1>4. CASE FaultMadeSafe
  BY <1>1, <1>4, FaultKinds DEF FaultMadeSafe, FaultStopConfirmed
<1>5. CASE EmergencyMadeSafe
  BY <1>1, <1>5, FaultKinds, TerminalKinds DEF EmergencyMadeSafe, EmergencyStopConfirmed
<1> QED
  BY <1>2, <1>3, <1>4, <1>5 DEF StopsConfirmed

LEMMA StillStep ==
  ASSUME SessionInv, SafeMeansStill, WorkcellNext
  PROVE  SafeMeansStill'
<1>1. CASE \E p \in Programs : WorkcellSubmit(p)
  BY <1>1 DEF WorkcellSubmit, ForgetSafeState, SafeMeansStill
<1>2. CASE Leaves
  BY <1>2 DEF Leaves, taskVars, safeVars, SafeMeansStill
<1>3. CASE Works \/ Halts
  BY <1>3 DEF Works, Halts, safeVars, SafeMeansStill
<1>4. CASE RaisesAlarm
  <2>1. safeConfirmed' = safeConfirmed
    BY <1>4 DEF RaisesAlarm, AskSafeState, safeVars
  <2> QED
    BY <1>4, <2>1 DEF RaisesAlarm, SafeMeansStill, AtWork
<1>5. CASE StopsFail \/ EndsUnconnected
  <2>1. lifecycle' \in {"Stopped", "EmergencyStopped", "Faulted"}
    BY <1>5, FaultKinds, TerminalKinds DEF StopsFail, FailStop, EndsUnconnected
  <2> QED
    BY <1>5, <2>1 DEF StopsFail, EndsUnconnected, safeVars, SafeMeansStill, AtWork
<1>6. CASE StopsConfirmed
  <2>1. CASE PauseConfirmed /\ Quiet
    BY <2>1, PauseIsPausing DEF Quiet, workcellVars, safeVars, SafeMeansStill
  <2> QED
    BY <1>6, <2>1, ConfirmedKinds DEF SafeMeansStill, AtWork
<1>7. CASE Resets
  BY <1>7 DEF Resets, WorkcellReset, ForgetSafeState, ResetDisconnectFails, safeVars, SafeMeansStill
<1> QED
  BY <1>1, <1>2, <1>3, <1>4, <1>5, <1>6, <1>7, StepKinds

-----------------------------------------------------------------------------
(***************************************************************************)
(* SafeStateAsked is inductive once an alarm is known to end all work.     *)
(* AskedBefore says of a step that what asks for the safe state after it   *)
(* did so before.                                                          *)
(***************************************************************************)
AskedBefore ==
  /\ stop'.disp \in {"Fault", "Emergency"} => stop.disp \in {"Fault", "Emergency"}
  /\ primary' # "None" /\ connected' /\ ~untrusted' =>
       primary # "None" /\ connected /\ ~untrusted

LEMMA FinishAsked ==
  /\ \A conn, disabled, prim : FinishFault(conn, disabled, TRUE, prim) => AskedBefore
  /\ \A conn, prim : FailStop(conn, prim) => AskedBefore
  /\ \A result, disabled, prim :
       FinishTerminal(result, disabled, prim) /\ (prim = primary \/ ~connected) => AskedBefore
<1>1. \A conn, disabled, prim : FinishFault(conn, disabled, TRUE, prim) => AskedBefore
  BY DEF FinishFault, AskedBefore, NoStop
<1>2. \A conn, prim : FailStop(conn, prim) => AskedBefore
  BY <1>1 DEF FailStop
<1>3. ASSUME NEW result, NEW disabled, NEW prim, FinishTerminal(result, disabled, prim),
             prim = primary \/ ~connected
      PROVE  AskedBefore
  <2>1. CASE /\ connected' = (connected /\ ~DisconnectOnTerminal) /\ SetPrimary(prim)
             /\ stop' = NoStop /\ UNCHANGED untrusted
    BY <1>3, <2>1 DEF SetPrimary, AskedBefore, NoStop
  <2> QED
    BY <1>1, <1>3, <2>1 DEF FinishTerminal
<1> QED
  BY <1>1, <1>2, <1>3

LEMMA AskedStep ==
  ASSUME SessionInv, SafeTypeOK, SafeStateAsked, WorkcellNext
  PROVE  SafeStateAsked'
<1>1. AskedBefore /\ (safeRequested' = safeRequested) => SafeStateAsked'
  BY DEF AskedBefore, SafeStateAsked
<1>2. UNCHANGED safeVars => safeRequested' = safeRequested
  BY DEF safeVars
<1>3. CASE \E p \in Programs : WorkcellSubmit(p)
  BY <1>3 DEF WorkcellSubmit, SubmitProgram, PrepareResult, SafeStateAsked, NoStop
<1>4. CASE Leaves
  BY <1>1, <1>2, <1>4 DEF Leaves, taskVars, AskedBefore
<1>5. lifecycle \in AtWork => primary = "None"
  BY WorkingIsQuiet DEF SessionInv, SafetyInv, AtWork, AlarmLifecycles
<1>6. CASE Works
  BY <1>1, <1>2, <1>5, <1>6 DEF Works, AskedBefore
<1>7. CASE Halts
  <2>1. PICK q, command : \E disp \in {"Pause", "OperatorStop", "ProgramComplete"} :
          BeginStop(q, disp, command, primary)
    BY <1>7, Zenon DEF Halts, Halting
  <2>2. PICK disp \in {"Pause", "OperatorStop", "ProgramComplete"} :
          BeginStop(q, disp, command, primary)
    BY <2>1
  <2> DEFINE episode == [id |-> nextStop, disp |-> disp,
                         deadline |-> SaturatingAdd(now', StopTimeout)]
  <2>3. (stop' = episode /\ SetPrimary(primary)) \/ FailStop(TRUE, primary)
    BY <2>2, Zenon DEF BeginStop
  <2>4. episode.disp = disp
    OBVIOUS
  <2>5. AskedBefore
    BY <1>5, <1>7, <2>3, <2>4, FinishAsked DEF Halts, SetPrimary, AskedBefore
  <2> QED
    BY <1>1, <1>2, <1>7, <2>5 DEF Halts
<1>8. CASE RaisesAlarm
  BY <1>8 DEF RaisesAlarm, AskSafeState, safeVars, SafeStateAsked
<1>9. CASE StopsFail \/ EndsUnconnected
  BY <1>1, <1>2, <1>9, FinishAsked DEF StopsFail, EndsUnconnected
<1>10. CASE StopsConfirmed
  <2>1. CASE PauseConfirmed /\ Quiet
    BY <1>1, <1>2, <2>1 DEF PauseConfirmed, Quiet, workcellVars, AskedBefore, NoStop
  <2>2. CASE (OperatorStopConfirmed \/ ProgramStopConfirmed) /\ Quiet
    BY <1>1, <1>2, <2>2, FinishAsked DEF OperatorStopConfirmed, ProgramStopConfirmed, Quiet,
       workcellVars
  <2>3. CASE FaultMadeSafe \/ EmergencyMadeSafe
    <3>1. stop.disp \in {"Fault", "Emergency"} /\ safeRequested' = safeRequested
      BY <2>3 DEF FaultMadeSafe, FaultStopConfirmed, EmergencyMadeSafe, EmergencyStopConfirmed,
         StopConfirmed, SafeStatePolled
    <3> QED
      BY <3>1 DEF SafeStateAsked
  <2> QED
    BY <1>10, <2>1, <2>2, <2>3 DEF StopsConfirmed
<1>11. CASE WorkcellReset(Snapshots)
  BY <1>11 DEF WorkcellReset, SafeStateReached, ResetAllowed, StopPending, SafeStateAsked, NoStop
<1>12. CASE ResetDisconnectFails(Snapshots)
  BY <1>1, <1>2, <1>12 DEF ResetDisconnectFails, AskedBefore
<1> QED
  BY <1>3, <1>4, <1>6, <1>7, <1>8, <1>9, <1>10, <1>11, <1>12, StepKinds DEF Resets

-----------------------------------------------------------------------------
(***************************************************************************)
(* PolledUntilDeadline: a step that leaves the command running keeps its   *)
(* poll or replaces it, unless the deadline has come.                      *)
(***************************************************************************)
AwaitsPoll == HasActive /\ lifecycle = "Running" /\ active.type # "DELAY"

PolledInv == AwaitsPoll => now >= active.deadline \/ PolledFor(queue, active)

LEMMA TailPolled ==
  ASSUME NEW q \in Seq(Event), NEW a, PolledFor(q, a),
         ~(Head(q).type = "MotionPoll" /\ Head(q).gen = a.gen)
  PROVE  PolledFor(Tail(q), a)
<1>1. PICK n \in DOMAIN q :
        q[n].type = "MotionPoll" /\ q[n].gen = a.gen /\ q[n].time <= a.deadline
  BY DEF PolledFor
<1>2. q[n] # Head(q)
  BY <1>1
<1> QED
  BY <1>1, <1>2, TailKeeps DEF PolledFor

LEMMA FirstPolled ==
  ASSUME NEW q \in Seq(Event), NEW a \in ActiveCommands, a.deadline \in Time, NEW t \in Time,
         NEW delay \in PollDelays \cup {0}, NEW e \in Event
  PROVE  LET poll == Least(a.deadline, SaturatingAdd(t, delay))
         IN PolledFor(Schedule(Schedule(q, MotionPollEvent(poll, a)), e), a)
<1> DEFINE poll == Least(a.deadline, SaturatingAdd(t, delay))
           first == Schedule(q, MotionPollEvent(poll, a))
<1>1. poll \in Time /\ poll <= a.deadline
  BY PollTimes, SessionAssumption
<1> HIDE DEF poll
<1>2. first \in Seq(Event) /\ PolledFor(first, a)
  BY <1>1, PolledFacts, PolledSchedule, ScheduleTyped
<1> HIDE DEF first
<1>3. PolledFor(Schedule(first, e), a)
  BY <1>2, PolledSchedule
<1> QED
  BY <1>3 DEF first, poll

LEMMA NotAwaiting ==
  ASSUME active' = NoCommand \/ lifecycle' # "Running" \/ active'.type = "DELAY"
  PROVE  PolledInv'
BY DEF PolledInv, AwaitsPoll, HasActive

LEMMA NewlyPolled ==
  ASSUME PolledFor(queue', active')
  PROVE  PolledInv'
BY DEF PolledInv

LEMMA KeptPolled ==
  ASSUME CommandInv, PolledInv, UNCHANGED <<active, lifecycle>>,
         now \in Time, now' \in Time, now' >= now,
         AwaitsPoll /\ PolledFor(queue, active) => PolledFor(queue', active)
  PROVE  PolledInv'
<1> SUFFICES ASSUME AwaitsPoll PROVE now' >= active.deadline \/ PolledFor(queue', active)
  BY DEF PolledInv, AwaitsPoll, HasActive
<1>1. active.deadline \in Time
  BY DEF AwaitsPoll, CommandInv, Working
<1>2. now >= active.deadline \/ PolledFor(queue, active)
  BY DEF PolledInv
<1> QED
  BY <1>1, <1>2, SessionAssumption DEF Time

LEMMA ExitPolled ==
  /\ \A conn, disabled, distrust, prim :
       FinishFault(conn, disabled, distrust, prim) => PolledInv'
  /\ \A result, disabled, prim : FinishTerminal(result, disabled, prim) => PolledInv'
  /\ \A q, disp, command, prim : BeginStop(q, disp, command, prim) => PolledInv'
  /\ \A q, conn, kind, command : BeginFault(q, conn, kind, command) => PolledInv'
  /\ \A q : Succeed(q) => PolledInv'
<1>1. \A disp : StopLifecycle(disp) # "Running"
  BY StopLifecycleRange DEF StopLifecycles
<1>2. \A q, disp, command, prim : BeginStop(q, disp, command, prim) => PolledInv'
  BY <1>1, FaultKinds, NotAwaiting
<1> QED
  BY <1>2, FaultKinds, TerminalKinds, NotAwaiting DEF Succeed

LEMMA TakenTime ==
  ASSUME TypeOK, NEW type, Take(type)
  PROVE  now \in Time /\ now' \in Time /\ now' >= now
<1>1. now \in Time /\ now' \in Time /\ Head(queue).time \in Time
  BY TakeTyped DEF TypeOK, Event, ControlEvents, CommandEvents, StopEvents, InputEvents, LossEvents
<1>2. now' = Greatest(now, Head(queue).time)
  BY DEF Take
<1> QED
  BY <1>1, <1>2, SessionAssumption DEF Greatest, Time

\* Taking any event but the command's own poll leaves that poll in the queue.
LEMMA TakenPolled ==
  ASSUME TypeOK, CommandInv, PolledInv, NEW type, Take(type),
         AwaitsPoll => ~(type = "MotionPoll" /\ Head(queue).gen = active.gen),
         UNCHANGED <<active, lifecycle>>,
         AwaitsPoll /\ PolledFor(Tail(queue), active) => PolledFor(queue', active)
  PROVE  PolledInv'
<1>1. Head(queue).type = type /\ queue \in Seq(Event)
  BY TakeTyped DEF TypeOK
<1>2. AwaitsPoll /\ PolledFor(queue, active) => PolledFor(queue', active)
  BY <1>1, TailPolled
<1> QED
  BY <1>2, TakenTime, KeptPolled

LEMMA ControlPolled ==
  ASSUME SessionInv, PolledInv, WorkcellControl
  PROVE  PolledInv'
<1>0. /\ TypeOK /\ CommandInv
      /\ \A c : TakeControl(c) => Take("Control") /\ Tail(queue) \in Seq(Event) /\ now' \in Time
      /\ StopPending => lifecycle # "Running"
  BY TakeTyped, PendingWatched
     DEF TakeControl, SessionInv, SafetyInv, EpisodeInv, StopLifecycles
<1>1. CASE ControlWithoutEffect \/ PauseRefused \/ WorkcellResetRejected
  BY <1>0, <1>1, TakenPolled
     DEF ControlWithoutEffect, PauseRefused, WorkcellResetRejected, Drop, taskVars
<1>2. CASE PauseBetweenCommands \/ PauseLocalWait \/ ResumeBetweenCommands
  BY <1>2, NotAwaiting DEF PauseBetweenCommands, PauseLocalWait, ResumeBetweenCommands, HasActive
<1>3. CASE PauseMotion \/ ResumeMotionFails \/ ResumePastTimeRange
  BY <1>3, ExitPolled DEF PauseMotion, ResumeMotionFails, ResumePastTimeRange, ResumeFault
<1>4. CASE ResumeMotion
  <2>1. HasActive
    BY <1>4 DEF ResumeMotion, HasActive, NoCommand
  <2>2. /\ Tail(queue) \in Seq(Event) /\ now' \in Time
        /\ Resumed \in ActiveCommands /\ Resumed.deadline \in Time
    BY <1>0, <1>4, <2>1, PausedTyped DEF ResumeMotion
  <2>3. TimeoutEvent(Resumed) \in Event
    BY <2>2, EventTypes
  <2>4. PolledFor(queue', Resumed)
    BY <1>4, <2>2, <2>3, FirstPolled DEF ResumeMotion
  <2> QED
    BY <1>4, <2>4, NewlyPolled DEF ResumeMotion
<1>5. CASE ResumeWait
  <2>1. CASE active.type = "DELAY"
    BY <1>0, <1>5, <2>1, ResumeWaitEnds, NotAwaiting
  <2>2. CASE active.type # "DELAY"
    <3>1. PICK t \in Time : /\ t <= Resumed.deadline
                            /\ \E n \in DOMAIN queue' : queue'[n] = MotionPollEvent(t, Resumed)
      BY <1>0, <1>5, <2>2, ResumeWaitEnds
    <3>2. PolledFor(queue', Resumed)
      BY <3>1 DEF PolledFor, MotionPollEvent
    <3> QED
      BY <1>0, <1>5, <3>2, ResumeWaitEnds, NewlyPolled
  <2> QED
    BY <2>1, <2>2
<1>6. CASE Stop
  <2>1. CASE StopPending
    BY <1>0, <1>6, <2>1, NotAwaiting DEF Stop, taskVars
  <2> QED
    BY <1>6, <2>1, ExitPolled DEF Stop
<1>7. CASE Estop
  <2>1. CASE lifecycle' = "EmergencyStopping"
    BY <2>1, NotAwaiting
  <2> QED
    BY <1>7, <2>1, ExitPolled DEF Estop
<1>8. CASE EstopRefused
  BY <1>0, <1>8, EstopRefusedEnds, ExitPolled, NotAwaiting DEF EpisodeFails, FailStop
<1>9. CASE WorkcellReset(Snapshots) \/ ResetDisconnectFails(Snapshots)
  BY <1>9, NotAwaiting
     DEF WorkcellReset, ResetDisconnectFails, SafeStateReached, ResetAllowed, HasActive
<1> QED
  BY <1>1, <1>2, <1>3, <1>4, <1>5, <1>6, <1>7, <1>8, <1>9 DEF WorkcellControl, EstopAccepted

LEMMA EventPolled ==
  ASSUME SessionInv, PolledInv, WorkcellEvent, ~WorkcellControl
  PROVE  PolledInv'
<1>0. /\ TypeOK /\ EpisodeInv /\ CommandInv
      /\ StopPending => lifecycle # "Running"
  BY PendingWatched DEF SessionInv, SafetyInv, EpisodeInv, StopLifecycles
<1>1. CASE PollByWorkcell
  <2>1. CASE PollFaults \/ PollFaultsTwice \/ PollSucceeds
    BY <2>1, ExitPolled DEF PollFaults, PollFaultsTwice, PollSucceeds
  <2>2. CASE PollGoesOn
    <3>1. UNCHANGED <<active, lifecycle>> /\ Take("MotionPoll") /\ Tail(queue) \in Seq(Event)
      BY <1>0, <2>2, TakenPoll DEF PollGoesOn, TakePoll, taskVars
    <3>2. CASE now' >= active.deadline
      BY <3>1, <3>2 DEF PolledInv
    <3>3. CASE \E t \in Time : /\ t <= active.deadline
                               /\ queue' = Schedule(Tail(queue), MotionPollEvent(t, active))
      <4>1. PICK t \in Time : /\ t <= active.deadline
                              /\ queue' = Schedule(Tail(queue), MotionPollEvent(t, active))
        BY <3>3
      <4>2. active \in ActiveCommands
        BY <1>0, <2>2, OwnPollRuns DEF PollGoesOn
      <4>3. PolledFor(queue', active)
        BY <3>1, <4>1, <4>2, PolledFacts, PolledSchedule
      <4> QED
        BY <3>1, <4>3, NewlyPolled
    <3> QED
      BY <1>0, <2>2, <3>2, <3>3, NextPoll
  <2> QED
    BY <1>0, <1>1, <2>1, <2>2, PollEnds
<1>2. CASE MotionPollThrows \/ DelayComplete \/ CommandTimeout
  BY <1>2, ExitPolled DEF MotionPollThrows, DelayComplete, CommandTimeout
<1>3. CASE StalePoll
  BY <1>0, <1>3, TakenPolled DEF StalePoll, OwnPoll, AwaitsPoll, Drop, taskVars
<1>4. CASE StaleDelayComplete \/ StaleTimeout \/ StaleStopPoll
  BY <1>0, <1>4, TakenPolled DEF StaleDelayComplete, StaleTimeout, StaleStopPoll, Drop, taskVars
<1>5. CASE StillStopping
  BY <1>0, <1>5, NotAwaiting DEF StillStopping, OwnEpisode, taskVars
<1>6. CASE StopPollFails
  BY <1>6, ExitPolled DEF StopPollFails, FailStop
<1>7. CASE StopDeadline
  <2>1. CASE Drop
    BY <1>0, <1>7, <2>1, TakenPolled DEF StopDeadline, Drop, taskVars
  <2> QED
    BY <1>7, <2>1, ExitPolled DEF StopDeadline, FailStop
<1>8. CASE StopsConfirmed
  <2>1. CASE PauseConfirmed
    BY <2>1, PauseIsPausing, NotAwaiting DEF PauseConfirmed
  <2> QED
    BY <1>8, <2>1, ConfirmedKinds, NotAwaiting
<1> QED
  BY <1>1, <1>2, <1>3, <1>4, <1>5, <1>6, <1>7, <1>8
     DEF WorkcellEvent, PollByWorkcell, StopsConfirmed

LEMMA CommandPolled ==
  ASSUME SessionInv, PolledInv, WorkcellNextCommand
  PROVE  PolledInv'
<1>0. TypeOK /\ queue \in Seq(Event)
  BY DEF SessionInv, SafetyInv, EpisodeInv, TypeOK
<1>1. CASE ConnectFails \/ ServoCommandThrows \/ CommandPastTimeRange \/ StartMotionFails
           \/ DeviceCommandRejected \/ StopCommand
  BY <1>1, ExitPolled
     DEF ConnectFails, ServoCommandThrows, CommandPastTimeRange, StartPastTimeRange,
         StartMotionFails, DeviceCommandRejected, StartFault, StopCommand
<1>2. CASE ServoCommand \/ ZeroDelay
  <2>1. CallsNextCommand /\ active' = active
    BY <1>2 DEF ServoCommand, ZeroDelay, Pass, Start, StartsCommand
  <2>2. ~HasActive
    BY <2>1, CallsNothingActive DEF SessionInv
  <2> QED
    BY <2>1, <2>2, NotAwaiting DEF HasActive
<1>3. CASE StartDelay \/ InputAlreadyThere
  BY <1>3, NotAwaiting DEF StartDelay, Begin, InputAlreadyThere, WaitAlreadySatisfied
<1>4. CASE StartMotion
  <2> DEFINE a == Activate(program[next])
  <2>1. a \in ActiveCommands /\ a.deadline \in Time /\ now \in Time
    BY <1>0, <1>4, StartTyped DEF StartMotion, TypeOK
  <2>2. TimeoutEvent(a) \in Event
    BY <2>1, EventTypes
  <2>3. active' = a
    BY <1>4 DEF StartMotion, Begin
  <2>4. PICK delay \in PollDelays \cup {0} :
          LET poll == Least(a.deadline, SaturatingAdd(now, delay))
          IN queue' = Schedule(Schedule(queue, MotionPollEvent(poll, a)), TimeoutEvent(a))
    BY <1>4 DEF StartMotion
  <2> HIDE DEF a
  <2>5. PolledFor(queue', a)
    BY <1>0, <2>1, <2>2, <2>4, FirstPolled
  <2> QED
    BY <2>3, <2>5, NewlyPolled
<1>5. CASE StartOutput(AnyDelay) \/ StartTool(AnyDelay) \/ StartInputWait
  <2>1. PICK a : DeviceBegins(a)
    BY <1>0, <1>5, DeviceCommands
  <2> QED
    BY <2>1, NewlyPolled DEF DeviceBegins, Begin
<1> QED
  BY <1>1, <1>2, <1>3, <1>4, <1>5 DEF WorkcellNextCommand

LEMMA PolledStep ==
  ASSUME SessionInv, PolledInv, WorkcellNext
  PROVE  PolledInv'
<1>0. TypeOK /\ CommandInv /\ now \in Time /\ now' \in Time /\ queue \in Seq(Event)
  BY SessionStep DEF SessionInv, SafetyInv, EpisodeInv, TypeOK
<1>1. ASSUME NEW p \in Programs, WorkcellSubmit(p) PROVE PolledInv'
  BY <1>1, NotAwaiting DEF WorkcellSubmit, SubmitProgram, PrepareResult
<1>2. ASSUME NEW c \in ControlsUsed, SubmitControl(c) PROVE PolledInv'
  <2>1. ControlEvent(now, c) \in Event
    BY <1>0, SessionAssumption, EventTypes
  <2>2. /\ queue' = Schedule(queue, ControlEvent(now, c)) /\ UNCHANGED <<lifecycle, active>>
        /\ now' = now
    BY <1>2 DEF SubmitControl, taskVars
  <2>3. now' >= now
    BY <1>0, <2>2, SessionAssumption DEF Time
  <2> QED
    BY <1>0, <2>1, <2>2, <2>3, PolledSchedule, KeptPolled
<1>3. CASE HostAdvancesClock
  <2>1. /\ UNCHANGED <<queue, lifecycle, active>> /\ now' = now + 1
    BY <1>3 DEF HostAdvancesClock, taskVars
  <2>2. now' >= now
    BY <1>0, <2>1, SessionAssumption DEF Time
  <2> QED
    BY <1>0, <2>1, <2>2, KeptPolled
<1> QED
  BY <1>1, <1>2, <1>3, ControlPolled, EventPolled, CommandPolled
     DEF WorkcellNext, WorkcellAdvance, WorkcellEvent

-----------------------------------------------------------------------------
\* Only a STOP is stopped for the program's own end.
StopProgram == stop.disp = "ProgramComplete" => active.type = "STOP"

LEMMA StopProgramStep ==
  ASSUME SessionInv, StopProgram, WorkcellNext
  PROVE  StopProgram'
<1>0. StopPending <=> lifecycle \in StopLifecycles
  BY PendingWatched DEF SessionInv, SafetyInv, EpisodeInv
<1>1. CASE \E p \in Programs : WorkcellSubmit(p)
  BY <1>1 DEF WorkcellSubmit, SubmitProgram, PrepareResult, StopProgram, NoStop
<1>2. CASE Leaves
  BY <1>2 DEF Leaves, taskVars, StopProgram
<1>3. CASE Works
  BY <1>0, <1>3 DEF Works, AtWork, StopLifecycles, StopPending, StopProgram, NoStop
<1>4. CASE Halts
  <2>1. PICK q, command : \E disp \in {"Pause", "OperatorStop", "ProgramComplete"} :
          /\ BeginStop(q, disp, command, primary)
          /\ disp = "ProgramComplete" => command.type = "STOP"
    BY <1>4, Zenon DEF Halts, Halting
  <2>2. PICK disp \in {"Pause", "OperatorStop", "ProgramComplete"} :
          /\ BeginStop(q, disp, command, primary)
          /\ disp = "ProgramComplete" => command.type = "STOP"
    BY <2>1, Zenon
  <2>3. active' = command \/ FailStop(TRUE, primary)
    BY <2>2, Zenon DEF BeginStop
  <2> QED
    BY <2>2, <2>3, FaultKinds DEF FailStop, StopProgram
<1>5. CASE RaisesAlarm
  BY <1>5 DEF RaisesAlarm, StopProgram
<1>6. CASE StopsFail \/ EndsUnconnected
  BY <1>6, FaultKinds, TerminalKinds DEF StopsFail, FailStop, EndsUnconnected, StopProgram
<1>7. CASE StopsConfirmed
  <2>1. PauseConfirmed => stop'.disp = "None"
    BY DEF PauseConfirmed, NoStop
  <2>2. OperatorStopConfirmed \/ ProgramStopConfirmed => stop'.disp = "None"
    BY TerminalKinds, Zenon DEF OperatorStopConfirmed, ProgramStopConfirmed
  <2>3. FaultMadeSafe => stop'.disp = "None"
    BY FaultKinds, Zenon DEF FaultMadeSafe, FaultStopConfirmed
  <2>4. EmergencyMadeSafe => stop'.disp = "None"
    BY FaultKinds, TerminalKinds, Zenon DEF EmergencyMadeSafe, EmergencyStopConfirmed
  <2> QED
    BY <1>7, <2>1, <2>2, <2>3, <2>4 DEF StopsConfirmed, StopProgram
<1>8. CASE Resets
  BY <1>8 DEF Resets, WorkcellReset, ResetDisconnectFails, SafeStateReached, ResetAllowed,
     StopPending, StopProgram, NoStop
<1> QED
  BY <1>1, <1>2, <1>3, <1>4, <1>5, <1>6, <1>7, <1>8, StepKinds

-----------------------------------------------------------------------------
WorkcellInv ==
  SessionInv /\ SafeTypeOK /\ SafeMeansStill /\ SafeStateAsked /\ PolledInv /\ StopProgram

LEMMA WorkcellStarts == WorkcellInit => WorkcellInv
<1> SUFFICES ASSUME WorkcellInit PROVE WorkcellInv
  OBVIOUS
<1>1. Init => CommandInv /\ WorkNeedsConnection /\ PolledInv
  BY IdleCommand DEF Init, CommandInv, WorkNeedsConnection, PolledInv, AwaitsPoll, HasActive,
     StopPending
<1>2. SessionInv /\ PolledInv
  BY <1>1, SafetyInit DEF WorkcellInit, SessionInv
<1>3. SafeTypeOK /\ SafeMeansStill /\ SafeStateAsked /\ StopProgram
  BY DEF WorkcellInit, Init, SafeTypeOK, SafeMeansStill, SafeStateAsked, StopProgram, NoStop
<1> QED
  BY <1>2, <1>3 DEF WorkcellInv

LEMMA WorkcellKept == WorkcellInv /\ [WorkcellNext]_allVars => WorkcellInv'
<1>1. WorkcellInv /\ WorkcellNext => WorkcellInv'
  BY SessionStep, SafeTypeStep, StillStep, AskedStep, PolledStep, StopProgramStep DEF WorkcellInv
<1>2. WorkcellInv /\ UNCHANGED allVars => WorkcellInv'
  <2> SUFFICES ASSUME WorkcellInv, UNCHANGED allVars PROVE WorkcellInv'
    OBVIOUS
  <2>1. UNCHANGED <<vars, safeRequested, safeConfirmed, safeDeadline, safeGeneration, lastGeneration>>
    BY DEF allVars, workcellVars, safeVars
  <2>2. SessionInv'
    BY SessionStep DEF WorkcellInv
  <2>3. /\ UNCHANGED <<lifecycle, stop, active, connected, untrusted, primary, queue, now, moving>>
        /\ UNCHANGED <<safeRequested, safeConfirmed>>
    BY <2>1 DEF vars
  <2>4. SafeTypeOK' /\ SafeMeansStill' /\ SafeStateAsked' /\ StopProgram'
    BY <2>1, <2>3 DEF WorkcellInv, SafeTypeOK, SafeMeansStill, SafeStateAsked, StopProgram
  <2>5. PolledInv'
    BY <2>3 DEF WorkcellInv, PolledInv, AwaitsPoll, HasActive
  <2> QED
    BY <2>2, <2>4, <2>5 DEF WorkcellInv
<1> QED
  BY <1>1, <1>2

LEMMA WorkcellHolds == WorkcellSpec => []WorkcellInv
BY WorkcellStarts, WorkcellKept, PTL DEF WorkcellSpec

(***************************************************************************)
(* Whatever stops a connected task for an alarm, an emergency or a fault   *)
(* also asks the workcell for its safe state (runtime.cpp, BeginFault and  *)
(* the ESTOP branch of HandleControl, with RequestWorkcellSafeState).      *)
(***************************************************************************)
THEOREM SafeStateIsAsked == WorkcellSpec => []SafeStateAsked
<1>1. WorkcellInv => SafeStateAsked
  BY DEF WorkcellInv
<1> QED
  BY <1>1, WorkcellHolds, PTL

(***************************************************************************)
(* A command that waits for the device or the workcell always has its      *)
(* deadline in the queue, and a poll of its present generation for as long *)
(* as the deadline has not come (HandleMotionPoll, HandleNextCommand and   *)
(* ResumeActiveCommand).                                                   *)
(***************************************************************************)
THEOREM PolledTillTheEnd == WorkcellSpec => []PolledUntilDeadline
<1>1. WorkcellInv => PolledUntilDeadline
  <2> SUFFICES ASSUME WorkcellInv, AwaitsPoll
               PROVE  /\ Pending(TimeoutEvent(active))
                      /\ now >= active.deadline \/ PolledFor(queue, active)
    BY Zenon DEF PolledUntilDeadline, AwaitsPoll, PolledFor
  <2>1. Ends(queue, active) /\ EndEvent(active) = TimeoutEvent(active)
    BY DEF WorkcellInv, SessionInv, CommandInv, AwaitsPoll, Working, EndEvent
  <2>2. Pending(TimeoutEvent(active))
    BY <2>1 DEF Ends, Pending
  <2> QED
    BY <2>2 DEF WorkcellInv, PolledInv
<1> QED
  BY <1>1, WorkcellHolds, PTL

(***************************************************************************)
(* An emergency stop is reported as reached only from HandleStopConfirmed, *)
(* with the device still, its servo off and the workcell's safe state      *)
(* confirmed in time and for the newest snapshot.                          *)
(***************************************************************************)
THEOREM EmergencyEndsSafe == WorkcellSpec => EmergencyIsSafe
<1>1. WorkcellInv /\ [WorkcellNext]_allVars =>
        [ lifecycle = "EmergencyStopping" /\ lifecycle' = "EmergencyStopped" =>
            /\ ~moving' /\ servoDisabled'
            /\ safeConfirmed' /\ now' <= safeDeadline /\ safeGeneration' >= lastGeneration ]_allVars
  <2> SUFFICES ASSUME WorkcellInv, WorkcellNext, lifecycle = "EmergencyStopping",
                      lifecycle' = "EmergencyStopped"
               PROVE  /\ ~moving' /\ servoDisabled'
                      /\ safeConfirmed' /\ now' <= safeDeadline
                      /\ safeGeneration' >= lastGeneration
    OBVIOUS
  <2>0. SessionInv /\ SafeTypeOK /\ connected
    BY PendingWatched DEF WorkcellInv, SessionInv, SafetyInv, EpisodeInv, StopLifecycles,
       WorkNeedsConnection
  <2>1. StopsConfirmed
    <3>1. ~(\E p \in Programs : WorkcellSubmit(p))
      BY DEF WorkcellSubmit, SubmitProgram, ReplaceableRejection
    <3>2. ~Leaves /\ ~Works /\ ~Halts /\ ~RaisesAlarm
      BY DEF Leaves, taskVars, Works, Halts, RaisesAlarm, AtWork
    <3>3. ~StopsFail /\ ~EndsUnconnected
      BY <2>0, FaultKinds DEF StopsFail, FailStop, EndsUnconnected
    <3>4. ~Resets
      BY DEF Resets, WorkcellReset, ResetDisconnectFails
    <3> QED
      BY <2>0, <3>1, <3>2, <3>3, <3>4, StepKinds
  <2>2. EmergencyMadeSafe
    <3>1. ~PauseConfirmed
      BY <2>0, PauseIsPausing
    <3>2. ~OperatorStopConfirmed /\ ~ProgramStopConfirmed
      BY TerminalKinds DEF OperatorStopConfirmed, ProgramStopConfirmed
    <3>3. ~FaultMadeSafe
      BY FaultKinds DEF FaultMadeSafe, FaultStopConfirmed
    <3> QED
      BY <2>1, <3>1, <3>2, <3>3 DEF StopsConfirmed
  <2>3. EmergencyStopConfirmed /\ SafeStatePolled(FALSE)
    BY <2>2, FaultKinds DEF EmergencyMadeSafe
  <2>4. ~moving' /\ servoDisabled'
    <3>1. moving' = FALSE
      BY <2>3 DEF EmergencyStopConfirmed, StopConfirmed
    <3>2. lifecycle' # "Faulted"
      OBVIOUS
    <3>3. FinishTerminal("EmergencyStopped", TRUE, Raise(primary, "Recoverable"))
      BY <2>3, <3>2, FaultKinds, Zenon DEF EmergencyStopConfirmed
    <3>4. servoDisabled' = TRUE
      BY <3>3, TerminalKinds, Zenon
    <3> QED
      BY <3>1, <3>4
  <2>5. /\ safeConfirmed' /\ ~SafeStateLate /\ safeGeneration' = Greatest(0, lastGeneration)
    BY <2>3 DEF SafeStatePolled
  <2>6. /\ now' \in Int /\ safeDeadline \in Int /\ lastGeneration \in Int
    <3>1. now' \in Time
      BY <2>0, SessionStep DEF SessionInv, SafetyInv, EpisodeInv, TypeOK
    <3> QED
      BY <2>0, <3>1, SessionAssumption DEF Time, SafeTypeOK, NoDeadline, NoGeneration
  <2> QED
    BY <2>4, <2>5, <2>6 DEF SafeStateLate, Greatest
<1> QED
  BY <1>1, WorkcellHolds, PTL DEF WorkcellSpec, EmergencyIsSafe

\* The handlers that pass a command which waits for the workcell.
LEMMA PassedBySnapshot ==
  ASSUME WorkcellInv, WorkcellNext, HasActive, next' = next + 1,
         active.type \in {"WAIT_DI", "SET_TOOL", "SET_DO"}
  PROVE  SnapshotSatisfies(Snapshots)
<1>0. SessionInv /\ next \in Nat \ {0}
  BY DEF WorkcellInv, SessionInv, SafetyInv, EpisodeInv, TypeOK
<1>1. next' # next /\ next' # 1
  BY <1>0
<1>2. ~(\E p \in Programs : WorkcellSubmit(p))
  BY <1>1 DEF WorkcellSubmit, SubmitProgram, PrepareResult
<1>3. ~Leaves /\ ~Halts /\ ~RaisesAlarm /\ ~StopsFail /\ ~EndsUnconnected /\ ~Resets
  BY <1>1 DEF Leaves, Halts, RaisesAlarm, StopsFail, EndsUnconnected, Resets, WorkcellReset,
     ResetDisconnectFails
<1>4. ~ProgramStopConfirmed
  BY DEF ProgramStopConfirmed, StopConfirmed, WorkcellInv, StopProgram
<1>5. ~StopsConfirmed
  BY <1>1, <1>4 DEF StopsConfirmed, PauseConfirmed, OperatorStopConfirmed, FaultMadeSafe,
     FaultStopConfirmed, EmergencyMadeSafe, EmergencyStopConfirmed
<1>6. Works => SnapshotSatisfies(Snapshots)
  BY <1>1 DEF Works
<1> QED
  BY <1>0, <1>2, <1>3, <1>5, <1>6, StepKinds

(***************************************************************************)
(* A command that waits for the workcell is passed by HandleMotionPoll     *)
(* only, and only on a snapshot of a new generation that shows what the    *)
(* command waits for (ApplyWorkcellSnapshot).                              *)
(***************************************************************************)
THEOREM EvidenceIsFresh == WorkcellSpec => FreshEvidence
<1>1. WorkcellInv /\ [WorkcellNext]_allVars =>
        [ Passed /\ active.type \in {"WAIT_DI", "SET_TOOL", "SET_DO"} =>
            /\ lastGeneration' > lastGeneration
            /\ input'[Wanted.input] = Wanted.want ]_allVars
  <2> SUFFICES ASSUME WorkcellInv, WorkcellNext, HasActive, next' = next + 1,
                      active.type \in {"WAIT_DI", "SET_TOOL", "SET_DO"}
               PROVE  /\ lastGeneration' > lastGeneration
                      /\ input'[Wanted.input] = Wanted.want
    BY DEF Passed
  <2> QED
    BY PassedBySnapshot DEF SnapshotSatisfies, Satisfies, Shows, Fresh, Keep
<1> QED
  BY <1>1, WorkcellHolds, PTL DEF WorkcellSpec, FreshEvidence

(***************************************************************************)
(* ResetSession clears a session with a workcell only when the device has  *)
(* confirmed its stop, and leaves it trusted, disconnected and with its    *)
(* servo off.                                                              *)
(***************************************************************************)
THEOREM ResetEndsSafe == WorkcellSpec => ResetIsSafe
<1>1. WorkcellInv /\ [WorkcellNext]_allVars =>
        [ lifecycle' = "Idle" /\ lifecycle # "Idle" =>
            ~moving /\ servoDisabled' /\ ~connected' /\ ~untrusted' ]_allVars
  <2> SUFFICES ASSUME WorkcellInv, WorkcellNext, lifecycle' = "Idle", lifecycle # "Idle"
               PROVE  ~moving /\ servoDisabled' /\ ~connected' /\ ~untrusted'
    OBVIOUS
  <2>0. SessionInv
    BY DEF WorkcellInv
  <2>1. Resets
    <3>1. ~(\E p \in Programs : WorkcellSubmit(p))
      BY DEF WorkcellSubmit, SubmitProgram
    <3>2. ~Leaves /\ ~Works /\ ~RaisesAlarm
      BY DEF Leaves, taskVars, Works, RaisesAlarm, AtWork
    <3>3. ~Halts
      BY FaultKinds, StopLifecycleRange DEF Halts, Halting, StopLifecycles
    <3>4. ~StopsFail /\ ~EndsUnconnected
      BY FaultKinds, TerminalKinds DEF StopsFail, FailStop, EndsUnconnected
    <3>5. ~StopsConfirmed
      BY <2>0, ConfirmedKinds DEF PauseConfirmed
    <3> QED
      BY <2>0, <3>1, <3>2, <3>3, <3>4, <3>5, StepKinds
  <2>2. WorkcellReset(Snapshots)
    BY <2>1 DEF Resets, ResetDisconnectFails
  <2> QED
    BY <2>2 DEF WorkcellReset, SafeStateReached, ResetAllowed, WorkcellInv, SafeMeansStill
<1> QED
  BY <1>1, WorkcellHolds, PTL DEF WorkcellSpec, ResetIsSafe

-----------------------------------------------------------------------------
(***************************************************************************)
(* No handler and no command submits a control: those in the queue come    *)
(* from the host.                                                          *)
(***************************************************************************)
OldControls(p, q) == \A n \in DOMAIN p : p[n].type = "Control" => In(p[n], q)

LEMMA OldSchedule ==
  ASSUME NEW q, NEW p \in Seq(Event), OldControls(p, q), NEW e \in Event, e.type # "Control"
  PROVE  Schedule(p, e) \in Seq(Event) /\ OldControls(Schedule(p, e), q)
<1>1. \A n \in DOMAIN Schedule(p, e) :
        Schedule(p, e)[n] = e \/ \E i \in DOMAIN p : Schedule(p, e)[n] = p[i]
  BY ScheduleElements
<1> QED
  BY <1>1, ScheduleTyped DEF OldControls

LEMMA OldTail ==
  ASSUME queue \in Seq(Event), queue # <<>>
  PROVE  /\ OldControls(queue, queue) /\ OldControls(Tail(queue), queue)
         /\ \A p : Adds(p, Tail(queue)) \/ Adds(p, queue) => OldControls(p, queue)
<1>1. \A n \in DOMAIN Tail(queue) : In(Tail(queue)[n], queue)
  <2>1. /\ DOMAIN queue = 1 .. Len(queue) /\ Len(queue) \in Nat
        /\ Tail(queue) \in Seq(Event) /\ Len(Tail(queue)) = Len(queue) - 1
        /\ \A n \in 1 .. Len(Tail(queue)) : Tail(queue)[n] = queue[n + 1]
    BY HeadTailProperties, LenProperties, EmptySeq
  <2>2. DOMAIN Tail(queue) = 1 .. Len(queue) - 1
    BY <2>1, LenProperties
  <2> QED
    BY <2>1, <2>2 DEF In
<1> QED
  BY <1>1 DEF OldControls, Adds, In

\* Polls and deadlines.
LEMMA OwnKinds ==
  /\ \A t, a : MotionPollEvent(t, a).type # "Control"
  /\ \A a : TimeoutEvent(a).type # "Control" /\ DelayCompleteEvent(a).type # "Control"
  /\ \A t, s : StopPollEvent(t, s).type # "Control"
  /\ \A s : StopTimeoutEvent(s).type # "Control"
BY DEF MotionPollEvent, TimeoutEvent, DelayCompleteEvent, StopPollEvent, StopTimeoutEvent

LEMMA EpisodeControls ==
  ASSUME TypeOK, now' \in Time, NEW q, Tail(queue) \in Seq(Event), OldControls(Tail(queue), q),
         NEW disp \in Dispositions, NEW delay \in PollDelays \cup {0},
         LET episode == [id |-> nextStop, disp |-> disp,
                         deadline |-> SaturatingAdd(now', StopTimeout)]
             poll == Least(episode.deadline, SaturatingAdd(now', delay))
         IN queue' = Schedule(Schedule(Tail(queue), StopPollEvent(poll, episode)),
                              StopTimeoutEvent(episode))
  PROVE  OldControls(queue', q)
<1> DEFINE limit == SaturatingAdd(now', StopTimeout)
           episode == [id |-> nextStop, disp |-> disp, deadline |-> limit]
           poll == Least(limit, SaturatingAdd(now', delay))
<1>1. limit \in Time /\ delay \in Nat
  BY TimeArithmetic, SessionAssumption
<1>2. poll \in Time
  BY <1>1, PollTimes
<1>3. episode \in StopEpisodes /\ episode.deadline \in Time
  BY <1>1 DEF StopEpisodes, TypeOK
<1>4. queue' = Schedule(Schedule(Tail(queue), StopPollEvent(poll, episode)),
                        StopTimeoutEvent(episode))
  OBVIOUS
<1> HIDE DEF limit, episode, poll
<1>5. StopPollEvent(poll, episode) \in Event /\ StopTimeoutEvent(episode) \in Event
  BY <1>2, <1>3, EventTypes
<1> QED
  BY <1>4, <1>5, OldSchedule, OwnKinds

LEMMA WorkcellControls ==
  ASSUME SessionInv, StepByWorkcell
  PROVE  OldControls(queue', queue)
<1>0. TypeOK /\ queue \in Seq(Event) /\ EpisodeInv /\ CommandInv /\ SafetyInv
  BY DEF SessionInv, SafetyInv, EpisodeInv, TypeOK
<1>t. ASSUME Take("MotionPoll") \/ Take("Control")
      PROVE  /\ queue # <<>> /\ Tail(queue) \in Seq(Event) /\ now' \in Time
             /\ OldControls(Tail(queue), queue)
  BY <1>0, <1>t, TakenPoll, OldTail
<1>1. CASE PauseRefused \/ WorkcellResetRejected \/ ResetDisconnectFails(Snapshots)
  BY <1>1, <1>t DEF PauseRefused, WorkcellResetRejected, ResetDisconnectFails, TakeControl, Drop
<1>2. CASE WorkcellReset(Snapshots)
  BY <1>2 DEF WorkcellReset, OldControls
<1>3. CASE EstopRefused
  <2>1. EpisodeStarts \/ queue' = Tail(queue)
    BY <1>3, EstopRefusedEnds DEF EpisodeGoesOn, EpisodeFails
  <2>2. Take("Control")
    BY <1>3 DEF EstopRefused, TakeControl
  <2>3. CASE EpisodeStarts
    <3>1. PICK delay \in PollDelays \cup {0} :
            LET episode == [id |-> nextStop, disp |-> "Emergency",
                            deadline |-> SaturatingAdd(now', StopTimeout)]
                poll == Least(episode.deadline, SaturatingAdd(now', delay))
            IN queue' = Schedule(Schedule(Tail(queue), StopPollEvent(poll, episode)),
                                 StopTimeoutEvent(episode))
      BY <2>3 DEF EpisodeStarts
    <3>2. "Emergency" \in Dispositions
      BY DEF Dispositions
    <3> QED
      BY <1>0, <1>t, <2>2, <3>1, <3>2, EpisodeControls
  <2> QED
    BY <1>t, <2>1, <2>2, <2>3
<1>4. CASE ResumeWait
  <2>1. HasActive /\ active \in ActiveCommands /\ Take("Control")
    BY <1>0, <1>4 DEF ResumeWait, TakeControl, HasActive, NoCommand, LocalWait, TypeOK
  <2>2. Tail(queue) \in Seq(Event) /\ Resumed \in ActiveCommands /\ Resumed.deadline \in Time
    BY <1>0, <1>4, <1>t, <2>1, PausedTyped DEF ResumeWait
  <2> DEFINE t == Least(Resumed.deadline, SaturatingAdd(now', DefaultPoll))
  <2>3. t \in Time
    BY <1>t, <2>1, <2>2, PollTimes, AnyDelays
  <2>4. \/ queue' = Schedule(Tail(queue), DelayCompleteEvent(Resumed))
        \/ queue' = Schedule(Schedule(Tail(queue), TimeoutEvent(Resumed)),
                             MotionPollEvent(t, Resumed))
    BY <1>4 DEF ResumeWait
  <2> HIDE DEF t
  <2>5. /\ DelayCompleteEvent(Resumed) \in Event /\ TimeoutEvent(Resumed) \in Event
        /\ MotionPollEvent(t, Resumed) \in Event
    BY <2>2, <2>3, EventTypes
  <2> QED
    BY <1>t, <2>1, <2>4, <2>5, OldSchedule, OwnKinds
<1>5. CASE PollByWorkcell
  <2>1. Take("MotionPoll")
    BY <1>0, <1>5, PollEnds
       DEF PollFaults, PollFaultsTwice, PollSucceeds, PollGoesOn, TakePoll
  <2>2. CASE MotionFailsUnderAlarm(Snapshots)
    <3>1. PICK delay \in PollDelays \cup {0} :
            LET episode == [id |-> nextStop, disp |-> "Fault",
                            deadline |-> SaturatingAdd(now', StopTimeout)]
                poll == Least(episode.deadline, SaturatingAdd(now', delay))
            IN queue' = Schedule(Schedule(Tail(queue), StopPollEvent(poll, episode)),
                                 StopTimeoutEvent(episode))
      BY <2>2 DEF MotionFailsUnderAlarm
    <3>2. "Fault" \in Dispositions
      BY DEF Dispositions
    <3> QED
      BY <1>0, <1>t, <2>1, <3>1, <3>2, EpisodeControls
  <2>3. CASE SnapshotAlarms(Snapshots) \/ ToolFails(Snapshots) \/ MotionFailed(Snapshots)
    <3>1. \E kind : BeginFault(Tail(queue), connected, kind, active)
      BY <2>3 DEF SnapshotAlarms, ToolFails, MotionFailed
    <3>2. Adds(queue', Tail(queue))
      BY <1>0, <1>t, <2>1, <3>1, BeginFaultAdds, AddsSame
    <3> QED
      BY <1>0, <1>t, <2>1, <3>2, OldTail
  <2>4. CASE SnapshotSatisfies(Snapshots) \/ MotionDone(Snapshots)
    BY <1>t, <2>1, <2>4 DEF SnapshotSatisfies, MotionDone, Succeed
  <2>5. CASE StillWaiting(Snapshots) \/ MotionStillRunning(Snapshots)
    <3>1. PollGoesOn
      BY <2>5, AnyDelays DEF StillWaiting, MotionStillRunning, PollGoesOn
    <3> QED
      BY <1>0, <1>t, <2>1, <3>1, NextPoll, OldSchedule, OwnKinds
  <2> QED
    BY <1>5, <2>2, <2>3, <2>4, <2>5 DEF PollByWorkcell
<1>6. CASE RefusedSafeState
  <2>1. Take("StopPoll") /\ queue' = Tail(queue)
    BY <1>6 DEF RefusedSafeState, StopConfirmed, Resolve
  <2> QED
    BY <1>0, <2>1, TakeTyped, OldTail
<1>7. CASE OutputPastTimeRange \/ DeviceCommandRejected
  <2>1. PICK kind, command : StartFault(kind, command) /\ now' \in Time
    BY <1>0, <1>7, DeviceFaults
  <2>2. Adds(queue', queue)
    BY <1>0, <2>1, BeginFaultAdds, AddsSame DEF StartFault
  <2> QED
    BY <2>2 DEF Adds, OldControls
<1>8. CASE StartOutput(AnyDelay) \/ StartTool(AnyDelay) \/ StartInputWait
  <2> DEFINE a == Activate(program[next])
  <2>1. PICK type \in {"SET_DO", "SET_TOOL", "WAIT_DI"} :
          Start(type) /\ InRange(now, program[next].timeout)
    BY <1>8 DEF StartOutput, StartTool, StartInputWait, DeviceCommandAccepted
  <2>2. a \in ActiveCommands /\ a.deadline \in Time /\ now \in Time
    BY <1>0, <2>1, StartTyped DEF TypeOK
  <2>3. PICK delay \in AnyDelay :
          \/ queue' = Schedule(Schedule(queue, PollFirst(a, delay)), TimeoutEvent(a))
          \/ queue' = Schedule(Schedule(queue, TimeoutEvent(a)), PollFirst(a, delay))
    BY <1>8 DEF StartOutput, StartTool, StartInputWait, DeviceCommandAccepted, AnyDelay
  <2>4. Least(a.deadline, SaturatingAdd(now, delay)) \in Time
    BY <2>2, AnyDelays, PollTimes
  <2> HIDE DEF a
  <2>5. /\ TimeoutEvent(a) \in Event /\ TimeoutEvent(a).type # "Control"
        /\ PollFirst(a, delay) \in Event /\ PollFirst(a, delay).type # "Control"
    BY <2>2, <2>4, EventTypes, OwnKinds DEF PollFirst
  <2>6. OldControls(queue, queue)
    BY DEF OldControls, In
  <2> QED
    BY <1>0, <2>3, <2>5, <2>6, OldSchedule
<1> QED
  BY <1>1, <1>2, <1>3, <1>4, <1>5, <1>6, <1>7, <1>8
     DEF StepByWorkcell, ControlByWorkcell, CommandByWorkcell

LEMMA ControlsFromHost ==
  ASSUME SessionInv, WorkcellAdvance
  PROVE  OldControls(queue', queue)
<1>1. TypeOK /\ queue \in Seq(Event)
  BY DEF SessionInv, SafetyInv, EpisodeInv, TypeOK
<1>2. CASE StepByWorkcell
  BY <1>2, WorkcellControls
<1>3. CASE HandleEvent
  <2>1. Adds(queue', Tail(queue))
    BY <1>1, <1>3, ControlAdds, EventAdds
  <2>2. queue # <<>>
    BY <1>3, EventTakes DEF MustProcessEvent
  <2> QED
    BY <1>1, <2>1, <2>2, OldTail
<1>4. CASE HandleNextCommand
  <2>1. Adds(queue', queue)
    BY <1>1, <1>4, NextCommandAdds
  <2> QED
    BY <2>1 DEF Adds, OldControls
<1>5. HandleEvent \/ HandleNextCommand \/ StepByWorkcell
  BY WorkcellKinds
<1> QED
  BY <1>2, <1>3, <1>4, <1>5
=============================================================================
