------------------------ MODULE SessionSafetyProofs ------------------------
(***************************************************************************)
(* Safety of a Runtime Session, for every value of the constants: work     *)
(* needs a connection; a pending stop cannot be lost; what an alarm and a  *)
(* pending stop rule out; and an active command cannot wait for ever.      *)
(***************************************************************************)
EXTENDS SessionTypeProofs

-----------------------------------------------------------------------------
(***************************************************************************)
(* WorkNeedsConnection is inductive as it stands.                          *)
(***************************************************************************)
LEMMA BeginStopConnected ==
  ASSUME NEW q, NEW disp, NEW command, NEW prim, BeginStop(q, disp, command, prim)
  PROVE  WorkNeedsConnection'
<1>1. CASE connected' = TRUE
  BY <1>1 DEF WorkNeedsConnection
<1>2. CASE FailStop(TRUE, prim)
  BY <1>2 DEF FailStop, FinishFault, WorkNeedsConnection, HasActive, StopPending
<1> QED
  BY <1>1, <1>2 DEF BeginStop

LEMMA FinishConnected ==
  /\ \A conn, disabled, distrust, prim :
       FinishFault(conn, disabled, distrust, prim) => WorkNeedsConnection'
  /\ \A result, disabled, prim :
       FinishTerminal(result, disabled, prim) => WorkNeedsConnection'
<1>1. \A conn, disabled, distrust, prim :
        FinishFault(conn, disabled, distrust, prim) => WorkNeedsConnection'
  BY DEF FinishFault, WorkNeedsConnection, HasActive, StopPending
<1>2. \A result, disabled, prim :
        FinishTerminal(result, disabled, prim) => WorkNeedsConnection'
  BY <1>1 DEF FinishTerminal, WorkNeedsConnection, HasActive, StopPending
<1> QED
  BY <1>1, <1>2

LEMMA BeginFaultConnected ==
  ASSUME NEW q, NEW conn, NEW kind, NEW command, BeginFault(q, conn, kind, command)
  PROVE  WorkNeedsConnection'
BY BeginStopConnected, FinishConnected DEF BeginFault

\* What a handler leaves alone keeps the connection needed and given.
LEMMA SameWorkConnected ==
  ASSUME WorkNeedsConnection, UNCHANGED <<stop, connected>>, HasActive' => HasActive
  PROVE  WorkNeedsConnection'
BY DEF WorkNeedsConnection, HasActive, StopPending

LEMMA ConnectionStep ==
  ASSUME WorkNeedsConnection, [Next]_vars
  PROVE  WorkNeedsConnection'
<1>1. CASE UNCHANGED vars
  BY <1>1, SameWorkConnected DEF vars, HasActive
<1>2. CASE \E p \in Programs : SubmitProgram(p)
  BY <1>2 DEF SubmitProgram, PrepareResult, WorkNeedsConnection, HasActive, StopPending
<1>3. CASE (\E c \in ControlsUsed : SubmitControl(c)) \/ HostAdvancesClock
  BY <1>3, SameWorkConnected DEF SubmitControl, HostAdvancesClock, taskVars, HasActive
<1>4. Drop => WorkNeedsConnection'
  BY SameWorkConnected DEF Drop, taskVars, HasActive
<1>5. ASSUME NEW q, Succeed(q) PROVE WorkNeedsConnection'
  BY <1>5, SameWorkConnected DEF Succeed, HasActive
<1>6. CASE HandleControl
  <2>1. CASE ControlWithoutEffect \/ ResetRejected
    BY <1>4, <2>1 DEF ControlWithoutEffect, ResetRejected
  <2>2. CASE PauseBetweenCommands \/ ResumeBetweenCommands \/ Reset
    BY <2>2, SameWorkConnected DEF PauseBetweenCommands, ResumeBetweenCommands, Reset, HasActive
  <2>3. CASE PauseMotion
    BY <2>3, BeginStopConnected DEF PauseMotion
  <2>4. CASE PauseLocalWait \/ ResumeMotion \/ ResumeLocalWait
    BY <2>4, SameWorkConnected
       DEF PauseLocalWait, ResumeMotion, ResumeLocalWait, HasActive, NoCommand, LocalWait
  <2>5. CASE ResumeMotionFails \/ ResumePastTimeRange
    BY <2>5, BeginFaultConnected DEF ResumeMotionFails, ResumePastTimeRange, ResumeFault
  <2>6. CASE ResumeSatisfiedWait
    BY <1>5, <2>6 DEF ResumeSatisfiedWait
  <2>7. CASE Stop
    <3>1. CASE StopPending
      BY <2>7, <3>1, SameWorkConnected DEF Stop, taskVars, HasActive
    <3>2. CASE ~StopPending
      BY <2>7, <3>2, BeginStopConnected, FinishConnected DEF Stop
    <3> QED
      BY <3>1, <3>2
  <2>8. CASE Estop
    <3>1. CASE StopPending
      BY <2>8, <3>1 DEF Estop, WorkNeedsConnection
    <3>2. CASE ~StopPending
      BY <2>8, <3>2, BeginStopConnected, FinishConnected DEF Estop
    <3> QED
      BY <3>1, <3>2
  <2> QED
    BY <1>6, <2>1, <2>2, <2>3, <2>4, <2>5, <2>6, <2>7, <2>8 DEF HandleControl
<1>7. CASE HandleEvent /\ ~HandleControl
  <2>1. CASE StaleMotionPoll \/ StaleDelayComplete \/ StaleTimeout \/ StaleStopPoll
    BY <1>4, <2>1 DEF StaleMotionPoll, StaleDelayComplete, StaleTimeout, StaleStopPoll
  <2>2. CASE MotionRunning \/ StillStopping
    BY <2>2, SameWorkConnected DEF MotionRunning, StillStopping, taskVars, HasActive
  <2>3. CASE MotionSucceeded \/ DelayComplete
    BY <1>5, <2>3 DEF MotionSucceeded, DelayComplete
  <2>4. CASE MotionFails \/ CommandTimeout \/ ConnectionLoss
    BY <2>4, BeginFaultConnected DEF MotionFails, CommandTimeout, ConnectionLoss
  <2>5. CASE StopPollFails \/ StopDeadline
    BY <1>4, <2>5, FinishConnected DEF StopPollFails, StopDeadline, FailStop
  <2>6. CASE PauseConfirmed
    BY <2>6 DEF PauseConfirmed, StopConfirmed, OwnEpisode, WorkNeedsConnection
  <2>7. CASE FaultStopConfirmed \/ EmergencyStopConfirmed \/ OperatorStopConfirmed
             \/ ProgramStopConfirmed
    BY <2>7, FinishConnected DEF FaultStopConfirmed, EmergencyStopConfirmed,
       OperatorStopConfirmed, ProgramStopConfirmed
  <2>8. CASE InputChange
    <3>1. CASE Succeed(Tail(queue))
      BY <1>5, <3>1
    <3>2. CASE UNCHANGED taskVars
      BY <3>2, SameWorkConnected DEF taskVars, HasActive
    <3> QED
      BY <2>8, <3>1, <3>2 DEF InputChange
  <2> QED
    BY <1>7, <2>1, <2>2, <2>3, <2>4, <2>5, <2>6, <2>7, <2>8 DEF HandleEvent
<1>8. CASE HandleNextCommand
  <2>1. CASE ConnectFails \/ ServoCommandThrows \/ StartPastTimeRange \/ StartMotionFails
    BY <2>1, BeginFaultConnected
       DEF ConnectFails, ServoCommandThrows, StartPastTimeRange, StartMotionFails, StartFault
  <2>2. CASE connected' = TRUE
    BY <2>2 DEF WorkNeedsConnection
  <2>3. CASE StopCommand
    BY <2>3, BeginStopConnected DEF StopCommand
  <2> QED
    BY <1>8, <2>1, <2>2, <2>3
       DEF HandleNextCommand, ServoCommand, SetDo, ZeroDelay, Pass, StartMotion, StartDelay,
           StartWait, Begin, WaitAlreadySatisfied
<1> QED
  BY <1>1, <1>2, <1>3, <1>6, <1>7, <1>8 DEF Next, Advance

(***************************************************************************)
(* Only a connected session has work under way, whatever the programs, the *)
(* controls and the answers of the device (runtime.cpp, BeginStop's branch *)
(* for a session that is not connected is dead code).                      *)
(***************************************************************************)
THEOREM WorkConnected == Spec => []WorkNeedsConnection
<1>1. Init => WorkNeedsConnection
  BY DEF Init, WorkNeedsConnection, HasActive, StopPending
<1>2. WorkNeedsConnection /\ [Next]_vars => WorkNeedsConnection'
  BY ConnectionStep
<1> QED
  BY <1>1, <1>2, PTL DEF Spec

-----------------------------------------------------------------------------
(***************************************************************************)
(* StopEpisodeWatched.  Watched(q, s) is what it asks of a queue q and a   *)
(* pending episode s.                                                      *)
(***************************************************************************)
StopLifecycles == {"Pausing", "Stopping", "EmergencyStopping"}

PollOf(e, s) == e.type = "StopPoll" /\ e.id = s.id /\ e.time <= s.deadline

Watched(q, s) ==
  /\ \E n \in DOMAIN q : PollOf(q[n], s)
  /\ \E n \in DOMAIN q : q[n] = StopTimeoutEvent(s)

EpisodeOK(l, s, q) ==
  /\ s # NoStop <=> l \in StopLifecycles
  /\ s # NoStop => l = StopLifecycle(s.disp) /\ Watched(q, s)

LEMMA EpisodeForm ==
  /\ StopEpisodeWatched <=> EpisodeOK(lifecycle, stop, queue)
  /\ StopEpisodeWatched' <=> EpisodeOK(lifecycle', stop', queue')
BY Zenon DEF StopEpisodeWatched, EpisodeOK, StopPending, StopLifecycles, Watched, PollOf, PollPending,
       Pending

\* A pause is only asked for while a command is under way.
PauseHasCommand == stop.disp = "Pause" => HasActive

EpisodeInv == TypeOK /\ StopEpisodeWatched /\ PauseHasCommand

LEMMA StopLifecycleRange ==
  \A disp : /\ StopLifecycle(disp) \in StopLifecycles
            /\ StopLifecycle(disp) = "Pausing" => disp = "Pause"
BY Zenon DEF StopLifecycle, StopLifecycles

\* Scheduling an event loses nothing.
LEMMA ScheduleKeeps ==
  ASSUME NEW q \in Seq(Event), NEW e \in Event
  PROVE  /\ \E n \in DOMAIN Schedule(q, e) : Schedule(q, e)[n] = e
         /\ \A i \in DOMAIN q : \E n \in DOMAIN Schedule(q, e) : Schedule(q, e)[n] = q[i]
BY ScheduleElements

LEMMA WatchedSchedule ==
  ASSUME NEW q \in Seq(Event), NEW e \in Event, NEW s, Watched(q, s)
  PROVE  Watched(Schedule(q, e), s)
BY ScheduleKeeps DEF Watched

\* Taking the first event loses only that one.
LEMMA TailKeeps ==
  ASSUME NEW q \in Seq(Event), NEW i \in DOMAIN q, q[i] # Head(q)
  PROVE  \E n \in DOMAIN Tail(q) : Tail(q)[n] = q[i]
<1>1. q # <<>>
  BY EmptySeq
<1>2. /\ Len(q) \in Nat /\ DOMAIN q = 1 .. Len(q) /\ Head(q) = q[1]
      /\ DOMAIN Tail(q) = 1 .. Len(q) - 1
      /\ \A n \in 1 .. Len(q) - 1 : Tail(q)[n] = q[n + 1]
  BY <1>1, HeadTailProperties, LenProperties, EmptySeq
<1>3. i - 1 \in 1 .. Len(q) - 1 /\ (i - 1) + 1 = i
  BY <1>2
<1> QED
  BY <1>2, <1>3

LEMMA WatchedTail ==
  ASSUME NEW q \in Seq(Event), NEW s, Watched(q, s),
         ~PollOf(Head(q), s), Head(q) # StopTimeoutEvent(s)
  PROVE  Watched(Tail(q), s)
BY TailKeeps DEF Watched

LEMMA WatchedNotEmpty ==
  ASSUME NEW q, NEW s, Watched(q, s)
  PROVE  q # <<>>
BY EmptySeq DEF Watched

\* A new episode is watched from its first moment: the queue holds its poll and its deadline.
LEMMA EpisodeBegins ==
  ASSUME TypeOK, now' \in Time, NEW q \in Seq(Event), NEW disp \in Dispositions,
         NEW delay \in PollDelays \cup {0}, disp = "Pause" => HasActive',
         LET episode == [id |-> nextStop, disp |-> disp,
                         deadline |-> SaturatingAdd(now', StopTimeout)]
             poll == Least(episode.deadline, SaturatingAdd(now', delay))
         IN /\ stop' = episode /\ lifecycle' = StopLifecycle(disp)
            /\ queue' = Schedule(Schedule(q, StopPollEvent(poll, episode)),
                                 StopTimeoutEvent(episode))
  PROVE  /\ StopEpisodeWatched' /\ PauseHasCommand'
         /\ stop' \in StopEpisodes /\ stop'.disp = disp /\ queue' \in Seq(Event)
<1> DEFINE episode == [id |-> nextStop, disp |-> disp,
                       deadline |-> SaturatingAdd(now', StopTimeout)]
           poll == Least(episode.deadline, SaturatingAdd(now', delay))
           first == Schedule(q, StopPollEvent(poll, episode))
           last == Schedule(first, StopTimeoutEvent(episode))
<1>1. StopTimeout \in Nat /\ delay \in Nat
  BY SessionAssumption
<1>2. episode.deadline \in Time /\ poll \in Time /\ poll <= episode.deadline
  <2>1. SaturatingAdd(now', StopTimeout) \in Time /\ SaturatingAdd(now', delay) \in Time
    BY <1>1, TimeArithmetic
  <2>2. \A t, u \in Time : Least(t, u) \in Time /\ Least(t, u) <= t
    BY SessionAssumption DEF Least, Time
  <2> QED
    BY <2>1, <2>2
<1>3. episode \in StopEpisodes /\ episode # NoStop /\ episode.disp = disp
  BY <1>2 DEF StopEpisodes, TypeOK, NoStop
<1>4. stop' = episode /\ lifecycle' = StopLifecycle(disp) /\ queue' = last
  OBVIOUS
<1> HIDE DEF episode, poll
<1>5. StopPollEvent(poll, episode) \in Event /\ StopTimeoutEvent(episode) \in Event
  BY <1>2, <1>3, EventTypes
<1>6. PollOf(StopPollEvent(poll, episode), episode)
  BY <1>2 DEF PollOf, StopPollEvent
<1>7. first \in Seq(Event) /\ \E n \in DOMAIN first : first[n] = StopPollEvent(poll, episode)
  BY <1>5, ScheduleTyped, ScheduleElements
<1> HIDE DEF first
<1>8. last \in Seq(Event)
  BY <1>5, <1>7, ScheduleTyped
<1>9. /\ \E n \in DOMAIN last : last[n] = StopTimeoutEvent(episode)
      /\ \E n \in DOMAIN last : last[n] = StopPollEvent(poll, episode)
  BY <1>5, <1>7, ScheduleElements
<1> HIDE DEF last
<1>10. Watched(last, episode)
  BY <1>6, <1>9 DEF Watched
<1>11. EpisodeOK(lifecycle', stop', queue')
  BY <1>3, <1>4, <1>10, StopLifecycleRange DEF EpisodeOK
<1>12. PauseHasCommand'
  BY <1>3, <1>4 DEF PauseHasCommand
<1> QED
  BY <1>3, <1>4, <1>8, <1>11, <1>12, EpisodeForm

LEMMA BeginStopWatched ==
  ASSUME TypeOK, now' \in Time, NEW q \in Seq(Event), NEW disp \in Dispositions,
         NEW command \in ActiveCommands \cup {NoCommand}, NEW prim \in Alarms,
         disp = "Pause" => command # NoCommand,
         BeginStop(q, disp, command, prim)
  PROVE  StopEpisodeWatched' /\ PauseHasCommand'
<1>1. ASSUME NEW delay \in PollDelays \cup {0},
             LET episode == [id |-> nextStop, disp |-> disp,
                             deadline |-> SaturatingAdd(now', StopTimeout)]
                 poll == Least(episode.deadline, SaturatingAdd(now', delay))
             IN /\ stop' = episode /\ active' = command
                /\ lifecycle' = StopLifecycle(disp)
                /\ queue' = Schedule(Schedule(q, StopPollEvent(poll, episode)),
                                     StopTimeoutEvent(episode))
      PROVE  StopEpisodeWatched' /\ PauseHasCommand'
  <2>1. disp = "Pause" => HasActive'
    BY <1>1 DEF HasActive
  <2> QED
    BY <1>1, <2>1, EpisodeBegins
<1>2. CASE FailStop(TRUE, prim)
  <2>1. lifecycle' = "Faulted" /\ stop' = NoStop
    BY <1>2 DEF FailStop, FinishFault
  <2>2. EpisodeOK(lifecycle', stop', queue')
    BY <2>1 DEF EpisodeOK, StopLifecycles
  <2> QED
    BY <2>1, <2>2, EpisodeForm DEF PauseHasCommand, NoStop
<1> QED
  BY <1>1, <1>2 DEF BeginStop

\* An episode that is resolved, or was never begun, asks for nothing.
LEMMA EndedWatched ==
  ASSUME stop' = NoStop, lifecycle' \notin StopLifecycles
  PROVE  StopEpisodeWatched' /\ PauseHasCommand'
<1>1. EpisodeOK(lifecycle', stop', queue')
  BY DEF EpisodeOK
<1> QED
  BY <1>1, EpisodeForm DEF PauseHasCommand, NoStop

LEMMA FinishWatched ==
  /\ \A conn, disabled, distrust, prim :
       FinishFault(conn, disabled, distrust, prim) => StopEpisodeWatched' /\ PauseHasCommand'
  /\ \A result, disabled, prim :
       FinishTerminal(result, disabled, prim) => StopEpisodeWatched' /\ PauseHasCommand'
<1>1. \A conn, disabled, distrust, prim :
        FinishFault(conn, disabled, distrust, prim) => StopEpisodeWatched' /\ PauseHasCommand'
  BY EndedWatched DEF FinishFault, StopLifecycles
<1>2. \A result, disabled, prim :
        FinishTerminal(result, disabled, prim) => StopEpisodeWatched' /\ PauseHasCommand'
  BY <1>1, EndedWatched DEF FinishTerminal, StopLifecycles
<1> QED
  BY <1>1, <1>2

LEMMA BeginFaultWatched ==
  ASSUME TypeOK, now' \in Time, NEW q \in Seq(Event), NEW conn \in BOOLEAN,
         NEW kind \in {"Recoverable", "Fatal"}, NEW command \in ActiveCommands \cup {NoCommand},
         BeginFault(q, conn, kind, command)
  PROVE  StopEpisodeWatched' /\ PauseHasCommand'
<1>1. Raise(primary, kind) \in Alarms
  BY DEF Raise, Alarms, TypeOK
<1>2. CASE conn /\ ~StopPending
  <2>1. BeginStop(q, "Fault", command, Raise(primary, kind))
    BY <1>2 DEF BeginFault
  <2> QED
    BY <1>1, <2>1, BeginStopWatched DEF Dispositions
<1>3. CASE ~(conn /\ ~StopPending)
  BY <1>3, FinishWatched DEF BeginFault
<1> QED
  BY <1>2, <1>3

\* A step that leaves a pending episode alone must leave its two events in the queue.
LEMMA KeptWatched ==
  ASSUME StopEpisodeWatched, PauseHasCommand, UNCHANGED stop,
         StopPending => UNCHANGED lifecycle /\ Watched(queue', stop) /\ (HasActive => HasActive'),
         ~StopPending => lifecycle' \notin StopLifecycles
  PROVE  StopEpisodeWatched' /\ PauseHasCommand'
<1>1. EpisodeOK(lifecycle, stop, queue)
  BY EpisodeForm
<1>2. CASE StopPending
  <2>1. EpisodeOK(lifecycle', stop', queue')
    BY <1>1, <1>2 DEF EpisodeOK, StopPending
  <2> QED
    BY <1>2, <2>1, EpisodeForm DEF PauseHasCommand
<1>3. CASE ~StopPending
  BY <1>3, EndedWatched DEF StopPending
<1> QED
  BY <1>2, <1>3

\* What is known of the queue while an episode is pending.
LEMMA PendingWatched ==
  ASSUME StopEpisodeWatched
  PROVE  /\ StopPending <=> lifecycle \in StopLifecycles
         /\ StopPending => Watched(queue, stop) /\ queue # <<>> /\ lifecycle = StopLifecycle(stop.disp)
<1>1. EpisodeOK(lifecycle, stop, queue)
  BY EpisodeForm
<1> QED
  BY <1>1, WatchedNotEmpty DEF EpisodeOK, StopPending

\* Taking any other event than one of the pending episode.
LEMMA TakenWatched ==
  ASSUME EpisodeInv, NEW type, Take(type),
         StopPending => ~PollOf(Head(queue), stop) /\ Head(queue) # StopTimeoutEvent(stop)
  PROVE  StopPending => Watched(Tail(queue), stop)
<1>1. queue \in Seq(Event) /\ queue # <<>>
  BY TakeTyped DEF EpisodeInv, TypeOK
<1> QED
  BY <1>1, PendingWatched, WatchedTail DEF EpisodeInv

\* The events of an episode are told by their type.
LEMMA OtherEvent ==
  ASSUME NEW e, e.type \notin {"StopPoll", "StopTimeout"}, NEW s
  PROVE  ~PollOf(e, s) /\ e # StopTimeoutEvent(s)
BY DEF PollOf, StopTimeoutEvent

LEMMA DropWatched ==
  ASSUME EpisodeInv, NEW type, Take(type), Drop,
         StopPending => ~PollOf(Head(queue), stop) /\ Head(queue) # StopTimeoutEvent(stop)
  PROVE  StopEpisodeWatched' /\ PauseHasCommand'
<1>1. StopPending => Watched(Tail(queue), stop)
  BY TakenWatched
<1>2. queue' = Tail(queue) /\ UNCHANGED <<stop, lifecycle, active>>
  BY DEF Drop, taskVars
<1>3. lifecycle \in StopLifecycles <=> StopPending
  BY PendingWatched DEF EpisodeInv
<1> QED
  BY <1>1, <1>2, <1>3, KeptWatched DEF EpisodeInv, HasActive

LEMMA HostWatched ==
  ASSUME EpisodeInv,
         \/ \E p \in Programs : SubmitProgram(p)
         \/ \E c \in ControlsUsed : SubmitControl(c)
         \/ HostAdvancesClock
  PROVE  StopEpisodeWatched' /\ PauseHasCommand'
<1>0. /\ StopPending => Watched(queue, stop)
      /\ StopPending <=> lifecycle \in StopLifecycles
  BY PendingWatched DEF EpisodeInv
<1>1. ASSUME NEW p \in Programs, SubmitProgram(p)
      PROVE  StopEpisodeWatched' /\ PauseHasCommand'
  BY <1>1, EndedWatched DEF SubmitProgram, PrepareResult, StopLifecycles
<1>2. ASSUME NEW c \in ControlsUsed, SubmitControl(c)
      PROVE  StopEpisodeWatched' /\ PauseHasCommand'
  <2>1. ControlEvent(now, c) \in Event /\ queue \in Seq(Event)
    BY SessionAssumption, EventTypes DEF EpisodeInv, TypeOK
  <2>2. queue' = Schedule(queue, ControlEvent(now, c)) /\ UNCHANGED <<stop, lifecycle, active>>
    BY <1>2 DEF SubmitControl, taskVars
  <2>3. StopPending => Watched(queue', stop)
    BY <1>0, <2>1, <2>2, WatchedSchedule
  <2> QED
    BY <1>0, <2>2, <2>3, KeptWatched DEF EpisodeInv, HasActive
<1>3. ASSUME HostAdvancesClock
      PROVE  StopEpisodeWatched' /\ PauseHasCommand'
  <2>1. UNCHANGED <<stop, lifecycle, active, queue>>
    BY <1>3 DEF HostAdvancesClock, taskVars
  <2> QED
    BY <1>0, <2>1, KeptWatched DEF EpisodeInv, HasActive
<1> QED
  BY <1>1, <1>2, <1>3

\* A command that succeeds is running or waiting, so that no stop is pending.
LEMMA SucceedWatched ==
  ASSUME EpisodeInv, NEW q, Succeed(q), lifecycle \notin StopLifecycles
  PROVE  StopEpisodeWatched' /\ PauseHasCommand'
<1>1. ~StopPending
  BY PendingWatched DEF EpisodeInv
<1>2. UNCHANGED stop /\ lifecycle' = "Running"
  BY DEF Succeed
<1> QED
  BY <1>1, <1>2, EndedWatched DEF StopPending, StopLifecycles

LEMMA ControlWatched ==
  ASSUME EpisodeInv, HandleControl
  PROVE  StopEpisodeWatched' /\ PauseHasCommand'
<1>0. /\ StopPending <=> lifecycle \in StopLifecycles
      /\ \A c : TakeControl(c) => /\ Tail(queue) \in Seq(Event) /\ now' \in Time
                                  /\ StopPending => Watched(Tail(queue), stop)
  BY PendingWatched, TakeTyped, TakenWatched, OtherEvent DEF TakeControl, EpisodeInv, Take
<1>1. CASE ControlWithoutEffect \/ ResetRejected
  <2>1. Take("Control") /\ Drop
    BY <1>1 DEF ControlWithoutEffect, ResetRejected, TakeControl
  <2>2. Head(queue).type = "Control"
    BY <2>1 DEF Take
  <2> QED
    BY <2>1, <2>2, DropWatched, OtherEvent
<1>2. CASE /\ UNCHANGED stop /\ lifecycle \notin StopLifecycles
           /\ lifecycle' \notin StopLifecycles
  BY <1>0, <1>2, EndedWatched DEF StopPending
<1>3. CASE \/ PauseBetweenCommands \/ PauseLocalWait \/ ResumeBetweenCommands \/ ResumeMotion
           \/ ResumeLocalWait
  BY <1>2, <1>3
     DEF PauseBetweenCommands, PauseLocalWait, ResumeBetweenCommands, ResumeMotion,
         ResumeLocalWait, StopLifecycles
<1>4. CASE PauseMotion
  <2>1. HasActive /\ Tail(queue) \in Seq(Event) /\ now' \in Time
    BY <1>0, <1>4 DEF PauseMotion, HasActive, NoCommand
  <2>2. [active EXCEPT !.remaining = Remaining] \in ActiveCommands
    BY <2>1, PausedTyped DEF EpisodeInv
  <2>3. \A a \in ActiveCommands : a # NoCommand
    BY DEF ActiveCommands, NoCommand
  <2>4. BeginStop(Tail(queue), "Pause", [active EXCEPT !.remaining = Remaining], primary)
    BY <1>4 DEF PauseMotion
  <2> QED
    BY <2>1, <2>2, <2>3, <2>4, BeginStopWatched DEF EpisodeInv, TypeOK, Dispositions, Alarms
<1>5. CASE ResumeMotionFails \/ ResumePastTimeRange
  <2>1. HasActive /\ Tail(queue) \in Seq(Event) /\ now' \in Time
    BY <1>0, <1>5 DEF ResumeMotionFails, ResumePastTimeRange, HasActive, NoCommand
  <2>2. [active EXCEPT !.gen = @ + 1] \in ActiveCommands
    BY <2>1, PausedTyped DEF EpisodeInv
  <2>3. PICK kind \in {"Recoverable", "Fatal"} : ResumeFault(kind)
    BY <1>5 DEF ResumeMotionFails, ResumePastTimeRange
  <2> QED
    BY <2>1, <2>2, <2>3, BeginFaultWatched DEF ResumeFault, EpisodeInv, TypeOK
<1>6. CASE ResumeSatisfiedWait
  BY <1>6, SucceedWatched DEF ResumeSatisfiedWait, StopLifecycles
<1>7. CASE Stop
  <2>1. Tail(queue) \in Seq(Event) /\ now' \in Time /\ (StopPending => Watched(Tail(queue), stop))
    BY <1>0, <1>7 DEF Stop
  <2>2. CASE StopPending
    <3>1. queue' = Tail(queue) /\ UNCHANGED <<stop, lifecycle, active>>
      BY <1>7, <2>2 DEF Stop, taskVars
    <3> QED
      BY <2>1, <2>2, <3>1, KeptWatched DEF EpisodeInv, HasActive
  <2>3. CASE ~StopPending /\ connected
    <3>1. BeginStop(Tail(queue), "OperatorStop", active, primary)
      BY <1>7, <2>3 DEF Stop
    <3> QED
      BY <2>1, <3>1, BeginStopWatched DEF EpisodeInv, TypeOK, Dispositions, Alarms
  <2>4. CASE ~StopPending /\ ~connected
    BY <1>7, <2>4, FinishWatched DEF Stop
  <2> QED
    BY <2>2, <2>3, <2>4
<1>8. CASE Estop
  <2>1. Tail(queue) \in Seq(Event) /\ now' \in Time /\ (StopPending => Watched(Tail(queue), stop))
    BY <1>0, <1>8 DEF Estop
  <2>2. CASE StopPending
    <3>1. stop' = [stop EXCEPT !.disp = "Emergency"] /\ lifecycle' = "EmergencyStopping"
          /\ queue' = Tail(queue)
      BY <1>8, <2>2 DEF Estop
    <3>2. stop \in StopEpisodes
      BY <2>2 DEF EpisodeInv, TypeOK, StopPending
    <3>3. stop'.id = stop.id /\ stop'.deadline = stop.deadline /\ stop'.disp = "Emergency"
          /\ stop' # NoStop
      BY <3>1, <3>2 DEF StopEpisodes, NoStop
    <3>4. Watched(queue', stop')
      BY <2>1, <2>2, <3>1, <3>3 DEF Watched, PollOf, StopTimeoutEvent
    <3>5. StopLifecycle("Emergency") = "EmergencyStopping"
      BY Zenon DEF StopLifecycle
    <3>6. EpisodeOK(lifecycle', stop', queue')
      BY <3>1, <3>3, <3>4, <3>5 DEF EpisodeOK, StopLifecycles
    <3> QED
      BY <3>3, <3>6, EpisodeForm DEF PauseHasCommand
  <2>3. CASE ~StopPending /\ connected
    <3>1. BeginStop(Tail(queue), "Emergency", active, primary)
      BY <1>8, <2>3 DEF Estop
    <3> QED
      BY <2>1, <3>1, BeginStopWatched DEF EpisodeInv, TypeOK, Dispositions, Alarms
  <2>4. CASE ~StopPending /\ ~connected
    BY <1>8, <2>4, FinishWatched DEF Estop
  <2> QED
    BY <2>2, <2>3, <2>4
<1>9. CASE Reset
  BY <1>2, <1>9 DEF Reset, ResetAllowed, StopLifecycles
<1> QED
  BY <1>1, <1>3, <1>4, <1>5, <1>6, <1>7, <1>8, <1>9 DEF HandleControl

LEMMA CommandEventWatched ==
  ASSUME EpisodeInv,
         \/ StaleMotionPoll \/ MotionRunning \/ MotionSucceeded \/ MotionFails
         \/ DelayComplete \/ StaleDelayComplete
         \/ CommandTimeout \/ StaleTimeout
         \/ InputChange \/ ConnectionLoss
  PROVE  StopEpisodeWatched' /\ PauseHasCommand'
<1> DEFINE others == {"MotionPoll", "DelayComplete", "Timeout", "Input", "ConnectionLoss"}
<1>0. /\ StopPending <=> lifecycle \in StopLifecycles
      /\ \A type \in others :
           Take(type) => /\ Tail(queue) \in Seq(Event) /\ now' \in Time
                         /\ ~PollOf(Head(queue), stop) /\ Head(queue) # StopTimeoutEvent(stop)
                         /\ StopPending => Watched(Tail(queue), stop)
  BY PendingWatched, TakeTyped, TakenWatched, OtherEvent DEF EpisodeInv, Take
<1>1. CASE StaleMotionPoll \/ StaleDelayComplete \/ StaleTimeout
  BY <1>0, <1>1, DropWatched DEF StaleMotionPoll, StaleDelayComplete, StaleTimeout
<1>2. CASE MotionRunning
  <2>1. ~StopPending
    BY <1>0, <1>2 DEF MotionRunning, PollIsCurrent, StopLifecycles
  <2>2. UNCHANGED <<stop, lifecycle>>
    BY <1>2 DEF MotionRunning, taskVars
  <2> QED
    BY <1>0, <2>1, <2>2, EndedWatched DEF StopPending
<1>3. CASE MotionSucceeded \/ DelayComplete
  BY <1>3, SucceedWatched DEF MotionSucceeded, DelayComplete, PollIsCurrent, DelayIsOver,
     StopLifecycles
<1>4. CASE MotionFails \/ CommandTimeout \/ ConnectionLoss
  <2>1. Tail(queue) \in Seq(Event) /\ now' \in Time
    BY <1>0, <1>4 DEF MotionFails, CommandTimeout, ConnectionLoss
  <2>2. PICK kind \in {"Recoverable", "Fatal"} : BeginFault(Tail(queue), connected, kind, active)
    BY <1>4 DEF MotionFails, CommandTimeout, ConnectionLoss
  <2> QED
    BY <2>1, <2>2, BeginFaultWatched DEF EpisodeInv, TypeOK
<1>5. CASE InputChange
  <2>1. StopPending => Watched(Tail(queue), stop)
    BY <1>0, <1>5 DEF InputChange
  <2>2. CASE InputSatisfies(Head(queue)) /\ Succeed(Tail(queue))
    BY <2>2, SucceedWatched DEF InputSatisfies, StopLifecycles
  <2>3. CASE queue' = Tail(queue) /\ UNCHANGED taskVars
    <3>1. UNCHANGED <<stop, lifecycle, active>>
      BY <2>3 DEF taskVars
    <3> QED
      BY <1>0, <2>1, <2>3, <3>1, KeptWatched DEF EpisodeInv, HasActive
  <2> QED
    BY <1>5, <2>2, <2>3 DEF InputChange
<1> QED
  BY <1>1, <1>2, <1>3, <1>4, <1>5

LEMMA StopEventWatched ==
  ASSUME EpisodeInv,
         \/ StaleStopPoll \/ StillStopping \/ StopPollFails \/ StopDeadline
         \/ PauseConfirmed \/ FaultStopConfirmed \/ EmergencyStopConfirmed
         \/ OperatorStopConfirmed \/ ProgramStopConfirmed
  PROVE  StopEpisodeWatched' /\ PauseHasCommand'
<1>0. \A type : Take(type) => /\ Tail(queue) \in Seq(Event) /\ now' \in Time /\ queue # <<>>
                             /\ Head(queue).type = type
  BY TakeTyped DEF EpisodeInv
<1>1. CASE StaleStopPoll
  <2>1. Take("StopPoll") /\ Drop /\ Head(queue).type = "StopPoll"
    BY <1>0, <1>1 DEF StaleStopPoll
  <2>2. StopPending => ~PollOf(Head(queue), stop)
    BY <1>1 DEF StaleStopPoll, OwnEpisode, PollOf
  <2>3. Head(queue) # StopTimeoutEvent(stop)
    BY <2>1 DEF StopTimeoutEvent
  <2> QED
    BY <2>1, <2>2, <2>3, DropWatched
<1>2. CASE StillStopping
  <2>1. /\ stop \in StopEpisodes /\ StopPending /\ queue \in Seq(Event) /\ queue # <<>>
        /\ Tail(queue) \in Seq(Event) /\ now' \in Time /\ Head(queue).type = "StopPoll"
    BY <1>0, <1>2 DEF StillStopping, OwnEpisode, StopPending, EpisodeInv, TypeOK
  <2> DEFINE Again(delay) ==
               StopPollEvent(Least(stop.deadline, SaturatingAdd(now', Greatest(1, delay))), stop)
  <2>2. PICK delay \in PollDelays : queue' = Schedule(Tail(queue), Again(delay))
    BY <1>2 DEF StillStopping
  <2>3. Again(delay) \in Event /\ PollOf(Again(delay), stop)
    <3>1. delay \in Nat /\ Greatest(1, delay) \in Nat
      BY SessionAssumption DEF Greatest
    <3>2. stop.deadline \in Time
      BY <2>1 DEF StopEpisodes
    <3>3. SaturatingAdd(now', Greatest(1, delay)) \in Time
      BY <2>1, <3>1, TimeArithmetic
    <3>4. \A t, u \in Time : Least(t, u) \in Time /\ Least(t, u) <= t
      BY SessionAssumption DEF Least, Time
    <3>5. \A t \in Time : t <= stop.deadline => PollOf(StopPollEvent(t, stop), stop)
      BY DEF StopPollEvent, PollOf
    <3> QED
      BY <2>1, <3>2, <3>3, <3>4, <3>5, EventTypes
  <2> HIDE DEF Again
  <2>4. \E n \in DOMAIN queue' : queue'[n] = Again(delay)
    BY <2>1, <2>2, <2>3, ScheduleKeeps
  <2>5. \E n \in DOMAIN queue' : queue'[n] = StopTimeoutEvent(stop)
    <3>1. \E n \in DOMAIN queue : queue[n] = StopTimeoutEvent(stop)
      BY <2>1, PendingWatched DEF EpisodeInv, Watched
    <3>2. Head(queue) # StopTimeoutEvent(stop)
      BY <2>1 DEF StopTimeoutEvent
    <3>3. PICK i \in DOMAIN Tail(queue) : Tail(queue)[i] = StopTimeoutEvent(stop)
      BY <2>1, <3>1, <3>2, TailKeeps
    <3>4. \E n \in DOMAIN queue' : queue'[n] = Tail(queue)[i]
      BY <2>1, <2>2, <2>3, ScheduleKeeps
    <3> QED
      BY <3>3, <3>4
  <2>6. Watched(queue', stop)
    BY <2>3, <2>4, <2>5 DEF Watched
  <2>7. UNCHANGED <<stop, lifecycle, active>>
    BY <1>2 DEF StillStopping, taskVars
  <2> QED
    BY <2>1, <2>6, <2>7, KeptWatched DEF EpisodeInv, HasActive
<1>3. CASE StopPollFails
  BY <1>3, FinishWatched DEF StopPollFails, FailStop
<1>4. CASE StopDeadline /\ StopDeadlinePassed
  BY <1>4, FinishWatched DEF StopDeadline, FailStop
<1>5. CASE StopDeadline /\ ~StopDeadlinePassed
  <2>1. Take("StopTimeout") /\ Drop /\ Head(queue).type = "StopTimeout"
    BY <1>0, <1>5 DEF StopDeadline
  <2>2. ~PollOf(Head(queue), stop)
    BY <2>1 DEF PollOf
  <2>3. ASSUME StopPending, Head(queue) = StopTimeoutEvent(stop)
        PROVE  FALSE
    <3>1. Head(queue).id = stop.id /\ Head(queue).time = stop.deadline
      BY <2>3 DEF StopTimeoutEvent
    <3>2. now' = Greatest(now, stop.deadline) /\ now \in Time /\ stop.deadline \in Time
      BY <2>1, <2>3, <3>1 DEF Take, EpisodeInv, TypeOK, StopPending, StopEpisodes
    <3>3. now' >= stop.deadline
      BY <3>2, SessionAssumption DEF Greatest, Time
    <3> QED
      BY <1>5, <2>3, <3>1, <3>3 DEF StopDeadlinePassed, OwnEpisode
  <2> QED
    BY <2>1, <2>2, <2>3, DropWatched
<1>6. CASE PauseConfirmed
  <2>1. StopPending /\ stop.disp = "Pause" /\ stop' = NoStop
    BY <1>6 DEF PauseConfirmed, StopConfirmed, OwnEpisode
  <2>2. HasActive
    BY <2>1 DEF EpisodeInv, PauseHasCommand
  <2>3. lifecycle' = "Paused"
    BY <1>6, <2>2 DEF PauseConfirmed
  <2> QED
    BY <2>1, <2>3, EndedWatched DEF StopLifecycles
<1>7. CASE FaultStopConfirmed \/ EmergencyStopConfirmed \/ OperatorStopConfirmed
           \/ ProgramStopConfirmed
  BY <1>7, FinishWatched DEF FaultStopConfirmed, EmergencyStopConfirmed, OperatorStopConfirmed,
     ProgramStopConfirmed
<1> QED
  BY <1>1, <1>2, <1>3, <1>4, <1>5, <1>6, <1>7

\* HandleNextCommand is not reached while an episode is pending.
LEMMA NextCommandWatched ==
  ASSUME EpisodeInv, HandleNextCommand
  PROVE  StopEpisodeWatched' /\ PauseHasCommand'
<1>1. CallsNextCommand
  BY DEF HandleNextCommand, ConnectFails, ServoCommand, ServoCommandThrows, SetDo, ZeroDelay,
     StartPastTimeRange, StartMotion, StartMotionFails, StartDelay, StartWait,
     WaitAlreadySatisfied, StopCommand, Start, StartsCommand
<1>2. ~StopPending /\ lifecycle \notin StopLifecycles
  BY <1>1, PendingWatched DEF EpisodeInv, CallsNextCommand, MustProcessEvent
<1>3. queue \in Seq(Event) /\ \A type : Start(type) => now' \in Time
  BY StartTyped DEF EpisodeInv, TypeOK
<1>4. CASE ConnectFails
  BY <1>3, <1>4, BeginFaultWatched DEF ConnectFails, EpisodeInv, TypeOK
<1>5. CASE ServoCommandThrows \/ StartPastTimeRange \/ StartMotionFails
  <2>1. PICK kind \in {"Recoverable", "Fatal"}, command \in ActiveCommands \cup {NoCommand} :
          StartFault(kind, command)
    BY <1>5, StartTyped
       DEF ServoCommandThrows, StartPastTimeRange, StartMotionFails, EpisodeInv, TypeOK
  <2>2. now' \in Time
    BY <1>3, <1>5 DEF ServoCommandThrows, StartPastTimeRange, StartMotionFails
  <2> QED
    BY <1>3, <2>1, <2>2, BeginFaultWatched DEF StartFault, EpisodeInv
<1>6. CASE StopCommand
  <2> DEFINE a == [index |-> next, type |-> "STOP", deadline |-> NoDeadline, remaining |-> 0,
                   gen |-> 1]
  <2>1. now' \in Time /\ BeginStop(queue, "ProgramComplete", a, primary)
    BY <1>3, <1>6 DEF StopCommand
  <2>2. a \in ActiveCommands
    BY DEF ActiveCommands, CommandTypes, EpisodeInv, TypeOK
  <2> HIDE DEF a
  <2> QED
    BY <1>3, <2>1, <2>2, BeginStopWatched DEF EpisodeInv, TypeOK, Dispositions, Alarms
<1>7. CASE ServoCommand \/ SetDo \/ ZeroDelay
  <2>1. UNCHANGED <<stop, lifecycle>>
    BY <1>7 DEF ServoCommand, SetDo, ZeroDelay, Pass
  <2> QED
    BY <1>2, <2>1, EndedWatched DEF StopPending
<1>8. CASE StartMotion \/ StartDelay \/ StartWait \/ WaitAlreadySatisfied
  <2>1. UNCHANGED stop /\ lifecycle' \in {"Running", "Waiting"}
    BY <1>8 DEF StartMotion, StartDelay, StartWait, Begin, WaitAlreadySatisfied
  <2> QED
    BY <1>2, <2>1, EndedWatched DEF StopPending, StopLifecycles
<1> QED
  BY <1>4, <1>5, <1>6, <1>7, <1>8 DEF HandleNextCommand

LEMMA EpisodeStep ==
  ASSUME EpisodeInv, [Next]_vars
  PROVE  EpisodeInv'
<1>1. TypeOK'
  BY TypeStep DEF EpisodeInv
<1>2. CASE UNCHANGED vars
  <2>1. UNCHANGED <<stop, lifecycle, active, queue>>
    BY <1>2 DEF vars
  <2>2. StopPending => Watched(queue, stop)
    BY PendingWatched DEF EpisodeInv
  <2>3. lifecycle \in StopLifecycles <=> StopPending
    BY PendingWatched DEF EpisodeInv
  <2> QED
    BY <1>1, <2>1, <2>2, <2>3, KeptWatched DEF EpisodeInv, HasActive
<1>3. CASE \/ \E p \in Programs : SubmitProgram(p)
           \/ \E c \in ControlsUsed : SubmitControl(c)
           \/ HostAdvancesClock
  BY <1>1, <1>3, HostWatched DEF EpisodeInv
<1>4. CASE HandleEvent
  BY <1>1, <1>4, ControlWatched, CommandEventWatched, StopEventWatched DEF HandleEvent, EpisodeInv
<1>5. CASE HandleNextCommand
  BY <1>1, <1>5, NextCommandWatched DEF EpisodeInv
<1> QED
  BY <1>2, <1>3, <1>4, <1>5 DEF Next, Advance

(***************************************************************************)
(* A pending stop always has its poll and its deadline in the queue, and   *)
(* the lifecycle says what it is for (runtime.cpp, BeginStop,              *)
(* HandleStopPoll, HandleControl).  A pause is confirmed only while a      *)
(* command is under way, which the pause resumes later.                    *)
(***************************************************************************)
THEOREM StopIsWatched == Spec => [](StopEpisodeWatched /\ PauseHasCommand)
<1>1. Init => EpisodeInv
  <2> SUFFICES ASSUME Init PROVE EpisodeInv
    OBVIOUS
  <2>1. stop = NoStop /\ lifecycle \notin StopLifecycles
    BY DEF Init, StopLifecycles
  <2>2. EpisodeOK(lifecycle, stop, queue)
    BY <2>1 DEF EpisodeOK
  <2> QED
    BY <2>1, <2>2, TypeInit, EpisodeForm DEF EpisodeInv, PauseHasCommand, NoStop
<1>2. EpisodeInv /\ [Next]_vars => EpisodeInv'
  BY EpisodeStep
<1>3. EpisodeInv => StopEpisodeWatched /\ PauseHasCommand
  BY DEF EpisodeInv
<1> QED
  BY <1>1, <1>2, <1>3, PTL DEF Spec

-----------------------------------------------------------------------------
(***************************************************************************)
(* NoWorkUnderAlarm is inductive only with more: a confirmed stop of an    *)
(* operator ends in Stopped, so no alarm may be active by then; an         *)
(* untrusted session ends in a fault with the alarm it has; a stop for a   *)
(* fault has one; a session that has ended is terminal, so that            *)
(* HandleNextCommand does not set it running; and a rejected submission    *)
(* without an alarm in its history has no active one.                      *)
(***************************************************************************)
AlarmLifecycles == {"Stopping", "EmergencyStopping", "EmergencyStopped", "Faulted"}
EndLifecycles == {"Stopped", "EmergencyStopped", "Faulted"}

AlarmInv ==
  /\ primary # "None" => /\ lifecycle \in AlarmLifecycles
                         /\ alarmed
                         /\ StopPending => stop.disp \in {"Fault", "Emergency"}
  /\ stop.disp = "Fault" => primary # "None"
  /\ untrusted \/ lifecycle = "EmergencyStopped" => primary # "None"
  /\ lifecycle \in EndLifecycles => terminal

LEMMA RaiseAlarm ==
  /\ \A prim : Raise(prim, "Fatal") # "None" /\ Raise(prim, "Recoverable") # "None"
  /\ \A prim, kind : prim # "None" => Raise(prim, kind) = prim
BY DEF Raise

\* A session without alarm that is not untrusted may be in any lifecycle.
LEMMA QuietAlarm ==
  ASSUME primary' = "None", ~untrusted', stop'.disp # "Fault", lifecycle' \in EndLifecycles => terminal',
         lifecycle' # "EmergencyStopped"
  PROVE  AlarmInv'
BY DEF AlarmInv

LEMMA SameAlarm ==
  ASSUME AlarmInv, UNCHANGED <<lifecycle, stop, untrusted, terminal, primary, alarmed>>
  PROVE  AlarmInv'
BY DEF AlarmInv, StopPending

\* A running, waiting, pausing or paused session has no alarm and is trusted.
LEMMA WorkingIsQuiet ==
  ASSUME AlarmInv, lifecycle \notin AlarmLifecycles
  PROVE  primary = "None" /\ ~untrusted /\ stop.disp # "Fault"
BY DEF AlarmInv, AlarmLifecycles

LEMMA FinishFaultAlarm ==
  ASSUME NEW conn, NEW disabled, NEW distrust, NEW prim,
         FinishFault(conn, disabled, distrust, prim), distrust => prim # "None"
  PROVE  AlarmInv'
<1>1. PICK servoOk \in BOOLEAN, disconnectOk \in BOOLEAN :
        LET failed == \/ TriesServo(conn, disabled) /\ ~servoOk
                      \/ TriesDisconnect(conn) /\ ~disconnectOk
        IN /\ untrusted' = (distrust \/ failed)
           /\ SetPrimary(IF failed THEN Raise(prim, "Fatal") ELSE prim)
           /\ stop' = NoStop /\ lifecycle' = "Faulted" /\ terminal' = TRUE
  BY DEF FinishFault
<1>2. untrusted' => primary' # "None"
  BY <1>1, RaiseAlarm DEF SetPrimary
<1>3. primary' # "None" => alarmed'
  BY <1>1 DEF SetPrimary
<1> QED
  BY <1>1, <1>2, <1>3 DEF AlarmInv, AlarmLifecycles, StopPending, NoStop

LEMMA FailStopAlarm ==
  ASSUME NEW conn, NEW prim, FailStop(conn, prim)
  PROVE  AlarmInv'
BY FinishFaultAlarm, RaiseAlarm DEF FailStop

LEMMA FinishTerminalAlarm ==
  ASSUME NEW result, NEW disabled, NEW prim, FinishTerminal(result, disabled, prim),
         prim # "None" <=> result = "EmergencyStopped",
         untrusted => prim # "None"
  PROVE  AlarmInv'
<1>1. CASE /\ ~untrusted /\ SetPrimary(prim) /\ stop' = NoStop /\ terminal' = TRUE
           /\ lifecycle' = IF result = "EmergencyStopped" THEN "EmergencyStopped" ELSE "Stopped"
           /\ UNCHANGED untrusted
  BY <1>1 DEF SetPrimary, AlarmInv, AlarmLifecycles, StopPending, NoStop
<1>2. CASE FinishFault(connected, disabled, TRUE, Raise(prim, "Fatal"))
  BY <1>2, FinishFaultAlarm, RaiseAlarm
<1>3. CASE untrusted /\ FinishFault(connected /\ ~DisconnectOnTerminal, disabled, TRUE, prim)
  BY <1>3, FinishFaultAlarm
<1> QED
  BY <1>1, <1>2, <1>3 DEF FinishTerminal

\* A stop under an alarm is one that an alarm or an ESTOP asked for.
LEMMA BeginStopAlarm ==
  ASSUME NEW q, NEW disp, NEW command, NEW prim, BeginStop(q, disp, command, prim),
         prim # "None" => disp \in {"Fault", "Emergency"},
         untrusted \/ disp = "Fault" => prim # "None"
  PROVE  AlarmInv'
<1>1. CASE /\ stop'.disp = disp /\ lifecycle' = StopLifecycle(disp)
           /\ SetPrimary(prim) /\ UNCHANGED <<untrusted, terminal>>
  <2>1. disp \in {"Fault", "Emergency"} => lifecycle' \in {"Stopping", "EmergencyStopping"}
    BY <1>1, Zenon DEF StopLifecycle
  <2>2. lifecycle' \notin EndLifecycles
    BY <1>1, StopLifecycleRange DEF StopLifecycles, EndLifecycles
  <2> QED
    BY <1>1, <2>1, <2>2 DEF SetPrimary, AlarmInv, AlarmLifecycles, StopPending, EndLifecycles
<1>2. CASE FailStop(TRUE, prim)
  BY <1>2, FailStopAlarm
<1> DEFINE episode == [id |-> nextStop, disp |-> disp,
                       deadline |-> SaturatingAdd(now', StopTimeout)]
<1>3. \/ FailStop(TRUE, prim)
      \/ /\ stop' = episode /\ lifecycle' = StopLifecycle(disp)
         /\ SetPrimary(prim) /\ UNCHANGED <<untrusted, terminal>>
  BY Zenon DEF BeginStop
<1>4. episode.disp = disp
  OBVIOUS
<1> QED
  BY <1>1, <1>2, <1>3, <1>4

LEMMA BeginFaultAlarm ==
  ASSUME NEW q, NEW conn, NEW kind \in {"Recoverable", "Fatal"}, NEW command,
         BeginFault(q, conn, kind, command)
  PROVE  AlarmInv'
<1>1. Raise(primary, kind) # "None"
  BY RaiseAlarm
<1> QED
  BY <1>1, BeginStopAlarm, FinishFaultAlarm DEF BeginFault

LEMMA SucceedAlarm ==
  ASSUME AlarmInv, NEW q, Succeed(q), lifecycle \notin AlarmLifecycles
  PROVE  AlarmInv'
BY WorkingIsQuiet, QuietAlarm DEF Succeed, EndLifecycles

LEMMA DropAlarm ==
  ASSUME AlarmInv, Drop
  PROVE  AlarmInv'
BY SameAlarm DEF Drop, taskVars

-----------------------------------------------------------------------------
LEMMA HostAlarm ==
  ASSUME AlarmInv,
         \/ \E p \in Programs : SubmitProgram(p)
         \/ \E c \in ControlsUsed : SubmitControl(c)
         \/ HostAdvancesClock
  PROVE  AlarmInv'
<1>1. ASSUME NEW p \in Programs, SubmitProgram(p)
      PROVE  AlarmInv'
  <2>1. primary = "None" /\ ~untrusted
    BY <1>1, WorkingIsQuiet DEF SubmitProgram, ReplaceableRejection, AlarmInv, AlarmLifecycles
  <2>2. /\ UNCHANGED <<primary, untrusted>> /\ stop'.disp = "None"
        /\ lifecycle' \in EndLifecycles => terminal'
        /\ lifecycle' # "EmergencyStopped"
    BY <1>1 DEF SubmitProgram, PrepareResult, EndLifecycles, NoStop
  <2> QED
    BY <2>1, <2>2, QuietAlarm
<1>2. ASSUME NEW c \in ControlsUsed, SubmitControl(c)
      PROVE  AlarmInv'
  BY <1>2, SameAlarm DEF SubmitControl, taskVars
<1>3. CASE HostAdvancesClock
  BY <1>3, SameAlarm DEF HostAdvancesClock, taskVars
<1> QED
  BY <1>1, <1>2, <1>3

LEMMA ControlAlarm ==
  ASSUME EpisodeInv, AlarmInv, HandleControl
  PROVE  AlarmInv'
<1>1. CASE ControlWithoutEffect \/ ResetRejected
  BY <1>1, DropAlarm DEF ControlWithoutEffect, ResetRejected
<1>2. CASE \/ PauseBetweenCommands \/ PauseLocalWait \/ ResumeBetweenCommands \/ ResumeMotion
           \/ ResumeLocalWait
  <2>1. /\ lifecycle \notin AlarmLifecycles /\ lifecycle' \in {"Running", "Waiting", "Paused"}
        /\ UNCHANGED <<primary, untrusted, stop>>
    BY <1>2 DEF PauseBetweenCommands, PauseLocalWait, ResumeBetweenCommands, ResumeMotion,
       ResumeLocalWait, AlarmLifecycles
  <2> QED
    BY <2>1, WorkingIsQuiet, QuietAlarm DEF EndLifecycles
<1>3. CASE PauseMotion
  BY <1>3, WorkingIsQuiet, BeginStopAlarm DEF PauseMotion, AlarmLifecycles
<1>4. CASE ResumeMotionFails \/ ResumePastTimeRange
  BY <1>4, BeginFaultAlarm DEF ResumeMotionFails, ResumePastTimeRange, ResumeFault
<1>5. CASE ResumeSatisfiedWait
  BY <1>5, SucceedAlarm DEF ResumeSatisfiedWait, AlarmLifecycles
<1>6. CASE Stop
  <2>1. primary = "None" /\ ~untrusted
    BY <1>6, WorkingIsQuiet DEF Stop, AlarmLifecycles
  <2>2. CASE StopPending
    BY <1>6, <2>2, SameAlarm DEF Stop, taskVars
  <2>3. CASE ~StopPending
    BY <1>6, <2>1, <2>3, BeginStopAlarm, FinishTerminalAlarm DEF Stop
  <2> QED
    BY <2>2, <2>3
<1>7. CASE Estop
  <2>1. untrusted => primary # "None"
    BY DEF AlarmInv
  <2>2. CASE StopPending
    <3>1. stop \in StopEpisodes
      BY <2>2 DEF EpisodeInv, TypeOK, StopPending
    <3>2. /\ stop'.disp = "Emergency" /\ lifecycle' = "EmergencyStopping"
          /\ UNCHANGED <<primary, untrusted, alarmed>>
      BY <1>7, <2>2, <3>1 DEF Estop, StopEpisodes
    <3> QED
      BY <2>1, <3>2 DEF AlarmInv, AlarmLifecycles, EndLifecycles
  <2>3. CASE ~StopPending
    BY <1>7, <2>1, <2>3, RaiseAlarm, BeginStopAlarm, FinishTerminalAlarm DEF Estop
  <2> QED
    BY <2>2, <2>3
<1>8. CASE Reset
  BY <1>8, QuietAlarm DEF Reset, ResetAllowed, EndLifecycles, StopPending, NoStop
<1> QED
  BY <1>1, <1>2, <1>3, <1>4, <1>5, <1>6, <1>7, <1>8 DEF HandleControl

LEMMA EventAlarm ==
  ASSUME EpisodeInv, AlarmInv, HandleEvent, ~HandleControl
  PROVE  AlarmInv'
<1>1. CASE StaleMotionPoll \/ StaleDelayComplete \/ StaleTimeout \/ StaleStopPoll
  BY <1>1, DropAlarm DEF StaleMotionPoll, StaleDelayComplete, StaleTimeout, StaleStopPoll
<1>2. CASE MotionRunning \/ StillStopping
  BY <1>2, SameAlarm DEF MotionRunning, StillStopping, taskVars
<1>3. CASE MotionSucceeded \/ DelayComplete
  BY <1>3, SucceedAlarm
     DEF MotionSucceeded, DelayComplete, PollIsCurrent, DelayIsOver, AlarmLifecycles
<1>4. CASE MotionFails \/ CommandTimeout \/ ConnectionLoss
  BY <1>4, BeginFaultAlarm DEF MotionFails, CommandTimeout, ConnectionLoss
<1>5. CASE StopPollFails \/ StopDeadline
  BY <1>5, FailStopAlarm, DropAlarm DEF StopPollFails, StopDeadline
<1>6. CASE PauseConfirmed
  <2>1. StopPending /\ stop.disp = "Pause" /\ HasActive
    BY <1>6 DEF PauseConfirmed, StopConfirmed, OwnEpisode, EpisodeInv, PauseHasCommand
  <2>2. lifecycle = "Pausing"
    BY <2>1, PendingWatched, Zenon DEF EpisodeInv, StopLifecycle
  <2>3. lifecycle' = "Paused" /\ UNCHANGED <<primary, untrusted>> /\ stop'.disp = "None"
    BY <1>6, <2>1 DEF PauseConfirmed, NoStop
  <2> QED
    BY <2>2, <2>3, WorkingIsQuiet, QuietAlarm DEF AlarmLifecycles, EndLifecycles
<1>7. untrusted => primary # "None"
  BY DEF AlarmInv
<1>8. CASE FaultStopConfirmed
  BY <1>7, <1>8, FinishFaultAlarm DEF FaultStopConfirmed
<1>9. CASE EmergencyStopConfirmed
  BY <1>7, <1>9, RaiseAlarm, FinishFaultAlarm, FinishTerminalAlarm DEF EmergencyStopConfirmed
<1>10. CASE OperatorStopConfirmed \/ ProgramStopConfirmed
  <2>1. primary = "None"
    BY <1>10 DEF OperatorStopConfirmed, ProgramStopConfirmed, StopConfirmed, OwnEpisode, AlarmInv
  <2> QED
    BY <1>7, <1>10, <2>1, FinishTerminalAlarm DEF OperatorStopConfirmed, ProgramStopConfirmed
<1>11. CASE InputChange
  <2>1. CASE InputSatisfies(Head(queue)) /\ Succeed(Tail(queue))
    BY <2>1, SucceedAlarm DEF InputSatisfies, AlarmLifecycles
  <2>2. CASE UNCHANGED taskVars
    BY <2>2, SameAlarm DEF taskVars
  <2> QED
    BY <1>11, <2>1, <2>2 DEF InputChange
<1> QED
  BY <1>1, <1>2, <1>3, <1>4, <1>5, <1>6, <1>8, <1>9, <1>10, <1>11 DEF HandleEvent

LEMMA NextCommandCalls == HandleNextCommand => CallsNextCommand
BY DEF HandleNextCommand, ConnectFails, ServoCommand, ServoCommandThrows, SetDo, ZeroDelay,
   StartPastTimeRange, StartMotion, StartMotionFails, StartDelay, StartWait,
   WaitAlreadySatisfied, StopCommand, Start, StartsCommand

\* HandleNextCommand is reached with a session that runs or waits.
LEMMA CallsWorking ==
  ASSUME EpisodeInv, AlarmInv, CallsNextCommand
  PROVE  ~StopPending /\ lifecycle \in {"Running", "Waiting"}
<1>1. ~StopPending /\ lifecycle \notin StopLifecycles
  BY PendingWatched DEF EpisodeInv, CallsNextCommand, MustProcessEvent
<1>2. lifecycle \notin EndLifecycles
  BY DEF AlarmInv, CallsNextCommand
<1>3. lifecycle \in Lifecycles \ {"Idle", "Paused"}
  BY DEF EpisodeInv, TypeOK, CallsNextCommand
<1> QED
  BY <1>1, <1>2, <1>3 DEF Lifecycles, StopLifecycles, EndLifecycles

LEMMA NextCommandAlarm ==
  ASSUME EpisodeInv, AlarmInv, HandleNextCommand
  PROVE  AlarmInv'
<1>1. /\ lifecycle \in {"Running", "Waiting"}
      /\ primary = "None" /\ ~untrusted /\ stop.disp # "Fault"
  BY NextCommandCalls, CallsWorking, WorkingIsQuiet DEF AlarmLifecycles
<1>2. CASE ConnectFails \/ ServoCommandThrows \/ StartPastTimeRange \/ StartMotionFails
  BY <1>2, BeginFaultAlarm
     DEF ConnectFails, ServoCommandThrows, StartPastTimeRange, StartMotionFails, StartFault
<1>3. CASE StopCommand
  BY <1>1, <1>3, BeginStopAlarm DEF StopCommand
<1>4. CASE \/ ServoCommand \/ SetDo \/ ZeroDelay \/ StartMotion \/ StartDelay \/ StartWait
           \/ WaitAlreadySatisfied
  <2>1. UNCHANGED <<primary, untrusted, stop>> /\ lifecycle' \in {"Running", "Waiting"}
    BY <1>1, <1>4 DEF ServoCommand, SetDo, ZeroDelay, Pass, StartMotion, StartDelay, StartWait,
       Begin, WaitAlreadySatisfied
  <2> QED
    BY <1>1, <2>1, QuietAlarm DEF EndLifecycles
<1> QED
  BY <1>2, <1>3, <1>4 DEF HandleNextCommand

LEMMA AlarmStep ==
  ASSUME EpisodeInv, AlarmInv, [Next]_vars
  PROVE  AlarmInv'
<1>1. CASE UNCHANGED vars
  BY <1>1, SameAlarm DEF vars
<1>2. CASE \/ \E p \in Programs : SubmitProgram(p)
           \/ \E c \in ControlsUsed : SubmitControl(c)
           \/ HostAdvancesClock
  BY <1>2, HostAlarm
<1>3. CASE HandleEvent
  BY <1>3, ControlAlarm, EventAlarm
<1>4. CASE HandleNextCommand
  BY <1>4, NextCommandAlarm
<1> QED
  BY <1>1, <1>2, <1>3, <1>4 DEF Next, Advance

SafetyInv == EpisodeInv /\ AlarmInv

LEMMA SafetyInit == Init => SafetyInv
<1> SUFFICES ASSUME Init PROVE SafetyInv
  OBVIOUS
<1>1. EpisodeInv
  <2>1. stop = NoStop /\ lifecycle \notin StopLifecycles
    BY DEF Init, StopLifecycles
  <2>2. EpisodeOK(lifecycle, stop, queue)
    BY <2>1 DEF EpisodeOK
  <2> QED
    BY <2>1, <2>2, TypeInit, EpisodeForm DEF EpisodeInv, PauseHasCommand, NoStop
<1>2. AlarmInv
  BY DEF Init, AlarmInv, EndLifecycles, NoStop
<1> QED
  BY <1>1, <1>2 DEF SafetyInv

LEMMA SafetyHolds == Spec => []SafetyInv
<1>1. SafetyInv /\ [Next]_vars => SafetyInv'
  BY EpisodeStep, AlarmStep DEF SafetyInv
<1> QED
  BY <1>1, SafetyInit, PTL DEF Spec

(***************************************************************************)
(* From the first alarm to a RESET the session stops or has stopped: no    *)
(* handler of runtime.cpp starts, resumes or pauses work, or ends a task   *)
(* in order, while an alarm is active.                                     *)
(***************************************************************************)
THEOREM NoWorkWhileAlarmed == Spec => []NoWorkUnderAlarm
<1>1. SafetyInv => NoWorkUnderAlarm
  BY DEF SafetyInv, AlarmInv, AlarmLifecycles, NoWorkUnderAlarm
<1> QED
  BY <1>1, SafetyHolds, PTL

(***************************************************************************)
(* Only a trusted session reaches EmergencyStopped, and it stays trusted   *)
(* there.                                                                  *)
(***************************************************************************)
StaysTrusted ==
  lifecycle' = "EmergencyStopped" => ~untrusted' \/ UNCHANGED <<lifecycle, untrusted>>

LEMMA EndsTrusted ==
  /\ \A conn, disabled, distrust, prim :
       FinishFault(conn, disabled, distrust, prim) => StaysTrusted
  /\ \A result, disabled, prim : FinishTerminal(result, disabled, prim) => StaysTrusted
  /\ \A q : Succeed(q) => StaysTrusted
  /\ UNCHANGED taskVars => StaysTrusted
<1>1. \A conn, disabled, distrust, prim :
        FinishFault(conn, disabled, distrust, prim) => StaysTrusted
  BY DEF FinishFault, StaysTrusted
<1>2. \A result, disabled, prim : FinishTerminal(result, disabled, prim) => StaysTrusted
  BY <1>1 DEF FinishTerminal, StaysTrusted
<1> QED
  BY <1>1, <1>2 DEF Succeed, taskVars, StaysTrusted

LEMMA BeginsTrusted ==
  /\ \A q, disp, command, prim : BeginStop(q, disp, command, prim) => StaysTrusted
  /\ \A q, conn, kind, command : BeginFault(q, conn, kind, command) => StaysTrusted
<1>1. ASSUME NEW q, NEW disp, NEW command, NEW prim, BeginStop(q, disp, command, prim)
      PROVE  StaysTrusted
  <2>1. lifecycle' = StopLifecycle(disp) \/ FailStop(TRUE, prim)
    BY <1>1, Zenon DEF BeginStop
  <2> QED
    BY <2>1, EndsTrusted, StopLifecycleRange DEF FailStop, StopLifecycles, StaysTrusted
<1> QED
  BY <1>1, EndsTrusted, Zenon DEF BeginFault

LEMMA TrustStep ==
  ASSUME EpisodeInv, AlarmInv, [Next]_vars
  PROVE  StaysTrusted
<1>1. CASE UNCHANGED vars
  BY <1>1 DEF vars, StaysTrusted
<1>2. CASE \/ \E p \in Programs : SubmitProgram(p)
           \/ \E c \in ControlsUsed : SubmitControl(c)
           \/ HostAdvancesClock
  BY <1>2, EndsTrusted DEF SubmitProgram, SubmitControl, HostAdvancesClock, StaysTrusted
<1>3. CASE HandleControl
  <2>1. CASE ControlWithoutEffect \/ ResetRejected
    BY <2>1, EndsTrusted DEF ControlWithoutEffect, ResetRejected, Drop
  <2>2. CASE \/ PauseBetweenCommands \/ PauseLocalWait \/ ResumeBetweenCommands \/ ResumeMotion
             \/ ResumeLocalWait \/ Reset
    BY <2>2 DEF PauseBetweenCommands, PauseLocalWait, ResumeBetweenCommands, ResumeMotion,
       ResumeLocalWait, Reset, StaysTrusted
  <2>3. CASE PauseMotion \/ ResumeMotionFails \/ ResumePastTimeRange \/ ResumeSatisfiedWait
    BY <2>3, BeginsTrusted, EndsTrusted
       DEF PauseMotion, ResumeMotionFails, ResumePastTimeRange, ResumeFault, ResumeSatisfiedWait
  <2>4. CASE Stop
    BY <2>4, BeginsTrusted, EndsTrusted DEF Stop
  <2>5. CASE Estop
    <3>1. \/ lifecycle' = "EmergencyStopping"
          \/ BeginStop(Tail(queue), "Emergency", active, primary)
          \/ FinishTerminal("EmergencyStopped", servoDisabled, Raise(primary, "Recoverable"))
      BY <2>5 DEF Estop
    <3> QED
      BY <3>1, BeginsTrusted, EndsTrusted DEF StaysTrusted
  <2> QED
    BY <1>3, <2>1, <2>2, <2>3, <2>4, <2>5 DEF HandleControl
<1>4. CASE HandleEvent /\ ~HandleControl
  <2>1. CASE StaleMotionPoll \/ StaleDelayComplete \/ StaleTimeout \/ StaleStopPoll
    BY <2>1, EndsTrusted DEF StaleMotionPoll, StaleDelayComplete, StaleTimeout, StaleStopPoll, Drop
  <2>2. CASE MotionRunning \/ StillStopping \/ MotionSucceeded \/ DelayComplete
    BY <2>2, EndsTrusted DEF MotionRunning, StillStopping, MotionSucceeded, DelayComplete
  <2>3. CASE MotionFails \/ CommandTimeout \/ ConnectionLoss
    BY <2>3, BeginsTrusted DEF MotionFails, CommandTimeout, ConnectionLoss
  <2>4. CASE StopPollFails \/ StopDeadline
    BY <2>4, EndsTrusted DEF StopPollFails, StopDeadline, FailStop, Drop
  <2>5. CASE PauseConfirmed
    BY <2>5 DEF PauseConfirmed, StaysTrusted
  <2>6. CASE \/ FaultStopConfirmed \/ EmergencyStopConfirmed \/ OperatorStopConfirmed
             \/ ProgramStopConfirmed
    BY <2>6, EndsTrusted DEF FaultStopConfirmed, EmergencyStopConfirmed, OperatorStopConfirmed,
       ProgramStopConfirmed
  <2>7. CASE InputChange
    BY <2>7, EndsTrusted DEF InputChange
  <2> QED
    BY <1>4, <2>1, <2>2, <2>3, <2>4, <2>5, <2>6, <2>7 DEF HandleEvent
<1>5. CASE HandleNextCommand
  <2>1. CASE ConnectFails \/ ServoCommandThrows \/ StartPastTimeRange \/ StartMotionFails
    BY <2>1, BeginsTrusted
       DEF ConnectFails, ServoCommandThrows, StartPastTimeRange, StartMotionFails, StartFault
  <2>2. CASE StopCommand
    BY <2>2, BeginsTrusted DEF StopCommand
  <2>3. CASE \/ ServoCommand \/ SetDo \/ ZeroDelay \/ StartMotion \/ StartDelay \/ StartWait
             \/ WaitAlreadySatisfied
    BY <2>3 DEF ServoCommand, SetDo, ZeroDelay, Pass, StartMotion, StartDelay, StartWait, Begin,
       WaitAlreadySatisfied, StaysTrusted
  <2> QED
    BY <1>5, <2>1, <2>2, <2>3 DEF HandleNextCommand
<1> QED
  BY <1>1, <1>2, <1>3, <1>4, <1>5 DEF Next, Advance

(***************************************************************************)
(* A session whose clean-up or stop failed (session_untrusted_) keeps an   *)
(* alarm and ends in a fault, which no RESET clears.                       *)
(***************************************************************************)
THEOREM UntrustedStays == Spec => []UntrustedIsFinal
<1> DEFINE Trusted == untrusted => lifecycle # "EmergencyStopped"
<1>1. Init => Trusted
  BY DEF Init
<1>2. SafetyInv /\ Trusted /\ [Next]_vars => Trusted'
  BY TrustStep DEF SafetyInv, StaysTrusted
<1>3. SafetyInv /\ Trusted => UntrustedIsFinal
  BY DEF SafetyInv, AlarmInv, AlarmLifecycles, UntrustedIsFinal
<1> QED
  BY <1>1, <1>2, <1>3, SafetyHolds, PTL DEF Spec

-----------------------------------------------------------------------------
(***************************************************************************)
(* What one step can make of a stop that is not a pause and not the        *)
(* program's own.                                                          *)
(***************************************************************************)
RealStops == {"OperatorStop", "Emergency", "Fault"}

Outcome ==
  \/ UNCHANGED lifecycle
  \/ lifecycle' = "EmergencyStopping"
  \/ lifecycle' = "Stopped" /\ stop.disp = "OperatorStop"
  \/ lifecycle' = "Faulted" /\ (stop.disp = "Emergency" => primary' # "None")
  \/ lifecycle' = "EmergencyStopped" /\ ~moving' /\ servoDisabled'

LEMMA FinishFaultOutcome ==
  ASSUME NEW conn, NEW disabled, NEW distrust, NEW prim,
         FinishFault(conn, disabled, distrust, prim), stop.disp = "Emergency" => prim # "None"
  PROVE  Outcome
<1>1. /\ lifecycle' = "Faulted"
      /\ primary' = prim \/ primary' = Raise(prim, "Fatal")
  BY DEF FinishFault, SetPrimary
<1> QED
  BY <1>1, RaiseAlarm DEF Outcome

\* A fault while the stop is pending ends the task at once.
LEMMA BeginFaultOutcome ==
  ASSUME StopPending, NEW q, NEW conn, NEW kind \in {"Recoverable", "Fatal"}, NEW command,
         BeginFault(q, conn, kind, command)
  PROVE  Outcome
<1>1. Raise(primary, kind) # "None"
  BY RaiseAlarm
<1> QED
  BY <1>1, FinishFaultOutcome DEF BeginFault

LEMMA ControlOutcome ==
  ASSUME SafetyInv, StopPending, lifecycle \in {"Stopping", "EmergencyStopping"}, HandleControl
  PROVE  next' = next /\ Outcome
<1>1. CASE ControlWithoutEffect \/ ResetRejected
  BY <1>1 DEF ControlWithoutEffect, ResetRejected, Drop, taskVars, Outcome
<1>2. CASE Estop
  BY <1>2 DEF Estop, Outcome
<1>3. ~(Stop \/ Reset)
  BY DEF Stop, Reset, ResetAllowed
<1>4. ~(\/ PauseBetweenCommands \/ PauseMotion \/ PauseLocalWait
        \/ ResumeBetweenCommands \/ ResumeMotion \/ ResumeMotionFails \/ ResumePastTimeRange
        \/ ResumeSatisfiedWait \/ ResumeLocalWait)
  BY DEF PauseBetweenCommands, PauseMotion, PauseLocalWait, ResumeBetweenCommands, ResumeMotion,
     ResumeMotionFails, ResumePastTimeRange, ResumeSatisfiedWait, ResumeLocalWait
<1> QED
  BY <1>1, <1>2, <1>3, <1>4 DEF HandleControl

LEMMA EventOutcome ==
  ASSUME SafetyInv, StopPending, stop.disp \in RealStops,
         lifecycle \in {"Stopping", "EmergencyStopping"}, HandleEvent, ~HandleControl
  PROVE  next' = next /\ Outcome
<1>1. CASE StaleMotionPoll \/ StaleDelayComplete \/ StaleTimeout \/ StaleStopPoll
  BY <1>1 DEF StaleMotionPoll, StaleDelayComplete, StaleTimeout, StaleStopPoll, Drop, taskVars,
     Outcome
<1>2. CASE StillStopping
  BY <1>2 DEF StillStopping, taskVars, Outcome
<1>3. ~(MotionRunning \/ MotionSucceeded \/ MotionFails \/ DelayComplete)
  BY DEF MotionRunning, MotionSucceeded, MotionFails, DelayComplete, PollIsCurrent, DelayIsOver
<1>4. CASE CommandTimeout \/ ConnectionLoss
  BY <1>4, BeginFaultOutcome DEF CommandTimeout, ConnectionLoss
<1>5. CASE StopPollFails
  BY <1>5, RaiseAlarm, FinishFaultOutcome DEF StopPollFails, FailStop
<1>6. CASE StopDeadline
  BY <1>6, RaiseAlarm, FinishFaultOutcome DEF StopDeadline, FailStop, Drop, taskVars, Outcome
<1>7. ~(PauseConfirmed \/ ProgramStopConfirmed)
  BY DEF PauseConfirmed, ProgramStopConfirmed, StopConfirmed, RealStops
<1>8. CASE FaultStopConfirmed
  BY <1>8, FinishFaultOutcome DEF FaultStopConfirmed, StopConfirmed
<1>9. CASE OperatorStopConfirmed
  <2>1. stop.disp = "OperatorStop" /\ next' = next
    BY <1>9 DEF OperatorStopConfirmed, StopConfirmed
  <2>2. CASE lifecycle' = "Stopped"
    BY <2>1, <2>2 DEF Outcome
  <2>3. ASSUME NEW conn, NEW distrust, NEW prim, FinishFault(conn, servoDisabled, distrust, prim)
        PROVE  Outcome
    BY <2>1, <2>3, FinishFaultOutcome
  <2> QED
    BY <1>9, <2>1, <2>2, <2>3 DEF OperatorStopConfirmed, FinishTerminal
<1>10. CASE EmergencyStopConfirmed
  <2>1. next' = next /\ ~moving'
    BY <1>10 DEF EmergencyStopConfirmed, StopConfirmed
  <2>2. untrusted => primary # "None"
    BY DEF SafetyInv, AlarmInv
  <2>3. CASE lifecycle' = "EmergencyStopped" /\ servoDisabled' = TRUE
    BY <2>1, <2>3 DEF Outcome
  <2>4. ASSUME NEW conn, NEW disabled, NEW distrust, NEW prim,
               FinishFault(conn, disabled, distrust, prim), prim # "None"
        PROVE  Outcome
    BY <2>4, FinishFaultOutcome
  <2>5. FinishTerminal("EmergencyStopped", TRUE, Raise(primary, "Recoverable")) => Outcome
    BY <2>3, <2>4, RaiseAlarm DEF FinishTerminal
  <2> QED
    BY <1>10, <2>1, <2>2, <2>4, <2>5, RaiseAlarm DEF EmergencyStopConfirmed
<1>11. CASE InputChange
  BY <1>11 DEF InputChange, InputSatisfies, taskVars, Outcome
<1> QED
  BY <1>1, <1>2, <1>3, <1>4, <1>5, <1>6, <1>7, <1>8, <1>9, <1>10, <1>11 DEF HandleEvent

LEMMA StopOutcome ==
  ASSUME SafetyInv, Next, StopPending, stop.disp \in RealStops
  PROVE  /\ lifecycle = StopLifecycle(stop.disp)
         /\ next' = next /\ Outcome
<1>1. lifecycle = StopLifecycle(stop.disp)
  BY PendingWatched DEF SafetyInv, EpisodeInv
<1>2. lifecycle \in {"Stopping", "EmergencyStopping"}
  BY <1>1, Zenon DEF RealStops, StopLifecycle
<1>3. ASSUME NEW p \in Programs, SubmitProgram(p) PROVE FALSE
  BY <1>2, <1>3 DEF SubmitProgram, ReplaceableRejection
<1>4. CASE (\E c \in ControlsUsed : SubmitControl(c)) \/ HostAdvancesClock
  BY <1>1, <1>4 DEF SubmitControl, HostAdvancesClock, taskVars, Outcome
<1>5. CASE HandleEvent
  BY <1>1, <1>2, <1>5, ControlOutcome, EventOutcome
<1>6. CASE HandleNextCommand
  BY <1>6, NextCommandCalls, CallsWorking DEF SafetyInv
<1>7. next' = next /\ Outcome
  BY <1>3, <1>4, <1>5, <1>6 DEF Next, Advance
<1> QED
  BY <1>1, <1>7

(***************************************************************************)
(* While a stop of the operator, of an ESTOP or of a fault is pending, no  *)
(* late answer, input or control lets the program go on (runtime.cpp, the  *)
(* lifecycle checks of HandleMotionPoll, FinishActiveSuccess and           *)
(* HandleControl).                                                         *)
(***************************************************************************)
THEOREM StopIsNotEscaped == Spec => NoEscapeFromStop
<1>1. SafetyInv /\ [Next]_vars =>
        [ StopPending /\ stop.disp \in {"OperatorStop", "Emergency", "Fault"} =>
            next' = next /\ lifecycle' \notin {"Running", "Waiting", "Paused"} ]_vars
  <2> SUFFICES ASSUME SafetyInv, Next, StopPending, stop.disp \in RealStops
               PROVE  next' = next /\ lifecycle' \notin {"Running", "Waiting", "Paused"}
    BY DEF RealStops
  <2>1. lifecycle \in {"Stopping", "EmergencyStopping"}
    BY StopOutcome, Zenon DEF RealStops, StopLifecycle
  <2> QED
    BY <2>1, StopOutcome DEF Outcome
<1> QED
  BY <1>1, SafetyHolds, PTL DEF Spec, NoEscapeFromStop

(***************************************************************************)
(* An ESTOP asked of the device is answered by EmergencyStopped, with the  *)
(* motion over and the servo off, or by a fault under an alarm; no other   *)
(* event that comes first ends it otherwise (README.md:104).               *)
(***************************************************************************)
THEOREM EmergencyEndsConfirmed == Spec => EmergencyIsConfirmed
<1>1. SafetyInv /\ [Next]_vars =>
        [ lifecycle = "EmergencyStopping" /\ lifecycle' # lifecycle =>
            \/ lifecycle' = "EmergencyStopped" /\ ~moving' /\ servoDisabled'
            \/ lifecycle' = "Faulted" /\ primary' # "None" ]_vars
  <2> SUFFICES ASSUME SafetyInv, Next, lifecycle = "EmergencyStopping", lifecycle' # lifecycle
               PROVE  \/ lifecycle' = "EmergencyStopped" /\ ~moving' /\ servoDisabled'
                      \/ lifecycle' = "Faulted" /\ primary' # "None"
    OBVIOUS
  <2>1. StopPending /\ lifecycle = StopLifecycle(stop.disp)
    BY PendingWatched DEF SafetyInv, EpisodeInv, StopLifecycles
  <2>2. stop.disp = "Emergency"
    BY <2>1, Zenon DEF StopLifecycle
  <2> QED
    BY <2>1, <2>2, StopOutcome DEF RealStops, Outcome
<1> QED
  BY <1>1, SafetyHolds, PTL DEF Spec, EmergencyIsConfirmed

-----------------------------------------------------------------------------
(***************************************************************************)
(* ActiveCommandWatched becomes inductive with the deadline: a handler     *)
(* drops the event of a deadline as stale when the command has none.       *)
(***************************************************************************)
Working == {"Running", "Waiting"}

EndEvent(a) == IF a.type = "DELAY" THEN DelayCompleteEvent(a) ELSE TimeoutEvent(a)

Ends(q, a) == \E n \in DOMAIN q : q[n] = EndEvent(a)

CommandInv ==
  HasActive /\ lifecycle \in Working => active.deadline \in Time /\ Ends(queue, active)

LEMMA EndEventTyped ==
  ASSUME NEW a \in ActiveCommands, a.deadline \in Time
  PROVE  EndEvent(a) \in Event /\ EndEvent(a).type \in {"DelayComplete", "Timeout"}
<1>1. DelayCompleteEvent(a) \in Event /\ TimeoutEvent(a) \in Event
  BY EventTypes
<1> QED
  BY <1>1 DEF EndEvent, DelayCompleteEvent, TimeoutEvent

LEMMA EndsSchedule ==
  ASSUME NEW q \in Seq(Event), NEW e \in Event, NEW a
  PROVE  /\ Ends(q, a) => Ends(Schedule(q, e), a)
         /\ e = EndEvent(a) => Ends(Schedule(q, e), a)
BY ScheduleKeeps DEF Ends

LEMMA EndsTail ==
  ASSUME NEW q \in Seq(Event), NEW a, Ends(q, a), Head(q) # EndEvent(a)
  PROVE  Ends(Tail(q), a)
BY TailKeeps DEF Ends

\* A step that leaves the command alone must leave its event in the queue.
LEMMA KeptCommand ==
  ASSUME CommandInv, UNCHANGED active,
         HasActive /\ lifecycle' \in Working => lifecycle \in Working,
         HasActive /\ lifecycle \in Working /\ Ends(queue, active) => Ends(queue', active)
  PROVE  CommandInv'
BY DEF CommandInv, HasActive

LEMMA IdleCommand ==
  ASSUME active' = NoCommand \/ lifecycle' \notin Working
  PROVE  CommandInv'
BY DEF CommandInv, HasActive

\* What ends or stops a task leaves no command at work.
LEMMA ExitCommand ==
  /\ \A conn, disabled, distrust, prim :
       FinishFault(conn, disabled, distrust, prim) => CommandInv'
  /\ \A result, disabled, prim : FinishTerminal(result, disabled, prim) => CommandInv'
  /\ \A q, disp, command, prim : BeginStop(q, disp, command, prim) => CommandInv'
  /\ \A q, conn, kind, command : BeginFault(q, conn, kind, command) => CommandInv'
  /\ \A q : Succeed(q) => CommandInv'
<1>1. ASSUME NEW conn, NEW disabled, NEW distrust, NEW prim,
             FinishFault(conn, disabled, distrust, prim)
      PROVE  CommandInv'
  BY <1>1, IdleCommand DEF FinishFault
<1>2. ASSUME NEW result, NEW disabled, NEW prim, FinishTerminal(result, disabled, prim)
      PROVE  CommandInv'
  BY <1>1, <1>2, IdleCommand DEF FinishTerminal
<1>3. ASSUME NEW q, NEW disp, NEW command, NEW prim, BeginStop(q, disp, command, prim)
      PROVE  CommandInv'
  <2>1. CASE lifecycle' = StopLifecycle(disp)
    BY <2>1, StopLifecycleRange, IdleCommand DEF StopLifecycles, Working
  <2>2. CASE FailStop(TRUE, prim)
    BY <1>1, <2>2 DEF FailStop
  <2> QED
    BY <1>3, <2>1, <2>2, Zenon DEF BeginStop
<1>4. ASSUME NEW q, NEW conn, NEW kind, NEW command, BeginFault(q, conn, kind, command)
      PROVE  CommandInv'
  BY <1>1, <1>3, <1>4 DEF BeginFault
<1>5. ASSUME NEW q, Succeed(q) PROVE CommandInv'
  BY <1>5, IdleCommand DEF Succeed
<1> QED
  BY <1>1, <1>2, <1>3, <1>4, <1>5

-----------------------------------------------------------------------------
LEMMA TakenCommand ==
  ASSUME TypeOK, CommandInv, NEW type, Take(type),
         HasActive /\ lifecycle \in Working => Head(queue) # EndEvent(active)
  PROVE  HasActive /\ lifecycle \in Working => Ends(Tail(queue), active)
BY EndsTail, TakeTyped DEF CommandInv, TypeOK

LEMMA OtherThanEnd ==
  ASSUME NEW e, e.type \notin {"DelayComplete", "Timeout"}, NEW a
  PROVE  e # EndEvent(a)
BY DEF EndEvent, DelayCompleteEvent, TimeoutEvent

\* The event that ends the command is never stale.
LEMMA EndIsCurrent ==
  ASSUME TypeOK, CommandInv, HasActive, lifecycle \in Working,
         StaleDelayComplete \/ StaleTimeout
  PROVE  Head(queue) # EndEvent(active)
<1> SUFFICES ASSUME Head(queue) = EndEvent(active) PROVE FALSE
  OBVIOUS
<1>1. active \in ActiveCommands /\ active.deadline \in Time
  BY DEF TypeOK, HasActive, CommandInv
<1>2. CASE StaleDelayComplete
  <2>1. Head(queue).type = "DelayComplete" /\ ~DelayIsOver
    BY <1>2 DEF StaleDelayComplete, Take
  <2>2. active.type = "DELAY" /\ Head(queue).gen = active.gen
    BY <2>1 DEF EndEvent, DelayCompleteEvent, TimeoutEvent
  <2> QED
    BY <2>1, <2>2 DEF DelayIsOver, Working
<1>3. CASE StaleTimeout
  <2>1. Head(queue).type = "Timeout" /\ ~DeadlinePassed /\ now' = Greatest(now, Head(queue).time)
    BY <1>3 DEF StaleTimeout, Take
  <2>2. /\ Head(queue).index = active.index /\ Head(queue).gen = active.gen
        /\ Head(queue).time = active.deadline
    BY <2>1 DEF EndEvent, DelayCompleteEvent, TimeoutEvent
  <2>3. now' >= active.deadline /\ active.deadline # NoDeadline
    BY <1>1, <2>1, <2>2, SessionAssumption DEF Greatest, Time, TypeOK, NoDeadline
  <2> QED
    BY <2>1, <2>2, <2>3 DEF DeadlinePassed
<1> QED
  BY <1>2, <1>3

\* Dropping an event that does not end the command.
LEMMA DropCommand ==
  ASSUME TypeOK, CommandInv, NEW type, Take(type), Drop,
         HasActive /\ lifecycle \in Working => Head(queue) # EndEvent(active)
  PROVE  CommandInv'
<1>1. queue' = Tail(queue) /\ UNCHANGED <<active, lifecycle>>
  BY DEF Drop, taskVars
<1> QED
  BY <1>1, TakenCommand, KeptCommand

LEMMA HostCommand ==
  ASSUME TypeOK, CommandInv,
         \/ \E p \in Programs : SubmitProgram(p)
         \/ \E c \in ControlsUsed : SubmitControl(c)
         \/ HostAdvancesClock
  PROVE  CommandInv'
<1>1. ASSUME NEW p \in Programs, SubmitProgram(p) PROVE CommandInv'
  BY <1>1, IdleCommand DEF SubmitProgram, PrepareResult
<1>2. ASSUME NEW c \in ControlsUsed, SubmitControl(c) PROVE CommandInv'
  <2>1. ControlEvent(now, c) \in Event /\ queue \in Seq(Event)
    BY SessionAssumption, EventTypes DEF TypeOK
  <2>2. queue' = Schedule(queue, ControlEvent(now, c)) /\ UNCHANGED <<lifecycle, active>>
    BY <1>2 DEF SubmitControl, taskVars
  <2> QED
    BY <2>1, <2>2, EndsSchedule, KeptCommand
<1>3. CASE HostAdvancesClock
  BY <1>3, KeptCommand DEF HostAdvancesClock, taskVars
<1> QED
  BY <1>1, <1>2, <1>3

LEMMA ControlCommand ==
  ASSUME TypeOK, CommandInv, HandleControl
  PROVE  CommandInv'
<1>0. \A c : TakeControl(c) =>
        /\ Take("Control") /\ Head(queue) # EndEvent(active)
        /\ Tail(queue) \in Seq(Event) /\ now' \in Time
        /\ HasActive /\ lifecycle \in Working => Ends(Tail(queue), active)
  BY TakenCommand, TakeTyped, OtherThanEnd DEF TakeControl, Take
<1>1. CASE ControlWithoutEffect \/ ResetRejected
  BY <1>0, <1>1, DropCommand DEF ControlWithoutEffect, ResetRejected
<1>2. CASE PauseBetweenCommands \/ PauseLocalWait \/ Reset
  BY <1>2, IdleCommand DEF PauseBetweenCommands, PauseLocalWait, Reset, Working
<1>3. CASE PauseMotion \/ ResumeMotionFails \/ ResumePastTimeRange \/ ResumeSatisfiedWait
  BY <1>3, ExitCommand
     DEF PauseMotion, ResumeMotionFails, ResumePastTimeRange, ResumeFault, ResumeSatisfiedWait
<1>4. CASE ResumeBetweenCommands
  BY <1>4, IdleCommand DEF ResumeBetweenCommands, HasActive
<1>5. CASE ResumeMotion
  <2>1. HasActive /\ active.type = "MOVEJ"
    BY <1>5 DEF ResumeMotion, HasActive, NoCommand
  <2>2. /\ Tail(queue) \in Seq(Event) /\ now' \in Time
        /\ Resumed \in ActiveCommands /\ Resumed.deadline \in Time
    BY <1>0, <1>5, <2>1, PausedTyped DEF ResumeMotion
  <2>3. Resumed.type = "MOVEJ"
    BY <2>1 DEF Resumed, TypeOK, HasActive, ActiveCommands
  <2>4. PICK delay \in PollDelays \cup {0} :
          LET poll == Least(Resumed.deadline, SaturatingAdd(now', delay))
          IN queue' = Schedule(Schedule(Tail(queue), MotionPollEvent(poll, Resumed)),
                               TimeoutEvent(Resumed))
    BY <1>5 DEF ResumeMotion
  <2>5. SaturatingAdd(now', delay) \in Time
    BY <2>2, SessionAssumption, TimeArithmetic
  <2>6. Least(Resumed.deadline, SaturatingAdd(now', delay)) \in Time
    BY <2>2, <2>5, TimeArithmetic
  <2> DEFINE first == Schedule(Tail(queue),
                        MotionPollEvent(Least(Resumed.deadline, SaturatingAdd(now', delay)), Resumed))
  <2>7. first \in Seq(Event) /\ TimeoutEvent(Resumed) \in Event
    BY <2>2, <2>6, EventTypes, ScheduleTyped
  <2>8. queue' = Schedule(first, TimeoutEvent(Resumed)) /\ TimeoutEvent(Resumed) = EndEvent(Resumed)
    BY <2>3, <2>4 DEF EndEvent
  <2>9. active' = Resumed
    BY <1>5 DEF ResumeMotion
  <2> HIDE DEF first
  <2>10. Ends(queue', active')
    BY <2>7, <2>8, <2>9, EndsSchedule
  <2> QED
    BY <2>2, <2>9, <2>10 DEF CommandInv
<1>6. CASE ResumeLocalWait
  <2>1. HasActive
    BY <1>6 DEF ResumeLocalWait, LocalWait, HasActive, NoCommand
  <2>2. /\ Tail(queue) \in Seq(Event)
        /\ Resumed \in ActiveCommands /\ Resumed.deadline \in Time
    BY <1>0, <1>6, <2>1, PausedTyped DEF ResumeLocalWait
  <2>3. Resumed.type = active.type
    BY <2>1 DEF Resumed, TypeOK, HasActive, ActiveCommands
  <2>4. queue' = Schedule(Tail(queue), EndEvent(Resumed)) /\ active' = Resumed
    BY <1>6, <2>3 DEF ResumeLocalWait, EndEvent
  <2>5. Ends(queue', active')
    BY <2>2, <2>4, EndEventTyped, EndsSchedule
  <2> QED
    BY <2>2, <2>4, <2>5 DEF CommandInv
<1>7. CASE Stop
  <2>1. CASE StopPending
    <3>1. queue' = Tail(queue) /\ UNCHANGED <<active, lifecycle>>
      BY <1>7, <2>1 DEF Stop, taskVars
    <3>2. HasActive /\ lifecycle \in Working => Ends(Tail(queue), active)
      BY <1>0, <1>7 DEF Stop
    <3> QED
      BY <3>1, <3>2, KeptCommand
  <2>2. CASE ~StopPending
    BY <1>7, <2>2, ExitCommand DEF Stop
  <2> QED
    BY <2>1, <2>2
<1>8. CASE Estop
  <2>1. CASE StopPending
    BY <1>8, <2>1, IdleCommand DEF Estop, Working
  <2>2. CASE ~StopPending
    BY <1>8, <2>2, ExitCommand DEF Estop
  <2> QED
    BY <2>1, <2>2
<1> QED
  BY <1>1, <1>2, <1>3, <1>4, <1>5, <1>6, <1>7, <1>8 DEF HandleControl

LEMMA EventCommand ==
  ASSUME EpisodeInv, CommandInv, HandleEvent, ~HandleControl
  PROVE  CommandInv'
<1>0. TypeOK
  BY DEF EpisodeInv
<1>1. \A type : Take(type) => Tail(queue) \in Seq(Event) /\ now' \in Time /\ Head(queue).type = type
  BY <1>0, TakeTyped
<1>2. CASE StaleDelayComplete \/ StaleTimeout
  BY <1>0, <1>2, EndIsCurrent, DropCommand DEF StaleDelayComplete, StaleTimeout
<1>3. CASE StaleMotionPoll \/ StaleStopPoll \/ (StopDeadline /\ ~StopDeadlinePassed)
  BY <1>0, <1>1, <1>3, OtherThanEnd, DropCommand
     DEF StaleMotionPoll, StaleStopPoll, StopDeadline
<1>4. CASE MotionRunning
  <2>1. /\ Take("MotionPoll") /\ HasActive /\ lifecycle = "Running" /\ active.type = "MOVEJ"
        /\ Head(queue).type = "MotionPoll"
    BY <1>1, <1>4 DEF MotionRunning, PollIsCurrent
  <2>2. /\ Ends(Tail(queue), active) /\ active \in ActiveCommands /\ active.deadline \in Time
        /\ Tail(queue) \in Seq(Event) /\ now' \in Time
    BY <1>0, <1>1, <2>1, TakenCommand, OtherThanEnd DEF Working, CommandInv, TypeOK, HasActive
  <2>3. UNCHANGED <<active, lifecycle>>
    BY <1>4 DEF MotionRunning, taskVars
  <2>4. Ends(queue', active)
    <3> DEFINE Again(delay) ==
                 MotionPollEvent(Least(active.deadline, SaturatingAdd(now', Greatest(1, delay))),
                                 active)
    <3>1. \A delay \in PollDelays : Again(delay) \in Event
      <4> SUFFICES ASSUME NEW delay \in PollDelays PROVE Again(delay) \in Event
        OBVIOUS
      <4>1. Greatest(1, delay) \in Nat
        BY SessionAssumption DEF Greatest
      <4>2. SaturatingAdd(now', Greatest(1, delay)) \in Time
        BY <2>2, <4>1, TimeArithmetic
      <4>3. Least(active.deadline, SaturatingAdd(now', Greatest(1, delay))) \in Time
        BY <2>2, <4>2, TimeArithmetic
      <4> QED
        BY <2>2, <4>3, EventTypes
    <3>2. \/ queue' = Tail(queue)
          \/ \E delay \in PollDelays : queue' = Schedule(Tail(queue), Again(delay))
      BY <1>4 DEF MotionRunning
    <3> HIDE DEF Again
    <3> QED
      BY <2>2, <3>1, <3>2, EndsSchedule
  <2> QED
    BY <2>3, <2>4, KeptCommand
<1>5. CASE MotionSucceeded \/ DelayComplete \/ MotionFails \/ CommandTimeout \/ ConnectionLoss
  BY <1>5, ExitCommand DEF MotionSucceeded, DelayComplete, MotionFails, CommandTimeout, ConnectionLoss
<1>6. CASE StopPollFails \/ (StopDeadline /\ StopDeadlinePassed)
  BY <1>6, ExitCommand DEF StopPollFails, StopDeadline, FailStop
<1>7. CASE FaultStopConfirmed \/ EmergencyStopConfirmed \/ OperatorStopConfirmed
           \/ ProgramStopConfirmed
  BY <1>7, ExitCommand DEF FaultStopConfirmed, EmergencyStopConfirmed, OperatorStopConfirmed,
     ProgramStopConfirmed
<1>8. CASE PauseConfirmed
  <2>1. HasActive
    BY <1>8 DEF PauseConfirmed, StopConfirmed, EpisodeInv, PauseHasCommand
  <2> QED
    BY <1>8, <2>1, IdleCommand DEF PauseConfirmed, Working
<1>9. CASE StillStopping
  <2>1. lifecycle \notin Working /\ UNCHANGED lifecycle
    BY <1>9, PendingWatched
       DEF StillStopping, taskVars, OwnEpisode, EpisodeInv, StopLifecycles, Working
  <2> QED
    BY <2>1, IdleCommand
<1>10. CASE InputChange
  <2>1. Take("Input") /\ Head(queue).type = "Input"
    BY <1>1, <1>10 DEF InputChange
  <2>2. CASE Succeed(Tail(queue))
    BY <2>2, ExitCommand
  <2>3. CASE queue' = Tail(queue) /\ UNCHANGED taskVars
    BY <1>0, <2>1, <2>3, TakenCommand, OtherThanEnd, KeptCommand DEF taskVars
  <2> QED
    BY <1>10, <2>2, <2>3 DEF InputChange
<1> QED
  BY <1>2, <1>3, <1>4, <1>5, <1>6, <1>7, <1>8, <1>9, <1>10 DEF HandleEvent

LEMMA NextCommandCommand ==
  ASSUME TypeOK, CommandInv, HandleNextCommand
  PROVE  CommandInv'
<1> DEFINE a == Activate(program[next])
<1>1. queue \in Seq(Event)
  BY DEF TypeOK
<1>2. ASSUME NEW type, Start(type), InRange(now, program[next].timeout)
      PROVE  /\ a \in ActiveCommands /\ a.deadline \in Time /\ a.type = type
             /\ now' = now /\ now \in Time
  BY <1>2, StartTyped DEF Activate, Start, TypeOK
<1> HIDE DEF a
<1>3. CASE ConnectFails \/ ServoCommandThrows \/ StartPastTimeRange \/ StartMotionFails \/ StopCommand
  BY <1>3, ExitCommand
     DEF ConnectFails, ServoCommandThrows, StartPastTimeRange, StartMotionFails, StartFault,
         StopCommand
<1>4. CASE ServoCommand \/ SetDo \/ ZeroDelay
  BY <1>4, KeptCommand DEF ServoCommand, SetDo, ZeroDelay, Pass
<1>5. CASE WaitAlreadySatisfied
  BY <1>5, IdleCommand DEF WaitAlreadySatisfied
<1>6. CASE StartDelay \/ StartWait
  <2>1. a \in ActiveCommands /\ a.deadline \in Time
    BY <1>2, <1>6 DEF StartDelay, StartWait
  <2>2. StartDelay => active' = a /\ queue' = Schedule(queue, EndEvent(a))
    <3> SUFFICES ASSUME StartDelay PROVE active' = a /\ queue' = Schedule(queue, EndEvent(a))
      OBVIOUS
    <3>1. a.type = "DELAY"
      BY <1>2 DEF StartDelay
    <3> QED
      BY <3>1 DEF StartDelay, Begin, EndEvent, a
  <2>3. StartWait => active' = a /\ queue' = Schedule(queue, EndEvent(a))
    <3> SUFFICES ASSUME StartWait PROVE active' = a /\ queue' = Schedule(queue, EndEvent(a))
      OBVIOUS
    <3>1. a.type # "DELAY"
      BY <1>2 DEF StartWait
    <3> QED
      BY <3>1 DEF StartWait, Begin, EndEvent, a
  <2>4. Ends(queue', active')
    BY <1>1, <1>6, <2>1, <2>2, <2>3, EndEventTyped, EndsSchedule
  <2> QED
    BY <1>6, <2>1, <2>2, <2>3, <2>4 DEF CommandInv
<1>7. CASE StartMotion
  <2>1. a \in ActiveCommands /\ a.deadline \in Time /\ a.type = "MOVEJ" /\ now \in Time
    BY <1>2, <1>7 DEF StartMotion
  <2>2. active' = a
    BY <1>7 DEF StartMotion, Begin, a
  <2>3. PICK delay \in PollDelays \cup {0} :
          LET poll == Least(a.deadline, SaturatingAdd(now, delay))
          IN queue' = Schedule(Schedule(queue, MotionPollEvent(poll, a)), TimeoutEvent(a))
    BY <1>7 DEF StartMotion, a
  <2>4. SaturatingAdd(now, delay) \in Time
    BY <2>1, SessionAssumption, TimeArithmetic
  <2>5. Least(a.deadline, SaturatingAdd(now, delay)) \in Time
    BY <2>1, <2>4, TimeArithmetic
  <2> DEFINE first == Schedule(queue, MotionPollEvent(Least(a.deadline, SaturatingAdd(now, delay)), a))
  <2>6. first \in Seq(Event) /\ TimeoutEvent(a) \in Event
    BY <1>1, <2>1, <2>5, EventTypes, ScheduleTyped
  <2>7. queue' = Schedule(first, TimeoutEvent(a)) /\ TimeoutEvent(a) = EndEvent(a)
    BY <2>1, <2>3 DEF EndEvent
  <2> HIDE DEF first
  <2>8. Ends(queue', active')
    BY <2>2, <2>6, <2>7, EndsSchedule
  <2> QED
    BY <2>1, <2>2, <2>8 DEF CommandInv
<1> QED
  BY <1>3, <1>4, <1>5, <1>6, <1>7 DEF HandleNextCommand

LEMMA CommandStep ==
  ASSUME EpisodeInv, CommandInv, [Next]_vars
  PROVE  CommandInv'
<1>1. CASE UNCHANGED vars
  BY <1>1, KeptCommand DEF vars
<1>2. CASE \/ \E p \in Programs : SubmitProgram(p)
           \/ \E c \in ControlsUsed : SubmitControl(c)
           \/ HostAdvancesClock
  BY <1>2, HostCommand DEF EpisodeInv
<1>3. CASE HandleEvent
  BY <1>3, ControlCommand, EventCommand DEF EpisodeInv
<1>4. CASE HandleNextCommand
  BY <1>4, NextCommandCommand DEF EpisodeInv
<1> QED
  BY <1>1, <1>2, <1>3, <1>4 DEF Next, Advance

(***************************************************************************)
(* A command that is under way has the event of its end in the queue, with *)
(* its present generation and deadline, and that event is never dropped as *)
(* stale (runtime.cpp, HandleDelayComplete, HandleTimeout,                 *)
(* ResumeActiveCommand).                                                   *)
(***************************************************************************)
THEOREM CommandIsWatched == Spec => []ActiveCommandWatched
<1>1. Init => CommandInv
  BY IdleCommand DEF Init, CommandInv, HasActive
<1>2. SafetyInv /\ CommandInv /\ [Next]_vars => CommandInv'
  BY CommandStep DEF SafetyInv
<1>3. CommandInv => ActiveCommandWatched
  BY Zenon DEF CommandInv, ActiveCommandWatched, Working, Ends, EndEvent, Pending
<1> QED
  BY <1>1, <1>2, <1>3, SafetyHolds, PTL DEF Spec

\* HandleNextCommand is reached with no command under way: one would have its last event due.
LEMMA CallsNothingActive ==
  ASSUME SafetyInv, CommandInv, CallsNextCommand
  PROVE  ~HasActive
<1> SUFFICES ASSUME HasActive PROVE FALSE
  OBVIOUS
<1>1. lifecycle \in Working
  BY CallsWorking DEF SafetyInv, Working
<1>2. Ends(queue, active)
  BY <1>1 DEF CommandInv
<1>3. queue # <<>>
  BY <1>2, EmptySeq DEF Ends
<1> QED
  BY <1>3 DEF CallsNextCommand, MustProcessEvent

-----------------------------------------------------------------------------
(***************************************************************************)
(* What a handler leaves in the queue: what was there behind the event it  *)
(* took, and events of its own, none of which is a control or due earlier  *)
(* than the present instant.                                               *)
(***************************************************************************)
In(e, q) == \E n \in DOMAIN q : q[n] = e
Adds(p, q) == \A n \in DOMAIN p : In(p[n], q) \/ (p[n].type # "Control" /\ p[n].time >= now')

LEMMA AddsSame == ASSUME NEW q PROVE Adds(q, q)
BY DEF Adds, In

LEMMA AddsEmpty == ASSUME NEW q PROVE Adds(<<>>, q)
BY DEF Adds

Ours(e) == e \in Event /\ e.type # "Control" /\ e.time >= now'

LEMMA AddsSchedule ==
  ASSUME NEW q, NEW p \in Seq(Event), Adds(p, q), NEW e, Ours(e)
  PROVE  Schedule(p, e) \in Seq(Event) /\ Adds(Schedule(p, e), q)
<1>1. \A n \in DOMAIN Schedule(p, e) :
        Schedule(p, e)[n] = e \/ \E i \in DOMAIN p : Schedule(p, e)[n] = p[i]
  BY ScheduleElements DEF Ours
<1> QED
  BY <1>1, ScheduleTyped DEF Adds, Ours

LEMMA LaterTime ==
  ASSUME NEW t \in Time, NEW d \in Nat
  PROVE  /\ SaturatingAdd(t, d) \in Time /\ SaturatingAdd(t, d) >= t
         /\ \A u, v \in Time : u >= t /\ v >= t => Least(u, v) \in Time /\ Least(u, v) >= t
BY SessionAssumption DEF Time, SaturatingAdd, Least

LEMMA OwnEvents ==
  /\ \A t \in Time, a \in ActiveCommands : t >= now' => Ours(MotionPollEvent(t, a))
  /\ \A a \in ActiveCommands : a.deadline \in Time /\ a.deadline >= now' =>
       Ours(TimeoutEvent(a)) /\ Ours(DelayCompleteEvent(a))
  /\ \A t \in Time, s \in StopEpisodes : t >= now' => Ours(StopPollEvent(t, s))
  /\ \A s \in StopEpisodes : s.deadline >= now' => Ours(StopTimeoutEvent(s))
<1>1. ASSUME NEW t \in Time, t >= now', NEW a \in ActiveCommands PROVE Ours(MotionPollEvent(t, a))
  <2>1. MotionPollEvent(t, a) \in Event
    BY EventTypes
  <2>2. MotionPollEvent(t, a).type = "MotionPoll" /\ MotionPollEvent(t, a).time = t
    BY DEF MotionPollEvent
  <2> QED
    BY <1>1, <2>1, <2>2 DEF Ours
<1>2. ASSUME NEW a \in ActiveCommands, a.deadline \in Time, a.deadline >= now'
      PROVE  Ours(TimeoutEvent(a)) /\ Ours(DelayCompleteEvent(a))
  <2>1. TimeoutEvent(a) \in Event /\ DelayCompleteEvent(a) \in Event
    BY <1>2, EventTypes
  <2>2. /\ TimeoutEvent(a).type = "Timeout" /\ TimeoutEvent(a).time = a.deadline
        /\ DelayCompleteEvent(a).type = "DelayComplete" /\ DelayCompleteEvent(a).time = a.deadline
    BY DEF TimeoutEvent, DelayCompleteEvent
  <2> QED
    BY <1>2, <2>1, <2>2 DEF Ours
<1>3. ASSUME NEW t \in Time, t >= now', NEW s \in StopEpisodes PROVE Ours(StopPollEvent(t, s))
  <2>1. StopPollEvent(t, s) \in Event
    BY EventTypes
  <2>2. StopPollEvent(t, s).type = "StopPoll" /\ StopPollEvent(t, s).time = t
    BY DEF StopPollEvent
  <2> QED
    BY <1>3, <2>1, <2>2 DEF Ours
<1>4. ASSUME NEW s \in StopEpisodes, s.deadline >= now' PROVE Ours(StopTimeoutEvent(s))
  <2>1. s.deadline \in Time
    BY DEF StopEpisodes
  <2>2. StopTimeoutEvent(s) \in Event
    BY <2>1, EventTypes
  <2>3. StopTimeoutEvent(s).type = "StopTimeout" /\ StopTimeoutEvent(s).time = s.deadline
    BY DEF StopTimeoutEvent
  <2> QED
    BY <1>4, <2>2, <2>3 DEF Ours
<1> QED
  BY <1>1, <1>2, <1>3, <1>4

\* A poll and a deadline for a command or a stop.
LEMMA AddsWatch ==
  ASSUME NEW q \in Seq(Event), NEW p, Adds(q, p), NEW e, Ours(e), NEW f, Ours(f)
  PROVE  Adds(Schedule(Schedule(q, e), f), p)
BY AddsSchedule

LEMMA BeginStopAdds ==
  ASSUME TypeOK, now' \in Time, NEW q \in Seq(Event), NEW p, Adds(q, p),
         NEW disp \in Dispositions, NEW command, NEW prim, BeginStop(q, disp, command, prim)
  PROVE  Adds(queue', p)
<1>1. ASSUME NEW delay \in PollDelays \cup {0},
             LET episode == [id |-> nextStop, disp |-> disp,
                             deadline |-> SaturatingAdd(now', StopTimeout)]
                 poll == Least(episode.deadline, SaturatingAdd(now', delay))
             IN queue' = Schedule(Schedule(q, StopPollEvent(poll, episode)),
                                  StopTimeoutEvent(episode))
      PROVE  Adds(queue', p)
  <2> DEFINE episode == [id |-> nextStop, disp |-> disp,
                         deadline |-> SaturatingAdd(now', StopTimeout)]
             poll == Least(episode.deadline, SaturatingAdd(now', delay))
  <2>1. StopTimeout \in Nat /\ delay \in Nat
    BY SessionAssumption
  <2>2. /\ episode.deadline \in Time /\ poll \in Time
        /\ episode.deadline >= now' /\ poll >= now'
    BY <2>1, LaterTime
  <2>3. episode \in StopEpisodes
    BY <2>2 DEF StopEpisodes, TypeOK
  <2>4. queue' = Schedule(Schedule(q, StopPollEvent(poll, episode)), StopTimeoutEvent(episode))
    BY <1>1
  <2> HIDE DEF episode, poll
  <2>5. Ours(StopPollEvent(poll, episode)) /\ Ours(StopTimeoutEvent(episode))
    BY <2>2, <2>3, OwnEvents
  <2> QED
    BY <2>4, <2>5, AddsWatch
<1>2. CASE queue' = q
  BY <1>2
<1> QED
  BY <1>1, <1>2 DEF BeginStop

LEMMA BeginFaultAdds ==
  ASSUME TypeOK, now' \in Time, NEW q \in Seq(Event), NEW p, Adds(q, p), NEW conn, NEW kind,
         NEW command, BeginFault(q, conn, kind, command)
  PROVE  Adds(queue', p)
BY BeginStopAdds DEF BeginFault, Dispositions

LEMMA ControlAdds ==
  ASSUME TypeOK, HandleControl
  PROVE  Adds(queue', Tail(queue))
<1>0. \A c : TakeControl(c) => Tail(queue) \in Seq(Event) /\ now' \in Time
  BY TakeTyped DEF TakeControl
<1>s. Adds(Tail(queue), Tail(queue))
  BY AddsSame
<1>1. CASE ControlWithoutEffect \/ ResetRejected
  BY <1>s, <1>1, Zenon DEF ControlWithoutEffect, ResetRejected, Drop
<1>2. CASE PauseBetweenCommands \/ PauseLocalWait \/ ResumeBetweenCommands \/ ResumeSatisfiedWait
  BY <1>s, <1>2 DEF PauseBetweenCommands, PauseLocalWait, ResumeBetweenCommands,
     ResumeSatisfiedWait, Succeed
<1>3. CASE PauseMotion
  BY <1>0, <1>s, <1>3, BeginStopAdds DEF PauseMotion, Dispositions
<1>4. CASE ResumeMotionFails \/ ResumePastTimeRange
  BY <1>0, <1>s, <1>4, BeginFaultAdds DEF ResumeMotionFails, ResumePastTimeRange, ResumeFault
<1>r. ASSUME ResumeMotion \/ ResumeLocalWait
      PROVE  /\ Tail(queue) \in Seq(Event) /\ now' \in Time
             /\ Resumed \in ActiveCommands /\ Resumed.deadline \in Time /\ Resumed.deadline >= now'
  <2>1. /\ HasActive /\ Tail(queue) \in Seq(Event) /\ now' \in Time
        /\ InRange(now', active.remaining)
    BY <1>0, <1>r DEF ResumeMotion, ResumeLocalWait, LocalWait, HasActive, NoCommand
  <2>2. Resumed \in ActiveCommands /\ Resumed.deadline \in Time
    BY <2>1, PausedTyped
  <2>3. active \in ActiveCommands /\ active.remaining \in Nat
    BY <2>1 DEF HasActive, TypeOK, ActiveCommands
  <2>4. Resumed.deadline = now' + active.remaining
    BY <2>3 DEF Resumed, ActiveCommands
  <2> QED
    BY <2>1, <2>2, <2>3, <2>4, SessionAssumption DEF Time
<1>5. CASE ResumeMotion
  <2>1. PICK delay \in PollDelays \cup {0} :
          LET poll == Least(Resumed.deadline, SaturatingAdd(now', delay))
          IN queue' = Schedule(Schedule(Tail(queue), MotionPollEvent(poll, Resumed)),
                               TimeoutEvent(Resumed))
    BY <1>5 DEF ResumeMotion
  <2> DEFINE poll == Least(Resumed.deadline, SaturatingAdd(now', delay))
  <2>2. poll \in Time /\ poll >= now'
    BY <1>5, <1>r, SessionAssumption, LaterTime
  <2>3. queue' = Schedule(Schedule(Tail(queue), MotionPollEvent(poll, Resumed)),
                          TimeoutEvent(Resumed))
    BY <2>1
  <2> HIDE DEF poll
  <2>4. Ours(MotionPollEvent(poll, Resumed)) /\ Ours(TimeoutEvent(Resumed))
    BY <1>5, <1>r, <2>2, OwnEvents
  <2> QED
    BY <1>5, <1>r, <1>s, <2>3, <2>4, AddsWatch
<1>6. CASE ResumeLocalWait
  <2>1. \E e \in {DelayCompleteEvent(Resumed), TimeoutEvent(Resumed)} :
          queue' = Schedule(Tail(queue), e)
    BY <1>6 DEF ResumeLocalWait
  <2>2. Ours(DelayCompleteEvent(Resumed)) /\ Ours(TimeoutEvent(Resumed))
    BY <1>6, <1>r, OwnEvents
  <2> QED
    BY <1>6, <1>r, <1>s, <2>1, <2>2, AddsSchedule
<1>7. CASE Stop
  BY <1>0, <1>s, <1>7, BeginStopAdds DEF Stop, Dispositions
<1>8. CASE Estop
  BY <1>0, <1>s, <1>8, BeginStopAdds DEF Estop, Dispositions
<1>9. CASE Reset
  BY <1>9, AddsEmpty DEF Reset
<1> QED
  BY <1>1, <1>2, <1>3, <1>4, <1>5, <1>6, <1>7, <1>8, <1>9 DEF HandleControl

LEMMA EventAdds ==
  ASSUME TypeOK, HandleEvent, ~HandleControl
  PROVE  Adds(queue', Tail(queue))
<1>0. \A type : Take(type) => Tail(queue) \in Seq(Event) /\ now' \in Time
  BY TakeTyped
<1>s. Adds(Tail(queue), Tail(queue))
  BY AddsSame
<1>d. ASSUME NEW delay \in PollDelays, now' \in Time, NEW limit \in Time, now' < limit
      PROVE  LET poll == Least(limit, SaturatingAdd(now', Greatest(1, delay)))
             IN  poll \in Time /\ poll >= now'
  <2>1. Greatest(1, delay) \in Nat
    BY SessionAssumption DEF Greatest
  <2>2. limit >= now'
    BY <1>d, SessionAssumption DEF Time
  <2> QED
    BY <1>d, <2>1, <2>2, LaterTime
<1>1. CASE StaleMotionPoll \/ StaleDelayComplete \/ StaleTimeout \/ StaleStopPoll
  BY <1>s, <1>1, Zenon DEF StaleMotionPoll, StaleDelayComplete, StaleTimeout, StaleStopPoll, Drop
<1>2. CASE MotionRunning
  <2>1. Tail(queue) \in Seq(Event) /\ now' \in Time
    BY <1>0, <1>2 DEF MotionRunning
  <2>2. CASE now' < active.deadline
    <3>1. active \in ActiveCommands
      BY <1>2 DEF MotionRunning, PollIsCurrent, TypeOK, HasActive
    <3>2. active.deadline \in Time
      BY <2>1, <2>2, <3>1, SessionAssumption DEF ActiveCommands, NoDeadline, Time
    <3>3. PICK delay \in PollDelays :
            queue' = Schedule(Tail(queue),
                       MotionPollEvent(Least(active.deadline,
                                             SaturatingAdd(now', Greatest(1, delay))), active))
      BY <1>2, <2>2 DEF MotionRunning
    <3> DEFINE poll == Least(active.deadline, SaturatingAdd(now', Greatest(1, delay)))
    <3>4. poll \in Time /\ poll >= now'
      BY <1>d, <2>1, <2>2, <3>2
    <3>5. queue' = Schedule(Tail(queue), MotionPollEvent(poll, active))
      BY <3>3
    <3> HIDE DEF poll
    <3>6. Ours(MotionPollEvent(poll, active))
      BY <3>1, <3>4, OwnEvents
    <3> QED
      BY <1>s, <2>1, <3>5, <3>6, AddsSchedule
  <2>3. CASE ~(now' < active.deadline)
    BY <1>s, <1>2, <2>3 DEF MotionRunning
  <2> QED
    BY <2>2, <2>3
<1>3. CASE StillStopping
  <2>1. /\ Tail(queue) \in Seq(Event) /\ now' \in Time
        /\ stop \in StopEpisodes /\ stop.deadline \in Time /\ now' < stop.deadline
    BY <1>0, <1>3 DEF StillStopping, OwnEpisode, StopPending, TypeOK, StopEpisodes, NoStop
  <2>2. PICK delay \in PollDelays :
          queue' = Schedule(Tail(queue),
                     StopPollEvent(Least(stop.deadline,
                                         SaturatingAdd(now', Greatest(1, delay))), stop))
    BY <1>3 DEF StillStopping
  <2> DEFINE poll == Least(stop.deadline, SaturatingAdd(now', Greatest(1, delay)))
  <2>3. poll \in Time /\ poll >= now'
    BY <1>d, <2>1
  <2>4. queue' = Schedule(Tail(queue), StopPollEvent(poll, stop))
    BY <2>2
  <2> HIDE DEF poll
  <2>5. Ours(StopPollEvent(poll, stop))
    BY <2>1, <2>3, OwnEvents
  <2> QED
    BY <1>s, <2>1, <2>4, <2>5, AddsSchedule
<1>4. CASE MotionSucceeded \/ DelayComplete \/ InputChange
  BY <1>s, <1>4 DEF MotionSucceeded, DelayComplete, InputChange, Succeed
<1>5. CASE MotionFails \/ CommandTimeout \/ ConnectionLoss
  BY <1>0, <1>s, <1>5, BeginFaultAdds DEF MotionFails, CommandTimeout, ConnectionLoss
<1>6. CASE StopPollFails \/ StopDeadline
  BY <1>s, <1>6, Zenon DEF StopPollFails, StopDeadline, Resolve, Drop
<1>7. CASE PauseConfirmed \/ FaultStopConfirmed \/ EmergencyStopConfirmed
           \/ OperatorStopConfirmed \/ ProgramStopConfirmed
  <2>1. \E disp : StopConfirmed(disp)
    BY <1>7, Zenon DEF PauseConfirmed, FaultStopConfirmed, EmergencyStopConfirmed,
       OperatorStopConfirmed, ProgramStopConfirmed
  <2> QED
    BY <1>s, <2>1, Zenon DEF StopConfirmed, Resolve
<1> QED
  BY <1>1, <1>2, <1>3, <1>4, <1>5, <1>6, <1>7 DEF HandleEvent

LEMMA NextCommandAdds ==
  ASSUME TypeOK, HandleNextCommand
  PROVE  Adds(queue', queue) /\ now' = now
<1> DEFINE a == Activate(program[next])
<1>0. \A type : Start(type) => now' = now /\ now' \in Time
  BY DEF Start, TypeOK
<1>q. queue \in Seq(Event)
  BY DEF TypeOK
<1>n. now' = now
  BY DEF HandleNextCommand, ConnectFails, ServoCommand, ServoCommandThrows, SetDo, ZeroDelay,
     StartDelay, StartWait, WaitAlreadySatisfied, StartMotion, StartMotionFails,
     StartPastTimeRange, StopCommand, Start
<1>s. Adds(queue, queue)
  BY AddsSame
<1>1. ASSUME NEW type, Start(type), InRange(now, program[next].timeout)
      PROVE  a \in ActiveCommands /\ a.deadline \in Time /\ a.deadline >= now' /\ now \in Time
  <2>1. a \in ActiveCommands /\ a.deadline \in Time /\ program[next].timeout \in Nat
    BY <1>1, StartTyped
  <2>2. a.deadline = now + program[next].timeout /\ now \in Time
    BY DEF Activate, TypeOK
  <2> QED
    BY <1>n, <2>1, <2>2, SessionAssumption DEF Time
<1> HIDE DEF a
<1>2. CASE ConnectFails
  BY <1>s, <1>2, BeginFaultAdds DEF ConnectFails, TypeOK
<1>3. CASE ServoCommandThrows \/ StartPastTimeRange \/ StartMotionFails
  BY <1>0, <1>q, <1>s, <1>3, BeginFaultAdds
     DEF ServoCommandThrows, StartPastTimeRange, StartMotionFails, StartFault
<1>4. CASE ServoCommand \/ SetDo \/ ZeroDelay \/ WaitAlreadySatisfied
  <2>1. UNCHANGED queue
    BY <1>4, Zenon DEF ServoCommand, SetDo, ZeroDelay, WaitAlreadySatisfied, Pass
  <2> QED
    BY <1>n, <1>s, <2>1
<1>5. CASE StopCommand
  BY <1>0, <1>q, <1>s, <1>5, BeginStopAdds DEF StopCommand, Dispositions
<1>6. CASE StartDelay \/ StartWait
  <2>1. a \in ActiveCommands /\ a.deadline \in Time /\ a.deadline >= now'
    BY <1>1, <1>6 DEF StartDelay, StartWait
  <2>2. queue' \in {Schedule(queue, DelayCompleteEvent(a)), Schedule(queue, TimeoutEvent(a))}
    BY <1>6 DEF StartDelay, StartWait, a
  <2>3. Ours(DelayCompleteEvent(a)) /\ Ours(TimeoutEvent(a))
    BY <2>1, OwnEvents
  <2> QED
    BY <1>n, <1>q, <1>s, <2>2, <2>3, AddsSchedule
<1>7. CASE StartMotion
  <2>1. a \in ActiveCommands /\ a.deadline \in Time /\ a.deadline >= now' /\ now \in Time
    BY <1>1, <1>7 DEF StartMotion
  <2>2. PICK delay \in PollDelays \cup {0} :
          LET poll == Least(a.deadline, SaturatingAdd(now, delay))
          IN queue' = Schedule(Schedule(queue, MotionPollEvent(poll, a)), TimeoutEvent(a))
    BY <1>7 DEF StartMotion, a
  <2> DEFINE poll == Least(a.deadline, SaturatingAdd(now, delay))
  <2>3. poll \in Time /\ poll >= now'
    BY <1>n, <2>1, SessionAssumption, LaterTime
  <2>4. queue' = Schedule(Schedule(queue, MotionPollEvent(poll, a)), TimeoutEvent(a))
    BY <2>2
  <2> HIDE DEF poll
  <2>5. Ours(MotionPollEvent(poll, a)) /\ Ours(TimeoutEvent(a))
    BY <2>1, <2>3, OwnEvents
  <2> QED
    BY <1>n, <1>q, <1>s, <2>4, <2>5, AddsWatch
<1> QED
  BY <1>n, <1>2, <1>3, <1>4, <1>5, <1>6, <1>7 DEF HandleNextCommand

\* An event is handled only when it must be, at its own time or later.
LEMMA EventTakes ==
  ASSUME HandleEvent
  PROVE  MustProcessEvent /\ now' = Greatest(now, Head(queue).time)
<1>1. HandleControl => \E c : TakeControl(c)
  BY Zenon DEF HandleControl, ControlWithoutEffect, PauseBetweenCommands, PauseMotion, PauseLocalWait,
     ResumeBetweenCommands, ResumeMotion, ResumeMotionFails, ResumePastTimeRange,
     ResumeSatisfiedWait, ResumeLocalWait, Stop, Estop, Reset, ResetRejected
<1>2. ~HandleControl => \E type : Take(type)
  BY Zenon DEF HandleEvent, StaleMotionPoll, MotionRunning, MotionSucceeded, MotionFails, DelayComplete,
     StaleDelayComplete, CommandTimeout, StaleTimeout, StaleStopPoll, StillStopping, StopPollFails,
     StopDeadline, PauseConfirmed, FaultStopConfirmed, EmergencyStopConfirmed,
     OperatorStopConfirmed, ProgramStopConfirmed, StopConfirmed, InputChange, ConnectionLoss
<1> QED
  BY <1>1, <1>2, Zenon DEF TakeControl, Take
=============================================================================
