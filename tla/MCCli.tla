-------------------------------- MODULE MCCli --------------------------------
(***************************************************************************)
(* Small instances of CliRun for TLC.                                      *)
(***************************************************************************)
EXTENDS CliProperties, TLC

Cmd(t, limit, i, w) == [type |-> t, timeout |-> limit, input |-> i, want |-> w]

\* examples/tasks/pick_place.task; a SET_TOOL wants the gripper closed.
PickAndPlace ==
  << Cmd("SERVO_ON", 0, "GRIPPER", TRUE),
     Cmd("SET_DO", 2, "CLAMP_ENABLE", TRUE),
     Cmd("WAIT_DI", 2, "PART_READY", TRUE),
     Cmd("MOVEJ", 4, "GRIPPER", TRUE),
     Cmd("SET_TOOL", 4, "GRIPPER", TRUE),
     Cmd("WAIT_DI", 2, "GRIP_OK", TRUE),
     Cmd("MOVEJ", 4, "GRIPPER", TRUE),
     Cmd("SET_TOOL", 4, "GRIPPER", FALSE),
     Cmd("MOVEJ", 4, "GRIPPER", TRUE),
     Cmd("STOP", 0, "GRIPPER", TRUE) >>

PickAndPlaceTargets ==
  <<"home", "home", "pick", "pick", "home", "home", "place", "home", "home", "home">>

On == Cmd("SERVO_ON", 0, "GRIPPER", TRUE)
End == Cmd("STOP", 0, "GRIPPER", TRUE)
Close == Cmd("SET_TOOL", 4, "GRIPPER", TRUE)
Open == Cmd("SET_TOOL", 4, "GRIPPER", FALSE)
Move == Cmd("MOVEJ", 4, "GRIPPER", TRUE)

\* The gripper closes on nothing; the workpiece is let go at PICK, after a delay and a wait that
\* take no time; no time is left for a command.
OddTasks ==
  { <<On, Close, End>>,
    <<On, Cmd("DELAY", 0, "GRIPPER", TRUE), Cmd("WAIT_DI", 2, "GRIP_OK", FALSE), Move, Close, Open, End>>,
    <<On, Cmd("DELAY", 1, "GRIPPER", TRUE), Cmd("DELAY", MaxTime, "GRIPPER", TRUE), End>> }

Signal == <<On, Cmd("SET_DO", 2, "CLAMP_ENABLE", TRUE), End>>
Brief == <<On, Cmd("SET_DO", 2, "CLAMP_ENABLE", TRUE), Move, End>>

Grasp == <<On, Cmd("SET_DO", 2, "CLAMP_ENABLE", TRUE), Move, Close, End>>

PerilousTasks == {Grasp, Brief}
TaskPrograms == {PickAndPlace, Signal} \cup OddTasks \cup PerilousTasks
TasksOfSetups ==
  [ plain |-> {Grasp} \cup OddTasks, normal |-> {PickAndPlace}, estop |-> {Brief} ]
  @@ ("by hand" :> {Signal})

Names == {"PART_READY", "GRIP_OK", "CLAMP_ENABLE", "GRIPPER"}
AllLow == [i \in Inputs |-> FALSE]
NoScenario == <<>>
=============================================================================
