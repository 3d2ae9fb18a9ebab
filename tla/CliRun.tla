------------------------------- MODULE CliRun -------------------------------
(***************************************************************************)
(* One run of the CLI on CoppeliaSim (main.cpp, simulator_lifecycle.cpp,   *)
(* cli_evidence_barrier.cpp), and the script that starts the simulator and *)
(* the CLI and takes the pictures (scripts/gui_evidence_capture.py).       *)
(*                                                                         *)
(* The CLI runs a task to its end; then it closes the simulator in three   *)
(* steps, each of which may fail.  When evidence is asked for, it prints   *)
(* the result, stops the simulation and waits at a barrier of two files    *)
(* until the script has taken its picture, or until a time limit.  The     *)
(* script has time limits of its own and in the end stops what it started. *)
(***************************************************************************)
EXTENDS CoppeliaSession

CONSTANT Tasks   \* bound: the programs that may be run in each of the Setups

VARIABLES
  setup,         \* who started the CLI: see Setups
  step,          \* where main is: the loop around Advance, or a step of the clean-up
  passed,        \* the lifecycle operations that passed
  barrier,       \* what PublishEvidenceAndWait returned: ok or failed
  exitStatus,    \* of the CLI, or NotExited
  readyFile,     \* the evidence-ready file: none, stale (of another run) or own
  continueFile,  \* the evidence-continue file
  script,        \* where run_scenario is
  copied,        \* by hand: the record that was read
  failed,        \* run_scenario: capture_error or scenario_error
  picture,       \* what was on the screen when it was looked at: frozen, moving or nothing
  verdict,       \* of run_scenario: verified or failed
  alive          \* the simulator's process

cliVars == <<setup, step, passed, barrier, exitStatus>>
fileVars == <<readyFile, continueFile>>
scriptVars == <<script, copied, failed, picture, verdict>>
runVars == <<coppeliaVars, cliVars, fileVars, scriptVars, alive>>

(***************************************************************************)
(* The CLI without evidence; with evidence that is looked at and confirmed *)
(* by hand, with files of an earlier run about; and the two scenarios of   *)
(* the script, in a directory of their own.                                *)
(***************************************************************************)
Setups == {"plain", "by hand", "normal", "estop"}

ASSUME TasksAssumption ==
  Tasks \in [Setups -> SUBSET Programs] /\ "ESTOP" \in ControlsUsed

Scripted == setup \in {"normal", "estop"}
EvidenceCaptureRequested == setup # "plain"

NotExited == -1

RunInit ==
  /\ CoppeliaInit
  /\ setup \in Setups
  /\ step = "loop" /\ passed = {} /\ barrier = "none" /\ exitStatus = NotExited
  /\ IF setup = "by hand" THEN readyFile = "stale" /\ continueFile = "stale"
     ELSE readyFile = "none" /\ continueFile = "none"
  /\ script = IF setup = "plain" THEN "none" ELSE "waits for ready"
  /\ copied = "none" /\ failed = FALSE /\ picture = "none" /\ verdict = "none"
  /\ alive = TRUE

ScriptStands == UNCHANGED <<scriptVars, setup>>
SessionStands == UNCHANGED coppeliaVars

-----------------------------------------------------------------------------
(***************************************************************************)
(* main: Advance until the task is terminal.  main submits one program and *)
(* an ESTOP, by its options or when the task takes too long.  Any control  *)
(* may be submitted where it is the station node that runs tasks this way: *)
(* the plain setup stands for both.                                        *)
(***************************************************************************)
ControlsOf ==
  IF setup = "plain" THEN ControlsUsed ELSE IF controls = 0 THEN {"ESTOP"} ELSE {}

TasksOf == IF setup = "plain" \/ submissions = 0 THEN Tasks[setup] ELSE {}

Submits ==
  /\ step = "loop" /\ DeviceHost(TasksOf, ControlsOf)
  /\ UNCHANGED <<cliVars, fileVars, scriptVars, alive>>

Advances ==
  /\ step = "loop" /\ DeviceAdvance
  /\ UNCHANGED <<cliVars, fileVars, scriptVars, alive>>

LeaveLoop ==
  /\ step = "loop" /\ terminal
  /\ step' = "stop_simulation"
  /\ SessionStands /\ ScriptStands /\ UNCHANGED <<passed, barrier, exitStatus, fileVars, alive>>

(***************************************************************************)
(* RunSimulatorLifecycleOperation: an operation that throws has failed,    *)
(* and the next one is tried nevertheless.                                 *)
(***************************************************************************)
Operation(name, after, ok) ==
  /\ step = name /\ step' = after
  /\ passed' = IF ok THEN passed \cup {name} ELSE passed
  /\ UNCHANGED <<exitStatus, fileVars>> /\ ScriptStands

HasWorkcellEvidence == lastGeneration # NoGeneration

\* The barrier comes between the stop and the disconnection, if there is something to show.
StopTheSimulation ==
  \E ok \in BOOLEAN :
    /\ Operation("stop_simulation",
                 IF EvidenceCaptureRequested /\ ok /\ HasWorkcellEvidence THEN "clear_ready" ELSE "disconnect", ok)
    /\ Calls(StopSimulation(device, ~ok))
    /\ barrier' = IF EvidenceCaptureRequested /\ ok /\ ~HasWorkcellEvidence THEN "failed" ELSE barrier
    /\ UNCHANGED <<allVars, alive>>

DisconnectSimulator ==
  /\ Operation("disconnect", "quit_simulator", TRUE)
  /\ Calls(Disconnect(device))
  /\ UNCHANGED <<allVars, barrier, alive>>

\* QuitSimulator makes a connection of its own.
QuitSimulator ==
  \E ok \in BOOLEAN :
    /\ Operation("quit_simulator", "return", ok)
    /\ alive' = (alive /\ ~ok)
    /\ SessionStands /\ UNCHANGED barrier

AllPassed == {"stop_simulation", "disconnect", "quit_simulator"}

Return ==
  /\ step = "return" /\ step' = "exited"
  /\ exitStatus' = IF outcome = "ProgramCompleted" /\ passed = AllPassed /\ barrier # "failed"
                   THEN 0 ELSE 1
  /\ SessionStands /\ ScriptStands /\ UNCHANGED <<passed, barrier, fileVars, alive>>

-----------------------------------------------------------------------------
(***************************************************************************)
(* PublishEvidenceAndWait.  The record is written to a temporary file and  *)
(* renamed: the ready file appears as a whole.                             *)
(***************************************************************************)
BarrierStep(from, to) ==
  /\ step = from /\ step' = to
  /\ SessionStands /\ ScriptStands /\ UNCHANGED <<passed, exitStatus, alive>>

ClearReady ==
  BarrierStep("clear_ready", "clear_continue")
  /\ readyFile' = "none" /\ UNCHANGED <<continueFile, barrier>>

ClearContinue ==
  BarrierStep("clear_continue", "publish")
  /\ continueFile' = "none" /\ UNCHANGED <<readyFile, barrier>>

PublishReady ==
  BarrierStep("publish", "wait")
  /\ readyFile' = "own" /\ UNCHANGED <<continueFile, barrier>>

\* Slip: it is enough that the file is there.
RecordMatchesAny == continueFile # "none"

\* The file must hold the very record that was published.
RecordMatches == continueFile = "own"

Confirmed ==
  /\ BarrierStep("wait", "disconnect") /\ RecordMatches
  /\ barrier' = "ok" /\ UNCHANGED fileVars

\* Slip: main gives up only when it need not.
BarrierWaitsForEver ==
  /\ BarrierStep("wait", "disconnect") /\ RecordMatches
  /\ barrier' = "failed" /\ UNCHANGED fileVars

\* The time limit: main reports the failure and goes on to close the simulator.
BarrierTimesOut ==
  /\ BarrierStep("wait", "disconnect")
  /\ barrier' = "failed" /\ UNCHANGED fileVars

\* filesystem_error, or the record cannot be written.
BarrierFails ==
  /\ \E at \in {"clear_ready", "clear_continue", "publish", "wait"} : BarrierStep(at, "disconnect")
  /\ barrier' = "failed" /\ UNCHANGED fileVars

Main ==
  \/ LeaveLoop
  \/ StopTheSimulation \/ DisconnectSimulator \/ QuitSimulator \/ Return
  \/ ClearReady \/ ClearContinue \/ PublishReady
  \/ Confirmed \/ BarrierTimesOut

-----------------------------------------------------------------------------
(***************************************************************************)
(* Who looks at the evidence.                                              *)
(***************************************************************************)
Screen == IF ~alive THEN "nothing" ELSE IF device.simulating THEN "moving" ELSE "frozen"

ScriptStep(from, to) ==
  /\ script = from /\ script' = to
  /\ SessionStands /\ UNCHANGED <<setup, passed, barrier, exitStatus, readyFile, copied>>

MainStands == UNCHANGED <<step, alive>>

\* By hand the ready file is read, maybe the one of another run, and its copy written later.
ReadsByHand ==
  /\ setup = "by hand" /\ readyFile # "none"
  /\ script = "waits for ready" /\ script' = "writes copy"
  /\ copied' = readyFile /\ picture' = Screen
  /\ SessionStands /\ MainStands
  /\ UNCHANGED <<setup, passed, barrier, exitStatus, fileVars, failed, verdict>>

WritesByHand ==
  /\ ScriptStep("writes copy", "waits for ready")
  /\ continueFile' = copied
  /\ MainStands /\ UNCHANGED <<failed, picture, verdict>>

(***************************************************************************)
(* run_scenario.  Its time limits may pass at any time.                    *)
(***************************************************************************)
SeesReady ==
  /\ Scripted /\ readyFile # "none"
  /\ ScriptStep("waits for ready", "captures")
  /\ MainStands /\ UNCHANGED <<continueFile, failed, picture, verdict>>

\* wait_for_file gives up: the CLI has exited without it, or the time is up.
MissesReady ==
  /\ Scripted
  /\ ScriptStep("waits for ready", "stops all") /\ failed' = TRUE
  /\ MainStands /\ UNCHANGED <<continueFile, picture, verdict>>

\* A capture that fails is remembered, and confirmed all the same.
Captures ==
  /\ ScriptStep("captures", "confirms")
  /\ \E ok \in {alive, FALSE} :
       failed' = (failed \/ ~ok) /\ picture' = IF ok THEN Screen ELSE picture
  /\ MainStands /\ UNCHANGED <<continueFile, verdict>>

ConfirmsCapture ==
  /\ ScriptStep("confirms", "waits for main")
  /\ continueFile' = readyFile
  /\ MainStands /\ UNCHANGED <<failed, picture, verdict>>

\* Each of the two is waited for, for some time.
WaitsFor(what, gone, then) ==
  /\ ScriptStep(what, then)
  /\ failed' \in {failed \/ ~gone, TRUE}
  /\ MainStands /\ UNCHANGED <<continueFile, picture, verdict>>

(***************************************************************************)
(* verify_case: the exit status of the scenario, what the CLI printed      *)
(* before the clean-up, and the lifecycle operations in its log.           *)
(***************************************************************************)
NormalState ==
  /\ exitStatus = 0 /\ outcome = "ProgramCompleted"
  /\ device.piece = "place" /\ ~device.held /\ device.motor = Travel /\ device.arm = "home"
EstopState == exitStatus = 1 /\ outcome = "EmergencyStopped" /\ safeConfirmed

\* Slip: a capture that failed is not held against the case.
VerifiedWithoutCapture ==
  /\ passed = AllPassed
  /\ IF setup = "normal" THEN NormalState ELSE EstopState

Verified ==
  /\ ~failed /\ passed = AllPassed
  /\ IF setup = "normal" THEN NormalState ELSE EstopState

\* stop_owned_process, for the CLI and then for the simulator.
StopsAll ==
  /\ ScriptStep("stops all", "over")
  /\ step' = IF step = "exited" THEN "exited" ELSE "killed"
  /\ alive' = FALSE
  /\ verdict' = IF Verified THEN "verified" ELSE "failed"
  /\ UNCHANGED <<continueFile, failed, picture>>

Script ==
  \/ ReadsByHand \/ WritesByHand
  \/ SeesReady \/ MissesReady \/ Captures \/ ConfirmsCapture
  \/ WaitsFor("waits for main", step = "exited", "waits for simulator")
  \/ WaitsFor("waits for simulator", ~alive, "stops all")
  \/ StopsAll

RunNext == Submits \/ Advances \/ Main \/ BarrierFails \/ Script

\* main advances the task until it is terminal, then does one step after the other; the
\* script's process goes on as well.
RunSpec ==
  /\ RunInit /\ [][RunNext]_runVars
  /\ WF_runVars(~terminal /\ Advances) /\ WF_runVars(Main)
  /\ WF_runVars(Scripted /\ Script)
=============================================================================
