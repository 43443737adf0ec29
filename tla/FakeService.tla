------------------------------- MODULE FakeService -------------------------------
(***************************************************************************)
(* fake-service runs a camera program as its child, restarts it when it    *)
(* fails and hands on the signal that stops it; the init scripts start and *)
(* stop fake-service itself, if a camera is there and the settings name    *)
(* it. A signal arrives between any two instructions of the supervisor and *)
(* of a child that it has just forked.                                     *)
(***************************************************************************)
EXTENDS Naturals

CONSTANT MaxCalls   \* bound: calls of the init script

ASSUME FakeServiceAssumption == MaxCalls \in Nat

VARIABLES
  pc,         \* the supervisor: where it is, "off" when there is none
  received,   \* received_signal is set
  childPid,   \* child_pid is set
  child,      \* the child: none, forked but with the parent's signal handlers,
              \* running the program, or a zombie
  status,     \* how the last child ended: with code 0, otherwise, or not yet
  told,       \* the running program has been sent a signal
  device,     \* the camera's device is there
  setting,    \* the settings want the service: "paxx12", for RTSP also "true"
  script,     \* the step the init script is at
  enabled,    \* the script's copy of the setting
  calls,      \* counter of the bound
  wanted,     \* history: what the last finished command was to leave, if anything
  refused,    \* history: the last start that was made found a supervisor that was to stop
  missed,     \* history: the last signal reached no program that it should stop
  ended       \* history: the supervisor left on its own account

supervisor == <<pc, received, childPid>>
program == <<child, status, told>>
camera == <<device, setting>>
vars == <<supervisor, program, camera, script, enabled, calls, wanted, refused, missed, ended>>

Labels == {"off", "boot", "test", "fork", "assign", "read", "wait", "reset", "judge", "sleep"}
Commands == {"start", "stop", "restart"}

TypeOK ==
  /\ pc \in Labels /\ child \in {"none", "forked", "running", "zombie"}
  /\ status \in {"none", "zero", "failed"}
  /\ script \in Commands \cup {"idle", "pause"}
  /\ received \in BOOLEAN /\ childPid \in BOOLEAN /\ told \in BOOLEAN
  /\ device \in BOOLEAN /\ setting \in BOOLEAN /\ enabled \in BOOLEAN
  /\ wanted \in {"up", "down", "any"}
  /\ refused \in BOOLEAN /\ missed \in BOOLEAN /\ ended \in BOOLEAN
  /\ calls \in 0 .. MaxCalls
  /\ childPid <=> pc \in {"read", "wait", "reset"}

Init ==
  /\ pc = "off" /\ child = "none" /\ status = "none" /\ script = "idle" /\ calls = 0
  /\ received = FALSE /\ childPid = FALSE /\ told = FALSE
  /\ device \in BOOLEAN /\ setting \in BOOLEAN /\ enabled = FALSE
  /\ wanted = "any" /\ refused = FALSE /\ missed = FALSE /\ ended = FALSE

--------------------------------------------------------------------------------
(* The init script, S99v4l2-mpp-usb; S99v4l2-mpp-mipi is alike.              *)

\* The settings are read before the command is looked at.
Call(command) ==
  /\ script = "idle" /\ calls < MaxCalls
  /\ calls' = calls + 1 /\ script' = command /\ wanted' = "any" /\ enabled' = setting
  /\ UNCHANGED <<supervisor, program, camera, refused, missed, ended>>

\* start() returns at once without the device or the setting.
StartNot ==
  /\ script = "start" /\ ~(device /\ enabled)
  /\ script' = "idle"
  /\ UNCHANGED <<supervisor, program, camera, enabled, calls, wanted, refused, missed, ended>>

(* Mutant of Start: the camera's setting is not looked at.                   *)
Start_AnySetting ==
  /\ script = "start" /\ device
  /\ script' = "idle" /\ wanted' = IF enabled THEN "up" ELSE wanted
  /\ \/ /\ pc = "off"
        /\ pc' = "boot" /\ received' = FALSE /\ childPid' = FALSE /\ status' = "none"
        /\ refused' = FALSE /\ missed' = FALSE /\ ended' = FALSE
     \/ /\ pc # "off"
        /\ refused' = received
        /\ UNCHANGED <<supervisor, status, missed, ended>>
  /\ UNCHANGED <<child, told, camera, enabled, calls>>

\* start-stop-daemon -S starts nothing when the pid file names a process that
\* still runs this program.
Start ==
  /\ script = "start" /\ device /\ enabled
  /\ script' = "idle" /\ wanted' = "up"
  /\ \/ /\ pc = "off"
        /\ pc' = "boot" /\ received' = FALSE /\ childPid' = FALSE /\ status' = "none"
        /\ refused' = FALSE /\ missed' = FALSE /\ ended' = FALSE
     \/ /\ pc # "off"
        /\ refused' = received
        /\ UNCHANGED <<supervisor, status, missed, ended>>
  /\ UNCHANGED <<child, told, camera, enabled, calls>>

(* Mutant of SignalHandler: the signal is noted and not handed on.           *)
SignalHandler_NotesOnly ==
  /\ received' = TRUE
  /\ UNCHANGED told

\* signal_handler, run in the supervisor.
SignalHandler ==
  /\ received' = TRUE
  /\ told' = (told \/ (childPid /\ child = "running"))

\* start-stop-daemon -K sends SIGTERM once. It kills a supervisor without
\* handlers yet, and cuts short a read or a sleep that it is blocked in; a
\* child that still has the parent's handlers swallows what is handed on.
Signal ==
  \/ /\ pc = "off" /\ UNCHANGED <<supervisor, told, missed>>
  \/ /\ pc = "boot" /\ pc' = "off" /\ UNCHANGED <<received, childPid, told, missed>>
  \/ /\ pc \notin {"off", "boot"}
     /\ SignalHandler
     /\ missed' = (pc \in {"fork", "assign"} \/ (childPid /\ child = "forked"))
     /\ \/ UNCHANGED pc
        \/ pc = "read" /\ pc' = "wait"
        \/ pc = "sleep" /\ pc' = "test"
     /\ UNCHANGED childPid

Stop ==
  /\ script \in {"stop", "restart"}
  /\ script' = IF script = "stop" THEN "idle" ELSE "pause"
  /\ wanted' = "down"
  /\ Signal
  /\ UNCHANGED <<child, status, camera, enabled, calls, refused, ended>>

\* sleep 1
Pause ==
  /\ script = "pause" /\ script' = "start"
  /\ UNCHANGED <<supervisor, program, camera, enabled, calls, wanted, refused, missed, ended>>

\* The camera is plugged in or pulled out, a user changes the settings.
Camera ==
  /\ \/ device' = ~device /\ UNCHANGED setting
     \/ setting' = ~setting /\ UNCHANGED device
  /\ UNCHANGED <<supervisor, program, script, enabled, calls, wanted, refused, missed, ended>>

--------------------------------------------------------------------------------
(* main                                                                      *)

At(label) == pc = label
Others == <<camera, script, enabled, calls, wanted, refused, missed>>

InstallHandlers ==
  /\ At("boot") /\ pc' = "test"
  /\ UNCHANGED <<received, childPid, program, ended, Others>>

(* Mutant of Test: the loop goes on for ever.                                *)
Test_Forever ==
  /\ At("test") /\ pc' = "fork"
  /\ UNCHANGED <<received, childPid, program, ended, Others>>

Test ==
  /\ At("test") /\ pc' = IF received THEN "off" ELSE "fork"
  /\ UNCHANGED <<received, childPid, program, ended, Others>>

Fork ==
  /\ At("fork") /\ pc' = "assign"
  /\ child' = "forked" /\ status' = "none"
  /\ UNCHANGED <<received, childPid, told, ended, Others>>

\* pipe() or fork() fails.
ForkFails ==
  /\ At("fork") /\ pc' = "off" /\ ended' = TRUE
  /\ UNCHANGED <<received, childPid, program, Others>>

\* The result of fork() is stored in child_pid.
Assign ==
  /\ At("assign") /\ pc' = "read"
  /\ childPid' = TRUE
  /\ UNCHANGED <<received, program, ended, Others>>

\* log_child_output reads to the end of the pipe, which the program holds open.
ReadToEnd ==
  /\ At("read") /\ child = "zombie" /\ pc' = "wait"
  /\ UNCHANGED <<received, childPid, program, ended, Others>>

(* Mutant of Wait: waitpid that a signal interrupts is not called again.     *)
Wait_OnlyOnce ==
  /\ At("wait") /\ (child = "zombie" \/ received) /\ pc' = "reset"
  /\ child' = IF child = "zombie" THEN "none" ELSE child
  /\ told' = FALSE
  /\ UNCHANGED <<received, childPid, status, ended, Others>>

Wait ==
  /\ At("wait") /\ child = "zombie" /\ pc' = "reset"
  /\ child' = "none" /\ told' = FALSE
  /\ UNCHANGED <<received, childPid, status, ended, Others>>

(* Mutant of Reset: child_pid goes on naming a child that is gone.           *)
Reset_KeepsPid ==
  /\ At("reset") /\ pc' = "judge"
  /\ UNCHANGED <<received, childPid, program, ended, Others>>

Reset ==
  /\ At("reset") /\ pc' = "judge"
  /\ childPid' = FALSE
  /\ UNCHANGED <<received, program, ended, Others>>

(* Mutant of Leaves: the supervisor leaves with any child that has ended.    *)
Leaves_Always == TRUE

Leaves == status = "zero" \/ received

Judge ==
  /\ At("judge") /\ pc' = IF Leaves THEN "off" ELSE "sleep"
  /\ ended' = (status = "zero")
  /\ UNCHANGED <<received, childPid, program, Others>>

(* Mutant of Wake: the program is started again only by a signal.            *)
Wake_Never == FALSE /\ UNCHANGED vars

Wake ==
  /\ At("sleep") /\ pc' = "test"
  /\ UNCHANGED <<received, childPid, program, ended, Others>>

--------------------------------------------------------------------------------
(* The child                                                                 *)

\* The default handlers are back; the program is executed, or _exit(127).
Exec ==
  /\ child = "forked" /\ child' = "running"
  /\ UNCHANGED <<supervisor, status, told, ended, Others>>

Exit ==
  /\ child = "running" /\ child' = "zombie"
  /\ status' \in {"zero", "failed"}
  /\ UNCHANGED <<supervisor, told, ended, Others>>

Script == Start \/ StartNot \/ Stop \/ Pause

Main ==
  \/ InstallHandlers \/ Test \/ Fork \/ ForkFails \/ Assign \/ ReadToEnd \/ Wait
  \/ Reset \/ Judge \/ Wake

Next == (\E c \in Commands : Call(c)) \/ Script \/ Camera \/ Main \/ Exec \/ Exit

\* Processes are scheduled, and a program that was sent a signal ends; one
\* that was not may run for ever.
Fairness ==
  /\ WF_vars(Script) /\ WF_vars(Main) /\ WF_vars(Exec)
  /\ WF_vars(told /\ Exit)

Spec == Init /\ [][Next]_vars /\ Fairness

--------------------------------------------------------------------------------
(* Properties                                                                *)

\* A child is never left behind: one is alive only while its supervisor reads
\* from it or waits for it, and none is left when another is forked.
NoOrphan == child # "none" => pc \in {"assign", "read", "wait"}

\* A program that runs on under a supervisor that was told to stop has been
\* told too, unless the signal fell between the test of received_signal and the
\* assignment of child_pid, or met a child that still had its parent's handlers.
HandedOn == (received /\ child = "running") => told \/ missed

\* Then the service does stop.
StopsWhenTold == (received /\ ~missed) ~> pc = "off"

\* A program that failed is started again.
FailedIsRestarted ==
  (pc = "reset" /\ status = "failed" /\ ~received) ~> (child = "running" \/ received \/ ended)

\* A start that found the device and the setting leaves a supervisor that nobody
\* has told to stop, unless the program ended with 0 or none could be forked; or
\* the start, a second after the stop, found the old supervisor still waiting for
\* its child. A stop, and a restart that found no device or the camera not set,
\* leave none that has not been told.
UpAsAsked ==
  script = "idle" =>
    /\ wanted = "up" /\ ~refused /\ ~ended => pc # "off" /\ ~received
    /\ wanted = "down" => pc = "off" \/ received
================================================================================
