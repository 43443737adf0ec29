---------------------------- MODULE FakeServiceProofs ----------------------------
(***************************************************************************)
(* What holds of fake-service for any number of calls of the init script:  *)
(* no child is left behind, a signal is handed on unless it falls into one *)
(* of the gaps that "missed" names, and a started service is up.           *)
(***************************************************************************)
EXTENDS FakeService, TLAPS

\* A child that has yet to run was forked before any signal, or missed it.
SignalInv ==
  /\ (received /\ (pc = "fork" \/ child = "forked")) => missed
  /\ HandedOn

\* A supervisor that left on its own account is gone; what a command is to leave
\* is settled when it is over, but for a restart that has made its stop.
StartInv ==
  /\ ended => pc = "off"
  /\ script # "idle" => wanted # "up"
  /\ wanted = "down" => pc = "off" \/ received
  /\ UpAsAsked

IInv == TypeOK /\ NoOrphan /\ SignalInv /\ StartInv

LEMMA InitOK == ASSUME Init PROVE IInv
<1>1. /\ received \in BOOLEAN /\ childPid \in BOOLEAN /\ told \in BOOLEAN /\ wanted = "any"
      /\ refused \in BOOLEAN /\ missed \in BOOLEAN /\ ended \in BOOLEAN
      /\ device \in BOOLEAN /\ setting \in BOOLEAN /\ enabled \in BOOLEAN
      /\ ~received /\ ~childPid /\ ~ended
  BY DEF Init
<1>2. TypeOK BY <1>1, FakeServiceAssumption DEF Init, TypeOK, Labels, Commands
<1>3. NoOrphan /\ SignalInv /\ StartInv
  BY <1>1 DEF Init, NoOrphan, SignalInv, HandedOn, StartInv, UpAsAsked
<1> QED BY <1>2, <1>3 DEF IInv

\* The init script starts and stops the supervisor, unless the camera keeps it from it.
LEMMA ScriptOK == ASSUME IInv, (\E c \in Commands : Call(c)) \/ Script \/ Camera PROVE IInv'
<1> USE FakeServiceAssumption DEF IInv, TypeOK, Labels, Commands
<1> USE DEF NoOrphan, SignalInv, HandedOn, StartInv, UpAsAsked
<1>1. ASSUME NEW c \in Commands, Call(c) PROVE IInv'
  <2>1. wanted' = "any" /\ enabled' \in BOOLEAN BY <1>1 DEF Call
  <2> QED BY <1>1, <2>1 DEF Call, supervisor, program, camera
<1>2. CASE Start
  <2>1. wanted' = "up" /\ script' = "idle" /\ UNCHANGED <<child, told, camera, enabled, calls>>
    BY <1>2 DEF Start
  <2>2. CASE pc = "off"
    <3>1. /\ pc' = "boot" /\ status' = "none"
          /\ received' \in BOOLEAN /\ childPid' \in BOOLEAN /\ refused' \in BOOLEAN
          /\ missed' \in BOOLEAN /\ ended' \in BOOLEAN
          /\ ~received' /\ ~childPid' /\ ~ended'
      BY <1>2, <2>2 DEF Start
    <3> QED BY <2>1, <2>2, <3>1 DEF camera
  <2>3. CASE pc # "off"
    <3>1. UNCHANGED <<pc, received, childPid, status, missed, ended>> /\ (refused' <=> received)
      BY <1>2, <2>3 DEF Start, supervisor
    <3>2. refused' \in BOOLEAN
      BY <1>2, <2>3 DEF Start
    <3> QED BY <2>1, <2>3, <3>1, <3>2 DEF camera
  <2> QED BY <2>2, <2>3
<1>3. CASE StartNot \/ Pause
  BY <1>3 DEF StartNot, Pause, supervisor, program, camera
<1>4. CASE Stop
  <2>1. /\ wanted # "up" /\ wanted' = "down" /\ script' \in {"idle", "pause"}
        /\ UNCHANGED <<child, status, camera, enabled, calls, refused, ended>>
    BY <1>4 DEF Stop
  <2>2. CASE pc = "off" /\ UNCHANGED <<supervisor, told, missed>>
    BY <2>1, <2>2 DEF supervisor, camera
  <2>3. CASE pc = "boot" /\ pc' = "off" /\ UNCHANGED <<received, childPid, told, missed>>
    BY <2>1, <2>3 DEF camera
  <2>4. CASE pc \notin {"off", "boot"} /\ Signal
    <3>1. /\ received' /\ UNCHANGED childPid
          /\ told' = (told \/ (childPid /\ child = "running"))
          /\ missed' = (pc \in {"fork", "assign"} \/ (childPid /\ child = "forked"))
          /\ pc' = pc \/ (pc = "read" /\ pc' = "wait") \/ (pc = "sleep" /\ pc' = "test")
      BY <2>4 DEF Signal, SignalHandler
    <3>2. TypeOK'
      <4>1. received' \in BOOLEAN BY <2>4 DEF Signal, SignalHandler
      <4>2. told' \in BOOLEAN /\ missed' \in BOOLEAN BY <3>1
      <4> QED BY <2>1, <2>4, <3>1, <4>1, <4>2 DEF camera
    <3>3. NoOrphan' /\ StartInv' BY <2>1, <2>4, <3>1
    <3>4. SignalInv' BY <2>1, <3>1
    <3> QED BY <3>2, <3>3, <3>4
  <2> QED BY <1>4, <2>2, <2>3, <2>4 DEF Stop, Signal
<1>5. CASE Camera
  <2>1. /\ device' \in BOOLEAN /\ setting' \in BOOLEAN
        /\ UNCHANGED <<supervisor, program, script, enabled, calls, wanted, refused, missed, ended>>
    BY <1>5 DEF Camera
  <2> QED BY <2>1 DEF supervisor, program
<1> QED BY <1>1, <1>2, <1>3, <1>4, <1>5 DEF Script

\* The supervisor's own steps.
LEMMA MainOK == ASSUME IInv, Main PROVE IInv'
<1> USE DEF IInv, TypeOK, Labels, Commands, NoOrphan, SignalInv, HandedOn, StartInv, UpAsAsked,
            Others, program, camera, At
<1>1. CASE InstallHandlers \/ ReadToEnd \/ Wake
  BY <1>1 DEF InstallHandlers, ReadToEnd, Wake
<1>2. CASE Assign
  <2>1. childPid' \in BOOLEAN /\ childPid' BY <1>2 DEF Assign
  <2> QED BY <1>2, <2>1 DEF Assign
<1>3. CASE Reset
  <2>1. childPid' \in BOOLEAN /\ ~childPid' BY <1>3 DEF Reset
  <2> QED BY <1>3, <2>1 DEF Reset
<1>4. CASE Test BY <1>4 DEF Test
<1>5. CASE Fork BY <1>5 DEF Fork
<1>6. CASE ForkFails
  <2>1. ended' \in BOOLEAN /\ ended' BY <1>6 DEF ForkFails
  <2> QED BY <1>6, <2>1 DEF ForkFails
<1>7. CASE Wait
  <2>1. told' \in BOOLEAN BY <1>7 DEF Wait
  <2> QED BY <1>7, <2>1 DEF Wait
<1>8. CASE Judge
  <2>1. ended' \in BOOLEAN /\ (ended' <=> status = "zero") BY <1>8 DEF Judge
  <2> QED BY <1>8, <2>1 DEF Judge, Leaves
<1> QED BY <1>1, <1>2, <1>3, <1>4, <1>5, <1>6, <1>7, <1>8 DEF Main

LEMMA ChildOK == ASSUME IInv, Exec \/ Exit PROVE IInv'
  BY DEF IInv, TypeOK, NoOrphan, SignalInv, HandedOn, StartInv, UpAsAsked, Exec, Exit,
     supervisor, Others, camera, Labels, Commands

\* IInv is inductive.
LEMMA Inductive == Spec => []IInv
<1>1. IInv /\ [Next]_vars => IInv'
  <2> SUFFICES ASSUME IInv, [Next]_vars PROVE IInv'
    OBVIOUS
  <2>1. CASE UNCHANGED vars
    BY <2>1 DEF vars, supervisor, program, camera, IInv, TypeOK, NoOrphan, SignalInv, HandedOn, StartInv,
       UpAsAsked
  <2> QED BY <2>1, ScriptOK, MainOK, ChildOK DEF Next
<1> QED BY <1>1, InitOK, PTL DEF Spec

\* Every reachable state is well typed; child_pid is set exactly while the
\* supervisor reads from its child, waits for it or has just reaped it.
THEOREM TypeCorrect == Spec => []TypeOK
  BY Inductive, PTL DEF IInv

\* No child outlives its supervisor or is forgotten for another.
THEOREM NoChildLeft == Spec => []NoOrphan
  BY Inductive, PTL DEF IInv

\* The gaps that "missed" names are the only ones in which a signal gets lost.
THEOREM SignalsHandedOn == Spec => []HandedOn
  BY Inductive, PTL DEF IInv, SignalInv

\* A start that finds the device and the setting is good for a supervisor that
\* nobody told to stop, except in the cases that "refused" and "ended" name; a stop,
\* and a restart that finds one of them missing, for none that has not been told.
THEOREM StartsServe == Spec => []UpAsAsked
  BY Inductive, PTL DEF IInv, StartInv
================================================================================
