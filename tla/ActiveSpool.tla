------------------------------ MODULE ActiveSpool ------------------------------
(***************************************************************************)
(* How SpoolLink keeps Moonraker's active spool equal to the spool of the  *)
(* mounted toolhead. It follows two Klipper objects (the active extruder   *)
(* and the spool ids of print_task_config) and the spool_set events of     *)
(* Moonraker's spoolman component, and answers each change by a sync task  *)
(* that runs later and reads the state of that moment.                     *)
(***************************************************************************)
EXTENDS Naturals, Sequences

CONSTANTS
  Channels,   \* extruder channels
  First,      \* the channel of "extruder", assumed mounted at start
  Spools,     \* spool ids
  None,       \* Python's None
  MaxChanges, \* toolhead, spool id and user changes
  MaxRestarts, MaxFaults   \* bounds on the environment

ASSUME ActiveSpoolAssumption ==
  /\ First \in Channels
  /\ None \notin Spools /\ 0 \notin Spools /\ None # 0
  /\ None \notin [Channels -> Spools \cup {0}]
  /\ {MaxChanges, MaxRestarts, MaxFaults} \subseteq Nat

VARIABLES
  toolhead,   \* Klipper: the mounted channel
  ptcIds,     \* Klipper: print_task_config.filament_spool_id
  connected,  \* Moonraker has subscribed to Klipper and handles its updates
  extruder,   \* _toolhead_extruder, as a channel
  spoolIds,   \* _ptc_spool_ids, None when empty
  active,     \* _active_spool_id
  syncs,      \* sync tasks fired and not yet run
  spool,      \* Moonraker spoolman: the active spool, kept over restarts
  events,     \* spoolman:active_spool_set events not yet handled
  budget      \* environment events left

vars == <<toolhead, ptcIds, connected, extruder, spoolIds, active, syncs, spool,
          events, budget>>
component == <<extruder, spoolIds, active, syncs>>

SpoolOrNone == Spools \cup {None}
SpoolOrZero == Spools \cup {0}

TypeOK ==
  /\ toolhead \in Channels
  /\ ptcIds \in [Channels -> SpoolOrZero]
  /\ connected \in BOOLEAN
  /\ extruder \in Channels
  /\ spoolIds \in [Channels -> SpoolOrZero] \cup {None}
  /\ active \in SpoolOrNone \cup {0}
  /\ syncs \in Nat
  /\ spool \in SpoolOrNone
  /\ events \in Seq(SpoolOrNone)
  /\ budget \in [changes : Nat, restarts : Nat, faults : Nat]

Init ==
  /\ toolhead \in Channels
  /\ ptcIds \in [Channels -> SpoolOrZero]
  /\ connected = FALSE
  /\ extruder = First
  /\ spoolIds = None
  /\ active = None
  /\ syncs = 0
  /\ spool \in SpoolOrNone
  /\ events = <<>>
  /\ budget = [changes |-> MaxChanges, restarts |-> MaxRestarts, faults |-> MaxFaults]

--------------------------------------------------------------------------------
(* Klipper, the user and the network                                       *)

Spend(kind) == budget[kind] > 0 /\ budget' = [budget EXCEPT ![kind] = @ - 1]

ChangeTool ==
  /\ Spend("changes")
  /\ toolhead' \in Channels \ {toolhead}
  /\ UNCHANGED <<ptcIds, connected, component, spool, events>>

ChangeSpoolIds ==
  /\ Spend("changes")
  /\ \E ch \in Channels, s \in SpoolOrZero :
       s # ptcIds[ch] /\ ptcIds' = [ptcIds EXCEPT ![ch] = s]
  /\ UNCHANGED <<toolhead, connected, component, spool, events>>

(* The spoolman component ignores the spool it already has, and announces  *)
(* any other.                                                              *)
Announce(s) ==
  IF s = spool THEN UNCHANGED <<spool, events>>
  ELSE spool' = s /\ events' = Append(events, s)

(* Somebody picks the active spool in a client of Moonraker. *)
UserSetsSpool ==
  /\ Spend("changes")
  /\ \E s \in SpoolOrNone : s # spool /\ Announce(s)
  /\ UNCHANGED <<toolhead, ptcIds, connected, component>>

--------------------------------------------------------------------------------
(* Klippy lifecycle                                                        *)

(* Mutant of HandleStatusUpdate: new spool ids fire no sync. *)
HandleStatusUpdate_ToolOnly ==
  /\ extruder' = toolhead
  /\ spoolIds' = ptcIds
  /\ syncs' = syncs + (IF toolhead # extruder THEN 1 ELSE 0)
  /\ UNCHANGED active

(* A status that carries both objects, as it is now in Klipper: each field *)
(* that differs from the one remembered fires a sync.                      *)
HandleStatusUpdate ==
  /\ extruder' = toolhead
  /\ spoolIds' = ptcIds
  /\ syncs' = syncs + (IF toolhead # extruder THEN 1 ELSE 0)
                    + (IF ptcIds # spoolIds THEN 1 ELSE 0)
  /\ UNCHANGED active

HandleKlippyReady ==
  /\ ~connected
  /\ connected' = TRUE
  /\ HandleStatusUpdate
  /\ UNCHANGED <<toolhead, ptcIds, spool, events, budget>>

(* Klipper sends what changed since its last update. *)
StatusUpdate ==
  /\ connected
  /\ toolhead # extruder \/ ptcIds # spoolIds
  /\ HandleStatusUpdate
  /\ UNCHANGED <<toolhead, ptcIds, connected, spool, events, budget>>

HandleKlippyDisconnect ==
  /\ connected
  /\ Spend("restarts")
  /\ connected' = FALSE
  /\ spoolIds' = None
  /\ active' = None
  /\ UNCHANGED <<toolhead, ptcIds, extruder, syncs, spool, events>>

(* Moonraker restarts: the component, its tasks and the events are gone.   *)
RestartMoonraker ==
  /\ Spend("restarts")
  /\ connected' = FALSE
  /\ extruder' = First
  /\ spoolIds' = None
  /\ active' = None
  /\ syncs' = 0
  /\ events' = <<>>
  /\ UNCHANGED <<toolhead, ptcIds, spool>>

--------------------------------------------------------------------------------
(* Callbacks and tasks                                                     *)

(* Mutant of HandleActiveSpoolSet: the payload is not remembered. *)
HandleActiveSpoolSet_Forgets ==
  /\ events # <<>>
  /\ events' = Tail(events)
  /\ syncs' = syncs + (IF Head(events) # active THEN 1 ELSE 0)
  /\ UNCHANGED <<toolhead, ptcIds, connected, extruder, spoolIds, active, spool, budget>>

(* Mutant of HandleActiveSpoolSet: the payload is remembered, no sync.     *)
HandleActiveSpoolSet_NoSync ==
  /\ events # <<>>
  /\ events' = Tail(events)
  /\ active' = Head(events)
  /\ UNCHANGED <<toolhead, ptcIds, connected, extruder, spoolIds, syncs, spool, budget>>

HandleActiveSpoolSet ==
  /\ events # <<>>
  /\ events' = Tail(events)
  /\ IF Head(events) # active
     THEN active' = Head(events) /\ syncs' = syncs + 1
     ELSE UNCHANGED <<active, syncs>>
  /\ UNCHANGED <<toolhead, ptcIds, connected, extruder, spoolIds, spool, budget>>

(* The spool of the mounted channel, 0 for none. *)
Wanted == IF spoolIds = None THEN 0 ELSE spoolIds[extruder]

(* Mutant of AsPayload: 0 is passed on as a spool id. *)
AsPayload_Zero(s) == s

AsPayload(s) == IF s = 0 THEN None ELSE s

SyncActiveSpool ==
  /\ syncs > 0
  /\ syncs' = syncs - 1
  /\ IF Wanted = active
     THEN UNCHANGED <<active, spool, events>>
     ELSE active' = Wanted /\ Announce(AsPayload(Wanted))
  /\ UNCHANGED <<toolhead, ptcIds, connected, extruder, spoolIds, budget>>

(* set_active_spool raises: the task ends, nothing tries again.            *)
SyncActiveSpoolFails ==
  /\ syncs > 0
  /\ Wanted # active
  /\ Spend("faults")
  /\ syncs' = syncs - 1
  /\ active' = None
  /\ UNCHANGED <<toolhead, ptcIds, connected, extruder, spoolIds, spool, events>>

Next ==
  \/ ChangeTool \/ ChangeSpoolIds \/ UserSetsSpool
  \/ HandleKlippyReady \/ StatusUpdate \/ HandleKlippyDisconnect \/ RestartMoonraker
  \/ HandleActiveSpoolSet \/ SyncActiveSpool \/ SyncActiveSpoolFails

(* The event loop runs what is scheduled, Klipper comes back and sends its *)
(* updates.                                                                *)
Fairness ==
  /\ WF_vars(HandleKlippyReady)
  /\ WF_vars(StatusUpdate)
  /\ WF_vars(HandleActiveSpoolSet)
  /\ WF_vars(SyncActiveSpool)

Spec == Init /\ [][Next]_vars /\ Fairness

--------------------------------------------------------------------------------
(* Properties                                                              *)

(* With no event on its way, what the component believes to be active is   *)
(* what Moonraker has, or unknown: a sync that is skipped because nothing  *)
(* changed is rightly skipped.                                             *)
BeliefAgrees == events = <<>> /\ active # None => AsPayload(active) = spool

(* With nothing left to handle and no failed call, Moonraker's active      *)
(* spool is the one on the mounted toolhead: neither a user's choice nor a *)
(* reconnect in the middle of a sync leaves another.                       *)
Quiet == connected /\ syncs = 0 /\ events = <<>> /\ extruder = toolhead /\ spoolIds = ptcIds

SettledInSync ==
  Quiet /\ budget.faults = MaxFaults => spool = AsPayload(ptcIds[toolhead])

(* Once changes stop, the active spool is the one on the mounted toolhead  *)
(* for good: events and the syncs they fire do not chase each other.       *)
Converges ==
  <>[](budget.faults = MaxFaults => connected /\ spool = AsPayload(ptcIds[toolhead]))
================================================================================
