---------------------------- MODULE ActiveSpoolProofs ----------------------------
(***************************************************************************)
(* For any channels, spools and number of changes, restarts and failures:  *)
(* what SpoolLink believes to be active agrees with Moonraker, and where   *)
(* nothing is left to handle the active spool is the mounted one.          *)
(***************************************************************************)
EXTENDS ActiveSpool, SequenceTheorems, TLAPS

(* The last event announced carries the spool Moonraker has. *)
LastEventIsSpool == events # <<>> => events[Len(events)] = spool

(* With no sync task left the component has told Moonraker what it wants,  *)
(* and without Klipper it knows no spool ids.                              *)
SyncInv ==
  /\ budget.faults <= MaxFaults
  /\ ~connected => spoolIds = None
  /\ connected => spoolIds # None
  /\ connected /\ syncs = 0 /\ budget.faults = MaxFaults => active = Wanted

IInv == TypeOK /\ LastEventIsSpool /\ BeliefAgrees /\ SyncInv

--------------------------------------------------------------------------------
(* Types                                                                   *)

LEMMA SpendType ==
  ASSUME TypeOK, NEW k \in {"changes", "restarts", "faults"}, Spend(k)
  PROVE  /\ budget' \in [changes : Nat, restarts : Nat, faults : Nat]
         /\ budget'.faults = IF k = "faults" THEN budget.faults - 1 ELSE budget.faults
<1>1. budget[k] - 1 \in Nat
  BY DEF TypeOK, Spend
<1> QED
  BY <1>1 DEF TypeOK, Spend

LEMMA WantedType ==
  ASSUME TypeOK
  PROVE  /\ Wanted \in SpoolOrZero /\ Wanted # None
         /\ AsPayload(Wanted) \in SpoolOrNone
BY ActiveSpoolAssumption DEF TypeOK, Wanted, AsPayload, SpoolOrZero, SpoolOrNone

(* A spool announced is the active one, and is the last event. *)
LEMMA AnnounceOK ==
  ASSUME TypeOK, LastEventIsSpool, NEW s \in SpoolOrNone, Announce(s)
  PROVE  /\ spool' = s
         /\ spool' \in SpoolOrNone
         /\ events' \in Seq(SpoolOrNone)
         /\ LastEventIsSpool'
         /\ events' = <<>> => spool' = spool /\ events' = events
<1>1. CASE s = spool
  BY <1>1 DEF Announce, TypeOK, LastEventIsSpool
<1>2. CASE s # spool
  BY <1>2 DEF Announce, TypeOK, LastEventIsSpool
<1> QED
  BY <1>1, <1>2

LEMMA StatusOK ==
  ASSUME TypeOK, HandleStatusUpdate, UNCHANGED <<toolhead, ptcIds>>
  PROVE  /\ extruder' \in Channels
         /\ spoolIds' \in [Channels -> SpoolOrZero] /\ spoolIds' # None
         /\ syncs' \in Nat /\ syncs' >= syncs
         /\ toolhead # extruder \/ ptcIds # spoolIds => syncs' > 0
BY ActiveSpoolAssumption DEF TypeOK, HandleStatusUpdate, SpoolOrZero

LEMMA InitInv == Init => IInv
<1> SUFFICES ASSUME Init PROVE IInv
  OBVIOUS
<1>1. budget \in [changes : Nat, restarts : Nat, faults : Nat] /\ budget.faults = MaxFaults
  BY ActiveSpoolAssumption DEF Init
<1>2. TypeOK
  <2>1. <<>> \in Seq(SpoolOrNone) /\ None \in SpoolOrNone
    BY DEF SpoolOrNone
  <2> QED
    BY <1>1, <2>1, ActiveSpoolAssumption DEF Init, TypeOK
<1>3. SyncInv
  BY <1>1, ActiveSpoolAssumption DEF Init, SyncInv
<1> QED
  BY <1>2, <1>3 DEF Init, IInv, LastEventIsSpool, BeliefAgrees

--------------------------------------------------------------------------------
(* Steps                                                                   *)

LEMMA StepInv == IInv /\ [Next]_vars => IInv'
<1> SUFFICES ASSUME IInv, [Next]_vars PROVE IInv'
  OBVIOUS
<1> USE DEF IInv
<1>1. CASE ChangeTool \/ ChangeSpoolIds
  <2>1. /\ budget' \in [changes : Nat, restarts : Nat, faults : Nat]
        /\ budget'.faults = budget.faults
    BY <1>1, SpendType DEF ChangeTool, ChangeSpoolIds
  <2>2. toolhead' \in Channels /\ ptcIds' \in [Channels -> SpoolOrZero]
    BY <1>1 DEF ChangeTool, ChangeSpoolIds, TypeOK
  <2>3. UNCHANGED <<connected, extruder, spoolIds, active, syncs, spool, events>>
    BY <1>1 DEF ChangeTool, ChangeSpoolIds, component
  <2> QED
    BY <2>1, <2>2, <2>3 DEF TypeOK, LastEventIsSpool, BeliefAgrees, SyncInv, Wanted
<1>2. CASE UserSetsSpool
  <2>1. /\ budget' \in [changes : Nat, restarts : Nat, faults : Nat]
        /\ budget'.faults = budget.faults
    BY <1>2, SpendType DEF UserSetsSpool
  <2>2. PICK s \in SpoolOrNone : s # spool /\ Announce(s)
    BY <1>2 DEF UserSetsSpool
  <2>3. UNCHANGED <<toolhead, ptcIds, connected, extruder, spoolIds, active, syncs>>
    BY <1>2 DEF UserSetsSpool, component
  <2>4. BeliefAgrees'
    BY <2>2, <2>3, AnnounceOK DEF BeliefAgrees
  <2> QED
    BY <2>1, <2>2, <2>3, <2>4, AnnounceOK DEF TypeOK, SyncInv, Wanted
<1>3. CASE HandleKlippyReady
  <2>1. UNCHANGED <<toolhead, ptcIds, spool, events, budget, active>> /\ connected'
    BY <1>3 DEF HandleKlippyReady, HandleStatusUpdate
  <2>2. spoolIds = None /\ ptcIds # None
    BY <1>3, ActiveSpoolAssumption DEF HandleKlippyReady, SyncInv, TypeOK, SpoolOrZero
  <2>3. /\ extruder' \in Channels
        /\ spoolIds' \in [Channels -> SpoolOrZero] /\ spoolIds' # None
        /\ syncs' \in Nat /\ syncs' > 0
    BY <1>3, <2>2, StatusOK DEF HandleKlippyReady
  <2> QED
    BY <1>3, <2>1, <2>3 DEF HandleKlippyReady, TypeOK, LastEventIsSpool, BeliefAgrees, SyncInv
<1>4. CASE StatusUpdate
  <2>1. UNCHANGED <<toolhead, ptcIds, connected, spool, events, budget, active>>
    BY <1>4 DEF StatusUpdate, HandleStatusUpdate
  <2>2. /\ extruder' \in Channels
        /\ spoolIds' \in [Channels -> SpoolOrZero] /\ spoolIds' # None
        /\ syncs' \in Nat /\ syncs' > 0
    BY <1>4, StatusOK DEF StatusUpdate
  <2> QED
    BY <1>4, <2>1, <2>2 DEF StatusUpdate, TypeOK, LastEventIsSpool, BeliefAgrees, SyncInv
<1>5. CASE HandleKlippyDisconnect
  <2>1. /\ budget' \in [changes : Nat, restarts : Nat, faults : Nat]
        /\ budget'.faults = budget.faults
    BY <1>5, SpendType DEF HandleKlippyDisconnect
  <2> QED
    BY <1>5, <2>1 DEF HandleKlippyDisconnect, TypeOK, LastEventIsSpool, BeliefAgrees,
       SyncInv, SpoolOrNone
<1>6. CASE RestartMoonraker
  <2>1. /\ budget' \in [changes : Nat, restarts : Nat, faults : Nat]
        /\ budget'.faults = budget.faults
    BY <1>6, SpendType DEF RestartMoonraker
  <2>2. TypeOK'
    <3>1. <<>> \in Seq(SpoolOrNone) /\ None \in SpoolOrNone
      BY DEF SpoolOrNone
    <3> QED
      BY <1>6, <2>1, <3>1, ActiveSpoolAssumption DEF RestartMoonraker, TypeOK
  <2>3. SyncInv'
    BY <1>6, <2>1 DEF RestartMoonraker, SyncInv
  <2> QED
    BY <1>6, <2>2, <2>3 DEF RestartMoonraker, LastEventIsSpool, BeliefAgrees
<1>7. CASE HandleActiveSpoolSet
  <2> USE <1>7 DEF HandleActiveSpoolSet
  <2>1. events \in Seq(SpoolOrNone) /\ events # <<>>
    BY DEF TypeOK
  <2>2. Head(events) \in SpoolOrNone /\ events' \in Seq(SpoolOrNone)
    BY <2>1
  <2>3. LastEventIsSpool'
    BY <2>1 DEF LastEventIsSpool
  <2>4. active' = Head(events)
    OBVIOUS
  <2>5. BeliefAgrees'
    <3>1. SUFFICES ASSUME events' = <<>> PROVE AsPayload(active)' = spool
      BY DEF BeliefAgrees
    <3>2. Len(Tail(events)) = Len(events) - 1 /\ Len(events) \in Nat
      BY <2>1, HeadTailProperties
    <3>3. Len(events) = 1 /\ Head(events) = events[1]
      BY <2>1, <3>1, <3>2
    <3>4. Head(events) = spool
      BY <2>1, <3>3 DEF LastEventIsSpool
    <3> QED
      BY <2>4, <3>4, ActiveSpoolAssumption DEF AsPayload, TypeOK, SpoolOrNone
  <2>6. syncs' \in Nat /\ (active' = active \/ syncs' > 0)
    BY DEF TypeOK
  <2>7. TypeOK'
    BY <2>2, <2>4, <2>6 DEF TypeOK
  <2> QED
    BY <2>3, <2>5, <2>6, <2>7 DEF TypeOK, SyncInv, Wanted
<1>8. CASE SyncActiveSpool
  <2> USE <1>8 DEF SyncActiveSpool
  <2>1. active' = Wanted /\ Wanted' = Wanted /\ syncs' \in Nat
    BY DEF TypeOK, Wanted
  <2>2. Wanted \in SpoolOrZero /\ Wanted # None
    BY WantedType
  <2>3. CASE Wanted = active
    BY <2>1, <2>2, <2>3 DEF TypeOK, LastEventIsSpool, BeliefAgrees, SyncInv, AsPayload
  <2>4. CASE Announce(AsPayload(Wanted))
    <3>1. /\ spool' = AsPayload(active)' /\ spool' \in SpoolOrNone
          /\ events' \in Seq(SpoolOrNone) /\ LastEventIsSpool'
      BY <2>1, <2>4, WantedType, AnnounceOK DEF AsPayload
    <3>2. BeliefAgrees'
      BY <3>1 DEF BeliefAgrees
    <3>3. TypeOK'
      BY <2>1, <2>2, <3>1 DEF TypeOK, SpoolOrZero, SpoolOrNone
    <3> QED
      BY <2>1, <3>1, <3>2, <3>3 DEF SyncInv
  <2> QED
    BY <2>3, <2>4
<1>9. CASE SyncActiveSpoolFails
  <2>1. /\ budget' \in [changes : Nat, restarts : Nat, faults : Nat]
        /\ budget'.faults = budget.faults - 1
    BY <1>9, SpendType DEF SyncActiveSpoolFails
  <2>2. budget'.faults < MaxFaults
    BY <2>1, ActiveSpoolAssumption DEF SyncInv, TypeOK
  <2>3. TypeOK'
    BY <1>9, <2>1 DEF SyncActiveSpoolFails, TypeOK, SpoolOrNone
  <2> QED
    BY <1>9, <2>2, <2>3, ActiveSpoolAssumption DEF SyncActiveSpoolFails, LastEventIsSpool,
       BeliefAgrees, SyncInv, TypeOK
<1>10. CASE UNCHANGED vars
  BY <1>10 DEF vars, component, TypeOK, LastEventIsSpool, BeliefAgrees, SyncInv, Wanted
<1> QED
  BY <1>1, <1>2, <1>3, <1>4, <1>5, <1>6, <1>7, <1>8, <1>9, <1>10 DEF Next

--------------------------------------------------------------------------------
(* Results                                                                 *)

LEMMA Inductive == Spec => []IInv
BY InitInv, StepInv, PTL DEF Spec

(* The variables keep their types through every order of callbacks, syncs  *)
(* and restarts.                                                           *)
THEOREM TypeCorrect == Spec => []TypeOK
<1>1. IInv => TypeOK
  BY DEF IInv
<1> QED
  BY Inductive, <1>1, PTL

(* A sync that is skipped because the component believes the spool to be   *)
(* active already is rightly skipped, in any order of events.              *)
THEOREM BeliefIsRight == Spec => []BeliefAgrees
<1>1. IInv => BeliefAgrees
  BY DEF IInv
<1> QED
  BY Inductive, <1>1, PTL

(* Where nothing is left to handle and no call has failed, the active      *)
(* spool is the one on the mounted toolhead.                               *)
THEOREM QuietIsInSync == Spec => []SettledInSync
<1>1. IInv => SettledInSync
  <2> SUFFICES ASSUME IInv, Quiet, budget.faults = MaxFaults
               PROVE  spool = AsPayload(ptcIds[toolhead])
    BY DEF SettledInSync
  <2>1. active = Wanted /\ active # None
    BY WantedType DEF IInv, SyncInv, Quiet
  <2>2. Wanted = ptcIds[toolhead]
    BY DEF IInv, SyncInv, Quiet, Wanted
  <2> QED
    BY <2>1, <2>2 DEF IInv, BeliefAgrees, Quiet
<1> QED
  BY Inductive, <1>1, PTL
================================================================================
