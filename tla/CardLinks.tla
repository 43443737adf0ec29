------------------------------- MODULE CardLinks -------------------------------
(***************************************************************************)
(* What SpoolLink promises about the links between RFID cards and          *)
(* Spoolman spools: a link is made or removed only on behalf of a call     *)
(* that names its card, one link at a time, and a call that assigns a      *)
(* spool removes the card from every spool but that one.                   *)
(*                                                                         *)
(* SpoolLink.tla implements it with REST requests, cached answers and      *)
(* retries.                                                                *)
(***************************************************************************)
EXTENDS FiniteSets

CONSTANTS
  Cards,    \* RFID cards, by UID
  Spools,   \* spool ids
  Tasks,    \* concurrent calls
  None

VARIABLES
  linked,   \* set of <<card, spool>>
  calls     \* the call each task works for, or None

vars == <<linked, calls>>

(* A call names its card and the spool to assign, None to only unlink. *)
Call == [card : Cards, spool : Spools \cup {None}]

Init ==
  /\ linked \in SUBSET (Cards \X Spools)
  /\ calls = [t \in Tasks |-> None]

Begin(t) ==
  /\ calls[t] = None
  /\ \E c \in Call : calls' = [calls EXCEPT ![t] = c]
  /\ UNCHANGED linked

Link(t) ==
  /\ calls[t] # None
  /\ calls[t].spool # None
  /\ linked' = linked \cup {<<calls[t].card, calls[t].spool>>}
  /\ UNCHANGED calls

Unlink(t) ==
  /\ calls[t] # None
  /\ \E s \in Spools \ {calls[t].spool} :
       linked' = linked \ {<<calls[t].card, s>>}
  /\ UNCHANGED calls

End(t) ==
  /\ calls[t] # None
  /\ calls' = [calls EXCEPT ![t] = None]
  /\ UNCHANGED linked

Next == \E t \in Tasks : Begin(t) \/ Link(t) \/ Unlink(t) \/ End(t)

Spec == Init /\ [][Next]_vars
================================================================================
