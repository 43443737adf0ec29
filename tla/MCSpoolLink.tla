------------------------------ MODULE MCSpoolLink ------------------------------
(* Small instances of SpoolLink for TLC. *)
EXTENDS SpoolLink, TLC

CONSTANTS t1, t2, c1, c2

(* Coroutines are interchangeable, and so are cards: the one CHOOSE over   *)
(* snapshots that hold cards picks the least spool id first.               *)
Symmetry == Permutations(Tasks) \cup Permutations(Cards)

(* Users only assign spools, to cards that no spool holds at the start.    *)
Assigning ==
  /\ Init /\ \A s \in Spools : links[s] = {}
  /\ [][Next /\ \A ch \in Channels : ~ClearSpoolId(ch)]_vars
  /\ Fairness
================================================================================
