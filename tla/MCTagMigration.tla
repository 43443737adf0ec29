---------------------------- MODULE MCTagMigration ----------------------------
(* Small instances of TagMigration for TLC. *)
EXTENDS TagMigration, TLC

CONSTANTS s1, s2, s3, c1, c2

(* No definition tells one spool or one card from another. *)
Symmetry == Permutations(Spools) \cup Permutations(Cards)
================================================================================
