----------------------------- MODULE MCActiveSpool -----------------------------
(* Small instances of ActiveSpool for TLC. *)
EXTENDS ActiveSpool
================================================================================
