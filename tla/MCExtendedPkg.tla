----------------------------- MODULE MCExtendedPkg -----------------------------
(* A small instance of ExtendedPkg for TLC, with the three kinds of package. *)
EXTENDS ExtendedPkg, TLC

CONSTANTS p1, p2, v1, v2

Symmetry == Permutations(Callers) \cup Permutations(Versions)

MCParts == {"bin", "lib"}
Tailscale == [binaries |-> {"bin"}, legacy |-> TRUE, hook |-> FALSE]
HelixScreen == [binaries |-> {"bin"}, legacy |-> FALSE, hook |-> FALSE]
OctoEverywhere == [binaries |-> {}, legacy |-> FALSE, hook |-> TRUE]
MCDefinitions == {Tailscale, HelixScreen, OctoEverywhere}
================================================================================
