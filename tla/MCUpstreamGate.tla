--------------------------- MODULE MCUpstreamGate ---------------------------
(* Instances of UpstreamGate for TLC. *)
EXTENDS UpstreamGate, TLC

CONSTANTS a1, a2, c1, c2, c3

Symmetry == Permutations(Caller)
=============================================================================
