--------------------------- MODULE MCAccountRoute ---------------------------
(* Instances of AccountRoute for TLC. *)
EXTENDS AccountRoute, TLC

CONSTANTS a1, a2, a3, r1, r2, bg

\* Both accounts at once; and one account or two that push the others back.
WholePool == {<<a1, a2>>}
OneOrTwo == {<<a3>>, <<a2, a3>>}

Symmetry == Permutations(Request)
=============================================================================
