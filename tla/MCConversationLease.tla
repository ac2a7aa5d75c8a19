------------------------ MODULE MCConversationLease -------------------------
(* ConversationLease for TLC. *)
EXTENDS ConversationLease, TLC

CONSTANTS t1, t2, t3, a1, a2

TwoTurns == {t1, t2}
ThreeTurns == {t1, t2, t3}
TwoAccounts == {a1, a2}

\* Sound where every turn is in the same of Mortal, Impatient, Reviewed and Lossy.
Interchangeable == Permutations(ThreeTurns) \cup Permutations(TwoAccounts)
=============================================================================
