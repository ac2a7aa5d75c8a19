------------------------- MODULE MCCredentialMirror -------------------------
(* Instances of CredentialMirror for TLC. *)
EXTENDS CredentialMirror, TLC

CONSTANTS a1, a2

OneAccount == {a1}
TwoAccounts == {a1, a2}
BothInOneBatch == {{a1, a2}}
NoBatch == {}
NoAccount == {}
=============================================================================
