------------------------------- MODULE MCTools -------------------------------
(***************************************************************************)
(* How tool calls are handled: one turn that looks for a call worth        *)
(* returning, and the ledger that follows a conversation from turn to      *)
(* turn.  AssistantTurn takes the verdict of the guard as an input,        *)
(* ToolLedger gives it; a behaviour is a behaviour of one of the two.      *)
(***************************************************************************)
EXTENDS AssistantTurn, ToolLedger

VARIABLE part

vars == <<part, turnVars, ledgerVars>>

\* The failures of a tool differ in nothing but their text.
Interchangeable == Permutations(Failure)

Init ==
    \/ part = "turn" /\ TurnInit /\ LedgerInit /\ client = "chain"
    \/ /\ part = "ledger" /\ LedgerInit
       /\ ask = CHOOSE r \in Request : TRUE
       /\ ans = Says("empty", "none") /\ at = 1 /\ pc = "due" /\ what = "first" /\ job = NoJob
       /\ sends = 0 /\ stop = "no" /\ out = None

Next ==
    \/ part = "turn" /\ TurnNext /\ UNCHANGED <<part, ledgerVars>>
    \/ part = "ledger" /\ LedgerNext /\ UNCHANGED <<part, turnVars>>

Spec == Init /\ [][Next]_vars
=============================================================================
