------------------------------ MODULE MCServices ------------------------------
(***************************************************************************)
(* The parts that serve one response and share no state with each other:  *)
(* the delivery of its last event, its alias, the runner of its           *)
(* invocation, the socket of that invocation, and the cold archive of its *)
(* conversation.  A behaviour is a behaviour of one of them, the others   *)
(* stay as they were; so every property is checked of every part's own    *)
(* behaviours, and of no interleaving that the code does not have.        *)
(***************************************************************************)
EXTENDS TerminalDelivery, ResponseAlias, ChatRunner, ChatHub, R2Archive

CONSTANTS aOld, aBranch, aNew

VARIABLE part

\* An alias that is there from the start and may be leased, a branch of it
\* (the group is then full) and a response of another conversation (the
\* registry is then full).
MCAliases == {aOld, aBranch, aNew}
MCGroup == [a \in MCAliases |-> IF a = aNew THEN 2 ELSE 1]
MCParent == [a \in MCAliases |-> IF a = aBranch THEN aOld ELSE None]

vars == <<part, deliveryVars, aliasVars, runnerVars, hubVars, archiveVars>>

Init ==
    /\ part \in {"delivery", "alias", "runner", "hub", "archive"}
    /\ DeliveryInit /\ AliasInit /\ RunnerInit /\ HubInit /\ ArchiveInit
    /\ part # "archive" => bound /\ branch

DeliveryStep(A) ==
    part = "delivery" /\ A /\ UNCHANGED <<part, aliasVars, runnerVars, hubVars, archiveVars>>
AliasStep(A) ==
    part = "alias" /\ A /\ UNCHANGED <<part, deliveryVars, runnerVars, hubVars, archiveVars>>
RunnerStep(A) ==
    part = "runner" /\ A /\ UNCHANGED <<part, deliveryVars, aliasVars, hubVars, archiveVars>>
HubStep(A) ==
    part = "hub" /\ A /\ UNCHANGED <<part, deliveryVars, aliasVars, runnerVars, archiveVars>>
ArchiveStep(A) ==
    part = "archive" /\ A /\ UNCHANGED <<part, deliveryVars, aliasVars, runnerVars, hubVars>>

Next ==
    \/ DeliveryStep(DeliveryNext) \/ AliasStep(AliasNext) \/ RunnerStep(RunnerNext)
    \/ HubStep(HubNext) \/ ArchiveStep(ArchiveNext)

\* The fairness of each part, as its module states it.
Fairness ==
    /\ WF_vars(DeliveryStep(DeliveryWorks)) /\ WF_vars(DeliveryStep(ClientReads))
    /\ WF_vars(AliasStep(ObjectStep)) /\ WF_vars(AliasStep(RegistryStep)) /\ SF_vars(AliasStep(Serve))
    /\ WF_vars(HubStep(HubWorks)) /\ WF_vars(HubStep(HubTick))
    /\ WF_vars(ArchiveStep(ArchiveWorks /\ Observe)) /\ WF_vars(ArchiveStep(Tick /\ Observe))

Spec == Init /\ [][Next]_vars /\ Fairness
=============================================================================
