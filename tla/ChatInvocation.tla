--------------------------- MODULE ChatInvocation ---------------------------
(***************************************************************************)
(* What a runner of ChatHub invocations promises its callers.  An          *)
(* invocation is submitted to Microsoft at most once.  A caller may be     *)
(* told the answer, that the invocation failed and may have been           *)
(* submitted, or that it failed and was not submitted; the last word is    *)
(* final: the exchange that hears it may send the prompt to another        *)
(* account.  The promise lasts as long as the runner's memory of the run:  *)
(* over holds the runs whose time is over.                                 *)
(***************************************************************************)
EXTENDS Naturals

CONSTANTS Run

VARIABLES
    sent,  \* run -> times the invocation was sent, so that Microsoft may have it
    told,  \* run -> what its callers have been told: a set of answer, maybe, unsent
    over   \* the runs the promise no longer covers

invocationVars == <<sent, told, over>>

InvocationInit == sent = [r \in Run |-> 0] /\ told = [r \in Run |-> {}] /\ over = {}

Submit(r) ==
    /\ r \in over \/ (sent[r] = 0 /\ told[r] = {})
    /\ sent' = [sent EXCEPT ![r] = @ + 1] /\ UNCHANGED told

\* Several callers of one run hear the same, and some may hear nothing.
Tell(r, what) ==
    /\ r \in over \/ (told[r] \subseteq {what} /\ ((what = "unsent") <=> (sent[r] = 0)))
    /\ told' = [told EXCEPT ![r] = @ \cup {what}] /\ UNCHANGED sent

\* A run may be forgotten in any step; it is not taken back into the promise.
InvocationNext ==
    /\ \/ \E r \in Run : Submit(r) \/ \E what \in {"answer", "maybe", "unsent"} : Tell(r, what)
       \/ UNCHANGED <<sent, told>>
    /\ over \subseteq over'

InvocationSpec == InvocationInit /\ [][InvocationNext]_invocationVars
=============================================================================
