---------------------------- MODULE AssistantTurn ----------------------------
(***************************************************************************)
(* resolveAssistantTurn (openai.ts): one answer of the requested model     *)
(* becomes a tool call, an answer, a checkpoint or an error.  The answer   *)
(* passes a pipeline of stages; a stage may ask the isolated router        *)
(* (resolveFunctionCall: two text attempts, one native attempt, a          *)
(* deterministic read), review the answer in its own conversation, or      *)
(* rewrite it as a checkpoint.  DIRECT_NATIVE_TOOL_MODE has its own        *)
(* pipeline.                                                               *)
(*                                                                         *)
(* Abstractions: an answer is what the text predicates say of it, one kind *)
(* of text at a time, and the verdict on its completion claim; a proposed  *)
(* call is fresh, a repetition (image: of a view_image whose picture this  *)
(* request carries) or foreign (malformed or not allowed).  A request is   *)
(* what the code asks of it.  The ledger has no pending call:              *)
(* toolLedgerPreflight refused it.                                         *)
(***************************************************************************)
EXTENDS Naturals, Sequences, FiniteSets, FiniteSetsExt

VARIABLES
    ask,   \* the request
    ans,   \* the candidate answer (result)
    at,    \* index of the stage in the pipeline
    pc,    \* pick a stage, due (an exchange is next), sent, over
    what,  \* the exchange: first, route, fix, review, visual, retell
    job,   \* resolveFunctionCall in progress, and what its stage saw before it
    sends, \* invocations submitted to Microsoft
    stop,  \* no, abort (the client is gone), late (the deadline has passed)
    out    \* the resolution

turnVars == <<ask, ans, at, pc, what, job, sends, stop, out>>

-----------------------------------------------------------------------------
(* Requests and answers *)

\* tools: none, other (no function), blind (no caller-local tool), read, write (can write or start a process);
\* task: the user asks for an action now; mutation: of local files; fresh: a caller-local result came with the
\* request; result: any tool result came; done: the ledger holds completed calls; limit: no tool round is left.
Request ==
    {r \in [direct : BOOLEAN, tools : {"none", "other", "blind", "read", "write"},
            choice : {"auto", "none", "required", "named"}, task : BOOLEAN, mutation : BOOLEAN,
            fresh : {"none", "ok", "failed"}, result : BOOLEAN, done : BOOLEAN, limit : BOOLEAN] :
        /\ r.tools = "none" => r.choice = "auto"
        /\ r.mutation => r.task
        /\ r.fresh # "none" => r.tools \in {"read", "write"} /\ r.result
        /\ r.result => r.done}

Routing == ask.tools # "none" /\ ask.choice # "none"
Required == ask.choice \in {"required", "named"}
Local == ask.tools \in {"read", "write"}     \* callerLocalRecoveryRoute
Names == ask.tools \notin {"none", "other"}  \* toolNames is not empty

Text == {"plain", "promise", "unfinished", "checkpoint", "refusal", "notool", "unavailable", "residue",
         "hosted", "shell", "empty"}

Says(t, c) == [call |-> "none", text |-> t, claim |-> c, own |-> TRUE]
Proposes(c) == [call |-> c, text |-> "plain", claim |-> "none", own |-> TRUE]

Prose == {Says(t, "none") : t \in Text}
         \cup {Says(t, c) : t \in {"plain", "promise", "hosted"}, c \in {"supported", "unsupported"}}
Answers == Prose \cup {Proposes(c) : c \in {"fresh", "repeat", "image", "foreign"}}

\* isCallerLocalExecRefusal: a refusal contradicts the request only where local tools are declared.
Refuses(a) == a.text = "refusal" /\ ask.choice = "auto" /\ Local

\* unresolvedAssistantCommitment of a request for local changes.
Promises(a) == ask.mutation /\ a.text = "promise"

\* callerLocalAnswerUsable.
Usable(a) ==
    /\ a.text \notin {"empty", "unavailable", "notool", "residue", "checkpoint"}
    /\ ~Promises(a) /\ ~Refuses(a)

Allowed(a) == a.claim # "unsupported"   \* evaluateCompletionEvidence

\* Mutant: the round limit is forgotten.
GuardUnlimited(c) == IF c \in {"repeat", "image"} THEN "repeat" ELSE "good"

\* guardedFunctionCall: the round limit comes before the repetitions.  The callers also test for local_patch_disabled,
\* a code toolGuardFailure never produces and nothing in the repository raises: that branch is dead.
Guard(c) == IF ask.limit THEN "limit" ELSE IF c \in {"repeat", "image"} THEN "repeat" ELSE "good"

\* Mutant: earlier tool calls are forgotten.
GuardedWhenRouting(a) ==
    IF ~Allowed(a) /\ Routing THEN [a EXCEPT !.text = "plain", !.claim = "none"] ELSE a

\* guardAssistantCompletion: with any tool context an unsupported claim is replaced.
Guarded(a) ==
    IF ~Allowed(a) /\ (ask.tools # "none" \/ ask.done) THEN [a EXCEPT !.text = "plain", !.claim = "none"] ELSE a

-----------------------------------------------------------------------------
(* Outcomes *)

None == [kind |-> "none", call |-> "none", ans |-> Says("empty", "none")]
NoJob == [tries |-> 0, must |-> FALSE, again |-> FALSE, why |-> FALSE, usable |-> FALSE, promised |-> FALSE]

Over(kind, call, a) ==
    /\ pc' = "over" /\ out' = [kind |-> kind, call |-> call, ans |-> a]
    /\ UNCHANGED <<what, job>>
Fails == Over("error", "none", ans)
Calls(c) == Over("call", c, ans)
Tells(a) == Over("answer", "none", a)
Notes == Over("checkpoint", "none", Says("checkpoint", "none"))

Exchange(w, j) == pc' = "due" /\ what' = w /\ job' = j /\ UNCHANGED out
Checkpoints == Exchange("fix", NoJob)   \* repairCallerLocalCheckpoint

-----------------------------------------------------------------------------
(* The pipelines *)

\* Mutant: no stage for an unmet requirement.
DirectStagesLax == <<"rejected", "malformed", "call", "review", "audit", "denied", "direct">>
DirectStages == <<"rejected", "malformed", "call", "unmet", "review", "audit", "denied", "direct">>
RoutedStages == <<"sentinel", "unavailable", "closed", "artifact", "proposal", "residue", "hosted", "terminal",
                  "continuation", "denied", "initial", "shell", "required", "pending", "evidence", "final">>
Stages == IF ask.direct THEN DirectStages ELSE RoutedStages

\* needsToolResultAnswerRepair
Unreadable(a) == a.text \in {"empty", "unavailable", "notool", "residue", "checkpoint", "refusal"}

Proposed == ans.call \in {"fresh", "repeat", "image"}
ImageAgain == ans.call = "image" /\ Guard("image") = "repeat" /\ ask.result

\* The condition of each stage.
Applies(s) ==
    CASE s = "rejected"     -> Routing /\ Proposed /\ Guard(ans.call) # "good"
      [] s = "malformed"    -> (Routing /\ ans.call = "foreign") \/ (~Routing /\ Proposed)
      [] s = "call"         -> Proposed
      [] s = "unmet"        -> Routing /\ Required
      [] s = "review"       -> /\ Routing
                               /\ ans.text = "promise" \/ (ans.text \in {"unfinished", "checkpoint"} /\ ask.task)
      [] s = "audit"        -> Routing /\ ~ask.done /\ ~Refuses(ans) /\ ask.task /\ Local
      [] s = "denied"       -> Routing /\ Refuses(ans) /\ ask.task
      [] s = "direct"       -> TRUE
      [] s = "sentinel"     -> /\ Routing /\ ask.fresh = "none" /\ ~Required
                               /\ ans.text = "notool" /\ ask.task /\ Local
      [] s = "unavailable"  -> Routing /\ ask.fresh = "none" /\ ans.text = "unavailable"
      [] s = "closed"       -> ~Routing /\ (Proposed \/ ans.text = "residue" \/ (ask.result /\ Unreadable(ans)))
      [] s = "artifact"     -> ans.text = "hosted" /\ (~Routing \/ ask.tools # "write")
      [] s = "proposal"     -> Routing /\ Proposed
      [] s = "residue"      -> Routing /\ ans.text = "residue"
      [] s = "hosted"       -> Routing /\ ans.text = "hosted"
      [] s = "terminal"     -> /\ Routing /\ ask.fresh = "ok" /\ ans.claim = "supported"
                               /\ ans.text # "promise" /\ Usable(ans)
      [] s = "continuation" -> Routing /\ ask.choice = "auto" /\ ask.fresh # "none" /\ ask.task
      [] s = "initial"      -> Routing /\ ask.choice = "auto" /\ ~ask.done /\ ask.task /\ Local
      [] s = "shell"        -> Routing /\ ans.text = "shell" /\ ~ask.done /\ ask.tools = "write"
      [] s = "required"     -> Routing /\ Required
      [] s = "pending"      -> Promises(ans)
      [] s = "evidence"     -> ~Allowed(ans) /\ (Routing \/ ask.mutation)
      [] s = "final"        -> TRUE

\* The router found no call (no_tool, blocked, invalid): what stage i does with the answer a, which the native
\* attempt may have replaced; usable and promised were computed before the router was asked.
AfterRouter(i, r, a, usable, promised) ==
    LET s == Stages[i]
        settled == r = "no_tool" /\ usable
    IN \/ /\ s \in {"continuation", "initial"} /\ settled /\ ~promised /\ ~(s = "continuation" /\ ask.fresh = "failed")
          /\ IF Allowed(a) THEN Tells(Guarded(a)) /\ at' = i
             ELSE pc' = "pick" /\ at' = i + 1 /\ UNCHANGED <<what, job, out>>
       \/ /\ ~(s \in {"continuation", "initial"} /\ settled /\ ~promised /\ ~(s = "continuation" /\ ask.fresh = "failed"))
          /\ at' = i
          /\ CASE s = "review" \/ (s = "malformed" /\ r = "invalid") -> Fails
               [] s = "audit" /\ (r = "no_tool" \/ Usable(a)) -> Tells(a)
               [] s = "pending" -> Notes
               [] (s = "continuation" /\ r = "invalid" /\ usable /\ ~promised /\ ask.fresh # "failed"
                   /\ a.text # "promise" /\ Allowed(a)) -> Tells(Guarded(a))
               [] OTHER -> Checkpoints

\* resolveFunctionCall: must is a required choice, again is retryNarrowedNoTool.
Routes(i, must, again) ==
    IF ask.limit THEN AfterRouter(i, "blocked", ans, Usable(ans), Promises(ans))
    ELSE IF ans.call = "fresh" /\ Names THEN Calls("fresh") /\ at' = i
    ELSE IF ~Names THEN AfterRouter(i, "invalid", ans, Usable(ans), Promises(ans))
    ELSE /\ at' = i
         /\ Exchange("route", [tries |-> 0, must |-> must, again |-> again, why |-> ans.call \in {"repeat", "image"},
                               usable |-> Usable(ans), promised |-> Promises(ans)])

\* Stages of resolveDirectNativeTurn, of the direct mode and of its catch.
DirectStep(i) ==
    CASE Stages[i] = "rejected"  -> at' = i /\ (IF ImageAgain THEN Exchange("visual", NoJob) ELSE Fails)
      [] Stages[i] = "malformed" -> Routes(i, Required, FALSE)
      [] Stages[i] = "call"      -> at' = i /\ Calls(ans.call)
      [] Stages[i] = "unmet"     -> at' = i /\ Fails
      [] Stages[i] = "review"    -> at' = i /\ Exchange("review", NoJob)
      [] Stages[i] = "audit"     -> Routes(i, FALSE, FALSE)
      [] Stages[i] = "denied"    -> Routes(i, TRUE, TRUE)
      [] Stages[i] = "direct"    -> at' = i /\ Tells(ans)

\* Stages of the routed mode before the audits.
EarlyStep(i) ==
    CASE Stages[i] = "sentinel"    -> Routes(i, TRUE, FALSE)
      [] Stages[i] = "unavailable" -> Routes(i, ask.choice = "named", FALSE)
      [] Stages[i] = "closed"      -> /\ at' = i
                                      /\ CASE Proposed /\ Guard(ans.call) = "good" -> Calls(ans.call)
                                           [] ~Proposed /\ ask.result /\ Unreadable(ans) -> Exchange("retell", NoJob)
                                           [] OTHER -> Checkpoints
      [] Stages[i] = "artifact"    -> at' = i /\ Notes
      [] Stages[i] = "proposal"    -> CASE Guard(ans.call) = "good"  -> at' = i /\ Calls(ans.call)
                                        [] Guard(ans.call) = "limit" -> at' = i /\ Checkpoints
                                        [] OTHER -> Routes(i, Required, FALSE)
      [] Stages[i] \in {"residue", "hosted"} -> Routes(i, TRUE, FALSE)

\* The audits, and the invariants of a terminal answer.
LateStep(i) ==
    CASE Stages[i] \in {"terminal", "final"} -> at' = i /\ Tells(Guarded(ans))
      [] Stages[i] = "continuation" -> LET failed == ask.fresh = "failed"
                                       IN Routes(i, Promises(ans) \/ failed, ~Usable(ans) \/ failed)
      [] Stages[i] = "initial"      -> Routes(i, Promises(ans), ~Usable(ans))
      [] Stages[i] = "denied"       -> Routes(i, TRUE, TRUE)
      [] Stages[i] \in {"shell", "required"} -> Routes(i, TRUE, FALSE)
      [] Stages[i] = "pending"      -> IF Routing /\ Local THEN Routes(i, TRUE, TRUE) ELSE at' = i /\ Notes
      [] Stages[i] = "evidence"     -> IF Routing THEN Routes(i, TRUE, FALSE) ELSE at' = i /\ Notes

Early == {"sentinel", "unavailable", "closed", "artifact", "proposal", "residue", "hosted"}

\* The first stage from at that applies takes the answer.
PickStage ==
    /\ pc = "pick"
    /\ LET i == Min({j \in at..Len(Stages) : Applies(Stages[j])})
       IN \/ ask.direct /\ DirectStep(i)
          \/ ~ask.direct /\ Stages[i] \in Early /\ EarlyStep(i)
          \/ ~ask.direct /\ Stages[i] \notin Early /\ LateStep(i)
    /\ UNCHANGED <<ask, ans, sends, stop>>

-----------------------------------------------------------------------------
(* Exchanges *)

\* The end of resolveFunctionCall: a guarded deterministic read, if nothing was rejected, or no call.
RouterGivesUp(why) ==
    \/ why /\ AfterRouter(at, "blocked", ans, job.usable, job.promised)
    \/ ~why /\ AfterRouter(at, "invalid", ans, job.usable, job.promised)
    \/ ~why /\ job.must /\ Local /\ Calls("fresh") /\ at' = at

\* gateLifecycle.begin, acquireUpstreamGate: nothing is submitted for a client that is gone or too late; the
\* native attempt is then skipped.
MaySubmit == stop = "no"

Submit ==
    /\ pc = "due"
    /\ \/ /\ MaySubmit
          /\ sends' = sends + 1 /\ pc' = "sent" /\ UNCHANGED <<at, what, job, out>>
       \/ /\ ~MaySubmit /\ UNCHANGED sends
          /\ IF what = "route" /\ job.tries = 2 /\ stop = "late" THEN RouterGivesUp(job.why)
             ELSE Fails /\ at' = at
    /\ UNCHANGED <<ask, ans, stop>>

\* The exchange throws: an interrupted one ends the turn, and so does the first one.
ExchangeFails ==
    /\ pc = "sent"
    /\ stop # "no" \/ what \in {"first", "visual"}
    /\ Fails
    /\ UNCHANGED <<ask, ans, at, sends, stop>>

FirstAnswers ==
    /\ pc = "sent" /\ what = "first"
    /\ ans' \in Answers
    /\ pc' = "pick" /\ at' = 1
    /\ UNCHANGED <<ask, what, job, sends, stop, out>>

\* Mutant: attempts are not counted.
TriedAgain(why) == Exchange("route", [job EXCEPT !.why = why]) /\ at' = at

\* A text attempt of the router; a transport error is garbled.
Tried(why) == Exchange("route", [job EXCEPT !.tries = @ + 1, !.why = why]) /\ at' = at

RouterAnswers ==
    /\ pc = "sent" /\ what = "route" /\ job.tries < 2
    /\ \/ Calls("fresh") /\ at' = at
       \/ Tried(TRUE)                             \* a repetition
       \/ Tried(job.why)                          \* garbled, a foreign call, no tool though one is required
       \/ /\ ~job.must /\ ~(job.tries = 0 /\ job.again)
          /\ AfterRouter(at, "no_tool", ans, job.usable, job.promised)
       \/ /\ ~job.must /\ job.tries = 0 /\ job.again   \* a preferred tool is worth a second pass
          /\ \/ Tried(job.why)
             \/ AfterRouter(at, "no_tool", ans, job.usable, job.promised)
    /\ UNCHANGED <<ask, ans, sends, stop>>

\* adoptToolRouterResult: the native answer replaces the candidate, except the copy the continuation audit hands over.
Adopted(a) == IF Stages[at] = "continuation" THEN ans ELSE [a EXCEPT !.own = FALSE]

NativeAnswers ==
    /\ pc = "sent" /\ what = "route" /\ job.tries = 2
    /\ \/ Calls("fresh") /\ at' = at /\ UNCHANGED ans
       \/ RouterGivesUp(TRUE) /\ UNCHANGED ans
       \/ RouterGivesUp(job.why) /\ UNCHANGED ans
       \/ /\ ~job.must
          /\ \E a \in Prose :
                ans' = Adopted(a) /\ AfterRouter(at, "no_tool", Adopted(a), job.usable, job.promised)
    /\ UNCHANGED <<ask, sends, stop>>

\* The review in the same conversation; a failure or an unusable answer asks the router.
ReviewAnswers ==
    /\ pc = "sent" /\ what = "review"
    /\ \E a \in Answers :
         CASE a.call = "fresh" /\ ~ask.limit -> Calls("fresh") /\ at' = at
           [] a.call = "none" /\ a.text # "promise" /\ Usable(a) /\ Allowed(a) -> Tells(a) /\ at' = at
           [] OTHER -> IF Local THEN Routes(at, TRUE, TRUE) ELSE Fails /\ at' = at
    /\ UNCHANGED <<ask, ans, sends, stop>>

\* The answer about an image that the model wanted to see again.
VisualAnswers ==
    /\ pc = "sent" /\ what = "visual"
    /\ \E a \in Prose :
         IF a.text \notin {"empty", "unavailable", "notool", "residue", "checkpoint"} /\ ~Promises(a) /\ Allowed(a)
         THEN Tells(a) ELSE Checkpoints
    /\ UNCHANGED <<ask, ans, at, sends, stop>>

\* repairToolResultAnswer: the rewritten answer, the value of the result, or a checkpoint.
RetellAnswers ==
    /\ pc = "sent" /\ what = "retell"
    /\ \E a \in Prose, value \in BOOLEAN :
         CASE Usable(a) /\ ~Unreadable(a) /\ Allowed(a) -> Tells(Guarded(a))
           [] value -> Tells(Says("plain", "none"))
           [] OTHER -> Notes
    /\ UNCHANGED <<ask, ans, at, sends, stop>>

FixAnswers ==
    /\ pc = "sent" /\ what = "fix"
    /\ Notes
    /\ UNCHANGED <<ask, ans, at, sends, stop>>

\* The client leaves, or the logical deadline passes.
Interrupt ==
    /\ pc # "over" /\ stop = "no" /\ stop' \in {"abort", "late"}
    /\ UNCHANGED <<ask, ans, at, pc, what, job, sends, out>>

-----------------------------------------------------------------------------

TurnInit ==
    /\ ask \in Request
    /\ ans = Says("empty", "none") /\ at = 1 /\ pc = "due" /\ what = "first" /\ job = NoJob
    /\ sends = 0 /\ stop = "no" /\ out = None

TurnWorks ==
    \/ PickStage \/ Submit \/ ExchangeFails \/ FirstAnswers \/ RouterAnswers \/ NativeAnswers
    \/ ReviewAnswers \/ VisualAnswers \/ RetellAnswers \/ FixAnswers

TurnNext == TurnWorks \/ Interrupt

TurnSpec == TurnInit /\ [][TurnNext]_turnVars

-----------------------------------------------------------------------------
(* Properties *)

TurnTypeOK ==
    /\ ask \in Request /\ at \in 1..Len(Stages) /\ sends \in Nat
    /\ pc \in {"pick", "due", "sent", "over"}
    /\ what \in {"first", "route", "fix", "review", "visual", "retell"}
    /\ job.tries \in 0..2 /\ stop \in {"no", "abort", "late"}
    /\ out.kind \in {"none", "call", "answer", "checkpoint", "error"}

\* Whatever stages an answer passes, one turn submits at most eight invocations, five in direct mode: the request,
\* two runs of the router and a checkpoint (resolveAssistantTurn, resolveFunctionCall, repairCallerLocalCheckpoint).
SubmissionsBounded == sends <= IF ask.direct THEN 5 ELSE 8

\* A call that is returned, from whichever of the five places that produce one, passed the guard: it repeats no
\* completed or failed call and a tool round is left (guardedFunctionCall, resolveFunctionCall,
\* deterministicToolRouterRecovery).
CallsAreGuarded == out.kind = "call" => out.call = "fresh" /\ ~ask.limit

\* In routed mode a final answer never carries a completion claim the ledger does not support, as soon as there is
\* any tool context (guardAssistantCompletion, evaluateCompletionEvidence); and the model's own answer to a request
\* for local changes is not final while it says that the change is under way (the last-line invariant of
\* resolveAssistantTurn; the review of direct mode needs declared tools).
AnswersAreSupported ==
    out.kind = "answer" =>
        /\ ~ask.direct /\ (ask.tools # "none" \/ ask.done) => out.ans.claim # "unsupported"
        /\ ask.mutation /\ out.ans.own /\ (Routing \/ ~ask.direct) => out.ans.text # "promise"

\* A required tool choice ends in plain prose only when fresh evidence supports what it says, or when the model
\* wanted an image again that it already has (resolveDirectNativeTurn, resolveAssistantTurn).
RequiredIsMet ==
    (out.kind = "answer" /\ Routing /\ Required) =>
        \/ ask.fresh = "ok" /\ out.ans.claim = "supported"
        \/ ask.direct /\ what = "visual"

=============================================================================
