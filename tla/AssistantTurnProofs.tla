-------------------------- MODULE AssistantTurnProofs --------------------------
(***************************************************************************)
(* AssistantTurn for every request and every answer: what a turn may       *)
(* return, and how often it may ask Microsoft.                             *)
(*                                                                         *)
(* The stage that takes an answer is the first one that applies, so what   *)
(* it may rely on is what the stages before it refused: DirectPicked and   *)
(* RoutedPicked collect that.  A stage then ends the turn, starts an       *)
(* exchange or asks the router; what each of these needs to be sound is    *)
(* stated once (OverKeeps, ExchangeKeeps, AfterRouterKeeps, RoutesKeeps),  *)
(* and every action is one of them.  Ready is what the stage knew when it  *)
(* asked the router and still holds when the router gives up, a submission *)
(* or a native answer later.                                               *)
(***************************************************************************)
EXTENDS AssistantTurn, WellFoundedInduction, TLAPS

-----------------------------------------------------------------------------
(* The inductive invariant *)

\* An exchange is due or sent.
Underway(w) == pc \in {"due", "sent"} /\ what = w
\* The types of a candidate answer, of a run of the router and of a resolution.
Answer == [call : {"none", "fresh", "repeat", "image", "foreign"}, text : Text,
           claim : {"none", "supported", "unsupported"}, own : BOOLEAN]
Job == [tries : 0..2, must : BOOLEAN, again : BOOLEAN, why : BOOLEAN, usable : BOOLEAN, promised : BOOLEAN]
Outcome == [kind : {"none", "call", "answer", "checkpoint", "error"},
            call : {"none", "fresh", "repeat", "image", "foreign"}, ans : Answer]

\* The last stage, and the most invocations, of the two modes.
Last == IF ask.direct THEN 8 ELSE 16
Limit == IF ask.direct THEN 5 ELSE 8
\* Invocations that may be spent before stage i asks the router: the first one; the review too (5 in direct
\* mode); or a whole run of the router, for a stage after one of the two audits that may let an answer pass (9 and
\* 11).  The second audit asks only without earlier calls, the first only with them: there is no third run.
Base(i) == IF ask.direct THEN (IF i = 5 THEN 2 ELSE 1) ELSE IF i <= 9 \/ i = 11 THEN 1 ELSE 4
\* The exchange under way, once it is sent.
Now == IF pc = "sent" THEN 1 ELSE 0

Typed ==
    /\ ask \in Request /\ ans \in Answer /\ job \in Job /\ out \in Outcome
    /\ at \in 1..Last /\ sends \in Nat
    /\ pc \in {"pick", "due", "sent", "over"}
    /\ what \in {"first", "route", "fix", "review", "visual", "retell"}
    /\ stop \in {"no", "abort", "late"}

\* What stage i knows of the request and of the answer a when it hands them to the router: whether a promised a
\* change, unless a native answer has taken its place, and that the stages which may end in prose are not asked for
\* a required call.
Ready(i, a, promised) ==
    /\ a.own => (promised <=> Promises(a))
    /\ Stages[i] \in {"continuation", "initial"} => ~Required
    /\ Stages[i] = "continuation" => ask.done
    /\ Stages[i] = "initial" => ~ask.done
    /\ Stages[i] = "audit" => ~Required /\ (a.own => a.text # "promise")

\* Where a turn can be, and what brought it there.
Asked ==
    /\ pc # "over" => out.kind = "none"
    /\ pc = "pick" => /\ ask.direct => at = 1
                      /\ at \in {1, 10, 12}
                      /\ at = 10 => ask.done
    /\ Underway("route") => ~ask.limit /\ Ready(at, ans, job.promised)
    /\ Underway("review") => ask.direct /\ at = 5 /\ ~Required
    /\ Underway("visual") => ask.direct
    /\ Underway("retell") => ~ask.direct /\ ~Routing

\* What has been submitted, by place.
Spent ==
    /\ sends <= Limit
    /\ Underway("first") => sends <= Now
    /\ pc = "pick" => sends <= IF at = 1 THEN 1 ELSE 4
    /\ Underway("route") => sends <= Base(at) + job.tries + Now
    /\ Underway("review") \/ Underway("visual") => sends <= 1 + Now
    /\ Underway("fix") \/ Underway("retell") => sends <= Limit - 1 + Now

\* A resolution that satisfies the three properties.
SupportedAnswer(a) ==
    /\ ~ask.direct /\ (ask.tools # "none" \/ ask.done) => a.claim # "unsupported"
    /\ ask.mutation /\ a.own /\ (Routing \/ ~ask.direct) => a.text # "promise"
    /\ Routing /\ Required => \/ ask.fresh = "ok" /\ a.claim = "supported"
                              \/ ask.direct /\ what = "visual"

Sound(kind, call, a) ==
    /\ kind = "call" => call = "fresh" /\ ~ask.limit
    /\ kind = "answer" => SupportedAnswer(a)

\* The inductive invariant.
TurnInv == Typed /\ Asked /\ Spent /\ Sound(out.kind, out.call, out.ans)

-----------------------------------------------------------------------------
(* Ways a step can end *)

(* The stages of direct mode, by index. *)
LEMMA DirectNames ==
    /\ Len(DirectStages) = 8
    /\ DirectStages[1] = "rejected" /\ DirectStages[2] = "malformed" /\ DirectStages[3] = "call"
    /\ DirectStages[4] = "unmet" /\ DirectStages[5] = "review" /\ DirectStages[6] = "audit"
    /\ DirectStages[7] = "denied" /\ DirectStages[8] = "direct"
  BY DEF DirectStages

(* The stages of routed mode, by index. *)
LEMMA RoutedNames ==
    /\ Len(RoutedStages) = 16
    /\ RoutedStages[1] = "sentinel" /\ RoutedStages[2] = "unavailable" /\ RoutedStages[3] = "closed"
    /\ RoutedStages[4] = "artifact" /\ RoutedStages[5] = "proposal" /\ RoutedStages[6] = "residue"
    /\ RoutedStages[7] = "hosted" /\ RoutedStages[8] = "terminal" /\ RoutedStages[9] = "continuation"
    /\ RoutedStages[10] = "denied" /\ RoutedStages[11] = "initial" /\ RoutedStages[12] = "shell"
    /\ RoutedStages[13] = "required" /\ RoutedStages[14] = "pending" /\ RoutedStages[15] = "evidence"
    /\ RoutedStages[16] = "final"
  BY DEF RoutedStages

(* A turn ends. *)
LEMMA OverKeeps ==
    ASSUME Typed, Asked, UNCHANGED <<ask, stop>>, ans' \in Answer, at' \in 1..Last, sends' \in Nat, sends' <= Limit,
           NEW kind \in {"none", "call", "answer", "checkpoint", "error"},
           NEW call \in {"none", "fresh", "repeat", "image", "foreign"}, NEW a \in Answer,
           Over(kind, call, a), Sound(kind, call, a)
    PROVE  TurnInv'
  <1>1. pc' = "over" /\ what' = what /\ job' = job
    BY DEF Over
  <1>2. out' = [kind |-> kind, call |-> call, ans |-> a] /\ out' \in Outcome
    BY DEF Over, Outcome
  <1>3. out'.kind = kind /\ out'.call = call /\ out'.ans = a
    BY <1>2
  <1>4. Typed'
    BY <1>1, <1>2 DEF Typed, Last
  <1>5. Asked' /\ Spent'
    BY <1>1 DEF Asked, Spent, Underway, Limit, Typed
  <1>6. Sound(out.kind, out.call, out.ans)'
    BY <1>1, <1>3 DEF Sound, SupportedAnswer, Routing, Required
  <1> QED BY <1>4, <1>5, <1>6 DEF TurnInv

(* An exchange is due. *)
LEMMA ExchangeKeeps ==
    ASSUME Typed, pc # "over", out.kind = "none", UNCHANGED <<ask, stop, sends>>, ans' \in Answer, at' \in 1..Last,
           NEW w \in {"route", "fix", "review", "visual", "retell"}, NEW j \in Job, Exchange(w, j),
           w = "route" => ~ask.limit /\ sends <= Base(at') + j.tries /\ Ready(at', ans', j.promised),
           w = "review" => ask.direct /\ at' = 5 /\ ~Required /\ sends <= 1,
           w = "visual" => ask.direct /\ sends <= 1,
           w = "retell" => ~ask.direct /\ ~Routing,
           w \in {"fix", "retell"} => sends <= Limit - 1,
           sends <= Limit
    PROVE  TurnInv'
  <1>1. pc' = "due" /\ what' = w /\ job' = j /\ out' = out
    BY DEF Exchange
  <1>2. Typed'
    BY <1>1 DEF Typed, Last
  <1>3. Asked'
    BY <1>1 DEF Asked, Underway, Ready, Promises, Stages, Required, Routing
  <1>4. Spent'
    BY <1>1 DEF Spent, Underway, Limit, Now, Base, Typed, Job
  <1>5. Sound(out.kind, out.call, out.ans)'
    BY <1>1 DEF Sound
  <1> QED BY <1>2, <1>3, <1>4, <1>5 DEF TurnInv

(* guardAssistantCompletion leaves no unsupported claim where there is a tool context, and adds no promise. *)
LEMMA GuardedSound ==
    ASSUME NEW a \in Answer, ask \in Request
    PROVE  /\ Guarded(a) \in Answer
           /\ ask.tools # "none" \/ ask.done => Guarded(a).claim # "unsupported"
           /\ Guarded(a).own = a.own
           /\ Guarded(a).text = "promise" => a.text = "promise"
           /\ a.claim = "supported" => Guarded(a) = a
  BY DEF Guarded, Allowed, Answer, Text

(* The constant records have their types. *)
LEMMA Constants ==
    /\ NoJob \in Job /\ NoJob.tries = 0 /\ NoJob.promised = FALSE
    /\ Says("checkpoint", "none") \in Answer /\ Says("plain", "none") \in Answer
  BY DEF NoJob, Job, Says, Answer, Text

(* What the router's refusal leads to. *)
LEMMA AfterRouterKinds ==
    ASSUME NEW i, NEW r, NEW a, NEW usable, NEW promised, AfterRouter(i, r, a, usable, promised)
    PROVE  \/ at' = i /\ Fails
           \/ at' = i /\ Notes
           \/ at' = i /\ Stages[i] # "review" /\ Checkpoints
           \/ at' = i /\ Stages[i] = "audit" /\ Tells(a)
           \/ at' = i /\ Stages[i] \in {"continuation", "initial"} /\ ~promised /\ Tells(Guarded(a))
           \/ /\ at' = i + 1 /\ Stages[i] \in {"continuation", "initial"} /\ pc' = "pick"
              /\ UNCHANGED <<what, job, out>>
  BY DEF AfterRouter

(* The stages that treat the router's refusal in a way of their own. *)
LEMMA StageIndex ==
    ASSUME NEW i \in 1..Last
    PROVE  /\ Stages[i] = "continuation" => ~ask.direct /\ i = 9
           /\ Stages[i] = "initial" => ~ask.direct /\ i = 11
           /\ Stages[i] = "audit" => ask.direct /\ i = 6
           /\ ask.direct /\ i = 5 => Stages[i] = "review"
  BY DirectNames, RoutedNames DEF Stages, Last

(* The router found no call: whatever stage i does then keeps the invariant. *)
LEMMA AfterRouterKeeps ==
    ASSUME Typed, Asked, pc # "over", UNCHANGED <<ask, stop, sends>>,
           NEW i \in 1..Last, NEW r, NEW a \in Answer, ans' = a, NEW usable, NEW promised \in BOOLEAN,
           Ready(i, a, promised), sends <= Base(i) + 3,
           AfterRouter(i, r, a, usable, promised)
    PROVE  TurnInv'
  <1>0. sends \in Nat /\ ask \in Request /\ ans \in Answer /\ out.kind = "none"
    BY DEF Typed, Asked
  <1>1. sends <= Limit
    BY <1>0 DEF Base, Limit
  <1>2. CASE at' = i /\ Fails
    BY <1>0, <1>1, <1>2, OverKeeps DEF Fails, Sound
  <1>3. CASE at' = i /\ Notes
    BY <1>0, <1>1, <1>3, OverKeeps, Constants DEF Notes, Sound
  <1>4. CASE at' = i /\ Stages[i] # "review" /\ Checkpoints
    <2>1. sends <= Limit - 1
      BY <1>0, <1>4, StageIndex DEF Base, Limit
    <2> QED BY <1>0, <1>1, <1>4, <2>1, ExchangeKeeps, Constants DEF Checkpoints
  <1>5. CASE at' = i /\ Stages[i] = "audit" /\ Tells(a)
    <2>1. SupportedAnswer(a)
      BY <1>5, StageIndex DEF SupportedAnswer, Ready
    <2> QED BY <1>0, <1>1, <1>5, <2>1, OverKeeps DEF Tells, Sound
  <1>6. CASE at' = i /\ Stages[i] \in {"continuation", "initial"} /\ ~promised /\ Tells(Guarded(a))
    <2>1. SupportedAnswer(Guarded(a))
      BY <1>0, <1>6, GuardedSound DEF SupportedAnswer, Ready, Promises
    <2> QED BY <1>0, <1>1, <1>6, <2>1, OverKeeps, GuardedSound DEF Tells, Sound
  <1>7. CASE /\ at' = i + 1 /\ Stages[i] \in {"continuation", "initial"} /\ pc' = "pick"
             /\ UNCHANGED <<what, job, out>>
    <2>1. ~ask.direct /\ (i = 9 \/ i = 11) /\ (i = 9 => ask.done)
      BY <1>7, StageIndex DEF Ready
    <2>2. Typed'
      BY <1>0, <1>7, <2>1 DEF Typed, Last
    <2>3. Asked'
      BY <1>0, <1>7, <2>1 DEF Asked, Underway
    <2>4. Spent'
      BY <1>0, <1>1, <1>7, <2>1 DEF Spent, Underway, Base, Limit
    <2>5. Sound(out.kind, out.call, out.ans)'
      BY <1>0, <1>7 DEF Sound
    <2> QED BY <2>2, <2>3, <2>4, <2>5 DEF TurnInv
  <1> QED BY <1>2, <1>3, <1>4, <1>5, <1>6, <1>7, AfterRouterKinds

(* A stage that may rely on Ready asks the router. *)
LEMMA RoutesKeeps ==
    ASSUME Typed, Asked, pc # "over", UNCHANGED <<ask, ans, stop, sends>>,
           NEW i \in 1..Last, NEW must \in BOOLEAN, NEW again \in BOOLEAN,
           Ready(i, ans, Promises(ans)), sends <= Base(i), Routes(i, must, again)
    PROVE  TurnInv'
  <1>0. sends \in Nat /\ ask \in Request /\ ans \in Answer /\ out.kind = "none" /\ Base(i) \in Nat
    BY DEF Typed, Asked, Base
  <1>1. sends <= Limit /\ sends <= Base(i) + 3
    BY <1>0 DEF Base, Limit
  <1>2. Promises(ans) \in BOOLEAN /\ Usable(ans) \in BOOLEAN
    BY DEF Promises, Usable
  <1>3. ASSUME NEW r, AfterRouter(i, r, ans, Usable(ans), Promises(ans)) PROVE TurnInv'
    BY <1>0, <1>1, <1>2, <1>3, AfterRouterKeeps
  <1>4. CASE ~ask.limit /\ Calls("fresh") /\ at' = i
    BY <1>0, <1>1, <1>4, OverKeeps DEF Calls, Sound
  <1>5. CASE /\ ~ask.limit /\ at' = i
             /\ Exchange("route", [tries |-> 0, must |-> must, again |-> again, why |-> ans.call \in {"repeat", "image"},
                                   usable |-> Usable(ans), promised |-> Promises(ans)])
    <2> DEFINE j == [tries |-> 0, must |-> must, again |-> again, why |-> ans.call \in {"repeat", "image"},
                     usable |-> Usable(ans), promised |-> Promises(ans)]
    <2>1. j \in Job /\ j.tries = 0 /\ j.promised = Promises(ans)
      BY <1>2 DEF Job
    <2>2. Exchange("route", j) /\ at' = i /\ ~ask.limit
      BY <1>5
    <2> HIDE DEF j
    <2> QED BY <1>0, <1>1, <2>1, <2>2, ExchangeKeeps
  <1> QED BY <1>3, <1>4, <1>5 DEF Routes

-----------------------------------------------------------------------------
(* Choosing a stage *)

(* A set of naturals has a least member. *)
LEMMA NatMin ==
    ASSUME NEW S \in SUBSET Nat, S # {}
    PROVE  \E m \in S : \A x \in S : m <= x
<1>1. IsWellFoundedOn(OpToRel(<, Nat), Nat)
  BY NatLessThanWellFounded
<1>2. PICK m \in S : \A x \in S : ~(<<x, m>> \in OpToRel(<, Nat))
  BY <1>1, WFMin
<1>3. \A x \in S : ~(x < m)
  BY <1>2 DEF OpToRel
<1> QED
  BY <1>3

(* The conditions of the stages that the argument is about. *)
LEMMA AppliesTo ==
    /\ Applies("rejected") <=> Routing /\ Proposed /\ Guard(ans.call) # "good"
    /\ Applies("malformed") <=> (Routing /\ ans.call = "foreign") \/ (~Routing /\ Proposed)
    /\ Applies("call") <=> Proposed
    /\ Applies("unmet") <=> Routing /\ Required
    /\ Applies("review") <=> /\ Routing
                             /\ ans.text = "promise" \/ (ans.text \in {"unfinished", "checkpoint"} /\ ask.task)
    /\ Applies("audit") <=> Routing /\ ~ask.done /\ ~Refuses(ans) /\ ask.task /\ Local
    /\ Applies("direct") /\ Applies("final")
    /\ Applies("closed") <=>
          ~Routing /\ (Proposed \/ ans.text = "residue" \/ (ask.result /\ Unreadable(ans)))
    /\ Applies("proposal") <=> Routing /\ Proposed
    /\ Applies("terminal") <=> /\ Routing /\ ask.fresh = "ok" /\ ans.claim = "supported"
                               /\ ans.text # "promise" /\ Usable(ans)
    /\ Applies("continuation") <=> Routing /\ ask.choice = "auto" /\ ask.fresh # "none" /\ ask.task
    /\ Applies("initial") <=> Routing /\ ask.choice = "auto" /\ ~ask.done /\ ask.task /\ Local
    /\ Applies("required") <=> Routing /\ Required
    /\ Applies("pending") <=> Promises(ans)
  BY DEF Applies

(* The stage that takes the answer applies, and none before it does. *)
LEMMA Picked ==
    ASSUME Typed, NEW i, i = Min({j \in at..Len(Stages) : Applies(Stages[j])})
    PROVE  i \in 1..Last /\ at <= i /\ Applies(Stages[i]) /\ \A j \in at..(i - 1) : ~Applies(Stages[j])
  <1> DEFINE S == {j \in at..Len(Stages) : Applies(Stages[j])}
  <1>1. Len(Stages) = Last /\ Applies(Stages[Last])
    BY DirectNames, RoutedNames, AppliesTo DEF Stages, Last
  <1>2. at \in 1..Last /\ Last \in Nat
    BY DEF Typed, Last
  <1>3. Last \in S /\ S \in SUBSET Nat
    BY <1>1, <1>2
  <1>4. \E m \in S : \A x \in S : m <= x
    BY <1>3, NatMin
  <1>5. i \in S /\ \A x \in S : i <= x
    BY <1>4 DEF Min
  <1> QED BY <1>1, <1>2, <1>5, SMTT(40)

\* What a stage of direct mode that takes an answer may rely on.
DirectStepMayRun(i) ==
    /\ i = 3 => ans.call = "fresh" /\ ~ask.limit
    /\ i = 5 => ~Required
    /\ i = 6 => ~Required /\ ans.text # "promise"
    /\ i = 8 => (Routing => ~Required /\ ans.text # "promise")

(* What a stage of direct mode may rely on: a call passed the guard, a required call was met before the review. *)
LEMMA DirectPicked ==
    ASSUME Typed, ask.direct, at = 1, NEW i \in 1..8, Applies(Stages[i]), \A j \in 1..(i - 1) : ~Applies(Stages[j])
    PROVE  DirectStepMayRun(i)
  <1>1. \A j \in 1..8 : Stages[j] = DirectStages[j]
    BY DEF Stages
  <1>2. ASSUME i = 3 PROVE ans.call = "fresh" /\ ~ask.limit
    <2>1. ~Applies("rejected") /\ ~Applies("malformed") /\ Applies("call")
      BY <1>1, <1>2, DirectNames
    <2> QED BY <2>1, AppliesTo DEF Proposed, Guard
  <1>3. ASSUME i \in {5, 6, 8} PROVE Routing => ~Required
    <2>1. ~Applies("unmet")
      BY <1>1, <1>3, DirectNames
    <2> QED BY <2>1, AppliesTo
  <1>4. ASSUME i \in {6, 8} PROVE Routing => ans.text # "promise"
    <2>1. ~Applies("review")
      BY <1>1, <1>4, DirectNames
    <2> QED BY <2>1, AppliesTo
  <1>5. i = 5 => Applies("review")
    BY <1>1, DirectNames
  <1>6. i = 6 => Applies("audit")
    BY <1>1, DirectNames
  <1> QED BY <1>2, <1>3, <1>4, <1>5, <1>6, AppliesTo DEF DirectStepMayRun

(* The stages of direct mode keep the invariant. *)
LEMMA DirectStepKeeps ==
    ASSUME Typed, Asked, pc = "pick", ask.direct, sends <= 1, UNCHANGED <<ask, ans, sends, stop>>,
           NEW i \in 1..8, DirectStepMayRun(i), DirectStep(i)
    PROVE  TurnInv'
  <1>0. /\ sends \in Nat /\ ask \in Request /\ ans \in Answer /\ out.kind = "none" /\ pc # "over"
        /\ Last = 8 /\ i \in 1..Last /\ Limit = 5 /\ sends <= Limit /\ sends <= Base(i)
    BY DEF Typed, Asked, Last, Limit, Base
  <1>1. Stages[i] = DirectStages[i]
    BY DEF Stages
  <1>2. Required \in BOOLEAN
    BY DEF Required
  <1>3. ASSUME NEW must \in BOOLEAN, NEW again \in BOOLEAN, Routes(i, must, again) PROVE TurnInv'
    <2>1. Ready(i, ans, Promises(ans))
      BY <1>0, StageIndex DEF Ready, DirectStepMayRun
    <2> QED BY <1>0, <1>3, <2>1, RoutesKeeps
  <1>4. ASSUME Fails, at' = i PROVE TurnInv'
    BY <1>0, <1>4, OverKeeps DEF Fails, Sound
  <1>5. CASE i = 1
    <2>1. at' = i /\ (Exchange("visual", NoJob) \/ Fails)
      BY <1>1, <1>5, DirectNames DEF DirectStep
    <2>2. CASE Exchange("visual", NoJob)
      BY <1>0, <2>1, <2>2, ExchangeKeeps, Constants
    <2> QED BY <1>4, <2>1, <2>2
  <1>6. CASE i = 2
    <2>1. Routes(i, Required, FALSE)
      BY <1>1, <1>6, DirectNames DEF DirectStep
    <2> QED BY <1>2, <1>3, <2>1
  <1>7. CASE i = 3
    <2>1. at' = i /\ Calls(ans.call)
      BY <1>1, <1>7, DirectNames DEF DirectStep
    <2> QED BY <1>0, <1>7, <2>1, OverKeeps DEF Calls, Sound, DirectStepMayRun
  <1>8. CASE i = 4
    <2>1. at' = i /\ Fails
      BY <1>1, <1>8, DirectNames DEF DirectStep
    <2> QED BY <1>4, <2>1
  <1>9. CASE i = 5
    <2>1. at' = i /\ Exchange("review", NoJob)
      BY <1>1, <1>9, DirectNames DEF DirectStep
    <2> QED BY <1>0, <1>9, <2>1, ExchangeKeeps, Constants DEF DirectStepMayRun
  <1>10. CASE i = 6
    <2>1. Routes(i, FALSE, FALSE)
      BY <1>1, <1>10, DirectNames DEF DirectStep
    <2> QED BY <1>3, <2>1
  <1>11. CASE i = 7
    <2>1. Routes(i, TRUE, TRUE)
      BY <1>1, <1>11, DirectNames DEF DirectStep
    <2> QED BY <1>3, <2>1
  <1>12. CASE i = 8
    <2>1. at' = i /\ Tells(ans)
      BY <1>1, <1>12, DirectNames DEF DirectStep
    <2>2. SupportedAnswer(ans)
      BY <1>12 DEF SupportedAnswer, DirectStepMayRun
    <2> QED BY <1>0, <2>1, <2>2, OverKeeps DEF Tells, Sound
  <1> QED BY <1>5, <1>6, <1>7, <1>8, <1>9, <1>10, <1>11, <1>12

\* What a stage of routed mode that takes an answer may rely on.
RoutedStepMayRun(i) ==
    /\ sends <= Base(i)
    /\ i = 3 => ~Routing
    /\ i = 8 => ask.fresh = "ok" /\ ans.claim = "supported" /\ ans.text # "promise"
    /\ i = 9 => ~Required /\ ask.done
    /\ i = 11 => ~Required /\ ~ask.done
    /\ i = 16 => ~Promises(ans) /\ (Routing => ~Required)

(* What a stage of routed mode may rely on. *)
LEMMA RoutedPicked ==
    ASSUME Typed, Asked, Spent, ~ask.direct, pc = "pick", NEW i \in 1..16, at <= i,
           Applies(Stages[i]), \A j \in at..(i - 1) : ~Applies(Stages[j])
    PROVE  RoutedStepMayRun(i)
  <1>1. \A j \in 1..16 : Stages[j] = RoutedStages[j]
    BY DEF Stages
  <1>2. at \in {1, 10, 12} /\ (at = 10 => ask.done) /\ sends <= (IF at = 1 THEN 1 ELSE 4) /\ sends \in Nat
    BY DEF Typed, Asked, Spent
  <1>3. i = 3 => ~Routing
    BY <1>1, RoutedNames, AppliesTo
  <1>4. i = 8 => ask.fresh = "ok" /\ ans.claim = "supported" /\ ans.text # "promise"
    BY <1>1, RoutedNames, AppliesTo
  <1>5. ASSUME i = 9 PROVE ~Required /\ ask.done
    <2>1. Applies("continuation")
      BY <1>1, <1>5, RoutedNames
    <2>2. ask.choice = "auto" /\ ask.fresh # "none"
      BY <2>1, AppliesTo
    <2>3. ask.fresh # "none" => ask.result
      BY DEF Typed, Request
    <2>4. ask.result => ask.done
      BY DEF Typed, Request
    <2> QED BY <2>2, <2>3, <2>4 DEF Required
  <1>6. ASSUME i = 11 PROVE ~Required /\ ~ask.done
    <2>1. Applies("initial")
      BY <1>1, <1>6, RoutedNames
    <2> QED BY <2>1, AppliesTo DEF Required
  <1>7. ASSUME i = 16 PROVE ~Promises(ans) /\ (Routing => ~Required)
    <2>1. ~Applies("pending") /\ ~Applies("required")
      BY <1>1, <1>2, <1>7, RoutedNames
    <2> QED BY <2>1, AppliesTo
  <1>8. sends <= Base(i)
    BY <1>2, <1>6 DEF Base
  <1> QED BY <1>3, <1>4, <1>5, <1>6, <1>7, <1>8 DEF RoutedStepMayRun

(* guardedFunctionCall lets fresh calls pass, while a round is left. *)
LEMMA GuardGood ==
    ASSUME Proposed, Guard(ans.call) = "good"
    PROVE  ans.call = "fresh" /\ ~ask.limit
  BY DEF Proposed, Guard

(* What every stage of the routed mode may do. *)
RoutedOutcome(i) ==
    \/ \E must \in BOOLEAN, again \in BOOLEAN : Routes(i, must, again)
    \/ at' = i /\ Notes
    \/ at' = i /\ Checkpoints
    \/ at' = i /\ ans.call = "fresh" /\ ~ask.limit /\ Calls("fresh")
    \/ at' = i /\ i = 3 /\ Exchange("retell", NoJob)
    \/ at' = i /\ i \in {8, 16} /\ Tells(Guarded(ans))

(* The stages before the audits. *)
LEMMA EarlyOutcome ==
    ASSUME ~ask.direct, NEW i \in 1..7, Applies(Stages[i]), EarlyStep(i)
    PROVE  RoutedOutcome(i)
  <1>1. Stages[i] = RoutedStages[i]
    BY DEF Stages
  <1>2. (ask.choice = "named") \in BOOLEAN /\ Required \in BOOLEAN
    BY DEF Required
  <1>3. ASSUME NEW must \in BOOLEAN, NEW again \in BOOLEAN, Routes(i, must, again) PROVE RoutedOutcome(i)
    BY <1>3 DEF RoutedOutcome
  <1>4. CASE i = 1
    <2>1. Routes(i, TRUE, FALSE)
      BY <1>1, <1>4, RoutedNames DEF EarlyStep
    <2> QED BY <1>3, <2>1
  <1>5. CASE i = 2
    <2>1. Routes(i, ask.choice = "named", FALSE)
      BY <1>1, <1>5, RoutedNames DEF EarlyStep
    <2> QED BY <1>2, <1>3, <2>1
  <1>6. CASE i = 3
    <2>1. /\ at' = i
          /\ \/ Proposed /\ Guard(ans.call) = "good" /\ Calls(ans.call)
             \/ Exchange("retell", NoJob)
             \/ Checkpoints
      BY <1>1, <1>6, RoutedNames DEF EarlyStep
    <2> QED BY <1>6, <2>1, GuardGood DEF RoutedOutcome
  <1>7. CASE i = 4
    <2>1. at' = i /\ Notes
      BY <1>1, <1>7, RoutedNames DEF EarlyStep
    <2> QED BY <2>1 DEF RoutedOutcome
  <1>8. CASE i = 5
    <2>1. \/ at' = i /\ Guard(ans.call) = "good" /\ Calls(ans.call)
          \/ at' = i /\ Checkpoints
          \/ Routes(i, Required, FALSE)
      BY <1>1, <1>8, RoutedNames DEF EarlyStep
    <2>2. Proposed
      BY <1>1, <1>8, RoutedNames, AppliesTo
    <2> QED BY <1>2, <2>1, <2>2, GuardGood DEF RoutedOutcome
  <1>9. CASE i \in {6, 7}
    <2>1. Routes(i, TRUE, FALSE)
      BY <1>1, <1>9, RoutedNames DEF EarlyStep
    <2> QED BY <1>3, <2>1
  <1> QED BY <1>4, <1>5, <1>6, <1>7, <1>8, <1>9

(* The audits and the invariants of a terminal answer. *)
LEMMA LateOutcome ==
    ASSUME ~ask.direct, NEW i \in 8..16, LateStep(i)
    PROVE  RoutedOutcome(i)
  <1>1. Stages[i] = RoutedStages[i]
    BY DEF Stages
  <1>3. ASSUME NEW must \in BOOLEAN, NEW again \in BOOLEAN, Routes(i, must, again) PROVE RoutedOutcome(i)
    BY <1>3 DEF RoutedOutcome
  <1>4. CASE i \in {8, 16}
    <2>1. at' = i /\ Tells(Guarded(ans))
      BY <1>1, <1>4, RoutedNames DEF LateStep
    <2> QED BY <1>4, <2>1 DEF RoutedOutcome
  <1>5. CASE i = 9
    <2> DEFINE failed == ask.fresh = "failed"
    <2>1. Routes(i, Promises(ans) \/ failed, ~Usable(ans) \/ failed)
      BY <1>1, <1>5, RoutedNames DEF LateStep
    <2>2. (Promises(ans) \/ failed) \in BOOLEAN /\ (~Usable(ans) \/ failed) \in BOOLEAN
      OBVIOUS
    <2> QED BY <1>3, <2>1, <2>2
  <1>6. CASE i = 11
    <2>1. Routes(i, Promises(ans), ~Usable(ans))
      BY <1>1, <1>6, RoutedNames DEF LateStep
    <2>2. Promises(ans) \in BOOLEAN /\ (~Usable(ans)) \in BOOLEAN
      BY DEF Promises
    <2> QED BY <1>3, <2>1, <2>2
  <1>7. CASE i = 10
    <2>1. Routes(i, TRUE, TRUE)
      BY <1>1, <1>7, RoutedNames DEF LateStep
    <2> QED BY <1>3, <2>1
  <1>8. CASE i \in {12, 13}
    <2>1. Routes(i, TRUE, FALSE)
      BY <1>1, <1>8, RoutedNames DEF LateStep
    <2> QED BY <1>3, <2>1
  <1>9. CASE i = 14
    <2>1. Routes(i, TRUE, TRUE) \/ (at' = i /\ Notes)
      BY <1>1, <1>9, RoutedNames DEF LateStep
    <2> QED BY <1>3, <2>1 DEF RoutedOutcome
  <1>10. CASE i = 15
    <2>1. Routes(i, TRUE, FALSE) \/ (at' = i /\ Notes)
      BY <1>1, <1>10, RoutedNames DEF LateStep
    <2> QED BY <1>3, <2>1 DEF RoutedOutcome
  <1> QED BY <1>4, <1>5, <1>6, <1>7, <1>8, <1>9, <1>10

(* The stages of routed mode keep the invariant. *)
LEMMA RoutedStepKeeps ==
    ASSUME Typed, Asked, pc = "pick", ~ask.direct, UNCHANGED <<ask, ans, sends, stop>>,
           NEW i \in 1..16, RoutedStepMayRun(i), RoutedOutcome(i)
    PROVE  TurnInv'
  <1>0. /\ sends \in Nat /\ ask \in Request /\ ans \in Answer /\ out.kind = "none" /\ pc # "over"
        /\ Last = 16 /\ i \in 1..Last /\ Limit = 8 /\ sends <= Base(i) /\ sends <= Limit - 1 /\ sends <= Limit
    BY DEF Typed, Asked, Last, Limit, Base, RoutedStepMayRun
  <1>1. ASSUME NEW must \in BOOLEAN, NEW again \in BOOLEAN, Routes(i, must, again) PROVE TurnInv'
    <2>1. Ready(i, ans, Promises(ans))
      BY <1>0, StageIndex DEF Ready, RoutedStepMayRun
    <2> QED BY <1>0, <1>1, <2>1, RoutesKeeps
  <1>2. CASE at' = i /\ Notes
    BY <1>0, <1>2, OverKeeps, Constants DEF Notes, Sound
  <1>3. CASE at' = i /\ Checkpoints
    BY <1>0, <1>3, ExchangeKeeps, Constants DEF Checkpoints
  <1>4. CASE at' = i /\ ans.call = "fresh" /\ ~ask.limit /\ Calls("fresh")
    BY <1>0, <1>4, OverKeeps DEF Calls, Sound
  <1>5. CASE at' = i /\ i = 3 /\ Exchange("retell", NoJob)
    BY <1>0, <1>5, ExchangeKeeps, Constants DEF RoutedStepMayRun
  <1>6. CASE at' = i /\ i \in {8, 16} /\ Tells(Guarded(ans))
    <2>1. SupportedAnswer(Guarded(ans))
      BY <1>0, <1>6, GuardedSound DEF SupportedAnswer, RoutedStepMayRun, Promises
    <2> QED BY <1>0, <1>6, <2>1, OverKeeps, GuardedSound DEF Tells, Sound
  <1> QED BY <1>1, <1>2, <1>3, <1>4, <1>5, <1>6 DEF RoutedOutcome

(* The pipeline keeps the invariant. *)
LEMMA PickStageKeeps == ASSUME TurnInv, PickStage PROVE TurnInv'
  <1> DEFINE i == Min({j \in at..Len(Stages) : Applies(Stages[j])})
  <1>0. Typed /\ Asked /\ Spent /\ pc = "pick" /\ UNCHANGED <<ask, ans, sends, stop>>
    BY DEF TurnInv, PickStage
  <1>1. i \in 1..Last /\ at <= i /\ Applies(Stages[i]) /\ \A j \in at..(i - 1) : ~Applies(Stages[j])
    BY <1>0, Picked
  <1>2. \/ ask.direct /\ DirectStep(i)
        \/ ~ask.direct /\ Stages[i] \in Early /\ EarlyStep(i)
        \/ ~ask.direct /\ Stages[i] \notin Early /\ LateStep(i)
    BY DEF PickStage
  <1> HIDE DEF i
  <1>3. CASE ask.direct /\ DirectStep(i)
    <2>1. at = 1 /\ sends <= 1 /\ i \in 1..8
      BY <1>0, <1>1, <1>3 DEF Asked, Spent, Last
    <2> QED BY <1>0, <1>1, <1>3, <2>1, DirectPicked, DirectStepKeeps
  <1>4. CASE ~ask.direct
    <2>1. i \in 1..16
      BY <1>1, <1>4 DEF Last
    <2>2. RoutedStepMayRun(i)
      BY <1>0, <1>1, <1>4, <2>1, RoutedPicked
    <2>3. Stages[i] \in Early <=> i \in 1..7
      BY <1>4, <2>1, RoutedNames DEF Stages, Early
    <2>4. RoutedOutcome(i)
      BY <1>1, <1>2, <1>4, <2>1, <2>3, EarlyOutcome, LateOutcome
    <2> QED BY <1>0, <1>4, <2>1, <2>2, <2>4, RoutedStepKeeps
  <1> QED BY <1>2, <1>3, <1>4

-----------------------------------------------------------------------------
(* The exchanges *)

(* What Microsoft answers is an answer, and the model's own. *)
LEMMA AnswersTyped ==
    /\ \A a \in Prose : a \in Answer /\ a.own /\ a.call = "none"
    /\ \A a \in Answers : a \in Answer /\ a.own
  <1>1. \A t \in Text, c \in {"none", "supported", "unsupported"} :
           Says(t, c) \in Answer /\ Says(t, c).own /\ Says(t, c).call = "none"
    BY DEF Says, Answer
  <1>2. \A c \in {"fresh", "repeat", "image", "foreign"} : Proposes(c) \in Answer /\ Proposes(c).own
    BY DEF Proposes, Answer, Text
  <1>3. {"plain", "promise", "hosted"} \subseteq Text
    BY DEF Text
  <1>4. \A a \in Prose : a \in Answer /\ a.own /\ a.call = "none"
    BY <1>1, <1>3 DEF Prose
  <1> QED BY <1>2, <1>4 DEF Answers

(* The invariant, in the form the actions need. *)
LEMMA TurnFacts ==
    ASSUME TurnInv
    PROVE  /\ Typed /\ Asked /\ Spent /\ ask \in Request /\ ans \in Answer /\ job \in Job /\ sends \in Nat
           /\ at \in 1..Last /\ sends <= Limit /\ Base(at) \in Nat
           /\ pc # "over" => out.kind = "none"
           /\ job.tries \in 0..2 /\ job.promised \in BOOLEAN /\ job.usable \in BOOLEAN
  BY DEF TurnInv, Typed, Asked, Spent, Base, Job

(* The turn ends in an error. *)
LEMMA FailsKeeps ==
    ASSUME TurnInv, Fails, UNCHANGED <<ask, ans, at, sends, stop>>
    PROVE  TurnInv'
  BY TurnFacts, OverKeeps DEF Fails, Sound

(* The turn ends in the router's call. *)
LEMMA RouterCallKeeps ==
    ASSUME TurnInv, ~ask.limit, Calls("fresh"), UNCHANGED <<ask, ans, at, sends, stop>>
    PROVE  TurnInv'
  BY TurnFacts, OverKeeps DEF Calls, Sound

(* A run of the router has a round to fill, knows what its stage knew and is within its budget. *)
LEMMA RouterSpent ==
    ASSUME TurnInv, Underway("route")
    PROVE  ~ask.limit /\ Ready(at, ans, job.promised) /\ sends <= Base(at) + 3
  BY TurnFacts DEF Asked, Spent, Now

(* The end of resolveFunctionCall. *)
LEMMA RouterGivesUpKeeps ==
    ASSUME TurnInv, Underway("route"), UNCHANGED <<ask, ans, sends, stop>>, NEW why, RouterGivesUp(why)
    PROVE  TurnInv'
  <1>1. pc # "over"
    BY DEF Underway
  <1>2. ASSUME NEW r, AfterRouter(at, r, ans, job.usable, job.promised) PROVE TurnInv'
    BY <1>1, <1>2, TurnFacts, RouterSpent, AfterRouterKeeps
  <1>3. CASE Calls("fresh") /\ at' = at
    BY <1>3, RouterSpent, RouterCallKeeps
  <1> QED BY <1>2, <1>3 DEF RouterGivesUp

(* An invocation is submitted, or nothing is for a client that is gone or too late. *)
LEMMA SubmitKeeps == ASSUME TurnInv, Submit PROVE TurnInv'
  <1>0. pc = "due" /\ UNCHANGED <<ask, ans, stop>>
    BY DEF Submit
  <1>1. CASE sends' = sends + 1 /\ pc' = "sent" /\ UNCHANGED <<at, what, job, out>>
    <2>1. Typed'
      BY <1>0, <1>1, TurnFacts DEF Typed, Last
    <2>2. Asked'
      BY <1>0, <1>1, TurnFacts DEF Asked, Underway, Ready, Promises, Stages, Required, Routing
    <2>3. Spent'
      <3>1. what \in {"first", "route", "fix", "review", "visual", "retell"}
        BY TurnFacts DEF Typed
      <3> QED BY <1>0, <1>1, <3>1, TurnFacts DEF Spent, Underway, Limit, Now, Base
    <2>4. Sound(out.kind, out.call, out.ans)'
      BY <1>0, <1>1, TurnFacts DEF Sound
    <2> QED BY <2>1, <2>2, <2>3, <2>4 DEF TurnInv
  <1>2. CASE UNCHANGED sends /\ what = "route" /\ RouterGivesUp(job.why)
    BY <1>0, <1>2, RouterGivesUpKeeps DEF Underway
  <1>3. CASE UNCHANGED sends /\ Fails /\ at' = at
    BY <1>0, <1>3, FailsKeeps
  <1> QED BY <1>1, <1>2, <1>3 DEF Submit

(* The first answer enters the pipeline. *)
LEMMA FirstAnswersKeeps == ASSUME TurnInv, FirstAnswers PROVE TurnInv'
  <1>0. /\ pc = "sent" /\ what = "first" /\ pc' = "pick" /\ at' = 1 /\ ans' \in Answer
        /\ UNCHANGED <<ask, what, job, sends, stop, out>>
    BY AnswersTyped DEF FirstAnswers
  <1>1. sends <= 1
    BY <1>0, TurnFacts DEF Spent, Underway, Now
  <1>2. Typed'
    BY <1>0, TurnFacts DEF Typed, Last
  <1>3. Asked' /\ Spent'
    BY <1>0, <1>1, TurnFacts DEF Asked, Spent, Underway, Limit
  <1>4. Sound(out.kind, out.call, out.ans)'
    BY <1>0, TurnFacts DEF Sound
  <1> QED BY <1>2, <1>3, <1>4 DEF TurnInv

(* A text attempt of the router has failed. *)
LEMMA TriedKeeps ==
    ASSUME TurnInv, pc = "sent", what = "route", job.tries < 2, NEW why \in BOOLEAN, Tried(why),
           UNCHANGED <<ask, ans, sends, stop>>
    PROVE  TurnInv'
  <1> DEFINE j == [job EXCEPT !.tries = @ + 1, !.why = why]
  <1>1. j \in Job /\ j.tries = job.tries + 1 /\ j.promised = job.promised
    <2>1. job \in Job /\ job.tries + 1 \in 0..2
      BY TurnFacts
    <2>2. \A n \in 0..2 : LET k == [job EXCEPT !.tries = n, !.why = why]
                           IN  k \in Job /\ k.tries = n /\ k.promised = job.promised
      BY <2>1 DEF Job
    <2>3. j = [job EXCEPT !.tries = job.tries + 1, !.why = why]
      BY <2>1 DEF Job
    <2> QED BY <2>1, <2>2, <2>3
  <1>2. Exchange("route", j) /\ at' = at
    BY DEF Tried
  <1>3. ~ask.limit /\ Ready(at, ans, job.promised) /\ sends <= Base(at) + job.tries + 1
    BY TurnFacts DEF Asked, Spent, Now, Underway
  <1> HIDE DEF j
  <1> QED BY <1>1, <1>2, <1>3, TurnFacts, ExchangeKeeps

(* A text attempt of the router is answered. *)
LEMMA RouterAnswersKeeps == ASSUME TurnInv, RouterAnswers PROVE TurnInv'
  <1>0. pc = "sent" /\ what = "route" /\ job.tries < 2 /\ UNCHANGED <<ask, ans, sends, stop>> /\ job.why \in BOOLEAN
    BY TurnFacts DEF RouterAnswers, Job
  <1>1. Underway("route")
    BY <1>0 DEF Underway
  <1>2. CASE Calls("fresh") /\ at' = at
    BY <1>0, <1>1, <1>2, RouterSpent, RouterCallKeeps
  <1>3. CASE Tried(TRUE) \/ Tried(job.why)
    BY <1>0, <1>3, TriedKeeps
  <1>4. CASE AfterRouter(at, "no_tool", ans, job.usable, job.promised)
    BY <1>0, <1>1, <1>4, TurnFacts, RouterSpent, AfterRouterKeeps
  <1> QED BY <1>2, <1>3, <1>4 DEF RouterAnswers

(* adoptToolRouterResult: a native answer in place of the candidate leaves Ready true. *)
LEMMA AdoptedReady ==
    ASSUME TurnInv, Underway("route"), NEW a \in Prose
    PROVE  Adopted(a) \in Answer /\ Ready(at, Adopted(a), job.promised)
  <1>1. Ready(at, ans, job.promised)
    BY RouterSpent
  <1>2. CASE Stages[at] = "continuation"
    BY <1>1, <1>2, TurnFacts DEF Adopted
  <1>3. CASE Stages[at] # "continuation"
    <2>1. Adopted(a) = [a EXCEPT !.own = FALSE]
      BY <1>3 DEF Adopted
    <2>2. Adopted(a) \in Answer /\ Adopted(a).own = FALSE
      BY <2>1, AnswersTyped DEF Answer
    <2> QED BY <1>1, <2>2 DEF Ready
  <1> QED BY <1>2, <1>3

(* The native attempt is answered. *)
LEMMA NativeAnswersKeeps == ASSUME TurnInv, NativeAnswers PROVE TurnInv'
  <1>0. Underway("route") /\ pc = "sent" /\ UNCHANGED <<ask, sends, stop>>
    BY DEF NativeAnswers, Underway
  <1>1. CASE Calls("fresh") /\ at' = at /\ UNCHANGED ans
    BY <1>0, <1>1, RouterSpent, RouterCallKeeps
  <1>2. CASE (RouterGivesUp(TRUE) \/ RouterGivesUp(job.why)) /\ UNCHANGED ans
    BY <1>0, <1>2, RouterGivesUpKeeps
  <1>3. CASE \E a \in Prose :
                ans' = Adopted(a) /\ AfterRouter(at, "no_tool", Adopted(a), job.usable, job.promised)
    BY <1>0, <1>3, TurnFacts, AdoptedReady, RouterSpent, AfterRouterKeeps
  <1> QED BY <1>1, <1>2, <1>3 DEF NativeAnswers

(* The review in the same conversation is answered. *)
LEMMA ReviewAnswersKeeps == ASSUME TurnInv, ReviewAnswers PROVE TurnInv'
  <1>0. Underway("review") /\ pc = "sent" /\ UNCHANGED <<ask, ans, sends, stop>>
    BY DEF ReviewAnswers, Underway
  <1>1. ask.direct /\ at = 5 /\ ~Required /\ sends <= 2
    BY <1>0, TurnFacts DEF Asked, Spent, Now
  <1>2. CASE ~ask.limit /\ Calls("fresh") /\ at' = at
    BY <1>0, <1>2, RouterCallKeeps
  <1>3. ASSUME NEW a \in Answers, a.text # "promise", Tells(a), at' = at PROVE TurnInv'
    <2>1. SupportedAnswer(a)
      BY <1>1, <1>3 DEF SupportedAnswer
    <2> QED BY <1>0, <1>3, <2>1, AnswersTyped, TurnFacts, OverKeeps DEF Tells, Sound
  <1>4. CASE Routes(at, TRUE, TRUE)
    <2>1. Ready(at, ans, Promises(ans)) /\ sends <= Base(at)
      BY <1>1, TurnFacts, StageIndex DEF Ready, Base
    <2> QED BY <1>0, <1>4, <2>1, TurnFacts, RoutesKeeps
  <1>5. CASE Fails /\ at' = at
    BY <1>0, <1>5, FailsKeeps
  <1> QED BY <1>2, <1>3, <1>4, <1>5 DEF ReviewAnswers

(* The model has seen its image again. *)
LEMMA VisualAnswersKeeps == ASSUME TurnInv, VisualAnswers PROVE TurnInv'
  <1>0. pc = "sent" /\ what = "visual" /\ UNCHANGED <<ask, ans, at, sends, stop>>
    BY DEF VisualAnswers
  <1>1. ask.direct /\ sends <= 2 /\ Limit = 5
    BY <1>0, TurnFacts DEF Asked, Spent, Now, Underway, Limit
  <1>2. ASSUME NEW a \in Prose, ~Promises(a), Tells(a) PROVE TurnInv'
    <2>1. SupportedAnswer(a)
      BY <1>0, <1>1, <1>2 DEF SupportedAnswer, Promises
    <2> QED BY <1>0, <1>2, <2>1, AnswersTyped, TurnFacts, OverKeeps DEF Tells, Sound
  <1>3. CASE Checkpoints
    BY <1>0, <1>1, <1>3, Constants, TurnFacts, ExchangeKeeps DEF Checkpoints
  <1> QED BY <1>2, <1>3 DEF VisualAnswers

(* The turn ends in a checkpoint. *)
LEMMA NotesKeeps ==
    ASSUME TurnInv, Notes, UNCHANGED <<ask, ans, at, sends, stop>>
    PROVE  TurnInv'
  BY TurnFacts, Constants, OverKeeps DEF Notes, Sound

(* repairToolResultAnswer. *)
LEMMA RetellAnswersKeeps == ASSUME TurnInv, RetellAnswers PROVE TurnInv'
  <1>0. pc = "sent" /\ what = "retell" /\ UNCHANGED <<ask, ans, at, sends, stop>>
    BY DEF RetellAnswers
  <1>1. ~Routing
    BY <1>0, TurnFacts DEF Asked, Underway
  <1>2. ASSUME NEW a \in Prose, Usable(a), Tells(Guarded(a)) PROVE TurnInv'
    <2>1. SupportedAnswer(Guarded(a))
      BY <1>1, <1>2, AnswersTyped, TurnFacts, GuardedSound DEF SupportedAnswer, Usable, Promises
    <2> QED BY <1>0, <1>2, <2>1, AnswersTyped, TurnFacts, GuardedSound, OverKeeps DEF Tells, Sound
  <1>3. CASE Tells(Says("plain", "none"))
    <2>1. SupportedAnswer(Says("plain", "none"))
      BY <1>1 DEF SupportedAnswer, Says
    <2> QED BY <1>0, <1>3, <2>1, Constants, TurnFacts, OverKeeps DEF Tells, Sound
  <1>4. CASE Notes
    BY <1>0, <1>4, NotesKeeps
  <1> QED BY <1>2, <1>3, <1>4 DEF RetellAnswers

(* No step breaks the invariant. *)
LEMMA TurnStepKeeps == ASSUME TurnInv, [TurnNext]_turnVars PROVE TurnInv'
  <1>1. CASE ExchangeFails
    BY <1>1, FailsKeeps DEF ExchangeFails
  <1>2. CASE FixAnswers
    BY <1>2, NotesKeeps DEF FixAnswers
  <1>3. CASE Interrupt \/ UNCHANGED turnVars
    <2>1. UNCHANGED <<ask, ans, at, pc, what, job, sends, out>> /\ stop' \in {"no", "abort", "late"}
      BY <1>3, TurnFacts DEF Interrupt, turnVars, Typed
    <2>2. Typed'
      BY <2>1, TurnFacts DEF Typed, Last
    <2>3. Asked'
      BY <2>1, TurnFacts DEF Asked, Underway, Ready, Promises, Stages, Required, Routing
    <2>4. Spent'
      BY <2>1, TurnFacts DEF Spent, Underway, Limit, Now, Base
    <2>5. Sound(out.kind, out.call, out.ans)'
      BY <2>1 DEF TurnInv, Sound, SupportedAnswer, Routing, Required
    <2> QED BY <2>2, <2>3, <2>4, <2>5 DEF TurnInv
  <1> QED BY <1>1, <1>2, <1>3, PickStageKeeps, SubmitKeeps, FirstAnswersKeeps, RouterAnswersKeeps, NativeAnswersKeeps,
             ReviewAnswersKeeps, VisualAnswersKeeps, RetellAnswersKeeps DEF TurnNext, TurnWorks

(* The invariant holds of a turn that begins. *)
LEMMA TurnInitInv == TurnInit => TurnInv
  <1> SUFFICES ASSUME TurnInit PROVE TurnInv
    OBVIOUS
  <1>1. Says("empty", "none") \in Answer
    BY DEF Says, Answer, Text
  <1>2. None \in Outcome /\ None.kind = "none"
    BY <1>1 DEF None, Outcome
  <1>3. Typed
    BY <1>1, <1>2, Constants DEF TurnInit, Typed, Last
  <1>4. Asked
    BY <1>2 DEF TurnInit, Asked, Underway
  <1>5. Spent
    BY DEF TurnInit, Spent, Underway, Limit, Now
  <1>6. Sound(out.kind, out.call, out.ans)
    BY <1>2 DEF TurnInit, Sound
  <1> QED BY <1>3, <1>4, <1>5, <1>6 DEF TurnInv

-----------------------------------------------------------------------------
(* The theorems *)

(* The invariant holds in every behaviour of one turn.                      *)
THEOREM TurnInvariance == TurnSpec => []TurnInv
  <1>1. TurnInit => TurnInv
    BY TurnInitInv
  <1>2. TurnInv /\ [TurnNext]_turnVars => TurnInv'
    BY TurnStepKeeps
  <1> QED BY <1>1, <1>2, PTL DEF TurnSpec

(* Type correctness: stage, exchange, attempts and outcome stay in their    *)
(* types.                                                                   *)
THEOREM TurnTyped == TurnSpec => []TurnTypeOK
  <1>1. TurnInv => TurnTypeOK
    BY DirectNames, RoutedNames, TurnFacts DEF TurnTypeOK, TurnInv, Typed, Stages, Last, Outcome
  <1> QED BY <1>1, TurnInvariance, PTL

(* Whatever is asked and whatever Microsoft answers, a turn submits at most *)
(* eight invocations, five in direct mode (resolveAssistantTurn,            *)
(* resolveFunctionCall, repairCallerLocalCheckpoint).                       *)
THEOREM SubmissionTheorem == TurnSpec => []SubmissionsBounded
  <1>1. TurnInv => SubmissionsBounded
    BY DEF TurnInv, Spent, Limit, SubmissionsBounded
  <1> QED BY <1>1, TurnInvariance, PTL

(* Every returned call, whichever place produces it, is fresh and has a     *)
(* round left (guardedFunctionCall, resolveFunctionCall,                    *)
(* deterministicToolRouterRecovery).                                        *)
THEOREM CallTheorem == TurnSpec => []CallsAreGuarded
  <1>1. TurnInv => CallsAreGuarded
    BY DEF TurnInv, Sound, CallsAreGuarded
  <1> QED BY <1>1, TurnInvariance, PTL

(* No final answer of routed mode claims what the ledger does not support,  *)
(* and the model's own answer does not end a request for changes with a     *)
(* promise (guardAssistantCompletion, resolveAssistantTurn).                *)
THEOREM AnswerTheorem == TurnSpec => []AnswersAreSupported
  <1>1. TurnInv => AnswersAreSupported
    BY DEF TurnInv, Sound, SupportedAnswer, AnswersAreSupported
  <1> QED BY <1>1, TurnInvariance, PTL

(* A required tool choice ends in prose only on fresh evidence, or when the *)
(* model wanted an image again (resolveDirectNativeTurn,                    *)
(* resolveAssistantTurn).                                                   *)
THEOREM RequirementTheorem == TurnSpec => []RequiredIsMet
  <1>1. TurnInv => RequiredIsMet
    BY DEF TurnInv, Sound, SupportedAnswer, RequiredIsMet
  <1> QED BY <1>1, TurnInvariance, PTL
=============================================================================
