----------------------------- MODULE ChatRunner -----------------------------
(***************************************************************************)
(* The runner object of one account: runChatHub and cancelChatHub of       *)
(* chat-session.ts.  A call of runChatHub may be delivered twice and a     *)
(* cancellation may overtake the run it names; activeChatRuns,             *)
(* completedChatRuns and cancelledChatRuns, all in memory and bounded,     *)
(* make the two harmless for as long as they remember the run.  chatHub    *)
(* itself is an invocation that is submitted at most once and reports      *)
(* truthfully whether it was (ChatHub shows that).                         *)
(*                                                                         *)
(* since, age and lost are history: they say how long the runner has had   *)
(* to remember a run, and no action reads them.                            *)
(***************************************************************************)
EXTENDS Naturals, Sequences, FiniteSets, SequencesExt

CONSTANTS
    Run,          \* run ids
    Kept,         \* MAX_COMPLETED_CHAT_RUNS_IN_MEMORY
    Markers,      \* the bound on cancelledChatRuns
    MaxCopies     \* bound: calls that are delivered once more

ASSUME RunnerAssumption == {Kept, Markers, MaxCopies} \subseteq Nat \ {0}

VARIABLES
    active,   \* run -> none, or the invocation in progress: [sent, abort]
    done,     \* completedChatRuns, oldest first: [run, what]
    marks,    \* cancelledChatRuns, oldest first
    callers,  \* run -> its calls: one on its way (made), others that wait for the run (joined)
    cancel,   \* run -> the cancellation: no, asked, waiting, cancelled, queued
    sent,     \* run -> times the invocation was sent
    told,     \* run -> what callers have been told
    copies,   \* calls that were delivered once more
    since,    \* history: run -> outcomes kept from its own on (0: none of its own yet)
    age,      \* history: run -> markers set from its own on
    lost      \* history: runs whose record went with a reset, or whose marker was used

historyVars == <<since, age, lost>>
runnerVars == <<active, done, marks, callers, cancel, sent, told, copies, historyVars>>

NoRun == [on |-> FALSE, sent |-> FALSE, abort |-> FALSE]

RunnerTypeOK ==
    /\ active \in [Run -> [on : BOOLEAN, sent : BOOLEAN, abort : BOOLEAN]]
    /\ done \in Seq([run : Run, what : {"answer", "maybe", "unsent"}]) /\ Len(done) <= Kept
    /\ marks \in Seq(Run) /\ Len(marks) <= Markers
    /\ callers \in [Run -> SUBSET {"made", "joined"}]
    /\ cancel \in [Run -> {"no", "asked", "waiting", "cancelled", "queued"}]
    /\ sent \in [Run -> Nat] /\ told \in [Run -> SUBSET {"answer", "maybe", "unsent", "lost"}]
    /\ copies \in 0..MaxCopies
    /\ since \in [Run -> 0..(Kept + 1)] /\ age \in [Run -> 0..(Markers + 1)] /\ lost \subseteq Run

RunnerInit ==
    /\ active = [r \in Run |-> NoRun] /\ done = <<>> /\ marks = <<>>
    /\ callers = [r \in Run |-> {}] /\ cancel = [r \in Run |-> "no"]
    /\ sent = [r \in Run |-> 0] /\ told = [r \in Run |-> {}] /\ copies = 0
    /\ since = [r \in Run |-> 0] /\ age = [r \in Run |-> 0] /\ lost = {}

-----------------------------------------------------------------------------

IsDone(r) == \E i \in DOMAIN done : done[i].run = r
Outcome(r) == (CHOOSE x \in ToSet(done) : x.run = r).what

\* Map and Set entries beyond the bound go, oldest first.
Newest(s, k) == IF Len(s) <= k THEN s ELSE SubSeq(s, Len(s) - k + 1, Len(s))

Tell(r, what) == told' = [told EXCEPT ![r] = @ \cup {what}]

\* History: an entry of r comes into a map that keeps m of them.
Counted(count, r, m) ==
    [q \in Run |-> IF count[q] = 0 THEN IF q = r THEN 1 ELSE 0
                   ELSE IF count[q] <= m THEN count[q] + 1 ELSE count[q]]

\* durableChatHub calls the runner with a run id of its own.
CallRunner(r) ==
    /\ callers[r] = {} /\ told[r] = {} /\ ~active[r].on
    /\ callers' = [callers EXCEPT ![r] = {"made"}]
    /\ UNCHANGED <<active, done, marks, cancel, sent, told, copies, historyVars>>

\* The call is delivered once more.
Redelivered(r) ==
    /\ "made" \notin callers[r] /\ (callers[r] # {} \/ told[r] # {})
    /\ copies < MaxCopies /\ copies' = copies + 1
    /\ callers' = [callers EXCEPT ![r] = @ \cup {"made"}]
    /\ UNCHANGED <<active, done, marks, cancel, sent, told, historyVars>>

\* Mutant: a run in progress is not looked for.
RunNeverJoins(r) ==
    /\ "made" \in callers[r] /\ ~IsDone(r) /\ r \notin ToSet(marks)
    /\ active' = [active EXCEPT ![r] = [NoRun EXCEPT !.on = TRUE]]
    /\ callers' = [callers EXCEPT ![r] = {"joined"}] /\ UNCHANGED <<marks, told, done, cancel, sent, copies, historyVars>>

\* runChatHub: a kept outcome, a cancellation that came first (its marker is used
\* up and no outcome is kept), a run to join, or a new one.
RunChatHub(r) ==
    /\ "made" \in callers[r]
    /\ \/ /\ IsDone(r) /\ Tell(r, Outcome(r))
          /\ callers' = [callers EXCEPT ![r] = @ \ {"made"}] /\ UNCHANGED <<active, marks, lost>>
       \/ /\ ~IsDone(r) /\ r \in ToSet(marks)
          /\ marks' = RemoveAt(marks, CHOOSE i \in DOMAIN marks : marks[i] = r) /\ Tell(r, "unsent")
          /\ callers' = [callers EXCEPT ![r] = @ \ {"made"}] /\ lost' = lost \cup {r} /\ UNCHANGED active
       \/ /\ ~IsDone(r) /\ r \notin ToSet(marks)
          /\ active' = IF active[r].on THEN active ELSE [active EXCEPT ![r] = [NoRun EXCEPT !.on = TRUE]]
          /\ callers' = [callers EXCEPT ![r] = {"joined"}] /\ UNCHANGED <<marks, told, lost>>
    /\ UNCHANGED <<done, cancel, sent, copies, since, age>>

\* chatHub submits the invocation.
HubSubmits(r) ==
    /\ active[r].on /\ ~active[r].sent /\ ~active[r].abort
    /\ active' = [active EXCEPT ![r].sent = TRUE] /\ sent' = [sent EXCEPT ![r] = @ + 1]
    /\ UNCHANGED <<done, marks, callers, cancel, told, copies, historyVars>>

\* chatHub settles: the outcome is kept, whoever has joined is told, and a
\* cancellation that waited is confirmed.
HubSettles(r) ==
    /\ active[r].on
    /\ \E what \in {"answer", "maybe", "unsent"} :
          /\ IF active[r].sent THEN what \in {"answer", "maybe"} ELSE what = "unsent"
          /\ done' = Newest(Append(done, [run |-> r, what |-> what]), Kept)
          /\ active' = [active EXCEPT ![r] = NoRun]
          /\ IF "joined" \in callers[r] THEN Tell(r, what) ELSE UNCHANGED told
          /\ callers' = [callers EXCEPT ![r] = @ \ {"joined"}]
    /\ cancel' = [cancel EXCEPT ![r] = IF @ = "waiting" THEN "cancelled" ELSE @]
    /\ since' = Counted(since, r, Kept)
    /\ UNCHANGED <<marks, sent, copies, age, lost>>

\* The client of a run that was called for has left: cancelChatHub is called.
AskCancel(r) ==
    /\ cancel[r] = "no" /\ (callers[r] # {} \/ told[r] # {})
    /\ cancel' = [cancel EXCEPT ![r] = "asked"]
    /\ UNCHANGED <<active, done, marks, callers, sent, told, copies, historyVars>>

\* Mutant: an active run is confirmed without being aborted.
CancelUnheard(r) ==
    /\ cancel[r] = "asked"
    /\ cancel' = [cancel EXCEPT ![r] = IF active[r].on \/ IsDone(r) THEN "cancelled" ELSE "queued"]
    /\ marks' = IF active[r].on \/ IsDone(r) THEN marks ELSE Newest(Append(marks, r), Markers)
    /\ age' = IF active[r].on \/ IsDone(r) THEN age ELSE Counted(age, r, Markers)
    /\ UNCHANGED <<active, done, callers, sent, told, copies, since, lost>>

\* cancelChatHub: abort and wait, nothing to do, or leave a marker.
CancelChatHub(r) ==
    /\ cancel[r] = "asked"
    /\ \/ /\ active[r].on /\ active' = [active EXCEPT ![r].abort = TRUE]
          /\ cancel' = [cancel EXCEPT ![r] = "waiting"] /\ UNCHANGED <<marks, age>>
       \/ /\ ~active[r].on /\ IsDone(r)
          /\ cancel' = [cancel EXCEPT ![r] = "cancelled"] /\ UNCHANGED <<active, marks, age>>
       \/ /\ ~active[r].on /\ ~IsDone(r)
          /\ marks' = Newest(Append(marks, r), Markers) /\ age' = Counted(age, r, Markers)
          /\ cancel' = [cancel EXCEPT ![r] = "queued"] /\ UNCHANGED active
    /\ UNCHANGED <<done, callers, sent, told, copies, since, lost>>

\* The object is reset, also while it is idle: its memory is gone, and its callers'
\* calls fail.
RunnerReset ==
    /\ done # <<>> \/ marks # <<>> \/ \E r \in Run : active[r].on
    /\ active' = [r \in Run |-> NoRun] /\ done' = <<>> /\ marks' = <<>>
    /\ told' = [r \in Run |-> IF callers[r] = {} THEN told[r] ELSE told[r] \cup {"lost"}]
    /\ callers' = [r \in Run |-> {}]
    /\ cancel' = [r \in Run |-> IF cancel[r] \in {"asked", "waiting"} THEN "no" ELSE cancel[r]]
    /\ lost' = lost \cup {r \in Run : active[r].on \/ IsDone(r) \/ r \in ToSet(marks)}
    /\ UNCHANGED <<sent, copies, since, age>>

RunnerWorks == \E r \in Run : RunChatHub(r) \/ HubSubmits(r) \/ HubSettles(r) \/ CancelChatHub(r)

RunnerNext ==
    \/ RunnerWorks \/ RunnerReset
    \/ \E r \in Run : CallRunner(r) \/ Redelivered(r) \/ AskCancel(r)

RunnerSpec == RunnerInit /\ [][RunnerNext]_runnerVars

-----------------------------------------------------------------------------

\* The runner need not know the run any more: Kept outcomes came after its own,
\* it was reset, or the marker that stopped the run is used up.
Forgotten(r) == r \in lost \/ since[r] > Kept

\* A call that is lost with the runner tells its caller nothing.
Invocation ==
    INSTANCE ChatInvocation WITH
        told <- [r \in Run |-> told[r] \ {"lost"}],
        over <- {r \in Run : Forgotten(r)}

(* The runner keeps the promise of ChatInvocation under repeated, joined    *)
(* and overtaken calls: no second submission, and "not submitted" is final, *)
(* until Kept further outcomes, a reset or the use of the run's marker let  *)
(* runChatHub forget the run.                                               *)
RunnerKeepsPromise == Invocation!InvocationSpec

(* A cancellation that has been confirmed or queued is final: the run is    *)
(* not submitted afterwards, so its gate may go to another request.  A      *)
(* confirmed one stands until the run is forgotten, a queued one until its  *)
(* marker is used up, lost or pushed out by Markers younger ones.           *)
CancelledStaysDown ==
    [][\A r \in Run :
          /\ cancel[r] = "cancelled" => sent'[r] = sent[r] \/ Forgotten(r)
          /\ cancel[r] = "queued" => sent'[r] = sent[r] \/ r \in lost \/ age[r] > Markers]_runnerVars
=============================================================================
