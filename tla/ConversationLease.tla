------------------------- MODULE ConversationLease --------------------------
(***************************************************************************)
(* One logical conversation: the state row of its ChatSession object       *)
(* (chat-session.ts) and the turns of the Worker that work on it           *)
(* (acquireConversationLease, accountForLease, exchange and                *)
(* completeFinalTurn of openai.ts).  A turn takes the conversation lease,  *)
(* binds an account, runs an upstream invocation under the row's           *)
(* coordinates and commits its answer; every write is fenced by the lease  *)
(* id, and a turn that was superseded meanwhile learns it only there.      *)
(*                                                                         *)
(* Abstractions: a turn's identity is its lease id.  A pair of conversation *)
(* and session ids is one number, drawn from a counter.  The portable tail *)
(* is the set of turns whose answers it holds.  Which account a selection  *)
(* yields is left open (AccountRoute models it).                           *)
(*                                                                         *)
(* turn[t].pc:                                                             *)
(*   idle     has not got the conversation yet                             *)
(*   probe    in supersedeActive, asking the runner about the marked run   *)
(*   cas      in supersedeActive, told that the run is over                *)
(*   leased   owns the lease, accountForLease is next                      *)
(*   bound    has an account, waits for its gate                           *)
(*   marked   markUpstreamRun done, the runner is being called             *)
(*   running  runChatHub in progress                                       *)
(*   ran      the run returned, clearUpstreamRun is next                   *)
(*   failed   the run threw, clearUpstreamRun is next                      *)
(*   unwind   in exchange's catch block                                    *)
(*   result   has a result: guards, review and commit                      *)
(*   cleanup  failed; abandonIfActive is next                              *)
(*   done     over                                                         *)
(*   dead     its Worker vanished                                          *)
(***************************************************************************)
EXTENDS Naturals, FiniteSets

CONSTANTS
    Turn, NoTurn,
    Account, NoAccount,
    Mortal,      \* turns whose Worker may vanish
    Impatient,   \* turns whose client may disconnect from its stream
    Reviewed,    \* turns whose answer may be reviewed by a second exchange
    Lossy,       \* turns whose runner may be reset under the call
    MaxConv      \* bound: upstream conversations

ASSUME LeaseAssumption ==
    /\ NoTurn \notin Turn /\ NoAccount \notin Account
    /\ Mortal \cup Impatient \cup Reviewed \cup Lossy \subseteq Turn
    /\ MaxConv \in Nat \ {0}

VARIABLES
    st,      \* the state row
    turn,    \* the Worker side of each turn
    runner,  \* activeChatRuns of the runners: turns with a run in progress
    conv,    \* the conversations Microsoft knows
    drawn    \* coordinates drawn so far

vars == <<st, turn, runner, conv, drawn>>

PC == {"idle", "probe", "cas", "leased", "bound", "marked", "running", "ran", "failed",
       "unwind", "result", "cleanup", "done", "dead"}

Unused == 0                \* coordinates that no turn is given
Conv == {Unused} \cup 1..MaxConv
Run == Turn \X (1..3)      \* a run id: the turn and its number of exchanges
NoRun == <<>>

State ==
    [ conv : Conv,                      \* conversation_id, session_id
      acct : Account \cup {NoAccount},  \* account_id
      locked : BOOLEAN,                 \* account_locked
      committed : BOOLEAN,
      old : BOOLEAN,                    \* upstream_protocol_generation is a retired one
      lease : Turn \cup {NoTurn},       \* lease_id
      live : BOOLEAN,                   \* lease_until lies ahead
      tail : SUBSET Turn,               \* portable_protocol_tail
      run : Run \cup {NoRun} ]          \* active_upstream_*

NoState ==
    [conv |-> Unused, acct |-> NoAccount, locked |-> FALSE, committed |-> FALSE, old |-> FALSE,
     lease |-> NoTurn, live |-> FALSE, tail |-> {}, run |-> NoRun]

TurnState ==
    [ pc : PC,
      conv : Conv, acct : Account \cup {NoAccount},  \* the ChatLease object
      started : BOOLEAN, locked : BOOLEAN,
      base : SUBSET Turn,                            \* its portableProtocolTail
      exchange : 0..3,                               \* exchanges begun
      sent : BOOLEAN,                                \* this exchange was submitted
      told : {"no", "yes", "lost"},                  \* invocationSubmitted; lost: the runner never said
      moved : BOOLEAN,                               \* a second account was tried
      review : BOOLEAN,                              \* this exchange is a review
      saw : State ]                                  \* supersedeActive: the row it read

FirstTurn ==
    [pc |-> "idle", conv |-> Unused, acct |-> NoAccount, started |-> FALSE, locked |-> FALSE,
     base |-> {}, exchange |-> 0, sent |-> FALSE, told |-> "no", moved |-> FALSE, review |-> FALSE,
     saw |-> NoState]

\* What Microsoft holds under a pair of coordinates: who created it and which turns
\* were submitted to it.
Upstream == [acct : Account \cup {NoAccount}, log : SUBSET Turn]

TypeOK ==
    /\ st \in State
    /\ turn \in [Turn -> TurnState]
    /\ runner \subseteq Run
    /\ conv \in [1..MaxConv -> Upstream]
    /\ drawn \in Conv

Init ==
    /\ st = NoState
    /\ turn = [t \in Turn |-> FirstTurn]
    /\ runner = {}
    /\ conv = [c \in 1..MaxConv |-> [acct |-> NoAccount, log |-> {}]]
    /\ drawn = 0

-----------------------------------------------------------------------------
(* Helpers *)

\* Mutant: lease_until is not looked at.
BusyForever == st.lease # NoTurn

\* The lease of the row is held.
Busy == st.lease # NoTurn /\ st.live

\* The columns every release of the lease resets.
Unleased(s) == [s EXCEPT !.lease = NoTurn, !.live = FALSE, !.run = NoRun]

\* WHERE lease_id=?
Owns(t) == st.lease = t

\* WHERE lease_id=? AND account_id=?
OwnsBound(t) == Owns(t) /\ st.acct = turn[t].acct

Goto(t, pc) == turn' = [turn EXCEPT ![t].pc = pc]

\* New coordinates.
Fresh == drawn + 1
DrawOne == drawn < MaxConv /\ drawn' = Fresh

-----------------------------------------------------------------------------
(* Getting the conversation *)

\* The row once a retired protocol generation has been rolled over.
RolledOver(s) == IF s.old THEN [s EXCEPT !.committed = FALSE, !.old = FALSE] ELSE s

\* tryAcquire: a committed row is continued under its coordinates, any other one
\* gets new ones; an account survives if it is committed or locked.
Acquire(t) ==
    LET s == RolledOver(st)
        c == IF s.committed THEN s.conv ELSE Fresh
        a == IF s.committed \/ s.locked THEN s.acct ELSE NoAccount
    IN  /\ turn[t].pc = "idle" /\ ~Busy
        /\ IF s.committed THEN UNCHANGED drawn ELSE DrawOne
        /\ st' = [s EXCEPT !.conv = c, !.acct = a, !.lease = t, !.live = TRUE, !.run = NoRun]
        /\ turn' = [turn EXCEPT ![t] =
                      [FirstTurn EXCEPT !.pc = "leased", !.conv = c, !.acct = a,
                                        !.started = s.committed, !.locked = s.locked,
                                        !.base = s.tail]]
        /\ UNCHANGED <<runner, conv>>

\* The lease goes to t: new coordinates, and the account of the row s that was read is
\* kept if it was locked then.
TakeOver(t, s) ==
    LET a == IF s.locked THEN s.acct ELSE NoAccount
    IN  /\ DrawOne
        /\ st' = [st EXCEPT !.conv = Fresh, !.acct = a, !.lease = t, !.live = TRUE,
                            !.committed = FALSE, !.old = FALSE, !.run = NoRun]
        /\ turn' = [turn EXCEPT ![t] =
                      [FirstTurn EXCEPT !.pc = "leased", !.conv = Fresh, !.acct = a,
                                        !.locked = s.locked, !.base = s.tail]]
        /\ UNCHANGED <<runner, conv>>

\* supersedeActive(false) after the grace period: a lease without a marked run is
\* replaced at once, for a marked one the runner is asked.
SupersedeBegin(t) ==
    /\ turn[t].pc = "idle" /\ Busy
    /\ \/ st.run = NoRun /\ TakeOver(t, st)
       \/ /\ st.run # NoRun
          /\ turn' = [turn EXCEPT ![t].pc = "probe", ![t].saw = st]
          /\ UNCHANGED <<st, runner, conv, drawn>>

\* isChatHubRunActive of the run that was marked; an active run, or no answer, means
\* CONVERSATION_BUSY.
SupersedeProbe(t) ==
    /\ turn[t].pc = "probe"
    /\ \/ turn[t].saw.run \notin runner /\ Goto(t, "cas")
       \/ Goto(t, "done")
    /\ UNCHANGED <<st, runner, conv, drawn>>

\* The conditional update behind the await: it compares the lease, and lease_until with
\* the time of the call.
SupersedeEnd(t) ==
    /\ turn[t].pc = "cas"
    /\ \/ st.lease = turn[t].saw.lease /\ TakeOver(t, turn[t].saw)
       \/ /\ st.lease # turn[t].saw.lease
          /\ Goto(t, "done")
          /\ UNCHANGED <<st, runner, conv, drawn>>

-----------------------------------------------------------------------------
(* accountForLease *)

\* An account is bound to a lease that has none; the lease is read back from the row.
BindAccount(t, a) ==
    /\ turn[t].pc = "leased" /\ turn[t].acct = NoAccount
    /\ \/ /\ Owns(t) /\ st.acct \in {NoAccount, a}
          /\ st' = [st EXCEPT !.acct = a]
          /\ turn' = [turn EXCEPT ![t].pc = "bound", ![t].acct = a, ![t].exchange = 1,
                                  ![t].conv = st.conv, ![t].started = st.committed,
                                  ![t].locked = st.locked, ![t].base = st.tail]
       \/ /\ ~(Owns(t) /\ st.acct \in {NoAccount, a})
          /\ Goto(t, "cleanup")
          /\ UNCHANGED st
    /\ UNCHANGED <<runner, conv, drawn>>

\* The account of the lease can be used.
KeepAccount(t) ==
    /\ turn[t].pc = "leased" /\ turn[t].acct # NoAccount
    /\ turn' = [turn EXCEPT ![t].pc = "bound", ![t].exchange = 1]
    /\ UNCHANGED <<st, runner, conv, drawn>>

\* Mutant: the coordinates of the old account are kept.
ReboundInPlace(t, a) == [st EXCEPT !.acct = a, !.committed = FALSE, !.locked = FALSE]

\* The row after rebindCommittedAccount.
Rebound(t, a) ==
    [st EXCEPT !.conv = Fresh, !.acct = a, !.committed = FALSE, !.locked = FALSE]

\* rebindCommittedAccount: the portable context moves to another account, under
\* new coordinates.
Rebind(t, a) ==
    /\ a # turn[t].acct
    /\ OwnsBound(t) /\ st.locked /\ st.tail # {}
    /\ DrawOne
    /\ st' = Rebound(t, a)
    /\ turn' = [turn EXCEPT ![t].pc = "bound", ![t].acct = a, ![t].conv = st'.conv,
                            ![t].started = FALSE, ![t].locked = FALSE,
                            ![t].moved = turn[t].pc = "unwind", ![t].exchange = @ + 1]
    /\ UNCHANGED <<runner, conv>>

\* The account is asleep and the lease is locked to it, with something portable.
RebindOnEntry(t, a) ==
    /\ turn[t].pc = "leased" /\ turn[t].acct # NoAccount
    /\ turn[t].locked /\ turn[t].base # {}
    /\ Rebind(t, a)

\* release: the lease is given back and the row stays as it is.
Release(t) == st' = IF Owns(t) THEN Unleased(st) ELSE st

\* No account can be used, or preparing the request failed.
GiveUp(t) ==
    /\ turn[t].pc = "leased"
    /\ Release(t)
    /\ Goto(t, "done")
    /\ UNCHANGED <<runner, conv, drawn>>

-----------------------------------------------------------------------------
(* exchange *)

\* The gate is refused, or the request is aborted in front of it.
GateFails(t) ==
    /\ turn[t].pc = "bound"
    /\ turn' = [turn EXCEPT ![t].pc = "unwind", ![t].sent = FALSE, ![t].told = "no"]
    /\ UNCHANGED <<st, runner, conv, drawn>>

MarkUpstreamRun(t) ==
    /\ turn[t].pc = "bound"
    /\ \/ /\ OwnsBound(t)
          /\ st' = [st EXCEPT !.run = <<t, turn[t].exchange>>]
          /\ turn' = [turn EXCEPT ![t].pc = "marked", ![t].sent = FALSE, ![t].told = "no"]
       \/ /\ ~OwnsBound(t)
          /\ turn' = [turn EXCEPT ![t].pc = "unwind", ![t].sent = FALSE, ![t].told = "no"]
          /\ UNCHANGED st
    /\ UNCHANGED <<runner, conv, drawn>>

\* The runner gets the call; a cancellation may have come before it.
RunStarts(t) ==
    /\ turn[t].pc = "marked"
    /\ \/ runner' = runner \cup {<<t, turn[t].exchange>>} /\ Goto(t, "running")
       \/ UNCHANGED runner /\ Goto(t, "failed")
    /\ UNCHANGED <<st, conv, drawn>>

\* The invocation reaches Microsoft, also when the Worker is gone by now.
Submits(t) ==
    /\ <<t, turn[t].exchange>> \in runner /\ ~turn[t].sent
    /\ conv' = [conv EXCEPT ![turn[t].conv] =
                  [acct |-> IF @.acct = NoAccount THEN turn[t].acct ELSE @.acct,
                   log |-> @.log \cup {t}]]
    /\ turn' = [turn EXCEPT ![t].sent = TRUE]
    /\ UNCHANGED <<st, runner, drawn>>

\* markAccountLocked before the first visible delta.
MarkAccountLocked(t) ==
    /\ turn[t].pc = "running" /\ turn[t].sent /\ ~turn[t].locked /\ ~turn[t].review
    /\ OwnsBound(t)
    /\ st' = [st EXCEPT !.locked = TRUE]
    /\ turn' = [turn EXCEPT ![t].locked = TRUE]
    /\ UNCHANGED <<runner, conv, drawn>>

\* Its failure says whether it was submitted; an aborted run counts as submitted.
RunFails(t) ==
    \E told \in IF turn[t].sent THEN {"yes"} ELSE {"no", "yes"} :
        turn' = [turn EXCEPT ![t].pc = "failed", ![t].told = told]

\* The run is over: only one that was submitted can have a result.
RunEnds(t) ==
    /\ <<t, turn[t].exchange>> \in runner
    /\ runner' = runner \ {<<t, turn[t].exchange>>}
    /\ \/ /\ turn[t].pc = "running" /\ turn[t].sent
          /\ turn' = [turn EXCEPT ![t].pc = "ran", ![t].told = "yes"]
       \/ turn[t].pc = "running" /\ RunFails(t)
       \/ turn[t].pc = "dead" /\ UNCHANGED turn
    /\ UNCHANGED <<st, conv, drawn>>

\* The runner object is reset: its run dies with it and the call fails with an error
\* that is no ChatHubAttemptError.
RunnerIsReset(t) ==
    /\ t \in Lossy /\ turn[t].pc = "running"
    /\ runner' = runner \ {<<t, turn[t].exchange>>}
    /\ turn' = [turn EXCEPT ![t].pc = "failed", ![t].told = "lost"]
    /\ UNCHANGED <<st, conv, drawn>>

\* clearUpstreamRun is best effort.  A result whose account lock was refused is a
\* failure as well.
ClearUpstreamRun(t) ==
    /\ turn[t].pc \in {"ran", "failed"}
    /\ \/ st' = IF Owns(t) /\ st.run = <<t, turn[t].exchange>> THEN [st EXCEPT !.run = NoRun] ELSE st
       \/ st' = st
    /\ \/ turn[t].pc = "ran" /\ Goto(t, "result")
       \/ turn[t].pc = "ran" /\ ~turn[t].locked /\ ~turn[t].review /\ ~OwnsBound(t) /\ Goto(t, "unwind")
       \/ turn[t].pc = "failed" /\ Goto(t, "unwind")
    /\ UNCHANGED <<runner, conv, drawn>>

\* Mutant: a failover is allowed whether or not the invocation was submitted.
FailOverAlways(t) == ~turn[t].started /\ ~turn[t].locked /\ ~turn[t].moved

\* mayFailOverExchange and shouldRetryAccountRouteChanged for a new conversation.
MayFailOver(t) == ~turn[t].started /\ ~turn[t].locked /\ ~turn[t].moved /\ turn[t].told = "no"

\* switchUncommittedAccount: the same turn goes on with another account.
FailOver(t, a) ==
    /\ turn[t].pc = "unwind" /\ MayFailOver(t) /\ a # turn[t].acct
    /\ \/ /\ OwnsBound(t) /\ ~st.committed /\ ~st.locked
          /\ DrawOne
          /\ st' = [st EXCEPT !.conv = Fresh, !.acct = a]
          /\ turn' = [turn EXCEPT ![t].pc = "bound", ![t].acct = a, ![t].conv = Fresh,
                                  ![t].exchange = @ + 1, ![t].moved = TRUE]
       \/ /\ ~(OwnsBound(t) /\ ~st.committed /\ ~st.locked)
          /\ Release(t)
          /\ Goto(t, "cleanup")
          /\ UNCHANGED drawn
    /\ UNCHANGED <<runner, conv>>

\* The route moved away from a conversation with portable history.
FollowRoute(t, a) ==
    /\ turn[t].pc = "unwind" /\ turn[t].told = "no" /\ ~turn[t].moved /\ ~turn[t].review
    /\ turn[t].base # {}
    /\ turn[t].started \/ turn[t].locked
    /\ \/ Rebind(t, a)
       \/ /\ a # turn[t].acct
          /\ ~(OwnsBound(t) /\ st.locked /\ st.tail # {})
          /\ Release(t)
          /\ Goto(t, "cleanup")
          /\ UNCHANGED <<runner, conv, drawn>>

\* Mutant: the coordinates survive a submitted invocation.
NotTombstoned(s, t) == [Unleased(s) EXCEPT !.tail = turn[t].base, !.locked = TRUE]

\* The row after abandonFailedUpstream: other coordinates, which are not committed, so
\* that no turn gets them; the account stays locked.
Tombstoned(s, t) ==
    [Unleased(s) EXCEPT !.conv = Unused, !.committed = FALSE, !.tail = turn[t].base, !.locked = TRUE]

\* exchange gives up.  A submitted invocation is tombstoned, any other one leaves
\* the row to the next turn.  A failed review does not end its turn.
ExchangeFails(t) ==
    /\ turn[t].pc = "unwind"
    /\ \/ turn[t].told = "yes" /\ st' = IF Owns(t) THEN Tombstoned(st, t) ELSE st
       \/ turn[t].told # "yes" /\ Release(t)
    /\ Goto(t, IF turn[t].review THEN "result" ELSE "cleanup")
    /\ UNCHANGED <<runner, conv, drawn>>

-----------------------------------------------------------------------------
(* The end of a turn *)

\* A second exchange in the same conversation reviews the answer.
Review(t) ==
    /\ turn[t].pc = "result" /\ t \in Reviewed /\ ~turn[t].review
    /\ turn' = [turn EXCEPT ![t].pc = "bound", ![t].review = TRUE, ![t].started = TRUE,
                            ![t].exchange = @ + 1]
    /\ UNCHANGED <<st, runner, conv, drawn>>

\* The row after completeFinal.
Completed(t) ==
    [Unleased(st) EXCEPT !.conv = turn[t].conv, !.committed = TRUE, !.locked = TRUE,
                         !.tail = turn[t].base \cup {t}]

CompleteFinal(t) ==
    /\ turn[t].pc = "result"
    /\ \/ OwnsBound(t) /\ st' = Completed(t) /\ Goto(t, "done")
       \/ ~OwnsBound(t) /\ UNCHANGED st /\ Goto(t, "cleanup")
    /\ UNCHANGED <<runner, conv, drawn>>

\* completeCheckpoint: the answer is kept, the upstream conversation is not.
CompleteCheckpoint(t) ==
    /\ turn[t].pc = "result" /\ OwnsBound(t)
    /\ st' = [Completed(t) EXCEPT !.conv = Unused, !.committed = FALSE]
    /\ Goto(t, "done")
    /\ UNCHANGED <<runner, conv, drawn>>

\* A guard rejects the answer, or the client went away.
GuardFails(t) ==
    /\ turn[t].pc = "result"
    /\ Goto(t, "cleanup")
    /\ UNCHANGED <<st, runner, conv, drawn>>

\* The checkpoint the turn started from, on unchanged coordinates that are not
\* committed any more.
Restored(s, t) == [Unleased(s) EXCEPT !.committed = FALSE, !.tail = turn[t].base]

\* Mutant: abandon instead of abandonIfActive, which also undoes a completed turn.
AbandonedAfterAll(s, t) == IF s.lease \in {t, NoTurn} THEN Restored(s, t) ELSE s

\* The row after abandonIfActive.
AbandonedIfActive(s, t) == IF s.lease = t THEN Restored(s, t) ELSE s

\* abandonUnseenTurn
Cleanup(t) ==
    /\ turn[t].pc = "cleanup"
    /\ st' = AbandonedIfActive(st, t)
    /\ Goto(t, "done")
    /\ UNCHANGED <<runner, conv, drawn>>

\* The client leaves its stream: createStreamCancellation abandons the turn at once,
\* while the turn itself is still unwinding, or has just committed.
ClientLeaves(t) ==
    /\ t \in Impatient
    /\ turn[t].pc \notin {"idle", "probe", "cas", "leased", "dead"}
    /\ AbandonedIfActive(st, t) # st
    /\ st' = AbandonedIfActive(st, t)
    /\ UNCHANGED <<turn, runner, conv, drawn>>

\* The Worker of a turn vanishes; a run goes on in its runner.
WorkerDies(t) ==
    /\ t \in Mortal
    /\ turn[t].pc \notin {"idle", "probe", "cas", "done", "dead"}
    /\ Goto(t, "dead")
    /\ UNCHANGED <<st, runner, conv, drawn>>

\* CHAT_LEASE_MS exceeds the logical deadline, so the lease of a turn that is still
\* at work does not expire.
OwnerIsGone ==
    /\ turn[st.lease].pc \in {"done", "dead"}
    /\ <<st.lease, turn[st.lease].exchange>> \notin runner

LeaseExpires ==
    /\ Busy /\ OwnerIsGone
    /\ st' = [st EXCEPT !.live = FALSE]
    /\ UNCHANGED <<turn, runner, conv, drawn>>

\* expireIfIdle after thirty days without a turn.
ExpireIfIdle ==
    /\ st # NoState /\ ~Busy
    /\ \A t \in Turn : turn[t].pc \in {"idle", "done", "dead"}
    /\ runner = {}
    /\ st' = NoState
    /\ UNCHANGED <<turn, runner, conv, drawn>>

\* A deployment retires the protocol generation of the row.
ProtocolChanges ==
    /\ st # NoState /\ ~st.old
    /\ st' = [st EXCEPT !.old = TRUE]
    /\ UNCHANGED <<turn, runner, conv, drawn>>

\* What a turn does by itself once it owns the lease.
Proceeds(t) ==
    \/ KeepAccount(t) \/ GiveUp(t) \/ MarkUpstreamRun(t) \/ GateFails(t) \/ RunStarts(t)
    \/ RunEnds(t) \/ ClearUpstreamRun(t) \/ ExchangeFails(t)
    \/ CompleteFinal(t) \/ GuardFails(t) \/ Cleanup(t)

Next ==
    \/ \E t \in Turn :
          \/ Acquire(t)
          \/ SupersedeBegin(t) \/ SupersedeProbe(t) \/ SupersedeEnd(t)
          \/ \E a \in Account : BindAccount(t, a) \/ RebindOnEntry(t, a) \/ FailOver(t, a) \/ FollowRoute(t, a)
          \/ Proceeds(t)
          \/ Submits(t) \/ MarkAccountLocked(t) \/ RunnerIsReset(t)
          \/ Review(t) \/ CompleteCheckpoint(t)
          \/ ClientLeaves(t) \/ WorkerDies(t)
    \/ LeaseExpires \/ ExpireIfIdle \/ ProtocolChanges

Spec == Init /\ [][Next]_vars

\* A turn that is not dead goes on, a run ends, an abandoned lease expires.
Fairness == (\A t \in Turn : WF_vars(Proceeds(t))) /\ WF_vars(LeaseExpires)

FairSpec == Spec /\ Fairness

-----------------------------------------------------------------------------
(* Properties *)

\* A commit extends exactly the context its turn was given: no answer that another
\* turn committed meanwhile is lost, and none is committed twice.  And "a late
\* disconnect cannot erase a committed response" (createStreamCancellation): an answer
\* stays in the portable context until the conversation expires.
NoLostUpdate ==
    [][/\ \A t \in Turn :
            t \in st'.tail \ st.tail => st'.tail = turn[t].base \cup {t} /\ turn[t].base = st.tail
       /\ st.tail \subseteq st'.tail \/ st' = NoState]_vars

\* A Microsoft conversation belongs to the account that created it: no turn is
\* submitted to it with another one, through failover, rebinding, supersession and
\* rollover.
ConversationKeepsAccount ==
    \A t \in Turn :
        <<t, turn[t].exchange>> \in runner =>
            conv[turn[t].conv].acct \in {NoAccount, turn[t].acct}

\* A turn is never submitted to two conversations: neither failover nor a retry after
\* a moved route repeats an invocation that Microsoft has received.
NoDoubleSubmission ==
    \A t \in Turn : \A c, d \in 1..MaxConv : t \in conv[c].log /\ t \in conv[d].log => c = d

\* A turn that may give its lease back, or leave it, without knowing that its invocation
\* was submitted: its Worker vanished, its runner was reset under the call, or it runs a
\* second exchange and the first one was submitted.
CutOff(t) == turn[t].pc = "dead" \/ turn[t].review \/ turn[t].told = "lost"

\* The comment in exchange's catch block: a half-turn that the client never received
\* is never continued.  A run starts in a conversation that holds nothing but answers
\* of its turn's own context, and half-turns that were cut off: those the code does
\* continue, for their coordinates stay committed, and every other one it does not,
\* also among turns that were cut off.
NoHalfTurnContinued ==
    \A t \in Turn :
        <<t, turn[t].exchange>> \in runner /\ ~turn[t].sent =>
            \A u \in conv[turn[t].conv].log \ (turn[t].base \cup {t}) : CutOff(u)

\* The comment of supersedeActive: callers that retry do not displace a turn that
\* Microsoft is running.
RunningTurnKept ==
    [][\A t \in Turn :
          st.lease # NoTurn /\ st.live /\ st'.lease = t /\ st.lease # t =>
              <<st.lease, turn[st.lease].exchange>> \notin runner]_vars

\* No lease blocks its conversation for ever, whether its turn fails, is cancelled or
\* loses its Worker.
LeaseIsFreed ==
    \A t \in Turn : (Busy /\ st.lease = t) ~> ~(Busy /\ st.lease = t)
=============================================================================
