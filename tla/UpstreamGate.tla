---------------------------- MODULE UpstreamGate ----------------------------
(***************************************************************************)
(* The per-account upstream gate of TenantState: a FIFO queue of waiters   *)
(* and one fenced lease per account (acquireUpstream, releaseUpstream,     *)
(* cancelUpstreamWaiter, expireUpstreamWaiters in tenant-state.ts), polled *)
(* by acquireUpstreamGate of openai.ts, while the account pool changes     *)
(* underneath.                                                             *)
(*                                                                         *)
(* A Caller is one call of acquireUpstreamGate with what follows it: it    *)
(* polls, is granted the lease, runs its upstream call and releases.  Its  *)
(* identity stands for both its waiter id and its lease id, which the code *)
(* draws at random; it is used again only when no row mentions it.         *)
(*                                                                         *)
(* Time is kept as what remains: an expiry column t of the code is modelled *)
(* by max(0, t - now), and Tick lets one unit pass everywhere.             *)
(*                                                                         *)
(* caller[c].pc:                                                           *)
(*   idle      nothing in progress                                         *)
(*   wait      between two polls                                           *)
(*   enter     inside acquireUpstream, at its await                        *)
(*   cancel    gave up; cancelUpstreamWaiter is still to be sent           *)
(*   run       granted; the upstream call is in flight                     *)
(*   lost      as run, but the Worker died: nobody will release            *)
(*   detached  the upstream call is in flight without its gate             *)
(*   ended     the call is over; releaseUpstream is still to be sent       *)
(***************************************************************************)
EXTENDS TenantPool, Sequences

CONSTANTS
    Caller,
    NoCaller,      \* an empty lease_id
    LeaseTime,     \* UPSTREAM_LEASE_MS
    Interval,      \* UPSTREAM_MIN_INTERVAL_MS
    WaiterTTL,     \* UPSTREAM_WAITER_TTL_MS
    PollTime,      \* longest time between two polls of one caller
    RunTime,       \* longest time from the grant to the end of the call
    Fallible,      \* accounts that may fail
    Deletable,     \* accounts the operator may delete and authorize again
    Imports,       \* accounts the operator may import again, one at a time
    SpreadSettings,\* values the operator gives to the spread switch
    MaxEpoch,      \* bound: route epochs
    MaxSeq         \* bound: account sequence numbers

ASSUME GateAssumption ==
    /\ NoCaller \notin Caller
    /\ LeaseTime \in Nat /\ Interval \in Nat /\ WaiterTTL \in Nat
    /\ PollTime \in Nat \ {0} /\ RunTime \in Nat /\ MaxEpoch \in Nat /\ MaxSeq \in Nat
    \* a call ends by the logical deadline of 10 minutes; the lease lasts 11
    /\ RunTime + Interval <= LeaseTime /\ RunTime < LeaseTime
    \* the Worker polls at least every 5 seconds, a waiter lives for 15
    /\ PollTime < WaiterTTL
    /\ Fallible \cup Deletable \cup Imports \subseteq Account
    /\ SpreadSettings \subseteq BOOLEAN

VARIABLES
    pool,     \* the account pool (TenantPool)
    gate,     \* upstream_gates, one row per account
    queue,    \* upstream_gate_waiters of each account in order of insertion
    caller,   \* the Worker side of each caller
    quiet     \* history: time left until Interval has passed since a call last
              \* let go of the account's gate row: it ended, or its cancellation
              \* timed out

vars == <<pool, gate, queue, caller, quiet>>

PC == {"idle", "wait", "enter", "cancel", "run", "lost", "detached", "ended"}

\* A waiter row: its id and the time left until expires_at.
Waiter == [id : Caller, left : Nat]

GateRow == [lease : Caller \cup {NoCaller}, left : Nat, next : Nat]

FreeGate == [lease |-> NoCaller, left |-> 0, next |-> 0]

CallerState ==
    [ pc    : PC,
      acct  : Account \cup {NoAccount},
      epoch : Nat,            \* routeEpoch of the selection
      timer : Nat ]           \* until the next poll, or the call's deadline

IdleCaller == [pc |-> "idle", acct |-> NoAccount, epoch |-> 0, timer |-> 0]

TypeOK ==
    /\ pool \in Pool
    /\ gate \in [Account -> GateRow]
    /\ queue \in [Account -> Seq(Waiter)]
    /\ caller \in [Caller -> CallerState]
    /\ quiet \in [Account -> Nat]

\* Every account of the instance is authorized and the first one is active.
Init ==
    /\ \E order \in [Account -> 1..Cardinality(Account)] :
          /\ \A a, b \in Account : order[a] = order[b] => a = b
          /\ pool = EnsureActiveAccountRoute(
                       [EmptyPool EXCEPT !.accounts = Account, !.seq = order,
                                         !.counter = Cardinality(Account)])
    /\ gate = [a \in Account |-> FreeGate]
    /\ queue = [a \in Account |-> <<>>]
    /\ caller = [c \in Caller |-> IdleCaller]
    /\ quiet = [a \in Account |-> 0]

-----------------------------------------------------------------------------
(* Helpers *)

\* Holds the gate while its upstream call is in flight.
Holding(c) == caller[c].pc \in {"run", "lost"}

\* Has an upstream call in flight, with or without the gate.
Running(c) == Holding(c) \/ caller[c].pc = "detached"

\* Caller c has a waiter row for account a.
Queued(a, c) == \E k \in DOMAIN queue[a] : queue[a][k].id = c

Referenced(c) == \E a \in Account : Queued(a, c) \/ gate[a].lease = c

\* The waiters of the accounts in "dropped" are deleted.
DropQueues(dropped) == [a \in Account |-> IF a \in dropped THEN <<>> ELSE queue[a]]

Set(c, s) == caller' = [caller EXCEPT ![c] = s]

\* routeRejection: the account is gone, or it no longer is the route under the
\* caller's epoch and is not a healthy spread lane either.
Admitted(q, a, e) ==
    /\ a \in q.accounts
    /\ IF q.active = a THEN q.epoch = e ELSE q.spread /\ AccountAvailable(q, a)

\* The pool after the ensureActiveAccountRoute call inside routeRejection.
RouteChecked(a) == IF a \in pool.accounts THEN EnsureActiveAccountRoute(pool) ELSE pool

\* The pool becomes q, within the bounds of the instance.
SetPool(q) == q.epoch <= MaxEpoch /\ q.counter <= MaxSeq /\ pool' = q

-----------------------------------------------------------------------------
(* The Worker and the gate *)

\* A selection made now: the active route, or a spread lane.
Start(c, a) ==
    /\ caller[c].pc = "idle" /\ ~Referenced(c)
    /\ a \in AvailableAccounts(pool)
    /\ pool.active = a \/ pool.spread
    /\ Set(c, [pc |-> "wait", acct |-> a, epoch |-> pool.epoch, timer |-> 0])
    /\ UNCHANGED <<pool, gate, queue, quiet>>

\* Mutant: abandoned waiters stay.
NeverExpired(line) == line

\* expireUpstreamWaiters
Unexpired(line) == SelectSeq(line, LAMBDA w : w.left > 0)

\* acquireUpstream up to its await: first check, expiry of waiters.
AcquireBegin(c) ==
    LET a == caller[c].acct
        q == RouteChecked(a)
        lines == DropQueues(RetiredBy(pool, q))
    IN  /\ caller[c].pc = "wait" /\ caller[c].timer = 0
        /\ SetPool(q)
        /\ \/ /\ Admitted(q, a, caller[c].epoch)
              /\ queue' = [b \in Account |-> Unexpired(lines[b])]
              /\ Set(c, [caller[c] EXCEPT !.pc = "enter"])
           \/ /\ ~Admitted(q, a, caller[c].epoch)
              /\ queue' = lines
              /\ Set(c, [caller[c] EXCEPT !.pc = "cancel"])
        /\ UNCHANGED <<gate, quiet>>

\* The queue "line" once caller c has upserted its waiter row: a known waiter is
\* renewed in its place, a new one is appended.
Enqueued(line, c) ==
    LET row == [id |-> c, left |-> WaiterTTL]
    IN  IF \E k \in DOMAIN line : line[k].id = c
        THEN [k \in DOMAIN line |-> IF line[k].id = c THEN row ELSE line[k]]
        ELSE Append(line, row)

Dequeued(line, c) == SelectSeq(line, LAMBDA w : w.id # c)

\* Mutant: only the lease blocks.
BlockedByLease(a) == gate[a].left > 0

\* A live lease or the spacing after the last release blocks the head.
Blocked(a) == gate[a].left > 0 \/ gate[a].next > 0

\* Mutant: the check before the await is trusted.
FirstCheckTrusted(q, c) == TRUE

\* The second routeRejection call, behind the await.
StillAdmitted(q, c) == Admitted(q, caller[c].acct, caller[c].epoch)

\* acquireUpstream after its await: the route is checked again, the waiter is
\* queued or renewed, and the head of an unblocked queue is granted the lease.
AcquireFinish(c) ==
    LET a == caller[c].acct
        q == RouteChecked(a)
        lines == DropQueues(RetiredBy(pool, q))
        line == Enqueued(lines[a], c)
        head == Head(line).id = c
    IN  /\ caller[c].pc = "enter"
        /\ SetPool(q)
        /\ \/ /\ ~StillAdmitted(q, c)
              /\ Set(c, [caller[c] EXCEPT !.pc = "cancel"])
              /\ queue' = lines
              /\ UNCHANGED gate
           \/ /\ StillAdmitted(q, c)
              /\ ~head \/ Blocked(a)
              /\ \E delay \in 1..PollTime : Set(c, [caller[c] EXCEPT !.pc = "wait", !.timer = delay])
              /\ queue' = [lines EXCEPT ![a] = line]
              /\ UNCHANGED gate
           \/ /\ StillAdmitted(q, c)
              /\ head /\ ~Blocked(a)
              /\ Set(c, [caller[c] EXCEPT !.pc = "run", !.timer = RunTime])
              /\ gate' = [gate EXCEPT ![a] = [lease |-> c, left |-> LeaseTime, next |-> gate[a].next]]
              /\ queue' = [lines EXCEPT ![a] = Dequeued(line, c)]
        /\ UNCHANGED quiet

\* The deadline passed or the client aborted between two polls.
GiveUp(c) ==
    /\ caller[c].pc = "wait"
    /\ Set(c, [caller[c] EXCEPT !.pc = "cancel"])
    /\ UNCHANGED <<pool, gate, queue, quiet>>

CancelUpstreamWaiter(c) ==
    LET a == caller[c].acct
    IN  /\ caller[c].pc = "cancel"
        /\ queue' = [queue EXCEPT ![a] = Dequeued(queue[a], c)]
        /\ Set(c, IdleCaller)
        /\ UNCHANGED <<pool, gate, quiet>>

RunEnds(c) ==
    /\ Running(c)
    /\ Set(c, IF caller[c].pc = "run" THEN [caller[c] EXCEPT !.pc = "ended"] ELSE IdleCaller)
    /\ quiet' = IF Holding(c) THEN [quiet EXCEPT ![caller[c].acct] = Interval] ELSE quiet
    /\ UNCHANGED <<pool, gate, queue>>

\* Mutant: the release does not compare lease ids.
ReleasedUnfenced(a, c) == [lease |-> NoCaller, left |-> 0, next |-> Interval]

\* The gate row after releaseUpstream with the lease id of c.
Released(a, c) ==
    IF gate[a].lease = c THEN [lease |-> NoCaller, left |-> 0, next |-> Interval] ELSE gate[a]

ReleaseUpstream(c) ==
    LET a == caller[c].acct
    IN  /\ caller[c].pc = "ended"
        /\ gate' = [gate EXCEPT ![a] = Released(a, c)]
        /\ Set(c, IdleCaller)
        /\ UNCHANGED <<pool, queue, quiet>>

\* UpstreamGateLifecycle.cancel stops waiting after five seconds and releases
\* the gate although the call has not unwound.
CancelTimesOut(c) ==
    LET a == caller[c].acct
    IN  /\ caller[c].pc = "run"
        /\ gate' = [gate EXCEPT ![a] = Released(a, c)]
        /\ Set(c, [caller[c] EXCEPT !.pc = "detached"])
        /\ quiet' = [quiet EXCEPT ![a] = Interval]
        /\ UNCHANGED <<pool, queue>>

\* The Worker dies, or its cleanup RPC fails: rows stay behind.  A call in flight
\* goes on in the durable runner.
WorkerLost(c) ==
    /\ caller[c].pc \in {"wait", "cancel", "run", "ended"}
    /\ Set(c, IF caller[c].pc = "run" THEN [caller[c] EXCEPT !.pc = "lost"] ELSE IdleCaller)
    /\ UNCHANGED <<pool, gate, queue, quiet>>

\* The object restarts while a caller is at the await of acquireUpstream.
ObjectRestarts ==
    /\ \E c \in Caller : caller[c].pc = "enter"
    /\ caller' = [c \in Caller |->
                    IF caller[c].pc = "enter" THEN [caller[c] EXCEPT !.pc = "cancel"] ELSE caller[c]]
    /\ SetPool(RestartPool(pool))
    /\ queue' = DropQueues(RetiredBy(pool, RestartPool(pool)))
    /\ UNCHANGED <<gate, quiet>>

-----------------------------------------------------------------------------
(* The pool changes underneath *)

\* A failure report, from whichever request or alarm.
AccountFails(a, kind) ==
    LET q == ReportAccountFailure(pool, a, kind, NoEpoch)
    IN  /\ a \in AvailableAccounts(pool)
        /\ SetPool(q)
        /\ queue' = DropQueues(RetiredByFailure(pool, a, kind, NoEpoch))
        /\ UNCHANGED <<gate, caller, quiet>>

AccountRecovers(a) ==
    /\ pool.health[a] = "cooldown"
    /\ pool' = CooldownElapsed(pool, a)
    /\ UNCHANGED <<gate, queue, caller, quiet>>

Activate(a) ==
    LET q == ActivateAccount(pool, a)
    IN  /\ q # pool
        /\ SetPool(q)
        /\ queue' = DropQueues(RetiredBy(pool, q))
        /\ UNCHANGED <<gate, caller, quiet>>

\* The gate row of account a is deleted under whoever holds it.
RowDropped(a) ==
    [c \in Caller |-> IF Holding(c) /\ caller[c].acct = a
                      THEN [caller[c] EXCEPT !.pc = "detached"] ELSE caller[c]]

Delete(a) ==
    LET q == DeleteAccount(pool, a)
    IN  /\ a \in pool.accounts
        /\ SetPool(q)
        /\ gate' = [gate EXCEPT ![a] = FreeGate]
        /\ queue' = DropQueues({a})
        /\ caller' = RowDropped(a)
        /\ quiet' = [quiet EXCEPT ![a] = 0]

Reauthorize(a) ==
    LET q == UpsertFinish(UpsertRow(pool, a), a, TRUE)
    IN  /\ a \notin pool.accounts /\ HasRoom(pool, a)
        /\ SetPool(q)
        /\ UNCHANGED <<gate, queue, caller, quiet>>

Import(a) ==
    LET q == ImportAccounts(pool, <<a>>, 1)
    IN  /\ ImportFits(pool, <<a>>)
        /\ SetPool(q)
        /\ gate' = [gate EXCEPT ![a] = FreeGate]
        /\ queue' = DropQueues({a} \cup RetiredBy(pool, q))
        /\ caller' = RowDropped(a)
        /\ quiet' = [quiet EXCEPT ![a] = 0]

SetSpread(enabled) ==
    /\ pool.spread # enabled
    /\ pool' = SetAccountSpreadEnabled(pool, enabled)
    /\ UNCHANGED <<gate, queue, caller, quiet>>

-----------------------------------------------------------------------------
Less(n) == IF n > 0 THEN n - 1 ELSE 0

\* One unit of time.  Nobody polls late, no call outlives its deadline, and the
\* await inside acquireUpstream does no I/O, so that no time passes in it.
Tick ==
    /\ \A c \in Caller : caller[c].pc # "enter"
    /\ \A c \in Caller : caller[c].pc = "wait" \/ Running(c) => caller[c].timer > 0
    /\ gate' = [a \in Account |->
                  [lease |-> gate[a].lease, left |-> Less(gate[a].left), next |-> Less(gate[a].next)]]
    /\ queue' = [a \in Account |->
                   [k \in DOMAIN queue[a] |-> [queue[a][k] EXCEPT !.left = Less(@)]]]
    /\ quiet' = [a \in Account |-> Less(quiet[a])]
    /\ caller' = [c \in Caller |-> [caller[c] EXCEPT !.timer = Less(@)]]
    /\ UNCHANGED pool

CallerStep(c) ==
    \/ \E a \in Account : Start(c, a)
    \/ AcquireBegin(c)
    \/ AcquireFinish(c)
    \/ GiveUp(c)
    \/ CancelUpstreamWaiter(c)
    \/ RunEnds(c)
    \/ ReleaseUpstream(c)
    \/ CancelTimesOut(c)
    \/ WorkerLost(c)

PoolStep ==
    \/ \E a \in Fallible : \E kind \in {"transient", "auth"} : AccountFails(a, kind)
    \/ \E a \in Account : AccountRecovers(a) \/ Activate(a)
    \/ \E a \in Deletable : Delete(a) \/ Reauthorize(a)
    \/ \E a \in Imports : Import(a)
    \/ \E enabled \in SpreadSettings : SetSpread(enabled)

Next == (\E c \in Caller : CallerStep(c)) \/ ObjectRestarts \/ PoolStep \/ Tick

Spec == Init /\ [][Next]_vars

\* Time passes, callers that are not lost poll on schedule, calls end and gates
\* are released; nobody is obliged to give up, and nothing else is fair.
Fairness ==
    /\ SF_vars(Tick)
    /\ \A c \in Caller :
          /\ WF_vars(AcquireBegin(c)) /\ WF_vars(AcquireFinish(c))
          /\ WF_vars(RunEnds(c)) /\ WF_vars(ReleaseUpstream(c))

FairSpec == Spec /\ Fairness

-----------------------------------------------------------------------------
(* Properties *)

\* Calls that still own their gate are serialized per account, through lease
\* expiry, lost Workers, late releases of an old lease and reuse of the row.
HoldersSerialized ==
    \A c, d \in Caller :
        Holding(c) /\ Holding(d) /\ caller[c].acct = caller[d].acct => c = d

\* Only a routable selection is granted a gate: at the moment of the grant the
\* account exists and is the route under the very epoch of the caller, or is a
\* healthy spread lane.  The second check behind the await is what keeps an
\* A -> B -> A switch from granting stale coordinates.
GrantsAreRouted ==
    [][\A c \in Caller :
          ~Running(c) /\ Running(c)'
          => Admitted(pool', caller[c].acct, caller[c].epoch)]_vars

\* A call starts at least Interval after every call that held the account's gate row
\* has let go of it, also when a Worker died before releaseUpstream and only the
\* expiry of the lease opens the gate.  Two things end a call's hold before the call
\* itself: the five-second timeout of UpstreamGateLifecycle.cancel, after which the
\* next call may start beside the one still unwinding, though not within Interval of
\* the timeout; and an operator who deletes or imports the account, with whose row
\* the pause goes too.
GrantsAreSpaced ==
    [][\A c \in Caller :
          ~Running(c) /\ Running(c)' => quiet[caller[c].acct] = 0]_vars

\* A caller that keeps polling leaves the queue: it is granted or rejected, whoever
\* is lost in front of it and whatever happens to the holder.
WaitersProceed ==
    \A c \in Caller :
        caller[c].pc \in {"wait", "enter"} ~> caller[c].pc \notin {"wait", "enter"}
=============================================================================
