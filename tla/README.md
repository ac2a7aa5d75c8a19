# A TLA+ model of M365-Gateway

M365-Gateway is a Cloudflare Worker that offers OpenAI- and Anthropic-compatible
endpoints on top of Microsoft 365 accounts. Its state lives in Durable Objects, its
backups in KV and R2, and its upstream is a WebSocket protocol (ChatHub) of which every
invocation counts. What can go wrong lies between the awaits: a route that moves while a
credential is being read, a lease that changes hands while a runner is being asked, a KV
write that takes effect after its account is gone. This directory models those parts,
checks them with TLC on small instances and proves most of their safety properties with TLAPS.

## 1. Inventory

The execution model that all modules share: the SQL of a Durable Object is synchronous, so
that what a handler does between two awaits of I/O is one atomic step; an await of
`ctx.storage` keeps other events out, every other await (fetch, KV, crypto, a call to
another object) lets them in; maps in memory are lost with an eviction, SQL and the alarm
are not. A Worker invocation can vanish between any two of its calls.

| Component | State | Operations | Hard behaviour | What makes it correct |
|---|---|---|---|---|
| Account pool and route (`tenant-state.ts`) | account rows, health, sequence numbers, active account, epoch, spread switch and cursor | selectAccount, selectSpreadAccount, selectBoundSpreadAccount, reportAccountFailure / Success, upsert, activate, delete, import | selections, refreshes and reports interleave at awaits; late results | the route is usable, order is total, results of an old epoch are ignored |
| Upstream gate (`tenant-state.ts`, `openai.ts`, `upstream-lifecycle.ts`) | a lease and a pause per account, a FIFO of waiters | acquireUpstream, cancelUpstreamWaiter, releaseUpstream, expiry | polling callers, dead Workers, late releases, a moving route | one holder per account, spaced calls, no stale waiters, progress |
| Credential mirror (`tenant-state.ts`) | ciphertexts, revisions, mirror and deletion queues, one alarm, KV | upsert, delete, import, readAccountToken, flushes, alarm | KV calls of unknown outcome, eviction, re-authorization | KV converges to the rows, nothing is left behind, nothing is stranded |
| Conversation and turn (`chat-session.ts`, `openai.ts`) | one row: coordinates, account, lock, commit flag, lease, portable tail, run marker | acquire, supersede, bind, rebind, fail over, lock, commit, checkpoint, tombstone, abandon, expire | retries displace turns, clients leave, Workers and runners are lost | no answer is lost, no invocation repeated, no half-turn continued |
| ChatHub runner (`chat-session.ts`) | active, completed and cancelled runs in memory | runChatHub, cancelChatHub, isChatHubRunActive | duplicate and overtaking calls, bounded maps, resets | one submission per run id, "not submitted" is final, while the run is remembered |
| Response aliases (`chat-session.ts`, `openai.ts`) | registry rows, alias rows, branches | register, seed, publish, revoke, evict, unregister, checkout, expiry | three-step admission over two objects, quotas, busy victims, retries | quotas hold, a visible alias goes for a reason only, every seed is resolved |
| Terminal delivery (`openai.ts`) | one object shared by two pumps and two cancel callbacks | claim, markCommitted, stage, deliverInner, deliverBridge, cancel | clients that leave or stall at any await, failing publication | a completed response can be continued, a client that stays hears one outcome |
| ChatHub client (`chathub.ts`) | one connection, its bounded queue, two deadlines | upload, dial, handshake, send, read, retry | retry after submission, a socket that breaks with frames queued, heartbeats | one submission, a truthful report, frames received are used, the call ends |
| Cold archive (`r2-archive.ts`, `chat-session.ts`) | outbox rows, uploads, the alarm | enqueue, flush, retry, alarm, clear | alarm shared with expiry, awaits around deleteAll, restarts | no copy and no live row is deleted, storage is reclaimed |
| Assistant turn (`openai.ts`, `completion-evidence.ts`) | the candidate answer and its way through the stages | exchange, review, resolveFunctionCall, checkpoint | stages replace an answer that others have examined | bounded submissions, every call guarded, supported answers |
| Tool ledger (`tool-ledger.ts`, `openai.ts`) | calls, results and failures of a conversation, a bounded snapshot of them | parse, restore, preflight, guard, snapshot | clients replay all, some or none of the history; replies get lost | loops are cut, a run counts once, an honest client is served |
| Metrics, administration, keys, OAuth states, migration envelope, cloud cleanup, egress relay, portable context | small tables, caches | see `PROJECT.json` | concurrent logins, duplicated metrics, shrinking lists, full caches | counted once, used once |

The parts call each other in this order: a handler of `openai.ts` takes the conversation lease
(`ChatSession`), selects an account (`TenantState`), waits for the account's gate
(`TenantState`), marks its run in the row and calls the account's runner (another `ChatSession`
object), reports the outcome to the pool, lets the answer pass the stages of the turn and the
tool ledger, commits to the row, seeds an alias for the response id and delivers the last event;
the row's object archives what was committed. Shared state is the pool, the gate and the row;
the callbacks are the alarm of each object and the cancellation of a stream. `PROJECT.json`
lists every component with its status, and every hazard at its line.

## 2. Modules

| Module | Models | Composed of |
|---|---|---|
| `TenantPool` | the pool as a record and each operation of `TenantState` as a function on it | |
| `AccountRoute` | requests, renewal alarm, OAuth callbacks and operator around one pool | `TenantPool` |
| `UpstreamGate` | callers, queues, gate rows and time | `TenantPool` |
| `CredentialMirror` | rows, queues, operation chains, KV, alarm | |
| `ConversationLease` | the row of a conversation, its turns, the runner, Microsoft's conversations | |
| `ChatInvocation` | abstract: what a runner of invocations promises | |
| `ChatRunner` | the runner object, its maps and callers | implements `ChatInvocation` |
| `ChatHub` | one call over a WebSocket | implements `ChatInvocation` |
| `ResponseAlias` | alias objects and their registry | |
| `TerminalDelivery` | the end of one Responses stream | |
| `R2Archive` | outbox, alarm and expiry of one session object | |
| `AssistantTurn` | the stages of one turn | |
| `ToolLedger` | the ledger from turn to turn, for four kinds of client | |
| `MCServices`, `MCTools` | several of these in one state space, one at a time (`part`) | |
| `TenantPoolProofs`, `AccountRouteProofs`, `UpstreamGateProofs`, `CredentialMirrorProofs`, `ConversationLeaseProofs`, `AssistantTurnProofs` | lemmas and theorems about the module they are named after | that module |
| `ChatInvocationProofs` | the two refinements and the theorems about `ChatHub` and `ChatRunner` | both |
| `ResponseProofs` | theorems about what outlives a response: its last event, its alias, its archive | `TerminalDelivery`, `ResponseAlias`, `R2Archive` |
| other `MC*` | instances for TLC | |

**TenantPool.** `Pool` holds the columns that routing reads. `EnsureActiveAccountRoute`,
`AdvanceActiveAccount`, `ReportAccountFailure` and the others carry the names of their
methods. Times are abstracted: a cooldown ends at some moment (`CooldownElapsed`), however
long it was to last. `RetiredBy` gives the accounts whose waiters `storeActiveAccountRoute`
deletes; the waiters themselves live in `UpstreamGate`.

**AccountRoute.** An actor is a request, the alarm or an OAuth callback; an action is what
it does between two awaits of `ensureValidAccount`, `readAccountToken` and
`upsertAccount`. The single-flight map of token refreshes is over-approximated: every
actor refreshes for itself.

**UpstreamGate.** A `Caller` is one call of `acquireUpstreamGate` and the upstream call
behind it. Time is what remains (`left`, `next`, `timer`), one `Tick` takes a unit off
everything, and the assumptions `RunTime + Interval <= LeaseTime` and
`PollTime < WaiterTTL` are the relations of the constants in the code (10 against 11
minutes, 5 against 15 seconds). `quiet` is a history variable: the time since a call last let go of
the account's gate row. When the operator drops the
row of an account (`RowDropped`) its holder goes on `detached`: its call is in flight and
nobody knows.

**CredentialMirror.** Ciphertexts are numbered in the order they are produced. Each
account has the chain of operations that `enqueueCredentialMirrorOperation` builds, and at
most one KV call in flight, which may fail with or without effect. A call in flight at an
eviction has landed or never will. A transaction and the `setAlarm` behind it are one step
(there is no other await between them), and `setAlarm` does not fail. The alarm's batch of
32 is abstracted to all due rows, deletions first.

**ConversationLease.** `st` is the row, `turn[t]` the local variables of a handler, with
`turn[t].saw` the row that `supersedeActive` read before it asked the runner, `runner` the
runs in progress, `conv` what Microsoft holds. A pair of coordinates is a number; those
of an uncommitted row are never given to a turn and all are `Unused`. The lease of 15
minutes outlasts the logical deadline of 10, so a lease expires only when its turn is over
or its Worker vanished (`OwnerIsGone`). `exchange` is followed through its catch block: what it
believes about submission (`told`) is kept apart from what happened (`sent`). Only rows of
kind `stable` are modelled; for a `response_work` row `release` and `abandon` also delete the row.

**ChatInvocation, ChatRunner, ChatHub.** `ChatInvocation` is the promise that `exchange` relies
on when it fails over: an invocation reaches Microsoft at most once, all its callers hear the
same, and "not submitted" is said exactly when nothing was, until the run is forgotten (`over`).
`ChatRunner` implements it with the three maps of the runner object, under calls that are
delivered twice, cancellations that overtake their run, and resets; a duplicate may arrive when
the run is forgotten, and history variables (`since`, `age`, `lost`) say when it is; it takes
`chatHub` as an invocation that keeps the promise. `ChatHub` shows that it does, across two
attempts, with `wrote` counting what was sent on a socket and `hub.hist` the history that
`preserveChatHubSubmissionHistory` carries. Both refinements are `INSTANCE ChatInvocation WITH`
the mapping at the end of the module. Frames are kinds (`Frame`), and one WebSocket message
holds one record.

**ResponseAlias.** `rows` are the alias objects, `reg` the registry in sequence order,
`seeder` the request behind each alias, `lock` the registry's `blockConcurrencyWhile` with
the victims still to be evicted. Any call between objects can fail before or after its
effect. Of an expiry a row keeps whether it has passed. The aliases of the start (`Legacy`) are
within the quotas, since they went through the same registry.

**TerminalDelivery.** `d` is the closure of `createResponsesTerminalDelivery`; `inner` and
`bridge` are the positions of the two pumps, named in the module's head; `leaving` the cancel
callbacks under way. Continuations of a promise that only take microtasks are atomic, calls
to the alias object are steps of their own and may fail.

**R2Archive.** Deadlines are ticks that remain. `writes` are the pending writes between
encryption and insert, `upload` the one flush in flight, `handler` and `caller` the two
methods that clear the storage and where they await. The object is a conversation or the
branch of one response (`branch`), which is acquired once and whose `release` deletes it. A
turn may commit after its lease has run out, as long as nobody took it, and a tail may be
promoted after the commit: `CommitTurn` asks only for the row. The R2 calls have no timeout of
their own; that the writes behind a commit end within the hour of its TTL is the assumption
`UploadTime < Ttl`, with `patience` the time they have left. A crash keeps `hot`, `outbox` and
`alarm` and loses the rest.

**AssistantTurn.** An answer is what the text predicates of `openai.ts` say of it, and a
proposed call is fresh, repeated, an image again or foreign; which of them Microsoft sends is
chosen freely at every exchange. `Stages` is the pipeline in source order, for routed and for
direct mode; `job` is `resolveFunctionCall` in progress. The verdict of
`evaluateCompletionEvidence` is an attribute of the answer.

**ToolLedger.** `executed` is what the client really ran, and the ledger knows of it only
through the snapshot (`stored`) and what the client sends again: the four kinds of client
(`Clients`) differ in that. A turn builds its ledger (`Restored`, replayed items,
`toolLedgerPreflight`), proposes a call, and the guard decides. Replies can be lost, and the
client then repeats its request.

## 3. Runs

Bounds are in the cfgs. The epochs, sequence numbers, ciphertexts, keys and conversations
are counters without limit in the code; the models stop drawing new ones at `MaxEpoch`,
`MaxSeq`, `MaxVer`, `MaxKey` and `MaxConv`.

| Run | Instance | Checks |
|---|---|---|
| route_single | 2 requests, 2 accounts, cooldowns, imports, session spread switched on at any moment | usable route, epoch fence, late failures and successes change nothing (`LateResultsAreFenced`), a selection is current when handed out |
| route_failover | 1 request beside the renewal alarm or an OAuth callback, 3 accounts, cooldowns and isolation, deletions, and imports of one account or of two that push the others back | at most two accounts per request, no healthy account skipped, at every await of upsertAccount; distinct sequence numbers under every mixture of appends, deletions, shifts and re-imports |
| gate_route | 3 callers, 2 accounts, lost Workers, cancellations that time out, a moving route, one account deleted, authorized again and imported | one holder, routed and spaced grants |
| gate_live | 2 polling callers under fairness, deletions, imports, spread | every waiter is granted or rejected |
| mirror_delete | 1 account, authorized and deleted repeatedly, under fairness | nothing left behind in KV and a live key kept (`KvMatchesAccounts`), every job done in the end |
| mirror_current | 2 accounts that share the alarm, imports, a legacy row | KV is current whenever no job is pending, ciphertexts never go back |
| lease_fence | 3 turns, 2 accounts, leaving clients, lost Workers | committed answers stay and none is overwritten (`NoLostUpdate`), no conversation changes accounts, no double submission, no half-turn continued but that of a turn that was cut off |
| lease_freed | 2 turns, lost Workers, reset runners, reviews, under fairness | no lease blocks its conversation for ever |
| services | five parts, each by itself: a delivery; 3 aliases under quotas of 1; a runner with 2 runs, a call of which may arrive once more at any time, also after the run is forgotten; one call over a WebSocket; a session or a branch with its archive, 4 calls and 1 restart | delivery: `CompletedIsResumable`, `StagedIsPublished`, `ClientHears`; alias: `VisibleBounded`, `ForgottenForAReason`, `StagedIsResolved`; runner: `RunnerKeepsPromise`, `CancelledStaysDown`; hub: `HubKeepsPromise`, `ReceivedIsKept`, `HubEnds`; archive: `ClearingLosesNothing`, `StorageIsReclaimed` |
| tools | every request and answer of one turn; a conversation of 4 tool runs with 2 actions, 2 failures and 1 lost reply, for each kind of client | turn: `SubmissionsBounded`, `CallsAreGuarded`, `AnswersAreSupported`, `RequiredIsMet`; ledger: `LoopsAreCut`, `ChainCountsOnce`, `HonestIsServed` |
| mirror_reuse, lease_displaced | see 3.1 | |

The parts of `services` and of `tools` share no state with each other in the code (what one
assumes of another is stated in its module), so a behaviour of the run is a behaviour of one
part; the others stay at their initial state.

Three turns are what a displaced owner, its displacer and a successor need. Two accounts reach
every wrap-around of the route, and three the question of which neighbour is next; `MaxEpoch` 4
is A to B, back to A, and the move that a late report must not make. `MaxSeq` 4 above three
accounts leaves an authorization room behind an import that shifted. `MaxVer` and `MaxKey` allow
a ciphertext to be replaced while its predecessor is being written and a key to be used again.
In `services`, quotas of 1 (`PerGroup`, `Total`) with a branch in the group of a leased alias
and an alias of another group make every admission evict, find its victim busy, or exceed the
total only; `Attempts` 2 is one retry. `Kept` 1 and `Markers` 1 let the second run push the
first one's outcome, or its marker, out, and `MaxCopies` 1 is the delivery that then finds
nothing. `QueueMax` 2 below `MaxFrames` 3 lets the queue overflow, and `Idle` 1 below `Deadline`
2 lets either deadline pass first. `Ttl` 2 above `LeaseTime` and `UploadTime` 1 are the
relations of the constants in the code; `MaxQueue`, `MaxAttempts` and `Batch` 2 are each reached
within `MaxCalls` 4 (an acquisition and three commits). In `tools`, `MaxCompleted` 3,
`MaxConsecutive` 2, `MaxRounds` 4 and `SnapshotMax` 2 (in the code 8, 2, 128 and 128) can all be
reached by `MaxRuns` 4 runs or by their replays; the failures are interchangeable (`SYMMETRY`).
`CHECK_DEADLOCK FALSE` is used where the bounds let everything come to rest.

### 3.1 Disagreements

Two runs end in a violation. Each states what a comment or the README says of the code,
and the counterexample is a behaviour of the code; `findings` in `PROJECT.json` quotes both.

- `mirror_reuse`: delete and re-authorize during a mirror write; the revision starts again at 1
  and the old write removes the new job.
- `lease_displaced`: `supersedeActive(false)` asks about a marked run before it has started and
  then replaces the lease of a running turn. On the way it can also write an account it read
  before the await, and leave the row locked without one.

### 3.2 Limits of what the properties say

The models also reach, or leave out by a named constant, the behaviours below. They are the
reason for the preconditions of some properties and for the instances of some runs.

Route and gate:
- A success of an account that lost the route clears its failure while session spread is
  on (`tenant-state.ts:1070`): `LateResultsAreFenced` is stated for spread switched off. The
  renewal alarm reports without an epoch (`tenant-state.ts:746`) and can isolate an account
  that became active again while its token was being renewed: it speaks of requests.
- An account deleted while its refreshed token is being encrypted
  (`tenant-state.ts:1497`) is written back by the insert that follows.
- An import and a deletion drop the gate row of an account whose call is in flight
  (`tenant-state.ts:1735`, `:1866`): the next caller starts beside it, and without the pause.
  The cancellation of a stream gives its call five seconds to unwind and then releases the
  gate (`upstream-lifecycle.ts:106-108`): the next caller may start beside a call that is still
  unwinding. The repository's README (line 91) says that the calls of an account are serialized
  and spaced. `HoldersSerialized` is about the calls the rows know of, and `GrantsAreSpaced`
  counts from when a call lets go of its gate row: its end, or the timeout of its cancellation.
  Of a call that a timeout or the operator detached, neither says when it ends.
- `GateRejects` of `AccountRoute` ends or repeats a request. A turn that has begun and has
  portable history may also take another account along (`openai.ts:2920-2957`); that is
  `FollowRoute` of `ConversationLease`, where the row it changes is.

Conversation and runner:
- A runner reset after submission is reported as if nothing had been sent
  (`openai.ts:2917`), a Worker that vanishes after submission reports nothing, and a review
  that fails before its own submission releases the lease of a turn that was submitted
  (`openai.ts:3006`): in these three cases the next turn continues the half-turn, which the
  comment at `openai.ts:3001-3004` means to prevent ("a normal release would silently continue from
  polluted upstream state").
  `NoHalfTurnContinued` names them (`CutOff`): the only half-turns in a conversation that is
  continued are those of turns that were cut off. `lease_fence` checks it with lost Workers; with
  reviews and resets too its instance outgrows the suite, and `HalfTurnTheorem` covers all three.
- What `runChatHub` remembers of a run ends: it keeps two outcomes, all of them in memory that a
  reset clears, and the delivery that finds a cancellation marker deletes it and stores no
  outcome (`chat-session.ts:572`). A call delivered again after that starts the invocation, a
  second time or after its caller heard that it was not sent; the comment at
  `chat-session.ts:578-581` says of a duplicate delivery that it must not "submit a second
  Microsoft invocation". `RunnerKeepsPromise` and `CancelledStaysDown` hold up to that moment
  and say when it is (`Forgotten`): `Kept` later outcomes, a reset that took the run's record,
  or the marker used up; for a queued cancellation also as many younger markers as the set holds
  (128). Duplicates arrive at any time in the model, before and after it.
- The comment at `chathub.ts:2246` says that a disconnect after submission uses fresh
  coordinates; the code never reconnects after submission, which is the stronger promise and
  the one modelled.

Aliases and archive:
- The comment at `openai.ts:6698-6704` says that `seed` is idempotent when its reply was
  lost; `retryableAliasSeedFailure` does not count such a failure as retryable, so that branch
  of `seed` is not reached by this caller.
- A registration that overflows its group and the total evicts for both, one alias more than
  needed when the two victims differ (`chat-session.ts:735-750`). `VisibleBounded` says that
  the quotas are never exceeded, not that they are used up.
- A pending row that expires while its registration is under way leaves the registry row
  behind (`chat-session.ts:2137`) until it expires or is evicted.
- An upload that ends with an empty outbox while the alarm is due but not yet delivered takes it
  for one that has fired and deletes it (`r2-archive.ts:487-503`); nothing then comes back for
  the state row until a later call sets an alarm, although the comment at
  `chat-session.ts:2240-2242` says that the only future cleanup alarm is never consumed by
  accident. `StorageIsReclaimed` names this race (`dropped`, a history variable) and says that
  nothing else strands the storage.
- An archive write that outlasts the TTL of its row would let a turn begin while
  `clearStateStorage` waits for it and then lose its row to `deleteAll`
  (`chat-session.ts:853-867`). TLC finds it with `UploadTime` above `Ttl`, which
  `ArchiveAssumption` excludes.

Turn and ledger:
- `AnswersAreSupported` speaks of the model's own answer: the audit of the first stage may
  adopt the text of a native router attempt that promises to act (`openai.ts:5510-5556`,
  against the comment at `:5612`), and direct mode returns unsupported claims of completion.
- The code tests the guard's rejection for `local_patch_disabled` (`openai.ts:3790`, `:3876`, `:4548`).
  `toolGuardFailure`, which makes the rejection, never gives it that code and nothing else raises it:
  the branch is dead and not modelled.
- With `tool_choice: none` a call the model proposes all the same can still be returned.
- A Chat client that replays its full history beside a restored snapshot is counted twice by
  the completion ledger, although the comment at `openai.ts:6071-6076` excludes it; it matters
  when that client later stops sending its user messages. A tail or stateless client that
  repeats a request after a lost reply has one failure counted twice, which bans the call.
  `ChainCountsOnce` is therefore about clients that chain by `previous_response_id`.
- `completedChatToolSnapshots` looks the trailing run up under the completion ledger, where it
  is never stored, and falls back to counting (`openai.ts:1220`). Of a snapshot entry's failures
  the newest two are kept, of the fingerprints the newest 128: a third kind of failure makes the
  first forgotten. A Responses client has no consecutive limit across requests. `LoopsAreCut`
  says what remains true: it counts within the work the ledger answers for (`since`), and a row
  of repetitions for Chat clients only.

### Fairness

- Gate: callers that are not lost keep polling, calls end by the logical deadline and are
  released, and time passes (`SF` on `Tick`, since a grant and a release may alternate
  with it). Giving up is never assumed. `MaxEpoch` keeps the last account in the pool.
- Mirror: KV calls return, a set alarm fires, an operation that reached the head of its
  chain starts, and one that is tried over and over succeeds once (`SF`): an outage ends.
- Delivery: the Worker runs, its calls return or fail, and a client that is well reads.
- Alias: objects and the registry take their next step, alarms fire, time passes, and a
  registration that queues behind others is served in the end (`SF` on `Serve`: the queue of
  `blockConcurrencyWhile` is first come, first served).
- Hub: the Worker runs and time passes; nothing is assumed of Microsoft.
- Archive: promises settle, alarms fire and time passes; uploads may always fail.
- Lease: a turn whose Worker lives takes its next step, runs end by their deadline, and a
  lease whose owner is gone expires. Nobody is obliged to acquire or to supersede.

## 4. Proofs

All proofs are checked by TLAPS, for every value of the constants that satisfies the
assumptions of the module: any number of accounts, actors, callers, turns, aliases and runs, any
bounds. Each inductive invariant was first checked by TLC on the instances of section 3, the
one of `TerminalDelivery` also for inductiveness, from all states that satisfy it. The
hypotheses that some theorems state are named here with the reason.

`TenantPoolProofs` shows that each function of `TenantPool` is `Good`: from a pool that is
well typed, has distinct sequence numbers below the counter and a usable route, it yields
such a pool, with an epoch that does not fall and an owner that changes only with it.
`PoolAssumption` (finitely many accounts, a capacity) is what it needs of the constants. A
second group says where a route goes: the account that `AdvanceActiveAccount` finds is the
cyclically nearest that is available (`NextAfterNearest`), and which operations leave a
usable route alone (`EnsureKeeps`, `UpsertRowCalm`, `RestartCalm`).

`AccountRouteProofs`: `RouteInv` is "the pool is good and every actor is well typed". The
property `ActiveIsUsable` alone is not inductive: that `AdvanceActiveAccount` finds a neighbour
needs the rows' order, and that a selection writes an account needs the actors' types. One lemma
per group of actions reduces each to a `Good` step of the pool. From it follow `TypeCorrect`,
`RouteIsUsable`, `OrderIsTotal` and, as an action property, `EpochIsFence`. The properties of
single requests need a second layer, `FrugalInv`: the accounts a request has touched are the
ones it remembers as attempted, and it is given another only while these are fewer than two.
Every action changes its actor in a `Lawful` way, which is shown once per action; `TwoAccounts`,
`LateResults`, `AdjacentAccount` and `SelectionIsCurrent` follow from the law and from where
`TenantPoolProofs` says a route goes.

`UpstreamGateProofs`: serialization is not inductive, since nothing in it says that a
holder's lease outlives its call. `GateInv` adds that the row names the holder and that the
holder's remaining time plus the interval fits the remaining lease (`LeaseOutlivesCall`);
`GateSerializes` follows. `GateSpaces` needs `SpacingInv` as well, which relates the
pause in the row, or the lease, to the history variable. A row that is dropped takes its pause
along, and so does the history (`DropSpacing`): of what was promised before the drop nothing is
left. The three theorems have no hypotheses. For `GateRoutes` the second check of `AcquireFinish` is the
only way to a call, and every other step of callers, pool and time starts none.

`CredentialMirrorProofs`: what matters is local to one account, its row, its two job rows,
its KV keys, its one KV call in flight and the reader of its legacy row. `StepKinds` shows
that every step does to each account one of eleven things or nothing, and each of these keeps
`MirrorInv`, in which a call in flight is followed by what it may still do, whether or not
it reports success. The chains and the alarm matter only for the types, since an account has one KV call
at a time. `KvTheorem` and `AdvanceTheorem` hold without hypotheses. `BackupIsCurrent` is about an
account outside `Deletable`, and `MirrorTheorem` states it for all under `Deletable = {}`:
a deletion lets revisions start again at 1, and `mirror_reuse` is the counterexample.

`ConversationLeaseProofs`: the invariant has four layers. `BaseInv` relates the state of one
turn to its exchanges, its run and the log of its conversation; `Fenced` says that the owner of
the lease holds the context, coordinates and account of the row, and that a supersession that
waits for the runner still knows the context of the lease it saw; `OneAccount` that turns that
share coordinates share their account; `Half` that no two turns at work share coordinates and
that the log of a conversation is covered by the context of whoever may continue it. The actions
fall into six kinds (row only, quiet, takes, moves, binds, sends); each action is shown to be of
its kind and each kind to keep each layer. `LostUpdateTheorem`, `DoubleSubmissionTheorem` and
`KeepsAccountTheorem` and `HalfTurnTheorem` hold with lost Workers, resets and reviews; that a
turn which was cut off stays so (`CutOffStays`), and that a conversation holds nothing but the
context of its turn and such half-turns (`Covered`), is what `Half` needs for the last one.

`ResponseProofs`: `CompletedIsResumable` relates what the client has heard to a row in another
object and to a delivery object that four continuations share. `DeliveryInv` says who owns the
delivery in each position of the pumps (`Ownership`, `Places`), what the state of the alias
row is (`Aliased`), which events are in the queue between the pumps (`Queue`) and what each of
the two ways to the client may still do (`Direct`, `Bridged`). Each method of the delivery
object has a law (`CancelLaw`, `FailLaw`, `PublishLaw`, `ClaimLaw`, `StageLaw`, `DeliverLaw`)
that says what it may change; there is one lemma per action.

The same module proves `VisibleTheorem` and `ForgottenTheorem` of the aliases. Visibility lives
in the alias objects and the quotas in the registry, so `AliasInv` ties the two: what is
visible, or may still become visible, is listed under its generation (`Registered`), and the
registry is within its quotas without the row that is being registered, and also without the
rows it has still to evict (`RegistryFits`). Both halves are needed: the first is what remains
when the registration is refused, the second what remains when it ends. Calls that arrive late
must not break this: an unregister names a generation that is gone for good
(`UnregisterIsLate`), an expired registry row belongs to a seed that is over (`OldIsOver`), and
the victims of a registration are rows of other aliases, of the generation the registry lists
(`LockHeld`). That the victims are enough is `NewestFacts`: of a set of positions without its
newest k at most k are left. It is proved from the least member of a set of naturals in place of an
induction, and serves the outbox of the archive too.

`ClearingTheorem` needs to know when a clear may wait for pending writes. A write that is
pending is younger than the row it copies (`WritesAreYoung`), so that a conversation expires
only when all its writes have settled and its clear never waits (`ConversationNeverWaits`); the
clear of a branch may wait, but its one turn is over and no row comes back (`BranchIsOver`).
Copies exist only where a bucket is bound (`CopiesNeedBucket`), which is the branch of `Clear`
that keeps them. The theorem holds however late an alarm is delivered, and for any number of
restarts. `UploadTime < Ttl` is essential: with writes that outlast the TTL, a turn can begin
while `clearStateStorage` waits, and loses its row.

`AssistantTurnProofs`: the stage that takes an answer is the first one that applies, so a stage
may rely on what all earlier ones refused (`DirectPicked`, `RoutedPicked`). `TurnInv` keeps
what the stage knew when it asked the router (`Asked`), a budget of submissions for each
stage (`Spent`) and what is true of an outcome (`Sound`). The budget closes because the two
stages that let an answer pass through the router exclude each other: one needs completed
calls, the other their absence.

`ChatInvocationProofs` shows the two refinements. For `ChatHub`, `HubInv` says that nothing is
sent before the handshake of the only attempt that gets there, and that the outcome says what
was sent; `HubEffect` reduces every step to a stutter, a submission or a report. For
`ChatRunner` the promise needs: a run in progress has a caller who waits, no outcome and no
marker (`ActiveIsHeard`); a run that has not ended is unheard of, and sent only by the
invocation in progress (`FreshIsUnsent`); an outcome stays until `Kept` others have come, since
it is never further from the end of the map than outcomes have been kept since (`RecentIsKept`);
and it is what the callers heard (`KeptIsTold`). The theorem has no hypothesis: calls may be
delivered again at any time, and the runs that are forgotten (`Forgotten`) are handed to `over`
of the abstract specification, which only grows. `ReceivedTheorem` adds to `HubInv` that a frame
that would end the call is in the queue until the loop takes it, unless a policy violation, with
a reason of its own, dropped it (`KeptInv`). `CancelledTheorem` adds to the runner's invariant
that a run whose cancellation is confirmed has had its outcome kept, and one whose cancellation
is queued has been marked, unless the record is lost (`CancelInv`); `RecentIsKept` and its twin
for the markers (`RecentIsMarked`) then find the entry that keeps the next delivery from
starting it.

Only model-checked:
- liveness and everything that needs fairness (`WaitersProceed`, `JobsDrain`, `LeaseIsFreed`,
  `StagedIsPublished`, `ClientHears`, `StagedIsResolved`, `HubEnds`, `StorageIsReclaimed`),
  which this prover does not reach;
- `LoopsAreCut`, `ChainCountsOnce` and `HonestIsServed` of `ToolLedger`: they compare a ledger
  that is rebuilt from filtered, flattened and folded sequences with the one it was taken from,
  and what a fold yields for every sequence takes induction over data.

## 5. Plan

1. `ToolLedger`: whether a ledger can be kept as a function from fingerprints to counts,
   beside the sequences that the snapshot needs for its order, so that `ChainCountsOnce` becomes an
   invariant without folds.
2. The three hazards without a property (`tenant-state.ts:746`, `:1497` and `:1735`): each is
   a behaviour of section 3.2 that a property should exclude once the code does.
3. Small stateful parts: `RequestMetrics` (once-only terminal records and pruning),
   `AdminAuth` (sessions, login back-off, one-time OAuth states), the migration envelope,
   `CloudCleanup`, `Relay`; the portable context budget against a reference definition.

A new part joins `services` or `tools` when it shares no state with the others, so that the
suite stays short; a disagreement that is fixed or accepted leaves the list of runs for
section 3.2.

## 6. Not modelled

Prompt building, parsing and rendering of requests and events, image upload, cryptography, the
web console and deployment scripts: text transformation and wiring without shared state.
Argument normalisation and the text rules of `tool-ledger.ts`, `completion-evidence.ts` and
`task-anchors.ts`, which are inputs of `ToolLedger` and `AssistantTurn`. Storage failures inside
a Durable Object (a failed SQL statement aborts the handler and its transaction). Clock skew
between objects. The contents of messages.
