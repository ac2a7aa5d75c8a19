---------------------------- MODULE ToolLedger ----------------------------
(***************************************************************************)
(* The tool ledger: what the gateway remembers of the calls a client ran   *)
(* for it, and which proposed calls it lets through (tool-ledger.ts, and   *)
(* its use in openai.ts).  The gateway runs no tool.  Every request        *)
(* replays some of the conversation's calls and results; the ledger is     *)
(* rebuilt from them and from the snapshot the last turn stored, and a     *)
(* proposal is checked against it before the client sees it.               *)
(*                                                                         *)
(* A call is known by its fingerprint (a hash of its name and normalised   *)
(* arguments), a failure by a hash of its text: both are model values.     *)
(* Four kinds of client differ in what they send again:                    *)
(*   chain      Responses with previous_response_id: the result, or the    *)
(*              whole history, on top of the alias the client names;       *)
(*   stateless  Responses by a session key: the whole history;             *)
(*   full       Chat Completions: the whole history;                       *)
(*   tail       Chat Completions: the last call and result, no user text.  *)
(***************************************************************************)
EXTENDS Naturals, Sequences, FiniteSets, SequencesExt

CONSTANTS
    Fingerprint,      \* the distinct actions a client may be asked to run
    Failure,          \* the distinct failures an action may end in
    Visual,           \* the fingerprints that read an image
    MaxCompleted,     \* MAX_COMPLETED_FINGERPRINT_OCCURRENCES
    MaxConsecutive,   \* DEFAULT_MAX_CONSECUTIVE_FINGERPRINTS
    MaxRounds,        \* DEFAULT_MAX_TOOL_ROUNDS
    CountMax,         \* HARD_MAX_TOOL_ROUNDS, the cap of a stored count
    SnapshotMax,      \* the entries a snapshot keeps
    MaxRuns,          \* bound on the calls the client runs
    MaxLost,          \* bound on the replies that never reach the client
    Nobody            \* no fingerprint

VARIABLES
    client,     \* the kind of client, fixed
    executed,   \* every call the client ran, with its outcome, in order
    spoke,      \* how many of them precede the client's last user message
    since,      \* how many of them precede the work the ledger answers for
    fresh,      \* the last result has not been answered yet
    asked,      \* the fingerprint the client was last asked to run
    lost,       \* how many replies never reached the client
    stored,     \* what the next request restores: snapshot, pending, started
    turn,       \* the request being served, or NoTurn
    refused     \* the last request was well formed and yet refused

ledgerVars == <<client, executed, spoke, since, fresh, asked, lost,
                stored, turn, refused>>

Clients == {"chain", "stateless", "full", "tail"}
Chat == client \in {"full", "tail"}

\* "past" is a restored completion that carries no failure of its own.
Outcomes == Failure \cup {"ok"}
NoTurn == [ledger |-> "none"]
Nothing == [fp |-> Nobody, count |-> 0]

---------------------------------------------------------------------------
(***************************************************************************)
(* The ledger under construction.                                          *)
(***************************************************************************)
EmptyLedger ==
    [calls |-> <<>>, completed |-> <<>>, pending |-> {}, issues |-> {},
     signatures |-> {}]

Issue(code, id, fp) == [code |-> code, id |-> id, fp |-> fp]
WithIssue(l, i) == [l EXCEPT !.issues = @ \cup {i}]

\* The identifier of what a restored snapshot says: no call has it.
Persisted == 0

TimesCompleted(l, fp) == Len(SelectSeq(l.completed, LAMBDA c : c.fp = fp))
Ids(l) == {l.calls[i].id : i \in DOMAIN l.calls}
PendingFps(l) == {c.fp : c \in {d \in ToSet(l.calls) : d.id \in l.pending}}

\* How many elements at the end of s have the fingerprint of its last one.
TailRun(s) ==
    IF s = <<>> THEN Nothing
    ELSE LET fp == s[Len(s)].fp
             other == {i \in DOMAIN s : s[i].fp # fp}
         IN  [fp |-> fp,
              count |-> Len(s) - (IF other = {} THEN 0 ELSE Max(other))]

Register(l, c, rounds) ==
    IF c.id \in Ids(l) THEN WithIssue(l, Issue("duplicate_call_id", c.id, Nobody))
    ELSE LET added == [l EXCEPT !.calls = Append(@, [id |-> c.id, fp |-> c.fp]),
                                !.pending = @ \cup {c.id}]
             repeats ==
                 IF TimesCompleted(l, c.fp) >= MaxCompleted THEN {"completed_call_reissued"}
                 ELSE IF c.fp \in PendingFps(l) THEN {"duplicate_pending_call"} ELSE {}
             codes == repeats
                 \cup {k \in {"consecutive_fingerprint_limit"} :
                           TailRun(added.calls).count > MaxConsecutive}
                 \cup {k \in {"tool_round_limit"} : Len(added.calls) > rounds}
         IN  [added EXCEPT !.issues = @ \cup {Issue(k, c.id, c.fp) : k \in codes}]

ProposalCodes == {"completed_call_reissued", "duplicate_pending_call",
                  "consecutive_fingerprint_limit", "tool_round_limit"}

\* Mutant: a result leaves the issues of its proposal standing.
ResolvesNothing(issues, id) == issues
Resolved(issues, id) == {i \in issues : i.id # id \/ i.code \notin ProposalCodes}

Consume(l, r) ==
    IF r.id \in Ids(l) \ l.pending
    THEN WithIssue(l, Issue("call_id_already_consumed", r.id, Nobody))
    ELSE IF r.id \notin l.pending
    THEN WithIssue(l, Issue("unknown_call_id", r.id, Nobody))
    ELSE LET fp == (CHOOSE c \in ToSet(l.calls) : c.id = r.id).fp
             failed == r.outcome \in Failure
             again == failed /\ <<fp, r.outcome>> \in l.signatures
         IN  [l EXCEPT
                !.issues = Resolved(@, r.id)
                    \cup IF again THEN {Issue("repeated_failure", r.id, fp)} ELSE {},
                !.signatures = @ \cup IF failed THEN {<<fp, r.outcome>>} ELSE {},
                !.pending = @ \ {r.id},
                !.completed = Append(@, [fp |-> fp, outcome |-> r.outcome])]

\* addCompletedSnapshots: counts and failures come back, the calls do not, so
\* that history consumes no round of this request.
Copies(e) ==
    [i \in 1..e.count |->
        [fp |-> e.fp,
         outcome |-> IF i <= Len(e.failures) THEN e.failures[i] ELSE "past"]]
Restored(snapshot) ==
    [EmptyLedger EXCEPT
        !.completed = FlattenSeq([i \in DOMAIN snapshot |-> Copies(snapshot[i])]),
        !.signatures = UNION {{<<e.fp, e.failures[i]>> : i \in DOMAIN e.failures} :
                                  e \in ToSet(snapshot)},
        !.issues = {Issue("repeated_failure", Persisted, e.fp) :
                        e \in {d \in ToSet(snapshot) : d.repeated}}]

Parse(base, items, rounds) ==
    FoldLeft(LAMBDA l, item :
                 CASE item.kind = "call"   -> Register(l, item, rounds)
                   [] item.kind = "result" -> Consume(l, item)
                   [] OTHER                -> l,
             base, items)

---------------------------------------------------------------------------
(***************************************************************************)
(* What a turn stores: one entry for each fingerprint, in the order of     *)
(* their last completion, the two newest failures with it.                 *)
(***************************************************************************)
LastTwo(s) == SubSeq(s, IF Len(s) > 2 THEN Len(s) - 1 ELSE 1, Len(s))

NoEntry(fp) == [fp |-> fp, count |-> 0, failures |-> <<>>, repeated |-> FALSE]
Noted(entries, item, bad) ==
    LET before == SelectSeq(entries, LAMBDA e : e.fp = item.fp)
        old == IF before = <<>> THEN NoEntry(item.fp) ELSE before[1]
        failed == item.outcome \in Failure
        known == failed /\ item.outcome \in ToSet(old.failures)
        new == [fp |-> item.fp,
                count |-> IF old.count < CountMax THEN old.count + 1 ELSE CountMax,
                failures |-> LastTwo(IF failed /\ ~known
                                     THEN Append(old.failures, item.outcome)
                                     ELSE old.failures),
                repeated |-> old.repeated \/ item.fp \in bad \/ known]
    IN  Append(SelectSeq(entries, LAMBDA e : e.fp # item.fp), new)

\* Mutant: the snapshot of a turn forgets the turns before it.
SnapshotsOfThisRequest(l) ==
    FoldLeft(LAMBDA es, c : Noted(es, c, {}), <<>>,
             SelectSeq(l.completed, LAMBDA c : c.outcome # "past"))
CompletedToolSnapshots(l) ==
    LET bad == {i.fp : i \in {j \in l.issues : j.code = "repeated_failure"}}
        all == FoldLeft(LAMBDA es, c : Noted(es, c, bad), <<>>, l.completed)
    IN  SubSeq(all, IF Len(all) > SnapshotMax THEN Len(all) - SnapshotMax + 1 ELSE 1,
               Len(all))

---------------------------------------------------------------------------
(***************************************************************************)
(* What the client sends and which of it belongs to the current turn.      *)
(***************************************************************************)
User == [kind |-> "user"]
Call(i, fp) == [kind |-> "call", id |-> i, fp |-> fp]
Result(i) == [kind |-> "result", id |-> i, outcome |-> executed[i].outcome]
Pairs(a, b) ==
    FlattenSeq([k \in 1..(IF b < a THEN 0 ELSE b - a + 1) |->
        <<Call(a + k - 1, executed[a + k - 1].fp), Result(a + k - 1)>>])
Ran == Len(executed)
History(spokeAt) == Pairs(1, spokeAt) \o <<User>> \o Pairs(spokeAt + 1, Ran)

\* The requests a client may send: the result it holds, or a user message.
ResultSent ==
    CASE client = "chain" -> {<<Result(Ran)>>, Pairs(1, Ran)}
      [] client = "tail"  -> {Pairs(Ran, Ran)}
      [] OTHER            -> {History(spoke)}
UserSent ==
    IF client \in {"chain", "tail"} THEN <<User>> ELSE History(Ran)

CallAt(items, id) == {i \in DOMAIN items : items[i].kind = "call" /\ items[i].id = id}
ResultAt(items, id) == {i \in DOMAIN items : items[i].kind = "result" /\ items[i].id = id}
Results(items) == {i \in DOMAIN items : items[i].kind = "result"}
LastUser(items) ==
    LET us == {i \in DOMAIN items : items[i].kind = "user"}
    IN  IF us = {} THEN 0 ELSE Max(us)

\* responsesContinuationOutputIssue: with a call pending its result comes
\* exactly once, and every other result follows its own call and precedes it.
Mismatched(items, pending) ==
    LET paired(i) == \E c \in CallAt(items, items[i].id) : c < i
    IN  IF pending = 0 THEN \E i \in Results(items) : ~paired(i)
        ELSE \/ Cardinality(ResultAt(items, pending)) # 1
             \/ \E i \in Results(items) \ ResultAt(items, pending) :
                    ~paired(i) \/ i > Max(ResultAt(items, pending))

\* latestPairedFunctionOutputCallId
LatestPaired(items) ==
    LET paired == {i \in Results(items) :
                       i > LastUser(items) /\ \E c \in CallAt(items, items[i].id) : c < i}
    IN  IF paired = {} THEN 0 ELSE items[Max(paired)].id

FromLastUser(items) ==
    SubSeq(items, IF LastUser(items) = 0 THEN 1 ELSE LastUser(items), Len(items))

\* selectPreviousResponseToolContinuation: the result of the call, and the
\* call itself when the lease does not seed it.
Continuation(items, id, withCall) ==
    SelectSeq(items, LAMBDA i : \/ i.kind = "result" /\ i.id = id
                                \/ withCall /\ i.kind = "call" /\ i.id = id)

SelectActiveResponsesInput(items) ==
    LET pending == stored.pending.id
        replayed == IF pending # 0 THEN 0 ELSE LatestPaired(items)
        id == IF pending # 0 THEN pending ELSE replayed
        previous == client = "chain" \/ Results(items) # {}
    IN  IF previous /\ id # 0 THEN Continuation(items, id, replayed # 0)
        ELSE IF stored.started THEN FromLastUser(items) ELSE items

\* selectChatCompletionEvidenceMessages: the current turn and every complete
\* pair before it.
EvidenceItems(items) ==
    SelectSeq([i \in DOMAIN items |-> [at |-> i, item |-> items[i]]],
        LAMBDA e : \/ e.at >= LastUser(items)
                   \/ \E c \in CallAt(items, e.item.id), r \in ResultAt(items, e.item.id) :
                          c < r /\ e.at \in {c, r})

---------------------------------------------------------------------------
(***************************************************************************)
(* Serving a request.                                                      *)
(***************************************************************************)
\* shouldRestoreChatPortableCheckpoint
RestoresCheckpoint(items, l) ==
    ~stored.started /\ stored.locked /\ l.completed # <<>> /\ LastUser(items) = 0

\* recoverRepeatedPendingProposal: an unanswered call that only repeats what
\* is known is dropped instead of failing the request.
Recovered(l) ==
    LET bad == {i.fp : i \in {j \in l.issues : j.code = "repeated_failure"}}
                   \cup {c.fp : c \in ToSet(l.completed)}
        drop == {c.id : c \in {d \in ToSet(l.calls) :
                    /\ d.id \in l.pending
                    /\ d.fp \in bad
                    /\ \E i \in l.issues : i.id = d.id
                           /\ i.code \in {"completed_call_reissued",
                                          "consecutive_fingerprint_limit"}}}
    IN  [l EXCEPT !.calls = SelectSeq(@, LAMBDA c : c.id \notin drop),
                  !.pending = @ \ drop,
                  !.issues = {i \in @ : ~(i.id \in drop /\ i.code \in
                                 ProposalCodes \ {"tool_round_limit"})}]

\* toolLedgerPreflight: only a repeated failure lets the request through.
Blocked(l) ==
    (\E i \in l.issues : i.code # "repeated_failure") \/ l.pending # {}

\* rememberRestoredChatTrailingToolCompletion
Trailing(incoming) ==
    LET now == TailRun(incoming.completed)
        before == stored.trailing
        count == IF before.fp = now.fp /\ now.count = Len(incoming.completed)
                 THEN before.count + now.count ELSE now.count
    IN  [fp |-> now.fp,
         count |-> IF count < MaxConsecutive THEN count ELSE MaxConsecutive]

Opened(items) ==
    LET active == FromLastUser(items)
        incoming == Parse(EmptyLedger, active, MaxRounds)
        restores == RestoresCheckpoint(items, incoming)
        evidence == EvidenceItems(items)
        seeded == IF stored.pending.id = 0 THEN Restored(stored.snapshot)
                  ELSE Register(Restored(stored.snapshot), stored.pending, MaxRounds)
    IN  IF Chat
        THEN [ledger |-> Recovered(
                 IF restores THEN Parse(Restored(stored.snapshot), active, MaxRounds)
                 ELSE incoming),
              trailing |-> IF restores THEN Trailing(incoming) ELSE Nothing,
              evidence |-> Parse(Restored(stored.snapshot),
                  [i \in DOMAIN evidence |-> evidence[i].item], CountMax)]
        ELSE LET l == Recovered(Parse(seeded, SelectActiveResponsesInput(items), MaxRounds))
             IN  [ledger |-> l, trailing |-> Nothing, evidence |-> l]

\* A request is refused before any turn starts, or its ledger is opened; a
\* refusal releases the lease and stores nothing.
Receive(items, honest) ==
    LET opened == Opened(items)
        fails == \/ ~Chat /\ Results(items) # {} /\ Mismatched(items, stored.pending.id)
                 \/ Blocked(opened.ledger)
    IN  /\ refused' = (fails /\ honest)
        /\ turn' = IF fails THEN NoTurn ELSE opened

\* The client returns the result of the call it ran.
SendResult ==
    /\ turn = NoTurn /\ fresh
    /\ \E items \in ResultSent : Receive(items, TRUE)
    /\ UNCHANGED <<client, executed, spoke, since, fresh, asked, lost, stored>>

\* The user speaks.  A call the client was asked to run is given up, which
\* only a client that does not name the pending response may do.
SendUser ==
    /\ turn = NoTurn /\ ~fresh
    /\ Receive(UserSent, client = "chain" => asked = Nobody)
    /\ asked' = IF turn' = NoTurn THEN asked ELSE Nobody
    /\ spoke' = IF turn' = NoTurn THEN spoke ELSE Ran
    /\ since' = IF turn' = NoTurn \/ ~Chat THEN since ELSE Ran
    /\ UNCHANGED <<client, executed, fresh, lost, stored>>

\* A client that loses its place: a call without its result, a result twice,
\* a result of no call.
SendBroken ==
    /\ turn = NoTurn /\ fresh
    /\ \E items \in ResultSent :
          \/ \E fp \in Fingerprint : Receive(items \o <<Call(Ran + 1, fp)>>, FALSE)
          \/ Receive(items \o <<Result(Ran)>>, FALSE)
          \/ Receive(items \o <<[Result(Ran) EXCEPT !.id = MaxRuns + 1]>>, FALSE)
    /\ UNCHANGED <<client, executed, spoke, since, fresh, asked, lost, stored>>

---------------------------------------------------------------------------
(***************************************************************************)
(* The proposal, and the end of the turn.                                  *)
(***************************************************************************)
\* Mutant: a call that failed twice the same way may be proposed again.
GuardForgiving(fp) ==
    LET l == turn.ledger
    IN  /\ ~(turn.trailing.fp = fp /\ turn.trailing.count >= MaxConsecutive)
        /\ Len(l.calls) + 1 <= MaxRounds
        /\ TimesCompleted(l, fp) < MaxCompleted
\* guardedFunctionCall and guardProposedToolCalls, past the preflight.
GuardProposedToolCall(fp) ==
    LET l == turn.ledger
        last == TailRun(l.calls)
    IN  /\ ~(turn.trailing.fp = fp /\ turn.trailing.count >= MaxConsecutive)
        /\ Len(l.calls) + 1 <= MaxRounds
        /\ ~(fp \in Visual /\ \E i \in DOMAIN l.completed :
                 l.completed[i].fp = fp /\ l.completed[i].outcome = "ok")
        /\ ~\E i \in l.issues : i.code = "repeated_failure" /\ i.fp = fp
        /\ TimesCompleted(l, fp) < MaxCompleted
        /\ last.fp = fp => last.count < MaxConsecutive

\* The turn commits.  The next request of a chain names the response the
\* client saw last; the others share one conversation, whatever they saw.
Commit(fp, started, heard) ==
    LET snapshot == CompletedToolSnapshots(turn.evidence)
        next == [snapshot |-> snapshot,
                 pending  |-> IF client = "chain" /\ fp # Nobody
                              THEN Call(Ran + 1, fp) ELSE Call(0, Nobody),
                 started  |-> started,
                 locked   |-> TRUE,
                 trailing |-> IF Chat THEN TailRun(turn.evidence.completed) ELSE Nothing]
    IN  /\ ~heard => lost < MaxLost
        /\ lost' = IF heard THEN lost ELSE lost + 1
        /\ stored' = IF client = "chain" /\ ~heard THEN stored ELSE next
        /\ asked' = IF heard THEN fp ELSE asked
        /\ fresh' = (fresh /\ ~heard)
        /\ since' = IF client = "tail" /\ started THEN Ran ELSE since
        /\ turn' = NoTurn
        /\ UNCHANGED <<client, executed, spoke, refused>>

\* The model's call passes the guard.  A Chat call of the router abandons the
\* upstream conversation; a Responses call continues it.
Propose ==
    /\ turn # NoTurn
    /\ \E fp \in Fingerprint, started, heard \in BOOLEAN :
          /\ GuardProposedToolCall(fp)
          /\ Chat \/ started
          /\ Commit(fp, started, heard)

\* The turn ends in text, or in a checkpoint that abandons the conversation.
Answer ==
    /\ turn # NoTurn
    /\ \E started, heard \in BOOLEAN : Commit(Nobody, started, heard)

\* The turn fails: the conversation goes back to what it was.
AbandonTurn ==
    /\ turn # NoTurn
    /\ turn' = NoTurn
    /\ UNCHANGED <<client, executed, spoke, since, fresh, asked, lost, stored, refused>>

ClientRuns ==
    /\ turn = NoTurn /\ asked # Nobody /\ Ran < MaxRuns
    /\ \E out \in Outcomes : executed' = Append(executed, [fp |-> asked, outcome |-> out])
    /\ asked' = Nobody
    /\ fresh' = TRUE
    /\ UNCHANGED <<client, spoke, since, lost, stored, turn, refused>>

LedgerInit ==
    /\ client \in Clients
    /\ executed = <<>> /\ spoke = 0 /\ since = 0
    /\ fresh = FALSE /\ asked = Nobody /\ lost = 0
    /\ stored = [snapshot |-> <<>>, pending |-> Call(0, Nobody), started |-> FALSE,
                 locked |-> FALSE, trailing |-> Nothing]
    /\ turn = NoTurn
    /\ refused = FALSE

LedgerNext ==
    \/ SendResult \/ SendUser \/ SendBroken
    \/ Propose \/ Answer \/ AbandonTurn \/ ClientRuns

LedgerSpec == LedgerInit /\ [][LedgerNext]_ledgerVars

---------------------------------------------------------------------------
(***************************************************************************)
(* Properties.                                                             *)
(***************************************************************************)
Count(fp, s) == Len(SelectSeq(s, LAMBDA c : c.fp = fp))
Work == SubSeq(executed, since + 1, Ran)

\* The failure of run i came back in run j of the same action, with at most
\* one other failure of that action between them.
FailedAgain(i, j) ==
    /\ i < j
    /\ Work[i] = Work[j]
    /\ Work[i].outcome \in Failure
    /\ Cardinality({Work[k].outcome : k \in {m \in (i + 1)..(j - 1) :
           Work[m].fp = Work[i].fp /\ Work[m].outcome \in Failure}}
           \ {Work[i].outcome}) <= 1

\* Whatever the client replays, loses or repeats, within the work the ledger
\* answers for a client runs an action at most MAX_COMPLETED_FINGERPRINT_
\* OCCURRENCES times, a Chat client at most maxConsecutiveFingerprints times in
\* a row, and never again once it has failed the same way twice
\* (guardProposedToolCalls, addCompletedSnapshots, completedToolSnapshots).
LoopsAreCut ==
    /\ \A fp \in Fingerprint : Count(fp, Work) <= MaxCompleted
    /\ Chat => \A i \in DOMAIN Work :
           TailRun(SubSeq(Work, 1, i)).count <= MaxConsecutive
    /\ \A k \in DOMAIN Work : \A j \in 1..(k - 1) : \A i \in 1..(j - 1) :
           FailedAgain(i, j) => Work[k].fp # Work[i].fp

\* The snapshot a chained response carries counts every run of its own chain
\* once: not the history a client replays beside it, nor the request it sends
\* again because the reply was lost (selectPreviousResponseToolContinuation,
\* the seeded pending call).
ChainCountsOnce ==
    (client = "chain" /\ ~fresh) =>
        \A fp \in Fingerprint :
            LET e == {x \in ToSet(stored.snapshot) : x.fp = fp}
            IN  Count(fp, executed) = IF e = {} THEN 0 ELSE (CHOOSE x \in e : TRUE).count

\* A client that answers the call it was asked to run, or speaks when none is
\* pending, is never refused for the history its request carries: what was a
\* repeat when it was proposed is history once its result is in (the issues
\* consumeResult clears, toolLedgerPreflight).
HonestIsServed == ~refused
=============================================================================
