---------------------------- MODULE AccountRoute ----------------------------
(***************************************************************************)
(* Account selection and failover around the pool of one TenantState.      *)
(*                                                                         *)
(* Several actors work on the pool at once: the logical requests of the    *)
(* Worker (accountForLease and exchange of openai.ts), the maintenance     *)
(* alarm that renews the active token, and the OAuth callback that         *)
(* authorizes an account.  Each of them awaits I/O inside the Durable      *)
(* Object (reading or refreshing a credential, encrypting it, mirroring    *)
(* it), and every await lets the others run.  An action below is what one  *)
(* actor does between two awaits.                                          *)
(*                                                                         *)
(* actor[x].pc:                                                            *)
(*   idle     nothing in progress                                          *)
(*   verify   inside ensureValidAccount(acct), awaiting the credential     *)
(*   persist  fresh token obtained, upsertAccount awaits its encryption    *)
(*   finish   row written, upsertAccount awaits the mirror                 *)
(*   bound    about to call selectBoundSpreadAccount                       *)
(*   rebind   about to call selectAccount() for a portable session         *)
(*   hold     owns a selection and talks to Microsoft with it              *)
(*   again    about to call selectAccount("", attempted)                   *)
(* actor[x].lane: why the credential is being read.                        *)
(***************************************************************************)
EXTENDS TenantPool, Sequences

CONSTANTS
    Request,    \* logical requests being served
    Alarm,      \* the maintenance alarm of the object (one, or none in an instance)
    OAuth,      \* OAuth callbacks in progress; an instance may let the alarm and a
                \* callback take turns as one actor
    Kinds,      \* failure kinds that occur
    Batches,    \* migration batches an operator may import
    SpreadSettings, \* values the operator gives to the spread switch
    MaxEpoch,   \* bound: route epochs
    MaxSeq      \* bound: sequence numbers

ASSUME RouteAssumption ==
    /\ Alarm \cap Request = {} /\ OAuth \cap Request = {}
    /\ Kinds \subseteq FailureKind
    /\ SpreadSettings \subseteq BOOLEAN
    /\ \A b \in Batches :
         b \in Seq(Account) /\ b # <<>> /\ \A i, j \in DOMAIN b : b[i] = b[j] => i = j
    /\ MaxEpoch \in Nat /\ MaxSeq \in Nat

VARIABLES pool, actor

vars == <<pool, actor>>

Actor == Request \cup Alarm \cup OAuth

PC == {"idle", "verify", "persist", "finish", "bound", "rebind", "hold", "again"}
Lane == {"none", "route", "preferred", "spread", "bound", "alarm", "oauth"}

ActorState ==
    [ pc        : PC,
      lane      : Lane,
      acct      : Account \cup {NoAccount},  \* the account being verified or held
      epoch     : Nat,                       \* routeEpoch read with it
      session   : Account \cup {NoAccount},  \* lease.accountId of the conversation
      started   : BOOLEAN,                   \* the conversation may not change accounts
      attempted : SUBSET Account,            \* attemptedAccounts of exchange
      touched   : SUBSET Account,            \* history: every account it was given
      excluded  : SUBSET Account,            \* excludedAccountIds of this selectAccount
      todo      : SUBSET Account,            \* spread rows not yet tried
      order     : [Account -> Nat] ]         \* their position in the walk

Idle ==
    [ pc |-> "idle", lane |-> "none", acct |-> NoAccount, epoch |-> 0,
      session |-> NoAccount, started |-> FALSE, attempted |-> {}, touched |-> {},
      excluded |-> {}, todo |-> {}, order |-> [a \in Account |-> 0] ]

Init == pool = EmptyPool /\ actor = [x \in Actor |-> Idle]

\* Actor x continues as s; the counters stay within their bounds.
Become(x, s, q) ==
    /\ q.epoch <= MaxEpoch /\ q.counter <= MaxSeq
    /\ pool' = q
    /\ actor' = [actor EXCEPT ![x] = s]

-----------------------------------------------------------------------------
(* selectAccount: an outcome is the pool it leaves and how the actor goes on *)

Outcome(q, s) == [pool |-> q, next |-> s]

\* The single-route body of selectAccount("", excluded): at most two accounts.
EnterRoute(p, s, excluded) ==
    LET q == EnsureActiveAccountRoute(p)
    IN  IF Cardinality(excluded) >= 2 THEN Outcome(p, Idle)
        ELSE IF q.active = NoAccount \/ q.active \in excluded THEN Outcome(q, Idle)
        ELSE Outcome(q, [s EXCEPT !.pc = "verify", !.lane = "route", !.acct = q.active,
                                  !.epoch = q.epoch, !.excluded = excluded])

\* The account of S that the spread walk visits first.
FirstInWalk(S, order) == CHOOSE a \in S : \A b \in S : order[a] <= order[b]

\* selectAccount(): session spread first, when it is on and an account is healthy.
EnterFresh(p, s) ==
    LET rows == AvailableAccounts(p)
        rank == [a \in Account |-> IF a \in rows THEN SpreadRank(p, a) ELSE 0]
        q    == EnsureActiveAccountRoute(p)
    IN  IF ~p.spread \/ rows = {} THEN EnterRoute(p, s, {})
        ELSE Outcome(q, [s EXCEPT !.pc = "verify", !.lane = "spread", !.epoch = q.epoch,
                                  !.acct = FirstInWalk(rows, rank),
                                  !.todo = rows, !.order = rank])

\* selectAccount(session): only the active account qualifies.
EnterPreferred(p, s) ==
    LET q == EnsureActiveAccountRoute(p)
    IN  Outcome(q, IF q.active # s.session THEN [s EXCEPT !.pc = "bound"]
                   ELSE [s EXCEPT !.pc = "verify", !.lane = "preferred",
                                  !.acct = q.active, !.epoch = q.epoch])

\* selectAccount returned null for a bound session: try its own spread lane.
PreferredFails(q, s) == Outcome(q, [s EXCEPT !.pc = "bound", !.lane = "none"])

\* The spread walk goes on behind acct, or falls back to the route.
NextSpreadRow(p, s) ==
    LET left == s.todo \ {s.acct}
    IN  IF left = {}
        THEN EnterRoute(p, [s EXCEPT !.todo = {}, !.order = [a \in Account |-> 0]], {})
        ELSE Outcome(EnsureActiveAccountRoute(p),
                [s EXCEPT !.todo = left, !.pc = "verify",
                          !.acct = FirstInWalk(left, s.order)])

\* The selection is returned to the exchange.
Granted(q, s) ==
    Outcome(q, [s EXCEPT !.pc = "hold", !.excluded = {}, !.todo = {},
                         !.attempted = @ \cup {s.acct}, !.touched = @ \cup {s.acct},
                         !.order = [a \in Account |-> 0]])

\* Mutant: only the account is compared after the await.
SameAccountRouted(p, s) == p.active = s.acct

\* The persisted generation is still the one that was read before the await.
StillRouted(p, s) == p.active = s.acct /\ p.epoch = s.epoch

\* ensureValidAccount handed a token back; refreshed says that it was persisted
\* on the way, in which case the fence was checked before that.
TokenReturned(p, s, refreshed) ==
    LET fenced  == ~refreshed /\ ~CanUseAccountToken(p, s.acct)  \* ACCOUNT_NOT_ACTIVE
        missing == ~refreshed /\ s.acct \notin p.accounts        \* no row, null token
    IN  CASE s.lane = "route" ->
                IF StillRouted(p, s) THEN Granted(p, s)
                ELSE EnterRoute(p, s, s.excluded \cup {s.acct})
          [] s.lane = "preferred" ->
                IF StillRouted(p, s) THEN Granted(p, s) ELSE PreferredFails(p, s)
          [] s.lane = "spread" ->
                IF fenced THEN Outcome(p, Idle)
                ELSE IF missing THEN NextSpreadRow(p, s)
                ELSE Granted(RotateSpreadCursor(p, Cardinality({a \in Account : s.order[a] > 0}) + 1), s)
          [] s.lane = "bound" ->
                IF fenced THEN Outcome(p, Idle)
                ELSE IF missing THEN Outcome(p, [s EXCEPT !.pc = "rebind", !.lane = "none"])
                ELSE Granted(p, s)
          [] OTHER -> Outcome(p, Idle)   \* the alarm and the OAuth callback keep no token

\* ensureValidAccount threw a failure that classifyAccountFailure attributes to
\* the account.  The alarm reports hard failures without a route epoch.
TokenFailed(p, s, kind) ==
    CASE s.lane = "route" ->
            EnterRoute(ReportAccountFailure(p, s.acct, kind, s.epoch), s, s.excluded \cup {s.acct})
      [] s.lane = "preferred" ->
            Outcome(ReportAccountFailure(p, s.acct, kind, s.epoch), Idle)
      [] s.lane = "spread" ->
            NextSpreadRow(ReportAccountFailure(p, s.acct, kind, NoEpoch), s)
      [] s.lane = "alarm" ->
            Outcome(IF kind \in {"auth", "permanent"}
                    THEN ReportAccountFailure(p, s.acct, kind, NoEpoch) ELSE p, Idle)
      [] OTHER -> Outcome(p, Idle)

Take(x, o) == Become(x, o.next, o.pool)

-----------------------------------------------------------------------------
(* Logical requests *)

\* accountForLease for a conversation without an account.
SelectFresh(r) ==
    /\ actor[r].pc = "idle"
    /\ Take(r, EnterFresh(pool, Idle))

\* accountForLease for a conversation bound to account a.
SelectForSession(r, a, started) ==
    /\ actor[r].pc = "idle"
    /\ Take(r, EnterPreferred(pool, [Idle EXCEPT !.session = a, !.started = started]))

SelectBoundSpreadAccount(r) ==
    LET s == actor[r]
        q == EnsureActiveAccountRoute(pool)
    IN  /\ s.pc = "bound"
        /\ IF pool.spread /\ s.session \in AvailableAccounts(q)
           THEN Become(r, [s EXCEPT !.pc = "verify", !.lane = "bound",
                                    !.acct = s.session, !.epoch = q.epoch], q)
           ELSE Become(r, [s EXCEPT !.pc = "rebind", !.lane = "none"],
                       IF pool.spread THEN q ELSE pool)

\* A locked session with a portable tail may move to the active account, and is
\* then an uncommitted conversation there; any other bound session fails.
Rebind(r) ==
    LET s == actor[r]
    IN  /\ s.pc = "rebind"
        /\ \/ Take(r, EnterFresh(pool, [s EXCEPT !.session = NoAccount, !.started = FALSE]))
           \/ Become(r, Idle, pool)

\* The upstream call succeeded; a follow-up call on the same conversation (tool
\* routing, review) may keep the selection but never fails over.
UpstreamSucceeds(r) ==
    /\ actor[r].pc = "hold"
    /\ \E s \in {Idle, [actor[r] EXCEPT !.started = TRUE]} :
          Become(r, s, ReportAccountSuccess(pool, actor[r].acct, FALSE))

MayFailOver(s) == ~s.started /\ Cardinality(s.attempted) < 2

\* Mutant: attemptedAccounts starts over with every attempt.
FailsForgettingAttempts(r, kind) ==
    LET s == actor[r]
    IN  /\ s.pc = "hold"
        /\ Become(r, [s EXCEPT !.pc = "again", !.attempted = {s.acct}],
                  ReportAccountFailure(pool, s.acct, kind, s.epoch))

\* The upstream call failed in a way attributed to the account.
UpstreamFails(r, kind) ==
    LET s == actor[r]
    IN  /\ s.pc = "hold"
        /\ \E n \in {Idle} \cup (IF MayFailOver(s) THEN {[s EXCEPT !.pc = "again"]} ELSE {}) :
              Become(r, n, ReportAccountFailure(pool, s.acct, kind, s.epoch))

\* Does acquireUpstream admit a caller that selected account a under epoch e?
GateAdmits(q, a, e) ==
    /\ a \in q.accounts
    /\ IF q.active = a THEN q.epoch = e ELSE q.spread /\ AccountAvailable(q, a)

\* The account gate answers ACCOUNT_NOT_ACTIVE or ACCOUNT_MISSING.  A turn that has
\* begun keeps its account here; how it follows the route with portable history is
\* ConversationLease!FollowRoute, which has the row of its conversation.
GateRejects(r) ==
    LET s == actor[r]
        q == IF s.acct \in pool.accounts THEN EnsureActiveAccountRoute(pool) ELSE pool
    IN  /\ s.pc = "hold"
        /\ ~GateAdmits(q, s.acct, s.epoch)
        /\ \E n \in {Idle} \cup (IF MayFailOver(s) THEN {[s EXCEPT !.pc = "again"]} ELSE {}) :
              Become(r, n, q)

\* A client abort, a deadline or an unclassified error ends the request.
RequestEnds(r) ==
    /\ actor[r].pc \in {"hold", "again"}
    /\ Become(r, Idle, pool)

SelectAgain(r) ==
    /\ actor[r].pc = "again"
    /\ Take(r, EnterRoute(pool, actor[r], actor[r].attempted))

-----------------------------------------------------------------------------
(* ensureValidAccount and upsertAccount, for every lane *)

\* The stored token is usable as it is.
CredentialRead(x) ==
    /\ actor[x].pc = "verify"
    /\ Take(x, TokenReturned(pool, actor[x], FALSE))

\* The stored token was due and Microsoft issued a new one; the fence is checked
\* once more before it is persisted.
CredentialRefreshed(x) ==
    LET s == actor[x]
    IN  /\ s.pc = "verify"
        /\ s.acct \in pool.accounts
        /\ CanUseAccountToken(pool, s.acct)
        /\ Become(x, [s EXCEPT !.pc = "persist"], pool)

CredentialFails(x, kind) ==
    /\ actor[x].pc = "verify"
    /\ Take(x, TokenFailed(pool, actor[x], kind))

UpsertCommit(x) ==
    LET s == actor[x]
    IN  /\ s.pc = "persist"
        /\ IF HasRoom(pool, s.acct)
           THEN Become(x, [s EXCEPT !.pc = "finish"], UpsertRow(pool, s.acct))
           ELSE Become(x, Idle, pool)   \* ACCOUNT_LIMIT_REACHED

UpsertReturn(x) ==
    LET s == actor[x]
    IN  /\ s.pc = "finish"
        /\ Take(x, TokenReturned(UpsertFinish(pool, s.acct, s.lane = "oauth"), s, TRUE))

AlarmRefresh(x) ==
    LET q == EnsureActiveAccountRoute(pool)
    IN  /\ actor[x].pc = "idle"
        /\ IF q.active = NoAccount THEN Become(x, Idle, q)
           ELSE Become(x, [Idle EXCEPT !.pc = "verify", !.lane = "alarm",
                                           !.acct = q.active, !.epoch = q.epoch], q)

Authorize(x, a) ==
    /\ actor[x].pc = "idle"
    /\ Become(x, [Idle EXCEPT !.pc = "persist", !.lane = "oauth", !.acct = a], pool)

-----------------------------------------------------------------------------
(* Administration, time and restart *)

Administer(q) ==
    /\ q.epoch <= MaxEpoch /\ q.counter <= MaxSeq
    /\ pool' = q
    /\ UNCHANGED actor

Activate(a) == Administer(ActivateAccount(pool, a))

Delete(a) == a \in pool.accounts /\ Administer(DeleteAccount(pool, a))

Import(batch, chosen) ==
    /\ ImportFits(pool, batch)
    /\ Administer(ImportAccounts(pool, batch, chosen))

SetSpread(enabled) == Administer(SetAccountSpreadEnabled(pool, enabled))

CooldownElapses(a) ==
    /\ pool.health[a] = "cooldown"
    /\ Administer(CooldownElapsed(pool, a))

\* Eviction loses every promise inside the object; callers see a failed RPC.
Restart ==
    LET q == RestartPool(pool)
    IN  /\ q.epoch <= MaxEpoch
        /\ pool' = q
        /\ actor' = [x \in Actor |->
                        IF actor[x].pc \in {"verify", "persist", "finish"} THEN Idle ELSE actor[x]]

Next ==
    \/ \E r \in Request :
          \/ SelectFresh(r)
          \/ \E a \in Account, started \in BOOLEAN : SelectForSession(r, a, started)
          \/ SelectBoundSpreadAccount(r)
          \/ Rebind(r)
          \/ UpstreamSucceeds(r)
          \/ \E kind \in Kinds : UpstreamFails(r, kind)
          \/ GateRejects(r)
          \/ RequestEnds(r)
          \/ SelectAgain(r)
    \/ \E x \in Actor :
          \/ CredentialRead(x)
          \/ CredentialRefreshed(x)
          \/ \E kind \in Kinds : CredentialFails(x, kind)
          \/ UpsertCommit(x)
          \/ UpsertReturn(x)
    \/ \E x \in Alarm : AlarmRefresh(x)
    \/ \E x \in OAuth, a \in Account : Authorize(x, a)
    \/ \E a \in Account : Activate(a) \/ Delete(a) \/ CooldownElapses(a)
    \/ \E batch \in Batches : \E chosen \in DOMAIN batch : Import(batch, chosen)
    \/ \E enabled \in SpreadSettings : SetSpread(enabled)
    \/ Restart

Spec == Init /\ [][Next]_vars

-----------------------------------------------------------------------------
(* Properties *)

TypeOK == pool \in Pool /\ actor \in [Actor -> ActorState]

\* The account that owns the route is authorized and available.  Every path that
\* takes health or a row away (reportAccountFailure, deleteAccount) also moves
\* the route in the same transaction, so that no request is ever routed to an
\* isolated, cooling or deleted account.
ActiveIsUsable ==
    pool.active # NoAccount => pool.active \in AvailableAccounts(pool)

\* Rows never share a sequence number, whatever mixture of authorizations,
\* deletions, migrations and restarts assigned them: orderedAvailableAccounts is
\* a total order, and "the adjacent account" is well defined.
SequencesDistinct ==
    /\ \A a, b \in pool.accounts : pool.seq[a] = pool.seq[b] => a = b
    /\ \A a \in pool.accounts : pool.seq[a] \in 1..pool.counter

\* A route generation names one account: the epoch never falls, and the active
\* account never changes under the same epoch.  The compare-and-swap of
\* advanceActiveAccount and every recheck after an await rely on it.
EpochNamesRoute ==
    [][/\ pool'.epoch >= pool.epoch
       /\ pool'.active # pool.active => pool'.epoch > pool.epoch]_vars

\* README: "late concurrent results can neither skip an account nor turn the
\* route back".  When the step of a request that holds or verifies the route's
\* own account moves the route away from it, the request read that account under
\* the current epoch.  And a response from a retired account "must not erase the
\* confirmed failure that caused that switch" (reportAccountSuccess): while session
\* spread is off, a request that selected under an older epoch never makes an
\* unavailable account available again.
LateResultsAreFenced ==
    [][\A r \in Request : actor'[r] # actor[r] =>
          /\ /\ actor[r].lane \in {"route", "preferred"}
             /\ pool.active = actor[r].acct /\ pool'.active # pool.active
             => actor[r].epoch = pool.epoch
          /\ ~pool.spread /\ actor[r].pc = "hold" /\ actor[r].epoch # pool.epoch
             => \A a \in pool.accounts : AccountAvailable(pool', a) => AccountAvailable(pool, a)]_vars

\* c comes strictly between a and b when the sequence order is read cyclically.
Between(p, a, c, b) ==
    IF p.seq[a] < p.seq[b] THEN p.seq[a] < p.seq[c] /\ p.seq[c] < p.seq[b]
    ELSE p.seq[a] < p.seq[c] \/ p.seq[c] < p.seq[b]

\* README: a confirmed failure advances the route to the adjacent healthy account.
\* When the failed upstream call of a request moves the route, no available
\* account between the old and the new owner is passed over.
NoHealthyAccountSkipped ==
    [][\A r \in Request :
          /\ actor[r].pc = "hold" /\ actor'[r] # actor[r]
          /\ pool.active = actor[r].acct
          /\ pool'.active \notin {pool.active, NoAccount}
          => \A c \in AvailableAccounts(pool') \ {pool'.active} :
                ~Between(pool, pool.active, c, pool'.active)]_vars

\* README: one logical request touches at most two accounts, however failures,
\* gate rejections and rebinding are interleaved.
AtMostTwoAccounts == \A r \in Request : Cardinality(actor[r].touched) <= 2

\* A selection on the global route is handed out only while it is current: no
\* await between reading the route and returning the token lets a request leave
\* with an account that has been put to sleep, even one that came back since.
RouteSelectionIsCurrent ==
    [][\A r \in Request :
          /\ actor[r].pc # "hold" /\ actor'[r].pc = "hold"
          /\ actor[r].lane \in {"route", "preferred"}
          => /\ actor'[r].acct = pool'.active /\ actor'[r].epoch = pool'.epoch
             /\ actor'[r].acct \in AvailableAccounts(pool')]_vars
=============================================================================
