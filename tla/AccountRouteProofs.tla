------------------------- MODULE AccountRouteProofs -------------------------
(***************************************************************************)
(* Type correctness and the routing invariants of AccountRoute, for any    *)
(* finite set of accounts and any sets of requests, alarms and OAuth       *)
(* callbacks.                                                              *)
(*                                                                         *)
(* The pool part of every step is one of the operations of TenantPool, so  *)
(* that TenantPoolProofs does the work; what remains is that an actor      *)
(* which verifies, encrypts or mirrors a credential does so for a real     *)
(* account, because upsertAccount inserts whatever it is given.            *)
(***************************************************************************)
EXTENDS AccountRoute, TenantPoolProofs

\* An actor in the middle of a credential operation has an account.
GoodActor(s) ==
    /\ s \in ActorState
    /\ s.pc \in {"verify", "persist", "finish", "hold"} => s.acct \in Account

\* The inductive invariant.
RouteInv ==
    /\ GoodPool(pool)
    /\ actor \in [Actor -> ActorState]
    /\ \A x \in Actor : GoodActor(actor[x])

\* What an outcome of selectAccount keeps.
GoodOutcome(p, o) == Good(p, o.pool) /\ GoodActor(o.next)

-----------------------------------------------------------------------------
\* An actor that does nothing is well typed.
LEMMA IdleGood == GoodActor(Idle)
BY DEF GoodActor, Idle, ActorState, PC, Lane

\* The two parts of an outcome.
LEMMA OutcomeFields ==
    ASSUME NEW q, NEW s
    PROVE  Outcome(q, s).pool = q /\ Outcome(q, s).next = s
BY DEF Outcome

\* What the proofs below use of a good pool.
LEMMA GoodParts ==
    ASSUME NEW p, GoodPool(p)
    PROVE  /\ p \in Pool /\ OrderedPool(p) /\ p.epoch \in Nat
           /\ p.active \in Account \cup {NoAccount}
           /\ AvailableAccounts(p) \in SUBSET Account
BY AvailableInAccount DEF GoodPool, Pool

\* ensureActiveAccountRoute is a good step and yields a good pool.
LEMMA EnsuredGood ==
    ASSUME NEW p, GoodPool(p)
    PROVE  /\ Good(p, EnsureActiveAccountRoute(p))
           /\ GoodPool(EnsureActiveAccountRoute(p))
BY GoodParts, EnsureGood DEF Good

\* A walk over a non-empty set of rows has a first one.
LEMMA FirstInWalkIn ==
    ASSUME NEW S \in SUBSET Account, S # {}, NEW order \in [Account -> Nat]
    PROVE  FirstInWalk(S, order) \in S
<1> DEFINE N == {order[a] : a \in S}
<1>1. N \in SUBSET Nat /\ N # {}
  OBVIOUS
<1>2. PICK m \in N : \A x \in N : m <= x
  BY <1>1, NatMin
<1>3. \E a \in S : \A b \in S : order[a] <= order[b]
  BY <1>2
<1> QED
  BY <1>3 DEF FirstInWalk

\* The position of an account in the spread walk is a number.
LEMMA SpreadRankNat ==
    ASSUME NEW p, GoodPool(p), NEW a \in AvailableAccounts(p)
    PROVE  SpreadRank(p, a) \in Nat
<1> DEFINE A == AvailableAccounts(p)
           B == {b \in A : p.seq[b] < p.seq[a]}
<1>1. IsFiniteSet(A) /\ IsFiniteSet(B)
  BY GoodParts, FS_Subset, PoolAssumption
<1>2. Cardinality(A) \in Nat /\ Cardinality(B) \in Nat /\ Cardinality(A) # 0
  BY <1>1, FS_CardinalityType, FS_EmptySet
<1>3. p.cursor \in Nat
  BY DEF GoodPool, Pool
<1>4. \A n \in Nat \ {0} : \A k, c \in Nat : (k + n - (c % n)) % n \in Nat
  OBVIOUS
<1> QED
  BY <1>2, <1>3, <1>4 DEF SpreadRank

-----------------------------------------------------------------------------
(* Outcomes *)

\* selectAccount without a preference.
LEMMA EnterRouteGood ==
    ASSUME NEW p, GoodPool(p), NEW s, GoodActor(s), NEW excluded \in SUBSET Account
    PROVE  GoodOutcome(p, EnterRoute(p, s, excluded))
<1> DEFINE q == EnsureActiveAccountRoute(p)
           n == [s EXCEPT !.pc = "verify", !.lane = "route", !.acct = q.active,
                          !.epoch = q.epoch, !.excluded = excluded]
<1>1. Good(p, q) /\ GoodPool(q) /\ Good(p, p)
  BY EnsuredGood, GoodRefl
<1>2. q.epoch \in Nat /\ q.active \in Account \cup {NoAccount}
  BY <1>1, GoodParts
<1> HIDE DEF q
<1>3. q.active # NoAccount => GoodActor(n)
  BY <1>2 DEF GoodActor, ActorState, PC, Lane
<1> HIDE DEF n
<1>4. EnterRoute(p, s, excluded) \in {Outcome(p, Idle), Outcome(q, Idle)} \cup
         (IF q.active = NoAccount THEN {} ELSE {Outcome(q, n)})
  BY DEF EnterRoute, q, n
<1> QED
  BY <1>1, <1>3, <1>4, IdleGood, OutcomeFields DEF GoodOutcome

\* selectAccount for a new conversation, with or without session spread.
LEMMA EnterFreshGood ==
    ASSUME NEW p, GoodPool(p), NEW s, GoodActor(s)
    PROVE  GoodOutcome(p, EnterFresh(p, s))
<1> DEFINE rows == AvailableAccounts(p)
           rank == [a \in Account |-> IF a \in rows THEN SpreadRank(p, a) ELSE 0]
           q == EnsureActiveAccountRoute(p)
           first == FirstInWalk(rows, rank)
           n == [s EXCEPT !.pc = "verify", !.lane = "spread", !.epoch = q.epoch,
                          !.acct = first, !.todo = rows, !.order = rank]
<1>1. Good(p, q) /\ GoodPool(q)
  BY EnsuredGood
<1>2. q.epoch \in Nat /\ rows \in SUBSET Account
  BY <1>1, GoodParts
<1> HIDE DEF q
<1>3. CASE ~p.spread \/ rows = {}
  BY <1>3, EnterRouteGood DEF EnterFresh
<1>4. CASE ~(~p.spread \/ rows = {})
  <2>1. rank \in [Account -> Nat]
    BY SpreadRankNat
  <2> HIDE DEF rank
  <2>2. first \in Account
    BY <1>2, <1>4, <2>1, FirstInWalkIn
  <2> HIDE DEF first, rows
  <2>3. GoodActor(n)
    BY <1>2, <2>1, <2>2 DEF GoodActor, ActorState, PC, Lane
  <2>4. EnterFresh(p, s) = Outcome(q, n)
    BY <1>4 DEF EnterFresh, q, first, rows, rank
  <2> HIDE DEF n
  <2> QED
    BY <1>1, <2>3, <2>4, OutcomeFields DEF GoodOutcome
<1> QED
  BY <1>3, <1>4

\* selectAccount for the account of a session.
LEMMA EnterPreferredGood ==
    ASSUME NEW p, GoodPool(p), NEW s, GoodActor(s), s.pc = "idle", s.session \in Account
    PROVE  GoodOutcome(p, EnterPreferred(p, s))
<1> DEFINE q == EnsureActiveAccountRoute(p)
           n == [s EXCEPT !.pc = "verify", !.lane = "preferred", !.acct = q.active, !.epoch = q.epoch]
           b == [s EXCEPT !.pc = "bound"]
<1>1. Good(p, q) /\ GoodPool(q)
  BY EnsuredGood
<1>2. q.epoch \in Nat /\ q.active \in Account \cup {NoAccount}
  BY <1>1, GoodParts
<1> HIDE DEF q
<1>3. GoodActor(b) /\ (q.active = s.session => GoodActor(n))
  BY <1>2 DEF GoodActor, ActorState, PC, Lane
<1>4. EnterPreferred(p, s) = Outcome(q, IF q.active # s.session THEN b ELSE n)
  BY DEF EnterPreferred, q
<1> HIDE DEF n, b
<1> QED
  BY <1>1, <1>3, <1>4, OutcomeFields DEF GoodOutcome

\* The account of a session cannot be used: the caller goes on.
LEMMA PreferredFailsGood ==
    ASSUME NEW p, NEW q, Good(p, q), NEW s, GoodActor(s)
    PROVE  GoodOutcome(p, PreferredFails(q, s))
<1>1. GoodActor([s EXCEPT !.pc = "bound", !.lane = "none"])
  BY DEF GoodActor, ActorState, PC, Lane
<1> QED
  BY <1>1, OutcomeFields DEF GoodOutcome, PreferredFails

\* selectSpreadAccount goes on to the next account of its walk.
LEMMA NextSpreadRowGood ==
    ASSUME NEW p, GoodPool(p), NEW s, GoodActor(s)
    PROVE  GoodOutcome(p, NextSpreadRow(p, s))
<1> DEFINE left == s.todo \ {s.acct}
           q == EnsureActiveAccountRoute(p)
           first == FirstInWalk(left, s.order)
           reset == [s EXCEPT !.todo = {}, !.order = [a \in Account |-> 0]]
           n == [s EXCEPT !.todo = left, !.pc = "verify", !.acct = first]
<1>1. Good(p, q)
  BY EnsuredGood
<1>2. left \in SUBSET Account /\ s.order \in [Account -> Nat]
  BY DEF GoodActor, ActorState
<1>3. GoodActor(reset)
  BY DEF GoodActor, ActorState
<1>4. GoodOutcome(p, EnterRoute(p, reset, {}))
  BY <1>3, EnterRouteGood
<1>5. left # {} => GoodActor(n)
  <2>1. left # {} => first \in Account
    BY <1>2, FirstInWalkIn
  <2> HIDE DEF first, left
  <2> QED
    BY <1>2, <2>1 DEF GoodActor, ActorState, PC
<1>6. NextSpreadRow(p, s) = IF left = {} THEN EnterRoute(p, reset, {}) ELSE Outcome(q, n)
  BY DEF NextSpreadRow
<1> HIDE DEF left, q, reset, n
<1> QED
  BY <1>1, <1>4, <1>5, <1>6, OutcomeFields DEF GoodOutcome

\* A selection is handed to its request.
LEMMA GrantedGood ==
    ASSUME NEW p, NEW q, Good(p, q), NEW s, GoodActor(s), s.acct \in Account
    PROVE  GoodOutcome(p, Granted(q, s))
<1> DEFINE n == [s EXCEPT !.pc = "hold", !.excluded = {}, !.todo = {},
                          !.attempted = @ \cup {s.acct}, !.touched = @ \cup {s.acct},
                          !.order = [a \in Account |-> 0]]
<1>1. /\ s.attempted \cup {s.acct} \in SUBSET Account
      /\ s.touched \cup {s.acct} \in SUBSET Account
  BY DEF GoodActor, ActorState
<1>2. n \in ActorState /\ n.acct = s.acct
  BY <1>1 DEF GoodActor, ActorState, PC
<1>3. Granted(q, s) = Outcome(q, n)
  BY DEF Granted
<1> HIDE DEF n
<1> QED
  BY <1>2, <1>3, OutcomeFields DEF GoodOutcome, GoodActor

\* An actor gives up behind a good step.
LEMMA IdleOutcome ==
    ASSUME NEW p, NEW q, Good(p, q)
    PROVE  GoodOutcome(p, Outcome(q, Idle))
BY IdleGood, OutcomeFields DEF GoodOutcome

\* What begins behind a good step is good from the start.
LEMMA OutcomeTrans ==
    ASSUME NEW p \in Pool, NEW q, Good(p, q), NEW o, GoodOutcome(q, o)
    PROVE  GoodOutcome(p, o)
BY GoodTrans DEF GoodOutcome

\* The accounts a selection has tried are accounts.
LEMMA ExcludedGood ==
    ASSUME NEW s, GoodActor(s), s.acct \in Account
    PROVE  s.excluded \cup {s.acct} \in SUBSET Account
BY DEF GoodActor, ActorState

\* ensureValidAccount returned a token: each lane checks the route again.
LEMMA TokenReturnedGood ==
    ASSUME NEW p, GoodPool(p), NEW s, GoodActor(s), s.acct \in Account, NEW refreshed \in BOOLEAN
    PROVE  GoodOutcome(p, TokenReturned(p, s, refreshed))
<1> DEFINE w == Cardinality({a \in Account : s.order[a] > 0}) + 1
           r == [s EXCEPT !.pc = "rebind", !.lane = "none"]
<1>1. Good(p, p)
  BY GoodRefl
<1>2. w \in Nat \ {0}
  <2> DEFINE W == {a \in Account : s.order[a] > 0}
  <2>1. IsFiniteSet(W)
    BY FS_Subset, PoolAssumption
  <2>2. Cardinality(W) \in Nat
    BY <2>1, FS_CardinalityType
  <2> QED
    BY <2>2
<1>3. GoodActor(r)
  BY DEF GoodActor, ActorState, PC, Lane
<1> HIDE DEF w, r
<1>4. GoodOutcome(p, Outcome(p, r))
  BY <1>1, <1>3, OutcomeFields DEF GoodOutcome
<1>5. GoodOutcome(p, Granted(p, s)) /\ GoodOutcome(p, Granted(RotateSpreadCursor(p, w), s))
  BY <1>1, <1>2, GrantedGood, RotateGood
<1>6. GoodOutcome(p, EnterRoute(p, s, s.excluded \cup {s.acct}))
  BY EnterRouteGood, ExcludedGood
<1>7. GoodOutcome(p, PreferredFails(p, s)) /\ GoodOutcome(p, NextSpreadRow(p, s)) /\ GoodOutcome(p, Outcome(p, Idle))
  BY <1>1, PreferredFailsGood, NextSpreadRowGood, IdleOutcome
<1>8. TokenReturned(p, s, refreshed) \in
        {Granted(p, s), Granted(RotateSpreadCursor(p, w), s), EnterRoute(p, s, s.excluded \cup {s.acct}),
         PreferredFails(p, s), NextSpreadRow(p, s), Outcome(p, Idle), Outcome(p, r)}
  BY DEF TokenReturned, w, r
<1> QED
  BY <1>4, <1>5, <1>6, <1>7, <1>8

\* ensureValidAccount failed: each lane reports and goes on.
LEMMA TokenFailedGood ==
    ASSUME NEW p, GoodPool(p), NEW s, GoodActor(s), s.acct \in Account, NEW kind
    PROVE  GoodOutcome(p, TokenFailed(p, s, kind))
<1> DEFINE f == ReportAccountFailure(p, s.acct, kind, s.epoch)
           g == ReportAccountFailure(p, s.acct, kind, NoEpoch)
           x == s.excluded \cup {s.acct}
<1>1. Good(p, p) /\ Good(p, f) /\ Good(p, g) /\ p \in Pool
  BY GoodRefl, ReportFailureGood DEF GoodPool
<1>2. GoodPool(f) /\ GoodPool(g)
  BY <1>1 DEF Good
<1>3. x \in SUBSET Account
  BY ExcludedGood
<1> HIDE DEF f, g, x
<1>4. GoodOutcome(f, EnterRoute(f, s, x)) /\ GoodOutcome(g, NextSpreadRow(g, s))
  BY <1>2, <1>3, EnterRouteGood, NextSpreadRowGood
<1>5. GoodOutcome(p, EnterRoute(f, s, x)) /\ GoodOutcome(p, NextSpreadRow(g, s))
  BY <1>1, <1>4, OutcomeTrans
<1>6. /\ GoodOutcome(p, Outcome(p, Idle)) /\ GoodOutcome(p, Outcome(f, Idle))
      /\ GoodOutcome(p, Outcome(g, Idle))
  BY <1>1, IdleOutcome
<1>7. TokenFailed(p, s, kind) \in
        {EnterRoute(f, s, x), NextSpreadRow(g, s), Outcome(p, Idle), Outcome(f, Idle), Outcome(g, Idle)}
  BY DEF TokenFailed, f, g, x
<1> QED
  BY <1>5, <1>6, <1>7

-----------------------------------------------------------------------------
(* Steps *)

\* An actor's step that does a good thing to the pool keeps the invariant.
LEMMA BecomeStep ==
    ASSUME RouteInv, NEW x \in Actor, NEW s, NEW q, Good(pool, q), GoodActor(s), Become(x, s, q)
    PROVE  RouteInv' /\ EpochFenced(pool, pool')
<1>1. s \in ActorState /\ pool' = q /\ actor' = [actor EXCEPT ![x] = s]
  BY DEF GoodActor, Become
<1>2. \A y \in Actor : actor'[y] = IF y = x THEN s ELSE actor[y]
  BY <1>1 DEF RouteInv
<1>3. actor' \in [Actor -> ActorState]
  BY <1>1 DEF RouteInv
<1>4. \A y \in Actor : GoodActor(actor'[y])
  BY <1>2 DEF RouteInv
<1>5. GoodPool(pool') /\ EpochFenced(pool, pool')
  BY <1>1 DEF Good
<1> QED
  BY <1>3, <1>4, <1>5 DEF RouteInv, GoodActor

\* The same for the outcome of a selection.
LEMMA TakeStep ==
    ASSUME RouteInv, NEW x \in Actor, NEW o, GoodOutcome(pool, o), Take(x, o)
    PROVE  RouteInv' /\ EpochFenced(pool, pool')
BY BecomeStep DEF GoodOutcome, Take

\* The same for an operation of the operator.
LEMMA AdministerStep ==
    ASSUME RouteInv, NEW q, Good(pool, q), Administer(q)
    PROVE  RouteInv' /\ EpochFenced(pool, pool')
BY DEF RouteInv, Administer, Good, GoodActor

\* The steps of a request.
LEMMA RequestStep ==
    ASSUME RouteInv, NEW r \in Request,
           \/ SelectFresh(r)
           \/ \E a \in Account, started \in BOOLEAN : SelectForSession(r, a, started)
           \/ SelectBoundSpreadAccount(r)
           \/ Rebind(r)
           \/ UpstreamSucceeds(r)
           \/ \E kind \in Kinds : UpstreamFails(r, kind)
           \/ GateRejects(r)
           \/ RequestEnds(r)
           \/ SelectAgain(r)
    PROVE  RouteInv' /\ EpochFenced(pool, pool')
<1> DEFINE s == actor[r]
           q == EnsureActiveAccountRoute(pool)
<1>0. /\ r \in Actor /\ GoodPool(pool) /\ GoodActor(s) /\ s \in ActorState
      /\ Good(pool, pool) /\ Good(pool, q) /\ q.epoch \in Nat
      /\ AvailableAccounts(q) \in SUBSET Account
  BY GoodRefl, EnsuredGood, GoodParts DEF RouteInv, Actor, GoodActor
<1>a. GoodActor([s EXCEPT !.pc = "again"])
  BY <1>0 DEF GoodActor, ActorState, PC
<1>1. CASE SelectFresh(r)
  BY <1>0, <1>1, IdleGood, EnterFreshGood, TakeStep DEF SelectFresh
<1>2. CASE \E a \in Account, started \in BOOLEAN : SelectForSession(r, a, started)
  <2> PICK a \in Account, started \in BOOLEAN : SelectForSession(r, a, started)
    BY <1>2
  <2> DEFINE n == [Idle EXCEPT !.session = a, !.started = started]
  <2>1. GoodActor(n) /\ n.pc = "idle" /\ n.session = a
    BY IdleGood DEF GoodActor, ActorState, Idle, PC
  <2>2. Take(r, EnterPreferred(pool, n))
    BY DEF SelectForSession
  <2> HIDE DEF n
  <2> QED
    BY <1>0, <2>1, <2>2, EnterPreferredGood, TakeStep
<1>3. CASE SelectBoundSpreadAccount(r)
  <2> DEFINE v == [s EXCEPT !.pc = "verify", !.lane = "bound", !.acct = s.session, !.epoch = q.epoch]
             b == [s EXCEPT !.pc = "rebind", !.lane = "none"]
             p == IF pool.spread THEN q ELSE pool
  <2> HIDE DEF q
  <2>1. s.session \in AvailableAccounts(q) => GoodActor(v)
    BY <1>0 DEF GoodActor, ActorState, PC, Lane
  <2>2. GoodActor(b)
    BY <1>0 DEF GoodActor, ActorState, PC, Lane
  <2>3. Good(pool, p)
    BY <1>0
  <2>4. \/ s.session \in AvailableAccounts(q) /\ Become(r, v, q)
        \/ Become(r, b, p)
    BY <1>3 DEF SelectBoundSpreadAccount, q
  <2> HIDE DEF v, b, p
  <2> QED
    BY <1>0, <2>1, <2>2, <2>3, <2>4, BecomeStep
<1>4. CASE Rebind(r)
  <2> DEFINE n == [s EXCEPT !.session = NoAccount, !.started = FALSE]
  <2>1. GoodActor(n)
    BY <1>0 DEF GoodActor, ActorState
  <2>2. Take(r, EnterFresh(pool, n)) \/ Become(r, Idle, pool)
    BY <1>4 DEF Rebind
  <2> HIDE DEF n
  <2> QED
    BY <1>0, <2>1, <2>2, EnterFreshGood, TakeStep, BecomeStep, IdleGood
<1>5. CASE UpstreamSucceeds(r)
  <2> DEFINE n == [s EXCEPT !.started = TRUE]
             p == ReportAccountSuccess(pool, s.acct, FALSE)
  <2>1. GoodActor(n)
    BY <1>0 DEF GoodActor, ActorState
  <2>2. Good(pool, p)
    BY <1>0, ReportSuccessGood
  <2>3. Become(r, Idle, p) \/ Become(r, n, p)
    BY <1>5 DEF UpstreamSucceeds
  <2> HIDE DEF n, p
  <2> QED
    BY <1>0, <2>1, <2>2, <2>3, BecomeStep, IdleGood
<1>6. CASE \E kind \in Kinds : UpstreamFails(r, kind)
  <2> PICK kind \in Kinds : UpstreamFails(r, kind)
    BY <1>6
  <2> DEFINE n == [s EXCEPT !.pc = "again"]
             p == ReportAccountFailure(pool, s.acct, kind, s.epoch)
  <2>1. Good(pool, p)
    BY <1>0, ReportFailureGood
  <2>2. Become(r, Idle, p) \/ Become(r, n, p)
    BY DEF UpstreamFails
  <2> HIDE DEF n, p
  <2> QED
    BY <1>0, <1>a, <2>1, <2>2, BecomeStep, IdleGood DEF n
<1>7. CASE GateRejects(r)
  <2> DEFINE n == [s EXCEPT !.pc = "again"]
             p == IF s.acct \in pool.accounts THEN q ELSE pool
  <2>1. Good(pool, p)
    BY <1>0
  <2>2. Become(r, Idle, p) \/ Become(r, n, p)
    BY <1>7 DEF GateRejects
  <2> HIDE DEF n, p
  <2> QED
    BY <1>0, <1>a, <2>1, <2>2, BecomeStep, IdleGood DEF n
<1>8. CASE RequestEnds(r)
  BY <1>0, <1>8, BecomeStep, IdleGood DEF RequestEnds
<1>9. CASE SelectAgain(r)
  <2>1. s.attempted \in SUBSET Account
    BY <1>0 DEF ActorState
  <2>2. GoodOutcome(pool, EnterRoute(pool, s, s.attempted))
    BY <1>0, <2>1, EnterRouteGood
  <2> QED
    BY <1>0, <1>9, <2>2, TakeStep DEF SelectAgain
<1> HIDE DEF s, q
<1> QED
  BY <1>1, <1>2, <1>3, <1>4, <1>5, <1>6, <1>7, <1>8, <1>9

\* The steps of readAccountToken, ensureValidAccount and upsertAccount.
LEMMA CredentialStep ==
    ASSUME RouteInv, NEW x \in Actor,
           \/ CredentialRead(x)
           \/ CredentialRefreshed(x)
           \/ \E kind \in Kinds : CredentialFails(x, kind)
           \/ UpsertCommit(x)
           \/ UpsertReturn(x)
    PROVE  RouteInv' /\ EpochFenced(pool, pool')
<1> DEFINE s == actor[x]
<1>0. GoodPool(pool) /\ GoodActor(s) /\ s \in ActorState /\ Good(pool, pool) /\ pool \in Pool
  BY GoodRefl, GoodParts DEF RouteInv, GoodActor
<1>1. CASE CredentialRead(x)
  <2>1. s.acct \in Account /\ Take(x, TokenReturned(pool, s, FALSE))
    BY <1>0, <1>1 DEF CredentialRead, GoodActor
  <2> QED
    BY <1>0, <2>1, TokenReturnedGood, TakeStep
<1>2. CASE CredentialRefreshed(x)
  <2> DEFINE n == [s EXCEPT !.pc = "persist"]
  <2>1. GoodActor(n) /\ Become(x, n, pool)
    BY <1>0, <1>2 DEF CredentialRefreshed, GoodActor, ActorState, PC
  <2> HIDE DEF n
  <2> QED
    BY <1>0, <2>1, BecomeStep
<1>3. CASE \E kind \in Kinds : CredentialFails(x, kind)
  <2> PICK kind \in Kinds : CredentialFails(x, kind)
    BY <1>3
  <2>1. s.acct \in Account /\ Take(x, TokenFailed(pool, s, kind))
    BY <1>0 DEF CredentialFails, GoodActor
  <2> QED
    BY <1>0, <2>1, TokenFailedGood, TakeStep
<1>4. CASE UpsertCommit(x)
  <2> DEFINE n == [s EXCEPT !.pc = "finish"]
             p == UpsertRow(pool, s.acct)
  <2>1. s.acct \in Account
    BY <1>0, <1>4 DEF UpsertCommit, GoodActor
  <2>2. GoodActor(n)
    BY <1>0, <2>1 DEF GoodActor, ActorState, PC
  <2>3. Good(pool, p)
    BY <1>0, <2>1, UpsertRowGood
  <2>4. Become(x, n, p) \/ Become(x, Idle, pool)
    BY <1>4 DEF UpsertCommit
  <2> HIDE DEF n, p
  <2> QED
    BY <1>0, <2>2, <2>3, <2>4, BecomeStep, IdleGood
<1>5. CASE UpsertReturn(x)
  <2> DEFINE p == UpsertFinish(pool, s.acct, s.lane = "oauth")
  <2>1. s.acct \in Account
    BY <1>0, <1>5 DEF UpsertReturn, GoodActor
  <2>2. Good(pool, p)
    BY <1>0, UpsertFinishGood
  <2>3. GoodPool(p)
    BY <2>2 DEF Good
  <2>4. Take(x, TokenReturned(p, s, TRUE))
    BY <1>5 DEF UpsertReturn
  <2> HIDE DEF p
  <2>5. GoodOutcome(p, TokenReturned(p, s, TRUE))
    BY <1>0, <2>1, <2>3, TokenReturnedGood
  <2>6. GoodOutcome(pool, TokenReturned(p, s, TRUE))
    BY <1>0, <2>2, <2>5, OutcomeTrans
  <2> QED
    BY <2>4, <2>6, TakeStep
<1> QED
  BY <1>1, <1>2, <1>3, <1>4, <1>5

\* The token renewal begins.
LEMMA AlarmStep ==
    ASSUME RouteInv, NEW x \in Alarm, AlarmRefresh(x)
    PROVE  RouteInv' /\ EpochFenced(pool, pool')
<1> DEFINE q == EnsureActiveAccountRoute(pool)
           n == [Idle EXCEPT !.pc = "verify", !.lane = "alarm", !.acct = q.active, !.epoch = q.epoch]
<1>1. /\ x \in Actor /\ Good(pool, q) /\ q.epoch \in Nat /\ q.active \in Account \cup {NoAccount}
  BY EnsuredGood, GoodParts DEF RouteInv, Actor
<1>2. Become(x, Idle, q) \/ (q.active # NoAccount /\ Become(x, n, q))
  BY DEF AlarmRefresh
<1> HIDE DEF q
<1>3. q.active # NoAccount => GoodActor(n)
  BY <1>1, IdleGood DEF GoodActor, ActorState, PC, Lane, Idle
<1> HIDE DEF n
<1> QED
  BY <1>1, <1>2, <1>3, BecomeStep, IdleGood

\* An OAuth authorization begins.
LEMMA AuthorizeStep ==
    ASSUME RouteInv, NEW x \in OAuth, NEW a \in Account, Authorize(x, a)
    PROVE  RouteInv' /\ EpochFenced(pool, pool')
<1> DEFINE n == [Idle EXCEPT !.pc = "persist", !.lane = "oauth", !.acct = a]
<1>1. x \in Actor /\ Good(pool, pool) /\ Become(x, n, pool)
  BY GoodRefl DEF RouteInv, Actor, Authorize
<1>2. GoodActor(n)
  BY IdleGood DEF GoodActor, ActorState, PC, Lane, Idle
<1> HIDE DEF n
<1> QED
  BY <1>1, <1>2, BecomeStep

\* The object is evicted: its calls are lost, migrate runs.
LEMMA RestartStep ==
    ASSUME RouteInv, Restart
    PROVE  RouteInv' /\ EpochFenced(pool, pool')
<1>1. GoodPool(pool') /\ EpochFenced(pool, pool')
  BY RestartGood DEF RouteInv, Restart, Good
<1>2. \A x \in Actor : actor'[x] \in {Idle, actor[x]}
  BY DEF Restart
<1>3. \A x \in Actor : GoodActor(actor'[x])
  BY <1>2, IdleGood DEF RouteInv
<1>4. actor' \in [Actor -> ActorState]
  BY <1>3 DEF Restart, GoodActor
<1> QED
  BY <1>1, <1>3, <1>4 DEF RouteInv, GoodActor

\* The operations of the operator and the end of a cooldown.
LEMMA AdminStep ==
    ASSUME RouteInv,
           \/ \E a \in Account : Activate(a) \/ Delete(a) \/ CooldownElapses(a)
           \/ \E batch \in Batches : \E chosen \in DOMAIN batch : Import(batch, chosen)
           \/ \E enabled \in SpreadSettings : SetSpread(enabled)
    PROVE  RouteInv' /\ EpochFenced(pool, pool')
<1>0. GoodPool(pool)
  BY DEF RouteInv
<1>1. CASE \E a \in Account : Activate(a) \/ Delete(a) \/ CooldownElapses(a)
  <2> PICK a \in Account : Activate(a) \/ Delete(a) \/ CooldownElapses(a)
    BY <1>1
  <2>1. /\ Good(pool, ActivateAccount(pool, a)) /\ Good(pool, DeleteAccount(pool, a))
        /\ Good(pool, CooldownElapsed(pool, a))
    BY <1>0, ActivateGood, DeleteGood, CooldownGood
  <2> QED
    BY <2>1, AdministerStep DEF Activate, Delete, CooldownElapses
<1>2. CASE \E batch \in Batches : \E chosen \in DOMAIN batch : Import(batch, chosen)
  <2> PICK batch \in Batches : \E chosen \in DOMAIN batch : Import(batch, chosen)
    BY <1>2
  <2> PICK chosen \in DOMAIN batch : Import(batch, chosen)
    OBVIOUS
  <2>1. batch \in Seq(Account) /\ \A i, j \in DOMAIN batch : batch[i] = batch[j] => i = j
    BY RouteAssumption
  <2>2. Good(pool, ImportAccounts(pool, batch, chosen))
    BY <1>0, <2>1, ImportGood
  <2> QED
    BY <2>2, AdministerStep DEF Import
<1>3. CASE \E enabled \in SpreadSettings : SetSpread(enabled)
  <2> PICK enabled \in SpreadSettings : SetSpread(enabled)
    BY <1>3
  <2>1. Good(pool, SetAccountSpreadEnabled(pool, enabled))
    BY <1>0, SpreadGood, RouteAssumption
  <2> QED
    BY <2>1, AdministerStep DEF SetSpread
<1> QED
  BY <1>1, <1>2, <1>3

\* The invariant holds at the start.
LEMMA InitInv == Init => RouteInv
<1> SUFFICES ASSUME Init PROVE RouteInv
  OBVIOUS
<1>1. EmptyPool \in Pool
  BY DEF EmptyPool, Pool, Health
<1>2. EmptyPool.accounts = {} /\ EmptyPool.active = NoAccount
  BY DEF EmptyPool
<1>3. GoodPool(EmptyPool)
  BY <1>1, <1>2 DEF GoodPool, UsablePool, OrderedPool
<1>4. Idle \in ActorState
  BY IdleGood DEF GoodActor
<1> QED
  BY <1>3, <1>4, IdleGood DEF Init, RouteInv

\* Every step keeps the invariant and the epoch fence.
LEMMA NextInv == RouteInv /\ [Next]_vars => RouteInv' /\ EpochFenced(pool, pool')
<1> SUFFICES ASSUME RouteInv, [Next]_vars PROVE RouteInv' /\ EpochFenced(pool, pool')
  OBVIOUS
<1>1. CASE UNCHANGED vars
  BY <1>1, GoodRefl DEF vars, RouteInv, Good, GoodActor
<1>2. CASE Next
  BY <1>2, RequestStep, CredentialStep, AlarmStep, AuthorizeStep, RestartStep, AdminStep DEF Next
<1> QED
  BY <1>1, <1>2

\* The inductive invariant: the pool is well typed, its rows are ordered, its route is
\* usable, and every actor is well typed, after every step of every handler.
THEOREM Invariance == Spec => []RouteInv
BY InitInv, NextInv, PTL DEF Spec

-----------------------------------------------------------------------------
(* What a request may do to the route, and how many accounts it is given *)

\* The lanes that select the owner of the global route.
OnRoute == {"route", "preferred"}

\* A request is given an account only while it was given fewer than two, and one
\* that is on the route has an account.
Frugal(s) ==
    /\ s.touched = s.attempted
    /\ Cardinality(s.attempted) <= 2
    /\ s.pc # "hold" => Cardinality(s.attempted) < 2
    /\ s.lane \in OnRoute => s.acct \in Account

\* The second layer of the inductive invariant.
FrugalInv == \A x \in Actor : Frugal(actor[x])

\* A route with an owner stays where it is.
Calm(p, q) == p.active # NoAccount => q.active = p.active

\* An outcome that leaves the route alone and hands out nothing.
Tame(p, o) == Calm(p, o.pool) /\ Frugal(o.next) /\ o.next.pc # "hold"

\* What the step of an actor from pool p and state s to pool q and state n obeys.
Lawful(p, s, q, n) ==
    /\ Frugal(n)
    /\ s.lane \in OnRoute /\ p.active = s.acct /\ q.active # p.active => s.epoch = p.epoch
    /\ ~p.spread /\ s.pc = "hold" =>
          \A a \in p.accounts : AccountAvailable(q, a) => AccountAvailable(p, a)
    /\ s.pc = "hold" /\ p.active = s.acct /\ q.active \notin {p.active, NoAccount} =>
          Nearest(p, AvailableAccounts(q), p.seq[p.active], q.active)
    /\ s.pc # "hold" /\ n.pc = "hold" /\ s.lane \in OnRoute =>
          /\ n.acct = q.active /\ n.epoch = q.epoch
          /\ n.acct \in AvailableAccounts(q)

\* An actor that does nothing was given nothing.
LEMMA IdleFrugal == Frugal(Idle) /\ Idle.pc # "hold"
BY FS_EmptySet DEF Frugal, Idle, OnRoute

\* An actor that changes neither its accounts nor its lane stays frugal.
LEMMA FrugalKept ==
    ASSUME NEW s, Frugal(s), s.pc # "hold", NEW n,
           n.touched = s.touched, n.attempted = s.attempted,
           n.lane \in OnRoute => n.acct \in Account
    PROVE  Frugal(n)
BY DEF Frugal

\* Doing nothing, and ensuring the route, are calm.
LEMMA EnsureCalm ==
    ASSUME NEW p, GoodPool(p)
    PROVE  Calm(p, EnsureActiveAccountRoute(p)) /\ Calm(p, p)
BY EnsureKeeps DEF Calm

\* A step that leaves the route alone and hands out nothing is lawful.
LEMMA TameLawful ==
    ASSUME NEW p, NEW s, Frugal(s), s.pc # "hold", NEW q, NEW n,
           Calm(p, q), Frugal(n), n.pc # "hold"
    PROVE  Lawful(p, s, q, n)
BY PoolAssumption DEF Lawful, Calm, Frugal

\* selectAccount without a preference.
LEMMA EnterRouteTame ==
    ASSUME NEW p, GoodPool(p), NEW s, GoodActor(s), Frugal(s), s.pc # "hold",
           NEW excluded \in SUBSET Account
    PROVE  Tame(p, EnterRoute(p, s, excluded))
<1> DEFINE q == EnsureActiveAccountRoute(p)
           n == [s EXCEPT !.pc = "verify", !.lane = "route", !.acct = q.active,
                          !.epoch = q.epoch, !.excluded = excluded]
<1>1. GoodPool(q) /\ Calm(p, q) /\ Calm(p, p)
  BY EnsuredGood, EnsureCalm
<1>2. q.active \in Account \cup {NoAccount}
  BY <1>1, GoodParts
<1> HIDE DEF q
<1>3. n.pc = "verify" /\ n.touched = s.touched /\ n.attempted = s.attempted /\ n.acct = q.active
  BY DEF GoodActor, ActorState
<1> HIDE DEF n
<1>4. q.active # NoAccount => Frugal(n)
  BY <1>2, <1>3, FrugalKept
<1>5. EnterRoute(p, s, excluded) \in {Outcome(p, Idle), Outcome(q, Idle)} \cup
         (IF q.active = NoAccount THEN {} ELSE {Outcome(q, n)})
  BY DEF EnterRoute, q, n
<1> QED
  BY <1>1, <1>3, <1>4, <1>5, IdleFrugal, OutcomeFields DEF Tame

\* selectAccount for a new conversation.
LEMMA EnterFreshTame ==
    ASSUME NEW p, GoodPool(p), NEW s, GoodActor(s), Frugal(s), s.pc # "hold"
    PROVE  Tame(p, EnterFresh(p, s))
<1> DEFINE rows == AvailableAccounts(p)
           rank == [a \in Account |-> IF a \in rows THEN SpreadRank(p, a) ELSE 0]
           q == EnsureActiveAccountRoute(p)
           first == FirstInWalk(rows, rank)
           n == [s EXCEPT !.pc = "verify", !.lane = "spread", !.epoch = q.epoch,
                          !.acct = first, !.todo = rows, !.order = rank]
<1>1. Calm(p, q)
  BY EnsureCalm
<1>2. CASE ~p.spread \/ rows = {}
  BY <1>2, EnterRouteTame DEF EnterFresh
<1>3. CASE ~(~p.spread \/ rows = {})
  <2>1. EnterFresh(p, s) = Outcome(q, n)
    BY <1>3 DEF EnterFresh
  <2> HIDE DEF q, first, rows, rank
  <2>2. n.pc = "verify" /\ n.touched = s.touched /\ n.attempted = s.attempted /\ n.lane = "spread"
    BY DEF GoodActor, ActorState
  <2> HIDE DEF n
  <2>3. Frugal(n)
    BY <2>2, FrugalKept DEF OnRoute
  <2> QED
    BY <1>1, <2>1, <2>2, <2>3, OutcomeFields DEF Tame
<1> QED
  BY <1>2, <1>3

\* selectAccount for the account of a session.
LEMMA EnterPreferredTame ==
    ASSUME NEW p, GoodPool(p), NEW s, GoodActor(s), Frugal(s), s.pc = "idle", s.session \in Account
    PROVE  Tame(p, EnterPreferred(p, s))
<1> DEFINE q == EnsureActiveAccountRoute(p)
           n == [s EXCEPT !.pc = "verify", !.lane = "preferred", !.acct = q.active, !.epoch = q.epoch]
           b == [s EXCEPT !.pc = "bound"]
<1>1. Calm(p, q)
  BY EnsureCalm
<1> HIDE DEF q
<1>2. /\ n.pc = "verify" /\ n.touched = s.touched /\ n.attempted = s.attempted /\ n.acct = q.active
      /\ b.pc = "bound" /\ b.touched = s.touched /\ b.attempted = s.attempted
      /\ b.acct = s.acct /\ b.lane = s.lane
  BY DEF GoodActor, ActorState
<1>3. EnterPreferred(p, s) = Outcome(q, IF q.active # s.session THEN b ELSE n)
  BY DEF EnterPreferred, q
<1> HIDE DEF n, b
<1>4. Frugal(b) /\ (q.active = s.session => Frugal(n))
  BY <1>2, FrugalKept DEF Frugal
<1> QED
  BY <1>1, <1>2, <1>3, <1>4, OutcomeFields DEF Tame

\* The account of a session cannot be used.
LEMMA PreferredFailsTame ==
    ASSUME NEW p, NEW q, Calm(p, q), NEW s, GoodActor(s), Frugal(s), s.pc # "hold"
    PROVE  Tame(p, PreferredFails(q, s))
<1> DEFINE n == [s EXCEPT !.pc = "bound", !.lane = "none"]
<1>1. n.pc = "bound" /\ n.touched = s.touched /\ n.attempted = s.attempted /\ n.lane = "none"
  BY DEF GoodActor, ActorState
<1>2. PreferredFails(q, s) = Outcome(q, n)
  BY DEF PreferredFails
<1> HIDE DEF n
<1>3. Frugal(n)
  BY <1>1, FrugalKept DEF OnRoute
<1> QED
  BY <1>1, <1>2, <1>3, OutcomeFields DEF Tame

\* The spread walk goes on.
LEMMA NextSpreadRowTame ==
    ASSUME NEW p, GoodPool(p), NEW s, GoodActor(s), Frugal(s), s.pc # "hold", s.lane = "spread"
    PROVE  Tame(p, NextSpreadRow(p, s))
<1> DEFINE left == s.todo \ {s.acct}
           q == EnsureActiveAccountRoute(p)
           first == FirstInWalk(left, s.order)
           reset == [s EXCEPT !.todo = {}, !.order = [a \in Account |-> 0]]
           n == [s EXCEPT !.todo = left, !.pc = "verify", !.acct = first]
<1>1. Calm(p, q)
  BY EnsureCalm
<1>2. GoodActor(reset)
  BY DEF GoodActor, ActorState
<1>3. NextSpreadRow(p, s) = IF left = {} THEN EnterRoute(p, reset, {}) ELSE Outcome(q, n)
  BY DEF NextSpreadRow
<1> HIDE DEF left, q, first
<1>4. /\ n.pc = "verify" /\ n.touched = s.touched /\ n.attempted = s.attempted /\ n.lane = "spread"
      /\ reset.pc = s.pc /\ reset.touched = s.touched /\ reset.attempted = s.attempted
      /\ reset.lane = "spread"
  BY DEF GoodActor, ActorState
<1> HIDE DEF reset, n
<1>5. Frugal(n) /\ Frugal(reset)
  BY <1>4, FrugalKept DEF OnRoute
<1>6. Tame(p, EnterRoute(p, reset, {}))
  BY <1>2, <1>4, <1>5, EnterRouteTame
<1> QED
  BY <1>1, <1>3, <1>4, <1>5, <1>6, OutcomeFields DEF Tame

\* One more account makes at most two.
LEMMA OneMore ==
    ASSUME NEW A \in SUBSET Account, NEW a \in Account, Cardinality(A) < 2
    PROVE  Cardinality(A \cup {a}) <= 2
<1>1. IsFiniteSet(A)
  BY FS_Subset, PoolAssumption
<1>2. Cardinality(A) \in Nat
  BY <1>1, FS_CardinalityType
<1>3. Cardinality(A \cup {a}) = IF a \in A THEN Cardinality(A) ELSE Cardinality(A) + 1
  BY <1>1, FS_AddElement
<1> QED
  BY <1>2, <1>3

\* A selection is handed to its request: the request knows the account and the
\* generation it read.
LEMMA GrantedFrugal ==
    ASSUME NEW q, NEW s, GoodActor(s), Frugal(s), s.pc # "hold", s.acct \in Account
    PROVE  LET o == Granted(q, s)
           IN  /\ o.pool = q /\ Frugal(o.next) /\ o.next.pc = "hold"
               /\ o.next.acct = s.acct /\ o.next.epoch = s.epoch
<1> DEFINE n == [s EXCEPT !.pc = "hold", !.excluded = {}, !.todo = {},
                          !.attempted = @ \cup {s.acct}, !.touched = @ \cup {s.acct},
                          !.order = [a \in Account |-> 0]]
<1>1. /\ n.pc = "hold" /\ n.attempted = s.attempted \cup {s.acct}
      /\ n.touched = s.touched \cup {s.acct} /\ n.acct = s.acct /\ n.epoch = s.epoch
  BY DEF GoodActor, ActorState
<1>2. Granted(q, s) = Outcome(q, n)
  BY DEF Granted
<1> HIDE DEF n
<1>3. s.attempted \in SUBSET Account /\ s.touched = s.attempted /\ Cardinality(s.attempted) < 2
  BY DEF GoodActor, ActorState, Frugal
<1>4. Cardinality(n.attempted) <= 2
  BY <1>1, <1>3, OneMore
<1>5. Frugal(n)
  BY <1>1, <1>3, <1>4 DEF Frugal
<1> QED
  BY <1>1, <1>2, <1>5, OutcomeFields

\* An outcome that is tame is lawful.
LEMMA TameOutcome ==
    ASSUME NEW p, NEW s, Frugal(s), s.pc # "hold", NEW o, Tame(p, o)
    PROVE  Lawful(p, s, o.pool, o.next)
BY TameLawful DEF Tame

\* ensureValidAccount returned a token: a lane on the route hands it out only if the
\* route is still the one that was read.
LEMMA TokenReturnedLawful ==
    ASSUME NEW p, GoodPool(p), NEW s, GoodActor(s), Frugal(s), s.pc # "hold", s.acct \in Account,
           NEW refreshed \in BOOLEAN,
           NEW o, o = TokenReturned(p, s, refreshed)
    PROVE  Lawful(p, s, o.pool, o.next)
<1> DEFINE w == Cardinality({a \in Account : s.order[a] > 0}) + 1
           r == [s EXCEPT !.pc = "rebind", !.lane = "none"]
           g == Granted(p, s)
           h == Granted(RotateSpreadCursor(p, w), s)
<1>1. Calm(p, p) /\ p \in Pool
  BY EnsureCalm, GoodParts
<1>2. Tame(p, EnterRoute(p, s, s.excluded \cup {s.acct})) /\ Tame(p, PreferredFails(p, s))
  BY <1>1, ExcludedGood, EnterRouteTame, PreferredFailsTame
<1>3. s.lane = "spread" => Tame(p, NextSpreadRow(p, s))
  BY NextSpreadRowTame
<1>4. Tame(p, Outcome(p, Idle))
  BY <1>1, IdleFrugal, OutcomeFields DEF Tame
<1>5. Tame(p, Outcome(p, r))
  <2>1. r.pc = "rebind" /\ r.touched = s.touched /\ r.attempted = s.attempted /\ r.lane = "none"
    BY DEF GoodActor, ActorState
  <2> HIDE DEF r
  <2>2. Frugal(r)
    BY <2>1, FrugalKept DEF OnRoute
  <2> QED
    BY <1>1, <2>1, <2>2, OutcomeFields DEF Tame
<1>6. s.lane \in OnRoute /\ StillRouted(p, s) => Lawful(p, s, g.pool, g.next)
  <2> SUFFICES ASSUME s.lane \in OnRoute, StillRouted(p, s) PROVE Lawful(p, s, g.pool, g.next)
    OBVIOUS
  <2>1. /\ g.pool = p /\ Frugal(g.next) /\ g.next.pc = "hold"
        /\ g.next.acct = s.acct /\ g.next.epoch = s.epoch
    BY GrantedFrugal
  <2> HIDE DEF g
  <2>2. p.active = s.acct /\ p.epoch = s.epoch /\ p.active # NoAccount
    BY PoolAssumption DEF StillRouted
  <2>3. s.acct \in AvailableAccounts(p)
    BY <2>2 DEF GoodPool, UsablePool
  <2> QED
    BY <2>1, <2>2, <2>3 DEF Lawful
<1>7. s.lane \notin OnRoute => Lawful(p, s, g.pool, g.next) /\ Lawful(p, s, h.pool, h.next)
  <2>1. Frugal(g.next) /\ Frugal(h.next)
    BY GrantedFrugal
  <2> HIDE DEF g, h
  <2> QED
    BY <2>1 DEF Lawful
<1>8. \/ o = g /\ s.lane \in OnRoute /\ StillRouted(p, s)
      \/ o \in {g, h} /\ s.lane \notin OnRoute
      \/ o = NextSpreadRow(p, s) /\ s.lane = "spread"
      \/ o \in {EnterRoute(p, s, s.excluded \cup {s.acct}), PreferredFails(p, s),
                Outcome(p, Idle), Outcome(p, r)}
  <2> HIDE DEF g, h, w, r
  <2>1. CASE s.lane = "route"
    BY <2>1 DEF TokenReturned, OnRoute, g
  <2>2. CASE s.lane = "preferred"
    BY <2>2 DEF TokenReturned, OnRoute, g
  <2>3. CASE s.lane = "spread"
    BY <2>3 DEF TokenReturned, OnRoute, h, w
  <2>4. CASE s.lane = "bound"
    BY <2>4 DEF TokenReturned, OnRoute, g, r
  <2>5. CASE s.lane \notin {"route", "preferred", "spread", "bound"}
    BY <2>5 DEF TokenReturned
  <2> QED
    BY <2>1, <2>2, <2>3, <2>4, <2>5
<1> HIDE DEF g, h, r
<1> QED
  BY <1>2, <1>3, <1>4, <1>5, <1>6, <1>7, <1>8, TameOutcome

\* ensureValidAccount failed: a lane on the route moves it only under the generation
\* that was read.
LEMMA TokenFailedLawful ==
    ASSUME NEW p, GoodPool(p), NEW s, GoodActor(s), Frugal(s), s.pc # "hold", s.acct \in Account,
           NEW kind, NEW o, o = TokenFailed(p, s, kind)
    PROVE  Lawful(p, s, o.pool, o.next)
<1> DEFINE f == ReportAccountFailure(p, s.acct, kind, s.epoch)
           g == ReportAccountFailure(p, s.acct, kind, NoEpoch)
           x == s.excluded \cup {s.acct}
<1>1. GoodPool(f) /\ GoodPool(g)
  BY ReportFailureGood DEF Good
<1>2. s.epoch # NoEpoch
  BY PoolAssumption DEF GoodActor, ActorState
<1>3. p.active # NoAccount /\ f.active # p.active => p.epoch = s.epoch
  BY <1>2, ReportFailureMoves
<1>4. s.acct # NoAccount /\ x \in SUBSET Account
  BY PoolAssumption, ExcludedGood
<1> HIDE DEF f, g, x
<1>5. CASE s.lane = "route"
  <2>1. o = EnterRoute(f, s, x)
    BY <1>5 DEF TokenFailed, f, x
  <2>2. Tame(f, o)
    BY <1>1, <1>4, <2>1, EnterRouteTame
  <2>3. Frugal(o.next) /\ o.next.pc # "hold" /\ (f.active # NoAccount => o.pool.active = f.active)
    BY <2>2 DEF Tame, Calm
  <2> QED
    BY <1>3, <1>4, <2>3 DEF Lawful
<1>6. CASE s.lane = "preferred"
  <2>1. o = Outcome(f, Idle)
    BY <1>6 DEF TokenFailed, f
  <2> QED
    BY <1>3, <1>4, <2>1, IdleFrugal, OutcomeFields DEF Lawful
<1>7. CASE s.lane \notin OnRoute
  <2>1. \/ s.lane = "spread" /\ o = NextSpreadRow(g, s)
        \/ o.next = Idle
    BY <1>7, OutcomeFields DEF TokenFailed, OnRoute, g
  <2>2. s.lane = "spread" => Tame(g, NextSpreadRow(g, s))
    BY <1>1, NextSpreadRowTame
  <2>3. Frugal(o.next) /\ o.next.pc # "hold"
    BY <2>1, <2>2, IdleFrugal DEF Tame
  <2> QED
    BY <1>7, <2>3 DEF Lawful
<1> QED
  BY <1>5, <1>6, <1>7 DEF OnRoute

-----------------------------------------------------------------------------
(* Steps, once more *)

\* Every actor that changes in a step does so lawfully.
StepLaw == \A y \in Actor : actor'[y] # actor[y] => Lawful(pool, actor[y], pool', actor'[y])

\* A lawful step of one actor.
LEMMA BecomeLawful ==
    ASSUME RouteInv, FrugalInv, NEW x \in Actor, NEW s, NEW q, Lawful(pool, actor[x], q, s),
           Become(x, s, q)
    PROVE  FrugalInv' /\ StepLaw
<1>1. pool' = q /\ \A y \in Actor : actor'[y] = IF y = x THEN s ELSE actor[y]
  BY DEF RouteInv, Become
<1>2. Frugal(s)
  BY DEF Lawful
<1>3. \A y \in Actor : Frugal(actor'[y])
  BY <1>1, <1>2 DEF FrugalInv
<1>4. StepLaw
  BY <1>1 DEF StepLaw
<1> QED
  BY <1>3, <1>4 DEF FrugalInv, Frugal

\* The same for the outcome of a selection.
LEMMA TakeLawful ==
    ASSUME RouteInv, FrugalInv, NEW x \in Actor, NEW o, Lawful(pool, actor[x], o.pool, o.next),
           Take(x, o)
    PROVE  FrugalInv' /\ StepLaw
BY BecomeLawful DEF Take

\* The steps of a request that is still selecting.
LEMMA SelectLawful ==
    ASSUME RouteInv, FrugalInv, NEW r \in Request,
           \/ SelectFresh(r)
           \/ \E a \in Account, started \in BOOLEAN : SelectForSession(r, a, started)
           \/ SelectBoundSpreadAccount(r)
           \/ Rebind(r)
           \/ SelectAgain(r)
    PROVE  FrugalInv' /\ StepLaw
<1> DEFINE s == actor[r]
           q == EnsureActiveAccountRoute(pool)
<1>0. /\ r \in Actor /\ GoodPool(pool) /\ GoodActor(s) /\ s \in ActorState /\ Frugal(s)
      /\ Calm(pool, pool) /\ Calm(pool, q)
  BY EnsureCalm DEF RouteInv, FrugalInv, Actor, GoodActor
<1>1. CASE SelectFresh(r)
  <2>1. s.pc # "hold" /\ Take(r, EnterFresh(pool, Idle))
    BY <1>1 DEF SelectFresh
  <2>2. Tame(pool, EnterFresh(pool, Idle))
    BY <1>0, IdleGood, IdleFrugal, EnterFreshTame
  <2> QED
    BY <1>0, <2>1, <2>2, TameOutcome, TakeLawful
<1>2. CASE \E a \in Account, started \in BOOLEAN : SelectForSession(r, a, started)
  <2> PICK a \in Account, started \in BOOLEAN : SelectForSession(r, a, started)
    BY <1>2
  <2> DEFINE n == [Idle EXCEPT !.session = a, !.started = started]
  <2>1. GoodActor(n) /\ n.pc = "idle" /\ n.session = a
    BY IdleGood DEF GoodActor, ActorState, Idle, PC
  <2>2. s.pc # "hold" /\ Take(r, EnterPreferred(pool, n))
    BY DEF SelectForSession
  <2>3. n.touched = Idle.touched /\ n.attempted = Idle.attempted /\ n.lane \notin OnRoute
    BY DEF Idle, OnRoute
  <2> HIDE DEF n
  <2>4. Frugal(n)
    BY <2>3, IdleFrugal, FrugalKept
  <2>5. Tame(pool, EnterPreferred(pool, n))
    BY <1>0, <2>1, <2>4, EnterPreferredTame
  <2> QED
    BY <1>0, <2>2, <2>5, TameOutcome, TakeLawful
<1>3. CASE SelectBoundSpreadAccount(r)
  <2> DEFINE v == [s EXCEPT !.pc = "verify", !.lane = "bound", !.acct = s.session, !.epoch = q.epoch]
             b == [s EXCEPT !.pc = "rebind", !.lane = "none"]
             p == IF pool.spread THEN q ELSE pool
  <2>1. s.pc # "hold" /\ (Become(r, v, q) \/ Become(r, b, p))
    BY <1>3 DEF SelectBoundSpreadAccount
  <2> HIDE DEF q
  <2>2. /\ v.touched = s.touched /\ v.attempted = s.attempted /\ v.lane = "bound" /\ v.pc = "verify"
        /\ b.touched = s.touched /\ b.attempted = s.attempted /\ b.lane = "none" /\ b.pc = "rebind"
    BY <1>0 DEF ActorState
  <2>3. Calm(pool, p)
    BY <1>0
  <2> HIDE DEF v, b, p
  <2>4. Frugal(v) /\ Frugal(b)
    BY <1>0, <2>1, <2>2, FrugalKept DEF OnRoute
  <2>5. Lawful(pool, s, q, v) /\ Lawful(pool, s, p, b)
    BY <1>0, <2>1, <2>2, <2>3, <2>4, TameLawful
  <2> QED
    BY <1>0, <2>1, <2>5, BecomeLawful
<1>4. CASE Rebind(r)
  <2> DEFINE n == [s EXCEPT !.session = NoAccount, !.started = FALSE]
  <2>1. s.pc = "rebind" /\ (Take(r, EnterFresh(pool, n)) \/ Become(r, Idle, pool))
    BY <1>4 DEF Rebind
  <2>2. /\ GoodActor(n) /\ n.pc = s.pc /\ n.touched = s.touched /\ n.attempted = s.attempted
        /\ n.lane = s.lane /\ n.acct = s.acct
    BY <1>0 DEF GoodActor, ActorState
  <2> HIDE DEF n
  <2>3. Frugal(n)
    BY <1>0, <2>1, <2>2, FrugalKept DEF Frugal
  <2>4. Tame(pool, EnterFresh(pool, n))
    BY <1>0, <2>1, <2>2, <2>3, EnterFreshTame
  <2>5. Lawful(pool, s, pool, Idle)
    BY <1>0, <2>1, IdleFrugal, TameLawful
  <2> QED
    BY <1>0, <2>1, <2>4, <2>5, TameOutcome, TakeLawful, BecomeLawful
<1>5. CASE SelectAgain(r)
  <2>1. s.pc = "again" /\ Take(r, EnterRoute(pool, s, s.attempted)) /\ s.attempted \in SUBSET Account
    BY <1>0, <1>5 DEF SelectAgain, ActorState
  <2>2. Tame(pool, EnterRoute(pool, s, s.attempted))
    BY <1>0, <2>1, EnterRouteTame
  <2> QED
    BY <1>0, <2>1, <2>2, TameOutcome, TakeLawful
<1> HIDE DEF s, q
<1> QED
  BY <1>1, <1>2, <1>3, <1>4, <1>5

\* The steps of a request that holds a selection: a report of the outcome of its call,
\* a rejection by the gate, or its end.
LEMMA HoldLawful ==
    ASSUME RouteInv, FrugalInv, NEW r \in Request,
           \/ UpstreamSucceeds(r)
           \/ \E kind \in Kinds : UpstreamFails(r, kind)
           \/ GateRejects(r)
           \/ RequestEnds(r)
    PROVE  FrugalInv' /\ StepLaw
<1> DEFINE s == actor[r]
           q == EnsureActiveAccountRoute(pool)
           again == [s EXCEPT !.pc = "again"]
<1>0. /\ r \in Actor /\ GoodPool(pool) /\ GoodActor(s) /\ s \in ActorState /\ Frugal(s)
      /\ pool.accounts \subseteq Account
  BY GoodParts DEF RouteInv, FrugalInv, Actor, GoodActor, Pool
<1>q. /\ Calm(pool, q) /\ Calm(pool, pool) /\ q.health = pool.health
  BY <1>0, EnsureCalm, EnsureKeeps
<1>a. MayFailOver(s) => Frugal(again)
  <2>1. /\ again.pc = "again" /\ again.touched = s.touched /\ again.attempted = s.attempted
        /\ again.lane = s.lane /\ again.acct = s.acct
    BY <1>0 DEF ActorState
  <2> HIDE DEF again
  <2> QED
    BY <1>0, <2>1 DEF Frugal, MayFailOver
\* A calm step that revives nobody is lawful whatever the actor goes on as.
<1>b. ASSUME NEW p, NEW n, Calm(pool, p), Frugal(n), s.acct \in Account,
             s.pc = "hold" /\ ~pool.spread =>
                \A a \in pool.accounts : p.health[a] = "healthy" => pool.health[a] = "healthy",
             s.pc = "hold" \/ n.pc # "hold"
      PROVE  Lawful(pool, s, p, n)
  BY <1>b, PoolAssumption DEF Lawful, Calm, AccountAvailable
<1>1. CASE UpstreamSucceeds(r)
  <2> DEFINE n == [s EXCEPT !.started = TRUE]
             p == ReportAccountSuccess(pool, s.acct, FALSE)
  <2>1. s.pc = "hold" /\ (Become(r, Idle, p) \/ Become(r, n, p))
    BY <1>1 DEF UpstreamSucceeds
  <2>2. /\ n.pc = s.pc /\ n.touched = s.touched /\ n.attempted = s.attempted
        /\ n.lane = s.lane /\ n.acct = s.acct
    BY <1>0 DEF ActorState
  <2>3. s.acct \in Account
    BY <1>0, <2>1 DEF GoodActor
  <2>4. /\ Calm(pool, p)
        /\ ~pool.spread => \A a \in pool.accounts : p.health[a] = "healthy" => pool.health[a] = "healthy"
    BY <1>0, <2>3, ReportSuccessMoves DEF Calm
  <2> HIDE DEF n, p
  <2>5. Frugal(n)
    BY <1>0, <2>1, <2>2 DEF Frugal
  <2>6. Lawful(pool, s, p, Idle) /\ Lawful(pool, s, p, n)
    BY <1>b, <2>1, <2>3, <2>4, <2>5, IdleFrugal
  <2> QED
    BY <1>0, <2>1, <2>6, BecomeLawful
<1>2. CASE \E kind \in Kinds : UpstreamFails(r, kind)
  <2> PICK kind \in Kinds : UpstreamFails(r, kind)
    BY <1>2
  <2> DEFINE p == ReportAccountFailure(pool, s.acct, kind, s.epoch)
  <2>1. s.pc = "hold" /\ (Become(r, Idle, p) \/ (MayFailOver(s) /\ Become(r, again, p)))
    BY DEF UpstreamFails
  <2>2. s.acct \in Account /\ s.epoch # NoEpoch /\ s.acct # NoAccount
    BY <1>0, <2>1, PoolAssumption DEF GoodActor, ActorState
  <2>3. /\ \A c \in Account : p.health[c] = "healthy" => pool.health[c] = "healthy"
        /\ pool.active # NoAccount /\ p.active # pool.active =>
              /\ pool.active = s.acct /\ pool.epoch = s.epoch
              /\ p.active # NoAccount =>
                    Nearest(pool, AvailableAccounts(p), pool.seq[s.acct], p.active)
    BY <1>0, <2>2, ReportFailureMoves
  <2> HIDE DEF p, again
  <2>4. ASSUME NEW n, Frugal(n) PROVE Lawful(pool, s, p, n)
    BY <1>0, <2>1, <2>2, <2>3, <2>4 DEF Lawful, AccountAvailable
  <2>5. Lawful(pool, s, p, Idle) /\ (MayFailOver(s) => Lawful(pool, s, p, again))
    BY <1>a, <2>4, IdleFrugal
  <2> QED
    BY <1>0, <2>1, <2>5, BecomeLawful
<1>3. CASE GateRejects(r)
  <2> DEFINE p == IF s.acct \in pool.accounts THEN q ELSE pool
  <2>1. s.pc = "hold" /\ (Become(r, Idle, p) \/ (MayFailOver(s) /\ Become(r, again, p)))
    BY <1>3 DEF GateRejects
  <2>2. s.acct \in Account
    BY <1>0, <2>1 DEF GoodActor
  <2>3. Calm(pool, p) /\ p.health = pool.health
    BY <1>q
  <2> HIDE DEF p, again
  <2>4. Lawful(pool, s, p, Idle) /\ (MayFailOver(s) => Lawful(pool, s, p, again))
    BY <1>a, <1>b, <2>1, <2>2, <2>3, IdleFrugal
  <2> QED
    BY <1>0, <2>1, <2>4, BecomeLawful
<1>4. CASE RequestEnds(r)
  <2>1. s.pc \in {"hold", "again"} /\ Become(r, Idle, pool)
    BY <1>4 DEF RequestEnds
  <2>2. Lawful(pool, s, pool, Idle)
    BY IdleFrugal DEF Lawful
  <2> QED
    BY <1>0, <2>1, <2>2, BecomeLawful
<1> QED
  BY <1>1, <1>2, <1>3, <1>4

\* Behind a route that a lane on the route found unchanged, a lawful step is lawful.
LEMMA LawfulBehind ==
    ASSUME NEW p, NEW p2, NEW s, Frugal(s), s.pc # "hold", NEW q, NEW n, Lawful(p2, s, q, n),
           s.lane \in OnRoute /\ p.active # NoAccount => p2 = p
    PROVE  Lawful(p, s, q, n)
BY PoolAssumption DEF Lawful, Frugal

\* The steps of readAccountToken, ensureValidAccount and upsertAccount.
LEMMA CredentialLawful ==
    ASSUME RouteInv, FrugalInv, NEW x \in Actor,
           \/ CredentialRead(x)
           \/ CredentialRefreshed(x)
           \/ \E kind \in Kinds : CredentialFails(x, kind)
           \/ UpsertCommit(x)
           \/ UpsertReturn(x)
    PROVE  FrugalInv' /\ StepLaw
<1> DEFINE s == actor[x]
<1>0. GoodPool(pool) /\ GoodActor(s) /\ s \in ActorState /\ Frugal(s) /\ Calm(pool, pool)
  BY EnsureCalm DEF RouteInv, FrugalInv, GoodActor
<1>1. CASE CredentialRead(x)
  <2>1. s.pc # "hold" /\ s.acct \in Account /\ Take(x, TokenReturned(pool, s, FALSE))
    BY <1>0, <1>1 DEF CredentialRead, GoodActor
  <2> QED
    BY <1>0, <2>1, TokenReturnedLawful, TakeLawful
<1>2. CASE CredentialRefreshed(x)
  <2> DEFINE n == [s EXCEPT !.pc = "persist"]
  <2>1. s.pc = "verify" /\ Become(x, n, pool)
    BY <1>2 DEF CredentialRefreshed
  <2>2. /\ n.pc = "persist" /\ n.touched = s.touched /\ n.attempted = s.attempted
        /\ n.lane = s.lane /\ n.acct = s.acct
    BY <1>0 DEF ActorState
  <2> HIDE DEF n
  <2>3. Frugal(n)
    BY <1>0, <2>1, <2>2, FrugalKept DEF Frugal
  <2> QED
    BY <1>0, <2>1, <2>2, <2>3, TameLawful, BecomeLawful
<1>3. CASE \E kind \in Kinds : CredentialFails(x, kind)
  <2> PICK kind \in Kinds : CredentialFails(x, kind)
    BY <1>3
  <2>1. s.pc # "hold" /\ s.acct \in Account /\ Take(x, TokenFailed(pool, s, kind))
    BY <1>0 DEF CredentialFails, GoodActor
  <2> QED
    BY <1>0, <2>1, TokenFailedLawful, TakeLawful
<1>4. CASE UpsertCommit(x)
  <2> DEFINE n == [s EXCEPT !.pc = "finish"]
             p == UpsertRow(pool, s.acct)
  <2>1. s.pc = "persist" /\ (Become(x, n, p) \/ Become(x, Idle, pool))
    BY <1>4 DEF UpsertCommit
  <2>2. /\ n.pc = "finish" /\ n.touched = s.touched /\ n.attempted = s.attempted
        /\ n.lane = s.lane /\ n.acct = s.acct
    BY <1>0 DEF ActorState
  <2>3. Calm(pool, p)
    <3>1. s.acct \in Account
      BY <1>0, <2>1 DEF GoodActor
    <3> QED
      BY <1>0, <3>1, UpsertRowCalm DEF Calm
  <2> HIDE DEF n, p
  <2>4. Frugal(n)
    BY <1>0, <2>1, <2>2, FrugalKept DEF Frugal
  <2>5. Lawful(pool, s, p, n) /\ Lawful(pool, s, pool, Idle)
    BY <1>0, <2>1, <2>2, <2>3, <2>4, IdleFrugal, TameLawful
  <2> QED
    BY <2>1, <2>5, BecomeLawful
<1>5. CASE UpsertReturn(x)
  <2> DEFINE p == UpsertFinish(pool, s.acct, s.lane = "oauth")
             o == TokenReturned(p, s, TRUE)
  <2>1. s.pc = "finish" /\ s.acct \in Account /\ Take(x, o)
    BY <1>0, <1>5 DEF UpsertReturn, GoodActor
  <2>2. GoodPool(p)
    BY <1>0, UpsertFinishGood DEF Good
  <2>3. s.lane \in OnRoute /\ pool.active # NoAccount => p = pool
    BY <1>0, EnsureKeeps DEF UpsertFinish, OnRoute
  <2> HIDE DEF p
  <2>4. Lawful(p, s, o.pool, o.next)
    BY <1>0, <2>1, <2>2, TokenReturnedLawful
  <2> HIDE DEF o
  <2>5. Lawful(pool, s, o.pool, o.next)
    BY <1>0, <2>1, <2>3, <2>4, LawfulBehind
  <2> QED
    BY <2>1, <2>5, TakeLawful
<1> QED
  BY <1>1, <1>2, <1>3, <1>4, <1>5

\* The maintenance alarm and the OAuth callback begin.
LEMMA BeginLawful ==
    ASSUME RouteInv, FrugalInv,
           \/ \E x \in Alarm : AlarmRefresh(x)
           \/ \E x \in OAuth, a \in Account : Authorize(x, a)
    PROVE  FrugalInv' /\ StepLaw
<1> DEFINE q == EnsureActiveAccountRoute(pool)
<1>0. GoodPool(pool) /\ Calm(pool, q) /\ Calm(pool, pool)
  BY EnsureCalm DEF RouteInv
<1>1. CASE \E x \in Alarm : AlarmRefresh(x)
  <2> PICK x \in Alarm : AlarmRefresh(x)
    BY <1>1
  <2> DEFINE n == [Idle EXCEPT !.pc = "verify", !.lane = "alarm", !.acct = q.active, !.epoch = q.epoch]
  <2>1. x \in Actor /\ actor[x].pc = "idle" /\ (Become(x, Idle, q) \/ Become(x, n, q))
    BY DEF AlarmRefresh, Actor
  <2> HIDE DEF q
  <2>2. n.touched = Idle.touched /\ n.attempted = Idle.attempted /\ n.lane = "alarm" /\ n.pc = "verify"
    BY DEF Idle
  <2> HIDE DEF n
  <2>3. Frugal(n)
    BY <2>2, IdleFrugal, FrugalKept DEF OnRoute
  <2>4. Lawful(pool, actor[x], q, n) /\ Lawful(pool, actor[x], q, Idle)
    BY <1>0, <2>1, <2>2, <2>3, IdleFrugal, TameLawful DEF FrugalInv
  <2> QED
    BY <2>1, <2>4, BecomeLawful
<1>2. CASE \E x \in OAuth, a \in Account : Authorize(x, a)
  <2> PICK x \in OAuth, a \in Account : Authorize(x, a)
    BY <1>2
  <2> DEFINE n == [Idle EXCEPT !.pc = "persist", !.lane = "oauth", !.acct = a]
  <2>1. x \in Actor /\ actor[x].pc = "idle" /\ Become(x, n, pool)
    BY DEF Authorize, Actor
  <2>2. n.touched = Idle.touched /\ n.attempted = Idle.attempted /\ n.lane = "oauth" /\ n.pc = "persist"
    BY DEF Idle
  <2> HIDE DEF n
  <2>3. Frugal(n)
    BY <2>2, IdleFrugal, FrugalKept DEF OnRoute
  <2>4. Lawful(pool, actor[x], pool, n)
    BY <1>0, <2>1, <2>2, <2>3, TameLawful DEF FrugalInv
  <2> QED
    BY <2>1, <2>4, BecomeLawful
<1> QED
  BY <1>1, <1>2

\* Eviction: a call that is lost inside the object moves nothing.
LEMMA RestartLawful ==
    ASSUME RouteInv, FrugalInv, Restart
    PROVE  FrugalInv' /\ StepLaw
<1>1. \A y \in Actor : actor'[y] = IF actor[y].pc \in {"verify", "persist", "finish"}
                                   THEN Idle ELSE actor[y]
  BY DEF Restart
<1>2. Calm(pool, pool')
  BY RestartCalm DEF RouteInv, Restart, Calm
<1>3. \A y \in Actor : Frugal(actor'[y])
  BY <1>1, IdleFrugal DEF FrugalInv
<1>4. StepLaw
  <2> SUFFICES ASSUME NEW y \in Actor, actor'[y] # actor[y]
               PROVE  Lawful(pool, actor[y], pool', actor'[y])
    BY DEF StepLaw
  <2>1. actor[y].pc # "hold" /\ actor'[y] = Idle /\ Frugal(actor[y])
    BY <1>1 DEF FrugalInv
  <2> QED
    BY <1>2, <2>1, IdleFrugal, TameLawful
<1> QED
  BY <1>3, <1>4 DEF FrugalInv, Frugal

\* The operator and the clock change no actor.
LEMMA AdminLawful ==
    ASSUME FrugalInv, UNCHANGED actor
    PROVE  FrugalInv' /\ StepLaw
BY DEF FrugalInv, Frugal, StepLaw

\* Every step is lawful for every actor that it changes.
LEMMA NextLawful == RouteInv /\ FrugalInv /\ [Next]_vars => FrugalInv' /\ StepLaw
<1> SUFFICES ASSUME RouteInv, FrugalInv, [Next]_vars PROVE FrugalInv' /\ StepLaw
  OBVIOUS
<1>1. CASE UNCHANGED vars
  BY <1>1, AdminLawful DEF vars
<1>2. CASE \/ \E a \in Account : Activate(a) \/ Delete(a) \/ CooldownElapses(a)
           \/ \E batch \in Batches : \E chosen \in DOMAIN batch : Import(batch, chosen)
           \/ \E enabled \in SpreadSettings : SetSpread(enabled)
  BY <1>2, AdminLawful DEF Activate, Delete, CooldownElapses, Import, SetSpread, Administer
<1>3. CASE Restart
  BY <1>3, RestartLawful
<1> QED
  BY <1>1, <1>2, <1>3, SelectLawful, HoldLawful, CredentialLawful, BeginLawful DEF Next

\* Both layers hold in every state.
THEOREM FrugalInvariance == Spec => [](RouteInv /\ FrugalInv)
<1>1. Init => FrugalInv
  BY IdleFrugal DEF Init, FrugalInv
<1> QED
  BY <1>1, InitInv, NextInv, NextLawful, PTL DEF Spec

-----------------------------------------------------------------------------
(* The theorems *)

\* Every state of the pool and of every actor is well typed.
THEOREM TypeCorrect == Spec => []TypeOK
<1>1. RouteInv => TypeOK
  BY DEF RouteInv, GoodPool, TypeOK
<1> QED
  BY <1>1, Invariance, PTL

\* No request is ever routed to an isolated, cooling or deleted account: the owner
\* of the route exists and is available after every transaction of TenantState.
THEOREM RouteIsUsable == Spec => []ActiveIsUsable
<1>1. RouteInv => ActiveIsUsable
  BY DEF RouteInv, GoodPool, UsablePool, ActiveIsUsable
<1> QED
  BY <1>1, Invariance, PTL

\* No mixture of authorizations, deletions, migrations and restarts gives two rows
\* one sequence number.
THEOREM OrderIsTotal == Spec => []SequencesDistinct
<1>1. RouteInv => SequencesDistinct
  BY DEF RouteInv, GoodPool, OrderedPool, SequencesDistinct
<1> QED
  BY <1>1, Invariance, PTL

\* The epoch of the route is a fence: it never falls, and the owner never changes
\* without it.
THEOREM EpochIsFence == Spec => EpochNamesRoute
<1>1. RouteInv /\ [Next]_vars
      => [pool'.epoch >= pool.epoch /\ (pool'.active # pool.active => pool'.epoch > pool.epoch)]_vars
  BY NextInv DEF EpochFenced
<1> QED
  BY <1>1, Invariance, PTL DEF Spec, EpochNamesRoute

\* One logical request is given at most two accounts, however failures, gate
\* rejections and rebinding are interleaved.
THEOREM TwoAccounts == Spec => []AtMostTwoAccounts
<1>1. FrugalInv => AtMostTwoAccounts
  BY DEF FrugalInv, Frugal, AtMostTwoAccounts, Actor
<1> QED
  BY <1>1, FrugalInvariance, PTL

\* A late result neither moves a route that has moved on nor revives an account
\* that a failure put to sleep.
THEOREM LateResults == Spec => LateResultsAreFenced
<1>1. RouteInv /\ FrugalInv /\ [Next]_vars =>
         [\A r \in Request : actor'[r] # actor[r] =>
          /\ /\ actor[r].lane \in {"route", "preferred"}
             /\ pool.active = actor[r].acct /\ pool'.active # pool.active
             => actor[r].epoch = pool.epoch
          /\ ~pool.spread /\ actor[r].pc = "hold" /\ actor[r].epoch # pool.epoch
             => \A a \in pool.accounts : AccountAvailable(pool', a) => AccountAvailable(pool, a)]_vars
  BY NextLawful DEF StepLaw, Lawful, OnRoute, Actor
<1> QED
  BY <1>1, FrugalInvariance, PTL DEF Spec, LateResultsAreFenced

\* The failed call of a request advances the route to the adjacent account that is
\* healthy, and passes nobody over.
THEOREM AdjacentAccount == Spec => NoHealthyAccountSkipped
<1>1. RouteInv /\ FrugalInv /\ [Next]_vars =>
         [\A r \in Request :
            /\ actor[r].pc = "hold" /\ actor'[r] # actor[r]
            /\ pool.active = actor[r].acct
            /\ pool'.active \notin {pool.active, NoAccount}
            => \A c \in AvailableAccounts(pool') \ {pool'.active} :
                  ~Between(pool, pool.active, c, pool'.active)]_vars
  BY NextLawful DEF StepLaw, Lawful, Actor, Nearest, Between
<1> QED
  BY <1>1, FrugalInvariance, PTL DEF Spec, NoHealthyAccountSkipped

\* No await between reading the route and returning the token lets a request leave
\* with an account that does not own the route any more.
THEOREM SelectionIsCurrent == Spec => RouteSelectionIsCurrent
<1>1. RouteInv /\ FrugalInv /\ [Next]_vars =>
         [\A r \in Request :
            /\ actor[r].pc # "hold" /\ actor'[r].pc = "hold"
            /\ actor[r].lane \in {"route", "preferred"}
            => /\ actor'[r].acct = pool'.active /\ actor'[r].epoch = pool'.epoch
               /\ actor'[r].acct \in AvailableAccounts(pool')]_vars
  BY NextLawful DEF StepLaw, Lawful, OnRoute, Actor
<1> QED
  BY <1>1, FrugalInvariance, PTL DEF Spec, RouteSelectionIsCurrent
=============================================================================
