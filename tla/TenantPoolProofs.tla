-------------------------- MODULE TenantPoolProofs --------------------------
(***************************************************************************)
(* What every operation on the account pool preserves, for any set of      *)
(* accounts.  The lemmas are cited by the proofs of the state machines     *)
(* that hold a pool.                                                       *)
(***************************************************************************)
EXTENDS TenantPool, Sequences, FiniteSetTheorems, WellFoundedInduction, TLAPS

\* The owner of the route exists and is available.
UsablePool(p) == p.active # NoAccount => p.active \in AvailableAccounts(p)

\* Sequence numbers are distinct and were all drawn from the counter.
OrderedPool(p) ==
    /\ \A a, b \in p.accounts : p.seq[a] = p.seq[b] => a = b
    /\ \A a \in p.accounts : p.seq[a] \in 1..p.counter

\* Between p and q the epoch does not fall, and grows when the owner changes.
EpochFenced(p, q) ==
    /\ q.epoch >= p.epoch
    /\ q.active # p.active => q.epoch > p.epoch

GoodPool(p) == p \in Pool /\ UsablePool(p) /\ OrderedPool(p)

\* An operation takes a good pool to a good pool across the fence.
Good(p, q) == GoodPool(q) /\ EpochFenced(p, q)

-----------------------------------------------------------------------------
\* The naturals are well ordered.
LEMMA NatMin ==
    ASSUME NEW S \in SUBSET Nat, S # {}
    PROVE  \E m \in S : \A x \in S : m <= x
<1>1. IsWellFoundedOn(OpToRel(<, Nat), Nat)
  BY NatLessThanWellFounded
<1>2. PICK m \in S : \A x \in S : ~(<<x, m>> \in OpToRel(<, Nat))
  BY <1>1, WFMin
<1>3. \A x \in S : ~(x < m)
  BY <1>2 DEF OpToRel
<1> QED
  BY <1>3

\* A bounded set of naturals has a largest member.
LEMMA NatMax ==
    ASSUME NEW S \in SUBSET Nat, S # {}, NEW n \in Nat, \A x \in S : x <= n
    PROVE  \E m \in S : \A x \in S : x <= m
<1> DEFINE D == {n - x : x \in S}
<1>0. \A x \in S : n - x \in Nat
  OBVIOUS
<1>1. D \in SUBSET Nat /\ D # {}
  BY <1>0
<1>2. PICK d \in D : \A e \in D : d <= e
  BY <1>1, NatMin
<1>3. PICK m \in S : d = n - m
  OBVIOUS
<1>4. \A x \in S : n - m <= n - x
  BY <1>2, <1>3
<1> QED
  BY <1>3, <1>4

-----------------------------------------------------------------------------
\* ORDER BY sequence_no has a first row.
LEMMA FirstOfIn ==
    ASSUME NEW p \in Pool, NEW S \in SUBSET Account
    PROVE  IF S = {} THEN FirstOf(p, S) = NoAccount ELSE FirstOf(p, S) \in S
<1> SUFFICES ASSUME S # {} PROVE FirstOf(p, S) \in S
  BY DEF FirstOf
<1> DEFINE N == {p.seq[a] : a \in S}
<1>1. N \in SUBSET Nat /\ N # {}
  BY DEF Pool
<1>2. PICK m \in N : \A x \in N : m <= x
  BY <1>1, NatMin
<1>3. \E a \in S : \A b \in S : p.seq[a] <= p.seq[b]
  BY <1>2
<1> QED
  BY <1>3 DEF FirstOf

\* The walk of advanceActiveAccount ends in the set it walks, or with no account.
LEMMA NextAfterIn ==
    ASSUME NEW p \in Pool, NEW S \in SUBSET Account, NEW n
    PROVE  IF S = {} THEN NextAfter(p, S, n) = NoAccount ELSE NextAfter(p, S, n) \in S
<1> DEFINE L == {a \in S : p.seq[a] > n}
<1>1. IF S = {} THEN FirstOf(p, S) = NoAccount ELSE FirstOf(p, S) \in S
  BY FirstOfIn
<1>2. L # {} => FirstOf(p, L) \in L
  BY FirstOfIn
<1> QED
  BY <1>1, <1>2 DEF NextAfter

\* orderedAvailableAccounts yields accounts.
LEMMA AvailableInAccount ==
    ASSUME NEW p \in Pool
    PROVE  AvailableAccounts(p) \in SUBSET Account
BY DEF AvailableAccounts, Pool

-----------------------------------------------------------------------------
\* Storing a route: the new owner is available and the epoch grows with it.
LEMMA StoreGood ==
    ASSUME NEW p \in Pool, OrderedPool(p), NEW a \in AvailableAccounts(p) \cup {NoAccount},
           NEW e \in Nat, e >= p.epoch, a # p.active => e > p.epoch
    PROVE  Good(p, StoreActiveAccountRoute(p, a, e))
<1> DEFINE q == StoreActiveAccountRoute(p, a, e)
<1>1. q \in Pool
  BY AvailableInAccount DEF StoreActiveAccountRoute, Pool
<1>2. /\ q.accounts = p.accounts /\ q.seq = p.seq /\ q.counter = p.counter
      /\ q.health = p.health /\ q.active = a /\ q.epoch = e
  BY DEF StoreActiveAccountRoute, Pool
<1> HIDE DEF q
<1>3. UsablePool(q)
  BY <1>2 DEF UsablePool, AvailableAccounts, AccountAvailable
<1>4. OrderedPool(q)
  BY <1>2 DEF OrderedPool
<1>5. EpochFenced(p, q)
  BY <1>2 DEF EpochFenced
<1>6. Good(p, q)
  BY <1>1, <1>3, <1>4, <1>5 DEF Good, GoodPool
<1> QED
  BY <1>6 DEF q

\* ensureActiveAccountRoute repairs any pool whose rows are ordered.
LEMMA EnsureGood ==
    ASSUME NEW p \in Pool, OrderedPool(p)
    PROVE  Good(p, EnsureActiveAccountRoute(p))
<1>1. CASE p.active \in AvailableAccounts(p)
  BY <1>1 DEF EnsureActiveAccountRoute, Good, GoodPool, UsablePool, EpochFenced, Pool
<1>2. CASE p.active \notin AvailableAccounts(p)
  <2>1. FirstOf(p, AvailableAccounts(p)) \in AvailableAccounts(p) \cup {NoAccount}
    BY FirstOfIn, AvailableInAccount
  <2>2. p.epoch \in Nat
    BY DEF Pool
  <2>3. p.epoch + 1 \in Nat /\ p.epoch + 1 >= p.epoch /\ p.epoch + 1 > p.epoch
    BY <2>2
  <2> QED
    BY <1>2, <2>1, <2>3, StoreGood DEF EnsureActiveAccountRoute
<1> QED
  BY <1>1, <1>2

\* The fence composes: an operation may store the route more than once.
LEMMA GoodTrans ==
    ASSUME NEW p \in Pool, NEW q, NEW r, Good(p, q), Good(q, r)
    PROVE  Good(p, r)
BY DEF Good, GoodPool, EpochFenced, Pool

\* Leaving a good pool alone is good.
LEMMA GoodRefl == ASSUME NEW p, GoodPool(p) PROVE Good(p, p)
BY DEF Good, GoodPool, EpochFenced, Pool

\* A change of health, spread or cursor alone: good as long as the owner of the
\* route stays available.
LEMMA SideGood ==
    ASSUME NEW p, GoodPool(p), NEW q \in Pool,
           q.accounts = p.accounts, q.seq = p.seq, q.counter = p.counter,
           q.active = p.active, q.epoch = p.epoch,
           p.active \in p.accounts => q.health[p.active] = "healthy"
    PROVE  Good(p, q)
<1>1. UsablePool(q)
  BY DEF GoodPool, UsablePool, AvailableAccounts, AccountAvailable
<1>2. OrderedPool(q)
  BY DEF GoodPool, OrderedPool
<1>3. EpochFenced(p, q)
  BY DEF EpochFenced, GoodPool, Pool
<1> QED
  BY <1>1, <1>2, <1>3 DEF Good, GoodPool

-----------------------------------------------------------------------------
\* A failure report takes health away, and the route with it when the account
\* owns the route.
LEMMA ReportFailureGood ==
    ASSUME NEW p, GoodPool(p), NEW a, NEW kind, NEW expected
    PROVE  Good(p, ReportAccountFailure(p, a, kind, expected))
<1> DEFINE r == EnsureActiveAccountRoute(p)
           h == [r EXCEPT !.health[a] = HealthAfter(kind)]
           to == NextAfter(h, AvailableAccounts(h) \ {a}, IF a \in h.accounts THEN h.seq[a] ELSE 0)
<1>1. p \in Pool /\ OrderedPool(p)
  BY DEF GoodPool
<1>2. Good(p, r)
  BY <1>1, EnsureGood
<1>3. r \in Pool /\ UsablePool(r) /\ OrderedPool(r) /\ GoodPool(r)
  BY <1>2 DEF Good, GoodPool
<1> HIDE DEF r
<1>4. /\ h \in Pool
      /\ h.accounts = r.accounts /\ h.seq = r.seq /\ h.counter = r.counter
      /\ h.active = r.active /\ h.epoch = r.epoch
      /\ \A b \in Account : b # a => h.health[b] = r.health[b]
  BY <1>3 DEF Pool, HealthAfter, Health
<1> HIDE DEF h
<1>5. CASE a \notin p.accounts
  BY <1>5, GoodRefl DEF ReportAccountFailure
<1>6. CASE a \in p.accounts /\ ~FailureCounts(r, a, expected)
  BY <1>2, <1>6 DEF ReportAccountFailure, r
<1>7. CASE a \in p.accounts /\ FailureCounts(r, a, expected) /\ r.active # a
  <2>1. r.active \in r.accounts => h.health[r.active] = "healthy"
    BY <1>3, <1>4, <1>7, PoolAssumption DEF UsablePool, AvailableAccounts, AccountAvailable, Pool
  <2>2. Good(r, h)
    BY <1>3, <1>4, <2>1, SideGood
  <2>3. AdvanceActiveAccount(h, a, expected) = h
    BY <1>4, <1>7 DEF AdvanceActiveAccount
  <2> QED
    BY <1>1, <1>2, <1>7, <2>2, <2>3, GoodTrans DEF ReportAccountFailure, r, h
<1>8. CASE a \in p.accounts /\ FailureCounts(r, a, expected) /\ r.active = a
  <2>1. to \in AvailableAccounts(h) \cup {NoAccount} /\ to # a
    <3>1. AvailableAccounts(h) \ {a} \in SUBSET Account
      BY <1>4, AvailableInAccount
    <3>2. a # NoAccount
      BY <1>1, <1>8, PoolAssumption DEF Pool
    <3> QED
      BY <1>4, <3>1, <3>2, NextAfterIn
  <2>2. OrderedPool(h)
    BY <1>3, <1>4 DEF OrderedPool
  <2>3. h.epoch + 1 \in Nat /\ h.epoch + 1 >= h.epoch /\ h.epoch + 1 > h.epoch
    BY <1>4 DEF Pool
  <2>4. Good(h, StoreActiveAccountRoute(h, to, h.epoch + 1))
    BY <1>4, <2>1, <2>2, <2>3, StoreGood
  <2>5. AdvanceActiveAccount(h, a, expected) = StoreActiveAccountRoute(h, to, h.epoch + 1)
    BY <1>4, <1>8 DEF AdvanceActiveAccount, FailureCounts
  <2>6. Good(r, StoreActiveAccountRoute(h, to, h.epoch + 1))
    BY <1>4, <2>4 DEF Good, EpochFenced
  <2> QED
    BY <1>1, <1>2, <1>8, <2>5, <2>6, GoodTrans DEF ReportAccountFailure, r, h
<1> QED
  BY <1>5, <1>6, <1>7, <1>8

\* A success only adds health.
LEMMA ReportSuccessGood ==
    ASSUME NEW p, GoodPool(p), NEW a, NEW allowInactive
    PROVE  Good(p, ReportAccountSuccess(p, a, allowInactive))
<1> DEFINE r == IF allowInactive THEN p ELSE EnsureActiveAccountRoute(p)
           h == [r EXCEPT !.health[a] = "healthy"]
<1>1. p \in Pool /\ OrderedPool(p)
  BY DEF GoodPool
<1>2. Good(p, r)
  BY <1>1, EnsureGood, GoodRefl
<1>3. GoodPool(r) /\ r \in Pool
  BY <1>2 DEF Good, GoodPool
<1> HIDE DEF r
<1>4. /\ h \in Pool
      /\ h.accounts = r.accounts /\ h.seq = r.seq /\ h.counter = r.counter
      /\ h.active = r.active /\ h.epoch = r.epoch
      /\ \A b \in Account : r.health[b] = "healthy" => h.health[b] = "healthy"
  BY <1>3 DEF Pool, Health
<1>5. Good(r, h)
  <2> HIDE DEF h
  <2>1. r.active \in r.accounts => h.health[r.active] = "healthy"
    BY <1>3, <1>4, PoolAssumption DEF GoodPool, UsablePool, AvailableAccounts, AccountAvailable, Pool
  <2> QED
    BY <1>3, <1>4, <2>1, SideGood
<1>6. Good(p, h)
  BY <1>1, <1>2, <1>5, GoodTrans
<1>7. ReportAccountSuccess(p, a, allowInactive) \in {r, h}
  BY DEF ReportAccountSuccess, r
<1> QED
  BY <1>2, <1>6, <1>7

\* The end of a cooldown keeps the route.
LEMMA CooldownGood ==
    ASSUME NEW p, GoodPool(p), NEW a
    PROVE  Good(p, CooldownElapsed(p, a))
<1> DEFINE q == CooldownElapsed(p, a)
<1>1. /\ q \in Pool
      /\ q.accounts = p.accounts /\ q.seq = p.seq /\ q.counter = p.counter
      /\ q.active = p.active /\ q.epoch = p.epoch
      /\ \A b \in Account : p.health[b] = "healthy" => q.health[b] = "healthy"
  BY DEF GoodPool, CooldownElapsed, Pool, Health
<1> HIDE DEF q
<1>2. p.active \in p.accounts => q.health[p.active] = "healthy"
  BY <1>1, PoolAssumption DEF GoodPool, UsablePool, AvailableAccounts, AccountAvailable, Pool
<1>3. Good(p, q)
  BY <1>1, <1>2, SideGood
<1> QED
  BY <1>3 DEF q

\* Switching session spread on or off keeps the route.
LEMMA SpreadGood ==
    ASSUME NEW p, GoodPool(p), NEW enabled \in BOOLEAN
    PROVE  Good(p, SetAccountSpreadEnabled(p, enabled))
<1> DEFINE q == SetAccountSpreadEnabled(p, enabled)
<1>1. /\ q \in Pool
      /\ q.accounts = p.accounts /\ q.seq = p.seq /\ q.counter = p.counter
      /\ q.active = p.active /\ q.epoch = p.epoch /\ q.health = p.health
  BY DEF GoodPool, SetAccountSpreadEnabled, Pool
<1> HIDE DEF q
<1>2. p.active \in p.accounts => q.health[p.active] = "healthy"
  BY <1>1, PoolAssumption DEF GoodPool, UsablePool, AvailableAccounts, AccountAvailable, Pool
<1>3. Good(p, q)
  BY <1>1, <1>2, SideGood
<1> QED
  BY <1>3 DEF q

\* Rotating the spread cursor keeps the route.
LEMMA RotateGood ==
    ASSUME NEW p, GoodPool(p), NEW n \in Nat \ {0}
    PROVE  Good(p, RotateSpreadCursor(p, n))
<1> DEFINE q == RotateSpreadCursor(p, n)
<1>0. p.cursor \in Nat /\ (p.cursor + 1) % n \in Nat
  BY DEF GoodPool, Pool
<1>1. /\ q \in Pool
      /\ q.accounts = p.accounts /\ q.seq = p.seq /\ q.counter = p.counter
      /\ q.active = p.active /\ q.epoch = p.epoch /\ q.health = p.health
  BY <1>0 DEF GoodPool, RotateSpreadCursor, Pool
<1> HIDE DEF q
<1>2. p.active \in p.accounts => q.health[p.active] = "healthy"
  BY <1>1, PoolAssumption DEF GoodPool, UsablePool, AvailableAccounts, AccountAvailable, Pool
<1>3. Good(p, q)
  BY <1>1, <1>2, SideGood
<1> QED
  BY <1>3 DEF q

-----------------------------------------------------------------------------
\* A row is added behind all others, or written in its place.
LEMMA UpsertRowGood ==
    ASSUME NEW p, GoodPool(p), NEW a \in Account
    PROVE  Good(p, UpsertRow(p, a))
<1> DEFINE n == [p EXCEPT !.accounts = @ \cup {a}, !.seq[a] = p.counter + 1, !.counter = @ + 1]
<1>1. p \in Pool /\ OrderedPool(p)
  BY DEF GoodPool
<1>2. CASE a \in p.accounts
  BY <1>1, <1>2, EnsureGood DEF UpsertRow
<1>3. CASE a \notin p.accounts
  <2>0. p.counter \in Nat /\ p.seq \in [Account -> Nat] /\ p.accounts \in SUBSET Account
    BY <1>1 DEF Pool
  <2>1. /\ n.accounts = p.accounts \cup {a} /\ n.counter = p.counter + 1
        /\ n.active = p.active /\ n.epoch = p.epoch
        /\ \A b \in Account : n.seq[b] = IF b = a THEN p.counter + 1 ELSE p.seq[b]
    BY <1>1, <2>0 DEF Pool
  <2>2. n \in Pool
    <3>1. /\ p.counter + 1 \in Nat /\ p.accounts \cup {a} \in SUBSET Account
          /\ [p.seq EXCEPT ![a] = p.counter + 1] \in [Account -> Nat]
      BY <2>0
    <3> QED
      BY <1>1, <3>1 DEF Pool
  <2> HIDE DEF n
  <2>3. OrderedPool(n)
    BY <1>1, <1>3, <2>0, <2>1, <2>2 DEF OrderedPool
  <2>4. Good(n, EnsureActiveAccountRoute(n))
    BY <2>2, <2>3, EnsureGood
  <2>5. Good(p, EnsureActiveAccountRoute(n))
    BY <2>1, <2>4 DEF Good, EpochFenced
  <2> QED
    BY <1>3, <2>5 DEF UpsertRow, n
<1> QED
  BY <1>2, <1>3

\* upsertAccount's last part, which resets the health and ensures a route.
LEMMA UpsertFinishGood ==
    ASSUME NEW p, GoodPool(p), NEW a, NEW reset
    PROVE  Good(p, UpsertFinish(p, a, reset))
<1> DEFINE q == IF reset THEN ReportAccountSuccess(p, a, TRUE) ELSE p
<1>1. Good(p, q)
  BY ReportSuccessGood, GoodRefl
<1>2. p \in Pool /\ q \in Pool /\ OrderedPool(q)
  BY <1>1 DEF Good, GoodPool
<1> HIDE DEF q
<1>3. Good(q, EnsureActiveAccountRoute(q))
  BY <1>2, EnsureGood
<1>4. Good(p, EnsureActiveAccountRoute(q))
  BY <1>1, <1>2, <1>3, GoodTrans
<1> QED
  BY <1>4 DEF UpsertFinish, q

\* activateAccount moves the route to an available account under a new epoch.
LEMMA ActivateGood ==
    ASSUME NEW p, GoodPool(p), NEW a
    PROVE  Good(p, ActivateAccount(p, a))
<1>1. p \in Pool /\ OrderedPool(p)
  BY DEF GoodPool
<1>2. p.epoch + 1 \in Nat /\ p.epoch + 1 >= p.epoch /\ p.epoch + 1 > p.epoch
  BY <1>1 DEF Pool
<1>3. a \in AvailableAccounts(p) => Good(p, StoreActiveAccountRoute(p, a, p.epoch + 1))
  BY <1>1, <1>2, StoreGood
<1> QED
  BY <1>3, GoodRefl DEF ActivateAccount

\* deleteAccount leaves a route that is usable, or none.
LEMMA DeleteGood ==
    ASSUME NEW p, GoodPool(p), NEW a
    PROVE  Good(p, DeleteAccount(p, a))
<1> DEFINE q == [p EXCEPT !.accounts = @ \ {a}, !.seq[a] = 0, !.health[a] = "healthy"]
           to == NextAfter(q, AvailableAccounts(q), p.seq[a])
<1>1. p \in Pool /\ OrderedPool(p) /\ UsablePool(p)
  BY DEF GoodPool
<1>2. /\ q \in Pool /\ q.accounts = p.accounts \ {a} /\ q.counter = p.counter
      /\ q.active = p.active /\ q.epoch = p.epoch
      /\ \A b \in Account \ {a} : q.seq[b] = p.seq[b] /\ q.health[b] = p.health[b]
  BY <1>1 DEF Pool, Health
<1> HIDE DEF q
<1>3. OrderedPool(q)
  BY <1>1, <1>2 DEF OrderedPool, Pool
<1>4. CASE p.active # a
  <2>1. UsablePool(q)
    BY <1>1, <1>2, <1>4 DEF UsablePool, AvailableAccounts, AccountAvailable, Pool
  <2>2. Good(p, q)
    BY <1>2, <1>3, <2>1 DEF Good, GoodPool, EpochFenced, Pool
  <2> QED
    BY <1>4, <2>2 DEF DeleteAccount, q
<1>5. CASE p.active = a
  <2>1. to \in AvailableAccounts(q) \cup {NoAccount}
    BY <1>2, NextAfterIn, AvailableInAccount
  <2>2. q.epoch + 1 \in Nat /\ q.epoch + 1 >= q.epoch /\ q.epoch + 1 > q.epoch
    BY <1>2 DEF Pool
  <2>3. Good(q, StoreActiveAccountRoute(q, to, q.epoch + 1))
    BY <1>2, <1>3, <2>1, <2>2, StoreGood
  <2>4. Good(p, StoreActiveAccountRoute(q, to, q.epoch + 1))
    BY <1>2, <2>3 DEF Good, EpochFenced
  <2> QED
    BY <1>2, <1>5, <2>4 DEF DeleteAccount, q
<1> QED
  BY <1>4, <1>5

\* A restart never lowers the counter below a row.
LEMMA RestartGood ==
    ASSUME NEW p, GoodPool(p)
    PROVE  Good(p, RestartPool(p))
<1> DEFINE N == {p.seq[a] : a \in p.accounts}
           top == IF p.accounts = {} THEN 0
                  ELSE CHOOSE m \in N : \A a \in p.accounts : p.seq[a] <= m
           q == [p EXCEPT !.counter = IF top > @ THEN top ELSE @]
<1>1. p \in Pool /\ OrderedPool(p)
  BY DEF GoodPool
<1>2. p.accounts # {} => \E m \in N : \A a \in p.accounts : p.seq[a] <= m
  <2> SUFFICES ASSUME p.accounts # {} PROVE \E m \in N : \A a \in p.accounts : p.seq[a] <= m
    OBVIOUS
  <2>1. N \in SUBSET Nat /\ N # {} /\ p.counter \in Nat /\ \A x \in N : x <= p.counter
    BY <1>1 DEF Pool, OrderedPool
  <2>2. \E m \in N : \A x \in N : x <= m
    BY <2>1, NatMax
  <2> QED
    BY <2>2
<1>3. top \in Nat
  BY <1>1, <1>2 DEF Pool
<1> HIDE DEF top
<1>4. /\ q \in Pool /\ q.accounts = p.accounts /\ q.seq = p.seq /\ q.counter >= p.counter
      /\ q.active = p.active /\ q.epoch = p.epoch
  BY <1>1, <1>3 DEF Pool
<1> HIDE DEF q
<1>5. OrderedPool(q)
  BY <1>1, <1>4 DEF OrderedPool, Pool
<1>6. Good(q, EnsureActiveAccountRoute(q))
  BY <1>4, <1>5, EnsureGood
<1>7. Good(p, EnsureActiveAccountRoute(q))
  BY <1>4, <1>6 DEF Good, EpochFenced
<1> QED
  BY <1>7 DEF RestartPool, q, top

-----------------------------------------------------------------------------
\* A migration renumbers every row without a collision.
LEMMA ImportGood ==
    ASSUME NEW p, GoodPool(p), NEW batch \in Seq(Account),
           \A i, j \in DOMAIN batch : batch[i] = batch[j] => i = j,
           NEW chosen \in DOMAIN batch
    PROVE  Good(p, ImportAccounts(p, batch, chosen))
<1> DEFINE n == Cardinality(DOMAIN batch)
           imported == {batch[k] : k \in DOMAIN batch}
           rows == p.accounts \cup imported
           newSeq == [a \in Account |->
                        IF a \in imported THEN PositionIn(batch, a)
                        ELSE IF a \in p.accounts THEN p.seq[a] + n ELSE 0]
           N == {newSeq[a] : a \in rows}
           top == CHOOSE m \in N : \A a \in rows : newSeq[a] <= m
           h == [a \in Account |-> IF a \in imported THEN "healthy" ELSE p.health[a]]
           q == [p EXCEPT !.accounts = rows, !.seq = newSeq, !.counter = top, !.health = h]
           e == IF p.active = batch[chosen] THEN p.epoch ELSE p.epoch + 1
<1>1. /\ p \in Pool /\ OrderedPool(p) /\ p.counter \in Nat /\ p.epoch \in Nat
      /\ p.accounts \in SUBSET Account /\ p.seq \in [Account -> Nat]
      /\ p.health \in [Account -> Health]
  BY DEF GoodPool, Pool
<1>2. DOMAIN batch = 1..Len(batch) /\ Len(batch) \in Nat /\ n = Len(batch)
  <2>1. DOMAIN batch = 1..Len(batch) /\ Len(batch) \in Nat
    OBVIOUS
  <2>2. Cardinality(1..Len(batch)) = IF 1 > Len(batch) THEN 0 ELSE Len(batch) - 1 + 1
    BY <2>1, FS_Interval
  <2> QED
    BY <2>1, <2>2
<1> HIDE DEF n
<1>3. rows \in SUBSET Account /\ batch[chosen] \in imported /\ rows # {}
  <2>1. \A k \in DOMAIN batch : batch[k] \in Account
    OBVIOUS
  <2>2. imported \in SUBSET Account
    BY <2>1
  <2>3. batch[chosen] \in imported
    OBVIOUS
  <2> HIDE DEF imported
  <2> QED
    BY <1>1, <2>2, <2>3
<1>4. \A a \in imported : PositionIn(batch, a) \in 1..n /\ batch[PositionIn(batch, a)] = a
  BY <1>2 DEF PositionIn
<1>5. newSeq \in [Account -> Nat]
  BY <1>1, <1>2, <1>4, SMTT(40)
<1>6. \A a \in rows : newSeq[a] = IF a \in imported THEN PositionIn(batch, a) ELSE p.seq[a] + n
  BY <1>3
<1> HIDE DEF newSeq, imported
<1>6a. \A a \in p.accounts : p.seq[a] \in Nat /\ 1 <= p.seq[a] /\ p.seq[a] <= p.counter
  BY <1>1 DEF OrderedPool
<1>6b. \A a \in rows :
         \/ a \in imported /\ newSeq[a] \in 1..n /\ batch[newSeq[a]] = a
         \/ /\ a \in p.accounts /\ newSeq[a] = p.seq[a] + n
            /\ newSeq[a] > n /\ newSeq[a] <= p.counter + n
  BY <1>1, <1>2, <1>4, <1>6, <1>6a, SMTT(40)
<1>7. \A a, b \in rows : newSeq[a] = newSeq[b] => a = b
  <2> SUFFICES ASSUME NEW a \in rows, NEW b \in rows, newSeq[a] = newSeq[b] PROVE a = b
    OBVIOUS
  <2> HIDE DEF rows
  <2>0. newSeq[a] \in Nat /\ newSeq[b] \in Nat /\ n \in Nat
    BY <1>2, <1>3, <1>5
  <2>1. CASE newSeq[a] <= n
    <3>1. batch[newSeq[a]] = a /\ batch[newSeq[b]] = b
      BY <1>6b, <2>0, <2>1
    <3> QED
      BY <3>1
  <2>2. CASE ~(newSeq[a] <= n)
    <3>1. /\ a \in p.accounts /\ newSeq[a] = p.seq[a] + n
          /\ b \in p.accounts /\ newSeq[b] = p.seq[b] + n
      BY <1>6b, <2>0, <2>2
    <3>2. p.seq[a] = p.seq[b]
      <4>1. p.seq[a] \in Nat /\ p.seq[b] \in Nat
        BY <1>6a, <3>1
      <4>2. p.seq[a] + n = p.seq[b] + n
        BY <3>1
      <4>3. \A x, y, z \in Nat : x + z = y + z => x = y
        OBVIOUS
      <4> QED
        BY <2>0, <4>1, <4>2, <4>3, Zenon
    <3> QED
      BY <1>1, <3>1, <3>2 DEF OrderedPool
  <2> QED
    BY <2>1, <2>2
<1>8. /\ N \in SUBSET Nat /\ N # {} /\ p.counter + n \in Nat
      /\ \A x \in N : x <= p.counter + n /\ x >= 1
  <2>1. \A a \in rows : newSeq[a] \in Nat /\ newSeq[a] <= p.counter + n /\ newSeq[a] >= 1
    BY <1>1, <1>2, <1>3, <1>5, <1>6b, SMTT(40)
  <2> QED
    BY <1>1, <1>2, <1>3, <2>1
<1>9. top \in N /\ \A a \in rows : newSeq[a] <= top
  <2>1. \E m \in N : \A x \in N : x <= m
    BY <1>8, NatMax
  <2>2. \E m \in N : \A a \in rows : newSeq[a] <= m
    BY <2>1
  <2> QED
    BY <2>2
<1>10. top \in Nat /\ \A a \in rows : newSeq[a] \in 1..top
  <2>1. top \in Nat
    BY <1>8, <1>9
  <2>2. \A a \in rows : newSeq[a] \in Nat /\ newSeq[a] >= 1
    BY <1>8
  <2> HIDE DEF top, N
  <2> QED
    BY <1>9, <2>1, <2>2
<1> HIDE DEF top, N
<1>11. h \in [Account -> Health] /\ h[batch[chosen]] = "healthy"
  BY <1>1, <1>3 DEF Health
<1> HIDE DEF h, rows
<1>12. /\ q.accounts = rows /\ q.seq = newSeq /\ q.counter = top /\ q.health = h
       /\ q.active = p.active /\ q.epoch = p.epoch
  BY <1>1 DEF Pool
<1>13. q \in Pool
  BY <1>1, <1>3, <1>5, <1>10, <1>11 DEF Pool
<1> HIDE DEF q
<1>14. OrderedPool(q)
  BY <1>7, <1>10, <1>12 DEF OrderedPool
<1>15. batch[chosen] \in AvailableAccounts(q)
  BY <1>11, <1>12 DEF AvailableAccounts, AccountAvailable, rows, imported
<1>16. e \in Nat /\ e >= q.epoch /\ (batch[chosen] # q.active => e > q.epoch)
  BY <1>1, <1>12
<1>17. Good(q, StoreActiveAccountRoute(q, batch[chosen], e))
  BY <1>13, <1>14, <1>15, <1>16, StoreGood
<1>18. Good(p, StoreActiveAccountRoute(q, batch[chosen], e))
  BY <1>12, <1>17 DEF Good, EpochFenced
<1>19. ImportAccounts(p, batch, chosen) = StoreActiveAccountRoute(q, batch[chosen], e)
  BY DEF ImportAccounts, q, h, rows, top, N, newSeq, imported, n
<1> QED
  BY <1>18, <1>19
-----------------------------------------------------------------------------
(* What an operation leaves alone *)

\* b is the first of S behind position n, reading the order of p cyclically.
Nearest(p, S, n, b) ==
    \A c \in S : IF n < p.seq[b] THEN ~(n < p.seq[c] /\ p.seq[c] < p.seq[b])
                 ELSE ~(n < p.seq[c]) /\ ~(p.seq[c] < p.seq[b])

\* ORDER BY sequence_no puts nobody before the first row.
LEMMA FirstOfLeast ==
    ASSUME NEW p \in Pool, NEW S \in SUBSET Account, NEW c \in S
    PROVE  FirstOf(p, S) \in S /\ p.seq[FirstOf(p, S)] <= p.seq[c]
<1> DEFINE N == {p.seq[a] : a \in S}
<1>1. N \in SUBSET Nat /\ N # {}
  BY DEF Pool
<1>2. PICK m \in N : \A x \in N : m <= x
  BY <1>1, NatMin
<1>3. \E a \in S : \A b \in S : p.seq[a] <= p.seq[b]
  BY <1>2
<1> QED
  BY <1>3 DEF FirstOf

\* advanceActiveAccount passes nobody over.
LEMMA NextAfterNearest ==
    ASSUME NEW p \in Pool, NEW S \in SUBSET Account, S # {}, NEW n \in Nat
    PROVE  Nearest(p, S, n, NextAfter(p, S, n))
<1> DEFINE L == {a \in S : p.seq[a] > n}
           b == NextAfter(p, S, n)
<1>0. p.seq \in [Account -> Nat]
  BY DEF Pool
<1>1. CASE L # {}
  <2>1. b = FirstOf(p, L) /\ L \in SUBSET Account
    BY <1>1 DEF NextAfter
  <2>2. b \in L /\ \A c \in L : p.seq[b] <= p.seq[c]
    BY <1>1, <2>1, FirstOfLeast
  <2> HIDE DEF b
  <2> QED
    BY <1>0, <2>2 DEF Nearest, b
<1>2. CASE L = {}
  <2>1. b = FirstOf(p, S)
    BY <1>2 DEF NextAfter
  <2>2. b \in S /\ \A c \in S : p.seq[b] <= p.seq[c]
    BY <2>1, FirstOfLeast
  <2>3. \A c \in S : p.seq[c] <= n
    BY <1>0, <1>2
  <2> HIDE DEF b
  <2> QED
    BY <1>0, <2>2, <2>3 DEF Nearest, b
<1> QED
  BY <1>1, <1>2

\* ensureActiveAccountRoute touches the route alone, and not even that when the
\* route has an owner that is usable.
LEMMA EnsureKeeps ==
    ASSUME NEW p, GoodPool(p)
    PROVE  /\ EnsureActiveAccountRoute(p).accounts = p.accounts
           /\ EnsureActiveAccountRoute(p).seq = p.seq
           /\ EnsureActiveAccountRoute(p).health = p.health
           /\ EnsureActiveAccountRoute(p).spread = p.spread
           /\ p.active # NoAccount => EnsureActiveAccountRoute(p) = p
BY DEF EnsureActiveAccountRoute, StoreActiveAccountRoute, GoodPool, UsablePool, Pool

\* A failure report only takes health away; it moves a route that has an owner only
\* away from the account it is about, under the generation the reporter read, and
\* then to the nearest account that is left.
LEMMA ReportFailureMoves ==
    ASSUME NEW p, GoodPool(p), NEW a \in Account, NEW kind, NEW expected,
           NEW q, q = ReportAccountFailure(p, a, kind, expected)
    PROVE  /\ q.seq = p.seq /\ q.accounts = p.accounts
           /\ \A c \in Account : q.health[c] = "healthy" => p.health[c] = "healthy"
           /\ p.active # NoAccount /\ q.active # p.active =>
                 /\ p.active = a /\ (expected = NoEpoch \/ p.epoch = expected)
                 /\ q.active # NoAccount => Nearest(p, AvailableAccounts(q), p.seq[a], q.active)
<1> DEFINE r == EnsureActiveAccountRoute(p)
           h == [r EXCEPT !.health[a] = HealthAfter(kind)]
           S == AvailableAccounts(h) \ {a}
           to == NextAfter(h, S, IF a \in h.accounts THEN h.seq[a] ELSE 0)
<1>1. p \in Pool /\ Good(p, r)
  BY EnsureGood DEF GoodPool
<1>2. r \in Pool /\ r.accounts = p.accounts /\ r.seq = p.seq /\ r.health = p.health
      /\ (p.active # NoAccount => r = p)
  BY <1>1, EnsureKeeps DEF Good, GoodPool
<1> HIDE DEF r
<1>3. /\ h \in Pool
      /\ h.accounts = r.accounts /\ h.seq = r.seq /\ h.active = r.active /\ h.epoch = r.epoch
      /\ h.health[a] # "healthy"
      /\ \A b \in Account : b # a => h.health[b] = r.health[b]
  BY <1>2 DEF Pool, HealthAfter, Health
<1> HIDE DEF h
<1>4. CASE a \notin p.accounts
  BY <1>4 DEF ReportAccountFailure
<1>5. CASE a \in p.accounts /\ ~FailureCounts(r, a, expected)
  <2>1. q = r
    BY <1>5 DEF ReportAccountFailure, r
  <2> QED
    BY <1>2, <2>1
<1>6. CASE a \in p.accounts /\ FailureCounts(r, a, expected) /\ r.active # a
  <2>1. q = h
    BY <1>3, <1>6 DEF ReportAccountFailure, AdvanceActiveAccount, r, h
  <2> QED
    BY <1>2, <1>3, <2>1
<1>7. CASE a \in p.accounts /\ FailureCounts(r, a, expected) /\ r.active = a
  <2>1. q = StoreActiveAccountRoute(h, to, h.epoch + 1) /\ (expected = NoEpoch \/ r.epoch = expected)
    BY <1>3, <1>7 DEF ReportAccountFailure, AdvanceActiveAccount, FailureCounts, r, h
  <2> HIDE DEF to
  <2>2. q.seq = h.seq /\ q.accounts = h.accounts /\ q.health = h.health /\ q.active = to
    BY <1>3, <2>1 DEF StoreActiveAccountRoute, Pool
  <2>3. AvailableAccounts(q) = S
    BY <1>3, <2>2 DEF AvailableAccounts, AccountAvailable
  <2>4. p.seq[a] \in Nat /\ to = NextAfter(h, S, p.seq[a]) /\ S \in SUBSET Account
    BY <1>1, <1>2, <1>3, <1>7, AvailableInAccount DEF to, Pool
  <2> HIDE DEF S
  <2>5. to # NoAccount => Nearest(h, S, p.seq[a], to)
    <3>1. S = {} => to = NoAccount
      BY <1>3, <2>4, NextAfterIn
    <3> QED
      BY <1>3, <2>4, <3>1, NextAfterNearest
  <2>6. to # NoAccount => Nearest(p, S, p.seq[a], to)
    BY <1>2, <1>3, <2>5 DEF Nearest
  <2> QED
    BY <1>2, <1>3, <1>7, <2>1, <2>2, <2>3, <2>6
<1> QED
  BY <1>4, <1>5, <1>6, <1>7

\* The success of a request moves no route that has an owner, and without session
\* spread it revives nobody.
LEMMA ReportSuccessMoves ==
    ASSUME NEW p, GoodPool(p), NEW a \in Account, NEW q, q = ReportAccountSuccess(p, a, FALSE)
    PROVE  /\ p.active # NoAccount => q.active = p.active
           /\ ~p.spread => \A c \in p.accounts : q.health[c] = "healthy" => p.health[c] = "healthy"
<1> DEFINE r == EnsureActiveAccountRoute(p)
<1>1. p \in Pool /\ Good(p, r)
  BY EnsureGood DEF GoodPool
<1>2. /\ r \in Pool /\ r.accounts = p.accounts /\ r.health = p.health /\ r.spread = p.spread
      /\ p.active # NoAccount => r = p
      /\ r.active # NoAccount => r.health[r.active] = "healthy"
  BY <1>1, EnsureKeeps DEF Good, GoodPool, UsablePool, AvailableAccounts, AccountAvailable
<1> HIDE DEF r
<1>3. \/ q = r
      \/ (r.spread \/ r.active = a) /\ q = [r EXCEPT !.health[a] = "healthy"]
  BY DEF ReportAccountSuccess, r
<1>4. q.active = r.active /\ \A c \in Account : c # a => q.health[c] = r.health[c]
  BY <1>2, <1>3 DEF Pool
<1>5. a # NoAccount /\ p.accounts \subseteq Account
  BY <1>1, PoolAssumption DEF Pool
<1>6. ~p.spread => q = r \/ r.health[a] = "healthy"
  BY <1>2, <1>3, <1>5
<1> QED
  BY <1>2, <1>4, <1>5, <1>6

\* The row of upsertAccount moves no route that has a usable owner.
LEMMA UpsertRowCalm ==
    ASSUME NEW p, GoodPool(p), NEW a \in Account, p.active # NoAccount
    PROVE  UpsertRow(p, a).active = p.active
<1> DEFINE q == [p EXCEPT !.accounts = @ \cup {a}, !.seq[a] = p.counter + 1, !.counter = @ + 1]
<1>1. p \in Pool /\ p.active \in AvailableAccounts(p)
  BY DEF GoodPool, UsablePool
<1>2. q.active = p.active /\ q.accounts = p.accounts \cup {a} /\ q.health = p.health
  BY <1>1 DEF Pool
<1>3. UpsertRow(p, a) = EnsureActiveAccountRoute(IF a \in p.accounts THEN p ELSE q)
  BY DEF UpsertRow
<1> HIDE DEF q
<1>4. q.active \in AvailableAccounts(q)
  BY <1>1, <1>2 DEF AvailableAccounts, AccountAvailable
<1> QED
  BY <1>1, <1>2, <1>3, <1>4 DEF EnsureActiveAccountRoute

\* Neither does the migration of a restart.
LEMMA RestartCalm ==
    ASSUME NEW p, GoodPool(p), p.active # NoAccount
    PROVE  RestartPool(p).active = p.active
<1> DEFINE top == IF p.accounts = {} THEN 0
                  ELSE CHOOSE m \in {p.seq[a] : a \in p.accounts} : \A a \in p.accounts : p.seq[a] <= m
           q == [p EXCEPT !.counter = IF top > @ THEN top ELSE @]
<1>1. p \in Pool /\ p.active \in AvailableAccounts(p)
  BY DEF GoodPool, UsablePool
<1>2. RestartPool(p) = EnsureActiveAccountRoute(q)
  BY DEF RestartPool
<1> HIDE DEF top
<1>3. q.active = p.active /\ q.accounts = p.accounts /\ q.health = p.health
  BY <1>1 DEF Pool
<1> HIDE DEF q
<1>4. q.active \in AvailableAccounts(q)
  BY <1>1, <1>3 DEF AvailableAccounts, AccountAvailable
<1> QED
  BY <1>2, <1>3, <1>4 DEF EnsureActiveAccountRoute
=============================================================================
