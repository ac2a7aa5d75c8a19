----------------------------- MODULE TenantPool -----------------------------
(***************************************************************************)
(* The account pool of the TenantState Durable Object (tenant-state.ts):   *)
(* which Microsoft accounts exist, in which order, how healthy each one    *)
(* is, and which single account owns the global route under which epoch.   *)
(*                                                                         *)
(* The pool is one record, because the code changes it only inside         *)
(* synchronous SQLite work: an operator here takes the pool before a       *)
(* statement group and returns the pool after it.  AccountRoute and        *)
(* UpstreamGate hold such a record as state and build their actions from   *)
(* these operators.                                                        *)
(*                                                                         *)
(* Health abstracts the account_health row to what accountAvailabilityRow  *)
(* reads from it: "healthy" stands for no row, a healthy row, or a cooldown *)
(* whose time has passed; the length of a cooldown is not modelled, it     *)
(* ends at some arbitrary later moment (CooldownElapses).                  *)
(***************************************************************************)
EXTENDS Integers, FiniteSets

CONSTANTS
    Account,      \* the accounts an operator may authorize
    NoAccount,    \* the empty active_account_id
    NoEpoch,      \* an omitted expectedRouteEpoch argument
    MaxAccounts   \* the deployment's MAX_ACCOUNTS

ASSUME PoolAssumption ==
    /\ IsFiniteSet(Account)
    /\ NoAccount \notin Account
    /\ NoEpoch \notin Nat
    /\ MaxAccounts \in Nat \ {0}

Health == {"healthy", "cooldown", "isolated"}

\* AccountFailureKind of account-routing.ts
FailureKind == {"rate_limit", "transient", "auth", "permanent"}

Pool ==
    [ accounts : SUBSET Account,            \* rows of the accounts table
      seq      : [Account -> Nat],          \* sequence_no; 0 when there is no row
      counter  : Nat,                       \* meta account_sequence_counter
      health   : [Account -> Health],
      active   : Account \cup {NoAccount},  \* meta active_account_id
      epoch    : Nat,                       \* meta active_account_epoch
      spread   : BOOLEAN,                   \* meta account_spread_enabled
      cursor   : Nat ]                      \* meta account_spread_cursor

EmptyPool ==
    [ accounts |-> {}, seq |-> [a \in Account |-> 0], counter |-> 0,
      health |-> [a \in Account |-> "healthy"], active |-> NoAccount,
      epoch |-> 0, spread |-> FALSE, cursor |-> 0 ]

-----------------------------------------------------------------------------
(* Availability and order *)

AccountAvailable(p, a) == p.health[a] = "healthy"

AvailableAccounts(p) == {a \in p.accounts : AccountAvailable(p, a)}

\* The account of S that ORDER BY sequence_no puts first.
FirstOf(p, S) ==
    IF S = {} THEN NoAccount
    ELSE CHOOSE a \in S : \A b \in S : p.seq[a] <= p.seq[b]

\* Mutant: the successor ignores where the route stands.
NextFromStart(p, S, after) == FirstOf(p, S)

\* orderedAvailableAccounts(after)[0] among S: the next one in sequence order,
\* wrapping around to the first.
NextAfter(p, S, after) ==
    LET later == {a \in S : p.seq[a] > after}
    IN  IF later # {} THEN FirstOf(p, later) ELSE FirstOf(p, S)

-----------------------------------------------------------------------------
(* The active route *)

StoreActiveAccountRoute(p, a, e) == [p EXCEPT !.active = a, !.epoch = e]

\* The account whose queued waiters one storeActiveAccountRoute call deletes.
RetiredBy(p, q) == IF p.active = q.active THEN {} ELSE {p.active} \cap Account

\* Keeps an active account that exists and is available; otherwise selects the
\* first available one under a new epoch.  With nothing available the epoch
\* still grows on every call: the code compares undefined with "".
EnsureActiveAccountRoute(p) ==
    IF p.active \in AvailableAccounts(p) THEN p
    ELSE StoreActiveAccountRoute(p, FirstOf(p, AvailableAccounts(p)), p.epoch + 1)

\* Compare-and-swap of the route away from account a.
AdvanceActiveAccount(p, a, expected) ==
    IF p.active # a \/ (expected # NoEpoch /\ p.epoch # expected) THEN p
    ELSE StoreActiveAccountRoute(p,
            NextAfter(p, AvailableAccounts(p) \ {a},
                      IF a \in p.accounts THEN p.seq[a] ELSE 0),
            p.epoch + 1)

-----------------------------------------------------------------------------
(* Health reports *)

HealthAfter(kind) == IF kind \in {"auth", "permanent"} THEN "isolated" ELSE "cooldown"

\* Is a failure report for account a under generation "expected" acted upon,
\* once the route r has been ensured?
FailureCounts(r, a, expected) ==
    IF r.active # a THEN r.spread ELSE expected = NoEpoch \/ r.epoch = expected

\* Mutant: the generation of the reporter is not compared.
FailureOfAnyGeneration(p, a, kind, expected) ==
    LET r == EnsureActiveAccountRoute(p)
        h == [r EXCEPT !.health[a] = HealthAfter(kind)]
    IN  IF a \notin p.accounts \/ ~FailureCounts(r, a, NoEpoch) THEN r
        ELSE AdvanceActiveAccount(h, a, NoEpoch)

ReportAccountFailure(p, a, kind, expected) ==
    LET r == EnsureActiveAccountRoute(p)
        h == [r EXCEPT !.health[a] = HealthAfter(kind)]
    IN  IF a \notin p.accounts THEN p
        ELSE IF ~FailureCounts(r, a, expected) THEN r
        ELSE AdvanceActiveAccount(h, a, expected)

\* The accounts whose waiters a failure report deletes: the route may be stored
\* twice, once when it is ensured and once when it advances.
RetiredByFailure(p, a, kind, expected) ==
    IF a \notin p.accounts THEN {}
    ELSE LET r == EnsureActiveAccountRoute(p)
         IN  RetiredBy(p, r) \cup RetiredBy(r, ReportAccountFailure(p, a, kind, expected))

\* allowInactive is set only by the re-authorization of an account.
ReportAccountSuccess(p, a, allowInactive) ==
    LET r == IF allowInactive THEN p ELSE EnsureActiveAccountRoute(p)
    IN  IF ~allowInactive /\ r.active # a /\ ~r.spread THEN r
        ELSE [r EXCEPT !.health[a] = "healthy"]

\* Wall-clock time passes the cooldown_until of account a.
CooldownElapsed(p, a) ==
    [p EXCEPT !.health[a] = IF @ = "cooldown" THEN "healthy" ELSE @]

-----------------------------------------------------------------------------
(* Operator actions *)

\* May the account row be written: it exists, or there is room for it.
HasRoom(p, a) == a \in p.accounts \/ Cardinality(p.accounts) < MaxAccounts

\* The transaction of upsertAccount: the row keeps its place in the order, a
\* new row is appended; health is not touched.
UpsertRow(p, a) ==
    EnsureActiveAccountRoute(
        IF a \in p.accounts THEN p
        ELSE [p EXCEPT !.accounts = @ \cup {a}, !.seq[a] = p.counter + 1, !.counter = @ + 1])

\* What upsertAccount does after its mirror I/O.
UpsertFinish(p, a, resetHealth) ==
    EnsureActiveAccountRoute(IF resetHealth THEN ReportAccountSuccess(p, a, TRUE) ELSE p)

\* Mutant: a manual switch keeps the epoch.
ActivateInSameEpoch(p, a) ==
    IF a \notin AvailableAccounts(p) THEN p ELSE StoreActiveAccountRoute(p, a, p.epoch)

ActivateAccount(p, a) ==
    IF a \notin AvailableAccounts(p) \/ p.active = a THEN p
    ELSE StoreActiveAccountRoute(p, a, p.epoch + 1)

\* Mutant: the route keeps pointing at the deleted account.
DeleteKeepsRoute(p, a) ==
    [p EXCEPT !.accounts = @ \ {a}, !.seq[a] = 0, !.health[a] = "healthy"]

DeleteAccount(p, a) ==
    LET q == [p EXCEPT !.accounts = @ \ {a}, !.seq[a] = 0, !.health[a] = "healthy"]
    IN  IF p.active # a THEN q
        ELSE StoreActiveAccountRoute(q, NextAfter(q, AvailableAccounts(q), p.seq[a]), p.epoch + 1)

\* A migration batch is a sequence of distinct accounts; batch[k] gets sequence
\* number k, every other row moves behind the batch, and batch[chosen] becomes
\* the active account.
ImportFits(p, batch) ==
    Cardinality(p.accounts \cup {batch[k] : k \in DOMAIN batch}) <= MaxAccounts

PositionIn(batch, a) == CHOOSE k \in DOMAIN batch : batch[k] = a

\* Mutant: the rows outside the batch keep their numbers.
ImportWithoutShift(p, batch, chosen) ==
    LET imported == {batch[k] : k \in DOMAIN batch}
    IN  StoreActiveAccountRoute(
            [p EXCEPT !.accounts = @ \cup imported,
                      !.seq = [a \in Account |-> IF a \in imported THEN PositionIn(batch, a) ELSE @[a]],
                      !.health = [a \in Account |-> IF a \in imported THEN "healthy" ELSE @[a]]],
            batch[chosen], p.epoch + 1)

ImportAccounts(p, batch, chosen) ==
    LET n        == Cardinality(DOMAIN batch)
        imported == {batch[k] : k \in DOMAIN batch}
        rows     == p.accounts \cup imported
        newSeq   == [a \in Account |->
                        IF a \in imported THEN PositionIn(batch, a)
                        ELSE IF a \in p.accounts THEN p.seq[a] + n ELSE 0]
        top      == CHOOSE m \in {newSeq[a] : a \in rows} : \A a \in rows : newSeq[a] <= m
    IN  StoreActiveAccountRoute(
            [p EXCEPT !.accounts = rows, !.seq = newSeq, !.counter = top,
                      !.health = [a \in Account |-> IF a \in imported THEN "healthy" ELSE @[a]]],
            batch[chosen],
            IF p.active = batch[chosen] THEN p.epoch ELSE p.epoch + 1)

SetAccountSpreadEnabled(p, enabled) == [p EXCEPT !.spread = enabled, !.cursor = 0]

\* migrate() of a restarted object: the counter never falls behind the rows.
RestartPool(p) ==
    LET top == IF p.accounts = {} THEN 0
               ELSE CHOOSE m \in {p.seq[a] : a \in p.accounts} : \A a \in p.accounts : p.seq[a] <= m
    IN  EnsureActiveAccountRoute([p EXCEPT !.counter = IF top > @ THEN top ELSE @])

-----------------------------------------------------------------------------
(* Credential fence and session spread *)

\* No health row means available, so a deleted account passes while spread is on.
CanUseAccountToken(p, a) == p.active = a \/ (p.spread /\ AccountAvailable(p, a))

\* The position of account a in the walk of selectSpreadAccount, which starts at
\* the cursor and wraps around the available accounts.
SpreadRank(p, a) ==
    LET n    == Cardinality(AvailableAccounts(p))
        rank == Cardinality({b \in AvailableAccounts(p) : p.seq[b] < p.seq[a]})
    IN  (rank + n - (p.cursor % n)) % n

RotateSpreadCursor(p, rows) == [p EXCEPT !.cursor = (@ + 1) % rows]
=============================================================================
