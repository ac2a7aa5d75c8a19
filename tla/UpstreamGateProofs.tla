------------------------- MODULE UpstreamGateProofs -------------------------
(***************************************************************************)
(* The upstream gate serializes the callers that hold it, for any number   *)
(* of accounts and callers, any pool behaviour and any lease, spacing and  *)
(* polling times that satisfy GateAssumption.                              *)
(*                                                                         *)
(* HoldersSerialized is not inductive: an expired lease is granted again   *)
(* whether or not its holder is done.  What makes it hold is the race of   *)
(* two clocks, which GateInv states: the deadline of a holder comes before *)
(* the end of its lease.  Spacing and routing are about the moment of a    *)
(* grant, and every other step is shown to start no call.                  *)
(***************************************************************************)
EXTENDS UpstreamGate, TenantPoolProofs

\* The part of the type invariant that the argument needs; the queues stay opaque.
GateTypes ==
    /\ gate \in [Account -> GateRow]
    /\ caller \in [Caller -> CallerState]
    /\ GoodPool(pool)

\* A holder owns the lease of its account, and its call ends before the lease.
LeaseOutlivesCall ==
    \A c \in Caller : Holding(c) =>
        /\ caller[c].acct \in Account
        /\ gate[caller[c].acct].lease = c
        /\ caller[c].timer < gate[caller[c].acct].left
        /\ caller[c].timer + Interval <= gate[caller[c].acct].left

\* Whoever waits at the gate, or is inside it, has selected an account.
WaitersHaveAccounts ==
    \A c \in Caller : caller[c].pc # "idle" => caller[c].acct \in Account

GateInv == GateTypes /\ LeaseOutlivesCall /\ WaitersHaveAccounts

-----------------------------------------------------------------------------
\* Two holders of one account would both be the owner in its row.
LEMMA InvSerializes == GateInv => HoldersSerialized
BY DEF GateInv, LeaseOutlivesCall, HoldersSerialized

\* The invariant holds at the start.
LEMMA InitInv == Init => GateInv
<1> SUFFICES ASSUME Init PROVE GateInv
  OBVIOUS
<1>0. GoodPool(pool)
  <2> PICK order \in [Account -> 1..Cardinality(Account)] :
          /\ \A a, b \in Account : order[a] = order[b] => a = b
          /\ pool = EnsureActiveAccountRoute(
                       [EmptyPool EXCEPT !.accounts = Account, !.seq = order,
                                         !.counter = Cardinality(Account)])
    BY DEF Init
  <2> DEFINE n == Cardinality(Account)
             p == [EmptyPool EXCEPT !.accounts = Account, !.seq = order, !.counter = n]
  <2>1. n \in Nat
    BY PoolAssumption, FS_CardinalityType
  <2>2. p.accounts = Account /\ p.seq = order /\ p.counter = n
    BY DEF EmptyPool
  <2>3. p \in Pool
    <3>1. order \in [Account -> Nat]
      BY <2>1
    <3> HIDE DEF n
    <3> QED
      BY <2>1, <3>1 DEF EmptyPool, Pool, Health
  <2>4. OrderedPool(p)
    BY <2>2 DEF OrderedPool
  <2> QED
    BY <2>3, <2>4, EnsureGood DEF Good
<1>1. GateTypes
  BY <1>0, GateAssumption DEF Init, GateTypes, GateRow, FreeGate, CallerState, IdleCaller, PC
<1>2. \A c \in Caller : caller[c].pc = "idle"
  BY DEF Init, IdleCaller
<1> QED
  BY <1>1, <1>2 DEF GateInv, LeaseOutlivesCall, WaitersHaveAccounts, Holding

\* A caller that changes without becoming a holder leaves the invariant alone.
LEMMA CallerOnly ==
    ASSUME GateInv, NEW c \in Caller, NEW s \in CallerState,
           s.pc \notin {"run", "lost"} \/ (Holding(c) /\ s.acct = caller[c].acct /\ s.timer = caller[c].timer),
           s.pc # "idle" => s.acct \in Account,
           caller' = [caller EXCEPT ![c] = s], gate' = gate, GoodPool(pool')
    PROVE  GateInv'
<1>1. GateTypes'
  BY DEF GateInv, GateTypes
<1>2. LeaseOutlivesCall'
  BY DEF GateInv, GateTypes, LeaseOutlivesCall, Holding
<1>3. WaitersHaveAccounts'
  BY DEF GateInv, GateTypes, WaitersHaveAccounts
<1> QED
  BY <1>1, <1>2, <1>3 DEF GateInv

\* Moving a caller on changes nothing else of it.
LEMMA SetState ==
    ASSUME GateInv, NEW c \in Caller, NEW p \in PC
    PROVE  /\ [caller[c] EXCEPT !.pc = p] \in CallerState
           /\ [caller[c] EXCEPT !.pc = p].pc = p
           /\ [caller[c] EXCEPT !.pc = p].acct = caller[c].acct
           /\ [caller[c] EXCEPT !.pc = p].timer = caller[c].timer
BY DEF GateInv, GateTypes, CallerState, PC

\* The state of a caller before its request.
LEMMA IdleState == IdleCaller \in CallerState /\ IdleCaller.pc = "idle"
BY DEF CallerState, IdleCaller, PC

\* Releasing changes only a row that the caller owns, and the caller holds the
\* gate no longer.
LEMMA ReleaseStep ==
    ASSUME GateInv, NEW c \in Caller, NEW s \in CallerState,
           caller[c].pc \in {"run", "ended"},
           s.pc \notin {"run", "lost"},
           s.pc # "idle" => s.acct \in Account,
           caller' = [caller EXCEPT ![c] = s],
           gate' = [gate EXCEPT ![caller[c].acct] = Released(caller[c].acct, c)],
           GoodPool(pool')
    PROVE  GateInv'
<1> DEFINE a == caller[c].acct
<1>0. a \in Account
  BY DEF GateInv, WaitersHaveAccounts
<1>1. Released(a, c) \in GateRow
  BY <1>0, GateAssumption DEF GateInv, GateTypes, Released, GateRow
<1>2. GateTypes'
  BY <1>0, <1>1 DEF GateInv, GateTypes
<1>3. LeaseOutlivesCall'
  <2> SUFFICES ASSUME NEW d \in Caller, Holding(d)'
               PROVE  /\ caller'[d].acct \in Account
                      /\ gate'[caller'[d].acct].lease = d
                      /\ caller'[d].timer < gate'[caller'[d].acct].left
                      /\ caller'[d].timer + Interval <= gate'[caller'[d].acct].left
    BY DEF LeaseOutlivesCall
  <2>1. d # c /\ caller'[d] = caller[d] /\ Holding(d)
    BY DEF GateInv, GateTypes, Holding
  <2>2. gate'[caller[d].acct] = gate[caller[d].acct]
    BY <1>0, <2>1 DEF GateInv, GateTypes, LeaseOutlivesCall, Released
  <2> QED
    BY <2>1, <2>2 DEF GateInv, LeaseOutlivesCall
<1>4. WaitersHaveAccounts'
  BY DEF GateInv, GateTypes, WaitersHaveAccounts
<1> QED
  BY <1>2, <1>3, <1>4 DEF GateInv

\* The grant: the row was free, so no other caller holds the gate.
LEMMA GrantStep ==
    ASSUME GateInv, NEW c \in Caller, caller[c].pc = "enter", ~Blocked(caller[c].acct),
           caller' = [caller EXCEPT ![c] = [caller[c] EXCEPT !.pc = "run", !.timer = RunTime]],
           gate' = [gate EXCEPT ![caller[c].acct] =
                       [lease |-> c, left |-> LeaseTime, next |-> gate[caller[c].acct].next]],
           GoodPool(pool')
    PROVE  GateInv'
<1> DEFINE a == caller[c].acct
           s == [caller[c] EXCEPT !.pc = "run", !.timer = RunTime]
           row == [lease |-> c, left |-> LeaseTime, next |-> gate[a].next]
<1>0. a \in Account
  BY DEF GateInv, WaitersHaveAccounts
<1>1. s \in CallerState /\ s.pc = "run" /\ s.acct = a /\ s.timer = RunTime
  BY GateAssumption DEF GateInv, GateTypes, CallerState, PC
<1>2. row \in GateRow /\ row.lease = c /\ row.left = LeaseTime
  BY <1>0, GateAssumption DEF GateInv, GateTypes, GateRow
<1>3. caller' = [caller EXCEPT ![c] = s] /\ gate' = [gate EXCEPT ![a] = row]
  OBVIOUS
<1> HIDE DEF s, row
<1>4. GateTypes'
  BY <1>0, <1>1, <1>2, <1>3 DEF GateInv, GateTypes
<1>5. LeaseOutlivesCall'
  <2> SUFFICES ASSUME NEW d \in Caller, Holding(d)'
               PROVE  /\ caller'[d].acct \in Account
                      /\ gate'[caller'[d].acct].lease = d
                      /\ caller'[d].timer < gate'[caller'[d].acct].left
                      /\ caller'[d].timer + Interval <= gate'[caller'[d].acct].left
    BY DEF LeaseOutlivesCall
  <2>1. CASE d = c
    BY <1>0, <1>1, <1>2, <1>3, <2>1, GateAssumption DEF GateInv, GateTypes
  <2>2. CASE d # c
    <3>1. caller'[d] = caller[d] /\ Holding(d)
      BY <1>3, <2>2 DEF GateInv, GateTypes, Holding
    <3>2. caller[d].acct # a
      BY <1>0, <3>1 DEF GateInv, GateTypes, LeaseOutlivesCall, Blocked, GateRow, CallerState
    <3> QED
      BY <1>3, <3>1, <3>2 DEF GateInv, GateTypes, LeaseOutlivesCall
  <2> QED
    BY <2>1, <2>2
<1>6. WaitersHaveAccounts'
  BY <1>0, <1>1, <1>3 DEF GateInv, GateTypes, WaitersHaveAccounts
<1> QED
  BY <1>4, <1>5, <1>6 DEF GateInv

\* A dropped row detaches its holders.
LEMMA DropStep ==
    ASSUME GateInv, NEW a \in Account,
           gate' = [gate EXCEPT ![a] = FreeGate], caller' = RowDropped(a), GoodPool(pool')
    PROVE  GateInv'
<1>1. GateTypes'
  BY DEF GateInv, GateTypes, RowDropped, FreeGate, GateRow, CallerState, PC
<1>2. \A d \in Caller :
        /\ caller'[d].acct = caller[d].acct
        /\ caller'[d].timer = caller[d].timer
        /\ caller'[d].pc \in {"run", "lost"} =>
              caller[d].pc \in {"run", "lost"} /\ caller[d].acct # a
        /\ caller'[d].pc # "idle" => caller[d].pc # "idle"
  BY DEF GateInv, GateTypes, RowDropped, Holding, CallerState
<1>3. LeaseOutlivesCall'
  BY <1>2 DEF GateInv, GateTypes, LeaseOutlivesCall, Holding
<1>4. WaitersHaveAccounts'
  BY <1>2 DEF GateInv, WaitersHaveAccounts
<1> QED
  BY <1>1, <1>3, <1>4 DEF GateInv

\* Time runs equally fast for the call and for its lease.
LEMMA TickStep == GateInv /\ Tick => GateInv'
<1> SUFFICES ASSUME GateInv, Tick PROVE GateInv'
  OBVIOUS
<1>0. \A n \in Nat : Less(n) \in Nat /\ (n > 0 => Less(n) = n - 1)
  BY DEF Less
<1>1. \A c \in Caller :
        /\ caller'[c].pc = caller[c].pc
        /\ caller'[c].acct = caller[c].acct
        /\ caller'[c].timer = Less(caller[c].timer)
        /\ caller'[c] \in CallerState
  BY <1>0 DEF Tick, GateInv, GateTypes, CallerState
<1>2. \A a \in Account :
        /\ gate'[a].lease = gate[a].lease
        /\ gate'[a].left = Less(gate[a].left)
        /\ gate'[a] \in GateRow
  BY <1>0 DEF Tick, GateInv, GateTypes, GateRow
<1>3. GateTypes'
  BY <1>1, <1>2 DEF Tick, GateInv, GateTypes
<1>4. LeaseOutlivesCall'
  <2> SUFFICES ASSUME NEW c \in Caller, Holding(c)'
               PROVE  /\ caller'[c].acct \in Account
                      /\ gate'[caller'[c].acct].lease = c
                      /\ caller'[c].timer < gate'[caller'[c].acct].left
                      /\ caller'[c].timer + Interval <= gate'[caller'[c].acct].left
    BY DEF LeaseOutlivesCall
  <2>1. Holding(c)
    BY <1>1 DEF Holding
  <2>2. /\ caller[c].acct \in Account /\ gate[caller[c].acct].lease = c
        /\ caller[c].timer < gate[caller[c].acct].left
        /\ caller[c].timer + Interval <= gate[caller[c].acct].left
    BY <2>1 DEF GateInv, LeaseOutlivesCall
  <2>3. caller[c].timer > 0
    BY <2>1 DEF Tick, Running
  <2>4. caller[c].timer \in Nat /\ gate[caller[c].acct].left \in Nat
    BY <2>2 DEF GateInv, GateTypes, CallerState, GateRow
  <2> QED
    BY <1>0, <1>1, <1>2, <2>2, <2>3, <2>4, GateAssumption
<1>5. WaitersHaveAccounts'
  BY <1>1 DEF GateInv, WaitersHaveAccounts
<1> QED
  BY <1>3, <1>4, <1>5 DEF GateInv

\* A step that touches neither the gates nor the callers.
LEMMA PoolOnly ==
    ASSUME GateInv, gate' = gate, caller' = caller, GoodPool(pool')
    PROVE  GateInv'
BY DEF GateInv, GateTypes, LeaseOutlivesCall, WaitersHaveAccounts, Holding

\* The steps of a caller keep the invariant.
LEMMA CallerStepInv ==
    ASSUME GateInv, NEW c \in Caller, CallerStep(c)
    PROVE  GateInv'
<1> DEFINE a == caller[c].acct
           checked == RouteChecked(a)
<1>0. GoodPool(pool) /\ pool.epoch \in Nat /\ GoodPool(checked)
  BY EnsureGood DEF GateInv, GateTypes, GoodPool, Pool, RouteChecked, Good
<1>1. ASSUME NEW b \in Account, Start(c, b) PROVE GateInv'
  <2> DEFINE s == [pc |-> "wait", acct |-> b, epoch |-> pool.epoch, timer |-> 0]
  <2>1. s \in CallerState /\ s.pc = "wait" /\ s.acct = b
    BY <1>0 DEF CallerState, PC
  <2>2. caller' = [caller EXCEPT ![c] = s] /\ gate' = gate /\ pool' = pool
    BY <1>1 DEF Start, Set
  <2> HIDE DEF s
  <2> QED
    BY <1>0, <2>1, <2>2, CallerOnly
<1>2. CASE AcquireBegin(c)
  <2>1. /\ gate' = gate /\ pool' = checked /\ a \in Account
        /\ \E p \in {"enter", "cancel"} : caller' = [caller EXCEPT ![c] = [caller[c] EXCEPT !.pc = p]]
    BY <1>2 DEF AcquireBegin, Set, SetPool, GateInv, WaitersHaveAccounts
  <2> HIDE DEF checked
  <2> PICK p \in {"enter", "cancel"} : caller' = [caller EXCEPT ![c] = [caller[c] EXCEPT !.pc = p]]
    BY <2>1
  <2> DEFINE s == [caller[c] EXCEPT !.pc = p]
  <2>0. p \in PC
    BY DEF PC
  <2>2. s \in CallerState /\ s.pc = p /\ s.acct = a
    BY <2>0, SetState
  <2>3. caller' = [caller EXCEPT ![c] = s]
    OBVIOUS
  <2> HIDE DEF s, a
  <2> QED
    BY <1>0, <2>1, <2>2, <2>3, CallerOnly
<1>3. CASE AcquireFinish(c)
  <2>1. a \in Account /\ pool' = checked /\ caller[c].pc = "enter"
    BY <1>3 DEF AcquireFinish, SetPool, GateInv, WaitersHaveAccounts
  <2>2. \/ caller' = [caller EXCEPT ![c] = [caller[c] EXCEPT !.pc = "cancel"]] /\ gate' = gate
        \/ \E delay \in 1..PollTime :
              caller' = [caller EXCEPT ![c] = [caller[c] EXCEPT !.pc = "wait", !.timer = delay]] /\ gate' = gate
        \/ /\ ~Blocked(a)
           /\ caller' = [caller EXCEPT ![c] = [caller[c] EXCEPT !.pc = "run", !.timer = RunTime]]
           /\ gate' = [gate EXCEPT ![a] = [lease |-> c, left |-> LeaseTime, next |-> gate[a].next]]
    BY <1>3 DEF AcquireFinish, Set
  <2> HIDE DEF checked
  <2>3. CASE caller' = [caller EXCEPT ![c] = [caller[c] EXCEPT !.pc = "cancel"]] /\ gate' = gate
    BY <1>0, <2>1, <2>3, CallerOnly, SetState DEF PC
  <2>4. ASSUME NEW delay \in 1..PollTime, gate' = gate,
               caller' = [caller EXCEPT ![c] = [caller[c] EXCEPT !.pc = "wait", !.timer = delay]]
        PROVE  GateInv'
    <3> DEFINE s == [caller[c] EXCEPT !.pc = "wait", !.timer = delay]
    <3>0. delay \in Nat
      BY GateAssumption
    <3>1. s \in CallerState /\ s.pc = "wait" /\ s.acct = a
      BY <3>0 DEF GateInv, GateTypes, CallerState, PC
    <3>2. caller' = [caller EXCEPT ![c] = s]
      BY <2>4
    <3> HIDE DEF s, a
    <3> QED
      BY <1>0, <2>1, <2>4, <3>1, <3>2, CallerOnly
  <2>5. CASE /\ ~Blocked(a)
             /\ caller' = [caller EXCEPT ![c] = [caller[c] EXCEPT !.pc = "run", !.timer = RunTime]]
             /\ gate' = [gate EXCEPT ![a] = [lease |-> c, left |-> LeaseTime, next |-> gate[a].next]]
    BY <1>0, <2>1, <2>5, GrantStep
  <2> QED
    BY <2>2, <2>3, <2>4, <2>5
<1>4. CASE GiveUp(c)
  <2>1. /\ gate' = gate /\ pool' = pool /\ a \in Account
        /\ caller' = [caller EXCEPT ![c] = [caller[c] EXCEPT !.pc = "cancel"]]
    BY <1>4 DEF GiveUp, Set, GateInv, WaitersHaveAccounts
  <2> QED
    BY <1>0, <2>1, CallerOnly, SetState, IdleState DEF PC
<1>5. CASE CancelUpstreamWaiter(c)
  BY <1>0, <1>5, CallerOnly, IdleState DEF CancelUpstreamWaiter, Set
<1>6. CASE RunEnds(c)
  <2>1. /\ gate' = gate /\ pool' = pool /\ a \in Account
        /\ \/ caller' = [caller EXCEPT ![c] = IdleCaller]
           \/ caller' = [caller EXCEPT ![c] = [caller[c] EXCEPT !.pc = "ended"]]
    BY <1>6 DEF RunEnds, Set, Running, Holding, GateInv, WaitersHaveAccounts
  <2> QED
    BY <1>0, <2>1, CallerOnly, SetState, IdleState DEF PC
<1>7. CASE ReleaseUpstream(c)
  BY <1>0, <1>7, ReleaseStep, IdleState DEF ReleaseUpstream, Set
<1>8. CASE CancelTimesOut(c)
  <2>1. a \in Account
    BY <1>8 DEF CancelTimesOut, GateInv, WaitersHaveAccounts
  <2> QED
    BY <1>0, <1>8, <2>1, ReleaseStep, SetState DEF CancelTimesOut, Set, PC
<1>9. CASE WorkerLost(c)
  <2>1. /\ gate' = gate /\ pool' = pool /\ a \in Account
        /\ \/ caller' = [caller EXCEPT ![c] = IdleCaller]
           \/ Holding(c) /\ caller' = [caller EXCEPT ![c] = [caller[c] EXCEPT !.pc = "lost"]]
    BY <1>9 DEF WorkerLost, Set, Holding, GateInv, WaitersHaveAccounts
  <2> QED
    BY <1>0, <2>1, CallerOnly, SetState, IdleState DEF PC
<1> QED
  BY <1>1, <1>2, <1>3, <1>4, <1>5, <1>6, <1>7, <1>8, <1>9 DEF CallerStep

\* The eviction of the object, which loses all waiters, keeps the invariant.
LEMMA RestartInv == ASSUME GateInv, ObjectRestarts PROVE GateInv'
<1>1. GoodPool(pool') /\ gate' = gate
  BY RestartGood DEF GateInv, GateTypes, ObjectRestarts, SetPool, Good
<1>2. \A c \in Caller :
        /\ caller'[c].acct = caller[c].acct /\ caller'[c].timer = caller[c].timer
        /\ caller'[c].pc = caller[c].pc
              \/ (caller'[c].pc = "cancel" /\ caller[c].pc = "enter")
        /\ caller'[c] \in CallerState
  BY DEF GateInv, GateTypes, ObjectRestarts, CallerState, PC
<1>3. GateTypes'
  BY <1>1, <1>2 DEF GateInv, GateTypes, ObjectRestarts
<1>4. LeaseOutlivesCall'
  BY <1>1, <1>2 DEF GateInv, LeaseOutlivesCall, Holding
<1>5. WaitersHaveAccounts'
  BY <1>2 DEF GateInv, WaitersHaveAccounts
<1> QED
  BY <1>3, <1>4, <1>5 DEF GateInv

\* What happens to the pool beside the gate keeps the invariant.
LEMMA PoolStepInv == ASSUME GateInv, PoolStep PROVE GateInv'
<1>0. GoodPool(pool) /\ Fallible \cup Deletable \cup Imports \subseteq Account /\ SpreadSettings \subseteq BOOLEAN
  BY GateAssumption DEF GateInv, GateTypes
<1>1. ASSUME NEW a \in Fallible, NEW kind, AccountFails(a, kind) PROVE GateInv'
  BY <1>0, <1>1, ReportFailureGood, PoolOnly DEF AccountFails, SetPool, Good
<1>2. ASSUME NEW a \in Account, AccountRecovers(a) PROVE GateInv'
  BY <1>0, <1>2, CooldownGood, PoolOnly DEF AccountRecovers, Good
<1>3. ASSUME NEW a \in Account, Activate(a) PROVE GateInv'
  BY <1>0, <1>3, ActivateGood, PoolOnly DEF Activate, SetPool, Good
<1>4. ASSUME NEW a \in Deletable, Delete(a) PROVE GateInv'
  BY <1>0, <1>4, DeleteGood, DropStep DEF Delete, SetPool, Good
<1>5. ASSUME NEW a \in Deletable, Reauthorize(a) PROVE GateInv'
  <2>1. Good(pool, UpsertRow(pool, a))
    BY <1>0, UpsertRowGood
  <2>2. GoodPool(UpsertFinish(UpsertRow(pool, a), a, TRUE))
    BY <2>1, UpsertFinishGood DEF Good
  <2> QED
    BY <1>5, <2>2, PoolOnly DEF Reauthorize, SetPool
<1>6. ASSUME NEW a \in Imports, Import(a) PROVE GateInv'
  <2>1. <<a>> \in Seq(Account) /\ DOMAIN <<a>> = {1} /\ 1 \in DOMAIN <<a>>
    BY <1>0
  <2>2. \A i, j \in DOMAIN <<a>> : <<a>>[i] = <<a>>[j] => i = j
    BY <2>1
  <2>3. GoodPool(ImportAccounts(pool, <<a>>, 1))
    BY <1>0, <2>1, <2>2, ImportGood DEF Good
  <2> QED
    BY <1>0, <1>6, <2>3, DropStep DEF Import, SetPool
<1>7. ASSUME NEW enabled \in SpreadSettings, SetSpread(enabled) PROVE GateInv'
  BY <1>0, <1>7, SpreadGood, PoolOnly DEF SetSpread, Good
<1> QED
  BY <1>1, <1>2, <1>3, <1>4, <1>5, <1>6, <1>7 DEF PoolStep

\* Every step keeps the invariant.
LEMMA NextInv == GateInv /\ [Next]_vars => GateInv'
<1> SUFFICES ASSUME GateInv, [Next]_vars PROVE GateInv'
  OBVIOUS
<1>1. CASE UNCHANGED vars
  BY <1>1, PoolOnly DEF vars, GateInv, GateTypes
<1>2. CASE Next
  BY <1>2, CallerStepInv, RestartInv, PoolStepInv, TickStep DEF Next
<1> QED
  BY <1>1, <1>2

\* The inductive invariant: everything is well typed, whoever waits has selected an
\* account, and a caller inside a gate owns its row until after its call has ended.
THEOREM Invariance == Spec => []GateInv
BY InitInv, NextInv, PTL DEF Spec

\* Upstream calls that hold the gate of one account never overlap, for any number
\* of callers and accounts and any timing that satisfies GateAssumption.
THEOREM GateSerializes == Spec => []HoldersSerialized
BY InvSerializes, Invariance, PTL

-----------------------------------------------------------------------------
(* Spacing *)

\* The time an account still has to rest is covered by its lease or its spacing.
SpacingInv ==
    /\ quiet \in [Account -> Nat]
    /\ \A a \in Account : quiet[a] <= Interval
    /\ \A a \in Account : quiet[a] <= gate[a].left \/ quiet[a] <= gate[a].next

\* A call starts only on a rested account.
StartsRested ==
    \A c \in Caller : ~Running(c) /\ Running(c)' => quiet[caller[c].acct] = 0

\* Every gate is rested at the start.
LEMMA SpacingInit == Init => SpacingInv
BY GateAssumption DEF Init, SpacingInv, FreeGate

\* A step in which nobody starts a call and no gate changes.
LEMMA QuietStep ==
    ASSUME SpacingInv, gate' = gate, quiet' = quiet,
           \A c \in Caller : caller'[c].pc \in {"run", "lost", "detached"} => Running(c)
    PROVE  SpacingInv' /\ StartsRested
BY DEF SpacingInv, StartsRested, Running, Holding

\* Only caller c changes, to a state without a call.
LEMMA OtherCallers ==
    ASSUME GateInv, NEW c \in Caller, NEW s,
           caller' = [caller EXCEPT ![c] = s],
           s.pc \in {"run", "lost", "detached"} => Running(c)
    PROVE  \A d \in Caller : caller'[d].pc \in {"run", "lost", "detached"} => Running(d)
BY DEF GateInv, GateTypes, Running, Holding

\* releaseUpstream sets the pause from which the spacing follows; the timeout of a
\* cancellation, whose call owns the lease, starts the rest together with the pause.
LEMMA ReleaseRests ==
    ASSUME GateInv, SpacingInv, NEW c \in Caller, caller[c].acct \in Account,
           \/ quiet' = quiet
           \/ /\ gate[caller[c].acct].lease = c
              /\ quiet' = [quiet EXCEPT ![caller[c].acct] = Interval],
           gate' = [gate EXCEPT ![caller[c].acct] = Released(caller[c].acct, c)]
    PROVE  SpacingInv'
BY GateAssumption DEF GateInv, GateTypes, GateRow, SpacingInv, Released

\* No step of a caller starts a call too early.
LEMMA CallerSpacing ==
    ASSUME GateInv, SpacingInv, NEW c \in Caller, CallerStep(c)
    PROVE  SpacingInv' /\ StartsRested
<1> DEFINE a == caller[c].acct
           s == caller'[c]
<1>0. caller[c] \in CallerState /\ IdleCaller.pc = "idle"
  BY IdleState DEF GateInv, GateTypes
<1>p. \A p \in PC : [caller[c] EXCEPT !.pc = p].pc = p
  BY SetState
<1>1. ASSUME NEW b \in Account, Start(c, b) PROVE SpacingInv' /\ StartsRested
  BY <1>1, OtherCallers, QuietStep DEF Start, Set
<1>2. CASE AcquireBegin(c)
  <2>1. /\ gate' = gate /\ quiet' = quiet
        /\ \E p \in {"enter", "cancel"} : caller' = [caller EXCEPT ![c] = [caller[c] EXCEPT !.pc = p]]
    BY <1>2 DEF AcquireBegin, Set
  <2> QED
    BY <1>p, <2>1, OtherCallers, QuietStep DEF PC
<1>3. CASE AcquireFinish(c)
  <2>1. a \in Account /\ quiet' = quiet /\ ~Running(c)
    BY <1>3 DEF AcquireFinish, GateInv, WaitersHaveAccounts, Running, Holding
  <2>2. \A d \in Caller \ {c} : caller'[d] = caller[d]
    BY <1>3 DEF AcquireFinish, Set, GateInv, GateTypes
  <2>3. \/ gate' = gate /\ caller'[c].pc \in {"cancel", "wait"}
        \/ /\ ~Blocked(a)
           /\ gate' = [gate EXCEPT ![a] = [lease |-> c, left |-> LeaseTime, next |-> gate[a].next]]
    <3>1. \/ caller' = [caller EXCEPT ![c] = [caller[c] EXCEPT !.pc = "cancel"]] /\ gate' = gate
          \/ \E delay \in 1..PollTime :
                caller' = [caller EXCEPT ![c] = [caller[c] EXCEPT !.pc = "wait", !.timer = delay]] /\ gate' = gate
          \/ /\ ~Blocked(a)
             /\ gate' = [gate EXCEPT ![a] = [lease |-> c, left |-> LeaseTime, next |-> gate[a].next]]
      BY <1>3 DEF AcquireFinish, Set
    <3>2. \A delay : [caller[c] EXCEPT !.pc = "wait", !.timer = delay].pc = "wait"
      BY <1>0 DEF CallerState
    <3>3. \A t : caller' = [caller EXCEPT ![c] = t] => caller'[c] = t
      BY DEF GateInv, GateTypes
    <3>4. [caller[c] EXCEPT !.pc = "cancel"].pc = "cancel"
      BY <1>p DEF PC
    <3>5. CASE caller' = [caller EXCEPT ![c] = [caller[c] EXCEPT !.pc = "cancel"]] /\ gate' = gate
      BY <3>3, <3>4, <3>5
    <3>6. ASSUME NEW delay \in 1..PollTime,
                 caller' = [caller EXCEPT ![c] = [caller[c] EXCEPT !.pc = "wait", !.timer = delay]],
                 gate' = gate
          PROVE  gate' = gate /\ caller'[c].pc \in {"cancel", "wait"}
      BY <3>2, <3>3, <3>6
    <3> QED
      BY <3>1, <3>5, <3>6
  <2>4. ~Blocked(a) => quiet[a] = 0
    BY <2>1 DEF Blocked, SpacingInv, GateInv, GateTypes, GateRow
  <2>5. SpacingInv'
    BY <2>1, <2>3, <2>4, GateAssumption DEF SpacingInv, GateInv, GateTypes, GateRow
  <2>6. StartsRested
    BY <2>2, <2>3, <2>4 DEF StartsRested, Running, Holding
  <2> QED
    BY <2>5, <2>6
<1>4. CASE GiveUp(c)
  BY <1>4, <1>p, OtherCallers, QuietStep DEF GiveUp, Set, PC
<1>5. CASE CancelUpstreamWaiter(c)
  BY <1>5, <1>0, OtherCallers, QuietStep DEF CancelUpstreamWaiter, Set
<1>6. CASE RunEnds(c)
  <2>1. /\ gate' = gate /\ a \in Account
        /\ \/ caller' = [caller EXCEPT ![c] = IdleCaller]
           \/ caller' = [caller EXCEPT ![c] = [caller[c] EXCEPT !.pc = "ended"]]
        /\ quiet' = quiet \/ (Holding(c) /\ quiet' = [quiet EXCEPT ![a] = Interval])
    BY <1>6 DEF RunEnds, Set, Running, Holding, GateInv, WaitersHaveAccounts
  <2>2. StartsRested
    <3>1. \A d \in Caller : caller'[d].pc \in {"run", "lost", "detached"} => Running(d)
      BY <1>0, <1>p, <2>1, OtherCallers DEF PC
    <3> QED
      BY <3>1 DEF StartsRested, Running, Holding
  <2>3. Holding(c) => Interval <= gate[a].left
    BY <1>0, <2>1, GateAssumption DEF GateInv, GateTypes, LeaseOutlivesCall, GateRow, CallerState
  <2>4. SpacingInv'
    BY <2>1, <2>3, GateAssumption DEF SpacingInv
  <2> QED
    BY <2>2, <2>4
<1>7. CASE ReleaseUpstream(c)
  <2>1. a \in Account
    BY <1>7 DEF ReleaseUpstream, GateInv, WaitersHaveAccounts
  <2>2. SpacingInv'
    BY <1>7, <2>1, ReleaseRests DEF ReleaseUpstream
  <2>3. StartsRested
    BY <1>0, <1>7, OtherCallers DEF ReleaseUpstream, Set, StartsRested, Running, Holding
  <2> QED
    BY <2>2, <2>3
<1>8. CASE CancelTimesOut(c)
  <2>1. a \in Account /\ Running(c) /\ gate[a].lease = c
    BY <1>8 DEF CancelTimesOut, GateInv, WaitersHaveAccounts, LeaseOutlivesCall, Running, Holding
  <2>2. SpacingInv'
    BY <1>8, <2>1, ReleaseRests DEF CancelTimesOut
  <2>3. StartsRested
    BY <1>8, <2>1, OtherCallers DEF CancelTimesOut, Set, StartsRested, Running, Holding
  <2> QED
    BY <2>2, <2>3
<1>9. CASE WorkerLost(c)
  <2>1. /\ gate' = gate /\ quiet' = quiet
        /\ \/ caller' = [caller EXCEPT ![c] = IdleCaller]
           \/ Running(c) /\ caller' = [caller EXCEPT ![c] = [caller[c] EXCEPT !.pc = "lost"]]
    BY <1>9 DEF WorkerLost, Set, Running, Holding
  <2> QED
    BY <1>0, <2>1, OtherCallers, QuietStep
<1> QED
  BY <1>1, <1>2, <1>3, <1>4, <1>5, <1>6, <1>7, <1>8, <1>9 DEF CallerStep

\* Time rests a gate no faster than its row says.
LEMMA TickSpacing == ASSUME GateInv, SpacingInv, Tick PROVE SpacingInv' /\ StartsRested
<1>0. \A n \in Nat : Less(n) \in Nat /\ Less(n) = IF n > 0 THEN n - 1 ELSE 0
  BY DEF Less
<1>1. \A a \in Account :
        /\ gate[a].left \in Nat /\ gate[a].next \in Nat /\ quiet[a] \in Nat
        /\ gate'[a].left = Less(gate[a].left) /\ gate'[a].next = Less(gate[a].next)
        /\ quiet'[a] = Less(quiet[a])
  BY DEF Tick, GateInv, GateTypes, GateRow, SpacingInv
<1>2. SpacingInv'
  <2>1. quiet' \in [Account -> Nat]
    BY <1>0, <1>1 DEF Tick
  <2> QED
    BY <1>0, <1>1, <2>1, GateAssumption DEF SpacingInv
<1>3. \A c \in Caller : caller'[c].pc = caller[c].pc
  BY DEF Tick, GateInv, GateTypes, CallerState
<1>4. StartsRested
  BY <1>3 DEF StartsRested, Running, Holding
<1> QED
  BY <1>2, <1>4

\* A row that is dropped takes its pause along, and nobody starts a call by it.
LEMMA DropSpacing ==
    ASSUME GateInv, SpacingInv, NEW a \in Account, gate' = [gate EXCEPT ![a] = FreeGate],
           quiet' = [quiet EXCEPT ![a] = 0], caller' = RowDropped(a)
    PROVE  SpacingInv' /\ StartsRested
<1>1. SpacingInv'
  BY GateAssumption DEF SpacingInv, GateInv, GateTypes, GateRow, FreeGate
<1>2. \A c \in Caller : caller'[c].pc = caller[c].pc \/ Holding(c)
  BY DEF RowDropped
<1>3. StartsRested
  BY <1>2 DEF StartsRested, Running, Holding
<1> QED
  BY <1>1, <1>3

\* Every step keeps the spacing.
LEMMA SpacingNext ==
    ASSUME GateInv, SpacingInv, [Next]_vars
    PROVE  SpacingInv' /\ StartsRested
<1>1. CASE UNCHANGED vars
  BY <1>1, QuietStep DEF vars, Running, Holding
<1>2. ASSUME NEW c \in Caller, CallerStep(c) PROVE SpacingInv' /\ StartsRested
  BY <1>2, CallerSpacing
<1>3. CASE ObjectRestarts
  <2>1. gate' = gate /\ quiet' = quiet
    BY <1>3 DEF ObjectRestarts
  <2>2. \A c \in Caller : caller'[c].pc \in {"cancel", caller[c].pc}
    BY <1>3 DEF ObjectRestarts, GateInv, GateTypes, CallerState
  <2> QED
    BY <2>1, <2>2, QuietStep DEF Running, Holding
<1>4. CASE PoolStep
  <2>1. CASE gate' = gate /\ quiet' = quiet /\ caller' = caller
    BY <2>1, QuietStep DEF Running, Holding
  <2>2. ASSUME NEW a \in Deletable \cup Imports, Delete(a) \/ Import(a) PROVE SpacingInv' /\ StartsRested
    BY <2>2, GateAssumption, DropSpacing DEF Delete, Import
  <2>3. \/ gate' = gate /\ quiet' = quiet /\ caller' = caller
        \/ \E a \in Deletable \cup Imports : Delete(a) \/ Import(a)
    BY <1>4 DEF PoolStep, AccountFails, AccountRecovers, Activate, Reauthorize, SetSpread
  <2> QED
    BY <2>1, <2>2, <2>3
<1>5. CASE Tick
  BY <1>5, TickSpacing
<1> QED
  BY <1>1, <1>2, <1>3, <1>4, <1>5 DEF Next

\* A call starts at least Interval after every earlier holder of the account's row let
\* go of it (its end, or the timeout of its cancellation), even when the Worker of the
\* earlier call died and only the expiry of its lease opened the gate; whatever the
\* operator deletes, authorizes again or imports meanwhile.
THEOREM GateSpaces == Spec => GrantsAreSpaced
<1>1. Init => SpacingInv
  BY SpacingInit
<1>2. GateInv /\ SpacingInv /\ [Next]_vars => SpacingInv'
  BY SpacingNext
<1>3. GateInv /\ SpacingInv /\ [Next]_vars
      => [\A c \in Caller : ~Running(c) /\ Running(c)' => quiet[caller[c].acct] = 0]_vars
  BY SpacingNext DEF StartsRested
<1> QED
  BY <1>1, <1>2, <1>3, Invariance, PTL DEF Spec, GrantsAreSpaced
-----------------------------------------------------------------------------
(* Routing of grants *)

\* A call starts only for a selection that the second check has admitted.
StartsRouted ==
    \A c \in Caller : ~Running(c) /\ Running(c)' => Admitted(pool', caller[c].acct, caller[c].epoch)

\* A step in which nobody starts a call.
LEMMA NobodyStarts ==
    ASSUME \A c \in Caller : caller'[c].pc \in {"run", "lost", "detached"} => Running(c)
    PROVE  StartsRouted
BY DEF StartsRouted, Running, Holding

\* acquireUpstream behind its await: the grant is the branch that was admitted.
LEMMA FinishRouted ==
    ASSUME GateInv, NEW c \in Caller, AcquireFinish(c)
    PROVE  StartsRouted
<1> DEFINE q == RouteChecked(caller[c].acct)
<1>1. pool' = q
  BY DEF AcquireFinish, SetPool
<1>2. CASE StillAdmitted(q, c)
  <2>1. \A d \in Caller \ {c} : caller'[d] = caller[d]
    BY DEF AcquireFinish, Set, GateInv, GateTypes
  <2> QED
    BY <1>1, <1>2, <2>1 DEF StartsRouted, StillAdmitted, Running, Holding
<1>3. CASE ~StillAdmitted(q, c)
  <2>1. caller' = [caller EXCEPT ![c] = [caller[c] EXCEPT !.pc = "cancel"]]
    BY <1>3 DEF AcquireFinish, Set
  <2>2. [caller[c] EXCEPT !.pc = "cancel"].pc = "cancel"
    BY SetState DEF GateInv, GateTypes, PC
  <2> QED
    BY <2>1, <2>2, OtherCallers, NobodyStarts
<1> QED
  BY <1>2, <1>3

\* No other step of a caller starts a call.
LEMMA CallerRouted ==
    ASSUME GateInv, NEW c \in Caller, CallerStep(c)
    PROVE  StartsRouted
<1>0. caller[c] \in CallerState /\ IdleCaller.pc = "idle"
  BY IdleState DEF GateInv, GateTypes
<1>p. \A p \in PC : [caller[c] EXCEPT !.pc = p].pc = p
  BY SetState
<1>1. ASSUME NEW b \in Account, Start(c, b) PROVE StartsRouted
  BY <1>1, OtherCallers, NobodyStarts DEF Start, Set
<1>2. ASSUME NEW p \in {"enter", "cancel", "ended"},
             caller' = [caller EXCEPT ![c] = [caller[c] EXCEPT !.pc = p]]
      PROVE  StartsRouted
  BY <1>2, <1>p, OtherCallers, NobodyStarts DEF PC
<1>3. ASSUME NEW p \in {"lost", "detached"}, Running(c),
             caller' = [caller EXCEPT ![c] = [caller[c] EXCEPT !.pc = p]]
      PROVE  StartsRouted
  BY <1>3, OtherCallers, NobodyStarts
<1>4. CASE caller' = [caller EXCEPT ![c] = IdleCaller]
  BY <1>4, <1>0, OtherCallers, NobodyStarts
<1>5. CASE AcquireBegin(c) \/ GiveUp(c)
  BY <1>2, <1>5 DEF AcquireBegin, GiveUp, Set
<1>6. CASE CancelUpstreamWaiter(c) \/ ReleaseUpstream(c)
  BY <1>4, <1>6 DEF CancelUpstreamWaiter, ReleaseUpstream, Set
<1>7. CASE RunEnds(c)
  BY <1>2, <1>4, <1>7 DEF RunEnds, Set
<1>8. CASE CancelTimesOut(c)
  BY <1>3, <1>8 DEF CancelTimesOut, Set, Running, Holding
<1>9. CASE WorkerLost(c)
  BY <1>3, <1>4, <1>9 DEF WorkerLost, Set, Running, Holding
<1> QED
  BY <1>1, <1>5, <1>6, <1>7, <1>8, <1>9, FinishRouted DEF CallerStep

\* Neither does any step of the object, of the pool or of time; a deleted gate
\* row only detaches a call that is in flight.
LEMMA NextRouted == ASSUME GateInv, [Next]_vars PROVE StartsRouted
<1>1. CASE caller' = caller
  BY <1>1, NobodyStarts DEF Running, Holding
<1>2. ASSUME NEW a, caller' = RowDropped(a) PROVE StartsRouted
  <2>1. \A c \in Caller : Holding(c) \/ caller'[c] = caller[c]
    BY <1>2 DEF RowDropped
  <2> QED
    BY <2>1, NobodyStarts DEF Running, Holding
<1>3. CASE ObjectRestarts
  <2>1. \A c \in Caller : caller'[c].pc \in {"cancel", caller[c].pc}
    BY <1>3 DEF ObjectRestarts, GateInv, GateTypes, CallerState
  <2> QED
    BY <2>1, NobodyStarts DEF Running, Holding
<1>4. CASE PoolStep
  BY <1>1, <1>2, <1>4
  DEF PoolStep, AccountFails, AccountRecovers, Activate, SetSpread, Delete, Reauthorize, Import
<1>5. CASE Tick
  <2>1. \A c \in Caller : caller'[c].pc = caller[c].pc
    BY <1>5 DEF Tick, GateInv, GateTypes, CallerState
  <2> QED
    BY <2>1, NobodyStarts DEF Running, Holding
<1> QED
  BY <1>1, <1>3, <1>4, <1>5, CallerRouted DEF Next, vars

\* No stale selection is granted a gate: whatever the pool does between a poll, the
\* await of acquireUpstream and the grant, deletions, imports and restarts included,
\* the account of a call that starts is routable in the pool of that very moment
\* (tenant-state.ts: the second routeRejection call of acquireUpstream).
THEOREM GateRoutes == Spec => GrantsAreRouted
<1>1. GateInv /\ [Next]_vars
      => [\A c \in Caller :
             ~Running(c) /\ Running(c)' => Admitted(pool', caller[c].acct, caller[c].epoch)]_vars
  BY NextRouted DEF StartsRouted
<1> QED
  BY <1>1, Invariance, PTL DEF Spec, GrantsAreRouted
=============================================================================
