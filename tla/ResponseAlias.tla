---------------------------- MODULE ResponseAlias ----------------------------
(***************************************************************************)
(* Response aliases (chat-session.ts, openai.ts).  A finished Responses    *)
(* turn seeds one alias object under its response id; one registry object  *)
(* admits aliases under two quotas and evicts the oldest.  The row of an   *)
(* alias is inserted unadmitted, registered by a call to the registry, and *)
(* made visible by the seed itself (a JSON answer) or later by a publish   *)
(* (a stream).  A continuation copies a visible alias into a private       *)
(* branch session, whose turn seeds an alias of its own in the same group. *)
(*                                                                         *)
(* Abstractions: every alias id belongs to one response, so its payload    *)
(* never differs between two seeds.  Of expires_at a row keeps whether it  *)
(* has passed (old): for a staged row the pending TTL of 15 minutes, for a *)
(* visible or registered one the alias TTL of 7 days.  An alias that       *)
(* predates the immutable ones may hold a lease.  Registry sequence        *)
(* numbers are the order of reg.                                           *)
(***************************************************************************)
EXTENDS Naturals, Sequences, FiniteSets, SequencesExt

CONSTANTS
    Aliases,      \* response ids
    Legacy,       \* aliases that exist, admitted, from the start
    Leased,       \* those of them that hold a lease
    Group,        \* alias -> the upstream conversation it belongs to
    Parent,       \* alias -> the previous_response_id of its request, or None
    Streamed,     \* aliases of streamed requests (deferVisibility)
    None,
    PerGroup,     \* MAX_RESPONSE_ALIASES_PER_UPSTREAM
    Total,        \* MAX_RESPONSE_ALIASES_TOTAL
    Attempts      \* RESPONSE_ALIAS_SEED_ATTEMPTS

ASSUME AliasAssumption ==
    /\ Leased \subseteq Legacy /\ Legacy \subseteq Aliases /\ Streamed \subseteq Aliases /\ None \notin Aliases
    /\ DOMAIN Group = Aliases /\ Parent \in [Aliases -> Aliases \cup {None}]
    /\ PerGroup \in Nat \ {0} /\ Total \in Nat \ {0} /\ Attempts \in Nat \ {0}
    /\ IsFiniteSet(Aliases) /\ "sweep" \notin Aliases
    \* the aliases of the start went through the same registry
    /\ Cardinality(Legacy) <= Total
    /\ \A a \in Legacy : Cardinality({b \in Legacy : Group[b] = Group[a]}) <= PerGroup

\* Rows of an alias object, rows of the registry, and its lock.
AliasRow == [gen : 0..Attempts, adm : BOOLEAN, old : BOOLEAN]
RegistryRow == [a : Aliases, gen : 0..Attempts, old : BOOLEAN]
Lock == [who : Aliases \cup {"sweep"}, todo : SUBSET RegistryRow]

ASSUME NoneAssumption == None \notin AliasRow \cup Lock

VARIABLES
    rows,     \* alias -> its state row: None or [gen, adm, old]
    leased,  \* legacy aliases whose lease runs
    reg,     \* alias_registry, oldest first: [a, gen, old]
    seeder,  \* alias -> the request that seeds it: [pc, n]
    lock,    \* blockConcurrencyWhile of the registry: [who, todo] or None
    unreg    \* unregisterResponseAlias calls under way: <<alias, generation>>

aliasVars == <<rows, leased, reg, seeder, lock, unreg>>

\* seeder: idle, turn, ask (register is called), lock, ok, busy, broken, staged, over
SeederPc == {"idle", "turn", "ask", "lock", "ok", "busy", "broken", "staged", "over"}

AliasTypeOK ==
    /\ rows \in [Aliases -> AliasRow \cup {None}]
    /\ leased \subseteq Legacy
    /\ reg \in Seq(RegistryRow) /\ lock \in Lock \cup {None}
    /\ seeder \in [Aliases -> [pc : SeederPc, n : 0..Attempts]]
    /\ unreg \subseteq Aliases \X (0..Attempts)

AliasInit ==
    /\ rows = [a \in Aliases |-> IF a \in Legacy THEN [gen |-> 0, adm |-> TRUE, old |-> FALSE] ELSE None]
    /\ leased = Leased
    /\ reg = SetToSeq({[a |-> a, gen |-> 0, old |-> FALSE] : a \in Legacy})
    /\ seeder = [a \in Aliases |-> [pc |-> IF a \in Legacy THEN "over" ELSE "idle", n |-> 0]]
    /\ lock = None /\ unreg = {}

-----------------------------------------------------------------------------
(* One alias object. *)

Visible(a) == rows[a] # None /\ rows[a].adm

Matches(a, g) == rows[a] # None /\ rows[a].gen = g

\* Mutant: a leased alias is evicted.
EvictIgnoringLease(a, g) == IF Matches(a, g) THEN "evicted" ELSE "absent"

\* evictResponseAlias: its answer, and the row it leaves.
EvictResult(a, g) ==
    IF rows[a] = None THEN "absent" ELSE IF rows[a].gen # g THEN "generation_mismatch"
    ELSE IF a \in leased THEN "busy" ELSE "evicted"
Evicted(a, g) == IF EvictResult(a, g) = "evicted" THEN [rows EXCEPT ![a] = None] ELSE rows

\* The registry without the row of one generation; the alias is the primary key, so at is a position or none.
Removed(r, at) == IF at = {} THEN r ELSE RemoveAt(r, CHOOSE i \in at : TRUE)
Without(r, a, g) == Removed(r, {i \in DOMAIN r : r[i].a = a /\ r[i].gen = g})

SetPc(a, pc) == seeder' = [seeder EXCEPT ![a] = [pc |-> pc, n |-> IF pc = "over" THEN 0 ELSE @.n]]

\* Mutant: the alarm leaves staged rows alone.
ExpireVisible(a) ==
    /\ Visible(a) /\ a \notin leased /\ rows[a].old
    /\ rows' = [rows EXCEPT ![a] = None] /\ unreg' = unreg \cup {<<a, rows[a].gen>>}
    /\ UNCHANGED <<leased, reg, seeder, lock>>

\* expireIfIdle of an alias: the row goes, the registry is told.
ExpireAlias(a) ==
    /\ rows[a] # None /\ a \notin leased /\ rows[a].old
    /\ rows' = [rows EXCEPT ![a] = None] /\ unreg' = unreg \cup {<<a, rows[a].gen>>}
    /\ UNCHANGED <<leased, reg, seeder, lock>>

\* unregisterResponseAlias, delivered (not while the registry is blocked) or lost.
Unregister(m) ==
    /\ m \in unreg /\ unreg' = unreg \ {m}
    /\ \/ lock = None /\ reg' = Without(reg, m[1], m[2])
       \/ UNCHANGED reg
    /\ UNCHANGED <<rows, leased, seeder, lock>>

LeaseEnds(a) ==
    /\ a \in leased /\ leased' = leased \ {a}
    /\ UNCHANGED <<rows, reg, seeder, lock, unreg>>

\* A staged row outlives the pending TTL: its seed is slow, or nobody publishes it.
Lapse(a) ==
    /\ rows[a] # None /\ ~rows[a].adm /\ ~rows[a].old /\ rows' = [rows EXCEPT ![a].old = TRUE]
    /\ UNCHANGED <<leased, reg, seeder, lock, unreg>>

\* The alias TTL.  A seed takes seconds, not days; all aliases have the same
\* TTL, so they expire in the order of their registration.
LapseFull(i) ==
    /\ i \in DOMAIN reg /\ ~reg[i].old /\ seeder[reg[i].a].pc = "over"
    /\ \A j \in 1..(i - 1) : reg[j].old
    /\ reg' = [reg EXCEPT ![i].old = TRUE]
    /\ rows' = IF Matches(reg[i].a, reg[i].gen) THEN [rows EXCEPT ![reg[i].a].old = TRUE] ELSE rows
    /\ UNCHANGED <<leased, seeder, lock, unreg>>

-----------------------------------------------------------------------------
(* The request that ends in a seed. *)

\* checkoutPreviousResponseAlias and startResponseBranch, or a new conversation.
\* A staged parent is waited for, an unknown one refused.
Begin(a) ==
    /\ seeder[a].pc = "idle"
    /\ Parent[a] # None => Visible(Parent[a]) /\ Parent[a] \notin leased /\ ~rows[Parent[a]].old
    /\ SetPc(a, "turn")
    /\ UNCHANGED <<rows, leased, reg, lock, unreg>>

\* The turn fails before anything is seeded.
TurnLost(a) ==
    /\ seeder[a].pc = "turn" /\ seeder[a].n = 0 /\ SetPc(a, "over")
    /\ UNCHANGED <<rows, leased, reg, lock, unreg>>

\* seed, up to its call of the registry: a new generation, unadmitted.
Seed(a) ==
    /\ seeder[a].pc = "turn" /\ rows[a] = None /\ seeder[a].n < Attempts
    /\ LET n == seeder[a].n + 1
       IN  /\ seeder' = [seeder EXCEPT ![a] = [pc |-> "ask", n |-> n]]
           /\ rows' = [rows EXCEPT ![a] = [gen |-> n, adm |-> FALSE, old |-> FALSE]]
    /\ UNCHANGED <<leased, reg, lock, unreg>>

\* The call fails before the registry sees it.
RegisterLost(a) ==
    /\ seeder[a].pc = "ask" /\ SetPc(a, "broken")
    /\ UNCHANGED <<rows, leased, reg, lock, unreg>>

\* The registry has answered ok: admitted now, staged, or the row is gone.
Admit(a) ==
    /\ seeder[a].pc = "ok"
    /\ IF a \in Streamed THEN SetPc(a, "staged") /\ UNCHANGED rows
       ELSE IF Matches(a, seeder[a].n)
       THEN SetPc(a, "over") /\ rows' = [rows EXCEPT ![a] = [@ EXCEPT !.adm = TRUE, !.old = FALSE]]
       ELSE SetPc(a, IF seeder[a].n < Attempts THEN "turn" ELSE "over") /\ UNCHANGED rows
    /\ UNCHANGED <<leased, reg, lock, unreg>>

\* The registry refused or the call failed: the row is evicted; only a busy
\* victim is worth another attempt.
Refused(a) ==
    /\ seeder[a].pc \in {"busy", "broken"}
    /\ rows' = Evicted(a, seeder[a].n)
    /\ SetPc(a, IF seeder[a].pc = "busy" /\ seeder[a].n < Attempts THEN "turn" ELSE "over")
    /\ UNCHANGED <<leased, reg, lock, unreg>>

\* publishResponseAlias: only the generation that was seeded, and only in time.
Publish(a) ==
    /\ seeder[a].pc = "staged"
    /\ IF Matches(a, seeder[a].n) /\ a \notin leased
       THEN rows' = [rows EXCEPT ![a] = [@ EXCEPT !.adm = TRUE, !.old = FALSE]] /\ SetPc(a, "over")
       ELSE SetPc(a, "over") /\ UNCHANGED rows
    /\ UNCHANGED <<leased, reg, lock, unreg>>

\* The stream's Worker dies, or the answer of seed is lost: nobody publishes.
NeverPublished(a) ==
    /\ seeder[a].pc = "staged" /\ SetPc(a, "over")
    /\ UNCHANGED <<rows, leased, reg, lock, unreg>>

-----------------------------------------------------------------------------
(* The registry object. *)

\* The rows at positions S without the newest k of them.
Oldest(r, S, k) == {r[i] : i \in {j \in S : Cardinality({m \in S : m > j}) >= k}}

\* Mutant: the quota of the tenant is forgotten.
VictimsOfGroup(r, a) ==
    {x \in ToSet(r) : x.old}
        \cup Oldest(r, {i \in DOMAIN r : Group[r[i].a] = Group[a]}, PerGroup)

\* Expired rows, the overflow of the group, the overflow of all.
VictimsOf(r, a) ==
    {x \in ToSet(r) : x.old}
        \cup Oldest(r, {i \in DOMAIN r : Group[r[i].a] = Group[a]}, PerGroup)
        \cup Oldest(r, DOMAIN r, Total)

\* registerResponseAliasLocked up to its first call.  A row of another
\* generation that has not expired is a conflict.
RegisterStart(a) ==
    /\ seeder[a].pc = "ask" /\ lock = None
    /\ LET old == {x \in ToSet(reg) : x.a = a /\ ~x.old}
           new == Append(Removed(reg, {i \in DOMAIN reg : reg[i].a = a}), [a |-> a, gen |-> seeder[a].n, old |-> FALSE])
       IN  IF old # {} THEN SetPc(a, "broken") /\ UNCHANGED <<reg, lock>>
           ELSE /\ reg' = new /\ lock' = [who |-> a, todo |-> VictimsOf(new, a)]
                /\ SetPc(a, "lock")
    /\ UNCHANGED <<rows, leased, unreg>>

\* The new row is taken back and the caller told.
Refuse(a, pc) ==
    /\ reg' = Without(reg, a, seeder[a].n) /\ lock' = None /\ SetPc(a, pc)

\* evictResponseAlias of one victim: evicted or already gone, busy, or the call fails.
EvictVictim(v) ==
    /\ lock # None /\ lock.who # "sweep" /\ v \in lock.todo
    /\ \/ /\ EvictResult(v.a, v.gen) # "busy" /\ rows' = Evicted(v.a, v.gen)
          /\ reg' = Without(reg, v.a, v.gen)
          /\ lock' = [lock EXCEPT !.todo = @ \ {v}] /\ UNCHANGED seeder
       \/ /\ EvictResult(v.a, v.gen) = "busy" /\ Refuse(lock.who, "busy") /\ UNCHANGED rows
       \/ /\ rows' \in {rows, Evicted(v.a, v.gen)} /\ Refuse(lock.who, "broken")
    /\ UNCHANGED <<leased, unreg>>

\* Every victim is gone: the answer, which may be lost.
RegisterEnd ==
    /\ lock # None /\ lock.who # "sweep" /\ lock.todo = {}
    /\ lock' = None /\ \E pc \in {"ok", "broken"} : SetPc(lock.who, pc)
    /\ UNCHANGED <<rows, leased, reg, unreg>>

\* The registry's alarm: expireRegisteredAliases.
SweepStart ==
    /\ lock = None /\ \E x \in ToSet(reg) : x.old
    /\ lock' = [who |-> "sweep", todo |-> {x \in ToSet(reg) : x.old}]
    /\ UNCHANGED <<rows, leased, reg, seeder, unreg>>

\* One expired row: evicted, or kept because it is busy or the call failed.
SweepRow(v) ==
    /\ lock # None /\ lock.who = "sweep" /\ v \in lock.todo
    /\ LET rest == lock.todo \ {v}
       IN  lock' = IF rest = {} THEN None ELSE [lock EXCEPT !.todo = rest]
    /\ \/ /\ EvictResult(v.a, v.gen) # "busy"
          /\ rows' = Evicted(v.a, v.gen) /\ reg' = Without(reg, v.a, v.gen)
       \/ UNCHANGED <<rows, reg>>
    /\ UNCHANGED <<leased, seeder, unreg>>

-----------------------------------------------------------------------------

\* What a request, an alias object or a registry with work does by itself.
SeedStep(a) == Seed(a) \/ Admit(a) \/ Refused(a) \/ Publish(a)
ObjectStep == \E a \in Aliases : SeedStep(a) \/ ExpireAlias(a) \/ Lapse(a)
RegistryStep ==
    lock # None /\ (RegisterEnd \/ \E v \in lock.todo : EvictVictim(v) \/ SweepRow(v))
Serve == \E a \in Aliases : RegisterStart(a)

AliasNext ==
    \/ ObjectStep \/ (\E i \in DOMAIN reg : LapseFull(i)) \/ RegistryStep \/ Serve \/ SweepStart
    \/ \E a \in Aliases :
          Begin(a) \/ TurnLost(a) \/ RegisterLost(a) \/ NeverPublished(a) \/ LeaseEnds(a)
    \/ \E m \in unreg : Unregister(m)

AliasSpec == AliasInit /\ [][AliasNext]_aliasVars

\* Objects run, alarms fire, calls come back and time passes; the registry's
\* sweeps do not keep its callers out for ever.  Each of these happens finitely
\* often, so fairness to all of them is fairness to each.
AliasFairness == WF_aliasVars(ObjectStep) /\ WF_aliasVars(RegistryStep) /\ SF_aliasVars(Serve)

FairAlias == AliasSpec /\ AliasFairness

-----------------------------------------------------------------------------

(* The quotas hold of what clients can continue from, in every state: a new *)
(* alias becomes visible only when the ones it displaces are gone, however  *)
(* calls fail and registrations queue (registerResponseAliasLocked).        *)
VisibleBounded ==
    LET V == {a \in Aliases : Visible(a)}
    IN  /\ Cardinality(V) <= Total
        /\ \A g \in {Group[a] : a \in Aliases} : Cardinality({a \in V : Group[a] = g}) <= PerGroup

(* A client's response id is forgotten only when it has expired or while    *)
(* another alias takes its place, and never while it is leased: no failed   *)
(* seed, late publish or stale eviction takes a visible alias away.         *)
ForgottenForAReason ==
    [][\A a \in Aliases :
          (Visible(a) /\ rows'[a] = None) =>
              /\ a \notin leased
              /\ rows[a].old \/ (lock # None /\ lock.who \notin {a, "sweep"})]_aliasVars

(* Every seed is resolved: whatever fails between the insert, the           *)
(* registration and the publish, the registry's lock is released, the seed  *)
(* ends and a staged row becomes visible or disappears.                     *)
StagedIsResolved ==
    \A a \in Aliases \ Legacy :
        LET open == seeder[a].pc \in {"ask", "lock", "ok", "busy", "broken"} \/ (rows[a] # None /\ ~rows[a].adm)
        IN  open ~> ~open
=============================================================================
