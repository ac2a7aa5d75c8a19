-------------------------- MODULE CredentialMirror --------------------------
(***************************************************************************)
(* The encrypted OAuth credential of an account and its KV backup, kept by *)
(* TenantState (tenant-state.ts).  The authoritative ciphertext and a      *)
(* pending mirror job commit in one transaction; the KV write follows, one *)
(* operation at a time per account, and a failed one is retried by the     *)
(* alarm.  The in-memory chains of operations die with the object.         *)
(*                                                                         *)
(* A ciphertext is the number of the upsert that wrote it, a KV key the    *)
(* number of the randomToken call that drew it; 0 is "absent" for both.    *)
(* A job row is either due (next_attempt_at has passed) or not.            *)
(***************************************************************************)
EXTENDS Naturals, Sequences, FiniteSets

CONSTANTS
    Account,
    Legacy,      \* accounts stored by an old release as a "kv:" pointer
    Bare,        \* accounts stored by an old release without a mirror
    Deletable,   \* accounts the operator may delete
    Batches,     \* sets of accounts that importAccountMigration may be given
    MaxVer,      \* bound: ciphertexts written to one account
    MaxKey       \* bound: keys drawn for one account

ASSUME MirrorAssumption ==
    /\ Legacy \cup Bare \cup Deletable \subseteq Account
    /\ Legacy \cap Bare = {}
    /\ Batches \subseteq SUBSET Account \ {{}}
    /\ MaxVer \in Nat \ {0} /\ MaxKey \in Nat \ {0}

VARIABLES
    row,     \* accounts: ciphertext, credential_revision and KV key
    queue,   \* credential_mirror_queue
    dels,    \* credential_mirror_deletions
    kv,      \* SENSITIVE_KV: key -> ciphertext
    drawn,   \* keys and ciphertexts produced so far
    chain,   \* credentialMirrorInFlight: the operations of each account, in order
    io,      \* the KV call in flight of each account
    job,     \* what the alarm handler and a running import still have to do
    alarm,   \* an alarm is set
    reader   \* readAccountToken of a legacy row, between its awaits

vars == <<row, queue, dels, kv, drawn, chain, io, job, alarm, reader>>

Ver == 0..MaxVer
Key == 0..MaxKey
Rev == 0..MaxVer + 1

\* form: "none" no row, "pointer" the column holds "kv:<key>", "bare" a ciphertext
\* without revision and key, "full" what every current write leaves.
Row == [form : {"none", "pointer", "bare", "full"}, ver : Ver, rev : Rev, key : Key]
NoRow == [form |-> "none", ver |-> 0, rev |-> 0, key |-> 0]

QueueRow == [rev : Rev, key : Key, due : BOOLEAN]
NoQueue == [rev |-> 0, key |-> 0, due |-> FALSE]

DelRow == [key : Key, due : BOOLEAN]
NoDel == [key |-> 0, due |-> FALSE]

\* An operation of a chain: "put" is flushCredentialMirror, "del" is
\* flushCredentialDeletion; by says who awaits it.
Op == [kind : {"put", "del"}, by : {"rpc", "alarm", "import"}]

\* The row an operation read before its KV call.
Call == [kind : {"none", "put", "del"}, key : Key, ver : Ver, rev : Rev]
NoCall == [kind |-> "none", key |-> 0, ver |-> 0, rev |-> 0]

Job == [busy : BOOLEAN, del : SUBSET Account, put : SUBSET Account]
IdleJob == [busy |-> FALSE, del |-> {}, put |-> {}]

TypeOK ==
    /\ row \in [Account -> Row]
    /\ queue \in [Account -> QueueRow]
    /\ dels \in [Account -> DelRow]
    /\ kv \in [Account -> [1..MaxKey -> Ver]]
    /\ drawn \in [Account -> [key : Key, ver : Ver]]
    /\ chain \in [Account -> Seq(Op)]
    /\ io \in [Account -> Call]
    /\ job \in [{"alarm", "import"} -> Job]
    /\ alarm \in BOOLEAN
    /\ reader \in [Account -> Row]

Old == Legacy \cup Bare

Init ==
    /\ row = [a \in Account |->
                CASE a \in Legacy -> [NoRow EXCEPT !.form = "pointer", !.key = 1]
                  [] a \in Bare -> [NoRow EXCEPT !.form = "bare", !.ver = 1]
                  [] OTHER -> NoRow]
    /\ kv = [a \in Account |-> [k \in 1..MaxKey |-> IF a \in Legacy /\ k = 1 THEN 1 ELSE 0]]
    /\ drawn = [a \in Account |-> [key |-> IF a \in Legacy THEN 1 ELSE 0,
                                   ver |-> IF a \in Old THEN 1 ELSE 0]]
    /\ queue = [a \in Account |-> NoQueue]
    /\ dels = [a \in Account |-> NoDel]
    /\ chain = [a \in Account |-> <<>>]
    /\ io = [a \in Account |-> NoCall]
    /\ job = [j \in {"alarm", "import"} |-> IdleJob]
    /\ reader = [a \in Account |-> NoRow]
    /\ alarm = (Old # {})

-----------------------------------------------------------------------------
(* Helpers *)

Queued(a) == queue[a].rev # 0
Deleting(a) == dels[a].key # 0
Stored(a) == row[a].form # "none"

\* Some mirror job is pending.
Pending == \E a \in Account : Queued(a) \/ Deleting(a)

\* scheduleNextAlarm, at the end of an action: a pending job needs an alarm, so may
\* the token refresh of an account that is the active route.
ScheduleNextAlarm ==
    /\ alarm' \in BOOLEAN
    /\ Pending' => alarm'
    /\ alarm' => Pending' \/ \E a \in Account : row'[a].form # "none"

\* Mutant: a new authorization does not look for a pending deletion.
NewMirrorKey(a) == IF row[a].key # 0 THEN row[a].key ELSE drawn[a].key + 1

\* The first key the code finds: of the row, of a pending deletion, or a new one.
MirrorKey(a) ==
    IF row[a].key # 0 THEN row[a].key
    ELSE IF Deleting(a) THEN dels[a].key ELSE drawn[a].key + 1

\* Key k is in use from now on, and ciphertext v.
Draw(a, k, v) == [key |-> IF k > drawn[a].key THEN k ELSE drawn[a].key, ver |-> v]

\* The row of account a after a transaction that stores a new ciphertext.
StoredRow(a) ==
    [form |-> "full", ver |-> drawn[a].ver + 1, rev |-> row[a].rev + 1, key |-> MirrorKey(a)]

HasBudget(a) == drawn[a].ver < MaxVer /\ MirrorKey(a) <= MaxKey

\* The accounts in S get a new ciphertext.
StoreAll(S) ==
    /\ row' = [a \in Account |-> IF a \in S THEN StoredRow(a) ELSE row[a]]
    /\ queue' = [a \in Account |->
                   IF a \in S THEN [rev |-> StoredRow(a).rev, key |-> StoredRow(a).key, due |-> TRUE]
                   ELSE queue[a]]
    /\ dels' = [a \in Account |-> IF a \in S THEN NoDel ELSE dels[a]]
    /\ drawn' = [a \in Account |->
                   IF a \in S THEN Draw(a, StoredRow(a).key, StoredRow(a).ver) ELSE drawn[a]]

Enqueue(a, kind, by) == [chain EXCEPT ![a] = Append(@, [kind |-> kind, by |-> by])]

-----------------------------------------------------------------------------
(* Operations of the object *)

\* upsertAccount, by an authorization or a token refresh.
UpsertAccount(a) ==
    /\ HasBudget(a)
    /\ StoreAll({a})
    /\ alarm' = TRUE
    /\ chain' = Enqueue(a, "put", "rpc")
    /\ UNCHANGED <<kv, io, job, reader>>

\* The accounts of an import commit together; their mirrors are flushed in turn.
ImportAccountMigration(S) ==
    /\ ~job["import"].busy
    /\ \A a \in S : HasBudget(a)
    /\ StoreAll(S)
    /\ alarm' = TRUE
    /\ \E a \in S :
          /\ job' = [job EXCEPT !["import"] = [busy |-> TRUE, del |-> {}, put |-> S \ {a}]]
          /\ chain' = Enqueue(a, "put", "import")
    /\ UNCHANGED <<kv, io, reader>>

\* The deletion job deleteAccount leaves behind.
DeletionOf(a) == [key |-> IF row[a].key # 0 THEN row[a].key ELSE drawn[a].key + 1, due |-> TRUE]

DeleteAccount(a) ==
    /\ Stored(a)
    /\ DeletionOf(a).key <= MaxKey
    /\ row' = [row EXCEPT ![a] = NoRow]
    /\ queue' = [queue EXCEPT ![a] = NoQueue]
    /\ dels' = [dels EXCEPT ![a] = DeletionOf(a)]
    /\ drawn' = [drawn EXCEPT ![a] = Draw(a, DeletionOf(a).key, drawn[a].ver)]
    /\ alarm' = TRUE
    /\ chain' = Enqueue(a, "del", "rpc")
    /\ UNCHANGED <<kv, io, job, reader>>

\* readAccountToken of a row that an old release wrote, up to its transaction: a
\* pointer is followed to KV.
ReadBegin(a) ==
    /\ row[a].form \in {"pointer", "bare"}
    /\ reader[a] = NoRow
    /\ row[a].form = "pointer" => kv[a][row[a].key] # 0
    /\ reader' = [reader EXCEPT ![a] =
                    IF row[a].form = "pointer" THEN [row[a] EXCEPT !.ver = kv[a][row[a].key]]
                    ELSE row[a]]
    /\ UNCHANGED <<row, queue, dels, kv, drawn, chain, io, job, alarm>>

\* Mutant: the row is written back whatever happened during the await.
StoredAnyway(a) == Stored(a)

\* The row still holds what readAccountToken started from.
UnchangedSince(a) ==
    /\ row[a].form = reader[a].form
    /\ row[a].form = "pointer" => row[a].key = reader[a].key
    /\ row[a].form = "bare" => row[a].ver = reader[a].ver

\* Its transaction: the legacy row becomes a full one.  A pointer's ciphertext is
\* in KV already; a bare one gets a mirror job.
ReadCommit(a) ==
    LET old == reader[a]
        key == IF old.key # 0 THEN old.key ELSE drawn[a].key + 1
    IN  /\ old # NoRow /\ UnchangedSince(a) /\ key <= MaxKey
        /\ row' = [row EXCEPT ![a] = [form |-> "full", ver |-> old.ver, rev |-> 1, key |-> key]]
        /\ drawn' = [drawn EXCEPT ![a] = Draw(a, key, drawn[a].ver)]
        /\ reader' = [reader EXCEPT ![a] = NoRow]
        /\ \/ /\ old.form = "pointer"
              /\ dels' = [dels EXCEPT ![a] = NoDel]
              /\ UNCHANGED <<queue, alarm, chain>>
           \/ /\ old.form = "bare"
              /\ queue' = [queue EXCEPT ![a] = [rev |-> 1, key |-> key, due |-> TRUE]]
              /\ alarm' = TRUE
              /\ chain' = Enqueue(a, "put", "rpc")
              /\ UNCHANGED dels
        /\ UNCHANGED <<kv, io, job>>

\* The row changed under readAccountToken, or it could not be decrypted.
ReadRetry(a) ==
    /\ reader[a] # NoRow
    /\ reader' = [reader EXCEPT ![a] = NoRow]
    /\ UNCHANGED <<row, queue, dels, kv, drawn, chain, io, job, alarm>>

-----------------------------------------------------------------------------
(* The chain of mirror operations of an account *)

\* Who awaits the operation at the head of chain a, and whether it has more to do.
Caller(a) == Head(chain[a]).by
MoreToDo(a) == Caller(a) # "rpc" /\ job[Caller(a)].del \cup job[Caller(a)].put # {}

\* The operation at the head of chain a is over and its caller goes on: the alarm
\* handler with its next deletion, then with its next mirror, the import with its
\* next account; everyone ends with scheduleNextAlarm, as does a deferred operation.
Finish(a, deferred) ==
    LET by == Caller(a)
        rest == [chain EXCEPT ![a] = Tail(@)]
        append(b, kind) == [rest EXCEPT ![b] = Append(@, [kind |-> kind, by |-> by])]
    IN  /\ \/ /\ ~MoreToDo(a)
              /\ chain' = rest
              /\ job' = [j \in DOMAIN job |-> IF j = by THEN IdleJob ELSE job[j]]
           \/ /\ MoreToDo(a)
              /\ \E b \in job[by].del :
                    /\ chain' = append(b, "del")
                    /\ job' = [job EXCEPT ![by].del = @ \ {b}]
           \/ /\ MoreToDo(a) /\ job[by].del = {}
              /\ \E b \in job[by].put :
                    /\ chain' = append(b, "put")
                    /\ job' = [job EXCEPT ![by].put = @ \ {b}]
        /\ IF deferred \/ ~MoreToDo(a) THEN ScheduleNextAlarm ELSE UNCHANGED alarm

\* The chain of account a may start an operation of this kind.
Ready(a, kind) == chain[a] # <<>> /\ Head(chain[a]).kind = kind /\ io[a] = NoCall

\* flushCredentialMirror up to its KV call: the job and its row are read together.
PutBegin(a) ==
    /\ Ready(a, "put")
    /\ \/ /\ Queued(a) /\ row[a].rev = queue[a].rev
          /\ io' = [io EXCEPT ![a] = [kind |-> "put", key |-> queue[a].key,
                                      ver |-> row[a].ver, rev |-> queue[a].rev]]
          /\ UNCHANGED <<queue, dels, row, chain, job, alarm>>
       \/ /\ ~(Queued(a) /\ row[a].rev = queue[a].rev)
          /\ queue' = [queue EXCEPT ![a] = NoQueue]
          /\ UNCHANGED <<io, dels, row>>
          /\ Finish(a, FALSE)
    /\ UNCHANGED <<kv, drawn, reader>>

\* Mutant: the job is removed whatever it asks for by now.
AnyPutDone(a) == NoQueue

\* DELETE ... WHERE revision=?: a job that was renewed during the call stays.
PutDone(a) == IF queue[a].rev = io[a].rev THEN NoQueue ELSE queue[a]

\* The KV call of account a takes effect.
Landed(a) == [kv EXCEPT ![a][io[a].key] = IF io[a].kind = "put" THEN io[a].ver ELSE 0]

\* The put succeeds.
PutSucceeds(a) ==
    /\ io[a].kind = "put"
    /\ kv' = Landed(a)
    /\ queue' = [queue EXCEPT ![a] = PutDone(a)]
    /\ io' = [io EXCEPT ![a] = NoCall]
    /\ UNCHANGED <<row, dels, drawn, reader>>
    /\ Finish(a, FALSE)

\* The put throws, with or without effect, and deferCredentialMirror runs: the job
\* of this revision is no longer due.
PutFails(a) ==
    /\ io[a].kind = "put"
    /\ kv' \in {kv, Landed(a)}
    /\ queue' = [queue EXCEPT ![a].due = @ /\ queue[a].rev # io[a].rev]
    /\ io' = [io EXCEPT ![a] = NoCall]
    /\ UNCHANGED <<row, dels, drawn, reader>>
    /\ Finish(a, Queued(a))

\* flushCredentialDeletion calls KV only for an account that is still gone.
DeletesKey(a) == Deleting(a) /\ ~Stored(a)

DelBegin(a) ==
    /\ Ready(a, "del")
    /\ \/ /\ DeletesKey(a)
          /\ io' = [io EXCEPT ![a] = [NoCall EXCEPT !.kind = "del", !.key = dels[a].key]]
          /\ UNCHANGED <<queue, dels, row, chain, job, alarm>>
       \/ /\ ~DeletesKey(a)
          /\ dels' = [dels EXCEPT ![a] = NoDel]
          /\ UNCHANGED <<io, queue, row>>
          /\ Finish(a, FALSE)
    /\ UNCHANGED <<kv, drawn, reader>>

DelSucceeds(a) ==
    /\ io[a].kind = "del"
    /\ kv' = Landed(a)
    /\ dels' = [dels EXCEPT ![a] = NoDel]
    /\ io' = [io EXCEPT ![a] = NoCall]
    /\ UNCHANGED <<row, queue, drawn, reader>>
    /\ Finish(a, FALSE)

DelFails(a) ==
    /\ io[a].kind = "del"
    /\ kv' \in {kv, Landed(a)}
    /\ dels' = [dels EXCEPT ![a].due = FALSE]
    /\ io' = [io EXCEPT ![a] = NoCall]
    /\ UNCHANGED <<row, queue, drawn, reader>>
    /\ Finish(a, Deleting(a))

-----------------------------------------------------------------------------
(* The alarm, time and evictions *)

\* Mutant: the back-off doubles without a cap and never ends.
UncappedDelay(a) == a \notin Account /\ UNCHANGED vars

\* next_attempt_at of a deferred job passes.
BecomesDue(a) ==
    /\ \/ /\ Queued(a) /\ ~queue[a].due
          /\ queue' = [queue EXCEPT ![a].due = TRUE]
          /\ UNCHANGED dels
       \/ /\ Deleting(a) /\ ~dels[a].due
          /\ dels' = [dels EXCEPT ![a].due = TRUE]
          /\ UNCHANGED queue
    /\ UNCHANGED <<row, kv, drawn, chain, io, job, alarm, reader>>

DueDeletions == {a \in Account : Deleting(a) /\ dels[a].due}
DueMirrors == {a \in Account : Queued(a) /\ queue[a].due}

\* The alarm fires with jobs to do: deletions first.
AlarmFlushes ==
    /\ alarm /\ ~job["alarm"].busy
    /\ alarm' = FALSE
    /\ \/ \E a \in DueDeletions :
             /\ chain' = Enqueue(a, "del", "alarm")
             /\ job' = [job EXCEPT !["alarm"] =
                          [busy |-> TRUE, del |-> DueDeletions \ {a}, put |-> DueMirrors]]
       \/ /\ DueDeletions = {}
          /\ \E a \in DueMirrors :
                /\ chain' = Enqueue(a, "put", "alarm")
                /\ job' = [job EXCEPT !["alarm"] =
                             [busy |-> TRUE, del |-> {}, put |-> DueMirrors \ {a}]]
    /\ UNCHANGED <<row, queue, dels, kv, drawn, io, reader>>

\* The alarm fires before any job is due, for a token refresh or for nothing.
AlarmIsEarly ==
    /\ alarm /\ ~job["alarm"].busy
    /\ DueDeletions \cup DueMirrors = {}
    /\ UNCHANGED <<row, queue, dels, kv, drawn, chain, io, job, reader>>
    /\ ScheduleNextAlarm

\* migrate: pending jobs are scheduled again.
RestartAlarm == ScheduleNextAlarm

\* The object is evicted and activated again.  Each KV call in flight has had its
\* effect or never will; the jobs it belonged to are still in their tables.
Restart ==
    /\ \E a \in Account : chain[a] # <<>> \/ reader[a] # NoRow
    /\ \E done \in SUBSET {a \in Account : io[a].kind # "none"} :
          kv' = [a \in Account |-> IF a \in done THEN Landed(a)[a] ELSE kv[a]]
    /\ chain' = [a \in Account |-> <<>>]
    /\ io' = [a \in Account |-> NoCall]
    /\ job' = [j \in {"alarm", "import"} |-> IdleJob]
    /\ reader' = [a \in Account |-> NoRow]
    /\ UNCHANGED <<row, queue, dels, drawn>>
    /\ RestartAlarm

KVStep(a) == PutSucceeds(a) \/ PutFails(a) \/ DelSucceeds(a) \/ DelFails(a)

Next ==
    \/ \E a \in Account :
          \/ UpsertAccount(a)
          \/ ReadBegin(a) \/ ReadCommit(a) \/ ReadRetry(a)
          \/ PutBegin(a) \/ DelBegin(a)
          \/ KVStep(a)
          \/ BecomesDue(a)
    \/ \E a \in Deletable : DeleteAccount(a)
    \/ \E S \in Batches : ImportAccountMigration(S)
    \/ AlarmFlushes \/ AlarmIsEarly \/ Restart

Spec == Init /\ [][Next]_vars

\* Calls return, time passes and a set alarm fires.  Operations start within the
\* turn that makes them the head of their chain, so that evictions cannot preempt
\* them for ever.  KV works again after an outage: an operation that is tried over
\* and over succeeds once.
Fairness ==
    /\ \A a \in Account :
          /\ WF_vars(KVStep(a)) /\ WF_vars(BecomesDue(a))
          /\ SF_vars(PutBegin(a)) /\ SF_vars(DelBegin(a))
          /\ SF_vars(PutSucceeds(a)) /\ SF_vars(DelSucceeds(a))
    /\ WF_vars(AlarmFlushes)

FairSpec == Spec /\ Fairness

-----------------------------------------------------------------------------
(* Properties *)

\* Once the account is deleted and its deletion job is done, KV keeps no credential
\* of it under any key it ever had, through failed writes that took effect, evictions
\* in the middle of a call and re-authorizations that reuse the key.  And "never let
\* delayed cleanup remove a live key" (flushCredentialDeletion): an account without a
\* pending mirror job has a backup under its key, and none under any other.
KvMatchesAccounts ==
    \A a \in Account : \A k \in 1..MaxKey :
        /\ ~Stored(a) /\ ~Deleting(a) => kv[a][k] = 0
        /\ row[a].form = "full" /\ ~Queued(a) => (kv[a][k] # 0 <=> k = row[a].key)

\* README: SENSITIVE_KV keeps the same ciphertext as the Durable Object.  Whenever
\* no mirror job is pending for an account, its backup is the current ciphertext.
MirrorIsCurrent ==
    \A a \in Account :
        row[a].form = "full" /\ ~Queued(a) => kv[a][row[a].key] = row[a].ver

\* Every job is done in the end, whatever fails or is evicted on the way.
JobsDrain ==
    \A a \in Account : (Queued(a) \/ Deleting(a)) ~> (~Queued(a) /\ ~Deleting(a))

\* A legacy row is replaced by the ciphertext it stood for, or by a newer one: the
\* stored ciphertext of an account never goes back.
CiphertextAdvances ==
    [][\A a \in Account :
          Stored(a) /\ row'[a].form # "none" => row'[a].ver >= row[a].ver]_vars
=============================================================================
