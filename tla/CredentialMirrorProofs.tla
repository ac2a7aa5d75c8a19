------------------------- MODULE CredentialMirrorProofs -------------------------
(***************************************************************************)
(* Type correctness of CredentialMirror, and what SENSITIVE_KV holds of an *)
(* account, for any set of accounts and any bounds.                        *)
(*                                                                         *)
(* Everything that matters here is local to one account: its row, its two  *)
(* job rows, its KV keys, the one KV call in flight and the reader of a    *)
(* legacy row.  StepKinds shows that a step of any handler does to each    *)
(* account one of a dozen things (or nothing), whatever chain, alarm or    *)
(* import it is part of; each of them keeps the local invariants.  The     *)
(* chains, jobs and the alarm appear in the type invariant only: the order *)
(* in which operations are queued does not matter, only that an account    *)
(* has one KV call at a time.                                              *)
(***************************************************************************)
EXTENDS CredentialMirror, TLAPS

-----------------------------------------------------------------------------
(* The local invariants of account a *)

Typed(a) ==
    /\ row[a] \in Row /\ queue[a] \in QueueRow /\ dels[a] \in DelRow
    /\ kv[a] \in [1..MaxKey -> Ver] /\ drawn[a] \in [key : Key, ver : Ver]
    /\ io[a] \in Call /\ reader[a] \in Row

\* No ciphertext anywhere is newer than the last one that was produced, and a row
\* was stored at most once for each of them.
Bounded(a) ==
    /\ row[a].ver <= drawn[a].ver /\ row[a].rev <= drawn[a].ver
    /\ io[a].ver <= drawn[a].ver /\ reader[a].ver <= drawn[a].ver
    /\ \A k \in 1..MaxKey : kv[a][k] <= drawn[a].ver

\* The one key that may hold a credential of the account: of its row, or of the
\* deletion job that a row left behind; 0 if there is none.
Cur(a) == IF row[a].key # 0 THEN row[a].key ELSE dels[a].key

\* What a row looks like, and the jobs that go with it.
RowSound(a) ==
    /\ row[a].form \in {"none", "bare"} <=> row[a].key = 0
    /\ row[a].form \in {"bare", "full"} => row[a].ver # 0
    /\ row[a].form = "pointer" => row[a].ver = 0
    /\ Stored(a) => ~Deleting(a)
    /\ Queued(a) => row[a].form = "full" /\ queue[a].rev = row[a].rev /\ queue[a].key = row[a].key
    /\ reader[a] # NoRow => reader[a].ver # 0 /\ reader[a].form \in {"pointer", "bare"}

\* The call in flight is about the current key, and a deletion that was overtaken by
\* a new authorization leaves a mirror job behind it.
CallSound(a) ==
    /\ row[a].form \in {"pointer", "bare"} => io[a].kind = "none"
    /\ io[a].kind # "none" => io[a].key = Cur(a) /\ io[a].key # 0
    /\ io[a].kind = "put" => io[a].ver # 0
    /\ io[a].kind = "del" /\ Stored(a) => Queued(a)

\* KV holds something under the current key at most, and surely when nothing is
\* pending.
KvSound(a) ==
    /\ \A k \in 1..MaxKey : kv[a][k] # 0 => k = Cur(a)
    /\ row[a].form = "pointer" => kv[a][row[a].key] # 0
    /\ row[a].form = "full" /\ ~Queued(a) => kv[a][row[a].key] # 0

\* For an account that is never deleted: a revision stands for one ciphertext, so that
\* a put that finds its revision still wanted has written the current one.
Current(a) ==
    /\ ~Deleting(a) /\ io[a].kind # "del"
    /\ io[a].kind = "put" =>
          /\ Queued(a) /\ io[a].rev <= row[a].rev
          /\ io[a].rev = row[a].rev => io[a].ver = row[a].ver
    /\ row[a].form = "pointer" /\ reader[a].form = "pointer" /\ row[a].key = reader[a].key =>
          kv[a][row[a].key] = reader[a].ver
    /\ row[a].form = "full" /\ ~Queued(a) => kv[a][row[a].key] = row[a].ver

LocalInv(a) == Typed(a) /\ Bounded(a) /\ RowSound(a) /\ CallSound(a) /\ KvSound(a)

\* The functions have the accounts as their domain; the control state is well typed,
\* and a KV call belongs to an operation of its chain.
Shape ==
    /\ row = [a \in Account |-> row[a]] /\ queue = [a \in Account |-> queue[a]]
    /\ dels = [a \in Account |-> dels[a]] /\ kv = [a \in Account |-> kv[a]]
    /\ drawn = [a \in Account |-> drawn[a]] /\ io = [a \in Account |-> io[a]]
    /\ reader = [a \in Account |-> reader[a]]

Control ==
    /\ chain \in [Account -> Seq(Op)]
    /\ job \in [{"alarm", "import"} -> Job]
    /\ alarm \in BOOLEAN
    /\ \A a \in Account : io[a].kind # "none" => chain[a] # <<>>

MirrorInv == Shape /\ Control /\ \A a \in Account : LocalInv(a)
CurrentInv == \A a \in Account \ Deletable : Current(a)

-----------------------------------------------------------------------------
(* What a step does to account a *)

SameRows(a) == row'[a] = row[a] /\ drawn'[a] = drawn[a]
SameJobs(a) == queue'[a] = queue[a] /\ dels'[a] = dels[a]
SameKv(a) == kv'[a] = kv[a] /\ io'[a] = io[a]
SameReader(a) == reader'[a] = reader[a]

Same(a) == SameRows(a) /\ SameJobs(a) /\ SameKv(a) /\ SameReader(a)

\* A new ciphertext is stored (upsertAccount, importAccountMigration).
Stores(a) ==
    /\ HasBudget(a)
    /\ row'[a] = StoredRow(a)
    /\ queue'[a] = [rev |-> StoredRow(a).rev, key |-> StoredRow(a).key, due |-> TRUE]
    /\ dels'[a] = NoDel
    /\ drawn'[a] = Draw(a, StoredRow(a).key, StoredRow(a).ver)
    /\ SameKv(a) /\ SameReader(a)

\* The account is deleted.
Deletes(a) ==
    /\ a \in Deletable
    /\ Stored(a) /\ DeletionOf(a).key <= MaxKey
    /\ row'[a] = NoRow /\ queue'[a] = NoQueue /\ dels'[a] = DeletionOf(a)
    /\ drawn'[a] = Draw(a, DeletionOf(a).key, drawn[a].ver)
    /\ SameKv(a) /\ SameReader(a)

\* A legacy row is read, or the reading is given up.
Reads(a) ==
    /\ SameRows(a) /\ SameJobs(a) /\ SameKv(a)
    /\ \/ reader'[a] = NoRow
       \/ /\ row[a].form = "pointer" /\ kv[a][row[a].key] # 0
          /\ reader'[a] = [row[a] EXCEPT !.ver = kv[a][row[a].key]]
       \/ row[a].form = "bare" /\ reader'[a] = row[a]

\* The key under which a legacy row is stored again.
CommitKey(a) == IF reader[a].key # 0 THEN reader[a].key ELSE drawn[a].key + 1

\* A legacy row becomes a full one.
Commits(a) ==
    /\ reader[a] # NoRow /\ UnchangedSince(a) /\ CommitKey(a) <= MaxKey
    /\ row'[a] = [form |-> "full", ver |-> reader[a].ver, rev |-> 1, key |-> CommitKey(a)]
    /\ drawn'[a] = Draw(a, CommitKey(a), drawn[a].ver)
    /\ reader'[a] = NoRow
    /\ SameKv(a)
    /\ \/ reader[a].form = "pointer" /\ dels'[a] = NoDel /\ queue'[a] = queue[a]
       \/ /\ reader[a].form = "bare" /\ dels'[a] = dels[a]
          /\ queue'[a] = [rev |-> 1, key |-> CommitKey(a), due |-> TRUE]

\* A KV call begins.
PutStarts(a) ==
    /\ io[a] = NoCall /\ Queued(a) /\ row[a].rev = queue[a].rev
    /\ io'[a] = [kind |-> "put", key |-> queue[a].key, ver |-> row[a].ver, rev |-> queue[a].rev]
    /\ kv'[a] = kv[a] /\ SameRows(a) /\ SameJobs(a) /\ SameReader(a)
DelStarts(a) ==
    /\ io[a] = NoCall /\ DeletesKey(a)
    /\ io'[a] = [NoCall EXCEPT !.kind = "del", !.key = dels[a].key]
    /\ kv'[a] = kv[a] /\ SameRows(a) /\ SameJobs(a) /\ SameReader(a)

\* A job that has nothing to do any more is dropped.
Skips(a) ==
    /\ \/ /\ ~(Queued(a) /\ row[a].rev = queue[a].rev)
          /\ queue'[a] = NoQueue /\ dels'[a] = dels[a]
       \/ ~DeletesKey(a) /\ dels'[a] = NoDel /\ queue'[a] = queue[a]
    /\ io[a] = NoCall /\ SameRows(a) /\ SameKv(a) /\ SameReader(a)

\* KV after the call of account a.
After(a) == [kv[a] EXCEPT ![io[a].key] = IF io[a].kind = "put" THEN io[a].ver ELSE 0]

\* A KV call succeeds.
PutEnds(a) ==
    /\ io[a].kind = "put" /\ kv'[a] = After(a) /\ io'[a] = NoCall
    /\ queue'[a] = PutDone(a) /\ dels'[a] = dels[a] /\ SameRows(a) /\ SameReader(a)
DelEnds(a) ==
    /\ io[a].kind = "del" /\ kv'[a] = After(a) /\ io'[a] = NoCall
    /\ dels'[a] = NoDel /\ queue'[a] = queue[a] /\ SameRows(a) /\ SameReader(a)

\* A KV call fails or dies with the object, with or without effect; or jobs become due.
Breaks(a) ==
    /\ SameRows(a) /\ reader'[a] \in {reader[a], NoRow}
    /\ \/ SameKv(a)
       \/ io'[a] = NoCall /\ kv'[a] = kv[a]
       \/ io[a].kind # "none" /\ io'[a] = NoCall /\ kv'[a] = After(a)
    /\ \E due \in BOOLEAN : queue'[a] \in {queue[a], [queue[a] EXCEPT !.due = due]}
    /\ \E due \in BOOLEAN : dels'[a] \in {dels[a], [dels[a] EXCEPT !.due = due]}

Kinds(a) ==
    \/ Same(a) \/ Stores(a) \/ Deletes(a) \/ Reads(a) \/ Commits(a) \/ PutStarts(a) \/ DelStarts(a)
    \/ Skips(a) \/ PutEnds(a) \/ DelEnds(a) \/ Breaks(a)

-----------------------------------------------------------------------------
(* Every step is of these kinds *)

\* StoreAll is a step of its accounts only.
LEMMA StoreAllKinds ==
    ASSUME Shape, NEW S \in SUBSET Account, StoreAll(S), \A a \in S : HasBudget(a),
           UNCHANGED <<kv, io, reader>>
    PROVE  Shape' /\ \A a \in Account : Kinds(a)
<1>1. Shape'
  BY DEF Shape, StoreAll
<1>2. \A a \in Account : a \notin S => Same(a)
  BY DEF StoreAll, Same, SameRows, SameJobs, SameKv, SameReader
<1>3. \A a \in S : Stores(a)
  BY DEF StoreAll, Stores, SameKv, SameReader
<1> QED
  BY <1>1, <1>2, <1>3 DEF Kinds

\* What remains the same everywhere but at b.
Elsewhere(b) == \A a \in Account : a # b => Same(a)

\* A step that is of a kind at b, and the same elsewhere, is of a kind everywhere.
LEMMA AtOne ==
    ASSUME NEW b \in Account, Elsewhere(b), Kinds(b)
    PROVE  \A a \in Account : Kinds(a)
BY DEF Elsewhere, Kinds

\* deleteAccount.
LEMMA DeleteKinds ==
    ASSUME Shape, NEW b \in Deletable, DeleteAccount(b)
    PROVE  Shape' /\ \A a \in Account : Kinds(a)
<1>0. b \in Account
  BY MirrorAssumption
<1>1. Shape'
  BY DEF Shape, DeleteAccount
<1>2. Elsewhere(b)
  BY DEF Shape, DeleteAccount, Elsewhere, Same, SameRows, SameJobs, SameKv, SameReader
<1>3. Deletes(b)
  BY <1>0 DEF Shape, DeleteAccount, Deletes, SameKv, SameReader
<1> QED
  BY <1>0, <1>1, <1>2, <1>3, AtOne DEF Kinds

\* readAccountToken of a legacy row.
LEMMA ReadKinds ==
    ASSUME Shape, NEW b \in Account, ReadBegin(b) \/ ReadCommit(b) \/ ReadRetry(b)
    PROVE  Shape' /\ \A a \in Account : Kinds(a)
<1>1. CASE ReadBegin(b)
  <2>1. Shape'
    BY <1>1 DEF Shape, ReadBegin
  <2>2. Elsewhere(b)
    BY <1>1 DEF Shape, ReadBegin, Elsewhere, Same, SameRows, SameJobs, SameKv, SameReader
  <2>3. Reads(b)
    BY <1>1 DEF Shape, ReadBegin, Reads, SameRows, SameJobs, SameKv
  <2> QED
    BY <2>1, <2>2, <2>3, AtOne DEF Kinds
<1>2. CASE ReadRetry(b)
  <2>1. Shape'
    BY <1>2 DEF Shape, ReadRetry
  <2>2. Elsewhere(b)
    BY <1>2 DEF Shape, ReadRetry, Elsewhere, Same, SameRows, SameJobs, SameKv, SameReader
  <2>3. Reads(b)
    BY <1>2 DEF Shape, ReadRetry, Reads, SameRows, SameJobs, SameKv
  <2> QED
    BY <2>1, <2>2, <2>3, AtOne DEF Kinds
<1>3. CASE ReadCommit(b)
  <2>1. Shape'
    BY <1>3 DEF Shape, ReadCommit
  <2>2. Elsewhere(b)
    BY <1>3 DEF Shape, ReadCommit, Elsewhere, Same, SameRows, SameJobs, SameKv, SameReader
  <2>3. Commits(b)
    BY <1>3 DEF Shape, ReadCommit, Commits, CommitKey, SameKv
  <2> QED
    BY <2>1, <2>2, <2>3, AtOne DEF Kinds
<1> QED
  BY <1>1, <1>2, <1>3

\* An operation of a chain starts its KV call, or is dropped.
LEMMA BeginKinds ==
    ASSUME Shape, NEW b \in Account, PutBegin(b) \/ DelBegin(b)
    PROVE  Shape' /\ \A a \in Account : Kinds(a)
<1>1. CASE PutBegin(b)
  <2>1. Shape'
    BY <1>1 DEF Shape, PutBegin
  <2>2. Elsewhere(b)
    BY <1>1 DEF Shape, PutBegin, Elsewhere, Same, SameRows, SameJobs, SameKv, SameReader
  <2>3. PutStarts(b) \/ Skips(b)
    BY <1>1 DEF Shape, PutBegin, Ready, PutStarts, Skips, SameRows, SameJobs, SameKv, SameReader
  <2> QED
    BY <2>1, <2>2, <2>3, AtOne DEF Kinds
<1>2. CASE DelBegin(b)
  <2>1. Shape'
    BY <1>2 DEF Shape, DelBegin
  <2>2. Elsewhere(b)
    BY <1>2 DEF Shape, DelBegin, Elsewhere, Same, SameRows, SameJobs, SameKv, SameReader
  <2>3. DelStarts(b) \/ Skips(b)
    BY <1>2 DEF Shape, DelBegin, Ready, DelStarts, Skips, SameRows, SameJobs, SameKv, SameReader
  <2> QED
    BY <2>1, <2>2, <2>3, AtOne DEF Kinds
<1> QED
  BY <1>1, <1>2

\* The KV call of b lands at b only.
LEMMA LandedAt ==
    ASSUME Shape, NEW b \in Account
    PROVE  /\ Landed(b) = [a \in Account |-> Landed(b)[a]]
           /\ Landed(b)[b] = After(b)
           /\ \A a \in Account : a # b => Landed(b)[a] = kv[a]
BY DEF Shape, Landed, After

\* The KV call of an account returns.
LEMMA CallKinds ==
    ASSUME Shape, NEW b \in Account, KVStep(b)
    PROVE  Shape' /\ \A a \in Account : Kinds(a)
<1>0. /\ Landed(b) = [a \in Account |-> Landed(b)[a]]
      /\ Landed(b)[b] = After(b)
      /\ \A a \in Account : a # b => Landed(b)[a] = kv[a]
  BY LandedAt
<1>1. CASE PutSucceeds(b)
  <2>1. Shape'
    BY <1>0, <1>1 DEF Shape, PutSucceeds
  <2>2. Elsewhere(b)
    BY <1>0, <1>1 DEF Shape, PutSucceeds, Elsewhere, Same, SameRows, SameJobs, SameKv, SameReader
  <2>3. PutEnds(b)
    BY <1>0, <1>1 DEF Shape, PutSucceeds, PutEnds, SameRows, SameReader
  <2> QED
    BY <2>1, <2>2, <2>3, AtOne DEF Kinds
<1>2. CASE DelSucceeds(b)
  <2>1. Shape'
    BY <1>0, <1>2 DEF Shape, DelSucceeds
  <2>2. Elsewhere(b)
    BY <1>0, <1>2 DEF Shape, DelSucceeds, Elsewhere, Same, SameRows, SameJobs, SameKv, SameReader
  <2>3. DelEnds(b)
    BY <1>0, <1>2 DEF Shape, DelSucceeds, DelEnds, SameRows, SameReader
  <2> QED
    BY <2>1, <2>2, <2>3, AtOne DEF Kinds
<1>3. CASE PutFails(b)
  <2> DEFINE due == queue[b].due /\ queue[b].rev # io[b].rev
  <2>1. Shape'
    BY <1>0, <1>3 DEF Shape, PutFails
  <2>2. Elsewhere(b)
    BY <1>0, <1>3 DEF Shape, PutFails, Elsewhere, Same, SameRows, SameJobs, SameKv, SameReader
  <2>3. due \in BOOLEAN /\ queue'[b] = [queue[b] EXCEPT !.due = due] /\ dels'[b] = dels[b]
    BY <1>3 DEF Shape, PutFails
  <2> HIDE DEF due
  <2>4. /\ io[b].kind # "none" /\ io'[b] = NoCall /\ kv'[b] \in {kv[b], After(b)}
        /\ row'[b] = row[b] /\ drawn'[b] = drawn[b] /\ reader'[b] = reader[b]
    BY <1>0, <1>3 DEF Shape, PutFails
  <2>5. Breaks(b)
    BY <2>3, <2>4 DEF Breaks, SameRows, SameKv
  <2> QED
    BY <2>1, <2>2, <2>5, AtOne DEF Kinds
<1>4. CASE DelFails(b)
  <2>1. Shape'
    BY <1>0, <1>4 DEF Shape, DelFails
  <2>2. Elsewhere(b)
    BY <1>0, <1>4 DEF Shape, DelFails, Elsewhere, Same, SameRows, SameJobs, SameKv, SameReader
  <2>3. queue'[b] = queue[b] /\ dels'[b] = [dels[b] EXCEPT !.due = FALSE]
    BY <1>4 DEF Shape, DelFails
  <2>4. /\ io[b].kind # "none" /\ io'[b] = NoCall /\ kv'[b] \in {kv[b], After(b)}
        /\ row'[b] = row[b] /\ drawn'[b] = drawn[b] /\ reader'[b] = reader[b]
    BY <1>0, <1>4 DEF Shape, DelFails
  <2>5. Breaks(b)
    BY <2>3, <2>4 DEF Breaks, SameRows, SameKv
  <2> QED
    BY <2>1, <2>2, <2>5, AtOne DEF Kinds
<1> QED
  BY <1>1, <1>2, <1>3, <1>4 DEF KVStep

\* A deferred job becomes due.
LEMMA DueKinds ==
    ASSUME Shape, NEW b \in Account, BecomesDue(b)
    PROVE  Shape' /\ \A a \in Account : Kinds(a)
<1>1. Shape'
  BY DEF Shape, BecomesDue
<1>2. Elsewhere(b)
  BY DEF Shape, BecomesDue, Elsewhere, Same, SameRows, SameJobs, SameKv, SameReader
<1>3. /\ queue'[b] \in {queue[b], [queue[b] EXCEPT !.due = TRUE]}
      /\ dels'[b] \in {dels[b], [dels[b] EXCEPT !.due = TRUE]}
  BY DEF Shape, BecomesDue
<1>4. SameRows(b) /\ SameKv(b) /\ SameReader(b)
  BY DEF BecomesDue, SameRows, SameKv, SameReader
<1>5. Breaks(b)
  BY <1>3, <1>4 DEF Breaks, SameReader
<1> QED
  BY <1>1, <1>2, <1>5, AtOne DEF Kinds

\* The object is evicted.
LEMMA RestartKinds ==
    ASSUME Shape, Restart
    PROVE  Shape' /\ \A a \in Account : Kinds(a)
<1>1. PICK done \in SUBSET {a \in Account : io[a].kind # "none"} :
         kv' = [a \in Account |-> IF a \in done THEN Landed(a)[a] ELSE kv[a]]
  BY DEF Restart
<1>2. Shape'
  BY <1>1 DEF Shape, Restart
<1>3. ASSUME NEW a \in Account PROVE Breaks(a)
  <2>1. io'[a] = NoCall /\ reader'[a] = NoRow /\ queue'[a] = queue[a] /\ dels'[a] = dels[a]
        /\ SameRows(a)
    BY DEF Restart, SameRows
  <2>2. kv'[a] = kv[a] \/ (io[a].kind # "none" /\ kv'[a] = After(a))
    BY <1>1, LandedAt
  <2> QED
    BY <2>1, <2>2 DEF Breaks
<1> QED
  BY <1>2, <1>3 DEF Kinds

\* Every step of every handler is of one of the kinds at each account.
LEMMA StepKinds ==
    ASSUME Shape, [Next]_vars
    PROVE  Shape' /\ \A a \in Account : Kinds(a)
<1>1. CASE UNCHANGED vars
  BY <1>1 DEF vars, Shape, Kinds, Same, SameRows, SameJobs, SameKv, SameReader
<1>2. CASE AlarmFlushes \/ AlarmIsEarly
  BY <1>2 DEF AlarmFlushes, AlarmIsEarly, Shape, Kinds, Same, SameRows, SameJobs, SameKv, SameReader
<1>3. CASE \E a \in Account : UpsertAccount(a)
  BY <1>3, StoreAllKinds DEF UpsertAccount
<1>4. CASE \E S \in Batches : ImportAccountMigration(S)
  BY <1>4, StoreAllKinds, MirrorAssumption DEF ImportAccountMigration
<1> QED
  BY <1>1, <1>2, <1>3, <1>4, DeleteKinds, ReadKinds, BeginKinds, CallKinds, DueKinds, RestartKinds
     DEF Next

-----------------------------------------------------------------------------
(* Each kind keeps the local invariants *)

\* The fields of the records of an account.
LEMMA Fields ==
    ASSUME NEW a \in Account, Typed(a)
    PROVE  /\ row[a].form \in {"none", "pointer", "bare", "full"}
           /\ row[a].ver \in 0..MaxVer /\ row[a].rev \in 0..MaxVer + 1 /\ row[a].key \in 0..MaxKey
           /\ queue[a].rev \in 0..MaxVer + 1 /\ queue[a].key \in 0..MaxKey /\ queue[a].due \in BOOLEAN
           /\ dels[a].key \in 0..MaxKey /\ dels[a].due \in BOOLEAN
           /\ \A k \in 1..MaxKey : kv[a][k] \in 0..MaxVer
           /\ drawn[a].key \in 0..MaxKey /\ drawn[a].ver \in 0..MaxVer
           /\ io[a].kind \in {"none", "put", "del"}
           /\ io[a].key \in 0..MaxKey /\ io[a].ver \in 0..MaxVer /\ io[a].rev \in 0..MaxVer + 1
           /\ reader[a].form \in {"none", "pointer", "bare", "full"}
           /\ reader[a].ver \in 0..MaxVer /\ reader[a].key \in 0..MaxKey
BY DEF Typed, Row, QueueRow, DelRow, Call, Ver, Rev, Key

\* The bounds are numbers.
LEMMA Bounds == MaxVer \in Nat /\ MaxKey \in Nat
BY MirrorAssumption

\* The empty records are well typed.
LEMMA EmptyTyped ==
    NoRow \in Row /\ NoQueue \in QueueRow /\ NoDel \in DelRow /\ NoCall \in Call
BY Bounds DEF NoRow, NoQueue, NoDel, NoCall, Row, QueueRow, DelRow, Call, Ver, Rev, Key

\* The KV entries of an account behind its call.
LEMMA AfterEntries ==
    ASSUME NEW a \in Account, Typed(a), CallSound(a), io[a].kind # "none"
    PROVE  /\ After(a) \in [1..MaxKey -> Ver] /\ io[a].key \in 1..MaxKey
           /\ \A k \in 1..MaxKey :
                 After(a)[k] = IF k # io[a].key THEN kv[a][k]
                               ELSE IF io[a].kind = "put" THEN io[a].ver ELSE 0
<1> DEFINE v == IF io[a].kind = "put" THEN io[a].ver ELSE 0
<1>1. kv[a] \in [1..MaxKey -> Ver] /\ v \in Ver
  BY Fields, Bounds DEF Typed, Ver
<1>2. io[a].key \in 1..MaxKey
  BY Fields, Bounds DEF CallSound
<1>3. After(a) = [kv[a] EXCEPT ![io[a].key] = v]
  BY DEF After
<1> HIDE DEF v
<1>4. /\ After(a) \in [1..MaxKey -> Ver]
      /\ \A k \in 1..MaxKey : After(a)[k] = IF k # io[a].key THEN kv[a][k] ELSE v
  BY <1>1, <1>2, <1>3
<1> QED
  BY <1>2, <1>4 DEF v

\* The well-typed account behind a step, part by part.
LEMMA TypedNext ==
    ASSUME NEW a \in Account,
           row'[a] \in Row, queue'[a] \in QueueRow, dels'[a] \in DelRow,
           kv'[a] \in [1..MaxKey -> Ver], drawn'[a] \in [key : Key, ver : Ver],
           io'[a] \in Call, reader'[a] \in Row
    PROVE  Typed(a)'
BY DEF Typed

\* Nothing happens to the account.
LEMMA SameKeeps ==
    ASSUME NEW a \in Account, LocalInv(a), Same(a)
    PROVE  LocalInv(a)'
<1>0. Typed(a) /\ Bounded(a) /\ RowSound(a) /\ CallSound(a) /\ KvSound(a)
  BY DEF LocalInv
<1>1. Typed(a)'
  <2>1. /\ queue'[a] \in QueueRow /\ dels'[a] \in DelRow /\ kv'[a] \in [1..MaxKey -> Ver]
        /\ drawn'[a] \in [key : Key, ver : Ver] /\ io'[a] \in Call /\ reader'[a] \in Row
    BY <1>0 DEF Typed, Same, SameJobs, SameKv, SameReader, SameRows
  <2>2. row'[a] \in Row
    BY <1>0 DEF Typed, Same, SameRows
  <2> QED
    BY <2>1, <2>2, TypedNext
<1>2. Bounded(a)'
  BY <1>0, Fields, Bounds
     DEF Bounded, RowSound, Same, SameRows, SameJobs, SameKv, SameReader, Stored, Queued,
         Deleting
<1>3. RowSound(a)'
  BY <1>0, Fields, Bounds
     DEF RowSound, Same, SameRows, SameJobs, SameKv, SameReader, Stored, Queued, Deleting
<1>4. CallSound(a)'
  BY <1>0, Fields, Bounds
     DEF CallSound, RowSound, Cur, Same, SameRows, SameJobs, SameKv, SameReader, Stored,
         Queued, Deleting
<1>5. KvSound(a)'
  BY <1>0, Fields, Bounds
     DEF KvSound, CallSound, RowSound, Cur, Same, SameRows, SameJobs, SameKv, SameReader,
         Stored, Queued, Deleting
<1> QED
  BY <1>1, <1>2, <1>3, <1>4, <1>5 DEF LocalInv

\* A new ciphertext is stored.
LEMMA StoresKeeps ==
    ASSUME NEW a \in Account, LocalInv(a), Stores(a)
    PROVE  LocalInv(a)'
<1>0. Typed(a) /\ Bounded(a) /\ RowSound(a) /\ CallSound(a) /\ KvSound(a)
  BY DEF LocalInv
<1>a. /\ MirrorKey(a) \in 1..MaxKey /\ drawn[a].ver + 1 \in 0..MaxVer
      /\ row[a].rev + 1 \in 0..MaxVer + 1 /\ drawn[a].key \in 0..MaxKey
  BY <1>0, Fields, Bounds DEF Stores, HasBudget, MirrorKey, Bounded, Deleting
<1>1. Typed(a)'
  <2>1. kv'[a] \in [1..MaxKey -> Ver] /\ io'[a] \in Call /\ reader'[a] \in Row
    BY <1>0 DEF Typed, Stores, SameKv, SameReader
  <2>2. row'[a] \in Row
    BY <1>a, Fields, Bounds DEF Stores, StoredRow, Row, Ver, Rev, Key
  <2>3. queue'[a] \in QueueRow
    BY <1>a, Fields, Bounds DEF Stores, StoredRow, QueueRow, Rev, Key
  <2>4. dels'[a] \in DelRow
    BY EmptyTyped DEF Stores
  <2>5. drawn'[a] \in [key : Key, ver : Ver]
    BY <1>a, Fields, Bounds DEF Stores, StoredRow, Draw, Ver, Key
  <2> QED
    BY <2>1, <2>2, <2>3, <2>4, <2>5, TypedNext
<1>2. Bounded(a)'
  BY <1>0, Fields, Bounds
     DEF Bounded, RowSound, Stores, StoredRow, Draw, HasBudget, MirrorKey, NoDel, SameKv,
         SameReader, Stored, Queued, Deleting
<1>3. RowSound(a)'
  BY <1>0, Fields, Bounds
     DEF RowSound, Stores, StoredRow, Draw, HasBudget, MirrorKey, NoDel, SameKv, SameReader,
         Stored, Queued, Deleting
<1>4. CallSound(a)'
  BY <1>0, Fields, Bounds
     DEF CallSound, RowSound, Cur, Stores, StoredRow, Draw, HasBudget, MirrorKey, NoDel,
         SameKv, SameReader, Stored, Queued, Deleting
<1>5. KvSound(a)'
  BY <1>0, Fields, Bounds
     DEF KvSound, CallSound, RowSound, Cur, Stores, StoredRow, Draw, HasBudget, MirrorKey,
         NoDel, SameKv, SameReader, Stored, Queued, Deleting
<1> QED
  BY <1>1, <1>2, <1>3, <1>4, <1>5 DEF LocalInv

\* The account is deleted.
LEMMA DeletesKeeps ==
    ASSUME NEW a \in Account, LocalInv(a), Deletes(a)
    PROVE  LocalInv(a)'
<1>0. Typed(a) /\ Bounded(a) /\ RowSound(a) /\ CallSound(a) /\ KvSound(a)
  BY DEF LocalInv
<1>1. Typed(a)'
  <2>1. kv'[a] \in [1..MaxKey -> Ver] /\ io'[a] \in Call /\ reader'[a] \in Row
    BY <1>0 DEF Typed, Deletes, SameKv, SameReader
  <2>2. row'[a] \in Row
    BY EmptyTyped DEF Deletes
  <2>3. queue'[a] \in QueueRow
    BY EmptyTyped DEF Deletes
  <2>4. dels'[a] \in DelRow
    BY <1>0, Fields, Bounds DEF Deletes, DeletionOf, DelRow, Key
  <2>5. drawn'[a] \in [key : Key, ver : Ver]
    BY <1>0, Fields, Bounds DEF Deletes, DeletionOf, Draw, Ver, Key
  <2> QED
    BY <2>1, <2>2, <2>3, <2>4, <2>5, TypedNext
<1>2. Bounded(a)'
  BY <1>0, Fields, Bounds
     DEF Bounded, RowSound, Deletes, DeletionOf, Draw, NoRow, NoQueue, SameKv, SameReader,
         Stored, Queued, Deleting
<1>3. RowSound(a)'
  BY <1>0, Fields, Bounds
     DEF RowSound, Deletes, DeletionOf, Draw, NoRow, NoQueue, SameKv, SameReader, Stored,
         Queued, Deleting
<1>4. CallSound(a)'
  BY <1>0, Fields, Bounds
     DEF CallSound, RowSound, Cur, Deletes, DeletionOf, Draw, NoRow, NoQueue, SameKv,
         SameReader, Stored, Queued, Deleting
<1>5. KvSound(a)'
  BY <1>0, Fields, Bounds
     DEF KvSound, CallSound, RowSound, Cur, Deletes, DeletionOf, Draw, NoRow, NoQueue, SameKv,
         SameReader, Stored, Queued, Deleting
<1> QED
  BY <1>1, <1>2, <1>3, <1>4, <1>5 DEF LocalInv

\* A legacy row is read.
LEMMA ReadsKeeps ==
    ASSUME NEW a \in Account, LocalInv(a), Reads(a)
    PROVE  LocalInv(a)'
<1>0. Typed(a) /\ Bounded(a) /\ RowSound(a) /\ CallSound(a) /\ KvSound(a)
  BY DEF LocalInv
<1>a. /\ reader'[a] = NoRow \/ (reader'[a] \in Row /\ reader'[a].ver # 0
                              /\ reader'[a].form \in {"pointer", "bare"})
      /\ reader'[a].ver <= drawn[a].ver
      /\ row'[a] = row[a] /\ drawn'[a] = drawn[a] /\ queue'[a] = queue[a] /\ dels'[a] = dels[a]
      /\ kv'[a] = kv[a] /\ io'[a] = io[a]
  <2>1. CASE reader'[a] = NoRow
    BY <1>0, <2>1, Fields DEF Reads, SameRows, SameJobs, SameKv, NoRow
  <2>2. CASE row[a].form = "bare" /\ reader'[a] = row[a]
    BY <1>0, <2>2, Fields DEF Reads, SameRows, SameJobs, SameKv, RowSound, Bounded, Typed
  <2>3. CASE /\ row[a].form = "pointer" /\ kv[a][row[a].key] # 0
             /\ reader'[a] = [row[a] EXCEPT !.ver = kv[a][row[a].key]]
    <3> DEFINE v == kv[a][row[a].key]
    <3>1. row[a].key \in 1..MaxKey
      BY <1>0, <2>3, Fields, Bounds DEF RowSound
    <3>2. v \in Ver /\ v # 0 /\ v <= drawn[a].ver
      BY <1>0, <2>3, <3>1, Fields DEF Bounded, Ver
    <3>3. row[a] \in Row /\ reader'[a] = [row[a] EXCEPT !.ver = v]
      BY <1>0, <2>3 DEF Typed
    <3> HIDE DEF v
    <3>4. reader'[a] \in Row /\ reader'[a].ver = v /\ reader'[a].form = row[a].form
      BY <3>2, <3>3 DEF Row
    <3> QED
      BY <2>3, <3>2, <3>4 DEF Reads, SameRows, SameJobs, SameKv
  <2> QED
    BY <2>1, <2>2, <2>3 DEF Reads
<1>1. Typed(a)'
  <2>1. /\ row'[a] \in Row /\ queue'[a] \in QueueRow /\ dels'[a] \in DelRow
        /\ kv'[a] \in [1..MaxKey -> Ver] /\ drawn'[a] \in [key : Key, ver : Ver] /\ io'[a] \in Call
    BY <1>0 DEF Typed, Reads, SameJobs, SameKv, SameRows
  <2>2. reader'[a] \in Row
    BY <1>a, EmptyTyped
  <2> QED
    BY <2>1, <2>2, TypedNext
<1>2. Bounded(a)'
  BY <1>0, <1>a DEF Bounded
<1>3. RowSound(a)'
  BY <1>0, <1>a DEF RowSound, Stored, Queued, Deleting
<1>4. CallSound(a)'
  BY <1>0, Fields, Bounds
     DEF CallSound, RowSound, Cur, Reads, NoRow, SameRows, SameJobs, SameKv, Stored, Queued,
         Deleting
<1>5. KvSound(a)'
  BY <1>0, Fields, Bounds
     DEF KvSound, CallSound, RowSound, Cur, Reads, NoRow, SameRows, SameJobs, SameKv, Stored,
         Queued, Deleting
<1> QED
  BY <1>1, <1>2, <1>3, <1>4, <1>5 DEF LocalInv

\* A legacy row becomes a full one.
LEMMA CommitsKeeps ==
    ASSUME NEW a \in Account, LocalInv(a), Commits(a)
    PROVE  LocalInv(a)'
<1>0. Typed(a) /\ Bounded(a) /\ RowSound(a) /\ CallSound(a) /\ KvSound(a)
  BY DEF LocalInv
<1>a. /\ CommitKey(a) \in 1..MaxKey /\ reader[a].ver \in 0..MaxVer /\ 1 \in 0..MaxVer + 1
      /\ row'[a] = [form |-> "full", ver |-> reader[a].ver, rev |-> 1, key |-> CommitKey(a)]
  BY <1>0, Fields, Bounds DEF Commits, CommitKey
<1>1. Typed(a)'
  <2>1. kv'[a] \in [1..MaxKey -> Ver] /\ io'[a] \in Call
    BY <1>0 DEF Typed, Commits, SameKv
  <2>2. row'[a] \in Row
    BY <1>a, Bounds DEF Row, Ver, Rev, Key
  <2>3. queue'[a] \in QueueRow
    <3>1. queue'[a] \in {queue[a], [rev |-> 1, key |-> CommitKey(a), due |-> TRUE]} /\ queue[a] \in QueueRow
      BY <1>0 DEF Commits, Typed
    <3>2. [rev |-> 1, key |-> CommitKey(a), due |-> TRUE] \in QueueRow
      BY <1>a, Bounds DEF QueueRow, Rev, Key
    <3> QED
      BY <3>1, <3>2
  <2>4. dels'[a] \in DelRow
    BY <1>0, EmptyTyped DEF Commits, Typed
  <2>5. drawn'[a] \in [key : Key, ver : Ver]
    BY <1>0, <1>a, Fields, Bounds DEF Commits, Draw, Ver, Key
  <2>6. reader'[a] \in Row
    BY EmptyTyped DEF Commits
  <2> QED
    BY <2>1, <2>2, <2>3, <2>4, <2>5, <2>6, TypedNext
<1>2. Bounded(a)'
  BY <1>0, Fields, Bounds
     DEF Bounded, RowSound, Commits, CommitKey, UnchangedSince, Draw, NoRow, NoDel, SameKv,
         Stored, Queued, Deleting
<1>3. RowSound(a)'
  BY <1>0, Fields, Bounds
     DEF RowSound, Commits, CommitKey, UnchangedSince, Draw, NoRow, NoDel, SameKv, Stored,
         Queued, Deleting
<1>4. CallSound(a)'
  BY <1>0, Fields, Bounds
     DEF CallSound, RowSound, Cur, Commits, CommitKey, UnchangedSince, Draw, NoRow, NoDel,
         SameKv, Stored, Queued, Deleting
<1>5. KvSound(a)'
  BY <1>0, Fields, Bounds
     DEF KvSound, CallSound, RowSound, Cur, Commits, CommitKey, UnchangedSince, Draw, NoRow,
         NoDel, SameKv, Stored, Queued, Deleting
<1> QED
  BY <1>1, <1>2, <1>3, <1>4, <1>5 DEF LocalInv

\* A put begins.
LEMMA PutStartsKeeps ==
    ASSUME NEW a \in Account, LocalInv(a), PutStarts(a)
    PROVE  LocalInv(a)'
<1>0. Typed(a) /\ Bounded(a) /\ RowSound(a) /\ CallSound(a) /\ KvSound(a)
  BY DEF LocalInv
<1>1. Typed(a)'
  <2>1. /\ row'[a] \in Row /\ queue'[a] \in QueueRow /\ dels'[a] \in DelRow
        /\ drawn'[a] \in [key : Key, ver : Ver] /\ reader'[a] \in Row
    BY <1>0 DEF Typed, PutStarts, SameJobs, SameReader, SameRows
  <2>2. kv'[a] \in [1..MaxKey -> Ver]
    BY <1>0 DEF PutStarts, Typed
  <2>3. io'[a] \in Call
    BY <1>0, Fields, Bounds DEF PutStarts, Call, Ver, Rev, Key
  <2> QED
    BY <2>1, <2>2, <2>3, TypedNext
<1>2. Bounded(a)'
  BY <1>0, Fields, Bounds
     DEF Bounded, RowSound, PutStarts, NoCall, SameRows, SameJobs, SameReader, Stored, Queued,
         Deleting
<1>3. RowSound(a)'
  BY <1>0, Fields, Bounds
     DEF RowSound, PutStarts, NoCall, SameRows, SameJobs, SameReader, Stored, Queued, Deleting
<1>4. CallSound(a)'
  BY <1>0, Fields, Bounds
     DEF CallSound, RowSound, Cur, PutStarts, NoCall, SameRows, SameJobs, SameReader, Stored,
         Queued, Deleting
<1>5. KvSound(a)'
  BY <1>0, Fields, Bounds
     DEF KvSound, CallSound, RowSound, Cur, PutStarts, NoCall, SameRows, SameJobs, SameReader,
         Stored, Queued, Deleting
<1> QED
  BY <1>1, <1>2, <1>3, <1>4, <1>5 DEF LocalInv

\* A deletion begins.
LEMMA DelStartsKeeps ==
    ASSUME NEW a \in Account, LocalInv(a), DelStarts(a)
    PROVE  LocalInv(a)'
<1>0. Typed(a) /\ Bounded(a) /\ RowSound(a) /\ CallSound(a) /\ KvSound(a)
  BY DEF LocalInv
<1>1. Typed(a)'
  <2>1. /\ row'[a] \in Row /\ queue'[a] \in QueueRow /\ dels'[a] \in DelRow
        /\ drawn'[a] \in [key : Key, ver : Ver] /\ reader'[a] \in Row
    BY <1>0 DEF Typed, DelStarts, SameJobs, SameReader, SameRows
  <2>2. kv'[a] \in [1..MaxKey -> Ver]
    BY <1>0 DEF DelStarts, Typed
  <2>3. io'[a] \in Call
    BY <1>0, Fields, Bounds, ZenonT(60) DEF DelStarts, NoCall, Call, Ver, Rev, Key
  <2> QED
    BY <2>1, <2>2, <2>3, TypedNext
<1>2. Bounded(a)'
  BY <1>0, Fields, Bounds
     DEF Bounded, RowSound, DelStarts, DeletesKey, NoCall, SameRows, SameJobs, SameReader,
         Stored, Queued, Deleting
<1>3. RowSound(a)'
  BY <1>0, Fields, Bounds
     DEF RowSound, DelStarts, DeletesKey, NoCall, SameRows, SameJobs, SameReader, Stored,
         Queued, Deleting
<1>4. CallSound(a)'
  BY <1>0, Fields, Bounds
     DEF CallSound, RowSound, Cur, DelStarts, DeletesKey, NoCall, SameRows, SameJobs,
         SameReader, Stored, Queued, Deleting
<1>5. KvSound(a)'
  BY <1>0, Fields, Bounds
     DEF KvSound, CallSound, RowSound, Cur, DelStarts, DeletesKey, NoCall, SameRows, SameJobs,
         SameReader, Stored, Queued, Deleting
<1> QED
  BY <1>1, <1>2, <1>3, <1>4, <1>5 DEF LocalInv

\* A job is dropped.
LEMMA SkipsKeeps ==
    ASSUME NEW a \in Account, LocalInv(a), Skips(a)
    PROVE  LocalInv(a)'
<1>0. Typed(a) /\ Bounded(a) /\ RowSound(a) /\ CallSound(a) /\ KvSound(a)
  BY DEF LocalInv
<1>1. Typed(a)'
  <2>1. /\ row'[a] \in Row /\ kv'[a] \in [1..MaxKey -> Ver] /\ drawn'[a] \in [key : Key, ver : Ver]
        /\ io'[a] \in Call /\ reader'[a] \in Row
    BY <1>0 DEF Typed, Skips, SameKv, SameReader, SameRows
  <2>2. queue'[a] \in QueueRow
    BY <1>0, EmptyTyped DEF Skips, Typed
  <2>3. dels'[a] \in DelRow
    BY <1>0, EmptyTyped DEF Skips, Typed
  <2> QED
    BY <2>1, <2>2, <2>3, TypedNext
<1>2. Bounded(a)'
  BY <1>0, Fields, Bounds
     DEF Bounded, RowSound, Skips, DeletesKey, NoCall, NoQueue, NoDel, SameRows, SameKv,
         SameReader, Stored, Queued, Deleting
<1>3. RowSound(a)'
  BY <1>0, Fields, Bounds
     DEF RowSound, Skips, DeletesKey, NoCall, NoQueue, NoDel, SameRows, SameKv, SameReader,
         Stored, Queued, Deleting
<1>4. CallSound(a)'
  BY <1>0, Fields, Bounds
     DEF CallSound, RowSound, Cur, Skips, DeletesKey, NoCall, NoQueue, NoDel, SameRows, SameKv,
         SameReader, Stored, Queued, Deleting
<1>5. KvSound(a)'
  BY <1>0, Fields, Bounds
     DEF KvSound, CallSound, RowSound, Cur, Skips, DeletesKey, NoCall, NoQueue, NoDel,
         SameRows, SameKv, SameReader, Stored, Queued, Deleting
<1> QED
  BY <1>1, <1>2, <1>3, <1>4, <1>5 DEF LocalInv

\* A put succeeds.
LEMMA PutEndsKeeps ==
    ASSUME NEW a \in Account, LocalInv(a), PutEnds(a)
    PROVE  LocalInv(a)'
<1>0. Typed(a) /\ Bounded(a) /\ RowSound(a) /\ CallSound(a) /\ KvSound(a)
  BY DEF LocalInv
<1>a. io[a].kind # "none"
  BY DEF PutEnds
<1>b. /\ kv'[a] \in [1..MaxKey -> Ver] /\ io[a].key \in 1..MaxKey
      /\ \A k \in 1..MaxKey : kv'[a][k] = IF k # io[a].key THEN kv[a][k]
                                      ELSE IF io[a].kind = "put" THEN io[a].ver ELSE 0
  BY <1>0, <1>a, AfterEntries DEF PutEnds
<1>c. /\ row'[a] = row[a] /\ drawn'[a] = drawn[a] /\ dels'[a] = dels[a] /\ reader'[a] = reader[a]
      /\ io'[a] = NoCall /\ io[a].kind = "put" /\ queue'[a] \in {queue[a], NoQueue}
  BY DEF PutEnds, SameRows, SameReader, PutDone
<1>1. Typed(a)'
  <2>1. row'[a] \in Row /\ drawn'[a] \in [key : Key, ver : Ver] /\ reader'[a] \in Row
    BY <1>0 DEF Typed, PutEnds, SameReader, SameRows
  <2>2. queue'[a] \in QueueRow
    BY <1>0, EmptyTyped DEF PutEnds, PutDone, Typed
  <2>3. dels'[a] \in DelRow
    BY <1>0 DEF PutEnds, Typed
  <2>4. kv'[a] \in [1..MaxKey -> Ver]
    BY <1>b
  <2>5. io'[a] \in Call
    BY EmptyTyped DEF PutEnds
  <2> QED
    BY <2>1, <2>2, <2>3, <2>4, <2>5, TypedNext
<1>2. Bounded(a)'
  BY <1>0, <1>b, <1>c, Fields DEF Bounded, NoCall
<1>3. RowSound(a)'
  BY <1>0, <1>c DEF RowSound, Stored, Queued, Deleting, NoQueue
<1>4. CallSound(a)'
  BY <1>c DEF CallSound, NoCall
<1>5. KvSound(a)'
  <2>1. io[a].key = Cur(a) /\ io[a].ver # 0 /\ row[a].form # "pointer" /\ Cur(a)' = Cur(a)
    BY <1>0, <1>c DEF CallSound, Cur
  <2>2. row[a].form = "full" => row[a].key = io[a].key
    BY <1>0, <2>1 DEF RowSound, Cur
  <2>3. \A k \in 1..MaxKey : kv'[a][k] # 0 => k = Cur(a)'
    BY <1>0, <1>b, <2>1 DEF KvSound
  <2>4. row'[a].form = "full" => kv'[a][row'[a].key] # 0
    BY <1>b, <1>c, <2>1, <2>2
  <2> QED
    BY <1>c, <2>1, <2>3, <2>4 DEF KvSound
<1> QED
  BY <1>1, <1>2, <1>3, <1>4, <1>5 DEF LocalInv

\* A deletion succeeds.
LEMMA DelEndsKeeps ==
    ASSUME NEW a \in Account, LocalInv(a), DelEnds(a)
    PROVE  LocalInv(a)'
<1>0. Typed(a) /\ Bounded(a) /\ RowSound(a) /\ CallSound(a) /\ KvSound(a)
  BY DEF LocalInv
<1>a. io[a].kind # "none"
  BY DEF DelEnds
<1>b. /\ kv'[a] \in [1..MaxKey -> Ver] /\ io[a].key \in 1..MaxKey
      /\ \A k \in 1..MaxKey : kv'[a][k] = IF k # io[a].key THEN kv[a][k]
                                      ELSE IF io[a].kind = "put" THEN io[a].ver ELSE 0
  BY <1>0, <1>a, AfterEntries DEF DelEnds
<1>c. /\ row'[a] = row[a] /\ drawn'[a] = drawn[a] /\ dels'[a] = NoDel /\ reader'[a] = reader[a]
      /\ io'[a] = NoCall /\ io[a].kind = "del" /\ queue'[a] = queue[a]
  BY DEF DelEnds, SameRows, SameReader
<1>1. Typed(a)'
  <2>1. row'[a] \in Row /\ drawn'[a] \in [key : Key, ver : Ver] /\ reader'[a] \in Row
    BY <1>0 DEF Typed, DelEnds, SameReader, SameRows
  <2>2. queue'[a] \in QueueRow
    BY <1>0 DEF DelEnds, Typed
  <2>3. dels'[a] \in DelRow
    BY EmptyTyped DEF DelEnds
  <2>4. kv'[a] \in [1..MaxKey -> Ver]
    BY <1>b
  <2>5. io'[a] \in Call
    BY EmptyTyped DEF DelEnds
  <2> QED
    BY <2>1, <2>2, <2>3, <2>4, <2>5, TypedNext
<1>2. Bounded(a)'
  BY <1>0, <1>b, <1>c, Fields DEF Bounded, NoCall
<1>3. RowSound(a)'
  BY <1>0, <1>c DEF RowSound, Stored, Queued, Deleting, NoDel
<1>4. CallSound(a)'
  BY <1>c DEF CallSound, NoCall
<1>5. KvSound(a)'
  BY <1>0, <1>b, <1>c, Fields, SMTT(40) DEF KvSound, CallSound, RowSound, Cur, Stored, Queued, Deleting, NoDel
<1> QED
  BY <1>1, <1>2, <1>3, <1>4, <1>5 DEF LocalInv

\* A call fails or is lost.
LEMMA BreaksKeeps ==
    ASSUME NEW a \in Account, LocalInv(a), Breaks(a)
    PROVE  LocalInv(a)'
<1>0. Typed(a) /\ Bounded(a) /\ RowSound(a) /\ CallSound(a) /\ KvSound(a)
  BY DEF LocalInv
<1>q. queue'[a] \in QueueRow /\ queue'[a].rev = queue[a].rev /\ queue'[a].key = queue[a].key
  <2>1. PICK due \in BOOLEAN : queue'[a] \in {queue[a], [queue[a] EXCEPT !.due = due]}
    BY DEF Breaks
  <2>2. queue[a] \in QueueRow
    BY <1>0 DEF Typed
  <2> QED
    BY <2>1, <2>2 DEF QueueRow
<1>d. dels'[a] \in DelRow /\ dels'[a].key = dels[a].key
  <2>1. PICK due \in BOOLEAN : dels'[a] \in {dels[a], [dels[a] EXCEPT !.due = due]}
    BY DEF Breaks
  <2>2. dels[a] \in DelRow
    BY <1>0 DEF Typed
  <2> QED
    BY <2>1, <2>2 DEF DelRow
<1>b. \/ kv'[a] = kv[a] /\ io'[a] \in {io[a], NoCall}
      \/ /\ io'[a] = NoCall /\ io[a].kind # "none"
         /\ kv'[a] \in [1..MaxKey -> Ver] /\ io[a].key \in 1..MaxKey
         /\ \A k \in 1..MaxKey : kv'[a][k] = IF k # io[a].key THEN kv[a][k]
                                         ELSE IF io[a].kind = "put" THEN io[a].ver ELSE 0
  BY <1>0, AfterEntries DEF Breaks, SameKv
<1>c. /\ row'[a] = row[a] /\ drawn'[a] = drawn[a] /\ reader'[a] \in {reader[a], NoRow}
  BY DEF Breaks, SameRows
<1>e. NoCall.kind = "none" /\ NoCall.ver = 0 /\ NoRow.ver = 0
  BY DEF NoCall, NoRow
<1>1. Typed(a)'
  <2>1. row'[a] \in Row /\ drawn'[a] \in [key : Key, ver : Ver]
    BY <1>0 DEF Typed, Breaks, SameRows
  <2>2. queue'[a] \in QueueRow
    BY <1>q
  <2>3. dels'[a] \in DelRow
    BY <1>d
  <2>4. kv'[a] \in [1..MaxKey -> Ver]
    BY <1>0, <1>b DEF Typed
  <2>5. io'[a] \in Call
    BY <1>0, <1>b, EmptyTyped DEF Typed
  <2>6. reader'[a] \in Row
    BY <1>0, <1>c, EmptyTyped DEF Typed
  <2> QED
    BY <2>1, <2>2, <2>3, <2>4, <2>5, <2>6, TypedNext
<1>2. Bounded(a)'
  BY <1>0, <1>b, <1>c, <1>e, Fields, SMTT(40) DEF Bounded
<1>3. RowSound(a)'
  BY <1>0, <1>q, <1>d, <1>c DEF RowSound, Stored, Queued, Deleting
<1>4. CallSound(a)'
  BY <1>0, <1>q, <1>d, <1>b, <1>c, <1>e DEF CallSound, Cur, Stored, Queued, Deleting
<1>5. KvSound(a)'
  <2>1. Cur(a)' = Cur(a) /\ Queued(a)' = Queued(a)
    BY <1>q, <1>d, <1>c DEF Cur, Queued
  <2>2. CASE kv'[a] = kv[a]
    BY <1>0, <1>c, <2>1, <2>2 DEF KvSound
  <2>3. CASE kv'[a] # kv[a]
    <3>1. /\ io[a].kind # "none" /\ io[a].key \in 1..MaxKey
          /\ \A k \in 1..MaxKey : kv'[a][k] = IF k # io[a].key THEN kv[a][k]
                                          ELSE IF io[a].kind = "put" THEN io[a].ver ELSE 0
      BY <1>b, <2>3
    <3>2. /\ io[a].key = Cur(a) /\ row[a].form # "pointer" /\ io[a].kind \in {"put", "del"}
          /\ io[a].kind = "put" => io[a].ver # 0
          /\ row[a].form = "full" /\ ~Queued(a) => io[a].kind = "put"
      BY <1>0, <3>1, Fields DEF CallSound, Stored
    <3>3. row[a].form = "full" => row[a].key = io[a].key
      BY <1>0, <3>2 DEF RowSound, Cur
    <3>4. \A k \in 1..MaxKey : kv'[a][k] # 0 => k = Cur(a)'
      BY <1>0, <2>1, <3>1, <3>2 DEF KvSound
    <3>5. row'[a].form = "full" /\ ~Queued(a)' => kv'[a][row'[a].key] # 0
      BY <1>c, <2>1, <3>1, <3>2, <3>3
    <3> QED
      BY <1>c, <3>2, <3>4, <3>5 DEF KvSound
  <2> QED
    BY <2>2, <2>3
<1> QED
  BY <1>1, <1>2, <1>3, <1>4, <1>5 DEF LocalInv

\* So every step keeps them, at every account.
LEMMA KindsKeep ==
    ASSUME NEW a \in Account, LocalInv(a), Kinds(a)
    PROVE  LocalInv(a)'
BY SameKeeps, StoresKeeps, DeletesKeeps, ReadsKeeps, CommitsKeeps, PutStartsKeeps, DelStartsKeeps,
   SkipsKeeps, PutEndsKeeps, DelEndsKeeps, BreaksKeeps DEF Kinds

-----------------------------------------------------------------------------
(* The chains, the jobs and the alarm *)

\* What a step may do to the chains: no chain but b's loses an operation.
Queues(b) ==
    /\ chain' \in [Account -> Seq(Op)]
    /\ job' \in [{"alarm", "import"} -> Job]
    /\ alarm' \in BOOLEAN
    /\ \A c \in Account : c # b /\ chain[c] # <<>> => chain'[c] # <<>>

\* An operation joins the chain of b.
LEMMA EnqueueTyped ==
    ASSUME Control, NEW b \in Account, NEW kind \in {"put", "del"}, NEW by \in {"rpc", "alarm", "import"}
    PROVE  /\ Enqueue(b, kind, by) \in [Account -> Seq(Op)]
           /\ \A c \in Account : chain[c] # <<>> => Enqueue(b, kind, by)[c] # <<>>
<1> DEFINE op == [kind |-> kind, by |-> by]
<1>1. op \in Op /\ chain \in [Account -> Seq(Op)]
  BY DEF Op, Control
<1>2. Enqueue(b, kind, by) = [chain EXCEPT ![b] = Append(@, op)]
  BY DEF Enqueue
<1> HIDE DEF op
<1>3. Append(chain[b], op) \in Seq(Op) /\ Append(chain[b], op) # <<>>
  BY <1>1
<1> QED
  BY <1>1, <1>2, <1>3

\* The operation at the head of chain b ends, and its caller goes on.
LEMMA FinishTyped ==
    ASSUME Control, NEW b \in Account, chain[b] # <<>>, NEW deferred, Finish(b, deferred)
    PROVE  Queues(b)
<1> DEFINE by == Caller(b)
           rest == [chain EXCEPT ![b] = Tail(@)]
           op(kind) == [kind |-> kind, by |-> by]
<1>1. chain \in [Account -> Seq(Op)] /\ chain[b] \in Seq(Op)
  BY DEF Control
<1>2. Head(chain[b]) \in Op /\ Tail(chain[b]) \in Seq(Op)
  BY <1>1
<1>3. by \in {"rpc", "alarm", "import"}
  BY <1>2 DEF Caller, Op
<1>4. rest \in [Account -> Seq(Op)] /\ \A c \in Account : c # b => rest[c] = chain[c]
  BY <1>1, <1>2
<1>5. op("put") \in Op /\ op("del") \in Op
  BY <1>3 DEF Op
<1>6. alarm' \in BOOLEAN
  BY DEF Finish, ScheduleNextAlarm, Control
<1>7. job \in [{"alarm", "import"} -> Job] /\ IdleJob \in Job
  BY DEF Control, Job, IdleJob
<1> HIDE DEF by, rest
<1>8. CASE ~MoreToDo(b)
  <2>1. chain' = rest /\ job' = [j \in DOMAIN job |-> IF j = by THEN IdleJob ELSE job[j]]
    BY <1>8 DEF Finish, by, rest
  <2> QED
    BY <1>4, <1>6, <1>7, <2>1 DEF Queues
<1>9. CASE MoreToDo(b)
  <2>0. by \in {"alarm", "import"}
    BY <1>3, <1>9 DEF MoreToDo, by
  <2>1. job[by] \in Job
    BY <1>7, <2>0
  <2>2. \/ \E c \in job[by].del :
              /\ chain' = [rest EXCEPT ![c] = Append(@, op("del"))]
              /\ job' = [job EXCEPT ![by].del = @ \ {c}]
        \/ \E c \in job[by].put :
              /\ chain' = [rest EXCEPT ![c] = Append(@, op("put"))]
              /\ job' = [job EXCEPT ![by].put = @ \ {c}]
    BY <1>9 DEF Finish, by, rest
  <2> HIDE DEF op
  <2>3. job[by].del \in SUBSET Account /\ job[by].put \in SUBSET Account
    BY <2>1 DEF Job
  <2>4. job' \in [{"alarm", "import"} -> Job]
    <3>1. \A c : [job[by] EXCEPT !.del = @ \ {c}] \in Job /\ [job[by] EXCEPT !.put = @ \ {c}] \in Job
      BY <2>1 DEF Job
    <3>2. \E j \in Job : job' = [job EXCEPT ![by] = j]
      BY <2>2, <3>1
    <3> QED
      BY <1>7, <2>0, <3>2
  <2>5. \E c \in Account, o \in Op : chain' = [rest EXCEPT ![c] = Append(@, o)]
    BY <1>5, <2>2, <2>3
  <2>6. chain' \in [Account -> Seq(Op)] /\ \A c \in Account : c # b /\ chain[c] # <<>> => chain'[c] # <<>>
    <3>1. PICK c \in Account, o \in Op : chain' = [rest EXCEPT ![c] = Append(@, o)]
      BY <2>5
    <3>2. rest[c] \in Seq(Op)
      BY <1>4
    <3>3. Append(rest[c], o) \in Seq(Op) /\ Append(rest[c], o) # <<>>
      BY <3>2
    <3> QED
      BY <1>4, <3>1, <3>3
  <2> QED
    BY <1>6, <2>4, <2>6 DEF Queues
<1> QED
  BY <1>8, <1>9

\* A step whose KV calls are those of before, but perhaps at b, keeps the control
\* state well typed.
LEMMA QueuesControl ==
    ASSUME Control, NEW b, Queues(b), b \in Account => io'[b].kind = "none",
           \A c \in Account : c # b => io'[c] = io[c]
    PROVE  Control'
<1>1. \A c \in Account : io'[c].kind # "none" => chain'[c] # <<>>
  BY DEF Control, Queues
<1> QED
  BY <1>1 DEF Control, Queues

\* The same for a step that only adds to the chains and calls nobody.
LEMMA AddsControl ==
    ASSUME Control, io' = io,
           chain' \in [Account -> Seq(Op)], job' \in [{"alarm", "import"} -> Job], alarm' \in BOOLEAN,
           \A c \in Account : chain[c] # <<>> => chain'[c] # <<>>
    PROVE  Control'
<1>1. \A c \in Account : io'[c].kind # "none" => chain'[c] # <<>>
  BY DEF Control
<1> QED
  BY <1>1 DEF Control

\* Every step of every handler keeps the control state well typed.
LEMMA StepControl ==
    ASSUME Shape, Control, [Next]_vars
    PROVE  Control'
<1>0. /\ chain \in [Account -> Seq(Op)] /\ job \in [{"alarm", "import"} -> Job] /\ alarm \in BOOLEAN
      /\ IdleJob \in Job
  BY DEF Control, Job, IdleJob
<1>1. CASE UNCHANGED vars
  BY <1>1 DEF vars, Control
<1>2. CASE \E a \in Account : UpsertAccount(a)
  BY <1>0, <1>2, EnqueueTyped, AddsControl DEF UpsertAccount
<1>3. CASE \E S \in Batches : ImportAccountMigration(S)
  <2> PICK S \in Batches : ImportAccountMigration(S)
    BY <1>3
  <2>1. S \in SUBSET Account
    BY MirrorAssumption
  <2> PICK a \in S :
        /\ job' = [job EXCEPT !["import"] = [busy |-> TRUE, del |-> {}, put |-> S \ {a}]]
        /\ chain' = Enqueue(a, "put", "import")
    BY DEF ImportAccountMigration
  <2>2. [busy |-> TRUE, del |-> {}, put |-> S \ {a}] \in Job
    BY <2>1 DEF Job
  <2>3. job' \in [{"alarm", "import"} -> Job]
    BY <1>0, <2>2
  <2>4. io' = io /\ alarm' = TRUE /\ a \in Account
    BY <2>1 DEF ImportAccountMigration
  <2> QED
    BY <1>0, <2>3, <2>4, EnqueueTyped, AddsControl
<1>4. CASE \E a \in Deletable : DeleteAccount(a)
  BY <1>0, <1>4, EnqueueTyped, AddsControl, MirrorAssumption DEF DeleteAccount
<1>5. CASE \E a \in Account : ReadBegin(a) \/ ReadRetry(a) \/ BecomesDue(a)
  BY <1>0, <1>5, AddsControl DEF ReadBegin, ReadRetry, BecomesDue
<1>6. CASE \E a \in Account : ReadCommit(a)
  <2> PICK a \in Account : ReadCommit(a)
    BY <1>6
  <2>1. io' = io /\ job' = job /\ (chain' = chain \/ chain' = Enqueue(a, "put", "rpc"))
        /\ (alarm' = alarm \/ alarm' = TRUE)
    BY DEF ReadCommit
  <2> QED
    BY <1>0, <2>1, EnqueueTyped, AddsControl
<1>7. CASE \E a \in Account : PutBegin(a) \/ DelBegin(a)
  <2> PICK b \in Account : PutBegin(b) \/ DelBegin(b)
    BY <1>7
  <2>1. io[b] = NoCall /\ chain[b] # <<>>
    BY DEF PutBegin, DelBegin, Ready
  <2>2. CASE io' = io
    <3>1. (chain' = chain /\ job' = job /\ alarm' = alarm) \/ Finish(b, FALSE)
      BY DEF PutBegin, DelBegin
    <3>2. io'[b].kind = "none"
      BY <2>1, <2>2 DEF NoCall
    <3>3. Queues(b)
      BY <1>0, <2>1, <3>1, FinishTyped DEF Queues
    <3> QED
      BY <2>2, <3>2, <3>3, QueuesControl
  <2>3. CASE io' # io
    <3>1. chain' = chain /\ job' = job /\ alarm' = alarm /\ \A c \in Account : c # b => io'[c] = io[c]
      BY <2>3 DEF PutBegin, DelBegin, Shape
    <3>2. \A c \in Account : io'[c].kind # "none" => chain'[c] # <<>>
      BY <2>1, <3>1 DEF Control
    <3> QED
      BY <1>0, <3>1, <3>2 DEF Control
  <2> QED
    BY <2>2, <2>3
<1>8. CASE \E a \in Account : KVStep(a)
  <2> PICK b \in Account : KVStep(b)
    BY <1>8
  <2>1. io[b].kind # "none" /\ io' = [io EXCEPT ![b] = NoCall] /\ \E deferred : Finish(b, deferred)
    BY DEF KVStep, PutSucceeds, PutFails, DelSucceeds, DelFails
  <2>2. chain[b] # <<>>
    BY <2>1 DEF Control
  <2>3. Queues(b)
    BY <2>1, <2>2, FinishTyped
  <2>4. io'[b].kind = "none" /\ \A c \in Account : c # b => io'[c] = io[c]
    BY <2>1 DEF Shape, NoCall
  <2> QED
    BY <2>3, <2>4, QueuesControl
<1>9. CASE AlarmFlushes
  <2>1. DueDeletions \in SUBSET Account /\ DueMirrors \in SUBSET Account
    BY DEF DueDeletions, DueMirrors
  <2>2. \E a \in Account, kind \in {"put", "del"} : chain' = Enqueue(a, kind, "alarm")
    BY <1>9, <2>1 DEF AlarmFlushes
  <2>3. \A a : /\ [busy |-> TRUE, del |-> DueDeletions \ {a}, put |-> DueMirrors] \in Job
               /\ [busy |-> TRUE, del |-> {}, put |-> DueMirrors \ {a}] \in Job
    BY <2>1 DEF Job
  <2>4. \E j \in Job : job' = [job EXCEPT !["alarm"] = j]
    BY <1>9, <2>3 DEF AlarmFlushes
  <2>5. job' \in [{"alarm", "import"} -> Job]
    BY <1>0, <2>4
  <2>6. io' = io /\ alarm' = FALSE
    BY <1>9 DEF AlarmFlushes
  <2> QED
    BY <2>2, <2>5, <2>6, EnqueueTyped, AddsControl
<1>10. CASE AlarmIsEarly
  BY <1>0, <1>10, AddsControl DEF AlarmIsEarly, ScheduleNextAlarm
<1>11. CASE Restart
  <2>1. /\ chain' = [a \in Account |-> <<>>] /\ io' = [a \in Account |-> NoCall]
        /\ job' = [j \in {"alarm", "import"} |-> IdleJob] /\ alarm' \in BOOLEAN
    BY <1>11 DEF Restart, RestartAlarm, ScheduleNextAlarm
  <2>2. chain' \in [Account -> Seq(Op)]
    BY <2>1
  <2>3. \A a \in Account : io'[a].kind = "none"
    BY <2>1 DEF NoCall
  <2> QED
    BY <1>0, <2>1, <2>2, <2>3 DEF Control
<1> QED
  BY <1>1, <1>2, <1>3, <1>4, <1>5, <1>6, <1>7, <1>8, <1>9, <1>10, <1>11 DEF Next

-----------------------------------------------------------------------------
(* An account that is never deleted *)

\* Every kind but the deletion keeps the backup current.
LEMMA CurrentKeeps ==
    ASSUME NEW a \in Account \ Deletable, LocalInv(a), Current(a), Kinds(a)
    PROVE  Current(a)'
<1>0. Typed(a) /\ RowSound(a) /\ CallSound(a) /\ KvSound(a)
  BY DEF LocalInv
<1>1. CASE Same(a)
  BY <1>1 DEF Current, Same, SameRows, SameJobs, SameKv, SameReader, Queued, Deleting
<1>2. CASE Stores(a)
  <2>1. /\ row'[a].form = "full" /\ row'[a].rev = row[a].rev + 1 /\ row[a].rev \in Nat
        /\ queue'[a].rev = row[a].rev + 1 /\ dels'[a].key = 0
        /\ kv'[a] = kv[a] /\ io'[a] = io[a] /\ reader'[a] = reader[a] /\ io[a].rev \in Nat
    BY <1>0, <1>2, Fields, Bounds DEF Stores, StoredRow, NoDel, SameKv, SameReader
  <2> QED
    BY <2>1 DEF Current, Queued, Deleting
<1>3. CASE Deletes(a)
  BY <1>3 DEF Deletes
<1>4. CASE Reads(a)
  <2>1. /\ row'[a] = row[a] /\ queue'[a] = queue[a] /\ dels'[a] = dels[a]
        /\ kv'[a] = kv[a] /\ io'[a] = io[a]
    BY <1>4 DEF Reads, SameRows, SameJobs, SameKv
  <2>2. reader'[a].form = "pointer" => row[a].form = "pointer" /\ reader'[a].ver = kv[a][row[a].key]
    <3>1. row[a] \in Row
      BY <1>0 DEF Typed
    <3>2. CASE reader'[a] = NoRow \/ (row[a].form = "bare" /\ reader'[a] = row[a])
      BY <3>2 DEF NoRow
    <3>3. CASE /\ row[a].form = "pointer"
               /\ reader'[a] = [row[a] EXCEPT !.ver = kv[a][row[a].key]]
      BY <3>1, <3>3 DEF Row
    <3> QED
      BY <1>4, <3>2, <3>3 DEF Reads
  <2> QED
    BY <2>1, <2>2 DEF Current, Queued, Deleting
<1>5. CASE Commits(a)
  <2>1. /\ row'[a].form = "full" /\ row'[a].ver = reader[a].ver /\ row'[a].key = CommitKey(a)
        /\ kv'[a] = kv[a] /\ io'[a] = io[a] /\ reader'[a].form = "none"
    BY <1>5 DEF Commits, SameKv, NoRow
  <2>2. row[a].form = reader[a].form /\ io[a].kind = "none"
    BY <1>0, <1>5 DEF Commits, UnchangedSince, CallSound
  <2>3. ~Deleting(a)'
    BY <1>5 DEF Commits, NoDel, Current, Deleting
  <2>4. Queued(a)' \/ kv[a][CommitKey(a)] = reader[a].ver
    <3>1. CASE reader[a].form = "bare"
      BY <1>5, <3>1 DEF Commits, Queued
    <3>2. CASE reader[a].form = "pointer"
      BY <1>0, <1>5, <3>2 DEF Commits, CommitKey, UnchangedSince, Current, RowSound
    <3> QED
      BY <1>5, <3>1, <3>2 DEF Commits
  <2> QED
    BY <2>1, <2>2, <2>3, <2>4 DEF Current
<1>6. CASE PutStarts(a)
  <2>1. /\ row'[a] = row[a] /\ queue'[a] = queue[a] /\ dels'[a] = dels[a] /\ kv'[a] = kv[a]
        /\ reader'[a] = reader[a] /\ Queued(a)
        /\ io'[a].kind = "put" /\ io'[a].rev = row[a].rev /\ io'[a].ver = row[a].ver
    BY <1>6 DEF PutStarts, SameRows, SameJobs, SameReader
  <2>2. row[a].rev \in Nat
    BY <1>0, Fields, Bounds
  <2> QED
    BY <2>1, <2>2 DEF Current, Queued, Deleting
<1>7. CASE DelStarts(a)
  BY <1>7 DEF DelStarts, DeletesKey, Current
<1>8. CASE Skips(a)
  <2>1. /\ row'[a] = row[a] /\ kv'[a] = kv[a] /\ io'[a] = io[a] /\ reader'[a] = reader[a]
        /\ io[a].kind = "none"
    BY <1>8 DEF Skips, SameRows, SameKv, SameReader, NoCall
  <2>2. queue'[a] = queue[a] \/ ~Queued(a)
    BY <1>0, <1>8 DEF Skips, RowSound
  <2>3. ~Deleting(a)'
    BY <1>8 DEF Skips, Current, Deleting, NoDel
  <2>4. row[a].form = "full" /\ ~Queued(a) => kv[a][row[a].key] = row[a].ver
    BY DEF Current
  <2>5. ~Queued(a)' => ~Queued(a)
    BY <2>2 DEF Queued
  <2> QED
    BY <2>1, <2>3, <2>4, <2>5 DEF Current
<1>9. CASE PutEnds(a)
  <2>1. /\ row'[a] = row[a] /\ dels'[a] = dels[a] /\ io'[a].kind = "none" /\ io[a].kind = "put"
    BY <1>9 DEF PutEnds, SameRows, NoCall
  <2>2. row[a].form = "full" /\ row[a].key = io[a].key
    BY <1>0, <2>1 DEF Current, RowSound, CallSound, Cur
  <2>3. kv'[a][row[a].key] = io[a].ver
    BY <1>0, <1>9, <2>1, <2>2, AfterEntries DEF PutEnds
  <2>4. Queued(a)' \/ io[a].rev = row[a].rev
    BY <1>0, <1>9, <2>1 DEF PutEnds, PutDone, Current, RowSound, Queued
  <2> QED
    BY <2>1, <2>2, <2>3, <2>4 DEF Current, Deleting
<1>10. CASE DelEnds(a)
  BY <1>10 DEF DelEnds, Current
<1>11. CASE Breaks(a)
  <2>1. queue'[a].rev = queue[a].rev
    <3>1. PICK due \in BOOLEAN : queue'[a] \in {queue[a], [queue[a] EXCEPT !.due = due]}
      BY <1>11 DEF Breaks
    <3>2. queue[a] \in QueueRow
      BY <1>0 DEF Typed
    <3> QED
      BY <3>1, <3>2 DEF QueueRow
  <2>2. dels'[a].key = dels[a].key
    <3>1. PICK due \in BOOLEAN : dels'[a] \in {dels[a], [dels[a] EXCEPT !.due = due]}
      BY <1>11 DEF Breaks
    <3>2. dels[a] \in DelRow
      BY <1>0 DEF Typed
    <3> QED
      BY <3>1, <3>2 DEF DelRow
  <2>3. Queued(a)' = Queued(a) /\ Deleting(a)' = Deleting(a)
    BY <2>1, <2>2 DEF Queued, Deleting
  <2>4. /\ row'[a] = row[a] /\ (reader'[a] = reader[a] \/ reader'[a].form = "none")
        /\ (io'[a] = io[a] \/ io'[a].kind = "none")
    BY <1>11 DEF Breaks, SameRows, SameKv, NoCall, NoRow
  <2>5. kv'[a] = kv[a] \/ (Queued(a) /\ row[a].form = "full")
    BY <1>0, <1>11, Fields DEF Breaks, SameKv, Current, RowSound
  <2> QED
    BY <2>3, <2>4, <2>5 DEF Current
<1> QED
  BY <1>1, <1>2, <1>3, <1>4, <1>5, <1>6, <1>7, <1>8, <1>9, <1>10, <1>11 DEF Kinds

-----------------------------------------------------------------------------
(* The theorems *)

\* The invariants hold at the start, whatever an old release has stored.
LEMMA InitInv == Init => MirrorInv /\ CurrentInv
<1> SUFFICES ASSUME Init PROVE MirrorInv /\ CurrentInv
  OBVIOUS
<1>1. Shape
  BY DEF Init, Shape
<1>2. Control
  <2>1. IdleJob \in Job
    BY DEF IdleJob, Job
  <2>2. alarm \in BOOLEAN /\ chain \in [Account -> Seq(Op)] /\ job \in [{"alarm", "import"} -> Job]
    BY <2>1 DEF Init
  <2>3. \A a \in Account : io[a].kind = "none"
    BY DEF Init, NoCall
  <2> QED
    BY <2>2, <2>3 DEF Control
<1>3. ASSUME NEW a \in Account PROVE LocalInv(a) /\ Current(a)
  <2>0. 1 \in 0..MaxVer /\ 1 \in 1..MaxKey /\ 0 \in 0..MaxVer /\ 0 \in 0..MaxKey
    BY MirrorAssumption
  <2>1. /\ queue[a] = NoQueue /\ dels[a] = NoDel /\ io[a] = NoCall /\ reader[a] = NoRow
        /\ kv[a] = [k \in 1..MaxKey |-> IF a \in Legacy /\ k = 1 THEN 1 ELSE 0]
        /\ drawn[a] = [key |-> IF a \in Legacy THEN 1 ELSE 0, ver |-> IF a \in Old THEN 1 ELSE 0]
    BY DEF Init
  <2> DEFINE p == [NoRow EXCEPT !.form = "pointer", !.key = 1]
             b == [NoRow EXCEPT !.form = "bare", !.ver = 1]
  <2>2. row[a] = CASE a \in Legacy -> p [] a \in Bare -> b [] OTHER -> NoRow
    BY DEF Init
  <2>n. NoRow \in Row /\ NoRow.form = "none" /\ NoRow.ver = 0 /\ NoRow.rev = 0 /\ NoRow.key = 0
    BY EmptyTyped DEF NoRow
  <2>v. 1 \in Ver /\ 1 \in Key
    BY MirrorAssumption DEF Ver, Key
  <2>p. p \in Row /\ p.form = "pointer" /\ p.ver = 0 /\ p.rev = 0 /\ p.key = 1
    BY <2>n, <2>v DEF Row
  <2>b. b \in Row /\ b.form = "bare" /\ b.ver = 1 /\ b.rev = 0 /\ b.key = 0
    BY <2>n, <2>v DEF Row
  <2> HIDE DEF p, b
  <2>3. /\ a \in Legacy => a \notin Bare /\ a \in Old
        /\ a \in Bare => a \in Old
    BY MirrorAssumption DEF Old
  <2>4. /\ Queued(a) = FALSE /\ Deleting(a) = FALSE /\ io[a].kind = "none" /\ io[a].ver = 0
        /\ reader[a].ver = 0 /\ reader[a].form = "none" /\ dels[a].key = 0
    BY <2>1 DEF Queued, Deleting, NoQueue, NoDel, NoCall, NoRow
  <2>5. \A k \in 1..MaxKey : kv[a][k] = IF a \in Legacy /\ k = 1 THEN 1 ELSE 0
    BY <2>1
  <2>6. Typed(a)
    <3>1. row[a] \in Row
      BY <2>2, <2>p, <2>b, EmptyTyped
    <3>2. kv[a] \in [1..MaxKey -> Ver] /\ drawn[a] \in [key : Key, ver : Ver]
      BY <2>0, <2>1, Bounds DEF Ver, Key
    <3> QED
      BY <2>1, <3>1, <3>2, EmptyTyped DEF Typed
  <2>7. CASE a \in Legacy
    <3>1. row[a].form = "pointer" /\ row[a].ver = 0 /\ row[a].rev = 0 /\ row[a].key = 1 /\ drawn[a].ver = 1
      BY <2>1, <2>2, <2>p, <2>3, <2>7
    <3> QED
      BY <2>0, <2>1, <2>4, <2>5, <2>6, <2>7, <3>1
         DEF LocalInv, Bounded, RowSound, CallSound, KvSound, Current, Cur, Stored
  <2>8. CASE a \in Bare
    <3>1. row[a].form = "bare" /\ row[a].ver = 1 /\ row[a].rev = 0 /\ row[a].key = 0 /\ drawn[a].ver = 1
      BY <2>1, <2>2, <2>b, <2>3, <2>8
    <3> QED
      BY <2>0, <2>1, <2>3, <2>4, <2>5, <2>6, <2>8, <3>1
         DEF LocalInv, Bounded, RowSound, CallSound, KvSound, Current, Cur, Stored
  <2>9. CASE a \notin Legacy /\ a \notin Bare
    <3>1. row[a].form = "none" /\ row[a].ver = 0 /\ row[a].rev = 0 /\ row[a].key = 0 /\ drawn[a].ver \in Nat
      BY <2>1, <2>2, <2>9 DEF NoRow
    <3> QED
      BY <2>0, <2>1, <2>4, <2>5, <2>6, <2>9, <3>1
         DEF LocalInv, Bounded, RowSound, CallSound, KvSound, Current, Cur, Stored
  <2> QED
    BY <2>7, <2>8, <2>9
<1> QED
  BY <1>1, <1>2, <1>3 DEF MirrorInv, CurrentInv

\* Every step keeps them.
LEMMA NextInv == MirrorInv /\ CurrentInv /\ [Next]_vars => MirrorInv' /\ CurrentInv'
<1> SUFFICES ASSUME MirrorInv, CurrentInv, [Next]_vars PROVE MirrorInv' /\ CurrentInv'
  OBVIOUS
<1>1. Shape /\ Control /\ \A a \in Account : LocalInv(a)
  BY DEF MirrorInv
<1>2. Shape' /\ Control' /\ \A a \in Account : Kinds(a)
  BY <1>1, StepKinds, StepControl
<1>3. \A a \in Account : LocalInv(a)'
  BY <1>1, <1>2, KindsKeep
<1>4. \A a \in Account \ Deletable : Current(a)'
  BY <1>1, <1>2, CurrentKeeps DEF CurrentInv
<1> QED
  BY <1>2, <1>3, <1>4 DEF MirrorInv, CurrentInv

\* Both layers hold in every state.
THEOREM Invariance == Spec => [](MirrorInv /\ CurrentInv)
BY InitInv, NextInv, PTL DEF Spec

\* Every table, KV entry, chain and job of the mirror is well typed.
THEOREM MirrorTyped == Spec => []TypeOK
<1>1. MirrorInv => TypeOK
  <2> SUFFICES ASSUME MirrorInv PROVE TypeOK
    OBVIOUS
  <2>1. Shape /\ Control /\ \A a \in Account : Typed(a)
    BY DEF MirrorInv, LocalInv
  <2>2. /\ row \in [Account -> Row] /\ queue \in [Account -> QueueRow] /\ dels \in [Account -> DelRow]
    BY <2>1 DEF Shape, Typed
  <2>3. /\ kv \in [Account -> [1..MaxKey -> Ver]] /\ drawn \in [Account -> [key : Key, ver : Ver]]
    BY <2>1 DEF Shape, Typed
  <2>4. io \in [Account -> Call] /\ reader \in [Account -> Row]
    BY <2>1 DEF Shape, Typed
  <2> QED
    BY <2>1, <2>2, <2>3, <2>4 DEF TypeOK, Control
<1> QED
  BY <1>1, Invariance, PTL

\* A deleted account whose deletion job is done leaves no credential in KV under any
\* key, and an account without a pending job has one under its own key alone.
THEOREM KvTheorem == Spec => []KvMatchesAccounts
<1>1. MirrorInv => KvMatchesAccounts
  <2> SUFFICES ASSUME MirrorInv, NEW a \in Account, NEW k \in 1..MaxKey
               PROVE  /\ ~Stored(a) /\ ~Deleting(a) => kv[a][k] = 0
                      /\ row[a].form = "full" /\ ~Queued(a) => (kv[a][k] # 0 <=> k = row[a].key)
    BY DEF KvMatchesAccounts
  <2>1. Typed(a) /\ RowSound(a) /\ KvSound(a)
    BY DEF MirrorInv, LocalInv
  <2>2. CASE ~Stored(a) /\ ~Deleting(a)
    BY <2>1, <2>2, Bounds DEF RowSound, KvSound, Cur, Stored, Deleting
  <2>3. CASE row[a].form = "full" /\ ~Queued(a)
    BY <2>1, <2>3 DEF RowSound, KvSound, Cur, Stored
  <2> QED
    BY <2>2, <2>3
<1> QED
  BY <1>1, Invariance, PTL

\* The backup of an account that the operator never deletes is the current ciphertext
\* whenever no mirror job of it is pending, whatever happens to the other accounts.
THEOREM BackupIsCurrent ==
    Spec => [](\A a \in Account \ Deletable :
                  row[a].form = "full" /\ ~Queued(a) => kv[a][row[a].key] = row[a].ver)
<1>1. CurrentInv => \A a \in Account \ Deletable :
                       row[a].form = "full" /\ ~Queued(a) => kv[a][row[a].key] = row[a].ver
  BY DEF CurrentInv, Current
<1> QED
  BY <1>1, Invariance, PTL

\* Without deletions, that is so for every account.
THEOREM MirrorTheorem ==
    ASSUME Deletable = {}
    PROVE  Spec => []MirrorIsCurrent
<1>1. CurrentInv => MirrorIsCurrent
  BY DEF CurrentInv, Current, MirrorIsCurrent
<1> QED
  BY <1>1, Invariance, PTL

\* The stored ciphertext of an account never goes back, neither when a legacy row is
\* rewritten behind an await nor when an import overtakes a refresh.
THEOREM AdvanceTheorem == Spec => CiphertextAdvances
<1>1. MirrorInv /\ [Next]_vars =>
         [\A a \in Account : Stored(a) /\ row'[a].form # "none" => row'[a].ver >= row[a].ver]_vars
  <2> SUFFICES ASSUME MirrorInv, [Next]_vars, NEW a \in Account, Stored(a), row'[a].form # "none"
               PROVE  row'[a].ver >= row[a].ver
    OBVIOUS
  <2>1. Kinds(a) /\ Typed(a) /\ Bounded(a) /\ RowSound(a)
    BY StepKinds DEF MirrorInv, LocalInv
  <2>2. row[a].ver \in Nat /\ drawn[a].ver \in Nat /\ row[a].ver <= drawn[a].ver
    BY <2>1, Fields, Bounds DEF Bounded
  <2>3. CASE Stores(a)
    <3>1. row'[a].ver = drawn[a].ver + 1
      BY <2>3 DEF Stores, StoredRow
    <3> QED
      BY <2>2, <3>1
  <2>4. CASE Deletes(a)
    BY <2>4 DEF Deletes, NoRow
  <2>5. CASE Commits(a)
    <3>1. row'[a].ver = reader[a].ver /\ reader[a].form \in {"pointer", "bare"}
          /\ row[a].form = reader[a].form /\ (row[a].form = "bare" => row[a].ver = reader[a].ver)
      BY <2>5 DEF Commits, UnchangedSince
    <3>2. row[a].form = "pointer" => row[a].ver = 0
      BY <2>1 DEF RowSound
    <3>3. reader[a].ver \in Nat
      BY <2>1, Fields, Bounds
    <3> QED
      BY <2>2, <3>1, <3>2, <3>3
  <2>6. CASE SameRows(a)
    BY <2>2, <2>6 DEF SameRows
  <2> QED
    BY <2>1, <2>3, <2>4, <2>5, <2>6
       DEF Kinds, Same, Reads, PutStarts, DelStarts, Skips, PutEnds, DelEnds, Breaks
<1> QED
  BY <1>1, Invariance, PTL DEF Spec, CiphertextAdvances
=============================================================================
