------------------------------ MODULE R2Archive ------------------------------
(***************************************************************************)
(* The cold archive of one ChatSession object (r2-archive.ts) and the      *)
(* life of the state it copies (chat-session.ts): the state row and its    *)
(* TTL, the outbox of encrypted copies, the flush that uploads them, the   *)
(* one alarm that TTL and retries share, and clearStateStorage, which may  *)
(* delete the whole storage only when no copy waits.                       *)
(*                                                                         *)
(* Abstractions: deadlines are ticks that remain, 0 is "now" (a deadline   *)
(* of now + 1 ms too), and two alarms closer than the tolerance are equal. *)
(* Scheduling an alarm is one step, since storage calls keep other events  *)
(* out of the object.  Two commits never share updated_at, so a revision   *)
(* is a commit.  A commit is archived or not, as its size and reason say.  *)
(* The object keeps a conversation, or it is the private branch of one     *)
(* response, which serves one turn and is never acquired again.            *)
(***************************************************************************)
EXTENDS Naturals, FiniteSets, FiniteSetsExt, Functions

CONSTANTS
    Ttl,         \* SESSION_TTL_MS and RESPONSE_BRANCH_TTL_MS
    LeaseTime,   \* CHAT_LEASE_MS
    UploadTime,  \* ticks a pending archive write may last
    MaxQueue,    \* R2_ARCHIVE_MAX_QUEUE
    MaxAttempts, \* R2_ARCHIVE_MAX_ATTEMPTS
    RetryMax,    \* R2_ARCHIVE_RETRY_MAX_MS
    Batch,       \* R2_ARCHIVE_FLUSH_BATCH_SIZE
    MaxCalls,    \* bound: calls on the session
    MaxCrashes,  \* bound: restarts of the object
    Never        \* no alarm, no state row, no upload

ASSUME ArchiveAssumption ==
    /\ {Ttl, LeaseTime, MaxQueue, MaxAttempts, RetryMax, Batch, MaxCalls} \subseteq Nat \ {0}
    /\ UploadTime \in Nat /\ UploadTime < Ttl /\ LeaseTime < Ttl
    /\ MaxCrashes \in Nat /\ Never \notin Nat
    /\ Never \notin [life : Nat, lease : Nat] \cup [rev : Nat, turn : Nat]

VARIABLES
    bound,    \* is R2_ARCHIVE bound
    branch,   \* is this the branch object of one response
    hot,      \* the state row: Never or [life, lease]
    used,     \* is there anything in the storage
    alarm,    \* ticks to the alarm, or Never
    outbox,   \* r2_archive_queue: revision -> [tries, due]
    writes,   \* pendingWrites: revision -> encrypt, flush
    upload,   \* flushInFlight: Never or [rev, turn]
    cold,     \* revisions in the bucket
    handler,  \* alarm(): idle, flush, clear
    caller,   \* acquireInternal and deleteCurrentState: idle, expired, again, discard
    calls,    \* calls so far; the revision of the next commit
    patience, \* ticks the pending writes may still last
    crashes,  \* restarts so far
    dropped   \* history: a due alarm was deleted undelivered, and none has been set since

archiveVars == <<bound, branch, hot, used, alarm, outbox, writes, upload, cold, handler, caller, calls, patience, crashes,
                 dropped>>

Row(lease) == [life |-> Ttl, lease |-> lease]
NoCopies == [r \in {} |-> Never]

ArchiveInit ==
    /\ bound \in BOOLEAN /\ branch \in BOOLEAN
    /\ hot = Never /\ used = FALSE /\ alarm = Never
    /\ outbox = NoCopies /\ writes = NoCopies /\ upload = Never /\ cold = {}
    /\ handler = "idle" /\ caller = "idle"
    /\ calls = 0 /\ patience = UploadTime /\ crashes = 0 /\ dropped = FALSE

-----------------------------------------------------------------------------
(* The shared alarm *)

\* scheduleAlarmAt: asked is {} (null) or one deadline; box is the outbox, t the alarm now.
Scheduled(asked, box, t) ==
    LET deadlines == asked \cup {box[r].due : r \in DOMAIN box} \cup ({t} \ {0, Never})
    IN IF ~bound THEN (IF asked = {} THEN t ELSE Min(asked))
       ELSE IF deadlines = {} THEN Never ELSE Min(deadlines)

SetAlarmAt(deadline) == alarm' = Scheduled({deadline}, outbox, alarm)

-----------------------------------------------------------------------------
(* The outbox *)

Due(box) == {r \in DOMAIN box : box[r].due = 0}

\* flushInternal picks its next row, or ends by arming the retry alarm; ws are the pending writes.
Flushing(box, ws, turn, t) ==
    IF Due(box) # {} /\ turn <= Batch
    THEN /\ upload' = [rev |-> Min(Due(box)), turn |-> turn]
         /\ alarm' = t /\ writes' = ws
    ELSE /\ upload' = Never
         /\ alarm' = Scheduled({}, box, t)
         /\ writes' = Restrict(ws, {r \in DOMAIN ws : ws[r] = "encrypt"})   \* the flush settles for all who await it

\* flush: joins the one in flight.
FlushOrJoin(box, ws, t) ==
    IF upload # Never THEN upload' = upload /\ alarm' = t /\ writes' = ws
    ELSE Flushing(box, ws, 1, t)

\* The outbox keeps the newest MaxQueue copies.
Trimmed(box) ==
    Restrict(box, {r \in DOMAIN box : Cardinality({s \in DOMAIN box : s > r}) < MaxQueue})

\* prepareAndFlush after the encryption: the row, its alarm, the flush; a copy too large is left out.
CopyEncrypted ==
    \E r \in DOMAIN writes, large \in BOOLEAN :
        /\ writes[r] = "encrypt"
        /\ IF large
           THEN /\ writes' = Restrict(writes, DOMAIN writes \ {r})
                /\ UNCHANGED <<outbox, upload, alarm>>
           ELSE LET box == Trimmed([s \in DOMAIN outbox \cup {r} |->
                                        IF s = r THEN [tries |-> 0, due |-> 0] ELSE outbox[s]])
                IN /\ outbox' = box
                   /\ FlushOrJoin(box, [writes EXCEPT ![r] = "flush"], Scheduled({}, box, alarm))
        /\ UNCHANGED <<bound, branch, hot, used, cold, handler, caller, calls, patience, crashes>>

Delay(n) == IF 2 ^ n \in 0..RetryMax THEN 2 ^ n ELSE RetryMax

\* markUploaded, or the catch of flushInternal: later, or never after MaxAttempts.
Retried(box, r) ==
    IF r \notin DOMAIN box THEN box
    ELSE IF box[r].tries + 1 >= MaxAttempts THEN Restrict(box, DOMAIN box \ {r})
    ELSE [box EXCEPT ![r] = [tries |-> @.tries + 1, due |-> Delay(@.tries + 1)]]

\* head and put answer: the copy is stored, the call failed, or it failed after the copy was stored.
UploadAnswers ==
    /\ upload # Never
    /\ \E stored, failed \in BOOLEAN :
        /\ stored \/ failed
        /\ cold' = IF stored THEN cold \cup {upload.rev} ELSE cold
        /\ LET box == IF failed THEN Retried(outbox, upload.rev)
                      ELSE Restrict(outbox, DOMAIN outbox \ {upload.rev})
           IN /\ outbox' = box
              /\ Flushing(box, writes, IF failed THEN Batch + 1 ELSE upload.turn + 1, alarm)
    /\ UNCHANGED <<bound, branch, hot, used, handler, caller, calls, patience, crashes>>

-----------------------------------------------------------------------------
(* clearStateStorage *)

\* Mutant: copies that wait go too.
ClearAlways(row) == hot' = Never /\ used' = FALSE /\ outbox' = NoCopies /\ alarm' = Never

\* Once drainPendingWrites is over: the storage goes, with whatever row it holds, unless a copy waits.
Clear(row) ==
    IF bound /\ DOMAIN outbox # {}
    THEN hot' = row /\ used' = used /\ outbox' = outbox /\ alarm' = Scheduled({}, outbox, alarm)
    ELSE hot' = Never /\ used' = FALSE /\ outbox' = NoCopies /\ alarm' = Never

\* deleteCurrentState: the row goes at once, and the storage too unless pending writes must be drained.
DeleteState ==
    IF DOMAIN writes = {} THEN Clear(Never) ELSE hot' = Never /\ UNCHANGED <<used, outbox, alarm>>
Drained(waits, after) == IF DOMAIN writes = {} THEN after ELSE waits

-----------------------------------------------------------------------------
(* Calls on the session *)

Called == caller = "idle" /\ calls < MaxCalls /\ calls' = calls + 1

\* The row is written and its alarm set.
Saved(r) == hot' = r /\ used' = TRUE /\ SetAlarmAt(Ttl)

\* acquireInternal: a leased row refuses, an expired one is deleted before the call starts again.
\* startResponseBranch is the first call on its object.
Acquire ==
    /\ \/ Called /\ (branch => calls = 0)
       \/ caller = "again" /\ UNCHANGED calls
    /\ \/ /\ hot # Never => hot.lease = 0 /\ hot.life > 0
          /\ Saved(Row(LeaseTime)) /\ caller' = "idle" /\ UNCHANGED outbox
       \/ /\ hot # Never /\ hot.lease > 0
          /\ caller' = "idle" /\ UNCHANGED <<hot, used, alarm, outbox>>
       \/ /\ hot # Never /\ hot.lease = 0 /\ hot.life = 0
          /\ DeleteState /\ caller' = Drained("expired", "again")
    /\ UNCHANGED <<bound, branch, writes, upload, cold, handler, patience, crashes>>

\* queueCurrentR2Archive and enqueue: the commit is copied, or its size and reason say that it is not.
QueueCurrentR2Archive ==
    \E archived \in IF bound THEN BOOLEAN ELSE {FALSE} :
        IF archived
        THEN /\ writes' = [r \in DOMAIN writes \cup {calls} |-> IF r = calls THEN "encrypt" ELSE writes[r]]
             /\ patience' = UploadTime
        ELSE UNCHANGED <<writes, patience>>

\* complete, checkpoint, the promotion of a tail, abandon: the row is saved and a copy may be queued.  The lease
\* ends here, has ended with the commit before, or has run out and nobody took it.
CommitTurn ==
    /\ Called /\ hot # Never
    /\ Saved(Row(0)) /\ QueueCurrentR2Archive
    /\ UNCHANGED <<bound, branch, outbox, upload, cold, handler, caller, crashes>>

\* release: the lease ends; a branch object is deleted, also by abandon and discardResponseBranch.
Release ==
    /\ Called /\ hot # Never
    /\ IF branch
       THEN DeleteState /\ caller' = Drained("discard", "idle")
       ELSE Saved(Row(0)) /\ UNCHANGED <<caller, outbox>>
    /\ UNCHANGED <<bound, branch, writes, upload, cold, handler, patience, crashes>>

\* The call goes on when the pending writes have settled; acquireInternal then starts again.
CallClears ==
    /\ caller \in {"expired", "discard"} /\ DOMAIN writes = {} /\ Clear(hot)
    /\ caller' = IF caller = "expired" THEN "again" ELSE "idle"
    /\ UNCHANGED <<bound, branch, writes, upload, cold, handler, calls, patience, crashes>>

-----------------------------------------------------------------------------
(* The alarm *)

\* alarm(): the flush comes first.
AlarmFires ==
    /\ alarm = 0 /\ handler = "idle" /\ handler' = "flush"
    /\ IF bound THEN FlushOrJoin(outbox, writes, Never) ELSE alarm' = Never /\ UNCHANGED <<upload, writes>>
    /\ UNCHANGED <<bound, branch, hot, used, outbox, cold, caller, calls, patience, crashes>>

Later(a, b) == IF a > b THEN a ELSE b

Alive == hot # Never /\ (hot.lease > 0 \/ hot.life > 0)

\* Mutant: the alarm of a live row is not set again.
NoRearm == UNCHANGED alarm

Rearm == SetAlarmAt(Later(hot.lease, hot.life))

AlarmLooks ==
    /\ handler = "flush" /\ upload = Never
    /\ IF Alive THEN Rearm /\ handler' = "idle" /\ UNCHANGED <<hot, used, outbox>>
       ELSE DeleteState /\ handler' = Drained("clear", "idle")
    /\ UNCHANGED <<bound, branch, writes, upload, cold, caller, calls, patience, crashes>>

AlarmClears ==
    /\ handler = "clear" /\ DOMAIN writes = {} /\ Clear(hot) /\ handler' = "idle"
    /\ UNCHANGED <<bound, branch, writes, upload, cold, caller, calls, patience, crashes>>

-----------------------------------------------------------------------------
(* Time and restarts *)

Less(n) == IF n = 0 THEN 0 ELSE n - 1

Tick ==
    /\ DOMAIN writes # {} => patience > 0
    /\ patience' = IF DOMAIN writes # {} THEN patience - 1 ELSE patience
    /\ hot' = IF hot = Never THEN hot ELSE [hot EXCEPT !.life = Less(@), !.lease = Less(@)]
    /\ alarm' = IF alarm = Never THEN alarm ELSE Less(alarm)
    /\ outbox' = [r \in DOMAIN outbox |-> [outbox[r] EXCEPT !.due = Less(@)]]
    /\ UNCHANGED <<bound, branch, used, writes, upload, cold, handler, caller, calls, crashes>>

\* The object restarts: promises are gone, a put may have landed, an interrupted alarm is delivered again.
Restart ==
    /\ crashes < MaxCrashes /\ crashes' = crashes + 1
    /\ writes' = NoCopies /\ upload' = Never /\ handler' = "idle" /\ caller' = "idle"
    /\ cold' \in {cold} \cup (IF upload = Never THEN {} ELSE {cold \cup {upload.rev}})
    /\ alarm' = IF handler = "idle" THEN alarm ELSE 0
    /\ UNCHANGED <<bound, branch, hot, used, outbox, calls, patience>>

ArchiveWorks ==
    \/ CopyEncrypted \/ UploadAnswers \/ CallClears \/ AlarmFires \/ AlarmLooks \/ AlarmClears
    \/ caller = "again" /\ Acquire

\* History: the end of an upload deletes an alarm that is due and not delivered, for scheduleAlarmAt takes it for
\* one that has fired.
Observe ==
    dropped' = (used' /\ alarm' = Never
                /\ (dropped \/ (alarm = 0 /\ handler = "idle" /\ handler' = "idle" /\ upload # Never)))

ArchiveNext == (ArchiveWorks \/ Acquire \/ CommitTurn \/ Release \/ Tick \/ Restart) /\ Observe

ArchiveSpec == ArchiveInit /\ [][ArchiveNext]_archiveVars

\* The platform runs promises and alarms and time passes.
ArchiveFair == ArchiveSpec /\ WF_archiveVars(ArchiveWorks /\ Observe) /\ WF_archiveVars(Tick /\ Observe)

-----------------------------------------------------------------------------
(* Properties *)

ArchiveTypeOK ==
    /\ bound \in BOOLEAN /\ branch \in BOOLEAN /\ used \in BOOLEAN
    /\ hot \in [life : 0..Ttl, lease : 0..LeaseTime] \cup {Never}
    /\ alarm \in 0..Later(Ttl, RetryMax) \cup {Never}
    /\ DOMAIN outbox \subseteq 0..(MaxCalls - 1) /\ Cardinality(DOMAIN outbox) <= MaxQueue
    /\ outbox \in [DOMAIN outbox -> [tries : 0..(MaxAttempts - 1), due : 0..RetryMax]]
    /\ DOMAIN writes \subseteq 0..(MaxCalls - 1) /\ writes \in [DOMAIN writes -> {"encrypt", "flush"}]
    /\ upload \in [rev : 0..(MaxCalls - 1), turn : 1..Batch] \cup {Never}
    /\ cold \subseteq 0..(MaxCalls - 1)
    /\ handler \in {"idle", "flush", "clear"} /\ caller \in {"idle", "expired", "again", "discard"}
    /\ calls \in 0..MaxCalls /\ patience \in 0..UploadTime /\ crashes \in 0..MaxCrashes /\ dropped \in BOOLEAN

\* The archive and the expiry of the state share the storage, its alarm and its clean-up, and neither takes what
\* the other still needs.  A queued copy leaves the outbox only when it is in the bucket, when its attempts are
\* used up or when newer copies fill the outbox, never because the expired state is cleared around it
\* (hasPendingArchive, flushInternal); a row disappears only when its TTL is over and no turn holds it, or by a
\* call that ends the turn of a branch, and no clear that had to wait for an upload takes the row of a turn that
\* began meanwhile (expireIfIdle, acquireInternal, clearStateStorage).
ClearingLosesNothing ==
    [][/\ \A r \in DOMAIN outbox \ DOMAIN outbox' :
            \/ r \in cold'
            \/ outbox[r].tries + 1 = MaxAttempts
            \/ Cardinality({s \in DOMAIN outbox' : s > r}) = MaxQueue
       /\ (hot # Never /\ hot' = Never) =>
            (hot.life = 0 /\ hot.lease = 0) \/ (branch /\ calls' # calls)]_archiveVars

\* Storage that a session used is empty again some day: retries of the archive, restarts and the shared alarm
\* never leave a state, or an outbox, that nothing comes back for (alarm, scheduleAlarmAt, clearStateStorage).  One
\* race does: an upload that ends while the alarm is due and not yet delivered deletes it (armRetryAlarm with an
\* empty outbox), and the storage then stays until a later call sets an alarm.
StorageIsReclaimed == used ~> (~used \/ dropped)

=============================================================================
