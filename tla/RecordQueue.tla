---------------------------- MODULE RecordQueue ----------------------------
(***************************************************************************)
(* The generation queue of shadraw: the rows of the "records" table, the   *)
(* requests that create, retry and delete them (internal/record), the      *)
(* workers that claim and process them (internal/worker), the image        *)
(* objects they write (internal/blob), and the crash and restart of the    *)
(* process that holds all of it but the table and the objects.             *)
(*                                                                         *)
(* A worker claims in one database transaction of several statements, and  *)
(* so do a create and a retry; every statement is a step of its own, so    *)
(* that the transactions interleave as READ COMMITTED lets them.  What     *)
(* keeps them apart is modelled: the advisory lock of a user               *)
(* (pg_advisory_xact_lock, pg_try_advisory_xact_lock) and the row locks of *)
(* SELECT ... FOR UPDATE SKIP LOCKED.                                      *)
(***************************************************************************)
EXTENDS Naturals, FiniteSets

CONSTANTS
    Users,        \* the accounts
    Workers,      \* the goroutines of the worker pool
    Requests,     \* the HTTP requests that may be in flight together
    Extensions,   \* the file types an image may be stored with
    Caps,         \* values an admin may give to perUserWorkerConcurrency
    Limits,       \* values an admin may give to perUserQueueLimit
    MaxRecords,   \* bound: rows ever inserted
    MaxRequests,  \* bound: requests ever issued
    MaxFaults,    \* bound: failed database, upload or connection calls
    MaxCrashes,   \* bound: ends of the process
    NoUser, NoPath, NoHolder

ASSUME BoundsAssumption ==
    MaxRecords \in Nat /\ MaxRequests \in Nat /\ MaxFaults \in Nat /\ MaxCrashes \in Nat

\* normalizePerUserWorkerConcurrency and clampRuntimeLimit keep both settings in 1..16.
ASSUME SettingsAssumption ==
    /\ Caps \subseteq 1..16 /\ Caps # {}
    /\ Limits \subseteq 1..16 /\ Limits # {}

ASSUME NamesAssumption ==
    /\ NoUser \notin Users
    /\ NoPath \notin Extensions
    /\ NoHolder \notin Workers \cup Requests
    /\ Workers \cap Requests = {}

VARIABLES
    \* the records table and the blob store: they survive a crash
    status, owner, imagePath, nextId, objects,
    \* the live runtime settings
    cap, limit,
    \* locks that open transactions hold
    advisory, rowLocks,
    \* the workers
    wpc, wrec, wcap, wexcluded, wext,
    \* the requests
    rpc, ruser, rrec, rlimit, rpath,
    \* the process and the environment's budget
    up, issued, faults, crashes

tableVars   == <<status, owner, imagePath, nextId, objects>>
settingVars == <<cap, limit>>
lockVars    == <<advisory, rowLocks>>
workerVars  == <<wpc, wrec, wcap, wexcluded, wext>>
requestVars == <<rpc, ruser, rrec, rlimit, rpath>>
envVars     == <<up, issued, faults, crashes>>
vars == <<tableVars, settingVars, lockVars, workerVars, requestVars, envVars>>

Records == 1..MaxRecords
NoRecord == 0

\* "absent": not inserted yet; "deleted": the row is gone.  An id is never used twice.
Statuses == {"absent", "waiting", "running", "completed", "failed", "deleted"}

\* A worker inside the transaction of ClaimWaiting, and one that owns a claimed record.
ClaimPcs == {"scan", "lock", "recount", "claim"}
JobPcs   == {"fetch", "generate", "put", "store", "fail"}
\* A request inside the transaction of a create or of a retry.
CreatePcs == {"create_lock", "create_count", "create_insert"}
RetryPcs  == {"retry_lock", "retry_check", "retry_update"}
DeletePcs == {"delete_row", "delete_object"}

RunningOf(u)    == {r \in Records : owner[r] = u /\ status[r] = "running"}
UnfinishedOf(u) == {r \in Records : owner[r] = u /\ status[r] \in {"waiting", "running"}}

\* The row of a record that is there: UPDATE ... WHERE id = ? touches nothing otherwise.
Exists(r) == status[r] \notin {"absent", "deleted"}

\* Mutant of Claimable: the status filter also lets running rows through.
ClaimableOrRunning(r) == status[r] \in {"waiting", "running"}

\* The condition of the claim, in its SELECT and again in its UPDATE.
Claimable(r) == status[r] = "waiting"

RowLocked(r) == \E w \in Workers : r \in rowLocks[w]

\* The end of p's transaction, by COMMIT or ROLLBACK, gives back its advisory locks.
ReleaseAdvisory(p) ==
    [u \in Users |-> IF advisory[u] = p THEN NoHolder ELSE advisory[u]]

Init ==
    /\ status = [r \in Records |-> "absent"]
    /\ owner = [r \in Records |-> NoUser]
    /\ imagePath = [r \in Records |-> NoPath]
    /\ nextId = 1
    /\ objects = {}
    /\ cap \in Caps /\ limit \in Limits
    /\ advisory = [u \in Users |-> NoHolder]
    /\ rowLocks = [w \in Workers |-> {}]
    /\ wpc = [w \in Workers |-> "idle"]
    /\ wrec = [w \in Workers |-> NoRecord]
    /\ wcap = [w \in Workers |-> 0]
    /\ wexcluded = [w \in Workers |-> {}]
    /\ wext = [w \in Workers |-> NoPath]
    /\ rpc = [c \in Requests |-> "idle"]
    /\ ruser = [c \in Requests |-> NoUser]
    /\ rrec = [c \in Requests |-> NoRecord]
    /\ rlimit = [c \in Requests |-> 0]
    /\ rpath = [c \in Requests |-> NoPath]
    /\ up = FALSE /\ issued = 0 /\ faults = 0 /\ crashes = 0

(***************************************************************************)
(* Steps shared by several actions.                                        *)
(***************************************************************************)

\* Worker w goes back to the loop of run() with nothing in hand.
WorkerIdle(w) ==
    /\ wpc' = [wpc EXCEPT ![w] = "idle"]
    /\ wrec' = [wrec EXCEPT ![w] = NoRecord]
    /\ wcap' = [wcap EXCEPT ![w] = 0]
    /\ wexcluded' = [wexcluded EXCEPT ![w] = {}]
    /\ wext' = [wext EXCEPT ![w] = NoPath]

\* Mutant of EndClaim: the lock is taken for the session, not for the transaction.
EndClaimKeepingLock(w) == UNCHANGED advisory /\ rowLocks' = [rowLocks EXCEPT ![w] = {}]

\* The claim transaction of worker w ends: its row locks and advisory locks are gone.
EndClaim(w) ==
    /\ advisory' = ReleaseAdvisory(w)
    /\ rowLocks' = [rowLocks EXCEPT ![w] = {}]

\* Request c is answered and its transaction, if any, is over.
Answer(c) ==
    /\ rpc' = [rpc EXCEPT ![c] = "idle"]
    /\ ruser' = [ruser EXCEPT ![c] = NoUser]
    /\ rrec' = [rrec EXCEPT ![c] = NoRecord]
    /\ rlimit' = [rlimit EXCEPT ![c] = 0]
    /\ rpath' = [rpath EXCEPT ![c] = NoPath]
    /\ advisory' = ReleaseAdvisory(c)
    /\ UNCHANGED rowLocks

\* A call that fails uses up one of the faults the environment may inject.
Fault == faults < MaxFaults /\ faults' = faults + 1 /\ UNCHANGED <<up, issued, crashes>>

(***************************************************************************)
(* Worker: ClaimWaiting.                                                   *)
(***************************************************************************)

\* tickOnce reads the per-user cap from the live settings, then opens the transaction.
BeginClaim(w) ==
    /\ up /\ wpc[w] = "idle"
    /\ wpc' = [wpc EXCEPT ![w] = "scan"]
    /\ wcap' = [wcap EXCEPT ![w] = cap]
    /\ UNCHANGED <<wrec, wexcluded, wext, tableVars, settingVars, lockVars, requestVars, envVars>>

\* What the SELECT of the claim may return: waiting rows of users below the cap that were
\* not excluded, except the rows that another transaction has locked (SKIP LOCKED).
Eligible(w) ==
    {r \in Records :
        /\ Claimable(r)
        /\ Cardinality(RunningOf(owner[r])) < wcap[w]
        /\ owner[r] \notin wexcluded[w]
        /\ \A v \in Workers \ {w} : r \notin rowLocks[v]}

\* ORDER BY id LIMIT 1 FOR UPDATE: the oldest eligible row is picked and locked.
ScanPick(w) ==
    /\ wpc[w] = "scan"
    /\ \E r \in Eligible(w) :
        /\ \A q \in Eligible(w) : r <= q
        /\ wrec' = [wrec EXCEPT ![w] = r]
        /\ rowLocks' = [rowLocks EXCEPT ![w] = @ \cup {r}]
    /\ wpc' = [wpc EXCEPT ![w] = "lock"]
    /\ UNCHANGED <<advisory, wcap, wexcluded, wext, tableVars, settingVars, requestVars, envVars>>

\* No row: the transaction is rolled back and the worker idles.
ScanEmpty(w) ==
    /\ wpc[w] = "scan" /\ Eligible(w) = {}
    /\ EndClaim(w)
    /\ WorkerIdle(w)
    /\ UNCHANGED <<tableVars, settingVars, requestVars, envVars>>

\* pg_try_advisory_xact_lock on the user of the picked row succeeds ...
TryLock(w) ==
    LET u == owner[wrec[w]] IN
    /\ wpc[w] = "lock"
    /\ advisory[u] \in {NoHolder, w}
    /\ advisory' = [advisory EXCEPT ![u] = w]
    /\ wpc' = [wpc EXCEPT ![w] = "recount"]
    /\ UNCHANGED <<rowLocks, wrec, wcap, wexcluded, wext, tableVars, settingVars, requestVars, envVars>>

\* ... or another transaction holds it: the user is excluded and the scan is repeated.
TryLockBusy(w) ==
    LET u == owner[wrec[w]] IN
    /\ wpc[w] = "lock"
    /\ advisory[u] \notin {NoHolder, w}
    /\ wexcluded' = [wexcluded EXCEPT ![w] = @ \cup {u}]
    /\ wpc' = [wpc EXCEPT ![w] = "scan"]
    /\ UNCHANGED <<wrec, wcap, wext, tableVars, settingVars, lockVars, requestVars, envVars>>

\* Mutant of Recount: the count of the SELECT is trusted.
RecountSkipped(w) ==
    /\ wpc[w] = "recount"
    /\ wpc' = [wpc EXCEPT ![w] = "claim"]
    /\ UNCHANGED <<wrec, wcap, wexcluded, wext, tableVars, settingVars, lockVars, requestVars, envVars>>

\* Under the lock the running rows are counted again.
Recount(w) ==
    LET u == owner[wrec[w]]
        below == Cardinality(RunningOf(u)) < wcap[w] IN
    /\ wpc[w] = "recount"
    /\ wpc' = [wpc EXCEPT ![w] = IF below THEN "claim" ELSE "scan"]
    /\ wexcluded' = [wexcluded EXCEPT ![w] = IF below THEN @ ELSE @ \cup {u}]
    /\ UNCHANGED <<wrec, wcap, wext, tableVars, settingVars, lockVars, requestVars, envVars>>

\* UPDATE ... WHERE id = ? AND status = 'waiting', then COMMIT.
Claim(w) ==
    /\ wpc[w] = "claim"
    /\ Claimable(wrec[w])
    /\ status' = [status EXCEPT ![wrec[w]] = "running"]
    /\ wpc' = [wpc EXCEPT ![w] = "fetch"]
    /\ wcap' = [wcap EXCEPT ![w] = 0]
    /\ wexcluded' = [wexcluded EXCEPT ![w] = {}]
    /\ EndClaim(w)
    /\ UNCHANGED <<owner, imagePath, nextId, objects, wrec, wext, settingVars, requestVars, envVars>>

\* A statement of the transaction, or its COMMIT, fails: nothing of it remains.
ClaimError(w) ==
    /\ wpc[w] \in ClaimPcs
    /\ Fault
    /\ EndClaim(w)
    /\ WorkerIdle(w)
    /\ UNCHANGED <<tableVars, settingVars, requestVars>>

(***************************************************************************)
(* Worker: processing of a claimed record (the rest of tickOnce).          *)
(***************************************************************************)

\* FindByID after the COMMIT, outside the transaction: the row may be gone by now.
Fetch(w) ==
    /\ wpc[w] = "fetch"
    /\ IF Exists(wrec[w])
         THEN wpc' = [wpc EXCEPT ![w] = "generate"] /\ UNCHANGED <<wrec, wcap, wexcluded, wext>>
         ELSE WorkerIdle(w)
    /\ UNCHANGED <<tableVars, settingVars, lockVars, requestVars, envVars>>

\* The upstream answers with an image of some type ...
Generate(w) ==
    /\ wpc[w] = "generate"
    /\ \E e \in Extensions : wext' = [wext EXCEPT ![w] = e]
    /\ wpc' = [wpc EXCEPT ![w] = "put"]
    /\ UNCHANGED <<wrec, wcap, wexcluded, tableVars, settingVars, lockVars, requestVars, envVars>>

\* ... or there is no upstream configured, it fails, or its answer holds no image.
GenerateFails(w) ==
    /\ wpc[w] = "generate"
    /\ wpc' = [wpc EXCEPT ![w] = "fail"]
    /\ UNCHANGED <<wrec, wcap, wexcluded, wext, tableVars, settingVars, lockVars, requestVars, envVars>>

\* blob.Put under the key user-<uid>/<uuid>.<ext>: one key per record and type.
Put(w) ==
    /\ wpc[w] = "put"
    /\ objects' = objects \cup {<<wrec[w], wext[w]>>}
    /\ wpc' = [wpc EXCEPT ![w] = "store"]
    /\ UNCHANGED <<status, owner, imagePath, nextId, wrec, wcap, wexcluded, wext,
                   settingVars, lockVars, requestVars, envVars>>

\* Mutant of PutFails: the error of the upload is dropped.
PutFailsUnnoticed(w) ==
    /\ wpc[w] = "put"
    /\ Fault
    /\ wpc' = [wpc EXCEPT ![w] = "store"]
    /\ UNCHANGED <<wrec, wcap, wexcluded, wext, tableVars, settingVars, lockVars, requestVars>>

PutFails(w) ==
    /\ wpc[w] = "put"
    /\ Fault
    /\ wpc' = [wpc EXCEPT ![w] = "fail"]
    /\ UNCHANGED <<wrec, wcap, wexcluded, wext, tableVars, settingVars, lockVars, requestVars>>

\* StoreGenerated: WHERE id = ? only, whatever the row's status.
Store(w) ==
    LET r == wrec[w] IN
    /\ wpc[w] = "store"
    /\ status' = [status EXCEPT ![r] = IF Exists(r) THEN "completed" ELSE @]
    /\ imagePath' = [imagePath EXCEPT ![r] = IF Exists(r) THEN wext[w] ELSE @]
    /\ WorkerIdle(w)
    /\ UNCHANGED <<owner, nextId, objects, settingVars, lockVars, requestVars, envVars>>

\* MarkFailed and MarkFailedWithUpstreamError: WHERE id = ? only.
MarkFailed(w) ==
    LET r == wrec[w] IN
    /\ wpc[w] = "fail"
    /\ status' = [status EXCEPT ![r] = IF Exists(r) THEN "failed" ELSE @]
    /\ WorkerIdle(w)
    /\ UNCHANGED <<owner, imagePath, nextId, objects, settingVars, lockVars, requestVars, envVars>>

\* FindByID, StoreGenerated or MarkFailed fails (the six-minute context has expired, the
\* database is away): the error is logged or dropped and the worker goes on to other work.
JobError(w) ==
    /\ wpc[w] \in {"fetch", "store", "fail"}
    /\ Fault
    /\ WorkerIdle(w)
    /\ UNCHANGED <<tableVars, settingVars, lockVars, requestVars>>

WorkerStep(w) ==
    \/ BeginClaim(w) \/ ScanPick(w) \/ ScanEmpty(w) \/ TryLock(w) \/ TryLockBusy(w)
    \/ Recount(w) \/ Claim(w) \/ Fetch(w) \/ Generate(w) \/ GenerateFails(w)
    \/ Put(w) \/ Store(w) \/ MarkFailed(w)

WorkerFault(w) == ClaimError(w) \/ PutFails(w) \/ JobError(w)

(***************************************************************************)
(* Requests: Create, Retry, Delete.  The queue limit is read from the live *)
(* settings when the request starts, before the transaction.               *)
(***************************************************************************)

Issue == up /\ issued < MaxRequests /\ issued' = issued + 1 /\ UNCHANGED <<up, faults, crashes>>

\* Bound: creates in flight never need more ids than there are.
IdsLeft == nextId + Cardinality({c \in Requests : rpc[c] \in CreatePcs}) <= MaxRecords

BeginCreate(c, u) ==
    /\ rpc[c] = "idle" /\ IdsLeft
    /\ Issue
    /\ rpc' = [rpc EXCEPT ![c] = "create_lock"]
    /\ ruser' = [ruser EXCEPT ![c] = u]
    /\ rlimit' = [rlimit EXCEPT ![c] = limit]
    /\ UNCHANGED <<rrec, rpath, tableVars, settingVars, lockVars, workerVars>>

\* A retry names one of the caller's records; a record of somebody else takes the same
\* exit as one that has not failed.
BeginRetry(c, r) ==
    /\ rpc[c] = "idle" /\ Exists(r)
    /\ Issue
    /\ rpc' = [rpc EXCEPT ![c] = "retry_lock"]
    /\ ruser' = [ruser EXCEPT ![c] = owner[r]]
    /\ rrec' = [rrec EXCEPT ![c] = r]
    /\ rlimit' = [rlimit EXCEPT ![c] = limit]
    /\ UNCHANGED <<rpath, tableVars, settingVars, lockVars, workerVars>>

\* pg_advisory_xact_lock: the request waits until the lock is free.
AcquireLock(c) ==
    /\ rpc[c] \in {"create_lock", "retry_lock"}
    /\ advisory[ruser[c]] = NoHolder
    /\ advisory' = [advisory EXCEPT ![ruser[c]] = c]
    /\ rpc' = [rpc EXCEPT ![c] = IF @ = "create_lock" THEN "create_count" ELSE "retry_check"]
    /\ UNCHANGED <<ruser, rrec, rlimit, rpath, rowLocks, tableVars, settingVars, workerVars, envVars>>

\* Mutant of QueueFull: one record too many.
QueueOverfull(c) == Cardinality(UnfinishedOf(ruser[c])) > rlimit[c]

QueueFull(c) == Cardinality(UnfinishedOf(ruser[c])) >= rlimit[c]

CreateCount(c) ==
    /\ rpc[c] = "create_count"
    /\ IF QueueFull(c)
         THEN Answer(c)
         ELSE /\ rpc' = [rpc EXCEPT ![c] = "create_insert"]
              /\ UNCHANGED <<ruser, rrec, rlimit, rpath, lockVars>>
    /\ UNCHANGED <<tableVars, settingVars, workerVars, envVars>>

\* INSERT and COMMIT: ids come from a sequence.
CreateInsert(c) ==
    /\ rpc[c] = "create_insert" /\ nextId \in Records
    /\ status' = [status EXCEPT ![nextId] = "waiting"]
    /\ owner' = [owner EXCEPT ![nextId] = ruser[c]]
    /\ nextId' = nextId + 1
    /\ Answer(c)
    /\ UNCHANGED <<imagePath, objects, settingVars, workerVars, envVars>>

\* Only a failed record, and only below the limit.
RetryCheck(c) ==
    /\ rpc[c] = "retry_check"
    /\ IF status[rrec[c]] # "failed" \/ QueueFull(c)
         THEN Answer(c)
         ELSE /\ rpc' = [rpc EXCEPT ![c] = "retry_update"]
              /\ UNCHANGED <<ruser, rrec, rlimit, rpath, lockVars>>
    /\ UNCHANGED <<tableVars, settingVars, workerVars, envVars>>

\* UPDATE ... WHERE status = 'failed', then COMMIT.
RetryUpdate(c) ==
    LET r == rrec[c] IN
    /\ rpc[c] = "retry_update"
    /\ status' = [status EXCEPT ![r] = IF @ = "failed" THEN "waiting" ELSE @]
    /\ imagePath' = [imagePath EXCEPT ![r] = IF status[r] = "failed" THEN NoPath ELSE @]
    /\ Answer(c)
    /\ UNCHANGED <<owner, nextId, objects, settingVars, workerVars, envVars>>

\* Delete reads the row first.  The owner's delete keeps the image path of that read to
\* remove the object afterwards; the admin's delete does not.
DeleteRead(c, r) ==
    /\ rpc[c] = "idle" /\ Exists(r)
    /\ Issue
    /\ rpc' = [rpc EXCEPT ![c] = "delete_row"]
    /\ rrec' = [rrec EXCEPT ![c] = r]
    /\ \E p \in {imagePath[r], NoPath} : rpath' = [rpath EXCEPT ![c] = p]
    /\ UNCHANGED <<ruser, rlimit, tableVars, settingVars, lockVars, workerVars>>

\* DELETE waits for a claim transaction that has locked the row.
DeleteRow(c) ==
    LET r == rrec[c] IN
    /\ rpc[c] = "delete_row" /\ ~RowLocked(r)
    /\ status' = [status EXCEPT ![r] = "deleted"]
    /\ imagePath' = [imagePath EXCEPT ![r] = NoPath]
    /\ IF rpath[c] = NoPath
         THEN Answer(c)
         ELSE /\ rpc' = [rpc EXCEPT ![c] = "delete_object"]
              /\ UNCHANGED <<ruser, rrec, rlimit, rpath, lockVars>>
    /\ UNCHANGED <<owner, nextId, objects, settingVars, workerVars, envVars>>

DeleteObject(c) ==
    /\ rpc[c] = "delete_object"
    /\ objects' = objects \ {<<rrec[c], rpath[c]>>}
    /\ Answer(c)
    /\ UNCHANGED <<status, owner, imagePath, nextId, settingVars, workerVars, envVars>>

\* A statement fails or the client goes away: the transaction is rolled back.  The error of
\* blob.Delete is dropped.
RequestError(c) ==
    /\ rpc[c] # "idle"
    /\ Fault
    /\ Answer(c)
    /\ UNCHANGED <<tableVars, settingVars, workerVars>>

RequestStep(c) ==
    \/ AcquireLock(c) \/ CreateCount(c) \/ CreateInsert(c)
    \/ RetryCheck(c) \/ RetryUpdate(c) \/ DeleteRow(c) \/ DeleteObject(c)

NewRequest(c) ==
    \/ \E u \in Users : BeginCreate(c, u)
    \/ \E r \in Records : BeginRetry(c, r) \/ DeleteRead(c, r)

(***************************************************************************)
(* Process: settings, start and end.                                       *)
(***************************************************************************)

\* The admin's new settings take effect for claims and requests that start afterwards.
ChangeSettings ==
    /\ up
    /\ cap' \in Caps /\ limit' \in Limits
    /\ UNCHANGED <<tableVars, lockVars, workerVars, requestVars, envVars>>

\* Mutant of Boot: nothing is swept.
BootWithoutSweep ==
    /\ ~up /\ up' = TRUE
    /\ UNCHANGED <<tableVars, settingVars, lockVars, workerVars, requestVars, issued, faults, crashes>>

\* main: SweepRunningToWaiting comes before the pool and the server start; when it fails, the
\* error is logged and the process starts all the same.
Boot ==
    /\ ~up /\ up' = TRUE
    /\ \/ /\ status' = [r \in Records |-> IF status[r] = "running" THEN "waiting" ELSE status[r]]
          /\ UNCHANGED faults
       \/ /\ faults < MaxFaults /\ faults' = faults + 1
          /\ UNCHANGED status
    /\ UNCHANGED <<owner, imagePath, nextId, objects, settingVars, lockVars, workerVars,
                   requestVars, issued, crashes>>

\* The process ends, at once or because Stop gave up after its timeout: goroutines are gone,
\* and the database rolls back what they had open.
Crash ==
    /\ up /\ crashes < MaxCrashes
    /\ up' = FALSE /\ crashes' = crashes + 1
    /\ advisory' = [u \in Users |-> NoHolder]
    /\ rowLocks' = [w \in Workers |-> {}]
    /\ wpc' = [w \in Workers |-> "idle"]
    /\ wrec' = [w \in Workers |-> NoRecord]
    /\ wcap' = [w \in Workers |-> 0]
    /\ wexcluded' = [w \in Workers |-> {}]
    /\ wext' = [w \in Workers |-> NoPath]
    /\ rpc' = [c \in Requests |-> "idle"]
    /\ ruser' = [c \in Requests |-> NoUser]
    /\ rrec' = [c \in Requests |-> NoRecord]
    /\ rlimit' = [c \in Requests |-> 0]
    /\ rpath' = [c \in Requests |-> NoPath]
    /\ UNCHANGED <<tableVars, settingVars, issued, faults>>

Next ==
    \/ \E w \in Workers : WorkerStep(w) \/ WorkerFault(w)
    \/ \E c \in Requests : NewRequest(c) \/ RequestStep(c) \/ RequestError(c)
    \/ ChangeSettings \/ Boot \/ Crash

Spec == Init /\ [][Next]_vars

\* Goroutines run on, the database answers, and the service is started again: each worker and
\* each request in flight takes its next step.  PostgreSQL queues those who wait for a lock,
\* so a wait is strongly fair.  Nothing makes a user send a request.
Fairness ==
    /\ \A w \in Workers : WF_vars(WorkerStep(w))
    /\ \A c \in Requests : SF_vars(AcquireLock(c)) /\ SF_vars(DeleteRow(c))
    /\ \A c \in Requests :
          WF_vars(CreateCount(c) \/ CreateInsert(c) \/ RetryCheck(c) \/ RetryUpdate(c) \/ DeleteObject(c))
    /\ WF_vars(Boot)

FairSpec == Spec /\ Fairness

(***************************************************************************)
(* Properties.                                                             *)
(***************************************************************************)

TableType ==
    /\ status \in [Records -> Statuses]
    /\ owner \in [Records -> Users \cup {NoUser}]
    /\ imagePath \in [Records -> Extensions \cup {NoPath}]
    /\ nextId \in 1..(MaxRecords + 1)
    /\ objects \subseteq Records \X Extensions

LockType ==
    /\ advisory \in [Users -> Workers \cup Requests \cup {NoHolder}]
    /\ rowLocks \in [Workers -> SUBSET Records]

WorkerType ==
    /\ wpc \in [Workers -> {"idle"} \cup ClaimPcs \cup JobPcs]
    /\ wrec \in [Workers -> Records \cup {NoRecord}]
    /\ wcap \in [Workers -> Caps \cup {0}]
    /\ wexcluded \in [Workers -> SUBSET Users]
    /\ wext \in [Workers -> Extensions \cup {NoPath}]

RequestType ==
    /\ rpc \in [Requests -> {"idle"} \cup CreatePcs \cup RetryPcs \cup DeletePcs]
    /\ ruser \in [Requests -> Users \cup {NoUser}]
    /\ rrec \in [Requests -> Records \cup {NoRecord}]
    /\ rlimit \in [Requests -> Limits \cup {0}]
    /\ rpath \in [Requests -> Extensions \cup {NoPath}]

EnvType ==
    /\ cap \in Caps /\ limit \in Limits
    /\ up \in BOOLEAN
    /\ issued \in 0..MaxRequests /\ faults \in 0..MaxFaults /\ crashes \in 0..MaxCrashes

\* Every variable has its type: the table, the locks, the workers, the requests and the rest.
TypeOK == TableType /\ LockType /\ WorkerType /\ RequestType /\ EnvType

\* docs/api.md, perUserWorkerConcurrency: a user never has more running records than a cap the
\* admin has chosen, however claims, crashes and changes of the cap interleave.
RunningWithinCap ==
    \A u \in Users : \E n \in Caps : Cardinality(RunningOf(u)) <= n

\* docs/api.md, perUserQueueLimit: a user never has more waiting and running records than a
\* limit the admin has chosen, whatever creates and retries run at the same time.
UnfinishedWithinLimit ==
    \A u \in Users : \E n \in Limits : Cardinality(UnfinishedOf(u)) <= n

\* A claim never takes a user above the cap its worker read, even when that cap is no longer
\* the live one and other workers claim for the same user.
ClaimWithinCapRead ==
    [][\A w \in Workers, u \in Users :
        wpc[w] = "claim" /\ wpc'[w] = "fetch" /\ u = owner[wrec[w]]
            => Cardinality(RunningOf(u))' <= wcap[w]]_vars

\* A create or a retry never takes a user above the limit its request read.
AdmitWithinLimitRead ==
    [][\A c \in Requests, u \in Users :
        rpc[c] \in {"create_insert", "retry_update"} /\ rpc'[c] = "idle" /\ u = ruser[c] /\ status' # status
            => Cardinality(UnfinishedOf(u))' <= rlimit[c]]_vars

\* A claimed record belongs to one worker, and as long as it does nobody but a delete takes it
\* out of "running": this is why StoreGenerated and MarkFailed may update by id alone.
ExclusiveJob ==
    \A w \in Workers : wpc[w] \in JobPcs =>
        /\ status[wrec[w]] \in {"running", "deleted"}
        /\ \A v \in Workers \ {w} : wpc[v] \in JobPcs => wrec[v] # wrec[w]

\* While no call has failed, a running record of a live process is in the hands of a worker:
\* none is left behind by a claim, a delete, a retry or a restart.
RunningIsWorkedOn ==
    up /\ faults = 0 =>
        \A r \in Records : status[r] = "running" =>
            \E w \in Workers : wpc[w] \in JobPcs /\ wrec[w] = r

\* A completed record can be shown: its path is set and the object is in the store, also when
\* deletes, re-generations after a crash and failed uploads run against each other.
CompletedIsServable ==
    \A r \in Records :
        /\ status[r] = "completed" => <<r, imagePath[r]>> \in objects
        /\ status[r] # "completed" => imagePath[r] = NoPath

\* The queue implements GenerationQueue: every step, seen through the statuses and owners of the
\* records, is one of the abstract steps or changes nothing.  A completed record only ever goes
\* by being deleted, only a restart takes a record back from running, and neither limit is passed.
Queue == INSTANCE GenerationQueue WITH
    Users <- Users, Records <- Records, Caps <- Caps, Limits <- Limits, NoUser <- NoUser,
    status <- status, owner <- owner
ImplementsQueue == Queue!Spec

\* Without faults a record that was accepted gets its result: every waiting or running record
\* is completed, failed or deleted in the end, through crashes and restarts.
EveryRecordSettles ==
    \A r \in Records :
        status[r] \in {"waiting", "running"} ~> status[r] \in {"completed", "failed", "deleted"}

\* Every request in flight is answered: no transaction keeps a lock that another waits for.
EveryRequestAnswered == \A c \in Requests : rpc[c] # "idle" ~> rpc[c] = "idle"

(***************************************************************************)
(* The inductive invariant behind the safety properties.                   *)
(***************************************************************************)

TableInv ==
    \A r \in Records :
        /\ r >= nextId => status[r] = "absent"
        /\ status[r] # "absent" => owner[r] \in Users

\* What a worker holds at each of its steps; a row it has locked stays waiting.
WorkerInv ==
    \A w \in Workers :
        /\ wpc[w] \in ClaimPcs => wcap[w] \in Caps
        /\ wpc[w] \in {"lock", "recount", "claim"} => wrec[w] \in rowLocks[w]
        /\ wpc[w] \in JobPcs => wrec[w] \in Records
        /\ wpc[w] \in {"put", "store"} => wext[w] \in Extensions
        /\ \A r \in rowLocks[w] : status[r] = "waiting"
        /\ \A v \in Workers \ {w} : rowLocks[v] \cap rowLocks[w] = {}

\* What a request holds at each of its steps.
RequestInv ==
    \A c \in Requests :
        /\ rpc[c] \in CreatePcs \cup RetryPcs => ruser[c] \in Users /\ rlimit[c] \in Limits
        /\ rpc[c] \in RetryPcs \cup DeletePcs => rrec[c] \in Records /\ status[rrec[c]] # "absent"
        /\ rpc[c] \in RetryPcs => owner[rrec[c]] = ruser[c]
        /\ rpc[c] = "delete_object" => status[rrec[c]] = "deleted"

\* Who counts or writes for a user holds that user's advisory lock.
LockInv ==
    /\ \A w \in Workers : wpc[w] \in {"recount", "claim"} => advisory[owner[wrec[w]]] = w
    /\ \A c \in Requests :
          rpc[c] \in {"create_count", "create_insert", "retry_check", "retry_update"}
              => advisory[ruser[c]] = c

\* What was counted under the lock still holds when the row is written.
CountInv ==
    /\ \A w \in Workers :
          wpc[w] = "claim" => Cardinality(RunningOf(owner[wrec[w]])) < wcap[w]
    /\ \A c \in Requests :
          rpc[c] \in {"create_insert", "retry_update"}
              => Cardinality(UnfinishedOf(ruser[c])) < rlimit[c]

\* A finished upload is in the store as long as its record is there.
ImageInv ==
    \A w \in Workers :
        wpc[w] = "store" /\ status[wrec[w]] = "running" => <<wrec[w], wext[w]>> \in objects

\* Nothing of a process survives its end.
DownInv ==
    ~up => /\ \A w \in Workers : wpc[w] = "idle" /\ rowLocks[w] = {}
           /\ \A c \in Requests : rpc[c] = "idle"

\* Everything that the steps of the queue preserve together: locks, counts, jobs and images.
IndInv ==
    /\ TypeOK /\ TableInv /\ WorkerInv /\ RequestInv /\ LockInv /\ CountInv
    /\ RunningWithinCap /\ UnfinishedWithinLimit /\ ExclusiveJob
    /\ ImageInv /\ CompletedIsServable /\ DownInv
=============================================================================
