------------------------- MODULE RecordQueueProofs -------------------------
(***************************************************************************)
(* Proofs about RecordQueue, for every set of users, workers and requests, *)
(* every choice of settings and every value of the bounds.                 *)
(***************************************************************************)
EXTENDS RecordQueue, FiniteSetTheorems, TLAPS

USE DEF Records, NoRecord, tableVars, settingVars, lockVars, workerVars, requestVars, envVars

(***************************************************************************)
(* Types.                                                                  *)
(***************************************************************************)

\* The initial state has the types.
LEMMA TypeInit == Init => TypeOK
<1> SUFFICES ASSUME Init PROVE TypeOK
  OBVIOUS
<1> USE DEF Init
<1>1. TableType
  BY BoundsAssumption DEF TableType, Statuses, BoundsAssumption
<1>2. LockType
  BY DEF LockType
<1>3. WorkerType
  BY DEF WorkerType
<1>4. RequestType
  BY DEF RequestType
<1>5. EnvType
  <2>1. up \in BOOLEAN
    BY Zenon
  <2> QED
    BY <2>1, BoundsAssumption DEF EnvType, BoundsAssumption
<1> QED
  BY <1>1, <1>2, <1>3, <1>4, <1>5 DEF TypeOK

\* An advisory lock is only ever given to a worker, a request or nobody.
LEMMA ReleaseType ==
  ASSUME LockType, NEW p
  PROVE  ReleaseAdvisory(p) \in [Users -> Workers \cup Requests \cup {NoHolder}]
  BY DEF LockType, ReleaseAdvisory

\* Answering a request keeps the types of the requests and of the locks.
LEMMA AnswerType ==
  ASSUME LockType, RequestType, NEW c \in Requests, Answer(c)
  PROVE  LockType' /\ RequestType'
<1>1. LockType'
  BY ReleaseType DEF Answer, LockType
<1>2. RequestType'
  BY DEF Answer, RequestType
<1> QED
  BY <1>1, <1>2

\* A worker that goes idle keeps the types of the workers.
LEMMA WorkerIdleType ==
  ASSUME WorkerType, NEW w \in Workers, WorkerIdle(w)
  PROVE  WorkerType'
  BY DEF WorkerIdle, WorkerType

\* The end of a claim keeps the types of the locks.
LEMMA EndClaimType ==
  ASSUME LockType, NEW w \in Workers, EndClaim(w)
  PROVE  LockType'
  BY ReleaseType DEF EndClaim, LockType

\* One lemma per part of the state that an action leaves alone.
LEMMA Unchanged ==
  ASSUME TypeOK
  PROVE  /\ UNCHANGED tableVars => TableType'
         /\ UNCHANGED lockVars => LockType'
         /\ UNCHANGED workerVars => WorkerType'
         /\ UNCHANGED requestVars => RequestType'
         /\ UNCHANGED <<settingVars, envVars>> => EnvType'
         /\ UNCHANGED settingVars /\ (Fault \/ Issue) => EnvType'
  BY BoundsAssumption
  DEF BoundsAssumption, TypeOK, TableType, LockType, WorkerType, RequestType, EnvType, Fault, Issue

\* Every step keeps the types, action by action.
LEMMA TypeNext ==
  ASSUME TypeOK, TableInv, WorkerInv, RequestInv, [Next]_vars
  PROVE  TypeOK'
<1> USE Unchanged, AnswerType, WorkerIdleType, EndClaimType
    DEF TypeOK, ClaimPcs, JobPcs, CreatePcs, RetryPcs, DeletePcs
<1>1. CASE UNCHANGED vars
  BY <1>1 DEF vars
<1>2. ASSUME NEW w \in Workers, BeginClaim(w) PROVE TypeOK'
  BY <1>2 DEF BeginClaim, WorkerType, EnvType
<1>3. ASSUME NEW w \in Workers, ScanPick(w) PROVE TypeOK'
  BY <1>3 DEF ScanPick, Eligible, WorkerType, LockType
<1>4. ASSUME NEW w \in Workers, ScanEmpty(w) PROVE TypeOK'
  BY <1>4 DEF ScanEmpty
<1>5. ASSUME NEW w \in Workers, TryLock(w) PROVE TypeOK'
  BY <1>5 DEF TryLock, LockType, WorkerType
<1>6. ASSUME NEW w \in Workers, TryLockBusy(w) PROVE TypeOK'
  BY <1>6 DEF TryLockBusy, TableInv, WorkerInv, WorkerType, LockType
<1>7. ASSUME NEW w \in Workers, Recount(w) PROVE TypeOK'
  BY <1>7 DEF Recount, TableInv, WorkerInv, WorkerType, LockType
<1>8. ASSUME NEW w \in Workers, Claim(w) PROVE TypeOK'
  BY <1>8 DEF Claim, TableType, Statuses, WorkerType
<1>9. ASSUME NEW w \in Workers, Fetch(w) PROVE TypeOK'
  <2>1. WorkerType'
    BY <1>9 DEF Fetch, WorkerType
  <2> QED
    BY <1>9, <2>1 DEF Fetch
<1>10. ASSUME NEW w \in Workers, Generate(w) PROVE TypeOK'
  BY <1>10 DEF Generate, WorkerType
<1>11. ASSUME NEW w \in Workers, GenerateFails(w) PROVE TypeOK'
  BY <1>11 DEF GenerateFails, WorkerType
<1>12. ASSUME NEW w \in Workers, Put(w) PROVE TypeOK'
  BY <1>12 DEF Put, WorkerInv, WorkerType, TableType
<1>13. ASSUME NEW w \in Workers, Store(w) PROVE TypeOK'
  BY <1>13 DEF Store, WorkerType, TableType, Statuses
<1>14. ASSUME NEW w \in Workers, MarkFailed(w) PROVE TypeOK'
  BY <1>14 DEF MarkFailed, WorkerType, TableType, Statuses
<1>15. ASSUME NEW w \in Workers, ClaimError(w) PROVE TypeOK'
  BY <1>15 DEF ClaimError
<1>16. ASSUME NEW w \in Workers, PutFails(w) PROVE TypeOK'
  BY <1>16 DEF PutFails, WorkerType
<1>17. ASSUME NEW w \in Workers, JobError(w) PROVE TypeOK'
  BY <1>17 DEF JobError
<1>18. ASSUME NEW c \in Requests, NEW u \in Users, BeginCreate(c, u) PROVE TypeOK'
  BY <1>18 DEF BeginCreate, RequestType, EnvType
<1>19. ASSUME NEW c \in Requests, NEW r \in Records, BeginRetry(c, r) PROVE TypeOK'
  BY <1>19 DEF BeginRetry, RequestType, EnvType, TableType
<1>20. ASSUME NEW c \in Requests, NEW r \in Records, DeleteRead(c, r) PROVE TypeOK'
  BY <1>20 DEF DeleteRead, RequestType, TableType
<1>21. ASSUME NEW c \in Requests, AcquireLock(c) PROVE TypeOK'
  BY <1>21 DEF AcquireLock, RequestType, LockType
<1>22. ASSUME NEW c \in Requests, CreateCount(c) PROVE TypeOK'
  <2>1. LockType' /\ RequestType'
    BY <1>22 DEF CreateCount, RequestType
  <2> QED
    BY <1>22, <2>1 DEF CreateCount
<1>23. ASSUME NEW c \in Requests, CreateInsert(c) PROVE TypeOK'
  BY <1>23, BoundsAssumption DEF CreateInsert, TableType, RequestType, Statuses, BoundsAssumption
<1>24. ASSUME NEW c \in Requests, RetryCheck(c) PROVE TypeOK'
  <2>1. LockType' /\ RequestType'
    BY <1>24 DEF RetryCheck, RequestType
  <2> QED
    BY <1>24, <2>1 DEF RetryCheck
<1>25. ASSUME NEW c \in Requests, RetryUpdate(c) PROVE TypeOK'
  BY <1>25 DEF RetryUpdate, TableType, Statuses
<1>26. ASSUME NEW c \in Requests, DeleteRow(c) PROVE TypeOK'
  <2>1. LockType' /\ RequestType'
    BY <1>26 DEF DeleteRow, RequestType
  <2>2. TableType'
    BY <1>26 DEF DeleteRow, TableType, Statuses
  <2> QED
    BY <1>26, <2>1, <2>2 DEF DeleteRow
<1>27. ASSUME NEW c \in Requests, DeleteObject(c) PROVE TypeOK'
  BY <1>27 DEF DeleteObject, TableType
<1>28. ASSUME NEW c \in Requests, RequestError(c) PROVE TypeOK'
  BY <1>28 DEF RequestError
<1>29. CASE ChangeSettings
  BY <1>29 DEF ChangeSettings, EnvType
<1>30. CASE Boot
  <2>1. TableType'
    BY <1>30 DEF Boot, TableType, Statuses
  <2>2. EnvType'
    <3>1. up' \in BOOLEAN
      BY <1>30, Zenon DEF Boot
    <3>2. faults' \in 0..MaxFaults
      BY <1>30, BoundsAssumption DEF Boot, EnvType, BoundsAssumption
    <3> QED
      BY <1>30, <3>1, <3>2 DEF Boot, EnvType, settingVars
  <2> QED
    BY <1>30, <2>1, <2>2 DEF Boot
<1>31. CASE Crash
  <2>1. LockType'
    BY <1>31 DEF Crash, LockType
  <2>2. WorkerType'
    BY <1>31 DEF Crash, WorkerType
  <2>3. RequestType'
    BY <1>31 DEF Crash, RequestType
  <2>4. EnvType'
    <3>1. up' \in BOOLEAN
      BY <1>31, Zenon DEF Crash
    <3> QED
      BY <1>31, <3>1, BoundsAssumption DEF Crash, EnvType, BoundsAssumption
  <2> QED
    BY <1>31, <2>1, <2>2, <2>3, <2>4 DEF Crash
<1> QED
  BY <1>1, <1>2, <1>3, <1>4, <1>5, <1>6, <1>7, <1>8, <1>9, <1>10, <1>11, <1>12, <1>13, <1>14,
     <1>15, <1>16, <1>17, <1>18, <1>19, <1>20, <1>21, <1>22, <1>23, <1>24, <1>25, <1>26, <1>27,
     <1>28, <1>29, <1>30, <1>31
  DEF Next, WorkerStep, WorkerFault, NewRequest, RequestStep

(***************************************************************************)
(* Which actions touch which part of the state.                            *)
(***************************************************************************)

\* The rows of the table change in seven actions only.
LEMMA RowSteps ==
  ASSUME [Next]_vars
  PROVE  \/ UNCHANGED <<status, owner, imagePath, nextId>>
         \/ \E w \in Workers : Claim(w) \/ Store(w) \/ MarkFailed(w)
         \/ \E c \in Requests : CreateInsert(c) \/ RetryUpdate(c) \/ DeleteRow(c)
         \/ Boot
  BY DEF Next, vars, WorkerStep, WorkerFault, NewRequest, RequestStep, BeginClaim, ScanPick,
         ScanEmpty, TryLock, TryLockBusy, Recount, ClaimError, Fetch, Generate, GenerateFails, Put,
         PutFails, JobError, BeginCreate, BeginRetry, AcquireLock, CreateCount, RetryCheck,
         DeleteRead, DeleteObject, RequestError, ChangeSettings, Crash

\* A request leaves the workers and their row locks alone.
LEMMA RequestFrame ==
  ASSUME NEW c \in Requests, NewRequest(c) \/ RequestStep(c) \/ RequestError(c)
  PROVE  UNCHANGED <<wpc, wrec, wcap, wexcluded, wext, rowLocks>>
  BY DEF NewRequest, RequestStep, BeginCreate, BeginRetry, AcquireLock, CreateCount, CreateInsert,
         RetryCheck, RetryUpdate, DeleteRead, DeleteRow, DeleteObject, RequestError, Answer

\* A worker leaves the requests alone.
LEMMA WorkerFrame ==
  ASSUME NEW w \in Workers, WorkerStep(w) \/ WorkerFault(w)
  PROVE  UNCHANGED <<rpc, ruser, rrec, rlimit, rpath>>
  BY DEF WorkerStep, WorkerFault, BeginClaim, ScanPick, ScanEmpty, TryLock, TryLockBusy, Recount,
         Claim, ClaimError, Fetch, Generate, GenerateFails, Put, PutFails, Store, MarkFailed, JobError

(***************************************************************************)
(* The parts of the inductive invariant, one lemma each.                   *)
(***************************************************************************)

\* Ids are used in order, and a row that was inserted has an owner.
LEMMA TableNext ==
  ASSUME TypeOK, TableInv, RequestInv, [Next]_vars
  PROVE  TableInv'
<1> USE DEF TypeOK, TableType, TableInv, Exists
<1>1. CASE UNCHANGED <<status, owner, imagePath, nextId>>
  BY <1>1
<1>2. ASSUME NEW w \in Workers, Claim(w) PROVE TableInv'
  BY <1>2 DEF Claim, Claimable
<1>3. ASSUME NEW w \in Workers, Store(w) \/ MarkFailed(w) PROVE TableInv'
  BY <1>3 DEF Store, MarkFailed
<1>4. ASSUME NEW c \in Requests, CreateInsert(c) PROVE TableInv'
  BY <1>4, BoundsAssumption DEF CreateInsert, RequestInv, CreatePcs, BoundsAssumption
<1>5. ASSUME NEW c \in Requests, RetryUpdate(c) PROVE TableInv'
  BY <1>5 DEF RetryUpdate
<1>6. ASSUME NEW c \in Requests, DeleteRow(c) PROVE TableInv'
  BY <1>6 DEF DeleteRow, RequestInv, DeletePcs
<1>7. CASE Boot
  BY <1>7 DEF Boot
<1> QED
  BY <1>1, <1>2, <1>3, <1>4, <1>5, <1>6, <1>7, RowSteps

\* What a row's status and owner can do in one step, whoever takes it.
LEMMA RowMoves ==
  ASSUME TypeOK, TableInv, RequestInv, [Next]_vars, NEW r \in Records
  PROVE  /\ status[r] # "absent" => status'[r] # "absent" /\ owner'[r] = owner[r]
         /\ status[r] = "deleted" => status'[r] = "deleted"
<1> USE DEF TypeOK, TableType, TableInv, Exists
<1>1. CASE UNCHANGED <<status, owner, imagePath, nextId>>
  BY <1>1
<1>2. ASSUME NEW w \in Workers, Claim(w) \/ Store(w) \/ MarkFailed(w)
      PROVE  /\ status[r] # "absent" => status'[r] # "absent" /\ owner'[r] = owner[r]
             /\ status[r] = "deleted" => status'[r] = "deleted"
  BY <1>2 DEF Claim, Claimable, Store, MarkFailed
<1>3. ASSUME NEW c \in Requests, CreateInsert(c) \/ RetryUpdate(c) \/ DeleteRow(c)
      PROVE  /\ status[r] # "absent" => status'[r] # "absent" /\ owner'[r] = owner[r]
             /\ status[r] = "deleted" => status'[r] = "deleted"
  <2>1. CASE CreateInsert(c)
    <3>1. nextId \in Records /\ status[nextId] = "absent"
      BY <2>1, BoundsAssumption DEF CreateInsert, BoundsAssumption
    <3> QED
      BY <2>1, <3>1 DEF CreateInsert
  <2>2. CASE RetryUpdate(c)
    BY <2>2 DEF RetryUpdate
  <2>3. CASE DeleteRow(c)
    BY <2>3 DEF DeleteRow
  <2> QED
    BY <1>3, <2>1, <2>2, <2>3
<1>4. CASE Boot
  BY <1>4 DEF Boot
<1> QED
  BY <1>1, <1>2, <1>3, <1>4, RowSteps

\* A row that a claim has locked is changed by nobody but that claim.
LEMMA LockedRowStays ==
  ASSUME TypeOK, TableInv, WorkerInv, ExclusiveJob, [Next]_vars, NEW w \in Workers, ~Claim(w),
         NEW r \in rowLocks[w]
  PROVE  status'[r] = "waiting"
<1> USE DEF TypeOK, TableType, LockType, WorkerInv, Exists
<1>0. r \in Records /\ status[r] = "waiting"
  OBVIOUS
<1>1. CASE UNCHANGED <<status, owner, imagePath, nextId>>
  BY <1>0, <1>1
<1>2. ASSUME NEW v \in Workers, Claim(v) PROVE status'[r] = "waiting"
  <2>1. wrec[v] \in rowLocks[v] /\ v # w
    BY <1>2 DEF Claim
  <2>2. wrec[v] # r
    BY <2>1
  <2> QED
    BY <1>0, <1>2, <2>2 DEF Claim
<1>3. ASSUME NEW v \in Workers, Store(v) \/ MarkFailed(v) PROVE status'[r] = "waiting"
  <2>1. status[wrec[v]] \in {"running", "deleted"}
    BY <1>3 DEF Store, MarkFailed, ExclusiveJob, JobPcs
  <2>2. wrec[v] # r
    BY <1>0, <2>1
  <2> QED
    BY <1>0, <1>3, <2>2 DEF Store, MarkFailed
<1>4. ASSUME NEW c \in Requests, CreateInsert(c) \/ RetryUpdate(c) PROVE status'[r] = "waiting"
  <2>1. CASE CreateInsert(c)
    BY <1>0, <2>1 DEF CreateInsert
  <2>2. CASE RetryUpdate(c)
    BY <1>0, <2>2 DEF RetryUpdate
  <2> QED
    BY <1>4, <2>1, <2>2
<1>5. ASSUME NEW c \in Requests, DeleteRow(c) PROVE status'[r] = "waiting"
  BY <1>0, <1>5 DEF DeleteRow, RowLocked
<1>6. CASE Boot
  BY <1>0, <1>6 DEF Boot
<1> QED
  BY <1>1, <1>2, <1>3, <1>4, <1>5, <1>6, RowSteps

\* What a worker holds is kept by its own steps and by everybody else's.
LEMMA WorkerNext ==
  ASSUME TypeOK, TableInv, WorkerInv, RequestInv, ExclusiveJob, [Next]_vars
  PROVE  WorkerInv'
<1> USE DEF TypeOK, TableType, LockType, WorkerType, EnvType, WorkerInv, ClaimPcs, JobPcs
\* The rows locked before the step stay waiting, unless the step claims one and unlocks all.
<1>0. \A v \in Workers, r \in Records :
          r \in rowLocks[v] /\ ~Claim(v) => status'[r] = "waiting"
  BY LockedRowStays
<1> DEFINE Fields(v) ==
      /\ wpc[v] \in ClaimPcs => wcap[v] \in Caps
      /\ wpc[v] \in {"lock", "recount", "claim"} => wrec[v] \in rowLocks[v]
      /\ wpc[v] \in JobPcs => wrec[v] \in Records
      /\ wpc[v] \in {"put", "store"} => wext[v] \in Extensions
<1> DEFINE Rows(v) ==
      /\ \A r \in rowLocks[v] : status[r] = "waiting"
      /\ \A u \in Workers \ {v} : rowLocks[u] \cap rowLocks[v] = {}
<1>1. CASE UNCHANGED <<wpc, wrec, wcap, wext, rowLocks>>
  <2>1. \A v \in Workers : ~Claim(v)
    BY <1>1 DEF Claim
  <2> QED
    BY <1>0, <1>1, <2>1
<1>2. ASSUME NEW w \in Workers, BeginClaim(w) PROVE WorkerInv'
  BY <1>2 DEF BeginClaim
<1>3. ASSUME NEW w \in Workers, ScanPick(w) PROVE WorkerInv'
  BY <1>3 DEF ScanPick, Eligible, Claimable
<1>4. ASSUME NEW w \in Workers, ScanEmpty(w) \/ ClaimError(w) PROVE WorkerInv'
  <2>1. EndClaim(w) /\ WorkerIdle(w) /\ UNCHANGED tableVars
    BY <1>4 DEF ScanEmpty, ClaimError
  <2>2. \A v \in Workers : Fields(v)'
    BY <2>1 DEF EndClaim, WorkerIdle
  <2>3. \A v \in Workers : Rows(v)'
    BY <2>1 DEF EndClaim
  <2> QED
    BY <2>2, <2>3
<1>5. ASSUME NEW w \in Workers, TryLock(w) \/ TryLockBusy(w) \/ Recount(w) PROVE WorkerInv'
  <2>1. UNCHANGED <<wrec, wcap, wext, rowLocks>> /\ UNCHANGED tableVars
    BY <1>5 DEF TryLock, TryLockBusy, Recount
  <2>2. \A v \in Workers : Fields(v)'
    BY <1>5, <2>1 DEF TryLock, TryLockBusy, Recount
  <2>3. \A v \in Workers : Rows(v)'
    BY <2>1
  <2> QED
    BY <2>2, <2>3
<1>6. ASSUME NEW w \in Workers, Claim(w) PROVE WorkerInv'
  <2>1. \A v \in Workers \ {w} : \A r \in rowLocks'[v] : status'[r] = "waiting"
    BY <1>6 DEF Claim, EndClaim
  <2>2. rowLocks'[w] = {} /\ \A v \in Workers \ {w} : rowLocks'[v] = rowLocks[v]
    BY <1>6 DEF Claim, EndClaim
  <2>3. \A v \in Workers : Fields(v)'
    BY <1>6 DEF Claim, EndClaim
  <2> QED
    BY <2>1, <2>2, <2>3
<1>7. ASSUME NEW w \in Workers,
             Fetch(w) \/ Generate(w) \/ GenerateFails(w) \/ Put(w) \/ PutFails(w) \/ JobError(w)
      PROVE  WorkerInv'
  <2>1. rowLocks' = rowLocks /\ status' = status
    BY <1>7 DEF Fetch, Generate, GenerateFails, Put, PutFails, JobError
  <2>2. \A v \in Workers : Fields(v)'
    <3>1. CASE Fetch(w) \/ JobError(w)
      BY <3>1 DEF Fetch, JobError, WorkerIdle
    <3>2. CASE Generate(w) \/ GenerateFails(w) \/ Put(w) \/ PutFails(w)
      BY <3>2 DEF Generate, GenerateFails, Put, PutFails
    <3> QED
      BY <1>7, <3>1, <3>2
  <2>3. \A v \in Workers : Rows(v)'
    BY <2>1
  <2> QED
    BY <2>2, <2>3
<1>8. ASSUME NEW w \in Workers, Store(w) \/ MarkFailed(w) PROVE WorkerInv'
  <2>1. \A v \in Workers : ~Claim(v)
    BY <1>8 DEF Store, MarkFailed, Claim, WorkerIdle
  <2> QED
    BY <1>0, <1>8, <2>1 DEF Store, MarkFailed, WorkerIdle
<1>9. CASE Crash
  BY <1>9 DEF Crash
<1>10. ASSUME NEW c \in Requests, NewRequest(c) \/ RequestStep(c) \/ RequestError(c)
       PROVE  UNCHANGED <<wpc, wrec, wcap, wext, rowLocks>>
  BY <1>10, RequestFrame
<1>11. ASSUME Boot \/ ChangeSettings \/ UNCHANGED vars
       PROVE  UNCHANGED <<wpc, wrec, wcap, wext, rowLocks>>
  BY <1>11 DEF Boot, ChangeSettings, vars
<1> QED
  BY <1>1, <1>2, <1>3, <1>4, <1>5, <1>6, <1>7, <1>8, <1>9, <1>10, <1>11
  DEF Next, WorkerStep, WorkerFault

\* What a request holds is kept by its own steps and by everybody else's.
LEMMA RequestNext ==
  ASSUME TypeOK, TableInv, RequestInv, [Next]_vars
  PROVE  RequestInv'
<1> USE DEF TypeOK, TableType, RequestType, EnvType, RequestInv, CreatePcs, RetryPcs, DeletePcs, Exists
<1>0. \A r \in Records :
        /\ status[r] # "absent" => status'[r] # "absent" /\ owner'[r] = owner[r]
        /\ status[r] = "deleted" => status'[r] = "deleted"
  BY RowMoves
<1>1. CASE UNCHANGED <<rpc, ruser, rrec, rlimit>>
  BY <1>0, <1>1
<1>2. ASSUME NEW c \in Requests, NewRequest(c) PROVE RequestInv'
  <2>1. ASSUME NEW u \in Users, BeginCreate(c, u) PROVE RequestInv'
    BY <2>1 DEF BeginCreate
  <2>2. ASSUME NEW r \in Records, BeginRetry(c, r) PROVE RequestInv'
    BY <2>2 DEF BeginRetry, TableInv
  <2>3. ASSUME NEW r \in Records, DeleteRead(c, r) PROVE RequestInv'
    BY <2>3 DEF DeleteRead
  <2> QED
    BY <1>2, <2>1, <2>2, <2>3 DEF NewRequest
<1>3. ASSUME NEW c \in Requests, AcquireLock(c) PROVE RequestInv'
  BY <1>3 DEF AcquireLock
<1>4. ASSUME NEW c \in Requests, Answer(c) PROVE RequestInv'
  BY <1>0, <1>4 DEF Answer
<1>5. ASSUME NEW c \in Requests, CreateCount(c) PROVE RequestInv'
  BY <1>4, <1>5 DEF CreateCount
<1>6. ASSUME NEW c \in Requests, RetryCheck(c) PROVE RequestInv'
  BY <1>4, <1>6 DEF RetryCheck
<1>7. ASSUME NEW c \in Requests, DeleteRow(c) PROVE RequestInv'
  BY <1>0, <1>4, <1>7 DEF DeleteRow
<1>8. ASSUME NEW c \in Requests,
             CreateInsert(c) \/ RetryUpdate(c) \/ DeleteObject(c) \/ RequestError(c)
      PROVE  RequestInv'
  BY <1>4, <1>8 DEF CreateInsert, RetryUpdate, DeleteObject, RequestError
<1>9. CASE Crash
  BY <1>9 DEF Crash
<1>10. ASSUME NEW w \in Workers, WorkerStep(w) \/ WorkerFault(w)
       PROVE  UNCHANGED <<rpc, ruser, rrec, rlimit>>
  BY <1>10, WorkerFrame
<1>11. ASSUME Boot \/ ChangeSettings \/ UNCHANGED vars
       PROVE  UNCHANGED <<rpc, ruser, rrec, rlimit>>
  BY <1>11 DEF Boot, ChangeSettings, vars
<1> QED
  BY <1>1, <1>2, <1>3, <1>5, <1>6, <1>7, <1>8, <1>9, <1>10, <1>11 DEF Next, RequestStep

\* An advisory lock stays with its holder until the holder's transaction ends.
LEMMA LockNext ==
  ASSUME TypeOK, TableInv, WorkerInv, RequestInv, LockInv, [Next]_vars
  PROVE  LockInv'
<1> USE NamesAssumption DEF TypeOK, TableType, LockType, WorkerType, RequestType, LockInv, NamesAssumption
<1> DEFINE Counting == {"create_count", "create_insert", "retry_check", "retry_update"}
\* The users that matter to a lock holder keep their records.
<1>0. \A r \in Records : status[r] # "absent" => owner'[r] = owner[r] /\ owner[r] \in Users
  BY RowMoves DEF TableInv
<1>a. \A w \in Workers : wpc[w] \in {"lock", "recount", "claim"} =>
          /\ wrec[w] \in Records
          /\ owner[wrec[w]] \in Users /\ owner'[wrec[w]] = owner[wrec[w]]
  BY <1>0 DEF WorkerInv
<1>b. \A c \in Requests : rpc[c] \in CreatePcs \cup RetryPcs => ruser[c] \in Users
  BY DEF RequestInv
<1>1. CASE UNCHANGED <<wpc, wrec, rpc, ruser, advisory>>
  BY <1>1, <1>a
<1>2. ASSUME NEW w \in Workers, EndClaim(w), WorkerIdle(w), UNCHANGED <<owner, rpc, ruser>> PROVE LockInv'
  BY <1>2, <1>a, <1>b DEF EndClaim, WorkerIdle, ReleaseAdvisory, CreatePcs, RetryPcs
<1>3. ASSUME NEW w \in Workers, Claim(w) PROVE LockInv'
  BY <1>3, <1>a, <1>b DEF Claim, EndClaim, ReleaseAdvisory, CreatePcs, RetryPcs
<1>4. ASSUME NEW w \in Workers, TryLock(w) PROVE LockInv'
  BY <1>4, <1>a, <1>b DEF TryLock, CreatePcs, RetryPcs
<1>5. ASSUME NEW w \in Workers, TryLockBusy(w) \/ Recount(w) \/ BeginClaim(w) \/ ScanPick(w) PROVE LockInv'
  <2>1. CASE ScanPick(w)
    BY <2>1, <1>a DEF ScanPick
  <2>2. CASE TryLockBusy(w) \/ Recount(w) \/ BeginClaim(w)
    <3>1. UNCHANGED <<wrec, rpc, ruser, advisory>>
      BY <2>2 DEF TryLockBusy, Recount, BeginClaim
    <3>2. \A v \in Workers : wpc'[v] \in {"recount", "claim"} => wpc[v] \in {"recount", "claim"}
      BY <2>2 DEF TryLockBusy, Recount, BeginClaim
    <3> QED
      BY <3>1, <3>2, <1>a
  <2> QED
    BY <1>5, <2>1, <2>2
<1>6. ASSUME NEW w \in Workers,
             Fetch(w) \/ Generate(w) \/ GenerateFails(w) \/ Put(w) \/ PutFails(w)
                \/ Store(w) \/ MarkFailed(w) \/ JobError(w)
      PROVE  LockInv'
  BY <1>6, <1>a DEF Fetch, Generate, GenerateFails, Put, PutFails, Store, MarkFailed, JobError, WorkerIdle
<1>7. ASSUME NEW c \in Requests, Answer(c), UNCHANGED <<wpc, wrec>> PROVE LockInv'
  BY <1>7, <1>a, <1>b DEF Answer, ReleaseAdvisory, CreatePcs, RetryPcs
<1>8. ASSUME NEW c \in Requests, AcquireLock(c) PROVE LockInv'
  BY <1>8, <1>a, <1>b DEF AcquireLock, CreatePcs, RetryPcs
<1>9. ASSUME NEW c \in Requests, NewRequest(c) PROVE LockInv'
  BY <1>9, <1>a DEF NewRequest, BeginCreate, BeginRetry, DeleteRead
<1>10. ASSUME NEW c \in Requests, CreateCount(c) \/ RetryCheck(c) \/ DeleteRow(c) PROVE LockInv'
  BY <1>7, <1>10, <1>a DEF CreateCount, RetryCheck, DeleteRow
<1>11. ASSUME NEW c \in Requests,
              CreateInsert(c) \/ RetryUpdate(c) \/ DeleteObject(c) \/ RequestError(c)
       PROVE  LockInv'
  BY <1>7, <1>11 DEF CreateInsert, RetryUpdate, DeleteObject, RequestError
<1>12. CASE Crash
  BY <1>12 DEF Crash
<1>13. CASE Boot \/ ChangeSettings \/ UNCHANGED vars
  BY <1>1, <1>13 DEF Boot, ChangeSettings, vars
<1>14. ASSUME NEW w \in Workers, ScanEmpty(w) \/ ClaimError(w) PROVE LockInv'
  BY <1>2, <1>14 DEF ScanEmpty, ClaimError
<1> QED
  BY <1>3, <1>4, <1>5, <1>6, <1>8, <1>9, <1>10, <1>11, <1>12, <1>13, <1>14
  DEF Next, WorkerStep, WorkerFault, RequestStep

(***************************************************************************)
(* Counting.                                                               *)
(***************************************************************************)

\* Caps and limits are natural numbers.
LEMMA SettingsAreNat == \A n \in Caps \cup Limits : n \in Nat
<1>1. \A n \in Caps \cup Limits : n \in 1..16
  BY SettingsAssumption DEF SettingsAssumption
<1> QED
  BY <1>1

\* The sets that are counted are finite, so their cardinalities are natural numbers.
LEMMA CountsAreNat ==
  ASSUME NEW u
  PROVE  /\ IsFiniteSet(RunningOf(u)) /\ Cardinality(RunningOf(u)) \in Nat
         /\ IsFiniteSet(UnfinishedOf(u)) /\ Cardinality(UnfinishedOf(u)) \in Nat
<1>1. IsFiniteSet(Records)
  BY FS_Interval, BoundsAssumption DEF BoundsAssumption
<1>2. RunningOf(u) \in SUBSET Records /\ UnfinishedOf(u) \in SUBSET Records
  BY DEF RunningOf, UnfinishedOf
<1> QED
  BY <1>1, <1>2, FS_Subset, FS_CardinalityType

\* A set does not get larger by losing elements ...
LEMMA SmallerSet ==
  ASSUME NEW S, IsFiniteSet(S), NEW T, T \subseteq S
  PROVE  IsFiniteSet(T) /\ Cardinality(T) <= Cardinality(S)
  BY FS_Subset

\* ... and by at most one when one is added.
LEMMA OneMore ==
  ASSUME NEW S, IsFiniteSet(S), NEW x, NEW T, T \subseteq S \cup {x}
  PROVE  IsFiniteSet(T) /\ Cardinality(T) <= Cardinality(S) + 1
<1>1. Cardinality(S) \in Nat
  BY FS_CardinalityType
<1>2. /\ IsFiniteSet(S \cup {x})
      /\ Cardinality(S \cup {x}) = IF x \in S THEN Cardinality(S) ELSE Cardinality(S) + 1
  BY FS_AddElement
<1>3. IsFiniteSet(T) /\ Cardinality(T) <= Cardinality(S \cup {x})
  BY <1>2, FS_Subset
<1>4. Cardinality(T) \in Nat
  BY <1>3, FS_CardinalityType
<1> QED
  BY <1>1, <1>2, <1>3, <1>4

\* Only a claim adds to the running records of a user, and it adds the claimed record to those
\* of its own user.
LEMMA RunningMoves ==
  ASSUME TypeOK, TableInv, WorkerInv, RequestInv, ExclusiveJob, [Next]_vars, NEW u \in Users
  PROVE  \/ RunningOf(u)' \subseteq RunningOf(u)
         \/ \E w \in Workers : /\ Claim(w) /\ owner[wrec[w]] = u
                              /\ RunningOf(u)' \subseteq RunningOf(u) \cup {wrec[w]}
<1> USE DEF TypeOK, TableType, RunningOf, Exists
<1>0. \A r \in Records : status[r] # "absent" => owner'[r] = owner[r]
  BY RowMoves
<1>1. CASE UNCHANGED <<status, owner, imagePath, nextId>>
  BY <1>1
<1>2. ASSUME NEW w \in Workers, Claim(w)
      PROVE  \/ RunningOf(u)' \subseteq RunningOf(u)
             \/ /\ Claim(w) /\ owner[wrec[w]] = u
                /\ RunningOf(u)' \subseteq RunningOf(u) \cup {wrec[w]}
  <2>1. owner' = owner /\ status' = [status EXCEPT ![wrec[w]] = "running"]
    BY <1>2 DEF Claim
  <2>2. CASE owner[wrec[w]] = u
    BY <1>2, <2>1, <2>2
  <2>3. CASE owner[wrec[w]] # u
    BY <2>1, <2>3
  <2> QED
    BY <2>2, <2>3
<1>3. ASSUME NEW w \in Workers, Store(w) \/ MarkFailed(w) PROVE RunningOf(u)' \subseteq RunningOf(u)
  BY <1>3 DEF Store, MarkFailed
<1>4. ASSUME NEW c \in Requests, CreateInsert(c) PROVE RunningOf(u)' \subseteq RunningOf(u)
  BY <1>4 DEF CreateInsert
<1>5. ASSUME NEW c \in Requests, RetryUpdate(c) \/ DeleteRow(c) PROVE RunningOf(u)' \subseteq RunningOf(u)
  BY <1>5 DEF RetryUpdate, DeleteRow
<1>6. CASE Boot
  BY <1>6 DEF Boot
<1> QED
  BY <1>1, <1>2, <1>3, <1>4, <1>5, <1>6, RowSteps

\* Only an insert and a retry add to the unfinished records of a user: one record, and to those
\* of the user whose lock they hold.
LEMMA UnfinishedMoves ==
  ASSUME TypeOK, TableInv, WorkerInv, RequestInv, ExclusiveJob, [Next]_vars, NEW u \in Users
  PROVE  \/ UnfinishedOf(u)' \subseteq UnfinishedOf(u)
         \/ \E c \in Requests, r \in Records :
               /\ CreateInsert(c) \/ RetryUpdate(c)
               /\ ruser[c] = u
               /\ UnfinishedOf(u)' \subseteq UnfinishedOf(u) \cup {r}
<1> USE DEF TypeOK, TableType, UnfinishedOf, Exists
<1>1. CASE UNCHANGED <<status, owner, imagePath, nextId>>
  BY <1>1
<1>2. ASSUME NEW w \in Workers, Claim(w) PROVE UnfinishedOf(u)' \subseteq UnfinishedOf(u)
  BY <1>2 DEF Claim, Claimable
<1>3. ASSUME NEW w \in Workers, Store(w) \/ MarkFailed(w) PROVE UnfinishedOf(u)' \subseteq UnfinishedOf(u)
  BY <1>3 DEF Store, MarkFailed
<1>4. ASSUME NEW c \in Requests, CreateInsert(c)
      PROVE  \/ UnfinishedOf(u)' \subseteq UnfinishedOf(u)
             \/ ruser[c] = u /\ UnfinishedOf(u)' \subseteq UnfinishedOf(u) \cup {nextId}
  BY <1>4 DEF CreateInsert
<1>5. ASSUME NEW c \in Requests, RetryUpdate(c)
      PROVE  \/ UnfinishedOf(u)' \subseteq UnfinishedOf(u)
             \/ ruser[c] = u /\ UnfinishedOf(u)' \subseteq UnfinishedOf(u) \cup {rrec[c]}
  BY <1>5 DEF RetryUpdate, RequestInv, RetryPcs
<1>6. ASSUME NEW c \in Requests, DeleteRow(c) PROVE UnfinishedOf(u)' \subseteq UnfinishedOf(u)
  BY <1>6 DEF DeleteRow
<1>7. CASE Boot
  BY <1>7 DEF Boot
<1>8. ASSUME NEW c \in Requests
      PROVE  /\ CreateInsert(c) => nextId \in Records
             /\ RetryUpdate(c) => rrec[c] \in Records
  BY <1>8 DEF CreateInsert, RetryUpdate, RequestInv, RetryPcs
<1> QED
  BY <1>1, <1>2, <1>3, <1>4, <1>5, <1>6, <1>7, <1>8, RowSteps

\* A count taken under the advisory lock of a user is an upper bound as long as the lock is held:
\* whoever could raise it would need the same lock.
LEMMA WorkerCountNext ==
  ASSUME TypeOK, TableInv, WorkerInv, RequestInv, LockInv, CountInv, ExclusiveJob, [Next]_vars,
         NEW w \in Workers, wpc'[w] = "claim"
  PROVE  Cardinality(RunningOf(owner[wrec[w]]))' < wcap'[w]
<1> USE DEF TypeOK, TableType, LockType, WorkerType
<1>1. /\ wrec'[w] = wrec[w] /\ wcap'[w] = wcap[w] /\ wpc[w] \in {"recount", "claim"}
      /\ wpc[w] = "claim" \/ Recount(w)
      /\ ~Claim(w)
  <2>1. CASE UNCHANGED <<wpc, wrec, wcap>>
    BY <2>1 DEF Claim
  <2>2. ASSUME NEW v \in Workers, WorkerStep(v) \/ WorkerFault(v)
        PROVE  /\ wrec'[w] = wrec[w] /\ wcap'[w] = wcap[w] /\ wpc[w] \in {"recount", "claim"}
               /\ wpc[w] = "claim" \/ Recount(w)
               /\ ~Claim(w)
    BY <2>2 DEF WorkerStep, WorkerFault, BeginClaim, ScanPick, ScanEmpty, TryLock, TryLockBusy, Recount,
         Claim, ClaimError, Fetch, Generate, GenerateFails, Put, PutFails, Store, MarkFailed, JobError,
         WorkerIdle
  <2>3. CASE Crash
    BY <2>3 DEF Crash
  <2>4. CASE Boot \/ ChangeSettings \/ UNCHANGED vars
    BY <2>1, <2>4 DEF Boot, ChangeSettings, vars
  <2> QED
    BY <2>1, <2>2, <2>3, <2>4, RequestFrame DEF Next
<1>2. wrec[w] \in Records /\ owner[wrec[w]] \in Users /\ owner'[wrec[w]] = owner[wrec[w]]
  BY <1>1, RowMoves DEF WorkerInv, TableInv
<1>3. PICK u \in Users : u = owner[wrec[w]]
  BY <1>2
<1>4. advisory[u] = w /\ wcap[w] \in Nat
  <2>1. wcap[w] \in Caps
    BY <1>1 DEF WorkerInv, ClaimPcs
  <2> QED
    BY <1>1, <1>3, <2>1, SettingsAreNat DEF LockInv
<1>5. Cardinality(RunningOf(u)) < wcap[w]
  BY <1>1, <1>3 DEF CountInv, Recount
<1>6. RunningOf(u)' \subseteq RunningOf(u)
  <2>1. ASSUME NEW v \in Workers, Claim(v), owner[wrec[v]] = u PROVE FALSE
    BY <1>1, <1>4, <2>1 DEF Claim, LockInv
  <2> QED
    BY <2>1, RunningMoves
<1>7. Cardinality(RunningOf(u)') <= Cardinality(RunningOf(u)) /\ Cardinality(RunningOf(u)') \in Nat
  BY <1>6, CountsAreNat, SmallerSet, FS_CardinalityType
<1>8. Cardinality(RunningOf(owner[wrec[w]]))' = Cardinality(RunningOf(u)')
  BY <1>1, <1>2, <1>3 DEF RunningOf
<1>9. Cardinality(RunningOf(u)) \in Nat
  BY CountsAreNat
<1> QED
  BY <1>1, <1>4, <1>5, <1>7, <1>8, <1>9

\* The same for the unfinished records that a create or a retry has counted.
LEMMA RequestCountNext ==
  ASSUME TypeOK, TableInv, WorkerInv, RequestInv, LockInv, CountInv, ExclusiveJob, [Next]_vars,
         NEW c \in Requests, rpc'[c] \in {"create_insert", "retry_update"}
  PROVE  Cardinality(UnfinishedOf(ruser[c]))' < rlimit'[c]
<1> USE DEF TypeOK, TableType, LockType, RequestType
<1>1. /\ ruser'[c] = ruser[c] /\ rlimit'[c] = rlimit[c]
      /\ \/ rpc[c] \in {"create_insert", "retry_update"}
         \/ CreateCount(c) /\ ~QueueFull(c)
         \/ RetryCheck(c) /\ ~QueueFull(c)
      /\ ~CreateInsert(c) /\ ~RetryUpdate(c)
  <2>1. CASE UNCHANGED <<rpc, ruser, rlimit>>
    BY <2>1 DEF CreateInsert, RetryUpdate, Answer
  <2>2. ASSUME NEW d \in Requests, NewRequest(d) \/ RequestStep(d) \/ RequestError(d)
        PROVE  /\ ruser'[c] = ruser[c] /\ rlimit'[c] = rlimit[c]
               /\ \/ rpc[c] \in {"create_insert", "retry_update"}
                  \/ CreateCount(c) /\ ~QueueFull(c)
                  \/ RetryCheck(c) /\ ~QueueFull(c)
               /\ ~CreateInsert(c) /\ ~RetryUpdate(c)
    BY <2>2 DEF NewRequest, RequestStep, BeginCreate, BeginRetry, AcquireLock, CreateCount, CreateInsert,
         RetryCheck, RetryUpdate, DeleteRead, DeleteRow, DeleteObject, RequestError, Answer
  <2>3. CASE Crash
    BY <2>3 DEF Crash
  <2>4. CASE Boot \/ ChangeSettings \/ UNCHANGED vars
    BY <2>1, <2>4 DEF Boot, ChangeSettings, vars
  <2> QED
    BY <2>1, <2>2, <2>3, <2>4, WorkerFrame DEF Next
<1>2. /\ ruser[c] \in Users /\ rlimit[c] \in Limits /\ advisory[ruser[c]] = c
  BY <1>1 DEF RequestInv, LockInv, CreateCount, RetryCheck, CreatePcs, RetryPcs
<1>3. PICK u \in Users : u = ruser[c]
  BY <1>2
<1>4. rlimit[c] \in Nat
  BY <1>2, SettingsAreNat
<1>5. Cardinality(UnfinishedOf(u)) \in Nat
  BY CountsAreNat
<1>6. Cardinality(UnfinishedOf(u)) < rlimit[c]
  BY <1>1, <1>3, <1>4, <1>5 DEF CountInv, QueueFull
<1>7. UnfinishedOf(u)' \subseteq UnfinishedOf(u)
  <2>1. ASSUME NEW d \in Requests, CreateInsert(d) \/ RetryUpdate(d), ruser[d] = u PROVE FALSE
    BY <1>1, <1>2, <1>3, <2>1 DEF CreateInsert, RetryUpdate, LockInv
  <2> QED
    BY <2>1, UnfinishedMoves
<1>8. Cardinality(UnfinishedOf(u)') <= Cardinality(UnfinishedOf(u)) /\ Cardinality(UnfinishedOf(u)') \in Nat
  BY <1>7, CountsAreNat, SmallerSet, FS_CardinalityType
<1>9. Cardinality(UnfinishedOf(ruser[c]))' = Cardinality(UnfinishedOf(u)')
  BY <1>1, <1>3 DEF UnfinishedOf
<1> QED
  BY <1>1, <1>4, <1>5, <1>6, <1>8, <1>9

\* Both counts together.
LEMMA CountNext ==
  ASSUME TypeOK, TableInv, WorkerInv, RequestInv, LockInv, CountInv, ExclusiveJob, [Next]_vars
  PROVE  CountInv'
<1>1. ASSUME NEW w \in Workers, wpc'[w] = "claim"
      PROVE  Cardinality(RunningOf(owner[wrec[w]]))' < wcap'[w]
  BY <1>1, WorkerCountNext
<1>2. ASSUME NEW c \in Requests, rpc'[c] \in {"create_insert", "retry_update"}
      PROVE  Cardinality(UnfinishedOf(ruser[c]))' < rlimit'[c]
  BY <1>2, RequestCountNext
<1> QED
  BY <1>1, <1>2 DEF CountInv

\* The caps: what a claim adds was counted under the lock.
LEMMA CapNext ==
  ASSUME TypeOK, TableInv, WorkerInv, RequestInv, CountInv, ExclusiveJob, RunningWithinCap, [Next]_vars
  PROVE  RunningWithinCap'
<1> SUFFICES ASSUME NEW u \in Users PROVE \E n \in Caps : Cardinality(RunningOf(u)') <= n
  BY DEF RunningWithinCap
<1>1. IsFiniteSet(RunningOf(u)) /\ Cardinality(RunningOf(u)) \in Nat
  BY CountsAreNat
<1>2. Caps \subseteq Nat
  BY SettingsAreNat
<1>3. CASE RunningOf(u)' \subseteq RunningOf(u)
  <2>1. Cardinality(RunningOf(u)') <= Cardinality(RunningOf(u)) /\ Cardinality(RunningOf(u)') \in Nat
    BY <1>1, <1>3, SmallerSet, FS_CardinalityType
  <2> QED
    BY <1>1, <1>2, <2>1 DEF RunningWithinCap
<1>4. ASSUME NEW w \in Workers, Claim(w), owner[wrec[w]] = u,
             RunningOf(u)' \subseteq RunningOf(u) \cup {wrec[w]}
      PROVE  \E n \in Caps : Cardinality(RunningOf(u)') <= n
  <2>1. wpc[w] = "claim"
    BY <1>4 DEF Claim
  <2>2. wcap[w] \in Caps /\ Cardinality(RunningOf(u)) < wcap[w]
    BY <1>4, <2>1 DEF WorkerInv, CountInv, ClaimPcs
  <2>3. IsFiniteSet(RunningOf(u)') /\ Cardinality(RunningOf(u)') <= Cardinality(RunningOf(u)) + 1
    BY <1>1, <1>4, OneMore
  <2>4. Cardinality(RunningOf(u)') \in Nat
    BY <2>3, FS_CardinalityType
  <2>5. \A m \in Nat, k \in Nat, n \in Nat : m < n /\ k <= m + 1 => k <= n
    OBVIOUS
  <2> QED
    BY <1>1, <1>2, <2>2, <2>3, <2>4, <2>5
<1> QED
  BY <1>3, <1>4, RunningMoves

\* The limits: what an insert or a retry adds was counted under the lock.
LEMMA LimitNext ==
  ASSUME TypeOK, TableInv, WorkerInv, RequestInv, CountInv, ExclusiveJob, UnfinishedWithinLimit, [Next]_vars
  PROVE  UnfinishedWithinLimit'
<1> SUFFICES ASSUME NEW u \in Users PROVE \E n \in Limits : Cardinality(UnfinishedOf(u)') <= n
  BY DEF UnfinishedWithinLimit
<1>1. IsFiniteSet(UnfinishedOf(u)) /\ Cardinality(UnfinishedOf(u)) \in Nat
  BY CountsAreNat
<1>2. Limits \subseteq Nat
  BY SettingsAreNat
<1>3. CASE UnfinishedOf(u)' \subseteq UnfinishedOf(u)
  <2>1. Cardinality(UnfinishedOf(u)') <= Cardinality(UnfinishedOf(u)) /\ Cardinality(UnfinishedOf(u)') \in Nat
    BY <1>1, <1>3, SmallerSet, FS_CardinalityType
  <2> QED
    BY <1>1, <1>2, <2>1 DEF UnfinishedWithinLimit
<1>4. ASSUME NEW c \in Requests, NEW r \in Records, CreateInsert(c) \/ RetryUpdate(c), ruser[c] = u,
             UnfinishedOf(u)' \subseteq UnfinishedOf(u) \cup {r}
      PROVE  \E n \in Limits : Cardinality(UnfinishedOf(u)') <= n
  <2>1. rpc[c] \in {"create_insert", "retry_update"}
    BY <1>4 DEF CreateInsert, RetryUpdate
  <2>2. rlimit[c] \in Limits /\ Cardinality(UnfinishedOf(u)) < rlimit[c]
    BY <1>4, <2>1 DEF RequestInv, CountInv, CreatePcs, RetryPcs
  <2>3. IsFiniteSet(UnfinishedOf(u)') /\ Cardinality(UnfinishedOf(u)') <= Cardinality(UnfinishedOf(u)) + 1
    BY <1>1, <1>4, OneMore
  <2>4. Cardinality(UnfinishedOf(u)') \in Nat
    BY <2>3, FS_CardinalityType
  <2>5. \A m \in Nat, k \in Nat, n \in Nat : m < n /\ k <= m + 1 => k <= n
    OBVIOUS
  <2> QED
    BY <1>1, <1>2, <2>2, <2>3, <2>4, <2>5
<1> QED
  BY <1>3, <1>4, UnfinishedMoves

(***************************************************************************)
(* Jobs and images.                                                        *)
(***************************************************************************)

\* A worker keeps its job, drops it, or gets one by the claim of a waiting record.
LEMMA JobMoves ==
  ASSUME WorkerType, [Next]_vars, NEW w \in Workers, wpc'[w] \in JobPcs
  PROVE  /\ wrec'[w] = wrec[w]
         /\ wpc[w] \in JobPcs \/ Claim(w)
<1> USE DEF WorkerType, JobPcs
<1>1. CASE UNCHANGED <<wpc, wrec>>
  BY <1>1
<1>2. ASSUME NEW v \in Workers, WorkerStep(v) \/ WorkerFault(v)
      PROVE  wrec'[w] = wrec[w] /\ (wpc[w] \in JobPcs \/ Claim(w))
  BY <1>2 DEF WorkerStep, WorkerFault, BeginClaim, ScanPick, ScanEmpty, TryLock, TryLockBusy, Recount,
       Claim, ClaimError, Fetch, Generate, GenerateFails, Put, PutFails, Store, MarkFailed, JobError,
       WorkerIdle
<1>3. CASE Crash
  BY <1>3 DEF Crash
<1>4. CASE Boot \/ ChangeSettings \/ UNCHANGED vars
  BY <1>1, <1>4 DEF Boot, ChangeSettings, vars
<1> QED
  BY <1>1, <1>2, <1>3, <1>4, RequestFrame DEF Next

\* The row of a job stays running, or is deleted, until its own worker ends the job.
LEMMA JobRowStays ==
  ASSUME TypeOK, TableInv, WorkerInv, RequestInv, ExclusiveJob, DownInv, [Next]_vars,
         NEW w \in Workers, wpc[w] \in JobPcs, wpc'[w] \in JobPcs
  PROVE  status'[wrec[w]] \in {"running", "deleted"}
<1> USE DEF TypeOK, TableType, WorkerType
<1> DEFINE r == wrec[w]
<1>0. r \in Records /\ status[r] \in {"running", "deleted"}
  BY DEF WorkerInv, ExclusiveJob
<1>1. CASE UNCHANGED <<status, owner, imagePath, nextId>>
  BY <1>0, <1>1
<1>2. ASSUME NEW v \in Workers, Claim(v) PROVE status'[r] \in {"running", "deleted"}
  BY <1>0, <1>2 DEF Claim, Claimable
<1>3. ASSUME NEW v \in Workers, Store(v) \/ MarkFailed(v) PROVE status'[r] \in {"running", "deleted"}
  <2>1. v # w
    BY <1>3 DEF Store, MarkFailed, WorkerIdle, JobPcs
  <2>2. wrec[v] # r
    BY <1>3, <2>1 DEF Store, MarkFailed, ExclusiveJob, JobPcs
  <2> QED
    BY <1>0, <1>3, <2>2 DEF Store, MarkFailed
<1>4. ASSUME NEW c \in Requests, CreateInsert(c) PROVE status'[r] \in {"running", "deleted"}
  BY <1>0, <1>4 DEF CreateInsert, TableInv
<1>5. ASSUME NEW c \in Requests, RetryUpdate(c) \/ DeleteRow(c) PROVE status'[r] \in {"running", "deleted"}
  BY <1>0, <1>5 DEF RetryUpdate, DeleteRow
<1>6. CASE Boot
  BY <1>6 DEF Boot, DownInv, JobPcs
<1> QED
  BY <1>1, <1>2, <1>3, <1>4, <1>5, <1>6, RowSteps

\* No two workers have the same record, because only a waiting record is claimed.
LEMMA JobNext ==
  ASSUME TypeOK, TableInv, WorkerInv, RequestInv, ExclusiveJob, DownInv, [Next]_vars
  PROVE  ExclusiveJob'
<1> USE DEF TypeOK, TableType, WorkerType
<1>1. ASSUME NEW w \in Workers, wpc'[w] \in JobPcs
      PROVE  /\ wrec'[w] = wrec[w] /\ status'[wrec[w]] \in {"running", "deleted"}
             /\ \/ wpc[w] \in JobPcs
                \/ Claim(w)
  <2>1. wrec'[w] = wrec[w] /\ (wpc[w] \in JobPcs \/ Claim(w))
    BY <1>1, JobMoves
  <2>2. CASE wpc[w] \in JobPcs
    BY <1>1, <2>1, <2>2, JobRowStays
  <2>3. CASE Claim(w)
    <3>1. wrec[w] \in Records
      BY <2>3 DEF Claim, WorkerInv, LockType
    <3> QED
      BY <2>1, <2>3, <3>1 DEF Claim
  <2> QED
    BY <2>1, <2>2, <2>3
\* Two workers with one record: one of them would have claimed a record that was not waiting.
<1>2. ASSUME NEW v \in Workers, NEW w \in Workers, v # w, wpc'[v] \in JobPcs, wpc'[w] \in JobPcs
      PROVE  wrec'[v] # wrec'[w]
  <2>1. CASE wpc[v] \in JobPcs /\ wpc[w] \in JobPcs
    BY <1>1, <1>2, <2>1 DEF ExclusiveJob
  <2>2. ASSUME NEW x \in Workers, NEW y \in Workers, x # y, Claim(x), wpc[y] \in JobPcs
        PROVE  wrec[x] # wrec[y]
    BY <2>2 DEF Claim, Claimable, ExclusiveJob
  <2>3. ~(Claim(v) /\ Claim(w))
    BY <1>2 DEF Claim
  <2> QED
    BY <1>1, <1>2, <2>1, <2>2, <2>3
<1> QED
  BY <1>1, <1>2 DEF ExclusiveJob

\* Objects only go by DeleteObject, and only the one it names.
LEMMA ObjectMoves ==
  ASSUME [Next]_vars, NEW x \in objects, NEW r, r = x[1], \A c \in Requests : DeleteObject(c) => rrec[c] # r
  PROVE  x \in objects'
<1>1. CASE UNCHANGED objects
  BY <1>1
<1>2. ASSUME NEW w \in Workers, WorkerStep(w) \/ WorkerFault(w) PROVE x \in objects'
  BY <1>2 DEF WorkerStep, WorkerFault, BeginClaim, ScanPick, ScanEmpty, TryLock, TryLockBusy, Recount,
       Claim, ClaimError, Fetch, Generate, GenerateFails, Put, PutFails, Store, MarkFailed, JobError
<1>3. ASSUME NEW c \in Requests, DeleteObject(c) PROVE x \in objects'
  BY <1>3 DEF DeleteObject
<1>4. ASSUME NEW c \in Requests, ~DeleteObject(c), NewRequest(c) \/ RequestStep(c) \/ RequestError(c)
      PROVE  UNCHANGED objects
  BY <1>4 DEF NewRequest, RequestStep, BeginCreate, BeginRetry, AcquireLock, CreateCount, CreateInsert,
       RetryCheck, RetryUpdate, DeleteRead, DeleteRow, RequestError
<1>5. CASE Boot \/ ChangeSettings \/ Crash \/ UNCHANGED vars
  BY <1>5 DEF Boot, ChangeSettings, Crash, vars
<1> QED
  BY <1>1, <1>2, <1>3, <1>4, <1>5 DEF Next

\* An object that was put stays while its record is there.
LEMMA ImageNext ==
  ASSUME TypeOK, TableInv, WorkerInv, RequestInv, ExclusiveJob, DownInv, ImageInv, [Next]_vars
  PROVE  ImageInv'
<1> SUFFICES ASSUME NEW w \in Workers, wpc'[w] = "store", status'[wrec'[w]] = "running"
             PROVE  <<wrec'[w], wext'[w]>> \in objects'
  BY DEF ImageInv
<1> USE DEF TypeOK, TableType, WorkerType
<1>1. wrec'[w] = wrec[w] /\ wpc[w] \in JobPcs /\ wrec[w] \in Records
  BY JobMoves DEF JobPcs, Claim, WorkerInv
<1>2. status[wrec[w]] = "running"
  BY <1>1, RowMoves DEF ExclusiveJob
<1>3. CASE Put(w)
  BY <1>1, <1>3 DEF Put
<1>4. CASE ~Put(w)
  <2>1. wpc[w] = "store" /\ wext'[w] = wext[w]
    <3>1. ASSUME NEW v \in Workers, WorkerStep(v) \/ WorkerFault(v)
          PROVE  wpc[w] = "store" /\ wext'[w] = wext[w]
      BY <1>4, <3>1 DEF WorkerStep, WorkerFault, BeginClaim, ScanPick, ScanEmpty, TryLock, TryLockBusy,
         Recount, Claim, ClaimError, Fetch, Generate, GenerateFails, Put, PutFails, Store, MarkFailed,
         JobError, WorkerIdle
    <3>2. CASE Crash
      BY <3>2 DEF Crash
    <3>3. CASE Boot \/ ChangeSettings \/ UNCHANGED vars
      BY <3>3 DEF Boot, ChangeSettings, vars
    <3> QED
      BY <3>1, <3>2, <3>3, RequestFrame DEF Next
  <2>2. <<wrec[w], wext[w]>> \in objects
    BY <1>2, <2>1 DEF ImageInv
  <2>3. \A c \in Requests : DeleteObject(c) => rrec[c] # wrec[w]
    BY <1>2 DEF DeleteObject, RequestInv
  <2>4. <<wrec[w], wext[w]>> \in objects'
    BY <2>2, <2>3, ObjectMoves
  <2> QED
    BY <1>1, <2>1, <2>4
<1> QED
  BY <1>3, <1>4

\* A completed record keeps its path and its object.
LEMMA ServableNext ==
  ASSUME TypeOK, TableInv, WorkerInv, RequestInv, ExclusiveJob, ImageInv, CompletedIsServable, [Next]_vars
  PROVE  CompletedIsServable'
<1> USE DEF TypeOK, TableType, WorkerType, Exists
<1> SUFFICES ASSUME NEW r \in Records
             PROVE  /\ status'[r] = "completed" => <<r, imagePath'[r]>> \in objects'
                    /\ status'[r] # "completed" => imagePath'[r] = NoPath
  BY DEF CompletedIsServable
<1>1. CASE status[r] = "completed" /\ status'[r] = status[r] /\ imagePath'[r] = imagePath[r]
  <2>1. \A c \in Requests : DeleteObject(c) => rrec[c] # r
    BY <1>1 DEF DeleteObject, RequestInv
  <2> QED
    BY <1>1, <2>1, ObjectMoves DEF CompletedIsServable
<1>2. CASE status[r] # "completed" /\ status'[r] # "completed" /\ imagePath'[r] = imagePath[r]
  BY <1>2 DEF CompletedIsServable
<1>3. CASE UNCHANGED <<status, owner, imagePath, nextId>>
  BY <1>1, <1>2, <1>3
<1>4. ASSUME NEW w \in Workers, Claim(w)
      PROVE  /\ status'[r] = "completed" => <<r, imagePath'[r]>> \in objects'
             /\ status'[r] # "completed" => imagePath'[r] = NoPath
  BY <1>1, <1>2, <1>4 DEF Claim, Claimable
<1>5. ASSUME NEW w \in Workers, Store(w)
      PROVE  /\ status'[r] = "completed" => <<r, imagePath'[r]>> \in objects'
             /\ status'[r] # "completed" => imagePath'[r] = NoPath
  <2>1. status[wrec[w]] \in {"running", "deleted"} /\ wpc[w] = "store"
    BY <1>5 DEF Store, ExclusiveJob, JobPcs
  <2>2. CASE r = wrec[w]
    BY <1>2, <1>5, <2>1, <2>2 DEF Store, ImageInv
  <2>3. CASE r # wrec[w]
    BY <1>1, <1>2, <1>5, <2>3 DEF Store
  <2> QED
    BY <2>2, <2>3
<1>6. ASSUME NEW w \in Workers, MarkFailed(w)
      PROVE  /\ status'[r] = "completed" => <<r, imagePath'[r]>> \in objects'
             /\ status'[r] # "completed" => imagePath'[r] = NoPath
  <2>1. status[wrec[w]] \in {"running", "deleted"}
    BY <1>6 DEF MarkFailed, ExclusiveJob, JobPcs
  <2> QED
    BY <1>1, <1>2, <1>6, <2>1 DEF MarkFailed
<1>7. ASSUME NEW c \in Requests, CreateInsert(c) \/ RetryUpdate(c)
      PROVE  /\ status'[r] = "completed" => <<r, imagePath'[r]>> \in objects'
             /\ status'[r] # "completed" => imagePath'[r] = NoPath
  <2>1. CASE CreateInsert(c)
    BY <1>1, <1>2, <2>1 DEF CreateInsert, TableInv
  <2>2. CASE RetryUpdate(c)
    BY <1>1, <1>2, <2>2 DEF RetryUpdate, CompletedIsServable
  <2> QED
    BY <1>7, <2>1, <2>2
<1>8. ASSUME NEW c \in Requests, DeleteRow(c)
      PROVE  /\ status'[r] = "completed" => <<r, imagePath'[r]>> \in objects'
             /\ status'[r] # "completed" => imagePath'[r] = NoPath
  BY <1>1, <1>2, <1>8 DEF DeleteRow
<1>9. CASE Boot
  BY <1>1, <1>2, <1>9 DEF Boot
<1> QED
  BY <1>3, <1>4, <1>5, <1>6, <1>7, <1>8, <1>9, RowSteps

\* A worker that takes a step belongs to a live process.
LEMMA WorkerIsLive ==
  ASSUME DownInv, NEW w \in Workers, WorkerStep(w) \/ WorkerFault(w)
  PROVE  up /\ up' = up
  BY DEF DownInv, WorkerStep, WorkerFault, BeginClaim, ScanPick, ScanEmpty, TryLock, TryLockBusy,
       Recount, Claim, ClaimError, Fetch, Generate, GenerateFails, Put, PutFails, Store, MarkFailed,
       JobError, ClaimPcs, Fault

\* So does a request.
LEMMA RequestIsLive ==
  ASSUME DownInv, NEW c \in Requests, NewRequest(c) \/ RequestStep(c) \/ RequestError(c)
  PROVE  up /\ up' = up
  BY DEF DownInv, NewRequest, RequestStep, BeginCreate, BeginRetry, AcquireLock, CreateCount,
       CreateInsert, RetryCheck, RetryUpdate, DeleteRead, DeleteRow, DeleteObject, RequestError,
       Issue, Fault

\* Nothing starts in a process that is down.
LEMMA DownNext ==
  ASSUME TypeOK, DownInv, [Next]_vars
  PROVE  DownInv'
<1>1. CASE UNCHANGED <<up, wpc, rpc, rowLocks>>
  BY <1>1 DEF DownInv
<1>2. CASE Boot
  BY <1>2, Zenon DEF Boot, DownInv
<1>3. CASE Crash
  BY <1>3 DEF Crash, DownInv
<1>4. CASE up /\ up' = up
  BY <1>4 DEF DownInv
<1>5. CASE ChangeSettings \/ UNCHANGED vars
  BY <1>1, <1>5 DEF ChangeSettings, vars
<1> QED
  BY <1>2, <1>3, <1>4, <1>5, WorkerIsLive, RequestIsLive DEF Next

\* No running record loses its worker while nothing has failed: a worker that lets go of a record
\* leaves it finished or deleted, and a restart sweeps what a crash has left running.
LEMMA WorkedOnNext ==
  ASSUME TypeOK, TableInv, WorkerInv, RequestInv, ExclusiveJob, DownInv, RunningIsWorkedOn, [Next]_vars
  PROVE  RunningIsWorkedOn'
<1> USE DEF TypeOK, TableType, WorkerType, EnvType, JobPcs
<1> SUFFICES ASSUME up', faults' = 0, NEW r \in Records, status'[r] = "running"
             PROVE  \E w \in Workers : wpc'[w] \in JobPcs /\ wrec'[w] = r
  BY DEF RunningIsWorkedOn
<1>1. ASSUME up, faults = 0, status[r] = "running",
             \A w \in Workers : wpc[w] \in JobPcs /\ wrec[w] = r => wpc'[w] \in JobPcs /\ wrec'[w] = r
      PROVE  \E w \in Workers : wpc'[w] \in JobPcs /\ wrec'[w] = r
  BY <1>1 DEF RunningIsWorkedOn
<1>2. ASSUME NEW v \in Workers, WorkerStep(v) \/ WorkerFault(v)
      PROVE  \E w \in Workers : wpc'[w] \in JobPcs /\ wrec'[w] = r
  <2>1. up /\ faults = 0
    <3>1. up
      BY <1>2, WorkerIsLive
    <3>2. faults' = faults \/ faults' = faults + 1
      BY <1>2 DEF WorkerStep, WorkerFault, BeginClaim, ScanPick, ScanEmpty, TryLock, TryLockBusy, Recount,
         Claim, ClaimError, Fetch, Generate, GenerateFails, Put, PutFails, Store, MarkFailed, JobError, Fault
    <3> QED
      BY <3>1, <3>2
  <2>2. CASE Claim(v) /\ r = wrec[v]
    BY <2>2 DEF Claim
  <2>3. CASE Claim(v) /\ r # wrec[v]
    <3>1. status[r] = "running"
      BY <2>3 DEF Claim
    <3>2. \A w \in Workers : wpc[w] \in JobPcs => wpc'[w] = wpc[w] /\ wrec'[w] = wrec[w]
      BY <2>3 DEF Claim
    <3> QED
      BY <1>1, <2>1, <3>1, <3>2
  <2>4. CASE Store(v) \/ MarkFailed(v)
    <3>1. status[wrec[v]] \in {"running", "deleted"} /\ wrec[v] \in Records
      BY <2>4 DEF Store, MarkFailed, ExclusiveJob, WorkerInv
    <3>2. status'[wrec[v]] # "running"
      BY <2>4, <3>1 DEF Store, MarkFailed, Exists
    <3>3. status[r] = "running" /\ r # wrec[v]
      BY <2>4, <3>1, <3>2 DEF Store, MarkFailed
    <3>4. \A w \in Workers : w # v => wpc'[w] = wpc[w] /\ wrec'[w] = wrec[w]
      BY <2>4 DEF Store, MarkFailed, WorkerIdle
    <3> QED
      BY <1>1, <2>1, <3>3, <3>4
  <2>5. CASE Fetch(v)
    <3>1. status[r] = "running"
      BY <2>5 DEF Fetch
    <3>2. \A w \in Workers : wpc[w] \in JobPcs /\ wrec[w] = r => wpc'[w] \in JobPcs /\ wrec'[w] = r
      BY <2>5, <3>1 DEF Fetch, Exists, WorkerIdle
    <3> QED
      BY <1>1, <2>1, <3>1, <3>2
  <2>6. CASE Generate(v) \/ GenerateFails(v) \/ Put(v)
    <3>1. status[r] = "running"
      BY <2>6 DEF Generate, GenerateFails, Put
    <3>2. \A w \in Workers : wpc[w] \in JobPcs => wpc'[w] \in JobPcs /\ wrec'[w] = wrec[w]
      BY <2>6 DEF Generate, GenerateFails, Put
    <3> QED
      BY <1>1, <2>1, <3>1, <3>2
  <2>7. CASE BeginClaim(v) \/ ScanPick(v) \/ ScanEmpty(v) \/ TryLock(v) \/ TryLockBusy(v) \/ Recount(v)
    <3>1. status[r] = "running"
      BY <2>7 DEF BeginClaim, ScanPick, ScanEmpty, TryLock, TryLockBusy, Recount
    <3>2. \A w \in Workers : wpc[w] \in JobPcs => wpc'[w] = wpc[w] /\ wrec'[w] = wrec[w]
      BY <2>7 DEF BeginClaim, ScanPick, ScanEmpty, TryLock, TryLockBusy, Recount, WorkerIdle
    <3> QED
      BY <1>1, <2>1, <3>1, <3>2
\* A failed call is counted, and none has been.
  <2>8. ~WorkerFault(v)
    BY <2>1 DEF WorkerFault, ClaimError, PutFails, JobError, Fault
  <2> QED
    BY <1>2, <2>2, <2>3, <2>4, <2>5, <2>6, <2>7, <2>8 DEF WorkerStep
<1>3. ASSUME NEW c \in Requests, NewRequest(c) \/ RequestStep(c) \/ RequestError(c)
      PROVE  \E w \in Workers : wpc'[w] \in JobPcs /\ wrec'[w] = r
  <2>1. up /\ faults = 0
    <3>1. up
      BY <1>3, RequestIsLive
    <3>2. faults' = faults \/ faults' = faults + 1
      BY <1>3 DEF NewRequest, RequestStep, BeginCreate, BeginRetry, AcquireLock, CreateCount, CreateInsert,
         RetryCheck, RetryUpdate, DeleteRead, DeleteRow, DeleteObject, RequestError, Issue, Fault
    <3> QED
      BY <3>1, <3>2
  <2>2. status[r] = "running"
    BY <1>3, RowMoves DEF NewRequest, RequestStep, BeginCreate, BeginRetry, AcquireLock, CreateCount,
         CreateInsert, RetryCheck, RetryUpdate, DeleteRead, DeleteRow, DeleteObject, RequestError
  <2>3. UNCHANGED <<wpc, wrec>>
    BY <1>3, RequestFrame
  <2> QED
    BY <1>1, <2>1, <2>2, <2>3
<1>4. CASE ChangeSettings \/ UNCHANGED vars
  BY <1>1, <1>4 DEF ChangeSettings, vars
<1>5. CASE Boot
  <2>1. faults' = faults + 1 \/ status'[r] # "running"
    BY <1>5 DEF Boot
  <2> QED
    BY <2>1
<1>6. CASE Crash
  BY <1>6 DEF Crash
<1> QED
  BY <1>2, <1>3, <1>4, <1>5, <1>6 DEF Next

(***************************************************************************)
(* The theorems.                                                           *)
(***************************************************************************)

\* The initial state satisfies the inductive invariant.
LEMMA IndInvInit == Init => IndInv
<1> SUFFICES ASSUME Init PROVE IndInv
  OBVIOUS
<1>1. TypeOK
  BY TypeInit
<1>2. \A u \in Users : Cardinality(RunningOf(u)) = 0 /\ Cardinality(UnfinishedOf(u)) = 0
  <2>1. \A u \in Users : RunningOf(u) = {} /\ UnfinishedOf(u) = {}
    BY DEF Init, RunningOf, UnfinishedOf
  <2> QED
    BY <2>1, FS_EmptySet
<1>3. RunningWithinCap /\ UnfinishedWithinLimit
  <2>1. \A n \in Caps \cup Limits : 0 <= n
    BY SettingsAreNat
  <2> QED
    BY <1>2, <2>1, SettingsAssumption DEF RunningWithinCap, UnfinishedWithinLimit, SettingsAssumption
<1>4. TableInv /\ WorkerInv /\ RequestInv /\ LockInv /\ CountInv
  BY DEF Init, TableInv, WorkerInv, RequestInv, LockInv, CountInv, ClaimPcs, JobPcs, CreatePcs,
         RetryPcs, DeletePcs
<1>5. ExclusiveJob /\ ImageInv /\ CompletedIsServable /\ DownInv
  BY DEF Init, ExclusiveJob, ImageInv, CompletedIsServable, DownInv, JobPcs
<1> QED
  BY <1>1, <1>3, <1>4, <1>5 DEF IndInv

\* Every step preserves the inductive invariant, part by part.
LEMMA IndInvNext == IndInv /\ [Next]_vars => IndInv'
<1> SUFFICES ASSUME IndInv, [Next]_vars PROVE IndInv'
  OBVIOUS
<1>1. TypeOK' /\ TableInv' /\ WorkerInv' /\ RequestInv'
  BY TypeNext, TableNext, WorkerNext, RequestNext DEF IndInv
<1>2. LockInv' /\ CountInv' /\ RunningWithinCap' /\ UnfinishedWithinLimit'
  BY LockNext, CountNext, CapNext, LimitNext DEF IndInv
<1>3. ExclusiveJob' /\ ImageInv' /\ CompletedIsServable' /\ DownInv'
  BY JobNext, ImageNext, ServableNext, DownNext DEF IndInv
<1> QED
  BY <1>1, <1>2, <1>3 DEF IndInv

\* The inductive invariant holds in every reachable state.
THEOREM QueueInvariant == Spec => []IndInv
  BY IndInvInit, IndInvNext, PTL DEF Spec

\* Every variable of the queue always has its type.
THEOREM TypeCorrect == Spec => []TypeOK
  BY QueueInvariant, PTL DEF IndInv

\* A user never has more running records than a cap the admin may have set.
THEOREM CapTheorem == Spec => []RunningWithinCap
  BY QueueInvariant, PTL DEF IndInv

\* A user never has more unfinished records than a limit the admin may have set.
THEOREM LimitTheorem == Spec => []UnfinishedWithinLimit
  BY QueueInvariant, PTL DEF IndInv

\* No two workers have the same record, and theirs is running until they end it or it is deleted.
THEOREM JobTheorem == Spec => []ExclusiveJob
  BY QueueInvariant, PTL DEF IndInv

\* While nothing has failed, no running record of a live process is without its worker.
THEOREM WorkedOnTheorem == Spec => []RunningIsWorkedOn
<1>1. Init => RunningIsWorkedOn
  BY DEF Init, RunningIsWorkedOn
<1>2. IndInv /\ RunningIsWorkedOn /\ [Next]_vars => RunningIsWorkedOn'
  BY WorkedOnNext DEF IndInv
<1> QED
  BY <1>1, <1>2, QueueInvariant, PTL DEF Spec

\* The image of a completed record is in the store.
THEOREM ServableTheorem == Spec => []CompletedIsServable
  BY QueueInvariant, PTL DEF IndInv

(***************************************************************************)
(* Refinement and action properties.                                       *)
(***************************************************************************)

\* The counts of the abstract queue are those of the model.
LEMMA SameCounts ==
  ASSUME NEW u
  PROVE  Queue!Having(u, {"running"}) = RunningOf(u) /\ Queue!Having(u, {"waiting", "running"}) = UnfinishedOf(u)
  BY DEF Queue!Having, RunningOf, UnfinishedOf

\* The Cardinality of the instance is the one of FiniteSets.
LEMMA SameCardinality == ASSUME NEW S PROVE Queue!Cardinality(S) = Cardinality(S)
  BY Zenon DEF Queue!Cardinality, Cardinality

\* Each step of the queue is an abstract step or a stutter.
LEMMA QueueStep == IndInv /\ [Next]_vars => [Queue!Next]_Queue!vars
<1> SUFFICES ASSUME IndInv, [Next]_vars PROVE [Queue!Next]_Queue!vars
  OBVIOUS
<1> USE DEF IndInv, TypeOK, TableType, WorkerType
<1>1. CASE UNCHANGED <<status, owner, imagePath, nextId>>
  BY <1>1 DEF Queue!vars
<1>2. ASSUME NEW w \in Workers, Claim(w) PROVE Queue!Next
  <2>1. wrec[w] \in Records /\ wcap[w] \in Caps /\ Cardinality(RunningOf(owner[wrec[w]])) < wcap[w]
    BY <1>2 DEF Claim, WorkerInv, CountInv, ClaimPcs, LockType
  <2>2. Queue!BelowCap(owner[wrec[w]])
    BY <2>1, SameCounts, SameCardinality DEF Queue!BelowCap
  <2>3. Queue!Start(wrec[w])
    BY <1>2, <2>2 DEF Claim, Claimable, Queue!Start, Queue!Become
  <2> QED
    BY <2>1, <2>3 DEF Queue!Next
<1>3. ASSUME NEW w \in Workers, Store(w) \/ MarkFailed(w) PROVE [Queue!Next]_Queue!vars
  <2>1. wrec[w] \in Records /\ status[wrec[w]] \in {"running", "deleted"} /\ owner' = owner
    BY <1>3 DEF Store, MarkFailed, WorkerInv, ExclusiveJob, JobPcs
  <2>2. CASE status[wrec[w]] = "deleted"
    <3>1. status' = [status EXCEPT ![wrec[w]] = status[wrec[w]]]
      BY <1>3, <2>2 DEF Store, MarkFailed, Exists
    <3>2. status' = status
      BY <3>1
    <3> QED
      BY <2>1, <3>2 DEF Queue!vars
  <2>3. CASE status[wrec[w]] = "running"
    <3>1. Queue!Finish(wrec[w])
      BY <1>3, <2>1, <2>3 DEF Store, MarkFailed, Exists, Queue!Finish, Queue!Become
    <3> QED
      BY <2>1, <3>1 DEF Queue!Next
  <2> QED
    BY <2>1, <2>2, <2>3
<1>4. ASSUME NEW c \in Requests, CreateInsert(c) PROVE Queue!Next
  <2>1. ruser[c] \in Users /\ rlimit[c] \in Limits /\ Cardinality(UnfinishedOf(ruser[c])) < rlimit[c]
    BY <1>4 DEF CreateInsert, RequestInv, CountInv, CreatePcs
  <2>2. Queue!BelowLimit(ruser[c])
    BY <2>1, SameCounts, SameCardinality DEF Queue!BelowLimit
  <2>3. nextId \in Records /\ status[nextId] = "absent"
    BY <1>4 DEF CreateInsert, TableInv
  <2>4. Queue!Admit(nextId, ruser[c])
    BY <1>4, <2>2, <2>3 DEF CreateInsert, Queue!Admit
  <2> QED
    BY <2>1, <2>3, <2>4 DEF Queue!Next
<1>5. ASSUME NEW c \in Requests, RetryUpdate(c) PROVE [Queue!Next]_Queue!vars
  <2>1. /\ rrec[c] \in Records /\ owner[rrec[c]] = ruser[c] /\ owner' = owner
        /\ rlimit[c] \in Limits /\ Cardinality(UnfinishedOf(ruser[c])) < rlimit[c]
    BY <1>5 DEF RetryUpdate, RequestInv, CountInv, RetryPcs
  <2>2. CASE status[rrec[c]] # "failed"
    BY <1>5, <2>1, <2>2 DEF RetryUpdate, Queue!vars
  <2>3. CASE status[rrec[c]] = "failed"
    <3>1. Queue!BelowLimit(owner[rrec[c]])
      BY <2>1, SameCounts, SameCardinality DEF Queue!BelowLimit
    <3>2. Queue!Retry(rrec[c])
      BY <1>5, <2>1, <2>3, <3>1 DEF RetryUpdate, Queue!Retry, Queue!Become
    <3> QED
      BY <2>1, <3>2 DEF Queue!Next
  <2> QED
    BY <2>2, <2>3
<1>6. ASSUME NEW c \in Requests, DeleteRow(c) PROVE Queue!Next
  <2>1. rrec[c] \in Records /\ status[rrec[c]] # "absent"
    BY <1>6 DEF DeleteRow, RequestInv, DeletePcs
  <2>2. Queue!Remove(rrec[c])
    BY <1>6, <2>1 DEF DeleteRow, Queue!Remove, Queue!Become
  <2> QED
    BY <2>1, <2>2 DEF Queue!Next
<1>7. CASE Boot
  <2>1. CASE UNCHANGED status
    BY <1>7, <2>1 DEF Boot, Queue!vars
  <2>2. CASE status' = [r \in Records |-> IF status[r] = "running" THEN "waiting" ELSE status[r]]
    BY <1>7, <2>2 DEF Boot, Queue!Restart, Queue!Next
  <2> QED
    BY <1>7, <2>1, <2>2 DEF Boot
<1> QED
  BY <1>1, <1>2, <1>3, <1>4, <1>5, <1>6, <1>7, RowSteps

\* The queue implements GenerationQueue.
THEOREM RefinementTheorem == Spec => ImplementsQueue
<1>1. Init => Queue!Init
  BY DEF Init, Queue!Init
<1> QED
  BY <1>1, QueueStep, QueueInvariant, PTL DEF Spec, ImplementsQueue, Queue!Spec

\* A claim keeps its user within the cap that its worker read.
THEOREM ClaimTheorem == Spec => ClaimWithinCapRead
<1>1. ASSUME IndInv, [Next]_vars, NEW w \in Workers, NEW u \in Users,
             wpc[w] = "claim", wpc'[w] = "fetch", u = owner[wrec[w]]
      PROVE  Cardinality(RunningOf(u))' <= wcap[w]
  <2> USE <1>1 DEF IndInv, TypeOK
  <2>1. wcap[w] \in Nat /\ Cardinality(RunningOf(u)) < wcap[w]
    BY SettingsAreNat DEF WorkerInv, CountInv, ClaimPcs
  <2>2. IsFiniteSet(RunningOf(u)) /\ Cardinality(RunningOf(u)) \in Nat
    BY CountsAreNat
  <2>3. PICK x : RunningOf(u)' \subseteq RunningOf(u) \cup {x}
    BY RunningMoves
  <2>4. IsFiniteSet(RunningOf(u)') /\ Cardinality(RunningOf(u)') <= Cardinality(RunningOf(u)) + 1
    BY <2>2, <2>3, OneMore
  <2>5. Cardinality(RunningOf(u)') \in Nat
    BY <2>4, FS_CardinalityType
  <2>6. Cardinality(RunningOf(u))' = Cardinality(RunningOf(u)')
    OBVIOUS
  <2> HIDE <1>1 DEF IndInv, TypeOK
  <2> QED
    BY <2>1, <2>2, <2>4, <2>5, <2>6
<1>2. IndInv /\ [Next]_vars =>
        [\A w \in Workers, u \in Users :
            wpc[w] = "claim" /\ wpc'[w] = "fetch" /\ u = owner[wrec[w]]
                => Cardinality(RunningOf(u))' <= wcap[w]]_vars
  BY <1>1
<1> QED
  BY <1>2, QueueInvariant, PTL DEF Spec, ClaimWithinCapRead

\* A create or a retry keeps its user within the limit that its request read.
THEOREM AdmitTheorem == Spec => AdmitWithinLimitRead
<1>1. ASSUME IndInv, [Next]_vars, NEW c \in Requests, NEW u \in Users,
             rpc[c] \in {"create_insert", "retry_update"}, u = ruser[c]
      PROVE  Cardinality(UnfinishedOf(u))' <= rlimit[c]
  <2> USE <1>1 DEF IndInv, TypeOK
  <2>1. rlimit[c] \in Nat /\ Cardinality(UnfinishedOf(u)) < rlimit[c]
    BY SettingsAreNat DEF RequestInv, CountInv, CreatePcs, RetryPcs
  <2>2. IsFiniteSet(UnfinishedOf(u)) /\ Cardinality(UnfinishedOf(u)) \in Nat
    BY CountsAreNat
  <2>3. PICK x : UnfinishedOf(u)' \subseteq UnfinishedOf(u) \cup {x}
    BY UnfinishedMoves
  <2>4. IsFiniteSet(UnfinishedOf(u)') /\ Cardinality(UnfinishedOf(u)') <= Cardinality(UnfinishedOf(u)) + 1
    BY <2>2, <2>3, OneMore
  <2>5. Cardinality(UnfinishedOf(u)') \in Nat
    BY <2>4, FS_CardinalityType
  <2>6. Cardinality(UnfinishedOf(u))' = Cardinality(UnfinishedOf(u)')
    OBVIOUS
  <2> HIDE <1>1 DEF IndInv, TypeOK
  <2> QED
    BY <2>1, <2>2, <2>4, <2>5, <2>6
<1>2. IndInv /\ [Next]_vars =>
        [\A c \in Requests, u \in Users :
            rpc[c] \in {"create_insert", "retry_update"} /\ rpc'[c] = "idle" /\ u = ruser[c] /\ status' # status
                => Cardinality(UnfinishedOf(u))' <= rlimit[c]]_vars
  BY <1>1
<1> QED
  BY <1>2, QueueInvariant, PTL DEF Spec, AdmitWithinLimitRead
=============================================================================
