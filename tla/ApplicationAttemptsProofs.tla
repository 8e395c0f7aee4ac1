---------------------- MODULE ApplicationAttemptsProofs ----------------------
(***************************************************************************)
(* Proofs about ApplicationAttempts, for any number of requests, users and *)
(* jobs, any lease and any bound of the clock.                             *)
(***************************************************************************)
EXTENDS ApplicationAttempts, TLAPS

\* What is left of Step(r) when the rows of the table do not change.
Quiet(r) ==
  \/ ReceiveRequest(r) \/ RejectInvalid(r) \/ RejectUnknownUser(r) \/ AcquireAdvisoryLock(r)
  \/ SelectActive(r) \/ RefuseSucceeded(r) \/ RefuseInProgress(r)
  \/ ReserveConflict(r) \/ OperationSubmits(r) \/ OperationReturns(r)
  \/ LockOwnRow(r) \/ OwnRowMissing(r) \/ SaveRejected(r) \/ Crash(r)

\* What a DELETE does before its commit: it takes locks, or gives them back.
MovesLocks(u) ==
  StartDelete(u) \/ (\E q \in Requests : EraseAttempt(u, q)) \/ AbortDelete(u)

LEMMA MovesLocksFrame ==
  ASSUME NEW u \in Users, MovesLocks(u)
  PROVE  UNCHANGED <<identity, accounts, rows, memory, submitted, pc, reply, clock>>
BY DEF MovesLocks, StartDelete, EraseAttempt, AbortDelete

\* Type correctness: every variable keeps its type, in particular every number is a Nat.
THEOREM TypeCorrect == Spec => []TypeOK
<1>1. Init => TypeOK
  BY DEF Init, TypeOK, Phases
<1>2. TypeOK /\ [Next]_vars => TypeOK'
  <2> SUFFICES ASSUME TypeOK, [Next]_vars PROVE TypeOK'
    OBVIOUS
  <2> USE DEF TypeOK, Phases, userTable, rows, memory, Goto, End, Answer
  <2>1. ASSUME NEW r \in Requests, Quiet(r) PROVE TypeOK'
    <3>1. CASE ReceiveRequest(r) BY <3>1 DEF ReceiveRequest
    <3>2. CASE RejectUnknownUser(r) BY <3>2 DEF RejectUnknownUser
    <3>3. CASE AcquireAdvisoryLock(r) BY <3>3 DEF AcquireAdvisoryLock
    <3>4. CASE SelectActive(r) BY <3>4 DEF SelectActive
    <3>5. CASE RefuseSucceeded(r) BY <3>5 DEF RefuseSucceeded
    <3>6. CASE RefuseInProgress(r) BY <3>6 DEF RefuseInProgress
    <3>7. CASE ReserveConflict(r) BY <3>7 DEF ReserveConflict
    <3>8. CASE OperationSubmits(r) BY <3>8 DEF OperationSubmits
    <3>9. CASE OperationReturns(r) BY <3>9 DEF OperationReturns
    <3>10. CASE LockOwnRow(r) BY <3>10 DEF LockOwnRow
    <3>11. CASE OwnRowMissing(r) BY <3>11 DEF OwnRowMissing
    <3>12. CASE SaveRejected(r) BY <3>12 DEF SaveRejected
    <3>13. CASE Crash(r) BY <3>13 DEF Crash
    <3>14. CASE RejectInvalid(r) BY <3>14 DEF RejectInvalid
    <3> QED BY <2>1, <3>1, <3>2, <3>3, <3>4, <3>5, <3>6, <3>7, <3>8, <3>9,
               <3>10, <3>11, <3>12, <3>13, <3>14 DEF Quiet
  <2>2. ASSUME NEW r \in Requests, ReserveFresh(r) \/ TakeOver(r) PROVE TypeOK'
    <3>1. CandidateNumbers(r) \subseteq Nat
      BY DEF CandidateNumbers
    <3>2. stamp[r] + Lease \in Nat
      BY LeaseAssumption
    <3>3. InsertRow(r)
      BY <2>2 DEF ReserveFresh, TakeOver
    <3>4. number' \in [Requests -> Nat] /\ lease' \in [Requests -> Nat]
      BY <3>1, <3>2, <3>3 DEF InsertRow
    <3>5. status' \in [Requests -> {"none", "in_progress", "succeeded", "failed"}]
          /\ error' \in [Requests -> {"none", "lease_expired", "operation"}]
      BY <2>2 DEF ReserveFresh, TakeOver
    <3> QED BY <3>3, <3>4, <3>5 DEF InsertRow
  <2>3. ASSUME NEW r \in Requests, SaveSuccess(r) PROVE TypeOK'
    BY <2>3 DEF SaveSuccess
  <2>4. ASSUME NEW r \in Requests, SaveFailure(r) PROVE TypeOK'
    BY <2>4 DEF SaveFailure
  <2>5. ASSUME NEW u \in Users, CommitDelete(u) \/ MovesLocks(u) PROVE TypeOK'
    <3>1. CASE CommitDelete(u) BY <3>1 DEF CommitDelete
    <3>2. CASE StartDelete(u) BY <3>2 DEF StartDelete
    <3>3. CASE \E q \in Requests : EraseAttempt(u, q) BY <3>3 DEF EraseAttempt
    <3>4. CASE AbortDelete(u) BY <3>4 DEF AbortDelete
    <3> QED BY <2>5, <3>1, <3>2, <3>3, <3>4 DEF MovesLocks
  <2>6. CASE Tick
    BY <2>6 DEF Tick
  <2>7. CASE UNCHANGED vars
    BY <2>7 DEF vars
  <2> QED BY <2>1, <2>2, <2>3, <2>4, <2>5, <2>6, <2>7 DEF Next, Step, Cascade, Quiet, MovesLocks
<1> QED BY <1>1, <1>2, PTL DEF Spec
-----------------------------------------------------------------------------
(* The inductive invariant.                                                *)

LEMMA InvariantInitially == Init => AttemptsInvariant
BY NoRequestAssumption
   DEF Init, AttemptsInvariant, RowsComeFromInserts, AdvisoryLockExclusive, FoundRowIsLocked,
       WorkerHasRowOrLostLease, OneActiveRow, ReservationsSerialised,
       AttemptsNumberedInSequence, AppliedIsDurable, HoldsAdvisoryLock, Working, Active,
       RowExists, ErasedRowsAreLocked

\* What a deletion has erased stays locked by it until it ends.
LEMMA ErasedRowsStayLocked ==
  ASSUME TypeOK, TypeOK', AttemptsInvariant, [Next]_vars
  PROVE  ErasedRowsAreLocked'
<1> USE NoRequestAssumption
    DEF TypeOK, Phases, rows, memory, userTable, Goto, End, Answer, RowExists,
        LockedByCompletion, LockedByReservation, Deleting, UserOf, ErasedRowsAreLocked
<1>0. ErasedRowsAreLocked
  BY DEF AttemptsInvariant
<1>1. ASSUME NEW r \in Requests, Quiet(r) PROVE ErasedRowsAreLocked'
  <2>1. CASE SelectActive(r) BY <1>0, <2>1 DEF SelectActive
  <2>2. CASE LockOwnRow(r) BY <1>0, <2>2 DEF LockOwnRow
  <2>3. CASE ReceiveRequest(r) \/ AcquireAdvisoryLock(r) \/ OperationSubmits(r) \/ OperationReturns(r)
    BY <1>0, <2>3 DEF ReceiveRequest, AcquireAdvisoryLock, OperationSubmits, OperationReturns
  <2>4. CASE RejectInvalid(r) \/ RejectUnknownUser(r) \/ RefuseSucceeded(r) \/ RefuseInProgress(r)
             \/ ReserveConflict(r) \/ OwnRowMissing(r) \/ SaveRejected(r) \/ Crash(r)
    <3>1. /\ UNCHANGED <<identity, userTable, rows>>
          /\ \A q \in Requests : pc'[q] \in {"saving", "deciding"} => pc'[q] = pc[q]
          /\ \A q \in Requests : found'[q] \in {found[q], NoRequest}
      BY <2>4 DEF RejectInvalid, RejectUnknownUser, RefuseSucceeded, RefuseInProgress,
                  ReserveConflict, OwnRowMissing, SaveRejected, Crash
    <3> QED BY <1>0, <3>1
  <2> QED BY <1>1, <2>1, <2>2, <2>3, <2>4 DEF Quiet
<1>2. ASSUME NEW r \in Requests, ReserveFresh(r) \/ TakeOver(r) PROVE ErasedRowsAreLocked'
  <2>1. /\ UNCHANGED <<identity, userTable>>
        /\ pc' = [pc EXCEPT ![r] = "executing"] /\ found' = [found EXCEPT ![r] = NoRequest]
    BY <1>2 DEF ReserveFresh, TakeOver, InsertRow
  <2>2. \A q \in Requests : RowExists(q) => status'[q] # "none"
    BY <1>2 DEF ReserveFresh, TakeOver
  <2> QED BY <1>0, <2>1, <2>2
<1>3. ASSUME NEW r \in Requests, SaveSuccess(r) \/ SaveFailure(r) PROVE ErasedRowsAreLocked'
  BY <1>0, <1>3 DEF SaveSuccess, SaveFailure
<1>4. ASSUME NEW u \in Users, MovesLocks(u) PROVE ErasedRowsAreLocked'
  <2>1. CASE StartDelete(u) BY <1>0, <2>1 DEF StartDelete
  <2>2. CASE \E q \in Requests : EraseAttempt(u, q) BY <1>0, <2>2 DEF EraseAttempt
  <2>3. CASE AbortDelete(u) BY <1>0, <2>3 DEF AbortDelete
  <2> QED BY <1>4, <2>1, <2>2, <2>3 DEF MovesLocks
<1>5. ASSUME NEW u \in Users, CommitDelete(u) PROVE ErasedRowsAreLocked'
  BY <1>0, <1>5 DEF CommitDelete
<1>6. CASE Tick \/ UNCHANGED vars
  BY <1>0, <1>6 DEF Tick, vars
<1> QED BY <1>1, <1>2, <1>3, <1>4, <1>5, <1>6 DEF Next, Step, Cascade, Quiet, MovesLocks

\* Steps that write no row move locks, timestamps and replies only.
LEMMA QuietStepsKeepInvariant ==
  ASSUME TypeOK, TypeOK', AttemptsInvariant, ErasedRowsAreLocked', NEW r \in Requests, Quiet(r)
  PROVE  AttemptsInvariant'
<1> USE DEF TypeOK, Phases, userTable, rows, memory, Goto, End, Answer, SameIdentity, UserOf, RowExists,
            Active, Working, HoldsAdvisoryLock,
            AttemptsInvariant, RowsComeFromInserts, AdvisoryLockExclusive,
            FoundRowIsLocked, WorkerHasRowOrLostLease, OneActiveRow,
            ReservationsSerialised, AttemptsNumberedInSequence, AppliedIsDurable
<1>1. CASE ReceiveRequest(r) BY <1>1 DEF ReceiveRequest
<1>2. CASE RejectUnknownUser(r) BY <1>2 DEF RejectUnknownUser
<1>3. CASE AcquireAdvisoryLock(r) BY <1>3 DEF AcquireAdvisoryLock
<1>4. CASE SelectActive(r)
  BY <1>4, NoRequestAssumption DEF SelectActive, LockedByCompletion
<1>5. CASE RefuseSucceeded(r) BY <1>5, NoRequestAssumption DEF RefuseSucceeded
<1>6. CASE RefuseInProgress(r) BY <1>6 DEF RefuseInProgress
<1>7. CASE ReserveConflict(r) BY <1>7 DEF ReserveConflict
<1>8. CASE OperationSubmits(r) BY <1>8 DEF OperationSubmits
<1>9. CASE OperationReturns(r) BY <1>9, NoRequestAssumption DEF OperationReturns
<1>10. CASE LockOwnRow(r) BY <1>10, NoRequestAssumption DEF LockOwnRow, LockedByReservation
<1>11. CASE OwnRowMissing(r) BY <1>11 DEF OwnRowMissing
<1>12. CASE SaveRejected(r) BY <1>12 DEF SaveRejected
<1>13. CASE Crash(r) BY <1>13 DEF Crash, InFlight
<1>14. CASE RejectInvalid(r) BY <1>14 DEF RejectInvalid
<1> QED BY <1>1, <1>2, <1>3, <1>4, <1>5, <1>6, <1>7, <1>8, <1>9, <1>10, <1>11, <1>12,
           <1>13, <1>14 DEF Quiet

\* What an insert does to the numbers: the new row's number is one more than the largest.
LEMMA InsertNumbersTheRow ==
  ASSUME TypeOK, AttemptsInvariant, NEW r \in Requests, pc[r] = "deciding", InsertRow(r)
  PROVE  /\ number' = [number EXCEPT ![r] = number'[r]]
         /\ number'[r] \in Nat /\ number'[r] > 0
         /\ \A q \in Requests : SameIdentity(q, r) /\ RowExists(q) => number[q] < number'[r]
         /\ \/ number'[r] = 1
            \/ \E q \in Requests : SameIdentity(q, r) /\ RowExists(q) /\ number[q] = number'[r] - 1
<1>1. PICK n \in CandidateNumbers(r) :
        IsNextNumber(n, r) /\ number' = [number EXCEPT ![r] = n]
  BY DEF InsertRow
<1>2. number'[r] = n
  BY <1>1 DEF TypeOK
<1>3. n \in Nat /\ n > 0
  BY DEF CandidateNumbers, TypeOK
<1>4. n = 1 \/ \E q \in Requests : SameIdentity(q, r) /\ RowExists(q) /\ number[q] = n - 1
  BY DEF CandidateNumbers, TypeOK
<1> QED BY <1>1, <1>2, <1>3, <1>4 DEF IsNextNumber

\* Reserving, with or without a row to take over, keeps the invariant.
LEMMA ReservationsKeepInvariant ==
  ASSUME TypeOK, TypeOK', AttemptsInvariant, ErasedRowsAreLocked',
         NEW r \in Requests, ReserveFresh(r) \/ TakeOver(r)
  PROVE  AttemptsInvariant'
<1> USE NoRequestAssumption, LeaseAssumption
    DEF TypeOK, Phases, userTable, rows, memory, Goto, SameIdentity, UserOf, RowExists, Active,
        Working, HoldsAdvisoryLock
<1>1. pc[r] = "deciding" /\ InsertRow(r)
  BY DEF ReserveFresh, TakeOver
<1>2. status[r] = "none"
  BY <1>1 DEF AttemptsInvariant, RowsComeFromInserts
<1>3. /\ status'[r] = "in_progress"
      /\ \A q \in Requests \ {r} :
           \/ status'[q] = status[q]
           \/ q = found[r] /\ status[q] = "in_progress" /\ status'[q] = "failed"
              /\ lease[q] <= stamp[r]
  BY <1>2 DEF ReserveFresh, TakeOver, Expired
<1>4. RowsComeFromInserts' /\ AdvisoryLockExclusive' /\ FoundRowIsLocked'
  <2>1. RowsComeFromInserts'
    BY <1>1, <1>3 DEF AttemptsInvariant, RowsComeFromInserts, InsertRow
  <2>2. AdvisoryLockExclusive'
    BY <1>1 DEF AttemptsInvariant, AdvisoryLockExclusive, InsertRow
  <2>3. FoundRowIsLocked'
    BY <1>1, <1>2, <1>3
       DEF AttemptsInvariant, FoundRowIsLocked, AdvisoryLockExclusive, InsertRow
  <2> QED BY <2>1, <2>2, <2>3
<1>5. WorkerHasRowOrLostLease'
  BY <1>1, <1>2, <1>3
     DEF AttemptsInvariant, WorkerHasRowOrLostLease, RowsComeFromInserts, InsertRow
<1>6. OneActiveRow'
  BY <1>1, <1>2, <1>3
     DEF AttemptsInvariant, OneActiveRow, InsertRow, ReserveFresh, TakeOver, InsertAllowed,
         ActiveIndexFree
<1>7. ReservationsSerialised'
  BY <1>1, <1>3 DEF AttemptsInvariant, ReservationsSerialised, AdvisoryLockExclusive, InsertRow
<1>8. AttemptsNumberedInSequence'
  <2>1. \A q \in Requests : q # r => (RowExists(q)' <=> RowExists(q)) /\ number'[q] = number[q]
    BY <1>1, <1>3, InsertNumbersTheRow
  <2>2. RowExists(r)' /\ identity' = identity
    BY <1>1, <1>3 DEF InsertRow
  <2>3. AttemptsNumberedInSequence
    BY DEF AttemptsInvariant
  <2> QED
    BY <1>1, <1>2, <2>1, <2>2, <2>3, InsertNumbersTheRow, SMTT(60) DEF AttemptsNumberedInSequence
<1>9. AppliedIsDurable'
  <2>1. \A q \in Requests : status[q] = "succeeded" => status'[q] = "succeeded"
    BY <1>2, <1>3
  <2>2. reply' = reply /\ accounts' = accounts /\ identity' = identity
    BY <1>1 DEF InsertRow
  <2> QED BY <2>1, <2>2 DEF AttemptsInvariant, AppliedIsDurable
<1> QED BY <1>4, <1>5, <1>6, <1>7, <1>8, <1>9 DEF AttemptsInvariant

\* The invariant holds in every reachable state.
THEOREM InvariantHolds == Spec => []AttemptsInvariant
<1>1. TypeOK /\ TypeOK' /\ AttemptsInvariant /\ [Next]_vars => AttemptsInvariant'
  <2> SUFFICES ASSUME TypeOK, TypeOK', AttemptsInvariant, [Next]_vars
               PROVE  AttemptsInvariant'
    OBVIOUS
  <2>0. ErasedRowsAreLocked'
    BY ErasedRowsStayLocked
  <2>1. ASSUME NEW r \in Requests, Quiet(r) PROVE AttemptsInvariant'
    BY <2>0, <2>1, QuietStepsKeepInvariant
  <2>2. ASSUME NEW r \in Requests, ReserveFresh(r) \/ TakeOver(r) PROVE AttemptsInvariant'
    BY <2>0, <2>2, ReservationsKeepInvariant
  <2> USE DEF TypeOK, Phases, userTable, rows, memory, Goto, End, Answer, SameIdentity, UserOf, RowExists,
              Active, Working, HoldsAdvisoryLock,
              AttemptsInvariant, RowsComeFromInserts, AdvisoryLockExclusive,
              FoundRowIsLocked, WorkerHasRowOrLostLease, OneActiveRow,
              ReservationsSerialised, AttemptsNumberedInSequence, AppliedIsDurable
  <2>3. ASSUME NEW r \in Requests, SaveSuccess(r) PROVE AttemptsInvariant'
    BY <2>0, <2>3, NoRequestAssumption DEF SaveSuccess, SaveAllowed, ActiveIndexFree
  <2>4. ASSUME NEW r \in Requests, SaveFailure(r) PROVE AttemptsInvariant'
    BY <2>0, <2>4 DEF SaveFailure
  <2>5. ASSUME NEW u \in Users, CommitDelete(u) PROVE AttemptsInvariant'
    <3>1. \A q \in Requests : UserOf(q) = u /\ RowExists(q) =>
            ~LockedByCompletion(q) /\ ~LockedByReservation(q)
      BY <2>5 DEF CommitDelete, ErasedRowsAreLocked
    <3> QED BY <2>0, <2>5, <3>1 DEF CommitDelete, LockedByCompletion, LockedByReservation
  <2>8. ASSUME NEW u \in Users, MovesLocks(u) PROVE AttemptsInvariant'
    BY <2>0, <2>8, MovesLocksFrame
  <2>6. CASE Tick
    BY <2>0, <2>6 DEF Tick
  <2>7. CASE UNCHANGED vars
    BY <2>0, <2>7 DEF vars
  <2> QED BY <2>1, <2>2, <2>3, <2>4, <2>5, <2>6, <2>7, <2>8 DEF Next, Step, Cascade, Quiet, MovesLocks
<1> QED BY <1>1, InvariantInitially, TypeCorrect, PTL DEF Spec

-----------------------------------------------------------------------------
(* The safety properties.                                                  *)

\* At most one in-progress or succeeded row per identity, whatever interleaves.
THEOREM OneActiveRowHolds == Spec => []OneActiveRow
BY InvariantHolds, PTL DEF AttemptsInvariant

\* Attempts are numbered 1, 2, 3, ... per identity.
THEOREM AttemptsNumberedInSequenceHolds == Spec => []AttemptsNumberedInSequence
BY InvariantHolds, PTL DEF AttemptsInvariant

\* Between its read and its insert a reserver is alone: only a stale completion interferes.
THEOREM ReservationsSerialisedHolds == Spec => []ReservationsSerialised
BY InvariantHolds, PTL DEF AttemptsInvariant

\* Whoever was told of a success finds it recorded as long as the account exists.
THEOREM AppliedIsDurableHolds == Spec => []AppliedIsDurable
BY InvariantHolds, PTL DEF AttemptsInvariant

\* Two workers of one identity: the lease of one of them is over.
THEOREM LiveLeaseExclusiveHolds == Spec => []LiveLeaseExclusive
<1>1. AttemptsInvariant => LiveLeaseExclusive
  BY DEF AttemptsInvariant, WorkerHasRowOrLostLease, OneActiveRow, LiveLeaseExclusive, Active
<1> QED BY <1>1, InvariantHolds, PTL

\* A recorded success never changes, and no operation starts for its identity again.
THEOREM SuccessIsFinalHolds == Spec => SuccessIsFinal
<1> DEFINE Final == \A r \in Requests : status[r] = "succeeded" =>
              /\ UserOf(r) \in accounts' => status'[r] = "succeeded"
              /\ \A q \in Requests :
                   SameIdentity(q, r) /\ pc[q] # "executing" => pc'[q] # "executing"
<1>1. TypeOK /\ AttemptsInvariant /\ [Next]_vars => Final
  <2> SUFFICES ASSUME TypeOK, AttemptsInvariant, [Next]_vars PROVE Final
    OBVIOUS
  <2> USE DEF TypeOK, Phases, userTable, rows, memory, Goto, End, Answer, UserOf, SameIdentity
  <2>1. ASSUME NEW p \in Requests, Quiet(p) PROVE Final
    BY <2>1 DEF Quiet, ReceiveRequest, RejectInvalid, RejectUnknownUser, AcquireAdvisoryLock, SelectActive,
                RefuseSucceeded, RefuseInProgress, ReserveConflict, OperationSubmits,
                OperationReturns, LockOwnRow, OwnRowMissing, SaveRejected, Crash
  <2>2. ASSUME NEW p \in Requests, ReserveFresh(p) PROVE Final
    <3>1. pc[p] = "deciding" /\ found[p] = NoRequest /\ status[p] = "none"
      BY <2>2 DEF ReserveFresh, AttemptsInvariant, RowsComeFromInserts
    <3>2. \A r \in Requests : SameIdentity(p, r) => status[r] # "succeeded"
      BY <2>2, <3>1, NoRequestAssumption DEF ReserveFresh, InsertAllowed, ActiveIndexFree, Active
    <3> QED BY <2>2, <3>1, <3>2 DEF ReserveFresh, InsertRow
  <2>3. ASSUME NEW p \in Requests, TakeOver(p) PROVE Final
    <3>1. pc[p] = "deciding" /\ status[p] = "none" /\ status[found[p]] = "in_progress"
      BY <2>3 DEF TakeOver, Expired, AttemptsInvariant, RowsComeFromInserts
    <3>2. \A r \in Requests : SameIdentity(p, r) => status[r] # "succeeded"
      BY <2>3, <3>1 DEF TakeOver, InsertAllowed, ActiveIndexFree, Active
    <3> QED BY <2>3, <3>1, <3>2 DEF TakeOver, InsertRow
  <2>4. ASSUME NEW p \in Requests, SaveSuccess(p) PROVE Final
    BY <2>4 DEF SaveSuccess
  <2>5. ASSUME NEW p \in Requests, SaveFailure(p) PROVE Final
    BY <2>5 DEF SaveFailure, AttemptsInvariant, WorkerHasRowOrLostLease, Working
  <2>6. ASSUME NEW u \in Users, CommitDelete(u) \/ MovesLocks(u) PROVE Final
    BY <2>6, MovesLocksFrame DEF CommitDelete
  <2>7. CASE Tick
    BY <2>7 DEF Tick
  <2>8. CASE UNCHANGED vars
    BY <2>8 DEF vars
  <2> QED BY <2>1, <2>2, <2>3, <2>4, <2>5, <2>6, <2>7, <2>8 DEF Next, Step, Cascade, Quiet, MovesLocks
<1> QED BY <1>1, TypeCorrect, InvariantHolds, PTL DEF Spec, SuccessIsFinal

-----------------------------------------------------------------------------
(* What is left of FailedAttemptsAreHistory, which the code breaks.        *)

\* Rows whose own operation failed belong to requests that are answered.
OwnFailureIsAnswered ==
  \A r \in Requests :
    /\ error[r] = "operation" => pc[r] = "answered"
    /\ status[r] = "failed" => error[r] # "none"

\* The late report of a worker that lost its lease: its only one, of a row that was failed
\* for its lease, and a success only while nobody holds or has won the identity.
LateReport(r) ==
  /\ pc[r] = "saving" /\ pc'[r] = "answered"
  /\ error[r] = "lease_expired" /\ lease[r] <= clock
  /\ number'[r] = number[r] /\ lease'[r] = lease[r]
  /\ status'[r] = "succeeded" =>
       \A q \in Requests \ {r} : SameIdentity(q, r) => ~Active(q)

OnlyLateReportsRewrite ==
  [][\A r \in Requests :
       /\ status[r] = "failed" /\ UserOf(r) \in accounts'
       /\ status'[r] # "failed" \/ error'[r] # error[r]
       => LateReport(r)]_vars

\* A failure is recorded as the last step of its request.
LEMMA OwnFailureIsAnsweredHolds == Spec => []OwnFailureIsAnswered
<1>1. Init => OwnFailureIsAnswered
  BY DEF Init, OwnFailureIsAnswered
<1>2. TypeOK /\ OwnFailureIsAnswered /\ [Next]_vars => OwnFailureIsAnswered'
  <2> SUFFICES ASSUME TypeOK, OwnFailureIsAnswered, [Next]_vars PROVE OwnFailureIsAnswered'
    OBVIOUS
  <2> USE DEF TypeOK, Phases, userTable, rows, memory, Goto, End, Answer, UserOf, OwnFailureIsAnswered
  <2>1. ASSUME NEW p \in Requests, Quiet(p) PROVE OwnFailureIsAnswered'
    BY <2>1 DEF Quiet, ReceiveRequest, RejectInvalid, RejectUnknownUser, AcquireAdvisoryLock, SelectActive,
                RefuseSucceeded, RefuseInProgress, ReserveConflict, OperationSubmits,
                OperationReturns, LockOwnRow, OwnRowMissing, SaveRejected, Crash, InFlight
  <2>2. ASSUME NEW p \in Requests, ReserveFresh(p) PROVE OwnFailureIsAnswered'
    BY <2>2 DEF ReserveFresh, InsertRow
  <2>3. ASSUME NEW p \in Requests, TakeOver(p) PROVE OwnFailureIsAnswered'
    BY <2>3 DEF TakeOver, InsertRow
  <2>4. ASSUME NEW p \in Requests, SaveSuccess(p) \/ SaveFailure(p) PROVE OwnFailureIsAnswered'
    BY <2>4 DEF SaveSuccess, SaveFailure
  <2>5. ASSUME NEW u \in Users, CommitDelete(u) \/ MovesLocks(u) PROVE OwnFailureIsAnswered'
    BY <2>5, MovesLocksFrame DEF CommitDelete
  <2>6. CASE Tick \/ UNCHANGED vars
    BY <2>6 DEF Tick, vars
  <2> QED BY <2>1, <2>2, <2>3, <2>4, <2>5, <2>6 DEF Next, Step, Cascade, Quiet, MovesLocks
<1> QED BY <1>1, <1>2, TypeCorrect, PTL DEF Spec

\* The late report that the run attempts_history finds is the only way a failed attempt is
\* rewritten: once, by its own worker, with its number kept, and never against another
\* attempt that is in progress or succeeded.  What an operation reported itself is final.
THEOREM OnlyLateReportsRewriteHolds == Spec => OnlyLateReportsRewrite
<1> DEFINE Rewritten(r) == /\ status[r] = "failed" /\ UserOf(r) \in accounts'
                           /\ status'[r] # "failed" \/ error'[r] # error[r]
<1>1. TypeOK /\ AttemptsInvariant /\ OwnFailureIsAnswered /\ Next
        => \A r \in Requests : Rewritten(r) => LateReport(r)
  <2> SUFFICES ASSUME TypeOK, AttemptsInvariant, OwnFailureIsAnswered, Next,
                      NEW r \in Requests, Rewritten(r)
               PROVE  LateReport(r)
    OBVIOUS
  <2> USE DEF TypeOK, UserOf
  <2>1. ASSUME NEW p \in Requests, Quiet(p) PROVE FALSE
    BY <2>1 DEF Quiet, ReceiveRequest, RejectInvalid, RejectUnknownUser, AcquireAdvisoryLock, SelectActive,
                RefuseSucceeded, RefuseInProgress, ReserveConflict, OperationSubmits,
                OperationReturns, LockOwnRow, OwnRowMissing, SaveRejected, Crash, rows
  <2>2. ASSUME NEW p \in Requests, ReserveFresh(p) \/ TakeOver(p) PROVE FALSE
    <3>1. pc[p] = "deciding" /\ status[p] = "none"
      BY <2>2 DEF ReserveFresh, TakeOver, AttemptsInvariant, RowsComeFromInserts
    <3>2. TakeOver(p) => status[found[p]] = "in_progress"
      BY DEF TakeOver, Expired
    <3> QED BY <2>2, <3>1, <3>2 DEF ReserveFresh, TakeOver
  <2>3. ASSUME NEW p \in Requests, SaveSuccess(p) \/ SaveFailure(p) PROVE LateReport(r)
    <3>1. p = r /\ pc[r] = "saving" /\ pc'[r] = "answered"
      BY <2>3 DEF SaveSuccess, SaveFailure, Answer, End, Goto, Phases
    <3>2. error[r] = "lease_expired"
      BY <3>1 DEF OwnFailureIsAnswered
    <3>3. lease[r] <= clock
      BY <3>1 DEF AttemptsInvariant, WorkerHasRowOrLostLease, Working
    <3>4. number'[r] = number[r] /\ lease'[r] = lease[r]
      BY <2>3 DEF SaveSuccess, SaveFailure
    <3>5. status'[r] = "succeeded" => ActiveIndexFree(r, NoRequest)
      BY <2>3, <3>1 DEF SaveSuccess, SaveFailure, SaveAllowed
    <3> QED BY <3>1, <3>2, <3>3, <3>4, <3>5, NoRequestAssumption DEF LateReport, ActiveIndexFree
  <2>4. ASSUME NEW u \in Users, CommitDelete(u) \/ MovesLocks(u) PROVE FALSE
    BY <2>4, MovesLocksFrame DEF CommitDelete, rows
  <2>5. CASE Tick
    BY <2>5 DEF Tick, rows
  <2> QED BY <2>1, <2>2, <2>3, <2>4, <2>5 DEF Next, Step, Cascade, Quiet, MovesLocks
<1> QED BY <1>1, TypeCorrect, InvariantHolds, OwnFailureIsAnsweredHolds, PTL
        DEF Spec, OnlyLateReportsRewrite
-----------------------------------------------------------------------------
(* The table implements the ledger.                                        *)

\* What the refinement mapping says of the rows, without its CHOOSE.
LedgerView ==
  /\ HolderOf \in [Identities -> Requests \union {NoRequest}]
  /\ WinnerOf \in [Identities -> Requests \union {NoRequest}]
  /\ \A r \in Requests : status[r] = "in_progress" => HolderOf[identity[r]] = r
  /\ \A r \in Requests : status[r] = "succeeded" => WinnerOf[identity[r]] = r
  /\ \A i \in Identities : HolderOf[i] # NoRequest =>
       identity[HolderOf[i]] = i /\ status[HolderOf[i]] = "in_progress"
  /\ \A i \in Identities : WinnerOf[i] # NoRequest =>
       identity[WinnerOf[i]] = i /\ status[WinnerOf[i]] = "succeeded"
  /\ HeldBy \in [Identities -> SUBSET Requests]
  /\ \A r \in Requests, i \in Identities :
       r \in HeldBy[i] <=> identity[r] = i /\ status[r] # "none"
  /\ LeaseOf = [i \in Identities |->
                  IF HolderOf[i] = NoRequest THEN 0 ELSE lease[HolderOf[i]]]

\* The row of an identity with an active status is unique, so the CHOOSE finds it.
LEMMA RowWithFindsTheRow ==
  ASSUME TypeOK, OneActiveRow, NEW i \in Identities, NEW s \in {"in_progress", "succeeded"}
  PROVE  /\ RowWith(i, s) \in Requests \union {NoRequest}
         /\ RowWith(i, s) # NoRequest => identity[RowWith(i, s)] = i /\ status[RowWith(i, s)] = s
         /\ \A r \in Requests : identity[r] = i /\ status[r] = s => RowWith(i, s) = r
<1>1. CASE \E r \in Requests : identity[r] = i /\ status[r] = s
  <2>1. PICK q \in Requests : identity[q] = i /\ status[q] = s
    BY <1>1
  <2>2. \A r \in Requests : identity[r] = i /\ status[r] = s => r = q
    BY <2>1 DEF OneActiveRow, Active, SameIdentity
  <2>3. RowWith(i, s) = q
    BY <1>1, <2>1, <2>2 DEF RowWith
  <2> QED BY <2>1, <2>2, <2>3
<1>2. CASE ~ \E r \in Requests : identity[r] = i /\ status[r] = s
  BY <1>2 DEF RowWith
<1> QED BY <1>1, <1>2

THEOREM LedgerViewHolds == Spec => []LedgerView
<1>1. TypeOK /\ OneActiveRow => LedgerView
  <2> SUFFICES ASSUME TypeOK, OneActiveRow PROVE LedgerView
    OBVIOUS
  <2>1. \A r \in Requests : identity[r] \in Identities
    BY DEF TypeOK
  <2> QED BY <2>1, RowWithFindsTheRow DEF LedgerView, HolderOf, WinnerOf, LeaseOf, HeldBy, RowExists
<1> QED BY <1>1, TypeCorrect, OneActiveRowHolds, PTL

\* Steps that leave the rows alone are invisible in the ledger.
LEMMA QuietStepsStutter ==
  ASSUME NEW r \in Requests, Quiet(r)
  PROVE  UNCHANGED Ledger!vars
<1>1. UNCHANGED <<identity, accounts, status, lease, clock>>
  BY DEF Quiet, ReceiveRequest, RejectInvalid, RejectUnknownUser, AcquireAdvisoryLock, SelectActive,
         RefuseSucceeded, RefuseInProgress, ReserveConflict, OperationSubmits,
         OperationReturns, LockOwnRow, OwnRowMissing, SaveRejected, Crash, userTable, rows, memory
<1> QED BY <1>1 DEF Ledger!vars, HolderOf, LeaseOf, WinnerOf, HeldBy, RowExists, RowWith

\* A reservation claims its identity, which is free or has a lease that is over.
LEMMA ReservationsClaim ==
  ASSUME TypeOK, AttemptsInvariant, LedgerView, LedgerView',
         NEW r \in Requests, ReserveFresh(r) \/ TakeOver(r)
  PROVE  Ledger!Next
<1> DEFINE i == identity[r]
           end == stamp[r] + Lease
<1> USE NoRequestAssumption, LeaseAssumption
<1>1. pc[r] = "deciding" /\ InsertRow(r) /\ InsertAllowed(r)
  BY DEF ReserveFresh, TakeOver
<1>2. status[r] = "none" /\ stamp[r] \in Nat /\ stamp[r] <= clock /\ clock \in Nat
  BY <1>1 DEF AttemptsInvariant, RowsComeFromInserts, TypeOK
<1>3. i \in Identities /\ end \in 0 .. (clock + Lease)
  BY <1>2 DEF TypeOK
<1>4. /\ UNCHANGED <<identity, accounts, clock>>
      /\ lease' = [lease EXCEPT ![r] = end]
  BY <1>1 DEF InsertRow, userTable
<1>5. /\ status'[r] = "in_progress"
      /\ \A q \in Requests \ {r} : identity[q] # i => status'[q] = status[q]
      /\ \A q \in Requests \ {r} : identity[q] = i =>
           /\ status[q] # "succeeded"
           /\ status[q] = "in_progress" => lease[q] <= clock
           /\ status'[q] \notin {"in_progress", "succeeded"}
  <2>1. CASE ReserveFresh(r)
    BY <1>1, <2>1 DEF ReserveFresh, InsertAllowed, ActiveIndexFree, Active, SameIdentity, TypeOK
  <2>2. CASE TakeOver(r)
    <3>1. /\ found[r] \in Requests /\ found[r] # r /\ identity[found[r]] = i
          /\ status[found[r]] = "in_progress" /\ lease[found[r]] <= clock
      BY <1>1, <1>2, <2>2 DEF TakeOver, Expired, TypeOK, AttemptsInvariant, FoundRowIsLocked,
                              SameIdentity
    <3>2. status' = [status EXCEPT ![found[r]] = "failed", ![r] = "in_progress"]
      BY <2>2 DEF TakeOver
    <3> QED
      BY <1>1, <3>1, <3>2 DEF InsertAllowed, ActiveIndexFree, Active, SameIdentity, TypeOK
  <2> QED BY <2>1, <2>2
<1>6. HolderOf' = [HolderOf EXCEPT ![i] = r]
  <2>1. HolderOf'[i] = r
    BY <1>4, <1>5 DEF LedgerView
  <2>2. ASSUME NEW k \in Identities, k # i PROVE HolderOf'[k] = HolderOf[k]
    BY <1>2, <1>3, <1>4, <1>5, <2>2 DEF LedgerView
  <2> QED BY <1>3, <2>1, <2>2 DEF LedgerView
<1>7. WinnerOf[i] = NoRequest /\ WinnerOf' = WinnerOf
  <2>1. WinnerOf[i] = NoRequest /\ WinnerOf'[i] = NoRequest
    BY <1>2, <1>3, <1>4, <1>5 DEF LedgerView
  <2>2. ASSUME NEW k \in Identities, k # i PROVE WinnerOf'[k] = WinnerOf[k]
    BY <1>2, <1>3, <1>4, <1>5, <2>2 DEF LedgerView
  <2> QED BY <2>1, <2>2 DEF LedgerView
<1>8. LeaseOf' = [LeaseOf EXCEPT ![i] = end]
  <2>1. ASSUME NEW k \in Identities PROVE LeaseOf'[k] = [LeaseOf EXCEPT ![i] = end][k]
    <3>1. CASE k = i
      BY <1>3, <1>4, <1>6, <3>1 DEF LedgerView, TypeOK
    <3>2. CASE k # i
      <4>1. HolderOf[k] # r
        BY <1>2, <3>2 DEF LedgerView
      <4> QED BY <1>3, <1>4, <1>6, <3>2, <4>1 DEF LedgerView, TypeOK
    <3> QED BY <3>1, <3>2
  <2> QED BY <2>1, <1>3 DEF LedgerView
<1>9. HolderOf[i] = NoRequest \/ LeaseOf[i] <= clock
  BY <1>2, <1>3, <1>5 DEF LedgerView
<1>11. r \notin HeldBy[i] /\ HeldBy' = [HeldBy EXCEPT ![i] = @ \union {r}]
  <2>1. \A q \in Requests \ {r} : status'[q] # "none" <=> status[q] # "none"
    BY <1>1, <1>2 DEF ReserveFresh, TakeOver, Expired, TypeOK
  <2>2. ASSUME NEW k \in Identities
        PROVE  HeldBy'[k] = IF k = i THEN HeldBy[k] \union {r} ELSE HeldBy[k]
    <3>1. \A q \in Requests : q \in HeldBy'[k] <=> q \in HeldBy[k] \/ (q = r /\ k = i)
      BY <1>2, <1>3, <1>4, <1>5, <2>1 DEF LedgerView
    <3> QED BY <3>1 DEF LedgerView
  <2> QED BY <1>2, <1>3, <2>2 DEF LedgerView
<1>10. Ledger!Claim(i, r, end)
  BY <1>1, <1>2, <1>3, <1>4, <1>6, <1>7, <1>8, <1>9, <1>11
     DEF Ledger!Claim, Ledger!Free, InsertAllowed, UserOf
<1> QED BY <1>3, <1>10 DEF Ledger!Next, Ledger!Identities, Identities

\* A completion releases the identity or wins it; a stale failure is invisible.
LEMMA CompletionsReleaseOrWin ==
  ASSUME TypeOK, AttemptsInvariant, LedgerView, LedgerView',
         NEW r \in Requests, SaveSuccess(r) \/ SaveFailure(r)
  PROVE  [Ledger!Next]_(Ledger!vars)
<1> DEFINE i == identity[r]
<1> USE NoRequestAssumption
<1>1. i \in Identities /\ status[r] \in {"in_progress", "failed"} /\ lease[r] \in Nat
  BY DEF SaveSuccess, SaveFailure, AttemptsInvariant, WorkerHasRowOrLostLease, Working,
         RowExists, TypeOK
<1>2. UNCHANGED <<identity, accounts, lease, clock>>
  BY DEF SaveSuccess, SaveFailure, userTable
<1>3. status' = [status EXCEPT ![r] = outcome[r]] /\ outcome[r] \in {"succeeded", "failed"}
  BY DEF SaveSuccess, SaveFailure
<1>4. \A k \in Identities \ {i} : HolderOf'[k] = HolderOf[k] /\ WinnerOf'[k] = WinnerOf[k]
  <2>1. ASSUME NEW k \in Identities \ {i} PROVE HolderOf'[k] = HolderOf[k]
    BY <1>2, <1>3, <2>1 DEF LedgerView, TypeOK
  <2>2. ASSUME NEW k \in Identities \ {i} PROVE WinnerOf'[k] = WinnerOf[k]
    BY <1>2, <1>3, <2>2 DEF LedgerView, TypeOK
  <2> QED BY <2>1, <2>2
<1>8. HeldBy' = HeldBy /\ r \in HeldBy[i]
  <2>1. \A q \in Requests : status'[q] # "none" <=> status[q] # "none"
    BY <1>1, <1>3 DEF TypeOK
  <2>2. ASSUME NEW k \in Identities PROVE HeldBy'[k] = HeldBy[k]
    <3>1. \A q \in Requests : q \in HeldBy'[k] <=> q \in HeldBy[k]
      BY <1>2, <2>1 DEF LedgerView
    <3> QED BY <3>1 DEF LedgerView
  <2> QED BY <1>1, <2>2 DEF LedgerView
<1>5. CASE SaveSuccess(r)
  <2>1. \A q \in Requests \ {r} : identity[q] = i => status[q] \notin {"in_progress", "succeeded"}
    BY <1>5 DEF SaveSuccess, SaveAllowed, ActiveIndexFree, Active, SameIdentity
  <2>2. HolderOf[i] \in {NoRequest, r} /\ WinnerOf[i] = NoRequest
    BY <1>1, <2>1 DEF LedgerView
  <2>3. HolderOf'[i] = NoRequest /\ WinnerOf'[i] = r
    BY <1>1, <1>2, <1>3, <1>5, <2>1 DEF SaveSuccess, LedgerView, TypeOK
  <2>4. /\ HolderOf' = [HolderOf EXCEPT ![i] = NoRequest]
        /\ WinnerOf' = [WinnerOf EXCEPT ![i] = r]
    BY <1>1, <1>4, <2>3 DEF LedgerView
  <2>5. LeaseOf' = [LeaseOf EXCEPT ![i] = 0]
    BY <1>1, <1>2, <2>4 DEF LedgerView
  <2>6. Ledger!Win(i, r)
    BY <1>2, <1>8, <2>2, <2>4, <2>5 DEF Ledger!Win, Ledger!Free, userTable
  <2> QED BY <1>1, <2>6 DEF Ledger!Next, Ledger!Identities, Identities
<1>6. CASE SaveFailure(r) /\ status[r] = "in_progress"
  <2>1. HolderOf[i] = r /\ WinnerOf[i] = NoRequest /\ WinnerOf'[i] = NoRequest
    <3>1. \A q \in Requests \ {r} : identity[q] = i => status[q] \notin {"in_progress", "succeeded"}
      BY <1>6 DEF AttemptsInvariant, OneActiveRow, Active, SameIdentity
    <3> QED BY <1>1, <1>2, <1>3, <1>6, <3>1 DEF SaveFailure, LedgerView, TypeOK
  <2>2. HolderOf'[i] = NoRequest
    <3>1. \A q \in Requests \ {r} : identity[q] = i => status[q] # "in_progress"
      BY <1>6 DEF AttemptsInvariant, OneActiveRow, Active, SameIdentity
    <3> QED BY <1>1, <1>2, <1>3, <1>6, <3>1 DEF SaveFailure, LedgerView, TypeOK
  <2>3. HolderOf' = [HolderOf EXCEPT ![i] = NoRequest] /\ WinnerOf' = WinnerOf
    BY <1>1, <1>4, <2>1, <2>2 DEF LedgerView
  <2>4. LeaseOf' = [LeaseOf EXCEPT ![i] = 0]
    BY <1>1, <1>2, <2>3 DEF LedgerView
  <2>5. Ledger!Release(i)
    BY <1>2, <1>8, <2>1, <2>3, <2>4 DEF Ledger!Release, Ledger!Free
  <2> QED BY <1>1, <2>5 DEF Ledger!Next, Ledger!Identities, Identities
<1>7. CASE SaveFailure(r) /\ status[r] = "failed"
  <2>1. status' = status
    BY <1>3, <1>7 DEF SaveFailure, TypeOK
  <2> QED
    BY <1>2, <2>1 DEF Ledger!vars, HolderOf, LeaseOf, WinnerOf, HeldBy, RowExists, RowWith
<1> QED BY <1>1, <1>5, <1>6, <1>7

\* Deleting an account forgets its identities.
LEMMA DeletionForgets ==
  ASSUME TypeOK, AttemptsInvariant, LedgerView, LedgerView',
         NEW u \in Users, CommitDelete(u)
  PROVE  Ledger!Next
<1> USE NoRequestAssumption
<1>1. UNCHANGED <<identity, clock>> /\ accounts' = accounts \ {u} /\ u \in accounts
  BY DEF CommitDelete, AttemptsInvariant, ErasedRowsAreLocked
<1>2. /\ \A q \in Requests : identity[q][1] = u => status'[q] = "none"
      /\ \A q \in Requests : identity[q][1] # u => status'[q] = status[q] /\ lease'[q] = lease[q]
  BY DEF CommitDelete, UserOf, TypeOK
<1>3. ASSUME NEW k \in Identities
      PROVE  /\ HolderOf'[k] = IF k[1] = u THEN NoRequest ELSE HolderOf[k]
             /\ WinnerOf'[k] = IF k[1] = u THEN NoRequest ELSE WinnerOf[k]
             /\ LeaseOf'[k] = IF k[1] = u THEN 0 ELSE LeaseOf[k]
             /\ HeldBy'[k] = IF k[1] = u THEN {} ELSE HeldBy[k]
  <2>1. HolderOf'[k] = IF k[1] = u THEN NoRequest ELSE HolderOf[k]
    BY <1>1, <1>2 DEF LedgerView
  <2>2. WinnerOf'[k] = IF k[1] = u THEN NoRequest ELSE WinnerOf[k]
    BY <1>1, <1>2 DEF LedgerView
  <2>3. HeldBy'[k] = IF k[1] = u THEN {} ELSE HeldBy[k]
    <3>1. \A q \in Requests : q \in HeldBy'[k] <=> q \in HeldBy[k] /\ k[1] # u
      BY <1>1, <1>2 DEF LedgerView
    <3>2. HeldBy[k] \subseteq Requests /\ HeldBy'[k] \subseteq Requests
      BY DEF LedgerView
    <3>3. CASE k[1] = u
      BY <3>1, <3>2, <3>3
    <3>4. CASE k[1] # u
      BY <3>1, <3>2, <3>4
    <3> QED BY <3>3, <3>4
  <2> QED BY <1>1, <1>2, <2>1, <2>2, <2>3 DEF LedgerView
<1>4. (Users \ accounts)' = (Users \ accounts) \union {u}
  BY <1>1 DEF TypeOK
<1>5. Ledger!Forget(u)
  BY <1>1, <1>3, <1>4 DEF Ledger!Forget, Ledger!Identities, Identities, LedgerView
<1> QED BY <1>5 DEF Ledger!Next

\* Reservation, completion and deletion implement the ledger: an identity changes hands
\* only when its lease is over, and is won at most once, by its holder or while free.
THEOREM ImplementsLedgerHolds == Spec => ImplementsLedger
<1>1. Init => Ledger!Init
  BY NoRequestAssumption
     DEF Init, Ledger!Init, HolderOf, LeaseOf, WinnerOf, HeldBy, RowExists, RowWith, Ledger!Identities, Identities
<1>2. TypeOK /\ AttemptsInvariant /\ LedgerView /\ LedgerView' /\ [Next]_vars
        => [Ledger!Next]_(Ledger!vars)
  <2> SUFFICES ASSUME TypeOK, AttemptsInvariant, LedgerView, LedgerView', [Next]_vars
               PROVE  [Ledger!Next]_(Ledger!vars)
    OBVIOUS
  <2>1. ASSUME NEW r \in Requests, Quiet(r) PROVE [Ledger!Next]_(Ledger!vars)
    BY <2>1, QuietStepsStutter
  <2>2. ASSUME NEW r \in Requests, ReserveFresh(r) \/ TakeOver(r)
        PROVE  [Ledger!Next]_(Ledger!vars)
    BY <2>2, ReservationsClaim
  <2>3. ASSUME NEW r \in Requests, SaveSuccess(r) \/ SaveFailure(r)
        PROVE  [Ledger!Next]_(Ledger!vars)
    BY <2>3, CompletionsReleaseOrWin
  <2>4. ASSUME NEW u \in Users, CommitDelete(u) PROVE [Ledger!Next]_(Ledger!vars)
    BY <2>4, DeletionForgets
  <2>7. ASSUME NEW u \in Users, MovesLocks(u) PROVE [Ledger!Next]_(Ledger!vars)
    BY <2>7, MovesLocksFrame DEF rows, Ledger!vars, HolderOf, LeaseOf, WinnerOf, HeldBy, RowExists, RowWith
  <2>5. CASE Tick
    <3>1. Ledger!Pass
      BY <2>5 DEF Tick, Ledger!Pass, HolderOf, LeaseOf, WinnerOf, HeldBy, RowExists, RowWith, rows, userTable
    <3> QED BY <3>1 DEF Ledger!Next
  <2>6. CASE UNCHANGED vars
    BY <2>6 DEF vars, rows, userTable, Ledger!vars, HolderOf, LeaseOf, WinnerOf, HeldBy, RowExists, RowWith
  <2> QED BY <2>1, <2>2, <2>3, <2>4, <2>5, <2>6, <2>7 DEF Next, Step, Cascade, Quiet, MovesLocks
<1> QED
  BY <1>1, <1>2, TypeCorrect, InvariantHolds, LedgerViewHolds, PTL
     DEF Spec, ImplementsLedger, Ledger!Spec
=============================================================================
