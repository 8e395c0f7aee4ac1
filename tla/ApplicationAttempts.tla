------------------------ MODULE ApplicationAttempts ------------------------
(***************************************************************************)
(* The idempotency layer of job applications: transaction/applications.py, *)
(* the table behind it (db/application_models.py) and the handler that     *)
(* calls it (api/job_api.py, POST /api/job/apply).                         *)
(*                                                                         *)
(* A request reserves an attempt row in one transaction, runs the slow     *)
(* browser operation outside any transaction, and completes the row in a   *)
(* second transaction.  A request inserts at most one row, so a row is     *)
(* named by the request that inserted it.  Statements that wait for a lock *)
(* are steps of their own; a flush and the commit after it are one step,   *)
(* because the row locks taken before the flush (and the index entry taken *)
(* by it) keep every conflicting transaction out until the commit.         *)
(***************************************************************************)
EXTENDS Naturals

CONSTANTS
  Requests,   \* calls of POST /apply
  Users,      \* user ids; a deleted account never gets its id back
  Jobs,       \* canonical job identities: equal job_key hashes
  Lease,      \* APPLICATION_ATTEMPT_LEASE_SECONDS, in clock ticks
  MaxTime,    \* bound of the clock, for model checking only
  NoRequest   \* SQL NULL: no such row

ASSUME LeaseAssumption == Lease \in Nat \ {0}
ASSUME MaxTimeAssumption == MaxTime \in Nat
ASSUME NoRequestAssumption == NoRequest \notin Requests

VARIABLES
  identity,   \* the (user, job) pair each request is about
  accounts,   \* users that exist in the users table
  deletion,   \* how far the DELETE request of each account is
  erased,     \* attempt rows that a running DELETE has locked and erased, uncommitted
  status,     \* the row's status column, "none" when there is no row
  number,     \* the row's attempt_number
  lease,      \* the row's lease_expires_at
  error,      \* the row's error_type: who marked it failed
  stamp,      \* the timestamp the request sampled
  found,      \* the row _active_attempt returned to the request
  loaded,     \* the status of the request's own row in its identity map
  outcome,    \* how the operation ended
  submitted,  \* requests whose operation submitted the form (history)
  pc,         \* where the handler is
  reply,      \* what the caller was told
  clock

userTable == <<accounts, deletion, erased>>
rows == <<status, number, lease, error>>
memory == <<stamp, found, loaded, outcome>>
vars == <<identity, userTable, rows, memory, submitted, pc, reply, clock>>

Identities == Users \X Jobs
UserOf(r) == identity[r][1]
SameIdentity(q, r) == identity[q] = identity[r]

Phases == {"idle", "locking", "selecting", "deciding", "executing",
           "completing", "saving", "answered", "crashed"}
InFlight == Phases \ {"idle", "answered", "crashed"}
Working(r) == pc[r] \in {"executing", "completing", "saving"}

RowExists(r) == status[r] # "none"
Active(r) == status[r] \in {"in_progress", "succeeded"}

\* Broken variants, for mutation testing: the comparison with the lease dropped, the
\* status test dropped, the comparison made strict.
ExpiredWithoutLease(q, t) == status[q] = "in_progress"
ExpiredWhateverStatus(q, t) == lease[q] <= t
ExpiredStrictly(q, t) == status[q] = "in_progress" /\ lease[q] < t
Expired(q, t) == status[q] = "in_progress" /\ lease[q] <= t

\* Broken variant: a session-level lock, which a dead handler's pooled connection keeps.
SessionAdvisoryLock(r) == pc[r] \in {"selecting", "deciding", "crashed"}

\* pg_advisory_xact_lock: held from its statement to the end of the transaction.
HoldsAdvisoryLock(r) == pc[r] \in {"selecting", "deciding"}

\* SELECT ... FOR UPDATE: row q is locked by its own completing request, or by
\* the reserving request that found it active.
LockedByCompletion(q) == pc[q] = "saving"
LockedByReservation(q) == \E r \in Requests : pc[r] = "deciding" /\ found[r] = q

\* Broken variants: the partial index restricted to one of its two statuses.
IndexOfInProgress(r, except) ==
  \A q \in Requests \ {r, except} : SameIdentity(q, r) => status[q] # "in_progress"
IndexOfSucceeded(r, except) ==
  \A q \in Requests \ {r, except} : SameIdentity(q, r) => status[q] # "succeeded"

\* uq_job_application_attempts_active, once row `except` is out of the way.
ActiveIndexFree(r, except) ==
  \A q \in Requests \ {r, except} : SameIdentity(q, r) => ~Active(q)

\* A DELETE that runs has locked the row of the user.
Deleting(u) == deletion[u] = "running"

\* coalesce(max(attempt_number), 0) + 1 over the rows of the identity.
IsNextNumber(n, r) ==
  \A q \in Requests : SameIdentity(q, r) /\ RowExists(q) => number[q] < n
CandidateNumbers(r) ==
  {1} \union {number[q] + 1 : q \in {p \in Requests : SameIdentity(p, r) /\ RowExists(p)}}

Goto(r, phase) == pc' = [pc EXCEPT ![r] = phase]
\* The handler and its session are gone.
End(r, phase) ==
  /\ Goto(r, phase)
  /\ stamp' = [stamp EXCEPT ![r] = 0]
  /\ found' = [found EXCEPT ![r] = NoRequest]
  /\ loaded' = [loaded EXCEPT ![r] = "none"]
  /\ outcome' = [outcome EXCEPT ![r] = "none"]
Answer(r, what) ==
  /\ End(r, "answered")
  /\ reply' = [reply EXCEPT ![r] = what]

Init ==
  /\ identity \in [Requests -> Identities]
  /\ accounts = Users
  /\ deletion = [u \in Users |-> "none"]
  /\ erased = {}
  /\ status = [r \in Requests |-> "none"]
  /\ number = [r \in Requests |-> 0]
  /\ lease = [r \in Requests |-> 0]
  /\ error = [r \in Requests |-> "none"]
  /\ stamp = [r \in Requests |-> 0]
  /\ found = [r \in Requests |-> NoRequest]
  /\ loaded = [r \in Requests |-> "none"]
  /\ outcome = [r \in Requests |-> "none"]
  /\ submitted = {}
  /\ pc = [r \in Requests |-> "idle"]
  /\ reply = [r \in Requests |-> "none"]
  /\ clock = 0

-----------------------------------------------------------------------------
(* The first transaction: reserve_application_attempt.                     *)

\* The handler finds the user; the timestamp is sampled before the lock is asked for.
ReceiveRequest(r) ==
  /\ pc[r] = "idle"
  /\ UserOf(r) \in accounts
  /\ stamp' = [stamp EXCEPT ![r] = clock]
  /\ Goto(r, "locking")
  /\ UNCHANGED <<identity, userTable, rows, found, loaded, outcome, submitted, reply, clock>>

\* Email, resume or URL is missing, or the URL has no identity: a 400.
RejectInvalid(r) ==
  /\ pc[r] = "idle"
  /\ Answer(r, "rejected")
  /\ UNCHANGED <<identity, userTable, rows, submitted, clock>>

RejectUnknownUser(r) ==
  /\ pc[r] = "idle"
  /\ UserOf(r) \notin accounts
  /\ Answer(r, "rejected")
  /\ UNCHANGED <<identity, userTable, rows, submitted, clock>>

AcquireAdvisoryLock(r) ==
  /\ pc[r] = "locking"
  /\ \A q \in Requests \ {r} : SameIdentity(q, r) => ~HoldsAdvisoryLock(q)
  /\ Goto(r, "selecting")
  /\ UNCHANGED <<identity, userTable, rows, memory, submitted, reply, clock>>

\* _active_attempt: waits while the active row is locked by its completion or a deletion.
SelectActive(r) ==
  /\ pc[r] = "selecting"
  /\ \E q \in Requests \union {NoRequest} :
       /\ IF q \in Requests
          THEN SameIdentity(q, r) /\ Active(q) /\ ~LockedByCompletion(q) /\ q \notin erased
          ELSE \A p \in Requests : SameIdentity(p, r) => ~Active(p)
       /\ found' = [found EXCEPT ![r] = q]
  /\ Goto(r, "deciding")
  /\ UNCHANGED <<identity, userTable, rows, stamp, loaded, outcome, submitted, reply, clock>>

RefuseSucceeded(r) ==
  /\ pc[r] = "deciding"
  /\ found[r] # NoRequest
  /\ status[found[r]] = "succeeded"
  /\ Answer(r, "already_succeeded")
  /\ UNCHANGED <<identity, userTable, rows, submitted, clock>>

RefuseInProgress(r) ==
  /\ pc[r] = "deciding"
  /\ found[r] # NoRequest
  /\ status[found[r]] = "in_progress"
  /\ ~Expired(found[r], stamp[r])
  /\ Answer(r, "in_progress")
  /\ UNCHANGED <<identity, userTable, rows, submitted, clock>>

\* The insert meets the foreign key on users and the two unique indexes.  It waits for a
\* running deletion of the user.
InsertAllowed(r) ==
  /\ UserOf(r) \in accounts /\ ~Deleting(UserOf(r))
  /\ ActiveIndexFree(r, found[r])

\* An insert waits for the deletion, or an update for the index entry it is erasing, and the
\* deletion waits for the row this request has locked: PostgreSQL aborts one of the two.
DeadlockWithDeletion(r) ==
  /\ Deleting(UserOf(r))
  /\ \/ pc[r] = "deciding" /\ found[r] # NoRequest /\ Expired(found[r], stamp[r])
     \/ /\ pc[r] = "saving" /\ outcome[r] = "succeeded"
        /\ \E q \in erased : SameIdentity(q, r) /\ Active(q)

\* The user is gone, an active row is in the way, or PostgreSQL aborts this transaction.
InsertRefused(r) ==
  \/ UserOf(r) \notin accounts
  \/ \E q \in Requests \ {r, found[r]} : SameIdentity(q, r) /\ Active(q) /\ q \notin erased
  \/ DeadlockWithDeletion(r)

\* Broken variant: the lease subtracted from the timestamp.
InsertRowLeaseBackwards(r) ==
  /\ \E n \in CandidateNumbers(r) :
       /\ IsNextNumber(n, r)
       /\ number' = [number EXCEPT ![r] = n]
  /\ lease' = [lease EXCEPT ![r] = stamp[r] - Lease]
  /\ loaded' = [loaded EXCEPT ![r] = "in_progress"]
  /\ found' = [found EXCEPT ![r] = NoRequest]
  /\ Goto(r, "executing")
  /\ UNCHANGED <<identity, userTable, stamp, outcome, submitted, reply, clock>>

InsertRow(r) ==
  /\ \E n \in CandidateNumbers(r) :
       /\ IsNextNumber(n, r)
       /\ number' = [number EXCEPT ![r] = n]
  /\ lease' = [lease EXCEPT ![r] = stamp[r] + Lease]
  /\ loaded' = [loaded EXCEPT ![r] = "in_progress"]
  /\ found' = [found EXCEPT ![r] = NoRequest]
  /\ Goto(r, "executing")
  /\ UNCHANGED <<identity, userTable, stamp, outcome, submitted, reply, clock>>

ReserveFresh(r) ==
  /\ pc[r] = "deciding"
  /\ found[r] = NoRequest
  /\ InsertAllowed(r)
  /\ status' = [status EXCEPT ![r] = "in_progress"]
  /\ InsertRow(r)
  /\ UNCHANGED error

TakeOver(r) ==
  /\ pc[r] = "deciding"
  /\ found[r] # NoRequest
  /\ Expired(found[r], stamp[r])
  /\ InsertAllowed(r)
  /\ status' = [status EXCEPT ![found[r]] = "failed", ![r] = "in_progress"]
  /\ error' = [error EXCEPT ![found[r]] = "lease_expired"]
  /\ InsertRow(r)

\* An IntegrityError or a deadlock rolls the reservation back; the caller gets a 500.
ReserveConflict(r) ==
  /\ pc[r] = "deciding"
  /\ found[r] # NoRequest => Expired(found[r], stamp[r])
  /\ InsertRefused(r)
  /\ Answer(r, "server_error")
  /\ UNCHANGED <<identity, userTable, rows, submitted, clock>>

-----------------------------------------------------------------------------
(* The operation, outside any transaction: GreenHouseFiller.apply.         *)

OperationSubmits(r) ==
  /\ pc[r] = "executing"
  /\ r \notin submitted
  /\ submitted' = submitted \union {r}
  /\ UNCHANGED <<identity, userTable, rows, memory, pc, reply, clock>>

\* apply() returns only after submit(); it may raise before or after it.
OperationReturns(r) ==
  /\ pc[r] = "executing"
  /\ \E o \in {"succeeded", "failed"} :
       /\ o = "succeeded" => r \in submitted
       /\ outcome' = [outcome EXCEPT ![r] = o]
  /\ Goto(r, "completing")
  /\ UNCHANGED <<identity, userTable, rows, stamp, found, loaded, submitted, reply, clock>>

-----------------------------------------------------------------------------
(* The second transaction: complete_application_attempt.                   *)

\* Broken variant: the row is read without FOR UPDATE.
LockOwnRowWithoutWaiting(r) ==
  /\ pc[r] = "completing"
  /\ RowExists(r)
  /\ Goto(r, "saving")
  /\ UNCHANGED <<identity, userTable, rows, memory, submitted, reply, clock>>

\* The row is read FOR UPDATE, but the session keeps the attributes it loaded
\* (expire_on_commit=False, no populate_existing), so `loaded` does not change.
LockOwnRow(r) ==
  /\ pc[r] = "completing"
  /\ RowExists(r)
  /\ ~LockedByReservation(r) /\ r \notin erased
  /\ Goto(r, "saving")
  /\ UNCHANGED <<identity, userTable, rows, memory, submitted, reply, clock>>

OwnRowMissing(r) ==
  /\ pc[r] = "completing"
  /\ ~RowExists(r)
  /\ Answer(r, "server_error")
  /\ UNCHANGED <<identity, userTable, rows, submitted, clock>>

\* The guard on the loaded status, and the index that a successful row has to fit in.
SaveAllowed(r) ==
  /\ loaded[r] = "in_progress"
  /\ outcome[r] = "succeeded" => ActiveIndexFree(r, NoRequest)

SaveSuccess(r) ==
  /\ pc[r] = "saving"
  /\ outcome[r] = "succeeded"
  /\ SaveAllowed(r)
  /\ status' = [status EXCEPT ![r] = "succeeded"]
  /\ Answer(r, "executed")
  /\ UNCHANGED <<identity, userTable, number, lease, error, submitted, clock>>

SaveFailure(r) ==
  /\ pc[r] = "saving"
  /\ outcome[r] = "failed"
  /\ SaveAllowed(r)
  /\ status' = [status EXCEPT ![r] = "failed"]
  /\ error' = [error EXCEPT ![r] = "operation"]
  /\ Answer(r, "operation_failed")
  /\ UNCHANGED <<identity, userTable, number, lease, submitted, clock>>

\* RuntimeError from the guard, or IntegrityError from the index: a rollback and a 500.
\* A transaction that is the victim of a deadlock ends in the same way.
SaveRejected(r) ==
  /\ pc[r] = "saving"
  /\ ~SaveAllowed(r)
  /\ Answer(r, "server_error")
  /\ UNCHANGED <<identity, userTable, rows, submitted, clock>>

-----------------------------------------------------------------------------
(* The environment.                                                        *)

\* The process dies, the task is cancelled (not an Exception, so not caught), or
\* the database aborts the transaction: locks go, committed rows stay.
Crash(r) ==
  /\ pc[r] \in InFlight
  /\ End(r, "crashed")
  /\ UNCHANGED <<identity, userTable, rows, submitted, reply, clock>>

\* DELETE FROM users: the row of the user is locked first, then the cascade locks and erases
\* the attempts in any order, waiting for those that others have locked.
StartDelete(u) ==
  /\ u \in accounts /\ deletion[u] = "none"
  /\ deletion' = [deletion EXCEPT ![u] = "running"]
  /\ UNCHANGED <<identity, accounts, erased, rows, memory, submitted, pc, reply, clock>>

EraseAttempt(u, q) ==
  /\ Deleting(u)
  /\ UserOf(q) = u /\ RowExists(q) /\ q \notin erased
  /\ ~LockedByCompletion(q) /\ ~LockedByReservation(q)
  /\ erased' = erased \union {q}
  /\ UNCHANGED <<identity, accounts, deletion, rows, memory, submitted, pc, reply, clock>>

\* The commit, once no attempt is left.
CommitDelete(u) ==
  /\ Deleting(u)
  /\ \A q \in Requests : UserOf(q) = u /\ RowExists(q) => q \in erased
  /\ accounts' = accounts \ {u}
  /\ deletion' = [deletion EXCEPT ![u] = "done"]
  /\ erased' = {q \in erased : UserOf(q) # u}
  /\ status' = [q \in Requests |-> IF UserOf(q) = u THEN "none" ELSE status[q]]
  /\ number' = [q \in Requests |-> IF UserOf(q) = u THEN 0 ELSE number[q]]
  /\ lease' = [q \in Requests |-> IF UserOf(q) = u THEN 0 ELSE lease[q]]
  /\ error' = [q \in Requests |-> IF UserOf(q) = u THEN "none" ELSE error[q]]
  /\ UNCHANGED <<identity, memory, submitted, pc, reply, clock>>

\* The DELETE is the victim of the deadlock: nothing is erased.
AbortDelete(u) ==
  /\ \E r \in Requests : UserOf(r) = u /\ DeadlockWithDeletion(r)
  /\ deletion' = [deletion EXCEPT ![u] = "done"]
  /\ erased' = {q \in erased : UserOf(q) # u}
  /\ UNCHANGED <<identity, accounts, rows, memory, submitted, pc, reply, clock>>

Tick ==
  /\ clock < MaxTime
  /\ clock' = clock + 1
  /\ UNCHANGED <<identity, userTable, rows, memory, submitted, pc, reply>>

Step(r) ==
  \/ ReceiveRequest(r)
  \/ RejectInvalid(r)
  \/ RejectUnknownUser(r)
  \/ AcquireAdvisoryLock(r)
  \/ SelectActive(r)
  \/ RefuseSucceeded(r)
  \/ RefuseInProgress(r)
  \/ ReserveFresh(r)
  \/ TakeOver(r)
  \/ ReserveConflict(r)
  \/ OperationSubmits(r)
  \/ OperationReturns(r)
  \/ LockOwnRow(r)
  \/ OwnRowMissing(r)
  \/ SaveSuccess(r)
  \/ SaveFailure(r)
  \/ SaveRejected(r)

Cascade(u) ==
  \/ \E q \in Requests : EraseAttempt(u, q)
  \/ CommitDelete(u)

Next ==
  \/ \E r \in Requests : Step(r)
  \/ \E r \in Requests : Crash(r)
  \/ \E u \in Users : StartDelete(u) \/ Cascade(u) \/ AbortDelete(u)
  \/ Tick

Spec == Init /\ [][Next]_vars

\* A handler that is running keeps running: the event loop schedules it, PostgreSQL
\* queues lock waiters and lets a deletion go on.  That the operation ends is assumed: one
\* of its waits has no timeout (see CallEnds of GreenhouseFiller).
Fairness ==
  /\ \A r \in Requests : WF_vars(pc[r] # "idle" /\ Step(r))
  /\ \A u \in Users : WF_vars(Cascade(u))
FairSpec == Spec /\ Fairness

-----------------------------------------------------------------------------
(* Properties.                                                             *)

\* Every variable keeps its type; timestamps and leases never become negative.
TypeOK ==
  /\ identity \in [Requests -> Identities]
  /\ accounts \subseteq Users
  /\ deletion \in [Users -> {"none", "running", "done"}]
  /\ erased \subseteq Requests
  /\ status \in [Requests -> {"none", "in_progress", "succeeded", "failed"}]
  /\ number \in [Requests -> Nat]
  /\ lease \in [Requests -> Nat]
  /\ error \in [Requests -> {"none", "lease_expired", "operation"}]
  /\ stamp \in [Requests -> Nat]
  /\ found \in [Requests -> Requests \union {NoRequest}]
  /\ loaded \in [Requests -> {"none", "in_progress", "succeeded", "failed"}]
  /\ outcome \in [Requests -> {"none", "succeeded", "failed"}]
  /\ submitted \subseteq Requests
  /\ pc \in [Requests -> Phases]
  /\ reply \in [Requests -> {"none", "rejected", "already_succeeded", "in_progress",
                             "executed", "operation_failed", "server_error"}]
  /\ clock \in Nat

\* However reservations, takeovers, stale completions and account deletions
\* interleave, an identity has at most one in-progress or succeeded row.
OneActiveRow ==
  \A q, r \in Requests :
    SameIdentity(q, r) /\ Active(q) /\ Active(r) => q = r

\* Two handlers work for one identity at the same time only when the lease of one
\* of them has run out: a live lease is exclusive although it was computed from a
\* timestamp sampled before the lock and completion never looks at it.
LiveLeaseExclusive ==
  \A q, r \in Requests :
    SameIdentity(q, r) /\ Working(q) /\ Working(r) /\ q # r =>
      lease[q] <= clock \/ lease[r] <= clock

\* The attempts of an identity are numbered 1, 2, 3, ... without gap or repetition,
\* whatever mixture of failures, takeovers and refused inserts produced them.
AttemptsNumberedInSequence ==
  \A r \in Requests : RowExists(r) =>
    /\ number[r] > 0
    /\ number[r] > 1 => \E q \in Requests :
         SameIdentity(q, r) /\ RowExists(q) /\ number[q] = number[r] - 1
    /\ \A q \in Requests :
         SameIdentity(q, r) /\ RowExists(q) /\ number[q] = number[r] => q = r

\* A reserver that saw no active row can be refused by the unique index only because
\* a stale completion succeeded meanwhile: the advisory lock, taken before the read,
\* keeps every other reservation out between the read and the insert.
ReservationsSerialised ==
  \A q, r \in Requests :
    pc[r] = "deciding" /\ found[r] = NoRequest /\ SameIdentity(q, r) =>
      status[q] # "in_progress"

\* Whoever was told that the application is made (now or before) finds it recorded as
\* succeeded for as long as the account exists: no late worker undoes it.
AppliedIsDurable ==
  \A r \in Requests :
    reply[r] \in {"executed", "already_succeeded"} /\ UserOf(r) \in accounts =>
      \E q \in Requests : SameIdentity(q, r) /\ status[q] = "succeeded"

\* A success is final: its row changes only with the account's deletion, and nobody
\* starts the operation again for that identity.
SuccessIsFinal ==
  [][\A r \in Requests : status[r] = "succeeded" =>
       /\ UserOf(r) \in accounts' => status'[r] = "succeeded"
       /\ \A q \in Requests :
            SameIdentity(q, r) /\ pc[q] # "executing" => pc'[q] # "executing"]_vars

\* Every request that is received is answered, unless its process crashes: neither the
\* advisory lock nor the row locks can make two requests, or a request and the deletion of
\* the account, wait for each other forever.  (The operation itself is assumed to end.)
EveryRequestAnswered ==
  \A r \in Requests : pc[r] = "locking" ~> pc[r] \in {"answered", "crashed"}

\* An abandoned attempt does not block its identity: once a request whose timestamp is
\* past the lease arrives, the old row leaves in_progress (unless that request dies too, or
\* is the victim of a deadlock with the deletion of the account).
Abandoned(q) == pc[q] = "crashed" /\ status[q] = "in_progress"
AbandonedAttemptReleased ==
  \A r \in Requests :
    (/\ pc[r] = "locking"
     /\ \E q \in Requests : SameIdentity(q, r) /\ Abandoned(q) /\ lease[q] <= stamp[r])
      ~> (\/ \A q \in Requests : SameIdentity(q, r) => ~Abandoned(q)
          \/ pc[r] = "crashed" \/ reply[r] = "server_error")

\* README.md and the docstring of reserve_application_attempt: failed attempts remain as
\* history.  The stale status read by complete_application_attempt breaks this.
FailedAttemptsAreHistory ==
  [][\A r \in Requests :
       status[r] = "failed" /\ UserOf(r) \in accounts' =>
         status'[r] = "failed" /\ error'[r] = error[r]]_vars

\* Docstring of run_application_once: "execute ... one idempotent application".  A form
\* that was submitted before the operation raised is submitted again by the retry.
SubmittedOnce ==
  \A q, r \in submitted : SameIdentity(q, r) => q = r

-----------------------------------------------------------------------------
(* The inductive invariant behind the safety properties.                   *)

\* A request has no row before its insert, and a timestamp that is not in the future.
RowsComeFromInserts ==
  \A r \in Requests :
    /\ pc[r] \in {"idle", "locking", "selecting", "deciding"} => status[r] = "none"
    /\ stamp[r] <= clock

AdvisoryLockExclusive ==
  \A q, r \in Requests :
    SameIdentity(q, r) /\ HoldsAdvisoryLock(q) /\ HoldsAdvisoryLock(r) => q = r

\* The row a deciding request found is still what it read: active, and held by it.
FoundRowIsLocked ==
  \A r \in Requests :
    pc[r] = "deciding" /\ found[r] # NoRequest =>
      /\ SameIdentity(found[r], r)
      /\ Active(found[r])
      /\ pc[found[r]] # "saving"

\* A worker's row is in progress, or was taken from it after the end of its lease; the
\* row is there once the worker has locked it.
WorkerHasRowOrLostLease ==
  \A r \in Requests :
    /\ Working(r) => /\ status[r] # "succeeded"
                     /\ status[r] = "in_progress" \/ lease[r] <= clock
    /\ pc[r] = "saving" => RowExists(r)

\* A running deletion has the user, and the rows it has erased are there for everybody
\* else and locked by nobody else.
ErasedRowsAreLocked ==
  /\ \A u \in Users : Deleting(u) => u \in accounts
  /\ \A q \in erased :
       /\ Deleting(UserOf(q)) /\ RowExists(q)
       /\ ~LockedByCompletion(q) /\ ~LockedByReservation(q)

\* What every step of reservation, completion and deletion preserves together; each
\* safety property above follows from it.
AttemptsInvariant ==
  /\ RowsComeFromInserts
  /\ AdvisoryLockExclusive
  /\ FoundRowIsLocked
  /\ WorkerHasRowOrLostLease
  /\ ErasedRowsAreLocked
  /\ OneActiveRow
  /\ ReservationsSerialised
  /\ AttemptsNumberedInSequence
  /\ AppliedIsDurable

-----------------------------------------------------------------------------
(* Refinement: the rows of the table, read as a ledger.                    *)

RowWith(i, s) ==
  IF \E r \in Requests : identity[r] = i /\ status[r] = s
  THEN CHOOSE r \in Requests : identity[r] = i /\ status[r] = s
  ELSE NoRequest

HolderOf == [i \in Identities |-> RowWith(i, "in_progress")]
LeaseOf == [i \in Identities |-> IF HolderOf[i] = NoRequest THEN 0 ELSE lease[HolderOf[i]]]
WinnerOf == [i \in Identities |-> RowWith(i, "succeeded")]
HeldBy == [i \in Identities |-> {r \in Requests : identity[r] = i /\ RowExists(r)}]

Ledger == INSTANCE AttemptLedger
  WITH holder <- HolderOf, until <- LeaseOf, winner <- WinnerOf, held <- HeldBy,
       gone <- Users \ accounts, now <- clock

\* The transactions implement the ledger: an identity changes hands only when its lease
\* is over, is won at most once, and only by its holder or by a former holder while it
\* is free, whatever the interleaving of handlers, crashes and account deletions.
ImplementsLedger == Ledger!Spec
=============================================================================
