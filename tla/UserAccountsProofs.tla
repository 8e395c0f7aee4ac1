-------------------------- MODULE UserAccountsProofs --------------------------
(***************************************************************************)
(* Proofs about UserAccounts, for any set of requests, any users at the    *)
(* start and any sets of addresses, profiles and files.                    *)
(***************************************************************************)
EXTENDS UserAccounts, TLAPS

(* What the four safety properties rest on: what a session has in hand at  *)
(* each point of its handler, and what its locks keep others from doing.   *)

\* Nothing is selected before the writing transaction, and what a POST selects has
\* the uploaded address.  A statement waits for the index to insert or to move an
\* address; only a PUT moves one.
SessionFits ==
  \A r \in Requests :
    /\ pc[r] \in {"idle", "extracting"} => upload[r] = NoRow
    /\ pc[r] = "extracting" => kind[r] \in {"post", "put"}
    /\ pc[r] = "locking" => kind[r] = "post" /\ upload[r] \in Uploads
    /\ pc[r] = "selecting" => kind[r] # "none" /\ (kind[r] # "delete" => upload[r] \in Uploads)
    /\ pc[r] \in {"idle", "extracting", "locking", "selecting"} =>
         record[r] = NoRow /\ loaded[r] = NoRow
    /\ pc[r] = "flushing" =>
         /\ kind[r] # "none" /\ record[r] \in Ids /\ loaded[r] \in Uploads
         /\ kind[r] # "delete" => upload[r] \in Uploads
         /\ kind[r] = "post" => loaded[r].email = upload[r].email
    /\ pc[r] = "indexing" =>
         /\ kind[r] \in {"post", "put"} /\ upload[r] \in Uploads /\ record[r] \in Ids
         /\ IF loaded[r] = NoRow
            THEN kind[r] = "post" /\ record[r] = r
            ELSE kind[r] = "put" /\ "email" \in Changed(r)
    /\ r \in wrote => pc[r] \in {"refreshing", "answered", "dead"}
    /\ reply[r] # "none" => pc[r] = "answered"

\* The id a POST makes up belongs to nobody until the POST commits.
FreshIdsUnused ==
  \A r \in Requests :
    r \notin wrote => users[r] = NoRow /\ \A q \in Requests : record[q] = r => q = r

\* The row of an UPDATE that waits for the index exists, and no one else has it.
RowLocksExclusive ==
  \A r \in Requests, id \in Ids :
    HoldsRowLock(r, id) => Exists(id) /\ \A q \in Requests : HoldsRowLock(q, id) => q = r

\* Two POSTs that are past the advisory lock have different addresses.
AdvisoryLocksExclusive ==
  \A q, r \in Requests :
    HoldsAdvisoryLock(q) /\ HoldsAdvisoryLock(r) /\ upload[q].email = upload[r].email => q = r

\* Some PUT that committed gave its user the address of r's upload.
MovedTo(r) == \E p \in wrote : kind[p] = "put" /\ upload[p].email = upload[r].email

\* A POST about to insert found no user with the address: one that has it got it by a PUT.
InsertsFoundNobody ==
  \A r \in Requests, id \in Ids :
    /\ pc[r] = "indexing" /\ kind[r] = "post"
    /\ Exists(id) /\ users[id].email = upload[r].email
    => MovedTo(r)

\* Some PUT that committed wrote the row.
Replaced(id) == \E p \in wrote : kind[p] = "put" /\ record[p] = id

\* The row a POST is about to update is as loaded, or gone, or a PUT wrote it.
UpdatesFoundTheRow ==
  \A r \in Requests :
    pc[r] = "flushing" /\ kind[r] = "post" /\ Exists(record[r]) =>
      users[record[r]] = loaded[r] \/ Replaced(record[r])

AccountsInvariant ==
  /\ TypeOK /\ SessionFits /\ FreshIdsUnused
  /\ RowLocksExclusive /\ AdvisoryLocksExclusive
  /\ InsertsFoundNobody /\ UpdatesFoundTheRow
  /\ OneAccountPerEmail /\ PostsDoNotClash /\ OnlyReplaceMixes

-----------------------------------------------------------------------------
(* The inductive invariant.                                                *)

\* What an UPDATE leaves in the row: an upload, with the new address only if it moves,
\* and nothing but the upload when the row is still as the session loaded it.
LEMMA UpdatedColumns ==
  ASSUME NEW r \in Requests, NEW row \in Uploads, upload[r] \in Uploads, loaded[r] \in Uploads
  PROVE  /\ Updated(row, r) \in Uploads
         /\ Updated(row, r).email =
              IF "email" \in Changed(r) THEN upload[r].email ELSE row.email
         /\ row = loaded[r] => Updated(row, r) = upload[r]
BY DEF Updated, Changed, Columns, Uploads

\* The invariant holds before the first request: every old user has an address of its own.
LEMMA InvariantInitially == Init => AccountsInvariant
<1> SUFFICES ASSUME Init PROVE AccountsInvariant
  OBVIOUS
<1> USE RowAssumption, IdsAssumption, OldUsersAssumption DEF Init, Ids
<1>1. TypeOK
  BY DEF TypeOK, Kinds, Phases
<1>2. SessionFits /\ FreshIdsUnused
  BY DEF SessionFits, FreshIdsUnused
<1>3. RowLocksExclusive /\ AdvisoryLocksExclusive
  BY DEF RowLocksExclusive, AdvisoryLocksExclusive, HoldsRowLock, HoldsAdvisoryLock
<1>4. InsertsFoundNobody /\ UpdatesFoundTheRow
  BY DEF InsertsFoundNobody, UpdatesFoundTheRow
<1>5. OneAccountPerEmail /\ PostsDoNotClash /\ OnlyReplaceMixes
  BY DEF OneAccountPerEmail, PostsDoNotClash, OnlyReplaceMixes, Exists
<1> QED BY <1>1, <1>2, <1>3, <1>4, <1>5 DEF AccountsInvariant

\* A request that arrives, whichever handler it calls, has no session yet.
LEMMA ArrivalsKeepInvariant ==
  ASSUME AccountsInvariant, NEW r \in Requests,
         \/ ReceivePost(r)
         \/ \E id \in KnownIds : ReceivePut(r, id) \/ ReceiveDelete(r, id) \/ RejectPut(r, id)
  PROVE  AccountsInvariant'
<1> USE RowAssumption, IdsAssumption
    DEF TypeOK, Kinds, Phases, Ids, Goto, requestVars, Exists, HoldsAdvisoryLock,
        HoldsRowLock, Changed, MovedTo, Replaced, AccountsInvariant, SessionFits,
        FreshIdsUnused, RowLocksExclusive, AdvisoryLocksExclusive, InsertsFoundNobody,
        UpdatesFoundTheRow, OneAccountPerEmail, PostsDoNotClash, OnlyReplaceMixes
<1>1. CASE ReceivePost(r)
  <2> USE <1>1 DEF ReceivePost
  <2>1. TypeOK' /\ SessionFits'
    OBVIOUS
  <2>2. FreshIdsUnused' /\ RowLocksExclusive' /\ AdvisoryLocksExclusive'
    OBVIOUS
  <2>3. InsertsFoundNobody'
    BY SMTT(30)
  <2>4. UpdatesFoundTheRow'
    BY SMTT(30)
  <2>5. OneAccountPerEmail' /\ PostsDoNotClash' /\ OnlyReplaceMixes'
    OBVIOUS
  <2> QED BY <2>1, <2>2, <2>3, <2>4, <2>5
<1>2. ASSUME NEW id \in KnownIds, ReceivePut(r, id) PROVE AccountsInvariant'
  <2> USE <1>2 DEF ReceivePut
  <2> id \in Ids \union {NoRow}
    BY DEF KnownIds
  <2>1. TypeOK' /\ SessionFits'
    OBVIOUS
  <2>2. FreshIdsUnused' /\ RowLocksExclusive' /\ AdvisoryLocksExclusive'
    OBVIOUS
  <2>3. InsertsFoundNobody'
    BY SMTT(30)
  <2>4. UpdatesFoundTheRow'
    BY SMTT(30)
  <2>5. OneAccountPerEmail' /\ PostsDoNotClash' /\ OnlyReplaceMixes'
    OBVIOUS
  <2> QED BY <2>1, <2>2, <2>3, <2>4, <2>5
<1>3. ASSUME NEW id \in KnownIds, ReceiveDelete(r, id) PROVE AccountsInvariant'
  <2> USE <1>3 DEF ReceiveDelete
  <2> id \in Ids \union {NoRow}
    BY DEF KnownIds
  <2>1. TypeOK' /\ SessionFits'
    OBVIOUS
  <2>2. FreshIdsUnused' /\ RowLocksExclusive' /\ AdvisoryLocksExclusive'
    OBVIOUS
  <2>3. InsertsFoundNobody'
    BY SMTT(30)
  <2>4. UpdatesFoundTheRow'
    BY SMTT(30)
  <2>5. OneAccountPerEmail' /\ PostsDoNotClash' /\ OnlyReplaceMixes'
    OBVIOUS
  <2> QED BY <2>1, <2>2, <2>3, <2>4, <2>5
<1>4. ASSUME NEW id \in KnownIds, RejectPut(r, id) PROVE AccountsInvariant'
  <2> USE <1>4 DEF RejectPut, Answer
  <2> id \in Ids \union {NoRow}
    BY DEF KnownIds
  <2>1. TypeOK' /\ SessionFits'
    OBVIOUS
  <2>2. FreshIdsUnused' /\ RowLocksExclusive' /\ AdvisoryLocksExclusive'
    OBVIOUS
  <2>3. InsertsFoundNobody'
    BY SMTT(30)
  <2>4. UpdatesFoundTheRow'
    BY SMTT(30)
  <2>5. OneAccountPerEmail' /\ PostsDoNotClash' /\ OnlyReplaceMixes'
    OBVIOUS
  <2> QED BY <2>1, <2>2, <2>3, <2>4, <2>5
<1> QED BY <1>1, <1>2, <1>3, <1>4

\* A request that is refused changes nothing but its reply, and only one that waits
\* for the index is told of a clash.
LEMMA RefusalsKeepInvariant ==
  ASSUME AccountsInvariant, NEW r \in Requests,
         RefuseMissing(r) \/ RefuseUpload(r) \/ RefuseStale(r) \/ RefuseClash(r) \/ AbortDeadlock(r)
  PROVE  AccountsInvariant'
<1> USE RowAssumption, IdsAssumption
    DEF TypeOK, Kinds, Phases, Ids, Goto, requestVars, Exists, HoldsAdvisoryLock,
        HoldsRowLock, Changed, MovedTo, Replaced, AccountsInvariant, SessionFits,
        FreshIdsUnused, RowLocksExclusive, AdvisoryLocksExclusive, InsertsFoundNobody,
        UpdatesFoundTheRow, OneAccountPerEmail, PostsDoNotClash, OnlyReplaceMixes
<1>1. PICK what \in {"not_found", "bad_upload", "stale", "clash", "deadlock"} :
        /\ Refuse(r, what)
        /\ what = "clash" => pc[r] = "indexing" /\ Clashing(r) # {}
  BY DEF RefuseMissing, RefuseUpload, RefuseStale, RefuseClash, AbortDeadlock
<1>2. pc[r] \notin {"idle", "answered", "dead"}
  <2>1. InDeadlock(r) => Blockers(r) # {}
    BY DEF InDeadlock
  <2>2. Blockers(r) # {} => pc[r] \in {"indexing", "flushing"}
    BY DEF Blockers
  <2> QED BY <2>1, <2>2 DEF RefuseMissing, RefuseUpload, RefuseStale, RefuseClash, AbortDeadlock
<1> USE <1>1, <1>2 DEF Refuse, Answer
<1>3. TypeOK' /\ SessionFits'
  OBVIOUS
<1>4. FreshIdsUnused' /\ RowLocksExclusive' /\ AdvisoryLocksExclusive'
  OBVIOUS
<1>5. InsertsFoundNobody' /\ UpdatesFoundTheRow'
  OBVIOUS
<1>6. OneAccountPerEmail' /\ PostsDoNotClash' /\ OnlyReplaceMixes'
  BY DEF Clashing
<1> QED BY <1>3, <1>4, <1>5, <1>6

\* The steps of a session that write no row: its lookups, its locks, its end.
LEMMA QuietStepsKeepInvariant ==
  ASSUME AccountsInvariant, NEW r \in Requests,
         \/ \E u \in Uploads : Extracted(r, u)
         \/ AcquireAdvisoryLock(r)
         \/ \E id \in Ids : Select(r, id)
         \/ SelectNothing(r) \/ FlushNothing(r) \/ LockRow(r) \/ Refresh(r) \/ Die(r)
  PROVE  AccountsInvariant'
<1> USE RowAssumption, IdsAssumption
    DEF TypeOK, Kinds, Phases, Ids, Goto, requestVars, Exists, HoldsAdvisoryLock,
        HoldsRowLock, Changed, MovedTo, Replaced, AccountsInvariant, SessionFits,
        FreshIdsUnused, RowLocksExclusive, AdvisoryLocksExclusive, InsertsFoundNobody,
        UpdatesFoundTheRow, OneAccountPerEmail, PostsDoNotClash, OnlyReplaceMixes
<1>1. CASE \E u \in Uploads : Extracted(r, u)
  <2> USE <1>1 DEF Extracted
  <2>1. TypeOK' /\ SessionFits'
    OBVIOUS
  <2>2. FreshIdsUnused' /\ RowLocksExclusive' /\ AdvisoryLocksExclusive'
    OBVIOUS
  <2>3. InsertsFoundNobody' /\ UpdatesFoundTheRow'
    OBVIOUS
  <2>4. OneAccountPerEmail' /\ PostsDoNotClash' /\ OnlyReplaceMixes'
    OBVIOUS
  <2> QED BY <2>1, <2>2, <2>3, <2>4
<1>2. CASE AcquireAdvisoryLock(r)
  <2> USE <1>2 DEF AcquireAdvisoryLock
  <2>1. TypeOK' /\ SessionFits'
    OBVIOUS
  <2>2. FreshIdsUnused' /\ RowLocksExclusive' /\ AdvisoryLocksExclusive'
    OBVIOUS
  <2>3. InsertsFoundNobody' /\ UpdatesFoundTheRow'
    OBVIOUS
  <2>4. OneAccountPerEmail' /\ PostsDoNotClash' /\ OnlyReplaceMixes'
    OBVIOUS
  <2> QED BY <2>1, <2>2, <2>3, <2>4
<1>3. CASE \E id \in Ids : Select(r, id)
  <2> USE <1>3 DEF Select, Matches
  <2>1. TypeOK' /\ SessionFits'
    OBVIOUS
  <2>2. FreshIdsUnused' /\ RowLocksExclusive' /\ AdvisoryLocksExclusive'
    OBVIOUS
  <2>3. InsertsFoundNobody' /\ UpdatesFoundTheRow'
    OBVIOUS
  <2>4. OneAccountPerEmail' /\ PostsDoNotClash' /\ OnlyReplaceMixes'
    OBVIOUS
  <2> QED BY <2>1, <2>2, <2>3, <2>4
<1>4. CASE SelectNothing(r)
  <2> USE <1>4 DEF SelectNothing, Matches
  <2>1. TypeOK' /\ SessionFits'
    OBVIOUS
  <2>2. FreshIdsUnused' /\ RowLocksExclusive' /\ AdvisoryLocksExclusive'
    OBVIOUS
  <2>3. InsertsFoundNobody' /\ UpdatesFoundTheRow'
    OBVIOUS
  <2>4. OneAccountPerEmail' /\ PostsDoNotClash' /\ OnlyReplaceMixes'
    OBVIOUS
  <2> QED BY <2>1, <2>2, <2>3, <2>4
<1>5. CASE FlushNothing(r)
  <2> USE <1>5 DEF FlushNothing
  <2>1. TypeOK' /\ SessionFits'
    OBVIOUS
  <2>2. FreshIdsUnused' /\ RowLocksExclusive' /\ AdvisoryLocksExclusive'
    OBVIOUS
  <2>3. InsertsFoundNobody' /\ UpdatesFoundTheRow'
    OBVIOUS
  <2>4. OneAccountPerEmail' /\ PostsDoNotClash' /\ OnlyReplaceMixes'
    OBVIOUS
  <2> QED BY <2>1, <2>2, <2>3, <2>4
<1>6. CASE LockRow(r)
  <2> USE <1>6 DEF LockRow, RowFree
  <2>1. TypeOK' /\ SessionFits'
    OBVIOUS
  <2>2. FreshIdsUnused' /\ RowLocksExclusive' /\ AdvisoryLocksExclusive'
    OBVIOUS
  <2>3. InsertsFoundNobody' /\ UpdatesFoundTheRow'
    OBVIOUS
  <2>4. OneAccountPerEmail' /\ PostsDoNotClash' /\ OnlyReplaceMixes'
    OBVIOUS
  <2> QED BY <2>1, <2>2, <2>3, <2>4
<1>7. CASE Refresh(r)
  <2> USE <1>7 DEF Refresh, Answer
  <2>1. TypeOK' /\ SessionFits'
    OBVIOUS
  <2>2. FreshIdsUnused' /\ RowLocksExclusive' /\ AdvisoryLocksExclusive'
    OBVIOUS
  <2>3. InsertsFoundNobody' /\ UpdatesFoundTheRow'
    OBVIOUS
  <2>4. OneAccountPerEmail' /\ PostsDoNotClash' /\ OnlyReplaceMixes'
    OBVIOUS
  <2> QED BY <2>1, <2>2, <2>3, <2>4
<1>8. CASE Die(r)
  <2> USE <1>8 DEF Die
  <2>1. TypeOK' /\ SessionFits'
    OBVIOUS
  <2>2. FreshIdsUnused' /\ RowLocksExclusive' /\ AdvisoryLocksExclusive'
    OBVIOUS
  <2>3. InsertsFoundNobody' /\ UpdatesFoundTheRow'
    OBVIOUS
  <2>4. OneAccountPerEmail' /\ PostsDoNotClash' /\ OnlyReplaceMixes'
    OBVIOUS
  <2> QED BY <2>1, <2>2, <2>3, <2>4
<1> QED BY <1>1, <1>2, <1>3, <1>4, <1>5, <1>6, <1>7, <1>8

\* An UPDATE that leaves the address alone: the row keeps its address, and it is the
\* upload unless a PUT had a part in it.
LEMMA FlushUpdateKeepsInvariant ==
  ASSUME AccountsInvariant, NEW r \in Requests, FlushUpdate(r)
  PROVE  AccountsInvariant'
<1> USE RowAssumption, IdsAssumption
    DEF TypeOK, Kinds, Phases, Ids, Goto, requestVars, Exists, HoldsAdvisoryLock,
        HoldsRowLock, Changed, MovedTo, Replaced, AccountsInvariant, SessionFits,
        FreshIdsUnused, RowLocksExclusive, AdvisoryLocksExclusive, InsertsFoundNobody,
        UpdatesFoundTheRow, OneAccountPerEmail, PostsDoNotClash, OnlyReplaceMixes
<1> USE DEF FlushUpdate, RowFree
<1> DEFINE id == record[r]
<1>1. /\ id \in Ids /\ users[id] \in Uploads /\ upload[r] \in Uploads /\ loaded[r] \in Uploads
      /\ kind[r] \in {"post", "put"} /\ r \notin wrote
  OBVIOUS
<1>2. /\ users' = [users EXCEPT ![id] = Updated(users[id], r)]
      /\ Updated(users[id], r) \in Uploads
      /\ Updated(users[id], r).email = users[id].email
      /\ users[id] = loaded[r] => Updated(users[id], r) = upload[r]
  BY <1>1, UpdatedColumns
<1>3. TypeOK' /\ SessionFits'
  BY <1>1, <1>2
<1>4. FreshIdsUnused' /\ RowLocksExclusive' /\ AdvisoryLocksExclusive'
  BY <1>1, <1>2
<1>5. InsertsFoundNobody'
  BY <1>1, <1>2
<1>6. UpdatesFoundTheRow'
  BY <1>1, <1>2
<1>7. OneAccountPerEmail'
  BY <1>1, <1>2
<1>8. PostsDoNotClash'
  BY <1>1, <1>2
<1>9. OnlyReplaceMixes'
  BY <1>1, <1>2
<1> QED BY <1>3, <1>4, <1>5, <1>6, <1>7, <1>8, <1>9

\* A write that got its index entry: no other row has the address, and the row either
\* is new and as uploaded, or a PUT moved it.
LEMMA WriteIndexedKeepsInvariant ==
  ASSUME AccountsInvariant, NEW r \in Requests, WriteIndexed(r)
  PROVE  AccountsInvariant'
<1> USE RowAssumption, IdsAssumption
    DEF TypeOK, Kinds, Phases, Ids, Goto, requestVars, Exists, HoldsAdvisoryLock,
        HoldsRowLock, Changed, MovedTo, Replaced, AccountsInvariant, SessionFits,
        FreshIdsUnused, RowLocksExclusive, AdvisoryLocksExclusive, InsertsFoundNobody,
        UpdatesFoundTheRow, OneAccountPerEmail, PostsDoNotClash, OnlyReplaceMixes
<1> USE DEF WriteIndexed
<1> DEFINE id == record[r]
           row == IF users[id] = NoRow THEN upload[r] ELSE Updated(users[id], r)
<1>1. id \in Ids /\ upload[r] \in Uploads /\ r \notin wrote
  OBVIOUS
<1>2. \A other \in Ids \ {id} : users[other] # NoRow => users[other].email # upload[r].email
  BY <1>1 DEF Clashing
<1>3. /\ users' = [users EXCEPT ![id] = row]
      /\ row \in Uploads /\ row.email = upload[r].email
      /\ \/ kind[r] = "post" /\ id = r /\ loaded[r] = NoRow /\ users[id] = NoRow /\ row = upload[r]
         \/ kind[r] = "put" /\ loaded[r] # NoRow /\ users[id] # NoRow
  <2>1. CASE loaded[r] = NoRow
    BY <1>1, <2>1
  <2>2. CASE loaded[r] # NoRow
    <3>1. users[id] \in Uploads /\ loaded[r] \in Uploads /\ "email" \in Changed(r) /\ kind[r] = "put"
      BY <1>1, <2>2
    <3>2. row = Updated(users[id], r)
      BY <3>1
    <3> QED BY <1>1, <2>2, <3>1, <3>2, UpdatedColumns
  <2>3. users' = [users EXCEPT ![id] = row]
    OBVIOUS
  <2> HIDE DEF row
  <2> QED BY <2>1, <2>2, <2>3
<1> HIDE DEF row
<1>4. TypeOK' /\ SessionFits'
  BY <1>1, <1>3
<1>5. FreshIdsUnused' /\ RowLocksExclusive' /\ AdvisoryLocksExclusive'
  BY <1>1, <1>3
<1>6. InsertsFoundNobody'
  BY <1>1, <1>3
<1>7. UpdatesFoundTheRow'
  BY <1>1, <1>3
<1>8. OneAccountPerEmail'
  BY <1>1, <1>2, <1>3
<1>9. PostsDoNotClash'
  BY <1>1, <1>3
<1>10. OnlyReplaceMixes'
  BY <1>1, <1>3
<1> QED BY <1>4, <1>5, <1>6, <1>7, <1>8, <1>9, <1>10

\* A DELETE that commits takes the row of nobody who waits for the index.
LEMMA DeleteKeepsInvariant ==
  ASSUME AccountsInvariant, NEW r \in Requests, Delete(r)
  PROVE  AccountsInvariant'
<1> USE RowAssumption, IdsAssumption
    DEF TypeOK, Kinds, Phases, Ids, Goto, requestVars, Exists, HoldsAdvisoryLock,
        HoldsRowLock, Changed, MovedTo, Replaced, AccountsInvariant, SessionFits,
        FreshIdsUnused, RowLocksExclusive, AdvisoryLocksExclusive, InsertsFoundNobody,
        UpdatesFoundTheRow, OneAccountPerEmail, PostsDoNotClash, OnlyReplaceMixes
<1> USE DEF Delete, RowFree, Answer
<1>1. TypeOK' /\ SessionFits'
  OBVIOUS
<1>2. FreshIdsUnused' /\ RowLocksExclusive' /\ AdvisoryLocksExclusive'
  OBVIOUS
<1>3. InsertsFoundNobody' /\ UpdatesFoundTheRow'
  OBVIOUS
<1>4. OneAccountPerEmail' /\ PostsDoNotClash' /\ OnlyReplaceMixes'
  OBVIOUS
<1> QED BY <1>1, <1>2, <1>3, <1>4

\* The sessions, rows and locks of UserAccounts fit together in every reachable state.
THEOREM InvariantHolds == Spec => []AccountsInvariant
<1>1. AccountsInvariant /\ [Next]_vars => AccountsInvariant'
  <2> SUFFICES ASSUME AccountsInvariant, [Next]_vars PROVE AccountsInvariant'
    OBVIOUS
  <2>1. ASSUME NEW r \in Requests, Step(r) PROVE AccountsInvariant'
    BY <2>1, RefusalsKeepInvariant, QuietStepsKeepInvariant, FlushUpdateKeepsInvariant,
       WriteIndexedKeepsInvariant, DeleteKeepsInvariant DEF Step
  <2>2. ASSUME NEW r \in Requests,
               \/ ReceivePost(r)
               \/ \E id \in KnownIds : ReceivePut(r, id) \/ ReceiveDelete(r, id) \/ RejectPut(r, id)
        PROVE  AccountsInvariant'
    BY <2>2, ArrivalsKeepInvariant
  <2>3. ASSUME NEW r \in Requests, Die(r) PROVE AccountsInvariant'
    BY <2>3, QuietStepsKeepInvariant
  <2>4. CASE UNCHANGED vars
    BY <2>4 DEF vars, requestVars, AccountsInvariant, TypeOK, SessionFits, FreshIdsUnused,
         RowLocksExclusive, AdvisoryLocksExclusive, InsertsFoundNobody, UpdatesFoundTheRow,
         OneAccountPerEmail, PostsDoNotClash, OnlyReplaceMixes, Exists, HoldsAdvisoryLock,
         HoldsRowLock, Changed, MovedTo, Replaced
  <2> QED BY <2>1, <2>2, <2>3, <2>4 DEF Next
<1> QED BY InvariantInitially, <1>1, PTL DEF Spec

\* Type correctness: sessions hold ids and uploads, and the table nothing but uploads.
THEOREM TypeCorrect == Spec => []TypeOK
BY InvariantHolds, PTL DEF AccountsInvariant

\* uq_users_email: whatever creations, moves of an address and deletions overlap, no
\* two users share one.
THEOREM OneAccountPerEmailHolds == Spec => []OneAccountPerEmail
BY InvariantHolds, PTL DEF AccountsInvariant

\* create_user is idempotent on the address: the constraint stops a POST only after a
\* PUT has moved the address to a user.
THEOREM PostsDoNotClashHolds == Spec => []PostsDoNotClash
BY InvariantHolds, PTL DEF AccountsInvariant

\* The advisory lock makes POSTs replace each other whole: a row that mixes two uploads
\* was written by a PUT.
THEOREM OnlyReplaceMixesHolds == Spec => []OnlyReplaceMixes
BY InvariantHolds, PTL DEF AccountsInvariant

\* pg_advisory_xact_lock on the address: of two POSTs between lock and commit the
\* addresses differ.
THEOREM AdvisoryLocksExclusiveHolds == Spec => []AdvisoryLocksExclusive
BY InvariantHolds, PTL DEF AccountsInvariant

\* A step writes a row that does not exist only to insert it under an id nobody has used.
LEMMA OnlyInsertsRevive ==
  ASSUME AccountsInvariant, [Next]_vars, NEW id \in Ids, ~Exists(id), users'[id] # NoRow
  PROVE  id \in Requests \ wrote
<1>1. PICK r \in Requests : FlushUpdate(r) \/ WriteIndexed(r) \/ Delete(r)
  <2>1. UNCHANGED users => FALSE
    BY DEF Exists
  <2> QED BY <2>1 DEF Next, Step, vars, requestVars, ReceivePost, ReceivePut, ReceiveDelete,
      RejectPut, RefuseMissing, RefuseUpload, Refuse, Extracted, AcquireAdvisoryLock, Select,
      SelectNothing, FlushNothing, LockRow, RefuseStale, RefuseClash, AbortDeadlock, Refresh, Die,
      Answer
<1> USE DEF AccountsInvariant, TypeOK, SessionFits, Exists
<1>2. CASE FlushUpdate(r)
  BY <1>1, <1>2 DEF FlushUpdate
<1>3. CASE WriteIndexed(r)
  BY <1>1, <1>3 DEF WriteIndexed, RowLocksExclusive, HoldsRowLock
<1>4. CASE Delete(r)
  BY <1>1, <1>4 DEF Delete
<1> QED BY <1>1, <1>2, <1>3, <1>4

\* DELETE is final: no update whose session had loaded the row brings it back.
THEOREM DeletedStaysDeletedHolds == Spec => DeletedStaysDeleted
<1>1. AccountsInvariant /\ [Next]_vars =>
        [\A id \in Ids : (\E r \in wrote : record[r] = id) /\ ~Exists(id) => users'[id] = NoRow]_vars
  <2> SUFFICES ASSUME AccountsInvariant, [Next]_vars, NEW id \in Ids, NEW r \in wrote,
                      record[r] = id, ~Exists(id), users'[id] # NoRow
               PROVE  FALSE
    OBVIOUS
  <2>1. id \in Requests \ wrote
    BY OnlyInsertsRevive
  <2>2. r \in Requests
    BY DEF AccountsInvariant, TypeOK
  <2> QED BY <2>1, <2>2 DEF AccountsInvariant, FreshIdsUnused
<1> QED BY InvariantHolds, <1>1, PTL DEF Spec, DeletedStaysDeleted
=============================================================================
