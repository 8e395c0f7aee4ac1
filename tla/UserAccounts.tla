---------------------------- MODULE UserAccounts ----------------------------
(***************************************************************************)
(* The users table under concurrent uploads: transaction/users.py and the  *)
(* handlers of api/user_api.py, POST, PUT and DELETE of /user.             *)
(*                                                                         *)
(* A row has three columns: email, its unique key, profile, which stands   *)
(* for what the model extracted, and resume, for the file's name and hash. *)
(* The session's unit of work matters: a SELECT puts the row into the      *)
(* session, and the flush writes only those columns whose new value        *)
(* differs from the loaded one.  Every transaction is READ COMMITTED.  A   *)
(* flush that has all its locks and the commit behind it are one step:     *)
(* nobody can see or stop what happens between them.                       *)
(***************************************************************************)
EXTENDS FiniteSets

CONSTANTS
  Requests,   \* calls of the three handlers
  OldUsers,   \* the users that exist at the start: id -> row
  Emails,     \* canonical addresses
  Profiles,   \* what is extracted from a resume and its form
  Resumes,    \* uploaded files
  NoRow       \* the SELECT returned nothing, the row does not exist

Accounts == DOMAIN OldUsers

\* A new user's id is fresh (uuid4): it is named by the request that inserts it.
Ids == Accounts \union Requests
Uploads == [email : Emails, profile : Profiles, resume : Resumes]
Columns == {"email", "profile", "resume"}
Kinds == {"none", "post", "put", "delete"}

ASSUME RowAssumption == NoRow \notin Uploads /\ NoRow \notin Ids
ASSUME IdsAssumption == Accounts \intersect Requests = {}
ASSUME OldUsersAssumption ==
  /\ OldUsers \in [Accounts -> Uploads]
  /\ \A a, b \in Accounts : OldUsers[a].email = OldUsers[b].email => a = b

VARIABLES
  kind,      \* which handler the request called
  target,    \* the user id in the path of a PUT or DELETE
  upload,    \* the row the request's resume and form amount to, once extracted
  users,     \* the table: id -> row
  original,  \* the table at the start (history)
  pc,        \* where the handler is
  record,    \* the id of the row the session holds
  loaded,    \* that row as the session loaded it
  wrote,     \* requests whose transaction changed the table (history)
  reply      \* what the caller was told

requestVars == <<kind, target, upload>>
vars == <<requestVars, users, original, pc, record, loaded, wrote, reply>>

Phases == {"idle", "extracting", "locking", "selecting", "flushing",
           "indexing", "refreshing", "answered", "dead"}

Exists(id) == users[id] # NoRow

\* The columns a flush writes: the unit of work compares with what was loaded.
Changed(r) == {c \in Columns : loaded[r][c] # upload[r][c]}

\* Broken variant: the row keeps nothing but the changed columns.
ChangedOnly(row, r) == [c \in Changed(r) |-> upload[r][c]]

\* The row after the UPDATE: changed columns only, over its latest version.
Updated(row, r) == [c \in Columns |-> IF c \in Changed(r) THEN upload[r][c] ELSE row[c]]

\* Broken variant: a session lock, which a dead request's connection keeps.
SessionAdvisoryLock(r) ==
  /\ kind[r] = "post" /\ upload[r] # NoRow
  /\ pc[r] \in {"selecting", "flushing", "indexing", "dead"}

\* pg_advisory_xact_lock on the address: from its statement to the end of the transaction.
HoldsAdvisoryLock(r) ==
  kind[r] = "post" /\ pc[r] \in {"selecting", "flushing", "indexing"}

\* An UPDATE that waits for the unique index already has its row's lock.
HoldsRowLock(r, id) ==
  pc[r] = "indexing" /\ record[r] = id /\ loaded[r] # NoRow
RowFree(id) == \A r \in Requests : ~HoldsRowLock(r, id)

\* Rows that stand in the way of r's new index entry (uq_users_email).
Clashing(r) == {id \in Ids \ {record[r]} : Exists(id) /\ users[id].email = upload[r].email}

\* A clash with a row that another transaction is changing waits for that transaction.
IndexBlockers(r) ==
  {q \in Requests \ {r} : \E id \in Clashing(r) : HoldsRowLock(q, id)}

\* Whom a request waits for, once its statement is sent.
Blockers(r) ==
  CASE pc[r] = "indexing" -> IndexBlockers(r)
    [] pc[r] = "flushing" /\ record[r] # NoRow ->
         {q \in Requests \ {r} : HoldsRowLock(q, record[r])}
    [] OTHER -> {}

\* The waits form a cycle through r.
InDeadlock(r) ==
  \E S \in SUBSET Requests :
    /\ r \in S
    /\ \A q \in S : /\ Blockers(q) \intersect S # {}
                    /\ \E p \in S : q \in Blockers(p)

Goto(r, phase) == pc' = [pc EXCEPT ![r] = phase]

Answer(r, what) ==
  /\ Goto(r, "answered")
  /\ reply' = [reply EXCEPT ![r] = what]

\* The end of a request that changed nothing: its transaction is rolled back.
Refuse(r, what) ==
  /\ Answer(r, what)
  /\ UNCHANGED <<requestVars, users, original, record, loaded, wrote>>

Init ==
  /\ kind = [r \in Requests |-> "none"]
  /\ target = [r \in Requests |-> NoRow]
  /\ upload = [r \in Requests |-> NoRow]
  /\ users = [id \in Ids |-> IF id \in Accounts THEN OldUsers[id] ELSE NoRow]
  /\ original = users
  /\ pc = [r \in Requests |-> "idle"]
  /\ record = [r \in Requests |-> NoRow]
  /\ loaded = [r \in Requests |-> NoRow]
  /\ wrote = {}
  /\ reply = [r \in Requests |-> "none"]

-----------------------------------------------------------------------------
(* From the request to the user it amounts to.                             *)

\* Ids a caller can know: those of old accounts, and those a POST has returned.
KnownIds == Accounts \union {record[q] : q \in {p \in Requests : reply[p] = "ok"}}

ReceivePost(r) ==
  /\ pc[r] = "idle"
  /\ kind' = [kind EXCEPT ![r] = "post"]
  /\ Goto(r, "extracting")
  /\ UNCHANGED <<target, upload, users, original, record, loaded, wrote, reply>>

\* A PUT looks its user up first; the object is dropped, so nothing stays loaded.
ReceivePut(r, id) ==
  /\ pc[r] = "idle"
  /\ Exists(id)
  /\ kind' = [kind EXCEPT ![r] = "put"]
  /\ target' = [target EXCEPT ![r] = id]
  /\ Goto(r, "extracting")
  /\ UNCHANGED <<upload, users, original, record, loaded, wrote, reply>>

ReceiveDelete(r, id) ==
  /\ pc[r] = "idle"
  /\ kind' = [kind EXCEPT ![r] = "delete"]
  /\ target' = [target EXCEPT ![r] = id]
  /\ Goto(r, "selecting")
  /\ UNCHANGED <<upload, users, original, record, loaded, wrote, reply>>

\* The first lookup of a PUT finds nothing.
RejectPut(r, id) ==
  /\ pc[r] = "idle"
  /\ ~Exists(id)
  /\ kind' = [kind EXCEPT ![r] = "put"]
  /\ target' = [target EXCEPT ![r] = id]
  /\ Answer(r, "not_found")
  /\ UNCHANGED <<upload, users, original, record, loaded, wrote>>

\* get_user_by_id finds nothing when the row is to be written: 404.
RefuseMissing(r) ==
  /\ pc[r] = "selecting" /\ kind[r] # "post"
  /\ ~Exists(target[r])
  /\ Refuse(r, "not_found")

\* The upload is unacceptable, or the model fails: the handler raises.
RefuseUpload(r) ==
  /\ pc[r] = "extracting"
  /\ Refuse(r, "bad_upload")

\* The model has answered: a POST asks for the address's lock, a PUT selects at once.
Extracted(r, u) ==
  /\ pc[r] = "extracting"
  /\ upload' = [upload EXCEPT ![r] = u]
  /\ Goto(r, IF kind[r] = "post" THEN "locking" ELSE "selecting")
  /\ UNCHANGED <<kind, target, users, original, record, loaded, wrote, reply>>

\* Broken variant: a POST goes on without the lock.
SkipAdvisoryLock(r) ==
  /\ pc[r] = "locking"
  /\ Goto(r, "selecting")
  /\ UNCHANGED <<requestVars, users, original, record, loaded, wrote, reply>>

AcquireAdvisoryLock(r) ==
  /\ pc[r] = "locking"
  /\ \A q \in Requests \ {r} : HoldsAdvisoryLock(q) => upload[q].email # upload[r].email
  /\ Goto(r, "selecting")
  /\ UNCHANGED <<requestVars, users, original, record, loaded, wrote, reply>>

-----------------------------------------------------------------------------
(* The writing transaction.                                                *)

\* get_user_by_email of a POST, get_user_by_id of a PUT or a DELETE: no row lock.
Matches(r, id) ==
  /\ Exists(id)
  /\ IF kind[r] = "post" THEN users[id].email = upload[r].email ELSE id = target[r]

Select(r, id) ==
  /\ pc[r] = "selecting"
  /\ Matches(r, id)
  /\ record' = [record EXCEPT ![r] = id]
  /\ loaded' = [loaded EXCEPT ![r] = users[id]]
  /\ Goto(r, "flushing")
  /\ UNCHANGED <<requestVars, users, original, wrote, reply>>

\* A POST that finds no user adds one with a fresh id.
SelectNothing(r) ==
  /\ pc[r] = "selecting" /\ kind[r] = "post"
  /\ \A id \in Ids : ~Matches(r, id)
  /\ record' = [record EXCEPT ![r] = r]
  /\ Goto(r, "indexing")
  /\ UNCHANGED <<requestVars, users, original, loaded, wrote, reply>>

\* Nothing differs from the loaded row: the flush sends no statement.
FlushNothing(r) ==
  /\ pc[r] = "flushing" /\ kind[r] # "delete"
  /\ Changed(r) = {}
  /\ Goto(r, "refreshing")
  /\ UNCHANGED <<requestVars, users, original, record, loaded, wrote, reply>>

\* Broken variant: the update puts the loaded row back if it is gone.
FlushMerge(r) ==
  /\ pc[r] = "flushing" /\ kind[r] # "delete"
  /\ Changed(r) # {} /\ "email" \notin Changed(r)
  /\ RowFree(record[r])
  /\ users' = [users EXCEPT ![record[r]] = upload[r]]
  /\ wrote' = wrote \union {r}
  /\ Goto(r, "refreshing")
  /\ UNCHANGED <<requestVars, original, record, loaded, reply>>

\* The UPDATE has its row lock, and leaves the address alone: it commits.
FlushUpdate(r) ==
  /\ pc[r] = "flushing" /\ kind[r] # "delete"
  /\ Changed(r) # {} /\ "email" \notin Changed(r)
  /\ Exists(record[r]) /\ RowFree(record[r])
  /\ users' = [users EXCEPT ![record[r]] = Updated(@, r)]
  /\ wrote' = wrote \union {r}
  /\ Goto(r, "refreshing")
  /\ UNCHANGED <<requestVars, original, record, loaded, reply>>

\* The UPDATE has its row lock, and changes the address: its index entry comes next.
LockRow(r) ==
  /\ pc[r] = "flushing" /\ kind[r] # "delete"
  /\ "email" \in Changed(r)
  /\ Exists(record[r]) /\ RowFree(record[r])
  /\ Goto(r, "indexing")
  /\ UNCHANGED <<requestVars, users, original, record, loaded, wrote, reply>>

\* The row went away after the SELECT: the UPDATE matches no row and the flush raises.
RefuseStale(r) ==
  /\ pc[r] = "flushing" /\ kind[r] # "delete"
  /\ Changed(r) # {} /\ ~Exists(record[r])
  /\ Refuse(r, "stale")

\* The new index entry clashes with a row that nobody is changing.
RefuseClash(r) ==
  /\ pc[r] = "indexing"
  /\ IndexBlockers(r) = {} /\ Clashing(r) # {}
  /\ Refuse(r, "clash")

\* Broken variant: the unique constraint on the address is missing.
WriteIndexedUnchecked(r) ==
  /\ pc[r] = "indexing"
  /\ users' = [users EXCEPT ![record[r]] = IF @ = NoRow THEN upload[r] ELSE Updated(@, r)]
  /\ wrote' = wrote \union {r}
  /\ Goto(r, "refreshing")
  /\ UNCHANGED <<requestVars, original, record, loaded, reply>>

\* An INSERT, or an UPDATE that changes the address, gets its index entry and commits.
WriteIndexed(r) ==
  /\ pc[r] = "indexing"
  /\ Clashing(r) = {}
  /\ users' = [users EXCEPT ![record[r]] = IF @ = NoRow THEN upload[r] ELSE Updated(@, r)]
  /\ wrote' = wrote \union {r}
  /\ Goto(r, "refreshing")
  /\ UNCHANGED <<requestVars, original, record, loaded, reply>>

\* Two updates wait for each other: PostgreSQL aborts one of them.
AbortDeadlock(r) ==
  /\ InDeadlock(r)
  /\ Refuse(r, "deadlock")

\* The DELETE has its row lock and commits; a row already gone is only warned about.
Delete(r) ==
  /\ pc[r] = "flushing" /\ kind[r] = "delete"
  /\ RowFree(record[r])
  /\ users' = [users EXCEPT ![record[r]] = NoRow]
  /\ wrote' = wrote \union {r}
  /\ Answer(r, "ok")
  /\ UNCHANGED <<requestVars, original, record, loaded>>

\* session.refresh reads the row again after the commit, if it is still there.
Refresh(r) ==
  /\ pc[r] = "refreshing"
  /\ Answer(r, IF Exists(record[r]) THEN "ok" ELSE "gone")
  /\ UNCHANGED <<requestVars, users, original, record, loaded, wrote>>

\* The process dies or the client leaves: an open transaction is rolled back.
Die(r) ==
  /\ pc[r] \notin {"idle", "answered", "dead"}
  /\ Goto(r, "dead")
  /\ UNCHANGED <<requestVars, users, original, record, loaded, wrote, reply>>

Step(r) ==
  \/ RefuseMissing(r) \/ RefuseUpload(r)
  \/ \E u \in Uploads : Extracted(r, u)
  \/ AcquireAdvisoryLock(r)
  \/ \E id \in Ids : Select(r, id)
  \/ SelectNothing(r)
  \/ FlushNothing(r) \/ FlushUpdate(r) \/ LockRow(r)
  \/ RefuseStale(r) \/ RefuseClash(r) \/ WriteIndexed(r) \/ AbortDeadlock(r)
  \/ Delete(r) \/ Refresh(r)

Next ==
  \/ \E r \in Requests : ReceivePost(r) \/ Step(r)
  \/ \E r \in Requests, id \in KnownIds :
       ReceivePut(r, id) \/ ReceiveDelete(r, id) \/ RejectPut(r, id)
  \/ \E r \in Requests : Die(r)

Spec == Init /\ [][Next]_vars

\* A request that is running goes on; it is not forced to arrive.
Fairness == \A r \in Requests : WF_vars(pc[r] # "idle" /\ Step(r))
FairSpec == Spec /\ Fairness

-----------------------------------------------------------------------------
(* Properties.                                                             *)

\* Every variable keeps its type.
TypeOK ==
  /\ kind \in [Requests -> Kinds]
  /\ target \in [Requests -> Ids \union {NoRow}]
  /\ upload \in [Requests -> Uploads \union {NoRow}]
  /\ users \in [Ids -> Uploads \union {NoRow}]
  /\ original \in [Ids -> Uploads \union {NoRow}]
  /\ pc \in [Requests -> Phases]
  /\ record \in [Requests -> Ids \union {NoRow}]
  /\ loaded \in [Requests -> Uploads \union {NoRow}]
  /\ wrote \in SUBSET Requests
  /\ reply \in [Requests -> {"none", "ok", "not_found", "bad_upload", "stale",
                             "clash", "deadlock", "gone"}]

\* No two users ever share an address, whatever the order of creations, replacements
\* that move an address, and deletions.
OneAccountPerEmail ==
  \A a, b \in Ids :
    Exists(a) /\ Exists(b) /\ users[a].email = users[b].email => a = b

\* A POST is idempotent on its address: it runs into the unique constraint only when
\* a PUT gave the address to a user after the POST had looked.
PostsDoNotClash ==
  \A r \in Requests :
    kind[r] = "post" /\ reply[r] = "clash" =>
      \E p \in wrote : kind[p] = "put" /\ upload[p].email = upload[r].email

\* A row that is no single upload was written by a PUT: uploads that are only
\* POSTed replace each other as a whole, because the lock serialises them.
OnlyReplaceMixes ==
  \A id \in Ids :
    Exists(id) => \/ users[id] = original[id]
                  \/ \E r \in Requests : users[id] = upload[r]
                  \/ \E p \in wrote : kind[p] = "put" /\ record[p] = id

\* A user that was deleted stays deleted: no update that had loaded the row before
\* brings it back.
DeletedStaysDeleted ==
  [][\A id \in Ids :
       (\E r \in wrote : record[r] = id) /\ ~Exists(id) => users'[id] = NoRow]_vars

\* A request that is being served ends, an upload as well as a DELETE: neither the lock on
\* an address nor row and index waits keep requests waiting for each other.
EveryRequestEnds ==
  \A r \in Requests : pc[r] # "idle" ~> pc[r] \in {"answered", "dead"}

\* "Replace an existing user" (transaction/users.py:76): a stored user is what one
\* upload said, never a mixture of two.
StoredUserIsOneUpload ==
  \A id \in Ids :
    Exists(id) => users[id] = original[id] \/ \E r \in Requests : users[id] = upload[r]
=============================================================================
