---------------------------- MODULE ResponseCache ----------------------------
(***************************************************************************)
(* A function under the decorator of utils/redis_cache.py or of            *)
(* utils/disk_cache.py, as utils/caching.py chooses; the functions are     *)
(* those that ask a language model.  Calls run in processes: one event     *)
(* loop runs a call from one await to the next, so what a cache reads or   *)
(* writes is interleaved only with other processes, which share the Redis  *)
(* server or the directory.  A thread that runs a synchronous function is  *)
(* a process of its own here.                                              *)
(*                                                                         *)
(* A file is named by the call that created it; its directory entries are  *)
(* the published <key>.pkl and the temporary <key>.tmp.  A pickle fits the *)
(* write buffer: it reaches the file whole, when the handle is closed.  A  *)
(* directory may still hold bare results, written before entries had an    *)
(* expiry; the one under a key stands for itself.                          *)
(***************************************************************************)
EXTENDS Naturals

CONSTANTS
  Calls,    \* calls of cached functions, each made once
  Keys,     \* what the key builders return
  Home,     \* call -> the process it runs in
  TTLs,     \* times to live a function may have; 0 stands for zero or less
  Forever,  \* no expiry
  Bare,     \* keys under which the directory has bare results at first
  Nobody,   \* no call, no file
  MaxTime   \* bound on the clock, for model checking only

ASSUME TTLAssumption == TTLs \subseteq Nat \union {Forever} /\ Forever \notin Nat
ASSUME NobodyAssumption == Nobody \notin Calls \union Keys
ASSUME KeysAssumption == Keys \intersect Calls = {} /\ Bare \subseteq Keys
ASSUME MaxTimeAssumption == MaxTime \in Nat

VARIABLES
  backend,    \* "redis" or "disk", fixed at start-up
  ttl,        \* time to live of the function's results
  now,        \* the clock
  pc,         \* where a call is
  key,        \* its key
  answer,     \* whose result it returned; a key stands for the bare one under it
  failure,    \* why it raised
  storedAt,   \* when it began to store its result, MaxTime + 1 if never (history)
  published,  \* key -> the file under <key>.pkl, or the Redis entry
  temp,       \* key -> the file under <key>.tmp
  handle,     \* call -> the file it has open for writing
  content,    \* file -> the entry in it; one by Nobody is an empty file
  bare        \* keys under which a bare result is published

callVars == <<pc, key, answer, failure, storedAt>>
fileVars == <<published, temp, handle, content, bare>>
vars == <<backend, ttl, now, callVars, fileVars>>

Phases == {"new", "unlinking", "computing", "dumping", "replacing", "returned", "raised", "dead"}
Over == {"returned", "raised", "dead"}
Never == MaxTime + 1
Empty == [by |-> Nobody, expires |-> Forever]

\* Broken variant: an entry is good at the instant it expires.
ExpiredStrictly(f) == content[f].expires # Forever /\ now > content[f].expires
Expired(f) == content[f].expires # Forever /\ now >= content[f].expires

Whole(f) == f # Nobody /\ content[f].by # Nobody

\* The file under the key loads, and its entry has not expired.
Live(k) == Whole(published[k]) /\ ~Expired(published[k])

\* Reading and writing a cache hold the event loop: no other call of the process moves.
MayRun(c) ==
  \A d \in Calls \ {c} :
    Home[d] = Home[c] => pc[d] \notin {"unlinking", "dumping", "replacing"}

\* Broken variant: one temporary file for the directory.
SharedTemp(k) == CHOOSE l \in Keys : TRUE
TempName(k) == k

Return(c, d) ==
  /\ pc' = [pc EXCEPT ![c] = "returned"]
  /\ answer' = [answer EXCEPT ![c] = d]
  /\ UNCHANGED failure
Raise(c, why) ==
  /\ pc' = [pc EXCEPT ![c] = "raised"]
  /\ failure' = [failure EXCEPT ![c] = why]
  /\ UNCHANGED answer
Goto(c, phase) ==
  /\ pc' = [pc EXCEPT ![c] = phase]
  /\ UNCHANGED <<answer, failure>>

Init ==
  /\ backend \in {"redis", "disk"}
  /\ ttl \in TTLs
  /\ now = 0
  /\ pc = [c \in Calls |-> "new"]
  /\ key = [c \in Calls |-> Nobody]
  /\ answer = [c \in Calls |-> Nobody]
  /\ failure = [c \in Calls |-> "none"]
  /\ storedAt = [c \in Calls |-> Never]
  /\ published = [k \in Keys |-> Nobody]
  /\ temp = [k \in Keys |-> Nobody]
  /\ handle = [c \in Calls |-> Nobody]
  /\ content = [c \in Calls |-> Empty]
  /\ bare = IF backend = "disk" THEN Bare ELSE {}

-----------------------------------------------------------------------------
(* The lookup.                                                             *)

Begin(c, k) ==
  /\ pc[c] = "new" /\ MayRun(c)
  /\ key' = [key EXCEPT ![c] = k]
  /\ UNCHANGED <<backend, ttl, now, storedAt>>

Hit(c, k) ==
  /\ Begin(c, k)
  /\ Live(k)
  /\ Return(c, content[published[k]].by)
  /\ UNCHANGED fileVars

\* A bare result is good whatever its age.
HitBare(c, k) ==
  /\ Begin(c, k)
  /\ k \in bare
  /\ Return(c, k)
  /\ UNCHANGED fileVars

\* Nothing there, an entry that does not load, or a store that does not answer.
Miss(c, k) ==
  /\ Begin(c, k)
  /\ Goto(c, "computing")
  /\ UNCHANGED fileVars

\* Redis drops what has expired; on disk the reader does.
FindExpired(c, k) ==
  /\ Begin(c, k)
  /\ backend = "disk"
  /\ Whole(published[k]) /\ Expired(published[k])
  /\ Goto(c, "unlinking")
  /\ UNCHANGED fileVars

\* Whatever is under the name by now.
UnlinkExpired(c) ==
  /\ pc[c] = "unlinking"
  /\ Goto(c, "computing")
  /\ published' = [published EXCEPT ![key[c]] = Nobody]
  /\ bare' = bare \ {key[c]}
  /\ UNCHANGED <<backend, ttl, now, key, storedAt, temp, handle, content>>

-----------------------------------------------------------------------------
(* The function, and the store of its result.                              *)

FunctionRaises(c) ==
  /\ pc[c] = "computing" /\ MayRun(c)
  /\ Raise(c, "function")
  /\ UNCHANGED <<backend, ttl, now, key, storedAt, fileVars>>

\* A time to live of zero or less: nothing is stored.
ReturnUncached(c) ==
  /\ pc[c] = "computing" /\ MayRun(c)
  /\ ttl = 0
  /\ Return(c, c)
  /\ storedAt' = [storedAt EXCEPT ![c] = now]
  /\ UNCHANGED <<backend, ttl, now, key, fileVars>>

StartStore(c, kind) ==
  /\ pc[c] = "computing" /\ MayRun(c)
  /\ backend = kind /\ ttl # 0
  /\ storedAt' = [storedAt EXCEPT ![c] = now]
  /\ UNCHANGED <<backend, ttl, now, key>>

\* Broken variant: the time to live is taken off the clock.
EntryBackdated(c) ==
  [by |-> c, expires |-> IF ttl = Forever THEN Forever ELSE storedAt[c] - ttl]

EntryOf(c) ==
  [by |-> c, expires |-> IF ttl = Forever THEN Forever ELSE storedAt[c] + ttl]

\* SET with the expiry: the entry is there at once.
RedisStores(c) ==
  /\ StartStore(c, "redis")
  /\ published' = [published EXCEPT ![key[c]] = c]
  /\ content' = [content EXCEPT ![c] = EntryOf(c)']
  /\ Return(c, c)
  /\ UNCHANGED <<temp, handle, bare>>

\* Broken variant: the error of the store leaves the call.
RedisStoreRaises(c) ==
  /\ StartStore(c, "redis")
  /\ Raise(c, "store")
  /\ UNCHANGED fileVars

\* The server is away, or the result cannot be pickled: a warning, and the result.
RedisStoreFails(c) ==
  /\ StartStore(c, "redis")
  /\ Return(c, c)
  /\ UNCHANGED fileVars

\* open("wb"): a new file, or the temporary file that is there, cut to nothing.
DiskOpens(c) ==
  /\ StartStore(c, "disk")
  /\ LET k == TempName(key[c])
         f == IF temp[k] = Nobody THEN c ELSE temp[k]
     IN  /\ temp' = [temp EXCEPT ![k] = f]
         /\ handle' = [handle EXCEPT ![c] = f]
         /\ content' = [content EXCEPT ![f] = Empty]
  /\ Goto(c, "dumping")
  /\ UNCHANGED <<published, bare>>

\* The directory cannot be written.
DiskOpenFails(c) ==
  /\ StartStore(c, "disk")
  /\ Raise(c, "store")
  /\ UNCHANGED fileVars

\* Broken variant: the handle is still open, the pickle in its buffer.
DiskDumpsBuffered(c) ==
  /\ pc[c] = "dumping"
  /\ Goto(c, "replacing")
  /\ UNCHANGED <<backend, ttl, now, key, storedAt, fileVars>>

DiskDumps(c) ==
  /\ pc[c] = "dumping"
  /\ content' = [content EXCEPT ![handle[c]] = EntryOf(c)]
  /\ Goto(c, "replacing")
  /\ UNCHANGED <<backend, ttl, now, key, storedAt, published, temp, handle, bare>>

\* The disk is full, or the result cannot be pickled: the error leaves the call.
DiskDumpFails(c) ==
  /\ pc[c] = "dumping"
  /\ Raise(c, "store")
  /\ UNCHANGED <<backend, ttl, now, key, storedAt, fileVars>>

\* rename: whatever is under the temporary name is published, whoever wrote it.
DiskReplaces(c) ==
  /\ pc[c] = "replacing"
  /\ temp[TempName(key[c])] # Nobody
  /\ published' = [published EXCEPT ![key[c]] = temp[TempName(key[c])]]
  /\ temp' = [temp EXCEPT ![TempName(key[c])] = Nobody]
  /\ bare' = bare \ {key[c]}
  /\ Return(c, c)
  /\ UNCHANGED <<backend, ttl, now, key, storedAt, handle, content>>

\* Broken variant: the call tries again until the temporary file is there.
DiskReplaceRetried(c) ==
  /\ pc[c] = "replacing"
  /\ temp[TempName(key[c])] = Nobody
  /\ UNCHANGED vars

\* Another process has renamed it: FileNotFoundError leaves the call.
DiskReplaceFails(c) ==
  /\ pc[c] = "replacing"
  /\ temp[TempName(key[c])] = Nobody
  /\ Raise(c, "rename")
  /\ UNCHANGED <<backend, ttl, now, key, storedAt, fileVars>>

-----------------------------------------------------------------------------
\* delete() of one key, and clear() name by name; temporary files stay.
Remove(k) ==
  /\ published[k] # Nobody \/ k \in bare
  /\ published' = [published EXCEPT ![k] = Nobody]
  /\ bare' = bare \ {k}
  /\ UNCHANGED <<backend, ttl, now, callVars, temp, handle, content>>

\* A process dies with its calls; what is in the directory stays.
Crash(p) ==
  /\ \E c \in Calls : Home[c] = p /\ pc[c] \notin Over \union {"new"}
  /\ pc' = [c \in Calls |-> IF Home[c] = p /\ pc[c] \notin Over \union {"new"} THEN "dead" ELSE pc[c]]
  /\ UNCHANGED <<backend, ttl, now, key, answer, failure, storedAt, fileVars>>

Tick ==
  /\ now < MaxTime
  /\ now' = now + 1
  /\ UNCHANGED <<backend, ttl, callVars, fileVars>>

Look(c) == \E k \in Keys : Hit(c, k) \/ HitBare(c, k) \/ Miss(c, k) \/ FindExpired(c, k)

Step(c) ==
  \/ UnlinkExpired(c)
  \/ FunctionRaises(c) \/ ReturnUncached(c)
  \/ RedisStores(c) \/ RedisStoreFails(c)
  \/ DiskOpens(c) \/ DiskOpenFails(c)
  \/ DiskDumps(c) \/ DiskDumpFails(c)
  \/ DiskReplaces(c) \/ DiskReplaceFails(c)

Next ==
  \/ \E c \in Calls : Look(c) \/ Step(c)
  \/ \E k \in Keys : Remove(k)
  \/ \E c \in Calls : Crash(Home[c])
  \/ Tick

Spec == Init /\ [][Next]_vars

\* A function answers or times out, and the cache's own steps are taken; calls need not come.
FairSpec == Spec /\ \A c \in Calls : WF_vars(Step(c))

-----------------------------------------------------------------------------
(* Properties.                                                             *)

\* Every variable keeps its type.
TypeOK ==
  /\ backend \in {"redis", "disk"}
  /\ ttl \in TTLs
  /\ now \in 0..MaxTime
  /\ pc \in [Calls -> Phases]
  /\ key \in [Calls -> Keys \union {Nobody}]
  /\ answer \in [Calls -> Calls \union Keys \union {Nobody}]
  /\ failure \in [Calls -> {"none", "function", "store", "rename"}]
  /\ storedAt \in [Calls -> 0..Never]
  /\ published \in [Keys -> Calls \union {Nobody}]
  /\ temp \in [Keys -> Calls \union {Nobody}]
  /\ handle \in [Calls -> Calls \union {Nobody}]
  /\ content \in [Calls -> [by : Calls \union {Nobody}, expires : Nat \union {Forever}]]
  /\ bare \in SUBSET Keys

\* A hit on an entry is never older than the time to live of its function, counted from the
\* moment its result was stored, whichever process stored it and whatever happened to its
\* file since.  Results from before entries had an expiry have no age ("Backward
\* compatibility", disk_cache.py:207): one may be hit at any time, with Redis never, and on
\* disk only until the first call that stores the same key.
HitsAreFresh ==
  [][\A c \in Calls :
       pc[c] = "new" /\ pc'[c] = "returned" =>
         IF answer'[c] \in Calls
         THEN ttl = Forever \/ now < storedAt[answer'[c]] + ttl
         ELSE /\ backend = "disk" /\ answer'[c] = key'[c]
              /\ \A d \in Calls :
                   ~(key[d] = key'[c] /\ pc[d] = "returned" /\ handle[d] # Nobody)]_vars

\* A reader meets a half-written file under the published name only while its writer is
\* still writing, or has failed or died doing so: the rename publishes whole entries.
TornOnlyWhileWriting ==
  \A k \in Keys :
    published[k] # Nobody /\ ~Whole(published[k]) =>
      \E d \in Calls :
        /\ handle[d] = published[k]
        /\ pc[d] \in {"dumping", "dead"} \/ failure[d] = "store"

\* "Redis outages should not break request handling" (redis_cache.py:22): with Redis a
\* call raises only what its function raised.  On disk it may also lose its result to a
\* full disk, or to another process that stored the same key meanwhile, and to no other.
LostResultHasCause ==
  \A c \in Calls :
    pc[c] = "raised" =>
      \/ failure[c] = "function"
      \/ backend = "disk" /\ failure[c] = "store"
      \/ /\ backend = "disk" /\ failure[c] = "rename"
         /\ \E d \in Calls : /\ Home[d] # Home[c] /\ key[d] = key[c]
                             /\ pc[d] = "returned" /\ handle[d] # Nobody

\* A call that went past its lookup ends, whatever other processes do to its files.
EveryCallEnds == \A c \in Calls : pc[c] = "computing" ~> pc[c] \in Over

\* Both caches are a memo: no answer is made up, torn, or another key's.
Status(c) ==
  CASE pc[c] = "new" -> "new"
    [] pc[c] = "returned" -> "done"
    [] pc[c] \in {"raised", "dead"} -> "failed"
    [] OTHER -> "busy"
MemoOf == INSTANCE Memo WITH
  status <- [c \in Calls |-> Status(c)],
  computed <- {c \in Calls : storedAt[c] # Never},
  memo <- [k \in Keys |-> IF k \in bare THEN k
                          ELSE IF Live(k) THEN content[published[k]].by ELSE Nobody]
ImplementsMemo == MemoOf!Spec
=============================================================================
