-------------------------- MODULE ResponseCacheProofs --------------------------
(***************************************************************************)
(* Proofs about ResponseCache, for any number of calls, processes, keys    *)
(* and times to live: what each cache may return or lose, and that both    *)
(* are the memo of Memo.                                                   *)
(***************************************************************************)
EXTENDS ResponseCache, TLAPS

(* What the properties rest on: a process holds its loop while it handles  *)
(* files, a file stays with its key whoever writes it, and what is in it   *)
(* is the entry of a call that began to store.                             *)

Holding == {"unlinking", "dumping", "replacing"}

\* Of the calls of one event loop, one at a time handles files.
LoopsAreHeld ==
  \A c, d \in Calls :
    c # d /\ Home[c] = Home[d] => ~(pc[c] \in Holding /\ pc[d] \in Holding)

\* How far a call has come.
CallFits(c) ==
  /\ pc[c] # "new" => key[c] \in Keys
  /\ pc[c] \in {"new", "unlinking", "computing"} => storedAt[c] = Never /\ handle[c] = Nobody
  /\ pc[c] \in {"dumping", "replacing"} =>
       backend = "disk" /\ storedAt[c] # Never /\ handle[c] # Nobody
  /\ pc[c] = "raised" <=> failure[c] # "none"
  /\ failure[c] \in {"store", "rename"} => backend = "disk"

Referenced(f) ==
  \/ \E k \in Keys : published[k] = f \/ temp[k] = f
  \/ \E d \in Calls : handle[d] = f

\* A file is there from the moment its call begins to store, and its names and its writers
\* are of one key.
FileFits(f) ==
  /\ Referenced(f) => storedAt[f] # Never
  /\ \A k \in Keys : published[k] = f \/ temp[k] = f => key[f] = k
  /\ \A d \in Calls : handle[d] = f => key[d] = key[f]

\* An entry is the one that a call of the file's key made when it began to store.
EntryFits(f) ==
  LET d == content[f].by
  IN  IF d = Nobody THEN content[f] = Empty
      ELSE content[f] = EntryOf(d) /\ storedAt[d] # Never /\ key[d] = key[f] /\ storedAt[f] # Never

\* An empty file with a name has a writer that is at it, or gave up.
EmptyFilesHaveWriter ==
  \A f \in Calls :
    /\ content[f].by = Nobody
    /\ \E k \in Keys : published[k] = f \/ temp[k] = f
    => \E d \in Calls : handle[d] = f /\ (pc[d] \in {"dumping", "dead"} \/ failure[d] = "store")

\* A call of another process that has published under the key of this one.
Overtaken(c) ==
  \E d \in Calls : /\ Home[d] # Home[c] /\ key[d] = key[c]
                   /\ pc[d] = "returned" /\ handle[d] # Nobody

\* The temporary file of a writer is there, unless another process has published it.
WritersHaveTemp ==
  \A c \in Calls :
    /\ pc[c] \in {"dumping", "replacing"} /\ temp[key[c]] = Nobody => Overtaken(c)
    /\ failure[c] = "rename" => Overtaken(c)

\* A call that has published under key k.
Published(d, k) == key[d] = k /\ pc[d] = "returned" /\ handle[d] # Nobody

\* A bare result is under its key until the first call publishes there.
BareResultsFit ==
  \A k \in bare : /\ backend = "disk" /\ published[k] = Nobody
                  /\ \A d \in Calls : ~Published(d, k)

CacheInvariant ==
  /\ TypeOK
  /\ LoopsAreHeld
  /\ \A c \in Calls : CallFits(c)
  /\ \A f \in Calls : FileFits(f)
  /\ \A f \in Calls : EntryFits(f)
  /\ EmptyFilesHaveWriter
  /\ WritersHaveTemp
  /\ BareResultsFit

-----------------------------------------------------------------------------
(* Steps of one kind.                                                      *)

\* A call starts to handle files only when no other call of its loop does.
LEMMA LoopsStayHeld ==
  ASSUME TypeOK, LoopsAreHeld, NEW c \in Calls, NEW p, pc' = [pc EXCEPT ![c] = p],
         p \in Holding => MayRun(c) \/ pc[c] \in Holding
  PROVE  LoopsAreHeld'
<1> SUFFICES ASSUME NEW a \in Calls, NEW b \in Calls, a # b, Home[a] = Home[b]
             PROVE  ~(pc'[a] \in Holding /\ pc'[b] \in Holding)
  BY DEF LoopsAreHeld
<1>1. pc'[c] = p /\ \A d \in Calls \ {c} : pc'[d] = pc[d]
  BY DEF TypeOK
<1>2. \A d \in Calls \ {c} : Home[d] = Home[c] /\ p \in Holding => pc[d] \notin Holding
  BY DEF LoopsAreHeld, MayRun, Holding
<1>3. CASE a = c \/ b = c
  BY <1>1, <1>2, <1>3
<1>4. CASE a # c /\ b # c
  BY <1>1, <1>4 DEF LoopsAreHeld
<1> QED BY <1>3, <1>4

\* A lookup gives the call its key, and looks only.
LEMMA LookKeepsInvariant ==
  ASSUME CacheInvariant, NEW c \in Calls, Look(c)
  PROVE  CacheInvariant'
<1> USE NobodyAssumption
<1>1. PICK k \in Keys : Hit(c, k) \/ HitBare(c, k) \/ Miss(c, k) \/ FindExpired(c, k)
  BY DEF Look
<1>2. /\ pc[c] = "new" /\ MayRun(c)
      /\ key' = [key EXCEPT ![c] = k]
      /\ UNCHANGED <<backend, ttl, now, storedAt, failure, published, temp, handle, content, bare>>
  BY <1>1 DEF Hit, HitBare, Miss, FindExpired, Begin, Return, Goto, fileVars
<1>3. PICK p \in {"returned", "computing", "unlinking"} : pc' = [pc EXCEPT ![c] = p]
  BY <1>1 DEF Hit, HitBare, Miss, FindExpired, Return, Goto
<1>4. answer' \in [Calls -> Calls \union Keys \union {Nobody}]
  <2>1. CASE Hit(c, k)
    <3>1. published[k] \in Calls /\ answer' = [answer EXCEPT ![c] = content[published[k]].by]
      BY <2>1 DEF CacheInvariant, TypeOK, Hit, Live, Whole, Return
    <3>2. content[published[k]].by \in Calls \union {Nobody}
      BY <3>1 DEF CacheInvariant, TypeOK
    <3> QED BY <3>1, <3>2 DEF CacheInvariant, TypeOK
  <2>2. CASE Miss(c, k) \/ FindExpired(c, k)
    BY <2>2 DEF CacheInvariant, TypeOK, Miss, FindExpired, Goto
  <2>3. CASE HitBare(c, k)
    BY <2>3 DEF CacheInvariant, TypeOK, HitBare, Return
  <2> QED BY <1>1, <2>1, <2>2, <2>3
<1>5. /\ TypeOK /\ LoopsAreHeld /\ EmptyFilesHaveWriter /\ WritersHaveTemp /\ BareResultsFit
      /\ \A d \in Calls : CallFits(d) /\ FileFits(d) /\ EntryFits(d)
  BY DEF CacheInvariant
<1>6. TypeOK'
  BY <1>2, <1>3, <1>4, <1>5 DEF TypeOK, Phases
<1>7. LoopsAreHeld'
  BY <1>2, <1>3, <1>5, LoopsStayHeld
<1>8. /\ pc'[c] = p /\ key'[c] = k /\ storedAt[c] = Never /\ handle[c] = Nobody /\ failure[c] = "none"
      /\ \A d \in Calls \ {c} : pc'[d] = pc[d] /\ key'[d] = key[d]
  BY <1>2, <1>3, <1>5 DEF TypeOK, CallFits
<1>9. \A d \in Calls : CallFits(d)'
  BY <1>2, <1>5, <1>8 DEF CallFits
<1>10. \A f \in Calls : FileFits(f)'
  BY <1>2, <1>5, <1>8 DEF FileFits, Referenced
<1>11. \A f \in Calls : EntryFits(f)'
  BY <1>2, <1>5, <1>8 DEF EntryFits, EntryOf, TypeOK
<1>12. EmptyFilesHaveWriter'
  BY <1>2, <1>5, <1>8 DEF EmptyFilesHaveWriter
<1>13. WritersHaveTemp'
  <2>1. \A d \in Calls : Overtaken(d) /\ d # c => Overtaken(d)'
    BY <1>2, <1>8 DEF Overtaken
  <2> QED BY <1>2, <1>5, <1>8, <2>1 DEF WritersHaveTemp
<1>20. BareResultsFit'
  BY <1>2, <1>3, <1>5, <1>8 DEF BareResultsFit, Published
<1> QED BY <1>6, <1>7, <1>9, <1>10, <1>11, <1>12, <1>13, <1>20 DEF CacheInvariant

\* Names go away: an expired entry, or one that is deleted.
LEMMA RemovalsKeepInvariant ==
  ASSUME CacheInvariant, (\E c \in Calls : UnlinkExpired(c)) \/ (\E k \in Keys : Remove(k))
  PROVE  CacheInvariant'
<1> USE NobodyAssumption
<1>1. PICK k \in Keys : published' = [published EXCEPT ![k] = Nobody] /\ bare' = bare \ {k}
  BY DEF UnlinkExpired, Remove, CacheInvariant, CallFits
<1>2. UNCHANGED <<backend, ttl, now, key, answer, failure, storedAt, temp, handle, content>>
  BY DEF UnlinkExpired, Remove, Goto, callVars
<1>3. /\ pc' = pc \/ \E c \in Calls : pc[c] = "unlinking" /\ pc' = [pc EXCEPT ![c] = "computing"]
  BY DEF UnlinkExpired, Remove, Goto, callVars
<1>4. /\ TypeOK /\ LoopsAreHeld /\ EmptyFilesHaveWriter /\ WritersHaveTemp /\ BareResultsFit
      /\ \A d \in Calls : CallFits(d) /\ FileFits(d) /\ EntryFits(d)
  BY DEF CacheInvariant
<1>5. \A d \in Calls : pc'[d] = pc[d] \/ (pc[d] = "unlinking" /\ pc'[d] = "computing")
  BY <1>3, <1>4 DEF TypeOK
<1>6. TypeOK'
  BY <1>1, <1>2, <1>3, <1>4 DEF TypeOK, Phases
<1>7. LoopsAreHeld'
  BY <1>4, <1>5 DEF LoopsAreHeld, Holding
<1>8. \A d \in Calls : CallFits(d)'
  BY <1>2, <1>4, <1>5 DEF CallFits
<1>9. \A l \in Keys : published'[l] \in {published[l], Nobody}
  BY <1>1, <1>4 DEF TypeOK
<1>10. \A f \in Calls : FileFits(f)'
  BY <1>2, <1>4, <1>9 DEF FileFits, Referenced
<1>11. \A f \in Calls : EntryFits(f)'
  BY <1>2, <1>4 DEF EntryFits, EntryOf
<1>12. EmptyFilesHaveWriter'
  BY <1>2, <1>4, <1>5, <1>9 DEF EmptyFilesHaveWriter
<1>13. WritersHaveTemp'
  BY <1>2, <1>4, <1>5 DEF WritersHaveTemp, Overtaken
<1>20. BareResultsFit'
  BY <1>1, <1>2, <1>4, <1>5, <1>9 DEF BareResultsFit, Published, TypeOK
<1> QED BY <1>6, <1>7, <1>8, <1>10, <1>11, <1>12, <1>13, <1>20 DEF CacheInvariant

Ends(c) ==
  \/ FunctionRaises(c) \/ ReturnUncached(c) \/ RedisStoreFails(c)
  \/ DiskOpenFails(c) \/ DiskDumpFails(c) \/ DiskReplaceFails(c)

\* The call ends and leaves the files as they are.
LEMMA EndsKeepInvariant ==
  ASSUME CacheInvariant, NEW c \in Calls, Ends(c)
  PROVE  CacheInvariant'
<1> USE NobodyAssumption, MaxTimeAssumption
<1>1. UNCHANGED <<backend, ttl, now, key, published, temp, handle, content, bare>>
  BY DEF Ends, FunctionRaises, ReturnUncached, RedisStoreFails, DiskOpenFails, DiskDumpFails,
         DiskReplaceFails, StartStore, fileVars
<1>2. /\ pc[c] \in {"computing", "dumping", "replacing"}
      /\ storedAt' = storedAt
           \/ (pc[c] = "computing" /\ storedAt' = [storedAt EXCEPT ![c] = now])
  BY DEF Ends, FunctionRaises, ReturnUncached, RedisStoreFails, DiskOpenFails, DiskDumpFails,
         DiskReplaceFails, StartStore
<1>3. \/ Return(c, c) /\ pc[c] = "computing"
      \/ Raise(c, "function") /\ pc[c] = "computing"
      \/ Raise(c, "store") /\ (pc[c] = "dumping" \/ (pc[c] = "computing" /\ backend = "disk"))
      \/ Raise(c, "rename") /\ pc[c] = "replacing" /\ temp[key[c]] = Nobody
  BY DEF Ends, FunctionRaises, ReturnUncached, RedisStoreFails, DiskOpenFails, DiskDumpFails,
         DiskReplaceFails, StartStore, TempName
<1>4. /\ TypeOK /\ LoopsAreHeld /\ EmptyFilesHaveWriter /\ WritersHaveTemp /\ BareResultsFit
      /\ \A d \in Calls : CallFits(d) /\ FileFits(d) /\ EntryFits(d)
  BY DEF CacheInvariant
<1>5. /\ pc' \in [Calls -> Phases] /\ pc'[c] \in {"returned", "raised"}
      /\ \A d \in Calls \ {c} : pc'[d] = pc[d]
  BY <1>3, <1>4 DEF Return, Raise, TypeOK, Phases
<1>6. /\ failure' \in [Calls -> {"none", "function", "store", "rename"}]
      /\ \A d \in Calls \ {c} : failure'[d] = failure[d]
      /\ pc'[c] = "raised" <=> failure'[c] # "none"
      /\ failure'[c] \in {"store", "rename"} => pc[c] \in {"dumping", "replacing"} \/ backend = "disk"
      /\ failure'[c] = "rename" => pc[c] = "replacing" /\ temp[key[c]] = Nobody
      /\ pc[c] = "dumping" => failure'[c] = "store"
  <2>1. failure[c] = "none"
    BY <1>2, <1>4 DEF CallFits
  <2>2. CASE Return(c, c)
    BY <1>3, <1>4, <2>1, <2>2 DEF Return, Raise, TypeOK
  <2>3. CASE Raise(c, "function") /\ pc[c] = "computing"
    BY <1>4, <2>3 DEF Raise, TypeOK
  <2>4. CASE Raise(c, "store") /\ (pc[c] = "dumping" \/ (pc[c] = "computing" /\ backend = "disk"))
    BY <1>4, <2>4 DEF Raise, TypeOK
  <2>5. CASE Raise(c, "rename") /\ pc[c] = "replacing" /\ temp[key[c]] = Nobody
    BY <1>4, <2>5 DEF Raise, TypeOK
  <2> QED BY <1>3, <2>2, <2>3, <2>4, <2>5
<1>7. /\ storedAt' \in [Calls -> 0..Never]
      /\ \A d \in Calls : storedAt'[d] = storedAt[d] \/ (d = c /\ storedAt[d] = Never /\ storedAt'[d] # Never)
  BY <1>2, <1>4 DEF TypeOK, Never, CallFits
<1>8. TypeOK'
  <2>1. answer' \in [Calls -> Calls \union Keys \union {Nobody}]
    BY <1>3, <1>4 DEF Return, Raise, TypeOK
  <2> QED BY <1>1, <1>4, <1>5, <1>6, <1>7, <2>1 DEF TypeOK
<1>9. LoopsAreHeld'
  BY <1>4, <1>5 DEF LoopsAreHeld, Holding
<1>10. \A d \in Calls : CallFits(d)'
  BY <1>1, <1>2, <1>4, <1>5, <1>6, <1>7 DEF CallFits
<1>11. \A f \in Calls : FileFits(f)'
  BY <1>1, <1>4, <1>7 DEF FileFits, Referenced
<1>12. \A f \in Calls : EntryFits(f)'
  BY <1>1, <1>4, <1>7 DEF EntryFits, EntryOf, TypeOK
<1>13. EmptyFilesHaveWriter'
  <2>1. ASSUME NEW d \in Calls, pc[d] \in {"dumping", "dead"} \/ failure[d] = "store"
        PROVE  pc'[d] \in {"dumping", "dead"} \/ failure'[d] = "store"
    <3>1. failure[c] = "none"
      BY <1>2, <1>4 DEF CallFits
    <3> QED BY <1>2, <1>5, <1>6, <2>1, <3>1
  <2> QED BY <1>1, <1>4, <2>1 DEF EmptyFilesHaveWriter
<1>14. WritersHaveTemp'
  <2>1. \A d \in Calls : Overtaken(d) => Overtaken(d)'
    BY <1>1, <1>2, <1>5 DEF Overtaken
  <2> QED BY <1>1, <1>4, <1>5, <1>6, <2>1 DEF WritersHaveTemp
<1>20. BareResultsFit'
  <2>1. \A d \in Calls : Published(d, key[d])' => Published(d, key[d]) \/ (d = c /\ handle[c] = Nobody)
    BY <1>1, <1>2, <1>3, <1>4, <1>5 DEF Published, CallFits, Raise
  <2> QED BY <1>1, <1>2, <1>3, <1>4, <1>5, <2>1 DEF BareResultsFit, Published
<1> QED BY <1>8, <1>9, <1>10, <1>11, <1>12, <1>13, <1>14, <1>20 DEF CacheInvariant

\* SET puts the entry and its name there in one step.
LEMMA RedisKeepsInvariant ==
  ASSUME CacheInvariant, NEW c \in Calls, RedisStores(c)
  PROVE  CacheInvariant'
<1> USE NobodyAssumption, MaxTimeAssumption
<1>1. /\ UNCHANGED <<backend, ttl, now, key, temp, handle, failure, bare>>
      /\ pc[c] = "computing" /\ backend = "redis"
      /\ storedAt' = [storedAt EXCEPT ![c] = now]
      /\ published' = [published EXCEPT ![key[c]] = c]
      /\ content' = [content EXCEPT ![c] = EntryOf(c)']
      /\ pc' = [pc EXCEPT ![c] = "returned"]
      /\ answer' = [answer EXCEPT ![c] = c]
  BY DEF RedisStores, StartStore, Return
<1>2. /\ TypeOK /\ LoopsAreHeld /\ EmptyFilesHaveWriter /\ WritersHaveTemp /\ BareResultsFit
      /\ \A d \in Calls : CallFits(d) /\ FileFits(d) /\ EntryFits(d)
  BY DEF CacheInvariant
<1>3. /\ key[c] \in Keys /\ storedAt[c] = Never /\ handle[c] = Nobody /\ storedAt'[c] # Never
      /\ \A d \in Calls \ {c} : storedAt'[d] = storedAt[d] /\ pc'[d] = pc[d]
      /\ storedAt'[c] = now /\ pc'[c] = "returned" /\ now \in Nat
  BY <1>1, <1>2 DEF CallFits, TypeOK, Never
<1>4. EntryOf(c)' = [by |-> c, expires |-> IF ttl = Forever THEN Forever ELSE now + ttl]
  BY <1>1, <1>3 DEF EntryOf
<1>5. EntryOf(c)' \in [by : Calls \union {Nobody}, expires : Nat \union {Forever}]
  BY <1>2, <1>3, <1>4, TTLAssumption DEF TypeOK
<1>6. /\ content'[c] = EntryOf(c)' /\ \A f \in Calls \ {c} : content'[f] = content[f]
      /\ published'[key[c]] = c /\ \A k \in Keys \ {key[c]} : published'[k] = published[k]
  BY <1>1, <1>2, <1>3 DEF TypeOK
<1>7. TypeOK'
  <2>1. content' \in [Calls -> [by : Calls \union {Nobody}, expires : Nat \union {Forever}]]
    BY <1>1, <1>2, <1>5 DEF TypeOK
  <2>2. /\ storedAt' \in [Calls -> 0..Never] /\ published' \in [Keys -> Calls \union {Nobody}]
        /\ pc' \in [Calls -> Phases] /\ answer' \in [Calls -> Calls \union Keys \union {Nobody}]
    BY <1>1, <1>2, <1>3 DEF TypeOK, Never, Phases
  <2> QED BY <1>1, <1>2, <2>1, <2>2 DEF TypeOK
<1>8. LoopsAreHeld'
  BY <1>2, <1>3 DEF LoopsAreHeld, Holding
<1>9. \A d \in Calls : CallFits(d)'
  BY <1>1, <1>2, <1>3 DEF CallFits
<1>10. \A f \in Calls : FileFits(f)'
  BY <1>1, <1>2, <1>3, <1>6 DEF FileFits, Referenced
<1>11. \A f \in Calls : EntryFits(f)'
  <2>1. ASSUME NEW f \in Calls \ {c} PROVE EntryFits(f)'
    BY <1>1, <1>2, <1>3, <1>6, <2>1 DEF EntryFits, EntryOf, TypeOK
  <2>2. EntryFits(c)'
    BY <1>1, <1>3, <1>4, <1>6 DEF EntryFits
  <2> QED BY <2>1, <2>2
<1>12. EmptyFilesHaveWriter'
  BY <1>1, <1>2, <1>3, <1>4, <1>6 DEF EmptyFilesHaveWriter
<1>13. WritersHaveTemp'
  BY <1>1, <1>2, <1>3 DEF WritersHaveTemp, Overtaken
<1>20. BareResultsFit'
  BY <1>1, <1>2 DEF BareResultsFit, Published
<1> QED BY <1>7, <1>8, <1>9, <1>10, <1>11, <1>12, <1>13, <1>20 DEF CacheInvariant

\* A call opens a new file, or empties the one that another process is writing.
LEMMA OpensKeepInvariant ==
  ASSUME CacheInvariant, NEW c \in Calls, DiskOpens(c)
  PROVE  CacheInvariant'
<1> USE NobodyAssumption, MaxTimeAssumption
<1>0. PICK f0 : f0 = IF temp[key[c]] = Nobody THEN c ELSE temp[key[c]]
  OBVIOUS
<1>1. /\ UNCHANGED <<backend, ttl, now, key, failure, answer, published, bare>>
      /\ pc[c] = "computing" /\ backend = "disk" /\ MayRun(c)
      /\ storedAt' = [storedAt EXCEPT ![c] = now]
      /\ temp' = [temp EXCEPT ![key[c]] = f0]
      /\ handle' = [handle EXCEPT ![c] = f0]
      /\ content' = [content EXCEPT ![f0] = Empty]
      /\ pc' = [pc EXCEPT ![c] = "dumping"]
  BY <1>0 DEF DiskOpens, StartStore, Goto, TempName
<1>2. /\ TypeOK /\ LoopsAreHeld /\ EmptyFilesHaveWriter /\ WritersHaveTemp /\ BareResultsFit
      /\ \A d \in Calls : CallFits(d) /\ FileFits(d) /\ EntryFits(d)
  BY DEF CacheInvariant
<1>3. /\ key[c] \in Keys /\ storedAt[c] = Never /\ handle[c] = Nobody /\ failure[c] = "none"
      /\ storedAt'[c] # Never
      /\ pc'[c] = "dumping" /\ \A d \in Calls \ {c} : storedAt'[d] = storedAt[d] /\ pc'[d] = pc[d]
  BY <1>1, <1>2 DEF CallFits, TypeOK, Never
<1>4. f0 \in Calls /\ key[f0] = key[c] /\ storedAt'[f0] # Never
  <2>1. temp[key[c]] \in Calls \union {Nobody}
    BY <1>2, <1>3 DEF TypeOK
  <2>2. temp[key[c]] \in Calls => key[temp[key[c]]] = key[c] /\ storedAt[temp[key[c]]] # Never
    BY <1>2, <1>3 DEF FileFits, Referenced
  <2> QED BY <1>0, <1>3, <2>1, <2>2
<1>5. /\ content'[f0] = Empty /\ \A f \in Calls \ {f0} : content'[f] = content[f]
      /\ temp'[key[c]] = f0 /\ \A k \in Keys \ {key[c]} : temp'[k] = temp[k]
      /\ handle'[c] = f0 /\ \A d \in Calls \ {c} : handle'[d] = handle[d]
  BY <1>1, <1>2, <1>3, <1>4 DEF TypeOK
<1>6. TypeOK'
  <2>1. Empty \in [by : Calls \union {Nobody}, expires : Nat \union {Forever}] /\ Empty.by = Nobody
    BY DEF Empty
  <2>2. content' \in [Calls -> [by : Calls \union {Nobody}, expires : Nat \union {Forever}]]
    BY <1>1, <1>2, <1>4, <2>1 DEF TypeOK
  <2>3. /\ storedAt' \in [Calls -> 0..Never] /\ temp' \in [Keys -> Calls \union {Nobody}]
        /\ pc' \in [Calls -> Phases] /\ handle' \in [Calls -> Calls \union {Nobody}]
    BY <1>1, <1>2, <1>3, <1>4 DEF TypeOK, Never, Phases
  <2> QED BY <1>1, <1>2, <2>2, <2>3 DEF TypeOK
<1>7. LoopsAreHeld'
  BY <1>1, <1>2, LoopsStayHeld
<1>8. \A d \in Calls : CallFits(d)'
  BY <1>1, <1>2, <1>3, <1>4, <1>5 DEF CallFits
<1>9. \A f \in Calls : FileFits(f)'
  BY <1>1, <1>2, <1>3, <1>4, <1>5 DEF FileFits, Referenced
<1>10. \A f \in Calls : EntryFits(f)'
  <2>1. ASSUME NEW f \in Calls \ {f0} PROVE EntryFits(f)'
    BY <1>1, <1>2, <1>3, <1>5, <2>1 DEF EntryFits, EntryOf, TypeOK
  <2>2. EntryFits(f0)'
    BY <1>5 DEF EntryFits, Empty
  <2> QED BY <2>1, <2>2
<1>11. EmptyFilesHaveWriter'
  <2> SUFFICES ASSUME NEW f \in Calls, content'[f].by = Nobody,
                      \E k \in Keys : published'[k] = f \/ temp'[k] = f
               PROVE  \E d \in Calls : handle'[d] = f /\ (pc'[d] \in {"dumping", "dead"} \/ failure'[d] = "store")
    BY DEF EmptyFilesHaveWriter
  <2>1. CASE f = f0
    BY <1>3, <1>5, <2>1
  <2>2. CASE f # f0
    <3>1. PICK d \in Calls : handle[d] = f /\ (pc[d] \in {"dumping", "dead"} \/ failure[d] = "store")
      BY <1>1, <1>2, <1>5, <2>2 DEF EmptyFilesHaveWriter
    <3> QED BY <1>1, <1>3, <1>5, <3>1
  <2> QED BY <2>1, <2>2
<1>12. WritersHaveTemp'
  <2>1. \A d \in Calls : Overtaken(d) => Overtaken(d)'
    BY <1>1, <1>3, <1>5 DEF Overtaken
  <2>2. \A k \in Keys : temp'[k] = Nobody => temp[k] = Nobody /\ k # key[c]
    BY <1>4, <1>5
  <2>3. \A d \in Calls : pc'[d] \in {"dumping", "replacing"} => key[d] \in Keys
    BY <1>2, <1>3 DEF CallFits
  <2> QED BY <1>1, <1>2, <1>3, <2>1, <2>2, <2>3 DEF WritersHaveTemp
<1>20. BareResultsFit'
  BY <1>1, <1>2, <1>3, <1>5 DEF BareResultsFit, Published
<1> QED BY <1>6, <1>7, <1>8, <1>9, <1>10, <1>11, <1>12, <1>20 DEF CacheInvariant

\* The pickle reaches the file that the call has open.
LEMMA DumpsKeepInvariant ==
  ASSUME CacheInvariant, NEW c \in Calls, DiskDumps(c)
  PROVE  CacheInvariant'
<1> USE NobodyAssumption
<1>1. /\ UNCHANGED <<backend, ttl, now, key, storedAt, failure, answer, published, temp, handle, bare>>
      /\ pc[c] = "dumping" /\ pc' = [pc EXCEPT ![c] = "replacing"]
      /\ content' = [content EXCEPT ![handle[c]] = EntryOf(c)]
  BY DEF DiskDumps, Goto
<1>2. /\ TypeOK /\ LoopsAreHeld /\ EmptyFilesHaveWriter /\ WritersHaveTemp /\ BareResultsFit
      /\ \A d \in Calls : CallFits(d) /\ FileFits(d) /\ EntryFits(d)
  BY DEF CacheInvariant
<1>3. /\ handle[c] \in Calls /\ storedAt[c] # Never /\ failure[c] = "none"
      /\ pc'[c] = "replacing" /\ \A d \in Calls \ {c} : pc'[d] = pc[d]
  BY <1>1, <1>2 DEF CallFits, TypeOK
<1>4. storedAt[handle[c]] # Never /\ key[c] = key[handle[c]]
  BY <1>2, <1>3 DEF FileFits, Referenced
<1>5. EntryOf(c).by = c /\ EntryOf(c) \in [by : Calls \union {Nobody}, expires : Nat \union {Forever}]
  BY <1>2, TTLAssumption, MaxTimeAssumption DEF EntryOf, TypeOK, Never
<1>6. /\ content'[handle[c]] = EntryOf(c)
      /\ \A f \in Calls \ {handle[c]} : content'[f] = content[f]
  BY <1>1, <1>2, <1>3 DEF TypeOK
<1>7. TypeOK'
  BY <1>1, <1>2, <1>5 DEF TypeOK, Phases
<1>8. LoopsAreHeld'
  BY <1>1, <1>2, LoopsStayHeld DEF Holding
<1>9. \A d \in Calls : CallFits(d)'
  BY <1>1, <1>2, <1>3 DEF CallFits
<1>10. \A f \in Calls : FileFits(f)'
  BY <1>1, <1>2 DEF FileFits, Referenced
<1>11. \A f \in Calls : EntryFits(f)'
  <2>1. ASSUME NEW f \in Calls, f # handle[c] PROVE EntryFits(f)'
    BY <1>1, <1>2, <1>6, <2>1 DEF EntryFits, EntryOf
  <2>2. ASSUME NEW f \in Calls, f = handle[c] PROVE EntryFits(f)'
    BY <1>1, <1>3, <1>4, <1>5, <1>6, <2>2 DEF EntryFits, EntryOf
  <2> QED BY <2>1, <2>2
<1>12. EmptyFilesHaveWriter'
  BY <1>1, <1>2, <1>3, <1>5, <1>6 DEF EmptyFilesHaveWriter
<1>13. WritersHaveTemp'
  <2>1. \A d \in Calls : Overtaken(d) => Overtaken(d)'
    BY <1>1, <1>3 DEF Overtaken
  <2> QED BY <1>1, <1>2, <1>3, <2>1 DEF WritersHaveTemp
<1>20. BareResultsFit'
  BY <1>1, <1>2, <1>3 DEF BareResultsFit, Published
<1> QED BY <1>7, <1>8, <1>9, <1>10, <1>11, <1>12, <1>13, <1>20 DEF CacheInvariant

\* The rename: a writer of another process that holds the same file has been overtaken.
LEMMA ReplacesKeepInvariant ==
  ASSUME CacheInvariant, NEW c \in Calls, DiskReplaces(c)
  PROVE  CacheInvariant'
<1> USE NobodyAssumption
<1>1. /\ UNCHANGED <<backend, ttl, now, key, storedAt, failure, handle, content>>
      /\ pc[c] = "replacing" /\ pc' = [pc EXCEPT ![c] = "returned"]
      /\ answer' = [answer EXCEPT ![c] = c]
      /\ temp[key[c]] # Nobody
      /\ published' = [published EXCEPT ![key[c]] = temp[key[c]]]
      /\ temp' = [temp EXCEPT ![key[c]] = Nobody]
      /\ bare' = bare \ {key[c]}
  BY DEF DiskReplaces, Return, TempName
<1>2. /\ TypeOK /\ LoopsAreHeld /\ EmptyFilesHaveWriter /\ WritersHaveTemp /\ BareResultsFit
      /\ \A d \in Calls : CallFits(d) /\ FileFits(d) /\ EntryFits(d)
  BY DEF CacheInvariant
<1>3. /\ key[c] \in Keys /\ handle[c] # Nobody /\ failure[c] = "none"
      /\ pc'[c] = "returned" /\ \A d \in Calls \ {c} : pc'[d] = pc[d]
  BY <1>1, <1>2 DEF CallFits, TypeOK
<1>4. /\ published'[key[c]] = temp[key[c]] /\ temp'[key[c]] = Nobody
      /\ \A k \in Keys \ {key[c]} : published'[k] = published[k] /\ temp'[k] = temp[k]
  BY <1>1, <1>2, <1>3 DEF TypeOK
<1>5. TypeOK'
  BY <1>1, <1>2, <1>3 DEF TypeOK, Phases
<1>6. LoopsAreHeld'
  BY <1>1, <1>2, LoopsStayHeld DEF Holding
<1>7. \A d \in Calls : CallFits(d)'
  BY <1>1, <1>2, <1>3 DEF CallFits
<1>8. \A f \in Calls : FileFits(f)'
  BY <1>1, <1>2, <1>3, <1>4 DEF FileFits, Referenced
<1>9. \A f \in Calls : EntryFits(f)'
  BY <1>1, <1>2 DEF EntryFits, EntryOf
<1>10. EmptyFilesHaveWriter'
  <2> SUFFICES ASSUME NEW f \in Calls, content[f].by = Nobody, NEW k \in Keys,
                      published'[k] = f \/ temp'[k] = f
               PROVE  \E d \in Calls : handle[d] = f /\ (pc'[d] \in {"dumping", "dead"} \/ failure[d] = "store")
    BY <1>1 DEF EmptyFilesHaveWriter
  <2>1. \E l \in Keys : published[l] = f \/ temp[l] = f
    BY <1>3, <1>4
  <2>2. PICK d \in Calls : handle[d] = f /\ (pc[d] \in {"dumping", "dead"} \/ failure[d] = "store")
    BY <1>2, <2>1 DEF EmptyFilesHaveWriter
  <2> QED BY <1>1, <1>3, <2>2
<1>11. WritersHaveTemp'
  <2>1. \A d \in Calls : Overtaken(d) => Overtaken(d)'
    BY <1>1, <1>3 DEF Overtaken
  <2>2. ASSUME NEW d \in Calls, d # c, pc[d] \in {"dumping", "replacing"}, key[d] = key[c]
        PROVE  Overtaken(d)'
    <3>1. Home[c] # Home[d]
      BY <1>1, <1>2, <2>2 DEF LoopsAreHeld, Holding
    <3> QED BY <1>1, <1>3, <2>2, <3>1 DEF Overtaken
  <2>3. \A d \in Calls : pc'[d] \in {"dumping", "replacing"} => key[d] \in Keys /\ d # c
    BY <1>2, <1>3 DEF CallFits
  <2> QED BY <1>1, <1>2, <1>3, <1>4, <2>1, <2>2, <2>3 DEF WritersHaveTemp
<1>20. BareResultsFit'
  BY <1>1, <1>2, <1>3, <1>4 DEF BareResultsFit, Published, TypeOK
<1> QED BY <1>5, <1>6, <1>7, <1>8, <1>9, <1>10, <1>11, <1>20 DEF CacheInvariant

\* A crash leaves the files; time leaves everything.
LEMMA CrashesKeepInvariant ==
  ASSUME CacheInvariant, NEW p, Crash(p)
  PROVE  CacheInvariant'
<1>1. UNCHANGED <<backend, ttl, now, key, answer, failure, storedAt, published, temp, handle, content, bare>>
  BY DEF Crash, fileVars
<1>2. /\ TypeOK /\ LoopsAreHeld /\ EmptyFilesHaveWriter /\ WritersHaveTemp /\ BareResultsFit
      /\ \A d \in Calls : CallFits(d) /\ FileFits(d) /\ EntryFits(d)
  BY DEF CacheInvariant
<1>3. /\ pc' \in [Calls -> Phases]
      /\ \A d \in Calls : pc'[d] = pc[d] \/ (pc[d] \notin Over \union {"new"} /\ pc'[d] = "dead")
  BY <1>2 DEF Crash, TypeOK, Phases
<1>4. TypeOK' /\ LoopsAreHeld'
  BY <1>1, <1>2, <1>3 DEF TypeOK, LoopsAreHeld, Holding
<1>5. \A d \in Calls : CallFits(d)'
  BY <1>1, <1>2, <1>3 DEF CallFits, Over
<1>6. \A f \in Calls : FileFits(f)' /\ EntryFits(f)'
  BY <1>1, <1>2 DEF FileFits, Referenced, EntryFits, EntryOf
<1>7. EmptyFilesHaveWriter'
  BY <1>1, <1>2, <1>3 DEF EmptyFilesHaveWriter
<1>8. WritersHaveTemp'
  <2>1. \A d \in Calls : Overtaken(d) => Overtaken(d)'
    BY <1>1, <1>3 DEF Overtaken, Over
  <2> QED BY <1>1, <1>2, <1>3, <2>1 DEF WritersHaveTemp
<1>20. BareResultsFit'
  BY <1>1, <1>2, <1>3 DEF BareResultsFit, Published
<1> QED BY <1>4, <1>5, <1>6, <1>7, <1>8, <1>20 DEF CacheInvariant

LEMMA TimeKeepsInvariant == CacheInvariant /\ (Tick \/ UNCHANGED vars) => CacheInvariant'
<1> SUFFICES ASSUME CacheInvariant, Tick \/ UNCHANGED vars PROVE CacheInvariant'
  OBVIOUS
<1>1. UNCHANGED <<backend, ttl, callVars, fileVars>>
  BY DEF Tick, vars
<1>2. now' \in 0..MaxTime
  BY MaxTimeAssumption DEF Tick, vars, CacheInvariant, TypeOK
<1>3. TypeOK'
  BY <1>1, <1>2 DEF CacheInvariant, TypeOK, callVars, fileVars
<1>4. LoopsAreHeld' /\ \A c \in Calls : CallFits(c)'
  BY <1>1 DEF CacheInvariant, LoopsAreHeld, CallFits, callVars, fileVars
<1>5. \A f \in Calls : FileFits(f)' /\ EntryFits(f)'
  BY <1>1 DEF CacheInvariant, FileFits, Referenced, EntryFits, EntryOf, callVars, fileVars
<1>6. EmptyFilesHaveWriter' /\ WritersHaveTemp'
  BY <1>1 DEF CacheInvariant, EmptyFilesHaveWriter, WritersHaveTemp, Overtaken, callVars, fileVars
<1>20. BareResultsFit'
  BY <1>1 DEF CacheInvariant, BareResultsFit, Published, callVars, fileVars
<1> QED BY <1>3, <1>4, <1>5, <1>6, <1>20 DEF CacheInvariant

-----------------------------------------------------------------------------
(* The theorems.                                                           *)

LEMMA InvariantInitially == Init => CacheInvariant
<1> SUFFICES ASSUME Init PROVE CacheInvariant
  OBVIOUS
<1> USE NobodyAssumption, MaxTimeAssumption, KeysAssumption DEF Init
<1>1. TypeOK
  BY DEF TypeOK, Phases, Never, Empty
<1>2. LoopsAreHeld /\ \A c \in Calls : CallFits(c)
  BY DEF LoopsAreHeld, CallFits, Holding
<1>3. \A f \in Calls : FileFits(f) /\ EntryFits(f)
  BY DEF FileFits, Referenced, EntryFits, Empty
<1>4. EmptyFilesHaveWriter /\ WritersHaveTemp
  BY DEF EmptyFilesHaveWriter, WritersHaveTemp
<1>5. BareResultsFit
  BY DEF BareResultsFit, Published
<1> QED BY <1>1, <1>2, <1>3, <1>4, <1>5 DEF CacheInvariant

LEMMA StepsKeepInvariant == CacheInvariant /\ [Next]_vars => CacheInvariant'
<1> SUFFICES ASSUME CacheInvariant, [Next]_vars PROVE CacheInvariant'
  OBVIOUS
<1>1. ASSUME NEW c \in Calls, Look(c) \/ Step(c) PROVE CacheInvariant'
  BY <1>1, LookKeepsInvariant, RemovalsKeepInvariant, EndsKeepInvariant, RedisKeepsInvariant,
     OpensKeepInvariant, DumpsKeepInvariant, ReplacesKeepInvariant DEF Step, Ends
<1>2. ASSUME NEW k \in Keys, Remove(k) PROVE CacheInvariant'
  BY <1>2, RemovalsKeepInvariant
<1>3. ASSUME NEW c \in Calls, Crash(Home[c]) PROVE CacheInvariant'
  BY <1>3, CrashesKeepInvariant
<1> QED BY <1>1, <1>2, <1>3, TimeKeepsInvariant DEF Next

\* The inductive invariant holds, for every number of calls, processes and keys.
THEOREM InvariantHolds == Spec => []CacheInvariant
  BY InvariantInitially, StepsKeepInvariant, PTL DEF Spec

\* The type invariant.
THEOREM TypeCorrect == Spec => []TypeOK
<1>1. CacheInvariant => TypeOK
  BY DEF CacheInvariant
<1> QED BY <1>1, InvariantHolds, PTL

\* A half-written file is met under its published name only while its writer is at it, or
\* after it failed or died there.
THEOREM TornOnlyWhileWritingHolds == Spec => []TornOnlyWhileWriting
<1>1. CacheInvariant => TornOnlyWhileWriting
  BY NobodyAssumption
     DEF CacheInvariant, TypeOK, EmptyFilesHaveWriter, TornOnlyWhileWriting, Whole
<1> QED BY <1>1, InvariantHolds, PTL

\* With Redis a call loses its result to its function alone; on disk also to a store that
\* fails, and to a call of another process that published under the same key.
THEOREM LostResultHasCauseHolds == Spec => []LostResultHasCause
<1>1. CacheInvariant => LostResultHasCause
  BY DEF CacheInvariant, TypeOK, CallFits, WritersHaveTemp, Overtaken, LostResultHasCause
<1> QED BY <1>1, InvariantHolds, PTL

\* What the cache would answer: a result that was stored for the key less than the time to
\* live ago.
LiveEntriesAreAnswers ==
  \A k \in Keys :
    Live(k) =>
      LET d == content[published[k]].by
      IN  /\ d \in Calls /\ storedAt[d] # Never /\ key[d] = k
          /\ ttl = Forever \/ now < storedAt[d] + ttl

LEMMA LiveEntries == CacheInvariant => LiveEntriesAreAnswers
<1> SUFFICES ASSUME CacheInvariant, NEW k \in Keys, Live(k)
             PROVE  LET d == content[published[k]].by
                    IN  /\ d \in Calls /\ storedAt[d] # Never /\ key[d] = k
                        /\ ttl = Forever \/ now < storedAt[d] + ttl
  BY DEF LiveEntriesAreAnswers
<1> DEFINE f == published[k]
           d == content[f].by
<1>1. f \in Calls /\ d \in Calls /\ d # Nobody
  BY NobodyAssumption DEF Live, Whole, CacheInvariant, TypeOK
<1>2. content[f] = EntryOf(d) /\ storedAt[d] # Never /\ key[d] = key[f] /\ key[f] = k
  BY <1>1 DEF CacheInvariant, EntryFits, FileFits
<1>3. ttl # Forever => now < storedAt[d] + ttl
  <2> SUFFICES ASSUME ttl # Forever PROVE now < storedAt[d] + ttl
    OBVIOUS
  <2>1. content[f].expires = storedAt[d] + ttl
    BY <1>2 DEF EntryOf
  <2>2. ttl \in Nat /\ storedAt[d] \in Nat /\ now \in Nat
    BY <1>1, TTLAssumption, MaxTimeAssumption DEF CacheInvariant, TypeOK, Never
  <2>3. storedAt[d] + ttl # Forever
    BY <2>2, TTLAssumption
  <2> QED BY <2>1, <2>2, <2>3 DEF Live, Expired
<1> QED BY <1>1, <1>2, <1>3

Busy == {"unlinking", "computing", "dumping", "replacing"}

\* What one step of the system does to one call.
Moves(c) ==
  \/ /\ pc'[c] = pc[c] \/ {pc[c], pc'[c]} \subseteq Busy
     /\ key'[c] = key[c] /\ answer'[c] = answer[c]
  \/ /\ pc[c] = "new" /\ pc'[c] \in Busy
     /\ key'[c] \in Keys /\ answer'[c] = answer[c]
  \/ /\ pc[c] = "new" /\ pc'[c] = "returned"
     /\ key'[c] \in Keys
     /\ \/ Live(key'[c]) /\ key'[c] \notin bare /\ answer'[c] = content[published[key'[c]]].by
        \/ key'[c] \in bare /\ answer'[c] = key'[c]
  \/ /\ pc[c] \in Busy /\ pc'[c] = "returned"
     /\ storedAt'[c] # Never /\ answer'[c] = c /\ key'[c] = key[c]
  \/ /\ pc[c] \in Busy /\ pc'[c] \in {"raised", "dead"}
     /\ key'[c] = key[c] /\ answer'[c] = answer[c]

LEMMA CallsMove ==
  ASSUME CacheInvariant, Next, NEW c \in Calls
  PROVE  /\ Moves(c)
         /\ storedAt'[c] = storedAt[c] \/ (pc[c] = "computing" /\ storedAt'[c] # Never)
<1> USE DEF Busy
<1>1. TypeOK /\ CallFits(c)
  BY DEF CacheInvariant
<1>2. now # Never
  BY <1>1, MaxTimeAssumption DEF TypeOK, Never
<1>3. ASSUME NEW d \in Calls \ {c}, Look(d) \/ Step(d)
      PROVE  pc'[c] = pc[c] /\ key'[c] = key[c] /\ answer'[c] = answer[c] /\ storedAt'[c] = storedAt[c]
  <2>1. CASE Look(d)
    BY <1>1, <1>3, <2>1 DEF TypeOK, Look, Hit, HitBare, Miss, FindExpired, Begin, Return, Goto
  <2>2. CASE UnlinkExpired(d) \/ FunctionRaises(d) \/ ReturnUncached(d) \/ RedisStores(d)
               \/ RedisStoreFails(d)
    BY <1>1, <1>3, <2>2 DEF TypeOK, UnlinkExpired, FunctionRaises, ReturnUncached, RedisStores,
       RedisStoreFails, StartStore, Return, Raise, Goto
  <2>3. CASE DiskOpens(d) \/ DiskOpenFails(d) \/ DiskDumps(d) \/ DiskDumpFails(d)
               \/ DiskReplaces(d) \/ DiskReplaceFails(d)
    BY <1>1, <1>3, <2>3 DEF TypeOK, DiskOpens, DiskOpenFails, DiskDumps, DiskDumpFails,
       DiskReplaces, DiskReplaceFails, StartStore, Return, Raise, Goto
  <2> QED BY <1>3, <2>1, <2>2, <2>3 DEF Step
<1>4. CASE Look(c)
  <2>1. PICK k \in Keys : Hit(c, k) \/ HitBare(c, k) \/ Miss(c, k) \/ FindExpired(c, k)
    BY <1>4 DEF Look
  <2>2. key'[c] = k /\ pc[c] = "new" /\ storedAt' = storedAt
    BY <1>1, <2>1 DEF TypeOK, Hit, HitBare, Miss, FindExpired, Begin
  <2>3. CASE Hit(c, k)
    <3>1. k \notin bare
      BY <2>3 DEF Hit, Live, Whole, CacheInvariant, BareResultsFit
    <3> QED BY <1>1, <2>2, <2>3, <3>1 DEF TypeOK, Hit, Return, Moves
  <2>5. CASE HitBare(c, k)
    BY <1>1, <2>2, <2>5 DEF TypeOK, HitBare, Return, Moves
  <2>4. CASE Miss(c, k) \/ FindExpired(c, k)
    BY <1>1, <2>2, <2>4 DEF TypeOK, Miss, FindExpired, Goto, Moves
  <2> QED BY <2>1, <2>3, <2>4, <2>5
<1>5. CASE UnlinkExpired(c) \/ DiskDumps(c)
  BY <1>1, <1>5 DEF TypeOK, UnlinkExpired, DiskDumps, Goto, Moves
<1>6. CASE DiskOpens(c)
  BY <1>1, <1>2, <1>6 DEF TypeOK, DiskOpens, StartStore, Goto, Moves
<1>7. CASE FunctionRaises(c) \/ DiskOpenFails(c) \/ DiskDumpFails(c) \/ DiskReplaceFails(c)
  BY <1>1, <1>2, <1>7 DEF TypeOK, FunctionRaises, DiskOpenFails, DiskDumpFails, DiskReplaceFails,
     StartStore, Raise, Moves
<1>8. CASE ReturnUncached(c) \/ RedisStores(c) \/ RedisStoreFails(c)
  BY <1>1, <1>2, <1>8 DEF TypeOK, ReturnUncached, RedisStores, RedisStoreFails, StartStore,
     Return, Moves
<1>9. CASE DiskReplaces(c)
  BY <1>1, <1>9 DEF TypeOK, CallFits, DiskReplaces, Return, Moves
<1>10. CASE (\E k \in Keys : Remove(k)) \/ Tick
  BY <1>10 DEF Remove, Tick, callVars, Moves
<1>11. ASSUME NEW d \in Calls, Crash(Home[d])
       PROVE  /\ Moves(c)
              /\ storedAt'[c] = storedAt[c]
  <2>1. /\ pc'[c] = pc[c] \/ (pc[c] \in Busy /\ pc'[c] = "dead")
        /\ UNCHANGED <<key, answer, storedAt>>
    BY <1>1, <1>11 DEF TypeOK, Crash, Over, Phases
  <2> QED BY <2>1 DEF Moves
<1>12. CASE \E d \in Calls \ {c} : Look(d) \/ Step(d)
  BY <1>3, <1>12 DEF Moves
<1>13. CASE Step(c)
  BY <1>5, <1>6, <1>7, <1>8, <1>9, <1>13 DEF Step
<1> QED BY <1>4, <1>10, <1>11, <1>12, <1>13 DEF Next

\* No hit on an entry is older than the time to live, whichever process stored it; a bare
\* result is hit on disk only, and only before the first call publishes under its key.
THEOREM HitsAreFreshHolds == Spec => HitsAreFresh
<1> DEFINE Fresh ==
      \A c \in Calls :
        pc[c] = "new" /\ pc'[c] = "returned" =>
          IF answer'[c] \in Calls
          THEN ttl = Forever \/ now < storedAt[answer'[c]] + ttl
          ELSE /\ backend = "disk" /\ answer'[c] = key'[c]
               /\ \A d \in Calls :
                    ~(key[d] = key'[c] /\ pc[d] = "returned" /\ handle[d] # Nobody)
<1>1. CacheInvariant /\ [Next]_vars => [Fresh]_vars
  <2> SUFFICES ASSUME CacheInvariant, Next, NEW c \in Calls, pc[c] = "new", pc'[c] = "returned"
               PROVE  IF answer'[c] \in Calls
                      THEN ttl = Forever \/ now < storedAt[answer'[c]] + ttl
                      ELSE /\ backend = "disk" /\ answer'[c] = key'[c]
                           /\ \A d \in Calls : ~Published(d, key'[c])
    BY DEF Published
  <2>1. PICK k \in Keys : /\ key'[c] = k
                          /\ \/ Live(k) /\ answer'[c] = content[published[k]].by
                             \/ k \in bare /\ answer'[c] = k
    BY CallsMove DEF Moves, Busy
  <2>2. CASE Live(k) /\ answer'[c] = content[published[k]].by
    BY <2>2, LiveEntries DEF LiveEntriesAreAnswers
  <2>3. CASE k \in bare /\ answer'[c] = k
    <3>1. k \notin Calls
      BY KeysAssumption
    <3>2. backend = "disk" /\ \A d \in Calls : ~Published(d, k)
      BY <2>3 DEF CacheInvariant, BareResultsFit
    <3> QED BY <2>1, <2>3, <3>1, <3>2
  <2> QED BY <2>1, <2>2, <2>3
<1> QED BY <1>1, InvariantHolds, PTL DEF Spec, HitsAreFresh

-----------------------------------------------------------------------------
(* Both caches are a memo.                                                 *)

\* The memo's status of a call.
LEMMA StatusOfPhase ==
  ASSUME TypeOK, NEW c \in Calls
  PROVE  /\ pc[c] = "new" <=> Status(c) = "new"
         /\ pc[c] = "returned" <=> Status(c) = "done"
         /\ pc[c] \in {"raised", "dead"} <=> Status(c) = "failed"
         /\ pc[c] \in Busy <=> Status(c) = "busy"
  BY DEF TypeOK, Phases, Busy, Status

\* Nothing writes a bare result any more.
LEMMA BareResultsGo == Next => bare' \subseteq bare
<1> SUFFICES ASSUME Next PROVE bare' \subseteq bare
  OBVIOUS
<1>1. ASSUME NEW c \in Calls, Look(c) PROVE bare' \subseteq bare
  BY <1>1 DEF Look, Hit, HitBare, Miss, FindExpired, fileVars
<1>2. ASSUME NEW c \in Calls, Step(c) PROVE bare' \subseteq bare
  BY <1>2 DEF Step, UnlinkExpired, FunctionRaises, ReturnUncached, RedisStores, RedisStoreFails,
     DiskOpens, DiskOpenFails, DiskDumps, DiskDumpFails, DiskReplaces, DiskReplaceFails,
     StartStore, fileVars
<1>3. CASE (\E k \in Keys : Remove(k)) \/ (\E c \in Calls : Crash(Home[c])) \/ Tick
  BY <1>3 DEF Remove, Crash, Tick, fileVars
<1> QED BY <1>1, <1>2, <1>3 DEF Next

LEMMA StepsAreMemoSteps ==
  ASSUME CacheInvariant, CacheInvariant', Next
  PROVE  MemoOf!Next
<1>1. TypeOK /\ TypeOK'
  BY DEF CacheInvariant
<1>2. ASSUME NEW c \in Calls
      PROVE  MemoOf!Rest(c) \/ MemoOf!Begin(c) \/ MemoOf!Recall(c) \/ MemoOf!Finish(c) \/ MemoOf!Fail(c)
  <2>1. /\ pc[c] = "new" <=> Status(c) = "new"
        /\ pc[c] = "returned" <=> Status(c) = "done"
        /\ pc[c] \in {"raised", "dead"} <=> Status(c) = "failed"
        /\ pc[c] \in Busy <=> Status(c) = "busy"
    BY <1>1, StatusOfPhase
  <2>2. /\ pc'[c] = "new" <=> Status(c)' = "new"
        /\ pc'[c] = "returned" <=> Status(c)' = "done"
        /\ pc'[c] \in {"raised", "dead"} <=> Status(c)' = "failed"
        /\ pc'[c] \in Busy <=> Status(c)' = "busy"
    BY <1>1 DEF TypeOK, Phases, Busy, Status
  <2>3. pc'[c] = pc[c] => Status(c)' = Status(c)
    BY DEF Status
  <2>4. Moves(c)
    BY CallsMove
  <2>5. ASSUME NEW k \in Keys, Live(k) PROVE content[published[k]].by # Nobody
    BY <2>5 DEF Live, Whole
  <2>6. ASSUME NEW k \in Keys, Live(k) \/ k \in bare
        PROVE  (IF k \in bare THEN k ELSE IF Live(k) THEN content[published[k]].by ELSE Nobody) # Nobody
    BY <2>5, <2>6, NobodyAssumption
  <2> QED
    BY <2>1, <2>2, <2>3, <2>4, <2>6
       DEF Moves, MemoOf!Rest, MemoOf!Begin, MemoOf!Recall, MemoOf!Finish, MemoOf!Fail
<1>3. MemoOf!Compute
  <2> DEFINE S == {c \in Calls : storedAt'[c] # Never /\ storedAt[c] = Never}
  <2>1. S \subseteq {c \in Calls : Status(c) = "busy"}
    BY <1>1, CallsMove, StatusOfPhase DEF Busy
  <2>2. {c \in Calls : storedAt[c] # Never}' = {c \in Calls : storedAt[c] # Never} \union S
    BY CallsMove DEF Never
  <2> QED BY <2>1, <2>2 DEF MemoOf!Compute
<1>4. MemoOf!Remember
  <2>1. ASSUME NEW k \in Keys, Live(k)'
        PROVE  LET d == content'[published'[k]].by
               IN  d \in Calls /\ storedAt'[d] # Never /\ key[d] = k
    <3>1. LET d == content'[published'[k]].by
          IN  d \in Calls /\ storedAt'[d] # Never /\ key'[d] = k
      <4>1. CacheInvariant' => LiveEntriesAreAnswers'
        BY LiveEntries, PTL
      <4> QED BY <2>1, <4>1 DEF LiveEntriesAreAnswers
    <3>2. ASSUME NEW d \in Calls, storedAt'[d] # Never PROVE key'[d] = key[d]
      BY <3>2, CallsMove DEF Moves, CacheInvariant, CallFits, Busy
    <3> QED BY <3>1, <3>2
  <2>2. bare' \subseteq bare /\ bare \subseteq Keys
    BY <1>1, BareResultsGo DEF TypeOK
  <2> DEFINE memo == [k \in Keys |-> IF k \in bare THEN k
                                     ELSE IF Live(k) THEN content[published[k]].by ELSE Nobody]
  <2>3. ASSUME NEW k \in Keys
        PROVE  memo'[k] \in {memo[k], Nobody} \union {d \in {e \in Calls : storedAt[e] # Never}' : key[d] = k}
    <3>1. CASE k \in bare'
      BY <2>2, <3>1
    <3>2. CASE k \notin bare' /\ Live(k)'
      BY <2>1, <3>2
    <3>3. CASE k \notin bare' /\ ~Live(k)'
      BY <3>3
    <3> QED BY <3>1, <3>2, <3>3
  <2>4. memo' \in [Keys -> Calls \union Keys \union {Nobody}]
    BY <2>1
  <2> HIDE DEF memo
  <2> QED BY <2>3, <2>4 DEF MemoOf!Remember, memo
<1> QED BY <1>2, <1>3, <1>4 DEF MemoOf!Next

\* No answer is made up, torn, or another key's: what a call returns it has computed, or an
\* earlier call computed for the same key and the cache held.
THEOREM ImplementsMemoHolds == Spec => ImplementsMemo
<1>1. Init => MemoOf!Init
  BY NobodyAssumption DEF Init, MemoOf!Init, Status, Never, Live, Whole
<1>2. CacheInvariant /\ CacheInvariant' /\ [Next]_vars => [MemoOf!Next]_(MemoOf!vars)
  <2>1. UNCHANGED vars => UNCHANGED MemoOf!vars
    BY DEF vars, callVars, fileVars, MemoOf!vars, Status, Live, Whole, Expired
  <2> QED BY <2>1, StepsAreMemoSteps
<1> QED BY <1>1, <1>2, InvariantHolds, PTL DEF Spec, ImplementsMemo, MemoOf!Spec
=============================================================================
