-------------------------- MODULE JobUpsertsProofs --------------------------
(***************************************************************************)
(* Proofs about JobUpserts, for any writers, urls, rows and batch limit.   *)
(***************************************************************************)
EXTENDS JobUpserts, NaturalOrder, TLAPS

\* The steps that leave the table, the rows and the progress of all writers alone.
Quiet(w) ==
  \/ \E job \in {"syncing", "loading"} : Receive(w, job)
  \/ GatherFails(w) \/ AbortDeadlock(w) \/ Finish(w) \/ Die(w)

\* A step of a writer is a quiet one, or gathers, takes a row or commits.
LEMMA StepCases ==
  ASSUME NEW w \in Writers, Step(w) \/ Die(w) \/ (\E job \in {"syncing", "loading"} : Receive(w, job))
  PROVE  \/ Quiet(w)
         \/ \E list \in RowLists : SyncGathers(w, list) \/ LoadGathers(w, list)
         \/ TakeRow(w)
         \/ Commit(w)
  BY DEF Step, Quiet

\* What quiet steps share: one writer moves on, perhaps with an answer.
LEMMA QuietFrame ==
  ASSUME NEW w \in Writers, TypeOK, AnswerIsLast, Quiet(w)
  PROVE  /\ UNCHANGED <<table, rows, progress, committed>>
         /\ reply[w] = "none"
         /\ \/ pc' = [pc EXCEPT ![w] = "answered"] /\ reply' = [reply EXCEPT ![w] = "error"]
            \/ /\ reply' = reply
               /\ \/ /\ pc[w] = "idle"
                     /\ \E job \in {"syncing", "loading"} : pc' = [pc EXCEPT ![w] = job]
                  \/ pc' = [pc EXCEPT ![w] = "dead"]
                  \/ /\ pc[w] = "upserting" /\ at[w] > Len(rows[w])
                     /\ pc' = [pc EXCEPT ![w] = "committing"]
<1>1. pc[w] # "answered"
  BY DEF Quiet, Receive, GatherFails, AbortDeadlock, Finish, Die, WantsRow,
         InDeadlock, Blockers, TypeOK, Phases
<1>2. reply[w] = "none"
  BY <1>1 DEF AnswerIsLast
<1> QED
  BY <1>2 DEF Quiet, Receive, GatherFails, AbortDeadlock, Finish, Die, Answer, Goto

\* Type correctness: every variable keeps its type.
THEOREM TypeCorrect == Spec => []TypeOK
<1>1. Init => TypeOK
  <2> SUFFICES ASSUME Init PROVE TypeOK
    OBVIOUS
  <2>1. <<>> \in RowLists
    <3>1. <<>> \in [1..0 -> Urls]
      OBVIOUS
    <3> QED BY <3>1, MaxRowsAssumption DEF RowLists
  <2> QED BY <2>1 DEF Init, TypeOK, Phases
<1>2. TypeOK /\ [Next]_vars => TypeOK'
  <2> SUFFICES ASSUME TypeOK, [Next]_vars PROVE TypeOK'
    OBVIOUS
  <2> USE DEF TypeOK
  <2>1. ASSUME NEW w \in Writers, Quiet(w) PROVE TypeOK'
    BY <2>1 DEF Quiet, Receive, GatherFails, AbortDeadlock, Finish, Die, Answer,
                Goto, Phases, progress
  <2>2. ASSUME NEW w \in Writers, NEW list \in RowLists,
               SyncGathers(w, list) \/ LoadGathers(w, list)
        PROVE  TypeOK'
    BY <2>2 DEF SyncGathers, LoadGathers, Gather, Goto, Phases, progress
  <2>3. ASSUME NEW w \in Writers, TakeRow(w) PROVE TypeOK'
    <3>1. at' \in [Writers -> Nat \ {0}]
      BY <2>3 DEF TakeRow
    <3>2. start' \in [Writers -> Nat \ {0}] /\ processed' \in [Writers -> Nat]
      BY <2>3 DEF TakeRow
    <3>3. [staged[w] EXCEPT ![Wanted(w)] = at[w]] \in [Urls -> Nat]
      OBVIOUS
    <3>4. staged' \in [Writers -> [Urls -> Nat]]
      BY <2>3, <3>3 DEF TakeRow
    <3> QED BY <2>3, <3>1, <3>2, <3>4 DEF TakeRow
  <2>4. ASSUME NEW w \in Writers, Commit(w) PROVE TypeOK'
    BY <2>4 DEF Commit, Answer, Goto, Phases, progress
  <2>5. CASE UNCHANGED vars
    BY <2>5 DEF vars, progress
  <2> QED BY <2>1, <2>2, <2>3, <2>4, <2>5, StepCases DEF Next
<1> QED BY <1>1, <1>2, PTL DEF Spec

\* A list of rows is a sequence.
LEMMA RowListsAreSequences == RowLists \subseteq Seq(Urls)
  BY MaxRowsAssumption DEF RowLists

\* A row that is taken is locked by nobody else, and only its writer's locks grow.
LEMMA TakeRowLocks ==
  ASSUME NEW w \in Writers, TypeOK, TakeRow(w)
  PROVE  /\ Wanted(w) \in Urls
         /\ Locked(w)' = Locked(w) \union {Wanted(w)}
         /\ \A v \in Writers \ {w} : Locked(v)' = Locked(v) /\ Wanted(w) \notin Locked(v)
<1>1. rows[w] \in Seq(Urls) /\ at[w] \in 1..Len(rows[w])
  BY RowListsAreSequences DEF TypeOK, TakeRow, WantsRow
<1>2. Wanted(w) \in Urls
  BY <1>1 DEF Wanted
<1>3. pc[w] = "upserting" /\ pc' = pc /\ staged' = [staged EXCEPT ![w][Wanted(w)] = at[w]]
  BY DEF TakeRow, WantsRow
<1>4. Locked(w)' = Locked(w) \union {Wanted(w)}
  BY <1>1, <1>2, <1>3 DEF Locked, TypeOK
<1>5. ASSUME NEW v \in Writers \ {w} PROVE Locked(v)' = Locked(v) /\ Wanted(w) \notin Locked(v)
  BY <1>3 DEF TakeRow, Blockers, Locked, TypeOK
<1> QED BY <1>2, <1>4, <1>5

\* Positions are taken in the order of the rows.
LEMMA RowsTakenInOrderPreserved ==
  ASSUME NEW w \in Writers, TypeOK, RowsTakenInOrder, TakeRow(w)
  PROVE  RowsTakenInOrder'
<1> SUFFICES ASSUME NEW v \in Writers
             PROVE  /\ at'[v] <= Len(rows'[v]) + 1
                    /\ start'[v] <= at'[v]
                    /\ processed'[v] = start'[v] - 1
                    /\ IsInjective(rows'[v])
                    /\ \A i \in 1..Len(rows'[v]) : i < at'[v] => staged'[v][rows'[v][i]] = i
                    /\ \A u \in Urls : staged'[v][u] # 0 => staged'[v][u] < at'[v]
  BY DEF RowsTakenInOrder
<1>0. Wanted(w) \in Urls
  BY TakeRowLocks
<1>1. rows[w] \in Seq(Urls) /\ at[w] \in 1..Len(rows[w]) /\ Wanted(w) \in Urls /\ rows' = rows
  BY <1>0, RowListsAreSequences DEF TypeOK, TakeRow, WantsRow
<1>2. at' = [at EXCEPT ![w] = @ + 1] /\ staged' = [staged EXCEPT ![w][Wanted(w)] = at[w]]
  BY DEF TakeRow
<1>3. CASE v # w
  <2>1. /\ rows'[v] = rows[v] /\ at'[v] = at[v] /\ staged'[v] = staged[v]
        /\ start'[v] = start[v] /\ processed'[v] = processed[v]
    BY <1>1, <1>2, <1>3 DEF TakeRow, TypeOK
  <2> QED BY <2>1 DEF RowsTakenInOrder
<1>4. CASE v = w
  <2>1. at'[w] = at[w] + 1 /\ at[w] \in Nat /\ start[w] \in Nat /\ Len(rows[w]) \in Nat
    BY <1>1, <1>2 DEF TypeOK
  <2>2. start'[w] <= at'[w] /\ processed'[w] = start'[w] - 1
    <3>1. start[w] <= at[w] /\ processed[w] = start[w] - 1
      BY DEF RowsTakenInOrder
    <3>2. CASE UNCHANGED <<start, processed>>
      BY <2>1, <3>1, <3>2
    <3>3. CASE /\ start' = [start EXCEPT ![w] = at[w] + 1]
               /\ processed' = [processed EXCEPT ![w] = at[w]]
      <4>1. start'[w] = at[w] + 1 /\ processed'[w] = at[w]
        BY <3>3 DEF TypeOK
      <4> QED BY <2>1, <4>1
    <3> QED BY <3>2, <3>3 DEF TakeRow
  <2>3. \A u \in Urls : staged'[w][u] = IF u = Wanted(w) THEN at[w] ELSE staged[w][u]
    BY <1>1, <1>2 DEF TypeOK
  <2>4. ASSUME NEW i \in 1..Len(rows[w]), i < at'[w] PROVE staged'[w][rows[w][i]] = i
    <3>1. rows[w][i] \in Urls
      BY <1>1
    <3>2. CASE rows[w][i] = Wanted(w)
      <4>1. IsInjective(rows[w]) /\ DOMAIN rows[w] = 1..Len(rows[w])
        BY <1>1 DEF RowsTakenInOrder
      <4>2. i = at[w]
        BY <1>1, <3>2, <4>1 DEF Wanted, IsInjective
      <4> QED BY <2>3, <3>1, <3>2, <4>2
    <3>3. CASE rows[w][i] # Wanted(w)
      <4>1. i # at[w]
        BY <3>3 DEF Wanted
      <4>2. staged[w][rows[w][i]] = i
        BY <2>1, <2>4, <4>1 DEF RowsTakenInOrder
      <4> QED BY <2>3, <3>1, <3>3, <4>2
    <3> QED BY <3>2, <3>3
  <2>5. ASSUME NEW u \in Urls, staged'[w][u] # 0 PROVE staged'[w][u] < at'[w]
    <3>1. staged[w][u] # 0 => staged[w][u] < at[w]
      BY DEF RowsTakenInOrder
    <3>2. staged[w][u] \in Nat
      BY DEF TypeOK
    <3> QED BY <2>1, <2>3, <2>5, <3>1, <3>2
  <2>6. IsInjective(rows[w])
    BY DEF RowsTakenInOrder
  <2> QED BY <1>1, <1>4, <2>1, <2>2, <2>4, <2>5, <2>6
<1> QED BY <1>3, <1>4

\* Nothing happens to the origin of rows while the table, the answers "ok" and what the
\* answered writers staged stay as they are.
LEMMA TableFromCommitsFrame ==
  ASSUME TypeOK, TableFromCommits, UNCHANGED <<table, committed>>,
         \A v \in Writers : reply'[v] = "ok" <=> reply[v] = "ok",
         \A v \in Writers : reply[v] = "ok" => staged'[v] = staged[v]
  PROVE  TableFromCommits'
<1>1. \A v \in Writers : reply'[v] = "ok" <=> \E n \in 1..Len(committed') : committed'[n] = v
  BY DEF TableFromCommits
<1>2. ASSUME NEW u \in Urls, table'[u] # NoRow
      PROVE  reply'[table'[u][1]] = "ok" /\ table'[u][2] = staged'[table'[u][1]][u]
  <2>1. table'[u] = table[u] /\ table[u][1] \in Writers
    BY <1>2 DEF TypeOK
  <2>2. reply[table[u][1]] = "ok" /\ table[u][2] = staged[table[u][1]][u]
    BY <1>2, <2>1 DEF TableFromCommits
  <2> QED BY <2>1, <2>2
<1>3. ASSUME NEW v \in Writers, NEW u \in Urls, reply'[v] = "ok", staged'[v][u] # 0
      PROVE  /\ table'[u] # NoRow
             /\ \/ table'[u][1] = v
                \/ \E m, n \in 1..Len(committed') :
                     m < n /\ committed'[m] = v /\ committed'[n] = table'[u][1]
  <2>1. reply[v] = "ok" /\ staged[v][u] # 0
    BY <1>3
  <2> QED BY <2>1 DEF TableFromCommits
<1> QED BY <1>1, <1>2, <1>3 DEF TableFromCommits

\* A commit puts the staged rows into the table and its writer behind all others.
LEMMA CommitExtendsTable ==
  ASSUME NEW w \in Writers, TypeOK, TableFromCommits,
         pc[w] = "committing", reply[w] = "none", UNCHANGED staged,
         reply' = [reply EXCEPT ![w] = "ok"],
         committed' = Append(committed, w),
         table' = [u \in Urls |-> IF u \in Locked(w) THEN <<w, staged[w][u]>> ELSE table[u]]
  PROVE  TableFromCommits'
<1> USE DEF TypeOK
<1>1. /\ Len(committed') = Len(committed) + 1
      /\ Len(committed) \in Nat
      /\ committed'[Len(committed) + 1] = w
      /\ \A n \in 1..Len(committed) : committed'[n] = committed[n]
  OBVIOUS
<1>2. \A v \in Writers : reply'[v] = "ok" <=> \E n \in 1..Len(committed') : committed'[n] = v
  <2> TAKE v \in Writers
  <2>1. CASE v = w
    BY <1>1, <2>1
  <2>2. CASE v # w
    <3>1. reply'[v] = "ok" <=> \E n \in 1..Len(committed) : committed[n] = v
      BY <2>2 DEF TableFromCommits
    <3> QED BY <1>1, <2>2, <3>1
  <2> QED BY <2>1, <2>2
<1>3. ASSUME NEW u \in Urls, table'[u] # NoRow
      PROVE  reply'[table'[u][1]] = "ok" /\ table'[u][2] = staged'[table'[u][1]][u]
  <2>1. CASE u \in Locked(w)
    BY <2>1
  <2>2. CASE u \notin Locked(w)
    <3>1. table'[u] = table[u] /\ table[u][1] \in Writers
      BY <1>3, <2>2
    <3> QED BY <1>3, <3>1 DEF TableFromCommits
  <2> QED BY <2>1, <2>2
<1>4. ASSUME NEW v \in Writers, NEW u \in Urls, reply'[v] = "ok", staged'[v][u] # 0
      PROVE  /\ table'[u] # NoRow
             /\ \/ table'[u][1] = v
                \/ \E m, n \in 1..Len(committed') :
                     m < n /\ committed'[m] = v /\ committed'[n] = table'[u][1]
  <2>1. CASE u \in Locked(w)
    <3>1. table'[u] = <<w, staged[w][u]>> /\ table'[u] # NoRow
      BY <2>1, NoRowAssumption
    <3>2. CASE v = w
      BY <3>1, <3>2
    <3>3. CASE v # w
      <4>1. \E m \in 1..Len(committed) : committed[m] = v
        BY <1>4, <3>3 DEF TableFromCommits
      <4>2. ASSUME NEW m \in 1..Len(committed), committed[m] = v
            PROVE  \E i, j \in 1..Len(committed') :
                     i < j /\ committed'[i] = v /\ committed'[j] = table'[u][1]
        <5> DEFINE n == Len(committed) + 1
        <5>1. committed'[m] = v /\ committed'[n] = table'[u][1]
          BY <1>1, <3>1, <4>2
        <5>2. m \in 1..Len(committed') /\ n \in 1..Len(committed') /\ m < n
          BY ONLY <1>1, m \in 1..Len(committed)
        <5> HIDE DEF n
        <5> QED BY <5>1, <5>2
      <4> QED BY <3>1, <4>1, <4>2
    <3> QED BY <3>2, <3>3
  <2>2. CASE u \notin Locked(w)
    <3>1. v # w
      BY <1>4, <2>2 DEF Locked
    <3>2. table'[u] = table[u] /\ reply[v] = "ok" /\ staged[v][u] # 0
      BY <1>4, <2>2, <3>1
    <3>3. /\ table[u] # NoRow
          /\ \/ table[u][1] = v
             \/ \E m, n \in 1..Len(committed) :
                  m < n /\ committed[m] = v /\ committed[n] = table[u][1]
      BY <3>2 DEF TableFromCommits
    <3>4. 1..Len(committed) \subseteq 1..Len(committed')
      BY <1>1
    <3>5. CASE table[u][1] = v
      BY <3>2, <3>3, <3>5
    <3>6. ASSUME NEW m \in 1..Len(committed), NEW n \in 1..Len(committed),
                 m < n, committed[m] = v, committed[n] = table[u][1]
          PROVE  \E i, j \in 1..Len(committed') :
                   i < j /\ committed'[i] = v /\ committed'[j] = table'[u][1]
      <4>1. committed'[m] = v /\ committed'[n] = table'[u][1]
        BY <1>1, <3>2, <3>6
      <4>2. m \in 1..Len(committed') /\ n \in 1..Len(committed')
        BY <3>4
      <4> QED BY <3>6, <4>1, <4>2
    <3> QED BY <3>2, <3>3, <3>5, <3>6
  <2> QED BY <2>1, <2>2
<1>5. \A u \in Urls :
        table'[u] # NoRow =>
          reply'[table'[u][1]] = "ok" /\ table'[u][2] = staged'[table'[u][1]][u]
  BY ONLY <1>3
<1>6. \A v \in Writers, u \in Urls :
        reply'[v] = "ok" /\ staged'[v][u] # 0 =>
          /\ table'[u] # NoRow
          /\ \/ table'[u][1] = v
             \/ \E m, n \in 1..Len(committed') :
                  m < n /\ committed'[m] = v /\ committed'[n] = table'[u][1]
  BY ONLY <1>4
<1> QED BY ONLY <1>2, <1>5, <1>6 DEF TableFromCommits

\* The inductive invariant: lock exclusion, counting and the origin of every row in the
\* table survive every step of every writer.
THEOREM InvariantHolds == Spec => []UpsertsInvariant
<1>1. Init => UpsertsInvariant
  BY DEF Init, UpsertsInvariant, LocksExclusive, Locked, FreshUntilGathered, AnswerIsLast,
         RowsTakenInOrder, IsInjective, AllRowsSent, TableFromCommits
<1>2. TypeOK /\ UpsertsInvariant /\ [Next]_vars => UpsertsInvariant'
  <2> SUFFICES ASSUME TypeOK, UpsertsInvariant, [Next]_vars PROVE UpsertsInvariant'
    OBVIOUS
  <2>1. ASSUME NEW w \in Writers, Quiet(w) PROVE UpsertsInvariant'
    <3> USE DEF TypeOK
    <3>1. /\ UNCHANGED <<table, rows, at, start, staged, processed, committed>>
          /\ reply[w] = "none"
          /\ \/ pc' = [pc EXCEPT ![w] = "answered"] /\ reply' = [reply EXCEPT ![w] = "error"]
             \/ /\ reply' = reply
                /\ \/ /\ pc[w] = "idle"
                      /\ \E job \in {"syncing", "loading"} : pc' = [pc EXCEPT ![w] = job]
                   \/ pc' = [pc EXCEPT ![w] = "dead"]
                   \/ /\ pc[w] = "upserting" /\ at[w] > Len(rows[w])
                      /\ pc' = [pc EXCEPT ![w] = "committing"]
      BY <2>1, QuietFrame DEF UpsertsInvariant, progress
    <3>2. \A v \in Writers : Locked(v)' \subseteq Locked(v)
      BY <3>1 DEF Locked
    <3>3. LocksExclusive'
      BY <3>2 DEF UpsertsInvariant, LocksExclusive
    <3>4. FreshUntilGathered'
      BY <3>1 DEF UpsertsInvariant, FreshUntilGathered
    <3>5. AnswerIsLast'
      BY <3>1 DEF UpsertsInvariant, AnswerIsLast
    <3>6. RowsTakenInOrder'
      BY <3>1 DEF UpsertsInvariant, RowsTakenInOrder
    <3>7. AllRowsSent'
      <4>1. rows[w] \in Seq(Urls)
        BY RowListsAreSequences
      <4>2. at[w] > Len(rows[w]) /\ pc[w] = "upserting" => at[w] = Len(rows[w]) + 1
        BY <4>1 DEF UpsertsInvariant, RowsTakenInOrder
      <4> QED BY <3>1, <4>2 DEF UpsertsInvariant, AllRowsSent
    <3>8. TableFromCommits'
      <4>1. \A v \in Writers : reply'[v] = "ok" <=> reply[v] = "ok"
        BY <3>1
      <4> QED BY <3>1, <4>1, TableFromCommitsFrame DEF UpsertsInvariant
    <3> QED BY <3>3, <3>4, <3>5, <3>6, <3>7, <3>8 DEF UpsertsInvariant
  <2>2. ASSUME NEW w \in Writers, NEW list \in RowLists,
               SyncGathers(w, list) \/ LoadGathers(w, list)
        PROVE  UpsertsInvariant'
    <3> USE DEF TypeOK
    <3>1. /\ pc[w] \in {"syncing", "loading"}
          /\ rows' = [rows EXCEPT ![w] = list]
          /\ pc' = [pc EXCEPT ![w] = "upserting"]
          /\ UNCHANGED <<table, at, start, staged, processed, reply, committed>>
          /\ IsInjective(list)
      BY <2>2 DEF SyncGathers, LoadGathers, Gather, Goto, progress
    <3>2. /\ at[w] = 1 /\ start[w] = 1 /\ processed[w] = 0
          /\ \A u \in Urls : staged[w][u] = 0
          /\ reply[w] = "none"
      BY <3>1 DEF UpsertsInvariant, FreshUntilGathered, AnswerIsLast
    <3>3. list \in Seq(Urls) /\ Len(list) \in Nat /\ DOMAIN list = 1..Len(list)
      BY RowListsAreSequences
    <3>4. LocksExclusive'
      <4>1. \A v \in Writers : Locked(v)' = Locked(v)
        BY <3>1, <3>2 DEF Locked
      <4> QED BY <4>1 DEF UpsertsInvariant, LocksExclusive
    <3>5. FreshUntilGathered' /\ AnswerIsLast'
      BY <3>1, <3>2 DEF UpsertsInvariant, FreshUntilGathered, AnswerIsLast
    <3>6. RowsTakenInOrder'
      BY <3>1, <3>2, <3>3 DEF UpsertsInvariant, RowsTakenInOrder
    <3>7. AllRowsSent'
      BY <3>1, <3>2, <3>3 DEF UpsertsInvariant, AllRowsSent
    <3>8. TableFromCommits'
      BY <3>1, TableFromCommitsFrame DEF UpsertsInvariant
    <3> QED BY <3>4, <3>5, <3>6, <3>7, <3>8 DEF UpsertsInvariant
  <2>3. ASSUME NEW w \in Writers, TakeRow(w) PROVE UpsertsInvariant'
    <3> USE DEF TypeOK
    <3>1. /\ pc[w] = "upserting" /\ reply[w] = "none"
          /\ UNCHANGED <<table, pc, rows, reply, committed>>
          /\ at' = [at EXCEPT ![w] = @ + 1]
          /\ staged' = [staged EXCEPT ![w][Wanted(w)] = at[w]]
          /\ \A v \in Writers \ {w} : start'[v] = start[v] /\ processed'[v] = processed[v]
      BY <2>3 DEF TakeRow, WantsRow, UpsertsInvariant, AnswerIsLast
    <3>2. \A v \in Writers \ {w} : at'[v] = at[v] /\ staged'[v] = staged[v]
      BY <3>1
    <3>3. LocksExclusive'
      <4> SUFFICES ASSUME NEW v \in Writers, NEW x \in Writers, v # x
                   PROVE  Locked(v)' \intersect Locked(x)' = {}
        BY DEF LocksExclusive
      <4>1. Locked(v) \intersect Locked(x) = {}
        BY DEF UpsertsInvariant, LocksExclusive
      <4>2. /\ Locked(w)' = Locked(w) \union {Wanted(w)}
            /\ \A y \in Writers \ {w} : Locked(y)' = Locked(y) /\ Wanted(w) \notin Locked(y)
        BY <2>3, TakeRowLocks
      <4>3. CASE v = w
        BY <4>1, <4>2, <4>3
      <4>4. CASE x = w
        BY <4>1, <4>2, <4>4
      <4>5. CASE v # w /\ x # w
        BY <4>1, <4>2, <4>5
      <4> QED BY <4>3, <4>4, <4>5
    <3>4. FreshUntilGathered' /\ AnswerIsLast'
      BY <3>1, <3>2 DEF UpsertsInvariant, FreshUntilGathered, AnswerIsLast
    <3>5. RowsTakenInOrder'
      BY <2>3, RowsTakenInOrderPreserved DEF UpsertsInvariant
    <3>6. AllRowsSent'
      <4>1. rows[w] \in Seq(Urls) /\ at[w] \in Nat /\ at'[w] = at[w] + 1 /\ at[w] <= Len(rows[w])
        BY <2>3, <3>1, RowListsAreSequences DEF TakeRow, WantsRow
      <4>2. at'[w] > Len(rows[w]) => start'[w] = at'[w]
        BY <2>3, <4>1 DEF TakeRow
      <4> QED BY <3>1, <3>2, <4>2 DEF UpsertsInvariant, AllRowsSent
    <3>7. TableFromCommits'
      <4>1. \A v \in Writers : reply[v] = "ok" => staged'[v] = staged[v]
        BY <3>1, <3>2
      <4> QED BY <3>1, <4>1, TableFromCommitsFrame DEF UpsertsInvariant
    <3> QED BY <3>3, <3>4, <3>5, <3>6, <3>7 DEF UpsertsInvariant
  <2>4. ASSUME NEW w \in Writers, Commit(w) PROVE UpsertsInvariant'
    <3> USE DEF TypeOK
    <3>1. /\ pc[w] = "committing" /\ reply[w] = "none"
          /\ UNCHANGED <<rows, at, start, staged, processed>>
          /\ pc' = [pc EXCEPT ![w] = "answered"]
          /\ reply' = [reply EXCEPT ![w] = "ok"]
          /\ committed' = Append(committed, w)
          /\ table' = [u \in Urls |-> IF u \in Locked(w) THEN <<w, staged[w][u]>> ELSE table[u]]
      BY <2>4 DEF Commit, Answer, Goto, progress, UpsertsInvariant, AnswerIsLast
    <3>2. \A v \in Writers : Locked(v)' \subseteq Locked(v)
      BY <3>1 DEF Locked
    <3>3. LocksExclusive'
      BY <3>2 DEF UpsertsInvariant, LocksExclusive
    <3>4. FreshUntilGathered' /\ AnswerIsLast'
      BY <3>1 DEF UpsertsInvariant, FreshUntilGathered, AnswerIsLast
    <3>5. RowsTakenInOrder' /\ AllRowsSent'
      BY <3>1 DEF UpsertsInvariant, RowsTakenInOrder, AllRowsSent
    <3>6. TableFromCommits'
      BY <3>1, CommitExtendsTable DEF UpsertsInvariant
    <3> QED BY <3>3, <3>4, <3>5, <3>6 DEF UpsertsInvariant
  <2>5. CASE UNCHANGED vars
    BY <2>5 DEF vars, progress, UpsertsInvariant, LocksExclusive, Locked, FreshUntilGathered,
                AnswerIsLast, RowsTakenInOrder, AllRowsSent, TableFromCommits
  <2> QED BY <2>1, <2>2, <2>3, <2>4, <2>5, StepCases DEF Next
<1> QED BY <1>1, <1>2, TypeCorrect, PTL DEF Spec

\* Overlapping writers are ordered: no url is ever locked by two of them.
THEOREM LocksExclusiveHolds == Spec => []LocksExclusive
<1>1. UpsertsInvariant => LocksExclusive
  BY DEF UpsertsInvariant
<1> QED BY <1>1, InvariantHolds, PTL

\* What a caller was told: all its rows were sent, and each is in the table unless a later
\* commit replaced it.
THEOREM AnsweredRowsStoredHolds == Spec => []AnsweredRowsStored
<1>1. TypeOK /\ UpsertsInvariant => AnsweredRowsStored
  <2> SUFFICES ASSUME TypeOK, UpsertsInvariant, NEW w \in Writers, reply[w] = "ok"
               PROVE  /\ processed[w] = Len(rows[w])
                      /\ \A i \in 1..Len(rows[w]) :
                           LET row == table[rows[w][i]]
                           IN  /\ row # NoRow
                               /\ \/ row = <<w, i>>
                                  \/ \E m, n \in 1..Len(committed) :
                                       m < n /\ committed[m] = w /\ committed[n] = row[1]
    BY DEF AnsweredRowsStored
  <2>1. rows[w] \in Seq(Urls) /\ Len(rows[w]) \in Nat
    BY RowListsAreSequences DEF TypeOK
  <2>2. at[w] = Len(rows[w]) + 1 /\ processed[w] = Len(rows[w])
    BY <2>1 DEF UpsertsInvariant, AllRowsSent, RowsTakenInOrder, TypeOK
  <2>3. ASSUME NEW i \in 1..Len(rows[w])
        PROVE  /\ table[rows[w][i]] # NoRow
               /\ \/ table[rows[w][i]] = <<w, i>>
                  \/ \E m, n \in 1..Len(committed) :
                       m < n /\ committed[m] = w /\ committed[n] = table[rows[w][i]][1]
    <3> DEFINE u == rows[w][i]
    <3>1. u \in Urls
      BY <2>1
    <3>2. staged[w][u] = i /\ staged[w][u] # 0 /\ staged[w][u] \in Nat
      <4>1. staged[w][u] \in Nat
        BY <3>1 DEF TypeOK
      <4>2. i < at[w]
        BY <2>1, <2>2
      <4>3. staged[w][u] = i
        BY <4>2 DEF UpsertsInvariant, RowsTakenInOrder
      <4> QED BY <4>1, <4>3
    <3>3. table[u] # NoRow
      BY <3>1, <3>2 DEF UpsertsInvariant, TableFromCommits
    <3>4. table[u] \in Writers \X Nat
      BY <3>1, <3>3 DEF TypeOK
    <3>5. CASE table[u][1] = w
      <4>1. table[u][2] = staged[w][u]
        BY <3>1, <3>3, <3>5 DEF UpsertsInvariant, TableFromCommits
      <4>2. table[u] = <<w, staged[w][u]>>
        BY <3>4, <3>5, <4>1
      <4> QED BY <3>2, <3>3, <3>5, <4>1, <4>2
    <3>6. CASE table[u][1] # w
      BY <3>1, <3>2, <3>3, <3>6 DEF UpsertsInvariant, TableFromCommits
    <3> QED BY <3>5, <3>6
  <2> QED BY <2>2, <2>3
<1> QED BY <1>1, TypeCorrect, InvariantHolds, PTL

\* The transactions implement the atomic specification: a commit is one upsert of exactly
\* the staged rows, and every other step is a stutter.
THEOREM ImplementsAtomicUpsertsHolds == Spec => ImplementsAtomicUpserts
<1>1. Init => Atomic!Init
  BY DEF Init, Atomic!Init
<1>2. TypeOK /\ UpsertsInvariant /\ [Next]_vars => [Atomic!Next]_(Atomic!vars)
  <2> SUFFICES ASSUME TypeOK, UpsertsInvariant, [Next]_vars
               PROVE  [Atomic!Next]_(Atomic!vars)
    OBVIOUS
  <2> USE DEF TypeOK
  <2>1. ASSUME NEW w \in Writers, Quiet(w) PROVE UNCHANGED Atomic!vars
    <3>1. table' = table /\ \A v \in Writers : reply'[v] = "ok" <=> reply[v] = "ok"
      BY <2>1, QuietFrame DEF UpsertsInvariant
    <3> QED BY <3>1 DEF Atomic!vars
  <2>2. ASSUME NEW w \in Writers, NEW list \in RowLists,
               SyncGathers(w, list) \/ LoadGathers(w, list)
        PROVE  UNCHANGED Atomic!vars
    BY <2>2 DEF SyncGathers, LoadGathers, Gather, Atomic!vars
  <2>3. ASSUME NEW w \in Writers, TakeRow(w) PROVE UNCHANGED Atomic!vars
    BY <2>3 DEF TakeRow, Atomic!vars
  <2>4. ASSUME NEW w \in Writers, Commit(w) PROVE Atomic!Next
    <3>1. /\ reply[w] = "none" /\ reply' = [reply EXCEPT ![w] = "ok"]
          /\ table' = [u \in Urls |-> IF u \in Locked(w) THEN <<w, staged[w][u]>> ELSE table[u]]
      BY <2>4 DEF Commit, Answer, UpsertsInvariant, AnswerIsLast
    <3>2. Locked(w) \in SUBSET Urls
      BY DEF Locked
    <3>3. {v \in Writers : reply'[v] = "ok"} = {v \in Writers : reply[v] = "ok"} \union {w}
      BY <3>1
    <3>4. w \notin {v \in Writers : reply[v] = "ok"}
      BY <3>1
    <3>5. table' = [u \in Urls |-> IF u \in Locked(w) THEN table'[u] ELSE table[u]]
      BY <3>1
    <3>6. \A u \in Locked(w) : table'[u] \in Atomic!RowsOf(w)
      BY <3>1, <3>2 DEF Atomic!RowsOf
    <3>7. PICK S \in SUBSET Urls : S = Locked(w)
      BY <3>2
    <3>8. Atomic!Upsert(w, S)
      BY <3>3, <3>4, <3>5, <3>6, <3>7 DEF Atomic!Upsert
    <3> QED BY <3>8 DEF Atomic!Next
  <2>5. CASE UNCHANGED vars
    BY <2>5 DEF vars, Atomic!vars
  <2> QED BY <2>1, <2>2, <2>3, <2>4, <2>5, StepCases DEF Next
<1> QED
  BY <1>1, <1>2, TypeCorrect, InvariantHolds, PTL DEF Spec, ImplementsAtomicUpserts, Atomic!Spec
-----------------------------------------------------------------------------
(* Nobody waits for nothing: the finite part of EveryWriterEnds.           *)

Running == {w \in Writers : pc[w] \in {"syncing", "loading", "upserting", "committing"}}

\* The guards of the steps that a writer takes by itself.
CanGoOn(w) ==
  \/ pc[w] \in {"syncing", "loading", "committing"}
  \/ pc[w] = "upserting" /\ ~WantsRow(w)
  \/ WantsRow(w) /\ Blockers(w) = {}
  \/ InDeadlock(w)

\* Follow those whom a writer waits for, and those they wait for: one of them can go on, be
\* it that PostgreSQL ends it as part of a deadlock.
NoStandstill ==
  \A S \in SUBSET Running :
    S # {} /\ (\A w \in S : Blockers(w) \subseteq S) => \E w \in S : CanGoOn(w)

\* Only finitely many writers have started.
FinitelyMany == IsFiniteSet({w \in Writers : pc[w] # "idle"})

LEMMA FinitelyManyStart == Spec => []FinitelyMany
<1> DEFINE Started == {w \in Writers : pc[w] # "idle"}
<1>1. Init => FinitelyMany
  <2> SUFFICES ASSUME Init PROVE Started = {}
    BY FS_EmptySet DEF FinitelyMany
  <2> QED BY DEF Init
<1>2. TypeOK /\ FinitelyMany /\ [Next]_vars => FinitelyMany'
  <2> SUFFICES ASSUME TypeOK, FinitelyMany, [Next]_vars PROVE FinitelyMany'
    OBVIOUS
  <2>1. UNCHANGED vars \/ \E w \in Writers : Started' \subseteq Started \union {w}
    <3>1. ASSUME NEW w \in Writers, Step(w) \/ Die(w) \/ \E job \in {"syncing", "loading"} : Receive(w, job)
          PROVE  Started' \subseteq Started \union {w}
      BY <3>1 DEF Step, Receive, SyncGathers, LoadGathers, Gather, GatherFails, TakeRow,
                  AbortDeadlock, Finish, Commit, Die, Answer, Goto, TypeOK
    <3> HIDE DEF Started
    <3> QED BY <3>1 DEF Next
  <2>2. CASE UNCHANGED vars
    BY <2>2 DEF vars, FinitelyMany
  <2>3. CASE \E w \in Writers : Started' \subseteq Started \union {w}
    <3>1. PICK w \in Writers : Started' \subseteq Started \union {w}
      BY <2>3
    <3>2. IsFiniteSet(Started \union {w})
      BY FS_AddElement DEF FinitelyMany
    <3>3. IsFiniteSet(Started')
      BY <3>1, <3>2, FS_Subset
    <3> QED BY <3>3 DEF FinitelyMany
  <2> QED BY <2>1, <2>2, <2>3
<1> QED BY <1>1, <1>2, TypeCorrect, PTL DEF Spec

\* In a smallest set of writers that all wait within the set, each is also waited for.
LEMMA CircleIsDeadlock ==
  ASSUME NEW S \in SUBSET Writers, S # {}, IsFiniteSet(S),
         \A w \in S : Blockers(w) \intersect S # {}
  PROVE  \E w \in S : InDeadlock(w)
<1> DEFINE Circles == {T \in SUBSET S : T # {} /\ \A w \in T : Blockers(w) \intersect T # {}}
<1>1. PICK T \in Circles : \A U \in Circles : U \subseteq T => U = T
  <2>1. S \in Circles
    OBVIOUS
  <2>2. Circles \in SUBSET (SUBSET S) /\ Circles # {}
    BY <2>1
  <2> HIDE DEF Circles
  <2> QED BY <2>2, SmallestSet
<1>2. ASSUME NEW w \in T, \A x \in T : w \notin Blockers(x) PROVE FALSE
  <2>1. Blockers(w) \intersect (T \ {w}) # {}
    BY <1>2
  <2>2. \A x \in T \ {w} : Blockers(x) \intersect (T \ {w}) # {}
    BY <1>2
  <2>3. T \ {w} \in Circles
    BY <2>1, <2>2
  <2> QED BY <1>1, <2>3
<1>3. PICK w \in T : TRUE
  OBVIOUS
<1> QED BY <1>2, <1>3 DEF InDeadlock

\* Writers wait for each other's rows for as long as some of them have a step to take, and
\* when none has, the deadlock is one that PostgreSQL sees: no set of writers stands still.
THEOREM NoStandstillHolds == Spec => []NoStandstill
<1>1. FinitelyMany => NoStandstill
  <2> SUFFICES ASSUME FinitelyMany, NEW S \in SUBSET Running, S # {},
                      \A w \in S : Blockers(w) \subseteq S,
                      \A w \in S : ~CanGoOn(w)
               PROVE  FALSE
    BY DEF NoStandstill
  <2>1. S \in SUBSET {w \in Writers : pc[w] # "idle"} /\ S \in SUBSET Writers
    BY DEF Running
  <2>2. IsFiniteSet(S)
    BY <2>1, FS_Subset DEF FinitelyMany
  <2>3. \A w \in S : Blockers(w) \intersect S # {}
    BY DEF CanGoOn, Running
  <2> QED BY <2>1, <2>2, <2>3, CircleIsDeadlock DEF CanGoOn
<1> QED BY <1>1, FinitelyManyStart, PTL

\* How far a writer is from its answer: the phases to come, and the rows left in this one.
PhasesLeft(w) ==
  CASE pc[w] = "idle" -> 4
    [] pc[w] \in {"syncing", "loading"} -> 3
    [] pc[w] = "upserting" -> 2
    [] pc[w] = "committing" -> 1
    [] OTHER -> 0
RowsLeft(w) == Len(rows[w]) + 1 - at[w]

\* One writer gets nearer to its end, and nobody is set back.
OneWriterNearsItsEnd ==
  \E w \in Writers :
    /\ \/ PhasesLeft(w)' < PhasesLeft(w)
       \/ PhasesLeft(w)' = PhasesLeft(w) /\ RowsLeft(w)' < RowsLeft(w)
    /\ \A v \in Writers \ {w} : PhasesLeft(v)' = PhasesLeft(v) /\ RowsLeft(v)' = RowsLeft(v)

\* No waiting, abort or crash makes a writer start over: it takes no more steps than it has
\* phases and rows.  With NoStandstill this leaves EveryWriterEnds only the fairness.
THEOREM WritersNearTheirEnds ==
  Spec => [](\A w \in Writers : PhasesLeft(w) \in Nat /\ RowsLeft(w) \in Nat)
          /\ [][OneWriterNearsItsEnd]_vars
<1>1. TypeOK /\ UpsertsInvariant => \A w \in Writers : PhasesLeft(w) \in Nat /\ RowsLeft(w) \in Nat
  <2> SUFFICES ASSUME TypeOK, UpsertsInvariant, NEW w \in Writers
               PROVE  PhasesLeft(w) \in Nat /\ RowsLeft(w) \in Nat
    OBVIOUS
  <2>1. rows[w] \in Seq(Urls) /\ at[w] \in Nat /\ at[w] <= Len(rows[w]) + 1
    BY RowListsAreSequences DEF TypeOK, UpsertsInvariant, RowsTakenInOrder
  <2> QED BY <2>1 DEF PhasesLeft, RowsLeft
<1>2. TypeOK /\ Next => OneWriterNearsItsEnd
  <2> SUFFICES ASSUME TypeOK, NEW w \in Writers,
                      Step(w) \/ Die(w) \/ \E job \in {"syncing", "loading"} : Receive(w, job)
               PROVE  OneWriterNearsItsEnd
    BY DEF Next
  <2>1. \A v \in Writers \ {w} : PhasesLeft(v)' = PhasesLeft(v) /\ RowsLeft(v)' = RowsLeft(v)
    <3>1. \A v \in Writers \ {w} : pc'[v] = pc[v] /\ rows'[v] = rows[v] /\ at'[v] = at[v]
      BY DEF Step, Receive, SyncGathers, LoadGathers, Gather, GatherFails, TakeRow,
             AbortDeadlock, Finish, Commit, Die, Answer, Goto, TypeOK, progress
    <3> QED BY <3>1 DEF PhasesLeft, RowsLeft
  <2>2. CASE TakeRow(w)
    <3>1. pc' = pc /\ rows' = rows /\ at'[w] = at[w] + 1 /\ at[w] \in Nat /\ Len(rows[w]) \in Nat
      BY <2>2, RowListsAreSequences DEF TakeRow, TypeOK
    <3>2. PhasesLeft(w)' = PhasesLeft(w) /\ RowsLeft(w)' < RowsLeft(w)
      BY <3>1 DEF PhasesLeft, RowsLeft
    <3> QED BY <2>1, <3>2 DEF OneWriterNearsItsEnd
  <2>3. CASE ~TakeRow(w)
    <3>1. \/ pc[w] = "idle" /\ pc'[w] \in {"syncing", "loading"}
          \/ pc[w] \in {"syncing", "loading"} /\ pc'[w] \in {"upserting", "answered"}
          \/ pc[w] = "upserting" /\ pc'[w] \in {"committing", "answered"}
          \/ pc[w] = "committing" /\ pc'[w] = "answered"
          \/ pc[w] \notin {"idle", "answered", "dead"} /\ pc'[w] = "dead"
      <4>1. InDeadlock(w) => pc[w] = "upserting"
        BY DEF InDeadlock, Blockers, WantsRow
      <4> QED BY <2>3, <4>1 DEF Step, Receive, SyncGathers, LoadGathers, Gather, GatherFails,
                   WantsRow, AbortDeadlock, Finish, Commit, Die, Answer, Goto, TypeOK
    <3>2. PhasesLeft(w)' < PhasesLeft(w)
      <4>1. pc[w] \in Phases
        BY DEF TypeOK
      <4> QED BY <3>1, <4>1 DEF PhasesLeft, Phases
    <3> QED BY <2>1, <3>2 DEF OneWriterNearsItsEnd
  <2> QED BY <2>2, <2>3
<1> QED BY <1>1, <1>2, TypeCorrect, InvariantHolds, PTL DEF Spec
=============================================================================
