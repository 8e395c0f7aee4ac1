----------------------------- MODULE JobUpserts -----------------------------
(***************************************************************************)
(* Concurrent writers of the jobs table: POST /greenhouse/jobs/sync        *)
(* (greenhouse/jobs.py) and POST /jobs/load (api/api_v1.py), both through  *)
(* batched_upsert (db/upsert.py).                                          *)
(*                                                                         *)
(* A writer gathers its rows first, then sends them in statements of at    *)
(* most BatchLimit rows, all in one transaction.  Each row takes the lock  *)
(* on its url, in the order of the rows, and keeps it to the end of the    *)
(* transaction.  A row is named by its writer and its position.            *)
(***************************************************************************)
EXTENDS Naturals, Sequences, FiniteSets, Functions

CONSTANTS
  Writers,     \* requests that write jobs
  Urls,        \* uq_jobs_url, the conflict column
  NoRow,       \* the table has no row for this url
  BatchLimit,  \* min(batch_size, max_bind_parameters // columns of a row)
  MaxRows      \* rows of one writer, for model checking only

ASSUME BatchLimitAssumption == BatchLimit \in Nat \ {0}
ASSUME MaxRowsAssumption == MaxRows \in Nat
ASSUME NoRowAssumption == NoRow \notin Writers \X Nat

VARIABLES
  table,      \* the committed table: url -> row
  pc,         \* where the writer is
  rows,       \* urls of the gathered rows, in order
  at,         \* position of the row the running statement has come to
  start,      \* position of the first row of that statement
  staged,     \* url -> position of the row the transaction wrote there, 0 if none
  processed,  \* rows_processed
  reply,      \* what the caller was told
  committed   \* writers in the order they committed (history)

progress == <<at, start, staged, processed>>
vars == <<table, pc, rows, progress, reply, committed>>

Phases == {"idle", "syncing", "loading", "upserting", "committing", "answered", "dead"}
RowLists == UNION {[1..n -> Urls] : n \in 0..MaxRows}

\* Broken variant: a transaction that failed is not rolled back.
LockedUntilSuccess(w) ==
  IF pc[w] \in {"upserting", "committing", "dead"} \/ reply[w] = "error"
  THEN {u \in Urls : staged[w][u] # 0} ELSE {}

\* Locks of the running transaction: every url it has written.
Locked(w) ==
  IF pc[w] \in {"upserting", "committing"} THEN {u \in Urls : staged[w][u] # 0} ELSE {}

WantsRow(w) == pc[w] = "upserting" /\ at[w] <= Len(rows[w])
Wanted(w) == rows[w][at[w]]

\* Whom a writer waits for.
Blockers(w) == {v \in Writers \ {w} : WantsRow(w) /\ Wanted(w) \in Locked(v)}

\* The waits form a cycle through w.
InDeadlock(w) ==
  \E S \in SUBSET Writers :
    /\ w \in S
    /\ \A v \in S : /\ Blockers(v) \intersect S # {}
                    /\ \E x \in S : v \in Blockers(x)

Goto(w, phase) == pc' = [pc EXCEPT ![w] = phase]
Answer(w, what) ==
  /\ Goto(w, "answered")
  /\ reply' = [reply EXCEPT ![w] = what]

Init ==
  /\ table = [u \in Urls |-> NoRow]
  /\ pc = [w \in Writers |-> "idle"]
  /\ rows = [w \in Writers |-> <<>>]
  /\ at = [w \in Writers |-> 1]
  /\ start = [w \in Writers |-> 1]
  /\ staged = [w \in Writers |-> [u \in Urls |-> 0]]
  /\ processed = [w \in Writers |-> 0]
  /\ reply = [w \in Writers |-> "none"]
  /\ committed = <<>>

-----------------------------------------------------------------------------
Receive(w, job) ==
  /\ pc[w] = "idle"
  /\ Goto(w, job)
  /\ UNCHANGED <<table, rows, progress, reply, committed>>

\* Both jobs key what they find by url, so each url comes once.
Gather(w, list) ==
  /\ IsInjective(list)
  /\ rows' = [rows EXCEPT ![w] = list]
  /\ Goto(w, "upserting")
  /\ UNCHANGED <<table, progress, reply, committed>>

\* The boards answer, or are skipped.
SyncGathers(w, list) ==
  /\ pc[w] = "syncing"
  /\ Gather(w, list)

\* The jobs the model found on the companies' sites, newest first.
LoadGathers(w, list) ==
  /\ pc[w] = "loading"
  /\ Gather(w, list)

\* A provider or the selection of boards raises.
GatherFails(w) ==
  /\ pc[w] \in {"syncing", "loading"}
  /\ Answer(w, "error")
  /\ UNCHANGED <<table, rows, progress, committed>>

\* Broken variants: a full statement commits, the rows of the last statement are dropped.
TakeRowCommitting(w) ==
  /\ WantsRow(w) /\ Blockers(w) = {}
  /\ at' = [at EXCEPT ![w] = @ + 1]
  /\ staged' = [staged EXCEPT ![w][Wanted(w)] = at[w]]
  /\ IF at[w] - start[w] + 1 = BatchLimit \/ at[w] = Len(rows[w])
     THEN /\ start' = [start EXCEPT ![w] = at[w] + 1]
          /\ processed' = [processed EXCEPT ![w] = at[w]]
          /\ table' = [u \in Urls |-> IF staged'[w][u] # 0 THEN <<w, staged'[w][u]>> ELSE table[u]]
     ELSE UNCHANGED <<start, processed, table>>
  /\ UNCHANGED <<pc, rows, reply, committed>>

\* Broken variant: the statement does not wait for the row's lock.
TakeRowUnlocked(w) ==
  /\ WantsRow(w)
  /\ at' = [at EXCEPT ![w] = @ + 1]
  /\ staged' = [staged EXCEPT ![w][Wanted(w)] = at[w]]
  /\ IF at[w] - start[w] + 1 = BatchLimit \/ at[w] = Len(rows[w])
     THEN /\ start' = [start EXCEPT ![w] = at[w] + 1]
          /\ processed' = [processed EXCEPT ![w] = at[w]]
     ELSE UNCHANGED <<start, processed>>
  /\ UNCHANGED <<table, pc, rows, reply, committed>>

\* The next row of the statement gets its lock; a full or last statement is counted.
TakeRow(w) ==
  /\ WantsRow(w) /\ Blockers(w) = {}
  /\ at' = [at EXCEPT ![w] = @ + 1]
  /\ staged' = [staged EXCEPT ![w][Wanted(w)] = at[w]]
  /\ IF at[w] - start[w] + 1 = BatchLimit \/ at[w] = Len(rows[w])
     THEN /\ start' = [start EXCEPT ![w] = at[w] + 1]
          /\ processed' = [processed EXCEPT ![w] = at[w]]
     ELSE UNCHANGED <<start, processed>>
  /\ UNCHANGED <<table, pc, rows, reply, committed>>

\* Two statements wait for each other: PostgreSQL aborts one of them.
AbortDeadlock(w) ==
  /\ InDeadlock(w)
  /\ Answer(w, "error")
  /\ UNCHANGED <<table, rows, progress, committed>>

\* Broken variant: the last statement is sent only when it is full.
FinishFullStatements(w) ==
  /\ pc[w] = "upserting"
  /\ at[w] > Len(rows[w]) \/ Len(rows[w]) - start[w] + 1 < BatchLimit
  /\ Goto(w, "committing")
  /\ UNCHANGED <<table, rows, progress, reply, committed>>

\* All statements have been sent.
Finish(w) ==
  /\ pc[w] = "upserting"
  /\ at[w] > Len(rows[w])
  /\ Goto(w, "committing")
  /\ UNCHANGED <<table, rows, progress, reply, committed>>

\* Broken variant: the rows of the commit replace the table.
CommitReplacing(w) ==
  /\ pc[w] = "committing"
  /\ table' = [u \in Locked(w) |-> <<w, staged[w][u]>>]
  /\ committed' = Append(committed, w)
  /\ Answer(w, "ok")
  /\ UNCHANGED <<rows, progress>>

Commit(w) ==
  /\ pc[w] = "committing"
  /\ table' = [u \in Urls |-> IF u \in Locked(w) THEN <<w, staged[w][u]>> ELSE table[u]]
  /\ committed' = Append(committed, w)
  /\ Answer(w, "ok")
  /\ UNCHANGED <<rows, progress>>

\* The process dies: an open transaction is rolled back.
Die(w) ==
  /\ pc[w] \notin {"idle", "answered", "dead"}
  /\ Goto(w, "dead")
  /\ UNCHANGED <<table, rows, progress, reply, committed>>

-----------------------------------------------------------------------------
Step(w) ==
  \/ \E list \in RowLists : SyncGathers(w, list) \/ LoadGathers(w, list)
  \/ GatherFails(w)
  \/ TakeRow(w) \/ AbortDeadlock(w)
  \/ Finish(w) \/ Commit(w)

Next ==
  \/ \E w \in Writers : \E job \in {"syncing", "loading"} : Receive(w, job)
  \/ \E w \in Writers : Step(w) \/ Die(w)

Spec == Init /\ [][Next]_vars

\* A writer that is running goes on; it is not forced to start.
Fairness == \A w \in Writers : WF_vars(Step(w))
FairSpec == Spec /\ Fairness

-----------------------------------------------------------------------------
(* Properties.                                                             *)

\* Every variable keeps its type.
TypeOK ==
  /\ table \in [Urls -> (Writers \X Nat) \union {NoRow}]
  /\ pc \in [Writers -> Phases]
  /\ rows \in [Writers -> RowLists]
  /\ at \in [Writers -> Nat \ {0}]
  /\ start \in [Writers -> Nat \ {0}]
  /\ staged \in [Writers -> [Urls -> Nat]]
  /\ processed \in [Writers -> Nat]
  /\ reply \in [Writers -> {"none", "ok", "error"}]
  /\ committed \in Seq(Writers)

\* No url is written by two transactions at once, so overlapping writers are ordered and
\* never interleave their rows.
LocksExclusive == \A v, w \in Writers : v # w => Locked(v) \intersect Locked(w) = {}

\* A caller that was told "ok" was told the number of its rows, and every one of them is in
\* the table, unless a later commit replaced it.
AnsweredRowsStored ==
  \A w \in Writers :
    reply[w] = "ok" =>
      /\ processed[w] = Len(rows[w])
      /\ \A i \in 1..Len(rows[w]) :
           LET row == table[rows[w][i]]
           IN  /\ row # NoRow
               /\ \/ row = <<w, i>>
                  \/ \E m, n \in 1..Len(committed) :
                       m < n /\ committed[m] = w /\ committed[n] = row[1]

\* The strengthening of the safety properties that every step preserves.
FreshUntilGathered ==
  \A w \in Writers :
    pc[w] \in {"idle", "syncing", "loading"} =>
      at[w] = 1 /\ start[w] = 1 /\ processed[w] = 0 /\ staged[w] = [u \in Urls |-> 0]

AnswerIsLast == \A w \in Writers : reply[w] # "none" => pc[w] = "answered"

\* Positions are counted and staged as the rows are taken.
RowsTakenInOrder ==
  \A w \in Writers :
    /\ at[w] <= Len(rows[w]) + 1
    /\ start[w] <= at[w]
    /\ processed[w] = start[w] - 1
    /\ IsInjective(rows[w])
    /\ \A i \in 1..Len(rows[w]) : i < at[w] => staged[w][rows[w][i]] = i
    /\ \A u \in Urls : staged[w][u] # 0 => staged[w][u] < at[w]

AllRowsSent ==
  \A w \in Writers :
    /\ pc[w] = "upserting" /\ at[w] > Len(rows[w]) => start[w] = at[w]
    /\ pc[w] = "committing" \/ reply[w] = "ok" =>
         at[w] = Len(rows[w]) + 1 /\ start[w] = at[w]

\* Rows of the table come from answered writers; a row of theirs that is gone was
\* replaced by one of a later commit.
TableFromCommits ==
  /\ \A w \in Writers : reply[w] = "ok" <=> \E n \in 1..Len(committed) : committed[n] = w
  /\ \A u \in Urls :
       table[u] # NoRow =>
         reply[table[u][1]] = "ok" /\ table[u][2] = staged[table[u][1]][u]
  /\ \A w \in Writers, u \in Urls :
       reply[w] = "ok" /\ staged[w][u] # 0 =>
         /\ table[u] # NoRow
         /\ \/ table[u][1] = w
            \/ \E m, n \in 1..Len(committed) :
                 m < n /\ committed[m] = w /\ committed[n] = table[u][1]

UpsertsInvariant ==
  /\ LocksExclusive
  /\ FreshUntilGathered
  /\ AnswerIsLast
  /\ RowsTakenInOrder
  /\ AllRowsSent
  /\ TableFromCommits

\* No writer waits for ever for the rows of others, whatever order they take them in.
EveryWriterEnds ==
  \A w \in Writers : pc[w] = "upserting" ~> pc[w] \in {"answered", "dead"}

\* The statements of a writer "remain part of the caller's transaction" (db/upsert.py:52):
\* its rows appear all at once, or never.
Atomic == INSTANCE AtomicUpserts WITH finished <- {w \in Writers : reply[w] = "ok"}
ImplementsAtomicUpserts == Atomic!Spec
=============================================================================
