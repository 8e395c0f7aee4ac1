---------------------------- MODULE AtomicUpserts ----------------------------
(***************************************************************************)
(* What batched_upsert promises its callers: the rows of a writer reach    *)
(* the table all together, once, or not at all.                            *)
(***************************************************************************)
EXTENDS Naturals

CONSTANTS Writers, Urls, NoRow

VARIABLES table, finished
vars == <<table, finished>>

RowsOf(w) == {w} \X Nat

Init ==
  /\ table = [u \in Urls |-> NoRow]
  /\ finished = {}

\* A row of the writer for every url of S, and nothing else.
Upsert(w, S) ==
  /\ w \notin finished
  /\ finished' = finished \union {w}
  /\ table' = [u \in Urls |-> IF u \in S THEN table'[u] ELSE table[u]]
  /\ \A u \in S : table'[u] \in RowsOf(w)

Next == \E w \in Writers, S \in SUBSET Urls : Upsert(w, S)

Spec == Init /\ [][Next]_vars
=============================================================================
