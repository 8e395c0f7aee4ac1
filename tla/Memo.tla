-------------------------------- MODULE Memo --------------------------------
(***************************************************************************)
(* What the cached decorator promises the callers of a function: an answer *)
(* is the caller's own, or one that an earlier call computed for the same  *)
(* key and the memo still holds.  It may hold results from before, each    *)
(* named by its key, and it may forget at any time.                        *)
(***************************************************************************)
CONSTANTS Calls, Keys, Nobody

VARIABLES
  status,    \* "new", "busy", "done" or "failed"
  key,       \* the key of a call that has begun
  computed,  \* the calls whose function returned
  answer,    \* whose result the caller got
  memo       \* key -> whose result is remembered

vars == <<status, key, computed, answer, memo>>

Init ==
  /\ status = [c \in Calls |-> "new"]
  /\ key = [c \in Calls |-> Nobody]
  /\ computed = {}
  /\ answer = [c \in Calls |-> Nobody]
  /\ memo \in [Keys -> Keys \union {Nobody}] /\ \A k \in Keys : memo[k] \in {k, Nobody}

Rest(c) == status'[c] = status[c] /\ key'[c] = key[c] /\ answer'[c] = answer[c]

Begin(c) ==
  /\ status[c] = "new" /\ status'[c] = "busy"
  /\ key'[c] \in Keys /\ answer'[c] = answer[c]

Recall(c) ==
  /\ status[c] = "new" /\ status'[c] = "done"
  /\ key'[c] \in Keys
  /\ memo[key'[c]] # Nobody /\ answer'[c] = memo[key'[c]]

Finish(c) ==
  /\ status[c] = "busy" /\ status'[c] = "done"
  /\ c \in computed' /\ answer'[c] = c /\ key'[c] = key[c]

Fail(c) ==
  /\ status[c] = "busy" /\ status'[c] = "failed"
  /\ key'[c] = key[c] /\ answer'[c] = answer[c]

\* A function computes while its call is busy, and once.
Compute == \E S \in SUBSET {c \in Calls : status[c] = "busy"} : computed' = computed \union S

\* The memo keeps, forgets, or takes a result computed for the key.
Remember ==
  memo' \in [Keys -> Calls \union Keys \union {Nobody}]
    /\ \A k \in Keys : memo'[k] \in {memo[k], Nobody} \union {c \in computed' : key[c] = k}

Next ==
  /\ \A c \in Calls : Rest(c) \/ Begin(c) \/ Recall(c) \/ Finish(c) \/ Fail(c)
  /\ Compute
  /\ Remember

Spec == Init /\ [][Next]_vars
=============================================================================
