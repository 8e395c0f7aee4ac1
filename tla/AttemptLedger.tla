--------------------------- MODULE AttemptLedger ---------------------------
(***************************************************************************)
(* What the attempts table promises its callers, without transactions,     *)
(* locks or crashes: per identity one holder with a lease, and one winner. *)
(***************************************************************************)
EXTENDS Naturals

CONSTANTS Requests, Users, Jobs, Lease, NoRequest

VARIABLES
  holder,   \* the request that holds the identity, if any
  until,    \* when the holder's lease ends
  winner,   \* the request whose success is recorded, if any
  held,     \* the requests that hold the identity or once held it
  gone,     \* deleted accounts
  now

vars == <<holder, until, winner, held, gone, now>>

Identities == Users \X Jobs
Free(i) == holder[i] = NoRequest

Init ==
  /\ holder = [i \in Identities |-> NoRequest]
  /\ until = [i \in Identities |-> 0]
  /\ winner = [i \in Identities |-> NoRequest]
  /\ held = [i \in Identities |-> {}]
  /\ gone = {}
  /\ now = 0

\* A request gets an identity nobody has won, free or with a lease that is over, and gets
\* it once.  Its lease counts from a moment in the past, so it may be short, but never too long.
Claim(i, r, end) ==
  /\ winner[i] = NoRequest
  /\ i[1] \notin gone
  /\ Free(i) \/ until[i] <= now
  /\ r \notin held[i]
  /\ end <= now + Lease
  /\ holder' = [holder EXCEPT ![i] = r]
  /\ until' = [until EXCEPT ![i] = end]
  /\ held' = [held EXCEPT ![i] = @ \union {r}]
  /\ UNCHANGED <<winner, gone, now>>

Release(i) ==
  /\ ~Free(i)
  /\ holder' = [holder EXCEPT ![i] = NoRequest]
  /\ until' = [until EXCEPT ![i] = 0]
  /\ UNCHANGED <<winner, held, gone, now>>

\* Only the holder can win, or, while nobody holds the identity, one who once held it.
Win(i, r) ==
  /\ winner[i] = NoRequest
  /\ holder[i] = r \/ (Free(i) /\ r \in held[i])
  /\ winner' = [winner EXCEPT ![i] = r]
  /\ holder' = [holder EXCEPT ![i] = NoRequest]
  /\ until' = [until EXCEPT ![i] = 0]
  /\ UNCHANGED <<held, gone, now>>

Forget(u) ==
  /\ u \notin gone
  /\ holder' = [i \in Identities |-> IF i[1] = u THEN NoRequest ELSE holder[i]]
  /\ until' = [i \in Identities |-> IF i[1] = u THEN 0 ELSE until[i]]
  /\ winner' = [i \in Identities |-> IF i[1] = u THEN NoRequest ELSE winner[i]]
  /\ held' = [i \in Identities |-> IF i[1] = u THEN {} ELSE held[i]]
  /\ gone' = gone \union {u}
  /\ UNCHANGED now

Pass ==
  /\ now' = now + 1
  /\ UNCHANGED <<holder, until, winner, held, gone>>

Next ==
  \/ \E i \in Identities, r \in Requests, end \in 0 .. (now + Lease) : Claim(i, r, end)
  \/ \E i \in Identities : Release(i)
  \/ \E i \in Identities, r \in Requests : Win(i, r)
  \/ \E u \in Users : Forget(u)
  \/ Pass

Spec == Init /\ [][Next]_vars
=============================================================================
