------------------------ MODULE MCApplicationAttempts -----------------------
(* An instance of ApplicationAttempts for TLC.  Requests are interchangeable and nothing but
   their arrival is theirs to choose, so it is enough to let them arrive in one order: who
   comes after an arrival is still free, and no fairness forces an arrival.  A symmetry set
   would do the same, but not for properties of liveness. *)
EXTENDS ApplicationAttempts

CONSTANTS r1, r2, r3

MCRequests == {r1, r2, r3}

\* Arrived requests are a prefix of r1, r2, r3.
ArriveInOrder ==
  /\ pc'[r2] # "idle" => pc'[r1] # "idle"
  /\ pc'[r3] # "idle" => pc'[r2] # "idle"
=============================================================================
