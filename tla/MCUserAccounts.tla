--------------------------- MODULE MCUserAccounts ---------------------------
(* Bounded instances of UserAccounts for TLC.                              *)
EXTENDS UserAccounts, TLC

CONSTANTS a1, a2, e1, e2, p1, p2, s1, s2

\* Two users who differ in every column: values that no row has yet are left for uploads.
MCOldUsers ==
  a1 :> [email |-> e1, profile |-> p1, resume |-> s1]
    @@ a2 :> [email |-> e2, profile |-> p2, resume |-> s2]
=============================================================================
