-------------------------- MODULE MCResponseCache --------------------------
(* Bounded instances of ResponseCache for TLC.                             *)
EXTENDS ResponseCache, TLC

CONSTANTS c1, c2, c3

\* Two calls share an event loop, the third runs in another process.
MCHome == c1 :> "server" @@ c2 :> "server" @@ c3 :> "worker"
=============================================================================
