-------------------------- MODULE MCBoardDiscovery --------------------------
(* Bounded instances of BoardDiscovery for TLC.                            *)
EXTENDS BoardDiscovery, TLC

\* Queries, companies and tokens are interchangeable.
Symmetry == Permutations(Queries) \union Permutations(Companies) \union Permutations(Tokens)
=============================================================================
