----------------------------- MODULE MCPersister -----------------------------
(* Instance of Persister: two values for each of the two files.            *)
EXTENDS Persister, TLC

CONSTANTS v1, v2

Symmetry == Permutations({v1, v2})
=============================================================================
