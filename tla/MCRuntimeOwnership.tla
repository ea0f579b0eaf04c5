-------------------------- MODULE MCRuntimeOwnership --------------------------
(* Two clients called by two threads, which are enough for a race within a *)
(* client and between two; the invariants are proved for any number.       *)
EXTENDS RuntimeOwnership, TLC

Threads == Permutations(Thread)
=============================================================================
