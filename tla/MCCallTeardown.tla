----------------------------- MODULE MCCallTeardown -----------------------------
(* Four transactions and a table of two entries: it can be full, with one  *)
(* response that has no entry and another one still to come.               *)
EXTENDS CallTeardown, TLC

Symmetry == Permutations(Transaction) \cup Permutations(Slot)
=============================================================================
