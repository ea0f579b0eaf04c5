--------------------------- MODULE MCCallRegistry ---------------------------
(* Instance of CallRegistryAPI for TLC: two calls, two slots.              *)
EXTENDS CallRegistryAPI, TLC

CONSTANTS u1, u2, c1, c2

MCUUID == {u1, u2}
MCCallId == {c1, c2}
Symmetry == Permutations(MCUUID) \cup Permutations(MCCallId)
=============================================================================
