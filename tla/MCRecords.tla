----------------------------- MODULE MCRecords -----------------------------
(* Two rows, one external id, two keys, two overlapping requests.          *)
EXTENDS Records, TLC

Symmetry == Permutations(Ids) \cup Permutations(Calls) \cup Permutations(Keys)
=============================================================================
