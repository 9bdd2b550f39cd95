----------------------------- MODULE MCFileStore ----------------------------
(* Files and requests are interchangeable.                                 *)
EXTENDS FileStore, TLC

Symmetry == Permutations(Files) \cup Permutations(Requests)
=============================================================================
