----------------------------- MODULE MCAccounts -----------------------------
(* Small instances of Accounts: requests, users and workspaces may be      *)
(* exchanged for one another.                                              *)
EXTENDS Accounts, TLC

MCSymmetry == Permutations(Requests) \cup Permutations(Emails) \cup Permutations(Slugs)
=============================================================================
