------------------------------ MODULE MCOutbox ------------------------------
(* Small instances of Outbox.                                              *)
EXTENDS Outbox, TLC

CONSTANTS e1, e2
MCFilters == {{e1, e2}, {e1}}
=============================================================================
