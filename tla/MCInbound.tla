------------------------------ MODULE MCInbound -----------------------------
(* A small instance of Inbound: a calendar with a version that moves an     *)
(* event and adds another, and one that no sync can take.                  *)
EXTENDS Inbound, TLC

CONSTANTS t1, t2

MCDocs == <<1 :> t1, 1 :> t2 @@ 2 :> t1, 1 :> t1>>
MCUnusable == {3}
=============================================================================
