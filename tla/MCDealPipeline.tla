-------------------------- MODULE MCDealPipeline ---------------------------
(* A workspace with a default pipeline of an open and a won stage, and ids  *)
(* for a second pipeline and its one stage, which requests may create.      *)
EXTENDS DealPipeline, TLC

CONSTANTS sales, renewals, lead, signed, renew

MCPipelines == {sales, renewals}
MCPipeSeed == sales :> "default" @@ renewals :> "unused"

Row(life, p, kind) == [life |-> life, pipe |-> p, kind |-> kind]
MCStages == {lead, signed, renew}
MCStageSeed == lead   :> Row("live", sales, "open")
            @@ signed :> Row("live", sales, "won")
            @@ renew  :> Row("unused", sales, "open")

Symmetry == Permutations(Deals) \cup Permutations(Calls)
=============================================================================
