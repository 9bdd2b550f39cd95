------------------------------- MODULE MCSales ------------------------------
(* A small instance of Sales: a pipeline of three stages and deals due in    *)
(* the last month of a year and the first of the next.                      *)
EXTENDS Sales, TLC

MCStages == <<[won |-> FALSE, lost |-> FALSE, probability |-> 50],
              [won |-> TRUE, lost |-> FALSE, probability |-> 100],
              [won |-> FALSE, lost |-> TRUE, probability |-> 0]>>
MCMonths == {12 * 2026 + 12, 12 * 2027 + 1}
MCSymmetry == Permutations(Requests)
=============================================================================
