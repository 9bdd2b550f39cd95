---------------------------- MODULE MCListPages -----------------------------
(* Row ids are a range of numbers: the filter and the orders compare them. *)
EXTENDS ListPages

CONSTANT Rows

MCIds == 1..Rows
=============================================================================
