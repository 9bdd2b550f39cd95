----------------------------- MODULE MCBulkLoad -----------------------------
(* Small instances of BulkLoad: workspace A is exported, B is empty or has  *)
(* a contact; three seeds for what A holds.                                *)
EXTENDS BulkLoad, TLC

CONSTANTS A, B, e, f, v

MCSymmetry == Permutations(Loads)

\* Notes have an author, and the contacts were deleted.
R(id, ws, tab, ext, alt, up, s, t) ==
  [id |-> id, ws |-> ws, tab |-> tab, ext |-> ext, alt |-> alt,
   val |-> IF tab \in {"note", "contact"} THEN v ELSE Nil, up |-> up, a |-> s, b |-> t,
   rest |-> IF tab \in {"note", "contact"} THEN v ELSE Nil]

\* A deal of a contact at a company, with what hangs on them.
Book == {R(1, A, "pipeline", Nil, e, Nil, Nil, Nil), R(2, A, "stage", Nil, e, 1, Nil, Nil),
         R(3, A, "company", Nil, e, Nil, Nil, Nil), R(4, A, "contact", e, Nil, 3, Nil, Nil),
         R(5, A, "deal", e, Nil, 2, 4, Nil), R(6, A, "edge", Nil, Nil, Nil, 4, 3),
         R(7, A, "note", Nil, Nil, Nil, 5, Nil), R(8, A, "link", e, Nil, Nil, 7, Nil)}

\* Two contacts one of which the other's email finds.
Twins == {R(1, A, "contact", e, e, Nil, Nil, Nil), R(2, A, "contact", Nil, f, Nil, Nil, Nil),
          R(3, A, "edge", Nil, Nil, Nil, 1, 2), R(4, B, "contact", e, f, Nil, Nil, Nil)}

\* The rest of the tables.
Rest == {R(1, A, "field", Nil, e, Nil, Nil, Nil), R(2, A, "hook", Nil, e, Nil, Nil, Nil),
         R(3, A, "contact", Nil, e, Nil, Nil, Nil), R(4, A, "activity", e, Nil, Nil, 3, Nil),
         R(5, A, "task", Nil, Nil, Nil, 3, Nil), R(6, A, "file", Nil, f, Nil, 3, Nil)}

MCSeeds == {Book, Twins, Rest}

P(ext, alt, has) ==
  [tab |-> "contact", ext |-> ext, alt |-> alt, val |-> Nil, up |-> Nil, a |-> Nil, b |-> Nil,
   has |-> has]
Contacts2(r, s) == [Empty EXCEPT !["contact"] = <<r, s>>]
MCPayloads == {Contacts2(P(e, e, {"ext", "alt"}), P(Nil, f, {"alt"})),
               Contacts2(P(Nil, Nil, {"val"}), P(e, f, {"ext", "alt"}))}
=============================================================================
