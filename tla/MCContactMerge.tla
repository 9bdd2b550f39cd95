--------------------------- MODULE MCContactMerge ---------------------------
(* Small instances of ContactMerge: three contacts, of which some refer to *)
(* each other, a note, a deal and two links to one memory.                 *)
EXTENDS ContactMerge, TLC

CONSTANTS a, b, c3, n1, d1, k1, k2, title1

MCSymmetry == Permutations(Calls)

Row(t) == [status |-> "live", title |-> t, into |-> Nil]
MCEdges == {"x1", "x2", "x3"}
Loose == [x \in {n1, d1, k1, k2} |-> IF x = k1 THEN a ELSE IF x = k2 THEN b ELSE b]
Seed(p1, p2, p3) ==
  [contact |-> [c \in {a, b, c3} |-> Row(IF c = b THEN title1 ELSE Nil)],
   ref |-> Loose,
   edge |-> ("x1" :> p1 @@ "x2" :> p2 @@ "x3" :> p3)]
MCSeeds == {Seed(<<b, c3>>, <<a, c3>>, <<c3, b>>),
            Seed(<<b, a>>, Nil, <<b, b>>),
            Seed(<<a, b>>, <<b, a>>, <<b, b>>)}
=============================================================================
