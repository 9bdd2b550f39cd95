--------------------------- MODULE MCCalendarSync --------------------------
(* Documents of at most two events: one UID that gets a text or loses it,  *)
(* a second UID, and a UID that one document names twice.                   *)
EXTENDS CalendarSync, TLC

CONSTANTS u1, u2, brief, blank

MCUids == {u1, u2}
MCTexts == {brief, blank}
Ev(u, t) == [uid |-> u, text |-> t]
MCDocuments ==
  {{Ev(u1, brief)}, {Ev(u1, blank), Ev(u2, brief)}, {Ev(u1, brief), Ev(u1, blank)}}

Symmetry == Permutations(Urls) \cup Permutations(Activities) \cup Permutations(Syncs)
=============================================================================
