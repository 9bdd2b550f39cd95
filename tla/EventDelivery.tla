--------------------------- MODULE EventDelivery ---------------------------
(***************************************************************************)
(* What the event fan-out promises its subscribers, whatever carries it:   *)
(* an event reaches nobody before it is on the timeline, it is settled     *)
(* once nothing will work on it again, and by then it has reached every    *)
(* subscriber still owed it.  A subscriber is owed an event from the       *)
(* moment the event is recorded until it is settled, unless it is switched *)
(* off, re-subscribed or deleted in between.                               *)
(***************************************************************************)
CONSTANTS Hooks,   \* webhook subscriptions
          Events   \* CRM mutations that emit an event

VARIABLES recorded, \* events on the timeline
          settled,  \* events nobody will work on again
          reached,  \* reached[e]: hooks whose endpoint has received e
          owed      \* owed[e]: hooks subscribed to e ever since it was recorded

vars == <<recorded, settled, reached, owed>>

Init ==
  /\ recorded = {}
  /\ settled = {}
  /\ reached = [e \in Events |-> {}]
  /\ owed = [e \in Events |-> {}]

Record(e) ==
  /\ e \notin recorded
  /\ recorded' = recorded \cup {e}
  /\ \E S \in SUBSET Hooks : owed' = [owed EXCEPT ![e] = S]
  /\ UNCHANGED <<settled, reached>>

\* One POST arrives.  Nothing forbids a second arrival at the same hook.
Reach(e, h) ==
  /\ e \in recorded \ settled
  /\ reached' = [reached EXCEPT ![e] = @ \cup {h}]
  /\ UNCHANGED <<recorded, settled, owed>>

\* Some events are settled, and some subscriptions stop matching: what was
\* owed to them no longer is.
Settle ==
  /\ \E S \in SUBSET (recorded \ settled) : settled' = settled \cup S
  /\ owed' \in [Events -> SUBSET Hooks]
  /\ \A e \in Events : owed'[e] \subseteq owed[e]
  /\ \A e \in settled' \ settled : owed'[e] \subseteq reached[e]
  /\ UNCHANGED <<recorded, reached>>

Next ==
  \/ \E e \in Events : Record(e)
  \/ \E e \in Events, h \in Hooks : Reach(e, h)
  \/ Settle

Spec == Init /\ [][Next]_vars
=============================================================================
