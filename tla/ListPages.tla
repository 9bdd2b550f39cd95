----------------------------- MODULE ListPages ------------------------------
(***************************************************************************)
(* The cursor-paginated listings: a client walks the pages of a list while *)
(* other requests create, delete, restore and edit its rows.  The cursor   *)
(* of lib/pagination.ts is the position (created_at, id) of the last row   *)
(* returned; each route has its own copy of the filter and its own order.  *)
(* The legacy service has one filter (services/pagination.py) and one      *)
(* order, "created", for all its listings.                                 *)
(***************************************************************************)
EXTENDS Naturals, FiniteSets

CONSTANTS
  Ids,     \* row ids, in their text order
  Times,   \* values of created_at, a column no handler updates
  Keys,    \* values of due_at (0: null) or occurred_at
  Limit,   \* rows of a page
  Sorted,  \* the ORDER BY of the route
  None

ASSUME ListAssumption ==
  /\ Ids \subseteq Nat /\ Times \subseteq Nat /\ Keys \subseteq Nat
  /\ Limit \in Nat \ {0}
  /\ Sorted \in {"created", "due", "occurred"}
  /\ None \notin [created : Times, id : Ids]

VARIABLES
  row,     \* the table
  walk,    \* "idle", "open", "done"
  cursor,  \* next_cursor of the last page
  got,     \* the rows of the pages so far
  steady   \* the rows listed since the walk began                (history)

vars == <<row, walk, cursor, got, steady>>

NoRow == [state |-> "none"]
Row == [state : {"live", "deleted"}, created : Times, key : Keys] \cup {NoRow}
Pos == [created : Times, id : Ids]

\* Deleted rows are not listed.
Listed(i) == row[i].state = "live"

PosOf(i) == [created |-> row[i].created, id |-> i]

\* A cursor is the position of a row the client has been given.
TypeOK ==
  /\ row \in [Ids -> Row]
  /\ walk \in {"idle", "open", "done"}
  /\ got \subseteq {i \in Ids : row[i] # NoRow}
  /\ cursor \in {None} \cup {PosOf(i) : i \in got}
  /\ steady \subseteq {i \in Ids : Listed(i)}

Init ==
  /\ row \in [Ids -> Row]
  /\ walk = "idle" /\ cursor = None
  /\ got = {} /\ steady = {}
-----------------------------------------------------------------------------
(* The other requests.  created_at is the clock of the Worker that serves  *)
(* the request: nothing orders it after the rows already there.            *)

Create(i, t, k) ==
  /\ row[i] = NoRow
  /\ row' = [row EXCEPT ![i] = [state |-> "live", created |-> t, key |-> k]]
  /\ UNCHANGED <<walk, cursor, got, steady>>

Delete(i) ==
  /\ Listed(i)
  /\ row' = [row EXCEPT ![i].state = "deleted"]
  /\ steady' = steady \ {i}
  /\ UNCHANGED <<walk, cursor, got>>

Restore(i) ==
  /\ row[i].state = "deleted"
  /\ row' = [row EXCEPT ![i].state = "live"]
  /\ UNCHANGED <<walk, cursor, got, steady>>

Patch(i, k) ==
  /\ Listed(i)
  /\ row' = [row EXCEPT ![i].key = k]
  /\ UNCHANGED <<walk, cursor, got, steady>>
-----------------------------------------------------------------------------
(* A page.                                                                 *)

Newer(p, q) ==
  p.created > q.created \/ (p.created = q.created /\ p.id > q.id)

\* i comes before j in the order of the route.  SQLite sorts NULL first.
Before(i, j) ==
  \/ Sorted = "created" /\ Newer(PosOf(i), PosOf(j))
  \/ /\ Sorted = "due"
     /\ \/ row[i].key < row[j].key
        \/ row[i].key = row[j].key /\ Newer(PosOf(i), PosOf(j))
  \/ /\ Sorted = "occurred"
     /\ row[i].key > row[j].key \/ (row[i].key = row[j].key /\ i > j)

\* The first n rows of S, or all of them.
Firsts(S, n) ==
  {P \in SUBSET S : /\ \A i \in P, j \in S \ P : Before(i, j)
                    /\ Cardinality(P) = n \/ (P = S /\ Cardinality(S) < n)}

\* Mutant of Older: equal times are left out.
StrictlyOlder(i) == row[i].created < cursor.created

\* The WHERE clause of a cursor.
Older(i) == Newer(cursor, PosOf(i))

Matching == {i \in Ids : Listed(i) /\ (cursor = None \/ Older(i))}

\* The position of the last item.
NextCursor(items, rows) ==
  {PosOf(i) : i \in {x \in items : \A j \in items \ {x} : Before(j, x)}}

HasMore(rows) == Cardinality(rows) > Limit

Begin ==
  /\ walk \in {"idle", "done"}
  /\ walk' = "open" /\ cursor' = None
  /\ got' = {} /\ steady' = {i \in Ids : Listed(i)}
  /\ UNCHANGED row

Page ==
  /\ walk = "open"
  /\ \E rows \in Firsts(Matching, Limit + 1) :
       IF HasMore(rows)
       THEN \E items \in Firsts(rows, Limit) :
              /\ got' = got \cup items
              /\ cursor' \in NextCursor(items, rows)
              /\ walk' = "open"
       ELSE got' = got \cup rows /\ cursor' = None /\ walk' = "done"
  /\ UNCHANGED <<row, steady>>

Next ==
  \/ \E i \in Ids, t \in Times, k \in Keys : Create(i, t, k)
  \/ \E i \in Ids : Delete(i) \/ Restore(i)
  \/ \E i \in Ids, k \in Keys : Patch(i, k)
  \/ Begin \/ Page

\* The client asks for the next page as long as there is a cursor.
Spec == Init /\ [][Next]_vars /\ WF_vars(Page)
-----------------------------------------------------------------------------
(* What a walk is worth.                                                   *)

\* A finished walk has returned every row that was listed all along, whatever was
\* created, deleted or restored between its pages, the row under the cursor included.
WalkComplete == walk = "done" => steady \subseteq got

\* No row comes twice: what a page has returned is not ahead of the cursor any more.
NoRepeat == walk = "open" => got \cap Matching = {}
=============================================================================
