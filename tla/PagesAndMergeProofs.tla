------------------------- MODULE PagesAndMergeProofs ------------------------
(* Two components of the service that share no state, for any tables, page  *)
(* sizes and calls.  ListPages: a walk in the order of its cursor,          *)
(* (created_at, id) descending, misses and repeats no row, whatever changes *)
(* meanwhile.  ContactMerge: merges leave no reference behind, do not run   *)
(* in circles, map the graph, and the timeline tells the row.               *)
EXTENDS ListPages, ContactMerge, TLAPS

-----------------------------------------------------------------------------
(***************************************************************************)
(* ListPages.                                                              *)
(***************************************************************************)
Ahead(i) == cursor = None \/ Older(i)

\* Between the pages: the cursor is not newer than any row returned, and every
\* steady row is returned or still ahead of it.
WalkInv ==
  /\ TypeOK
  /\ walk = "open" /\ cursor = None => got = {}
  /\ walk # "open" => cursor = None
  /\ cursor # None => \A i \in got : ~Newer(cursor, PosOf(i))
  /\ walk = "open" => \A i \in steady : i \in got \/ Ahead(i)
  /\ WalkComplete

\* Rows keep their position for as long as they exist.
Kept == \A i \in Ids : row[i] # NoRow => row'[i] # NoRow /\ PosOf(i)' = PosOf(i)

-----------------------------------------------------------------------------
\* Positions are ordered by Newer: strictly, and totally as ids differ.
LEMMA NewerStrict ==
  ASSUME NEW p \in Pos, NEW q \in Pos
  PROVE  /\ ~Newer(p, p)
         /\ Newer(p, q) => ~Newer(q, p)
<1>1. p.created \in Nat /\ p.id \in Nat /\ q.created \in Nat /\ q.id \in Nat
  BY ListAssumption DEF Pos
<1> QED BY <1>1 DEF Newer

LEMMA NewerTransitive ==
  ASSUME NEW p \in Pos, NEW q \in Pos, NEW r \in Pos, Newer(p, q), Newer(q, r)
  PROVE  Newer(p, r)
<1>1. /\ p.created \in Nat /\ p.id \in Nat /\ q.created \in Nat /\ q.id \in Nat
      /\ r.created \in Nat /\ r.id \in Nat
  BY ListAssumption DEF Pos
<1> QED BY <1>1 DEF Newer

LEMMA Positions ==
  ASSUME TypeOK, NEW i \in Ids, row[i] # NoRow
  PROVE  PosOf(i) \in Pos /\ PosOf(i) # None
BY ListAssumption DEF TypeOK, Row, PosOf, Pos

\* A listed row has a position.
LEMMA ListedRows ==
  ASSUME NEW i \in Ids, Listed(i)
  PROVE  row[i] # NoRow
BY DEF Listed, NoRow

LEMMA InitHolds == Init => WalkInv
BY DEF Init, WalkInv, TypeOK, WalkComplete

\* Requests of others: no row of the walk moves, and no row becomes steady.
LEMMA OthersKeep ==
  ASSUME WalkInv, Kept, row' \in [Ids -> Row], steady' \subseteq steady,
         \A i \in steady' : Listed(i)', UNCHANGED <<walk, cursor, got>>
  PROVE  WalkInv'
<1>1. \A i \in got : i \in Ids /\ row[i] # NoRow /\ row'[i] # NoRow /\ PosOf(i)' = PosOf(i)
  BY DEF WalkInv, TypeOK, Kept
<1>2. \A i \in steady : i \in Ids /\ row[i] # NoRow /\ PosOf(i)' = PosOf(i)
  BY ListedRows DEF WalkInv, TypeOK, Kept
<1>3. TypeOK'
  <2>1. steady \subseteq Ids
    BY DEF WalkInv, TypeOK
  <2> QED BY <1>1, <2>1 DEF WalkInv, TypeOK
<1>4. cursor' # None => \A i \in got' : ~Newer(cursor, PosOf(i))'
  BY <1>1 DEF WalkInv, Newer
<1>5. walk' = "open" => \A i \in steady' : i \in got' \/ Ahead(i)'
  BY <1>2 DEF WalkInv, Ahead, Older, Newer
<1> QED BY <1>3, <1>4, <1>5 DEF WalkInv, WalkComplete

LEMMA CreateKeeps ==
  ASSUME WalkInv, NEW i \in Ids, NEW t \in Times, NEW k \in Keys, Create(i, t, k)
  PROVE  WalkInv'
<1>1. row' \in [Ids -> Row] /\ Kept
  BY DEF Create, WalkInv, TypeOK, Row, Kept, PosOf
<1>2. \A j \in steady : Listed(j)'
  BY DEF Create, WalkInv, TypeOK, Listed
<1> QED BY <1>1, <1>2, OthersKeep DEF Create

\* DELETE, restore and PATCH change other columns of a row.
LEMMA ColumnsKeep ==
  ASSUME WalkInv, NEW i \in Ids, row[i] # NoRow,
         NEW new \in Row, new # NoRow, new.created = row[i].created,
         row' = [row EXCEPT ![i] = new],
         steady' \subseteq steady, i \in steady' => new.state = "live",
         UNCHANGED <<walk, cursor, got>>
  PROVE  WalkInv'
<1>1. row' \in [Ids -> Row] /\ Kept
  BY DEF WalkInv, TypeOK, Kept, PosOf
<1>2. \A j \in steady' : Listed(j)'
  BY DEF WalkInv, TypeOK, Listed
<1> QED BY <1>1, <1>2, OthersKeep

LEMMA EditKeeps ==
  ASSUME WalkInv, NEW i \in Ids, Delete(i) \/ Restore(i) \/ \E k \in Keys : Patch(i, k)
  PROVE  WalkInv'
<1>1. row[i] \in Row /\ row[i] # NoRow /\ row[i].state \in {"live", "deleted"}
  BY DEF WalkInv, TypeOK, Row, NoRow, Delete, Restore, Patch, Listed
<1>2. CASE Delete(i)
  <2> DEFINE new == [row[i] EXCEPT !.state = "deleted"]
  <2>1. new \in Row /\ new # NoRow /\ new.created = row[i].created
    BY <1>1 DEF Row, NoRow
  <2>2. row' = [row EXCEPT ![i] = new] /\ steady' = steady \ {i} /\ UNCHANGED <<walk, cursor, got>>
    BY <1>2 DEF Delete
  <2> HIDE DEF new
  <2> QED BY <1>1, <2>1, <2>2, ColumnsKeep
<1>3. CASE Restore(i)
  <2> DEFINE new == [row[i] EXCEPT !.state = "live"]
  <2>1. new \in Row /\ new # NoRow /\ new.created = row[i].created /\ new.state = "live"
    BY <1>1 DEF Row, NoRow
  <2>2. row' = [row EXCEPT ![i] = new] /\ steady' = steady /\ UNCHANGED <<walk, cursor, got>>
    BY <1>3 DEF Restore
  <2> HIDE DEF new
  <2> QED BY <1>1, <2>1, <2>2, ColumnsKeep
<1>4. ASSUME NEW k \in Keys, Patch(i, k) PROVE WalkInv'
  <2> DEFINE new == [row[i] EXCEPT !.key = k]
  <2>1. new \in Row /\ new # NoRow /\ new.created = row[i].created /\ new.state = "live"
    BY <1>1, <1>4 DEF Row, NoRow, Patch, Listed
  <2>2. row' = [row EXCEPT ![i] = new] /\ steady' = steady /\ UNCHANGED <<walk, cursor, got>>
    BY <1>4 DEF Patch
  <2> HIDE DEF new
  <2> QED BY <1>1, <2>1, <2>2, ColumnsKeep
<1> QED BY <1>2, <1>3, <1>4

LEMMA BeginKeeps == WalkInv /\ Begin => WalkInv'
<1> SUFFICES ASSUME WalkInv, Begin PROVE WalkInv'
  OBVIOUS
<1>1. TypeOK'
  BY DEF WalkInv, TypeOK, Begin, Listed
<1> QED BY <1>1 DEF WalkInv, Begin, WalkComplete, Ahead

-----------------------------------------------------------------------------
\* The last page: fewer rows than were asked for are all the rows there are.
LEMMA LastPage ==
  ASSUME NEW S, NEW P \in Firsts(S, Limit + 1), ~HasMore(P)
  PROVE  P = S
BY ListAssumption DEF Firsts, HasMore

\* A page that has a successor: with the cursor on its last row x, the rows it
\* leaves out are older than x, and those it returns are not.
LEMMA MiddlePage ==
  ASSUME WalkInv, Sorted = "created", walk = "open",
         NEW rows \in Firsts(Matching, Limit + 1), NEW items \in Firsts(rows, Limit),
         NEW x \in items, \A j \in items \ {x} : Before(j, x)
  PROVE  /\ items \subseteq Matching
         /\ \A i \in Matching \ items : Newer(PosOf(x), PosOf(i))
         /\ \A i \in got \cup items : ~Newer(PosOf(x), PosOf(i))
<1>1. items \subseteq rows /\ rows \subseteq Matching /\ Matching \subseteq Ids
  BY DEF Firsts, Matching
<1>2. \A i \in Matching : PosOf(i) \in Pos
  BY <1>1, ListedRows, Positions DEF Matching, WalkInv
<1>3. \A i, j \in Ids : Before(i, j) => Newer(PosOf(i), PosOf(j))
  BY DEF Before
<1>4. ASSUME NEW i \in Matching \ items PROVE Newer(PosOf(x), PosOf(i))
  BY <1>1, <1>3, <1>4 DEF Firsts
<1>5. ASSUME NEW i \in items PROVE ~Newer(PosOf(x), PosOf(i))
  BY <1>1, <1>2, <1>3, <1>5, NewerStrict
<1>6. ASSUME NEW i \in got PROVE ~Newer(PosOf(x), PosOf(i))
  <2>1. cursor # None /\ Newer(cursor, PosOf(x)) /\ ~Newer(cursor, PosOf(i))
    BY <1>1, <1>6 DEF WalkInv, Matching, Older
  <2>2. i \in Ids /\ PosOf(i) \in Pos /\ cursor \in Pos
    BY <1>6, <2>1, Positions DEF WalkInv, TypeOK
  <2> QED BY <1>1, <1>2, <2>1, <2>2, NewerTransitive
<1> QED BY <1>1, <1>4, <1>5, <1>6

LEMMA PageKeeps ==
  ASSUME Sorted = "created", WalkInv, Page
  PROVE  WalkInv'
<1>1. PICK rows \in Firsts(Matching, Limit + 1) :
        IF HasMore(rows)
        THEN \E items \in Firsts(rows, Limit) :
               /\ got' = got \cup items
               /\ cursor' \in NextCursor(items, rows)
               /\ walk' = "open"
        ELSE got' = got \cup rows /\ cursor' = None /\ walk' = "done"
  BY DEF Page
<1>2. /\ walk = "open" /\ row' = row /\ steady' = steady
      /\ rows \subseteq Matching /\ Matching \subseteq {i \in Ids : row[i] # NoRow}
      /\ \A i \in steady : i \in got \/ i \in Matching
  <2>1. \A i \in steady : i \in Ids /\ Listed(i)
    BY DEF WalkInv, TypeOK
  <2>2. walk = "open" /\ row' = row /\ steady' = steady
    BY DEF Page
  <2>3. \A i \in steady : i \in got \/ i \in Matching
    BY <2>1, <2>2 DEF WalkInv, Matching, Ahead
  <2> QED BY <2>2, <2>3, ListedRows DEF Firsts, Matching
<1>3. \A i \in Ids : PosOf(i)' = PosOf(i) /\ (Listed(i)' <=> Listed(i))
  BY <1>2 DEF PosOf, Listed
<1>4. CASE ~HasMore(rows)
  <2>1. got' = got \cup Matching /\ cursor' = None /\ walk' = "done"
    BY <1>1, <1>4, LastPage
  <2>2. TypeOK'
    BY <1>2, <1>3, <2>1 DEF WalkInv, TypeOK
  <2>3. WalkComplete'
    BY <1>2, <2>1 DEF WalkComplete
  <2> QED BY <2>1, <2>2, <2>3 DEF WalkInv
<1>5. CASE HasMore(rows)
  <2>1. PICK items \in Firsts(rows, Limit) :
          got' = got \cup items /\ cursor' \in NextCursor(items, rows) /\ walk' = "open"
    BY <1>1, <1>5
  <2>2. PICK x \in items : cursor' = PosOf(x) /\ \A j \in items \ {x} : Before(j, x)
    BY <2>1 DEF NextCursor
  <2>3. /\ items \subseteq Matching
        /\ \A i \in Matching \ items : Newer(PosOf(x), PosOf(i))
        /\ \A i \in got \cup items : ~Newer(PosOf(x), PosOf(i))
    BY <1>2, <2>2, MiddlePage
  <2>4. cursor' # None
    BY <1>2, <2>2, <2>3, Positions DEF WalkInv
  <2>5. TypeOK'
    BY <1>2, <1>3, <2>1, <2>2, <2>3 DEF WalkInv, TypeOK
  <2>6. \A i \in got' : ~Newer(cursor, PosOf(i))'
    BY <1>2, <1>3, <2>1, <2>2, <2>3 DEF WalkInv, TypeOK, Newer
  <2>7. \A i \in steady' : i \in got' \/ Ahead(i)'
    <3> SUFFICES ASSUME NEW i \in steady, i \notin got' PROVE Ahead(i)'
      BY <1>2
    <3>1. i \in Matching \ items /\ i \in Ids
      BY <1>2, <2>1
    <3> QED BY <1>3, <2>2, <2>3, <3>1 DEF Ahead, Older, Newer
  <2> QED BY <2>1, <2>4, <2>5, <2>6, <2>7 DEF WalkInv, WalkComplete
<1> QED BY <1>4, <1>5

\* The inductive invariant of a list sorted like its cursor.
THEOREM Invariance ==
  ASSUME Sorted = "created"
  PROVE  Spec => []WalkInv
<1>1. WalkInv /\ [Next]_vars => WalkInv'
  <2> SUFFICES ASSUME WalkInv, [Next]_vars PROVE WalkInv'
    OBVIOUS
  <2>1. CASE UNCHANGED vars
    BY <2>1, OthersKeep DEF vars, Kept, WalkInv, TypeOK, Listed, PosOf
  <2>2. CASE Next
    BY <2>2, CreateKeeps, EditKeeps, BeginKeeps, PageKeeps DEF Next
  <2> QED BY <2>1, <2>2
<1> QED BY <1>1, InitHolds, PTL DEF Spec

\* The table, the cursor and what the client holds have their types, and a cursor
\* is the position of a row the client was given.
THEOREM ListTypes ==
  ASSUME Sorted = "created"
  PROVE  Spec => []TypeOK
<1>1. WalkInv => TypeOK
  BY DEF WalkInv
<1> QED BY <1>1, Invariance, PTL

\* A finished walk has returned every row that was listed all along.
THEOREM Complete ==
  ASSUME Sorted = "created"
  PROVE  Spec => []WalkComplete
<1>1. WalkInv => WalkComplete
  BY DEF WalkInv
<1> QED BY <1>1, Invariance, PTL

\* A row that was returned is not ahead of the cursor: it is not returned again.
THEOREM NothingTwice ==
  ASSUME Sorted = "created"
  PROVE  Spec => []NoRepeat
<1>1. WalkInv => NoRepeat
  BY DEF WalkInv, NoRepeat, Matching, Older
<1> QED BY <1>1, Invariance, PTL

-----------------------------------------------------------------------------
(***************************************************************************)
(* ContactMerge.  What the merges under way hold.                          *)
(***************************************************************************)
Merging(job) == job.step \in {"merge", "rewrite"}

PlanOf(w, l) == [i \in Edges |-> TargetPass(w, l, i, SourcePass(w, l, i))]

\* A merge or PATCH knows its contacts, and a merge never has one twice.
CallOK(job) ==
  /\ job \in Call
  /\ job.step = "patch" => job.winner \in Contacts
  /\ Merging(job) => job.winner \in Contacts /\ job.loser \in Contacts /\ job.winner # job.loser
  /\ \A i \in Edges : job.plan[i].source \in {Nil, job.winner} /\ job.plan[i].target \in {Nil, job.winner}

\* What names the loser of a merge that has read its references is in its plan,
\* or was attached since.
Covers(job) ==
  job.step = "rewrite" =>
    /\ \A x \in RefIds : ref[x] = job.loser => x \in job.refs \/ x \in missed
    /\ \A i \in Edges : edge[i] # Nil =>
         /\ edge[i][1] = job.loser => i \in missed \/ job.plan[i].del \/ job.plan[i].source # Nil
         /\ edge[i][2] = job.loser => i \in missed \/ job.plan[i].del \/ job.plan[i].target # Nil

\* The plan of a merge is that of the edges as they are while nothing was committed.
PlanFresh ==
  \A q \in Calls : call[q].step = "rewrite" /\ since[q] =>
    call[q].plan = PlanOf(call[q].winner, call[q].loser)

\* Merges that did not overlap end at contacts that went nowhere.
EndsInv ==
  ~crossed =>
    /\ \A c \in Contacts : contact[c].status = "live" => contact[c].into = Nil
    /\ \A p, q \in Calls : Merging(call[p]) /\ Merging(call[q]) => p = q
    /\ \A q \in Calls : Merging(call[q]) => contact[call[q].winner].into = Nil

MergeInv ==
  /\ MergeTypeOK
  /\ \A q \in Calls : CallOK(call[q]) /\ Covers(call[q])
  /\ PlanFresh
  /\ EndsInv
  /\ MergeLeavesNothing
  /\ MergesEnd
  /\ ChangesReplay
-----------------------------------------------------------------------------
LEMMA IdleFacts == CallOK(Idle) /\ Idle.step = "idle" /\ ~Merging(Idle)
BY DEF CallOK, Idle, Call, Merging, Columns, Keep, EdgePlan

LEMMA MergeInitial == MergeInit => MergeInv
<1>. SUFFICES ASSUME MergeInit PROVE MergeInv
  OBVIOUS
<1>1. PICK s \in Seeds : contact = s.contact /\ ref = s.ref /\ edge = s.edge
  BY DEF MergeInit
<1>2. s \in Tables /\ \A c \in Contacts : contact[c].into = Nil
  BY <1>1, MergeAssumption
<1>3. /\ contact \in [Contacts -> ContactRow] /\ ref \in [RefIds -> Contacts \cup {Nil}]
      /\ edge \in [Edges -> Pairs \cup {Nil}]
  BY <1>1, <1>2 DEF Tables
<1>4. /\ call = [q \in Calls |-> Idle] /\ count = 0 /\ told = [c \in Contacts |-> contact[c].title]
      /\ missed = {} /\ crossed = FALSE /\ since = [q \in Calls |-> TRUE]
  BY DEF MergeInit
<1>5. \A q \in Calls : call[q] = Idle
  BY <1>4
<1>6. MergeTypeOK
  <2>1. call \in [Calls -> Call] /\ count \in 0..MaxCalls
    BY <1>4, IdleFacts, MergeAssumption DEF CallOK
  <2>2. told \in [Contacts -> Columns \cup {Unknown}]
    BY <1>3, <1>4 DEF ContactRow
  <2>. QED  BY <1>3, <1>4, <2>1, <2>2 DEF MergeTypeOK
<1>7. \A q \in Calls : CallOK(call[q]) /\ Covers(call[q])
  BY <1>5, IdleFacts DEF Covers
<1>8. PlanFresh /\ EndsInv
  BY <1>2, <1>5, IdleFacts DEF PlanFresh, EndsInv
<1>9. MergeLeavesNothing
  BY <1>2 DEF MergeLeavesNothing
<1>10. MergesEnd
  <2>. SUFFICES ASSUME NEW S \in (SUBSET Contacts) \ {{}} PROVE \E c \in S : contact[c].into \notin S
    BY DEF MergesEnd
  <2>1. PICK c \in S : c \in Contacts
    OBVIOUS
  <2>2. Nil \notin S
    BY MergeAssumption
  <2>. QED  BY <1>2, <2>1, <2>2
<1>11. ChangesReplay
  BY <1>4 DEF ChangesReplay
<1>. QED  BY <1>6, <1>7, <1>8, <1>9, <1>10, <1>11 DEF MergeInv
-----------------------------------------------------------------------------
(***************************************************************************)
(* References come and go.                                                 *)
(***************************************************************************)
LEMMA RefSets ==
  ASSUME MergeInv, NEW x \in RefIds, NEW c \in Contacts \cup {Nil},
         ref' = [ref EXCEPT ![x] = c],
         \/ c = Nil /\ missed' = missed
         \/ c # Nil /\ Refers(x, c),
         count' \in 0..MaxCalls, Commits, UNCHANGED <<contact, edge, call, told, crossed>>
  PROVE  MergeInv'
<1>1. /\ ref' \in [RefIds -> Contacts \cup {Nil}] /\ ref'[x] = c
      /\ \A y \in RefIds \ {x} : ref'[y] = ref[y]
  BY DEF MergeInv, MergeTypeOK
<1>2. missed \subseteq missed' /\ missed' \subseteq RefIds \cup Edges
      /\ (c # Nil /\ Missed(c) => x \in missed')
  BY DEF Refers, MergeInv, MergeTypeOK
<1>3. MergeTypeOK' /\ PlanFresh'
  BY <1>1, <1>2 DEF MergeInv, MergeTypeOK, PlanFresh, Commits
<1>4. ASSUME NEW q \in Calls PROVE (CallOK(call[q]) /\ Covers(call[q]))'
  <2>. DEFINE job == call[q]
  <2>1. CallOK(job) /\ Covers(job) /\ job' = job /\ Nil \notin Contacts
    BY MergeAssumption DEF MergeInv
  <2>2. c # Nil /\ job.step = "rewrite" /\ c = job.loser => x \in missed'
    BY <1>2 DEF Missed, Leaving
  <2>. HIDE DEF job
  <2>3. job.step = "rewrite" => job.loser \in Contacts
    BY <2>1 DEF CallOK, Merging
  <2>4. CallOK(job)' /\ Covers(job)'
    BY <1>1, <1>2, <2>1, <2>2, <2>3 DEF Covers, CallOK, Merging
  <2>. QED  BY <2>4 DEF job
<1>5. EndsInv' /\ MergesEnd' /\ ChangesReplay'
  BY DEF MergeInv, EndsInv, MergesEnd, ChangesReplay, Exists
<1>6. MergeLeavesNothing'
  BY <1>1, <1>2, MergeAssumption DEF MergeInv, MergeLeavesNothing, Missed
<1>. QED  BY <1>3, <1>4, <1>5, <1>6 DEF MergeInv

LEMMA EdgeSets ==
  ASSUME MergeInv, NEW i \in Edges, NEW pair \in Pairs \cup {Nil},
         edge' = [edge EXCEPT ![i] = pair],
         \/ pair = Nil /\ missed' = missed
         \/ pair \in Pairs /\ missed' = IF Missed(pair[1]) \/ Missed(pair[2]) THEN missed \cup {i} ELSE missed,
         count' \in 0..MaxCalls, Commits, UNCHANGED <<contact, ref, call, told, crossed>>
  PROVE  MergeInv'
<1>1. /\ edge' \in [Edges -> Pairs \cup {Nil}] /\ edge'[i] = pair
      /\ \A j \in Edges \ {i} : edge'[j] = edge[j]
  BY DEF MergeInv, MergeTypeOK
<1>2. missed \subseteq missed' /\ missed' \subseteq RefIds \cup Edges
      /\ (pair # Nil => \A c \in {pair[1], pair[2]} : Missed(c) => i \in missed')
  BY MergeAssumption DEF MergeInv, MergeTypeOK
<1>3. MergeTypeOK' /\ PlanFresh'
  BY <1>1, <1>2 DEF MergeInv, MergeTypeOK, PlanFresh, Commits
<1>4. ASSUME NEW q \in Calls PROVE (CallOK(call[q]) /\ Covers(call[q]))'
  <2>. DEFINE job == call[q]
  <2>1. CallOK(job) /\ Covers(job) /\ job' = job
    BY DEF MergeInv
  <2>2. pair # Nil /\ job.step = "rewrite" /\ job.loser \in {pair[1], pair[2]} => i \in missed'
    BY <1>2 DEF Missed, Leaving
  <2>. HIDE DEF job
  <2>4. CallOK(job)' /\ Covers(job)'
    BY <1>1, <1>2, <2>1, <2>2 DEF Covers, CallOK, Merging
  <2>. QED  BY <2>4 DEF job
<1>5. EndsInv' /\ MergesEnd' /\ ChangesReplay'
  BY DEF MergeInv, EndsInv, MergesEnd, ChangesReplay, Exists
<1>6. MergeLeavesNothing'
  BY <1>1, <1>2, MergeAssumption DEF MergeInv, MergeLeavesNothing, Missed
<1>. QED  BY <1>3, <1>4, <1>5, <1>6 DEF MergeInv

LEMMA BeginsFacts ==
  ASSUME MergeInv, Begins
  PROVE  count' \in 0..MaxCalls
BY MergeAssumption DEF MergeInv, MergeTypeOK, Begins

LEMMA ReferenceRoutesKeep ==
  ASSUME MergeInv, ReferenceRoutes
  PROVE  MergeInv'
<1>1. Nil \notin Contacts /\ Nil \notin Pairs /\ Nil \in Contacts \cup {Nil} /\ Nil \in Pairs \cup {Nil}
      /\ Children \subseteq RefIds /\ Deals \subseteq RefIds /\ Links \subseteq RefIds
  BY MergeAssumption DEF RefIds
<1>2. ASSUME NEW c \in Contacts, NEW x \in Children, CreateChild(x, c) PROVE MergeInv'
  BY <1>1, <1>2, BeginsFacts, RefSets DEF CreateChild
<1>3. ASSUME NEW c \in Contacts, NEW d \in Deals, SetPrimaryContact(d, c) PROVE MergeInv'
  BY <1>1, <1>3, BeginsFacts, RefSets DEF SetPrimaryContact
<1>4. ASSUME NEW c \in Contacts, NEW k \in Links, CreateLink(k, c) PROVE MergeInv'
  BY <1>1, <1>4, BeginsFacts, RefSets DEF CreateLink
<1>5. ASSUME NEW x \in RefIds \ Deals, DeleteChild(x) PROVE MergeInv'
  BY <1>1, <1>5, BeginsFacts, RefSets DEF DeleteChild
<1>6. ASSUME NEW i \in Edges, DeleteRelationship(i) PROVE MergeInv'
  BY <1>1, <1>6, BeginsFacts, EdgeSets DEF DeleteRelationship
<1>7. ASSUME NEW i \in Edges, NEW pair \in Pairs, CreateRelationship(i, pair) PROVE MergeInv'
  BY <1>1, <1>7, BeginsFacts, EdgeSets DEF CreateRelationship
<1>. QED  BY <1>2, <1>3, <1>4, <1>5, <1>6, <1>7 DEF ReferenceRoutes
-----------------------------------------------------------------------------
(***************************************************************************)
(* A merge or PATCH goes on, or gives up, with nothing written.            *)
(***************************************************************************)
LEMMA JobGoes ==
  ASSUME MergeInv, NEW q \in Calls, NEW job, call' = [call EXCEPT ![q] = job],
         CallOK(job), Covers(job), count' \in 0..MaxCalls,
         UNCHANGED <<contact, ref, edge, told, missed>>,
         since' \in [Calls -> BOOLEAN], \A p \in Calls \ {q} : since'[p] = since[p],
         job.step = "rewrite" /\ since'[q] => job.plan = PlanOf(job.winner, job.loser),
         crossed' \in BOOLEAN, crossed => crossed',
         ~crossed' /\ Merging(job) => /\ \A p \in Calls \ {q} : ~Merging(call[p])
                                      /\ contact[job.winner].into = Nil
  PROVE  MergeInv'
<1>1. /\ call' \in [Calls -> Call] /\ call'[q] = job
      /\ \A p \in Calls \ {q} : call'[p] = call[p]
  BY DEF MergeInv, MergeTypeOK, CallOK
<1>2. MergeTypeOK'
  BY <1>1 DEF MergeInv, MergeTypeOK
<1>3. ASSUME NEW p \in Calls PROVE (CallOK(call[p]) /\ Covers(call[p]))'
  <2>1. CallOK(call'[p]) /\ Covers(call'[p])
    BY <1>1 DEF MergeInv
  <2>. QED  BY <2>1 DEF CallOK, Covers, Merging
<1>4. PlanFresh'
  <2>. SUFFICES ASSUME NEW p \in Calls, call'[p].step = "rewrite", since'[p]
                PROVE  (call[p].plan = PlanOf(call[p].winner, call[p].loser))'
    BY DEF PlanFresh
  <2>1. call'[p].plan = PlanOf(call'[p].winner, call'[p].loser)
    BY <1>1 DEF MergeInv, PlanFresh
  <2>. QED  BY <2>1 DEF PlanOf, TargetPass, SourcePass, HasEdge
<1>5. EndsInv'
  BY <1>1 DEF MergeInv, EndsInv, Merging
<1>6. MergeLeavesNothing' /\ MergesEnd' /\ ChangesReplay'
  BY DEF MergeInv, MergeLeavesNothing, MergesEnd, ChangesReplay, Exists
<1>. QED  BY <1>2, <1>3, <1>4, <1>5, <1>6 DEF MergeInv

LEMMA RollbackKeeps ==
  ASSUME MergeInv, NEW q \in Calls, Rollback(q)
  PROVE  MergeInv'
<1>1. call' = [call EXCEPT ![q] = Idle] /\ UNCHANGED <<contact, ref, edge, count, told, missed, crossed, since>>
  BY DEF Rollback
<1>2. count' \in 0..MaxCalls /\ since' \in [Calls -> BOOLEAN] /\ crossed' \in BOOLEAN
  BY <1>1 DEF MergeInv, MergeTypeOK
<1>3. Covers(Idle)
  BY IdleFacts DEF Covers
<1>. QED  BY <1>1, <1>2, <1>3, IdleFacts, JobGoes

\* A call that begins: its plan is empty.
LEMMA FreshCall ==
  ASSUME NEW job \in Call, job.step \in {"patch", "merge"}, job.winner \in Contacts,
         job.step = "merge" => job.loser \in Contacts /\ job.winner # job.loser,
         job.plan = Idle.plan
  PROVE  CallOK(job) /\ Covers(job)
<1>1. \A i \in Edges : job.plan[i].source = Nil /\ job.plan[i].target = Nil
  BY DEF Idle, Keep
<1>. QED  BY <1>1 DEF CallOK, Covers, Merging

LEMMA PatchLoadKeeps ==
  ASSUME MergeInv, NEW q \in Calls, NEW c \in Contacts, NEW v \in Columns, PatchLoad(q, c, v)
  PROVE  MergeInv'
<1>. DEFINE job == [Idle EXCEPT !.step = "patch", !.winner = c, !.value = v,
                                !.seen[c] = contact[c].title]
<1>1. /\ Begins /\ call[q].step = "idle" /\ since' = [since EXCEPT ![q] = TRUE]
      /\ call' = [call EXCEPT ![q] = job]
      /\ UNCHANGED <<contact, ref, edge, told, missed, crossed>>
  BY DEF PatchLoad
<1>2. Idle \in Call /\ contact[c].title \in Columns
  BY IdleFacts DEF CallOK, MergeInv, MergeTypeOK, ContactRow
<1>3. job \in Call /\ job.step = "patch" /\ job.winner = c /\ job.plan = Idle.plan
  BY <1>2 DEF Call
<1>. HIDE DEF job
<1>6. CallOK(job) /\ Covers(job)
  BY <1>3, FreshCall
<1>7. count' \in 0..MaxCalls /\ since' \in [Calls -> BOOLEAN] /\ crossed' \in BOOLEAN
      /\ \A p \in Calls \ {q} : since'[p] = since[p]
  BY <1>1, BeginsFacts DEF MergeInv, MergeTypeOK
<1>. QED  BY <1>1, <1>3, <1>6, <1>7, JobGoes DEF Merging

LEMMA MergeLoadKeeps ==
  ASSUME MergeInv, NEW q \in Calls, NEW w \in Contacts, NEW l \in Contacts,
         NEW prefer \in {"default", "winner", "loser"}, MergeLoad(q, w, l, prefer)
  PROVE  MergeInv'
<1>. DEFINE seen == [c \in Contacts |-> contact[c].title]
            job == [Idle EXCEPT !.step = "merge", !.winner = w, !.loser = l, !.prefer = prefer,
                                !.seen = seen]
<1>1. /\ Begins /\ call[q].step = "idle" /\ Mergeable(w, l) /\ crossed' = (crossed \/ Others(q) # {})
      /\ call' = [call EXCEPT ![q] = job]
      /\ UNCHANGED <<contact, ref, edge, told, missed, since>>
  BY DEF MergeLoad
<1>2. Idle \in Call /\ seen \in [Contacts -> Columns]
  BY IdleFacts DEF CallOK, MergeInv, MergeTypeOK, ContactRow
<1>. HIDE DEF seen
<1>3. job \in Call /\ job.step = "merge" /\ job.winner = w /\ job.loser = l /\ job.plan = Idle.plan
  BY <1>2 DEF Call
<1>. HIDE DEF job
<1>6. CallOK(job) /\ Covers(job)
  BY <1>1, <1>3, FreshCall DEF Mergeable
<1>7. count' \in 0..MaxCalls /\ since' \in [Calls -> BOOLEAN] /\ crossed' \in BOOLEAN
  BY <1>1, BeginsFacts DEF MergeInv, MergeTypeOK
<1>8. ~crossed' => (\A p \in Calls \ {q} : ~Merging(call[p])) /\ contact[w].into = Nil
  BY <1>1 DEF Others, Merging, Mergeable, MergeInv, EndsInv, MergeTypeOK
<1>. QED  BY <1>1, <1>3, <1>6, <1>7, <1>8, JobGoes

\* What the two passes make of an edge.
LEMMA PassFacts ==
  ASSUME edge \in [Edges -> Pairs \cup {Nil}], NEW w \in Contacts, NEW l \in Contacts, NEW i \in Edges
  PROVE  LET do == TargetPass(w, l, i, SourcePass(w, l, i))
         IN  /\ do \in EdgePlan /\ do.source \in {Nil, w} /\ do.target \in {Nil, w}
             /\ edge[i] # Nil => /\ edge[i][1] = l => do.del \/ do.source # Nil
                                 /\ edge[i][2] = l => do.del \/ do.target # Nil
<1>1. w # Nil /\ Keep = [del |-> FALSE, source |-> Nil, target |-> Nil] /\ Keep \in EdgePlan
  BY MergeAssumption DEF Keep, EdgePlan
<1>. DEFINE first == SourcePass(w, l, i)
<1>2. /\ first \in EdgePlan /\ first.source \in {Nil, w} /\ first.target = Nil
      /\ edge[i] # Nil /\ edge[i][1] = l => first.del \/ first.source = w
  BY <1>1 DEF SourcePass, EdgePlan
<1>. HIDE DEF first
<1>. DEFINE do == TargetPass(w, l, i, first)
<1>3. do \in {first, [first EXCEPT !.del = TRUE], [first EXCEPT !.target = w]}
      /\ (edge[i] # Nil /\ edge[i][2] = l => do.del \/ do = [first EXCEPT !.target = w])
  BY <1>2 DEF TargetPass, EdgePlan
<1>4. do \in EdgePlan /\ do.source = first.source /\ do.target \in {Nil, w} /\ (first.del => do.del)
  BY <1>2, <1>3 DEF EdgePlan
<1>5. do = [first EXCEPT !.target = w] => do.target = w
  BY <1>2 DEF EdgePlan
<1>. HIDE DEF do
<1>6. /\ edge[i] # Nil /\ edge[i][1] = l => do.del \/ do.source # Nil
      /\ edge[i] # Nil /\ edge[i][2] = l => do.del \/ do.target # Nil
  BY <1>1, <1>2, <1>3, <1>4, <1>5
<1>. QED  BY <1>2, <1>4, <1>6 DEF do, first

LEMMA MergeScanKeeps ==
  ASSUME MergeInv, NEW q \in Calls, MergeScan(q)
  PROVE  MergeInv'
<1>. DEFINE old == call[q]
            w == old.winner
            l == old.loser
            dups == {k \in Links : ref[k] = l /\ \E j \in Links : ref[j] = w}
            plan == PlanOf(w, l)
            job == [old EXCEPT !.step = "rewrite", !.refs = Rewritten(l), !.dups = dups, !.plan = plan]
<1>1. /\ old.step = "merge" /\ call' = [call EXCEPT ![q] = job] /\ since' = [since EXCEPT ![q] = TRUE]
      /\ UNCHANGED <<contact, ref, edge, count, told, missed, crossed>>
  BY DEF MergeScan, PlanOf
<1>2. /\ old \in Call /\ w \in Contacts /\ l \in Contacts /\ w # l /\ CallOK(old)
      /\ edge \in [Edges -> Pairs \cup {Nil}]
  BY <1>1 DEF MergeInv, MergeTypeOK, CallOK, Merging
<1>3. Rewritten(l) \in SUBSET RefIds /\ dups \in SUBSET RefIds
  BY DEF Rewritten, RefIds
<1>4. \A i \in Edges : plan[i] = TargetPass(w, l, i, SourcePass(w, l, i))
  BY DEF PlanOf
<1>5. \A i \in Edges :
        /\ plan[i] \in EdgePlan /\ plan[i].source \in {Nil, w} /\ plan[i].target \in {Nil, w}
        /\ edge[i] # Nil => /\ edge[i][1] = l => plan[i].del \/ plan[i].source # Nil
                            /\ edge[i][2] = l => plan[i].del \/ plan[i].target # Nil
  BY <1>2, <1>4, PassFacts
<1>6. plan \in [Edges -> EdgePlan]
  BY <1>5 DEF PlanOf
<1>. HIDE DEF plan, dups
<1>7. /\ job \in Call /\ job.step = "rewrite" /\ job.winner = w /\ job.loser = l
      /\ job.refs = Rewritten(l) /\ job.plan = plan
  BY <1>2, <1>3, <1>6 DEF Call
<1>. HIDE DEF job
<1>8. CallOK(job) /\ Covers(job)
  BY <1>2, <1>5, <1>7 DEF CallOK, Covers, Merging, Rewritten
<1>9. count' \in 0..MaxCalls /\ since' \in [Calls -> BOOLEAN] /\ crossed' \in BOOLEAN
      /\ \A p \in Calls \ {q} : since'[p] = since[p]
  BY <1>1 DEF MergeInv, MergeTypeOK
<1>10. ~crossed' => (\A p \in Calls \ {q} : ~Merging(call[p])) /\ contact[w].into = Nil
  BY <1>1 DEF Merging, MergeInv, EndsInv
<1>11. job.plan = PlanOf(job.winner, job.loser)
  BY <1>7 DEF plan
<1>. HIDE DEF w, l, old
<1>. QED  BY <1>1, <1>7, <1>8, <1>9, <1>10, <1>11, JobGoes
-----------------------------------------------------------------------------
(***************************************************************************)
(* Contacts are written.                                                   *)
(***************************************************************************)
\* A contact is patched, deleted or revived, while what refers to it stays or
\* goes.
LEMMA ContactSets ==
  ASSUME MergeInv, contact' \in [Contacts -> ContactRow],
         \A d \in Contacts : contact'[d].into = contact[d].into,
         \A d \in Contacts : contact'[d].status = "live" /\ contact[d].status # "live" => crossed',
         ref' \in [RefIds -> Contacts \cup {Nil}], \A x \in RefIds : ref'[x] \in {ref[x], Nil},
         told' \in [Contacts -> Columns \cup {Unknown}],
         \A d \in Contacts : contact'[d].status # "gone" /\ told[d] \in {contact[d].title, Unknown}
           => told'[d] \in {contact'[d].title, Unknown},
         \A d \in Contacts : contact'[d].status # "gone" => contact[d].status # "gone",
         crossed' \in BOOLEAN, crossed => crossed', count' \in 0..MaxCalls,
         call' \in [Calls -> Call], since' \in [Calls -> BOOLEAN],
         \A q \in Calls : call'[q] = call[q] \/ call'[q] = Idle,
         \A q \in Calls : since'[q] => call'[q] = Idle,
         UNCHANGED <<edge, missed>>
  PROVE  MergeInv'
<1>1. MergeTypeOK'
  BY DEF MergeInv, MergeTypeOK
<1>2. ASSUME NEW q \in Calls PROVE (CallOK(call[q]) /\ Covers(call[q]))'
  <2>1. CallOK(call'[q]) /\ Covers(call'[q])
    BY IdleFacts DEF MergeInv, Covers
  <2>2. \A x \in RefIds : call'[q].step = "rewrite" /\ ref'[x] = call'[q].loser => ref[x] = ref'[x]
    BY <2>1, MergeAssumption DEF CallOK, Merging
  <2>. QED  BY <2>1, <2>2 DEF CallOK, Covers, Merging
<1>3. PlanFresh'
  BY IdleFacts DEF PlanFresh
<1>4. EndsInv'
  <2>. SUFFICES ASSUME ~crossed' PROVE EndsInv'
    BY DEF EndsInv
  <2>1. \A q \in Calls : Merging(call'[q]) => call'[q] = call[q]
    BY IdleFacts
  <2>2. \A q \in Calls : Merging(call'[q]) => call'[q].winner \in Contacts
    BY <2>1 DEF MergeInv, CallOK
  <2>. QED  BY <2>1, <2>2 DEF MergeInv, EndsInv, Merging
<1>5. MergeLeavesNothing'
  <2>1. \A x \in RefIds, d \in Contacts : ref'[x] = d => ref[x] = d
    BY MergeAssumption
  <2>. QED  BY <2>1 DEF MergeInv, MergeLeavesNothing
<1>6. MergesEnd'
  BY DEF MergeInv, MergesEnd
<1>7. ChangesReplay'
  BY DEF MergeInv, ChangesReplay, Exists
<1>. QED  BY <1>1, <1>2, <1>3, <1>4, <1>5, <1>6, <1>7 DEF MergeInv

LEMMA PatchCommitKeeps ==
  ASSUME MergeInv, NEW q \in Calls, PatchCommit(q)
  PROVE  MergeInv'
<1>. DEFINE c == call[q].winner
            v == call[q].value
            was == call[q].seen[c]
<1>1. /\ call[q].step = "patch" /\ c \in Contacts /\ v \in Columns
  BY DEF PatchCommit, MergeInv, MergeTypeOK, CallOK, Call
<1>2. /\ contact' = IF v # was THEN [contact EXCEPT ![c].title = v] ELSE contact
      /\ told' = IF v # was THEN [told EXCEPT ![c] = v] ELSE told
      /\ call' = [call EXCEPT ![q] = Idle] /\ since' = [p \in Calls |-> p = q]
      /\ UNCHANGED <<ref, edge, count, missed, crossed>>
  BY DEF PatchCommit, Told, CommitsCall
<1>. HIDE DEF c, v, was
<1>3. /\ contact \in [Contacts -> ContactRow] /\ told \in [Contacts -> Columns \cup {Unknown}]
      /\ ref \in [RefIds -> Contacts \cup {Nil}] /\ crossed \in BOOLEAN /\ count \in 0..MaxCalls
      /\ call \in [Calls -> Call] /\ Idle \in Call
  BY IdleFacts DEF MergeInv, MergeTypeOK, CallOK
<1>4. /\ contact' \in [Contacts -> ContactRow]
      /\ \A d \in Contacts : contact'[d].into = contact[d].into
      /\ \A d \in Contacts : contact'[d].status = contact[d].status
  BY <1>1, <1>2, <1>3 DEF ContactRow
<1>5. /\ told' \in [Contacts -> Columns \cup {Unknown}]
      /\ \A d \in Contacts : told[d] \in {contact[d].title, Unknown} => told'[d] \in {contact'[d].title, Unknown}
  BY <1>1, <1>2, <1>3 DEF ContactRow
<1>6. /\ call' \in [Calls -> Call] /\ since' \in [Calls -> BOOLEAN]
      /\ \A p \in Calls : call'[p] = call[p] \/ call'[p] = Idle
      /\ \A p \in Calls : since'[p] => call'[p] = Idle
  BY <1>2, <1>3
<1>7. /\ UNCHANGED <<edge, missed>> /\ crossed' \in BOOLEAN /\ (crossed => crossed')
      /\ count' \in 0..MaxCalls /\ ref' = ref
  BY <1>2, <1>3
<1>8. /\ \A d \in Contacts : contact'[d].status = "live" /\ contact[d].status # "live" => crossed'
      /\ \A d \in Contacts : contact'[d].status # "gone" => contact[d].status # "gone"
  BY <1>4
<1>9. ref' \in [RefIds -> Contacts \cup {Nil}] /\ \A x \in RefIds : ref'[x] \in {ref[x], Nil}
  BY <1>3, <1>7
<1>. QED  BY <1>4, <1>5, <1>6, <1>7, <1>8, <1>9, ContactSets

LEMMA McpUpdateKeeps ==
  ASSUME MergeInv, NEW c \in Contacts, NEW v \in Columns, NEW revive \in BOOLEAN, McpUpdate(c, v, revive)
  PROVE  MergeInv'
<1>1. /\ Begins /\ Exists(c) /\ told' = [told EXCEPT ![c] = Unknown] /\ crossed' = (crossed \/ revive)
      /\ contact' = [contact EXCEPT ![c].title = v, ![c].status = IF revive THEN "live" ELSE @]
      /\ since' = [q \in Calls |-> FALSE] /\ UNCHANGED <<ref, edge, call, missed>>
  BY DEF McpUpdate, Commits
<1>2. /\ contact \in [Contacts -> ContactRow] /\ told \in [Contacts -> Columns \cup {Unknown}]
      /\ ref \in [RefIds -> Contacts \cup {Nil}] /\ crossed \in BOOLEAN /\ call \in [Calls -> Call]
  BY DEF MergeInv, MergeTypeOK
<1>3. /\ contact' \in [Contacts -> ContactRow]
      /\ \A d \in Contacts :
           /\ contact'[d].into = contact[d].into
           /\ contact'[d].status = "live" /\ contact[d].status # "live" => revive
           /\ contact'[d].status # "gone" => contact[d].status # "gone"
           /\ d # c => contact'[d].title = contact[d].title
  BY <1>1, <1>2 DEF ContactRow, Exists
<1>4. /\ told' \in [Contacts -> Columns \cup {Unknown}]
      /\ \A d \in Contacts : told[d] \in {contact[d].title, Unknown} => told'[d] \in {contact'[d].title, Unknown}
  BY <1>1, <1>2, <1>3
<1>5. crossed' \in BOOLEAN /\ (crossed => crossed') /\ (revive => crossed') /\ count' \in 0..MaxCalls
  BY <1>1, <1>2, BeginsFacts
<1>. QED  BY <1>1, <1>2, <1>3, <1>4, <1>5, ContactSets

LEMMA DeleteContactKeeps ==
  ASSUME MergeInv, NEW c \in Contacts, NEW hard \in BOOLEAN, DeleteContact(c, hard)
  PROVE  MergeInv'
<1>1. /\ Begins /\ Exists(c) /\ since' = [q \in Calls |-> FALSE]
      /\ contact' = [contact EXCEPT ![c].status = IF hard THEN "gone" ELSE "deleted"]
      /\ ref' = [x \in RefIds |-> IF hard /\ x \in Deals /\ ref[x] = c THEN Nil ELSE ref[x]]
      /\ UNCHANGED <<edge, call, told, missed, crossed>>
  BY DEF DeleteContact, Commits
<1>2. /\ contact \in [Contacts -> ContactRow] /\ told \in [Contacts -> Columns \cup {Unknown}]
      /\ ref \in [RefIds -> Contacts \cup {Nil}] /\ crossed \in BOOLEAN /\ call \in [Calls -> Call]
  BY DEF MergeInv, MergeTypeOK
<1>3. /\ contact' \in [Contacts -> ContactRow]
      /\ \A d \in Contacts :
           /\ contact'[d].into = contact[d].into /\ contact'[d].title = contact[d].title
           /\ contact'[d].status = "live" => contact[d].status = "live"
           /\ contact'[d].status # "gone" => contact[d].status # "gone"
  BY <1>1, <1>2 DEF ContactRow, Exists
<1>4. ref' \in [RefIds -> Contacts \cup {Nil}] /\ \A x \in RefIds : ref'[x] \in {ref[x], Nil}
  BY <1>1, <1>2
<1>5. count' \in 0..MaxCalls
  BY <1>1, BeginsFacts
<1>. QED  BY <1>1, <1>2, <1>3, <1>4, <1>5, ContactSets
-----------------------------------------------------------------------------
(***************************************************************************)
(* A merge is written.                                                     *)
(***************************************************************************)
Moved(job) == (job.refs \ job.dups) \cup {i \in Edges : job.plan[i] # Keep}

\* Contacts the winner of q's merge should not be: what it moves is missed.
Hit(q, c) == contact[c].into # Nil \/ \E p \in Others(q) : call[p].loser = c

\* The contacts of the merge, and what the step makes of the history.
LEMMA CommitContacts ==
  ASSUME MergeInv, NEW q \in Calls, MergeCommit(q)
  PROVE  /\ Merging(call[q]) /\ call[q].step = "rewrite" /\ CallOK(call[q]) /\ call[q].winner \in Contacts
         /\ call[q].loser \in Contacts /\ call[q].winner # call[q].loser
         /\ contact' \in [Contacts -> ContactRow] /\ told' \in [Contacts -> Columns \cup {Unknown}]
         /\ contact'[call[q].loser].into = call[q].winner
         /\ contact'[call[q].loser].status = "deleted"
         /\ \A c \in Contacts \ {call[q].loser} :
              contact'[c].into = contact[c].into /\ contact'[c].status = contact[c].status
         /\ \A c \in Contacts : told[c] \in {contact[c].title, Unknown}
                                  => told'[c] \in {contact'[c].title, Unknown}
         /\ Exists(call[q].loser) /\ Exists(call[q].winner)
<1>. DEFINE w == call[q].winner
            l == call[q].loser
            title == MergedTitle(q)
            was == call[q].seen[w]
<1>1. /\ call[q].step = "rewrite" /\ Merging(call[q]) /\ CallOK(call[q]) /\ call[q] \in Call
      /\ w \in Contacts /\ l \in Contacts /\ w # l
      /\ contact \in [Contacts -> ContactRow] /\ told \in [Contacts -> Columns \cup {Unknown}]
  BY DEF MergeCommit, MergeInv, MergeTypeOK, CallOK, Merging
<1>2. was \in Columns /\ title \in Columns
  BY <1>1 DEF MergedTitle, Call
<1>3. /\ contact' = [contact EXCEPT ![l].status = "deleted", ![l].into = w,
                                    ![w].title = IF title # was THEN title ELSE @]
      /\ told' = IF title # was THEN [told EXCEPT ![w] = title] ELSE told
      /\ Exists(w) /\ Exists(l)
  BY DEF MergeCommit, Told, Flushable
<1>. HIDE DEF w, l, title, was
<1>4. /\ contact' \in [Contacts -> ContactRow] /\ contact'[l].into = w /\ contact'[l].status = "deleted"
      /\ \A c \in Contacts \ {l} : contact'[c].into = contact[c].into /\ contact'[c].status = contact[c].status
  BY <1>1, <1>2, <1>3 DEF ContactRow
<1>5. contact'[w].title = IF title # was THEN title ELSE contact[w].title
  BY <1>1, <1>3 DEF ContactRow
<1>6. \A c \in Contacts \ {w} : contact'[c].title = contact[c].title
  BY <1>1, <1>3 DEF ContactRow
<1>7. /\ told' \in [Contacts -> Columns \cup {Unknown}]
      /\ \A c \in Contacts : told[c] \in {contact[c].title, Unknown} => told'[c] \in {contact'[c].title, Unknown}
  BY <1>1, <1>2, <1>3, <1>5, <1>6
<1>. QED  BY <1>1, <1>3, <1>4, <1>7 DEF w, l

\* Where references and edges are afterwards.
LEMMA CommitRoutes ==
  ASSUME MergeInv, NEW q \in Calls, MergeCommit(q)
  PROVE  /\ ref' \in [RefIds -> Contacts \cup {Nil}] /\ edge' \in [Edges -> Pairs \cup {Nil}]
         /\ missed \subseteq missed' /\ missed' \subseteq RefIds \cup Edges
         /\ Hit(q, call[q].winner) => Moved(call[q]) \subseteq missed'
         /\ \A x \in RefIds, c \in Contacts : ref'[x] = c =>
              \/ ref[x] = c /\ (x \in call[q].refs => c = call[q].winner)
              \/ c = call[q].winner /\ x \in Moved(call[q])
         /\ \A i \in Edges, n \in {1, 2}, c \in Contacts : edge'[i] # Nil /\ edge'[i][n] = c =>
              /\ edge[i] # Nil /\ ~call[q].plan[i].del
              /\ \/ edge[i][n] = c /\ (c # call[q].winner => 
                      (IF n = 1 THEN call[q].plan[i].source ELSE call[q].plan[i].target) = Nil)
                 \/ c = call[q].winner /\ i \in Moved(call[q])
<1>. DEFINE job == call[q]
            w == job.winner
<1>1. /\ job \in Call /\ w \in Contacts /\ w # Nil
      /\ \A i \in Edges : job.plan[i].source \in {Nil, w} /\ job.plan[i].target \in {Nil, w}
      /\ ref \in [RefIds -> Contacts \cup {Nil}] /\ edge \in [Edges -> Pairs \cup {Nil}]
      /\ missed \subseteq RefIds \cup Edges /\ job.refs \subseteq RefIds
  BY CommitContacts, MergeAssumption DEF CallOK, MergeInv, MergeTypeOK, Call
<1>2. /\ ref' = [x \in RefIds |-> IF x \in job.dups THEN Nil ELSE IF x \in job.refs THEN w ELSE ref[x]]
      /\ edge' = [i \in Edges |->
           IF edge[i] = Nil \/ job.plan[i].del THEN Nil
           ELSE << IF job.plan[i].source = Nil THEN edge[i][1] ELSE job.plan[i].source,
                   IF job.plan[i].target = Nil THEN edge[i][2] ELSE job.plan[i].target >>]
  BY DEF MergeCommit, RefsAfter, EdgesAfter
<1>3. missed' = IF Hit(q, w) THEN missed \cup Moved(job) ELSE missed
  BY DEF MergeCommit, Hit, Moved
<1>. HIDE DEF job, w
<1>4. ref' \in [RefIds -> Contacts \cup {Nil}]
  BY <1>1, <1>2
<1>5. ASSUME NEW i \in Edges, edge'[i] # Nil
      PROVE  /\ edge[i] \in Pairs /\ ~job.plan[i].del
             /\ edge'[i] = << IF job.plan[i].source = Nil THEN edge[i][1] ELSE w,
                              IF job.plan[i].target = Nil THEN edge[i][2] ELSE w >>
             /\ job.plan[i] = Keep => job.plan[i].source = Nil /\ job.plan[i].target = Nil
  <2>1. edge[i] # Nil /\ ~job.plan[i].del
    BY <1>2, <1>5
  <2>. QED  BY <1>1, <1>2, <2>1 DEF Keep
<1>6. edge' \in [Edges -> Pairs \cup {Nil}]
  <2>1. \A i \in Edges : edge'[i] \in Pairs \cup {Nil}
    BY <1>1, <1>5 DEF Pairs
  <2>. QED  BY <1>2, <2>1
<1>7. Moved(job) \subseteq RefIds \cup Edges
  BY <1>1 DEF Moved
<1>8. ASSUME NEW x \in RefIds, NEW c \in Contacts, ref'[x] = c
      PROVE  \/ ref[x] = c /\ (x \in job.refs => c = w)
             \/ c = w /\ x \in Moved(job)
  BY <1>1, <1>2, <1>8, MergeAssumption DEF Moved
<1>9. ASSUME NEW i \in Edges, NEW n \in {1, 2}, NEW c \in Contacts, edge'[i] # Nil, edge'[i][n] = c
      PROVE  /\ edge[i] # Nil /\ ~job.plan[i].del
             /\ \/ edge[i][n] = c /\ (c # w =>
                     (IF n = 1 THEN job.plan[i].source ELSE job.plan[i].target) = Nil)
                \/ c = w /\ i \in Moved(job)
  <2>1. i \in Moved(job) \/ job.plan[i] = Keep
    BY DEF Moved
  <2>2. edge[i] # Nil
    BY <1>5, <1>9, MergeAssumption
  <2>. QED  BY <1>5, <1>9, <2>1, <2>2
<1>10. missed \subseteq missed' /\ missed' \subseteq RefIds \cup Edges /\ (Hit(q, w) => Moved(job) \subseteq missed')
  BY <1>1, <1>3, <1>7
<1>. QED  BY <1>4, <1>6, <1>8, <1>9, <1>10 DEF job, w

LEMMA CommitTypes ==
  ASSUME MergeInv, NEW q \in Calls, MergeCommit(q)
  PROVE  MergeTypeOK'
<1>1. crossed' \in BOOLEAN /\ call' \in [Calls -> Call] /\ since' \in [Calls -> BOOLEAN] /\ count' \in 0..MaxCalls
  BY IdleFacts DEF MergeCommit, CommitsCall, MergeInv, MergeTypeOK, CallOK
<1>. QED  BY <1>1, CommitContacts, CommitRoutes DEF MergeTypeOK

\* What names the loser of another merge under way is missed, or read by it.
LEMMA CommitCovers ==
  ASSUME MergeInv, NEW q \in Calls, MergeCommit(q), NEW p \in Calls
  PROVE  (CallOK(call[p]) /\ Covers(call[p]))'
<1>. DEFINE w == call[q].winner
            job == call[p]
            lost == job.loser
<1>1. call' = [call EXCEPT ![q] = Idle] /\ call \in [Calls -> Call] /\ CallOK(job) /\ Covers(job)
  BY DEF MergeCommit, MergeInv, MergeTypeOK
<1>2. CASE p = q
  <2>1. call'[p] = Idle
    BY <1>1, <1>2
  <2>. QED  BY <2>1, IdleFacts DEF CallOK, Covers, Merging
<1>3. CASE p # q /\ job.step # "rewrite"
  <2>1. call'[p] = call[p]
    BY <1>1, <1>3
  <2>. QED  BY <1>1, <1>3, <2>1 DEF CallOK, Covers, Merging
<1>4. CASE p # q /\ job.step = "rewrite"
  <2>1. call'[p] = job /\ lost \in Contacts /\ w \in Contacts
    BY <1>1, <1>4, CommitContacts DEF CallOK, Merging
  <2>2. lost = w => Moved(call[q]) \subseteq missed'
    BY <1>4, CommitRoutes DEF Hit, Others
  <2>3. missed \subseteq missed'
    BY CommitRoutes
  <2>. HIDE DEF job, w, lost
  <2>4. ASSUME NEW x \in RefIds, ref'[x] = lost PROVE x \in job.refs \/ x \in missed'
    <3>1. \/ ref[x] = lost
          \/ lost = w /\ x \in Moved(call[q])
      BY <2>1, <2>4, CommitRoutes DEF w
    <3>. QED  BY <1>1, <1>4, <2>2, <2>3, <3>1 DEF Covers, lost
  <2>5. ASSUME NEW i \in Edges, NEW n \in {1, 2}, edge'[i] # Nil, edge'[i][n] = lost
        PROVE  i \in missed' \/ job.plan[i].del
               \/ (IF n = 1 THEN job.plan[i].source ELSE job.plan[i].target) # Nil
    <3>1. edge[i] # Nil /\ (edge[i][n] = lost \/ (lost = w /\ i \in Moved(call[q])))
      BY <2>1, <2>5, CommitRoutes DEF w
    <3>. QED  BY <1>1, <1>4, <2>2, <2>3, <3>1 DEF Covers, lost
  <2>6. \A i \in Edges : edge'[i] # Nil =>
         /\ edge'[i][1] = lost => i \in missed' \/ job.plan[i].del \/ job.plan[i].source # Nil
         /\ edge'[i][2] = lost => i \in missed' \/ job.plan[i].del \/ job.plan[i].target # Nil
    BY <2>5
  <2>7. Covers(call[p])'
    BY <1>4, <2>1, <2>4, <2>6 DEF Covers, lost, job
  <2>. QED  BY <1>1, <2>1, <2>7 DEF CallOK, Merging, job
<1>. QED  BY <1>2, <1>3, <1>4

LEMMA CommitLeavesNothing ==
  ASSUME MergeInv, NEW q \in Calls, MergeCommit(q)
  PROVE  MergeLeavesNothing'
<1>. SUFFICES ASSUME NEW c \in Contacts, contact'[c].into # Nil
              PROVE  /\ \A x \in RefIds : ref'[x] = c => x \in missed'
                     /\ \A i \in Edges : edge'[i] # Nil /\ c \in {edge'[i][1], edge'[i][2]} => i \in missed'
  BY DEF MergeLeavesNothing
<1>. DEFINE w == call[q].winner
            l == call[q].loser
<1>1. /\ w \in Contacts /\ l \in Contacts /\ w # l /\ missed \subseteq missed' /\ call[q].step = "rewrite"
      /\ Covers(call[q])
  BY CommitContacts, CommitRoutes DEF MergeInv
<1>2. c # l => contact[c].into # Nil
  BY CommitContacts
<1>3. c # l /\ c = w => Moved(call[q]) \subseteq missed'
  BY <1>2, CommitRoutes DEF Hit
<1>4. ASSUME NEW x \in RefIds, ref'[x] = c PROVE x \in missed'
  <2>1. \/ ref[x] = c /\ (x \in call[q].refs => c = w)
        \/ c = w /\ x \in Moved(call[q])
    BY <1>4, CommitRoutes
  <2>. QED  BY <1>1, <1>2, <1>3, <2>1 DEF Covers, MergeInv, MergeLeavesNothing
<1>5. ASSUME NEW i \in Edges, NEW n \in {1, 2}, edge'[i] # Nil, edge'[i][n] = c PROVE i \in missed'
  <2>1. /\ edge[i] # Nil /\ ~call[q].plan[i].del
        /\ \/ edge[i][n] = c /\ (c # w =>
                (IF n = 1 THEN call[q].plan[i].source ELSE call[q].plan[i].target) = Nil)
           \/ c = w /\ i \in Moved(call[q])
    BY <1>5, CommitRoutes
  <2>2. CASE c = l
    BY <1>1, <2>1, <2>2 DEF Covers
  <2>3. CASE c # l
    <3>1. edge[i][n] = c => i \in missed
      BY <1>2, <2>1, <2>3 DEF MergeInv, MergeLeavesNothing
    <3>. QED  BY <1>1, <1>3, <2>1, <2>3, <3>1
  <2>. QED  BY <2>2, <2>3
<1>. QED  BY <1>4, <1>5

LEMMA CommitEnds ==
  ASSUME MergeInv, NEW q \in Calls, MergeCommit(q)
  PROVE  EndsInv' /\ MergesEnd'
<1>. DEFINE w == call[q].winner
            l == call[q].loser
<1>1. /\ Merging(call[q]) /\ w \in Contacts /\ l \in Contacts /\ w # l
      /\ contact'[l].into = w /\ contact'[l].status = "deleted"
      /\ \A c \in Contacts \ {l} : contact'[c].into = contact[c].into /\ contact'[c].status = contact[c].status
  BY CommitContacts
<1>2. ~crossed' => ~crossed
  BY DEF MergeCommit
<1>3. ~crossed' => contact[w].into = Nil /\ contact'[w].into = Nil
  BY <1>1, <1>2 DEF MergeInv, EndsInv
<1>4. ~crossed' => \A p \in Calls : ~Merging(call'[p])
  <2>1. /\ call' = [call EXCEPT ![q] = Idle] /\ call \in [Calls -> Call]
        /\ ~crossed' => \A p \in Calls : Merging(call[p]) => p = q
    BY <1>1, <1>2 DEF MergeCommit, MergeInv, MergeTypeOK, EndsInv
  <2>. QED  BY <2>1, IdleFacts
<1>5. ~crossed' => \A c \in Contacts : contact'[c].status = "live" => contact'[c].into = Nil
  BY <1>1, <1>2 DEF MergeInv, EndsInv
<1>6. EndsInv'
  BY <1>4, <1>5 DEF EndsInv, Merging
<1>7. MergesEnd'
  <2>. SUFFICES ASSUME ~crossed', NEW S \in (SUBSET Contacts) \ {{}}
                PROVE  \E c \in S : contact'[c].into \notin S
    BY DEF MergesEnd
  <2>1. CASE w \in S
    <3>1. Nil \notin S
      BY MergeAssumption
    <3>. QED  BY <1>3, <2>1, <3>1
  <2>2. CASE w \notin S /\ l \in S
    BY <1>1, <2>2
  <2>3. CASE l \notin S
    <3>1. PICK c \in S : contact[c].into \notin S
      BY <1>2 DEF MergeInv, MergesEnd
    <3>. QED  BY <1>1, <2>3, <3>1
  <2>. QED  BY <2>1, <2>2, <2>3
<1>. QED  BY <1>6, <1>7

LEMMA MergeCommitKeeps ==
  ASSUME MergeInv, NEW q \in Calls, MergeCommit(q)
  PROVE  MergeInv'
<1>1. PlanFresh'
  <2>1. \A p \in Calls : since'[p] => call'[p] = Idle
    BY DEF MergeCommit, CommitsCall, MergeInv, MergeTypeOK
  <2>. QED  BY <2>1, IdleFacts DEF PlanFresh
<1>2. ChangesReplay'
  <2>1. \A c \in Contacts : contact'[c].status # "gone" => contact[c].status # "gone"
    BY CommitContacts DEF Exists
  <2>. QED  BY <2>1, CommitContacts DEF MergeInv, ChangesReplay, Exists
<1>. QED  BY <1>1, <1>2, CommitTypes, CommitCovers, CommitLeavesNothing, CommitEnds DEF MergeInv
-----------------------------------------------------------------------------
LEMMA MergeStays ==
  ASSUME MergeInv, UNCHANGED mergeVars
  PROVE  MergeInv'
<1>1. MergeTypeOK' /\ EndsInv' /\ MergesEnd' /\ ChangesReplay' /\ MergeLeavesNothing'
  BY DEF MergeInv, mergeVars, MergeTypeOK, EndsInv, MergesEnd, ChangesReplay, MergeLeavesNothing, Exists
<1>2. PlanFresh'
  <2>. SUFFICES ASSUME NEW q \in Calls, call'[q].step = "rewrite", since'[q]
                PROVE  (call[q].plan = PlanOf(call[q].winner, call[q].loser))'
    BY DEF PlanFresh
  <2>1. call'[q].plan = PlanOf(call'[q].winner, call'[q].loser)
    BY DEF MergeInv, mergeVars, PlanFresh
  <2>. QED  BY <2>1 DEF mergeVars, PlanOf, TargetPass, SourcePass, HasEdge
<1>3. \A q \in Calls : (CallOK(call[q]) /\ Covers(call[q]))'
  BY DEF MergeInv, mergeVars, CallOK, Covers, Merging
<1>. QED  BY <1>1, <1>2, <1>3 DEF MergeInv

\* Every step of the merges, the PATCHes and the routes beside them keeps what
\* the merges under way hold and what the merges done leave behind.
THEOREM MergeInvariance == MergeSpec => []MergeInv
<1>1. ASSUME MergeInv, MergeNext PROVE MergeInv'
  <2>1. ASSUME ReferenceRoutes PROVE MergeInv'
    BY <1>1, <2>1, ReferenceRoutesKeep
  <2>2. ASSUME ContactRoutes PROVE MergeInv'
    BY <1>1, <2>2, DeleteContactKeeps, PatchLoadKeeps, McpUpdateKeeps DEF ContactRoutes
  <2>3. ASSUME NEW q \in Calls, Merge(q) PROVE MergeInv'
    BY <1>1, <2>3, MergeLoadKeeps, MergeScanKeeps, MergeCommitKeeps DEF Merge
  <2>4. ASSUME NEW q \in Calls, PatchCommit(q) \/ Rollback(q) PROVE MergeInv'
    BY <1>1, <2>4, PatchCommitKeeps, RollbackKeeps
  <2>. QED  BY <1>1, <2>1, <2>2, <2>3, <2>4 DEF MergeNext
<1>2. MergeInv /\ [MergeNext]_mergeVars => MergeInv'
  BY <1>1, MergeStays
<1>. QED  BY <1>2, MergeInitial, PTL DEF MergeSpec

\* The tables, the jobs and the history keep their types.
THEOREM MergeTypes == MergeSpec => []MergeTypeOK
<1>1. MergeInv => MergeTypeOK
  BY DEF MergeInv
<1>. QED  BY <1>1, MergeInvariance, PTL

\* Nothing that a merge saw names the contact it retired: what still does was
\* attached during or after the merge (services/merge.py, _rewrite).
THEOREM LosersAreLeft == MergeSpec => []MergeLeavesNothing
<1>1. MergeInv => MergeLeavesNothing
  BY DEF MergeInv
<1>. QED  BY <1>1, MergeInvariance, PTL

\* Whatever contacts merges that do not overlap retire, one of them went into a
\* contact that is not of them: merged_into never leads round in a circle.
THEOREM MergeChainsEnd == MergeSpec => []MergesEnd
<1>1. MergeInv => MergesEnd
  BY DEF MergeInv
<1>. QED  BY <1>1, MergeInvariance, PTL

\* The changes that the events of PATCHes and merges name, replayed in commit
\* order, give the column, until an MCP tool writes it without telling.
THEOREM TimelineTellsTheRow == MergeSpec => []ChangesReplay
<1>1. MergeInv => ChangesReplay
  BY DEF MergeInv
<1>. QED  BY <1>1, MergeInvariance, PTL
-----------------------------------------------------------------------------
(***************************************************************************)
(* A merge nobody interferes with maps the graph.                          *)
(***************************************************************************)
\* What the plan of an edge says: nothing of one that does not name the loser;
\* to put the winner in the loser's place; or that a duplicate is there.
LEMMA PlanMeans ==
  ASSUME edge \in [Edges -> Pairs \cup {Nil}], NEW w \in Contacts, NEW l \in Contacts, w # l,
         NEW i \in Edges, edge[i] \in Pairs
  PROVE  LET do == TargetPass(w, l, i, SourcePass(w, l, i))
             s == edge[i][1]
             t == edge[i][2]
         IN  /\ ~do.del => /\ do.source = IF s = l THEN w ELSE Nil
                           /\ do.target = IF t = l THEN w ELSE Nil
             /\ do.del => \/ s = l /\ HasEdge(w, t)
                          \/ t = l /\ HasEdge(IF s = l THEN w ELSE s, w)
<1>. DEFINE first == SourcePass(w, l, i)
            s == edge[i][1]
            t == edge[i][2]
            from == IF s = l THEN w ELSE s
<1>1. w # Nil /\ edge[i] # Nil /\ s \in Contacts /\ t \in Contacts
      /\ Keep = [del |-> FALSE, source |-> Nil, target |-> Nil] /\ Keep \in EdgePlan
  BY MergeAssumption DEF Keep, EdgePlan, Pairs
<1>2. /\ first \in EdgePlan /\ first.target = Nil
      /\ ~first.del => first.source = IF s = l THEN w ELSE Nil
      /\ first.del => s = l /\ HasEdge(w, t)
  BY <1>1 DEF SourcePass, EdgePlan
<1>. HIDE DEF first
<1>. DEFINE do == TargetPass(w, l, i, first)
<1>3. ~first.del => (IF first.source = Nil THEN s ELSE first.source) = from
  BY <1>1, <1>2
<1>4. CASE first.del \/ t # l
  <2>1. do = first
    BY <1>1, <1>4 DEF TargetPass
  <2>2. ~first.del => t # l
    BY <1>4
  <2>. HIDE DEF do
  <2>. QED  BY <1>2, <2>1, <2>2 DEF first, do
<1>5. CASE ~first.del /\ t = l
  <2>1. do = IF HasEdge(from, w) THEN [first EXCEPT !.del = TRUE] ELSE [first EXCEPT !.target = w]
    BY <1>1, <1>3, <1>5 DEF TargetPass
  <2>. HIDE DEF do
  <2>2. /\ do.del => HasEdge(from, w)
        /\ ~do.del => do.target = w /\ do.source = first.source
    BY <1>2, <1>5, <2>1 DEF EdgePlan
  <2>. QED  BY <1>2, <1>5, <2>2 DEF first, do
<1>. QED  BY <1>4, <1>5

Mapped(pair, w, l) == <<IF pair[1] = l THEN w ELSE pair[1], IF pair[2] = l THEN w ELSE pair[2]>>

LEMMA FreshMergeMaps ==
  ASSUME MergeInv, NEW q \in Calls, MergeCommit(q), since[q]
  PROVE  PairsOf(edge') = Image(PairsOf(edge), call[q].winner, call[q].loser)
<1>. DEFINE job == call[q]
            w == job.winner
            l == job.loser
<1>1. /\ w \in Contacts /\ l \in Contacts /\ w # l /\ job.plan = PlanOf(w, l) /\ Nil \notin Pairs
      /\ edge \in [Edges -> Pairs \cup {Nil}] /\ w # Nil
  BY CommitContacts, MergeAssumption DEF MergeInv, MergeTypeOK, PlanFresh
<1>2. edge' = [i \in Edges |->
           IF edge[i] = Nil \/ job.plan[i].del THEN Nil
           ELSE << IF job.plan[i].source = Nil THEN edge[i][1] ELSE job.plan[i].source,
                   IF job.plan[i].target = Nil THEN edge[i][2] ELSE job.plan[i].target >>]
  BY DEF MergeCommit, EdgesAfter
<1>. HIDE DEF w, l, job
<1>3. ASSUME NEW i \in Edges, edge[i] # Nil
      PROVE  /\ edge[i] \in Pairs
             /\ ~job.plan[i].del => edge'[i] = Mapped(edge[i], w, l)
             /\ job.plan[i].del => edge'[i] = Nil
             /\ job.plan[i].del => \/ edge[i][1] = l /\ HasEdge(w, edge[i][2])
                                   \/ edge[i][2] = l /\ HasEdge(IF edge[i][1] = l THEN w ELSE edge[i][1], w)
  <2>1. edge[i] \in Pairs
    BY <1>1, <1>3
  <2>2. job.plan[i] = TargetPass(w, l, i, SourcePass(w, l, i))
    BY <1>1 DEF PlanOf
  <2>3. /\ ~job.plan[i].del => /\ job.plan[i].source = IF edge[i][1] = l THEN w ELSE Nil
                               /\ job.plan[i].target = IF edge[i][2] = l THEN w ELSE Nil
        /\ job.plan[i].del => \/ edge[i][1] = l /\ HasEdge(w, edge[i][2])
                              \/ edge[i][2] = l /\ HasEdge(IF edge[i][1] = l THEN w ELSE edge[i][1], w)
    BY <1>1, <2>1, <2>2, PlanMeans
  <2>4. job.plan[i].del => edge'[i] = Nil
    BY <1>2
  <2>5. ~job.plan[i].del => edge'[i] = Mapped(edge[i], w, l)
    BY <1>1, <1>2, <1>3, <2>3 DEF Mapped
  <2>. QED  BY <2>1, <2>3, <2>4, <2>5
<1>4. \A i \in Edges : edge[i] = Nil => edge'[i] = Nil
  BY <1>2
<1>5. \A pair \in Pairs : Mapped(pair, w, l) \in Pairs /\ Mapped(pair, w, l) # Nil
  BY <1>1 DEF Mapped, Pairs
\* An edge that names neither the loser as source nor as target stays.
<1>6. ASSUME NEW a \in Contacts \ {l}, NEW b \in Contacts \ {l}, HasEdge(a, b)
      PROVE  \E k \in Edges : edge'[k] = <<a, b>>
  <2>1. PICK k \in Edges : edge[k] = <<a, b>>
    BY <1>6 DEF HasEdge
  <2>2. edge[k] \in Pairs /\ edge[k][1] # l /\ edge[k][2] # l /\ Mapped(edge[k], w, l) = <<a, b>>
    BY <2>1 DEF Pairs, Mapped
  <2>3. edge[k] # Nil
    BY <1>1, <2>2
  <2>. QED  BY <1>3, <2>2, <2>3
<1>7. ASSUME NEW i \in Edges, edge[i] # Nil
      PROVE  \E k \in Edges : edge'[k] = Mapped(edge[i], w, l)
  <2>1. CASE ~job.plan[i].del
    BY <1>3, <1>7, <2>1
  <2>2. ASSUME edge[i][1] # l \/ ~HasEdge(w, edge[i][2]), job.plan[i].del
        PROVE  \E k \in Edges : edge'[k] = Mapped(edge[i], w, l)
    <3>. DEFINE a == IF edge[i][1] = l THEN w ELSE edge[i][1]
    <3>1. a \in Contacts \ {l} /\ HasEdge(a, w) /\ Mapped(edge[i], w, l) = <<a, w>>
      BY <1>1, <1>3, <1>7, <2>2 DEF Mapped, Pairs
    <3>. QED  BY <1>1, <1>6, <3>1
  <2>3. CASE job.plan[i].del /\ edge[i][1] = l /\ edge[i][2] # l /\ HasEdge(w, edge[i][2])
    <3>. DEFINE b == edge[i][2]
    <3>1. b \in Contacts \ {l} /\ Mapped(edge[i], w, l) = <<w, b>>
      BY <1>3, <1>7, <2>3 DEF Mapped, Pairs
    <3>. QED  BY <1>1, <1>6, <2>3, <3>1
  <2>4. CASE job.plan[i].del /\ edge[i][1] = l /\ edge[i][2] = l /\ HasEdge(w, edge[i][2])
    <3>1. PICK j \in Edges : edge[j] = <<w, l>>
      BY <2>4 DEF HasEdge
    <3>2. edge[j] # Nil /\ edge[j][1] = w /\ edge[j][2] = l /\ edge[j] \in Pairs
      BY <1>1, <3>1 DEF Pairs
    <3>3. Mapped(edge[j], w, l) = <<w, w>> /\ Mapped(edge[i], w, l) = <<w, w>>
      BY <1>1, <2>4, <3>2 DEF Mapped
    <3>4. job.plan[j].del => HasEdge(w, w)
      BY <1>1, <1>3, <3>2
    <3>5. ~job.plan[j].del => edge'[j] = <<w, w>>
      BY <1>3, <3>2, <3>3
    <3>. QED  BY <1>1, <1>6, <3>3, <3>4, <3>5
  <2>. QED  BY <2>1, <2>2, <2>3, <2>4
<1>8. PairsOf(edge) = {pair \in Pairs : \E i \in Edges : edge[i] = pair}
  BY <1>1 DEF PairsOf
<1>9. PairsOf(edge') = {pair \in Pairs : \E i \in Edges : edge'[i] = pair}
  BY <1>1, CommitRoutes DEF PairsOf
<1>10. Image(PairsOf(edge), w, l) = {Mapped(pair, w, l) : pair \in PairsOf(edge)}
  BY DEF Image, Mapped
<1>11. ASSUME NEW pair \in PairsOf(edge') PROVE pair \in Image(PairsOf(edge), w, l)
  <2>1. PICK i \in Edges : edge'[i] = pair /\ pair \in Pairs
    BY <1>9
  <2>2. edge[i] # Nil /\ pair # Nil
    BY <1>1, <1>4, <2>1
  <2>3. pair = Mapped(edge[i], w, l) /\ edge[i] \in PairsOf(edge)
    BY <1>3, <1>8, <2>1, <2>2
  <2>. QED  BY <1>10, <2>3
<1>12. ASSUME NEW pair \in Image(PairsOf(edge), w, l) PROVE pair \in PairsOf(edge')
  <2>1. PICK old \in PairsOf(edge) : pair = Mapped(old, w, l)
    BY <1>10
  <2>2. PICK i \in Edges : edge[i] = old /\ old \in Pairs
    BY <1>8
  <2>3. edge[i] # Nil
    BY <1>1, <2>2
  <2>4. PICK k \in Edges : edge'[k] = pair
    BY <1>7, <2>1, <2>2, <2>3
  <2>. QED  BY <1>5, <1>9, <2>1, <2>2, <2>4
<1>. QED  BY <1>11, <1>12 DEF w, l, job

\* A merge that commits with nothing committed since it read its edges leaves
\* the graph as it was, with the loser replaced by the winner: no edge is lost,
\* and none is doubled (services/merge.py, the two passes of _rewrite).
THEOREM MergeIsAMap == MergeSpec => MergeMapsGraph
<1>1. MergeInv => \A q \in Calls : MergeCommit(q) /\ since[q] =>
        PairsOf(edge') = Image(PairsOf(edge), call[q].winner, call[q].loser)
  BY FreshMergeMaps
<1>. QED  BY <1>1, MergeInvariance, PTL DEF MergeMapsGraph
=============================================================================
