---------------------------- MODULE ContactMerge ----------------------------
(***************************************************************************)
(* Contacts of the legacy service and everything that refers to them by    *)
(* id: POST /contacts/merge (services/merge.py) beside the routes that     *)
(* create, patch and delete contacts, deals, notes, tasks, activities,     *)
(* files, relationships and memory links, and the MCP tools that do the    *)
(* same (mcp_server.py).                                                   *)
(*                                                                         *)
(* A request is one READ COMMITTED transaction.  Sessions do not           *)
(* autoflush: a request reads, changes its objects, and what it changed is *)
(* written at the commit, column by column where it differs from what the  *)
(* request had read.  Requests that read nothing they depend on are single *)
(* steps; a merge and a PATCH of a contact read first and write later.     *)
(***************************************************************************)
EXTENDS FiniteSets, Naturals

CONSTANTS
  Contacts,  \* ids of contacts
  Children,  \* ids of notes, tasks, activities and files: (entity_type, entity_id)
  Deals,     \* ids of deals: primary_contact_id, a foreign key
  Edges,     \* ids of relationships, of one relation_type
  Links,     \* ids of memory_links, of one connector and external_id
  Titles,    \* values of a column of a contact, here `title`
  Calls,     \* merges and PATCHes of contacts in flight at once
  Seeds,     \* contents the tables may start with
  MaxCalls,  \* bound on the requests of a run
  Nil

Pairs == Contacts \X Contacts
Columns == Titles \cup {Nil}
ContactRow == [status : {"live", "deleted", "gone"}, title : Columns,
               into : Contacts \cup {Nil}]
RefIds == Children \cup Deals \cup Links
Tables == [contact : [Contacts -> ContactRow],
           ref : [RefIds -> Contacts \cup {Nil}],
           edge : [Edges -> Pairs \cup {Nil}]]

\* A run starts before the first merge.
ASSUME MergeAssumption ==
  /\ Seeds \subseteq Tables
  /\ \A s \in Seeds, c \in Contacts : s.contact[c].into = Nil
  /\ MaxCalls \in Nat
  /\ Nil \notin Contacts \cup Titles \cup Pairs

VARIABLES
  contact,  \* the contacts table; `into`: the winner of the merge that retired it
  ref,      \* the contact a child, deal or memory link names; Nil: no row, or NULL
  edge,     \* the relationships table, source and target of each row
  call,     \* the transaction of each merge or PATCH under way
  count,    \* requests so far
  told,     \* the title the timeline tells, by the changes of its events (history)
  missed,   \* references made to a contact during or after its merge    (history)
  crossed,  \* two merges have overlapped, or a contact was revived      (history)
  since     \* since[q]: nothing was committed since q last read         (history)

mergeVars == <<contact, ref, edge, call, count, told, missed, crossed, since>>

\* What a merge makes of a relationship: the columns it sets, or its deletion.
EdgePlan == [del : BOOLEAN, source : Contacts \cup {Nil}, target : Contacts \cup {Nil}]
Call == [step : {"idle", "patch", "merge", "rewrite"},
         winner : Contacts \cup {Nil}, loser : Contacts \cup {Nil},
         value : Columns, prefer : {"default", "winner", "loser"},
         seen : [Contacts -> Columns],
         refs : SUBSET RefIds, dups : SUBSET RefIds, plan : [Edges -> EdgePlan]]

Keep == [del |-> FALSE, source |-> Nil, target |-> Nil]
Idle == [step |-> "idle", winner |-> Nil, loser |-> Nil, value |-> Nil,
         prefer |-> "default", seen |-> [c \in Contacts |-> Nil],
         refs |-> {}, dups |-> {}, plan |-> [i \in Edges |-> Keep]]

Unknown == "unknown"
Exists(c) == contact[c].status # "gone"

MergeInit ==
  /\ \E s \in Seeds : contact = s.contact /\ ref = s.ref /\ edge = s.edge
  /\ call = [q \in Calls |-> Idle]
  /\ count = 0
  /\ told = [c \in Contacts |-> contact[c].title]
  /\ missed = {}
  /\ crossed = FALSE
  /\ since = [q \in Calls |-> TRUE]

Begins ==
  /\ count < MaxCalls
  /\ count' = count + 1

\* A commit is seen by the other transactions only if they read again.
Commits == since' = [q \in Calls |-> FALSE]
CommitsCall(q) == since' = [p \in Calls |-> p = q]

\* A merge away from c is under way and has read what refers to c.
Leaving(c) == \E q \in Calls : call[q].step = "rewrite" /\ call[q].loser = c
Missed(c) == contact[c].into # Nil \/ Leaving(c)
Refers(x, c) == missed' = IF Missed(c) THEN missed \cup {x} ELSE missed

-----------------------------------------------------------------------------
(* What refers to contacts.                                                *)

\* POST of a note, task, activity or file names any id: nothing checks it.
CreateChild(x, c) ==
  /\ Begins /\ ref[x] = Nil
  /\ ref' = [ref EXCEPT ![x] = c]
  /\ Refers(x, c) /\ Commits
  /\ UNCHANGED <<contact, edge, call, told, crossed>>

DeleteChild(x) ==
  /\ Begins /\ ref[x] # Nil
  /\ ref' = [ref EXCEPT ![x] = Nil]
  /\ Commits
  /\ UNCHANGED <<contact, edge, call, told, missed, crossed>>

\* POST or PATCH of a deal; the foreign key wants a row, deleted_at or not.
SetPrimaryContact(d, c) ==
  /\ Begins /\ Exists(c)
  /\ ref' = [ref EXCEPT ![d] = c]
  /\ Refers(d, c) /\ Commits
  /\ UNCHANGED <<contact, edge, call, told, crossed>>

\* POST /memory/link, or the mirror of an event to a connector.
CreateLink(k, c) ==
  /\ Begins /\ ref[k] = Nil
  /\ \A j \in Links : ref[j] # c
  /\ ref' = [ref EXCEPT ![k] = c]
  /\ Refers(k, c) /\ Commits
  /\ UNCHANGED <<contact, edge, call, told, crossed>>

\* The unique constraint answers 409 to a second edge.
CreateRelationship(i, pair) ==
  /\ Begins /\ edge[i] = Nil
  /\ \A j \in Edges : edge[j] # pair
  /\ edge' = [edge EXCEPT ![i] = pair]
  /\ missed' = IF Missed(pair[1]) \/ Missed(pair[2]) THEN missed \cup {i} ELSE missed
  /\ Commits
  /\ UNCHANGED <<contact, ref, call, told, crossed>>

DeleteRelationship(i) ==
  /\ Begins /\ edge[i] # Nil
  /\ edge' = [edge EXCEPT ![i] = Nil]
  /\ Commits
  /\ UNCHANGED <<contact, ref, call, told, missed, crossed>>

-----------------------------------------------------------------------------
(* Contacts.                                                               *)

\* PATCH loads the row, deleted or not, and sets the columns of its body.
PatchLoad(q, c, v) ==
  /\ Begins /\ call[q].step = "idle" /\ Exists(c)
  /\ call' = [call EXCEPT ![q] = [Idle EXCEPT !.step = "patch", !.winner = c, !.value = v,
                                              !.seen[c] = contact[c].title]]
  /\ since' = [since EXCEPT ![q] = TRUE]
  /\ UNCHANGED <<contact, ref, edge, told, missed, crossed>>

\* Mutant of Told: the event names every column of the body.
ToldAll(was, is) == TRUE

\* compute_changes: the event names a column whose value is another.
Told(was, is) == was # is

\* The UPDATE writes what differs from the value loaded, and needs the row then.
PatchCommit(q) ==
  LET c == call[q].winner
      v == call[q].value
      was == call[q].seen[c]
  IN
  /\ call[q].step = "patch"
  /\ v # was => Exists(c)
  /\ contact' = IF v # was THEN [contact EXCEPT ![c].title = v] ELSE contact
  /\ told' = IF Told(was, v) THEN [told EXCEPT ![c] = v] ELSE told
  /\ call' = [call EXCEPT ![q] = Idle]
  /\ CommitsCall(q)
  /\ UNCHANGED <<ref, edge, count, missed, crossed>>

\* The MCP tool sets any column and names, on the timeline, only its keys.
McpUpdate(c, v, revive) ==
  /\ Begins /\ Exists(c)
  /\ contact' = [contact EXCEPT ![c].title = v,
                                ![c].status = IF revive THEN "live" ELSE @]
  /\ told' = [told EXCEPT ![c] = Unknown]
  /\ crossed' = (crossed \/ revive)
  /\ Commits
  /\ UNCHANGED <<ref, edge, call, missed>>

\* hard: the deals' foreign keys are SET NULL, the rest keeps the id.
DeleteContact(c, hard) ==
  /\ Begins /\ Exists(c)
  /\ contact' = [contact EXCEPT ![c].status = IF hard THEN "gone" ELSE "deleted"]
  /\ ref' = [x \in RefIds |-> IF hard /\ x \in Deals /\ ref[x] = c THEN Nil ELSE ref[x]]
  /\ Commits
  /\ UNCHANGED <<edge, call, told, missed, crossed>>

-----------------------------------------------------------------------------
(* The merge.                                                              *)

Others(q) == {p \in Calls \ {q} : call[p].step \in {"merge", "rewrite"}}

\* Mutant of Mergeable: the rows are only looked up.
MergeableRows(w, l) == w # l /\ Exists(w) /\ Exists(l)

Mergeable(w, l) == w # l /\ contact[w].status = "live" /\ contact[l].status = "live"

MergeLoad(q, w, l, prefer) ==
  /\ Begins /\ call[q].step = "idle"
  /\ Mergeable(w, l)
  /\ call' = [call EXCEPT ![q] = [Idle EXCEPT !.step = "merge", !.winner = w, !.loser = l,
                !.prefer = prefer, !.seen = [c \in Contacts |-> contact[c].title]]]
  /\ crossed' = (crossed \/ Others(q) # {})
  /\ UNCHANGED <<contact, ref, edge, told, missed, since>>

HasEdge(s, t) == \E i \in Edges : edge[i] = <<s, t>>

\* The two passes over the loser's edges, as source and as target.  Both look
\* for a duplicate in the database, where the first pass has changed nothing;
\* the second sees the source the first has set on the object.
SourcePass(w, l, i) ==
  IF edge[i] # Nil /\ edge[i][1] = l
    THEN IF HasEdge(w, edge[i][2]) THEN [Keep EXCEPT !.del = TRUE]
                                   ELSE [Keep EXCEPT !.source = w]
    ELSE Keep

\* Mutant of TargetPass: the duplicate is looked for without its source.
TargetPassAnySource(w, l, i, first) ==
  IF edge[i] # Nil /\ edge[i][2] = l /\ ~first.del
    THEN IF \E s \in Contacts : HasEdge(s, w) THEN [first EXCEPT !.del = TRUE]
                                              ELSE [first EXCEPT !.target = w]
    ELSE first

TargetPass(w, l, i, first) ==
  IF edge[i] # Nil /\ edge[i][2] = l /\ ~first.del
    THEN LET s == IF first.source = Nil THEN edge[i][1] ELSE first.source IN
         IF HasEdge(s, w) THEN [first EXCEPT !.del = TRUE] ELSE [first EXCEPT !.target = w]
    ELSE first

\* Mutant of Rewritten: the memory links are forgotten.
RewrittenRows(l) == {x \in Children \cup Deals : ref[x] = l}

Rewritten(l) == {x \in RefIds : ref[x] = l}

\* _rewrite: its SELECTs, which follow one another, are one step here.
MergeScan(q) ==
  LET w == call[q].winner
      l == call[q].loser
  IN
  /\ call[q].step = "merge"
  /\ call' = [call EXCEPT ![q].step = "rewrite",
       ![q].refs = Rewritten(l),
       ![q].dups = {k \in Links : ref[k] = l /\ \E j \in Links : ref[j] = w},
       ![q].plan = [i \in Edges |-> TargetPass(w, l, i, SourcePass(w, l, i))]]
  /\ since' = [since EXCEPT ![q] = TRUE]
  /\ UNCHANGED <<contact, ref, edge, count, told, missed, crossed>>

\* Relationships after the flush; a row deleted meanwhile stays so.
EdgesAfter(q) ==
  [i \in Edges |->
     LET do == call[q].plan[i] IN
     IF edge[i] = Nil \/ do.del THEN Nil
     ELSE << IF do.source = Nil THEN edge[i][1] ELSE do.source,
             IF do.target = Nil THEN edge[i][2] ELSE do.target >>]

RefsAfter(q) ==
  [x \in RefIds |-> IF x \in call[q].dups THEN Nil
                 ELSE IF x \in call[q].refs THEN call[q].winner ELSE ref[x]]

Distinct(f, S) == \A i, j \in S : f[i] = f[j] /\ f[i] # Nil => i = j

\* The flush finds the rows it updates, and breaks no constraint.
Flushable(q) ==
  /\ Exists(call[q].winner) /\ Exists(call[q].loser)
  /\ \A x \in call[q].refs \ call[q].dups : ref[x] # Nil \/ x \in Deals
  /\ \A i \in Edges : edge[i] = Nil => call[q].plan[i] = Keep \/ call[q].plan[i].del
  /\ Distinct(EdgesAfter(q), Edges) /\ Distinct(RefsAfter(q), Links)

\* _merge_scalar, from the values loaded.
MergedTitle(q) ==
  LET own == call[q].seen[call[q].winner]
      other == call[q].seen[call[q].loser]
  IN IF call[q].prefer = "loser" \/ (call[q].prefer = "default" /\ own = Nil)
       THEN other ELSE own

MergeCommit(q) ==
  LET w == call[q].winner
      l == call[q].loser
      title == MergedTitle(q)
      was == call[q].seen[w]
      moved == (call[q].refs \ call[q].dups) \cup {i \in Edges : call[q].plan[i] # Keep}
  IN
  /\ call[q].step = "rewrite"
  /\ Flushable(q)
  /\ contact' = [contact EXCEPT ![l].status = "deleted", ![l].into = w,
                                ![w].title = IF title # was THEN title ELSE @]
  /\ told' = IF Told(was, title) THEN [told EXCEPT ![w] = title] ELSE told
  /\ ref' = RefsAfter(q)
  /\ edge' = EdgesAfter(q)
  /\ missed' = IF contact[w].into # Nil \/ \E p \in Others(q) : call[p].loser = w
                 THEN missed \cup moved ELSE missed
  /\ crossed' = (crossed \/ Others(q) # {})
  /\ call' = [call EXCEPT ![q] = Idle]
  /\ CommitsCall(q)
  /\ UNCHANGED count

\* A row is gone or a constraint refuses, a dry run, or the process dies.
Rollback(q) ==
  /\ call[q].step # "idle"
  /\ call' = [call EXCEPT ![q] = Idle]
  /\ UNCHANGED <<contact, ref, edge, count, told, missed, crossed, since>>
-----------------------------------------------------------------------------
ReferenceRoutes ==
  \/ \E c \in Contacts :
       \/ \E x \in Children : CreateChild(x, c)
       \/ \E d \in Deals : SetPrimaryContact(d, c)
       \/ \E k \in Links : CreateLink(k, c)
  \/ \E x \in RefIds \ Deals : DeleteChild(x)
  \/ \E i \in Edges : DeleteRelationship(i) \/ \E pair \in Pairs : CreateRelationship(i, pair)

ContactRoutes ==
  \E c \in Contacts :
    \/ \E hard \in BOOLEAN : DeleteContact(c, hard)
    \/ \E v \in Columns :
         \/ \E q \in Calls : PatchLoad(q, c, v)
         \/ \E revive \in BOOLEAN : McpUpdate(c, v, revive)

Merge(q) ==
  \/ \E w, l \in Contacts, prefer \in {"default", "winner", "loser"} : MergeLoad(q, w, l, prefer)
  \/ MergeScan(q) \/ MergeCommit(q)

MergeNext ==
  \/ ReferenceRoutes
  \/ ContactRoutes
  \/ \E q \in Calls : Merge(q) \/ PatchCommit(q) \/ Rollback(q)

MergeSpec == MergeInit /\ [][MergeNext]_mergeVars
-----------------------------------------------------------------------------
(* Properties.                                                             *)

MergeTypeOK ==
  /\ contact \in [Contacts -> ContactRow]
  /\ ref \in [RefIds -> Contacts \cup {Nil}]
  /\ edge \in [Edges -> Pairs \cup {Nil}]
  /\ call \in [Calls -> Call]
  /\ count \in 0..MaxCalls
  /\ told \in [Contacts -> Columns \cup {Unknown}]
  /\ missed \subseteq RefIds \cup Edges
  /\ crossed \in BOOLEAN
  /\ since \in [Calls -> BOOLEAN]

\* "Every reference to the loser is rewritten to the winner": what still names
\* a contact that was merged away was attached to it during or after the merge.
MergeLeavesNothing ==
  \A c \in Contacts : contact[c].into # Nil =>
    /\ \A x \in RefIds : ref[x] = c => x \in missed
    /\ \A i \in Edges : edge[i] # Nil /\ c \in {edge[i][1], edge[i][2]} => i \in missed

\* Merges that do not overlap keep a contact: of any contacts that were merged away
\* one went into a contact that is not of them, so no chain of merges comes back.
MergesEnd ==
  ~crossed => \A S \in (SUBSET Contacts) \ {{}} : \E c \in S : contact[c].into \notin S

\* The changes of the timeline's events, replayed in the order of the commits,
\* give the row, whatever PATCHes and merges overlap.
ChangesReplay == \A c \in Contacts : Exists(c) => told[c] \in {contact[c].title, Unknown}

\* A merge nobody interferes with maps the graph: its edges are then those it
\* was before, with the loser replaced by the winner.
PairsOf(f) == {f[i] : i \in Edges} \ {Nil}
Image(P, w, l) ==
  {<<IF p[1] = l THEN w ELSE p[1], IF p[2] = l THEN w ELSE p[2]>> : p \in P}
MergeMapsGraph ==
  [][\A q \in Calls : MergeCommit(q) /\ since[q] =>
       PairsOf(edge') = Image(PairsOf(edge), call[q].winner, call[q].loser)]_mergeVars
=============================================================================
