------------------------------ MODULE BulkLoad ------------------------------
(***************************************************************************)
(* Rows of the legacy service that arrive in bulk: GET /export and POST    *)
(* /import (services/export.py, services/importer.py), POST /ingest and    *)
(* the MCP tool (services/ingest), and the bulk_upsert of contacts and     *)
(* companies, beside the routes that create one contact or relationship.   *)
(*                                                                         *)
(* A load is one READ COMMITTED transaction.  Row by row it looks for a    *)
(* match in the database, then changes the matched object or adds one; the *)
(* session does not autoflush, so a change is invisible to the lookups     *)
(* that follow until something flushes it.                                 *)
(***************************************************************************)
EXTENDS FiniteSets, Naturals, Sequences, SequencesExt

CONSTANTS
  Workspaces,
  Ids,        \* UUIDs; a bound on the rows of a run where it is finite
  Keys,       \* external ids, and the emails, domains, slugs, ... of `alt`
  Values,     \* what a row says besides
  Loads,      \* transactions in flight at once
  Seeds,      \* contents the database may start with
  Payloads,   \* the bodies of ingests and bulk upserts
  Source,     \* the workspace that is exported
  MaxCalls,   \* bound on the requests of a run
  Nil

Columns == {"ext", "alt", "val", "up", "a", "b"}

\* The place of each table in apply_import, and among the SELECTs of build_export.
Sections == [field |-> 1, pipeline |-> 2, stage |-> 3, company |-> 4, contact |-> 5, deal |-> 6,
             activity |-> 7, note |-> 8, task |-> 9, edge |-> 10, hook |-> 11, link |-> 12,
             file |-> 13]
Exported == [field |-> 1, contact |-> 2, company |-> 3, deal |-> 4, activity |-> 5, note |-> 6,
             task |-> 7, edge |-> 8, link |-> 9, file |-> 10, pipeline |-> 11, stage |-> 12,
             hook |-> 13]
Tabs == DOMAIN Sections

\* up: the company of a contact, the pipeline of a stage, the stage of a deal;
\* a: the contact of a deal, what a child, link or edge starts from; b: its end; rest: what
\* an export writes too but no key list of the importer names, such as the deleted_at of a
\* row or the author of a note.
Row == [id : Ids, ws : Workspaces, tab : Tabs, ext : Keys \cup {Nil},
        alt : Keys \cup {Nil}, val : Values \cup {Nil}, up : Ids \cup {Nil},
        a : Ids \cup {Nil}, b : Ids \cup {Nil}, rest : Values \cup {Nil}]

Refs == {"up", "a", "b"}

\* Tables whose rows enter the id map, and are flushed when they are added.
Mapped == {"pipeline", "stage", "company", "contact", "deal"}

\* What the unique constraints compare; a NULL is like no other value.
KeyColumns(t) ==
  CASE t \in {"company", "contact", "deal", "activity", "task"} -> {"ws", "ext"}
    [] t \in {"pipeline", "field"} -> {"ws", "alt"}
    [] t = "stage" -> {"up", "alt"}
    [] t = "edge"  -> {"ws", "a", "b"}
    [] t = "link"  -> {"ws", "ext", "a"}
    [] OTHER -> {"id"}
Clash(r, s) ==
  r.id # s.id /\ r.tab = s.tab /\ \A c \in KeyColumns(r.tab) : r[c] = s[c] /\ r[c] # Nil

\* Columns that are NOT NULL, of those the lookups compare.
Required(t) ==
  CASE t \in {"pipeline", "field", "hook"} -> {"alt"}
    [] t = "stage" -> {"up", "alt"}
    [] t = "edge"  -> {"a", "b"}
    [] t = "link"  -> {"ext", "a"}
    [] OTHER -> {}

\* What r refers to is in S; if it enters the id map then by an earlier section, and, with
\* `inside`, it is of r's workspace.
Linked(S, r, inside) ==
  \A c \in Refs : r[c] # Nil =>
    \E s \in S : /\ s.id = r[c]
                 /\ s.tab \in Mapped => Sections[s.tab] < Sections[r.tab] /\ (inside => s.ws = r.ws)

\* A row of the body of an ingest or a bulk upsert; has: the columns it names.
Item == [tab : {"company", "contact"}, ext : Keys \cup {Nil}, alt : Keys \cup {Nil},
         val : Values \cup {Nil}, up : {Nil}, a : {Nil}, b : {Nil},
         has : SUBSET {"ext", "alt", "val"}]

ASSUME BulkAssumption ==
  /\ \A s \in Seeds :
       /\ s \subseteq Row /\ IsFiniteSet(s)
       /\ \A r, t \in s : (r.id = t.id => r = t) /\ ~Clash(r, t)
       /\ \A r \in s : Linked(s, r, TRUE) /\ \A c \in Required(r.tab) : r[c] # Nil
  /\ \A p \in Payloads :
       /\ p \in [Tabs -> Seq(Item)]
       /\ \A t \in Tabs : \A r \in Range(p[t]) :
            r.tab = t /\ \A c \in {"ext", "alt", "val"} : r[c] # Nil => c \in r.has
  /\ Source \in Workspaces /\ MaxCalls \in Nat
  /\ Nil \notin Workspaces \cup Keys \cup Values \cup Ids
  \* The ids are UUIDs of the server, never an external id: `_copy_fields` would translate it.
  /\ Keys \cap Ids = {}

VARIABLES
  rows,   \* the committed rows of all tables
  doc,    \* the last export: for each table, its rows in the order of its SELECT
  torn,   \* something was committed to its workspace while it was read  (history)
  load,   \* the transaction of each import, ingest, upsert or export
  count,  \* requests so far
  last    \* the last commit, when it was a load nobody else overlapped  (history)

bulkVars == <<rows, doc, torn, load, count, last>>

\* kind to looked: the transaction; left, out: the tables an export has yet to read and
\* what it read; the rest is history: no commit since it began, the workspace was empty
\* then, each row so far had an object of its own, it repeats the last commit, and whether
\* that one was fresh (an import) or apart (the others).
Empty == [t \in Tabs |-> <<>>]
NoLoad == [kind |-> "idle", ws |-> Nil, what |-> Empty, todo |-> Empty, objs |-> {},
           map |-> <<>>, hit |-> Nil, looked |-> FALSE, left |-> {}, out |-> Empty,
           alone |-> TRUE, fresh |-> FALSE, apart |-> TRUE, again |-> FALSE, was |-> FALSE]

\* An object of a session: as loaded, as last flushed, as it is; new: not loaded.
Object(base, was, row, new, flushed) ==
  [base |-> base, was |-> was, row |-> row, new |-> new, flushed |-> flushed]

BulkInit ==
  /\ rows \in Seeds
  /\ doc = Empty
  /\ torn = FALSE
  /\ load = [q \in Loads |-> NoLoad]
  /\ count = 0
  /\ last = Nil

Of(w, t) == {r \in rows : r.ws = w /\ r.tab = t}

Begins ==
  /\ count < MaxCalls
  /\ count' = count + 1

-----------------------------------------------------------------------------
(* What a transaction sees, and what its flush may do.                     *)

\* An UPDATE writes the columns that differ from those loaded.
Patched(base, new, row) ==
  [c \in DOMAIN row |-> IF c \in Columns /\ new[c] # base[c] THEN new[c] ELSE row[c]]

IdsOf(objs) == {o.row.id : o \in objs}

\* The committed rows with what the session has flushed.
View(objs) ==
  {r \in rows : r.id \notin IdsOf(objs)}
    \cup {IF o.new THEN o.was ELSE Patched(o.base, o.was, CHOOSE r \in rows : r.id = o.row.id) :
            o \in {p \in objs : p.flushed \/ ~p.new}}

Flushed(objs) == {[o EXCEPT !.was = o.row, !.flushed = TRUE] : o \in objs}
Dirty(objs) == {o \in objs : ~o.flushed \/ o.was # o.row}

\* The flush waits for a transaction that holds the row or the key.
Waits(q, objs) ==
  \E p \in Loads \ {q} : \E o \in Dirty(objs), h \in load[p].objs :
    /\ h.flushed /\ h.was # h.base
    /\ h.was.id = o.row.id \/ Clash(h.was, o.row)

Breaks(objs) == \E r, s \in View(Flushed(objs)) : Clash(r, s)

Used == UNION ({{r.id : r \in rows}} \cup {IdsOf(load[q].objs) : q \in Loads})
FreshIds == Ids \ Used
NewId == CHOOSE i \in FreshIds : TRUE

-----------------------------------------------------------------------------
(* The lookups of the importer, one per table.  v: the rows of its         *)
(* workspace it sees; r: the row of the document, its references rewritten. *)

Named(v, r) == {s \in v : s.alt = r.alt}
CustomFields(v, r) == Named(v, r)
Pipelines(v, r) == Named(v, r)
Stages(v, r) == {s \in v : s.up = r.up /\ s.alt = r.alt}

ByExternalIdOr(v, r, fallback) ==
  LET hits == IF r.ext # Nil THEN {s \in v : s.ext = r.ext} ELSE {} IN
  IF hits # {} THEN hits
  ELSE IF fallback /\ r.alt # Nil THEN Named(v, r) ELSE {}

Companies(v, r) == ByExternalIdOr(v, r, TRUE)
Contacts(v, r) == ByExternalIdOr(v, r, TRUE)
Deals(v, r) == ByExternalIdOr(v, r, FALSE)
Activities(v, r) == ByExternalIdOr(v, r, FALSE)
Tasks(v, r) == ByExternalIdOr(v, r, FALSE)
Notes(v, r) == {s \in v : s.a = r.a /\ s.val = r.val}
Relationships(v, r) == {s \in v : s.a = r.a /\ s.b = r.b}
Webhooks(v, r) == Named(v, r)
MemoryLinks(v, r) == {s \in v : s.ext = r.ext /\ s.a = r.a}
Files(v, r) == IF r.alt # Nil THEN Named(v, r) ELSE {}

Matches(v, r) ==
  CASE r.tab = "field"    -> CustomFields(v, r)
    [] r.tab = "pipeline" -> Pipelines(v, r)
    [] r.tab = "stage"    -> Stages(v, r)
    [] r.tab = "company"  -> Companies(v, r)
    [] r.tab = "contact"  -> Contacts(v, r)
    [] r.tab = "deal"     -> Deals(v, r)
    [] r.tab = "activity" -> Activities(v, r)
    [] r.tab = "note"     -> Notes(v, r)
    [] r.tab = "task"     -> Tasks(v, r)
    [] r.tab = "edge"     -> Relationships(v, r)
    [] r.tab = "hook"     -> Webhooks(v, r)
    [] r.tab = "link"     -> MemoryLinks(v, r)
    [] r.tab = "file"     -> Files(v, r)

\* The columns an import sets on a match.
Sets(t) ==
  CASE t = "company" -> {"ext", "alt", "val"}
    [] t = "contact" -> {"ext", "alt", "val", "up"}
    [] t = "deal"    -> {"ext", "val", "up", "a"}
    [] t \in {"activity", "task"} -> {"ext", "val", "a"}
    [] t = "file"    -> {"val", "a"}
    [] t \in {"field", "pipeline", "stage", "edge", "hook"} -> {"val"}
    [] t \in {"note", "link"} -> {}

\* Mutant of Translated: the far end of a relationship is taken as it is.
TranslatedNear(map, r) ==
  LET new(i) == IF i \in DOMAIN map THEN map[i] ELSE i IN
  [r EXCEPT !.up = new(@), !.a = new(@)]

\* References are rewritten by the id map; what it does not know stays, and so does an
\* external id, which is the id of no row (BulkAssumption).
Translated(map, r) ==
  LET new(i) == IF i \in DOMAIN map THEN map[i] ELSE i IN
  [r EXCEPT !.up = new(@), !.a = new(@), !.b = new(@)]

-----------------------------------------------------------------------------
(* The lookups of ingests and upserts.                                     *)

\* _upsert_contact and _upsert_company; a text becomes a note, always.
IngestMatches(v, r) == IF r.tab = "note" THEN {} ELSE ByExternalIdOr(v, r, TRUE)

\* Mutant of UpsertMatches: the email is not looked for.
UpsertMatchesExternal(v, r) == IF r.ext # Nil THEN {s \in v : s.ext = r.ext} ELSE {}

\* bulk_upsert looks for the email or domain only without an external id.
UpsertMatches(v, r) ==
  IF r.ext # Nil THEN {s \in v : s.ext = r.ext}
  ELSE IF r.alt # Nil THEN Named(v, r) ELSE {}

Candidates(kind, v, r) ==
  CASE kind = "import" -> Matches(v, r)
    [] kind = "ingest" -> IngestMatches(v, r)
    [] kind = "upsert" -> UpsertMatches(v, r)

\* An ingest drops empty columns; an upsert keeps those its body names.
Given(kind, r) ==
  CASE kind = "import" -> Sets(r.tab)
    [] kind = "ingest" -> {c \in {"ext", "alt", "val"} : r[c] # Nil}
    [] kind = "upsert" -> r.has

\* An ingested row without a key or a name is counted as an error.
Lands(kind, r) == kind = "ingest" => r.ext # Nil \/ r.alt # Nil \/ r.val # Nil

-----------------------------------------------------------------------------
(* A load, row by row.                                                     *)

Start(q, kind, w, what) ==
  /\ Begins /\ load[q].kind = "idle"
  /\ load' = [load EXCEPT ![q] = [NoLoad EXCEPT
       !.kind = kind, !.ws = w, !.what = what, !.todo = what,
       !.fresh = \A r \in rows : r.ws # w,
       !.again = last # Nil /\ last.kind = kind /\ last.ws = w /\ last.what = what,
       !.was = last # Nil /\ (IF kind = "import" THEN last.fresh ELSE last.apart)]]
  /\ UNCHANGED <<rows, doc, torn, last>>

StartImport(q, w) == doc # Empty /\ Start(q, "import", w, doc)
StartIngest(q, w, what) == Start(q, "ingest", w, what)
StartUpsert(q, w, what) == Start(q, "upsert", w, what)

TextNote(c, v) == [tab |-> "note", ext |-> Nil, alt |-> Nil, val |-> v, up |-> Nil, a |-> c.id,
                   b |-> Nil, has |-> {}]
StartText(q, c, v) == Start(q, "ingest", c.ws, [Empty EXCEPT !["note"] = <<TextNote(c, v)>>])

Loading(q) == load[q].kind \in {"import", "ingest", "upsert"}

\* The section at hand: those before it are done.
AtHand(q, t) ==
  /\ Loading(q) /\ load[q].todo[t] # <<>>
  /\ \A u \in Tabs : Sections[u] < Sections[t] => load[q].todo[u] = <<>>

\* The row at hand, its references rewritten by an import.
Current(q, t) ==
  IF load[q].kind = "import" THEN Translated(load[q].map, Head(load[q].todo[t]))
                             ELSE Head(load[q].todo[t])

\* The SELECT of a row; the object it finds enters the session as it is now.
Seen(q, t) == {s \in View(load[q].objs) : s.ws = load[q].ws /\ s.tab = t}
Found(q, t) == Candidates(load[q].kind, Seen(q, t), Current(q, t))

LookHits(q, s) ==
  load' = [load EXCEPT ![q].looked = TRUE, ![q].hit = s.id,
    ![q].apart = @ /\ s.id \notin IdsOf(load[q].objs),
    ![q].objs = IF s.id \in IdsOf(@) THEN @ ELSE @ \cup {Object(s, s, s, FALSE, FALSE)}]
LookMisses(q) == load' = [load EXCEPT ![q].looked = TRUE, ![q].hit = Nil]

Look(q, t) ==
  /\ AtHand(q, t) /\ ~load[q].looked
  /\ Lands(load[q].kind, Current(q, t))
  /\ \/ Found(q, t) = {} /\ LookMisses(q)
     \/ \E s \in Found(q, t) : LookHits(q, s)
  /\ UNCHANGED <<rows, doc, torn, count, last>>

RowError(q, t) ==
  /\ AtHand(q, t) /\ ~load[q].looked
  /\ ~Lands(load[q].kind, Current(q, t))
  /\ load' = [load EXCEPT ![q].todo[t] = Tail(@)]
  /\ UNCHANGED <<rows, doc, torn, count, last>>

\* Mutant of NewRow: one more column is missing from a key list.
NewRowLoose(w, r) ==
  [id |-> NewId, ws |-> w, tab |-> r.tab, ext |-> r.ext, alt |-> r.alt, val |-> Nil,
   up |-> r.up, a |-> r.a, b |-> r.b, rest |-> Nil]

\* A new row takes the columns of the key lists: what was deleted comes back live, a note
\* without its author.
NewRow(w, r) ==
  [id |-> NewId, ws |-> w, tab |-> r.tab, ext |-> r.ext, alt |-> r.alt, val |-> r.val,
   up |-> r.up, a |-> r.a, b |-> r.b, rest |-> Nil]

\* The objects once the row is applied.
Overwritten(row, r, given) == [c \in DOMAIN row |-> IF c \in given THEN r[c] ELSE row[c]]
Applied(q, r) ==
  IF load[q].hit = Nil
    THEN load[q].objs \cup {Object(Nil, Nil, NewRow(load[q].ws, r), TRUE, FALSE)}
    ELSE {IF o.row.id # load[q].hit THEN o
          ELSE [o EXCEPT !.row = Overwritten(@, r, Given(load[q].kind, r))] : o \in load[q].objs}

\* An import flushes what it adds to the mapped tables, and each section at its
\* end; the others flush what they add.
Flushes(q, t) ==
  IF load[q].kind = "import"
    THEN (load[q].hit = Nil /\ t \in Mapped) \/ Tail(load[q].todo[t]) = <<>>
    ELSE load[q].hit = Nil

\* A flush that breaks a constraint ends the import; it leaves an ingest or an
\* upsert with a session nothing can be done with, and nothing is kept of it.
Apply(q, t) ==
  LET objs == Applied(q, Current(q, t))
      old == Head(load[q].todo[t])
      new == IF load[q].hit = Nil THEN NewId ELSE load[q].hit
      next == [load[q] EXCEPT
        !.todo[t] = Tail(@), !.looked = FALSE, !.hit = Nil,
        !.objs = IF Flushes(q, t) THEN Flushed(objs) ELSE objs,
        !.map = IF load[q].kind = "import" /\ t \in Mapped
                  THEN [i \in DOMAIN @ \cup {old.id} |-> IF i = old.id THEN new ELSE @[i]] ELSE @]
  IN
  /\ AtHand(q, t) /\ load[q].looked
  /\ load[q].hit = Nil => FreshIds # {}
  /\ Flushes(q, t) => ~Waits(q, objs)
  /\ load' = [load EXCEPT ![q] = IF Flushes(q, t) /\ Breaks(objs) THEN NoLoad ELSE next]
  /\ UNCHANGED <<rows, doc, torn, count, last>>

\* The others are no longer alone, whoever commits.
NotAlone(l) == [l EXCEPT !.alone = (@ /\ l.kind = "idle")]
Overlapped(q) == [p \in Loads |-> IF p = q THEN NoLoad ELSE NotAlone(load[p])]

Commit(q) ==
  LET call == load[q] IN
  /\ Loading(q) /\ call.todo = Empty
  /\ ~Waits(q, call.objs)
  /\ IF Breaks(call.objs)
       THEN /\ load' = [load EXCEPT ![q] = NoLoad]
            /\ UNCHANGED <<rows, last>>
       ELSE /\ rows' = View(Flushed(call.objs))
            /\ load' = Overlapped(q)
            /\ last' = IF call.alone
                 THEN [kind |-> call.kind, ws |-> call.ws, what |-> call.what,
                       fresh |-> call.fresh, apart |-> call.apart]
                 ELSE Nil
  /\ UNCHANGED <<doc, torn, count>>

\* A dry run, a deadlock resolved against it, or the process dies.
DropLoad(q) ==
  /\ load[q].kind # "idle"
  /\ load' = [load EXCEPT ![q] = NoLoad]
  /\ UNCHANGED <<rows, doc, torn, count, last>>

-----------------------------------------------------------------------------
(* The export, and the routes that write one row.                          *)

StartExport(q) ==
  /\ Begins /\ load[q].kind = "idle"
  /\ load' = [load EXCEPT ![q] = [NoLoad EXCEPT !.kind = "export", !.ws = Source, !.left = Tabs]]
  /\ UNCHANGED <<rows, doc, torn, last>>

\* One SELECT; the order of its rows is the database's.  A table that is empty
\* is read along with the one before it.
ReadTable(q, t) ==
  LET rest == load[q].left \ {t} IN
  /\ load[q].kind = "export" /\ t \in load[q].left
  /\ \A u \in rest : Exported[t] < Exported[u]
  /\ \E s \in SetToSeqs(Of(Source, t)) :
       load' = [load EXCEPT ![q].out[t] = s,
         ![q].left = {u \in rest : \E v \in rest : Of(Source, v) # {} /\ Exported[v] <= Exported[u]}]
  /\ UNCHANGED <<rows, doc, torn, count, last>>

EndExport(q) ==
  /\ load[q].kind = "export" /\ load[q].left = {}
  /\ doc' = load[q].out
  /\ torn' = (torn \/ ~load[q].alone)
  /\ load' = [load EXCEPT ![q] = NoLoad]
  /\ UNCHANGED <<rows, count, last>>

\* POST of one row: 409 where a constraint refuses it.
Insert(r) ==
  /\ Begins /\ FreshIds # {}
  /\ \A s \in rows : ~Clash(r, s)
  /\ \A q \in Loads : \A o \in load[q].objs : o.flushed => ~Clash(r, o.was)
  /\ rows' = rows \cup {r}
  /\ load' = [q \in Loads |-> NotAlone(load[q])]
  /\ last' = Nil
  /\ UNCHANGED <<doc, torn>>

CreateContact(w, k) ==
  Insert([id |-> NewId, ws |-> w, tab |-> "contact", ext |-> Nil, alt |-> k, val |-> Nil,
          up |-> Nil, a |-> Nil, b |-> Nil, rest |-> Nil])

CreateRelationship(s, t) ==
  Insert([id |-> NewId, ws |-> s.ws, tab |-> "edge", ext |-> Nil, alt |-> Nil, val |-> Nil,
          up |-> Nil, a |-> s.id, b |-> t.id, rest |-> Nil])
-----------------------------------------------------------------------------
Requests(q) ==
  \/ StartExport(q)
  \/ \E w \in Workspaces :
       \/ StartImport(q, w)
       \/ \E what \in Payloads : StartIngest(q, w, what) \/ StartUpsert(q, w, what)
       \/ \E c \in Of(w, "contact"), v \in Values : StartText(q, c, v)

BulkNext ==
  \/ \E q \in Loads :
       \/ Requests(q)
       \/ \E t \in Tabs : Look(q, t) \/ RowError(q, t) \/ Apply(q, t) \/ ReadTable(q, t)
       \/ Commit(q) \/ DropLoad(q) \/ EndExport(q)
  \/ \E w \in Workspaces :
       \/ \E k \in Keys : CreateContact(w, k)
       \/ \E s, t \in Of(w, "contact") : CreateRelationship(s, t)

BulkSpec == BulkInit /\ [][BulkNext]_bulkVars
-----------------------------------------------------------------------------
(* Properties.                                                             *)

Held == UNION {load[q].objs : q \in Loads}

BulkTypeOK ==
  /\ rows \subseteq Row /\ IsFiniteSet(rows)
  /\ \A r, s \in rows : r.id = s.id => r = s
  /\ \A o \in Held : o.row \in Row
  /\ doc \in [Tabs -> Seq(Row)]
  /\ torn \in BOOLEAN
  /\ count \in 0..MaxCalls

\* "References are rewritten as each row lands": as long as every export was read
\* while nothing was committed, a row refers to no pipeline, stage, company,
\* contact or deal of another workspace, nor to a row that is not there.
RefersInside(r, c) == \E s \in rows : s.id = r[c] /\ (s.tab \in Mapped => s.ws = r.ws)
ImportsRewriteRefs ==
  ~torn => \A r \in rows, c \in Refs : r[c] # Nil => RefersInside(r, c)

\* "Re-runs become safe": a load repeated with nothing committed in between adds no row
\* that had a key to be found by, unless what that row refers to had none and is added
\* again.  The import repeated must have been the first into its workspace, which was
\* empty: in one with rows, the stale email of a contact may bring it a second row of the
\* document, which clears its external id.  An ingest or upsert must not have had two rows
\* for one contact the first time, nor clear an external id.
Keyed(r) ==
  CASE r.tab \in {"company", "contact"} -> r.ext # Nil \/ r.alt # Nil
    [] r.tab \in {"deal", "activity", "task"} -> r.ext # Nil
    [] r.tab = "file" -> r.alt # Nil
    [] OTHER -> TRUE
Added(q) == {o \in load[q].objs : o.new}
HangsOnAdded(q, r) == \E p \in Added(q), c \in Refs : r[c] = p.row.id
AddsNoKey(q) == \A o \in Added(q) : ~Keyed(o.row) \/ HangsOnAdded(q, o.row)
ClearsNoKey(what) == \A t \in Tabs : \A r \in Range(what[t]) : "ext" \in r.has => r.ext # Nil
Repeatable(q) ==
  CASE load[q].kind = "import" -> load[q].was
    [] load[q].kind = "ingest" -> load[q].was /\ load[q].what["note"] = <<>>
    [] load[q].kind = "upsert" -> load[q].was /\ ClearsNoKey(load[q].what)
    [] OTHER -> FALSE
ReRunAddsNothing ==
  \A q \in Loads : load[q].again /\ load[q].alone /\ Repeatable(q) => AddsNoKey(q)

\* A document whose keys are distinct, imported alone into an empty workspace, gives it
\* the rows of the document: the same number in each table, with the columns of the
\* importer's key lists up to their ids, and nothing in those the lists leave out.
Content(r) == [r EXCEPT !.id = Nil, !.ws = Nil]
Carried(map, r) == Content([Translated(map, r) EXCEPT !.rest = Nil])
SameKey(r, s) ==
  IF r.tab = "note" THEN r.a = s.a /\ r.val = s.val
  ELSE r.tab \in {"company", "contact", "hook", "file"} /\ r.alt = s.alt /\ r.alt # Nil
KeysApart(s) == \A i, j \in DOMAIN s : i # j => ~SameKey(s[i], s[j])
FirstCommit(q) ==
  /\ load[q].kind = "import" /\ load[q].fresh /\ load[q].alone
  /\ rows' # rows /\ Commit(q)
Arrived(q, t) == {r \in rows' : r.ws = load[q].ws /\ r.tab = t}
RoundTrip ==
  [][\A q \in Loads : FirstCommit(q) /\ (\A t \in Tabs : KeysApart(load[q].what[t])) =>
       \A t \in Tabs :
         /\ Cardinality(Arrived(q, t)) = Len(load[q].what[t])
         /\ {Carried(load[q].map, r) : r \in Range(load[q].what[t])}
              = {Content(r) : r \in Arrived(q, t)}]_bulkVars
=============================================================================
