------------------------------ MODULE Records ------------------------------
(***************************************************************************)
(* The records of one kind, contacts or companies, and their two writers:  *)
(* the REST handlers (routes/contacts.ts, routes/companies.ts) and the     *)
(* bulk upsert of lib/ingest.ts.  Every handler reads a row, decides, and  *)
(* writes by id in a later await; the ingest finds rows by external_id, or *)
(* without one by their natural key, a contact's email or a company's      *)
(* domain, for which the database has no constraint.  A company needs a    *)
(* name when it is created; a contact needs nothing, so that its behaviours*)
(* are those modelled, and a company's are among them.                     *)
(***************************************************************************)
EXTENDS Naturals

CONSTANTS
  Ids,       \* ids of rows
  ExtIds,    \* values of external_id
  Keys,      \* values of email or domain; the other columns go the same way
  Calls,     \* requests that may overlap
  MaxCalls,  \* bound on the requests of a run
  None

ASSUME RecordsAssumption ==
  /\ MaxCalls \in Nat
  /\ None \notin Ids \cup ExtIds \cup Keys

VARIABLES
  row,     \* the table
  call,    \* the requests under way
  told,    \* the last created, deleted or restored event of each row
  listed,  \* the rows the diagnostics of stored ingest_runs name
  begun,   \* requests so far
  past,    \* what requests have asked for, None once two overlap (history)
  cut      \* rows of requests cut off before they told of them   (history)

vars == <<row, call, told, listed, begun, past, cut>>

Columns == [ext : ExtIds \cup {None}, key : Keys \cup {None}]
Row  == [life : {"unused", "live", "deleted"}, col : Columns]
Call == [op   : {"none", "create", "patch", "delete", "restore", "ingest"},
         step : {"idle", "write", "event", "row"},
         id   : Ids \cup {None},
         body : Columns,
         old  : Columns,
         done : SUBSET Ids]

Blank  == [ext |-> None, key |-> None]
Unused == [life |-> "unused", col |-> Blank]
Idle   == [op |-> "none", step |-> "idle", id |-> None, body |-> Blank, old |-> Blank,
           done |-> {}]

\* asked: the last value any request sent for each column; spread: the rows that
\* did not get their key from an ingest by key alone.
Past == [asked : [Ids -> Columns], spread : SUBSET Ids]

\* A request past its lookup knows the row it is about, but for inserts.
TypeOK ==
  /\ row \in [Ids -> Row]
  /\ call \in [Calls -> Call]
  /\ \A c \in Calls : call[c].id # None => row[call[c].id].life # "unused"
  /\ told \in [Ids -> {"none", "create", "delete", "restore"}]
  /\ listed \subseteq {r \in Ids : row[r].life # "unused"}
  /\ begun \in 0..MaxCalls
  /\ past \in Past \cup {None}
  /\ cut \subseteq Ids

Init ==
  /\ row = [r \in Ids |-> Unused]
  /\ call = [c \in Calls |-> Idle]
  /\ told = [r \in Ids |-> "none"]
  /\ listed = {}
  /\ begun = 0
  /\ past = [asked |-> [r \in Ids |-> Blank], spread |-> {}]
  /\ cut = {}

Used(r) == row[r].life # "unused"
At(c, op, step) == call[c].op = op /\ call[c].step = step

\* The columns a body has, over older values: body.x ?? existing.x
Over(body, old) ==
  [ext  |-> IF body.ext  = None THEN old.ext  ELSE body.ext,
   key  |-> IF body.key  = None THEN old.key  ELSE body.key]

\* Mutant of FreeExt: the index leaves soft-deleted rows out.
FreeExtLive(r, x) ==
  x = None \/ \A o \in Ids \ {r} : ~(row[o].life = "live" /\ row[o].col.ext = x)

\* The UNIQUE index of (workspace_id, external_id); soft-deleted rows count.
FreeExt(r, x) == x = None \/ \A o \in Ids \ {r} : ~(Used(o) /\ row[o].col.ext = x)

Starts(c, new) ==
  /\ call[c] = Idle
  /\ begun < MaxCalls /\ begun' = begun + 1
  /\ call' = [call EXCEPT ![c] = new]
  /\ past' = IF \E o \in Calls \ {c} : call[o] # Idle THEN None ELSE past

\* History: a request has sent body b for row r.
Asks(r, b, spreads) ==
  past' = IF past = None THEN None
          ELSE [asked  |-> [past.asked EXCEPT ![r] = Over(b, @)],
                spread |-> IF spreads THEN past.spread \cup {r} ELSE past.spread]

Goto(c, step) == call' = [call EXCEPT ![c].step = step]
-----------------------------------------------------------------------------
(* The REST handlers.                                                      *)

\* POST: the lookup of a taken external_id is a 409 and changes nothing.
CreateCheck(c, b) ==
  /\ \A r \in Ids : FreeExt(r, b.ext)
  /\ Starts(c, [Idle EXCEPT !.op = "create", !.step = "write", !.body = b])
  /\ UNCHANGED <<row, told, listed, cut>>

\* An external_id taken since the lookup violates the index: see Dies.
CreateWrite(c, r) ==
  LET b == call[c].body IN
  /\ At(c, "create", "write")
  /\ ~Used(r) /\ FreeExt(r, b.ext)
  /\ row' = [row EXCEPT ![r] = [life |-> "live", col |-> b]]
  /\ call' = [call EXCEPT ![c].step = "event", ![c].id = r]
  /\ Asks(r, b, TRUE)
  /\ UNCHANGED <<told, listed, begun, cut>>

PatchRead(c, r, b) ==
  /\ row[r].life = "live"
  /\ Starts(c, [Idle EXCEPT !.op = "patch", !.step = "write", !.id = r, !.body = b,
                            !.old = row[r].col])
  /\ UNCHANGED <<row, told, listed, cut>>

\* Every column is written: the body's value, or the one that was read.
Patched(c) == Over(call[c].body, call[c].old)

PatchWrite(c) ==
  LET r == call[c].id IN
  /\ At(c, "patch", "write")
  /\ FreeExt(r, Patched(c).ext)
  /\ row' = [row EXCEPT ![r].col = Patched(c)]
  /\ Goto(c, "event")
  /\ Asks(r, call[c].body, call[c].body.key # None)
  /\ UNCHANGED <<told, listed, begun, cut>>

DeleteRead(c, r) ==
  /\ row[r].life = "live"
  /\ Starts(c, [Idle EXCEPT !.op = "delete", !.step = "write", !.id = r])
  /\ UNCHANGED <<row, told, listed, cut>>

Deleted(r) == [row[r] EXCEPT !.life = "deleted"]

DeleteWrite(c) ==
  /\ At(c, "delete", "write")
  /\ row' = [row EXCEPT ![call[c].id] = Deleted(call[c].id)]
  /\ Goto(c, "event")
  /\ UNCHANGED <<told, listed, begun, past, cut>>

\* The restore of a live row answers with it, and changes nothing.
RestoreRead(c, r) ==
  /\ row[r].life = "deleted"
  /\ Starts(c, [Idle EXCEPT !.op = "restore", !.step = "write", !.id = r])
  /\ UNCHANGED <<row, told, listed, cut>>

RestoreWrite(c) ==
  /\ At(c, "restore", "write")
  /\ row' = [row EXCEPT ![call[c].id].life = "live"]
  /\ Goto(c, "event")
  /\ UNCHANGED <<told, listed, begun, past, cut>>

\* Mutant of Tells: a restore is recorded as one more update.
TellsNoRestore(op) == op \in {"create", "delete"}

\* "updated" is an event too, but not one about the life of the row.
Tells(op) == op \in {"create", "delete", "restore"}

\* recordEvent, and the answer.
RecordEvent(c) ==
  /\ call[c].step = "event"
  /\ told' = IF Tells(call[c].op) THEN [told EXCEPT ![call[c].id] = call[c].op] ELSE told
  /\ call' = [call EXCEPT ![c] = Idle]
  /\ UNCHANGED <<row, listed, begun, past, cut>>
-----------------------------------------------------------------------------
(* POST /v1/ingest: runIngest over the rows of the payload, one lookup and *)
(* one write each, then the ingest_runs row.  Nothing is recorded in the   *)
(* timeline.                                                               *)

IngestStart(c) ==
  /\ Starts(c, [Idle EXCEPT !.op = "ingest", !.step = "row"])
  /\ UNCHANGED <<row, told, listed, cut>>

\* By external_id if the input has one, else by the natural key.  The lookup
\* answers with any of the rows that match, soft-deleted ones among them.
Found(b) ==
  {r \in Ids : /\ Used(r)
               /\ IF b.ext # None THEN row[r].col.ext = b.ext
                  ELSE b.key # None /\ row[r].col.key = b.key}

Looked(c, id, b, old) ==
  call' = [call EXCEPT ![c].step = "write", ![c].id = id, ![c].body = b, ![c].old = old]

IngestLookup(c, b) ==
  /\ At(c, "ingest", "row")
  /\ \/ \E r \in Found(b) : Looked(c, r, b, row[r].col)
     \/ Found(b) = {} /\ Looked(c, None, b, Blank)
  /\ UNCHANGED <<row, told, listed, begun, past, cut>>

\* Mutant of Merged: the columns the input leaves out are emptied.
MergedWhole(c) == [Over(call[c].body, call[c].old) EXCEPT !.key = call[c].body.key]

Merged(c) == Over(call[c].body, call[c].old)

\* An insert, or an update of the columns of the row that was found.
Upserted(c, r) ==
  [life |-> IF call[c].id = None THEN "live" ELSE row[r].life, col |-> Merged(c)]

Noted(c, r) == call[c].done \cup {r}

IngestWrite(c, r) ==
  LET b == call[c].body IN
  /\ At(c, "ingest", "write")
  /\ IF call[c].id = None THEN ~Used(r) ELSE r = call[c].id
  /\ FreeExt(r, Merged(c).ext)
  /\ row' = [row EXCEPT ![r] = Upserted(c, r)]
  /\ call' = [call EXCEPT ![c] = [Idle EXCEPT !.op = "ingest", !.step = "row",
                                             !.done = Noted(c, r)]]
  /\ Asks(r, b, b.ext # None /\ b.key # None)
  /\ UNCHANGED <<told, listed, begun, cut>>

\* A statement that throws is an error of its input; the loop goes on.
IngestError(c) ==
  /\ At(c, "ingest", "write")
  /\ call' = [call EXCEPT ![c] = [Idle EXCEPT !.op = "ingest", !.step = "row",
                                             !.done = call[c].done]]
  /\ UNCHANGED <<row, told, listed, begun, past, cut>>

\* The run is stored with its diagnostics.
IngestEnd(c) ==
  /\ At(c, "ingest", "row")
  /\ listed' = listed \cup call[c].done
  /\ call' = [call EXCEPT ![c] = Idle]
  /\ UNCHANGED <<row, told, begun, past, cut>>
-----------------------------------------------------------------------------
\* A statement of the request throws, or its isolate is torn down.
Dies(c) ==
  /\ call[c] # Idle
  /\ cut' = cut \cup call[c].done \cup IF call[c].step = "event" THEN {call[c].id} ELSE {}
  /\ call' = [call EXCEPT ![c] = Idle]
  /\ UNCHANGED <<row, told, listed, begun, past>>

Rest(c) ==
  \/ \E b \in Columns : CreateCheck(c, b)
  \/ \E r \in Ids : CreateWrite(c, r) \/ DeleteRead(c, r) \/ RestoreRead(c, r)
  \/ \E r \in Ids, b \in Columns : PatchRead(c, r, b)
  \/ PatchWrite(c) \/ DeleteWrite(c) \/ RestoreWrite(c) \/ RecordEvent(c)

Ingest(c) ==
  \/ IngestStart(c) \/ IngestError(c) \/ IngestEnd(c)
  \/ \E b \in Columns : IngestLookup(c, b)
  \/ \E r \in Ids : IngestWrite(c, r)

Next == \E c \in Calls : Rest(c) \/ Ingest(c) \/ Dies(c)

Spec == Init /\ [][Next]_vars
-----------------------------------------------------------------------------
(* What the two writers keep between them.                                 *)

\* external_id names at most one row, soft-deleted ones included, although every
\* writer looks it up in one await and writes it in a later one.
ExternalIdsUnique ==
  \A r, o \in Ids :
    Used(r) /\ Used(o) /\ row[r].col.ext = row[o].col.ext /\ row[r].col.ext # None => r = o

\* As long as requests do not overlap, each column has the last value any of them
\* sent for it: neither writer erases or reverts what its input leaves out.
SerialWritesStick ==
  past # None => \A r \in Ids : Used(r) => row[r].col = past.asked[r]

\* As long as requests do not overlap, rows that ingests address by email or
\* domain alone are one per email or domain: repeating an import, or importing
\* again what was deleted since, adds nothing.
SerialIngestDedupes ==
  past # None => \A r, o \in Ids \ past.spread :
    Used(r) /\ Used(o) /\ row[r].col.key = row[o].col.key /\ row[r].col.key # None => r = o

\* Only a restore brings a deleted row back: a PATCH or an ingest that read the row
\* before its deletion, or finds it deleted, writes its columns around the mark.
OnlyRestoreRevives ==
  [][\A r \in Ids :
       /\ row[r].life = "deleted"
       /\ \A c \in Calls : At(c, "restore", "write") => call[c].id # r
       => row'[r].life = "deleted"]_vars

\* When requests have not overlapped and none is under way, the timeline's last word
\* on a row is its state, unless a request was cut off before it could say so.
TimelineTellsLife ==
  past # None /\ (\A c \in Calls : call[c] = Idle) =>
    \A r \in Ids \ cut : told[r] = "delete" <=> row[r].life = "deleted"

\* No row comes from nowhere, whatever overlaps: its creation is in the timeline or
\* in the diagnostics of an ingest run, or about to be, or its request was cut off.
EveryRowAccounted ==
  \A r \in Ids : Used(r) =>
    \/ told[r] # "none" \/ r \in listed \cup cut
    \/ \E c \in Calls : r \in call[c].done \/ (At(c, "create", "event") /\ call[c].id = r)
-----------------------------------------------------------------------------
(* The strengthening under which the invariants above are inductive.       *)

\* What a request holds while it is under way.
Holds(k) ==
  /\ k.op = "none" => k = Idle
  /\ k.op = "create" => k.step \in {"write", "event"}
  /\ k.op \in {"patch", "delete", "restore"} => k.id # None /\ k.step \in {"write", "event"}
  /\ k.op = "ingest" => k.step \in {"row", "write"}
  /\ k.op # "ingest" => k.done = {}
  /\ k.step = "event" => k.id # None

CallInv == \A c \in Calls : Holds(call[c]) /\ \A r \in call[c].done : Used(r)

\* As long as requests have not overlapped, what the one under way has read is
\* still so when it writes.
Fresh(k) ==
  /\ k.op = "patch" /\ k.step = "write" => k.old = row[k.id].col
  /\ k.op = "ingest" /\ k.step = "write" =>
       IF k.id = None THEN k.old = Blank /\ Found(k.body) = {}
       ELSE k.id \in Found(k.body) /\ k.old = row[k.id].col

OneCall == past # None => \A c, o \in Calls : c = o \/ call[c] = Idle \/ call[o] = Idle

FreshInv == past # None => \A c \in Calls : Fresh(call[c])

NothingAsked == past # None => \A r \in Ids : Used(r) \/ past.asked[r] = Blank

\* The event a request is about to record agrees with the row, and only such a
\* request leaves a row and its last event apart.
Telling(k) == k.step = "event" /\ Tells(k.op)

ToldInv ==
  past # None =>
    /\ \A c \in Calls : Telling(call[c]) =>
         (call[c].op = "delete" <=> row[call[c].id].life = "deleted")
    /\ \A r \in Ids \ cut :
         \/ told[r] = "delete" <=> row[r].life = "deleted"
         \/ \E c \in Calls : Telling(call[c]) /\ call[c].id = r

RecordsInv ==
  /\ TypeOK /\ CallInv /\ ExternalIdsUnique /\ EveryRowAccounted
  /\ OneCall /\ FreshInv /\ NothingAsked /\ ToldInv
  /\ SerialWritesStick /\ SerialIngestDedupes
=============================================================================
