------------------------------ MODULE FileStore -----------------------------
(***************************************************************************)
(* File attachments: bytes in R2, metadata in D1 (routes/files.ts).  No    *)
(* transaction spans the two stores: an upload puts the object and then    *)
(* inserts the row, a deletion removes the object and then marks the row,  *)
(* a download reads the row and then gets the object.  Requests interleave *)
(* at every await and may be cut off there.                                *)
(***************************************************************************)
EXTENDS Naturals

CONSTANTS
  Files,     \* file ids (crypto.randomUUID: never taken twice)
  Requests,  \* requests that may overlap
  None

ASSUME FileAssumption == None \notin Files

VARIABLES
  row,     \* the files table
  object,  \* the files whose object is in R2
  events,  \* the files the timeline has a file.uploaded event of
  call,    \* the requests under way
  cut      \* the files of requests cut off after their first effect   (history)

vars == <<row, object, events, call, cut>>

\* linked: entity_type and entity_id are set; sha256: the column is set.
Row  == [state : {"none", "live", "deleted"}, linked : BOOLEAN, sha256 : BOOLEAN]
Call == [step : {"idle", "put", "insert", "trace", "purge", "mark", "get"},
         file : Files \cup {None}, linked : BOOLEAN]

NoRow == [state |-> "none", linked |-> FALSE, sha256 |-> FALSE]
Idle  == [step |-> "idle", file |-> None, linked |-> FALSE]

TypeOK ==
  /\ row \in [Files -> Row]
  /\ object \subseteq Files
  /\ events \subseteq {f \in Files : row[f].linked}
  /\ call \in [Requests -> Call]
  /\ cut \subseteq Files
  /\ \A r \in Requests : call[r].step = "idle" <=> call[r].file = None

Init ==
  /\ row = [f \in Files |-> NoRow]
  /\ object = {}
  /\ events = {}
  /\ call = [r \in Requests |-> Idle]
  /\ cut = {}

At(r, step) == call[r].step = step
On(r, f, step) == At(r, step) /\ call[r].file = f
Go(r, step) == call' = [call EXCEPT ![r].step = step]
Stop(r) == call' = [call EXCEPT ![r] = Idle]
Live(f) == row[f].state = "live"
-----------------------------------------------------------------------------
(* POST /v1/files                                                          *)

Fresh(f) ==
  /\ row[f].state = "none"
  /\ f \notin object \cup cut
  /\ \A r \in Requests : call[r].file # f

Upload(r, f, linked) ==
  /\ At(r, "idle") /\ Fresh(f)
  /\ call' = [call EXCEPT ![r] = [step |-> "put", file |-> f, linked |-> linked]]
  /\ UNCHANGED <<row, object, events, cut>>

\* Mutant of Stored: the row is inserted although the put was refused.
StoredOrNot(f) == {object, object \cup {f}}

Stored(f) == {object \cup {f}}

UploadPut(r) ==
  /\ At(r, "put")
  /\ object' \in Stored(call[r].file)
  /\ Go(r, "insert")
  /\ UNCHANGED <<row, events, cut>>

Traces(r) == call[r].linked

\* An upload that names no entity ends here, without an event.
UploadInsert(r) ==
  LET f == call[r].file IN
  /\ At(r, "insert")
  /\ row' = [row EXCEPT ![f] = [state |-> "live", linked |-> call[r].linked, sha256 |-> TRUE]]
  /\ IF Traces(r) THEN Go(r, "trace") ELSE Stop(r)
  /\ UNCHANGED <<object, events, cut>>

\* recordEvent of file.uploaded.
UploadTrace(r) ==
  /\ At(r, "trace")
  /\ events' = events \cup {call[r].file}
  /\ Stop(r)
  /\ UNCHANGED <<row, object, cut>>
-----------------------------------------------------------------------------
(* DELETE /v1/files/:id                                                    *)

Delete(r, f) ==
  /\ At(r, "idle") /\ Live(f)
  /\ call' = [call EXCEPT ![r] = [step |-> "purge", file |-> f, linked |-> FALSE]]
  /\ UNCHANGED <<row, object, events, cut>>

\* Mutant of Purged: the attachments of an entity are kept.
PurgedUnlinked(f) == IF row[f].linked THEN object ELSE object \ {f}

Purged(f) == object \ {f}

DeletePurge(r) ==
  /\ At(r, "purge")
  /\ object' = Purged(call[r].file)
  /\ Go(r, "mark")
  /\ UNCHANGED <<row, events, cut>>

DeleteMark(r) ==
  /\ At(r, "mark")
  /\ row' = [row EXCEPT ![call[r].file].state = "deleted"]
  /\ Stop(r)
  /\ UNCHANGED <<object, events, cut>>
-----------------------------------------------------------------------------
(* GET /v1/files/:id/download, and the end of a request.                   *)

Download(r, f) ==
  /\ At(r, "idle") /\ Live(f)
  /\ call' = [call EXCEPT ![r] = [step |-> "get", file |-> f, linked |-> FALSE]]
  /\ UNCHANGED <<row, object, events, cut>>

\* The body, or 404 when the object is missing.
DownloadGet(r) ==
  /\ At(r, "get")
  /\ Stop(r)
  /\ UNCHANGED <<row, object, events, cut>>

\* A store refuses a statement, or the request is cut off.
Dies(r) ==
  /\ ~At(r, "idle")
  /\ cut' = cut \cup IF call[r].step \in {"insert", "trace", "mark"}
                     THEN {call[r].file} ELSE {}
  /\ Stop(r)
  /\ UNCHANGED <<row, object, events>>

RequestStep(r) ==
  \/ \E f \in Files : Delete(r, f) \/ Download(r, f)
  \/ \E f \in Files, linked \in BOOLEAN : Upload(r, f, linked)
  \/ UploadPut(r) \/ UploadInsert(r) \/ UploadTrace(r)
  \/ DeletePurge(r) \/ DeleteMark(r) \/ DownloadGet(r) \/ Dies(r)

Next == \E r \in Requests : RequestStep(r)

Spec == Init /\ [][Next]_vars
-----------------------------------------------------------------------------
(* What the two stores and the timeline say of each other.                 *)

Pending(f, step) == \E r \in Requests : On(r, f, step)

\* A live file has its body in R2, whatever uploads, deletions and downloads of
\* it interleave; the exceptions are a deletion between its two effects and a
\* request cut off there.
LiveHasBody ==
  \A f \in Files : Live(f) => f \in object \cup cut \/ Pending(f, "mark")

\* R2 keeps no body without a live row, but for an upload between its two
\* effects and requests cut off there: deleting a file frees its storage.
BodyHasRow ==
  \A f \in object : Live(f) \/ f \in cut \/ Pending(f, "insert")

\* A file attached to an entity is in that entity's timeline, be it deleted by
\* now, unless its upload is about to record the event or was cut off.
AttachmentsTraced ==
  \A f \in Files :
    row[f].linked => f \in events \cup cut \/ Pending(f, "trace")
=============================================================================
