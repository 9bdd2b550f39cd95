---------------------------- MODULE DealPipeline ----------------------------
(***************************************************************************)
(* Deals, the pipelines and stages they sit in, and the two writers that   *)
(* keep deals: the REST handlers of routes/deals.ts and the bulk upsert of *)
(* lib/ingest.ts, beside the admin handlers of routes/pipelines.ts.        *)
(*                                                                         *)
(* A handler is a call that reads, decides and writes in separate awaits;  *)
(* D1 has no transaction around them, only the UNIQUE and FOREIGN KEY      *)
(* constraints each statement meets on its own.                            *)
(***************************************************************************)
EXTENDS Naturals

CONSTANTS
  Deals,      \* ids of deal rows
  Stages,     \* ids of stage rows
  Pipelines,  \* ids of pipeline rows
  ExtIds,     \* values of external_id
  Calls,      \* requests that may be in flight at once
  PipeSeed,   \* the pipelines of the workspace at the start
  StageSeed,  \* the stages of the workspace at the start
  MaxCalls,   \* bound on the requests (and ingest rows) of a run
  None

Kinds   == {"open", "won", "lost"}
Lives   == {"unused", "live", "deleted"}
PipeRow == {"unused", "plain", "default"}

\* kind: what is_won and is_lost make of a deal put there (is_won counts first).
StageRow == [life : Lives, pipe : Pipelines, kind : Kinds]

ASSUME SeedAssumption ==
  /\ PipeSeed \in [Pipelines -> PipeRow]
  /\ StageSeed \in [Stages -> StageRow]
  /\ \A s \in Stages : StageSeed[s].life = "live" => PipeSeed[StageSeed[s].pipe] # "unused"

ASSUME NoneAssumption ==
  /\ None \notin Deals \cup Stages \cup Pipelines \cup ExtIds
  /\ MaxCalls \in Nat

VARIABLES
  pipeline,  \* the pipelines table: is a row used, and is it a default
  stage,     \* the stages table
  deal,      \* the deals table
  call,      \* the requests in flight and what they have read so far
  begun,     \* requests and ingest rows so far
  timeline,  \* the events recordEvent has committed
  written,   \* the events of committed REST writes         (history)
  lost,      \* those whose request ended before its event  (history)
  ingested,  \* the deals an ingest has inserted or updated (history)
  reflagged  \* the stages whose flags have been patched    (history)

tables  == <<pipeline, stage, deal>>
history == <<written, lost, ingested, reflagged>>
vars    == <<pipeline, stage, deal, call, begun, timeline, history>>

DealRow ==
  [life : Lives, ext : ExtIds \cup {None}, pipe : Pipelines \cup {None},
   stage : Stages \cup {None}, status : Kinds, closed : BOOLEAN]

NoDeal == [life |-> "unused", ext |-> None, pipe |-> None, stage |-> None,
           status |-> "open", closed |-> FALSE]

Ops   == {"none", "create", "move", "patch", "delete", "pipeline", "ingest"}
Steps == {"idle", "resolve", "write", "event", "stages", "row", "route"}

Call == [op : Ops, step : Steps, id : Deals \cup Pipelines \cup {None},
         pipe : Pipelines \cup {None}, stage : Stages \cup {None},
         dflt : Stages \cup {None}, kind : Kinds, ext : ExtIds \cup {None}]

Idle == [op |-> "none", step |-> "idle", id |-> None, pipe |-> None,
         stage |-> None, dflt |-> None, kind |-> "open", ext |-> None]

Events == [type : Ops, id : Deals \cup Pipelines, stage : Stages \cup {None}]

\* The event a request records, once its write is done.
EventOf(r) == [type |-> r.op, id |-> r.id, stage |-> r.stage]

Used(d) == deal[d].life # "unused"

TypeOK ==
  /\ pipeline \in [Pipelines -> PipeRow]
  /\ stage \in [Stages -> StageRow]
  /\ deal \in [Deals -> DealRow]
  /\ \A d \in Deals : Used(d) => deal[d].pipe # None /\ deal[d].stage # None
  /\ call \in [Calls -> Call]
  /\ begun \in 0..MaxCalls
  /\ timeline \subseteq Events /\ written \subseteq Events /\ lost \subseteq Events
  /\ ingested \subseteq Deals /\ reflagged \subseteq Stages

Init ==
  /\ pipeline = PipeSeed
  /\ stage = StageSeed
  /\ deal = [d \in Deals |-> NoDeal]
  /\ call = [c \in Calls |-> Idle]
  /\ begun = 0
  /\ timeline = {}
  /\ written = {} /\ lost = {} /\ ingested = {} /\ reflagged = {}
-----------------------------------------------------------------------------
(* Requests.                                                               *)

Begin == begun < MaxCalls /\ begun' = begun + 1

At(c, op, step) == call[c].op = op /\ call[c].step = step

\* A request of kind op arrives; r is what its first reads have left it with.
Starts(c, r) ==
  /\ Begin
  /\ call[c] = Idle
  /\ call' = [call EXCEPT ![c] = r]

Goto(c, step) == call' = [call EXCEPT ![c].step = step]

\* The request has made its write: recordEvent is what is left of it.
Wrote(c) ==
  /\ Goto(c, "event")
  /\ written' = written \cup {EventOf(call[c])}

\* Mutant of AfterRefusal: the exception is swallowed and the handler goes on.
GoesOn(c) == [call[c] EXCEPT !.step = "event"]

AfterRefusal(c) == Idle

\* A statement violated a constraint: the request ends with a 500.
Refused(c) ==
  /\ call' = [call EXCEPT ![c] = AfterRefusal(c)]
  /\ UNCHANGED <<tables, history>>

\* The batch of recordEvent commits, and the request answers.
RecordEvent(c) ==
  /\ call[c].step = "event"
  /\ timeline' = timeline \cup {EventOf(call[c])}
  /\ call' = [call EXCEPT ![c] = Idle]
  /\ UNCHANGED <<tables, begun, history>>

\* The request ends otherwise: a 4xx answer, an exception from D1, an isolate
\* that is torn down, an ingest whose rows are done.  What it has written stays.
Ends(c) ==
  /\ call[c] # Idle
  /\ call' = [call EXCEPT ![c] = Idle]
  /\ lost' = IF call[c].step = "event" THEN lost \cup {EventOf(call[c])} ELSE lost
  /\ UNCHANGED <<tables, begun, timeline, written, ingested, reflagged>>
-----------------------------------------------------------------------------
(* What D1 enforces on each statement.                                     *)

\* Mutant of FreeExt: the index is partial, over rows that are not deleted.
FreeExtLive(d, x) == x = None \/ \A o \in Deals \ {d} : deal[o].life = "live" => deal[o].ext # x

\* uq_deal_external_id, over soft-deleted rows too.
FreeExt(d, x) == x = None \/ \A o \in Deals \ {d} : Used(o) => deal[o].ext # x

\* deals.stage_id references a stage row.
HasRow(s) == stage[s].life = "live"

\* ON DELETE RESTRICT, over soft-deleted rows too.
Restricts(s) == \E d \in Deals : Used(d) /\ deal[d].stage = s
-----------------------------------------------------------------------------
(* POST /v1/deals                                                          *)

\* The external_id is looked up first; a used one is a 409.
CreateCheck(c, x) ==
  /\ \A d \in Deals : Used(d) /\ x # None => deal[d].ext # x
  /\ Starts(c, [Idle EXCEPT !.op = "create", !.step = "resolve", !.ext = x])
  /\ UNCHANGED <<tables, timeline, history>>

\* Mutant of Offered: a stage named by its id is looked up in any pipeline.
OfferedAnywhere(c) == {s \in Stages : HasRow(s)}

\* The stages resolveStage may answer: a create names a pipeline or takes a
\* default one, a move stays in the pipeline its deal was read in.
Offered(c) ==
  {s \in Stages : HasRow(s) /\ (call[c].op = "move" => stage[s].pipe = call[c].pipe)}

PipeOf(c, s) == IF call[c].pipe = None THEN stage[s].pipe ELSE call[c].pipe

\* resolveStage: the stage and its flags as they are now.
Resolve(c, s) ==
  /\ call[c].step = "resolve"
  /\ s \in Offered(c)
  /\ call' = [call EXCEPT ![c].step = "write", ![c].stage = s, ![c].kind = stage[s].kind,
                          ![c].pipe = PipeOf(c, s)]
  /\ UNCHANGED <<tables, begun, timeline, history>>

NewDeal(c, kind) ==
  [life |-> "live", ext |-> call[c].ext, pipe |-> call[c].pipe,
   stage |-> call[c].stage, status |-> kind, closed |-> kind # "open"]

CreateInsert(c, d) ==
  /\ At(c, "create", "write")
  /\ deal[d] = NoDeal
  /\ \/ /\ FreeExt(d, call[c].ext) /\ HasRow(call[c].stage)
        /\ deal' = [deal EXCEPT ![d] = NewDeal(c, call[c].kind)]
        /\ call' = [call EXCEPT ![c].step = "event", ![c].id = d]
        /\ written' = written \cup {EventOf(call'[c])}
        /\ UNCHANGED <<pipeline, stage, lost, ingested, reflagged>>
     \/ ~(FreeExt(d, call[c].ext) /\ HasRow(call[c].stage)) /\ Refused(c)
  /\ UNCHANGED <<begun, timeline>>
-----------------------------------------------------------------------------
(* POST /v1/deals/:id/move, PATCH and DELETE /v1/deals/:id                 *)

MoveRead(c, d) ==
  /\ deal[d].life = "live"
  /\ Starts(c, [Idle EXCEPT !.op = "move", !.step = "resolve", !.id = d,
                            !.pipe = deal[d].pipe])
  /\ UNCHANGED <<tables, timeline, history>>

\* Mutant of Moved: reopening a deal leaves its closed_at.
MovedStaysClosed(c, d) ==
  [deal[d] EXCEPT !.stage = call[c].stage, !.status = call[c].kind,
                  !.closed = @ \/ call[c].kind # "open"]

\* The stage, the status its flags said when they were read, and closed_at.
Moved(c, d) ==
  [deal[d] EXCEPT !.stage = call[c].stage, !.status = call[c].kind,
                  !.closed = call[c].kind # "open"]

\* UPDATE ... WHERE id: it does not look at deleted_at again.
MoveWrite(c) ==
  LET d == call[c].id IN
  /\ At(c, "move", "write")
  /\ \/ /\ HasRow(call[c].stage)
        /\ deal' = [deal EXCEPT ![d] = Moved(c, d)]
        /\ Wrote(c)
        /\ UNCHANGED <<pipeline, stage, lost, ingested, reflagged>>
     \/ ~HasRow(call[c].stage) /\ Refused(c)
  /\ UNCHANGED <<begun, timeline>>

\* The body's external_id, or the one the row had when it was read.
PatchRead(c, d, x) ==
  /\ deal[d].life = "live"
  /\ Starts(c, [Idle EXCEPT !.op = "patch", !.step = "write", !.id = d,
                            !.ext = IF x = None THEN deal[d].ext ELSE x])
  /\ UNCHANGED <<tables, timeline, history>>

Patched(c, d) == [deal[d] EXCEPT !.ext = call[c].ext]

PatchWrite(c) ==
  LET d == call[c].id IN
  /\ At(c, "patch", "write")
  /\ \/ /\ FreeExt(d, call[c].ext)
        /\ deal' = [deal EXCEPT ![d] = Patched(c, d)]
        /\ Wrote(c)
        /\ UNCHANGED <<pipeline, stage, lost, ingested, reflagged>>
     \/ ~FreeExt(d, call[c].ext) /\ Refused(c)
  /\ UNCHANGED <<begun, timeline>>

DeleteRead(c, d) ==
  /\ deal[d].life = "live"
  /\ Starts(c, [Idle EXCEPT !.op = "delete", !.step = "write", !.id = d])
  /\ UNCHANGED <<tables, timeline, history>>

DeleteWrite(c) ==
  /\ At(c, "delete", "write")
  /\ deal' = [deal EXCEPT ![call[c].id].life = "deleted"]
  /\ Wrote(c)
  /\ UNCHANGED <<pipeline, stage, begun, timeline, lost, ingested, reflagged>>
-----------------------------------------------------------------------------
(* POST /v1/ingest with kind = deal: upsertDeal, one row at a time.        *)

\* A default pipeline and one of its stages, once for the whole batch.  With no
\* such pipeline or stage, every row is an error.
IngestStart(c, s) ==
  /\ HasRow(s) /\ pipeline[stage[s].pipe] = "default"
  /\ Starts(c, [Idle EXCEPT !.op = "ingest", !.step = "row",
                            !.pipe = stage[s].pipe, !.dflt = s])
  /\ UNCHANGED <<tables, timeline, history>>

\* The rows an external_id finds, soft-deleted or not.
Found(x) == {d \in Deals : x # None /\ Used(d) /\ deal[d].ext = x}

\* The next row: a deal it finds keeps the stage that deal has now, any other row
\* is a new deal in the default stage.
IngestLookup(c, x) ==
  /\ At(c, "ingest", "row")
  /\ Begin
  /\ \/ \E d \in Found(x) :
          call' = [call EXCEPT ![c].step = "route", ![c].ext = x, ![c].id = d,
                               ![c].stage = deal[d].stage]
     \/ /\ Found(x) = {}
        /\ call' = [call EXCEPT ![c].step = "route", ![c].ext = x, ![c].id = None,
                                ![c].stage = call[c].dflt]
  /\ UNCHANGED <<tables, timeline, history>>

\* stage_slug routes the row within the default pipeline, if it names a stage
\* there; without one the row goes where the lookup said.
IngestRoute(c, s) ==
  /\ At(c, "ingest", "route")
  /\ \/ s = call[c].stage
     \/ HasRow(s) /\ stage[s].pipe = call[c].pipe
  /\ call' = [call EXCEPT ![c].step = "write", ![c].stage = s]
  /\ UNCHANGED <<tables, begun, timeline, history>>

\* The statement of one row: status and closed_at are not recomputed, and no
\* event is recorded.  A constraint it violates is an error of that row alone.
Upserted(c, d) ==
  IF call[c].id = None THEN NewDeal(c, "open")
  ELSE [deal[d] EXCEPT !.ext = call[c].ext, !.stage = call[c].stage]

IngestWrite(c, d) ==
  /\ At(c, "ingest", "write")
  /\ IF call[c].id = None THEN deal[d] = NoDeal ELSE d = call[c].id
  /\ \/ /\ FreeExt(d, call[c].ext) /\ HasRow(call[c].stage)
        /\ deal' = [deal EXCEPT ![d] = Upserted(c, d)]
        /\ ingested' = ingested \cup {d}
     \/ /\ ~(FreeExt(d, call[c].ext) /\ HasRow(call[c].stage))
        /\ UNCHANGED <<deal, ingested>>
  /\ Goto(c, "row")
  /\ UNCHANGED <<pipeline, stage, begun, timeline, written, lost, reflagged>>
-----------------------------------------------------------------------------
(* The admin handlers of routes/pipelines.ts.                              *)

\* POST /v1/pipelines: the pipeline row, then the stages it came with in one
\* statement, then the event.  Setting is_default clears no other default.
PipelineInsert(c, p, flag) ==
  /\ pipeline[p] = "unused"
  /\ Starts(c, [Idle EXCEPT !.op = "pipeline", !.step = "stages", !.id = p, !.pipe = p])
  /\ pipeline' = [pipeline EXCEPT ![p] = flag]
  /\ UNCHANGED <<stage, deal, timeline, history>>

NewStage(p, kind) == [life |-> "live", pipe |-> p, kind |-> kind]

StagesInsert(c, new, kinds) ==
  /\ At(c, "pipeline", "stages")
  /\ \A s \in new : stage[s].life = "unused"
  /\ stage' = [s \in Stages |-> IF s \in new THEN NewStage(call[c].pipe, kinds[s])
                                ELSE stage[s]]
  /\ Wrote(c)
  /\ UNCHANGED <<pipeline, deal, begun, timeline, lost, ingested, reflagged>>

PatchPipeline(p, flag) ==
  /\ Begin
  /\ pipeline[p] # "unused"
  /\ pipeline' = [pipeline EXCEPT ![p] = flag]
  /\ UNCHANGED <<stage, deal, call, timeline, history>>

CreateStage(s, p, kind) ==
  /\ Begin
  /\ pipeline[p] # "unused" /\ stage[s].life = "unused"
  /\ stage' = [stage EXCEPT ![s] = NewStage(p, kind)]
  /\ UNCHANGED <<pipeline, deal, call, timeline, history>>

\* PATCH of a stage's flags; the deals in the stage are not revisited.
PatchStage(s, kind) ==
  /\ Begin
  /\ HasRow(s)
  /\ stage' = [stage EXCEPT ![s].kind = kind]
  /\ reflagged' = reflagged \cup {s}
  /\ UNCHANGED <<pipeline, deal, call, timeline, written, lost, ingested>>

\* A stage some deal row refers to is not deleted: the statement is a 500.
DeleteStage(s) ==
  /\ Begin
  /\ HasRow(s) /\ ~Restricts(s)
  /\ stage' = [stage EXCEPT ![s].life = "deleted"]
  /\ UNCHANGED <<pipeline, deal, call, timeline, history>>
-----------------------------------------------------------------------------
DealCall(c) ==
  \/ \E x \in ExtIds \cup {None} : CreateCheck(c, x)
  \/ \E s \in Stages : Resolve(c, s)
  \/ \E d \in Deals : CreateInsert(c, d) \/ MoveRead(c, d) \/ DeleteRead(c, d)
  \/ \E d \in Deals, x \in ExtIds \cup {None} : PatchRead(c, d, x)
  \/ MoveWrite(c) \/ PatchWrite(c) \/ DeleteWrite(c)
  \/ RecordEvent(c) \/ Ends(c)

Ingest(c) ==
  \/ \E s \in Stages : IngestStart(c, s) \/ IngestRoute(c, s)
  \/ \E x \in ExtIds \cup {None} : IngestLookup(c, x)
  \/ \E d \in Deals : IngestWrite(c, d)

Admin ==
  \/ \E c \in Calls, p \in Pipelines, flag \in {"plain", "default"} :
       PipelineInsert(c, p, flag)
  \/ \E c \in Calls, new \in SUBSET Stages, kinds \in [Stages -> Kinds] :
       StagesInsert(c, new, kinds)
  \/ \E p \in Pipelines, flag \in {"plain", "default"} : PatchPipeline(p, flag)
  \/ \E s \in Stages, p \in Pipelines, kind \in Kinds : CreateStage(s, p, kind)
  \/ \E s \in Stages, kind \in Kinds : PatchStage(s, kind)
  \/ \E s \in Stages : DeleteStage(s)

Next == (\E c \in Calls : DealCall(c) \/ Ingest(c)) \/ Admin

Spec == Init /\ [][Next]_vars
-----------------------------------------------------------------------------
(* What the handlers keep between them.                                    *)

\* Every deal row, soft-deleted ones too, is in a stage that exists: no stage is
\* deleted under a deal, nor under a request that has resolved it and has yet to
\* write.
StagesExist == \A d \in Deals : Used(d) => HasRow(deal[d].stage)

\* external_id names at most one deal of the workspace, however the lookup of one
\* request and the insert of another interleave.
ExternalIdsUnique ==
  \A d, o \in Deals :
    Used(d) /\ Used(o) /\ deal[d].ext = deal[o].ext /\ deal[d].ext # None => d = o

\* closed_at is set exactly on won and lost deals, whichever of two moves that
\* read the same row writes last, and whatever an ingest writes between them.
ClosedIffTerminal ==
  \A d \in Deals : deal[d].closed <=> deal[d].status # "open"

\* A deal no ingest has touched sits in a stage of its own pipeline, and has the
\* status that stage stands for, unless the stage's flags were patched since.
StatusFollowsStage ==
  \A d \in Deals : Used(d) /\ d \notin ingested =>
    LET s == deal[d].stage IN
    /\ stage[s].pipe = deal[d].pipe
    /\ s \notin reflagged => deal[d].status = stage[s].kind

\* The timeline never tells of a write that did not happen, and a REST write is
\* missing from it only while its request is still on the way to recordEvent, or
\* when that request was cut off there.
WritesAreTraced ==
  /\ timeline \subseteq written
  /\ \A e \in written : \/ e \in timeline \cup lost
                        \/ \E c \in Calls : call[c].step = "event" /\ EventOf(call[c]) = e

\* A soft-deleted deal stays deleted: a move or a patch that read the row before
\* the delete, and an ingest that finds it by external_id, write around it.
DeletedStaysDeleted ==
  [][\A d \in Deals : deal[d].life = "deleted" => deal'[d].life = "deleted"]_vars
-----------------------------------------------------------------------------
(* The strengthening under which the invariants above are inductive.       *)

\* What a request r that names a deal or a pipeline keeps of it until it writes.
Target(r) ==
  /\ r.op = "create" /\ r.step = "resolve" => r.pipe = None
  /\ r.op \in {"move", "patch", "delete"} => r.id \in Deals /\ Used(r.id)
  /\ r.op = "move" => r.pipe = deal[r.id].pipe
  /\ r.op = "pipeline" => r.id \in Pipelines /\ r.pipe \in Pipelines
  /\ r.op = "ingest" =>
       /\ r.pipe \in Pipelines /\ r.dflt \in Stages
       /\ r.step \in {"row", "route", "write"}
       /\ r.step # "row" => r.stage \in Stages
       /\ r.id # None => r.id \in Deals /\ Used(r.id)

\* What resolveStage answered r is still true of the stage when r writes its
\* deal, but for flags patched since.
Resolved(r) ==
  r.op \in {"create", "move"} /\ r.step = "write" =>
    /\ r.stage \in Stages /\ stage[r.stage].life # "unused"
    /\ r.pipe = stage[r.stage].pipe
    /\ r.stage \notin reflagged => r.kind = stage[r.stage].kind

CallInv == \A c \in Calls : Target(call[c]) /\ Resolved(call[c])

\* A request on its way to recordEvent has made the write it will record.
EventInv == \A c \in Calls : call[c].step = "event" => EventOf(call[c]) \in written

RowInv == StagesExist /\ ExternalIdsUnique /\ ClosedIffTerminal /\ StatusFollowsStage

DealInv == TypeOK /\ CallInv /\ RowInv /\ EventInv /\ WritesAreTraced
=============================================================================
