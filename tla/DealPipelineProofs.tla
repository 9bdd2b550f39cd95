------------------------ MODULE DealPipelineProofs -------------------------
(***************************************************************************)
(* The invariants of DealPipeline for every number of deals, stages,       *)
(* pipelines and requests.                                                 *)
(***************************************************************************)
EXTENDS DealPipeline, TLAPS

-----------------------------------------------------------------------------
(* One request.                                                            *)

(***************************************************************************)
(* A step of one request replaces its record and leaves the others alone.  *)
(***************************************************************************)
LEMMA CallStep ==
  ASSUME TypeOK, NEW c \in Calls, NEW r \in Call, call' = [call EXCEPT ![c] = r]
  PROVE  /\ call' \in [Calls -> Call]
         /\ call'[c] = r
         /\ \A o \in Calls : o # c => call'[o] = call[o]
BY DEF TypeOK

LEMMA IdleIsCall == Idle \in Call
BY DEF Idle, Call, Ops, Steps, Kinds

(***************************************************************************)
(* What every action leaves true of the rows a request has read: a deal    *)
(* row stays used and in its pipeline, a stage row stays in its pipeline   *)
(* and keeps the flags nobody has patched.                                 *)
(***************************************************************************)
Stable ==
  /\ \A d \in Deals : Used(d) => Used(d)' /\ deal'[d].pipe = deal[d].pipe
  /\ \A s \in Stages : stage[s].life # "unused" =>
       /\ stage'[s].life # "unused" /\ stage'[s].pipe = stage[s].pipe
       /\ s \notin reflagged' => s \notin reflagged /\ stage'[s].kind = stage[s].kind

LEMMA CallsKept ==
  ASSUME TypeOK, CallInv, Stable, NEW c \in Calls,
         \A o \in Calls : o # c => call'[o] = call[o],
         Target(call[c])', Resolved(call[c])'
  PROVE  CallInv'
<1> SUFFICES ASSUME NEW o \in Calls, o # c
             PROVE  Target(call[o])' /\ Resolved(call[o])'
  BY DEF CallInv
<1>1. call'[o] = call[o] /\ Target(call[o]) /\ Resolved(call[o])
  BY DEF CallInv
<1>2. Target(call[o])'
  BY <1>1 DEF Target, Stable
<1>3. Resolved(call[o])'
  BY <1>1 DEF Resolved, Stable
<1> QED BY <1>2, <1>3

LEMMA CallsStand ==
  ASSUME TypeOK, CallInv, Stable, call' = call
  PROVE  CallInv'
<1> SUFFICES ASSUME NEW o \in Calls
             PROVE  Target(call[o])' /\ Resolved(call[o])'
  BY DEF CallInv
<1>1. Target(call[o]) /\ Resolved(call[o])
  BY DEF CallInv
<1>2. Target(call[o])'
  BY <1>1 DEF Target, Stable
<1>3. Resolved(call[o])'
  BY <1>1 DEF Resolved, Stable
<1> QED BY <1>2, <1>3

(***************************************************************************)
(* The timeline, across a step that neither writes nor records, and across *)
(* one that writes.                                                        *)
(***************************************************************************)
LEMMA TraceKept ==
  ASSUME EventInv, WritesAreTraced, NEW c \in Calls,
         \A o \in Calls : o # c => call'[o] = call[o],
         call[c].step # "event", call'[c].step # "event",
         timeline' = timeline, written' = written, lost' = lost
  PROVE  EventInv' /\ WritesAreTraced'
<1>1. EventInv'
  BY DEF EventInv, EventOf
<1>2. WritesAreTraced'
  BY DEF WritesAreTraced, EventOf
<1> QED BY <1>1, <1>2

LEMMA TraceWrote ==
  ASSUME EventInv, WritesAreTraced, NEW c \in Calls,
         \A o \in Calls : o # c => call'[o] = call[o],
         call[c].step # "event", call'[c].step = "event",
         written' = written \cup {EventOf(call'[c])},
         timeline' = timeline, lost' = lost
  PROVE  EventInv' /\ WritesAreTraced'
<1>1. EventInv'
  BY DEF EventInv, EventOf
<1>2. WritesAreTraced'
  BY DEF WritesAreTraced, EventOf
<1> QED BY <1>1, <1>2
-----------------------------------------------------------------------------
(* The rows of the deals table.                                            *)

(***************************************************************************)
(* Rows nobody writes keep RowInv while the stages under them stay.        *)
(***************************************************************************)
LEMMA RowsKept ==
  ASSUME TypeOK, RowInv, Stable, deal' = deal, ingested' = ingested,
         \A d \in Deals : Used(d) => HasRow(deal[d].stage)'
  PROVE  RowInv'
<1>1. StagesExist' /\ ExternalIdsUnique' /\ ClosedIffTerminal'
  BY DEF RowInv, StagesExist, ExternalIdsUnique, ClosedIffTerminal, Used
<1>2. StatusFollowsStage'
  <2> SUFFICES ASSUME NEW d \in Deals, Used(d), d \notin ingested
               PROVE  LET s == deal[d].stage IN
                      /\ stage'[s].pipe = deal[d].pipe
                      /\ s \notin reflagged' => deal[d].status = stage'[s].kind
    BY DEF StatusFollowsStage, Used
  <2>1. deal[d].stage \in Stages /\ stage[deal[d].stage].life # "unused"
    BY DEF TypeOK, DealRow, RowInv, StagesExist, HasRow
  <2> QED BY <2>1 DEF RowInv, StatusFollowsStage, Stable
<1> QED BY <1>1, <1>2 DEF RowInv

(***************************************************************************)
(* One row is written: what the row itself has to satisfy.                 *)
(***************************************************************************)
LEMMA RowWritten ==
  ASSUME TypeOK, RowInv, NEW d \in Deals, NEW row \in DealRow,
         deal' = [deal EXCEPT ![d] = row], stage' = stage, reflagged' = reflagged,
         row.life # "unused", HasRow(row.stage), FreeExt(d, row.ext),
         row.closed <=> row.status # "open",
         ingested \subseteq ingested',
         d \notin ingested' => /\ stage[row.stage].pipe = row.pipe
                               /\ row.stage \notin reflagged => row.status = stage[row.stage].kind
  PROVE  RowInv'
<1>1. deal'[d] = row /\ \A o \in Deals : o # d => deal'[o] = deal[o]
  BY DEF TypeOK
<1>2. StagesExist'
  BY <1>1 DEF RowInv, StagesExist, Used, HasRow
<1>3. ExternalIdsUnique'
  BY <1>1 DEF RowInv, ExternalIdsUnique, Used, FreeExt
<1>4. ClosedIffTerminal'
  BY <1>1 DEF RowInv, ClosedIffTerminal
<1>5. StatusFollowsStage'
  BY <1>1 DEF RowInv, StatusFollowsStage, Used
<1> QED BY <1>2, <1>3, <1>4, <1>5 DEF RowInv

(***************************************************************************)
(* A row update keeps every row used and in its pipeline.                  *)
(***************************************************************************)
LEMMA RowStable ==
  ASSUME TypeOK, NEW d \in Deals, NEW row \in DealRow,
         deal' = [deal EXCEPT ![d] = row], stage' = stage, reflagged' = reflagged,
         row.life # "unused", Used(d) => row.pipe = deal[d].pipe
  PROVE  Stable
BY DEF TypeOK, Stable, Used
-----------------------------------------------------------------------------
(* Steps that read.                                                        *)

LEMMA ReadKeeps ==
  ASSUME DealInv, NEW c \in Calls, NEW r \in Call, call' = [call EXCEPT ![c] = r],
         UNCHANGED <<tables, timeline, history>>, begun' \in 0..MaxCalls,
         call[c].step # "event", r.step # "event", Target(r), Resolved(r)
  PROVE  DealInv'
<1> USE DEF tables, history
<1>1. /\ call' \in [Calls -> Call] /\ call'[c] = r
      /\ \A o \in Calls : o # c => call'[o] = call[o]
  BY CallStep DEF DealInv
<1>2. TypeOK'
  BY <1>1 DEF DealInv, TypeOK, Used
<1>3. Stable
  BY DEF Stable, Used
<1>4. CallInv'
  <2>1. Target(call[c])'
    BY <1>1 DEF Target, Used
  <2>2. Resolved(call[c])'
    BY <1>1 DEF Resolved
  <2> QED BY <1>1, <1>3, <2>1, <2>2, CallsKept DEF DealInv
<1>5. RowInv'
  BY <1>3, RowsKept DEF DealInv, RowInv, StagesExist, HasRow
<1>6. EventInv' /\ WritesAreTraced'
  BY <1>1, TraceKept DEF DealInv
<1> QED BY <1>2, <1>4, <1>5, <1>6 DEF DealInv

LEMMA StartKeeps ==
  ASSUME DealInv, NEW c \in Calls, NEW r \in Call, Starts(c, r),
         UNCHANGED <<tables, timeline, history>>,
         r.step # "event", Target(r), Resolved(r)
  PROVE  DealInv'
<1>1. call[c].step # "event"
  BY DEF Starts, Idle
<1>2. call' = [call EXCEPT ![c] = r] /\ begun' \in 0..MaxCalls
  BY NoneAssumption DEF Starts, Begin, DealInv, TypeOK
<1> QED BY <1>1, <1>2, ReadKeeps

LEMMA EarlyEnd ==
  ASSUME DealInv, NEW c \in Calls, call' = [call EXCEPT ![c] = Idle],
         UNCHANGED <<tables, timeline, history>>, begun' = begun, call[c].step # "event"
  PROVE  DealInv'
<1>1. Idle.step # "event" /\ Target(Idle) /\ Resolved(Idle)
  BY DEF Idle, Target, Resolved
<1>2. begun' \in 0..MaxCalls
  BY DEF DealInv, TypeOK
<1> QED BY <1>1, <1>2, IdleIsCall, ReadKeeps

LEMMA CreateCheckKeeps ==
  ASSUME DealInv, NEW c \in Calls, NEW x \in ExtIds \cup {None}, CreateCheck(c, x)
  PROVE  DealInv'
<1> DEFINE r == [Idle EXCEPT !.op = "create", !.step = "resolve", !.ext = x]
<1>1. r \in Call /\ r.op = "create" /\ r.step = "resolve" /\ r.pipe = None
  BY DEF Idle, Call, Ops, Steps, Kinds
<1>2. Starts(c, r) /\ UNCHANGED <<tables, timeline, history>>
  BY DEF CreateCheck
<1> HIDE DEF r
<1>3. Target(r) /\ Resolved(r)
  BY <1>1 DEF Target, Resolved
<1> QED BY <1>1, <1>2, <1>3, StartKeeps

LEMMA MoveReadKeeps ==
  ASSUME DealInv, NEW c \in Calls, NEW d \in Deals, MoveRead(c, d)
  PROVE  DealInv'
<1> DEFINE r == [Idle EXCEPT !.op = "move", !.step = "resolve", !.id = d, !.pipe = deal[d].pipe]
<1>1. deal[d].life = "live" /\ deal[d].pipe \in Pipelines \cup {None}
  BY DEF MoveRead, DealInv, TypeOK, DealRow
<1>2. r \in Call /\ r.op = "move" /\ r.step = "resolve" /\ r.id = d /\ r.pipe = deal[d].pipe
  BY <1>1 DEF Idle, Call, Ops, Steps, Kinds
<1>3. Starts(c, r) /\ UNCHANGED <<tables, timeline, history>>
  BY DEF MoveRead
<1> HIDE DEF r
<1>4. Target(r) /\ Resolved(r)
  BY <1>1, <1>2 DEF Target, Resolved, Used
<1> QED BY <1>2, <1>3, <1>4, StartKeeps

LEMMA PatchReadKeeps ==
  ASSUME DealInv, NEW c \in Calls, NEW d \in Deals, NEW x \in ExtIds \cup {None},
         PatchRead(c, d, x)
  PROVE  DealInv'
<1> DEFINE y == IF x = None THEN deal[d].ext ELSE x
           r == [Idle EXCEPT !.op = "patch", !.step = "write", !.id = d, !.ext = y]
<1>1. deal[d].life = "live" /\ y \in ExtIds \cup {None}
  BY DEF PatchRead, DealInv, TypeOK, DealRow
<1>2. Starts(c, r) /\ UNCHANGED <<tables, timeline, history>>
  BY DEF PatchRead
<1> HIDE DEF y
<1>3. r \in Call /\ r.op = "patch" /\ r.step = "write" /\ r.id = d
  BY <1>1 DEF Idle, Call, Ops, Steps, Kinds
<1> HIDE DEF r
<1>4. Target(r) /\ Resolved(r)
  BY <1>1, <1>3 DEF Target, Resolved, Used
<1> QED BY <1>2, <1>3, <1>4, StartKeeps

LEMMA DeleteReadKeeps ==
  ASSUME DealInv, NEW c \in Calls, NEW d \in Deals, DeleteRead(c, d)
  PROVE  DealInv'
<1> DEFINE r == [Idle EXCEPT !.op = "delete", !.step = "write", !.id = d]
<1>1. r \in Call /\ r.op = "delete" /\ r.step = "write" /\ r.id = d
  BY DEF Idle, Call, Ops, Steps, Kinds
<1>2. Starts(c, r) /\ UNCHANGED <<tables, timeline, history>> /\ deal[d].life = "live"
  BY DEF DeleteRead
<1> HIDE DEF r
<1>3. Target(r) /\ Resolved(r)
  BY <1>1, <1>2 DEF Target, Resolved, Used
<1> QED BY <1>1, <1>2, <1>3, StartKeeps

LEMMA IngestStartKeeps ==
  ASSUME DealInv, NEW c \in Calls, NEW s \in Stages, IngestStart(c, s)
  PROVE  DealInv'
<1> DEFINE r == [Idle EXCEPT !.op = "ingest", !.step = "row", !.pipe = stage[s].pipe, !.dflt = s]
<1>1. stage[s].pipe \in Pipelines
  BY DEF DealInv, TypeOK, StageRow
<1>2. r \in Call /\ r.op = "ingest" /\ r.step = "row" /\ r.id = None
      /\ r.pipe \in Pipelines /\ r.dflt \in Stages
  BY <1>1 DEF Idle, Call, Ops, Steps, Kinds
<1>3. Starts(c, r) /\ UNCHANGED <<tables, timeline, history>>
  BY DEF IngestStart
<1> HIDE DEF r
<1>4. Target(r) /\ Resolved(r)
  BY <1>2 DEF Target, Resolved
<1> QED BY <1>2, <1>3, <1>4, StartKeeps

LEMMA ResolveKeeps ==
  ASSUME DealInv, NEW c \in Calls, NEW s \in Stages, Resolve(c, s)
  PROVE  DealInv'
<1> DEFINE r == [call[c] EXCEPT !.step = "write", !.stage = s, !.kind = stage[s].kind,
                                !.pipe = PipeOf(c, s)]
<1>1. /\ call[c] \in Call /\ call[c].step = "resolve" /\ stage[s].pipe \in Pipelines
      /\ stage[s].kind \in Kinds /\ HasRow(s)
  BY DEF DealInv, TypeOK, StageRow, Resolve, Offered
<1>2. PipeOf(c, s) \in Pipelines \cup {None}
  BY <1>1 DEF PipeOf, Call
<1>3. /\ r \in Call /\ r.op = call[c].op /\ r.step = "write" /\ r.stage = s
      /\ r.kind = stage[s].kind /\ r.pipe = PipeOf(c, s) /\ r.id = call[c].id
  BY <1>1, <1>2 DEF Call, Steps
<1>4. call' = [call EXCEPT ![c] = r] /\ UNCHANGED <<tables, begun, timeline, history>>
  BY DEF Resolve
<1> HIDE DEF r
<1>5. Target(call[c])
  BY DEF DealInv, CallInv
<1>6. Target(r)
  <2>1. call[c].op \in {"move", "pipeline"} => PipeOf(c, s) = call[c].pipe
    BY <1>5, NoneAssumption DEF PipeOf, Target, DealInv, TypeOK
  <2> QED BY <1>1, <1>3, <1>5, <2>1 DEF Target
<1>7. Resolved(r)
  <2>1. stage[s].life # "unused" /\ (call[c].op = "move" => stage[s].pipe = call[c].pipe)
    BY DEF Resolve, Offered, HasRow
  <2>2. call[c].op \in {"create", "move"} => PipeOf(c, s) = stage[s].pipe
    BY <1>1, <1>5, <2>1 DEF PipeOf, Target
  <2> QED BY <1>3, <2>1, <2>2 DEF Resolved
<1>8. begun' \in 0..MaxCalls
  BY <1>4 DEF DealInv, TypeOK
<1> QED BY <1>1, <1>3, <1>4, <1>6, <1>7, <1>8, ReadKeeps

LEMMA IngestLookupKeeps ==
  ASSUME DealInv, NEW c \in Calls, NEW x \in ExtIds \cup {None}, IngestLookup(c, x)
  PROVE  DealInv'
<1>1. /\ call[c] \in Call /\ call[c].op = "ingest" /\ call[c].step = "row" /\ Target(call[c])
      /\ UNCHANGED <<tables, timeline, history>>
  BY DEF IngestLookup, At, DealInv, TypeOK, CallInv
<1>2. begun' \in 0..MaxCalls
  <2>1. Begin
    BY DEF IngestLookup
  <2>2. begun \in 0..MaxCalls
    BY DEF DealInv, TypeOK
  <2> QED BY <2>1, <2>2, NoneAssumption DEF Begin
<1>3. ASSUME NEW id \in Deals \cup {None}, NEW s \in Stages, id # None => Used(id),
             call' = [call EXCEPT ![c].step = "route", ![c].ext = x, ![c].id = id,
                                  ![c].stage = s]
      PROVE  DealInv'
  <2> DEFINE r == [call[c] EXCEPT !.step = "route", !.ext = x, !.id = id, !.stage = s]
  <2>1. r \in Call /\ r.op = "ingest" /\ r.step = "route" /\ r.id = id /\ r.stage = s
        /\ r.pipe = call[c].pipe /\ r.dflt = call[c].dflt
    BY <1>1 DEF Call, Steps
  <2>2. call' = [call EXCEPT ![c] = r]
    BY <1>3
  <2> HIDE DEF r
  <2>3. Target(r) /\ Resolved(r)
    BY <1>1, <1>3, <2>1 DEF Target, Resolved
  <2> QED BY <1>1, <1>2, <2>1, <2>2, <2>3, ReadKeeps
<1>4. \A d \in Found(x) : d \in Deals /\ Used(d) /\ deal[d].stage \in Stages
  BY DEF Found, Used, DealInv, TypeOK, DealRow
<1>5. call[c].dflt \in Stages
  BY <1>1 DEF Target
<1>6. CASE \E d \in Found(x) :
             call' = [call EXCEPT ![c].step = "route", ![c].ext = x, ![c].id = d,
                                  ![c].stage = deal[d].stage]
  BY <1>3, <1>4, <1>6
<1>7. CASE call' = [call EXCEPT ![c].step = "route", ![c].ext = x, ![c].id = None,
                                ![c].stage = call[c].dflt]
  BY <1>3, <1>5, <1>7
<1> QED BY <1>6, <1>7 DEF IngestLookup

LEMMA IngestRouteKeeps ==
  ASSUME DealInv, NEW c \in Calls, NEW s \in Stages, IngestRoute(c, s)
  PROVE  DealInv'
<1> DEFINE r == [call[c] EXCEPT !.step = "write", !.stage = s]
<1>1. /\ call[c] \in Call /\ call[c].op = "ingest" /\ call[c].step = "route" /\ Target(call[c])
      /\ UNCHANGED <<tables, timeline, history>> /\ begun' \in 0..MaxCalls
  BY DEF IngestRoute, At, DealInv, TypeOK, CallInv
<1>2. r \in Call /\ r.op = "ingest" /\ r.step = "write" /\ r.id = call[c].id /\ r.stage = s
      /\ r.pipe = call[c].pipe /\ r.dflt = call[c].dflt
  BY <1>1 DEF Call, Steps
<1>3. call' = [call EXCEPT ![c] = r]
  BY DEF IngestRoute
<1> HIDE DEF r
<1>4. Target(r) /\ Resolved(r)
  BY <1>1, <1>2 DEF Target, Resolved
<1> QED BY <1>1, <1>2, <1>3, <1>4, ReadKeeps
-----------------------------------------------------------------------------
(* Steps that write a deal.                                                *)

(***************************************************************************)
(* A REST handler writes the row it is entitled to and goes on to its      *)
(* event.                                                                  *)
(***************************************************************************)
LEMMA RestWriteKeeps ==
  ASSUME DealInv, NEW c \in Calls, NEW r \in Call, call' = [call EXCEPT ![c] = r],
         NEW d \in Deals, NEW row \in DealRow, deal' = [deal EXCEPT ![d] = row],
         UNCHANGED <<pipeline, stage, begun, timeline, lost, ingested, reflagged>>,
         written' = written \cup {EventOf(r)},
         call[c].step # "event", r.step = "event", r.op \in {"create", "move", "patch", "delete"},
         r.id = d, r.op = "move" => r.pipe = row.pipe,
         row.life # "unused", row.pipe # None, HasRow(row.stage), row.stage \in Stages,
         FreeExt(d, row.ext), row.closed <=> row.status # "open",
         Used(d) => row.pipe = deal[d].pipe,
         d \notin ingested => /\ stage[row.stage].pipe = row.pipe
                              /\ row.stage \notin reflagged => row.status = stage[row.stage].kind
  PROVE  DealInv'
<1>1. /\ call' \in [Calls -> Call] /\ call'[c] = r
      /\ \A o \in Calls : o # c => call'[o] = call[o]
  BY CallStep DEF DealInv
<1>2. deal'[d] = row /\ \A o \in Deals : o # d => deal'[o] = deal[o]
  BY DEF DealInv, TypeOK
<1>3. TypeOK'
  <2>1. deal' \in [Deals -> DealRow]
    BY DEF DealInv, TypeOK
  <2>2. \A o \in Deals : Used(o)' => deal'[o].pipe # None /\ deal'[o].stage # None
    BY <1>2, NoneAssumption DEF DealInv, TypeOK, Used
  <2>3. EventOf(r) \in Events
    BY NoneAssumption DEF EventOf, Events, Call
  <2> QED BY <1>1, <2>1, <2>2, <2>3 DEF DealInv, TypeOK
<1>4. Stable
  BY RowStable DEF DealInv
<1>5. CallInv'
  <2>1. Target(call[c])'
    BY <1>1, <1>2 DEF Target, Used
  <2>2. Resolved(call[c])'
    BY <1>1 DEF Resolved
  <2> QED BY <1>1, <1>4, <2>1, <2>2, CallsKept DEF DealInv
<1>6. RowInv'
  BY RowWritten DEF DealInv
<1>7. EventInv' /\ WritesAreTraced'
  BY <1>1, TraceWrote DEF DealInv
<1> QED BY <1>3, <1>5, <1>6, <1>7 DEF DealInv

(***************************************************************************)
(* The row a create or an ingest inserts.                                  *)
(***************************************************************************)
LEMMA NewDealType ==
  ASSUME NEW c \in Calls, NEW kind \in Kinds, call[c].ext \in ExtIds \cup {None},
         call[c].pipe \in Pipelines, call[c].stage \in Stages
  PROVE  LET row == NewDeal(c, kind) IN
         /\ row \in DealRow /\ row.life = "live" /\ row.ext = call[c].ext
         /\ row.pipe = call[c].pipe /\ row.stage = call[c].stage /\ row.status = kind
         /\ row.closed <=> row.status # "open"
BY DEF NewDeal, DealRow, Lives, Kinds

LEMMA CreateInsertKeeps ==
  ASSUME DealInv, NEW c \in Calls, NEW d \in Deals, CreateInsert(c, d)
  PROVE  DealInv'
<1> DEFINE ok == FreeExt(d, call[c].ext) /\ HasRow(call[c].stage)
<1>1. /\ call[c] \in Call /\ call[c].op = "create" /\ call[c].step = "write"
      /\ Resolved(call[c]) /\ deal[d] = NoDeal
      /\ begun' = begun /\ timeline' = timeline
  BY DEF CreateInsert, At, DealInv, TypeOK, CallInv
<1>2. CASE ok
  <2> DEFINE r == [call[c] EXCEPT !.step = "event", !.id = d]
             row == NewDeal(c, call[c].kind)
  <2>1. /\ call' = [call EXCEPT ![c] = r]
        /\ deal' = [deal EXCEPT ![d] = row]
        /\ written' = written \cup {EventOf(call'[c])}
        /\ UNCHANGED <<pipeline, stage, lost, ingested, reflagged>>
    BY <1>2 DEF CreateInsert
  <2>2. r \in Call /\ r.op = "create" /\ r.step = "event" /\ r.id = d
    BY <1>1 DEF Call, Steps
  <2>3. /\ call[c].stage \in Stages /\ call[c].pipe = stage[call[c].stage].pipe
        /\ call[c].stage \notin reflagged => call[c].kind = stage[call[c].stage].kind
        /\ call[c].pipe \in Pipelines
    BY <1>1 DEF Resolved, DealInv, TypeOK, StageRow
  <2>4. /\ row \in DealRow /\ row.life = "live" /\ row.pipe = call[c].pipe
        /\ row.stage = call[c].stage /\ row.ext = call[c].ext /\ row.status = call[c].kind
        /\ row.closed <=> row.status # "open"
    BY <1>1, <2>3, NewDealType DEF Call
  <2> HIDE DEF r, row
  <2>5. call'[c] = r
    BY <2>1, <2>2, CallStep DEF DealInv
  <2>6. ~Used(d) /\ call[c].pipe # None
    BY <1>1, <2>3, NoneAssumption DEF Used, NoDeal
  <2> QED BY <1>1, <1>2, <2>1, <2>2, <2>3, <2>4, <2>5, <2>6, RestWriteKeeps
<1>3. CASE ~ok
  <2>1. Refused(c)
    BY <1>3 DEF CreateInsert
  <2> QED BY <1>1, <2>1, EarlyEnd DEF Refused, AfterRefusal
<1> QED BY <1>2, <1>3

(***************************************************************************)
(* The writes of move, patch and delete: the row read by id is there.      *)
(***************************************************************************)
LEMMA UpdateKeeps ==
  ASSUME DealInv, NEW c \in Calls, call[c].op \in {"move", "patch", "delete"},
         call[c].step = "write", Wrote(c),
         NEW row \in DealRow, deal' = [deal EXCEPT ![call[c].id] = row],
         UNCHANGED <<pipeline, stage, begun, timeline, lost, ingested, reflagged>>,
         row.life # "unused", row.pipe = deal[call[c].id].pipe,
         HasRow(row.stage), row.stage \in Stages, FreeExt(call[c].id, row.ext),
         row.closed <=> row.status # "open",
         call[c].id \notin ingested =>
            /\ stage[row.stage].pipe = row.pipe
            /\ row.stage \notin reflagged => row.status = stage[row.stage].kind
  PROVE  DealInv'
<1> DEFINE r == [call[c] EXCEPT !.step = "event"]
           d == call[c].id
<1>1. call[c] \in Call /\ Target(call[c])
  BY DEF DealInv, TypeOK, CallInv
<1>2. d \in Deals /\ Used(d)
  BY <1>1 DEF Target
<1>3. r \in Call /\ r.op = call[c].op /\ r.step = "event" /\ r.id = d /\ r.pipe = call[c].pipe
  BY <1>1 DEF Call, Steps
<1>4. call' = [call EXCEPT ![c] = r] /\ written' = written \cup {EventOf(r)}
  BY <1>1 DEF Wrote, Goto, EventOf, Call
<1>5. call[c].op = "move" => r.pipe = row.pipe
  BY <1>1, <1>3 DEF Target
<1>6. row.pipe # None
  BY <1>2 DEF DealInv, TypeOK
<1> HIDE DEF r, d
<1>7. /\ deal' = [deal EXCEPT ![d] = row] /\ row.pipe = deal[d].pipe
      /\ FreeExt(d, row.ext)
      /\ d \notin ingested =>
            /\ stage[row.stage].pipe = row.pipe
            /\ row.stage \notin reflagged => row.status = stage[row.stage].kind
  BY DEF d
<1>8. d \in Deals /\ Used(d)
  BY <1>2
<1>9. /\ call[c].step # "event" /\ r.op \in {"create", "move", "patch", "delete"}
      /\ r.op = "move" => r.pipe = row.pipe
  BY <1>3, <1>5
<1>10. /\ begun' = begun /\ timeline' = timeline /\ pipeline' = pipeline /\ stage' = stage
       /\ lost' = lost /\ ingested' = ingested /\ reflagged' = reflagged
  OBVIOUS
<1> QED BY ONLY DealInv, c \in Calls, row \in DealRow, row.life # "unused", HasRow(row.stage),
         row.stage \in Stages, row.closed <=> row.status # "open",
         <1>3, <1>4, <1>6, <1>7, <1>8, <1>9, <1>10, RestWriteKeeps

(***************************************************************************)
(* The row a request names, as the invariants describe it.                 *)
(***************************************************************************)
LEMMA NamedRow ==
  ASSUME DealInv, NEW c \in Calls, call[c].op \in {"move", "patch", "delete"}
  PROVE  LET d == call[c].id IN
         /\ call[c] \in Call /\ d \in Deals /\ Used(d) /\ deal[d] \in DealRow
         /\ deal[d].stage \in Stages /\ HasRow(deal[d].stage)
         /\ FreeExt(d, deal[d].ext)
         /\ deal[d].closed <=> deal[d].status # "open"
         /\ d \notin ingested =>
              /\ stage[deal[d].stage].pipe = deal[d].pipe
              /\ deal[d].stage \notin reflagged => deal[d].status = stage[deal[d].stage].kind
<1> DEFINE d == call[c].id
<1>1. call[c] \in Call /\ d \in Deals /\ Used(d)
  BY DEF DealInv, TypeOK, CallInv, Target
<1>2. deal[d] \in DealRow /\ deal[d].stage \in Stages
  BY <1>1 DEF DealInv, TypeOK, DealRow
<1>3. HasRow(deal[d].stage)
  BY <1>1 DEF DealInv, RowInv, StagesExist
<1>4. FreeExt(d, deal[d].ext)
  BY <1>1 DEF DealInv, RowInv, ExternalIdsUnique, FreeExt
<1>5. deal[d].closed <=> deal[d].status # "open"
  BY <1>1 DEF DealInv, RowInv, ClosedIffTerminal
<1>6. d \notin ingested =>
        /\ stage[deal[d].stage].pipe = deal[d].pipe
        /\ deal[d].stage \notin reflagged => deal[d].status = stage[deal[d].stage].kind
  BY <1>1 DEF DealInv, RowInv, StatusFollowsStage
<1> QED BY <1>1, <1>2, <1>3, <1>4, <1>5, <1>6

LEMMA MoveWriteKeeps ==
  ASSUME DealInv, NEW c \in Calls, MoveWrite(c)
  PROVE  DealInv'
<1> DEFINE d == call[c].id
<1>1. /\ call[c].op = "move" /\ call[c].step = "write"
      /\ Target(call[c]) /\ Resolved(call[c])
      /\ begun' = begun /\ timeline' = timeline
  BY DEF MoveWrite, At, DealInv, CallInv
<1>2. CASE HasRow(call[c].stage)
  <2> DEFINE row == Moved(c, d)
  <2>1. /\ deal' = [deal EXCEPT ![d] = row] /\ Wrote(c)
        /\ UNCHANGED <<pipeline, stage, begun, timeline, lost, ingested, reflagged>>
    BY <1>2 DEF MoveWrite
  <2>2. /\ call[c] \in Call /\ d \in Deals /\ Used(d) /\ deal[d] \in DealRow
        /\ FreeExt(d, deal[d].ext)
    BY <1>1, NamedRow
  <2>3. /\ call[c].stage \in Stages /\ call[c].pipe = stage[call[c].stage].pipe
        /\ call[c].stage \notin reflagged => call[c].kind = stage[call[c].stage].kind
        /\ call[c].pipe = deal[d].pipe
    BY <1>1 DEF Resolved, Target
  <2>4. /\ row \in DealRow /\ row.life = deal[d].life /\ row.pipe = deal[d].pipe
        /\ row.stage = call[c].stage /\ row.ext = deal[d].ext /\ row.status = call[c].kind
        /\ row.closed <=> row.status # "open"
    BY <2>2, <2>3 DEF Moved, DealRow, Call
  <2> HIDE DEF row
  <2> QED BY <1>1, <1>2, <2>1, <2>2, <2>3, <2>4, UpdateKeeps DEF Used
<1>3. CASE ~HasRow(call[c].stage)
  <2>1. Refused(c)
    BY <1>3 DEF MoveWrite
  <2> QED BY <1>1, <2>1, EarlyEnd DEF Refused, AfterRefusal
<1> QED BY <1>2, <1>3

LEMMA PatchWriteKeeps ==
  ASSUME DealInv, NEW c \in Calls, PatchWrite(c)
  PROVE  DealInv'
<1> DEFINE d == call[c].id
<1>1. /\ call[c].op = "patch" /\ call[c].step = "write"
      /\ begun' = begun /\ timeline' = timeline
  BY DEF PatchWrite, At
<1>2. CASE FreeExt(d, call[c].ext)
  <2> DEFINE row == Patched(c, d)
  <2>1. /\ deal' = [deal EXCEPT ![d] = row] /\ Wrote(c)
        /\ UNCHANGED <<pipeline, stage, begun, timeline, lost, ingested, reflagged>>
    BY <1>2 DEF PatchWrite
  <2>2. /\ call[c] \in Call /\ d \in Deals /\ Used(d) /\ deal[d] \in DealRow
        /\ deal[d].stage \in Stages /\ HasRow(deal[d].stage)
        /\ deal[d].closed <=> deal[d].status # "open"
        /\ d \notin ingested =>
             /\ stage[deal[d].stage].pipe = deal[d].pipe
             /\ deal[d].stage \notin reflagged => deal[d].status = stage[deal[d].stage].kind
    BY <1>1, NamedRow
  <2>3. /\ row \in DealRow /\ row.life = deal[d].life /\ row.pipe = deal[d].pipe
        /\ row.stage = deal[d].stage /\ row.ext = call[c].ext /\ row.status = deal[d].status
        /\ row.closed = deal[d].closed
    BY <2>2 DEF Patched, DealRow, Call
  <2> HIDE DEF row
  <2> QED BY <1>1, <1>2, <2>1, <2>2, <2>3, UpdateKeeps DEF Used
<1>3. CASE ~FreeExt(d, call[c].ext)
  <2>1. Refused(c)
    BY <1>3 DEF PatchWrite
  <2> QED BY <1>1, <2>1, EarlyEnd DEF Refused, AfterRefusal
<1> QED BY <1>2, <1>3

LEMMA DeleteWriteKeeps ==
  ASSUME DealInv, NEW c \in Calls, DeleteWrite(c)
  PROVE  DealInv'
<1> DEFINE d == call[c].id
           row == [deal[d] EXCEPT !.life = "deleted"]
<1>1. /\ call[c].op = "delete" /\ call[c].step = "write" /\ Wrote(c)
      /\ deal' = [deal EXCEPT ![d] = row]
      /\ UNCHANGED <<pipeline, stage, begun, timeline, lost, ingested, reflagged>>
  BY DEF DeleteWrite, At
<1>2. /\ call[c] \in Call /\ d \in Deals /\ Used(d) /\ deal[d] \in DealRow
      /\ deal[d].stage \in Stages /\ HasRow(deal[d].stage)
      /\ FreeExt(d, deal[d].ext)
      /\ deal[d].closed <=> deal[d].status # "open"
      /\ d \notin ingested =>
           /\ stage[deal[d].stage].pipe = deal[d].pipe
           /\ deal[d].stage \notin reflagged => deal[d].status = stage[deal[d].stage].kind
  BY <1>1, NamedRow
<1>3. /\ row \in DealRow /\ row.life = "deleted" /\ row.pipe = deal[d].pipe
      /\ row.stage = deal[d].stage /\ row.ext = deal[d].ext /\ row.status = deal[d].status
      /\ row.closed = deal[d].closed
  BY <1>2 DEF DealRow, Lives
<1> HIDE DEF row
<1> QED BY <1>1, <1>2, <1>3, UpdateKeeps

(***************************************************************************)
(* An ingest writes the row it found, or a new one in a stage that exists. *)
(***************************************************************************)
LEMMA IngestWriteKeeps ==
  ASSUME DealInv, NEW c \in Calls, NEW d \in Deals, IngestWrite(c, d)
  PROVE  DealInv'
<1> DEFINE ok == FreeExt(d, call[c].ext) /\ HasRow(call[c].stage)
           row == Upserted(c, d)
<1>1. /\ call[c] \in Call /\ call[c].op = "ingest" /\ call[c].step = "write"
      /\ Target(call[c]) /\ Goto(c, "row")
      /\ IF call[c].id = None THEN deal[d] = NoDeal ELSE d = call[c].id
      /\ UNCHANGED <<pipeline, stage, begun, timeline, written, lost, reflagged>>
  BY DEF IngestWrite, At, DealInv, TypeOK, CallInv
<1>2. /\ call' \in [Calls -> Call]
      /\ call'[c].step = "row" /\ call'[c].op = "ingest" /\ call'[c].id = call[c].id
      /\ call'[c].pipe = call[c].pipe /\ call'[c].dflt = call[c].dflt
      /\ \A o \in Calls : o # c => call'[o] = call[o]
  <2> DEFINE r == [call[c] EXCEPT !.step = "row"]
  <2>1. r \in Call /\ r.step = "row" /\ r.op = "ingest" /\ r.id = call[c].id
        /\ r.pipe = call[c].pipe /\ r.dflt = call[c].dflt
    BY <1>1 DEF Call, Steps
  <2>2. call' = [call EXCEPT ![c] = r]
    BY <1>1 DEF Goto
  <2> HIDE DEF r
  <2> QED BY <2>1, <2>2, CallStep DEF DealInv
<1>3. EventInv' /\ WritesAreTraced'
  BY <1>1, <1>2, TraceKept DEF DealInv
<1>4. CASE ok
  <2>1. deal' = [deal EXCEPT ![d] = row] /\ ingested' = ingested \cup {d}
    BY <1>4 DEF IngestWrite
  <2>2. /\ call[c].pipe \in Pipelines /\ call[c].stage \in Stages
        /\ call[c].ext \in ExtIds \cup {None}
        /\ call[c].id # None => d \in Deals /\ Used(d)
    BY <1>1 DEF Target, Call
  <2>3. /\ row \in DealRow /\ row.life # "unused" /\ row.ext = call[c].ext
        /\ row.stage = call[c].stage /\ row.pipe # None
        /\ row.closed <=> row.status # "open"
        /\ Used(d) => row.pipe = deal[d].pipe
    <3>1. CASE call[c].id = None
      <4>1. row = NewDeal(c, "open") /\ ~Used(d)
        BY <1>1, <3>1 DEF Upserted, Used, NoDeal
      <4>2. /\ row.life = "live" /\ row.ext = call[c].ext /\ row.pipe = call[c].pipe
            /\ row.stage = call[c].stage /\ row.status = "open"
            /\ row.closed <=> row.status # "open"
            /\ row \in DealRow
        BY <2>2, <4>1, NewDealType DEF Kinds
      <4> QED BY <2>2, <4>1, <4>2, NoneAssumption
    <3>2. CASE call[c].id # None
      <4>1. row = [deal[d] EXCEPT !.ext = call[c].ext, !.stage = call[c].stage]
        BY <3>2 DEF Upserted
      <4>2. deal[d] \in DealRow /\ deal[d].pipe # None /\ (deal[d].closed <=> deal[d].status # "open")
        BY <2>2, <3>2 DEF DealInv, TypeOK, RowInv, ClosedIffTerminal
      <4>3. /\ row.life = deal[d].life /\ row.ext = call[c].ext /\ row.pipe = deal[d].pipe
            /\ row.stage = call[c].stage /\ row.status = deal[d].status
            /\ row.closed = deal[d].closed /\ row \in DealRow
        BY <2>2, <4>1, <4>2 DEF DealRow
      <4> QED BY <2>2, <3>2, <4>2, <4>3 DEF Used
    <3> QED BY <3>1, <3>2
  <2> HIDE DEF row
  <2>4. deal'[d] = row /\ \A o \in Deals : o # d => deal'[o] = deal[o]
    BY <2>1 DEF DealInv, TypeOK
  <2>5. TypeOK'
    <3>1. deal' \in [Deals -> DealRow]
      BY <2>1, <2>3 DEF DealInv, TypeOK
    <3>2. \A o \in Deals : Used(o)' => deal'[o].pipe # None /\ deal'[o].stage # None
      BY <2>2, <2>3, <2>4, NoneAssumption DEF DealInv, TypeOK, Used
    <3> QED BY <1>1, <1>2, <2>1, <3>1, <3>2 DEF DealInv, TypeOK
  <2>6. Stable
    BY <1>1, <2>1, <2>3, RowStable DEF DealInv
  <2>7. CallInv'
    <3>1. Target(call[c])'
      BY <1>1, <1>2, <2>2, <2>3, <2>4 DEF Target, Used
    <3>2. Resolved(call[c])'
      BY <1>2 DEF Resolved
    <3> QED BY <1>2, <2>6, <3>1, <3>2, CallsKept DEF DealInv
  <2>8. RowInv'
    BY <1>1, <1>4, <2>1, <2>3, RowWritten DEF DealInv
  <2> QED BY <1>3, <2>5, <2>7, <2>8 DEF DealInv
<1>5. CASE ~ok
  <2>1. deal' = deal /\ ingested' = ingested
    BY <1>5 DEF IngestWrite
  <2>2. Stable
    BY <1>1, <2>1 DEF Stable, Used
  <2>3. CallInv'
    <3>1. Target(call[c])'
      BY <1>1, <1>2, <2>1 DEF Target, Used
    <3>2. Resolved(call[c])'
      BY <1>2 DEF Resolved
    <3> QED BY <1>2, <2>2, <3>1, <3>2, CallsKept DEF DealInv
  <2>4. RowInv'
    BY <1>1, <2>1, <2>2, RowsKept DEF DealInv, RowInv, StagesExist, HasRow
  <2>5. TypeOK'
    BY <1>1, <1>2, <2>1 DEF DealInv, TypeOK, Used
  <2> QED BY <1>3, <2>3, <2>4, <2>5 DEF DealInv
<1> QED BY <1>4, <1>5
-----------------------------------------------------------------------------
(* Steps that end a request.                                               *)

LEMMA RecordEventKeeps ==
  ASSUME DealInv, NEW c \in Calls, RecordEvent(c)
  PROVE  DealInv'
<1>1. /\ call' \in [Calls -> Call] /\ call'[c] = Idle
      /\ \A o \in Calls : o # c => call'[o] = call[o]
  BY IdleIsCall, CallStep DEF RecordEvent, DealInv
<1>2. /\ call[c].step = "event" /\ timeline' = timeline \cup {EventOf(call[c])}
      /\ UNCHANGED <<pipeline, stage, deal, begun, written, lost, ingested, reflagged>>
  BY DEF RecordEvent, tables, history
<1>3. EventOf(call[c]) \in written
  BY <1>2 DEF DealInv, EventInv
<1>4. TypeOK'
  BY <1>1, <1>2, <1>3 DEF DealInv, TypeOK, Used
<1>5. Stable
  BY <1>2 DEF Stable, Used
<1>6. CallInv'
  <2>1. Target(call[c])' /\ Resolved(call[c])'
    BY <1>1 DEF Target, Resolved, Idle
  <2> QED BY <1>1, <1>5, <2>1, CallsKept DEF DealInv
<1>7. RowInv'
  BY <1>2, <1>5, RowsKept DEF DealInv, RowInv, StagesExist, HasRow
<1>8. EventInv'
  BY <1>1, <1>2 DEF DealInv, EventInv, EventOf, Idle
<1>9. WritesAreTraced'
  BY <1>1, <1>2, <1>3 DEF DealInv, WritesAreTraced, EventOf
<1> QED BY <1>4, <1>6, <1>7, <1>8, <1>9 DEF DealInv

LEMMA EndsKeeps ==
  ASSUME DealInv, NEW c \in Calls, Ends(c)
  PROVE  DealInv'
<1>1. CASE call[c].step # "event"
  <2>1. /\ call' = [call EXCEPT ![c] = Idle] /\ begun' = begun
        /\ UNCHANGED <<tables, timeline, history>>
    BY <1>1 DEF Ends, history
  <2> QED BY <1>1, <2>1, EarlyEnd
<1>2. CASE call[c].step = "event"
  <2>1. /\ call' \in [Calls -> Call] /\ call'[c] = Idle
        /\ \A o \in Calls : o # c => call'[o] = call[o]
    BY IdleIsCall, CallStep DEF Ends, DealInv
  <2>2. /\ lost' = lost \cup {EventOf(call[c])}
        /\ UNCHANGED <<pipeline, stage, deal, begun, timeline, written, ingested, reflagged>>
    BY <1>2 DEF Ends, tables
  <2>3. EventOf(call[c]) \in written
    BY <1>2 DEF DealInv, EventInv
  <2>4. TypeOK'
    BY <2>1, <2>2, <2>3 DEF DealInv, TypeOK, Used
  <2>5. Stable
    BY <2>2 DEF Stable, Used
  <2>6. CallInv'
    <3>1. Target(call[c])' /\ Resolved(call[c])'
      BY <2>1 DEF Target, Resolved, Idle
    <3> QED BY <2>1, <2>5, <3>1, CallsKept DEF DealInv
  <2>7. RowInv'
    BY <2>2, <2>5, RowsKept DEF DealInv, RowInv, StagesExist, HasRow
  <2>8. EventInv'
    BY <2>1, <2>2 DEF DealInv, EventInv, EventOf, Idle
  <2>9. WritesAreTraced'
    BY <2>1, <2>2 DEF DealInv, WritesAreTraced, EventOf
  <2> QED BY <2>4, <2>6, <2>7, <2>8, <2>9 DEF DealInv
<1> QED BY <1>1, <1>2
-----------------------------------------------------------------------------
(* The admin handlers.                                                     *)

(***************************************************************************)
(* A step that changes pipelines and stages only, and no request.          *)
(***************************************************************************)
LEMMA AdminKeeps ==
  ASSUME DealInv, Stable, begun' \in 0..MaxCalls,
         pipeline' \in [Pipelines -> PipeRow], stage' \in [Stages -> StageRow],
         reflagged' \subseteq Stages,
         UNCHANGED <<deal, call, timeline, written, lost, ingested>>,
         \A d \in Deals : Used(d) => HasRow(deal[d].stage)'
  PROVE  DealInv'
<1>1. TypeOK'
  BY DEF DealInv, TypeOK, Used
<1>2. CallInv'
  BY CallsStand DEF DealInv
<1>3. RowInv'
  BY RowsKept DEF DealInv
<1>4. EventInv' /\ WritesAreTraced'
  BY DEF DealInv, EventInv, WritesAreTraced
<1> QED BY <1>1, <1>2, <1>3, <1>4 DEF DealInv

LEMMA BeginType ==
  ASSUME DealInv, Begin
  PROVE  begun' \in 0..MaxCalls
<1>1. begun \in 0..MaxCalls
  BY DEF DealInv, TypeOK
<1> QED BY <1>1, NoneAssumption DEF Begin

LEMMA StageTyped ==
  ASSUME DealInv
  PROVE  /\ pipeline \in [Pipelines -> PipeRow] /\ stage \in [Stages -> StageRow]
         /\ reflagged \subseteq Stages
         /\ \A d \in Deals : Used(d) => HasRow(deal[d].stage) /\ deal[d].stage \in Stages
BY DEF DealInv, TypeOK, DealRow, RowInv, StagesExist

LEMMA NewStageType ==
  ASSUME NEW p \in Pipelines, NEW kind \in Kinds
  PROVE  NewStage(p, kind) \in StageRow
BY DEF NewStage, StageRow, Lives

LEMMA PatchPipelineKeeps ==
  ASSUME DealInv, NEW p \in Pipelines, NEW flag \in {"plain", "default"}, PatchPipeline(p, flag)
  PROVE  DealInv'
<1>1. pipeline' \in [Pipelines -> PipeRow] /\ begun' \in 0..MaxCalls
  BY StageTyped, BeginType DEF PatchPipeline, PipeRow
<1>2. UNCHANGED <<stage, deal, call, timeline, written, lost, ingested, reflagged>>
  BY DEF PatchPipeline, history
<1>3. Stable
  BY <1>2 DEF Stable, Used
<1> QED BY <1>1, <1>2, <1>3, StageTyped, AdminKeeps DEF HasRow

LEMMA CreateStageKeeps ==
  ASSUME DealInv, NEW s \in Stages, NEW p \in Pipelines, NEW kind \in Kinds,
         CreateStage(s, p, kind)
  PROVE  DealInv'
<1>1. /\ stage[s].life = "unused" /\ stage' = [stage EXCEPT ![s] = NewStage(p, kind)]
      /\ UNCHANGED <<pipeline, deal, call, timeline, written, lost, ingested, reflagged>>
      /\ begun' \in 0..MaxCalls
  BY BeginType DEF CreateStage, history
<1>2. stage' \in [Stages -> StageRow] /\ \A t \in Stages : t # s => stage'[t] = stage[t]
  BY <1>1, NewStageType, StageTyped
<1>3. Stable
  BY <1>1, <1>2 DEF Stable, Used
<1>4. \A d \in Deals : Used(d) => HasRow(deal[d].stage)'
  BY <1>1, <1>2, StageTyped DEF HasRow
<1> QED BY <1>1, <1>2, <1>3, <1>4, StageTyped, AdminKeeps

LEMMA PatchStageKeeps ==
  ASSUME DealInv, NEW s \in Stages, NEW kind \in Kinds, PatchStage(s, kind)
  PROVE  DealInv'
<1> DEFINE row == [stage[s] EXCEPT !.kind = kind]
<1>1. /\ stage' = [stage EXCEPT ![s] = row] /\ reflagged' = reflagged \cup {s}
      /\ UNCHANGED <<pipeline, deal, call, timeline, written, lost, ingested>>
      /\ begun' \in 0..MaxCalls
  BY BeginType DEF PatchStage
<1>2. row \in StageRow /\ row.life = stage[s].life /\ row.pipe = stage[s].pipe
  BY StageTyped DEF StageRow
<1> HIDE DEF row
<1>3. /\ stage' \in [Stages -> StageRow] /\ stage'[s] = row
      /\ \A t \in Stages : t # s => stage'[t] = stage[t]
  BY <1>1, <1>2, StageTyped
<1>4. Stable
  BY <1>1, <1>2, <1>3 DEF Stable, Used
<1>5. \A d \in Deals : Used(d) => HasRow(deal[d].stage)'
  BY <1>1, <1>2, <1>3, StageTyped DEF HasRow
<1> QED BY <1>1, <1>3, <1>4, <1>5, StageTyped, AdminKeeps

LEMMA DeleteStageKeeps ==
  ASSUME DealInv, NEW s \in Stages, DeleteStage(s)
  PROVE  DealInv'
<1> DEFINE row == [stage[s] EXCEPT !.life = "deleted"]
<1>1. /\ stage' = [stage EXCEPT ![s] = row]
      /\ UNCHANGED <<pipeline, deal, call, timeline, written, lost, ingested, reflagged>>
      /\ begun' \in 0..MaxCalls /\ ~Restricts(s)
  BY BeginType DEF DeleteStage, history
<1>2. row \in StageRow /\ row.life = "deleted" /\ row.pipe = stage[s].pipe
      /\ row.kind = stage[s].kind
  BY StageTyped DEF StageRow, Lives
<1> HIDE DEF row
<1>3. /\ stage' \in [Stages -> StageRow] /\ stage'[s] = row
      /\ \A t \in Stages : t # s => stage'[t] = stage[t]
  BY <1>1, <1>2, StageTyped
<1>4. Stable
  BY <1>1, <1>2, <1>3 DEF Stable, Used
<1>5. \A d \in Deals : Used(d) => HasRow(deal[d].stage)'
  BY <1>1, <1>3, StageTyped DEF HasRow, Restricts
<1> QED BY <1>1, <1>3, <1>4, <1>5, StageTyped, AdminKeeps

LEMMA PipelineInsertKeeps ==
  ASSUME DealInv, NEW c \in Calls, NEW p \in Pipelines, NEW flag \in {"plain", "default"},
         PipelineInsert(c, p, flag)
  PROVE  DealInv'
<1> DEFINE r == [Idle EXCEPT !.op = "pipeline", !.step = "stages", !.id = p, !.pipe = p]
<1>1. r \in Call /\ r.op = "pipeline" /\ r.step = "stages" /\ r.id = p /\ r.pipe = p
  BY DEF Idle, Call, Ops, Steps, Kinds
<1>2. /\ Starts(c, r) /\ pipeline' = [pipeline EXCEPT ![p] = flag]
      /\ UNCHANGED <<stage, deal, timeline, written, lost, ingested, reflagged>>
  BY DEF PipelineInsert, history
<1> HIDE DEF r
<1>3. /\ call' = [call EXCEPT ![c] = r] /\ begun' \in 0..MaxCalls
      /\ call[c].step # "event"
  BY <1>2, BeginType DEF Starts, Idle
<1>4. /\ call' \in [Calls -> Call] /\ call'[c] = r
      /\ \A o \in Calls : o # c => call'[o] = call[o]
  BY <1>1, <1>3, CallStep DEF DealInv
<1>5. TypeOK'
  <2>1. pipeline' \in [Pipelines -> PipeRow]
    BY <1>2, StageTyped DEF PipeRow
  <2> QED BY <1>2, <1>3, <1>4, <2>1 DEF DealInv, TypeOK, Used
<1>6. Stable
  BY <1>2 DEF Stable, Used
<1>7. CallInv'
  <2>1. Target(call[c])' /\ Resolved(call[c])'
    BY <1>1, <1>4 DEF Target, Resolved
  <2> QED BY <1>4, <1>6, <2>1, CallsKept DEF DealInv
<1>8. RowInv'
  BY <1>2, <1>6, StageTyped, RowsKept DEF DealInv, HasRow
<1>9. EventInv' /\ WritesAreTraced'
  BY <1>1, <1>2, <1>3, <1>4, TraceKept DEF DealInv
<1> QED BY <1>5, <1>7, <1>8, <1>9 DEF DealInv

LEMMA StagesInsertKeeps ==
  ASSUME DealInv, NEW c \in Calls, NEW new \in SUBSET Stages, NEW kinds \in [Stages -> Kinds],
         StagesInsert(c, new, kinds)
  PROVE  DealInv'
<1> DEFINE r == [call[c] EXCEPT !.step = "event"]
<1>1. /\ call[c] \in Call /\ call[c].op = "pipeline" /\ call[c].step = "stages"
      /\ Target(call[c]) /\ Wrote(c)
      /\ \A s \in new : stage[s].life = "unused"
      /\ UNCHANGED <<pipeline, deal, begun, timeline, lost, ingested, reflagged>>
  BY DEF StagesInsert, At, DealInv, TypeOK, CallInv
<1>2. call[c].id \in Pipelines /\ call[c].pipe \in Pipelines
  BY <1>1 DEF Target
<1>3. r \in Call /\ r.op = "pipeline" /\ r.step = "event" /\ r.id = call[c].id
      /\ r.pipe = call[c].pipe /\ r.stage = call[c].stage
  BY <1>1 DEF Call, Steps
<1>4. call' = [call EXCEPT ![c] = r] /\ written' = written \cup {EventOf(r)}
  BY <1>1 DEF Wrote, Goto, EventOf, Call
<1> HIDE DEF r
<1>5. /\ call' \in [Calls -> Call] /\ call'[c] = r
      /\ \A o \in Calls : o # c => call'[o] = call[o]
  BY <1>3, <1>4, CallStep DEF DealInv
<1>6. /\ stage' \in [Stages -> StageRow]
      /\ \A s \in Stages : stage[s].life # "unused" => stage'[s] = stage[s]
  <2>1. \A s \in Stages : NewStage(call[c].pipe, kinds[s]) \in StageRow
    BY <1>2, NewStageType
  <2>2. stage' = [s \in Stages |-> IF s \in new THEN NewStage(call[c].pipe, kinds[s])
                                   ELSE stage[s]]
    BY DEF StagesInsert
  <2> QED BY <1>1, <2>1, <2>2, StageTyped
<1>7. EventOf(r) \in Events
  BY <1>2, <1>3 DEF EventOf, Events, Call
<1>8. TypeOK'
  BY <1>1, <1>4, <1>5, <1>6, <1>7 DEF DealInv, TypeOK, Used
<1>9. Stable
  BY <1>1, <1>6 DEF Stable, Used
<1>10. CallInv'
  <2>1. Target(call[c])' /\ Resolved(call[c])'
    BY <1>2, <1>3, <1>5 DEF Target, Resolved
  <2> QED BY <1>5, <1>9, <2>1, CallsKept DEF DealInv
<1>11. RowInv'
  <2>1. \A d \in Deals : Used(d) => HasRow(deal[d].stage)'
    BY <1>1, <1>6, StageTyped DEF HasRow
  <2> QED BY <1>1, <1>9, <2>1, RowsKept DEF DealInv
<1>12. EventInv' /\ WritesAreTraced'
  BY <1>1, <1>3, <1>4, <1>5, TraceWrote DEF DealInv
<1> QED BY <1>8, <1>10, <1>11, <1>12 DEF DealInv
-----------------------------------------------------------------------------
(* The theorems.                                                           *)

LEMMA InitHolds == Init => DealInv
<1> SUFFICES ASSUME Init PROVE DealInv
  OBVIOUS
<1> USE DEF Init
<1>1. TypeOK
  <2>1. deal \in [Deals -> DealRow]
    BY DEF NoDeal, DealRow, Lives, Kinds
  <2>2. call \in [Calls -> Call]
    BY IdleIsCall
  <2>3. \A d \in Deals : ~Used(d)
    BY DEF Used, NoDeal
  <2>4. begun \in 0..MaxCalls
    BY NoneAssumption
  <2> QED BY <2>1, <2>2, <2>3, <2>4, SeedAssumption DEF TypeOK
<1>2. CallInv
  BY DEF CallInv, Target, Resolved, Idle
<1>3. RowInv
  BY DEF RowInv, StagesExist, ExternalIdsUnique, ClosedIffTerminal, StatusFollowsStage, Used,
         NoDeal
<1>4. EventInv /\ WritesAreTraced
  BY DEF EventInv, WritesAreTraced, Idle
<1> QED BY <1>1, <1>2, <1>3, <1>4 DEF DealInv

LEMMA StepKeeps == DealInv /\ [Next]_vars => DealInv'
<1> SUFFICES ASSUME DealInv, [Next]_vars PROVE DealInv'
  OBVIOUS
<1>1. ASSUME NEW c \in Calls, DealCall(c) PROVE DealInv'
  BY <1>1, CreateCheckKeeps, ResolveKeeps, CreateInsertKeeps, MoveReadKeeps, DeleteReadKeeps,
     PatchReadKeeps, MoveWriteKeeps, PatchWriteKeeps, DeleteWriteKeeps, RecordEventKeeps,
     EndsKeeps DEF DealCall
<1>2. ASSUME NEW c \in Calls, Ingest(c) PROVE DealInv'
  BY <1>2, IngestStartKeeps, IngestRouteKeeps, IngestLookupKeeps, IngestWriteKeeps DEF Ingest
<1>3. CASE Admin
  BY <1>3, PipelineInsertKeeps, StagesInsertKeeps, PatchPipelineKeeps, CreateStageKeeps,
     PatchStageKeeps, DeleteStageKeeps DEF Admin
<1>4. CASE UNCHANGED vars
  <2>1. Stable /\ begun' \in 0..MaxCalls
    BY <1>4 DEF vars, history, Stable, Used, DealInv, TypeOK
  <2> QED BY <1>4, <2>1, StageTyped, AdminKeeps DEF vars, history, HasRow
<1> QED BY <1>1, <1>2, <1>3, <1>4 DEF Next

THEOREM Invariance == Spec => []DealInv
<1>1. DealInv /\ [Next]_vars => DealInv'
  BY StepKeeps
<1> QED BY <1>1, InitHolds, PTL DEF Spec

(***************************************************************************)
(* Every table and request keeps its type.                                 *)
(***************************************************************************)
THEOREM DealTypes == Spec => []TypeOK
<1>1. DealInv => TypeOK
  BY DEF DealInv
<1> QED BY <1>1, Invariance, PTL

(***************************************************************************)
(* No deal row, soft-deleted or not, is ever left without its stage.       *)
(***************************************************************************)
THEOREM DealStages == Spec => []StagesExist
<1>1. DealInv => StagesExist
  BY DEF DealInv, RowInv
<1> QED BY <1>1, Invariance, PTL

(***************************************************************************)
(* No interleaving of lookups and inserts gives an external_id two deals.  *)
(***************************************************************************)
THEOREM DealExternalIds == Spec => []ExternalIdsUnique
<1>1. DealInv => ExternalIdsUnique
  BY DEF DealInv, RowInv
<1> QED BY <1>1, Invariance, PTL

(***************************************************************************)
(* closed_at and status agree, under any number of moves and ingests.      *)
(***************************************************************************)
THEOREM DealCloseDates == Spec => []ClosedIffTerminal
<1>1. DealInv => ClosedIffTerminal
  BY DEF DealInv, RowInv
<1> QED BY <1>1, Invariance, PTL

(***************************************************************************)
(* A deal only REST handlers have written agrees with its stage.           *)
(***************************************************************************)
THEOREM DealStatus == Spec => []StatusFollowsStage
<1>1. DealInv => StatusFollowsStage
  BY DEF DealInv, RowInv
<1> QED BY <1>1, Invariance, PTL

(***************************************************************************)
(* The timeline tells of every REST write that was not cut off, and of     *)
(* nothing else.                                                           *)
(***************************************************************************)
THEOREM DealTrace == Spec => []WritesAreTraced
<1>1. DealInv => WritesAreTraced
  BY DEF DealInv
<1> QED BY <1>1, Invariance, PTL

(***************************************************************************)
(* Only a row that was never used is inserted, and every update keeps or   *)
(* sets deleted_at.                                                        *)
(***************************************************************************)
LEMMA NoRevival ==
  ASSUME DealInv, [Next]_vars, NEW d \in Deals, deal[d].life = "deleted"
  PROVE  deal'[d].life = "deleted"
<1>1. deal \in [Deals -> DealRow]
  BY DEF DealInv, TypeOK
<1>2. deal[d] # NoDeal
  BY DEF NoDeal
<1>3. ASSUME NEW c \in Calls, DealCall(c)
      PROVE  deal'[d].life = "deleted"
  <2>1. CASE \E o \in Deals : CreateInsert(c, o)
    BY <1>1, <1>2, <2>1 DEF CreateInsert, Refused, tables
  <2>2. CASE MoveWrite(c)
    <3>1. deal' = deal \/ deal' = [deal EXCEPT ![call[c].id] = Moved(c, call[c].id)]
      BY <2>2 DEF MoveWrite, Refused, tables
    <3>2. Moved(c, d).life = deal[d].life
      BY <1>1 DEF Moved, DealRow
    <3> QED BY <1>1, <3>1, <3>2
  <2>3. CASE PatchWrite(c)
    BY <1>1, <2>3 DEF PatchWrite, Patched, Refused, tables, DealRow
  <2>4. CASE DeleteWrite(c)
    BY <1>1, <2>4 DEF DeleteWrite, DealRow
  <2>5. CASE \/ \E x \in ExtIds \cup {None} : CreateCheck(c, x)
             \/ \E s \in Stages : Resolve(c, s)
             \/ \E o \in Deals : MoveRead(c, o) \/ DeleteRead(c, o)
             \/ \E o \in Deals, x \in ExtIds \cup {None} : PatchRead(c, o, x)
             \/ RecordEvent(c) \/ Ends(c)
    <3>1. deal' = deal
      BY <2>5 DEF CreateCheck, Resolve, MoveRead, DeleteRead, PatchRead, RecordEvent, Ends, tables
    <3> QED BY <3>1
  <2> QED BY <1>3, <2>1, <2>2, <2>3, <2>4, <2>5 DEF DealCall
<1>4. ASSUME NEW c \in Calls, Ingest(c)
      PROVE  deal'[d].life = "deleted"
  <2>1. CASE \E o \in Deals : IngestWrite(c, o)
    <3>1. PICK o \in Deals : IngestWrite(c, o)
      BY <2>1
    <3>2. deal' = deal \/ deal' = [deal EXCEPT ![o] = Upserted(c, o)]
      BY <3>1 DEF IngestWrite
    <3>3. CASE o = d
      <4>1. call[c].id # None
        BY <1>2, <3>1, <3>3 DEF IngestWrite
      <4>2. Upserted(c, d).life = deal[d].life
        BY <1>1, <4>1 DEF Upserted, DealRow
      <4> QED BY <1>1, <3>2, <3>3, <4>2
    <3>4. CASE o # d
      BY <1>1, <3>2, <3>4
    <3> QED BY <3>3, <3>4
  <2>2. CASE ~ \E o \in Deals : IngestWrite(c, o)
    <3>1. deal' = deal
      BY <1>4, <2>2 DEF Ingest, IngestStart, IngestRoute, IngestLookup, tables
    <3> QED BY <3>1
  <2> QED BY <2>1, <2>2
<1>5. CASE Admin \/ UNCHANGED vars
  <2>1. deal' = deal
    BY <1>5 DEF Admin, PipelineInsert, StagesInsert, PatchPipeline, CreateStage, PatchStage,
       DeleteStage, vars
  <2> QED BY <2>1
<1> QED BY <1>3, <1>4, <1>5 DEF Next

(***************************************************************************)
(* A soft-deleted deal is never brought back, not even by a request that   *)
(* read it before the delete.                                              *)
(***************************************************************************)
THEOREM DealDeletes == Spec => DeletedStaysDeleted
<1>1. DealInv /\ [Next]_vars =>
        [\A d \in Deals : deal[d].life = "deleted" => deal'[d].life = "deleted"]_vars
  BY NoRevival
<1> QED BY <1>1, Invariance, PTL DEF Spec, DeletedStaysDeleted
=============================================================================
