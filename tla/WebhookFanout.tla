--------------------------- MODULE WebhookFanout ---------------------------
(***************************************************************************)
(* A CRM mutation, the event it records and the delivery of that event to  *)
(* the workspace's webhooks: recordEvent (lib/audit.ts), processWebhook-   *)
(* Event (jobs/webhook-delivery.ts), the queue consumer (index.ts) and the *)
(* webhook CRUD handlers (routes/webhooks.ts) that run beside them.        *)
(*                                                                         *)
(* Every await of the code is a step boundary.  A subscription is read     *)
(* once per attempt, so hooks change under a running attempt.              *)
(***************************************************************************)
EXTENDS Naturals

CONSTANTS
  Hooks,     \* ids of webhook rows; an id is used for at most one row
  Events,    \* mutations, one event each
  Types,     \* event types, e.g. "contact.created"
  TypeOf,    \* TypeOf[e]: the type of the event
  Patchers,  \* PATCH /v1/webhooks/:id requests that may be in flight at once
  Durable,   \* TRUE when the WEBHOOK_QUEUE binding is configured
  MaxTries,  \* deliveries of one message before the queue gives it up
  MaxEdits,  \* bound on the webhook CRUD calls of a run
  None

ASSUME FanoutAssumption ==
  /\ TypeOf \in [Events -> Types]
  /\ Durable \in BOOLEAN
  /\ MaxTries \in Nat \ {0}
  /\ MaxEdits \in Nat
  /\ None \notin Hooks \cup BOOLEAN

VARIABLES
  hook,      \* the webhooks table
  okRows,    \* webhook_deliveries rows with succeeded = true, per hook
  badRows,   \* how many webhook_deliveries rows with status 'failed', per hook
  stage,     \* where each mutation, and then its event, has got to
  timeline,  \* events whose timeline and audit rows are committed
  job,       \* the attempt of processWebhookEvent working on an event
  patch,     \* PATCH requests between their read and their write
  edits,     \* webhook CRUD calls so far
  got,       \* got[e]: hooks whose endpoint has received e          (history)
  owed       \* owed[e]: hooks subscribed to e ever since recordEvent (history)

vars == <<hook, okRows, badRows, stage, timeline, job, patch, edits, got, owed>>

Stages == {"none", "mutated", "recorded", "pending", "running",
           "settled", "dead", "lost"}
Steps  == {"next", "log", "count"}

HookRow == [status : {"unused", "live", "deleted"}, active : BOOLEAN,
            types : SUBSET Types, failures : Nat]
Job     == [step : Steps, todo : SUBSET Hooks, cur : Hooks \cup {None},
            ok : BOOLEAN, failed : BOOLEAN, seen : [Hooks -> Nat],
            tries : Nat]

Live(h) == hook[h].status = "live"

\* The rows the consumer selects: active, and subscribed to the event's type.
Matching(e) ==
  {h \in Hooks : Live(h) /\ hook[h].active /\ TypeOf[e] \in hook[h].types}

\* History: a hook that stops matching is no longer owed the event.
KeepOwed == owed' = [e \in Events |-> owed[e] \cap Matching(e)']

TypeOK ==
  /\ hook \in [Hooks -> HookRow]
  /\ okRows \in [Hooks -> SUBSET Events]
  /\ badRows \in [Hooks -> Nat]
  /\ stage \in [Events -> Stages]
  /\ timeline \in SUBSET Events
  /\ job \in [Events -> Job]
  /\ patch \in [Patchers -> [id : Hooks, active : BOOLEAN, types : SUBSET Types]
                              \cup {None}]
  /\ edits \in Nat
  /\ got \in [Events -> SUBSET Hooks]
  /\ owed \in [Events -> SUBSET Hooks]

Idle(tries) ==
  [step |-> "next", todo |-> {}, cur |-> None, ok |-> FALSE, failed |-> FALSE,
   seen |-> [h \in Hooks |-> 0], tries |-> tries]

NoHook == [status |-> "unused", active |-> FALSE, types |-> {}, failures |-> 0]
NewHook(active, types) ==
  [status |-> "live", active |-> active, types |-> types, failures |-> 0]

\* Some hooks exist, none has been delivered to, and no event is under way.
Init ==
  /\ hook \in [Hooks -> {NoHook} \cup {NewHook(TRUE, {t}) : t \in Types}]
  /\ okRows = [h \in Hooks |-> {}]
  /\ badRows = [h \in Hooks |-> 0]
  /\ stage = [e \in Events |-> "none"]
  /\ timeline = {}
  /\ job = [e \in Events |-> Idle(0)]
  /\ patch = [p \in Patchers |-> None]
  /\ edits = 0
  /\ got = [e \in Events |-> {}]
  /\ owed = [e \in Events |-> {}]
-----------------------------------------------------------------------------
(* The mutating request: its own write, recordEvent's batch, the dispatch. *)

rowVars   == <<hook, okRows, badRows>>
adminVars == <<patch, edits>>

Mutate(e) ==
  /\ stage[e] = "none"
  /\ stage' = [stage EXCEPT ![e] = "mutated"]
  /\ UNCHANGED <<rowVars, timeline, job, adminVars, got, owed>>

\* db.batch([timeline, audit]): one transaction.
RecordEvent(e) ==
  /\ stage[e] = "mutated"
  /\ stage' = [stage EXCEPT ![e] = "recorded"]
  /\ timeline' = timeline \cup {e}
  /\ owed' = [owed EXCEPT ![e] = Matching(e)]
  /\ UNCHANGED <<rowVars, job, adminVars, got>>

\* waitUntil(queue.send(job)), or waitUntil(processWebhookEvent(...)).
Dispatch(e) ==
  /\ stage[e] = "recorded"
  /\ stage' = [stage EXCEPT ![e] = "pending"]
  /\ UNCHANGED <<rowVars, timeline, job, adminVars, got, owed>>

\* The request ends between two of its awaits: an exception from D1 or from
\* queue.send, or an isolate that is torn down.
RequestDies(e) ==
  /\ stage[e] \in {"mutated", "recorded"}
  /\ stage' = [stage EXCEPT ![e] = "lost"]
  /\ UNCHANGED <<rowVars, timeline, job, adminVars, got, owed>>
-----------------------------------------------------------------------------
(* processWebhookEvent and the two callers that await it.                  *)

\* Mutant of Redelivered: a message whose retries are used up is acknowledged.
RedeliveredOrAcked(e, inProcess) ==
  IF Durable /\ job[e].tries < MaxTries THEN "pending" ELSE "settled"

\* An attempt ends without acknowledging its message.  The queue redelivers
\* it until MaxTries; the in-process caller logs the error and drops it.
Redelivered(e, inProcess) ==
  IF ~Durable THEN inProcess
  ELSE IF job[e].tries < MaxTries THEN "pending" ELSE "dead"

GiveUp(e, inProcess) ==
  /\ job' = [job EXCEPT ![e] = Idle(job[e].tries)]
  /\ stage' = [stage EXCEPT ![e] = Redelivered(e, inProcess)]

\* Mutant of Tries: the attempts of a message are not counted.
TriesUncounted(e) == job[e].tries

\* The queue's delivery count of the message, this attempt included.
Tries(e) == job[e].tries + 1

\* The rows are read once; the attempt works on this copy to its end.
Select(e) ==
  /\ stage[e] = "pending"
  /\ stage' = [stage EXCEPT ![e] = "running"]
  /\ job' = [job EXCEPT ![e] =
               [Idle(Tries(e)) EXCEPT
                  !.todo = Matching(e),
                  !.seen = [h \in Hooks |-> hook[h].failures]]]
  /\ UNCHANGED <<rowVars, timeline, adminVars, got, owed>>

\* Mutant of Succeeded: any answer counts, res.ok is not looked at.
AnyAnswer(outcome) == outcome \in {"ok", "late", "refused"}

Succeeded(outcome) == outcome = "ok"

\* deliverOne.  "late": the endpoint took the event, and its answer did not
\* come within the timeout or was not 2xx.
Post(e, h) ==
  /\ stage[e] = "running"
  /\ job[e].step = "next" /\ h \in job[e].todo
  /\ \E outcome \in {"ok", "late", "refused"} :
       /\ job' = [job EXCEPT ![e].step = "log", ![e].cur = h,
                             ![e].todo = @ \ {h}, ![e].ok = Succeeded(outcome)]
       /\ got' = IF outcome = "refused" THEN got
                 ELSE [got EXCEPT ![e] = @ \cup {h}]
  /\ UNCHANGED <<rowVars, stage, timeline, adminVars, owed>>

\* Mutant of FailedRows: the history row is keyed by the count the attempt read,
\* so that attempts which overlap write one row between them.
FailedRowsSeen(e, h) == IF job[e].ok THEN badRows[h] ELSE job[e].seen[h] + 1

FailedRows(e, h) == IF job[e].ok THEN badRows[h] ELSE badRows[h] + 1

\* INSERT INTO webhook_deliveries.  The row of a hook deleted meanwhile
\* violates the foreign key, and the exception ends the attempt.
LogDelivery(e) ==
  LET h == job[e].cur IN
  /\ stage[e] = "running" /\ job[e].step = "log"
  /\ \/ /\ Live(h)
        /\ job' = [job EXCEPT ![e].step = "count"]
        /\ okRows' = IF job[e].ok THEN [okRows EXCEPT ![h] = @ \cup {e}] ELSE okRows
        /\ badRows' = [badRows EXCEPT ![h] = FailedRows(e, h)]
        /\ UNCHANGED stage
     \/ /\ ~Live(h)
        /\ GiveUp(e, "settled")
        /\ UNCHANGED <<okRows, badRows>>
  /\ UNCHANGED <<hook, timeline, adminVars, got, owed>>

\* The new failure_count comes from the row Select read, not from the row as
\* it is now.
NewCount(e, h) == IF job[e].ok THEN 0 ELSE job[e].seen[h] + 1

Counted(e, h) == [hook[h] EXCEPT !.failures = NewCount(e, h)]

\* UPDATE webhooks; no row is touched if the hook is gone.
CountDelivery(e) ==
  LET h == job[e].cur IN
  /\ stage[e] = "running" /\ job[e].step = "count"
  /\ hook' = IF Live(h) THEN [hook EXCEPT ![h] = Counted(e, h)] ELSE hook
  /\ job' = [job EXCEPT ![e].step = "next", ![e].cur = None,
                        ![e].failed = @ \/ ~job[e].ok]
  /\ UNCHANGED <<okRows, badRows, stage, timeline, adminVars, got, owed>>

\* Mutant of Throws: errors are collected, and the event is acknowledged anyway.
NeverThrows(e) == job[e].failed /\ ~Durable

Throws(e) == job[e].failed

\* The loop is over: return and ack, or throw if any delivery failed.
Finish(e) ==
  /\ stage[e] = "running"
  /\ job[e].step = "next" /\ job[e].todo = {}
  /\ \/ /\ ~Throws(e)
        /\ stage' = [stage EXCEPT ![e] = "settled"]
        /\ job' = [job EXCEPT ![e] = Idle(@.tries)]
     \/ /\ Throws(e)
        /\ GiveUp(e, "settled")
  /\ UNCHANGED <<rowVars, timeline, adminVars, got, owed>>

\* The invocation working on e is torn down before it acks.
WorkerDies(e) ==
  /\ stage[e] = "running"
  /\ GiveUp(e, "lost")
  /\ UNCHANGED <<rowVars, timeline, adminVars, got, owed>>
-----------------------------------------------------------------------------
(* The webhook CRUD handlers.                                              *)

Edit == edits < MaxEdits /\ edits' = edits + 1

CreateHook(h, active, types) ==
  /\ Edit
  /\ hook[h].status = "unused"
  /\ types # {}
  /\ hook' = [hook EXCEPT ![h] = NewHook(active, types)]
  /\ UNCHANGED <<okRows, badRows, stage, timeline, job, patch, got, owed>>

\* PATCH reads the row and merges the body into what it read (a body without
\* is_active has active = None; one without events, which may not be empty,
\* has types = {}) ...
PatchRead(p, h, active, types) ==
  /\ Edit
  /\ patch[p] = None
  /\ Live(h)
  /\ patch' = [patch EXCEPT ![p] =
                 [id |-> h,
                  active |-> IF active = None THEN hook[h].active ELSE active,
                  types |-> IF types = {} THEN hook[h].types ELSE types]]
  /\ UNCHANGED <<rowVars, stage, timeline, job, got, owed>>

\* ... and writes the merge back; a row deleted meanwhile is not brought back.
PatchWrite(p) ==
  /\ patch[p] # None
  /\ LET b == patch[p] IN
     hook' = IF Live(b.id)
             THEN [hook EXCEPT ![b.id].active = b.active, ![b.id].types = b.types]
             ELSE hook
  /\ patch' = [patch EXCEPT ![p] = None]
  /\ KeepOwed
  /\ UNCHANGED <<okRows, badRows, stage, timeline, job, edits, got>>

\* DELETE cascades to the hook's webhook_deliveries rows.
DeleteHook(h) ==
  /\ Edit
  /\ Live(h)
  /\ hook' = [hook EXCEPT ![h].status = "deleted"]
  /\ okRows' = [okRows EXCEPT ![h] = {}]
  /\ badRows' = [badRows EXCEPT ![h] = 0]
  /\ KeepOwed
  /\ UNCHANGED <<stage, timeline, job, patch, got>>
-----------------------------------------------------------------------------
Request(e) == Mutate(e) \/ RecordEvent(e) \/ Dispatch(e) \/ RequestDies(e)

Process(e) ==
  \/ Select(e) \/ (\E h \in Hooks : Post(e, h))
  \/ LogDelivery(e) \/ CountDelivery(e) \/ Finish(e)

Admin ==
  \/ \E h \in Hooks, active \in BOOLEAN, types \in SUBSET Types :
       CreateHook(h, active, types)
  \/ \E p \in Patchers, h \in Hooks, active \in BOOLEAN \cup {None},
        types \in SUBSET Types : PatchRead(p, h, active, types)
  \/ \E p \in Patchers : PatchWrite(p)
  \/ \E h \in Hooks : DeleteHook(h)

Next ==
  \/ \E e \in Events : Request(e) \/ Process(e) \/ WorkerDies(e)
  \/ Admin

Spec == Init /\ [][Next]_vars

\* The queue keeps delivering a pending message, and every await in the
\* consumer returns (the fetch has a timeout).  Nothing makes clients call.
Fairness == \A e \in Events : WF_vars(Process(e))
FairSpec == Spec /\ Fairness
-----------------------------------------------------------------------------
(* What the fan-out guarantees.                                            *)

\* No endpoint hears of an event whose timeline and audit rows are not
\* committed: recordEvent awaits its batch before it dispatches.
RecordedBeforeDelivered == \A e \in Events : got[e] # {} => e \in timeline

\* When nothing will work on an event again, every hook subscribed to it ever
\* since it was recorded has received it, and webhook_deliveries shows a
\* success for it: an attempt that any hook failed is never acknowledged,
\* whichever hooks are created, patched or deleted while it runs.
SettledReachesSubscribers ==
  \A e \in Events : stage[e] = "settled" =>
    \A h \in owed[e] : h \in got[e] /\ e \in okRows[h]

\* A succeeded row of webhook_deliveries is about a POST the endpoint took,
\* even when an isolate died or the hook was patched around it.
SuccessRowsAreReceipts ==
  \A h \in Hooks, e \in Events : e \in okRows[h] => h \in got[e]

\* failure_count is written from a value read before the deliveries of other
\* events; such lost updates may understate it, but it never exceeds the failed
\* deliveries the hook's own history shows.
FailureCountBacked ==
  \A h \in Hooks : Live(h) => hook[h].failures <= badRows[h]

\* The detailed fan-out implements the promise of EventDelivery.
Promise == INSTANCE EventDelivery WITH
  recorded <- timeline,
  settled  <- {e \in Events : stage[e] = "settled"},
  reached  <- got,
  owed     <- owed
ImplementsEventDelivery == Promise!Spec

\* An event handed to the queue is acknowledged or given up after MaxTries: no
\* endpoint, patch or delete keeps a message cycling between retries forever.
PendingIsResolved ==
  \A e \in Events : stage[e] = "pending" ~> stage[e] \in {"settled", "dead"}
-----------------------------------------------------------------------------
(* The strengthening under which the invariants above are inductive.       *)

\* An attempt has a current hook exactly while it writes down its delivery.
CurInv == \A e \in Events : job[e].step = "next" <=> job[e].cur = None

\* Which stages are past the commit of the timeline row.
StageInv ==
  \A e \in Events :
    /\ stage[e] \in {"recorded", "pending", "running", "settled", "dead"} => e \in timeline
    /\ stage[e] \in {"none", "mutated"} => e \notin timeline
    /\ e \notin timeline => owed[e] = {}

\* A hook is owed only events that a consumer reading now would send it.
OwedMatches == \A e \in Events : owed[e] \subseteq Matching(e)

\* A delivery about to be written down as a success was one.
OkInv ==
  \A e \in Events :
    stage[e] = "running" /\ job[e].step # "next" /\ job[e].ok => job[e].cur \in got[e]

Delivered(e, h) == h \in got[e] /\ e \in okRows[h]

\* Where a running attempt stands with each hook it owes: still to post, or
\* posted and about to be written down, or done, unless some delivery failed
\* and the attempt is going to throw.
AttemptInv ==
  \A e \in Events : stage[e] = "running" =>
    \/ job[e].failed
    \/ job[e].step # "next" /\ ~job[e].ok
    \/ \A h \in owed[e] : \/ h \in job[e].todo
                          \/ Delivered(e, h)
                          \/ job[e].step = "log" /\ h = job[e].cur

\* The count of every hook, and the copy of it each attempt carries, is backed
\* by failed rows; a failure about to be counted already has its own row.
CountInv ==
  \A h \in Hooks : hook[h].status # "deleted" =>
    /\ hook[h].failures <= badRows[h]
    /\ \A e \in Events : stage[e] = "running" =>
         /\ job[e].seen[h] <= badRows[h]
         /\ job[e].step = "count" /\ ~job[e].ok /\ job[e].cur = h
              => job[e].seen[h] < badRows[h]
=============================================================================
