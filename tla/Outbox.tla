------------------------------- MODULE Outbox -------------------------------
(***************************************************************************)
(* The legacy service's durable webhook queue: emit (services/events.py),  *)
(* the delivery worker (services/webhook_delivery.py) and the webhook      *)
(* routes (routers/webhooks.py), over PostgreSQL at READ COMMITTED.        *)
(*                                                                         *)
(* emit adds one pending row per subscriber to the transaction of the      *)
(* request.  A worker claims rows with FOR UPDATE SKIP LOCKED, POSTs them  *)
(* one by one and commits the batch as a whole; an exception rolls the     *)
(* batch back, but not the POSTs.  The session does not autoflush: what a  *)
(* batch changed reaches the database at its commit.                       *)
(***************************************************************************)
EXTENDS FiniteSets, FiniteSetsExt, Naturals

CONSTANTS
  Hooks,       \* ids of webhook rows; an id is used for at most one row
  Events,      \* mutations that call emit
  Workers,     \* processes that run the delivery thread
  Filters,     \* values of a webhook's events, each as the events it lets through
  Limit,       \* rows a worker claims at most
  MaxRetries,  \* settings.WEBHOOK_MAX_RETRIES
  MaxFaults,   \* bound on batches and requests that die
  MaxEdits,    \* bound on the webhook CRUD calls of a run
  None

ASSUME OutboxAssumption ==
  /\ Filters \subseteq SUBSET Events /\ Events \in Filters
  /\ Limit \in Nat \ {0}
  /\ MaxRetries \in Nat \ {0}
  /\ MaxFaults \in Nat
  /\ MaxEdits \in Nat
  /\ None \notin BOOLEAN

VARIABLES
  hook,      \* the webhooks table
  dropping,  \* webhooks whose DELETE has locked the row and not committed
  delivery,  \* the webhook_deliveries table, by event and webhook
  stage,     \* where each mutation has got to
  picked,    \* the webhooks emit enqueued a delivery for
  batch,     \* the transaction of each worker
  faults,    \* batches and requests that died so far
  edits,     \* webhook CRUD calls so far
  got,       \* got[e]: webhooks whose endpoint has received e       (history)
  posts,     \* POSTs per delivery, but for batches rolled back      (history)
  owed       \* owed[e]: webhooks subscribed to e since its emit     (history)

vars == <<hook, dropping, delivery, stage, picked, batch, faults, edits,
          got, posts, owed>>
history == <<got, posts, owed>>

Rows == Events \X Hooks

HookRow == [status : {"unused", "live", "gone"}, active : BOOLEAN,
            events : Filters]
\* `at` is next_attempt_at: passed, in the future, or NULL.
DeliveryRow == [status : {"none", "pending", "succeeded", "dead", "gone"},
                attempts : Nat, at : {"due", "later", "never"}]
\* `rows` are claimed and locked, `todo` the ones the loop has not reached,
\* `new` the objects of the session, `sent` the rows it POSTed, `seen` the
\* is_active of each webhook as the identity map has it; in a `spoilt` session is
\* an answer that the database will not store.
Batch == [rows : SUBSET Rows, todo : SUBSET Rows, sent : SUBSET Rows,
          new : [Rows -> DeliveryRow], seen : [Hooks -> BOOLEAN \cup {None}],
          spoilt : BOOLEAN]

Live(h) == hook[h].status = "live"
Subscribed(e, h) == Live(h) /\ hook[h].active /\ e \in hook[h].events
Matching(e) == {h \in Hooks : Subscribed(e, h)}

Absent == [status |-> "none", attempts |-> 0, at |-> "never"]
Deleted == [status |-> "gone", attempts |-> 0, at |-> "never"]
Pending == [status |-> "pending", attempts |-> 0, at |-> "due"]
Idle == [rows |-> {}, todo |-> {}, sent |-> {},
         new |-> [r \in Rows |-> Absent], seen |-> [h \in Hooks |-> None],
         spoilt |-> FALSE]

Locked == UNION {batch[w].rows : w \in Workers}

Init ==
  /\ hook \in [Hooks -> {[status |-> "unused", active |-> FALSE, events |-> Events],
                         [status |-> "live", active |-> TRUE, events |-> Events]}]
  /\ dropping = {}
  /\ delivery = [r \in Rows |-> Absent]
  /\ stage = [e \in Events |-> "none"]
  /\ picked = [e \in Events |-> {}]
  /\ batch = [w \in Workers |-> Idle]
  /\ faults = 0
  /\ edits = 0
  /\ got = [e \in Events |-> {}]
  /\ posts = [r \in Rows |-> 0]
  /\ owed = [e \in Events |-> {}]

-----------------------------------------------------------------------------
(* A mutation and its events, in one transaction.                          *)

\* emit; a caller that passes no BackgroundTasks has no fan-out.
Emit(e) ==
  /\ stage[e] = "none"
  /\ stage' = [stage EXCEPT ![e] = "emitted"]
  /\ \/ picked' = [picked EXCEPT ![e] = Matching(e)]
     \/ picked' = picked
  /\ owed' = [owed EXCEPT ![e] = picked'[e]]
  /\ UNCHANGED <<hook, dropping, delivery, batch, faults, edits, got, posts>>

Enqueued(e) ==
  [r \in Rows |-> IF r[1] = e /\ r[2] \in picked[e] THEN Pending ELSE delivery[r]]

\* The INSERTs take a key-share lock on their webhooks.
CommitRequest(e) ==
  /\ stage[e] = "emitted"
  /\ \A h \in picked[e] : Live(h) /\ h \notin dropping
  /\ stage' = [stage EXCEPT ![e] = "committed"]
  /\ delivery' = Enqueued(e)
  /\ UNCHANGED <<hook, dropping, picked, batch, faults, edits, history>>

Abandon(e) ==
  /\ stage[e] = "emitted"
  /\ stage' = [stage EXCEPT ![e] = "rolledback"]
  /\ owed' = [owed EXCEPT ![e] = {}]
  /\ UNCHANGED <<hook, dropping, delivery, picked, batch, edits, got, posts>>

\* A webhook enqueued for was deleted meanwhile: the foreign key refuses the
\* delivery, and the mutation goes with it.
ForeignKeyRefuses(e) ==
  /\ \E h \in picked[e] : ~Live(h)
  /\ Abandon(e)
  /\ UNCHANGED faults

RequestDies(e) ==
  /\ faults < MaxFaults
  /\ faults' = faults + 1
  /\ Abandon(e)

-----------------------------------------------------------------------------
(* The worker.                                                             *)

Due == {r \in Rows : delivery[r].status = "pending" /\ delivery[r].at = "due"}

\* Mutant of Claimable: a claim without SKIP LOCKED, of rows read unlocked.
ClaimableUnlocked == {r \in Due : r[2] \notin dropping}

\* A DELETE has the rows of its webhook that no worker has.
Claimable == {r \in Due \ Locked : r[2] \notin dropping}

Opened(S) ==
  [Idle EXCEPT !.rows = S, !.todo = S,
               !.new = [r \in Rows |-> IF r \in S THEN delivery[r] ELSE Absent]]

\* As many rows as the limit allows, the longest due first: the order among
\* the due is not kept here.
Claim(w) ==
  /\ batch[w].rows = {}
  /\ \E n \in 1..Limit, S \in SUBSET Claimable :
       /\ n = Cardinality(S)
       /\ n < Limit => S = Claimable
       /\ batch' = [batch EXCEPT ![w] = Opened(S)]
  /\ UNCHANGED <<hook, dropping, delivery, stage, picked, faults, edits, history>>

\* db.get: from the identity map if the batch has met this webhook before.
IsActive(w, h) == IF batch[w].seen[h] = None THEN hook[h].active ELSE batch[w].seen[h]

Handled(w, r, row, sent, spoils) ==
  batch' = [batch EXCEPT ![w].todo = @ \ {r}, ![w].new[r] = row,
                         ![w].seen[r[2]] = IsActive(w, r[2]),
                         ![w].sent = IF sent THEN @ \cup {r} ELSE @,
                         ![w].spoilt = @ \/ spoils]

\* A claimed row keeps its webhook from being deleted, so it is there.
Skip(w, r) ==
  /\ r \in batch[w].todo
  /\ ~IsActive(w, r[2])
  /\ Handled(w, r, [batch[w].new[r] EXCEPT !.status = "dead", !.at = "never"], FALSE, FALSE)
  /\ UNCHANGED <<hook, dropping, delivery, stage, picked, faults, edits, history>>

\* Mutant of Exhausted: the limit compared before the attempt is counted.
ExhaustedEarly(attempts) == attempts + 1 >= MaxRetries

Exhausted(attempts) == attempts >= MaxRetries

\* Mutant of Attempted: a retry that is not scheduled.
AttemptedNoRetry(row, ok) ==
  LET n == row.attempts + 1 IN
  IF ok THEN [status |-> "succeeded", attempts |-> n, at |-> "never"]
  ELSE [status |-> IF Exhausted(n) THEN "dead" ELSE "pending", attempts |-> n, at |-> "never"]

\* Mutant of Attempted: any answer counts as a success.
AttemptedAny(row, ok) ==
  [status |-> "succeeded", attempts |-> row.attempts + 1, at |-> "never"]

\* What an attempt makes of a row.
Attempted(row, ok) ==
  LET n == row.attempts + 1 IN
  IF ok THEN [status |-> "succeeded", attempts |-> n, at |-> "never"]
  ELSE IF Exhausted(n) THEN [status |-> "dead", attempts |-> n, at |-> "never"]
  ELSE [status |-> "pending", attempts |-> n, at |-> "later"]

\* The endpoint takes the event and says so, takes it and answers too late or
\* not 2xx, takes it and sends a body PostgreSQL has no text for (a NUL in it;
\* r.text goes into response_body as it is), or never hears of it.
Outcomes == {"taken", "late", "garbled", "refused"}

Post(w, r, outcome) ==
  /\ r \in batch[w].todo
  /\ IsActive(w, r[2])
  /\ Handled(w, r, Attempted(batch[w].new[r], outcome = "taken"), TRUE, outcome = "garbled")
  /\ posts' = [posts EXCEPT ![r] = @ + 1]
  /\ got' = IF outcome = "refused" THEN got ELSE [got EXCEPT ![r[1]] = @ \cup {r[2]}]
  /\ UNCHANGED <<hook, dropping, delivery, stage, picked, faults, edits, owed>>

\* The commit writes the webhooks it POSTed to (failure_count, last_error), and
\* so waits for a DELETE of one of them.
Touched(w) == {r[2] : r \in batch[w].sent}

Ready(w) == batch[w].rows # {} /\ batch[w].todo = {}

CommitBatch(w) ==
  /\ Ready(w) /\ ~batch[w].spoilt
  /\ Touched(w) \cap dropping = {}
  /\ delivery' = [r \in Rows |-> IF r \in batch[w].rows THEN batch[w].new[r] ELSE delivery[r]]
  /\ batch' = [batch EXCEPT ![w] = Idle]
  /\ UNCHANGED <<hook, dropping, stage, picked, faults, edits, history>>

Rollback(w) ==
  /\ batch[w].rows # {}
  /\ batch' = [batch EXCEPT ![w] = Idle]
  /\ posts' = [r \in Rows |-> IF r \in batch[w].sent THEN posts[r] - 1 ELSE posts[r]]
  /\ UNCHANGED <<hook, dropping, delivery, stage, picked, edits, got, owed>>

\* The commit of a spoilt batch raises, every time: its rows are as they were,
\* their attempts uncounted, and due at once.
CommitRefused(w) ==
  /\ Ready(w) /\ batch[w].spoilt
  /\ Touched(w) \cap dropping = {}
  /\ Rollback(w)
  /\ UNCHANGED faults

\* The process is stopped, or an exception leaves the batch.
WorkerDies(w) ==
  /\ faults < MaxFaults
  /\ faults' = faults + 1
  /\ Rollback(w)

\* The commit waits for the DELETE, the DELETE's cascade for the claimed rows.
Deadlocked(w, h) ==
  /\ Ready(w)
  /\ h \in Touched(w) \cap dropping

\* PostgreSQL breaks the deadlock at one of the two.
VictimWorker(w) ==
  /\ \E h \in Hooks : Deadlocked(w, h)
  /\ Rollback(w)
  /\ UNCHANGED faults

-----------------------------------------------------------------------------
(* Time, and the webhook routes.                                           *)

\* The backoff of a row is over.
BackoffEnds(r) ==
  /\ delivery[r].at = "later"
  /\ delivery' = [delivery EXCEPT ![r].at = "due"]
  /\ UNCHANGED <<hook, dropping, stage, picked, batch, faults, edits, history>>

\* A subscriber stays owed what it was owed as long as it stays subscribed.
KeepOwed ==
  owed' = [e \in Events |-> {h \in owed[e] : Subscribed(e, h)'}]

Edit ==
  /\ edits < MaxEdits
  /\ edits' = edits + 1
  /\ UNCHANGED <<stage, picked, batch, faults, got, posts>>

CreateHook(h, on, types) ==
  /\ hook[h].status = "unused"
  /\ hook' = [hook EXCEPT ![h] = [status |-> "live", active |-> on, events |-> types]]
  /\ Edit
  /\ UNCHANGED <<dropping, delivery, owed>>

\* Only the columns of the body are written.  Waits for a DELETE of the row.
PatchHook(h, on, types) ==
  /\ Live(h) /\ h \notin dropping
  /\ hook' = [hook EXCEPT ![h].active = on, ![h].events = types]
  /\ hook' # hook
  /\ KeepOwed
  /\ Edit
  /\ UNCHANGED <<dropping, delivery>>

DeleteHook(h) ==
  /\ Live(h) /\ h \notin dropping
  /\ dropping' = dropping \cup {h}
  /\ Edit
  /\ UNCHANGED <<hook, delivery, owed>>

\* The cascade takes the deliveries, and waits for the claimed ones.
DeleteCommits(h) ==
  /\ h \in dropping
  /\ \A r \in Locked : r[2] # h
  /\ hook' = [hook EXCEPT ![h].status = "gone"]
  /\ dropping' = dropping \ {h}
  /\ LET gone == {r \in Rows : r[2] = h /\ delivery[r].status # "none"} IN
       /\ delivery' = [r \in Rows |-> IF r \in gone THEN Deleted ELSE delivery[r]]
       /\ posts' = [r \in Rows |-> IF r \in gone THEN 0 ELSE posts[r]]
  /\ KeepOwed
  /\ UNCHANGED <<stage, picked, batch, faults, edits, got>>

VictimDelete(w, h) ==
  /\ Deadlocked(w, h)
  /\ dropping' = dropping \ {h}
  /\ UNCHANGED <<hook, delivery, stage, picked, batch, faults, edits, history>>
-----------------------------------------------------------------------------
Request(e) == Emit(e) \/ CommitRequest(e) \/ ForeignKeyRefuses(e) \/ RequestDies(e)

Process(w) ==
  \/ Claim(w) \/ CommitBatch(w) \/ CommitRefused(w)
  \/ \E r \in Rows : Skip(w, r) \/ \E o \in Outcomes : Post(w, r, o)

Deadlocks == \E w \in Workers : VictimWorker(w) \/ \E h \in Hooks : VictimDelete(w, h)

Admin ==
  \E h \in Hooks :
    \/ \E on \in BOOLEAN, types \in Filters :
         CreateHook(h, on, types) \/ PatchHook(h, on, types)
    \/ DeleteHook(h)
    \/ DeleteCommits(h)

Next ==
  \/ \E e \in Events : Request(e)
  \/ \E w \in Workers : Process(w) \/ WorkerDies(w)
  \/ Deadlocks
  \/ \E r \in Rows : BackoffEnds(r)
  \/ Admin

Spec == Init /\ [][Next]_vars

\* Every worker's loop runs for ever (start_worker), time passes, and the
\* database finishes the DELETEs it can and breaks deadlocks.
Fairness ==
  /\ \A w \in Workers : WF_vars(Process(w))
  /\ \A r \in Rows : WF_vars(BackoffEnds(r))
  /\ \A h \in Hooks : WF_vars(DeleteCommits(h))
  /\ WF_vars(Deadlocks)

FairSpec == Spec /\ Fairness
-----------------------------------------------------------------------------
(* Properties.                                                             *)

TypeOK ==
  /\ hook \in [Hooks -> HookRow]
  /\ dropping \subseteq Hooks
  /\ delivery \in [Rows -> DeliveryRow]
  /\ stage \in [Events -> {"none", "emitted", "committed", "rolledback"}]
  /\ picked \in [Events -> SUBSET Hooks]
  /\ batch \in [Workers -> Batch]
  /\ faults \in 0..MaxFaults
  /\ edits \in 0..MaxEdits
  /\ got \in [Events -> SUBSET Hooks]
  /\ posts \in [Rows -> Nat]
  /\ owed \in [Events -> SUBSET Hooks]

\* Nothing is lost between emit and the endpoint: what a committed mutation
\* owes a subscriber that has stayed subscribed is waiting with attempts left
\* and a time to be tried at, was received, or was given up only after
\* MaxRetries POSTs.  A worker that saw the subscriber switched off may
\* drop the row although it is on again: then it was not subscribed throughout.
NothingLost ==
  \A e \in Events, h \in Hooks :
    stage[e] = "committed" /\ h \in owed[e] =>
      LET row == delivery[<<e, h>>] IN
      \/ row.status = "pending" /\ row.attempts < MaxRetries /\ row.at # "never"
      \/ row.status = "succeeded" /\ h \in got[e]
      \/ row.status = "dead" /\ row.attempts = MaxRetries

\* The attempts counter of a row tells the POSTs: all of them, but for those of
\* batches rolled back and of the batch under way.  In particular no two
\* workers ever work on one row, and a POST is repeated MaxRetries times at
\* most unless batches are rolled back.
EveryPostCounted ==
  \A r \in Rows :
    posts[r] = delivery[r].attempts + Cardinality({w \in Workers : r \in batch[w].sent})

\* Every row ends: a pending row is delivered, given up, or deleted with its
\* webhook, whatever admins edit and endpoints answer, as long as the database
\* can store the answers.  One it cannot store rolls its batch back, attempts
\* and all: only while such answers keep coming may a row stay pending.
QueueDrains ==
  \A r \in Rows : delivery[r].status = "pending" ~>
                   \/ delivery[r].status # "pending"
                   \/ \E w \in Workers : batch[w].spoilt

\* The queue implements the promise of EventDelivery: an event is on the
\* timeline when its request commits, and settled when each of its rows is
\* final and none was given up.
Final(r) == delivery[r].status \in {"succeeded", "gone", "dead"}
GivenUp(r) == delivery[r].status = "dead" /\ delivery[r].attempts = MaxRetries
Settled(e) ==
  /\ stage[e] = "committed" /\ picked[e] # {}
  /\ \A h \in picked[e] : Final(<<e, h>>) /\ ~GivenUp(<<e, h>>)

Promise == INSTANCE EventDelivery WITH
  recorded <- {e \in Events : stage[e] = "committed"},
  settled  <- {e \in Events : Settled(e)},
  reached  <- got,
  owed     <- [e \in Events |-> IF stage[e] = "committed" THEN owed[e] ELSE {}]
ImplementsEventDelivery == Promise!Spec
=============================================================================
