------------------------- MODULE OutboxAndLoadProofs -------------------------
(***************************************************************************)
(* Proofs about Outbox for any webhooks, events, workers, batch size,      *)
(* number of retries, faults and edits; and about BulkLoad for any         *)
(* workspaces, ids, seeds, documents and transactions.  The two share no   *)
(* name.                                                                   *)
(***************************************************************************)
EXTENDS Outbox, BulkLoad, FiniteSetTheorems, FunctionTheorems, SequenceTheorems, TLAPS

(***************************************************************************)
(* What a batch holds.  Its rows are pending and due, and no other batch   *)
(* has them; of a row not reached yet the session has the row as stored,   *)
(* of one that was POSTed the outcome, of one that was skipped a dead row. *)
(***************************************************************************)
Skipped(row) == [row EXCEPT !.status = "dead", !.at = "never"]

Claims ==
  \A w \in Workers :
    /\ batch[w].todo \subseteq batch[w].rows
    /\ batch[w].sent \subseteq batch[w].rows \ batch[w].todo
    /\ \A r \in batch[w].rows : delivery[r].status = "pending" /\ delivery[r].at = "due"
    /\ \A v \in Workers \ {w} : batch[v].rows \cap batch[w].rows = {}

Outcome(w, r) ==
  IF r \in batch[w].todo THEN batch[w].new[r] = delivery[r]
  ELSE IF r \in batch[w].sent
       THEN \/ batch[w].new[r] = Attempted(delivery[r], TRUE) /\ r[2] \in got[r[1]]
            \/ batch[w].new[r] = Attempted(delivery[r], FALSE)
       ELSE batch[w].new[r] = Skipped(delivery[r]) /\ r[2] \notin owed[r[1]]

OutcomeInv == \A w \in Workers : \A r \in batch[w].rows : Outcome(w, r)

(***************************************************************************)
(* What the table holds: rows of committed mutations only, for the         *)
(* webhooks emit picked; a pending row has attempts left and a time.       *)
(***************************************************************************)
RowInv ==
  \A r \in Rows :
    /\ delivery[r].status = "none" => delivery[r].attempts = 0
    /\ delivery[r].status # "none" => stage[r[1]] = "committed" /\ r[2] \in picked[r[1]]
    /\ delivery[r].status = "pending" =>
         delivery[r].attempts < MaxRetries /\ delivery[r].at # "never"

(***************************************************************************)
(* posts is attempts, and one more while a batch has POSTed the row.       *)
(***************************************************************************)
InBatch(r) == \E w \in Workers : r \in batch[w].sent
CountInv == \A r \in Rows : posts[r] = delivery[r].attempts + (IF InBatch(r) THEN 1 ELSE 0)

(***************************************************************************)
(* Whoever is owed an event was picked and is subscribed, and a batch that *)
(* saw a webhook switched off holds no row the webhook is owed.            *)
(***************************************************************************)
OwedInv ==
  /\ \A e \in Events : /\ stage[e] = "none" => picked[e] = {}
                       /\ owed[e] \subseteq picked[e]
                       /\ \A h \in owed[e] : Subscribed(e, h)
  /\ \A w \in Workers : \A r \in batch[w].rows :
       batch[w].seen[r[2]] = FALSE => r[2] \notin owed[r[1]]

-----------------------------------------------------------------------------
(***************************************************************************)
(* Helpers on rows and batches.                                            *)
(***************************************************************************)
LEMMA RowTypes ==
  /\ Absent \in DeliveryRow /\ Deleted \in DeliveryRow /\ Pending \in DeliveryRow
  /\ Idle \in Batch
  /\ \A d \in DeliveryRow : /\ Skipped(d) \in DeliveryRow /\ Skipped(d).attempts = d.attempts
                            /\ Skipped(d).status = "dead"
<1>1. /\ Absent \in DeliveryRow /\ Deleted \in DeliveryRow /\ Pending \in DeliveryRow
  BY DEF Absent, Deleted, Pending, DeliveryRow
<1>2. Idle \in Batch
  BY <1>1 DEF Idle, Batch
<1>3. ASSUME NEW d \in DeliveryRow
      PROVE  /\ Skipped(d) \in DeliveryRow /\ Skipped(d).attempts = d.attempts
             /\ Skipped(d).status = "dead"
  BY DEF Skipped, DeliveryRow
<1> QED BY <1>1, <1>2, <1>3

(***************************************************************************)
(* What an attempt makes of a row with attempts left: one more attempt,    *)
(* and a row that succeeded, is dead with all its attempts made, or will   *)
(* be tried again.                                                         *)
(***************************************************************************)
LEMMA AttemptedRow ==
  ASSUME NEW d \in DeliveryRow, d.attempts < MaxRetries, NEW ok \in BOOLEAN
  PROVE  LET n == Attempted(d, ok) IN
         /\ n \in DeliveryRow
         /\ n.attempts = d.attempts + 1
         /\ ok => n.status = "succeeded"
         /\ ~ok => \/ n.status = "dead" /\ n.attempts = MaxRetries
                   \/ n.status = "pending" /\ n.attempts < MaxRetries /\ n.at = "later"
<1> USE OutboxAssumption
<1>1. d.attempts \in Nat
  BY DEF DeliveryRow
<1>2. CASE ok
  BY <1>1, <1>2 DEF Attempted, DeliveryRow
<1>3. CASE ~ok
  BY <1>1, <1>3 DEF Attempted, Exhausted, DeliveryRow
<1> QED BY <1>2, <1>3

LEMMA AttemptedEither ==
  ASSUME NEW d \in DeliveryRow, d.attempts < MaxRetries
  PROVE  /\ Attempted(d, TRUE).attempts = d.attempts + 1
         /\ Attempted(d, TRUE).status = "succeeded"
         /\ Attempted(d, FALSE).attempts = d.attempts + 1
         /\ LET n == Attempted(d, FALSE) IN
              \/ n.status = "dead" /\ n.attempts = MaxRetries
              \/ n.status = "pending" /\ n.attempts < MaxRetries /\ n.at = "later"
<1> USE OutboxAssumption
<1>1. d.attempts \in Nat
  BY DEF DeliveryRow
<1> QED BY <1>1 DEF Attempted, Exhausted

(***************************************************************************)
(* A well-typed batch, and what it takes to replace one.                   *)
(***************************************************************************)
LEMMA BatchStep ==
  ASSUME TypeOK, NEW w \in Workers, NEW b \in Batch, batch' = [batch EXCEPT ![w] = b]
  PROVE  /\ batch' \in [Workers -> Batch]
         /\ batch'[w] = b
         /\ \A v \in Workers : v # w => batch'[v] = batch[v]
BY DEF TypeOK

LEMMA ActiveTypes ==
  ASSUME TypeOK, NEW w \in Workers, NEW h \in Hooks
  PROVE  /\ IsActive(w, h) \in BOOLEAN
         /\ ~IsActive(w, h) => batch[w].seen[h] = FALSE \/ ~hook[h].active
<1>1. batch[w].seen[h] \in BOOLEAN \cup {None} /\ hook[h].active \in BOOLEAN
  BY DEF TypeOK, Batch, HookRow
<1>2. CASE batch[w].seen[h] = None
  BY <1>1, <1>2 DEF IsActive
<1>3. CASE batch[w].seen[h] # None
  BY <1>1, <1>3 DEF IsActive
<1> QED BY <1>2, <1>3

HandledSet(w, r, row, sent, spoilt) ==
  batch' = [batch EXCEPT ![w].todo = @ \ {r}, ![w].new[r] = row,
                         ![w].seen[r[2]] = IsActive(w, r[2]), ![w].sent = sent,
                         ![w].spoilt = spoilt]

LEMMA HandledBatch ==
  ASSUME TypeOK, NEW w \in Workers, NEW r \in Rows, NEW row \in DeliveryRow,
         NEW sent \in SUBSET Rows, NEW spoilt \in BOOLEAN,
         HandledSet(w, r, row, sent, spoilt)
  PROVE  /\ batch' \in [Workers -> Batch]
         /\ \A v \in Workers : v # w => batch'[v] = batch[v]
         /\ batch'[w].rows = batch[w].rows
         /\ batch'[w].todo = batch[w].todo \ {r}
         /\ batch'[w].sent = sent
         /\ batch'[w].new[r] = row
         /\ \A q \in Rows : q # r => batch'[w].new[q] = batch[w].new[q]
         /\ batch'[w].seen[r[2]] = IsActive(w, r[2])
         /\ \A h \in Hooks : h # r[2] => batch'[w].seen[h] = batch[w].seen[h]
<1> DEFINE old == batch[w]
           todo == old.todo \ {r}
           new == [old.new EXCEPT ![r] = row]
           seen == [old.seen EXCEPT ![r[2]] = IsActive(w, r[2])]
           b == [old EXCEPT !.todo = todo, !.new = new, !.seen = seen, !.sent = sent,
                            !.spoilt = spoilt]
<1>1. old \in Batch /\ IsActive(w, r[2]) \in BOOLEAN /\ r[2] \in Hooks
  BY ActiveTypes DEF TypeOK, Rows
<1>2. /\ todo \in SUBSET Rows /\ new \in [Rows -> DeliveryRow]
      /\ seen \in [Hooks -> BOOLEAN \cup {None}]
  BY <1>1 DEF Batch
<1>3. /\ new[r] = row /\ \A q \in Rows : q # r => new[q] = old.new[q]
      /\ seen[r[2]] = IsActive(w, r[2]) /\ \A h \in Hooks : h # r[2] => seen[h] = old.seen[h]
  BY <1>1 DEF Batch
<1>4. [old EXCEPT !.todo = @ \ {r}, !.new[r] = row, !.seen[r[2]] = IsActive(w, r[2]),
                  !.sent = sent, !.spoilt = spoilt] = b
  BY <1>1 DEF Batch
<1>5. batch' = [batch EXCEPT ![w] = b]
  BY <1>4 DEF HandledSet, TypeOK
<1> HIDE DEF todo, new, seen
<1>6. b \in Batch /\ b.rows = old.rows /\ b.todo = todo /\ b.sent = sent
        /\ b.new = new /\ b.seen = seen
  BY <1>1, <1>2 DEF Batch
<1> HIDE DEF b
<1>7. /\ batch' \in [Workers -> Batch] /\ batch'[w] = b
      /\ \A v \in Workers : v # w => batch'[v] = batch[v]
  BY <1>5, <1>6, BatchStep
<1> QED BY <1>3, <1>6, <1>7 DEF todo

(***************************************************************************)
(* Claim opens a batch of rows nobody has, as they are stored.             *)
(***************************************************************************)
LEMMA OpenedBatch ==
  ASSUME TypeOK, NEW w \in Workers, Claim(w)
  PROVE  \E b \in Batch :
           /\ batch' = [batch EXCEPT ![w] = b]
           /\ b.rows \subseteq Due \ Locked /\ b.todo = b.rows /\ b.sent = {}
           /\ \A r \in b.rows : b.new[r] = delivery[r]
           /\ \A h \in Hooks : b.seen[h] = None
<1>1. PICK S \in SUBSET Claimable : batch' = [batch EXCEPT ![w] = Opened(S)]
  BY DEF Claim
<1>2. S \subseteq Due \ Locked /\ S \in SUBSET Rows
  BY DEF Claimable, Due
<1> DEFINE b == Opened(S)
           n == [r \in Rows |-> IF r \in S THEN delivery[r] ELSE Absent]
<1>3. n \in [Rows -> DeliveryRow]
  BY RowTypes DEF TypeOK
<1>4. /\ b.rows = S /\ b.todo = S /\ b.sent = {} /\ b.new = n
      /\ b.seen = [h \in Hooks |-> None]
  BY DEF Opened, Idle
<1>5. b \in Batch
  <2>1. \A m \in [Rows -> DeliveryRow] : [Idle EXCEPT !.rows = S, !.todo = S, !.new = m] \in Batch
    BY <1>2, RowTypes DEF Batch
  <2> HIDE DEF n
  <2>2. Opened(S) = [Idle EXCEPT !.rows = S, !.todo = S, !.new = n]
    BY DEF Opened, n
  <2> QED BY <1>3, <2>1, <2>2
<1> HIDE DEF b
<1>6. \A r \in b.rows : b.new[r] = delivery[r]
  BY <1>2, <1>4
<1> QED BY <1>1, <1>2, <1>4, <1>5, <1>6 DEF b

(***************************************************************************)
(* Skip and Post handle one row that is still to be reached.               *)
(***************************************************************************)
Handles(w, r, row) ==
  /\ r \in batch[w].todo /\ r \in batch[w].rows
  /\ batch' \in [Workers -> Batch]
  /\ \A v \in Workers : v # w => batch'[v] = batch[v]
  /\ batch'[w].rows = batch[w].rows
  /\ batch'[w].todo = batch[w].todo \ {r}
  /\ batch'[w].new[r] = row
  /\ \A q \in Rows : q # r => batch'[w].new[q] = batch[w].new[q]
  /\ batch'[w].seen[r[2]] = IsActive(w, r[2])
  /\ \A h \in Hooks : h # r[2] => batch'[w].seen[h] = batch[w].seen[h]

LEMMA SkippedBatch ==
  ASSUME TypeOK, Claims, OutcomeInv, NEW w \in Workers, NEW r \in Rows, Skip(w, r)
  PROVE  Handles(w, r, Skipped(delivery[r])) /\ batch'[w].sent = batch[w].sent
<1> DEFINE row == Skipped(delivery[r])
           sent == batch[w].sent
           spoilt == batch[w].spoilt \/ FALSE
<1>1. r \in batch[w].todo /\ r \in batch[w].rows
  BY DEF Skip, Claims
<1>2. batch[w].new[r] = delivery[r]
  BY <1>1 DEF OutcomeInv, Outcome
<1>3. row \in DeliveryRow
  BY RowTypes DEF TypeOK
<1>4. HandledSet(w, r, row, sent, spoilt)
  BY <1>2 DEF Skip, Skipped, Handled, HandledSet
<1>5. sent \in SUBSET Rows /\ spoilt \in BOOLEAN
  BY DEF TypeOK, Batch
<1> HIDE DEF row, sent, spoilt
<1>6. /\ batch' \in [Workers -> Batch]
      /\ \A v \in Workers : v # w => batch'[v] = batch[v]
      /\ batch'[w].rows = batch[w].rows
      /\ batch'[w].todo = batch[w].todo \ {r}
      /\ batch'[w].sent = sent
      /\ batch'[w].new[r] = row
      /\ \A q \in Rows : q # r => batch'[w].new[q] = batch[w].new[q]
      /\ batch'[w].seen[r[2]] = IsActive(w, r[2])
      /\ \A h \in Hooks : h # r[2] => batch'[w].seen[h] = batch[w].seen[h]
  BY <1>3, <1>4, <1>5, HandledBatch
<1> QED BY <1>1, <1>6 DEF Handles, row, sent

LEMMA PostedBatch ==
  ASSUME TypeOK, Claims, OutcomeInv, RowInv, NEW w \in Workers, NEW r \in Rows,
         NEW o \in Outcomes, Post(w, r, o)
  PROVE  /\ delivery[r] \in DeliveryRow /\ delivery[r].attempts < MaxRetries
         /\ Handles(w, r, Attempted(delivery[r], o = "taken"))
         /\ batch'[w].sent = batch[w].sent \cup {r}
<1> DEFINE row == Attempted(delivery[r], o = "taken")
           spoilt == batch[w].spoilt \/ o = "garbled"
<1>1. r \in batch[w].todo /\ r \in batch[w].rows
  BY DEF Post, Claims
<1>2. batch[w].new[r] = delivery[r]
  BY <1>1 DEF OutcomeInv, Outcome
<1>3. delivery[r] \in DeliveryRow /\ delivery[r].attempts < MaxRetries
  BY <1>1 DEF TypeOK, Claims, RowInv
<1>4. row \in DeliveryRow
  BY <1>3, AttemptedRow
<1>5. HandledSet(w, r, row, batch[w].sent \cup {r}, spoilt)
  BY <1>2 DEF Post, Handled, HandledSet
<1>6. batch[w].sent \cup {r} \in SUBSET Rows /\ spoilt \in BOOLEAN
  BY DEF TypeOK, Batch
<1> HIDE DEF row, spoilt
<1>7. Handles(w, r, row) /\ batch'[w].sent = batch[w].sent \cup {r}
  BY <1>1, <1>4, <1>5, <1>6, HandledBatch DEF Handles
<1> QED BY <1>3, <1>7 DEF row

(***************************************************************************)
(* The two ways a webhook row changes keep it a row.                       *)
(***************************************************************************)
LEMMA HookEdits ==
  ASSUME NEW r \in HookRow, NEW on \in BOOLEAN, NEW types \in Filters
  PROVE  /\ [r EXCEPT !.active = on, !.events = types] \in HookRow
         /\ [r EXCEPT !.status = "gone"] \in HookRow
BY DEF HookRow

IInv == TypeOK /\ Claims /\ RowInv /\ OutcomeInv /\ CountInv /\ OwedInv

-----------------------------------------------------------------------------
(***************************************************************************)
(* Every variable keeps its type.  That a rolled-back POST leaves a count  *)
(* in Nat is CountInv.                                                     *)
(***************************************************************************)
LEMMA RollbackType ==
  ASSUME TypeOK, CountInv, NEW w \in Workers, Rollback(w)
  PROVE  /\ batch' \in [Workers -> Batch]
         /\ posts' \in [Rows -> Nat]
<1>1. batch' \in [Workers -> Batch]
  BY RowTypes, BatchStep DEF Rollback
<1>2. ASSUME NEW r \in Rows, r \in batch[w].sent PROVE posts[r] - 1 \in Nat
  <2>1. InBatch(r) /\ delivery[r].attempts \in Nat
    BY <1>2 DEF InBatch, TypeOK, DeliveryRow
  <2> QED BY <2>1 DEF CountInv
<1>3. posts \in [Rows -> Nat]
  BY DEF TypeOK
<1> QED BY <1>1, <1>2, <1>3 DEF Rollback

LEMMA TypeStep == ASSUME IInv, [Next]_vars PROVE TypeOK'
<1> USE OutboxAssumption DEF IInv
<1>1. ASSUME NEW e \in Events, Request(e) PROVE TypeOK'
  <2>1. CASE Emit(e)
    BY <2>1 DEF Emit, TypeOK, Matching
  <2>2. CASE CommitRequest(e)
    <3>1. Enqueued(e) \in [Rows -> DeliveryRow]
      BY RowTypes DEF Enqueued, TypeOK
    <3> QED BY <2>2, <3>1 DEF CommitRequest, history, TypeOK
  <2>3. CASE Abandon(e) /\ faults' \in 0..MaxFaults
    BY <2>3 DEF Abandon, TypeOK
  <2>4. faults < MaxFaults /\ faults' = faults + 1 => faults' \in 0..MaxFaults
    BY DEF TypeOK
  <2> QED BY <1>1, <2>1, <2>2, <2>3, <2>4 DEF Request, ForeignKeyRefuses, RequestDies, TypeOK
<1>2. ASSUME NEW w \in Workers, Process(w) PROVE TypeOK'
  <2>1. CASE Claim(w)
    <3>1. batch' \in [Workers -> Batch]
      BY <2>1, OpenedBatch, BatchStep
    <3> QED BY <2>1, <3>1 DEF Claim, history, TypeOK
  <2>2. CASE CommitBatch(w)
    <3>1. batch' \in [Workers -> Batch]
      BY <2>2, RowTypes, BatchStep DEF CommitBatch
    <3>2. \A r \in Rows : batch[w].new[r] \in DeliveryRow /\ delivery[r] \in DeliveryRow
      BY DEF TypeOK, Batch
    <3>3. delivery' \in [Rows -> DeliveryRow]
      BY <2>2, <3>2 DEF CommitBatch
    <3> QED BY <2>2, <3>1, <3>3 DEF CommitBatch, history, TypeOK
  <2>3. ASSUME NEW r \in Rows, Skip(w, r) PROVE TypeOK'
    <3>1. delivery[r] \in DeliveryRow
      BY DEF TypeOK
    <3>4. batch' \in [Workers -> Batch]
      BY <2>3, SkippedBatch DEF Handles
    <3> QED BY <2>3, <3>4 DEF Skip, history, TypeOK
  <2>4. ASSUME NEW r \in Rows, NEW o \in Outcomes, Post(w, r, o) PROVE TypeOK'
    <3>1. batch' \in [Workers -> Batch]
      BY <2>4, PostedBatch DEF Handles
    <3>2. posts' \in [Rows -> Nat]
      BY <2>4 DEF Post, TypeOK
    <3>3. got' \in [Events -> SUBSET Hooks]
      BY <2>4 DEF Post, TypeOK, Rows
    <3> QED BY <2>4, <3>1, <3>2, <3>3 DEF Post, TypeOK
  <2>5. CASE CommitRefused(w)
    BY <2>5, RollbackType DEF CommitRefused, Rollback, TypeOK
  <2> QED BY <1>2, <2>1, <2>2, <2>3, <2>4, <2>5 DEF Process
<1>3. ASSUME NEW w \in Workers, WorkerDies(w) PROVE TypeOK'
  <2>1. faults' \in 0..MaxFaults
    BY <1>3 DEF WorkerDies, TypeOK
  <2>2. batch' \in [Workers -> Batch] /\ posts' \in [Rows -> Nat]
    BY <1>3, RollbackType DEF WorkerDies
  <2> QED BY <1>3, <2>1, <2>2 DEF WorkerDies, Rollback, TypeOK
<1>4. ASSUME Deadlocks PROVE TypeOK'
  <2>1. ASSUME NEW w \in Workers, VictimWorker(w) PROVE TypeOK'
    BY <2>1, RollbackType DEF VictimWorker, Rollback, TypeOK
  <2>2. ASSUME NEW w \in Workers, NEW h \in Hooks, VictimDelete(w, h) PROVE TypeOK'
    BY <2>2 DEF VictimDelete, history, TypeOK
  <2> QED BY <1>4, <2>1, <2>2 DEF Deadlocks
<1>5. ASSUME NEW r \in Rows, BackoffEnds(r) PROVE TypeOK'
  <2>1. [delivery[r] EXCEPT !.at = "due"] \in DeliveryRow
    BY DEF TypeOK, DeliveryRow
  <2>2. delivery' \in [Rows -> DeliveryRow]
    BY <1>5, <2>1 DEF BackoffEnds, TypeOK
  <2> QED BY <1>5, <2>2 DEF BackoffEnds, history, TypeOK
<1>6. ASSUME Admin PROVE TypeOK'
  <2>1. KeepOwed => owed' \in [Events -> SUBSET Hooks]
    BY DEF KeepOwed, TypeOK
  <2>2. Edit => edits' \in 0..MaxEdits
    BY DEF Edit, TypeOK
  <2>3. ASSUME NEW h \in Hooks, NEW on \in BOOLEAN, NEW types \in Filters,
               CreateHook(h, on, types)
        PROVE  TypeOK'
    <3>1. hook' \in [Hooks -> HookRow]
      BY <2>3 DEF CreateHook, TypeOK, HookRow
    <3> QED BY <2>2, <2>3, <3>1 DEF CreateHook, Edit, TypeOK
  <2>4. ASSUME NEW h \in Hooks, NEW on \in BOOLEAN, NEW types \in Filters,
               PatchHook(h, on, types)
        PROVE  TypeOK'
    <3>1. [hook[h] EXCEPT !.active = on, !.events = types] \in HookRow
      BY HookEdits DEF TypeOK
    <3>2. hook' = [hook EXCEPT ![h] = [hook[h] EXCEPT !.active = on, !.events = types]]
      BY <2>4 DEF PatchHook, TypeOK
    <3>3. hook' \in [Hooks -> HookRow]
      BY <3>1, <3>2 DEF TypeOK
    <3> QED BY <2>1, <2>2, <2>4, <3>3 DEF PatchHook, Edit, TypeOK
  <2>5. ASSUME NEW h \in Hooks, DeleteHook(h) PROVE TypeOK'
    BY <2>2, <2>5 DEF DeleteHook, Edit, TypeOK
  <2>6. ASSUME NEW h \in Hooks, DeleteCommits(h) PROVE TypeOK'
    <3>1. hook' \in [Hooks -> HookRow]
      BY <2>6 DEF DeleteCommits, TypeOK, HookRow
    <3>2. delivery' \in [Rows -> DeliveryRow] /\ posts' \in [Rows -> Nat]
      BY <2>6, RowTypes DEF DeleteCommits, TypeOK
    <3> QED BY <2>1, <2>6, <3>1, <3>2 DEF DeleteCommits, TypeOK
  <2> QED BY <1>6, <2>3, <2>4, <2>5, <2>6 DEF Admin
<1>7. CASE UNCHANGED vars
  BY <1>7 DEF vars, TypeOK
<1> QED BY <1>1, <1>2, <1>3, <1>4, <1>5, <1>6, <1>7 DEF Next

-----------------------------------------------------------------------------
(***************************************************************************)
(* Nothing but its own commit changes a claimed row.                       *)
(***************************************************************************)
LEMMA ClaimedKept ==
  ASSUME IInv, [Next]_vars, NEW w \in Workers, NEW r \in batch[w].rows, ~CommitBatch(w)
  PROVE  delivery'[r] = delivery[r]
<1> USE DEF IInv
<1>1. /\ r \in Rows /\ delivery[r].status = "pending" /\ delivery[r].at = "due"
      /\ stage[r[1]] = "committed" /\ r \in Locked
      /\ \A v \in Workers : v # w => r \notin batch[v].rows
  <2>1. r \in Rows
    BY DEF TypeOK, Batch
  <2>2. \A v \in Workers : v # w => r \notin batch[v].rows
    BY DEF Claims
  <2> QED BY <2>1, <2>2 DEF Claims, RowInv, Locked
<1>2. ASSUME NEW e \in Events, CommitRequest(e) PROVE delivery'[r] = delivery[r]
  BY <1>1, <1>2 DEF CommitRequest, Enqueued
<1>3. ASSUME NEW v \in Workers, CommitBatch(v) PROVE delivery'[r] = delivery[r]
  BY <1>1, <1>3 DEF CommitBatch
<1>4. ASSUME NEW q \in Rows, BackoffEnds(q) PROVE delivery'[r] = delivery[r]
  BY <1>1, <1>4 DEF BackoffEnds, TypeOK
<1>5. ASSUME NEW h \in Hooks, DeleteCommits(h) PROVE delivery'[r] = delivery[r]
  BY <1>1, <1>5 DEF DeleteCommits
<1>6. CASE UNCHANGED delivery
  BY <1>6
<1>7. ASSUME NEW e \in Events, Request(e) PROVE CommitRequest(e) \/ UNCHANGED delivery
  BY <1>7 DEF Request, Emit, ForeignKeyRefuses, RequestDies, Abandon
<1>8. ASSUME NEW v \in Workers, Process(v) \/ WorkerDies(v)
      PROVE  CommitBatch(v) \/ UNCHANGED delivery
  BY <1>8 DEF Process, Claim, Skip, Post, CommitRefused, WorkerDies, Rollback
<1>9. ASSUME Deadlocks PROVE UNCHANGED delivery
  BY <1>9 DEF Deadlocks, VictimWorker, VictimDelete, Rollback
<1>10. ASSUME Admin PROVE (\E h \in Hooks : DeleteCommits(h)) \/ UNCHANGED delivery
  BY <1>10 DEF Admin, CreateHook, PatchHook, DeleteHook
<1>11. CASE UNCHANGED vars
  BY <1>6, <1>11 DEF vars
<1> QED
  BY <1>2, <1>3, <1>4, <1>5, <1>6, <1>7, <1>8, <1>9, <1>10, <1>11 DEF Next

(***************************************************************************)
(* The four ways a step changes a batch: it stays as it is, ends, is       *)
(* opened, or handles one of its rows.                                     *)
(***************************************************************************)
Ended(w) ==
  /\ batch' = [batch EXCEPT ![w] = Idle]
  /\ CommitBatch(w) \/ Rollback(w)

LEMMA BatchSteps ==
  ASSUME IInv, [Next]_vars
  PROVE  \/ UNCHANGED batch
         \/ \E w \in Workers :
              Ended(w) \/ Claim(w) \/ \E r \in Rows : Skip(w, r) \/ \E o \in Outcomes : Post(w, r, o)
<1>1. ASSUME NEW e \in Events, Request(e) PROVE UNCHANGED batch
  BY <1>1 DEF Request, Emit, CommitRequest, ForeignKeyRefuses, RequestDies, Abandon
<1>2. ASSUME NEW w \in Workers, CommitBatch(w) PROVE Ended(w)
  BY <1>2 DEF CommitBatch, Ended
<1>3. ASSUME NEW w \in Workers, Rollback(w) PROVE Ended(w)
  BY <1>3 DEF Rollback, Ended
<1>4. ASSUME Deadlocks PROVE UNCHANGED batch \/ \E w \in Workers : Rollback(w)
  BY <1>4 DEF Deadlocks, VictimWorker, VictimDelete
<1>5. ASSUME Admin PROVE UNCHANGED batch
  BY <1>5 DEF Admin, CreateHook, PatchHook, DeleteHook, DeleteCommits, Edit
<1>6. \A r \in Rows : BackoffEnds(r) => UNCHANGED batch
  BY DEF BackoffEnds
<1> QED
  BY <1>1, <1>2, <1>3, <1>4, <1>5, <1>6 DEF Next, Process, CommitRefused, WorkerDies, vars

LEMMA IdleBatch == Idle.rows = {} /\ Idle.todo = {} /\ Idle.sent = {}
BY DEF Idle

(***************************************************************************)
(* Claims: a batch takes due rows that no batch has, and they stay so.     *)
(***************************************************************************)
LEMMA ClaimsStep == ASSUME IInv, [Next]_vars PROVE Claims'
<1> USE DEF IInv
<1>1. CASE UNCHANGED batch
  <2>1. ASSUME NEW w \in Workers, NEW r \in batch[w].rows PROVE delivery'[r] = delivery[r]
    <3>1. CASE CommitBatch(w)
      <4>1. batch'[w].rows = {}
        BY <3>1, IdleBatch DEF CommitBatch, TypeOK
      <4> QED BY <1>1, <4>1
    <3> QED BY <3>1, ClaimedKept
  <2> QED BY <1>1, <2>1 DEF Claims
<1>2. ASSUME NEW w \in Workers, Ended(w) PROVE Claims'
  <2>1. batch'[w] = Idle /\ \A v \in Workers : v # w => batch'[v] = batch[v]
    BY <1>2 DEF Ended, TypeOK
  <2>2. ASSUME NEW v \in Workers, v # w, NEW r \in batch[v].rows PROVE delivery'[r] = delivery[r]
    <3>1. CASE CommitBatch(v)
      <4>1. batch[v].rows = {}
        BY <2>1, <2>2, <3>1, IdleBatch DEF CommitBatch, TypeOK
      <4> QED BY <2>2, <4>1
    <3> QED BY <3>1, ClaimedKept
  <2> QED BY <2>1, <2>2, IdleBatch DEF Claims
<1>3. ASSUME NEW w \in Workers, Claim(w) PROVE Claims'
  <2>1. PICK b \in Batch : /\ batch' = [batch EXCEPT ![w] = b]
                           /\ b.rows \subseteq Due \ Locked /\ b.todo = b.rows /\ b.sent = {}
    BY <1>3, OpenedBatch
  <2>2. batch'[w] = b /\ \A v \in Workers : v # w => batch'[v] = batch[v]
    BY <2>1, BatchStep
  <2>3. \A r \in b.rows : /\ delivery[r].status = "pending" /\ delivery[r].at = "due"
                          /\ \A v \in Workers : r \notin batch[v].rows
    BY <2>1 DEF Due, Locked
  <2>4. UNCHANGED delivery
    BY <1>3 DEF Claim
  <2> QED BY <2>1, <2>2, <2>3, <2>4 DEF Claims
<1>4. ASSUME NEW w \in Workers, NEW r \in Rows, Skip(w, r) PROVE Claims'
  <2>1. Handles(w, r, Skipped(delivery[r])) /\ batch'[w].sent = batch[w].sent
    BY <1>4, SkippedBatch
  <2>2. UNCHANGED delivery
    BY <1>4 DEF Skip
  <2> QED BY <2>1, <2>2 DEF Claims, Handles
<1>5. ASSUME NEW w \in Workers, NEW r \in Rows, NEW o \in Outcomes, Post(w, r, o) PROVE Claims'
  <2>1. /\ Handles(w, r, Attempted(delivery[r], o = "taken"))
        /\ batch'[w].sent = batch[w].sent \cup {r}
    BY <1>5, PostedBatch
  <2>2. UNCHANGED delivery
    BY <1>5 DEF Post
  <2> QED BY <2>1, <2>2 DEF Claims, Handles
<1> QED BY <1>1, <1>2, <1>3, <1>4, <1>5, BatchSteps

(***************************************************************************)
(* What the batch that commits has made of its rows.                       *)
(***************************************************************************)
LEMMA CommittedRow ==
  ASSUME IInv, NEW w \in Workers, CommitBatch(w), NEW r \in batch[w].rows
  PROVE  LET d == delivery[r]
             n == delivery'[r]
         IN  /\ r \in Rows /\ d \in DeliveryRow /\ d.status = "pending" /\ d.attempts < MaxRetries
             /\ n.attempts = d.attempts + (IF r \in batch[w].sent THEN 1 ELSE 0)
             /\ \/ n.status = "succeeded" /\ r[2] \in got[r[1]]
                \/ n.status = "dead" /\ n.attempts = MaxRetries
                \/ n.status = "pending" /\ n.attempts < MaxRetries /\ n.at # "never"
                \/ n.status = "dead" /\ n.attempts < MaxRetries /\ r[2] \notin owed[r[1]]
<1> USE DEF IInv
<1> DEFINE d == delivery[r]
           n == delivery'[r]
<1>1. r \in Rows /\ d \in DeliveryRow /\ d.status = "pending" /\ d.attempts < MaxRetries
  <2>1. r \in Rows
    BY DEF TypeOK, Batch
  <2> QED BY <2>1 DEF TypeOK, Claims, RowInv
<1>2. n = batch[w].new[r] /\ r \notin batch[w].todo /\ Outcome(w, r)
  BY <1>1 DEF CommitBatch, Ready, OutcomeInv
<1> HIDE DEF n
<1>3. CASE r \in batch[w].sent /\ n = Attempted(d, TRUE) /\ r[2] \in got[r[1]]
  BY <1>1, <1>3, AttemptedEither DEF n
<1>4. CASE r \in batch[w].sent /\ n = Attempted(d, FALSE)
  BY <1>1, <1>4, AttemptedEither DEF n
<1>5. CASE r \notin batch[w].sent /\ n = Skipped(d) /\ r[2] \notin owed[r[1]]
  <2>1. n.attempts = d.attempts /\ n.status = "dead" /\ d.attempts \in Nat
    BY <1>1, <1>5, RowTypes DEF DeliveryRow
  <2> QED BY <1>1, <1>5, <2>1 DEF n
<1> QED BY <1>2, <1>3, <1>4, <1>5 DEF Outcome

(***************************************************************************)
(* RowInv: rows come from committed mutations, pending ones are alive.     *)
(***************************************************************************)
LEMMA RowStep == ASSUME IInv, [Next]_vars PROVE RowInv'
<1> USE OutboxAssumption DEF IInv
<1>1. CASE UNCHANGED <<delivery, stage, picked>>
  BY <1>1 DEF RowInv
<1>2. ASSUME NEW e \in Events, Request(e) PROVE RowInv'
  <2>1. ASSUME NEW x, stage[e] # "committed", stage' = [stage EXCEPT ![e] = x],
               UNCHANGED delivery, \A f \in Events : f # e => picked'[f] = picked[f]
        PROVE  RowInv'
    BY <2>1 DEF RowInv, TypeOK, Rows
  <2>2. CASE CommitRequest(e)
    <3>1. stage' = [stage EXCEPT ![e] = "committed"] /\ delivery' = Enqueued(e) /\ UNCHANGED picked
      BY <2>2 DEF CommitRequest
    <3>2. ASSUME NEW r \in Rows, r[1] = e, r[2] \in picked[e]
          PROVE  delivery'[r] = Pending /\ stage'[r[1]] = "committed" /\ r[2] \in picked'[r[1]]
      BY <3>1, <3>2 DEF Enqueued, TypeOK
    <3>3. ASSUME NEW r \in Rows, ~(r[1] = e /\ r[2] \in picked[e])
          PROVE  /\ delivery'[r] = delivery[r] /\ picked'[r[1]] = picked[r[1]]
                 /\ stage[r[1]] = "committed" => stage'[r[1]] = "committed"
      BY <3>1, <3>3 DEF Enqueued, TypeOK, Rows
    <3> QED BY <3>2, <3>3 DEF RowInv, Pending
  <2>3. CASE Emit(e)
    BY <2>1, <2>3 DEF Emit, TypeOK
  <2>4. CASE Abandon(e)
    BY <2>1, <2>4 DEF Abandon
  <2> QED BY <1>2, <2>2, <2>3, <2>4 DEF Request, ForeignKeyRefuses, RequestDies
<1>3. ASSUME NEW w \in Workers, CommitBatch(w) PROVE RowInv'
  <2>1. UNCHANGED <<stage, picked>> /\ \A r \in Rows \ batch[w].rows : delivery'[r] = delivery[r]
    BY <1>3 DEF CommitBatch
  <2> QED BY <1>3, <2>1, CommittedRow DEF RowInv
<1>4. ASSUME NEW q \in Rows, BackoffEnds(q) PROVE RowInv'
  <2>1. /\ delivery[q] \in DeliveryRow /\ delivery' = [delivery EXCEPT ![q].at = "due"]
        /\ UNCHANGED <<stage, picked>>
    BY <1>4 DEF BackoffEnds, TypeOK
  <2>2. /\ delivery'[q].status = delivery[q].status /\ delivery'[q].attempts = delivery[q].attempts
        /\ delivery'[q].at = "due" /\ \A r \in Rows : r # q => delivery'[r] = delivery[r]
    BY <2>1 DEF TypeOK, DeliveryRow
  <2> QED BY <2>1, <2>2 DEF RowInv
<1>5. ASSUME NEW h \in Hooks, DeleteCommits(h) PROVE RowInv'
  <2>1. UNCHANGED <<stage, picked>>
    BY <1>5 DEF DeleteCommits
  <2>2. ASSUME NEW r \in Rows
        PROVE  delivery'[r] = IF r[2] = h /\ delivery[r].status # "none" THEN Deleted ELSE delivery[r]
    BY <1>5 DEF DeleteCommits
  <2>3. Deleted.status = "gone"
    BY DEF Deleted
  <2> QED BY <2>1, <2>2, <2>3 DEF RowInv
<1>6. ASSUME NEW w \in Workers, Process(w) \/ WorkerDies(w)
      PROVE  CommitBatch(w) \/ UNCHANGED <<delivery, stage, picked>>
  BY <1>6 DEF Process, Claim, Skip, Post, CommitRefused, WorkerDies, Rollback
<1>7. ASSUME Deadlocks PROVE UNCHANGED <<delivery, stage, picked>>
  BY <1>7 DEF Deadlocks, VictimWorker, VictimDelete, Rollback
<1>8. ASSUME Admin PROVE (\E h \in Hooks : DeleteCommits(h)) \/ UNCHANGED <<delivery, stage, picked>>
  BY <1>8 DEF Admin, CreateHook, PatchHook, DeleteHook, Edit
<1> QED BY <1>1, <1>2, <1>3, <1>4, <1>5, <1>6, <1>7, <1>8 DEF Next, vars

(***************************************************************************)
(* What is owed only shrinks, but for a mutation that is just emitted.     *)
(***************************************************************************)
LEMMA OwedStep ==
  ASSUME IInv, [Next]_vars, NEW e \in Events, stage[e] = "committed"
  PROVE  owed'[e] \subseteq owed[e] /\ got[e] \subseteq got'[e]
<1> USE DEF IInv
<1>1. ASSUME NEW f \in Events, Request(f) PROVE owed'[e] \subseteq owed[e] /\ UNCHANGED got
  BY <1>1 DEF Request, Emit, CommitRequest, ForeignKeyRefuses, RequestDies, Abandon, history, TypeOK
<1>2. ASSUME NEW w \in Workers, Process(w) \/ WorkerDies(w)
      PROVE  UNCHANGED owed /\ got[e] \subseteq got'[e]
  <2>1. CASE \E r \in Rows, o \in Outcomes : Post(w, r, o)
    BY <2>1 DEF Post, TypeOK, Rows
  <2> QED BY <1>2, <2>1 DEF Process, Claim, CommitBatch, Skip, CommitRefused, WorkerDies, Rollback, history
<1>3. ASSUME Deadlocks PROVE UNCHANGED <<owed, got>>
  BY <1>3 DEF Deadlocks, VictimWorker, VictimDelete, Rollback, history
<1>4. ASSUME Admin PROVE owed'[e] \subseteq owed[e] /\ UNCHANGED got
  BY <1>4 DEF Admin, CreateHook, PatchHook, DeleteHook, DeleteCommits, Edit, KeepOwed
<1>5. \A r \in Rows : BackoffEnds(r) => UNCHANGED <<owed, got>>
  BY DEF BackoffEnds, history
<1> QED BY <1>1, <1>2, <1>3, <1>4, <1>5 DEF Next, vars

(***************************************************************************)
(* A webhook a batch takes for switched off is owed none of its rows.      *)
(***************************************************************************)
LEMMA InactiveNotOwed ==
  ASSUME IInv, NEW w \in Workers, NEW r \in batch[w].rows, ~IsActive(w, r[2])
  PROVE  r[2] \notin owed[r[1]]
<1>1. r \in Rows /\ r[1] \in Events /\ r[2] \in Hooks
  BY DEF IInv, TypeOK, Batch, Rows
<1>2. batch[w].seen[r[2]] = FALSE \/ ~hook[r[2]].active
  BY <1>1, ActiveTypes DEF IInv
<1> QED BY <1>1, <1>2 DEF IInv, OwedInv, Subscribed

(***************************************************************************)
(* OutcomeInv: the session of a batch holds what its handling of each row  *)
(* has come to.                                                            *)
(***************************************************************************)
LEMMA OutcomeStep == ASSUME IInv, [Next]_vars PROVE OutcomeInv'
<1> USE DEF IInv
<1>1. ASSUME NEW w \in Workers, NEW r \in batch[w].rows
      PROVE  /\ r \in Rows /\ r[1] \in Events /\ delivery[r].attempts < MaxRetries
             /\ owed'[r[1]] \subseteq owed[r[1]] /\ got[r[1]] \subseteq got'[r[1]]
  <2>1. r \in Rows /\ r[1] \in Events
    BY DEF TypeOK, Batch, Rows
  <2>2. stage[r[1]] = "committed" /\ delivery[r].attempts < MaxRetries
    BY <2>1 DEF Claims, RowInv
  <2> QED BY <2>1, <2>2, OwedStep
<1>2. ASSUME NEW w \in Workers, batch'[w] = batch[w], NEW r \in batch[w].rows,
             delivery'[r] = delivery[r]
      PROVE  Outcome(w, r)'
  BY <1>1, <1>2 DEF OutcomeInv, Outcome
<1>3. ASSUME NEW w \in Workers, batch'[w] = batch[w], NEW r \in batch[w].rows PROVE Outcome(w, r)'
  <2>1. CASE CommitBatch(w)
    <3>1. batch'[w].rows = {}
      BY <2>1, IdleBatch DEF CommitBatch, TypeOK
    <3> QED BY <1>3, <3>1
  <2> QED BY <1>2, <1>3, <2>1, ClaimedKept
<1>4. CASE UNCHANGED batch
  BY <1>3, <1>4 DEF OutcomeInv
<1>5. ASSUME NEW w \in Workers, Ended(w) PROVE OutcomeInv'
  <2>1. batch'[w] = Idle /\ \A v \in Workers : v # w => batch'[v] = batch[v]
    BY <1>5 DEF Ended, TypeOK
  <2> QED BY <1>3, <2>1, IdleBatch DEF OutcomeInv
<1>6. ASSUME NEW w \in Workers, Claim(w) PROVE OutcomeInv'
  <2>1. PICK b \in Batch : /\ batch' = [batch EXCEPT ![w] = b] /\ b.todo = b.rows
                           /\ \A r \in b.rows : b.new[r] = delivery[r]
    BY <1>6, OpenedBatch
  <2>2. batch'[w] = b /\ \A v \in Workers : v # w => batch'[v] = batch[v]
    BY <2>1, BatchStep
  <2>3. UNCHANGED delivery
    BY <1>6 DEF Claim
  <2>4. \A r \in batch'[w].rows : Outcome(w, r)'
    BY <2>1, <2>2, <2>3 DEF Outcome
  <2> QED BY <1>3, <2>2, <2>4 DEF OutcomeInv
<1>7. ASSUME NEW w \in Workers, NEW r \in Rows, NEW row, Handles(w, r, row), UNCHANGED delivery,
             batch'[w].sent \subseteq batch[w].sent \cup {r}, batch[w].sent \subseteq batch'[w].sent,
             Outcome(w, r)'
      PROVE  OutcomeInv'
  <2>1. ASSUME NEW q \in batch'[w].rows, q # r PROVE Outcome(w, q)'
    <3>1. q \in batch[w].rows /\ Outcome(w, q)
      BY <1>7, <2>1 DEF Handles, OutcomeInv
    <3>2. /\ q \in batch'[w].todo <=> q \in batch[w].todo
          /\ q \in batch'[w].sent <=> q \in batch[w].sent
      BY <1>7, <2>1 DEF Handles
    <3>3. batch'[w].new[q] = batch[w].new[q] /\ delivery'[q] = delivery[q]
      BY <1>1, <1>7, <2>1, <3>1 DEF Handles
    <3>4. owed'[q[1]] \subseteq owed[q[1]] /\ got[q[1]] \subseteq got'[q[1]]
      BY <1>1, <3>1
    <3> QED BY <3>1, <3>2, <3>3, <3>4 DEF Outcome
  <2>2. \A v \in Workers : v # w => batch'[v] = batch[v]
    BY <1>7 DEF Handles
  <2> QED BY <1>3, <1>7, <2>1, <2>2 DEF OutcomeInv
<1>8. ASSUME NEW w \in Workers, NEW r \in Rows, Skip(w, r) PROVE OutcomeInv'
  <2>1. Handles(w, r, Skipped(delivery[r])) /\ batch'[w].sent = batch[w].sent
    BY <1>8, SkippedBatch
  <2>2. r \in batch[w].rows /\ r \notin batch[w].sent /\ r \notin batch'[w].todo
    BY <2>1 DEF Handles, Claims
  <2>3. UNCHANGED <<delivery, owed>> /\ r[2] \notin owed[r[1]]
    BY <1>8, <2>2, InactiveNotOwed DEF Skip, history
  <2>4. Outcome(w, r)'
    BY <2>1, <2>2, <2>3 DEF Outcome, Handles, Skipped
  <2> QED BY <1>7, <2>1, <2>3, <2>4
<1>9. ASSUME NEW w \in Workers, NEW r \in Rows, NEW o \in Outcomes, Post(w, r, o) PROVE OutcomeInv'
  <2>1. /\ Handles(w, r, Attempted(delivery[r], o = "taken"))
        /\ batch'[w].sent = batch[w].sent \cup {r}
    BY <1>9, PostedBatch
  <2>2. r \notin batch'[w].todo /\ r \in batch'[w].sent
    BY <2>1 DEF Handles
  <2>3. UNCHANGED delivery
    BY <1>9 DEF Post
  <2>4. CASE o = "taken"
    <3>1. batch'[w].new[r] = Attempted(delivery[r], TRUE)
      BY <2>1, <2>4 DEF Handles, Attempted
    <3>2. r[2] \in got'[r[1]]
      BY <1>9, <2>4 DEF Post, Rows, TypeOK
    <3>3. Outcome(w, r)'
      BY <2>2, <2>3, <3>1, <3>2 DEF Outcome, Attempted
    <3> QED BY <1>7, <2>1, <2>3, <3>3
  <2>5. CASE o # "taken"
    <3>1. batch'[w].new[r] = Attempted(delivery[r], FALSE)
      BY <2>1, <2>5 DEF Handles, Attempted
    <3>2. Outcome(w, r)'
      BY <2>2, <2>3, <3>1 DEF Outcome, Attempted, Exhausted
    <3> QED BY <1>7, <2>1, <2>3, <3>2
  <2> QED BY <2>4, <2>5
<1> QED BY <1>4, <1>5, <1>6, <1>8, <1>9, BatchSteps

(***************************************************************************)
(* CountInv: a POST is counted in the batch that made it and, when that    *)
(* commits, in the row.                                                    *)
(***************************************************************************)
LEMMA CountStep == ASSUME IInv, [Next]_vars PROVE CountInv'
<1> USE DEF IInv
<1>1. \A r \in Rows : delivery[r].attempts \in Nat /\ posts[r] \in Nat
  BY DEF TypeOK, DeliveryRow
<1>2. ASSUME NEW w \in Workers, batch' = [batch EXCEPT ![w] = Idle], NEW r \in Rows
      PROVE  InBatch(r)' <=> InBatch(r) /\ r \notin batch[w].sent
  <2>1. batch'[w].sent = {} /\ \A v \in Workers : v # w => batch'[v] = batch[v]
    BY <1>2, IdleBatch DEF TypeOK
  <2>2. \A v \in Workers : v # w => batch[v].sent \cap batch[w].sent = {}
    BY DEF Claims
  <2> QED BY <2>1, <2>2 DEF InBatch
<1>3. CASE UNCHANGED <<batch, posts>> /\ \A r \in Rows : delivery'[r].attempts = delivery[r].attempts
  BY <1>3 DEF CountInv, InBatch
<1>4. ASSUME NEW e \in Events, CommitRequest(e) PROVE CountInv'
  <2>1. ASSUME NEW r \in Rows PROVE delivery'[r].attempts = delivery[r].attempts
    <3>1. CASE r[1] = e /\ r[2] \in picked[e]
      BY <1>4, <3>1 DEF CommitRequest, Enqueued, Pending, RowInv
    <3>2. CASE ~(r[1] = e /\ r[2] \in picked[e])
      BY <1>4, <3>2 DEF CommitRequest, Enqueued
    <3> QED BY <3>1, <3>2
  <2> QED BY <1>3, <1>4, <2>1 DEF CommitRequest, history
<1>5. ASSUME NEW w \in Workers, CommitBatch(w) PROVE CountInv'
  <2>1. batch' = [batch EXCEPT ![w] = Idle] /\ UNCHANGED posts
          /\ \A r \in Rows \ batch[w].rows : delivery'[r] = delivery[r]
    BY <1>5 DEF CommitBatch, history
  <2>2. ASSUME NEW r \in Rows
        PROVE  posts'[r] = delivery'[r].attempts + (IF InBatch(r)' THEN 1 ELSE 0)
    <3>1. posts[r] = delivery[r].attempts + (IF InBatch(r) THEN 1 ELSE 0)
      BY DEF CountInv
    <3>2. CASE r \in batch[w].sent
      <4>1. r \in batch[w].rows /\ InBatch(r) /\ ~InBatch(r)'
        BY <1>2, <2>1, <3>2 DEF Claims, InBatch
      <4>2. delivery'[r].attempts = delivery[r].attempts + 1
        BY <1>5, <3>2, <4>1, CommittedRow
      <4> QED BY <1>1, <2>1, <3>1, <4>1, <4>2
    <3>3. CASE r \notin batch[w].sent
      <4>1. InBatch(r)' <=> InBatch(r)
        BY <1>2, <2>1, <3>3
      <4>2. delivery'[r].attempts = delivery[r].attempts
        BY <1>1, <1>5, <2>1, <3>3, CommittedRow
      <4> QED BY <2>1, <3>1, <4>1, <4>2
    <3> QED BY <3>2, <3>3
  <2> QED BY <2>2 DEF CountInv
<1>6. ASSUME NEW w \in Workers, Rollback(w) PROVE CountInv'
  <2>1. batch' = [batch EXCEPT ![w] = Idle] /\ UNCHANGED delivery
          /\ posts' = [r \in Rows |-> IF r \in batch[w].sent THEN posts[r] - 1 ELSE posts[r]]
    BY <1>6 DEF Rollback
  <2>2. \A r \in batch[w].sent : InBatch(r)
    BY DEF InBatch
  <2>3. ASSUME NEW r \in Rows
        PROVE  posts'[r] = delivery'[r].attempts + (IF InBatch(r)' THEN 1 ELSE 0)
    <3>1. InBatch(r)' <=> InBatch(r) /\ r \notin batch[w].sent
      BY <1>2, <2>1
    <3>2. posts'[r] = IF r \in batch[w].sent THEN posts[r] - 1 ELSE posts[r]
      BY <2>1
    <3>3. posts[r] = delivery[r].attempts + (IF InBatch(r) THEN 1 ELSE 0)
      BY DEF CountInv
    <3> QED BY <1>1, <2>1, <2>2, <3>1, <3>2, <3>3
  <2> QED BY <2>3 DEF CountInv
<1>7. ASSUME NEW w \in Workers, Claim(w) PROVE CountInv'
  <2>1. PICK b \in Batch : batch' = [batch EXCEPT ![w] = b] /\ b.sent = {}
    BY <1>7, OpenedBatch
  <2>2. batch'[w] = b /\ \A v \in Workers : v # w => batch'[v] = batch[v]
    BY <2>1, BatchStep
  <2>3. batch[w].sent = {} /\ UNCHANGED <<delivery, posts>>
    BY <1>7 DEF Claim, Claims, history
  <2>4. \A r \in Rows : InBatch(r)' <=> InBatch(r)
    BY <2>1, <2>2, <2>3 DEF InBatch
  <2> QED BY <2>3, <2>4 DEF CountInv
<1>8. ASSUME NEW w \in Workers, NEW r \in Rows, Skip(w, r) PROVE CountInv'
  <2>1. Handles(w, r, Skipped(delivery[r])) /\ batch'[w].sent = batch[w].sent
    BY <1>8, SkippedBatch
  <2>2. UNCHANGED <<delivery, posts>> /\ \A q \in Rows : InBatch(q)' <=> InBatch(q)
    BY <1>8, <2>1 DEF Skip, history, Handles, InBatch
  <2> QED BY <2>2 DEF CountInv
<1>9. ASSUME NEW w \in Workers, NEW r \in Rows, NEW o \in Outcomes, Post(w, r, o) PROVE CountInv'
  <2>1. /\ Handles(w, r, Attempted(delivery[r], o = "taken"))
        /\ batch'[w].sent = batch[w].sent \cup {r}
    BY <1>9, PostedBatch
  <2>2. UNCHANGED delivery /\ posts' = [posts EXCEPT ![r] = @ + 1]
    BY <1>9 DEF Post
  <2>3. InBatch(r)' /\ \A q \in Rows : q # r => (InBatch(q)' <=> InBatch(q))
    BY <2>1 DEF InBatch, Handles
  <2>4. ~InBatch(r)
    BY <2>1 DEF InBatch, Handles, Claims
  <2> QED BY <1>1, <2>2, <2>3, <2>4 DEF CountInv, TypeOK
<1>10. ASSUME NEW q \in Rows, BackoffEnds(q) PROVE CountInv'
  <2>1. \A r \in Rows : delivery'[r].attempts = delivery[r].attempts
    BY <1>10 DEF BackoffEnds, TypeOK, DeliveryRow
  <2> QED BY <1>3, <1>10, <2>1 DEF BackoffEnds, history
<1>11. ASSUME NEW h \in Hooks, DeleteCommits(h) PROVE CountInv'
  <2>1. UNCHANGED batch /\ \A r \in Locked : r[2] # h
    BY <1>11 DEF DeleteCommits
  <2>2. ASSUME NEW r \in Rows
        PROVE  IF r[2] = h /\ delivery[r].status # "none"
               THEN delivery'[r] = Deleted /\ posts'[r] = 0
               ELSE delivery'[r] = delivery[r] /\ posts'[r] = posts[r]
    BY <1>11 DEF DeleteCommits
  <2>3. \A r \in Rows : InBatch(r) => r \in Locked
    BY DEF InBatch, Locked, Claims
  <2>4. Deleted.attempts = 0 /\ \A r \in Rows : InBatch(r)' <=> InBatch(r)
    BY <2>1 DEF Deleted, InBatch
  <2> QED BY <2>1, <2>2, <2>3, <2>4 DEF CountInv
<1>12. ASSUME NEW e \in Events, Request(e)
       PROVE  CommitRequest(e) \/ UNCHANGED <<batch, posts, delivery>>
  BY <1>12 DEF Request, Emit, ForeignKeyRefuses, RequestDies, Abandon
<1>13. ASSUME Deadlocks PROVE (\E w \in Workers : Rollback(w)) \/ UNCHANGED <<batch, posts, delivery>>
  BY <1>13 DEF Deadlocks, VictimWorker, VictimDelete, history
<1>14. ASSUME Admin PROVE (\E h \in Hooks : DeleteCommits(h)) \/ UNCHANGED <<batch, posts, delivery>>
  BY <1>14 DEF Admin, CreateHook, PatchHook, DeleteHook, Edit
<1>15. CASE UNCHANGED <<batch, posts, delivery>>
  BY <1>3, <1>15
<1> QED
  BY <1>4, <1>5, <1>6, <1>7, <1>8, <1>9, <1>10, <1>11, <1>12, <1>13, <1>14, <1>15
  DEF Next, Process, CommitRefused, WorkerDies, vars

(***************************************************************************)
(* OwedInv: who is owed is subscribed, as every edit takes away what no    *)
(* longer matches; a batch does not see a webhook switched on again.       *)
(***************************************************************************)
LEMMA KeepOwedInv ==
  ASSUME IInv, KeepOwed, UNCHANGED <<stage, picked, batch>> PROVE OwedInv'
<1>1. \A e \in Events : owed'[e] = {h \in owed[e] : Subscribed(e, h)'}
  BY DEF KeepOwed
<1>2. \A w \in Workers : \A r \in batch[w].rows : r[1] \in Events
  BY DEF IInv, TypeOK, Batch, Rows
<1> QED BY <1>1, <1>2 DEF IInv, OwedInv

LEMMA OwedInvStep == ASSUME IInv, [Next]_vars PROVE OwedInv'
<1> USE DEF IInv
<1>1. CASE UNCHANGED <<hook, stage, picked, batch, owed>>
  BY <1>1 DEF OwedInv, Subscribed, Live
<1>2. \A w \in Workers : \A r \in batch[w].rows : r \in Rows /\ stage[r[1]] = "committed"
  <2>1. \A w \in Workers : \A r \in batch[w].rows : r \in Rows
    BY DEF TypeOK, Batch
  <2> QED BY <2>1 DEF Claims, RowInv
<1>3. ASSUME NEW e \in Events, Request(e) PROVE OwedInv'
  <2>1. UNCHANGED <<hook, batch>>
    BY <1>3 DEF Request, Emit, CommitRequest, ForeignKeyRefuses, RequestDies, Abandon
  <2>2. CASE Emit(e)
    <3>1. stage[e] = "none" /\ stage' = [stage EXCEPT ![e] = "emitted"]
            /\ owed' = [owed EXCEPT ![e] = picked'[e]]
      BY <2>2 DEF Emit
    <3>2. picked'[e] \subseteq Matching(e) /\ \A f \in Events : f # e => picked'[f] = picked[f]
      BY <2>2 DEF Emit, TypeOK, OwedInv
    <3>3. \A w \in Workers : \A r \in batch[w].rows : r[1] # e /\ r[1] \in Events
      BY <1>2, <3>1 DEF Rows
    <3> QED BY <2>1, <3>1, <3>2, <3>3 DEF OwedInv, Matching, Subscribed, Live, TypeOK
  <2>3. CASE CommitRequest(e)
    BY <2>1, <2>3 DEF CommitRequest, history, OwedInv, Subscribed, Live, TypeOK
  <2>4. CASE Abandon(e)
    <3>1. \A w \in Workers : \A r \in batch[w].rows : r[1] # e /\ r[1] \in Events
      BY <1>2, <2>4 DEF Abandon, Rows
    <3> QED BY <2>1, <2>4, <3>1 DEF Abandon, OwedInv, Subscribed, Live, TypeOK
  <2> QED BY <1>3, <2>2, <2>3, <2>4 DEF Request, ForeignKeyRefuses, RequestDies
<1>4. ASSUME UNCHANGED <<hook, stage, picked, owed>>,
             \A w \in Workers : \A r \in batch'[w].rows :
               batch'[w].seen[r[2]] = FALSE => r[2] \notin owed[r[1]]
      PROVE  OwedInv'
  BY <1>4 DEF OwedInv, Subscribed, Live
<1>5. ASSUME NEW w \in Workers, Ended(w) PROVE OwedInv'
  <2>1. batch'[w] = Idle /\ \A v \in Workers : v # w => batch'[v] = batch[v]
    BY <1>5 DEF Ended, TypeOK
  <2>2. UNCHANGED <<hook, stage, picked, owed>>
    BY <1>5 DEF Ended, CommitBatch, Rollback, history
  <2> QED BY <1>4, <2>1, <2>2, IdleBatch DEF OwedInv
<1>6. ASSUME NEW w \in Workers, Claim(w) PROVE OwedInv'
  <2>1. PICK b \in Batch : /\ batch' = [batch EXCEPT ![w] = b]
                           /\ \A h \in Hooks : b.seen[h] = None
    BY <1>6, OpenedBatch
  <2>2. batch'[w] = b /\ \A v \in Workers : v # w => batch'[v] = batch[v]
    BY <2>1, BatchStep
  <2>3. None # FALSE
    BY OutboxAssumption
  <2>4. \A r \in b.rows : b.seen[r[2]] # FALSE
    BY <2>1, <2>3 DEF Batch, Rows
  <2>5. UNCHANGED <<hook, stage, picked, owed>>
    BY <1>6 DEF Claim, history
  <2> QED BY <1>4, <2>2, <2>4, <2>5 DEF OwedInv
<1>7. ASSUME NEW w \in Workers, NEW r \in Rows, NEW row, Handles(w, r, row),
             UNCHANGED <<hook, stage, picked, owed>>
      PROVE  OwedInv'
  <2>1. ASSUME NEW q \in batch'[w].rows, batch'[w].seen[q[2]] = FALSE
        PROVE  q[2] \notin owed[q[1]]
    <3>1. q \in batch[w].rows /\ q[2] \in Hooks
      BY <1>2, <1>7, <2>1 DEF Handles, Rows
    <3>2. CASE q[2] = r[2]
      <4>1. ~IsActive(w, q[2])
        BY <1>7, <2>1, <3>2 DEF Handles
      <4> QED BY <3>1, <4>1, InactiveNotOwed
    <3>3. CASE q[2] # r[2]
      BY <1>7, <2>1, <3>1, <3>3 DEF Handles, OwedInv
    <3> QED BY <3>2, <3>3
  <2>2. ASSUME NEW v \in Workers, v # w PROVE batch'[v] = batch[v]
    BY <1>7, <2>2 DEF Handles
  <2>3. ASSUME NEW v \in Workers, NEW q \in batch'[v].rows, batch'[v].seen[q[2]] = FALSE
        PROVE  q[2] \notin owed[q[1]]
    <3>1. CASE v = w
      BY <2>1, <2>3, <3>1
    <3>2. CASE v # w
      <4>1. q \in batch[v].rows /\ batch[v].seen[q[2]] = FALSE
        BY <2>2, <2>3, <3>2
      <4>2. \A b \in batch[v].rows : batch[v].seen[b[2]] = FALSE => b[2] \notin owed[b[1]]
        BY DEF IInv, OwedInv
      <4> QED BY <4>1, <4>2
    <3> QED BY <3>1, <3>2
  <2> QED BY <1>4, <1>7, <2>3
<1>8. ASSUME NEW w \in Workers, NEW r \in Rows, Skip(w, r) PROVE OwedInv'
  <2>1. Handles(w, r, Skipped(delivery[r]))
    BY <1>8, SkippedBatch
  <2> QED BY <1>7, <1>8, <2>1 DEF Skip, history
<1>9. ASSUME NEW w \in Workers, NEW r \in Rows, NEW o \in Outcomes, Post(w, r, o) PROVE OwedInv'
  <2>1. Handles(w, r, Attempted(delivery[r], o = "taken"))
    BY <1>9, PostedBatch
  <2> QED BY <1>7, <1>9, <2>1 DEF Post
<1>10. ASSUME Admin PROVE OwedInv'
  <2>1. ASSUME NEW h \in Hooks, NEW on \in BOOLEAN, NEW types \in Filters,
               CreateHook(h, on, types)
        PROVE  OwedInv'
    <3>1. /\ ~Live(h) /\ UNCHANGED <<stage, picked, batch, owed>>
          /\ \A g \in Hooks : g # h => hook'[g] = hook[g]
      BY <2>1 DEF CreateHook, Edit, Live, TypeOK
    <3>2. \A e \in Events : \A g \in owed[e] : g # h /\ g \in Hooks
      BY <3>1 DEF OwedInv, Subscribed, TypeOK
    <3> QED BY <3>1, <3>2 DEF OwedInv, Subscribed, Live
  <2>2. ASSUME NEW h \in Hooks, NEW on \in BOOLEAN, NEW types \in Filters,
               PatchHook(h, on, types)
        PROVE  OwedInv'
    BY <2>2, KeepOwedInv DEF PatchHook, Edit
  <2>3. ASSUME NEW h \in Hooks, DeleteHook(h) PROVE OwedInv'
    BY <1>1, <2>3 DEF DeleteHook, Edit
  <2>4. ASSUME NEW h \in Hooks, DeleteCommits(h) PROVE OwedInv'
    BY <2>4, KeepOwedInv DEF DeleteCommits
  <2> QED BY <1>10, <2>1, <2>2, <2>3, <2>4 DEF Admin
<1>11. ASSUME NEW w \in Workers, Process(w) \/ WorkerDies(w)
       PROVE  \/ Ended(w) \/ Claim(w)
              \/ \E r \in Rows : Skip(w, r) \/ \E o \in Outcomes : Post(w, r, o)
  BY <1>11 DEF Process, CommitRefused, WorkerDies, Ended, CommitBatch, Rollback
<1>12. ASSUME Deadlocks
       PROVE  (\E w \in Workers : Ended(w)) \/ UNCHANGED <<hook, stage, picked, batch, owed>>
  BY <1>12 DEF Deadlocks, VictimWorker, VictimDelete, history, Ended, Rollback
<1>13. \A r \in Rows : BackoffEnds(r) => UNCHANGED <<hook, stage, picked, batch, owed>>
  BY DEF BackoffEnds, history
<1> QED
  BY <1>1, <1>3, <1>5, <1>6, <1>8, <1>9, <1>10, <1>11, <1>12, <1>13 DEF Next, vars

-----------------------------------------------------------------------------
(***************************************************************************)
(* The inductive invariant.                                                *)
(***************************************************************************)
LEMMA InvInit == Init => IInv
<1> SUFFICES ASSUME Init PROVE IInv
  OBVIOUS
<1> USE OutboxAssumption DEF Init
<1>1. TypeOK
  <2>1. hook \in [Hooks -> HookRow]
    <3>1. [status |-> "unused", active |-> FALSE, events |-> Events] \in HookRow
      BY DEF HookRow
    <3>2. [status |-> "live", active |-> TRUE, events |-> Events] \in HookRow
      BY DEF HookRow
    <3> QED BY <3>1, <3>2
  <2> QED BY <2>1, RowTypes DEF TypeOK
<1>2. \A w \in Workers : batch[w].rows = {} /\ batch[w].todo = {} /\ batch[w].sent = {}
  BY IdleBatch
<1>3. Claims /\ OutcomeInv
  BY <1>2 DEF Claims, OutcomeInv
<1>4. RowInv /\ CountInv
  BY <1>2 DEF RowInv, CountInv, InBatch, Absent
<1>5. OwedInv
  BY <1>2 DEF OwedInv
<1> QED BY <1>1, <1>3, <1>4, <1>5 DEF IInv

(***************************************************************************)
(* IInv is an invariant: in particular every variable keeps its type, and  *)
(* no two workers ever work on one row.                                    *)
(***************************************************************************)
LEMMA Inductive == Spec => []IInv
<1>1. IInv /\ [Next]_vars => IInv'
  BY TypeStep, ClaimsStep, RowStep, OutcomeStep, CountStep, OwedInvStep DEF IInv
<1> QED BY <1>1, InvInit, PTL DEF Spec

(***************************************************************************)
(* Every variable of the queue keeps its type in every reachable state,    *)
(* whatever requests, batches, faults, deadlocks and webhook edits are     *)
(* interleaved.  (A POST count in Nat rests on CountInv.)                  *)
(***************************************************************************)
THEOREM TypeCorrect == Spec => []TypeOK
BY Inductive, PTL DEF IInv

(***************************************************************************)
(* The attempts counter of a delivery row tells the POSTs made for it, all *)
(* of them but those of batches rolled back and of the batch under way: no *)
(* two workers of process_pending_deliveries ever POST one row at once.    *)
(***************************************************************************)
THEOREM CountedCorrect == Spec => []EveryPostCounted
<1>1. IInv => EveryPostCounted
  <2> SUFFICES ASSUME IInv, NEW r \in Rows
               PROVE  posts[r] = delivery[r].attempts
                                   + Cardinality({w \in Workers : r \in batch[w].sent})
    BY DEF EveryPostCounted
  <2> DEFINE S == {w \in Workers : r \in batch[w].sent}
  <2>1. CASE InBatch(r)
    <3>1. PICK w \in Workers : r \in batch[w].sent
      BY <2>1 DEF InBatch
    <3>2. S = {w}
      BY <3>1 DEF IInv, Claims
    <3>3. Cardinality(S) = 1
      BY <3>2, FS_Singleton
    <3> QED BY <2>1, <3>3 DEF IInv, CountInv
  <2>2. CASE ~InBatch(r)
    <3>1. S = {}
      BY <2>2 DEF InBatch
    <3>2. Cardinality(S) = 0
      BY <3>1, FS_EmptySet
    <3> QED BY <2>2, <3>2 DEF IInv, CountInv
  <2> QED BY <2>1, <2>2
<1> QED BY <1>1, Inductive, PTL

(***************************************************************************)
(* Nothing owed is lost: a delivery a committed mutation owes a webhook    *)
(* that has stayed subscribed is waiting with attempts left, was received, *)
(* or was given up after MaxRetries attempts.  The row follows the batch   *)
(* only at its commit, where CommittedRow says what becomes of it; a row   *)
(* dropped without an attempt was owed to nobody (InactiveNotOwed).        *)
(***************************************************************************)
Safe(e, h) ==
  LET row == delivery[<<e, h>>] IN
  \/ row.status = "pending" /\ row.attempts < MaxRetries /\ row.at # "never"
  \/ row.status = "succeeded" /\ h \in got[e]
  \/ row.status = "dead" /\ row.attempts = MaxRetries

THEOREM LosesNothing == Spec => []NothingLost
<1> DEFINE Lossless == \A e \in Events, h \in Hooks : stage[e] = "committed" /\ h \in owed[e] => Safe(e, h)
<1>1. Init => Lossless
  BY DEF Init
<1>2. IInv /\ IInv' /\ Lossless /\ [Next]_vars => Lossless'
  <2> SUFFICES ASSUME IInv, IInv', Lossless, [Next]_vars, NEW e \in Events, NEW h \in Hooks,
                      stage'[e] = "committed", h \in owed'[e]
               PROVE  Safe(e, h)'
    OBVIOUS
  <2> DEFINE r == <<e, h>>
  <2>1. r \in Rows /\ r[1] = e /\ r[2] = h
    BY DEF Rows
  <2> HIDE DEF r
  <2>2. CASE stage[e] = "committed" /\ delivery'[r] = delivery[r]
    <3>1. h \in owed[e] /\ got[e] \subseteq got'[e]
      BY <2>2, OwedStep
    <3>2. Safe(e, h)
      BY <2>2, <3>1
    <3> QED BY <2>2, <3>1, <3>2 DEF Safe, r
  <2>3. CASE stage[e] # "committed"
    <3>1. CommitRequest(e)
      <4>1. ASSUME NEW f \in Events, Request(f) PROVE CommitRequest(e)
        BY <2>3, <4>1 DEF Request, Emit, CommitRequest, ForeignKeyRefuses, RequestDies, Abandon, IInv, TypeOK
      <4>2. \A w \in Workers : Process(w) \/ WorkerDies(w) => UNCHANGED stage
        BY DEF Process, Claim, Skip, Post, CommitBatch, CommitRefused, WorkerDies, Rollback
      <4>3. Deadlocks => UNCHANGED stage
        BY DEF Deadlocks, VictimWorker, VictimDelete, Rollback
      <4>4. Admin => UNCHANGED stage
        BY DEF Admin, CreateHook, PatchHook, DeleteHook, DeleteCommits, Edit
      <4>5. \A q \in Rows : BackoffEnds(q) => UNCHANGED stage
        BY DEF BackoffEnds
      <4> QED BY <2>3, <4>1, <4>2, <4>3, <4>4, <4>5 DEF Next, vars
    <3>2. h \in picked[e]
      BY <3>1 DEF CommitRequest, history, IInv, OwedInv
    <3>3. delivery'[r] = Pending
      BY <2>1, <3>1, <3>2 DEF CommitRequest, Enqueued
    <3> QED BY <3>3, OutboxAssumption DEF Safe, Pending, r
  <2>4. CASE stage[e] = "committed" /\ delivery'[r] # delivery[r]
    <3>1. h \in owed[e] /\ got[e] \subseteq got'[e] /\ Safe(e, h)
      BY <2>4, OwedStep
    <3>2. CASE \E w \in Workers : CommitBatch(w)
      <4>1. PICK w \in Workers : CommitBatch(w)
        BY <3>2
      <4>2. r \in batch[w].rows
        BY <2>1, <2>4, <4>1 DEF CommitBatch
      <4>3. UNCHANGED got
        BY <4>1 DEF CommitBatch, history
      <4> QED BY <2>1, <3>1, <4>1, <4>2, <4>3, CommittedRow DEF Safe, r
    <3>3. CASE \E q \in Rows : BackoffEnds(q)
      <4>1. /\ delivery'[r].status = delivery[r].status /\ delivery'[r].at = "due"
            /\ delivery'[r].attempts = delivery[r].attempts
        BY <2>1, <2>4, <3>3 DEF BackoffEnds, IInv, TypeOK, DeliveryRow
      <4> QED BY <3>1, <4>1 DEF Safe, r
    <3>4. ASSUME NEW g \in Hooks, DeleteCommits(g) PROVE FALSE
      <4>1. g = h /\ ~Live(h)'
        BY <2>1, <2>4, <3>4 DEF DeleteCommits, Live, IInv, TypeOK, HookRow
      <4> QED BY <4>1 DEF IInv, OwedInv, Subscribed
    <3>5. ASSUME NEW f \in Events, Request(f) PROVE FALSE
      <4>1. CommitRequest(f) /\ f # e
        BY <2>4, <3>5 DEF Request, Emit, CommitRequest, ForeignKeyRefuses, RequestDies, Abandon
      <4> QED BY <2>1, <2>4, <4>1 DEF CommitRequest, Enqueued
    <3>6. \A w \in Workers : Process(w) \/ WorkerDies(w) => CommitBatch(w) \/ UNCHANGED delivery
      BY DEF Process, Claim, Skip, Post, CommitRefused, WorkerDies, Rollback
    <3>7. Deadlocks => UNCHANGED delivery
      BY DEF Deadlocks, VictimWorker, VictimDelete, Rollback
    <3>8. Admin => (\E g \in Hooks : DeleteCommits(g)) \/ UNCHANGED delivery
      BY DEF Admin, CreateHook, PatchHook, DeleteHook
    <3> QED BY <2>4, <3>2, <3>3, <3>4, <3>5, <3>6, <3>7, <3>8 DEF Next, vars
  <2> QED BY <2>2, <2>3, <2>4
<1>3. Lossless => NothingLost
  BY DEF NothingLost, Safe
<1> QED BY <1>1, <1>2, <1>3, Inductive, PTL DEF Spec

-----------------------------------------------------------------------------
(***************************************************************************)
(* A step that keeps the mutations, takes nothing back from a row that is  *)
(* final and not given up, and owes nobody more, is Settle: what it        *)
(* settles has reached everyone still owed it, as nothing is lost.         *)
(***************************************************************************)
Done(r) == Final(r) /\ ~GivenUp(r)

LEMMA SettleStep ==
  ASSUME IInv, IInv', NothingLost', UNCHANGED <<stage, picked, got>>,
         \A e \in Events : stage[e] = "committed" => owed'[e] \subseteq owed[e],
         \A r \in Rows : Done(r) => Done(r)'
  PROVE  Promise!Settle
<1> DEFINE recorded == {e \in Events : stage[e] = "committed"}
           settled == {e \in Events : Settled(e)}
           owing == [e \in Events |-> IF stage[e] = "committed" THEN owed[e] ELSE {}]
<1>1. recorded' = recorded /\ got' = got
  OBVIOUS
<1>2. \A e \in Events : owing'[e] \subseteq owing[e] /\ owing'[e] \in SUBSET Hooks
  BY DEF IInv, TypeOK
<1>3. settled \subseteq settled' /\ settled' \subseteq recorded
  <2>1. ASSUME NEW e \in Events, Settled(e) PROVE Settled(e)'
    <3>1. \A h \in picked[e] : <<e, h>> \in Rows
      BY DEF IInv, TypeOK, Rows
    <3> QED BY <2>1, <3>1 DEF Settled, Done
  <2> QED BY <2>1 DEF Settled
<1>4. ASSUME NEW e \in settled' PROVE owing'[e] \subseteq got[e]
  <2>1. e \in Events /\ Settled(e)'
    OBVIOUS
  <2>2. ASSUME NEW h \in owed'[e] PROVE h \in got'[e]
    <3>1. h \in picked'[e] /\ h \in Hooks
      BY <2>1, <2>2 DEF IInv, OwedInv, TypeOK
    <3>2. Final(<<e, h>>)' /\ ~GivenUp(<<e, h>>)' /\ stage'[e] = "committed"
      BY <2>1, <3>1 DEF Settled
    <3> QED BY <2>1, <2>2, <3>1, <3>2 DEF NothingLost, Final, GivenUp
  <2> QED BY <2>1, <2>2
<1> HIDE DEF recorded, settled, owing
<1>5. \E S \in SUBSET (recorded \ settled) : settled' = settled \cup S
  <2>1. settled' \ settled \in SUBSET (recorded \ settled) /\ settled' = settled \cup (settled' \ settled)
    BY <1>3
  <2> QED BY <2>1
<1>6. owing' \in [Events -> SUBSET Hooks]
  BY <1>2 DEF owing
<1>7. \A e \in settled' \ settled : owing'[e] \subseteq got[e]
  BY <1>4
<1> QED BY <1>1, <1>2, <1>5, <1>6, <1>7 DEF Promise!Settle, recorded, settled, owing

(***************************************************************************)
(* The queue implements EventDelivery: the commit of a mutation is Record, *)
(* a POST that arrives is Reach, the commit of a batch and the edits of    *)
(* webhooks are Settle, every other step is invisible.                     *)
(***************************************************************************)
THEOREM ImplementsPromise == Spec => ImplementsEventDelivery
<1> DEFINE recorded == {e \in Events : stage[e] = "committed"}
           settled == {e \in Events : Settled(e)}
           owing == [e \in Events |-> IF stage[e] = "committed" THEN owed[e] ELSE {}]
           Same == UNCHANGED <<recorded, settled, got, owing>>
<1>1. Init => Promise!Init
  BY DEF Init, Promise!Init, Settled
<1>2. IInv /\ IInv' /\ NothingLost' /\ [Next]_vars => [Promise!Next]_(Promise!vars)
  <2> SUFFICES ASSUME IInv, IInv', NothingLost', [Next]_vars PROVE Promise!Next \/ Same
    BY DEF Promise!vars
  <2>1. ASSUME NEW e \in Events, Request(e) PROVE Promise!Next \/ Same
    <3>1. CASE CommitRequest(e)
      <4>1. /\ stage[e] # "committed" /\ stage' = [stage EXCEPT ![e] = "committed"]
            /\ delivery' = Enqueued(e) /\ UNCHANGED <<got, owed, picked>>
        BY <3>1 DEF CommitRequest, history
      <4>2. e \notin recorded /\ recorded' = recorded \cup {e}
        BY <4>1 DEF IInv, TypeOK
      <4>3. owing' = [owing EXCEPT ![e] = owed[e]] /\ owed[e] \in SUBSET Hooks
        BY <4>1 DEF IInv, TypeOK
      <4>4. ASSUME NEW f \in Events, f # e PROVE Settled(f)' <=> Settled(f)
        <5>1. \A h \in picked[f] : <<f, h>> \in Rows
          BY DEF IInv, TypeOK, Rows
        <5>2. \A h \in picked[f] : delivery'[<<f, h>>] = delivery[<<f, h>>]
          BY <4>1, <4>4, <5>1 DEF Enqueued
        <5>3. stage'[f] = stage[f]
          BY <4>1, <4>4 DEF IInv, TypeOK
        <5> QED BY <4>1, <5>2, <5>3 DEF Settled, Final, GivenUp
      <4>5. ~Settled(e) /\ ~Settled(e)'
        <5>1. ASSUME NEW h \in picked[e] PROVE delivery'[<<e, h>>].status = "pending"
          <6>1. <<e, h>> \in Rows
            BY DEF IInv, TypeOK, Rows
          <6> QED BY <4>1, <6>1 DEF Enqueued, Pending
        <5>2. \A h \in picked[e] : ~Final(<<e, h>>)'
          BY <5>1 DEF Final
        <5> QED BY <4>1, <5>2 DEF Settled
      <4>6. settled' = settled
        BY <4>4, <4>5
      <4> HIDE DEF recorded, settled, owing
      <4>7. \E S \in SUBSET Hooks : owing' = [owing EXCEPT ![e] = S]
        BY <4>3
      <4> QED BY <4>1, <4>2, <4>6, <4>7 DEF Promise!Next, Promise!Record, recorded, settled, owing
    <3>2. CASE Emit(e) \/ Abandon(e)
      <4>1. /\ stage[e] # "committed" /\ stage'[e] # "committed" /\ UNCHANGED <<delivery, got>>
            /\ \A f \in Events : f # e => /\ stage'[f] = stage[f] /\ picked'[f] = picked[f]
                                         /\ owed'[f] = owed[f]
        BY <3>2 DEF Emit, Abandon, IInv, TypeOK
      <4>2. \A f \in Events : Settled(f)' <=> Settled(f)
        BY <4>1 DEF Settled, Final, GivenUp
      <4> QED BY <4>1, <4>2
    <3> QED BY <2>1, <3>1, <3>2 DEF Request, ForeignKeyRefuses, RequestDies
  <2>2. ASSUME NEW w \in Workers, NEW r \in Rows, NEW o \in Outcomes, Post(w, r, o)
        PROVE  Promise!Next \/ Same
    <3>1. /\ UNCHANGED <<delivery, stage, picked, owed>>
          /\ got' = got \/ got' = [got EXCEPT ![r[1]] = @ \cup {r[2]}]
      BY <2>2 DEF Post
    <3>2. UNCHANGED <<recorded, settled, owing>>
      BY <3>1 DEF Settled, Final, GivenUp
    <3>3. r[1] \in Events /\ r[2] \in Hooks /\ r = <<r[1], r[2]>>
      BY DEF Rows
    <3>4. r \in batch[w].rows
      BY <2>2, PostedBatch DEF IInv, Handles
    <3>5. delivery[r].status = "pending" /\ stage[r[1]] = "committed" /\ r[2] \in picked[r[1]]
      BY <3>4 DEF IInv, Claims, RowInv
    <3>6. r[1] \in recorded \ settled
      BY <3>3, <3>5 DEF Settled, Final
    <3>7. CASE got' = [got EXCEPT ![r[1]] = @ \cup {r[2]}]
      <4>1. Promise!Reach(r[1], r[2])
        BY <3>2, <3>6, <3>7 DEF Promise!Reach
      <4> QED BY <3>3, <4>1 DEF Promise!Next
    <3> QED BY <3>1, <3>2, <3>7
  <2>3. ASSUME UNCHANGED <<stage, picked, got>>,
               \A e \in Events : stage[e] = "committed" => owed'[e] \subseteq owed[e],
               \A r \in Rows : Done(r) => Done(r)'
        PROVE  Promise!Next
    BY <2>3, SettleStep DEF Promise!Next
  <2>4. ASSUME UNCHANGED <<stage, picked, got, delivery, owed>> PROVE Promise!Next
    BY <2>3, <2>4 DEF Done, Final, GivenUp
  <2>5. ASSUME NEW w \in Workers, CommitBatch(w) PROVE Promise!Next
    <3>1. \A r \in batch[w].rows : delivery[r].status = "pending"
      BY DEF IInv, Claims
    <3>2. \A r \in Rows : r \in batch[w].rows \/ delivery'[r] = delivery[r]
      BY <2>5 DEF CommitBatch
    <3>3. \A r \in Rows : Done(r) => Done(r)'
      BY <3>1, <3>2 DEF Done, Final, GivenUp
    <3> QED BY <2>3, <2>5, <3>3 DEF CommitBatch, history
  <2>6. ASSUME NEW w \in Workers, Claim(w) \/ Rollback(w) \/ \E r \in Rows : Skip(w, r)
        PROVE  Promise!Next
    BY <2>4, <2>6 DEF Claim, Skip, Rollback, history
  <2>7. ASSUME NEW q \in Rows, BackoffEnds(q) PROVE Promise!Next
    <3>1. \A r \in Rows : /\ delivery'[r].status = delivery[r].status
                          /\ delivery'[r].attempts = delivery[r].attempts
      BY <2>7 DEF BackoffEnds, IInv, TypeOK, DeliveryRow
    <3> QED BY <2>3, <2>7, <3>1 DEF BackoffEnds, history, Done, Final, GivenUp
  <2>8. ASSUME Deadlocks PROVE Promise!Next
    BY <2>4, <2>6, <2>8 DEF Deadlocks, VictimWorker, VictimDelete, history
  <2>9. ASSUME Admin PROVE Promise!Next
    <3>1. ASSUME NEW h \in Hooks, DeleteCommits(h) PROVE Promise!Next
      <4>1. \A r \in Rows : delivery'[r] = delivery[r] \/ delivery'[r] = Deleted
        BY <3>1 DEF DeleteCommits
      <4>2. \A r \in Rows : Done(r) => Done(r)'
        BY <4>1 DEF Deleted, Done, Final, GivenUp
      <4>3. \A e \in Events : owed'[e] \subseteq owed[e]
        BY <3>1 DEF DeleteCommits, KeepOwed
      <4> QED BY <2>3, <3>1, <4>2, <4>3 DEF DeleteCommits
    <3>2. ASSUME NEW h \in Hooks, NEW on \in BOOLEAN, NEW types \in Filters, PatchHook(h, on, types)
          PROVE  Promise!Next
      BY <2>3, <3>2 DEF PatchHook, KeepOwed, Edit, Done, Final, GivenUp
    <3>3. ASSUME NEW h \in Hooks, \/ DeleteHook(h)
                                 \/ \E on \in BOOLEAN, types \in Filters : CreateHook(h, on, types)
          PROVE  Promise!Next
      BY <2>4, <3>3 DEF DeleteHook, CreateHook, Edit
    <3> QED BY <2>9, <3>1, <3>2, <3>3 DEF Admin
  <2>10. CASE UNCHANGED vars
    BY <2>4, <2>10 DEF vars
  <2> QED
    BY <2>1, <2>2, <2>5, <2>6, <2>7, <2>8, <2>9, <2>10 DEF Next, Process, CommitRefused, WorkerDies
<1> QED
  BY <1>1, <1>2, Inductive, LosesNothing, PTL DEF Spec, Promise!Spec, ImplementsEventDelivery

-----------------------------------------------------------------------------
(* BulkLoad.                                                               *)

(***************************************************************************)
(* What the variables hold.                                                *)
(***************************************************************************)
Kinds == {"idle", "import", "ingest", "upsert", "export"}
Text == [tab : {"note"}, ext : {Nil}, alt : {Nil}, val : Values, up : {Nil}, a : Ids, b : {Nil},
         has : {{}}]
Lines == Row \cup Item \cup Text
Documents == [Tabs -> Seq(Lines)]
Objects == [base : Row \cup {Nil}, was : Row \cup {Nil}, row : Row, new : BOOLEAN,
            flushed : BOOLEAN]
Maps == UNION {[D -> Ids] : D \in SUBSET Ids}
Records == [kind : Kinds, ws : Workspaces \cup {Nil}, what : Documents, todo : Documents,
            objs : SUBSET Objects, map : Maps, hit : Ids \cup {Nil}, looked : BOOLEAN,
            left : SUBSET Tabs, out : [Tabs -> Seq(Row)], alone : BOOLEAN, fresh : BOOLEAN,
            apart : BOOLEAN, again : BOOLEAN, was : BOOLEAN]

BulkTypes ==
  /\ rows \subseteq Row /\ IsFiniteSet(rows)
  /\ doc \in [Tabs -> Seq(Row)]
  /\ torn \in BOOLEAN
  /\ load \in [Loads -> Records]
  /\ count \in 0..MaxCalls

-----------------------------------------------------------------------------
(* Tables, rows and what is done to them.                                  *)

\* The section of a table says which it is.
LEMMA SectionsApart ==
  \A t, u \in Tabs : Sections[t] \in Nat /\ (Sections[t] = Sections[u] => t = u)
BY DEF Tabs, Sections

LEMMA EmptyType == Empty \in Documents /\ Empty \in [Tabs -> Seq(Row)] /\ <<>> \in Maps
<1>1. Empty \in Documents /\ Empty \in [Tabs -> Seq(Row)]
  BY DEF Empty, Documents
<1>2. <<>> \in [{} -> Ids]
  OBVIOUS
<1> QED BY <1>1, <1>2 DEF Maps

LEMMA NoLoadType == NoLoad \in Records
BY EmptyType DEF NoLoad, Records, Kinds

LEMMA PatchedRow ==
  ASSUME NEW base \in Row, NEW new \in Row, NEW row \in Row
  PROVE  LET p == Patched(base, new, row) IN
         /\ p \in Row
         /\ p.id = row.id /\ p.ws = row.ws /\ p.tab = row.tab /\ p.rest = row.rest
         /\ \A c \in Columns : p[c] = IF new[c] # base[c] THEN new[c] ELSE row[c]
<1> DEFINE p == Patched(base, new, row)
<1>1. p = [id |-> row.id, ws |-> row.ws, tab |-> row.tab,
           ext |-> IF new.ext # base.ext THEN new.ext ELSE row.ext,
           alt |-> IF new.alt # base.alt THEN new.alt ELSE row.alt,
           val |-> IF new.val # base.val THEN new.val ELSE row.val,
           up |-> IF new.up # base.up THEN new.up ELSE row.up,
           a |-> IF new.a # base.a THEN new.a ELSE row.a,
           b |-> IF new.b # base.b THEN new.b ELSE row.b, rest |-> row.rest]
  BY DEF Patched, Columns, Row
<1> QED BY <1>1 DEF Row, Columns

LEMMA OverwrittenRow ==
  ASSUME NEW row \in Row, NEW r \in Lines, NEW given \in SUBSET {"ext", "alt", "val", "up", "a"}
  PROVE  LET p == Overwritten(row, r, given) IN
         /\ p \in Row
         /\ p.id = row.id /\ p.ws = row.ws /\ p.tab = row.tab /\ p.rest = row.rest
         /\ \A c \in Columns : p[c] = IF c \in given THEN r[c] ELSE row[c]
<1> DEFINE p == Overwritten(row, r, given)
<1>0. r.ext \in Keys \cup {Nil} /\ r.alt \in Keys \cup {Nil} /\ r.val \in Values \cup {Nil}
        /\ r.up \in Ids \cup {Nil} /\ r.a \in Ids \cup {Nil}
  BY DEF Lines, Row, Item, Text
<1>1. p = [id |-> row.id, ws |-> row.ws, tab |-> row.tab,
           ext |-> IF "ext" \in given THEN r.ext ELSE row.ext,
           alt |-> IF "alt" \in given THEN r.alt ELSE row.alt,
           val |-> IF "val" \in given THEN r.val ELSE row.val,
           up |-> IF "up" \in given THEN r.up ELSE row.up,
           a |-> IF "a" \in given THEN r.a ELSE row.a,
           b |-> row.b, rest |-> row.rest]
  BY DEF Overwritten, Columns, Row
<1> QED BY <1>0, <1>1 DEF Row, Columns

LEMMA TranslatedRow ==
  ASSUME NEW map \in Maps, NEW r \in Row
  PROVE  LET p == Translated(map, r)
             new(i) == IF i \in DOMAIN map THEN map[i] ELSE i IN
         /\ p \in Row
         /\ p.id = r.id /\ p.ws = r.ws /\ p.tab = r.tab /\ p.ext = r.ext /\ p.alt = r.alt
         /\ p.val = r.val
         /\ \A c \in Refs : p[c] = new(r[c])
<1> DEFINE p == Translated(map, r)
           new(i) == IF i \in DOMAIN map THEN map[i] ELSE i
<1>0. \A i \in Ids \cup {Nil} : new(i) \in Ids \cup {Nil}
  BY DEF Maps
<1>1. p = [id |-> r.id, ws |-> r.ws, tab |-> r.tab, ext |-> r.ext, alt |-> r.alt, val |-> r.val,
           up |-> new(r.up), a |-> new(r.a), b |-> new(r.b), rest |-> r.rest]
  <2>1. p = [r EXCEPT !.up = new(r.up), !.a = new(r.a), !.b = new(r.b)]
    BY DEF Translated, Row
  <2> HIDE DEF new, p
  <2> QED BY <2>1 DEF Row
<1> HIDE DEF new
<1>2. p \in Row
  BY <1>0, <1>1 DEF Row
<1>3. \A c \in Refs : p[c] = new(r[c])
  BY <1>1 DEF Refs
<1> QED BY <1>1, <1>2, <1>3 DEF new

LEMMA GivenColumns ==
  ASSUME NEW kind \in {"import", "ingest", "upsert"}, NEW r \in Lines,
         kind = "import" => r \in Row, kind # "import" => r \in Item \cup Text
  PROVE  /\ Given(kind, r) \in SUBSET {"ext", "alt", "val", "up", "a"}
         /\ Given(kind, r) \cap Required(r.tab) = {}
         /\ kind # "import" => Given(kind, r) \subseteq {"ext", "alt", "val"}
<1>1. CASE kind = "import"
  <2>1. r.tab \in Tabs
    BY <1>1 DEF Row
  <2> QED BY <1>1, <2>1 DEF Given, Sets, Required, Tabs, Sections
<1>2. CASE kind # "import"
  <2>1. r.tab \in {"company", "contact", "note"} /\ r.has \subseteq {"ext", "alt", "val"}
    BY <1>2 DEF Item, Text
  <2> QED BY <1>2, <2>1 DEF Given, Required
<1> QED BY <1>1, <1>2

LEMMA CandidatesSeen ==
  ASSUME NEW kind \in {"import", "ingest", "upsert"}, NEW v, NEW r, r.tab \in Tabs
  PROVE  Candidates(kind, v, r) \subseteq v
<1>1. Matches(v, r) \subseteq v
  <2>1. r.tab \in {"field", "pipeline", "stage", "company", "contact", "deal", "activity", "note",
                   "task", "edge", "hook", "link", "file"}
    BY DEF Tabs, Sections
  <2>2. \A fallback \in BOOLEAN : ByExternalIdOr(v, r, fallback) \subseteq v
    BY DEF ByExternalIdOr, Named
  <2> QED BY <2>1, <2>2 DEF Matches, Named, CustomFields, Pipelines, Stages, Companies, Contacts,
                            Deals, Activities, Tasks, Notes, Relationships, Webhooks, MemoryLinks,
                            Files
<1>2. IngestMatches(v, r) \subseteq v
  BY DEF IngestMatches, ByExternalIdOr, Named
<1>3. UpsertMatches(v, r) \subseteq v
  BY DEF UpsertMatches, Named
<1> QED BY <1>1, <1>2, <1>3 DEF Candidates

-----------------------------------------------------------------------------
(***************************************************************************)
(* Rows have ids of their own, keep the unique constraints and have their  *)
(* required columns.  An object of a session stands for a committed row or *)
(* for one that has no row yet, and none stands for another's row; so that *)
(* what a session sees, and what it commits, are such rows again.          *)
(***************************************************************************)
Same(r, s) == r.id = s.id /\ r.ws = s.ws /\ r.tab = s.tab /\ r.rest = s.rest
Full(r) == \A c \in Required(r.tab) : r[c] # Nil

RowsInv ==
  /\ \A r, s \in rows : (r.id = s.id => r = s) /\ ~Clash(r, s)
  /\ \A r \in rows : Full(r)

Added1(R, o) ==
  /\ \A r \in R : r.id # o.row.id
  /\ o.flushed => o.was \in Row /\ Same(o.was, o.row) /\ Full(o.was)
Loaded1(R, o) ==
  /\ o.base \in Row /\ o.was \in Row
  /\ Same(o.was, o.row) /\ Full(o.was)
  /\ \E r \in R : Same(r, o.row)
Session(R, objs) ==
  /\ objs \subseteq Objects /\ IsFiniteSet(objs)
  /\ \A o, p \in objs : o.row.id = p.row.id => o = p
  /\ \A o \in objs : Full(o.row) /\ (o.new => Added1(R, o)) /\ (~o.new => Loaded1(R, o))

\* What the session sees: rows it has not loaded, rows it added and flushed, and
\* those it loaded with its changes.
Untouched(objs, s) == s \in rows /\ s.id \notin IdsOf(objs)
FromAdded(objs, s) == \E o \in objs : o.new /\ o.flushed /\ s = o.was
FromLoaded(objs, s) ==
  \E o \in objs, r \in rows : ~o.new /\ Same(r, o.row) /\ s = Patched(o.base, o.was, r)

LEMMA ViewIs ==
  ASSUME BulkTypes, RowsInv, NEW objs, Session(rows, objs)
  PROVE  \A s : s \in View(objs) <=>
           Untouched(objs, s) \/ FromAdded(objs, s) \/ FromLoaded(objs, s)
<1>1. ASSUME NEW o \in objs, ~o.new, NEW r \in rows, r.id = o.row.id
      PROVE  Same(r, o.row) /\ (CHOOSE t \in rows : t.id = o.row.id) = r
  BY <1>1 DEF Session, Loaded1, RowsInv, Same
<1> DEFINE F(o) == IF o.new THEN o.was ELSE Patched(o.base, o.was, CHOOSE r \in rows : r.id = o.row.id)
<1>2. ASSUME NEW s, s \in View(objs)
      PROVE  Untouched(objs, s) \/ FromAdded(objs, s) \/ FromLoaded(objs, s)
  <2>1. CASE s \in {r \in rows : r.id \notin IdsOf(objs)}
    BY <2>1 DEF Untouched
  <2>2. CASE s \notin {r \in rows : r.id \notin IdsOf(objs)}
    <3>1. PICK o \in objs : (o.flushed \/ ~o.new) /\ s = F(o)
      BY <1>2, <2>2 DEF View
    <3>2. CASE o.new
      BY <3>1, <3>2 DEF FromAdded
    <3>3. CASE ~o.new
      <4>1. PICK r \in rows : Same(r, o.row)
        BY <3>3 DEF Session, Loaded1
      <4>2. s = Patched(o.base, o.was, r)
        BY <3>1, <3>3, <1>1, <4>1 DEF Same
      <4> QED BY <4>1, <4>2, <3>3 DEF FromLoaded
    <3> QED BY <3>2, <3>3
  <2> QED BY <2>1, <2>2
<1>3. ASSUME NEW s, Untouched(objs, s) PROVE s \in View(objs)
  BY <1>3 DEF Untouched, View
<1>4. ASSUME NEW s, FromAdded(objs, s) PROVE s \in View(objs)
  BY <1>4 DEF FromAdded, View
<1>5. ASSUME NEW s, FromLoaded(objs, s) PROVE s \in View(objs)
  <2>1. PICK o \in objs, r \in rows : ~o.new /\ Same(r, o.row) /\ s = Patched(o.base, o.was, r)
    BY <1>5 DEF FromLoaded
  <2>2. s = F(o)
    BY <2>1, <1>1 DEF Same
  <2> QED BY <2>1, <2>2 DEF View
<1> QED BY <1>2, <1>3, <1>4, <1>5

LEMMA ViewRows ==
  ASSUME BulkTypes, RowsInv, NEW objs, Session(rows, objs)
  PROVE  /\ View(objs) \subseteq Row /\ IsFiniteSet(View(objs))
         /\ \A r, s \in View(objs) : r.id = s.id => r = s
         /\ \A s \in View(objs) : Full(s)
         /\ \A r \in rows : \E s \in View(objs) : Same(r, s)
         /\ \A o \in objs : o.flushed \/ ~o.new => \E s \in View(objs) : Same(o.row, s)
         /\ \A s \in View(objs) :
              \/ s \in rows /\ s.id \notin IdsOf(objs)
              \/ \E o \in objs : Same(o.row, s)
<1>1. ASSUME NEW o \in objs, NEW r \in rows, ~o.new, Same(r, o.row)
      PROVE  LET s == Patched(o.base, o.was, r) IN s \in Row /\ Same(o.row, s) /\ Full(s)
  <2>1. o.base \in Row /\ o.was \in Row /\ r \in Row /\ Full(o.was) /\ Full(r) /\ Same(o.was, r)
    BY <1>1 DEF Session, Loaded1, BulkTypes, RowsInv, Same
  <2> DEFINE s == Patched(o.base, o.was, r)
  <2>2. s \in Row /\ s.id = r.id /\ s.ws = r.ws /\ s.tab = r.tab /\ s.rest = r.rest
        /\ \A c \in Columns : s[c] = IF o.was[c] # o.base[c] THEN o.was[c] ELSE r[c]
    BY <2>1, PatchedRow
  <2> HIDE DEF s
  <2>3. Same(o.row, s)
    BY <1>1, <2>2 DEF Same
  <2>4. Required(s.tab) \subseteq Columns
    BY DEF Required, Columns
  <2>5. Full(s)
    BY <2>1, <2>2, <2>4 DEF Full, Same
  <2> QED BY <2>2, <2>3, <2>5 DEF s
<1>2. \A s \in View(objs) : Untouched(objs, s) \/ FromAdded(objs, s) \/ FromLoaded(objs, s)
  BY ViewIs
<1>3. \A s \in View(objs) :
        /\ s \in Row /\ Full(s)
        /\ (s \in rows /\ s.id \notin IdsOf(objs)) \/ \E o \in objs : Same(o.row, s)
  <2> SUFFICES ASSUME NEW s \in View(objs)
               PROVE  /\ s \in Row /\ Full(s)
                      /\ (s \in rows /\ s.id \notin IdsOf(objs)) \/ \E o \in objs : Same(o.row, s)
    OBVIOUS
  <2>1. CASE Untouched(objs, s)
    BY <2>1 DEF Untouched, BulkTypes, RowsInv
  <2>2. CASE FromAdded(objs, s)
    BY <2>2 DEF FromAdded, Session, Added1, Same
  <2>3. CASE FromLoaded(objs, s)
    BY <2>3, <1>1 DEF FromLoaded
  <2> QED BY <1>2, <2>1, <2>2, <2>3
<1>4. IsFiniteSet(View(objs))
  <2>1. IsFiniteSet({r \in rows : r.id \notin IdsOf(objs)})
    BY FS_Subset DEF BulkTypes
  <2> DEFINE F(o) == IF o.new THEN o.was ELSE Patched(o.base, o.was, CHOOSE r \in rows : r.id = o.row.id)
             D == {p \in objs : p.flushed \/ ~p.new}
  <2>2. IsFiniteSet(D)
    BY FS_Subset DEF Session
  <2>3. IsFiniteSet({F(o) : o \in D})
    <3> DEFINE g == [o \in D |-> F(o)]
               T == {F(o) : o \in D}
    <3> HIDE DEF F, D
    <3>1. g \in Surjection(D, T)
      BY DEF Surjection
    <3> QED BY <2>2, <3>1, FS_Surjection
  <2> QED BY <2>1, <2>3, FS_Union DEF View
<1>5. ASSUME NEW o \in objs, o.flushed \/ ~o.new PROVE \E s \in View(objs) : Same(o.row, s)
  <2>1. CASE o.new
    BY <1>5, <2>1, ViewIs DEF FromAdded, Session, Added1, Same
  <2>2. CASE ~o.new
    <3>1. PICK r \in rows : Same(r, o.row)
      BY <2>2 DEF Session, Loaded1
    <3> QED BY <3>1, <2>2, <1>1, ViewIs DEF FromLoaded
  <2> QED BY <2>1, <2>2
<1>6. ASSUME NEW r \in rows PROVE \E s \in View(objs) : Same(r, s)
  <2>1. CASE r.id \notin IdsOf(objs)
    BY <2>1, ViewIs DEF Untouched, Same
  <2>2. CASE r.id \in IdsOf(objs)
    <3>1. PICK o \in objs : o.row.id = r.id
      BY <2>2 DEF IdsOf
    <3>2. ~o.new /\ Same(r, o.row)
      BY <3>1 DEF Session, Added1, Loaded1, RowsInv, Same, Objects
    <3>3. PICK s \in View(objs) : Same(o.row, s)
      BY <3>2, <1>5
    <3> QED BY <3>2, <3>3 DEF Same
  <2> QED BY <2>1, <2>2
<1>7. ASSUME NEW r \in View(objs), NEW s \in View(objs), r.id = s.id PROVE r = s
  <2>1. CASE Untouched(objs, r) /\ Untouched(objs, s)
    BY <2>1, <1>7 DEF Untouched, RowsInv
  <2>2. ASSUME NEW t \in View(objs), ~Untouched(objs, t)
        PROVE  \E o \in objs : /\ o.row.id = t.id
                               /\ (o.new /\ t = o.was) \/ (~o.new /\ \E u \in rows : Same(u, o.row) /\ t = Patched(o.base, o.was, u))
    <3>1. CASE FromAdded(objs, t)
      BY <3>1 DEF FromAdded, Session, Added1, Same
    <3>2. CASE FromLoaded(objs, t)
      BY <3>2, <1>1 DEF FromLoaded, Same
    <3> QED BY <2>2, <1>2, <3>1, <3>2
  <2>3. ASSUME NEW t \in View(objs), Untouched(objs, t), NEW u \in View(objs), ~Untouched(objs, u)
        PROVE  t.id # u.id
    BY <2>3, <2>2 DEF Untouched, IdsOf
  <2>4. CASE ~Untouched(objs, r) /\ ~Untouched(objs, s)
    <3>1. PICK o \in objs : /\ o.row.id = r.id
                            /\ (o.new /\ r = o.was) \/ (~o.new /\ \E u \in rows : Same(u, o.row) /\ r = Patched(o.base, o.was, u))
      BY <2>4, <2>2
    <3>2. PICK p \in objs : /\ p.row.id = s.id
                            /\ (p.new /\ s = p.was) \/ (~p.new /\ \E u \in rows : Same(u, p.row) /\ s = Patched(p.base, p.was, u))
      BY <2>4, <2>2
    <3>3. o = p
      BY <3>1, <3>2, <1>7 DEF Session
    <3>4. \A u, v \in rows : Same(u, o.row) /\ Same(v, o.row) => u = v
      BY DEF Same, RowsInv
    <3> QED BY <3>1, <3>2, <3>3, <3>4
  <2> QED BY <1>7, <2>1, <2>3, <2>4
<1> QED BY <1>3, <1>4, <1>5, <1>6, <1>7

-----------------------------------------------------------------------------
(***************************************************************************)
(* What a load keeps.  Its lines are of the tables they are listed under;  *)
(* an import's are whole rows.  What it found is an object of its session. *)
(***************************************************************************)
OfSession(R, objs, w) == Session(R, objs) /\ \A o \in objs : o.row.ws = w

LinesInv(kind, todo) ==
  \A t \in Tabs : \A r \in Range(todo[t]) :
    /\ r.tab = t
    /\ kind = "import" => r \in Row /\ Full(r)
    /\ kind # "import" => r \in Item \cup Text

Hand(todo, t) == todo[t] # <<>> /\ \A u \in Tabs : Sections[u] < Sections[t] => todo[u] = <<>>
HitInv(l) ==
  l.hit # Nil => l.looked /\ \E o \in l.objs :
    /\ o.row.id = l.hit
    /\ \A t \in Tabs : Hand(l.todo, t) => o.row.tab = t

DocRows(R, d) ==
  \A t \in Tabs : \A r \in Range(d[t]) :
    r.tab = t /\ r.ws = Source /\ Full(r) /\ \E s \in R : Same(s, r)

LoadInv(R, l) ==
  /\ l.kind # "idle" => l.ws \in Workspaces
  /\ OfSession(R, l.objs, l.ws)
  /\ l.kind \in {"idle", "export"} => l.objs = {}
  /\ LinesInv(l.kind, l.todo)
  /\ HitInv(l)
  /\ DocRows(R, l.out)

NewApart(l, m) == \A o \in l.objs, h \in m.objs : o.new /\ h.new => o.row.id # h.row.id

ShapeInv ==
  /\ BulkTypes /\ RowsInv
  /\ \A q \in Loads : LoadInv(rows, load[q])
  /\ \A p, q \in Loads : p # q => NewApart(load[p], load[q])
  /\ DocRows(rows, doc)

\* Rows change, but stay.
Lasting(R, S) == \A r \in R : \E s \in S : Same(r, s)

LEMMA SessionLasts ==
  ASSUME NEW R, NEW S, NEW objs, Lasting(R, S), Session(R, objs),
         \A o \in objs, s \in S : o.new => s.id # o.row.id
  PROVE  Session(S, objs)
<1>1. \A o \in objs : o.new => Added1(S, o)
  BY DEF Session, Added1
<1>2. \A o \in objs : ~o.new => Loaded1(S, o)
  <2> SUFFICES ASSUME NEW o \in objs, ~o.new PROVE Loaded1(S, o)
    OBVIOUS
  <2>1. PICK r \in R : Same(r, o.row)
    BY DEF Session, Loaded1
  <2>2. PICK s \in S : Same(r, s)
    BY DEF Lasting
  <2>3. Same(s, o.row)
    BY <2>1, <2>2 DEF Same
  <2> QED BY <2>3 DEF Session, Loaded1
<1> QED BY <1>1, <1>2 DEF Session

LEMMA DocLasts ==
  ASSUME NEW R, NEW S, NEW d, Lasting(R, S), DocRows(R, d)
  PROVE  DocRows(S, d)
BY DEF DocRows, Lasting, Same

LEMMA LoadLasts ==
  ASSUME NEW R, NEW S, NEW l, NEW m, Lasting(R, S), LoadInv(R, l),
         \A o \in l.objs, s \in S : o.new => s.id # o.row.id,
         m.kind = l.kind, m.ws = l.ws, m.objs = l.objs, m.todo = l.todo, m.hit = l.hit,
         m.out = l.out, m.looked = l.looked
  PROVE  LoadInv(S, m)
<1>1. Session(S, l.objs)
  BY SessionLasts DEF LoadInv, OfSession
<1>2. DocRows(S, l.out)
  BY DocLasts DEF LoadInv
<1> QED BY <1>1, <1>2 DEF LoadInv, OfSession, HitInv

LEMMA LastingRefl ==
  ASSUME NEW R
  PROVE  Lasting(R, R)
BY DEF Lasting, Same

\* A step of one load that leaves the rows alone.
LEMMA OneLoad ==
  ASSUME ShapeInv, NEW q \in Loads, NEW l \in Records, LoadInv(rows, l),
         \A p \in Loads \ {q} : NewApart(l, load[p]),
         load' = [load EXCEPT ![q] = l], rows' = rows, DocRows(rows, doc'),
         doc' \in [Tabs -> Seq(Row)], torn' \in BOOLEAN, count' \in 0..MaxCalls
  PROVE  ShapeInv' /\ Lasting(rows, rows')
<1>1. BulkTypes' /\ RowsInv'
  BY DEF ShapeInv, BulkTypes, RowsInv
<1>2. ASSUME NEW p \in Loads PROVE LoadInv(rows', load'[p])
  BY <1>2 DEF ShapeInv, BulkTypes
<1>3. ASSUME NEW p \in Loads, NEW r \in Loads, p # r PROVE NewApart(load'[p], load'[r])
  <2>1. NewApart(load[p], load[r])
    BY <1>3 DEF ShapeInv
  <2>2. \A t \in Loads : load'[t] = IF t = q THEN l ELSE load[t]
    BY DEF ShapeInv, BulkTypes
  <2>3. p # q => NewApart(l, load[p])
    OBVIOUS
  <2>4. r # q => NewApart(l, load[r])
    OBVIOUS
  <2> QED BY <1>3, <2>1, <2>2, <2>3, <2>4 DEF NewApart
<1> QED BY <1>1, <1>2, <1>3, LastingRefl DEF ShapeInv

LEMMA NoLoadInv ==
  ASSUME NEW R
  PROVE  LoadInv(R, NoLoad) /\ NoLoad \in Records /\ \A l : NewApart(NoLoad, l)
<1>1. \A t \in Tabs : Range(Empty[t]) = {}
  BY DEF Empty, Range
<1>2. Session(R, {})
  BY FS_EmptySet DEF Session
<1>3. LinesInv("idle", Empty) /\ DocRows(R, Empty)
  BY <1>1 DEF LinesInv, DocRows
<1> QED BY <1>2, <1>3, NoLoadType DEF LoadInv, NoLoad, OfSession, HitInv, NewApart

LEMMA InitShape == BulkInit => ShapeInv
<1> SUFFICES ASSUME BulkInit PROVE ShapeInv
  OBVIOUS
<1>1. BulkTypes
  <2>1. rows \subseteq Row /\ IsFiniteSet(rows)
    BY BulkAssumption DEF BulkInit
  <2>2. load \in [Loads -> Records]
    BY NoLoadType DEF BulkInit
  <2>3. count \in 0..MaxCalls
    BY BulkAssumption DEF BulkInit
  <2> QED BY <2>1, <2>2, <2>3, EmptyType DEF BulkInit, BulkTypes
<1>2. RowsInv
  BY BulkAssumption DEF BulkInit, RowsInv, Full
<1>3. DocRows(rows, doc)
  BY NoLoadInv DEF BulkInit, LoadInv, NoLoad
<1> QED BY <1>1, <1>2, <1>3, NoLoadInv DEF BulkInit, ShapeInv

LEMMA SessionFlushed ==
  ASSUME NEW R, NEW objs, Session(R, objs)
  PROVE  /\ Session(R, Flushed(objs))
         /\ \A o \in Flushed(objs) : o.flushed /\ o.was = o.row
         /\ \A o \in objs : \E p \in Flushed(objs) : p.row = o.row /\ p.new = o.new /\ p.base = o.base
         /\ \A p \in Flushed(objs) : \E o \in objs : p.row = o.row /\ p.new = o.new /\ p.base = o.base
<1> DEFINE F(o) == [o EXCEPT !.was = o.row, !.flushed = TRUE]
           g == [o \in objs |-> F(o)]
<1>1. \A o \in objs : /\ F(o) \in Objects /\ F(o).row = o.row /\ F(o).was = o.row
                      /\ F(o).new = o.new /\ F(o).flushed /\ F(o).base = o.base
  BY DEF Session, Objects
<1>2. Flushed(objs) = {F(o) : o \in objs}
  BY DEF Flushed
<1> HIDE DEF F
<1>3. IsFiniteSet(Flushed(objs))
  <2>1. g \in Surjection(objs, Flushed(objs))
    BY <1>2 DEF Surjection
  <2> QED BY <2>1, FS_Surjection DEF Session
<1>4. \A o \in objs : /\ o.row \in Row /\ Full(o.row)
                      /\ o.new => Added1(R, F(o))
                      /\ ~o.new => Loaded1(R, F(o))
  BY <1>1 DEF Session, Added1, Loaded1, Objects, Same
<1>5. Session(R, Flushed(objs))
  BY <1>1, <1>2, <1>3, <1>4 DEF Session
<1> QED BY <1>1, <1>2, <1>5

-----------------------------------------------------------------------------
(* The steps of a load keep all this, one lemma each.                      *)

LEMMA StartShape ==
  ASSUME ShapeInv, NEW q \in Loads, NEW kind \in {"import", "ingest", "upsert"},
         NEW w \in Workspaces, NEW what \in Documents, LinesInv(kind, what),
         Start(q, kind, w, what)
  PROVE  ShapeInv' /\ Lasting(rows, rows')
<1> DEFINE l == load'[q]
<1>1. /\ l \in Records /\ load' = [load EXCEPT ![q] = l]
      /\ l.kind = kind /\ l.ws = w /\ l.todo = what /\ l.objs = {} /\ l.hit = Nil /\ l.out = Empty
  <2>1. PICK x \in BOOLEAN, y \in BOOLEAN, z \in BOOLEAN :
          load' = [load EXCEPT ![q] = [NoLoad EXCEPT !.kind = kind, !.ws = w, !.what = what,
                                         !.todo = what, !.fresh = x, !.again = y, !.was = z]]
    <3> DEFINE x == \A r \in rows : r.ws # w
               y == last # Nil /\ last.kind = kind /\ last.ws = w /\ last.what = what
               z == last # Nil /\ (IF kind = "import" THEN last.fresh ELSE last.apart)
    <3>1. load' = [load EXCEPT ![q] = [NoLoad EXCEPT !.kind = kind, !.ws = w, !.what = what,
                                         !.todo = what, !.fresh = x, !.again = y, !.was = z]]
      BY DEF Start
    <3>2. x \in BOOLEAN /\ y \in BOOLEAN /\ z \in BOOLEAN
      OBVIOUS
    <3> HIDE DEF x, y, z
    <3> QED BY <3>1, <3>2
  <2> DEFINE m == [NoLoad EXCEPT !.kind = kind, !.ws = w, !.what = what,
                                 !.todo = what, !.fresh = x, !.again = y, !.was = z]
  <2>2. m \in Records
    BY NoLoadType DEF Records, Kinds
  <2>3. m.kind = kind /\ m.ws = w /\ m.todo = what /\ m.objs = {} /\ m.hit = Nil /\ m.out = Empty
    BY DEF NoLoad
  <2>4. load \in [Loads -> Records]
    BY DEF ShapeInv, BulkTypes
  <2> HIDE DEF m
  <2>5. l = m
    BY <2>1, <2>4 DEF m
  <2> QED BY <2>1, <2>2, <2>3, <2>5 DEF m
<1>2. count' \in 0..MaxCalls
  BY BulkAssumption DEF Start, Begins, ShapeInv, BulkTypes
<1>3. Session(rows, {}) /\ DocRows(rows, Empty)
  BY NoLoadInv DEF LoadInv, NoLoad, OfSession
<1>4. LoadInv(rows, l)
  BY <1>1, <1>3 DEF LoadInv, OfSession, HitInv
<1>5. \A p \in Loads \ {q} : NewApart(l, load[p])
  BY <1>1 DEF NewApart
<1>6. rows' = rows /\ doc' = doc /\ torn' = torn
  BY DEF Start
<1> HIDE DEF l
<1> QED BY <1>1, <1>2, <1>4, <1>5, <1>6, OneLoad DEF ShapeInv, BulkTypes

LEMMA StartImportShape ==
  ASSUME ShapeInv, NEW q \in Loads, NEW w \in Workspaces, StartImport(q, w)
  PROVE  ShapeInv' /\ Lasting(rows, rows')
<1>1. doc \in Documents
  BY DEF ShapeInv, BulkTypes, Documents, Lines
<1>2. \A t \in Tabs : \A r \in Range(doc[t]) : r \in Row
  BY DEF ShapeInv, BulkTypes, Range
<1>3. LinesInv("import", doc)
  BY <1>2 DEF ShapeInv, DocRows, LinesInv
<1> QED BY <1>1, <1>3, StartShape DEF StartImport

LEMMA StartPayloadShape ==
  ASSUME ShapeInv, NEW q \in Loads, NEW w \in Workspaces, NEW what \in Payloads,
         StartIngest(q, w, what) \/ StartUpsert(q, w, what)
  PROVE  ShapeInv' /\ Lasting(rows, rows')
<1>1. what \in [Tabs -> Seq(Item)] /\ \A t \in Tabs : \A r \in Range(what[t]) : r.tab = t
  BY BulkAssumption
<1>2. what \in Documents
  BY <1>1 DEF Documents, Lines
<1>3. \A t \in Tabs : \A r \in Range(what[t]) : r \in Item
  BY <1>1 DEF Range
<1>4. LinesInv("ingest", what) /\ LinesInv("upsert", what)
  BY <1>1, <1>3 DEF LinesInv
<1> QED BY <1>2, <1>4, StartShape DEF StartIngest, StartUpsert

LEMMA StartTextShape ==
  ASSUME ShapeInv, NEW q \in Loads, NEW w \in Workspaces, NEW c \in Of(w, "contact"),
         NEW v \in Values, StartText(q, c, v)
  PROVE  ShapeInv' /\ Lasting(rows, rows')
<1> DEFINE n == TextNote(c, v)
           what == [Empty EXCEPT !["note"] = <<n>>]
<1>1. n \in Text /\ n.tab = "note" /\ c.ws = w
  BY DEF Text, TextNote, Of, ShapeInv, BulkTypes, Row
<1> HIDE DEF n
<1>2. what \in Documents
  <2>1. <<n>> \in Seq(Lines)
    BY <1>1 DEF Lines
  <2> QED BY <2>1, EmptyType DEF Documents
<1>3. \A t \in Tabs : Range(what[t]) = IF t = "note" THEN {n} ELSE {}
  <2>1. Range(<<n>>) = {n} /\ Range(<<>>) = {}
    BY DEF Range
  <2>2. \A t \in Tabs : what[t] = IF t = "note" THEN <<n>> ELSE <<>>
    BY DEF Empty
  <2> QED BY <2>1, <2>2
<1>4. LinesInv("ingest", what)
  BY <1>1, <1>3 DEF LinesInv
<1>5. Start(q, "ingest", w, what)
  BY <1>1 DEF StartText, n
<1> HIDE DEF what
<1> QED BY <1>2, <1>4, <1>5, StartShape

LEMMA HandOne ==
  ASSUME NEW todo, NEW t \in Tabs, NEW u \in Tabs, Hand(todo, t), Hand(todo, u)
  PROVE  t = u
<1>1. Sections[t] \in Nat /\ Sections[u] \in Nat /\ (Sections[t] = Sections[u] => t = u)
  BY SectionsApart
<1>2. ~(Sections[t] < Sections[u]) /\ ~(Sections[u] < Sections[t])
  BY DEF Hand
<1> QED BY <1>1, <1>2

\* The row at hand, as the load takes it.
LEMMA CurrentLine ==
  ASSUME ShapeInv, NEW q \in Loads, NEW t \in Tabs, AtHand(q, t)
  PROVE  /\ load[q].kind \in {"import", "ingest", "upsert"} /\ load[q].ws \in Workspaces
         /\ Hand(load[q].todo, t)
         /\ Head(load[q].todo[t]) \in Range(load[q].todo[t])
         /\ Tail(load[q].todo[t]) \in Seq(Lines)
         /\ Range(Tail(load[q].todo[t])) \subseteq Range(load[q].todo[t])
         /\ Current(q, t) \in Lines /\ Current(q, t).tab = t /\ Full(Current(q, t))
         /\ load[q].kind = "import" => /\ Head(load[q].todo[t]) \in Row
                                       /\ Current(q, t) \in Row
         /\ load[q].kind # "import" => Current(q, t) \in Item \cup Text
<1> DEFINE l == load[q]
           s == l.todo[t]
<1>1. l \in Records /\ s \in Seq(Lines) /\ s # <<>> /\ l.map \in Maps
  BY DEF ShapeInv, BulkTypes, Records, Documents, AtHand
<1>2. Head(s) \in Range(s) /\ Tail(s) \in Seq(Lines) /\ Range(Tail(s)) \subseteq Range(s)
  <2> HIDE DEF s
  <2>1. Head(s) = s[1] /\ Tail(s) \in Seq(Lines) /\ Len(s) \in Nat /\ Len(s) # 0
        /\ Len(Tail(s)) = Len(s) - 1
        /\ \A i \in 1..Len(Tail(s)) : Tail(s)[i] = s[i + 1]
    BY <1>1
  <2>2. DOMAIN s = 1..Len(s) /\ DOMAIN Tail(s) = 1..Len(Tail(s))
    BY <1>1, <2>1
  <2>3. 1 \in DOMAIN s
    BY <2>1, <2>2
  <2>4. \A i \in DOMAIN Tail(s) : i + 1 \in DOMAIN s
    BY <2>1, <2>2
  <2> QED BY <2>1, <2>2, <2>3, <2>4 DEF Range
<1>3. l.kind \in {"import", "ingest", "upsert"} /\ l.ws \in Workspaces /\ Hand(l.todo, t)
      /\ LinesInv(l.kind, l.todo)
  BY DEF AtHand, Loading, Hand, ShapeInv, LoadInv
<1> HIDE DEF s
<1>4. /\ Head(s).tab = t
      /\ l.kind = "import" => Head(s) \in Row /\ Full(Head(s))
      /\ l.kind # "import" => Head(s) \in Item \cup Text
  BY <1>2, <1>3 DEF LinesInv, s
<1>5. CASE l.kind = "import"
  <2> DEFINE c == Translated(l.map, Head(s))
  <2>1. /\ c \in Row /\ c.tab = t /\ c.ext = Head(s).ext /\ c.alt = Head(s).alt
        /\ \A d \in Refs : c[d] = IF Head(s)[d] \in DOMAIN l.map THEN l.map[Head(s)[d]] ELSE Head(s)[d]
    BY <1>1, <1>4, <1>5, TranslatedRow
  <2>2. \A i \in DOMAIN l.map : l.map[i] # Nil
    BY <1>1, BulkAssumption DEF Maps
  <2>3. \A d \in Refs : Head(s)[d] # Nil => c[d] # Nil
    BY <2>1, <2>2
  <2>4. Full(c)
    <3>1. Required(t) \subseteq Refs \cup {"ext", "alt"}
      BY DEF Required, Refs
    <3>2. \A d \in Required(t) : c[d] # Nil
      <4> SUFFICES ASSUME NEW d \in Required(t) PROVE c[d] # Nil
        OBVIOUS
      <4>1. Head(s)[d] # Nil
        BY <1>4, <1>5 DEF Full
      <4>2. CASE d \in Refs
        BY <2>3, <4>1, <4>2
      <4>3. CASE d = "ext"
        BY <2>1, <4>1, <4>3
      <4>4. CASE d = "alt"
        BY <2>1, <4>1, <4>4
      <4> QED BY <3>1, <4>2, <4>3, <4>4
    <3> QED BY <2>1, <3>2 DEF Full
  <2>5. c = Current(q, t)
    BY <1>5 DEF Current, s
  <2> QED BY <1>2, <1>3, <1>4, <1>5, <2>1, <2>4, <2>5 DEF Lines, s
<1>6. CASE l.kind # "import"
  <2>1. Current(q, t) = Head(s)
    BY <1>6 DEF Current, s
  <2>2. Head(s).tab \in {"company", "contact", "note"}
    BY <1>4, <1>6 DEF Item, Text
  <2>3. Full(Head(s))
    BY <2>2 DEF Full, Required
  <2> QED BY <1>2, <1>3, <1>4, <1>6, <2>1, <2>3 DEF Lines, s
<1> QED BY <1>5, <1>6

\* A row a load sees is one it may take into its session.
LEMMA SeenRows ==
  ASSUME ShapeInv, NEW q \in Loads, NEW t \in Tabs
  PROVE  \A s \in Seen(q, t) :
           /\ s \in Row /\ Full(s) /\ s.tab = t /\ s.ws = load[q].ws
           /\ (\E o \in load[q].objs : Same(o.row, s)) \/ (s \in rows /\ s.id \notin IdsOf(load[q].objs))
<1>1. Session(rows, load[q].objs)
  BY DEF ShapeInv, LoadInv, OfSession
<1>2. /\ View(load[q].objs) \subseteq Row
      /\ \A s \in View(load[q].objs) : Full(s)
      /\ \A s \in View(load[q].objs) : \/ s \in rows /\ s.id \notin IdsOf(load[q].objs)
                                       \/ \E o \in load[q].objs : Same(o.row, s)
  BY <1>1, ViewRows DEF ShapeInv
<1> QED BY <1>2 DEF Seen

LEMMA FoundSeen ==
  ASSUME ShapeInv, NEW q \in Loads, NEW t \in Tabs, AtHand(q, t)
  PROVE  Found(q, t) \subseteq Seen(q, t)
BY CurrentLine, CandidatesSeen DEF Found

\* The objects of a load once it found s.
Taken(objs, s) == IF s.id \in IdsOf(objs) THEN objs ELSE objs \cup {Object(s, s, s, FALSE, FALSE)}

LEMMA TakenObjects ==
  ASSUME ShapeInv, NEW q \in Loads, NEW t \in Tabs, NEW s \in Seen(q, t)
  PROVE  /\ OfSession(rows, Taken(load[q].objs, s), load[q].ws)
         /\ \E o \in Taken(load[q].objs, s) : o.row.id = s.id /\ o.row.tab = t
         /\ \A o \in Taken(load[q].objs, s) : o.new => o \in load[q].objs
<1> DEFINE objs == load[q].objs
           n == Object(s, s, s, FALSE, FALSE)
<1>1. OfSession(rows, objs, load[q].ws)
  BY DEF ShapeInv, LoadInv
<1>2. /\ s \in Row /\ Full(s) /\ s.tab = t /\ s.ws = load[q].ws
      /\ (\E o \in objs : Same(o.row, s)) \/ (s \in rows /\ s.id \notin IdsOf(objs))
  BY SeenRows
<1> HIDE DEF objs
<1>3. CASE s.id \in IdsOf(objs)
  <2>1. PICK o \in objs : Same(o.row, s)
    BY <1>2, <1>3
  <2> QED BY <1>1, <1>2, <1>3, <2>1 DEF Taken, Same, objs
<1>4. CASE s.id \notin IdsOf(objs)
  <2>1. s \in rows
    BY <1>2, <1>4 DEF IdsOf, Same
  <2>2. n \in Objects /\ n.row = s /\ n.was = s /\ n.base = s /\ ~n.new /\ ~n.flushed
    BY <1>2 DEF Object, Objects
  <2>3. Taken(objs, s) = objs \cup {n}
    BY <1>4 DEF Taken
  <2> HIDE DEF n
  <2>4. Loaded1(rows, n) /\ Full(n.row)
    BY <1>2, <2>1, <2>2 DEF Loaded1, Same
  <2>5. \A o \in objs : o.row.id # n.row.id
    BY <1>4, <2>2 DEF IdsOf
  <2>6. IsFiniteSet(objs \cup {n})
    BY <1>1, FS_AddElement DEF OfSession, Session
  <2>7. \A o, p \in objs \cup {n} : o.row.id = p.row.id => o = p
    BY <1>1, <2>5 DEF OfSession, Session
  <2>8. Session(rows, objs \cup {n})
    BY <1>1, <2>2, <2>4, <2>6, <2>7 DEF OfSession, Session
  <2>9. OfSession(rows, objs \cup {n}, load[q].ws)
    BY <1>1, <1>2, <2>2, <2>8 DEF OfSession
  <2> QED BY <2>2, <2>3, <2>9, <1>2 DEF objs
<1> QED BY <1>3, <1>4

\* What a look leaves of the load.
LEMMA LookIs ==
  ASSUME ShapeInv, NEW q \in Loads, NEW t \in Tabs, Look(q, t)
  PROVE  LET l == load[q] IN
         \/ /\ Found(q, t) = {}
            /\ load' = [load EXCEPT ![q] = [l EXCEPT !.looked = TRUE, !.hit = Nil]]
         \/ \E s \in Found(q, t), x \in BOOLEAN :
              /\ x <=> l.apart /\ s.id \notin IdsOf(l.objs)
              /\ load' = [load EXCEPT ![q] = [l EXCEPT !.looked = TRUE, !.hit = s.id, !.apart = x,
                                                       !.objs = Taken(l.objs, s)]]
<1> DEFINE l == load[q]
<1>0. l \in Records /\ load \in [Loads -> Records]
  BY DEF ShapeInv, BulkTypes
<1>1. CASE Found(q, t) = {} /\ LookMisses(q)
  BY <1>0, <1>1 DEF LookMisses
<1>2. ASSUME NEW s \in Found(q, t), LookHits(q, s)
      PROVE  \E x \in BOOLEAN :
               /\ x <=> l.apart /\ s.id \notin IdsOf(l.objs)
               /\ load' = [load EXCEPT ![q] = [l EXCEPT !.looked = TRUE, !.hit = s.id, !.apart = x,
                                                        !.objs = Taken(l.objs, s)]]
  <2> DEFINE x == l.apart /\ s.id \notin IdsOf(l.objs)
  <2>1. load' = [load EXCEPT ![q].looked = TRUE, ![q].hit = s.id, ![q].apart = x,
                             ![q].objs = Taken(l.objs, s)]
    BY <1>2 DEF LookHits, Taken
  <2>2. x \in BOOLEAN
    OBVIOUS
  <2> HIDE DEF x
  <2>3. load' = [load EXCEPT ![q] = [l EXCEPT !.looked = TRUE, !.hit = s.id, !.apart = x,
                                               !.objs = Taken(l.objs, s)]]
    BY <1>0, <2>1
  <2> QED BY <2>2, <2>3 DEF x
<1> QED BY <1>1, <1>2 DEF Look

LEMMA LookShape ==
  ASSUME ShapeInv, NEW q \in Loads, NEW t \in Tabs, Look(q, t)
  PROVE  ShapeInv' /\ Lasting(rows, rows')
<1> DEFINE l == load[q]
<1>0. /\ l \in Records /\ LoadInv(rows, l) /\ AtHand(q, t)
      /\ l.kind \in {"import", "ingest", "upsert"} /\ Hand(l.todo, t)
      /\ \A p \in Loads \ {q} : NewApart(l, load[p])
      /\ rows' = rows /\ doc' = doc /\ torn' = torn /\ count' = count
  BY CurrentLine DEF ShapeInv, BulkTypes, Look
<1>1. CASE load' = [load EXCEPT ![q] = [l EXCEPT !.looked = TRUE, !.hit = Nil]]
  <2> DEFINE m == [l EXCEPT !.looked = TRUE, !.hit = Nil]
  <2>1. /\ m \in Records
        /\ m.kind = l.kind /\ m.ws = l.ws /\ m.objs = l.objs /\ m.todo = l.todo /\ m.hit = Nil
        /\ m.out = l.out
    BY <1>0 DEF Records
  <2> HIDE DEF m
  <2>2. LoadInv(rows, m)
    BY <1>0, <2>1 DEF LoadInv, HitInv
  <2>3. \A p \in Loads \ {q} : NewApart(m, load[p])
    BY <1>0, <2>1 DEF NewApart
  <2> QED BY <1>0, <1>1, <2>1, <2>2, <2>3, OneLoad DEF m, ShapeInv, BulkTypes
<1>2. ASSUME NEW s \in Found(q, t), NEW x \in BOOLEAN,
             load' = [load EXCEPT ![q] = [l EXCEPT !.looked = TRUE, !.hit = s.id, !.apart = x,
                                                   !.objs = Taken(l.objs, s)]]
      PROVE  ShapeInv' /\ Lasting(rows, rows')
  <2> DEFINE m == [l EXCEPT !.looked = TRUE, !.hit = s.id, !.apart = x, !.objs = Taken(l.objs, s)]
  <2>0. s \in Seen(q, t)
    BY <1>0, FoundSeen
  <2>1. /\ OfSession(rows, Taken(l.objs, s), l.ws)
        /\ \E o \in Taken(l.objs, s) : o.row.id = s.id /\ o.row.tab = t
        /\ \A o \in Taken(l.objs, s) : o.new => o \in l.objs
        /\ s.id \in Ids
    BY <2>0, TakenObjects, SeenRows DEF Row
  <2>2. Taken(l.objs, s) \in SUBSET Objects
    BY <2>1 DEF OfSession, Session
  <2>3. /\ m \in Records
        /\ m.kind = l.kind /\ m.ws = l.ws /\ m.objs = Taken(l.objs, s) /\ m.todo = l.todo
        /\ m.hit = s.id /\ m.out = l.out /\ m.looked
    BY <1>0, <2>1, <2>2 DEF Records
  <2> HIDE DEF m
  <2>4. HitInv(m)
    BY <1>0, <2>1, <2>3, HandOne DEF HitInv
  <2>5. LoadInv(rows, m)
    BY <1>0, <2>1, <2>3, <2>4 DEF LoadInv
  <2>6. \A p \in Loads \ {q} : NewApart(m, load[p])
    BY <1>0, <2>1, <2>3 DEF NewApart
  <2>7. load' = [load EXCEPT ![q] = m]
    BY <1>2 DEF m
  <2> QED BY <1>0, <2>3, <2>5, <2>6, <2>7, OneLoad DEF ShapeInv, BulkTypes
<1> QED BY <1>1, <1>2, LookIs

\* The lines left once the one at hand is done.
LEMMA TailLines ==
  ASSUME ShapeInv, NEW q \in Loads, NEW t \in Tabs, AtHand(q, t)
  PROVE  LET todo == [load[q].todo EXCEPT ![t] = Tail(@)] IN
         /\ todo \in Documents /\ LinesInv(load[q].kind, todo)
         /\ \A u \in Tabs : Hand(todo, u) => u = t \/ todo[t] = <<>>
<1> DEFINE old == load[q].todo
           todo == [old EXCEPT ![t] = Tail(@)]
<1>1. Tail(old[t]) \in Seq(Lines) /\ Range(Tail(old[t])) \subseteq Range(old[t])
      /\ Hand(old, t)
  BY CurrentLine
<1>2. old \in Documents /\ LinesInv(load[q].kind, old)
  BY DEF ShapeInv, BulkTypes, Records, LoadInv
<1> HIDE DEF old
<1>3. \A u \in Tabs : todo[u] = IF u = t THEN Tail(old[t]) ELSE old[u]
  BY <1>2 DEF Documents
<1>4. todo \in Documents
  BY <1>1, <1>2 DEF Documents
<1> HIDE DEF todo
<1>5. LinesInv(load[q].kind, todo)
  BY <1>1, <1>2, <1>3 DEF LinesInv
<1>6. ASSUME NEW u \in Tabs, Hand(todo, u), u # t, todo[t] # <<>> PROVE FALSE
  <2>1. Hand(old, t) /\ old[u] # <<>> /\ \A v \in Tabs : Sections[v] < Sections[u] => v # t /\ old[v] = <<>>
    BY <1>1, <1>3, <1>6 DEF Hand
  <2>2. Hand(old, u)
    BY <2>1 DEF Hand
  <2> QED BY <2>1, <2>2, <1>6, HandOne
<1> QED BY <1>4, <1>5, <1>6 DEF todo, old

LEMMA RowErrorShape ==
  ASSUME ShapeInv, NEW q \in Loads, NEW t \in Tabs, RowError(q, t)
  PROVE  ShapeInv' /\ Lasting(rows, rows')
<1> DEFINE l == load[q]
           todo == [l.todo EXCEPT ![t] = Tail(@)]
           m == [l EXCEPT !.todo = todo]
<1>0. /\ l \in Records /\ LoadInv(rows, l) /\ AtHand(q, t) /\ load \in [Loads -> Records] /\ ~l.looked
      /\ \A p \in Loads \ {q} : NewApart(l, load[p])
      /\ rows' = rows /\ doc' = doc /\ torn' = torn /\ count' = count
      /\ load' = [load EXCEPT ![q].todo[t] = Tail(@)]
  BY DEF ShapeInv, BulkTypes, RowError
<1>1. load' = [load EXCEPT ![q] = m]
  BY <1>0
<1>2. todo \in Documents /\ LinesInv(l.kind, todo)
  BY <1>0, TailLines
<1> HIDE DEF todo
<1>3. /\ m \in Records
      /\ m.kind = l.kind /\ m.ws = l.ws /\ m.objs = l.objs /\ m.todo = todo /\ m.hit = l.hit
      /\ m.out = l.out
  BY <1>0, <1>2 DEF Records
<1> HIDE DEF m
<1>4. LoadInv(rows, m)
  BY <1>0, <1>2, <1>3 DEF LoadInv, HitInv
<1>5. \A p \in Loads \ {q} : NewApart(m, load[p])
  BY <1>0, <1>3 DEF NewApart
<1> QED BY <1>0, <1>1, <1>3, <1>4, <1>5, OneLoad DEF ShapeInv, BulkTypes

\* An object as one row of a load leaves it.
Rewritten(o, r, given) == [o EXCEPT !.row = Overwritten(@, r, given)]
Fresh(w, r) == Object(Nil, Nil, NewRow(w, r), TRUE, FALSE)

LEMMA NewIdUnused ==
  ASSUME FreshIds # {}
  PROVE  /\ NewId \in Ids
         /\ \A r \in rows : r.id # NewId
         /\ \A q \in Loads : \A o \in load[q].objs : o.row.id # NewId
<1>1. NewId \in FreshIds
  BY DEF NewId
<1>2. \A S \in {{r.id : r \in rows}} \cup {IdsOf(load[q].objs) : q \in Loads} : NewId \notin S
  BY <1>1 DEF FreshIds, Used
<1>3. NewId \notin {r.id : r \in rows} /\ \A q \in Loads : NewId \notin IdsOf(load[q].objs)
  BY <1>2
<1> QED BY <1>1, <1>3 DEF FreshIds, IdsOf

LEMMA FreshObject ==
  ASSUME FreshIds # {}, NEW r \in Lines, NEW w \in Workspaces, Full(r), r.tab \in Tabs
  PROVE  /\ Fresh(w, r) \in Objects /\ Fresh(w, r).new /\ ~Fresh(w, r).flushed
         /\ Fresh(w, r).row.id = NewId /\ Fresh(w, r).row.ws = w /\ Fresh(w, r).row.tab = r.tab
         /\ \A c \in Columns : Fresh(w, r).row[c] = r[c]
         /\ Full(Fresh(w, r).row) /\ Fresh(w, r).row.rest = Nil
<1> DEFINE n == NewRow(w, r)
<1>0. r.ext \in Keys \cup {Nil} /\ r.alt \in Keys \cup {Nil} /\ r.val \in Values \cup {Nil}
        /\ r.up \in Ids \cup {Nil} /\ r.a \in Ids \cup {Nil} /\ r.b \in Ids \cup {Nil}
  BY DEF Lines, Row, Item, Text
<1>1. n \in Row /\ n.id = NewId /\ n.ws = w /\ n.tab = r.tab /\ n.rest = Nil
  BY <1>0, NewIdUnused DEF NewRow, Row
<1>2. \A c \in Columns : n[c] = r[c]
  BY DEF NewRow, Columns
<1>3. Required(r.tab) \subseteq Columns
  BY DEF Required, Columns
<1>4. Full(n)
  BY <1>1, <1>2, <1>3 DEF Full
<1> HIDE DEF n
<1>5. Fresh(w, r) = [base |-> Nil, was |-> Nil, row |-> n, new |-> TRUE, flushed |-> FALSE]
  BY DEF Fresh, Object, n
<1> QED BY <1>1, <1>2, <1>4, <1>5 DEF Objects

LEMMA RewrittenObject ==
  ASSUME NEW o \in Objects, NEW r \in Lines, r.tab = o.row.tab, Full(o.row),
         NEW given \in SUBSET {"ext", "alt", "val", "up", "a"}, given \cap Required(r.tab) = {}
  PROVE  LET p == Rewritten(o, r, given) IN
         /\ p \in Objects /\ p.base = o.base /\ p.was = o.was /\ p.new = o.new
         /\ p.flushed = o.flushed /\ Same(p.row, o.row) /\ Full(p.row)
         /\ \A c \in Columns : p.row[c] = IF c \in given THEN r[c] ELSE o.row[c]
<1> DEFINE n == Overwritten(o.row, r, given)
           p == Rewritten(o, r, given)
<1>1. o.row \in Row
  BY DEF Objects
<1>2. /\ n \in Row /\ n.id = o.row.id /\ n.ws = o.row.ws /\ n.tab = o.row.tab /\ n.rest = o.row.rest
      /\ \A c \in Columns : n[c] = IF c \in given THEN r[c] ELSE o.row[c]
  BY <1>1, OverwrittenRow
<1> HIDE DEF n
<1>3. p = [o EXCEPT !.row = n]
  BY DEF Rewritten, n
<1> HIDE DEF p
<1>4. /\ p \in Objects /\ p.base = o.base /\ p.was = o.was /\ p.new = o.new
      /\ p.flushed = o.flushed /\ p.row = n
  BY <1>2, <1>3 DEF Objects
<1>5. Required(o.row.tab) \subseteq Columns
  BY DEF Required, Columns
<1>6. Full(n)
  BY <1>2, <1>5 DEF Full
<1> QED BY <1>2, <1>4, <1>6 DEF Same, p

\* Every object was there, is the one found, rewritten, or is a new one.
LEMMA AppliedIs ==
  ASSUME ShapeInv, NEW q \in Loads, NEW t \in Tabs, AtHand(q, t),
         load[q].hit = Nil => FreshIds # {}
  PROVE  LET l == load[q]
             c == Current(q, t)
             given == Given(l.kind, c)
             new == IF l.hit = Nil THEN NewId ELSE l.hit IN
         /\ \A p \in Applied(q, c) :
              \/ p \in l.objs /\ (l.hit # Nil => p.row.id # l.hit)
              \/ l.hit = Nil /\ p = Fresh(l.ws, c)
              \/ \E o \in l.objs : l.hit # Nil /\ o.row.id = l.hit /\ o.row.tab = t
                                   /\ p = Rewritten(o, c, given)
         /\ l.hit = Nil => Fresh(l.ws, c) \in Applied(q, c)
         /\ \A o \in l.objs : o \in Applied(q, c) \/ (o.row.id = l.hit /\ Rewritten(o, c, given) \in Applied(q, c))
         /\ IsFiniteSet(Applied(q, c))
<1> DEFINE l == load[q]
           c == Current(q, t)
           given == Given(l.kind, c)
           G(o) == IF o.row.id # l.hit THEN o ELSE Rewritten(o, c, given)
<1>0. /\ Hand(l.todo, t) /\ HitInv(l) /\ IsFiniteSet(l.objs)
      /\ \A o, p \in l.objs : o.row.id = p.row.id => o = p
  BY CurrentLine DEF ShapeInv, LoadInv, OfSession, Session
<1>1. CASE l.hit = Nil
  <2>1. Applied(q, c) = l.objs \cup {Fresh(l.ws, c)}
    BY <1>1 DEF Applied, Fresh
  <2>2. IsFiniteSet(l.objs \cup {Fresh(l.ws, c)})
    BY <1>0, FS_AddElement
  <2> HIDE DEF l, c
  <2> QED BY <1>1, <2>1, <2>2 DEF l, c
<1>2. CASE l.hit # Nil
  <2>1. Applied(q, c) = {G(o) : o \in l.objs}
    BY <1>2 DEF Applied, Rewritten
  <2>2. PICK h \in l.objs : h.row.id = l.hit /\ h.row.tab = t
    BY <1>0, <1>2 DEF HitInv
  <2>3. \A o \in l.objs : o.row.id = l.hit => o.row.tab = t
    BY <1>0, <2>2
  <2> HIDE DEF c, given
  <2>4. IsFiniteSet({G(o) : o \in l.objs})
    <3> DEFINE g == [o \in l.objs |-> G(o)]
               T == {G(o) : o \in l.objs}
    <3> HIDE DEF G
    <3>1. g \in Surjection(l.objs, T)
      BY DEF Surjection
    <3> QED BY <3>1, <1>0, FS_Surjection
  <2>5. \A p \in Applied(q, c) :
          \/ p \in l.objs /\ p.row.id # l.hit
          \/ \E o \in l.objs : o.row.id = l.hit /\ o.row.tab = t /\ p = Rewritten(o, c, given)
    BY <2>1, <2>3
  <2>6. \A o \in l.objs : o \in Applied(q, c) \/ (o.row.id = l.hit /\ Rewritten(o, c, given) \in Applied(q, c))
    BY <2>1
  <2> QED BY <1>2, <2>1, <2>4, <2>5, <2>6 DEF c, given
<1> QED BY <1>1, <1>2

LEMMA AppliedObjects ==
  ASSUME ShapeInv, NEW q \in Loads, NEW t \in Tabs, AtHand(q, t),
         load[q].hit = Nil => FreshIds # {}
  PROVE  LET l == load[q]
             c == Current(q, t)
             new == IF l.hit = Nil THEN NewId ELSE l.hit IN
         /\ OfSession(rows, Applied(q, c), l.ws)
         /\ \A o \in l.objs : \E p \in Applied(q, c) : Same(o.row, p.row)
         /\ \E p \in Applied(q, c) : p.row.id = new /\ p.row.tab = t
         /\ \A p \in Applied(q, c) :
              p.new => (l.hit = Nil /\ p.row.id = NewId) \/ \E o \in l.objs : o.new /\ o.row.id = p.row.id
<1> DEFINE l == load[q]
           c == Current(q, t)
           given == Given(l.kind, c)
           objs == Applied(q, c)
<1>0. OfSession(rows, l.objs, l.ws) /\ HitInv(l)
  BY DEF ShapeInv, LoadInv
<1>1. /\ l.kind \in {"import", "ingest", "upsert"} /\ l.ws \in Workspaces
      /\ Hand(l.todo, t)
      /\ c \in Lines /\ c.tab = t /\ Full(c)
      /\ l.kind = "import" => c \in Row
      /\ l.kind # "import" => c \in Item \cup Text
  BY CurrentLine
<1>2. /\ \A p \in objs :
           \/ p \in l.objs /\ (l.hit # Nil => p.row.id # l.hit)
           \/ l.hit = Nil /\ p = Fresh(l.ws, c)
           \/ \E o \in l.objs : l.hit # Nil /\ o.row.id = l.hit /\ o.row.tab = t
                                /\ p = Rewritten(o, c, given)
      /\ l.hit = Nil => Fresh(l.ws, c) \in objs
      /\ \A o \in l.objs : o \in objs \/ (o.row.id = l.hit /\ Rewritten(o, c, given) \in objs)
      /\ IsFiniteSet(objs)
  BY AppliedIs
<1> HIDE DEF c, objs, l, given
<1>3. given \in SUBSET {"ext", "alt", "val", "up", "a"} /\ given \cap Required(c.tab) = {}
  BY <1>1, GivenColumns DEF given
<1>4. ASSUME NEW o \in l.objs, o.row.tab = t
      PROVE  LET p == Rewritten(o, c, given) IN
             /\ p \in Objects /\ p.base = o.base /\ p.was = o.was /\ p.new = o.new
             /\ p.flushed = o.flushed /\ Same(p.row, o.row) /\ Full(p.row)
  BY <1>0, <1>1, <1>3, <1>4, RewrittenObject DEF OfSession, Session
<1> DEFINE f == Fresh(l.ws, c)
<1>5. l.hit = Nil =>
        /\ f \in Objects /\ f.new /\ ~f.flushed /\ Full(f.row)
        /\ f.row.id = NewId /\ f.row.ws = l.ws /\ f.row.tab = t
  BY <1>1, FreshObject DEF l
<1> HIDE DEF f
<1>6. l.hit = Nil => \A o \in l.objs : o.row.id # NewId
  BY NewIdUnused DEF l
<1>7. l.hit = Nil => \A r \in rows : r.id # NewId
  BY NewIdUnused DEF l
\* Each object of the result beside the one it comes from.
<1> DEFINE Old(p, o) == Same(p.row, o.row) /\ Full(p.row) /\ p \in Objects /\ p.base = o.base
                          /\ p.was = o.was /\ p.new = o.new /\ p.flushed = o.flushed
           Kept(p, o) == \/ p = o /\ (l.hit # Nil => o.row.id # l.hit)
                         \/ l.hit # Nil /\ o.row.id = l.hit /\ p = Rewritten(o, c, given)
<1>8. \A p \in objs : (l.hit = Nil /\ p = f) \/ \E o \in l.objs : Old(p, o) /\ Kept(p, o)
  <2> SUFFICES ASSUME NEW p \in objs, ~(l.hit = Nil /\ p = f)
               PROVE  \E o \in l.objs : Old(p, o) /\ Kept(p, o)
    OBVIOUS
  <2>1. CASE p \in l.objs /\ (l.hit # Nil => p.row.id # l.hit)
    BY <2>1, <1>0 DEF OfSession, Session, Same
  <2>2. ASSUME NEW o \in l.objs, l.hit # Nil, o.row.id = l.hit, o.row.tab = t, p = Rewritten(o, c, given)
        PROVE  Old(p, o) /\ Kept(p, o)
    BY <2>2, <1>4
  <2> QED BY <1>2, <2>1, <2>2 DEF f
<1>9. \A p \in objs : Full(p.row) /\ p \in Objects /\ (p.new => Added1(rows, p)) /\ (~p.new => Loaded1(rows, p)) /\ p.row.ws = l.ws
  <2> SUFFICES ASSUME NEW p \in objs
               PROVE Full(p.row) /\ p \in Objects /\ (p.new => Added1(rows, p)) /\ (~p.new => Loaded1(rows, p)) /\ p.row.ws = l.ws
    OBVIOUS
  <2>1. CASE l.hit = Nil /\ p = f
    BY <2>1, <1>5, <1>7 DEF Added1
  <2>2. ASSUME NEW o \in l.objs, Old(p, o)
        PROVE  Full(p.row) /\ p \in Objects /\ (p.new => Added1(rows, p)) /\ (~p.new => Loaded1(rows, p)) /\ p.row.ws = l.ws
    BY <2>2, <1>0 DEF OfSession, Session, Added1, Loaded1, Same
  <2> QED BY <1>8, <2>1, <2>2
<1>10. \A p, r \in objs : p.row.id = r.row.id => p = r
  <2> SUFFICES ASSUME NEW p \in objs, NEW r \in objs, p.row.id = r.row.id PROVE p = r
    OBVIOUS
  <2>1. CASE l.hit = Nil /\ p = f
    BY <2>1, <1>5, <1>6, <1>8 DEF Same
  <2>2. CASE l.hit = Nil /\ r = f
    BY <2>2, <1>5, <1>6, <1>8 DEF Same
  <2>3. CASE ~(l.hit = Nil /\ p = f) /\ ~(l.hit = Nil /\ r = f)
    <3>1. PICK o \in l.objs : Same(p.row, o.row) /\ Kept(p, o)
      BY <2>3, <1>8
    <3>2. PICK u \in l.objs : Same(r.row, u.row) /\ Kept(r, u)
      BY <2>3, <1>8
    <3>3. o = u
      BY <3>1, <3>2, <1>0 DEF OfSession, Session, Same
    <3> QED BY <3>1, <3>2, <3>3
  <2> QED BY <2>1, <2>2, <2>3
<1>11. OfSession(rows, objs, l.ws)
  BY <1>2, <1>9, <1>10 DEF OfSession, Session
<1>12. \A o \in l.objs : \E p \in objs : Same(o.row, p.row)
  <2> SUFFICES ASSUME NEW o \in l.objs PROVE \E p \in objs : Same(o.row, p.row)
    OBVIOUS
  <2>1. CASE o \in objs
    BY <2>1 DEF Same
  <2>2. CASE o.row.id = l.hit /\ Rewritten(o, c, given) \in objs
    <3>1. o.row.tab = t
      BY <2>2, <1>0, <1>1, BulkAssumption DEF HitInv, OfSession, Session, Objects, Row
    <3> QED BY <2>2, <3>1, <1>4 DEF Same
  <2> QED BY <1>2, <2>1, <2>2
<1>13. \E p \in objs : p.row.id = (IF l.hit = Nil THEN NewId ELSE l.hit) /\ p.row.tab = t
  <2>1. CASE l.hit = Nil
    BY <2>1, <1>2, <1>5 DEF f
  <2>2. CASE l.hit # Nil
    <3>1. PICK o \in l.objs : o.row.id = l.hit /\ o.row.tab = t
      BY <2>2, <1>0, <1>1 DEF HitInv
    <3> QED BY <2>2, <3>1, <1>12 DEF Same
  <2> QED BY <2>1, <2>2
<1>14. \A p \in objs : p.new => (l.hit = Nil /\ p.row.id = NewId) \/ \E o \in l.objs : o.new /\ o.row.id = p.row.id
  BY <1>5, <1>8 DEF Same
<1> QED BY <1>11, <1>12, <1>13, <1>14 DEF c, objs, l

\* What is left of a load once it has applied the row at hand.
MapWith(map, i, new) == [j \in DOMAIN map \cup {i} |-> IF j = i THEN new ELSE map[j]]

LEMMA MapWithType ==
  ASSUME NEW map \in Maps, NEW i \in Ids, NEW new \in Ids
  PROVE  MapWith(map, i, new) \in Maps
<1>1. PICK D \in SUBSET Ids : map \in [D -> Ids]
  BY DEF Maps
<1>2. MapWith(map, i, new) \in [D \cup {i} -> Ids]
  BY <1>1 DEF MapWith
<1> QED BY <1>2 DEF Maps

AfterRow(q, t) ==
  LET l == load[q]
      objs == Applied(q, Current(q, t)) IN
  [l EXCEPT
     !.todo = [l.todo EXCEPT ![t] = Tail(@)],
     !.looked = FALSE, !.hit = Nil,
     !.objs = IF Flushes(q, t) THEN Flushed(objs) ELSE objs,
     !.map = IF l.kind = "import" /\ t \in Mapped
               THEN MapWith(l.map, Head(l.todo[t]).id, IF l.hit = Nil THEN NewId ELSE l.hit)
               ELSE l.map]

LEMMA ApplyIs ==
  ASSUME ShapeInv, NEW q \in Loads, NEW t \in Tabs, Apply(q, t)
  PROVE  /\ AtHand(q, t) /\ load[q].looked
         /\ load[q].hit = Nil => FreshIds # {}
         /\ \/ load' = [load EXCEPT ![q] = NoLoad]
            \/ /\ load' = [load EXCEPT ![q] = AfterRow(q, t)]
               /\ Flushes(q, t) => ~Breaks(Applied(q, Current(q, t)))
         /\ UNCHANGED <<rows, doc, torn, count, last>>
<1>1. load[q] \in Records
  BY DEF ShapeInv, BulkTypes
<1>2. [load[q] EXCEPT !.todo[t] = Tail(@)] = [load[q] EXCEPT !.todo = [load[q].todo EXCEPT ![t] = Tail(@)]]
  BY <1>1
<1> QED BY <1>1, <1>2 DEF Apply, AfterRow, MapWith

LEMMA AfterRowIs ==
  ASSUME ShapeInv, NEW q \in Loads, NEW t \in Tabs, AtHand(q, t), load[q].hit = Nil => FreshIds # {}
  PROVE  LET l == load[q]
             m == AfterRow(q, t)
             c == Current(q, t) IN
         /\ m \in Records
         /\ m.kind = l.kind /\ m.ws = l.ws /\ m.what = l.what /\ m.out = l.out /\ m.left = l.left
         /\ m.alone = l.alone /\ m.fresh = l.fresh /\ m.again = l.again /\ m.was = l.was
         /\ m.apart = l.apart
         /\ m.todo = [l.todo EXCEPT ![t] = Tail(@)] /\ m.hit = Nil /\ ~m.looked
         /\ m.objs = IF Flushes(q, t) THEN Flushed(Applied(q, c)) ELSE Applied(q, c)
         /\ m.map = IF l.kind = "import" /\ t \in Mapped
                      THEN MapWith(l.map, Head(l.todo[t]).id, IF l.hit = Nil THEN NewId ELSE l.hit)
                      ELSE l.map
<1> DEFINE l == load[q]
           todo == [l.todo EXCEPT ![t] = Tail(@)]
           objs == IF Flushes(q, t) THEN Flushed(Applied(q, Current(q, t))) ELSE Applied(q, Current(q, t))
           new == IF l.hit = Nil THEN NewId ELSE l.hit
           map == IF l.kind = "import" /\ t \in Mapped THEN MapWith(l.map, Head(l.todo[t]).id, new) ELSE l.map
<1>1. l \in Records
  BY DEF ShapeInv, BulkTypes
<1>2. todo \in Documents
  BY TailLines
<1>3. objs \in SUBSET Objects
  <2>1. Session(rows, Applied(q, Current(q, t)))
    BY AppliedObjects DEF OfSession
  <2>2. Session(rows, Flushed(Applied(q, Current(q, t))))
    BY <2>1, SessionFlushed
  <2> QED BY <2>1, <2>2 DEF Session
<1>4. map \in Maps
  <2>1. new \in Ids
    BY <1>1, NewIdUnused DEF Records
  <2>2. l.kind = "import" => Head(l.todo[t]).id \in Ids
    BY CurrentLine DEF Row
  <2>3. l.map \in Maps
    BY <1>1 DEF Records
  <2> HIDE DEF l, new
  <2> QED BY <2>1, <2>2, <2>3, MapWithType
<1> HIDE DEF todo, objs, map
<1>5. AfterRow(q, t) = [l EXCEPT !.todo = todo, !.looked = FALSE, !.hit = Nil, !.objs = objs, !.map = map]
  BY DEF AfterRow, todo, objs, map
<1> DEFINE m == AfterRow(q, t)
<1> HIDE DEF m
<1>6. /\ m \in Records
      /\ m.kind = l.kind /\ m.ws = l.ws /\ m.what = l.what /\ m.out = l.out /\ m.left = l.left
      /\ m.alone = l.alone /\ m.fresh = l.fresh /\ m.again = l.again /\ m.was = l.was
      /\ m.apart = l.apart
      /\ m.todo = todo /\ m.hit = Nil /\ ~m.looked /\ m.objs = objs /\ m.map = map
  BY <1>1, <1>2, <1>3, <1>4, <1>5 DEF Records, m
<1> QED BY <1>6 DEF m, todo, objs, map

LEMMA ApplyShape ==
  ASSUME ShapeInv, NEW q \in Loads, NEW t \in Tabs, Apply(q, t)
  PROVE  ShapeInv' /\ Lasting(rows, rows')
<1>1. /\ AtHand(q, t)
      /\ load[q].hit = Nil => FreshIds # {}
      /\ \/ load' = [load EXCEPT ![q] = NoLoad]
         \/ load' = [load EXCEPT ![q] = AfterRow(q, t)]
      /\ rows' = rows /\ doc' = doc /\ torn' = torn /\ count' = count
  BY ApplyIs
<1>2. CASE load' = [load EXCEPT ![q] = NoLoad]
  BY <1>1, <1>2, NoLoadInv, OneLoad DEF ShapeInv, BulkTypes
<1>3. CASE load' = [load EXCEPT ![q] = AfterRow(q, t)]
  <2> DEFINE l == load[q]
             m == AfterRow(q, t)
             objs == Applied(q, Current(q, t))
  <2>1. /\ m \in Records
        /\ m.kind = l.kind /\ m.ws = l.ws /\ m.out = l.out
        /\ m.todo = [l.todo EXCEPT ![t] = Tail(@)] /\ m.hit = Nil
        /\ m.objs = IF Flushes(q, t) THEN Flushed(objs) ELSE objs
    BY <1>1, AfterRowIs
  <2>2. /\ OfSession(rows, objs, l.ws)
        /\ \A p \in objs :
             p.new => (l.hit = Nil /\ p.row.id = NewId) \/ \E o \in l.objs : o.new /\ o.row.id = p.row.id
    BY <1>1, AppliedObjects
  <2> HIDE DEF objs, m
  <2> DEFINE fl == Flushed(objs)
  <2>a. Session(rows, fl) /\ \A p \in fl : \E o \in objs : p.row = o.row /\ p.new = o.new
    BY <2>2, SessionFlushed DEF OfSession
  <2> HIDE DEF fl
  <2>3. OfSession(rows, fl, l.ws)
    BY <2>2, <2>a DEF OfSession
  <2>b. m.objs = fl \/ m.objs = objs
    BY <2>1 DEF fl
  <2>4. \A p \in m.objs :
          p.new => (l.hit = Nil /\ p.row.id = NewId) \/ \E o \in l.objs : o.new /\ o.row.id = p.row.id
    BY <2>b, <2>2, <2>a
  <2>5. l.hit = Nil => \A p \in Loads : \A o \in load[p].objs : o.row.id # NewId
    BY <1>1, NewIdUnused
  <2>6. \A p \in Loads \ {q} : NewApart(m, load[p])
    BY <2>4, <2>5 DEF ShapeInv, NewApart
  <2>7. LoadInv(rows, l) /\ l.kind \in {"import", "ingest", "upsert"} /\ LinesInv(l.kind, m.todo)
    <3>1. LoadInv(rows, l) /\ l.kind \in {"import", "ingest", "upsert"}
      BY <1>1, CurrentLine DEF ShapeInv
    <3>2. LinesInv(l.kind, [l.todo EXCEPT ![t] = Tail(@)])
      BY <1>1, TailLines
    <3> QED BY <2>1, <3>1, <3>2
  <2>8. LoadInv(rows, m)
    BY <2>1, <2>b, <2>2, <2>3, <2>7 DEF LoadInv, HitInv
  <2> QED BY <1>1, <1>3, <2>1, <2>6, <2>8, OneLoad DEF m, ShapeInv, BulkTypes
<1> QED BY <1>1, <1>2, <1>3

LEMMA DropLoadShape ==
  ASSUME ShapeInv, NEW q \in Loads, load' = [load EXCEPT ![q] = NoLoad],
         UNCHANGED <<rows, doc, torn, count>>
  PROVE  ShapeInv' /\ Lasting(rows, rows')
BY NoLoadInv, OneLoad DEF ShapeInv, BulkTypes

LEMMA StartExportShape ==
  ASSUME ShapeInv, NEW q \in Loads, StartExport(q)
  PROVE  ShapeInv' /\ Lasting(rows, rows')
<1> DEFINE m == [NoLoad EXCEPT !.kind = "export", !.ws = Source, !.left = Tabs]
<1>1. m \in Records
  BY NoLoadType, BulkAssumption DEF Records, Kinds
<1>2. m.kind = "export" /\ m.ws = Source /\ m.objs = {} /\ m.todo = Empty /\ m.hit = Nil /\ m.out = Empty
  BY DEF NoLoad
<1>3. count' \in 0..MaxCalls
  BY BulkAssumption DEF StartExport, Begins, ShapeInv, BulkTypes
<1>4. load' = [load EXCEPT ![q] = m] /\ rows' = rows /\ doc' = doc /\ torn' = torn
  BY DEF StartExport
<1> HIDE DEF m
<1>5. \A t \in Tabs : Range(Empty[t]) = {}
  BY DEF Empty, Range
<1>6. Session(rows, {}) /\ DocRows(rows, Empty) /\ LinesInv("export", Empty)
  BY <1>5, FS_EmptySet DEF Session, DocRows, LinesInv
<1>7. LoadInv(rows, m)
  BY <1>2, <1>6, BulkAssumption DEF LoadInv, OfSession, HitInv
<1>8. \A p \in Loads \ {q} : NewApart(m, load[p])
  BY <1>2 DEF NewApart
<1> QED BY <1>1, <1>3, <1>4, <1>7, <1>8, OneLoad DEF ShapeInv, BulkTypes

\* One SELECT: its rows, each once.
LEMMA SelectRows ==
  ASSUME BulkTypes, NEW w, NEW t, NEW s \in SetToSeqs(Of(w, t))
  PROVE  /\ s \in Seq(Row) /\ Range(s) = Of(w, t)
         /\ Len(s) = Cardinality(Of(w, t))
         /\ \A i, j \in DOMAIN s : i # j => s[i] # s[j]
<1> DEFINE S == Of(w, t)
           n == Cardinality(S)
<1>1. S \subseteq Row /\ IsFiniteSet(S) /\ n \in Nat
  BY FS_Subset, FS_CardinalityType DEF Of, BulkTypes
<1>2. s \in [1..n -> S] /\ \A i, j \in 1..n : i # j => s[i] # s[j]
  BY DEF SetToSeqs
<1> HIDE DEF S, n
<1>3. s \in Seq(S) /\ Len(s) = n /\ DOMAIN s = 1..n
  BY <1>1, <1>2
<1>4. s \in Seq(Row)
  BY <1>1, <1>3
<1>5. s \in Injection(1..n, S)
  BY <1>2 DEF Injection, IsInjective
<1>6. Cardinality(1..n) = n
  BY <1>1, FS_Interval
<1>7. s \in Surjection(1..n, S)
  BY <1>1, <1>5, <1>6, FS_Injection DEF n
<1>8. Range(s) = S
  BY <1>3, <1>7 DEF Surjection, Range
<1> QED BY <1>2, <1>3, <1>4, <1>8 DEF S, n

\* What is unread once t is: a table that is empty goes with the one before it.
Unread(left, t) ==
  {u \in left \ {t} : \E v \in left \ {t} : Of(Source, v) # {} /\ Exported[v] <= Exported[u]}

ReadAs(q, t, s, m) ==
  /\ load' = [load EXCEPT ![q] = m]
  /\ m.kind = "export" /\ load[q].kind = "export" /\ m.ws = load[q].ws /\ m.objs = load[q].objs
  /\ m.todo = load[q].todo /\ m.hit = load[q].hit /\ m.alone = load[q].alone
  /\ m.map = load[q].map /\ m.left = Unread(load[q].left, t)
  /\ \A u \in Tabs : m.out[u] = IF u = t THEN s ELSE load[q].out[u]

LEMMA ReadTableIs ==
  ASSUME ShapeInv, NEW q \in Loads, NEW t \in Tabs, ReadTable(q, t)
  PROVE  \E s \in SetToSeqs(Of(Source, t)), m \in Records : ReadAs(q, t, s, m)
<1> DEFINE l == load[q]
           left == Unread(l.left, t)
<1>1. l \in Records /\ l.kind = "export" /\ left \subseteq Tabs
  BY DEF ReadTable, ShapeInv, BulkTypes, Records, Unread
<1>2. PICK s \in SetToSeqs(Of(Source, t)) : load' = [load EXCEPT ![q].out[t] = s, ![q].left = left]
  BY DEF ReadTable, Unread
<1> DEFINE out == [l.out EXCEPT ![t] = s]
           m == [l EXCEPT !.out = out, !.left = left]
<1>3. s \in Seq(Row)
  BY SelectRows DEF ShapeInv
<1> HIDE DEF left
<1>4. out \in [Tabs -> Seq(Row)] /\ \A u \in Tabs : out[u] = IF u = t THEN s ELSE l.out[u]
  BY <1>1, <1>3 DEF Records
<1>5. load' = [load EXCEPT ![q] = m]
  BY <1>1, <1>2
<1> HIDE DEF out
<1>6. /\ m \in Records /\ m.kind = l.kind /\ m.ws = l.ws /\ m.objs = l.objs
      /\ m.todo = l.todo /\ m.hit = l.hit /\ m.out = out /\ m.left = left
      /\ m.alone = l.alone /\ m.map = l.map
  BY <1>1, <1>4 DEF Records
<1> HIDE DEF m
<1>7. ReadAs(q, t, s, m)
  BY <1>1, <1>4, <1>5, <1>6 DEF ReadAs, left
<1> QED BY <1>6, <1>7

LEMMA ReadTableShape ==
  ASSUME ShapeInv, NEW q \in Loads, NEW t \in Tabs, ReadTable(q, t)
  PROVE  ShapeInv' /\ Lasting(rows, rows')
<1>0. rows' = rows /\ doc' = doc /\ torn' = torn /\ count' = count
  BY DEF ReadTable
<1> DEFINE l == load[q]
<1>1. PICK s \in SetToSeqs(Of(Source, t)), m \in Records : ReadAs(q, t, s, m)
  BY ReadTableIs
<1>1a. /\ load' = [load EXCEPT ![q] = m]
       /\ m.kind = "export" /\ l.kind = "export" /\ m.ws = l.ws /\ m.objs = l.objs
       /\ m.todo = l.todo /\ m.hit = l.hit
       /\ \A u \in Tabs : m.out[u] = IF u = t THEN s ELSE l.out[u]
  BY <1>1 DEF ReadAs
<1>2. Range(s) = Of(Source, t)
  BY SelectRows DEF ShapeInv
<1>3. DocRows(rows, l.out) /\ LoadInv(rows, l)
  BY DEF ShapeInv, LoadInv
<1>4. DocRows(rows, m.out)
  BY <1>1a, <1>2, <1>3 DEF DocRows, Of, ShapeInv, RowsInv, Same
<1>5. LoadInv(rows, m)
  <2>1. l.hit = Nil
    BY <1>1a, <1>3 DEF LoadInv, HitInv
  <2> QED BY <2>1, <1>1a, <1>3, <1>4 DEF LoadInv, HitInv
<1>6. \A p \in Loads \ {q} : NewApart(m, load[p])
  BY <1>1a DEF ShapeInv, NewApart
<1> QED BY <1>0, <1>1a, <1>5, <1>6, OneLoad DEF ShapeInv, BulkTypes

LEMMA EndExportShape ==
  ASSUME ShapeInv, NEW q \in Loads, EndExport(q)
  PROVE  ShapeInv' /\ Lasting(rows, rows')
<1>1. DocRows(rows, load[q].out) /\ load[q].out \in [Tabs -> Seq(Row)] /\ load[q].alone \in BOOLEAN
  BY DEF ShapeInv, LoadInv, BulkTypes, Records
<1>2. /\ load' = [load EXCEPT ![q] = NoLoad] /\ rows' = rows /\ count' = count
      /\ doc' = load[q].out /\ torn' = (torn \/ ~load[q].alone)
  BY DEF EndExport
<1>3. torn' \in BOOLEAN
  BY <1>1, <1>2 DEF ShapeInv, BulkTypes
<1> QED BY <1>1, <1>2, <1>3, NoLoadInv, OneLoad DEF ShapeInv, BulkTypes

\* A step that changes the rows, and of the loads ends at most one.
LEMMA NotAloneIs ==
  ASSUME NEW l \in Records
  PROVE  LET m == NotAlone(l) IN
         /\ m \in Records /\ m.kind = l.kind /\ m.ws = l.ws /\ m.what = l.what /\ m.todo = l.todo
         /\ m.objs = l.objs /\ m.map = l.map /\ m.hit = l.hit /\ m.looked = l.looked
         /\ m.left = l.left /\ m.out = l.out /\ m.fresh = l.fresh /\ m.apart = l.apart
         /\ m.again = l.again /\ m.was = l.was
         /\ m.alone = (l.alone /\ l.kind = "idle")
<1> DEFINE x == l.alone /\ l.kind = "idle"
<1>1. x \in BOOLEAN
  OBVIOUS
<1> HIDE DEF x
<1>2. NotAlone(l) = [l EXCEPT !.alone = x]
  BY DEF NotAlone, x, Records
<1> QED BY <1>1, <1>2 DEF Records, x

LEMMA RowsChange ==
  ASSUME ShapeInv, BulkTypes', RowsInv', Lasting(rows, rows'), doc' = doc,
         \A p \in Loads : load'[p] = NoLoad \/ load'[p] = NotAlone(load[p]),
         \A p \in Loads : load'[p] # NoLoad =>
           \A o \in load[p].objs, s \in rows' : o.new => s.id # o.row.id
  PROVE  ShapeInv'
<1>1. ASSUME NEW p \in Loads PROVE LoadInv(rows', load'[p])
  <2>1. CASE load'[p] = NoLoad
    BY <2>1, NoLoadInv
  <2>2. CASE load'[p] # NoLoad
    <3>1. load'[p] = NotAlone(load[p]) /\ load[p] \in Records /\ LoadInv(rows, load[p])
      BY <2>2, <1>1 DEF ShapeInv, BulkTypes
    <3> QED BY <3>1, <2>2, NotAloneIs, LoadLasts
  <2> QED BY <2>1, <2>2
<1>2. ASSUME NEW p \in Loads PROVE load'[p].objs \subseteq load[p].objs
  BY <1>2, NotAloneIs DEF ShapeInv, BulkTypes, NoLoad
<1>3. \A p, q \in Loads : p # q => NewApart(load'[p], load'[q])
  BY <1>2 DEF ShapeInv, NewApart
<1>4. DocRows(rows', doc')
  BY DocLasts DEF ShapeInv
<1> QED BY <1>1, <1>3, <1>4 DEF ShapeInv

LEMMA CommitShape ==
  ASSUME ShapeInv, NEW q \in Loads, Commit(q)
  PROVE  ShapeInv' /\ Lasting(rows, rows')
<1>1. CASE load' = [load EXCEPT ![q] = NoLoad] /\ rows' = rows
  BY <1>1, DropLoadShape DEF Commit
<1>2. CASE rows' = View(Flushed(load[q].objs)) /\ load' = Overlapped(q) /\ ~Breaks(load[q].objs)
  <2> DEFINE objs == load[q].objs
             fl == Flushed(objs)
  <2>0. BulkTypes /\ RowsInv /\ Session(rows, objs)
    BY DEF ShapeInv, LoadInv, OfSession
  <2>1. /\ Session(rows, fl) /\ \A o \in fl : o.flushed
        /\ \A p \in fl : \E o \in objs : p.row = o.row /\ p.new = o.new
    BY <2>0, SessionFlushed
  <2> HIDE DEF fl
  <2>2. /\ View(fl) \subseteq Row /\ IsFiniteSet(View(fl))
        /\ \A r, s \in View(fl) : r.id = s.id => r = s
        /\ \A s \in View(fl) : Full(s)
        /\ \A r \in rows : \E s \in View(fl) : Same(r, s)
        /\ \A s \in View(fl) : (s \in rows /\ s.id \notin IdsOf(fl)) \/ \E o \in fl : Same(o.row, s)
    BY <2>0, <2>1, ViewRows
  <2>3. rows' = View(fl) /\ \A r, s \in View(fl) : ~Clash(r, s)
    BY <1>2 DEF Breaks, fl
  <2>4. Lasting(rows, rows') /\ RowsInv'
    BY <2>2, <2>3 DEF Lasting, RowsInv
  <2>5. doc' = doc /\ torn' = torn /\ count' = count
    BY DEF Commit
  <2>6. \A p \in Loads : load'[p] = IF p = q THEN NoLoad ELSE NotAlone(load[p])
    BY <1>2 DEF Overlapped
  <2>7. load' \in [Loads -> Records]
    <3>1. load' = [p \in Loads |-> IF p = q THEN NoLoad ELSE NotAlone(load[p])]
      BY <1>2 DEF Overlapped
    <3>2. \A p \in Loads : load'[p] \in Records
      BY <2>0, <2>6, NotAloneIs, NoLoadType DEF BulkTypes
    <3> QED BY <3>1, <3>2
  <2>8. BulkTypes'
    BY <2>0, <2>2, <2>3, <2>5, <2>7 DEF BulkTypes
  <2>9. ASSUME NEW p \in Loads, p # q, NEW o \in load[p].objs, NEW s \in rows', o.new
        PROVE  s.id # o.row.id
    <3>1. \A r \in rows : r.id # o.row.id
      BY <2>9 DEF ShapeInv, LoadInv, OfSession, Session, Added1
    <3>2. \A h \in objs : h.row.id # o.row.id
      <4> SUFFICES ASSUME NEW h \in objs PROVE h.row.id # o.row.id
        OBVIOUS
      <4>1. CASE h.new
        BY <2>9, <4>1 DEF ShapeInv, NewApart
      <4>2. CASE ~h.new
        BY <4>2, <2>0, <3>1 DEF Session, Loaded1, Same
      <4> QED BY <4>1, <4>2
    <3> QED BY <2>1, <2>2, <2>3, <3>1, <3>2 DEF Same
  <2>10. \A p \in Loads : load'[p] # NoLoad =>
           \A o \in load[p].objs, s \in rows' : o.new => s.id # o.row.id
    BY <2>6, <2>9
  <2> QED BY <2>4, <2>5, <2>6, <2>8, <2>10, RowsChange
<1> QED BY <1>1, <1>2 DEF Commit

LEMMA InsertShape ==
  ASSUME ShapeInv, NEW r \in Row, r.id = NewId, Full(r), Insert(r)
  PROVE  ShapeInv' /\ Lasting(rows, rows')
<1>1. /\ FreshIds # {} /\ rows' = rows \cup {r} /\ doc' = doc /\ torn' = torn
      /\ load' = [q \in Loads |-> NotAlone(load[q])]
      /\ \A s \in rows : ~Clash(r, s)
  BY DEF Insert
<1>2. count' \in 0..MaxCalls
  BY BulkAssumption DEF Insert, Begins, ShapeInv, BulkTypes
<1>3. /\ \A s \in rows : s.id # r.id
      /\ \A q \in Loads : \A o \in load[q].objs : o.row.id # r.id
  BY <1>1, NewIdUnused
<1>4. \A s \in rows : ~Clash(s, r)
  BY <1>1 DEF Clash
<1>5. RowsInv'
  <2>1. ~Clash(r, r)
    BY DEF Clash
  <2> QED BY <1>1, <1>3, <1>4, <2>1 DEF ShapeInv, RowsInv
<1>6. load' \in [Loads -> Records]
  <2>1. \A q \in Loads : NotAlone(load[q]) \in Records
    BY NotAloneIs DEF ShapeInv, BulkTypes
  <2> QED BY <1>1, <2>1
<1>7. IsFiniteSet(rows') /\ rows' \subseteq Row
  BY <1>1, FS_AddElement DEF ShapeInv, BulkTypes
<1>8. BulkTypes'
  BY <1>1, <1>2, <1>6, <1>7 DEF ShapeInv, BulkTypes
<1>9. Lasting(rows, rows')
  BY <1>1 DEF Lasting, Same
<1>10. \A p \in Loads : \A o \in load[p].objs, s \in rows' : o.new => s.id # o.row.id
  BY <1>1, <1>3 DEF ShapeInv, LoadInv, OfSession, Session, Added1
<1> QED BY <1>1, <1>5, <1>8, <1>9, <1>10, RowsChange

LEMMA CreateShape ==
  ASSUME ShapeInv, NEW w \in Workspaces,
         (\E k \in Keys : CreateContact(w, k))
           \/ \E s, t \in Of(w, "contact") : CreateRelationship(s, t)
  PROVE  ShapeInv' /\ Lasting(rows, rows')
<1>1. ASSUME NEW k \in Keys, CreateContact(w, k) PROVE ShapeInv' /\ Lasting(rows, rows')
  <2> DEFINE r == [id |-> NewId, ws |-> w, tab |-> "contact", ext |-> Nil, alt |-> k, val |-> Nil,
                   up |-> Nil, a |-> Nil, b |-> Nil, rest |-> Nil]
  <2>1. Insert(r)
    BY <1>1 DEF CreateContact
  <2>2. r \in Row
    BY <2>1, NewIdUnused DEF Insert, Row, Tabs, Sections
  <2>3. Full(r) /\ r.id = NewId
    BY DEF Full, Required
  <2> HIDE DEF r
  <2> QED BY <2>1, <2>2, <2>3, InsertShape
<1>2. ASSUME NEW s \in Of(w, "contact"), NEW t \in Of(w, "contact"), CreateRelationship(s, t)
      PROVE ShapeInv' /\ Lasting(rows, rows')
  <2> DEFINE r == [id |-> NewId, ws |-> s.ws, tab |-> "edge", ext |-> Nil, alt |-> Nil, val |-> Nil,
                   up |-> Nil, a |-> s.id, b |-> t.id, rest |-> Nil]
  <2>0. s \in Row /\ t \in Row
    BY DEF Of, ShapeInv, BulkTypes
  <2>1. Insert(r)
    BY <1>2 DEF CreateRelationship
  <2>2. r \in Row
    BY <2>0, <2>1, NewIdUnused DEF Insert, Row, Tabs, Sections
  <2>3. Full(r) /\ r.id = NewId
    BY <2>0, BulkAssumption DEF Full, Required, Row
  <2> HIDE DEF r
  <2> QED BY <2>1, <2>2, <2>3, InsertShape
<1> QED BY <1>1, <1>2

LEMMA ShapeStep ==
  ASSUME ShapeInv, [BulkNext]_bulkVars
  PROVE  ShapeInv' /\ Lasting(rows, rows')
<1>1. CASE UNCHANGED bulkVars
  <2>1. rows' = rows /\ doc' = doc /\ torn' = torn /\ load' = load /\ count' = count
    BY <1>1 DEF bulkVars
  <2>2. ShapeInv'
    BY <2>1 DEF ShapeInv, BulkTypes, RowsInv
  <2> QED BY <2>1, <2>2, LastingRefl
<1>2. ASSUME NEW q \in Loads, Requests(q)
      PROVE  ShapeInv' /\ Lasting(rows, rows')
  BY <1>2, StartExportShape, StartImportShape, StartPayloadShape, StartTextShape DEF Requests
<1>3. ASSUME NEW q \in Loads, NEW t \in Tabs,
             Look(q, t) \/ RowError(q, t) \/ Apply(q, t) \/ ReadTable(q, t)
      PROVE  ShapeInv' /\ Lasting(rows, rows')
  BY <1>3, LookShape, RowErrorShape, ApplyShape, ReadTableShape
<1>4. ASSUME NEW q \in Loads, Commit(q) \/ DropLoad(q) \/ EndExport(q)
      PROVE  ShapeInv' /\ Lasting(rows, rows')
  <2>1. CASE DropLoad(q)
    BY <2>1, DropLoadShape DEF DropLoad
  <2> QED BY <1>4, <2>1, CommitShape, EndExportShape
<1>5. ASSUME NEW w \in Workspaces,
             (\E k \in Keys : CreateContact(w, k))
               \/ \E s, t \in Of(w, "contact") : CreateRelationship(s, t)
      PROVE  ShapeInv' /\ Lasting(rows, rows')
  BY <1>5, CreateShape
<1> QED BY <1>1, <1>2, <1>3, <1>4, <1>5 DEF BulkNext

\* Whatever is loaded, exported and created meanwhile, rows keep their ids, their
\* constraints and their required columns, and a session's objects stand for its own.
THEOREM BulkShape == BulkSpec => []ShapeInv
<1>1. ShapeInv /\ [BulkNext]_bulkVars => ShapeInv'
  BY ShapeStep
<1> QED BY InitShape, <1>1, PTL DEF BulkSpec

THEOREM BulkTypeCorrect == BulkSpec => []BulkTypeOK
<1>1. ShapeInv => BulkTypeOK
  <2> SUFFICES ASSUME ShapeInv PROVE BulkTypeOK
    OBVIOUS
  <2>1. \A o \in Held : o.row \in Row
    BY DEF Held, ShapeInv, LoadInv, OfSession, Session, Objects
  <2> QED BY <2>1 DEF ShapeInv, BulkTypes, RowsInv, BulkTypeOK
<1> QED BY <1>1, BulkShape, PTL

-----------------------------------------------------------------------------
(***************************************************************************)
(* Where references lead.  A row refers to rows that are there; those of   *)
(* the tables that enter the id map belong to an earlier section, and, as  *)
(* long as no export was torn, to the row's own workspace.  The rows of a  *)
(* document still to come refer to what the id map knows already or to     *)
(* rows of the same document in an earlier section; so that the section at *)
(* hand finds every such reference in the map.                             *)
(***************************************************************************)
Leads(R, i, t, w, inside) ==
  i # Nil => \E s \in R :
    /\ s.id = i
    /\ s.tab \in Mapped => Sections[s.tab] < Sections[t] /\ (inside => s.ws = w)

Foreseen(R, r, todo, known, inside) ==
  \A c \in Refs : r[c] # Nil => \E s \in R :
    /\ s.id = r[c]
    /\ s.tab \in Mapped =>
         /\ Sections[s.tab] < Sections[r.tab]
         /\ inside => r[c] \in known \/ \E d \in Range(todo[s.tab]) : d.id = r[c]

RowsOf(objs) == {o.row : o \in objs}

DocLinks(R, d, inside) ==
  \A t \in Tabs : \A r \in Range(d[t]) : Foreseen(R, r, d, {}, inside)

ImportLinks(R, l, inside) ==
  /\ \A t \in Tabs : \A r \in Range(l.todo[t]) :
       /\ \E s \in R : s.id = r.id /\ s.tab = t
       /\ Foreseen(R, r, l.todo, DOMAIN l.map, inside)
  /\ \A i \in DOMAIN l.map : \E s \in R, o \in l.objs :
       s.id = i /\ s.tab \in Mapped /\ o.row.id = l.map[i] /\ o.row.tab = s.tab

LineLinks(R, l) ==
  \A t \in Tabs : \A r \in Range(l.todo[t]) :
    /\ r.up = Nil /\ r.b = Nil
    /\ r.a # Nil => r.tab = "note" /\ \E s \in R : s.id = r.a /\ s.tab = "contact" /\ s.ws = l.ws

ExportLinks(R, l, inside) ==
  /\ \A t \in Tabs : \A r \in Range(l.out[t]) : Linked(R, r, inside)
  /\ \A t \in l.left : l.out[t] = <<>>
  /\ l.alone => \A t \in Tabs \ l.left : Range(l.out[t]) = {r \in R : r.ws = Source /\ r.tab = t}

LoadLinks(R, l, inside) ==
  /\ \A o \in l.objs : Linked(R \cup RowsOf(l.objs), o.row, inside)
  /\ l.kind = "import" => ImportLinks(R, l, inside)
  /\ l.kind \in {"ingest", "upsert"} => LineLinks(R, l)
  /\ l.kind = "export" => ExportLinks(R, l, inside)

LinkInv ==
  /\ \A r \in rows : Linked(rows, r, ~torn)
  /\ DocLinks(rows, doc, ~torn)
  /\ \A q \in Loads : LoadLinks(rows, load[q], ~torn)

LEMMA LinkedIs ==
  ASSUME NEW R, NEW r, NEW inside
  PROVE  Linked(R, r, inside) <=> \A c \in Refs : Leads(R, r[c], r.tab, r.ws, inside)
BY DEF Linked, Leads

LEMMA LeadsLasts ==
  ASSUME NEW R, NEW S, Lasting(R, S), NEW i, NEW t, NEW w, NEW x, NEW y, y => x,
         Leads(R, i, t, w, x)
  PROVE  Leads(S, i, t, w, y)
BY DEF Leads, Lasting, Same

LEMMA LinkedLasts ==
  ASSUME NEW R, NEW S, Lasting(R, S), NEW r, NEW x, NEW y, y => x, Linked(R, r, x)
  PROVE  Linked(S, r, y)
<1>1. \A c \in Refs : Leads(R, r[c], r.tab, r.ws, x)
  BY LinkedIs
<1>2. \A c \in Refs : Leads(S, r[c], r.tab, r.ws, y)
  BY <1>1, LeadsLasts
<1> QED BY <1>2, LinkedIs

LEMMA ForeseenLasts ==
  ASSUME NEW R, NEW S, Lasting(R, S), NEW r, NEW todo, NEW known, NEW x, NEW y, y => x,
         Foreseen(R, r, todo, known, x)
  PROVE  Foreseen(S, r, todo, known, y)
<1> SUFFICES ASSUME NEW c \in Refs, r[c] # Nil
             PROVE  \E s \in S :
                      /\ s.id = r[c]
                      /\ s.tab \in Mapped =>
                           /\ Sections[s.tab] < Sections[r.tab]
                           /\ y => r[c] \in known \/ \E d \in Range(todo[s.tab]) : d.id = r[c]
  BY DEF Foreseen
<1>1. PICK u \in R :
        /\ u.id = r[c]
        /\ u.tab \in Mapped =>
             /\ Sections[u.tab] < Sections[r.tab]
             /\ x => r[c] \in known \/ \E d \in Range(todo[u.tab]) : d.id = r[c]
  BY DEF Foreseen
<1>2. PICK s \in S : Same(u, s)
  BY DEF Lasting
<1>3. s.id = r[c] /\ s.tab = u.tab
  BY <1>1, <1>2 DEF Same
<1> QED BY <1>1, <1>3

LEMMA DocLinksLast ==
  ASSUME NEW R, NEW S, Lasting(R, S), NEW d, NEW x, NEW y, y => x, DocLinks(R, d, x)
  PROVE  DocLinks(S, d, y)
BY ForeseenLasts DEF DocLinks

LEMMA LoadLinksLast ==
  ASSUME NEW R, NEW S, NEW l, NEW m, NEW x, NEW y, y => x, Lasting(R, S), LoadLinks(R, l, x),
         m.kind = l.kind, m.ws = l.ws, m.objs = l.objs, m.todo = l.todo, m.map = l.map,
         m.out = l.out, m.left = l.left, m.alone => l.alone,
         m.kind = "export" => S = R \/ ~m.alone
  PROVE  LoadLinks(S, m, y)
<1>1. \A o \in m.objs : Linked(S \cup RowsOf(m.objs), o.row, y)
  <2> DEFINE RR == R \cup RowsOf(m.objs)
             SS == S \cup RowsOf(m.objs)
  <2>1. Lasting(RR, SS)
    BY DEF Lasting, Same
  <2>2. \A o \in m.objs : Linked(RR, o.row, x)
    BY DEF LoadLinks
  <2> HIDE DEF RR, SS
  <2>3. \A o \in m.objs : Linked(SS, o.row, y)
    BY <2>1, <2>2, LinkedLasts
  <2> QED BY <2>3 DEF SS
<1>2. m.kind = "import" => ImportLinks(S, m, y)
  <2> SUFFICES ASSUME m.kind = "import" PROVE ImportLinks(S, m, y)
    OBVIOUS
  <2>1. ImportLinks(R, l, x)
    BY DEF LoadLinks
  <2>2. \A t \in Tabs : \A r \in Range(m.todo[t]) : Foreseen(S, r, m.todo, DOMAIN m.map, y)
    <3>1. \A t \in Tabs : \A r \in Range(m.todo[t]) : Foreseen(R, r, m.todo, DOMAIN m.map, x)
      BY <2>1 DEF ImportLinks
    <3> QED BY <3>1, ForeseenLasts
  <2>3. \A t \in Tabs : \A r \in Range(m.todo[t]) : \E s \in S : s.id = r.id /\ s.tab = t
    BY <2>1 DEF ImportLinks, Lasting, Same
  <2>4. ASSUME NEW i \in DOMAIN m.map
        PROVE  \E s \in S, o \in m.objs :
                 s.id = i /\ s.tab \in Mapped /\ o.row.id = m.map[i] /\ o.row.tab = s.tab
    <3>1. PICK r \in R, o \in m.objs :
            r.id = i /\ r.tab \in Mapped /\ o.row.id = m.map[i] /\ o.row.tab = r.tab
      BY <2>1, <2>4 DEF ImportLinks
    <3>2. PICK s \in S : Same(r, s)
      BY DEF Lasting
    <3> QED BY <3>1, <3>2 DEF Same
  <2> QED BY <2>2, <2>3, <2>4 DEF ImportLinks
<1>3. m.kind \in {"ingest", "upsert"} => LineLinks(S, m)
  <2> SUFFICES ASSUME m.kind \in {"ingest", "upsert"} PROVE LineLinks(S, m)
    OBVIOUS
  <2>1. LineLinks(R, m)
    BY DEF LoadLinks, LineLinks
  <2>2. \A s \in R : \E u \in S : Same(s, u)
    BY DEF Lasting
  <2> QED BY <2>1, <2>2 DEF LineLinks, Same
<1>4. m.kind = "export" => ExportLinks(S, m, y)
  <2> SUFFICES ASSUME m.kind = "export" PROVE ExportLinks(S, m, y)
    OBVIOUS
  <2>1. ExportLinks(R, l, x)
    BY DEF LoadLinks
  <2>2. \A t \in Tabs : \A r \in Range(m.out[t]) : Linked(S, r, y)
    BY <2>1, LinkedLasts DEF ExportLinks
  <2> QED BY <2>1, <2>2 DEF ExportLinks
<1> QED BY <1>1, <1>2, <1>3, <1>4 DEF LoadLinks

LEMMA OneLoadLinks ==
  ASSUME ShapeInv, LinkInv, NEW q \in Loads, NEW l, load' = [load EXCEPT ![q] = l], rows' = rows,
         torn => torn', LoadLinks(rows, l, ~torn'), DocLinks(rows, doc', ~torn')
  PROVE  LinkInv'
<1>1. \A r \in rows : Linked(rows, r, ~torn')
  BY LastingRefl, LinkedLasts DEF LinkInv
<1>2. ASSUME NEW p \in Loads, p # q PROVE LoadLinks(rows, load[p], ~torn')
  <2>1. LoadLinks(rows, load[p], ~torn) /\ Lasting(rows, rows) /\ (~torn' => ~torn)
    BY <1>2, LastingRefl DEF LinkInv
  <2> QED BY <2>1, LoadLinksLast
<1>3. \A p \in Loads : LoadLinks(rows', load'[p], ~torn')
  BY <1>2 DEF ShapeInv, BulkTypes
<1> QED BY <1>1, <1>3 DEF LinkInv

LEMMA NoLoadLinks ==
  ASSUME NEW R, NEW x
  PROVE  LoadLinks(R, NoLoad, x)
BY DEF NoLoad, LoadLinks

LEMMA InitLinks == BulkInit => LinkInv
<1> SUFFICES ASSUME BulkInit PROVE LinkInv
  OBVIOUS
<1>1. \A r \in rows : Linked(rows, r, ~torn)
  BY BulkAssumption DEF BulkInit
<1>2. DocLinks(rows, doc, ~torn)
  BY DEF BulkInit, DocLinks, Empty, Range
<1>3. \A q \in Loads : LoadLinks(rows, load[q], ~torn)
  BY NoLoadLinks DEF BulkInit
<1> QED BY <1>1, <1>2, <1>3 DEF LinkInv

LEMMA StartLinks ==
  ASSUME ShapeInv, LinkInv, NEW q \in Loads, NEW kind \in {"import", "ingest", "upsert"},
         NEW w \in Workspaces, NEW what \in Documents, Start(q, kind, w, what),
         kind = "import" => DocLinks(rows, what, ~torn) /\ DocRows(rows, what),
         kind # "import" => LineLinks(rows, [ws |-> w, todo |-> what])
  PROVE  LinkInv'
<1> DEFINE l == load'[q]
<1>1. /\ load' = [load EXCEPT ![q] = l]
      /\ l.kind = kind /\ l.ws = w /\ l.todo = what /\ l.objs = {} /\ l.map = <<>>
  BY DEF Start, ShapeInv, BulkTypes, NoLoad
<1>2. rows' = rows /\ doc' = doc /\ torn' = torn
  BY DEF Start
<1> HIDE DEF l
<1>3. kind = "import" => ImportLinks(rows, l, ~torn)
  <2> SUFFICES ASSUME kind = "import" PROVE ImportLinks(rows, l, ~torn)
    OBVIOUS
  <2>1. DOMAIN l.map = {}
    BY <1>1
  <2>2. \A t \in Tabs : \A r \in Range(l.todo[t]) : \E s \in rows : s.id = r.id /\ s.tab = t
    BY <1>1 DEF DocRows, Same
  <2> QED BY <1>1, <2>1, <2>2 DEF ImportLinks, DocLinks
<1>4. kind # "import" => LineLinks(rows, l)
  BY <1>1 DEF LineLinks
<1>5. LoadLinks(rows, l, ~torn)
  BY <1>1, <1>3, <1>4 DEF LoadLinks
<1> QED BY <1>1, <1>2, <1>5, OneLoadLinks DEF LinkInv

LEMMA StartsLinks ==
  ASSUME ShapeInv, LinkInv, NEW q \in Loads, NEW w \in Workspaces,
         \/ StartImport(q, w)
         \/ \E what \in Payloads : StartIngest(q, w, what) \/ StartUpsert(q, w, what)
         \/ \E c \in Of(w, "contact"), v \in Values : StartText(q, c, v)
  PROVE  LinkInv'
<1>1. CASE StartImport(q, w)
  <2>1. doc \in Documents /\ DocLinks(rows, doc, ~torn) /\ DocRows(rows, doc)
    BY DEF ShapeInv, BulkTypes, Documents, Lines, LinkInv
  <2> QED BY <1>1, <2>1, StartLinks DEF StartImport
<1>2. ASSUME NEW what \in Payloads, StartIngest(q, w, what) \/ StartUpsert(q, w, what)
      PROVE  LinkInv'
  <2>1. what \in [Tabs -> Seq(Item)]
    BY BulkAssumption
  <2>2. what \in Documents
    BY <2>1 DEF Documents, Lines
  <2>3. \A t \in Tabs : \A r \in Range(what[t]) : r \in Item
    BY <2>1 DEF Range
  <2>4. LineLinks(rows, [ws |-> w, todo |-> what])
    BY <2>3 DEF LineLinks, Item
  <2> QED BY <1>2, <2>2, <2>4, StartLinks DEF StartIngest, StartUpsert
<1>3. ASSUME NEW c \in Of(w, "contact"), NEW v \in Values, StartText(q, c, v)
      PROVE  LinkInv'
  <2> DEFINE n == TextNote(c, v)
             what == [Empty EXCEPT !["note"] = <<n>>]
  <2>1. /\ n \in Text /\ c.ws = w /\ c \in rows /\ c.tab = "contact"
        /\ n.a = c.id /\ n.up = Nil /\ n.b = Nil /\ n.tab = "note"
    BY DEF Text, TextNote, Of, ShapeInv, BulkTypes, Row
  <2>2. Start(q, "ingest", w, what)
    BY <1>3, <2>1 DEF StartText
  <2> HIDE DEF n
  <2>3. what \in Documents
    <3>1. <<n>> \in Seq(Lines)
      BY <2>1 DEF Lines
    <3> QED BY <3>1, EmptyType DEF Documents
  <2>4. \A t \in Tabs : Range(what[t]) = IF t = "note" THEN {n} ELSE {}
    <3>1. Range(<<n>>) = {n} /\ Range(<<>>) = {}
      BY DEF Range
    <3>2. \A t \in Tabs : what[t] = IF t = "note" THEN <<n>> ELSE <<>>
      BY DEF Empty
    <3> QED BY <3>1, <3>2
  <2> HIDE DEF what
  <2>5. LineLinks(rows, [ws |-> w, todo |-> what])
    BY <2>1, <2>4 DEF LineLinks
  <2> QED BY <2>2, <2>3, <2>5, StartLinks
<1> QED BY <1>1, <1>2, <1>3

LEMMA LookLinks ==
  ASSUME ShapeInv, LinkInv, NEW q \in Loads, NEW t \in Tabs, Look(q, t)
  PROVE  LinkInv'
<1> DEFINE l == load[q]
<1>0. /\ l \in Records /\ LoadLinks(rows, l, ~torn) /\ AtHand(q, t)
      /\ l.kind \in {"import", "ingest", "upsert"}
      /\ rows' = rows /\ doc' = doc /\ torn' = torn
      /\ DocLinks(rows, doc, ~torn)
  BY CurrentLine DEF ShapeInv, BulkTypes, Look, LinkInv
<1>1. CASE load' = [load EXCEPT ![q] = [l EXCEPT !.looked = TRUE, !.hit = Nil]]
  <2> DEFINE m == [l EXCEPT !.looked = TRUE, !.hit = Nil]
  <2>1. /\ m.kind = l.kind /\ m.ws = l.ws /\ m.objs = l.objs /\ m.todo = l.todo
        /\ m.out = l.out /\ m.map = l.map
    BY <1>0 DEF Records
  <2>2. load' = [load EXCEPT ![q] = m]
    BY <1>1
  <2> HIDE DEF m
  <2>3. LoadLinks(rows, m, ~torn)
    <3>1. ImportLinks(rows, l, ~torn) => ImportLinks(rows, m, ~torn)
      BY <2>1 DEF ImportLinks
    <3>2. LineLinks(rows, l) => LineLinks(rows, m)
      BY <2>1 DEF LineLinks
    <3> QED BY <1>0, <2>1, <3>1, <3>2 DEF LoadLinks
  <2> QED BY <1>0, <2>2, <2>3, OneLoadLinks
<1>2. ASSUME NEW s \in Found(q, t), NEW x \in BOOLEAN,
             load' = [load EXCEPT ![q] = [l EXCEPT !.looked = TRUE, !.hit = s.id, !.apart = x,
                                                   !.objs = Taken(l.objs, s)]]
      PROVE  LinkInv'
  <2> DEFINE objs == Taken(l.objs, s)
             m == [l EXCEPT !.looked = TRUE, !.hit = s.id, !.apart = x, !.objs = objs]
  <2>0. s \in Seen(q, t)
    BY <1>0, FoundSeen
  <2>1. /\ m.kind = l.kind /\ m.ws = l.ws /\ m.objs = objs /\ m.todo = l.todo
        /\ m.out = l.out /\ m.map = l.map
    BY <1>0 DEF Records
  <2>2. load' = [load EXCEPT ![q] = m]
    BY <1>2
  <2>3. \/ objs = l.objs
        \/ s \in rows /\ \E n : n.row = s /\ objs = l.objs \cup {n}
    <3>1. CASE s.id \in IdsOf(l.objs)
      BY <3>1 DEF Taken
    <3>2. CASE s.id \notin IdsOf(l.objs)
      <4>1. s \in rows
        BY <2>0, <3>2, SeenRows DEF IdsOf, Same
      <4>2. objs = l.objs \cup {Object(s, s, s, FALSE, FALSE)} /\ Object(s, s, s, FALSE, FALSE).row = s
        BY <3>2 DEF Taken, Object
      <4> QED BY <4>1, <4>2
    <3> QED BY <3>1, <3>2
  <2> HIDE DEF objs, m
  <2>4. l.objs \subseteq objs
    BY <2>3
  <2>5. \A o \in objs : Linked(rows \cup RowsOf(objs), o.row, ~torn)
    <3> DEFINE RR == rows \cup RowsOf(l.objs)
               SS == rows \cup RowsOf(objs)
    <3>1. Lasting(RR, SS) /\ Lasting(rows, SS)
      BY <2>4 DEF Lasting, Same, RowsOf
    <3>2. (\A o \in l.objs : Linked(RR, o.row, ~torn)) /\ \A r \in rows : Linked(rows, r, ~torn)
      BY <1>0 DEF LoadLinks, LinkInv
    <3> HIDE DEF RR, SS
    <3>3. (\A o \in l.objs : Linked(SS, o.row, ~torn)) /\ \A r \in rows : Linked(SS, r, ~torn)
      BY <3>1, <3>2, LinkedLasts
    <3>4. \A o \in objs : o \in l.objs \/ o.row \in rows
      BY <2>3
    <3> QED BY <3>3, <3>4 DEF SS
  <2>6. LoadLinks(rows, m, ~torn)
    BY <1>0, <2>1, <2>4, <2>5 DEF LoadLinks, ImportLinks, LineLinks
  <2> QED BY <1>0, <2>2, <2>6, OneLoadLinks
<1> QED BY <1>1, <1>2, LookIs

LEMMA RowErrorLinks ==
  ASSUME ShapeInv, LinkInv, NEW q \in Loads, NEW t \in Tabs, RowError(q, t)
  PROVE  LinkInv'
<1> DEFINE l == load[q]
           todo == [l.todo EXCEPT ![t] = Tail(@)]
           m == [l EXCEPT !.todo = todo]
<1>0. /\ l \in Records /\ LoadLinks(rows, l, ~torn) /\ load \in [Loads -> Records]
      /\ rows' = rows /\ doc' = doc /\ torn' = torn /\ DocLinks(rows, doc, ~torn)
      /\ load' = [load EXCEPT ![q].todo[t] = Tail(@)] /\ AtHand(q, t)
  BY DEF ShapeInv, BulkTypes, RowError, LinkInv
<1>1. l.kind \in {"ingest", "upsert"}
  <2>1. l.kind \in {"import", "ingest", "upsert"}
    BY <1>0, CurrentLine
  <2>2. ~Lands(l.kind, Current(q, t))
    BY DEF RowError
  <2> QED BY <2>1, <2>2 DEF Lands
<1>2. load' = [load EXCEPT ![q] = m]
  BY <1>0
<1>3. \A u \in Tabs : Range(todo[u]) \subseteq Range(l.todo[u])
  <2>1. Range(Tail(l.todo[t])) \subseteq Range(l.todo[t])
    BY <1>0, CurrentLine
  <2>2. \A u \in Tabs : todo[u] = IF u = t THEN Tail(l.todo[t]) ELSE l.todo[u]
    BY <1>0 DEF Records, Documents
  <2> QED BY <2>1, <2>2
<1>4. m.kind = l.kind /\ m.ws = l.ws /\ m.objs = l.objs /\ m.todo = todo
  BY <1>0 DEF Records
<1> HIDE DEF m, todo
<1>5. LineLinks(rows, m)
  BY <1>0, <1>1, <1>3, <1>4 DEF LoadLinks, LineLinks
<1>6. LoadLinks(rows, m, ~torn)
  BY <1>0, <1>1, <1>4, <1>5 DEF LoadLinks
<1> QED BY <1>0, <1>2, <1>6, OneLoadLinks

\* Every reference of the row at hand leads to a row or to an object of the session.
LEMMA CurrentLeads ==
  ASSUME ShapeInv, LinkInv, NEW q \in Loads, NEW t \in Tabs, AtHand(q, t)
  PROVE  \A c \in Refs :
           Leads(rows \cup RowsOf(load[q].objs), Current(q, t)[c], t, load[q].ws, ~torn)
<1> DEFINE l == load[q]
           h == Head(l.todo[t])
           R == rows \cup RowsOf(l.objs)
<1>0. /\ l \in Records /\ LoadLinks(rows, l, ~torn) /\ OfSession(rows, l.objs, l.ws)
  BY DEF ShapeInv, BulkTypes, LoadInv, LinkInv
<1>1. /\ l.kind \in {"import", "ingest", "upsert"} /\ Hand(l.todo, t) /\ h \in Range(l.todo[t])
      /\ LinesInv(l.kind, l.todo)
      /\ l.kind = "import" => h \in Row
  BY CurrentLine DEF ShapeInv, LoadInv
<1>2. h.tab = t
  BY <1>1 DEF LinesInv
<1> SUFFICES ASSUME NEW c \in Refs, Current(q, t)[c] # Nil
             PROVE  Leads(R, Current(q, t)[c], t, l.ws, ~torn)
  BY DEF Leads
<1>3. CASE l.kind # "import"
  <2>1. Current(q, t) = h /\ LineLinks(rows, l)
    BY <1>0, <1>1, <1>3 DEF Current, LoadLinks
  <2>2. c = "a" /\ h.a # Nil
    BY <1>1, <2>1 DEF LineLinks, Refs
  <2>3. PICK s \in rows : t = "note" /\ s.id = h.a /\ s.tab = "contact" /\ s.ws = l.ws
    BY <1>1, <1>2, <2>1, <2>2 DEF LineLinks
  <2>4. Sections["contact"] < Sections["note"]
    BY DEF Sections
  <2> QED BY <2>1, <2>2, <2>3, <2>4 DEF Leads
<1>4. CASE l.kind = "import"
  <2>1. ImportLinks(rows, l, ~torn) /\ l.map \in Maps /\ h \in Row
    BY <1>0, <1>1, <1>4 DEF LoadLinks, Records
  <2>2. Current(q, t)[c] = IF h[c] \in DOMAIN l.map THEN l.map[h[c]] ELSE h[c]
    BY <1>4, <2>1, TranslatedRow DEF Current
  <2>3. h[c] # Nil
    BY <2>1, <2>2, BulkAssumption DEF Maps
  <2>4. Foreseen(rows, h, l.todo, DOMAIN l.map, ~torn)
    BY <1>1, <2>1 DEF ImportLinks
  <2>5. PICK s \in rows :
          /\ s.id = h[c]
          /\ s.tab \in Mapped =>
               /\ Sections[s.tab] < Sections[t]
               /\ ~torn => h[c] \in DOMAIN l.map \/ \E d \in Range(l.todo[s.tab]) : d.id = h[c]
    BY <1>2, <2>3, <2>4 DEF Foreseen
  <2>6. CASE h[c] \in DOMAIN l.map
    <3>1. PICK u \in rows, o \in l.objs :
            u.id = h[c] /\ u.tab \in Mapped /\ o.row.id = l.map[h[c]] /\ o.row.tab = u.tab
      BY <2>1, <2>6 DEF ImportLinks
    <3>2. u = s
      BY <2>5, <3>1 DEF ShapeInv, RowsInv
    <3>3. o.row \in R /\ o.row.ws = l.ws
      BY <1>0 DEF RowsOf, OfSession
    <3> QED BY <2>2, <2>5, <2>6, <3>1, <3>2, <3>3 DEF Leads
  <2>7. CASE h[c] \notin DOMAIN l.map
    <3>1. s.tab \in Mapped /\ ~torn => FALSE
      <4> SUFFICES ASSUME s.tab \in Mapped, ~torn PROVE FALSE
        OBVIOUS
      <4>1. s.tab \in Tabs
        BY DEF ShapeInv, BulkTypes, Row
      <4>2. l.todo[s.tab] = <<>>
        BY <1>1, <2>5, <4>1 DEF Hand
      <4>3. Range(l.todo[s.tab]) = {}
        BY <4>2 DEF Range
      <4> QED BY <2>5, <2>7, <4>3
    <3> QED BY <2>2, <2>5, <2>7, <3>1 DEF Leads
  <2> QED BY <2>6, <2>7
<1> QED BY <1>3, <1>4

LEMMA AppliedLinks ==
  ASSUME ShapeInv, LinkInv, NEW q \in Loads, NEW t \in Tabs, AtHand(q, t),
         load[q].hit = Nil => FreshIds # {}
  PROVE  LET objs == Applied(q, Current(q, t)) IN
         \A o \in objs : Linked(rows \cup RowsOf(objs), o.row, ~torn)
<1> DEFINE l == load[q]
           c == Current(q, t)
           objs == Applied(q, c)
           given == Given(l.kind, c)
           R == rows \cup RowsOf(l.objs)
           S == rows \cup RowsOf(objs)
<1>1. /\ OfSession(rows, l.objs, l.ws)
      /\ \A o \in l.objs : Linked(R, o.row, ~torn)
  BY DEF ShapeInv, LoadInv, LinkInv, LoadLinks
<1>2. /\ \A p \in objs :
           \/ p \in l.objs /\ (l.hit # Nil => p.row.id # l.hit)
           \/ l.hit = Nil /\ p = Fresh(l.ws, c)
           \/ \E o \in l.objs : l.hit # Nil /\ o.row.id = l.hit /\ o.row.tab = t
                                /\ p = Rewritten(o, c, given)
      /\ \A o \in l.objs : \E p \in objs : Same(o.row, p.row)
  BY AppliedIs, AppliedObjects
<1>3. \A d \in Refs : Leads(R, c[d], t, l.ws, ~torn)
  BY CurrentLeads
<1>4. /\ l.kind \in {"import", "ingest", "upsert"} /\ l.ws \in Workspaces
      /\ c \in Lines /\ c.tab = t /\ Full(c)
      /\ l.kind = "import" => c \in Row
      /\ l.kind # "import" => c \in Item \cup Text
  BY CurrentLine
<1> HIDE DEF c, objs, given, l
<1>5. given \in SUBSET {"ext", "alt", "val", "up", "a"} /\ given \cap Required(c.tab) = {}
  BY <1>4, GivenColumns DEF given
<1>6. Lasting(R, S)
  BY <1>2 DEF Lasting, RowsOf, Same
<1> HIDE DEF R, S
<1>7. (\A d \in Refs : Leads(S, c[d], t, l.ws, ~torn)) /\ \A o \in l.objs : Linked(S, o.row, ~torn)
  BY <1>1, <1>3, <1>6, LeadsLasts, LinkedLasts
<1>8. ASSUME NEW p \in objs PROVE Linked(S, p.row, ~torn)
  <2>1. CASE p \in l.objs
    BY <1>7, <2>1
  <2>2. CASE l.hit = Nil /\ p = Fresh(l.ws, c)
    <3>1. p.row.ws = l.ws /\ p.row.tab = t /\ \A d \in Columns : p.row[d] = c[d]
      BY <1>4, <2>2, FreshObject DEF l
    <3>2. Refs \subseteq Columns
      BY DEF Refs, Columns
    <3> QED BY <1>7, <3>1, <3>2, LinkedIs
  <2>3. ASSUME NEW o \in l.objs, o.row.tab = t, p = Rewritten(o, c, given)
        PROVE  Linked(S, p.row, ~torn)
    <3>1. o \in Objects /\ Full(o.row) /\ o.row.ws = l.ws
      BY <1>1 DEF OfSession, Session
    <3>2. Same(p.row, o.row) /\ \A d \in Columns : p.row[d] = IF d \in given THEN c[d] ELSE o.row[d]
      BY <1>4, <1>5, <2>3, <3>1, RewrittenObject
    <3>3. \A d \in Refs : Leads(S, o.row[d], t, l.ws, ~torn)
      BY <1>7, <2>3, <3>1, LinkedIs
    <3>4. Refs \subseteq Columns
      BY DEF Refs, Columns
    <3>5. \A d \in Refs : Leads(S, p.row[d], p.row.tab, p.row.ws, ~torn)
      BY <1>7, <2>3, <3>1, <3>2, <3>3, <3>4 DEF Same
    <3> QED BY <3>5, LinkedIs
  <2> QED BY <1>2, <2>1, <2>2, <2>3
<1> QED BY <1>8 DEF c, objs, S

LEMMA HeadOrTail ==
  ASSUME NEW S, NEW s \in Seq(S), s # <<>>
  PROVE  Range(s) = {Head(s)} \cup Range(Tail(s))
<1>1. Head(s) = s[1] /\ Tail(s) \in Seq(S) /\ Len(s) \in Nat /\ Len(s) # 0
      /\ Len(Tail(s)) = Len(s) - 1
      /\ \A i \in 1..Len(Tail(s)) : Tail(s)[i] = s[i + 1]
  OBVIOUS
<1>2. DOMAIN s = 1..Len(s) /\ DOMAIN Tail(s) = 1..Len(Tail(s))
  BY <1>1
<1>3. ASSUME NEW i \in DOMAIN s PROVE s[i] \in {Head(s)} \cup Range(Tail(s))
  <2>1. CASE i = 1
    BY <1>1, <2>1
  <2>2. CASE i # 1
    <3>1. i - 1 \in DOMAIN Tail(s) /\ Tail(s)[i - 1] = s[i]
      BY <1>1, <1>2, <2>2
    <3> QED BY <3>1 DEF Range
  <2> QED BY <2>1, <2>2
<1>4. 1 \in DOMAIN s /\ \A i \in DOMAIN Tail(s) : i + 1 \in DOMAIN s
  BY <1>1, <1>2
<1>5. Range(s) \subseteq {Head(s)} \cup Range(Tail(s))
  BY <1>3 DEF Range
<1>6. Head(s) \in Range(s)
  BY <1>1, <1>4 DEF Range
<1>7. Range(Tail(s)) \subseteq Range(s)
  BY <1>1, <1>2, <1>4 DEF Range
<1> QED BY <1>5, <1>6, <1>7

LEMMA AfterRowLinks ==
  ASSUME ShapeInv, LinkInv, NEW q \in Loads, NEW t \in Tabs, AtHand(q, t),
         load[q].hit = Nil => FreshIds # {}
  PROVE  LoadLinks(rows, AfterRow(q, t), ~torn)
<1> DEFINE l == load[q]
           m == AfterRow(q, t)
           h == Head(l.todo[t])
           objs == Applied(q, Current(q, t))
           new == IF l.hit = Nil THEN NewId ELSE l.hit
<1>0. /\ l \in Records /\ LoadLinks(rows, l, ~torn)
      /\ l.kind \in {"import", "ingest", "upsert"} /\ Hand(l.todo, t)
      /\ LinesInv(l.kind, l.todo) /\ h \in Range(l.todo[t])
      /\ l.kind = "import" => h \in Row
  BY CurrentLine DEF ShapeInv, BulkTypes, LinkInv, LoadInv
<1>1. /\ m.kind = l.kind /\ m.ws = l.ws
      /\ m.todo = [l.todo EXCEPT ![t] = Tail(@)]
      /\ m.objs = IF Flushes(q, t) THEN Flushed(objs) ELSE objs
      /\ m.map = IF l.kind = "import" /\ t \in Mapped THEN MapWith(l.map, h.id, new) ELSE l.map
  BY AfterRowIs
<1>2. /\ OfSession(rows, objs, l.ws)
      /\ \A o \in l.objs : \E p \in objs : Same(o.row, p.row)
      /\ \E p \in objs : p.row.id = new /\ p.row.tab = t
  BY AppliedObjects
<1>3. \A o \in objs : Linked(rows \cup RowsOf(objs), o.row, ~torn)
  BY AppliedLinks
<1>4. l.todo[t] \in Seq(Lines) /\ l.todo[t] # <<>>
  BY <1>0 DEF Records, Documents, Hand
<1>5. Range(l.todo[t]) = {h} \cup Range(Tail(l.todo[t]))
  BY <1>4, HeadOrTail
<1>6. \A u \in Tabs : m.todo[u] = IF u = t THEN Tail(l.todo[t]) ELSE l.todo[u]
  BY <1>0, <1>1 DEF Records, Documents
<1>7. \A u \in Tabs : Range(l.todo[u]) = Range(m.todo[u]) \cup (IF u = t THEN {h} ELSE {})
  BY <1>5, <1>6
<1> HIDE DEF m, objs, h, new
<1>8. RowsOf(m.objs) = RowsOf(objs)
  <2> DEFINE fl == Flushed(objs)
  <2>1. /\ \A o \in objs : \E p \in fl : p.row = o.row
        /\ \A p \in fl : \E o \in objs : p.row = o.row
    BY <1>2, SessionFlushed DEF OfSession
  <2>2. m.objs = fl \/ m.objs = objs
    BY <1>1
  <2> HIDE DEF fl
  <2> QED BY <2>1, <2>2 DEF RowsOf
<1>9. \A o \in m.objs : Linked(rows \cup RowsOf(m.objs), o.row, ~torn)
  BY <1>3, <1>8 DEF RowsOf
<1>10. ASSUME NEW i, NEW u, \E o \in objs : o.row.id = i /\ o.row.tab = u
       PROVE  \E o \in m.objs : o.row.id = i /\ o.row.tab = u
  BY <1>8, <1>10 DEF RowsOf
<1>11. l.kind = "import" => ImportLinks(rows, m, ~torn)
  <2> SUFFICES ASSUME l.kind = "import" PROVE ImportLinks(rows, m, ~torn)
    OBVIOUS
  <2>1. ImportLinks(rows, l, ~torn) /\ l.map \in Maps /\ h.tab = t
    BY <1>0 DEF LoadLinks, Records, LinesInv
  <2>2. DOMAIN m.map = DOMAIN l.map \cup (IF t \in Mapped THEN {h.id} ELSE {})
    BY <1>1 DEF MapWith
  <2>3. \A u \in Tabs : \A r \in Range(m.todo[u]) : \E s \in rows : s.id = r.id /\ s.tab = u
    BY <1>7, <2>1 DEF ImportLinks
  <2>4. ASSUME NEW u \in Tabs, NEW r \in Range(m.todo[u])
        PROVE  Foreseen(rows, r, m.todo, DOMAIN m.map, ~torn)
    <3>1. Foreseen(rows, r, l.todo, DOMAIN l.map, ~torn)
      BY <1>7, <2>1, <2>4 DEF ImportLinks
    <3> SUFFICES ASSUME NEW c \in Refs, r[c] # Nil
                 PROVE  \E s \in rows :
                          /\ s.id = r[c]
                          /\ s.tab \in Mapped =>
                               /\ Sections[s.tab] < Sections[r.tab]
                               /\ ~torn => r[c] \in DOMAIN m.map \/ \E d \in Range(m.todo[s.tab]) : d.id = r[c]
      BY DEF Foreseen
    <3>2. PICK s \in rows :
            /\ s.id = r[c]
            /\ s.tab \in Mapped =>
                 /\ Sections[s.tab] < Sections[r.tab]
                 /\ ~torn => r[c] \in DOMAIN l.map \/ \E d \in Range(l.todo[s.tab]) : d.id = r[c]
      BY <3>1 DEF Foreseen
    <3>3. s.tab \in Tabs
      BY DEF ShapeInv, BulkTypes, Row
    <3>4. ASSUME s.tab \in Mapped, NEW d \in Range(l.todo[s.tab]), d.id = r[c]
          PROVE  r[c] \in DOMAIN m.map \/ \E e \in Range(m.todo[s.tab]) : e.id = r[c]
      <4>1. CASE d \in Range(m.todo[s.tab])
        BY <3>4, <4>1
      <4>2. CASE s.tab = t /\ d = h
        BY <3>4, <4>2, <2>2
      <4> QED BY <1>7, <3>3, <3>4, <4>1, <4>2
    <3> QED BY <3>2, <3>4, <2>2
  <2>5. ASSUME NEW i \in DOMAIN m.map
        PROVE  \E s \in rows, o \in m.objs :
                 s.id = i /\ s.tab \in Mapped /\ o.row.id = m.map[i] /\ o.row.tab = s.tab
    <3>1. CASE t \in Mapped /\ i = h.id
      <4>1. m.map[i] = new
        BY <1>1, <2>5, <3>1 DEF MapWith
      <4>2. PICK s \in rows : s.id = i /\ s.tab = t
        BY <1>0, <2>1, <3>1 DEF ImportLinks
      <4>3. \E o \in m.objs : o.row.id = new /\ o.row.tab = t
        BY <1>2, <1>10
      <4> QED BY <3>1, <4>1, <4>2, <4>3
    <3>2. CASE ~(t \in Mapped /\ i = h.id)
      <4>1. i \in DOMAIN l.map /\ m.map[i] = l.map[i]
        BY <1>1, <2>2, <2>5, <3>2 DEF MapWith
      <4>2. PICK s \in rows, o \in l.objs :
              s.id = i /\ s.tab \in Mapped /\ o.row.id = l.map[i] /\ o.row.tab = s.tab
        BY <2>1, <4>1 DEF ImportLinks
      <4>3. \E p \in objs : p.row.id = l.map[i] /\ p.row.tab = s.tab
        BY <1>2, <4>2 DEF Same
      <4> QED BY <4>1, <4>2, <4>3, <1>10
    <3> QED BY <3>1, <3>2
  <2> QED BY <2>3, <2>4, <2>5 DEF ImportLinks
<1>12. l.kind # "import" => LineLinks(rows, m)
  <2> SUFFICES ASSUME l.kind # "import" PROVE LineLinks(rows, m)
    OBVIOUS
  <2>1. LineLinks(rows, l)
    BY <1>0 DEF LoadLinks
  <2> QED BY <1>1, <1>7, <2>1 DEF LineLinks
<1>13. LoadLinks(rows, m, ~torn)
  BY <1>0, <1>1, <1>9, <1>11, <1>12 DEF LoadLinks
<1> QED BY <1>13 DEF m

LEMMA ApplyLinks ==
  ASSUME ShapeInv, LinkInv, NEW q \in Loads, NEW t \in Tabs, Apply(q, t)
  PROVE  LinkInv'
<1>1. /\ AtHand(q, t)
      /\ load[q].hit = Nil => FreshIds # {}
      /\ \/ load' = [load EXCEPT ![q] = NoLoad]
         \/ load' = [load EXCEPT ![q] = AfterRow(q, t)]
      /\ rows' = rows /\ doc' = doc /\ torn' = torn
  BY ApplyIs
<1>2. DocLinks(rows, doc', ~torn') /\ (torn => torn')
  BY <1>1 DEF LinkInv
<1>3. LoadLinks(rows, NoLoad, ~torn')
  BY NoLoadLinks
<1>4. LoadLinks(rows, AfterRow(q, t), ~torn')
  BY <1>1, AfterRowLinks
<1> QED BY <1>1, <1>2, <1>3, <1>4, OneLoadLinks

LEMMA StartExportLinks ==
  ASSUME ShapeInv, LinkInv, NEW q \in Loads, StartExport(q)
  PROVE  LinkInv'
<1> DEFINE m == [NoLoad EXCEPT !.kind = "export", !.ws = Source, !.left = Tabs]
<1>1. load' = [load EXCEPT ![q] = m] /\ rows' = rows /\ doc' = doc /\ torn' = torn
  BY DEF StartExport
<1>2. m.kind = "export" /\ m.objs = {} /\ m.out = Empty /\ m.left = Tabs
  BY DEF NoLoad
<1> HIDE DEF m
<1>3. ExportLinks(rows, m, ~torn)
  BY <1>2 DEF ExportLinks, Empty, Range
<1>4. LoadLinks(rows, m, ~torn)
  BY <1>2, <1>3 DEF LoadLinks
<1> QED BY <1>1, <1>4, OneLoadLinks DEF LinkInv

LEMMA ReadTableLinks ==
  ASSUME ShapeInv, LinkInv, NEW q \in Loads, NEW t \in Tabs, ReadTable(q, t)
  PROVE  LinkInv'
<1> DEFINE l == load[q]
<1>0. /\ rows' = rows /\ doc' = doc /\ torn' = torn /\ l \in Records /\ LoadLinks(rows, l, ~torn)
      /\ DocLinks(rows, doc, ~torn) /\ \A u \in l.left \ {t} : Exported[t] < Exported[u]
  BY DEF ReadTable, ShapeInv, BulkTypes, LinkInv
<1>1. PICK s \in SetToSeqs(Of(Source, t)), m \in Records : ReadAs(q, t, s, m)
  BY ReadTableIs
<1>2. Range(s) = Of(Source, t)
  BY SelectRows DEF ShapeInv
<1>3. \A u \in Tabs : m.out[u] = IF u = t THEN s ELSE l.out[u]
  BY <1>1 DEF ReadAs
<1>4. ExportLinks(rows, l, ~torn)
  BY <1>0, <1>1 DEF LoadLinks, ReadAs
<1>5. \A u \in Tabs : \A r \in Range(m.out[u]) : Linked(rows, r, ~torn)
  BY <1>2, <1>3, <1>4 DEF ExportLinks, Of, LinkInv
<1>6. ASSUME m.alone, NEW u \in Tabs \ m.left PROVE Range(m.out[u]) = Of(Source, u)
  <2>1. CASE u = t
    BY <1>2, <1>3, <2>1
  <2>2. CASE u # t /\ u \notin l.left
    BY <1>1, <1>3, <1>4, <1>6, <2>2 DEF ExportLinks, ReadAs, Of
  <2>3. CASE u # t /\ u \in l.left
    <3>1. u \notin Unread(l.left, t)
      BY <1>1, <1>6 DEF ReadAs
    <3>2. Exported[u] <= Exported[u]
      BY DEF Tabs, Exported, Sections
    <3>3. Of(Source, u) = {}
      BY <2>3, <3>1, <3>2 DEF Unread
    <3>4. m.out[u] = <<>>
      BY <1>3, <1>4, <2>3 DEF ExportLinks
    <3> QED BY <3>3, <3>4 DEF Range
  <2> QED BY <2>1, <2>2, <2>3
<1>7. \A u \in m.left : m.out[u] = <<>>
  <2>1. m.left \subseteq l.left \ {t} /\ m.left \subseteq Tabs
    BY <1>1 DEF ReadAs, Unread, Records
  <2> QED BY <2>1, <1>3, <1>4 DEF ExportLinks
<1>8. ExportLinks(rows, m, ~torn)
  BY <1>5, <1>6, <1>7 DEF ExportLinks, Of
<1>9. LoadLinks(rows, m, ~torn)
  BY <1>0, <1>1, <1>8 DEF LoadLinks, ReadAs
<1> QED BY <1>0, <1>1, <1>9, OneLoadLinks DEF ReadAs

LEMMA EndExportLinks ==
  ASSUME ShapeInv, LinkInv, NEW q \in Loads, EndExport(q)
  PROVE  LinkInv'
<1> DEFINE l == load[q]
<1>1. /\ load' = [load EXCEPT ![q] = NoLoad] /\ rows' = rows
      /\ doc' = l.out /\ torn' = (torn \/ ~l.alone) /\ l.kind = "export" /\ l.left = {}
      /\ l \in Records /\ DocRows(rows, l.out)
  BY DEF EndExport, ShapeInv, BulkTypes, LoadInv
<1>2. ExportLinks(rows, l, ~torn)
  BY <1>1 DEF LinkInv, LoadLinks
<1>3. ASSUME NEW t \in Tabs, NEW r \in Range(l.out[t]) PROVE Foreseen(rows, r, l.out, {}, ~torn')
  <2> SUFFICES ASSUME NEW c \in Refs, r[c] # Nil
               PROVE  \E s \in rows :
                        /\ s.id = r[c]
                        /\ s.tab \in Mapped =>
                             /\ Sections[s.tab] < Sections[r.tab]
                             /\ ~torn' => \E d \in Range(l.out[s.tab]) : d.id = r[c]
    BY DEF Foreseen
  <2>1. Linked(rows, r, ~torn) /\ r.ws = Source
    BY <1>1, <1>2, <1>3 DEF ExportLinks, DocRows
  <2>2. Leads(rows, r[c], r.tab, r.ws, ~torn)
    BY <2>1, LinkedIs
  <2>3. PICK s \in rows :
          /\ s.id = r[c]
          /\ s.tab \in Mapped => Sections[s.tab] < Sections[r.tab] /\ (~torn => s.ws = r.ws)
    BY <2>2 DEF Leads
  <2>4. s.tab \in Tabs
    BY DEF ShapeInv, BulkTypes, Row
  <2>5. ASSUME s.tab \in Mapped, ~torn' PROVE s \in Range(l.out[s.tab])
    <3>1. ~torn /\ l.alone
      BY <1>1, <2>5
    <3>2. s.ws = Source
      BY <2>1, <2>3, <2>5, <3>1
    <3> QED BY <1>1, <1>2, <2>4, <3>1, <3>2 DEF ExportLinks
  <2> QED BY <2>3, <2>5
<1>4. DocLinks(rows, doc', ~torn')
  BY <1>1, <1>3 DEF DocLinks
<1>5. LoadLinks(rows, NoLoad, ~torn')
  BY NoLoadLinks
<1> QED BY <1>1, <1>4, <1>5, OneLoadLinks

LEMMA RowsChangeLinks ==
  ASSUME ShapeInv, LinkInv, Lasting(rows, rows'), doc' = doc, torn' = torn,
         \A r \in rows' : Linked(rows', r, ~torn),
         \A p \in Loads : load'[p] = NoLoad \/ load'[p] = NotAlone(load[p])
  PROVE  LinkInv'
<1>1. DocLinks(rows', doc, ~torn)
  BY DocLinksLast DEF LinkInv
<1>2. ASSUME NEW p \in Loads PROVE LoadLinks(rows', load'[p], ~torn)
  <2>1. CASE load'[p] = NoLoad
    BY <2>1, NoLoadLinks
  <2>2. CASE load'[p] = NotAlone(load[p])
    <3>1. load[p] \in Records /\ LoadLinks(rows, load[p], ~torn)
      BY <1>2 DEF ShapeInv, BulkTypes, LinkInv
    <3> DEFINE l == load[p]
               m == load'[p]
    <3>2. /\ m.kind = l.kind /\ m.ws = l.ws /\ m.objs = l.objs /\ m.todo = l.todo
          /\ m.map = l.map /\ m.out = l.out /\ m.left = l.left
          /\ m.alone = (l.alone /\ l.kind = "idle")
      BY <2>2, <3>1, NotAloneIs
    <3> HIDE DEF l, m
    <3>3. (m.alone => l.alone) /\ (m.kind = "export" => ~m.alone)
      BY <3>2
    <3>4. LoadLinks(rows, l, ~torn)
      BY <3>1 DEF l
    <3>5. LoadLinks(rows', m, ~torn)
      BY <3>2, <3>3, <3>4, LoadLinksLast
    <3> QED BY <3>5 DEF m
  <2> QED BY <1>2, <2>1, <2>2
<1> QED BY <1>1, <1>2 DEF LinkInv

LEMMA CommitLinks ==
  ASSUME ShapeInv, LinkInv, NEW q \in Loads, Commit(q)
  PROVE  LinkInv'
<1>0. doc' = doc /\ torn' = torn /\ Lasting(rows, rows')
  BY CommitShape DEF Commit
<1>1. CASE load' = [load EXCEPT ![q] = NoLoad] /\ rows' = rows
  BY <1>0, <1>1, NoLoadLinks, OneLoadLinks DEF LinkInv
<1>2. CASE rows' = View(Flushed(load[q].objs)) /\ load' = Overlapped(q)
  <2> DEFINE objs == load[q].objs
             fl == Flushed(objs)
             R == rows \cup RowsOf(objs)
  <2>0. BulkTypes /\ RowsInv /\ Session(rows, objs) /\ \A o \in objs : Linked(R, o.row, ~torn)
    BY DEF ShapeInv, LoadInv, OfSession, LinkInv, LoadLinks
  <2>1. /\ Session(rows, fl) /\ \A o \in fl : o.flushed /\ o.was = o.row
        /\ \A o \in objs : \E p \in fl : p.row = o.row
        /\ \A p \in fl : \E o \in objs : p.row = o.row
    BY <2>0, SessionFlushed
  <2>2. rows' = View(fl)
    BY <1>2
  <2> HIDE DEF fl, R
  <2>3. /\ \A r \in rows : \E s \in View(fl) : Same(r, s)
        /\ \A o \in fl : \E s \in View(fl) : Same(o.row, s)
    BY <2>0, <2>1, ViewRows
  <2>4. Lasting(R, rows') /\ Lasting(rows, rows')
    BY <2>1, <2>2, <2>3 DEF Lasting, R, RowsOf
  <2>5. /\ \A r \in rows : Linked(rows', r, ~torn)
        /\ \A o \in objs : Linked(rows', o.row, ~torn)
    BY <2>0, <2>4, LinkedLasts DEF LinkInv
  <2>6. \A o \in fl : Linked(rows', o.row, ~torn)
    BY <2>1, <2>5
  <2>7. ASSUME NEW s \in rows' PROVE Linked(rows', s, ~torn)
    <3>1. CASE Untouched(fl, s)
      BY <2>5, <3>1 DEF Untouched
    <3>2. CASE FromAdded(fl, s)
      BY <2>1, <2>6, <3>2 DEF FromAdded
    <3>3. CASE FromLoaded(fl, s)
      <4>1. PICK o \in fl, r \in rows : ~o.new /\ Same(r, o.row) /\ s = Patched(o.base, o.was, r)
        BY <3>3 DEF FromLoaded
      <4>2. o.base \in Row /\ o.was \in Row /\ r \in Row /\ o.was = o.row
        BY <2>0, <2>1, <4>1 DEF Session, Loaded1, BulkTypes
      <4>3. /\ s.ws = r.ws /\ s.tab = r.tab
            /\ \A c \in Columns : s[c] = o.row[c] \/ s[c] = r[c]
        BY <4>1, <4>2, PatchedRow
      <4>4. /\ \A c \in Refs : Leads(rows', r[c], r.tab, r.ws, ~torn)
            /\ \A c \in Refs : Leads(rows', o.row[c], o.row.tab, o.row.ws, ~torn)
        BY <2>5, <2>6, LinkedIs
      <4>5. Refs \subseteq Columns
        BY DEF Refs, Columns
      <4>6. \A c \in Refs : Leads(rows', s[c], s.tab, s.ws, ~torn)
        BY <4>1, <4>3, <4>4, <4>5 DEF Same
      <4> QED BY <4>6, LinkedIs
    <3>4. Untouched(fl, s) \/ FromAdded(fl, s) \/ FromLoaded(fl, s)
      BY <2>0, <2>1, <2>2, ViewIs
    <3> QED BY <3>1, <3>2, <3>3, <3>4
  <2>8. \A p \in Loads : load'[p] = NoLoad \/ load'[p] = NotAlone(load[p])
    BY <1>2 DEF Overlapped
  <2> QED BY <1>0, <2>7, <2>8, RowsChangeLinks
<1> QED BY <1>1, <1>2 DEF Commit

LEMMA InsertLinks ==
  ASSUME ShapeInv, LinkInv, NEW r \in Row, r.id = NewId, Full(r), Insert(r),
         Linked(rows, r, ~torn)
  PROVE  LinkInv'
<1>1. /\ rows' = rows \cup {r} /\ doc' = doc /\ torn' = torn
      /\ load' = [q \in Loads |-> NotAlone(load[q])]
  BY DEF Insert
<1>2. Lasting(rows, rows')
  BY InsertShape
<1>3. \A s \in rows' : Linked(rows', s, ~torn)
  <2>1. \A s \in rows' : Linked(rows, s, ~torn)
    BY <1>1 DEF LinkInv
  <2> QED BY <1>2, <2>1, LinkedLasts
<1>4. \A p \in Loads : load'[p] = NotAlone(load[p])
  BY <1>1
<1> QED BY <1>1, <1>2, <1>3, <1>4, RowsChangeLinks

LEMMA CreateLinks ==
  ASSUME ShapeInv, LinkInv, NEW w \in Workspaces,
         (\E k \in Keys : CreateContact(w, k))
           \/ \E s, t \in Of(w, "contact") : CreateRelationship(s, t)
  PROVE  LinkInv'
<1>1. ASSUME NEW k \in Keys, CreateContact(w, k) PROVE LinkInv'
  <2> DEFINE r == [id |-> NewId, ws |-> w, tab |-> "contact", ext |-> Nil, alt |-> k, val |-> Nil,
                   up |-> Nil, a |-> Nil, b |-> Nil, rest |-> Nil]
  <2>1. Insert(r)
    BY <1>1 DEF CreateContact
  <2>2. r \in Row
    BY <2>1, NewIdUnused DEF Insert, Row, Tabs, Sections
  <2>3. Full(r) /\ r.id = NewId /\ Linked(rows, r, ~torn)
    BY DEF Full, Required, Linked, Refs
  <2> HIDE DEF r
  <2> QED BY <2>1, <2>2, <2>3, InsertLinks
<1>2. ASSUME NEW s \in Of(w, "contact"), NEW t \in Of(w, "contact"), CreateRelationship(s, t)
      PROVE  LinkInv'
  <2> DEFINE r == [id |-> NewId, ws |-> s.ws, tab |-> "edge", ext |-> Nil, alt |-> Nil, val |-> Nil,
                   up |-> Nil, a |-> s.id, b |-> t.id, rest |-> Nil]
  <2>0. /\ s \in Row /\ t \in Row /\ s \in rows /\ t \in rows
        /\ s.tab = "contact" /\ t.tab = "contact" /\ s.ws = t.ws
    BY DEF Of, ShapeInv, BulkTypes
  <2>1. Insert(r)
    BY <1>2 DEF CreateRelationship
  <2>2. r \in Row
    BY <2>0, <2>1, NewIdUnused DEF Insert, Row, Tabs, Sections
  <2>3. Full(r) /\ r.id = NewId
    BY <2>0, BulkAssumption DEF Full, Required, Row
  <2>4. Sections["contact"] < Sections["edge"]
    BY DEF Sections
  <2>5. Linked(rows, r, ~torn)
    BY <2>0, <2>4 DEF Linked, Refs
  <2> HIDE DEF r
  <2> QED BY <2>1, <2>2, <2>3, <2>5, InsertLinks
<1> QED BY <1>1, <1>2

LEMMA LinksStep ==
  ASSUME ShapeInv, LinkInv, [BulkNext]_bulkVars
  PROVE  LinkInv'
<1>1. CASE UNCHANGED bulkVars
  BY <1>1 DEF bulkVars, LinkInv
<1>2. ASSUME NEW q \in Loads, Requests(q) PROVE LinkInv'
  BY <1>2, StartExportLinks, StartsLinks DEF Requests
<1>3. ASSUME NEW q \in Loads, NEW t \in Tabs,
             Look(q, t) \/ RowError(q, t) \/ Apply(q, t) \/ ReadTable(q, t)
      PROVE  LinkInv'
  BY <1>3, LookLinks, RowErrorLinks, ApplyLinks, ReadTableLinks
<1>4. ASSUME NEW q \in Loads, Commit(q) \/ DropLoad(q) \/ EndExport(q) PROVE LinkInv'
  <2>1. CASE DropLoad(q)
    BY <2>1, NoLoadLinks, OneLoadLinks DEF DropLoad, LinkInv
  <2> QED BY <1>4, <2>1, CommitLinks, EndExportLinks
<1>5. ASSUME NEW w \in Workspaces,
             (\E k \in Keys : CreateContact(w, k))
               \/ \E s, t \in Of(w, "contact") : CreateRelationship(s, t)
      PROVE  LinkInv'
  BY <1>5, CreateLinks
<1> QED BY <1>1, <1>2, <1>3, <1>4, <1>5 DEF BulkNext

\* "References are rewritten as each row lands": as long as every export was read while
\* nothing was committed, no row refers to one that is not there, nor to a pipeline, stage,
\* company, contact or deal of another workspace.
THEOREM ReferencesRewritten == BulkSpec => []ImportsRewriteRefs
<1>1. ShapeInv /\ LinkInv /\ [BulkNext]_bulkVars => ShapeInv' /\ LinkInv'
  BY ShapeStep, LinksStep
<1>2. LinkInv => ImportsRewriteRefs
  BY DEF LinkInv, Linked, ImportsRewriteRefs, RefersInside
<1> QED BY InitShape, InitLinks, <1>1, <1>2, PTL DEF BulkSpec

-----------------------------------------------------------------------------
(***************************************************************************)
(* The round trip.  An import, alone, into a workspace that was empty when *)
(* it began sees no rows but its own.  If the keys of its document are     *)
(* distinct it finds none of them: each row of the document that is done   *)
(* has one object, a copy of it up to the id map; and the map, whose       *)
(* values are new ids, sends no two references to one.                     *)
(***************************************************************************)
NewOf(map, i) == IF i \in DOMAIN map THEN map[i] ELSE i
Copied(map, r, s) ==
  /\ s.tab = r.tab /\ s.ext = r.ext /\ s.alt = r.alt /\ s.val = r.val
  /\ \A c \in Refs : s[c] = NewOf(map, r[c])

\* One SELECT of a document: no row twice, no two of a key.
ApartRows(s) ==
  /\ \A i, j \in DOMAIN s : i # j => s[i].id # s[j].id
  /\ \A r, u \in Range(s) : ~Clash(r, u)
  /\ Cardinality(Range(s)) = Len(s)

\* What a reference of a document leads to.
Placed(R, r) ==
  \A c \in Refs : r[c] # Nil =>
    \E s \in R : s.id = r[c] /\ (s.tab \in Mapped => Sections[s.tab] < Sections[r.tab])

Tripping(l) == l.kind = "import" /\ l.fresh /\ l.alone /\ \A t \in Tabs : KeysApart(l.what[t])
Passed(l, t) == Range(l.what[t]) \ Range(l.todo[t])
Landing(l, t) == {r \in RowsOf(l.objs) : r.tab = t}

TripDoc(R, l) ==
  /\ DocRows(R, l.what)
  /\ \A t \in Tabs : \A r \in Range(l.what[t]) : r \in Row /\ Placed(R, r)
  /\ \A t \in Tabs : ApartRows(l.what[t])
  /\ \A t \in Tabs : Range(l.todo[t]) \subseteq Range(l.what[t])
  /\ \A t \in Tabs : \A i, j \in DOMAIN l.todo[t] : i # j => l.todo[t][i].id # l.todo[t][j].id
  /\ \A t, u \in Tabs :
       Sections[u] < Sections[t] /\ Passed(l, t) # {} => l.todo[u] = <<>>

TripMap(R, l) ==
  /\ \A i, j \in DOMAIN l.map : l.map[i] = l.map[j] => i = j
  /\ \A i \in DOMAIN l.map : \E o \in l.objs : o.row.id = l.map[i]

TripObjects(R, l) ==
  /\ \A s \in R : s.ws # l.ws
  /\ l.hit = Nil
  /\ \A o \in l.objs : o.new /\ o.row.rest = Nil /\ (o.flushed => o.was = o.row)
  /\ \A t \in Tabs : \A r \in Passed(l, t) : \E s \in Landing(l, t) : Copied(l.map, r, s)
  /\ \A t \in Tabs : \A s \in Landing(l, t) : \E r \in Passed(l, t) : Copied(l.map, r, s)
  /\ \A t \in Tabs : Cardinality(Landing(l, t)) = Cardinality(Passed(l, t))

TripLoad(R, l) ==
  /\ \A t \in Tabs : ApartRows(l.out[t])
  /\ Tripping(l) => TripDoc(R, l) /\ TripMap(R, l) /\ TripObjects(R, l)

TripInv ==
  /\ \A t \in Tabs : ApartRows(doc[t])
  /\ \A q \in Loads : TripLoad(rows, load[q])

LEMMA ApartEmpty == ApartRows(<<>>)
<1>1. Range(<<>>) = {} /\ Len(<<>>) = 0 /\ DOMAIN <<>> = {}
  BY DEF Range
<1> QED BY <1>1, FS_EmptySet DEF ApartRows

LEMMA NoLoadTrips == ASSUME NEW R PROVE TripLoad(R, NoLoad)
<1>1. NoLoad.out = Empty /\ NoLoad.kind = "idle"
  BY DEF NoLoad
<1> QED BY <1>1, ApartEmpty DEF TripLoad, Tripping, Empty

LEMMA InitTrips == BulkInit => TripInv
BY ApartEmpty, NoLoadTrips DEF BulkInit, TripInv, Empty

LEMMA OneLoadTrips ==
  ASSUME ShapeInv, TripInv, NEW q \in Loads, NEW m, load' = [load EXCEPT ![q] = m], rows' = rows,
         TripLoad(rows, m), \A t \in Tabs : ApartRows(doc'[t])
  PROVE  TripInv'
<1>1. \A p \in Loads : load'[p] = IF p = q THEN m ELSE load[p]
  BY DEF ShapeInv, BulkTypes
<1> QED BY <1>1 DEF TripInv

\* The id map sends no two references to one.
LEMMA RefsApart ==
  ASSUME ShapeInv, NEW q \in Loads, NEW i, NEW j, TripMap(rows, load[q]),
         \A o \in load[q].objs : o.new,
         i # Nil => \E s \in rows : s.id = i, j # Nil => \E s \in rows : s.id = j,
         NewOf(load[q].map, i) = NewOf(load[q].map, j)
  PROVE  i = j
<1> DEFINE l == load[q]
<1>1. l \in Records /\ Session(rows, l.objs)
  BY DEF ShapeInv, BulkTypes, LoadInv, OfSession
<1>2. \A k \in DOMAIN l.map : \E o \in l.objs : o.row.id = l.map[k] /\ o.row \in Row
  BY <1>1 DEF TripMap, Session, Objects
<1>3. \A k \in DOMAIN l.map : l.map[k] # Nil /\ \A s \in rows : s.id # l.map[k]
  BY <1>1, <1>2, BulkAssumption DEF Session, Added1, Row
<1> QED BY <1>3 DEF NewOf, TripMap

\* What an import may take for the row at hand has the key of that row.
LEMMA MatchedKey ==
  ASSUME NEW map, NEW d \in Row, NEW h \in Row, NEW s, NEW c, NEW v,
         d.tab = h.tab, d.ws = h.ws, d.id # h.id, Full(d), Full(h),
         Copied(map, d, s), Copied(map, h, c),
         \A x \in Refs : NewOf(map, d[x]) = NewOf(map, h[x]) => d[x] = h[x],
         s \in Matches(v, c)
  PROVE  Clash(d, h) \/ SameKey(d, h)
<1>0. /\ \A x \in {"ext", "alt", "val"} : s[x] = d[x] /\ c[x] = h[x]
      /\ \A x \in Refs : s[x] = c[x] => d[x] = h[x]
      /\ s.tab = d.tab /\ c.tab = d.tab
  BY DEF Copied
<1>00. /\ s.ext = d.ext /\ s.alt = d.alt /\ s.val = d.val
       /\ c.ext = h.ext /\ c.alt = h.alt /\ c.val = h.val
       /\ (s.up = c.up => d.up = h.up) /\ (s.a = c.a => d.a = h.a) /\ (s.b = c.b => d.b = h.b)
  BY <1>0 DEF Refs
<1>1. d.tab \in {"field", "pipeline", "stage", "company", "contact", "deal", "activity", "note",
                 "task", "edge", "hook", "link", "file"}
  BY DEF Row, Tabs, Sections
<1>2. \A f \in BOOLEAN : s \in ByExternalIdOr(v, c, f) =>
        (d.ext = h.ext /\ d.ext # Nil) \/ (f /\ d.alt = h.alt /\ d.alt # Nil)
  BY <1>00 DEF ByExternalIdOr, Named
<1>3. CASE d.tab \in {"field", "pipeline"}
  <2>1. d.alt = h.alt /\ d.alt # Nil
    BY <1>00, <1>0, <1>3 DEF Matches, CustomFields, Pipelines, Named, Full, Required
  <2>2. d.ws # Nil
    BY BulkAssumption DEF Row
  <2> QED BY <1>3, <2>1, <2>2 DEF Clash, KeyColumns
<1>4. CASE d.tab = "stage"
  <2>1. d.alt = h.alt /\ d.alt # Nil /\ d.up = h.up /\ d.up # Nil
    BY <1>00, <1>0, <1>4 DEF Matches, Stages, Full, Required
  <2> QED BY <1>4, <2>1 DEF Clash, KeyColumns
<1>5. CASE d.tab \in {"company", "contact"}
  <2>1. (d.ext = h.ext /\ d.ext # Nil) \/ (d.alt = h.alt /\ d.alt # Nil)
    BY <1>0, <1>2, <1>5 DEF Matches, Companies, Contacts
  <2>2. d.ws # Nil
    BY BulkAssumption DEF Row
  <2> QED BY <1>5, <2>1, <2>2 DEF Clash, KeyColumns, SameKey
<1>6. CASE d.tab \in {"deal", "activity", "task"}
  <2>1. d.ext = h.ext /\ d.ext # Nil
    BY <1>0, <1>2, <1>6 DEF Matches, Deals, Activities, Tasks
  <2>2. d.ws # Nil
    BY BulkAssumption DEF Row
  <2> QED BY <1>6, <2>1, <2>2 DEF Clash, KeyColumns
<1>7. CASE d.tab = "note"
  BY <1>00, <1>0, <1>7 DEF Matches, Notes, SameKey
<1>8. CASE d.tab = "edge"
  <2>1. d.a = h.a /\ d.a # Nil /\ d.b = h.b /\ d.b # Nil
    BY <1>00, <1>0, <1>8 DEF Matches, Relationships, Full, Required
  <2>2. d.ws # Nil
    BY BulkAssumption DEF Row
  <2> QED BY <1>8, <2>1, <2>2 DEF Clash, KeyColumns
<1>9. CASE d.tab = "hook"
  <2>1. d.alt = h.alt /\ d.alt # Nil
    BY <1>00, <1>0, <1>9 DEF Matches, Webhooks, Named, Full, Required
  <2> QED BY <1>9, <2>1 DEF SameKey
<1>10. CASE d.tab = "link"
  <2>1. d.ext = h.ext /\ d.ext # Nil /\ d.a = h.a /\ d.a # Nil
    BY <1>00, <1>0, <1>10 DEF Matches, MemoryLinks, Full, Required
  <2>2. d.ws # Nil
    BY BulkAssumption DEF Row
  <2> QED BY <1>10, <2>1, <2>2 DEF Clash, KeyColumns
<1>11. CASE d.tab = "file"
  <2>1. d.alt = h.alt /\ d.alt # Nil
    BY <1>00, <1>0, <1>11 DEF Matches, Files, Named
  <2> QED BY <1>11, <2>1 DEF SameKey
<1> QED BY <1>1, <1>3, <1>4, <1>5, <1>6, <1>7, <1>8, <1>9, <1>10, <1>11

\* The rows of a document that are in its load.
LEMMA TripRows ==
  ASSUME NEW R, NEW l, TripDoc(R, l), NEW t \in Tabs
  PROVE  \A r \in Range(l.what[t]) :
           r \in Row /\ r.tab = t /\ r.ws = Source /\ Full(r) /\ Placed(R, r)
BY DEF TripDoc, DocRows

LEMMA HeadNotDone ==
  ASSUME NEW l, NEW t \in Tabs, l.todo[t] # <<>>, l.todo[t] \in Seq(Lines)
  PROVE  Head(l.todo[t]) \notin Passed(l, t)
BY HeadOrTail DEF Passed

\* The import finds nothing.
LEMMA TripFindsNone ==
  ASSUME ShapeInv, NEW q \in Loads, NEW t \in Tabs, AtHand(q, t), load[q].kind = "import",
         \A u \in Tabs : KeysApart(load[q].what[u]),
         TripDoc(rows, load[q]), TripMap(rows, load[q]), TripObjects(rows, load[q])
  PROVE  Found(q, t) = {}
<1> DEFINE l == load[q]
           h == Head(l.todo[t])
           c == Current(q, t)
<1> SUFFICES ASSUME NEW s \in Found(q, t) PROVE FALSE
  OBVIOUS
<1>1. /\ Session(rows, l.objs) /\ BulkTypes /\ RowsInv /\ l \in Records
      /\ l.todo[t] \in Seq(Lines) /\ l.todo[t] # <<>> /\ h \in Range(l.todo[t])
      /\ h \in Range(l.what[t]) /\ l.map \in Maps
  <2>1. Session(rows, l.objs) /\ BulkTypes /\ RowsInv /\ l \in Records
    BY DEF ShapeInv, LoadInv, OfSession, BulkTypes
  <2>2. l.todo[t] \in Seq(Lines) /\ l.map \in Maps
    BY <2>1 DEF Records, Documents
  <2>3. h \in Range(l.todo[t]) /\ l.todo[t] # <<>>
    BY CurrentLine DEF AtHand
  <2> QED BY <2>1, <2>2, <2>3 DEF TripDoc
<1>2. s \in View(l.objs) /\ s.ws = l.ws /\ s.tab = t
  BY FoundSeen DEF Seen
<1>3. \E o \in l.objs : s = o.row
  <2>1. ~Untouched(l.objs, s)
    BY <1>2 DEF Untouched, TripObjects
  <2>2. ~FromLoaded(l.objs, s)
    BY DEF FromLoaded, TripObjects
  <2>3. FromAdded(l.objs, s)
    BY <1>1, <1>2, <2>1, <2>2, ViewIs
  <2> QED BY <2>3 DEF FromAdded, TripObjects
<1>4. s \in Landing(l, t)
  BY <1>2, <1>3 DEF Landing, RowsOf
<1>5. PICK d \in Passed(l, t) : Copied(l.map, d, s)
  BY <1>4 DEF TripObjects
<1>6. d \in Range(l.what[t]) /\ d # h
  BY <1>1, <1>5, HeadNotDone DEF Passed
<1>7. /\ d \in Row /\ d.tab = t /\ d.ws = Source /\ Full(d) /\ Placed(rows, d)
      /\ h \in Row /\ h.tab = t /\ h.ws = Source /\ Full(h) /\ Placed(rows, h)
  BY <1>1, <1>6, TripRows
<1>8. d.id # h.id /\ ~Clash(d, h) /\ ~SameKey(d, h)
  <2>1. ApartRows(l.what[t]) /\ KeysApart(l.what[t])
    BY DEF TripDoc
  <2>2. PICK i \in DOMAIN l.what[t], j \in DOMAIN l.what[t] : l.what[t][i] = d /\ l.what[t][j] = h
    BY <1>1, <1>6 DEF Range
  <2>3. i # j
    BY <1>6, <2>2
  <2>4. d.id # h.id
    BY <2>1, <2>2, <2>3 DEF ApartRows
  <2>5. ~SameKey(d, h)
    BY <2>1, <2>2, <2>3 DEF KeysApart
  <2> QED BY <2>1, <2>4, <2>5, <1>1, <1>6 DEF ApartRows
<1>9. c = Translated(l.map, h)
  BY DEF Current
<1>10. Copied(l.map, h, c)
  BY <1>1, <1>7, <1>9, TranslatedRow DEF Copied, NewOf
<1>11. \A x \in Refs : NewOf(l.map, d[x]) = NewOf(l.map, h[x]) => d[x] = h[x]
  <2>1. \A o \in l.objs : o.new
    BY DEF TripObjects
  <2>2. \A x \in Refs : /\ d[x] # Nil => \E r \in rows : r.id = d[x]
                        /\ h[x] # Nil => \E r \in rows : r.id = h[x]
    BY <1>7 DEF Placed
  <2> QED BY <2>1, <2>2, RefsApart
<1>12. s \in Matches(Seen(q, t), c)
  BY DEF Found, Candidates
<1> QED BY <1>7, <1>8, <1>10, <1>11, <1>12, <1>5, MatchedKey

LEMMA StartTrips ==
  ASSUME ShapeInv, TripInv, NEW q \in Loads, NEW kind \in {"import", "ingest", "upsert"},
         NEW w \in Workspaces, NEW what \in Documents, Start(q, kind, w, what),
         kind = "import" =>
           /\ DocRows(rows, what) /\ \A t \in Tabs : ApartRows(what[t])
           /\ \A t \in Tabs : \A r \in Range(what[t]) : r \in Row /\ Placed(rows, r)
  PROVE  TripInv'
<1> DEFINE l == load'[q]
<1>1. /\ load' = [load EXCEPT ![q] = l]
      /\ l.kind = kind /\ l.ws = w /\ l.todo = what /\ l.what = what /\ l.objs = {} /\ l.map = <<>>
      /\ l.hit = Nil /\ l.out = Empty /\ (l.fresh <=> \A r \in rows : r.ws # w)
  BY DEF Start, ShapeInv, BulkTypes, NoLoad
<1>2. rows' = rows /\ doc' = doc
  BY DEF Start
<1> HIDE DEF l
<1>3. \A t \in Tabs : Passed(l, t) = {} /\ Landing(l, t) = {}
  BY <1>1 DEF Passed, Landing, RowsOf
<1>4. ASSUME Tripping(l) PROVE TripDoc(rows, l) /\ TripMap(rows, l) /\ TripObjects(rows, l)
  <2>1. kind = "import" /\ l.fresh
    BY <1>1, <1>4 DEF Tripping
  <2>2. TripDoc(rows, l)
    BY <1>1, <1>3, <2>1 DEF TripDoc, ApartRows
  <2>3. TripMap(rows, l)
    BY <1>1 DEF TripMap
  <2>4. TripObjects(rows, l)
    BY <1>1, <1>3, <2>1 DEF TripObjects
  <2> QED BY <2>2, <2>3, <2>4
<1>5. TripLoad(rows, l)
  BY <1>1, <1>4, ApartEmpty DEF TripLoad, Empty
<1> QED BY <1>1, <1>2, <1>5, OneLoadTrips DEF TripInv

LEMMA StartsTrips ==
  ASSUME ShapeInv, LinkInv, TripInv, NEW q \in Loads, NEW w \in Workspaces,
         \/ StartImport(q, w)
         \/ \E what \in Payloads : StartIngest(q, w, what) \/ StartUpsert(q, w, what)
         \/ \E c \in Of(w, "contact"), v \in Values : StartText(q, c, v)
  PROVE  TripInv'
<1>1. CASE StartImport(q, w)
  <2>1. doc \in Documents /\ DocRows(rows, doc) /\ \A t \in Tabs : \A r \in Range(doc[t]) : r \in Row
    BY DEF ShapeInv, BulkTypes, Documents, Lines, Range
  <2>2. \A t \in Tabs : \A r \in Range(doc[t]) : Placed(rows, r)
    BY DEF LinkInv, DocLinks, Foreseen, Placed
  <2> QED BY <1>1, <2>1, <2>2, StartTrips DEF StartImport, TripInv
<1>2. ASSUME NEW what \in Payloads, StartIngest(q, w, what) \/ StartUpsert(q, w, what)
      PROVE  TripInv'
  <2>1. what \in [Tabs -> Seq(Item)]
    BY BulkAssumption
  <2>2. what \in Documents
    BY <2>1 DEF Documents, Lines
  <2> QED BY <1>2, <2>2, StartTrips DEF StartIngest, StartUpsert
<1>3. ASSUME NEW c \in Of(w, "contact"), NEW v \in Values, StartText(q, c, v)
      PROVE  TripInv'
  <2> DEFINE n == TextNote(c, v)
             what == [Empty EXCEPT !["note"] = <<n>>]
  <2>1. n \in Text /\ c.ws = w
    BY DEF Text, TextNote, Of, ShapeInv, BulkTypes, Row
  <2>2. Start(q, "ingest", w, what)
    BY <1>3, <2>1 DEF StartText
  <2> HIDE DEF n
  <2>3. what \in Documents
    <3>1. <<n>> \in Seq(Lines)
      BY <2>1 DEF Lines
    <3> QED BY <3>1, EmptyType DEF Documents
  <2> HIDE DEF what
  <2> QED BY <2>2, <2>3, StartTrips
<1> QED BY <1>1, <1>2, <1>3

LEMMA LookTrips ==
  ASSUME ShapeInv, TripInv, NEW q \in Loads, NEW t \in Tabs, Look(q, t)
  PROVE  TripInv'
<1> DEFINE l == load[q]
<1>0. /\ rows' = rows /\ doc' = doc /\ l \in Records /\ TripLoad(rows, l) /\ AtHand(q, t)
  BY DEF Look, ShapeInv, BulkTypes, TripInv
<1>1. CASE load' = [load EXCEPT ![q] = [l EXCEPT !.looked = TRUE, !.hit = Nil]]
  <2> DEFINE m == [l EXCEPT !.looked = TRUE, !.hit = Nil]
  <2>1. /\ m.kind = l.kind /\ m.ws = l.ws /\ m.what = l.what /\ m.todo = l.todo /\ m.objs = l.objs
        /\ m.map = l.map /\ m.hit = Nil /\ m.out = l.out /\ m.alone = l.alone /\ m.fresh = l.fresh
    BY <1>0 DEF Records
  <2> HIDE DEF m
  <2>2. TripLoad(rows, m)
    <3>1. \A u \in Tabs : Passed(m, u) = Passed(l, u) /\ Landing(m, u) = Landing(l, u)
      BY <2>1 DEF Passed, Landing
    <3>2. TripDoc(rows, l) => TripDoc(rows, m)
      BY <2>1, <3>1 DEF TripDoc
    <3>3. TripMap(rows, l) => TripMap(rows, m)
      BY <2>1 DEF TripMap
    <3>4. TripObjects(rows, l) => TripObjects(rows, m)
      BY <2>1, <3>1 DEF TripObjects
    <3>5. Tripping(m) = Tripping(l)
      BY <2>1 DEF Tripping
    <3> QED BY <1>0, <2>1, <3>2, <3>3, <3>4, <3>5 DEF TripLoad
  <2> QED BY <1>0, <1>1, <2>2, OneLoadTrips DEF m, TripInv
<1>2. ASSUME NEW s \in Found(q, t), NEW x \in BOOLEAN,
             load' = [load EXCEPT ![q] = [l EXCEPT !.looked = TRUE, !.hit = s.id, !.apart = x,
                                                   !.objs = Taken(l.objs, s)]]
      PROVE  TripInv'
  <2> DEFINE m == [l EXCEPT !.looked = TRUE, !.hit = s.id, !.apart = x, !.objs = Taken(l.objs, s)]
  <2>1. /\ m.kind = l.kind /\ m.what = l.what /\ m.out = l.out /\ m.alone = l.alone
        /\ m.fresh = l.fresh
    BY <1>0 DEF Records
  <2> HIDE DEF m
  <2>2. ~Tripping(l)
    BY <1>0, TripFindsNone DEF TripLoad, Tripping
  <2>3. TripLoad(rows, m)
    BY <1>0, <2>1, <2>2 DEF TripLoad, Tripping
  <2> QED BY <1>0, <1>2, <2>3, OneLoadTrips DEF m, TripInv
<1> QED BY <1>1, <1>2, LookIs

LEMMA RowErrorTrips ==
  ASSUME ShapeInv, TripInv, NEW q \in Loads, NEW t \in Tabs, RowError(q, t)
  PROVE  TripInv'
<1> DEFINE l == load[q]
           todo == [l.todo EXCEPT ![t] = Tail(@)]
           m == [l EXCEPT !.todo = todo]
<1>0. /\ l \in Records /\ TripLoad(rows, l) /\ load \in [Loads -> Records]
      /\ rows' = rows /\ doc' = doc
      /\ load' = [load EXCEPT ![q].todo[t] = Tail(@)] /\ AtHand(q, t)
  BY DEF ShapeInv, BulkTypes, RowError, TripInv
<1>1. l.kind # "import"
  BY DEF RowError, Lands
<1>2. load' = [load EXCEPT ![q] = m]
  BY <1>0
<1>3. m.kind = l.kind /\ m.out = l.out
  BY <1>0 DEF Records
<1> HIDE DEF m
<1>4. TripLoad(rows, m)
  BY <1>0, <1>1, <1>3 DEF TripLoad, Tripping
<1> QED BY <1>0, <1>2, <1>4, OneLoadTrips DEF TripInv

LEMMA ExportTrips ==
  ASSUME ShapeInv, TripInv, NEW q \in Loads,
         StartExport(q) \/ EndExport(q) \/ \E t \in Tabs : ReadTable(q, t)
  PROVE  TripInv'
<1>1. CASE StartExport(q)
  <2> DEFINE m == [NoLoad EXCEPT !.kind = "export", !.ws = Source, !.left = Tabs]
  <2>1. load' = [load EXCEPT ![q] = m] /\ rows' = rows /\ doc' = doc
    BY <1>1 DEF StartExport
  <2>2. m.kind = "export" /\ m.out = Empty
    BY DEF NoLoad
  <2> HIDE DEF m
  <2>3. TripLoad(rows, m)
    BY <2>2, ApartEmpty DEF TripLoad, Tripping, Empty
  <2> QED BY <2>1, <2>3, OneLoadTrips DEF TripInv
<1>2. CASE EndExport(q)
  <2>1. load' = [load EXCEPT ![q] = NoLoad] /\ rows' = rows /\ doc' = load[q].out
    BY <1>2 DEF EndExport
  <2> QED BY <2>1, NoLoadTrips, OneLoadTrips DEF TripInv, TripLoad
<1>3. ASSUME NEW t \in Tabs, ReadTable(q, t) PROVE TripInv'
  <2>1. PICK s \in SetToSeqs(Of(Source, t)), m \in Records : ReadAs(q, t, s, m)
    BY <1>3, ReadTableIs
  <2>2. rows' = rows /\ doc' = doc
    BY <1>3 DEF ReadTable
  <2>3. /\ s \in Seq(Row) /\ Range(s) = Of(Source, t) /\ Len(s) = Cardinality(Of(Source, t))
        /\ \A i, j \in DOMAIN s : i # j => s[i] # s[j]
    BY SelectRows DEF ShapeInv
  <2>4. ApartRows(s)
    <3>1. \A i \in DOMAIN s : s[i] \in rows
      BY <2>3 DEF Range, Of
    <3>2. \A i, j \in DOMAIN s : i # j => s[i].id # s[j].id
      BY <2>3, <3>1 DEF ShapeInv, RowsInv
    <3>3. \A r, u \in Range(s) : ~Clash(r, u)
      BY <2>3 DEF ShapeInv, RowsInv, Of
    <3> QED BY <2>3, <3>2, <3>3 DEF ApartRows
  <2>5. m.kind = "export" /\ \A u \in Tabs : ApartRows(m.out[u])
    BY <2>1, <2>4 DEF ReadAs, TripInv, TripLoad
  <2>6. TripLoad(rows, m)
    BY <2>5 DEF TripLoad, Tripping
  <2> QED BY <2>1, <2>2, <2>6, OneLoadTrips DEF ReadAs, TripInv
<1> QED BY <1>1, <1>2, <1>3

\* A commit or an insert ends the trips of others.
LEMMA RowsChangeTrips ==
  ASSUME ShapeInv, TripInv, doc' = doc,
         \A p \in Loads : load'[p] = NoLoad \/ load'[p] = NotAlone(load[p])
  PROVE  TripInv'
<1>1. ASSUME NEW p \in Loads PROVE TripLoad(rows', load'[p])
  <2>1. CASE load'[p] = NoLoad
    BY <2>1, NoLoadTrips
  <2>2. CASE load'[p] = NotAlone(load[p])
    <3> DEFINE l == load[p]
               m == load'[p]
    <3>1. l \in Records /\ TripLoad(rows, l)
      BY <1>1 DEF ShapeInv, BulkTypes, TripInv
    <3>2. m.kind = l.kind /\ m.out = l.out /\ m.alone = (l.alone /\ l.kind = "idle")
      BY <2>2, <3>1, NotAloneIs
    <3> HIDE DEF l, m
    <3>3. ~Tripping(m)
      BY <3>2 DEF Tripping
    <3>4. TripLoad(rows', m)
      BY <3>1, <3>2, <3>3 DEF TripLoad
    <3> QED BY <3>4 DEF m
  <2> QED BY <1>1, <2>1, <2>2
<1> QED BY <1>1 DEF TripInv

LEMMA RangeFinite ==
  ASSUME NEW S, NEW s \in Seq(S)
  PROVE  IsFiniteSet(Range(s)) /\ Range(s) \subseteq S
<1>1. Len(s) \in Nat /\ DOMAIN s = 1..Len(s) /\ \A i \in DOMAIN s : s[i] \in S
  OBVIOUS
<1>2. IsFiniteSet(DOMAIN s)
  BY <1>1, FS_Interval
<1>3. [i \in DOMAIN s |-> s[i]] \in Surjection(DOMAIN s, Range(s))
  BY DEF Surjection, Range
<1> QED BY <1>1, <1>2, <1>3, FS_Surjection DEF Range

LEMMA RowsOfFinite ==
  ASSUME NEW R, NEW objs, Session(R, objs)
  PROVE  IsFiniteSet(RowsOf(objs))
<1>1. [o \in objs |-> o.row] \in Surjection(objs, RowsOf(objs))
  BY DEF Surjection, RowsOf
<1> QED BY <1>1, FS_Surjection DEF Session

LEMMA TailApart ==
  ASSUME NEW s \in Seq(Lines), s # <<>>, \A i, j \in DOMAIN s : i # j => s[i].id # s[j].id
  PROVE  /\ Head(s) \notin Range(Tail(s))
         /\ \A i, j \in DOMAIN Tail(s) : i # j => Tail(s)[i].id # Tail(s)[j].id
<1>1. /\ Head(s) = s[1] /\ 1 \in DOMAIN s /\ Len(s) \in Nat
      /\ Tail(s) \in Seq(Lines) /\ DOMAIN Tail(s) = 1..(Len(s) - 1) /\ DOMAIN s = 1..Len(s)
      /\ \A i \in DOMAIN Tail(s) : Tail(s)[i] = s[i + 1]
  OBVIOUS
<1>2. \A i \in DOMAIN Tail(s) : i + 1 \in DOMAIN s /\ i + 1 # 1 /\ i \in Int
  BY <1>1
<1>3. \A i, j \in DOMAIN Tail(s) : i # j => i + 1 # j + 1
  BY <1>2
<1> QED BY <1>1, <1>2, <1>3 DEF Range

\* An import that finds nothing adds the row at hand.
LEMMA TripAdds ==
  ASSUME ShapeInv, NEW q \in Loads, NEW t \in Tabs, AtHand(q, t), load[q].kind = "import",
         FreshIds # {}, TripDoc(rows, load[q]), TripObjects(rows, load[q])
  PROVE  LET l == load[q]
             m == AfterRow(q, t)
             h == Head(l.todo[t])
             n == NewRow(l.ws, Current(q, t)) IN
         /\ RowsOf(m.objs) = RowsOf(l.objs) \cup {n}
         /\ n.id = NewId /\ n.tab = t /\ Copied(l.map, h, n)
         /\ \A o \in m.objs : o.new /\ o.row.rest = Nil /\ (o.flushed => o.was = o.row)
         /\ m.map = IF t \in Mapped THEN MapWith(l.map, h.id, NewId) ELSE l.map
         /\ \A u \in Tabs : m.todo[u] = IF u = t THEN Tail(l.todo[t]) ELSE l.todo[u]
         /\ m.what = l.what /\ m.kind = l.kind /\ m.alone = l.alone /\ m.fresh = l.fresh
         /\ m.ws = l.ws /\ m.hit = Nil /\ m.out = l.out
<1> DEFINE l == load[q]
           m == AfterRow(q, t)
           h == Head(l.todo[t])
           c == Current(q, t)
           n == NewRow(l.ws, c)
           f == Fresh(l.ws, c)
<1>1. l.hit = Nil
  BY DEF TripObjects
<1>2. /\ m.what = l.what /\ m.kind = l.kind /\ m.alone = l.alone /\ m.fresh = l.fresh
      /\ m.ws = l.ws /\ m.hit = Nil /\ m.out = l.out
      /\ m.map = IF t \in Mapped THEN MapWith(l.map, h.id, NewId) ELSE l.map
      /\ m.todo = [l.todo EXCEPT ![t] = Tail(@)]
      /\ m.objs = IF Flushes(q, t) THEN Flushed(Applied(q, c)) ELSE Applied(q, c)
  BY <1>1, AfterRowIs
<1>3. l \in Records /\ l.todo \in Documents /\ l.map \in Maps /\ l.ws \in Workspaces
  BY CurrentLine DEF ShapeInv, BulkTypes, Records
<1>4. h \in Row /\ c \in Row /\ c.tab = t /\ Full(c)
  BY CurrentLine
<1>5. c = Translated(l.map, h)
  BY DEF Current
<1>6. Copied(l.map, h, c)
  BY <1>3, <1>4, <1>5, TranslatedRow DEF Copied, NewOf
<1>7. /\ f.new /\ ~f.flushed /\ f.row = n /\ f.row.id = NewId /\ f.row.tab = t /\ f.row.rest = Nil
      /\ \A x \in Columns : f.row[x] = c[x]
  <2>1. c \in Lines
    BY <1>4 DEF Lines
  <2>2. /\ f.new /\ ~f.flushed /\ f.row.id = NewId /\ f.row.tab = c.tab /\ f.row.rest = Nil
        /\ \A x \in Columns : f.row[x] = c[x]
    BY <1>3, <1>4, <2>1, FreshObject
  <2>3. f.row = n
    BY DEF Fresh, Object
  <2> QED BY <1>4, <2>2, <2>3
<1>8. Applied(q, c) = l.objs \cup {f}
  BY <1>1 DEF Applied, Fresh
<1>9. Copied(l.map, h, n)
  <2>1. /\ n.ext = c.ext /\ n.alt = c.alt /\ n.val = c.val /\ n.tab = c.tab
        /\ \A x \in Refs : n[x] = c[x]
    BY <1>4, <1>7 DEF Columns, Refs
  <2> QED BY <1>6, <2>1 DEF Copied
<1> HIDE DEF n, f, c, m
<1>10. RowsOf(Applied(q, c)) = RowsOf(l.objs) \cup {n}
  BY <1>7, <1>8 DEF RowsOf
<1>11. \A o \in Applied(q, c) : o.new /\ o.row.rest = Nil /\ (o.flushed => o.was = o.row)
  BY <1>7, <1>8 DEF TripObjects
<1>12. /\ \A o \in Flushed(Applied(q, c)) : o.flushed /\ o.was = o.row
       /\ \A o \in Applied(q, c) : \E p \in Flushed(Applied(q, c)) : p.row = o.row /\ p.new = o.new
       /\ \A p \in Flushed(Applied(q, c)) : \E o \in Applied(q, c) : p.row = o.row /\ p.new = o.new
  <2>1. Session(rows, Applied(q, c))
    BY AppliedObjects, <1>1 DEF OfSession, c
  <2> QED BY <2>1, SessionFlushed
<1>13. RowsOf(Flushed(Applied(q, c))) = RowsOf(Applied(q, c))
  BY <1>12 DEF RowsOf
<1>14. RowsOf(m.objs) = RowsOf(l.objs) \cup {n}
  BY <1>2, <1>10, <1>13
<1>15. \A o \in m.objs : o.new /\ o.row.rest = Nil /\ (o.flushed => o.was = o.row)
  BY <1>2, <1>11, <1>12
<1>16. \A u \in Tabs : m.todo[u] = IF u = t THEN Tail(l.todo[t]) ELSE l.todo[u]
  BY <1>2, <1>3 DEF Documents
<1> QED BY <1>2, <1>7, <1>9, <1>14, <1>15, <1>16 DEF n, m, c

\* The row at hand joins those that are done, none of which refers to it.
LEMMA DocApplied ==
  ASSUME ShapeInv, NEW q \in Loads, NEW t \in Tabs, AtHand(q, t), load[q].kind = "import",
         load[q].hit = Nil => FreshIds # {}, TripDoc(rows, load[q])
  PROVE  LET l == load[q]
             m == AfterRow(q, t)
             h == Head(l.todo[t]) IN
         /\ TripDoc(rows, m)
         /\ \A u \in Tabs : Passed(m, u) = IF u = t THEN Passed(l, u) \cup {h} ELSE Passed(l, u)
         /\ h \in Row /\ h \notin Passed(l, t) /\ h \in Range(l.what[t])
         /\ t \in Mapped => \A u \in Tabs : \A r \in Passed(m, u) : \A x \in Refs, new \in Ids :
              NewOf(MapWith(l.map, h.id, new), r[x]) = NewOf(l.map, r[x])
<1> DEFINE l == load[q]
           m == AfterRow(q, t)
           s == l.todo[t]
           h == Head(s)
<1>1. /\ s \in Seq(Lines) /\ s # <<>> /\ Hand(l.todo, t) /\ h \in Row /\ l.todo \in Documents
      /\ h \in Range(s) /\ h \in Range(l.what[t]) /\ Session(rows, l.objs) /\ RowsInv
  <2>1. l \in Records /\ Session(rows, l.objs) /\ RowsInv
    BY DEF ShapeInv, BulkTypes, LoadInv, OfSession
  <2>2. s \in Seq(Lines) /\ l.todo \in Documents
    BY <2>1 DEF Records, Documents
  <2>3. s # <<>> /\ Hand(l.todo, t) /\ h \in Row /\ h \in Range(s)
    BY CurrentLine DEF AtHand
  <2> QED BY <2>1, <2>2, <2>3 DEF TripDoc
<1>0. m.what = l.what /\ \A u \in Tabs : m.todo[u] = IF u = t THEN Tail(s) ELSE l.todo[u]
  <2>1. m.what = l.what /\ m.todo = [l.todo EXCEPT ![t] = Tail(@)]
    BY AfterRowIs
  <2> QED BY <1>1, <2>1 DEF Documents
<1> HIDE DEF m, h
<1>2. \A u \in Tabs : \A r \in Range(l.what[u]) :
        r \in Row /\ r.tab = u /\ r.ws = Source /\ Full(r) /\ Placed(rows, r)
  BY TripRows
<1>3. /\ h \notin Range(Tail(s)) /\ Range(s) = {h} \cup Range(Tail(s))
      /\ \A i, j \in DOMAIN Tail(s) : i # j => Tail(s)[i].id # Tail(s)[j].id
  BY <1>1, TailApart, HeadOrTail DEF TripDoc, h
<1>4. \A u \in Tabs : Passed(m, u) = IF u = t THEN Passed(l, u) \cup {h} ELSE Passed(l, u)
  BY <1>0, <1>1, <1>3 DEF Passed
<1>5. h \notin Passed(l, t)
  BY <1>1 DEF Passed
<1>9. \A u \in Tabs : Sections[u] \in Nat /\ (Sections[u] = Sections[t] => u = t)
  BY SectionsApart
<1>10. ASSUME NEW u \in Tabs, Sections[t] < Sections[u] PROVE Passed(l, u) = {}
  BY <1>1, <1>10 DEF TripDoc
<1>11. TripDoc(rows, m)
  <2>1. ASSUME NEW u \in Tabs, NEW v \in Tabs, Sections[u] < Sections[v], Passed(m, v) # {}
        PROVE  m.todo[u] = <<>>
    <3>1. CASE v = t
      BY <1>0, <1>1, <1>9, <2>1, <3>1 DEF Hand
    <3>2. CASE v # t
      <4>1. l.todo[u] = <<>>
        BY <1>4, <2>1, <3>2 DEF TripDoc
      <4> QED BY <4>1, <1>0, <1>1
    <3> QED BY <3>1, <3>2
  <2>2. \A u \in Tabs : Range(m.todo[u]) \subseteq Range(l.todo[u])
    BY <1>0, <1>3
  <2>3. \A u \in Tabs : Range(m.todo[u]) \subseteq Range(m.what[u])
    BY <1>0, <2>2 DEF TripDoc
  <2>4. \A u \in Tabs : \A i, j \in DOMAIN m.todo[u] : i # j => m.todo[u][i].id # m.todo[u][j].id
    <3>1. \A u \in Tabs : \A i, j \in DOMAIN l.todo[u] : i # j => l.todo[u][i].id # l.todo[u][j].id
      BY DEF TripDoc
    <3> SUFFICES ASSUME NEW u \in Tabs
                 PROVE  \A i, j \in DOMAIN m.todo[u] : i # j => m.todo[u][i].id # m.todo[u][j].id
      OBVIOUS
    <3>2. CASE u = t
      <4>1. m.todo[u] = Tail(s)
        BY <1>0, <3>2
      <4> HIDE DEF s
      <4> QED BY <1>3, <4>1
    <3>3. CASE u # t
      <4>1. m.todo[u] = l.todo[u]
        BY <1>0, <3>3
      <4> QED BY <3>1, <4>1
    <3> QED BY <3>2, <3>3
  <2>5. /\ DocRows(rows, m.what) /\ \A u \in Tabs : ApartRows(m.what[u])
        /\ \A u \in Tabs : \A r \in Range(m.what[u]) : r \in Row /\ Placed(rows, r)
    BY <1>0 DEF TripDoc
  <2> QED BY <2>1, <2>3, <2>4, <2>5 DEF TripDoc
<1>12. ASSUME t \in Mapped, NEW u \in Tabs, NEW r \in Passed(m, u), NEW x \in Refs, NEW new \in Ids
       PROVE  NewOf(MapWith(l.map, h.id, new), r[x]) = NewOf(l.map, r[x])
  <2>1. r \in Range(l.what[u]) /\ r.tab = u /\ Placed(rows, r)
    BY <1>12, <1>4, <1>1, <1>2, <1>0 DEF Passed
  <2>2. ~(Sections[t] < Sections[u])
    BY <1>12, <1>4, <1>9, <1>10
  <2>3. PICK k \in rows : Same(k, h)
    BY <1>1 DEF TripDoc, DocRows
  <2>4. h.tab = t /\ h.id # Nil
    BY <1>1, <1>2, BulkAssumption DEF Row
  <2>5. r[x] # h.id
    <3> SUFFICES ASSUME r[x] = h.id PROVE FALSE
      OBVIOUS
    <3>1. PICK k2 \in rows : k2.id = h.id /\ (k2.tab \in Mapped => Sections[k2.tab] < Sections[u])
      BY <2>1, <2>4 DEF Placed
    <3>2. k2 = k
      BY <3>1, <2>3, <1>1 DEF Same, RowsInv
    <3> QED BY <3>1, <3>2, <2>2, <2>3, <2>4, <1>12 DEF Same
  <2>6. \A i : i # h.id => NewOf(MapWith(l.map, h.id, new), i) = NewOf(l.map, i)
    BY DEF NewOf, MapWith
  <2> QED BY <2>5, <2>6
<1> QED BY <1>1, <1>4, <1>5, <1>11, <1>12 DEF m, h

\* What is done keeps its copies.
LEMMA TripApplied ==
  ASSUME ShapeInv, NEW q \in Loads, NEW t \in Tabs, AtHand(q, t), load[q].kind = "import",
         FreshIds # {}, TripDoc(rows, load[q]), TripMap(rows, load[q]), TripObjects(rows, load[q])
  PROVE  LET m == AfterRow(q, t) IN
         TripDoc(rows, m) /\ TripMap(rows, m) /\ TripObjects(rows, m)
<1> DEFINE l == load[q]
           m == AfterRow(q, t)
           h == Head(l.todo[t])
           n == NewRow(l.ws, Current(q, t))
<1>0. /\ RowsOf(m.objs) = RowsOf(l.objs) \cup {n}
      /\ n.id = NewId /\ n.tab = t /\ Copied(l.map, h, n)
      /\ \A o \in m.objs : o.new /\ o.row.rest = Nil /\ (o.flushed => o.was = o.row)
      /\ m.map = IF t \in Mapped THEN MapWith(l.map, h.id, NewId) ELSE l.map
      /\ m.ws = l.ws /\ m.hit = Nil
  BY TripAdds
<1>1. Session(rows, l.objs)
  BY DEF ShapeInv, LoadInv, OfSession
<1>4. /\ TripDoc(rows, m)
      /\ \A u \in Tabs : Passed(m, u) = IF u = t THEN Passed(l, u) \cup {h} ELSE Passed(l, u)
      /\ h \notin Passed(l, t)
      /\ t \in Mapped => \A u \in Tabs : \A r \in Passed(m, u) : \A x \in Refs, new \in Ids :
           NewOf(MapWith(l.map, h.id, new), r[x]) = NewOf(l.map, r[x])
  BY DocApplied
<1> HIDE DEF m, n, h
<1>6. \A u \in Tabs : Landing(m, u) = IF u = t THEN Landing(l, u) \cup {n} ELSE Landing(l, u)
  BY <1>0 DEF Landing
<1>7. \A r \in RowsOf(l.objs) : r.id # NewId
  BY NewIdUnused DEF RowsOf
<1>8. n \notin Landing(l, t)
  BY <1>0, <1>7 DEF Landing
<1>12. ASSUME NEW u \in Tabs, NEW r \in Passed(m, u), NEW x \in Refs
       PROVE  NewOf(m.map, r[x]) = NewOf(l.map, r[x])
  BY <1>0, <1>4, NewIdUnused
<1>13. ASSUME NEW u \in Tabs, NEW r \in Passed(m, u), NEW k
       PROVE  Copied(m.map, r, k) <=> Copied(l.map, r, k)
  BY <1>12 DEF Copied
<1>14. TripMap(rows, m)
  <2>1. \A i \in DOMAIN l.map : \E o \in m.objs : o.row.id = l.map[i]
    <3> SUFFICES ASSUME NEW i \in DOMAIN l.map PROVE \E o \in m.objs : o.row.id = l.map[i]
      OBVIOUS
    <3>1. PICK o \in l.objs : o.row.id = l.map[i]
      BY DEF TripMap
    <3>2. o.row \in RowsOf(m.objs)
      BY <1>0 DEF RowsOf
    <3> QED BY <3>1, <3>2 DEF RowsOf
  <2>2. \E o \in m.objs : o.row.id = NewId
    <3>1. n \in RowsOf(m.objs)
      BY <1>0
    <3> QED BY <1>0, <3>1 DEF RowsOf
  <2>3. \A i \in DOMAIN l.map : l.map[i] # NewId
    BY NewIdUnused DEF TripMap
  <2>4. CASE t \notin Mapped
    BY <1>0, <2>1, <2>4 DEF TripMap
  <2>5. CASE t \in Mapped
    <3>1. /\ DOMAIN m.map = DOMAIN l.map \cup {h.id}
          /\ \A i \in DOMAIN m.map : m.map[i] = IF i = h.id THEN NewId ELSE l.map[i]
      BY <1>0, <2>5 DEF MapWith
    <3>2. \A i, j \in DOMAIN m.map : m.map[i] = m.map[j] => i = j
      BY <3>1, <2>3 DEF TripMap
    <3>3. \A i \in DOMAIN m.map : \E o \in m.objs : o.row.id = m.map[i]
      BY <3>1, <2>1, <2>2
    <3> QED BY <3>2, <3>3 DEF TripMap
  <2> QED BY <2>4, <2>5
<1>15. TripObjects(rows, m)
  <2>1. \A u \in Tabs : \A r \in Passed(m, u) : \E k \in Landing(m, u) : Copied(l.map, r, k)
    BY <1>0, <1>4, <1>6 DEF TripObjects
  <2>2. \A u \in Tabs : \A k \in Landing(m, u) : \E r \in Passed(m, u) : Copied(l.map, r, k)
    BY <1>0, <1>4, <1>6 DEF TripObjects
  <2>3. IsFiniteSet(Landing(l, t)) /\ IsFiniteSet(Passed(l, t))
    <3>1. IsFiniteSet(RowsOf(l.objs))
      BY <1>1, RowsOfFinite
    <3>2. l.what[t] \in Seq(Lines)
      BY DEF ShapeInv, BulkTypes, Records, Documents
    <3>3. IsFiniteSet(Range(l.what[t]))
      BY <3>2, RangeFinite
    <3>4. Landing(l, t) \subseteq RowsOf(l.objs) /\ Passed(l, t) \subseteq Range(l.what[t])
      BY DEF Landing, Passed
    <3> QED BY <3>1, <3>3, <3>4, FS_Subset
  <2>4. \A u \in Tabs : Cardinality(Landing(m, u)) = Cardinality(Passed(m, u))
    <3> SUFFICES ASSUME NEW u \in Tabs PROVE Cardinality(Landing(m, u)) = Cardinality(Passed(m, u))
      OBVIOUS
    <3>1. Cardinality(Landing(l, u)) = Cardinality(Passed(l, u))
      BY DEF TripObjects
    <3>2. CASE u = t
      <4>1. Cardinality(Landing(l, t) \cup {n}) = Cardinality(Landing(l, t)) + 1
        BY <1>8, <2>3, FS_AddElement
      <4>2. Cardinality(Passed(l, t) \cup {h}) = Cardinality(Passed(l, t)) + 1
        BY <1>4, <2>3, FS_AddElement
      <4> QED BY <1>4, <1>6, <3>1, <3>2, <4>1, <4>2
    <3>3. CASE u # t
      BY <1>4, <1>6, <3>1, <3>3
    <3> QED BY <3>2, <3>3
  <2> QED BY <1>0, <1>13, <2>1, <2>2, <2>4 DEF TripObjects
<1> QED BY <1>4, <1>14, <1>15 DEF m

LEMMA ApplyTrips ==
  ASSUME ShapeInv, TripInv, NEW q \in Loads, NEW t \in Tabs, Apply(q, t)
  PROVE  TripInv'
<1> DEFINE l == load[q]
           m == AfterRow(q, t)
<1>1. /\ AtHand(q, t)
      /\ l.hit = Nil => FreshIds # {}
      /\ \/ load' = [load EXCEPT ![q] = NoLoad]
         \/ load' = [load EXCEPT ![q] = m]
      /\ rows' = rows /\ doc' = doc
  BY ApplyIs
<1>2. /\ m.kind = l.kind /\ m.what = l.what /\ m.out = l.out /\ m.alone = l.alone
      /\ m.fresh = l.fresh
  BY <1>1, AfterRowIs
<1>3. TripLoad(rows, l)
  BY DEF TripInv
<1>4. ASSUME Tripping(m) PROVE TripDoc(rows, m) /\ TripMap(rows, m) /\ TripObjects(rows, m)
  <2>1. Tripping(l)
    BY <1>2, <1>4 DEF Tripping
  <2>2. TripDoc(rows, l) /\ TripMap(rows, l) /\ TripObjects(rows, l) /\ l.kind = "import"
    BY <1>3, <2>1 DEF TripLoad, Tripping
  <2>3. FreshIds # {}
    BY <1>1, <2>2 DEF TripObjects
  <2> QED BY <1>1, <2>2, <2>3, TripApplied
<1> HIDE DEF m
<1>5. TripLoad(rows, m)
  BY <1>2, <1>3, <1>4 DEF TripLoad
<1> QED BY <1>1, <1>5, NoLoadTrips, OneLoadTrips DEF TripInv

LEMMA TripsStep ==
  ASSUME ShapeInv, LinkInv, TripInv, [BulkNext]_bulkVars
  PROVE  TripInv'
<1>1. CASE UNCHANGED bulkVars
  BY <1>1 DEF bulkVars, TripInv
<1>2. ASSUME NEW q \in Loads, Requests(q) PROVE TripInv'
  BY <1>2, ExportTrips, StartsTrips DEF Requests
<1>3. ASSUME NEW q \in Loads, NEW t \in Tabs,
             Look(q, t) \/ RowError(q, t) \/ Apply(q, t) \/ ReadTable(q, t)
      PROVE  TripInv'
  BY <1>3, LookTrips, RowErrorTrips, ApplyTrips, ExportTrips
<1>4. ASSUME NEW q \in Loads, Commit(q) \/ DropLoad(q) \/ EndExport(q) PROVE TripInv'
  <2>1. CASE DropLoad(q)
    BY <2>1, NoLoadTrips, OneLoadTrips DEF DropLoad, TripInv
  <2>2. CASE Commit(q)
    <3>1. doc' = doc
      BY <2>2 DEF Commit
    <3>2. CASE load' = [load EXCEPT ![q] = NoLoad] /\ rows' = rows
      BY <3>1, <3>2, NoLoadTrips, OneLoadTrips DEF TripInv
    <3>3. CASE load' = Overlapped(q)
      <4>1. \A p \in Loads : load'[p] = NoLoad \/ load'[p] = NotAlone(load[p])
        BY <3>3 DEF Overlapped
      <4> QED BY <3>1, <4>1, RowsChangeTrips
    <3> QED BY <2>2, <3>2, <3>3 DEF Commit
  <2> QED BY <1>4, <2>1, <2>2, ExportTrips
<1>5. ASSUME NEW w \in Workspaces,
             (\E k \in Keys : CreateContact(w, k))
               \/ \E s, t \in Of(w, "contact") : CreateRelationship(s, t)
      PROVE  TripInv'
  <2>1. \E r : Insert(r)
    BY <1>5 DEF CreateContact, CreateRelationship
  <2>2. doc' = doc /\ load' = [q \in Loads |-> NotAlone(load[q])]
    BY <2>1 DEF Insert
  <2> QED BY <2>2, RowsChangeTrips
<1> QED BY <1>1, <1>2, <1>3, <1>4, <1>5 DEF BulkNext

Anonymous(x, rest) ==
  [id |-> Nil, ws |-> Nil, tab |-> x.tab, ext |-> x.ext, alt |-> x.alt, val |-> x.val,
   up |-> x.up, a |-> x.a, b |-> x.b, rest |-> rest]
LEMMA AnonymousRow ==
  ASSUME NEW x \in Row, NEW z, z = [x EXCEPT !.id = Nil, !.ws = Nil]
  PROVE  z = Anonymous(x, x.rest)
BY DEF Row, Anonymous

LEMMA WithoutRest ==
  ASSUME NEW x \in Row, NEW z, z = [x EXCEPT !.rest = Nil]
  PROVE  z \in Row /\ Anonymous(z, z.rest) = Anonymous(x, Nil)
<1>1. z = [id |-> x.id, ws |-> x.ws, tab |-> x.tab, ext |-> x.ext, alt |-> x.alt, val |-> x.val,
           up |-> x.up, a |-> x.a, b |-> x.b, rest |-> Nil]
  BY DEF Row
<1> QED BY <1>1 DEF Row, Anonymous

\* A copy without the rest has the content the importer carries.
LEMMA CopyContent ==
  ASSUME NEW map \in Maps, NEW r \in Row, NEW s \in Row, Copied(map, r, s), s.rest = Nil
  PROVE  Carried(map, r) = Content(s)
<1> DEFINE p == Translated(map, r)
<1>1. /\ p \in Row /\ p.tab = r.tab /\ p.ext = r.ext /\ p.alt = r.alt /\ p.val = r.val
      /\ \A c \in Refs : p[c] = NewOf(map, r[c])
  BY TranslatedRow DEF NewOf
<1>2. /\ p.tab = s.tab /\ p.ext = s.ext /\ p.alt = s.alt /\ p.val = s.val
      /\ p.up = s.up /\ p.a = s.a /\ p.b = s.b
  BY <1>1 DEF Copied, Refs
<1> DEFINE k == [p EXCEPT !.rest = Nil]
<1>3. Carried(map, r) = Content(k)
  BY DEF Carried
<1> HIDE DEF p
<1>4. k \in Row /\ Anonymous(k, k.rest) = Anonymous(p, Nil)
  <2>1. \A z : z = [p EXCEPT !.rest = Nil] => z \in Row /\ Anonymous(z, z.rest) = Anonymous(p, Nil)
    BY <1>1, WithoutRest
  <2> QED BY <2>1
<1> HIDE DEF k
<1>5. \A x \in Row : Content(x) = Anonymous(x, x.rest)
  <2> SUFFICES ASSUME NEW x \in Row PROVE Content(x) = Anonymous(x, x.rest)
    OBVIOUS
  <2>1. \A z : z = [x EXCEPT !.id = Nil, !.ws = Nil] => z = Anonymous(x, x.rest)
    BY AnonymousRow
  <2> QED BY <2>1 DEF Content
<1>6. Carried(map, r) = Anonymous(p, Nil) /\ Content(s) = Anonymous(s, Nil)
  BY <1>3, <1>4, <1>5
<1> QED BY <1>2, <1>6 DEF Anonymous

\* A session of new objects, of a workspace that is empty, leaves its rows there.
LEMMA NewLands ==
  ASSUME ShapeInv, NEW q \in Loads, \A s \in rows : s.ws # load[q].ws,
         \A o \in load[q].objs : o.new, rows' = View(Flushed(load[q].objs))
  PROVE  {r \in rows' : r.ws = load[q].ws} = RowsOf(load[q].objs)
<1> DEFINE l == load[q]
           fl == Flushed(l.objs)
<1>1. BulkTypes /\ RowsInv /\ Session(rows, l.objs) /\ \A o \in l.objs : o.row.ws = l.ws
  BY DEF ShapeInv, LoadInv, OfSession
<1>2. /\ Session(rows, fl) /\ \A o \in fl : o.flushed /\ o.was = o.row
      /\ \A o \in l.objs : \E p \in fl : p.row = o.row /\ p.new = o.new
      /\ \A p \in fl : \E o \in l.objs : p.row = o.row /\ p.new = o.new
  BY <1>1, SessionFlushed
<1> HIDE DEF fl
<1>3. \A o \in fl : o.new /\ o.row.ws = l.ws
  BY <1>1, <1>2
<1>4. \A s : s \in rows' <=> Untouched(fl, s) \/ FromAdded(fl, s) \/ FromLoaded(fl, s)
  BY <1>1, <1>2, ViewIs DEF fl
<1>5. ASSUME NEW s \in rows', s.ws = l.ws PROVE s \in RowsOf(l.objs)
  <2>1. FromAdded(fl, s)
    BY <1>3, <1>4, <1>5 DEF Untouched, FromLoaded
  <2>2. PICK o \in fl : s = o.row
    BY <2>1, <1>2 DEF FromAdded
  <2> QED BY <2>2, <1>2 DEF RowsOf
<1>6. ASSUME NEW s \in RowsOf(l.objs) PROVE s \in rows' /\ s.ws = l.ws
  <2>1. PICK o \in l.objs : s = o.row
    BY <1>6 DEF RowsOf
  <2>2. PICK p \in fl : p.row = s
    BY <2>1, <1>2
  <2>3. FromAdded(fl, s)
    BY <2>2, <1>2, <1>3 DEF FromAdded
  <2> QED BY <2>1, <2>3, <1>1, <1>4
<1> QED BY <1>5, <1>6

\* The commit of a trip gives its workspace the rows of the document.
LEMMA TripCommits ==
  ASSUME ShapeInv, TripInv, NEW q \in Loads, FirstCommit(q),
         \A t \in Tabs : KeysApart(load[q].what[t]), NEW t \in Tabs
  PROVE  /\ Cardinality(Arrived(q, t)) = Len(load[q].what[t])
         /\ {Carried(load[q].map, r) : r \in Range(load[q].what[t])}
              = {Content(r) : r \in Arrived(q, t)}
<1> DEFINE l == load[q]
           landed == Arrived(q, t)
<1>1. TripDoc(rows, l) /\ TripObjects(rows, l)
  BY DEF TripInv, TripLoad, Tripping, FirstCommit
<1>2. rows' = View(Flushed(l.objs)) /\ l.todo = Empty
  BY DEF Commit, FirstCommit
<1>3. landed = Landing(l, t)
  <2>1. {r \in rows' : r.ws = l.ws} = RowsOf(l.objs)
    BY <1>1, <1>2, NewLands DEF TripObjects
  <2> QED BY <2>1 DEF Landing, Arrived
<1>4. Passed(l, t) = Range(l.what[t])
  BY <1>2 DEF Passed, Empty, Range
<1>5. Cardinality(Range(l.what[t])) = Len(l.what[t])
  BY <1>1 DEF TripDoc, ApartRows
<1>6. Cardinality(landed) = Len(l.what[t])
  BY <1>1, <1>3, <1>4, <1>5 DEF TripObjects
<1>7. l.map \in Maps /\ \A r \in Range(l.what[t]) : r \in Row
  BY <1>1 DEF ShapeInv, BulkTypes, Records, TripDoc
<1>8. \A s \in Landing(l, t) : s \in Row /\ s.rest = Nil
  BY <1>1 DEF ShapeInv, LoadInv, OfSession, Session, Objects, Landing, RowsOf, TripObjects
<1>9. \A r \in Range(l.what[t]) : \E s \in landed : Carried(l.map, r) = Content(s)
  BY <1>1, <1>3, <1>4, <1>7, <1>8, CopyContent DEF TripObjects
<1>10. \A s \in landed : \E r \in Range(l.what[t]) : Carried(l.map, r) = Content(s)
  BY <1>1, <1>3, <1>4, <1>7, <1>8, CopyContent DEF TripObjects
<1> HIDE DEF landed
<1>11. {Carried(l.map, r) : r \in Range(l.what[t])} = {Content(r) : r \in landed}
  BY <1>9, <1>10
<1> QED BY <1>6, <1>11 DEF landed

\* A document whose keys are distinct, imported alone into a workspace that was empty when
\* the import began, gives it as many rows of each table as the document has: with the
\* columns of the importer's key lists up to their ids, references rewritten, and with
\* nothing of the others (what was deleted is live again, a note has no author).
THEOREM RoundTripHolds == BulkSpec => RoundTrip
<1> DEFINE Trips ==
      \A q \in Loads : FirstCommit(q) /\ (\A t \in Tabs : KeysApart(load[q].what[t])) =>
        \A t \in Tabs :
          /\ Cardinality(Arrived(q, t)) = Len(load[q].what[t])
          /\ {Carried(load[q].map, r) : r \in Range(load[q].what[t])}
               = {Content(r) : r \in Arrived(q, t)}
<1>1. ShapeInv /\ LinkInv /\ TripInv /\ [BulkNext]_bulkVars => ShapeInv' /\ LinkInv' /\ TripInv'
  BY ShapeStep, LinksStep, TripsStep
<1>2. ShapeInv /\ TripInv => [Trips]_bulkVars
  BY TripCommits
<1> QED BY InitShape, InitLinks, InitTrips, <1>1, <1>2, PTL DEF BulkSpec, RoundTrip

-----------------------------------------------------------------------------
(***************************************************************************)
(* The re-run of an import.  What a match has in common with the line it   *)
(* is found for is the line's key (`Alike`), which no overwriting changes. *)
(* A first import, alone, into an empty workspace leaves a row of the key  *)
(* of each line, and no two rows of one key in the mapped tables; there is *)
(* a map that says which (`Imported`).  The re-run finds them as long as   *)
(* its own map agrees with that one, which it does but for lines without a *)
(* key, that are added again, and for what hangs on them (`Lost`).         *)
(***************************************************************************)
People == {"company", "contact"}
KeyCols(r) ==
  CASE r.tab \in People -> IF r.alt = Nil THEN {"ext", "alt"} ELSE {"alt"}
    [] r.tab \in {"deal", "activity", "task"} -> {"ext"}
    [] r.tab = "stage" -> {"up", "alt"}
    [] r.tab = "edge" -> {"a", "b"}
    [] r.tab = "link" -> {"ext", "a"}
    [] r.tab = "note" -> {"a", "val"}
    [] OTHER -> {"alt"}
Alike(r, s) == r.tab = s.tab /\ \A c \in KeyCols(r) : r[c] = s[c]

\* An external id of a person is that of a line, which has the person's email or domain.
Owned(what, s) ==
  s.tab \in People /\ s.ext # Nil => \E r \in Range(what[s.tab]) : r.ext = s.ext /\ r.alt = s.alt

LEMMA KeyColsIn ==
  ASSUME NEW r, r.tab \in Tabs
  PROVE  KeyCols(r) \subseteq Columns
<1>1. r.tab \in {"field", "pipeline", "stage", "company", "contact", "deal", "activity", "note",
                 "task", "edge", "hook", "link", "file"}
  BY DEF Tabs, Sections
<1> QED BY <1>1 DEF KeyCols, Columns, People

LEMMA AlikeCols ==
  ASSUME NEW r, NEW s, Alike(r, s), r.tab \in Tabs
  PROVE  KeyCols(s) = KeyCols(r) /\ (Keyed(r) <=> Keyed(s))
<1>1. r.tab \in {"field", "pipeline", "stage", "company", "contact", "deal", "activity", "note",
                 "task", "edge", "hook", "link", "file"}
  BY DEF Tabs, Sections
<1>2. s.tab = r.tab
  BY DEF Alike
<1>3. CASE r.tab \in People
  <2>1. s.alt = r.alt /\ (r.alt = Nil => s.ext = r.ext)
    BY <1>3 DEF Alike, KeyCols, People
  <2> QED BY <1>2, <1>3, <2>1 DEF KeyCols, Keyed, People
<1>4. CASE r.tab \in {"deal", "activity", "task"}
  <2>1. s.ext = r.ext
    BY <1>4 DEF Alike, KeyCols, People
  <2> QED BY <1>2, <1>4, <2>1 DEF KeyCols, Keyed, People
<1>5. CASE r.tab = "file"
  <2>1. s.alt = r.alt
    BY <1>5 DEF Alike, KeyCols, People
  <2> QED BY <1>2, <1>5, <2>1 DEF KeyCols, Keyed, People
<1>6. CASE r.tab \in {"field", "pipeline", "stage", "note", "edge", "hook", "link"}
  BY <1>2, <1>6 DEF KeyCols, Keyed, People
<1> QED BY <1>1, <1>3, <1>4, <1>5, <1>6 DEF People

LEMMA AlikeSame ==
  ASSUME NEW r, NEW s, r.tab \in Tabs, Alike(r, s)
  PROVE  /\ Alike(s, r) /\ \A u : Alike(s, u) => Alike(r, u)
BY AlikeCols DEF Alike

\* What an import may take for a row is like it and has a key.
LEMMA MatchAlike ==
  ASSUME NEW c \in Row, Full(c), NEW v, NEW s, s \in Matches(v, c), s.tab = c.tab,
         c.tab \in People /\ c.ext # Nil /\ s.ext = c.ext => s.alt = c.alt
  PROVE  Alike(c, s) /\ Keyed(c)
<1>1. c.tab \in {"field", "pipeline", "stage", "company", "contact", "deal", "activity", "note",
                 "task", "edge", "hook", "link", "file"}
  BY DEF Row, Tabs, Sections
<1>2. \A f \in BOOLEAN : s \in ByExternalIdOr(v, c, f) =>
        (s.ext = c.ext /\ c.ext # Nil) \/ (f /\ s.alt = c.alt /\ c.alt # Nil)
  BY DEF ByExternalIdOr, Named
<1>3. CASE c.tab \in {"field", "pipeline", "hook"}
  BY <1>3 DEF Matches, CustomFields, Pipelines, Webhooks, Named, Alike, KeyCols, People, Keyed
<1>4. CASE c.tab = "stage"
  BY <1>4 DEF Matches, Stages, Alike, KeyCols, People, Keyed
<1>5. CASE c.tab \in People
  <2>1. (s.ext = c.ext /\ c.ext # Nil) \/ (s.alt = c.alt /\ c.alt # Nil)
    BY <1>2, <1>5 DEF Matches, Companies, Contacts, People
  <2>2. s.alt = c.alt /\ (c.alt = Nil => s.ext = c.ext /\ c.ext # Nil)
    BY <1>5, <2>1
  <2> QED BY <1>5, <2>2 DEF Alike, KeyCols, Keyed, People
<1>6. CASE c.tab \in {"deal", "activity", "task"}
  <2>1. c.ext = s.ext /\ c.ext # Nil
    BY <1>2, <1>6 DEF Matches, Deals, Activities, Tasks
  <2> QED BY <1>6, <2>1 DEF Alike, KeyCols, Keyed, People
<1>7. CASE c.tab = "note"
  BY <1>7 DEF Matches, Notes, Alike, KeyCols, People, Keyed
<1>8. CASE c.tab = "edge"
  BY <1>8 DEF Matches, Relationships, Alike, KeyCols, People, Keyed
<1>10. CASE c.tab = "link"
  BY <1>10 DEF Matches, MemoryLinks, Alike, KeyCols, People, Keyed
<1>11. CASE c.tab = "file"
  <2>1. c.alt = s.alt /\ c.alt # Nil
    BY <1>11 DEF Matches, Files, Named
  <2> QED BY <1>11, <2>1 DEF Alike, KeyCols, Keyed, People
<1> QED BY <1>1, <1>3, <1>4, <1>5, <1>6, <1>7, <1>8, <1>10, <1>11 DEF People

\* And where there is a row like it, there is something to take.
LEMMA AlikeMatched ==
  ASSUME NEW c \in Row, Keyed(c), NEW v, NEW s \in v, Alike(c, s)
  PROVE  Matches(v, c) # {}
<1>1. c.tab \in {"field", "pipeline", "stage", "company", "contact", "deal", "activity", "note",
                 "task", "edge", "hook", "link", "file"}
  BY DEF Row, Tabs, Sections
<1>2. \A f \in BOOLEAN :
        (s.ext = c.ext /\ c.ext # Nil) \/ (f /\ s.alt = c.alt /\ c.alt # Nil)
          => ByExternalIdOr(v, c, f) # {}
  BY DEF ByExternalIdOr, Named
<1>3. CASE c.tab \in {"field", "pipeline", "hook"}
  BY <1>3 DEF Matches, CustomFields, Pipelines, Webhooks, Named, Alike, KeyCols, People
<1>4. CASE c.tab = "stage"
  BY <1>4 DEF Matches, Stages, Alike, KeyCols, People
<1>5. CASE c.tab \in People
  <2>1. s.alt = c.alt /\ (c.alt = Nil => s.ext = c.ext /\ c.ext # Nil)
    BY <1>5 DEF Alike, KeyCols, Keyed, People
  <2> QED BY <1>2, <1>5, <2>1 DEF Matches, Companies, Contacts, People
<1>6. CASE c.tab \in {"deal", "activity", "task"}
  <2>1. c.ext = s.ext /\ c.ext # Nil
    BY <1>6 DEF Alike, KeyCols, Keyed, People
  <2> QED BY <1>2, <1>6, <2>1 DEF Matches, Deals, Activities, Tasks
<1>7. CASE c.tab = "note"
  BY <1>7 DEF Matches, Notes, Alike, KeyCols, People
<1>8. CASE c.tab = "edge"
  BY <1>8 DEF Matches, Relationships, Alike, KeyCols, People
<1>10. CASE c.tab = "link"
  BY <1>10 DEF Matches, MemoryLinks, Alike, KeyCols, People
<1>11. CASE c.tab = "file"
  <2>1. c.alt = s.alt /\ c.alt # Nil
    BY <1>11 DEF Alike, KeyCols, Keyed, People
  <2> QED BY <1>11, <2>1 DEF Matches, Files, Named
<1> QED BY <1>1, <1>3, <1>4, <1>5, <1>6, <1>7, <1>8, <1>10, <1>11 DEF People

\* A match that is overwritten stays like the row it is overwritten with, and so is a new one.
LEMMA AppliedAlike ==
  ASSUME NEW c \in Row, NEW p, p.tab = c.tab,
         \/ \A x \in Columns : p[x] = c[x]
         \/ \E row \in Row : Alike(c, row) /\
              \A x \in Columns : p[x] = IF x \in Sets(c.tab) THEN c[x] ELSE row[x]
  PROVE  /\ Alike(c, p)
         /\ c.tab \in People => p.ext = c.ext /\ p.alt = c.alt
<1>1. c.tab \in Tabs
  BY DEF Row
<1>2. KeyCols(c) \subseteq Columns
  BY <1>1, KeyColsIn
<1>3. Alike(c, p)
  BY <1>2 DEF Alike
<1>4. c.tab \in People => "ext" \in Sets(c.tab) /\ "alt" \in Sets(c.tab)
  BY DEF Sets, People
<1> QED BY <1>3, <1>4 DEF Columns

-----------------------------------------------------------------------------
(* What a load nobody else overlaps sees, and what a row does to its objects. *)

Based(R, objs) == \A o \in objs : ~o.new => o.base \in R /\ Same(o.base, o.row)
Shown(o) == o.flushed \/ ~o.new

LEMMA PatchedAlone ==
  ASSUME NEW base \in Row, NEW new \in Row, Same(base, new)
  PROVE  Patched(base, new, base) = new
<1> DEFINE p == Patched(base, new, base)
<1>1. /\ p \in Row /\ p.id = base.id /\ p.ws = base.ws /\ p.tab = base.tab /\ p.rest = base.rest
      /\ \A c \in Columns : p[c] = IF new[c] # base[c] THEN new[c] ELSE base[c]
  BY PatchedRow
<1> HIDE DEF p
<1>2. p.id = new.id /\ p.ws = new.ws /\ p.tab = new.tab /\ p.rest = new.rest /\ \A c \in Columns : p[c] = new[c]
  BY <1>1 DEF Same
<1>3. /\ p.ext = new.ext /\ p.alt = new.alt /\ p.val = new.val
      /\ p.up = new.up /\ p.a = new.a /\ p.b = new.b
  BY <1>2 DEF Columns
<1> QED BY <1>1, <1>2, <1>3 DEF Row, p

LEMMA ViewAlone ==
  ASSUME BulkTypes, RowsInv, NEW objs, Session(rows, objs), Based(rows, objs)
  PROVE  /\ \A s \in View(objs) : Untouched(objs, s) \/ \E o \in objs : Shown(o) /\ s = o.was
         /\ \A s : Untouched(objs, s) => s \in View(objs)
         /\ \A o \in objs : Shown(o) => o.was \in View(objs) /\ Same(o.was, o.row)
<1>1. ASSUME NEW o \in objs, ~o.new
      PROVE  /\ Same(o.was, o.row) /\ Same(o.base, o.row) /\ o.base \in rows
             /\ \A r \in rows : Same(r, o.row) => Patched(o.base, o.was, r) = o.was
  <2>1. /\ Same(o.was, o.row) /\ Same(o.base, o.row) /\ o.base \in rows
        /\ o.base \in Row /\ o.was \in Row
    BY <1>1 DEF Session, Loaded1, Based
  <2>2. \A r \in rows : Same(r, o.row) => r = o.base
    BY <2>1 DEF Same, RowsInv
  <2>3. Same(o.base, o.was)
    BY <2>1 DEF Same
  <2> QED BY <2>1, <2>2, <2>3, PatchedAlone
<1>2. \A s \in View(objs) : Untouched(objs, s) \/ \E o \in objs : Shown(o) /\ s = o.was
  BY <1>1, ViewIs DEF FromAdded, FromLoaded, Shown
<1>3. \A s : Untouched(objs, s) => s \in View(objs)
  BY ViewIs
<1>4. ASSUME NEW o \in objs, Shown(o) PROVE o.was \in View(objs) /\ Same(o.was, o.row)
  <2>1. CASE o.new
    BY <1>4, <2>1, ViewIs DEF Shown, FromAdded, Session, Added1
  <2>2. CASE ~o.new
    <3>1. o.was = Patched(o.base, o.was, o.base)
      BY <1>1, <2>2
    <3>2. FromLoaded(objs, o.was)
      BY <3>1, <1>1, <2>2 DEF FromLoaded
    <3> QED BY <1>1, <2>2, <3>2, ViewIs
  <2> QED BY <2>1, <2>2
<1> QED BY <1>2, <1>3, <1>4

\* p is what a row leaves of o; and what it adds.
Turns(l, c, o, p) ==
  /\ p.new = o.new /\ p.base = o.base /\ Same(p.row, o.row)
  /\ (p.was = o.was /\ p.flushed = o.flushed) \/ (p.flushed /\ p.was = p.row)
  /\ o.row.id # l.hit => p.row = o.row
  /\ o.row.id = l.hit =>
       o.row.tab = c.tab
         /\ \A x \in Columns : p.row[x] = IF x \in Given(l.kind, c) THEN c[x] ELSE o.row[x]
Comes(l, c, p) ==
  /\ l.hit = Nil /\ p.new /\ p.row.id = NewId /\ p.row.tab = c.tab
  /\ \A x \in Columns : p.row[x] = c[x]
  /\ p.flushed => p.was = p.row

LEMMA AfterObjects ==
  ASSUME ShapeInv, NEW q \in Loads, NEW t \in Tabs, AtHand(q, t),
         load[q].hit = Nil => FreshIds # {}
  PROVE  LET l == load[q]
             c == Current(q, t)
             m == AfterRow(q, t) IN
         /\ \A p \in m.objs : Comes(l, c, p) \/ \E o \in l.objs : Turns(l, c, o, p)
         /\ \A o \in l.objs : \E p \in m.objs : Turns(l, c, o, p)
         /\ l.hit = Nil => \E p \in m.objs : Comes(l, c, p)
         /\ Flushes(q, t) => \A p \in m.objs : p.flushed
         /\ OfSession(rows, m.objs, l.ws)
<1> DEFINE l == load[q]
           c == Current(q, t)
           m == AfterRow(q, t)
           given == Given(l.kind, c)
           objs == Applied(q, c)
<1>1. /\ OfSession(rows, l.objs, l.ws) /\ HitInv(l) /\ l.ws \in Workspaces
      /\ Hand(l.todo, t) /\ c \in Lines /\ c.tab = t /\ Full(c)
      /\ l.kind \in {"import", "ingest", "upsert"}
      /\ l.kind = "import" => c \in Row
      /\ l.kind # "import" => c \in Item \cup Text
  BY CurrentLine DEF ShapeInv, LoadInv
<1>2. /\ \A o \in l.objs : o \in Objects /\ Full(o.row) /\ o.row.id # Nil
      /\ \A o, p \in l.objs : o.row.id = p.row.id => o = p
  <2>1. \A o \in l.objs : o \in Objects /\ Full(o.row)
    BY <1>1 DEF OfSession, Session
  <2> QED BY <1>1, <2>1, BulkAssumption DEF OfSession, Session, Objects, Row
<1>3. given \in SUBSET {"ext", "alt", "val", "up", "a"} /\ given \cap Required(t) = {}
  BY <1>1, GivenColumns
<1>4. ASSUME NEW o \in l.objs, o.row.id = l.hit PROVE o.row.tab = t
  BY <1>1, <1>2, <1>4 DEF HitInv
<1>5. ASSUME NEW o \in l.objs, o.row.id = l.hit PROVE Turns(l, c, o, Rewritten(o, c, given))
  <2>1. o.row.tab = c.tab /\ o \in Objects /\ Full(o.row)
    BY <1>1, <1>2, <1>4, <1>5
  <2> DEFINE p == Rewritten(o, c, given)
  <2>2. /\ p.base = o.base /\ p.was = o.was /\ p.new = o.new
        /\ p.flushed = o.flushed /\ Same(p.row, o.row)
        /\ \A x \in Columns : p.row[x] = IF x \in given THEN c[x] ELSE o.row[x]
    BY <1>1, <1>3, <2>1, RewrittenObject
  <2> HIDE DEF p
  <2> QED BY <1>5, <2>1, <2>2 DEF Turns, p
<1>6. ASSUME NEW o \in l.objs, o.row.id # l.hit PROVE Turns(l, c, o, o)
  BY <1>6 DEF Turns, Same
<1>7. l.hit = Nil => Comes(l, c, Fresh(l.ws, c))
  BY <1>1, FreshObject DEF Comes
<1>8. /\ \A p \in objs : Comes(l, c, p) \/ \E o \in l.objs : Turns(l, c, o, p)
      /\ \A o \in l.objs : \E p \in objs : Turns(l, c, o, p)
      /\ l.hit = Nil => \E p \in objs : Comes(l, c, p)
  <2>1. \A p \in objs :
          \/ p \in l.objs /\ (l.hit # Nil => p.row.id # l.hit)
          \/ l.hit = Nil /\ p = Fresh(l.ws, c)
          \/ \E o \in l.objs : l.hit # Nil /\ o.row.id = l.hit /\ o.row.tab = t
                               /\ p = Rewritten(o, c, given)
    BY AppliedIs
  <2>2. /\ l.hit = Nil => Fresh(l.ws, c) \in objs
        /\ \A o \in l.objs : o \in objs \/ (o.row.id = l.hit /\ Rewritten(o, c, given) \in objs)
    BY AppliedIs
  <2>3. \A o \in l.objs : o \in objs /\ o.row.id = l.hit => Rewritten(o, c, given) \in objs
    <3> SUFFICES ASSUME NEW o \in l.objs, o \in objs, o.row.id = l.hit
                 PROVE  Rewritten(o, c, given) \in objs
      OBVIOUS
    <3>1. objs = {IF k.row.id # l.hit THEN k ELSE Rewritten(k, c, given) : k \in l.objs}
      BY <1>2 DEF Applied, Rewritten
    <3> QED BY <3>1
  <2> HIDE DEF objs, l, c
  <2>4. \A p \in objs : Comes(l, c, p) \/ \E o \in l.objs : Turns(l, c, o, p)
    BY <2>1, <1>2, <1>5, <1>6, <1>7
  <2>5. \A o \in l.objs : \E p \in objs : Turns(l, c, o, p)
    BY <2>2, <2>3, <1>5, <1>6
  <2> QED BY <2>2, <2>4, <2>5, <1>7
<1>9. OfSession(rows, objs, l.ws)
  BY AppliedObjects
<1>10. m.objs = IF Flushes(q, t) THEN Flushed(objs) ELSE objs
  BY AfterRowIs
<1>11. /\ OfSession(rows, Flushed(objs), l.ws)
       /\ \A o \in Flushed(objs) : o.flushed /\ o.was = o.row
       /\ \A o \in objs : \E p \in Flushed(objs) : p.row = o.row /\ p.new = o.new /\ p.base = o.base
       /\ \A p \in Flushed(objs) : \E o \in objs : p.row = o.row /\ p.new = o.new /\ p.base = o.base
  <2>1. Session(rows, objs) /\ \A o \in objs : o.row.ws = l.ws
    BY <1>9 DEF OfSession
  <2> HIDE DEF objs, l
  <2>2. /\ Session(rows, Flushed(objs))
        /\ \A o \in Flushed(objs) : o.flushed /\ o.was = o.row
        /\ \A o \in objs : \E p \in Flushed(objs) : p.row = o.row /\ p.new = o.new /\ p.base = o.base
        /\ \A p \in Flushed(objs) : \E o \in objs : p.row = o.row /\ p.new = o.new /\ p.base = o.base
    BY <2>1, SessionFlushed
  <2>3. \A p \in Flushed(objs) : p.row.ws = l.ws
    BY <2>1, <2>2
  <2> QED BY <2>2, <2>3 DEF OfSession
<1> HIDE DEF l, c, m, objs
<1>12. \A o, k, p : Turns(l, c, o, k) /\ p.row = k.row /\ p.new = k.new /\ p.base = k.base
         /\ p.flushed /\ p.was = p.row => Turns(l, c, o, p)
  BY DEF Turns
<1>13. \A k, p : Comes(l, c, k) /\ p.row = k.row /\ p.new = k.new
         /\ p.was = p.row => Comes(l, c, p)
  BY DEF Comes
<1>14. /\ \A p \in Flushed(objs) : Comes(l, c, p) \/ \E o \in l.objs : Turns(l, c, o, p)
       /\ \A o \in l.objs : \E p \in Flushed(objs) : Turns(l, c, o, p)
       /\ l.hit = Nil => \E p \in Flushed(objs) : Comes(l, c, p)
  BY <1>8, <1>11, <1>12, <1>13
<1>15. CASE Flushes(q, t)
  <2>1. m.objs = Flushed(objs)
    BY <1>10, <1>15
  <2> QED BY <1>11, <1>14, <2>1 DEF l, c, m
<1>16. CASE ~Flushes(q, t)
  <2>1. m.objs = objs
    BY <1>10, <1>16
  <2> QED BY <1>8, <1>9, <1>16, <2>1 DEF l, c, m
<1> QED BY <1>15, <1>16

-----------------------------------------------------------------------------
(* The lookup of an import, and what Apply does to what is like the line.   *)

Line(l, t) == Head(l.todo[t])

LEMMA ImportLine ==
  ASSUME ShapeInv, NEW q \in Loads, NEW t \in Tabs, AtHand(q, t), load[q].kind = "import",
         NEW map \in Maps
  PROVE  LET h == Line(load[q], t)
             c == Translated(map, h) IN
         /\ h \in Row /\ h.tab = t /\ Full(h) /\ c \in Row /\ c.tab = t
         /\ c.ext = h.ext /\ c.alt = h.alt /\ c.val = h.val
         /\ \A x \in Refs : c[x] = NewOf(map, h[x])
<1>1. Line(load[q], t) \in Row
  BY CurrentLine DEF Line
<1>2. Line(load[q], t).tab = t /\ Full(Line(load[q], t))
  BY CurrentLine DEF Line, ShapeInv, LoadInv, LinesInv
<1> QED BY <1>1, <1>2, TranslatedRow DEF NewOf

LEMMA ImportCurrent ==
  ASSUME ShapeInv, NEW q \in Loads, NEW t \in Tabs, AtHand(q, t), load[q].kind = "import"
  PROVE  /\ Current(q, t) = Translated(load[q].map, Line(load[q], t)) /\ load[q].map \in Maps
         /\ Current(q, t) \in Row /\ Current(q, t).tab = t /\ Full(Current(q, t))
<1>1. load[q].map \in Maps
  BY DEF ShapeInv, BulkTypes, Records
<1> QED BY <1>1, CurrentLine DEF Current, Line

LEMMA ImportMatch ==
  ASSUME ShapeInv, NEW q \in Loads, NEW t \in Tabs, AtHand(q, t), load[q].kind = "import",
         TripDoc(rows, load[q]), NEW s \in Found(q, t), Owned(load[q].what, s)
  PROVE  /\ Alike(Current(q, t), s) /\ Keyed(Current(q, t))
         /\ s \in View(load[q].objs) /\ s.ws = load[q].ws /\ s.tab = t
<1> DEFINE l == load[q]
           c == Current(q, t)
           h == Line(l, t)
<1>1. s \in View(l.objs) /\ s.ws = l.ws /\ s.tab = t
  BY FoundSeen DEF Seen
<1>2. c \in Row /\ c.tab = t /\ Full(c) /\ c.ext = h.ext /\ c.alt = h.alt
  BY ImportCurrent, ImportLine
<1>3. s \in Matches(Seen(q, t), c)
  BY DEF Found, Candidates
<1>4. ASSUME t \in People, c.ext # Nil, s.ext = c.ext PROVE s.alt = c.alt
  <2>1. PICK r \in Range(l.what[t]) : r.ext = s.ext /\ r.alt = s.alt
    BY <1>1, <1>4 DEF Owned
  <2>2. h \in Range(l.what[t])
    BY CurrentLine DEF TripDoc, Line
  <2>3. /\ r \in Row /\ r.tab = t /\ r.ws = Source
        /\ h \in Row /\ h.tab = t /\ h.ws = Source
    BY <2>1, <2>2, TripRows
  <2>4. Source # Nil
    BY BulkAssumption
  <2>5. r.id = h.id
    <3>1. ~Clash(r, h)
      BY <2>1, <2>2 DEF TripDoc, ApartRows
    <3> QED BY <3>1, <2>1, <2>3, <2>4, <1>2, <1>4 DEF Clash, KeyColumns, People
  <2>6. r = h
    <3>1. PICK i \in DOMAIN l.what[t], j \in DOMAIN l.what[t] : l.what[t][i] = r /\ l.what[t][j] = h
      BY <2>1, <2>2 DEF Range
    <3> QED BY <3>1, <2>5 DEF TripDoc, ApartRows
  <2> QED BY <2>1, <2>6, <1>2
<1> HIDE DEF c
<1>5. Alike(c, s) /\ Keyed(c)
  BY <1>1, <1>2, <1>3, <1>4, MatchAlike
<1> QED BY <1>1, <1>5 DEF c

LEMMA ImportMiss ==
  ASSUME ShapeInv, NEW q \in Loads, NEW t \in Tabs, AtHand(q, t), load[q].kind = "import",
         Found(q, t) = {}, Keyed(Current(q, t)), NEW s \in View(load[q].objs),
         s.ws = load[q].ws, Alike(Current(q, t), s)
  PROVE  FALSE
<1> DEFINE c == Current(q, t)
<1>1. c \in Row /\ c.tab = t
  BY ImportCurrent
<1>2. s \in Seen(q, t)
  BY <1>1 DEF Seen, Alike
<1>3. Found(q, t) = Matches(Seen(q, t), c)
  BY DEF Found, Candidates
<1> QED BY <1>1, <1>2, <1>3, AlikeMatched

\* What was like the line stays like it; what is not touched stays as it is; what comes is
\* like the line.
LEMMA ImportApplied ==
  ASSUME ShapeInv, NEW q \in Loads, NEW t \in Tabs, AtHand(q, t), load[q].kind = "import",
         load[q].hit = Nil => FreshIds # {}, TripDoc(rows, load[q]),
         \A o \in load[q].objs : o.row.id = load[q].hit => Alike(Current(q, t), o.row)
  PROVE  LET l == load[q]
             c == Current(q, t)
             m == AfterRow(q, t) IN
         /\ \A o \in l.objs, p \in m.objs : Turns(l, c, o, p) =>
              /\ Alike(o.row, p.row)
              /\ Owned(l.what, o.row) => Owned(l.what, p.row)
              /\ o.row.id = l.hit => Alike(c, p.row)
         /\ \A p \in m.objs : Comes(l, c, p) => Alike(c, p.row) /\ Owned(l.what, p.row)
<1> DEFINE l == load[q]
           c == Current(q, t)
           m == AfterRow(q, t)
           h == Line(l, t)
<1>1. c \in Row /\ c.tab = t /\ c.ext = h.ext /\ c.alt = h.alt /\ h \in Range(l.what[t])
  <2>1. h \in Range(l.what[t])
    BY CurrentLine DEF TripDoc, Line
  <2> QED BY <2>1, ImportCurrent, ImportLine
<1>2. Given(l.kind, c) = Sets(c.tab)
  BY DEF Given
<1>3. \A o \in l.objs : o.row \in Row
  BY DEF ShapeInv, LoadInv, OfSession, Session, Objects
<1> HIDE DEF c, m, h
<1>4. ASSUME NEW p, p.row.tab = t, t \in People => p.row.ext = c.ext /\ p.row.alt = c.alt
      PROVE  Owned(l.what, p.row)
  BY <1>1, <1>4 DEF Owned
<1>5. ASSUME NEW o \in l.objs, NEW p \in m.objs, Turns(l, c, o, p), o.row.id = l.hit
      PROVE  Alike(o.row, p.row) /\ Owned(l.what, p.row) /\ Alike(c, p.row)
  <2>1. /\ Alike(c, o.row) /\ o.row \in Row /\ o.row.tab = t /\ p.row.tab = t
        /\ \A x \in Columns : p.row[x] = IF x \in Sets(c.tab) THEN c[x] ELSE o.row[x]
    BY <1>1, <1>2, <1>3, <1>5 DEF Turns, Same, c
  <2>2. Alike(c, p.row) /\ (t \in People => p.row.ext = c.ext /\ p.row.alt = c.alt)
    BY <1>1, <2>1, AppliedAlike
  <2>3. Owned(l.what, p.row)
    BY <1>4, <2>1, <2>2
  <2>4. Alike(o.row, c)
    BY <1>1, <2>1, AlikeSame
  <2>5. Alike(o.row, p.row)
    BY <2>1, <2>2, <2>4, AlikeSame
  <2> QED BY <2>2, <2>3, <2>5
<1>6. ASSUME NEW o \in l.objs, NEW p \in m.objs, Turns(l, c, o, p), o.row.id # l.hit
      PROVE  Alike(o.row, p.row) /\ p.row = o.row
  BY <1>6 DEF Turns, Alike
<1>7. ASSUME NEW p \in m.objs, Comes(l, c, p) PROVE Alike(c, p.row) /\ Owned(l.what, p.row)
  <2>1. p.row.tab = c.tab /\ \A x \in Columns : p.row[x] = c[x]
    BY <1>7 DEF Comes
  <2>2. Alike(c, p.row) /\ (t \in People => p.row.ext = c.ext /\ p.row.alt = c.alt)
    BY <1>1, <2>1, AppliedAlike
  <2> QED BY <1>1, <1>4, <2>1, <2>2
<1> QED BY <1>5, <1>6, <1>7 DEF m, c

-----------------------------------------------------------------------------
(* The first import, alone, into a workspace that was empty.               *)

FirstObjects(l) ==
  /\ \A o \in l.objs :
       /\ o.new /\ Owned(l.what, o.row) /\ (o.row.tab \in Mapped => o.flushed)
       /\ o.flushed => Alike(o.row, o.was) /\ Owned(l.what, o.was)
  /\ \A o, p \in l.objs :
       o.row.tab \in Mapped /\ Keyed(o.row) /\ Alike(o.row, p.row) => o = p
FirstMap(l) ==
  /\ \A t \in Tabs : \A r \in Passed(l, t) : \E o \in l.objs :
       /\ Alike(Translated(l.map, r), o.row)
       /\ t \in Mapped => r.id \in DOMAIN l.map /\ l.map[r.id] = o.row.id
  /\ \A i \in DOMAIN l.map : \E t \in Mapped : \E r \in Range(l.what[t]) : r.id = i
FirstLook(l) ==
  \A t \in Tabs : Hand(l.todo, t) /\ l.looked =>
    LET c == Translated(l.map, Line(l, t)) IN
    /\ \A o \in l.objs : o.row.id = l.hit => Alike(c, o.row)
    /\ l.hit = Nil /\ t \in Mapped /\ Keyed(c) => \A o \in l.objs : ~Alike(c, o.row)
First(R, l) ==
  (\A s \in R : s.ws # l.ws) /\ FirstObjects(l) /\ FirstMap(l) /\ FirstLook(l)

LEMMA FirstFinds ==
  ASSUME ShapeInv, NEW q \in Loads, NEW t \in Tabs, AtHand(q, t), load[q].kind = "import",
         TripDoc(rows, load[q]), First(rows, load[q])
  PROVE  LET l == load[q]
             c == Current(q, t) IN
         /\ \A s \in Found(q, t) :
              Taken(l.objs, s) = l.objs /\ \A o \in l.objs : o.row.id = s.id => Alike(c, o.row)
         /\ Found(q, t) = {} /\ t \in Mapped /\ Keyed(c) => \A o \in l.objs : ~Alike(c, o.row)
<1> DEFINE l == load[q]
           c == Current(q, t)
<1>1. /\ BulkTypes /\ RowsInv /\ Session(rows, l.objs) /\ \A o \in l.objs : o.row.ws = l.ws
      /\ \A o \in l.objs : o.row.tab \in Tabs
  BY DEF ShapeInv, LoadInv, OfSession, Session, Objects, Row
<1>2. Based(rows, l.objs)
  BY DEF Based, First, FirstObjects
<1>3. /\ \A s \in View(l.objs) : Untouched(l.objs, s) \/ \E o \in l.objs : Shown(o) /\ s = o.was
      /\ \A o \in l.objs : Shown(o) => o.was \in View(l.objs) /\ Same(o.was, o.row)
  BY <1>1, <1>2, ViewAlone
<1>4. \A o \in l.objs : /\ o.new /\ Owned(l.what, o.row) /\ (o.row.tab \in Mapped => o.flushed)
                        /\ o.flushed => Alike(o.row, o.was) /\ Owned(l.what, o.was)
  BY DEF First, FirstObjects
<1>5. c \in Row /\ c.tab = t
  BY ImportCurrent
<1> HIDE DEF c
<1>6. ASSUME NEW s \in Found(q, t)
      PROVE  Taken(l.objs, s) = l.objs /\ \A o \in l.objs : o.row.id = s.id => Alike(c, o.row)
  <2>1. s \in View(l.objs) /\ s.ws = l.ws
    BY FoundSeen DEF Seen
  <2>2. ~Untouched(l.objs, s)
    BY <2>1 DEF Untouched, First
  <2>3. PICK o \in l.objs : o.flushed /\ s = o.was /\ Same(s, o.row)
    BY <1>3, <1>4, <2>1, <2>2 DEF Shown
  <2>4. Alike(c, s)
    BY <2>3, <1>4, ImportMatch DEF c
  <2>5. Alike(c, o.row)
    <3>1. Alike(s, o.row)
      BY <1>1, <1>4, <2>3, AlikeSame
    <3> QED BY <3>1, <2>4, <1>5, AlikeSame
  <2>6. s.id = o.row.id
    BY <2>3 DEF Same
  <2> QED BY <2>3, <2>5, <2>6, <1>1 DEF Taken, IdsOf, Session
<1>7. ASSUME Found(q, t) = {}, t \in Mapped, Keyed(c), NEW o \in l.objs, Alike(c, o.row)
      PROVE  FALSE
  <2>1. o.row.tab = t
    BY <1>5, <1>7 DEF Alike
  <2>2. o.flushed /\ Alike(o.row, o.was) /\ o.was \in View(l.objs) /\ Same(o.was, o.row)
    BY <1>3, <1>4, <1>7, <2>1 DEF Shown
  <2>3. Alike(c, o.was) /\ o.was.ws = l.ws
    BY <1>1, <1>5, <1>7, <2>2, AlikeSame DEF Same
  <2> QED BY <1>7, <2>2, <2>3, ImportMiss DEF c
<1> QED BY <1>6, <1>7 DEF c

LEMMA FirstLooks ==
  ASSUME ShapeInv, NEW q \in Loads, NEW t \in Tabs, AtHand(q, t), load[q].kind = "import",
         TripDoc(rows, load[q]), First(rows, load[q]), NEW m,
         m.objs = load[q].objs, m.what = load[q].what, m.todo = load[q].todo,
         m.map = load[q].map, m.ws = load[q].ws, m.looked,
         (m.hit = Nil /\ Found(q, t) = {}) \/ \E s \in Found(q, t) : m.hit = s.id
  PROVE  First(rows, m)
<1> DEFINE l == load[q]
           c == Current(q, t)
<1>1. c = Translated(l.map, Line(l, t)) /\ Hand(l.todo, t)
  BY ImportCurrent, CurrentLine
<1>2. \A u \in Tabs : Hand(l.todo, u) => u = t
  BY <1>1, HandOne
<1>3. \A s \in Found(q, t) : s.id # Nil /\ \A o \in l.objs : o.row.id = s.id => Alike(c, o.row)
  BY FirstFinds, FoundSeen, SeenRows, BulkAssumption DEF Row
<1>4. Found(q, t) = {} /\ t \in Mapped /\ Keyed(c) => \A o \in l.objs : ~Alike(c, o.row)
  BY FirstFinds
<1>5. \A o \in l.objs : o.row.id # Nil
  BY BulkAssumption DEF ShapeInv, LoadInv, OfSession, Session, Objects, Row
<1>6. Line(m, t) = Line(l, t)
  BY DEF Line
<1> HIDE DEF c
<1>7. FirstLook(m)
  BY <1>1, <1>2, <1>3, <1>4, <1>5, <1>6 DEF FirstLook
<1>8. \A u \in Tabs : Passed(m, u) = Passed(l, u)
  BY DEF Passed
<1>9. FirstObjects(m) /\ FirstMap(m)
  BY <1>8 DEF First, FirstObjects, FirstMap
<1> QED BY <1>7, <1>9 DEF First

LEMMA TranslatedEqual ==
  ASSUME NEW map \in Maps, NEW map2 \in Maps, NEW r \in Row,
         \A x \in Refs : NewOf(map, r[x]) = NewOf(map2, r[x])
  PROVE  Translated(map, r) = Translated(map2, r)
<1>1. NewOf(map, r.up) = NewOf(map2, r.up) /\ NewOf(map, r.a) = NewOf(map2, r.a)
      /\ NewOf(map, r.b) = NewOf(map2, r.b)
  BY DEF Refs
<1>2. \A k \in Maps : Translated(k, r) = [r EXCEPT !.up = NewOf(k, r.up), !.a = NewOf(k, r.a),
                                                   !.b = NewOf(k, r.b)]
  BY DEF Translated, NewOf, Row
<1> QED BY <1>1, <1>2

\* A row is on one line of a document.
LEMMA LinesApart ==
  ASSUME RowsInv, NEW l, TripDoc(rows, l), NEW t \in Tabs, NEW u \in Tabs,
         NEW r \in Range(l.what[t]), NEW h \in Range(l.what[u]), r.id = h.id
  PROVE  t = u /\ r = h
<1>1. r.tab = t /\ h.tab = u
  BY TripRows
<1>2. PICK s \in rows, k \in rows : Same(s, r) /\ Same(k, h)
  BY DEF TripDoc, DocRows
<1>3. s = k
  BY <1>2 DEF Same, RowsInv
<1>4. t = u
  BY <1>1, <1>2, <1>3 DEF Same
<1>5. PICK i \in DOMAIN l.what[t], j \in DOMAIN l.what[t] : l.what[t][i] = r /\ l.what[t][j] = h
  BY <1>4 DEF Range
<1> QED BY <1>4, <1>5 DEF TripDoc, ApartRows

LEMMA FirstAppliedObjects ==
  ASSUME ShapeInv, NEW q \in Loads, NEW t \in Tabs, AtHand(q, t), load[q].kind = "import",
         load[q].looked, load[q].hit = Nil => FreshIds # {}, TripDoc(rows, load[q]),
         First(rows, load[q])
  PROVE  FirstObjects(AfterRow(q, t))
<1> DEFINE l == load[q]
           c == Current(q, t)
           m == AfterRow(q, t)
<1>1. /\ c = Translated(l.map, Line(l, t)) /\ Hand(l.todo, t) /\ c.tab = t /\ c \in Row
      /\ m.what = l.what
  BY ImportCurrent, CurrentLine, AfterRowIs
<1>2. /\ \A o \in l.objs : o.row.id = l.hit => Alike(c, o.row)
      /\ l.hit = Nil /\ t \in Mapped /\ Keyed(c) => \A o \in l.objs : ~Alike(c, o.row)
  BY <1>1 DEF First, FirstLook
<1>3. /\ \A p \in m.objs : Comes(l, c, p) \/ \E o \in l.objs : Turns(l, c, o, p)
      /\ Flushes(q, t) => \A p \in m.objs : p.flushed
      /\ OfSession(rows, m.objs, l.ws)
  BY AfterObjects
<1>4. /\ \A o \in l.objs, p \in m.objs : Turns(l, c, o, p) =>
           Alike(o.row, p.row) /\ (Owned(l.what, o.row) => Owned(l.what, p.row))
      /\ \A p \in m.objs : Comes(l, c, p) => Alike(c, p.row) /\ Owned(l.what, p.row)
  BY <1>2, ImportApplied
<1>5. l.hit = Nil /\ t \in Mapped => Flushes(q, t)
  BY DEF Flushes
<1>6. /\ \A o \in l.objs :
           /\ o.new /\ Owned(l.what, o.row) /\ (o.row.tab \in Mapped => o.flushed)
           /\ o.flushed => Alike(o.row, o.was) /\ Owned(l.what, o.was)
      /\ \A o, p \in l.objs : o.row.tab \in Mapped /\ Keyed(o.row) /\ Alike(o.row, p.row) => o = p
  BY DEF First, FirstObjects
<1>7. /\ \A o \in l.objs : o.row.tab \in Tabs
      /\ \A p \in m.objs : p.row.tab \in Tabs
      /\ \A o, p \in m.objs : o.row.id = p.row.id => o = p
  BY <1>3 DEF ShapeInv, LoadInv, OfSession, Session, Objects, Row
<1> HIDE DEF c, m, l
<1>8. ASSUME NEW p \in m.objs
      PROVE  /\ p.new /\ Owned(m.what, p.row) /\ (p.row.tab \in Mapped => p.flushed)
             /\ p.flushed => Alike(p.row, p.was) /\ Owned(m.what, p.was)
  <2>1. ASSUME Comes(l, c, p)
        PROVE  /\ p.new /\ Owned(m.what, p.row) /\ (p.row.tab \in Mapped => p.flushed)
               /\ p.flushed => Alike(p.row, p.was) /\ Owned(m.what, p.was)
    <3>1. l.hit = Nil /\ p.new /\ p.row.tab = t /\ (p.flushed => p.was = p.row)
      BY <1>1, <2>1 DEF Comes
    <3> QED BY <1>1, <1>3, <1>4, <1>5, <2>1, <3>1 DEF Alike
  <2>2. ASSUME NEW o \in l.objs, Turns(l, c, o, p)
        PROVE  /\ p.new /\ Owned(m.what, p.row) /\ (p.row.tab \in Mapped => p.flushed)
               /\ p.flushed => Alike(p.row, p.was) /\ Owned(m.what, p.was)
    <3>1. /\ p.new = o.new /\ p.row.tab = o.row.tab
          /\ (p.was = o.was /\ p.flushed = o.flushed) \/ (p.flushed /\ p.was = p.row)
      BY <2>2 DEF Turns, Same
    <3>2. Alike(o.row, p.row) /\ Owned(l.what, p.row)
      BY <1>4, <1>6, <2>2
    <3>3. Alike(p.row, o.row) /\ \A u : Alike(o.row, u) => Alike(p.row, u)
      BY <1>7, <3>2, AlikeSame
    <3> QED BY <1>1, <1>6, <3>1, <3>2, <3>3 DEF Alike
  <2> QED BY <1>3, <2>1, <2>2
<1>9. ASSUME NEW p \in m.objs, NEW k \in m.objs, Keyed(p.row), p.row.tab \in Mapped,
             Alike(p.row, k.row)
      PROVE  p = k
  <2>0. Alike(k.row, p.row) /\ Keyed(k.row) /\ k.row.tab = p.row.tab
    BY <1>7, <1>9, AlikeSame, AlikeCols DEF Alike
  <2>1. ASSUME NEW x \in m.objs, NEW y \in m.objs, Alike(x.row, y.row), Keyed(x.row),
               x.row.tab \in Mapped, Comes(l, c, x)
        PROVE  x = y
    <3>1. Alike(c, y.row) /\ Keyed(c) /\ t \in Mapped /\ l.hit = Nil /\ x.row.id = NewId
      <4>1. Alike(c, x.row) /\ x.row.tab = t /\ l.hit = Nil /\ x.row.id = NewId
        BY <1>1, <1>4, <2>1 DEF Comes
      <4> QED BY <4>1, <2>1, <1>1, AlikeSame, AlikeCols DEF Row
    <3>2. CASE Comes(l, c, y)
      BY <3>1, <3>2, <1>7 DEF Comes
    <3>3. ASSUME NEW o \in l.objs, Turns(l, c, o, y) PROVE FALSE
      <4>1. Alike(o.row, y.row)
        BY <1>4, <3>3
      <4>2. Alike(y.row, o.row)
        BY <4>1, <1>7, AlikeSame
      <4>3. Alike(c, o.row)
        BY <4>2, <3>1, <1>1, AlikeSame DEF Row
      <4> QED BY <4>3, <3>1, <1>2
    <3> QED BY <1>3, <3>2, <3>3
  <2>2. CASE Comes(l, c, p)
    BY <2>1, <2>2, <1>9
  <2>3. CASE Comes(l, c, k)
    BY <2>1, <2>3, <1>9, <2>0
  <2>4. ASSUME NEW o \in l.objs, Turns(l, c, o, p), NEW x \in l.objs, Turns(l, c, x, k)
        PROVE  p = k
    <3>1. Alike(o.row, p.row) /\ Alike(x.row, k.row)
      BY <1>4, <2>4
    <3>2. Alike(o.row, x.row)
      <4>1. Alike(k.row, x.row)
        BY <1>7, <3>1, AlikeSame
      <4>2. Alike(p.row, x.row)
        BY <4>1, <1>7, <1>9, AlikeSame
      <4> QED BY <4>2, <3>1, <1>7, AlikeSame
    <3>3. Keyed(o.row) /\ o.row.tab \in Mapped
      BY <3>1, <1>7, <1>9, AlikeCols DEF Alike
    <3>4. o = x
      BY <3>2, <3>3, <1>6
    <3>5. p.row.id = k.row.id
      BY <2>4, <3>4 DEF Turns, Same
    <3> QED BY <3>5, <1>7
  <2> QED BY <1>3, <2>2, <2>3, <2>4
<1> QED BY <1>8, <1>9 DEF FirstObjects, m

LEMMA FirstApplied ==
  ASSUME ShapeInv, NEW q \in Loads, NEW t \in Tabs, AtHand(q, t), load[q].kind = "import",
         load[q].looked, load[q].hit = Nil => FreshIds # {}, TripDoc(rows, load[q]),
         First(rows, load[q])
  PROVE  First(rows, AfterRow(q, t))
<1> DEFINE l == load[q]
           c == Current(q, t)
           m == AfterRow(q, t)
           h == Line(l, t)
           new == IF l.hit = Nil THEN NewId ELSE l.hit
<1>1. /\ c = Translated(l.map, h) /\ Hand(l.todo, t) /\ c.tab = t /\ c \in Row
      /\ m.what = l.what /\ m.ws = l.ws /\ ~m.looked /\ m \in Records
      /\ m.map = IF t \in Mapped THEN MapWith(l.map, h.id, new) ELSE l.map
  <2>1. c = Translated(l.map, h) /\ c.tab = t /\ c \in Row
    BY ImportCurrent
  <2>2. Hand(l.todo, t)
    BY CurrentLine
  <2>3. /\ m.what = l.what /\ m.ws = l.ws /\ ~m.looked /\ m \in Records
        /\ m.map = IF t \in Mapped THEN MapWith(l.map, Head(l.todo[t]).id, new) ELSE l.map
    BY AfterRowIs
  <2> QED BY <2>1, <2>2, <2>3 DEF Line
<1>2. \A o \in l.objs : o.row.id = l.hit => Alike(c, o.row)
  BY <1>1 DEF First, FirstLook
<1>3. /\ \A o \in l.objs : \E p \in m.objs : Turns(l, c, o, p)
      /\ l.hit = Nil => \E p \in m.objs : Comes(l, c, p)
  BY AfterObjects
<1>4. /\ \A o \in l.objs, p \in m.objs : Turns(l, c, o, p) =>
           Alike(o.row, p.row) /\ (o.row.id = l.hit => Alike(c, p.row))
      /\ \A p \in m.objs : Comes(l, c, p) => Alike(c, p.row)
  BY <1>2, ImportApplied
<1>5. /\ TripDoc(rows, m)
      /\ \A u \in Tabs : Passed(m, u) = IF u = t THEN Passed(l, u) \cup {h} ELSE Passed(l, u)
      /\ h \in Row /\ h \notin Passed(l, t) /\ h \in Range(l.what[t])
      /\ t \in Mapped => \A u \in Tabs : \A r \in Passed(m, u) : \A x \in Refs, k \in Ids :
           NewOf(MapWith(l.map, h.id, k), r[x]) = NewOf(l.map, r[x])
  BY DocApplied DEF Line
<1>6. l.map \in Maps /\ m.map \in Maps /\ new \in Ids /\ h.id \in Ids
  <2>1. l \in Records
    BY DEF ShapeInv, BulkTypes
  <2>2. l.hit \in Ids \cup {Nil} /\ l.map \in Maps /\ m.map \in Maps
    BY <2>1, <1>1 DEF Records
  <2> QED BY <2>2, <1>5, NewIdUnused DEF Row
<1>7. HitInv(l) /\ RowsInv
  BY DEF ShapeInv, LoadInv
<1>8. FirstObjects(m)
  BY FirstAppliedObjects
<1>9. (\A s \in rows : s.ws # l.ws) /\ FirstMap(l)
  BY DEF First
<1> HIDE DEF c, m, h, l
<1>10. ASSUME NEW u \in Tabs, NEW r \in Passed(m, u)
       PROVE  Translated(m.map, r) = Translated(l.map, r) /\ r \in Row /\ r \in Range(l.what[u])
  <2>1. r \in Range(l.what[u])
    BY <1>1, <1>10 DEF Passed
  <2>2. r \in Row
    BY <2>1, <1>1, <1>5 DEF TripDoc
  <2>3. \A x \in Refs : NewOf(m.map, r[x]) = NewOf(l.map, r[x])
    BY <1>1, <1>5, <1>6, <1>10
  <2> QED BY <2>1, <2>2, <2>3, <1>6, TranslatedEqual
<1>11. ASSUME NEW u \in Tabs, NEW r \in Passed(l, u)
       PROVE  \E p \in m.objs :
                /\ Alike(Translated(m.map, r), p.row)
                /\ u \in Mapped => r.id \in DOMAIN m.map /\ m.map[r.id] = p.row.id
  <2>1. PICK o \in l.objs : /\ Alike(Translated(l.map, r), o.row)
                            /\ u \in Mapped => r.id \in DOMAIN l.map /\ l.map[r.id] = o.row.id
    BY <1>9 DEF FirstMap
  <2>2. PICK p \in m.objs : Turns(l, c, o, p)
    BY <1>3
  <2>3. r \in Passed(m, u)
    BY <1>5, <1>11
  <2>4. Translated(m.map, r) = Translated(l.map, r) /\ r \in Row /\ r \in Range(l.what[u])
    BY <1>10, <2>3
  <2>5. Translated(l.map, r) \in Row
    BY <2>4, <1>6, TranslatedRow
  <2>6. Alike(Translated(m.map, r), p.row)
    BY <2>1, <2>2, <2>4, <2>5, <1>4, AlikeSame DEF Row
  <2>7. r.id # h.id
    <3> SUFFICES ASSUME r.id = h.id PROVE FALSE
      OBVIOUS
    <3>1. u = t /\ r = h
      BY <1>1, <1>5, <1>7, <2>4, LinesApart
    <3> QED BY <3>1, <1>5, <1>11
  <2>8. u \in Mapped => r.id \in DOMAIN m.map /\ m.map[r.id] = l.map[r.id]
    BY <2>1, <2>7, <1>1 DEF MapWith
  <2>9. p.row.id = o.row.id
    BY <2>2 DEF Turns, Same
  <2> QED BY <2>1, <2>6, <2>8, <2>9
<1>12. \E p \in m.objs :
         /\ Alike(Translated(m.map, h), p.row)
         /\ t \in Mapped => h.id \in DOMAIN m.map /\ m.map[h.id] = p.row.id
  <2>1. Translated(m.map, h) = c
    BY <1>1, <1>5, <1>10
  <2>2. \E p \in m.objs : Alike(c, p.row) /\ p.row.id = new
    <3>1. CASE l.hit = Nil
      BY <1>3, <1>4, <3>1 DEF Comes
    <3>2. CASE l.hit # Nil
      <4>1. PICK o \in l.objs : o.row.id = l.hit
        BY <1>7, <3>2 DEF HitInv
      <4> QED BY <4>1, <3>2, <1>3, <1>4 DEF Turns, Same
    <3> QED BY <3>1, <3>2
  <2>3. t \in Mapped => h.id \in DOMAIN m.map /\ m.map[h.id] = new
    BY <1>1 DEF MapWith
  <2> QED BY <2>1, <2>2, <2>3
<1>13. \A i \in DOMAIN m.map : \E u \in Mapped : \E r \in Range(m.what[u]) : r.id = i
  <2>1. DOMAIN m.map \subseteq DOMAIN l.map \cup {h.id}
    BY <1>1 DEF MapWith
  <2>2. t \in Mapped \/ DOMAIN m.map = DOMAIN l.map
    BY <1>1
  <2> QED BY <2>1, <2>2, <1>1, <1>5, <1>9 DEF FirstMap
<1>14. FirstMap(m)
  BY <1>5, <1>11, <1>12, <1>13 DEF FirstMap
<1>15. FirstLook(m)
  BY <1>1 DEF FirstLook
<1> QED BY <1>1, <1>8, <1>9, <1>14, <1>15 DEF First, m

-----------------------------------------------------------------------------
(* What it leaves, and the re-run.                                         *)

Imported(R, w, what, made) ==
  /\ \A t \in Tabs : \A r \in Range(what[t]) : \E s \in R :
       /\ s.ws = w /\ Alike(Translated(made, r), s)
       /\ t \in Mapped => r.id \in DOMAIN made /\ made[r.id] = s.id
  /\ \A s \in R : s.ws = w => Owned(what, s)
  /\ \A s, u \in R :
       s.ws = w /\ u.ws = w /\ s.tab \in Mapped /\ Keyed(s) /\ Alike(s, u) => s = u
  /\ \A i \in DOMAIN made : \E t \in Mapped : \E r \in Range(what[t]) : r.id = i

LEMMA FirstCommits ==
  ASSUME ShapeInv, NEW q \in Loads, First(rows, load[q]), load[q].todo = Empty,
         rows' = View(Flushed(load[q].objs))
  PROVE  Imported(rows', load[q].ws, load[q].what, load[q].map) /\ load[q].map \in Maps
<1> DEFINE l == load[q]
<1>1. {r \in rows' : r.ws = l.ws} = RowsOf(l.objs)
  BY NewLands DEF First, FirstObjects
<1>2. \A t \in Tabs : Passed(l, t) = Range(l.what[t])
  BY DEF Passed, Empty, Range
<1>3. \A s \in rows' : s.ws = l.ws => \E o \in l.objs : s = o.row
  BY <1>1 DEF RowsOf
<1>4. \A o \in l.objs : o.row \in rows' /\ o.row.ws = l.ws
  BY <1>1 DEF RowsOf
<1>5. /\ \A o \in l.objs : Owned(l.what, o.row)
      /\ \A o, p \in l.objs :
           o.row.tab \in Mapped /\ Keyed(o.row) /\ Alike(o.row, p.row) => o = p
      /\ \A t \in Tabs : \A r \in Passed(l, t) : \E o \in l.objs :
           /\ Alike(Translated(l.map, r), o.row)
           /\ t \in Mapped => r.id \in DOMAIN l.map /\ l.map[r.id] = o.row.id
      /\ \A i \in DOMAIN l.map : \E t \in Mapped : \E r \in Range(l.what[t]) : r.id = i
  BY DEF First, FirstObjects, FirstMap
<1>6. l.map \in Maps
  BY DEF ShapeInv, BulkTypes, Records
<1> HIDE DEF l
<1>7. \A s, u \in rows' :
        s.ws = l.ws /\ u.ws = l.ws /\ s.tab \in Mapped /\ Keyed(s) /\ Alike(s, u) => s = u
  BY <1>3, <1>5
<1>8. \A t \in Tabs : \A r \in Range(l.what[t]) : \E s \in rows' :
       /\ s.ws = l.ws /\ Alike(Translated(l.map, r), s)
       /\ t \in Mapped => r.id \in DOMAIN l.map /\ l.map[r.id] = s.id
  BY <1>2, <1>4, <1>5
<1> QED BY <1>3, <1>5, <1>6, <1>7, <1>8 DEF Imported, l

OnAdded(objs, i) == \E p \in objs : p.new /\ p.row.id = i
Lost(objs, r) == Keyed(r) => \E x \in KeyCols(r) \cap Refs : OnAdded(objs, r[x])

SecondObjects(l) ==
  \A o \in l.objs :
    /\ Owned(l.what, o.row)
    /\ Shown(o) => Alike(o.row, o.was) /\ Owned(l.what, o.was)
    /\ ~o.new => Alike(o.row, o.base)
    /\ o.new => Lost(l.objs, o.row)
SecondMap(l, made) ==
  /\ \A i \in DOMAIN l.map :
       i \in DOMAIN made /\ (l.map[i] = made[i] \/ OnAdded(l.objs, l.map[i]))
  /\ \A t \in Mapped : \A r \in Passed(l, t) : r.id \in DOMAIN l.map
SecondLook(l, made) ==
  \A t \in Tabs : Hand(l.todo, t) /\ l.looked =>
    LET h == Line(l, t)
        c == Translated(l.map, h) IN
    /\ \A o \in l.objs : o.row.id = l.hit => Alike(c, o.row)
    /\ l.hit = Nil => Lost(l.objs, c)
    /\ l.hit # Nil /\ t \in Mapped =>
         h.id \in DOMAIN made /\ (l.hit = made[h.id] \/ OnAdded(l.objs, l.hit))
Second(l, made) == SecondObjects(l) /\ SecondMap(l, made) /\ SecondLook(l, made)

\* The two maps agree on the line at hand but for what the re-run has added.
LEMMA MapsAgree ==
  ASSUME ShapeInv, NEW q \in Loads, NEW t \in Tabs, AtHand(q, t), load[q].kind = "import",
         TripDoc(rows, load[q]), NEW made \in Maps,
         Imported(rows, load[q].ws, load[q].what, made), Second(load[q], made)
  PROVE  LET l == load[q]
             c == Current(q, t)
             c1 == Translated(made, Line(l, t)) IN
         /\ c1 \in Row /\ c1.tab = t
         /\ \A x \in Columns : c[x] = c1[x] \/ (x \in Refs /\ OnAdded(l.objs, c[x]))
<1> DEFINE l == load[q]
           c == Current(q, t)
           h == Line(l, t)
           c1 == Translated(made, h)
<1>1. /\ c = Translated(l.map, h) /\ l.map \in Maps
      /\ h \in Row /\ c \in Row /\ c1 \in Row /\ c1.tab = t /\ h.tab = t
      /\ c.ext = h.ext /\ c.alt = h.alt /\ c.val = h.val
      /\ c1.ext = h.ext /\ c1.alt = h.alt /\ c1.val = h.val
      /\ \A x \in Refs : c[x] = NewOf(l.map, h[x]) /\ c1[x] = NewOf(made, h[x])
  <2>1. c = Translated(l.map, h) /\ l.map \in Maps
    BY ImportCurrent
  <2>2. /\ h \in Row /\ c \in Row /\ h.tab = t /\ c.ext = h.ext /\ c.alt = h.alt /\ c.val = h.val
        /\ \A x \in Refs : c[x] = NewOf(l.map, h[x])
    BY <2>1, ImportLine
  <2>3. /\ c1 \in Row /\ c1.tab = t /\ c1.ext = h.ext /\ c1.alt = h.alt /\ c1.val = h.val
        /\ \A x \in Refs : c1[x] = NewOf(made, h[x])
    BY ImportLine
  <2> QED BY <2>1, <2>2, <2>3
<1>2. h \in Range(l.what[t]) /\ Placed(rows, h) /\ Hand(l.todo, t)
  <2>1. Head(l.todo[t]) \in Range(l.todo[t]) /\ Hand(l.todo, t)
    BY CurrentLine
  <2>2. h \in Range(l.what[t])
    BY <2>1 DEF TripDoc, Line
  <2> QED BY <2>1, <2>2, TripRows
<1>3. RowsInv /\ \A i \in DOMAIN made : \E u \in Mapped : \E r \in Range(l.what[u]) : r.id = i
  BY DEF ShapeInv, Imported
<1>4. /\ \A i \in DOMAIN l.map :
           i \in DOMAIN made /\ (l.map[i] = made[i] \/ OnAdded(l.objs, l.map[i]))
      /\ \A u \in Mapped : \A r \in Passed(l, u) : r.id \in DOMAIN l.map
  BY DEF Second, SecondMap
<1> HIDE DEF c, h, c1, l
<1>5. ASSUME NEW x \in Refs, h[x] \notin DOMAIN l.map PROVE h[x] \notin DOMAIN made
  <2> SUFFICES ASSUME h[x] \in DOMAIN made PROVE FALSE
    OBVIOUS
  <2>1. PICK u \in Mapped : \E r \in Range(l.what[u]) : r.id = h[x]
    BY <1>3
  <2>2. PICK r \in Range(l.what[u]) : r.id = h[x]
    BY <2>1
  <2>3. u \in Tabs
    BY DEF Mapped, Tabs, Sections
  <2>4. r \in Row /\ r.tab = u
    BY <2>2, <2>3, TripRows DEF l
  <2>5. PICK k \in rows : Same(k, r)
    BY <2>2, <2>3 DEF TripDoc, DocRows, l
  <2>6. r.id # Nil
    BY <2>4, BulkAssumption DEF Row
  <2>7. PICK s \in rows : s.id = h[x] /\ (s.tab \in Mapped => Sections[s.tab] < Sections[t])
    BY <1>1, <1>2, <2>2, <2>6 DEF Placed
  <2>8. s = k
    BY <1>3, <2>2, <2>5, <2>7 DEF Same, RowsInv
  <2>9. Sections[u] < Sections[t]
    BY <2>4, <2>5, <2>7, <2>8 DEF Same
  <2>10. l.todo[u] = <<>>
    BY <1>2, <2>3, <2>9 DEF Hand
  <2>11. r \in Passed(l, u)
    BY <2>2, <2>10 DEF Passed, Range
  <2> QED BY <1>4, <1>5, <2>2, <2>11
<1>6. ASSUME NEW x \in Refs PROVE c[x] = c1[x] \/ OnAdded(l.objs, c[x])
  BY <1>1, <1>4, <1>5 DEF NewOf
<1>7. \A x \in Columns : x \in Refs \/ x \in {"ext", "alt", "val"}
  BY DEF Columns, Refs
<1> QED BY <1>1, <1>6, <1>7 DEF c, c1, l, h

\* No committed row refers to what the re-run adds.
LEMMA RowsNotOnAdded ==
  ASSUME ShapeInv, LinkInv, NEW q \in Loads, NEW b \in rows, NEW x \in Refs
  PROVE  ~OnAdded(load[q].objs, b[x])
<1>1. b[x] # Nil => \E s \in rows : s.id = b[x]
  BY DEF LinkInv, Linked
<1>2. \A o \in load[q].objs : o.row.id # Nil /\ (o.new => \A s \in rows : s.id # o.row.id)
  BY BulkAssumption DEF ShapeInv, LoadInv, OfSession, Session, Added1, Objects, Row
<1> QED BY <1>1, <1>2 DEF OnAdded

LEMMA SecondFinds ==
  ASSUME ShapeInv, LinkInv, NEW q \in Loads, NEW t \in Tabs, AtHand(q, t),
         load[q].kind = "import", TripDoc(rows, load[q]), Based(rows, load[q].objs),
         NEW made \in Maps, Imported(rows, load[q].ws, load[q].what, made), Second(load[q], made)
  PROVE  LET l == load[q]
             h == Line(l, t)
             c == Current(q, t) IN
         /\ \A s \in Found(q, t) :
              /\ Alike(c, s) /\ \A o \in l.objs : o.row.id = s.id => Alike(c, o.row)
              /\ t \in Mapped =>
                   h.id \in DOMAIN made /\ (s.id = made[h.id] \/ OnAdded(l.objs, s.id))
              /\ s.id \notin IdsOf(l.objs) => s \in rows /\ s.ws = l.ws
         /\ Found(q, t) = {} => Lost(l.objs, c)
<1> DEFINE l == load[q]
           h == Line(l, t)
           c == Current(q, t)
           c1 == Translated(made, h)
<1>1. /\ BulkTypes /\ RowsInv /\ Session(rows, l.objs) /\ \A o \in l.objs : o.row.ws = l.ws
      /\ \A o \in l.objs : o.row.tab \in Tabs
      /\ \A o, p \in l.objs : o.row.id = p.row.id => o = p
  BY DEF ShapeInv, LoadInv, OfSession, Session, Objects, Row
<1>2. /\ \A s \in View(l.objs) : Untouched(l.objs, s) \/ \E o \in l.objs : Shown(o) /\ s = o.was
      /\ \A s : Untouched(l.objs, s) => s \in View(l.objs)
      /\ \A o \in l.objs : Shown(o) => o.was \in View(l.objs) /\ Same(o.was, o.row)
  BY <1>1, ViewAlone
<1>3. \A o \in l.objs : /\ Shown(o) => Alike(o.row, o.was) /\ Owned(l.what, o.was)
                        /\ ~o.new => Alike(o.row, o.base) /\ Shown(o)
                        /\ ~o.new => o.base \in rows /\ Same(o.base, o.row)
  BY DEF Second, SecondObjects, Shown, Based
<1>4. c \in Row /\ c.tab = t /\ h \in Range(l.what[t])
  <2>1. h \in Range(l.what[t])
    BY CurrentLine DEF TripDoc, Line
  <2> QED BY <2>1, ImportCurrent
<1>5. /\ c1 \in Row /\ c1.tab = t
      /\ \A x \in Columns : c[x] = c1[x] \/ (x \in Refs /\ OnAdded(l.objs, c[x]))
  BY MapsAgree
<1>6. /\ \A s \in rows : s.ws = l.ws => Owned(l.what, s)
      /\ \A s, u \in rows :
           s.ws = l.ws /\ u.ws = l.ws /\ s.tab \in Mapped /\ Keyed(s) /\ Alike(s, u) => s = u
  BY DEF Imported
<1>7. PICK k \in rows : /\ k.ws = l.ws /\ Alike(c1, k)
                        /\ t \in Mapped => h.id \in DOMAIN made /\ made[h.id] = k.id
  BY <1>4 DEF Imported
<1>8. KeyCols(c) \subseteq Columns
  BY <1>4, KeyColsIn DEF Row
<1>9. ASSUME \A x \in KeyCols(c) \cap Refs : ~OnAdded(l.objs, c[x])
      PROVE  Alike(c, k)
  <2>1. Alike(c, c1)
    BY <1>4, <1>5, <1>8, <1>9 DEF Alike
  <2> QED BY <2>1, <1>4, <1>5, <1>7, AlikeSame DEF Row
<1> HIDE DEF c, c1, h, l
<1>10. ASSUME NEW s \in Found(q, t)
       PROVE  /\ Alike(c, s) /\ \A o \in l.objs : o.row.id = s.id => Alike(c, o.row)
              /\ t \in Mapped =>
                   h.id \in DOMAIN made /\ (s.id = made[h.id] \/ OnAdded(l.objs, s.id))
              /\ s.id \notin IdsOf(l.objs) => s \in rows /\ s.ws = l.ws
  <2>1. s \in View(l.objs) /\ s.ws = l.ws /\ s.tab = t
    BY FoundSeen DEF Seen, l
  <2>2. CASE Untouched(l.objs, s)
    <3>1. s \in rows /\ s.id \notin IdsOf(l.objs)
      BY <2>2 DEF Untouched
    <3>2. Alike(c, s) /\ Keyed(c)
      BY <3>1, <2>1, <1>6, ImportMatch DEF c, l
    <3>3. ASSUME t \in Mapped PROVE s = k
      <4>1. \A x \in KeyCols(c) \cap Refs : c[x] = s[x]
        BY <3>2 DEF Alike
      <4>2. Alike(c, k)
        BY <3>1, <4>1, <1>9, RowsNotOnAdded DEF l
      <4>3. Alike(s, k) /\ Keyed(s)
        <5>1. c.tab \in Tabs /\ Alike(s, c)
          BY <3>2, <1>4, AlikeSame DEF Row
        <5>2. s.tab \in Tabs
          BY <5>1, <3>2 DEF Alike
        <5> QED BY <5>1, <5>2, <4>2, <3>2, AlikeSame, AlikeCols
      <4> QED BY <4>3, <3>1, <3>3, <2>1, <1>6, <1>7
    <3> QED BY <3>1, <3>2, <3>3, <2>1, <1>7 DEF IdsOf
  <2>3. ASSUME NEW o \in l.objs, Shown(o), s = o.was
        PROVE  /\ Alike(c, s) /\ Alike(c, o.row) /\ o.row.id = s.id
               /\ t \in Mapped =>
                    h.id \in DOMAIN made /\ (s.id = made[h.id] \/ OnAdded(l.objs, s.id))
    <3>1. Same(s, o.row) /\ Alike(o.row, s) /\ Owned(l.what, s)
      BY <2>3, <1>2, <1>3
    <3>2. Alike(c, s) /\ Keyed(c)
      BY <3>1, ImportMatch DEF c, l
    <3>3. Alike(c, o.row)
      <4>1. Alike(s, o.row)
        BY <1>1, <3>1, AlikeSame
      <4> QED BY <4>1, <3>2, <1>4, AlikeSame DEF Row
    <3>4. o.row.id = s.id
      BY <3>1 DEF Same
    <3>5. o.new => OnAdded(l.objs, s.id)
      BY <3>4 DEF OnAdded
    <3>6. ASSUME ~o.new, t \in Mapped PROVE o.base = k
      <4>1. Alike(o.row, o.base) /\ o.base \in rows /\ Same(o.base, o.row)
        BY <1>3, <3>6
      <4>2. Alike(c, o.base)
        BY <4>1, <3>3, <1>4, AlikeSame DEF Row
      <4>3. \A x \in KeyCols(c) \cap Refs : c[x] = o.base[x]
        BY <4>2 DEF Alike
      <4>4. Alike(c, k)
        BY <4>1, <4>3, <1>9, RowsNotOnAdded DEF l
      <4>5. Alike(o.base, k) /\ Keyed(o.base) /\ o.base.tab = t
        <5>1. c.tab \in Tabs /\ Alike(o.base, c)
          BY <4>2, <1>4, AlikeSame DEF Row
        <5>2. o.base.tab = c.tab
          BY <4>2 DEF Alike
        <5> QED BY <5>1, <5>2, <4>2, <4>4, <3>2, <1>4, AlikeSame, AlikeCols
      <4>6. o.base.ws = l.ws
        BY <4>1, <1>1 DEF Same
      <4> QED BY <4>1, <4>5, <4>6, <3>6, <1>6, <1>7
    <3>7. ~o.new /\ t \in Mapped => k.id = s.id
      BY <3>4, <3>6, <1>3 DEF Same
    <3> QED BY <3>2, <3>3, <3>4, <3>5, <3>7, <1>7
  <2>4. CASE \E o \in l.objs : Shown(o) /\ s = o.was
    <3>1. PICK o \in l.objs : Shown(o) /\ s = o.was
      BY <2>4
    <3>2. \A p \in l.objs : p.row.id = s.id => p = o
      BY <3>1, <2>3, <1>1
    <3>3. s.id \in IdsOf(l.objs)
      BY <3>1, <2>3 DEF IdsOf
    <3> QED BY <3>1, <3>2, <3>3, <2>3
  <2> QED BY <2>1, <2>2, <2>4, <1>2
<1>11. ASSUME Found(q, t) = {}, Keyed(c), \A x \in KeyCols(c) \cap Refs : ~OnAdded(l.objs, c[x])
       PROVE  FALSE
  <2>1. Alike(c, k)
    BY <1>9, <1>11
  <2>2. \A s \in View(l.objs) : s.ws = l.ws => ~Alike(c, s)
    BY <1>11, ImportMiss DEF c, l
  <2>3. CASE k.id \notin IdsOf(l.objs)
    BY <2>1, <2>2, <2>3, <1>2, <1>7 DEF Untouched
  <2>4. CASE k.id \in IdsOf(l.objs)
    <3>1. PICK o \in l.objs : o.row.id = k.id
      BY <2>4 DEF IdsOf
    <3>2. ~o.new
      BY <3>1, <1>1 DEF Session, Added1
    <3>3. o.base = k
      BY <3>1, <3>2, <1>1, <1>3 DEF Same, RowsInv
    <3>4. Alike(o.row, k) /\ Alike(o.row, o.was) /\ o.was \in View(l.objs) /\ Same(o.was, o.row)
      BY <3>2, <3>3, <1>2, <1>3
    <3>5. Alike(c, o.row)
      BY <3>4, <2>1, <1>1, <1>4, AlikeSame DEF Row
    <3>6. Alike(c, o.was) /\ o.was.ws = l.ws
      BY <3>4, <3>5, <1>1, <1>4, AlikeSame DEF Row, Same
    <3> QED BY <3>4, <3>6, <2>2
  <2> QED BY <2>3, <2>4
<1>12. Found(q, t) = {} => Lost(l.objs, c)
  BY <1>11 DEF Lost
<1> QED BY <1>10, <1>12 DEF l, h, c

LEMMA SecondLooks ==
  ASSUME ShapeInv, LinkInv, NEW q \in Loads, NEW t \in Tabs, AtHand(q, t),
         load[q].kind = "import", TripDoc(rows, load[q]), Based(rows, load[q].objs),
         NEW made \in Maps, Imported(rows, load[q].ws, load[q].what, made), Second(load[q], made),
         NEW m, m.what = load[q].what, m.todo = load[q].todo, m.map = load[q].map, m.looked,
         \/ m.hit = Nil /\ Found(q, t) = {} /\ m.objs = load[q].objs
         \/ \E s \in Found(q, t) : m.hit = s.id /\ m.objs = Taken(load[q].objs, s)
  PROVE  Second(m, made)
<1> DEFINE l == load[q]
           h == Line(l, t)
           c == Current(q, t)
<1>1. c = Translated(l.map, h) /\ Hand(l.todo, t) /\ c \in Row /\ c.tab = t
  BY ImportCurrent, CurrentLine
<1>2. \A u \in Tabs : Hand(l.todo, u) => u = t
  BY <1>1, HandOne
<1>3. /\ \A s \in Found(q, t) :
           /\ Alike(c, s) /\ \A o \in l.objs : o.row.id = s.id => Alike(c, o.row)
           /\ t \in Mapped => h.id \in DOMAIN made /\ (s.id = made[h.id] \/ OnAdded(l.objs, s.id))
           /\ s.id \notin IdsOf(l.objs) => s \in rows /\ s.ws = l.ws
      /\ Found(q, t) = {} => Lost(l.objs, c)
  BY SecondFinds
<1>4. \A o \in l.objs : o.row.id # Nil
  BY BulkAssumption DEF ShapeInv, LoadInv, OfSession, Session, Objects, Row
<1>5. Line(m, t) = h
  BY DEF Line
<1>6. \A s \in Found(q, t) : s.id # Nil /\ s.tab = t
  BY FoundSeen, SeenRows, BulkAssumption DEF Row
<1>7. \A u \in Tabs : Passed(m, u) = Passed(l, u)
  BY DEF Passed
<1>8. SecondObjects(l) /\ SecondMap(l, made)
  BY DEF Second
<1> HIDE DEF c, h
<1>9. ASSUME \A i : OnAdded(l.objs, i) <=> OnAdded(m.objs, i)
       PROVE  SecondMap(m, made)
  <2>1. m.map = l.map
    OBVIOUS
  <2>2. /\ \A i \in DOMAIN l.map :
             i \in DOMAIN made /\ (l.map[i] = made[i] \/ OnAdded(l.objs, l.map[i]))
        /\ \A u \in Mapped : \A r \in Passed(l, u) : r.id \in DOMAIN l.map
    BY <1>8 DEF SecondMap
  <2>3. Mapped \subseteq Tabs
    BY DEF Mapped, Tabs, Sections
  <2> HIDE DEF l
  <2>4. \A u \in Mapped : \A r \in Passed(m, u) : r.id \in DOMAIN m.map
    BY <1>7, <2>1, <2>2, <2>3
  <2>5. \A i \in DOMAIN m.map :
             i \in DOMAIN made /\ (m.map[i] = made[i] \/ OnAdded(m.objs, m.map[i]))
    BY <1>9, <2>1, <2>2
  <2> QED BY <2>4, <2>5 DEF SecondMap
<1>10. CASE m.hit = Nil /\ Found(q, t) = {} /\ m.objs = l.objs
  <2>1. SecondLook(m, made)
    BY <1>1, <1>2, <1>3, <1>4, <1>5, <1>10 DEF SecondLook
  <2>2. SecondObjects(m)
    BY <1>8, <1>10 DEF SecondObjects
  <2>3. SecondMap(m, made)
    BY <1>9, <1>10
  <2> QED BY <2>1, <2>2, <2>3 DEF Second
<1>11. ASSUME NEW s \in Found(q, t), m.hit = s.id, m.objs = Taken(l.objs, s)
       PROVE  Second(m, made)
  <2> DEFINE n == Object(s, s, s, FALSE, FALSE)
  <2>1. /\ l.objs \subseteq m.objs
        /\ \A o \in m.objs : o \in l.objs \/ (o = n /\ s.id \notin IdsOf(l.objs))
    BY <1>11 DEF Taken
  <2>2. n.row = s /\ n.was = s /\ n.base = s /\ ~n.new /\ ~n.flushed
    BY DEF Object
  <2> HIDE DEF n
  <2>3. \A i : OnAdded(m.objs, i) <=> OnAdded(l.objs, i)
    BY <2>1, <2>2 DEF OnAdded
  <2>4. \A r : Lost(m.objs, r) <=> Lost(l.objs, r)
    BY <2>3 DEF Lost
  <2>5. SecondMap(m, made)
    BY <1>9, <2>3
  <2>6. s.id \notin IdsOf(l.objs) => Owned(l.what, s)
    BY <1>3 DEF Imported
  <2>7. SecondObjects(m)
    <3>1. \A o \in l.objs :
            /\ Owned(l.what, o.row)
            /\ Shown(o) => Alike(o.row, o.was) /\ Owned(l.what, o.was)
            /\ ~o.new => Alike(o.row, o.base)
            /\ o.new => Lost(m.objs, o.row)
      BY <1>8, <2>4 DEF SecondObjects
    <3>2. s.id \notin IdsOf(l.objs) =>
            /\ Owned(l.what, n.row) /\ Alike(n.row, n.was) /\ Owned(l.what, n.was)
            /\ Alike(n.row, n.base) /\ ~n.new
      BY <2>2, <2>6 DEF Alike
    <3> QED BY <2>1, <3>1, <3>2 DEF SecondObjects
  <2>8. \A o \in m.objs : o.row.id = m.hit => Alike(c, o.row)
    BY <1>3, <1>11, <2>1, <2>2
  <2>9. SecondLook(m, made)
    BY <1>1, <1>2, <1>3, <1>5, <1>6, <1>11, <2>3, <2>8 DEF SecondLook
  <2> QED BY <2>5, <2>7, <2>9 DEF Second
<1> QED BY <1>10, <1>11

LEMMA LostAlike ==
  ASSUME NEW r, NEW s, Alike(r, s), r.tab \in Tabs, NEW objs, NEW objs2, Lost(objs, r),
         \A i : OnAdded(objs, i) => OnAdded(objs2, i)
  PROVE  Lost(objs2, s)
<1>1. KeyCols(s) = KeyCols(r) /\ (Keyed(r) <=> Keyed(s)) /\ \A x \in KeyCols(r) : r[x] = s[x]
  BY AlikeCols DEF Alike
<1> QED BY <1>1 DEF Lost

LEMMA SecondApplied ==
  ASSUME ShapeInv, NEW q \in Loads, NEW t \in Tabs, AtHand(q, t), load[q].kind = "import",
         load[q].looked, load[q].hit = Nil => FreshIds # {}, TripDoc(rows, load[q]), NEW made,
         Imported(rows, load[q].ws, load[q].what, made), Second(load[q], made)
  PROVE  Second(AfterRow(q, t), made)
<1> DEFINE l == load[q]
           c == Current(q, t)
           m == AfterRow(q, t)
           h == Line(l, t)
           new == IF l.hit = Nil THEN NewId ELSE l.hit
<1>1. /\ c = Translated(l.map, h) /\ Hand(l.todo, t) /\ c.tab = t /\ c.tab \in Tabs
      /\ m.what = l.what /\ ~m.looked
      /\ m.map = IF t \in Mapped THEN MapWith(l.map, h.id, new) ELSE l.map
  <2>1. c = Translated(l.map, h) /\ c.tab = t
    BY ImportCurrent
  <2>2. Hand(l.todo, t)
    BY CurrentLine
  <2>3. /\ m.what = l.what /\ ~m.looked
        /\ m.map = IF t \in Mapped THEN MapWith(l.map, Head(l.todo[t]).id, new) ELSE l.map
    BY AfterRowIs
  <2> QED BY <2>1, <2>2, <2>3 DEF Line
<1>2. /\ \A o \in l.objs : o.row.id = l.hit => Alike(c, o.row)
      /\ l.hit = Nil => Lost(l.objs, c)
      /\ l.hit # Nil /\ t \in Mapped =>
           h.id \in DOMAIN made /\ (l.hit = made[h.id] \/ OnAdded(l.objs, l.hit))
  BY <1>1 DEF Second, SecondLook
<1>3. /\ \A p \in m.objs : Comes(l, c, p) \/ \E o \in l.objs : Turns(l, c, o, p)
      /\ \A o \in l.objs : \E p \in m.objs : Turns(l, c, o, p)
      /\ l.hit = Nil => \E p \in m.objs : Comes(l, c, p)
  BY AfterObjects
<1>4. /\ \A o \in l.objs, p \in m.objs : Turns(l, c, o, p) =>
           Alike(o.row, p.row) /\ (Owned(l.what, o.row) => Owned(l.what, p.row))
      /\ \A p \in m.objs : Comes(l, c, p) => Alike(c, p.row) /\ Owned(l.what, p.row)
  BY <1>2, ImportApplied
<1>5. /\ \A u \in Tabs : Passed(m, u) = IF u = t THEN Passed(l, u) \cup {h} ELSE Passed(l, u)
      /\ h \in Range(l.what[t])
  BY DocApplied DEF Line
<1>6. t \in Mapped => h.id \in DOMAIN made
  BY <1>5 DEF Imported
<1>7. /\ \A o \in l.objs :
           /\ Owned(l.what, o.row)
           /\ Shown(o) => Alike(o.row, o.was) /\ Owned(l.what, o.was)
           /\ ~o.new => Alike(o.row, o.base)
           /\ o.new => Lost(l.objs, o.row)
      /\ \A i \in DOMAIN l.map :
           i \in DOMAIN made /\ (l.map[i] = made[i] \/ OnAdded(l.objs, l.map[i]))
      /\ \A u \in Mapped : \A r \in Passed(l, u) : r.id \in DOMAIN l.map
  BY DEF Second, SecondObjects, SecondMap
<1>8. \A o \in l.objs : o.row.tab \in Tabs
  BY DEF ShapeInv, LoadInv, OfSession, Session, Objects, Row
<1> HIDE DEF c, m, h, l
<1>9. \A i : OnAdded(l.objs, i) => OnAdded(m.objs, i)
  BY <1>3 DEF OnAdded, Turns, Same
<1>10. ASSUME NEW o \in l.objs, NEW p \in m.objs, Turns(l, c, o, p)
       PROVE  /\ Owned(m.what, p.row)
              /\ Shown(p) => Alike(p.row, p.was) /\ Owned(m.what, p.was)
              /\ ~p.new => Alike(p.row, p.base)
              /\ p.new => Lost(m.objs, p.row)
  <2>1. /\ p.new = o.new /\ p.base = o.base
        /\ (p.was = o.was /\ p.flushed = o.flushed) \/ (p.flushed /\ p.was = p.row)
    BY <1>10 DEF Turns
  <2>2. Alike(o.row, p.row) /\ Owned(l.what, p.row)
    BY <1>4, <1>7, <1>10
  <2>3. \A u : Alike(o.row, u) => Alike(p.row, u)
    <3>1. Alike(p.row, o.row) /\ p.row.tab = o.row.tab
      BY <2>2, <1>8, AlikeSame DEF Alike
    <3> QED BY <3>1, <1>8, AlikeSame
  <2>4. Alike(p.row, p.row)
    BY DEF Alike
  <2>5. Shown(p) => Alike(p.row, p.was) /\ Owned(m.what, p.was)
    BY <1>1, <1>7, <2>1, <2>2, <2>3, <2>4 DEF Shown
  <2>6. p.new => Lost(m.objs, p.row)
    BY <1>7, <1>8, <1>9, <2>1, <2>2, LostAlike
  <2> QED BY <1>1, <1>7, <2>1, <2>2, <2>3, <2>5, <2>6
<1>11. ASSUME NEW p \in m.objs, Comes(l, c, p)
       PROVE  /\ Owned(m.what, p.row)
              /\ Shown(p) => Alike(p.row, p.was) /\ Owned(m.what, p.was)
              /\ ~p.new => Alike(p.row, p.base)
              /\ p.new => Lost(m.objs, p.row)
  <2>1. l.hit = Nil /\ p.new /\ (p.flushed => p.was = p.row)
    BY <1>11 DEF Comes
  <2>2. Alike(c, p.row) /\ Owned(l.what, p.row)
    BY <1>4, <1>11
  <2>3. Lost(m.objs, p.row)
    BY <1>1, <1>2, <1>9, <2>1, <2>2, LostAlike
  <2> QED BY <1>1, <2>1, <2>2, <2>3 DEF Shown, Alike
<1>12. SecondObjects(m)
  BY <1>3, <1>10, <1>11 DEF SecondObjects
<1>13. t \in Mapped => new = made[h.id] \/ OnAdded(m.objs, new)
  <2>1. CASE l.hit = Nil
    BY <2>1, <1>3 DEF OnAdded, Comes
  <2>2. CASE l.hit # Nil
    BY <2>2, <1>2, <1>9
  <2> QED BY <2>1, <2>2
<1> HIDE DEF new
<1>14. ASSUME NEW i \in DOMAIN m.map
       PROVE  i \in DOMAIN made /\ (m.map[i] = made[i] \/ OnAdded(m.objs, m.map[i]))
  <2>1. CASE t \notin Mapped
    BY <2>1, <1>1, <1>7, <1>9, <1>14
  <2>2. CASE t \in Mapped
    <3>1. i \in DOMAIN l.map \cup {h.id} /\ m.map[i] = IF i = h.id THEN new ELSE l.map[i]
      BY <2>2, <1>1, <1>14 DEF MapWith
    <3> QED BY <3>1, <2>2, <1>6, <1>7, <1>9, <1>13
  <2> QED BY <2>1, <2>2
<1>15. \A u \in Mapped : \A r \in Passed(m, u) : r.id \in DOMAIN m.map
  <2>1. Mapped \subseteq Tabs
    BY DEF Mapped, Tabs, Sections
  <2>2. DOMAIN l.map \subseteq DOMAIN m.map /\ (t \in Mapped => h.id \in DOMAIN m.map)
    BY <1>1 DEF MapWith
  <2> QED BY <2>1, <2>2, <1>5, <1>7
<1>16. SecondLook(m, made)
  BY <1>1 DEF SecondLook
<1> QED BY <1>12, <1>14, <1>15, <1>16 DEF Second, SecondMap, m

-----------------------------------------------------------------------------
(***************************************************************************)
(* The re-run of an ingest or an upsert.  The first one leaves, for each   *)
(* line with a key, a row that has the keys the line gives (`Landed`), as  *)
(* long as no row was found for two lines.  The re-run finds a row that    *)
(* has them already, so no key changes and no line with one is missed.     *)
(***************************************************************************)
Fit(l) ==
  /\ l.was
  /\ \/ l.kind = "ingest" /\ l.what["note"] = <<>>
     \/ l.kind = "upsert" /\ ClearsNoKey(l.what)
Keying == {"ext", "alt"}
Holds(kind, r, s) == \A c \in Given(kind, r) \cap Keying : s[c] = r[c]
Landed(R, kind, w, what) ==
  \A t \in People : \A r \in Range(what[t]) :
    Keyed(r) => \E s \in R : s.ws = w /\ s.tab = t /\ Holds(kind, r, s)

Body(l) ==
  \A t \in Tabs :
    /\ Range(l.todo[t]) \subseteq Range(l.what[t])
    /\ \A r \in Range(l.what[t]) :
         /\ r.tab = t
         /\ r \in Item \/ (l.kind = "ingest" /\ r \in Text)
         /\ r \in Item => \A c \in {"ext", "alt", "val"} : r[c] # Nil => c \in r.has

\* The first run: each line has an object that no later line may find.
Gives(l) ==
  \A t \in People : \A r \in Passed(l, t) : Keyed(r) =>
    \E o \in l.objs : o.row.id # l.hit /\ o.row.tab = t /\ Holds(l.kind, r, o.row)

\* The re-run: no key has changed, and what is new has none.
RepeatObjects(objs) ==
  \A o \in objs : \A c \in Keying :
    /\ ~o.new => o.row[c] = o.base[c] /\ o.was[c] = o.base[c]
    /\ o.new => o.row.tab \in People /\ o.row[c] = Nil /\ (o.flushed => o.was[c] = Nil)
RepeatLook(l) ==
  \A t \in Tabs : Hand(l.todo, t) /\ l.looked =>
    /\ l.hit = Nil => ~Keyed(Line(l, t))
    /\ \A o \in l.objs : o.row.id = l.hit => Holds(l.kind, Line(l, t), o.row)
Repeats(l) == RepeatObjects(l.objs) /\ RepeatLook(l)

LEMMA PeopleTabs == People \subseteq Tabs /\ People \subseteq Mapped
BY DEF People, Tabs, Sections, Mapped

LEMMA PeopleKeyed ==
  ASSUME NEW r, r.tab \in People
  PROVE  Keyed(r) <=> r.ext # Nil \/ r.alt # Nil
BY DEF People, Keyed

\* The line at hand, which only an import rewrites.
LEMMA BodyLine ==
  ASSUME ShapeInv, NEW q \in Loads, NEW t \in Tabs, AtHand(q, t),
         load[q].kind \in {"ingest", "upsert"}, Body(load[q])
  PROVE  LET l == load[q]
             h == Line(l, t) IN
         /\ Current(q, t) = h /\ h \in Range(l.what[t]) /\ h.tab = t /\ Hand(l.todo, t)
         /\ t \in People => \A c \in Keying : h[c] # Nil => c \in Given(l.kind, h)
         /\ Fit(l) => /\ t \in People
                      /\ h.ext = Nil => "ext" \notin Given(l.kind, h)
<1> DEFINE l == load[q]
           h == Line(l, t)
<1>1. h \in Range(l.todo[t]) /\ Hand(l.todo, t)
  BY CurrentLine DEF Line
<1>2. Current(q, t) = h
  BY DEF Current, Line
<1>3. /\ h \in Range(l.what[t]) /\ h.tab = t
      /\ h \in Item \/ (l.kind = "ingest" /\ h \in Text)
      /\ h \in Item => \A c \in {"ext", "alt", "val"} : h[c] # Nil => c \in h.has
  BY <1>1 DEF Body
<1>4. \A c \in Keying : t \in People /\ h[c] # Nil => c \in Given(l.kind, h)
  <2> SUFFICES ASSUME NEW c \in Keying, t \in People, h[c] # Nil
               PROVE  c \in Given(l.kind, h)
    OBVIOUS
  <2>1. h \in Item
    BY <1>3 DEF People, Text
  <2> QED
    BY <1>3, <2>1 DEF Given, Keying
<1>5. Fit(l) => t \in People
  <2> SUFFICES ASSUME Fit(l), h \notin Item
               PROVE  FALSE
    BY <1>3 DEF People, Item
  <2>1. t = "note" /\ l.kind = "ingest"
    BY <1>3 DEF Text
  <2>2. Range(l.what[t]) = {}
    BY <2>1 DEF Fit, Range
  <2> QED
    BY <1>3, <2>2
<1>6. Fit(l) /\ h.ext = Nil => "ext" \notin Given(l.kind, h)
  BY <1>3 DEF Fit, Given, ClearsNoKey
<1> QED
  BY <1>1, <1>2, <1>3, <1>4, <1>5, <1>6

LEMMA GivesApplied ==
  ASSUME ShapeInv, NEW q \in Loads, NEW t \in Tabs, AtHand(q, t),
         load[q].kind \in {"ingest", "upsert"}, load[q].hit = Nil => FreshIds # {},
         Body(load[q]), Gives(load[q])
  PROVE  Gives(AfterRow(q, t))
<1> DEFINE l == load[q]
           h == Line(l, t)
           m == AfterRow(q, t)
<1>1. /\ Current(q, t) = h /\ h.tab = t /\ Hand(l.todo, t)
      /\ t \in People => \A c \in Keying : h[c] # Nil => c \in Given(l.kind, h)
  BY BodyLine
<1>2. /\ m.kind = l.kind /\ m.what = l.what /\ m.hit = Nil
      /\ m.todo = [l.todo EXCEPT ![t] = Tail(@)]
  BY AfterRowIs
<1>3. l.todo \in Documents
  BY DEF ShapeInv, BulkTypes, Records
<1>4. \A u \in Tabs : Passed(m, u) \subseteq Passed(l, u) \cup (IF u = t THEN {h} ELSE {})
  <2> SUFFICES ASSUME NEW u \in Tabs
               PROVE  Passed(m, u) \subseteq Passed(l, u) \cup (IF u = t THEN {h} ELSE {})
    OBVIOUS
  <2>1. l.todo[t] # <<>> /\ l.todo[t] \in Seq(Lines)
    BY <1>1, <1>3 DEF Hand, Documents
  <2>2. Range(l.todo[t]) = {h} \cup Range(Tail(l.todo[t]))
    BY <2>1, HeadOrTail DEF Line
  <2>3. m.todo[u] = IF u = t THEN Tail(l.todo[t]) ELSE l.todo[u]
    BY <1>2, <1>3 DEF Documents
  <2> QED
    BY <1>2, <2>2, <2>3 DEF Passed
<1>5. /\ \A o \in l.objs : \E p \in m.objs : Turns(l, h, o, p)
      /\ l.hit = Nil => \E p \in m.objs : Comes(l, h, p)
      /\ OfSession(rows, m.objs, l.ws)
  BY <1>1, AfterObjects
<1>6. \A p \in m.objs : p.row.id \in Ids
  BY <1>5 DEF OfSession, Session, Objects, Row
<1>7. Keying \subseteq Columns /\ Nil \notin Ids
  BY BulkAssumption DEF Keying, Columns
<1> SUFFICES ASSUME NEW u \in People, NEW r \in Passed(m, u), Keyed(r)
             PROVE  \E p \in m.objs : p.row.id # m.hit /\ p.row.tab = u /\ Holds(m.kind, r, p.row)
  BY DEF Gives
<1>8. CASE r \in Passed(l, u)
  <2>1. PICK o \in l.objs : o.row.id # l.hit /\ o.row.tab = u /\ Holds(l.kind, r, o.row)
    BY <1>8 DEF Gives
  <2>2. PICK p \in m.objs : Turns(l, h, o, p)
    BY <1>5
  <2>3. p.row = o.row
    BY <2>1, <2>2 DEF Turns
  <2> QED
    BY <1>2, <1>6, <1>7, <2>1, <2>3
<1>9. CASE r = h /\ u = t
  <2>1. PICK p \in m.objs : /\ p.row.tab = t
                            /\ \A x \in Given(l.kind, h) \cap Keying : p.row[x] = h[x]
    <3>1. CASE l.hit = Nil
      <4>1. PICK p \in m.objs : Comes(l, h, p)
        BY <1>5, <3>1
      <4> QED
        BY <1>1, <1>7, <4>1 DEF Comes
    <3>2. CASE l.hit # Nil
      <4>1. HitInv(l)
        BY DEF ShapeInv, LoadInv
      <4>2. PICK o \in l.objs : o.row.id = l.hit /\ o.row.tab = t
        BY <1>1, <3>2, <4>1 DEF HitInv
      <4>3. PICK p \in m.objs : Turns(l, h, o, p)
        BY <1>5
      <4> QED
        BY <1>7, <4>2, <4>3 DEF Turns, Same
    <3> QED
      BY <3>1, <3>2
  <2> QED
    BY <1>2, <1>6, <1>7, <1>9, <2>1 DEF Holds
<1> QED
  BY <1>4, <1>8, <1>9, PeopleTabs

LEMMA GivesPassed ==
  ASSUME ShapeInv, NEW q \in Loads, NEW t \in Tabs, RowError(q, t),
         Body(load[q]), load[q].kind \in {"ingest", "upsert"}, Gives(load[q]),
         NEW m, m.kind = load[q].kind, m.what = load[q].what, m.objs = load[q].objs,
         m.hit = load[q].hit, m.todo = [load[q].todo EXCEPT ![t] = Tail(@)]
  PROVE  Gives(m)
<1> DEFINE l == load[q]
           h == Line(l, t)
<1>1. /\ Current(q, t) = h /\ h.tab = t /\ Hand(l.todo, t) /\ ~Lands(l.kind, h)
  BY BodyLine DEF RowError
<1>2. l.todo \in Documents
  BY DEF ShapeInv, BulkTypes, Records
<1>3. \A u \in Tabs : Passed(m, u) \subseteq Passed(l, u) \cup (IF u = t THEN {h} ELSE {})
  <2> SUFFICES ASSUME NEW u \in Tabs
               PROVE  Passed(m, u) \subseteq Passed(l, u) \cup (IF u = t THEN {h} ELSE {})
    OBVIOUS
  <2>1. l.todo[t] # <<>> /\ l.todo[t] \in Seq(Lines)
    BY <1>1, <1>2 DEF Hand, Documents
  <2>2. Range(l.todo[t]) = {h} \cup Range(Tail(l.todo[t]))
    BY <2>1, HeadOrTail DEF Line
  <2>3. m.todo[u] = IF u = t THEN Tail(l.todo[t]) ELSE l.todo[u]
    BY <1>2 DEF Documents
  <2> QED
    BY <2>2, <2>3 DEF Passed
<1>4. t \in People => ~Keyed(h)
  BY <1>1, PeopleKeyed DEF Lands
<1> QED
  BY <1>3, <1>4, PeopleTabs DEF Gives

LEMMA GivesLooks ==
  ASSUME ShapeInv, NEW q \in Loads, Gives(load[q]),
         NEW m, m.kind = load[q].kind, m.what = load[q].what, m.todo = load[q].todo,
         \/ m.hit = Nil /\ m.objs = load[q].objs
         \/ \E s : /\ m.hit = s.id /\ m.objs = Taken(load[q].objs, s)
                   /\ s.id \notin IdsOf(load[q].objs)
  PROVE  Gives(m)
<1> DEFINE l == load[q]
<1>1. \A o \in l.objs : o \in m.objs /\ o.row.id # m.hit
  <2>1. \A o \in l.objs : o.row.id \in Ids
    BY DEF ShapeInv, LoadInv, OfSession, Session, Objects, Row
  <2>2. CASE m.hit = Nil /\ m.objs = l.objs
    BY <2>1, <2>2, BulkAssumption
  <2>3. ASSUME NEW s, m.hit = s.id, m.objs = Taken(l.objs, s), s.id \notin IdsOf(l.objs)
        PROVE  \A o \in l.objs : o \in m.objs /\ o.row.id # m.hit
    <3>1. \A o \in l.objs : o \in m.objs
      BY <2>3 DEF Taken
    <3> QED
      BY <2>3, <3>1 DEF IdsOf
  <2> QED
    BY <2>2, <2>3
<1>2. \A u \in People : Passed(m, u) = Passed(l, u)
  BY DEF Passed
<1> SUFFICES ASSUME NEW u \in People, NEW r \in Passed(m, u), Keyed(r)
             PROVE  \E p \in m.objs : p.row.id # m.hit /\ p.row.tab = u /\ Holds(m.kind, r, p.row)
  BY DEF Gives
<1>3. PICK o \in l.objs : o.row.tab = u /\ Holds(l.kind, r, o.row)
  BY <1>2 DEF Gives
<1> QED
  BY <1>1, <1>3

LEMMA GivesCommits ==
  ASSUME ShapeInv, NEW q \in Loads, Gives(load[q]), Based(rows, load[q].objs),
         load[q].todo = Empty, rows' = View(Flushed(load[q].objs))
  PROVE  Landed(rows', load[q].kind, load[q].ws, load[q].what)
<1> DEFINE l == load[q]
<1>1. OfSession(rows, l.objs, l.ws) /\ BulkTypes /\ RowsInv
  BY DEF ShapeInv, LoadInv
<1>2. /\ Session(rows, Flushed(l.objs))
      /\ \A o \in Flushed(l.objs) : o.flushed /\ o.was = o.row
      /\ \A o \in l.objs : \E p \in Flushed(l.objs) : p.row = o.row
      /\ \A p \in Flushed(l.objs) : \E o \in l.objs : p.row = o.row /\ p.new = o.new /\ p.base = o.base
  BY <1>1, SessionFlushed DEF OfSession
<1>3. Based(rows, Flushed(l.objs))
  BY <1>2 DEF Based
<1>4. \A o \in Flushed(l.objs) : o.was \in View(Flushed(l.objs))
  BY <1>1, <1>2, <1>3, ViewAlone DEF Shown
<1>5. \A o \in l.objs : o.row \in rows' /\ o.row.ws = l.ws
  BY <1>1, <1>2, <1>4 DEF OfSession
<1>6. \A u \in People : Passed(l, u) = Range(l.what[u])
  BY PeopleTabs DEF Passed, Empty, Range
<1> QED
  BY <1>5, <1>6 DEF Gives, Landed

\* What the re-run sees has the keys of a committed row, or none.
LEMMA RepeatView ==
  ASSUME ShapeInv, NEW objs, Session(rows, objs), Based(rows, objs), RepeatObjects(objs)
  PROVE  /\ \A s \in View(objs) :
              \/ s.ext = Nil /\ s.alt = Nil
              \/ /\ \E b \in rows : Same(b, s) /\ b.ext = s.ext /\ b.alt = s.alt
                 /\ \A o \in objs : o.row.id = s.id => o.row.ext = s.ext /\ o.row.alt = s.alt
         /\ \A b \in rows : \E s \in View(objs) : Same(b, s) /\ s.ext = b.ext /\ s.alt = b.alt
<1>1. /\ \A s \in View(objs) : Untouched(objs, s) \/ \E o \in objs : Shown(o) /\ s = o.was
      /\ \A s : Untouched(objs, s) => s \in View(objs)
      /\ \A o \in objs : Shown(o) => o.was \in View(objs) /\ Same(o.was, o.row)
  BY ViewAlone DEF ShapeInv
<1>2. \A o, p \in objs : o.row.id = p.row.id => o = p
  BY DEF Session
<1>3. \A o \in objs :
        /\ ~o.new => /\ o.row.ext = o.base.ext /\ o.row.alt = o.base.alt
                     /\ o.was.ext = o.base.ext /\ o.was.alt = o.base.alt
                     /\ o.base \in rows /\ Same(o.base, o.row) /\ Shown(o)
        /\ o.new /\ o.flushed => o.was.ext = Nil /\ o.was.alt = Nil
  BY DEF RepeatObjects, Keying, Based, Shown
<1>4. ASSUME NEW s \in View(objs)
      PROVE  \/ s.ext = Nil /\ s.alt = Nil
             \/ /\ \E b \in rows : Same(b, s) /\ b.ext = s.ext /\ b.alt = s.alt
                /\ \A o \in objs : o.row.id = s.id => o.row.ext = s.ext /\ o.row.alt = s.alt
  <2>1. CASE Untouched(objs, s)
    <3>1. s \in rows /\ \A o \in objs : o.row.id # s.id
      BY <2>1 DEF Untouched, IdsOf
    <3> QED
      BY <3>1 DEF Same
  <2>2. ASSUME NEW o \in objs, Shown(o), s = o.was
        PROVE  \/ s.ext = Nil /\ s.alt = Nil
               \/ /\ \E b \in rows : Same(b, s) /\ b.ext = s.ext /\ b.alt = s.alt
                  /\ \A p \in objs : p.row.id = s.id => p.row.ext = s.ext /\ p.row.alt = s.alt
    <3>1. CASE o.new
      BY <1>3, <2>2, <3>1 DEF Shown
    <3>2. CASE ~o.new
      <4>1. Same(s, o.row)
        BY <1>1, <2>2
      <4>2. Same(o.base, s) /\ o.base \in rows /\ o.base.ext = s.ext /\ o.base.alt = s.alt
        BY <1>3, <2>2, <3>2, <4>1 DEF Same
      <4>3. \A p \in objs : p.row.id = s.id => p = o
        BY <1>2, <4>1 DEF Same
      <4> QED
        BY <1>3, <2>2, <3>2, <4>2, <4>3
    <3> QED
      BY <3>1, <3>2
  <2> QED
    BY <1>1, <2>1, <2>2
<1>5. ASSUME NEW b \in rows
      PROVE  \E s \in View(objs) : Same(b, s) /\ s.ext = b.ext /\ s.alt = b.alt
  <2>1. CASE b.id \notin IdsOf(objs)
    BY <1>1, <2>1 DEF Untouched, Same
  <2>2. ASSUME NEW o \in objs, o.row.id = b.id
        PROVE  \E s \in View(objs) : Same(b, s) /\ s.ext = b.ext /\ s.alt = b.alt
    <3>1. ~o.new
      BY <2>2 DEF Session, Added1
    <3>2. o.base = b
      BY <1>3, <2>2, <3>1 DEF Same, ShapeInv, RowsInv
    <3>3. Same(o.was, o.row) /\ o.was \in View(objs)
      BY <1>1, <1>3, <3>1
    <3> QED
      BY <1>3, <3>1, <3>2, <3>3 DEF Same
  <2> QED
    BY <2>1, <2>2 DEF IdsOf
<1> QED
  BY <1>4, <1>5

\* A row without a key is given for a line only when nothing else is.
LEMMA KeyFound ==
  ASSUME NEW kind \in {"ingest", "upsert"}, NEW h, h.tab \in People, NEW v
  PROVE  /\ \A s \in Candidates(kind, v, h) :
              s \in v /\ (\/ h.ext # Nil /\ s.ext = h.ext
                          \/ /\ h.alt # Nil /\ s.alt = h.alt
                             /\ h.ext # Nil => \A u \in v : u.ext # h.ext)
         /\ Candidates(kind, v, h) = {} =>
              /\ h.ext # Nil => \A u \in v : u.ext # h.ext
              /\ h.ext = Nil /\ h.alt # Nil => \A u \in v : u.alt # h.alt
<1>1. CASE kind = "ingest"
  <2>1. Candidates(kind, v, h) = ByExternalIdOr(v, h, TRUE)
    BY <1>1 DEF Candidates, IngestMatches, People
  <2> QED
    BY <2>1 DEF ByExternalIdOr, Named
<1>2. CASE kind = "upsert"
  <2>1. Candidates(kind, v, h) = UpsertMatches(v, h)
    BY <1>2 DEF Candidates
  <2> QED
    BY <2>1 DEF UpsertMatches, Named
<1> QED
  BY <1>1, <1>2

LEMMA RepeatFinds ==
  ASSUME ShapeInv, NEW q \in Loads, NEW t \in Tabs, AtHand(q, t),
         load[q].kind \in {"ingest", "upsert"}, Body(load[q]), Fit(load[q]),
         Based(rows, load[q].objs), RepeatObjects(load[q].objs),
         Landed(rows, load[q].kind, load[q].ws, load[q].what)
  PROVE  LET l == load[q]
             h == Line(l, t) IN
         /\ \A s \in Found(q, t) :
              /\ Holds(l.kind, h, s)
              /\ \A o \in l.objs : o.row.id = s.id => Holds(l.kind, h, o.row)
         /\ Found(q, t) = {} => ~Keyed(h)
<1> DEFINE l == load[q]
           h == Line(l, t)
           v == Seen(q, t)
<1>1. /\ Current(q, t) = h /\ h \in Range(l.what[t]) /\ h.tab = t /\ t \in People
      /\ \A c \in Keying : h[c] # Nil => c \in Given(l.kind, h)
      /\ h.ext = Nil => "ext" \notin Given(l.kind, h)
  BY BodyLine
<1>2. Found(q, t) = Candidates(l.kind, v, h)
  BY <1>1 DEF Found
<1>3. Session(rows, l.objs)
  BY DEF ShapeInv, LoadInv, OfSession
<1>4. /\ \A s \in View(l.objs) :
           \/ s.ext = Nil /\ s.alt = Nil
           \/ /\ \E b \in rows : Same(b, s) /\ b.ext = s.ext /\ b.alt = s.alt
              /\ \A o \in l.objs : o.row.id = s.id => o.row.ext = s.ext /\ o.row.alt = s.alt
      /\ \A b \in rows : \E s \in View(l.objs) : Same(b, s) /\ s.ext = b.ext /\ s.alt = b.alt
  BY <1>3, RepeatView
<1>5. Keyed(h) => \E k \in rows : k.ws = l.ws /\ k.tab = t /\ Holds(l.kind, h, k)
  BY <1>1 DEF Landed
<1>6. Keyed(h) <=> h.ext # Nil \/ h.alt # Nil
  BY <1>1, PeopleKeyed
<1>7. \A b, k \in rows : /\ b.ws = l.ws /\ k.ws = l.ws /\ b.tab = t /\ k.tab = t
                         /\ b.ext = k.ext /\ b.ext # Nil
                         => b = k
  <2> SUFFICES ASSUME NEW b \in rows, NEW k \in rows, b.ws = l.ws, k.ws = l.ws, b.tab = t,
                      k.tab = t, b.ext = k.ext, b.ext # Nil, b.id # k.id
               PROVE  FALSE
    BY DEF ShapeInv, RowsInv
  <2>1. KeyColumns(b.tab) = {"ws", "ext"}
    BY <1>1 DEF KeyColumns, People
  <2>2. b.ws # Nil
    BY BulkAssumption DEF ShapeInv, BulkTypes, Row
  <2>3. Clash(b, k)
    BY <2>1, <2>2 DEF Clash
  <2> QED
    BY <2>3 DEF ShapeInv, RowsInv
<1>8. Keyed(h) => \E k \in rows, s \in v :
                    /\ k.ws = l.ws /\ k.tab = t /\ Holds(l.kind, h, k)
                    /\ s.ext = k.ext /\ s.alt = k.alt
  BY <1>4, <1>5 DEF Seen, Same
<1>9. h.ext # Nil => \E s \in v : s.ext = h.ext
  BY <1>1, <1>6, <1>8 DEF Holds, Keying
<1>10. h.alt # Nil => \E s \in v : s.alt = h.alt
  BY <1>1, <1>6, <1>8 DEF Holds, Keying
<1>11. /\ \A s \in Candidates(l.kind, v, h) :
              s \in v /\ (\/ h.ext # Nil /\ s.ext = h.ext
                          \/ /\ h.alt # Nil /\ s.alt = h.alt
                             /\ h.ext # Nil => \A u \in v : u.ext # h.ext)
       /\ Candidates(l.kind, v, h) = {} =>
              /\ h.ext # Nil => \A u \in v : u.ext # h.ext
              /\ h.ext = Nil /\ h.alt # Nil => \A u \in v : u.alt # h.alt
  <2> HIDE DEF v
  <2>1. h.tab \in People
    BY <1>1
  <2> QED
    BY <2>1, KeyFound
<1>12. Found(q, t) = {} => ~Keyed(h)
  <2>1. Found(q, t) = {} =>
          /\ h.ext # Nil => \A u \in v : u.ext # h.ext
          /\ h.ext = Nil /\ h.alt # Nil => \A u \in v : u.alt # h.alt
    BY <1>11, <1>2
  <2> QED
    BY <2>1, <1>6, <1>9, <1>10
<1>13. ASSUME NEW s \in Found(q, t)
       PROVE  /\ Holds(l.kind, h, s)
              /\ \A o \in l.objs : o.row.id = s.id => Holds(l.kind, h, o.row)
  <2>1. s \in v /\ (\/ h.ext # Nil /\ s.ext = h.ext
                    \/ /\ h.alt # Nil /\ s.alt = h.alt
                       /\ h.ext # Nil => \A u \in v : u.ext # h.ext)
    BY <1>2, <1>13, <1>11
  <2>2. s \in View(l.objs) /\ s.ws = l.ws /\ s.tab = t
    BY <2>1 DEF Seen
  <2>3. PICK b \in rows : Same(b, s) /\ b.ext = s.ext /\ b.alt = s.alt
    BY <1>4, <2>1, <2>2
  <2>4. \A o \in l.objs : o.row.id = s.id => o.row.ext = s.ext /\ o.row.alt = s.alt
    BY <1>4, <2>1, <2>2
  <2>5. Holds(l.kind, h, s)
    <3>1. CASE h.ext # Nil
      <4>1. s.ext = h.ext
        BY <1>9, <2>1, <3>1
      <4>2. PICK k \in rows : k.ws = l.ws /\ k.tab = t /\ Holds(l.kind, h, k)
        BY <1>5, <1>6, <3>1
      <4>3. k.ext = h.ext
        BY <1>1, <3>1, <4>2 DEF Holds, Keying
      <4>4. b = k
        BY <1>7, <2>2, <2>3, <3>1, <4>1, <4>2, <4>3 DEF Same
      <4> QED
        BY <2>3, <4>2, <4>4 DEF Holds, Keying
    <3>2. CASE h.ext = Nil
      <4>1. s.alt = h.alt /\ "ext" \notin Given(l.kind, h)
        BY <1>1, <2>1, <3>2
      <4> QED
        BY <4>1 DEF Holds, Keying
    <3> QED
      BY <3>1, <3>2
  <2> QED
    BY <2>4, <2>5 DEF Holds, Keying
<1> QED
  BY <1>12, <1>13

LEMMA RepeatLooks ==
  ASSUME ShapeInv, NEW q \in Loads, NEW t \in Tabs, AtHand(q, t),
         load[q].kind \in {"ingest", "upsert"}, Body(load[q]), Fit(load[q]),
         Based(rows, load[q].objs), RepeatObjects(load[q].objs),
         Landed(rows, load[q].kind, load[q].ws, load[q].what),
         NEW m, m.kind = load[q].kind, m.todo = load[q].todo,
         \/ m.hit = Nil /\ Found(q, t) = {} /\ m.objs = load[q].objs
         \/ \E s \in Found(q, t) : m.hit = s.id /\ m.objs = Taken(load[q].objs, s)
  PROVE  Repeats(m)
<1> DEFINE l == load[q]
           h == Line(l, t)
<1>1. /\ \A s \in Found(q, t) :
           /\ Holds(l.kind, h, s)
           /\ \A o \in l.objs : o.row.id = s.id => Holds(l.kind, h, o.row)
      /\ Found(q, t) = {} => ~Keyed(h)
  BY RepeatFinds
<1>2. Hand(l.todo, t)
  BY CurrentLine
<1>3. \A u \in Tabs : Hand(m.todo, u) => u = t /\ Line(m, u) = h
  BY <1>2, HandOne DEF Line
<1>4. \A o \in l.objs : o.row.id \in Ids
  BY DEF ShapeInv, LoadInv, OfSession, Session, Objects, Row
<1>5. CASE m.hit = Nil /\ Found(q, t) = {} /\ m.objs = l.objs
  <2>1. RepeatLook(m)
    BY <1>1, <1>3, <1>4, <1>5, BulkAssumption DEF RepeatLook
  <2> QED
    BY <1>5, <2>1 DEF Repeats
<1>6. ASSUME NEW s \in Found(q, t), m.hit = s.id, m.objs = Taken(l.objs, s)
      PROVE  Repeats(m)
  <2>1. \A o \in m.objs : o \in l.objs \/ (o = Object(s, s, s, FALSE, FALSE))
    BY <1>6 DEF Taken
  <2>2. RepeatObjects(m.objs)
    BY <2>1 DEF RepeatObjects, Object
  <2>3. s.id \in Ids
    BY FoundSeen, SeenRows DEF Row
  <2>4. \A o \in m.objs : o.row.id = m.hit => Holds(m.kind, h, o.row)
    BY <1>1, <1>6, <2>1 DEF Object
  <2>5. RepeatLook(m)
    BY <1>3, <1>6, <2>3, <2>4, BulkAssumption DEF RepeatLook
  <2> QED
    BY <2>2, <2>5 DEF Repeats
<1> QED
  BY <1>5, <1>6

LEMMA RepeatApplied ==
  ASSUME ShapeInv, NEW q \in Loads, NEW t \in Tabs, AtHand(q, t), load[q].looked,
         load[q].kind \in {"ingest", "upsert"}, load[q].hit = Nil => FreshIds # {},
         Body(load[q]), Fit(load[q]), Repeats(load[q])
  PROVE  Repeats(AfterRow(q, t))
<1> DEFINE l == load[q]
           h == Line(l, t)
           m == AfterRow(q, t)
<1>1. /\ Current(q, t) = h /\ h.tab = t /\ t \in People /\ Hand(l.todo, t)
  BY BodyLine
<1>2. ~m.looked
  BY AfterRowIs
<1>3. /\ l.hit = Nil => h.ext = Nil /\ h.alt = Nil
      /\ \A o \in l.objs : o.row.id = l.hit => Holds(l.kind, h, o.row)
  BY <1>1, PeopleKeyed DEF Repeats, RepeatLook
<1>4. \A p \in m.objs : Comes(l, h, p) \/ \E o \in l.objs : Turns(l, h, o, p)
  BY <1>1, AfterObjects
<1>5. RepeatObjects(l.objs) /\ Keying \subseteq Columns
  BY DEF Repeats, Keying, Columns
<1>6. ASSUME NEW p \in m.objs, NEW c \in Keying, Comes(l, h, p)
      PROVE  p.new /\ p.row.tab \in People /\ p.row[c] = Nil /\ (p.flushed => p.was[c] = Nil)
  BY <1>1, <1>3, <1>5, <1>6 DEF Comes, Keying
<1>7. ASSUME NEW p \in m.objs, NEW c \in Keying, NEW o \in l.objs, Turns(l, h, o, p)
      PROVE  /\ ~p.new => p.row[c] = p.base[c] /\ p.was[c] = p.base[c]
             /\ p.new => p.row.tab \in People /\ p.row[c] = Nil /\ (p.flushed => p.was[c] = Nil)
  <2>1. p.row[c] = o.row[c]
    <3>1. CASE o.row.id = l.hit
      <4>1. p.row[c] = IF c \in Given(l.kind, h) THEN h[c] ELSE o.row[c]
        BY <1>5, <1>7, <3>1 DEF Turns
      <4> QED
        BY <1>3, <3>1, <4>1 DEF Holds
    <3> QED
      BY <1>7, <3>1 DEF Turns
  <2>2. /\ p.new = o.new /\ p.base = o.base /\ p.row.tab = o.row.tab
        /\ (p.was = o.was /\ p.flushed = o.flushed) \/ (p.flushed /\ p.was = p.row)
    BY <1>7 DEF Turns, Same
  <2>3. /\ ~o.new => o.row[c] = o.base[c] /\ o.was[c] = o.base[c]
        /\ o.new => o.row.tab \in People /\ o.row[c] = Nil /\ (o.flushed => o.was[c] = Nil)
    BY <1>5 DEF RepeatObjects
  <2> QED
    BY <2>1, <2>2, <2>3
<1>8. RepeatObjects(m.objs)
  BY <1>4, <1>6, <1>7 DEF RepeatObjects
<1> QED
  BY <1>2, <1>8 DEF Repeats, RepeatLook

-----------------------------------------------------------------------------
(* The invariant of re-runs, and what keeps it.                            *)

Again(R, l, made) == Imported(R, l.ws, l.what, made) /\ Second(l, made)
AgainImport(R, l) ==
  /\ TripDoc(R, l)
  /\ l.fresh => First(R, l)
  /\ l.again /\ l.was => \E made \in Maps : Again(R, l, made)
AgainLines(R, l) ==
  /\ l.apart => Gives(l)
  /\ l.again /\ Fit(l) => Landed(R, l.kind, l.ws, l.what) /\ Repeats(l)
AgainLoad(R, l) ==
  /\ l.alone => Based(R, l.objs)
  /\ l.alone /\ l.kind = "import" => AgainImport(R, l)
  /\ l.kind \in {"ingest", "upsert"} => Body(l)
  /\ l.alone /\ l.kind \in {"ingest", "upsert"} => AgainLines(R, l)
LastInv(R) ==
  last # Nil =>
    /\ last.kind = "import" /\ last.fresh =>
         \E made \in Maps : Imported(R, last.ws, last.what, made)
    /\ last.kind \in {"ingest", "upsert"} /\ last.apart =>
         Landed(R, last.kind, last.ws, last.what)
AgainInv == LastInv(rows) /\ \A q \in Loads : AgainLoad(rows, load[q])

LEMMA NoLoadAgain == ASSUME NEW R PROVE AgainLoad(R, NoLoad)
BY DEF AgainLoad, NoLoad, Based

LEMMA InitAgain == BulkInit => AgainInv
BY NoLoadAgain DEF BulkInit, AgainInv, LastInv

LEMMA OneLoadAgain ==
  ASSUME ShapeInv, AgainInv, NEW q \in Loads, NEW m, load' = [load EXCEPT ![q] = m],
         rows' = rows, last' = last, AgainLoad(rows, m)
  PROVE  AgainInv'
<1>1. \A p \in Loads : load'[p] = IF p = q THEN m ELSE load[p]
  BY DEF ShapeInv, BulkTypes
<1>2. \A p \in Loads : AgainLoad(rows, load'[p])
  BY <1>1 DEF AgainInv
<1>3. LastInv(rows)'
  BY DEF AgainInv, LastInv
<1> QED
  BY <1>2, <1>3 DEF AgainInv

\* A commit or an insert ends what others may claim.
LEMMA RowsChangeAgain ==
  ASSUME ShapeInv, LastInv(rows)',
         \A p \in Loads : load'[p] = NoLoad \/ load'[p] = NotAlone(load[p]), AgainInv
  PROVE  AgainInv'
<1> SUFFICES ASSUME NEW p \in Loads
             PROVE  AgainLoad(rows', load'[p])
  BY DEF AgainInv
<1>1. CASE load'[p] = NoLoad
  BY <1>1, NoLoadAgain
<1>2. CASE load'[p] = NotAlone(load[p])
  <2> DEFINE l == load[p]
             m == load'[p]
  <2>1. l \in Records /\ LoadInv(rows, l) /\ AgainLoad(rows, l)
    BY DEF ShapeInv, BulkTypes, AgainInv
  <2>2. /\ m.kind = l.kind /\ m.what = l.what /\ m.todo = l.todo /\ m.objs = l.objs
        /\ m.alone = (l.alone /\ l.kind = "idle")
    BY <1>2, <2>1, NotAloneIs
  <2> HIDE DEF l, m
  <2>3. m.alone => m.objs = {} /\ m.kind = "idle"
    BY <2>1, <2>2 DEF LoadInv
  <2>4. Body(l) => Body(m)
    BY <2>2 DEF Body
  <2>5. AgainLoad(rows', m)
    BY <2>1, <2>2, <2>3, <2>4 DEF AgainLoad, Based
  <2> QED
    BY <2>5 DEF m
<1> QED
  BY <1>1, <1>2

LEMMA StartAgain ==
  ASSUME ShapeInv, AgainInv, NEW q \in Loads, NEW kind \in {"import", "ingest", "upsert"},
         NEW w \in Workspaces, NEW what \in Documents, Start(q, kind, w, what),
         kind = "import" =>
           /\ DocRows(rows, what) /\ \A t \in Tabs : ApartRows(what[t])
           /\ \A t \in Tabs : \A r \in Range(what[t]) : r \in Row /\ Placed(rows, r),
         kind # "import" => \A t \in Tabs : \A r \in Range(what[t]) :
           /\ r.tab = t
           /\ r \in Item \/ (kind = "ingest" /\ r \in Text)
           /\ r \in Item => \A c \in {"ext", "alt", "val"} : r[c] # Nil => c \in r.has
  PROVE  AgainInv'
<1> DEFINE l == load'[q]
           again == last # Nil /\ last.kind = kind /\ last.ws = w /\ last.what = what
           was == last # Nil /\ (IF kind = "import" THEN last.fresh ELSE last.apart)
<1>1. /\ load' = [load EXCEPT ![q] = l]
      /\ l.kind = kind /\ l.ws = w /\ l.todo = what /\ l.what = what /\ l.objs = {} /\ l.map = <<>>
      /\ l.hit = Nil /\ l.looked = FALSE /\ l.fresh = (\A r \in rows : r.ws # w)
  BY DEF Start, ShapeInv, BulkTypes, NoLoad
<1>2. l.again = again /\ l.was = was
  BY DEF Start, ShapeInv, BulkTypes, NoLoad
<1>3. rows' = rows /\ last' = last
  BY DEF Start
<1> HIDE DEF l, again, was
<1>4. \A t \in Tabs : Passed(l, t) = {}
  BY <1>1 DEF Passed
<1>5. Based(rows, l.objs)
  BY <1>1 DEF Based
<1>6. kind = "import" => TripDoc(rows, l)
  BY <1>1, <1>4 DEF TripDoc, ApartRows
<1>7. l.fresh => First(rows, l)
  <2>1. FirstObjects(l) /\ FirstLook(l)
    BY <1>1 DEF FirstObjects, FirstLook
  <2>2. FirstMap(l)
    BY <1>1, <1>4 DEF FirstMap
  <2> QED
    BY <1>1, <2>1, <2>2 DEF First
<1>8. \A made : Second(l, made)
  <2>1. SecondObjects(l)
    BY <1>1 DEF SecondObjects
  <2>2. \A made : SecondMap(l, made) /\ SecondLook(l, made)
    BY <1>1, <1>4 DEF SecondMap, SecondLook, Mapped, Tabs, Sections
  <2> QED
    BY <2>1, <2>2 DEF Second
<1>9. kind = "import" /\ l.again /\ l.was => \E made \in Maps : Again(rows, l, made)
  <2> SUFFICES ASSUME kind = "import", l.again, l.was
               PROVE  \E made \in Maps : Imported(rows, w, what, made)
    BY <1>1, <1>8 DEF Again
  <2>1. last # Nil /\ last.kind = "import" /\ last.ws = w /\ last.what = what /\ last.fresh
    BY <1>2 DEF again, was
  <2> QED
    BY <2>1 DEF AgainInv, LastInv
<1>10. kind # "import" => Body(l)
  BY <1>1 DEF Body
<1>11. Gives(l)
  BY <1>4, PeopleTabs DEF Gives
<1>12. Repeats(l)
  BY <1>1 DEF Repeats, RepeatObjects, RepeatLook
<1>13. kind # "import" /\ l.again /\ Fit(l) => Landed(rows, kind, w, what)
  BY <1>2 DEF again, was, Fit, AgainInv, LastInv
<1>14. AgainLoad(rows, l)
  <2>1. kind = "import" => AgainImport(rows, l)
    BY <1>6, <1>7, <1>9 DEF AgainImport
  <2>2. kind # "import" => AgainLines(rows, l)
    BY <1>1, <1>11, <1>12, <1>13 DEF AgainLines
  <2> QED
    BY <1>1, <1>5, <1>10, <2>1, <2>2 DEF AgainLoad
<1> QED
  BY <1>1, <1>3, <1>14, OneLoadAgain

LEMMA StartsAgain ==
  ASSUME ShapeInv, LinkInv, TripInv, AgainInv, NEW q \in Loads, NEW w \in Workspaces,
         \/ StartImport(q, w)
         \/ \E what \in Payloads : StartIngest(q, w, what) \/ StartUpsert(q, w, what)
         \/ \E c \in Of(w, "contact"), v \in Values : StartText(q, c, v)
  PROVE  AgainInv'
<1>1. CASE StartImport(q, w)
  <2>1. doc \in Documents /\ DocRows(rows, doc) /\ \A t \in Tabs : \A r \in Range(doc[t]) : r \in Row
    BY DEF ShapeInv, BulkTypes, Documents, Lines, Range
  <2>2. \A t \in Tabs : \A r \in Range(doc[t]) : Placed(rows, r)
    BY DEF LinkInv, DocLinks, Foreseen, Placed
  <2>3. \A t \in Tabs : ApartRows(doc[t])
    BY DEF TripInv
  <2>4. Start(q, "import", w, doc)
    BY <1>1 DEF StartImport
  <2> QED
    BY <2>1, <2>2, <2>3, <2>4, StartAgain
<1>2. ASSUME NEW what \in Payloads, NEW kind \in {"ingest", "upsert"}, Start(q, kind, w, what)
      PROVE  AgainInv'
  <2>1. /\ what \in [Tabs -> Seq(Item)]
        /\ \A t \in Tabs : \A r \in Range(what[t]) :
             r.tab = t /\ \A c \in {"ext", "alt", "val"} : r[c] # Nil => c \in r.has
    BY BulkAssumption
  <2>2. what \in Documents /\ \A t \in Tabs : \A r \in Range(what[t]) : r \in Item
    BY <2>1 DEF Documents, Lines, Range
  <2> QED
    BY <1>2, <2>1, <2>2, StartAgain
<1>3. ASSUME NEW c \in Of(w, "contact"), NEW v \in Values, StartText(q, c, v)
      PROVE  AgainInv'
  <2> DEFINE n == TextNote(c, v)
             what == [Empty EXCEPT !["note"] = <<n>>]
  <2>1. n \in Text /\ c.ws = w
    BY DEF Text, TextNote, Of, ShapeInv, BulkTypes, Row
  <2>2. Start(q, "ingest", w, what)
    BY <1>3, <2>1 DEF StartText
  <2> HIDE DEF n
  <2>3. what \in Documents
    <3>1. <<n>> \in Seq(Lines)
      BY <2>1 DEF Lines
    <3> QED
      BY <3>1, EmptyType DEF Documents
  <2>4. \A t \in Tabs : \A r \in Range(what[t]) : r.tab = t /\ r \in Text /\ r \notin Item
    <3> SUFFICES ASSUME NEW t \in Tabs, NEW r \in Range(what[t])
                 PROVE  t = "note" /\ r = n
      BY <2>1 DEF Text, Item
    <3> QED
      BY DEF Empty, Range
  <2> HIDE DEF what
  <2> QED
    BY <2>2, <2>3, <2>4, StartAgain
<1> QED
  BY <1>1, <1>2, <1>3 DEF StartIngest, StartUpsert

\* An object that a lookup adds is as the committed row is.
LEMMA TakenBased ==
  ASSUME ShapeInv, NEW q \in Loads, NEW t \in Tabs, AtHand(q, t), Based(rows, load[q].objs),
         NEW s \in Found(q, t)
  PROVE  Based(rows, Taken(load[q].objs, s))
<1> DEFINE l == load[q]
<1>1. s \in View(l.objs)
  BY FoundSeen DEF Seen
<1>2. Session(rows, l.objs) /\ BulkTypes /\ RowsInv
  BY DEF ShapeInv, LoadInv, OfSession
<1>3. Untouched(l.objs, s) \/ \E o \in l.objs : s.id = o.row.id
  BY <1>1, <1>2, ViewAlone DEF Same
<1>4. s.id \notin IdsOf(l.objs) => s \in rows
  BY <1>3 DEF Untouched, IdsOf
<1>5. \A o \in Taken(l.objs, s) :
        o \in l.objs \/ (s.id \notin IdsOf(l.objs) /\ o = Object(s, s, s, FALSE, FALSE))
  BY DEF Taken
<1> QED
  BY <1>4, <1>5 DEF Based, Object, Same

LEMMA LookAgain ==
  ASSUME ShapeInv, LinkInv, AgainInv, NEW q \in Loads, NEW t \in Tabs, Look(q, t)
  PROVE  AgainInv'
<1> DEFINE l == load[q]
<1>0. /\ rows' = rows /\ last' = last /\ l \in Records /\ AgainLoad(rows, l) /\ AtHand(q, t)
  BY DEF Look, ShapeInv, BulkTypes, AgainInv
<1>1. ASSUME NEW m \in Records, load' = [load EXCEPT ![q] = m],
             m.kind = l.kind, m.ws = l.ws, m.what = l.what, m.todo = l.todo, m.map = l.map,
             m.alone = l.alone, m.fresh = l.fresh, m.again = l.again, m.was = l.was, m.looked,
             \/ m.hit = Nil /\ Found(q, t) = {} /\ m.objs = l.objs /\ m.apart = l.apart
             \/ \E s \in Found(q, t) : /\ m.hit = s.id /\ m.objs = Taken(l.objs, s)
                                       /\ m.apart => l.apart /\ s.id \notin IdsOf(l.objs)
      PROVE  AgainInv'
  <2>1. m.alone => Based(rows, m.objs)
    BY <1>0, <1>1, TakenBased DEF AgainLoad
  <2>2. \A u \in Tabs : Passed(m, u) = Passed(l, u)
    BY <1>1 DEF Passed
  <2>3. ASSUME l.alone, l.kind = "import"
        PROVE  AgainImport(rows, m)
    <3>1. TripDoc(rows, l) /\ Based(rows, l.objs)
      BY <1>0, <2>3 DEF AgainLoad, AgainImport
    <3>2. TripDoc(rows, m)
      BY <1>1, <2>2, <3>1 DEF TripDoc
    <3>3. ASSUME l.fresh
          PROVE  First(rows, m)
      <4>1. First(rows, l)
        BY <1>0, <2>3, <3>3 DEF AgainLoad, AgainImport
      <4>2. \A s \in Found(q, t) : Taken(l.objs, s) = l.objs
        BY <1>0, <2>3, <3>1, <4>1, FirstFinds
      <4>3. /\ m.objs = l.objs
            /\ (m.hit = Nil /\ Found(q, t) = {}) \/ \E s \in Found(q, t) : m.hit = s.id
        BY <1>1, <4>2
      <4> QED
        BY <1>0, <1>1, <2>3, <3>1, <4>1, <4>3, FirstLooks
    <3>4. ASSUME l.again, l.was
          PROVE  \E made \in Maps : Again(rows, m, made)
      <4>1. PICK made \in Maps : Again(rows, l, made)
        BY <1>0, <2>3, <3>4 DEF AgainLoad, AgainImport
      <4>2. Imported(rows, l.ws, l.what, made) /\ Second(l, made)
        BY <4>1 DEF Again
      <4>3. \/ m.hit = Nil /\ Found(q, t) = {} /\ m.objs = l.objs
            \/ \E s \in Found(q, t) : m.hit = s.id /\ m.objs = Taken(l.objs, s)
        BY <1>1
      <4>4. Second(m, made)
        BY <1>0, <1>1, <2>3, <3>1, <4>2, <4>3, SecondLooks
      <4> QED
        BY <1>1, <4>2, <4>4 DEF Again
    <3> QED
      BY <1>1, <3>2, <3>3, <3>4 DEF AgainImport
  <2>4. ASSUME l.kind \in {"ingest", "upsert"}
        PROVE  Body(m) /\ (l.alone => AgainLines(rows, m))
    <3>1. Body(l) /\ (l.alone => Based(rows, l.objs) /\ AgainLines(rows, l))
      BY <1>0, <2>4 DEF AgainLoad
    <3>2. Body(m)
      BY <1>1, <3>1 DEF Body
    <3>3. ASSUME l.alone, m.apart
          PROVE  Gives(m)
      <4>1. \/ m.hit = Nil /\ m.objs = l.objs
            \/ \E s : m.hit = s.id /\ m.objs = Taken(l.objs, s) /\ s.id \notin IdsOf(l.objs)
        BY <1>1, <3>3
      <4>2. Gives(l)
        BY <1>1, <3>1, <3>3 DEF AgainLines
      <4> QED
        BY <1>1, <4>1, <4>2, GivesLooks
    <3>4. ASSUME l.alone, m.again, Fit(m)
          PROVE  Landed(rows, m.kind, m.ws, m.what) /\ Repeats(m)
      <4>1. Fit(l)
        BY <1>1, <3>4 DEF Fit
      <4>2. Landed(rows, l.kind, l.ws, l.what) /\ RepeatObjects(l.objs)
        BY <1>1, <3>1, <3>4, <4>1 DEF AgainLines, Repeats
      <4>3. \/ m.hit = Nil /\ Found(q, t) = {} /\ m.objs = l.objs
            \/ \E s \in Found(q, t) : m.hit = s.id /\ m.objs = Taken(l.objs, s)
        BY <1>1
      <4>4. Repeats(m)
        BY <1>0, <1>1, <2>4, <3>1, <3>4, <4>1, <4>2, <4>3, RepeatLooks
      <4> QED
        BY <1>1, <4>2, <4>4
    <3> QED
      BY <3>2, <3>3, <3>4 DEF AgainLines
  <2>5. AgainLoad(rows, m)
    BY <1>1, <2>1, <2>3, <2>4 DEF AgainLoad
  <2> QED
    BY <1>0, <1>1, <2>5, OneLoadAgain
<1>2. CASE Found(q, t) = {} /\ load' = [load EXCEPT ![q] = [l EXCEPT !.looked = TRUE, !.hit = Nil]]
  <2> DEFINE m == [l EXCEPT !.looked = TRUE, !.hit = Nil]
  <2>1. /\ m \in Records /\ m.kind = l.kind /\ m.ws = l.ws /\ m.what = l.what /\ m.todo = l.todo
        /\ m.objs = l.objs /\ m.map = l.map /\ m.hit = Nil /\ m.alone = l.alone
        /\ m.fresh = l.fresh /\ m.again = l.again /\ m.was = l.was /\ m.looked
        /\ m.apart = l.apart
    BY <1>0 DEF Records
  <2>2. load' = [load EXCEPT ![q] = m]
    BY <1>2
  <2> HIDE DEF m
  <2> QED
    BY <1>1, <1>2, <2>1, <2>2
<1>3. ASSUME NEW s \in Found(q, t), NEW x \in BOOLEAN, x <=> l.apart /\ s.id \notin IdsOf(l.objs),
             load' = [load EXCEPT ![q] = [l EXCEPT !.looked = TRUE, !.hit = s.id, !.apart = x,
                                                   !.objs = Taken(l.objs, s)]]
      PROVE  AgainInv'
  <2> DEFINE m == [l EXCEPT !.looked = TRUE, !.hit = s.id, !.apart = x, !.objs = Taken(l.objs, s)]
  <2>1. s.id \in Ids /\ Taken(l.objs, s) \in SUBSET Objects
    <3>1. s \in Seen(q, t)
      BY <1>0, FoundSeen
    <3> QED
      BY <3>1, SeenRows, TakenObjects DEF Row, OfSession, Session
  <2>2. /\ m \in Records /\ m.kind = l.kind /\ m.ws = l.ws /\ m.what = l.what /\ m.todo = l.todo
        /\ m.objs = Taken(l.objs, s) /\ m.map = l.map /\ m.hit = s.id /\ m.alone = l.alone
        /\ m.fresh = l.fresh /\ m.again = l.again /\ m.was = l.was /\ m.looked
        /\ m.apart = x
    BY <1>0, <2>1 DEF Records
  <2>3. load' = [load EXCEPT ![q] = m]
    BY <1>3
  <2> HIDE DEF m
  <2> QED
    BY <1>1, <1>3, <2>2, <2>3
<1> QED
  BY <1>2, <1>3, LookIs

LEMMA RowErrorAgain ==
  ASSUME ShapeInv, AgainInv, NEW q \in Loads, NEW t \in Tabs, RowError(q, t)
  PROVE  AgainInv'
<1> DEFINE l == load[q]
           todo == [l.todo EXCEPT ![t] = Tail(@)]
           m == [l EXCEPT !.todo = todo]
<1>1. /\ l \in Records /\ AgainLoad(rows, l)
      /\ rows' = rows /\ last' = last
      /\ load' = [load EXCEPT ![q].todo[t] = Tail(@)] /\ AtHand(q, t) /\ ~l.looked
  BY DEF ShapeInv, BulkTypes, RowError, AgainInv
<1>2. l.kind = "ingest"
  BY DEF RowError, Lands
<1>3. load' = [load EXCEPT ![q] = m]
  BY <1>1
<1>4. /\ m.kind = l.kind /\ m.ws = l.ws /\ m.what = l.what /\ m.todo = todo
      /\ m.objs = l.objs /\ m.hit = l.hit /\ m.alone = l.alone /\ ~m.looked
      /\ m.again = l.again /\ m.was = l.was /\ m.apart = l.apart
  BY <1>1 DEF Records
<1> HIDE DEF m
<1>5. Body(l) /\ (l.alone => Based(rows, l.objs) /\ AgainLines(rows, l))
  BY <1>1, <1>2 DEF AgainLoad
<1>6. \A u \in Tabs : Range(todo[u]) \subseteq Range(l.todo[u])
  <2>1. l.todo \in Documents
    BY <1>1 DEF Records
  <2> QED
    BY <1>1, <2>1, CurrentLine DEF Documents
<1>7. Body(m)
  BY <1>4, <1>5, <1>6 DEF Body
<1>8. Gives(l) => Gives(m)
  BY <1>2, <1>4, <1>5, GivesPassed
<1>9. Repeats(l) => Repeats(m)
  BY <1>4 DEF Repeats, RepeatLook
<1>10. Fit(m) => Fit(l)
  BY <1>4 DEF Fit
<1>11. l.alone => AgainLines(rows, m)
  BY <1>4, <1>5, <1>8, <1>9, <1>10 DEF AgainLines
<1>12. AgainLoad(rows, m)
  BY <1>2, <1>4, <1>5, <1>7, <1>11 DEF AgainLoad
<1> QED
  BY <1>1, <1>3, <1>12, OneLoadAgain

LEMMA ApplyAgain ==
  ASSUME ShapeInv, LinkInv, AgainInv, NEW q \in Loads, NEW t \in Tabs, Apply(q, t)
  PROVE  AgainInv'
<1> DEFINE l == load[q]
           c == Current(q, t)
           m == AfterRow(q, t)
<1>1. /\ AtHand(q, t) /\ l.looked
      /\ l.hit = Nil => FreshIds # {}
      /\ \/ load' = [load EXCEPT ![q] = NoLoad]
         \/ load' = [load EXCEPT ![q] = m]
      /\ rows' = rows /\ last' = last
  BY ApplyIs
<1>2. /\ m.kind = l.kind /\ m.ws = l.ws /\ m.what = l.what /\ m.alone = l.alone
      /\ m.fresh = l.fresh /\ m.again = l.again /\ m.was = l.was /\ m.apart = l.apart
      /\ m.todo = [l.todo EXCEPT ![t] = Tail(@)]
  BY <1>1, AfterRowIs
<1>3. \A p \in m.objs : Comes(l, c, p) \/ \E o \in l.objs : Turns(l, c, o, p)
  BY <1>1, AfterObjects
<1>4. AgainLoad(rows, l)
  BY DEF AgainInv
<1>5. Based(rows, l.objs) => Based(rows, m.objs)
  BY <1>3 DEF Based, Comes, Turns, Same
<1>6. ASSUME l.alone, l.kind = "import"
      PROVE  AgainImport(rows, m)
  <2>1. TripDoc(rows, l)
    BY <1>4, <1>6 DEF AgainLoad, AgainImport
  <2>2. TripDoc(rows, m)
    BY <1>1, <1>6, <2>1, DocApplied
  <2>3. ASSUME l.fresh
        PROVE  First(rows, m)
    <3>1. First(rows, l)
      BY <1>4, <1>6, <2>3 DEF AgainLoad, AgainImport
    <3> QED
      BY <1>1, <1>6, <2>1, <3>1, FirstApplied
  <2>4. ASSUME l.again, l.was
        PROVE  \E made \in Maps : Again(rows, m, made)
    <3>1. PICK made \in Maps : Again(rows, l, made)
      BY <1>4, <1>6, <2>4 DEF AgainLoad, AgainImport
    <3>2. Imported(rows, l.ws, l.what, made) /\ Second(l, made)
      BY <3>1 DEF Again
    <3>3. Second(m, made)
      BY <1>1, <1>6, <2>1, <3>2, SecondApplied
    <3> QED
      BY <1>2, <3>2, <3>3 DEF Again
  <2> QED
    BY <1>2, <2>2, <2>3, <2>4 DEF AgainImport
<1>7. ASSUME l.kind \in {"ingest", "upsert"}
      PROVE  Body(m) /\ (l.alone => AgainLines(rows, m))
  <2>1. Body(l) /\ (l.alone => AgainLines(rows, l))
    BY <1>4, <1>7 DEF AgainLoad
  <2>2. Body(m)
    <3>1. l.todo \in Documents
      BY DEF ShapeInv, BulkTypes, Records
    <3>2. \A u \in Tabs : Range(m.todo[u]) \subseteq Range(l.todo[u])
      <4>1. Range(Tail(l.todo[t])) \subseteq Range(l.todo[t])
        BY <1>1, CurrentLine
      <4>2. \A u \in Tabs : m.todo[u] = IF u = t THEN Tail(l.todo[t]) ELSE l.todo[u]
        BY <1>2, <3>1 DEF Documents
      <4> QED
        BY <4>1, <4>2
    <3> QED
      BY <1>2, <2>1, <3>2 DEF Body
  <2>3. Gives(l) => Gives(m)
    BY <1>1, <1>7, <2>1, GivesApplied
  <2>4. Fit(m) <=> Fit(l)
    BY <1>2 DEF Fit
  <2>5. Fit(l) /\ Repeats(l) => Repeats(m)
    BY <1>1, <1>7, <2>1, RepeatApplied
  <2> QED
    BY <1>2, <2>1, <2>2, <2>3, <2>4, <2>5 DEF AgainLines
<1> HIDE DEF m
<1>8. AgainLoad(rows, m)
  BY <1>2, <1>4, <1>5, <1>6, <1>7 DEF AgainLoad
<1> QED
  BY <1>1, <1>8, NoLoadAgain, OneLoadAgain

LEMMA ExportAgain ==
  ASSUME ShapeInv, AgainInv, NEW q \in Loads,
         StartExport(q) \/ EndExport(q) \/ \E t \in Tabs : ReadTable(q, t)
  PROVE  AgainInv'
<1>1. CASE StartExport(q)
  <2> DEFINE m == [NoLoad EXCEPT !.kind = "export", !.ws = Source, !.left = Tabs]
  <2>1. load' = [load EXCEPT ![q] = m] /\ rows' = rows /\ last' = last
    BY <1>1 DEF StartExport
  <2>2. m.kind = "export" /\ m.objs = {}
    BY DEF NoLoad
  <2> HIDE DEF m
  <2>3. AgainLoad(rows, m)
    BY <2>2 DEF AgainLoad, Based
  <2> QED
    BY <2>1, <2>3, OneLoadAgain
<1>2. CASE EndExport(q)
  <2>1. load' = [load EXCEPT ![q] = NoLoad] /\ rows' = rows /\ last' = last
    BY <1>2 DEF EndExport
  <2> QED
    BY <2>1, NoLoadAgain, OneLoadAgain
<1>3. ASSUME NEW t \in Tabs, ReadTable(q, t) PROVE AgainInv'
  <2>1. PICK s \in SetToSeqs(Of(Source, t)), m \in Records : ReadAs(q, t, s, m)
    BY <1>3, ReadTableIs
  <2>2. rows' = rows /\ last' = last
    BY <1>3 DEF ReadTable
  <2>3. m.kind = "export" /\ m.objs = {}
    BY <2>1 DEF ReadAs, ShapeInv, LoadInv
  <2>4. AgainLoad(rows, m)
    BY <2>3 DEF AgainLoad, Based
  <2> QED
    BY <2>1, <2>2, <2>4, OneLoadAgain DEF ReadAs
<1> QED
  BY <1>1, <1>2, <1>3

\* What a load that was alone leaves is what its repetition relies on.
LEMMA CommitAgain ==
  ASSUME ShapeInv, AgainInv, NEW q \in Loads, Commit(q)
  PROVE  AgainInv'
<1> DEFINE l == load[q]
<1>1. CASE load' = [load EXCEPT ![q] = NoLoad] /\ rows' = rows /\ last' = last
  BY <1>1, NoLoadAgain, OneLoadAgain
<1>2. CASE /\ rows' = View(Flushed(l.objs)) /\ load' = Overlapped(q)
           /\ last' = IF l.alone
                 THEN [kind |-> l.kind, ws |-> l.ws, what |-> l.what,
                       fresh |-> l.fresh, apart |-> l.apart]
                 ELSE Nil
  <2>1. \A p \in Loads : load'[p] = NoLoad \/ load'[p] = NotAlone(load[p])
    BY <1>2 DEF Overlapped
  <2>2. l.todo = Empty /\ AgainLoad(rows, l) /\ rows' = View(Flushed(l.objs))
    BY <1>2 DEF Commit, AgainInv
  <2>3. ASSUME l.alone
        PROVE  LastInv(rows)'
    <3>1. /\ last'.kind = l.kind /\ last'.ws = l.ws /\ last'.what = l.what
          /\ last'.fresh = l.fresh /\ last'.apart = l.apart
      BY <1>2, <2>3
    <3>2. l.kind = "import" /\ l.fresh => \E made \in Maps : Imported(rows', l.ws, l.what, made)
      <4> SUFFICES ASSUME l.kind = "import", l.fresh
                   PROVE  \E made \in Maps : Imported(rows', l.ws, l.what, made)
        OBVIOUS
      <4>1. First(rows, l)
        BY <2>2, <2>3 DEF AgainLoad, AgainImport
      <4> QED
        BY <2>2, <4>1, FirstCommits
    <3>3. l.kind \in {"ingest", "upsert"} /\ l.apart => Landed(rows', l.kind, l.ws, l.what)
      <4> SUFFICES ASSUME l.kind \in {"ingest", "upsert"}, l.apart
                   PROVE  Landed(rows', l.kind, l.ws, l.what)
        OBVIOUS
      <4>1. Gives(l) /\ Based(rows, l.objs)
        BY <2>2, <2>3 DEF AgainLoad, AgainLines
      <4> QED
        BY <2>2, <4>1, GivesCommits
    <3> QED
      BY <3>1, <3>2, <3>3 DEF LastInv
  <2>4. ~l.alone => LastInv(rows)'
    BY <1>2 DEF LastInv
  <2> QED
    BY <2>1, <2>3, <2>4, RowsChangeAgain
<1> QED
  BY <1>1, <1>2 DEF Commit

LEMMA AgainStep ==
  ASSUME ShapeInv, LinkInv, TripInv, AgainInv, [BulkNext]_bulkVars
  PROVE  AgainInv'
<1>1. CASE UNCHANGED bulkVars
  BY <1>1 DEF bulkVars, AgainInv, LastInv
<1>2. ASSUME NEW q \in Loads, Requests(q) PROVE AgainInv'
  BY <1>2, ExportAgain, StartsAgain DEF Requests
<1>3. ASSUME NEW q \in Loads, NEW t \in Tabs,
             Look(q, t) \/ RowError(q, t) \/ Apply(q, t) \/ ReadTable(q, t)
      PROVE  AgainInv'
  BY <1>3, LookAgain, RowErrorAgain, ApplyAgain, ExportAgain
<1>4. ASSUME NEW q \in Loads, Commit(q) \/ DropLoad(q) \/ EndExport(q) PROVE AgainInv'
  <2>1. CASE DropLoad(q)
    BY <2>1, NoLoadAgain, OneLoadAgain DEF DropLoad
  <2> QED
    BY <1>4, <2>1, CommitAgain, ExportAgain
<1>5. ASSUME NEW w \in Workspaces,
             (\E k \in Keys : CreateContact(w, k))
               \/ \E s, t \in Of(w, "contact") : CreateRelationship(s, t)
      PROVE  AgainInv'
  <2>1. \E r : Insert(r)
    BY <1>5 DEF CreateContact, CreateRelationship
  <2>2. last' = Nil /\ load' = [q \in Loads |-> NotAlone(load[q])]
    BY <2>1 DEF Insert
  <2>3. LastInv(rows)'
    BY <2>2 DEF LastInv
  <2> QED
    BY <2>2, <2>3, RowsChangeAgain
<1> QED
  BY <1>1, <1>2, <1>3, <1>4, <1>5 DEF BulkNext

\* "Re-runs become safe": a load repeated with nothing committed in between adds no row that
\* had a key to be found by (an external id, an email, a domain, a slug, ...), but for one
\* that hangs on a row without a key, which is added again.  Of imports it says so of those
\* whose first run was into an empty workspace; of ingests and upserts, whose first run had
\* a contact or company of its own for every row.
THEOREM ReRunsAddNothing == BulkSpec => []ReRunAddsNothing
<1>1. ASSUME ShapeInv, AgainInv
      PROVE  ReRunAddsNothing
  <2> SUFFICES ASSUME NEW q \in Loads, load[q].again, load[q].alone, Repeatable(q),
                      NEW o \in Added(q)
               PROVE  ~Keyed(o.row) \/ HangsOnAdded(q, o.row)
    BY DEF ReRunAddsNothing, AddsNoKey
  <2> DEFINE l == load[q]
  <2>1. AgainLoad(rows, l) /\ o \in l.objs /\ o.new
    BY <1>1 DEF AgainInv, Added
  <2>2. CASE l.kind = "import"
    <3>1. PICK made \in Maps : Again(rows, l, made)
      BY <2>1, <2>2 DEF AgainLoad, AgainImport, Repeatable
    <3>2. Lost(l.objs, o.row)
      BY <2>1, <3>1 DEF Again, Second, SecondObjects
    <3> QED
      BY <3>2 DEF Lost, OnAdded, HangsOnAdded, Added
  <2>3. CASE l.kind \in {"ingest", "upsert"}
    <3>1. Fit(l)
      BY <2>3 DEF Repeatable, Fit
    <3>2. RepeatObjects(l.objs)
      BY <2>1, <2>3, <3>1 DEF AgainLoad, AgainLines, Repeats
    <3>3. o.row.tab \in People /\ o.row.ext = Nil /\ o.row.alt = Nil
      BY <2>1, <3>2 DEF RepeatObjects, Keying
    <3> QED
      BY <3>3, PeopleKeyed
  <2>4. l.kind \in {"import", "ingest", "upsert"}
    BY DEF Repeatable
  <2> QED
    BY <2>2, <2>3, <2>4
<1>2. /\ ShapeInv /\ LinkInv /\ TripInv /\ AgainInv /\ [BulkNext]_bulkVars
      => ShapeInv' /\ LinkInv' /\ TripInv' /\ AgainInv'
  BY ShapeStep, LinksStep, TripsStep, AgainStep
<1> QED
  BY InitShape, InitLinks, InitTrips, InitAgain, <1>1, <1>2, PTL DEF BulkSpec
=============================================================================
