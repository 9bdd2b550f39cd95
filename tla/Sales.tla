-------------------------------- MODULE Sales -------------------------------
(***************************************************************************)
(* Pipelines, deals, products, line items and tasks of the legacy service  *)
(* (routers/pipelines.py, deals.py, products.py, tasks.py and their tools  *)
(* in mcp_server.py) and the forecast made of them (routers/forecast.py).  *)
(*                                                                         *)
(* A request reads its rows in one step and commits in the next; the       *)
(* session writes the columns that differ from what was read.  Requests    *)
(* overlap, and one may end before its commit.  Every deal is worth one;   *)
(* owners, names, external ids and SKUs are left out.                      *)
(***************************************************************************)
EXTENDS FiniteSets, FiniteSetsExt, Naturals, Sequences, SequencesExt

CONSTANTS
  Requests,   \* requests that may overlap
  Stages,     \* what a pipeline is made with: for each stage, in its order,
              \* whether it wins or loses and its probability in percent
  Prices,     \* of products and lines
  Months,     \* expected_close_date: its year times twelve and its month
  MaxCalls,   \* bound on the requests of a run
  Nil

ASSUME SalesAssumption ==
  /\ Stages \in Seq([won : BOOLEAN, lost : BOOLEAN, probability : 0..100]) /\ Stages # <<>>
  /\ Prices \subseteq Nat /\ Prices # {} /\ Months \subseteq Nat \ 0..12 /\ Months # {}
  /\ MaxCalls \in Nat /\ Nil \notin Nat

VARIABLES
  pipelines, deals, products, lines, tasks,
  timeline,  \* deal.created, deal.stage_changed and deal.line_item_added events
  call,      \* the requests under way
  calls,     \* requests so far, which number the rows and the moments
  crossed    \* rows two requests were at, and 0 for the default flag  (history)

salesVars == <<pipelines, deals, products, lines, tasks, timeline, call, calls, crossed>>
tables == <<pipelines, deals, products, lines, tasks>>

StageOf(d) == Stages[d.stage[2]]
StagesOf(p) == {p.id} \X p.stages

\* The book a run starts with: what five earlier requests left.
Book == [pipeline |-> [id |-> 1, default |-> TRUE, stages |-> DOMAIN Stages],
         deal |-> [id |-> 2, pipeline |-> 1, stage |-> <<1, 1>>, status |-> "open", closed |-> Nil,
                   due |-> CHOOSE m \in Months : TRUE, deleted |-> FALSE],
         product |-> [id |-> 3, price |-> CHOOSE x \in Prices : TRUE, deleted |-> FALSE],
         line |-> [id |-> 4, deal |-> 2, price |-> CHOOSE x \in Prices : TRUE],
         task |-> [id |-> 5, status |-> "open", completed |-> Nil, deleted |-> FALSE]]

NoCall == [op |-> "idle"]

SalesInit ==
  /\ pipelines = {Book.pipeline} /\ deals = {Book.deal} /\ products = {Book.product}
  /\ lines = {Book.line} /\ tasks = {Book.task}
  /\ timeline = <<[type |-> "created", id |-> 2, from |-> Nil, to |-> <<1, 1>>]>>
  /\ call = [q \in Requests |-> NoCall]
  /\ calls = 0 /\ crossed = {}

Now == 6 + calls

\* The request goes on with what it read and what it will write.
Begin(q, job) ==
  /\ calls' = calls + 1
  /\ call' = [call EXCEPT ![q] = job]
  /\ crossed' = crossed \cup {i \in {job.row.id} :
                  \E o \in Requests : call[o] # NoCall /\ call[o].row.id = i}
  /\ UNCHANGED <<tables, timeline>>

Inserting(table, row) == [op |-> "insert", table |-> table, row |-> row, want |-> row, events |-> <<>>]
Updating(table, row, want) ==
  [op |-> "update", table |-> table, row |-> row, want |-> want, events |-> <<>>]
Removing(table, row) == [op |-> "remove", table |-> table, row |-> row, want |-> row, events |-> <<>>]

Abandon(q) ==
  /\ call[q] # NoCall
  /\ call' = [call EXCEPT ![q] = NoCall]
  /\ UNCHANGED <<tables, timeline, calls, crossed>>
-----------------------------------------------------------------------------
(* Pipelines.                                                              *)

\* Mutant of Cleared: the flags of the others stay.
ClearedNone(p) == {}

\* The defaults a new one takes the flag from.
Cleared(p) == IF p.default THEN {o \in pipelines : o.default} ELSE {}

CreatePipeline(q, default, stages) ==
  LET p == [id |-> Now, default |-> default, stages |-> stages]
  IN Begin(q, [op |-> "pipeline", row |-> [id |-> IF default THEN 0 ELSE Now], want |-> p,
               clear |-> Cleared(p)])

\* One that was deleted meanwhile, and whose flag is to be taken, ends the request.
CommitPipeline(q) ==
  LET job == call[q] IN
  /\ job.op = "pipeline"
  /\ IF \A o \in job.clear : \E p \in pipelines : p.id = o.id
       THEN pipelines' = {job.want} \cup
              {IF \E o \in job.clear : o.id = p.id THEN [p EXCEPT !.default = FALSE] ELSE p :
                 p \in pipelines}
       ELSE UNCHANGED pipelines
  /\ call' = [call EXCEPT ![q] = NoCall]
  /\ UNCHANGED <<deals, products, lines, tasks, timeline, calls, crossed>>

DeletePipeline(q, p) == Begin(q, Removing("pipelines", p))
-----------------------------------------------------------------------------
(* Deals.                                                                  *)

\* The default one, or the oldest.
DefaultPipelines ==
  LET flagged == {p \in pipelines : p.default}
  IN IF flagged # {} THEN flagged ELSE {p \in pipelines : \A o \in pipelines : o.id >= p.id}

\* Of several defaults the oldest is taken.
DefaultPipeline == CHOOSE p \in DefaultPipelines : \A o \in DefaultPipelines : o.id >= p.id

\* A caller may name a stage, of any pipeline, and a status; no date yet.
CreateDeal(q, stage, status) ==
  LET p == DefaultPipeline
      first == IF stage = Nil THEN <<p.id, Min(p.stages)>> ELSE stage
      d == [id |-> Now, pipeline |-> p.id, stage |-> first, status |-> status, closed |-> Nil,
            due |-> Nil, deleted |-> FALSE]
  IN
  /\ pipelines # {} /\ (stage = Nil => p.stages # {})
  /\ Begin(q, [Inserting("deals", d) EXCEPT !.events =
                 <<[type |-> "created", id |-> d.id, from |-> Nil, to |-> first]>>])

\* Mutant of Moved: the stage it came from is read after it was set.
MovedLate(d, stage) ==
  IF stage = d.stage THEN <<>>
  ELSE <<[type |-> "stage_changed", id |-> d.id, from |-> stage, to |-> stage]>>

\* The event of a PATCH that names another stage.
Moved(d, stage) ==
  IF stage = d.stage THEN <<>>
  ELSE <<[type |-> "stage_changed", id |-> d.id, from |-> d.stage, to |-> stage]>>

PatchStage(q, d, stage) ==
  Begin(q, [Updating("deals", d, [d EXCEPT !.stage = stage]) EXCEPT !.events = Moved(d, stage)])

PatchStatus(q, d, status) ==
  Begin(q, Updating("deals", d,
    [d EXCEPT !.status = status, !.closed = IF status \in {"won", "lost"} THEN Now ELSE @]))

PatchDue(q, d, due) == Begin(q, Updating("deals", d, [d EXCEPT !.due = due]))

\* The tool moves within the deal's pipeline, sets the status and always tells.
MoveDealStage(q, d, stage) ==
  LET s == Stages[stage[2]]
      status == IF s.won THEN "won" ELSE IF s.lost THEN "lost" ELSE d.status
  IN
  /\ \E p \in pipelines : p.id = d.pipeline /\ stage \in StagesOf(p)
  /\ Begin(q, [Updating("deals", d,
       [d EXCEPT !.stage = stage, !.status = status, !.closed = IF s.won \/ s.lost THEN Now ELSE @])
       EXCEPT !.events = <<[type |-> "stage_changed", id |-> d.id, from |-> d.stage, to |-> stage]>>])

DeleteDeal(q, d, hard) ==
  Begin(q, IF hard THEN Removing("deals", d) ELSE Updating("deals", d, [d EXCEPT !.deleted = TRUE]))
-----------------------------------------------------------------------------
(* Products and line items.                                                *)

CreateProduct(q, price) ==
  Begin(q, Inserting("products", [id |-> Now, price |-> price, deleted |-> FALSE]))

PatchProduct(q, p, price) == Begin(q, Updating("products", p, [p EXCEPT !.price = price]))

DeleteProduct(q, p) == Begin(q, Updating("products", p, [p EXCEPT !.deleted = TRUE]))

\* A line takes the price it is given, or that of the product as it is read.
Snapshot(product, price) == IF price # Nil THEN price ELSE IF product # Nil THEN product.price ELSE 0

AddLine(q, d, product, price, tool) ==
  /\ ~d.deleted /\ (product # Nil => ~product.deleted)
  /\ Begin(q, [Inserting("lines", [id |-> Now, deal |-> d.id, price |-> Snapshot(product, price)])
               EXCEPT !.op = IF tool THEN "insert and tell" ELSE @])

\* The tool commits its event by itself; the event of the route is added after
\* the only commit and lost, as are those of every route of the products.
TellLine(q) ==
  /\ call[q].op = "tell"
  /\ timeline' = Append(timeline, [type |-> "line_item_added", id |-> call[q].row.deal,
                                   from |-> Nil, to |-> call[q].row.id])
  /\ call' = [call EXCEPT ![q] = NoCall]
  /\ UNCHANGED <<tables, calls, crossed>>

OfLiveDeal(l) == \E d \in deals : d.id = l.deal /\ ~d.deleted

PatchLine(q, l, price) ==
  OfLiveDeal(l) /\ Begin(q, Updating("lines", l, [l EXCEPT !.price = price]))

DeleteLine(q, l) == OfLiveDeal(l) /\ Begin(q, Removing("lines", l))
-----------------------------------------------------------------------------
(* Tasks.                                                                  *)

CreateTask(q, status) ==
  Begin(q, Inserting("tasks", [id |-> Now, status |-> status, completed |-> Nil, deleted |-> FALSE]))

\* Done for the first time.
Completed(t, status) == IF status = "done" /\ t.completed = Nil THEN Now ELSE t.completed

PatchTask(q, t, status) ==
  Begin(q, Updating("tasks", t, [t EXCEPT !.status = status, !.completed = Completed(t, status)]))

DeleteTask(q, t, hard) ==
  Begin(q, IF hard THEN Removing("tasks", t) ELSE Updating("tasks", t, [t EXCEPT !.deleted = TRUE]))
-----------------------------------------------------------------------------
(* Commits.                                                                *)

\* What an UPDATE of the columns that differ makes of a table.
Written(table, job) ==
  {IF r.id # job.row.id THEN r
   ELSE [c \in DOMAIN r |-> IF job.want[c] # job.row[c] THEN job.want[c] ELSE r[c]] : r \in table}

Gone(table, job) == {r \in table : r.id # job.row.id}

\* Mutant of LinesAfter: the lines follow the catalog.
LinesAfterRepriced(job) ==
  IF job.table = "products" THEN {[l EXCEPT !.price = job.want.price] : l \in lines} ELSE lines

\* The lines once a row of another table was updated.
LinesAfter(job) == lines

Table(name) ==
  CASE name = "pipelines" -> pipelines [] name = "deals" -> deals [] name = "products" -> products
    [] name = "lines" -> lines [] name = "tasks" -> tasks

Becomes(name, rows) ==
  /\ name = "deals" => deals' = rows
  /\ name = "products" => products' = rows
  /\ name = "tasks" => tasks' = rows
  /\ name # "deals" => UNCHANGED deals
  /\ name # "products" => UNCHANGED products
  /\ name # "tasks" => UNCHANGED tasks

HasStage(stage) == \E p \in pipelines : stage \in StagesOf(p)

\* The references of a new row, and the stage of a deal, must still be there.
References(job) ==
  /\ job.table = "deals" => HasStage(job.want.stage) /\ \E p \in pipelines : p.id = job.want.pipeline
  /\ job.table = "lines" => \E d \in deals : d.id = job.want.deal

CommitInsert(q) ==
  LET job == call[q] IN
  /\ job.op \in {"insert", "insert and tell"}
  /\ IF References(job)
       THEN /\ Becomes(job.table, Table(job.table) \cup {job.row})
            /\ lines' = IF job.table = "lines" THEN lines \cup {job.row} ELSE lines
            /\ timeline' = timeline \o job.events
            /\ call' = [call EXCEPT ![q] = IF job.op = "insert" THEN NoCall ELSE [job EXCEPT !.op = "tell"]]
       ELSE /\ call' = [call EXCEPT ![q] = NoCall]
            /\ UNCHANGED <<deals, products, lines, tasks, timeline>>
  /\ UNCHANGED <<pipelines, calls, crossed>>

\* A row to write that is gone, or a stage that is, ends the request.
CommitUpdate(q) ==
  LET job == call[q]
      table == Table(job.table)
      there == \E r \in table : r.id = job.row.id
      stays == job.table = "deals" /\ job.want.stage # job.row.stage => HasStage(job.want.stage)
  IN
  /\ job.op = "update"
  /\ IF job.want # job.row => there /\ stays
       THEN /\ Becomes(job.table, Written(table, job))
            /\ lines' = IF job.table = "lines" THEN Written(table, job) ELSE LinesAfter(job)
            /\ timeline' = timeline \o job.events
       ELSE UNCHANGED <<deals, products, lines, tasks, timeline>>
  /\ call' = [call EXCEPT ![q] = NoCall]
  /\ UNCHANGED <<pipelines, calls, crossed>>

\* A pipeline that deals are in, or in a stage of, is not deleted; the lines of a
\* deal go with it.
CommitRemove(q) ==
  LET job == call[q]
      used == \E d \in deals : d.pipeline = job.row.id \/ d.stage[1] = job.row.id
  IN
  /\ job.op = "remove"
  /\ IF job.table = "pipelines"
       THEN /\ pipelines' = IF used THEN pipelines ELSE Gone(pipelines, job)
            /\ UNCHANGED <<deals, products, lines, tasks>>
       ELSE /\ Becomes(job.table, Gone(Table(job.table), job))
            /\ lines' = CASE job.table = "lines" -> Gone(lines, job)
                          [] job.table = "deals" -> {l \in lines : l.deal # job.row.id}
                          [] OTHER -> lines
            /\ UNCHANGED pipelines
  /\ call' = [call EXCEPT ![q] = NoCall]
  /\ UNCHANGED <<timeline, calls, crossed>>
-----------------------------------------------------------------------------
(* The forecast of a period, from its first month to before its last.       *)

Month(y, m) == [from |-> 12 * y + m, to |-> IF m = 12 THEN 12 * (y + 1) + 1 ELSE 12 * y + m + 1]

\* Mutant of Quarter: the fourth ends with its year's last month left out.
QuarterShort(y, q) ==
  [from |-> 12 * y + (q - 1) * 3 + 1, to |-> IF q = 4 THEN 12 * y + 12 ELSE 12 * y + (q - 1) * 3 + 4]

Quarter(y, q) ==
  [from |-> 12 * y + (q - 1) * 3 + 1,
   to |-> IF q = 4 THEN 12 * (y + 1) + 1 ELSE 12 * y + (q - 1) * 3 + 4]

\* A deal that was won counts whole, one that was lost not at all.
Weight(d) ==
  CASE d.status = "won" -> 100 [] d.status = "lost" -> 0 [] OTHER -> StageOf(d).probability

Due(period) == {d \in deals : ~d.deleted /\ d.due \in period.from..(period.to - 1)}

ByStage(due) ==
  [s \in {d.stage : d \in due} |-> MapThenSumSet(Weight, {d \in due : d.stage = s})]

Forecast(period) ==
  LET due == Due(period)
      With(status) == Cardinality({d \in due : d.status = status})
  IN [open |-> With("open"), won |-> With("won"), lost |-> With("lost"),
      weighted |-> MapThenSumSet(Weight, due), byStage |-> ByStage(due)]
-----------------------------------------------------------------------------
Statuses == {"open", "won", "lost"}
AnyStage == UNION {StagesOf(p) : p \in pipelines}

DealRequest(q) ==
  \/ \E s \in AnyStage \cup {Nil}, st \in Statuses : CreateDeal(q, s, st)
  \/ \E d \in deals :
       \/ \E s \in AnyStage : PatchStage(q, d, s) \/ MoveDealStage(q, d, s)
       \/ \E st \in Statuses : PatchStatus(q, d, st)
       \/ \E m \in Months : PatchDue(q, d, m)
       \/ \E hard \in BOOLEAN : DeleteDeal(q, d, hard)

LineRequest(q) ==
  \/ \E d \in deals, p \in products \cup {Nil}, x \in Prices \cup {Nil}, tool \in BOOLEAN :
       AddLine(q, d, p, x, tool)
  \/ \E l \in lines, x \in Prices : PatchLine(q, l, x)
  \/ \E l \in lines : DeleteLine(q, l)

Request(q) ==
  \/ \E default \in BOOLEAN, s \in {{}, DOMAIN Stages} : CreatePipeline(q, default, s)
  \/ \E p \in pipelines : DeletePipeline(q, p)
  \/ DealRequest(q) \/ LineRequest(q)
  \/ \E x \in Prices : CreateProduct(q, x) \/ \E p \in products : PatchProduct(q, p, x)
  \/ \E p \in products : DeleteProduct(q, p)
  \/ \E s \in {"open", "done"} : CreateTask(q, s) \/ \E t \in tasks : PatchTask(q, t, s)
  \/ \E t \in tasks, hard \in BOOLEAN : DeleteTask(q, t, hard)

SalesNext ==
  \E q \in Requests :
    \/ calls < MaxCalls /\ call[q] = NoCall /\ Request(q)
    \/ CommitPipeline(q) \/ CommitInsert(q) \/ CommitUpdate(q) \/ CommitRemove(q)
    \/ TellLine(q) \/ Abandon(q)

SalesSpec == SalesInit /\ [][SalesNext]_salesVars
-----------------------------------------------------------------------------
(* Properties.                                                             *)

Ids == 1..(6 + MaxCalls)

\* Every row has the columns of its table, and an id names one row.
SalesTypeOK ==
  /\ pipelines \subseteq [id : Ids, default : BOOLEAN, stages : SUBSET DOMAIN Stages]
  /\ deals \subseteq [id : Ids, pipeline : Ids, stage : Ids \X DOMAIN Stages, status : Statuses,
                     closed : {Nil} \cup Ids, due : {Nil} \cup Months, deleted : BOOLEAN]
  /\ products \subseteq [id : Ids, price : Prices, deleted : BOOLEAN]
  /\ lines \subseteq [id : Ids, deal : Ids, price : Prices \cup {0}]
  /\ tasks \subseteq [id : Ids, status : {"open", "done"}, completed : {Nil} \cup Ids, deleted : BOOLEAN]
  /\ LET Keyed(table) == \A r, s \in table : r.id = s.id => r = s
     IN Keyed(pipelines) /\ Keyed(deals) /\ Keyed(products) /\ Keyed(lines) /\ Keyed(tasks)
  /\ \A i \in DOMAIN timeline : timeline[i].id \in Ids
  /\ calls \in 0..MaxCalls /\ crossed \subseteq Ids \cup {0}

\* "Any other pipeline flagged default is flipped off - only one default at a time",
\* unless two requests that set the flag overlapped.
OneDefault == 0 \notin crossed => Cardinality({p \in pipelines : p.default}) <= 1

\* "Timeline captures every stage change": the events of a deal no two requests
\* were at together are one path from the stage it was made in to the one it is in.
DealTrail ==
  \A d \in deals : d.id \notin crossed =>
    LET trail == {i \in DOMAIN timeline :
                    timeline[i].id = d.id /\ timeline[i].type # "line_item_added"}
    IN /\ \E i \in trail : timeline[i].to = d.stage /\ \A j \in trail : j <= i
       /\ \A i, j \in trail :
            i < j /\ (\A k \in trail : k <= i \/ j <= k) => timeline[j].from = timeline[i].to

\* A line keeps the price it was added at until it is patched itself, whatever
\* happens to the catalog; a task keeps the date it was completed, unless two
\* requests were at it together.
FixedStays ==
  [][/\ \A l \in lines, m \in lines' : l.id = m.id /\ l.price # m.price =>
          \E q \in Requests : call[q].op = "update" /\ call[q].table = "lines" /\ call[q].row.id = l.id
     /\ \A t \in tasks, u \in tasks' :
          t.id = u.id /\ t.id \notin crossed /\ t.completed # Nil => u.completed = t.completed]_salesVars

\* A forecast misses no deal and counts none twice: that of a quarter is what those
\* of its months come to, and its stages come to the whole.
QuarterIsItsMonths ==
  \A y \in {(m - 1) \div 12 : m \in Months}, q \in 1..4 :
    LET all == Forecast(Quarter(y, q))
        months == [i \in 1..3 |-> Forecast(Month(y, 3 * (q - 1) + i))]
        Count(f) == f.open + f.won + f.lost
    IN /\ Count(all) = MapThenSumSet(LAMBDA i : Count(months[i]), 1..3)
       /\ all.weighted = MapThenSumSet(LAMBDA i : months[i].weighted, 1..3)
       /\ all.weighted = MapThenSumSet(LAMBDA s : all.byStage[s], DOMAIN all.byStage)
=============================================================================
