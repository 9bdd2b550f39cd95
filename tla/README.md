# Nakatomi CRM: models and proofs

Nakatomi is a multi-tenant CRM for people and agents. The repository holds it twice. The program
that runs is a Cloudflare Worker written in TypeScript (`src/src`, on Hono and Drizzle), over D1
(SQL), KV (counters), R2 (objects) and, if configured, a queue. `src/legacy/app` is the FastAPI
service it replaced, over PostgreSQL through SQLAlchemy, with worker threads for webhooks, mail
and calendars. This directory holds TLA+ modules for the parts of both whose correctness depends
on order and failure, TLC configurations for small instances of them, and TLAPS proofs of the main
invariants of all of them, for instances of any size.
`PROJECT.json` maps every definition to the lines it models. In section 1.1 paths are relative to
`src/src`, in 1.2 to `src/legacy/app`.

Contents: 1 inventory, 2 how the code is modelled, 3 modules, 4 runs and bounds,
5 fairness, 6 proofs, 7 known disagreements, 8 what is not modelled, 9 plan.

## 1. Inventory

### 1.1 The Worker

| part | state | operations | interacts with | what must hold |
|---|---|---|---|---|
| mutation events, `lib/audit.ts` | timeline_events, audit_logs | recordEvent: one batch, then a dispatch in the background | called by nearly every mutating handler; hands events to delivery | an event that is delivered is on the timeline; a committed write has its event unless its request was cut off |
| webhook delivery, `jobs/webhook-delivery.ts`, `index.ts` | webhook_deliveries, failure_count, queue messages | select hooks, POST, log, count, throw or return; ack or retry | reads the hooks the CRUD handlers edit | nobody subscribed is skipped, history and counters are true, messages are resolved |
| webhook CRUD, `routes/webhooks.ts` | webhooks | create, patch, delete | edits hooks under running deliveries | a hook switched off stays off |
| contacts and companies, `routes/contacts.ts`, `routes/companies.ts` | contacts, companies | create, patch, delete, restore, list | same rows as ingest | unique external ids, no lost columns, no revival, the timeline tells the life of a row |
| bulk ingest, `lib/ingest.ts`, `routes/ingest.ts` | the same rows, ingest_runs | upserts by external id or natural key, row by row | same rows as REST; deals and pipelines | a repeated import adds nothing, every row is accounted for |
| deals, `routes/deals.ts` | deals, line items | create, patch, move, delete, list; line items | stages and pipelines, ingest | a deal is in an existing stage; status, close date and stage agree |
| pipelines and stages, `routes/pipelines.ts` | pipelines, stages | create (with stages), patch, create/patch/delete stage | deals refer to stages (RESTRICT) | no deal loses its stage |
| calendar, `routes/calendar.ts`, `calendar/ical.ts` | calendar_feeds (ETag, seen_uids), activities | feed CRUD, sync | the server of the feed; users edit the activities | an ETag is stored only for a document whose events are all there; one meeting per UID |
| files, `routes/files.ts` | files rows in D1, objects in R2 | upload, download, delete, list | two stores without a transaction | rows and objects go together |
| listings, `lib/pagination.ts` and the GET of each route | none (the cursor is the client's) | a page of a list | rows change between the pages | a walk is complete, without repetition, and ends |
| tasks, activities, notes | one table each | CRUD; complete; activities are also written by calendar and email | timeline of the entity they name | a closed task has one completion date |
| products, line items | products, deal_line_items | CRUD; a line item copies the product's price | deals | as for contacts |
| relationships, memory links | one table each, unique edges | link, unlink, recall | name entities by type and id, without a reference | an edge is there once |
| email, `routes/email.ts` | email_configs, activities | send through Resend, log | timeline | a mail that went out is on record |
| sign-up, login, welcome, workspaces | users, workspaces, memberships, api_keys | several inserts in a row | everything belongs to a workspace | bootstrap is single-use, a user has a workspace |
| OAuth, `routes/oauth.ts` | oauth_clients, oauth_codes, api_keys | register, authorize, exchange, refresh, revoke | the middleware accepts its tokens | a code and a refresh token are used once |
| authentication, rate limit | api_keys.last_used_at, KV counters | before every handler | ends a request early | -- |
| custom fields, timeline, dashboard, exports | definitions; none | one-row CRUD; reads | -- | -- |
| MCP server, `mcp/` | none | tool calls | requests to the routes above | -- |

What makes the Worker hard: there is no transaction across awaits. A handler reads rows, decides,
writes by id, and records its event in separate awaits of D1, R2 or the network. Any other
request may run in between, in another isolate, and an isolate may be torn down at any
await. The only atomic things are one SQL statement, one `db.batch`, one R2 call. The database
helps with unique indexes, one RESTRICT (stages) and one CASCADE (deliveries of a webhook).

### 1.2 The legacy service

| part | state | operations | interacts with | what must hold |
|---|---|---|---|---|
| events and webhook queue, `services/events.py`, `services/webhook_delivery.py`, `routers/webhooks.py` | timeline_events, audit_log, webhook_deliveries | emit in the request's transaction; claim, POST, back off, commit a batch; webhook CRUD | every mutating route emits; several processes run the worker | nothing owed is lost, every POST is counted, the queue drains while answers can be stored |
| contacts, merge, the graph, `services/merge.py`, `routers/contacts.py`, `relationships.py`, `notes.py` | contacts and all that names them | create, patch, delete, merge; children, deals, edges, links | each of these tables; MCP tools | a merge leaves nothing behind, maps the graph, and the timeline replays to the row |
| export, import, ingest, bulk upserts, `services/export.py`, `importer.py`, `services/ingest/` | every table of a workspace, ingest_runs | a document out, a document in, row by row with an id map | single inserts at the same time | references stay inside the workspace, a load repeated at once adds nothing, a document arrives whole as far as the key lists of the importer go |
| accounts, keys, OAuth, rate limit, `routers/auth.py`, `welcome.py`, `workspaces.py`, `oauth.py`, `deps.py` | users, workspaces, memberships, oauth_codes, api_keys | sign-up, bootstrap, invite, remove, keys, code, exchange, refresh, revoke; the window of a key | before every handler | the limit holds under concurrency, a credential is spent once and for its pair, bootstrap is single-use |
| mail and calendars, `services/email_io.py`, `calendar_io.py`, `routers/email.py`, `calendar.py`, `activities.py` | email_configs (UID watermark), calendar_feeds (ETag), activities | poll, sync, send, settings | IMAP, SMTP and HTTP servers; two poller threads per process | nothing is skipped or taken twice, an ETag stands for what is stored, what is polled arrives |
| sales and tasks, `routers/pipelines.py`, `deals.py`, `products.py`, `tasks.py`, `forecast.py` | pipelines, stages, deals, products, line items, tasks | CRUD, move, forecast | the timeline; catalog and lines | one default, an unbroken trail of stages, history that does not drift, forecasts that add up |
| MCP server, `mcp_server.py` | none | tools over the same tables | the session, without BackgroundTasks | as for the tables |
| files, custom fields, memory connectors | one table each, a storage, outside services | one-row CRUD; put and delete; HTTP | the timeline | -- |
| dashboard, schema, timeline, duplicates, schemas | none | reads and validation | -- | -- |

What makes it hard is different. A request is one transaction at READ COMMITTED, so it is
committed or not, with its events; but what it read may be stale when it commits, each statement
sees another state of the database, the session does not autoflush, and an UPDATE writes only the
columns that differ from what was loaded. Effects outside the database (a POST, a mail, an IMAP
fetch) are not rolled back with it.

The hazards in `PROJECT.json` list where each of these bites, with the property that would
show it going wrong, or a note on why there is none.

## 2. How the code is modelled

* One action per stretch of code between two awaits. What a handler read stays in a record per
  request (`call`, `job`, `sync`, `patch`), so that later steps use values that may be stale,
  as the code does.
* A statement is atomic; a constraint that it violates is part of its guard, and the refusal
  is the request's end (an HTTP 409 or 500) or, in an ingest, an error of that row.
* Every module of the Worker has a step for a request cut off at any await: `RequestDies`,
  `WorkerDies`, `Ends` or `Dies`. It covers an exception and an isolate torn down alike. A
  statement that throws is taken not to have been committed.
* A request of the legacy service reads in one step and commits in another; where a later
  statement reads again (a merge, a load, a poll, an exchange), there is a step for it too. A
  commit may be refused by a constraint or never come (`Abandon`, `Rollback`); both leave
  nothing. Which rows a session loaded, what it changed and what it has flushed are in the
  record of the request; a commit writes the columns that differ.
* Rows, ids, names, payloads are model values. A column is modelled if a property depends on
  it, or if it decides what a handler does; columns that go the same way share one.
* One workspace, except in BulkLoad (an export goes into another) and Accounts. Every query of the
  modelled routes is restricted to the workspace of the principal.
* Variables marked `(history)` are not in the program. They remember what requests asked for,
  which requests were cut off, whether requests overlapped; properties use them to say under
  which circumstances something is promised. No guard of a program action reads them, except
  that `Fresh` in FileStore uses one so that a random id is not drawn twice.
* Definitions introduced by "Mutant of" in a comment are plausible mistakes in the definition
  that follows them. They are not part of the specification; each property has one that
  breaks it.

## 3. Modules

| module | models | notes |
|---|---|---|
| EventDelivery | the promise of the fan-out | abstract: Record, Reach, Settle |
| WebhookFanout | recordEvent, processWebhookEvent, the queue consumer, webhook CRUD | implements EventDelivery when `Durable` (WEBHOOK_QUEUE bound) |
| Records | contacts/companies handlers, ingest of them, ingest_runs | one table; `key` is email or domain |
| DealPipeline | deals, upsertDeal, pipelines and stages | |
| CalendarSync | feed handlers and syncFeed, PATCH of an activity | the .ics text is a set of events |
| FileStore | files in D1 and R2 | |
| ListPages | cursor pagination, parameterised by the ORDER BY | the Worker's and the legacy listings |
| Outbox | legacy emit, delivery worker, webhook CRUD | implements EventDelivery too |
| ContactMerge | legacy contacts, merge, notes, relationships, links, MCP update | |
| BulkLoad | legacy export, import, ingest, bulk upserts | thirteen tables in one |
| Accounts | legacy sign-up, bootstrap, members, keys, OAuth grants, rate limit | with a clock |
| Inbound | legacy mail and calendar pollers, send, settings | with its servers |
| Sales | legacy pipelines, deals, products, lines, tasks, forecast | |
| MC* | values for TLC: model values, symmetry, seeds | |
| *Proofs | theorems about the module of that name | EXTENDS the module and TLAPS |
| OutboxAndLoadProofs | theorems about Outbox and BulkLoad | the two share no name |
| FilesAndMailProofs | theorems about FileStore and Inbound | the two share no name |
| PagesAndMergeProofs | theorems about ListPages and ContactMerge | the same |
| CalendarAndSalesProofs | theorems about CalendarSync and Sales | the same |

State and actions against the code:

* **WebhookFanout.** `stage[e]` follows a mutation from its own write (`Mutate`) through the
  timeline batch (`RecordEvent`), the dispatch (`Dispatch`) and the attempts on it. `job[e]` is
  the local state of processWebhookEvent: the hooks still to post, the current one, and the
  failure counts as the initial SELECT read them. `Select`, `Post`, `LogDelivery`,
  `CountDelivery`, `Finish` are its awaits in order. `Redelivered` is what the caller does with
  an exception: the queue retries up to `MaxTries` and then sets the message aside; the
  in-process fallback logs it. `Post` has three outcomes, of which "late" is the awkward one:
  the endpoint has the event and the Worker believes it has not.
* **Records.** `call[c]` is a request: REST ones go lookup, write, event; an ingest loops
  lookup, write per input and ends with the ingest_runs row. `told` is the last event about
  the life of a row, `listed` the rows that stored runs name. The lookups ignore `deletedAt`
  where the code does. An ingest names the row by external_id if the input has one, and only
  otherwise by email or domain.
* **DealPipeline.** `resolveStage` has a step of its own, since a stage can be deleted or
  re-flagged between its answer and the write. A pipeline is created by two statements. The
  default pipeline, stage and `stage_slug` lookups of an ingest are steps too.
* **CalendarSync.** `sync[s]` holds the copy of the feed row a sync works from (address, ETag,
  `seen_uids`), the events it has yet to look at and the activities as it loaded them. `Fetch`
  takes the document of the moment, with an ETag or without. `Save` replaces `seen_uids` whole.
* **FileStore.** The steps are the calls to R2 and D1 in the order the handlers make them.
* **ListPages.** `Older` is the WHERE clause of a cursor, `Before` the ORDER BY. In the code
  each route writes both on its own; `Sorted` says which order a route uses: "created" for
  contacts, companies, deals, products, notes and files, "due" for tasks, "occurred" for
  activities.
* **Outbox.** `stage[e]` is the transaction that emits, `picked[e]` the deliveries it adds.
  `batch[w]` is the transaction of a worker: the rows it claimed and locked, those it has yet to
  reach, the objects as they will be written, and the `is_active` its identity map has of each
  webhook. `Claim`, `Skip`, `Post`, `CommitBatch` are process_pending_deliveries in order,
  `Rollback` and `WorkerDies` its ends; POSTs that were made stay made. The body of an answer goes
  into the row as it is, and one with a NUL is none PostgreSQL can store: the outcome "garbled"
  marks the batch `spoilt`, whose commit raises however often it is tried (`CommitRefused`). `dropping` is a DELETE
  that has locked its webhook and waits for claimed rows; with a worker that waits for the webhook
  PostgreSQL chooses a victim (`VictimWorker`, `VictimDelete`).
* **ContactMerge.** A merge is `MergeLoad` (both contacts), `MergeScan` (one SELECT per family of
  references, with the plan it makes of them) and `MergeCommit`, under the savepoint's `Rollback`.
  `SourcePass` and `TargetPass` are the two loops over relationships, which see each other's
  objects but not each other's rows. A PATCH loads and commits; all other writers are one step.
* **BulkLoad.** `load[q]` is a transaction: for each table the rows of its document and those still
  to apply, the objects of its session, the id map. `Look` evaluates the lookup of the next row in the database as the session sees it
  (`View`), `Apply` changes or adds an object and flushes where the code does, `RowError` is the
  row an ingest reports and passes over. The column `rest` stands for what an export writes and no
  key list of the importer names (deleted_at, the author of a note); `NewRow` leaves it empty. An
  `Overwritten` row keeps its own. `Sections` is the order of apply_import, `Exported` that
  of build_export, whose SELECTs are a step each.
* **Accounts.** Each handler reads (`SignupRead`, `BootstrapRead`, `ExchangeRead`, `RefreshRead`,
  `InviteRead`, `CallRead`) and commits. `Settle` is where a commit meets a unique constraint. A
  request to a limited key counts itself by one UPDATE whose `now()` is the time its transaction
  began, which is why a log entry has both times.
* **Inbound.** `poll[p]` and `sync[s]` are what a poller or a sync on demand holds: the UIDs it
  found, the mark it read, the activities it will add. A poll commits once (`PollCommit`) with the
  watermark of the last message it recorded; a sync commits its activities with the ETag of its
  answer, and keeps the old ETag when the answer had none (`tag`, `NewEtag`). `unreadable` messages
  end the poll that comes to them (`RecordRaises`), `Unusable` documents the sync (`SyncRaises`).
  `PatchFeed` also stands for another ics_url, which may serve any version and keeps the ETag.
  `bare` remembers that the document last taken came without an ETag.
* **Sales.** A request begins with the row as it loaded it and the row it wants; one of
  `CommitInsert`, `CommitUpdate`, `CommitRemove` or `CommitPipeline` ends it. `timeline` is a
  sequence, as the trail of a deal is about the order of commits. `Month` and `Quarter` are the
  periods of the forecast, as half-open ranges of months.

How they compose: WebhookFanout and Outbox implement EventDelivery under the mappings at their
ends. DealPipeline and Records both end a REST request with a `RecordEvent` step, which is the
`Mutate`/`RecordEvent` part of WebhookFanout; their properties stop where that module's begin, at
the committed timeline row. In the same way the commits of the other legacy modules are
`CommitRequest` in Outbox, which has the mutation and its deliveries in one step. ListPages takes
any table whose rows are created, deleted, restored and patched as those modules do.

## 4. Runs and bounds

| run | instance | asks | states, time |
|---|---|---|---|
| fanout_queue | 1 event and 2 hooks with 2 edits, or 2 events and 1 hook; 1 patcher, 2 tries | safety of the fan-out, the failure counter under overlapping attempts, refinement of EventDelivery, `PendingIsResolved` | 492 k, 187 s |
| records | 2 rows, 1 external id, 2 keys, 3 requests, 2 at a time | columns and timeline of a row under serial use | 217 k, 26 s |
| deals | 2 deals, 3 stages, 2 pipelines, 1 external id, 3 requests, all at a time | status, close date, stage and timeline of a deal | 49 k, 14 s |
| calendar | 2 servers, 2 UIDs, 2 texts, 2 activities, 2 syncs, 2 publications, 2 edits | what an ETag and a list of seen UIDs promise | 1.2 M, 65 s |
| files | 2 files, 4 requests | rows and objects go together | 14 k, 10 s |
| lists | every table of 4 rows over 2 creation times, page of 2 | completeness of a walk | 285 k, 60 s |
| outbox | 2 events, 1 hook, 2 workers, 2 attempts, 1 fault, 2 edits | nothing lost, POSTs counted, refinement of EventDelivery, `QueueDrains` | 70 k, 39 s |
| merge | 3 contacts, 2 edges, 2 links, 1 child, 1 deal, 3 requests, 2 at a time | what a merge promises, and the changes of the timeline | 635 k, 74 s |
| bulk | 2 workspaces, a book of every table, 3 requests, 2 loads at a time | references, re-runs and the round trip | 707 k, 137 s |
| accounts | 2 users, 2 workspaces, 6 requests, 2 at a time, a window of 2 ticks, a clock of 3 | rate limit, grants, bootstrap | 1.3 M, 64 s |
| inbound | 2 mail pollers over 2 mails, or 1 calendar poller over 3 versions, one unusable; 1 caller, 2 requests, 1 fault | watermark, ETag, sent mails, that what is polled arrives and a feed comes to tell its calendar | 75 k, 85 s |
| sales | 3 stages, 2 prices, 2 months, 3 requests, 2 at a time, on a row of every table | default pipeline, trail, forecast, fixed prices and dates | 656 k, 124 s |

Times are those of two workers on a small machine. `MCWebhookFanout` narrows the
next-state relation to one event with two hooks or two events at one hook that nobody edits
(`Either`), as both together are out of TLC's reach. In `inbound` one row of settings is ever made, a mailbox's or a feed's; what
happens when it is deleted and made again is the matter of the theorems, which hold for any number.

Why these bounds are enough to be interesting. Lost updates, stale reads and lookup-then-insert
races need two actors on one row, and a third step of someone else in between for the ones that
need a change and a change back: the instances have two or three. Two hooks let one delivery of an
event fail while the other succeeds; two tries let the retry repeat what had succeeded. Three
stages in two pipelines give an open and a won stage in one pipeline and a stage of another that
does not exist yet. Four rows over two times with a page of two put rows of one time on both sides
of a page border, and make a second page. Two publications make an ETag stale. Two events of one
hook with two workers let one batch hold both rows while the other waits for or skips them, and
one fault lets a batch be repeated. Three contacts give a chain of merges, and two links of one
external id a collision under the unique constraint. A book with one or two rows in every table
has every reference the importer rewrites, and a third request repeats a load after something
else. A window of two ticks on a clock of three has its start, its last tick and the tick after;
six requests are enough for a grant to be exchanged and refreshed beside another. Three versions
of a calendar move an event and add another, or can be taken by no sync; any may follow any, with an
ETag or without, so the calendar goes back to a version whose ETag is stored. Two events at one hook
let two attempts read one failure counter before either writes it. The months of Sales are the last of a year and
the first of the next. What lies beyond the bounds is the matter of the proofs, where there are
any. Named bounds: `MaxTries` is the queue's own, `MaxRetries` the setting of the legacy worker;
`MaxEdits`, `MaxCalls`, `MaxFaults`, `MaxMail`, `MaxMade`, `MaxNow`, `MaxVersion` limit a run's
length only.

`CHECK_DEADLOCK FALSE` stands where the bound on requests, files or edits ends a run; ListPages
never stops and is checked for deadlock.

Some properties are theorems for every instance and no property of a run (external ids, deleted
rows, accounts of an ingest, type invariants).

## 5. Fairness

* WebhookFanout: `WF_vars(Process(e))` for every event. The queue delivers a pending message
  again, every await of the consumer returns (the fetch has a timeout), and the consumer is not
  torn down for ever: `WorkerDies` is bounded by the tries of a message. Nothing is assumed of
  clients, and nothing of the request itself: it may stop between its write and the dispatch.
  Only `PendingIsResolved` uses it.
* Outbox: the thread of each process is started by the lifespan (`main.py:53-84`), loops for ever
  and catches every exception, so the steps of a batch are weakly fair, a row's backoff ends, a
  DELETE that has locked its row goes on, and PostgreSQL ends a deadlock. Faults are bounded;
  answers that cannot be stored are not, and nothing is assumed of endpoints: `QueueDrains` lets a
  row stay pending for ever only while batches spoilt by them keep coming. Only `QueueDrains` uses
  it.
* Inbound: each poller comes round to each row as long as its process runs, and a poll or sync
  that has begun goes on. Of a feed's server it is assumed only that it answers with the document
  when it is asked with another ETag than the document's (`SyncFetch /\ feed.etag # version`); asked
  with the same one it may answer 304 each time. Only `MailArrives` and `FeedSettles` use it; both
  allow for a row that is switched off, deleted or changed, the first for a message that no poll gets
  past, the second for documents no sync can take and for an ETag kept over an answer without one
  or left by syncs that overlapped.
* ListPages: `WF_vars(Page)`: the client asks for the next page while it has a cursor. No property
  of a run needs it.
* The other modules have safety properties only, and no fairness.

## 6. Proofs

All theorems are checked by TLAPS for every value of the constants that meets the named
assumptions (`FanoutAssumption`, `RecordsAssumption`, `SeedAssumption` and `NoneAssumption` of
DealPipeline, `SyncAssumption`, `FileAssumption`, `ListAssumption`, `OutboxAssumption`,
`AccountsAssumption`, `InboundAssumption`, `MergeAssumption`, `SalesAssumption`, `BulkAssumption`). The assumptions
say that `None` or `Nil` is no value of the tables, that bounds are natural numbers, in Accounts
that a window takes some time, in Sales that a pipeline has stages and that there are prices and
months and, in DealPipeline, ContactMerge and BulkLoad, that the seed tables are ones the program
can have; in BulkLoad also what the schemas of a body let through, and that no external id is the id
of a row (`Keys \cap Ids = {}`), as the importer would translate it like a reference.
TLC evaluates them on each run. A proof module about two components has two specifications in
scope; no theorem is about both.

* **WebhookFanout** (`TypeCorrect`, `RecordedFirst`, `Receipts`, `SettledReaches`, `CountBacked`,
  `ImplementsPromise`). The step that needs strengthening is
  "settled implies reached": `AttemptInv` says where an attempt stands with each hook it owes
  (still to post, delivered and logged, about to be logged), unless something has failed and it
  will throw; `OwedMatches` says that a hook still owed the event is one a consumer reading now
  would select, which is why a retry does not lose it. `CountInv` bounds not only the counter
  but the copies of it that running attempts carry. `SettledReaches` and `ImplementsPromise`
  assume `Durable`: without the queue they are false.
* **Records** (seven theorems). `RecordsInv` adds to the properties: what a
  request holds of the row it names; that as long as nothing has overlapped at most one
  request is under way (`OneCall`) and its copy is what the table says (`FreshInv`), which is
  what makes "writes every column back" harmless; that rows nobody created were never asked
  for; and which word the timeline has on each row, with the deletion or restore not yet told
  (`ToldInv`).
* **DealPipeline** (seven theorems). `DealInv` adds what a resolved stage still guarantees at the
  write (`Resolved`), which the code owes to RESTRICT and the row being written in one
  statement, and that a request about to record an event has made the write (`EventInv`).
* **CalendarSync** (`TypeCorrect`, `CachedCorrect`, `DedupeCorrect`), from `IInv`. `EtagInv` says of
  every ETag, the stored one and the copies in syncs, that it is of a publication that has been and
  that each event of that document has a meeting or is still to be looked at; it survives overlaps
  and cut-offs because meetings are never removed and numbers never reused. `SerialParts` says what
  a sync alone knows: every meeting there is is in its `seen_uids`, and what of them it needs it has
  loaded, so that `Known` misses nothing.
* **FileStore** (four theorems), from `FileInv`: an object without a row, or a row without an
  object, has a request between its two effects, or a cut-off one.
* **ListPages** (`ListTypes`, `Complete`, `NothingTwice`), for the order "created": `WalkInv` says
  that every row listed all along is returned or ahead of the cursor, and that the returned ones
  are not.
* **Outbox** (`TypeCorrect`, `CountedCorrect`, `LosesNothing`, `ImplementsPromise`), from `IInv`.
  `Claims` says that the rows of a batch are pending and due, and in no other batch; with it
  `ClaimedKept` shows that nothing but its own commit changes a claimed row, not a cascade, an
  INSERT or a backoff. `OutcomeInv` says what the session of a batch holds of each of its rows: as
  stored, an attempt's outcome, or dead and owed to nobody. `OwedInv` is why the last is right
  although the identity map may be stale. `CountInv` counts a POST in its batch first and in the
  row after, or, if the batch is rolled back, nowhere. `SettleStep` is the refinement's one real case.
* **Accounts** (`Invariance`, `AccountTypes`, `RatesAreLimited`, `GrantsStayOne`, `SpentGotTokens`,
  `BootstrapMadeFirst`), from `IInv`. `RowsInv` is the base: codes and keys are numbered one after
  the other, a request is at a row that is there, a token comes from one and goes back to a code,
  and the rows made and those the requests under way may yet make stay within two per request.
  `RowSteps` then says once what a step can do to codes and keys, and the parts below are proved
  for those few changes instead of for fifteen actions. `WindowInv` carries the rate limit: of a
  key, the windows in the log are a `Window` apart and its own comes last, a window let through
  `UpTo(count, limit)` requests, and a refusal found that many. A request counted late falls into
  a window that began after it, never into an earlier one, so the entries within a minute
  that were counted as they began meet two windows at most (`TwoWindows`), from which twice the
  limit. `GrantInv` bounds the credentials of a grant that no request is at (`Resting`) together
  with the requests that are at one (`Underway`), and not the usable ones: an exchange takes a
  credential from the first set to the second when it reads, and gives one back when it commits or
  ends, so the sum grows only where `doubled` does; `UsableBound` maps what is usable into the
  two. `SpentInv` needs that rows are numbered once, `BootstrapInv` that while nothing
  overlapped one request at most is at a sign-up or a bootstrap.
* **Inbound** (`MailInvariance`, `InboundTypes`, `WatermarkSkipsNothing`, `MailIsTakenOnce`,
  `EtagIsHonest`, `MailSentIsNoted`), from `MailInv`. `OwnersInv` says that ids are used once, so
  that what a poll of a deleted mailbox adds is told apart from the next one's. `SkipInv` adds to
  the property that a poll that is open has added, has found added or has still to do every
  message up to the mark it will write (`Covered`), which is why a poll may be cut off anywhere.
  `SerialInv` holds while no two polls and no two syncs were open at once: the open poll has read
  the mark of the row, below which each message was told once (`OnceInv`), and the open sync has
  the stored ETag and among its rows, new and old, each entry it has passed (`SyncedInv`). Both
  parts are needed because a commit writes what was read when it was opened. `EtagIsHonest` is about
  the times when the document last taken came with an ETag: a sync that took one without leaves an
  ETag that stands for nothing, until one with an ETag is taken, which tells everything again. `SentInv` counts the
  mails that callers sent and have not yet noted.
* **ContactMerge** (`MergeInvariance`, `MergeTypes`, `LosersAreLeft`, `MergeChainsEnd`,
  `TimelineTellsTheRow`, `MergeIsAMap`), from `MergeInv`. `Covers` says that whatever names the
  loser of a merge that has read its references is in its plan or was attached since. `PlanFresh`
  says that a plan is the one of the edges as they are, as long as nothing was committed since;
  with it `MergeIsAMap` is about the two loops over relationships and not about time. `EndsInv` is
  why chains end: but for merges that overlapped, no two are open, live contacts went nowhere, and
  neither did the winner of the open one, so a commit adds one link to a chain that ends there.
  `MergesEnd` says it without following a chain: in every set of contacts one goes nowhere in it.
* **Sales** (`SalesInvariance`, `SalesTypes`, `OneDefaultHolds`, `DealTrailHolds`,
  `QuartersAdd`, `FixedStaysHolds`), from `SalesInv`. `NumbersInv`: a row is numbered by its request, an insert
  is of a number no row, event or other request has. `SharedInv`: two requests at one row have
  marked it `crossed`; hence `AloneInv`: an update that is alone at a deal or a task finds the row
  as it read it. `DefaultInv`: one request at most is at the default flag, and what has the flag
  is what that request will clear. `PathsInv` is `DealTrail` for the prefix a commit extends: an
  event begins a trail or goes on from its end, by `AloneInv` (`PathOn`), and events of other rows
  leave the trail as it is (`PathOther`). `FixedRows` says once what each step may do to a line
  and to a task, from which the action property follows. `QuartersAdd` is about sums that are
  folds, which choose the order they take the deals in: `Sums` names the recursive function of such
  a fold over the subsets of a set, `OfSubsets` is the argument by a smallest counterexample, with
  which `SumsTake` shows that any element may be taken first, `SumsSplit` that disjoint parts add up
  and `TotalByClass` that classes do; `QuarterDue` is the calendar, that a deal due in a quarter
  is due in one of its months.

* **BulkLoad** (`BulkShape`, `BulkTypeCorrect`, `ReferencesRewritten`, `RoundTripHolds`,
  `ReRunsAddNothing`), from `ShapeInv`, `LinkInv`, `TripInv` and `AgainInv`. `ShapeInv` is what the tables and the sessions are: rows, and
  the rows of a document, have an id each and no two share a key; an object of a session is a row of
  the database as it was or a new one of an id nobody has (`NewApart`), so that what a session sees
  (`ViewIs`, `ViewRows`) and commits (`CommitShape`) are such rows again. References are rewritten
  by an id map that grows while it is used, and no step of the argument follows a document row by
  row. `LinkInv` says of the rows, the last document (`DocLinks`), an export under way
  (`ExportLinks`), an import (`ImportLinks`) and the lines of an ingest (`LineLinks`) that what a
  reference names is there, and of the same workspace if its table is one that enters the map. For
  an import it says what is still to come (`Foreseen`): a line refers to what the id map knows or to
  a line of the document in an earlier section, and the map gives each an object of the session,
  of the same table. For an export, what the tables read and those unread owe each other (`ReadAs`,
  `Unread`): a reference out of a table read early must be answered by one read late, unless
  something was committed in between. `TripInv` is the round trip while it lasts: the lines that are
  done (`Passed`) and the objects of the session are as many and copies of each other up to the map
  (`Copied`), and the map sends no two ids to one, so that what matches a line (`MatchedKey`) is the
  copy of a line with the same key, and there is none. A copy is one of the columns of the key
  lists; that the others are empty is part of it (`Carried`). `AgainInv` relates a re-run to the load it
  repeats. What a lookup finds for a line of a document has the line's key (`Alike`, `MatchAlike`),
  which no overwriting changes; so a first import (`First`) leaves a row of the key of each line, no
  two of one key in the mapped tables, and a map that says which (`Imported`). An
  import that was not the first has left no such rows, as a stale email shows (section 7, 14), and is outside the
  theorem. The re-run (`Second`) keeps a map of its own: it agrees with the first but for lines without a key, which are
  added again, and a line is missed only if it refers to one of those (`Lost`). For an ingest or
  an upsert, the first run leaves for each line with a key a row that has the keys the line gives
  (`Gives`, `Landed`), if no row was found for two lines; the re-run finds that row by its external
  id, or one with the email, and writes keys it has already (`Repeats`).

Every invariant and action property of the runs is a theorem. Only model-checked is liveness
(`PendingIsResolved`, `QueueDrains`, `MailArrives`, `FeedSettles`), which is out of the prover's
reach.

## 7. Known disagreements

Where the code does something else than a comment or document says, or plainly fails. Each was met
while modelling, and the modules do what the code does. None of
these is a property of a run.

The Worker (paths in `src/src`):

1. `lib/audit.ts:11-13` says that the contract is identical whichever delivery mode is
   active. Without the queue binding a failed POST is never retried (`Durable = FALSE`).
2. `src/ETHOS.md:52-55` says that every mutation is traceable by a timeline event; deals
   written by an ingest have none.
3. `routes/calendar.ts:6-8` says that `seen_uids` dedupes across re-syncs; two overlapping syncs
   insert a UID twice. The later save also forgets the other's activity, so that it is never
   updated again.
4. The comment at `routes/files.ts:199-200` describes an orphan check by an absent
   sha256; the column is always set and never cleared.
5. The cursor of `lib/pagination.ts:2-4` presumes an order by creation; the task list sorts by
   due_at and the activities by occurred_at, and a walk misses rows although nothing changes.

The legacy service (paths in `src/legacy/app`):

6. `services/email_io.py:135`: the parts of a message made by `message_from_bytes` have no
   `is_attachment`. A multipart mail with a text part ends every poll of its mailbox with an
   AttributeError, before the watermark is written: no later mail arrives. Mail of one part can do
   the same: a charset Python does not know raises LookupError (141), a raw 8-bit Subject is a Header
   object, which `subject[:500]` cannot slice (159), as From, To and Cc of that kind cannot be
   stored, and a NUL fails the flush. `MailArrives` excludes mailboxes with such messages.
7. `routers/products.py`: the routes of products and line items emit after their only commit, so
   the timeline never has these events; no `BackgroundTasks` is passed, so no webhook would hear
   of them either.
8. `routers/products.py:141` passes two dicts to compute_changes, which inspects an object: a
   PATCH of a product is committed and then answered with an error.
9. `mcp_server.py:366` documents the probability of a stage as a fraction; the forecast divides it
   by 100.
10. move_deal_stage (`mcp_server.py:489-521`) sets a deal to won or lost without the `deal.won` or
   `deal.lost` event the PATCH route emits.
11. `routers/email.py:54-57` keeps the watermark when the mailbox is replaced by another.
12. `docs/MCP.md:120-121` (of `src/legacy`) says that with external ids "re-runs become safe". An
   ingest takes a contact by its email when its external id finds none, and overwrites the external
   id (`services/ingest/adapters.py:229-251`): of two rows, the second of which has the email of
   the first's contact, the re-run adds the first again. `ReRunAddsNothing` asks that each row had
   a contact of its own.
13. `services/webhook_delivery.py:6-7` says that after WEBHOOK_MAX_RETRIES attempts a row is dead. The
   answer's text is stored as it came (73, 107); with a NUL in it the commit of the batch raises, the
   attempts of all its rows are rolled back, and they are POSTed again, for as long as the
   endpoint answers so. `QueueDrains` without its second disjunct is violated in its run.
14. `tests/test_export_import.py:227` (of `src/legacy`) says that a second import should upsert, not
   duplicate. In a workspace that is used it may not: of two contacts of the document, the first has
   an external id that finds a contact, the second none and the email that contact still has in the
   database. Both land in it, the second clears its external id (`services/importer.py:297-309`), and
   the next import adds the first again. `ReRunAddsNothing` is about imports whose
   first run was into an empty workspace.
15. `services/export.py:51-61` writes every column and soft-deleted rows too; the key lists of
   `services/importer.py` (265-276, 297-307, 328-343) have no deleted_at and 421-427 no author, so
   what was deleted comes back live and notes lose their author. `RoundTrip` says so. The docstring
   (10-11) has the author in the key of a note; the lookup does not.
16. `services/importer.py:242` translates every column whose name ends in `_id`, an external_id that
   is the id of an earlier row of the document included. The model leaves that out (`BulkAssumption`).
17. `routers/exports.py:51-53` says that cross-row references are rewritten; only pipelines, stages,
   companies, contacts and deals enter the id map, so a reference to a note, an activity, a task or a
   file keeps the id of the source. `ImportsRewriteRefs` is about the former.
18. `services/calendar_io.py:232` keeps the old ETag when a document comes without one, and
   `routers/calendar.py:69-70` keeps it when the URL changes: when the version of that ETag is
   served again, a 304 hides that the activities say something else. `EtagMeansSynced` holds while
   documents come with ETags, and two documents never share one.
19. `tests/test_products_forecast.py:150-178` (of `src/legacy`) creates a deal in the stage won and
   expects it among the won ones of the forecast; `routers/deals.py:99-105` leaves the status of a
   new deal as the body has it, open unless it says otherwise, whatever the stage.

Promises that hold only with a qualification, and carry it in the property: columns and dedupe of
Records hold while requests do not overlap; the status of a deal follows its stage until an ingest
writes it or an admin re-flags the stage; the timeline misses the events of requests that were cut
off; an overlapping merge may close a cycle or miss what was attached
meanwhile; a single default pipeline, a single bootstrap, a single live credential of a grant and an
unbroken trail hold but for requests that overlap; a rate limit of n lets 2n through in some
minutes.

## 8. Not modelled, and why

The Worker. Hashing, JWTs, HMAC signatures, CSV and iCalendar text, HTML: functions of characters.
The rate limiter: its comment accepts the race it has and names no bound. Authentication: it ends
requests early and changes nothing the modelled parts read. Sign-up, OAuth, email, relationships
and the writes of tasks and products: the shapes of modelled handlers, without transaction.
Read-only routes (dashboard, exports, timeline, recall), the MCP server (requests to the same
routes) and the memory adapters (one outside call each). FTS triggers. The `scheduled()` handler
is empty: the jobs `wrangler.toml` announces for it do not exist. Idempotency keys, a KV binding
the README describes, have no code in the Worker.

The legacy service. `schemas.py` and most columns of `models.py` (declarations), the dashboard,
the schema description, the timeline and duplicate search (reads), the HTML of welcome and OAuth,
discovery documents, passwords and tokens as bytes, the parsers of the ingest formats, the
matching of addresses to contacts, the memory adapters (HTTP) and the mirror of events to them
(tried once, in the background, without record), file storage (moves bytes), migrations (run once,
before the service) and the seed script. MCP tools that repeat a route are disjuncts of its module
or left out. check_idempotency in `deps.py` has no caller. Imports and ingests insert and move deals
and change contacts without the events of the routes; they are in BulkLoad, and `DealTrail` and
`ChangesReplay` are about the routes. The forecast leaves out amounts, and with them the rounding at
`routers/forecast.py:185`, and takes the status of a deal as the routes write it.

## 9. Plan

Written, in this order: EventDelivery and WebhookFanout, DealPipeline, CalendarSync, FileStore,
ListPages, Records and the proofs for them; then Outbox, ContactMerge, BulkLoad, Accounts,
Inbound, Sales and theirs. Left: files and custom fields of the legacy service, as instances of
FileStore and of the update of Sales, and mailboxes that are replaced, in Inbound.
