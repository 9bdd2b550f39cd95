------------------------------- MODULE Inbound ------------------------------
(***************************************************************************)
(* Mail and calendars of the legacy service: the IMAP poller and its UID   *)
(* watermark (services/email_io.py), the sync of an .ics feed under its    *)
(* ETag (services/calendar_io.py), and the routes beside them: settings,   *)
(* sync on demand, sending, deleting an activity.                          *)
(*                                                                         *)
(* A poll or sync asks the server, opens a session, goes through what it   *)
(* got, and commits once.  Any process may run either poller, so two polls *)
(* of one mailbox may overlap, or a sync and one on demand.                *)
(*                                                                         *)
(* A message is unreadable when recording it raises: one of several parts  *)
(* with a text among them (they are asked is_attachment(), which they do   *)
(* not have), one in a charset Python does not know, one with 8-bit bytes  *)
(* in a header that is kept (it is then a Header object, which cannot be   *)
(* sliced or stored), one with a NUL.  The poll ends there.                *)
(*                                                                         *)
(* Two documents never have one ETag.  Matching contacts by address is     *)
(* left out.                                                               *)
(***************************************************************************)
EXTENDS FiniteSets, FiniteSetsExt, Naturals, Sequences

CONSTANTS
  MailPollers,     \* processes with EMAIL_POLLER_ENABLED
  CalendarPollers, \* processes with CALENDAR_POLLER_ENABLED
  Callers,         \* requests to sync that may overlap
  Senders,         \* requests to send that may overlap
  Docs,        \* the versions of the calendar: what each says of its events
  Unusable,    \* those sync_feed raises for: not iCalendar, a NUL in a text
  MaxMail,     \* bound on the messages
  MaxMade,     \* bound on the mail settings and feeds ever made
  MaxCalls,    \* bound on the requests of a run
  MaxFaults,   \* bound on failed fetches and stopped polls
  Nil

\* last_polled_uid and last_etag, NULL at first, in their rows.
Marks == 0..MaxMail \cup {Nil}
Versions == DOMAIN Docs \cup {Nil}
Config == [id : 1..MaxMade, mark : Marks, active : BOOLEAN]
Feed == [id : 1..MaxMade, etag : Versions, active : BOOLEAN]

ASSUME InboundAssumption ==
  /\ MaxMail \in Nat /\ MaxMade \in Nat /\ MaxCalls \in Nat /\ MaxFaults \in Nat
  /\ Docs \in Seq({Docs[i] : i \in DOMAIN Docs}) /\ Docs # <<>>
  /\ \A i \in DOMAIN Docs : DOMAIN Docs[i] \subseteq Nat
  /\ Unusable \subseteq DOMAIN Docs
  /\ CalendarPollers \cap Callers = {}
  /\ Nil \notin Nat \cup Config \cup Feed

VARIABLES
  box,      \* the UIDs of the mailbox are 1..box
  unreadable,  \* those that cannot be recorded
  version,  \* of what the feed's address serves; its ETag
  cfg,      \* email_configs: Nil, or the watermark of its row
  feed,     \* calendar_feeds: Nil, or its row
  acts,     \* activities that came in
  told,     \* how often the timeline tells each of them
  poll,     \* the mail poller of each process
  sync,     \* the calendar poller of each process, and syncs on demand
  send,     \* the requests that send a mail
  mails,    \* sent: mails SMTP took; noted: email_outbound activities;
            \* cut: requests that ended between the two                   (history)
  made, calls, faults,
  missed,   \* messages below the watermark whose fetch failed            (history)
  bare,     \* the document last taken came without an ETag               (history)
  crossed   \* two polls, or two syncs, were open at once                 (history)

inboundVars == <<box, unreadable, version, cfg, feed, acts, told, poll, sync, send, mails, made,
                 calls, faults, missed, bare, crossed>>
servers == <<box, unreadable, version>>
rows == <<cfg, feed, acts, told>>
history == <<missed, bare, crossed>>

Uids == 1..MaxMail

\* parse_ics, which drops an event without a UID: the UIDs of a version.
Parsed(i) == DOMAIN Docs[i]
Events == UNION {Parsed(i) : i \in DOMAIN Docs}

\* external_id: imap:{config}:{uid} or ics:{feed}:{uid}.
Ext == (1..MaxMade) \X (Uids \cup Events)

IdlePoll == [step |-> "idle", id |-> Nil, todo |-> {}, mark |-> Nil, high |-> 0,
             new |-> {}, failed |-> {}]
IdleSync == [step |-> "idle", id |-> Nil, got |-> Nil, tag |-> Nil, etag |-> Nil,
             todo |-> {}, new |-> {}, old |-> {}]

InboundInit ==
  /\ box = 0 /\ unreadable = {} /\ version = 1
  /\ cfg = Nil /\ feed = Nil
  /\ acts = {} /\ told = [x \in Ext |-> 0]
  /\ poll = [p \in MailPollers |-> IdlePoll]
  /\ sync = [s \in CalendarPollers \cup Callers |-> IdleSync]
  /\ send = [c \in Senders |-> "idle"]
  /\ mails = [sent |-> 0, noted |-> 0, cut |-> 0]
  /\ made = 0 /\ calls = 0 /\ faults = 0
  /\ missed = {} /\ bare = FALSE /\ crossed = FALSE

Called == calls < MaxCalls /\ calls' = calls + 1
Fault == faults < MaxFaults /\ faults' = faults + 1
Known(x) == \E a \in acts : a.ext = x

\* What came in before there were settings may as well come in before a poll.
Arrive(readable) ==
  /\ cfg # Nil
  /\ box < MaxMail /\ box' = box + 1
  /\ unreadable' = IF readable THEN unreadable ELSE unreadable \cup {box'}
  /\ UNCHANGED <<version, rows, poll, sync, send, mails, made, calls, faults, history>>

\* The calendar changes, and may change back.
Edit ==
  /\ feed # Nil
  /\ version' \in DOMAIN Docs \ {version}
  /\ UNCHANGED <<box, unreadable, rows, poll, sync, send, mails, made, calls, faults, history>>
-----------------------------------------------------------------------------
(* Settings.                                                               *)

PutConfig(active) ==
  /\ Called
  /\ IF cfg = Nil
       THEN /\ made < MaxMade /\ made' = made + 1
            /\ cfg' = [id |-> made', mark |-> Nil, active |-> active]
       ELSE /\ cfg' = [cfg EXCEPT !.active = active]
            /\ UNCHANGED made
  /\ UNCHANGED <<servers, feed, acts, told, poll, sync, send, mails, faults, history>>

DeleteConfig ==
  /\ Called /\ cfg # Nil
  /\ cfg' = Nil
  /\ UNCHANGED <<servers, feed, acts, told, poll, sync, send, mails, made, faults, history>>

CreateFeed ==
  /\ Called /\ feed = Nil
  /\ made < MaxMade /\ made' = made + 1
  /\ feed' = [id |-> made', etag |-> Nil, active |-> TRUE]
  /\ UNCHANGED <<servers, cfg, acts, told, poll, sync, send, mails, faults, history>>

\* Another ics_url may serve anything; last_etag and seen_uids stay as they are.
PatchFeed(active) ==
  /\ Called /\ feed # Nil
  /\ feed' = [feed EXCEPT !.active = active]
  /\ version' \in DOMAIN Docs
  /\ UNCHANGED <<box, unreadable, cfg, acts, told, poll, sync, send, mails, made, faults, history>>

DeleteFeed ==
  /\ Called /\ feed # Nil
  /\ feed' = Nil
  /\ UNCHANGED <<servers, cfg, acts, told, poll, sync, send, mails, made, faults, history>>

DeleteActivity(a) ==
  /\ Called
  /\ acts' = acts \ {a}
  /\ UNCHANGED <<servers, cfg, feed, told, poll, sync, send, mails, made, faults, history>>
-----------------------------------------------------------------------------
(* Sending: SMTP takes the mail, then the activity and its event commit.    *)

\* Mutant of SendMail: what SMTP refuses is recorded as well.
SendMailAnyway(c) ==
  /\ Called /\ cfg # Nil /\ send[c] = "idle"
  /\ send' = [send EXCEPT ![c] = "sent"]
  /\ \E taken \in {0, 1} : mails' = [mails EXCEPT !.sent = @ + taken]
  /\ UNCHANGED <<servers, rows, poll, sync, made, faults, history>>

\* What SMTP refuses is answered with a 502.
SendMail(c) ==
  /\ Called /\ cfg # Nil /\ send[c] = "idle"
  /\ \/ /\ send' = [send EXCEPT ![c] = "sent"]
        /\ mails' = [mails EXCEPT !.sent = @ + 1]
     \/ UNCHANGED <<send, mails>>
  /\ UNCHANGED <<servers, rows, poll, sync, made, faults, history>>

RecordSent(c) ==
  /\ send[c] = "sent"
  /\ send' = [send EXCEPT ![c] = "idle"]
  /\ mails' = [mails EXCEPT !.noted = @ + 1]
  /\ UNCHANGED <<servers, rows, poll, sync, made, calls, faults, history>>

SendCut(c) ==
  /\ Fault /\ send[c] = "sent"
  /\ send' = [send EXCEPT ![c] = "idle"]
  /\ mails' = [mails EXCEPT !.cut = @ + 1]
  /\ UNCHANGED <<servers, rows, poll, sync, made, calls, history>>
-----------------------------------------------------------------------------
(* A poll of the mailbox.                                                  *)

Mark(m) == IF m = Nil THEN 0 ELSE m

\* Mutant of Found: the search is for what is below the mark but the first time.
FoundBelow(m) == {u \in 1..box : m = 0 \/ u <= m}

\* "UID n:*" names the last message even when n is past it.
Found(m) == {u \in 1..box : u > m \/ u = box}

\* The settings were read in a session of the worker that is over.
PollSearch(p) ==
  /\ poll[p].step = "idle"
  /\ cfg # Nil /\ cfg.active
  /\ Found(Mark(cfg.mark)) # {}
  /\ poll' = [poll EXCEPT ![p] = [IdlePoll EXCEPT
       !.step = "found", !.id = cfg.id, !.todo = Found(Mark(cfg.mark))]]
  /\ UNCHANGED <<servers, rows, sync, send, mails, made, calls, faults, history>>

\* The row is read again in the poll's own session.
PollOpen(p) ==
  /\ poll[p].step = "found"
  /\ poll' = [poll EXCEPT ![p] =
       IF cfg = Nil \/ poll[p].id # cfg.id THEN IdlePoll
       ELSE [poll[p] EXCEPT !.step = "open", !.mark = cfg.mark, !.high = Mark(cfg.mark),
                            !.todo = {u \in poll[p].todo : u > Mark(cfg.mark)}]]
  /\ crossed' = (crossed \/ \E q \in MailPollers \ {p} : poll[q].step = "open")
  /\ UNCHANGED <<servers, rows, sync, send, mails, made, calls, faults, missed, bare>>

Upcoming(p) == Min(poll[p].todo)
Holds(q, x) == poll[q].id = x[1] /\ x[2] \in poll[q].new

\* _record_inbound and its flush; a message that is there is left alone.
Fetch(p) ==
  LET job == poll[p]
      u == Upcoming(p)
      x == <<job.id, u>>
  IN
  /\ job.step = "open" /\ job.todo # {} /\ u \notin unreadable
  /\ \A q \in MailPollers : ~Holds(q, x)
  /\ poll' = [poll EXCEPT ![p] =
       IF Known(x) THEN [job EXCEPT !.todo = job.todo \ {u}]
       ELSE [job EXCEPT !.todo = job.todo \ {u}, !.new = job.new \cup {u}, !.high = u]]
  /\ UNCHANGED <<servers, rows, sync, send, mails, made, calls, faults, history>>

\* The flush waited for another poll's row, which was then committed: the
\* external id is unique, and the poll is rolled back.
FetchRefused(p) ==
  /\ poll[p].step = "open" /\ poll[p].todo # {}
  /\ \E q \in MailPollers \ {p} : Holds(q, <<poll[p].id, Upcoming(p)>>)
  /\ poll' = [poll EXCEPT ![p] = IdlePoll]
  /\ UNCHANGED <<servers, rows, sync, send, mails, made, calls, faults, history>>

\* _record_inbound or its flush raises: all of the poll is rolled back.
RecordRaises(p) ==
  /\ poll[p].step = "open" /\ poll[p].todo # {} /\ Upcoming(p) \in unreadable
  /\ poll' = [poll EXCEPT ![p] = IdlePoll]
  /\ UNCHANGED <<servers, rows, sync, send, mails, made, calls, faults, history>>

\* The server answers one FETCH with something else: the message is passed over.
FetchFails(p) ==
  /\ Fault
  /\ poll[p].step = "open" /\ poll[p].todo # {}
  /\ poll' = [poll EXCEPT ![p].todo = @ \ {Upcoming(p)}, ![p].failed = @ \cup {Upcoming(p)}]
  /\ UNCHANGED <<servers, rows, sync, send, mails, made, calls, history>>

\* Mutant of Watermark: the mark moves past what could not be fetched.
WatermarkAll(job) == Max({job.high} \cup job.failed)
\* Mutant of Watermark: the mark stays where it was.
WatermarkStays(job) == Mark(job.mark)

\* The last message that was added.
Watermark(job) == job.high

Tells(new, id) == [x \in Ext |-> told[x] + IF x[1] = id /\ x[2] \in new THEN 1 ELSE 0]

\* The mark is in the UPDATE when it is not the one that was read.
PollCommit(p) ==
  LET job == poll[p]
      mark == Watermark(job)
  IN
  /\ job.step = "open" /\ job.todo = {}
  /\ IF cfg = Nil \/ job.id # cfg.id THEN UNCHANGED <<rows, missed>>
     ELSE /\ cfg' = [cfg EXCEPT !.mark = IF mark = job.mark THEN @ ELSE mark]
          /\ acts' = acts \cup {[ext |-> <<job.id, u>>, val |-> Nil] : u \in job.new}
          /\ told' = Tells(job.new, job.id)
          /\ missed' = missed \cup {<<job.id, u>> : u \in {f \in job.failed : f < job.high}}
          /\ UNCHANGED feed
  /\ poll' = [poll EXCEPT ![p] = IdlePoll]
  /\ UNCHANGED <<servers, sync, send, mails, made, calls, faults, bare, crossed>>

\* The connection drops or the process stops: nothing of the poll is kept.
PollFails(p) ==
  /\ Fault /\ poll[p].step # "idle"
  /\ poll' = [poll EXCEPT ![p] = IdlePoll]
  /\ UNCHANGED <<servers, rows, sync, send, mails, made, calls, history>>
-----------------------------------------------------------------------------
(* A sync of the feed.                                                     *)

\* The GET, with the ETag of the row as it was read.  A server that gives ETags
\* answers 304 to the one it would give, which ends the sync; one that gives
\* none answers with the document.
SyncFetch(s) ==
  /\ sync[s].step = "idle"
  /\ feed # Nil
  /\ IF s \in Callers THEN Called ELSE feed.active /\ UNCHANGED calls
  /\ \E tag \in {Nil, version} :
       /\ tag # Nil => feed.etag # version
       /\ sync' = [sync EXCEPT ![s] =
            [IdleSync EXCEPT !.step = "got", !.id = feed.id, !.got = version, !.tag = tag]]
  /\ UNCHANGED <<servers, rows, poll, send, mails, made, faults, history>>

\* parse_ics or a flush raises: nothing of the sync is kept, its ETag neither.
SyncRaises(s) ==
  /\ sync[s].step = "got" /\ sync[s].got \in Unusable
  /\ sync' = [sync EXCEPT ![s] = IdleSync]
  /\ UNCHANGED <<servers, rows, poll, send, mails, made, calls, faults, history>>

SyncOpen(s) ==
  /\ sync[s].step = "got" /\ sync[s].got \notin Unusable
  /\ sync' = [sync EXCEPT ![s] =
       IF feed = Nil \/ sync[s].id # feed.id THEN IdleSync
       ELSE [sync[s] EXCEPT !.step = "open", !.etag = feed.etag, !.todo = Parsed(sync[s].got)]]
  /\ crossed' = (crossed \/ \E q \in DOMAIN sync \ {s} : sync[q].step = "open")
  /\ UNCHANGED <<servers, rows, poll, send, mails, made, calls, faults, missed, bare>>

Adds(q, x) == sync[q].id = x[1] /\ x[2] \in sync[q].new

\* The event is looked up by seen_uids, then by its external id, which find the
\* same row; it is changed from what was read, or a row is added and flushed.
SyncEvent(s) ==
  LET job == sync[s]
      u == Min(job.todo)
      x == <<job.id, u>>
  IN
  /\ job.step = "open" /\ job.todo # {}
  /\ \A q \in DOMAIN sync : ~Adds(q, x)
  /\ sync' = [sync EXCEPT ![s] =
       IF Known(x)
         THEN [job EXCEPT !.todo = job.todo \ {u}, !.old = job.old \cup {CHOOSE a \in acts : a.ext = x}]
         ELSE [job EXCEPT !.todo = job.todo \ {u}, !.new = job.new \cup {u}]]
  /\ UNCHANGED <<servers, rows, poll, send, mails, made, calls, faults, history>>

SyncRefused(s) ==
  /\ sync[s].step = "open" /\ sync[s].todo # {}
  /\ \E q \in DOMAIN sync \ {s} : Adds(q, <<sync[s].id, Min(sync[s].todo)>>)
  /\ sync' = [sync EXCEPT ![s] = IdleSync]
  /\ UNCHANGED <<servers, rows, poll, send, mails, made, calls, faults, history>>

\* Mutant of NewEtag: the server is asked for its ETag at the commit.
NewEtagLatest(job) == IF job.tag = Nil THEN job.etag ELSE version

\* The ETag that came with the document; without one, the old one stays.
NewEtag(job) == IF job.tag = Nil THEN job.etag ELSE job.tag

\* An UPDATE writes what differs from what was read; a row, or the feed, that is
\* gone by then takes the whole sync with it.
SyncCommit(s) ==
  LET job == sync[s]
      says(x) == Docs[job.got][x[2]]
      changes == {a \in job.old : says(a.ext) # a.val}
      kept == {a \in acts : \A c \in changes : c.ext # a.ext}
  IN
  /\ job.step = "open" /\ job.todo = {}
  /\ IF feed = Nil \/ job.id # feed.id \/ \E c \in changes : ~Known(c.ext)
       THEN UNCHANGED <<rows, bare>>
       ELSE /\ acts' = kept \cup {[ext |-> c.ext, val |-> says(c.ext)] : c \in changes}
                            \cup {[ext |-> <<job.id, u>>, val |-> Docs[job.got][u]] : u \in job.new}
            /\ told' = Tells(job.new, job.id)
            /\ feed' = [feed EXCEPT !.etag = IF NewEtag(job) = job.etag THEN @ ELSE NewEtag(job)]
            /\ bare' = (job.tag = Nil)
            /\ UNCHANGED cfg
  /\ sync' = [sync EXCEPT ![s] = IdleSync]
  /\ UNCHANGED <<servers, poll, send, mails, made, calls, faults, missed, crossed>>

SyncFails(s) ==
  /\ Fault /\ sync[s].step # "idle"
  /\ sync' = [sync EXCEPT ![s] = IdleSync]
  /\ UNCHANGED <<servers, rows, poll, send, mails, made, calls, history>>
-----------------------------------------------------------------------------
Polls(p) == PollOpen(p) \/ Fetch(p) \/ FetchRefused(p) \/ RecordRaises(p) \/ PollCommit(p)
Syncs(s) == SyncRaises(s) \/ SyncOpen(s) \/ SyncEvent(s) \/ SyncRefused(s) \/ SyncCommit(s)

InboundNext ==
  \/ \E b \in BOOLEAN : Arrive(b) \/ PutConfig(b) \/ PatchFeed(b)
  \/ Edit
  \/ DeleteConfig \/ CreateFeed \/ DeleteFeed
  \/ \E a \in acts : DeleteActivity(a)
  \/ \E c \in Senders : SendMail(c) \/ RecordSent(c) \/ SendCut(c)
  \/ \E p \in MailPollers : PollSearch(p) \/ Polls(p) \/ FetchFails(p) \/ PollFails(p)
  \/ \E s \in CalendarPollers \cup Callers : SyncFetch(s) \/ Syncs(s) \/ SyncFails(s)

\* The worker threads come round to each row for as long as they run, and a
\* request or poll that has begun goes on.  Asked with the ETag it gives, a server
\* may answer 304 every time.
Fairness ==
  /\ \A p \in MailPollers : WF_inboundVars(PollSearch(p)) /\ WF_inboundVars(Polls(p))
  /\ \A p \in CalendarPollers : WF_inboundVars(SyncFetch(p) /\ feed.etag # version)
  /\ \A s \in CalendarPollers \cup Callers : WF_inboundVars(Syncs(s))

InboundSpec == InboundInit /\ [][InboundNext]_inboundVars /\ Fairness
-----------------------------------------------------------------------------
(* Properties.                                                             *)

InboundTypeOK ==
  /\ box \in 0..MaxMail /\ unreadable \subseteq 1..box /\ version \in DOMAIN Docs
  /\ cfg \in Config \cup {Nil} /\ (cfg # Nil => cfg.id <= made)
  /\ feed \in Feed \cup {Nil} /\ (feed # Nil => feed.id <= made)
  /\ told \in [Ext -> Nat]
  /\ \A a \in acts : a.ext \in Ext

\* A message at or below the watermark was recorded, or could not be fetched in a
\* poll that recorded a later one: nothing else is passed over.
Taken(id, u) == told[<<id, u>>] > 0 \/ <<id, u>> \in missed
NothingSkipped ==
  cfg # Nil => \A u \in 1..Mark(cfg.mark) : Taken(cfg.id, u)

\* The watermark keeps a mail whose activity a user deleted from coming back,
\* unless two polls or syncs were open at once.
MailTakenOnce ==
  ~crossed /\ cfg # Nil => \A u \in Uids : told[<<cfg.id, u>>] <= 1

\* The activities of a feed tell all that a version says, but for the deleted.
Says(id, v) ==
  \A u \in Parsed(v) :
    /\ told[<<id, u>>] > 0
    /\ \A a \in acts : a.ext = <<id, u>> => a.val = Docs[v][u]

\* "304 Not Modified" is safe: the activities of a feed say what the version its
\* ETag names says, whatever becomes of the calendar, the feed's address and the
\* feed while syncs are under way.  It is not safe after an answer without an
\* ETag, whose document is taken under the old one, nor after two syncs were open
\* at once.
EtagMeansSynced ==
  ~crossed /\ ~bare /\ feed # Nil /\ feed.etag # Nil => Says(feed.id, feed.etag)

\* The timeline tells of the mails SMTP took and of no other, but for requests
\* that were cut off between the two or are at it.
SentIsNoted ==
  mails.sent = mails.noted + mails.cut + Cardinality({c \in Senders : send[c] = "sent"})

\* While the mailbox is polled, a message is taken in the end, unless one that is
\* unreadable came in, which no poll gets past.
MailArrives ==
  \A u \in Uids, i \in 1..MaxMade :
    LET on == cfg # Nil /\ cfg.id = i /\ cfg.active
    IN on /\ box >= u ~> Taken(i, u) \/ ~on \/ unreadable # {}

\* While it is polled, a feed comes to tell the version its calendar stays at, if
\* sync_feed can take it, whether its server gives ETags or not.  It may be held
\* back for ever only where a 304 is not safe: under an ETag kept over an answer
\* without one, or one that overlapping syncs left.
FeedSettles ==
  \A v \in DOMAIN Docs \ Unusable :
    LET on == feed # Nil /\ feed.active /\ version = v
    IN on ~> \/ ~on
             \/ Says(feed.id, v)
             \/ feed.etag = v /\ (bare \/ crossed)
=============================================================================
