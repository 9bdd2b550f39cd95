---------------------------- MODULE CalendarSync ----------------------------
(***************************************************************************)
(* One calendar feed and the syncs that turn its published events into     *)
(* meeting activities: syncFeed and the feed handlers of routes/calendar.ts*)
(* beside the PATCH of routes/activities.ts.                               *)
(*                                                                         *)
(* A sync reads the feed row once, fetches the document, loads the         *)
(* activities it knows, writes one activity per await and saves seen_uids  *)
(* and the ETag last.  Nothing keeps two syncs of a feed apart.            *)
(***************************************************************************)
EXTENDS Naturals

CONSTANTS
  Urls,        \* feed addresses
  Uids,        \* VEVENT UIDs
  Texts,       \* what summary and description of an event say
  Blank,       \* the text of an event without summary and description
  Activities,  \* ids of activity rows
  Syncs,       \* POST /feeds/:id/sync requests that may overlap
  Documents,   \* what a server may publish: sets of events
  MaxVersion,  \* bound on the publications of all servers
  MaxEdits,    \* bound on the edits by users and on the syncs cut off
  None

Event == [uid : Uids, text : Texts]

ASSUME SyncAssumption ==
  /\ Blank \in Texts
  /\ Documents \subseteq SUBSET Event
  /\ MaxVersion \in Nat /\ MaxEdits \in Nat
  /\ None \notin Urls \cup Uids \cup Texts \cup Activities \cup Event

VARIABLES
  doc,      \* what each server publishes, and the number of the publication
  feed,     \* the calendar_feeds row
  act,      \* the activities table, the rows syncs have inserted
  sync,     \* the syncs under way
  edits,    \* edits and cut-offs so far
  odd       \* which of the Oddities have happened                    (history)

vars == <<doc, feed, act, sync, edits, odd>>

\* Two syncs overlap or one is cut off; a document names one UID twice; a user
\* edits a meeting; a server without ETags is read under another's ETag.
Oddities == {"overlap", "repeat", "edit", "foreign"}

\* An ETag names one publication.  0: the row has none.
NoEtag == 0
Etags  == 0..MaxVersion
EtagOf(u) == doc[u].version

NothingSeen == [u \in Uids |-> None]
Seen == [Uids -> Activities \cup {None}]
Row  == [uid : Uids, text : Texts] \cup {None}

Feed == [status : {"none", "live", "deleted"}, url : Urls \cup {None}, etag : Etags, seen : Seen]

\* old: the activities as the sync loaded them (existingById).
Sync == [step : {"idle", "fetch", "load", "loop"}, url : Urls \cup {None}, etag : Etags,
         seen : Seen, todo : SUBSET Event, old : [Activities -> Row]]

TypeOK ==
  /\ doc \in [Urls -> [version : 0..MaxVersion, events : SUBSET Event]]
  /\ feed \in Feed
  /\ feed.status # "live" => feed.seen = NothingSeen
  /\ act \in [Activities -> Row]
  /\ sync \in [Syncs -> Sync]
  /\ edits \in 0..MaxEdits
  /\ odd \subseteq Oddities

NoRows == [a \in Activities |-> None]
Idle == [step |-> "idle", url |-> None, etag |-> NoEtag, seen |-> NothingSeen,
         todo |-> {}, old |-> NoRows]

Init ==
  /\ doc = [u \in Urls |-> [version |-> 0, events |-> {}]]
  /\ feed = [status |-> "none", url |-> None, etag |-> NoEtag, seen |-> NothingSeen]
  /\ sync = [s \in Syncs |-> Idle]
  /\ act = NoRows
  /\ edits = 0
  /\ odd = {}

Active(s) == sync[s].step # "idle"
Stop(s) == sync' = [sync EXCEPT ![s] = Idle]
-----------------------------------------------------------------------------
(* The server of a feed, and the handlers that edit feeds and activities.  *)

Publish(u, events) ==
  /\ \E last \in 0..(MaxVersion - 1) :
       /\ last \in {doc[v].version : v \in Urls} /\ \A v \in Urls : doc[v].version <= last
       /\ doc' = [doc EXCEPT ![u] = [version |-> last + 1, events |-> events]]
  /\ UNCHANGED <<feed, act, sync, edits, odd>>

Edit == edits < MaxEdits /\ edits' = edits + 1

CreateFeed(u) ==
  /\ feed.status = "none"
  /\ feed' = [feed EXCEPT !.status = "live", !.url = u]
  /\ UNCHANGED <<doc, act, sync, edits, odd>>

\* A PATCH of ics_url leaves last_etag and seen_uids as they are.
PatchFeed(u) ==
  /\ Edit
  /\ feed.status = "live"
  /\ feed' = [feed EXCEPT !.url = u]
  /\ UNCHANGED <<doc, act, sync, odd>>

DeleteFeed ==
  /\ Edit
  /\ feed.status = "live"
  /\ feed' = [feed EXCEPT !.status = "deleted", !.url = None, !.etag = NoEtag, !.seen = NothingSeen]
  /\ UNCHANGED <<doc, act, sync, odd>>

\* PATCH /v1/activities/:id by a user.
EditMeeting(a, t) ==
  /\ Edit
  /\ act[a] # None
  /\ act' = [act EXCEPT ![a].text = t]
  /\ odd' = odd \cup {"edit"}
  /\ UNCHANGED <<doc, feed, sync>>
-----------------------------------------------------------------------------
(* syncFeed.                                                               *)

\* The handler reads the feed row; the sync keeps this copy to its end.
Start(s) ==
  /\ ~Active(s)
  /\ feed.status = "live"
  /\ sync' = [sync EXCEPT ![s] = [Idle EXCEPT !.step = "fetch", !.url = feed.url,
                                             !.etag = feed.etag, !.seen = feed.seen]]
  /\ odd' = odd \cup IF \E o \in Syncs : Active(o) THEN {"overlap"} ELSE {}
  /\ UNCHANGED <<doc, feed, act, edits>>

Repeats(events)  == \E e, f \in events : e # f /\ e.uid = f.uid
Foreign(u, etag) == etag # NoEtag /\ \E v \in Urls \ {u} : etag = EtagOf(v)

\* Mutant of AfterFetch: the ETag is stored as soon as the answer is there.
EtagStored(etag) == IF feed.status = "live" THEN [feed EXCEPT !.etag = etag] ELSE feed

AfterFetch(etag) == feed

\* 200: the document of the moment, with its ETag or without one.
Fetch(s) ==
  LET u == sync[s].url IN
  /\ sync[s].step = "fetch"
  /\ sync[s].etag # EtagOf(u)
  /\ \E etag \in {EtagOf(u), sync[s].etag} :
       /\ sync' = [sync EXCEPT ![s].step = "load", ![s].etag = etag,
                               ![s].todo = doc[u].events]
       /\ feed' = AfterFetch(etag)
       /\ odd' = odd \cup (IF Repeats(doc[u].events) THEN {"repeat"} ELSE {})
                     \cup (IF Foreign(u, etag) THEN {"foreign"} ELSE {})
  /\ UNCHANGED <<doc, act, edits>>

\* 304, an error answer or a timeout: nothing is written.
FetchNothing(s) ==
  /\ sync[s].step = "fetch"
  /\ Stop(s)
  /\ UNCHANGED <<doc, feed, act, edits, odd>>

\* The activities seen_uids names, all in one query.
Load(s) ==
  /\ sync[s].step = "load"
  /\ sync' = [sync EXCEPT ![s].step = "loop",
                          ![s].old = [a \in Activities |->
                             IF \E u \in Uids : sync[s].seen[u] = a THEN act[a] ELSE None]]
  /\ UNCHANGED <<doc, feed, act, edits, odd>>

\* The loaded activity of an event's UID, or None.
Known(s, e) ==
  LET a == sync[s].seen[e.uid] IN IF a # None /\ sync[s].old[a] # None THEN a ELSE None

Done(s, e) == sync' = [sync EXCEPT ![s].todo = @ \ {e}]

\* The meeting, as it was loaded, already says what the event says.
Same(s, e, a) == sync[s].old[a].text = e.text

SkipEvent(s, e) ==
  /\ sync[s].step = "loop" /\ e \in sync[s].todo
  /\ Known(s, e) # None /\ Same(s, e, Known(s, e))
  /\ Done(s, e)
  /\ UNCHANGED <<doc, feed, act, edits, odd>>

\* A blank text does not overwrite the loaded one.
UpdateMeeting(s, e) ==
  LET a == Known(s, e) IN
  /\ sync[s].step = "loop" /\ e \in sync[s].todo
  /\ a # None /\ ~Same(s, e, a)
  /\ act' = [act EXCEPT ![a].text = IF e.text = Blank THEN sync[s].old[a].text ELSE e.text]
  /\ Done(s, e)
  /\ UNCHANGED <<doc, feed, edits, odd>>

\* A UID without a loaded activity gets a new one, seen or not.
InsertMeeting(s, e, a) ==
  /\ sync[s].step = "loop" /\ e \in sync[s].todo
  /\ Known(s, e) = None
  /\ act[a] = None
  /\ act' = [act EXCEPT ![a] = [uid |-> e.uid, text |-> e.text]]
  /\ sync' = [sync EXCEPT ![s].todo = @ \ {e}, ![s].seen[e.uid] = a]
  /\ UNCHANGED <<doc, feed, edits, odd>>

\* Mutant of SavedSeen: the new UIDs are not written back.
SeenUnchanged(s) == feed.seen

SavedSeen(s) == sync[s].seen

Saves == feed.status = "live"

\* The UPDATE of the feed row replaces seen_uids whole.
Save(s) ==
  /\ sync[s].step = "loop" /\ sync[s].todo = {}
  /\ feed' = IF Saves THEN [feed EXCEPT !.etag = sync[s].etag, !.seen = SavedSeen(s)]
             ELSE feed
  /\ Stop(s)
  /\ UNCHANGED <<doc, act, edits, odd>>

\* The request is cut off, or one of its statements throws.
Dies(s) ==
  /\ Edit
  /\ Active(s)
  /\ Stop(s)
  /\ odd' = odd \cup {"overlap"}
  /\ UNCHANGED <<doc, feed, act>>
-----------------------------------------------------------------------------
SyncStep(s) ==
  \/ Start(s) \/ Fetch(s) \/ FetchNothing(s) \/ Load(s)
  \/ \E e \in sync[s].todo :
       SkipEvent(s, e) \/ UpdateMeeting(s, e) \/ \E a \in Activities : InsertMeeting(s, e, a)
  \/ Save(s) \/ Dies(s)

Next ==
  \/ \E s \in Syncs : SyncStep(s)
  \/ \E u \in Urls : CreateFeed(u) \/ PatchFeed(u)
  \/ \E u \in Urls, events \in Documents : Publish(u, events)
  \/ \E a \in Activities, t \in Texts : EditMeeting(a, t)
  \/ DeleteFeed

Spec == Init /\ [][Next]_vars
-----------------------------------------------------------------------------
(* What a sync leaves behind.                                              *)

\* The meetings of an event.
Meetings(e) == {a \in Activities : act[a] # None /\ act[a].uid = e.uid}

\* A feed that would now answer 304 has nothing to add: each event it publishes
\* has a meeting, whatever syncs overlapped, died or lost their seen_uids.
CachedMeansSynced ==
  feed.status = "live" /\ feed.etag = EtagOf(feed.url) =>
    \A e \in doc[feed.url].events : Meetings(e) # {}

\* Syncs that run one after the other, to their end, give an event one meeting,
\* across changes of the document and of the feed's address.
SerialSyncsDedupe ==
  odd \subseteq {"edit", "foreign"} => \A e \in Event : \A a, b \in Meetings(e) : a = b
=============================================================================
