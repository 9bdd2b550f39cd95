----------------------- MODULE CalendarAndSalesProofs -----------------------
(***************************************************************************)
(* Proofs about CalendarSync, for any servers, events, activities, syncs,  *)
(* publications and edits, and about Sales, for any requests, stages,      *)
(* prices, months and number of calls.  The two share no name and each     *)
(* theorem is about the specification it names.                            *)
(***************************************************************************)
EXTENDS CalendarSync, Sales, FiniteSetTheorems, WellFoundedInduction, TLAPS

(***************************************************************************)
(* A live feed has an address, and a sync of it too.  What a sync has      *)
(* loaded is there, as activities are not removed; seen_uids names meetings*)
(* of the UID; and a sync has nothing to do before it has a document.      *)
(***************************************************************************)
Names(seen) == \A u \in Uids : seen[u] # None => act[seen[u]] # None /\ act[seen[u]].uid = u

OldSync(s) ==
  /\ Active(s) => sync[s].url \in Urls
  /\ Names(sync[s].seen)
  /\ \A a \in Activities : sync[s].old[a] # None => act[a] # None
  /\ sync[s].step \in {"idle", "fetch"} => sync[s].todo = {}

OldInv ==
  /\ feed.status = "live" => feed.url \in Urls
  /\ Names(feed.seen)
  /\ \A s \in Syncs : OldSync(s)

(***************************************************************************)
(* Publications have different numbers.                                    *)
(***************************************************************************)
VersionInv ==
  /\ \A u, v \in Urls : u # v /\ doc[u].version = doc[v].version => doc[u].version = 0
  /\ \A u \in Urls : doc[u].version = 0 => doc[u].events = {}

(***************************************************************************)
(* The ETags stored or carried are of publications that have been; and an  *)
(* ETag stands for a document all of whose events have a meeting or are    *)
(* still to be looked at.                                                  *)
(***************************************************************************)
Issued(t) == t = NoEtag \/ \E v \in Urls : t <= doc[v].version

Held(t, todo) ==
  \A v \in Urls : doc[v].version = t =>
    \A e \in doc[v].events : e \in todo \/ Meetings(e) # {}

EtagInv ==
  /\ Issued(feed.etag) /\ Held(feed.etag, {})
  /\ \A s \in Syncs : Issued(sync[s].etag) /\ Held(sync[s].etag, sync[s].todo)

(***************************************************************************)
(* While syncs run one after the other and to their end: a UID has one     *)
(* meeting, there is one sync, it has seen every meeting there is, loaded  *)
(* those of its events, and has one event of a UID to do.  When no sync is *)
(* writing, the feed has seen every meeting.                               *)
(***************************************************************************)
Serial == odd \subseteq {"edit", "foreign"}

Covers(seen) == \A a \in Activities : act[a] # None => seen[act[a].uid] = a

OneMeeting ==
  \A a, b \in Activities : act[a] # None /\ act[b] # None /\ act[a].uid = act[b].uid => a = b

Unborn ==
  feed.status = "none" => (\A a \in Activities : act[a] = None) /\ \A s \in Syncs : ~Active(s)

OneSync == \A s, o \in Syncs : Active(s) /\ Active(o) => s = o

Prepared(r) ==
  /\ ~Repeats(r.todo)
  /\ r.step = "loop" => \A e \in r.todo : r.seen[e.uid] # None => r.old[r.seen[e.uid]] # None

Alone(s) == Active(s) => Covers(sync[s].seen) /\ Prepared(sync[s])

FeedCovers ==
  feed.status = "live" /\ (\A s \in Syncs : sync[s].step # "loop") => Covers(feed.seen)

SerialParts ==
  OneMeeting /\ Unborn /\ OneSync /\ FeedCovers /\ \A s \in Syncs : Alone(s)

SerialInv == Serial => SerialParts

IInv == TypeOK /\ OldInv /\ VersionInv /\ EtagInv /\ SerialInv
-----------------------------------------------------------------------------
(***************************************************************************)
(* The records syncs begin and end with.                                   *)
(***************************************************************************)
LEMMA Blanks ==
  /\ NoRows \in [Activities -> Row] /\ NothingSeen \in Seen
  /\ Idle \in Sync /\ Idle.step = "idle" /\ Idle.etag = NoEtag /\ Idle.todo = {}
  /\ Idle.url = None /\ \A u \in Uids : Idle.seen[u] = None
  /\ \A a \in Activities : Idle.old[a] = None
<1> USE SyncAssumption
<1>1. NoRows \in [Activities -> Row] /\ NothingSeen \in Seen
  BY DEF NoRows, NothingSeen, Row, Seen
<1>2. Idle \in Sync
  BY <1>1 DEF Idle, Sync, Etags, NoEtag
<1> QED BY <1>1, <1>2 DEF Idle, NoRows, NothingSeen

LEMMA SyncSet ==
  ASSUME TypeOK, NEW s \in Syncs, NEW r \in Sync, sync' = [sync EXCEPT ![s] = r]
  PROVE  /\ sync' \in [Syncs -> Sync] /\ sync'[s] = r
         /\ \A o \in Syncs : o # s => sync'[o] = sync[o]
BY DEF TypeOK

(***************************************************************************)
(* What each step of a sync makes of its record.                           *)
(***************************************************************************)
SyncBecomes(s, r) ==
  /\ r \in Sync
  /\ sync' \in [Syncs -> Sync] /\ sync'[s] = r
  /\ \A o \in Syncs : o # s => sync'[o] = sync[o]

LEMMA Stops ==
  ASSUME TypeOK, NEW s \in Syncs, Stop(s)
  PROVE  SyncBecomes(s, Idle)
BY Blanks, SyncSet DEF Stop, SyncBecomes

LEMMA StartBecomes ==
  ASSUME TypeOK, NEW s \in Syncs, Start(s)
  PROVE  \E r \in Sync : /\ SyncBecomes(s, r) /\ r.step = "fetch" /\ r.etag = feed.etag
                         /\ r.url = feed.url /\ r.seen = feed.seen /\ r.todo = {}
                         /\ \A a \in Activities : r.old[a] = None
<1> DEFINE r == [Idle EXCEPT !.step = "fetch", !.url = feed.url, !.etag = feed.etag, !.seen = feed.seen]
<1>1. feed.url \in Urls \cup {None} /\ feed.etag \in Etags /\ feed.seen \in Seen
  BY DEF TypeOK, Feed
<1>2. r \in Sync /\ r.step = "fetch" /\ r.etag = feed.etag
        /\ r.url = feed.url /\ r.seen = feed.seen /\ r.todo = {} /\ \A a \in Activities : r.old[a] = None
  BY <1>1, Blanks DEF Idle, Sync, NoRows
<1>3. sync' = [sync EXCEPT ![s] = r]
  BY DEF Start
<1> HIDE DEF r
<1> QED BY <1>2, <1>3, SyncSet DEF SyncBecomes

LEMMA FetchBecomes ==
  ASSUME TypeOK, OldInv, NEW s \in Syncs, Fetch(s)
  PROVE  \E u \in Urls, r \in Sync :
           /\ u = sync[s].url /\ sync[s].step = "fetch"
           /\ SyncBecomes(s, r) /\ r.step = "load" /\ r.url = u
           /\ r.seen = sync[s].seen /\ r.old = sync[s].old
           /\ r.todo = doc[u].events /\ r.etag \in {doc[u].version, sync[s].etag}
           /\ Repeats(r.todo) => "repeat" \in odd'
<1> DEFINE u == sync[s].url
<1>1. u \in Urls /\ sync[s] \in Sync /\ doc[u].events \in SUBSET Event /\ doc[u].version \in Etags
  <2>1. u \in Urls /\ sync[s] \in Sync
    BY DEF Fetch, OldInv, OldSync, Active, TypeOK
  <2> QED BY <2>1 DEF TypeOK, Etags
<1>2. PICK t \in {doc[u].version, sync[s].etag} :
        /\ sync' = [sync EXCEPT ![s].step = "load", ![s].etag = t, ![s].todo = doc[u].events]
        /\ odd' = odd \cup (IF Repeats(doc[u].events) THEN {"repeat"} ELSE {})
                      \cup (IF Foreign(u, t) THEN {"foreign"} ELSE {})
  BY DEF Fetch, EtagOf
<1> DEFINE r == [sync[s] EXCEPT !.step = "load", !.etag = t, !.todo = doc[u].events]
<1>3. sync' = [sync EXCEPT ![s] = r]
  BY <1>2 DEF TypeOK
<1>4. t \in Etags
  BY <1>1 DEF Sync
<1>5. r \in Sync
  <2>1. \A todo \in SUBSET Event : [sync[s] EXCEPT !.step = "load", !.etag = t, !.todo = todo] \in Sync
    BY <1>1, <1>4 DEF Sync
  <2> QED BY <1>1, <2>1
<1>6. /\ r.step = "load" /\ r.url = u /\ r.seen = sync[s].seen /\ r.old = sync[s].old
      /\ r.todo = doc[u].events /\ r.etag = t
  BY <1>1 DEF Sync
<1>7. SyncBecomes(s, r)
  <2> HIDE DEF r
  <2> QED BY <1>3, <1>5, SyncSet DEF SyncBecomes
<1>8. Repeats(r.todo) => "repeat" \in odd'
  BY <1>2, <1>6
<1>9. sync[s].step = "fetch"
  BY DEF Fetch
<1> HIDE DEF r
<1> QED BY <1>1, <1>5, <1>6, <1>7, <1>8, <1>9

LEMMA LoadBecomes ==
  ASSUME TypeOK, NEW s \in Syncs, Load(s)
  PROVE  \E r \in Sync : /\ SyncBecomes(s, r) /\ r.step = "loop" /\ r.url = sync[s].url
                         /\ r.seen = sync[s].seen /\ r.todo = sync[s].todo /\ r.etag = sync[s].etag
                         /\ \A a \in Activities :
                              r.old[a] = IF \E u \in Uids : sync[s].seen[u] = a THEN act[a] ELSE None
<1> DEFINE old == [a \in Activities |-> IF \E u \in Uids : sync[s].seen[u] = a THEN act[a] ELSE None]
           r == [sync[s] EXCEPT !.step = "loop", !.old = old]
<1>1. sync[s] \in Sync /\ old \in [Activities -> Row]
  BY DEF TypeOK, Row
<1>2. sync' = [sync EXCEPT ![s] = r]
  BY DEF Load, TypeOK
<1> HIDE DEF old
<1>3. r \in Sync /\ r.step = "loop" /\ r.seen = sync[s].seen /\ r.todo = sync[s].todo
        /\ r.etag = sync[s].etag /\ r.old = old /\ r.url = sync[s].url
  BY <1>1 DEF Sync
<1> HIDE DEF r
<1>4. SyncBecomes(s, r)
  BY <1>2, <1>3, SyncSet DEF SyncBecomes
<1> QED BY <1>3, <1>4 DEF old

LEMMA DoneBecomes ==
  ASSUME TypeOK, NEW s \in Syncs, NEW e \in Event, Done(s, e)
  PROVE  \E r \in Sync : /\ SyncBecomes(s, r) /\ r.todo = sync[s].todo \ {e} /\ r.step = sync[s].step
                         /\ r.url = sync[s].url /\ r.seen = sync[s].seen /\ r.etag = sync[s].etag
                         /\ r.old = sync[s].old
<1> DEFINE todo == sync[s].todo \ {e}
           r == [sync[s] EXCEPT !.todo = todo]
<1>1. sync[s] \in Sync /\ todo \in SUBSET Event
  BY DEF TypeOK, Sync
<1>2. sync' = [sync EXCEPT ![s] = r]
  BY DEF Done, TypeOK
<1> HIDE DEF todo
<1>3. r \in Sync /\ r.todo = todo /\ r.step = sync[s].step /\ r.seen = sync[s].seen
        /\ r.etag = sync[s].etag /\ r.old = sync[s].old /\ r.url = sync[s].url
  BY <1>1 DEF Sync
<1> HIDE DEF r
<1>4. SyncBecomes(s, r)
  BY <1>2, <1>3, SyncSet DEF SyncBecomes
<1> QED BY <1>3, <1>4 DEF todo

LEMMA InsertBecomes ==
  ASSUME TypeOK, NEW s \in Syncs, NEW e \in Event, NEW a \in Activities, InsertMeeting(s, e, a)
  PROVE  \E r \in Sync : /\ SyncBecomes(s, r) /\ r.todo = sync[s].todo \ {e} /\ r.step = sync[s].step
                         /\ r.url = sync[s].url /\ r.etag = sync[s].etag /\ r.old = sync[s].old
                         /\ r.seen[e.uid] = a
                         /\ \A u \in Uids : u # e.uid => r.seen[u] = sync[s].seen[u]
<1> DEFINE todo == sync[s].todo \ {e}
           seen == [sync[s].seen EXCEPT ![e.uid] = a]
           r == [sync[s] EXCEPT !.todo = todo, !.seen = seen]
<1>1. sync[s] \in Sync /\ todo \in SUBSET Event /\ e.uid \in Uids
  BY DEF TypeOK, Sync, Event
<1>2. seen \in Seen /\ seen[e.uid] = a /\ \A u \in Uids : u # e.uid => seen[u] = sync[s].seen[u]
  BY <1>1 DEF Sync, Seen
<1>3. sync' = [sync EXCEPT ![s] = r]
  BY DEF InsertMeeting, TypeOK
<1> HIDE DEF todo, seen
<1>4. r \in Sync /\ r.todo = todo /\ r.step = sync[s].step /\ r.seen = seen
        /\ r.etag = sync[s].etag /\ r.old = sync[s].old /\ r.url = sync[s].url
  BY <1>1, <1>2 DEF Sync
<1> HIDE DEF r
<1>5. SyncBecomes(s, r)
  BY <1>3, <1>4, SyncSet DEF SyncBecomes
<1> QED BY <1>2, <1>4, <1>5 DEF todo

-----------------------------------------------------------------------------
(***************************************************************************)
(* Activities are written in three places; none removes one or changes the *)
(* UID it is of.                                                           *)
(***************************************************************************)
LEMMA UpdatedRow ==
  ASSUME TypeOK, OldInv, NEW s \in Syncs, NEW e \in Event, UpdateMeeting(s, e)
  PROVE  \E a \in Activities, t \in Texts :
           /\ a = sync[s].seen[e.uid] /\ act[a] # None /\ act' = [act EXCEPT ![a].text = t]
<1> DEFINE a == Known(s, e)
<1>1. a # None /\ act' = [act EXCEPT ![a].text = IF e.text = Blank THEN sync[s].old[a].text ELSE e.text]
  BY DEF UpdateMeeting
<1>2. a = sync[s].seen[e.uid] /\ sync[s].old[a] # None
  BY <1>1 DEF Known
<1>3. e.uid \in Uids /\ e.text \in Texts /\ sync[s] \in Sync
  BY DEF Event, TypeOK
<1>4. a \in Activities
  BY <1>1, <1>2, <1>3 DEF Sync, Seen
<1>5. act[a] # None /\ sync[s].old[a].text \in Texts
  BY <1>2, <1>3, <1>4 DEF OldInv, OldSync, Sync, Row
<1> QED BY <1>1, <1>2, <1>3, <1>4, <1>5

LEMMA ActStep ==
  ASSUME TypeOK, OldInv, [Next]_vars
  PROVE  /\ act' \in [Activities -> Row]
         /\ \A a \in Activities : act[a] # None => act'[a] # None /\ act'[a].uid = act[a].uid
<1> USE SyncAssumption
<1>1. \A a \in Activities, t \in Texts : act[a] # None =>
        [act[a] EXCEPT !.text = t] \in Row /\ [act[a] EXCEPT !.text = t] # None
          /\ [act[a] EXCEPT !.text = t].uid = act[a].uid
  <2>1. \A a \in Activities : act[a] \in Row
    BY DEF TypeOK
  <2>2. \A r \in Event, t \in Texts :
          [r EXCEPT !.text = t] \in Event /\ [r EXCEPT !.text = t].uid = r.uid
    BY DEF Event
  <2>3. None \notin Event
    OBVIOUS
  <2> QED BY <2>1, <2>2, <2>3 DEF Row, Event
<1>2. ASSUME NEW a \in Activities, NEW t \in Texts, act[a] # None, act' = [act EXCEPT ![a].text = t]
      PROVE  /\ act' \in [Activities -> Row]
             /\ \A b \in Activities : act[b] # None => act'[b] # None /\ act'[b].uid = act[b].uid
  <2>1. act'[a] = [act[a] EXCEPT !.text = t] /\ \A b \in Activities : b # a => act'[b] = act[b]
    BY <1>2 DEF TypeOK
  <2>2. act' \in [Activities -> Row]
    BY <1>1, <1>2 DEF TypeOK
  <2> QED BY <1>1, <1>2, <2>1, <2>2
<1>3. ASSUME NEW s \in Syncs, NEW e \in Event, NEW a \in Activities, InsertMeeting(s, e, a)
      PROVE  /\ act' \in [Activities -> Row]
             /\ \A b \in Activities : act[b] # None => act'[b] = act[b]
  <2>1. [uid |-> e.uid, text |-> e.text] \in Row
    BY DEF Event, Row
  <2> QED BY <1>3, <2>1 DEF InsertMeeting, TypeOK
<1>4. CASE UNCHANGED act
  BY <1>4 DEF TypeOK
<1>5. ASSUME NEW s \in Syncs, SyncStep(s)
      PROVE  \/ UNCHANGED act
             \/ \E e \in Event : UpdateMeeting(s, e) \/ \E a \in Activities : InsertMeeting(s, e, a)
  <2>1. sync[s].todo \subseteq Event
    BY DEF TypeOK, Sync
  <2> QED BY <1>5, <2>1 DEF SyncStep, Start, Fetch, FetchNothing, Load, SkipEvent, Save, Dies
<1>6. ASSUME NEW s \in Syncs, NEW e \in Event, UpdateMeeting(s, e)
      PROVE  \E a \in Activities, t \in Texts : act[a] # None /\ act' = [act EXCEPT ![a].text = t]
  BY <1>6, UpdatedRow
<1>7. ASSUME NEW u \in Urls PROVE CreateFeed(u) \/ PatchFeed(u) => UNCHANGED act
  BY DEF CreateFeed, PatchFeed
<1>8. ASSUME NEW u \in Urls, NEW events \in Documents PROVE Publish(u, events) => UNCHANGED act
  BY DEF Publish
<1>9. ASSUME NEW a \in Activities, NEW t \in Texts, EditMeeting(a, t)
      PROVE  act[a] # None /\ act' = [act EXCEPT ![a].text = t]
  BY <1>9 DEF EditMeeting
<1>10. DeleteFeed => UNCHANGED act
  BY DEF DeleteFeed
<1> QED BY <1>2, <1>3, <1>4, <1>5, <1>6, <1>7, <1>8, <1>9, <1>10 DEF Next, vars

(***************************************************************************)
(* Type correctness.                                                       *)
(***************************************************************************)
LEMMA SyncType ==
  ASSUME TypeOK, OldInv, NEW s \in Syncs, SyncStep(s)
  PROVE  sync' \in [Syncs -> Sync] /\ \A o \in Syncs : o # s => sync'[o] = sync[o]
<1>1. sync[s].todo \subseteq Event
  BY DEF TypeOK, Sync
<1>2. CASE Start(s)
  BY <1>2, StartBecomes DEF SyncBecomes
<1>3. CASE Fetch(s)
  <2>1. PICK r \in Sync : SyncBecomes(s, r)
    BY <1>3, FetchBecomes
  <2> QED BY <2>1 DEF SyncBecomes
<1>4. CASE FetchNothing(s) \/ Save(s) \/ Dies(s)
  BY <1>4, Stops DEF FetchNothing, Save, Dies, SyncBecomes
<1>5. CASE Load(s)
  BY <1>5, LoadBecomes DEF SyncBecomes
<1>6. ASSUME NEW e \in Event, Done(s, e)
      PROVE  sync' \in [Syncs -> Sync] /\ \A o \in Syncs : o # s => sync'[o] = sync[o]
  BY <1>6, DoneBecomes DEF SyncBecomes
<1>7. ASSUME NEW e \in Event, NEW a \in Activities, InsertMeeting(s, e, a)
      PROVE  sync' \in [Syncs -> Sync] /\ \A o \in Syncs : o # s => sync'[o] = sync[o]
  BY <1>7, InsertBecomes DEF SyncBecomes
<1> QED
  BY <1>1, <1>2, <1>3, <1>4, <1>5, <1>6, <1>7 DEF SyncStep, SkipEvent, UpdateMeeting

LEMMA TypeStep == ASSUME TypeOK, OldInv, [Next]_vars PROVE TypeOK'
<1> USE SyncAssumption
<1>1. act' \in [Activities -> Row]
  BY ActStep
<1>2. Edit => edits' \in 0..MaxEdits
  BY DEF Edit, TypeOK
<1>3. ASSUME NEW s \in Syncs, SyncStep(s) PROVE TypeOK'
  <2>1. sync' \in [Syncs -> Sync] /\ sync[s] \in Sync
    BY <1>3, SyncType DEF TypeOK
  <2>2. UNCHANGED doc /\ odd' \subseteq Oddities
    BY <1>3 DEF SyncStep, Start, Fetch, FetchNothing, Load, SkipEvent, UpdateMeeting, InsertMeeting,
                Save, Dies, TypeOK, Oddities
  <2>3. edits' \in 0..MaxEdits
    BY <1>2, <1>3 DEF SyncStep, Start, Fetch, FetchNothing, Load, SkipEvent, UpdateMeeting,
                      InsertMeeting, Save, Dies, TypeOK
  <2>4. feed' \in Feed /\ (feed'.status # "live" => feed'.seen = NothingSeen)
    <3>1. CASE Save(s) /\ feed.status = "live"
      <4>1. feed' = [feed EXCEPT !.etag = sync[s].etag, !.seen = sync[s].seen]
        BY <3>1 DEF Save, Saves, SavedSeen
      <4>2. sync[s].etag \in Etags /\ sync[s].seen \in Seen
        BY <2>1 DEF Sync
      <4> QED BY <3>1, <4>1, <4>2 DEF TypeOK, Feed
    <3>2. CASE UNCHANGED feed
      BY <3>2 DEF TypeOK
    <3> QED BY <1>3, <3>1, <3>2 DEF SyncStep, Start, Fetch, AfterFetch, FetchNothing, Load, SkipEvent,
                                    UpdateMeeting, InsertMeeting, Save, Saves, Dies
  <2> QED BY <1>1, <2>1, <2>2, <2>3, <2>4 DEF TypeOK
<1>4. ASSUME NEW u \in Urls, CreateFeed(u) \/ PatchFeed(u) PROVE TypeOK'
  <2>1. feed' \in Feed /\ feed'.status = "live"
    BY <1>4 DEF CreateFeed, PatchFeed, TypeOK, Feed
  <2> QED BY <1>1, <1>2, <1>4, <2>1 DEF CreateFeed, PatchFeed, TypeOK
<1>5. ASSUME NEW u \in Urls, NEW events \in Documents, Publish(u, events) PROVE TypeOK'
  <2>1. PICK last \in 0..(MaxVersion - 1) :
          doc' = [doc EXCEPT ![u] = [version |-> last + 1, events |-> events]]
    BY <1>5 DEF Publish
  <2>2. doc' \in [Urls -> [version : 0..MaxVersion, events : SUBSET Event]]
    BY <2>1 DEF TypeOK
  <2> QED BY <1>1, <1>5, <2>2 DEF Publish, TypeOK
<1>6. ASSUME NEW a \in Activities, NEW t \in Texts, EditMeeting(a, t) PROVE TypeOK'
  BY <1>1, <1>2, <1>6 DEF EditMeeting, TypeOK, Oddities
<1>7. CASE DeleteFeed
  <2>1. feed' \in Feed /\ feed'.seen = NothingSeen
    <3>1. ASSUME NEW seen \in Seen,
                 feed' = [feed EXCEPT !.status = "deleted", !.url = None, !.etag = NoEtag, !.seen = seen]
          PROVE  feed' \in Feed /\ feed'.seen = seen
      <4>1. feed \in Feed /\ NoEtag \in Etags
        BY DEF TypeOK, Etags, NoEtag
      <4> QED BY <3>1, <4>1 DEF Feed
    <3> QED BY <1>7, <3>1, Blanks DEF DeleteFeed
  <2> QED BY <1>1, <1>2, <1>7, <2>1 DEF DeleteFeed, TypeOK
<1>8. CASE UNCHANGED vars
  BY <1>8 DEF vars, TypeOK
<1> QED BY <1>3, <1>4, <1>5, <1>6, <1>7, <1>8 DEF Next
-----------------------------------------------------------------------------
(***************************************************************************)
(* Every step keeps OldInv.                                                *)
(***************************************************************************)
Grows ==
  \A a \in Activities : act[a] # None => act'[a] # None /\ act'[a].uid = act[a].uid

LEMMA NamesGrow ==
  ASSUME NEW seen \in Seen, Names(seen), Grows
  PROVE  \A u \in Uids : seen[u] # None => act'[seen[u]] # None /\ act'[seen[u]].uid = u
BY DEF Names, Grows, Seen

LEMMA OldKept ==
  ASSUME TypeOK, OldInv, Grows, NEW s \in Syncs, sync'[s] = sync[s]
  PROVE  OldSync(s)'
<1>1. OldSync(s) /\ sync[s].seen \in Seen
  BY DEF OldInv, TypeOK, Sync
<1> QED BY <1>1, NamesGrow DEF OldSync, Names, Grows, Active

LEMMA OldSyncStep ==
  ASSUME TypeOK, OldInv, Grows, NEW s \in Syncs, SyncStep(s)
  PROVE  OldSync(s)'
<1> USE SyncAssumption
<1>1. OldSync(s) /\ sync[s].seen \in Seen /\ sync[s].todo \subseteq Event
  BY DEF OldInv, TypeOK, Sync
<1>2. \A u \in Uids : sync[s].seen[u] # None =>
        act'[sync[s].seen[u]] # None /\ act'[sync[s].seen[u]].uid = u
  BY <1>1, NamesGrow DEF OldSync
<1>3. \A a \in Activities : sync[s].old[a] # None => act'[a] # None
  BY <1>1 DEF OldSync, Grows
<1>4. CASE Start(s)
  <2>1. feed.seen \in Seen /\ Names(feed.seen) /\ feed.url \in Urls
    BY <1>4 DEF OldInv, TypeOK, Feed, Start
  <2>2. \A u \in Uids : feed.seen[u] # None =>
          act'[feed.seen[u]] # None /\ act'[feed.seen[u]].uid = u
    BY <2>1, NamesGrow
  <2> QED BY <1>4, <2>1, <2>2, StartBecomes DEF OldSync, Names, SyncBecomes
<1>5. CASE Fetch(s)
  <2>1. PICK u \in Urls, r \in Sync :
          SyncBecomes(s, r) /\ r.step = "load" /\ r.url = u /\ r.seen = sync[s].seen /\ r.old = sync[s].old
    BY <1>5, FetchBecomes
  <2> QED BY <1>2, <1>3, <2>1 DEF OldSync, Names, SyncBecomes
<1>6. CASE FetchNothing(s) \/ Save(s) \/ Dies(s)
  BY <1>6, Stops, Blanks DEF FetchNothing, Save, Dies, SyncBecomes, OldSync, Names, Active
<1>7. CASE Load(s)
  <2>1. PICK r \in Sync :
          /\ SyncBecomes(s, r) /\ r.step = "loop" /\ r.url = sync[s].url /\ r.seen = sync[s].seen
          /\ \A a \in Activities :
               r.old[a] = IF \E u \in Uids : sync[s].seen[u] = a THEN act[a] ELSE None
    BY <1>7, LoadBecomes
  <2>2. \A a \in Activities : r.old[a] # None => act'[a] # None
    BY <2>1 DEF Grows
  <2>3. sync[s].step = "load"
    BY <1>7 DEF Load
  <2> QED BY <1>1, <1>2, <2>1, <2>2, <2>3 DEF OldSync, Names, SyncBecomes, Active
<1>8. ASSUME NEW e \in Event, Done(s, e), sync[s].step = "loop" PROVE OldSync(s)'
  BY <1>1, <1>2, <1>3, <1>8, DoneBecomes DEF OldSync, Names, SyncBecomes, Active
<1>9. ASSUME NEW e \in Event, NEW a \in Activities, InsertMeeting(s, e, a) PROVE OldSync(s)'
  <2>1. PICK r \in Sync :
          /\ SyncBecomes(s, r) /\ r.step = sync[s].step /\ r.url = sync[s].url /\ r.old = sync[s].old
          /\ r.seen[e.uid] = a /\ \A u \in Uids : u # e.uid => r.seen[u] = sync[s].seen[u]
    BY <1>9, InsertBecomes
  <2>2. act'[a] # None /\ act'[a].uid = e.uid
    <3>1. [uid |-> e.uid, text |-> e.text] \in Event
      BY DEF Event
    <3> QED BY <1>9, <3>1 DEF InsertMeeting, TypeOK
  <2>3. Names(r.seen)'
    BY <1>2, <2>1, <2>2 DEF Names
  <2>4. sync[s].step = "loop"
    BY <1>9 DEF InsertMeeting
  <2> QED BY <1>1, <1>3, <2>1, <2>3, <2>4 DEF OldSync, Names, SyncBecomes, Active
<1> QED
  BY <1>1, <1>4, <1>5, <1>6, <1>7, <1>8, <1>9 DEF SyncStep, SkipEvent, UpdateMeeting

LEMMA OldStep == ASSUME TypeOK, OldInv, [Next]_vars PROVE OldInv'
<1>1. Grows
  BY ActStep DEF Grows
<1>2. feed.seen \in Seen /\ Names(feed.seen) /\ Names(NothingSeen)'
  BY DEF TypeOK, Feed, OldInv, Names, NothingSeen
<1>3. \A u \in Uids : feed.seen[u] # None =>
        act'[feed.seen[u]] # None /\ act'[feed.seen[u]].uid = u
  BY <1>1, <1>2, NamesGrow
<1>4. ASSUME NEW s \in Syncs, SyncStep(s) PROVE OldInv'
  <2>1. \A o \in Syncs : OldSync(o)'
    <3>1. \A o \in Syncs : o # s => sync'[o] = sync[o]
      BY <1>4, SyncType
    <3> QED BY <1>1, <1>4, <3>1, OldKept, OldSyncStep
  <2>2. /\ feed'.status = "live" => feed'.url \in Urls
        /\ Names(feed.seen)'
    <3>1. CASE Save(s) /\ feed.status = "live"
      <4>1. feed'.status = "live" /\ feed'.url = feed.url /\ feed'.seen = sync[s].seen
        BY <3>1 DEF Save, Saves, SavedSeen, TypeOK, Feed
      <4>2. sync[s].seen \in Seen /\ Names(sync[s].seen)
        BY DEF TypeOK, Sync, OldInv, OldSync
      <4>3. \A u \in Uids : sync[s].seen[u] # None =>
              act'[sync[s].seen[u]] # None /\ act'[sync[s].seen[u]].uid = u
        BY <1>1, <4>2, NamesGrow
      <4> QED BY <3>1, <4>1, <4>3 DEF Names, OldInv
    <3>2. CASE UNCHANGED feed
      BY <1>3, <3>2 DEF Names, OldInv
    <3> QED BY <1>4, <3>1, <3>2 DEF SyncStep, Start, Fetch, AfterFetch, FetchNothing, Load, SkipEvent,
                                    UpdateMeeting, InsertMeeting, Save, Saves, Dies
  <2> QED BY <2>1, <2>2 DEF OldInv
<1>5. UNCHANGED sync => \A o \in Syncs : OldSync(o)'
  BY <1>1, OldKept
<1>6. ASSUME NEW u \in Urls, CreateFeed(u) \/ PatchFeed(u) PROVE OldInv'
  <2>1. feed'.url = u /\ feed'.seen = feed.seen
    BY <1>6 DEF CreateFeed, PatchFeed, TypeOK, Feed
  <2> QED BY <1>3, <1>5, <1>6, <2>1 DEF OldInv, Names, CreateFeed, PatchFeed
<1>7. CASE DeleteFeed
  <2>1. feed'.status = "deleted" /\ feed'.seen = NothingSeen
    BY <1>7 DEF DeleteFeed, TypeOK, Feed
  <2> QED BY <1>2, <1>5, <1>7, <2>1 DEF OldInv, Names, DeleteFeed
<1>8. CASE UNCHANGED <<feed, sync>>
  BY <1>3, <1>5, <1>8 DEF OldInv, Names
<1> QED BY <1>4, <1>6, <1>7, <1>8 DEF Next, vars, Publish, EditMeeting
-----------------------------------------------------------------------------
(***************************************************************************)
(* Every step keeps the numbers apart, and what an ETag stands for.        *)
(***************************************************************************)
IssuedNext(t) == t = NoEtag \/ \E v \in Urls : t <= doc'[v].version

HeldNext(t, todo) ==
  \A v \in Urls : doc'[v].version = t =>
    \A e \in doc'[v].events : e \in todo \/ Meetings(e)' # {}

LEMMA MeetingsGrow == ASSUME Grows, NEW e PROVE Meetings(e) \subseteq Meetings(e)'
BY DEF Grows, Meetings

LEMMA Published ==
  ASSUME TypeOK, NEW u \in Urls, NEW events \in Documents, Publish(u, events)
  PROVE  \E n \in Nat \ {0} :
           /\ \A v \in Urls : doc[v].version \in Nat /\ doc[v].version < n
           /\ doc'[u].version = n /\ doc'[u].events = events
           /\ \A v \in Urls : v # u => doc'[v] = doc[v]
<1>1. PICK last \in 0..(MaxVersion - 1) :
        /\ \A v \in Urls : doc[v].version <= last
        /\ doc' = [doc EXCEPT ![u] = [version |-> last + 1, events |-> events]]
  BY DEF Publish
<1>2. last \in Nat /\ last + 1 \in Nat \ {0}
  BY SyncAssumption
<1>3. \A v \in Urls : doc[v].version \in Nat
  BY SyncAssumption DEF TypeOK
<1>4. \A v \in Urls : doc[v].version < last + 1
  BY <1>1, <1>2, <1>3
<1>5. /\ doc'[u].version = last + 1 /\ doc'[u].events = events
      /\ \A v \in Urls : v # u => doc'[v] = doc[v]
  BY <1>1 DEF TypeOK
<1> QED BY <1>2, <1>3, <1>4, <1>5

LEMMA DocStep ==
  ASSUME [Next]_vars
  PROVE  UNCHANGED doc \/ \E u \in Urls, events \in Documents : Publish(u, events)
<1>1. ASSUME NEW s \in Syncs, SyncStep(s) PROVE UNCHANGED doc
  BY <1>1 DEF SyncStep, Start, Fetch, FetchNothing, Load, SkipEvent, UpdateMeeting, InsertMeeting,
              Save, Dies
<1>2. ASSUME NEW u \in Urls, CreateFeed(u) \/ PatchFeed(u) PROVE UNCHANGED doc
  BY <1>2 DEF CreateFeed, PatchFeed
<1>3. ASSUME NEW a \in Activities, NEW t \in Texts, EditMeeting(a, t) PROVE UNCHANGED doc
  BY <1>3 DEF EditMeeting
<1>4. DeleteFeed \/ UNCHANGED vars => UNCHANGED doc
  BY DEF DeleteFeed, vars
<1> QED BY <1>1, <1>2, <1>3, <1>4 DEF Next

LEMMA VersionStep == ASSUME TypeOK, VersionInv, [Next]_vars PROVE VersionInv'
<1>1. CASE UNCHANGED doc
  BY <1>1 DEF VersionInv
<1>2. ASSUME NEW u \in Urls, NEW events \in Documents, Publish(u, events) PROVE VersionInv'
  BY <1>2, Published DEF VersionInv
<1> QED BY <1>1, <1>2, DocStep

LEMMA EtagKept ==
  ASSUME TypeOK, VersionInv, Grows, [Next]_vars,
         NEW t \in Etags, NEW todo, Issued(t), Held(t, todo)
  PROVE  IssuedNext(t) /\ HeldNext(t, todo)
<1>1. CASE UNCHANGED doc
  BY <1>1, MeetingsGrow DEF Issued, Held, IssuedNext, HeldNext
<1>2. ASSUME NEW u \in Urls, NEW events \in Documents, Publish(u, events)
      PROVE  IssuedNext(t) /\ HeldNext(t, todo)
  <2>1. PICK n \in Nat \ {0} :
           /\ \A v \in Urls : doc[v].version \in Nat /\ doc[v].version < n
           /\ doc'[u].version = n /\ \A v \in Urls : v # u => doc'[v] = doc[v]
    BY <1>2, Published
  <2>2. t \in Nat /\ t < n
    BY <2>1 DEF Issued, Etags, NoEtag
  <2>3. IssuedNext(t)
    BY <2>1, <2>2 DEF Issued, IssuedNext
  <2>4. \A v \in Urls : doc'[v].version = t => v # u /\ doc'[v] = doc[v]
    BY <2>1, <2>2
  <2> QED BY <2>3, <2>4, MeetingsGrow DEF Held, HeldNext
<1> QED BY <1>1, <1>2, DocStep

LEMMA NoEtagHeld ==
  ASSUME VersionInv PROVE Issued(NoEtag) /\ Held(NoEtag, {})
BY DEF VersionInv, Issued, Held, NoEtag

LEMMA KnownMeets ==
  ASSUME TypeOK, OldInv, NEW s \in Syncs, NEW e \in Event, Known(s, e) # None
  PROVE  Known(s, e) \in Meetings(e)
<1>1. OldSync(s) /\ sync[s].seen \in Seen /\ e.uid \in Uids
  BY DEF OldInv, TypeOK, Sync, Event
<1>2. Known(s, e) = sync[s].seen[e.uid] /\ Known(s, e) \in Activities
  BY <1>1 DEF Known, Seen
<1> QED BY <1>1, <1>2 DEF Meetings, OldSync, Names

StandsNext(s) == IssuedNext(sync'[s].etag) /\ HeldNext(sync'[s].etag, sync'[s].todo)

LEMMA EtagSyncStep ==
  ASSUME TypeOK, OldInv, VersionInv, EtagInv, Grows, NEW s \in Syncs, SyncStep(s)
  PROVE  StandsNext(s)
<1> DEFINE t == sync[s].etag
           todo == sync[s].todo
<1>1. t \in Etags /\ todo \subseteq Event /\ Issued(t) /\ Held(t, todo) /\ [Next]_vars
  BY DEF TypeOK, Sync, EtagInv, Next
<1>2. IssuedNext(t) /\ HeldNext(t, todo)
  BY <1>1, EtagKept
<1>3. CASE Start(s)
  <2>1. feed.etag \in Etags /\ Issued(feed.etag) /\ Held(feed.etag, {})
    BY DEF TypeOK, Feed, EtagInv
  <2>2. IssuedNext(feed.etag) /\ HeldNext(feed.etag, {})
    BY <1>1, <2>1, EtagKept
  <2> QED BY <1>3, <2>2, StartBecomes DEF SyncBecomes, StandsNext
<1>4. CASE Fetch(s)
  <2>1. PICK u \in Urls, r \in Sync :
          /\ sync[s].step = "fetch" /\ SyncBecomes(s, r)
          /\ r.todo = doc[u].events /\ r.etag \in {doc[u].version, t}
    BY <1>4, FetchBecomes
  <2>2. todo = {}
    BY <2>1 DEF OldInv, OldSync
  <2>3. CASE r.etag = t
    BY <1>2, <2>1, <2>2, <2>3 DEF SyncBecomes, HeldNext, StandsNext
  <2>4. CASE r.etag = doc[u].version
    <3>1. doc[u].version \in Etags
      BY DEF TypeOK, Etags
    <3>2. Issued(doc[u].version)
      BY <3>1, SyncAssumption DEF Issued, Etags
    <3>3. Held(doc[u].version, doc[u].events)
      BY DEF Held, VersionInv
    <3>4. IssuedNext(doc[u].version) /\ HeldNext(doc[u].version, doc[u].events)
      BY <1>1, <3>1, <3>2, <3>3, EtagKept
    <3> QED BY <2>1, <2>4, <3>4 DEF SyncBecomes, StandsNext
  <2> QED BY <2>1, <2>3, <2>4
<1>5. CASE FetchNothing(s) \/ Save(s) \/ Dies(s)
  <2>1. NoEtag \in Etags
    BY SyncAssumption DEF NoEtag, Etags
  <2>2. IssuedNext(NoEtag) /\ HeldNext(NoEtag, {})
    BY <1>1, <2>1, NoEtagHeld, EtagKept
  <2> QED BY <1>5, <2>2, Stops, Blanks DEF FetchNothing, Save, Dies, SyncBecomes, StandsNext
<1>6. CASE Load(s)
  BY <1>2, <1>6, LoadBecomes DEF SyncBecomes, StandsNext
<1>7. ASSUME NEW e \in Event, Meetings(e)' # {},
             \E r \in Sync : SyncBecomes(s, r) /\ r.todo = todo \ {e} /\ r.etag = t
      PROVE  StandsNext(s)
  BY <1>2, <1>7 DEF SyncBecomes, HeldNext, StandsNext
<1>8. ASSUME NEW e \in Event, SkipEvent(s, e) \/ UpdateMeeting(s, e) PROVE StandsNext(s)
  <2>1. Known(s, e) # None /\ Done(s, e)
    BY <1>8 DEF SkipEvent, UpdateMeeting
  <2>2. Meetings(e)' # {}
    BY <2>1, KnownMeets, MeetingsGrow
  <2> QED BY <1>7, <2>1, <2>2, DoneBecomes
<1>9. ASSUME NEW e \in Event, NEW a \in Activities, InsertMeeting(s, e, a) PROVE StandsNext(s)
  <2>1. act'[a] = [uid |-> e.uid, text |-> e.text]
    BY <1>9 DEF InsertMeeting, TypeOK
  <2>2. [uid |-> e.uid, text |-> e.text] \in Event
    BY DEF Event
  <2>3. a \in Meetings(e)'
    BY <2>1, <2>2, SyncAssumption DEF Meetings
  <2> QED BY <1>7, <1>9, <2>3, InsertBecomes
<1>10. CASE Start(s) \/ Fetch(s) \/ FetchNothing(s) \/ Save(s) \/ Dies(s) \/ Load(s)
  BY <1>3, <1>4, <1>5, <1>6, <1>10
<1>11. \/ Start(s) \/ Fetch(s) \/ FetchNothing(s) \/ Save(s) \/ Dies(s) \/ Load(s)
       \/ \E e \in Event :
            SkipEvent(s, e) \/ UpdateMeeting(s, e) \/ \E a \in Activities : InsertMeeting(s, e, a)
  BY <1>1 DEF SyncStep
<1> QED BY <1>8, <1>9, <1>10, <1>11

LEMMA EtagStep ==
  ASSUME TypeOK, OldInv, VersionInv, EtagInv, [Next]_vars PROVE EtagInv'
<1>1. Grows
  BY ActStep DEF Grows
<1>2. feed.etag \in Etags /\ Issued(feed.etag) /\ Held(feed.etag, {})
  BY DEF TypeOK, Feed, EtagInv
<1>3. IssuedNext(feed.etag) /\ HeldNext(feed.etag, {})
  BY <1>1, <1>2, EtagKept
<1>4. ASSUME NEW o \in Syncs, sync'[o] = sync[o]
      PROVE  StandsNext(o)
  <2>1. sync[o].etag \in Etags /\ Issued(sync[o].etag) /\ Held(sync[o].etag, sync[o].todo)
    BY DEF TypeOK, Sync, EtagInv
  <2> QED BY <1>1, <1>4, <2>1, EtagKept DEF StandsNext
<1>5. \A o \in Syncs : StandsNext(o)
  <2>1. CASE UNCHANGED sync
    BY <1>4, <2>1
  <2>2. ASSUME NEW s \in Syncs, SyncStep(s), NEW o \in Syncs
        PROVE  StandsNext(o)
    BY <1>1, <1>4, <2>2, SyncType, EtagSyncStep
  <2> QED BY <2>1, <2>2 DEF Next, vars, CreateFeed, PatchFeed, Publish, EditMeeting, DeleteFeed
<1>6. IssuedNext(feed'.etag) /\ HeldNext(feed'.etag, {})
  <2>1. CASE feed'.etag = feed.etag
    BY <1>3, <2>1
  <2>2. CASE feed'.etag = NoEtag
    <3>1. NoEtag \in Etags
      BY SyncAssumption DEF NoEtag, Etags
    <3> QED BY <1>1, <2>2, <3>1, NoEtagHeld, EtagKept
  <2>3. ASSUME NEW s \in Syncs, Save(s), feed.status = "live"
        PROVE  IssuedNext(feed'.etag) /\ HeldNext(feed'.etag, {})
    <3>1. feed'.etag = sync[s].etag /\ sync[s].todo = {}
      BY <2>3 DEF Save, Saves, SavedSeen, TypeOK, Feed
    <3>2. sync[s].etag \in Etags /\ Issued(sync[s].etag) /\ Held(sync[s].etag, {})
      BY <3>1 DEF TypeOK, Sync, EtagInv
    <3> QED BY <1>1, <3>1, <3>2, EtagKept
  <2>4. ASSUME NEW s \in Syncs, SyncStep(s)
        PROVE  UNCHANGED feed \/ (Save(s) /\ feed.status = "live")
    BY <2>4 DEF SyncStep, Start, Fetch, AfterFetch, FetchNothing, Load, SkipEvent,
                UpdateMeeting, InsertMeeting, Save, Saves, Dies
  <2>5. ASSUME NEW u \in Urls, CreateFeed(u) \/ PatchFeed(u) PROVE feed'.etag = feed.etag
    BY <2>5 DEF CreateFeed, PatchFeed, TypeOK, Feed
  <2>6. DeleteFeed => feed'.etag = NoEtag
    BY DEF DeleteFeed, TypeOK, Feed
  <2> QED BY <2>1, <2>2, <2>3, <2>4, <2>5, <2>6 DEF Next, vars, Publish, EditMeeting
<1> QED BY <1>5, <1>6 DEF EtagInv, Issued, Held, IssuedNext, HeldNext, StandsNext
-----------------------------------------------------------------------------
(***************************************************************************)
(* Every step keeps SerialInv.  Only InsertMeeting makes a meeting.        *)
(***************************************************************************)
SameMeetings ==
  \A a \in Activities :
    (act'[a] # None <=> act[a] # None) /\ (act[a] # None => act'[a].uid = act[a].uid)

CoversNext(seen) == \A a \in Activities : act'[a] # None => seen[act'[a].uid] = a

LEMMA SameCovers ==
  ASSUME SameMeetings PROVE \A seen : Covers(seen) => CoversNext(seen)
BY DEF SameMeetings, Covers, CoversNext

LEMMA SameOne == ASSUME SameMeetings, OneMeeting PROVE OneMeeting'
BY DEF SameMeetings, OneMeeting

LEMMA WrittenSame ==
  ASSUME TypeOK, NEW a \in Activities, NEW t \in Texts, act[a] # None, act' = [act EXCEPT ![a].text = t]
  PROVE  SameMeetings
<1>1. act[a] \in Event /\ act'[a] = [act[a] EXCEPT !.text = t]
  BY DEF TypeOK, Row, Event
<1>2. act'[a] \in Event /\ act'[a].uid = act[a].uid
  BY <1>1 DEF Event
<1>3. act'[a] # None
  BY <1>2, SyncAssumption
<1> QED BY <1>2, <1>3 DEF SameMeetings, TypeOK

LEMMA SerialBack == ASSUME [Next]_vars, Serial' PROVE Serial
<1>1. ASSUME NEW s \in Syncs, SyncStep(s) PROVE odd \subseteq odd'
  BY <1>1 DEF SyncStep, Start, Fetch, FetchNothing, Load, SkipEvent, UpdateMeeting, InsertMeeting,
              Save, Dies
<1>2. ASSUME NEW u \in Urls, CreateFeed(u) \/ PatchFeed(u) PROVE odd \subseteq odd'
  BY <1>2 DEF CreateFeed, PatchFeed
<1>3. ASSUME NEW a \in Activities, NEW t \in Texts, EditMeeting(a, t) PROVE odd \subseteq odd'
  BY <1>3 DEF EditMeeting
<1>4. ASSUME NEW u \in Urls, NEW events \in Documents, Publish(u, events) PROVE odd \subseteq odd'
  BY <1>4 DEF Publish
<1>5. DeleteFeed \/ UNCHANGED vars => odd \subseteq odd'
  BY DEF DeleteFeed, vars
<1> QED BY <1>1, <1>2, <1>3, <1>4, <1>5 DEF Next, Serial

LEMMA OnlySync ==
  ASSUME TypeOK, OldInv, SerialParts, NEW s \in Syncs, SyncStep(s), Serial'
  PROVE  /\ feed.status # "none" /\ feed'.status = feed.status
         /\ \A o \in Syncs : o # s => sync'[o].step = "idle"
<1>1. Active(s) \/ Start(s)
  BY DEF SyncStep, Fetch, FetchNothing, Load, SkipEvent, UpdateMeeting, InsertMeeting, Save, Dies, Active
<1>2. \A o \in Syncs : o # s => sync'[o] = sync[o]
  BY SyncType
<1>3. Start(s) => \A o \in Syncs : ~Active(o)
  BY DEF Start, Serial
<1>4. feed.status # "none"
  BY <1>1 DEF SerialParts, Unborn, Start
<1>5. CASE Save(s)
  BY <1>1, <1>2, <1>3, <1>4, <1>5 DEF Save, Saves, TypeOK, Feed, SerialParts, OneSync, Active
<1>6. Save(s) \/ UNCHANGED feed
  BY DEF SyncStep, Start, Fetch, AfterFetch, FetchNothing, Load, SkipEvent, UpdateMeeting,
         InsertMeeting, Dies
<1> QED BY <1>1, <1>2, <1>3, <1>4, <1>5, <1>6 DEF SerialParts, OneSync, Active

LEMMA SerialBecomes ==
  ASSUME TypeOK, OldInv, SerialParts, NEW s \in Syncs, SyncStep(s), Serial',
         NEW r \in Sync, SyncBecomes(s, r), OneMeeting',
         r.step # "idle" => CoversNext(r.seen) /\ Prepared(r),
         feed.status = "live" /\ r.step # "loop" => CoversNext(feed'.seen)
  PROVE  SerialParts'
<1>1. feed.status # "none" /\ feed'.status = feed.status /\ sync'[s] = r
        /\ \A o \in Syncs : o # s => sync'[o].step = "idle"
  BY OnlySync DEF SyncBecomes
<1>2. Unborn' /\ OneSync'
  BY <1>1 DEF Unborn, OneSync, Active
<1>3. FeedCovers'
  BY <1>1 DEF FeedCovers, Covers, CoversNext
<1>4. \A o \in Syncs : Alone(o)'
  BY <1>1 DEF Alone, Active, Covers, CoversNext, Prepared, Repeats
<1> QED BY <1>2, <1>3, <1>4 DEF SerialParts

LEMMA SerialSyncStep ==
  ASSUME TypeOK, OldInv, SerialParts, NEW s \in Syncs, SyncStep(s), Serial'
  PROVE  SerialParts'
<1>1. sync[s] \in Sync /\ sync[s].todo \subseteq Event /\ OldSync(s)
  BY DEF TypeOK, Sync, OldInv
<1>2. OneMeeting /\ FeedCovers /\ Alone(s)
  BY DEF SerialParts
<1>3. UNCHANGED act => SameMeetings /\ OneMeeting'
  BY <1>2, SameOne DEF SameMeetings
<1>4. CASE Start(s)
  <2>1. PICK r \in Sync :
          /\ SyncBecomes(s, r) /\ r.step = "fetch" /\ r.seen = feed.seen /\ r.todo = {}
    BY <1>4, StartBecomes
  <2>2. \A o \in Syncs : ~Active(o)
    BY <1>4 DEF Start, Serial
  <2>3. Covers(feed.seen) /\ UNCHANGED <<act, feed>>
    BY <1>2, <1>4, <2>2 DEF Start, FeedCovers, Active
  <2>4. CoversNext(feed.seen) /\ OneMeeting'
    BY <1>3, <2>3, SameCovers
  <2>5. Prepared(r)
    BY <2>1 DEF Prepared, Repeats
  <2> QED BY <2>1, <2>3, <2>4, <2>5, SerialBecomes
<1>5. ASSUME UNCHANGED act, sync[s].step \in {"fetch", "load"}
      PROVE  CoversNext(sync[s].seen) /\ (feed.status = "live" => CoversNext(feed.seen))
  <2>1. \A o \in Syncs : o # s => ~Active(o)
    BY <1>5 DEF SerialParts, OneSync, Active
  <2>2. feed.status = "live" => Covers(feed.seen)
    BY <1>2, <1>5, <2>1 DEF FeedCovers, Active
  <2>3. Covers(sync[s].seen)
    BY <1>2, <1>5 DEF Alone, Active
  <2> QED BY <1>3, <1>5, <2>2, <2>3, SameCovers
<1>6. CASE Fetch(s)
  <2>1. PICK r \in Sync :
          /\ sync[s].step = "fetch" /\ SyncBecomes(s, r) /\ r.step = "load" /\ r.seen = sync[s].seen
          /\ Repeats(r.todo) => "repeat" \in odd'
    BY <1>6, FetchBecomes
  <2>2. UNCHANGED <<act, feed>>
    BY <1>6 DEF Fetch, AfterFetch
  <2>3. Prepared(r)
    BY <2>1 DEF Prepared, Serial
  <2> QED BY <1>3, <1>5, <2>1, <2>2, <2>3, SerialBecomes
<1>7. CASE FetchNothing(s)
  <2>1. UNCHANGED <<act, feed>> /\ sync[s].step = "fetch" /\ SyncBecomes(s, Idle)
    BY <1>7, Stops DEF FetchNothing
  <2> QED BY <1>3, <1>5, <2>1, Blanks, SerialBecomes
<1>8. CASE Load(s)
  <2>1. PICK r \in Sync :
          /\ SyncBecomes(s, r) /\ r.step = "loop" /\ r.seen = sync[s].seen /\ r.todo = sync[s].todo
          /\ \A a \in Activities :
               r.old[a] = IF \E u \in Uids : sync[s].seen[u] = a THEN act[a] ELSE None
    BY <1>8, LoadBecomes
  <2>2. UNCHANGED <<act, feed>> /\ sync[s].step = "load"
    BY <1>8 DEF Load
  <2>3. ~Repeats(sync[s].todo)
    BY <1>2, <2>2 DEF Alone, Active, Prepared
  <2>4. ASSUME NEW e \in r.todo, r.seen[e.uid] # None PROVE r.old[r.seen[e.uid]] # None
    <3>1. e.uid \in Uids /\ r.seen[e.uid] \in Activities
      BY <1>1, <2>1, <2>4 DEF Event, Sync, Seen
    <3>2. act[r.seen[e.uid]] # None
      BY <1>1, <2>1, <2>4, <3>1 DEF OldSync, Names
    <3> QED BY <2>1, <3>1, <3>2
  <2>5. Prepared(r)
    BY <2>1, <2>3, <2>4 DEF Prepared
  <2> QED BY <1>3, <1>5, <2>1, <2>2, <2>5, SerialBecomes
<1>9. CASE Dies(s)
  BY <1>9 DEF Dies, Serial
<1>10. ASSUME sync[s].step = "loop"
       PROVE  /\ Covers(sync[s].seen) /\ Prepared(sync[s])
  BY <1>2, <1>10 DEF Alone, Active
<1>11. CASE Save(s)
  <2>1. UNCHANGED act /\ SyncBecomes(s, Idle) /\ sync[s].step = "loop"
    BY <1>11, Stops DEF Save
  <2>2. feed.status = "live" => feed'.seen = sync[s].seen
    BY <1>11 DEF Save, Saves, SavedSeen, TypeOK, Feed
  <2>3. CoversNext(sync[s].seen)
    BY <1>3, <1>10, <2>1, SameCovers
  <2> QED BY <1>3, <2>1, <2>2, <2>3, Blanks, SerialBecomes
<1>12. ASSUME NEW e \in Event, Done(s, e), sync[s].step = "loop", SameMeetings PROVE SerialParts'
  <2>1. PICK r \in Sync :
          /\ SyncBecomes(s, r) /\ r.todo = sync[s].todo \ {e} /\ r.step = sync[s].step
          /\ r.seen = sync[s].seen /\ r.old = sync[s].old
    BY <1>12, DoneBecomes
  <2>2. Prepared(r)
    BY <1>10, <1>12, <2>1 DEF Prepared, Repeats
  <2>3. CoversNext(r.seen) /\ OneMeeting'
    BY <1>2, <1>10, <1>12, <2>1, SameCovers, SameOne
  <2> QED BY <1>12, <2>1, <2>2, <2>3, SerialBecomes
<1>13. ASSUME NEW e \in Event, SkipEvent(s, e) PROVE SerialParts'
  BY <1>3, <1>12, <1>13 DEF SkipEvent
<1>14. ASSUME NEW e \in Event, UpdateMeeting(s, e) PROVE SerialParts'
  BY <1>12, <1>14, UpdatedRow, WrittenSame DEF UpdateMeeting
<1>15. ASSUME NEW e \in Event, NEW a \in Activities, InsertMeeting(s, e, a) PROVE SerialParts'
  <2>1. PICK r \in Sync :
          /\ SyncBecomes(s, r) /\ r.todo = sync[s].todo \ {e} /\ r.step = sync[s].step
          /\ r.old = sync[s].old /\ r.seen[e.uid] = a
          /\ \A u \in Uids : u # e.uid => r.seen[u] = sync[s].seen[u]
    BY <1>15, InsertBecomes
  <2>2. sync[s].step = "loop" /\ e \in sync[s].todo /\ Known(s, e) = None /\ act[a] = None
    BY <1>15 DEF InsertMeeting
  <2>3. sync[s].seen[e.uid] = None
    BY <1>10, <2>2 DEF Prepared, Known
  <2>4. [uid |-> e.uid, text |-> e.text] \in Event /\ e.uid \in Uids
    BY DEF Event
  <2>5. /\ act'[a] # None /\ act'[a].uid = e.uid
        /\ \A b \in Activities : b # a => act'[b] = act[b]
    BY <1>15, <2>4, SyncAssumption DEF InsertMeeting, TypeOK
  <2>6. \A b \in Activities : act[b] # None => act[b].uid \in Uids /\ act[b].uid # e.uid
    <3>1. ASSUME NEW b \in Activities, act[b] # None PROVE act[b].uid \in Uids
      BY <3>1 DEF TypeOK, Row
    <3>2. ASSUME NEW b \in Activities, act[b] # None PROVE act[b].uid # e.uid
      <4>1. sync[s].seen[act[b].uid] = b /\ b # None
        BY <1>10, <2>2, <3>2, SyncAssumption DEF Covers
      <4> QED BY <2>3, <4>1
    <3> QED BY <3>1, <3>2
  <2>7. OneMeeting'
    BY <1>2, <2>5, <2>6 DEF OneMeeting
  <2>8. CoversNext(r.seen)
    BY <1>10, <2>1, <2>2, <2>5, <2>6 DEF Covers, CoversNext
  <2>9. Prepared(r)
    <3>1. \A f \in sync[s].todo \ {e} : f.uid \in Uids /\ f.uid # e.uid
      BY <1>1, <1>10, <2>2 DEF Prepared, Repeats, Event
    <3> QED BY <1>10, <2>1, <2>2, <3>1 DEF Prepared, Repeats
  <2> QED BY <2>1, <2>2, <2>7, <2>8, <2>9, SerialBecomes
<1>16. \/ Start(s) \/ Fetch(s) \/ FetchNothing(s) \/ Load(s) \/ Save(s) \/ Dies(s)
       \/ \E e \in Event :
            SkipEvent(s, e) \/ UpdateMeeting(s, e) \/ \E a \in Activities : InsertMeeting(s, e, a)
  BY <1>1 DEF SyncStep
<1> QED BY <1>4, <1>6, <1>7, <1>8, <1>9, <1>11, <1>13, <1>14, <1>15, <1>16

LEMMA SerialStep ==
  ASSUME TypeOK, OldInv, SerialInv, [Next]_vars PROVE SerialInv'
<1> SUFFICES ASSUME Serial' PROVE SerialParts'
  BY DEF SerialInv
<1>1. SerialParts
  BY SerialBack DEF SerialInv
<1>2. ASSUME NEW s \in Syncs, SyncStep(s) PROVE SerialParts'
  BY <1>1, <1>2, SerialSyncStep
<1>3. ASSUME SameMeetings, UNCHANGED <<feed, sync>> PROVE SerialParts'
  <2>1. OneMeeting' /\ Unborn' /\ OneSync'
    BY <1>1, <1>3, SameOne DEF SerialParts, SameMeetings, Unborn, OneSync, Active
  <2>2. \A seen : Covers(seen) => CoversNext(seen)
    BY <1>3, SameCovers
  <2>3. FeedCovers'
    BY <1>1, <1>3, <2>2 DEF SerialParts, FeedCovers, Covers, CoversNext
  <2>4. \A s \in Syncs : Alone(s)'
    BY <1>1, <1>3, <2>2 DEF SerialParts, Alone, Active, Covers, CoversNext, Prepared, Repeats
  <2> QED BY <2>1, <2>3, <2>4 DEF SerialParts
<1>4. ASSUME UNCHANGED <<act, sync>>, feed'.status # "none",
             feed'.status = "live" => feed'.seen = feed.seen /\ feed.status \in {"none", "live"},
             feed.status = "none" => feed.seen = NothingSeen
      PROVE  SerialParts'
  <2>1. OneMeeting' /\ Unborn' /\ OneSync' /\ \A s \in Syncs : Alone(s)'
    BY <1>1, <1>4 DEF SerialParts, OneMeeting, Unborn, OneSync, Active, Alone, Covers, Prepared, Repeats
  <2>2. FeedCovers'
    BY <1>1, <1>4 DEF SerialParts, FeedCovers, Unborn, Covers
  <2> QED BY <2>1, <2>2 DEF SerialParts
<1>5. feed.status = "none" => feed.seen = NothingSeen
  BY DEF TypeOK
<1>6. ASSUME NEW u \in Urls, CreateFeed(u) \/ PatchFeed(u) PROVE SerialParts'
  BY <1>4, <1>5, <1>6 DEF CreateFeed, PatchFeed, TypeOK, Feed
<1>7. CASE DeleteFeed
  BY <1>4, <1>5, <1>7 DEF DeleteFeed, TypeOK, Feed
<1>8. UNCHANGED act => SameMeetings
  BY DEF SameMeetings
<1>9. ASSUME NEW a \in Activities, NEW t \in Texts, EditMeeting(a, t) PROVE SerialParts'
  BY <1>3, <1>9, WrittenSame DEF EditMeeting
<1>10. ASSUME NEW u \in Urls, NEW events \in Documents, Publish(u, events) PROVE SerialParts'
  BY <1>3, <1>8, <1>10 DEF Publish
<1>11. CASE UNCHANGED vars
  BY <1>3, <1>8, <1>11 DEF vars
<1> QED BY <1>2, <1>6, <1>7, <1>9, <1>10, <1>11 DEF Next
-----------------------------------------------------------------------------
(***************************************************************************)
(* The inductive invariant.                                                *)
(***************************************************************************)
LEMMA InvInit == ASSUME Init PROVE IInv
<1> USE SyncAssumption
<1>1. feed.status = "none" /\ feed.etag = NoEtag /\ feed.seen = NothingSeen /\ feed \in Feed
  BY Blanks DEF Init, Feed, Etags, NoEtag
<1>2. \A u \in Urls : doc[u].version = 0 /\ doc[u].events = {}
  BY DEF Init
<1>3. doc \in [Urls -> [version : 0..MaxVersion, events : SUBSET Event]]
  BY DEF Init
<1>4. act = NoRows /\ act \in [Activities -> Row] /\ \A a \in Activities : act[a] = None
  BY Blanks DEF Init, NoRows
<1>5. sync \in [Syncs -> Sync] /\ \A s \in Syncs : sync[s] = Idle
  BY Blanks DEF Init
<1>6. TypeOK
  BY <1>1, <1>3, <1>4, <1>5 DEF TypeOK, Init, Oddities
<1>7. OldInv
  BY <1>1, <1>5, Blanks DEF OldInv, OldSync, Names, Active, NothingSeen
<1>8. VersionInv /\ Held(NoEtag, {}) /\ Issued(NoEtag)
  BY <1>2 DEF VersionInv, Held, Issued
<1>9. EtagInv
  BY <1>1, <1>5, <1>8, Blanks DEF EtagInv
<1>10. SerialInv
  BY <1>1, <1>4, <1>5, Blanks
  DEF SerialInv, SerialParts, OneMeeting, Unborn, OneSync, FeedCovers, Alone, Active
<1> QED BY <1>6, <1>7, <1>8, <1>9, <1>10 DEF IInv

LEMMA InvStep == ASSUME IInv, [Next]_vars PROVE IInv'
BY TypeStep, OldStep, VersionStep, EtagStep, SerialStep DEF IInv

LEMMA Inductive == Spec => []IInv
BY InvInit, InvStep, PTL DEF Spec

(***************************************************************************)
(* The rows syncs and handlers write are of their types.                   *)
(***************************************************************************)
THEOREM TypeCorrect == Spec => []TypeOK
<1>1. IInv => TypeOK
  BY DEF IInv
<1> QED BY <1>1, Inductive, PTL

(***************************************************************************)
(* When the saved ETag is the server's, so that a sync would be answered   *)
(* 304 and do nothing, each event published has its meeting: for any number*)
(* of syncs of the feed that overlap or die, and any change of the address.*)
(***************************************************************************)
THEOREM CachedCorrect == Spec => []CachedMeansSynced
<1>1. IInv => CachedMeansSynced
  BY DEF IInv, OldInv, EtagInv, Held, CachedMeansSynced, EtagOf
<1> QED BY <1>1, Inductive, PTL

(***************************************************************************)
(* Syncs that do not overlap, end, and read no document that names a UID   *)
(* twice give an event one meeting, however it is edited.                  *)
(***************************************************************************)
THEOREM DedupeCorrect == Spec => []SerialSyncsDedupe
<1>1. IInv => SerialSyncsDedupe
  BY DEF IInv, SerialInv, Serial, SerialParts, OneMeeting, SerialSyncsDedupe, Meetings
<1> QED BY <1>1, Inductive, PTL
-----------------------------------------------------------------------------
(***************************************************************************)
(* Sales.  The rows of the tables and the requests under way.              *)
(***************************************************************************)
StagePair == Ids \X DOMAIN Stages
PipelineRow == [id : Ids, default : BOOLEAN, stages : SUBSET DOMAIN Stages]
DealRow == [id : Ids, pipeline : Ids, stage : Ids \X DOMAIN Stages, status : Statuses,
            closed : {Nil} \cup Ids, due : {Nil} \cup Months, deleted : BOOLEAN]
ProductRow == [id : Ids, price : Prices, deleted : BOOLEAN]
LineRow == [id : Ids, deal : Ids, price : Prices \cup {0}]
TaskRow == [id : Ids, status : {"open", "done"}, completed : {Nil} \cup Ids, deleted : BOOLEAN]
TimelineEvent == [type : {"created", "stage_changed", "line_item_added"}, id : Ids,
                  from : {Nil} \cup StagePair, to : StagePair \cup Ids]

TypedRow(name, r) ==
  /\ name = "pipelines" => r \in PipelineRow
  /\ name = "deals" => r \in DealRow
  /\ name = "products" => r \in ProductRow
  /\ name = "lines" => r \in LineRow
  /\ name = "tasks" => r \in TaskRow

Inserts(job) == job.op \in {"insert", "insert and tell", "pipeline"}

\* A new pipeline; it is at the default flag if it is to have it.
PipelineJob(job) ==
  /\ job.op = "pipeline"
  /\ job.want \in PipelineRow
  /\ job.row.id = IF job.want.default THEN 0 ELSE job.want.id
  /\ ~job.want.default => job.clear = {}

\* The event of a deal's row: none while its stage stays, but that it was there.
EventsOf(job) ==
  \/ job.events = <<>> /\ (job.table = "deals" => ~Inserts(job) /\ job.want.stage = job.row.stage)
  \/ /\ job.table = "deals" /\ job.op \in {"insert", "update"}
     /\ \E e \in TimelineEvent :
          /\ job.events = <<e>> /\ e.id = job.row.id /\ e.type # "line_item_added"
          /\ e.to = job.want.stage
          /\ job.op = "update" => e.from = job.row.stage

RowJob(job) ==
  /\ DOMAIN job = {"op", "table", "row", "want", "events"}
  /\ job.op \in {"insert", "insert and tell", "update", "remove", "tell"}
  /\ job.table \in {"pipelines", "deals", "products", "lines", "tasks"}
  /\ TypedRow(job.table, job.row) /\ TypedRow(job.table, job.want)
  /\ job.row.id \in Ids /\ job.want.id = job.row.id
  /\ job.table = "pipelines" => job.op = "remove"
  /\ Inserts(job) => job.want = job.row
  /\ job.op \in {"insert and tell", "tell"} => job.table = "lines"
  /\ EventsOf(job)
  /\ job.op = "update" /\ job.table = "tasks" /\ job.row.completed # Nil =>
       job.want.completed = job.row.completed

JobOK(job) == PipelineJob(job) \/ RowJob(job)

Numbered(i) ==
  \/ \E r \in pipelines : r.id = i
  \/ \E r \in deals : r.id = i
  \/ \E r \in products : r.id = i
  \/ \E r \in lines : r.id = i
  \/ \E r \in tasks : r.id = i

NumberedNext(i) ==
  \/ \E r \in pipelines' : r.id = i
  \/ \E r \in deals' : r.id = i
  \/ \E r \in products' : r.id = i
  \/ \E r \in lines' : r.id = i
  \/ \E r \in tasks' : r.id = i

\* The events of deals, which a row's id names.
Trail(tl, id) == {i \in DOMAIN tl : tl[i].id = id /\ tl[i].type # "line_item_added"}

\* Rows are numbered in the order of the requests, and an insert is of a new one.
NumbersInv ==
  /\ \A i \in Ids : Numbered(i) \/ Trail(timeline, i) # {} => i < Now
  /\ \A q \in Requests : call[q] # NoCall => call[q].want.id < Now
  /\ \A q \in Requests : call[q] # NoCall /\ Inserts(call[q]) =>
       /\ ~Numbered(call[q].want.id) /\ Trail(timeline, call[q].want.id) = {}
       /\ \A p \in Requests \ {q} : call[p] # NoCall => call[p].want.id # call[q].want.id

\* Two requests at one row are known, and one that is alone at it has read it as it is.
SharedInv ==
  \A p, q \in Requests : p # q /\ call[p] # NoCall /\ call[q] # NoCall /\ call[p].row.id = call[q].row.id
    => call[p].row.id \in crossed

AloneInv ==
  \A q \in Requests : call[q] # NoCall /\ call[q].op = "update" /\ call[q].row.id \notin crossed =>
    /\ call[q].table = "deals" => \A r \in deals : r.id = call[q].row.id => r = call[q].row
    /\ call[q].table = "tasks" => \A r \in tasks : r.id = call[q].row.id => r = call[q].row

\* One request at the default flag will clear what has it.
DefaultInv ==
  0 \notin crossed =>
    /\ \A o, p \in pipelines : o.default /\ p.default => o = p
    /\ \A q \in Requests : call[q].op = "pipeline" /\ call[q].want.default =>
         \A p \in pipelines : p.default => \E o \in call[q].clear : o.id = p.id

\* The events of id are one path that ends at stage.
PathTo(tl, id, stage) ==
  /\ \E i \in Trail(tl, id) : tl[i].to = stage /\ \A j \in Trail(tl, id) : j <= i
  /\ \A i, j \in Trail(tl, id) :
       i < j /\ (\A k \in Trail(tl, id) : k <= i \/ j <= k) => tl[j].from = tl[i].to

PathsInv == \A d \in deals : d.id \notin crossed => PathTo(timeline, d.id, d.stage)

CallsInv ==
  /\ DOMAIN call = Requests
  /\ \A q \in Requests : call[q] = NoCall \/ JobOK(call[q])
  /\ timeline \in Seq(TimelineEvent)

SalesInv ==
  /\ SalesTypeOK /\ CallsInv /\ NumbersInv /\ SharedInv /\ AloneInv /\ DefaultInv /\ PathsInv
-----------------------------------------------------------------------------
LEMMA JobFacts ==
  ASSUME NEW job, JobOK(job)
  PROVE  job # NoCall /\ job.want.id \in Ids /\ job.row.id \in Ids \cup {0}
<1>1. job.op # "idle" /\ NoCall.op = "idle"
  BY DEF JobOK, PipelineJob, RowJob, NoCall
<1>2. CASE PipelineJob(job)
  BY <1>1, <1>2 DEF PipelineJob, PipelineRow
<1>3. CASE RowJob(job)
  BY <1>1, <1>3 DEF RowJob
<1>. QED  BY <1>2, <1>3 DEF JobOK

LEMMA IdsFacts == Ids \subseteq Nat /\ 0 \notin Ids
BY SalesAssumption DEF Ids

\* A request begins.
LEMMA BeginKeeps ==
  ASSUME SalesInv, NEW q \in Requests, NEW job, call[q] = NoCall, calls < MaxCalls,
         Begin(q, job), JobOK(job),
         IF Inserts(job) THEN job.want.id = Now ELSE Numbered(job.want.id),
         job.op = "update" /\ job.table = "deals" => job.row \in deals,
         job.op = "update" /\ job.table = "tasks" => job.row \in tasks,
         job.op = "pipeline" /\ job.want.default => job.clear = {o \in pipelines : o.default}
  PROVE  SalesInv'
<1>1. /\ calls' = calls + 1 /\ call' = [call EXCEPT ![q] = job]
      /\ crossed' = crossed \cup {i \in {job.row.id} :
                      \E o \in Requests : call[o] # NoCall /\ call[o].row.id = i}
      /\ UNCHANGED <<pipelines, deals, products, lines, tasks, timeline>>
  BY DEF Begin, tables
<1>2. /\ DOMAIN call = Requests /\ calls \in 0..MaxCalls /\ crossed \subseteq Ids \cup {0} /\ MaxCalls \in Nat
      /\ \A p \in Requests : call[p] = NoCall \/ JobOK(call[p])
  BY SalesAssumption DEF SalesInv, SalesTypeOK, CallsInv
<1>3. /\ call'[q] = job /\ DOMAIN call' = Requests /\ \A p \in Requests \ {q} : call'[p] = call[p]
      /\ job # NoCall /\ job.want.id \in Ids /\ job.row.id \in Ids \cup {0}
      /\ calls' \in 0..MaxCalls /\ Now \in Ids /\ Now' = Now + 1
  BY <1>1, <1>2, JobFacts DEF Now, Ids
<1>4. \A i : Numbered(i)' <=> Numbered(i)
  BY <1>1 DEF Numbered
<1>5. SalesTypeOK' /\ CallsInv'
  <2>1. crossed' \subseteq Ids \cup {0}
    BY <1>1, <1>2, <1>3
  <2>. QED  BY <1>1, <1>2, <1>3, <2>1 DEF SalesInv, SalesTypeOK, CallsInv
<1>6. NumbersInv'
  <2>1. /\ \A i \in Ids : Numbered(i) \/ Trail(timeline, i) # {} => i < Now
        /\ \A p \in Requests : call[p] # NoCall => call[p].want.id < Now
        /\ \A p \in Requests : call[p] # NoCall /\ Inserts(call[p]) =>
             /\ ~Numbered(call[p].want.id) /\ Trail(timeline, call[p].want.id) = {}
             /\ \A o \in Requests \ {p} : call[o] # NoCall => call[o].want.id # call[p].want.id
    BY DEF SalesInv, NumbersInv
  <2>2. Now \in Nat /\ \A p \in Requests : call[p] # NoCall => call[p].want.id \in Nat
    BY <1>2, <1>3, JobFacts, IdsFacts
  <2>3. job.want.id < Now' /\ job.want.id \in Nat
    <3>1. job.want.id \in Ids /\ job.want.id \in Nat
      BY <1>3, IdsFacts
    <3>2. job.want.id = Now \/ Numbered(job.want.id)
      OBVIOUS
    <3>3. job.want.id = Now \/ job.want.id < Now
      BY <2>1, <3>1, <3>2
    <3>. QED  BY <1>3, <2>2, <3>1, <3>3
  <2>4. Inserts(job) => ~Numbered(job.want.id) /\ Trail(timeline, job.want.id) = {}
    BY <1>3, <2>1, <2>2
  <2>5. \A i \in Ids : Numbered(i) \/ Trail(timeline, i) # {} => i < Now'
    <3>. SUFFICES ASSUME NEW i \in Ids, Numbered(i) \/ Trail(timeline, i) # {} PROVE i < Now'
      OBVIOUS
    <3>1. i \in Nat /\ i < Now
      BY <2>1, IdsFacts
    <3>. QED  BY <1>3, <2>2, <3>1
  <2>6. \A p \in Requests : call'[p] # NoCall => call'[p].want.id < Now'
    BY <1>3, <2>1, <2>2, <2>3
  <2>7. ASSUME NEW p \in Requests, call'[p] # NoCall, Inserts(call'[p])
        PROVE  /\ ~Numbered(call'[p].want.id) /\ Trail(timeline, call'[p].want.id) = {}
               /\ \A o \in Requests \ {p} : call'[o] # NoCall => call'[o].want.id # call'[p].want.id
    <3>1. CASE p = q
      BY <1>3, <2>1, <2>2, <2>4, <2>7, <3>1
    <3>2. CASE p # q
      BY <1>3, <2>1, <2>2, <2>7, <3>2
    <3>. QED  BY <3>1, <3>2
  <2>. QED  BY <1>1, <1>4, <2>5, <2>6, <2>7 DEF NumbersInv, Trail, Inserts
<1>7. SharedInv'
  <2>1. \A p \in Requests \ {q} : call[p] # NoCall /\ call[p].row.id = job.row.id => job.row.id \in crossed'
    BY <1>1
  <2>2. crossed \subseteq crossed'
    BY <1>1
  <2>. QED  BY <1>3, <2>1, <2>2 DEF SalesInv, SharedInv
<1>8. AloneInv'
  <2>1. /\ \A r \in deals : job.op = "update" /\ job.table = "deals" /\ r.id = job.row.id => r = job.row
        /\ \A r \in tasks : job.op = "update" /\ job.table = "tasks" /\ r.id = job.row.id => r = job.row
    BY DEF SalesInv, SalesTypeOK
  <2>2. crossed \subseteq crossed'
    BY <1>1
  <2>. QED  BY <1>1, <1>3, <2>1, <2>2 DEF SalesInv, AloneInv
<1>9. DefaultInv'
  <2>1. 0 \notin crossed' => 0 \notin crossed
    BY <1>1
  <2>2. \A p \in Requests : call'[p].op = "pipeline" /\ call'[p].want.default =>
          p # q \/ (job.op = "pipeline" /\ job.want.default)
    BY <1>3
  <2>. QED  BY <1>1, <1>3, <2>1, <2>2 DEF SalesInv, DefaultInv
<1>10. PathsInv'
  BY <1>1 DEF SalesInv, PathsInv, PathTo, Trail
<1>. QED  BY <1>5, <1>6, <1>7, <1>8, <1>9, <1>10 DEF SalesInv
-----------------------------------------------------------------------------
(***************************************************************************)
(* The requests.                                                           *)
(***************************************************************************)
LEMMA RowTypes ==
  ASSUME SalesInv, calls < MaxCalls
  PROVE  /\ Now \in Ids
         /\ pipelines \subseteq PipelineRow /\ deals \subseteq DealRow /\ products \subseteq ProductRow
         /\ lines \subseteq LineRow /\ tasks \subseteq TaskRow
         /\ AnyStage \subseteq StagePair
<1>1. /\ pipelines \subseteq PipelineRow /\ deals \subseteq DealRow /\ products \subseteq ProductRow
      /\ lines \subseteq LineRow /\ tasks \subseteq TaskRow /\ calls \in 0..MaxCalls
  BY DEF SalesInv, SalesTypeOK, PipelineRow, DealRow, ProductRow, LineRow, TaskRow
<1>2. Now \in Ids
  BY <1>1, SalesAssumption DEF Now, Ids
<1>3. AnyStage \subseteq StagePair
  BY <1>1 DEF AnyStage, StagesOf, StagePair, PipelineRow
<1>. QED  BY <1>1, <1>2, <1>3

\* A request that inserts a row of a table other than deals.
LEMMA InsertBegins ==
  ASSUME SalesInv, NEW q \in Requests, NEW job, NEW row, NEW name \in {"products", "lines", "tasks"},
         call[q] = NoCall, calls < MaxCalls, Begin(q, job),
         job = Inserting(name, row) \/ (name = "lines" /\ job = [Inserting(name, row) EXCEPT !.op = "insert and tell"]),
         TypedRow(name, row), row.id = Now
  PROVE  SalesInv'
<1>1. Now \in Ids
  BY RowTypes
<1>2. /\ job.op \in {"insert", "insert and tell"} /\ job.table = name /\ job.row = row /\ job.want = row
      /\ DOMAIN job = {"op", "table", "row", "want", "events"}
      /\ job.events = <<>> /\ (job.op = "insert and tell" => name = "lines")
  <2>1. CASE job = Inserting(name, row)
    BY <2>1 DEF Inserting
  <2>2. CASE name = "lines" /\ job = [Inserting(name, row) EXCEPT !.op = "insert and tell"]
    BY <2>2 DEF Inserting
  <2>. QED  BY <2>1, <2>2
<1>3. JobOK(job)
  BY <1>1, <1>2 DEF JobOK, RowJob, EventsOf, Inserts
<1>. HIDE DEF Now
<1>. QED  BY <1>2, <1>3, BeginKeeps DEF Inserts

\* A request that updates a row, of a deal without its stage.
LEMMA UpdateBegins ==
  ASSUME SalesInv, NEW q \in Requests, NEW row, NEW want, NEW name \in {"deals", "products", "lines", "tasks"},
         call[q] = NoCall, calls < MaxCalls, Begin(q, Updating(name, row, want)),
         TypedRow(name, row), TypedRow(name, want), row.id \in Ids, want.id = row.id, Numbered(row.id),
         name = "deals" => row \in deals /\ want.stage = row.stage,
         name = "tasks" => row \in tasks,
         name = "tasks" /\ row.completed # Nil => want.completed = row.completed
  PROVE  SalesInv'
<1>. DEFINE job == Updating(name, row, want)
<1>2. /\ job.op = "update" /\ job.table = name /\ job.row = row /\ job.want = want
      /\ job.events = <<>> /\ DOMAIN job = {"op", "table", "row", "want", "events"}
  BY DEF Updating
<1>. HIDE DEF job
<1>3. JobOK(job)
  BY <1>2 DEF JobOK, RowJob, EventsOf, Inserts
<1>4. Begin(q, job)
  BY DEF job
<1>. QED  BY <1>2, <1>3, <1>4, BeginKeeps DEF Inserts

LEMMA RemoveBegins ==
  ASSUME SalesInv, NEW q \in Requests, NEW row, NEW name \in {"pipelines", "deals", "lines", "tasks"},
         call[q] = NoCall, calls < MaxCalls, Begin(q, Removing(name, row)),
         TypedRow(name, row), row.id \in Ids, Numbered(row.id)
  PROVE  SalesInv'
<1>. DEFINE job == Removing(name, row)
<1>2. /\ job.op = "remove" /\ job.table = name /\ job.row = row /\ job.want = row
      /\ job.events = <<>> /\ DOMAIN job = {"op", "table", "row", "want", "events"}
  BY DEF Removing
<1>. HIDE DEF job
<1>3. JobOK(job)
  BY <1>2 DEF JobOK, RowJob, EventsOf, Inserts
<1>4. Begin(q, job)
  BY DEF job
<1>. QED  BY <1>2, <1>3, <1>4, BeginKeeps DEF Inserts

\* A request that moves a deal, or makes one, tells it.
LEMMA DealBegins ==
  ASSUME SalesInv, NEW q \in Requests, NEW job, NEW e \in TimelineEvent,
         call[q] = NoCall, calls < MaxCalls, Begin(q, job),
         DOMAIN job = {"op", "table", "row", "want", "events"},
         job.op \in {"insert", "update"}, job.table = "deals", job.row \in DealRow, job.want \in DealRow,
         job.want.id = job.row.id, job.events = <<e>>, e.id = job.row.id, e.type # "line_item_added",
         e.to = job.want.stage,
         IF job.op = "insert" THEN job.row.id = Now /\ job.want = job.row
                              ELSE job.row \in deals /\ e.from = job.row.stage
  PROVE  SalesInv'
<1>1. JobOK(job)
  BY DEF JobOK, RowJob, EventsOf, Inserts, TypedRow, DealRow
<1>2. job.op = "update" => Numbered(job.want.id)
  BY DEF Numbered
<1>3. IF Inserts(job) THEN job.want.id = Now ELSE Numbered(job.want.id)
  BY <1>2 DEF Inserts
<1>. QED  BY <1>1, <1>3, BeginKeeps

LEMMA Smallest ==
  ASSUME NEW S, S \subseteq Nat, S # {}
  PROVE  \E x \in S : \A y \in S : x <= y
<1>. DEFINE R == {x \in Nat \X Nat : x[1] < x[2]}
<1>1. IsWellFoundedOn(R, Nat)
  BY NatLessThanWellFounded DEF OpToRel
<1>2. PICK x \in S : \A y \in S : <<y, x>> \notin R
  BY <1>1, WFMin
<1>3. ASSUME NEW y \in S PROVE x <= y
  <2>1. <<y, x>> \notin R /\ x \in Nat /\ y \in Nat
    BY <1>2
  <2>2. ~(y < x)
    BY <2>1
  <2>. QED  BY <2>1, <2>2
<1>. QED  BY <1>3

\* The pipeline a deal is made in.
LEMMA ADefault ==
  ASSUME SalesInv, pipelines # {}
  PROVE  DefaultPipeline \in pipelines
<1>. DEFINE flagged == {p \in pipelines : p.default}
<1>1. \A p \in pipelines : p.id \in Nat
  BY IdsFacts DEF SalesInv, SalesTypeOK
<1>2. ASSUME NEW S \in SUBSET pipelines, S # {} PROVE \E p \in S : \A o \in S : o.id >= p.id
  <2>. DEFINE numbers == {p.id : p \in S}
  <2>1. numbers \subseteq Nat /\ numbers # {}
    BY <1>1, <1>2
  <2>. HIDE DEF numbers
  <2>2. PICK n \in numbers : \A m \in numbers : n <= m
    BY <2>1, Smallest
  <2>3. PICK p \in S : p.id = n
    BY DEF numbers
  <2>4. \A o \in S : o.id \in numbers
    BY DEF numbers
  <2>. QED  BY <1>1, <2>2, <2>3, <2>4
<1>3. DefaultPipelines \in SUBSET pipelines /\ DefaultPipelines # {}
  <2>1. PICK p \in pipelines : \A o \in pipelines : o.id >= p.id
    BY <1>2
  <2>. QED  BY <2>1 DEF DefaultPipelines
<1>4. \E p \in DefaultPipelines : \A o \in DefaultPipelines : o.id >= p.id
  BY <1>2, <1>3
<1>5. DefaultPipeline \in DefaultPipelines
  BY <1>4 DEF DefaultPipeline
<1>. QED  BY <1>3, <1>5

LEMMA PipelineBegins ==
  ASSUME SalesInv, NEW q \in Requests, call[q] = NoCall, calls < MaxCalls,
         NEW default \in BOOLEAN, NEW s \in SUBSET DOMAIN Stages, CreatePipeline(q, default, s)
  PROVE  SalesInv'
<1>. DEFINE p == [id |-> Now, default |-> default, stages |-> s]
            job == [op |-> "pipeline", row |-> [id |-> IF default THEN 0 ELSE Now], want |-> p,
                    clear |-> Cleared(p)]
<1>1. Now \in Ids
  BY RowTypes
<1>2. Begin(q, job)
  BY DEF CreatePipeline
<1>3. p \in PipelineRow /\ p.id = Now /\ p.default = default
  BY <1>1 DEF PipelineRow
<1>4. job.op = "pipeline" /\ job.row.id = (IF default THEN 0 ELSE Now) /\ job.want = p /\ job.clear = Cleared(p)
  OBVIOUS
<1>5. Cleared(p) = IF default THEN {o \in pipelines : o.default} ELSE {}
  BY <1>3 DEF Cleared
<1>. HIDE DEF p, job
<1>6. JobOK(job)
  BY <1>3, <1>4, <1>5 DEF JobOK, PipelineJob
<1>. QED  BY <1>2, <1>3, <1>4, <1>5, <1>6, BeginKeeps DEF Inserts

LEMMA CreateDealKeeps ==
  ASSUME SalesInv, NEW q \in Requests, call[q] = NoCall, calls < MaxCalls,
         NEW stage \in AnyStage \cup {Nil}, NEW status \in Statuses, CreateDeal(q, stage, status)
  PROVE  SalesInv'
<1>. DEFINE p == DefaultPipeline
            first == IF stage = Nil THEN <<p.id, Min(p.stages)>> ELSE stage
            d == [id |-> Now, pipeline |-> p.id, stage |-> first, status |-> status, closed |-> Nil,
                  due |-> Nil, deleted |-> FALSE]
            e == [type |-> "created", id |-> d.id, from |-> Nil, to |-> first]
            job == [Inserting("deals", d) EXCEPT !.events = <<e>>]
<1>1. /\ pipelines # {} /\ (stage = Nil => p.stages # {}) /\ Begin(q, job)
  BY DEF CreateDeal
<1>2. p \in PipelineRow /\ Now \in Ids /\ AnyStage \subseteq StagePair
  BY <1>1, ADefault, RowTypes
<1>3. first \in StagePair
  <2>1. p.stages # {} => Min(p.stages) \in p.stages
    <3>1. p.stages \subseteq Nat
      BY <1>2, SalesAssumption DEF PipelineRow
    <3>2. p.stages # {} => \E x \in p.stages : \A y \in p.stages : x <= y
      BY <3>1, Smallest
    <3>. QED  BY <3>2 DEF Min
  <2>2. p.id \in Ids /\ p.stages \subseteq DOMAIN Stages
    BY <1>2 DEF PipelineRow
  <2>. HIDE DEF p
  <2>. QED  BY <1>1, <1>2, <2>1, <2>2 DEF StagePair
<1>4. p.id \in Ids
  BY <1>2 DEF PipelineRow
<1>. HIDE DEF p, first
<1>5. d \in DealRow /\ d.id = Now /\ d.stage = first
  BY <1>2, <1>3, <1>4 DEF DealRow, StagePair
<1>6. e \in TimelineEvent /\ e.id = Now /\ e.type = "created" /\ e.to = first
  BY <1>2, <1>3, <1>5 DEF TimelineEvent
<1>. HIDE DEF d, e
<1>7. job.op = "insert" /\ job.table = "deals" /\ job.row = d /\ job.want = d /\ job.events = <<e>>
      /\ DOMAIN job = {"op", "table", "row", "want", "events"}
  BY DEF Inserting
<1>. HIDE DEF job
<1>. QED  BY <1>1, <1>5, <1>6, <1>7, DealBegins

LEMMA MoveDealStageKeeps ==
  ASSUME SalesInv, NEW q \in Requests, call[q] = NoCall, calls < MaxCalls,
         NEW d \in deals, NEW stage \in AnyStage, MoveDealStage(q, d, stage)
  PROVE  SalesInv'
<1>. DEFINE s == Stages[stage[2]]
            status == IF s.won THEN "won" ELSE IF s.lost THEN "lost" ELSE d.status
            closed == IF s.won \/ s.lost THEN Now ELSE d.closed
            want == [d EXCEPT !.stage = stage, !.status = status, !.closed = closed]
            e == [type |-> "stage_changed", id |-> d.id, from |-> d.stage, to |-> stage]
            job == [Updating("deals", d, want) EXCEPT !.events = <<e>>]
<1>1. Begin(q, job)
  BY DEF MoveDealStage
<1>2. d \in DealRow /\ Now \in Ids /\ stage \in StagePair
  BY RowTypes
<1>3. status \in Statuses /\ closed \in {Nil} \cup Ids /\ d.id \in Ids /\ d.stage \in StagePair
  BY <1>2 DEF Statuses, DealRow, StagePair
<1>. HIDE DEF s, status, closed
<1>4. want \in DealRow /\ want.id = d.id /\ want.stage = stage
  BY <1>2, <1>3 DEF DealRow, StagePair
<1>5. e \in TimelineEvent /\ e.id = d.id /\ e.type = "stage_changed" /\ e.to = stage /\ e.from = d.stage
  BY <1>2, <1>3 DEF TimelineEvent
<1>. HIDE DEF want, e
<1>6. job.op = "update" /\ job.table = "deals" /\ job.row = d /\ job.want = want /\ job.events = <<e>>
      /\ DOMAIN job = {"op", "table", "row", "want", "events"}
  BY DEF Updating
<1>. HIDE DEF job
<1>. QED  BY <1>1, <1>2, <1>4, <1>5, <1>6, DealBegins

LEMMA PatchStageKeeps ==
  ASSUME SalesInv, NEW q \in Requests, call[q] = NoCall, calls < MaxCalls,
         NEW d \in deals, NEW stage \in AnyStage, PatchStage(q, d, stage)
  PROVE  SalesInv'
<1>. DEFINE want == [d EXCEPT !.stage = stage]
            e == [type |-> "stage_changed", id |-> d.id, from |-> d.stage, to |-> stage]
            job == [Updating("deals", d, want) EXCEPT !.events = Moved(d, stage)]
<1>1. Begin(q, job)
  BY DEF PatchStage
<1>2. d \in DealRow /\ Now \in Ids /\ stage \in StagePair
  BY RowTypes
<1>3. d.id \in Ids /\ d.stage \in StagePair /\ Numbered(d.id)
  BY <1>2 DEF DealRow, StagePair, Numbered
<1>4. want \in DealRow /\ want.id = d.id /\ want.stage = stage
  BY <1>2, <1>3 DEF DealRow, StagePair
<1>5. e \in TimelineEvent /\ e.id = d.id /\ e.type = "stage_changed" /\ e.to = stage /\ e.from = d.stage
  BY <1>2, <1>3 DEF TimelineEvent
<1>6. Moved(d, stage) = IF stage = d.stage THEN <<>> ELSE <<e>>
  BY DEF Moved
<1>. HIDE DEF want, e
<1>7. job.op = "update" /\ job.table = "deals" /\ job.row = d /\ job.want = want /\ job.events = Moved(d, stage)
      /\ DOMAIN job = {"op", "table", "row", "want", "events"}
  BY DEF Updating
<1>8. CASE stage # d.stage
  <2>. HIDE DEF job
  <2>. QED  BY <1>1, <1>2, <1>4, <1>5, <1>6, <1>7, <1>8, DealBegins
<1>9. CASE stage = d.stage
  <2>1. job = Updating("deals", d, want)
    BY <1>6, <1>9 DEF Updating
  <2>2. Begin(q, Updating("deals", d, want))
    BY <1>1, <2>1
  <2>3. TypedRow("deals", d) /\ TypedRow("deals", want) /\ want.stage = d.stage
    BY <1>2, <1>4, <1>9 DEF TypedRow
  <2>. QED  BY <1>3, <1>4, <2>2, <2>3, UpdateBegins
<1>. QED  BY <1>8, <1>9

\* A status, a date or the flag of deletion, which leave a deal's stage.
LEMMA PatchDealKeeps ==
  ASSUME SalesInv, NEW q \in Requests, call[q] = NoCall, calls < MaxCalls, NEW d \in deals,
         \/ \E status \in Statuses : PatchStatus(q, d, status)
         \/ \E due \in Months : PatchDue(q, d, due)
         \/ \E hard \in BOOLEAN : DeleteDeal(q, d, hard)
  PROVE  SalesInv'
<1>1. d \in DealRow /\ d.id \in Ids /\ Now \in Ids /\ Numbered(d.id) /\ TypedRow("deals", d)
  BY RowTypes DEF DealRow, Numbered, TypedRow
<1>2. ASSUME NEW want \in DealRow, want.id = d.id, want.stage = d.stage,
             Begin(q, Updating("deals", d, want))
      PROVE  SalesInv'
  <2>1. TypedRow("deals", want)
    BY DEF TypedRow
  <2>. QED  BY <1>1, <1>2, <2>1, UpdateBegins
<1>3. ASSUME NEW status \in Statuses, PatchStatus(q, d, status) PROVE SalesInv'
  <2>. DEFINE want == [d EXCEPT !.status = status, !.closed = IF status \in {"won", "lost"} THEN Now ELSE @]
  <2>1. want \in DealRow /\ want.id = d.id /\ want.stage = d.stage
    BY <1>1 DEF DealRow
  <2>2. Begin(q, Updating("deals", d, want))
    BY <1>3 DEF PatchStatus
  <2>. HIDE DEF want
  <2>. QED  BY <1>2, <2>1, <2>2
<1>4. ASSUME NEW due \in Months, PatchDue(q, d, due) PROVE SalesInv'
  <2>. DEFINE want == [d EXCEPT !.due = due]
  <2>1. want \in DealRow /\ want.id = d.id /\ want.stage = d.stage
    BY <1>1 DEF DealRow
  <2>2. Begin(q, Updating("deals", d, want))
    BY <1>4 DEF PatchDue
  <2>. HIDE DEF want
  <2>. QED  BY <1>2, <2>1, <2>2
<1>5. ASSUME NEW hard \in BOOLEAN, DeleteDeal(q, d, hard) PROVE SalesInv'
  <2>. DEFINE want == [d EXCEPT !.deleted = TRUE]
  <2>1. want \in DealRow /\ want.id = d.id /\ want.stage = d.stage
    BY <1>1 DEF DealRow
  <2>2. CASE hard
    <3>1. Begin(q, Removing("deals", d))
      BY <1>5, <2>2 DEF DeleteDeal
    <3>. QED  BY <1>1, <3>1, RemoveBegins
  <2>3. CASE ~hard
    <3>1. Begin(q, Updating("deals", d, want))
      BY <1>5, <2>3 DEF DeleteDeal
    <3>. HIDE DEF want
    <3>. QED  BY <1>2, <2>1, <3>1
  <2>. QED  BY <2>2, <2>3
<1>. QED  BY <1>3, <1>4, <1>5

LEMMA LineRequestKeeps ==
  ASSUME SalesInv, NEW q \in Requests, call[q] = NoCall, calls < MaxCalls, LineRequest(q)
  PROVE  SalesInv'
<1>1. /\ Now \in Ids /\ products \subseteq ProductRow /\ lines \subseteq LineRow
      /\ \A d \in deals : d.id \in Ids
      /\ \A l \in lines : l.id \in Ids /\ Numbered(l.id) /\ TypedRow("lines", l)
  BY RowTypes DEF DealRow, LineRow, TypedRow, Numbered
<1>2. ASSUME NEW d \in deals, NEW p \in products \cup {Nil}, NEW x \in Prices \cup {Nil},
             NEW tool \in BOOLEAN, AddLine(q, d, p, x, tool)
      PROVE  SalesInv'
  <2>. DEFINE row == [id |-> Now, deal |-> d.id, price |-> Snapshot(p, x)]
              job == [Inserting("lines", row) EXCEPT !.op = IF tool THEN "insert and tell" ELSE @]
  <2>1. Begin(q, job)
    BY <1>2 DEF AddLine
  <2>2. Snapshot(p, x) \in Prices \cup {0}
    BY <1>1 DEF Snapshot, ProductRow
  <2>3. TypedRow("lines", row) /\ row.id = Now
    BY <1>1, <2>2 DEF TypedRow, LineRow
  <2>. HIDE DEF row
  <2>4. job = Inserting("lines", row) \/ job = [Inserting("lines", row) EXCEPT !.op = "insert and tell"]
    BY DEF Inserting
  <2>. HIDE DEF job
  <2>. QED  BY <2>1, <2>3, <2>4, InsertBegins
<1>3. ASSUME NEW l \in lines, NEW x \in Prices, PatchLine(q, l, x) PROVE SalesInv'
  <2>. DEFINE want == [l EXCEPT !.price = x]
  <2>1. TypedRow("lines", want) /\ want.id = l.id
    BY <1>1 DEF TypedRow, LineRow
  <2>2. Begin(q, Updating("lines", l, want))
    BY <1>3 DEF PatchLine
  <2>. HIDE DEF want
  <2>. QED  BY <1>1, <2>1, <2>2, UpdateBegins
<1>4. ASSUME NEW l \in lines, DeleteLine(q, l) PROVE SalesInv'
  BY <1>1, <1>4, RemoveBegins DEF DeleteLine
<1>. QED  BY <1>2, <1>3, <1>4 DEF LineRequest

LEMMA ProductRequestKeeps ==
  ASSUME SalesInv, NEW q \in Requests, call[q] = NoCall, calls < MaxCalls,
         \/ \E x \in Prices : CreateProduct(q, x) \/ \E p \in products : PatchProduct(q, p, x)
         \/ \E p \in products : DeleteProduct(q, p)
  PROVE  SalesInv'
<1>1. /\ Now \in Ids /\ products \subseteq ProductRow
      /\ \A p \in products : p.id \in Ids /\ Numbered(p.id) /\ TypedRow("products", p)
  BY RowTypes DEF ProductRow, TypedRow, Numbered
<1>2. ASSUME NEW x \in Prices, CreateProduct(q, x) PROVE SalesInv'
  <2>. DEFINE row == [id |-> Now, price |-> x, deleted |-> FALSE]
  <2>1. Begin(q, Inserting("products", row))
    BY <1>2 DEF CreateProduct
  <2>2. TypedRow("products", row) /\ row.id = Now
    BY <1>1 DEF TypedRow, ProductRow
  <2>. HIDE DEF row
  <2>. QED  BY <2>1, <2>2, InsertBegins
<1>3. ASSUME NEW p \in products, NEW want \in ProductRow, want.id = p.id,
             Begin(q, Updating("products", p, want))
      PROVE  SalesInv'
  <2>1. TypedRow("products", want)
    BY DEF TypedRow
  <2>. QED  BY <1>1, <1>3, <2>1, UpdateBegins
<1>4. ASSUME NEW x \in Prices, NEW p \in products, PatchProduct(q, p, x) PROVE SalesInv'
  <2>1. [p EXCEPT !.price = x] \in ProductRow /\ [p EXCEPT !.price = x].id = p.id
    BY <1>1 DEF ProductRow
  <2>. QED  BY <1>3, <1>4, <2>1 DEF PatchProduct
<1>5. ASSUME NEW p \in products, DeleteProduct(q, p) PROVE SalesInv'
  <2>1. [p EXCEPT !.deleted = TRUE] \in ProductRow /\ [p EXCEPT !.deleted = TRUE].id = p.id
    BY <1>1 DEF ProductRow
  <2>. QED  BY <1>3, <1>5, <2>1 DEF DeleteProduct
<1>. QED  BY <1>2, <1>4, <1>5

LEMMA TaskRequestKeeps ==
  ASSUME SalesInv, NEW q \in Requests, call[q] = NoCall, calls < MaxCalls,
         \/ \E s \in {"open", "done"} : CreateTask(q, s) \/ \E t \in tasks : PatchTask(q, t, s)
         \/ \E t \in tasks, hard \in BOOLEAN : DeleteTask(q, t, hard)
  PROVE  SalesInv'
<1>1. /\ Now \in Ids /\ tasks \subseteq TaskRow
      /\ \A t \in tasks : t.id \in Ids /\ Numbered(t.id) /\ TypedRow("tasks", t)
  BY RowTypes DEF TaskRow, TypedRow, Numbered
<1>2. ASSUME NEW s \in {"open", "done"}, CreateTask(q, s) PROVE SalesInv'
  <2>. DEFINE row == [id |-> Now, status |-> s, completed |-> Nil, deleted |-> FALSE]
  <2>1. Begin(q, Inserting("tasks", row))
    BY <1>2 DEF CreateTask
  <2>2. TypedRow("tasks", row) /\ row.id = Now
    BY <1>1 DEF TypedRow, TaskRow
  <2>. HIDE DEF row
  <2>. QED  BY <2>1, <2>2, InsertBegins
<1>3. ASSUME NEW t \in tasks, NEW want \in TaskRow, want.id = t.id,
             t.completed # Nil => want.completed = t.completed,
             Begin(q, Updating("tasks", t, want))
      PROVE  SalesInv'
  <2>1. TypedRow("tasks", want)
    BY DEF TypedRow
  <2>. QED  BY <1>1, <1>3, <2>1, UpdateBegins
<1>4. ASSUME NEW s \in {"open", "done"}, NEW t \in tasks, PatchTask(q, t, s) PROVE SalesInv'
  <2>. DEFINE want == [t EXCEPT !.status = s, !.completed = Completed(t, s)]
  <2>1. Completed(t, s) \in {Nil} \cup Ids /\ (t.completed # Nil => Completed(t, s) = t.completed)
    BY <1>1 DEF Completed, TaskRow
  <2>2. want \in TaskRow /\ want.id = t.id /\ want.completed = Completed(t, s)
    BY <1>1, <2>1 DEF TaskRow
  <2>3. Begin(q, Updating("tasks", t, want))
    BY <1>4 DEF PatchTask
  <2>. HIDE DEF want
  <2>. QED  BY <1>3, <2>1, <2>2, <2>3
<1>5. ASSUME NEW t \in tasks, NEW hard \in BOOLEAN, DeleteTask(q, t, hard) PROVE SalesInv'
  <2>. DEFINE want == [t EXCEPT !.deleted = TRUE]
  <2>1. want \in TaskRow /\ want.id = t.id /\ want.completed = t.completed
    BY <1>1 DEF TaskRow
  <2>2. CASE hard
    <3>1. Begin(q, Removing("tasks", t))
      BY <1>5, <2>2 DEF DeleteTask
    <3>. QED  BY <1>1, <3>1, RemoveBegins
  <2>3. CASE ~hard
    <3>1. Begin(q, Updating("tasks", t, want))
      BY <1>5, <2>3 DEF DeleteTask
    <3>. HIDE DEF want
    <3>. QED  BY <1>3, <2>1, <3>1
  <2>. QED  BY <2>2, <2>3
<1>. QED  BY <1>2, <1>4, <1>5

LEMMA RequestKeeps ==
  ASSUME SalesInv, NEW q \in Requests, call[q] = NoCall, calls < MaxCalls, Request(q)
  PROVE  SalesInv'
<1>1. ASSUME NEW default \in BOOLEAN, NEW s \in {{}, DOMAIN Stages}, CreatePipeline(q, default, s) PROVE SalesInv'
  BY <1>1, PipelineBegins
<1>2. ASSUME NEW p \in pipelines, DeletePipeline(q, p) PROVE SalesInv'
  <2>1. p.id \in Ids /\ Numbered(p.id) /\ TypedRow("pipelines", p)
    BY RowTypes DEF PipelineRow, Numbered, TypedRow
  <2>. QED  BY <1>2, <2>1, RemoveBegins DEF DeletePipeline
<1>3. ASSUME DealRequest(q) PROVE SalesInv'
  BY <1>3, CreateDealKeeps, PatchStageKeeps, MoveDealStageKeeps, PatchDealKeeps DEF DealRequest
<1>. QED  BY <1>1, <1>2, <1>3, LineRequestKeeps, ProductRequestKeeps, TaskRequestKeeps DEF Request
-----------------------------------------------------------------------------
(***************************************************************************)
(* The commits.                                                            *)
(***************************************************************************)
\* What any end of a request keeps, when it wrote rows and events of its own.
LEMMA EndKeeps ==
  ASSUME SalesInv, NEW q \in Requests, call[q] # NoCall,
         DOMAIN call' = Requests, \A p \in Requests \ {q} : call'[p] = call[p],
         \/ call'[q] = NoCall
         \/ call[q].op = "insert and tell" /\ call'[q] = [call[q] EXCEPT !.op = "tell"],
         timeline' \in Seq(TimelineEvent),
         \A i \in Ids : NumberedNext(i) => Numbered(i) \/ i = call[q].want.id,
         \A i \in Ids : Trail(timeline', i) # {} => Trail(timeline, i) # {} \/ i = call[q].want.id,
         \A r \in deals' : r \in deals \/ r.id = call[q].want.id,
         \A r \in tasks' : r \in tasks \/ r.id = call[q].want.id,
         UNCHANGED <<calls, crossed>>
  PROVE  CallsInv' /\ NumbersInv' /\ SharedInv' /\ AloneInv'
<1>1. /\ \A p \in Requests : call[p] # NoCall => JobOK(call[p]) /\ call[p].want.id \in Ids
      /\ JobOK(call[q]) /\ call[q].want.id \in Ids
  BY JobFacts DEF SalesInv, CallsInv
<1>2. \/ call'[q] = NoCall
      \/ /\ call'[q].op = "tell" /\ JobOK(call'[q]) /\ call'[q].row = call[q].row
         /\ call'[q].want = call[q].want /\ call'[q] # NoCall
  <2>1. CASE call[q].op = "insert and tell" /\ call'[q] = [call[q] EXCEPT !.op = "tell"]
    <3>. DEFINE job == call[q]
                told == [job EXCEPT !.op = "tell"]
    <3>1. RowJob(job) /\ job.op = "insert and tell"
      BY <1>1, <2>1 DEF JobOK, PipelineJob
    <3>. HIDE DEF job
    <3>2. /\ DOMAIN told = {"op", "table", "row", "want", "events"} /\ told.op = "tell"
          /\ told.table = job.table /\ told.row = job.row /\ told.want = job.want /\ told.events = job.events
      BY <3>1 DEF RowJob
    <3>3. RowJob(told)
      BY <3>1, <3>2 DEF RowJob, EventsOf, Inserts
    <3>4. JobOK(told)
      BY <3>3 DEF JobOK
    <3>. QED  BY <2>1, <3>2, <3>4, JobFacts DEF job
  <2>. QED  BY <2>1
<1>3. CallsInv'
  BY <1>1, <1>2 DEF SalesInv, CallsInv
<1>4. \A p \in Requests : call'[p] # NoCall =>
        /\ call[p] # NoCall /\ call'[p].want = call[p].want /\ call'[p].row = call[p].row
        /\ Inserts(call'[p]) => p # q /\ call'[p] = call[p]
        /\ call'[p].op = "update" => p # q /\ call'[p] = call[p]
  BY <1>2 DEF Inserts
<1>5. NumbersInv'
  <2>1. /\ \A i \in Ids : Numbered(i) \/ Trail(timeline, i) # {} => i < Now
        /\ \A p \in Requests : call[p] # NoCall => call[p].want.id < Now
        /\ \A p \in Requests : call[p] # NoCall /\ Inserts(call[p]) =>
             /\ ~Numbered(call[p].want.id) /\ Trail(timeline, call[p].want.id) = {}
             /\ \A o \in Requests \ {p} : call[o] # NoCall => call[o].want.id # call[p].want.id
    BY DEF SalesInv, NumbersInv
  <2>2. Now' = Now
    BY DEF Now
  <2>3. \A i \in Ids : NumberedNext(i) \/ Trail(timeline', i) # {} => i < Now
    BY <2>1
  <2>4. \A p \in Requests : call'[p] # NoCall => call'[p].want.id < Now
    BY <1>4, <2>1
  <2>5. ASSUME NEW p \in Requests, call'[p] # NoCall, Inserts(call'[p])
        PROVE  /\ ~NumberedNext(call'[p].want.id) /\ Trail(timeline', call'[p].want.id) = {}
               /\ \A o \in Requests \ {p} : call'[o] # NoCall => call'[o].want.id # call'[p].want.id
    <3>. DEFINE i == call[p].want.id
    <3>1. p # q /\ call'[p] = call[p] /\ i \in Ids /\ i # call[q].want.id
          /\ ~Numbered(i) /\ Trail(timeline, i) = {} /\ call[p] # NoCall /\ Inserts(call[p])
      <4>1. p # q /\ call'[p] = call[p]
        BY <1>4, <2>5
      <4>2. call[p] # NoCall /\ Inserts(call[p])
        BY <2>5, <4>1
      <4>3. ~Numbered(i) /\ Trail(timeline, i) = {}
        BY <2>1, <4>2
      <4>4. call[q].want.id # i
        BY <2>1, <4>1, <4>2
      <4>. QED  BY <1>1, <4>1, <4>2, <4>3, <4>4
    <3>2. ASSUME NEW o \in Requests \ {p}, call'[o] # NoCall PROVE call'[o].want.id # i
      <4>1. call[o] # NoCall /\ call'[o].want = call[o].want
        BY <1>4, <3>2
      <4>2. call[o].want.id # i
        BY <2>1, <3>1, <4>1
      <4>. QED  BY <4>1, <4>2
    <3>3. Trail(timeline', i) = {} /\ ~NumberedNext(i)
      BY <3>1
    <3>. QED  BY <3>1, <3>2, <3>3
  <2>6. \A i : Numbered(i)' <=> NumberedNext(i)
    BY DEF Numbered, NumberedNext
  <2>. QED  BY <1>1, <1>4, <2>2, <2>3, <2>4, <2>5, <2>6 DEF NumbersInv, Inserts, Trail, Numbered, NumberedNext
<1>6. SharedInv'
  <2>. SUFFICES ASSUME NEW p \in Requests, NEW o \in Requests, p # o, call'[p] # NoCall,
                       call'[o] # NoCall, call'[p].row.id = call'[o].row.id
                PROVE  call'[p].row.id \in crossed
    BY DEF SharedInv
  <2>1. /\ call[p] # NoCall /\ call'[p].row = call[p].row
        /\ call[o] # NoCall /\ call'[o].row = call[o].row
    BY <1>4
  <2>. QED  BY <2>1 DEF SalesInv, SharedInv
<1>7. AloneInv'
  <2>. SUFFICES ASSUME NEW p \in Requests, call'[p] # NoCall, call'[p].op = "update",
                       call'[p].row.id \notin crossed
                PROVE  /\ call'[p].table = "deals" => \A r \in deals' : r.id = call'[p].row.id => r = call'[p].row
                       /\ call'[p].table = "tasks" => \A r \in tasks' : r.id = call'[p].row.id => r = call'[p].row
    BY DEF AloneInv
  <2>1. p # q /\ call'[p] = call[p] /\ call[p] # NoCall /\ call[p].op = "update" /\ RowJob(call[p])
    BY <1>1, <1>4 DEF JobOK, PipelineJob
  <2>2. call[p].row.id # call[q].want.id
    <3>1. CASE Inserts(call[q])
      <4>1. call[p].want.id # call[q].want.id
        BY <2>1, <3>1 DEF SalesInv, NumbersInv
      <4>. QED  BY <2>1, <4>1 DEF RowJob
    <3>2. CASE ~Inserts(call[q])
      <4>1. RowJob(call[q])
        BY <1>1, <3>2 DEF JobOK, PipelineJob, Inserts
      <4>. QED  BY <2>1, <4>1 DEF SalesInv, SharedInv, RowJob
    <3>. QED  BY <3>1, <3>2
  <2>3. /\ call[p].table = "deals" => \A r \in deals : r.id = call[p].row.id => r = call[p].row
        /\ call[p].table = "tasks" => \A r \in tasks : r.id = call[p].row.id => r = call[p].row
    BY <2>1 DEF SalesInv, AloneInv
  <2>. QED  BY <2>1, <2>2, <2>3
<1>. QED  BY <1>3, <1>5, <1>6, <1>7

\* An event of another row leaves a trail as it is.
LEMMA PathOther ==
  ASSUME NEW tl \in Seq(TimelineEvent), NEW e \in TimelineEvent, NEW id, NEW stage,
         e.id # id \/ e.type = "line_item_added"
  PROVE  /\ Trail(Append(tl, e), id) = Trail(tl, id)
         /\ PathTo(tl, id, stage) => PathTo(Append(tl, e), id, stage)
<1>. DEFINE more == Append(tl, e)
<1>1. /\ DOMAIN tl = 1..Len(tl) /\ DOMAIN more = 1..(Len(tl) + 1) /\ Len(tl) \in Nat
      /\ more[Len(tl) + 1] = e /\ \A i \in 1..Len(tl) : more[i] = tl[i]
  OBVIOUS
<1>. HIDE DEF more
<1>2. Trail(more, id) = Trail(tl, id) /\ Trail(tl, id) \subseteq 1..Len(tl)
  BY <1>1 DEF Trail
<1>3. \A i \in Trail(tl, id) : more[i] = tl[i]
  BY <1>1, <1>2
<1>4. PathTo(tl, id, stage) => PathTo(more, id, stage)
  BY <1>2, <1>3 DEF PathTo
<1>. QED  BY <1>2, <1>4 DEF more

\* An event of the row goes on from where the trail is, or begins it.
LEMMA PathOn ==
  ASSUME NEW tl \in Seq(TimelineEvent), NEW e \in TimelineEvent, NEW id,
         e.id = id, e.type # "line_item_added", Trail(tl, id) = {} \/ PathTo(tl, id, e.from)
  PROVE  PathTo(Append(tl, e), id, e.to)
<1>. DEFINE more == Append(tl, e)
            n == Len(tl) + 1
<1>1. /\ DOMAIN tl = 1..Len(tl) /\ DOMAIN more = 1..n /\ Len(tl) \in Nat
      /\ more[n] = e /\ \A i \in 1..Len(tl) : more[i] = tl[i]
  OBVIOUS
<1>2. n \in Nat /\ \A i \in 1..Len(tl) : i < n /\ i \in Nat
  BY <1>1
<1>. HIDE DEF more
<1>3. Trail(more, id) = Trail(tl, id) \cup {n} /\ Trail(tl, id) \subseteq 1..Len(tl)
  BY <1>1 DEF Trail
<1>. HIDE DEF n
<1>4. n \in Trail(more, id) /\ more[n].to = e.to /\ \A j \in Trail(more, id) : j <= n
  BY <1>1, <1>2, <1>3
<1>5. ASSUME NEW i \in Trail(more, id), NEW j \in Trail(more, id), i < j,
             \A k \in Trail(more, id) : k <= i \/ j <= k
      PROVE  more[j].from = more[i].to
  <2>1. i \in Trail(tl, id) /\ PathTo(tl, id, e.from)
    BY <1>2, <1>3, <1>5
  <2>2. CASE j \in Trail(tl, id)
    <3>1. tl[j].from = tl[i].to
      BY <1>3, <1>5, <2>1, <2>2 DEF PathTo
    <3>. QED  BY <1>1, <1>3, <2>1, <2>2, <3>1
  <2>3. CASE j = n
    <3>1. PICK last \in Trail(tl, id) : tl[last].to = e.from /\ \A k \in Trail(tl, id) : k <= last
      BY <2>1 DEF PathTo
    <3>2. last \in Nat /\ i \in Nat /\ last < n /\ i <= last
      BY <1>2, <1>3, <2>1, <3>1
    <3>3. last <= i \/ n <= last
      BY <1>3, <1>5, <2>3
    <3>4. last = i
      BY <1>2, <3>2, <3>3
    <3>. QED  BY <1>1, <1>3, <2>1, <2>3, <3>1, <3>4
  <2>. QED  BY <1>3, <2>2, <2>3
<1>6. PathTo(more, id, e.to)
  BY <1>4, <1>5 DEF PathTo
<1>. QED  BY <1>6 DEF more

LEMMA EventIds ==
  ASSUME NEW tl \in Seq(TimelineEvent)
  PROVE  \A i \in DOMAIN tl : tl[i].id \in Ids
<1>1. \A i \in DOMAIN tl : tl[i] \in TimelineEvent
  OBVIOUS
<1>. QED  BY <1>1 DEF TimelineEvent

LEMMA AbandonKeeps ==
  ASSUME SalesInv, NEW q \in Requests, Abandon(q)
  PROVE  SalesInv'
<1>1. /\ call[q] # NoCall /\ call' = [call EXCEPT ![q] = NoCall] /\ DOMAIN call = Requests
      /\ UNCHANGED <<pipelines, deals, products, lines, tasks, timeline, calls, crossed>>
      /\ timeline \in Seq(TimelineEvent)
  BY DEF Abandon, tables, SalesInv, CallsInv
<1>2. DOMAIN call' = Requests /\ call'[q] = NoCall /\ \A p \in Requests \ {q} : call'[p] = call[p]
  BY <1>1
<1>3. \A i : NumberedNext(i) => Numbered(i)
  BY <1>1 DEF Numbered, NumberedNext
<1>4. CallsInv' /\ NumbersInv' /\ SharedInv' /\ AloneInv'
  BY <1>1, <1>2, <1>3, EndKeeps
<1>5. SalesTypeOK' /\ PathsInv'
  BY <1>1 DEF SalesInv, SalesTypeOK, PathsInv, PathTo, Trail
<1>6. DefaultInv'
  <2>1. \A p \in Requests : call'[p].op = "pipeline" => call'[p] = call[p]
    BY <1>2 DEF NoCall
  <2>. QED  BY <1>1, <2>1 DEF SalesInv, DefaultInv
<1>. QED  BY <1>4, <1>5, <1>6 DEF SalesInv

LEMMA TellLineKeeps ==
  ASSUME SalesInv, NEW q \in Requests, TellLine(q)
  PROVE  SalesInv'
<1>. DEFINE e == [type |-> "line_item_added", id |-> call[q].row.deal, from |-> Nil, to |-> call[q].row.id]
<1>1. /\ call[q].op = "tell" /\ timeline' = Append(timeline, e) /\ call' = [call EXCEPT ![q] = NoCall]
      /\ UNCHANGED <<pipelines, deals, products, lines, tasks, calls, crossed>>
      /\ timeline \in Seq(TimelineEvent) /\ DOMAIN call = Requests
      /\ call[q] = NoCall \/ JobOK(call[q])
  BY DEF TellLine, tables, SalesInv, CallsInv
<1>2. call[q] # NoCall /\ RowJob(call[q])
  BY <1>1 DEF NoCall, JobOK, PipelineJob
<1>3. call[q].row \in LineRow
  BY <1>1, <1>2 DEF RowJob, TypedRow
<1>4. e \in TimelineEvent /\ e.type = "line_item_added"
  BY <1>3 DEF TimelineEvent, LineRow
<1>. HIDE DEF e
<1>5. timeline' \in Seq(TimelineEvent) /\ \A id : Trail(timeline', id) = Trail(timeline, id)
  BY <1>1, <1>4, PathOther
<1>6. DOMAIN call' = Requests /\ call'[q] = NoCall /\ \A p \in Requests \ {q} : call'[p] = call[p]
  BY <1>1
<1>7. \A i : NumberedNext(i) => Numbered(i)
  BY <1>1 DEF Numbered, NumberedNext
<1>8. CallsInv' /\ NumbersInv' /\ SharedInv' /\ AloneInv'
  BY <1>1, <1>2, <1>5, <1>6, <1>7, EndKeeps
<1>9. SalesTypeOK'
  <2>1. \A i \in DOMAIN timeline' : timeline'[i].id \in Ids
    BY <1>5, EventIds
  <2>. QED  BY <1>1, <2>1 DEF SalesInv, SalesTypeOK
<1>10. PathsInv'
  <2>1. \A d \in deals : d.id \notin crossed => PathTo(timeline', d.id, d.stage)
    BY <1>1, <1>4, PathOther DEF SalesInv, PathsInv
  <2>. QED  BY <1>1, <2>1 DEF PathsInv, PathTo, Trail
<1>11. DefaultInv'
  <2>1. \A p \in Requests : call'[p].op = "pipeline" => call'[p] = call[p]
    BY <1>6 DEF NoCall
  <2>. QED  BY <1>1, <2>1 DEF SalesInv, DefaultInv
<1>. QED  BY <1>8, <1>9, <1>10, <1>11 DEF SalesInv

LEMMA PipelineCommits ==
  ASSUME SalesInv, NEW q \in Requests, CommitPipeline(q)
  PROVE  SalesInv'
<1>. DEFINE job == call[q]
            Clears(p) == \E o \in job.clear : o.id = p.id
            After(p) == IF Clears(p) THEN [p EXCEPT !.default = FALSE] ELSE p
            there == \A o \in job.clear : \E p \in pipelines : p.id = o.id
<1>1. /\ job.op = "pipeline" /\ call' = [call EXCEPT ![q] = NoCall] /\ DOMAIN call = Requests
      /\ pipelines' = IF there THEN {job.want} \cup {After(p) : p \in pipelines} ELSE pipelines
      /\ UNCHANGED <<deals, products, lines, tasks, timeline, calls, crossed>>
      /\ timeline \in Seq(TimelineEvent) /\ pipelines \subseteq PipelineRow
      /\ \A o, p \in pipelines : o.id = p.id => o = p
      /\ job = NoCall \/ JobOK(job)
  BY DEF CommitPipeline, SalesInv, CallsInv, SalesTypeOK, PipelineRow
<1>2. job # NoCall /\ PipelineJob(job) /\ Inserts(job) /\ job.want \in PipelineRow
  BY <1>1 DEF NoCall, JobOK, PipelineJob, RowJob, Inserts
<1>3. ~Numbered(job.want.id)
  BY <1>2 DEF SalesInv, NumbersInv
<1>4. \A p \in pipelines : p.id # job.want.id
  BY <1>3 DEF Numbered
<1>5. \A p \in pipelines : /\ After(p) \in PipelineRow /\ After(p).id = p.id
                           /\ After(p).default <=> p.default /\ ~Clears(p)
  <2>. SUFFICES ASSUME NEW p \in pipelines
                PROVE  /\ After(p) \in PipelineRow /\ After(p).id = p.id
                       /\ After(p).default <=> p.default /\ ~Clears(p)
    OBVIOUS
  <2>1. p \in PipelineRow
    BY <1>1
  <2>2. CASE Clears(p)
    <3>1. After(p) = [p EXCEPT !.default = FALSE]
      BY <2>2
    <3>. HIDE DEF After
    <3>. QED  BY <2>1, <2>2, <3>1 DEF PipelineRow
  <2>3. CASE ~Clears(p)
    <3>1. After(p) = p
      BY <2>3
    <3>. HIDE DEF After
    <3>. QED  BY <2>1, <2>3, <3>1
  <2>. QED  BY <2>2, <2>3
<1>. HIDE DEF After
<1>6. pipelines' \subseteq PipelineRow /\ \A o, p \in pipelines' : o.id = p.id => o = p
  BY <1>1, <1>2, <1>4, <1>5
<1>7. SalesTypeOK'
  BY <1>1, <1>6 DEF SalesInv, SalesTypeOK, PipelineRow
<1>8. DOMAIN call' = Requests /\ call'[q] = NoCall /\ \A p \in Requests \ {q} : call'[p] = call[p]
  BY <1>1
<1>9. ASSUME NEW i, NumberedNext(i) PROVE Numbered(i) \/ i = job.want.id
  <2>1. \A p \in pipelines' : p.id = job.want.id \/ \E o \in pipelines : o.id = p.id
    BY <1>1, <1>5
  <2>. QED  BY <1>1, <1>9, <2>1 DEF Numbered, NumberedNext
<1>10. CallsInv' /\ NumbersInv' /\ SharedInv' /\ AloneInv'
  BY <1>1, <1>2, <1>8, <1>9, EndKeeps
<1>11. PathsInv'
  BY <1>1 DEF SalesInv, PathsInv, PathTo, Trail
<1>12. DefaultInv'
  <2>. SUFFICES ASSUME 0 \notin crossed
                PROVE  /\ \A o, p \in pipelines' : o.default /\ p.default => o = p
                       /\ \A r \in Requests : call'[r].op = "pipeline" /\ call'[r].want.default =>
                            \A p \in pipelines' : p.default => \E o \in call'[r].clear : o.id = p.id
    BY <1>1 DEF DefaultInv
  <2>1. /\ \A o, p \in pipelines : o.default /\ p.default => o = p
        /\ \A r \in Requests : call[r].op = "pipeline" /\ call[r].want.default =>
             \A p \in pipelines : p.default => \E o \in call[r].clear : o.id = p.id
    BY DEF SalesInv, DefaultInv
  <2>2. ASSUME NEW r \in Requests, call'[r].op = "pipeline", call'[r].want.default
        PROVE  call'[r] = call[r] /\ r # q /\ ~job.want.default
    <3>1. r # q /\ call'[r] = call[r] /\ call[r] # NoCall
      BY <1>8, <2>2 DEF NoCall
    <3>2. call[r].row.id = 0
      BY <2>2, <3>1 DEF SalesInv, CallsInv, JobOK, PipelineJob, RowJob
    <3>3. job.want.default => job.row.id = 0
      BY <1>2 DEF PipelineJob
    <3>. QED  BY <1>2, <3>1, <3>2, <3>3 DEF SalesInv, SharedInv
  <2>3. CASE ~there
    BY <1>1, <2>1, <2>2, <2>3
  <2>4. CASE there /\ job.want.default
    <3>1. \A p \in pipelines : ~After(p).default
      BY <1>1, <1>5, <2>1, <2>4
    <3>. QED  BY <1>1, <2>2, <2>4, <3>1
  <2>5. CASE there /\ ~job.want.default
    <3>1. job.clear = {}
      BY <1>2, <2>5 DEF PipelineJob
    <3>2. \A p \in pipelines : After(p) = p
      BY <3>1 DEF After
    <3>3. pipelines' = {job.want} \cup pipelines
      BY <1>1, <2>5, <3>2
    <3>. QED  BY <2>1, <2>2, <2>5, <3>3
  <2>. QED  BY <2>3, <2>4, <2>5
<1>. QED  BY <1>7, <1>10, <1>11, <1>12 DEF SalesInv

\* What the event of a commit makes of the trails.
LEMMA EventTold ==
  ASSUME NEW tl \in Seq(TimelineEvent), NEW job, RowJob(job)
  PROVE  /\ tl \o job.events \in Seq(TimelineEvent)
         /\ \A id : id # job.row.id =>
              /\ Trail(tl \o job.events, id) = Trail(tl, id)
              /\ \A stage : PathTo(tl, id, stage) => PathTo(tl \o job.events, id, stage)
         /\ job.table = "deals" /\ Inserts(job) /\ Trail(tl, job.row.id) = {}
              => PathTo(tl \o job.events, job.row.id, job.want.stage)
         /\ job.table = "deals" /\ job.op = "update" /\ PathTo(tl, job.row.id, job.row.stage)
              => PathTo(tl \o job.events, job.row.id, job.want.stage)
<1>1. CASE job.events = <<>>
  <2>1. tl \o job.events = tl
    BY <1>1
  <2>2. job.table = "deals" => ~Inserts(job) /\ job.want.stage = job.row.stage
    <3>1. \A e \in TimelineEvent : Len(<<e>>) = 1 /\ Len(<<>>) = 0
      OBVIOUS
    <3>2. \A e \in TimelineEvent : job.events # <<e>>
      BY <1>1, <3>1
    <3>. QED  BY <3>2 DEF RowJob, EventsOf
  <2>. QED  BY <2>1, <2>2
<1>2. CASE job.events # <<>>
  <2>1. PICK e \in TimelineEvent :
          /\ job.events = <<e>> /\ e.id = job.row.id /\ e.type # "line_item_added"
          /\ e.to = job.want.stage
          /\ job.op = "update" => e.from = job.row.stage
    BY <1>2 DEF RowJob, EventsOf
  <2>2. tl \o job.events = Append(tl, e) /\ Append(tl, e) \in Seq(TimelineEvent)
    BY <2>1
  <2>. HIDE DEF Trail
  <2>3. \A id : id # job.row.id =>
              /\ Trail(Append(tl, e), id) = Trail(tl, id)
              /\ \A stage : PathTo(tl, id, stage) => PathTo(Append(tl, e), id, stage)
    BY <2>1, PathOther
  <2>4. Trail(tl, job.row.id) = {} \/ PathTo(tl, job.row.id, e.from)
          => PathTo(Append(tl, e), job.row.id, job.want.stage)
    BY <2>1, PathOn
  <2>. QED  BY <2>1, <2>2, <2>3, <2>4
<1>. QED  BY <1>1, <1>2

LEMMA DefaultKept ==
  ASSUME SalesInv, NEW q \in Requests, \A p \in Requests \ {q} : call'[p] = call[p],
         call'[q].op # "pipeline", pipelines' \subseteq pipelines, crossed' = crossed
  PROVE  DefaultInv'
<1>1. \A p \in Requests : call'[p].op = "pipeline" => call'[p] = call[p]
  OBVIOUS
<1>. QED  BY <1>1 DEF SalesInv, DefaultInv

\* The facts of a request about a row.
LEMMA RowCall ==
  ASSUME SalesInv, NEW q \in Requests, call[q].op \in {"insert", "insert and tell", "update", "remove"}
  PROVE  /\ call[q] # NoCall /\ RowJob(call[q]) /\ DOMAIN call = Requests
         /\ timeline \in Seq(TimelineEvent)
         /\ call[q].op \in {"insert", "insert and tell"} =>
              ~Numbered(call[q].row.id) /\ Trail(timeline, call[q].row.id) = {}
<1>1. call[q] # NoCall /\ RowJob(call[q]) /\ DOMAIN call = Requests /\ timeline \in Seq(TimelineEvent)
  <2>1. NoCall.op = "idle"
    BY DEF NoCall
  <2>2. call[q] # NoCall /\ call[q].op # "pipeline"
    <3>1. call[q].op # "idle" /\ call[q].op # "pipeline"
      OBVIOUS
    <3>. QED  BY <2>1, <3>1
  <2>3. JobOK(call[q]) /\ DOMAIN call = Requests /\ timeline \in Seq(TimelineEvent)
    BY <2>2 DEF SalesInv, CallsInv
  <2>. QED  BY <2>2, <2>3 DEF JobOK, PipelineJob
<1>2. call[q].want.id = call[q].row.id
  BY <1>1 DEF RowJob
<1>. QED  BY <1>1, <1>2 DEF SalesInv, NumbersInv, Inserts

LEMMA InsertCommits ==
  ASSUME SalesInv, NEW q \in Requests, CommitInsert(q)
  PROVE  SalesInv'
<1>. DEFINE job == call[q]
            name == job.table
            row == job.row
<1>1. /\ job.op \in {"insert", "insert and tell"} /\ UNCHANGED <<pipelines, calls, crossed>>
      /\ IF References(job)
           THEN /\ Becomes(name, Table(name) \cup {row})
                /\ lines' = IF name = "lines" THEN lines \cup {row} ELSE lines
                /\ timeline' = timeline \o job.events
                /\ call' = [call EXCEPT ![q] = IF job.op = "insert" THEN NoCall ELSE [job EXCEPT !.op = "tell"]]
           ELSE /\ call' = [call EXCEPT ![q] = NoCall]
                /\ UNCHANGED <<deals, products, lines, tasks, timeline>>
  BY DEF CommitInsert
<1>2. /\ job # NoCall /\ RowJob(job) /\ DOMAIN call = Requests /\ timeline \in Seq(TimelineEvent)
      /\ ~Numbered(row.id) /\ Trail(timeline, row.id) = {}
  BY <1>1, RowCall
<1>3. /\ name \in {"deals", "products", "lines", "tasks"} /\ TypedRow(name, row) /\ row.id \in Ids
      /\ job.want = row /\ Inserts(job) /\ DOMAIN job = {"op", "table", "row", "want", "events"}
  BY <1>1, <1>2 DEF RowJob, Inserts
<1>4. CASE ~References(job)
  BY <1>1, <1>2, <1>4, AbandonKeeps DEF Abandon, tables
<1>5. CASE References(job)
  <2>1. /\ deals' = IF name = "deals" THEN deals \cup {row} ELSE deals
        /\ products' = IF name = "products" THEN products \cup {row} ELSE products
        /\ lines' = IF name = "lines" THEN lines \cup {row} ELSE lines
        /\ tasks' = IF name = "tasks" THEN tasks \cup {row} ELSE tasks
        /\ pipelines' = pipelines /\ timeline' = timeline \o job.events
    BY <1>1, <1>3, <1>5 DEF Becomes, Table
  <2>2. /\ DOMAIN call' = Requests /\ \A p \in Requests \ {q} : call'[p] = call[p]
        /\ \/ call'[q] = NoCall
           \/ job.op = "insert and tell" /\ call'[q] = [job EXCEPT !.op = "tell"]
    BY <1>1, <1>2, <1>5
  <2>3. call'[q].op # "pipeline"
    <3>1. [job EXCEPT !.op = "tell"].op = "tell"
      BY <1>3
    <3>2. NoCall.op = "idle"
      BY DEF NoCall
    <3>3. CASE call'[q] = NoCall
      BY <3>2, <3>3
    <3>4. CASE call'[q] = [job EXCEPT !.op = "tell"]
      BY <3>1, <3>4
    <3>. QED  BY <2>2, <3>3, <3>4
  <2>. HIDE DEF job, name, row
  <2>4. \A i : NumberedNext(i) => Numbered(i) \/ i = row.id
    BY <1>3, <2>1 DEF Numbered, NumberedNext
  <2>5. /\ timeline' \in Seq(TimelineEvent)
        /\ \A id : id # row.id => /\ Trail(timeline', id) = Trail(timeline, id)
                                  /\ \A stage : PathTo(timeline, id, stage) => PathTo(timeline', id, stage)
        /\ name = "deals" => PathTo(timeline', row.id, row.stage)
    BY <1>2, <1>3, <2>1, EventTold DEF row, name
  <2>6. SalesTypeOK'
    <3>1. /\ \A r \in deals : r.id # row.id
          /\ \A r \in products : r.id # row.id
          /\ \A r \in lines : r.id # row.id
          /\ \A r \in tasks : r.id # row.id
      BY <1>2 DEF Numbered
    <3>2. deals' \subseteq DealRow /\ products' \subseteq ProductRow /\ lines' \subseteq LineRow /\ tasks' \subseteq TaskRow
      BY <1>3, <2>1 DEF TypedRow, SalesInv, SalesTypeOK, DealRow, ProductRow, LineRow, TaskRow
    <3>3. /\ \A r, s \in deals' : r.id = s.id => r = s
          /\ \A r, s \in products' : r.id = s.id => r = s
          /\ \A r, s \in lines' : r.id = s.id => r = s
          /\ \A r, s \in tasks' : r.id = s.id => r = s
      BY <2>1, <3>1 DEF SalesInv, SalesTypeOK
    <3>4. \A i \in DOMAIN timeline' : timeline'[i].id \in Ids
      BY <2>5, EventIds
    <3>. QED  BY <1>1, <2>1, <3>2, <3>3, <3>4 DEF SalesInv, SalesTypeOK, DealRow, ProductRow, LineRow, TaskRow
  <2>7. CallsInv' /\ NumbersInv' /\ SharedInv' /\ AloneInv'
    <3>1. job.want.id = row.id /\ UNCHANGED <<calls, crossed>>
      BY <1>1, <1>3
    <3>2. /\ \A r \in deals' : r \in deals \/ r.id = row.id
          /\ \A r \in tasks' : r \in tasks \/ r.id = row.id
          /\ \A i \in Ids : Trail(timeline', i) # {} => Trail(timeline, i) # {} \/ i = row.id
      BY <2>1, <2>5
    <3>. QED  BY <1>2, <2>2, <2>4, <2>5, <3>1, <3>2, EndKeeps DEF job
  <2>8. PathsInv'
    <3>1. \A d \in deals' : d.id \notin crossed => PathTo(timeline', d.id, d.stage)
      <4>1. \A d \in deals : d.id # row.id
        BY <1>2 DEF Numbered
      <4>. QED  BY <2>1, <2>5, <4>1 DEF SalesInv, PathsInv
    <3>. QED  BY <1>1, <3>1 DEF PathsInv, PathTo, Trail
  <2>9. DefaultInv'
    BY <1>1, <2>1, <2>2, <2>3, DefaultKept
  <2>. QED  BY <2>6, <2>7, <2>8, <2>9 DEF SalesInv
<1>. QED  BY <1>4, <1>5

\* A row as the UPDATE of a request leaves it.
Merged(r, job) == [c \in DOMAIN r |-> IF job.want[c] # job.row[c] THEN job.want[c] ELSE r[c]]

LEMMA MergedRow ==
  ASSUME NEW name \in {"deals", "products", "lines", "tasks"}, NEW job, NEW r,
         TypedRow(name, r), TypedRow(name, job.row), TypedRow(name, job.want), job.want.id = job.row.id
  PROVE  /\ TypedRow(name, Merged(r, job)) /\ Merged(r, job).id = r.id
         /\ name = "deals" => Merged(r, job).stage =
              IF job.want.stage # job.row.stage THEN job.want.stage ELSE r.stage
         /\ name = "tasks" => Merged(r, job).completed =
              IF job.want.completed # job.row.completed THEN job.want.completed ELSE r.completed
<1>. DEFINE row == job.row
            want == job.want
<1>1. CASE name = "deals"
  <2>1. r \in DealRow /\ row \in DealRow /\ want \in DealRow
    BY <1>1 DEF TypedRow
  <2>2. DOMAIN r = {"id", "pipeline", "stage", "status", "closed", "due", "deleted"}
    BY <2>1 DEF DealRow
  <2>3. Merged(r, job) \in DealRow
    BY <2>1, <2>2 DEF Merged, DealRow
  <2>. QED  BY <1>1, <2>1, <2>2, <2>3 DEF Merged, TypedRow
<1>2. CASE name = "products"
  <2>1. r \in ProductRow /\ row \in ProductRow /\ want \in ProductRow
    BY <1>2 DEF TypedRow
  <2>2. DOMAIN r = {"id", "price", "deleted"}
    BY <2>1 DEF ProductRow
  <2>3. Merged(r, job) \in ProductRow
    BY <2>1, <2>2 DEF Merged, ProductRow
  <2>. QED  BY <1>2, <2>1, <2>2, <2>3 DEF Merged, TypedRow
<1>3. CASE name = "lines"
  <2>1. r \in LineRow /\ row \in LineRow /\ want \in LineRow
    BY <1>3 DEF TypedRow
  <2>2. DOMAIN r = {"id", "deal", "price"}
    BY <2>1 DEF LineRow
  <2>3. Merged(r, job) \in LineRow
    BY <2>1, <2>2 DEF Merged, LineRow
  <2>. QED  BY <1>3, <2>1, <2>2, <2>3 DEF Merged, TypedRow
<1>4. CASE name = "tasks"
  <2>1. r \in TaskRow /\ row \in TaskRow /\ want \in TaskRow
    BY <1>4 DEF TypedRow
  <2>2. DOMAIN r = {"id", "status", "completed", "deleted"}
    BY <2>1 DEF TaskRow
  <2>3. Merged(r, job) \in TaskRow
    BY <2>1, <2>2 DEF Merged, TaskRow
  <2>. QED  BY <1>4, <2>1, <2>2, <2>3 DEF Merged, TypedRow
<1>. QED  BY <1>1, <1>2, <1>3, <1>4

LEMMA WrittenRows ==
  ASSUME NEW name \in {"deals", "products", "lines", "tasks"}, NEW job, NEW table,
         \A r \in table : TypedRow(name, r), \A r, s \in table : r.id = s.id => r = s,
         TypedRow(name, job.row), TypedRow(name, job.want), job.want.id = job.row.id
  PROVE  /\ \A w \in Written(table, job) : TypedRow(name, w)
         /\ \A v, w \in Written(table, job) : v.id = w.id => v = w
         /\ \A w \in Written(table, job) : w.id # job.row.id => w \in table
         /\ \A w \in Written(table, job) : \E r \in table :
              /\ r.id = w.id
              /\ name = "deals" => w.stage = r.stage \/ w.stage = job.want.stage
              /\ name = "deals" /\ r = job.row => w.stage = job.want.stage
              /\ name = "tasks" /\ w.completed # r.completed => job.want.completed # job.row.completed
<1>. DEFINE After(r) == IF r.id # job.row.id THEN r ELSE Merged(r, job)
<1>1. Written(table, job) = {After(r) : r \in table}
  BY DEF Written, Merged
<1>2. \A r \in table : TypedRow(name, After(r)) /\ After(r).id = r.id
  BY MergedRow
<1>3. \A r \in table : name = "deals" =>
        /\ After(r).stage = r.stage \/ After(r).stage = job.want.stage
        /\ r = job.row => After(r).stage = job.want.stage
  BY MergedRow
<1>4. \A r \in table : name = "tasks" /\ After(r).completed # r.completed => job.want.completed # job.row.completed
  BY MergedRow
<1>5. \A r \in table : r.id # job.row.id => After(r) = r
  OBVIOUS
<1>. HIDE DEF After
<1>. QED  BY <1>1, <1>2, <1>3, <1>4, <1>5

LEMMA UpdateCommits ==
  ASSUME SalesInv, NEW q \in Requests, CommitUpdate(q)
  PROVE  SalesInv'
<1>. DEFINE job == call[q]
            name == job.table
            row == job.row
            fits == job.want # row =>
                      /\ \E r \in Table(name) : r.id = row.id
                      /\ name = "deals" /\ job.want.stage # row.stage => HasStage(job.want.stage)
<1>1. /\ job.op = "update" /\ UNCHANGED <<pipelines, calls, crossed>> /\ call' = [call EXCEPT ![q] = NoCall]
      /\ IF fits
           THEN /\ Becomes(name, Written(Table(name), job))
                /\ lines' = IF name = "lines" THEN Written(Table(name), job) ELSE lines
                /\ timeline' = timeline \o job.events
           ELSE UNCHANGED <<deals, products, lines, tasks, timeline>>
  BY DEF CommitUpdate, LinesAfter
<1>2. job # NoCall /\ RowJob(job) /\ DOMAIN call = Requests /\ timeline \in Seq(TimelineEvent)
  BY <1>1, RowCall
<1>3. /\ name \in {"deals", "products", "lines", "tasks"} /\ TypedRow(name, row) /\ TypedRow(name, job.want)
      /\ job.want.id = row.id /\ row.id \in Ids /\ ~Inserts(job)
  BY <1>1, <1>2 DEF RowJob, Inserts
<1>. HIDE DEF fits
<1>4. CASE ~fits
  BY <1>1, <1>2, <1>4, AbandonKeeps DEF Abandon, tables
<1>5. CASE fits
  <2>1. /\ deals' = IF name = "deals" THEN Written(deals, job) ELSE deals
        /\ products' = IF name = "products" THEN Written(products, job) ELSE products
        /\ lines' = IF name = "lines" THEN Written(lines, job) ELSE lines
        /\ tasks' = IF name = "tasks" THEN Written(tasks, job) ELSE tasks
        /\ pipelines' = pipelines /\ timeline' = timeline \o job.events
    BY <1>1, <1>3, <1>5 DEF Becomes, Table
  <2>2. DOMAIN call' = Requests /\ call'[q] = NoCall /\ \A p \in Requests \ {q} : call'[p] = call[p]
    BY <1>1, <1>2
  <2>. HIDE DEF job, name, row
  <2>3. /\ deals \subseteq DealRow /\ products \subseteq ProductRow /\ lines \subseteq LineRow /\ tasks \subseteq TaskRow
        /\ \A r, s \in deals : r.id = s.id => r = s
        /\ \A r, s \in products : r.id = s.id => r = s
        /\ \A r, s \in lines : r.id = s.id => r = s
        /\ \A r, s \in tasks : r.id = s.id => r = s
    BY DEF SalesInv, SalesTypeOK, DealRow, ProductRow, LineRow, TaskRow
  <2>4. /\ deals' \subseteq DealRow /\ (\A r, s \in deals' : r.id = s.id => r = s)
        /\ \A d \in deals' : d.id # row.id => d \in deals
        /\ \A d \in deals' : \E r \in deals : r.id = d.id
    <3>1. CASE name = "deals"
      <4>1. \A r \in deals : TypedRow("deals", r)
        BY <2>3 DEF TypedRow
      <4>2. \A w \in Written(deals, job) : TypedRow("deals", w)
        BY <1>3, <2>3, <3>1, <4>1, WrittenRows DEF row
      <4>. QED  BY <1>3, <2>1, <2>3, <3>1, <4>1, <4>2, WrittenRows DEF row, TypedRow
    <3>2. CASE name # "deals"
      BY <2>1, <2>3, <3>2
    <3>. QED  BY <3>1, <3>2
  <2>5. /\ tasks' \subseteq TaskRow /\ (\A r, s \in tasks' : r.id = s.id => r = s)
        /\ \A d \in tasks' : d.id # row.id => d \in tasks
        /\ \A d \in tasks' : \E r \in tasks : r.id = d.id
    <3>1. CASE name = "tasks"
      <4>1. \A r \in tasks : TypedRow("tasks", r)
        BY <2>3 DEF TypedRow
      <4>2. \A w \in Written(tasks, job) : TypedRow("tasks", w)
        BY <1>3, <2>3, <3>1, <4>1, WrittenRows DEF row
      <4>. QED  BY <1>3, <2>1, <2>3, <3>1, <4>1, <4>2, WrittenRows DEF row, TypedRow
    <3>2. CASE name # "tasks"
      BY <2>1, <2>3, <3>2
    <3>. QED  BY <3>1, <3>2
  <2>6. /\ products' \subseteq ProductRow /\ (\A r, s \in products' : r.id = s.id => r = s)
        /\ \A d \in products' : \E r \in products : r.id = d.id
    <3>1. CASE name = "products"
      <4>1. \A r \in products : TypedRow("products", r)
        BY <2>3 DEF TypedRow
      <4>2. \A w \in Written(products, job) : TypedRow("products", w)
        BY <1>3, <2>3, <3>1, <4>1, WrittenRows DEF row
      <4>. QED  BY <1>3, <2>1, <2>3, <3>1, <4>1, <4>2, WrittenRows DEF row, TypedRow
    <3>2. CASE name # "products"
      BY <2>1, <2>3, <3>2
    <3>. QED  BY <3>1, <3>2
  <2>7. /\ lines' \subseteq LineRow /\ (\A r, s \in lines' : r.id = s.id => r = s)
        /\ \A d \in lines' : \E r \in lines : r.id = d.id
    <3>1. CASE name = "lines"
      <4>1. \A r \in lines : TypedRow("lines", r)
        BY <2>3 DEF TypedRow
      <4>2. \A w \in Written(lines, job) : TypedRow("lines", w)
        BY <1>3, <2>3, <3>1, <4>1, WrittenRows DEF row
      <4>. QED  BY <1>3, <2>1, <2>3, <3>1, <4>1, <4>2, WrittenRows DEF row, TypedRow
    <3>2. CASE name # "lines"
      BY <2>1, <2>3, <3>2
    <3>. QED  BY <3>1, <3>2
  <2>8. /\ timeline' \in Seq(TimelineEvent)
        /\ \A id : id # row.id => /\ Trail(timeline', id) = Trail(timeline, id)
                                  /\ \A stage : PathTo(timeline, id, stage) => PathTo(timeline', id, stage)
        /\ name = "deals" /\ PathTo(timeline, row.id, row.stage) => PathTo(timeline', row.id, job.want.stage)
        /\ name # "deals" => timeline' = timeline
    <3>1. name # "deals" => job.events = <<>>
      BY <1>2 DEF RowJob, EventsOf, name
    <3>2. job.events = <<>> => timeline' = timeline
      BY <1>2, <2>1
    <3>3. job.op = "update"
      BY <1>1 DEF job
    <3>. QED  BY <1>2, <1>3, <2>1, <3>1, <3>2, <3>3, EventTold DEF row, name
  <2>9. SalesTypeOK'
    <3>1. \A i \in DOMAIN timeline' : timeline'[i].id \in Ids
      BY <2>8, EventIds
    <3>. QED  BY <1>1, <2>1, <2>4, <2>5, <2>6, <2>7, <3>1
              DEF SalesInv, SalesTypeOK, DealRow, ProductRow, LineRow, TaskRow
  <2>10. CallsInv' /\ NumbersInv' /\ SharedInv' /\ AloneInv'
    <3>1. \A i : NumberedNext(i) => Numbered(i)
      BY <2>1, <2>4, <2>5, <2>6, <2>7 DEF Numbered, NumberedNext
    <3>2. \A i \in Ids : Trail(timeline', i) # {} => Trail(timeline, i) # {} \/ i = row.id
      BY <2>8
    <3>. QED  BY <1>1, <1>2, <1>3, <2>2, <2>4, <2>5, <2>8, <3>1, <3>2, EndKeeps DEF job
  <2>11. PathsInv'
    <3>1. ASSUME NEW d \in deals', d.id \notin crossed PROVE PathTo(timeline', d.id, d.stage)
      <4>1. CASE d.id # row.id
        BY <2>4, <2>8, <3>1, <4>1 DEF SalesInv, PathsInv
      <4>2. CASE d.id = row.id /\ name # "deals"
        BY <2>1, <2>8, <3>1, <4>2 DEF SalesInv, PathsInv
      <4>3. CASE d.id = row.id /\ name = "deals"
        <5>1. \A r \in deals : r.id = row.id => r = row
          BY <1>1, <1>2, <3>1, <4>3 DEF SalesInv, AloneInv, row, name, job
        <5>2. row \in deals /\ d.stage = job.want.stage
          <6>1. \A r \in deals : TypedRow("deals", r)
            BY <2>3 DEF TypedRow
          <6>. QED  BY <1>3, <2>1, <2>3, <4>3, <5>1, <6>1, WrittenRows DEF row
        <5>3. PathTo(timeline, row.id, row.stage)
          BY <3>1, <4>3, <5>2 DEF SalesInv, PathsInv
        <5>. QED  BY <2>8, <4>3, <5>2, <5>3
      <4>. QED  BY <4>1, <4>2, <4>3
    <3>. QED  BY <1>1, <3>1 DEF PathsInv, PathTo, Trail
  <2>12. DefaultInv'
    <3>1. call'[q].op # "pipeline"
      BY <2>2 DEF NoCall
    <3>. QED  BY <1>1, <2>1, <2>2, <3>1, DefaultKept
  <2>. QED  BY <2>9, <2>10, <2>11, <2>12 DEF SalesInv
<1>. QED  BY <1>4, <1>5

LEMMA RemoveCommits ==
  ASSUME SalesInv, NEW q \in Requests, CommitRemove(q)
  PROVE  SalesInv'
<1>. DEFINE job == call[q]
<1>1. /\ job.op = "remove" /\ UNCHANGED <<timeline, calls, crossed>> /\ call' = [call EXCEPT ![q] = NoCall]
      /\ IF job.table = "pipelines"
           THEN pipelines' \subseteq pipelines /\ UNCHANGED <<deals, products, lines, tasks>>
           ELSE /\ Becomes(job.table, Gone(Table(job.table), job))
                /\ lines' \subseteq lines /\ UNCHANGED pipelines
  BY DEF CommitRemove, Gone
<1>2. job # NoCall /\ RowJob(job) /\ DOMAIN call = Requests /\ timeline \in Seq(TimelineEvent)
  BY <1>1, RowCall
<1>3. job.table \in {"pipelines", "deals", "products", "lines", "tasks"}
  BY <1>2 DEF RowJob
<1>4. DOMAIN call' = Requests /\ call'[q] = NoCall /\ \A p \in Requests \ {q} : call'[p] = call[p]
  BY <1>1, <1>2
<1>. HIDE DEF job
<1>5. /\ pipelines' \subseteq pipelines /\ deals' \subseteq deals /\ products' \subseteq products
      /\ lines' \subseteq lines /\ tasks' \subseteq tasks
  BY <1>1, <1>3 DEF Becomes, Gone, Table
<1>6. SalesTypeOK'
  BY <1>1, <1>5 DEF SalesInv, SalesTypeOK
<1>7. CallsInv' /\ NumbersInv' /\ SharedInv' /\ AloneInv'
  <2>1. \A i : NumberedNext(i) => Numbered(i)
    BY <1>5 DEF Numbered, NumberedNext
  <2>. QED  BY <1>1, <1>2, <1>4, <1>5, <2>1, EndKeeps DEF job
<1>8. PathsInv'
  BY <1>1, <1>5 DEF SalesInv, PathsInv, PathTo, Trail
<1>9. DefaultInv'
  <2>1. call'[q].op # "pipeline"
    BY <1>4 DEF NoCall
  <2>. QED  BY <1>1, <1>4, <1>5, <2>1, DefaultKept
<1>. QED  BY <1>6, <1>7, <1>8, <1>9 DEF SalesInv
-----------------------------------------------------------------------------
(***************************************************************************)
(* The invariant, and what it says of the tables.                          *)
(***************************************************************************)
LEMMA SalesInitial == SalesInit => SalesInv
<1>. SUFFICES ASSUME SalesInit PROVE SalesInv
  OBVIOUS
<1>. DEFINE e == [type |-> "created", id |-> 2, from |-> Nil, to |-> <<1, 1>>]
            due == CHOOSE m \in Months : TRUE
            price == CHOOSE x \in Prices : TRUE
<1>1. due \in Months /\ price \in Prices
  BY SalesAssumption
<1>2. 1 \in DOMAIN Stages /\ {1, 2, 3, 4, 5} \subseteq Ids /\ MaxCalls \in Nat
  <2>1. Stages \in Seq([won : BOOLEAN, lost : BOOLEAN, probability : 0..100]) /\ Stages # <<>> /\ MaxCalls \in Nat
    BY SalesAssumption
  <2>2. DOMAIN Stages = 1..Len(Stages) /\ Len(Stages) \in Nat /\ Len(Stages) # 0
    BY <2>1
  <2>. QED  BY <2>1, <2>2 DEF Ids
<1>. HIDE DEF due, price
<1>3. /\ pipelines = {Book.pipeline} /\ deals = {Book.deal} /\ products = {Book.product}
      /\ lines = {Book.line} /\ tasks = {Book.task} /\ timeline = <<e>>
      /\ call = [q \in Requests |-> NoCall] /\ calls = 0 /\ crossed = {}
  BY DEF SalesInit
<1>4. /\ Book.pipeline = [id |-> 1, default |-> TRUE, stages |-> DOMAIN Stages]
      /\ Book.deal = [id |-> 2, pipeline |-> 1, stage |-> <<1, 1>>, status |-> "open", closed |-> Nil,
                      due |-> due, deleted |-> FALSE]
      /\ Book.product = [id |-> 3, price |-> price, deleted |-> FALSE]
      /\ Book.line = [id |-> 4, deal |-> 2, price |-> price]
      /\ Book.task = [id |-> 5, status |-> "open", completed |-> Nil, deleted |-> FALSE]
  BY DEF Book, due, price
<1>5. e \in TimelineEvent /\ <<e>> \in Seq(TimelineEvent)
  <2>1. <<1, 1>> \in StagePair
    BY <1>2 DEF StagePair
  <2>. QED  BY <1>2, <2>1 DEF TimelineEvent
<1>6. /\ Book.pipeline \in PipelineRow /\ Book.deal \in DealRow /\ Book.product \in ProductRow
      /\ Book.line \in LineRow /\ Book.task \in TaskRow
  BY <1>1, <1>2, <1>4 DEF PipelineRow, DealRow, ProductRow, LineRow, TaskRow, Statuses
<1>7. SalesTypeOK
  <2>1. \A i \in DOMAIN timeline : timeline[i].id \in Ids
    BY <1>3, <1>5, EventIds
  <2>. QED  BY <1>2, <1>3, <1>6, <2>1 DEF SalesTypeOK, PipelineRow, DealRow, ProductRow, LineRow, TaskRow
<1>8. CallsInv
  BY <1>3, <1>5 DEF CallsInv
<1>9. /\ DOMAIN timeline = {1} /\ timeline[1].id = 2 /\ timeline[1].type = "created"
      /\ timeline[1].to = <<1, 1>>
  BY <1>3
<1>10. NumbersInv
  <2>1. \A i \in Ids : Numbered(i) \/ Trail(timeline, i) # {} => i < Now
    BY <1>3, <1>4, <1>9 DEF Numbered, Trail, Now
  <2>. QED  BY <1>3, <2>1 DEF NumbersInv
<1>11. SharedInv /\ AloneInv
  BY <1>3 DEF SharedInv, AloneInv
<1>12. DefaultInv
  BY <1>3 DEF DefaultInv, NoCall
<1>13. PathsInv
  <2>1. Trail(timeline, 2) = {1}
    BY <1>9 DEF Trail
  <2>2. PathTo(timeline, 2, <<1, 1>>)
    BY <1>9, <2>1 DEF PathTo
  <2>. QED  BY <1>3, <1>4, <2>2 DEF PathsInv
<1>. QED  BY <1>7, <1>8, <1>10, <1>11, <1>12, <1>13 DEF SalesInv

LEMMA SalesStays == SalesInv /\ [SalesNext]_salesVars => SalesInv'
<1>. SUFFICES ASSUME SalesInv, [SalesNext]_salesVars PROVE SalesInv'
  OBVIOUS
<1>1. CASE SalesNext
  <2>1. PICK q \in Requests :
          \/ calls < MaxCalls /\ call[q] = NoCall /\ Request(q)
          \/ CommitPipeline(q) \/ CommitInsert(q) \/ CommitUpdate(q) \/ CommitRemove(q)
          \/ TellLine(q) \/ Abandon(q)
    BY <1>1 DEF SalesNext
  <2>. QED  BY <2>1, RequestKeeps, PipelineCommits, InsertCommits, UpdateCommits, RemoveCommits,
                TellLineKeeps, AbandonKeeps
<1>2. CASE UNCHANGED salesVars
  BY <1>2 DEF salesVars, tables, SalesInv, SalesTypeOK, CallsInv, NumbersInv, SharedInv, AloneInv,
     DefaultInv, PathsInv, PathTo, Trail, Numbered, Now
<1>. QED  BY <1>1, <1>2

\* The inductive invariant: rows are numbered in the order of the requests, two
\* requests at one row are known, one that is alone at it wrote what it read, one
\* that sets the default flag clears what has it, and the events are paths.
THEOREM SalesInvariance == SalesSpec => []SalesInv
<1>1. SalesInit => SalesInv
  BY SalesInitial
<1>2. SalesInv /\ [SalesNext]_salesVars => SalesInv'
  BY SalesStays
<1>. QED  BY <1>1, <1>2, PTL DEF SalesSpec

\* Every row has the columns of its table, and an id names one row.
THEOREM SalesTypes == SalesSpec => []SalesTypeOK
<1>1. SalesInv => SalesTypeOK
  BY DEF SalesInv
<1>. QED  BY <1>1, SalesInvariance, PTL

\* create_pipeline: one pipeline has the default flag, unless two requests that set
\* it overlapped.
THEOREM OneDefaultHolds == SalesSpec => []OneDefault
<1>1. ASSUME SalesInv, 0 \notin crossed PROVE Cardinality({p \in pipelines : p.default}) <= 1
  <2>. DEFINE flagged == {p \in pipelines : p.default}
  <2>1. \A o, p \in flagged : o = p
    BY <1>1 DEF SalesInv, DefaultInv
  <2>. HIDE DEF flagged
  <2>2. CASE flagged = {}
    BY <2>2, FS_EmptySet DEF flagged
  <2>3. CASE flagged # {}
    <3>1. PICK p \in flagged : flagged = {p}
      BY <2>1, <2>3
    <3>2. Cardinality(flagged) = 1
      BY <3>1, FS_Singleton
    <3>. QED  BY <3>2 DEF flagged
  <2>. QED  BY <2>2, <2>3
<1>2. SalesInv => OneDefault
  BY <1>1 DEF OneDefault
<1>. QED  BY <1>2, SalesInvariance, PTL

\* The timeline of a deal no two requests were at together is one path, from the
\* stage it was made in to the one it is in.
THEOREM DealTrailHolds == SalesSpec => []DealTrail
<1>1. SalesInv => DealTrail
  BY DEF SalesInv, PathsInv, PathTo, Trail, DealTrail
<1>. QED  BY <1>1, SalesInvariance, PTL

\* What a step may write of a line and of a task that were there.
LEMMA FixedRows ==
  ASSUME SalesInv, NEW q \in Requests,
         \/ calls < MaxCalls /\ call[q] = NoCall /\ Request(q)
         \/ CommitPipeline(q) \/ CommitInsert(q) \/ CommitUpdate(q) \/ CommitRemove(q)
         \/ TellLine(q) \/ Abandon(q)
  PROVE  /\ \A m \in lines' : m \in lines \/ ~Numbered(m.id) \/
              (call[q].op = "update" /\ call[q].table = "lines" /\ call[q].row.id = m.id)
         /\ \A u \in tasks' : u \in tasks \/ ~Numbered(u.id) \/ u.id \in crossed \/
              \E t \in tasks : t.id = u.id /\ (t.completed # Nil => u.completed = t.completed)
<1>. DEFINE job == call[q]
            Lines == \A m \in lines' : m \in lines \/ ~Numbered(m.id) \/
              (call[q].op = "update" /\ call[q].table = "lines" /\ call[q].row.id = m.id)
            Tasks == \A u \in tasks' : u \in tasks \/ ~Numbered(u.id) \/ u.id \in crossed \/
              \E t \in tasks : t.id = u.id /\ (t.completed # Nil => u.completed = t.completed)
<1>. SUFFICES Lines /\ Tasks
  OBVIOUS
<1>1. CASE UNCHANGED <<lines, tasks>>
  BY <1>1
<1>2. CASE Request(q) \/ CommitPipeline(q) \/ TellLine(q) \/ Abandon(q)
  <2>1. UNCHANGED <<lines, tasks>>
    BY <1>2 DEF Request, DealRequest, LineRequest, CreatePipeline, DeletePipeline, CreateDeal, PatchStage,
       PatchStatus, PatchDue, MoveDealStage, DeleteDeal, CreateProduct, PatchProduct, DeleteProduct,
       AddLine, PatchLine, DeleteLine, CreateTask, PatchTask, DeleteTask, Begin, tables,
       CommitPipeline, TellLine, Abandon
  <2>. QED  BY <1>1, <2>1
<1>3. CASE CommitInsert(q)
  <2>1. CASE UNCHANGED <<lines, tasks>>
    BY <1>1, <2>1
  <2>2. CASE ~UNCHANGED <<lines, tasks>>
    <3>1. job.op \in {"insert", "insert and tell"}
      BY <1>3 DEF CommitInsert
    <3>2. RowJob(job) /\ ~Numbered(job.row.id)
      BY <3>1, RowCall
    <3>3. job.table \in {"pipelines", "deals", "products", "lines", "tasks"}
      BY <3>2 DEF RowJob
    <3>4. lines' \subseteq lines \cup {job.row} /\ tasks' \subseteq tasks \cup {job.row}
      BY <1>3, <2>2, <3>3 DEF CommitInsert, Becomes, Table
    <3>. QED  BY <3>2, <3>4
  <2>. QED  BY <2>1, <2>2
<1>4. CASE CommitUpdate(q)
  <2>1. CASE UNCHANGED <<lines, tasks>>
    BY <1>1, <2>1
  <2>2. CASE ~UNCHANGED <<lines, tasks>>
    <3>1. /\ job.op = "update" /\ Becomes(job.table, Written(Table(job.table), job))
          /\ lines' = IF job.table = "lines" THEN Written(Table(job.table), job) ELSE lines
      BY <1>4, <2>2 DEF CommitUpdate, LinesAfter
    <3>2. job # NoCall /\ RowJob(job)
      BY <3>1, RowCall
    <3>3. /\ job.table \in {"deals", "products", "lines", "tasks"} /\ job.want.id = job.row.id
          /\ TypedRow(job.table, job.row) /\ TypedRow(job.table, job.want)
          /\ job.table = "tasks" /\ job.row.completed # Nil => job.want.completed = job.row.completed
      BY <3>1, <3>2 DEF RowJob
    <3>4. /\ lines' = IF job.table = "lines" THEN Written(lines, job) ELSE lines
          /\ tasks' = IF job.table = "tasks" THEN Written(tasks, job) ELSE tasks
      BY <3>1, <3>3 DEF Becomes, Table
    <3>5. /\ (\A r \in lines : TypedRow("lines", r)) /\ (\A r, s \in lines : r.id = s.id => r = s)
          /\ (\A r \in tasks : TypedRow("tasks", r)) /\ (\A r, s \in tasks : r.id = s.id => r = s)
      BY DEF SalesInv, SalesTypeOK, TypedRow, LineRow, TaskRow
    <3>6. job.table = "tasks" => \A r \in tasks : r.id = job.row.id => r.id \in crossed \/ r = job.row
      BY <3>1, <3>2 DEF SalesInv, AloneInv
    <3>. HIDE DEF job
    <3>7. CASE job.table = "lines"
      <4>1. \A w \in Written(lines, job) : w.id # job.row.id => w \in lines
        BY <3>3, <3>5, <3>7, WrittenRows
      <4>2. job.op = "update" /\ \A m \in lines' : m.id = job.row.id \/ m \in lines
        BY <3>1, <3>4, <3>7, <4>1
      <4>. QED  BY <3>4, <3>7, <4>2 DEF job
    <3>8. CASE job.table = "tasks"
      <4>1. ASSUME NEW u \in tasks', u \notin tasks, u.id \notin crossed
            PROVE  \E t \in tasks : t.id = u.id /\ (t.completed # Nil => u.completed = t.completed)
        <5>1. u \in Written(tasks, job)
          BY <3>4, <3>8, <4>1
        <5>2. u.id = job.row.id
          BY <3>3, <3>5, <3>8, <4>1, <5>1, WrittenRows
        <5>3. PICK t \in tasks : /\ t.id = u.id
                                 /\ u.completed # t.completed => job.want.completed # job.row.completed
          BY <3>3, <3>5, <3>8, <5>1, WrittenRows
        <5>4. t = job.row
          BY <3>6, <3>8, <4>1, <5>2, <5>3
        <5>. QED  BY <3>3, <3>8, <5>3, <5>4
      <4>. QED  BY <3>4, <3>8, <4>1
    <3>9. CASE job.table \notin {"lines", "tasks"}
      BY <2>2, <3>4, <3>9
    <3>. QED  BY <3>7, <3>8, <3>9
  <2>. QED  BY <2>1, <2>2
<1>5. CASE CommitRemove(q)
  <2>1. CASE UNCHANGED <<lines, tasks>>
    BY <1>1, <2>1
  <2>2. CASE ~UNCHANGED <<lines, tasks>>
    <3>1. job.op = "remove" /\ Becomes(job.table, Gone(Table(job.table), job)) /\ lines' \subseteq lines
      BY <1>5, <2>2 DEF CommitRemove, Gone
    <3>2. tasks' \subseteq tasks
      BY <3>1 DEF Becomes, Gone, Table
    <3>. QED  BY <3>1, <3>2
  <2>. QED  BY <2>1, <2>2
<1>. QED  BY <1>2, <1>3, <1>4, <1>5

\* patch_line_item and _apply_updates of the tasks: a line's price moves only by an
\* update of that line, and a task keeps the date it was completed unless two
\* requests were at it.
THEOREM FixedStaysHolds == SalesSpec => FixedStays
<1>. DEFINE Fixed ==
       /\ \A l \in lines, m \in lines' : l.id = m.id /\ l.price # m.price =>
            \E q \in Requests : call[q].op = "update" /\ call[q].table = "lines" /\ call[q].row.id = l.id
       /\ \A t \in tasks, u \in tasks' :
            t.id = u.id /\ t.id \notin crossed /\ t.completed # Nil => u.completed = t.completed
<1>1. ASSUME SalesInv, SalesNext PROVE Fixed
  <2>1. PICK q \in Requests :
          /\ \A m \in lines' : m \in lines \/ ~Numbered(m.id) \/
               (call[q].op = "update" /\ call[q].table = "lines" /\ call[q].row.id = m.id)
          /\ \A u \in tasks' : u \in tasks \/ ~Numbered(u.id) \/ u.id \in crossed \/
               \E t \in tasks : t.id = u.id /\ (t.completed # Nil => u.completed = t.completed)
    BY <1>1, FixedRows DEF SalesNext
  <2>2. (\A l \in lines : Numbered(l.id)) /\ (\A t \in tasks : Numbered(t.id))
    BY DEF Numbered
  <2>3. /\ \A r, s \in lines : r.id = s.id => r = s
        /\ \A r, s \in tasks : r.id = s.id => r = s
    BY <1>1 DEF SalesInv, SalesTypeOK
  <2>. QED  BY <2>1, <2>2, <2>3
<1>2. SalesInv /\ [SalesNext]_salesVars => [Fixed]_salesVars
  BY <1>1
<1>. QED  BY <1>2, SalesInvariance, PTL DEF SalesSpec, FixedStays
-----------------------------------------------------------------------------
\* What holds of a set when it holds of its proper subsets holds of a finite set's.
LEMMA OfSubsets ==
  ASSUME NEW S, IsFiniteSet(S), NEW Good,
         \A s \in SUBSET S : (\A t \in SUBSET s : t # s => t \in Good) => s \in Good
  PROVE  SUBSET S \subseteq Good
<1>. DEFINE bad == (SUBSET S) \ Good
            sizes == {Cardinality(s) : s \in bad}
<1>1. \A s \in SUBSET S : IsFiniteSet(s) /\ Cardinality(s) \in Nat
  BY FS_Subset, FS_CardinalityType
<1>2. SUFFICES ASSUME bad # {} PROVE FALSE
  OBVIOUS
<1>3. sizes \subseteq Nat /\ sizes # {}
  BY <1>1, <1>2
<1>4. PICK n \in sizes : \A m \in sizes : n <= m
  <2>. HIDE DEF sizes
  <2>. QED  BY <1>3, Smallest
<1>5. PICK s \in bad : n = Cardinality(s)
  BY <1>4
<1>6. ASSUME NEW t \in SUBSET s, t # s PROVE t \in Good
  <2>1. Cardinality(t) < Cardinality(s)
    <3>1. Cardinality(t) <= Cardinality(s) /\ Cardinality(t) # Cardinality(s)
      BY <1>1, <1>5, <1>6, FS_Subset
    <3>. QED  BY <1>1, <1>5, <3>1
  <2>2. t \in SUBSET S /\ Cardinality(t) \in Nat /\ Cardinality(s) \in Nat
    BY <1>1, <1>5
  <2>3. t \notin bad
    BY <1>4, <1>5, <2>1, <2>2
  <2>. QED  BY <2>2, <2>3
<1>. QED  BY <1>5, <1>6

Chosen(s) == CHOOSE x \in s : TRUE

\* k adds g up over the subsets of S, one element after the other.
Sums(k, g, S) == k = [s \in SUBSET S |-> IF s = {} THEN 0 ELSE g[Chosen(s)] + k[s \ {Chosen(s)}]]

LEMMA Rest ==
  ASSUME NEW s, s # {}
  PROVE  Chosen(s) \in s /\ s \ {Chosen(s)} \in SUBSET s /\ s \ {Chosen(s)} # s
<1>1. Chosen(s) \in s
  BY DEF Chosen
<1>. HIDE DEF Chosen
<1>. QED  BY <1>1

LEMMA SumsAt ==
  ASSUME NEW k, NEW g, NEW S, Sums(k, g, S), NEW s \in SUBSET S
  PROVE  /\ s = {} => k[s] = 0
         /\ s # {} => k[s] = g[Chosen(s)] + k[s \ {Chosen(s)}]
BY DEF Sums

LEMMA SumsAgree ==
  ASSUME NEW S, NEW T \in SUBSET S, IsFiniteSet(S), NEW k, NEW g, NEW h, NEW f,
         Sums(k, g, S), Sums(h, f, T), \A x \in T : f[x] = g[x]
  PROVE  \A s \in SUBSET T : h[s] = k[s]
<1>. DEFINE Good == {s \in SUBSET T : h[s] = k[s]}
<1>1. IsFiniteSet(T)
  BY FS_Subset
<1>2. ASSUME NEW s \in SUBSET T, \A t \in SUBSET s : t # s => t \in Good PROVE s \in Good
  <2>1. CASE s = {}
    <3>1. h[s] = 0 /\ k[s] = 0
      BY <2>1, SumsAt
    <3>. QED  BY <3>1
  <2>2. CASE s # {}
    <3>1. h[s] = f[Chosen(s)] + h[s \ {Chosen(s)}] /\ k[s] = g[Chosen(s)] + k[s \ {Chosen(s)}]
      BY <2>2, SumsAt
    <3>2. Chosen(s) \in T /\ h[s \ {Chosen(s)}] = k[s \ {Chosen(s)}]
      BY <1>2, <2>2, Rest
    <3>. QED  BY <3>1, <3>2
  <2>. QED  BY <2>1, <2>2
<1>3. SUBSET T \subseteq Good
  <2>. HIDE DEF Good
  <2>. QED  BY <1>1, <1>2, OfSubsets
<1>. QED  BY <1>3

LEMMA SumsExist ==
  ASSUME NEW S, IsFiniteSet(S), NEW g
  PROVE  \E k : Sums(k, g, S)
<1>. DEFINE Good == {T \in SUBSET S : \E k : Sums(k, g, T)}
            Sum(t) == (CHOOSE k : Sums(k, g, t))[t]
<1>1. ASSUME NEW T \in SUBSET S, \A t \in SUBSET T : t # T => t \in Good PROVE T \in Good
  <2>. DEFINE k == [s \in SUBSET T |-> IF s = {} THEN 0 ELSE g[Chosen(s)] + Sum(s \ {Chosen(s)})]
  <2>1. ASSUME NEW t \in SUBSET T, t # T PROVE Sums(CHOOSE h : Sums(h, g, t), g, t)
    BY <1>1, <2>1
  <2>2. ASSUME NEW t \in SUBSET T, t # T PROVE k[t] = Sum(t)
    <3>. DEFINE h == CHOOSE h : Sums(h, g, t)
    <3>1. Sums(h, g, t) /\ t \in SUBSET t
      BY <2>1, <2>2
    <3>2. CASE t = {}
      <4>. HIDE DEF h
      <4>1. h[t] = 0
        BY <3>1, <3>2, SumsAt
      <4>. QED  BY <3>2, <4>1 DEF h
    <3>3. CASE t # {}
      <4>. DEFINE r == t \ {Chosen(t)}
                  j == CHOOSE j : Sums(j, g, r)
      <4>1. r \in SUBSET t /\ r \in SUBSET T /\ r # T /\ IsFiniteSet(t) /\ r \in SUBSET r
        BY <2>2, <3>3, Rest, FS_Subset
      <4>2. Sums(j, g, r)
        <5>. HIDE DEF r
        <5>. QED  BY <2>1, <4>1
      <4>. HIDE DEF h, j
      <4>3. h[t] = g[Chosen(t)] + h[r]
        BY <3>1, <3>3, SumsAt
      <4>4. j[r] = h[r]
        <5>. HIDE DEF r
        <5>. QED  BY <3>1, <4>1, <4>2, SumsAgree
      <4>5. k[t] = g[Chosen(t)] + j[r]
        BY <2>2, <3>3 DEF j
      <4>. QED  BY <4>3, <4>4, <4>5 DEF h
    <3>. QED  BY <3>2, <3>3
  <2>3. \A s \in SUBSET T : s # {} => Sum(s \ {Chosen(s)}) = k[s \ {Chosen(s)}]
    <3>. SUFFICES ASSUME NEW s \in SUBSET T, s # {} PROVE Sum(s \ {Chosen(s)}) = k[s \ {Chosen(s)}]
      OBVIOUS
    <3>. DEFINE r == s \ {Chosen(s)}
    <3>1. r \in SUBSET T /\ r # T
      BY Rest
    <3>. HIDE DEF r
    <3>2. k[r] = Sum(r)
      BY <2>2, <3>1
    <3>. QED  BY <3>2 DEF r
  <2>. HIDE DEF Sum
  <2>4. k = [s \in SUBSET T |-> IF s = {} THEN 0 ELSE g[Chosen(s)] + k[s \ {Chosen(s)}]]
    BY <2>3
  <2>. QED  BY <2>4 DEF Sums
<1>2. SUBSET S \subseteq Good
  <2>. HIDE DEF Good
  <2>. QED  BY <1>1, OfSubsets
<1>. QED  BY <1>2

LEMMA SumsNat ==
  ASSUME NEW S, IsFiniteSet(S), NEW k, NEW g, Sums(k, g, S), \A x \in S : g[x] \in Nat
  PROVE  \A s \in SUBSET S : k[s] \in Nat
<1>. DEFINE Good == {s \in SUBSET S : k[s] \in Nat}
<1>1. ASSUME NEW s \in SUBSET S, \A t \in SUBSET s : t # s => t \in Good PROVE s \in Good
  <2>1. CASE s = {}
    <3>1. k[s] = 0
      BY <2>1, SumsAt
    <3>. QED  BY <3>1
  <2>2. CASE s # {}
    <3>1. k[s] = g[Chosen(s)] + k[s \ {Chosen(s)}]
      BY <2>2, SumsAt
    <3>2. g[Chosen(s)] \in Nat /\ k[s \ {Chosen(s)}] \in Nat
      BY <1>1, <2>2, Rest
    <3>. QED  BY <3>1, <3>2
  <2>. QED  BY <2>1, <2>2
<1>2. SUBSET S \subseteq Good
  <2>. HIDE DEF Good
  <2>. QED  BY <1>1, OfSubsets
<1>. QED  BY <1>2

\* Whichever element is taken first.
LEMMA SumsTake ==
  ASSUME NEW S, IsFiniteSet(S), NEW k, NEW g, Sums(k, g, S), \A x \in S : g[x] \in Nat
  PROVE  \A s \in SUBSET S, p \in S : p \in s => k[s] = g[p] + k[s \ {p}]
<1>. DEFINE Good == {s \in SUBSET S : \A p \in s : k[s] = g[p] + k[s \ {p}]}
<1>1. ASSUME NEW s \in SUBSET S, \A t \in SUBSET s : t # s => t \in Good, NEW p \in s
      PROVE  k[s] = g[p] + k[s \ {p}]
  <2>. DEFINE q == Chosen(s)
  <2>1. q \in s /\ k[s] = g[q] + k[s \ {q}]
    BY Rest, SumsAt
  <2>. HIDE DEF q
  <2>2. CASE p # q
    <3>. DEFINE r == s \ {p, q}
    <3>1. s \ {q} \in Good /\ s \ {p} \in Good /\ p \in s \ {q} /\ q \in s \ {p}
      BY <1>1, <2>1, <2>2
    <3>2. k[s \ {q}] = g[p] + k[(s \ {q}) \ {p}] /\ k[s \ {p}] = g[q] + k[(s \ {p}) \ {q}]
      BY <3>1
    <3>3. (s \ {q}) \ {p} = r /\ (s \ {p}) \ {q} = r
      OBVIOUS
    <3>4. k[r] \in Nat /\ g[p] \in Nat /\ g[q] \in Nat
      BY <2>1, SumsNat
    <3>. HIDE DEF r
    <3>. QED  BY <2>1, <3>2, <3>3, <3>4
  <2>. QED  BY <2>1, <2>2
<1>2. \A s \in SUBSET S : (\A t \in SUBSET s : t # s => t \in Good) => s \in Good
  BY <1>1
<1>3. SUBSET S \subseteq Good
  <2>. HIDE DEF Good
  <2>. QED  BY <1>2, OfSubsets
<1>. QED  BY <1>3

LEMMA SumsSplit ==
  ASSUME NEW S, IsFiniteSet(S), NEW k, NEW g, Sums(k, g, S), \A x \in S : g[x] \in Nat,
         NEW B \in SUBSET S
  PROVE  \A A \in SUBSET (S \ B) : k[A \cup B] = k[A] + k[B]
<1>. DEFINE R == S \ B
            Good == {A \in SUBSET R : k[A \cup B] = k[A] + k[B]}
<1>1. IsFiniteSet(R)
  BY FS_Subset
<1>2. ASSUME NEW A \in SUBSET (S \ B), \A t \in SUBSET A : t # A => t \in Good
      PROVE  k[A \cup B] = k[A] + k[B]
  <2>0. k[A] \in Nat /\ k[B] \in Nat
    BY SumsNat
  <2>1. CASE A = {}
    <3>1. A \cup B = B /\ k[A] = 0
      BY <2>1, SumsAt
    <3>2. k[A \cup B] = k[B]
      BY <3>1
    <3>. QED  BY <2>0, <3>1, <3>2
  <2>2. CASE A # {}
    <3>1. PICK p \in A : TRUE
      BY <2>2
    <3>2. A \ {p} \in Good
      BY <1>2, <3>1
    <3>3. (A \cup B) \ {p} = (A \ {p}) \cup B /\ A \cup B \in SUBSET S /\ A \in SUBSET S
      BY <3>1
    <3>4. k[A \cup B] = g[p] + k[(A \ {p}) \cup B] /\ k[A] = g[p] + k[A \ {p}]
      BY <3>1, <3>3, SumsTake
    <3>5. k[(A \ {p}) \cup B] = k[A \ {p}] + k[B]
      BY <3>2
    <3>6. g[p] \in Nat /\ k[A \ {p}] \in Nat
      BY <3>1, SumsNat
    <3>. QED  BY <2>0, <3>4, <3>5, <3>6
  <2>. QED  BY <2>1, <2>2
<1>3. SUBSET R \subseteq Good
  <2>1. \A A \in SUBSET R : (\A t \in SUBSET A : t # A => t \in Good) => A \in Good
    BY <1>2
  <2>. HIDE DEF Good, R
  <2>. QED  BY <1>1, <2>1, OfSubsets
<1>. QED  BY <1>3

\* The sum of g over S.
Total(g, S) == (CHOOSE k : Sums(k, g, S))[S]

LEMMA TotalOf ==
  ASSUME NEW S, NEW T \in SUBSET S, IsFiniteSet(S), NEW k, NEW g, NEW f, Sums(k, g, S), \A x \in T : f[x] = g[x]
  PROVE  Total(f, T) = k[T]
<1>1. IsFiniteSet(T) /\ T \in SUBSET T
  BY FS_Subset
<1>2. \E h : Sums(h, f, T)
  BY <1>1, SumsExist
<1>3. PICK h : Sums(h, f, T) /\ Total(f, T) = h[T]
  BY <1>2 DEF Total
<1>4. \A s \in SUBSET T : h[s] = k[s]
  BY <1>3, SumsAgree
<1>. QED  BY <1>1, <1>3, <1>4

LEMMA TotalFacts ==
  ASSUME NEW S, IsFiniteSet(S), NEW g, \A x \in S : g[x] \in Nat
  PROVE  /\ \A T \in SUBSET S : Total(g, T) \in Nat
         /\ Total(g, {}) = 0
         /\ \A x \in S : Total(g, {x}) = g[x]
         /\ \A A, B \in SUBSET S : A \cap B = {} => Total(g, A \cup B) = Total(g, A) + Total(g, B)
<1>1. PICK k : Sums(k, g, S)
  BY SumsExist
<1>2. \A T \in SUBSET S : Total(g, T) = k[T] /\ k[T] \in Nat
  BY <1>1, TotalOf, SumsNat
<1>3. k[{}] = 0
  BY <1>1, SumsAt
<1>4. ASSUME NEW x \in S PROVE k[{x}] = g[x]
  <2>1. k[{x}] = g[x] + k[{x} \ {x}]
    BY <1>1, SumsTake
  <2>2. {x} \ {x} = {}
    OBVIOUS
  <2>3. k[{x} \ {x}] = 0
    BY <1>3, <2>2
  <2>. QED  BY <2>1, <2>3
<1>5. ASSUME NEW A \in SUBSET S, NEW B \in SUBSET S, A \cap B = {} PROVE k[A \cup B] = k[A] + k[B]
  <2>1. A \in SUBSET (S \ B)
    BY <1>5
  <2>. QED  BY <1>1, <2>1, SumsSplit
<1>. QED  BY <1>2, <1>3, <1>4, <1>5

LEMMA TotalSame ==
  ASSUME NEW S, IsFiniteSet(S), NEW g, NEW f, \A x \in S : f[x] = g[x]
  PROVE  Total(f, S) = Total(g, S)
<1>1. PICK k : Sums(k, g, S)
  BY SumsExist
<1>2. S \in SUBSET S
  OBVIOUS
<1>3. Total(f, S) = k[S]
  BY <1>1, <1>2, TotalOf
<1>4. Total(g, S) = k[S]
  BY <1>1, <1>2, TotalOf
<1>. QED  BY <1>3, <1>4

\* Summing class by class comes to the sum.
LEMMA TotalByClass ==
  ASSUME NEW S, IsFiniteSet(S), NEW g, \A x \in S : g[x] \in Nat,
         NEW D, IsFiniteSet(D), NEW c, \A x \in S : c[x] \in D,
         NEW f, \A s \in D : f[s] = Total(g, {x \in S : c[x] = s})
  PROVE  Total(f, D) = Total(g, S)
<1>. DEFINE In(E) == {x \in S : c[x] \in E}
            Good == {E \in SUBSET D : Total(f, E) = Total(g, In(E))}
<1>1. \A s \in D : f[s] \in Nat
  <2>1. \A T \in SUBSET S : Total(g, T) \in Nat
    BY TotalFacts
  <2>2. \A s : {x \in S : c[x] = s} \in SUBSET S
    OBVIOUS
  <2>. QED  BY <2>1, <2>2
<1>A. Total(f, {}) = 0
  BY <1>1, TotalFacts
<1>B. /\ \A x \in D : Total(f, {x}) = f[x]
      /\ \A A, B \in SUBSET D : A \cap B = {} => Total(f, A \cup B) = Total(f, A) + Total(f, B)
  <2>. HIDE DEF In, Good
  <2>1. ASSUME NEW x \in D PROVE Total(f, {x}) = f[x]
    BY <1>1, TotalFacts
  <2>2. ASSUME NEW A \in SUBSET D, NEW B \in SUBSET D, A \cap B = {}
        PROVE  Total(f, A \cup B) = Total(f, A) + Total(f, B)
    BY <1>1, <2>2, TotalFacts
  <2>. QED  BY <2>1, <2>2
<1>2. ASSUME NEW E \in SUBSET D, \A t \in SUBSET E : t # E => t \in Good
      PROVE  Total(f, E) = Total(g, In(E))
  <2>1. CASE E = {}
    <3>1. In(E) = {}
      BY <2>1
    <3>2. Total(f, {}) = 0 /\ Total(g, {}) = 0
      BY <1>1, TotalFacts
    <3>. QED  BY <2>1, <3>1, <3>2
  <2>2. CASE E # {}
    <3>1. PICK s \in E : TRUE
      BY <2>2
    <3>. DEFINE F == E \ {s}
                one == {x \in S : c[x] = s}
    <3>2. Total(f, F) = Total(g, In(F))
      BY <1>2, <3>1
    <3>3. E = F \cup {s} /\ F \cap {s} = {} /\ F \in SUBSET D /\ {s} \in SUBSET D /\ s \in D
      BY <3>1
    <3>4. In(E) = In(F) \cup one /\ In(F) \cap one = {} /\ In(F) \in SUBSET S /\ one \in SUBSET S
      BY <3>1
    <3>. HIDE DEF F, one, In
    <3>5. Total(f, F \cup {s}) = Total(f, F) + Total(f, {s}) /\ Total(f, {s}) = f[s]
      BY <1>B, <3>3
    <3>6. Total(g, In(F) \cup one) = Total(g, In(F)) + Total(g, one)
      BY <3>4, TotalFacts
    <3>7. f[s] = Total(g, one)
      BY <3>3 DEF one
    <3>8. Total(f, E) = Total(f, F) + f[s] /\ Total(g, In(E)) = Total(g, In(F)) + Total(g, one)
      BY <3>3, <3>4, <3>5, <3>6
    <3>. QED  BY <3>2, <3>7, <3>8
  <2>. QED  BY <2>1, <2>2
<1>3. SUBSET D \subseteq Good
  <2>1. \A E \in SUBSET D : (\A t \in SUBSET E : t # E => t \in Good) => E \in Good
    BY <1>2
  <2>. HIDE DEF Good
  <2>. QED  BY <2>1, OfSubsets
<1>4. In(D) = S
  OBVIOUS
<1>. QED  BY <1>3, <1>4
-----------------------------------------------------------------------------
LEMMA SumIsTotal ==
  ASSUME NEW S, NEW g
  PROVE  MapThenSumSet(LAMBDA i : g[i], S) = Total(g, S)
BY DEF MapThenSumSet, MapThenFoldSet, Total, Sums, Chosen

\* The weights of deals, and their sum as a fold.
Weighs(k, S) == k = [s \in SUBSET S |-> IF s = {} THEN 0 ELSE Weight(Chosen(s)) + k[s \ {Chosen(s)}]]

LEMMA WeightsFold ==
  ASSUME NEW S
  PROVE  MapThenSumSet(Weight, S) = (CHOOSE k : Weighs(k, S))[S]
BY DEF MapThenSumSet, MapThenFoldSet, Weighs, Chosen

LEMMA WeighsIsSums ==
  ASSUME NEW S, NEW w, \A d \in S : w[d] = Weight(d), NEW k
  PROVE  Weighs(k, S) <=> Sums(k, w, S)
<1>1. \A s \in SUBSET S : s # {} => Chosen(s) \in S
  BY Rest
<1>2. \A s \in SUBSET S : s # {} => w[Chosen(s)] = Weight(Chosen(s))
  BY <1>1
<1>. HIDE DEF Weight, Chosen
<1>3. ASSUME NEW h
      PROVE  [s \in SUBSET S |-> IF s = {} THEN 0 ELSE Weight(Chosen(s)) + h[s \ {Chosen(s)}]]
               = [s \in SUBSET S |-> IF s = {} THEN 0 ELSE w[Chosen(s)] + h[s \ {Chosen(s)}]]
  BY <1>2
<1>. QED  BY <1>3 DEF Weighs, Sums

LEMMA WeightTotal ==
  ASSUME NEW S, IsFiniteSet(S), NEW w, \A d \in S : w[d] = Weight(d)
  PROVE  MapThenSumSet(Weight, S) = Total(w, S)
<1>1. S \in SUBSET S
  OBVIOUS
<1>2. PICK h : Sums(h, w, S)
  BY SumsExist
<1>3. Weighs(h, S)
  BY <1>2, WeighsIsSums
<1>4. PICK k : Weighs(k, S) /\ MapThenSumSet(Weight, S) = k[S]
  BY <1>3, WeightsFold
<1>5. Sums(k, w, S)
  BY <1>4, WeighsIsSums
<1>6. Total(w, S) = k[S]
  BY <1>1, <1>5, TotalOf
<1>. QED  BY <1>4, <1>6

LEMMA DealsAreFinite ==
  ASSUME SalesInv
  PROVE  IsFiniteSet(deals) /\ \A d \in deals : Weight(d) \in Nat
<1>1. deals \subseteq DealRow /\ \A r, s \in deals : r.id = s.id => r = s
  BY DEF SalesInv, SalesTypeOK, DealRow
<1>2. IsFiniteSet(Ids)
  BY SalesAssumption, FS_Interval DEF Ids
<1>3. [d \in deals |-> d.id] \in Injection(deals, Ids)
  BY <1>1 DEF Injection, IsInjective, DealRow
<1>4. IsFiniteSet(deals)
  BY <1>2, <1>3, FS_Injection
<1>5. ASSUME NEW d \in deals PROVE Weight(d) \in Nat
  <2>1. d.stage[2] \in DOMAIN Stages
    BY <1>1 DEF DealRow
  <2>2. Stages[d.stage[2]].probability \in 0..100
    <3>. DEFINE Stage == [won : BOOLEAN, lost : BOOLEAN, probability : 0..100]
    <3>1. Stages \in Seq(Stage)
      BY SalesAssumption
    <3>. HIDE DEF Stage
    <3>2. Stages[d.stage[2]] \in Stage
      BY <2>1, <3>1
    <3>. QED  BY <3>2 DEF Stage
  <2>. QED  BY <2>2 DEF Weight, StageOf
<1>. QED  BY <1>4, <1>5

\* The deals of a quarter are those of its months, each in one.
LEMMA QuarterDue ==
  ASSUME NEW y \in Nat, NEW n \in 1..4
  PROVE  /\ Due(Quarter(y, n)) = Due(Month(y, 3 * (n - 1) + 1)) \cup Due(Month(y, 3 * (n - 1) + 2))
                                  \cup Due(Month(y, 3 * (n - 1) + 3))
         /\ \A i, j \in 1..3 : i # j =>
              Due(Month(y, 3 * (n - 1) + i)) \cap Due(Month(y, 3 * (n - 1) + j)) = {}
<1>. DEFINE first == 12 * y + 3 * (n - 1) + 1
            In(i) == {first + i - 1}
<1>1. first \in Nat /\ first >= 1
  OBVIOUS
<1>2. \A i \in 1..3 : /\ Month(y, 3 * (n - 1) + i).from = first + i - 1
                      /\ Month(y, 3 * (n - 1) + i).to = first + i
  <2>. SUFFICES ASSUME NEW i \in 1..3
                PROVE  /\ Month(y, 3 * (n - 1) + i).from = first + i - 1
                       /\ Month(y, 3 * (n - 1) + i).to = first + i
    OBVIOUS
  <2>1. CASE n = 4 /\ i = 3
    BY <2>1 DEF Month
  <2>2. CASE ~(n = 4 /\ i = 3)
    <3>1. 3 * (n - 1) + i # 12
      BY <2>2
    <3>. QED  BY <3>1 DEF Month
  <2>. QED  BY <2>1, <2>2
<1>3. Quarter(y, n).from = first /\ Quarter(y, n).to = first + 3
  <2>1. CASE n = 4
    BY <2>1 DEF Quarter
  <2>2. CASE n # 4
    BY <2>2 DEF Quarter
  <2>. QED  BY <2>1, <2>2
<1>. HIDE DEF first
<1>4. \A i \in 1..3 : (first + i - 1)..(first + i - 1) = In(i)
  BY <1>1
<1>5. \A i \in 1..3 : Due(Month(y, 3 * (n - 1) + i)) = {d \in deals : ~d.deleted /\ d.due \in In(i)}
  <2>1. \A i \in 1..3 : (first + i) - 1 = first + i - 1
    BY <1>1
  <2>. QED  BY <1>2, <1>4, <2>1 DEF Due
<1>6. first..(first + 3 - 1) = In(1) \cup In(2) \cup In(3)
  BY <1>1
<1>7. Due(Quarter(y, n)) = {d \in deals : ~d.deleted /\ d.due \in In(1) \cup In(2) \cup In(3)}
  <2>1. (first + 3) - 1 = first + 3 - 1
    BY <1>1
  <2>. QED  BY <1>3, <1>6, <2>1 DEF Due
<1>8. \A i, j \in 1..3 : i # j => In(i) \cap In(j) = {}
  BY <1>1
<1>. HIDE DEF In
<1>9. ASSUME NEW i \in 1..3, NEW j \in 1..3, i # j
      PROVE  Due(Month(y, 3 * (n - 1) + i)) \cap Due(Month(y, 3 * (n - 1) + j)) = {}
  BY <1>5, <1>8, <1>9
<1>10. /\ Due(Month(y, 3 * (n - 1) + 1)) = {d \in deals : ~d.deleted /\ d.due \in In(1)}
       /\ Due(Month(y, 3 * (n - 1) + 2)) = {d \in deals : ~d.deleted /\ d.due \in In(2)}
       /\ Due(Month(y, 3 * (n - 1) + 3)) = {d \in deals : ~d.deleted /\ d.due \in In(3)}
  BY <1>5
<1>. QED  BY <1>7, <1>9, <1>10

\* Three disjoint parts of S, and what w gives of it being a count.
InThree(S, A, B, C) ==
  S = A \cup B \cup C /\ A \cap B = {} /\ A \cap C = {} /\ B \cap C = {}
NatOn(w, S) == \A d \in S : w[d] \in Nat

\* What a set comes to is what three disjoint parts of it come to, and so is its size.
LEMMA TotalOfThree ==
  ASSUME NEW S, IsFiniteSet(S), NEW w, NatOn(w, S), NEW A, NEW B, NEW C, InThree(S, A, B, C)
  PROVE  /\ Total(w, S) = Total(w, A) + Total(w, B) + Total(w, C)
         /\ Total(w, A) \in Nat /\ Total(w, B) \in Nat /\ Total(w, C) \in Nat
<1>1. /\ A \in SUBSET S /\ B \in SUBSET S /\ C \in SUBSET S /\ A \cup B \in SUBSET S
      /\ A \cap B = {} /\ (A \cup B) \cap C = {} /\ (A \cup B) \cup C = S
      /\ \A d \in S : w[d] \in Nat
  BY DEF InThree, NatOn
<1>2. /\ Total(w, (A \cup B) \cup C) = Total(w, A \cup B) + Total(w, C)
      /\ Total(w, A \cup B) = Total(w, A) + Total(w, B)
  <2>1. \A X, Y \in SUBSET S : X \cap Y = {} => Total(w, X \cup Y) = Total(w, X) + Total(w, Y)
    BY <1>1, TotalFacts
  <2>. QED  BY <1>1, <2>1
<1>3. Total(w, A) \in Nat /\ Total(w, B) \in Nat /\ Total(w, C) \in Nat
  BY <1>1, TotalFacts
<1>4. Total(w, S) = Total(w, A \cup B) + Total(w, C)
  BY <1>1, <1>2
<1>. QED  BY <1>2, <1>3, <1>4

LEMMA CountOfThree ==
  ASSUME NEW S, IsFiniteSet(S), NEW A, NEW B, NEW C, InThree(S, A, B, C)
  PROVE  /\ Cardinality(S) = Cardinality(A) + Cardinality(B) + Cardinality(C)
         /\ Cardinality(A) \in Nat /\ Cardinality(B) \in Nat /\ Cardinality(C) \in Nat
<1>0. /\ IsFiniteSet(A) /\ IsFiniteSet(B) /\ IsFiniteSet(C)
      /\ A \cap B = {} /\ (A \cup B) \cap C = {} /\ (A \cup B) \cup C = S
  <2>1. A \in SUBSET S /\ B \in SUBSET S /\ C \in SUBSET S
    BY DEF InThree
  <2>2. IsFiniteSet(A) /\ IsFiniteSet(B) /\ IsFiniteSet(C)
    BY <2>1, FS_Subset
  <2>. QED  BY <2>2 DEF InThree
<1>1. /\ IsFiniteSet(A \cup B) /\ Cardinality(A \cup B) = Cardinality(A) + Cardinality(B) - Cardinality(A \cap B)
  BY <1>0, FS_Union
<1>2. Cardinality((A \cup B) \cup C) = Cardinality(A \cup B) + Cardinality(C) - Cardinality((A \cup B) \cap C)
  BY <1>0, <1>1, FS_Union
<1>3. Cardinality({}) = 0
  BY FS_EmptySet
<1>4. Cardinality(A) \in Nat /\ Cardinality(B) \in Nat /\ Cardinality(C) \in Nat
  BY <1>0, FS_CardinalityType
<1>5. Cardinality((A \cup B) \cap C) = 0 /\ Cardinality(A \cap B) = 0
  BY <1>0, <1>3
<1>6. Cardinality(S) = Cardinality(A \cup B) + Cardinality(C) - Cardinality((A \cup B) \cap C)
  BY <1>0, <1>2
<1>. QED  BY <1>1, <1>4, <1>5, <1>6

LEMMA OneToThree == IsFiniteSet(1..3)
<1>1. \A a, b \in Nat : IsFiniteSet(a..b)
  BY FS_Interval
<1>. QED  BY <1>1

\* A sum over the three months of a quarter.
LEMMA ThreeMonths ==
  ASSUME NEW g, \A i \in 1..3 : g[i] \in Nat, NEW h, Sums(h, g, 1..3)
  PROVE  h[1..3] = g[1] + g[2] + g[3]
<1>1. IsFiniteSet(1..3) /\ 1..3 \in SUBSET (1..3) /\ 1..3 = {1} \cup {2} \cup {3}
  <2>1. IsFiniteSet(1..3)
    BY OneToThree
  <2>. QED  BY <2>1
<1>2. Total(g, 1..3) = h[1..3]
  BY <1>1, TotalOf
<1>3. Total(g, {1}) = g[1] /\ Total(g, {2}) = g[2] /\ Total(g, {3}) = g[3]
  BY <1>1, TotalFacts
<1>4. {1} \cap {2} = {} /\ {1} \cap {3} = {} /\ {2} \cap {3} = {}
  OBVIOUS
<1>5. Total(g, 1..3) = Total(g, {1}) + Total(g, {2}) + Total(g, {3})
  <2>. DEFINE S == 1..3
  <2>1. IsFiniteSet(S) /\ NatOn(g, S) /\ InThree(S, {1}, {2}, {3})
    BY <1>1, <1>4 DEF InThree, NatOn
  <2>. HIDE DEF S
  <2>2. Total(g, S) = Total(g, {1}) + Total(g, {2}) + Total(g, {3})
    BY <2>1, TotalOfThree
  <2>. QED  BY <2>2 DEF S
<1>. QED  BY <1>2, <1>3, <1>5

\* The sum of a column of three forecasts, and of their deals.
LEMMA WeightedOfMonths ==
  ASSUME NEW months, \A i \in 1..3 : months[i].weighted \in Nat
  PROVE  MapThenSumSet(LAMBDA i : months[i].weighted, 1..3)
           = months[1].weighted + months[2].weighted + months[3].weighted
<1>. DEFINE g == [i \in 1..3 |-> months[i].weighted]
            P(k) == k = [s \in SUBSET (1..3) |->
                           IF s = {} THEN 0 ELSE months[Chosen(s)].weighted + k[s \ {Chosen(s)}]]
<1>1. MapThenSumSet(LAMBDA i : months[i].weighted, 1..3) = (CHOOSE k : P(k))[1..3]
  BY DEF MapThenSumSet, MapThenFoldSet, Chosen
<1>2. \A s \in SUBSET (1..3) : s # {} => g[Chosen(s)] = months[Chosen(s)].weighted
  BY Rest
<1>3. ASSUME NEW k PROVE P(k) <=> Sums(k, g, 1..3)
  <2>. HIDE DEF g
  <2>1. [s \in SUBSET (1..3) |-> IF s = {} THEN 0 ELSE months[Chosen(s)].weighted + k[s \ {Chosen(s)}]]
          = [s \in SUBSET (1..3) |-> IF s = {} THEN 0 ELSE g[Chosen(s)] + k[s \ {Chosen(s)}]]
    BY <1>2
  <2>. QED  BY <2>1 DEF Sums
<1>4. \E k : P(k)
  <2>1. IsFiniteSet(1..3)
    BY OneToThree
  <2>. HIDE DEF g, P
  <2>2. \E k : Sums(k, g, 1..3)
    BY <2>1, SumsExist
  <2>. QED  BY <1>3, <2>2
<1>. HIDE DEF P
<1>5. PICK k : P(k) /\ (CHOOSE h : P(h)) = k
  BY <1>4
<1>6. Sums(k, g, 1..3) /\ \A i \in 1..3 : g[i] \in Nat
  BY <1>3, <1>5
<1>. HIDE DEF g
<1>7. k[1..3] = g[1] + g[2] + g[3]
  BY <1>6, ThreeMonths
<1>8. g[1] = months[1].weighted /\ g[2] = months[2].weighted /\ g[3] = months[3].weighted
  BY DEF g
<1>9. MapThenSumSet(LAMBDA i : months[i].weighted, 1..3) = k[1..3]
  BY <1>1, <1>5
<1>. QED  BY <1>7, <1>8, <1>9

LEMMA CountOfMonths ==
  ASSUME NEW months, \A i \in 1..3 : months[i].open + months[i].won + months[i].lost \in Nat
  PROVE  MapThenSumSet(LAMBDA i : months[i].open + months[i].won + months[i].lost, 1..3)
           = (months[1].open + months[1].won + months[1].lost)
             + (months[2].open + months[2].won + months[2].lost)
             + (months[3].open + months[3].won + months[3].lost)
<1>. DEFINE g == [i \in 1..3 |-> months[i].open + months[i].won + months[i].lost]
            At(i) == months[i].open + months[i].won + months[i].lost
            P(k) == k = [s \in SUBSET (1..3) |->
                           IF s = {} THEN 0 ELSE At(Chosen(s)) + k[s \ {Chosen(s)}]]
<1>1. MapThenSumSet(LAMBDA i : months[i].open + months[i].won + months[i].lost, 1..3)
        = (CHOOSE k : P(k))[1..3]
  BY DEF MapThenSumSet, MapThenFoldSet, Chosen
<1>2. \A s \in SUBSET (1..3) : s # {} => g[Chosen(s)] = At(Chosen(s))
  BY Rest
<1>3. ASSUME NEW k PROVE P(k) <=> Sums(k, g, 1..3)
  <2>. HIDE DEF g, At
  <2>1. [s \in SUBSET (1..3) |-> IF s = {} THEN 0 ELSE At(Chosen(s)) + k[s \ {Chosen(s)}]]
          = [s \in SUBSET (1..3) |-> IF s = {} THEN 0 ELSE g[Chosen(s)] + k[s \ {Chosen(s)}]]
    BY <1>2
  <2>. QED  BY <2>1 DEF Sums
<1>4. \E k : P(k)
  <2>1. IsFiniteSet(1..3)
    BY OneToThree
  <2>. HIDE DEF g, P
  <2>2. \E k : Sums(k, g, 1..3)
    BY <2>1, SumsExist
  <2>. QED  BY <1>3, <2>2
<1>. HIDE DEF P
<1>5. PICK k : P(k) /\ (CHOOSE h : P(h)) = k
  BY <1>4
<1>6. Sums(k, g, 1..3) /\ \A i \in 1..3 : g[i] \in Nat
  BY <1>3, <1>5
<1>. HIDE DEF g
<1>7. k[1..3] = g[1] + g[2] + g[3]
  BY <1>6, ThreeMonths
<1>8. g[1] = At(1) /\ g[2] = At(2) /\ g[3] = At(3)
  BY DEF g
<1>9. MapThenSumSet(LAMBDA i : months[i].open + months[i].won + months[i].lost, 1..3) = k[1..3]
  BY <1>1, <1>5
<1>. QED  BY <1>7, <1>8, <1>9

\* c sorts S into the classes D, and f holds what each class comes to.
ClassesIn(c, S, D) == \A x \in S : c[x] \in D
ClassSums(f, g, c, S, D) == \A s \in D : f[s] = Total(g, {x \in S : c[x] = s})

LEMMA TotalByClasses ==
  ASSUME NEW S, IsFiniteSet(S), NEW g, NatOn(g, S), NEW D, IsFiniteSet(D), NEW c,
         ClassesIn(c, S, D), NEW f, ClassSums(f, g, c, S, D)
  PROVE  Total(f, D) = Total(g, S)
<1>1. /\ \A x \in S : g[x] \in Nat
      /\ \A x \in S : c[x] \in D
      /\ \A s \in D : f[s] = Total(g, {x \in S : c[x] = s})
  BY DEF NatOn, ClassesIn, ClassSums
<1>. QED  BY <1>1, TotalByClass

\* The three sums of a forecast, of one quarter.
LEMMA QuarterAdds ==
  ASSUME SalesInv, NEW y \in Nat, NEW n \in 1..4
  PROVE  LET all == Forecast(Quarter(y, n))
             months == [i \in 1..3 |-> Forecast(Month(y, 3 * (n - 1) + i))]
             Count(f) == f.open + f.won + f.lost
         IN /\ Count(all) = MapThenSumSet(LAMBDA i : Count(months[i]), 1..3)
            /\ all.weighted = MapThenSumSet(LAMBDA i : months[i].weighted, 1..3)
            /\ all.weighted = MapThenSumSet(LAMBDA s : all.byStage[s], DOMAIN all.byStage)
<1>. DEFINE all == Forecast(Quarter(y, n))
            months == [i \in 1..3 |-> Forecast(Month(y, 3 * (n - 1) + i))]
            w == [d \in deals |-> Weight(d)]
            S == Due(Quarter(y, n))
            D(i) == Due(Month(y, 3 * (n - 1) + i))
            With(status) == {d \in deals : d.status = status}
<1>1. /\ S = D(1) \cup D(2) \cup D(3)
      /\ D(1) \cap D(2) = {} /\ D(1) \cap D(3) = {} /\ D(2) \cap D(3) = {}
  BY QuarterDue
<1>2. S \subseteq deals /\ \A i \in 1..3 : D(i) \subseteq deals
  BY DEF Due
<1>3. IsFiniteSet(S) /\ (\A i \in 1..3 : IsFiniteSet(D(i))) /\ \A d \in deals : w[d] \in Nat /\ w[d] = Weight(d)
  <2>1. IsFiniteSet(deals) /\ \A d \in deals : Weight(d) \in Nat
    BY DealsAreFinite
  <2>. HIDE DEF S, D
  <2>2. \A T \in SUBSET deals : IsFiniteSet(T)
    BY <2>1, FS_Subset
  <2>. QED  BY <1>2, <2>1, <2>2
<1>4. /\ all.open = Cardinality(S \cap With("open")) /\ all.won = Cardinality(S \cap With("won"))
      /\ all.lost = Cardinality(S \cap With("lost"))
      /\ all.weighted = MapThenSumSet(Weight, S) /\ all.byStage = ByStage(S)
  <2>1. /\ {d \in S : d.status = "open"} = S \cap With("open")
        /\ {d \in S : d.status = "won"} = S \cap With("won")
        /\ {d \in S : d.status = "lost"} = S \cap With("lost")
    BY <1>2
  <2>. HIDE DEF S, With
  <2>2. all = [open |-> Cardinality({d \in S : d.status = "open"}),
               won |-> Cardinality({d \in S : d.status = "won"}),
               lost |-> Cardinality({d \in S : d.status = "lost"}),
               weighted |-> MapThenSumSet(Weight, S), byStage |-> ByStage(S)]
    BY DEF Forecast, S
  <2>. HIDE DEF all
  <2>. QED  BY <2>1, <2>2
<1>5. ASSUME NEW i \in 1..3
      PROVE  /\ months[i].open = Cardinality(D(i) \cap With("open"))
             /\ months[i].won = Cardinality(D(i) \cap With("won"))
             /\ months[i].lost = Cardinality(D(i) \cap With("lost"))
             /\ months[i].weighted = MapThenSumSet(Weight, D(i))
  <2>1. /\ {d \in D(i) : d.status = "open"} = D(i) \cap With("open")
        /\ {d \in D(i) : d.status = "won"} = D(i) \cap With("won")
        /\ {d \in D(i) : d.status = "lost"} = D(i) \cap With("lost")
    BY <1>2
  <2>. HIDE DEF D, With
  <2>2. months[i] = [open |-> Cardinality({d \in D(i) : d.status = "open"}),
                     won |-> Cardinality({d \in D(i) : d.status = "won"}),
                     lost |-> Cardinality({d \in D(i) : d.status = "lost"}),
                     weighted |-> MapThenSumSet(Weight, D(i)), byStage |-> ByStage(D(i))]
    BY DEF Forecast, D
  <2>. DEFINE month == months[i]
  <2>3. month = [open |-> Cardinality(D(i) \cap With("open")),
                 won |-> Cardinality(D(i) \cap With("won")),
                 lost |-> Cardinality(D(i) \cap With("lost")),
                 weighted |-> MapThenSumSet(Weight, D(i)), byStage |-> ByStage(D(i))]
    BY <2>1, <2>2
  <2>. HIDE DEF month
  <2>4. /\ month.open = Cardinality(D(i) \cap With("open"))
        /\ month.won = Cardinality(D(i) \cap With("won"))
        /\ month.lost = Cardinality(D(i) \cap With("lost"))
        /\ month.weighted = MapThenSumSet(Weight, D(i))
    BY <2>3
  <2>. QED  BY <2>4 DEF month
<1>. DEFINE A == D(1)
            B == D(2)
            C == D(3)
<1>A. /\ S = A \cup B \cup C /\ A \cap B = {} /\ A \cap C = {} /\ B \cap C = {}
      /\ IsFiniteSet(S) /\ NatOn(w, S) /\ InThree(S, A, B, C)
  <2>. HIDE DEF S, D, w
  <2>. QED  BY <1>1, <1>2, <1>3 DEF NatOn, InThree
<1>. HIDE DEF all, months, S, D, w, With, A, B, C
<1>6. /\ all.weighted = Total(w, S)
      /\ \A i \in 1..3 : months[i].weighted = Total(w, D(i))
  <2>1. MapThenSumSet(Weight, S) = Total(w, S)
    BY <1>2, <1>3, WeightTotal
  <2>2. ASSUME NEW i \in 1..3 PROVE MapThenSumSet(Weight, D(i)) = Total(w, D(i))
    BY <1>2, <1>3, WeightTotal
  <2>. QED  BY <1>4, <1>5, <2>1, <2>2
<1>7. all.weighted = MapThenSumSet(LAMBDA i : months[i].weighted, 1..3)
  <2>1. /\ Total(w, S) = Total(w, D(1)) + Total(w, D(2)) + Total(w, D(3))
        /\ Total(w, D(1)) \in Nat /\ Total(w, D(2)) \in Nat /\ Total(w, D(3)) \in Nat
    <3>1. /\ Total(w, S) = Total(w, A) + Total(w, B) + Total(w, C)
          /\ Total(w, A) \in Nat /\ Total(w, B) \in Nat /\ Total(w, C) \in Nat
      BY <1>A, TotalOfThree
    <3>. QED  BY <3>1 DEF A, B, C
  <2>2. \A i \in 1..3 : i = 1 \/ i = 2 \/ i = 3
    OBVIOUS
  <2>3. \A i \in 1..3 : months[i].weighted \in Nat
    BY <1>6, <2>1, <2>2
  <2>4. MapThenSumSet(LAMBDA i : months[i].weighted, 1..3)
          = months[1].weighted + months[2].weighted + months[3].weighted
    BY <2>3, WeightedOfMonths
  <2>. QED  BY <1>6, <2>1, <2>4
<1>8. all.open + all.won + all.lost
        = MapThenSumSet(LAMBDA i : months[i].open + months[i].won + months[i].lost, 1..3)
  <2>1. ASSUME NEW P
        PROVE  /\ Cardinality(S \cap P)
                    = Cardinality(D(1) \cap P) + Cardinality(D(2) \cap P) + Cardinality(D(3) \cap P)
               /\ \A i \in 1..3 : Cardinality(D(i) \cap P) \in Nat
    <3>1. /\ Cardinality(S \cap P)
               = Cardinality(D(1) \cap P) + Cardinality(D(2) \cap P) + Cardinality(D(3) \cap P)
          /\ Cardinality(D(1) \cap P) \in Nat /\ Cardinality(D(2) \cap P) \in Nat /\ Cardinality(D(3) \cap P) \in Nat
      <4>1. /\ Cardinality(S \cap P)
                 = Cardinality(A \cap P) + Cardinality(B \cap P) + Cardinality(C \cap P)
            /\ Cardinality(A \cap P) \in Nat /\ Cardinality(B \cap P) \in Nat /\ Cardinality(C \cap P) \in Nat
        <5>. DEFINE T == S \cap P
                    X == A \cap P
                    Y == B \cap P
                    Z == C \cap P
        <5>1. IsFiniteSet(T) /\ InThree(T, X, Y, Z)
          BY <1>A, FS_Subset DEF InThree
        <5>. HIDE DEF T, X, Y, Z
        <5>2. /\ Cardinality(T) = Cardinality(X) + Cardinality(Y) + Cardinality(Z)
              /\ Cardinality(X) \in Nat /\ Cardinality(Y) \in Nat /\ Cardinality(Z) \in Nat
          BY <5>1, CountOfThree
        <5>. QED  BY <5>2 DEF T, X, Y, Z
      <4>. QED  BY <4>1 DEF A, B, C
    <3>2. \A i \in 1..3 : i = 1 \/ i = 2 \/ i = 3
      OBVIOUS
    <3>. QED  BY <3>1, <3>2
  <2>2. ASSUME NEW i \in 1..3
        PROVE  /\ months[i].open \in Nat /\ months[i].won \in Nat /\ months[i].lost \in Nat
               /\ months[i].open + months[i].won + months[i].lost \in Nat
    <3>. DEFINE M == months[i]
    <3>1. /\ M.open = Cardinality(D(i) \cap With("open"))
          /\ M.won = Cardinality(D(i) \cap With("won"))
          /\ M.lost = Cardinality(D(i) \cap With("lost"))
      BY <1>5
    <3>2. /\ Cardinality(D(i) \cap With("open")) \in Nat /\ Cardinality(D(i) \cap With("won")) \in Nat
          /\ Cardinality(D(i) \cap With("lost")) \in Nat
      BY <2>1
    <3>3. M.open \in Nat /\ M.won \in Nat /\ M.lost \in Nat
      BY <3>1, <3>2
    <3>. QED  BY <3>3
  <2>. DEFINE counted == MapThenSumSet(LAMBDA i : months[i].open + months[i].won + months[i].lost, 1..3)
  <2>3. MapThenSumSet(LAMBDA i : months[i].open + months[i].won + months[i].lost, 1..3)
          = (months[1].open + months[1].won + months[1].lost)
             + (months[2].open + months[2].won + months[2].lost)
             + (months[3].open + months[3].won + months[3].lost)
    BY <2>2, CountOfMonths
  <2>4. /\ all.open = months[1].open + months[2].open + months[3].open
        /\ all.won = months[1].won + months[2].won + months[3].won
        /\ all.lost = months[1].lost + months[2].lost + months[3].lost
    <3>1. 1 \in 1..3 /\ 2 \in 1..3 /\ 3 \in 1..3
      OBVIOUS
    <3>. QED  BY <1>4, <1>5, <2>1, <3>1
  <2>5. \A i \in {1, 2, 3} : months[i].open \in Nat /\ months[i].won \in Nat /\ months[i].lost \in Nat
    BY <2>2
  <2>6. counted = (months[1].open + months[1].won + months[1].lost)
                  + (months[2].open + months[2].won + months[2].lost)
                  + (months[3].open + months[3].won + months[3].lost)
    BY <2>3
  <2>. HIDE DEF counted
  <2>7. all.open + all.won + all.lost = counted
    BY <2>4, <2>5, <2>6
  <2>. QED  BY <2>7 DEF counted
<1>9. all.weighted = MapThenSumSet(LAMBDA s : all.byStage[s], DOMAIN all.byStage)
  <2>. DEFINE c == [d \in S |-> d.stage]
              stages == {d.stage : d \in S}
  <2>1. IsFiniteSet(stages)
    <3>1. c \in Surjection(S, stages)
      BY DEF Surjection
    <3>. QED  BY <1>3, <3>1, FS_Surjection
  <2>2. /\ all.byStage = [s \in stages |-> MapThenSumSet(Weight, {d \in S : d.stage = s})]
        /\ \A d \in S : c[d] = d.stage /\ d.stage \in stages
    BY <1>4 DEF ByStage
  <2>. HIDE DEF c, stages
  <2>3. ASSUME NEW s \in stages PROVE all.byStage[s] = Total(w, {d \in S : c[d] = s})
    <3>. DEFINE T == {d \in S : d.stage = s}
    <3>1. T \in SUBSET S /\ T = {d \in S : c[d] = s} /\ all.byStage[s] = MapThenSumSet(Weight, T)
      BY <2>2
    <3>. HIDE DEF T
    <3>2. IsFiniteSet(T)
      BY <1>3, <3>1, FS_Subset
    <3>3. MapThenSumSet(Weight, T) = Total(w, T)
      BY <1>2, <1>3, <3>1, <3>2, WeightTotal
    <3>. QED  BY <3>1, <3>3
  <2>. DEFINE f == all.byStage
  <2>4. Total(f, stages) = Total(w, S)
    <3>1. \A x \in S : w[x] \in Nat /\ c[x] \in stages
      BY <1>2, <1>3, <2>2
    <3>2. \A s \in stages : f[s] = Total(w, {d \in S : c[d] = s})
      BY <2>3
    <3>3. \A x \in S : w[x] \in Nat
      BY <3>1
    <3>4. \A x \in S : c[x] \in stages
      BY <3>1
    <3>5. IsFiniteSet(S)
      BY <1>3
    <3>. HIDE DEF f
    <3>6. NatOn(w, S) /\ ClassesIn(c, S, stages) /\ ClassSums(f, w, c, S, stages)
      BY <3>2, <3>3, <3>4 DEF NatOn, ClassesIn, ClassSums
    <3>. QED  BY <2>1, <3>5, <3>6, TotalByClasses
  <2>5. MapThenSumSet(LAMBDA s : all.byStage[s], DOMAIN all.byStage) = Total(f, stages)
    <3>1. DOMAIN f = stages
      BY <2>2
    <3>2. MapThenSumSet(LAMBDA s : f[s], DOMAIN f) = Total(f, DOMAIN f)
      BY SumIsTotal
    <3>. QED  BY <3>1, <3>2
  <2>. QED  BY <1>6, <2>4, <2>5
<1>. QED  BY <1>7, <1>8, <1>9 DEF all, months

\* forecast: that of a quarter is what those of its months come to, and its stages
\* come to the whole.
THEOREM QuartersAdd == SalesSpec => []QuarterIsItsMonths
<1>1. SalesInv => QuarterIsItsMonths
  <2>. SUFFICES ASSUME SalesInv PROVE QuarterIsItsMonths
    OBVIOUS
  <2>1. \A y \in {(m - 1) \div 12 : m \in Months} : y \in Nat
    <3>1. Months \subseteq Nat \ 0..12
      BY SalesAssumption
    <3>2. \A m \in Nat \ 0..12 : (m - 1) \div 12 \in Nat
      OBVIOUS
    <3>. QED  BY <3>1, <3>2
  <2>. QED  BY <2>1, QuarterAdds DEF QuarterIsItsMonths
<1>. QED  BY <1>1, SalesInvariance, PTL
=============================================================================
