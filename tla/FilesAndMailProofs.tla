------------------------- MODULE FilesAndMailProofs -------------------------
(* Two components of the service that share no state, for any number of     *)
(* files, requests, pollers, messages and versions of a calendar.           *)
(* FileStore: the two stores and the timeline keep to LiveHasBody,          *)
(* BodyHasRow and AttachmentsTraced.  Inbound: the watermark, the ETag and  *)
(* the timeline keep to NothingSkipped, MailTakenOnce, EtagMeansSynced and  *)
(* SentIsNoted.                                                             *)
EXTENDS FileStore, Inbound, FiniteSetTheorems, WellFoundedInduction, TLAPS

-----------------------------------------------------------------------------
(***************************************************************************)
(* FileStore.                                                              *)
(***************************************************************************)
\* What a request under way knows of its file: an upload is alone with a file
\* that has no row, every other request's file has one, and a deletion that has
\* removed the object is not undone by anybody.
CallInv(r) ==
  LET f == call[r].file IN
  /\ call[r].step \in {"put", "insert"} =>
       row[f].state = "none" /\ \A q \in Requests \ {r} : call[q].file # f
  /\ call[r].step \in {"trace", "purge", "mark", "get"} => row[f].state # "none"
  /\ At(r, "insert") => f \in object
  /\ At(r, "trace") => row[f].linked
  /\ At(r, "mark") => f \notin object

FileInv ==
  /\ TypeOK
  /\ \A r \in Requests : CallInv(r)
  /\ \A f \in Files : row[f].state = "none" => ~row[f].linked
  /\ LiveHasBody
  /\ BodyHasRow
  /\ AttachmentsTraced

-----------------------------------------------------------------------------
LEMMA InitInv == Init => FileInv
BY FileAssumption DEF Init, FileInv, TypeOK, CallInv, LiveHasBody, BodyHasRow, AttachmentsTraced,
      At, On, Live, Pending, Row, Call, NoRow, Idle

\* The file of a request under way is a file.
LEMMA Busy ==
  ASSUME TypeOK, NEW r \in Requests, ~At(r, "idle")
  PROVE  call[r] \in Call /\ call[r].file \in Files
BY DEF TypeOK, At, Call

LEMMA UploadKeeps ==
  ASSUME FileInv, NEW r \in Requests, NEW f \in Files, NEW linked \in BOOLEAN,
         Upload(r, f, linked)
  PROVE  FileInv'
<1>1. TypeOK'
  BY FileAssumption DEF FileInv, TypeOK, Upload, At, Call, Row
<1>2. ASSUME NEW q \in Requests PROVE CallInv(q)'
  BY <1>1 DEF FileInv, TypeOK, CallInv, Upload, Fresh, At, Call
<1>3. ASSUME NEW q \in Requests, NEW g \in Files, NEW step \in {"mark", "insert", "trace"}
      PROVE  On(q, g, step) => On(q, g, step)'
  BY DEF FileInv, TypeOK, Upload, On, At, Call
<1>4. (LiveHasBody /\ BodyHasRow /\ AttachmentsTraced)'
  BY <1>3 DEF FileInv, TypeOK, LiveHasBody, BodyHasRow, AttachmentsTraced, Pending, Live, Upload
<1> QED BY <1>1, <1>2, <1>4 DEF FileInv, Upload

LEMMA UploadPutKeeps ==
  ASSUME FileInv, NEW r \in Requests, UploadPut(r)
  PROVE  FileInv'
<1> DEFINE f == call[r].file
<1>1. f \in Files /\ call[r] \in Call
  BY Busy DEF FileInv, UploadPut, At
<1>2. /\ object' = object \cup {f}
      /\ call' = [call EXCEPT ![r].step = "insert"]
      /\ row' = row /\ events' = events /\ cut' = cut /\ call[r].step = "put"
  BY DEF UploadPut, Stored, Go, At
<1>3. TypeOK'
  BY <1>1, <1>2, FileAssumption DEF FileInv, TypeOK, Call
<1>4. ASSUME NEW q \in Requests PROVE CallInv(q)'
  <2>1. CASE q = r
    BY <1>1, <1>2, <2>1 DEF FileInv, TypeOK, CallInv, At, Call
  <2>2. CASE q # r
    <3>1. call'[q] = call[q] /\ call[q].file # f
      BY <1>1, <1>2, <2>2 DEF FileInv, TypeOK, CallInv, Call
    <3>2. \A p \in Requests : call'[p].file = call[p].file
      BY <1>1, <1>2 DEF FileInv, TypeOK, Call
    <3> QED BY <1>2, <3>1, <3>2 DEF FileInv, CallInv, At
  <2> QED BY <2>1, <2>2
<1>5. ASSUME NEW q \in Requests, NEW g \in Files, NEW step \in {"mark", "insert", "trace"}
      PROVE  On(q, g, step) => On(q, g, step)'
  BY <1>2 DEF FileInv, TypeOK, On, At, Call
<1>6. On(r, f, "insert")'
  BY <1>1, <1>2 DEF FileInv, TypeOK, On, At, Call
<1>7. (LiveHasBody /\ BodyHasRow /\ AttachmentsTraced)'
  BY <1>2, <1>5, <1>6 DEF FileInv, TypeOK, LiveHasBody, BodyHasRow, AttachmentsTraced, Pending, Live
<1> QED BY <1>2, <1>3, <1>4, <1>7 DEF FileInv

LEMMA UploadInsertKeeps ==
  ASSUME FileInv, NEW r \in Requests, UploadInsert(r)
  PROVE  FileInv'
<1>1. PICK f \in Files : f = call[r].file /\ call[r] \in Call
  BY Busy DEF FileInv, UploadInsert, At
<1> DEFINE new == [state |-> "live", linked |-> call[r].linked, sha256 |-> TRUE]
<1>2. /\ row' = [row EXCEPT ![f] = new]
      /\ object' = object /\ events' = events /\ cut' = cut /\ call[r].step = "insert"
      /\ call' = [call EXCEPT ![r] = IF call[r].linked THEN [@ EXCEPT !.step = "trace"] ELSE Idle]
  BY <1>1 DEF UploadInsert, Go, Stop, Traces, At, FileInv, TypeOK
<1>3. new \in Row /\ new.state = "live" /\ (new.linked <=> call[r].linked)
  BY <1>1 DEF Row, Call
<1>4. row'[f] = new /\ \A g \in Files \ {f} : row'[g] = row[g]
  BY <1>1, <1>2 DEF FileInv, TypeOK
<1> HIDE DEF new
<1>5. /\ call'[r] \in Call
      /\ call'[r].step \in {"idle", "trace"} /\ (call'[r].step = "idle" <=> call'[r].file = None)
      /\ call[r].linked => call'[r].step = "trace" /\ call'[r].file = f
      /\ call'[r].step = "trace" => call[r].linked
      /\ \A q \in Requests \ {r} : call'[q] = call[q] /\ call[q].file # f
  BY <1>1, <1>2, FileAssumption DEF FileInv, TypeOK, CallInv, Call, Idle
<1>6. TypeOK'
  <2>1. row' \in [Files -> Row]
    BY <1>1, <1>2, <1>3 DEF FileInv, TypeOK
  <2>2. events \subseteq {g \in Files : row'[g].linked}
    BY <1>1, <1>2, <1>4 DEF FileInv, TypeOK, CallInv
  <2>3. call' \in [Requests -> Call]
    BY <1>2, <1>5 DEF FileInv, TypeOK
  <2> QED BY <1>2, <1>5, <2>1, <2>2, <2>3 DEF FileInv, TypeOK
<1>7. ASSUME NEW q \in Requests PROVE CallInv(q)'
  <2>1. CASE q = r
    BY <1>1, <1>2, <1>3, <1>4, <1>5, <2>1 DEF CallInv, At
  <2>2. CASE q # r
    <3>1. call'[q] = call[q] /\ call[q].file # f
      BY <1>5, <2>2
    <3>2. row'[call[q].file] = row[call[q].file] \/ call[q].file \notin Files
      BY <1>4, <3>1
    <3>3. CASE ~At(q, "idle")
      <4>1. call[q].file \in Files /\ row'[call[q].file] = row[call[q].file]
        BY <3>2, <3>3, Busy DEF FileInv
      <4>2. call'[r].file \in {f, None}
        BY <1>2, <1>1, <1>5 DEF Idle, FileInv, TypeOK, Call
      <4>3. call[q].step \in {"put", "insert"} =>
              \A p \in Requests \ {q} : call'[p].file # call[q].file
        BY <1>5, <3>1, <4>1, <4>2, FileAssumption DEF FileInv, CallInv
      <4> QED BY <1>1, <1>2, <3>1, <4>1, <4>3 DEF FileInv, CallInv, At
    <3>4. CASE At(q, "idle")
      BY <3>1, <3>4 DEF CallInv, At
    <3> QED BY <3>3, <3>4
  <2> QED BY <2>1, <2>2
<1>8. ASSUME NEW q \in Requests, NEW g \in Files, NEW step \in {"mark", "insert", "trace"}, g # f
      PROVE  On(q, g, step) => On(q, g, step)'
  BY <1>1, <1>2, <1>5, <1>8 DEF On, At
<1>9. ASSUME NEW g \in Files, g # f
      PROVE  /\ Live(g)' => g \in (object \cup cut)' \/ Pending(g, "mark")'
             /\ g \in object' => Live(g)' \/ g \in cut' \/ Pending(g, "insert")'
             /\ row'[g].linked => g \in (events \cup cut)' \/ Pending(g, "trace")'
             /\ row'[g].state = "none" => ~row'[g].linked
  BY <1>2, <1>4, <1>8, <1>9 DEF FileInv, TypeOK, LiveHasBody, BodyHasRow, AttachmentsTraced, Pending, Live
<1>10. /\ Live(f)' /\ f \in object'
       /\ row'[f].linked => Pending(f, "trace")'
       /\ row'[f].state # "none"
  <2>1. Live(f)' /\ f \in object' /\ row'[f].state # "none"
    <3>1. f \in object
      BY <1>1, <1>2 DEF FileInv, CallInv, At
    <3>2. row'[f].state = "live"
      BY <1>3, <1>4
    <3> QED BY <1>2, <3>1, <3>2 DEF Live
  <2>2. row'[f].linked => call[r].linked
    BY <1>3, <1>4
  <2>3. call[r].linked => Pending(f, "trace")'
    BY <1>5 DEF Pending, On, At
  <2> QED BY <2>1, <2>2, <2>3
<1>11. /\ (LiveHasBody /\ BodyHasRow /\ AttachmentsTraced)'
       /\ \A g \in Files : row'[g].state = "none" => ~row'[g].linked
  <2>1. LiveHasBody'
    BY <1>9, <1>10 DEF LiveHasBody
  <2>2. BodyHasRow'
    <3> SUFFICES ASSUME NEW g \in object'
                 PROVE  Live(g)' \/ g \in cut' \/ Pending(g, "insert")'
      BY DEF BodyHasRow
    <3>1. g \in Files
      BY <1>6 DEF TypeOK
    <3> QED BY <1>9, <1>10, <3>1
  <2>3. AttachmentsTraced'
    <3> SUFFICES ASSUME NEW g \in Files, row'[g].linked
                 PROVE  g \in (events \cup cut)' \/ Pending(g, "trace")'
      BY DEF AttachmentsTraced
    <3> QED BY <1>9, <1>10
  <2>4. \A g \in Files : row'[g].state = "none" => ~row'[g].linked
    BY <1>9, <1>10
  <2> QED BY <2>1, <2>2, <2>3, <2>4
<1> QED BY <1>6, <1>7, <1>11 DEF FileInv

LEMMA UploadTraceKeeps ==
  ASSUME FileInv, NEW r \in Requests, UploadTrace(r)
  PROVE  FileInv'
<1> DEFINE f == call[r].file
<1>1. f \in Files /\ row[f].linked /\ call[r].step = "trace"
  BY Busy DEF FileInv, UploadTrace, At, CallInv
<1>2. /\ events' = events \cup {f} /\ call' = [call EXCEPT ![r] = Idle]
      /\ row' = row /\ object' = object /\ cut' = cut
  BY DEF UploadTrace, Stop
<1>3. TypeOK'
  BY <1>1, <1>2, FileAssumption DEF FileInv, TypeOK, Call, Idle
<1>4. ASSUME NEW q \in Requests PROVE CallInv(q)'
  BY <1>1, <1>2, FileAssumption, <1>3 DEF FileInv, TypeOK, CallInv, At, Idle, Call
<1>5. ASSUME NEW q \in Requests, NEW g \in Files, NEW step \in {"mark", "insert", "trace"},
             g # f \/ step # "trace"
      PROVE  On(q, g, step) => On(q, g, step)'
  BY <1>1, <1>2, <1>5 DEF FileInv, TypeOK, On, At
<1>6. (LiveHasBody /\ BodyHasRow)'
  BY <1>2, <1>5 DEF FileInv, TypeOK, LiveHasBody, BodyHasRow, Pending, Live
<1>7. AttachmentsTraced'
  BY <1>2, <1>5 DEF FileInv, AttachmentsTraced, Pending
<1> QED BY <1>2, <1>3, <1>4, <1>6, <1>7 DEF FileInv

\* Delete and Download take a file that has a live row.
LEMMA ReadKeeps ==
  ASSUME FileInv, NEW r \in Requests, NEW f \in Files, Delete(r, f) \/ Download(r, f)
  PROVE  FileInv'
<1>1. /\ Live(f) /\ call[r].step = "idle"
      /\ row' = row /\ object' = object /\ events' = events /\ cut' = cut
      /\ \E step \in {"purge", "get"} :
           call' = [call EXCEPT ![r] = [step |-> step, file |-> f, linked |-> FALSE]]
  BY DEF Delete, Download, At
<1>2. TypeOK'
  BY <1>1, FileAssumption DEF FileInv, TypeOK, Call
<1>3. ASSUME NEW q \in Requests PROVE CallInv(q)'
  <2>1. CASE q = r
    BY <1>1, <2>1 DEF FileInv, TypeOK, CallInv, At, Live
  <2>2. CASE q # r
    <3>1. call'[q] = call[q] /\ \A p \in Requests : call'[p].file \in {call[p].file, f}
      BY <1>1, <2>2 DEF FileInv, TypeOK
    <3>2. call[q].step \in {"put", "insert"} => call[q].file # f
      BY <1>1 DEF FileInv, CallInv, Live
    <3> QED BY <1>1, <3>1, <3>2 DEF FileInv, CallInv, At
  <2> QED BY <2>1, <2>2
<1>4. ASSUME NEW q \in Requests, NEW g \in Files, NEW step \in {"mark", "insert", "trace"}
      PROVE  On(q, g, step) => On(q, g, step)'
  BY <1>1 DEF FileInv, TypeOK, On, At
<1>5. (LiveHasBody /\ BodyHasRow /\ AttachmentsTraced)'
  BY <1>1, <1>4 DEF FileInv, TypeOK, LiveHasBody, BodyHasRow, AttachmentsTraced, Pending, Live
<1> QED BY <1>1, <1>2, <1>3, <1>5 DEF FileInv

LEMMA DeletePurgeKeeps ==
  ASSUME FileInv, NEW r \in Requests, DeletePurge(r)
  PROVE  FileInv'
<1> DEFINE f == call[r].file
<1>1. f \in Files /\ row[f].state # "none" /\ call[r].step = "purge"
  BY Busy DEF FileInv, DeletePurge, At, CallInv
<1>2. /\ object' = object \ {f} /\ call' = [call EXCEPT ![r].step = "mark"]
      /\ row' = row /\ events' = events /\ cut' = cut
  BY DEF DeletePurge, Purged, Go
<1>3. TypeOK'
  BY <1>1, <1>2 DEF FileInv, TypeOK, Call
<1>4. /\ call'[r].step = "mark" /\ \A q \in Requests : call'[q].file = call[q].file
      /\ \A q \in Requests \ {r} : call'[q] = call[q]
  BY <1>1, <1>2 DEF FileInv, TypeOK, Call
<1>5. ASSUME NEW q \in Requests PROVE CallInv(q)'
  BY <1>1, <1>2, <1>4 DEF FileInv, CallInv, At
<1>6. ASSUME NEW q \in Requests, NEW g \in Files, NEW step \in {"mark", "insert", "trace"}
      PROVE  On(q, g, step) => On(q, g, step)'
  BY <1>1, <1>4 DEF On, At
<1>7. Pending(f, "mark")'
  BY <1>4 DEF Pending, On, At
<1>8. (LiveHasBody /\ BodyHasRow /\ AttachmentsTraced)'
  BY <1>2, <1>6, <1>7 DEF FileInv, TypeOK, LiveHasBody, BodyHasRow, AttachmentsTraced, Pending, Live
<1> QED BY <1>2, <1>3, <1>5, <1>8 DEF FileInv

LEMMA DeleteMarkKeeps ==
  ASSUME FileInv, NEW r \in Requests, DeleteMark(r)
  PROVE  FileInv'
<1> DEFINE f == call[r].file
<1>1. f \in Files /\ row[f].state # "none" /\ f \notin object /\ call[r].step = "mark"
  BY Busy DEF FileInv, DeleteMark, At, CallInv
<1>2. /\ row' = [row EXCEPT ![f].state = "deleted"] /\ call' = [call EXCEPT ![r] = Idle]
      /\ object' = object /\ events' = events /\ cut' = cut
  BY DEF DeleteMark, Stop
<1>3. /\ row'[f].state = "deleted" /\ row' \in [Files -> Row]
      /\ \A g \in Files : row'[g].linked = row[g].linked
      /\ \A g \in Files \ {f} : row'[g] = row[g]
  BY <1>1, <1>2 DEF FileInv, TypeOK, Row
<1>4. TypeOK'
  BY <1>1, <1>2, <1>3, FileAssumption DEF FileInv, TypeOK, Call, Idle
<1>5. \A q \in Requests : call'[q] = call[q] \/ (q = r /\ call'[q] = Idle)
  BY <1>2 DEF FileInv, TypeOK
<1>6. ASSUME NEW q \in Requests PROVE CallInv(q)'
  <2>1. CASE q = r
    BY <1>2, <2>1 DEF FileInv, TypeOK, CallInv, At, Idle
  <2>2. CASE q # r /\ ~At(q, "idle")
    <3>1. call'[q] = call[q] /\ call[q].file \in Files
      BY <1>5, <2>2, Busy DEF FileInv
    <3>2. \A p \in Requests : call'[p].file \in {call[p].file, None}
      BY <1>5 DEF Idle
    <3>3. call[q].step \in {"put", "insert"} => call[q].file # f
      BY <1>1 DEF FileInv, CallInv
    <3> QED BY <1>1, <1>2, <1>3, <3>1, <3>2, <3>3, FileAssumption DEF FileInv, CallInv, At
  <2>3. CASE q # r /\ At(q, "idle")
    BY <1>5, <2>3 DEF CallInv, At
  <2> QED BY <2>1, <2>2, <2>3
<1>7. ASSUME NEW q \in Requests, NEW g \in Files, NEW step \in {"mark", "insert", "trace"},
             g # f \/ step # "mark"
      PROVE  On(q, g, step) => On(q, g, step)'
  BY <1>1, <1>5, <1>7 DEF On, At
<1>8. (LiveHasBody /\ BodyHasRow /\ AttachmentsTraced)'
  BY <1>1, <1>2, <1>3, <1>7 DEF FileInv, TypeOK, LiveHasBody, BodyHasRow, AttachmentsTraced, Pending, Live
<1> QED BY <1>2, <1>3, <1>4, <1>6, <1>8 DEF FileInv

\* A request that ends without an effect: the answer of a download, or a cut-off.
LEMMA EndKeeps ==
  ASSUME FileInv, NEW r \in Requests, DownloadGet(r) \/ Dies(r)
  PROVE  FileInv'
<1> DEFINE f == call[r].file
<1>1. f \in Files
  BY Busy DEF FileInv, DownloadGet, Dies, At
<1>2. /\ row' = row /\ object' = object /\ events' = events
      /\ call' = [call EXCEPT ![r] = Idle]
      /\ cut \subseteq cut' /\ cut' \subseteq cut \cup {f}
      /\ call[r].step \in {"insert", "trace", "mark"} => f \in cut'
  BY DEF DownloadGet, Dies, Stop, At
<1>3. TypeOK'
  BY <1>1, <1>2, FileAssumption DEF FileInv, TypeOK, Call, Idle
<1>4. \A q \in Requests : call'[q] = call[q] \/ (q = r /\ call'[q] = Idle)
  BY <1>2 DEF FileInv, TypeOK
<1>5. ASSUME NEW q \in Requests PROVE CallInv(q)'
  <2>1. CASE q = r
    BY <1>2, <2>1 DEF FileInv, TypeOK, CallInv, At, Idle
  <2>2. CASE q # r /\ ~At(q, "idle")
    <3>1. call'[q] = call[q] /\ call[q].file \in Files
      BY <1>4, <2>2, Busy DEF FileInv
    <3>2. \A p \in Requests : call'[p].file \in {call[p].file, None}
      BY <1>4 DEF Idle
    <3> QED BY <1>2, <3>1, <3>2, FileAssumption DEF FileInv, CallInv, At
  <2>3. CASE q # r /\ At(q, "idle")
    BY <1>4, <2>3 DEF CallInv, At
  <2> QED BY <2>1, <2>2, <2>3
<1>6. ASSUME NEW q \in Requests, NEW g \in Files, NEW step \in {"mark", "insert", "trace"},
             g \notin cut'
      PROVE  On(q, g, step) => On(q, g, step)'
  BY <1>2, <1>4, <1>6 DEF On, At
<1>7. (LiveHasBody /\ BodyHasRow /\ AttachmentsTraced)'
  BY <1>2, <1>6 DEF FileInv, TypeOK, LiveHasBody, BodyHasRow, AttachmentsTraced, Pending, Live
<1> QED BY <1>2, <1>3, <1>5, <1>7 DEF FileInv

\* The inductive invariant: every step of every request keeps it.
THEOREM Invariance == Spec => []FileInv
<1>1. FileInv /\ [Next]_vars => FileInv'
  <2> SUFFICES ASSUME FileInv, [Next]_vars PROVE FileInv'
    OBVIOUS
  <2>1. CASE UNCHANGED vars
    BY <2>1 DEF vars, FileInv, TypeOK, CallInv, LiveHasBody, BodyHasRow, AttachmentsTraced,
               At, On, Live, Pending
  <2>2. ASSUME NEW r \in Requests, RequestStep(r) PROVE FileInv'
    BY <2>2, UploadKeeps, UploadPutKeeps, UploadInsertKeeps, UploadTraceKeeps, ReadKeeps,
       DeletePurgeKeeps, DeleteMarkKeeps, EndKeeps DEF RequestStep
  <2> QED BY <2>1, <2>2 DEF Next
<1> QED BY <1>1, InitInv, PTL DEF Spec

\* The rows, the bucket, the timeline and the requests have their types, and only
\* files attached to an entity have events.
THEOREM FileTypes == Spec => []TypeOK
<1>1. FileInv => TypeOK
  BY DEF FileInv
<1> QED BY <1>1, Invariance, PTL

\* A live file has its body, for any number of overlapping requests.
THEOREM FileBodies == Spec => []LiveHasBody
<1>1. FileInv => LiveHasBody
  BY DEF FileInv
<1> QED BY <1>1, Invariance, PTL

\* The bucket keeps no body of a deleted file.
THEOREM FileRows == Spec => []BodyHasRow
<1>1. FileInv => BodyHasRow
  BY DEF FileInv
<1> QED BY <1>1, Invariance, PTL

\* Attachments reach the timeline of their entity.
THEOREM FileEvents == Spec => []AttachmentsTraced
<1>1. FileInv => AttachmentsTraced
  BY DEF FileInv
<1> QED BY <1>1, Invariance, PTL

-----------------------------------------------------------------------------
(***************************************************************************)
(* Inbound.                                                                *)
(*                                                                         *)
(* Types.  Settings and feeds are numbered together as they are made.      *)
(***************************************************************************)
PollJob == [step : {"idle", "found", "open"}, id : 1..MaxMade \cup {Nil}, todo : SUBSET Uids,
            mark : Marks, high : 0..MaxMail, new : SUBSET Uids, failed : SUBSET Uids]

SyncOK(job) ==
  /\ DOMAIN job = DOMAIN IdleSync /\ job.step \in {"idle", "got", "open"}
  /\ job.step # "idle" => job.id \in 1..made /\ job.got \in DOMAIN Docs
                         /\ job.tag \in {Nil, job.got}
  /\ job.step = "got" => job.new = {} /\ job.old = {}
  /\ job.step = "open" => job.todo \subseteq Parsed(job.got) /\ job.new \subseteq Parsed(job.got)

MailTypes ==
  /\ box \in 0..MaxMail /\ version \in DOMAIN Docs /\ made \in 0..MaxMade
  /\ cfg \in Config \cup {Nil} /\ feed \in Feed \cup {Nil}
  /\ told \in [Ext -> Nat]
  /\ poll \in [MailPollers -> PollJob]
  /\ DOMAIN sync = CalendarPollers \cup Callers
  /\ \A s \in CalendarPollers \cup Callers : SyncOK(sync[s])
  /\ crossed \in BOOLEAN

(***************************************************************************)
(* Whose activities there are: those of settings and feeds that were made, *)
(* and each was told of.                                                   *)
(***************************************************************************)
OwnersInv ==
  /\ cfg # Nil => cfg.id \in 1..made
  /\ feed # Nil => feed.id \in 1..made
  /\ cfg # Nil /\ feed # Nil => cfg.id # feed.id
  /\ \A x \in Ext : x[1] > made => told[x] = 0
  /\ \A p \in MailPollers : poll[p].step # "idle" => poll[p].id \in 1..made
  /\ \A a \in acts : a.ext \in Ext /\ told[a.ext] > 0

(***************************************************************************)
(* A poll has in mind, or has recorded, or found recorded all that is      *)
(* below what it has still to do and below the mark it will set.           *)
(***************************************************************************)
Covered(job, u) ==
  u \in job.todo \/ u \in job.new \/ u \in job.failed \/ Taken(job.id, u)

PollInv(job) ==
  /\ job.step # "idle" =>
       \A u \in Uids : u <= job.high \/ (\E t \in job.todo : u <= t) => Covered(job, u)
  /\ job.step = "found" => job.new = {} /\ job.failed = {}
  /\ job.step = "open" =>
       /\ \A t \in job.todo : job.high < t
       /\ Mark(job.mark) <= job.high
       /\ \A u \in job.new : Mark(job.mark) < u /\ u <= job.high
       /\ \A f \in job.failed : f # job.high /\ f \notin job.todo
       /\ job.high = Mark(job.mark) \/ job.high \in job.new

SkipInv ==
  /\ NothingSkipped
  /\ \A p \in MailPollers : PollInv(poll[p])

(***************************************************************************)
(* While no two polls and no two syncs were open at once, the one that is  *)
(* knows the row and the activities it will write to.                      *)
(***************************************************************************)
OnceInv ==
  /\ \A p, q \in MailPollers : poll[p].step = "open" /\ poll[q].step = "open" => p = q
  /\ cfg # Nil =>
       /\ \A u \in Uids : /\ told[<<cfg.id, u>>] <= 1
                          /\ told[<<cfg.id, u>>] > 0 => u <= Mark(cfg.mark)
       /\ \A p \in MailPollers : poll[p].step = "open" /\ poll[p].id = cfg.id => poll[p].mark = cfg.mark

Seen(job) ==
  /\ job.etag = feed.etag
  /\ \A u \in job.new, a \in acts : a.ext # <<job.id, u>>
  /\ \A a \in job.old : a.ext \in Ext /\ told[a.ext] > 0 /\ \A b \in acts : b.ext = a.ext => b = a
  /\ \A u \in Parsed(job.got) :
       u \in job.todo \/ u \in job.new \/ \E a \in job.old : a.ext = <<job.id, u>>

SyncedInv ==
  /\ \A s, r \in DOMAIN sync : sync[s].step = "open" /\ sync[r].step = "open" => s = r
  /\ \A a, b \in acts : a.ext = b.ext => a = b
  /\ feed # Nil =>
       \A s \in DOMAIN sync : sync[s].step = "open" /\ sync[s].id = feed.id => Seen(sync[s])

SerialInv == ~crossed => OnceInv /\ SyncedInv /\ EtagMeansSynced

SentInv ==
  /\ send \in [Senders -> {"idle", "sent"}]
  /\ mails \in [sent : Nat, noted : Nat, cut : Nat]
  /\ IsFiniteSet({c \in Senders : send[c] = "sent"})
  /\ SentIsNoted

UnreadableInv == unreadable \subseteq 1..box

MailInv == MailTypes /\ OwnersInv /\ SkipInv /\ SerialInv /\ SentInv /\ UnreadableInv
-----------------------------------------------------------------------------
LEMMA Least ==
  ASSUME NEW S, S \subseteq Nat, S # {}
  PROVE  Min(S) \in S /\ \A y \in S : Min(S) <= y
<1>. DEFINE R == {x \in Nat \X Nat : x[1] < x[2]}
<1>1. IsWellFoundedOn(R, Nat)
  BY NatLessThanWellFounded DEF OpToRel
<1>2. PICK x \in S : \A y \in S : <<y, x>> \notin R
  BY <1>1, WFMin
<1>3. ASSUME NEW y \in S PROVE x <= y
  <2>1. <<y, x>> \notin R /\ x \in Nat /\ y \in Nat
    BY <1>2
  <2>2. ~(y < x)
    BY <2>1
  <2>. QED  BY <2>1, <2>2
<1>. QED  BY <1>3 DEF Min

LEMMA DocsFacts ==
  /\ Len(Docs) \in Nat /\ DOMAIN Docs = 1..Len(Docs) /\ 1 \in DOMAIN Docs
  /\ \A i \in DOMAIN Docs : i \in Nat /\ i # Nil /\ Parsed(i) \subseteq Events /\ Parsed(i) \subseteq Nat
<1>1. Len(Docs) \in Nat /\ DOMAIN Docs = 1..Len(Docs) /\ Len(Docs) # 0
  BY InboundAssumption
<1>. QED  BY <1>1, InboundAssumption DEF Parsed, Events

LEMMA ExtFacts ==
  /\ \A i \in 1..MaxMade, u \in Uids : <<i, u>> \in Ext
  /\ \A i \in 1..MaxMade, v \in DOMAIN Docs : \A u \in Parsed(v) : <<i, u>> \in Ext
  /\ \A x \in Ext : x[1] \in 1..MaxMade /\ x = <<x[1], x[2]>>
BY DocsFacts DEF Ext

LEMMA MarkFacts ==
  ASSUME NEW m \in Marks
  PROVE  Mark(m) \in 0..MaxMail /\ Mark(m) \in Nat
BY InboundAssumption DEF Mark, Marks

LEMMA TellsFacts ==
  ASSUME told \in [Ext -> Nat], NEW new, NEW id, told' = Tells(new, id)
  PROVE  /\ told' \in [Ext -> Nat]
         /\ \A x \in Ext : /\ told[x] <= told'[x]
                           /\ x[1] = id /\ x[2] \in new => told'[x] = told[x] + 1
                           /\ ~(x[1] = id /\ x[2] \in new) => told'[x] = told[x]
BY DEF Tells

\* The tokens of a poll: what it has found, opened, fetched.
LEMMA UpcomingFacts ==
  ASSUME MailTypes, NEW p \in MailPollers, poll[p].todo # {}
  PROVE  /\ Upcoming(p) \in poll[p].todo /\ Upcoming(p) \in Uids
         /\ \A t \in poll[p].todo : Upcoming(p) <= t
<1>1. poll[p].todo \subseteq Uids /\ Uids \subseteq Nat
  BY InboundAssumption DEF MailTypes, PollJob, Uids
<1>2. poll[p].todo \subseteq Nat
  BY <1>1
<1>. QED  BY <1>1, <1>2, Least DEF Upcoming
-----------------------------------------------------------------------------
Core == MailTypes /\ OwnersInv /\ SkipInv /\ SerialInv

\* Steps that leave the rows, the pollers and what was made of them alone.
LEMMA QuietKeeps ==
  ASSUME Core, UNCHANGED <<cfg, feed, acts, told, poll, sync, made, missed, bare, crossed>>,
         box' \in 0..MaxMail, version' \in DOMAIN Docs
  PROVE  Core'
<1>1. MailTypes'
  BY DEF Core, MailTypes, SyncOK
<1>2. OwnersInv'
  BY DEF Core, OwnersInv
<1>3. SkipInv'
  BY DEF Core, SkipInv, NothingSkipped, Taken, PollInv, Covered
<1>4. SerialInv'
  BY DEF Core, SerialInv, OnceInv, SyncedInv, EtagMeansSynced, Says, Seen
<1>. QED  BY <1>1, <1>2, <1>3, <1>4 DEF Core

\* A poll goes on with the job it has, and nothing else changes.
LEMMA PollGoes ==
  ASSUME Core, NEW p \in MailPollers, NEW job \in PollJob, poll' = [poll EXCEPT ![p] = job],
         UNCHANGED <<box, version, cfg, feed, acts, told, sync, made, missed, bare>>,
         crossed' \in BOOLEAN, crossed => crossed',
         PollInv(job), job.step # "idle" => job.id \in 1..made,
         job.step = "open" /\ ~crossed' =>
           /\ \A q \in MailPollers \ {p} : poll[q].step # "open"
           /\ cfg # Nil /\ job.id = cfg.id => job.mark = cfg.mark
  PROVE  Core'
<1>1. poll' \in [MailPollers -> PollJob] /\ poll'[p] = job
      /\ \A q \in MailPollers \ {p} : poll'[q] = poll[q]
  BY DEF Core, MailTypes
<1>2. MailTypes'
  BY <1>1 DEF Core, MailTypes, SyncOK
<1>3. OwnersInv'
  BY <1>1 DEF Core, OwnersInv
<1>4. SkipInv'
  <2>1. NothingSkipped'
    BY DEF Core, SkipInv, NothingSkipped, Taken
  <2>2. ASSUME NEW q \in MailPollers PROVE PollInv(poll[q])'
    <3>1. PollInv(poll'[q])
      BY <1>1 DEF Core, SkipInv
    <3>. QED  BY <3>1 DEF PollInv, Covered, Taken
  <2>. QED  BY <2>1, <2>2 DEF SkipInv
<1>5. SerialInv'
  <2>. SUFFICES ASSUME ~crossed' PROVE (OnceInv /\ SyncedInv /\ EtagMeansSynced)'
    BY DEF SerialInv
  <2>1. OnceInv /\ SyncedInv /\ EtagMeansSynced /\ ~crossed
    BY DEF Core, SerialInv
  <2>2. OnceInv'
    BY <1>1, <2>1 DEF OnceInv
  <2>3. SyncedInv'
    BY <2>1 DEF SyncedInv, Seen
  <2>4. EtagMeansSynced'
    BY <2>1 DEF EtagMeansSynced, Says
  <2>. QED  BY <2>2, <2>3, <2>4
<1>. QED  BY <1>2, <1>3, <1>4, <1>5 DEF Core

LEMMA IdlePollFacts ==
  IdlePoll \in PollJob /\ PollInv(IdlePoll) /\ IdlePoll.step = "idle"
BY InboundAssumption DEF IdlePoll, PollJob, PollInv, Marks

LEMMA PollEnds ==
  ASSUME Core, NEW p \in MailPollers,
         FetchRefused(p) \/ RecordRaises(p) \/ PollFails(p)
  PROVE  Core'
<1>1. poll' = [poll EXCEPT ![p] = IdlePoll] /\ crossed' = crossed
      /\ UNCHANGED <<box, version, cfg, feed, acts, told, sync, made, missed, bare>>
  BY DEF FetchRefused, RecordRaises, PollFails, servers, rows, history
<1>. QED  BY <1>1, IdlePollFacts, PollGoes DEF Core, MailTypes

LEMMA PollSearchKeeps ==
  ASSUME Core, NEW p \in MailPollers, PollSearch(p)
  PROVE  Core'
<1>. DEFINE m == Mark(cfg.mark)
            job == [IdlePoll EXCEPT !.step = "found", !.id = cfg.id, !.todo = Found(m)]
<1>1. /\ poll' = [poll EXCEPT ![p] = job] /\ crossed' = crossed
      /\ UNCHANGED <<box, version, cfg, feed, acts, told, sync, made, missed, bare>>
  BY DEF PollSearch, servers, rows, history
<1>2. cfg \in Config /\ cfg # Nil /\ m \in Nat /\ box \in 0..MaxMail /\ MaxMail \in Nat
  BY MarkFacts, InboundAssumption DEF PollSearch, Core, MailTypes, Config
<1>. HIDE DEF m
<1>3. Found(m) \subseteq Uids
  BY <1>2 DEF Found, Uids
<1>4. /\ job.step = "found" /\ job.id = cfg.id /\ job.todo = Found(m) /\ job.high = 0
      /\ job.new = {} /\ job.failed = {}
  BY DEF IdlePoll
<1>5. job \in PollJob /\ job.id \in 1..made
  <2>1. made \in 0..MaxMade /\ cfg.id \in 1..made /\ MaxMade \in Nat /\ cfg.id \in 1..MaxMade
    BY <1>2, InboundAssumption DEF Config, Core, OwnersInv, MailTypes
  <2>2. cfg.id \in 1..MaxMade \cup {Nil} /\ Found(m) \in SUBSET Uids /\ "found" \in {"idle", "found", "open"}
    BY <1>3, <2>1
  <2>3. IdlePoll \in PollJob
    BY IdlePollFacts
  <2>4. job \in PollJob
    BY <2>2, <2>3 DEF PollJob
  <2>. QED  BY <1>4, <2>1, <2>4
<1>6. PollInv(job)
  <2>1. ASSUME NEW u \in Uids, u <= job.high \/ \E t \in job.todo : u <= t
        PROVE  u \in job.todo \/ Taken(job.id, u)
    <3>1. u \in Nat /\ u >= 1 /\ u <= box
      BY <1>2, <1>4, <2>1 DEF Uids, Found
    <3>2. CASE u > m \/ u = box
      BY <1>2, <1>4, <3>1, <3>2 DEF Found
    <3>3. CASE u <= m
      <4>1. u \in 1..Mark(cfg.mark)
        BY <1>2, <3>1, <3>3 DEF m
      <4>. QED  BY <1>2, <1>4, <4>1 DEF Core, SkipInv, NothingSkipped
    <3>. QED  BY <1>2, <3>1, <3>2, <3>3
  <2>. HIDE DEF job
  <2>. QED  BY <1>4, <2>1 DEF PollInv, Covered
<1>. HIDE DEF job
<1>. QED  BY <1>1, <1>4, <1>5, <1>6, PollGoes DEF Core, MailTypes

LEMMA PollOpenKeeps ==
  ASSUME Core, NEW p \in MailPollers, PollOpen(p)
  PROVE  Core'
<1>1. /\ poll[p].step = "found" /\ UNCHANGED <<box, version, cfg, feed, acts, told, sync, made, missed, bare>>
      /\ crossed' = (crossed \/ \E q \in MailPollers \ {p} : poll[q].step = "open")
  BY DEF PollOpen, servers, rows
<1>2. crossed' \in BOOLEAN /\ (crossed => crossed')
      /\ (~crossed' => \A q \in MailPollers \ {p} : poll[q].step # "open")
  BY <1>1 DEF Core, MailTypes
<1>3. CASE cfg = Nil \/ poll[p].id # cfg.id
  <2>1. poll' = [poll EXCEPT ![p] = IdlePoll]
    BY <1>3 DEF PollOpen
  <2>. QED  BY <1>1, <1>2, <2>1, IdlePollFacts, PollGoes
<1>4. CASE cfg # Nil /\ poll[p].id = cfg.id
  <2>. DEFINE old == poll[p]
              m == Mark(cfg.mark)
              job == [old EXCEPT !.step = "open", !.mark = cfg.mark, !.high = m,
                                 !.todo = {u \in old.todo : u > m}]
  <2>1. poll' = [poll EXCEPT ![p] = job]
    BY <1>4 DEF PollOpen
  <2>2. old \in PollJob /\ PollInv(old) /\ old.step = "found" /\ old.id = cfg.id
    BY <1>1, <1>4 DEF Core, MailTypes, SkipInv
  <2>3. cfg.mark \in Marks /\ m \in 0..MaxMail /\ m \in Nat /\ cfg.id \in 1..made
    BY <1>4, MarkFacts DEF Core, MailTypes, Config, OwnersInv
  <2>4. /\ job.step = "open" /\ job.id = cfg.id /\ job.mark = cfg.mark /\ job.high = m
        /\ job.todo = {u \in old.todo : u > m} /\ job.new = {} /\ job.failed = {}
    BY <2>2 DEF PollJob, PollInv
  <2>5. job \in PollJob
    BY <2>2, <2>3 DEF PollJob
  <2>6. \A u \in 1..m : Taken(cfg.id, u)
    BY <1>4 DEF Core, SkipInv, NothingSkipped
  <2>. HIDE DEF old, job
  <2>7. PollInv(job)
    <3>1. ASSUME NEW u \in Uids, u <= job.high \/ \E t \in job.todo : u <= t
          PROVE  u \in job.todo \/ Taken(job.id, u)
      <4>1. u \in Nat /\ u >= 1
        BY InboundAssumption DEF Uids
      <4>2. CASE u <= m
        BY <2>3, <2>4, <2>6, <4>1, <4>2
      <4>3. CASE u > m
        <5>1. \E t \in old.todo : u <= t
          BY <2>3, <2>4, <3>1, <4>1, <4>3
        <5>2. u \in old.todo \/ Taken(cfg.id, u)
          BY <2>2, <5>1 DEF PollInv, Covered
        <5>. QED  BY <2>4, <4>3, <5>2
      <4>. QED  BY <2>3, <4>1, <4>2, <4>3
    <3>2. \A t \in job.todo : job.high < t
      BY <2>4
    <3>3. Mark(job.mark) <= job.high /\ job.high = Mark(job.mark)
      BY <2>3, <2>4
    <3>. QED  BY <2>4, <3>1, <3>2, <3>3 DEF PollInv, Covered
  <2>. HIDE DEF m
  <2>. QED  BY <1>1, <1>2, <1>4, <2>1, <2>3, <2>4, <2>5, <2>7, PollGoes
<1>. QED  BY <1>3, <1>4

\* The job of a poll that is open goes on open.
LEMMA OpenGoes ==
  ASSUME Core, NEW p \in MailPollers, poll[p].step = "open",
         NEW job \in PollJob, poll' = [poll EXCEPT ![p] = job], PollInv(job),
         job.step = "open", job.id = poll[p].id, job.mark = poll[p].mark,
         UNCHANGED <<box, version, cfg, feed, acts, told, sync, made, missed, bare, crossed>>
  PROVE  Core'
<1>1. job.id \in 1..made /\ crossed \in BOOLEAN
  BY DEF Core, OwnersInv, MailTypes
<1>2. ~crossed => /\ \A q \in MailPollers \ {p} : poll[q].step # "open"
                  /\ cfg # Nil /\ job.id = cfg.id => job.mark = cfg.mark
  BY DEF Core, SerialInv, OnceInv
<1>. QED  BY <1>1, <1>2, PollGoes

LEMMA OpenFacts ==
  ASSUME Core, NEW p \in MailPollers, poll[p].step = "open", poll[p].todo # {}
  PROVE  LET job == poll[p]
             u == Upcoming(p)
         IN  /\ job \in PollJob /\ PollInv(job) /\ MaxMail \in Nat
             /\ u \in job.todo /\ u \in Uids /\ u \in Nat /\ u \in 0..MaxMail
             /\ \A t \in job.todo : u <= t
             /\ Uids \subseteq Nat /\ job.high \in Nat /\ job.high < u
             /\ Mark(job.mark) \in Nat
<1>1. poll[p] \in PollJob /\ PollInv(poll[p]) /\ MaxMail \in Nat
  BY InboundAssumption DEF Core, MailTypes, SkipInv
<1>2. Upcoming(p) \in poll[p].todo /\ Upcoming(p) \in Uids /\ \A t \in poll[p].todo : Upcoming(p) <= t
  BY UpcomingFacts DEF Core
<1>3. Uids \subseteq Nat /\ Upcoming(p) \in 0..MaxMail /\ poll[p].high \in Nat
  BY <1>1, <1>2 DEF Uids, PollJob
<1>4. Mark(poll[p].mark) \in Nat
  BY <1>1, MarkFacts DEF PollJob
<1>. QED  BY <1>1, <1>2, <1>3, <1>4 DEF PollInv

LEMMA FetchKeeps ==
  ASSUME Core, NEW p \in MailPollers, Fetch(p)
  PROVE  Core'
<1>. DEFINE old == poll[p]
            u == Upcoming(p)
            skip == [old EXCEPT !.todo = old.todo \ {u}]
            add == [old EXCEPT !.todo = old.todo \ {u}, !.new = old.new \cup {u}, !.high = u]
<1>1. /\ old.step = "open" /\ old.todo # {}
      /\ poll' = [poll EXCEPT ![p] = IF Known(<<old.id, u>>) THEN skip ELSE add]
      /\ UNCHANGED <<box, version, cfg, feed, acts, told, sync, made, missed, bare, crossed>>
  BY DEF Fetch, servers, rows, history
<1>2. /\ old \in PollJob /\ PollInv(old)
      /\ u \in old.todo /\ u \in Uids /\ u \in Nat /\ u \in 0..MaxMail
      /\ \A t \in old.todo : u <= t
      /\ Uids \subseteq Nat /\ old.high \in Nat /\ old.high < u /\ Mark(old.mark) \in Nat
  BY <1>1, OpenFacts
<1>3. old.todo \subseteq Uids /\ old.new \subseteq Uids
  BY <1>2 DEF PollJob
<1>. HIDE DEF u
<1>4. CASE Known(<<old.id, u>>)
  <2>1. /\ skip \in PollJob /\ skip.step = "open" /\ skip.id = old.id /\ skip.mark = old.mark
        /\ skip.todo = old.todo \ {u} /\ skip.new = old.new /\ skip.failed = old.failed /\ skip.high = old.high
    BY <1>1, <1>2, <1>3 DEF PollJob
  <2>2. Taken(old.id, u)
    BY <1>4 DEF Known, Core, OwnersInv, Taken
  <2>3. PollInv(skip)
    <3>. HIDE DEF old, skip
    <3>. QED  BY <1>1, <1>2, <2>1, <2>2 DEF PollInv, Covered
  <2>4. poll' = [poll EXCEPT ![p] = skip]
    BY <1>1, <1>4
  <2>. HIDE DEF skip
  <2>. QED  BY <1>1, <2>1, <2>3, <2>4, OpenGoes
<1>5. CASE ~Known(<<old.id, u>>)
  <2>1. /\ add \in PollJob /\ add.step = "open" /\ add.id = old.id /\ add.mark = old.mark
        /\ add.todo = old.todo \ {u} /\ add.new = old.new \cup {u} /\ add.failed = old.failed /\ add.high = u
    BY <1>1, <1>2, <1>3 DEF PollJob
  <2>2. PollInv(add)
    <3>. HIDE DEF old, add
    <3>1. ASSUME NEW w \in Uids, w <= u \/ \E t \in add.todo : w <= t
          PROVE  Covered(add, w)
      <4>1. \E t \in old.todo : w <= t
        BY <1>2, <2>1, <3>1
      <4>2. Covered(old, w)
        BY <1>1, <1>2, <4>1 DEF PollInv
      <4>. QED  BY <2>1, <4>2 DEF Covered
    <3>2. ASSUME NEW t \in add.todo PROVE add.high < t
      <4>1. t \in old.todo /\ t # u
        BY <2>1
      <4>2. t \in Nat /\ u <= t
        BY <1>2, <1>3, <4>1
      <4>. QED  BY <1>2, <2>1, <4>1, <4>2
    <3>3. Mark(add.mark) <= add.high /\ \A w \in add.new : Mark(add.mark) < w /\ w <= add.high
      BY <1>1, <1>2, <1>3, <2>1 DEF PollInv
    <3>4. \A f \in add.failed : f # add.high /\ f \notin add.todo
      BY <1>1, <1>2, <2>1 DEF PollInv
    <3>. QED  BY <2>1, <3>1, <3>2, <3>3, <3>4 DEF PollInv
  <2>3. poll' = [poll EXCEPT ![p] = add]
    BY <1>1, <1>5
  <2>. HIDE DEF add
  <2>. QED  BY <1>1, <2>1, <2>2, <2>3, OpenGoes
<1>. QED  BY <1>4, <1>5

LEMMA FetchFailsKeeps ==
  ASSUME Core, NEW p \in MailPollers, FetchFails(p)
  PROVE  Core'
<1>. DEFINE old == poll[p]
            u == Upcoming(p)
            job == [old EXCEPT !.todo = old.todo \ {u}, !.failed = old.failed \cup {u}]
<1>1. /\ old.step = "open" /\ old.todo # {} /\ poll' = [poll EXCEPT ![p] = job]
      /\ UNCHANGED <<box, version, cfg, feed, acts, told, sync, made, missed, bare, crossed>>
  BY DEF FetchFails, servers, rows, history
<1>2. /\ old \in PollJob /\ PollInv(old)
      /\ u \in old.todo /\ u \in Uids /\ u \in Nat /\ \A t \in old.todo : u <= t
      /\ old.high \in Nat /\ old.high < u
  BY <1>1, OpenFacts
<1>3. /\ job \in PollJob /\ job.step = "open" /\ job.id = old.id /\ job.mark = old.mark
      /\ job.todo = old.todo \ {u} /\ job.failed = old.failed \cup {u} /\ job.new = old.new /\ job.high = old.high
  BY <1>1, <1>2 DEF PollJob
<1>. HIDE DEF u, job
<1>4. PollInv(job)
  <2>. HIDE DEF old
  <2>. QED  BY <1>1, <1>2, <1>3 DEF PollInv, Covered
<1>. QED  BY <1>1, <1>3, <1>4, OpenGoes

\* What a poll adds, when the settings it was opened for are still there.
PollWrites(job) ==
  /\ cfg # Nil /\ job.id = cfg.id
  /\ cfg' = [cfg EXCEPT !.mark = IF job.high = job.mark THEN @ ELSE job.high]
  /\ acts' = acts \cup {[ext |-> <<job.id, u>>, val |-> Nil] : u \in job.new}
  /\ told' = Tells(job.new, job.id)
  /\ missed' = missed \cup {<<job.id, u>> : u \in {f \in job.failed : f < job.high}}

LEMMA PollWritesKeeps ==
  ASSUME Core, NEW p \in MailPollers, poll[p].step = "open", poll[p].todo = {},
         PollWrites(poll[p]), poll' = [poll EXCEPT ![p] = IdlePoll],
         UNCHANGED <<box, version, feed, sync, made, bare, crossed>>
  PROVE  Core'
<1>. DEFINE job == poll[p]
<1>1. /\ job \in PollJob /\ PollInv(job) /\ cfg \in Config /\ told \in [Ext -> Nat]
      /\ job.id = cfg.id /\ cfg # Nil /\ cfg.id \in 1..made /\ cfg.id \in 1..MaxMade
      /\ job.step = "open" /\ job.todo = {}
  BY DEF Core, MailTypes, SkipInv, PollWrites, OwnersInv, Config
<1>2. /\ Uids \subseteq Nat /\ job.new \subseteq Uids /\ job.failed \subseteq Uids
      /\ job.high \in Nat /\ job.high \in 0..MaxMail /\ job.mark \in Marks /\ cfg.mark \in Marks
      /\ Mark(job.mark) \in Nat /\ Mark(cfg.mark) \in Nat
      /\ Mark(job.mark) <= job.high /\ \A u \in job.new : Mark(job.mark) < u /\ u <= job.high
  BY <1>1, InboundAssumption, MarkFacts DEF PollJob, Uids, Config, PollInv
<1>3. /\ told' \in [Ext -> Nat]
      /\ \A x \in Ext : /\ told[x] \in Nat /\ told'[x] \in Nat /\ told[x] <= told'[x]
                        /\ x[1] = job.id /\ x[2] \in job.new => told'[x] = told[x] + 1
                        /\ ~(x[1] = job.id /\ x[2] \in job.new) => told'[x] = told[x]
  BY <1>1, TellsFacts DEF PollWrites
<1>4. /\ cfg' \in Config /\ cfg' # Nil /\ cfg'.id = cfg.id
      /\ cfg'.mark = (IF job.high = job.mark THEN cfg.mark ELSE job.high)
      /\ Mark(job.high) = job.high
  <2>. DEFINE mark == IF job.high = job.mark THEN cfg.mark ELSE job.high
  <2>1. cfg' = [cfg EXCEPT !.mark = mark]
    BY DEF PollWrites
  <2>2. mark \in Marks /\ Mark(job.high) = job.high
    BY <1>2, InboundAssumption DEF Marks, Mark
  <2>. HIDE DEF job
  <2>3. mark = (IF job.high = job.mark THEN cfg.mark ELSE job.high)
    OBVIOUS
  <2>. HIDE DEF mark
  <2>4. cfg' \in Config /\ cfg'.id = cfg.id /\ cfg'.mark = mark
    BY <1>1, <2>1, <2>2 DEF Config
  <2>5. cfg' # Nil
    BY <2>4, InboundAssumption
  <2>. QED  BY <2>2, <2>3, <2>4, <2>5
<1>5. poll' \in [MailPollers -> PollJob] /\ poll'[p] = IdlePoll
      /\ \A q \in MailPollers \ {p} : poll'[q] = poll[q]
  BY IdlePollFacts DEF Core, MailTypes
<1>6. \A u \in Uids : <<cfg.id, u>> \in Ext
  BY <1>1, ExtFacts
<1>7. \A a \in acts' : a \in acts \/ \E u \in job.new : a = [ext |-> <<cfg.id, u>>, val |-> Nil]
  BY <1>1 DEF PollWrites
<1>8. /\ missed \subseteq missed'
      /\ \A f \in job.failed : f < job.high => <<cfg.id, f>> \in missed'
  BY <1>1 DEF PollWrites
<1>. HIDE DEF job
<1>. DEFINE After(i, u) == told'[<<i, u>>] > 0 \/ <<i, u>> \in missed'
<1>9. ASSUME NEW i \in 1..MaxMade, NEW u \in Uids, Taken(i, u)
      PROVE  After(i, u)
  <2>1. <<i, u>> \in Ext
    BY ExtFacts
  <2>2. told[<<i, u>>] > 0 => told'[<<i, u>>] > 0
    BY <1>3, <2>1
  <2>. QED  BY <1>8, <1>9, <2>2 DEF Taken
<1>. HIDE DEF After
<1>10. MailTypes'
  BY <1>3, <1>4, <1>5 DEF Core, MailTypes, SyncOK
<1>11. OwnersInv'
  <2>1. ASSUME NEW x \in Ext, x[1] > made PROVE told'[x] = 0
    <3>1. told[x] = 0
      BY <2>1 DEF Core, OwnersInv
    <3>2. x[1] # cfg.id
      BY <1>1, <2>1 DEF Core, MailTypes
    <3>. QED  BY <1>1, <1>3, <3>1, <3>2
  <2>2. ASSUME NEW a \in acts' PROVE a.ext \in Ext /\ told'[a.ext] > 0
    <3>1. CASE a \in acts
      <4>1. a.ext \in Ext /\ told[a.ext] > 0
        BY <3>1 DEF Core, OwnersInv
      <4>. QED  BY <1>3, <4>1
    <3>2. CASE a \notin acts
      <4>1. PICK u \in job.new : a = [ext |-> <<cfg.id, u>>, val |-> Nil]
        BY <1>7, <3>2
      <4>2. <<cfg.id, u>> \in Ext /\ a.ext = <<cfg.id, u>>
        BY <1>2, <1>6, <4>1
      <4>3. told'[<<cfg.id, u>>] = told[<<cfg.id, u>>] + 1 /\ told[<<cfg.id, u>>] \in Nat
        BY <1>1, <1>3, <4>2
      <4>. QED  BY <4>2, <4>3
    <3>. QED  BY <3>1, <3>2
  <2>. QED  BY <1>1, <1>4, <1>5, <2>1, <2>2, IdlePollFacts DEF Core, OwnersInv
<1>12. SkipInv'
  <2>1. ASSUME NEW u \in Uids, u <= Mark(cfg'.mark) PROVE After(cfg.id, u)
    <3>1. CASE job.high = job.mark
      <4>1. u \in 1..Mark(cfg.mark)
        BY <1>2, <1>4, <2>1, <3>1 DEF Uids
      <4>2. Taken(cfg.id, u)
        BY <1>1, <4>1 DEF Core, SkipInv, NothingSkipped
      <4>. QED  BY <1>1, <1>9, <4>2
    <3>2. CASE job.high # job.mark
      <4>1. u <= job.high
        BY <1>4, <2>1, <3>2
      <4>2. u \in job.new \/ u \in job.failed \/ Taken(cfg.id, u)
        BY <1>1, <4>1 DEF PollInv, Covered
      <4>3. CASE u \in job.new
        <5>1. told'[<<cfg.id, u>>] = told[<<cfg.id, u>>] + 1 /\ told[<<cfg.id, u>>] \in Nat
          BY <1>1, <1>3, <1>6, <4>3
        <5>2. told'[<<cfg.id, u>>] > 0
          BY <5>1
        <5>. QED  BY <5>2 DEF After
      <4>4. CASE u \in job.failed
        <5>1. u # job.high /\ u \in Nat
          BY <1>1, <1>2, <4>4 DEF PollInv
        <5>2. <<cfg.id, u>> \in missed'
          BY <1>2, <1>8, <4>1, <4>4, <5>1
        <5>. QED  BY <5>2 DEF After
      <4>. QED  BY <1>1, <1>9, <4>2, <4>3, <4>4
    <3>. QED  BY <3>1, <3>2
  <2>2. Mark(cfg'.mark) \in 0..MaxMail /\ MaxMail \in Nat
    BY <1>4, MarkFacts, InboundAssumption DEF Config
  <2>3. ASSUME NEW u \in 1..Mark(cfg'.mark) PROVE After(cfg.id, u)
    <3>1. u \in Uids /\ u <= Mark(cfg'.mark)
      BY <2>2 DEF Uids
    <3>. QED  BY <2>1, <3>1
  <2>4. NothingSkipped'
    BY <1>4, <2>3 DEF NothingSkipped, Taken, Mark, After
  <2>5. ASSUME NEW q \in MailPollers PROVE PollInv(poll[q])'
    <3>1. CASE q = p
      BY <1>5, <3>1 DEF IdlePoll, PollInv
    <3>2. CASE q # p
      <4>. DEFINE old == poll[q]
      <4>1. poll'[q] = old /\ PollInv(old) /\ (old.step # "idle" => old.id \in 1..MaxMade)
        BY <1>5, <3>2, InboundAssumption DEF Core, SkipInv, OwnersInv, MailTypes
      <4>. HIDE DEF old
      <4>2. old.step # "idle" => \A u \in Uids : Covered(old, u) =>
              u \in old.todo \/ u \in old.new \/ u \in old.failed \/ After(old.id, u)
        BY <1>9, <4>1 DEF Covered
      <4>. QED  BY <4>1, <4>2 DEF PollInv, Covered, Taken, After
    <3>. QED  BY <3>1, <3>2
  <2>. QED  BY <2>4, <2>5 DEF SkipInv
<1>13. SerialInv'
  <2>. SUFFICES ASSUME ~crossed PROVE (OnceInv /\ SyncedInv /\ EtagMeansSynced)'
    BY DEF SerialInv
  <2>1. OnceInv /\ SyncedInv /\ EtagMeansSynced
    BY DEF Core, SerialInv
  <2>2. \A q \in MailPollers : poll'[q].step # "open"
    BY <1>1, <1>5, <2>1, IdlePollFacts DEF OnceInv, job
  <2>3. job.mark = cfg.mark
    BY <1>1, <2>1 DEF OnceInv, job
  <2>4. ASSUME NEW u \in job.new PROVE told[<<cfg.id, u>>] = 0
    <3>1. u \in Uids /\ ~(u <= Mark(cfg.mark))
      <4>1. u \in Uids /\ u \in Nat /\ Mark(job.mark) < u
        BY <1>2
      <4>2. Mark(job.mark) = Mark(cfg.mark) /\ Mark(cfg.mark) \in Nat
        BY <1>2, <2>3
      <4>. QED  BY <4>1, <4>2
    <3>2. ~(told[<<cfg.id, u>>] > 0) /\ told[<<cfg.id, u>>] \in Nat
      BY <1>1, <1>3, <1>6, <2>1, <3>1 DEF OnceInv
    <3>. QED  BY <3>2
  <2>5. Mark(cfg'.mark) = job.high /\ Mark(cfg.mark) <= job.high
    BY <1>2, <1>4, <2>3
  <2>6. ASSUME NEW u \in Uids
        PROVE  told'[<<cfg.id, u>>] <= 1 /\ (told'[<<cfg.id, u>>] > 0 => u <= Mark(cfg'.mark))
    <3>1. CASE u \in job.new
      <4>1. told'[<<cfg.id, u>>] = 1
        BY <1>1, <1>3, <1>6, <2>4, <3>1
      <4>. QED  BY <1>2, <2>5, <3>1, <4>1
    <3>2. CASE u \notin job.new
      <4>1. told'[<<cfg.id, u>>] = told[<<cfg.id, u>>]
        BY <1>1, <1>3, <1>6, <3>2
      <4>2. told[<<cfg.id, u>>] <= 1 /\ (told[<<cfg.id, u>>] > 0 => u <= Mark(cfg.mark))
        BY <1>1, <2>1 DEF OnceInv
      <4>3. u \in Nat
        BY <1>2
      <4>. QED  BY <1>2, <2>5, <4>1, <4>2, <4>3
    <3>. QED  BY <3>1, <3>2
  <2>7. OnceInv'
    BY <1>4, <2>2, <2>6 DEF OnceInv, Mark
  <2>8. ASSUME NEW a \in acts', NEW u \in job.new, a.ext = <<cfg.id, u>> PROVE a \notin acts
    <3>1. ~(told[a.ext] > 0)
      BY <2>4, <2>8
    <3>. QED  BY <3>1 DEF Core, OwnersInv
  <2>9. ASSUME NEW a \in acts', NEW b \in acts', a.ext = b.ext PROVE a = b
    <3>1. CASE a \in acts /\ b \in acts
      BY <2>1, <2>9, <3>1 DEF SyncedInv
    <3>2. CASE a \notin acts /\ b \notin acts
      BY <1>7, <2>9, <3>2
    <3>3. CASE a \in acts /\ b \notin acts
      BY <1>7, <2>8, <2>9, <3>3
    <3>4. CASE a \notin acts /\ b \in acts
      BY <1>7, <2>8, <2>9, <3>4
    <3>. QED  BY <3>1, <3>2, <3>3, <3>4
  <2>10. ASSUME NEW a \in acts', feed # Nil, NEW w, a.ext = <<feed.id, w>> PROVE a \in acts
    <3>1. feed.id # cfg.id
      BY <1>1, <2>10 DEF Core, OwnersInv
    <3>2. ASSUME a \notin acts PROVE FALSE
      <4>1. PICK u \in job.new : a = [ext |-> <<cfg.id, u>>, val |-> Nil]
        BY <1>7, <3>2
      <4>2. <<feed.id, w>> = <<cfg.id, u>>
        BY <2>10, <4>1
      <4>. QED  BY <3>1, <4>2
    <3>. QED  BY <3>2
  <2>11. ASSUME feed # Nil, NEW s \in DOMAIN sync, sync[s].step = "open", sync[s].id = feed.id
         PROVE  Seen(sync[s])'
    <3>. DEFINE old == sync[s]
    <3>1. Seen(old) /\ old.id = feed.id
      BY <2>1, <2>11 DEF SyncedInv
    <3>. HIDE DEF old
    <3>2. \A u \in old.new, a \in acts' : a.ext # <<old.id, u>>
      BY <2>10, <2>11, <3>1 DEF Seen
    <3>3. ASSUME NEW a \in old.old
          PROVE  a.ext \in Ext /\ told'[a.ext] > 0 /\ \A b \in acts' : b.ext = a.ext => b = a
      <4>1. a.ext \in Ext /\ told[a.ext] > 0 /\ \A b \in acts : b.ext = a.ext => b = a
        BY <3>1 DEF Seen
      <4>2. told'[a.ext] > 0
        BY <1>3, <4>1
      <4>3. ASSUME NEW b \in acts', b.ext = a.ext PROVE b \in acts
        BY <1>7, <2>4, <4>1, <4>3
      <4>. QED  BY <4>1, <4>2, <4>3
    <3>. QED  BY <3>1, <3>2, <3>3 DEF Seen, old
  <2>12. SyncedInv'
    BY <2>1, <2>9, <2>11 DEF SyncedInv
  <2>13. EtagMeansSynced'
    <3>. SUFFICES ASSUME ~bare, feed # Nil, feed.etag # Nil, NEW u \in Parsed(feed.etag)
                  PROVE  /\ told'[<<feed.id, u>>] > 0
                         /\ \A a \in acts' : a.ext = <<feed.id, u>> => a.val = Docs[feed.etag][u]
      BY DEF EtagMeansSynced, Says
    <3>1. /\ told[<<feed.id, u>>] > 0
          /\ \A a \in acts : a.ext = <<feed.id, u>> => a.val = Docs[feed.etag][u]
      BY <2>1 DEF EtagMeansSynced, Says
    <3>2. <<feed.id, u>> \in Ext
      BY ExtFacts DEF Core, MailTypes, Feed, Versions
    <3>. QED  BY <1>3, <2>10, <3>1, <3>2
  <2>. QED  BY <2>7, <2>12, <2>13
<1>. QED  BY <1>10, <1>11, <1>12, <1>13 DEF Core

LEMMA PollCommitKeeps ==
  ASSUME Core, NEW p \in MailPollers, PollCommit(p)
  PROVE  Core'
<1>1. /\ poll[p].step = "open" /\ poll[p].todo = {} /\ poll' = [poll EXCEPT ![p] = IdlePoll]
      /\ UNCHANGED <<box, version, sync, made, bare, crossed>>
  BY DEF PollCommit, servers
<1>2. CASE cfg = Nil \/ poll[p].id # cfg.id
  <2>1. UNCHANGED <<cfg, feed, acts, told, missed>>
    BY <1>2 DEF PollCommit, rows
  <2>. QED  BY <1>1, <2>1, IdlePollFacts, PollGoes DEF Core, MailTypes
<1>3. CASE cfg # Nil /\ poll[p].id = cfg.id
  <2>1. PollWrites(poll[p]) /\ UNCHANGED feed
    BY <1>3 DEF PollCommit, PollWrites, Watermark
  <2>. QED  BY <1>1, <2>1, PollWritesKeeps
<1>. QED  BY <1>2, <1>3

-----------------------------------------------------------------------------
(***************************************************************************)
(* Settings: a row goes, a fresh one comes, or one changes what no poll    *)
(* looks at.                                                               *)
(***************************************************************************)
Same(new, old, mark) ==
  new # Nil => old # Nil /\ new.id = old.id /\ new[mark] = old[mark]

FreshRow(new, id, mark) == id = made + 1 /\ new.id = id /\ new[mark] = Nil

LEMMA RowsGo ==
  ASSUME Core, cfg' \in Config \cup {Nil}, feed' \in Feed \cup {Nil},
         made' \in 0..MaxMade, made <= made', acts' \subseteq acts,
         Same(cfg', cfg, "mark") \/ (cfg = Nil /\ FreshRow(cfg', made', "mark")),
         Same(feed', feed, "etag") \/ (feed = Nil /\ FreshRow(feed', made', "etag")),
         Same(cfg', cfg, "mark") \/ Same(feed', feed, "etag"),
         version' \in DOMAIN Docs,
         UNCHANGED <<box, told, poll, sync, missed, bare, crossed>>
  PROVE  Core'
<1>1. /\ made \in Nat /\ made' \in Nat /\ told \in [Ext -> Nat] /\ MaxMade \in Nat
      /\ \A i \in 1..made : i \in 1..made' /\ i # made + 1
  BY InboundAssumption DEF Core, MailTypes
<1>2. MailTypes'
  <2>1. \A s \in CalendarPollers \cup Callers : SyncOK(sync[s])'
    BY <1>1 DEF Core, MailTypes, SyncOK
  <2>. QED  BY <2>1 DEF Core, MailTypes
<1>3. OwnersInv'
  <2>1. (cfg' # Nil => cfg'.id \in 1..made') /\ (feed' # Nil => feed'.id \in 1..made')
    BY <1>1 DEF Core, OwnersInv, Same, FreshRow
  <2>2. cfg' # Nil /\ feed' # Nil => cfg'.id # feed'.id
    BY <1>1 DEF Core, OwnersInv, Same, FreshRow
  <2>3. \A x \in Ext : x[1] > made' => told[x] = 0
    <3>1. \A x \in Ext : x[1] \in Nat
      BY <1>1, ExtFacts
    <3>. QED  BY <1>1, <3>1 DEF Core, OwnersInv
  <2>4. \A p \in MailPollers : poll[p].step # "idle" => poll[p].id \in 1..made'
    BY <1>1 DEF Core, OwnersInv
  <2>. QED  BY <2>1, <2>2, <2>3, <2>4 DEF Core, OwnersInv
<1>4. SkipInv'
  <2>1. NothingSkipped'
    <3>1. CASE Same(cfg', cfg, "mark")
      BY <3>1 DEF Core, SkipInv, NothingSkipped, Taken, Same
    <3>2. CASE FreshRow(cfg', made', "mark")
      <4>1. Mark(cfg'.mark) = 0
        BY <3>2 DEF FreshRow, Mark
      <4>2. 1..0 = {}
        OBVIOUS
      <4>. QED  BY <4>1, <4>2 DEF NothingSkipped, Mark
    <3>. QED  BY <3>1, <3>2
  <2>2. \A p \in MailPollers : PollInv(poll[p])'
    BY DEF Core, SkipInv, PollInv, Covered, Taken
  <2>. QED  BY <2>1, <2>2 DEF SkipInv
<1>5. SerialInv'
  <2>. SUFFICES ASSUME ~crossed PROVE (OnceInv /\ SyncedInv /\ EtagMeansSynced)'
    BY DEF SerialInv
  <2>1. OnceInv /\ SyncedInv /\ EtagMeansSynced
    BY DEF Core, SerialInv
  <2>2. OnceInv'
    <3>1. CASE Same(cfg', cfg, "mark")
      BY <2>1, <3>1 DEF OnceInv, Same
    <3>2. CASE FreshRow(cfg', made', "mark")
      <4>1. ASSUME NEW u \in Uids PROVE told[<<cfg'.id, u>>] = 0
        <5>1. cfg'.id \in 1..MaxMade /\ cfg'.id > made
          BY <1>1, <3>2 DEF FreshRow
        <5>2. <<cfg'.id, u>> \in Ext /\ <<cfg'.id, u>>[1] > made
          BY <5>1, ExtFacts
        <5>. QED  BY <5>2 DEF Core, OwnersInv
      <4>2. \A p \in MailPollers : poll[p].step = "open" => poll[p].id # cfg'.id
        BY <1>1, <3>2 DEF Core, OwnersInv, FreshRow
      <4>. QED  BY <2>1, <4>1, <4>2 DEF OnceInv
    <3>. QED  BY <3>1, <3>2
  <2>3. SyncedInv'
    <3>1. CASE Same(feed', feed, "etag")
      BY <2>1, <3>1 DEF SyncedInv, Seen, Same
    <3>2. CASE FreshRow(feed', made', "etag")
      <4>1. \A s \in DOMAIN sync : sync[s].step = "open" => sync[s].id # feed'.id
        BY <1>1, <3>2 DEF Core, MailTypes, SyncOK, FreshRow
      <4>. QED  BY <2>1, <4>1 DEF SyncedInv
    <3>. QED  BY <3>1, <3>2
  <2>4. EtagMeansSynced'
    BY <2>1 DEF EtagMeansSynced, Says, Same, FreshRow
  <2>. QED  BY <2>2, <2>3, <2>4
<1>. QED  BY <1>2, <1>3, <1>4, <1>5 DEF Core

LEMMA SettingsKeep ==
  ASSUME Core,
         (\E b \in BOOLEAN : PutConfig(b)) \/ DeleteConfig \/ CreateFeed \/ DeleteFeed
           \/ (\E b \in BOOLEAN : PatchFeed(b)) \/ \E a \in acts : DeleteActivity(a)
  PROVE  Core'
<1>. DEFINE Rest == /\ version' \in DOMAIN Docs
                    /\ UNCHANGED <<box, told, poll, sync, missed, bare, crossed>>
<1>1. /\ made \in Nat /\ made \in 0..MaxMade /\ MaxMade \in Nat
      /\ cfg \in Config \cup {Nil} /\ feed \in Feed \cup {Nil}
      /\ Same(cfg, cfg, "mark") /\ Same(feed, feed, "etag")
  BY InboundAssumption DEF Core, MailTypes, Same
<1>2. made < MaxMade => made + 1 \in 0..MaxMade /\ made + 1 \in 1..MaxMade /\ made <= made + 1
  BY <1>1
<1>3. Nil \in Marks /\ Nil \in Versions
  BY DEF Marks, Versions
<1>4. CASE \E b \in BOOLEAN : PutConfig(b)
  <2>1. PICK b \in BOOLEAN : PutConfig(b)
    BY <1>4
  <2>2. Rest /\ UNCHANGED <<feed, acts>>
    BY <2>1 DEF PutConfig, servers, history, Core, MailTypes
  <2>3. CASE cfg = Nil
    <3>1. made < MaxMade /\ made' = made + 1 /\ cfg' = [id |-> made', mark |-> Nil, active |-> b]
      BY <2>1, <2>3 DEF PutConfig
    <3>2. cfg' \in Config /\ FreshRow(cfg', made', "mark")
      BY <1>2, <1>3, <3>1 DEF Config, FreshRow
    <3>. QED  BY <1>1, <1>2, <2>2, <2>3, <3>1, <3>2, RowsGo
  <2>4. CASE cfg # Nil
    <3>1. made' = made /\ cfg' = [cfg EXCEPT !.active = b]
      BY <2>1, <2>4 DEF PutConfig
    <3>2. cfg' \in Config /\ Same(cfg', cfg, "mark")
      BY <1>1, <2>4, <3>1 DEF Config, Same
    <3>. QED  BY <1>1, <2>2, <3>1, <3>2, RowsGo
  <2>. QED  BY <2>3, <2>4
<1>5. CASE DeleteConfig
  <2>1. Rest /\ UNCHANGED <<feed, acts, made>> /\ cfg' = Nil
    BY <1>5 DEF DeleteConfig, servers, history, Core, MailTypes
  <2>2. Same(cfg', cfg, "mark")
    BY <2>1 DEF Same
  <2>. QED  BY <1>1, <2>1, <2>2, RowsGo
<1>6. CASE CreateFeed
  <2>1. /\ Rest /\ UNCHANGED <<cfg, acts>> /\ feed = Nil /\ made < MaxMade /\ made' = made + 1
        /\ feed' = [id |-> made', etag |-> Nil, active |-> TRUE]
    BY <1>6 DEF CreateFeed, servers, history, Core, MailTypes
  <2>2. feed' \in Feed /\ FreshRow(feed', made', "etag")
    BY <1>2, <1>3, <2>1 DEF Feed, FreshRow
  <2>. QED  BY <1>1, <1>2, <2>1, <2>2, RowsGo
<1>7. CASE \E b \in BOOLEAN : PatchFeed(b)
  <2>0. PICK b \in BOOLEAN : PatchFeed(b)
    BY <1>7
  <2>1. /\ Rest /\ UNCHANGED <<cfg, acts, made>> /\ feed # Nil
        /\ feed' = [feed EXCEPT !.active = b]
    BY <2>0 DEF PatchFeed, history
  <2>2. feed' \in Feed /\ Same(feed', feed, "etag")
    BY <1>1, <2>1 DEF Feed, Same
  <2>. QED  BY <1>1, <2>1, <2>2, RowsGo
<1>8. CASE DeleteFeed
  <2>1. Rest /\ UNCHANGED <<cfg, acts, made>> /\ feed' = Nil
    BY <1>8 DEF DeleteFeed, servers, history, Core, MailTypes
  <2>2. Same(feed', feed, "etag")
    BY <2>1 DEF Same
  <2>. QED  BY <1>1, <2>1, <2>2, RowsGo
<1>9. CASE \E a \in acts : DeleteActivity(a)
  <2>1. Rest /\ UNCHANGED <<cfg, feed, made>> /\ acts' \subseteq acts
    BY <1>9 DEF DeleteActivity, servers, history, Core, MailTypes
  <2>. QED  BY <1>1, <2>1, RowsGo
<1>. QED  BY <1>4, <1>5, <1>6, <1>7, <1>8, <1>9
-----------------------------------------------------------------------------
(***************************************************************************)
(* The sync of a feed.                                                     *)
(***************************************************************************)
LEMMA SyncGoes ==
  ASSUME Core, NEW s \in CalendarPollers \cup Callers, NEW job, sync' = [sync EXCEPT ![s] = job],
         SyncOK(job), UNCHANGED <<box, version, cfg, feed, acts, told, poll, made, missed, bare>>,
         crossed' \in BOOLEAN, crossed => crossed',
         job.step = "open" /\ ~crossed' =>
           /\ \A q \in DOMAIN sync \ {s} : sync[q].step # "open"
           /\ feed # Nil /\ job.id = feed.id => Seen(job)
  PROVE  Core'
<1>1. /\ DOMAIN sync' = CalendarPollers \cup Callers /\ DOMAIN sync = CalendarPollers \cup Callers
      /\ sync'[s] = job /\ \A q \in DOMAIN sync \ {s} : sync'[q] = sync[q]
  BY DEF Core, MailTypes
<1>2. MailTypes'
  <2>1. ASSUME NEW q \in CalendarPollers \cup Callers PROVE SyncOK(sync[q])'
    <3>1. SyncOK(sync'[q])
      BY <1>1 DEF Core, MailTypes
    <3>. QED  BY <3>1 DEF SyncOK
  <2>. QED  BY <1>1, <2>1 DEF Core, MailTypes
<1>3. OwnersInv'
  BY DEF Core, OwnersInv
<1>4. SkipInv'
  BY DEF Core, SkipInv, NothingSkipped, PollInv, Covered, Taken
<1>5. SerialInv'
  <2>. SUFFICES ASSUME ~crossed' PROVE (OnceInv /\ SyncedInv /\ EtagMeansSynced)'
    BY DEF SerialInv
  <2>1. OnceInv /\ SyncedInv /\ EtagMeansSynced /\ ~crossed
    BY DEF Core, SerialInv
  <2>2. OnceInv'
    BY <2>1 DEF OnceInv
  <2>3. EtagMeansSynced'
    BY <2>1 DEF EtagMeansSynced, Says
  <2>4. \A q, r \in DOMAIN sync' : sync'[q].step = "open" /\ sync'[r].step = "open" => q = r
    BY <1>1, <2>1 DEF SyncedInv
  <2>5. ASSUME feed # Nil, NEW q \in DOMAIN sync, sync'[q].step = "open", sync'[q].id = feed.id
        PROVE  Seen(sync[q])'
    <3>1. Seen(sync'[q])
      BY <1>1, <2>1, <2>5 DEF SyncedInv
    <3>. QED  BY <3>1 DEF Seen
  <2>. QED  BY <1>1, <2>1, <2>2, <2>3, <2>4, <2>5 DEF SyncedInv
<1>. QED  BY <1>2, <1>3, <1>4, <1>5 DEF Core

LEMMA IdleSyncFacts == SyncOK(IdleSync) /\ IdleSync.step = "idle"
BY DEF IdleSync, SyncOK

LEMMA SyncEnds ==
  ASSUME Core, NEW s \in CalendarPollers \cup Callers, SyncRefused(s) \/ SyncRaises(s) \/ SyncFails(s)
  PROVE  Core'
<1>1. sync' = [sync EXCEPT ![s] = IdleSync]
      /\ UNCHANGED <<box, version, cfg, feed, acts, told, poll, made, missed, bare, crossed>>
  BY DEF SyncRefused, SyncRaises, SyncFails, servers, rows, history
<1>. QED  BY <1>1, IdleSyncFacts, SyncGoes DEF Core, MailTypes

LEMMA SyncFetchKeeps ==
  ASSUME Core, NEW s \in CalendarPollers \cup Callers, SyncFetch(s)
  PROVE  Core'
<1>0. PICK tag \in {Nil, version} :
        sync' = [sync EXCEPT ![s] =
          [IdleSync EXCEPT !.step = "got", !.id = feed.id, !.got = version, !.tag = tag]]
  BY DEF SyncFetch
<1>. DEFINE job == [IdleSync EXCEPT !.step = "got", !.id = feed.id, !.got = version, !.tag = tag]
<1>1. /\ sync' = [sync EXCEPT ![s] = job] /\ feed # Nil
      /\ UNCHANGED <<box, version, cfg, feed, acts, told, poll, made, missed, bare, crossed>>
  BY <1>0 DEF SyncFetch, servers, rows, history
<1>2. /\ DOMAIN job = DOMAIN IdleSync /\ job.step = "got" /\ job.id = feed.id /\ job.got = version
      /\ job.tag = tag /\ job.new = {} /\ job.old = {}
  BY DEF IdleSync
<1>. HIDE DEF job
<1>3. SyncOK(job)
  BY <1>1, <1>2 DEF SyncOK, Core, MailTypes, OwnersInv
<1>. QED  BY <1>1, <1>2, <1>3, SyncGoes DEF Core, MailTypes

LEMMA SyncOpenKeeps ==
  ASSUME Core, NEW s \in CalendarPollers \cup Callers, SyncOpen(s)
  PROVE  Core'
<1>1. /\ sync[s].step = "got" /\ UNCHANGED <<box, version, cfg, feed, acts, told, poll, made, missed, bare>>
      /\ crossed' = (crossed \/ \E q \in DOMAIN sync \ {s} : sync[q].step = "open")
  BY DEF SyncOpen, servers, rows
<1>2. crossed' \in BOOLEAN /\ (crossed => crossed')
      /\ (~crossed' => \A q \in DOMAIN sync \ {s} : sync[q].step # "open")
  BY <1>1 DEF Core, MailTypes
<1>3. CASE feed = Nil \/ sync[s].id # feed.id
  <2>1. sync' = [sync EXCEPT ![s] = IdleSync]
    BY <1>3 DEF SyncOpen
  <2>. QED  BY <1>1, <1>2, <2>1, IdleSyncFacts, SyncGoes
<1>4. CASE feed # Nil /\ sync[s].id = feed.id
  <2>. DEFINE old == sync[s]
              job == [old EXCEPT !.step = "open", !.etag = feed.etag, !.todo = Parsed(old.got)]
  <2>1. sync' = [sync EXCEPT ![s] = job] /\ SyncOK(old)
    BY <1>4 DEF SyncOpen, Core, MailTypes
  <2>2. DOMAIN old = {"step", "id", "got", "tag", "etag", "todo", "new", "old"}
    BY <2>1 DEF SyncOK, IdleSync
  <2>3. /\ DOMAIN job = DOMAIN old /\ job.step = "open" /\ job.id = old.id /\ job.got = old.got
        /\ job.tag = old.tag
        /\ job.etag = feed.etag /\ job.todo = Parsed(old.got) /\ job.new = old.new /\ job.old = old.old
    BY <2>2
  <2>. HIDE DEF job
  <2>4. SyncOK(job) /\ job.new = {} /\ job.old = {}
    BY <1>1, <2>1, <2>3 DEF SyncOK
  <2>5. Seen(job)
    BY <2>3, <2>4 DEF Seen
  <2>. QED  BY <1>1, <1>2, <2>1, <2>4, <2>5, SyncGoes
<1>. QED  BY <1>3, <1>4

LEMMA SyncEventKeeps ==
  ASSUME Core, NEW s \in CalendarPollers \cup Callers, SyncEvent(s)
  PROVE  Core'
<1>. DEFINE old == sync[s]
            u == Min(old.todo)
            x == <<old.id, u>>
            b == CHOOSE a \in acts : a.ext = x
            again == [old EXCEPT !.todo = old.todo \ {u}, !.old = old.old \cup {b}]
            add == [old EXCEPT !.todo = old.todo \ {u}, !.new = old.new \cup {u}]
<1>1. /\ old.step = "open" /\ old.todo # {} /\ SyncOK(old) /\ crossed \in BOOLEAN
      /\ sync' = [sync EXCEPT ![s] = IF Known(x) THEN again ELSE add]
      /\ UNCHANGED <<box, version, cfg, feed, acts, told, poll, made, missed, bare, crossed>>
  BY DEF SyncEvent, servers, rows, history, Core, MailTypes
<1>2. DOMAIN old = {"step", "id", "got", "tag", "etag", "todo", "new", "old"}
  BY <1>1 DEF SyncOK, IdleSync
<1>3. /\ DOMAIN again = DOMAIN old /\ again.step = "open" /\ again.id = old.id /\ again.got = old.got
      /\ again.tag = old.tag
      /\ again.etag = old.etag /\ again.todo = old.todo \ {u} /\ again.new = old.new
      /\ again.old = old.old \cup {b}
  BY <1>1, <1>2
<1>4. /\ DOMAIN add = DOMAIN old /\ add.step = "open" /\ add.id = old.id /\ add.got = old.got
      /\ add.tag = old.tag
      /\ add.etag = old.etag /\ add.todo = old.todo \ {u} /\ add.new = old.new \cup {u}
      /\ add.old = old.old
  BY <1>1, <1>2
<1>5. u \in old.todo
  <2>1. old.todo \subseteq Nat
    BY <1>1, DocsFacts DEF SyncOK
  <2>. QED  BY <1>1, <2>1, Least
<1>6. ~crossed => /\ \A q \in DOMAIN sync \ {s} : sync[q].step # "open"
                  /\ feed # Nil /\ old.id = feed.id => Seen(old)
                  /\ \A a, c \in acts : a.ext = c.ext => a = c
  BY <1>1 DEF Core, SerialInv, SyncedInv, MailTypes
<1>. HIDE DEF u, x, b, again, add
<1>7. CASE Known(x)
  <2>1. b \in acts /\ b.ext = x
    BY <1>7 DEF Known, b
  <2>2. b.ext \in Ext /\ told[b.ext] > 0
    BY <2>1 DEF Core, OwnersInv
  <2>3. SyncOK(again)
    BY <1>1, <1>3 DEF SyncOK
  <2>4. ~crossed /\ Seen(old) => Seen(again)
    BY <1>3, <1>6, <2>1, <2>2 DEF Seen, x
  <2>5. sync' = [sync EXCEPT ![s] = again]
    BY <1>1, <1>7
  <2>. QED  BY <1>1, <1>3, <1>6, <2>3, <2>4, <2>5, SyncGoes
<1>8. CASE ~Known(x)
  <2>1. \A a \in acts : a.ext # x
    BY <1>8 DEF Known
  <2>2. SyncOK(add)
    BY <1>1, <1>4, <1>5 DEF SyncOK
  <2>3. Seen(old) => Seen(add)
    BY <1>4, <2>1 DEF Seen, x
  <2>4. sync' = [sync EXCEPT ![s] = add]
    BY <1>1, <1>8
  <2>. QED  BY <1>1, <1>4, <1>6, <2>2, <2>3, <2>4, SyncGoes
<1>. QED  BY <1>7, <1>8

\* What a sync of a version writes for an event.
Written(job, x) == Docs[job.got][x[2]]
Changes(job) == {a \in job.old : Written(job, a.ext) # a.val}

\* What a sync writes when its feed and the activities it changes are there.
SyncWrites(job) ==
  /\ feed # Nil /\ job.id = feed.id /\ \A c \in Changes(job) : Known(c.ext)
  /\ acts' = {a \in acts : \A c \in Changes(job) : c.ext # a.ext}
               \cup {[ext |-> c.ext, val |-> Written(job, c.ext)] : c \in Changes(job)}
               \cup {[ext |-> <<job.id, u>>, val |-> Docs[job.got][u]] : u \in job.new}
  /\ told' = Tells(job.new, job.id)
  /\ feed' = [feed EXCEPT !.etag = IF NewEtag(job) = job.etag THEN @ ELSE NewEtag(job)]
  /\ bare' = (job.tag = Nil)

\* An activity after a sync is one of before that did not change, or one it
\* changed, or one it added.
LEMMA ActsAfter ==
  ASSUME NEW job, SyncWrites(job), NEW a \in acts'
  PROVE  \/ a \in acts /\ \A c \in Changes(job) : c.ext # a.ext
         \/ \E c \in Changes(job) : a.ext = c.ext /\ a.val = Written(job, c.ext)
              /\ a = [ext |-> c.ext, val |-> Written(job, c.ext)]
         \/ \E u \in job.new : a.ext = <<job.id, u>> /\ a.val = Docs[job.got][u]
              /\ a = [ext |-> <<job.id, u>>, val |-> Docs[job.got][u]]
<1>1. CASE a \in acts /\ \A c \in Changes(job) : c.ext # a.ext
  BY <1>1
<1>2. CASE \E c \in Changes(job) : a = [ext |-> c.ext, val |-> Written(job, c.ext)]
  <2>1. PICK c \in Changes(job) : a = [ext |-> c.ext, val |-> Written(job, c.ext)]
    BY <1>2
  <2>2. a.ext = c.ext /\ a.val = Written(job, c.ext)
    BY <2>1
  <2>. QED  BY <2>1, <2>2
<1>3. CASE \E u \in job.new : a = [ext |-> <<job.id, u>>, val |-> Docs[job.got][u]]
  <2>1. PICK u \in job.new : a = [ext |-> <<job.id, u>>, val |-> Docs[job.got][u]]
    BY <1>3
  <2>2. a.ext = <<job.id, u>> /\ a.val = Docs[job.got][u]
    BY <2>1
  <2>. QED  BY <2>1, <2>2
<1>. QED  BY <1>1, <1>2, <1>3 DEF SyncWrites

LEMMA SyncWritesKeeps ==
  ASSUME Core, NEW s \in CalendarPollers \cup Callers, sync[s].step = "open", sync[s].todo = {},
         SyncWrites(sync[s]), sync' = [sync EXCEPT ![s] = IdleSync],
         UNCHANGED <<box, version, cfg, poll, made, missed, crossed>>
  PROVE  Core'
<1>. DEFINE job == sync[s]
<1>1. /\ SyncOK(job) /\ feed \in Feed /\ told \in [Ext -> Nat] /\ feed # Nil /\ job.id = feed.id
      /\ feed.id \in 1..made /\ feed.id \in 1..MaxMade /\ job.got \in DOMAIN Docs
      /\ job.new \subseteq Parsed(job.got) /\ job.tag \in {Nil, job.got} /\ bare' = (job.tag = Nil)
  BY DEF Core, MailTypes, SyncOK, SyncWrites, OwnersInv, Feed
<1>2. /\ told' \in [Ext -> Nat]
      /\ \A x \in Ext : /\ told[x] \in Nat /\ told'[x] \in Nat /\ told[x] <= told'[x]
                        /\ x[1] = job.id /\ x[2] \in job.new => told'[x] = told[x] + 1
                        /\ ~(x[1] = job.id /\ x[2] \in job.new) => told'[x] = told[x]
  BY <1>1, TellsFacts DEF SyncWrites
<1>3. /\ feed' \in Feed /\ feed' # Nil /\ feed'.id = feed.id
      /\ feed'.etag = IF job.tag \in {Nil, job.etag} THEN feed.etag ELSE job.got
  <2>. DEFINE etag == IF job.tag \in {Nil, job.etag} THEN feed.etag ELSE job.got
  <2>0. (IF NewEtag(job) = job.etag THEN feed.etag ELSE NewEtag(job)) = etag
    BY <1>1 DEF NewEtag
  <2>1. feed' = [feed EXCEPT !.etag = etag]
    BY <2>0 DEF SyncWrites
  <2>2. etag \in Versions
    BY <1>1 DEF Feed, Versions
  <2>. HIDE DEF etag
  <2>3. feed' \in Feed /\ feed'.id = feed.id /\ feed'.etag = etag
    BY <1>1, <2>1, <2>2 DEF Feed
  <2>4. feed' # Nil
    BY <2>3, InboundAssumption
  <2>. QED  BY <2>3, <2>4 DEF etag
<1>4. /\ DOMAIN sync' = DOMAIN sync /\ sync'[s] = IdleSync
      /\ \A q \in DOMAIN sync \ {s} : sync'[q] = sync[q]
  BY DEF Core, MailTypes
<1>5. \A u \in Parsed(job.got) : <<feed.id, u>> \in Ext
  BY <1>1, ExtFacts
<1>6. ASSUME NEW c \in Changes(job) PROVE \E b \in acts : b.ext = c.ext
  BY <1>6 DEF SyncWrites, Known
<1>7. ASSUME NEW a \in acts'
      PROVE  \/ a \in acts /\ \A c \in Changes(job) : c.ext # a.ext
             \/ \E c \in Changes(job) : a.ext = c.ext /\ a.val = Written(job, c.ext)
                  /\ a = [ext |-> c.ext, val |-> Written(job, c.ext)]
             \/ \E u \in job.new : a.ext = <<job.id, u>> /\ a.val = Docs[job.got][u]
                  /\ a = [ext |-> <<job.id, u>>, val |-> Docs[job.got][u]]
  BY <1>7, ActsAfter
<1>. HIDE DEF job
<1>8. MailTypes'
  <2>1. ASSUME NEW q \in CalendarPollers \cup Callers PROVE SyncOK(sync[q])'
    <3>1. SyncOK(sync'[q])
      BY <1>4, IdleSyncFacts DEF Core, MailTypes
    <3>. QED  BY <3>1 DEF SyncOK
  <2>. QED  BY <1>2, <1>3, <1>4, <2>1 DEF Core, MailTypes
<1>9. OwnersInv'
  <2>1. ASSUME NEW x \in Ext, x[1] > made PROVE told'[x] = 0
    <3>1. told[x] = 0
      BY <2>1 DEF Core, OwnersInv
    <3>2. x[1] # job.id
      BY <1>1, <2>1 DEF Core, MailTypes
    <3>. QED  BY <1>2, <3>1, <3>2
  <2>2. ASSUME NEW a \in acts PROVE a.ext \in Ext /\ told'[a.ext] > 0
    <3>1. a.ext \in Ext /\ told[a.ext] > 0
      BY <2>2 DEF Core, OwnersInv
    <3>. QED  BY <1>2, <3>1
  <2>3. ASSUME NEW u \in job.new PROVE <<job.id, u>> \in Ext /\ told'[<<job.id, u>>] > 0
    <3>1. <<job.id, u>> \in Ext
      BY <1>1, <1>5
    <3>2. told'[<<job.id, u>>] = told[<<job.id, u>>] + 1 /\ told[<<job.id, u>>] \in Nat
      BY <1>2, <3>1
    <3>. QED  BY <3>1, <3>2
  <2>4. ASSUME NEW a \in acts' PROVE a.ext \in Ext /\ told'[a.ext] > 0
    <3>1. CASE a \in acts
      BY <2>2, <3>1
    <3>2. CASE \E c \in Changes(job) : a.ext = c.ext
      BY <1>6, <2>2, <3>2
    <3>3. CASE \E u \in job.new : a.ext = <<job.id, u>>
      BY <2>3, <3>3
    <3>. QED  BY <1>7, <3>1, <3>2, <3>3
  <2>5. /\ cfg # Nil => cfg.id \in 1..made /\ cfg.id # feed'.id
        /\ feed'.id \in 1..made
        /\ \A p \in MailPollers : poll[p].step # "idle" => poll[p].id \in 1..made
    BY <1>1, <1>3 DEF Core, OwnersInv
  <2>. QED  BY <2>1, <2>4, <2>5 DEF OwnersInv
<1>10. ASSUME NEW x \in Ext, told[x] > 0 PROVE told'[x] > 0
  <2>1. told[x] <= told'[x] /\ told[x] \in Nat /\ told'[x] \in Nat
    BY <1>2
  <2>. QED  BY <1>10, <2>1
<1>11. SkipInv'
  <2>1. ASSUME NEW i \in 1..MaxMade, NEW u \in Uids, Taken(i, u)
        PROVE  told'[<<i, u>>] > 0 \/ <<i, u>> \in missed
    BY <1>10, <2>1, ExtFacts DEF Taken
  <2>2. NothingSkipped'
    <3>. SUFFICES ASSUME cfg # Nil, NEW u \in 1..Mark(cfg.mark)
                  PROVE  told'[<<cfg.id, u>>] > 0 \/ <<cfg.id, u>> \in missed
      BY DEF NothingSkipped, Taken, Mark
    <3>1. Taken(cfg.id, u)
      BY DEF Core, SkipInv, NothingSkipped
    <3>2. Mark(cfg.mark) \in 0..MaxMail /\ cfg.id \in 1..MaxMade /\ MaxMail \in Nat
      BY MarkFacts, InboundAssumption DEF Core, MailTypes, Config
    <3>3. u \in Uids
      BY <3>2 DEF Uids
    <3>. QED  BY <2>1, <3>1, <3>2, <3>3
  <2>3. ASSUME NEW p \in MailPollers PROVE PollInv(poll[p])'
    <3>. DEFINE old == poll[p]
    <3>1. PollInv(old) /\ (old.step # "idle" => old.id \in 1..MaxMade)
      BY InboundAssumption DEF Core, SkipInv, OwnersInv, MailTypes
    <3>. HIDE DEF old
    <3>2. old.step # "idle" => \A u \in Uids : Covered(old, u) =>
            u \in old.todo \/ u \in old.new \/ u \in old.failed
              \/ told'[<<old.id, u>>] > 0 \/ <<old.id, u>> \in missed
      BY <2>1, <3>1 DEF Covered
    <3>3. old = poll'[p]
      BY DEF old
    <3>4. PollInv(old)'
      BY <3>1, <3>2, <3>3 DEF PollInv, Covered, Taken, old
    <3>. QED  BY <3>4 DEF old
  <2>. QED  BY <2>2, <2>3 DEF SkipInv
<1>12. SerialInv'
  <2>. SUFFICES ASSUME ~crossed PROVE (OnceInv /\ SyncedInv /\ EtagMeansSynced)'
    BY DEF SerialInv
  <2>1. OnceInv /\ SyncedInv /\ EtagMeansSynced
    BY DEF Core, SerialInv
  <2>2. \A q \in DOMAIN sync' : sync'[q].step # "open"
    BY <1>4, <2>1, IdleSyncFacts DEF SyncedInv, Core, MailTypes
  <2>3. Seen(job)
    BY <1>1, <2>1 DEF SyncedInv, job, Core, MailTypes
  <2>4. OnceInv'
    <3>1. ASSUME cfg # Nil, NEW u \in Uids PROVE told'[<<cfg.id, u>>] = told[<<cfg.id, u>>]
      <4>1. cfg.id # job.id /\ cfg.id \in 1..MaxMade
        BY <1>1, <3>1 DEF Core, OwnersInv, MailTypes, Config
      <4>2. <<cfg.id, u>> \in Ext
        BY <4>1, ExtFacts
      <4>. QED  BY <1>2, <4>1, <4>2
    <3>. QED  BY <2>1, <3>1 DEF OnceInv
  <2>5. \A u \in job.new, a \in acts : a.ext # <<job.id, u>>
    BY <2>3 DEF Seen
  <2>6. \A u \in job.new, c \in Changes(job) : c.ext # <<job.id, u>>
    BY <1>6, <2>5
  <2>7. ASSUME NEW a \in acts', NEW b \in acts', a.ext = b.ext PROVE a = b
    <3>1. CASE a \in acts /\ \A c \in Changes(job) : c.ext # a.ext
      <4>1. b \in acts
        BY <1>7, <2>5, <2>7, <3>1
      <4>. QED  BY <2>1, <2>7, <3>1, <4>1 DEF SyncedInv
    <3>2. CASE \E c \in Changes(job) : a.ext = c.ext /\ a = [ext |-> c.ext, val |-> Written(job, c.ext)]
      <4>1. PICK c \in Changes(job) : a.ext = c.ext /\ a = [ext |-> c.ext, val |-> Written(job, c.ext)]
        BY <3>2
      <4>2. PICK d \in Changes(job) : b.ext = d.ext /\ b = [ext |-> d.ext, val |-> Written(job, d.ext)]
        BY <1>7, <2>6, <2>7, <4>1
      <4>. QED  BY <2>7, <4>1, <4>2
    <3>3. CASE \E u \in job.new : a.ext = <<job.id, u>> /\ a = [ext |-> <<job.id, u>>, val |-> Docs[job.got][u]]
      <4>1. PICK u \in job.new : a.ext = <<job.id, u>> /\ a = [ext |-> <<job.id, u>>, val |-> Docs[job.got][u]]
        BY <3>3
      <4>2. PICK w \in job.new : b.ext = <<job.id, w>> /\ b = [ext |-> <<job.id, w>>, val |-> Docs[job.got][w]]
        BY <1>7, <2>5, <2>6, <2>7, <4>1
      <4>3. u = w
        BY <2>7, <4>1, <4>2
      <4>. QED  BY <4>1, <4>2, <4>3
    <3>. QED  BY <1>7, <3>1, <3>2, <3>3
  <2>8. SyncedInv'
    BY <2>2, <2>7 DEF SyncedInv
  <2>9. ~bare' => feed'.etag = job.got
    BY <1>1, <1>3, <2>3 DEF Seen
  <2>10. ASSUME NEW u \in Parsed(job.got)
         PROVE  /\ told'[<<feed.id, u>>] > 0
                /\ \A a \in acts' : a.ext = <<feed.id, u>> => a.val = Docs[job.got][u]
    <3>1. u \in job.new \/ \E a \in job.old : a.ext = <<job.id, u>>
      <4>1. job.todo = {}
        BY DEF job
      <4>. QED  BY <2>3, <4>1 DEF Seen
    <3>2. <<feed.id, u>> \in Ext /\ job.id = feed.id /\ <<feed.id, u>>[2] = u /\ <<feed.id, u>>[1] = feed.id
      BY <1>1, <1>5
    <3>3. told'[<<feed.id, u>>] > 0
      <4>1. CASE u \in job.new
        <5>1. told'[<<feed.id, u>>] = told[<<feed.id, u>>] + 1 /\ told[<<feed.id, u>>] \in Nat
          BY <1>2, <3>2, <4>1
        <5>. QED  BY <5>1
      <4>2. CASE \E a \in job.old : a.ext = <<job.id, u>>
        BY <1>10, <2>3, <3>2, <4>2 DEF Seen
      <4>. QED  BY <3>1, <4>1, <4>2
    <3>4. ASSUME NEW a \in acts', a.ext = <<feed.id, u>> PROVE a.val = Docs[job.got][u]
      <4>1. CASE a \in acts /\ \A c \in Changes(job) : c.ext # a.ext
        <5>1. PICK b \in job.old : b.ext = <<job.id, u>>
          BY <2>5, <3>1, <3>2, <3>4, <4>1
        <5>2. a = b
          BY <2>3, <3>2, <3>4, <4>1, <5>1 DEF Seen
        <5>3. Written(job, a.ext) = a.val
          BY <4>1, <5>1, <5>2 DEF Changes
        <5>. QED  BY <3>2, <3>4, <5>3 DEF Written
      <4>2. CASE \E c \in Changes(job) : a.ext = c.ext /\ a.val = Written(job, c.ext)
        BY <3>2, <3>4, <4>2 DEF Written
      <4>3. CASE \E w \in job.new : a.ext = <<job.id, w>> /\ a.val = Docs[job.got][w]
        <5>1. PICK w \in job.new : a.ext = <<job.id, w>> /\ a.val = Docs[job.got][w]
          BY <4>3
        <5>2. w = u
          BY <3>4, <5>1
        <5>. QED  BY <5>1, <5>2
      <4>. QED  BY <1>7, <4>1, <4>2, <4>3
    <3>. QED  BY <3>3, <3>4
  <2>11. EtagMeansSynced'
    BY <1>3, <2>9, <2>10 DEF EtagMeansSynced, Says, Parsed
  <2>. QED  BY <2>4, <2>8, <2>11
<1>. QED  BY <1>8, <1>9, <1>11, <1>12 DEF Core

LEMMA SyncCommitKeeps ==
  ASSUME Core, NEW s \in CalendarPollers \cup Callers, SyncCommit(s)
  PROVE  Core'
<1>1. /\ sync[s].step = "open" /\ sync[s].todo = {} /\ sync' = [sync EXCEPT ![s] = IdleSync]
      /\ UNCHANGED <<box, version, poll, made, missed, crossed>>
  BY DEF SyncCommit, servers
<1>2. CASE UNCHANGED <<rows, bare>>
  BY <1>1, <1>2, IdleSyncFacts, SyncGoes DEF rows, Core, MailTypes
<1>3. CASE SyncWrites(sync[s]) /\ UNCHANGED cfg
  BY <1>1, <1>3, SyncWritesKeeps
<1>4. UNCHANGED <<rows, bare>> \/ (SyncWrites(sync[s]) /\ UNCHANGED cfg)
  BY DEF SyncCommit, SyncWrites, Changes, Written, NewEtag
<1>. QED  BY <1>2, <1>3, <1>4
-----------------------------------------------------------------------------
(***************************************************************************)
(* Sending: the mails between SMTP and the commit are those of the         *)
(* requests that stand there.                                              *)
(***************************************************************************)
Sending == {c \in Senders : send[c] = "sent"}

LEMMA SendKeeps ==
  ASSUME Core, SentInv, NEW c \in Senders, SendMail(c) \/ RecordSent(c) \/ SendCut(c)
  PROVE  Core' /\ SentInv'
<1>1. UNCHANGED <<box, version, cfg, feed, acts, told, poll, sync, made, missed, bare, crossed>>
  BY DEF SendMail, RecordSent, SendCut, servers, rows, history
<1>2. Core'
  BY <1>1, QuietKeeps DEF Core, MailTypes
<1>3. /\ send \in [Senders -> {"idle", "sent"}] /\ mails \in [sent : Nat, noted : Nat, cut : Nat]
      /\ IsFiniteSet(Sending) /\ mails.sent = mails.noted + mails.cut + Cardinality(Sending)
      /\ Cardinality(Sending) \in Nat
  BY FS_CardinalityType DEF SentInv, SentIsNoted, Sending
<1>4. CASE UNCHANGED <<send, mails>>
  BY <1>2, <1>4 DEF SentInv, SentIsNoted
<1>5. CASE /\ send[c] = "idle" /\ send' = [send EXCEPT ![c] = "sent"]
           /\ mails' = [mails EXCEPT !.sent = @ + 1]
  <2>1. send' \in [Senders -> {"idle", "sent"}] /\ mails' \in [sent : Nat, noted : Nat, cut : Nat]
    BY <1>3, <1>5
  <2>2. Sending' = Sending \cup {c} /\ c \notin Sending
    BY <1>3, <1>5 DEF Sending
  <2>3. IsFiniteSet(Sending') /\ Cardinality(Sending') = Cardinality(Sending) + 1
    BY <1>3, <2>2, FS_AddElement
  <2>4. mails'.sent = mails.sent + 1 /\ mails'.noted = mails.noted /\ mails'.cut = mails.cut
    BY <1>3, <1>5
  <2>5. mails.sent \in Nat /\ mails.noted \in Nat /\ mails.cut \in Nat
    BY <1>3
  <2>6. mails'.sent = mails'.noted + mails'.cut + Cardinality(Sending')
    BY <1>3, <2>3, <2>4, <2>5
  <2>. QED  BY <1>2, <2>1, <2>3, <2>6 DEF SentInv, SentIsNoted, Sending
<1>6. CASE /\ send[c] = "sent" /\ send' = [send EXCEPT ![c] = "idle"]
           /\ mails' \in {[mails EXCEPT !.noted = mails.noted + 1], [mails EXCEPT !.cut = mails.cut + 1]}
  <2>1. send' \in [Senders -> {"idle", "sent"}] /\ mails' \in [sent : Nat, noted : Nat, cut : Nat]
    BY <1>3, <1>6
  <2>2. Sending' = Sending \ {c} /\ c \in Sending
    BY <1>3, <1>6 DEF Sending
  <2>3. IsFiniteSet(Sending') /\ Cardinality(Sending') = Cardinality(Sending) - 1
    BY <1>3, <2>2, FS_RemoveElement
  <2>4. mails'.sent = mails.sent /\ mails'.noted + mails'.cut = mails.noted + mails.cut + 1
    BY <1>3, <1>6
  <2>5. mails.sent \in Nat /\ mails.noted \in Nat /\ mails.cut \in Nat
        /\ mails'.noted \in Nat /\ mails'.cut \in Nat
    BY <1>3, <2>1
  <2>6. mails'.sent = mails'.noted + mails'.cut + Cardinality(Sending')
    BY <1>3, <2>3, <2>4, <2>5
  <2>. QED  BY <1>2, <2>1, <2>3, <2>6 DEF SentInv, SentIsNoted, Sending
<1>. QED  BY <1>4, <1>5, <1>6 DEF SendMail, RecordSent, SendCut
-----------------------------------------------------------------------------
LEMMA MailInitial ==
  ASSUME InboundInit
  PROVE  MailInv
<1>1. /\ box = 0 /\ version = 1 /\ made = 0 /\ cfg = Nil /\ feed = Nil /\ acts = {}
      /\ told = [x \in Ext |-> 0] /\ poll = [p \in MailPollers |-> IdlePoll]
      /\ sync = [s \in CalendarPollers \cup Callers |-> IdleSync]
      /\ send = [c \in Senders |-> "idle"] /\ mails = [sent |-> 0, noted |-> 0, cut |-> 0]
      /\ missed = {} /\ crossed = FALSE
  BY DEF InboundInit
<1>2. \A p \in MailPollers : poll[p] = IdlePoll
  BY <1>1
<1>3. \A s \in DOMAIN sync : sync[s] = IdleSync
  BY <1>1
<1>4. MailTypes
  <2>1. 0 \in 0..MaxMail /\ 0 \in 0..MaxMade
    BY InboundAssumption
  <2>2. poll \in [MailPollers -> PollJob]
    BY <1>1, IdlePollFacts
  <2>3. \A s \in CalendarPollers \cup Callers : SyncOK(sync[s])
    BY <1>1, <1>3, IdleSyncFacts
  <2>. QED  BY <1>1, <2>1, <2>2, <2>3, DocsFacts DEF MailTypes
<1>5. OwnersInv
  BY <1>1, <1>2, IdlePollFacts DEF OwnersInv
<1>6. SkipInv
  BY <1>1, <1>2, IdlePollFacts DEF SkipInv, NothingSkipped
<1>7. SerialInv
  BY <1>1, <1>2, <1>3, IdlePollFacts, IdleSyncFacts DEF SerialInv, OnceInv, SyncedInv, EtagMeansSynced, Says
<1>8. SentInv
  <2>1. {c \in Senders : send[c] = "sent"} = {}
    BY <1>1
  <2>2. IsFiniteSet({}) /\ Cardinality({}) = 0
    BY FS_EmptySet
  <2>. QED  BY <1>1, <2>1, <2>2 DEF SentInv, SentIsNoted
<1>9. UnreadableInv
  BY DEF InboundInit, UnreadableInv
<1>. QED  BY <1>4, <1>5, <1>6, <1>7, <1>8, <1>9 DEF MailInv

LEMMA MailNext ==
  ASSUME MailInv, [InboundNext]_inboundVars
  PROVE  MailInv'
<1>1. Core /\ SentInv
  BY DEF MailInv, Core
<1>2. UnreadableInv'
  <2>1. CASE \E b \in BOOLEAN : Arrive(b)
    <3>1. PICK b \in BOOLEAN : Arrive(b)
      BY <2>1
    <3>2. unreadable' \subseteq unreadable \cup {box'} /\ box' = box + 1 /\ box \in Nat
      BY <1>1, <3>1, InboundAssumption DEF Arrive, Core, MailTypes
    <3>3. unreadable \subseteq 1..box
      BY DEF MailInv, UnreadableInv
    <3>. QED  BY <3>2, <3>3 DEF UnreadableInv
  <2>2. CASE UNCHANGED <<box, unreadable>>
    BY <2>2 DEF MailInv, UnreadableInv
  <2>3. ASSUME ~(\E b \in BOOLEAN : Arrive(b)) PROVE UNCHANGED <<box, unreadable>>
    <3>1. CASE UNCHANGED inboundVars
      BY <3>1 DEF inboundVars
    <3>2. CASE \/ \E b \in BOOLEAN : PutConfig(b) \/ PatchFeed(b)
               \/ Edit \/ DeleteConfig \/ CreateFeed \/ DeleteFeed
      BY <3>2 DEF PutConfig, Edit, DeleteConfig, CreateFeed, PatchFeed, DeleteFeed, servers
    <3>3. CASE \/ \E a \in acts : DeleteActivity(a)
               \/ \E c \in Senders : SendMail(c) \/ RecordSent(c) \/ SendCut(c)
      BY <3>3 DEF DeleteActivity, SendMail, RecordSent, SendCut, servers
    <3>4. CASE \E p \in MailPollers : PollSearch(p) \/ Polls(p) \/ FetchFails(p) \/ PollFails(p)
      BY <3>4 DEF PollSearch, Polls, PollOpen, Fetch, FetchRefused, RecordRaises, PollCommit, FetchFails,
                  PollFails, servers
    <3>5. CASE \E s \in CalendarPollers \cup Callers : SyncFetch(s) \/ Syncs(s) \/ SyncFails(s)
      BY <3>5 DEF SyncFetch, Syncs, SyncRaises, SyncOpen, SyncEvent, SyncRefused, SyncCommit, SyncFails, servers
    <3>. QED  BY <2>3, <3>1, <3>2, <3>3, <3>4, <3>5 DEF InboundNext
  <2>. QED  BY <2>1, <2>2, <2>3
<1>3. CASE UNCHANGED <<send, mails>>
  <2>1. SentInv'
    BY <1>1, <1>3 DEF SentInv, SentIsNoted
  <2>2. CASE UNCHANGED inboundVars
    BY <1>1, <1>2, <2>1, <2>2, QuietKeeps DEF inboundVars, MailInv, Core, MailTypes
  <2>3. CASE \E b \in BOOLEAN : Arrive(b)
    <3>1. box' \in 0..MaxMail
      BY <1>1, <1>2, <2>3, InboundAssumption DEF Arrive, Core, MailTypes
    <3>2. UNCHANGED <<version, cfg, feed, acts, told, poll, sync, made, missed, bare, crossed>>
      BY <2>3 DEF Arrive, rows, history
    <3>. QED  BY <1>1, <1>2, <2>1, <3>1, <3>2, QuietKeeps DEF MailInv, Core, MailTypes
  <2>4. CASE Edit
    <3>1. version' \in DOMAIN Docs
      BY <1>1, <1>2, <2>4, DocsFacts DEF Edit, Core, MailTypes
    <3>2. UNCHANGED <<box, cfg, feed, acts, told, poll, sync, made, missed, bare, crossed>>
      BY <2>4 DEF Edit, rows, history
    <3>. QED  BY <1>1, <1>2, <2>1, <3>1, <3>2, QuietKeeps DEF MailInv, Core, MailTypes
  <2>5. CASE \/ \E b \in BOOLEAN : PutConfig(b) \/ PatchFeed(b)
             \/ DeleteConfig \/ CreateFeed \/ DeleteFeed
             \/ \E a \in acts : DeleteActivity(a)
    BY <1>1, <1>2, <2>1, <2>5, SettingsKeep DEF MailInv, Core
  <2>6. CASE \E p \in MailPollers : PollSearch(p) \/ Polls(p) \/ FetchFails(p) \/ PollFails(p)
    <3>1. Core'
      BY <1>1, <1>2, <2>6, PollSearchKeeps, PollOpenKeeps, FetchKeeps, PollEnds, PollCommitKeeps,
         FetchFailsKeeps DEF Polls
    <3>. QED  BY <1>2, <2>1, <3>1 DEF MailInv, Core
  <2>7. CASE \E s \in CalendarPollers \cup Callers : SyncFetch(s) \/ Syncs(s) \/ SyncFails(s)
    <3>1. Core'
      BY <1>1, <1>2, <2>7, SyncFetchKeeps, SyncOpenKeeps, SyncEventKeeps, SyncEnds, SyncCommitKeeps DEF Syncs
    <3>. QED  BY <1>2, <2>1, <3>1 DEF MailInv, Core
  <2>8. CASE \E c \in Senders : SendMail(c) \/ RecordSent(c) \/ SendCut(c)
    BY <1>1, <1>2, <2>8, SendKeeps DEF MailInv, Core
  <2>. QED  BY <2>2, <2>3, <2>4, <2>5, <2>6, <2>7, <2>8 DEF InboundNext
<1>4. CASE \E c \in Senders : SendMail(c) \/ RecordSent(c) \/ SendCut(c)
  BY <1>1, <1>4, <1>2, SendKeeps DEF MailInv, Core
<1>5. UNCHANGED <<send, mails>> \/ \E c \in Senders : SendMail(c) \/ RecordSent(c) \/ SendCut(c)
  <2>1. CASE UNCHANGED inboundVars
    BY <2>1 DEF inboundVars
  <2>2. CASE \E b \in BOOLEAN : Arrive(b) \/ PutConfig(b) \/ PatchFeed(b)
    BY <2>2 DEF Arrive, PutConfig, PatchFeed
  <2>3. CASE Edit \/ DeleteConfig \/ CreateFeed \/ DeleteFeed
    BY <2>3 DEF Edit, DeleteConfig, CreateFeed, DeleteFeed
  <2>4. CASE \E a \in acts : DeleteActivity(a)
    BY <2>4 DEF DeleteActivity
  <2>5. CASE \E p \in MailPollers : PollSearch(p) \/ Polls(p) \/ FetchFails(p) \/ PollFails(p)
    BY <2>5 DEF PollSearch, Polls, PollOpen, Fetch, FetchRefused, RecordRaises, PollCommit, FetchFails, PollFails
  <2>6. CASE \E s \in CalendarPollers \cup Callers : SyncFetch(s) \/ Syncs(s) \/ SyncFails(s)
    BY <2>6 DEF SyncFetch, Syncs, SyncRaises, SyncOpen, SyncEvent, SyncRefused, SyncCommit, SyncFails
  <2>. QED  BY <2>1, <2>2, <2>3, <2>4, <2>5, <2>6 DEF InboundNext
<1>. QED  BY <1>3, <1>4, <1>5

\* The invariant holds in every state: what came in, what is marked as taken, and
\* what the open polls and syncs hold of it agree.
THEOREM MailInvariance == InboundSpec => []MailInv
<1>1. InboundInit => MailInv
  BY MailInitial
<1>2. MailInv /\ [InboundNext]_inboundVars => MailInv'
  BY MailNext
<1>. QED  BY <1>1, <1>2, PTL DEF InboundSpec

\* The state of mail and calendars keeps its types.
THEOREM InboundTypes == InboundSpec => []InboundTypeOK
<1>1. MailInv => InboundTypeOK
  BY DEF MailInv, MailTypes, OwnersInv, UnreadableInv, InboundTypeOK
<1>. QED  BY <1>1, MailInvariance, PTL

\* The watermark of poll_config passes over no message but one whose fetch failed.
THEOREM WatermarkSkipsNothing == InboundSpec => []NothingSkipped
BY MailInvariance, PTL DEF MailInv, SkipInv

\* A poll takes no message a second time, an activity deleted or not, while no two
\* polls or syncs were open at once.
THEOREM MailIsTakenOnce == InboundSpec => []MailTakenOnce
<1>1. MailInv => MailTakenOnce
  BY DEF MailInv, SerialInv, OnceInv, MailTakenOnce
<1>. QED  BY <1>1, MailInvariance, PTL

\* A feed whose ETag is that of a version holds what the version says, whatever its
\* address came to serve, unless the document last taken came without an ETag or two
\* syncs were open at once.
THEOREM EtagIsHonest == InboundSpec => []EtagMeansSynced
<1>1. MailInv => EtagMeansSynced
  BY DEF MailInv, SerialInv, EtagMeansSynced, Says
<1>. QED  BY <1>1, MailInvariance, PTL

\* Every mail SMTP took is on the timeline, was cut off, or is about to be noted.
THEOREM MailSentIsNoted == InboundSpec => []SentIsNoted
BY MailInvariance, PTL DEF MailInv, SentInv
=============================================================================
