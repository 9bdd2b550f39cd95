--------------------------- MODULE RecordsProofs ----------------------------
(***************************************************************************)
(* The invariants of Records for every number of rows, columns' values and *)
(* overlapping requests.  RecordsInv has two halves: what holds however    *)
(* requests overlap, and what holds as long as they have not.              *)
(***************************************************************************)
EXTENDS Records, TLAPS

-----------------------------------------------------------------------------
(* Bodies and columns.                                                     *)

\* A body put over columns gives columns; over nothing, it gives itself.
LEMMA OverColumns ==
  ASSUME NEW b \in Columns, NEW old \in Columns
  PROVE  /\ Over(b, old) \in Columns
         /\ Over(b, Blank) = b
         /\ b.key = None => Over(b, old).key = old.key
         /\ b.key # None => Over(b, old).key = b.key
BY DEF Over, Columns, Blank

LEMMA BlankTypes == Blank \in Columns /\ Blank.key = None /\ Idle \in Call /\ Unused \in Row
BY DEF Blank, Columns, Idle, Call, Unused, Row

-----------------------------------------------------------------------------
(* One request's step: call[c] becomes k.                                  *)

\* What a step leaves of the types: rows once used stay used.
LEMMA TypeKept ==
  ASSUME TypeOK, NEW c \in Calls, NEW k \in Call, call' = [call EXCEPT ![c] = k],
         row' \in [Ids -> Row], \A r \in Ids : Used(r) => Used(r)',
         k.id # None => Used(k.id)',
         told' \in [Ids -> {"none", "create", "delete", "restore"}],
         listed' \subseteq {r \in Ids : Used(r)'},
         begun' \in 0..MaxCalls, past' \in Past \cup {None}, cut' \subseteq Ids
  PROVE  /\ TypeOK'
         /\ call'[c] = k /\ \A o \in Calls \ {c} : call'[o] = call[o]
<1>1. call'[c] = k /\ \A o \in Calls \ {c} : call'[o] = call[o]
  BY DEF TypeOK
<1>2. call' \in [Calls -> Call]
  BY DEF TypeOK
<1>3. ASSUME NEW o \in Calls, call'[o].id # None PROVE Used(call[o].id)'
  <2>1. CASE o = c
    BY <1>1, <1>3, <2>1
  <2>2. CASE o # c
    <3>1. call'[o] = call[o] /\ call[o].id \in Ids /\ Used(call[o].id)
      BY <1>1, <1>3, <2>2 DEF TypeOK, Call, Used
    <3> QED BY <3>1
  <2> QED BY <2>1, <2>2
<1> QED BY <1>1, <1>2, <1>3 DEF TypeOK, Used

LEMMA HoldsKept ==
  ASSUME CallInv, NEW c \in Calls, NEW k, Holds(k), call'[c] = k,
         \A r \in k.done : Used(r)',
         \A o \in Calls : \A r \in call[o].done : Used(r) => Used(r)',
         \A o \in Calls \ {c} : call'[o] = call[o]
  PROVE  CallInv'
BY DEF CallInv

\* The account of a row: the requests of others keep theirs.
Accounted(r, k) ==
  r \in k.done \/ (k.op = "create" /\ k.step = "event" /\ k.id = r)

LEMMA AccountKept ==
  ASSUME EveryRowAccounted, NEW c \in Calls,
         \A o \in Calls \ {c} : call'[o] = call[o],
         \A r \in Ids : told[r] # "none" => told'[r] # "none",
         listed \subseteq listed', cut \subseteq cut',
         \A r \in Ids : (Used(r)' /\ ~Used(r)) \/ Accounted(r, call[c]) =>
            Accounted(r, call'[c]) \/ told'[r] # "none" \/ r \in listed' \cup cut'
  PROVE  EveryRowAccounted'
<1> SUFFICES ASSUME NEW r \in Ids, Used(r)'
             PROVE  \/ told'[r] # "none" \/ r \in listed' \cup cut'
                    \/ \E o \in Calls : Accounted(r, call'[o])
  BY DEF EveryRowAccounted, Accounted, At
<1>1. CASE ~Used(r)
  BY <1>1
<1>2. CASE Used(r)
  <2>1. \/ told[r] # "none" \/ r \in listed \cup cut
        \/ \E o \in Calls : Accounted(r, call[o])
    BY <1>2 DEF EveryRowAccounted, Accounted, At
  <2>2. ASSUME NEW o \in Calls, Accounted(r, call[o]), o # c
        PROVE  Accounted(r, call'[o])
    BY <2>2
  <2> QED BY <2>1, <2>2
<1> QED BY <1>1, <1>2

\* The index: only a row with a free external_id is written.
LEMMA ExtKept ==
  ASSUME TypeOK, ExternalIdsUnique, NEW r \in Ids, NEW new \in Row,
         row' = [row EXCEPT ![r] = new],
         FreeExt(r, new.col.ext) \/ (Used(r) /\ new.col = row[r].col)
  PROVE  ExternalIdsUnique'
<1>1. row'[r] = new /\ \A o \in Ids \ {r} : row'[o] = row[o]
  BY DEF TypeOK
<1>2. ASSUME NEW o \in Ids \ {r}, Used(o), row[o].col.ext = new.col.ext, new.col.ext # None
      PROVE  FALSE
  BY <1>2 DEF FreeExt, ExternalIdsUnique
<1> QED BY <1>1, <1>2 DEF ExternalIdsUnique, Used

-----------------------------------------------------------------------------
(* While requests have not overlapped.                                     *)

\* The request that takes a step is the only one.
Alone(c) == \A o \in Calls \ {c} : call[o] = Idle

LEMMA StarterAlone ==
  ASSUME NEW c \in Calls, NEW k, Starts(c, k), past' # None
  PROVE  Alone(c) /\ past' = past
BY DEF Starts, Alone

LEMMA ActiveAlone ==
  ASSUME OneCall, NEW c \in Calls, call[c] # Idle, past # None
  PROVE  Alone(c)
BY DEF OneCall, Alone

\* How the event a request is about to record relates to its row and to told.
ToldOf(k) ==
  /\ Telling(k) => (k.op = "delete" <=> row[k.id].life = "deleted")
  /\ \A r \in Ids \ cut : \/ told[r] = "delete" <=> row[r].life = "deleted"
                          \/ Telling(k) /\ k.id = r

\* With one request, the serial half is about that request.
LEMMA ToldBefore ==
  ASSUME ToldInv, past # None, NEW c \in Calls, Alone(c)
  PROVE  ToldOf(call[c])
<1>1. \A o \in Calls : Telling(call[o]) => o = c
  BY DEF Alone, Telling, Idle
<1> QED BY <1>1 DEF ToldInv, ToldOf

LEMMA SerialKept ==
  ASSUME NEW c \in Calls, \A o \in Calls \ {c} : call'[o] = call[o],
         past' # None => Alone(c) /\ Fresh(call[c])' /\ ToldOf(call[c])'
  PROVE  OneCall' /\ FreshInv' /\ ToldInv'
<1> SUFFICES ASSUME past' # None
             PROVE  OneCall' /\ FreshInv' /\ ToldInv'
  BY DEF OneCall, FreshInv, ToldInv
<1>1. \A o \in Calls \ {c} : call'[o] = Idle
  BY DEF Alone
<1>2. OneCall'
  BY <1>1 DEF OneCall
<1>3. ASSUME NEW o \in Calls PROVE Fresh(call[o])'
  BY <1>1 DEF Fresh, Idle
<1>4. ASSUME NEW o \in Calls, Telling(call[o])' PROVE o = c
  BY <1>1, <1>4 DEF Telling, Idle
<1>5. ToldInv'
  BY <1>4 DEF ToldInv, ToldOf
<1> QED BY <1>2, <1>3, <1>5 DEF FreshInv

Asked == NothingAsked /\ SerialWritesStick /\ SerialIngestDedupes

\* A step that writes no column, and uses no new row.
LEMMA ColumnsKept ==
  ASSUME Asked, past' \in {past, None},
         \A r \in Ids : (Used(r)' <=> Used(r)) /\ row'[r].col = row[r].col
  PROVE  Asked'
BY DEF Asked, NothingAsked, SerialWritesStick, SerialIngestDedupes

\* A step that puts body b over the columns of r.
LEMMA ColumnsWritten ==
  ASSUME TypeOK, Asked, NEW r \in Ids, NEW b \in Columns, NEW spreads \in BOOLEAN,
         Asks(r, b, spreads), NEW new \in Row, row' = [row EXCEPT ![r] = new],
         new.life # "unused",
         past # None =>
           /\ new.col = Over(b, IF Used(r) THEN row[r].col ELSE Blank)
           /\ ~spreads /\ r \notin past.spread /\ new.col.key # None =>
                \A o \in Ids \ {r} :
                  Used(o) /\ o \notin past.spread => row[o].col.key # new.col.key
  PROVE  Asked' /\ past' \in Past \cup {None}
<1>1. CASE past = None
  BY <1>1 DEF Asks, Asked, NothingAsked, SerialWritesStick, SerialIngestDedupes
<1>2. CASE past # None
  <2>1. row'[r] = new /\ \A o \in Ids \ {r} : row'[o] = row[o]
    BY DEF TypeOK
  <2>2. past \in Past
    BY <1>2 DEF TypeOK
  <2>3. PICK now \in Columns : now = Over(b, past.asked[r])
    BY <2>2, OverColumns DEF Past
  <2>4. /\ past' = [asked |-> [past.asked EXCEPT ![r] = now],
                    spread |-> IF spreads THEN past.spread \cup {r} ELSE past.spread]
        /\ past' \in Past
    BY <1>2, <2>2, <2>3 DEF Asks, Past
  <2>5. past'.asked[r] = now /\ \A o \in Ids \ {r} : past'.asked[o] = past.asked[o]
    BY <2>2, <2>4 DEF Past
  <2>6. now = new.col
    <3>1. past.asked[r] = IF Used(r) THEN row[r].col ELSE Blank
      BY <1>2 DEF Asked, NothingAsked, SerialWritesStick
    <3> QED BY <1>2, <2>3, <3>1
  <2>7. NothingAsked' /\ SerialWritesStick'
    BY <1>2, <2>1, <2>5, <2>6 DEF Asked, NothingAsked, SerialWritesStick, Used
  <2>8. past.spread \subseteq past'.spread /\ (r \notin past'.spread => ~spreads)
    BY <2>2, <2>4 DEF Past
  <2>9. SerialIngestDedupes'
    <3> SUFFICES ASSUME NEW p \in Ids \ past'.spread, NEW o \in Ids \ past'.spread, p # o,
                        Used(p)', Used(o)', row'[p].col.key = row'[o].col.key,
                        row'[p].col.key # None
                 PROVE  FALSE
      BY DEF SerialIngestDedupes
    <3>1. p \notin past.spread /\ o \notin past.spread
      BY <2>8
    <3>2. CASE p # r /\ o # r
      BY <1>2, <2>1, <3>1, <3>2 DEF Asked, SerialIngestDedupes, Used
    <3>3. CASE p = r
      BY <1>2, <2>1, <2>8, <3>1, <3>3 DEF Used
    <3>4. CASE o = r
      BY <1>2, <2>1, <2>8, <3>1, <3>4 DEF Used
    <3> QED BY <3>2, <3>3, <3>4
  <2> QED BY <2>4, <2>7, <2>9 DEF Asked
<1> QED BY <1>1, <1>2

-----------------------------------------------------------------------------
(* Steps that leave the table alone.                                       *)

LEMMA QuietKeeps ==
  ASSUME RecordsInv, NEW c \in Calls, NEW k \in Call, call' = [call EXCEPT ![c] = k],
         row' = row, begun' \in 0..MaxCalls, past' \in {past, None},
         past' # None => Alone(c),
         Holds(k), k.id # None => Used(k.id), \A r \in k.done : Used(r),
         told' \in [Ids -> {"none", "create", "delete", "restore"}],
         \A r \in Ids : told[r] # "none" => told'[r] # "none",
         listed \subseteq listed', listed' \subseteq {r \in Ids : Used(r)},
         cut \subseteq cut', cut' \subseteq Ids,
         \A r \in Ids : Accounted(r, call[c]) =>
            Accounted(r, k) \/ told'[r] # "none" \/ r \in listed' \cup cut',
         past' # None => Fresh(k) /\ ToldOf(k)'
  PROVE  RecordsInv'
<1>1. \A r \in Ids : (Used(r)' <=> Used(r)) /\ row'[r] = row[r]
  BY DEF Used
<1>2. TypeOK' /\ call'[c] = k /\ \A o \in Calls \ {c} : call'[o] = call[o]
  <2>1. TypeOK /\ past' \in Past \cup {None} /\ row' \in [Ids -> Row]
    BY DEF RecordsInv, TypeOK
  <2>2. k.id # None => Used(k.id)'
    BY DEF Used
  <2> QED BY <1>1, <2>1, <2>2, TypeKept
<1>3. CallInv'
  <2>1. \A o \in Calls : \A r \in call[o].done : Used(r) => Used(r)'
    BY DEF Used
  <2>2. \A r \in k.done : Used(r)'
    BY DEF Used
  <2> QED BY <1>2, <2>1, <2>2, HoldsKept DEF RecordsInv
<1>4. ExternalIdsUnique'
  BY DEF RecordsInv, ExternalIdsUnique, Used
<1>5. EveryRowAccounted'
  BY <1>1, <1>2, AccountKept DEF RecordsInv
<1>6. past' # None => Fresh(call[c])' /\ ToldOf(call[c])'
  BY <1>2 DEF Fresh, ToldOf, Found, Used
<1>7. OneCall' /\ FreshInv' /\ ToldInv'
  BY <1>2, <1>6, SerialKept
<1>8. Asked'
  BY <1>1, ColumnsKept DEF RecordsInv, Asked
<1> QED BY <1>2, <1>3, <1>4, <1>5, <1>7, <1>8 DEF RecordsInv, Asked

\* A request begins: a lookup that changes nothing.
LEMMA StartKeeps ==
  ASSUME RecordsInv, NEW c \in Calls, NEW k \in Call, Starts(c, k),
         UNCHANGED <<row, told, listed, cut>>,
         Holds(k), k.step # "event", k.op = "ingest" => k.step = "row", k.done = {},
         k.id # None => Used(k.id),
         k.op = "patch" => k.old = row[k.id].col
  PROVE  RecordsInv'
<1>1. begun' \in 0..MaxCalls
  BY RecordsAssumption DEF Starts, RecordsInv, TypeOK
<1>2. past' # None => Alone(c) /\ past' = past
  BY StarterAlone
<1>3. past' \in {past, None} /\ call' = [call EXCEPT ![c] = k] /\ call[c] = Idle
  BY DEF Starts
<1>4. ~\E r \in Ids : Accounted(r, call[c])
  BY <1>3 DEF Accounted, Idle
<1>5. past' # None => Fresh(k) /\ ToldOf(k)'
  <2>1. Fresh(k)
    BY DEF Fresh
  <2>2. past' # None => ToldOf(Idle)
    BY <1>2, <1>3, ToldBefore DEF RecordsInv
  <2> QED BY <2>1, <2>2 DEF ToldOf, Telling, Idle
<1> QED BY <1>1, <1>2, <1>3, <1>4, <1>5, QuietKeeps DEF RecordsInv, TypeOK, Used

LEMMA CreateCheckKeeps ==
  ASSUME RecordsInv, NEW c \in Calls, NEW b \in Columns, CreateCheck(c, b)
  PROVE  RecordsInv'
<1> DEFINE k == [Idle EXCEPT !.op = "create", !.step = "write", !.body = b]
<1>1. k \in Call /\ Holds(k) /\ k.step = "write" /\ k.op = "create" /\ k.id = None /\ k.done = {}
  BY BlankTypes DEF Idle, Call, Holds
<1>2. Starts(c, k) /\ UNCHANGED <<row, told, listed, cut>>
  BY DEF CreateCheck
<1> HIDE DEF k
<1> QED BY <1>1, <1>2, StartKeeps

LEMMA PatchReadKeeps ==
  ASSUME RecordsInv, NEW c \in Calls, NEW r \in Ids, NEW b \in Columns, PatchRead(c, r, b)
  PROVE  RecordsInv'
<1> DEFINE k == [Idle EXCEPT !.op = "patch", !.step = "write", !.id = r, !.body = b,
                             !.old = row[r].col]
<1>1. row[r].col \in Columns /\ Used(r)
  BY DEF RecordsInv, TypeOK, Row, PatchRead, Used
<1>2. /\ k \in Call /\ Holds(k) /\ k.step = "write" /\ k.op = "patch" /\ k.id = r
      /\ k.old = row[r].col /\ k.done = {}
  BY <1>1, BlankTypes, RecordsAssumption DEF Idle, Call, Holds
<1>3. Starts(c, k) /\ UNCHANGED <<row, told, listed, cut>>
  BY DEF PatchRead
<1> HIDE DEF k
<1> QED BY <1>1, <1>2, <1>3, StartKeeps

LEMMA MarkReadKeeps ==
  ASSUME RecordsInv, NEW c \in Calls, NEW r \in Ids, DeleteRead(c, r) \/ RestoreRead(c, r)
  PROVE  RecordsInv'
<1>1. PICK op \in {"delete", "restore"} :
        Starts(c, [Idle EXCEPT !.op = op, !.step = "write", !.id = r])
  BY DEF DeleteRead, RestoreRead
<1> DEFINE k == [Idle EXCEPT !.op = op, !.step = "write", !.id = r]
<1>2. UNCHANGED <<row, told, listed, cut>> /\ Used(r)
  BY DEF DeleteRead, RestoreRead, Used
<1>3. k \in Call /\ Holds(k) /\ k.step = "write" /\ k.op = op /\ k.id = r /\ k.done = {}
  BY BlankTypes, RecordsAssumption DEF Idle, Call, Holds
<1>4. Starts(c, k)
  BY <1>1
<1> HIDE DEF k
<1> QED BY <1>2, <1>3, <1>4, StartKeeps

LEMMA IngestStartKeeps ==
  ASSUME RecordsInv, NEW c \in Calls, IngestStart(c)
  PROVE  RecordsInv'
<1> DEFINE k == [Idle EXCEPT !.op = "ingest", !.step = "row"]
<1>1. k \in Call /\ Holds(k) /\ k.step = "row" /\ k.op = "ingest" /\ k.id = None /\ k.done = {}
  BY BlankTypes DEF Idle, Call, Holds
<1>2. Starts(c, k) /\ UNCHANGED <<row, told, listed, cut>>
  BY DEF IngestStart
<1> HIDE DEF k
<1> QED BY <1>1, <1>2, StartKeeps

\* What holds of the request that takes a step.
LEMMA Active ==
  ASSUME RecordsInv, NEW c \in Calls, call[c] # Idle
  PROVE  /\ call[c] \in Call /\ Holds(call[c]) /\ \A r \in call[c].done : Used(r)
         /\ call[c].id # None => call[c].id \in Ids /\ Used(call[c].id)
         /\ past # None => Alone(c) /\ Fresh(call[c]) /\ ToldOf(call[c])
<1>1. call[c] \in Call /\ Holds(call[c]) /\ \A r \in call[c].done : Used(r)
  BY DEF RecordsInv, TypeOK, CallInv
<1>2. call[c].id # None => call[c].id \in Ids /\ Used(call[c].id)
  BY <1>1 DEF RecordsInv, TypeOK, Call, Used
<1>3. past # None => Alone(c)
  BY ActiveAlone DEF RecordsInv
<1>4. past # None => Fresh(call[c]) /\ ToldOf(call[c])
  BY <1>3, ToldBefore DEF RecordsInv, FreshInv
<1> QED BY <1>1, <1>2, <1>3, <1>4

LEMMA RecordEventKeeps ==
  ASSUME RecordsInv, NEW c \in Calls, RecordEvent(c)
  PROVE  RecordsInv'
<1>1. PICK r \in Ids : r = call[c].id
  BY DEF RecordsInv, TypeOK, Call, CallInv, Holds, RecordEvent
<1>2. call[c] # Idle /\ call[c].step = "event"
  BY DEF RecordEvent, Idle
<1>3. PICK op \in {"create", "patch", "delete", "restore"} : op = call[c].op
  BY <1>2, Active DEF Call, Holds, Idle
<1>4. /\ told' = IF Tells(op) THEN [told EXCEPT ![r] = op] ELSE told
      /\ call' = [call EXCEPT ![c] = Idle]
      /\ UNCHANGED <<row, listed, begun, past, cut>>
  BY <1>1, <1>3 DEF RecordEvent
<1>5. told \in [Ids -> {"none", "create", "delete", "restore"}]
  BY DEF RecordsInv, TypeOK
<1>6. /\ told' \in [Ids -> {"none", "create", "delete", "restore"}]
      /\ \A q \in Ids : told[q] # "none" => told'[q] # "none"
      /\ Tells(op) => told'[r] = op
      /\ \A q \in Ids : q # r \/ ~Tells(op) => told'[q] = told[q]
  BY <1>3, <1>4, <1>5 DEF Tells
<1>7. \A q \in Ids : Accounted(q, call[c]) => told'[q] # "none"
  BY <1>1, <1>2, <1>3, <1>6, Active DEF Accounted, Holds, Tells
<1>8. past # None => Alone(c) /\ ToldOf(Idle)'
  <2> SUFFICES ASSUME past # None PROVE Alone(c) /\ ToldOf(Idle)'
    OBVIOUS
  <2>1. Alone(c) /\ ToldOf(call[c])
    BY <1>2, Active
  <2>2. ASSUME NEW q \in Ids \ cut PROVE told'[q] = "delete" <=> row[q].life = "deleted"
    <3>1. CASE q = r /\ Tells(op)
      BY <1>1, <1>2, <1>3, <1>6, <2>1, <3>1 DEF ToldOf, Telling
    <3>2. CASE ~(q = r /\ Tells(op))
      BY <1>1, <1>3, <1>6, <2>1, <3>2 DEF ToldOf, Telling
    <3> QED BY <3>1, <3>2
  <2> QED BY <1>4, <2>1, <2>2 DEF ToldOf, Telling, Idle
<1>9. Holds(Idle) /\ Fresh(Idle) /\ Idle.id = None /\ Idle \in Call /\ Idle.done = {}
  BY BlankTypes DEF Holds, Fresh, Idle
<1>10. /\ begun' \in 0..MaxCalls /\ past' = past /\ row' = row
       /\ listed' \subseteq {q \in Ids : Used(q)} /\ listed' = listed
       /\ cut' = cut /\ cut' \subseteq Ids
  BY <1>4 DEF RecordsInv, TypeOK, Used
<1>11. \A q \in Ids : Accounted(q, call[c]) =>
         Accounted(q, Idle) \/ told'[q] # "none" \/ q \in listed' \cup cut'
  BY <1>7
<1>12. call' = [call EXCEPT ![c] = Idle]
  BY <1>4
<1> QED BY <1>6, <1>8, <1>9, <1>10, <1>11, <1>12, QuietKeeps

\* A step that ends the request, or stays in an ingest, and records nothing.
LEMMA SilentKeeps ==
  ASSUME RecordsInv, NEW c \in Calls, NEW k \in Call, call' = [call EXCEPT ![c] = k],
         call[c] # Idle, UNCHANGED <<row, told, begun, past>>,
         Holds(k), k.id # None => Used(k.id), \A r \in k.done : Used(r),
         k.step # "event", past # None => Fresh(k),
         listed \subseteq listed', listed' \subseteq {r \in Ids : Used(r)},
         cut \subseteq cut', cut' \subseteq Ids,
         \A r \in Ids : Accounted(r, call[c]) => Accounted(r, k) \/ r \in listed' \cup cut',
         Telling(call[c]) => call[c].id \in cut'
  PROVE  RecordsInv'
<1>1. begun' \in 0..MaxCalls /\ told' \in [Ids -> {"none", "create", "delete", "restore"}]
  BY DEF RecordsInv, TypeOK
<1>2. past' # None => Alone(c) /\ ToldOf(call[c])
  BY Active
<1>3. past' # None => ToldOf(k)'
  BY <1>2 DEF ToldOf, Telling
<1>4. past' \in {past, None} /\ \A r \in Ids : told[r] # "none" => told'[r] # "none"
  OBVIOUS
<1>5. \A r \in Ids : Accounted(r, call[c]) =>
        Accounted(r, k) \/ told'[r] # "none" \/ r \in listed' \cup cut'
  OBVIOUS
<1>6. row' = row /\ past' = past
  OBVIOUS
<1> QED BY <1>1, <1>2, <1>3, <1>4, <1>5, <1>6, QuietKeeps

LEMMA IngestLookupKeeps ==
  ASSUME RecordsInv, NEW c \in Calls, NEW b \in Columns, IngestLookup(c, b)
  PROVE  RecordsInv'
<1>1. PICK id \in Ids \cup {None}, old \in Columns :
        /\ call' = [call EXCEPT ![c].step = "write", ![c].id = id, ![c].body = b,
                                ![c].old = old]
        /\ IF id = None THEN old = Blank /\ Found(b) = {}
           ELSE id \in Found(b) /\ old = row[id].col
  <2>1. CASE \E r \in Found(b) : Looked(c, r, b, row[r].col)
    <3>1. PICK r \in Found(b) : Looked(c, r, b, row[r].col)
      BY <2>1
    <3>2. r \in Ids /\ r # None /\ row[r].col \in Columns
      BY RecordsAssumption DEF Found, RecordsInv, TypeOK, Row
    <3> QED BY <3>1, <3>2 DEF Looked
  <2>2. CASE Found(b) = {} /\ Looked(c, None, b, Blank)
    BY <2>2, BlankTypes DEF Looked
  <2> QED BY <2>1, <2>2 DEF IngestLookup
<1> DEFINE k == [call[c] EXCEPT !.step = "write", !.id = id, !.body = b, !.old = old]
<1>2. call[c].op = "ingest" /\ call[c].step = "row" /\ call[c] # Idle
  BY DEF IngestLookup, At, Idle
<1>3. call[c] \in Call /\ Holds(call[c]) /\ \A r \in call[c].done : Used(r)
  BY <1>2, Active
<1>4. /\ k \in Call /\ k.op = "ingest" /\ k.step = "write" /\ k.id = id /\ k.body = b
      /\ k.old = old /\ k.done = call[c].done
  BY <1>2, <1>3 DEF Call
<1>5. call' = [call EXCEPT ![c] = k]
  BY <1>1 DEF RecordsInv, TypeOK
<1> HIDE DEF k
<1>6. Holds(k) /\ (k.id # None => Used(k.id)) /\ \A r \in k.done : Used(r)
  BY <1>1, <1>3, <1>4 DEF Holds, Found
<1>7. Fresh(k)
  BY <1>1, <1>4 DEF Fresh
<1>8. UNCHANGED <<row, told, begun, past, listed, cut>>
  BY DEF IngestLookup
<1>9. \A r \in Ids : Accounted(r, call[c]) => Accounted(r, k)
  BY <1>2, <1>4 DEF Accounted
<1>10. listed' \subseteq {r \in Ids : Used(r)} /\ cut' \subseteq Ids
  BY <1>8 DEF RecordsInv, TypeOK, Used
<1>11. ~Telling(call[c])
  BY <1>2 DEF Telling
<1> QED BY <1>2, <1>4, <1>5, <1>6, <1>7, <1>8, <1>9, <1>10, <1>11, SilentKeeps

\* Back to the next row of the payload, with the rows done so far.
LEMMA NextRow ==
  ASSUME NEW done \in SUBSET Ids
  PROVE  LET k == [Idle EXCEPT !.op = "ingest", !.step = "row", !.done = done] IN
         /\ k \in Call /\ Holds(k) /\ Fresh(k)
         /\ k.id = None /\ k.step = "row" /\ k.op = "ingest" /\ k.done = done
BY BlankTypes DEF Idle, Call, Holds, Fresh

LEMMA IngestErrorKeeps ==
  ASSUME RecordsInv, NEW c \in Calls, IngestError(c)
  PROVE  RecordsInv'
<1>1. call[c].op = "ingest" /\ call[c].step = "write" /\ call[c] # Idle
  BY DEF IngestError, At, Idle
<1>2. PICK done \in SUBSET Ids : done = call[c].done
  BY <1>1, Active DEF Call
<1> DEFINE k == [Idle EXCEPT !.op = "ingest", !.step = "row", !.done = done]
<1>3. /\ k \in Call /\ Holds(k) /\ Fresh(k)
      /\ k.id = None /\ k.step = "row" /\ k.done = done /\ \A r \in done : Used(r)
  BY <1>1, <1>2, NextRow, Active
<1>4. call' = [call EXCEPT ![c] = k] /\ UNCHANGED <<row, told, begun, past, listed, cut>>
  BY <1>2 DEF IngestError
<1> HIDE DEF k
<1>5. \A r \in Ids : Accounted(r, call[c]) => Accounted(r, k)
  BY <1>1, <1>2, <1>3 DEF Accounted
<1>6. listed' \subseteq {r \in Ids : Used(r)} /\ cut' \subseteq Ids /\ ~Telling(call[c])
  BY <1>1, <1>4 DEF RecordsInv, TypeOK, Used, Telling
<1> QED BY <1>1, <1>3, <1>4, <1>5, <1>6, SilentKeeps

LEMMA IdleHolds ==
  /\ Idle \in Call /\ Holds(Idle) /\ Fresh(Idle)
  /\ Idle.id = None /\ Idle.step = "idle" /\ Idle.done = {}
BY BlankTypes DEF Idle, Holds, Fresh

LEMMA IngestEndKeeps ==
  ASSUME RecordsInv, NEW c \in Calls, IngestEnd(c)
  PROVE  RecordsInv'
<1>1. call[c].op = "ingest" /\ call[c].step = "row" /\ call[c] # Idle
  BY DEF IngestEnd, At, Idle
<1>2. PICK done \in SUBSET Ids : done = call[c].done /\ \A r \in done : Used(r)
  BY <1>1, Active DEF Call
<1>3. /\ call' = [call EXCEPT ![c] = Idle] /\ UNCHANGED <<row, told, begun, past, cut>>
      /\ listed' = listed \cup done
  BY <1>2 DEF IngestEnd
<1>4. \A r \in Ids : Accounted(r, call[c]) => r \in listed'
  BY <1>1, <1>2, <1>3 DEF Accounted
<1>5. listed' \subseteq {r \in Ids : Used(r)} /\ cut' \subseteq Ids /\ ~Telling(call[c])
  BY <1>1, <1>2, <1>3 DEF RecordsInv, TypeOK, Used, Telling
<1> QED BY <1>1, <1>3, <1>4, <1>5, IdleHolds, SilentKeeps

LEMMA DiesKeeps ==
  ASSUME RecordsInv, NEW c \in Calls, Dies(c)
  PROVE  RecordsInv'
<1>1. call[c] # Idle
  BY DEF Dies
<1>2. PICK k \in Call : k = call[c]
  BY <1>1, Active
<1>3. Holds(k) /\ (k.id # None => k.id \in Ids)
  BY <1>1, <1>2, Active
<1>4. /\ call' = [call EXCEPT ![c] = Idle] /\ UNCHANGED <<row, told, begun, past, listed>>
      /\ cut' = cut \cup k.done \cup IF k.step = "event" THEN {k.id} ELSE {}
  BY <1>2 DEF Dies
<1>5. k.done \subseteq Ids /\ (k.step = "event" => k.id \in Ids)
  BY <1>3 DEF Call, Holds
<1>6. \A r \in Ids : Accounted(r, call[c]) => r \in cut'
  BY <1>2, <1>4 DEF Accounted
<1>7. cut \subseteq cut' /\ cut' \subseteq Ids /\ (Telling(call[c]) => call[c].id \in cut')
  BY <1>2, <1>4, <1>5 DEF RecordsInv, TypeOK, Telling
<1>8. listed' \subseteq {r \in Ids : Used(r)}
  BY <1>4 DEF RecordsInv, TypeOK, Used
<1> QED BY <1>1, <1>4, <1>6, <1>7, <1>8, IdleHolds, SilentKeeps

-----------------------------------------------------------------------------
(* Steps that write a row.                                                 *)

LEMMA WriteKeeps ==
  ASSUME RecordsInv, NEW c \in Calls, NEW k \in Call, call' = [call EXCEPT ![c] = k],
         NEW r \in Ids, NEW new \in Row, row' = [row EXCEPT ![r] = new],
         new.life # "unused", UNCHANGED <<told, listed, begun, cut>>,
         call[c].step = "write", k.step # "write", Holds(k),
         k.id # None => k.id = r,
         k.done \subseteq call[c].done \cup {r}, call[c].done \subseteq k.done,
         FreeExt(r, new.col.ext) \/ (Used(r) /\ new.col = row[r].col),
         ~Used(r) => Accounted(r, k),
         Asked', past' \in Past \cup {None}, past = None => past' = None,
         Telling(k) => (k.op = "delete" <=> new.life = "deleted"),
         Telling(k) \/ (new.life = "deleted" <=> row[r].life = "deleted")
  PROVE  RecordsInv'
<1>1. row' \in [Ids -> Row] /\ row'[r] = new /\ \A q \in Ids \ {r} : row'[q] = row[q]
  BY DEF RecordsInv, TypeOK
<1>2. Used(r)' /\ \A q \in Ids : Used(q) => Used(q)'
  BY <1>1 DEF Used
<1>3. call[c] # Idle
  BY DEF Idle
<1>4. TypeOK' /\ call'[c] = k /\ \A o \in Calls \ {c} : call'[o] = call[o]
  <2>1. /\ told' \in [Ids -> {"none", "create", "delete", "restore"}]
        /\ listed' \subseteq {q \in Ids : Used(q)'}
        /\ begun' \in 0..MaxCalls /\ cut' \subseteq Ids
    BY <1>2 DEF RecordsInv, TypeOK, Used
  <2>2. k.id # None => Used(k.id)'
    BY <1>2
  <2>3. TypeOK
    BY DEF RecordsInv
  <2> QED BY <1>1, <1>2, <2>1, <2>2, <2>3, TypeKept
<1>5. CallInv'
  <2>1. \A o \in Calls : \A q \in call[o].done : Used(q) /\ q \in Ids
    BY DEF RecordsInv, TypeOK, CallInv, Call
  <2>2. \A o \in Calls : \A q \in call[o].done : Used(q) => Used(q)'
    BY <1>2, <2>1
  <2>3. \A q \in k.done : Used(q)'
    BY <1>2, <2>1
  <2> QED BY <1>4, <2>2, <2>3, HoldsKept DEF RecordsInv
<1>6. ExternalIdsUnique'
  BY ExtKept DEF RecordsInv
<1>7. EveryRowAccounted'
  <2>1. \A q \in Ids : (Used(q)' /\ ~Used(q)) \/ Accounted(q, call[c]) => Accounted(q, call'[c])
    BY <1>1, <1>4 DEF Accounted, Used
  <2> QED BY <1>4, <2>1, AccountKept DEF RecordsInv
<1>8. past' # None => Alone(c) /\ Fresh(call[c])' /\ ToldOf(call[c])'
  <2> SUFFICES ASSUME past' # None
               PROVE  Alone(c) /\ Fresh(call[c])' /\ ToldOf(call[c])'
    OBVIOUS
  <2>1. Alone(c) /\ ToldOf(call[c])
    BY <1>3, Active
  <2>2. Fresh(call[c])'
    BY <1>4 DEF Fresh
  <2>3. Telling(k) => (k.op = "delete" <=> row'[k.id].life = "deleted") /\ k.id = r
    BY <1>1 DEF Telling, Holds
  <2>4. ASSUME NEW q \in Ids \ cut
        PROVE  \/ told[q] = "delete" <=> row'[q].life = "deleted"
               \/ Telling(k) /\ k.id = q
    <3>1. told[q] = "delete" <=> row[q].life = "deleted"
      BY <2>1 DEF ToldOf, Telling
    <3>2. CASE q = r
      BY <1>1, <2>3, <3>1, <3>2
    <3>3. CASE q # r
      BY <1>1, <3>1, <3>3
    <3> QED BY <3>2, <3>3
  <2> QED BY <1>4, <2>1, <2>2, <2>3, <2>4 DEF ToldOf, Telling
<1>9. OneCall' /\ FreshInv' /\ ToldInv'
  BY <1>4, <1>8, SerialKept
<1> QED BY <1>4, <1>5, <1>6, <1>7, <1>9 DEF RecordsInv, Asked

LEMMA CreateWriteKeeps ==
  ASSUME RecordsInv, NEW c \in Calls, NEW r \in Ids, CreateWrite(c, r)
  PROVE  RecordsInv'
<1>1. call[c].op = "create" /\ call[c].step = "write" /\ call[c] # Idle
  BY DEF CreateWrite, At, Idle
<1>2. call[c] \in Call /\ Holds(call[c])
  BY <1>1, Active
<1>3. PICK b \in Columns : b = call[c].body
  BY <1>2 DEF Call
<1> DEFINE new == [life |-> "live", col |-> b]
<1> DEFINE k == [call[c] EXCEPT !.step = "event", !.id = r]
<1>4. /\ ~Used(r) /\ FreeExt(r, b.ext) /\ row' = [row EXCEPT ![r] = new]
      /\ Asks(r, b, TRUE) /\ UNCHANGED <<told, listed, begun, cut>>
  BY <1>3 DEF CreateWrite
<1>5. call' = [call EXCEPT ![c] = k]
  BY DEF CreateWrite, RecordsInv, TypeOK
<1>6. /\ k \in Call /\ k.step = "event" /\ k.op = "create" /\ k.id = r /\ k.done = call[c].done
      /\ Holds(k)
  BY <1>1, <1>2, RecordsAssumption DEF Call, Holds
<1>7. new \in Row /\ new.life = "live" /\ new.col = b
  BY DEF Row
<1> HIDE DEF new, k
<1>8. new.col = Over(b, IF Used(r) THEN row[r].col ELSE Blank)
  BY <1>4, <1>7, OverColumns, BlankTypes
<1>9. Asked' /\ past' \in Past \cup {None}
  BY <1>4, <1>7, <1>8, ColumnsWritten DEF RecordsInv, Asked
<1>10. past = None => past' = None
  BY <1>4 DEF Asks
<1>11. Accounted(r, k) /\ Telling(k)
  BY <1>6 DEF Accounted, Telling, Tells
<1> QED BY <1>1, <1>4, <1>5, <1>6, <1>7, <1>9, <1>10, <1>11, WriteKeeps

LEMMA PatchWriteKeeps ==
  ASSUME RecordsInv, NEW c \in Calls, PatchWrite(c)
  PROVE  RecordsInv'
<1>1. call[c].op = "patch" /\ call[c].step = "write" /\ call[c] # Idle
  BY DEF PatchWrite, At, Idle
<1>2. call[c] \in Call /\ Holds(call[c])
  BY <1>1, Active
<1>3. PICK r \in Ids, b \in Columns, old \in Columns :
        r = call[c].id /\ b = call[c].body /\ old = call[c].old /\ Used(r)
  BY <1>1, <1>2, Active DEF Call, Holds
<1> DEFINE new == [row[r] EXCEPT !.col = Over(b, old)]
<1> DEFINE k == [call[c] EXCEPT !.step = "event"]
<1>4. /\ FreeExt(r, Over(b, old).ext) /\ Asks(r, b, b.key # None)
      /\ UNCHANGED <<told, listed, begun, cut>>
  BY <1>3 DEF PatchWrite, Patched
<1>5. row' = [row EXCEPT ![r] = new] /\ call' = [call EXCEPT ![c] = k]
  BY <1>3 DEF PatchWrite, Patched, Goto, RecordsInv, TypeOK
<1>6. k \in Call /\ k.step = "event" /\ k.op = "patch" /\ k.id = r /\ k.done = call[c].done
  BY <1>1, <1>2, <1>3 DEF Call
<1>7. Holds(k) /\ ~Telling(k)
  BY <1>2, <1>6, <1>1, <1>3 DEF Holds, Telling, Tells
<1>8. new \in Row /\ new.life = row[r].life /\ new.col = Over(b, old)
  BY <1>3, OverColumns DEF Row, RecordsInv, TypeOK
<1> HIDE DEF new, k
<1>9. past # None => old = row[r].col
  BY <1>1, <1>3, Active DEF Fresh
<1>10. past # None =>
         /\ new.col = Over(b, IF Used(r) THEN row[r].col ELSE Blank)
         /\ ~(b.key # None) /\ r \notin past.spread /\ new.col.key # None =>
              \A o \in Ids \ {r} :
                Used(o) /\ o \notin past.spread => row[o].col.key # new.col.key
  BY <1>3, <1>8, <1>9, OverColumns DEF RecordsInv, SerialIngestDedupes
<1>11. Asked' /\ past' \in Past \cup {None}
  <2>1. new.life # "unused" /\ (b.key # None) \in BOOLEAN
    BY <1>3, <1>8 DEF Used
  <2> QED BY <1>4, <1>5, <1>8, <1>10, <2>1, ColumnsWritten DEF RecordsInv, Asked
<1>12. past = None => past' = None
  BY <1>4 DEF Asks
<1>13. new.life # "unused" /\ FreeExt(r, new.col.ext)
  BY <1>3, <1>4, <1>8 DEF Used
<1> QED BY <1>1, <1>3, <1>4, <1>5, <1>6, <1>7, <1>8, <1>11, <1>12, <1>13, WriteKeeps

\* A deletion or a restore marks the row and leaves its columns alone.
LEMMA MarkWriteKeeps ==
  ASSUME RecordsInv, NEW c \in Calls, DeleteWrite(c) \/ RestoreWrite(c)
  PROVE  RecordsInv'
<1>1. PICK op \in {"delete", "restore"} :
        /\ call[c].op = op /\ call[c].step = "write" /\ call[c] # Idle
        /\ row' = [row EXCEPT ![call[c].id].life = IF op = "delete" THEN "deleted" ELSE "live"]
  BY DEF DeleteWrite, Deleted, RestoreWrite, At, Idle, RecordsInv, TypeOK
<1>2. call[c] \in Call /\ Holds(call[c])
  BY <1>1, Active
<1>3. PICK r \in Ids : r = call[c].id /\ Used(r)
  BY <1>1, <1>2, Active DEF Holds
<1> DEFINE new == [row[r] EXCEPT !.life = IF op = "delete" THEN "deleted" ELSE "live"]
<1> DEFINE k == [call[c] EXCEPT !.step = "event"]
<1>4. UNCHANGED <<told, listed, begun, past, cut>>
  BY DEF DeleteWrite, RestoreWrite
<1>5. row' = [row EXCEPT ![r] = new] /\ call' = [call EXCEPT ![c] = k]
  BY <1>1, <1>3 DEF DeleteWrite, RestoreWrite, Goto, RecordsInv, TypeOK
<1>6. k \in Call /\ k.step = "event" /\ k.op = op /\ k.id = r /\ k.done = call[c].done
  BY <1>1, <1>2, <1>3 DEF Call
<1>7. Holds(k) /\ Telling(k)
  BY <1>2, <1>6, <1>1, <1>3 DEF Holds, Telling, Tells
<1>8. /\ new \in Row /\ new.col = row[r].col
      /\ new.life = IF op = "delete" THEN "deleted" ELSE "live"
  BY DEF Row, RecordsInv, TypeOK
<1> HIDE DEF new, k
<1>9. \A q \in Ids : (Used(q)' <=> Used(q)) /\ row'[q].col = row[q].col
  BY <1>3, <1>5, <1>8 DEF Used, RecordsInv, TypeOK
<1>10. Asked' /\ past' \in Past \cup {None}
  BY <1>4, <1>9, ColumnsKept DEF RecordsInv, Asked, TypeOK
<1>11. new.life # "unused" /\ (k.op = "delete" <=> new.life = "deleted")
  BY <1>1, <1>6, <1>8
<1> QED BY <1>1, <1>3, <1>4, <1>5, <1>6, <1>7, <1>8, <1>10, <1>11, WriteKeeps

LEMMA IngestWriteKeeps ==
  ASSUME RecordsInv, NEW c \in Calls, NEW r \in Ids, IngestWrite(c, r)
  PROVE  RecordsInv'
<1>1. call[c].op = "ingest" /\ call[c].step = "write" /\ call[c] # Idle
  BY DEF IngestWrite, At, Idle
<1>2. call[c] \in Call /\ Holds(call[c])
  BY <1>1, Active
<1>3. PICK b \in Columns, old \in Columns, id \in Ids \cup {None}, done \in SUBSET Ids :
        b = call[c].body /\ old = call[c].old /\ id = call[c].id /\ done = call[c].done
  BY <1>2 DEF Call
<1> DEFINE new == [life |-> IF id = None THEN "live" ELSE row[r].life, col |-> Over(b, old)]
<1> DEFINE next == done \cup {r}
<1> DEFINE k == [Idle EXCEPT !.op = "ingest", !.step = "row", !.done = next]
<1>4. /\ IF id = None THEN ~Used(r) ELSE r = id
      /\ FreeExt(r, Over(b, old).ext) /\ row' = [row EXCEPT ![r] = new]
      /\ Asks(r, b, b.ext # None /\ b.key # None) /\ UNCHANGED <<told, listed, begun, cut>>
      /\ call' = [call EXCEPT ![c] = k]
  BY <1>3 DEF IngestWrite, Merged, Upserted, Noted
<1>5. id # None => Used(r)
  BY <1>1, <1>3, <1>4, Active
<1>6. /\ k \in Call /\ Holds(k) /\ k.id = None /\ k.step = "row" /\ k.op = "ingest"
      /\ k.done = next
  BY NextRow
<1>7. /\ new \in Row /\ new.life # "unused" /\ new.col = Over(b, old)
      /\ new.life = "deleted" <=> row[r].life = "deleted"
  BY <1>4, <1>5, OverColumns DEF Row, RecordsInv, TypeOK, Used
<1> HIDE DEF new, k
<1>8. past # None => IF id = None THEN old = Blank /\ Found(b) = {}
                     ELSE r \in Found(b) /\ old = row[r].col
  BY <1>1, <1>3, <1>4, Active DEF Fresh
<1>9. ASSUME past # None
      PROVE  new.col = Over(b, IF Used(r) THEN row[r].col ELSE Blank)
  BY <1>4, <1>5, <1>7, <1>8, <1>9
<1>10. ASSUME past # None, ~(b.ext # None /\ b.key # None), r \notin past.spread,
              new.col.key # None,
              NEW o \in Ids \ {r}, Used(o), o \notin past.spread
       PROVE  row[o].col.key # new.col.key
  <2>1. CASE b.key = None
    <3>1. new.col.key = old.key
      BY <1>7, <2>1, OverColumns
    <3>2. id # None /\ old = row[r].col /\ Used(r)
      BY <1>5, <1>8, <1>10, <3>1, BlankTypes
    <3> QED BY <1>10, <3>1, <3>2 DEF RecordsInv, SerialIngestDedupes
  <2>2. CASE b.key # None /\ b.ext = None
    <3>1. new.col.key = b.key
      BY <1>7, <2>2, OverColumns
    <3>2. CASE id = None
      BY <1>8, <1>10, <2>2, <3>1, <3>2 DEF Found
    <3>3. CASE id # None
      <4>1. row[r].col.key = b.key /\ Used(r)
        BY <1>8, <1>10, <2>2, <3>3 DEF Found
      <4> QED BY <1>10, <3>1, <4>1 DEF RecordsInv, SerialIngestDedupes
    <3> QED BY <3>2, <3>3
  <2> QED BY <1>10, <2>1, <2>2
<1>11. Asked' /\ past' \in Past \cup {None}
  <2>1. (b.ext # None /\ b.key # None) \in BOOLEAN
    OBVIOUS
  <2> QED BY <1>4, <1>7, <1>9, <1>10, <2>1, ColumnsWritten DEF RecordsInv, Asked
<1>12. past = None => past' = None
  BY <1>4 DEF Asks
<1>13. Accounted(r, k) /\ ~Telling(k) /\ k.done \subseteq call[c].done \cup {r}
       /\ call[c].done \subseteq k.done /\ FreeExt(r, new.col.ext)
  BY <1>3, <1>4, <1>6, <1>7 DEF Accounted, Telling
<1> QED BY <1>1, <1>4, <1>6, <1>7, <1>11, <1>12, <1>13, WriteKeeps

-----------------------------------------------------------------------------
(* The theorems.                                                           *)

LEMMA InitKeeps == Init => RecordsInv
<1> SUFFICES ASSUME Init PROVE RecordsInv
  OBVIOUS
<1>1. past = [asked |-> [r \in Ids |-> Blank], spread |-> {}] /\ past \in Past
  BY BlankTypes DEF Init, Past
<1>2. TypeOK
  <2>1. 0 \in 0..MaxCalls
    BY RecordsAssumption
  <2>2. \A c \in Calls : call[c].id = None
    BY DEF Init, Idle
  <2> QED BY <1>1, <2>1, <2>2, BlankTypes DEF Init, TypeOK
<1>3. \A c \in Calls : call[c] = Idle
  BY DEF Init
<1>4. CallInv
  BY <1>3, IdleHolds DEF CallInv
<1>5. \A r \in Ids : ~Used(r) /\ row[r].life = "unused" /\ told[r] = "none" /\ past.asked[r] = Blank
  <2>1. Unused.life = "unused"
    BY DEF Unused
  <2>2. \A r \in Ids : row[r] = Unused /\ told[r] = "none"
    BY DEF Init
  <2>3. \A r \in Ids : past.asked[r] = Blank
    BY <1>1
  <2> QED BY <2>1, <2>2, <2>3 DEF Used
<1>6. ExternalIdsUnique /\ EveryRowAccounted /\ SerialWritesStick /\ SerialIngestDedupes /\ NothingAsked
  BY <1>5 DEF ExternalIdsUnique, EveryRowAccounted, SerialWritesStick, SerialIngestDedupes, NothingAsked
<1>7. OneCall /\ FreshInv
  BY <1>3, IdleHolds DEF OneCall, FreshInv
<1>8. ToldInv
  BY <1>3, <1>5 DEF ToldInv, Telling, Idle
<1> QED BY <1>2, <1>4, <1>6, <1>7, <1>8 DEF RecordsInv

\* The inductive invariant: every step of every request keeps it.
THEOREM Invariance == Spec => []RecordsInv
<1>1. RecordsInv /\ [Next]_vars => RecordsInv'
  <2> SUFFICES ASSUME RecordsInv, [Next]_vars PROVE RecordsInv'
    OBVIOUS
  <2>1. CASE UNCHANGED vars
    <3>1. TypeOK' /\ CallInv' /\ ExternalIdsUnique' /\ EveryRowAccounted'
      BY <2>1 DEF RecordsInv, vars, TypeOK, CallInv, ExternalIdsUnique, EveryRowAccounted, Used, At
    <3>2. OneCall' /\ NothingAsked' /\ SerialWritesStick' /\ SerialIngestDedupes'
      BY <2>1 DEF RecordsInv, vars, OneCall, NothingAsked, SerialWritesStick, SerialIngestDedupes, Used
    <3>3. FreshInv' /\ ToldInv'
      BY <2>1 DEF RecordsInv, vars, FreshInv, Fresh, Found, Used, ToldInv
    <3> QED BY <3>1, <3>2, <3>3 DEF RecordsInv
  <2>2. ASSUME NEW c \in Calls, Rest(c) PROVE RecordsInv'
    BY <2>2, CreateCheckKeeps, CreateWriteKeeps, PatchReadKeeps, PatchWriteKeeps, MarkReadKeeps,
       MarkWriteKeeps, RecordEventKeeps DEF Rest
  <2>3. ASSUME NEW c \in Calls, Ingest(c) PROVE RecordsInv'
    BY <2>3, IngestStartKeeps, IngestLookupKeeps, IngestWriteKeeps, IngestErrorKeeps,
       IngestEndKeeps DEF Ingest
  <2>4. ASSUME NEW c \in Calls, Dies(c) PROVE RecordsInv'
    BY <2>4, DiesKeeps
  <2> QED BY <2>1, <2>2, <2>3, <2>4 DEF Next
<1> QED BY <1>1, InitKeeps, PTL DEF Spec

\* The table, the requests and the histories have their types; a request names a
\* row that exists.
THEOREM RecordTypes == Spec => []TypeOK
<1>1. RecordsInv => TypeOK
  BY DEF RecordsInv
<1> QED BY <1>1, Invariance, PTL

\* One row per external_id, for any overlap of REST and ingest writers.
THEOREM RecordExternalIds == Spec => []ExternalIdsUnique
<1>1. RecordsInv => ExternalIdsUnique
  BY DEF RecordsInv
<1> QED BY <1>1, Invariance, PTL

\* Requests that do not overlap lose no update.
THEOREM RecordWrites == Spec => []SerialWritesStick
<1>1. RecordsInv => SerialWritesStick
  BY DEF RecordsInv
<1> QED BY <1>1, Invariance, PTL

\* Imports that do not overlap make one row per email or domain.
THEOREM RecordImports == Spec => []SerialIngestDedupes
<1>1. RecordsInv => SerialIngestDedupes
  BY DEF RecordsInv
<1> QED BY <1>1, Invariance, PTL

\* The last event of a row's life agrees with the row when requests have not overlapped.
THEOREM RecordLife == Spec => []TimelineTellsLife
<1>1. RecordsInv => TimelineTellsLife
  <2> SUFFICES ASSUME ToldInv, past # None, \A c \in Calls : call[c] = Idle,
                      NEW r \in Ids \ cut
               PROVE  told[r] = "delete" <=> row[r].life = "deleted"
    BY DEF RecordsInv, TimelineTellsLife
  <2>1. \A c \in Calls : ~Telling(call[c])
    BY DEF Telling, Idle
  <2> QED BY <2>1 DEF ToldInv
<1> QED BY <1>1, Invariance, PTL

\* Every row is accounted for in the timeline or by an ingest run.
THEOREM RecordAccounts == Spec => []EveryRowAccounted
<1>1. RecordsInv => EveryRowAccounted
  BY DEF RecordsInv
<1> QED BY <1>1, Invariance, PTL

LEMMA NoRevival ==
  ASSUME RecordsInv, [Next]_vars, NEW r \in Ids, row[r].life = "deleted",
         \A c \in Calls : At(c, "restore", "write") => call[c].id # r
  PROVE  row'[r].life = "deleted"
<1>1. row \in [Ids -> Row]
  BY DEF RecordsInv, TypeOK
<1>2. ASSUME NEW c \in Calls, Rest(c) PROVE row'[r].life = "deleted"
  <2>1. CASE \E q \in Ids : CreateWrite(c, q)
    BY <1>1, <2>1 DEF CreateWrite, Used
  <2>2. CASE PatchWrite(c)
    BY <1>1, <2>2 DEF PatchWrite, Row
  <2>3. CASE DeleteWrite(c)
    BY <1>1, <2>3 DEF DeleteWrite, Deleted, Row
  <2>4. CASE RestoreWrite(c)
    BY <1>1, <2>4 DEF RestoreWrite, Row
  <2>5. CASE \/ \E b \in Columns : CreateCheck(c, b)
             \/ \E q \in Ids : DeleteRead(c, q) \/ RestoreRead(c, q)
             \/ \E q \in Ids, b \in Columns : PatchRead(c, q, b)
             \/ RecordEvent(c)
    BY <2>5 DEF CreateCheck, DeleteRead, RestoreRead, PatchRead, RecordEvent
  <2> QED BY <1>2, <2>1, <2>2, <2>3, <2>4, <2>5 DEF Rest
<1>3. ASSUME NEW c \in Calls, Ingest(c) PROVE row'[r].life = "deleted"
  <2>1. CASE \E q \in Ids : IngestWrite(c, q)
    BY <1>1, <2>1 DEF IngestWrite, Upserted, Used
  <2>2. CASE ~ \E q \in Ids : IngestWrite(c, q)
    BY <1>3, <2>2 DEF Ingest, IngestStart, IngestError, IngestEnd, IngestLookup
  <2> QED BY <2>1, <2>2
<1>4. ASSUME NEW c \in Calls, Dies(c) PROVE row'[r].life = "deleted"
  BY <1>4 DEF Dies
<1>5. CASE UNCHANGED vars
  BY <1>5 DEF vars
<1> QED BY <1>2, <1>3, <1>4, <1>5 DEF Next

\* Nothing but a restore brings a deleted row back.
THEOREM RecordDeletes == Spec => OnlyRestoreRevives
<1>1. RecordsInv /\ [Next]_vars =>
        [\A r \in Ids :
           /\ row[r].life = "deleted"
           /\ \A c \in Calls : At(c, "restore", "write") => call[c].id # r
           => row'[r].life = "deleted"]_vars
  BY NoRevival
<1> QED BY <1>1, Invariance, PTL DEF Spec, OnlyRestoreRevives
=============================================================================
