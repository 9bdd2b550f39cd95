------------------------ MODULE WebhookFanoutProofs ------------------------
(***************************************************************************)
(* Proofs about WebhookFanout for any hooks, events, types, number of      *)
(* retries and edits, and for both delivery modes.                         *)
(***************************************************************************)
EXTENDS WebhookFanout, TLAPS

(***************************************************************************)
(* The idle job is a well-formed one without a current hook.               *)
(***************************************************************************)
LEMMA IdleIsJob == \A n \in Nat : Idle(n) \in Job /\ Idle(n).cur = None /\ Idle(n).step = "next"
BY DEF Idle, Job, Steps

(***************************************************************************)
(* The three ways a row of the webhooks table changes keep it a row.       *)
(***************************************************************************)
LEMMA RowEdits ==
  ASSUME NEW r \in HookRow, NEW n \in Nat, NEW a \in BOOLEAN, NEW ts \in SUBSET Types
  PROVE  /\ [r EXCEPT !.failures = n] \in HookRow
         /\ [r EXCEPT !.active = a, !.types = ts] \in HookRow
         /\ [r EXCEPT !.status = "deleted"] \in HookRow
BY DEF HookRow

(***************************************************************************)
(* Replacing one attempt by a well-formed one keeps all of them so.        *)
(***************************************************************************)
LEMMA JobStep ==
  ASSUME TypeOK, NEW e \in Events, NEW r \in Job
  PROVE  [job EXCEPT ![e] = r] \in [Events -> Job]
BY DEF TypeOK

(***************************************************************************)
(* GiveUp leaves a well-typed, idle job behind.                            *)
(***************************************************************************)
LEMMA GiveUpType ==
  ASSUME TypeOK, NEW e \in Events, NEW s \in Stages, GiveUp(e, s)
  PROVE  /\ stage' \in [Events -> Stages]
         /\ job' \in [Events -> Job]
         /\ job' = [job EXCEPT ![e] = Idle(job[e].tries)]
<1>1. job[e].tries \in Nat
  BY DEF TypeOK, Job
<1>2. job' \in [Events -> Job]
  BY <1>1, IdleIsJob, JobStep DEF GiveUp, Redelivered
<1> QED BY <1>2 DEF GiveUp, TypeOK, Stages, Redelivered

(***************************************************************************)
(* Post leaves a well-typed attempt that has a current hook.               *)
(***************************************************************************)
LEMMA PostType ==
  ASSUME TypeOK, NEW e \in Events, NEW h \in Hooks, Post(e, h)
  PROVE  /\ job' \in [Events -> Job]
         /\ got' \in [Events -> SUBSET Hooks]
         /\ \E r \in Job : /\ job' = [job EXCEPT ![e] = r]
                           /\ r.step = "log" /\ r.cur = h
                           /\ r.todo = job[e].todo \ {h}
                           /\ r.failed = job[e].failed /\ r.seen = job[e].seen
                           /\ r.ok => h \in got'[e]
<1>1. PICK outcome \in {"ok", "late", "refused"} :
        /\ job' = [job EXCEPT ![e].step = "log", ![e].cur = h,
                              ![e].todo = @ \ {h}, ![e].ok = (outcome = "ok")]
        /\ got' = IF outcome = "refused" THEN got ELSE [got EXCEPT ![e] = @ \cup {h}]
  BY DEF Post, Succeeded
<1> DEFINE b == (outcome = "ok")
           r == [job[e] EXCEPT !.step = "log", !.cur = h, !.todo = @ \ {h}, !.ok = b]
<1>2. r \in Job /\ r.step = "log" /\ r.cur = h /\ r.todo = job[e].todo \ {h} /\ r.ok = b
        /\ r.failed = job[e].failed /\ r.seen = job[e].seen
  <2>1. b \in BOOLEAN /\ job[e] \in Job
    BY DEF TypeOK
  <2> HIDE DEF b
  <2>2. r \in Job
    BY <2>1 DEF Job, Steps
  <2> QED BY <2>1, <2>2 DEF Job
<1>3. job' = [job EXCEPT ![e] = r]
  BY <1>1
<1>4. got' \in [Events -> SUBSET Hooks] /\ (b => h \in got'[e])
  BY <1>1 DEF TypeOK
<1> HIDE DEF r
<1> QED BY <1>2, <1>3, <1>4, JobStep

(***************************************************************************)
(* CountDelivery leaves a well-typed attempt without a current hook.       *)
(***************************************************************************)
LEMMA CountType ==
  ASSUME TypeOK, NEW e \in Events, CountDelivery(e)
  PROVE  /\ job' \in [Events -> Job]
         /\ \E r \in Job : /\ job' = [job EXCEPT ![e] = r]
                           /\ r.step = "next" /\ r.cur = None
                           /\ r.todo = job[e].todo /\ r.seen = job[e].seen
                           /\ r.failed <=> (job[e].failed \/ ~job[e].ok)
<1> DEFINE b == job[e].failed \/ ~job[e].ok
           r == [job[e] EXCEPT !.step = "next", !.cur = None, !.failed = b]
<1>1. r \in Job /\ r.step = "next" /\ r.cur = None /\ r.failed = b
        /\ r.todo = job[e].todo /\ r.seen = job[e].seen
  <2>1. b \in BOOLEAN
    OBVIOUS
  <2> HIDE DEF b
  <2>2. job[e] \in Job
    BY DEF TypeOK
  <2>3. r \in Job
    BY <2>1, <2>2 DEF Job, Steps
  <2>4. r.step = "next" /\ r.cur = None /\ r.failed = b
    BY <2>2 DEF Job
  <2>5. r.todo = job[e].todo /\ r.seen = job[e].seen
    BY <2>2 DEF Job
  <2> QED BY <2>3, <2>4, <2>5
<1>2. job' = [job EXCEPT ![e] = r]
  BY DEF CountDelivery, Counted, NewCount
<1> HIDE DEF r
<1> QED BY <1>1, <1>2, JobStep

(***************************************************************************)
(* Every variable keeps its type in every reachable state, whatever        *)
(* requests, attempts, crashes and webhook edits are interleaved; and an   *)
(* attempt has a current hook exactly while it writes down its delivery.   *)
(***************************************************************************)
THEOREM TypeCorrect == Spec => [](TypeOK /\ CurInv)
<1> USE FanoutAssumption
<1>1. Init => TypeOK /\ CurInv
  <2> SUFFICES ASSUME Init PROVE TypeOK /\ CurInv
    OBVIOUS
  <2>1. NoHook \in HookRow /\ \A t \in Types : NewHook(TRUE, {t}) \in HookRow
    BY DEF NoHook, NewHook, HookRow
  <2>2. hook \in [Hooks -> HookRow]
    <3>1. {NoHook} \cup {NewHook(TRUE, {t}) : t \in Types} \subseteq HookRow
      BY <2>1
    <3> QED BY <3>1 DEF Init
  <2>3. job \in [Events -> Job] /\ CurInv
    BY IdleIsJob DEF Init, CurInv
  <2> QED BY <2>2, <2>3 DEF Init, TypeOK, Stages
<1>2. TypeOK /\ CurInv /\ [Next]_vars => TypeOK' /\ CurInv'
  <2> SUFFICES ASSUME TypeOK, CurInv, [Next]_vars PROVE TypeOK' /\ CurInv'
    OBVIOUS
  <2> USE DEF TypeOK, CurInv, Stages
  <2>1. ASSUME NEW e \in Events, Request(e) PROVE TypeOK' /\ CurInv'
    <3>1. CASE Mutate(e)      BY <3>1 DEF Mutate, rowVars, adminVars
    <3>2. CASE RecordEvent(e)
      BY <3>2 DEF RecordEvent, rowVars, adminVars, Matching, Live
    <3>3. CASE Dispatch(e)    BY <3>3 DEF Dispatch, rowVars, adminVars
    <3>4. CASE RequestDies(e) BY <3>4 DEF RequestDies, rowVars, adminVars
    <3> QED BY <2>1, <3>1, <3>2, <3>3, <3>4 DEF Request
  <2>3. ASSUME NEW e \in Events, Select(e) PROVE TypeOK' /\ CurInv'
    <3> DEFINE r == [Idle(job[e].tries + 1) EXCEPT !.todo = Matching(e),
                       !.seen = [h \in Hooks |-> hook[h].failures]]
    <3>1. r \in Job /\ r.step = "next" /\ r.cur = None
      <4>1. [h \in Hooks |-> hook[h].failures] \in [Hooks -> Nat]
        BY DEF HookRow
      <4>2. Matching(e) \in SUBSET Hooks /\ job[e].tries + 1 \in Nat
        BY DEF Matching, Job
      <4> QED BY <4>1, <4>2 DEF Idle, Job, Steps
    <3> HIDE DEF r
    <3>2. job' = [job EXCEPT ![e] = r]
      BY <2>3 DEF Select, r, Tries
    <3>3. job' \in [Events -> Job]
      BY <3>1, <3>2, JobStep
    <3> QED BY <2>3, <3>1, <3>2, <3>3 DEF Select, rowVars, adminVars, Tries
  <2>4. ASSUME NEW e \in Events, NEW h \in Hooks, Post(e, h) PROVE TypeOK' /\ CurInv'
    <3>1. PICK r \in Job : job' = [job EXCEPT ![e] = r] /\ r.step = "log" /\ r.cur = h
      BY <2>4, PostType
    <3>2. job' \in [Events -> Job] /\ got' \in [Events -> SUBSET Hooks]
      BY <2>4, PostType
    <3>3. UNCHANGED <<rowVars, stage, timeline, adminVars, owed>>
      BY <2>4 DEF Post, Succeeded
    <3> QED BY <3>1, <3>2, <3>3 DEF rowVars, adminVars
  <2>5. ASSUME NEW e \in Events, LogDelivery(e) PROVE TypeOK' /\ CurInv'
    <3>1. job[e].cur \in Hooks /\ job[e] \in Job
      BY <2>5 DEF LogDelivery, Job, FailedRows
    <3>2. CASE Live(job[e].cur)
      <4> DEFINE r == [job[e] EXCEPT !.step = "count"]
      <4>1. r \in Job /\ r.step = "count" /\ r.cur = job[e].cur
        BY <3>1 DEF Job, Steps
      <4> HIDE DEF r
      <4>2. job' = [job EXCEPT ![e] = r]
        BY <2>5, <3>2 DEF LogDelivery, r, FailedRows
      <4> QED BY <2>5, <3>1, <3>2, <4>1, <4>2 DEF LogDelivery, adminVars, FailedRows
    <3>3. CASE ~Live(job[e].cur)
      <4>1. GiveUp(e, "settled")
        BY <2>5, <3>3 DEF LogDelivery, FailedRows
      <4>2. job[e].tries \in Nat
        BY DEF Job
      <4>3. stage' \in [Events -> Stages] /\ job' \in [Events -> Job]
              /\ job' = [job EXCEPT ![e] = Idle(job[e].tries)]
        BY <4>1, GiveUpType
      <4>4. UNCHANGED <<hook, okRows, badRows, timeline, adminVars, got, owed>>
        BY <2>5, <3>3 DEF LogDelivery, FailedRows
      <4> QED BY <4>2, <4>3, <4>4, IdleIsJob DEF adminVars
    <3> QED BY <3>2, <3>3
  <2>6. ASSUME NEW e \in Events, CountDelivery(e) PROVE TypeOK' /\ CurInv'
    <3>1. job[e].seen[job[e].cur] + 1 \in Nat /\ job[e].cur \in Hooks
      BY <2>6 DEF CountDelivery, Job, Counted, NewCount
    <3> DEFINE n == IF job[e].ok THEN 0 ELSE job[e].seen[job[e].cur] + 1
               row == [hook[job[e].cur] EXCEPT !.failures = n]
    <3>2. row \in HookRow
      <4>1. hook[job[e].cur] \in HookRow /\ n \in Nat
        BY <3>1
      <4> QED BY <4>1, RowEdits
    <3>3. hook' = hook \/ hook' = [hook EXCEPT ![job[e].cur] = row]
      BY <2>6 DEF CountDelivery, Counted, NewCount
    <3> HIDE DEF row
    <3>4. hook' \in [Hooks -> HookRow]
      BY <3>1, <3>2, <3>3
    <3>5. PICK r \in Job : job' = [job EXCEPT ![e] = r] /\ r.step = "next" /\ r.cur = None
      BY <2>6, CountType
    <3>6. job' \in [Events -> Job]
      BY <2>6, CountType
    <3>7. UNCHANGED <<okRows, badRows, stage, timeline, adminVars, got, owed>>
      BY <2>6 DEF CountDelivery, Counted, NewCount
    <3> QED BY <3>4, <3>5, <3>6, <3>7 DEF adminVars
  <2>7. ASSUME NEW e \in Events, Finish(e) PROVE TypeOK' /\ CurInv'
    <3>1. Idle(job[e].tries) \in Job /\ job[e].tries \in Nat
      BY IdleIsJob DEF Job
    <3>2. CASE GiveUp(e, "settled")
      BY <2>7, <3>1, <3>2, GiveUpType, IdleIsJob DEF Finish, rowVars, adminVars, Throws
    <3>3. CASE ~job[e].failed
      <4>1. UNCHANGED <<rowVars, timeline, adminVars, got, owed>>
              /\ stage' = [stage EXCEPT ![e] = "settled"]
              /\ job' = [job EXCEPT ![e] = Idle(job[e].tries)]
        BY <2>7, <3>3 DEF Finish, Throws
      <4> QED BY <3>1, <4>1, IdleIsJob DEF rowVars, adminVars
    <3> QED BY <2>7, <3>2, <3>3 DEF Finish, Throws
  <2>8. ASSUME NEW e \in Events, WorkerDies(e) PROVE TypeOK' /\ CurInv'
    <3>1. job[e].tries \in Nat
      BY DEF Job
    <3> QED BY <2>8, <3>1, GiveUpType, IdleIsJob DEF WorkerDies, rowVars, adminVars
  <2>9. ASSUME Admin PROVE TypeOK' /\ CurInv'
    <3>1. ASSUME NEW h \in Hooks, NEW active \in BOOLEAN, NEW types \in SUBSET Types,
                 CreateHook(h, active, types)
          PROVE TypeOK' /\ CurInv'
      BY <3>1 DEF CreateHook, Edit, NewHook, HookRow
    <3>2. ASSUME NEW p \in Patchers, NEW h \in Hooks, NEW active \in BOOLEAN \cup {None},
                 NEW types \in SUBSET Types, PatchRead(p, h, active, types)
          PROVE TypeOK' /\ CurInv'
      BY <3>2 DEF PatchRead, Edit, rowVars, HookRow
    <3>3. ASSUME NEW p \in Patchers, PatchWrite(p) PROVE TypeOK' /\ CurInv'
      <4>1. hook' \in [Hooks -> HookRow] /\ patch' \in
              [Patchers -> [id : Hooks, active : BOOLEAN, types : SUBSET Types] \cup {None}]
        <5> DEFINE b == patch[p]
                   row == [hook[b.id] EXCEPT !.active = b.active, !.types = b.types]
        <5>1. b.id \in Hooks /\ b.active \in BOOLEAN /\ b.types \in SUBSET Types
          BY <3>3 DEF PatchWrite
        <5>2. row \in HookRow
          BY <5>1, RowEdits
        <5>3. hook' = hook \/ hook' = [hook EXCEPT ![b.id] = row]
          BY <3>3 DEF PatchWrite
        <5> HIDE DEF row
        <5>4. hook' \in [Hooks -> HookRow]
          BY <5>1, <5>2, <5>3
        <5> QED BY <3>3, <5>4 DEF PatchWrite
      <4>2. owed' \in [Events -> SUBSET Hooks]
        BY <3>3 DEF PatchWrite, KeepOwed
      <4> QED BY <3>3, <4>1, <4>2 DEF PatchWrite
    <3>4. ASSUME NEW h \in Hooks, DeleteHook(h) PROVE TypeOK' /\ CurInv'
      <4>1. owed' \in [Events -> SUBSET Hooks]
        BY <3>4 DEF DeleteHook, KeepOwed
      <4>2. hook' \in [Hooks -> HookRow]
        <5> DEFINE row == [hook[h] EXCEPT !.status = "deleted"]
        <5>1. row \in HookRow
          BY RowEdits
        <5>2. hook' = [hook EXCEPT ![h] = row]
          BY <3>4 DEF DeleteHook
        <5> HIDE DEF row
        <5> QED BY <5>1, <5>2
      <4> QED BY <3>4, <4>1, <4>2 DEF DeleteHook, Edit
    <3> QED BY <2>9, <3>1, <3>2, <3>3, <3>4 DEF Admin
  <2>10. CASE UNCHANGED vars
    BY <2>10 DEF vars
  <2> QED
    BY <2>1, <2>3, <2>4, <2>5, <2>6, <2>7, <2>8, <2>9, <2>10 DEF Next, Process
<1> QED BY <1>1, <1>2, PTL DEF Spec

(***************************************************************************)
(* A step of one event's request or attempt changes the stage of that      *)
(* event only, and takes it where its guard says.                          *)
(***************************************************************************)
LEMMA GiveUpStage ==
  ASSUME TypeOK, NEW e \in Events, NEW s \in {"settled", "lost"}, GiveUp(e, s)
  PROVE  /\ \A f \in Events : f # e => stage'[f] = stage[f] /\ job'[f] = job[f]
         /\ stage'[e] \in {"pending", "dead", s}
         /\ Durable => stage'[e] \in {"pending", "dead"}
         /\ job'[e] = Idle(job[e].tries)
BY DEF GiveUp, TypeOK, Redelivered

(***************************************************************************)
(* An endpoint never hears of an event that is not committed to the        *)
(* timeline, in either mode: recordEvent awaits its batch first, and what  *)
(* runs later only ever runs for events that got past it.                  *)
(***************************************************************************)
THEOREM RecordedFirst == Spec => [](StageInv /\ RecordedBeforeDelivered)
<1> USE FanoutAssumption
<1>1. Init => StageInv /\ RecordedBeforeDelivered
  BY DEF Init, StageInv, RecordedBeforeDelivered
<1>2. TypeOK /\ StageInv /\ RecordedBeforeDelivered /\ [Next]_vars
        => StageInv' /\ RecordedBeforeDelivered'
  <2> SUFFICES ASSUME TypeOK, StageInv, RecordedBeforeDelivered, [Next]_vars
               PROVE  StageInv' /\ RecordedBeforeDelivered'
    OBVIOUS
  <2> USE DEF StageInv, RecordedBeforeDelivered
  <2>1. ASSUME NEW e \in Events, Request(e) PROVE StageInv' /\ RecordedBeforeDelivered'
    BY <2>1 DEF Request, Mutate, RecordEvent, Dispatch, RequestDies, TypeOK
  <2>2. ASSUME NEW e \in Events, Select(e) PROVE StageInv' /\ RecordedBeforeDelivered'
    BY <2>2 DEF Select, TypeOK, Tries
  <2>3. ASSUME NEW e \in Events, NEW h \in Hooks, Post(e, h)
        PROVE  StageInv' /\ RecordedBeforeDelivered'
    <3>1. UNCHANGED <<stage, timeline, owed>> /\ e \in timeline
      BY <2>3 DEF Post, Succeeded
    <3>2. \A f \in Events : f # e => got'[f] = got[f]
      BY <2>3 DEF Post, TypeOK, Succeeded
    <3> QED BY <3>1, <3>2
  <2>4. ASSUME NEW e \in Events, GiveUp(e, "settled") \/ GiveUp(e, "lost"),
               stage[e] = "running", UNCHANGED <<timeline, got, owed>>
        PROVE  StageInv' /\ RecordedBeforeDelivered'
    BY <2>4, GiveUpStage
  <2>5. ASSUME NEW e \in Events, LogDelivery(e) PROVE StageInv' /\ RecordedBeforeDelivered'
    BY <2>4, <2>5 DEF LogDelivery, FailedRows
  <2>6. ASSUME NEW e \in Events, CountDelivery(e) PROVE StageInv' /\ RecordedBeforeDelivered'
    BY <2>6 DEF CountDelivery, Counted, NewCount
  <2>7. ASSUME NEW e \in Events, Finish(e) PROVE StageInv' /\ RecordedBeforeDelivered'
    <3>1. CASE ~job[e].failed
      BY <2>7, <3>1 DEF Finish, TypeOK, Throws
    <3>2. CASE job[e].failed
      BY <2>4, <2>7, <3>2 DEF Finish, Throws
    <3> QED BY <3>1, <3>2
  <2>8. ASSUME NEW e \in Events, WorkerDies(e) PROVE StageInv' /\ RecordedBeforeDelivered'
    BY <2>4, <2>8 DEF WorkerDies
  <2>9. ASSUME UNCHANGED <<stage, timeline, got>>, UNCHANGED owed \/ KeepOwed
        PROVE  StageInv' /\ RecordedBeforeDelivered'
    BY <2>9 DEF KeepOwed
  <2>10. ASSUME Admin PROVE StageInv' /\ RecordedBeforeDelivered'
    BY <2>9, <2>10 DEF Admin, CreateHook, PatchRead, PatchWrite, DeleteHook
  <2>11. CASE UNCHANGED vars
    BY <2>9, <2>11 DEF vars
  <2> QED
    BY <2>1, <2>2, <2>3, <2>5, <2>6, <2>7, <2>8, <2>10, <2>11 DEF Next, Process
<1> QED BY <1>1, <1>2, TypeCorrect, PTL DEF Spec

(***************************************************************************)
(* A success in a hook's delivery history is about a POST its endpoint     *)
(* took.                                                                   *)
(***************************************************************************)
THEOREM Receipts == Spec => [](OkInv /\ SuccessRowsAreReceipts)
<1> USE FanoutAssumption
<1>1. Init => OkInv /\ SuccessRowsAreReceipts
  BY DEF Init, OkInv, SuccessRowsAreReceipts
<1>2. TypeOK /\ TypeOK' /\ CurInv /\ OkInv /\ SuccessRowsAreReceipts /\ [Next]_vars
        => OkInv' /\ SuccessRowsAreReceipts'
  <2> SUFFICES ASSUME TypeOK, TypeOK', CurInv, OkInv, SuccessRowsAreReceipts, [Next]_vars
               PROVE  OkInv' /\ SuccessRowsAreReceipts'
    OBVIOUS
  <2> USE DEF OkInv, SuccessRowsAreReceipts
  <2>1. ASSUME UNCHANGED <<job, got>>, NEW e \in Events,
               \A f \in Events : stage'[f] = "running" => stage[f] = "running",
               \A h \in Hooks : okRows'[h] \in {okRows[h], {}}
        PROVE  OkInv' /\ SuccessRowsAreReceipts'
    BY <2>1
  <2>2. ASSUME NEW e \in Events, Request(e) PROVE OkInv' /\ SuccessRowsAreReceipts'
    BY <2>1, <2>2
    DEF Request, Mutate, RecordEvent, Dispatch, RequestDies, rowVars, TypeOK
  <2>3. ASSUME NEW e \in Events, Select(e) PROVE OkInv' /\ SuccessRowsAreReceipts'
    <3>1. job'[e].step = "next" /\ \A f \in Events : f # e =>
            job'[f] = job[f] /\ stage'[f] = stage[f]
      BY <2>3 DEF Select, TypeOK, Idle, Tries
    <3> QED BY <2>3, <3>1 DEF Select, rowVars, Tries
  <2>4. ASSUME NEW e \in Events, NEW h \in Hooks, Post(e, h)
        PROVE  OkInv' /\ SuccessRowsAreReceipts'
    <3>1. PICK r \in Job : /\ job' = [job EXCEPT ![e] = r]
                           /\ r.cur = h /\ (r.ok => h \in got'[e])
      BY <2>4, PostType
    <3>2. \A f \in Events : got[f] \subseteq got'[f]
      BY <2>4 DEF Post, TypeOK, Succeeded
    <3>3. UNCHANGED <<okRows, stage>>
      BY <2>4 DEF Post, rowVars, Succeeded
    <3> QED BY <3>1, <3>2, <3>3 DEF TypeOK
  <2>5. ASSUME NEW e \in Events, GiveUp(e, "settled") \/ GiveUp(e, "lost"),
               UNCHANGED <<okRows, got>>
        PROVE  OkInv' /\ SuccessRowsAreReceipts'
    BY <2>5, GiveUpStage DEF Idle
  <2>6. ASSUME NEW e \in Events, LogDelivery(e) PROVE OkInv' /\ SuccessRowsAreReceipts'
    <3>1. CASE Live(job[e].cur)
      <4>1. UNCHANGED <<stage, got>> /\ job[e].cur \in Hooks /\ job[e].step = "log"
              /\ stage[e] = "running"
        BY <2>6, <3>1 DEF LogDelivery, TypeOK, CurInv, Job, FailedRows
      <4>2. \A f \in Events : job'[f].cur = job[f].cur /\ job'[f].ok = job[f].ok
              /\ (job'[f].step = "next" <=> job[f].step = "next")
        <5>1. job' = [job EXCEPT ![e] = [job[e] EXCEPT !.step = "count"]]
          BY <2>6, <3>1 DEF LogDelivery, FailedRows
        <5>2. job[e] \in Job
          BY DEF TypeOK
        <5>3. LET r == [job[e] EXCEPT !.step = "count"] IN
                r.cur = job[e].cur /\ r.ok = job[e].ok /\ r.step = "count"
          BY <5>2 DEF Job
        <5> QED BY <4>1, <5>1, <5>3 DEF TypeOK
      <4>3. \A h \in Hooks : okRows'[h] = okRows[h] \/
              (h = job[e].cur /\ job[e].ok /\ okRows'[h] = okRows[h] \cup {e})
        BY <2>6, <3>1 DEF LogDelivery, TypeOK, FailedRows
      <4> QED BY <4>1, <4>2, <4>3
    <3>2. CASE ~Live(job[e].cur)
      BY <2>5, <2>6, <3>2 DEF LogDelivery, FailedRows
    <3> QED BY <3>1, <3>2
  <2>7. ASSUME NEW e \in Events, CountDelivery(e) PROVE OkInv' /\ SuccessRowsAreReceipts'
    <3>1. PICK r \in Job : job' = [job EXCEPT ![e] = r] /\ r.step = "next"
      BY <2>7, CountType
    <3> QED BY <2>7, <3>1 DEF CountDelivery, TypeOK, Counted, NewCount
  <2>8. ASSUME NEW e \in Events, Finish(e) PROVE OkInv' /\ SuccessRowsAreReceipts'
    <3>1. CASE ~job[e].failed
      BY <2>8, <3>1 DEF Finish, TypeOK, Idle, rowVars, Throws
    <3>2. CASE job[e].failed
      BY <2>5, <2>8, <3>2 DEF Finish, rowVars, Throws
    <3> QED BY <3>1, <3>2
  <2>9. ASSUME NEW e \in Events, WorkerDies(e) PROVE OkInv' /\ SuccessRowsAreReceipts'
    BY <2>5, <2>9 DEF WorkerDies, rowVars
  <2>10. ASSUME Admin PROVE OkInv' /\ SuccessRowsAreReceipts'
    <3>1. UNCHANGED <<job, got, stage>> /\ \A h \in Hooks : okRows'[h] \in {okRows[h], {}}
      <4>1. ASSUME NEW h \in Hooks, DeleteHook(h)
            PROVE  UNCHANGED <<job, got, stage>> /\ \A g \in Hooks : okRows'[g] \in {okRows[g], {}}
        BY <4>1 DEF DeleteHook, TypeOK
      <4>2. CASE UNCHANGED <<job, got, stage, okRows>>
        BY <4>2
      <4> QED BY <2>10, <4>1, <4>2 DEF Admin, CreateHook, PatchRead, PatchWrite, rowVars
    <3> QED BY <3>1
  <2>11. CASE UNCHANGED vars
    BY <2>11 DEF vars
  <2> QED
    BY <2>2, <2>3, <2>4, <2>6, <2>7, <2>8, <2>9, <2>10, <2>11 DEF Next, Process
<1> QED BY <1>1, <1>2, TypeCorrect, PTL DEF Spec

(***************************************************************************)
(* A hook is owed only what it is subscribed to: every write that stops a  *)
(* hook from matching also releases it, and nothing else changes whether   *)
(* it matches.                                                             *)
(***************************************************************************)
LEMMA OwedCorrect == Spec => []OwedMatches
<1> USE FanoutAssumption
<1>1. Init => OwedMatches
  BY DEF Init, OwedMatches
<1>2. TypeOK /\ TypeOK' /\ OwedMatches /\ [Next]_vars => OwedMatches'
  <2> SUFFICES ASSUME TypeOK, TypeOK', OwedMatches, [Next]_vars PROVE OwedMatches'
    OBVIOUS
  <2> USE DEF OwedMatches
  <2>1. ASSUME UNCHANGED hook, UNCHANGED owed PROVE OwedMatches'
    BY <2>1 DEF Matching, Live
  <2>2. ASSUME KeepOwed PROVE OwedMatches'
    BY <2>2 DEF KeepOwed
  <2>3. ASSUME NEW e \in Events, Request(e) PROVE OwedMatches'
    <3>1. CASE RecordEvent(e)
      <4>1. UNCHANGED hook /\ \A f \in Events : owed'[f] = IF f = e THEN Matching(e) ELSE owed[f]
        BY <3>1 DEF RecordEvent, rowVars, TypeOK
      <4> QED BY <4>1 DEF Matching, Live
    <3> QED BY <2>1, <2>3, <3>1 DEF Request, Mutate, Dispatch, RequestDies, rowVars
  <2>4. ASSUME NEW e \in Events, CountDelivery(e) PROVE OwedMatches'
    <3>1. UNCHANGED owed
      BY <2>4 DEF CountDelivery, Counted, NewCount
    <3>2. \A h \in Hooks : /\ hook'[h].status = hook[h].status
                           /\ hook'[h].active = hook[h].active
                           /\ hook'[h].types = hook[h].types
      BY <2>4 DEF CountDelivery, TypeOK, HookRow, Counted, NewCount
    <3> QED BY <3>1, <3>2 DEF Matching, Live
  <2>5. ASSUME NEW e \in Events, Process(e) \/ WorkerDies(e) PROVE OwedMatches'
    BY <2>1, <2>4, <2>5
    DEF Process, Select, Post, LogDelivery, Finish, WorkerDies, rowVars, Tries, Succeeded, FailedRows, Throws
  <2>6. ASSUME NEW h \in Hooks, NEW active \in BOOLEAN, NEW types \in SUBSET Types,
               CreateHook(h, active, types)
        PROVE  OwedMatches'
    <3>1. UNCHANGED owed /\ hook[h].status = "unused"
            /\ \A g \in Hooks : g # h => hook'[g] = hook[g]
      BY <2>6 DEF CreateHook, TypeOK
    <3> QED BY <3>1 DEF Matching, Live
  <2>7. ASSUME Admin PROVE OwedMatches'
    BY <2>1, <2>2, <2>6, <2>7 DEF Admin, PatchRead, PatchWrite, DeleteHook, rowVars
  <2>8. CASE UNCHANGED vars
    BY <2>1, <2>8 DEF vars
  <2> QED BY <2>3, <2>5, <2>7, <2>8 DEF Next
<1> QED BY <1>1, <1>2, TypeCorrect, PTL DEF Spec

(***************************************************************************)
(* Everything SettledReachesSubscribers rests on.                          *)
(***************************************************************************)
Base == TypeOK /\ CurInv /\ OwedMatches /\ OkInv /\ AttemptInv

(***************************************************************************)
(* Within one attempt, no hook that is owed the event is lost sight of.    *)
(***************************************************************************)
LEMMA AttemptStep ==
  ASSUME Base, TypeOK', OwedMatches', [Next]_vars
  PROVE  AttemptInv'
<1> USE FanoutAssumption DEF Base
<1> DEFINE Fine(e) ==
      \/ job[e].failed
      \/ job[e].step # "next" /\ ~job[e].ok
      \/ \A h \in owed[e] : \/ h \in job[e].todo
                            \/ Delivered(e, h)
                            \/ job[e].step = "log" /\ h = job[e].cur
<1>1. AttemptInv <=> \A e \in Events : stage[e] = "running" => Fine(e)
  BY DEF AttemptInv
<1>2. AttemptInv' <=> \A e \in Events : stage'[e] = "running" => Fine(e)'
  BY DEF AttemptInv
<1>3. ASSUME NEW f \in Events, stage'[f] = "running" => stage[f] = "running",
             job'[f] = job[f], owed'[f] \subseteq owed[f],
             \A h \in owed'[f] : Delivered(f, h) => Delivered(f, h)'
      PROVE  stage'[f] = "running" => Fine(f)'
  BY <1>1, <1>3
<1>4. ASSUME NEW e \in Events, Request(e) PROVE AttemptInv'
  <2>1. UNCHANGED <<job, got, okRows>> /\ stage'[e] # "running"
          /\ \A f \in Events : f # e => stage'[f] = stage[f] /\ owed'[f] = owed[f]
    BY <1>4 DEF Request, Mutate, RecordEvent, Dispatch, RequestDies, rowVars, TypeOK
  <2>2. \A f \in Events : f # e => (stage'[f] = "running" => Fine(f)')
    BY <1>1, <2>1 DEF Delivered
  <2> QED BY <1>2, <2>1, <2>2
<1>5. ASSUME NEW e \in Events, Select(e) PROVE AttemptInv'
  <2>1. UNCHANGED <<got, okRows, owed>>
          /\ \A f \in Events : f # e => stage'[f] = stage[f] /\ job'[f] = job[f]
    BY <1>5 DEF Select, rowVars, TypeOK, Tries
  <2>2. job'[e].todo = Matching(e)
    BY <1>5 DEF Select, Idle, TypeOK, Tries
  <2>3. Fine(e)'
    BY <2>1, <2>2 DEF OwedMatches
  <2>4. \A f \in Events : f # e => (stage'[f] = "running" => Fine(f)')
    BY <1>1, <2>1 DEF Delivered
  <2> QED BY <1>2, <2>3, <2>4
<1>6. ASSUME NEW e \in Events, NEW h \in Hooks, Post(e, h) PROVE AttemptInv'
  <2>1. PICK r \in Job : /\ job' = [job EXCEPT ![e] = r]
                         /\ r.step = "log" /\ r.cur = h
                         /\ r.todo = job[e].todo \ {h}
                         /\ r.failed = job[e].failed
    BY <1>6, PostType
  <2>2. UNCHANGED <<stage, okRows, owed>> /\ stage[e] = "running" /\ job[e].step = "next"
    BY <1>6 DEF Post, rowVars, Succeeded
  <2>3. \A f \in Events : got[f] \subseteq got'[f]
    BY <1>6 DEF Post, TypeOK, Succeeded
  <2>4. job'[e] = r /\ \A f \in Events : f # e => job'[f] = job[f]
    BY <2>1 DEF TypeOK
  <2>5. Fine(e)'
    BY <1>1, <2>1, <2>2, <2>3, <2>4 DEF Delivered
  <2>6. \A f \in Events : f # e => (stage'[f] = "running" => Fine(f)')
    BY <1>1, <2>2, <2>3, <2>4 DEF Delivered
  <2> QED BY <1>2, <2>5, <2>6
<1>7. ASSUME NEW e \in Events, GiveUp(e, "settled") \/ GiveUp(e, "lost"),
             UNCHANGED <<okRows, got, owed>>
      PROVE  AttemptInv'
  <2>1. \A f \in Events : f # e => stage'[f] = stage[f] /\ job'[f] = job[f]
    BY <1>7, GiveUpStage
  <2>2. stage'[e] # "running"
    BY <1>7, GiveUpStage
  <2>3. \A f \in Events : f # e => (stage'[f] = "running" => Fine(f)')
    BY <1>1, <1>7, <2>1 DEF Delivered
  <2> QED BY <1>2, <2>2, <2>3
<1>8. ASSUME NEW e \in Events, LogDelivery(e) PROVE AttemptInv'
  <2>1. CASE Live(job[e].cur)
    <3>1. UNCHANGED <<stage, got, owed>> /\ stage[e] = "running" /\ job[e].step = "log"
            /\ job[e].cur \in Hooks
      BY <1>8, <2>1 DEF LogDelivery, TypeOK, CurInv, Job, FailedRows
    <3>2. job' = [job EXCEPT ![e] = [job[e] EXCEPT !.step = "count"]]
      BY <1>8, <2>1 DEF LogDelivery, FailedRows
    <3>3. LET r == [job[e] EXCEPT !.step = "count"] IN
            /\ r.cur = job[e].cur /\ r.ok = job[e].ok /\ r.step = "count"
            /\ r.failed = job[e].failed /\ r.todo = job[e].todo
      <4>1. job[e] \in Job
        BY DEF TypeOK
      <4> QED BY <4>1 DEF Job
    <3>4. /\ job'[e].ok = job[e].ok /\ job'[e].step = "count"
          /\ job'[e].failed = job[e].failed /\ job'[e].todo = job[e].todo
          /\ \A f \in Events : f # e => job'[f] = job[f]
      BY <3>2, <3>3 DEF TypeOK
    <3>5. \A h \in Hooks : okRows[h] \subseteq okRows'[h]
      BY <1>8, <2>1 DEF LogDelivery, TypeOK, FailedRows
    <3>6. job[e].ok => e \in okRows'[job[e].cur] /\ job[e].cur \in got[e]
      BY <1>8, <2>1, <3>1 DEF LogDelivery, TypeOK, OkInv, FailedRows
    <3>7. \A f \in Events : owed[f] \subseteq Hooks
      BY DEF TypeOK
    <3>8. \A f \in Events : \A h \in owed[f] : Delivered(f, h) => Delivered(f, h)'
      BY <3>1, <3>5, <3>7 DEF Delivered
    <3>9. Fine(e)'
      <4>1. CASE ~job[e].ok
        BY <3>4, <4>1
      <4>2. CASE job[e].ok
        BY <1>1, <3>1, <3>4, <3>6, <3>8, <4>2 DEF Delivered
      <4> QED BY <4>1, <4>2
    <3>10. \A f \in Events : f # e => (stage'[f] = "running" => Fine(f)')
      BY <1>3, <3>1, <3>4, <3>8
    <3> QED BY <1>2, <3>9, <3>10
  <2>2. CASE ~Live(job[e].cur)
    BY <1>7, <1>8, <2>2 DEF LogDelivery, FailedRows
  <2> QED BY <2>1, <2>2
<1>9. ASSUME NEW e \in Events, CountDelivery(e) PROVE AttemptInv'
  <2>1. PICK r \in Job : /\ job' = [job EXCEPT ![e] = r]
                         /\ r.step = "next" /\ r.todo = job[e].todo
                         /\ r.failed <=> (job[e].failed \/ ~job[e].ok)
    BY <1>9, CountType
  <2>2. UNCHANGED <<stage, okRows, got, owed>> /\ stage[e] = "running" /\ job[e].step = "count"
    BY <1>9 DEF CountDelivery, Counted, NewCount
  <2>3. job'[e] = r /\ \A f \in Events : f # e => job'[f] = job[f]
    BY <2>1 DEF TypeOK
  <2>4. Fine(e)'
    BY <1>1, <2>1, <2>2, <2>3 DEF Delivered
  <2>5. \A f \in Events : f # e => (stage'[f] = "running" => Fine(f)')
    BY <1>1, <2>2, <2>3 DEF Delivered
  <2> QED BY <1>2, <2>4, <2>5
<1>10. ASSUME NEW e \in Events, Finish(e) PROVE AttemptInv'
  <2>1. CASE ~job[e].failed
    <3>1. UNCHANGED <<okRows, got, owed>> /\ stage'[e] # "running"
            /\ \A f \in Events : f # e => stage'[f] = stage[f] /\ job'[f] = job[f]
      BY <1>10, <2>1 DEF Finish, rowVars, TypeOK, Throws
    <3>2. \A f \in Events : f # e => (stage'[f] = "running" => Fine(f)')
      BY <1>1, <3>1 DEF Delivered
    <3> QED BY <1>2, <3>1, <3>2
  <2>2. CASE job[e].failed
    BY <1>7, <1>10, <2>2 DEF Finish, rowVars, Throws
  <2> QED BY <2>1, <2>2
<1>11. ASSUME NEW e \in Events, WorkerDies(e) PROVE AttemptInv'
  BY <1>7, <1>11 DEF WorkerDies, rowVars
<1>12. ASSUME NEW h \in Hooks, DeleteHook(h) PROVE AttemptInv'
  <2>1. UNCHANGED <<stage, job, got>> /\ \A f \in Events : owed'[f] \subseteq owed[f]
    BY <1>12 DEF DeleteHook, KeepOwed
  <2>2. \A f \in Events : h \notin owed'[f] /\ owed'[f] \subseteq Hooks
    BY <1>12 DEF DeleteHook, OwedMatches, Matching, Live, TypeOK
  <2>3. \A g \in Hooks : g # h => okRows'[g] = okRows[g]
    BY <1>12 DEF DeleteHook, TypeOK
  <2>4. \A f \in Events : \A g \in owed'[f] : Delivered(f, g) => Delivered(f, g)'
    BY <2>1, <2>2, <2>3 DEF Delivered
  <2> QED BY <1>2, <1>3, <2>1, <2>4
<1>13. ASSUME NEW p \in Patchers, PatchWrite(p) PROVE AttemptInv'
  <2>1. UNCHANGED <<stage, job, got, okRows>> /\ \A f \in Events : owed'[f] \subseteq owed[f]
    BY <1>13 DEF PatchWrite, KeepOwed
  <2> QED BY <1>2, <1>3, <2>1 DEF Delivered
<1>14. ASSUME UNCHANGED <<stage, job, got, okRows, owed>> PROVE AttemptInv'
  BY <1>2, <1>3, <1>14 DEF Delivered
<1>15. ASSUME Admin PROVE AttemptInv'
  BY <1>12, <1>13, <1>14, <1>15 DEF Admin, CreateHook, PatchRead, rowVars
<1> QED
  BY <1>4, <1>5, <1>6, <1>8, <1>9, <1>10, <1>11, <1>14, <1>15 DEF Next, Process, vars

(***************************************************************************)
(* Base is an invariant of both modes.                                     *)
(***************************************************************************)
LEMMA BaseCorrect == Spec => []Base
<1>1. Init => AttemptInv
  BY DEF Init, AttemptInv
<1>2. Base /\ TypeOK' /\ OwedMatches' /\ [Next]_vars => AttemptInv'
  BY AttemptStep
<1>3. Spec => [](TypeOK /\ CurInv) /\ []OwedMatches /\ [](OkInv /\ SuccessRowsAreReceipts)
  BY TypeCorrect, OwedCorrect, Receipts
<1> QED BY <1>1, <1>2, <1>3, PTL DEF Spec, Base

(***************************************************************************)
(* What one step does to a settled event: nothing but a release of hooks   *)
(* it is owed to.                                                          *)
(***************************************************************************)
LEMMA SettledStays ==
  ASSUME Base, TypeOK', OwedMatches', [Next]_vars,
         NEW f \in Events, stage[f] = "settled"
  PROVE  /\ owed'[f] \subseteq owed[f]
         /\ \A h \in owed'[f] : Delivered(f, h) => Delivered(f, h)'
<1> USE FanoutAssumption DEF Base
<1>1. ASSUME NEW e \in Events, Request(e) PROVE UNCHANGED <<got, okRows>> /\ owed'[f] = owed[f]
  BY <1>1 DEF Request, Mutate, RecordEvent, Dispatch, RequestDies, rowVars, TypeOK
<1>2. ASSUME NEW e \in Events, NEW h \in Hooks, Post(e, h)
      PROVE  UNCHANGED <<okRows, owed>> /\ got[f] \subseteq got'[f]
  BY <1>2 DEF Post, rowVars, TypeOK, Succeeded
<1>3. ASSUME NEW e \in Events, LogDelivery(e)
      PROVE  UNCHANGED <<got, owed>> /\ \A h \in Hooks : okRows[h] \subseteq okRows'[h]
  BY <1>3 DEF LogDelivery, TypeOK, FailedRows
<1>4. ASSUME NEW e \in Events, Select(e) \/ CountDelivery(e) \/ Finish(e) \/ WorkerDies(e)
      PROVE  UNCHANGED <<got, okRows, owed>>
  BY <1>4 DEF Select, CountDelivery, Finish, WorkerDies, rowVars, Tries, Counted, NewCount, Throws
<1>5. ASSUME NEW h \in Hooks, DeleteHook(h)
      PROVE  /\ UNCHANGED got /\ owed'[f] \subseteq owed[f] /\ h \notin owed'[f]
             /\ \A g \in Hooks : g # h => okRows'[g] = okRows[g]
  BY <1>5 DEF DeleteHook, KeepOwed, OwedMatches, Matching, Live, TypeOK
<1>6. ASSUME NEW p \in Patchers, PatchWrite(p)
      PROVE  UNCHANGED <<got, okRows>> /\ owed'[f] \subseteq owed[f]
  BY <1>6 DEF PatchWrite, KeepOwed
<1>7. owed[f] \subseteq Hooks /\ owed'[f] \subseteq Hooks
  BY DEF TypeOK
<1>8. CASE UNCHANGED <<got, okRows, owed>>
  BY <1>8 DEF Delivered
<1> QED
  BY <1>1, <1>2, <1>3, <1>4, <1>5, <1>6, <1>7, <1>8
  DEF Next, Process, Admin, CreateHook, PatchRead, Delivered, rowVars, vars

(***************************************************************************)
(* With a queue behind it, an event is acknowledged only once every hook   *)
(* subscribed to it all along has received it and shows a success for it.  *)
(* Without the queue the step GiveUp settles failed events, and the run    *)
(* fanout_inprocess shows the property violated.                           *)
(***************************************************************************)
THEOREM SettledReaches == ASSUME Durable PROVE Spec => []SettledReachesSubscribers
<1> USE FanoutAssumption
<1>1. Init => SettledReachesSubscribers
  BY DEF Init, SettledReachesSubscribers
<1>2. Base /\ Base' /\ SettledReachesSubscribers /\ [Next]_vars => SettledReachesSubscribers'
  <2> SUFFICES ASSUME Base, Base', SettledReachesSubscribers, [Next]_vars,
                      NEW f \in Events, stage'[f] = "settled"
               PROVE  \A h \in owed'[f] : Delivered(f, h)'
    BY DEF SettledReachesSubscribers, Delivered
  <2>1. CASE stage[f] = "settled"
    <3>1. \A h \in owed[f] : Delivered(f, h)
      BY <2>1 DEF SettledReachesSubscribers, Delivered
    <3> QED BY <2>1, <3>1, SettledStays DEF Base
  <2>2. CASE stage[f] # "settled"
    <3>1. ASSUME NEW e \in Events, GiveUp(e, "settled") \/ GiveUp(e, "lost") PROVE FALSE
      BY <2>2, <3>1, GiveUpStage, Durable DEF Base
    <3>2. ASSUME NEW e \in Events, Request(e) \/ Select(e) PROVE FALSE
      BY <2>2, <3>2
      DEF Request, Mutate, RecordEvent, Dispatch, RequestDies, Select, Base, TypeOK, Tries
    <3>3. ASSUME UNCHANGED stage PROVE FALSE
      BY <2>2, <3>3
    <3>4. PICK e \in Events : Finish(e) /\ ~job[e].failed
      BY <3>1, <3>2, <3>3 DEF Next, Process, Admin, Post, LogDelivery, CountDelivery, Finish,
         WorkerDies, CreateHook, PatchRead, PatchWrite, DeleteHook, vars, Succeeded, FailedRows, Counted, NewCount, Throws
    <3>5. e = f /\ stage[f] = "running" /\ UNCHANGED <<owed, okRows, got>>
      BY <2>2, <3>4 DEF Finish, Base, TypeOK, rowVars, Throws
    <3>6. \A h \in owed[f] : Delivered(f, h)
      BY <3>4, <3>5 DEF Finish, Base, AttemptInv, Throws
    <3> QED BY <3>5, <3>6 DEF Delivered
  <2> QED BY <2>1, <2>2
<1> QED BY <1>1, <1>2, BaseCorrect, PTL DEF Spec

(***************************************************************************)
(* failure_count never exceeds the failed rows of the hook's history, for  *)
(* any number of events delivering to it at once: each attempt writes one  *)
(* more than a count it read, and has by then added a failed row of its    *)
(* own that no other attempt has counted.                                  *)
(***************************************************************************)
THEOREM CountBacked == Spec => [](CountInv /\ FailureCountBacked)
<1> USE FanoutAssumption
<1>1. CountInv => FailureCountBacked
  BY DEF CountInv, FailureCountBacked, Live
<1>2. Init => CountInv
  <2> SUFFICES ASSUME Init PROVE CountInv
    OBVIOUS
  <2>1. NoHook.failures = 0 /\ \A t \in Types : NewHook(TRUE, {t}).failures = 0
    BY DEF NoHook, NewHook
  <2>2. \A h \in Hooks : hook[h] \in {NoHook} \cup {NewHook(TRUE, {t}) : t \in Types}
    BY DEF Init
  <2>3. \A h \in Hooks : hook[h].failures = 0
    BY <2>1, <2>2
  <2>4. /\ \A h \in Hooks : badRows[h] = 0
        /\ \A e \in Events : stage[e] # "running"
    BY DEF Init
  <2> QED BY <2>3, <2>4 DEF CountInv
<1>3. TypeOK /\ TypeOK' /\ CurInv /\ CountInv /\ [Next]_vars => CountInv'
  <2> SUFFICES ASSUME TypeOK, TypeOK', CurInv, CountInv, [Next]_vars PROVE CountInv'
    OBVIOUS
  <2> DEFINE Backed(h, e) ==
        /\ job[e].seen[h] <= badRows[h]
        /\ job[e].step = "count" /\ ~job[e].ok /\ job[e].cur = h
             => job[e].seen[h] < badRows[h]
  <2>1. /\ \A h \in Hooks : badRows[h] \in Nat /\ hook[h].failures \in Nat
        /\ \A h \in Hooks, e \in Events : job[e].seen[h] \in Nat
        /\ \A h \in Hooks, e \in Events : job'[e].seen[h] \in Nat
    BY DEF TypeOK, HookRow, Job
  <2>3. ASSUME NEW e \in Events, Request(e) PROVE CountInv'
    <3>1. UNCHANGED <<hook, badRows, job>> /\ \A f \in Events :
            stage'[f] = "running" => stage[f] = "running"
      BY <2>3 DEF Request, Mutate, RecordEvent, Dispatch, RequestDies, rowVars, TypeOK
    <3> QED BY <3>1 DEF CountInv
  <2>4. ASSUME NEW e \in Events, Select(e) PROVE CountInv'
    <3>1. UNCHANGED <<hook, badRows>> /\ \A f \in Events : f # e =>
            stage'[f] = stage[f] /\ job'[f] = job[f]
      BY <2>4 DEF Select, rowVars, TypeOK, Tries
    <3>2. job'[e].step = "next" /\ \A h \in Hooks : job'[e].seen[h] = hook[h].failures
      BY <2>4 DEF Select, Idle, TypeOK, Tries
    <3> QED BY <3>1, <3>2 DEF CountInv
  <2>5. ASSUME NEW e \in Events, NEW h \in Hooks, Post(e, h) PROVE CountInv'
    <3>1. PICK r \in Job : /\ job' = [job EXCEPT ![e] = r]
                           /\ r.step = "log" /\ r.seen = job[e].seen
      BY <2>5, PostType
    <3>2. UNCHANGED <<hook, badRows, stage>> /\ stage[e] = "running"
      BY <2>5 DEF Post, rowVars, Succeeded
    <3>3. job'[e] = r /\ \A f \in Events : f # e => job'[f] = job[f]
      BY <3>1 DEF TypeOK
    <3> QED BY <3>1, <3>2, <3>3 DEF CountInv
  <2>6. ASSUME NEW e \in Events, GiveUp(e, "settled") \/ GiveUp(e, "lost"),
               UNCHANGED <<hook, badRows>>
        PROVE  CountInv'
    <3>1. stage'[e] # "running" /\ \A f \in Events : f # e =>
            stage'[f] = stage[f] /\ job'[f] = job[f]
      BY <2>6, GiveUpStage
    <3> QED BY <2>6, <3>1 DEF CountInv
  <2>7. ASSUME NEW e \in Events, LogDelivery(e) PROVE CountInv'
    <3>1. CASE Live(job[e].cur)
      <4>1. UNCHANGED <<hook, stage>> /\ stage[e] = "running" /\ job[e].cur \in Hooks
        BY <2>7, <3>1 DEF LogDelivery, TypeOK, CurInv, Job, FailedRows
      <4>2. job' = [job EXCEPT ![e] = [job[e] EXCEPT !.step = "count"]]
        BY <2>7, <3>1 DEF LogDelivery, FailedRows
      <4>3. LET r == [job[e] EXCEPT !.step = "count"] IN
              r.cur = job[e].cur /\ r.ok = job[e].ok /\ r.seen = job[e].seen
        <5>1. job[e] \in Job
          BY DEF TypeOK
        <5> QED BY <5>1 DEF Job
      <4>4. /\ job'[e].cur = job[e].cur /\ job'[e].ok = job[e].ok
            /\ job'[e].seen = job[e].seen
            /\ \A f \in Events : f # e => job'[f] = job[f]
        BY <4>2, <4>3 DEF TypeOK
      <4>5. \A h \in Hooks : badRows'[h] =
              IF h = job[e].cur /\ ~job[e].ok THEN badRows[h] + 1 ELSE badRows[h]
        BY <2>7, <3>1, <4>1 DEF LogDelivery, TypeOK, FailedRows
      <4>6. ASSUME NEW h \in Hooks, hook[h].status # "deleted"
            PROVE  /\ hook[h].failures <= badRows'[h]
                   /\ \A f \in Events : stage[f] = "running" => Backed(h, f)'
        <5>1. badRows[h] <= badRows'[h] /\ badRows'[h] \in Nat
          BY <2>1, <4>5
        <5>2. hook[h].failures <= badRows'[h]
          BY <2>1, <4>6, <5>1 DEF CountInv
        <5>3. ASSUME NEW f \in Events, f # e, stage[f] = "running" PROVE Backed(h, f)'
          BY <2>1, <4>4, <4>6, <5>1, <5>3 DEF CountInv
        <5>4. job[e].seen[h] <= badRows[h]
          BY <4>1, <4>6 DEF CountInv
        <5>5. Backed(h, e)'
          BY <2>1, <4>4, <4>5, <5>1, <5>4
        <5> QED BY <5>2, <5>3, <5>5
      <4> QED BY <4>1, <4>6 DEF CountInv
    <3>2. CASE ~Live(job[e].cur)
      BY <2>6, <2>7, <3>2 DEF LogDelivery, FailedRows
    <3> QED BY <3>1, <3>2
  <2>8. ASSUME NEW e \in Events, CountDelivery(e) PROVE CountInv'
    <3>1. PICK r \in Job : /\ job' = [job EXCEPT ![e] = r]
                           /\ r.step = "next" /\ r.seen = job[e].seen
      BY <2>8, CountType
    <3>2. UNCHANGED <<badRows, stage>> /\ stage[e] = "running" /\ job[e].step = "count"
            /\ job[e].cur \in Hooks
      BY <2>8 DEF CountDelivery, TypeOK, CurInv, Job, Counted, NewCount
    <3>3. job'[e] = r /\ \A f \in Events : f # e => job'[f] = job[f]
      BY <3>1 DEF TypeOK
    <3>4. \A h \in Hooks : hook'[h].status = hook[h].status
      BY <2>8 DEF CountDelivery, TypeOK, HookRow, Counted, NewCount
    <3>5. \A h \in Hooks : hook'[h].failures \in
            {hook[h].failures, 0} \cup (IF h = job[e].cur /\ ~job[e].ok
                                        THEN {job[e].seen[h] + 1} ELSE {})
      BY <2>8 DEF CountDelivery, TypeOK, HookRow, Counted, NewCount
    <3>6. ASSUME NEW h \in Hooks, hook[h].status # "deleted"
          PROVE  hook'[h].failures <= badRows[h]
      <4>1. hook[h].failures <= badRows[h] /\ 0 <= badRows[h]
        BY <2>1, <3>6 DEF CountInv
      <4>2. h = job[e].cur /\ ~job[e].ok => job[e].seen[h] + 1 <= badRows[h]
        BY <2>1, <3>2, <3>6 DEF CountInv
      <4> QED BY <3>5, <4>1, <4>2
    <3> QED BY <3>1, <3>2, <3>3, <3>4, <3>6 DEF CountInv
  <2>9. ASSUME NEW e \in Events, Finish(e) PROVE CountInv'
    <3>1. CASE ~job[e].failed
      <4>1. UNCHANGED <<hook, badRows>> /\ stage'[e] # "running"
              /\ \A f \in Events : f # e => stage'[f] = stage[f] /\ job'[f] = job[f]
        BY <2>9, <3>1 DEF Finish, rowVars, TypeOK, Throws
      <4> QED BY <4>1 DEF CountInv
    <3>2. CASE job[e].failed
      BY <2>6, <2>9, <3>2 DEF Finish, rowVars, Throws
    <3> QED BY <3>1, <3>2
  <2>10. ASSUME NEW e \in Events, WorkerDies(e) PROVE CountInv'
    BY <2>6, <2>10 DEF WorkerDies, rowVars
  <2>11. ASSUME NEW h \in Hooks, NEW active \in BOOLEAN, NEW types \in SUBSET Types,
                CreateHook(h, active, types)
         PROVE  CountInv'
    <3>1. /\ hook[h].status = "unused" /\ hook'[h].failures = 0
          /\ \A g \in Hooks : g # h => hook'[g] = hook[g]
          /\ UNCHANGED <<badRows, stage, job>>
      BY <2>11 DEF CreateHook, NewHook, TypeOK
    <3> QED BY <2>1, <3>1 DEF CountInv
  <2>12. ASSUME NEW p \in Patchers, PatchWrite(p) PROVE CountInv'
    <3>1. UNCHANGED <<badRows, stage, job>>
      BY <2>12 DEF PatchWrite
    <3>2. \A h \in Hooks : hook'[h].status = hook[h].status
                         /\ hook'[h].failures = hook[h].failures
      BY <2>12 DEF PatchWrite, TypeOK, HookRow
    <3> QED BY <3>1, <3>2 DEF CountInv
  <2>13. ASSUME NEW h \in Hooks, DeleteHook(h) PROVE CountInv'
    <3>1. /\ hook'[h].status = "deleted"
          /\ \A g \in Hooks : g # h => hook'[g] = hook[g] /\ badRows'[g] = badRows[g]
          /\ UNCHANGED <<stage, job>>
      BY <2>13 DEF DeleteHook, TypeOK, HookRow
    <3> QED BY <3>1 DEF CountInv
  <2>14. CASE UNCHANGED <<hook, badRows, stage, job>>
    BY <2>14 DEF CountInv
  <2>15. ASSUME Admin PROVE CountInv'
    BY <2>11, <2>12, <2>13, <2>14, <2>15 DEF Admin, PatchRead, rowVars
  <2> QED
    BY <2>3, <2>4, <2>5, <2>7, <2>8, <2>9, <2>10, <2>14, <2>15 DEF Next, Process, vars
<1> QED BY <1>1, <1>2, <1>3, TypeCorrect, PTL DEF Spec

(***************************************************************************)
(* With a queue, the fan-out implements EventDelivery: its batch is        *)
(* Record, a POST that arrives is Reach, an ack or an edit of a webhook is *)
(* Settle, and every other step is invisible.                              *)
(***************************************************************************)
THEOREM ImplementsPromise == ASSUME Durable PROVE Spec => ImplementsEventDelivery
<1> USE FanoutAssumption
<1> DEFINE settled == {e \in Events : stage[e] = "settled"}
           OldInv == Base /\ StageInv
<1>1. Init => Promise!Init
  BY DEF Init, Promise!Init
<1>2. OldInv /\ OldInv' /\ [Next]_vars => [Promise!Next]_(Promise!vars)
  <2> SUFFICES ASSUME OldInv, OldInv', [Next]_vars
               PROVE  Promise!Next \/ UNCHANGED <<timeline, settled, got, owed>>
    BY DEF Promise!vars
  <2> USE DEF Base
  <2>1. ASSUME UNCHANGED <<timeline, got, owed>>,
               \A f \in Events : stage'[f] = "settled" <=> stage[f] = "settled"
        PROVE  UNCHANGED <<timeline, settled, got, owed>>
    BY <2>1
  <2>2. ASSUME NEW e \in Events, Request(e)
        PROVE  Promise!Next \/ UNCHANGED <<timeline, settled, got, owed>>
    <3>1. \A f \in Events : stage'[f] = "settled" <=> stage[f] = "settled"
      BY <2>2 DEF Request, Mutate, RecordEvent, Dispatch, RequestDies, TypeOK
    <3>2. CASE RecordEvent(e)
      <4>1. e \notin timeline /\ timeline' = timeline \cup {e} /\ UNCHANGED got
              /\ owed' = [owed EXCEPT ![e] = Matching(e)]
        BY <3>2 DEF RecordEvent, StageInv
      <4>2. Matching(e) \in SUBSET Hooks /\ UNCHANGED settled
        BY <3>1 DEF Matching
      <4>3. Promise!Record(e)
        BY <4>1, <4>2 DEF Promise!Record
      <4> QED BY <4>3 DEF Promise!Next
    <3>3. CASE Mutate(e) \/ Dispatch(e) \/ RequestDies(e)
      BY <2>1, <3>1, <3>3 DEF Mutate, Dispatch, RequestDies
    <3> QED BY <2>2, <3>2, <3>3 DEF Request
  <2>3. ASSUME NEW e \in Events, NEW h \in Hooks, Post(e, h)
        PROVE  Promise!Next \/ UNCHANGED <<timeline, settled, got, owed>>
    <3>1. UNCHANGED <<timeline, stage, owed>> /\ stage[e] = "running"
      BY <2>3 DEF Post, Succeeded
    <3>2. UNCHANGED got \/ got' = [got EXCEPT ![e] = @ \cup {h}]
      BY <2>3 DEF Post, Succeeded
    <3>3. e \in timeline \ settled
      BY <3>1 DEF StageInv
    <3>4. CASE got' = [got EXCEPT ![e] = @ \cup {h}]
      <4>1. Promise!Reach(e, h)
        BY <3>1, <3>3, <3>4 DEF Promise!Reach
      <4> QED BY <4>1 DEF Promise!Next
    <3> QED BY <3>1, <3>2, <3>4
  <2>4. ASSUME NEW e \in Events, GiveUp(e, "settled") \/ GiveUp(e, "lost"),
               stage[e] = "running", UNCHANGED <<timeline, got, owed>>
        PROVE  UNCHANGED <<timeline, settled, got, owed>>
    BY <2>1, <2>4, GiveUpStage
  <2>5. ASSUME NEW e \in Events, Select(e) \/ LogDelivery(e) \/ CountDelivery(e) \/ WorkerDies(e)
        PROVE  UNCHANGED <<timeline, settled, got, owed>>
    <3>1. CASE Select(e)
      <4>1. UNCHANGED <<timeline, got, owed>> /\ \A f \in Events :
              stage'[f] = "settled" <=> stage[f] = "settled"
        BY <3>1 DEF Select, TypeOK, Tries
      <4> QED BY <2>1, <4>1
    <3>2. CASE LogDelivery(e)
      BY <2>1, <2>4, <3>2 DEF LogDelivery, FailedRows
    <3>3. CASE CountDelivery(e)
      BY <2>1, <3>3 DEF CountDelivery, Counted, NewCount
    <3>4. CASE WorkerDies(e)
      BY <2>4, <3>4 DEF WorkerDies
    <3> QED BY <2>5, <3>1, <3>2, <3>3, <3>4
  <2>6. ASSUME NEW e \in Events, Finish(e)
        PROVE  Promise!Next \/ UNCHANGED <<timeline, settled, got, owed>>
    <3>1. CASE job[e].failed
      BY <2>4, <2>6, <3>1 DEF Finish, Throws
    <3>2. CASE ~job[e].failed
      <4>1. /\ stage[e] = "running" /\ stage' = [stage EXCEPT ![e] = "settled"]
            /\ UNCHANGED <<timeline, got, owed>>
        BY <2>6, <3>2 DEF Finish, Throws
      <4>2. owed[e] \subseteq got[e]
        BY <2>6, <3>2, <4>1 DEF Finish, AttemptInv, Delivered, Throws
      <4>3. e \in timeline \ settled
        BY <4>1 DEF StageInv
      <4>4. settled' = settled \cup {e}
        BY <4>1 DEF TypeOK
      <4>5. Promise!Settle
        <5>1. {e} \in SUBSET (timeline \ settled) /\ settled' \ settled \subseteq {e}
          BY <4>3, <4>4
        <5>2. owed' \in [Events -> SUBSET Hooks] /\ \A f \in Events : owed'[f] \subseteq owed[f]
          BY <4>1 DEF TypeOK
        <5>3. \A f \in settled' \ settled : owed'[f] \subseteq got[f]
          BY <4>1, <4>2, <5>1
        <5>4. \E S \in SUBSET (timeline \ settled) : settled' = settled \cup S
          <6> HIDE DEF settled
          <6> QED BY <4>4, <5>1
        <5> QED BY <4>1, <5>2, <5>3, <5>4 DEF Promise!Settle
      <4> QED BY <4>5 DEF Promise!Next
    <3> QED BY <3>1, <3>2
  <2>7. ASSUME NEW h \in Hooks, KeepOwed, UNCHANGED <<timeline, stage, got>>,
               \A g \in Hooks : g # h => hook'[g] = hook[g]
        PROVE  Promise!Next
    <3>1. owed' \in [Events -> SUBSET Hooks] /\ \A e \in Events : owed'[e] \subseteq owed[e]
      BY <2>7 DEF KeepOwed, TypeOK
    <3>2. {} \in SUBSET (timeline \ settled) /\ settled' = settled \cup {} /\ UNCHANGED <<timeline, got>>
      BY <2>7
    <3>3. Promise!Settle
      <4>1. \E S \in SUBSET (timeline \ settled) : settled' = settled \cup S
        <5> HIDE DEF settled
        <5> QED BY <3>2
      <4>2. \A e \in settled' \ settled : owed'[e] \subseteq got[e]
        BY <3>2
      <4> QED BY <3>1, <3>2, <4>1, <4>2 DEF Promise!Settle
    <3> QED BY <3>3 DEF Promise!Next
  <2>8. ASSUME NEW p \in Patchers, PatchWrite(p) PROVE Promise!Next
    <3>1. patch[p].id \in Hooks
      BY <2>8 DEF PatchWrite, TypeOK
    <3>2. \A g \in Hooks : g # patch[p].id => hook'[g] = hook[g]
      BY <2>8, <3>1 DEF PatchWrite, TypeOK
    <3> QED BY <2>7, <2>8, <3>1, <3>2 DEF PatchWrite
  <2>9. ASSUME NEW h \in Hooks, DeleteHook(h) PROVE Promise!Next
    BY <2>7, <2>9 DEF DeleteHook, TypeOK
  <2>10. ASSUME Admin PROVE Promise!Next \/ UNCHANGED <<timeline, settled, got, owed>>
    BY <2>8, <2>9, <2>10 DEF Admin, CreateHook, PatchRead
  <2>11. CASE UNCHANGED vars
    BY <2>11 DEF vars
  <2> QED
    BY <2>2, <2>3, <2>5, <2>6, <2>10, <2>11 DEF Next, Process
<1> QED
  BY <1>1, <1>2, BaseCorrect, RecordedFirst, PTL
  DEF Spec, Promise!Spec, ImplementsEventDelivery
=============================================================================
