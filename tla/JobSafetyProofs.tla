--------------------------- MODULE JobSafetyProofs ---------------------------
(***************************************************************************)
(* Safety of JobLifecycle, for any number of jobs, requests and workers,   *)
(* over either store: the properties that hold although update_job over    *)
(* the shared dict loses updates.                                          *)
(*                                                                         *)
(* They hold for one reason.  A payload that was read and will be put back *)
(* (snap) may be out of date in its status, but what the properties need   *)
(* of it is never withdrawn: the type of a job does not change, a granted  *)
(* approval stays granted, a call stays with the job it was spawned for.   *)
(* The inductive invariant says of the payloads in flight what it says of  *)
(* the records in the store.                                               *)
(*                                                                         *)
(* The first part proves the typing, the second the safety properties, and *)
(* the third that the work between two requests is bounded.                *)
(***************************************************************************)
EXTENDS JobLifecycle, TLAPS

(***************************************************************************)
(* The record update_job starts from, and each record it can put back, is  *)
(* a record.                                                               *)
(***************************************************************************)
LEMMA RecordOperators ==
  /\ Blank \in Records
  /\ \A t \in AllTypes :
       /\ [Blank EXCEPT !.type = t] \in Records
       /\ [Blank EXCEPT !.type = t, !.status = "pending"] \in Records
  /\ \A r \in Records, s \in Statuses, e \in Errors : SetStatus(r, s, e) \in Records
  /\ \A r \in Records : RetryRecord(r) \in Records
  /\ \A r \in Records, c \in Calls \cup {NoCall} : [r EXCEPT !.call = c] \in Records
  /\ \A r \in Records : [r EXCEPT !.approved = TRUE] \in Records
<1>1. Blank \in Records
  BY DEF Blank, Records, Errors, AllTypes
<1>2. ASSUME NEW t \in AllTypes
      PROVE  /\ [Blank EXCEPT !.type = t] \in Records
             /\ [Blank EXCEPT !.type = t, !.status = "pending"] \in Records
  BY DEF Blank, Records, Errors, Statuses
<1>3. ASSUME NEW r \in Records, NEW s \in Statuses, NEW e \in Errors
      PROVE  SetStatus(r, s, e) \in Records
  BY DEF Records, SetStatus
<1>4. ASSUME NEW r \in Records PROVE RetryRecord(r) \in Records
  BY DEF Records, RetryRecord, Blank, Errors, Statuses
<1>5. ASSUME NEW r \in Records, NEW c \in Calls \cup {NoCall}
      PROVE  [r EXCEPT !.call = c] \in Records
  BY DEF Records
<1>6. ASSUME NEW r \in Records PROVE [r EXCEPT !.approved = TRUE] \in Records
  BY DEF Records
<1> QED
  BY <1>1, <1>2, <1>3, <1>4, <1>5, <1>6

LEMMA BaseIsRecord ==
  ASSUME TypeOK, NEW p \in Procs, job[p] \in Jobs
  PROVE  Base(p) \in Records
BY DEF TypeOK, Base

LEMMA ProcsSplit ==
  /\ Handlers \subseteq Procs
  /\ Calls \subseteq Procs
  /\ \A h \in Handlers, c \in Calls : h # c
  /\ NoJob \notin Jobs
  /\ NoCall \notin Calls
BY ConstantsAssumption DEF Procs

LEMMA TypeInit == Init => TypeOK
<1>1. Blank \in Records
  BY RecordOperators
<1> QED
  BY <1>1, ConstantsAssumption DEF Init, TypeOK, Procs, HandlerPcs, WorkerPcs

-----------------------------------------------------------------------------
LEMMA EnqueueType ==
  ASSUME TypeOK, NEW h \in Handlers, NEW j \in Jobs, NEW rec \in Records,
         Enqueue(h, j, rec)
  PROVE  TypeOK'
BY ProcsSplit DEF Enqueue, Accept, TypeOK, workVars, HandlerPcs, WorkerPcs

LEMMA RequestType ==
  ASSUME TypeOK, NEW h \in Handlers, Request(h)
  PROVE  TypeOK'
<1> USE ProcsSplit
<1>1. ASSUME NEW j \in Submitted, NEW t \in JobTypes, CreateJob(h, j, t)
      PROVE  TypeOK'
  BY <1>1, ConstantsAssumption, RecordOperators, EnqueueType DEF CreateJob
<1>2. ASSUME NEW old \in Jobs, NEW j \in Jobs \ Submitted, RetryJob(h, old, j)
      PROVE  TypeOK'
  <2>1. store[old] \in Records
    BY DEF TypeOK
  <2> QED
    BY <1>2, <2>1, RecordOperators, EnqueueType DEF RetryJob
<1>3. ASSUME NEW j \in Jobs, CancelJob(h, j)
      PROVE  TypeOK'
  BY <1>3 DEF CancelJob, Accept, TypeOK, workVars, Records, HandlerPcs, WorkerPcs
<1>4. ASSUME NEW j \in Jobs, ApproveJob(h, j)
      PROVE  TypeOK'
  BY <1>4 DEF ApproveJob, Accept, TypeOK, workVars, HandlerPcs, WorkerPcs
<1>5. ASSUME NEW j \in Jobs, DeleteJob(h, j)
      PROVE  TypeOK'
  <2>1. [Blank EXCEPT !.type = store[j].type] \in Records
    <3>1. store[j].type \in AllTypes
      BY DEF TypeOK, Records
    <3> QED
      BY <3>1, RecordOperators
  <2> QED
    BY <1>5, <2>1 DEF DeleteJob, TypeOK, workVars, frame
<1> QED
  BY <1>1, <1>2, <1>3, <1>4, <1>5 DEF Request

-----------------------------------------------------------------------------
(***************************************************************************)
(* A save of a record keeps the store and the snapshots well typed.        *)
(***************************************************************************)
LEMMA SaveType ==
  ASSUME TypeOK, NEW p \in Procs, job[p] \in Jobs, NEW rec \in Records, Save(p, rec)
  PROVE  /\ store' \in [Jobs -> Records]
         /\ snap' \in [Procs -> Records]
BY RecordOperators DEF TypeOK, Save

LEMMA HandlerType ==
  ASSUME TypeOK, NEW h \in Handlers, HandlerStep(h)
  PROVE  TypeOK'
<1> USE ProcsSplit
<1>a. pc[h] # "idle" => job[h] \in Jobs
  BY DEF TypeOK, HandlerPcs
<1>b. job[h] \in Jobs => Base(h) \in Records
  BY BaseIsRecord
<1>1. CASE Fetch(h)
  BY <1>1, <1>a DEF Fetch, TypeOK, UpdatingPcs, frame, workVars
<1>2. ASSUME NEW c \in Calls, Spawn(h, c)
      PROVE  TypeOK'
  BY <1>2, <1>a DEF Spawn, SpawnedCall, TypeOK, HandlerPcs, WorkerPcs, frame, workVars
<1>3. ASSUME NEW c \in Calls, SpawnReplyLost(h, c)
      PROVE  TypeOK'
  BY <1>3, <1>a DEF SpawnReplyLost, SpawnedCall, TypeOK, HandlerPcs, WorkerPcs, frame, workVars
<1>4. ASSUME NEW c \in Calls, RunInBackground(h, c)
      PROVE  TypeOK'
  BY <1>4, <1>a DEF RunInBackground, SpawnedCall, TypeOK, HandlerPcs, WorkerPcs, frame, workVars
<1>5. CASE SpawnRaises(h)
  BY <1>5 DEF SpawnRaises, Goto, TypeOK, HandlerPcs, WorkerPcs, frame, workVars
<1>6. CASE SetCall(h)
  <2>1. handle[h] \in Calls \cup {NoCall} /\ job[h] \in Jobs
    BY <1>6, <1>a DEF SetCall, TypeOK
  <2> QED
    BY <1>6, <1>b, <2>1, SaveType, RecordOperators
       DEF SetCall, Respond, TypeOK, HandlerPcs, WorkerPcs, frame, workVars
<1>7. CASE SpawnFailed(h)
  <2>1. SetStatus(Base(h), "failed", "spawn") \in Records /\ job[h] \in Jobs
    BY <1>7, <1>a, <1>b, RecordOperators DEF SpawnFailed, Statuses, Terminal, Errors
  <2> QED
    BY <1>7, <2>1, SaveType DEF SpawnFailed, Respond, TypeOK, HandlerPcs, WorkerPcs, frame, workVars
<1>8. CASE SetCancelled(h)
  <2>1. SetStatus(Base(h), "cancelled", "none") \in Records /\ job[h] \in Jobs
    BY <1>8, <1>a, <1>b, RecordOperators DEF SetCancelled, Statuses, Terminal, Errors
  <2> QED
    BY <1>8, <2>1, SaveType DEF SetCancelled, Respond, TypeOK, HandlerPcs, WorkerPcs, frame, workVars
<1>9. CASE SetApproved(h)
  <2>1. [Base(h) EXCEPT !.approved = TRUE] \in Records /\ job[h] \in Jobs
    BY <1>9, <1>a, <1>b, RecordOperators DEF SetApproved
  <2> QED
    BY <1>9, <2>1, SaveType DEF SetApproved, Goto, TypeOK, HandlerPcs, WorkerPcs, frame, workVars
<1>10. CASE HandlerKeyError(h)
  BY <1>10 DEF HandlerKeyError, Respond, TypeOK, UpdatingPcs, HandlerPcs, WorkerPcs, frame, workVars
<1> QED
  BY <1>1, <1>2, <1>3, <1>4, <1>5, <1>6, <1>7, <1>8, <1>9, <1>10 DEF HandlerStep

-----------------------------------------------------------------------------
LEMMA GotoOrEndType ==
  ASSUME TypeOK, NEW c \in Calls, job[c] \in Jobs,
         NEW l \in WorkerPcs \ {"unspawned"}, GotoOrEnd(c, l)
  PROVE  /\ pc' \in [Procs -> HandlerPcs \cup WorkerPcs]
         /\ \A h \in Handlers : pc'[h] \in HandlerPcs
         /\ \A d \in Calls : pc'[d] \in WorkerPcs
         /\ job' \in [Procs -> Jobs \cup {NoJob}]
         /\ \A p \in Procs : (job'[p] = NoJob) <=> (pc'[p] \in {"idle", "unspawned"})
         /\ outcome' \in [Calls -> {"none", "ok", "skipped", "error", "transient"}]
         /\ tries' \in [Calls -> 0..MaxRetries]
BY ProcsSplit, ConstantsAssumption DEF TypeOK, GotoOrEnd, Goto, HandlerPcs, WorkerPcs

LEMMA WorkerType ==
  ASSUME TypeOK, NEW c \in Calls, WorkerStep(c)
  PROVE  TypeOK'
<1> USE ProcsSplit
<1>a. pc[c] # "unspawned" => job[c] \in Jobs
  BY DEF TypeOK, WorkerPcs
<1>b. job[c] \in Jobs => Base(c) \in Records
  BY BaseIsRecord
<1>1. CASE Fetch(c)
  BY <1>1, <1>a DEF Fetch, TypeOK, UpdatingPcs, frame, workVars
<1>2. CASE StartJob(c)
  BY <1>2, <1>a, GotoOrEndType DEF StartJob, TypeOK, WorkerPcs, workFrame, frame
<1>3. CASE GateFinetune(c)
  BY <1>3, <1>a DEF GateFinetune, RunOrSkip, Goto, TypeOK, HandlerPcs, WorkerPcs, workFrame, frame
<1>4. CASE GateAutomation(c)
  BY <1>4, <1>a DEF GateAutomation, RunOrSkip, Goto, TypeOK, HandlerPcs, WorkerPcs, workFrame, frame
<1>5. CASE EnterSingle(c)
  BY <1>5, <1>a DEF EnterSingle, Goto, TypeOK, HandlerPcs, WorkerPcs, workFrame, frame
<1>6. CASE HandlerGone(c)
  BY <1>6, <1>a DEF HandlerGone, Goto, TypeOK, HandlerPcs, WorkerPcs, workFrame, frame
<1>7. CASE SetRunning(c)
  <2>1. SetStatus(Base(c), "running", "none") \in Records /\ job[c] \in Jobs
    BY <1>7, <1>a, <1>b, RecordOperators DEF SetRunning, Statuses, Terminal, Errors
  <2> QED
    BY <1>7, <2>1, SaveType
       DEF SetRunning, Goto, TypeOK, HandlerPcs, WorkerPcs, workFrame, frame, workVars
<1>8. CASE Body(c)
  BY <1>8, <1>a DEF Body, Goto, TypeOK, HandlerPcs, WorkerPcs, workFrame, frame
<1>9. CASE SetCompleted(c)
  <2>1. SetStatus(Base(c), "completed", "none") \in Records /\ job[c] \in Jobs
    BY <1>9, <1>a, <1>b, RecordOperators DEF SetCompleted, Statuses, Terminal, Errors
  <2> QED
    BY <1>9, <2>1, SaveType
       DEF SetCompleted, Goto, TypeOK, HandlerPcs, WorkerPcs, workFrame, frame, workVars
<1>10. CASE SetFailed(c)
  <2>1. SetStatus(Base(c), "failed", "run") \in Records /\ job[c] \in Jobs
    BY <1>10, <1>a, <1>b, RecordOperators DEF SetFailed, Statuses, Terminal, Errors
  <2> QED
    BY <1>10, <2>1, SaveType
       DEF SetFailed, Goto, TypeOK, HandlerPcs, WorkerPcs, workFrame, frame, workVars
<1>11. CASE Note(c)
  <2>1. Base(c) \in Records /\ job[c] \in Jobs
    BY <1>11, <1>a, <1>b DEF Note
  <2>2. \E l \in {"body", "finish", "raised"} : Goto(c, l)
    BY <1>11 DEF Note
  <2> QED
    BY <1>11, <2>1, <2>2, SaveType
       DEF Note, Goto, TypeOK, HandlerPcs, WorkerPcs, workFrame, frame, workVars
<1>12. CASE WorkerKeyError(c)
  <2>1. job[c] \in Jobs
    BY <1>12, <1>a DEF WorkerKeyError, UpdatingPcs
  <2>2. CASE pc[c] = "fallback"
    BY <1>12, <2>1, <2>2, GotoOrEndType DEF WorkerKeyError, TypeOK, WorkerPcs, workFrame, frame
  <2>3. CASE pc[c] # "fallback"
    <3>1. \E l \in {"set_failed", "raised"} : Goto(c, l)
      BY <1>12, <2>3 DEF WorkerKeyError
    <3> QED
      BY <1>12, <2>1, <2>3, <3>1
         DEF WorkerKeyError, Goto, TypeOK, HandlerPcs, WorkerPcs, workFrame, frame
  <2> QED
    BY <2>2, <2>3
<1>13. CASE RetryAttempt(c)
  BY <1>13, <1>a, ConstantsAssumption
     DEF RetryAttempt, MayRetry, Goto, TypeOK, HandlerPcs, WorkerPcs, workFrame, frame
<1>14. CASE Raised(c)
  <2>1. \E l \in {"ended", "recheck", "fallback"} : GotoOrEnd(c, l)
    BY <1>14 DEF Raised
  <2>2. audit' \in [Calls -> SUBSET AuditEvents]
    BY <1>14 DEF Raised, Post, AuditEvents, TypeOK
  <2> QED
    BY <1>14, <1>a, <2>1, <2>2, GotoOrEndType DEF Raised, TypeOK, WorkerPcs, workFrame, frame
<1>15. CASE Recheck(c)
  <2>1. \E l \in {"ended", "fallback"} : GotoOrEnd(c, l)
    BY <1>15 DEF Recheck
  <2> QED
    BY <1>15, <1>a, <2>1, GotoOrEndType DEF Recheck, TypeOK, WorkerPcs, workFrame, frame
<1>16. CASE Fallback(c)
  <2>1. SetStatus(Base(c), "failed", "run") \in Records /\ job[c] \in Jobs
    BY <1>16, <1>a, <1>b, RecordOperators DEF Fallback, Statuses, Terminal, Errors
  <2> QED
    BY <1>16, <2>1, SaveType
       DEF Fallback, Goto, TypeOK, HandlerPcs, WorkerPcs, workFrame, frame, workVars
<1>17. CASE Report(c)
  <2>1. audit' \in [Calls -> SUBSET AuditEvents]
    BY <1>17 DEF Report, Post, AuditEvents, TypeOK
  <2> QED
    BY <1>17, <1>a, <2>1, GotoOrEndType DEF Report, TypeOK, WorkerPcs, workFrame, frame
<1>18. CASE Finish(c)
  <2>1. audit' \in [Calls -> SUBSET AuditEvents]
    BY <1>18 DEF Finish, Post, AuditEvents, TypeOK
  <2> QED
    BY <1>18, <1>a, <2>1, GotoOrEndType DEF Finish, TypeOK, WorkerPcs, workFrame, frame
<1> QED
  BY <1>1, <1>2, <1>3, <1>4, <1>5, <1>6, <1>7, <1>8, <1>9, <1>10, <1>11, <1>12,
     <1>13, <1>14, <1>15, <1>16, <1>17, <1>18 DEF WorkerStep

LEMMA StopType ==
  ASSUME TypeOK, Stop
  PROVE  TypeOK'
<1> USE ProcsSplit
<1>1. ASSUME NEW h \in Handlers, HandlerDies(h)
      PROVE  TypeOK'
  <2>1. Blank \in Records
    BY RecordOperators
  <2> QED
    BY <1>1, <2>1 DEF HandlerDies, Respond, TypeOK, HandlerPcs, WorkerPcs, frame, workVars
<1>2. ASSUME NEW c \in Calls, WorkerDies(c)
      PROVE  TypeOK'
  <2>1. Blank \in Records
    BY RecordOperators
  <2>2. job[c] \in Jobs
    BY <1>2 DEF WorkerDies, TypeOK, WorkerPcs
  <2> QED
    BY <1>2, <2>1, <2>2, GotoOrEndType DEF WorkerDies, TypeOK, WorkerPcs, workFrame, frame
<1> QED
  BY <1>1, <1>2 DEF Stop

(***************************************************************************)
(* Every reachable state is well typed: each request and each worker is at *)
(* a line of its own code, works on a job exactly when it is at work, and  *)
(* a worker never counts more retries than the limit.                      *)
(***************************************************************************)
THEOREM TypeCorrect == Spec => []TypeOK
<1>1. TypeOK /\ [Next]_vars => TypeOK'
  <2> SUFFICES ASSUME TypeOK, [Next]_vars PROVE TypeOK'
    OBVIOUS
  <2>1. ASSUME NEW h \in Handlers, Request(h) \/ HandlerStep(h)
        PROVE  TypeOK'
    BY <2>1, RequestType, HandlerType
  <2>2. ASSUME NEW c \in Calls, WorkerStep(c)
        PROVE  TypeOK'
    BY <2>2, WorkerType
  <2>3. CASE Stop
    BY <2>3, StopType
  <2>4. CASE UNCHANGED vars
    BY <2>4 DEF vars, TypeOK
  <2> QED
    BY <2>1, <2>2, <2>3, <2>4 DEF Next
<1> QED
  BY <1>1, TypeInit, PTL DEF Spec

-----------------------------------------------------------------------------

\* a payload in flight belongs to an update_job of the job it was read from
Snapshots ==
  \A p \in Procs :
    \/ snap[p] = Blank
    \/ /\ snap[p].status # "absent"
       /\ pc[p] \in UpdatingPcs
       /\ snap[p].type = store[job[p]].type

IdsInUse ==
  /\ \A p \in Procs : job[p] # NoJob => job[p] \in used
  /\ \A j \in Jobs : Present(j) => j \in used

RecordsAgree ==
  /\ ErrorFieldsMatch
  /\ \A p \in Procs : ErrorsAgree(snap[p])

\* only an approved fine-tune carries an approval, in the store or in flight
Approvals ==
  /\ \A j \in Jobs : store[j].approved => j \in granted /\ store[j].type = "finetune"
  /\ \A p \in Procs : snap[p].approved => job[p] \in granted /\ snap[p].type = "finetune"

\* a call id is stored or in flight only with the job it was spawned for
OwnCalls ==
  /\ \A j \in Jobs : store[j].call # NoCall => job[store[j].call] = j
  /\ \A p \in Procs : snap[p].call # NoCall => job[snap[p].call] = job[p]

RecordsInv == Snapshots /\ IdsInUse /\ RecordsAgree /\ Approvals /\ OwnCalls

\* an approve request that passed its checks
Approving ==
  \A h \in Handlers : pc[h] = "set_approved" =>
    job[h] \in granted /\ store[job[h]].type = "finetune"

\* the call id a request is about to store
Handles ==
  \A h \in Handlers : handle[h] # NoCall => pc[h] = "set_call" /\ job[handle[h]] = job[h]

\* a job about to be dispatched has no worker yet, and no second dispatcher
Dispatches ==
  \A h \in Handlers : pc[h] = "dispatch" /\ store[job[h]].type # "finetune" =>
    /\ \A c \in Calls : job[c] # job[h]
    /\ \A g \in Handlers : g # h /\ pc[g] = "dispatch" => job[g] # job[h]

RequestsInv == Approving /\ Handles /\ Dispatches /\ OneCallPerJob

Trainings ==
  /\ TrainNeedsApproval
  /\ \A c \in Calls : pc[c] = "note" => Type(c) # "finetune"

SafetyInv == TypeOK /\ RecordsInv /\ RequestsInv /\ Trainings

-----------------------------------------------------------------------------
(***************************************************************************)
(* What a step does to the store and the payloads in flight.               *)
(***************************************************************************)
\* nothing is written, and p holds no payload afterwards
Lets(p) ==
  /\ UNCHANGED store
  /\ snap' = [snap EXCEPT ![p] = Blank]

Rewrites(c) == {Base(c), SetStatus(Base(c), "running", "none"),
                SetStatus(Base(c), "completed", "none"), SetStatus(Base(c), "failed", "run")}

LEMMA WorkerEffect ==
  ASSUME TypeOK, Snapshots, NEW c \in Calls, WorkerStep(c) \/ WorkerDies(c)
  PROVE  /\ UNCHANGED <<used, granted, doomed, handle, job>>
         /\ \A p \in Procs : p # c => pc'[p] = pc[p]
         /\ \/ Lets(c) \/ Fetch(c)
            \/ job[c] \in Jobs /\ \E rec \in Rewrites(c) : Save(c, rec)
<1> USE ProcsSplit
<1>a. pc[c] \notin UpdatingPcs => snap[c] = Blank
  BY DEF Snapshots
<1>b. snap[c] = Blank /\ UNCHANGED <<store, snap>> => Lets(c)
  BY DEF TypeOK, Lets
<1>c. Missing(c) => snap[c] = Blank
  BY DEF Missing, Snapshots
<1>1. CASE Fetch(c)
  BY <1>1 DEF Fetch, frame
<1>2. CASE \/ StartJob(c) \/ GateFinetune(c) \/ GateAutomation(c) \/ EnterSingle(c)
           \/ HandlerGone(c) \/ Body(c)
  <2>1. /\ UNCHANGED <<used, granted, doomed, handle, job, store, snap>>
        /\ pc[c] \in {"spawned", "handler", "body"}
        /\ \E l \in WorkerPcs : pc' = [pc EXCEPT ![c] = l]
    BY <1>2 DEF StartJob, GateFinetune, GateAutomation, EnterSingle, HandlerGone, Body,
                RunOrSkip, GotoOrEnd, Goto, workFrame, frame, WorkerPcs
  <2> QED
    BY <2>1, <1>a, <1>b DEF UpdatingPcs, TypeOK
<1>3. CASE RetryAttempt(c) \/ Raised(c) \/ Recheck(c) \/ Report(c) \/ Finish(c)
  <2>1. /\ UNCHANGED <<used, granted, doomed, handle, job, store, snap>>
        /\ pc[c] \in {"raised", "recheck", "report", "finish"}
        /\ \E l \in WorkerPcs : pc' = [pc EXCEPT ![c] = l]
    BY <1>3 DEF RetryAttempt, Raised, Recheck, Report, Finish,
                GotoOrEnd, Goto, workFrame, frame, WorkerPcs
  <2> QED
    BY <2>1, <1>a, <1>b DEF UpdatingPcs, TypeOK
<1>4. CASE WorkerKeyError(c)
  <2>1. /\ UNCHANGED <<used, granted, doomed, handle, job, store, snap>>
        /\ Missing(c)
        /\ \E l \in WorkerPcs : pc' = [pc EXCEPT ![c] = l]
    BY <1>4 DEF WorkerKeyError, GotoOrEnd, Goto, workFrame, frame, WorkerPcs
  <2> QED
    BY <2>1, <1>b, <1>c DEF TypeOK
<1>5. CASE SetRunning(c) \/ SetCompleted(c) \/ SetFailed(c) \/ Note(c) \/ Fallback(c)
  <2>1. /\ UNCHANGED <<used, granted, doomed, handle, job>>
        /\ job[c] \in Jobs /\ \E rec \in Rewrites(c) : Save(c, rec)
        /\ \E l \in WorkerPcs : pc' = [pc EXCEPT ![c] = l]
    BY <1>5 DEF SetRunning, SetCompleted, SetFailed, Note, Fallback, Rewrites,
                Goto, workFrame, frame, TypeOK, WorkerPcs
  <2> QED
    BY <2>1 DEF TypeOK
<1>6. CASE WorkerDies(c)
  BY <1>6 DEF WorkerDies, GotoOrEnd, Goto, workFrame, frame, Lets, TypeOK
<1> QED
  BY <1>1, <1>2, <1>3, <1>4, <1>5, <1>6 DEF WorkerStep

(***************************************************************************)
(* A payload that is put back still belongs to its job: type, approval and *)
(* call are those the store agrees with, and its error fields are right.   *)
(***************************************************************************)
LEMMA BaseSafe ==
  ASSUME SafetyInv, NEW p \in Procs, job[p] \in Jobs, Base(p).status # "absent"
  PROVE  /\ Base(p) \in Records
         /\ Base(p).type = store[job[p]].type
         /\ Base(p).approved => job[p] \in granted /\ Base(p).type = "finetune"
         /\ Base(p).call # NoCall => job[Base(p).call] = job[p]
         /\ ErrorsAgree(Base(p))
<1>1. Base(p) \in Records
  BY BaseIsRecord DEF SafetyInv
<1>2. CASE Base(p) = store[job[p]]
  BY <1>1, <1>2 DEF SafetyInv, RecordsInv, RecordsAgree, ErrorFieldsMatch, Approvals, OwnCalls
<1>3. CASE Base(p) = snap[p]
  <2>1. snap[p].type = store[job[p]].type
    BY <1>3 DEF SafetyInv, RecordsInv, Snapshots, Blank
  <2> QED
    BY <1>1, <1>3, <2>1 DEF SafetyInv, RecordsInv, RecordsAgree, Approvals, OwnCalls
<1> QED
  BY <1>2, <1>3 DEF Base

LEMMA StatusErrorsAgree ==
  ASSUME NEW r \in Records, ErrorsAgree(r)
  PROVE  /\ ErrorsAgree(SetStatus(r, "running", "none"))
         /\ ErrorsAgree(SetStatus(r, "completed", "none"))
         /\ ErrorsAgree(SetStatus(r, "cancelled", "none"))
         /\ ErrorsAgree(SetStatus(r, "failed", "run"))
         /\ ErrorsAgree(SetStatus(r, "failed", "spawn"))
BY DEF ErrorsAgree, SetStatus, Records

LEMMA StatusKeeps ==
  ASSUME NEW r \in Records, NEW s \in Statuses, NEW e \in Errors
  PROVE  /\ SetStatus(r, s, e).type = r.type
         /\ SetStatus(r, s, e).approved = r.approved
         /\ SetStatus(r, s, e).call = r.call
BY DEF SetStatus, Records

(***************************************************************************)
(* So a Save of a record that keeps the type of its base, whose approval   *)
(* was granted, whose call is the job's and whose error fields agree,      *)
(* preserves what is said of the records.                                  *)
(***************************************************************************)
LEMMA SaveSafe ==
  ASSUME SafetyInv, NEW p \in Procs, job[p] \in Jobs, NEW rec \in Records, Save(p, rec),
         UNCHANGED <<used, granted>>,
         \A q \in Procs : q # p => pc'[q] = pc[q] /\ job'[q] = job[q],
         job'[p] = job[p] \/ (p \in Handlers /\ job'[p] = NoJob),
         rec.type = Base(p).type,
         rec.approved => job[p] \in granted /\ store[job[p]].type = "finetune",
         rec.call # NoCall => job[rec.call] = job[p],
         ErrorsAgree(rec)
  PROVE  /\ RecordsInv'
         /\ \A j \in Jobs : store'[j].type = store[j].type
<1>1. Base(p).status # "absent" /\ store' = [store EXCEPT ![job[p]] = rec]
      /\ snap' = [snap EXCEPT ![p] = Blank]
  BY DEF Save
<1>2. /\ store \in [Jobs -> Records]
      /\ snap \in [Procs -> Records]
      /\ job \in [Procs -> Jobs \cup {NoJob}]
  BY DEF SafetyInv, TypeOK
<1>3. \A j \in Jobs : store'[j].type = store[j].type
  BY <1>1, <1>2, BaseSafe
<1>4. Snapshots'
  <2> SUFFICES ASSUME NEW q \in Procs
               PROVE  \/ snap'[q] = Blank
                      \/ /\ snap'[q].status # "absent"
                         /\ pc'[q] \in UpdatingPcs
                         /\ snap'[q].type = store'[job'[q]].type
    BY DEF Snapshots, UpdatingPcs
  <2>1. CASE q = p
    BY <1>1, <1>2, <2>1
  <2>2. CASE q # p
    <3>1. pc[q] \in UpdatingPcs => job[q] \in Jobs
      BY DEF SafetyInv, TypeOK, UpdatingPcs
    <3> QED
      BY <1>1, <1>2, <1>3, <2>2, <3>1 DEF SafetyInv, RecordsInv, Snapshots
  <2> QED
    BY <2>1, <2>2
<1>5. IdsInUse'
  BY <1>1, <1>2, ProcsSplit DEF SafetyInv, RecordsInv, IdsInUse, Present
<1>6. RecordsAgree'
  BY <1>1, <1>2 DEF SafetyInv, RecordsInv, RecordsAgree, ErrorFieldsMatch, ErrorsAgree, Blank
<1>7. Approvals'
  BY <1>1, <1>2, <1>3, BaseSafe DEF SafetyInv, RecordsInv, Approvals, Blank
<1>8. OwnCalls'
  <2>1. \A c \in Calls : job'[c] = job[c]
    BY ProcsSplit
  <2>2. /\ \A j \in Jobs : store'[j].call \in Calls \cup {NoCall}
        /\ \A q \in Procs : snap[q].call \in Calls \cup {NoCall}
    BY <1>1, <1>2 DEF Records
  <2> QED
    BY <1>1, <1>2, <2>1, <2>2 DEF SafetyInv, RecordsInv, OwnCalls, Blank
<1> QED
  BY <1>3, <1>4, <1>5, <1>6, <1>7, <1>8 DEF RecordsInv

-----------------------------------------------------------------------------
(***************************************************************************)
(* Steps of the workers.                                                   *)
(***************************************************************************)
\* what the step leaves alone is enough for the parts about requests
LEMMA WorkerKeepsRequests ==
  ASSUME SafetyInv, NEW c \in Calls,
         UNCHANGED <<used, granted, handle, job>>,
         \A p \in Procs : p # c => pc'[p] = pc[p],
         \A j \in Jobs : store'[j].type = store[j].type
  PROVE  RequestsInv'
<1> USE ProcsSplit
<1>1. \A h \in Handlers : pc'[h] = pc[h]
  OBVIOUS
<1>2. \A h \in Handlers : pc[h] \in {"dispatch", "set_approved"} => job[h] \in Jobs
  BY DEF SafetyInv, TypeOK
<1>3. \A d \in Calls : job[d] # NoJob => job[d] \in Jobs
  BY DEF SafetyInv, TypeOK
<1>4. Dispatches'
  BY <1>1, <1>2 DEF SafetyInv, RequestsInv, Dispatches
<1>5. OneCallPerJob'
  BY <1>3 DEF SafetyInv, RequestsInv, OneCallPerJob, Type, Record
<1>6. Approving' /\ Handles'
  BY <1>1, <1>2 DEF SafetyInv, RequestsInv, Approving, Handles
<1> QED
  BY <1>4, <1>5, <1>6 DEF RequestsInv

LEMMA WorkerTrains ==
  ASSUME SafetyInv, NEW c \in Calls, WorkerStep(c) \/ WorkerDies(c)
  PROVE  /\ pc'[c] \in {"set_running", "body"} /\ Type(c) = "finetune" => job[c] \in granted
         /\ pc'[c] = "note" => Type(c) # "finetune"
<1> USE ProcsSplit
<1>a. pc \in [Procs -> HandlerPcs \cup WorkerPcs]
  BY DEF SafetyInv, TypeOK
<1>b. /\ Training(c) => job[c] \in granted
      /\ pc[c] = "note" => Type(c) # "finetune"
  BY DEF SafetyInv, Trainings, TrainNeedsApproval
<1>c. pc[c] \in UpdatingPcs /\ Base(c).status # "absent" => Base(c).type = Type(c)
  <2>1. pc[c] \in UpdatingPcs => job[c] \in Jobs
    BY DEF SafetyInv, TypeOK, UpdatingPcs
  <2> QED
    BY <2>1, BaseSafe DEF Type, Record
<1>1. CASE Fetch(c)
  BY <1>1, <1>b DEF Fetch, Training
<1>2. CASE GateFinetune(c)
  <2>1. job[c] \in Jobs
    BY <1>2, <1>a DEF GateFinetune, SafetyInv, TypeOK
  <2>2. pc'[c] = "set_running" => Record(c).approved
    BY <1>2, <1>a DEF GateFinetune, RunOrSkip, Goto, DecideTrainStart
  <2>3. pc'[c] \in {"set_running", "set_completed"}
    BY <1>2, <1>a DEF GateFinetune, RunOrSkip, Goto
  <2> QED
    BY <2>1, <2>2, <2>3 DEF SafetyInv, RecordsInv, Approvals, Record
<1>3. CASE GateAutomation(c)
  BY <1>3, <1>a DEF GateAutomation, RunOrSkip, Goto
<1>4. CASE EnterSingle(c)
  BY <1>4, <1>a DEF EnterSingle, Goto
<1>5. CASE SetRunning(c)
  BY <1>5, <1>a, <1>b, <1>c DEF SetRunning, Save, Goto, Training, UpdatingPcs
<1>6. CASE SetCompleted(c)
  BY <1>6, <1>a, <1>c DEF SetCompleted, Save, Goto, UpdatingPcs
<1>7. CASE SetFailed(c)
  BY <1>7, <1>a, <1>c DEF SetFailed, Save, Goto, UpdatingPcs
<1>8. CASE Note(c)
  <2>1. pc'[c] \in {"body", "finish", "raised"}
    BY <1>8, <1>a DEF Note, Goto
  <2> QED
    BY <1>8, <1>b, <2>1 DEF Note
<1>9. CASE \/ StartJob(c) \/ HandlerGone(c) \/ Body(c) \/ WorkerKeyError(c) \/ RetryAttempt(c)
           \/ Raised(c) \/ Recheck(c) \/ Fallback(c) \/ Report(c) \/ Finish(c) \/ WorkerDies(c)
  <2>1. pc'[c] \notin {"set_running", "body", "note"}
    BY <1>9, <1>a DEF StartJob, HandlerGone, Body, WorkerKeyError, RetryAttempt, Raised,
                      Recheck, Fallback, Report, Finish, WorkerDies, GotoOrEnd, Goto
  <2> QED
    BY <2>1
<1> QED
  BY <1>1, <1>2, <1>3, <1>4, <1>5, <1>6, <1>7, <1>8, <1>9 DEF WorkerStep

LEMMA LetsSafe ==
  ASSUME SafetyInv, NEW p \in Procs, Lets(p), UNCHANGED <<used, granted>>,
         \A q \in Procs : q # p => pc'[q] = pc[q] /\ job'[q] = job[q],
         job'[p] = job[p] \/ (p \in Handlers /\ job'[p] = NoJob)
  PROVE  RecordsInv'
<1>1. /\ store' = store
      /\ snap' = [snap EXCEPT ![p] = Blank]
      /\ snap \in [Procs -> Records]
  BY DEF Lets, SafetyInv, TypeOK
<1>2. ErrorsAgree(Blank) /\ ~Blank.approved /\ Blank.call = NoCall
  BY DEF Blank, ErrorsAgree
<1>3. Snapshots'
  BY <1>1 DEF SafetyInv, RecordsInv, Snapshots
<1>4. IdsInUse' /\ RecordsAgree'
  BY <1>1, <1>2
     DEF SafetyInv, RecordsInv, IdsInUse, Present, RecordsAgree, ErrorFieldsMatch, ErrorsAgree
<1>5. Approvals'
  BY <1>1, <1>2 DEF SafetyInv, RecordsInv, Approvals
<1>6. OwnCalls'
  <2>1. \A c \in Calls : job'[c] = job[c]
    BY ProcsSplit
  <2>2. /\ \A j \in Jobs : store[j].call \in Calls \cup {NoCall}
        /\ \A q \in Procs : snap[q].call \in Calls \cup {NoCall}
    BY DEF SafetyInv, TypeOK, Records
  <2> QED
    BY <1>1, <1>2, <2>1, <2>2 DEF SafetyInv, RecordsInv, OwnCalls
<1> QED
  BY <1>3, <1>4, <1>5, <1>6 DEF RecordsInv

LEMMA FetchSafe ==
  ASSUME SafetyInv, NEW p \in Procs, Fetch(p), job' = job
  PROVE  RecordsInv'
<1>1. /\ snap' = [snap EXCEPT ![p] = store[job[p]]]
      /\ UNCHANGED <<store, pc, used, granted>>
      /\ store[job[p]].status # "absent"
      /\ pc[p] \in UpdatingPcs
  BY DEF Fetch, Present, frame
<1>2. /\ job[p] \in Jobs
      /\ snap \in [Procs -> Records]
  BY <1>1 DEF SafetyInv, TypeOK, UpdatingPcs
<1>3. Snapshots'
  BY <1>1, <1>2 DEF SafetyInv, RecordsInv, Snapshots
<1>4. IdsInUse' /\ RecordsAgree'
  BY <1>1, <1>2
     DEF SafetyInv, RecordsInv, IdsInUse, Present, RecordsAgree, ErrorFieldsMatch, ErrorsAgree
<1>5. Approvals' /\ OwnCalls'
  BY <1>1, <1>2 DEF SafetyInv, RecordsInv, Approvals, OwnCalls
<1> QED
  BY <1>3, <1>4, <1>5 DEF RecordsInv

LEMMA RewriteKeeps ==
  ASSUME NEW r \in Records, ErrorsAgree(r),
         NEW rec \in {r, SetStatus(r, "running", "none"),
                      SetStatus(r, "completed", "none"), SetStatus(r, "failed", "run")}
  PROVE  /\ rec \in Records
         /\ rec.type = r.type /\ rec.approved = r.approved /\ rec.call = r.call
         /\ ErrorsAgree(rec)
<1>1. CASE rec = r
  BY <1>1
<1>2. CASE rec = SetStatus(r, "running", "none")
  <2>1. rec \in Records
    BY <1>2, RecordOperators DEF Statuses, Terminal, Errors
  <2> QED
    BY <1>2, <2>1, StatusKeeps, StatusErrorsAgree DEF Statuses, Terminal, Errors
<1>3. CASE rec = SetStatus(r, "completed", "none")
  <2>1. rec \in Records
    BY <1>3, RecordOperators DEF Statuses, Terminal, Errors
  <2> QED
    BY <1>3, <2>1, StatusKeeps, StatusErrorsAgree DEF Statuses, Terminal, Errors
<1>4. CASE rec = SetStatus(r, "failed", "run")
  <2>1. rec \in Records
    BY <1>4, RecordOperators DEF Statuses, Terminal, Errors
  <2> QED
    BY <1>4, <2>1, StatusKeeps, StatusErrorsAgree DEF Statuses, Terminal, Errors
<1> QED
  BY <1>1, <1>2, <1>3, <1>4

LEMMA WorkerRecords ==
  ASSUME SafetyInv, NEW c \in Calls, WorkerStep(c) \/ WorkerDies(c)
  PROVE  RecordsInv' /\ \A j \in Jobs : store'[j].type = store[j].type
<1> USE ProcsSplit
<1>1. /\ UNCHANGED <<used, granted, doomed, handle, job>>
      /\ \A p \in Procs : p # c => pc'[p] = pc[p]
      /\ \/ Lets(c) \/ Fetch(c)
         \/ job[c] \in Jobs /\ \E rec \in Rewrites(c) : Save(c, rec)
  BY WorkerEffect DEF SafetyInv, RecordsInv
<1>2. CASE Lets(c)
  BY <1>1, <1>2, LetsSafe DEF Lets
<1>3. CASE Fetch(c)
  BY <1>1, <1>3, FetchSafe DEF Fetch
<1>4. ASSUME job[c] \in Jobs, NEW rec \in Rewrites(c), Save(c, rec)
      PROVE  RecordsInv' /\ \A j \in Jobs : store'[j].type = store[j].type
  <2>1. Base(c) \in Records /\ ErrorsAgree(Base(c))
    BY <1>4, BaseSafe DEF Save
  <2>2. /\ rec \in Records
        /\ rec.type = Base(c).type /\ rec.approved = Base(c).approved
        /\ rec.call = Base(c).call /\ ErrorsAgree(rec)
    BY <2>1, RewriteKeeps DEF Rewrites
  <2>3. /\ rec.approved => job[c] \in granted /\ store[job[c]].type = "finetune"
        /\ rec.call # NoCall => job[rec.call] = job[c]
    BY <1>4, <2>2, BaseSafe DEF Save
  <2> QED
    BY <1>1, <1>4, <2>2, <2>3, SaveSafe
<1> QED
  BY <1>1, <1>2, <1>3, <1>4

LEMMA WorkerSafe ==
  ASSUME SafetyInv, NEW c \in Calls, WorkerStep(c) \/ WorkerDies(c)
  PROVE  SafetyInv'
<1> USE ProcsSplit
<1>1. TypeOK'
  BY WorkerType, StopType DEF SafetyInv, Stop
<1>2. /\ UNCHANGED <<used, granted, doomed, handle, job>>
      /\ \A p \in Procs : p # c => pc'[p] = pc[p]
      /\ \/ Lets(c) \/ Fetch(c)
         \/ job[c] \in Jobs /\ \E rec \in Rewrites(c) : Save(c, rec)
  BY WorkerEffect DEF SafetyInv, RecordsInv
<1>3. RecordsInv' /\ \A j \in Jobs : store'[j].type = store[j].type
  BY WorkerRecords
<1>4. Trainings'
  <2>1. \A d \in Calls : job[d] # NoJob => job[d] \in Jobs
    BY DEF SafetyInv, TypeOK
  <2>2. \A d \in Calls : pc'[d] # "unspawned" => job[d] \in Jobs
    BY <1>1, <1>2 DEF TypeOK, WorkerPcs
  <2>3. \A d \in Calls : pc'[d] # "unspawned" => Type(d)' = Type(d)
    BY <1>2, <1>3, <2>2 DEF Type, Record
  <2> QED
    BY <1>2, <2>3, WorkerTrains DEF SafetyInv, Trainings, TrainNeedsApproval, Training
<1>5. RequestsInv'
  BY <1>2, <1>3, WorkerKeepsRequests
<1> QED
  BY <1>1, <1>3, <1>4, <1>5 DEF SafetyInv

-----------------------------------------------------------------------------
(***************************************************************************)
(* Steps of the requests.                                                  *)
(***************************************************************************)
\* no worker is touched: what is said of the workers stays true
LEMMA RequestsKeepTrainings ==
  ASSUME SafetyInv,
         granted \subseteq granted',
         \A c \in Calls : pc[c] # "unspawned" => pc'[c] = pc[c] /\ job'[c] = job[c],
         \A c \in Calls : pc[c] = "unspawned" => pc'[c] \in {"unspawned", "spawned"},
         \A c \in Calls : job[c] # NoJob => store'[job[c]].type = store[job[c]].type
  PROVE  Trainings'
<1>1. \A c \in Calls : pc[c] # "unspawned" => job[c] # NoJob
  BY ProcsSplit DEF SafetyInv, TypeOK, WorkerPcs
<1>2. \A c \in Calls : pc[c] # "unspawned" => Type(c)' = Type(c)
  BY <1>1 DEF Type, Record
<1> QED
  BY <1>2 DEF SafetyInv, Trainings, TrainNeedsApproval, Training

LEMMA EnqueueSafe ==
  ASSUME SafetyInv, NEW h \in Handlers, NEW j \in Jobs, NEW rec \in Records,
         Enqueue(h, j, rec), rec.status = "pending", rec.error = "none",
         ~rec.approved, rec.call = NoCall
  PROVE  SafetyInv'
<1> USE ProcsSplit
<1>1. TypeOK'
  BY EnqueueType DEF SafetyInv
<1>2. /\ store' = [store EXCEPT ![j] = rec]
      /\ used' = used \cup {j} /\ j \notin used
      /\ UNCHANGED <<snap, handle, granted>>
      /\ pc[h] = "idle" /\ job[h] = NoJob
      /\ \/ UNCHANGED <<pc, job>> /\ rec.type = "finetune"
         \/ /\ rec.type # "finetune"
            /\ pc' = [pc EXCEPT ![h] = "dispatch"]
            /\ job' = [job EXCEPT ![h] = j]
  BY DEF Enqueue, Accept, SafetyInv, TypeOK
<1>3. /\ store \in [Jobs -> Records]
      /\ snap \in [Procs -> Records]
      /\ job \in [Procs -> Jobs \cup {NoJob}]
      /\ pc \in [Procs -> HandlerPcs \cup WorkerPcs]
  BY DEF SafetyInv, TypeOK
<1>4. \A p \in Procs : job[p] # NoJob =>
        /\ job[p] \in Jobs /\ job[p] # j
        /\ job'[p] = job[p] /\ pc'[p] = pc[p]
        /\ store'[job[p]] = store[job[p]]
  BY <1>2, <1>3 DEF SafetyInv, RecordsInv, IdsInUse
<1>5. \A p \in Procs : pc[p] \in UpdatingPcs => job[p] # NoJob
  BY DEF SafetyInv, TypeOK, UpdatingPcs
<1>6. \A p \in Procs : p # h => pc'[p] = pc[p] /\ job'[p] = job[p]
  BY <1>2, <1>3
<1>7. snap[h] = Blank /\ handle[h] = NoCall
  BY <1>2 DEF SafetyInv, RecordsInv, RequestsInv, Snapshots, Handles, UpdatingPcs
<1>8. Snapshots'
  BY <1>2, <1>4, <1>5 DEF SafetyInv, RecordsInv, Snapshots
<1>9. IdsInUse'
  BY <1>2, <1>3 DEF SafetyInv, RecordsInv, IdsInUse, Present
<1>10. RecordsAgree'
  BY <1>2, <1>3 DEF SafetyInv, RecordsInv, RecordsAgree, ErrorFieldsMatch, ErrorsAgree
<1>11. Approvals'
  BY <1>2, <1>3, <1>6, <1>7 DEF SafetyInv, RecordsInv, Approvals, Blank
<1>12. OwnCalls'
  <2>1. \A i \in Jobs : store'[i].call # NoCall => store'[i].call \in Calls /\ i # j
    BY <1>2, <1>3 DEF Records
  <2>2. \A p \in Procs : snap[p].call # NoCall => snap[p].call \in Calls
    BY <1>3 DEF Records
  <2> QED
    BY <1>2, <1>3, <1>6, <1>7, <2>1, <2>2 DEF SafetyInv, RecordsInv, OwnCalls, Blank
<1>13. RequestsInv'
  <2>1. Approving' /\ Handles'
    <3>1. \A g \in Handlers : handle[g] # NoCall => handle[g] \in Calls
      BY DEF SafetyInv, TypeOK
    <3>2. \A g \in Handlers : pc'[g] \in {"set_approved", "set_call"} => pc'[g] = pc[g] /\ job[g] # NoJob
      BY <1>2, <1>3, <1>6 DEF SafetyInv, TypeOK
    <3> QED
      BY <1>2, <1>4, <1>6, <1>7, <3>1, <3>2 DEF SafetyInv, RequestsInv, Approving, Handles
  <2>2. Dispatches'
    <3>1. \A g \in Handlers : pc[g] = "dispatch" => job[g] # NoJob
      BY DEF SafetyInv, TypeOK
    <3>2. \A c \in Calls : job'[c] = job[c] /\ job[c] # j
      BY <1>3, <1>4, <1>6
    <3> QED
      BY <1>2, <1>3, <1>4, <1>6, <3>1, <3>2 DEF SafetyInv, RequestsInv, Dispatches
  <2>3. OneCallPerJob'
    BY <1>4, <1>6 DEF SafetyInv, RequestsInv, OneCallPerJob, Type, Record
  <2> QED
    BY <2>1, <2>2, <2>3 DEF RequestsInv
<1>14. Trainings'
  <2>1. \A c \in Calls : pc'[c] = pc[c] /\ job'[c] = job[c]
    BY <1>6
  <2> QED
    BY <1>2, <1>4, <2>1, RequestsKeepTrainings
<1> QED
  BY <1>1, <1>8, <1>9, <1>10, <1>11, <1>12, <1>13, <1>14 DEF SafetyInv, RecordsInv

LEMMA RequestSafe ==
  ASSUME SafetyInv, NEW h \in Handlers, Request(h)
  PROVE  SafetyInv'
<1> USE ProcsSplit
<1>a. /\ store \in [Jobs -> Records]
      /\ snap \in [Procs -> Records]
      /\ job \in [Procs -> Jobs \cup {NoJob}]
      /\ pc \in [Procs -> HandlerPcs \cup WorkerPcs]
      /\ TypeOK'
  BY RequestType DEF SafetyInv, TypeOK
<1>b. pc[h] = "idle" => snap[h] = Blank /\ handle[h] = NoCall /\ job[h] = NoJob
  BY DEF SafetyInv, RecordsInv, RequestsInv, Snapshots, Handles, UpdatingPcs, TypeOK
<1>c. \A p \in Procs : pc[p] \notin {"idle", "unspawned"} => job[p] \in Jobs
  BY DEF SafetyInv, TypeOK
<1>1. ASSUME NEW j \in Submitted, NEW t \in JobTypes, CreateJob(h, j, t)
      PROVE  SafetyInv'
  <2>1. j \in Jobs /\ t \in AllTypes
    BY ConstantsAssumption
  <2>2. [Blank EXCEPT !.type = t, !.status = "pending"] \in Records
    BY <2>1, RecordOperators
  <2>3. LET rec == [Blank EXCEPT !.type = t, !.status = "pending"]
        IN  rec.status = "pending" /\ rec.error = "none" /\ ~rec.approved /\ rec.call = NoCall
    BY DEF Blank
  <2> QED
    BY <1>1, <2>1, <2>2, <2>3, EnqueueSafe DEF CreateJob
<1>2. ASSUME NEW old \in Jobs, NEW j \in Jobs \ Submitted, RetryJob(h, old, j)
      PROVE  SafetyInv'
  <2>1. store[old] \in Records /\ RetryRecord(store[old]) \in Records
    BY <1>a, RecordOperators
  <2>2. /\ RetryRecord(store[old]).status = "pending"
        /\ RetryRecord(store[old]).error = "none"
        /\ RetryRecord(store[old]).call = NoCall
        /\ RetryRecord(store[old]).approved => store[old].approved /\ store[old].type # "finetune"
    BY DEF RetryRecord, Blank
  <2>3. ~RetryRecord(store[old]).approved
    BY <2>2 DEF SafetyInv, RecordsInv, Approvals
  <2> QED
    BY <1>2, <2>1, <2>2, <2>3, EnqueueSafe DEF RetryJob
<1>3. ASSUME NEW j \in Jobs, CancelJob(h, j) \/ ApproveJob(h, j)
      PROVE  SafetyInv'
  <2>1. /\ UNCHANGED <<store, snap, handle, used>>
        /\ granted \subseteq granted'
        /\ pc[h] = "idle" /\ job' = [job EXCEPT ![h] = j]
        /\ Present(j)
        /\ \/ pc' = [pc EXCEPT ![h] = "set_cancelled"]
           \/ /\ pc' = [pc EXCEPT ![h] = "set_approved"]
              /\ j \in granted' /\ store[j].type = "finetune"
    BY <1>3 DEF CancelJob, ApproveJob, Accept, Present
  <2>2. j \in used
    BY <2>1 DEF SafetyInv, RecordsInv, IdsInUse
  <2>3. \A p \in Procs : p # h => pc'[p] = pc[p] /\ job'[p] = job[p]
    BY <1>a, <2>1
  <2>4. Snapshots' /\ IdsInUse' /\ RecordsAgree'
    BY <1>a, <1>b, <2>1, <2>2, <2>3
       DEF SafetyInv, RecordsInv, Snapshots, IdsInUse, Present, RecordsAgree, ErrorFieldsMatch, ErrorsAgree
  <2>5. Approvals' /\ OwnCalls'
    BY <1>a, <1>b, <2>1, <2>3 DEF SafetyInv, RecordsInv, Approvals, OwnCalls, Records, Blank
  <2>6. RequestsInv'
    BY <1>a, <1>b, <2>1, <2>3 DEF SafetyInv, RequestsInv, Approving, Handles, Dispatches,
       OneCallPerJob, Type, Record, TypeOK
  <2>7. Trainings'
    BY <2>1, <2>3, RequestsKeepTrainings
  <2> QED
    BY <1>a, <2>4, <2>5, <2>6, <2>7 DEF SafetyInv, RecordsInv
<1>4. ASSUME NEW j \in Jobs, DeleteJob(h, j)
      PROVE  SafetyInv'
  <2>1. /\ store' = [store EXCEPT ![j] = [Blank EXCEPT !.type = store[j].type]]
        /\ UNCHANGED <<pc, job, snap, handle, used, granted>>
    BY <1>4 DEF DeleteJob, frame
  <2>2. LET rec == [Blank EXCEPT !.type = store[j].type]
        IN  /\ rec.status = "absent" /\ rec.type = store[j].type
            /\ ~rec.approved /\ rec.call = NoCall
    BY DEF Blank
  <2>3. \A i \in Jobs : store'[i].type = store[i].type
    BY <1>a, <2>1, <2>2
  <2>4. Snapshots' /\ IdsInUse' /\ RecordsAgree'
    BY <1>a, <1>c, <2>1, <2>2, <2>3
       DEF SafetyInv, RecordsInv, Snapshots, IdsInUse, Present, RecordsAgree, ErrorFieldsMatch,
           ErrorsAgree, UpdatingPcs
  <2>5. Approvals' /\ OwnCalls'
    BY <1>a, <2>1, <2>2, <2>3 DEF SafetyInv, RecordsInv, Approvals, OwnCalls
  <2>6. RequestsInv'
    BY <1>a, <1>c, <2>1, <2>3 DEF SafetyInv, RequestsInv, Approving, Handles, Dispatches,
       OneCallPerJob, Type, Record
  <2>7. Trainings'
    BY <1>a, <2>1, <2>3, RequestsKeepTrainings
  <2> QED
    BY <1>a, <2>4, <2>5, <2>6, <2>7 DEF SafetyInv, RecordsInv
<1> QED
  BY <1>1, <1>2, <1>3, <1>4 DEF Request

-----------------------------------------------------------------------------
\* a request hands its job to a call that was not spawned
Hands(h, c) ==
  /\ pc[h] = "dispatch" /\ pc[c] = "unspawned"
  /\ UNCHANGED <<store, snap, used, granted>>
  /\ \A p \in Procs : p # h /\ p # c => pc'[p] = pc[p] /\ job'[p] = job[p]
  /\ pc'[h] \in {"set_call", "spawn_failed", "idle"} /\ job'[h] \in {job[h], NoJob}
  /\ pc'[c] = "spawned" /\ job'[c] = job[h]
  /\ \/ handle' = handle
     \/ pc'[h] = "set_call" /\ job'[h] = job[h] /\ handle' = [handle EXCEPT ![h] = c]

LEMMA HandsSafe ==
  ASSUME SafetyInv, NEW h \in Handlers, NEW c \in Calls, Hands(h, c), TypeOK'
  PROVE  SafetyInv'
<1> USE ProcsSplit
<1>1. /\ store \in [Jobs -> Records]
      /\ snap \in [Procs -> Records]
      /\ handle \in [Handlers -> Calls \cup {NoCall}]
      /\ \A p \in Procs : job[p] \in Jobs \cup {NoJob}
  BY DEF SafetyInv, TypeOK
<1>2. job[c] = NoJob /\ job[h] \in Jobs
  BY DEF SafetyInv, TypeOK, Hands
<1>3. snap[h] = Blank /\ snap[c] = Blank /\ handle[h] = NoCall
  BY DEF SafetyInv, RecordsInv, RequestsInv, Snapshots, Handles, Hands, UpdatingPcs
<1>4. \A d \in Calls : job[d] # NoJob => job'[d] = job[d]
  BY <1>2 DEF Hands
<1>5. Snapshots'
  BY <1>3 DEF Hands, SafetyInv, RecordsInv, Snapshots
<1>6. IdsInUse' /\ RecordsAgree'
  BY <1>2 DEF Hands, SafetyInv, RecordsInv, IdsInUse, RecordsAgree, ErrorFieldsMatch,
              ErrorsAgree, Present
<1>7. Approvals'
  BY <1>3 DEF Hands, SafetyInv, RecordsInv, Approvals, Blank
<1>8. OwnCalls'
  <2>1. \A j \in Jobs : store[j].call # NoCall => store[j].call \in Calls /\ job[store[j].call] = j
    BY <1>1 DEF Records, SafetyInv, RecordsInv, OwnCalls
  <2>2. \A p \in Procs : snap[p].call # NoCall =>
          /\ snap[p].call \in Calls /\ job[snap[p].call] = job[p]
          /\ p # h /\ p # c
    BY <1>1, <1>3 DEF Records, Blank, SafetyInv, RecordsInv, OwnCalls
  <2>3. \A p \in Procs : snap[p].call # NoCall => job[p] # NoJob
    <3>1. \A p \in Procs : snap[p].call # NoCall => pc[p] \in UpdatingPcs
      BY DEF SafetyInv, RecordsInv, Snapshots, Blank
    <3> QED
      BY <3>1 DEF SafetyInv, TypeOK, UpdatingPcs
  <2> QED
    BY <1>4, <2>1, <2>2, <2>3 DEF Hands, OwnCalls
<1>9. Approving' /\ Handles'
  <2>1. \A g \in Handlers : g # h /\ handle[g] # NoCall =>
          handle[g] \in Calls /\ job[g] # NoJob /\ job[handle[g]] = job[g]
    BY <1>1 DEF SafetyInv, RequestsInv, Handles, TypeOK
  <2> QED
    BY <1>1, <1>2, <1>3, <1>4, <2>1 DEF Hands, SafetyInv, RequestsInv, Approving, Handles
<1>10. Dispatches'
  BY <1>2 DEF Hands, SafetyInv, RequestsInv, Dispatches
<1>11. OneCallPerJob'
  BY <1>2 DEF Hands, SafetyInv, RequestsInv, Dispatches, OneCallPerJob, Type, Record
<1>12. Trainings'
  <2>1. \A d \in Calls : pc[d] # "unspawned" => d # c
    BY DEF Hands
  <2> QED
    BY <1>4, <2>1, RequestsKeepTrainings DEF Hands
<1> QED
  BY <1>5, <1>6, <1>7, <1>8, <1>9, <1>10, <1>11, <1>12 DEF SafetyInv, RecordsInv, RequestsInv

(***************************************************************************)
(* The other steps of a request change its own line and the record of its  *)
(* job only.                                                               *)
(***************************************************************************)
Alone(h) ==
  /\ UNCHANGED <<used, granted>>
  /\ \A p \in Procs : p # h => pc'[p] = pc[p] /\ job'[p] = job[p]
  /\ \A g \in Handlers : g # h => handle'[g] = handle[g]
  /\ \/ pc'[h] = pc[h] /\ job'[h] = job[h] /\ handle'[h] = handle[h]
     \/ pc'[h] \in {"spawn_failed", "dispatch"} /\ job'[h] = job[h] /\ handle'[h] = handle[h]
     \/ pc'[h] = "idle" /\ job'[h] = NoJob /\ handle'[h] = NoCall
  /\ pc'[h] = "dispatch" => pc[h] \in {"dispatch", "set_approved"}
  /\ pc'[h] = "set_approved" => pc[h] = "set_approved"
  /\ pc'[h] = "spawn_failed" => pc[h] \in {"spawn_failed", "dispatch"}
  /\ handle'[h] # NoCall => pc'[h] = pc[h]

LEMMA AloneSafe ==
  ASSUME SafetyInv, NEW h \in Handlers, Alone(h), TypeOK', RecordsInv',
         \A j \in Jobs : store'[j].type = store[j].type
  PROVE  SafetyInv'
<1> USE ProcsSplit
<1>1. \A p \in Procs : job[p] # NoJob => job[p] \in Jobs
  BY DEF SafetyInv, TypeOK
<1>2. \A c \in Calls : pc'[c] = pc[c] /\ job'[c] = job[c]
  BY DEF Alone
<1>3. \A g \in Handlers : pc'[g] \in {"dispatch", "set_approved"} => job[g] \in Jobs /\ job'[g] = job[g]
  BY DEF Alone, SafetyInv, TypeOK
<1>4. Approving'
  BY <1>3 DEF Alone, SafetyInv, RequestsInv, Approving
<1>5. Handles'
  BY <1>2 DEF Alone, SafetyInv, RequestsInv, Handles, TypeOK
<1>6. Dispatches'
  BY <1>2, <1>3 DEF Alone, SafetyInv, RequestsInv, Approving, Dispatches
<1>7. OneCallPerJob'
  BY <1>1, <1>2 DEF SafetyInv, RequestsInv, OneCallPerJob, Type, Record
<1>8. Trainings'
  BY <1>1, <1>2, RequestsKeepTrainings DEF Alone
<1> QED
  BY <1>4, <1>5, <1>6, <1>7, <1>8 DEF SafetyInv, RequestsInv

LEMMA HandlerSafe ==
  ASSUME SafetyInv, NEW h \in Handlers, HandlerStep(h) \/ HandlerDies(h)
  PROVE  SafetyInv'
<1> USE ProcsSplit
<1>a. TypeOK'
  BY HandlerType, StopType DEF SafetyInv, Stop
<1>b. /\ pc \in [Procs -> HandlerPcs \cup WorkerPcs]
      /\ job \in [Procs -> Jobs \cup {NoJob}]
      /\ handle \in [Handlers -> Calls \cup {NoCall}]
      /\ pc[h] # "idle" => job[h] \in Jobs
      /\ snap \in [Procs -> Records]
  BY DEF SafetyInv, TypeOK, HandlerPcs
<1>c. pc[h] # "set_call" => handle[h] = NoCall
  BY DEF SafetyInv, RequestsInv, Handles
<1>d. snap[h] = Blank \/ (pc[h] \in UpdatingPcs /\ snap[h].status # "absent")
  BY DEF SafetyInv, RecordsInv, Snapshots
<1>1. CASE Fetch(h)
  <2>1. Alone(h) /\ UNCHANGED <<store, job>>
    BY <1>1, <1>b DEF Fetch, Alone, frame
  <2> QED
    BY <1>a, <1>1, <2>1, FetchSafe, AloneSafe
<1>2. ASSUME NEW c \in Calls, Spawn(h, c) \/ SpawnReplyLost(h, c) \/ RunInBackground(h, c)
      PROVE  SafetyInv'
  <2>1. Hands(h, c)
    BY <1>2, <1>b DEF Spawn, SpawnReplyLost, RunInBackground, SpawnedCall, Hands, frame
  <2> QED
    BY <1>a, <2>1, HandsSafe
<1>3. CASE SpawnRaises(h) \/ HandlerKeyError(h) \/ HandlerDies(h)
  <2>1. Lets(h)
    BY <1>3, <1>b, <1>d DEF SpawnRaises, HandlerKeyError, HandlerDies, Missing, UpdatingPcs, Lets
  <2>2. Alone(h) /\ \A j \in Jobs : store'[j].type = store[j].type
    BY <1>3, <1>b, <1>c DEF SpawnRaises, HandlerKeyError, HandlerDies, Respond, Goto, Alone, frame
  <2>3. RecordsInv'
    BY <2>1, <2>2, LetsSafe DEF Alone
  <2> QED
    BY <1>a, <2>2, <2>3, AloneSafe
<1>4. ASSUME NEW rec \in Records, job[h] \in Jobs, Save(h, rec), Alone(h),
             rec.type = Base(h).type,
             rec.approved => job[h] \in granted /\ store[job[h]].type = "finetune",
             rec.call # NoCall => job[rec.call] = job[h],
             ErrorsAgree(rec)
      PROVE  SafetyInv'
  <2>1. RecordsInv' /\ \A j \in Jobs : store'[j].type = store[j].type
    BY <1>4, SaveSafe DEF Alone
  <2> QED
    BY <1>a, <1>4, <2>1, AloneSafe
<1>5. ASSUME NEW rec, Save(h, rec), pc[h] # "idle"
      PROVE  /\ job[h] \in Jobs /\ Base(h) \in Records
             /\ Base(h).type = store[job[h]].type
             /\ Base(h).approved => job[h] \in granted /\ store[job[h]].type = "finetune"
             /\ Base(h).call # NoCall => job[Base(h).call] = job[h]
             /\ ErrorsAgree(Base(h))
  BY <1>5, <1>b, BaseSafe DEF Save
<1>6. CASE SetCall(h)
  <2> DEFINE rec == [Base(h) EXCEPT !.call = handle[h]]
  <2>1. Save(h, rec) /\ Alone(h)
    BY <1>6, <1>b DEF SetCall, Respond, Alone, frame
  <2>2. /\ rec \in Records /\ rec.call = handle[h]
        /\ rec.type = Base(h).type /\ rec.approved = Base(h).approved /\ ErrorsAgree(rec)
    <3>1. Base(h) \in Records /\ ErrorsAgree(Base(h)) /\ handle[h] \in Calls \cup {NoCall}
      BY <1>5, <1>6, <1>b, <2>1 DEF SetCall
    <3>2. rec \in Records
      BY <3>1, RecordOperators
    <3> QED
      BY <3>1, <3>2 DEF Records, ErrorsAgree
  <2>3. rec.call # NoCall => job[rec.call] = job[h]
    BY <2>2 DEF SafetyInv, RequestsInv, Handles
  <2> QED
    BY <1>4, <1>5, <1>6, <2>1, <2>2, <2>3 DEF SetCall
<1>7. CASE SpawnFailed(h)
  <2> DEFINE rec == SetStatus(Base(h), "failed", "spawn")
  <2>1. Save(h, rec) /\ Alone(h)
    BY <1>7, <1>b DEF SpawnFailed, Respond, Alone, frame
  <2>2. rec \in Records /\ rec.type = Base(h).type /\ rec.approved = Base(h).approved
        /\ rec.call = Base(h).call /\ ErrorsAgree(rec)
    BY <1>5, <1>7, <2>1, RecordOperators, StatusKeeps, StatusErrorsAgree
       DEF SpawnFailed, Statuses, Terminal, Errors
  <2> QED
    BY <1>4, <1>5, <1>7, <2>1, <2>2 DEF SpawnFailed
<1>8. CASE SetCancelled(h)
  <2> DEFINE rec == SetStatus(Base(h), "cancelled", "none")
  <2>1. Save(h, rec) /\ Alone(h)
    BY <1>8, <1>b DEF SetCancelled, Respond, Alone, frame
  <2>2. rec \in Records /\ rec.type = Base(h).type /\ rec.approved = Base(h).approved
        /\ rec.call = Base(h).call /\ ErrorsAgree(rec)
    BY <1>5, <1>8, <2>1, RecordOperators, StatusKeeps, StatusErrorsAgree
       DEF SetCancelled, Statuses, Terminal, Errors
  <2> QED
    BY <1>4, <1>5, <1>8, <2>1, <2>2 DEF SetCancelled
<1>9. CASE SetApproved(h)
  <2> DEFINE rec == [Base(h) EXCEPT !.approved = TRUE]
  <2>1. Save(h, rec) /\ Alone(h)
    BY <1>9, <1>b, <1>c DEF SetApproved, Goto, Alone, frame
  <2>2. /\ rec \in Records /\ rec.call = Base(h).call
        /\ rec.type = Base(h).type /\ ErrorsAgree(rec)
    <3>1. Base(h) \in Records /\ ErrorsAgree(Base(h))
      BY <1>5, <1>9, <2>1 DEF SetApproved
    <3>2. rec \in Records
      BY <3>1, RecordOperators
    <3> QED
      BY <3>1, <3>2 DEF Records, ErrorsAgree
  <2>3. job[h] \in granted /\ store[job[h]].type = "finetune"
    BY <1>9 DEF SetApproved, SafetyInv, RequestsInv, Approving
  <2> QED
    BY <1>4, <1>5, <1>9, <2>1, <2>2, <2>3 DEF SetApproved
<1> QED
  BY <1>1, <1>2, <1>3, <1>6, <1>7, <1>8, <1>9 DEF HandlerStep

-----------------------------------------------------------------------------
LEMMA SafetyInit == Init => SafetyInv
<1> SUFFICES ASSUME Init PROVE SafetyInv
  OBVIOUS
<1> USE ProcsSplit
<1>1. TypeOK
  BY TypeInit
<1>2. /\ store = [j \in Jobs |-> Blank] /\ snap = [p \in Procs |-> Blank]
      /\ \A p \in Procs : job[p] = NoJob
      /\ \A h \in Handlers : pc[h] = "idle" /\ handle[h] = NoCall
      /\ \A c \in Calls : pc[c] = "unspawned"
  BY DEF Init
<1>3. RecordsInv
  BY <1>2 DEF RecordsInv, Snapshots, IdsInUse, Present, RecordsAgree, ErrorFieldsMatch,
              ErrorsAgree, Approvals, OwnCalls, Blank
<1>4. RequestsInv
  BY <1>2 DEF RequestsInv, Approving, Handles, Dispatches, OneCallPerJob
<1>5. Trainings
  BY <1>2 DEF Trainings, TrainNeedsApproval, Training
<1> QED
  BY <1>1, <1>3, <1>4, <1>5 DEF SafetyInv

(***************************************************************************)
(* The inductive invariant behind the theorems below.                      *)
(***************************************************************************)
THEOREM SafetyInvariant == Spec => []SafetyInv
<1>1. SafetyInv /\ [Next]_vars => SafetyInv'
  <2> SUFFICES ASSUME SafetyInv, [Next]_vars PROVE SafetyInv'
    OBVIOUS
  <2>1. ASSUME NEW h \in Handlers, Request(h)
        PROVE  SafetyInv'
    BY <2>1, RequestSafe
  <2>2. ASSUME NEW h \in Handlers, HandlerStep(h) \/ HandlerDies(h)
        PROVE  SafetyInv'
    BY <2>2, HandlerSafe
  <2>3. ASSUME NEW c \in Calls, WorkerStep(c) \/ WorkerDies(c)
        PROVE  SafetyInv'
    BY <2>3, WorkerSafe
  <2>4. CASE UNCHANGED vars
    BY <2>4 DEF vars, SafetyInv, RecordsInv, Snapshots, IdsInUse, Present, RecordsAgree,
                   ErrorFieldsMatch, Approvals, OwnCalls, RequestsInv, Approving, Handles, Dispatches,
           OneCallPerJob, Trainings, TrainNeedsApproval, Training, Type, Record, TypeOK
  <2> QED
    BY <2>1, <2>2, <2>3, <2>4 DEF Next, Stop
<1> QED
  BY <1>1, SafetyInit, PTL DEF Spec

(***************************************************************************)
(* Whatever requests and workers overlap, and whatever updates the dict    *)
(* loses, the error fields of a record match its status                    *)
(* (_apply_status_and_errors).                                             *)
(***************************************************************************)
THEOREM ErrorsMatchStatus == Spec => []ErrorFieldsMatch
<1>1. SafetyInv => ErrorFieldsMatch
  BY DEF SafetyInv, RecordsInv, RecordsAgree
<1> QED
  BY <1>1, SafetyInvariant, PTL

(***************************************************************************)
(* A fine-tune trains only when an approve request accepted that job, for  *)
(* any number of creates, retries, approvals and lost updates.             *)
(***************************************************************************)
THEOREM OnlyApprovedTrain == Spec => []TrainNeedsApproval
<1>1. SafetyInv => TrainNeedsApproval
  BY DEF SafetyInv, Trainings
<1> QED
  BY <1>1, SafetyInvariant, PTL

(***************************************************************************)
(* No job but a fine-tune is ever handed to two workers, although a route  *)
(* cannot tell a spawn that failed from one whose reply was lost.          *)
(***************************************************************************)
THEOREM OneWorkerPerJob == Spec => []OneCallPerJob
<1>1. SafetyInv => OneCallPerJob
  BY DEF SafetyInv, RequestsInv
<1> QED
  BY <1>1, SafetyInvariant, PTL

(***************************************************************************)
(* A cancel request stops no other job's worker (cancel_job).              *)
(***************************************************************************)
THEOREM CancelsItsOwn == Spec => CancelStopsOwnJob
<1>1. SafetyInv /\ [Next]_vars =>
        [\A j \in Jobs : \A h \in Handlers : CancelJob(h, j) =>
           \A c \in doomed' \ doomed : job[c] = j]_vars
  BY DEF CancelJob, SafetyInv, RecordsInv, OwnCalls
<1> QED
  BY <1>1, SafetyInvariant, PTL DEF Spec, CancelStopsOwnJob

-----------------------------------------------------------------------------
(***************************************************************************)
(* The third part: the work is bounded.  Left counts what a request or a   *)
(* worker has still to do, the attempts of an automation included.         *)
(***************************************************************************)
PlaceAt(line, result) ==
  CASE line \in {"idle", "ended"}                               -> 0
    [] line \in {"set_call", "spawn_failed", "set_cancelled"}   -> 1
    [] line = "dispatch"                                        -> 2
    [] line = "set_approved"                                    -> 3
    [] line \in {"finish", "report"}                            -> 1
    [] line = "fallback"                                        -> 2
    [] line = "recheck"                                         -> 3
    [] line = "raised"                                          -> 4
    [] line = "note" /\ result \in {"error", "transient"}       -> 5
    [] line = "set_failed"                                      -> 6
    [] line = "note" /\ result \in {"ok", "skipped"}            -> 7
    [] line = "set_completed"                                   -> 8
    [] line = "body"                                            -> 9
    [] line = "note" /\ result = "none"                         -> 10
    [] line = "set_running"                                     -> 11
    [] line = "handler"                                         -> 12
    [] line = "spawned"                                         -> 13
    [] line = "unspawned"                                       -> 14

Place(p) == PlaceAt(pc[p], outcome[p])

Unread(p) == IF snap[p].status = "absent" THEN 1 ELSE 0

Attempts(p) == IF p \in Calls THEN MaxRetries - tries[p] ELSE 0

Left(p) == IF Place(p) = 0 THEN 0 ELSE 2 * Place(p) + Unread(p) + 32 * Attempts(p)

(***************************************************************************)
(* A request gives work to its own handler only; any other step, a lost    *)
(* update, a deletion met half way and a crash included, leaves one        *)
(* process less to do and none more.  So between two requests there are    *)
(* finitely many steps: nothing is retried for ever.                       *)
(***************************************************************************)
WorkShrinks ==
  [][\/ \E h \in Handlers : Request(h) /\ \A p \in Procs \ {h} : Left(p)' = Left(p)
     \/ \E p \in Procs : /\ Left(p)' < Left(p)
                         /\ \A q \in Procs \ {p} : Left(q)' <= Left(q)]_vars

\* what the work has come to, at the lines that tell
Knows(c) ==
  /\ pc[c] \in {"unspawned", "spawned", "handler", "set_running", "body"} => outcome[c] = "none"
  /\ pc[c] = "set_completed" => outcome[c] \in {"ok", "skipped"}
  /\ pc[c] = "set_failed" => outcome[c] \in {"error", "transient"}

LEMMA Places ==
  /\ \A o : /\ PlaceAt("idle", o) = 0 /\ PlaceAt("ended", o) = 0
            /\ PlaceAt("set_call", o) = 1 /\ PlaceAt("spawn_failed", o) = 1
            /\ PlaceAt("set_cancelled", o) = 1 /\ PlaceAt("dispatch", o) = 2
            /\ PlaceAt("set_approved", o) = 3 /\ PlaceAt("finish", o) = 1
            /\ PlaceAt("report", o) = 1 /\ PlaceAt("fallback", o) = 2
            /\ PlaceAt("recheck", o) = 3 /\ PlaceAt("raised", o) = 4
            /\ PlaceAt("set_failed", o) = 6 /\ PlaceAt("set_completed", o) = 8
            /\ PlaceAt("body", o) = 9 /\ PlaceAt("set_running", o) = 11
            /\ PlaceAt("handler", o) = 12 /\ PlaceAt("spawned", o) = 13
            /\ PlaceAt("unspawned", o) = 14
  /\ PlaceAt("note", "error") = 5 /\ PlaceAt("note", "transient") = 5
  /\ PlaceAt("note", "ok") = 7 /\ PlaceAt("note", "skipped") = 7
  /\ PlaceAt("note", "none") = 10
<1>1. ASSUME NEW o
      PROVE  /\ PlaceAt("idle", o) = 0 /\ PlaceAt("ended", o) = 0
             /\ PlaceAt("set_call", o) = 1 /\ PlaceAt("spawn_failed", o) = 1
             /\ PlaceAt("set_cancelled", o) = 1 /\ PlaceAt("dispatch", o) = 2
             /\ PlaceAt("set_approved", o) = 3 /\ PlaceAt("finish", o) = 1
             /\ PlaceAt("report", o) = 1 /\ PlaceAt("fallback", o) = 2
             /\ PlaceAt("recheck", o) = 3 /\ PlaceAt("raised", o) = 4
             /\ PlaceAt("set_failed", o) = 6 /\ PlaceAt("set_completed", o) = 8
             /\ PlaceAt("body", o) = 9 /\ PlaceAt("set_running", o) = 11
             /\ PlaceAt("handler", o) = 12 /\ PlaceAt("spawned", o) = 13
             /\ PlaceAt("unspawned", o) = 14
  BY DEF PlaceAt
<1>2. /\ PlaceAt("note", "error") = 5 /\ PlaceAt("note", "transient") = 5
      /\ PlaceAt("note", "ok") = 7 /\ PlaceAt("note", "skipped") = 7
      /\ PlaceAt("note", "none") = 10
  BY DEF PlaceAt
<1> QED
  BY <1>1, <1>2

Measured ==
  \A p \in Procs : /\ Place(p) \in 0..14 /\ Unread(p) \in 0..1 /\ Attempts(p) \in Nat
                   /\ Left(p) \in Nat

LEMMA WorkIsMeasured == TypeOK => Measured
<1> SUFFICES ASSUME TypeOK, NEW p \in Procs
             PROVE  /\ Place(p) \in 0..14 /\ Unread(p) \in 0..1 /\ Attempts(p) \in Nat
                    /\ Left(p) \in Nat
  BY DEF Measured
<1>1. Place(p) \in 0..14
  <2>1. CASE p \in Handlers
    BY <2>1, Places DEF TypeOK, HandlerPcs, Place
  <2>2. CASE p \in Calls
    <3>1. outcome[p] \in {"none", "ok", "skipped", "error", "transient"} /\ pc[p] \in WorkerPcs
      BY <2>2 DEF TypeOK
    <3> QED
      BY <3>1, Places DEF WorkerPcs, Place
  <2> QED
    BY <2>1, <2>2 DEF Procs
<1>2. Unread(p) \in 0..1
  BY DEF Unread
<1>3. Attempts(p) \in Nat
  BY ConstantsAssumption DEF Attempts, TypeOK
<1> QED
  BY <1>1, <1>2, <1>3 DEF Left

\* a step gives p less to do: it ends, moves on, reads its payload, or tries again
Drops(p) ==
  /\ Place(p) # 0
  /\ \/ Place(p)' = 0
     \/ Place(p)' < Place(p) /\ Attempts(p)' = Attempts(p)
     \/ Place(p)' = Place(p) /\ Unread(p)' < Unread(p) /\ Attempts(p)' = Attempts(p)
     \/ Place(p)' < Place(p) + 10 /\ Attempts(p)' < Attempts(p)

LEMMA LessLeft ==
  ASSUME Measured, Measured', NEW p \in Procs, Drops(p)
  PROVE  Left(p)' < Left(p)
<1>1. /\ Place(p) \in 0..14 /\ Unread(p) \in 0..1 /\ Attempts(p) \in Nat
      /\ Place(p)' \in 0..14 /\ Unread(p)' \in 0..1 /\ Attempts(p)' \in Nat
  BY DEF Measured
<1> QED
  BY <1>1 DEF Left, Drops

\* what q has to do is left as it is
Leaves(q) ==
  /\ pc'[q] = pc[q] /\ snap'[q] = snap[q]
  /\ q \in Calls => outcome'[q] = outcome[q] /\ tries'[q] = tries[q]

LEMMA LeavesWork ==
  ASSUME TypeOK, TypeOK', NEW q \in Procs, Leaves(q)
  PROVE  Left(q)' = Left(q)
<1> USE ProcsSplit
<1>1. Place(q)' = Place(q)
  <2>1. CASE q \in Handlers
    BY <2>1, Places DEF TypeOK, HandlerPcs, Place, Leaves
  <2>2. CASE q \in Calls
    BY <2>2 DEF Place, Leaves
  <2> QED
    BY <2>1, <2>2 DEF Procs
<1>2. Unread(q)' = Unread(q) /\ Attempts(q)' = Attempts(q)
  BY DEF Unread, Attempts, Leaves
<1> QED
  BY <1>1, <1>2 DEF Left

LEMMA WorkerDrops ==
  ASSUME TypeOK, NEW c \in Calls, Knows(c), WorkerStep(c) \/ WorkerDies(c)
  PROVE  /\ Drops(c) /\ Knows(c)'
         /\ \A q \in Procs \ {c} : Leaves(q)
<1> USE ProcsSplit
<1>a. /\ pc \in [Procs -> HandlerPcs \cup WorkerPcs]
      /\ outcome \in [Calls -> {"none", "ok", "skipped", "error", "transient"}]
      /\ tries \in [Calls -> 0..MaxRetries] /\ MaxRetries \in Nat
      /\ snap \in [Procs -> Records] /\ pc[c] \in WorkerPcs
  BY ConstantsAssumption DEF TypeOK
<1>b. ASSUME pc'[c] = "ended", pc[c] \notin {"unspawned", "ended"}
      PROVE  Drops(c)
  BY <1>a, <1>b, Places DEF Drops, Place, WorkerPcs
<1>c. tries' = tries => Attempts(c)' = Attempts(c)
  BY DEF Attempts
<1>1. CASE Fetch(c)
  <2>1. /\ UNCHANGED <<pc, outcome, tries>> /\ snap' = [snap EXCEPT ![c] = store[job[c]]]
        /\ snap[c].status = "absent" /\ store[job[c]].status # "absent"
    BY <1>1 DEF Fetch, Present, workVars
  <2>2. Place(c)' = Place(c)
    BY <2>1 DEF Place
  <2>3. Place(c) # 0
    BY <1>1, <1>a, Places DEF Fetch, UpdatingPcs, Place
  <2>4. Unread(c)' < Unread(c)
    BY <1>a, <2>1 DEF Unread
  <2> QED
    BY <1>a, <1>c, <2>1, <2>2, <2>3, <2>4 DEF Drops, Knows, Leaves
<1>2. CASE StartJob(c)
  BY <1>2, <1>a, <1>b, <1>c, Places DEF StartJob, GotoOrEnd, Goto, Drops, Knows, Leaves, Place
<1>3. CASE GateFinetune(c) \/ GateAutomation(c)
  BY <1>3, <1>a, <1>c, Places DEF GateFinetune, GateAutomation, RunOrSkip, Goto, Drops, Knows, Leaves, Place
<1>4. CASE EnterSingle(c) \/ HandlerGone(c)
  BY <1>4, <1>a, <1>c, Places DEF EnterSingle, HandlerGone, Goto, Drops, Knows, Leaves, Place
<1>5. CASE SetRunning(c)
  BY <1>5, <1>a, <1>c, Places DEF SetRunning, Save, Goto, Drops, Knows, Leaves, Place, workVars
<1>6. CASE Body(c)
  BY <1>6, <1>a, <1>c, Places DEF Body, Goto, Drops, Knows, Leaves, Place
<1>7. CASE SetCompleted(c)
  BY <1>7, <1>a, <1>c, Places DEF SetCompleted, Save, Goto, Drops, Knows, Leaves, Place, workVars
<1>8. CASE SetFailed(c)
  BY <1>8, <1>a, <1>c, Places DEF SetFailed, Save, Goto, Drops, Knows, Leaves, Place, workVars
<1>9. CASE Note(c)
  BY <1>9, <1>a, <1>c, Places DEF Note, Save, Goto, Drops, Knows, Leaves, Place, workVars
<1>10. CASE WorkerKeyError(c)
  BY <1>10, <1>a, <1>b, <1>c, Places DEF WorkerKeyError, InsideTry, UpdatingPcs, GotoOrEnd, Goto, Drops, Knows, Leaves, Place, WorkerPcs
<1>11. CASE RetryAttempt(c)
  BY <1>11, <1>a, Places DEF RetryAttempt, MayRetry, Goto, Drops, Knows, Leaves, Place, Attempts
<1>12. CASE Raised(c)
  BY <1>12, <1>a, <1>b, <1>c, Places DEF Raised, GotoOrEnd, Goto, Drops, Knows, Leaves, Place
<1>13. CASE Recheck(c)
  BY <1>13, <1>a, <1>b, <1>c, Places DEF Recheck, GotoOrEnd, Goto, Drops, Knows, Leaves, Place
<1>14. CASE Fallback(c)
  BY <1>14, <1>a, <1>c, Places DEF Fallback, Save, Goto, Drops, Knows, Leaves, Place, workVars
<1>15. CASE Report(c) \/ Finish(c)
  BY <1>15, <1>a, <1>b, Places DEF Report, Finish, GotoOrEnd, Goto, Drops, Knows, Leaves, Place
<1>16. CASE WorkerDies(c)
  BY <1>16, <1>a, <1>b, Places DEF WorkerDies, GotoOrEnd, Goto, Drops, Knows, Leaves, Place
<1> QED
  BY <1>1, <1>2, <1>3, <1>4, <1>5, <1>6, <1>7, <1>8, <1>9, <1>10, <1>11, <1>12, <1>13, <1>14,
     <1>15, <1>16 DEF WorkerStep

LEMMA HandlerDrops ==
  ASSUME TypeOK, NEW h \in Handlers, HandlerStep(h) \/ HandlerDies(h),
         \A c \in Calls : Knows(c)
  PROVE  /\ Drops(h) /\ \A c \in Calls : Knows(c)'
         /\ \A q \in Procs \ {h} : Leaves(q) \/ Drops(q)
<1> USE ProcsSplit
<1>a. /\ pc \in [Procs -> HandlerPcs \cup WorkerPcs]
      /\ outcome \in [Calls -> {"none", "ok", "skipped", "error", "transient"}]
      /\ tries \in [Calls -> 0..MaxRetries] /\ MaxRetries \in Nat
      /\ snap \in [Procs -> Records] /\ pc[h] \in HandlerPcs
  BY ConstantsAssumption DEF TypeOK
<1>b. ASSUME pc'[h] = "idle", pc[h] # "idle"
      PROVE  Drops(h)
  BY <1>a, <1>b, Places DEF Drops, Place, HandlerPcs
<1>c. Attempts(h)' = Attempts(h)
  BY DEF Attempts
<1>1. CASE Fetch(h)
  <2>1. /\ UNCHANGED <<pc, outcome, tries>> /\ snap' = [snap EXCEPT ![h] = store[job[h]]]
        /\ snap[h].status = "absent" /\ store[job[h]].status # "absent"
        /\ pc[h] \in HandlerPcs \ {"idle"}
    BY <1>1, <1>a DEF Fetch, Present, workVars, UpdatingPcs
  <2>2. Place(h)' = Place(h)
    BY <2>1 DEF Place
  <2>3. Place(h) # 0
    BY <2>1, Places DEF HandlerPcs, Place
  <2>4. Unread(h)' < Unread(h)
    BY <1>a, <2>1 DEF Unread
  <2> QED
    BY <1>a, <1>c, <2>1, <2>2, <2>3, <2>4 DEF Drops, Knows, Leaves
<1>2. ASSUME NEW c \in Calls, Spawn(h, c) \/ SpawnReplyLost(h, c) \/ RunInBackground(h, c)
      PROVE  /\ Drops(h) /\ \A d \in Calls : Knows(d)'
             /\ \A q \in Procs \ {h} : Leaves(q) \/ Drops(q)
  <2>1. /\ UNCHANGED <<snap, outcome, tries>> /\ pc[h] = "dispatch" /\ pc[c] = "unspawned"
        /\ \E l \in {"set_call", "spawn_failed", "idle"} :
             pc' = [pc EXCEPT ![h] = l, ![c] = "spawned"]
    BY <1>2 DEF Spawn, SpawnReplyLost, RunInBackground, SpawnedCall, workVars
  <2>2. Drops(h)
    BY <1>a, <1>c, <2>1, Places DEF Drops, Place
  <2>3. Attempts(c)' = Attempts(c)
    BY <2>1 DEF Attempts
  <2>4. Drops(c)
    BY <1>a, <2>1, <2>3, Places DEF Drops, Place
  <2>5. \A q \in Procs \ {h, c} : Leaves(q)
    BY <1>a, <2>1 DEF Leaves
  <2>6. \A d \in Calls : Knows(d)'
    BY <1>a, <2>1 DEF Knows
  <2> QED
    BY <2>2, <2>4, <2>5, <2>6
<1>3. CASE SpawnRaises(h)
  BY <1>3, <1>a, <1>c, Places DEF SpawnRaises, Goto, Drops, Knows, Leaves, Place, workVars
<1>4. CASE SetCall(h) \/ SpawnFailed(h) \/ SetCancelled(h)
  BY <1>4, <1>a, <1>b DEF SetCall, SpawnFailed, SetCancelled, Save, Respond, Knows, Leaves, workVars
<1>5. CASE SetApproved(h)
  BY <1>5, <1>a, <1>c, Places DEF SetApproved, Save, Goto, Drops, Knows, Leaves, Place, workVars
<1>6. CASE HandlerKeyError(h) \/ HandlerDies(h)
  BY <1>6, <1>a, <1>b DEF HandlerKeyError, HandlerDies, Respond, UpdatingPcs, Knows, Leaves, workVars
<1> QED
  BY <1>1, <1>2, <1>3, <1>4, <1>5, <1>6 DEF HandlerStep

LEMMA RequestLeaves ==
  ASSUME TypeOK, NEW h \in Handlers, Request(h), \A c \in Calls : Knows(c)
  PROVE  /\ \A q \in Procs \ {h} : Leaves(q)
         /\ \A c \in Calls : Knows(c)'
<1> USE ProcsSplit
<1>1. /\ UNCHANGED <<snap, outcome, tries>>
      /\ UNCHANGED pc \/ \E l \in HandlerPcs : pc' = [pc EXCEPT ![h] = l]
  BY DEF Request, CreateJob, RetryJob, Enqueue, Accept, CancelJob, ApproveJob, DeleteJob, frame, workVars, HandlerPcs
<1>2. pc \in [Procs -> HandlerPcs \cup WorkerPcs]
  BY DEF TypeOK
<1> QED
  BY <1>1, <1>2 DEF Leaves, Knows

(***************************************************************************)
(* Over either store, between two requests the processes have finitely     *)
(* many steps to make, and a request adds to its own only: automations are *)
(* retried a bounded number of times, nobody hands a job back and forth,   *)
(* and no crash, deletion or lost update starts anything again             *)
(* (_dispatch_with_automation_retries, run_job, _dispatch_job).            *)
(***************************************************************************)
THEOREM WorkIsBounded == Spec => [](\A p \in Procs : Left(p) \in Nat) /\ WorkShrinks
<1>1. Init => \A c \in Calls : Knows(c)
  BY ProcsSplit DEF Init, Knows
<1>2. TypeOK => Measured /\ \A p \in Procs : Left(p) \in Nat
  BY WorkIsMeasured DEF Measured
<1>3. /\ TypeOK /\ TypeOK' /\ Measured /\ Measured' /\ (\A c \in Calls : Knows(c)) /\ [Next]_vars
      => /\ (\A c \in Calls : Knows(c))'
         /\ [\/ \E h \in Handlers : Request(h) /\ \A p \in Procs \ {h} : Left(p)' = Left(p)
             \/ \E p \in Procs : /\ Left(p)' < Left(p)
                                 /\ \A q \in Procs \ {p} : Left(q)' <= Left(q)]_vars
  <2> SUFFICES ASSUME TypeOK, TypeOK', Measured, Measured', \A c \in Calls : Knows(c), [Next]_vars
               PROVE  /\ \A c \in Calls : Knows(c)'
                      /\ \/ UNCHANGED vars
                         \/ \E h \in Handlers : Request(h) /\ \A p \in Procs \ {h} : Left(p)' = Left(p)
                         \/ \E p \in Procs : /\ Left(p)' < Left(p)
                                             /\ \A q \in Procs \ {p} : Left(q)' <= Left(q)
    OBVIOUS
  <2> USE ProcsSplit
  <2>1. \A p \in Procs : Left(p) \in Nat /\ Left(p)' \in Nat
    BY DEF Measured
  <2>2. \A q \in Procs : (Leaves(q) => Left(q)' = Left(q)) /\ (Drops(q) => Left(q)' < Left(q))
    BY LeavesWork, LessLeft
  <2>3. ASSUME NEW h \in Handlers, Request(h)
        PROVE  /\ \A c \in Calls : Knows(c)'
               /\ \A p \in Procs \ {h} : Left(p)' = Left(p)
    BY <2>2, <2>3, RequestLeaves
  <2>4. ASSUME NEW h \in Handlers, HandlerStep(h) \/ HandlerDies(h)
        PROVE  /\ \A c \in Calls : Knows(c)'
               /\ Left(h)' < Left(h) /\ \A q \in Procs \ {h} : Left(q)' <= Left(q)
    BY <2>1, <2>2, <2>4, HandlerDrops
  <2>5. ASSUME NEW c \in Calls, WorkerStep(c) \/ WorkerDies(c)
        PROVE  /\ \A d \in Calls : Knows(d)'
               /\ Left(c)' < Left(c) /\ \A q \in Procs \ {c} : Left(q)' <= Left(q)
    <3>1. /\ Drops(c) /\ Knows(c)' /\ \A q \in Procs \ {c} : Leaves(q)
      BY <2>5, WorkerDrops
    <3>2. \A d \in Calls \ {c} : Knows(d)'
      BY <3>1 DEF Leaves, Knows
    <3> QED
      BY <2>1, <2>2, <3>1, <3>2
  <2>6. CASE UNCHANGED vars
    BY <2>6 DEF vars, Knows
  <2> QED
    BY <2>3, <2>4, <2>5, <2>6 DEF Next, Stop
<1> QED
  BY <1>1, <1>2, <1>3, TypeCorrect, PTL DEF Spec, WorkShrinks
=============================================================================
