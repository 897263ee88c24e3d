---------------------------- MODULE JobEndProofs ----------------------------
(***************************************************************************)
(* How a job of JobLifecycle ends over the in-memory store, for any number *)
(* of jobs, requests and workers.                                          *)
(*                                                                         *)
(* Update_job is one step there, so what a process will still write and    *)
(* post can be read off its line.  The inductive invariant names, for a    *)
(* job that has not ended, a process that will end it, and for one that    *)
(* has, a worker that has sent its event or is about to: when nobody is at *)
(* work on the job only the second can be left.                            *)
(*                                                                         *)
(* The last part is the refinement of JobPromise, for which one more thing *)
(* must be known: nobody works on a fine-tune before it is approved.       *)
(***************************************************************************)
EXTENDS JobSafetyProofs

FailedByWork(r) == r.status = "failed" /\ r.error = "run"

Open(r) == r.status \in {"pending", "running"} /\ ~(r.type = "finetune" /\ ~r.approved)

\* no way from here to the end of the process leaves its job open
WillEnd(p) ==
  \/ pc[p] \in {"dispatch", "spawn_failed", "spawned", "handler", "set_running", "body",
                "set_completed", "set_failed", "raised", "recheck", "fallback"}
  \/ pc[p] = "note" /\ outcome[p] = "none"

\* the worker has sent the event of a completed job, or sends it if it still is
WillTellCompleted(c) ==
  \/ Told(c, "job.completed")
  \/ pc[c] = "finish"
  \/ pc[c] = "note" /\ outcome[c] \in {"ok", "skipped"}

\* ... of a failed job, or sends it or writes another status
WillTellFailed(c) ==
  \/ Told(c, "job.failed")
  \/ pc[c] \in {"spawned", "handler", "set_running", "body", "set_completed",
                "set_failed", "raised", "fallback", "report"}
  \/ pc[c] = "note" /\ outcome[c] \notin {"ok", "skipped"}

Atomic == \A p \in Procs : snap[p] = Blank

OpenIsDriven == \A j \in Jobs : Open(store[j]) => \E p \in Procs : job[p] = j /\ WillEnd(p)

EndIsTold ==
  \A j \in Jobs :
    /\ store[j].status = "completed" => \E c \in Calls : job[c] = j /\ WillTellCompleted(c)
    /\ FailedByWork(store[j]) => \E c \in Calls : job[c] = j /\ WillTellFailed(c)

\* what a worker knows of its work at its line
OutcomeAt(c) ==
  /\ pc[c] \in {"unspawned", "spawned", "handler", "set_running", "body"} => outcome[c] = "none"
  /\ pc[c] = "set_completed" => outcome[c] \in {"ok", "skipped"}
  /\ pc[c] = "set_failed" => outcome[c] \in {"error", "transient"}
  /\ outcome[c] = "transient" => Type(c) # "single"

\* a job that is tried once has not ended before its worker has run
FirstRunAt(c) ==
  pc[c] \in {"spawned", "handler", "set_running"} /\ Type(c) = "single" =>
    Record(c).status # "completed" /\ ~FailedByWork(Record(c))

EndInv ==
  /\ Atomic /\ OpenIsDriven /\ EndIsTold
  /\ \A c \in Calls : OutcomeAt(c) /\ FirstRunAt(c)

-----------------------------------------------------------------------------
(***************************************************************************)
(* Steps of the workers.                                                   *)
(***************************************************************************)
LEMMA MemoryBase ==
  ASSUME backing = "memory", NEW p \in Procs
  PROVE  /\ Base(p) = store[job[p]]
         /\ ~Fetch(p)
BY DEF Base, Fetch

\* what a worker's step does to its record, and what it still owes afterwards
Owes(c) ==
  /\ Open(Record(c))' => (Open(Record(c)) /\ ~WillEnd(c)) \/ WillEnd(c)'
  /\ Record(c)'.status = "completed" =>
       (Record(c).status = "completed" /\ ~WillTellCompleted(c)) \/ WillTellCompleted(c)'
  /\ FailedByWork(Record(c))' =>
       (FailedByWork(Record(c)) /\ ~WillTellFailed(c)) \/ WillTellFailed(c)'

\* nothing of another process or of another job is touched
OwnJobOnly(c) ==
  /\ UNCHANGED job
  /\ \A p \in Procs : p # c => pc'[p] = pc[p]
  /\ \A d \in Calls : d # c => outcome'[d] = outcome[d] /\ audit'[d] = audit[d]
  /\ \A j \in Jobs : j # job[c] => store'[j] = store[j]

LEMMA WorkerOwes ==
  ASSUME SafetyInv, backing = "memory", Atomic, NEW c \in Calls, WorkerStep(c),
         OutcomeAt(c), FirstRunAt(c)
  PROVE  /\ Owes(c) /\ OwnJobOnly(c) /\ job[c] \in Jobs
         /\ OutcomeAt(c)' /\ FirstRunAt(c)'
<1> USE ProcsSplit
<1>a. /\ store \in [Jobs -> Records]
      /\ pc \in [Procs -> HandlerPcs \cup WorkerPcs]
      /\ outcome \in [Calls -> {"none", "ok", "skipped", "error", "transient"}]
      /\ audit \in [Calls -> SUBSET AuditEvents]
      /\ pc[c] # "unspawned" => job[c] \in Jobs
  BY DEF SafetyInv, TypeOK, WorkerPcs
<1>b. /\ Base(c) = store[job[c]] /\ ~Fetch(c)
  BY MemoryBase
<1> USE DEF Owes, OwnJobOnly, OutcomeAt, FirstRunAt, Open, WillEnd, WillTellCompleted,
            WillTellFailed, Told, FailedByWork, Type, Record, Present, Goto, GotoOrEnd, workFrame, frame
<1>1. CASE StartJob(c)
  BY <1>1, <1>a, <1>b DEF StartJob
<1>2. CASE GateFinetune(c)
  BY <1>2, <1>a, <1>b DEF GateFinetune, RunOrSkip
<1>3. CASE GateAutomation(c)
  BY <1>3, <1>a, <1>b DEF GateAutomation, RunOrSkip
<1>4. CASE EnterSingle(c)
  BY <1>4, <1>a, <1>b DEF EnterSingle
<1>5. CASE HandlerGone(c)
  BY <1>5, <1>a, <1>b DEF HandlerGone
<1>6. CASE SetRunning(c)
  BY <1>6, <1>a, <1>b DEF SetRunning, Save, SetStatus, workVars, Records
<1>7. CASE Body(c)
  BY <1>7, <1>a, <1>b DEF Body
<1>8. CASE SetCompleted(c)
  BY <1>8, <1>a, <1>b DEF SetCompleted, Save, SetStatus, workVars, Records
<1>9. CASE SetFailed(c)
  BY <1>9, <1>a, <1>b DEF SetFailed, Save, SetStatus, workVars, Records
<1>10. CASE Note(c)
  BY <1>10, <1>a, <1>b DEF Note, Save, SetStatus, workVars, Records
<1>11. CASE WorkerKeyError(c)
  BY <1>11, <1>a, <1>b DEF WorkerKeyError, Missing, InsideTry, UpdatingPcs
<1>12. CASE RetryAttempt(c)
  BY <1>12, <1>a, <1>b DEF RetryAttempt, MayRetry
<1>13. CASE Raised(c)
  BY <1>13, <1>a, <1>b DEF Raised, MayRetry, Post
<1>14. CASE Recheck(c)
  BY <1>14, <1>a, <1>b DEF Recheck
<1>15. CASE Fallback(c)
  BY <1>15, <1>a, <1>b DEF Fallback, Save, SetStatus, workVars, Records
<1>16. CASE Report(c)
  BY <1>16, <1>a, <1>b DEF Report, Post
<1>17. CASE Finish(c)
  BY <1>17, <1>a, <1>b DEF Finish, Post
<1> QED
  BY <1>1, <1>2, <1>3, <1>4, <1>5, <1>6, <1>7, <1>8, <1>9, <1>10, <1>11, <1>12, <1>13, <1>14, <1>15, <1>16, <1>17, <1>b DEF WorkerStep

\* what a step of any process must leave behind for the rest of the invariant
LEMMA StepEnds ==
  ASSUME SafetyInv, EndInv, NEW p \in Procs, NEW i \in Jobs,
         snap' = snap \/ snap' = [snap EXCEPT ![p] = Blank],
         \A q \in Procs : q # p => pc'[q] = pc[q] /\ job'[q] = job[q],
         \A d \in Calls : d # p => outcome'[d] = outcome[d] /\ audit'[d] = audit[d],
         \A j \in Jobs : j # i => store'[j] = store[j],
         job[p] = NoJob \/ job[p] = i,
         Open(store'[i]) => (Open(store[i]) /\ ~(job[p] = i /\ WillEnd(p)))
                            \/ (job'[p] = i /\ WillEnd(p)'),
         store'[i].status = "completed" =>
           \/ store[i].status = "completed" /\ ~(p \in Calls /\ job[p] = i /\ WillTellCompleted(p))
           \/ p \in Calls /\ job'[p] = i /\ WillTellCompleted(p)',
         FailedByWork(store'[i]) =>
           \/ FailedByWork(store[i]) /\ ~(p \in Calls /\ job[p] = i /\ WillTellFailed(p))
           \/ p \in Calls /\ job'[p] = i /\ WillTellFailed(p)'
  PROVE  Atomic' /\ OpenIsDriven' /\ EndIsTold'
<1> USE ProcsSplit
<1>a. /\ snap \in [Procs -> Records]
      /\ \A h \in Handlers : pc[h] \in HandlerPcs
  BY DEF SafetyInv, TypeOK
<1>1. Atomic'
  BY <1>a DEF EndInv, Atomic
<1>2. ASSUME NEW q \in Procs, q # p, WillEnd(q)
      PROVE  WillEnd(q)'
  <2>1. CASE q \in Handlers
    BY <1>2, <1>a, <2>1 DEF WillEnd, HandlerPcs
  <2>2. CASE q \in Calls
    BY <1>2, <2>2 DEF WillEnd
  <2> QED
    BY <2>1, <2>2 DEF Procs
<1>3. ASSUME NEW d \in Calls, d # p
      PROVE  /\ WillTellCompleted(d) => WillTellCompleted(d)'
             /\ WillTellFailed(d) => WillTellFailed(d)'
  BY <1>3 DEF WillTellCompleted, WillTellFailed, Told
<1>4. OpenIsDriven'
  <2> SUFFICES ASSUME NEW j \in Jobs, Open(store'[j])
               PROVE  \E q \in Procs : job'[q] = j /\ WillEnd(q)'
    BY DEF OpenIsDriven, Open, WillEnd
  <2>1. CASE j = i /\ job'[p] = i /\ WillEnd(p)'
    BY <2>1
  <2>2. CASE ~(j = i /\ job'[p] = i /\ WillEnd(p)')
    <3>1. Open(store[j]) /\ ~(job[p] = j /\ WillEnd(p))
      BY <2>2
    <3>2. PICK q \in Procs : job[q] = j /\ WillEnd(q)
      BY <3>1 DEF EndInv, OpenIsDriven
    <3> QED
      BY <1>2, <3>1, <3>2
  <2> QED
    BY <2>1, <2>2
<1>5. ASSUME NEW j \in Jobs, store'[j].status = "completed"
      PROVE  \E c \in Calls : job'[c] = j /\ WillTellCompleted(c)'
  <2>1. CASE j = i /\ p \in Calls /\ job'[p] = i /\ WillTellCompleted(p)'
    BY <2>1
  <2>2. CASE ~(j = i /\ p \in Calls /\ job'[p] = i /\ WillTellCompleted(p)')
    <3>1. store[j].status = "completed" /\ ~(p \in Calls /\ job[p] = j /\ WillTellCompleted(p))
      BY <1>5, <2>2
    <3>2. PICK c \in Calls : job[c] = j /\ WillTellCompleted(c)
      BY <3>1 DEF EndInv, EndIsTold
    <3> QED
      BY <1>3, <3>1, <3>2
  <2> QED
    BY <2>1, <2>2
<1>6. ASSUME NEW j \in Jobs, FailedByWork(store'[j])
      PROVE  \E c \in Calls : job'[c] = j /\ WillTellFailed(c)'
  <2>1. CASE j = i /\ p \in Calls /\ job'[p] = i /\ WillTellFailed(p)'
    BY <2>1
  <2>2. CASE ~(j = i /\ p \in Calls /\ job'[p] = i /\ WillTellFailed(p)')
    <3>1. FailedByWork(store[j]) /\ ~(p \in Calls /\ job[p] = j /\ WillTellFailed(p))
      BY <1>6, <2>2
    <3>2. PICK c \in Calls : job[c] = j /\ WillTellFailed(c)
      BY <3>1 DEF EndInv, EndIsTold
    <3> QED
      BY <1>3, <3>1, <3>2
  <2> QED
    BY <2>1, <2>2
<1> QED
  BY <1>1, <1>4, <1>5, <1>6 DEF EndIsTold, FailedByWork, WillTellCompleted, WillTellFailed

LEMMA WorkerEnds ==
  ASSUME SafetyInv, EndInv, backing = "memory", NEW c \in Calls, WorkerStep(c)
  PROVE  EndInv'
<1> USE ProcsSplit
<1>1. /\ Owes(c) /\ OwnJobOnly(c) /\ job[c] \in Jobs
      /\ OutcomeAt(c)' /\ FirstRunAt(c)'
  BY WorkerOwes DEF EndInv
<1>2. /\ snap' = snap \/ snap' = [snap EXCEPT ![c] = Blank]
      /\ store[job[c]].type = store'[job[c]].type
  <2>1. /\ \/ Lets(c) \/ Fetch(c)
           \/ job[c] \in Jobs /\ \E rec \in Rewrites(c) : Save(c, rec)
    BY WorkerEffect DEF SafetyInv, RecordsInv
  <2>2. ~Fetch(c)
    BY MemoryBase
  <2>3. \A j \in Jobs : store'[j].type = store[j].type
    BY WorkerRecords
  <2> QED
    BY <1>1, <2>1, <2>2, <2>3 DEF Lets, Save
<1>3. Atomic' /\ OpenIsDriven' /\ EndIsTold'
  BY <1>1, <1>2, StepEnds DEF Owes, OwnJobOnly, Record, Open, FailedByWork
<1>4. ASSUME NEW d \in Calls, d # c
      PROVE  OutcomeAt(d)' /\ FirstRunAt(d)'
  <2>1. OutcomeAt(d) /\ FirstRunAt(d)
    BY DEF EndInv
  <2>2. pc'[d] = pc[d] /\ outcome'[d] = outcome[d] /\ job'[d] = job[d]
    BY <1>1, <1>4 DEF OwnJobOnly
  <2>3. pc[d] # "unspawned" => job[d] \in Jobs
    BY DEF SafetyInv, TypeOK, WorkerPcs
  <2>4. CASE job[d] = job[c]
    <3>1. Type(d) = "finetune" /\ Type(d)' = Type(d)
      BY <1>1, <1>2, <1>4, <2>2, <2>4 DEF SafetyInv, RequestsInv, OneCallPerJob, Type, Record, TypeOK
    <3> QED
      BY <2>1, <2>2, <3>1 DEF OutcomeAt, FirstRunAt
  <2>5. CASE job[d] # job[c] /\ job[d] \in Jobs
    <3>1. Record(d)' = Record(d)
      BY <1>1, <2>2, <2>5 DEF OwnJobOnly, Record
    <3> QED
      BY <2>1, <2>2, <3>1 DEF OutcomeAt, FirstRunAt, Type
  <2> QED
    BY <2>1, <2>2, <2>3, <2>4, <2>5 DEF OutcomeAt, FirstRunAt
<1> QED
  BY <1>1, <1>3, <1>4 DEF EndInv

-----------------------------------------------------------------------------
(***************************************************************************)
(* Steps of the requests.                                                  *)
(***************************************************************************)
\* a step of a request that spawns nothing; i is the job whose record it writes
LEMMA RequestEnds ==
  ASSUME SafetyInv, EndInv, NEW h \in Handlers, NEW i \in Jobs,
         UNCHANGED <<outcome, audit>>,
         snap' = snap \/ snap' = [snap EXCEPT ![h] = Blank],
         \A q \in Procs : q # h => pc'[q] = pc[q] /\ job'[q] = job[q],
         \A j \in Jobs : j # i => store'[j] = store[j],
         job[h] = NoJob \/ job[h] = i,
         Open(store'[i]) => (Open(store[i]) /\ ~(job[h] = i /\ WillEnd(h)))
                            \/ (job'[h] = i /\ WillEnd(h)'),
         store'[i].status = "completed" => store[i].status = "completed",
         FailedByWork(store'[i]) => FailedByWork(store[i]),
         store'[i].type = store[i].type \/ \A c \in Calls : job[c] # i
  PROVE  EndInv'
<1> USE ProcsSplit
<1>1. Atomic' /\ OpenIsDriven' /\ EndIsTold'
  BY StepEnds
<1>2. ASSUME NEW d \in Calls
      PROVE  OutcomeAt(d)' /\ FirstRunAt(d)'
  <2>1. OutcomeAt(d) /\ FirstRunAt(d)
    BY DEF EndInv
  <2>2. pc'[d] = pc[d] /\ outcome'[d] = outcome[d] /\ job'[d] = job[d]
    OBVIOUS
  <2>3. job[d] \in Jobs \/ (pc[d] = "unspawned" /\ outcome[d] = "none")
    BY <2>1 DEF SafetyInv, TypeOK, WorkerPcs, OutcomeAt
  <2>4. CASE job[d] = i
    BY <2>1, <2>2, <2>4 DEF OutcomeAt, FirstRunAt, Type, Record, FailedByWork
  <2>5. CASE job[d] \in Jobs /\ job[d] # i
    BY <2>1, <2>2, <2>5 DEF OutcomeAt, FirstRunAt, Type, Record, FailedByWork
  <2>6. CASE pc[d] = "unspawned" /\ outcome[d] = "none"
    BY <2>2, <2>6 DEF OutcomeAt, FirstRunAt
  <2> QED
    BY <2>3, <2>4, <2>5, <2>6
<1> QED
  BY <1>1, <1>2 DEF EndInv

LEMMA EnqueueEnds ==
  ASSUME SafetyInv, EndInv, NEW h \in Handlers, NEW j \in Jobs, NEW rec \in Records,
         Enqueue(h, j, rec), rec.status = "pending", ~rec.approved
  PROVE  EndInv'
<1> USE ProcsSplit
<1>1. /\ store \in [Jobs -> Records]
      /\ pc \in [Procs -> HandlerPcs \cup WorkerPcs]
      /\ job \in [Procs -> Jobs \cup {NoJob}]
      /\ job[h] = NoJob
      /\ \A c \in Calls : job[c] # j
  BY DEF Enqueue, Accept, SafetyInv, TypeOK, RecordsInv, IdsInUse
<1>2. /\ store' = [store EXCEPT ![j] = rec]
      /\ UNCHANGED <<outcome, audit, snap>>
      /\ \/ UNCHANGED <<pc, job>> /\ rec.type = "finetune"
         \/ pc' = [pc EXCEPT ![h] = "dispatch"] /\ job' = [job EXCEPT ![h] = j]
  BY DEF Enqueue, Accept, workVars
<1>3. Open(store'[j]) => job'[h] = j /\ WillEnd(h)'
  BY <1>1, <1>2 DEF Open, WillEnd
<1> QED
  BY <1>1, <1>2, <1>3, RequestEnds DEF FailedByWork

LEMMA RequestStepEnds ==
  ASSUME SafetyInv, EndInv, NEW h \in Handlers, Request(h)
  PROVE  EndInv'
<1> USE ProcsSplit
<1>a. /\ store \in [Jobs -> Records]
      /\ pc \in [Procs -> HandlerPcs \cup WorkerPcs]
      /\ job \in [Procs -> Jobs \cup {NoJob}]
      /\ pc[h] = "idle" => job[h] = NoJob
  BY DEF SafetyInv, TypeOK
<1>1. ASSUME NEW j \in Submitted, NEW t \in JobTypes, CreateJob(h, j, t)
      PROVE  EndInv'
  <2> DEFINE rec == [Blank EXCEPT !.type = t, !.status = "pending"]
  <2>1. j \in Jobs /\ rec \in Records
    BY ConstantsAssumption, RecordOperators
  <2>2. rec.status = "pending" /\ ~rec.approved
    BY DEF Blank
  <2> QED
    BY <1>1, <2>1, <2>2, EnqueueEnds DEF CreateJob
<1>2. ASSUME NEW old \in Jobs, NEW j \in Jobs \ Submitted, RetryJob(h, old, j)
      PROVE  EndInv'
  <2>1. RetryRecord(store[old]) \in Records
    BY <1>a, RecordOperators
  <2>2. /\ RetryRecord(store[old]).status = "pending"
        /\ RetryRecord(store[old]).approved => store[old].approved /\ store[old].type # "finetune"
    BY DEF RetryRecord, Blank
  <2>3. ~RetryRecord(store[old]).approved
    BY <2>2 DEF SafetyInv, RecordsInv, Approvals
  <2> QED
    BY <1>2, <2>1, <2>2, <2>3, EnqueueEnds DEF RetryJob
<1>3. ASSUME NEW j \in Jobs, CancelJob(h, j) \/ ApproveJob(h, j)
      PROVE  EndInv'
  <2>1. /\ UNCHANGED <<outcome, audit, snap, store>> /\ job[h] = NoJob
        /\ \A q \in Procs : q # h => pc'[q] = pc[q] /\ job'[q] = job[q]
    BY <1>3, <1>a DEF CancelJob, ApproveJob, Accept, workVars
  <2> QED
    BY <2>1, RequestEnds
<1>4. ASSUME NEW j \in Jobs, DeleteJob(h, j)
      PROVE  EndInv'
  <2>1. /\ UNCHANGED <<outcome, audit, snap, pc, job>> /\ job[h] = NoJob
        /\ store' = [store EXCEPT ![j] = [Blank EXCEPT !.type = store[j].type]]
    BY <1>4, <1>a DEF DeleteJob, workVars
  <2>2. store'[j].status = "absent" /\ store'[j].type = store[j].type
    BY <1>a, <2>1 DEF Blank
  <2> QED
    BY <1>a, <2>1, <2>2, RequestEnds DEF Open, FailedByWork
<1> QED
  BY <1>1, <1>2, <1>3, <1>4 DEF Request

LEMMA HandsEnds ==
  ASSUME SafetyInv, EndInv, NEW h \in Handlers, NEW c \in Calls, Hands(h, c),
         UNCHANGED <<outcome, audit>>
  PROVE  EndInv'
<1> USE ProcsSplit
<1>a. /\ \A p \in Procs : job[p] \in Jobs \cup {NoJob}
      /\ pc[h] = "dispatch" /\ pc[c] = "unspawned"
      /\ job[h] \in Jobs /\ job[c] = NoJob
      /\ UNCHANGED <<store, snap>>
      /\ \A p \in Procs : p # h /\ p # c => pc'[p] = pc[p] /\ job'[p] = job[p]
      /\ pc'[c] = "spawned" /\ job'[c] = job[h]
  BY DEF SafetyInv, TypeOK, Hands
<1>1. Atomic'
  BY <1>a DEF EndInv, Atomic
<1>2. OpenIsDriven'
  <2> SUFFICES ASSUME NEW j \in Jobs, Open(store[j])
               PROVE  \E q \in Procs : job'[q] = j /\ WillEnd(q)'
    BY <1>a DEF OpenIsDriven, Open, WillEnd
  <2>1. PICK q \in Procs : job[q] = j /\ WillEnd(q)
    BY DEF EndInv, OpenIsDriven
  <2>2. CASE q = h
    BY <1>a, <2>1, <2>2 DEF WillEnd
  <2>3. CASE q # h
    BY <1>a, <2>1, <2>3 DEF WillEnd
  <2> QED
    BY <2>2, <2>3
<1>3. EndIsTold'
  <2>1. \A d \in Calls : job[d] # NoJob => d # c /\ d # h
    BY <1>a
  <2> QED
    BY <1>a, <2>1 DEF EndInv, EndIsTold, WillTellCompleted, WillTellFailed, FailedByWork, Told
<1>4. OutcomeAt(c)' /\ FirstRunAt(c)'
  <2>1. outcome[c] = "none"
    BY <1>a DEF EndInv, OutcomeAt
  <2>2. store[job[h]].type = "single" => \A d \in Calls : job[d] # job[h]
    BY <1>a DEF SafetyInv, RequestsInv, Dispatches
  <2>3. store[job[h]].type = "single" =>
          store[job[h]].status # "completed" /\ ~FailedByWork(store[job[h]])
    BY <1>a, <2>2 DEF EndInv, EndIsTold
  <2> QED
    BY <1>a, <2>1, <2>3 DEF OutcomeAt, FirstRunAt, Type, Record, FailedByWork
<1>5. ASSUME NEW d \in Calls, d # c
      PROVE  OutcomeAt(d)' /\ FirstRunAt(d)'
  BY <1>a, <1>5 DEF EndInv, OutcomeAt, FirstRunAt, Type, Record, FailedByWork
<1> QED
  BY <1>1, <1>2, <1>3, <1>4, <1>5 DEF EndInv

LEMMA HandlerEnds ==
  ASSUME SafetyInv, EndInv, backing = "memory", NEW h \in Handlers, HandlerStep(h)
  PROVE  EndInv'
<1> USE ProcsSplit
<1>a. /\ store \in [Jobs -> Records]
      /\ pc \in [Procs -> HandlerPcs \cup WorkerPcs]
      /\ job \in [Procs -> Jobs \cup {NoJob}]
      /\ handle \in [Handlers -> Calls \cup {NoCall}]
      /\ pc[h] # "idle" => job[h] \in Jobs
  BY DEF SafetyInv, TypeOK, HandlerPcs
<1>b. Base(h) = store[job[h]] /\ ~Fetch(h)
  BY MemoryBase
<1>1. ASSUME NEW c \in Calls, Spawn(h, c) \/ SpawnReplyLost(h, c) \/ RunInBackground(h, c)
      PROVE  EndInv'
  <2>1. Hands(h, c) /\ UNCHANGED <<outcome, audit>>
    BY <1>1, <1>a DEF Spawn, SpawnReplyLost, RunInBackground, SpawnedCall, Hands, frame, workVars
  <2> QED
    BY <2>1, HandsEnds
<1>2. CASE SpawnRaises(h)
  <2>1. /\ UNCHANGED <<outcome, audit, snap, store, job>> /\ job[h] \in Jobs
        /\ pc' = [pc EXCEPT ![h] = "spawn_failed"]
    BY <1>2, <1>a DEF SpawnRaises, Goto, workVars
  <2>2. WillEnd(h)'
    BY <1>a, <2>1 DEF WillEnd
  <2> QED
    BY <1>a, <2>1, <2>2, RequestEnds
<1>3. CASE HandlerKeyError(h)
  <2>1. /\ UNCHANGED <<outcome, audit, snap, store>> /\ job[h] \in Jobs
        /\ store[job[h]].status = "absent"
        /\ \A q \in Procs : q # h => pc'[q] = pc[q] /\ job'[q] = job[q]
    BY <1>3, <1>a DEF HandlerKeyError, Missing, Present, Respond, UpdatingPcs, workVars
  <2> QED
    BY <1>a, <2>1, RequestEnds DEF Open
<1>4. ASSUME SetCall(h) \/ SpawnFailed(h) \/ SetCancelled(h) \/ SetApproved(h)
      PROVE  EndInv'
  <2>1. /\ UNCHANGED <<outcome, audit>> /\ job[h] \in Jobs
        /\ snap' = [snap EXCEPT ![h] = Blank]
        /\ \A q \in Procs : q # h => pc'[q] = pc[q] /\ job'[q] = job[q]
        /\ \A j \in Jobs : j # job[h] => store'[j] = store[j]
    BY <1>4, <1>a DEF SetCall, SpawnFailed, SetCancelled, SetApproved, Save, Respond, Goto, workVars
  <2>2. CASE SetCall(h)
    <3>1. /\ store'[job[h]] = [store[job[h]] EXCEPT !.call = handle[h]]
          /\ pc[h] = "set_call"
      BY <1>a, <1>b, <2>1, <2>2 DEF SetCall, Save
    <3>2. /\ store'[job[h]].status = store[job[h]].status
          /\ store'[job[h]].type = store[job[h]].type
          /\ store'[job[h]].approved = store[job[h]].approved
          /\ store'[job[h]].error = store[job[h]].error
      BY <1>a, <2>1, <3>1 DEF Records
    <3>3. ~WillEnd(h)
      BY <3>1 DEF WillEnd
    <3> QED
      BY <2>1, <3>2, <3>3, RequestEnds DEF Open, FailedByWork
  <2>3. CASE SpawnFailed(h) \/ SetCancelled(h)
    <3>1. \/ store'[job[h]] = SetStatus(store[job[h]], "failed", "spawn")
          \/ store'[job[h]] = SetStatus(store[job[h]], "cancelled", "none")
      BY <1>a, <1>b, <2>1, <2>3 DEF SpawnFailed, SetCancelled, Save
    <3>2. /\ store'[job[h]].type = store[job[h]].type
          /\ \/ store'[job[h]].status = "failed" /\ store'[job[h]].error = "spawn"
             \/ store'[job[h]].status = "cancelled"
      <4>1. store[job[h]] \in Records
        BY <1>a, <2>1
      <4> QED
        BY <3>1, <4>1 DEF Records, SetStatus
    <3> QED
      BY <2>1, <3>2, RequestEnds DEF Open, FailedByWork
  <2>4. CASE SetApproved(h)
    <3>1. /\ store'[job[h]] = [store[job[h]] EXCEPT !.approved = TRUE]
          /\ pc' = [pc EXCEPT ![h] = "dispatch"] /\ job' = job
      BY <1>a, <1>b, <2>1, <2>4 DEF SetApproved, Save, Goto
    <3>2. /\ store'[job[h]].status = store[job[h]].status
          /\ store'[job[h]].type = store[job[h]].type
          /\ store'[job[h]].error = store[job[h]].error
      BY <1>a, <2>1, <3>1 DEF Records
    <3>3. WillEnd(h)' /\ job'[h] = job[h]
      BY <1>a, <3>1 DEF WillEnd
    <3>4. FailedByWork(store'[job[h]]) => FailedByWork(store[job[h]])
      BY <3>2 DEF FailedByWork
    <3> QED
      BY <2>1, <3>2, <3>3, <3>4, RequestEnds
  <2> QED
    BY <1>4, <2>2, <2>3, <2>4
<1> QED
  BY <1>b, <1>1, <1>2, <1>3, <1>4 DEF HandlerStep

-----------------------------------------------------------------------------
LEMMA BackingStays ==
  ASSUME Next
  PROVE  backing' = backing
<1>1. ASSUME NEW h \in Handlers, Request(h) \/ HandlerStep(h) \/ HandlerDies(h)
      PROVE  backing' = backing
  BY <1>1 DEF Request, CreateJob, RetryJob, Enqueue, CancelJob, ApproveJob, DeleteJob, HandlerStep,
              Fetch, Spawn, SpawnReplyLost, RunInBackground, SpawnRaises, SetCall, SpawnFailed,
              SetCancelled, SetApproved, HandlerKeyError, HandlerDies, frame
<1>2. ASSUME NEW c \in Calls, WorkerStep(c) \/ WorkerDies(c)
      PROVE  backing' = backing
  BY <1>2 DEF WorkerStep, Fetch, StartJob, GateFinetune, GateAutomation, EnterSingle, HandlerGone,
              SetRunning, Body, SetCompleted, SetFailed, Note, WorkerKeyError, RetryAttempt, Raised,
              Recheck, Fallback, Report, Finish, WorkerDies, workFrame, frame
<1> QED
  BY <1>1, <1>2 DEF Next, Stop

LEMMA EndInit == Init => EndInv
<1> SUFFICES ASSUME Init PROVE EndInv
  OBVIOUS
<1>1. /\ store = [j \in Jobs |-> Blank] /\ snap = [p \in Procs |-> Blank]
      /\ \A c \in Calls : pc[c] = "unspawned" /\ outcome[c] = "none"
  BY ProcsSplit DEF Init
<1> QED
  BY <1>1 DEF EndInv, Atomic, OpenIsDriven, EndIsTold, OutcomeAt, FirstRunAt, Open, FailedByWork,
              Blank

LEMMA NextEnds ==
  ASSUME SafetyInv, backing = "memory" => EndInv, [Next]_vars, backing' = "memory"
  PROVE  EndInv'
<1>1. backing = "memory"
  BY BackingStays DEF vars
<1>2. ASSUME NEW h \in Handlers, Request(h) \/ HandlerStep(h)
      PROVE  EndInv'
  BY <1>1, <1>2, RequestStepEnds, HandlerEnds
<1>3. ASSUME NEW c \in Calls, WorkerStep(c)
      PROVE  EndInv'
  BY <1>1, <1>3, WorkerEnds
<1>4. ~Stop
  BY <1>1 DEF Stop, HandlerDies, WorkerDies
<1>5. CASE UNCHANGED vars
  BY <1>1, <1>5 DEF vars, EndInv, Atomic, OpenIsDriven, EndIsTold, OutcomeAt, FirstRunAt, Open,
                    FailedByWork, Told, WillEnd, WillTellCompleted, WillTellFailed, Type, Record
<1> QED
  BY <1>2, <1>3, <1>4, <1>5 DEF Next

(***************************************************************************)
(* Over the in-memory store a job that is open has a process at it that    *)
(* will end it, and a job that ended has a worker that sent the event of   *)
(* its end to the audit trail, or is still about to.                       *)
(***************************************************************************)
THEOREM EndsAreDriven == Spec => [](backing = "memory" => EndInv)
<1>1. Init => (backing = "memory" => EndInv)
  BY EndInit
<1>2. SafetyInv /\ (backing = "memory" => EndInv) /\ [Next]_vars => (backing = "memory" => EndInv)'
  BY NextEnds
<1> QED
  BY <1>1, <1>2, SafetyInvariant, PTL DEF Spec

(***************************************************************************)
(* With atomic updates no job is left behind, whatever creates, retries,   *)
(* cancels, approvals, deletes, lost replies and workers overlap: once     *)
(* nobody is at a job it has ended, or it is a fine-tune that can still be *)
(* approved, and the audit trail tells how it ended, unless that event was *)
(* lost on its way (run_job).                                              *)
(***************************************************************************)
THEOREM JobsSettle == Spec => []Settled
<1>1. SafetyInv /\ (backing = "memory" => EndInv) => Settled
  <2> SUFFICES ASSUME SafetyInv, EndInv, NEW j \in Jobs, Present(j), Quiet(j)
               PROVE  Decided(j) /\ Audited(j)
    BY DEF Settled
  <2> USE ProcsSplit
  <2>1. \A p \in Procs : job[p] = j => pc[p] \in {"idle", "unspawned", "ended"}
    BY DEF Quiet, Active
  <2>2. ~Open(store[j])
    BY <2>1 DEF EndInv, OpenIsDriven, WillEnd
  <2>3. store[j].status \in Statuses
    BY DEF SafetyInv, TypeOK, Records, Present
  <2>4. Decided(j)
    BY <2>2, <2>3 DEF Decided, Open, Unapproved, Statuses
  <2>5. Audited(j)
    BY <2>1 DEF EndInv, EndIsTold, WillTellCompleted, WillTellFailed, Audited, FailedByWork
  <2> QED
    BY <2>4, <2>5
<1> QED
  BY <1>1, SafetyInvariant, EndsAreDriven, PTL

(***************************************************************************)
(* With atomic updates a job that is tried once ends once: no update that  *)
(* overlaps the worker, and no second worker, opens it again.              *)
(***************************************************************************)
THEOREM SinglesEndOnce == Spec => EndsOnce
<1>1. SafetyInv /\ (backing = "memory" => EndInv) /\ [Next]_vars =>
        [\A j \in Jobs : backing = "memory" => ~Reopened(j)]_vars
  <2> SUFFICES ASSUME SafetyInv, EndInv, backing = "memory", Next, NEW j \in Jobs,
                      store[j].type = "single",
                      store[j].status = "completed" \/ FailedByWork(store[j])
               PROVE  store'[j].status \notin {"pending", "running"}
    BY DEF Reopened, FailedByWork
  <2> USE ProcsSplit
  <2>1. store \in [Jobs -> Records] /\ j \in used
    BY DEF SafetyInv, TypeOK, RecordsInv, IdsInUse, Present, FailedByWork
  <2>2. ASSUME NEW h \in Handlers, Request(h)
        PROVE  store'[j].status \notin {"pending", "running"}
    <3>1. ASSUME NEW i \in Jobs, NEW rec, Enqueue(h, i, rec)
          PROVE  store'[j] = store[j]
      BY <2>1, <3>1 DEF Enqueue
    <3>2. ASSUME NEW i \in Jobs, CancelJob(h, i) \/ ApproveJob(h, i)
          PROVE  store'[j] = store[j]
      BY <3>2 DEF CancelJob, ApproveJob
    <3>3. ASSUME NEW i \in Jobs, DeleteJob(h, i)
          PROVE  store'[j] = store[j] \/ store'[j].status = "absent"
      BY <2>1, <3>3 DEF DeleteJob, Blank
    <3> QED
      BY <2>2, <3>1, <3>2, <3>3, ConstantsAssumption DEF Request, CreateJob, RetryJob, FailedByWork
  <2>3. ASSUME NEW h \in Handlers, HandlerStep(h)
        PROVE  store'[j].status \notin {"pending", "running"}
    <3>1. Base(h) = store[job[h]]
      BY MemoryBase
    <3>2. CASE SetCall(h) \/ SpawnFailed(h) \/ SetCancelled(h) \/ SetApproved(h)
      <4>1. PICK rec \in {[store[job[h]] EXCEPT !.call = handle[h]],
                          SetStatus(store[job[h]], "failed", "spawn"),
                          SetStatus(store[job[h]], "cancelled", "none"),
                          [store[job[h]] EXCEPT !.approved = TRUE]} :
                   store' = [store EXCEPT ![job[h]] = rec]
        BY <3>1, <3>2 DEF SetCall, SpawnFailed, SetCancelled, SetApproved, Save
      <4>2. CASE job[h] = j
        BY <2>1, <4>1, <4>2 DEF SetStatus, Records, FailedByWork
      <4>3. CASE job[h] # j
        BY <2>1, <4>1, <4>3 DEF FailedByWork
      <4> QED
        BY <4>2, <4>3
    <3>3. CASE ~(SetCall(h) \/ SpawnFailed(h) \/ SetCancelled(h) \/ SetApproved(h))
      BY <2>3, <3>3 DEF HandlerStep, Fetch, Spawn, SpawnReplyLost, RunInBackground, SpawnRaises,
                        HandlerKeyError, FailedByWork
    <3> QED
      BY <3>2, <3>3
  <2>4. ASSUME NEW c \in Calls, WorkerStep(c)
        PROVE  store'[j].status \notin {"pending", "running"}
    <3>1. CASE SetRunning(c)
      <4>1. job[c] # j
        BY <3>1 DEF SetRunning, EndInv, FirstRunAt, Type, Record
      <4> QED
        BY <2>1, <3>1, <4>1 DEF SetRunning, Save, FailedByWork
    <3>2. CASE SetCompleted(c) \/ SetFailed(c) \/ Note(c) \/ Fallback(c)
      <4>1. Base(c) = store[job[c]]
        BY MemoryBase
      <4>2. PICK rec \in {store[job[c]], SetStatus(store[job[c]], "completed", "none"),
                          SetStatus(store[job[c]], "failed", "run")} :
                   store' = [store EXCEPT ![job[c]] = rec]
        BY <3>2, <4>1 DEF SetCompleted, SetFailed, Note, Fallback, Save
      <4>3. CASE job[c] = j
        BY <2>1, <4>2, <4>3 DEF SetStatus, Records, FailedByWork
      <4>4. CASE job[c] # j
        BY <2>1, <4>2, <4>4 DEF FailedByWork
      <4> QED
        BY <4>3, <4>4
    <3>3. CASE ~(SetRunning(c) \/ SetCompleted(c) \/ SetFailed(c) \/ Note(c) \/ Fallback(c))
      BY <2>4, <3>3 DEF WorkerStep, Fetch, StartJob, GateFinetune, GateAutomation, EnterSingle,
                        HandlerGone, Body, WorkerKeyError, RetryAttempt, Raised, Recheck, Report,
                        Finish, FailedByWork
    <3> QED
      BY <3>1, <3>2, <3>3
  <2>5. ~Stop
    BY DEF Stop, HandlerDies, WorkerDies
  <2> QED
    BY <2>2, <2>3, <2>4, <2>5 DEF Next
<1> QED
  BY <1>1, SafetyInvariant, EndsAreDriven, PTL DEF Spec, EndsOnce

-----------------------------------------------------------------------------
(***************************************************************************)
(* The refinement: each step is a move of one job in JobPromise, or none.  *)
(***************************************************************************)
\* nobody but an operator's request works on a fine-tune that is not approved
ApprovedAtWork ==
  \A p \in Procs : Active(p) /\ Present(job[p]) /\ Unapproved(job[p]) =>
    pc[p] \in {"set_cancelled", "set_approved"}

PromiseInv == SafetyInv /\ (backing = "memory" => EndInv /\ ApprovedAtWork)

\* nothing of another job than i is touched
Touches(i) ==
  /\ UNCHANGED backing
  /\ \A j \in Jobs : j # i => store'[j] = store[j] /\ (j \in used' <=> j \in used)
  /\ \A q \in Procs : (job'[q] = job[q] /\ pc'[q] = pc[q])
                       \/ (job[q] \in {i, NoJob} /\ job'[q] \in {i, NoJob})

\* what a step of a process does to the job it works on
WorksOn(p, i) ==
  /\ job[p] = i /\ i \in Jobs /\ Active(p) /\ Touches(i)
  /\ used' = used
  /\ Present(i)' <=> Present(i)
  /\ store'[i].type = store[i].type
  /\ Present(i) /\ store[i].approved => store'[i].approved
  /\ \A q \in Procs \ {p} :
       (job'[q] = job[q] /\ pc'[q] = pc[q]) \/ pc[p] = "dispatch"
  /\ Active(p)' => job'[p] = i
  /\ pc[p] \in {"set_cancelled", "set_approved"} /\ Present(i) =>
       \/ store'[i].status \in Terminal /\ ~Active(p)'
       \/ store'[i].approved /\ Active(p)'

LEMMA OthersStay ==
  ASSUME PromiseInv, backing = "memory", NEW i \in Jobs, Touches(i), NEW j \in Jobs, j # i
  PROVE  View'[j] = View[j]
<1>1. backing' = "memory" /\ store'[j] = store[j] /\ (j \in used' <=> j \in used)
  BY DEF Touches
<1>2. \A q \in Procs : (job'[q] = j <=> job[q] = j) /\ (job[q] = j => pc'[q] = pc[q])
  BY ProcsSplit DEF Touches
<1>3. Quiet(j)' <=> Quiet(j)
  BY <1>2 DEF Quiet, Active
<1>4. Present(j)' <=> Present(j)
  BY <1>1 DEF Present
<1>5. Where(j)' = Where(j)
  BY <1>1, <1>3, <1>4 DEF Where
<1> QED
  BY <1>1, <1>5 DEF View

LEMMA MoveOf ==
  ASSUME PromiseInv, backing = "memory", NEW i \in Jobs, Touches(i),
         \/ Where(i)' = Where(i)
         \/ <<Where(i), Where(i)'>> \in
               Promise!Submit \cup Promise!Decide \cup Promise!Rest \cup Promise!Delete
  PROVE  [Promise!Move]_View
<1>1. /\ View[i] = Where(i) /\ View'[i] = Where(i)'
      /\ View = [j \in Jobs |-> View[j]] /\ View' = [j \in Jobs |-> View'[j]]
  BY DEF View, Touches
<1>2. \A j \in Jobs : j # i => View'[j] = View[j]
  BY OthersStay
<1>3. View' = [View EXCEPT ![i] = View'[i]]
  BY <1>1, <1>2
<1>4. CASE Where(i)' = Where(i)
  BY <1>1, <1>2, <1>4
<1>5. CASE <<Where(i), Where(i)'>> \in
             Promise!Submit \cup Promise!Decide \cup Promise!Rest \cup Promise!Delete
  BY <1>1, <1>3, <1>5 DEF Promise!Move
<1> QED
  BY <1>4, <1>5

LEMMA WorkerWorks ==
  ASSUME SafetyInv, backing = "memory", NEW c \in Calls, WorkerStep(c)
  PROVE  \E i \in Jobs : WorksOn(c, i)
<1> USE ProcsSplit
<1>1. pc[c] \notin {"unspawned", "ended"}
  BY DEF WorkerStep, Fetch, UpdatingPcs, StartJob, GateFinetune, GateAutomation, EnterSingle,
         HandlerGone, SetRunning, Body, SetCompleted, SetFailed, Note, WorkerKeyError,
         RetryAttempt, Raised, Recheck, Fallback, Report, Finish
<1>2. /\ store \in [Jobs -> Records] /\ pc[c] \in WorkerPcs
      /\ job[c] \in Jobs
  BY <1>1 DEF SafetyInv, TypeOK, WorkerPcs
<1>i. PICK i \in Jobs : i = job[c]
  BY <1>2
<1>3. Active(c) /\ pc[c] \notin {"dispatch", "set_cancelled", "set_approved"}
  BY <1>1, <1>2 DEF Active, WorkerPcs
<1>4. /\ UNCHANGED <<backing, used, job>>
      /\ \A p \in Procs : p # c => pc'[p] = pc[p]
      /\ \/ Lets(c)
         \/ \E rec \in Rewrites(c) : Save(c, rec)
  <2>1. backing' = backing
    BY BackingStays DEF Next
  <2> QED
    BY <2>1, WorkerEffect, MemoryBase DEF SafetyInv, RecordsInv
<1>5. /\ \A j \in Jobs : j # i => store'[j] = store[j]
      /\ store'[i].type = store[i].type
      /\ store'[i].approved = store[i].approved
      /\ Present(i)' <=> Present(i)
  <2>1. CASE Lets(c)
    BY <1>i, <1>4, <2>1 DEF Lets, Present
  <2>2. ASSUME NEW rec \in Rewrites(c), Save(c, rec)
        PROVE  /\ \A j \in Jobs : j # i => store'[j] = store[j]
               /\ store'[i].type = store[i].type
               /\ store'[i].approved = store[i].approved
               /\ Present(i)' <=> Present(i)
    <3>1. /\ Base(c) = store[i] /\ store[i] \in Records
          /\ store[i].status # "absent"
          /\ store' = [store EXCEPT ![i] = rec]
      BY <2>2, <1>2, <1>i, MemoryBase DEF Save
    <3>2. rec.type = store[i].type /\ rec.approved = store[i].approved
      BY <2>2, <3>1, StatusKeeps DEF Rewrites, Statuses, Terminal, Errors
    <3>3. rec.status # "absent"
      BY <2>2, <3>1 DEF Rewrites, SetStatus, Records
    <3> QED
      BY <3>1, <3>2, <3>3, <1>2, <1>i, <1>4 DEF Present
  <2> QED
    BY <1>4, <2>1, <2>2
<1> QED
  BY <1>2, <1>i, <1>3, <1>4, <1>5 DEF WorksOn, Touches

LEMMA HandlerWorks ==
  ASSUME SafetyInv, backing = "memory", NEW h \in Handlers, HandlerStep(h)
  PROVE  \E i \in Jobs : WorksOn(h, i)
<1> USE ProcsSplit
<1>1. pc[h] # "idle"
  BY DEF HandlerStep, Fetch, UpdatingPcs, Spawn, SpawnReplyLost, RunInBackground, SpawnedCall,
         SpawnRaises, SetCall, SpawnFailed, SetCancelled, SetApproved, HandlerKeyError
<1>2. /\ store \in [Jobs -> Records] /\ pc[h] \in HandlerPcs
      /\ job \in [Procs -> Jobs \cup {NoJob}] /\ pc \in [Procs -> HandlerPcs \cup WorkerPcs]
      /\ job[h] \in Jobs
      /\ \A c \in Calls : pc[c] = "unspawned" => job[c] = NoJob
  BY <1>1 DEF SafetyInv, TypeOK, HandlerPcs
<1>i. PICK i \in Jobs : i = job[h]
  BY <1>2
<1>3. Active(h) /\ backing' = backing
  BY <1>1, <1>2, BackingStays DEF Active, HandlerPcs, Next
<1>4. Base(h) = store[i] /\ ~Fetch(h)
  BY <1>i, MemoryBase
<1>5. ASSUME NEW c \in Calls, Spawn(h, c) \/ SpawnReplyLost(h, c) \/ RunInBackground(h, c)
      PROVE  WorksOn(h, i)
  <2>1. /\ pc[h] = "dispatch" /\ pc[c] = "unspawned" /\ UNCHANGED <<used, store>>
        /\ \A q \in Procs : q # h /\ q # c => pc'[q] = pc[q] /\ job'[q] = job[q]
        /\ job'[c] = i
        /\ \/ job'[h] = i
           \/ job'[h] = NoJob /\ pc'[h] = "idle"
    BY <1>2, <1>i, <1>5 DEF Spawn, SpawnReplyLost, RunInBackground, SpawnedCall, frame
  <2> QED
    BY <1>2, <1>i, <1>3, <2>1 DEF WorksOn, Touches, Present, Active
<1>6. ASSUME SpawnRaises(h) \/ HandlerKeyError(h)
      PROVE  WorksOn(h, i)
  <2>1. /\ UNCHANGED <<used, store>>
        /\ \A q \in Procs : q # h => pc'[q] = pc[q] /\ job'[q] = job[q]
        /\ job'[h] = i \/ (job'[h] = NoJob /\ pc'[h] = "idle")
        /\ pc[h] = "dispatch" \/ ~Present(i)
    BY <1>2, <1>i, <1>6 DEF SpawnRaises, HandlerKeyError, Goto, Respond, Missing, frame
  <2> QED
    BY <1>2, <1>i, <1>3, <2>1 DEF WorksOn, Touches, Present, Active
<1>7. ASSUME SetCall(h) \/ SpawnFailed(h) \/ SetCancelled(h) \/ SetApproved(h)
      PROVE  WorksOn(h, i)
  <2>1. PICK rec \in {[store[i] EXCEPT !.call = handle[h]],
                      SetStatus(store[i], "failed", "spawn"),
                      SetStatus(store[i], "cancelled", "none"),
                      [store[i] EXCEPT !.approved = TRUE]} :
               /\ store' = [store EXCEPT ![i] = rec]
               /\ pc[h] = "set_cancelled" => rec = SetStatus(store[i], "cancelled", "none")
               /\ pc[h] = "set_approved" => rec = [store[i] EXCEPT !.approved = TRUE]
    BY <1>i, <1>4, <1>7 DEF SetCall, SpawnFailed, SetCancelled, SetApproved, Save
  <2>2. /\ store[i].status # "absent" /\ UNCHANGED used
        /\ \A q \in Procs : q # h => pc'[q] = pc[q] /\ job'[q] = job[q]
        /\ \/ job'[h] = NoJob /\ pc'[h] = "idle" /\ pc[h] # "set_approved"
           \/ job'[h] = i /\ pc'[h] = "dispatch" /\ pc[h] = "set_approved"
    BY <1>2, <1>i, <1>4, <1>7 DEF SetCall, SpawnFailed, SetCancelled, SetApproved, Save, Respond, Goto, frame
  <2>3. /\ rec.type = store[i].type
        /\ store[i].approved => rec.approved
        /\ rec.status # "absent"
        /\ pc[h] = "set_cancelled" => rec.status = "cancelled"
        /\ pc[h] = "set_approved" => rec.approved
    <3>1. store[i] \in Records
      BY <1>2
    <3>2. CASE rec = [store[i] EXCEPT !.call = handle[h]]
      <4>1. rec.approved = store[i].approved
        BY <3>1, <3>2 DEF Records
      <4> QED
        BY <2>1, <2>2, <3>1, <3>2, <4>1 DEF Records, SetStatus
    <3>3. CASE rec = SetStatus(store[i], "failed", "spawn")
      BY <2>1, <3>1, <3>3 DEF Records, SetStatus
    <3>4. CASE rec = SetStatus(store[i], "cancelled", "none")
      BY <2>1, <3>1, <3>4 DEF Records, SetStatus
    <3>5. CASE rec = [store[i] EXCEPT !.approved = TRUE]
      BY <2>1, <2>2, <3>1, <3>5 DEF Records, SetStatus
    <3> QED
      BY <2>1, <3>2, <3>3, <3>4, <3>5
  <2>4. /\ store'[i] = rec
        /\ \A j \in Jobs : j # i => store'[j] = store[j]
    BY <1>2, <2>1
  <2>5. Touches(i)
    BY <1>i, <1>3, <2>2, <2>4 DEF Touches
  <2>6. /\ \/ ~Active(h)' /\ pc[h] # "set_approved"
           \/ Active(h)' /\ job'[h] = i /\ pc[h] = "set_approved"
        /\ Present(i)' /\ Present(i)
    BY <2>2, <2>3, <2>4 DEF Active, Present
  <2> QED
    BY <1>i, <1>3, <2>2, <2>3, <2>4, <2>5, <2>6 DEF WorksOn, Terminal
<1> QED
  BY <1>4, <1>5, <1>6, <1>7 DEF HandlerStep

LEMMA WorkPromised ==
  ASSUME PromiseInv, SafetyInv', Settled', backing = "memory",
         NEW p \in Procs, NEW i \in Jobs, WorksOn(p, i)
  PROVE  ApprovedAtWork' /\ [Promise!Move]_View
<1> USE ProcsSplit
<1>1. /\ job[p] = i /\ Active(p) /\ Touches(i) /\ i \in used /\ i \in used'
      /\ backing' = "memory"
  BY DEF WorksOn, Touches, PromiseInv, SafetyInv, RecordsInv, IdsInUse
<1>2. Present(i) /\ Unapproved(i)' => pc[p] \in {"set_cancelled", "set_approved"}
  BY <1>1 DEF WorksOn, PromiseInv, ApprovedAtWork, Unapproved
<1>3. Present(i) /\ Unapproved(i)' => store'[i].status \in Terminal /\ ~Active(p)'
  BY <1>2 DEF WorksOn, Unapproved
<1>4. ApprovedAtWork'
  <2> SUFFICES ASSUME NEW q \in Procs, NEW j \in Jobs, j = job'[q], Active(q)',
                      Present(j)', Unapproved(j)'
               PROVE  pc'[q] \in {"set_cancelled", "set_approved"}
    <3>1. \A q \in Procs : Active(q)' => job'[q] \in Jobs
      BY DEF SafetyInv, TypeOK, Active
    <3> QED
      BY <3>1 DEF ApprovedAtWork, Present, Unapproved
  <2>1. ASSUME job'[q] = job[q], pc'[q] = pc[q], Present(j), Unapproved(j)
        PROVE  pc'[q] \in {"set_cancelled", "set_approved"}
    BY <1>1, <2>1 DEF PromiseInv, ApprovedAtWork, Active
  <2>2. CASE j # i
    BY <1>1, <2>1, <2>2 DEF Touches, Present, Unapproved
  <2>3. CASE j = i
    <3>1. Present(i) /\ Unapproved(i)
      BY <2>3 DEF WorksOn, Unapproved
    <3>2. q # p /\ pc[p] # "dispatch"
      BY <1>2, <1>3, <2>3, <3>1
    <3>3. job'[q] = job[q] /\ pc'[q] = pc[q]
      BY <3>2 DEF WorksOn
    <3> QED
      BY <2>1, <2>3, <3>1, <3>3
  <2> QED
    BY <2>2, <2>3
<1>5. CASE ~Present(i)
  <2>1. Where(i) = "gone" /\ Where(i)' = "gone"
    BY <1>1, <1>5 DEF Where, WorksOn
  <2> QED
    BY <1>1, <1>4, <2>1, MoveOf
<1>6. CASE Present(i)
  <2>1. Present(i)' /\ Where(i) = "open"
    BY <1>1, <1>6 DEF Where, WorksOn, Quiet
  <2>2. CASE ~Quiet(i)'
    <3>1. Where(i)' = "open"
      BY <1>1, <2>1, <2>2 DEF Where
    <3> QED
      BY <1>1, <1>4, <2>1, <3>1, MoveOf
  <2>3. CASE Quiet(i)'
    <3>1. store'[i].status \in Terminal
      BY <1>1, <1>3, <1>6, <2>1, <2>3 DEF Settled, Decided, Unapproved
    <3>2. Where(i)' = store'[i].status
      BY <1>1, <2>1, <2>3, <3>1 DEF Where
    <3>3. <<Where(i), Where(i)'>> \in Promise!Rest
      BY <2>1, <3>1, <3>2 DEF Promise!Rest
    <3> QED
      BY <1>1, <1>4, <3>3, MoveOf
  <2> QED
    BY <2>2, <2>3
<1> QED
  BY <1>5, <1>6

LEMMA EnqueuePromised ==
  ASSUME PromiseInv, backing = "memory", NEW h \in Handlers, NEW j \in Jobs,
         NEW rec \in Records, Enqueue(h, j, rec), rec.status = "pending"
  PROVE  ApprovedAtWork' /\ [Promise!Move]_View
<1> USE ProcsSplit
<1>1. /\ store \in [Jobs -> Records]
      /\ pc \in [Procs -> HandlerPcs \cup WorkerPcs]
      /\ job \in [Procs -> Jobs \cup {NoJob}]
      /\ \A p \in Procs : Active(p) => job[p] \in Jobs
      /\ job[h] = NoJob /\ \A p \in Procs : job[p] # j
  BY DEF Enqueue, Accept, PromiseInv, SafetyInv, TypeOK, RecordsInv, IdsInUse, Active
<1>2. /\ backing' = "memory" /\ j \notin used /\ used' = used \cup {j}
      /\ store' = [store EXCEPT ![j] = rec]
      /\ \/ UNCHANGED <<pc, job>> /\ rec.type = "finetune"
         \/ pc' = [pc EXCEPT ![h] = "dispatch"] /\ job' = [job EXCEPT ![h] = j]
            /\ rec.type # "finetune"
  BY DEF Enqueue, Accept
<1>3. Touches(j)
  BY <1>1, <1>2 DEF Touches
<1>4. ApprovedAtWork'
  BY <1>1, <1>2 DEF PromiseInv, ApprovedAtWork, Active, Present, Unapproved
<1>5. Where(j) = "new"
  <2>1. ~Present(j)
    BY <1>2 DEF PromiseInv, SafetyInv, RecordsInv, IdsInUse
  <2> QED
    BY <1>2, <2>1 DEF Where
<1>6. Present(j)' /\ store'[j].status \notin Terminal /\ j \in used'
  BY <1>1, <1>2 DEF Present, Terminal
<1>7. Where(j)' \in {"open", "waiting"}
  BY <1>6 DEF Where
<1>8. <<Where(j), Where(j)'>> \in Promise!Submit
  BY <1>5, <1>7 DEF Promise!Submit
<1> QED
  BY <1>3, <1>4, <1>8, MoveOf

LEMMA RequestPromised ==
  ASSUME PromiseInv, backing = "memory", NEW h \in Handlers, Request(h)
  PROVE  ApprovedAtWork' /\ [Promise!Move]_View
<1>a. /\ store \in [Jobs -> Records]
      /\ pc \in [Procs -> HandlerPcs \cup WorkerPcs]
      /\ job \in [Procs -> Jobs \cup {NoJob}]
      /\ \A p \in Procs : Active(p) => job[p] \in Jobs
      /\ pc[h] = "idle" => job[h] = NoJob
      /\ \A j \in Jobs : Present(j) => j \in used
  BY ProcsSplit DEF PromiseInv, SafetyInv, TypeOK, RecordsInv, IdsInUse, Active
<1>1. ASSUME NEW j \in Submitted, NEW t \in JobTypes, CreateJob(h, j, t)
      PROVE  ApprovedAtWork' /\ [Promise!Move]_View
  <2> DEFINE rec == [Blank EXCEPT !.type = t, !.status = "pending"]
  <2>1. j \in Jobs /\ rec \in Records
    BY ConstantsAssumption, RecordOperators
  <2>2. rec.status = "pending"
    BY DEF Blank
  <2> QED
    BY <1>1, <2>1, <2>2, EnqueuePromised DEF CreateJob
<1>2. ASSUME NEW old \in Jobs, NEW j \in Jobs \ Submitted, RetryJob(h, old, j)
      PROVE  ApprovedAtWork' /\ [Promise!Move]_View
  <2>1. RetryRecord(store[old]) \in Records
    BY <1>a, RecordOperators
  <2>2. RetryRecord(store[old]).status = "pending"
    BY DEF RetryRecord, Blank
  <2> QED
    BY <1>2, <2>1, <2>2, EnqueuePromised DEF RetryJob
<1>3. ASSUME NEW j \in Jobs, CancelJob(h, j) \/ ApproveJob(h, j)
      PROVE  ApprovedAtWork' /\ [Promise!Move]_View
  <2>1. /\ UNCHANGED <<store, used, backing>> /\ job[h] = NoJob
        /\ store[j].status \in {"pending", "running"}
        /\ \A q \in Procs : q # h => pc'[q] = pc[q] /\ job'[q] = job[q]
        /\ job'[h] = j /\ pc'[h] \in {"set_cancelled", "set_approved"}
    BY <1>3, <1>a, ProcsSplit DEF CancelJob, ApproveJob, Accept
  <2>2. Touches(j)
    BY <2>1 DEF Touches
  <2>3. ApprovedAtWork'
    BY <2>1 DEF PromiseInv, ApprovedAtWork, Active, Present, Unapproved
  <2>4. Present(j) /\ j \in used /\ store[j].status \notin Terminal
    BY <1>a, <2>1 DEF Present, Terminal
  <2>5. Where(j) \in {"open", "waiting"}
    BY <2>4 DEF Where
  <2>6. Active(h)' /\ ~Quiet(j)' /\ Present(j)' /\ j \in used'
    BY <2>1, <2>4, ProcsSplit DEF Active, Quiet, Present
  <2>7. Where(j)' = "open"
    BY <2>6 DEF Where
  <2>8. Where(j)' = Where(j) \/ <<Where(j), Where(j)'>> \in Promise!Decide
    BY <2>5, <2>7 DEF Promise!Decide
  <2> QED
    BY <2>2, <2>3, <2>8, MoveOf
<1>4. ASSUME NEW j \in Jobs, DeleteJob(h, j)
      PROVE  ApprovedAtWork' /\ [Promise!Move]_View
  <2>1. /\ UNCHANGED <<backing, used, pc, job>> /\ Present(j) /\ j \in used
        /\ store' = [store EXCEPT ![j] = [Blank EXCEPT !.type = store[j].type]]
    BY <1>4, <1>a DEF DeleteJob, frame
  <2>2. ~Present(j)' /\ j \in used' /\ Touches(j)
    BY <1>a, <2>1 DEF Blank, Present, Touches
  <2>3. ApprovedAtWork'
    <3>1. \A k \in Jobs : k = j \/ store'[k] = store[k]
      BY <1>a, <2>1
    <3> QED
      BY <1>a, <2>1, <2>2, <3>1 DEF PromiseInv, ApprovedAtWork, Active, Present, Unapproved
  <2>4. Where(j) \in {"open", "waiting"} \cup Terminal
    BY <2>1 DEF Where
  <2>5. Where(j)' = "gone"
    BY <2>2 DEF Where
  <2>6. <<Where(j), Where(j)'>> \in Promise!Delete
    BY <2>4, <2>5 DEF Promise!Delete
  <2> QED
    BY <2>2, <2>3, <2>6, MoveOf
<1> QED
  BY <1>1, <1>2, <1>3, <1>4 DEF Request

(***************************************************************************)
(* Over the in-memory store the requests and the workers together are one  *)
(* step of JobPromise at a time: a job is submitted once, comes to rest at *)
(* completed, failed or cancelled for good, whoever raced with whom, and a *)
(* deleted one does not come back (create_job, retry_job, cancel_job,      *)
(* approve_job, delete_job, run_job).                                      *)
(***************************************************************************)
THEOREM PromiseKept == Spec => JobsKeepPromise
<1>1. Init => ApprovedAtWork /\ Promise!Nothing
  <2>1. Init => ApprovedAtWork
    BY ProcsSplit DEF Init, ApprovedAtWork, Active, Procs
  <2>2. Init => Promise!Nothing
    <3> SUFFICES ASSUME Init, NEW j \in Jobs PROVE View[j] = "new"
      BY DEF Promise!Nothing, View
    <3>1. j \notin used /\ ~Present(j)
      BY DEF Init, Present, Blank
    <3> QED
      BY <3>1 DEF View, Where
  <2> QED
    BY <2>1, <2>2
<1>2. /\ SafetyInv /\ (backing = "memory" => EndInv) /\ (backing = "memory" => ApprovedAtWork)
      /\ SafetyInv' /\ Settled' /\ [Next]_vars
      => (backing = "memory" => ApprovedAtWork)' /\ [Promise!Move]_View
  <2> SUFFICES ASSUME PromiseInv, SafetyInv', Settled', [Next]_vars
               PROVE  (backing' = "memory" => ApprovedAtWork') /\ [Promise!Move]_View
    BY DEF PromiseInv
  <2>1. backing' = backing
    BY BackingStays DEF vars
  <2>2. CASE backing # "memory"
    BY <2>1, <2>2 DEF View
  <2>3. CASE UNCHANGED vars
    BY <2>3 DEF vars, PromiseInv, ApprovedAtWork, Active, Present, Unapproved, View, Where, Quiet
  <2>4. CASE backing = "memory" /\ Next
    <3>1. ~Stop
      BY <2>4 DEF Stop, HandlerDies, WorkerDies
    <3>2. ASSUME NEW h \in Handlers, Request(h)
          PROVE  ApprovedAtWork' /\ [Promise!Move]_View
      BY <2>4, <3>2, RequestPromised
    <3>3. ASSUME NEW h \in Handlers, HandlerStep(h)
          PROVE  ApprovedAtWork' /\ [Promise!Move]_View
      BY <2>4, <3>3, HandlerWorks, WorkPromised, ProcsSplit DEF PromiseInv
    <3>4. ASSUME NEW c \in Calls, WorkerStep(c)
          PROVE  ApprovedAtWork' /\ [Promise!Move]_View
      BY <2>4, <3>4, WorkerWorks, WorkPromised, ProcsSplit DEF PromiseInv
    <3> QED
      BY <2>4, <3>1, <3>2, <3>3, <3>4 DEF Next
  <2> QED
    BY <2>2, <2>3, <2>4
<1> QED
  BY <1>1, <1>2, SafetyInvariant, EndsAreDriven, JobsSettle, PTL
     DEF Spec, JobsKeepPromise, Promise!PromiseSpec
=============================================================================
