---------------------------- MODULE JobLifecycle ----------------------------
(***************************************************************************)
(* The data-management job store and everything that writes it: the HTTP   *)
(* routes of the admin app (create, cancel, approve, retry, delete, and    *)
(* the dispatch they share) and the worker function that runs a job.       *)
(*                                                                         *)
(* The routes run in any number of web containers and each worker in a     *)
(* container of its own; the store is all they share.  The code has two    *)
(* stores behind one interface.  In DictJobStore (production) update_job   *)
(* gets the payload from a shared dict, changes it and puts it back: two   *)
(* steps.  In InMemoryJobStore (local and tests) the same call holds a     *)
(* lock: one step, and get_job hands out the live record.  backing, chosen *)
(* once, says which of the two the app was built with.                     *)
(***************************************************************************)
EXTENDS Naturals, FiniteSets

CONSTANTS
  Jobs,           \* job ids; a created job takes one that was never used
  Submitted,      \* the ids clients create jobs under, the others serve retries
  Handlers,       \* requests the web app can serve at one time
  Calls,          \* worker function calls that can be spawned
  NoJob, NoCall,  \* the absent id
  Backings,       \* the stores to consider, a subset of {"memory", "dict"}
  JobTypes,       \* the job types clients submit
  MaxRetries,     \* VECINITA_AUTOMATION_JOB_MAX_RETRIES
  MaxConcurrent,  \* VECINITA_FINETUNE_MAX_CONCURRENT
  MaxRunsPerDay   \* VECINITA_FINETUNE_MAX_RUNS_PER_DAY (one UTC day is modelled)

(***************************************************************************)
(* "single" stands for ingest, retag, rebuild, eval and backfill, which    *)
(* are attempted once; "automation" for automation_catchup and             *)
(* freshness_refresh, which have a gate and retry transient failures.      *)
(***************************************************************************)
AllTypes == {"single", "automation", "finetune"}

ASSUME ConstantsAssumption ==
  /\ Handlers \cap Calls = {}
  /\ Submitted \subseteq Jobs
  /\ NoJob \notin Jobs
  /\ NoCall \notin Calls
  /\ Backings \subseteq {"memory", "dict"}
  /\ JobTypes \subseteq AllTypes
  /\ MaxRetries \in Nat
  /\ MaxConcurrent \in Nat
  /\ MaxRunsPerDay \in Nat

VARIABLES
  backing,   \* which store the app was built with
  store,     \* job id -> record; status "absent" when there is no record
  used,      \* the job ids handed out so far
  pc,        \* what each request and each worker does next
  job,       \* the job it works on
  snap,      \* the payload an update_job over the dict has read, not yet written
  handle,    \* the call id a request holds: spawned, or read from the record
  tries,     \* automation retries a worker has made
  outcome,   \* what the work of a worker came to
  audit,     \* the terminal audit events a worker has sent, and what became of them
  granted,   \* jobs some approve request has accepted
  doomed     \* calls FunctionCall.cancel was asked for

vars == <<backing, store, used, pc, job, snap, handle, tries, outcome, audit,
          granted, doomed>>

workVars == <<tries, outcome, audit>>
frame    == <<backing, used, granted, doomed>>

Procs == Handlers \cup Calls

Terminal == {"completed", "failed", "cancelled"}
Statuses == {"pending", "running"} \cup Terminal
Errors   == {"none", "spawn", "run"}
AuditEvents == {"job.completed", "job.failed"} \X {"posted", "lost"}

Records == [type : AllTypes, status : Statuses \cup {"absent"},
            approved : BOOLEAN, error : Errors, call : Calls \cup {NoCall}]

Blank == [type |-> "single", status |-> "absent", approved |-> FALSE,
          error |-> "none", call |-> NoCall]

HandlerPcs == {"idle", "dispatch", "set_call", "spawn_failed", "set_cancelled",
               "set_approved"}
WorkerPcs  == {"unspawned", "spawned", "handler", "set_running", "note", "body",
               "set_completed", "set_failed", "raised", "recheck", "fallback",
               "report", "finish", "ended"}

TypeOK ==
  /\ backing \in Backings
  /\ store \in [Jobs -> Records]
  /\ used \subseteq Jobs
  /\ pc \in [Procs -> HandlerPcs \cup WorkerPcs]
  /\ \A h \in Handlers : pc[h] \in HandlerPcs
  /\ \A c \in Calls : pc[c] \in WorkerPcs
  /\ job \in [Procs -> Jobs \cup {NoJob}]
  /\ \A p \in Procs : (job[p] = NoJob) <=> (pc[p] \in {"idle", "unspawned"})
  /\ snap \in [Procs -> Records]
  /\ handle \in [Handlers -> Calls \cup {NoCall}]
  /\ tries \in [Calls -> 0..MaxRetries]
  /\ outcome \in [Calls -> {"none", "ok", "skipped", "error", "transient"}]
  /\ audit \in [Calls -> SUBSET AuditEvents]
  /\ granted \subseteq Jobs
  /\ doomed \subseteq Calls

Init ==
  /\ backing \in Backings
  /\ store = [j \in Jobs |-> Blank]
  /\ used = {}
  /\ pc = [p \in Procs |-> IF p \in Handlers THEN "idle" ELSE "unspawned"]
  /\ job = [p \in Procs |-> NoJob]
  /\ snap = [p \in Procs |-> Blank]
  /\ handle = [h \in Handlers |-> NoCall]
  /\ tries = [c \in Calls |-> 0]
  /\ outcome = [c \in Calls |-> "none"]
  /\ audit = [c \in Calls |-> {}]
  /\ granted = {}
  /\ doomed = {}

-----------------------------------------------------------------------------
(***************************************************************************)
(* The store.                                                              *)
(***************************************************************************)
Present(j) == store[j].status # "absent"

\* a slip: the error fields of an earlier attempt are left in place
SetStatusKeepsErrors(r, s, e) ==
  [r EXCEPT !.status = s, !.error = IF e # "none" THEN e ELSE @]

\* completed and running overwrite the error fields; any other status only
\* sets them when the caller passes some
SetStatus(r, s, e) ==
  [r EXCEPT !.status = s,
            !.error = IF s \in {"completed", "running"} \/ e # "none" THEN e ELSE @]

\* the record update_job applies its changes to
Base(p) == IF backing = "memory" THEN store[job[p]] ELSE snap[p]

UpdatingPcs == {"set_call", "spawn_failed", "set_cancelled", "set_approved",
                "set_running", "note", "set_completed", "set_failed", "fallback"}

Fetch(p) ==
  /\ backing = "dict"
  /\ pc[p] \in UpdatingPcs
  /\ snap[p].status = "absent"
  /\ Present(job[p])
  /\ snap' = [snap EXCEPT ![p] = store[job[p]]]
  /\ UNCHANGED <<frame, store, pc, job, handle, workVars>>

\* a slip: update_job inserts the record when it is missing
SaveUpsert(p, rec) ==
  /\ store' = [store EXCEPT ![job[p]] = rec]
  /\ snap' = [snap EXCEPT ![p] = Blank]

\* update_job returns: the whole record is put back, changed to rec
Save(p, rec) ==
  /\ Base(p).status # "absent"
  /\ store' = [store EXCEPT ![job[p]] = rec]
  /\ snap' = [snap EXCEPT ![p] = Blank]

\* update_job raises KeyError: there is no record to update
Missing(p) ==
  /\ snap[p].status = "absent"
  /\ ~Present(job[p])

Goto(p, l) ==
  /\ pc' = [pc EXCEPT ![p] = l]
  /\ UNCHANGED job

-----------------------------------------------------------------------------
(***************************************************************************)
(* The routes.                                                             *)
(***************************************************************************)
Respond(h) ==
  /\ pc' = [pc EXCEPT ![h] = "idle"]
  /\ job' = [job EXCEPT ![h] = NoJob]
  /\ handle' = [handle EXCEPT ![h] = NoCall]

Accept(h, j, l) ==
  /\ pc[h] = "idle"
  /\ pc' = [pc EXCEPT ![h] = l]
  /\ job' = [job EXCEPT ![h] = j]

\* create_job and what follows it in a route: a fine-tune waits for approval,
\* any other job is dispatched by the same request
Enqueue(h, j, rec) ==
  /\ pc[h] = "idle"
  /\ j \notin used
  /\ used' = used \cup {j}
  /\ store' = [store EXCEPT ![j] = rec]
  /\ IF rec.type = "finetune" THEN UNCHANGED <<pc, job>> ELSE Accept(h, j, "dispatch")
  /\ UNCHANGED <<backing, granted, doomed, snap, handle, workVars>>

CreateJob(h, j, t) ==
  Enqueue(h, j, [Blank EXCEPT !.type = t, !.status = "pending"])

\* two slips: the whole record is copied; the approval is copied
RetryRecordWhole(r) == [r EXCEPT !.status = "pending", !.error = "none", !.approved = FALSE]
RetryRecordApproved(r) == [Blank EXCEPT !.type = r.type, !.status = "pending",
                           !.approved = r.approved]

\* the new record copies type, urls and options of the old one, and nothing else
RetryRecord(r) == [Blank EXCEPT !.type = r.type, !.status = "pending",
                   !.approved = IF r.type = "finetune" THEN FALSE ELSE r.approved]

\* a slip: a retried fine-tune is treated as any other job
RetryJobUnchecked(h, old, j) ==
  /\ store[old].status \in {"failed", "cancelled"}
  /\ j \notin used
  /\ used' = used \cup {j}
  /\ store' = [store EXCEPT ![j] = RetryRecordApproved(store[old])]
  /\ Accept(h, j, "dispatch")
  /\ UNCHANGED <<backing, granted, doomed, snap, handle, workVars>>

RetryJob(h, old, j) ==
  /\ store[old].status \in {"failed", "cancelled"}
  /\ Enqueue(h, j, RetryRecord(store[old]))

(***************************************************************************)
(* Spawning may create the call and still raise in the caller (the reply   *)
(* of the remote call is lost); it may also raise before anything runs.    *)
(***************************************************************************)
SpawnedCall(h, c) ==
  /\ pc[h] = "dispatch"
  /\ pc[c] = "unspawned"

Spawn(h, c) ==
  /\ SpawnedCall(h, c)
  /\ pc' = [pc EXCEPT ![h] = "set_call", ![c] = "spawned"]
  /\ job' = [job EXCEPT ![c] = job[h]]
  /\ handle' = [handle EXCEPT ![h] = c]
  /\ UNCHANGED <<frame, store, snap, workVars>>

\* a slip: a spawn that raised is sent again
SpawnReplyLostResent(h, c) ==
  /\ SpawnedCall(h, c)
  /\ pc' = [pc EXCEPT ![c] = "spawned"]
  /\ job' = [job EXCEPT ![c] = job[h]]
  /\ UNCHANGED <<frame, store, snap, handle, workVars>>

SpawnReplyLost(h, c) ==
  /\ SpawnedCall(h, c)
  /\ pc' = [pc EXCEPT ![h] = "spawn_failed", ![c] = "spawned"]
  /\ job' = [job EXCEPT ![c] = job[h]]
  /\ UNCHANGED <<frame, store, snap, handle, workVars>>

SpawnRaises(h) ==
  /\ pc[h] = "dispatch"
  /\ Goto(h, "spawn_failed")
  /\ UNCHANGED <<frame, store, snap, handle, workVars>>

\* no spawner configured: the job runs as a background task of the web process
RunInBackground(h, c) ==
  /\ backing = "memory"
  /\ SpawnedCall(h, c)
  /\ pc' = [pc EXCEPT ![h] = "idle", ![c] = "spawned"]
  /\ job' = [job EXCEPT ![c] = job[h], ![h] = NoJob]
  /\ UNCHANGED <<frame, store, snap, handle, workVars>>

\* a slip: the call id is stored together with the status the job was created in
SetCallPending(h) ==
  /\ pc[h] = "set_call"
  /\ Save(h, [Base(h) EXCEPT !.call = handle[h], !.status = "pending"])
  /\ Respond(h)
  /\ UNCHANGED <<frame, workVars>>

SetCall(h) ==
  /\ pc[h] = "set_call"
  /\ Save(h, [Base(h) EXCEPT !.call = handle[h]])
  /\ Respond(h)
  /\ UNCHANGED <<frame, workVars>>

SpawnFailed(h) ==
  /\ pc[h] = "spawn_failed"
  /\ Save(h, SetStatus(Base(h), "failed", "spawn"))
  /\ Respond(h)
  /\ UNCHANGED <<frame, workVars>>

\* the status is checked here; the record is written two steps later
CancelJob(h, j) ==
  /\ store[j].status \in {"pending", "running"}
  /\ Accept(h, j, "set_cancelled")
  /\ \/ doomed' = doomed \cup ({store[j].call} \ {NoCall})
     \/ doomed' = doomed      \* FunctionCall.cancel raised and was swallowed
  /\ UNCHANGED <<backing, used, granted, store, snap, handle, workVars>>

SetCancelled(h) ==
  /\ pc[h] = "set_cancelled"
  /\ Save(h, SetStatus(Base(h), "cancelled", "none"))
  /\ Respond(h)
  /\ UNCHANGED <<frame, workVars>>

ApproveJob(h, j) ==
  /\ store[j].type = "finetune"
  /\ store[j].status = "pending"
  /\ ~store[j].approved
  /\ Accept(h, j, "set_approved")
  /\ granted' = granted \cup {j}
  /\ UNCHANGED <<backing, used, doomed, store, snap, handle, workVars>>

SetApproved(h) ==
  /\ pc[h] = "set_approved"
  /\ Save(h, [Base(h) EXCEPT !.approved = TRUE])
  /\ Goto(h, "dispatch")
  /\ UNCHANGED <<frame, handle, workVars>>

\* the record went away under the request: KeyError, a 500 to the client
HandlerKeyError(h) ==
  /\ pc[h] \in UpdatingPcs
  /\ Missing(h)
  /\ Respond(h)
  /\ UNCHANGED <<frame, store, snap, workVars>>

\* whatever its status, and whoever works on it; the type is kept for the
\* workers that loaded the record before
DeleteJob(h, j) ==
  /\ pc[h] = "idle"
  /\ Present(j)
  /\ store' = [store EXCEPT ![j] = [Blank EXCEPT !.type = store[j].type]]
  /\ UNCHANGED <<frame, pc, job, snap, handle, workVars>>

-----------------------------------------------------------------------------
(***************************************************************************)
(* The worker: run_job around the handler of the job's type.               *)
(***************************************************************************)
Record(c) == store[job[c]]
Type(c)   == Record(c).type

workFrame == <<frame, handle>>

\* the call goes on to l; when it ends its local state goes with it
GotoOrEnd(c, l) ==
  /\ Goto(c, l)
  /\ IF l = "ended" THEN /\ outcome' = [outcome EXCEPT ![c] = "none"]
                         /\ tries' = [tries EXCEPT ![c] = 0]
                    ELSE UNCHANGED <<outcome, tries>>

\* run_job loads the record; a deleted job ends the call with KeyError
StartJob(c) ==
  /\ pc[c] = "spawned"
  /\ GotoOrEnd(c, IF Present(job[c]) THEN "handler" ELSE "ended")
  /\ UNCHANGED <<workFrame, store, snap, audit>>

RunningFinetunes == {j \in Jobs : store[j].type = "finetune" /\ store[j].status = "running"}
StartsToday == {j \in Jobs : /\ store[j].type = "finetune"
                             /\ store[j].status \in {"running", "completed", "failed"}}

DecideTrainStart(r, killSwitch) ==
  /\ ~killSwitch
  /\ r.approved
  /\ Cardinality(RunningFinetunes) < MaxConcurrent
  /\ Cardinality(StartsToday) < MaxRunsPerDay

\* the handler reads the record again and decides: run, or complete at once
RunOrSkip(c, run) ==
  IF run THEN Goto(c, "set_running") /\ UNCHANGED outcome
         ELSE Goto(c, "set_completed") /\ outcome' = [outcome EXCEPT ![c] = "skipped"]

GateFinetune(c) ==
  /\ pc[c] = "handler" /\ Present(job[c]) /\ Type(c) = "finetune"
  /\ \E killSwitch \in BOOLEAN : RunOrSkip(c, DecideTrainStart(Record(c), killSwitch))
  /\ UNCHANGED <<workFrame, store, snap, tries, audit>>

\* the automation gates read configuration and other jobs: either answer
GateAutomation(c) ==
  /\ pc[c] = "handler" /\ Present(job[c]) /\ Type(c) = "automation"
  /\ \E run \in BOOLEAN : RunOrSkip(c, run)
  /\ UNCHANGED <<workFrame, store, snap, tries, audit>>

\* no gate; an option the handler needs may be missing, which raises, a
\* backfill having marked the job failed first
EnterSingle(c) ==
  /\ pc[c] = "handler" /\ Present(job[c]) /\ Type(c) = "single"
  /\ \/ Goto(c, "set_running") /\ UNCHANGED outcome
     \/ /\ Goto(c, "raised") \/ Goto(c, "set_failed")
        /\ outcome' = [outcome EXCEPT ![c] = "error"]
  /\ UNCHANGED <<workFrame, store, snap, tries, audit>>

HandlerGone(c) ==
  /\ pc[c] = "handler" /\ ~Present(job[c])
  /\ Goto(c, "raised")
  /\ outcome' = [outcome EXCEPT ![c] = "error"]
  /\ UNCHANGED <<workFrame, store, snap, tries, audit>>

SetRunning(c) ==
  /\ pc[c] = "set_running"
  /\ Save(c, SetStatus(Base(c), "running", "none"))
  /\ \/ Goto(c, "body")
     \/ Base(c).type = "single" /\ Goto(c, "note")   \* crawl urls, eval run id
  /\ UNCHANGED <<workFrame, workVars>>

(***************************************************************************)
(* The work itself.  An ingest can raise without having marked the job     *)
(* failed (an embedding error after the upsert); a freshness refresh ends  *)
(* as skipped when the host is quarantined.                                *)
(***************************************************************************)
Body(c) ==
  /\ pc[c] = "body"
  /\ \E o \in {"ok", "error", "transient", "skipped"} :
       /\ o \in {"transient", "skipped"} => Type(c) # "single" /\ Type(c) # "finetune"
       /\ outcome' = [outcome EXCEPT ![c] = o]
       /\ \/ o \in {"ok", "skipped"} /\ Goto(c, "set_completed")
          \/ o \in {"error", "transient"} /\ Goto(c, "set_failed")
          \/ o = "error" /\ Type(c) = "single" /\ Goto(c, "raised")
  /\ UNCHANGED <<workFrame, store, snap, tries, audit>>

SetCompleted(c) ==
  /\ pc[c] = "set_completed"
  /\ Save(c, SetStatus(Base(c), "completed", "none"))
  /\ \/ Goto(c, "finish")
     \/ Base(c).type = "automation" /\ Goto(c, "note")   \* history_persist_failed
  /\ UNCHANGED <<workFrame, workVars>>

SetFailed(c) ==
  /\ pc[c] = "set_failed"
  /\ Save(c, SetStatus(Base(c), "failed", "run"))
  /\ \/ Goto(c, "raised")
     \/ Base(c).type = "automation" /\ Goto(c, "note")
  /\ UNCHANGED <<workFrame, workVars>>

\* an update_job of fields not modelled here: the record is rewritten all the same
Note(c) ==
  /\ pc[c] = "note"
  /\ Save(c, Base(c))
  /\ Goto(c, CASE outcome[c] = "none" -> "body"
               [] outcome[c] \in {"ok", "skipped"} -> "finish"
               [] OTHER -> "raised")
  /\ UNCHANGED <<workFrame, workVars>>

\* KeyError inside the handler's try block leads to its except clause, which
\* updates the job once more; outside of it, out of the handler
InsideTry(c) ==
  \/ pc[c] = "note" /\ outcome[c] \in {"none", "ok"}
  \/ pc[c] = "set_completed" /\ outcome[c] = "ok" /\ Type(c) # "finetune"

WorkerKeyError(c) ==
  /\ pc[c] \in UpdatingPcs
  /\ Missing(c)
  /\ \/ /\ pc[c] = "fallback"
        /\ GotoOrEnd(c, "ended")
     \/ /\ pc[c] # "fallback"
        /\ Goto(c, IF InsideTry(c) THEN "set_failed" ELSE "raised")
        /\ outcome' = [outcome EXCEPT ![c] = "error"]
        /\ UNCHANGED tries
  /\ UNCHANGED <<workFrame, store, snap, audit>>

\* a slip: one attempt too many
MayRetryOnce(c) == outcome[c] = "transient" /\ tries[c] <= MaxRetries

\* _dispatch_with_automation_retries
MayRetry(c) == outcome[c] = "transient" /\ tries[c] < MaxRetries

\* a slip: the attempts are not counted
RetryAttemptUncounted(c) ==
  /\ pc[c] = "raised"
  /\ MayRetry(c)
  /\ outcome' = [outcome EXCEPT ![c] = "none"]
  /\ Goto(c, "handler")
  /\ UNCHANGED <<workFrame, store, snap, tries, audit>>

RetryAttempt(c) ==
  /\ pc[c] = "raised"
  /\ MayRetry(c)
  /\ tries' = [tries EXCEPT ![c] = @ + 1]
  /\ outcome' = [outcome EXCEPT ![c] = "none"]
  /\ Goto(c, "handler")
  /\ UNCHANGED <<workFrame, store, snap, audit>>

\* best effort: the write API refuses the event, or cannot be reached, and run_job goes on
Post(c, event) ==
  \E reply \in {"posted", "lost"} : audit' = [audit EXCEPT ![c] = @ \cup {<<event, reply>>}]

(***************************************************************************)
(* The except clause of run_job tests the record it loaded twice: a failed *)
(* job is audited, then a job that is neither completed nor failed is      *)
(* marked failed.  Over the dict both tests see one copy; in memory the    *)
(* second test sees the record as it is by then.                           *)
(***************************************************************************)
Raised(c) ==
  /\ pc[c] = "raised"
  /\ ~MayRetry(c)
  /\ IF Record(c).status = "failed" THEN Post(c, "job.failed") ELSE UNCHANGED audit
  /\ GotoOrEnd(c, IF ~Present(job[c]) THEN "ended"
                  ELSE IF backing = "memory" THEN "recheck"
                  ELSE IF Record(c).status \in {"completed", "failed"} THEN "ended"
                  ELSE "fallback")
  /\ UNCHANGED <<workFrame, store, snap>>

\* a slip: only failed jobs are handled after the work raised
RecheckNothing(c) ==
  /\ pc[c] = "recheck"
  /\ GotoOrEnd(c, "ended")
  /\ UNCHANGED <<workFrame, store, snap, audit>>

Recheck(c) ==
  /\ pc[c] = "recheck"
  /\ GotoOrEnd(c, IF Record(c).status \in {"completed", "failed"} THEN "ended"
                  ELSE "fallback")
  /\ UNCHANGED <<workFrame, store, snap, audit>>

\* a slip: the job is marked failed and nobody is told
FallbackSilent(c) ==
  /\ pc[c] = "fallback"
  /\ Save(c, SetStatus(Base(c), "failed", "run"))
  /\ GotoOrEnd(c, "ended")
  /\ UNCHANGED <<workFrame, audit>>

Fallback(c) ==
  /\ pc[c] = "fallback"
  /\ Save(c, SetStatus(Base(c), "failed", "run"))
  /\ Goto(c, "report")
  /\ UNCHANGED <<workFrame, workVars>>

Report(c) ==
  /\ pc[c] = "report"
  /\ IF Present(job[c]) THEN Post(c, "job.failed") ELSE UNCHANGED audit
  /\ GotoOrEnd(c, "ended")
  /\ UNCHANGED <<workFrame, store, snap>>

Finish(c) ==
  /\ pc[c] = "finish"
  /\ IF Record(c).status = "completed" THEN Post(c, "job.completed") ELSE UNCHANGED audit
  /\ GotoOrEnd(c, "ended")
  /\ UNCHANGED <<workFrame, store, snap>>

(***************************************************************************)
(* A container stops: a timeout, a preemption, a cancelled call, a crash.  *)
(* With the in-memory store nothing would survive it, so only the dict is  *)
(* considered.                                                             *)
(***************************************************************************)
HandlerDies(h) ==
  /\ backing = "dict" /\ pc[h] # "idle"
  /\ Respond(h)
  /\ snap' = [snap EXCEPT ![h] = Blank]
  /\ UNCHANGED <<frame, store, workVars>>

WorkerDies(c) ==
  /\ backing = "dict" /\ pc[c] \notin {"unspawned", "ended"}
  /\ GotoOrEnd(c, "ended")
  /\ snap' = [snap EXCEPT ![c] = Blank]
  /\ UNCHANGED <<workFrame, store, audit>>

-----------------------------------------------------------------------------
Request(h) ==
  \/ \E j \in Submitted, t \in JobTypes : CreateJob(h, j, t)
  \/ \E old \in Jobs, j \in Jobs \ Submitted : RetryJob(h, old, j)
  \/ \E j \in Jobs : CancelJob(h, j) \/ ApproveJob(h, j) \/ DeleteJob(h, j)

HandlerStep(h) ==
  \/ Fetch(h)
  \/ \E c \in Calls : Spawn(h, c) \/ SpawnReplyLost(h, c) \/ RunInBackground(h, c)
  \/ SpawnRaises(h)
  \/ SetCall(h) \/ SpawnFailed(h) \/ SetCancelled(h) \/ SetApproved(h)
  \/ HandlerKeyError(h)

WorkerStep(c) ==
  \/ Fetch(c)
  \/ StartJob(c) \/ GateFinetune(c) \/ GateAutomation(c) \/ EnterSingle(c)
  \/ HandlerGone(c) \/ SetRunning(c) \/ Body(c) \/ SetCompleted(c) \/ SetFailed(c)
  \/ Note(c) \/ WorkerKeyError(c) \/ RetryAttempt(c) \/ Raised(c) \/ Recheck(c)
  \/ Fallback(c) \/ Report(c) \/ Finish(c)

Stop == \/ \E h \in Handlers : HandlerDies(h)
        \/ \E c \in Calls : WorkerDies(c)

Next ==
  \/ \E h \in Handlers : Request(h) \/ HandlerStep(h)
  \/ \E c \in Calls : WorkerStep(c)
  \/ Stop

Spec == Init /\ [][Next]_vars

-----------------------------------------------------------------------------
(***************************************************************************)
(* Properties.                                                             *)
(***************************************************************************)

(***************************************************************************)
(* The error fields say how the job ended: a completed, running or pending *)
(* job shows no error of an earlier attempt, a failed one always shows     *)
(* one, whatever writes overlapped (_apply_status_and_errors).             *)
(***************************************************************************)
ErrorsAgree(r) ==
  /\ r.status \in {"pending", "running", "completed"} => r.error = "none"
  /\ r.status = "failed" => r.error # "none"

ErrorFieldsMatch == \A j \in Jobs : ErrorsAgree(store[j])

(***************************************************************************)
(* Cancelling a job never stops the worker of another one: the call id the *)
(* route reads belongs to the job, also after retries and lost updates.    *)
(***************************************************************************)
CancelStopsOwnJob ==
  [][\A j \in Jobs : \A h \in Handlers : CancelJob(h, j) =>
       \A c \in doomed' \ doomed : job[c] = j]_vars

(***************************************************************************)
(* No fine-tune trains unless an operator approved that very job: neither  *)
(* creating nor retrying one gets it to a GPU.                             *)
(***************************************************************************)
Training(c) == pc[c] \in {"set_running", "body"} /\ Type(c) = "finetune"

TrainNeedsApproval == \A c \in Calls : Training(c) => job[c] \in granted

(***************************************************************************)
(* A job other than a fine-tune is handed to at most one worker, even when *)
(* the reply of the spawn is lost and the route reports a failure.         *)
(***************************************************************************)
OneCallPerJob ==
  \A c, d \in Calls : (c # d /\ job[c] # NoJob /\ job[c] = job[d]) => Type(c) = "finetune"

Active(p) == pc[p] \notin {"idle", "unspawned", "ended"}
Quiet(j)  == \A p \in Procs : job[p] = j => ~Active(p)

Unapproved(j) == store[j].type = "finetune" /\ ~store[j].approved

\* it is completed, failed or cancelled, or a fine-tune that can still be approved
Decided(j) == store[j].status \in Terminal \/ Unapproved(j)

\* if it reads completed, or failed by its work, a worker of it posted that, or sent
\* that event and lost it to the write API
Told(c, event) == \E reply \in {"posted", "lost"} : <<event, reply>> \in audit[c]

Audited(j) ==
  LET Sent(event) == \E c \in Calls : job[c] = j /\ Told(c, event)
  IN /\ store[j].status = "completed" => Sent("job.completed")
     /\ store[j].status = "failed" /\ store[j].error = "run" => Sent("job.failed")

(***************************************************************************)
(* With atomic updates no job is left behind, and the audit trail agrees   *)
(* with its record but for an event that was lost on its way, once no      *)
(* request and no worker is at it any more.                                *)
(***************************************************************************)
Settled ==
  backing = "memory" => \A j \in Jobs : Present(j) /\ Quiet(j) => Decided(j) /\ Audited(j)

(***************************************************************************)
(* With atomic updates every job keeps to the life JobPromise draws,       *)
(* whatever creates, retries, cancels, approvals, deletes and workers      *)
(* overlap: once nobody is at it any more it has ended, for good, or it is *)
(* a fine-tune that waits; the worker a cancel raced with has been and     *)
(* gone by then; and no request or worker that still holds the id of a     *)
(* deleted job brings it back.  Over the dict nothing of the kind holds.   *)
(***************************************************************************)
Where(j) ==
  CASE j \notin used                    -> "new"
    [] j \in used /\ ~Present(j)        -> "gone"
    [] Present(j) /\ ~Quiet(j)          -> "open"
    [] Present(j) /\ Quiet(j) /\ store[j].status \in Terminal -> store[j].status
    [] OTHER                            -> "waiting"

View == [j \in Jobs |-> IF backing = "memory" THEN Where(j) ELSE "new"]

Promise == INSTANCE JobPromise WITH view <- View, Ends <- Terminal

JobsKeepPromise == Promise!PromiseSpec

(***************************************************************************)
(* With atomic updates a job that is tried once ends once: when its worker *)
(* has ended it, it never reads pending or running again.                  *)
(***************************************************************************)
Reopened(j) ==
  /\ store[j].type = "single"
  /\ store[j].status = "completed" \/ (store[j].status = "failed" /\ store[j].error = "run")
  /\ store'[j].status \in {"pending", "running"}

EndsOnce == [][\A j \in Jobs : backing = "memory" => ~Reopened(j)]_vars

(***************************************************************************)
(* Requests are served and spawned workers run: every job comes to rest,   *)
(* its retries included (and Settled says how it then reads).  Only the    *)
(* processes already at work are fair, nobody has to send a request.       *)
(***************************************************************************)
Fairness == /\ \A h \in Handlers : WF_vars(HandlerStep(h))
            /\ \A c \in Calls : WF_vars(WorkerStep(c))

FairSpec == Spec /\ Fairness

JobsComeToRest == \A j \in Jobs : (backing = "memory" /\ Present(j)) ~> []Quiet(j)

-----------------------------------------------------------------------------
(***************************************************************************)
(* What the documents say of the job lifecycle and the code does not do.   *)
(***************************************************************************)

(***************************************************************************)
(* ADR-038, decision 10: "runners check cancelled before continuing".      *)
(***************************************************************************)
RunnersCheckCancelled ==
  [][\A c \in Calls :
       pc[c] = "handler" /\ Record(c).status = "cancelled" => pc'[c] # "set_running"]_vars

(***************************************************************************)
(* data-flow.md, section 9: completed and failed lead nowhere else.        *)
(***************************************************************************)
EndIsFinal == [][\A j \in Jobs : ~Reopened(j)]_vars
=============================================================================
